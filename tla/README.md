# A TLA+ model of the Payment Switching Engine

The repository is a C++ HTTP server that authorises card and account
transactions (ATM, POS, e-commerce, QR, mobile, cardless cash, RingPay) against
one MySQL database. This directory holds TLA+ modules for the parts of it where
threads, database transactions and failures meet, the TLC configurations that
check them on small instances, and TLAPS proofs. Paths below are relative to
`src/`. `PROJECT.json` lists components, runs, mutants, the definition-to-line
map, hazards, findings and theorems.

    tlc -workers 2 -config MCSettlement.cfg MCSettlement.tla
    tlapm AccountLockManagerProofs.tla

## The system

| Component | State | Operations | Speaks to |
|---|---|---|---|
| HTTP router `parser&router.cpp` | rate buckets, metrics, `g_server` | authenticate, rate-limit, parse, idempotency gate, dispatch, answer; shutdown | all others; httplib's thread pool runs each request on a worker |
| Idempotency gate `idempotency.cpp` | table `idempotency_keys` | `checkOrRegister`, `update` | router calls both; each takes a connection |
| Connection pool `Database.cpp` | `allConnections_`, `freeConnections_`, `poolReady_` | `initPool`, `acquire` (wait, ping, heal), `tryAcquire`, `release`, `destroyPool` | every handler, through `ScopedConnection` |
| Account lock manager `include/AccountLockManager.h` | `states_`: counters, `isLocked`, wait queue per account | `acquire`, `release` (hand-off) | every operation that changes an account |
| ATM `atm.cpp` | `accounts`, `transaction_atm`, `g_engineShutdown` | withdrawal, deposit, balance; time-out with a detached reversal | locks, database, Falcon, reversal |
| POS `pos.cpp`, E-commerce `ecom.cpp`, QR `qrcode.cpp` | `accounts`, their table, refund columns | purchase, refund | locks, database, Falcon, FX, ledger |
| Mobile `mobile.cpp` | two `accounts` rows, `transaction_mobile` | transfer between two accounts | two locks in account order |
| Cardless cash `iccw.cpp` | `accounts`, `transaction_iccw` | withdrawal | lock, database, ledger |
| RingPay `ringpay.cpp` | `accounts`, `ringpay_tokens`, `transaction_ringpay` | contactless payment with a simulated network failure | lock, database |
| Reversal `reversal.cpp` | `accounts`, `transaction_reversal`, `reversal_drop_file` | credit back, or queue | lock, database; called by router and ATM |
| Accounts `account.cpp` | `accounts` | add, read, list, freeze, unfreeze | lock (freeze), database |
| 3-D Secure `tds.cpp` | `tds_challenges` | initiate, verify-and-pay | e-commerce channel, two connections |
| Falcon `falcon.cpp` | LRU cache of recent payments | `checkFraud`, `logFraud` | channels before they lock |
| Ledger `accounting.cpp` | `ledger_accounts`, `ledger_entries` | purchase legs, refund legs | inside the channels' transactions |
| Cards `card_mgmt.cpp`, issuing `issue.cpp`, PIN `pin.cpp`, PAN `panencrypted.cpp`, FX `currency_converter.cpp`, auth `auth.cpp` | rows, keys | single statements and pure functions | router, channels |
| Configuration `DbConfig.cpp`, logger `TransactionLogger.cpp` | `db.ini`; log file | load and encrypt; append, rotate | start-up; everyone |

What is hard here, and what makes each component correct:

* **Locks.** Workers run concurrently; a lock is handed from the releaser to a
  waiter without becoming free. Correct: exclusive, exact counters, entries
  erased neither early nor late, credits first, no cycle of waits.
* **Pool.** The mutex is dropped while a session is pinged or healed, sessions
  are identified by addresses that may be reused, the server goes away and comes
  back. Correct: no sharing, one owner per session, no waiter asleep beside a free
  session.
* **Gate.** Insert, look-up, execution and update are separate statements on
  separate connections; each may fail; the engine may stop between them.
  Correct: one effect per key, an answer SUCCESS is true, keys are released.
* **Channels.** Read, check and write are separate statements under an engine
  lock and InnoDB row locks; refunds and reversals refer to other requests; few
  handlers look at the sign of an amount. Correct: no lost update, no overdraft,
  limits and refunds bounded, no deadlock across the two kinds of lock.
* **3-D Secure.** A verification reads, checks, marks and pays in separate
  statements, and holds a connection while the payment draws another. Correct:
  one payment per challenge, none for a late verification, a truthful status, no
  connection leaked, nobody blocked for good.
* **Dispatch, time-outs, shutdown.** Handlers run in asynchronous tasks that may
  outlast their time-out; connections and account locks are drawn in different
  orders; an ATM time-out starts a detached thread; the pool is destroyed at the
  end. Correct: everything is given back, no request touches a destroyed session, an
  answer is final, every request ends.
* **Falcon.** Requests are checked before they lock and long before their rows
  appear; the same-second cache is looked up, asked for and filled in separate
  critical sections. Correct: no dangling iterator, nobody declined without a
  transaction to point at, a bounded excess over the velocity limit.
* **Rate limiter.** The clock is read outside the mutex; windows meet; buckets are
  swept. Correct: a bound on what passes, nobody refused early.
* **Ledger.** Purchases of different customers post to the same accounts, which
  are created on demand, under snapshot reads. Correct: running balances equal the
  entries, books balance, a purchase is not lost for the ledger's sake.
* **Logger.** Somebody removes, empties or replaces the files between its calls; the disk
  fills. Correct: a line that is reported written can be found, none is given up
  lightly, files keep to their bound.
* **Start-up.** The only copy of the database password is replaced by its
  ciphertext. Correct: wherever this is cut off the next start can read it, and an
  engine that serves has left no plain text.

## The modules

| Module | Models | Run | Proofs |
|---|---|---|---|
| `PriorityMutex` | what the lock manager promises (abstract) | | |
| `AccountLockManager` | `include/AccountLockManager.h` and the locking plans of its callers; implements `PriorityMutex` | `locks` | `AccountLockManagerProofs` |
| `ConnectionPool` | `Database.cpp` with the MySQL server as environment | `pool` | `DatabaseProofs` |
| `IdempotencyGate` | `idempotency.cpp` and its callers in the router | `idempotency` | `OnceProofs` |
| `Bank` | what the channels promise about money (abstract) | | |
| `Settlement` | the money operations of all channels, reversal and freezing; implements `Bank` | `settlement` | `SettlementProofs` |
| `ThreeDSecure` | `tds.cpp`: challenges, verification, the payment's second connection | `tds`, `tds-once` | `OnceProofs` |
| `Dispatch` | every handler's order of connections and account locks, the tasks and their time-outs, the ATM reversal thread, shutdown | `dispatch` | `RouterProofs` |
| `Falcon` | `falcon.cpp`: the same-second cache, the velocity rules, and the rows the channels write | `falcon` | `FalconProofs` |
| `RateLimiter` | `rateLimitOK` in the router | `ratelimit` | `RouterProofs` |
| `Ledger` | `accounting.cpp` and its statements, in transactions under REPEATABLE READ | `ledger` | `RecordsProofs` |
| `Logger` | `TransactionLogger.cpp` against a file system that others change | `logger` | `RecordsProofs` |
| `Startup` | `main`, `DbConfig::load`, `Database::initPool` with kills and lost power | `startup` | `DatabaseProofs` |

Each `MC...` module gives the constants of one module their values for TLC. A module
of proofs covers one part of the engine, the router or the database for instance, and
extends the models of that part; where two models are proved about together the
second has prefixed names (`RLInit`, `TdsInit`, `StartupInit`, `LedgerInit`). `Sums` holds the
lemmas about finite sets and sums that the others cite.

### AccountLockManager

`states_` is split into one function per field (`activeCredits`, `activeDebits`,
`isLocked`, `waiters`), `known` being its domain. `acquire` is `AcquireFree` or
`AcquireBusy` followed by `Wake`; `release` is `HandOff` or `Unlock`. Both run
under `mutex_`, so each is one step; only the wait inside `cv.wait` splits one in
two, and the window between `ready = true` and the wake-up is a state of its own
(`Owns` counts it as ownership). A thread's `plan` is what its channel locks: one
account, or for a mobile transfer two in ascending order. The 50 ms head start of
credits is timing, not order, and is left to the interleaving.

### ConnectionPool

A session is an address of a small set, so an address can be reused after
`delete`, which the slot search after healing depends on. `acquire` is `Ask` /
`Recheck` / `TimeOut`, then `PingOk`, or `PingFail`, the attempts of
`healSession_`, and `Relink` or `Unlink`. An attempt is `createSession_`'s two
statements, `NewSession` and `UseSchema`, either of which may fail: when USE does,
the session that was just made stays connected and nobody has it (`leaked`). After
`Retries` failures (`HEALTH_CHECK_RETRIES`) the slot is given up. Other stretches
between two operations on `poolMutex_` are one step. `release` is `Push` under the mutex and `Notify` after it. `notified`
models `poolCV_`: a woken thread must still take the mutex and find the queue
non-empty. `Destroy` needs all workers idle: `main` joins them by leaving
`listen`. The server goes down, returns, drops single connections and refuses
USE, at most `MaxFaults` times. `tryAcquire` has no caller today; it is modelled as part of
the interface. `initPool` with its retries is in `Startup`; here the model starts with any
non-empty set of connections it could have made, and with any it lost. Not modelled: `poolHealth` (a read), and the
legacy session of `getSession`, which is outside the pool.

### IdempotencyGate

One row per key, and per request the step it is at. Rejections before the gate
differ by route: a direct route does not touch the row (`Refuse`), whereas
`POST /transaction/initiate` updates it through `finish()`
(`RejectThroughFinish`). `LetThrough` is the fail-open path. The handler's commit
and its answer are separate steps because a channel's time-out can answer
DECLINED in spite of a commit. An answer is its HTTP status and whether its body says
SUCCESS: `httpStatusFor` gives 200 to whatever has no `errorCode`, so a declined,
blocked, failed or queued request is 200 too (`Other(200)`), is stored COMPLETED and
is replayed. What can be asked of the gate is therefore that SUCCESS is true. `update` and `lastUpdate` tell whether an
exception of `update()` is caught by the route's handler, which calls `finish()`
a second time, or ends the request. `Crash` loses every request under way and
keeps the rows. `registered`, `executed`, `answered` and `cutShort` are history
for the properties only. The request path is stored but never compared by the
code, so it is not in the model.

### Bank and Settlement

Each operation is a record that maps a step to its successor (`Withdrawal`,
`Deposit`, ...), and `Plan` collects them: that is where the channels differ, for
instance a withdrawal reads the balance before the limit, a deposit after it, and
RingPay its limit before it locks. The steps themselves are shared actions:
`CheckFrozen`, `Find`, `Lock`, `LockOriginal`, `ReadBalance`, `ReadLimit`,
`Mark` or `MarkFails` (a reversal's UPDATE of the row it reverses), `Refuse`,
`Settle` or `SetFrozen` (the commit), `AutoReverse`, `LoseCredit`, `Fail`, `Leave`.
`rows` and `lockedOriginal` are InnoDB's row locks, `holds` the engine's locks
(`AccountLockManager` reduced to what `PriorityMutex` promises about exclusion). Writes
become visible at the commit.

A refund looks its purchase up FOR UPDATE by a column without an index, so it locks
every row of the channel's table and the gap new rows go to; a reversal's mark locks one
row, by its primary key. `AwaitsTable` and `AwaitsRow` say who waits for whom. The one
circle that is left, between a POS refund that found no account to lock and a reversal
or another request whose row is in that table, is all row locks: InnoDB ends it by
rolling one of the two back. For all operations that is one more cause of `Fail`. But
the mark swallows its error, so a reversal that was rolled back goes on to a COMMIT of
nothing and is answered REVERSED: `LoseCredit`, the exception in `ReversedIsCredited`.

Amounts and fees have a sign. `Valid` is who checks the amount: purchases, cardless cash
and reversals; POS refunds do in `Refundable`. Deposits, transfers, withdrawals, RingPay
and refunds by ECOM and QR do not, and nobody checks the fee. Debits compare the sum with
the balance, which keeps it from falling below zero whatever the sign; what is booked as
a credit compares nothing (`TakenUnasked`). The hourly window slides: the rows of
`hourly` leave it one by one, the oldest first (`HourPasses`).

`Bank` has no locks and no reads: a request posts at most once, in one step, to
the balances of that moment, and a payment only if the payer can afford it. The
refinement says that no interleaving loses an update, doubles one or misplaces one.

Abstractions: a request starts after its card, PIN, fraud and FX checks, which
read and write nothing of this state; `Fail` stands for every check or statement
inside the transaction that the model has no data for (RingPay's merchant limit
and risk score among them) and for any database error; amounts are integers, the cents
that the columns, decimals with two digits, keep (what a request asks below a cent is
not modelled); the code computes in doubles, which matters where two are compared for
equality: the flag of a refund is either of what that comparison can give (`FlagsFor`);
one calendar day; each worker runs one request, so a worker names the row it commits; the
two locks of a transfer are released in one step, which hides no state, since a
lock that is released earlier only lets others go earlier; a POS refund of a row that is no
purchase is refused like one that is not found; a refund locks its table in one step, and
does not wait there for rows that other open transactions have just inserted (those go in
and out at the commit); a reversal marks a row of any channel, and a row it names that is
not there locks nothing.

### ThreeDSecure

A row of `tds_challenges` is its `status`, and `lapsed` says whether `expires_at`
has passed. A verification is `ReceiveVerify`, `Connect`, `Read`, then `Expire` or
`CompareOtp`, `Mark`, `Connect` again and `Pay` or `PayRefused`, `Finish`: each
statement of the code that other workers can run in between is a step. `Fail` is
an exception of any of them, with and without its effect on the row. Both kinds
of request draw from the same pool, reduced to the number of free sessions;
`ConnectTimeOut` needs that none is free. The payment is one step, since nothing
in it looks at the challenge; it may commit and still be answered with an error,
so the answer is not in the model. `late` and `paid` are history. A wrong password
is a request with `rightOtp` false; the code does not count attempts. Challenge
ids, which join the time in milliseconds and five random digits, are taken to differ. The connections of
authentication and of the idempotency gate are drawn and returned before and
after the handler and are left out.

### Dispatch

A *job* is a handler's work on a request, or the reversal that an ATM time-out
starts. Its `todo` is the sequence of things it draws, from one plan per handler
(`AtmPlan`, ..., `VerifyPlan`): that is where they differ. Freezing locks its account
before it has a connection, all others draw the connection first, a verification
draws two. The time spent in card, PIN, fraud and limit checks is not a step; their
refusals are `Fail`, which an exception is too: both leave the scopes of
connection and locks (`End`), except that a reversal which throws gives back what it has
and draws a new connection for the drop file (`Throw`). `SessionTimeOut` is
`acquire()` giving up.

`TimeOut` is `wait_for` of the handler. It has no deadline: it may come at any
moment before the task ends. It does not stop the task, and the worker stays with
it: the future of `std::async` joins its task when it is destroyed at the
handler's return, so `Reply` needs the task to have ended. The tasks of an
`/initiate` request and of a direct route do not differ here. `StartReversal` is
the detached thread reading `g_engineShutdown`, once. Its reversal has the account
number that the request's data hold as `_resolvedAccountNumber`. No code sets it, and
without it the reversal is refused before it draws a connection; but the data are the
client's, who may send it, and then the reversal does its work (`AutoReversalPlans` has
both). After `destroyPool` a job that still has a session puts the deleted one back into
the queue, from where another may draw it (`dangling`, `Free`). `Signal`, `StopServer` and `Destroy` are the signal
handler's two statements and `destroyPool()` after `listen()`, which serves what
is queued and joins the workers. Left out: a queue at its limit
(`MAX_QUEUED_REQUESTS`: the connection is closed, no request begins) and sessions that fail
to heal (`ConnectionPool`).

### Falcon

`Arrive` is the entry of `sameSecond_`, which reads the clock; `Hit`, `Stale` and
`Miss` are its first critical section, `Query` the database's answer, `Fill` the
second critical section with `Evicted`. A list node is its address, since what can
go wrong is an iterator in `lruMap_` that leads nowhere or to a node of another key:
`Stale` erases the map entry and leaves the node, as the code does, and eviction
erases the key of the last node whatever the map holds for it. `Velocity` and
`CrossVelocity` are the two COUNTs; a query that fails matches nothing
(`QueryFails`). What follows the check is the channel's: `Write` fixes
`created_at`, `Commit` shows the row, with every interleaving in between. A POS refund
writes a row to the same table and asks no rule before (`RefundArrives`, `CommitRefund`;
`Unchecked` names such tables; ECOM and QR check their refunds); its rows count for the
rules and are kept apart in `refunds` for the property only. Time is in
seconds and all clocks are one. The AI score, the amount spike, card and account
checks come before or after and are refusals without a cause; the `FIFO` policy is
selected by nothing; the row of a decline (`logFraud`) is read by no rule.

### RateLimiter

`ReadClock` and `Count` are the two halves of `rateLimitOK`: the time is read before
`g_rateMutex` is taken. `Swept` is the eviction of stale buckets, `Current` the
window's restart. `MaxStall` bounds how long a thread is kept between the two
halves: without it a thread could begin a window with a time long past, and a third
window's worth would pass. `admitted` is history.

### Ledger

A transaction's `steps` are the calls `PurchaseLegs` and `RefundLegs` make, in their
order: `get` is `getOrCreateLedgerAccount`, `post` is `postLedgerEntry`. The first
plain SELECT of a transaction takes its `view`; `INSERT IGNORE` and `UPDATE` see the
rows as they are and wait for rows another open transaction has inserted or changed.
Hence `NotFound`: an account younger than the view is neither inserted nor seen, and the
code throws. Transactions of one customer exclude each other (`Begin`), as account
locks and the account's row make them. Entries and balances of open transactions are in
`entries` and `balance` at once and are taken back by `Rollback`. Requests are
inputs: a kind, a merchant or none, and total, fee and markup in cents, of any sign, since
no channel checks the fee's. `Unbooked` is what of a request no leg carries. Amounts below
a cent, which the DECIMAL columns round leg by leg, are left out. Two open
transactions cannot wait for each other in a circle through rows, since one
transaction knows one merchant and all post in one order; what InnoDB's gap locks add to
that ends in a rollback by the database, which is `Fails`.

### Logger

Each file system call of `log()` and of what it calls is an action, in the order of
the code: `EnsureInitialized`, `CheckDirectory`, `CheckFile`, `CheckSize`, `Rotate`,
`OpenNewFile`, `WriteHeader`, `WritePayload`, `CheckStillThere`, each with the way it
fails. `after` is where the code returns to when a new file has its header. Between
any two of them `RemoveFile`, `RemoveDirectory`, `Truncate` and `Replace` may happen,
`MaxFaults` times in all. A file is an inode and its path a name that may be gone
while the stream is still open, which is the case the code's checks exist for. `fd_`
is a second descriptor for `fsync` and may stand for another file than the stream. A sync
may fail, which the code does not notice (`WritePayload`; `unsynced` is history). The mutex makes the
calls sequential, so there are no threads. Left out: formatting, redaction, the
severities, the thread-local context and the time-stamped names beyond their being
new.

### Startup

A file is what its reader gets: plain text, whole ciphertext, something broken, or
nothing. `Read` to `WriteIni` are `DbConfig::load`, with the temporary file, the
rename and the fallback that truncates `db.ini`; a stream writes when it is closed and
its state is not looked at (`Write`). `Connect` and `ConnectFails` are the loops of
`initPool`. `Kill`, `PowerLost` and failing calls may come anywhere, `MaxAccidents`
times; pages that were never synced may be lost. `mishaps` names the three cases the
code has no answer to, so that the invariants say what holds otherwise.

## The runs

| Run | Bounds | Why they are enough | Shows |
|---|---|---|---|
| `locks` | 3 threads, 2 accounts, 2 transactions each | two opposite transfers and a third contender; a second round meets entries that were erased | exclusion, exact counters and entries, no waiting cycle, every transaction ends, `PriorityMutex` (credits first) is implemented |
| `pool` | 3 threads, 2 slots, 2 attempts, 3 addresses, 3 uses in all, 2 faults | one thread must wait, two can heal at once, one session can be lost and its attempt repeated, a healed session may reuse a deleted address | no sharing, one owner per session but for those lost to a failing USE, waiters are served without their time-out |
| `idempotency` | 3 requests, 1 key, both routes, 2 faults | a first attempt, a duplicate and a retry; keys do not interact, except that a crash ends all requests | one effect per key, SUCCESS is true, who rewrites rows, keys are released |
| `settlement` | 3 workers, 2 accounts, 23 offers | every pair of operations and a third party; amounts make each limit, balance and refund bound met exactly and missed by one; negative amounts and fees among them; every transfer may leave the hour | no overdraft but by a negative credit, limits, refunds, no standstill, who is told REVERSED is credited but for one deadlock, `Bank` is implemented |
| `tds` | 3 workers, 2 requests each, 1 challenge, 3 connections | three verifications that hold one connection each starve each other; two have room to pay together; a second request comes late; challenges interact through connections only | late verifications never pay, status is truthful, no leak, every request ends |
| `tds-once` | the same | with two connections the pool alone would keep payments apart | violation: two overlapping verifications pay |
| `dispatch` | 2 requests of each pair of kinds, 2 connections, 2 accounts | a verification needs both connections; a freeze and any other handler each hold what the other wants; shutdown at every moment; the ATM's reversal with and without an account | all is given back, no request uses a destroyed session, answers are final, no standing block |
| `falcon` | 2 workers, 1 account, 2 tables, 3 nodes, cache of 1, limit 2, 4 requests or unchecked refunds, times 0 to 4, 1 failure | two keys fight for one entry, so every fill evicts; a stale node and two live ones; windows pass; a third checked row is one too many | no dangling iterator, declined for a row, bounded velocity excess |
| `ratelimit` | 2 threads, 2 clients, limit 1, window 2, sweep every 2 calls, times 0 to 7 | two windows meet and a third begins; a bucket is stale from the fifth second after it began, when the other client's calls sweep it, and its client comes back | twice the limit within a window at most, no early refusal |
| `ledger` | 2 workers, 2 customers, 1 merchant, 4 transactions, 1 failure | the merchant's account is created, rolled back and created again under the other's view; every leg present and absent; a negative fee | balances equal entries, books balance, at most one purchase lost |
| `logger` | 3 lines, 3 attempts, files of 3 writes, 3 faults | as many faults as one line has attempts; rotation after two lines | lines are kept, not given up early, files bounded |
| `startup` | 2 slots, 2 attempts, 3 faults | a failed rename, a kill in the fallback and one more | `db.ini` survives, no plain text when serving |

Symmetry is used in `settlement`, `falcon`, `ratelimit` and `ledger`: no definition
or property tells the permuted values apart, and no liveness is checked there.

A property that a theorem proves for every value of the constants and that could
only be the type of the state (`TypeOK` of the modules with proofs) is not checked by
a run again.

Fairness. `locks`: weak fairness of each thread's own steps (the operating system
schedules threads and grants mutexes; handlers return); arrivals are not fair.
With unboundedly many credits a debit may wait for ever, by the design of the
priority; `EveryTransactionEnds` says that nothing else can delay it. `pool`: weak
fairness of threads and of the server's return; none of the 5 s time-out, so that
`WaitersServed` shows waiting ends by itself. `idempotency`: weak fairness of a
request's own steps; clients and faults are free. `tds` and `dispatch`: weak fairness of the
steps of workers and jobs, which includes the time-out of a wait for a
connection (`wait_for` with `POOL_TIMEOUT_MS` does return) and an account lock that
stays free; none of the handlers' time-outs, failures, arrivals or the signal.
Without the pool's time-out `EveryRequestEnds` fails in both, which their mutants show.

The other runs check safety and state no fairness.

Deadlock is checked in every run: `Finished` and `Stopped` are the states where
the bounded system may rest.

Each property has a mutant in `PROJECT.json`: a definition and a slip of it that a
programmer could make (a dropped guard, a forgotten notify, a limit read before
the lock), kept beside it in the module, under which TLC finds the property violated.

## What the model found

One run ends in a violation of what the repository says of itself:

* `tds-once`: a 3-D Secure challenge is paid twice by overlapping verifications
  (`README.md:740` says it can be verified once).

The other disagreements are listed under "findings"; the models follow the code, and the
properties name the exception, so that anything beyond it is caught:

* Pool: a failed heal empties its slot for good (`README.md:103`); when USE fails after
  the session was made, the session stays connected and no slot or thread has it
  (`README.md:78`; `leaked` in `SlotsOwnSessions`).
* Gate: a retry rejected before the gate overwrites the success of its key
  (`README.md:999`; `CompletedRewrittenOnlyByRejected`); a request declined, blocked, failed or queued
  without an `errorCode` is answered and stored as 200 COMPLETED; `/transaction/initiate`
  counts errors as successes.
* Money: a transfer to the same account creates money (`OwnTransfer` in `Bank`); a
  reversal can be applied any number of times; one that is rolled back in a deadlock
  swallows the error and is answered "Reversal successful" (`reversal.cpp:380`;
  `ReversedIsCredited`); freezing stops RingPay only; RingPay's
  daily limit is read outside the lock (`LimitsKept` leaves it out); a POS purchase is
  refunded once only; the drop file is never replayed. Negative deposits, transfers and
  refunds debit accounts unasked (`NoOverdraft` names them), and a negative transfer that
  leaves the hour lets the rest exceed its limit (`LimitsKept`); an ECOM purchase refunded
  in parts may keep PR and a refund of zero sets it; a POS refund returns a negative fee
  that was never paid.
* Tasks: a handler's time-out is answered only when its task has ended; the reversal
  of an ATM time-out lacks its account number and is refused, unless the client sent it;
  then it tests the shutdown flag once, and the pool may be destroyed before it draws or
  returns its connection (`atm.cpp:486-488`; `NoHandlerAfterDestroy` is about all others).
* Falcon: stale nodes stay in the list, which grows without bound, and a node of an old
  key can cost a fresh one its map entry; duplicates are declined for up to two
  windows; the velocity limit is one transaction stricter than its message alone and
  looser under concurrency; POS refunds count for it and are not checked.
* Rate limiter: a fixed window, not the sliding one that is documented
  (`README.md:1092`).
* Ledger: entries do not balance without a merchant, with a negative share or with a
  negative fee, nor below a cent; a
  purchase is rolled back when its merchant's account is younger than its view.
* Logger: when `fsync` failed (`TransactionLogger.cpp:614-620`), after a file became smaller, or when the descriptor could not be opened, lines
  are acknowledged without a sync of their file; a line can be written twice.
* Start-up: the fallback of a failed rename, a short write, and power lost before the
  pages are written each cost the database password.

`SuccessIsReal` and `AtMostOnePerKey` hold in spite of the fail-open path because
they name its price: each further effect of a key costs a database failure.
`NoHandlerAfterDestroy` and `NoCommitAfterAnswer` hold because of the future's
destructor, not because of any cancellation or of the shutdown flag: were a timed-out task
left to itself, as in their mutant, it would meet a destroyed pool. `SlotsOwnSessions` holds although a healing thread compares with the
address of a session it has deleted: if the allocator has given that address to
another thread's session, the two threads swap slots and none is lost.

## What is proved

Each theorem is about the specification of its module (`Spec`, or `RLSpec`, `LedgerSpec`
and the like where there are two), for every value of the constants that
satisfies the module's named assumption, and from nothing else. The properties
are seldom inductive alone; each module of proofs states an `IInv` that is, and has one
lemma per action or per conjunct.

* **`AccountLockManagerProofs`** (any finite set of threads, any accounts, any
  number of transactions): `TypeCorrect`, `LockIsExclusive`, `BookkeepingIsExact`,
  `NoWaitingCycle`, `CreditsGoFirst`, and `Refinement`, `Spec => Abstract!Spec`. `IInv`
  adds three parts. `NodesOK`: a thread is in the queue of an account exactly while
  it waits for it and nobody has handed it the lock. `PlansOK`: a thread holds a
  prefix of its plan and waits for the next account. `LocksOK`: `isLocked` says
  whether someone owns the account, and an account with waiters is locked, so the
  next release serves them. Two facts fall out that the code only hopes for:
  `CreditsImplyLocked` (the second half of `shouldWait` never decides) and, from the
  queue's order and the counters, that a popped DEBIT never leaves a credit behind,
  which the comment at line 111 of the header claims.
* **`DatabaseProofs`**, pool (any threads, size, addresses, faults): `TypeCorrect`,
  `UseIsExclusive`, `SlotsKept`. A session lost to a failing USE belongs to nobody for good
  (it is never in a slot, in the queue or with a thread), every other one to one slot. A
  thread counts as a holder from the moment it has created a session in healing, before
  the slot knows of it (`Holders`). For the slots
  the count must be exact at every step: the number of slots with address x is one if a
  session lives there whose thread has entered it, and one for each thread that heals an
  older session of that address (`Owned`), since the allocator may give one address to
  both. Which slot the search then finds does not matter, only how many there are.
  Start-up (any pool, attempts, faults): `StartupTyped`, `ConfigKept`,
  `EncryptedWhenServing`. The temporary file is ciphertext when it takes the place
  of `db.ini`, unless a mishap happened (`LoadOK`).
* **`SettlementProofs`** (any workers, accounts, offers, opening balances of at least
  zero, limits; nothing is assumed of the sign of amounts and fees): `TypeCorrect`,
  `NeverOverdrawn`, `WithinTheLimits`, `RefundsWithinPurchase`, `NeverAllBlocked`,
  `ReversalsAreTold`, and `Refinement`, `Spec => Abstract!Spec`. The invariant says what each
  lock is for. `RowsOK`: rows are locked by one transaction, upwards, and what it has
  `seen` of them is still the balance, so nobody is overdrawn by what was compared and a
  commit posts what `Bank` says. `HoldsOK`: the engine's locks are exclusive and held from
  the first check to the end; two requests that are past a limit of one window therefore
  hold different accounts, and each still fits (`LimitsOK`), the hourly SUM being the sum of
  the rows in the window (`HourlyOK`), which can only grow smaller while all are positive.
  `OriginalsOK`: a refund that has locked its purchase may still be made, and nobody else
  has that purchase. `NeverAllBlocked` combines the orders: engine locks, tables, balance
  rows, and accounts upwards within each kind. A POS refund without an account steps out of
  this order, and so does a reversal, whose mark comes after its balance row. A circle
  through a mark has such a refund in it (`DeadlockedBy`), and is one of two; of finitely many
  blocked requests without one, the one that waits for the highest account of the last kind
  waits for nobody blocked.
* **`OnceProofs`**, gate (any requests, keys, routes, faults): `TypeCorrect`,
  `OnePerKey`, `SuccessOnlyIfReal`, `RewrittenOnlyByRejected`. A row is never
  deleted, so one request owns a key (`Owned`); a stored or carried SUCCESS comes from a
  commit (`True`); as long as nothing failed who runs owns the row (`Unfailed`); and
  the requests that passed without a row (`LetIn`) are no more than the faults.
  3-D Secure (any finite set of workers, any challenges, connections, requests):
  `TdsTyped`, `SessionsAccounted`, `LateNeverPays`, `StatusIsTrue`.
  `ParkOnce`: while an initiation is under way its challenge has no row and no other
  initiation has the same id, so parking never turns a used challenge back to
  PENDING. `LateIsRefused`: a late verification's challenge stays used or lapsed
  until it ends, so it never gets past its checks.
* **`RouterProofs`**, dispatch (any requests, accounts, sequences of locks, connections):
  `TypeCorrect`, `NothingLeftBehind`, `PoolOutlivesItsHandlers`, `AnswerIsLast`. The type
  says that only a verification holds two connections, which follows from what is left of
  each job's plan (`FewDraws`); a handler runs only while its worker waits for it
  (`Awaited`), and the pool goes when every request is answered (`AnsweredFirst`), so no
  handler meets a destroyed pool; only a withdrawal's reversal runs later.
  Rate limiter (any clients, threads, limit, window, sweeps): `BucketsTyped`, in which a
  bucket never counts more than the limit, `TwiceAtMost` and `RefusedAtTheLimit`. The
  invariant (`WindowsInv`) relates buckets to what was let through, which the code does not
  record: what a bucket counts was let through since it began, what earlier buckets let
  through is long ago, and a bucket the sweep forgot was long over. Any stretch of the
  stated length meets two buckets at most. It is the window less `MaxStall`: a thread that
  read the clock long ago may begin a bucket in the past.
* **`FalconProofs`** (any accounts, tables, cache size, windows, workers):
  `TypeCorrect`, `NothingDangles`, `DeclinedForARow`. A node of the list stands for
  a row (`NodesHaveRows`), which was there when the node was made and stays, and so does a
  match on its way to the cache (`Working`). `ExcessIsBounded` (any finite sets of workers
  and tables): an account's rows within the window, with the workers that are past the rule
  and bring another, never exceed the limit less one, plus the workers, plus the queries
  that failed (`ExcessInv`). Who passes has counted fewer rows than the limit, and no more
  workers than there are can be past the rule; a query that failed counts nothing. The
  unchecked refunds only add to what the rule counts.
* **`RecordsProofs`**, log (any lines, attempts, bound, faults): `TypeCorrect`, `BoundKept`,
  `KeptOnDisk`, `GivenUpOnlyForCause`. `Streams` says which file a step writes to and
  that no file has two names; `Counted`, that every attempt but the last has cost a
  fault; `Kept`, what the line just written can rely on; `Bounded`, how large the
  file may be at each step.
  Ledger (any finite, non-empty set of workers, any customers, merchants, requests):
  `BalancesReconcile`, `CommittedBalances`, `OnlyTheFirstIsLost`. The invariant
  (`BooksInv`) follows a transaction through its steps: the legs it has posted and those it
  is going to post are the legs of its request, each once, on different accounts, and each
  for a row that will be there when its turn comes (`Ahead`); a transaction that has ended
  has all its legs or none (`AllOrNone`). So what is committed is a whole request, whose
  sum is arithmetic, and a rollback takes back no row another one posted to. For the losses:
  once a merchant's account is committed, the purchases lost for it and the workers whose
  view is older than it are together fewer than the workers, since who inserted it does
  see it (`LossesOf`); before that none is lost. A loss turns
  one of those workers into a lost purchase, and later views have the account.
* **`Sums`** (any sets): what the sum of a function over a finite set, the community
  modules' `SumFunctionOnSet`, does when the set or the function changes in one place, when
  the set is split, or when one function is nowhere less than another. Its recursion lies behind a
  recursive function over finite sets, and induction over these is done without the theorem that
  takes the induction hypothesis as an operator: the smallest set for which a claim failed
  would be a minimal element of a well-founded order (`FS_StrictSubsetOrderingWellFounded`,
  `WFMin`), and it has none.

Only model-checked: liveness (`EveryTransactionEnds`, `WaitersServed`,
`KeyReleased`, `EveryRequestEnds`), which the prover does not do under fairness. Every
invariant and every action property of the passing runs is a theorem, and so are the two
refinements.

## What is not modelled

* `auth.cpp`, `panencrypted.cpp`: cryptography and stateless checks; the models have
  their outcomes.
* `issue.cpp`, `pin.cpp`, `currency_converter.cpp`: random digits, hashes,
  floating-point arithmetic of single calls.
* `card_mgmt.cpp`: single statements on a card's row, which no other modelled part
  reads but as a refusal.
* The JSON, HTTP and MySQL libraries under `include/` are third-party code; what the engine
  needs of them (the thread pool, `listen`'s return, transactions) is in the models as
  environment. They are most of the lines under `src/`: of the engine's own lines
  about two fifths are mapped to a definition.
* Parsing, formatting and validation of requests, metrics, the admin page, `poolHealth`.

## What could come next

RingPay's token table, merchant limit and risk score, and the life of a card, if other
parts come to depend on them.
