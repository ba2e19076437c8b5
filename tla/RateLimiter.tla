---------------------------- MODULE RateLimiter ----------------------------
(***************************************************************************)
(* The router's limit on the requests of one client address (rateLimitOK,  *)
(* parser&router.cpp): a fixed window per client, and a sweep of old       *)
(* buckets every so many calls.  All of it runs under g_rateMutex, but the *)
(* clock is read before the mutex is taken: threads may enter with times   *)
(* in another order, and with times that are past.                         *)
(***************************************************************************)
EXTENDS Integers, FiniteSets, Functions

CONSTANTS
  Threads,    \* the server's worker threads
  Clients,    \* client addresses
  NoClient,
  Max,        \* RATE_LIMIT_MAX
  Window,     \* RATE_LIMIT_WINDOW
  SweepEvery, \* EVICTION_INTERVAL_REQUESTS
  MaxStall,   \* the longest a thread is kept between clock and mutex (a bound)
  MaxTime     \* how long the model runs after its start (a bound)

ASSUME RateLimiterAssumption ==
  /\ Max \in Nat \ {0} /\ Window \in Nat \ {0} /\ SweepEvery \in Nat \ {0}
  /\ MaxStall \in Nat /\ MaxTime \in Nat

(* The clock shows seconds since 1970: far more than a window. *)
Epoch == 3 * Window
Times == Epoch..(Epoch + MaxTime)

StaleBucketTtl == 2 * Window

(* A bucket that operator[] has just made. *)
NewBucket == [count |-> 0, windowStart |-> 0]

VARIABLES
  time,
  thread, client, now, \* a thread, its request's client and the time it read
  buckets,         \* g_rateBuckets, a function on the clients it has
  evictionCounter, \* g_evictionCounter
  admitted         \* admitted[c][t]: requests of c let through at t (history)

rlVars == <<time, thread, client, now, buckets, evictionCounter, admitted>>

RLInit ==
  /\ time = Epoch
  /\ thread = [w \in Threads |-> "idle"]
  /\ client = [w \in Threads |-> NoClient]
  /\ now = [w \in Threads |-> 0]
  /\ buckets = [c \in {} |-> NewBucket]
  /\ evictionCounter = 0
  /\ admitted = [c \in Clients |-> [t \in Times |-> 0]]

(* A request arrives and rateLimitOK reads the clock. *)
ReadClock(w) ==
  /\ thread[w] = "idle"
  /\ thread' = [thread EXCEPT ![w] = "clock"]
  /\ \E c \in Clients : client' = [client EXCEPT ![w] = c]
  /\ now' = [now EXCEPT ![w] = time]
  /\ UNCHANGED <<time, buckets, evictionCounter, admitted>>

(* A slip in Swept: buckets older than nothing are forgotten. *)
SweptAll(t) ==
  IF evictionCounter + 1 < SweepEvery THEN buckets
  ELSE Restrict(buckets, {c \in DOMAIN buckets : t - buckets[c].windowStart <= 0})

(* Every SweepEvery calls, buckets that began too long before t are erased. *)
Swept(t) ==
  IF evictionCounter + 1 < SweepEvery THEN buckets
  ELSE Restrict(buckets, {c \in DOMAIN buckets : t - buckets[c].windowStart <= StaleBucketTtl})

(* A slip in Current: the count goes on in the new window. *)
CurrentUncleared(b, t) ==
  IF t - b.windowStart >= Window THEN [b EXCEPT !.windowStart = t] ELSE b

(* The bucket as a request of time t finds it: in a new window once the    *)
(* old one is over.                                                        *)
Current(b, t) ==
  IF t - b.windowStart >= Window THEN [count |-> 0, windowStart |-> t] ELSE b

Count(w) ==
  LET c == client[w]
      kept == Swept(now[w])
      b == Current(IF c \in DOMAIN kept THEN kept[c] ELSE NewBucket, now[w])
      ok == b.count < Max
  IN
  /\ thread[w] = "clock"
  /\ evictionCounter' = IF evictionCounter + 1 < SweepEvery THEN evictionCounter + 1 ELSE 0
  /\ buckets' = [x \in DOMAIN kept \cup {c} |->
                   IF x # c THEN kept[x]
                   ELSE IF ok THEN [b EXCEPT !.count = @ + 1] ELSE b]
  /\ admitted' = IF ok THEN [admitted EXCEPT ![c][time] = @ + 1] ELSE admitted
  /\ thread' = [thread EXCEPT ![w] = "idle"]
  /\ client' = [client EXCEPT ![w] = NoClient]
  /\ now' = [now EXCEPT ![w] = 0]
  /\ UNCHANGED time

(* No thread is kept longer than MaxStall. *)
Tick ==
  /\ time < Epoch + MaxTime
  /\ \A w \in Threads : thread[w] = "clock" => time - now[w] < MaxStall
  /\ time' = time + 1
  /\ UNCHANGED <<thread, client, now, buckets, evictionCounter, admitted>>

RLNext == Tick \/ \E w \in Threads : ReadClock(w) \/ Count(w)

RLSpec == RLInit /\ [][RLNext]_rlVars

(***************************************************************************)
(* Properties                                                              *)
(***************************************************************************)

RLTypeOK ==
  /\ time \in Times
  /\ thread \in [Threads -> {"idle", "clock"}]
  /\ client \in [Threads -> Clients \cup {NoClient}]
  /\ now \in [Threads -> Times \cup {0}]
  /\ DOMAIN buckets \subseteq Clients
  /\ \A c \in DOMAIN buckets : buckets[c] \in [count : 0..Max, windowStart : Times]
  /\ evictionCounter \in 0..SweepEvery - 1
  /\ admitted \in [Clients -> [Times -> Nat]]

(* The requests of c let through from t on, before u. *)
Admitted(c, t, u) == SumFunctionOnSet(admitted[c], {x \in Times : t <= x /\ x < u})

(* The window restarts with the first request after it is over, so two     *)
(* windows meet: twice the limit may pass within a minute.  No more        *)
(* passes, whatever the sweep forgets and in whatever order threads enter. *)
(* A thread kept long between clock and mutex can begin a third window     *)
(* with its older time, so the stretch is the shorter the longer threads   *)
(* are kept; with a second at most it is the whole window.                 *)
AtMostTwoWindows ==
  \A c \in Clients, t \in Times : Admitted(c, t, t + Window + 1 - MaxStall) <= 2 * Max

(* Nobody is refused early: a client that gets 429 has had Max requests    *)
(* let through since a window before the time its request read.            *)
RefusedOnlyAtTheLimit ==
  [][\A w \in Threads :
       thread[w] = "clock" /\ thread'[w] = "idle" /\ admitted' = admitted =>
         Admitted(client[w], now[w] - Window + 1, time + 1) >= Max]_rlVars
=============================================================================
