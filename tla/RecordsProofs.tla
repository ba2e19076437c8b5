---------------------------- MODULE RecordsProofs ----------------------------
(***************************************************************************)
(* What the engine writes down: the log, for any number of lines,          *)
(* attempts, faults and any bound on a file, and the ledger, for any       *)
(* workers, customers, merchants and requests.                             *)
(*                                                                         *)
(* Of the log each property needs to know where a step leaves the stream:  *)
(* which file it writes to (Streams), how many faults the attempts so far  *)
(* have cost (Counted), what the line just written can rely on (Kept), and *)
(* how large the file may be (Bounded).                                    *)
(*                                                                         *)
(* Of the ledger: what a transaction has posted and what it is going to    *)
(* post are together the legs of its request (Ahead), each for a row that  *)
(* will be there; and those who do not see a merchant's account, with the  *)
(* purchases lost for it, are fewer than the workers (LossesOf).           *)
(***************************************************************************)
EXTENDS Logger, Ledger, Sums, SequenceTheorems, TLAPS

Entries == Lines \cup {Header}

(* The type invariant in three parts. *)
FilesTyped ==
  /\ content \in Seq(Seq(Entries)) /\ path \in Seq(0..Len(content))
  /\ Len(path) = Len(content) /\ dirty \subseteq 1..Len(content)
FlagsTyped ==
  /\ directory \in BOOLEAN /\ initialized \in BOOLEAN
  /\ tampered \in BOOLEAN /\ unsynced \in BOOLEAN
StreamTyped ==
  /\ file \in 0..Len(content) /\ fd \in 0..Len(content) /\ current \in 0..Len(content)
  /\ bytes \in Nat
CallTyped ==
  /\ pc \in {"idle", "init", "directory", "file", "size", "rotate", "open", "header",
             "write", "check"}
  /\ after \in {"idle", "init", "directory", "rotate", "write"}
  /\ line \in 0..NumLines /\ attempt \in 0..WriteAttempts
  /\ acknowledged \subseteq 1..line
  /\ faults \in 0..MaxFaults /\ since \in 0..faults

Open == {"directory", "file", "size", "rotate", "header", "write", "check"}

Streams ==
  /\ pc \in Open => file \in 1..Len(content)
  /\ pc # "idle" => line \in Lines /\ attempt \in 1..WriteAttempts
  /\ pc \in {"open", "header"} => after # "idle"
  /\ fd \in {None, current}
  /\ \A p, q \in 1..Len(path) : path[p] = path[q] /\ path[p] # None => p = q
  /\ \A p \in 1..Len(path) : path[p] = file /\ file # None => p = current

(* Every attempt but the last has cost a fault, and the last one too if    *)
(* the file it wants to write has gone.                                    *)
Counted ==
  pc # "idle" =>
    /\ attempt - 1 <= faults - since
    /\ pc \in {"size", "rotate", "header", "write", "check"} /\ ~Exists(current) =>
         attempt <= faults - since

Kept ==
  ~tampered =>
    /\ \A p \in 1..Len(path) : path[p] \in {None, p}
    /\ file \in {None, current}
    /\ pc = "check" => line \in Range(content[file])
                       /\ (file \in dirty => fd = None \/ unsynced)

Bound == IF MaxFileSize > 2 THEN MaxFileSize ELSE 2

Bounded ==
  MaxFileSize > 0 =>
    /\ \A p \in 1..Len(path) : path[p] # None => Len(content[path[p]]) <= Bound
    /\ Exists(current) =>
         /\ pc = "header" => Len(content[path[current]]) = 0
         /\ pc = "rotate" => Len(content[path[current]]) <= bytes
         /\ pc = "write" => Len(content[path[current]]) + 1 <= Bound

IInv == FilesTyped /\ FlagsTyped /\ StreamTyped /\ CallTyped /\ Streams /\ Counted /\ Kept /\ Bounded

LEMMA Parts == TypeOK <=> FilesTyped /\ FlagsTyped /\ StreamTyped /\ CallTyped
  BY DEF TypeOK, FilesTyped, FlagsTyped, StreamTyped, CallTyped, Inodes, Entries

LEMMA InitOK == Init => IInv
<1> SUFFICES ASSUME Init PROVE IInv
  OBVIOUS
<1> USE LoggerAssumption DEF LoggerAssumption, Init, None
<1>1. FilesTyped /\ FlagsTyped
  <2>1. <<>> \in Seq(Seq(Entries)) /\ <<>> \in Seq(0..0) /\ Len(<<>>) = 0
    OBVIOUS
  <2>2. QED
    BY <2>1 DEF FilesTyped, FlagsTyped
<1>2. StreamTyped /\ CallTyped
  BY DEF StreamTyped, CallTyped
<1>3. Streams /\ Counted
  BY DEF Streams, Counted, Open
<1>4. Kept /\ Bounded
  BY DEF Kept, Bounded, Exists
<1>5. QED
  BY <1>1, <1>2, <1>3, <1>4 DEF IInv

(***************************************************************************)
(* What a step does to the files                                           *)
(***************************************************************************)

LEMMA WrittenEffect ==
  ASSUME content \in Seq(Seq(Entries)), file \in 1..Len(content), NEW x \in Entries, Written(x)
  PROVE  /\ content' \in Seq(Seq(Entries)) /\ Len(content') = Len(content)
         /\ \A i \in 1..Len(content) : i # file => content'[i] = content[i]
         /\ Len(content'[file]) = Len(content[file]) + 1
         /\ x \in Range(content'[file])
<1>1. content[file] \in Seq(Entries) /\ Len(content) \in Nat /\ Len(content[file]) \in Nat
  OBVIOUS
<1>2. /\ Append(content[file], x) \in Seq(Entries)
      /\ Len(Append(content[file], x)) = Len(content[file]) + 1
      /\ Append(content[file], x)[Len(content[file]) + 1] = x
  BY <1>1
<1>3. content' = [content EXCEPT ![file] = Append(content[file], x)]
  BY DEF Written
<1>4. content' \in Seq(Seq(Entries)) /\ Len(content') = Len(content)
  BY <1>1, <1>2, <1>3
<1>5. content'[file] = Append(content[file], x)
  BY <1>1, <1>3
<1>6. x \in Range(content'[file])
  <2>1. Len(content[file]) + 1 \in DOMAIN content'[file]
    BY <1>1, <1>2, <1>5
  <2>2. QED
    BY <1>2, <1>5, <2>1 DEF Range
<1>7. QED
  BY <1>1, <1>2, <1>3, <1>4, <1>5, <1>6

(* What the type says of each path and inode. *)
LEMMA Named ==
  ASSUME FilesTyped
  PROVE  /\ Len(path) = Len(content) /\ Len(content) \in Nat
         /\ \A p \in 1..Len(path) :
              path[p] \in 0..Len(content) /\ (path[p] # None => path[p] \in 1..Len(content))
         /\ \A i \in 1..Len(content) : content[i] \in Seq(Entries) /\ Len(content[i]) \in Nat
<1>1. Len(path) = Len(content) /\ Len(content) \in Nat
  BY DEF FilesTyped
<1>2. ASSUME NEW p \in 1..Len(path) PROVE path[p] \in 0..Len(content)
  BY DEF FilesTyped
<1>3. ASSUME NEW i \in 1..Len(content) PROVE content[i] \in Seq(Entries) /\ Len(content[i]) \in Nat
  BY DEF FilesTyped
<1>4. QED
  BY <1>1, <1>2, <1>3 DEF None

(* One element of a sequence is another. *)
LEMMA ExceptEffect ==
  ASSUME NEW S, NEW q \in Seq(S), NEW i \in 1..Len(q), NEW x \in S
  PROVE  /\ [q EXCEPT ![i] = x] \in Seq(S) /\ Len([q EXCEPT ![i] = x]) = Len(q)
         /\ [q EXCEPT ![i] = x][i] = x
         /\ \A j \in 1..Len(q) : j # i => [q EXCEPT ![i] = x][j] = q[j]
  OBVIOUS

(* A new file: an inode and a path of the same number. *)
LEMMA OpenedEffect ==
  ASSUME FilesTyped, OpenNewFile
  PROVE  /\ content' \in Seq(Seq(Entries)) /\ Len(content') = Len(content) + 1
         /\ path' \in Seq(0..Len(content')) /\ Len(path') = Len(path) + 1 /\ Len(path) = Len(content)
         /\ Len(content) \in Nat
         /\ \A i \in 1..Len(content) : content'[i] = content[i] /\ path'[i] = path[i]
         /\ content'[Len(content) + 1] = <<>> /\ path'[Len(content) + 1] = Len(content) + 1
<1>1. <<>> \in Seq(Entries) /\ Len(content) + 1 \in 0..Len(content) + 1 /\ path \in Seq(0..Len(content) + 1)
  BY DEF FilesTyped
<1>2. content' = Append(content, <<>>) /\ path' = Append(path, Len(content) + 1)
  BY DEF OpenNewFile
<1>3. content' \in Seq(Seq(Entries)) /\ Len(content') = Len(content) + 1
  BY <1>1, <1>2 DEF FilesTyped
<1>4. path' \in Seq(0..Len(content) + 1) /\ Len(path') = Len(path) + 1
  BY <1>1, <1>2 DEF FilesTyped
<1>5. QED
  BY <1>2, <1>4 DEF FilesTyped

LEMMA LogStep == IInv /\ Log => IInv'
<1> SUFFICES ASSUME IInv, Log PROVE IInv'
  OBVIOUS
<1> USE LoggerAssumption DEF LoggerAssumption, IInv, disk, stream, call
<1>1. FilesTyped'
  BY DEF Log, FilesTyped
<1>2. FlagsTyped'
  BY DEF Log, FlagsTyped
<1>3. StreamTyped'
  BY DEF Log, StreamTyped
<1>4. CallTyped'
  BY DEF Log, CallTyped
<1>5. Streams'
  BY DEF Log, CallTyped, Streams, Open, Lines
<1>6. Counted'
  BY DEF Log, CallTyped, Counted
<1>7. Kept'
  BY DEF Log, Kept
<1>8. Bounded'
  BY DEF Log, Bounded
<1>9. QED
  BY <1>1, <1>2, <1>3, <1>4, <1>5, <1>6, <1>7, <1>8 DEF IInv

LEMMA EnsureInitializedStep == IInv /\ EnsureInitialized => IInv'
<1> SUFFICES ASSUME IInv, EnsureInitialized PROVE IInv'
  OBVIOUS
<1> USE LoggerAssumption DEF LoggerAssumption, IInv, disk, stream, call
<1>1. FilesTyped'
  BY DEF EnsureInitialized, FilesTyped
<1>2. FlagsTyped'
  BY DEF EnsureInitialized, Goto, FlagsTyped
<1>3. StreamTyped'
  BY DEF EnsureInitialized, StreamTyped
<1>4. CallTyped'
  BY DEF EnsureInitialized, Goto, CallTyped
<1>5. Streams'
  BY DEF EnsureInitialized, Goto, StreamTyped, CallTyped, Streams, Open, Exists, None, Lines
<1>6. Counted'
  BY DEF EnsureInitialized, Goto, Counted
<1>7. Kept'
  BY DEF EnsureInitialized, Goto, Kept
<1>8. Bounded'
  BY DEF EnsureInitialized, Goto, Bounded
<1>9. QED
  BY <1>1, <1>2, <1>3, <1>4, <1>5, <1>6, <1>7, <1>8 DEF IInv

LEMMA CheckDirectoryStep == IInv /\ CheckDirectory => IInv'
<1> SUFFICES ASSUME IInv, CheckDirectory PROVE IInv'
  OBVIOUS
<1> USE LoggerAssumption DEF LoggerAssumption, IInv, disk, stream, call
<1>1. FilesTyped'
  BY DEF CheckDirectory, FilesTyped
<1>2. FlagsTyped'
  BY DEF CheckDirectory, Closed, FlagsTyped
<1>3. StreamTyped'
  BY DEF CheckDirectory, Closed, StreamTyped, Streams, Open, Exists, None
<1>4. CallTyped'
  BY DEF CheckDirectory, Goto, CallTyped
<1>5. Streams'
  BY DEF CheckDirectory, Goto, Closed, Streams, Open
<1>6. Counted'
  BY DEF CheckDirectory, Goto, Counted
<1>7. Kept'
  BY DEF CheckDirectory, Goto, Closed, Kept
<1>8. Bounded'
  BY DEF CheckDirectory, Goto, Bounded
<1>9. QED
  BY <1>1, <1>2, <1>3, <1>4, <1>5, <1>6, <1>7, <1>8 DEF IInv

LEMMA NotADirectoryStep == IInv /\ NotADirectory => IInv'
<1> SUFFICES ASSUME IInv, NotADirectory PROVE IInv'
  OBVIOUS
<1> USE LoggerAssumption DEF LoggerAssumption, IInv, disk, stream, call
<1>1. FilesTyped'
  BY DEF NotADirectory, FilesTyped
<1>2. FlagsTyped'
  BY DEF NotADirectory, FlagsTyped
<1>3. StreamTyped'
  BY DEF NotADirectory, StreamTyped
<1>4. CallTyped'
  BY DEF NotADirectory, Retry, Fault, CallTyped
<1>5. Streams'
  BY DEF NotADirectory, Retry, CallTyped, Streams, Open, None, Lines
<1>6. Counted'
  BY DEF NotADirectory, Retry, Fault, StreamTyped, CallTyped, Counted, Exists, None, Open
<1>7. Kept'
  BY DEF NotADirectory, Retry, Kept
<1>8. Bounded'
  BY DEF NotADirectory, Retry, Bounded
<1>9. QED
  BY <1>1, <1>2, <1>3, <1>4, <1>5, <1>6, <1>7, <1>8 DEF IInv

LEMMA CheckFileStep == IInv /\ CheckFile => IInv'
<1> SUFFICES ASSUME IInv, CheckFile PROVE IInv'
  OBVIOUS
<1> USE LoggerAssumption DEF LoggerAssumption, IInv, disk, stream, call
<1>1. FilesTyped'
  BY DEF CheckFile, FilesTyped
<1>2. FlagsTyped'
  BY DEF CheckFile, Goto, FlagsTyped
<1>3. StreamTyped'
  BY DEF CheckFile, StreamTyped
<1>4. CallTyped'
  BY DEF CheckFile, Goto, CallTyped
<1>5. Streams'
  BY DEF CheckFile, Goto, Streams, Open
<1>6. Counted'
  BY DEF CheckFile, Goto, Counted, Exists
<1>7. Kept'
  BY DEF CheckFile, Goto, Kept
<1>8. Bounded'
  BY DEF CheckFile, Goto, Bounded
<1>9. QED
  BY <1>1, <1>2, <1>3, <1>4, <1>5, <1>6, <1>7, <1>8 DEF IInv

LEMMA CheckSizeStep == IInv /\ CheckSize => IInv'
<1> SUFFICES ASSUME IInv, CheckSize PROVE IInv'
  OBVIOUS
<1> USE LoggerAssumption DEF LoggerAssumption, IInv, disk, stream, call
<1>1. FilesTyped'
  BY DEF CheckSize, FilesTyped
<1>2. FlagsTyped'
  BY DEF CheckSize, FlagsTyped
<1>3. StreamTyped'
  BY DEF CheckSize, DiskBytes, FilesTyped, StreamTyped, Open, Exists, None
<1>4. CallTyped'
  BY DEF CheckSize, Goto, CallTyped
<1>5. Streams'
  <2>1. DiskBytes < bytes => path[current] \in 1..Len(content) /\ current \in 1..Len(path)
    BY DEF DiskBytes, FilesTyped, StreamTyped, Exists, None
  <2>2. file' \in 1..Len(content) /\ \A p \in 1..Len(path) : path[p] = file' => p = current
    <3>1. CASE DiskBytes < bytes
      BY <2>1, <3>1 DEF CheckSize, Streams, None
    <3>2. CASE ~(DiskBytes < bytes)
      BY <3>2 DEF CheckSize, Streams, Open, None
    <3>3. QED
      BY <3>1, <3>2
  <2>3. QED
    BY <2>2 DEF CheckSize, Goto, Streams
<1>6. Counted'
  BY DEF CheckSize, Goto, Counted, Exists
<1>7. Kept'
  BY DEF CheckSize, Goto, DiskBytes, FilesTyped, StreamTyped, Kept, Exists, None
<1>8. Bounded'
  BY DEF CheckSize, Goto, DiskBytes, StreamTyped, CallTyped, Streams, Bounded, Bound, Exists, None, Open
<1>9. QED
  BY <1>1, <1>2, <1>3, <1>4, <1>5, <1>6, <1>7, <1>8 DEF IInv

LEMMA ReopenFailsStep == IInv /\ ReopenFails => IInv'
<1> SUFFICES ASSUME IInv, ReopenFails PROVE IInv'
  OBVIOUS
<1> USE LoggerAssumption DEF LoggerAssumption, IInv, disk, stream, call
<1>1. FilesTyped'
  BY DEF ReopenFails, FilesTyped
<1>2. FlagsTyped'
  BY DEF ReopenFails, Closed, FlagsTyped
<1>3. StreamTyped'
  BY DEF ReopenFails, Closed, StreamTyped, None
<1>4. CallTyped'
  BY DEF ReopenFails, Retry, Fault, CallTyped
<1>5. Streams'
  BY DEF ReopenFails, Retry, Closed, CallTyped, Streams, Open, Exists, None, Lines
<1>6. Counted'
  BY DEF ReopenFails, Retry, Fault, CallTyped, Counted, Exists
<1>7. Kept'
  BY DEF ReopenFails, Retry, Closed, Kept
<1>8. Bounded'
  BY DEF ReopenFails, Retry, Bounded
<1>9. QED
  BY <1>1, <1>2, <1>3, <1>4, <1>5, <1>6, <1>7, <1>8 DEF IInv

LEMMA RotateStep == IInv /\ Rotate => IInv'
<1> SUFFICES ASSUME IInv, Rotate PROVE IInv'
  OBVIOUS
<1> USE LoggerAssumption DEF LoggerAssumption, IInv, disk, stream, call
<1>1. FilesTyped'
  BY DEF Rotate, FilesTyped
<1>2. FlagsTyped'
  BY DEF Rotate, Goto, FlagsTyped
<1>3. StreamTyped'
  BY DEF Rotate, StreamTyped
<1>4. CallTyped'
  BY DEF Rotate, Goto, CallTyped
<1>5. Streams'
  BY DEF Rotate, Goto, Streams, Open
<1>6. Counted'
  BY DEF Rotate, Goto, Counted, Exists
<1>7. Kept'
  BY DEF Rotate, Goto, Kept
<1>8. Bounded'
  <2>1. CASE pc' = "open"
    BY <2>1 DEF Rotate, Bounded
  <2>2. CASE (MaxFileSize = 0 \/ bytes + 1 <= MaxFileSize) /\ pc' = "write"
    <3>1. ASSUME MaxFileSize > 0, Exists(current)
          PROVE  Len(content[path[current]]) + 1 <= Bound
      <4>1. Len(content[path[current]]) <= bytes /\ bytes \in Nat
        BY <3>1 DEF Rotate, Bounded, StreamTyped
      <4>2. Len(content[path[current]]) \in Nat
        BY DEF FilesTyped
      <4>3. QED
        BY <2>2, <3>1, <4>1 DEF Bound
    <3>2. QED
      BY <2>2, <3>1 DEF Rotate, Bounded, Exists
  <2>3. QED
    BY <2>1, <2>2 DEF Rotate, Goto
<1>9. QED
  BY <1>1, <1>2, <1>3, <1>4, <1>5, <1>6, <1>7, <1>8 DEF IInv

LEMMA OpenNewFileStep == IInv /\ OpenNewFile => IInv'
<1> SUFFICES ASSUME IInv, OpenNewFile PROVE IInv'
  OBVIOUS
<1> USE LoggerAssumption DEF LoggerAssumption, IInv, disk, stream, call
<1>0. /\ content' \in Seq(Seq(Entries)) /\ Len(content') = Len(content) + 1
      /\ path' \in Seq(0..Len(content')) /\ Len(path') = Len(path) + 1 /\ Len(path) = Len(content)
      /\ Len(content) \in Nat
      /\ \A i \in 1..Len(content) : content'[i] = content[i] /\ path'[i] = path[i]
      /\ content'[Len(content) + 1] = <<>> /\ path'[Len(content) + 1] = Len(content) + 1
  BY OpenedEffect
<1>1. FilesTyped'
  BY DEF OpenNewFile, FilesTyped
<1>2. FlagsTyped'
  BY DEF OpenNewFile, FlagsTyped
<1>3. StreamTyped'
  BY DEF OpenNewFile, StreamTyped, Exists, None
<1>4. CallTyped'
  BY DEF OpenNewFile, Goto, Fault, CallTyped
<1>5. Streams'
  <2>1. \A p \in 1..Len(path') :
          \/ p = Len(content) + 1 /\ path'[p] = Len(content) + 1
          \/ p \in 1..Len(path) /\ path'[p] = path[p] /\ path[p] \in 0..Len(content)
    <3>1. \A p \in 1..Len(path) : path[p] \in 0..Len(content)
      BY Named
    <3>2. \A p \in 1..Len(path') : p = Len(content) + 1 \/ p \in 1..Len(path)
      BY <1>0
    <3>3. QED
      BY <1>0, <3>1, <3>2
  <2>2. file' = Len(content) + 1 /\ current' = Len(content) + 1 /\ fd' \in {None, Len(content) + 1}
    BY DEF OpenNewFile
  <2>3. /\ \A p, q \in 1..Len(path') : path'[p] = path'[q] /\ path'[p] # None => p = q
        /\ \A p \in 1..Len(path') : path'[p] = file' => p = current'
    <3>1. ASSUME NEW p \in 1..Len(path'), NEW q \in 1..Len(path'), path'[p] = path'[q], path'[p] # None
          PROVE  p = q
      <4>1. CASE p = Len(content) + 1 \/ q = Len(content) + 1
        <5>1. /\ p = Len(content) + 1 \/ path'[p] \in 0..Len(content)
              /\ q = Len(content) + 1 \/ path'[q] \in 0..Len(content)
          BY <2>1
        <5>2. path'[Len(content) + 1] = Len(content) + 1 /\ Len(content) + 1 \notin 0..Len(content)
          BY <1>0
        <5>3. QED
          BY <3>1, <4>1, <5>1, <5>2
      <4>2. CASE p # Len(content) + 1 /\ q # Len(content) + 1
        BY <2>1, <3>1, <4>2 DEF Streams
      <4>3. QED
        BY <4>1, <4>2
    <3>2. ASSUME NEW p \in 1..Len(path'), path'[p] = file' PROVE p = current'
      <4>1. p = Len(content) + 1 \/ path'[p] \in 0..Len(content)
        BY <2>1
      <4>2. file' \notin 0..Len(content)
        BY <1>0, <2>2
      <4>3. QED
        BY <2>2, <3>2, <4>1, <4>2
    <3>3. QED
      BY <3>1, <3>2
  <2>4. QED
    BY <2>3 DEF OpenNewFile, Goto, Streams
<1>6. Counted'
  BY <1>0 DEF OpenNewFile, Goto, Fault, CallTyped, Counted, Exists, None
<1>7. Kept'
  BY <1>0 DEF OpenNewFile, Goto, Kept, Exists, None, Open
<1>8. Bounded'
  <2>1. current' = Len(content) + 1 /\ pc' = "header"
    BY DEF OpenNewFile, Goto
  <2>2. ASSUME MaxFileSize > 0, NEW p \in 1..Len(path'), path'[p] # None
        PROVE  Len(content'[path'[p]]) <= Bound
    <3>1. CASE p = Len(content) + 1
      BY <1>0, <3>1 DEF Bound
    <3>2. CASE p \in 1..Len(path)
      <4>1. path'[p] = path[p] /\ path[p] \in 1..Len(content)
        BY <1>0, <2>2, <3>2, Named
      <4>2. QED
        BY <1>0, <2>2, <3>2, <4>1 DEF Bounded
    <3>3. QED
      BY <1>0, <3>1, <3>2
  <2>3. QED
    BY <1>0, <2>1, <2>2 DEF Bounded
<1>9. QED
  BY <1>1, <1>2, <1>3, <1>4, <1>5, <1>6, <1>7, <1>8 DEF IInv

LEMMA OpenFailsStep == IInv /\ OpenFails => IInv'
<1> SUFFICES ASSUME IInv, OpenFails PROVE IInv'
  OBVIOUS
<1> USE LoggerAssumption DEF LoggerAssumption, IInv, disk, stream, call
<1>1. FilesTyped'
  BY DEF OpenFails, FilesTyped
<1>2. FlagsTyped'
  BY DEF OpenFails, Closed, FlagsTyped
<1>3. StreamTyped'
  BY DEF OpenFails, Closed, StreamTyped, None
<1>4. CallTyped'
  <2>1. CASE Goto("init")
    BY <2>1 DEF OpenFails, Goto, Fault, CallTyped
  <2>2. CASE Retry("init")
    BY <2>2 DEF OpenFails, Retry, Fault, CallTyped
  <2>3. QED
    BY <2>1, <2>2 DEF OpenFails, NoFile
<1>5. Streams'
  BY DEF OpenFails, NoFile, Goto, Retry, Closed, CallTyped, Streams, Open, Exists, None, Lines
<1>6. Counted'
  <2>1. /\ attempt - 1 <= faults - since
        /\ attempt \in Nat /\ faults \in Nat /\ since \in Nat
        /\ faults' = faults + 1 /\ since' = since /\ pc' \in {"init", "idle"}
    BY DEF OpenFails, NoFile, Goto, Retry, Fault, CallTyped, Counted
  <2>2. CASE Goto("init")
    BY <2>1, <2>2 DEF Goto, Counted
  <2>3. CASE Retry("init")
    BY <2>1, <2>3 DEF Retry, Counted
  <2>4. QED
    BY <2>2, <2>3 DEF OpenFails, NoFile
<1>7. Kept'
  BY DEF OpenFails, NoFile, Goto, Retry, Closed, Kept
<1>8. Bounded'
  BY DEF OpenFails, NoFile, Goto, Retry, Bounded
<1>9. QED
  BY <1>1, <1>2, <1>3, <1>4, <1>5, <1>6, <1>7, <1>8 DEF IInv

LEMMA WriteHeaderStep == IInv /\ WriteHeader => IInv'
<1> SUFFICES ASSUME IInv, WriteHeader PROVE IInv'
  OBVIOUS
<1> USE LoggerAssumption DEF LoggerAssumption, IInv, disk, stream, call
<1>0. /\ content' \in Seq(Seq(Entries)) /\ Len(content') = Len(content)
      /\ \A i \in 1..Len(content) : i # file => content'[i] = content[i]
      /\ Len(content'[file]) = Len(content[file]) + 1
      /\ Header \in Range(content'[file])
  BY WrittenEffect DEF WriteHeader, FilesTyped, Streams, Open, Entries
<1>1. FilesTyped'
  BY <1>0 DEF WriteHeader, FilesTyped, Streams, Open
<1>2. FlagsTyped'
  BY <1>0 DEF WriteHeader, Goto, FlagsTyped
<1>3. StreamTyped'
  BY <1>0 DEF WriteHeader, StreamTyped
<1>4. CallTyped'
  BY DEF WriteHeader, Goto, CallTyped
<1>5. Streams'
  BY <1>0 DEF WriteHeader, Goto, Streams, Open
<1>6. Counted'
  BY DEF WriteHeader, Goto, Counted, Exists
<1>7. Kept'
  BY DEF WriteHeader, Goto, CallTyped, Kept
<1>8. Bounded'
  <2>1. ASSUME MaxFileSize > 0, NEW p \in 1..Len(path), path[p] # None
        PROVE  Len(content'[path[p]]) <= Bound
    <3>1. path[p] \in 1..Len(content)
      BY <2>1 DEF FilesTyped, None
    <3>2. CASE path[p] # file
      BY <1>0, <2>1, <3>1, <3>2 DEF Bounded
    <3>3. CASE path[p] = file
      <4>1. p = current /\ Exists(current)
        BY <2>1, <3>3 DEF Streams, Exists, None
      <4>2. QED
        <5>1. Len(content[path[current]]) = 0
          BY <2>1, <4>1 DEF WriteHeader, Bounded
        <5>2. QED
          BY <1>0, <3>3, <4>1, <5>1 DEF Bound
    <3>4. QED
      BY <3>2, <3>3
  <2>2. ASSUME MaxFileSize > 0, Exists(current)
        PROVE  Len(content'[path[current]]) \in 0..1
    <3>1. path[current] \in 1..Len(content) /\ current \in 1..Len(path)
      BY <2>2 DEF FilesTyped, StreamTyped, Exists, None
    <3>2. CASE path[current] # file
      BY <1>0, <2>2, <3>1, <3>2 DEF WriteHeader, Bounded
    <3>3. CASE path[current] = file
      <4>1. Len(content[path[current]]) = 0
        BY <2>2 DEF WriteHeader, Bounded
      <4>2. QED
        BY <1>0, <3>3, <4>1
    <3>4. QED
      BY <3>2, <3>3
  <2>3. bytes' = bytes + 1 /\ bytes \in Nat /\ path' = path /\ current' = current /\ pc' = after
    BY DEF WriteHeader, Goto, StreamTyped
  <2>4. QED
    <3>1. ASSUME MaxFileSize > 0, Exists(current)
          PROVE  Len(content'[path[current]]) <= bytes' /\ Len(content'[path[current]]) + 1 <= Bound
      <4>1. /\ Len(content'[path[current]]) \in 0..1
            /\ bytes' = bytes + 1 /\ bytes \in Nat
        BY <2>2, <2>3, <3>1
      <4>2. 2 <= Bound /\ Bound \in Nat
        BY DEF Bound
      <4>3. \A x \in 0..1, b \in Nat : x <= b + 1 /\ x + 1 <= 2
        OBVIOUS
      <4>4. \A x \in 0..1 : x + 1 <= Bound
        BY <4>2
      <4>5. QED
        BY <4>1, <4>3, <4>4
    <3>2. pc' # "header" /\ (Exists(current)' => Exists(current))
      BY <2>3 DEF CallTyped, Exists
    <3>3. QED
      BY <2>1, <2>3, <3>1, <3>2 DEF Bounded
<1>9. QED
  BY <1>1, <1>2, <1>3, <1>4, <1>5, <1>6, <1>7, <1>8 DEF IInv

LEMMA WriteHeaderFailsStep == IInv /\ WriteHeaderFails => IInv'
<1> SUFFICES ASSUME IInv, WriteHeaderFails PROVE IInv'
  OBVIOUS
<1> USE LoggerAssumption DEF LoggerAssumption, IInv, disk, stream, call
<1>1. FilesTyped'
  BY DEF WriteHeaderFails, FilesTyped
<1>2. FlagsTyped'
  BY DEF WriteHeaderFails, Closed, FlagsTyped
<1>3. StreamTyped'
  BY DEF WriteHeaderFails, Closed, StreamTyped, None
<1>4. CallTyped'
  <2>1. CASE Goto("init")
    BY <2>1 DEF WriteHeaderFails, Goto, Fault, CallTyped
  <2>2. CASE Retry("init")
    BY <2>2 DEF WriteHeaderFails, Retry, Fault, CallTyped
  <2>3. QED
    BY <2>1, <2>2 DEF WriteHeaderFails, NoFile
<1>5. Streams'
  BY DEF WriteHeaderFails, NoFile, Goto, Retry, Closed, StreamTyped, CallTyped, Streams, Open, Exists, None, Lines
<1>6. Counted'
  BY DEF WriteHeaderFails, NoFile, Goto, Retry, Fault, CallTyped, Streams, Counted, Exists
<1>7. Kept'
  BY DEF WriteHeaderFails, NoFile, Goto, Retry, Closed, Kept
<1>8. Bounded'
  BY DEF WriteHeaderFails, NoFile, Goto, Retry, Bounded
<1>9. QED
  BY <1>1, <1>2, <1>3, <1>4, <1>5, <1>6, <1>7, <1>8 DEF IInv

LEMMA WritePayloadStep == IInv /\ WritePayload => IInv'
<1> SUFFICES ASSUME IInv, WritePayload PROVE IInv'
  OBVIOUS
<1> USE LoggerAssumption DEF LoggerAssumption, IInv, disk, stream, call
<1>0. /\ content' \in Seq(Seq(Entries)) /\ Len(content') = Len(content)
      /\ \A i \in 1..Len(content) : i # file => content'[i] = content[i]
      /\ Len(content'[file]) = Len(content[file]) + 1
      /\ line \in Range(content'[file])
  BY WrittenEffect DEF WritePayload, FilesTyped, Streams, Open, Entries
<1>1. FilesTyped'
  BY <1>0 DEF WritePayload, FilesTyped, Streams, Open
<1>2. FlagsTyped'
  BY <1>0 DEF WritePayload, Goto, FlagsTyped
<1>3. StreamTyped'
  BY <1>0 DEF WritePayload, StreamTyped
<1>4. CallTyped'
  BY DEF WritePayload, Fault, Goto, CallTyped
<1>5. Streams'
  BY <1>0 DEF WritePayload, Goto, Streams, Open
<1>6. Counted'
  BY DEF WritePayload, Fault, Goto, CallTyped, Counted, Exists
<1>7. Kept'
  BY <1>0 DEF WritePayload, Goto, Streams, Kept, None, Open
<1>8. Bounded'
  <2>1. ASSUME MaxFileSize > 0, NEW p \in 1..Len(path), path[p] # None
        PROVE  Len(content'[path[p]]) <= Bound
    <3>1. path[p] \in 1..Len(content)
      BY <2>1, Named
    <3>2. CASE path[p] # file
      BY <1>0, <2>1, <3>1, <3>2 DEF Bounded
    <3>3. CASE path[p] = file
      <4>1. p = current /\ Exists(current)
        BY <2>1, <3>3 DEF Streams, Exists, None
      <4>2. QED
        BY <1>0, <2>1, <3>3, <4>1 DEF WritePayload, Bounded
    <3>4. QED
      BY <3>2, <3>3
  <2>2. QED
    BY <2>1 DEF WritePayload, Goto, Bounded
<1>9. QED
  BY <1>1, <1>2, <1>3, <1>4, <1>5, <1>6, <1>7, <1>8 DEF IInv

LEMMA WriteFailsStep == IInv /\ WriteFails => IInv'
<1> SUFFICES ASSUME IInv, WriteFails PROVE IInv'
  OBVIOUS
<1> USE LoggerAssumption DEF LoggerAssumption, IInv, disk, stream, call
<1>0. \/ content' = content
      \/ /\ content' \in Seq(Seq(Entries)) /\ Len(content') = Len(content)
         /\ \A i \in 1..Len(content) : i # file => content'[i] = content[i]
         /\ Len(content'[file]) = Len(content[file]) + 1
  BY WrittenEffect DEF WriteFails, FilesTyped, Streams, Open, Entries
<1>1. FilesTyped'
  BY <1>0 DEF WriteFails, FilesTyped, Streams, Open
<1>2. FlagsTyped'
  BY DEF WriteFails, Closed, FlagsTyped
<1>3. StreamTyped'
  BY <1>0 DEF WriteFails, Closed, StreamTyped, None
<1>4. CallTyped'
  BY DEF WriteFails, Retry, Fault, CallTyped
<1>5. Streams'
  BY DEF WriteFails, Retry, Closed, StreamTyped, CallTyped, Streams, Open, Exists, None, Lines
<1>6. Counted'
  BY DEF WriteFails, Retry, Fault, CallTyped, Counted, Exists
<1>7. Kept'
  BY DEF WriteFails, Retry, Closed, Kept
<1>8. Bounded'
  <2>1. ASSUME MaxFileSize > 0, NEW p \in 1..Len(path), path[p] # None
        PROVE  Len(content'[path[p]]) <= Bound
    <3>0. CASE content' = content
      BY <2>1, <3>0 DEF Bounded
    <3>1. path[p] \in 1..Len(content)
      BY <2>1 DEF FilesTyped, None
    <3>2. CASE content' # content /\ path[p] # file
      BY <1>0, <2>1, <3>1, <3>2 DEF Bounded
    <3>3. CASE content' # content /\ path[p] = file
      <4>1. p = current /\ Exists(current)
        BY <2>1, <3>3 DEF Streams, Exists, None
      <4>2. QED
        BY <1>0, <2>1, <3>3, <4>1 DEF WriteFails, Bounded
    <3>4. QED
      BY <3>0, <3>2, <3>3
  <2>2. pc' \in {"open", "idle"} /\ path' = path
    BY DEF WriteFails, Retry
  <2>3. QED
    BY <2>1, <2>2 DEF Bounded
<1>9. QED
  BY <1>1, <1>2, <1>3, <1>4, <1>5, <1>6, <1>7, <1>8 DEF IInv

LEMMA CheckStillThereStep == IInv /\ CheckStillThere => IInv'
<1> SUFFICES ASSUME IInv, CheckStillThere PROVE IInv'
  OBVIOUS
<1> USE LoggerAssumption DEF LoggerAssumption, IInv, disk, stream, call
<1>1. FilesTyped'
  BY DEF CheckStillThere, FilesTyped
<1>2. FlagsTyped'
  BY DEF CheckStillThere, Closed, FlagsTyped
<1>3. StreamTyped'
  BY DEF CheckStillThere, Closed, StreamTyped, Open, None
<1>4. CallTyped'
  <2>1. line \in 1..NumLines /\ attempt \in 1..WriteAttempts
    BY DEF CheckStillThere, Streams, Lines
  <2>2. UNCHANGED <<line, since, faults>>
    BY DEF CheckStillThere, Acknowledge, Retry
  <2>3. acknowledged' \in {acknowledged, acknowledged \cup {line}}
    BY DEF CheckStillThere, Acknowledge, Retry
  <2>4. acknowledged' \subseteq 1..line
    BY <2>1, <2>3 DEF CallTyped
  <2>5. pc' \in {"idle", "open"} /\ after' \in {after, "init"}
    BY DEF CheckStillThere, Acknowledge, Retry
  <2>6. attempt' \in 0..WriteAttempts
    BY <2>1 DEF CheckStillThere, Acknowledge, Retry
  <2>7. QED
    BY <2>2, <2>4, <2>5, <2>6 DEF CallTyped
<1>5. Streams'
  BY DEF CheckStillThere, Acknowledge, Retry, Closed, Streams, Open
<1>6. Counted'
  BY DEF CheckStillThere, Acknowledge, Retry, StreamTyped, CallTyped, Streams, Counted, Exists, None, Open
<1>7. Kept'
  BY DEF CheckStillThere, Acknowledge, Retry, Closed, Kept
<1>8. Bounded'
  BY DEF CheckStillThere, Acknowledge, Retry, Bounded
<1>9. QED
  BY <1>1, <1>2, <1>3, <1>4, <1>5, <1>6, <1>7, <1>8 DEF IInv

LEMMA ShutdownStep == IInv /\ Shutdown => IInv'
<1> SUFFICES ASSUME IInv, Shutdown PROVE IInv'
  OBVIOUS
<1> USE LoggerAssumption DEF LoggerAssumption, IInv, disk, stream, call
<1>1. FilesTyped'
  BY DEF Shutdown, FilesTyped
<1>2. FlagsTyped'
  BY DEF Shutdown, FlagsTyped
<1>3. StreamTyped'
  BY DEF Shutdown, StreamTyped, None
<1>4. CallTyped'
  BY DEF Shutdown, CallTyped
<1>5. Streams'
  BY DEF Shutdown, Streams, Open
<1>6. Counted'
  BY DEF Shutdown, Counted
<1>7. Kept'
  BY DEF Shutdown, Kept
<1>8. Bounded'
  BY DEF Shutdown, Bounded
<1>9. QED
  BY <1>1, <1>2, <1>3, <1>4, <1>5, <1>6, <1>7, <1>8 DEF IInv

LEMMA RemoveFileStep == IInv /\ RemoveFile => IInv'
<1> SUFFICES ASSUME IInv, RemoveFile PROVE IInv'
  OBVIOUS
<1> USE LoggerAssumption DEF LoggerAssumption, IInv, disk, stream, call
<1>1. FilesTyped'
  <2>1. current \in 1..Len(path) /\ None \in 0..Len(content)
    BY DEF RemoveFile, FilesTyped, StreamTyped, Exists, None
  <2>2. path' \in Seq(0..Len(content)) /\ Len(path') = Len(path)
    BY <2>1, ExceptEffect DEF RemoveFile, FilesTyped
  <2>3. QED
    BY <2>2 DEF RemoveFile, FilesTyped
<1>2. FlagsTyped'
  BY DEF RemoveFile, Fault, FlagsTyped
<1>3. StreamTyped'
  BY DEF RemoveFile, StreamTyped
<1>4. CallTyped'
  BY DEF RemoveFile, Fault, CallTyped
<1>5. Streams'
  BY DEF RemoveFile, CallTyped, Streams, Lines
<1>6. Counted'
  BY DEF RemoveFile, Fault, CallTyped, Counted
<1>7. Kept'
  BY DEF RemoveFile, Kept
<1>8. Bounded'
  BY DEF RemoveFile, CallTyped, Bounded, Exists, None, Open
<1>9. QED
  BY <1>1, <1>2, <1>3, <1>4, <1>5, <1>6, <1>7, <1>8 DEF IInv

LEMMA RemoveDirectoryStep == IInv /\ RemoveDirectory => IInv'
<1> SUFFICES ASSUME IInv, RemoveDirectory PROVE IInv'
  OBVIOUS
<1> USE LoggerAssumption DEF LoggerAssumption, IInv, disk, stream, call
<1>1. FilesTyped'
  <2>1. DOMAIN path = 1..Len(path) /\ Len(path) \in Nat /\ None \in 0..Len(content)
    BY DEF FilesTyped, None
  <2>2. path' \in [1..Len(path) -> 0..Len(content)]
    BY <2>1 DEF RemoveDirectory
  <2>3. path' \in Seq(0..Len(content)) /\ Len(path') = Len(path)
    BY <2>1, <2>2
  <2>4. QED
    BY <2>3 DEF RemoveDirectory, FilesTyped
<1>2. FlagsTyped'
  BY DEF RemoveDirectory, Fault, FlagsTyped
<1>3. StreamTyped'
  BY DEF RemoveDirectory, StreamTyped
<1>4. CallTyped'
  BY DEF RemoveDirectory, Fault, CallTyped
<1>5. Streams'
  BY DEF RemoveDirectory, CallTyped, Streams
<1>6. Counted'
  BY DEF RemoveDirectory, Fault, CallTyped, Counted
<1>7. Kept'
  BY DEF RemoveDirectory, Kept
<1>8. Bounded'
  BY DEF RemoveDirectory, FilesTyped, StreamTyped, CallTyped, Bounded, Exists, None
<1>9. QED
  BY <1>1, <1>2, <1>3, <1>4, <1>5, <1>6, <1>7, <1>8 DEF IInv

LEMMA TruncateStep == IInv /\ Truncate => IInv'
<1> SUFFICES ASSUME IInv, Truncate PROVE IInv'
  OBVIOUS
<1> USE LoggerAssumption DEF LoggerAssumption, IInv, disk, stream, call
<1>1. FilesTyped'
  <2>1. path[current] \in 1..Len(content) /\ <<>> \in Seq(Entries)
    BY DEF Truncate, FilesTyped, StreamTyped, Exists, None
  <2>2. content' \in Seq(Seq(Entries)) /\ Len(content') = Len(content)
    BY <2>1, ExceptEffect DEF Truncate, FilesTyped
  <2>3. QED
    BY <2>2 DEF Truncate, FilesTyped
<1>2. FlagsTyped'
  BY DEF Truncate, Fault, FlagsTyped
<1>3. StreamTyped'
  BY DEF Truncate, StreamTyped
<1>4. CallTyped'
  BY DEF Truncate, Fault, CallTyped
<1>5. Streams'
  BY DEF Truncate, CallTyped, Streams
<1>6. Counted'
  BY DEF Truncate, Fault, CallTyped, Counted
<1>7. Kept'
  BY DEF Truncate, Kept
<1>8. Bounded'
  BY DEF Truncate, StreamTyped, CallTyped, Streams, Bounded, Bound, Exists, None, Open
<1>9. QED
  BY <1>1, <1>2, <1>3, <1>4, <1>5, <1>6, <1>7, <1>8 DEF IInv

LEMMA ReplaceStep == IInv /\ Replace => IInv'
<1> SUFFICES ASSUME IInv, Replace PROVE IInv'
  OBVIOUS
<1> USE LoggerAssumption DEF LoggerAssumption, IInv, disk, stream, call
<1>0. /\ current \in 1..Len(path) /\ path[current] \in 1..Len(content)
      /\ Len(content) \in Nat /\ Len(path) = Len(content)
      /\ content' \in Seq(Seq(Entries)) /\ Len(content') = Len(content) + 1
      /\ \A i \in 1..Len(content) : content'[i] = content[i]
      /\ Len(content'[Len(content) + 1]) \in {0, Len(content[path[current]])}
      /\ path' \in Seq(0..Len(content')) /\ Len(path') = Len(path) + 1
      /\ \A p \in 1..Len(path) : p # current => path'[p] = path[p]
      /\ path'[current] = Len(content) + 1 /\ path'[Len(path) + 1] = None
  <2>1. /\ current \in 1..Len(path) /\ path[current] \in 1..Len(content)
        /\ Len(content) \in Nat /\ Len(path) = Len(content) /\ path \in Seq(0..Len(content) + 1)
        /\ Len(content) + 1 \in 0..Len(content) + 1
    <3>1. current \in 1..Len(path) /\ path[current] # None
      BY Named DEF Replace, StreamTyped, Exists, None
    <3>2. path \in Seq(0..Len(content)) /\ Len(content) \in Nat
      BY DEF FilesTyped
    <3>3. 0..Len(content) \subseteq 0..Len(content) + 1 /\ Len(content) + 1 \in 0..Len(content) + 1
      BY <3>2
    <3>4. path \in Seq(0..Len(content) + 1)
      BY <3>2, <3>3
    <3>5. QED
      BY <3>1, <3>2, <3>3, <3>4, Named
  <2>2. PICK c \in {<<>>, content[path[current]]} : content' = Append(content, c)
    BY DEF Replace
  <2>3. c \in Seq(Entries) /\ Len(c) \in {0, Len(content[path[current]])}
    <3>1. CASE c = <<>>
      BY <3>1
    <3>2. CASE c = content[path[current]]
      BY <2>1, <3>2, Named
    <3>3. QED
      BY <2>2, <3>1, <3>2
  <2>4. /\ content' \in Seq(Seq(Entries)) /\ Len(content') = Len(content) + 1
        /\ \A i \in 1..Len(content) : content'[i] = content[i]
        /\ content'[Len(content) + 1] = c
    BY <2>1, <2>2, <2>3 DEF FilesTyped
  <2> DEFINE q == [path EXCEPT ![current] = Len(content) + 1]
  <2>5. /\ q \in Seq(0..Len(content) + 1) /\ Len(q) = Len(path) /\ q[current] = Len(content) + 1
        /\ \A p \in 1..Len(path) : p # current => q[p] = path[p]
    BY <2>1, ExceptEffect
  <2>6. path' = Append(q, None) /\ None \in 0..Len(content) + 1
    BY <2>1 DEF Replace, None
  <2> HIDE DEF q
  <2>7. /\ path' \in Seq(0..Len(content) + 1) /\ Len(path') = Len(path) + 1
        /\ \A p \in 1..Len(path) : path'[p] = q[p]
        /\ path'[Len(path) + 1] = None
    <3>1. q \in Seq(0..Len(content) + 1) /\ Len(q) = Len(path) /\ path' = Append(q, None)
      BY <2>5, <2>6
    <3>2. path' \in Seq(0..Len(content) + 1) /\ Len(path') = Len(q) + 1
      BY <2>6, <3>1
    <3>3. path'[Len(q) + 1] = None /\ \A p \in 1..Len(q) : path'[p] = q[p]
      BY <2>6, <3>1
    <3>4. QED
      BY <3>1, <3>2, <3>3
  <2>8. QED
    BY <2>1, <2>3, <2>4, <2>5, <2>7
<1>1. FilesTyped'
  BY <1>0 DEF Replace, FilesTyped
<1>2. FlagsTyped'
  BY <1>0 DEF Replace, Fault, FlagsTyped
<1>3. StreamTyped'
  <2>1. \A x \in 0..Len(content) : x \in 0..Len(content')
    BY <1>0
  <2>2. UNCHANGED <<file, fd, current, bytes>>
    BY DEF Replace
  <2>3. QED
    BY <2>1, <2>2 DEF StreamTyped
<1>4. CallTyped'
  BY DEF Replace, Fault, CallTyped
<1>5. Streams'
  <2>1. fd \in {None, current} /\ file \in 0..Len(content)
    BY DEF Streams, StreamTyped
  <2>2. /\ \A p, q \in 1..Len(path') : path'[p] = path'[q] /\ path'[p] # None => p = q
        /\ \A p \in 1..Len(path') : path'[p] = file /\ file # None => p = current
    <3>1. \A p \in 1..Len(path') :
            \/ p = current /\ path'[p] = Len(content) + 1
            \/ p # current /\ p \in 1..Len(path) /\ path'[p] = path[p] /\ path[p] \in 0..Len(content)
            \/ path'[p] = None
      <4>1. \A p \in 1..Len(path) : path[p] \in 0..Len(content)
        BY Named
      <4>2. \A p \in 1..Len(path') : p \in 1..Len(path) \/ p = Len(path) + 1
        BY <1>0
      <4>3. QED
        BY <1>0, <4>1, <4>2
    <3>2. QED
      <4>1. ASSUME NEW p \in 1..Len(path'), NEW q \in 1..Len(path'), path'[p] = path'[q], path'[p] # None
            PROVE  p = q
        <5>1. CASE p = current \/ q = current
          <6>1. /\ p = current \/ path'[p] \in 0..Len(content)
                /\ q = current \/ path'[q] \in 0..Len(content)
            <7>1. None \in 0..Len(content)
              BY <1>0 DEF None
            <7>2. QED
              BY <3>1, <7>1
          <6>2. path'[current] = Len(content) + 1 /\ Len(content) + 1 \notin 0..Len(content)
            BY <1>0
          <6>3. QED
            BY <4>1, <5>1, <6>1, <6>2
        <5>2. CASE p # current /\ q # current
          BY <3>1, <4>1, <5>2 DEF Streams
        <5>3. QED
          BY <5>1, <5>2
      <4>2. ASSUME NEW p \in 1..Len(path'), path'[p] = file, file # None
            PROVE  p = current
        <5>1. \A r \in 1..Len(path) : path[r] = file => r = current
          BY <4>2 DEF Streams
        <5>2. QED
          BY <3>1, <4>2, <5>1
      <4>3. QED
        BY <4>1, <4>2
  <2>3. QED
    <3>1. /\ UNCHANGED <<pc, line, attempt, after, fd, current, file>>
          /\ pc \in Open => file \in 1..Len(content)
      BY DEF Replace, Streams
    <3>2. pc \in Open => file \in 1..Len(content')
      BY <1>0, <3>1
    <3>3. QED
      BY <2>2, <3>1, <3>2 DEF Streams
<1>6. Counted'
  BY DEF Replace, Fault, CallTyped, Counted
<1>7. Kept'
  BY DEF Replace, Kept
<1>8. Bounded'
  <2>1. ASSUME MaxFileSize > 0, NEW p \in 1..Len(path'), path'[p] # None
        PROVE  Len(content'[path'[p]]) <= Bound
    <3>1. CASE p = current
      <4>1. Len(content'[path'[p]]) \in {0, Len(content[path[current]])}
        BY <1>0, <3>1
      <4>2. current \in 1..Len(path) /\ path[current] # None
        <5>1. current \in 1..Len(path) /\ path[current] \in 1..Len(content) /\ Len(content) \in Nat
          BY <1>0
        <5>2. QED
          BY <5>1 DEF None
      <4>3. Len(content[path[current]]) <= Bound
        BY <2>1, <4>2 DEF Bounded
      <4>4. 0 <= Bound
        BY DEF Bound
      <4>5. QED
        BY <4>1, <4>3, <4>4
    <3>2. CASE p # current /\ p \in 1..Len(path)
      <4>1. path'[p] = path[p] /\ path[p] \in 1..Len(content)
        BY <1>0, <2>1, <3>2, Named
      <4>2. content'[path[p]] = content[path[p]]
        BY <1>0, <4>1
      <4>3. Len(content[path[p]]) <= Bound
        BY <2>1, <3>2, <4>1 DEF Bounded
      <4>4. QED
        BY <4>1, <4>2, <4>3
    <3>3. p \in 1..Len(path) \/ p = Len(path) + 1
      BY <1>0
    <3>4. p # Len(path) + 1
      BY <1>0, <2>1
    <3>5. QED
      BY <3>1, <3>2, <3>3, <3>4
  <2>2. Len(content'[path'[current]]) \in {0, Len(content[path[current]])}
    BY <1>0
  <2>3. Exists(current)
    BY DEF Replace
  <2>4. Len(content[path[current]]) \in Nat /\ bytes \in Nat
    BY <1>0, Named DEF StreamTyped
  <2>5. QED
    <3>1. UNCHANGED <<pc, bytes, current>>
      BY DEF Replace
    <3>2. ASSUME MaxFileSize > 0
          PROVE  /\ pc = "header" => Len(content'[path'[current]]) = 0
                 /\ pc = "rotate" => Len(content'[path'[current]]) <= bytes
                 /\ pc = "write" => Len(content'[path'[current]]) + 1 <= Bound
      <4>1. /\ pc = "header" => Len(content[path[current]]) = 0
            /\ pc = "rotate" => Len(content[path[current]]) <= bytes
            /\ pc = "write" => Len(content[path[current]]) + 1 <= Bound
        BY <2>3, <3>2 DEF Bounded
      <4>2. 0 <= bytes /\ 0 + 1 <= Bound
        BY <2>4, <3>2 DEF Bound
      <4>3. QED
        BY <2>2, <4>1, <4>2
    <3>3. QED
      BY <2>1, <3>1, <3>2 DEF Bounded
<1>9. QED
  BY <1>1, <1>2, <1>3, <1>4, <1>5, <1>6, <1>7, <1>8 DEF IInv

LEMMA StepOK == IInv /\ [Next]_vars => IInv'
<1> SUFFICES ASSUME IInv, [Next]_vars PROVE IInv'
  OBVIOUS
<1>1. ASSUME Environment PROVE IInv'
  BY <1>1, RemoveFileStep, RemoveDirectoryStep, TruncateStep, ReplaceStep DEF Environment
<1>2. ASSUME UNCHANGED vars PROVE IInv'
  <2> USE <1>2 DEF vars, disk, stream, call
  <2>1. FilesTyped' /\ FlagsTyped' /\ StreamTyped' /\ CallTyped'
    BY DEF IInv, FilesTyped, FlagsTyped, StreamTyped, CallTyped
  <2>2. Streams' /\ Counted' /\ Kept' /\ Bounded'
    BY DEF IInv, Streams, Counted, Kept, Bounded, Exists
  <2>3. QED
    BY <2>1, <2>2 DEF IInv
<1>3. QED
  BY <1>1, <1>2, LogStep, EnsureInitializedStep, CheckDirectoryStep, NotADirectoryStep,
     CheckFileStep, CheckSizeStep, ReopenFailsStep, RotateStep, OpenNewFileStep,
     OpenFailsStep, WriteHeaderStep, WriteHeaderFailsStep, WritePayloadStep,
     WriteFailsStep, CheckStillThereStep, ShutdownStep DEF Next, Finished

LEMMA Invariance == Spec => []IInv
  BY InitOK, StepOK, PTL DEF Spec

(***************************************************************************)
(* The theorems                                                            *)
(***************************************************************************)

(* The variables hold values of their types in every state. *)
THEOREM TypeCorrect == Spec => []TypeOK
<1>1. IInv => TypeOK
  BY Parts DEF IInv
<1>2. QED
  BY <1>1, Invariance, PTL

(* No file outgrows the bound, whatever was done to it: rotation is        *)
(* decided on a size that is not less than the file's.                     *)
THEOREM BoundKept == Spec => []FilesBounded
<1>1. IInv => FilesBounded
  <2> SUFFICES ASSUME IInv, MaxFileSize > 0 PROVE FilesBounded
    BY DEF FilesBounded
  <2>1. DOMAIN path = 1..Len(path)
    BY DEF IInv, FilesTyped
  <2>2. QED
    BY <2>1 DEF IInv, Bounded, Bound, FilesBounded
<1>2. QED
  BY <1>1, Invariance, PTL

(* A line that log() reports written is in a file that can be found, and   *)
(* synced if the descriptor is open and fsync() did not fail: file_ and    *)
(* currentFile_ can only part when a file is replaced.                     *)
THEOREM KeptOnDisk == Spec => AcknowledgedIsKept
<1> DEFINE Safe == \A l \in acknowledged' \ acknowledged :
                     ~tampered => \E i \in Found(l) : i \in dirty => fd = None \/ unsynced
<1>1. IInv /\ [Next]_vars => Safe
  <2> SUFFICES ASSUME IInv, [Next]_vars, NEW l \in acknowledged' \ acknowledged, ~tampered
               PROVE  \E i \in Found(l) : i \in dirty => fd = None \/ unsynced
    OBVIOUS
  <2>1. pc = "check" /\ Exists(current) /\ l = line
    <3> USE DEF Next, Environment, Finished, vars, disk, stream, call, Goto, Retry, NoFile
    <3>1. CASE CheckStillThere
      BY <3>1 DEF CheckStillThere, Acknowledge
    <3>2. CASE ~CheckStillThere
      <4>1. acknowledged' = acknowledged
        BY <3>2 DEF Log, EnsureInitialized, CheckDirectory, NotADirectory, CheckFile,
             CheckSize, ReopenFails, Rotate, OpenNewFile, OpenFails, WriteHeader,
             WriteHeaderFails, WritePayload, WriteFails, Shutdown, RemoveFile,
             RemoveDirectory, Truncate, Replace
      <4>2. QED
        BY <4>1
    <3>3. QED
      BY <3>1, <3>2
  <2>2. file \in 1..Len(content) /\ file = current
    BY <2>1 DEF IInv, Streams, Open, Kept, None
  <2>3. path[current] = current /\ current \in DOMAIN path
    BY <2>1, <2>2 DEF IInv, FilesTyped, Kept, Exists, None
  <2>4. file \in Range(path) /\ line \in Range(content[file])
    BY <2>1, <2>2, <2>3 DEF IInv, Kept, Range
  <2>5. file \in Found(l) /\ (file \in dirty => fd = None \/ unsynced)
    BY <2>1, <2>2, <2>4 DEF IInv, Kept, Found, Inodes
  <2>6. QED
    BY <2>5
<1>2. IInv /\ [Next]_vars => [Safe]_vars
  BY <1>1
<1>3. QED
  BY <1>2, Invariance, PTL DEF Spec, AcknowledgedIsKept

(* log() gives a line up only after WriteAttempts faults: no attempt is    *)
(* used up unless something went wrong during this very call.              *)
THEOREM GivenUpOnlyForCause == Spec => GivenUpForCause
<1> DEFINE Caused == pc # "idle" /\ pc' = "idle" /\ line \notin acknowledged' =>
                       faults' - since >= WriteAttempts
<1>1. IInv /\ [Next]_vars => Caused
  <2> SUFFICES ASSUME IInv, [Next]_vars, pc # "idle", pc' = "idle", line \notin acknowledged'
               PROVE  faults' - since >= WriteAttempts
    OBVIOUS
  <2>1. /\ attempt - 1 <= faults - since /\ attempt \in 1..WriteAttempts
        /\ pc = "check" /\ ~Exists(current) => attempt <= faults - since
        /\ faults \in Nat /\ since \in Nat /\ WriteAttempts \in Nat
        /\ pc \in {"open", "header"} => after # "idle"
    BY LoggerAssumption DEF LoggerAssumption, IInv, Counted, Streams, CallTyped
  <2>2. \/ attempt >= WriteAttempts /\ faults' = faults + 1
        \/ attempt >= WriteAttempts /\ faults' = faults /\ pc = "check" /\ ~Exists(current)
    <3>1. ASSUME NotADirectory \/ ReopenFails \/ WriteFails
          PROVE  attempt >= WriteAttempts /\ faults' = faults + 1
      BY <2>1, <3>1 DEF NotADirectory, ReopenFails, WriteFails, Retry, Fault
    <3>2. ASSUME OpenFails \/ WriteHeaderFails
          PROVE  attempt >= WriteAttempts /\ faults' = faults + 1
      BY <2>1, <3>2 DEF OpenFails, WriteHeaderFails, NoFile, Goto, Retry, Fault
    <3>3. ASSUME CheckStillThere
          PROVE  attempt >= WriteAttempts /\ faults' = faults /\ pc = "check" /\ ~Exists(current)
      BY <2>1, <3>3 DEF CheckStillThere, Acknowledge, Retry
    <3>4. ~(Log \/ EnsureInitialized \/ CheckDirectory \/ CheckFile \/ CheckSize \/ Rotate
              \/ OpenNewFile \/ WriteHeader \/ WritePayload \/ Shutdown)
      BY <2>1 DEF Log, EnsureInitialized, CheckDirectory, CheckFile, CheckSize, Rotate,
           OpenNewFile, WriteHeader, WritePayload, Shutdown, Goto
    <3>5. ~(Environment \/ Finished \/ UNCHANGED vars)
      BY DEF Environment, RemoveFile, RemoveDirectory, Truncate, Replace, Finished, vars
    <3>6. QED
      BY <3>1, <3>2, <3>3, <3>4, <3>5 DEF Next
  <2>3. QED
    BY <2>1, <2>2
<1>2. IInv /\ [Next]_vars => [Caused]_vars
  BY <1>1
<1>3. QED
  BY <1>2, Invariance, PTL DEF Spec, GivenUpForCause

(***************************************************************************)
(* Ledger: what entries add up to                                          *)
(***************************************************************************)

Amounts(es) == IsFiniteSet(es) /\ \A e \in es : e.delta \in Int

LEMMA DeltasAre == ASSUME NEW es PROVE Deltas(es) = Total([e \in es |-> e.delta], es)
  BY DEF Deltas, SumFunctionOnSet, FoldFunctionOnSet, MapThenFoldSet, Total, Adds, First

LEMMA DeltasInt == ASSUME NEW es, Amounts(es) PROVE Deltas(es) \in Int
<1> DEFINE f == [e \in es |-> e.delta]
<1>1. IsFiniteSet(es) /\ \A e \in es : f[e] \in Int
  BY DEF Amounts
<1> HIDE DEF f
<1>2. Total(f, es) \in Int
  BY <1>1, TotalInt
<1>3. QED
  BY <1>2, DeltasAre DEF f

LEMMA DeltasNone == Deltas({}) = 0
  BY DeltasAre, TotalEmpty

(* Entries can be added up in two parts.                                   *)
LEMMA DeltasParts ==
  ASSUME NEW es, Amounts(es), NEW some \in SUBSET es
  PROVE  /\ Deltas(es) = Deltas(some) + Deltas(es \ some)
         /\ Amounts(some) /\ Amounts(es \ some)
<1> DEFINE rest == es \ some
           f == [e \in es |-> e.delta]
           g == [e \in some |-> e.delta]
           h == [e \in rest |-> e.delta]
<1>1. Amounts(some) /\ Amounts(rest)
  BY FS_Subset DEF Amounts
<1>2. IsFiniteSet(es) /\ \A e \in es : f[e] \in Int
  BY DEF Amounts
<1>3. (\A e \in some : f[e] = g[e]) /\ (\A e \in rest : f[e] = h[e])
  OBVIOUS
<1>4. IsFiniteSet(some) /\ IsFiniteSet(rest)
  BY <1>1 DEF Amounts
<1> HIDE DEF f, g, h
<1>5. Total(f, es) = Total(f, some) + Total(f, rest)
  BY <1>2, TotalUnion
<1>6. Total(f, some) = Total(g, some)
  BY <1>3, <1>4, TotalSame
<1>7. Total(f, rest) = Total(h, rest)
  <2> HIDE DEF rest
  <2>1. QED
    BY <1>3, <1>4, TotalSame
<1>8. QED
  BY <1>1, <1>5, <1>6, <1>7, DeltasAre DEF f, g, h

LEMMA DeltasOne == ASSUME NEW e, e.delta \in Int PROVE Deltas({e}) = e.delta
<1> DEFINE f == [x \in {e} |-> x.delta]
<1>1. IsFiniteSet({e}) /\ \A x \in {e} : f[x] \in Int
  BY FS_Singleton
<1>2. f[e] = e.delta /\ {e} \ {e} = {}
  OBVIOUS
<1> HIDE DEF f
<1>3. Total(f, {e}) = f[e] + Total(f, {})
  <2>1. Total(f, {e}) = f[e] + Total(f, {e} \ {e})
    BY <1>1, TotalTake
  <2>2. QED
    BY <1>2, <2>1
<1>4. Total(f, {e}) = e.delta
  BY <1>2, <1>3, TotalEmpty
<1>5. QED
  BY <1>4, DeltasAre DEF f

LEMMA DeltasMore ==
  ASSUME NEW es, Amounts(es), NEW e, e \notin es, e.delta \in Int
  PROVE  Amounts(es \cup {e}) /\ Deltas(es \cup {e}) = Deltas(es) + e.delta
<1> DEFINE all == es \cup {e}
<1>1. Amounts(all)
  BY FS_AddElement DEF Amounts
<1>2. es \in SUBSET all /\ all \ es = {e}
  OBVIOUS
<1> HIDE DEF all
<1>3. Deltas(all) = Deltas(es) + Deltas(all \ es)
  BY <1>1, <1>2, DeltasParts
<1>4. QED
  BY <1>1, <1>2, <1>3, DeltasOne DEF all

(***************************************************************************)
(* Ledger: the steps of a transaction                                      *)
(***************************************************************************)

Op == [op : {"get", "post"}, ledger : Ledgers, delta : Int]
Revenue == {FeeRevenue, FxRevenue}

GetOf(l) == [op |-> "get", ledger |-> l, delta |-> 0]
PostOf(l, d) == [op |-> "post", ledger |-> l, delta |-> d]

Gets(q) == {q[i].ledger : i \in {j \in 1..Len(q) : q[j].op = "get"}}
Posts(q) == {q[i] : i \in {j \in 1..Len(q) : q[j].op = "post"}}

(* No account is posted to twice.                                          *)
PostsApart(q) ==
  \A i, j \in 1..Len(q) :
    q[i].op = "post" /\ q[j].op = "post" /\ q[i].ledger = q[j].ledger => i = j

(* An account not in known is looked up before it is posted to.            *)
GetsFirst(q, known) ==
  \A i \in 1..Len(q) :
    q[i].op = "post" =>
      q[i].ledger \in known
      \/ \E j \in 1..(i - 1) : q[j].op = "get" /\ q[j].ledger = q[i].ledger

(* After its first step it looks up the accounts of the bank and of m.     *)
GetsFew(q, m) ==
  \A i \in 1..Len(q) : q[i].op = "get" => q[i].ledger \in Revenue \cup {m} \/ i = 1

Plan(q, m) ==
  q \in Seq(Op) /\ q # <<>> /\ PostsApart(q) /\ GetsFirst(q, Revenue) /\ GetsFew(q, m)

LEMMA FirstGet ==
  ASSUME NEW m, NEW l \in Ledgers
  PROVE  Plan(Get(l), m) /\ Posts(Get(l)) = {} /\ Gets(Get(l)) = {l}
<1> DEFINE q == Get(l)
<1>1. q = <<GetOf(l)>> /\ GetOf(l) \in Op
  BY DEF Get, GetOf, Op
<1>2. q \in Seq(Op) /\ Len(q) = 1 /\ q[1] = GetOf(l) /\ q # <<>>
  BY <1>1
<1> HIDE DEF q
<1>3. \A i \in 1..Len(q) : i = 1 /\ q[i].op = "get" /\ q[i].ledger = l
  BY <1>2 DEF GetOf
<1>4. Posts(q) = {} /\ Gets(q) = {l}
  BY <1>2, <1>3 DEF Posts, Gets
<1>5. PostsApart(q) /\ GetsFirst(q, Revenue) /\ GetsFew(q, m)
  BY <1>3 DEF PostsApart, GetsFirst, GetsFew
<1>6. QED
  BY <1>2, <1>4, <1>5 DEF Plan, q

LEMMA OneMore ==
  ASSUME NEW q \in Seq(Op), NEW x \in Op
  PROVE  LET p == q \o <<x>> IN
         /\ p \in Seq(Op) /\ p # <<>> /\ Len(p) = Len(q) + 1 /\ Len(q) \in Nat
         /\ \A i \in 1..Len(q) : p[i] = q[i]
         /\ p[Len(q) + 1] = x
  OBVIOUS

LEMMA GetMore ==
  ASSUME NEW m, NEW q, Plan(q, m), NEW l \in Ledgers, l \in Revenue \cup {m}
  PROVE  /\ Plan(q \o Get(l), m)
         /\ Posts(q \o Get(l)) = Posts(q) /\ Gets(q \o Get(l)) = Gets(q) \cup {l}
<1> DEFINE x == GetOf(l)
           p == q \o <<x>>
           n == Len(q)
<1>1. q \in Seq(Op) /\ x \in Op /\ x.op = "get" /\ x.ledger = l
  BY DEF Plan, GetOf, Op
<1>2. /\ p \in Seq(Op) /\ p # <<>> /\ Len(p) = n + 1 /\ n \in Nat
      /\ \A i \in 1..n : p[i] = q[i]
      /\ p[n + 1] = x
  BY <1>1, OneMore
<1>3. p = q \o Get(l)
  BY DEF Get, GetOf
<1> HIDE DEF p, x
<1>4. \A i \in 1..Len(p) : i = n + 1 \/ i \in 1..n
  BY <1>2
<1>5. Posts(p) = Posts(q)
  BY <1>1, <1>2, <1>4 DEF Posts
<1>6. Gets(p) = Gets(q) \cup {l}
  <2>1. Gets(p) \subseteq Gets(q) \cup {l}
    BY <1>1, <1>2, <1>4 DEF Gets
  <2>2. Gets(q) \subseteq Gets(p)
    BY <1>2 DEF Gets
  <2>3. l \in Gets(p)
    BY <1>1, <1>2 DEF Gets
  <2>4. QED
    BY <2>1, <2>2, <2>3
<1>7. PostsApart(p)
  BY <1>1, <1>2, <1>4 DEF PostsApart, Plan
<1>8. GetsFirst(p, Revenue)
  BY <1>1, <1>2, <1>4 DEF GetsFirst, Plan
<1>9. GetsFew(p, m)
  BY <1>1, <1>2, <1>4 DEF GetsFew, Plan
<1>10. QED
  BY <1>2, <1>3, <1>5, <1>6, <1>7, <1>8, <1>9 DEF Plan

LEMMA PostMore ==
  ASSUME NEW m, NEW q, Plan(q, m), NEW l \in Ledgers, NEW d \in Int,
         l \in Revenue \cup Gets(q), \A s \in Posts(q) : s.ledger # l
  PROVE  /\ Plan(q \o Post(l, d), m)
         /\ Posts(q \o Post(l, d)) = Posts(q) \cup {PostOf(l, d)}
         /\ Gets(q \o Post(l, d)) = Gets(q)
<1> DEFINE x == PostOf(l, d)
           p == q \o <<x>>
           n == Len(q)
<1>1. q \in Seq(Op) /\ x \in Op /\ x.op = "post" /\ x.ledger = l
  BY DEF Plan, PostOf, Op
<1>2. /\ p \in Seq(Op) /\ p # <<>> /\ Len(p) = n + 1 /\ n \in Nat
      /\ \A i \in 1..n : p[i] = q[i]
      /\ p[n + 1] = x
  BY <1>1, OneMore
<1>3. p = q \o Post(l, d)
  BY DEF Post, PostOf
<1> HIDE DEF p, x
<1>4. \A i \in 1..Len(p) : i = n + 1 \/ i \in 1..n
  BY <1>2
<1>5. Posts(p) = Posts(q) \cup {x}
  <2>1. Posts(p) \subseteq Posts(q) \cup {x}
    BY <1>2, <1>4 DEF Posts
  <2>2. Posts(q) \subseteq Posts(p)
    BY <1>2 DEF Posts
  <2>3. x \in Posts(p)
    BY <1>1, <1>2 DEF Posts
  <2>4. QED
    BY <2>1, <2>2, <2>3
<1>6. Gets(p) = Gets(q)
  BY <1>1, <1>2, <1>4 DEF Gets
<1>7. PostsApart(p)
  <2>1. \A i \in 1..n : q[i].op = "post" => q[i].ledger # l
    BY DEF Posts
  <2>2. QED
    BY <1>1, <1>2, <1>4, <2>1 DEF PostsApart, Plan
<1>8. GetsFirst(p, Revenue)
  <2>1. l \in Revenue \/ \E j \in 1..n : q[j].op = "get" /\ q[j].ledger = l
    BY DEF Gets
  <2>2. l \in Revenue \/ \E j \in 1..n : p[j].op = "get" /\ p[j].ledger = l
    BY <1>2, <2>1
  <2>3. ASSUME NEW i \in 1..n, p[i].op = "post"
        PROVE  p[i].ledger \in Revenue
               \/ \E j \in 1..(i - 1) : p[j].op = "get" /\ p[j].ledger = p[i].ledger
    BY <1>2, <2>3 DEF GetsFirst, Plan
  <2>4. QED
    BY <1>1, <1>2, <1>4, <2>2, <2>3 DEF GetsFirst
<1>9. GetsFew(p, m)
  BY <1>1, <1>2, <1>4 DEF GetsFew, Plan
<1>10. QED
  BY <1>2, <1>3, <1>5, <1>6, <1>7, <1>8, <1>9 DEF Plan, x

PlanOf(c, r) == IF r.kind = "purchase" THEN PurchaseLegs(c, r) ELSE RefundLegs(c, r)

LEMMA InTurn ==
  ASSUME NEW q \in Seq(Op), NEW a \in Seq(Op), NEW b \in Seq(Op)
  PROVE  q \o (a \o b) = (q \o a) \o b
  BY ConcatAssociative

LEMMA OpsAre ==
  ASSUME NEW l \in Ledgers, NEW d \in Int
  PROVE  Get(l) \in Seq(Op) /\ Post(l, d) \in Seq(Op)
  BY DEF Get, Post, Op

LEMMA RequestIs ==
  ASSUME NEW r \in Requests
  PROVE  /\ r.kind \in {"purchase", "refund"} /\ r.merchant \in Merchants \cup {NoMerchant}
         /\ r.total \in Int /\ r.fee \in Int /\ r.markup \in Int
         /\ MerchantShare(r) \in Int /\ MerchantShare(r) = r.total - r.fee - r.markup
  BY LedgerAssumption DEF LedgerAssumption, Request, MerchantShare

LEMMA LedgersApart ==
  /\ Revenue \subseteq Ledgers /\ Customers \subseteq Ledgers /\ Merchants \subseteq Ledgers
  /\ FeeRevenue # FxRevenue /\ NoMerchant \notin Merchants
  /\ \A c \in Customers : c \notin Revenue /\ c \notin Merchants
  /\ \A m \in Merchants : m \notin Revenue
  BY LedgerAssumption DEF LedgerAssumption, Ledgers, Revenue

(* A merchant's account is looked up and posted to.                        *)
LEMMA MerchantMore ==
  ASSUME NEW m \in Ledgers, NEW q, Plan(q, m), NEW d \in Int,
         \A s \in Posts(q) : s.ledger # m
  PROVE  /\ Plan(q \o (Get(m) \o Post(m, d)), m)
         /\ Posts(q \o (Get(m) \o Post(m, d))) = Posts(q) \cup {PostOf(m, d)}
<1>1. q \in Seq(Op) /\ Get(m) \in Seq(Op) /\ Post(m, d) \in Seq(Op)
  BY OpsAre DEF Plan
<1> DEFINE p == q \o Get(m)
<1>2. q \o (Get(m) \o Post(m, d)) = p \o Post(m, d)
  BY <1>1, InTurn
<1>3. Plan(p, m) /\ Posts(p) = Posts(q) /\ m \in Gets(p)
  BY GetMore
<1> HIDE DEF p
<1>4. Plan(p \o Post(m, d), m) /\ Posts(p \o Post(m, d)) = Posts(p) \cup {PostOf(m, d)}
  BY <1>3, PostMore
<1>5. QED
  BY <1>2, <1>3, <1>4

LEMMA Nothing == ASSUME NEW m, NEW q, Plan(q, m) PROVE q \o <<>> = q
  BY DEF Plan

(* The postings of a purchase and of a refund.                             *)
Purchased(c, r) ==
  {PostOf(c, -r.total)}
  \cup (IF MerchantShare(r) > 0 /\ r.merchant # NoMerchant
        THEN {PostOf(r.merchant, MerchantShare(r))} ELSE {})
  \cup (IF r.fee > 0 THEN {PostOf(FeeRevenue, r.fee)} ELSE {})
  \cup (IF r.markup > 0 THEN {PostOf(FxRevenue, r.markup)} ELSE {})

Refunded(c, r) ==
  {PostOf(c, r.total)}
  \cup (IF r.merchant # NoMerchant THEN {PostOf(r.merchant, -r.total)} ELSE {})

LEMMA PurchasePlan ==
  ASSUME NEW c \in Customers, NEW r \in Requests
  PROVE  Plan(PurchaseLegs(c, r), r.merchant) /\ Posts(PurchaseLegs(c, r)) = Purchased(c, r)
<1> DEFINE m == r.merchant
           share == MerchantShare(r)
           q1 == Get(c)
           q2 == q1 \o Get(FeeRevenue)
           q3 == q2 \o Get(FxRevenue)
           q4 == q3 \o Post(c, -r.total)
           named == share > 0 /\ m # NoMerchant
           q5 == q4 \o When(named, Get(m) \o Post(m, share))
           q6 == q5 \o When(r.fee > 0, Post(FeeRevenue, r.fee))
           q7 == q6 \o When(r.markup > 0, Post(FxRevenue, r.markup))
<1>0. PurchaseLegs(c, r) = q7
  BY DEF PurchaseLegs
<1>1. /\ c \in Ledgers /\ FeeRevenue \in Ledgers /\ FxRevenue \in Ledgers
      /\ -r.total \in Int /\ share \in Int /\ r.fee \in Int /\ r.markup \in Int
      /\ named => m \in Ledgers
      /\ FeeRevenue \in Revenue /\ FxRevenue \in Revenue
  BY RequestIs, LedgersApart DEF Revenue
<1>2. Plan(q1, m) /\ Posts(q1) = {} /\ Gets(q1) = {c}
  BY <1>1, FirstGet
<1> HIDE DEF q1
<1>3. Plan(q2, m) /\ Posts(q2) = {} /\ c \in Gets(q2)
  BY <1>1, <1>2, GetMore
<1> HIDE DEF q2
<1>4. Plan(q3, m) /\ Posts(q3) = {} /\ c \in Gets(q3)
  BY <1>1, <1>3, GetMore
<1> HIDE DEF q3
<1>5. Plan(q4, m) /\ Posts(q4) = {PostOf(c, -r.total)}
  <2>1. /\ Plan(q4, m) /\ Posts(q4) = Posts(q3) \cup {PostOf(c, -r.total)}
    BY <1>1, <1>4, PostMore
  <2>2. QED
    BY <2>1, <1>4
<1> HIDE DEF q4
<1>6. Plan(q5, m) /\ Posts(q5) = Posts(q4) \cup (IF named THEN {PostOf(m, share)} ELSE {})
  <2>1. CASE named
    <3>1. q5 = q4 \o (Get(m) \o Post(m, share)) /\ m \in Ledgers
      BY <1>1, <2>1 DEF When
    <3>2. \A s \in Posts(q4) : s.ledger # m
      BY <1>5, <2>1, RequestIs, LedgersApart DEF PostOf
    <3>3. /\ Plan(q4 \o (Get(m) \o Post(m, share)), m)
          /\ Posts(q4 \o (Get(m) \o Post(m, share))) = Posts(q4) \cup {PostOf(m, share)}
      BY <1>1, <1>5, <3>1, <3>2, MerchantMore
    <3>4. QED
      BY <2>1, <3>1, <3>3
  <2>2. CASE ~named
    <3>1. q5 = q4
      BY <1>5, <2>2, Nothing DEF When
    <3>2. QED
      BY <1>5, <2>2, <3>1
  <2>3. QED
    BY <2>1, <2>2
<1> HIDE DEF q5
<1>7. /\ Plan(q6, m)
      /\ Posts(q6) = Posts(q5) \cup (IF r.fee > 0 THEN {PostOf(FeeRevenue, r.fee)} ELSE {})
  <2>1. CASE r.fee > 0
    <3>1. q6 = q5 \o Post(FeeRevenue, r.fee)
      BY <2>1 DEF When
    <3>2. \A s \in Posts(q5) : s.ledger # FeeRevenue
      BY <1>5, <1>6, RequestIs, LedgersApart DEF PostOf, Revenue
    <3>3. /\ Plan(q5 \o Post(FeeRevenue, r.fee), m)
          /\ Posts(q5 \o Post(FeeRevenue, r.fee)) = Posts(q5) \cup {PostOf(FeeRevenue, r.fee)}
      BY <1>1, <1>6, <3>2, PostMore
    <3>4. QED
      BY <2>1, <3>1, <3>3
  <2>2. CASE ~(r.fee > 0)
    <3>1. q6 = q5
      BY <1>6, <2>2, Nothing DEF When
    <3>2. QED
      BY <1>6, <2>2, <3>1
  <2>3. QED
    BY <2>1, <2>2
<1> HIDE DEF q6
<1>8. /\ Plan(q7, m)
      /\ Posts(q7) = Posts(q6) \cup (IF r.markup > 0 THEN {PostOf(FxRevenue, r.markup)} ELSE {})
  <2>1. CASE r.markup > 0
    <3>1. q7 = q6 \o Post(FxRevenue, r.markup)
      BY <2>1 DEF When
    <3>2. \A s \in Posts(q6) : s.ledger # FxRevenue
      BY <1>5, <1>6, <1>7, RequestIs, LedgersApart DEF PostOf, Revenue
    <3>3. /\ Plan(q6 \o Post(FxRevenue, r.markup), m)
          /\ Posts(q6 \o Post(FxRevenue, r.markup)) = Posts(q6) \cup {PostOf(FxRevenue, r.markup)}
      BY <1>1, <1>7, <3>2, PostMore
    <3>4. QED
      BY <2>1, <3>1, <3>3
  <2>2. CASE ~(r.markup > 0)
    <3>1. q7 = q6
      BY <1>7, <2>2, Nothing DEF When
    <3>2. QED
      BY <1>7, <2>2, <3>1
  <2>3. QED
    BY <2>1, <2>2
<1> HIDE DEF q7
<1>9. QED
  BY <1>0, <1>5, <1>6, <1>7, <1>8 DEF Purchased

LEMMA RefundPlan ==
  ASSUME NEW c \in Customers, NEW r \in Requests
  PROVE  Plan(RefundLegs(c, r), r.merchant) /\ Posts(RefundLegs(c, r)) = Refunded(c, r)
<1> DEFINE m == r.merchant
           q1 == Get(c)
           q2 == q1 \o Post(c, r.total)
           named == m # NoMerchant
           d == -r.total
           q3 == q2 \o When(named, Get(m) \o Post(m, d))
<1>0. RefundLegs(c, r) = q3
  BY DEF RefundLegs
<1>1. /\ c \in Ledgers /\ d \in Int /\ r.total \in Int
      /\ named => m \in Ledgers
  BY RequestIs, LedgersApart
<1>2. Plan(q1, m) /\ Posts(q1) = {} /\ Gets(q1) = {c}
  BY <1>1, FirstGet
<1> HIDE DEF q1
<1>3. Plan(q2, m) /\ Posts(q2) = {PostOf(c, r.total)}
  <2>1. /\ Plan(q2, m) /\ Posts(q2) = Posts(q1) \cup {PostOf(c, r.total)}
    BY <1>1, <1>2, PostMore
  <2>2. QED
    BY <2>1, <1>2
<1> HIDE DEF q2
<1>4. Plan(q3, m) /\ Posts(q3) = Posts(q2) \cup (IF named THEN {PostOf(m, d)} ELSE {})
  <2>1. CASE named
    <3>1. q3 = q2 \o (Get(m) \o Post(m, d)) /\ m \in Ledgers
      BY <1>1, <2>1 DEF When
    <3>2. \A s \in Posts(q2) : s.ledger # m
      BY <1>3, <2>1, RequestIs, LedgersApart DEF PostOf
    <3>3. /\ Plan(q2 \o (Get(m) \o Post(m, d)), m)
          /\ Posts(q2 \o (Get(m) \o Post(m, d))) = Posts(q2) \cup {PostOf(m, d)}
      BY <1>1, <1>3, <3>1, <3>2, MerchantMore
    <3>4. QED
      BY <2>1, <3>1, <3>3
  <2>2. CASE ~named
    <3>1. q3 = q2
      BY <1>3, <2>2, Nothing DEF When
    <3>2. QED
      BY <1>3, <2>2, <3>1
  <2>3. QED
    BY <2>1, <2>2
<1> HIDE DEF q3
<1>5. QED
  BY <1>0, <1>3, <1>4 DEF Refunded

(* Legs: the entries of transaction t that steps q are going to make.      *)
Leg(t, s) == [txn |-> t, ledger |-> s.ledger, delta |-> s.delta]
Legs(t, q) == {Leg(t, s) : s \in Posts(q)}

EntryOf(t, l, d) == [txn |-> t, ledger |-> l, delta |-> d]

LEMMA EntryMore ==
  ASSUME NEW es, Amounts(es), NEW t, NEW l, NEW d \in Int, \A e \in es : e.ledger # l
  PROVE  /\ Amounts(es \cup {EntryOf(t, l, d)})
         /\ Deltas(es \cup {EntryOf(t, l, d)}) = Deltas(es) + d
<1>1. EntryOf(t, l, d) \notin es /\ EntryOf(t, l, d).delta = d
  BY DEF EntryOf
<1>2. QED
  BY <1>1, DeltasMore

LEMMA EntryAlone ==
  ASSUME NEW t, NEW l, NEW d \in Int
  PROVE  Amounts({EntryOf(t, l, d)}) /\ Deltas({EntryOf(t, l, d)}) = d
<1>1. EntryOf(t, l, d).delta = d
  BY DEF EntryOf
<1>2. QED
  BY <1>1, DeltasOne, FS_Singleton DEF Amounts

LEMMA PurchaseAdds ==
  ASSUME NEW t, NEW c \in Customers, NEW r \in Requests, r.kind = "purchase"
  PROVE  Deltas(Legs(t, PurchaseLegs(c, r))) = Unbooked(r)
<1> DEFINE m == r.merchant
           share == MerchantShare(r)
           named == share > 0 /\ m # NoMerchant
           e1 == {EntryOf(t, c, -r.total)}
           e2 == IF named THEN e1 \cup {EntryOf(t, m, share)} ELSE e1
           e3 == IF r.fee > 0 THEN e2 \cup {EntryOf(t, FeeRevenue, r.fee)} ELSE e2
           e4 == IF r.markup > 0 THEN e3 \cup {EntryOf(t, FxRevenue, r.markup)} ELSE e3
<1>0. Legs(t, PurchaseLegs(c, r)) = e4
  <2>1. Legs(t, PurchaseLegs(c, r)) = {Leg(t, s) : s \in Purchased(c, r)}
    BY PurchasePlan DEF Legs
  <2>2. \A l, d : Leg(t, PostOf(l, d)) = EntryOf(t, l, d)
    BY DEF Leg, PostOf, EntryOf
  <2>3. QED
    BY <2>1, <2>2 DEF Purchased
<1>1. /\ -r.total \in Int /\ share \in Int /\ r.fee \in Int /\ r.markup \in Int /\ r.total \in Int
      /\ share = r.total - r.fee - r.markup
      /\ Positive(-r.fee) \in Int /\ Positive(-r.markup) \in Int
      /\ Unbooked(r) = (IF named THEN 0 ELSE -share) + Positive(-r.fee) + Positive(-r.markup)
  BY RequestIs DEF Unbooked, Positive
<1>2. /\ c # FeeRevenue /\ c # FxRevenue /\ FeeRevenue # FxRevenue
      /\ named => m # c /\ m # FeeRevenue /\ m # FxRevenue
  BY RequestIs, LedgersApart DEF Revenue
<1> HIDE DEF named, share, m
<1>3. Amounts(e1) /\ Deltas(e1) = -r.total /\ \A e \in e1 : e.ledger = c
  <2>1. Amounts(e1) /\ Deltas(e1) = -r.total
    BY <1>1, EntryAlone
  <2>2. \A e \in e1 : e.ledger = c
    BY DEF EntryOf
  <2>3. QED
    BY <2>1, <2>2
<1> HIDE DEF e1
<1>4. /\ Amounts(e2) /\ Deltas(e2) = IF named THEN -r.total + share ELSE -r.total
      /\ \A e \in e2 : e.ledger # FeeRevenue /\ e.ledger # FxRevenue
  <2>1. CASE named
    <3>1. \A e \in e1 : e.ledger # m
      BY <1>2, <1>3, <2>1
    <3>2. /\ Amounts(e1 \cup {EntryOf(t, m, share)})
          /\ Deltas(e1 \cup {EntryOf(t, m, share)}) = Deltas(e1) + share
      BY <1>1, <1>3, <3>1, EntryMore
    <3>3. \A e \in e2 : e.ledger \in {c, m}
      BY <1>3, <2>1 DEF EntryOf
    <3>4. QED
      BY <1>2, <1>3, <2>1, <3>2, <3>3
  <2>2. CASE ~named
    BY <1>2, <1>3, <2>2
  <2>3. QED
    BY <2>1, <2>2
<1> HIDE DEF e2
<1>5. /\ Amounts(e3) /\ Deltas(e3) = Deltas(e2) + r.fee + Positive(-r.fee)
      /\ \A e \in e3 : e.ledger # FxRevenue
  <2>0. Deltas(e2) \in Int
    BY <1>4, DeltasInt
  <2>1. CASE r.fee > 0
    <3>1. /\ Amounts(e2 \cup {EntryOf(t, FeeRevenue, r.fee)})
          /\ Deltas(e2 \cup {EntryOf(t, FeeRevenue, r.fee)}) = Deltas(e2) + r.fee
      <4>1. Amounts(e2) /\ r.fee \in Int /\ \A e \in e2 : e.ledger # FeeRevenue
        BY <1>1, <1>4
      <4>2. QED
        BY <4>1, EntryMore
    <3>2. \A e \in e3 : e.ledger # FxRevenue
      BY <1>2, <1>4, <2>1 DEF EntryOf
    <3>3. QED
      BY <1>1, <2>0, <2>1, <3>1, <3>2 DEF Positive
  <2>2. CASE ~(r.fee > 0)
    BY <1>1, <1>4, <2>0, <2>2 DEF Positive
  <2>3. QED
    BY <2>1, <2>2
<1> HIDE DEF e3
<1>6. Deltas(e4) = Deltas(e3) + r.markup + Positive(-r.markup)
  <2>0. Deltas(e3) \in Int
    BY <1>5, DeltasInt
  <2>1. CASE r.markup > 0
    <3>1. Deltas(e3 \cup {EntryOf(t, FxRevenue, r.markup)}) = Deltas(e3) + r.markup
      <4>1. Amounts(e3) /\ r.markup \in Int /\ \A e \in e3 : e.ledger # FxRevenue
        BY <1>1, <1>5
      <4>2. QED
        BY <4>1, EntryMore
    <3>2. QED
      BY <1>1, <2>0, <2>1, <3>1 DEF Positive
  <2>2. CASE ~(r.markup > 0)
    BY <1>1, <2>0, <2>2 DEF Positive
  <2>3. QED
    BY <2>1, <2>2
<1> HIDE DEF e4
<1>7. CASE named
  BY <1>0, <1>1, <1>4, <1>5, <1>6, <1>7
<1>8. CASE ~named
  BY <1>0, <1>1, <1>4, <1>5, <1>6, <1>8
<1>9. QED
  BY <1>7, <1>8

LEMMA RefundAdds ==
  ASSUME NEW t, NEW c \in Customers, NEW r \in Requests, r.kind = "refund"
  PROVE  Deltas(Legs(t, RefundLegs(c, r))) = Unbooked(r)
<1> DEFINE m == r.merchant
           named == m # NoMerchant
           d == -r.total
           e1 == {EntryOf(t, c, r.total)}
           e2 == IF named THEN e1 \cup {EntryOf(t, m, d)} ELSE e1
<1>0. Legs(t, RefundLegs(c, r)) = e2
  <2>1. Legs(t, RefundLegs(c, r)) = {Leg(t, s) : s \in Refunded(c, r)}
    BY RefundPlan DEF Legs
  <2>2. \A l, x : Leg(t, PostOf(l, x)) = EntryOf(t, l, x)
    BY DEF Leg, PostOf, EntryOf
  <2>3. QED
    BY <2>1, <2>2 DEF Refunded
<1>1. /\ d \in Int /\ r.total \in Int /\ r.total + d = 0
      /\ Unbooked(r) = IF named THEN 0 ELSE r.total
      /\ named => m # c
  BY RequestIs, LedgersApart DEF Unbooked
<1> HIDE DEF named, m, d
<1>2. Amounts(e1) /\ Deltas(e1) = r.total /\ \A e \in e1 : e.ledger = c
  <2>1. Amounts(e1) /\ Deltas(e1) = r.total
    BY <1>1, EntryAlone
  <2>2. \A e \in e1 : e.ledger = c
    BY DEF EntryOf
  <2>3. QED
    BY <2>1, <2>2
<1> HIDE DEF e1
<1>3. CASE named
  <2>1. Deltas(e1 \cup {EntryOf(t, m, d)}) = Deltas(e1) + d
    <3>1. \A e \in e1 : e.ledger # m
      BY <1>1, <1>2, <1>3
    <3>2. QED
      BY <1>1, <1>2, <3>1, EntryMore
  <2>2. QED
    BY <1>0, <1>1, <1>2, <1>3, <2>1
<1>4. CASE ~named
  BY <1>0, <1>1, <1>2, <1>4
<1>5. QED
  BY <1>3, <1>4

LEMMA PlanIs ==
  ASSUME NEW c \in Customers, NEW r \in Requests
  PROVE  /\ Plan(PlanOf(c, r), r.merchant)
         /\ \A t : Deltas(Legs(t, PlanOf(c, r))) = Unbooked(r)
<1>1. CASE r.kind = "purchase"
  BY <1>1, PurchasePlan, PurchaseAdds DEF PlanOf
<1>2. CASE r.kind = "refund"
  BY <1>2, RefundPlan, RefundAdds DEF PlanOf
<1>3. QED
  BY <1>1, <1>2, RequestIs

(***************************************************************************)
(* Ledger: the invariant                                                   *)
(***************************************************************************)

LegsOf(t) == Legs(t, PlanOf(asked[t].customer, asked[t].request))
Own(t) == {e \in entries : e.txn = t}

LedgerTyped ==
  /\ balance \in [DOMAIN balance -> Int] /\ DOMAIN balance \subseteq Ledgers
  /\ entries \subseteq [txn : 1..Began, ledger : Ledgers, delta : Int] /\ IsFiniteSet(entries)
  /\ asked \in Seq([customer : Customers, request : Requests])
  /\ txn \in [Workers -> 0..Began]
  /\ steps \in [Workers -> Seq(Op)]
  /\ created \in [Workers -> SUBSET Ledgers]
  /\ DOMAIN view = Workers
  /\ lost \subseteq 1..Began /\ refusals \in 0..MaxRefusals

(* Transactions are of one worker each; who has none has nothing.          *)
TxnsApart ==
  /\ \A v, w \in Workers : txn[v] = txn[w] /\ txn[v] # 0 => v = w
  /\ \A w \in Workers : txn[w] = 0 => steps[w] = <<>> /\ created[w] = {} /\ view[w] = NoView
  /\ \A v, w \in Workers : v # w => created[v] \cap created[w] = {}

(* Entries belong to rows, those of a new row to who inserted it.          *)
RowsThere ==
  /\ Revenue \subseteq DOMAIN balance
  /\ \A w \in Workers : created[w] \subseteq DOMAIN balance \ Revenue
  /\ \A e \in entries : e.ledger \in DOMAIN balance
  /\ \A w \in Workers : \A e \in entries : e.ledger \in created[w] => e.txn = txn[w]

(* The rows that do not vanish while w is at work.                         *)
Known(w) == DOMAIN balance \ Inserted(w)

(* What w's transaction has posted and is still going to post are the legs *)
(* of its request, each once, each to a row that will be there.            *)
Ahead(w) ==
  /\ Own(txn[w]) \cup Legs(txn[w], steps[w]) = LegsOf(txn[w])
  /\ \A e \in Own(txn[w]) : \A s \in Posts(steps[w]) : e.ledger # s.ledger
  /\ PostsApart(steps[w])
  /\ GetsFirst(steps[w], Known(w))

AllAhead == \A w \in Workers : txn[w] # 0 => Ahead(w)

(* A transaction that has ended has all its legs or none.                  *)
AllOrNone ==
  \A t \in 1..Began : (\A w \in Workers : txn[w] # t) => Own(t) = {} \/ Own(t) = LegsOf(t)

(* Only the account of its merchant can be missing from w's view.          *)
ViewsHave ==
  \A w \in Workers :
    /\ view[w] # NoView => Revenue \subseteq DOMAIN view[w]
    /\ txn[w] # 0 => \A i \in 1..Len(steps[w]) :
         steps[w][i].op = "get" =>
           \/ steps[w][i].ledger \in Revenue \cup {asked[txn[w]].request.merchant}
           \/ i = 1 /\ view[w] = NoView

BooksInv ==
  LedgerTyped /\ TxnsApart /\ RowsThere /\ AllAhead /\ AllOrNone /\ ViewsHave /\ Reconciled

LEMMA BooksInit == LedgerInit => BooksInv
<1> SUFFICES ASSUME LedgerInit PROVE BooksInv
  OBVIOUS
<1> USE DEF LedgerInit
<1>1. Began = 0 /\ entries = {} /\ DOMAIN balance = Revenue
  BY DEF Began, Revenue
<1>2. LedgerTyped
  <2>1. balance \in [DOMAIN balance -> Int] /\ DOMAIN balance \subseteq Ledgers
    BY <1>1, LedgersApart
  <2>2. entries \subseteq [txn : 1..Began, ledger : Ledgers, delta : Int] /\ IsFiniteSet(entries)
    BY <1>1, FS_EmptySet
  <2>3. asked \in Seq([customer : Customers, request : Requests]) /\ txn \in [Workers -> 0..Began]
    BY <1>1
  <2>4. steps \in [Workers -> Seq(Op)] /\ created \in [Workers -> SUBSET Ledgers]
        /\ DOMAIN view = Workers
    OBVIOUS
  <2>5. lost \subseteq 1..Began /\ refusals \in 0..MaxRefusals
    BY LedgerAssumption DEF LedgerAssumption
  <2>6. QED
    BY <2>1, <2>2, <2>3, <2>4, <2>5 DEF LedgerTyped
<1>3. TxnsApart
  BY DEF TxnsApart
<1>4. RowsThere
  BY <1>1 DEF RowsThere
<1>5. AllAhead /\ AllOrNone
  BY <1>1 DEF AllAhead, AllOrNone
<1>6. ViewsHave
  BY DEF ViewsHave
<1>7. Reconciled
  <2> SUFFICES ASSUME NEW l \in DOMAIN balance PROVE balance[l] = Posted(entries, l)
    BY DEF Reconciled
  <2>1. {e \in entries : e.ledger = l} = {} /\ balance[l] = 0
    BY <1>1
  <2>2. QED
    BY <2>1, DeltasNone DEF Posted
<1>8. QED
  BY <1>2, <1>3, <1>4, <1>5, <1>6, <1>7 DEF BooksInv

(***************************************************************************)
(* Ledger: the steps                                                       *)
(***************************************************************************)

LEMMA LedgerIs ==
  ASSUME BooksInv
  PROVE  /\ Began \in Nat
         /\ \A t \in 1..Began : asked[t].customer \in Customers /\ asked[t].request \in Requests
         /\ \A w \in Workers :
              txn[w] \in 0..Began /\ steps[w] \in Seq(Op) /\ (txn[w] # 0 => txn[w] \in 1..Began)
         /\ \A e \in entries : e.txn \in 1..Began /\ e.ledger \in Ledgers /\ e.delta \in Int
         /\ \A es \in SUBSET entries : Amounts(es)
<1>1. asked \in Seq([customer : Customers, request : Requests]) /\ Began \in Nat
  BY DEF BooksInv, LedgerTyped, Began
<1>2. \A t \in 1..Began : asked[t].customer \in Customers /\ asked[t].request \in Requests
  <2> SUFFICES ASSUME NEW t \in 1..Began PROVE asked[t] \in [customer : Customers, request : Requests]
    OBVIOUS
  <2>1. t \in 1..Len(asked)
    BY DEF Began
  <2>2. QED
    BY <1>1, <2>1, ElementOfSeq
<1>3. \A w \in Workers :
        txn[w] \in 0..Began /\ steps[w] \in Seq(Op) /\ (txn[w] # 0 => txn[w] \in 1..Began)
  BY <1>1 DEF BooksInv, LedgerTyped
<1>4. \A e \in entries : e.txn \in 1..Began /\ e.ledger \in Ledgers /\ e.delta \in Int
  BY DEF BooksInv, LedgerTyped
<1>5. ASSUME NEW es \in SUBSET entries PROVE Amounts(es)
  <2>1. IsFiniteSet(es)
    BY FS_Subset DEF BooksInv, LedgerTyped
  <2>2. QED
    BY <1>4, <2>1 DEF Amounts
<1>6. QED
  BY <1>1, <1>2, <1>3, <1>4, <1>5

LEMMA Rest ==
  ASSUME NEW q \in Seq(Op), q # <<>>
  PROVE  /\ Tail(q) \in Seq(Op) /\ Head(q) = q[1] /\ Head(q) \in Op /\ Len(q) \in Nat /\ Len(q) >= 1
         /\ Len(Tail(q)) = Len(q) - 1
         /\ \A i \in 1..Len(Tail(q)) : Tail(q)[i] = q[i + 1] /\ i + 1 \in 1..Len(q)
         /\ \A i \in 1..Len(q) : i = 1 \/ (i - 1 \in 1..Len(Tail(q)) /\ Tail(q)[i - 1] = q[i])
<1>1. /\ Tail(q) \in Seq(Op) /\ Head(q) = q[1] /\ Head(q) \in Op /\ Len(q) \in Nat /\ Len(q) >= 1
      /\ Len(Tail(q)) = Len(q) - 1
  OBVIOUS
<1>2. \A i \in 1..Len(Tail(q)) : Tail(q)[i] = q[i + 1]
  OBVIOUS
<1>3. ASSUME NEW i \in 1..Len(q), i # 1 PROVE i - 1 \in 1..Len(Tail(q)) /\ (i - 1) + 1 = i
  BY <1>1, <1>3
<1>4. QED
  BY <1>1, <1>2, <1>3

LEMMA RestPosts ==
  ASSUME NEW q \in Seq(Op), q # <<>>
  PROVE  /\ Posts(q) = IF Head(q).op = "post" THEN Posts(Tail(q)) \cup {Head(q)} ELSE Posts(Tail(q))
         /\ PostsApart(q) => /\ PostsApart(Tail(q))
                             /\ Head(q).op = "post" =>
                                  \A s \in Posts(Tail(q)) : s.ledger # Head(q).ledger
<1> DEFINE p == Tail(q)
           n == Len(q)
           k == Len(p)
<1>1. /\ Head(q) = q[1] /\ n \in Nat /\ n >= 1 /\ k = n - 1
      /\ \A i \in 1..k : p[i] = q[i + 1] /\ i + 1 \in 1..n
      /\ \A i \in 1..n : i = 1 \/ (i - 1 \in 1..k /\ p[i - 1] = q[i])
  BY Rest
<1> HIDE DEF p, n, k
<1>2. /\ Posts(q) = {q[i] : i \in {j \in 1..n : q[j].op = "post"}}
      /\ Posts(p) = {p[i] : i \in {j \in 1..k : p[j].op = "post"}}
  BY DEF Posts, n, k
<1>3. Posts(p) \subseteq Posts(q)
  BY <1>1, <1>2
<1>4. Posts(q) \subseteq Posts(p) \cup {s \in {q[1]} : s.op = "post"}
  BY <1>1, <1>2
<1>5. q[1].op = "post" => q[1] \in Posts(q)
  <2>1. 1 \in 1..n
    BY <1>1
  <2>2. QED
    BY <1>2, <2>1
<1>6. Posts(q) = IF Head(q).op = "post" THEN Posts(p) \cup {Head(q)} ELSE Posts(p)
  BY <1>1, <1>3, <1>4, <1>5
<1>7. ASSUME PostsApart(q)
      PROVE  /\ PostsApart(p)
             /\ Head(q).op = "post" => \A s \in Posts(p) : s.ledger # Head(q).ledger
  <2>1. \A i, j \in 1..n : q[i].op = "post" /\ q[j].op = "post" /\ q[i].ledger = q[j].ledger => i = j
    BY <1>7 DEF PostsApart, n
  <2>2. PostsApart(p)
    <3>1. ASSUME NEW i \in 1..k, NEW j \in 1..k, p[i].op = "post", p[j].op = "post",
                 p[i].ledger = p[j].ledger
          PROVE  i = j
      <4>1. i + 1 \in 1..n /\ j + 1 \in 1..n /\ p[i] = q[i + 1] /\ p[j] = q[j + 1]
        BY <1>1
      <4>2. i + 1 = j + 1
        BY <2>1, <3>1, <4>1
      <4>3. QED
        BY <1>1, <4>2
    <3>2. QED
      BY <3>1 DEF PostsApart, k
  <2>3. ASSUME Head(q).op = "post", NEW i \in 1..k, p[i].op = "post", p[i].ledger = Head(q).ledger
        PROVE  FALSE
    <3>1. 1 \in 1..n /\ i + 1 \in 1..n /\ q[i + 1] = p[i] /\ q[1] = Head(q) /\ i + 1 # 1
      BY <1>1
    <3>2. QED
      BY <2>1, <2>3, <3>1
  <2>4. QED
    BY <1>2, <2>2, <2>3
<1>8. QED
  BY <1>6, <1>7 DEF p

(* Once its first step is done, the account that it looked up is known.    *)
LEMMA RestGets ==
  ASSUME NEW q \in Seq(Op), q # <<>>, NEW known, NEW more, GetsFirst(q, known), known \subseteq more,
         Head(q).op = "get" => Head(q).ledger \in more
  PROVE  /\ GetsFirst(Tail(q), more)
         /\ Head(q).op = "post" => Head(q).ledger \in known
<1> DEFINE p == Tail(q)
           n == Len(q)
           k == Len(p)
<1>1. /\ Head(q) = q[1] /\ n \in Nat /\ n >= 1 /\ k = n - 1
      /\ \A i \in 1..k : p[i] = q[i + 1] /\ i + 1 \in 1..n
      /\ \A i \in 1..n : i = 1 \/ (i - 1 \in 1..k /\ p[i - 1] = q[i])
  BY Rest
<1>2. \A i \in 1..n : q[i].op = "post" =>
        q[i].ledger \in known \/ \E j \in 1..(i - 1) : q[j].op = "get" /\ q[j].ledger = q[i].ledger
  BY DEF GetsFirst
<1> HIDE DEF p, n, k
<1>3. Head(q).op = "post" => Head(q).ledger \in known
  <2>1. 1 \in 1..n /\ 1..(1 - 1) = {}
    BY <1>1
  <2>2. QED
    BY <1>1, <1>2, <2>1
<1>4. ASSUME NEW i \in 1..k, p[i].op = "post", p[i].ledger \notin more
      PROVE  \E j \in 1..(i - 1) : p[j].op = "get" /\ p[j].ledger = p[i].ledger
  <2>1. i + 1 \in 1..n /\ q[i + 1] = p[i] /\ (i + 1) - 1 = i
    BY <1>1
  <2>2. PICK j \in 1..i : q[j].op = "get" /\ q[j].ledger = p[i].ledger
    BY <1>2, <1>4, <2>1
  <2>3. j # 1
    BY <1>1, <1>4, <2>2
  <2>4. j - 1 \in 1..k /\ p[j - 1] = q[j] /\ j - 1 \in 1..(i - 1)
    BY <1>1, <2>2, <2>3
  <2>5. QED
    BY <2>2, <2>4
<1>5. GetsFirst(p, more)
  BY <1>4 DEF GetsFirst, k
<1>6. QED
  BY <1>3, <1>5 DEF p

LEMMA StillAhead ==
  ASSUME BooksInv, NEW v \in Workers, txn[v] # 0, steps'[v] = steps[v], txn'[v] = txn[v],
         Own(txn[v])' = Own(txn[v]), LegsOf(txn[v])' = LegsOf(txn[v]), Known(v) \subseteq Known(v)'
  PROVE  Ahead(v)'
<1>1. Ahead(v)
  BY DEF BooksInv, AllAhead
<1>2. GetsFirst(steps[v], Known(v)')
  <2> DEFINE k == Known(v)
             p == Known(v)'
  <2>1. GetsFirst(steps[v], k) /\ k \subseteq p
    BY <1>1 DEF Ahead
  <2> HIDE DEF k, p
  <2>2. GetsFirst(steps[v], p)
    BY <2>1 DEF GetsFirst
  <2>3. QED
    BY <2>2 DEF p
<1>3. Own(txn[v])' = {e \in entries' : e.txn = txn[v]} /\ LegsOf(txn[v])' = LegsOf(txn[v])
  BY DEF Own
<1>4. QED
  BY <1>1, <1>2 DEF Ahead

LEMMA LegsStay ==
  ASSUME UNCHANGED asked, NEW t
  PROVE  LegsOf(t)' = LegsOf(t)
  BY DEF LegsOf

LEMMA BeginBooks ==
  ASSUME BooksInv, NEW w \in Workers, Begin(w)
  PROVE  BooksInv' /\ lost \subseteq 1..Began /\ \A t \in 1..Began : asked'[t] = asked[t]
<1>a. PICK t0 : t0 = Began + 1
  OBVIOUS
<1>0. PICK c \in Customers, r \in Requests :
        /\ asked' = Append(asked, [customer |-> c, request |-> r])
        /\ txn' = [txn EXCEPT ![w] = t0]
        /\ steps' = [steps EXCEPT ![w] = PlanOf(c, r)]
  BY <1>a DEF Begin, PlanOf
<1>1. txn[w] = 0 /\ UNCHANGED <<balance, entries, created, view, lost, refusals>>
  BY DEF Begin, Active
<1>2. /\ Began \in Nat /\ Began' = t0 /\ t0 \in Nat /\ t0 # 0
      /\ asked' \in Seq([customer : Customers, request : Requests])
      /\ \A t \in 1..Began : asked'[t] = asked[t]
      /\ asked'[t0].customer = c /\ asked'[t0].request = r
  <2> DEFINE R == [customer : Customers, request : Requests]
             x == [customer |-> c, request |-> r]
  <2>1. asked \in Seq(R) /\ x \in R /\ x.customer = c /\ x.request = r
    BY DEF BooksInv, LedgerTyped
  <2> HIDE DEF R, x
  <2>2. asked' = Append(asked, x)
    BY <1>0 DEF x
  <2>3. QED
    BY <1>a, <2>1, <2>2 DEF Began, R
<1>3. /\ Plan(PlanOf(c, r), r.merchant) /\ PlanOf(c, r) \in Seq(Op)
  BY PlanIs DEF Plan
<1>4. /\ \A v \in Workers : txn'[v] = IF v = w THEN t0 ELSE txn[v]
      /\ \A v \in Workers : steps'[v] = IF v = w THEN PlanOf(c, r) ELSE steps[v]
      /\ DOMAIN txn = Workers /\ DOMAIN steps = Workers
      /\ \A v \in Workers : txn[v] \in 0..Began
      /\ \A e \in entries : e.txn \in 1..Began
  <2>1. /\ DOMAIN txn = Workers /\ DOMAIN steps = Workers
        /\ \A v \in Workers : txn[v] \in 0..Began
    BY DEF BooksInv, LedgerTyped
  <2>2. \A e \in entries : e.txn \in 1..Began
    BY LedgerIs
  <2>3. QED
    BY <1>0, <2>1, <2>2
<1>5. LedgerTyped'
  <2>1. 1..Began \subseteq 1..Began' /\ 0..Began \subseteq 0..Began' /\ t0 \in 0..Began'
    BY <1>a, <1>2
  <2>2. txn' \in [Workers -> 0..Began']
    BY <1>0, <1>4, <2>1
  <2>3. steps' \in [Workers -> Seq(Op)]
    BY <1>0, <1>3 DEF BooksInv, LedgerTyped
  <2>4. entries' \subseteq [txn : 1..Began', ledger : Ledgers, delta : Int]
    BY <1>1, <2>1 DEF BooksInv, LedgerTyped
  <2>5. lost' \subseteq 1..Began'
    BY <1>1, <2>1 DEF BooksInv, LedgerTyped
  <2>6. QED
    BY <1>1, <1>2, <2>2, <2>3, <2>4, <2>5 DEF BooksInv, LedgerTyped
<1>6. TxnsApart'
  <2>1. \A v \in Workers : txn[v] # t0
    BY <1>a, <1>2, <1>4
  <2>2. QED
    BY <1>1, <1>2, <1>4, <2>1 DEF BooksInv, TxnsApart
<1>7. RowsThere'
  <2>1. \A v \in Workers : \A e \in entries : e.ledger \in created[v] => e.txn = txn'[v]
    BY <1>1, <1>4 DEF BooksInv, RowsThere, TxnsApart
  <2>2. QED
    BY <1>1, <2>1 DEF BooksInv, RowsThere
<1>8. /\ \A t \in 1..Began : Own(t)' = Own(t) /\ LegsOf(t)' = LegsOf(t)
      /\ Own(t0)' = {} /\ LegsOf(t0)' = Legs(t0, PlanOf(c, r))
      /\ \A v : Known(v)' = Known(v)
  <2>1. \A t \in 1..Began : Own(t)' = Own(t) /\ LegsOf(t)' = LegsOf(t)
    BY <1>1, <1>2 DEF Own, LegsOf
  <2>2. Own(t0)' = {}
    BY <1>a, <1>1, <1>2, <1>4 DEF Own
  <2>3. LegsOf(t0)' = Legs(t0, PlanOf(c, r))
    BY <1>2 DEF LegsOf
  <2>4. \A v : Known(v)' = Known(v)
    BY <1>1 DEF Known, Inserted
  <2>5. QED
    BY <2>1, <2>2, <2>3, <2>4
<1>9. AllAhead'
  <2>1. Ahead(w)'
    <3>1. GetsFirst(PlanOf(c, r), Known(w)')
      <4>1. Revenue \subseteq Known(w)
        BY DEF BooksInv, RowsThere, Known, Inserted
      <4>2. QED
        BY <1>3, <1>8, <4>1 DEF Plan, GetsFirst
    <3>2. txn'[w] = t0 /\ steps'[w] = PlanOf(c, r)
      BY <1>4
    <3>3. Own(txn[w])' = {} /\ LegsOf(txn[w])' = Legs(t0, PlanOf(c, r))
      BY <1>8, <3>2 DEF Own, LegsOf
    <3>4. QED
      BY <1>3, <3>1, <3>2, <3>3 DEF Ahead, Plan
  <2>2. ASSUME NEW v \in Workers, v # w, txn[v] # 0 PROVE Ahead(v)'
    <3>1. txn[v] \in 1..Began /\ txn'[v] = txn[v] /\ steps'[v] = steps[v]
      BY <1>4, <2>2, LedgerIs
    <3>2. Own(txn[v])' = Own(txn[v]) /\ LegsOf(txn[v])' = LegsOf(txn[v])
      BY <1>8, <3>1 DEF Own, LegsOf
    <3>3. QED
      BY <1>8, <2>2, <3>1, <3>2, StillAhead
  <2>3. QED
    BY <1>4, <2>1, <2>2 DEF AllAhead
<1>10. AllOrNone'
  <2> SUFFICES ASSUME NEW t \in 1..Began', \A v \in Workers : txn'[v] # t
               PROVE  Own(t)' = {} \/ Own(t)' = LegsOf(t)'
    BY DEF AllOrNone
  <2>1. t # t0
    BY <1>4
  <2>2. t \in 1..Began
    BY <1>a, <1>2, <2>1
  <2>3. \A v \in Workers : txn[v] # t
    BY <1>1, <1>4, <2>2
  <2>4. QED
    BY <1>8, <2>2, <2>3 DEF BooksInv, AllOrNone
<1>11. ViewsHave'
  <2> SUFFICES ASSUME NEW v \in Workers
               PROVE  /\ view[v] # NoView => Revenue \subseteq DOMAIN view[v]
                      /\ txn'[v] # 0 => \A i \in 1..Len(steps'[v]) :
                           steps'[v][i].op = "get" =>
                             \/ steps'[v][i].ledger \in Revenue \cup {asked'[txn'[v]].request.merchant}
                             \/ i = 1 /\ view[v] = NoView
    BY <1>1 DEF ViewsHave
  <2>1. view[v] # NoView => Revenue \subseteq DOMAIN view[v]
    BY DEF BooksInv, ViewsHave
  <2>2. CASE v = w
    <3>1. view[v] = NoView /\ txn'[v] = t0 /\ steps'[v] = PlanOf(c, r) /\ asked'[t0].request = r
      BY <1>1, <1>2, <1>4, <2>2 DEF BooksInv, TxnsApart
    <3>2. GetsFew(PlanOf(c, r), r.merchant)
      BY <1>3 DEF Plan
    <3>3. QED
      BY <2>1, <3>1, <3>2 DEF GetsFew
  <2>3. CASE v # w
    <3>1. txn'[v] = txn[v] /\ steps'[v] = steps[v] /\ (txn[v] # 0 => asked'[txn[v]] = asked[txn[v]])
      BY <1>2, <1>4, <2>3, LedgerIs
    <3>2. QED
      BY <2>1, <3>1 DEF BooksInv, ViewsHave
  <2>4. QED
    BY <2>2, <2>3
<1>12. Reconciled'
  BY <1>1 DEF BooksInv, Reconciled, Posted, Deltas
<1>13. QED
  BY <1>2, <1>5, <1>6, <1>7, <1>9, <1>10, <1>11, <1>12 DEF BooksInv, LedgerTyped

(* A transaction has a step left only while it is under way.               *)
LEMMA AtWork ==
  ASSUME BooksInv, NEW w \in Workers, steps[w] # <<>>
  PROVE  /\ txn[w] # 0 /\ txn[w] \in 1..Began /\ Ahead(w) /\ steps[w] \in Seq(Op)
         /\ Head(steps[w]) \in Op
         /\ Head(steps[w]).op = "post" => Head(steps[w]).ledger \in Known(w)
<1>1. txn[w] # 0 /\ Ahead(w)
  BY DEF BooksInv, TxnsApart, AllAhead
<1>2. txn[w] \in 1..Began /\ steps[w] \in Seq(Op)
  BY <1>1, LedgerIs
<1>3. Head(steps[w]) \in Op
  BY <1>2, Rest
<1> DEFINE known == Known(w)
           more == Known(w) \cup {Head(steps[w]).ledger}
<1>4. GetsFirst(steps[w], known) /\ known \subseteq more /\ Head(steps[w]).ledger \in more
  BY <1>1 DEF Ahead
<1> HIDE DEF known, more
<1>5. Head(steps[w]).op = "post" => Head(steps[w]).ledger \in known
  BY <1>2, <1>4, RestGets
<1>6. QED
  BY <1>1, <1>2, <1>3, <1>5 DEF known

(* The views after a step of w that does what is first of its steps.       *)
LEMMA ViewsGoOn ==
  ASSUME BooksInv, NEW w \in Workers, steps[w] # <<>>, UNCHANGED <<txn, asked>>,
         steps' = [steps EXCEPT ![w] = Tail(@)],
         \A v \in Workers \ {w} : view'[v] = view[v],
         view'[w] # NoView => Revenue \subseteq DOMAIN view'[w]
  PROVE  ViewsHave'
<1> SUFFICES ASSUME NEW v \in Workers
             PROVE  /\ view'[v] # NoView => Revenue \subseteq DOMAIN view'[v]
                    /\ txn[v] # 0 => \A i \in 1..Len(steps'[v]) :
                         steps'[v][i].op = "get" =>
                           \/ steps'[v][i].ledger \in Revenue \cup {asked[txn[v]].request.merchant}
                           \/ i = 1 /\ view'[v] = NoView
  BY DEF ViewsHave
<1>1. DOMAIN steps = Workers
  BY DEF BooksInv, LedgerTyped
<1>2. CASE v = w
  <2> DEFINE q == steps[w]
             p == Tail(q)
             few == Revenue \cup {asked[txn[w]].request.merchant}
  <2>1. steps'[v] = p
    BY <1>1, <1>2
  <2>2. q \in Seq(Op) /\ q # <<>> /\ txn[w] # 0
    BY AtWork
  <2>3. Len(q) \in Nat /\ \A i \in 1..Len(p) : p[i] = q[i + 1] /\ i + 1 \in 1..Len(q) /\ i + 1 # 1
    BY <2>2, Rest
  <2>4. \A i \in 1..Len(q) : q[i].op = "get" => q[i].ledger \in few \/ i = 1
    BY <2>2 DEF BooksInv, ViewsHave
  <2> HIDE DEF q, p, few
  <2>5. \A i \in 1..Len(p) : p[i].op = "get" => p[i].ledger \in few
    BY <2>3, <2>4
  <2>6. QED
    BY <1>2, <2>1, <2>5 DEF few
<1>3. CASE v # w
  BY <1>1, <1>3 DEF BooksInv, ViewsHave
<1>4. QED
  BY <1>2, <1>3

LEMMA GetBooks ==
  ASSUME BooksInv, NEW w \in Workers, GetOrCreate(w)
  PROVE  BooksInv'
<1> DEFINE q == steps[w]
           l == Head(q).ledger
           own == {l} \ DOMAIN balance
<1>1. /\ q # <<>> /\ Head(q).op = "get" /\ l \notin Inserted(w)
      /\ balance' = [m \in DOMAIN balance \cup own |-> IF m \in own THEN 0 ELSE balance[m]]
      /\ created' = [created EXCEPT ![w] = @ \cup own]
      /\ view' = [view EXCEPT ![w] = IF @ = NoView THEN Visible(w) ELSE @]
      /\ steps' = [steps EXCEPT ![w] = Tail(@)]
      /\ UNCHANGED <<entries, txn, asked, lost, refusals>>
  BY DEF GetOrCreate, Todo, Done
<1>2. /\ txn[w] # 0 /\ txn[w] \in 1..Began /\ Ahead(w) /\ q \in Seq(Op) /\ Head(q) \in Op
      /\ l \in Ledgers
  <2>1. /\ txn[w] # 0 /\ txn[w] \in 1..Began /\ Ahead(w) /\ q \in Seq(Op) /\ Head(q) \in Op
    BY <1>1, AtWork
  <2>2. QED
    BY <2>1 DEF Op
<1>3. /\ DOMAIN balance' = DOMAIN balance \cup own
      /\ \A v \in Workers : created'[v] = IF v = w THEN created[w] \cup own ELSE created[v]
      /\ \A v \in Workers : steps'[v] = IF v = w THEN Tail(q) ELSE steps[v]
      /\ DOMAIN view' = Workers
      /\ \A v \in Workers \ {w} : view'[v] = view[v]
      /\ view'[w] = IF view[w] = NoView THEN Visible(w) ELSE view[w]
  BY <1>1 DEF BooksInv, LedgerTyped
<1>4. \A v \in Workers : created[v] \subseteq DOMAIN balance \ Revenue
  BY DEF BooksInv, RowsThere
<1> HIDE DEF q, l
<1>5. LedgerTyped'
  <2>1. balance' \in [DOMAIN balance' -> Int] /\ DOMAIN balance' \subseteq Ledgers
    BY <1>1, <1>2, <1>3 DEF BooksInv, LedgerTyped
  <2>2. steps' \in [Workers -> Seq(Op)]
    <3>1. Tail(q) \in Seq(Op)
      BY <1>1, <1>2, Rest
    <3>2. QED
      BY <1>1, <3>1 DEF BooksInv, LedgerTyped, q
  <2>3. created' \in [Workers -> SUBSET Ledgers]
    BY <1>1, <1>2, <1>3 DEF BooksInv, LedgerTyped
  <2>4. Began' = Began
    BY <1>1 DEF Began
  <2>5. QED
    BY <1>1, <1>3, <2>1, <2>2, <2>3, <2>4 DEF BooksInv, LedgerTyped
<1>6. TxnsApart'
  BY <1>1, <1>2, <1>3, <1>4 DEF BooksInv, TxnsApart
<1>7. RowsThere'
  <2>1. Revenue \subseteq DOMAIN balance /\ \A e \in entries : e.ledger \in DOMAIN balance
    BY DEF BooksInv, RowsThere
  <2>2. \A v \in Workers : created'[v] \subseteq DOMAIN balance' \ Revenue
    BY <1>3, <1>4, <2>1
  <2>3. \A v \in Workers : \A e \in entries : e.ledger \in created'[v] => e.txn = txn[v]
    BY <1>3, <2>1 DEF BooksInv, RowsThere
  <2>4. QED
    BY <1>1, <1>3, <2>1, <2>2, <2>3 DEF RowsThere
<1>8. \A v \in Workers : Known(v) \subseteq Known(v)'
  BY <1>3, <1>4 DEF Known, Inserted
<1>9. AllAhead'
  <2>0. \A t : Own(t)' = Own(t) /\ LegsOf(t)' = LegsOf(t)
    BY <1>1 DEF Own, LegsOf
  <2>1. Ahead(w)'
    <3>1. txn'[w] = txn[w] /\ steps'[w] = Tail(q)
      BY <1>1, <1>3
    <3>2. Own(txn[w])' = Own(txn[w]) /\ LegsOf(txn[w])' = LegsOf(txn[w])
      BY <1>1 DEF Own, LegsOf
    <3>3. Posts(q) = Posts(Tail(q)) /\ PostsApart(Tail(q))
      BY <1>1, <1>2, RestPosts DEF Ahead, q
    <3>4. GetsFirst(Tail(q), Known(w)')
      <4> DEFINE known == Known(w)
                 more == Known(w)'
      <4>1. GetsFirst(q, known) /\ known \subseteq more
        BY <1>2, <1>8 DEF Ahead, q
      <4>2. Head(q).ledger \in more
        BY <1>1, <1>3, <1>4 DEF Known, Inserted, l
      <4> HIDE DEF known, more
      <4>3. GetsFirst(Tail(q), more)
        BY <1>1, <1>2, <4>1, <4>2, RestGets
      <4>4. QED
        BY <4>3 DEF more
    <3>5. QED
      BY <1>2, <3>1, <3>2, <3>3, <3>4 DEF Ahead, Legs, q
  <2>2. ASSUME NEW v \in Workers, v # w, txn[v] # 0 PROVE Ahead(v)'
    <3>1. txn'[v] = txn[v] /\ steps'[v] = steps[v]
      BY <1>1, <1>3, <2>2
    <3>2. Own(txn[v])' = Own(txn[v]) /\ LegsOf(txn[v])' = LegsOf(txn[v])
      BY <1>1 DEF Own, LegsOf
    <3>3. QED
      BY <1>8, <2>2, <3>1, <3>2, StillAhead
  <2>3. QED
    BY <1>1, <2>1, <2>2 DEF AllAhead
<1>10. AllOrNone'
  BY <1>1 DEF BooksInv, AllOrNone, Own, LegsOf, Began
<1>11. ViewsHave'
  <2>1. view'[w] # NoView => Revenue \subseteq DOMAIN view'[w]
    <3>1. DOMAIN Visible(w) = DOMAIN balance \ Inserted(w)
      BY DEF Visible
    <3>2. Revenue \subseteq DOMAIN Visible(w)
      BY <1>4, <3>1 DEF BooksInv, RowsThere, Inserted
    <3>3. QED
      BY <1>3, <3>2 DEF BooksInv, ViewsHave
  <2>2. QED
    BY <1>1, <1>3, <2>1, ViewsGoOn DEF q
<1>12. Reconciled'
  <2> SUFFICES ASSUME NEW m \in DOMAIN balance' PROVE balance'[m] = Posted(entries, m)
    BY <1>1 DEF Reconciled, Posted, Deltas
  <2>1. CASE m \in DOMAIN balance
    <3>1. balance'[m] = balance[m]
      BY <1>1, <1>3, <2>1
    <3>2. QED
      BY <2>1, <3>1 DEF BooksInv, Reconciled
  <2>2. CASE m \notin DOMAIN balance
    <3>1. balance'[m] = 0
      BY <1>1, <1>3, <2>2
    <3>2. {e \in entries : e.ledger = m} = {}
      BY <2>2 DEF BooksInv, RowsThere
    <3>3. QED
      BY <3>1, <3>2, DeltasNone DEF Posted
  <2>3. QED
    BY <2>1, <2>2
<1>13. QED
  BY <1>5, <1>6, <1>7, <1>9, <1>10, <1>11, <1>12 DEF BooksInv

LEMMA PostBooks ==
  ASSUME BooksInv, NEW w \in Workers, PostEntry(w)
  PROVE  BooksInv'
<1> DEFINE q == steps[w]
<1>0. PICK s : s = Head(q)
  OBVIOUS
<1>a. PICK t : t = txn[w]
  OBVIOUS
<1> DEFINE x == Leg(t, s)
<1>1. /\ q # <<>> /\ s.op = "post" /\ s.ledger \notin Locked(w)
      /\ entries' = entries \cup {x}
      /\ balance' = [balance EXCEPT ![s.ledger] = @ + s.delta]
      /\ steps' = [steps EXCEPT ![w] = Tail(@)]
      /\ UNCHANGED <<txn, created, view, asked, lost, refusals>>
  BY <1>0, <1>a DEF PostEntry, Todo, Done, Leg
<1>2. /\ t # 0 /\ t \in 1..Began /\ Ahead(w) /\ q \in Seq(Op) /\ s \in Op
      /\ s.ledger \in Ledgers /\ s.delta \in Int /\ s.ledger \in Known(w)
  <2>1. /\ t # 0 /\ t \in 1..Began /\ Ahead(w) /\ q \in Seq(Op) /\ s \in Op
        /\ s.ledger \in Known(w)
    BY <1>0, <1>a, <1>1, AtWork
  <2>2. QED
    BY <2>1 DEF Op
<1>3. /\ x.txn = t /\ x.ledger = s.ledger /\ x.delta = s.delta
      /\ x \in [txn : 1..Began, ledger : Ledgers, delta : Int]
  BY <1>2 DEF Leg
<1>4. /\ DOMAIN balance' = DOMAIN balance
      /\ \A v \in Workers : steps'[v] = IF v = w THEN Tail(q) ELSE steps[v]
      /\ Began' = Began /\ \A v : Known(v)' = Known(v)
      /\ s.ledger \in DOMAIN balance /\ s.ledger \notin Inserted(w)
  BY <1>1, <1>2 DEF BooksInv, LedgerTyped, Began, Known, Inserted
<1>5. /\ Posts(q) = Posts(Tail(q)) \cup {s} /\ PostsApart(Tail(q))
      /\ \A y \in Posts(Tail(q)) : y.ledger # s.ledger
      /\ Tail(q) \in Seq(Op)
  <2>1. /\ Posts(q) = Posts(Tail(q)) \cup {s} /\ PostsApart(Tail(q))
        /\ \A y \in Posts(Tail(q)) : y.ledger # s.ledger
    BY <1>0, <1>1, <1>2, RestPosts DEF Ahead
  <2>2. QED
    BY <1>1, <1>2, <2>1, Rest
<1>6. x \notin entries
  <2>1. \A e \in Own(t) : e.ledger # s.ledger
    BY <1>a, <1>2, <1>5 DEF Ahead
  <2>2. QED
    BY <1>3, <2>1 DEF Own
<1> HIDE DEF q, x
<1>7. LedgerTyped'
  <2>1. balance' \in [DOMAIN balance' -> Int] /\ DOMAIN balance' \subseteq Ledgers
    <3>1. balance \in [DOMAIN balance -> Int] /\ DOMAIN balance \subseteq Ledgers
      BY DEF BooksInv, LedgerTyped
    <3>2. QED
      BY <1>1, <1>2, <1>4, <3>1
  <2>2. entries' \subseteq [txn : 1..Began', ledger : Ledgers, delta : Int] /\ IsFiniteSet(entries')
    BY <1>1, <1>3, <1>4, FS_AddElement DEF BooksInv, LedgerTyped
  <2>3. steps' \in [Workers -> Seq(Op)]
    BY <1>1, <1>5 DEF BooksInv, LedgerTyped, q
  <2>4. QED
    BY <1>1, <1>4, <2>1, <2>2, <2>3 DEF BooksInv, LedgerTyped
<1>8. TxnsApart'
  BY <1>1, <1>a, <1>2, <1>4 DEF BooksInv, TxnsApart
<1>9. RowsThere'
  <2>1. \A v \in Workers : s.ledger \in created[v] => v = w
    BY <1>4 DEF Inserted
  <2>2. QED
    BY <1>1, <1>a, <1>3, <1>4, <2>1 DEF BooksInv, RowsThere
<1>10. AllAhead'
  <2>1. Ahead(w)'
    <3>1. txn'[w] = t /\ steps'[w] = Tail(q) /\ LegsOf(t)' = LegsOf(t)
      BY <1>a, <1>1, <1>4 DEF LegsOf
    <3>2. Own(t)' = Own(t) \cup {x}
      BY <1>1, <1>3 DEF Own
    <3>3. Legs(t, q) = Legs(t, Tail(q)) \cup {x}
      BY <1>5 DEF Legs, x
    <3>4. Own(t)' \cup Legs(t, Tail(q)) = LegsOf(t)'
      BY <1>a, <1>2, <3>1, <3>2, <3>3 DEF Ahead, q
    <3>5. \A e \in Own(t)' : \A y \in Posts(Tail(q)) : e.ledger # y.ledger
      BY <1>a, <1>2, <1>3, <1>5, <3>2 DEF Ahead, q
    <3>6. GetsFirst(Tail(q), Known(w)')
      <4> DEFINE known == Known(w)
      <4>1. GetsFirst(q, known) /\ known \subseteq known
        BY <1>2 DEF Ahead, q
      <4> HIDE DEF known
      <4>2. Head(q).op = "get" => Head(q).ledger \in known
        BY <1>0, <1>1 DEF q
      <4>3. GetsFirst(Tail(q), known)
        BY <1>1, <1>2, <4>1, <4>2, RestGets
      <4>4. QED
        BY <1>4, <4>3 DEF known
    <3>7. Own(txn[w])' = Own(t)' /\ LegsOf(txn[w])' = LegsOf(t)'
      BY <3>1 DEF Own, LegsOf
    <3>8. QED
      BY <1>5, <3>1, <3>4, <3>5, <3>6, <3>7 DEF Ahead
  <2>2. ASSUME NEW v \in Workers, v # w, txn[v] # 0 PROVE Ahead(v)'
    <3>1. txn'[v] = txn[v] /\ steps'[v] = steps[v] /\ txn[v] # t
      BY <1>a, <1>1, <1>4, <2>2 DEF BooksInv, TxnsApart
    <3>2. Own(txn[v])' = Own(txn[v]) /\ LegsOf(txn[v])' = LegsOf(txn[v])
      BY <1>1, <1>3, <3>1 DEF Own, LegsOf
    <3>3. Known(v) \subseteq Known(v)'
      BY <1>4
    <3>4. QED
      BY <2>2, <3>1, <3>2, <3>3, StillAhead
  <2>3. QED
    BY <1>1, <2>1, <2>2 DEF AllAhead
<1>11. AllOrNone'
  <2> SUFFICES ASSUME NEW u \in 1..Began, \A v \in Workers : txn[v] # u
               PROVE  Own(u)' = {} \/ Own(u)' = LegsOf(u)'
    BY <1>1, <1>4 DEF AllOrNone
  <2>1. u # t
    BY <1>a
  <2>2. Own(u)' = Own(u) /\ LegsOf(u)' = LegsOf(u)
    BY <1>1, <1>3, <2>1 DEF Own, LegsOf
  <2>3. QED
    BY <2>2 DEF BooksInv, AllOrNone
<1>12. ViewsHave'
  BY <1>1, ViewsGoOn DEF BooksInv, ViewsHave, q
<1>13. Reconciled'
  <2> SUFFICES ASSUME NEW m \in DOMAIN balance PROVE balance'[m] = Posted(entries \cup {x}, m)
    BY <1>1, <1>4 DEF Reconciled, Posted, Deltas
  <2> DEFINE es == {e \in entries : e.ledger = m}
  <2>0. Amounts(es) /\ balance[m] = Deltas(es)
    BY LedgerIs DEF BooksInv, Reconciled, Posted
  <2>1. CASE m = s.ledger
    <3>1. {e \in entries \cup {x} : e.ledger = m} = es \cup {x} /\ x \notin es
      BY <1>3, <1>6, <2>1
    <3>2. balance'[m] = balance[m] + s.delta
      BY <1>1, <2>1
    <3> HIDE DEF es
    <3>3. Deltas(es \cup {x}) = Deltas(es) + x.delta
      BY <1>2, <1>3, <2>0, <3>1, DeltasMore
    <3>4. QED
      BY <1>3, <2>0, <3>1, <3>2, <3>3 DEF Posted
  <2>2. CASE m # s.ledger
    <3>1. {e \in entries \cup {x} : e.ledger = m} = es
      BY <1>3, <2>2
    <3>2. balance'[m] = balance[m]
      BY <1>1, <2>2
    <3>3. QED
      BY <2>0, <3>1, <3>2 DEF Posted
  <2>3. QED
    BY <2>1, <2>2
<1>14. QED
  BY <1>7, <1>8, <1>9, <1>10, <1>11, <1>12, <1>13 DEF BooksInv

(* Whoever ends leaves the others what they have.                          *)
LEMMA EndApart ==
  ASSUME BooksInv, NEW w \in Workers, End(w)
  PROVE  /\ \A v \in Workers : /\ txn'[v] = IF v = w THEN 0 ELSE txn[v]
                               /\ steps'[v] = IF v = w THEN <<>> ELSE steps[v]
                               /\ created'[v] = IF v = w THEN {} ELSE created[v]
                               /\ view'[v] = IF v = w THEN NoView ELSE view[v]
         /\ txn' \in [Workers -> 0..Began] /\ steps' \in [Workers -> Seq(Op)]
         /\ created' \in [Workers -> SUBSET Ledgers] /\ DOMAIN view' = Workers
         /\ TxnsApart'
<1>1. /\ txn \in [Workers -> 0..Began] /\ steps \in [Workers -> Seq(Op)]
      /\ created \in [Workers -> SUBSET Ledgers] /\ DOMAIN view = Workers
      /\ Began \in Nat
  BY LedgerIs DEF BooksInv, LedgerTyped
<1>2. /\ \A v \in Workers : /\ txn'[v] = IF v = w THEN 0 ELSE txn[v]
                            /\ steps'[v] = IF v = w THEN <<>> ELSE steps[v]
                            /\ created'[v] = IF v = w THEN {} ELSE created[v]
                            /\ view'[v] = IF v = w THEN NoView ELSE view[v]
      /\ txn' \in [Workers -> 0..Began] /\ steps' \in [Workers -> Seq(Op)]
      /\ created' \in [Workers -> SUBSET Ledgers] /\ DOMAIN view' = Workers
  BY <1>1 DEF End
<1>3. TxnsApart'
  <2>1. \A u, v \in Workers : txn'[u] = txn'[v] /\ txn'[u] # 0 => u = v
    BY <1>2 DEF BooksInv, TxnsApart
  <2>2. \A v \in Workers : txn'[v] = 0 => steps'[v] = <<>> /\ created'[v] = {} /\ view'[v] = NoView
    BY <1>2 DEF BooksInv, TxnsApart
  <2>3. ASSUME NEW u \in Workers, NEW v \in Workers, u # v PROVE created'[u] \cap created'[v] = {}
    <3>1. created'[u] \subseteq created[u] /\ created'[v] \subseteq created[v]
      BY <1>2
    <3>2. created[u] \cap created[v] = {}
      BY <2>3 DEF BooksInv, TxnsApart
    <3>3. QED
      BY <3>1, <3>2
  <2>4. QED
    BY <2>1, <2>2, <2>3 DEF TxnsApart
<1>4. QED
  BY <1>2, <1>3

LEMMA EndViews ==
  ASSUME BooksInv, NEW w \in Workers, End(w), UNCHANGED asked
  PROVE  ViewsHave'
<1>1. \A v \in Workers : /\ txn'[v] = IF v = w THEN 0 ELSE txn[v]
                         /\ steps'[v] = IF v = w THEN <<>> ELSE steps[v]
                         /\ view'[v] = IF v = w THEN NoView ELSE view[v]
  BY EndApart
<1>2. QED
  BY <1>1 DEF BooksInv, ViewsHave

LEMMA CommitBooks ==
  ASSUME BooksInv, NEW w \in Workers, Commit(w)
  PROVE  BooksInv'
<1>a. PICK t : t = txn[w]
  OBVIOUS
<1>1. /\ t # 0 /\ t \in 1..Began /\ steps[w] = <<>> /\ End(w) /\ Ahead(w)
      /\ UNCHANGED <<balance, entries, asked, lost, refusals>>
  BY <1>a, LedgerIs DEF Commit, Active, BooksInv, AllAhead
<1>2. /\ \A v \in Workers : /\ txn'[v] = IF v = w THEN 0 ELSE txn[v]
                            /\ steps'[v] = IF v = w THEN <<>> ELSE steps[v]
                            /\ created'[v] = IF v = w THEN {} ELSE created[v]
      /\ txn' \in [Workers -> 0..Began] /\ steps' \in [Workers -> Seq(Op)]
      /\ created' \in [Workers -> SUBSET Ledgers] /\ DOMAIN view' = Workers
      /\ TxnsApart' /\ Began' = Began
  BY <1>1, EndApart DEF Began
<1>3. LedgerTyped'
  BY <1>1, <1>2 DEF BooksInv, LedgerTyped
<1>4. RowsThere'
  BY <1>1, <1>2 DEF BooksInv, RowsThere
<1>5. AllAhead'
  <2> SUFFICES ASSUME NEW v \in Workers, txn'[v] # 0 PROVE Ahead(v)'
    BY DEF AllAhead
  <2>1. v # w /\ txn'[v] = txn[v] /\ steps'[v] = steps[v] /\ txn[v] # 0
    BY <1>2
  <2>2. Own(txn[v])' = Own(txn[v]) /\ LegsOf(txn[v])' = LegsOf(txn[v])
    BY <1>1, <2>1 DEF Own, LegsOf
  <2>3. Known(v) \subseteq Known(v)'
    <3>1. \A u \in Workers : created'[u] \subseteq created[u]
      BY <1>2
    <3>2. Inserted(v)' \subseteq Inserted(v)
      BY <3>1 DEF Inserted
    <3>3. QED
      BY <1>1, <3>2 DEF Known
  <2>4. QED
    BY <2>1, <2>2, <2>3, StillAhead
<1>6. AllOrNone'
  <2> SUFFICES ASSUME NEW u \in 1..Began, \A v \in Workers : txn'[v] # u
               PROVE  Own(u) = {} \/ Own(u) = LegsOf(u)
    BY <1>1, <1>2 DEF AllOrNone, Own, LegsOf
  <2>1. CASE u = t
    <3>1. Posts(steps[w]) = {}
      BY <1>1 DEF Posts
    <3>2. Legs(t, steps[w]) = {}
      BY <3>1 DEF Legs
    <3>3. QED
      BY <1>a, <1>1, <2>1, <3>2 DEF Ahead
  <2>2. CASE u # t
    <3>1. \A v \in Workers : txn[v] # u
      BY <1>a, <1>2, <2>2
    <3>2. QED
      BY <3>1 DEF BooksInv, AllOrNone
  <2>3. QED
    BY <2>1, <2>2
<1>7. ViewsHave'
  BY <1>1, EndViews
<1>8. Reconciled'
  BY <1>1 DEF BooksInv, Reconciled, Posted, Deltas
<1>9. QED
  BY <1>2, <1>3, <1>4, <1>5, <1>6, <1>7, <1>8 DEF BooksInv

LEMMA RollbackBooks ==
  ASSUME BooksInv, NEW w \in Workers, txn[w] # 0, Rollback(w), UNCHANGED asked,
         lost' \subseteq 1..Began, refusals' \in 0..MaxRefusals
  PROVE  BooksInv'
<1>a. PICK t : t = txn[w]
  OBVIOUS
<1> DEFINE own == Own(t)
<1>1. /\ entries' = entries \ own
      /\ balance' = [l \in DOMAIN balance \ created[w] |-> balance[l] - Posted(own, l)]
      /\ End(w)
  BY <1>a DEF Rollback, Own
<1>2. /\ \A v \in Workers : /\ txn'[v] = IF v = w THEN 0 ELSE txn[v]
                            /\ steps'[v] = IF v = w THEN <<>> ELSE steps[v]
                            /\ created'[v] = IF v = w THEN {} ELSE created[v]
      /\ txn' \in [Workers -> 0..Began] /\ steps' \in [Workers -> Seq(Op)]
      /\ created' \in [Workers -> SUBSET Ledgers] /\ DOMAIN view' = Workers
      /\ TxnsApart' /\ Began' = Began
  BY <1>1, EndApart DEF Began
<1>3. DOMAIN balance' = DOMAIN balance \ created[w]
  BY <1>1
<1>4. own \in SUBSET entries /\ \A e \in entries \ own : e.txn # t
  BY DEF Own
<1>5. \A l : /\ {e \in own : e.ledger = l} \in SUBSET {e \in entries : e.ledger = l}
             /\ {e \in entries : e.ledger = l} \ {e \in own : e.ledger = l} = {e \in entries' : e.ledger = l}
             /\ Amounts({e \in entries : e.ledger = l}) /\ Amounts({e \in own : e.ledger = l})
             /\ Amounts({e \in entries' : e.ledger = l})
  <2> TAKE l
  <2>1. /\ {e \in own : e.ledger = l} \in SUBSET {e \in entries : e.ledger = l}
        /\ {e \in entries : e.ledger = l} \ {e \in own : e.ledger = l} = {e \in entries' : e.ledger = l}
    BY <1>1, <1>4
  <2>2. {e \in entries' : e.ledger = l} \in SUBSET entries /\ {e \in own : e.ledger = l} \in SUBSET entries
    BY <1>1, <1>4
  <2>3. QED
    BY <2>1, <2>2, LedgerIs
<1> HIDE DEF own
<1>6. Reconciled'
  <2> SUFFICES ASSUME NEW l \in DOMAIN balance' PROVE balance'[l] = Posted(entries', l)
    BY DEF Reconciled, Posted, Deltas
  <2> DEFINE es == {e \in entries : e.ledger = l}
             os == {e \in own : e.ledger = l}
             rs == {e \in entries' : e.ledger = l}
  <2>1. /\ os \in SUBSET es /\ es \ os = rs /\ Amounts(es) /\ Amounts(os) /\ Amounts(rs)
    BY <1>5
  <2>2. balance[l] = Deltas(es)
    BY <1>3 DEF BooksInv, Reconciled, Posted
  <2>3. balance'[l] = balance[l] - Deltas(os)
    BY <1>1, <1>3 DEF Posted
  <2> HIDE DEF es, os, rs
  <2>4. Deltas(es) = Deltas(os) + Deltas(rs) /\ Deltas(os) \in Int /\ Deltas(rs) \in Int
    BY <2>1, DeltasParts, DeltasInt
  <2>5. Posted(entries', l) = Deltas(rs)
    BY DEF Posted, rs
  <2>6. QED
    BY <2>2, <2>3, <2>4, <2>5
<1>7. LedgerTyped'
  <2>1. balance' \in [DOMAIN balance' -> Int]
    <3> SUFFICES ASSUME NEW l \in DOMAIN balance' PROVE balance'[l] \in Int
      BY <1>1, <1>3
    <3>1. balance[l] \in Int /\ Posted(own, l) \in Int
      BY <1>3, <1>5, DeltasInt DEF BooksInv, LedgerTyped, Posted
    <3>2. QED
      BY <1>1, <1>3, <3>1
  <2>2. IsFiniteSet(entries')
    BY <1>1, FS_Subset DEF BooksInv, LedgerTyped
  <2>3. QED
    BY <1>1, <1>2, <1>3, <2>1, <2>2 DEF BooksInv, LedgerTyped
<1>8. RowsThere'
  <2>1. /\ \A v \in Workers \ {w} : created[v] \cap created[w] = {}
        /\ \A v \in Workers : created[v] \subseteq DOMAIN balance \ Revenue
        /\ Revenue \subseteq DOMAIN balance
        /\ \A e \in entries : e.ledger \in DOMAIN balance
        /\ \A v \in Workers : \A e \in entries : e.ledger \in created[v] => e.txn = txn[v]
    BY DEF BooksInv, TxnsApart, RowsThere
  <2>2. \A e \in entries' : e \in entries /\ e.ledger \notin created[w]
    BY <1>a, <1>1, <1>4, <2>1
  <2>3. Revenue \subseteq DOMAIN balance' /\ \A e \in entries' : e.ledger \in DOMAIN balance'
    BY <1>3, <2>1, <2>2
  <2>4. \A v \in Workers : created'[v] \subseteq DOMAIN balance' \ Revenue
    BY <1>2, <1>3, <2>1
  <2>5. \A v \in Workers : \A e \in entries' : e.ledger \in created'[v] => e.txn = txn'[v]
    BY <1>2, <2>1, <2>2
  <2>6. QED
    BY <2>3, <2>4, <2>5 DEF RowsThere
<1>9. \A u : u # t => Own(u)' = Own(u) /\ LegsOf(u)' = LegsOf(u)
  BY <1>1 DEF Own, LegsOf, own
<1>10. AllAhead'
  <2> SUFFICES ASSUME NEW v \in Workers, txn'[v] # 0 PROVE Ahead(v)'
    BY DEF AllAhead
  <2>1. v # w /\ txn'[v] = txn[v] /\ steps'[v] = steps[v] /\ txn[v] # 0 /\ txn[v] # t
    BY <1>a, <1>2 DEF BooksInv, TxnsApart
  <2>2. Own(txn[v])' = Own(txn[v]) /\ LegsOf(txn[v])' = LegsOf(txn[v])
    BY <1>9, <2>1 DEF Own, LegsOf
  <2>3. Known(v) \subseteq Known(v)'
    <3>1. \A u \in Workers : created'[u] \subseteq created[u]
      BY <1>2
    <3>2. Inserted(v)' \subseteq Inserted(v) /\ created[w] \subseteq Inserted(v)
      BY <2>1, <3>1 DEF Inserted
    <3>3. QED
      BY <1>3, <3>2 DEF Known
  <2>4. QED
    BY <2>1, <2>2, <2>3, StillAhead
<1>11. AllOrNone'
  <2> SUFFICES ASSUME NEW u \in 1..Began, \A v \in Workers : txn'[v] # u
               PROVE  Own(u)' = {} \/ Own(u)' = LegsOf(u)'
    BY <1>2 DEF AllOrNone
  <2>1. CASE u = t
    BY <1>1, <2>1 DEF Own, own
  <2>2. CASE u # t
    <3>1. \A v \in Workers : txn[v] # u
      BY <1>a, <1>2, <2>2
    <3>2. QED
      BY <1>9, <2>2, <3>1 DEF BooksInv, AllOrNone
  <2>3. QED
    BY <2>1, <2>2
<1>12. ViewsHave'
  BY <1>1, EndViews
<1>13. QED
  BY <1>2, <1>6, <1>7, <1>8, <1>10, <1>11, <1>12 DEF BooksInv

LEMMA BooksStep == BooksInv /\ [LedgerNext]_ledgerVars => BooksInv'
<1> SUFFICES ASSUME BooksInv, [LedgerNext]_ledgerVars PROVE BooksInv'
  OBVIOUS
<1>0. lost \subseteq 1..Began /\ refusals \in 0..MaxRefusals /\ MaxRefusals \in Nat
  BY LedgerAssumption DEF BooksInv, LedgerTyped, LedgerAssumption
<1>1. ASSUME NEW w \in Workers, NotFound(w) PROVE BooksInv'
  <2>1. steps[w] # <<>> /\ lost' = lost \cup {txn[w]} /\ Rollback(w) /\ UNCHANGED <<asked, refusals>>
    BY <1>1 DEF NotFound, Todo
  <2>2. txn[w] # 0 /\ txn[w] \in 1..Began
    BY <2>1, AtWork
  <2>3. lost' \subseteq 1..Began
    BY <1>0, <2>1, <2>2
  <2>4. QED
    BY <1>0, <2>1, <2>2, <2>3, RollbackBooks
<1>2. ASSUME NEW w \in Workers, Fails(w) PROVE BooksInv'
  <2>1. txn[w] # 0 /\ Rollback(w) /\ UNCHANGED <<asked, lost>> /\ refusals' \in 0..MaxRefusals
    BY <1>0, <1>2 DEF Fails, Active
  <2>2. QED
    BY <1>0, <2>1, RollbackBooks
<1>3. CASE UNCHANGED ledgerVars
  <2>1. UNCHANGED <<balance, entries, txn, steps, created, view, asked, lost, refusals>>
    BY <1>3 DEF ledgerVars, work
  <2>2. LedgerTyped' /\ TxnsApart' /\ RowsThere'
    BY <2>1 DEF BooksInv, LedgerTyped, TxnsApart, RowsThere, Began
  <2>3. AllAhead'
    <3> SUFFICES ASSUME NEW v \in Workers, txn[v] # 0 PROVE Ahead(v)'
      BY <2>1 DEF AllAhead
    <3>1. /\ Own(txn[v])' = Own(txn[v]) /\ LegsOf(txn[v])' = LegsOf(txn[v])
          /\ Known(v) \subseteq Known(v)'
      BY <2>1 DEF Own, LegsOf, Known, Inserted
    <3>2. QED
      BY <2>1, <3>1, StillAhead
  <2>4. AllOrNone' /\ ViewsHave'
    BY <2>1 DEF BooksInv, AllOrNone, ViewsHave, Own, LegsOf, Began
  <2>5. Reconciled'
    BY <2>1 DEF BooksInv, Reconciled, Posted, Deltas
  <2>6. QED
    BY <2>2, <2>3, <2>4, <2>5 DEF BooksInv
<1>4. QED
  BY <1>1, <1>2, <1>3, BeginBooks, GetBooks, PostBooks, CommitBooks DEF LedgerNext, LedgerFinished

(* The invariant of the books.                                             *)
THEOREM BooksKept == LedgerSpec => []BooksInv
  BY BooksInit, BooksStep, PTL DEF LedgerSpec

(* postLedgerEntry's increments are never lost: whatever is under way, and *)
(* whatever was rolled back, a ledger account's balance is the sum of its  *)
(* entries, for any number of transactions.                                *)
THEOREM BalancesReconcile == LedgerSpec => []Reconciled
<1>1. BooksInv => Reconciled
  BY DEF BooksInv
<1>2. QED
  BY <1>1, BooksKept, PTL

(* processPurchaseLedger and processRefundLedger book all their legs or    *)
(* none: a committed request balances but for the share nobody gets.       *)
THEOREM CommittedBalances == LedgerSpec => []BooksBalance
<1>1. BooksInv => BooksBalance
  <2> SUFFICES ASSUME BooksInv, NEW t \in 1..Began, {e \in Committed : e.txn = t} # {}
               PROVE  Deltas({e \in Committed : e.txn = t}) = Unbooked(asked[t].request)
    BY DEF BooksBalance
  <2> DEFINE legs == {e \in Committed : e.txn = t}
  <2>1. \A w \in Workers : txn[w] # t
    <3> SUFFICES ASSUME NEW w \in Workers, txn[w] = t PROVE FALSE
      OBVIOUS
    <3>1. t # 0
      BY LedgerIs
    <3>2. \A e \in entries : e.txn = t => e \in Uncommitted
      BY <3>1 DEF Uncommitted, Active
    <3>3. QED
      BY <3>2 DEF Committed
  <2>2. legs = Own(t)
    BY <2>1 DEF Own, Committed, Uncommitted, Active
  <2>3. legs = LegsOf(t)
    BY <2>1, <2>2 DEF BooksInv, AllOrNone
  <2>4. asked[t].customer \in Customers /\ asked[t].request \in Requests
    BY LedgerIs
  <2> HIDE DEF legs
  <2>5. Deltas(legs) = Unbooked(asked[t].request)
    BY <2>3, <2>4, PlanIs DEF LegsOf
  <2>6. QED
    BY <2>5 DEF legs
<1>2. QED
  BY <1>1, BooksKept, PTL

(***************************************************************************)
(* Ledger: what is lost                                                    *)
(***************************************************************************)

LostOf(m) == {t \in lost : asked[t].request.merchant = m}

(* Workers whose transaction does not see the account of m.                *)
Blind(m) == {w \in Workers : view[w] # NoView /\ m \notin DOMAIN view[w] \cup created[w]}

(* The account of m is there and committed.                                *)
Settled(m) == m \in DOMAIN balance /\ \A w \in Workers : m \notin created[w]

(* When the account is committed some are blind, but not who committed it. *)
(* Each of them may lose its purchase, and from then on nobody is blind    *)
(* that was not.                                                           *)
LossesOf(m) ==
  /\ Settled(m) => Cardinality(LostOf(m)) + Cardinality(Blind(m)) < Cardinality(Workers)
  /\ ~Settled(m) => LostOf(m) = {}

Losses == \A m \in Merchants : LossesOf(m)

LEMMA WorkersFinite ==
  /\ IsFiniteSet(Workers) /\ Cardinality(Workers) \in Nat /\ Cardinality(Workers) > 0
<1>1. IsFiniteSet(Workers) /\ Workers # {}
  BY LedgerAssumption DEF LedgerAssumption
<1>2. Cardinality(Workers) # 0
  BY <1>1, FS_EmptySet
<1>3. QED
  BY <1>1, <1>2, FS_CardinalityType

LEMMA FewBlind ==
  ASSUME NEW s, NEW t \in SUBSET Workers, s \subseteq t
  PROVE  /\ IsFiniteSet(s) /\ IsFiniteSet(t) /\ Cardinality(s) <= Cardinality(t)
         /\ Cardinality(s) \in Nat /\ Cardinality(t) \in Nat
  BY WorkersFinite, FS_Subset, FS_CardinalityType

LEMMA LostFinite ==
  ASSUME BooksInv, NEW m
  PROVE  IsFiniteSet(LostOf(m)) /\ Cardinality(LostOf(m)) \in Nat
<1>1. LostOf(m) \subseteq 1..Began
  BY DEF LostOf, BooksInv, LedgerTyped
<1>2. IsFiniteSet(1..Began)
  BY LedgerIs, FS_Interval
<1>3. QED
  BY <1>1, <1>2, FS_Subset, FS_CardinalityType

LEMMA LossInit == LedgerInit => Losses
<1> SUFFICES ASSUME LedgerInit, NEW m \in Merchants PROVE LossesOf(m)
  BY DEF Losses
<1>1. m \notin DOMAIN balance
  BY LedgersApart DEF LedgerInit, Revenue
<1>2. LostOf(m) = {}
  BY DEF LedgerInit, LostOf
<1>3. QED
  BY <1>1, <1>2 DEF LossesOf, Settled

(* A step by which nothing is lost and nobody is blinded.                  *)
LEMMA NothingLost ==
  ASSUME BooksInv, BooksInv', Losses, NEW m \in Merchants, LostOf(m)' = LostOf(m),
         Settled(m)' <=> Settled(m), Settled(m) => Blind(m)' \subseteq Blind(m)
  PROVE  LossesOf(m)'
<1>1. LossesOf(m)
  BY DEF Losses
<1>2. CASE ~Settled(m)
  BY <1>1, <1>2 DEF LossesOf
<1>3. CASE Settled(m)
  <2>1. Cardinality(LostOf(m)) + Cardinality(Blind(m)) < Cardinality(Workers)
    BY <1>1, <1>3 DEF LossesOf
  <2>2. /\ Cardinality(Blind(m)') <= Cardinality(Blind(m))
        /\ Cardinality(Blind(m)) \in Nat /\ Cardinality(Blind(m)') \in Nat
    <3>1. Blind(m) \in SUBSET Workers /\ Blind(m)' \subseteq Blind(m)
      BY <1>3 DEF Blind
    <3>2. QED
      BY <3>1, FewBlind
  <2>3. Cardinality(LostOf(m)') = Cardinality(LostOf(m)) /\ Cardinality(LostOf(m)) \in Nat
    BY LostFinite
  <2>4. Cardinality(LostOf(m)') + Cardinality(Blind(m)') < Cardinality(Workers)
    BY <2>1, <2>2, <2>3, WorkersFinite
  <2>5. QED
    BY <1>3, <2>4 DEF LossesOf
<1>4. QED
  BY <1>2, <1>3

(* A transaction that ends by rolling back: the accounts there and those   *)
(* who are blind.                                                          *)
LEMMA RollbackLeaves ==
  ASSUME BooksInv, NEW w \in Workers, Rollback(w), NEW m
  PROVE  /\ Settled(m)' <=> Settled(m)
         /\ Blind(m)' \subseteq Blind(m) \ {w}
<1>1. \A v \in Workers : /\ created'[v] = IF v = w THEN {} ELSE created[v]
                         /\ view'[v] = IF v = w THEN NoView ELSE view[v]
  BY EndApart DEF Rollback
<1>2. DOMAIN balance' = DOMAIN balance \ created[w]
  BY DEF Rollback
<1>3. Settled(m)' <=> Settled(m)
  <2>1. Settled(m) => Settled(m)'
    BY <1>1, <1>2 DEF Settled
  <2>2. ASSUME Settled(m)' PROVE Settled(m)
    <3>1. m \in DOMAIN balance /\ m \notin created[w]
      BY <1>2, <2>2 DEF Settled
    <3>2. \A v \in Workers \ {w} : m \notin created[v]
      BY <1>1, <2>2 DEF Settled
    <3>3. QED
      BY <3>1, <3>2 DEF Settled
  <2>3. QED
    BY <2>1, <2>2
<1>4. Blind(m)' \subseteq Blind(m) \ {w}
  BY <1>1 DEF Blind
<1>5. QED
  BY <1>3, <1>4

LEMMA NotFoundLosses ==
  ASSUME BooksInv, BooksInv', Losses, NEW w \in Workers, NotFound(w), NEW m \in Merchants
  PROVE  LossesOf(m)'
<1>a. PICK t : t = txn[w]
  OBVIOUS
<1>b. PICK l : l = Head(steps[w]).ledger
  OBVIOUS
<1>1. /\ steps[w] # <<>> /\ Head(steps[w]).op = "get" /\ l \notin Inserted(w) /\ view[w] # NoView
      /\ l \in DOMAIN balance \ (DOMAIN view[w] \cup created[w])
      /\ lost' = lost \cup {t} /\ Rollback(w) /\ UNCHANGED asked
  BY <1>a, <1>b DEF NotFound, Todo
<1>2. l = asked[t].request.merchant
  <2>1. txn[w] # 0 /\ steps[w] \in Seq(Op)
    BY <1>1, AtWork
  <2>2. Head(steps[w]) = steps[w][1] /\ 1 \in 1..Len(steps[w])
    BY <1>1, <2>1, Rest
  <2>3. l \in Revenue \cup {asked[t].request.merchant}
    BY <1>a, <1>b, <1>1, <2>1, <2>2 DEF BooksInv, ViewsHave
  <2>4. l \notin Revenue
    BY <1>1 DEF BooksInv, ViewsHave
  <2>5. QED
    BY <2>3, <2>4
<1>3. (Settled(m)' <=> Settled(m)) /\ Blind(m)' \subseteq Blind(m) \ {w}
  BY <1>1, RollbackLeaves
<1>4. CASE m = l
  <2>1. Settled(m) /\ w \in Blind(m)
    <3>1. \A v \in Workers \ {w} : l \notin created[v]
      BY <1>1 DEF Inserted
    <3>2. QED
      BY <1>1, <1>4, <3>1 DEF Settled, Blind
  <2>2. Cardinality(LostOf(m)) + Cardinality(Blind(m)) < Cardinality(Workers)
    BY <2>1 DEF Losses, LossesOf
  <2>3. /\ Cardinality(Blind(m)') <= Cardinality(Blind(m)) - 1
        /\ Cardinality(Blind(m)) \in Nat /\ Cardinality(Blind(m)') \in Nat
    <3>1. Blind(m) \in SUBSET Workers /\ Blind(m) \ {w} \in SUBSET Workers
      BY DEF Blind
    <3>2. IsFiniteSet(Blind(m)) /\ Cardinality(Blind(m)) \in Nat
      BY <3>1, FewBlind
    <3>3. Cardinality(Blind(m) \ {w}) = Cardinality(Blind(m)) - 1
      BY <2>1, <3>2, CardLess
    <3>4. /\ Cardinality(Blind(m)') <= Cardinality(Blind(m) \ {w})
          /\ Cardinality(Blind(m)') \in Nat
      BY <1>3, <3>1, FewBlind
    <3>5. QED
      BY <3>2, <3>3, <3>4
  <2>4. /\ Cardinality(LostOf(m)') <= Cardinality(LostOf(m)) + 1
        /\ Cardinality(LostOf(m)) \in Nat /\ Cardinality(LostOf(m)') \in Nat
    <3>1. LostOf(m)' = LostOf(m) \cup {t}
      BY <1>1, <1>2, <1>4 DEF LostOf
    <3>2. IsFiniteSet(LostOf(m)) /\ Cardinality(LostOf(m)) \in Nat
      BY LostFinite
    <3>3. CASE t \in LostOf(m)
      <4>1. LostOf(m) \cup {t} = LostOf(m)
        BY <3>3
      <4>2. LostOf(m)' = LostOf(m)
        BY <3>1, <4>1
      <4>3. QED
        BY <3>2, <4>2
    <3>4. CASE t \notin LostOf(m)
      <4>1. Cardinality(LostOf(m) \cup {t}) = Cardinality(LostOf(m)) + 1
        BY <3>2, <3>4, CardMore
      <4>2. QED
        BY <3>1, <3>2, <4>1
    <3>5. QED
      BY <3>3, <3>4
  <2>5. Cardinality(LostOf(m)') + Cardinality(Blind(m)') < Cardinality(Workers)
    BY <2>2, <2>3, <2>4, WorkersFinite
  <2>6. QED
    BY <1>3, <2>1, <2>5 DEF LossesOf
<1>5. CASE m # l
  <2>1. LostOf(m)' = LostOf(m)
    BY <1>1, <1>2, <1>5 DEF LostOf
  <2>2. QED
    BY <1>3, <2>1, NothingLost
<1>6. QED
  BY <1>4, <1>5

LEMMA CommitLosses ==
  ASSUME BooksInv, BooksInv', Losses, NEW w \in Workers, Commit(w), NEW m \in Merchants
  PROVE  LossesOf(m)'
<1>1. /\ \A v \in Workers : /\ created'[v] = IF v = w THEN {} ELSE created[v]
                            /\ view'[v] = IF v = w THEN NoView ELSE view[v]
      /\ UNCHANGED <<balance, asked, lost>>
  BY EndApart DEF Commit
<1>2. LostOf(m)' = LostOf(m)
  BY <1>1 DEF LostOf
<1>3. CASE m \in created[w]
  <2>1. LostOf(m)' = {}
    BY <1>2, <1>3 DEF Losses, LossesOf, Settled
  <2>2. Blind(m)' \subseteq Workers \ {w}
    BY <1>1 DEF Blind
  <2>3. /\ Cardinality(Blind(m)') \in Nat /\ Cardinality(Workers \ {w}) = Cardinality(Workers) - 1
        /\ Cardinality(Blind(m)') <= Cardinality(Workers \ {w})
    <3>1. Workers \ {w} \in SUBSET Workers
      OBVIOUS
    <3>2. QED
      BY <2>2, <3>1, FewBlind, CardLess, WorkersFinite
  <2>4. Cardinality(LostOf(m)') = 0
    BY <2>1, FS_EmptySet
  <2>5. Cardinality(LostOf(m)') + Cardinality(Blind(m)') < Cardinality(Workers)
    BY <2>3, <2>4, WorkersFinite
  <2>6. QED
    BY <2>1, <2>5 DEF LossesOf
<1>4. CASE m \notin created[w]
  <2>1. Settled(m)' <=> Settled(m)
    BY <1>1, <1>4 DEF Settled
  <2>2. Blind(m)' \subseteq Blind(m)
    BY <1>1 DEF Blind
  <2>3. QED
    BY <1>2, <2>1, <2>2, NothingLost
<1>5. QED
  BY <1>3, <1>4

LEMMA GetLosses ==
  ASSUME BooksInv, BooksInv', Losses, NEW w \in Workers, GetOrCreate(w), NEW m \in Merchants
  PROVE  LossesOf(m)'
<1>a. PICK own : own = {Head(steps[w]).ledger} \ DOMAIN balance
  OBVIOUS
<1>1. /\ balance' = [x \in DOMAIN balance \cup own |-> IF x \in own THEN 0 ELSE balance[x]]
      /\ created' = [created EXCEPT ![w] = @ \cup own]
      /\ view' = [view EXCEPT ![w] = IF @ = NoView THEN Visible(w) ELSE @]
      /\ UNCHANGED <<asked, lost>>
  BY <1>a DEF GetOrCreate
<1>2. /\ DOMAIN balance' = DOMAIN balance \cup own
      /\ \A v \in Workers : created'[v] = IF v = w THEN created[w] \cup own ELSE created[v]
      /\ \A v \in Workers : view'[v] = IF v # w THEN view[v]
                                       ELSE IF view[w] = NoView THEN Visible(w) ELSE view[w]
      /\ own \cap DOMAIN balance = {}
  BY <1>a, <1>1 DEF BooksInv, LedgerTyped
<1>3. LostOf(m)' = LostOf(m)
  BY <1>1 DEF LostOf
<1>4. Settled(m)' <=> Settled(m)
  <2>1. Settled(m) => Settled(m)'
    BY <1>2 DEF Settled
  <2>2. ASSUME Settled(m)' PROVE Settled(m)
    <3>1. m \notin own /\ m \in DOMAIN balance
      BY <1>2, <2>2 DEF Settled
    <3>2. \A v \in Workers : m \notin created[v]
      BY <1>2, <2>2 DEF Settled
    <3>3. QED
      BY <3>1, <3>2 DEF Settled
  <2>3. QED
    BY <2>1, <2>2
<1>5. Settled(m) => Blind(m)' \subseteq Blind(m)
  <2> SUFFICES ASSUME Settled(m), NEW v \in Blind(m)' PROVE v \in Blind(m)
    OBVIOUS
  <2>1. v \in Workers /\ view'[v] # NoView /\ m \notin DOMAIN view'[v] \cup created'[v]
    BY DEF Blind
  <2>2. CASE v # w \/ view[w] # NoView
    BY <1>2, <2>1, <2>2 DEF Blind
  <2>3. CASE v = w /\ view[w] = NoView
    <3>1. m \in DOMAIN balance \ Inserted(w)
      BY DEF Settled, Inserted
    <3>2. m \in DOMAIN Visible(w)
      BY <3>1 DEF Visible
    <3>3. QED
      BY <1>2, <2>1, <2>3, <3>2
  <2>4. QED
    BY <2>2, <2>3
<1>6. QED
  BY <1>3, <1>4, <1>5, NothingLost

LEMMA LossesStep == BooksInv /\ BooksInv' /\ Losses /\ [LedgerNext]_ledgerVars => Losses'
<1> SUFFICES ASSUME BooksInv, BooksInv', Losses, [LedgerNext]_ledgerVars, NEW m \in Merchants
             PROVE  LossesOf(m)'
  BY DEF Losses
<1>1. ASSUME NEW w \in Workers, Begin(w) PROVE LossesOf(m)'
  <2>1. lost \subseteq 1..Began /\ \A t \in 1..Began : asked'[t] = asked[t]
    BY <1>1, BeginBooks
  <2>2. UNCHANGED <<balance, created, view, lost>>
    BY <1>1 DEF Begin
  <2>3. LostOf(m)' = LostOf(m)
    BY <2>1, <2>2 DEF LostOf
  <2>4. (Settled(m)' <=> Settled(m)) /\ Blind(m)' \subseteq Blind(m)
    BY <2>2 DEF Settled, Blind
  <2>5. QED
    BY <2>3, <2>4, NothingLost
<1>2. ASSUME NEW w \in Workers, PostEntry(w) PROVE LossesOf(m)'
  <2>1. DOMAIN balance' = DOMAIN balance /\ UNCHANGED <<created, view, asked, lost>>
    BY <1>2 DEF PostEntry
  <2>2. LostOf(m)' = LostOf(m) /\ (Settled(m)' <=> Settled(m)) /\ Blind(m)' \subseteq Blind(m)
    BY <2>1 DEF LostOf, Settled, Blind
  <2>3. QED
    BY <2>2, NothingLost
<1>3. ASSUME NEW w \in Workers, Fails(w) PROVE LossesOf(m)'
  <2>1. Rollback(w) /\ UNCHANGED <<asked, lost>>
    BY <1>3 DEF Fails
  <2>2. (Settled(m)' <=> Settled(m)) /\ Blind(m)' \subseteq Blind(m)
    BY <2>1, RollbackLeaves
  <2>3. LostOf(m)' = LostOf(m)
    BY <2>1 DEF LostOf
  <2>4. QED
    BY <2>2, <2>3, NothingLost
<1>4. CASE UNCHANGED ledgerVars
  <2>1. UNCHANGED <<balance, created, view, asked, lost>>
    BY <1>4 DEF ledgerVars, work
  <2>2. LostOf(m)' = LostOf(m) /\ (Settled(m)' <=> Settled(m)) /\ Blind(m)' \subseteq Blind(m)
    BY <2>1 DEF LostOf, Settled, Blind
  <2>3. QED
    BY <2>2, NothingLost
<1>5. QED
  BY <1>1, <1>2, <1>3, <1>4, GetLosses, CommitLosses, NotFoundLosses DEF LedgerNext, LedgerFinished

(* getOrCreateLedgerAccount that misses an account younger than its view   *)
(* costs each merchant fewer purchases than there are workers, ever.       *)
THEOREM OnlyTheFirstIsLost == LedgerSpec => []LossIsOnce
<1>1. BooksInv /\ Losses => LossIsOnce
  <2> SUFFICES ASSUME BooksInv, Losses, NEW m \in Merchants
               PROVE  Cardinality(LostOf(m)) < Cardinality(Workers)
    BY DEF LossIsOnce, LostOf
  <2>1. CASE Settled(m)
    <3>1. Blind(m) \in SUBSET Workers /\ Blind(m) \subseteq Blind(m)
      BY DEF Blind
    <3>2. Cardinality(Blind(m)) \in Nat
      BY <3>1, FewBlind
    <3>3. QED
      BY <2>1, <3>2, LostFinite, WorkersFinite DEF Losses, LossesOf
  <2>2. CASE ~Settled(m)
    BY <2>2, WorkersFinite, FS_EmptySet DEF Losses, LossesOf
  <2>3. QED
    BY <2>1, <2>2
<1>2. QED
  BY <1>1, LossInit, LossesStep, BooksInit, BooksStep, PTL DEF LedgerSpec
=============================================================================
