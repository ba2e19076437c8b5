------------------------------- MODULE Logger -------------------------------
(***************************************************************************)
(* The transaction log (TransactionLogger.cpp).  All of log() runs under   *)
(* mutex_, so calls come one by one; what interferes is the file system:   *)
(* between any two of its calls the log directory or file may be removed,  *)
(* emptied or replaced by someone who tidies up, a call may fail, a disk   *)
(* be full.  Whatever happens, a line is tried WriteAttempts times.        *)
(*                                                                         *)
(* The file system has inodes, 1, 2, ... in the order of their creation;   *)
(* an inode that the engine creates has a path of its own, called by the   *)
(* same number, since openNewFileLocked looks for a free name.  An inode   *)
(* whose path is gone is still written to by who has it open.  A size is   *)
(* counted in writes, the header and a line being one each.  A write that  *)
(* comes up short is taken for one that wrote nothing.                     *)
(***************************************************************************)
EXTENDS Integers, Sequences, Functions

CONSTANTS
  NumLines,      \* calls of log(), each with its line (a bound)
  WriteAttempts, \* kWriteAttempts
  MaxFileSize,   \* maxFileBytes_, 0 if files are not bounded
  MaxFaults      \* how often the file system interferes (a bound)

ASSUME LoggerAssumption ==
  /\ NumLines \in Nat /\ WriteAttempts \in Nat \ {0} /\ MaxFileSize \in Nat
  /\ MaxFaults \in Nat

VARIABLES
  content,     \* content[i]: what was written to inode i
  path,        \* path[p]: the inode that the file named p is, or None
  directory,   \* logDirectory_ exists
  dirty,       \* inodes with writes that fsync() has not brought to the disk
  initialized, \* initialized_
  file,        \* file_: the inode the stream writes to, or None if it is closed
  fd,          \* fd_: the inode that is synced, or None
  current,     \* currentFile_
  bytes,       \* currentFileBytes_
  pc, after,   \* where log() is, and where it goes when a file is open
  line,         \* the line of this call or the last; lines are numbered from 1
  attempt,
  acknowledged, \* lines that log() did not give up
  faults, since, \* faults so far, and at the beginning of this call
  tampered,    \* a file was replaced, or emptied under a line (history)
  unsynced     \* fsync() failed after the last line was written (history)

None == 0
Header == 0
Lines == 1..NumLines

disk == <<content, path, directory, dirty>>
stream == <<initialized, file, fd, current, bytes>>
call == <<line, attempt, acknowledged, since>>
vars == <<disk, stream, pc, after, call, faults, tampered, unsynced>>

Inodes == 1..Len(content)

Init ==
  /\ content = <<>> /\ path = <<>> /\ directory = FALSE /\ dirty = {}
  /\ initialized = FALSE /\ file = None /\ fd = None /\ current = None /\ bytes = 0
  /\ pc = "idle" /\ after = "idle"
  /\ line = 0 /\ attempt = 0 /\ acknowledged = {}
  /\ faults = 0 /\ since = 0 /\ tampered = FALSE /\ unsynced = FALSE

Exists(p) == p # None /\ path[p] # None

Fault == faults < MaxFaults /\ faults' = faults + 1

(* The stream is closed, and opened anew before the next write. *)
Closed == initialized' = FALSE /\ file' = None /\ bytes' = 0

(***************************************************************************)
(* TransactionLogger::log                                                  *)
(***************************************************************************)
Log ==
  /\ pc = "idle" /\ line < NumLines
  /\ pc' = "init" /\ attempt' = 1 /\ line' = line + 1
  /\ since' = faults
  /\ UNCHANGED <<disk, stream, after, acknowledged, faults, tampered, unsynced>>

(* An attempt came to nothing: where the next begins, if there is one. *)
Retry(l) ==
  /\ IF attempt < WriteAttempts
     THEN pc' = l /\ attempt' = attempt + 1
     ELSE pc' = "idle" /\ attempt' = 0
  /\ UNCHANGED <<line, acknowledged, since>>

Goto(l) == pc' = l /\ UNCHANGED call

(* ensureInitializedLocked *)
EnsureInitialized ==
  /\ pc = "init"
  /\ IF initialized /\ file # None
     THEN Goto("directory") /\ UNCHANGED after
     ELSE Goto("open") /\ after' = "directory"
  /\ UNCHANGED <<disk, stream, faults, tampered, unsynced>>

(* A slip in CheckDirectory: a missing directory fails the attempt, and    *)
(* the stream that goes nowhere stays open.                                *)
CheckDirectoryOpen ==
  /\ pc = "directory"
  /\ IF directory THEN Goto("file") ELSE Retry("init")
  /\ UNCHANGED <<disk, stream, after, faults, tampered, unsynced>>

(* ensureWritableFileLocked: the directory, ... *)
CheckDirectory ==
  /\ pc = "directory"
  /\ IF directory
     THEN Goto("file") /\ UNCHANGED <<stream, after>>
     ELSE /\ Closed /\ UNCHANGED <<fd, current>>
          /\ Goto("open") /\ after' = "write"
  /\ UNCHANGED <<disk, faults, tampered, unsynced>>

(* ... which may turn out to be something else, or not to be seen, ... *)
NotADirectory ==
  /\ pc = "directory"
  /\ Fault
  /\ initialized' = FALSE /\ bytes' = 0
  /\ Retry("init")
  /\ UNCHANGED <<disk, file, fd, current, after, tampered, unsynced>>

(* ... the file, ... *)
CheckFile ==
  /\ pc = "file"
  /\ IF Exists(current)
     THEN Goto("size") /\ UNCHANGED after
     ELSE Goto("open") /\ after' = "write"
  /\ UNCHANGED <<disk, stream, faults, tampered, unsynced>>

(* Its size, or what the code believes if the file has gone just now. *)
DiskBytes == IF Exists(current) THEN Len(content[path[current]]) ELSE bytes

(* ... its size: a file that became smaller is opened again, by its name,  *)
(* and fd_ is not.                                                         *)
CheckSize ==
  /\ pc = "size"
  /\ bytes' = DiskBytes
  /\ file' = IF DiskBytes < bytes THEN path[current] ELSE file
  /\ IF DiskBytes = 0 THEN Goto("header") /\ after' = "rotate"
                      ELSE Goto("rotate") /\ UNCHANGED after
  /\ UNCHANGED <<disk, initialized, fd, current, faults, tampered, unsynced>>

ReopenFails ==
  /\ pc = "size" /\ DiskBytes < bytes
  /\ Fault
  /\ Closed
  /\ Retry("init")
  /\ UNCHANGED <<disk, fd, current, after, tampered, unsynced>>

(* A slip in Rotate: the line that comes is forgotten. *)
RotateLate ==
  /\ pc = "rotate"
  /\ IF MaxFileSize = 0 \/ bytes <= MaxFileSize
     THEN Goto("write") /\ UNCHANGED after
     ELSE Goto("open") /\ after' = "write"
  /\ UNCHANGED <<disk, stream, faults, tampered, unsynced>>

(* rotateIfNeededLocked *)
Rotate ==
  /\ pc = "rotate"
  /\ IF MaxFileSize = 0 \/ bytes + 1 <= MaxFileSize
     THEN Goto("write") /\ UNCHANGED after
     ELSE Goto("open") /\ after' = "write"
  /\ UNCHANGED <<disk, stream, faults, tampered, unsynced>>

(* openNewFileLocked: the directory is created if need be, and a file;     *)
(* fd_ may stay closed, which is tolerated.                                *)
OpenNewFile ==
  /\ pc = "open"
  /\ LET new == Len(content) + 1 IN
     /\ content' = Append(content, <<>>)
     /\ path' = Append(path, new)
     /\ file' = new /\ current' = new
     /\ \/ fd' = new /\ UNCHANGED faults
        \/ fd' = None /\ Fault
  /\ directory' = TRUE
  /\ initialized' = TRUE /\ bytes' = 0
  /\ Goto("header")
  /\ UNCHANGED <<dirty, after, tampered, unsynced>>

(* The attempt is over, unless it is the extra file that log() asks for    *)
(* after a write that failed: nobody looks at how that went.               *)
NoFile == IF after = "init" THEN Goto("init") ELSE Retry("init")

OpenFails ==
  /\ pc = "open"
  /\ Fault
  /\ Closed /\ fd' = None
  /\ NoFile
  /\ UNCHANGED <<disk, current, after, tampered, unsynced>>

(* The bytes of one write arrive in the inode the stream has open. *)
Written(what) ==
  content' = [content EXCEPT ![file] = Append(@, what)]

(* writeHeaderLocked *)
WriteHeader ==
  /\ pc = "header"
  /\ Written(Header) /\ dirty' = dirty \cup {file}
  /\ bytes' = bytes + 1
  /\ Goto(after)
  /\ UNCHANGED <<path, directory, initialized, file, fd, current, after, faults, tampered,
                 unsynced>>

WriteHeaderFails ==
  /\ pc = "header"
  /\ Fault
  /\ Closed
  /\ NoFile
  /\ UNCHANGED <<disk, fd, current, after, tampered, unsynced>>

(* writePayloadLocked: fsync() is asked of fd_, which need not be the file *)
(* that was written.  Nobody looks at how it went.                         *)
WritePayload ==
  /\ pc = "write"
  /\ Written(line)
  /\ \/ /\ dirty' = (dirty \cup {file}) \ {fd}
        /\ unsynced' = FALSE /\ UNCHANGED faults
     \/ /\ fd # None /\ Fault
        /\ dirty' = dirty \cup {file}
        /\ unsynced' = TRUE
  /\ Goto("check")
  /\ UNCHANGED <<path, directory, stream, after, tampered>>

(* The flush failed, and the stream still holds the line: it is tried      *)
(* again when the stream is closed, and may get through.                   *)
WriteFails ==
  /\ pc = "write"
  /\ Fault
  /\ \/ UNCHANGED content
     \/ Written(line)
  /\ dirty' = dirty \cup {file}
  /\ Closed
  /\ Retry("open") /\ after' = "init"
  /\ UNCHANGED <<path, directory, fd, current, tampered, unsynced>>

Acknowledge ==
  /\ acknowledged' = acknowledged \cup {line}
  /\ pc' = "idle" /\ attempt' = 0
  /\ UNCHANGED <<line, since>>

(* A slip in CheckStillThere: it is not looked for. *)
CheckNothing ==
  /\ pc = "check"
  /\ bytes' = bytes + 1 /\ Acknowledge
  /\ UNCHANGED <<disk, initialized, file, fd, current, after, faults, tampered, unsynced>>

(* The file must still be there when the line is written. *)
CheckStillThere ==
  /\ pc = "check"
  /\ IF Exists(current)
     THEN /\ bytes' = bytes + 1 /\ Acknowledge
          /\ UNCHANGED <<initialized, file, after>>
     ELSE Closed /\ Retry("open") /\ after' = "init"
  /\ UNCHANGED <<disk, fd, current, faults, tampered, unsynced>>

(* shutdown; a line that comes later opens a new file. *)
Shutdown ==
  /\ pc = "idle" /\ file # None
  /\ initialized' = FALSE /\ file' = None /\ fd' = None
  /\ UNCHANGED <<disk, current, bytes, pc, after, call, faults, tampered, unsynced>>

(***************************************************************************)
(* The file system, between the calls of the code                          *)
(***************************************************************************)
RemoveFile ==
  /\ Exists(current)
  /\ Fault
  /\ path' = [path EXCEPT ![current] = None]
  /\ UNCHANGED <<content, directory, dirty, stream, pc, after, call, tampered, unsynced>>

RemoveDirectory ==
  /\ directory
  /\ Fault
  /\ directory' = FALSE
  /\ path' = [p \in DOMAIN path |-> None]
  /\ UNCHANGED <<content, dirty, stream, pc, after, call, tampered, unsynced>>

(* The file is emptied, as log rotation by copy does. *)
Truncate ==
  /\ Exists(current)
  /\ Fault
  /\ content' = [content EXCEPT ![path[current]] = <<>>]
  /\ tampered' = (tampered \/ pc = "check")
  /\ UNCHANGED <<path, directory, dirty, stream, pc, after, call, unsynced>>

(* The file is replaced by another, empty or a copy. *)
Replace ==
  /\ Exists(current)
  /\ Fault
  /\ \E c \in {<<>>, content[path[current]]} : content' = Append(content, c)
  /\ path' = Append([path EXCEPT ![current] = Len(content) + 1], None)
  /\ tampered' = TRUE
  /\ UNCHANGED <<directory, dirty, stream, pc, after, call, unsynced>>

Environment == RemoveFile \/ RemoveDirectory \/ Truncate \/ Replace

(* The bound is reached. *)
Finished ==
  /\ line = NumLines /\ pc = "idle"
  /\ UNCHANGED vars

Next ==
  \/ Log \/ EnsureInitialized \/ CheckDirectory \/ NotADirectory \/ CheckFile
  \/ CheckSize \/ ReopenFails \/ Rotate \/ OpenNewFile \/ OpenFails \/ WriteHeader \/ WriteHeaderFails
  \/ WritePayload \/ WriteFails \/ CheckStillThere
  \/ Shutdown \/ Environment \/ Finished

Spec == Init /\ [][Next]_vars

(***************************************************************************)
(* Properties                                                              *)
(***************************************************************************)

TypeOK ==
  /\ content \in Seq(Seq(Lines \cup {Header})) /\ path \in Seq(0..Len(content))
  /\ Len(path) = Len(content)
  /\ directory \in BOOLEAN /\ dirty \subseteq Inodes
  /\ initialized \in BOOLEAN /\ {file, fd, current} \subseteq 0..Len(content)
  /\ bytes \in Nat
  /\ pc \in {"idle", "init", "directory", "file", "size", "rotate", "open", "header",
             "write", "check"}
  /\ after \in {"idle", "init", "directory", "rotate", "write"}
  /\ line \in 0..NumLines /\ attempt \in 0..WriteAttempts
  /\ acknowledged \subseteq 1..line
  /\ faults \in 0..MaxFaults /\ since \in 0..faults
  /\ tampered \in BOOLEAN /\ unsynced \in BOOLEAN

(* The inodes that hold l and can be found by a name. *)
Found(l) == {i \in Inodes : i \in Range(path) /\ l \in Range(content[i])}

(* When log() has not given up, its line can be found in a file and is on  *)
(* the disk, although the directory and the file may have been removed,    *)
(* the file emptied and writes have failed meanwhile.  Excepted are a file *)
(* that was replaced, to which the code is blind, one emptied after the    *)
(* write, and, for the disk, a file that fd_ is not for and an fsync()     *)
(* that failed.                                                            *)
AcknowledgedIsKept ==
  [][\A l \in acknowledged' \ acknowledged :
       ~tampered => \E i \in Found(l) : i \in dirty => fd = None \/ unsynced]_vars

(* A line is given up only after as many faults as there are attempts: a   *)
(* single fault, however placed, costs no line.                            *)
GivenUpForCause ==
  [][pc # "idle" /\ pc' = "idle" /\ line \notin acknowledged' =>
       faults' - since >= WriteAttempts]_vars

(* No file outgrows the bound, by the sizes on the disk: the count the     *)
(* code keeps is only trusted as far as it was checked, whatever was done  *)
(* to the file.  A file has at least its header and a line.                *)
FilesBounded ==
  MaxFileSize > 0 =>
    \A p \in DOMAIN path : path[p] # None =>
      Len(content[path[p]]) <= IF MaxFileSize > 2 THEN MaxFileSize ELSE 2
=============================================================================
