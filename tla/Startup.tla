------------------------------ MODULE Startup ------------------------------
(***************************************************************************)
(* How the engine starts (main, Database::initPool, DbConfig::load): read  *)
(* db.ini, which is plain text the first time, replace it by a ciphertext  *)
(* that only this machine can read, create the sessions, serve.  Between   *)
(* any two calls the process may be killed or the machine lose power, and  *)
(* is started again by its operator; a disk may be full, a rename fail.    *)
(*                                                                         *)
(* A file is what can be read from it: the operator's plain text, the      *)
(* whole ciphertext, or something cut off, "broken", of which an empty     *)
(* file is one.  Cryptography is not modelled: a whole ciphertext is       *)
(* decrypted, a broken one refused.  Of the directories where db.ini may   *)
(* be, the first that has it is meant; ini is that file.                   *)
(***************************************************************************)
EXTENDS Integers

CONSTANTS
  PoolSizeRuntime, \* poolSizeRuntime_
  ConnectRetries,  \* POOL_CONNECT_RETRIES
  MaxAccidents     \* how many kills, lost powers and failing calls (a bound)

ASSUME StartupAssumption ==
  PoolSizeRuntime \in Nat \ {0} /\ ConnectRetries \in Nat \ {0} /\ MaxAccidents \in Nat

Files == {"ini", "tmp"}

VARIABLES
  disk,     \* disk[f]: what a reader of file f finds
  unsynced, \* files whose content the system has not yet brought to the disk
  phase,
  slot, attempt, sessions, \* the loops of initPool, and the sessions created
  accidents,
  mishaps   \* what has happened that the code has no answer to (history)

pool == <<slot, attempt, sessions>>
startupVars == <<disk, unsynced, phase, pool, accidents, mishaps>>

Readable == {"plain", "cipher"}

StartupInit ==
  /\ disk \in {[f \in Files |-> IF f = "ini" THEN c ELSE "none"] : c \in Readable \cup {"none"}}
  /\ unsynced = {}
  /\ phase = "down"
  /\ slot = 0 /\ attempt = 0 /\ sessions = 0
  /\ accidents = 0 /\ mishaps = {}

Start ==
  /\ phase = "down"
  /\ phase' = "load"
  /\ UNCHANGED <<disk, unsynced, pool, accidents, mishaps>>

Fault == accidents < MaxAccidents /\ accidents' = accidents + 1

(***************************************************************************)
(* DbConfig::load                                                          *)
(***************************************************************************)

(* The process returns from load with the credentials. *)
Loaded == phase' = "connect"

(* An exception leaves main, which stops: initPool passes it on. *)
Abort == phase' = "aborted"

(* A ciphertext is decrypted, plain text parsed and encrypted in memory,   *)
(* a missing or broken file refused.                                       *)
Read ==
  /\ phase = "load"
  /\ \/ disk["ini"] = "cipher" /\ Loaded
     \/ disk["ini"] = "plain" /\ phase' = "openTmp"
     \/ disk["ini"] \notin Readable /\ Abort
  /\ UNCHANGED <<disk, unsynced, pool, accidents, mishaps>>

(* A slip in OpenTmp: db.ini itself is opened to be overwritten. *)
OpenTmpInPlace ==
  /\ phase = "openTmp"
  /\ disk' = [disk EXCEPT !["ini"] = "broken"]
  /\ phase' = "writeTmp"
  /\ UNCHANGED <<unsynced, pool, accidents, mishaps>>

(* std::ofstream with trunc: the temporary file exists and is empty. *)
OpenTmp ==
  /\ phase = "openTmp"
  /\ disk' = [disk EXCEPT !["tmp"] = "broken"]
  /\ phase' = "writeTmp"
  /\ UNCHANGED <<unsynced, pool, accidents, mishaps>>

(* The text is written when the stream is destroyed, and nothing asks the  *)
(* stream how that went: it may come up short.                             *)
Write(f, next) ==
  /\ \/ /\ disk' = [disk EXCEPT ![f] = "cipher"]
        /\ UNCHANGED <<accidents, mishaps>>
     \/ /\ Fault
        /\ disk' = [disk EXCEPT ![f] = "broken"]
        /\ mishaps' = mishaps \cup {"shortWrite"}
  /\ unsynced' = unsynced \cup {f}
  /\ next
  /\ UNCHANGED pool

WriteTmp == phase = "writeTmp" /\ Write("tmp", phase' = "rename")

(* A slip in Rename: its result is not looked at. *)
RenameUnchecked ==
  /\ phase = "rename"
  /\ \/ /\ disk' = [disk EXCEPT !["ini"] = disk["tmp"], !["tmp"] = "none"]
        /\ unsynced' = IF "tmp" \in unsynced THEN {"ini"} ELSE {}
        /\ UNCHANGED accidents
     \/ Fault /\ UNCHANGED <<disk, unsynced>>
  /\ Loaded
  /\ UNCHANGED <<pool, mishaps>>

(* rename() replaces db.ini in one step, or fails. *)
Rename ==
  /\ phase = "rename"
  /\ \/ /\ disk' = [disk EXCEPT !["ini"] = disk["tmp"], !["tmp"] = "none"]
        /\ unsynced' = IF "tmp" \in unsynced THEN {"ini"} ELSE {}
        /\ Loaded
        /\ UNCHANGED accidents
     \/ /\ Fault
        /\ phase' = "openIni"
        /\ UNCHANGED <<disk, unsynced>>
  /\ UNCHANGED <<pool, mishaps>>

(* The way out: db.ini is emptied ... *)
OpenIni ==
  /\ phase = "openIni"
  /\ disk' = [disk EXCEPT !["ini"] = "broken"]
  /\ phase' = "removeTmp"
  /\ UNCHANGED <<unsynced, pool, accidents, mishaps>>

(* ... the temporary file removed ... *)
RemoveTmp ==
  /\ phase = "removeTmp"
  /\ disk' = [disk EXCEPT !["tmp"] = "none"]
  /\ unsynced' = unsynced \ {"tmp"}
  /\ phase' = "writeIni"
  /\ UNCHANGED <<pool, accidents, mishaps>>

(* ... and only then, at the end of the scope, the text written, which is  *)
(* shorter than the stream's buffer.                                       *)
WriteIni == phase = "writeIni" /\ Write("ini", Loaded)

(* A file cannot be opened for writing: load throws. *)
OpenFails ==
  /\ phase \in {"openTmp", "openIni"}
  /\ Fault
  /\ Abort
  /\ UNCHANGED <<disk, unsynced, pool, mishaps>>

(***************************************************************************)
(* Database::initPool                                                      *)
(***************************************************************************)

(* The next slot, or the end: no session at all is an error. *)
NextSlot(n) ==
  /\ attempt' = 0
  /\ sessions' = n
  /\ IF slot + 1 < PoolSizeRuntime
     THEN slot' = slot + 1 /\ UNCHANGED phase
     ELSE /\ slot' = 0
          /\ IF n > 0 THEN phase' = "serving" ELSE Abort

Connect ==
  /\ phase = "connect"
  /\ NextSlot(sessions + 1)
  /\ UNCHANGED <<disk, unsynced, accidents, mishaps>>

(* The server refuses, or USE does (the session is then lost, see leaked   *)
(* in ConnectionPool): the slot is tried again, or given up.               *)
ConnectFails ==
  /\ phase = "connect"
  /\ IF attempt + 1 < ConnectRetries
     THEN attempt' = attempt + 1 /\ UNCHANGED <<slot, sessions, phase>>
     ELSE NextSlot(sessions)
  /\ UNCHANGED <<disk, unsynced, accidents, mishaps>>

(***************************************************************************)
(* The world around                                                        *)
(***************************************************************************)

(* The engine stops, by itself or not. *)
Halt ==
  /\ phase' = "down"
  /\ slot' = 0 /\ attempt' = 0 /\ sessions' = 0

(* It is shut down, or an aborted start is followed by another. *)
Stop ==
  /\ phase \in {"serving", "aborted"}
  /\ Halt
  /\ UNCHANGED <<disk, unsynced, accidents, mishaps>>

Overwriting == phase \in {"removeTmp", "writeIni"}

(* The process is killed: what it wrote stays. *)
Kill ==
  /\ phase # "down"
  /\ Fault
  /\ Halt
  /\ mishaps' = mishaps \cup (IF Overwriting THEN {"cutOff"} ELSE {})
  /\ UNCHANGED <<disk, unsynced>>

(* Power is lost, and with it what was not brought to the disk, since the  *)
(* code never asks for it.                                                 *)
PowerLost ==
  /\ Fault
  /\ Halt
  /\ \E lost \in SUBSET unsynced :
       /\ disk' = [f \in Files |-> IF f \in lost THEN "broken" ELSE disk[f]]
       /\ mishaps' = mishaps \cup (IF lost # {} THEN {"unsynced"} ELSE {})
                             \cup (IF Overwriting THEN {"cutOff"} ELSE {})
  /\ unsynced' = {}

(* The system brings its pages to the disk in its own time. *)
Sync ==
  /\ unsynced # {}
  /\ unsynced' = {}
  /\ UNCHANGED <<disk, phase, pool, accidents, mishaps>>

StartupNext ==
  \/ Start \/ Read \/ OpenTmp \/ WriteTmp \/ Rename \/ OpenIni \/ RemoveTmp
  \/ WriteIni \/ OpenFails \/ Connect \/ ConnectFails
  \/ Stop \/ Kill \/ PowerLost \/ Sync

StartupSpec == StartupInit /\ [][StartupNext]_startupVars

(***************************************************************************)
(* Properties                                                              *)
(***************************************************************************)

StartupTypeOK ==
  /\ disk \in [Files -> Readable \cup {"broken", "none"}]
  /\ unsynced \subseteq Files
  /\ phase \in {"down", "load", "openTmp", "writeTmp", "rename", "openIni", "removeTmp",
             "writeIni", "connect", "serving", "aborted"}
  /\ slot \in 0..PoolSizeRuntime - 1 /\ attempt \in 0..ConnectRetries - 1
  /\ sessions \in 0..PoolSizeRuntime
  /\ accidents \in 0..MaxAccidents
  /\ mishaps \subseteq {"shortWrite", "cutOff", "unsynced"}

(* Whenever the engine is not at work on it, db.ini can be read again by   *)
(* the next start, wherever the last was killed, refused a file or denied  *)
(* a rename, unless one of three things happened: a write came up short,   *)
(* which nobody asks; power was lost before the system had written; or the *)
(* fallback was cut off, which removes the temporary file before it writes *)
(* ("atomically-ish", DbConfig.cpp:426).                                   *)
ConfigSurvives ==
  ~Overwriting /\ disk["ini"] \notin Readable => disk["ini"] = "none" \/ mishaps # {}

(* An engine that serves has a session, and has left no plain text behind, *)
(* as it says (DbConfig.cpp:444-446), in any file.                         *)
ServesEncrypted ==
  phase = "serving" =>
    sessions > 0 /\ \A f \in Files : disk[f] # "plain"
=============================================================================
