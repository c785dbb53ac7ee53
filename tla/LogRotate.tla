----------------------------- MODULE LogRotate ------------------------------
(***************************************************************************)
(* The rotating log files of the Router Center: router-center.log, which   *)
(* is slot 0, and its predecessors with the suffixes .1 to .MaxFiles-1.    *)
(* Write holds the writer's mutex throughout, so one Write is in progress  *)
(* at a time; but each remove, rename, open and write is a system call of  *)
(* its own, may fail, and may be the last thing the process does.  Errors  *)
(* of remove and rename are ignored by rotate.                             *)
(*                                                                         *)
(* A log record is the number of the Write that was to write it.  A file   *)
(* is the set of the records it holds in full and its length in bytes.     *)
(***************************************************************************)
EXTENDS Naturals, FiniteSets

CONSTANTS MaxFiles,  \* maxFiles
          MaxBytes,  \* maxBytes
          Size,      \* lengths of the records
          MaxCall    \* bound: calls of Write in a behaviour

\* What newRotatingFileWriter makes of the configuration it is given.
ASSUME LogAssumption ==
  /\ MaxFiles \in Nat /\ MaxFiles >= 2
  /\ MaxBytes \in Nat /\ MaxBytes >= 1
  /\ Size \subseteq Nat \ {0}
  /\ MaxCall \in Nat

Slot == 0..(MaxFiles - 1)
Oldest == MaxFiles - 1

VARIABLES
  present,     \* slots whose file exists
  held,        \* records in the file of a slot
  len,         \* its length
  file,        \* w.file, "nil" or "open"
  currentLen,  \* w.currentLen
  pc,          \* where the process is
  slot,        \* i of the loop in rotate
  calls,       \* calls of Write so far; the last one is the one under way
  length,      \* its len(p)
  accepted,    \* records whose write has succeeded
  faults       \* what has gone wrong so far, see Fault

vars == <<present, held, len, file, currentLen, pc, slot, calls, length,
          accepted, faults>>

disk == <<present, held, len>>
call == <<calls, length, accepted>>

\* "rename": a rename that was due has not been done.  "odd": a record was
\* longer than MaxBytes, or was cut short and has left a piece in a file.
Fault == {"rename", "odd"}

FaultIf(b, f) == faults' = IF b THEN faults \cup {f} ELSE faults

\* The first start, in an empty directory.
Init ==
  /\ present = {}
  /\ held = [s \in Slot |-> {}]
  /\ len = [s \in Slot |-> 0]
  /\ file = "nil"
  /\ currentLen = 0
  /\ pc = "down"
  /\ slot = 0
  /\ calls = 0
  /\ length = 0
  /\ accepted = {}
  /\ faults = {}

\* Where Write goes once there is an open file of length n.
Room(n, p) == IF n + p > MaxBytes THEN "remove" ELSE "append"

-----------------------------------------------------------------------------
(* openCurrent: create or append, and the length from Stat.                *)

\* Variant: the length starts at zero, whatever the file holds.
OpenCurrent_NoStat ==
  /\ present' = present \cup {0}
  /\ file' = "open"
  /\ currentLen' = 0
  /\ UNCHANGED <<held, len>>

\* Variant: O_TRUNC in place of O_APPEND.
OpenCurrent_Trunc ==
  /\ present' = present \cup {0}
  /\ held' = [held EXCEPT ![0] = {}]
  /\ len' = [len EXCEPT ![0] = 0]
  /\ file' = "open"
  /\ currentLen' = 0

OpenCurrent ==
  /\ present' = present \cup {0}
  /\ file' = "open"
  /\ currentLen' = len[0]
  /\ UNCHANGED <<held, len>>

\* newRotatingFileWriter, once per process; without it nothing is written.
NewWriter ==
  /\ pc = "down"
  /\ \/ OpenCurrent /\ pc' = "idle"
     \/ pc' = "off" /\ UNCHANGED <<disk, file, currentLen>>
  /\ UNCHANGED <<slot, call, faults>>

-----------------------------------------------------------------------------
(* Write.                                                                  *)

Write(p) ==
  /\ pc = "idle"
  /\ calls < MaxCall
  /\ calls' = calls + 1
  /\ length' = p
  /\ FaultIf(p > MaxBytes, "odd")
  /\ pc' = IF file = "open" THEN Room(currentLen, p) ELSE "reopen"
  /\ UNCHANGED <<disk, file, currentLen, slot, accepted>>

\* w.file is nil: the last rotation could not open the new file.
Reopen ==
  /\ pc = "reopen"
  /\ \/ OpenCurrent /\ pc' = Room(currentLen', length)
     \/ pc' = "idle" /\ UNCHANGED <<disk, file, currentLen>>
  /\ UNCHANGED <<slot, call, faults>>

Append ==
  /\ pc = "append"
  /\ pc' = "idle"
  /\ held' = [held EXCEPT ![0] = @ \cup {calls}]
  /\ len' = [len EXCEPT ![0] = @ + length]
  /\ currentLen' = currentLen + length
  /\ accepted' = accepted \cup {calls}
  /\ UNCHANGED <<present, file, slot, calls, length, faults>>

\* The write fails after n bytes.
AppendFails(n) ==
  /\ pc = "append"
  /\ n < length
  /\ pc' = "idle"
  /\ len' = [len EXCEPT ![0] = @ + n]
  /\ currentLen' = currentLen + n
  /\ FaultIf(n > 0, "odd")
  /\ UNCHANGED <<present, held, file, slot, calls, length, accepted>>

-----------------------------------------------------------------------------
(* rotate.                                                                 *)

\* Variant: the file removed is the one before the oldest.
RemoveOldest_Next ==
  LET next == Oldest - 1 IN
  /\ pc = "remove"
  /\ file' = "nil"
  /\ \/ /\ present' = present \ {next}
        /\ held' = [held EXCEPT ![next] = {}]
        /\ len' = [len EXCEPT ![next] = 0]
     \/ UNCHANGED disk
  /\ slot' = Oldest - 1
  /\ pc' = IF slot' >= 1 THEN "shift" ELSE "base"
  /\ UNCHANGED <<currentLen, call, faults>>

\* Close the file and remove the oldest one, if that works.
RemoveOldest ==
  /\ pc = "remove"
  /\ file' = "nil"
  /\ \/ /\ present' = present \ {Oldest}
        /\ held' = [held EXCEPT ![Oldest] = {}]
        /\ len' = [len EXCEPT ![Oldest] = 0]
     \/ UNCHANGED disk
  /\ slot' = Oldest - 1
  /\ pc' = IF slot' >= 1 THEN "shift" ELSE "base"
  /\ UNCHANGED <<currentLen, call, faults>>

\* Rename src, if it is there, to dst, over whatever dst is.
Move(src, dst) ==
  \/ /\ src \in present
     /\ present' = (present \ {src}) \cup {dst}
     /\ held' = [held EXCEPT ![dst] = held[src], ![src] = {}]
     /\ len' = [len EXCEPT ![dst] = len[src], ![src] = 0]
     /\ UNCHANGED faults
  \/ /\ FaultIf(src \in present, "rename")
     /\ UNCHANGED disk

Shift ==
  /\ pc = "shift"
  /\ Move(slot, slot + 1)
  /\ slot' = slot - 1
  /\ pc' = IF slot' >= 1 THEN "shift" ELSE "base"
  /\ UNCHANGED <<file, currentLen, call>>

\* Variant: a rename that would run over a file goes to a free slot.
ShiftBase_Free ==
  LET free == Slot \ (present \cup {0})
      first == CHOOSE s \in free : \A t \in free : s <= t
  IN /\ pc = "base"
     /\ Move(0, IF free = {} THEN 1 ELSE first)
     /\ pc' = "open"
     /\ UNCHANGED <<file, currentLen, slot, call>>

ShiftBase ==
  /\ pc = "base"
  /\ Move(0, 1)
  /\ pc' = "open"
  /\ UNCHANGED <<file, currentLen, slot, call>>

\* The return of rotate to Write, which gives up if there is no new file.
OpenNew ==
  /\ pc = "open"
  /\ \/ OpenCurrent /\ pc' = "append"
     \/ pc' = "idle" /\ UNCHANGED <<disk, file, currentLen>>
  /\ UNCHANGED <<slot, call, faults>>

\* Close, which the code offers and a later Write undoes.
Close ==
  /\ pc = "idle"
  /\ file = "open"
  /\ file' = "nil"
  /\ currentLen' = 0
  /\ UNCHANGED <<disk, pc, slot, call, faults>>

\* The process ends, by itself or not, and is started again by NewWriter.
Crash ==
  /\ pc # "down"
  /\ pc' = "down"
  /\ file' = "nil"
  /\ currentLen' = 0
  /\ UNCHANGED <<disk, slot, call, faults>>

-----------------------------------------------------------------------------
Next ==
  \/ NewWriter
  \/ \E p \in Size : Write(p)
  \/ Reopen
  \/ Append
  \/ \E n \in 0..length : AppendFails(n)
  \/ RemoveOldest \/ Shift \/ ShiftBase \/ OpenNew
  \/ Close
  \/ Crash

Spec == Init /\ [][Next]_vars

-----------------------------------------------------------------------------
(* Properties.                                                             *)

\* The values the files and the writer range over.
TypeOK ==
  /\ present \in SUBSET Slot
  /\ held \in [Slot -> SUBSET Nat]
  /\ len \in [Slot -> Nat]
  /\ file \in {"nil", "open"}
  /\ currentLen \in Nat
  /\ pc \in {"down", "off", "idle", "reopen", "append", "remove", "shift",
             "base", "open"}
  /\ slot \in 0..Oldest
  /\ calls \in 0..MaxCall
  /\ length \in Size \cup {0}
  /\ accepted \in SUBSET Nat
  /\ faults \in SUBSET Fault

Kept == UNION {held[s] : s \in Slot}

\* Read from the highest suffix down, the files give the records in the
\* order in which they were written, none of them twice: after rotations
\* that were cut off anywhere and whatever remove or rename has failed.
InOrder ==
  \A i, j \in Slot :
    i < j => \A x \in held[i], y \in held[j] : y < x

\* As long as no rename fails, rotation only ever loses the oldest records,
\* also when the process died between two renames and the next rotation
\* starts over with a gap in the numbers.
NoHoles ==
  "rename" \notin faults =>
    \A x, y \in accepted : y \in Kept /\ y < x => x \in Kept

\* The last record written is on disk whatever fails and wherever the
\* process stops, unless records are longer than a file may be or pieces of
\* records fill files that hold none.
NewestIsKept ==
  "odd" \notin faults /\ accepted # {} =>
    \E x \in accepted : x \in Kept /\ \A y \in accepted : y <= x

\* A file is longer than MaxBytes only if a single record is, or a failed
\* rename has left the full file in place: also after a restart, when the
\* length comes from the file.
SizeIsBounded ==
  "rename" \notin faults =>
    \A s \in Slot : len[s] > MaxBytes => Cardinality(held[s]) <= 1

=============================================================================
