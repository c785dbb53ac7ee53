-------------------------- MODULE LogRotate_proofs --------------------------
(***************************************************************************)
(* Proofs about LogRotate, for any number and length of files.             *)
(*                                                                         *)
(* InOrder is kept by each system call as long as new records are newer    *)
(* than all others.  NoHoles needs to know that no rename runs over a file *)
(* other than the oldest, which is a fact about the loop of rotate while   *)
(* it runs.  NewestIsKept needs to know that rotate only ever starts with  *)
(* records in the current file, which then hold the newest.                *)
(* SizeIsBounded needs to know what the check before the write has found   *)
(* or that rotate has left no current file: see Sizes.                     *)
(***************************************************************************)
EXTENDS LogRotate, FiniteSetTheorems, TLAPS

Rotating == {"remove", "shift", "base"}
Writing == Rotating \cup {"reopen", "append", "open"}

\* Files hold accepted records only, and a Write under way is a new record.
Records ==
  /\ \A s \in Slot : held[s] \subseteq accepted
  /\ \A s \in Slot : s \notin present => held[s] = {}
  /\ \A x \in accepted : x <= calls
  /\ pc \in Writing => \A x \in accepted : x < calls

\* The writer knows the length of its file, and without odd records a file
\* with bytes in it has a record in it.
Lengths ==
  /\ pc \in {"append", "remove"} => file = "open"
  /\ pc \in {"shift", "base"} => file = "nil"
  /\ file = "open" => 0 \in present /\ currentLen = len[0]
  /\ "odd" \notin faults => /\ length <= MaxBytes
             /\ \A s \in Slot : len[s] > 0 => held[s] # {}

\* Where the loop of rotate is, and what it has made room for.
Loop ==
  /\ pc = "shift" => slot >= 1 /\ slot + 1 <= Oldest
  /\ pc = "shift" /\ "rename" \notin faults /\ slot + 1 \in present
       => slot + 1 = Oldest
  /\ pc = "base" /\ "rename" \notin faults /\ 1 \in present => Oldest = 1
  /\ pc \in Rotating /\ "odd" \notin faults => held[0] # {}

IInv ==
  /\ TypeOK
  /\ Records
  /\ Lengths
  /\ Loop
  /\ InOrder
  /\ NoHoles
  /\ NewestIsKept

-----------------------------------------------------------------------------
(* The steps.                                                              *)

\* What Kept means, for the two states of a step.
LEMMA InKept ==
  /\ \A x : x \in Kept <=> \E s \in Slot : x \in held[s]
  /\ \A x : x \in Kept' <=> \E s \in Slot : x \in held'[s]
  BY DEF Kept

\* An empty directory satisfies everything.
LEMMA InitIInv == Init => IInv
<1> SUFFICES ASSUME Init PROVE IInv
  OBVIOUS
<1> USE LogAssumption DEF Init, Slot, Oldest
<1>1. TypeOK
  BY DEF TypeOK
<1>2. Records /\ Loop /\ Lengths
  BY DEF Records, Loop, Lengths, Rotating, Writing
<1>3. InOrder /\ NoHoles /\ NewestIsKept
  BY DEF InOrder, NoHoles, NewestIsKept
<1> QED
  BY <1>1, <1>2, <1>3 DEF IInv

\* The slots rotate names are slots.
LEMMA Slots ==
  /\ 0 \in Slot /\ 1 \in Slot /\ Oldest \in Slot /\ Oldest >= 1
  /\ Oldest \in Nat /\ Slot \subseteq Nat
  /\ \A s \in Slot : s <= Oldest
  BY LogAssumption DEF Slot, Oldest

\* The files after an open or a rename are files.
LEMMA DiskTypeOK ==
  ASSUME TypeOK,
         \/ OpenCurrent
         \/ \E s, d \in Slot : Move(s, d)
         \/ UNCHANGED disk
  PROVE  /\ present' \in SUBSET Slot
         /\ held' \in [Slot -> SUBSET Nat]
         /\ len' \in [Slot -> Nat]
<1>1. CASE OpenCurrent
  BY <1>1, Slots DEF TypeOK, OpenCurrent
<1>2. ASSUME NEW s \in Slot, NEW d \in Slot, Move(s, d)
      PROVE  /\ present' \in SUBSET Slot
             /\ held' \in [Slot -> SUBSET Nat]
             /\ len' \in [Slot -> Nat]
  BY <1>2 DEF TypeOK, Move, disk
<1>3. CASE UNCHANGED disk
  BY <1>3 DEF TypeOK, disk
<1> QED
  BY <1>1, <1>2, <1>3

\* Every system call and every stop of the process keeps the types.
LEMMA StepTypeOK == IInv /\ [Next]_vars => TypeOK'
<1> SUFFICES ASSUME IInv, [Next]_vars PROVE TypeOK'
  OBVIOUS
<1> USE LogAssumption, Slots
<1>0. TypeOK
  BY DEF IInv
<1> DEFINE DiskOK == /\ present' \in SUBSET Slot
                     /\ held' \in [Slot -> SUBSET Nat]
                     /\ len' \in [Slot -> Nat]
<1>1. CASE NewWriter
  <2>1. DiskOK
    BY <1>0, <1>1, DiskTypeOK DEF NewWriter
  <2>2. currentLen' \in Nat /\ file' \in {"nil", "open"}
    BY <1>0, <1>1 DEF NewWriter, OpenCurrent, TypeOK
  <2> QED
    BY <1>0, <1>1, <2>1, <2>2 DEF NewWriter, TypeOK, call
<1>2. ASSUME NEW p \in Size, Write(p) PROVE TypeOK'
  BY <1>0, <1>2 DEF Write, Room, TypeOK, Fault, FaultIf, disk
<1>3. CASE Reopen
  <2>1. DiskOK
    BY <1>0, <1>3, DiskTypeOK DEF Reopen
  <2>2. currentLen' \in Nat /\ file' \in {"nil", "open"}
    BY <1>0, <1>3 DEF Reopen, OpenCurrent, TypeOK
  <2> QED
    BY <1>0, <1>3, <2>1, <2>2 DEF Reopen, Room, TypeOK, call
<1>4. CASE Append
  BY <1>0, <1>4 DEF Append, TypeOK
<1>5. ASSUME NEW n \in 0..length, AppendFails(n) PROVE TypeOK'
  BY <1>0, <1>5 DEF AppendFails, TypeOK, Fault, FaultIf
<1>6. CASE RemoveOldest
  <2>1. DiskOK
    BY <1>0, <1>6 DEF RemoveOldest, TypeOK, disk
  <2> QED
    BY <1>0, <1>6, <2>1 DEF RemoveOldest, TypeOK, call
<1>7. CASE Shift
  <2>1. slot \in Slot /\ slot + 1 \in Slot /\ slot - 1 \in 0..Oldest
    BY <1>0, <1>7 DEF Shift, IInv, Loop, TypeOK, Slot, Oldest
  <2>2. DiskOK
    BY <1>0, <1>7, <2>1, DiskTypeOK DEF Shift
  <2>3. faults' \in SUBSET Fault
    BY <1>0, <1>7 DEF Shift, Move, FaultIf, Fault, TypeOK
  <2> QED
    BY <1>0, <1>7, <2>1, <2>2, <2>3 DEF Shift, TypeOK, call
<1>8. CASE ShiftBase
  <2>1. DiskOK
    BY <1>0, <1>8, DiskTypeOK DEF ShiftBase
  <2>2. faults' \in SUBSET Fault
    BY <1>0, <1>8 DEF ShiftBase, Move, FaultIf, Fault, TypeOK
  <2> QED
    BY <1>0, <1>8, <2>1, <2>2 DEF ShiftBase, TypeOK, call
<1>9. CASE OpenNew
  <2>1. DiskOK
    BY <1>0, <1>9, DiskTypeOK DEF OpenNew
  <2>2. currentLen' \in Nat /\ file' \in {"nil", "open"}
    BY <1>0, <1>9 DEF OpenNew, OpenCurrent, TypeOK
  <2> QED
    BY <1>0, <1>9, <2>1, <2>2 DEF OpenNew, TypeOK, call
<1>10. CASE Close
  BY <1>0, <1>10 DEF Close, TypeOK, disk, call
<1>11. CASE Crash
  BY <1>0, <1>11 DEF Crash, TypeOK, disk, call
<1>12. CASE UNCHANGED vars
  BY <1>0, <1>12 DEF vars, TypeOK
<1> QED
  BY <1>1, <1>2, <1>3, <1>4, <1>5, <1>6, <1>7, <1>8, <1>9, <1>10, <1>11,
     <1>12 DEF Next

-----------------------------------------------------------------------------
(* What a step does to the records on disk.                                *)

\* A step that moves no record keeps the three properties.
LEMMA SameRecords ==
  ASSUME IInv, held' = held, accepted' = accepted, faults \subseteq faults'
  PROVE  InOrder' /\ NoHoles' /\ NewestIsKept'
<1>1. InOrder'
  BY DEF IInv, InOrder
<1>2. NoHoles'
  BY InKept DEF IInv, NoHoles
<1>3. NewestIsKept'
  BY InKept DEF IInv, NewestIsKept
<1> QED
  BY <1>1, <1>2, <1>3

\* While rotate runs, the newest record is in no file that it may lose.
LEMMA NewestIsSafe ==
  ASSUME IInv, pc \in Rotating, "odd" \notin faults, accepted # {},
         NEW d \in Slot, d >= 1
  PROVE  \E x \in accepted : /\ \E s \in Slot : x \in held[s] /\ s # d
                             /\ \A y \in accepted : y <= x
<1>1. PICK x \in accepted : x \in Kept /\ \A y \in accepted : y <= x
  BY DEF IInv, NewestIsKept
<1>2. PICK s \in Slot : x \in held[s]
  BY <1>1, InKept
<1>3. s # d
  <2> SUFFICES ASSUME s = d PROVE FALSE
    OBVIOUS
  <2>1. PICK y : y \in held[0]
    BY DEF IInv, Loop
  <2>2. x < y
    BY <1>2, <2>1, Slots DEF IInv, InOrder
  <2>3. y \in accepted /\ x \in Nat /\ y \in Nat
    BY <2>1, Slots DEF IInv, Records, TypeOK
  <2> QED
    BY <1>1, <2>2, <2>3
<1> QED
  BY <1>1, <1>2, <1>3

\* Removing the oldest file loses none but the oldest records.
LEMMA RemoveRecords ==
  ASSUME IInv, RemoveOldest
  PROVE  InOrder' /\ NoHoles' /\ NewestIsKept'
<1>1. CASE UNCHANGED disk
  BY <1>1, SameRecords DEF RemoveOldest, disk, call
<1>2. CASE held' = [held EXCEPT ![Oldest] = {}]
  <2>1. /\ accepted' = accepted /\ faults' = faults
        /\ held'[Oldest] = {}
        /\ \A s \in Slot : s # Oldest => held'[s] = held[s]
    BY <1>2, Slots DEF RemoveOldest, call, IInv, TypeOK
  <2>2. InOrder'
    BY <2>1 DEF IInv, InOrder
  <2>3. NoHoles'
    <3> SUFFICES ASSUME "rename" \notin faults, NEW x \in accepted,
                        NEW y \in accepted, y \in Kept', y < x
                 PROVE  x \in Kept'
      BY <2>1 DEF NoHoles
    <3>1. PICK t \in Slot : y \in held[t] /\ t # Oldest
      BY <2>1, InKept
    <3>2. PICK s \in Slot : x \in held[s]
      BY <3>1, InKept DEF IInv, NoHoles
    <3>3. x \in Nat /\ y \in Nat
      BY DEF IInv, TypeOK
    <3>4. s # Oldest
      <4>1. s = Oldest => t < s
        BY <3>1, Slots
      <4> QED
        BY <3>1, <3>2, <3>3, <4>1 DEF IInv, InOrder
    <3> QED
      BY <2>1, <3>2, <3>4, InKept
  <2>4. NewestIsKept'
    <3> SUFFICES ASSUME "odd" \notin faults, accepted # {}
                 PROVE  \E x \in accepted :
                          x \in Kept' /\ \A y \in accepted : y <= x
      BY <2>1 DEF NewestIsKept
    <3>1. pc \in Rotating
      BY DEF RemoveOldest, Rotating
    <3> QED
      BY <2>1, <3>1, NewestIsSafe, Slots, InKept
  <2> QED
    BY <2>2, <2>3, <2>4
<1> QED
  BY <1>1, <1>2 DEF RemoveOldest

\* A rename to the next slot keeps the order; if it runs over a file that
\* is the oldest, that loses none but the oldest records.
LEMMA MoveRecords ==
  ASSUME IInv, NEW s \in Slot, s + 1 \in Slot, Move(s, s + 1),
         accepted' = accepted, pc \in Rotating,
         "rename" \notin faults /\ s + 1 \in present => s + 1 = Oldest
  PROVE  InOrder' /\ NoHoles' /\ NewestIsKept'
<1> DEFINE d == s + 1
<1>0. d \in Slot /\ s < d /\ d >= 1 /\ \A t \in Slot : t < d => t <= s
  BY Slots
<1>1. CASE UNCHANGED disk
  <2>1. faults \subseteq faults'
    BY DEF Move, FaultIf
  <2> QED
    BY <1>1, <2>1, SameRecords DEF disk
<1>2. CASE /\ held' = [held EXCEPT ![s + 1] = held[s], ![s] = {}]
           /\ faults' = faults
  <2>1. /\ held'[d] = held[s]
        /\ held'[s] = {}
        /\ \A t \in Slot : t # s /\ t # d => held'[t] = held[t]
    BY <1>0, <1>2 DEF IInv, TypeOK
  <2> HIDE DEF d
  <2>2. InOrder'
    <3> SUFFICES ASSUME NEW i \in Slot, NEW j \in Slot, i < j,
                        NEW x \in held'[i], NEW y \in held'[j]
                 PROVE  y < x
      BY DEF InOrder
    <3>1. i # s /\ j # s
      BY <2>1
    <3>2. CASE i = d
      BY <1>0, <2>1, <3>1, <3>2, Slots DEF IInv, InOrder
    <3>3. CASE j = d
      <4>1. i < s
        BY <1>0, <3>1, <3>3, Slots
      <4> QED
        BY <1>0, <2>1, <3>1, <3>3, <4>1, Slots DEF IInv, InOrder
    <3>4. CASE i # d /\ j # d
      BY <2>1, <3>1, <3>4 DEF IInv, InOrder
    <3> QED
      BY <3>2, <3>3, <3>4
  <2>3. \A t \in Slot : t # d =>
          \A x \in held[t] : \E u \in Slot : x \in held'[u]
    BY <1>0, <2>1
  <2>4. NoHoles'
    <3> SUFFICES ASSUME "rename" \notin faults, NEW x \in accepted,
                        NEW y \in accepted, y \in Kept', y < x
                 PROVE  x \in Kept'
      BY <1>2 DEF NoHoles
    <3>1. PICK t \in Slot : y \in held[t] /\ t # d
      BY <1>0, <2>1, InKept
    <3>2. PICK u \in Slot : x \in held[u]
      BY <3>1, InKept DEF IInv, NoHoles
    <3>3. x \in Nat /\ y \in Nat
      BY DEF IInv, TypeOK
    <3>4. u # d
      <4> SUFFICES ASSUME u = d PROVE FALSE
        OBVIOUS
      <4>1. d \in present
        BY <1>0, <3>2 DEF IInv, Records
      <4>2. d = Oldest
        BY <4>1 DEF d
      <4>3. t < u
        BY <3>1, <4>2, Slots
      <4> QED
        BY <3>1, <3>2, <3>3, <4>3 DEF IInv, InOrder
    <3> QED
      BY <2>3, <3>2, <3>4, InKept
  <2>5. NewestIsKept'
    <3> SUFFICES ASSUME "odd" \notin faults, accepted # {}
                 PROVE  \E x \in accepted :
                          x \in Kept' /\ \A y \in accepted : y <= x
      BY <1>2 DEF NewestIsKept
    <3> QED
      BY <1>0, <2>3, NewestIsSafe, InKept
  <2> QED
    BY <2>2, <2>4, <2>5
<1> QED
  BY <1>1, <1>2 DEF Move

\* A new record is newer than all that there are.
LEMMA AppendRecords ==
  ASSUME IInv, Append
  PROVE  InOrder' /\ NoHoles' /\ NewestIsKept'
<1>1. /\ held'[0] = held[0] \cup {calls}
      /\ \A s \in Slot : s # 0 => held'[s] = held[s]
      /\ accepted' = accepted \cup {calls} /\ faults' = faults
  BY Slots DEF Append, IInv, TypeOK
<1>2. calls \in Nat /\ \A x \in accepted : x < calls /\ x \in Nat
  BY DEF Append, IInv, Records, TypeOK, Writing
<1>3. \A s \in Slot : \A x \in held[s] : x < calls
  BY <1>2 DEF IInv, Records
<1>4. InOrder'
  <2> SUFFICES ASSUME NEW i \in Slot, NEW j \in Slot, i < j,
                      NEW x \in held'[i], NEW y \in held'[j]
               PROVE  y < x
    BY DEF InOrder
  <2>1. y \in held[j]
    BY <1>1, Slots
  <2> QED
    BY <1>1, <1>3, <2>1 DEF IInv, InOrder
<1>5. \A x : x \in Kept' <=> x \in Kept \/ x = calls
  BY <1>1, InKept, Slots
<1>6. NoHoles'
  BY <1>1, <1>2, <1>5 DEF IInv, NoHoles
<1>7. NewestIsKept'
  BY <1>1, <1>2, <1>5 DEF NewestIsKept
<1> QED
  BY <1>4, <1>6, <1>7

-----------------------------------------------------------------------------
(* The invariant.                                                          *)

\* Every step keeps what the writer knows of its records, of its file and
\* of the slots it has freed, and with it the three properties.
LEMMA StepIInv == IInv /\ [Next]_vars => IInv'
<1> SUFFICES ASSUME IInv, [Next]_vars PROVE IInv'
  OBVIOUS
<1>0. TypeOK' /\ TypeOK /\ Records /\ Lengths /\ Loop
  BY StepTypeOK DEF IInv
<1> DEFINE Rest == Records' /\ Lengths' /\ Loop'
           Disk == InOrder' /\ NoHoles' /\ NewestIsKept'
<1> USE LogAssumption, Slots DEF Rotating, Writing
<1>1. CASE NewWriter
  <2>1. Disk
    BY <1>1, SameRecords DEF NewWriter, OpenCurrent, disk, call
  <2>2. Rest
    BY <1>0, <1>1 DEF NewWriter, OpenCurrent, disk, call, Records, Lengths,
                      Loop, TypeOK
  <2> QED
    BY <1>0, <2>1, <2>2 DEF IInv
<1>2. ASSUME NEW p \in Size, Write(p) PROVE IInv'
  <2>1. Disk
    BY <1>2, SameRecords DEF Write, FaultIf, disk
  <2>2. Records'
    BY <1>0, <1>2 DEF Write, disk, Records, TypeOK
  <2>3. Lengths'
    BY <1>0, <1>2 DEF Write, FaultIf, Room, disk, Lengths, TypeOK
  <2>4. Loop'
    BY <1>0, <1>2 DEF Write, FaultIf, Room, disk, Lengths, Loop, TypeOK
  <2> QED
    BY <1>0, <2>1, <2>2, <2>3, <2>4 DEF IInv
<1>3. CASE Reopen
  <2>1. Disk
    BY <1>3, SameRecords DEF Reopen, OpenCurrent, disk, call
  <2>2. Records'
    BY <1>0, <1>3 DEF Reopen, OpenCurrent, Room, disk, call, Records, TypeOK
  <2>3. Lengths'
    BY <1>0, <1>3 DEF Reopen, OpenCurrent, Room, disk, call, Lengths, TypeOK
  <2>4. pc' = "remove" /\ "odd" \notin faults => held[0] # {}
    <3> SUFFICES ASSUME pc' = "remove", "odd" \notin faults
                 PROVE  held[0] # {}
      OBVIOUS
    <3>1. len[0] + length > MaxBytes
      BY <1>3 DEF Reopen, OpenCurrent, Room
    <3>2. len[0] > 0
      BY <1>0, <3>1 DEF Lengths, TypeOK
    <3> QED
      BY <1>0, <3>2 DEF Lengths
  <2>5. Loop'
    <3>1. /\ pc' \in {"idle", "append", "remove"}
          /\ held' = held /\ faults' = faults
      BY <1>3 DEF Reopen, OpenCurrent, Room, disk
    <3> QED
      BY <2>4, <3>1 DEF Loop
  <2> QED
    BY <1>0, <2>1, <2>2, <2>3, <2>5 DEF IInv
<1>4. CASE Append
  <2>1. Disk
    BY <1>4, AppendRecords
  <2>2. Records'
    BY <1>0, <1>4 DEF Append, Records, Lengths, TypeOK
  <2>3. Lengths' /\ Loop'
    BY <1>0, <1>4 DEF Append, Lengths, Loop, TypeOK
  <2> QED
    BY <1>0, <2>1, <2>2, <2>3 DEF IInv
<1>5. ASSUME NEW n \in 0..length, AppendFails(n) PROVE IInv'
  <2>1. Disk
    BY <1>5, SameRecords DEF AppendFails, FaultIf
  <2>2. Records'
    BY <1>0, <1>5 DEF AppendFails, Records, TypeOK
  <2>3. Lengths' /\ Loop'
    BY <1>0, <1>5 DEF AppendFails, FaultIf, Lengths, Loop, TypeOK
  <2> QED
    BY <1>0, <2>1, <2>2, <2>3 DEF IInv
<1>6. CASE RemoveOldest
  <2>1. Disk
    BY <1>6, RemoveRecords
  <2>2. Records'
    BY <1>0, <1>6 DEF RemoveOldest, disk, call, Records, TypeOK
  <2>3. Lengths'
    BY <1>0, <1>6 DEF RemoveOldest, disk, call, Lengths, TypeOK
  <2>4. Loop'
    BY <1>0, <1>6 DEF RemoveOldest, disk, call, Loop, TypeOK
  <2> QED
    BY <1>0, <2>1, <2>2, <2>3, <2>4 DEF IInv
<1>7. CASE Shift
  <2>1. slot \in Slot /\ slot + 1 \in Slot /\ slot >= 1 /\ slot \in Nat
    BY <1>0, <1>7 DEF Shift, Loop, TypeOK, Slot, Oldest
  <2>2. Move(slot, slot + 1)
    BY <1>7 DEF Shift
  <2>3. Disk
    BY <1>0, <1>7, <2>1, <2>2, MoveRecords DEF Shift, call, Loop
  <2>4. Records'
    BY <1>0, <1>7, <2>1, <2>2 DEF Shift, Move, disk, call, Records, TypeOK
  <2>5. Lengths'
    BY <1>0, <1>7, <2>1, <2>2
       DEF Shift, Move, FaultIf, disk, call, Lengths, TypeOK
  <2>6. Loop'
    BY <1>0, <1>7, <2>1, <2>2
       DEF Shift, Move, FaultIf, disk, call, Loop, TypeOK
  <2> QED
    BY <1>0, <2>3, <2>4, <2>5, <2>6 DEF IInv
<1>8. CASE ShiftBase
  <2>1. 0 \in Slot /\ 0 + 1 \in Slot /\ Move(0, 0 + 1)
    BY <1>8 DEF ShiftBase
  <2>2. Disk
    BY <1>0, <1>8, <2>1, MoveRecords DEF ShiftBase, call, Loop
  <2>3. Records'
    BY <1>0, <1>8 DEF ShiftBase, Move, disk, call, Records, TypeOK
  <2>4. Lengths'
    <3>1. file # "open"
      BY <1>0, <1>8 DEF ShiftBase, Lengths
    <3> QED
      BY <1>0, <1>8, <3>1
         DEF ShiftBase, Move, FaultIf, disk, call, Lengths, TypeOK
  <2>5. Loop'
    BY <1>8 DEF ShiftBase, Loop
  <2> QED
    BY <1>0, <2>2, <2>3, <2>4, <2>5 DEF IInv
<1>9. CASE OpenNew
  <2>1. Disk
    BY <1>9, SameRecords DEF OpenNew, OpenCurrent, disk, call
  <2>2. Rest
    BY <1>0, <1>9 DEF OpenNew, OpenCurrent, disk, call, Records, Lengths,
                      Loop, TypeOK
  <2> QED
    BY <1>0, <2>1, <2>2 DEF IInv
<1>10. CASE Close
  <2>1. Disk
    BY <1>10, SameRecords DEF Close, disk, call
  <2>2. Rest
    BY <1>0, <1>10 DEF Close, disk, call, Records, Lengths, Loop, TypeOK
  <2> QED
    BY <1>0, <2>1, <2>2 DEF IInv
<1>11. CASE Crash
  <2>1. Disk
    BY <1>11, SameRecords DEF Crash, disk, call
  <2>2. Rest
    BY <1>0, <1>11 DEF Crash, disk, call, Records, Lengths, Loop, TypeOK
  <2> QED
    BY <1>0, <2>1, <2>2 DEF IInv
<1>12. CASE UNCHANGED vars
  <2>1. Disk
    BY <1>12, SameRecords DEF vars
  <2>2. Rest
    BY <1>0, <1>12 DEF vars, Records, Lengths, Loop
  <2> QED
    BY <1>0, <2>1, <2>2 DEF IInv
<1> QED
  BY <1>1, <1>2, <1>3, <1>4, <1>5, <1>6, <1>7, <1>8, <1>9, <1>10, <1>11,
     <1>12 DEF Next

\* The invariant holds in every behaviour.
LEMMA Invariance == Spec => []IInv
  BY InitIInv, StepIInv, PTL DEF Spec

-----------------------------------------------------------------------------
(* The size of the files.                                                  *)

\* What SizeIsBounded says of a file with the records h and n bytes.
Bounded(h, n) == n <= MaxBytes \/ h = {} \/ \E x \in Nat : h = {x}

\* A slot without a file has no bytes.  As long as every rename that was due
\* was done, the record that is about to be appended fits or starts a file,
\* and there is no current file when rotate opens a new one.
Sizes ==
  /\ \A s \in Slot : s \notin present => len[s] = 0
  /\ "rename" \notin faults =>
       /\ pc = "append" => len[0] + length <= MaxBytes \/ held[0] = {}
       /\ pc = "open" => 0 \notin present
       /\ \A s \in Slot : Bounded(held[s], len[s])

LEMMA InitSizes == Init => Sizes
  BY DEF Init, Sizes, Bounded

\* Every step keeps Sizes: a record is added to a file that has room for it
\* or to a new one, and a rename takes a file with all it is over.
LEMMA StepSizes == IInv /\ Sizes /\ [Next]_vars => Sizes'
<1> SUFFICES ASSUME IInv, Sizes, [Next]_vars PROVE Sizes'
  OBVIOUS
<1>0. TypeOK /\ Records /\ Lengths /\ Loop
  BY DEF IInv
<1>empty. Bounded({}, 0)
  BY DEF Bounded
<1> USE LogAssumption, Slots
<1>1. CASE NewWriter
  BY <1>0, <1>1 DEF NewWriter, OpenCurrent, disk, Sizes, TypeOK
<1>2. ASSUME NEW p \in Size, Write(p) PROVE Sizes'
  BY <1>0, <1>2 DEF Write, FaultIf, Room, disk, Sizes, Lengths, TypeOK
<1>3. CASE Reopen
  BY <1>0, <1>3 DEF Reopen, OpenCurrent, Room, disk, call, Sizes, TypeOK
<1>4. CASE Append
  <2>1. /\ held'[0] = held[0] \cup {calls} /\ len'[0] = len[0] + length
        /\ \A s \in Slot : s # 0 => held'[s] = held[s] /\ len'[s] = len[s]
        /\ pc' = "idle" /\ faults' = faults /\ present' = present
    BY <1>0, <1>4 DEF Append, TypeOK
  <2>2. calls \in Nat /\ 0 \in present
    BY <1>0, <1>4 DEF Append, Lengths, TypeOK
  <2>3. "rename" \notin faults => Bounded(held'[0], len'[0])
    <3>1. "rename" \notin faults => len'[0] <= MaxBytes \/ held'[0] = {calls}
      BY <1>4, <2>1 DEF Append, Sizes
    <3> QED
      BY <2>2, <3>1 DEF Bounded
  <2> QED
    BY <2>1, <2>2, <2>3 DEF Sizes
<1>5. ASSUME NEW n \in 0..length, AppendFails(n) PROVE Sizes'
  <2>1. /\ held' = held /\ len'[0] = len[0] + n /\ n <= length
        /\ \A s \in Slot : s # 0 => len'[s] = len[s]
        /\ pc' = "idle" /\ present' = present
        /\ "rename" \in faults <=> "rename" \in faults'
    BY <1>0, <1>5 DEF AppendFails, FaultIf, TypeOK
  <2>2. 0 \in present /\ len[0] \in Nat /\ n \in Nat /\ length \in Nat
    BY <1>0, <1>5 DEF AppendFails, Lengths, TypeOK
  <2>3. "rename" \notin faults => Bounded(held'[0], len'[0])
    BY <1>5, <2>1, <2>2 DEF AppendFails, Sizes, Bounded
  <2> QED
    BY <2>1, <2>2, <2>3 DEF Sizes
<1>6. CASE RemoveOldest
  BY <1>0, <1>6, <1>empty DEF RemoveOldest, disk, call, Sizes, TypeOK
<1>7. ASSUME NEW src \in Slot, NEW dst \in Slot, src # dst, Move(src, dst),
             pc' # "append", pc' = "open" => src = 0
      PROVE  Sizes'
  <2>1. CASE /\ present' = (present \ {src}) \cup {dst}
             /\ held' = [held EXCEPT ![dst] = held[src], ![src] = {}]
             /\ len' = [len EXCEPT ![dst] = len[src], ![src] = 0]
             /\ UNCHANGED faults
    <3>1. /\ held'[dst] = held[src] /\ len'[dst] = len[src]
          /\ held'[src] = {} /\ len'[src] = 0
          /\ \A s \in Slot : s # src /\ s # dst =>
               held'[s] = held[s] /\ len'[s] = len[s]
      BY <1>0, <1>7, <2>1 DEF TypeOK
    <3>2. pc' = "open" => 0 \notin present'
      BY <1>7, <2>1
    <3>3. \A s \in Slot : s \notin present' => len'[s] = 0
      BY <2>1, <3>1 DEF Sizes
    <3>4. "rename" \notin faults => \A s \in Slot : Bounded(held'[s], len'[s])
      BY <1>empty, <2>1, <3>1 DEF Sizes
    <3> QED
      BY <1>7, <2>1, <3>2, <3>3, <3>4 DEF Sizes
  <2>2. CASE FaultIf(src \in present, "rename") /\ UNCHANGED disk
    BY <1>7, <2>2 DEF FaultIf, disk, Sizes
  <2> QED
    BY <1>7, <2>1, <2>2 DEF Move
<1>8. CASE Shift
  <2>1. slot \in Slot /\ slot + 1 \in Slot /\ slot # slot + 1
    BY <1>0, <1>8 DEF Shift, Loop, TypeOK, Slot, Oldest
  <2> QED
    BY <1>7, <1>8, <2>1 DEF Shift
<1>9. CASE ShiftBase
  BY <1>7, <1>9 DEF ShiftBase
<1>10. CASE OpenNew
  <2>1. "rename" \notin faults => held[0] = {}
    BY <1>0, <1>10 DEF OpenNew, Sizes, Records
  <2> QED
    BY <1>0, <1>10, <2>1
       DEF OpenNew, OpenCurrent, disk, call, Sizes, TypeOK
<1>11. CASE Close \/ Crash
  BY <1>11 DEF Close, Crash, disk, call, Sizes
<1>12. CASE UNCHANGED vars
  BY <1>12 DEF vars, Sizes
<1> QED
  BY <1>1, <1>2, <1>3, <1>4, <1>5, <1>6, <1>8, <1>9, <1>10, <1>11, <1>12
     DEF Next

\* For any limits and any failures but that of a rename, only a file with a
\* single record is longer than MaxBytes, also after a restart.
THEOREM FilesAreBounded == Spec => []SizeIsBounded
<1>1. IInv /\ Sizes => SizeIsBounded
  <2> SUFFICES ASSUME TypeOK, Sizes, "rename" \notin faults,
                      NEW s \in Slot, len[s] > MaxBytes
               PROVE  Cardinality(held[s]) <= 1
    BY DEF IInv, SizeIsBounded
  <2>1. len[s] \in Nat /\ MaxBytes \in Nat
    BY LogAssumption DEF TypeOK
  <2>2. held[s] = {} \/ \E x \in Nat : held[s] = {x}
    BY <2>1 DEF Sizes, Bounded
  <2>3. Cardinality(held[s]) \in {0, 1}
    BY <2>2, FS_EmptySet, FS_Singleton, Zenon
  <2> QED
    BY <2>3
<1> QED
  BY <1>1, Invariance, InitSizes, StepSizes, PTL DEF Spec

-----------------------------------------------------------------------------
(* The theorems.                                                           *)

\* For any limits, the files on disk hold the records in order, none twice,
\* whatever call of rotate fails and wherever the process stops.
THEOREM FilesAreInOrder == Spec => []InOrder
<1>1. IInv => InOrder
  BY DEF IInv
<1> QED
  BY <1>1, Invariance, PTL

\* For any limits, rotation loses the oldest records only, unless a rename
\* fails; a stop between two renames does no harm.
THEOREM OnlyTheOldestIsLost == Spec => []NoHoles
<1>1. IInv => NoHoles
  BY DEF IInv
<1> QED
  BY <1>1, Invariance, PTL

\* For any limits, the record written last is on disk, unless records do not
\* fit a file or are cut short.
THEOREM LastRecordSurvives == Spec => []NewestIsKept
<1>1. IInv => NewestIsKept
  BY DEF IInv
<1> QED
  BY <1>1, Invariance, PTL

\* The files, their lengths and the suffix the rotation is at keep within
\* their ranges, for any limits and any failures.
THEOREM TypeCorrect == Spec => []TypeOK
<1>1. IInv => TypeOK
  BY DEF IInv
<1> QED
  BY <1>1, Invariance, PTL

=============================================================================
