--------------------------- MODULE RpcStats_proofs ---------------------------
(***************************************************************************)
(* What pruning keeps and what it drops, for any number of routers and     *)
(* goroutines, any minute and any delay.                                   *)
(*                                                                         *)
(* Neither property is inductive.  NothingRecentIsLost needs that nobody   *)
(* prunes for a time that is yet to come.  NothingOldIsCounted needs that  *)
(* the lists, though not sorted, are nearly so: an entry is at most Delay  *)
(* older than any before it, because the time of a goroutine that appends  *)
(* is at most Delay old.                                                   *)
(***************************************************************************)
EXTENDS RpcStats, FiniteSetTheorems, SequenceTheorems, WellFoundedInduction,
        TLAPS

-----------------------------------------------------------------------------
(* pruneLastMinute.                                                        *)

\* pruneLastMinute finds where to cut: the loop ends at the first entry that
\* is not expired or behind the last one.
LEMMA FirstFreshFound ==
  ASSUME NEW a \in Seq(Nat), NEW f \in Nat \ {0}, f <= Len(a) + 1,
         NEW cut \in Int
  PROVE  LET i == FirstFresh(a, f, cut) IN
         /\ i \in Nat \ {0} /\ f <= i /\ i <= Len(a) + 1
         /\ i <= Len(a) => a[i] >= cut
         /\ \A j \in f..(i - 1) : a[j] < cut
<1> DEFINE T == {k \in Nat : f <= k /\ (k <= Len(a) => a[k] >= cut)}
<1>1. Len(a) \in Nat
  OBVIOUS
<1>2. Len(a) + 1 \in T
  BY <1>1
<1>3. PICK i \in T : \A y \in T : ~(<<y, i>> \in OpToRel(<, Nat))
  <2>1. T \subseteq Nat /\ T # {}
    BY <1>2
  <2> HIDE DEF T
  <2> QED
    BY <2>1, NatLessThanWellFounded, WFMin, Zenon
<1>4. \A y \in T : ~(y < i)
  BY <1>3 DEF OpToRel
<1>5. i \in f..(Len(a) + 1)
  BY <1>1, <1>2, <1>4
<1>6. \A j \in f..(i - 1) : a[j] < cut
  <2> SUFFICES ASSUME NEW j \in f..(i - 1), ~(a[j] < cut)
               PROVE  FALSE
    OBVIOUS
  <2>1. j \in Nat /\ f <= j /\ j < i /\ j <= Len(a)
    BY <1>1, <1>5
  <2>2. j \in 1..Len(a)
    BY <1>1, <2>1
  <2>3. a[j] \in Nat
    BY <2>2, ElementOfSeq
  <2>4. j \in T
    BY <2>1, <2>3
  <2> QED
    BY <1>4, <2>1, <2>4
<1>7. \E k \in f..(Len(a) + 1) :
        /\ k <= Len(a) => a[k] >= cut
        /\ \A j \in f..(k - 1) : a[j] < cut
  BY <1>3, <1>5, <1>6
<1>8. /\ FirstFresh(a, f, cut) \in f..(Len(a) + 1)
      /\ FirstFresh(a, f, cut) <= Len(a) => a[FirstFresh(a, f, cut)] >= cut
      /\ \A j \in f..(FirstFresh(a, f, cut) - 1) : a[j] < cut
  BY <1>7, Zenon DEF FirstFresh
<1> QED
  BY <1>1, <1>8

-----------------------------------------------------------------------------
(* One step of a goroutine on the lists.                                   *)

\* b is a with times t appended.
Extends(b, a, t) ==
  /\ Len(a) <= Len(b)
  /\ \A i \in 1..Len(a) : b[i] = a[i]
  /\ \A i \in 1..Len(b) : i > Len(a) => b[i] = t

\* Hit appends to the lists it is given and to no other.
LEMMA HitExtends ==
  ASSUME NEW array \in [List -> Seq(Nat)], NEW lists, NEW t \in Nat
  PROVE  /\ Hit(array, lists, t) \in [List -> Seq(Nat)]
         /\ \A l \in List : Extends(Hit(array, lists, t)[l], array[l], t)
         /\ \A l \in List : l \notin lists => Hit(array, lists, t)[l] = array[l]
<1>1. Hit(array, lists, t) \in [List -> Seq(Nat)]
  BY DEF Hit
<1>2. ASSUME NEW l \in List
      PROVE  Extends(Hit(array, lists, t)[l], array[l], t)
  <2>1. array[l] \in Seq(Nat)
    OBVIOUS
  <2>2. CASE l \in lists
    <3>1. Hit(array, lists, t)[l] = Append(array[l], t)
      BY <2>2 DEF Hit
    <3> QED
      BY <2>1, <3>1 DEF Extends
  <2>3. CASE l \notin lists
    BY <2>1, <2>3 DEF Hit, Extends
  <2> QED
    BY <2>2, <2>3
<1> QED
  BY <1>1, <1>2 DEF Hit

\* What a goroutine that appended to or pruned the lists leaves in start.
LEMMA PruneCuts ==
  ASSUME NEW array \in [List -> Seq(Nat)], NEW lists, NEW t \in Nat,
         start \in [List -> Nat \ {0}],
         \A l \in List : start[l] <= Len(array[l]) + 1,
         Prune(lists, array, t)
  PROVE  /\ start' \in [List -> Nat \ {0}]
         /\ \A l \in List :
              /\ start[l] <= start'[l] /\ start'[l] <= Len(array[l]) + 1
              /\ \A j \in start[l]..(start'[l] - 1) :
                   array[l][j] < t - Window
              /\ l \in lists /\ start'[l] <= Len(array[l]) =>
                   array[l][start'[l]] >= t - Window
              /\ l \notin lists => start'[l] = start[l]
<1>1. t - Window \in Int
  BY StatsAssumption
<1>2. ASSUME NEW l \in List
      PROVE  /\ start'[l] \in Nat \ {0}
             /\ start[l] <= start'[l] /\ start'[l] <= Len(array[l]) + 1
             /\ \A j \in start[l]..(start'[l] - 1) :
                  array[l][j] < t - Window
             /\ l \in lists /\ start'[l] <= Len(array[l]) =>
                  array[l][start'[l]] >= t - Window
             /\ l \notin lists => start'[l] = start[l]
  <2>1. array[l] \in Seq(Nat) /\ start[l] \in Nat \ {0}
    OBVIOUS
  <2>2. CASE l \in lists
    <3>1. start'[l] = FirstFresh(array[l], start[l], t - Window)
      BY <2>2 DEF Prune
    <3> QED
      BY <1>1, <2>1, <2>2, <3>1, FirstFreshFound
  <2>3. CASE l \notin lists
    <3>1. start'[l] = start[l]
      BY <2>3 DEF Prune
    <3> QED
      BY <2>1, <2>3, <3>1
  <2> QED
    BY <2>2, <2>3
<1>3. start' = [l \in List |-> start'[l]]
  BY DEF Prune
<1> QED
  BY <1>2, <1>3

-----------------------------------------------------------------------------
(* The inductive invariant.                                                *)

\* No goroutine holds a time that is yet to come or older than Delay.
Timely ==
  \A h \in Handler :
    pc[h] # "idle" => stamp[h] <= now /\ now <= stamp[h] + Delay

\* Nothing was recorded or pruned for a time that is yet to come.
NotAhead ==
  \A l \in List : /\ pruned[l] <= now
                  /\ \A i \in 1..Len(stamps[l]) : stamps[l][i] <= now

NearlySorted ==
  \A l \in List : \A i, j \in 1..Len(stamps[l]) :
    i <= j => stamps[l][i] <= stamps[l][j] + Delay

ListTypes ==
  /\ stamps \in [List -> Seq(Nat)]
  /\ start \in [List -> Nat \ {0}]
  /\ \A l \in List : start[l] <= Len(stamps[l]) + 1
  /\ pruned \in [List -> Nat]

ListsInv ==
  /\ ListTypes /\ NotAhead /\ NearlySorted
  /\ NothingRecentIsLost /\ NothingOldIsCounted

IInv == TypeOK /\ Timely /\ ListsInv

\* A goroutine with a time that is not older than Delay appends it to some
\* lists, perhaps, and prunes these and others.
LEMMA ListsStep ==
  ASSUME now \in Nat, now' = now, ListsInv,
         NEW lists, NEW t \in Nat, t <= now, now <= t + Delay,
         stamps' \in [List -> Seq(Nat)],
         \A l \in List : Extends(stamps'[l], stamps[l], t),
         \A l \in List : l \notin lists => stamps'[l] = stamps[l],
         Prune(lists, stamps', t)
  PROVE  ListsInv'
<1> USE StatsAssumption
<1>1. \A l \in List : start[l] <= Len(stamps'[l]) + 1
  BY DEF ListsInv, ListTypes, Extends
<1>2. /\ start' \in [List -> Nat \ {0}]
      /\ \A l \in List :
           /\ start[l] <= start'[l] /\ start'[l] <= Len(stamps'[l]) + 1
           /\ \A j \in start[l]..(start'[l] - 1) :
                stamps'[l][j] < t - Window
           /\ l \in lists /\ start'[l] <= Len(stamps'[l]) =>
                stamps'[l][start'[l]] >= t - Window
           /\ l \notin lists => start'[l] = start[l]
  <2>1. start \in [List -> Nat \ {0}]
    BY DEF ListsInv, ListTypes
  <2> QED
    BY <1>1, <2>1, PruneCuts
<1>3. pruned' = [l \in List |-> IF l \in lists THEN t ELSE pruned[l]]
  BY DEF Prune
<1>4. ListTypes'
  BY <1>2, <1>3 DEF ListsInv, ListTypes
<1>5. ASSUME NEW l \in List, NEW i \in 1..Len(stamps'[l])
      PROVE  /\ stamps'[l][i] \in Nat /\ stamps'[l][i] <= now
             /\ \/ i \in 1..Len(stamps[l]) /\ stamps'[l][i] = stamps[l][i]
                \/ i > Len(stamps[l]) /\ stamps'[l][i] = t
  <2>1. stamps[l] \in Seq(Nat) /\ stamps'[l] \in Seq(Nat)
    BY DEF ListsInv, ListTypes
  <2>2. Len(stamps[l]) \in Nat /\ i \in Nat /\ 1 <= i
    BY <2>1
  <2>3. CASE i <= Len(stamps[l])
    <3>0. i \in 1..Len(stamps[l])
      BY <2>2, <2>3
    <3>1. stamps[l][i] \in Nat
      BY <2>1, <3>0, ElementOfSeq
    <3>2. stamps'[l][i] = stamps[l][i]
      BY <3>0 DEF Extends
    <3>3. stamps[l][i] <= now
      BY <3>0 DEF ListsInv, NotAhead
    <3> QED
      BY <3>0, <3>1, <3>2, <3>3
  <2>4. CASE i > Len(stamps[l])
    BY <2>1, <2>2, <2>4 DEF Extends
  <2> QED
    BY <2>2, <2>3, <2>4
<1>6. NotAhead'
  <2>1. \A l \in List : pruned'[l] <= now
    BY <1>3 DEF ListsInv, NotAhead
  <2> QED
    BY <1>5, <2>1 DEF NotAhead
<1>7. NearlySorted'
  <2> SUFFICES ASSUME NEW l \in List, NEW i \in 1..Len(stamps'[l]),
                      NEW j \in 1..Len(stamps'[l]), i <= j
               PROVE  stamps'[l][i] <= stamps'[l][j] + Delay
    BY DEF NearlySorted
  <2>1. Len(stamps[l]) \in Nat
    BY DEF ListsInv, ListTypes
  <2>2. CASE j > Len(stamps[l])
    <3>1. stamps'[l][j] = t
      BY <1>5, <2>1, <2>2
    <3>2. stamps'[l][i] \in Nat /\ stamps'[l][i] <= now
      BY <1>5
    <3> QED
      BY <3>1, <3>2
  <2>3. CASE j <= Len(stamps[l])
    <3>1. /\ i \in 1..Len(stamps[l]) /\ stamps'[l][i] = stamps[l][i]
          /\ j \in 1..Len(stamps[l]) /\ stamps'[l][j] = stamps[l][j]
      BY <1>5, <2>1, <2>3
    <3> QED
      BY <3>1 DEF ListsInv, NearlySorted
  <2> QED
    BY <2>1, <2>2, <2>3
<1>8. NothingRecentIsLost'
  <2> SUFFICES ASSUME NEW l \in List, NEW i \in 1..(start'[l] - 1)
               PROVE  stamps'[l][i] < now - Window
    BY DEF NothingRecentIsLost
  <2>1. /\ start[l] \in Nat \ {0} /\ start'[l] \in Nat \ {0}
        /\ start[l] <= Len(stamps[l]) + 1 /\ Len(stamps[l]) \in Nat
    BY <1>2 DEF ListsInv, ListTypes
  <2>2. start'[l] <= Len(stamps'[l]) + 1 /\ Len(stamps'[l]) \in Nat
    BY <1>2
  <2>3. i \in 1..Len(stamps'[l])
    BY <2>1, <2>2
  <2>4. CASE i < start[l]
    <3>1. i \in 1..(start[l] - 1) /\ ~(i > Len(stamps[l]))
      BY <2>1, <2>4
    <3> QED
      BY <1>5, <2>3, <3>1 DEF ListsInv, NothingRecentIsLost
  <2>5. CASE i >= start[l]
    <3>1. i \in start[l]..(start'[l] - 1)
      BY <2>1, <2>5
    <3>2. stamps'[l][i] < t - Window
      BY <1>2, <3>1
    <3> QED
      BY <1>5, <2>3, <3>2
  <2> QED
    BY <2>1, <2>4, <2>5
<1>9. NothingOldIsCounted'
  <2> SUFFICES ASSUME NEW l \in List, NEW i \in start'[l]..Len(stamps'[l])
               PROVE  stamps'[l][i] >= pruned'[l] - Window - Delay
    BY DEF NothingOldIsCounted
  <2>1. CASE l \in lists
    <3>1. pruned'[l] = t
      BY <1>3, <2>1
    <3>2. /\ start'[l] \in Nat \ {0} /\ Len(stamps'[l]) \in Nat
          /\ start'[l] <= Len(stamps'[l])
      BY <1>2
    <3>3. stamps'[l][start'[l]] >= t - Window
      BY <1>2, <2>1, <3>2
    <3>4. start'[l] \in 1..Len(stamps'[l]) /\ i \in 1..Len(stamps'[l])
          /\ start'[l] <= i
      BY <3>2
    <3>5. stamps'[l][start'[l]] <= stamps'[l][i] + Delay
      BY <1>7, <3>4 DEF NearlySorted
    <3>6. /\ stamps'[l][i] \in Nat /\ stamps'[l][start'[l]] \in Nat
      BY <1>5, <3>4
    <3>7. Delay \in Nat /\ Window \in Nat
      OBVIOUS
    <3> DEFINE first == stamps'[l][start'[l]]
               it == stamps'[l][i]
    <3>8. first \in Nat /\ it \in Nat /\ first >= t - Window /\ first <= it + Delay
      BY <3>3, <3>5, <3>6
    <3> HIDE DEF first, it
    <3>9. it >= t - Window - Delay
      BY <3>7, <3>8
    <3> QED
      BY <3>1, <3>9 DEF it
  <2>2. CASE l \notin lists
    <3>1. /\ stamps'[l] = stamps[l] /\ start'[l] = start[l]
          /\ pruned'[l] = pruned[l]
      BY <1>2, <1>3, <2>2
    <3> QED
      BY <3>1 DEF ListsInv, NothingOldIsCounted
  <2> QED
    BY <2>1, <2>2
<1> QED
  BY <1>4, <1>6, <1>7, <1>8, <1>9 DEF ListsInv

\* A server that has just started.
LEMMA InitIInv == Init => IInv
<1> SUFFICES ASSUME Init PROVE IInv
  OBVIOUS
<1>1. \A l \in List : stamps[l] = <<>> /\ start[l] = 1 /\ pruned[l] = 0
  BY DEF Init
<1>2. TypeOK
  BY <1>1 DEF Init, TypeOK
<1>3. ListsInv
  BY <1>1, <1>2 DEF Init, TypeOK, ListsInv, ListTypes, NotAhead, NearlySorted,
                    NothingRecentIsLost, NothingOldIsCounted
<1> QED
  BY <1>2, <1>3 DEF Init, IInv, Timely

\* A goroutine that ends, and one that takes the time, leave it in order.
LEMMA GoroutineStep ==
  ASSUME IInv, now' = now, NEW h \in Handler, NEW p \in {"request", "rpc",
         "rate", "rank"}, Done(h) \/ Take(h, p)
  PROVE  /\ pc' \in [Handler -> {"idle", "request", "rpc", "rate", "rank"}]
         /\ stamp' \in [Handler -> Nat]
         /\ Timely'
<1> USE StatsAssumption
<1>1. CASE Done(h)
  BY <1>1 DEF IInv, TypeOK, Timely, Done
<1>2. CASE Take(h, p)
  BY <1>2 DEF IInv, TypeOK, Timely, Take
<1> QED
  BY <1>1, <1>2

\* A goroutine that has the time appends nothing to the lists.
LEMMA Unextended ==
  ASSUME stamps \in [List -> Seq(Nat)], UNCHANGED stamps, NEW t
  PROVE  /\ stamps' \in [List -> Seq(Nat)]
         /\ \A l \in List : Extends(stamps'[l], stamps[l], t)
<1>1. ASSUME NEW l \in List PROVE Extends(stamps'[l], stamps[l], t)
  <2>1. Len(stamps[l]) \in Nat
    OBVIOUS
  <2> QED
    BY <2>1 DEF Extends
<1> QED
  BY <1>1

\* Every step of a goroutine and of the clock keeps the invariant.
LEMMA StepIInv == IInv /\ [Next]_statsVars => IInv'
<1> SUFFICES ASSUME IInv, [Next]_statsVars PROVE IInv'
  OBVIOUS
<1> USE StatsAssumption
<1>0. TypeOK /\ Timely /\ ListsInv /\ now \in Nat
      /\ stamps \in [List -> Seq(Nat)] /\ total \in [RouterId -> Nat]
  BY DEF IInv, TypeOK
<1>1. CASE Tick
  <2>1. now' = now + 1 /\ now' \in Nat
    BY <1>0, <1>1 DEF Tick
  <2>2. TypeOK'
    BY <1>0, <1>1, <2>1 DEF Tick, TypeOK
  <2>3. Timely'
    BY <1>0, <1>1, <2>1 DEF Tick, TypeOK, Timely
  <2>4. UNCHANGED <<stamps, start, pruned>>
    BY <1>1 DEF Tick
  <2>5. ListTypes' /\ NearlySorted' /\ NothingOldIsCounted'
    BY <1>0, <2>4 DEF ListsInv, ListTypes, NearlySorted, NothingOldIsCounted
  <2>6. \A l \in List : /\ pruned[l] \in Nat /\ Len(stamps[l]) \in Nat
                        /\ start[l] \in Nat \ {0}
                        /\ start[l] <= Len(stamps[l]) + 1
                        /\ \A i \in 1..Len(stamps[l]) : stamps[l][i] \in Nat
    BY <1>0, ElementOfSeq DEF ListsInv, ListTypes
  <2>7. NotAhead'
    BY <1>0, <2>1, <2>4, <2>6 DEF ListsInv, NotAhead
  <2>8. NothingRecentIsLost'
    <3> SUFFICES ASSUME NEW l \in List, NEW i \in 1..(start[l] - 1)
                 PROVE  stamps[l][i] < now' - Window
      BY <2>4 DEF NothingRecentIsLost
    <3>1. i \in 1..Len(stamps[l])
      BY <2>6
    <3>2. stamps[l][i] < now - Window
      BY <1>0 DEF ListsInv, NothingRecentIsLost
    <3> QED
      BY <1>0, <2>1, <2>6, <3>1, <3>2
  <2> QED
    BY <2>2, <2>3, <2>5, <2>7, <2>8 DEF IInv, ListsInv
<1>2. ASSUME NEW h \in Handler, BeginRequest(h) \/ AskRate(h) \/ AskRanking(h)
      PROVE  IInv'
  <2>1. /\ now' = now /\ UNCHANGED <<stamps, start, total, ends, pruned>>
        /\ Take(h, "request") \/ Take(h, "rate") \/ Take(h, "rank")
        /\ calls' \in Nat
    BY <1>0, <1>2 DEF BeginRequest, AskRate, AskRanking, TypeOK
  <2>2. TypeOK' /\ Timely'
    BY <1>0, <2>1, GoroutineStep DEF TypeOK
  <2>3. ListsInv'
    BY <1>0, <2>1 DEF ListsInv, ListTypes, NotAhead, NearlySorted,
                      NothingRecentIsLost, NothingOldIsCounted
  <2> QED
    BY <2>2, <2>3 DEF IInv
<1>3. ASSUME NEW h \in Handler, pc[h] # "idle"
      PROVE  stamp[h] \in Nat /\ stamp[h] <= now /\ now <= stamp[h] + Delay
  BY <1>0, <1>3 DEF TypeOK, Timely
<1>4. ASSUME NEW h \in Handler, recordRequestHit(h) PROVE IInv'
  <2>1. /\ pc[h] # "idle" /\ now' = now /\ UNCHANGED <<total, calls>>
        /\ Done(h) \/ Take(h, "rpc")
        /\ stamps' = Hit(stamps, {Requests}, stamp[h])
        /\ Prune({Requests}, stamps', stamp[h])
    BY <1>4 DEF recordRequestHit
  <2>2. ends' \in [Handler -> (RouterId \cup {NoId}) \X (RouterId \cup {NoId})]
    <3>1. PICK e \in (RouterId \cup {NoId}) \X (RouterId \cup {NoId}) :
            ends' = [ends EXCEPT ![h] = e]
      BY <1>4 DEF recordRequestHit, Done
    <3> QED
      BY <1>0, <3>1 DEF TypeOK
  <2>3. /\ stamps' \in [List -> Seq(Nat)]
        /\ \A l \in List : Extends(stamps'[l], stamps[l], stamp[h])
        /\ \A l \in List : l \notin {Requests} => stamps'[l] = stamps[l]
    BY <1>0, <1>3, <2>1, HitExtends
  <2>4. ListsInv'
    BY <1>0, <1>3, <2>1, <2>3, ListsStep
  <2>5. Timely' /\ TypeOK'
    BY <1>0, <2>1, <2>2, <2>4, GoroutineStep DEF TypeOK, ListsInv, ListTypes
  <2> QED
    BY <2>4, <2>5 DEF IInv
<1>5. ASSUME NEW h \in Handler, recordRouterRPC(h) PROVE IInv'
  <2> DEFINE from == {ends[h][1]} \ {NoId}
             to   == {ends[h][2]} \ {NoId}
             mid  == Hit(stamps, from, stamp[h])
  <2>1. /\ pc[h] # "idle" /\ now' = now /\ UNCHANGED calls /\ Done(h)
        /\ stamps' = Hit(mid, to, stamp[h])
        /\ Prune(from \cup to, stamps', stamp[h])
        /\ total' \in [RouterId -> Nat]
    BY <1>0, <1>5 DEF recordRouterRPC
  <2>2. ends' \in [Handler -> (RouterId \cup {NoId}) \X (RouterId \cup {NoId})]
    BY <1>0, <2>1 DEF Done, TypeOK
  <2>3. stamp[h] \in Nat
    BY <1>3, <2>1
  <2>4. /\ mid \in [List -> Seq(Nat)]
        /\ \A l \in List : Extends(mid[l], stamps[l], stamp[h])
        /\ \A l \in List : l \notin from => mid[l] = stamps[l]
    BY <1>0, <2>3, HitExtends
  <2> HIDE DEF mid, from, to
  <2>5. /\ stamps' \in [List -> Seq(Nat)]
        /\ \A l \in List : Extends(stamps'[l], mid[l], stamp[h])
        /\ \A l \in List : l \notin to => stamps'[l] = mid[l]
    BY <2>1, <2>3, <2>4, HitExtends
  <2>6. ASSUME NEW l \in List PROVE Extends(stamps'[l], stamps[l], stamp[h])
    <3>1. /\ Len(stamps[l]) \in Nat /\ Len(mid[l]) \in Nat
          /\ Len(stamps'[l]) \in Nat
      BY <1>0, <2>4, <2>5
    <3>2. Extends(mid[l], stamps[l], stamp[h])
          /\ Extends(stamps'[l], mid[l], stamp[h])
      BY <2>4, <2>5
    <3> QED
      BY <3>1, <3>2 DEF Extends
  <2>7. \A l \in List : l \notin from \cup to => stamps'[l] = stamps[l]
    BY <2>4, <2>5
  <2>8. stamp[h] <= now /\ now <= stamp[h] + Delay
    BY <1>3, <2>1
  <2>9. ListsInv'
    BY <1>0, <2>1, <2>3, <2>5, <2>6, <2>7, <2>8, ListsStep
  <2>10. Timely' /\ TypeOK'
    BY <1>0, <2>1, <2>2, <2>9, GoroutineStep DEF TypeOK, ListsInv, ListTypes
  <2> QED
    BY <2>9, <2>10 DEF IInv
<1>6. ASSUME NEW h \in Handler, RequestsPerMinute(h) \/ RouterRPCStats(h)
      PROVE  IInv'
  <2>1. /\ pc[h] # "idle" /\ Done(h)
        /\ now' = now /\ UNCHANGED <<stamps, total, calls>>
    BY <1>6 DEF RequestsPerMinute, RouterRPCStats
  <2>2. PICK lists : Prune(lists, stamps, stamp[h])
    BY <1>6 DEF RequestsPerMinute, RouterRPCStats
  <2>3. ends' \in [Handler -> (RouterId \cup {NoId}) \X (RouterId \cup {NoId})]
    BY <1>0, <2>1 DEF Done, TypeOK
  <2>4. Prune(lists, stamps', stamp[h])
    BY <2>1, <2>2
  <2>5. /\ stamps' \in [List -> Seq(Nat)]
        /\ \A l \in List : Extends(stamps'[l], stamps[l], stamp[h])
        /\ \A l \in List : l \notin lists => stamps'[l] = stamps[l]
    BY <1>0, <2>1, Unextended
  <2>6. ListsInv'
    BY <1>0, <1>3, <2>1, <2>4, <2>5, ListsStep
  <2>7. Timely' /\ TypeOK'
    BY <1>0, <2>1, <2>3, <2>6, GoroutineStep DEF TypeOK, ListsInv, ListTypes
  <2> QED
    BY <2>6, <2>7 DEF IInv
<1>7. CASE UNCHANGED statsVars
  BY <1>0, <1>7 DEF statsVars, IInv, TypeOK, Timely, ListsInv, ListTypes,
                    NotAhead, NearlySorted, NothingRecentIsLost,
                    NothingOldIsCounted
<1> QED
  BY <1>1, <1>2, <1>4, <1>5, <1>6, <1>7 DEF Next

\* The invariant of the statistics.
LEMMA Invariance == Spec => []IInv
  BY InitIInv, StepIInv, PTL DEF Spec

-----------------------------------------------------------------------------
\* The lists stay lists of times that the slices are within, however
\* recordRouterRPC, recordRequestHit and the questions interleave.
THEOREM TypeCorrect == Spec => []TypeOK
<1>1. IInv => TypeOK
  BY DEF IInv
<1> QED
  BY <1>1, Invariance, PTL

\* pruneLastMinute never cuts off an entry of the last minute, though the
\* lists are not sorted and it is called with times from before the lock.
THEOREM RecentIsCounted == Spec => []NothingRecentIsLost
<1>1. IInv => NothingRecentIsLost
  BY DEF IInv, ListsInv
<1> QED
  BY <1>1, Invariance, PTL

\* What a pruned list still counts is older than a minute by at most the
\* time a goroutine waits for the lock.
THEOREM OldIsDropped == Spec => []NothingOldIsCounted
<1>1. IInv => NothingOldIsCounted
  BY DEF IInv, ListsInv
<1> QED
  BY <1>1, Invariance, PTL

-----------------------------------------------------------------------------
(* The ranking.                                                            *)

\* recordRouterRPC adds to the total of a router what it adds to its list.
Totals == \A r \in RouterId : Len(stamps[r]) = total[r]

LEMMA HitCounts ==
  ASSUME NEW array \in [List -> Seq(Nat)], NEW lists, NEW t \in Nat,
         NEW l \in List
  PROVE  /\ Hit(array, lists, t)[l] \in Seq(Nat)
         /\ l \in lists => Len(Hit(array, lists, t)[l]) = Len(array[l]) + 1
         /\ l \notin lists => Hit(array, lists, t)[l] = array[l]
<1>1. array[l] \in Seq(Nat)
  OBVIOUS
<1>2. /\ Append(array[l], t) \in Seq(Nat)
      /\ Len(Append(array[l], t)) = Len(array[l]) + 1
  BY <1>1
<1>3. Hit(array, lists, t)[l] = IF l \in lists THEN Append(array[l], t)
                                               ELSE array[l]
  BY DEF Hit
<1> QED
  BY <1>1, <1>2, <1>3

LEMMA StepTotals == IInv /\ Totals /\ [Next]_statsVars => Totals'
<1> SUFFICES ASSUME IInv, Totals, [Next]_statsVars PROVE Totals'
  OBVIOUS
<1>0. /\ stamps \in [List -> Seq(Nat)] /\ total \in [RouterId -> Nat]
      /\ stamp \in [Handler -> Nat] /\ RouterId \subseteq List
      /\ Requests \notin RouterId
  BY StatsAssumption DEF IInv, TypeOK, List
<1>1. ASSUME NEW h \in Handler, recordRequestHit(h) PROVE Totals'
  <2>1. stamps' = Hit(stamps, {Requests}, stamp[h]) /\ total' = total
    BY <1>1 DEF recordRequestHit
  <2>2. stamp[h] \in Nat
    BY <1>0
  <2>3. ASSUME NEW r \in RouterId PROVE stamps'[r] = stamps[r]
    <3>1. r \in List /\ r \notin {Requests}
      BY <1>0
    <3>2. stamps \in [List -> Seq(Nat)]
      BY <1>0
    <3> QED
      BY <2>1, <2>2, <3>1, <3>2, HitCounts
  <2> QED
    BY <2>1, <2>3 DEF Totals
<1>2. ASSUME NEW h \in Handler, recordRouterRPC(h) PROVE Totals'
  <2> DEFINE from == {ends[h][1]} \ {NoId}
             to   == {ends[h][2]} \ {NoId}
             t    == stamp[h]
             mid  == Hit(stamps, from, t)
  <2>1. /\ stamps' = Hit(mid, to, t)
        /\ total' = [r \in RouterId |-> total[r]
                      + (IF r \in from THEN 1 ELSE 0)
                      + (IF r \in to THEN 1 ELSE 0)]
    BY <1>2 DEF recordRouterRPC
  <2>2. t \in Nat
    BY <1>0
  <2> HIDE DEF from, to, t
  <2>3. mid \in [List -> Seq(Nat)]
    BY <1>0, <2>2, HitExtends
  <2>4. ASSUME NEW r \in RouterId PROVE Len(stamps'[r]) = total'[r]
    <3>1. r \in List /\ Len(stamps[r]) = total[r] /\ total[r] \in Nat
      BY <1>0 DEF Totals
    <3>2. /\ r \in from => Len(mid[r]) = Len(stamps[r]) + 1
          /\ r \notin from => mid[r] = stamps[r]
      <4>1. stamps \in [List -> Seq(Nat)]
        BY <1>0
      <4> QED
        BY <2>2, <3>1, <4>1, HitCounts
    <3> HIDE DEF mid
    <3>3. /\ r \in to => Len(stamps'[r]) = Len(mid[r]) + 1
          /\ r \notin to => stamps'[r] = mid[r]
      BY <2>1, <2>2, <2>3, <3>1, HitCounts
    <3> QED
      BY <2>1, <3>1, <3>2, <3>3
  <2> QED
    BY <2>4 DEF Totals
<1>3. CASE UNCHANGED <<stamps, total>>
  BY <1>3 DEF Totals
<1> QED
  BY <1>1, <1>2, <1>3
     DEF Next, Tick, BeginRequest, AskRate, RequestsPerMinute, AskRanking,
         RouterRPCStats, statsVars

\* The entries from one index to the end of a list, against those not older
\* than some time, by number.
LEMMA CountsCompare ==
  ASSUME stamps \in [List -> Seq(Nat)], NEW r \in List, NEW t \in Int,
         NEW first \in Nat \ {0}, first <= Len(stamps[r]) + 1
  PROVE  LET n == Len(stamps[r]) + 1 - first IN
         /\ (\A i \in 1..(first - 1) : stamps[r][i] < t) => n >= Since(r, t)
         /\ (\A i \in first..Len(stamps[r]) : stamps[r][i] >= t)
              => n <= Since(r, t)
<1> DEFINE all == 1..Len(stamps[r])
           late == {i \in all : stamps[r][i] >= t}
           rest == first..Len(stamps[r])
<1>1. Len(stamps[r]) \in Nat /\ \A i \in all : stamps[r][i] \in Nat
  BY ElementOfSeq
<1>2. IsFiniteSet(all) /\ IsFiniteSet(rest)
  BY <1>1, FS_Interval
<1>3. Cardinality(rest) = Len(stamps[r]) + 1 - first
  <2> DEFINE last == Len(stamps[r])
  <2>1. first \in Int /\ last \in Int /\ first <= last + 1
    BY <1>1
  <2> HIDE DEF last
  <2>2. Cardinality(first..last) = IF first > last THEN 0 ELSE last - first + 1
    BY <2>1, FS_Interval
  <2>3. Cardinality(first..last) = last + 1 - first
    BY <2>1, <2>2
  <2> QED
    BY <2>3 DEF last
<1>4. late \in SUBSET all /\ IsFiniteSet(late)
  BY <1>2, FS_Subset
<1>5. Since(r, t) = Cardinality(late)
  BY DEF Since
<1>6. ASSUME \A i \in 1..(first - 1) : stamps[r][i] < t
      PROVE  Cardinality(late) <= Cardinality(rest)
  <2>1. late \subseteq rest
    BY <1>1, <1>6
  <2> HIDE DEF late, rest
  <2> QED
    BY <1>2, <2>1, FS_Subset
<1>7. ASSUME \A i \in rest : stamps[r][i] >= t
      PROVE  Cardinality(rest) <= Cardinality(late)
  <2>1. rest \subseteq late
    BY <1>1, <1>7
  <2> HIDE DEF late, rest
  <2> QED
    BY <1>4, <2>1, FS_Subset
<1>8. Cardinality(late) \in Nat
  BY <1>4, FS_CardinalityType
<1> HIDE DEF late
<1> QED
  BY <1>1, <1>3, <1>5, <1>6, <1>7, <1>8

\* Whoever asks for the ranking prunes the lists of the routers in it, and no
\* others: their numbers are those of the last minute.
THEOREM RankingCountsTheMinute == Spec => RankingIsCurrent
<1> DEFINE
      Right(s, h) == /\ s.perMinute >= Since(s.router, now - Window)
                     /\ s.perMinute <= Since(s.router, stamp[h] - Window - Delay)
                     /\ s.perMinute <= s.total
      Step == \A h \in Handler : pc[h] = "rank" /\ pc'[h] = "idle" =>
                \A i \in DOMAIN ranking' : Right(ranking'[i], h)
<1>1. IInv /\ IInv' /\ Totals /\ [Next]_statsVars => [Step]_statsVars
  <2> SUFFICES ASSUME IInv, IInv', Totals, Next,
                      NEW h \in Handler, pc[h] = "rank", pc'[h] = "idle",
                      NEW i \in DOMAIN ranking'
               PROVE  Right(ranking'[i], h)
    OBVIOUS
  <2>0. pc \in [Handler -> {"idle", "request", "rpc", "rate", "rank"}]
    BY DEF IInv, TypeOK
  <2>1. RouterRPCStats(h)
    BY <2>0 DEF Next, Tick, BeginRequest, recordRequestHit, recordRouterRPC,
                AskRate, RequestsPerMinute, AskRanking, RouterRPCStats,
                Take, Done
  <2>2. PICK matching \in SUBSET RouterId :
          /\ Prune(matching, stamps, stamp[h])
          /\ ranking'[i] \in {Snapshot(r, start'[r]) : r \in matching}
    BY <2>1 DEF RouterRPCStats
  <2>3. PICK r \in matching : ranking'[i] = Snapshot(r, start'[r])
    BY <2>2
  <2>4. r \in RouterId /\ r \in List
    BY <2>3 DEF List
  <2>5. /\ ranking'[i].router = r
        /\ ranking'[i].total = total[r]
        /\ ranking'[i].perMinute = Len(stamps[r]) + 1 - start'[r]
    BY <2>3 DEF Snapshot
  <2>6. /\ now' = now /\ now \in Nat /\ stamp[h] \in Nat
        /\ stamps' = stamps /\ stamps \in [List -> Seq(Nat)]
        /\ start'[r] \in Nat \ {0} /\ start'[r] <= Len(stamps[r]) + 1
        /\ pruned'[r] = stamp[h]
    BY <2>1, <2>2, <2>4 DEF RouterRPCStats, IInv, TypeOK, Prune
  <2>7. Len(stamps[r]) \in Nat /\ Len(stamps[r]) = total[r]
    BY <2>4, <2>6 DEF Totals
  <2>8. \A j \in 1..(start'[r] - 1) : stamps[r][j] < now - Window
    BY <2>4, <2>6 DEF IInv, ListsInv, NothingRecentIsLost
  <2>9. \A j \in start'[r]..Len(stamps[r]) :
          stamps[r][j] >= stamp[h] - Window - Delay
    BY <2>4, <2>6 DEF IInv, ListsInv, NothingOldIsCounted
  <2> DEFINE first == start'[r]
             recent == now - Window
             late == stamp[h] - Window - Delay
  <2>10. recent \in Int /\ late \in Int
    BY <2>6, StatsAssumption
  <2> HIDE DEF first, recent, late
  <2>11. Len(stamps[r]) + 1 - first >= Since(r, recent)
    BY <2>4, <2>6, <2>8, <2>10, CountsCompare DEF first, recent
  <2>12. Len(stamps[r]) + 1 - first <= Since(r, late)
    BY <2>4, <2>6, <2>9, <2>10, CountsCompare DEF first, late
  <2> QED
    BY <2>5, <2>6, <2>7, <2>11, <2>12 DEF first, recent, late
<1>2. Init => Totals
  BY DEF Init, Totals, List
<1>3. Spec => []Totals
  BY <1>2, StepTotals, Invariance, PTL DEF Spec
<1> QED
  BY <1>1, <1>3, Invariance, PTL DEF Spec, RankingIsCurrent

=============================================================================
