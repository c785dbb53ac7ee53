------------------------------ MODULE RpcStats ------------------------------
(***************************************************************************)
(* The statistics of the Router Center: requests in the last minute, RPC   *)
(* calls in the last minute and in all for each router, and the ranking of *)
(* the routers.  Connection handlers record, HTTP handlers ask.            *)
(*                                                                         *)
(* All of them take the time first and the lock after it, so the stamps of *)
(* a list need not be sorted.  A list is a slice: an array that is only    *)
(* ever appended to and the index where the slice starts; pruning moves    *)
(* the start.  Time is counted in units of which Window make a minute.     *)
(***************************************************************************)
EXTENDS Integers, Sequences, FiniteSets, FiniteSetsExt

CONSTANTS
  RouterId,   \* route ids in messages
  NoId,       \* the empty route id
  Requests,   \* names the list of all requests beside those of the routers
  Handler,    \* goroutines
  Window,     \* a minute
  Delay,      \* longest time from taking the time to having the lock
  MaxTime,    \* bound: the clock
  MaxCalls    \* bound: messages received

ASSUME StatsAssumption ==
  /\ Window \in Nat /\ Delay \in Nat /\ MaxTime \in Nat /\ MaxCalls \in Nat
  /\ NoId \notin RouterId /\ Requests \notin RouterId

List == RouterId \cup {Requests}

VARIABLES
  now,      \* the clock
  stamps,   \* the array behind a list
  start,    \* where the list starts in it
  total,    \* IncomingTotal + OutgoingTotal of a router
  pc,       \* "idle"; "request", "rpc", "rate" or "rank": has the time
  stamp,    \* the time a goroutine has taken
  ends,     \* <<FromRouteId, ToRouteId>> of the RPC request it handles
  calls,    \* messages received
  pruned,   \* the time for which a list was pruned last
  ranking   \* what RouterRPCStats returns, in the step that returns it

statsVars == <<now, stamps, start, total, pc, stamp, ends, calls, pruned,
               ranking>>

Init ==
  /\ now = 0
  /\ stamps = [l \in List |-> <<>>]
  /\ start = [l \in List |-> 1]
  /\ total = [r \in RouterId |-> 0]
  /\ pc = [h \in Handler |-> "idle"]
  /\ stamp = [h \in Handler |-> 0]
  /\ ends = [h \in Handler |-> <<NoId, NoId>>]
  /\ calls = 0
  /\ pruned = [l \in List |-> 0]
  /\ ranking = <<>>

-----------------------------------------------------------------------------
(* pruneLastMinute.                                                        *)

\* Variant: the list is cut behind its last expired entry.
FirstFresh_Last(array, from, cutoff) ==
  Max({from} \cup {i + 1 : i \in {j \in from..Len(array) : array[j] < cutoff}})

\* Variant: the pruned list is not stored.
FirstFresh_Dropped(array, from, cutoff) == from

\* The first index from where the list starts that is not expired.
FirstFresh(array, from, cutoff) ==
  CHOOSE i \in from..(Len(array) + 1) :
    /\ i <= Len(array) => array[i] >= cutoff
    /\ \A j \in from..(i - 1) : array[j] < cutoff

Prune(lists, array, t) ==
  /\ start' = [l \in List |->
                 IF l \in lists THEN FirstFresh(array[l], start[l], t - Window)
                                ELSE start[l]]
  /\ pruned' = [l \in List |-> IF l \in lists THEN t ELSE pruned[l]]

Take(h, p) ==
  /\ pc' = [pc EXCEPT ![h] = p]
  /\ stamp' = [stamp EXCEPT ![h] = now]

Done(h) ==
  /\ pc' = [pc EXCEPT ![h] = "idle"]
  /\ stamp' = [stamp EXCEPT ![h] = 0]
  /\ ends' = [ends EXCEPT ![h] = <<NoId, NoId>>]

Silent == ranking' = <<>>

-----------------------------------------------------------------------------
(* A message: recordRequestHit, and recordRouterRPC for an RPC request.    *)

BeginRequest(h) ==
  /\ pc[h] = "idle" /\ calls < MaxCalls
  /\ calls' = calls + 1
  /\ Take(h, "request") /\ Silent
  /\ UNCHANGED <<now, stamps, start, total, ends, pruned>>

Hit(array, lists, t) ==
  [l \in List |-> IF l \in lists THEN Append(array[l], t) ELSE array[l]]

\* The second time is taken after the first lock is released.
recordRequestHit(h) ==
  LET t == stamp[h] IN
  /\ pc[h] = "request"
  /\ stamps' = Hit(stamps, {Requests}, t)
  /\ Prune({Requests}, stamps', t)
  /\ \/ Done(h)
     \/ /\ Take(h, "rpc")
        /\ \E from, to \in RouterId \cup {NoId} :
             ends' = [ends EXCEPT ![h] = <<from, to>>]
  /\ Silent
  /\ UNCHANGED <<now, total, calls>>

\* Both ends in one critical section; a router that calls itself is hit
\* twice.
recordRouterRPC(h) ==
  LET t    == stamp[h]
      from == {ends[h][1]} \ {NoId}
      to   == {ends[h][2]} \ {NoId}
  IN
  /\ pc[h] = "rpc"
  /\ stamps' = Hit(Hit(stamps, from, t), to, t)
  /\ Prune(from \cup to, stamps', t)
  /\ total' = [r \in RouterId |-> total[r] + (IF r \in from THEN 1 ELSE 0)
                                           + (IF r \in to THEN 1 ELSE 0)]
  /\ Done(h) /\ Silent
  /\ UNCHANGED <<now, calls>>

-----------------------------------------------------------------------------
(* The questions.                                                          *)

AskRate(h) ==
  /\ pc[h] = "idle"
  /\ Take(h, "rate") /\ Silent
  /\ UNCHANGED <<now, stamps, start, total, ends, calls, pruned>>

RequestsPerMinute(h) ==
  /\ pc[h] = "rate"
  /\ Prune({Requests}, stamps, stamp[h])
  /\ Done(h) /\ Silent
  /\ UNCHANGED <<now, stamps, total, calls>>

AskRanking(h) ==
  /\ pc[h] = "idle"
  /\ Take(h, "rank") /\ Silent
  /\ UNCHANGED <<now, stamps, start, total, ends, calls, pruned>>

\* The order of sort.Slice: by the last minute, then by the total; RouterID
\* decides between equals.
Busier(a, b) ==
  \/ a.perMinute > b.perMinute
  \/ a.perMinute = b.perMinute /\ a.total > b.total

\* list is in order, has no snapshot twice and leaves out none that is busier
\* than one it has.
Ranks(list, snapshots) ==
  /\ \A i, j \in DOMAIN list :
       i < j => list[i] # list[j] /\ ~Busier(list[j], list[i])
  /\ \A s \in snapshots :
       \/ \E i \in DOMAIN list : list[i] = s
       \/ \A i \in DOMAIN list : ~Busier(s, list[i])

\* Variant: the length is taken before the list is pruned.
Snapshot_Unpruned(r, first) ==
  [router |-> r, total |-> total[r],
   perMinute |-> Len(stamps[r]) + 1 - start[r]]

\* The numbers of a router whose pruned list starts at first.
Snapshot(r, first) ==
  [router |-> r, total |-> total[r],
   perMinute |-> Len(stamps[r]) + 1 - first]

\* A router has an item once it was an end of a call; keyword picks some of
\* them, the others are not pruned.
RouterRPCStats(h) ==
  /\ pc[h] = "rank"
  /\ \E matching \in SUBSET {r \in RouterId : total[r] > 0},
        limit \in 1..Cardinality(RouterId) :
       LET n == IF limit < Cardinality(matching) THEN limit
                                                 ELSE Cardinality(matching)
           snapshots == {Snapshot(r, start'[r]) : r \in matching}
       IN
       /\ Prune(matching, stamps, stamp[h])
       /\ \E list \in [1..n -> snapshots] :
            Ranks(list, snapshots) /\ ranking' = list
  /\ Done(h)
  /\ UNCHANGED <<now, stamps, total, calls>>

-----------------------------------------------------------------------------
\* Time passes; no goroutine waits longer than Delay for its lock.
Tick ==
  /\ now < MaxTime
  /\ \A h \in Handler : pc[h] # "idle" => now + 1 - stamp[h] <= Delay
  /\ now' = now + 1
  /\ Silent
  /\ UNCHANGED <<stamps, start, total, pc, stamp, ends, calls, pruned>>

Next ==
  \/ Tick
  \/ \E h \in Handler :
       \/ BeginRequest(h) \/ recordRequestHit(h) \/ recordRouterRPC(h)
       \/ AskRate(h) \/ RequestsPerMinute(h)
       \/ AskRanking(h) \/ RouterRPCStats(h)

Spec == Init /\ [][Next]_statsVars

-----------------------------------------------------------------------------
(* Properties.                                                             *)

\* The clock, the lists and the goroutines' times.
TypeOK ==
  /\ now \in Nat
  /\ stamps \in [List -> Seq(Nat)]
  /\ start \in [List -> Nat \ {0}]
  /\ \A l \in List : start[l] <= Len(stamps[l]) + 1
  /\ total \in [RouterId -> Nat]
  /\ pc \in [Handler -> {"idle", "request", "rpc", "rate", "rank"}]
  /\ stamp \in [Handler -> Nat]
  /\ ends \in [Handler -> (RouterId \cup {NoId}) \X (RouterId \cup {NoId})]
  /\ calls \in Nat
  /\ pruned \in [List -> Nat]

\* Everything recorded in the last minute is counted, in whatever order the
\* goroutines got the lock and however late: what pruning has cut off is
\* older than a minute.
NothingRecentIsLost ==
  \A l \in List : \A i \in 1..(start[l] - 1) : stamps[l][i] < now - Window

\* Pruning stops at the first entry that is not expired, and an expired one
\* behind it stays; but it is late by no more than a goroutine can have
\* waited for the lock.  So whoever has just pruned and reads the length
\* counts nothing older than a minute and that.
NothingOldIsCounted ==
  \A l \in List : \A i \in start[l]..Len(stamps[l]) :
    stamps[l][i] >= pruned[l] - Window - Delay

\* The calls of router r that are recorded as made since t.
Since(r, t) == Cardinality({i \in 1..Len(stamps[r]) : stamps[r][i] >= t})

\* A ranking is about the calls of the last minute, although it is computed
\* from lists that other routers' questions have left unpruned: whoever
\* asks, each router in it is credited with all its recent calls, and with
\* none older than a minute and a delay.
RankingIsCurrent ==
  [][\A h \in Handler :
       pc[h] = "rank" /\ pc'[h] = "idle" =>
         \A i \in DOMAIN ranking' :
           LET s == ranking'[i] IN
           /\ s.perMinute >= Since(s.router, now - Window)
           /\ s.perMinute <= Since(s.router, stamp[h] - Window - Delay)
           /\ s.perMinute <= s.total]_statsVars

=============================================================================
