# virtual-router-go in TLA+

A Router Center accepts TCP connections from clients, keeps a map from route id
to connection, answers heartbeats with the list of registered nodes and forwards
messages between clients. A client keeps one connection to the center alive,
merges the lists into its route table and makes RPC calls, relayed by the center
or over direct connections to other clients. An HTTP monitor shows statistics,
changes the password and makes debug calls. This directory models the parts of
that system in which goroutines, connections, files, clocks and lost messages
meet; it says what holds, what was proved, and where the code does not do what
its own comments, logs or tests say.

Paths below are relative to `src/internal/`: *server* is
`VirtualRouterServer/`, *client* is `VirtualRouterClient/`.

## 1. Inventory

| Component | State | Operations | Hard part | Correct when |
|---|---|---|---|---|
| Router Center sessions (server/server.go, session.go, session_manager.go) | the listener, the `sessions` map, `lastHeartbeat` and the write lock of a session, `routeId` of every `handleConn` | accept, read, heartbeat (`UpsertSession`, `GetAllRouteNodeList`, write), refuse, forward, `RemoveSessions`, `checkHeartbeat`, `Shutdown` | removal is by id and by whoever asks; locks are released between lookup, write and notice; a dead connection can be put back | no session outlives its handler, an answered client is reachable, nothing is delivered to the wrong client, dead sessions go away |
| Route table distribution (server/session_manager.go, client/route_table.go, client.go) | the list being written, the table of each client | list with each heartbeat, removal notice | lists and notices are written outside the critical section they describe | tables converge to the registered ids |
| Client connection (client/client.go) | `needConnect`, `isOpen`, `reconnectAttempt`, `stopCh`, `conn`, the sockets, one heartbeat and one read loop per connection | `Start`, `tryConnect`, `startHeartbeat`, `readLoop`, `Send`, `onConnectionLost`, `startBackgroundReconnect`, `Shutdown` | `conn` is read without the lock, loops outlive their connection, the flags are set one by one | no leaked socket, an open connection is watched, it always reconnects, `Shutdown` ends everything |
| Relay RPC (rpc/relay_client.go, relay_handlers.go, future.go) | the futures, the frames in both directions | `Call` with one retry, request and response handlers | stubs run inside the read loop; requests and responses are lost without a word; a read loop may outlive its connection | at most one execution, real results, no late execution of a failed call, every call returns |
| Direct RPC and route table (client/route_table.go, rpc/direct_client.go, stub_server.go) | node map, map of `DirectClient`s, their sockets and goroutines, the futures | `UpsertRouteNode`, `RemoveRouteNode`, `GetOrCreateRpcClient`, `Start`, `SendRpcMessage`, `GetOrCreateProxy` | the table changes under a call; the send comes before the registration | a client handed out is for the current address, calls with a timeout return |
| Statistics (server/server.go) | lists of timestamps per id, totals | `recordRequestHit`, `recordRouterRPC`, `pruneLastMinute`, `requestsPerMinute`, `RouterRPCStats` | timestamps are taken before the lock, so that a list is not sorted; pruning stops at the first fresh entry | a count misses nothing recent and keeps nothing old |
| Debug RPC (server/server.go, http_server.go, rpc/stub_manager.go) | answers by request id, the goroutines that delete them, the stub list of a session | offer, send, answer, poll, delete | a goroutine deletes by id, and ids are milliseconds | an answer is kept for its time and deleted afterwards |
| Monitor login (server/http_server.go, jwt.go, pages app.js and login.html) | no state in the server; a token in localStorage, one in the cookie, one in every tab | login, validate, refresh, logout, `withAuth` | tabs share storage but not the token they hold; a page awaits answers with a token it has read before; tokens expire meanwhile | only the password signs in a browser that has no valid token |
| Settings and configuration file (server/http_server.go, config/config.go) | the password in memory and in the file | generate, load, repair, `handleUpdateAdminPassword` | several steps, several handlers at once, a file that is truncated and then written, a stop between any two | the process runs with a password somebody chose, or a built-in one of a file no update has written; what was reported as written lasts |
| Log capture and rotation (server/log_capture.go) | numbered files, ring of lines | write, rotate | a crash or failure between two renames | no recent log is overwritten |
| Wire codecs (core/framing.go, route_message.go, rpc/stub_server.go) | the bytes between two ends | encode, write, read a length, read a body, decode | TCP cuts frames anywhere, one of the readers reads a length with a single `Read` | frames arrive whole and are understood |
| Stub manager, typed registration (rpc/stub_manager.go, orm.go) | a locked map | register, reset, list, invoke | reflection | the stubs announced are there |
| IP resolver, start-up log, assets, public wrappers, commands, deployment | - | I/O and delegation | - | - |

Interactions: a client's read loop calls the RPC handlers and the route table;
`RelayClient.Call` goes through `Client.Send`; the center's handlers share only
the session manager; the checker and every ending handler call `RemoveSessions`
and write notices into the connections of the sessions that are left. Connection
handlers record the hits that HTTP handlers count; a debug call goes to a session
whose stub list has the stub; login, the settings and debug calls
share the process, which loses all but the file when it stops.

The hazards, line by line, with the properties that would catch them, are in
`PROJECT.json`.

## 2. Modules

| Module | Models | State, in the code's terms |
|---|---|---|
| `RouterCenter` | the center | `sessions[r]` is the map, a session is its connection; `stale[r]`: older than `sessionTimeout`; `pc`, `routeId`, `dest`, `target` are the position and the locals of `handleConn`; `checker`, `offline` those of `heartbeatLoop`; `link` is the socket as the handler will find it |
| `Registry` | what the center promises, in four actions and no goroutines | `holder[i]`: who holds an id; `told`: who was told that it does; `closed`: on whom the registry has hung up |
| `MCRouterCenter` | `RouterCenter` for TLC: symmetry and the constraint | |
| `RouterCenter_proofs` | theorems about it and about `RouteSync` | |
| `RouteSync` (extends `RouterCenter`) | lists, notices and tables | `snapshot[c]`: the list between `GetAllRouteNodeList` and the write; `table[c]`: the route table of the client behind `c` once it has applied what was written |
| `RouterClient` | one client's connection | the three flags, `stopCh`, `c.conn`, the sockets, a `pc` per goroutine |
| `MCRouterClient` | `RouterClient` for TLC: when `Send` is called | |
| `RouterClient_proofs` | theorems about it | |
| `RelayRpc`, `MCRelayRpc` | relayed calls | `futures`, `done`, the frames `up` and `down`, `serving`: the stubs a client's read loops are running; `loops`, `between`: its read loops in `ReadFrame`, and those about to evaluate `c.conn` again; `crashed` |
| `Rpc` | what a relayed call promises, apart from clients, frames and connections | `status[c]`: what the caller has been told; `ran[c]`: how often the stub ran |
| `RelayRpc_proofs` | theorems about it | |
| `DirectRpc` | the caller of direct RPC | `node`, `current`: the two maps of the table for one target; per `DirectClient` its address, `c.conn` and `Start`; `futures` is `WaitResultManager` |
| `DirectRpc_proofs` | theorems about it | |
| `LogRotate` | the log files and their rotation | per slot (0 is the current file) whether its file exists, the records it holds in full and its length; `w.file`, `w.currentLen`, the loop of `rotate`; `faults` remembers what has gone wrong |
| `LogRotate_proofs` | theorems about it | |
| `Wire`, `MCWire` | the payload of a `RouteMessage`, its frame, the frame of direct RPC, both readers | `stream`, `arrived`, `eof`: the bytes on their way, those that the host has received, the end of the connection; `need`: the length a reader has read; `got`: the payloads it has returned |
| `Wire_proofs` | theorems about it | |
| `RpcStats`, `MCRpcStats` | the statistics of the last minute | `stamps[l]`, `start[l]`: the array behind a slice and where the slice begins; `stamp[h]`: the time a goroutine took before it waits for the lock; `ranking`: what `RouterRPCStats` returns |
| `RpcStats_proofs` | theorems about them | |
| `AdminToken` | tokens, and the pages that use them | `held[t]`, `answer[t]`, `stored`, `cookie`: the token a tab sends, the one in the answer it is about to get, localStorage, the cookie; `page[t]`: what a tab shows and which fetch it waits for |
| `AdminConfig` | the password in memory and in the file; extends `AdminToken` for `withAuth` | `memory`, `file` (its text and its length), `new[q]`, `bytes[q]`: the locals of a handler; `chosen`, `builtin`: the passwords somebody gave and the built-in one of the file; `promise`: what an update that ran alone has reported |
| `DebugRpc` | debug calls, extends `AdminToken` for `withAuth` and the clock | the answer kept under an id, the goroutines that will delete it; `offered`: there is a session that lists the stub |
| `Monitor`, `MCMonitor` | the three together, in one process with one clock | |
| `Monitor_proofs` | theorems about it | |

One action is one critical section, one blocking call or one access to a shared
field; whatever a goroutine does between two of them is part of the action, and
the position in between is a value of `pc`. `RemoveSessions`, for instance, is
two actions wherever it is called (delete and close under the write lock;
notices under the read lock), because another goroutine can run between the two.
Definitions whose comment begins with *Variant* are the same operation with a
plausible mistake in it; no specification uses them. They are what the
properties are tried against: each property fails when one of them takes the
place of the operation it stands before.

Abstractions:

- A connection is never reused, so its identity stands for the remote address
  that `UpsertSession` compares. A peer puts one fixed route id on all that it
  sends, as the client library does.
- Writes do not block in `RouterCenter`, and their errors are dropped where the
  code drops them. A peer that stops reading while the kernel's buffers fill is
  therefore outside the model (a hazard without a property).
- Frames that arrived before the peer's close are read before the event that
  models the close.
- In `RouterClient` an unsynchronised read of `c.conn` gets the old value or the
  new one; a torn interface value is not modelled. The delay of
  `nextReconnectDelay` is a step that takes place at some time.
- A stub's result, success or error, does not influence the control of a call
  and is left out; timeouts may fire whenever the code waits.
- In `RelayRpc` the center is one step that forwards or drops (what it does in
  detail is `RouterCenter`), and a lost connection may lose any suffix of what
  was sent and all that was not yet read.
- `DirectRpc` has calls with a timeout that is not positive (`Untimed`), whose
  `Await` has no timer, beside those with one. It has one target: the maps are independent per route id.
- In `Wire` an integer is two digits of base 6 where the code has four bytes of
  256 values. `EncodePayload` and `DecodeRouteMessagePayload` are computed on
  these, with the sign of a length and the optional fields; a field that may be
  nil is a set of at most one value. The theorems hold for any base and width.
  `PayloadAssumption` says that a payload is shorter than the largest length: the
  code converts `len` to 32 bits without a look at it, and no string of a message
  comes near 2 GiB.
- `RpcStats` counts time in units of which `Window` make a minute, and bounds by
  `Delay` how long a goroutine waits between `time.Now` and its lock. The theorems
  hold for any `Window` and `Delay`.
- A token is its expiry time: the secret is a constant of the program and the
  claims have nothing else that anybody tests. A fetch is sent with a token the
  page has read before, is answered by the process at some time, and its answer
  takes effect later, in two steps where it sets a cookie: the browser stores the
  cookie when the head of the answer arrives, the script goes on after that.
  Between any two of these, other tabs, other fetches and the clock move. A fetch
  may fail at any time, so that a refusal is no step of its own. When the
  password is given on the login page, what that page still awaits from
  `restoreIfLoggedIn` is dropped. The fields `shouldRefresh` and
  `remainingSeconds` that validate returns are used by no page and are left out.
- The configuration file is one text of a known length or torn; of its fields
  only the password varies. In memory it is read and written as a whole: handlers
  share it without a lock, so that the two words of the string can be torn, which
  is left out.
- In `DebugRpc` one node answers, and an id is a second of the clock where the
  code has a millisecond: two calls may have the same.

## 3. What is checked

The type invariants of `RouterClient`, `RelayRpc`, `DirectRpc`, `LogRotate` and
`RpcStats` are theorems (section 4) and are not checked again by the runs.

Expected to pass:

| Run | Instance | Shows |
|---|---|---|
| `center_safety` | 3 connections, 2 ids, symmetric | `NoOrphanSession`, `AckedIsReachable`, `NoMisdelivery`, `NoTakeover`, with the bookkeeping `HandlersInStep` and `TypeOK`; `ImplementsRegistry`: the center refines `Registry` |
| `sync_liveness` | 2 connections, 2 ids | `TablesCatchUp`: a connected client comes to list every id that stays registered, although an old removal notice may be written after the new list; `DeadSessionsGoAway`: also a dead connection that a late heartbeat registered again leaves the map |
| `client` | 2 successful dials, `Send` from the first reconnect or `Shutdown` on | `NoLeakedSocket`, `OpenIsWatched`, `OneReconnecter`; `DeadIsNoticed`, `ShutdownStopsHeartbeats` |
| `relay` | 2 clients, 3 calls (one from a to b, one its stub makes back to a, and a local one the stub of that makes), 3 lost connections | `AtMostOnce`, `ResultIsReal`; `ImplementsRpc`: what callers are told is what `Rpc` allows, so that a call that failed has not been run and never will be; `EveryCallReturns`: whatever is lost and however calls wait for each other, unless the process of the caller has panicked |
| `direct` | 2 addresses, 2 `DirectClient`s, 2 calls, one of them without a timeout, 3 changes of the table | `ClientIsForNode`; `EveryCallReturns` for the calls with a timeout |
| `log_rotate` | 4 files of 2 bytes, 5 records of 1 to 3 bytes | `InOrder`, `NoHoles`, `NewestIsKept`, `SizeIsBounded`, with every system call failing at will and the process stopping anywhere |
| `wire` | 2 frames; route messages with and without type and data, RPC payloads of 0 to 9 bytes, cut into chunks and ended anywhere | `FramesArriveWhole`, `MessagesAreUnderstood`, `EverythingIsRead` for the reader of the center; `OnlyLongFramesAreMisread` for `readRpcFrame`, which reads the length with one `Read`: a part of it taken for the whole ends the connection, unless a payload has 256 bytes or more |
| `stats` | 2 routers, 2 goroutines, a minute of 1 unit and a delay of 1, 2 messages | `NothingRecentIsLost`, `NothingOldIsCounted`, `RankingIsCurrent`, for goroutines that take the time, wait and append or prune in any order |
| `monitor` | 2 tabs, 2 overlapping updates out of 3, 2 stops, 2 debug calls | `OnlyPasswordSignsIn`, `RunsWithChosenPassword`, `PromiseIsKept`, `AnswersAreKept`, `AnswersAreDeleted`, with `TypeOK` |

Expected to be violated, one statement of the repository each:

| Run | Property | What the counterexample shows |
|---|---|---|
| `center_incumbent` | `IncumbentKept` | A refused duplicate ends; `handleConn` removes the session by id (server.go:122) and so disconnects the healthy client that the refusal (session_manager.go:76) protected. |
| `client_crash` | `NoCrash` | `readLoop` or `sendHeartbeat` uses `c.conn` after another goroutine's `onConnectionLost` set it to nil. |
| `wire_prefix` | `ExtraPrefixIsSkipped` | A message with an extra length in front, which the comments of `DecodeRouteMessagePayload` (route_message.go:78 and 84) say is skipped, is refused: the check compares the length with the bytes left less another four. |

Two more disagreements with what the repository says can be seen in the states of
the models; no run is about them:

- If the new connection is lost before the reconnecter has cleared
  `reconnectAttempt`, the CompareAndSwap (client.go:252) fails, and when no other
  loss is left to report nobody reconnects (`RouterClient`: `LostSpawn` before
  `ReconnectClear`). The log of client.go:237 says that the process stays alive
  and keeps reconnecting ("保持进程存活并继续重连"), and
  client_reconnect_test.go:134 that the client connects again by itself.
- After a password update the page says that one has to log in again
  (app.js:856, "密码已更新，请重新登录"), but only the token in localStorage is
  removed: the login page resumes the session by the cookie, without a password
  (`AdminToken`: `Updated`, `OpenTab`, `RestoreIfLoggedIn`, `Refresh`). The same
  holds of every other tab, whose tokens stay valid.

These contradict no statement of the repository that we know of:

- A list taken before a removal and written after its notice leaves the id in a
  live client's table (`RouteSync`).
- A direct response that arrives before `GetOrCreateProxy` has registered the
  future is thrown away, and the call ends by its timeout; a call whose timeout
  is not positive then waits for ever (`DirectRpc`). A `DirectClient` that failed
  to connect or was disconnected stays in the table, and calls on it fail.
- A read loop that was running a stub while its connection was replaced reads the
  new connection beside the new loop, and frames are lost between the two; if
  there is no new connection yet it panics (`RelayRpc`: `Resume`, `Garble`).
- A stub that makes a relayed call waits for a response that its own read loop
  would have to read: the call ends by its timeout unless a reconnect brings
  another loop (`RelayRpc`).

Bounds. Three connections are the fewest with which one that holds an id, one
that is refused and a third that registers after an eviction are there at once;
two ids separate "my id" from "the id I send to". `center_safety` does not
explore what follows `Shutdown` (`BeforeShutdown`): `accepting` guards `Accept`
and nothing else, so what can happen afterwards also happens without it. Its
constraint `Bounds` also keeps one peer at a time behind a silent network
(`SilentBound`) and two handlers at a time busy with a message (`BusyBound`), one
of them forwarding it (`ForwardBound`), while the third reads, removes its
session or notifies and the checker takes its steps: a forward only reads the
session map, so that two of them do not affect each other.
`RouteSync` needs a client that listens and one that comes and goes; the second
id is what the two tell each other. `MaxDial = 2` gives an old and a new
connection with the loops of both; the counterexample of `client_crash` needs no
more. In `client` the constraint `SendsLate` lets the application call `Send` from
the end of the first heartbeat loop on, or once `Shutdown` has begun: with calls at
any time there are ten times the states, and before that a report by `Send` is one
more report like those of the two loops. Since nobody has to call `Send`, fair
behaviours stay fair. The three safety properties are theorems for any number of
dials and any calls of `Send`. In `RelayRpc`
three lost connections let each client lose one and one of them a second, before,
during and after each step of a call, which is what it takes for two read loops on
one connection and for a panic afterwards; in `DirectRpc` three changes allow to appear, move and leave, or
to appear, leave and come back elsewhere. In `LogRotate` five records
fill four files and push a fifth out, the sizes fit, fill and exceed a file, and
four slots are the fewest in which the loop of `rotate` has two rounds, so that
a stop between them leaves a gap. In `Wire` integers go up to 35 and the limits
are 12 and 8 bytes, so that payloads lie below, at and above both limits and on
both sides of the base, where a part of a length stops being zero; two frames
show what the first does to the second. In `RpcStats` the clock covers a stamp
that waits, the one that overtakes it and the moment both expire. `MCMonitor`
lets the parts meet where they share something (the token, the clock, the
process) and, by the constraint `FewRequests`, keeps apart what does not: debug
calls happen before the first update, both with one tab, and two tabs are
explored without either. The `CHECK_DEADLOCK FALSE` runs are
the ones whose bounds on dials, calls and changes let everything come to rest.

Fairness. Go schedules every runnable goroutine and its timers fire: weak
fairness of each goroutine's steps. Beyond that:

- `SF(ReadHeartbeat(c))` in the center: a live peer sends a heartbeat every few
  seconds whatever else it sends, and the handler, which is back in its read
  loop again and again, reads it. Weak fairness would not do because the handler
  is busy with other messages in between.
- `WF(Expire(r))` is assumed only for a session whose peer is not up: time
  passes and nothing refreshes it. A live peer may be expired, or not.
- `SF` of the `stopCh` branch of the client's two `select`s: each time round
  finds the channel closed, and `select` picks among ready cases at random.
- `WF(Arrive)` and `WF(Read)` in `Wire`: what was written arrives unless the
  connection ends, and the goroutine that reads is scheduled. No frame has to be
  written and no connection has to end.
- Nobody has to connect, to call, to send, to shut down or to lose a connection,
  and no dial has to succeed.

## 4. What is proved

`RouterCenter_proofs`, for any sets `Conn` and `RouteId`, assuming only that
`NoConn` is no connection and `NoId` no id:

- `TypeCorrect`, `NoOrphans`, `AckedStaysReachable`, `Delivery`,
  `HandlersStayInStep`: `Spec => []` of `TypeOK`, `NoOrphanSession`,
  `AckedIsReachable`, `NoMisdelivery`, `HandlersInStep`.
- `IdsAreNotTakenOver`: `Spec => NoTakeover`.
- `CenterIsRegistry`: `Spec => ImplementsRegistry`. The mapping takes `sessions`
  for `holder`, the connections that were answered for `told` and those the
  center has closed for `closed`. An insert is a `Join`, a written answer a
  `Tell`, a removal or a refusal a `Leave`, and all else a stutter. That the one
  who is told still holds its id needs the invariant: the answer is written
  outside the lock under which the id was given.

The inductive invariant is `IInv`, the conjunction of `TypeOK`,
`NoOrphanSession`, `AckedIsReachable`, `NoMisdelivery` and `HandlersInStep`.
None of the three safety properties is inductive alone. An answer is written two
critical sections after the insert it reports, so `AckedIsReachable` needs to
know that a handler between the two still holds its id or that its socket has
been closed: the last conjunct of `HandlersInStep`. `UpsertSession` stores under
a local that the read loop set, so `NoOrphanSession` needs `routeId[c]` to be
the owner's id whenever the handler is past the read. `NoMisdelivery` survives
the unlock because a connection never changes its owner, which needs to be known
of the target (it has been accepted). `StepTypeOK` and `StepIInv` take one step
per action; `Invariance` puts them together. TLC checks every conjunct of
`IInv` in `center_safety`.

The same module proves two theorems about `RouteSync`, whose initial state and
steps conjoin lists and tables to those of `RouterCenter`. `SyncIsCenter`:
`SyncSpec => Spec /\ ImplementsRegistry`, one step of the composition being one
of the center or none (`StepIsCenterStep`), so that every theorem above holds of
the composition as well; `sync_liveness` therefore need not check them again.
`SyncTypeCorrect`: `SyncSpec => []SyncTypeOK`, from the lemma `StepCarried` on
what a step puts into lists and tables.

`RouterClient_proofs`, for any number of dials: `TypeCorrect`,
`ReconnecterIsUnique`, `SocketsAreClosed`, `OpenConnectionIsWatched`, that is
`Spec => []` of `TypeOK`, `OneReconnecter`, `NoLeakedSocket`, `OpenIsWatched`.
What makes them inductive is who may dial when. Until `Start` has set `isOpen`
no other goroutine runs (`EarlyInv`); from then on only the reconnecter dials,
and `OneReconnecter` says there is one. So at most one goroutine is between its
dial and its assignment, the connection it has made is the youngest, and
`c.conn` is nil just before the assignment whoever reports a loss meanwhile
(`DialInv`); without that the assignment would overwrite a socket nobody closes.
`MoveKeeps` and `WatchKept` deal once with all steps that only move a goroutine,
`CloseKeeps` and `FlagKeeps` with the two kinds of step that a loss report and
`Shutdown` share, and `StepIInv` goes through the actions.

`RelayRpc_proofs`, for any clients, calls and number of lost connections:
`TypeCorrect`, `StubRunsAtMostOnce`, `ResultsAreReal`, that is `Spec => []` of
`TypeOK`, `AtMostOnce`, `ResultIsReal`, and `CallsKeepTheirPromise`,
`Spec => ImplementsRpc`. The invariant says where the request of
a call can be: not sent yet, exactly once among the frames of its caller, or
exactly once among those of its target, or run (`RequestInv`, `OneRequest`).
That a failed `Send` has put nothing on the wire is what the retry needs. A
response, a completed future and a result exist only for a call that was run
(`ResponseInv`, `CallInv`). For the refinement, `pc` is mapped to what the caller
has been told and `ran` to itself; a request that is run belongs to a call that
waits or has timed out, never to one that failed, by `RequestInv`. Crashes and
surplus read loops lose frames, which `Rpc` does not see.

`RpcStats_proofs`, for any routers, goroutines, window and delay: `TypeCorrect`,
`RecentIsCounted`, `OldIsDropped`, that is `Spec => []` of `TypeOK`,
`NothingRecentIsLost`, `NothingOldIsCounted`, and `RankingCountsTheMinute`,
`Spec => RankingIsCurrent`. The lists are not sorted, but
nearly: an entry is at most `Delay` older than any before it, because a time is
at most `Delay` old when it is appended (`Timely`). That `FirstFresh`, a
`CHOOSE`, finds an index rests on the least element of a set of naturals. The
ranking is a property of a step: what it counts is the length of a slice, and
what it has to count is the number of the entries that are recent enough.
`CountsCompare` relates the two by the sets of indices they count; that no count
exceeds the total is the invariant `Totals`, that every message adds one to both.

`Monitor_proofs`, for any tabs, requests, calls, passwords and times:
`TypeCorrect`, `PasswordIsChosen`, `WrittenIsKept`, `AnswersLast`, `AnswersGo`
for the invariants `TypeOK`, `RunsWithChosenPassword`, `PromiseIsKept`,
`AnswersAreKept`, `AnswersAreDeleted`, and `RefreshNeedsToken` for the action
property `OnlyPasswordSignsIn`. The invariant has one part per component.
`ConfigInv` says which password each step of a handler has in hand, that all of
them were chosen, that a file which loads has one that was chosen or the built-in
one that goes with it, and that while a handler
has run alone since it began, memory and its marshalled bytes hold its password;
a promise stands only while every handler is idle. `DebugInv` ties every stored
answer to a goroutine that is due to delete it. `OnlyPasswordSignsIn` is a
property of a step and needs of the tokens only their types. `NoKey` is
`SignedOut` without its set of tokens: whatever is in localStorage, in the cookie,
in the hands of a page that starts or on its way to one has expired. `TabStep`
goes through the steps of server and pages, each of which copies one of these
tokens, drops one or, in `Refresh`, needs one that is valid.

`DirectRpc_proofs`, for any addresses, calls and bounds: `TableIsCurrent`,
`Spec => []ClientIsForNode`, with `IInv == TypeOK /\ ClientIsForNode`: lookup of
the node and insert of the client are one critical section, and every change of
the node empties the entry.

`LogRotate_proofs`, for any number and length of files and records:
`FilesAreInOrder`, `OnlyTheOldestIsLost`, `LastRecordSurvives` and
`FilesAreBounded`, that is `Spec => []` of `InOrder`, `NoHoles`, `NewestIsKept`
and `SizeIsBounded`, assuming what
`newRotatingFileWriter` enforces (at least two files, a positive length).
`NoHoles` depends on which slots the loop of `rotate` has freed while it is
running (`Loop`): a rename never runs over a file other than the oldest.
`NewestIsKept` depends on `rotate` starting only with records in the current
file, which follows from the length the writer remembers (`Lengths`) and the
test before the write. `Records` says that a record being written is newer than
all others. `Sizes` says that, while no rename has failed, a record about to be
appended fits the current file or starts one, there is no current file when
`rotate` opens the new one, and a file above the limit holds one record at most.
One lemma says what each kind of step does to the records
(`SameRecords`, `RemoveRecords`, `MoveRecords`, `AppendRecords`), and `StepIInv`
goes through the actions.

`Wire_proofs`, for any base and width of an integer, any limits, messages and
payloads: `TypeCorrect`, `FramesAreWhole`, `ShortLengthsAreRefused`,
`DecodeInvertsEncode`, that is `Spec => []` of `TypeOK`, `FramesArriveWhole`,
`OnlyLongFramesAreMisread`, `MessagesAreUnderstood`. There are three layers.

- Integers. `Power`, `Shifted` and `Value` are recursive functions over
  `0..Width`. The library's induction theorems take an operator as a parameter,
  which no prover here instantiates, so induction is derived for sets instead
  (`SetInduction`, from the well-foundedness of the naturals) and with it that
  the recursive definitions define functions (`RecursionExists`). `RoundTrip` is
  the result: after k digits `Value` has what is left of the number after all
  but k of the shifts. `LeadingZeros` is why a part of a small length reads as
  zero.
- Frames. The invariant `Framing` says that there are positions, each the one
  before plus the length of a frame, such that the bytes in the stream are those
  of the frames from where the reader is, up to where the connection ended. It
  holds as long as `Sane` does: the reader is the center's, or no payload has
  `Base` bytes or more. `NextFrame` reads off that between two frames the bytes
  at hand begin the next one; `ConsumeRemaining` moves the reader.
- Messages. `ReadInt`, `ReadString` and `ReadString32` say what one read of a
  payload leaves; `DecodeMessage` follows the decoder field by field.
  `PrefixIsKept`: what follows the sender's id is longer than four bytes, so the
  check for an extra length never takes the length of the id for one.
  `DecodePrefixed`: with an extra length the whole payload becomes the id and
  the next read fails.

What TLC checks of these on small integers, the theorems say of four bytes of
256 values.

Only model-checked: the liveness properties (`TablesCatchUp`,
`DeadSessionsGoAway`, `DeadIsNoticed`, `ShutdownStopsHeartbeats`, the two
`EveryCallReturns`, `EverythingIsRead`), since fairness and `ENABLED` are beyond
the prover. Every invariant and every action property that a passing run checks
is also a theorem.

## 5. What is not modelled

- Writes that block. A peer that stops reading while the kernel's buffers fill
  blocks whoever writes to it, in `RemoveSessions` under the read lock. It is
  listed as a hazard without a property.
- The start and stop of the server as an object: `Shutdown` before `Start`, or
  twice at once; in the client `Start` after `Shutdown` and a second `Shutdown`.
- The values of the backoff in `nextReconnectDelay` (a wait takes some time) and
  `AwaitRpcRouterInfoFirstReady`.
- The address, the language and the stub list in a heartbeat: a refresh keeps the
  first ones, so that a stub registered while a client is connected is never
  offered (a hazard without a property).
- That `UpsertRouteNode` does not close the `DirectClient` it replaces, though it
  logs that it does (route_table.go:66), and that `Call` never removes the future
  of a call that timed out: both can be seen in the states of `DirectRpc` and
  `RelayRpc`; no property is about them.
- The ring of recent log lines in memory: an append and a cut under one lock.
- The locked map of stubs in `stub_manager.go`, the list of them in heartbeats, and
  the reflection in `orm.go`.
- HTTP handlers that only read and format, the configuration file of the client,
  the IP resolver and its cache, the start-up address log, static assets, the
  public wrappers and the commands, the deployment script: no shared state whose
  order matters, or pure I/O.

## 6. Plan

Done, in this order: `RouterCenter` with its proofs, `RouteSync`,
`RouterClient`, `RelayRpc`, `DirectRpc` with its proofs, `LogRotate` with its
proofs; then `Registry` and the refinement, `Wire`, `RpcStats` with its proofs,
`AdminToken`, `AdminConfig`, `DebugRpc` and `Monitor` with their proofs, and the
proofs of `RouterClient` and `RelayRpc`; then the proofs of `Wire` and of the
composition `RouteSync`, and those of the properties that count (`SizeIsBounded`,
`RankingIsCurrent`); then read loops that outlive their connection and `Rpc` with
the proof that `RelayRpc` implements it, calls without a timeout, and the fetches
of the pages answer by answer.

Next:

1. Bounded socket buffers in `RouterCenter`, and with them the writes under the
   read lock.
2. `Start` and `Shutdown` of server and client called more than once.
3. An abstract specification of a route table for `RouteSync`, with a safety
   property of what a table may list, and its proof.
4. The `DirectClient`s that the route table forgets without closing.
5. Runs for the two disagreements of section 3 that have none.
