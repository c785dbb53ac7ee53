--------------------------- MODULE Monitor_proofs ----------------------------
(***************************************************************************)
(* Proofs about the monitor, for any number of tabs, requests, calls and   *)
(* passwords, and any times.                                               *)
(*                                                                         *)
(* The invariant has a part for each component.  Tokens need no more than  *)
(* their types, since no step but Login makes a valid one without a valid  *)
(* one to start from, held or on its way.  A busy handler of a             *)
(* password update has one that somebody chose, and while one handler runs *)
(* alone, what it has done so far is what is in memory; a promise stands   *)
(* only while all handlers are idle.  An answer is deleted only when it is *)
(* due.                                                                    *)
(***************************************************************************)
EXTENDS Monitor, TLAPS

-----------------------------------------------------------------------------
(* Tokens.                                                                 *)

TokenInv == TokenTypeOK /\ clock <= MaxTime

\* Every token with which a page can be or is being started has expired.
NoKey ==
  /\ stored <= clock /\ cookie <= clock
  /\ \A t \in Tab : page[t] \in Starting => held[t] <= clock /\ answer[t] <= clock

\* NoKey is SignedOut without its set of tokens.
LEMMA Keys == TokenTypeOK => (SignedOut <=> NoKey)
<1> SUFFICES ASSUME TokenTypeOK PROVE SignedOut <=> NoKey
  OBVIOUS
<1> DEFINE T == {u \in Tab : page[u] \in Starting}
           K == UNION {{held[t], answer[t]} : t \in T}
<1>1. \A t \in T : held[t] \in K /\ answer[t] \in K
  OBVIOUS
<1>2. \A e \in K : \E t \in T : e = held[t] \/ e = answer[t]
  OBVIOUS
<1>3. Kept = {stored, cookie} \cup K
  BY DEF Kept
<1> HIDE DEF K
<1>4. ASSUME SignedOut PROVE NoKey
  <2>1. ~(clock < stored) /\ ~(clock < cookie)
    BY <1>3, <1>4 DEF SignedOut, ValidateToken
  <2>2. \A t \in T : ~(clock < held[t]) /\ ~(clock < answer[t])
    BY <1>1, <1>3, <1>4 DEF SignedOut, ValidateToken
  <2> QED
    BY <2>1, <2>2 DEF NoKey, TokenTypeOK
<1>5. ASSUME NoKey, NEW e \in Kept PROVE ~(clock < e)
  <2>1. e \in {stored, cookie} \/ \E t \in T : e = held[t] \/ e = answer[t]
    BY <1>2, <1>3, <1>5
  <2> QED
    BY <1>5, <2>1 DEF NoKey, TokenTypeOK
<1> QED
  BY <1>4, <1>5 DEF SignedOut, ValidateToken

\* The same of the next state.
LEMMA KeysNext == TokenTypeOK' => (SignedOut' <=> NoKey')
  BY Keys, PTL

\* A tab goes on with tokens that are no keys.
LEMMA ShowKeeps ==
  ASSUME TokenInv, NEW t \in Tab, NEW p \in Page, NEW h \in Nat, NEW a \in Nat,
         Show(t, p, h, a), clock' = clock, stored' \in Nat, cookie' \in Nat
  PROVE  /\ TokenInv'
         /\ /\ NoKey /\ stored' <= clock /\ cookie' <= clock
            /\ p \in Starting => h <= clock /\ a <= clock
            => NoKey'
<1>1. /\ page' = [page EXCEPT ![t] = p] /\ held' = [held EXCEPT ![t] = h]
      /\ answer' = [answer EXCEPT ![t] = a]
  BY DEF Show
<1>2. TokenInv'
  BY <1>1 DEF TokenInv, TokenTypeOK
<1>3. ASSUME NoKey, stored' <= clock, cookie' <= clock,
             p \in Starting => h <= clock /\ a <= clock
      PROVE  NoKey'
  <2>1. ASSUME NEW u \in Tab, page'[u] \in Starting
        PROVE  held'[u] <= clock /\ answer'[u] <= clock
    BY <1>1, <1>3, <2>1 DEF NoKey, TokenInv, TokenTypeOK
  <2> QED
    BY <1>3, <2>1 DEF NoKey
<1> QED
  BY <1>2, <1>3

\* An answer of the server, a step of a script, a tab that is opened or
\* closed, or the answer to a password update: every token in the new state
\* was a key, unless the password was given.
LEMMA TabStep ==
  ASSUME TokenInv, NEW t \in Tab, Serve(t) \/ Browse(t) \/ Updated(t)
  PROVE  /\ TokenInv' /\ clock' = clock
         /\ SignedOut => SignedOut' \/ Login(t)
<1> SUFFICES /\ TokenInv' /\ clock' = clock
             /\ NoKey => NoKey' \/ Login(t)
  BY Keys, KeysNext DEF TokenInv
<1>0. /\ clock \in Nat /\ stored \in Nat /\ cookie \in Nat /\ TokenExpire \in Nat
      /\ page \in [Tab -> Page] /\ held \in [Tab -> Nat] /\ answer \in [Tab -> Nat]
  BY TokenAssumption DEF TokenInv, TokenTypeOK
<1>1. CASE Validate(t)
  <2>1. /\ page[t] \in {"validating", "checking"} /\ clock < held[t]
        /\ answer' = [answer EXCEPT ![t] = held[t]]
        /\ UNCHANGED <<clock, page, held, stored, cookie>>
    BY <1>1 DEF Validate, ValidateToken, Answer
  <2>2. TokenInv'
    BY <1>0, <2>1 DEF TokenInv, TokenTypeOK
  <2>3. ASSUME NoKey, NEW u \in Tab, page[u] \in Starting
        PROVE  answer'[u] <= clock
    <3>1. CASE u # t
      BY <1>0, <2>1, <2>3, <3>1 DEF NoKey
    <3>2. CASE u = t
      <4>1. held[t] <= clock
        BY <2>3, <3>2 DEF NoKey
      <4> QED
        BY <1>0, <2>1, <4>1
    <3> QED
      BY <3>1, <3>2
  <2>4. NoKey => NoKey'
    BY <2>1, <2>3 DEF NoKey
  <2> QED
    BY <2>1, <2>2, <2>4
<1>2. CASE Refresh(t)
  <2>1. /\ page[t] \in Starting /\ clock < held[t]
        /\ answer' = [answer EXCEPT ![t] = clock + TokenExpire]
        /\ UNCHANGED <<clock, page, held, stored, cookie>>
    BY <1>2 DEF Refresh, RefreshToken, ValidateToken, Answer, GenerateToken,
                Starting
  <2>2. TokenInv'
    BY <1>0, <2>1 DEF TokenInv, TokenTypeOK
  <2>3. ASSUME NoKey PROVE FALSE
    <3>1. held[t] <= clock
      BY <2>1, <2>3 DEF NoKey
    <3>2. held[t] \in Nat
      BY <1>0
    <3> QED
      BY <1>0, <2>1, <3>1, <3>2
  <2> QED
    BY <2>1, <2>2, <2>3
<1>3. CASE Login(t)
  <2>1. Show(t, "entering", 0, clock + TokenExpire)
        /\ UNCHANGED <<clock, stored, cookie>>
    BY <1>3 DEF Login, GenerateToken
  <2> QED
    BY <1>0, <1>3, <2>1, ShowKeeps DEF Page
<1>4. CASE RestoreAuthState(t) \/ RestoreIfLoggedIn(t)
  <2>1. PICK p \in Page, h \in {stored, cookie} :
          Show(t, p, h, 0) /\ UNCHANGED <<clock, stored, cookie>>
    BY <1>4 DEF RestoreAuthState, RestoreIfLoggedIn, Page
  <2>2. NoKey => h <= clock /\ 0 <= clock /\ stored <= clock /\ cookie <= clock
    BY <1>0 DEF NoKey
  <2> QED
    BY <1>0, <2>1, <2>2, ShowKeeps
<1>5. CASE Validated(t)
  <2>1. /\ page[t] \in Starting /\ UNCHANGED <<clock, stored, cookie>>
        /\ \E p \in {"in", "asking"} : Show(t, p, held[t], 0)
    BY <1>5 DEF Validated, Starting
  <2>2. PICK p \in Page : Show(t, p, held[t], 0)
    BY <2>1 DEF Page
  <2>3. NoKey => held[t] <= clock /\ 0 <= clock /\ stored <= clock /\ cookie <= clock
    BY <1>0, <2>1 DEF NoKey
  <2> QED
    BY <1>0, <2>1, <2>2, <2>3, ShowKeeps
<1>6. CASE Checked(t)
  <2>1. PICK p \in Page, h \in {0, cookie} :
          Show(t, p, h, 0) /\ UNCHANGED <<clock, stored, cookie>>
    BY <1>6 DEF Checked, Page
  <2>2. NoKey => h <= clock /\ 0 <= clock /\ stored <= clock /\ cookie <= clock
    BY <1>0 DEF NoKey
  <2> QED
    BY <1>0, <2>1, <2>2, ShowKeeps
<1>7. CASE SetCookie(t)
  <2>1. /\ page[t] \in Starting /\ cookie' = answer[t]
        /\ UNCHANGED <<clock, stored>>
        /\ \E p \in {"granted", "admitted"} : Show(t, p, 0, answer[t])
    BY <1>7 DEF SetCookie, Starting
  <2>2. PICK p \in Page : Show(t, p, 0, answer[t])
    BY <2>1 DEF Page
  <2>3. NoKey => answer[t] <= clock /\ 0 <= clock /\ stored <= clock
    BY <1>0, <2>1 DEF NoKey
  <2> QED
    BY <1>0, <2>1, <2>2, <2>3, ShowKeeps
<1>8. CASE Refreshed(t) \/ Admitted(t)
  <2>1. /\ page[t] \in Starting /\ stored' = answer[t]
        /\ UNCHANGED <<clock, cookie>>
        /\ Show(t, "in", answer[t], 0) \/ Show(t, "load", 0, 0)
    BY <1>8 DEF Refreshed, Admitted, Starting
  <2>2. PICK p \in Page, h \in {0, answer[t]} : Show(t, p, h, 0)
    BY <2>1 DEF Page
  <2>3. NoKey => h <= clock /\ answer[t] <= clock /\ 0 <= clock /\ cookie <= clock
    BY <1>0, <2>1 DEF NoKey
  <2>4. h \in Nat /\ answer[t] \in Nat
    BY <1>0
  <2> QED
    BY <1>0, <2>1, <2>2, <2>3, <2>4, ShowKeeps
<1>9. CASE Logout(t)
  <2>1. Show(t, "leaving", held[t], 0) /\ UNCHANGED <<clock, stored, cookie>>
    BY <1>9 DEF Logout
  <2>2. NoKey => stored <= clock /\ cookie <= clock
    BY DEF NoKey
  <2> QED
    BY <1>0, <2>1, <2>2, ShowKeeps DEF Page, Starting
<1>10. CASE \/ NotRestored(t) \/ ClearCookie(t) \/ LoggedOut(t)
            \/ NotAdmitted(t) \/ OpenTab(t) \/ CloseTab(t)
  <2>1. /\ clock' = clock /\ stored' \in {0, stored} /\ cookie' \in {0, cookie}
        /\ \E p \in {"login", "left", "prompt", "load", "closed"} : Show(t, p, 0, 0)
    BY <1>10, Zenon
       DEF NotRestored, ClearCookie, LoggedOut, NotAdmitted, OpenTab, CloseTab
  <2>2. PICK p \in Page : Show(t, p, 0, 0)
    BY <2>1 DEF Page
  <2>3. NoKey => stored' <= clock /\ cookie' <= clock /\ 0 <= clock
    BY <1>0, <2>1 DEF NoKey
  <2>4. stored' \in Nat /\ cookie' \in Nat
    BY <1>0, <2>1
  <2> QED
    BY <2>1, <2>2, <2>3, <2>4, ShowKeeps
<1>11. CASE Updated(t)
  <2>1. stored' = 0 /\ UNCHANGED <<clock, page, held, answer, cookie>>
    BY <1>11 DEF Updated
  <2>2. TokenInv' /\ (NoKey => NoKey')
    BY <1>0, <2>1 DEF TokenInv, TokenTypeOK, NoKey
  <2> QED
    BY <2>1, <2>2
<1> QED
  BY <1>1, <1>2, <1>3, <1>4, <1>5, <1>6, <1>7, <1>8, <1>9, <1>10, <1>11, Zenon
     DEF Serve, Browse

\* Time does not go back, and without a key only Login makes one.
LEMMA TokenStep ==
  ASSUME TokenInv, TokenNext \/ \E t \in Tab : Updated(t)
  PROVE  /\ TokenInv' /\ clock <= clock'
         /\ SignedOut => SignedOut' \/ \E t \in Tab : Login(t)
<1>1. ASSUME NEW t \in Tab, Serve(t) \/ Browse(t) \/ Updated(t)
      PROVE  /\ TokenInv' /\ clock <= clock'
             /\ SignedOut => SignedOut' \/ \E u \in Tab : Login(u)
  <2>1. /\ TokenInv' /\ clock' = clock
        /\ SignedOut => SignedOut' \/ Login(t)
    BY <1>1, TabStep
  <2> QED
    BY <2>1 DEF TokenInv, TokenTypeOK
<1>2. CASE Second
  <2>1. TokenInv' /\ clock <= clock'
    BY <1>2, TokenAssumption DEF Second, TokenInv, TokenTypeOK
  <2>2. NoKey => NoKey'
    BY <1>2, <2>1 DEF Second, NoKey, TokenInv, TokenTypeOK
  <2>3. SignedOut => SignedOut'
    BY <2>1, <2>2, Keys, KeysNext DEF TokenInv
  <2> QED
    BY <2>1, <2>3
<1> QED
  BY <1>1, <1>2, Zenon DEF TokenNext

-----------------------------------------------------------------------------
(* The configuration.                                                      *)

\* What a handler of a password update has done so far.
HandlersInv ==
  \A q \in Request :
    /\ step[q] # "idle" => Running /\ new[q] \in chosen \cap Password
    /\ step[q] \in {"marshal", "open", "write"} => memory \in chosen \cap Password
    /\ step[q] \in {"open", "write"} => bytes[q] \in chosen \cap Password

\* A handler that runs alone finds in memory and in the file what it left.
AloneInv ==
  \A q \in alone :
    /\ step[q] # "idle"
    /\ \A r \in Request \ {q} : step[r] = "idle"
    /\ step[q] \in {"marshal", "open", "write"} => memory = new[q]
    /\ step[q] \in {"open", "write"} => bytes[q] = new[q]
    /\ step[q] = "write" => file.size = 0

\* A file that loads has a password somebody chose, or is still the one the
\* built-in password goes with.
FileInv ==
  /\ file.text = Blank => Fallback \in builtin
  /\ file.text \in Password \cup {Root} => file.text \in chosen \cup builtin

ConfigInv ==
  /\ ConfigTypeOK /\ HandlersInv /\ AloneInv /\ FileInv
  /\ RunsWithChosenPassword /\ PromiseIsKept
  /\ promise # NoPassword => \A q \in Request : step[q] = "idle"

\* The process starts with what it finds in the file, or writes one.
LEMMA StartStep ==
  ASSUME ConfigInv, GenerateConfig \/ Start \/ Repair PROVE ConfigInv'
<1> USE ConfigAssumption DEF ConfigInv, ConfigTypeOK, Text, Running
<1>1. ~Running
  BY DEF GenerateConfig, Start, Repair
<1>2. (\A q \in Request : step[q] = "idle") /\ alone = {}
  BY <1>1 DEF HandlersInv, AloneInv
<1>3. UNCHANGED <<step, new, bytes, alone, updates, stops>>
  BY DEF GenerateConfig, Start, Repair
<1>4. HandlersInv' /\ AloneInv'
  BY <1>2, <1>3 DEF HandlersInv, AloneInv
<1>5. CASE GenerateConfig
  <2>1. file.text = Missing /\ promise = NoPassword
    BY <1>5 DEF GenerateConfig, Exists, PromiseIsKept
  <2>2. /\ file'.text \in {Root, Torn} /\ file'.size \in Nat
        /\ builtin' = {Root}
        /\ memory' = memory /\ promise' = promise
    BY <1>5, <2>1 DEF GenerateConfig, File
  <2> QED
    BY <1>1, <1>2, <1>3, <1>4, <2>1, <2>2
       DEF FileInv, RunsWithChosenPassword, PromiseIsKept
<1>6. CASE Start
  <2>1. /\ memory' = (IF file.text = Blank THEN Fallback ELSE file.text)
        /\ file.text \in Text
        /\ UNCHANGED <<file, chosen, builtin, promise>>
    BY <1>6 DEF Start
  <2>2. memory' \in chosen \cup builtin /\ memory' \in Password \cup {Root, Fallback}
    BY <2>1 DEF FileInv
  <2>3. PromiseIsKept'
    BY <2>1 DEF PromiseIsKept
  <2> QED
    BY <1>2, <1>3, <1>4, <2>1, <2>2, <2>3 DEF FileInv, RunsWithChosenPassword
<1>7. CASE Repair
  <2>1. PICK p \in Password : file' = File(p) /\ chosen' = chosen \cup {p}
    BY <1>7 DEF Repair
  <2>2. file'.text = p /\ file'.size \in Nat
    BY <2>1 DEF File
  <2>3. memory' = memory /\ promise' = NoPassword /\ builtin' = {}
    BY <1>7 DEF Repair
  <2> QED
    BY <1>1, <1>2, <1>3, <1>4, <2>1, <2>2, <2>3
       DEF FileInv, RunsWithChosenPassword, PromiseIsKept
<1> QED
  BY <1>5, <1>6, <1>7

\* The process stops and the file stays.
LEMMA StopStep ==
  ASSUME ConfigInv, Stop PROVE ConfigInv'
  BY ConfigAssumption
     DEF Stop, ConfigInv, ConfigTypeOK, HandlersInv, AloneInv, FileInv,
         RunsWithChosenPassword, PromiseIsKept, Running

\* handleUpdateAdminPassword, up to the file.
LEMMA MemoryStep ==
  ASSUME ConfigInv, NEW q \in Request,
         BeginUpdate(q) \/ SetPassword(q) \/ Marshal(q)
  PROVE  ConfigInv'
<1> USE ConfigAssumption DEF ConfigInv, ConfigTypeOK, Running, Goto
<1>1. CASE BeginUpdate(q)
  <2>1. PICK p \in Password : /\ new' = [new EXCEPT ![q] = p]
                              /\ chosen' = chosen \cup {p}
    BY <1>1 DEF BeginUpdate, Acceptable
  <2>2. /\ step[q] = "idle" /\ memory # NoPassword
        /\ step' = [step EXCEPT ![q] = "set"]
        /\ alone' = IF \E r \in Request : Busy(r) THEN {} ELSE {q}
        /\ promise' = NoPassword /\ updates' \in Nat
        /\ UNCHANGED <<memory, file, bytes, stops, builtin>>
    BY <1>1 DEF BeginUpdate, Busy
  <2>3. ConfigTypeOK' /\ FileInv' /\ RunsWithChosenPassword' /\ PromiseIsKept'
    BY <2>1, <2>2 DEF FileInv, RunsWithChosenPassword, PromiseIsKept
  <2>4. HandlersInv'
    BY <2>1, <2>2 DEF HandlersInv
  <2>5. AloneInv'
    <3>1. CASE \E r \in Request : Busy(r)
      BY <2>2, <3>1 DEF AloneInv
    <3>2. CASE ~\E r \in Request : Busy(r)
      BY <2>2, <3>2 DEF AloneInv, Busy
    <3> QED
      BY <3>1, <3>2
  <2> QED
    BY <2>2, <2>3, <2>4, <2>5
<1>2. CASE SetPassword(q)
  <2>1. /\ step[q] = "set" /\ memory' = new[q]
        /\ step' = [step EXCEPT ![q] = "marshal"]
        /\ UNCHANGED <<file, new, bytes, alone, updates, stops, chosen, builtin,
                       promise>>
    BY <1>2 DEF SetPassword
  <2>2. new[q] \in chosen \cap Password /\ promise = NoPassword
    BY <2>1 DEF HandlersInv
  <2>3. HandlersInv' /\ RunsWithChosenPassword'
    BY <2>1, <2>2 DEF HandlersInv, RunsWithChosenPassword
  <2>4. AloneInv'
    BY <2>1 DEF AloneInv
  <2> QED
    BY <2>1, <2>2, <2>3, <2>4 DEF FileInv, PromiseIsKept
<1>3. CASE Marshal(q)
  <2>1. /\ step[q] = "marshal" /\ bytes' = [bytes EXCEPT ![q] = memory]
        /\ step' = [step EXCEPT ![q] = "open"]
        /\ UNCHANGED <<memory, file, new, alone, updates, stops, chosen, builtin,
                       promise>>
    BY <1>3 DEF Marshal
  <2>2. memory \in chosen \cap Password /\ promise = NoPassword
    BY <2>1 DEF HandlersInv
  <2>3. HandlersInv'
    BY <2>1, <2>2 DEF HandlersInv
  <2>4. AloneInv'
    BY <2>1 DEF AloneInv
  <2> QED
    BY <2>1, <2>2, <2>3, <2>4 DEF FileInv, RunsWithChosenPassword, PromiseIsKept
<1> QED
  BY <1>1, <1>2, <1>3

\* handleUpdateAdminPassword: os.WriteFile, its failures and the answer.
LEMMA FileStep ==
  ASSUME ConfigInv, NEW q \in Request,
         OpenFile(q) \/ WriteFile(q) \/ WriteFileFails(q)
  PROVE  ConfigInv'
<1> USE ConfigAssumption DEF ConfigInv, ConfigTypeOK, Running, Goto
<1>1. /\ step[q] \in {"open", "write"} /\ promise = NoPassword
      /\ bytes[q] \in chosen \cap Password
      /\ new[q] \in Password
      /\ memory \in chosen
      /\ UNCHANGED <<memory, updates, stops, chosen>>
      /\ builtin' \in {{}, builtin}
  BY DEF OpenFile, WriteFile, WriteFileFails, HandlersInv
<1>2. Size[bytes[q]] \in Nat \ {0}
  BY <1>1 DEF Text
<1>3. CASE OpenFile(q)
  <2>1. /\ file'.text = Torn /\ file'.size = 0
        /\ step' = [step EXCEPT ![q] = "write"] /\ step[q] = "open"
        /\ UNCHANGED <<new, bytes, alone, promise>>
    BY <1>3 DEF OpenFile, Truncated
  <2>2. HandlersInv'
    BY <1>1, <2>1 DEF HandlersInv
  <2>3. AloneInv'
    BY <1>1, <2>1 DEF AloneInv
  <2>4. FileInv'
    BY <2>1 DEF FileInv, Text
  <2> QED
    BY <1>1, <2>1, <2>2, <2>3, <2>4 DEF RunsWithChosenPassword, PromiseIsKept
<1>4. ASSUME Finish(q) PROVE HandlersInv' /\ AloneInv'
  <2>1. HandlersInv'
    BY <1>1, <1>4 DEF Finish, HandlersInv
  <2>2. ASSUME NEW r \in alone' PROVE FALSE
    BY <1>1, <1>4, <2>2 DEF Finish, AloneInv
  <2> QED
    BY <2>1, <2>2 DEF AloneInv
<1>5. ASSUME Finish(q)
      PROVE  /\ step' \in [Request -> {"idle", "set", "marshal", "open", "write"}]
             /\ new' \in [Request -> Password \cup {NoPassword}]
             /\ bytes' \in [Request -> Password \cup {NoPassword}]
             /\ alone' \in SUBSET Request
  BY <1>5 DEF Finish
<1>6. CASE WriteFile(q)
  <2>1. /\ Finish(q) /\ step[q] = "write" /\ file' = Overwritten(bytes[q])
        /\ promise' = IF q \in alone THEN new[q] ELSE promise
    BY <1>6 DEF WriteFile
  <2>2. file'.text \in {bytes[q], Torn} /\ file'.size \in Nat
    BY <1>2, <2>1 DEF Overwritten, File
  <2>3. FileInv' /\ file'.text \in Text \cup {Torn, Missing}
    BY <1>1, <2>2 DEF FileInv, Text
  <2>4. CASE q \in alone
    <3>1. /\ bytes[q] = new[q] /\ memory = new[q] /\ file.size = 0
          /\ \A r \in Request \ {q} : step[r] = "idle"
      BY <1>1, <2>1, <2>4 DEF AloneInv
    <3>2. file'.text = new[q]
      BY <1>2, <2>1, <3>1 DEF Overwritten, File
    <3>3. \A r \in Request : step'[r] = "idle"
      BY <2>1, <3>1 DEF Finish
    <3> QED
      BY <1>1, <1>4, <1>5, <2>1, <2>2, <2>3, <2>4, <3>1, <3>2, <3>3
         DEF RunsWithChosenPassword, PromiseIsKept
  <2>5. CASE q \notin alone
    BY <1>1, <1>4, <1>5, <2>1, <2>2, <2>3, <2>5
       DEF RunsWithChosenPassword, PromiseIsKept
  <2> QED
    BY <2>4, <2>5
<1>7. CASE WriteFileFails(q)
  <2>1. Finish(q) /\ promise' = promise /\ builtin' = builtin
    BY <1>7 DEF WriteFileFails
  <2>2. file' = file \/ (file'.text = Torn /\ file'.size \in Nat)
    <3>1. CASE step[q] = "open"
      BY <1>7, <3>1 DEF WriteFileFails
    <3>2. CASE step[q] = "write"
      <4>1. PICK n \in 0..(Size[bytes[q]] - 1) :
              file' = [text |-> Torn,
                       size |-> IF n < file.size THEN file.size ELSE n]
        BY <1>7, <3>2 DEF WriteFileFails
      <4> QED
        BY <1>2, <4>1
    <3> QED
      BY <1>1, <3>1, <3>2
  <2>3. FileInv' /\ file'.text \in Text \cup {Torn, Missing}
        /\ file'.size \in Nat
    BY <1>1, <2>1, <2>2 DEF FileInv, Text
  <2> QED
    BY <1>1, <1>4, <1>5, <2>1, <2>3 DEF RunsWithChosenPassword, PromiseIsKept
<1> QED
  BY <1>3, <1>6, <1>7

-----------------------------------------------------------------------------
(* Debug calls.                                                            *)

\* An id is the time of its call; nothing is deleted before it is due.
CallsInv ==
  \A c \in Call : /\ uid[c] <= MaxTime
                  /\ state[c] = "deleted" => due[c] <= clock

DebugInv ==
  /\ DebugTypeOK /\ CallsInv
  /\ AnswersAreKept /\ AnswersAreDeleted

\* The first heartbeat and the end of a session leave the calls alone.
LEMMA NodeKeeps ==
  ASSUME DebugInv, NodeStep, UNCHANGED clock PROVE DebugInv'
<1>1. offered' \in BOOLEAN /\ UNCHANGED <<state, uid, due, results>>
  BY DEF NodeStep, Heartbeat, Disconnect
<1> QED
  BY <1>1 DEF DebugInv, DebugTypeOK, CallsInv, AnswersAreKept, GetDebugResult,
              AnswersAreDeleted

\* A call that has not been answered moves on or is lost: no answer changes.
LEMMA UnansweredKeeps ==
  ASSUME DebugInv, clock \in Nat, clock <= MaxTime, UNCHANGED clock,
         NEW c \in Call,
         FindStub(c) \/ SendRpc(c) \/ Invoke(c) \/ Lose(c)
  PROVE  DebugInv'
<1> USE DebugAssumption DEF DebugInv, DebugTypeOK, CallState
<1>1. /\ state[c] \notin {"stored", "deleted"}
      /\ UNCHANGED <<offered, due, results>>
  BY DEF FindStub, SendRpc, Invoke, Lose
<1>2. PICK s \in CallState \ {"stored", "deleted"} :
        state' = [state EXCEPT ![c] = s]
  BY DEF FindStub, SendRpc, Invoke, Lose, To
<1>3. /\ uid' \in [Call -> Nat]
      /\ \A d \in Call \ {c} : uid'[d] = uid[d]
      /\ uid'[c] <= MaxTime
  <2>1. CASE SendRpc(c)
    BY <2>1 DEF SendRpc
  <2>2. CASE ~SendRpc(c)
    BY <2>2 DEF FindStub, Invoke, Lose, CallsInv
  <2> QED
    BY <2>1, <2>2
<1>4. DebugTypeOK'
  <2>1. state' \in [Call -> CallState]
    BY <1>2
  <2> QED
    BY <1>1, <1>3, <2>1
<1>5. CallsInv'
  BY <1>1, <1>2, <1>3 DEF CallsInv
<1>6. AnswersAreKept'
  <2> SUFFICES ASSUME NEW e \in Call, state'[e] \in {"stored", "deleted"},
                      clock < due[e]
               PROVE  \/ results[uid'[e]] = e
                      \/ \E d \in Call \ {e} :
                           /\ uid'[d] = uid'[e]
                           /\ state'[d] \in {"stored", "deleted"}
    BY <1>1 DEF AnswersAreKept, GetDebugResult
  <2>1. e # c /\ state'[e] = state[e] /\ uid'[e] = uid[e]
    BY <1>2, <1>3
  <2>2. CASE results[uid[e]] = e
    BY <2>1, <2>2
  <2>3. ASSUME NEW d \in Call \ {e}, uid[d] = uid[e],
               state[d] \in {"stored", "deleted"}
        PROVE  uid'[d] = uid'[e] /\ state'[d] \in {"stored", "deleted"}
    BY <1>1, <1>2, <1>3, <2>1, <2>3
  <2> QED
    BY <2>1, <2>2, <2>3 DEF AnswersAreKept, GetDebugResult
<1>7. AnswersAreDeleted'
  BY <1>1, <1>2, <1>3 DEF AnswersAreDeleted
<1> QED
  BY <1>4, <1>5, <1>6, <1>7

\* handleRpcResponse replaces the answer of no call but one with its id.
LEMMA StoreKeeps ==
  ASSUME DebugInv, clock \in Nat, Keep \in Nat, UNCHANGED clock,
         MaxTime \in Nat, NEW c \in Call, StoreResult(c)
  PROVE  DebugInv'
<1> USE DebugAssumption DEF DebugInv, DebugTypeOK, CallState, To
<1>1. /\ state[c] = "answered" /\ state' = [state EXCEPT ![c] = "stored"]
      /\ results' = [results EXCEPT ![uid[c]] = c]
      /\ due' = [due EXCEPT ![c] = clock + Keep]
      /\ UNCHANGED <<offered, uid>>
  BY DEF StoreResult
<1>2. uid[c] \in 0..MaxTime
  BY DEF CallsInv
<1>3. DebugTypeOK'
  BY <1>1, <1>2
<1>4. CallsInv'
  BY <1>1 DEF CallsInv
<1>5. AnswersAreKept'
  <2> SUFFICES ASSUME NEW e \in Call, state'[e] \in {"stored", "deleted"},
                      clock < due'[e]
               PROVE  \/ results'[uid[e]] = e
                      \/ \E d \in Call \ {e} :
                           /\ uid[d] = uid[e]
                           /\ state'[d] \in {"stored", "deleted"}
    BY <1>1 DEF AnswersAreKept, GetDebugResult
  <2>1. CASE e = c
    BY <1>1, <1>2, <2>1
  <2>2. CASE e # c /\ uid[e] = uid[c]
    BY <1>1, <2>2
  <2>3. CASE e # c /\ uid[e] # uid[c]
    <3>1. /\ state[e] = state'[e] /\ due[e] = due'[e]
          /\ results'[uid[e]] = results[uid[e]]
      BY <1>1, <2>3 DEF CallsInv
    <3>2. CASE results[uid[e]] = e
      BY <3>1, <3>2
    <3>3. CASE \E d \in Call \ {e} : /\ uid[d] = uid[e]
                                      /\ state[d] \in {"stored", "deleted"}
      BY <1>1, <3>3
    <3> QED
      BY <3>1, <3>2, <3>3 DEF AnswersAreKept, GetDebugResult
  <2> QED
    BY <2>1, <2>2, <2>3
<1>6. AnswersAreDeleted'
  BY <1>1, <1>2 DEF AnswersAreDeleted
<1> QED
  BY <1>3, <1>4, <1>5, <1>6

\* The goroutine that deletes an answer finds its own, or that of a call
\* with the same id, or none.
LEMMA DeleteKeeps ==
  ASSUME DebugInv, clock \in Nat, UNCHANGED clock, MaxTime \in Nat,
         NEW c \in Call, DeleteResult(c)
  PROVE  DebugInv'
<1> USE DebugAssumption DEF DebugInv, DebugTypeOK, CallState, To
<1>1. /\ state[c] = "stored" /\ state' = [state EXCEPT ![c] = "deleted"]
      /\ results' = [results EXCEPT ![uid[c]] = NoCall]
      /\ due[c] <= clock
      /\ UNCHANGED <<offered, uid, due>>
  BY DEF DeleteResult, Deleted, Elapsed
<1>2. uid[c] \in 0..MaxTime
  BY DEF CallsInv
<1>3. DebugTypeOK'
  BY <1>1, <1>2
<1>4. CallsInv'
  BY <1>1 DEF CallsInv
<1>5. AnswersAreKept'
  <2> SUFFICES ASSUME NEW e \in Call, state'[e] \in {"stored", "deleted"},
                      clock < due[e]
               PROVE  \/ results'[uid[e]] = e
                      \/ \E d \in Call \ {e} :
                           /\ uid[d] = uid[e]
                           /\ state'[d] \in {"stored", "deleted"}
    BY <1>1 DEF AnswersAreKept, GetDebugResult
  <2>1. e # c
    BY <1>1
  <2>2. CASE uid[e] = uid[c]
    BY <1>1, <2>1, <2>2
  <2>3. CASE uid[e] # uid[c]
    <3>1. state[e] = state'[e] /\ results'[uid[e]] = results[uid[e]]
      BY <1>1, <2>1, <2>3 DEF CallsInv
    <3>2. CASE results[uid[e]] = e
      BY <3>1, <3>2
    <3>3. CASE \E d \in Call \ {e} : /\ uid[d] = uid[e]
                                      /\ state[d] \in {"stored", "deleted"}
      BY <1>1, <3>3
    <3> QED
      BY <3>1, <3>2, <3>3 DEF AnswersAreKept, GetDebugResult
  <2> QED
    BY <2>2, <2>3
<1>6. AnswersAreDeleted'
  BY <1>1, <1>2 DEF AnswersAreDeleted
<1> QED
  BY <1>3, <1>4, <1>5, <1>6

-----------------------------------------------------------------------------
(* The monitor.                                                            *)

IInv == TokenInv /\ ConfigInv /\ DebugInv

\* The first start of a process, with or without a file.
LEMMA InitIInv == Init => IInv
<1> SUFFICES ASSUME Init PROVE IInv
  OBVIOUS
<1>1. TokenInv
  BY TokenAssumption DEF Init, TokenInit, TokenInv, TokenTypeOK, Page
<1>2. ConfigInv
  <2> USE ConfigAssumption DEF Init, ConfigInit
  <2>1. \/ \E t \in Text : file = File(t)
        \/ file = [text |-> Missing, size |-> 0]
    OBVIOUS
  <2>2. file.text \in Text \cup {Missing} /\ file.size \in Nat
    BY <2>1 DEF File, Text
  <2>3. builtin \in SUBSET {Root, Fallback} /\ FileInv
    BY <2>2 DEF FileInv, Text
  <2>4. ConfigTypeOK
    BY <2>2, <2>3 DEF ConfigTypeOK
  <2> QED
    BY <2>3, <2>4
       DEF ConfigInv, HandlersInv, AloneInv, Running, RunsWithChosenPassword,
           PromiseIsKept
<1>3. DebugInv
  <2>1. /\ offered = FALSE /\ state = [c \in Call |-> "new"]
        /\ uid = [c \in Call |-> 0] /\ due = [c \in Call |-> 0]
        /\ results = [t \in 0..MaxTime |-> NoCall]
    BY DEF Init, DebugInit
  <2>2. DebugTypeOK
    BY <2>1 DEF DebugTypeOK, CallState
  <2>3. CallsInv
    BY <2>1, TokenAssumption DEF CallsInv
  <2>4. AnswersAreKept /\ AnswersAreDeleted
    BY <2>1, DebugAssumption DEF AnswersAreKept, GetDebugResult, AnswersAreDeleted
  <2> QED
    BY <2>2, <2>3, <2>4 DEF DebugInv
<1> QED
  BY <1>1, <1>2, <1>3 DEF IInv

\* A step that leaves a component alone keeps its part.
LEMMA ConfigUnchanged == ConfigInv /\ UNCHANGED configVars => ConfigInv'
  BY DEF configVars, ConfigInv, ConfigTypeOK, HandlersInv, AloneInv, FileInv,
         Running, RunsWithChosenPassword, PromiseIsKept

\* The same for the tokens.
LEMMA TokenUnchanged == TokenInv /\ UNCHANGED tokenVars => TokenInv'
  BY DEF tokenVars, TokenInv, TokenTypeOK

\* Time that passes makes no answer disappear.
LEMMA DebugUnchanged ==
  ASSUME DebugInv, UNCHANGED debugVars, clock \in Nat, clock' \in Nat,
         clock <= clock'
  PROVE  DebugInv'
<1> USE DEF debugVars, DebugInv
<1>1. DebugTypeOK' /\ AnswersAreDeleted'
  BY DEF DebugTypeOK, AnswersAreDeleted
<1>2. CallsInv'
  BY DEF DebugTypeOK, CallsInv
<1>3. AnswersAreKept'
  <2>1. \A e \in Call : clock' < due[e] => clock < due[e]
    BY DEF DebugTypeOK
  <2>2. UNCHANGED <<state, uid, due, results>>
    OBVIOUS
  <2> QED
    BY <2>1, <2>2 DEF AnswersAreKept, GetDebugResult
<1> QED
  BY <1>1, <1>2, <1>3

\* Every request, every step of a handler, a node or a call, a stop of the
\* process and the clock keep the invariant.
LEMMA StepIInv == IInv /\ [Next]_vars => IInv'
<1> SUFFICES ASSUME IInv, [Next]_vars PROVE IInv'
  OBVIOUS
<1>0. /\ TokenInv /\ ConfigInv /\ DebugInv
      /\ clock \in Nat /\ clock <= MaxTime /\ MaxTime \in Nat /\ Keep \in Nat
  BY TokenAssumption, DebugAssumption DEF IInv, TokenInv, TokenTypeOK
<1>1. CASE ConfigStep /\ UNCHANGED <<tokenVars, debugVars>>
  <2>1. ConfigInv'
    BY <1>0, <1>1, StartStep, MemoryStep, FileStep DEF ConfigStep, Update
  <2>2. clock' = clock
    BY <1>1 DEF tokenVars
  <2>3. DebugInv'
    BY <1>0, <1>1, <2>2, DebugUnchanged
  <2> QED
    BY <1>0, <1>1, <2>1, <2>3, TokenUnchanged DEF IInv
<1>2. CASE Stopping
  <2>1. ConfigInv'
    BY <1>0, <1>2, StopStep DEF Stopping
  <2>2. TokenInv'
    BY <1>0, <1>2, TokenUnchanged DEF Stopping
  <2>3. DebugInv'
    <3>1. /\ offered' = FALSE /\ UNCHANGED <<clock, uid, due>>
          /\ state' \in [Call -> {"new", "lost"}]
          /\ results' = [t \in 0..MaxTime |-> NoCall]
      BY <1>2 DEF Stopping, DebugStop, tokenVars
    <3>2. DebugTypeOK' /\ CallsInv'
      BY <1>0, <3>1 DEF DebugInv, DebugTypeOK, CallState, CallsInv
    <3>3. AnswersAreKept' /\ AnswersAreDeleted'
      BY <3>1, DebugAssumption
         DEF AnswersAreKept, GetDebugResult, AnswersAreDeleted
    <3> QED
      BY <3>2, <3>3 DEF DebugInv
  <2> QED
    BY <2>1, <2>2, <2>3 DEF IInv
<1>3. CASE TokenNext /\ UNCHANGED <<configVars, debugVars>>
  <2>1. TokenInv' /\ clock <= clock'
    BY <1>0, <1>3, TokenStep
  <2>2. clock' \in Nat
    BY <2>1 DEF TokenInv, TokenTypeOK
  <2> QED
    BY <1>0, <1>3, <2>1, <2>2, ConfigUnchanged, DebugUnchanged DEF IInv
<1>4. CASE /\ NodeStep \/ \E c \in Call : CallStep(c)
           /\ UNCHANGED <<tokenVars, configVars>>
  <2>1. UNCHANGED clock
    BY <1>4 DEF tokenVars
  <2>2. DebugInv'
    <3>1. CASE NodeStep
      BY <1>0, <2>1, <3>1, NodeKeeps
    <3>2. ASSUME NEW c \in Call, CallStep(c) PROVE DebugInv'
      BY <1>0, <2>1, <3>2, UnansweredKeeps, StoreKeeps, DeleteKeeps
         DEF CallStep
    <3> QED
      BY <1>4, <3>1, <3>2
  <2> QED
    BY <1>0, <1>4, <2>2, TokenUnchanged, ConfigUnchanged DEF IInv
<1>5. CASE UNCHANGED vars
  <2>1. UNCHANGED tokenVars /\ UNCHANGED configVars /\ UNCHANGED debugVars
        /\ clock' = clock
    BY <1>5 DEF vars, tokenVars
  <2> QED
    BY <1>0, <2>1, TokenUnchanged, ConfigUnchanged, DebugUnchanged DEF IInv
<1>6. CASE Updating
  <2>1. ConfigInv'
    BY <1>0, <1>6, FileStep DEF Updating
  <2>2. TokenInv' /\ clock <= clock' /\ clock' \in Nat
    <3>1. CASE UNCHANGED tokenVars
      BY <1>0, <3>1, TokenUnchanged DEF tokenVars
    <3>2. CASE \E t \in Tab : Updated(t)
      BY <1>0, <3>2, TokenStep DEF TokenInv, TokenTypeOK
    <3> QED
      BY <1>6, <3>1, <3>2 DEF Updating
  <2>3. DebugInv'
    BY <1>0, <1>6, <2>2, DebugUnchanged DEF Updating
  <2> QED
    BY <2>1, <2>2, <2>3 DEF IInv
<1> QED
  BY <1>1, <1>2, <1>3, <1>4, <1>5, <1>6 DEF Next

\* The invariant of the monitor.
LEMMA Invariance == Spec => []IInv
  BY InitIInv, StepIInv, PTL DEF Spec

-----------------------------------------------------------------------------
\* A browser that keeps no valid token gets one by the password only,
\* whatever its tabs do and however long a token lasts.
THEOREM RefreshNeedsToken == Spec => OnlyPasswordSignsIn
<1>1. IInv /\ [Next]_vars =>
        [SignedOut => SignedOut' \/ \E t \in Tab : Login(t)]_tokenVars
  <2> SUFFICES ASSUME IInv, [Next]_vars, ~UNCHANGED tokenVars
               PROVE  SignedOut => SignedOut' \/ \E t \in Tab : Login(t)
    OBVIOUS
  <2>1. TokenNext \/ \E t \in Tab : Updated(t)
    BY DEF Next, Updating, Stopping, vars
  <2> QED
    BY <2>1, TokenStep DEF IInv
<1> QED
  BY <1>1, Invariance, PTL DEF Spec, OnlyPasswordSignsIn

\* Crashes, failed writes and overlapping updates never give the process a
\* password that was not asked for.
THEOREM PasswordIsChosen == Spec => []RunsWithChosenPassword
<1>1. IInv => RunsWithChosenPassword
  BY DEF IInv, ConfigInv
<1> QED
  BY <1>1, Invariance, PTL

\* An update that ran alone and was reported as written is in memory and in
\* the file until the next one begins, through stops and starts.
THEOREM WrittenIsKept == Spec => []PromiseIsKept
<1>1. IInv => PromiseIsKept
  BY DEF IInv, ConfigInv
<1> QED
  BY <1>1, Invariance, PTL

\* An answer of a debug call is there for five minutes, but for calls with
\* the same millisecond as id.
THEOREM AnswersLast == Spec => []AnswersAreKept
<1>1. IInv => AnswersAreKept
  BY DEF IInv, DebugInv
<1> QED
  BY <1>1, Invariance, PTL

\* Every answer kept has a goroutine that is going to delete it.
THEOREM AnswersGo == Spec => []AnswersAreDeleted
<1>1. IInv => AnswersAreDeleted
  BY DEF IInv, DebugInv
<1> QED
  BY <1>1, Invariance, PTL

\* The types of the three parts; those of bytes and promise rest on an
\* update having put its password into memory before it marshals it.
THEOREM TypeCorrect == Spec => []TypeOK
<1>1. IInv => TypeOK
  BY DEF IInv, TokenInv, ConfigInv, DebugInv, TypeOK
<1> QED
  BY <1>1, Invariance, PTL

=============================================================================
