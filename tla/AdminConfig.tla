---------------------------- MODULE AdminConfig -----------------------------
(***************************************************************************)
(* The configuration of the Router Center: ReadRouterServerConfig at the   *)
(* start, handleUpdateAdminPassword while it runs.  The HTTP handlers of   *)
(* concurrent requests share the configuration in memory and the file      *)
(* without a lock; os.WriteFile truncates and then writes, system calls    *)
(* fail and the process may stop anywhere.                                 *)
(*                                                                         *)
(* Of the configuration only the password varies.  A file is what it says  *)
(* and how long it is: two writers that have both truncated it leave the   *)
(* longer text's tail behind the shorter text.  In memory a password is    *)
(* read and written as a whole; that a Go string is two words, which can   *)
(* be torn between handlers that share no lock, is left out.               *)
(***************************************************************************)
EXTENDS AdminToken

CONSTANTS
  Request,    \* goroutines that serve password updates
  Password,   \* passwords of four characters or more
  Size,       \* the length of the file for a password or Blank
  Root,       \* the password of the generated file
  Fallback,   \* the password used when the file's is empty
  Blank,      \* an empty adminPassword in the file
  Torn,       \* a text that is no JSON object: empty, cut short or mixed
  Missing,    \* there is no file
  NoPassword, \* no value
  MaxUpdates, \* bound: updates begun
  MaxStops    \* bound: times the process stops

Text == Password \cup {Root, Blank}

ASSUME ConfigAssumption ==
  /\ Size \in [Text -> Nat \ {0}]
  /\ {Blank, Torn, Missing, NoPassword} \cap (Password \cup {Root, Fallback})
       = {}
  /\ Blank \notin {Torn, Missing}
  /\ MaxUpdates \in Nat /\ MaxStops \in Nat

VARIABLES
  memory,   \* cfg.AdminPassword, NoPassword while the process is not running
  file,     \* [text, size]
  step,     \* where the handler of a request is
  new,      \* the password it was given
  bytes,    \* what it has marshalled
  alone,    \* the requests beside which no other has run since they began
  updates, stops,
  chosen,   \* passwords somebody has chosen: in a request or in the file
  builtin,  \* the built-in one of a file that no update has written yet
  promise   \* what the last update reported as written, none begun since

configVars == <<memory, file, step, new, bytes, alone, updates, stops, chosen,
                builtin, promise>>

Running == memory # NoPassword

File(t) == [text |-> t, size |-> Size[t]]

\* The file as the operator left it, or none; the process is not running.
ConfigInit ==
  /\ memory = NoPassword
  /\ file \in {File(t) : t \in Text} \cup {[text |-> Missing, size |-> 0]}
  /\ step = [q \in Request |-> "idle"]
  /\ new = [q \in Request |-> NoPassword]
  /\ bytes = [q \in Request |-> NoPassword]
  /\ alone = {}
  /\ updates = 0 /\ stops = 0
  /\ chosen = {file.text} \ {Blank, Missing}
  /\ builtin = (IF file.text = Blank THEN {Fallback} ELSE {})
  /\ promise = NoPassword

-----------------------------------------------------------------------------
(* Start and stop.                                                         *)

\* Variant: an empty file is taken for a missing one.
Exists_NotEmpty == file.size > 0

\* os.Stat finds the file.
Exists == file.text # Missing

\* No file: one is generated, and the operator is to look at it first.  An
\* error of the write is ignored.
GenerateConfig ==
  /\ ~Running /\ ~Exists
  /\ file' \in {File(Root), [text |-> Torn, size |-> 0]}
  /\ builtin' = IF file.text = Missing THEN {Root} ELSE builtin
  /\ UNCHANGED <<memory, step, new, bytes, alone, updates, stops, chosen,
                 promise>>

\* json.Unmarshal fails on a torn file, and the process does not start.
Start ==
  /\ ~Running /\ Exists /\ file.text \in Text
  /\ memory' = IF file.text = Blank THEN Fallback ELSE file.text
  /\ UNCHANGED <<file, step, new, bytes, alone, updates, stops, chosen,
                 builtin, promise>>

\* The operator writes the file anew where it does not load.
Repair ==
  /\ ~Running /\ file.text = Torn
  /\ \E p \in Password : file' = File(p) /\ chosen' = chosen \cup {p}
  /\ builtin' = {}
  /\ promise' = NoPassword
  /\ UNCHANGED <<memory, step, new, bytes, alone, updates, stops>>

\* The process is stopped or crashes, whatever its handlers are doing.
Stop ==
  /\ Running /\ stops < MaxStops
  /\ stops' = stops + 1
  /\ memory' = NoPassword
  /\ step' = [q \in Request |-> "idle"]
  /\ new' = [q \in Request |-> NoPassword]
  /\ bytes' = [q \in Request |-> NoPassword]
  /\ alone' = {}
  /\ UNCHANGED <<file, updates, chosen, builtin, promise>>

-----------------------------------------------------------------------------
(* handleUpdateAdminPassword.                                              *)

Busy(q) == step[q] # "idle"

Goto(q, s) == step' = [step EXCEPT ![q] = s]

\* Variant: the length of the new password is not tested.
Acceptable_Any == Password \cup {Blank}

Acceptable == Password

\* withAuth, the old password and the length are in order.
BeginUpdate(q) ==
  /\ Running /\ ~Busy(q) /\ updates < MaxUpdates
  /\ Authorized
  /\ \E p \in Acceptable :
       /\ new' = [new EXCEPT ![q] = p]
       /\ chosen' = chosen \cup {p}
  /\ Goto(q, "set")
  /\ alone' = IF \E r \in Request : Busy(r) THEN {} ELSE {q}
  /\ updates' = updates + 1
  /\ promise' = NoPassword
  /\ UNCHANGED <<memory, file, bytes, stops, builtin>>

SetPassword(q) ==
  /\ step[q] = "set"
  /\ memory' = new[q]
  /\ Goto(q, "marshal")
  /\ UNCHANGED <<file, new, bytes, alone, updates, stops, chosen, builtin,
                 promise>>

\* json.MarshalIndent reads the shared configuration.
Marshal(q) ==
  /\ step[q] = "marshal"
  /\ bytes' = [bytes EXCEPT ![q] = memory]
  /\ Goto(q, "open")
  /\ UNCHANGED <<memory, file, new, alone, updates, stops, chosen, builtin,
                 promise>>

\* Variant: the file is opened without O_TRUNC.
Truncated_Not == file

Truncated == [text |-> Torn, size |-> 0]

\* os.WriteFile: open and truncate.
OpenFile(q) ==
  /\ step[q] = "open"
  /\ file' = Truncated
  /\ builtin' = {}
  /\ Goto(q, "write")
  /\ UNCHANGED <<memory, new, bytes, alone, updates, stops, chosen, promise>>

\* The text is written over what is there.
Overwritten(t) ==
  IF file.size <= Size[t] THEN File(t)
                          ELSE [text |-> Torn, size |-> file.size]

Finish(q) ==
  /\ Goto(q, "idle")
  /\ new' = [new EXCEPT ![q] = NoPassword]
  /\ bytes' = [bytes EXCEPT ![q] = NoPassword]
  /\ alone' = alone \ {q}

\* The rest of os.WriteFile, and the answer that the password was updated
\* and written to the configuration file.
WriteFile(q) ==
  /\ step[q] = "write"
  /\ file' = Overwritten(bytes[q])
  /\ promise' = IF q \in alone THEN new[q] ELSE promise
  /\ Finish(q)
  /\ UNCHANGED <<memory, updates, stops, chosen, builtin>>

\* Either system call fails; the answer is an error and memory keeps the new
\* password.  A write may fail halfway.
WriteFileFails(q) ==
  /\ \/ step[q] = "open" /\ UNCHANGED file
     \/ /\ step[q] = "write"
        /\ \E n \in 0..(Size[bytes[q]] - 1) :
             file' = [text |-> Torn,
                      size |-> IF n < file.size THEN file.size ELSE n]
  /\ Finish(q)
  /\ UNCHANGED <<memory, updates, stops, chosen, builtin, promise>>

-----------------------------------------------------------------------------
\* All but WriteFile, whose answer the page acts on.
Update(q) ==
  \/ BeginUpdate(q) \/ SetPassword(q) \/ Marshal(q)
  \/ OpenFile(q) \/ WriteFileFails(q)

ConfigStep == GenerateConfig \/ Start \/ Repair \/ \E q \in Request : Update(q)

-----------------------------------------------------------------------------
(* Properties.                                                             *)

\* The configuration in memory and on disk, and the handlers.
ConfigTypeOK ==
  /\ memory \in Password \cup {Root, Fallback, NoPassword}
  /\ file.text \in Text \cup {Torn, Missing} /\ file.size \in Nat
  /\ step \in [Request -> {"idle", "set", "marshal", "open", "write"}]
  /\ new \in [Request -> Password \cup {NoPassword}]
  /\ bytes \in [Request -> Password \cup {NoPassword}]
  /\ alone \in SUBSET Request
  /\ builtin \in SUBSET {Root, Fallback}
  /\ updates \in Nat /\ stops \in Nat
  /\ promise \in Password \cup {NoPassword}

\* The process never runs with a password out of nowhere: whatever crashes,
\* failed writes and updates that run into each other make of the file, it is
\* one that was asked for or one that does not load.  A built-in password is
\* the exception, the generated file's if there was none and the fallback if
\* the operator left it empty; it is gone for good once an update or the
\* operator has written the file, also when a stop leaves that file empty.
RunsWithChosenPassword == Running => memory \in chosen \cup builtin

\* "Updated and written to the configuration file" is true of an update that
\* no other ran beside: the file says so and stays whole, and so does the
\* process, also when it stops and starts again, until the next update
\* begins.  What an earlier update, failed or torn, had left is repaired.
PromiseIsKept ==
  promise # NoPassword =>
    /\ file.text = promise
    /\ Running => memory = promise

=============================================================================
