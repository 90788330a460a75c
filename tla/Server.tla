------------------------------- MODULE Server -------------------------------
(***************************************************************************)
(* What the server keeps for its sessions: ports and key lists             *)
(* (AudioPorts), outgoing frames (SessionSend), the keyring (Keyring), the *)
(* remembered Audio switch (AudioSwitch) and the status tables (Registry). *)
(* They share no state, so one of them moves in a behaviour, chosen at the *)
(* start; the others stay as they are.                                     *)
(***************************************************************************)
EXTENDS AudioPorts, Sequences, TLC

CONSTANTS
  Parts,
  Payloads, MaxSends,                                         \* SessionSend
  Nets, Ids, Typed, Numbers, Kinds, Hints, Freqs, Streams,    \* Keyring
  MaxByte, MaxChanges, MaxKeyStarts,
  Requests, Env, MaxRestarts,                                 \* AudioSwitch
  Protocols, HistoryLimit, MaxSessions, MaxRuns, MaxTime      \* Registry

VARIABLES
  part,
  out_queue, writing, text, flight, broken, sent, arrived,
  ring, file, stale, changes, sess,
  on, setting, req, choice, crossed, unwritten, restarts,
  sessions, usage, history, lastId, now, work, ran, ended

sendVars == <<out_queue, writing, text, flight, broken, sent, arrived>>
keyVars == <<ring, file, stale, changes, sess>>
switchVars == <<on, setting, req, choice, crossed, unwritten, restarts>>
tableVars == <<sessions, usage, history, lastId, now, work, ran, ended>>

Send == INSTANCE SessionSend WITH failed <- broken
Keys == INSTANCE Keyring WITH Sessions <- Streams, MaxStarts <- MaxKeyStarts
Switch == INSTANCE AudioSwitch WITH failed <- unwritten
Tables == INSTANCE Registry WITH MaxStarts <- MaxRuns, told <- ran

\* A key as typed is all hex or not, so many digits, and the number they make.
ASSUME TypedAssumption == Typed \subseteq [hex : BOOLEAN, digits : Nat, v : Nat]
\* A network is of a protocol family and on a channel; 0 is none known.
ASSUME NetsAssumption == Nets \in Seq([fam : STRING, freq : Nat]) /\ Freqs \subseteq Nat
ASSUME KindsAssumption == Kinds \subseteq {Keys!NetKeyKinds[i].id : i \in 1..7}
\* Where a start message is and a protocol are told apart.
ASSUME TablesAssumption ==
  Protocols \cap {"idle", "running"} = {} /\ HistoryLimit \in Nat /\ MaxSessions \in Nat

ServerInit ==
  /\ part \in Parts
  /\ Init /\ Send!Init /\ Keys!Init /\ Switch!Init /\ Tables!Init

OfPorts(A) ==
  part = "ports" /\ A /\ UNCHANGED <<part, sendVars, keyVars, switchVars, tableVars>>
OfSend(A) ==
  part = "send" /\ A /\ UNCHANGED <<part, vars, keyVars, switchVars, tableVars>>
OfKeys(A) ==
  part = "keys" /\ A /\ UNCHANGED <<part, vars, sendVars, switchVars, tableVars>>
OfSwitch(A) ==
  part = "switch" /\ A /\ UNCHANGED <<part, vars, sendVars, keyVars, tableVars>>
OfTables(A) ==
  part = "tables" /\ A /\ UNCHANGED <<part, vars, sendVars, keyVars, switchVars>>

ServerNext ==
  \/ OfPorts(Next) \/ OfSend(Send!Next)
  \/ OfKeys(Keys!Next) \/ OfSwitch(Switch!Next) \/ OfTables(Tables!Next)

serverVars == <<part, vars, sendVars, keyVars, switchVars, tableVars>>

\* A started write completes.
ServerSpec ==
  /\ ServerInit /\ [][ServerNext]_serverVars
  /\ WF_sendVars(OfSend(Send!Written \/ Send!WriteFailed))

-----------------------------------------------------------------------------
\* The outgoing frames implement the stream the client relies on (SessionSend).
StreamSpec == Send!StreamSpec

\* Every frame arrives unless the connection breaks (SessionSend).
EveryFrameArrives == Send!EveryFrameArrives

\* A restart brings back every key as it was last set (Keyring).
KeysSurvive == Keys!KeysSurvive

\* A decoder runs with the keys of its channel (Keyring).
StreamsHaveTheirKeys == Keys!StreamsHaveTheirKeys

\* A restart finds the Audio switch as it was last set (AudioSwitch).
ChoiceIsRemembered == Switch!ChoiceIsRemembered

\* The protocols view and the history show what was run, and by whom (Registry).
TablesAreTheRuns == Tables!TablesAreTheRuns
=============================================================================
