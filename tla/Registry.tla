------------------------------ MODULE Registry ------------------------------
(***************************************************************************)
(* The server's tables for the status page (server_stats.hpp, ServerStats):*)
(* the live sessions, the usage of every protocol over the whole run, the  *)
(* bounded history, and the calls the sessions make on them, in the order  *)
(* session.cpp makes them.  Every method takes one mutex.  The log of      *)
(* frames and the rows' other details are left out.                        *)
(***************************************************************************)
EXTENDS Naturals, Sequences, FiniteSets, TLC, SequencesExt

CONSTANTS
  Protocols,     \* protocol labels
  HistoryLimit,  \* history_limit_
  MaxSessions,   \* bound: connections
  MaxStarts,     \* bound: start messages of a session
  MaxTime        \* bound: the clock

VARIABLES
  sessions,      \* id -> [protocol, active, since, used, requested, starts]
  usage,         \* protocol -> [requests, starts, sessions, decode]
  history,       \* finished sessions, oldest first
  lastId,        \* last_id_ and total_sessions_: always the same number
  now,           \* the steady clock
  work,          \* where each session's start message is: "idle", the protocol asked for, "running"
  told,          \* history: [time, starts, users] by protocol, as it happened
  ended          \* history: the sessions that ended, in order

vars == <<sessions, usage, history, lastId, now, work, told, ended>>
tables == <<usage, history>>

None == "-"
Without(f, S) == [x \in DOMAIN f \ S |-> f[x]]
NewUse == [requests |-> 0, starts |-> 0, sessions |-> 0, decode |-> 0]
Use(u, p) == IF p \in DOMAIN u THEN u[p] ELSE NewUse
Put(f, x, v) == [y \in DOMAIN f \cup {x} |-> IF y = x THEN v ELSE f[y]]
Once(seq, p) == IF p \in ToSet(seq) THEN seq ELSE Append(seq, p)

\* Bank a running pipeline's time.
CloseActive(u, row) ==
  Put(u, row.protocol, [Use(u, row.protocol) EXCEPT !.decode = @ + (now - row.since)])

AddSession ==
  /\ lastId < MaxSessions /\ lastId' = lastId + 1
  /\ sessions' = Put(sessions, lastId', [protocol |-> None, active |-> FALSE, since |-> 0, used |-> <<>>,
                                         requested |-> <<>>, starts |-> 0])
  /\ work' = Put(work, lastId', "idle")
  /\ UNCHANGED <<tables, now, told, ended>>

\* A start message: counted whether or not the pipeline comes up.
NoteRequest(id) ==
  /\ work[id] = "idle" /\ sessions[id].starts < MaxStarts
  /\ \E p \in Protocols :
       /\ sessions' = [sessions EXCEPT ![id].requested = Once(@, p), ![id].starts = @ + 1]
       /\ usage' = Put(usage, p, [Use(usage, p) EXCEPT !.requests = @ + 1])
       /\ work' = [work EXCEPT ![id] = p]
  /\ UNCHANGED <<history, lastId, now, told, ended>>

\* Fault: every start counts a session.
SetProtocolEachStart(id) ==
  LET p == work[id]
      u == Use(usage, p)
  IN /\ p \in Protocols
     /\ sessions' = [sessions EXCEPT ![id] = [sessions[id] EXCEPT !.protocol = p, !.active = TRUE, !.since = now,
                                                                 !.used = Once(@, p)]]
     /\ usage' = Put(usage, p, [u EXCEPT !.starts = @ + 1, !.sessions = @ + 1])
     /\ work' = [work EXCEPT ![id] = "running"]
     /\ told' = [told EXCEPT ![p] = [told[p] EXCEPT !.starts = @ + 1, !.users = @ \cup {id}]]
     /\ UNCHANGED <<history, lastId, now, ended>>
\* The pipeline is up: a protocol's session is counted when it first runs it.
SetProtocol(id) ==
  LET p == work[id]
      row == sessions[id]
      u1 == IF row.active THEN CloseActive(usage, row) ELSE usage
      u == Use(u1, p)
      first == p \notin ToSet(row.used)
  IN /\ p \in Protocols
     /\ sessions' = [sessions EXCEPT ![id] = [sessions[id] EXCEPT !.protocol = p, !.active = TRUE, !.since = now,
                                                                 !.used = Once(@, p)]]
     /\ usage' = Put(u1, p, [u EXCEPT !.starts = @ + 1, !.sessions = @ + IF first THEN 1 ELSE 0])
     /\ work' = [work EXCEPT ![id] = "running"]
     /\ told' = [told EXCEPT ![p] = [told[p] EXCEPT !.starts = @ + 1, !.users = @ \cup {id}]]
     /\ UNCHANGED <<history, lastId, now, ended>>
StartFails(id) ==
  work[id] \in Protocols /\ work' = [work EXCEPT ![id] = "idle"]
  /\ UNCHANGED <<sessions, tables, lastId, now, told, ended>>

SetPipelineInactive(id) ==
  /\ work[id] = "running" /\ work' = [work EXCEPT ![id] = "idle"]
  /\ usage' = IF sessions[id].active THEN CloseActive(usage, sessions[id]) ELSE usage
  /\ sessions' = [sessions EXCEPT ![id].active = FALSE]
  /\ UNCHANGED <<history, lastId, now, told, ended>>

Newest(seq, n) == IF Len(seq) <= n THEN seq ELSE SubSeq(seq, Len(seq) - n + 1, Len(seq))

\* The session's pipeline was stopped before it leaves.
RemoveSession(id) ==
  LET row == sessions[id]
  IN /\ work[id] = "idle"
     /\ usage' = IF row.active THEN CloseActive(usage, row) ELSE usage
     /\ history' = Newest(Append(history, [id |-> id, used |-> row.used]), HistoryLimit)
     /\ sessions' = Without(sessions, {id}) /\ work' = Without(work, {id})
     /\ ended' = Append(ended, id)
     /\ UNCHANGED <<lastId, now, told>>

Tick ==
  /\ now < MaxTime /\ now' = now + 1
  /\ told' = [p \in Protocols |->
       [told[p] EXCEPT !.time = @ + Cardinality({s \in DOMAIN sessions : sessions[s].active /\ sessions[s].protocol = p})]]
  /\ UNCHANGED <<sessions, tables, lastId, work, ended>>

Init ==
  /\ sessions = <<>> /\ usage = <<>> /\ history = <<>> /\ lastId = 0 /\ now = 0
  /\ work = <<>> /\ ended = <<>>
  /\ told = [p \in Protocols |-> [time |-> 0, starts |-> 0, users |-> {}]]

Next ==
  \/ AddSession \/ Tick
  \/ \E id \in DOMAIN sessions :
       \/ NoteRequest(id) \/ SetProtocol(id) \/ StartFails(id)
       \/ SetPipelineInactive(id) \/ RemoveSession(id)

Spec == Init /\ [][Next]_vars

----------------------------------------------------------------------------
\* snapshot(): the usage with the time of the pipelines still running.
ActiveNow(p) == {s \in DOMAIN sessions : sessions[s].active /\ sessions[s].protocol = p}
TimeNow(p) == [s \in 1..MaxSessions |-> IF s \in ActiveNow(p) THEN now - sessions[s].since ELSE 0]
DecodeTime(p) == FoldLeft(LAMBDA a, t : a + t, Use(usage, p).decode, TimeNow(p))

\* What the protocols view shows over a whole run is what was run: the time
\* its pipelines were up, each start once, each session once per protocol,
\* and never more starts than requests; across failed starts, restarts,
\* changes of protocol and disconnects while decoding.
UsageIsTheRuns ==
  \A p \in Protocols :
    /\ DecodeTime(p) = told[p].time
    /\ Use(usage, p).starts = told[p].starts
    /\ Use(usage, p).sessions = Cardinality(told[p].users)
    /\ Use(usage, p).starts + Cardinality({s \in DOMAIN work : work[s] = p}) <= Use(usage, p).requests

\* The history is the sessions that ended last, in order, and none of them is
\* still listed as connected; every connection is one or the other.
HistoryIsRecent ==
  /\ [i \in DOMAIN history |-> history[i].id] = Newest(ended, HistoryLimit)
  /\ ToSet(ended) \cap DOMAIN sessions = {}
  /\ ToSet(ended) \cup DOMAIN sessions = 1..lastId
  /\ \A i \in DOMAIN history : \A p \in Protocols :
       p \in ToSet(history[i].used) <=> history[i].id \in told[p].users

\* The two tables of the page: what was run, and who ran it.
TablesAreTheRuns == UsageIsTheRuns /\ HistoryIsRecent
=============================================================================
