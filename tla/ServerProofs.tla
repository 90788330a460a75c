---------------------------- MODULE ServerProofs ----------------------------
(***************************************************************************)
(* What the server keeps for its sessions, for any number of sessions,     *)
(* ports and key files, every keyring, every number of requests and of     *)
(* frames: ports and key lists are exclusive, the last choice on the Audio *)
(* switch and every key survive a restart, a decoder runs with the keys of *)
(* its channel, the status tables show what was run, and frames arrive as  *)
(* they were sent.                                                         *)
(***************************************************************************)
EXTENDS Server, SequenceTheorems, FiniteSetTheorems, TLAPS

-----------------------------------------------------------------------------
(* Ports and key lists: start_pipeline, stop_pipeline and restart_pipeline *)
(* of any number of sessions.                                              *)
(* The inductive invariant.                                                *)

\* A session whose decoder is stopped has no socket bound.
BoundInv == \A s \in Sessions : up[s] = "no" => bound[s] = NoPort

\* Past stop_pipeline's first half no decoder runs; a decoder is spawned with a
\* port, and a running FM pipeline has told its client the port it owns.
UpInv ==
  \A s \in Sessions :
    /\ pc[s] \in {"release", "acquire", "spawn"} => up[s] = "no"
    /\ pc[s] = "spawn" => port[s] # NoPort
    /\ up[s] = "Fm" => port[s] = told[s] /\ port[s] # NoPort

\* A restart carries the port its client was told through stop_pipeline to the
\* new decoder.
RestartInv ==
  \A s \in Sessions : op[s].kind = "restart" =>
    /\ pc[s] # "idle" /\ op[s].chain = "Fm"
    /\ pc[s] = "stop" => up[s] = "Fm"
    /\ pc[s] \in {"stop", "release", "acquire"} => pending[s] = told[s] /\ told[s] # NoPort
    /\ pc[s] = "spawn" => port[s] = told[s]

\* A port is pending only for a restart, which is giving up that very port; a
\* socket is bound to its session's port.
PendingInv ==
  \A s \in Sessions :
    /\ bound[s] \in {NoPort, port[s]}
    /\ pending[s] # NoPort =>
         /\ op[s].kind = "restart" /\ pc[s] \in {"stop", "release", "acquire"}
         /\ pc[s] # "acquire" => port[s] = pending[s]

\* What an idle session still names, and will forget at its next start, is what a
\* failed start left.
LeftInv ==
  \A s \in Sessions : up[s] = "no" /\ pc[s] \in {"idle", "stop", "acquire"} =>
    port[s] \in lost_ports \cup {NoPort} /\ klist[s] \in lost_lists \cup {NoFile}

PortsInv ==
  /\ TypeOK /\ BoundInv /\ UpInv /\ RestartInv /\ PendingInv /\ LeftInv
  /\ PortsExclusive /\ KeyListsExclusive /\ PortsAccounted /\ KeyListsAccounted

\* Before any client starts a pipeline the inductive invariant holds.
LEMMA PortsBegin == Init => PortsInv
<1> SUFFICES ASSUME Init PROVE PortsInv
  OBVIOUS
<1>1. TypeOK
  <2>1. starts \in 0..MaxStarts
    BY LimitAssumption DEF Init
  <2> QED
    BY <2>1 DEF Init, TypeOK, Ops
<1>2. BoundInv /\ UpInv /\ RestartInv /\ PendingInv /\ LeftInv
  BY DEF Init, BoundInv, UpInv, RestartInv, PendingInv, LeftInv
<1>3. PortsExclusive /\ KeyListsExclusive /\ PortsAccounted /\ KeyListsAccounted
  BY DEF Init, PortsExclusive, KeyListsExclusive, PortsAccounted, KeyListsAccounted, Holds
<1> QED
  BY <1>1, <1>2, <1>3 DEF PortsInv

-----------------------------------------------------------------------------
(* One lemma per kind of state a step can disturb.                         *)

\* What a session does next stays of its type when only its kind changes.
LEMMA KindChanges ==
  ASSUME TypeOK, NEW s \in Sessions, NEW k \in {"none", "start", "restart", "stop"},
         op' = [op EXCEPT ![s].kind = k]
  PROVE  op' \in [Sessions -> Ops]
<1>1. op \in [Sessions -> Ops] BY DEF TypeOK
<1>2. op[s] \in Ops BY <1>1
<1>3. [op[s] EXCEPT !.kind = k] \in Ops BY ONLY <1>2, k \in {"none", "start", "restart", "stop"} DEF Ops
<1>4. op' = [op EXCEPT ![s] = [op[s] EXCEPT !.kind = k]] BY <1>1
<1> QED BY ONLY <1>1, <1>3, <1>4

\* Nor does the end of start_pipeline leave the types.
LEMMA StartedTypes ==
  ASSUME TypeOK, NEW s \in Sessions, NEW chain \in {"Fm", "Other"}, Started(s, chain),
         pc' = [pc EXCEPT ![s] = "idle"], bound' = [bound EXCEPT ![s] = port[s]] \/ bound' = bound
  PROVE  TypeOK'
<1>1. /\ up' = [up EXCEPT ![s] = chain] /\ told' = [told EXCEPT ![s] = port[s]]
      /\ last' = [last EXCEPT ![s] = op[s].offset] /\ offset' = [offset EXCEPT ![s] = op[s].offset]
      /\ op' = [op EXCEPT ![s].kind = "none"] /\ UNCHANGED <<ports, lists, conn, starts>>
  BY Zenon DEF Started
<1>2. op' \in [Sessions -> Ops] BY <1>1, KindChanges
<1>3. op[s].offset \in Offsets BY DEF TypeOK, Ops
<1>4. /\ pc' \in [Sessions -> {"idle", "stop", "release", "acquire", "spawn"}]
      /\ up' \in [Sessions -> {"no", "Fm", "Other"}]
      /\ last' \in [Sessions -> Offsets] /\ offset' \in [Sessions -> Offsets]
  BY <1>1, <1>3 DEF TypeOK
<1>5. /\ told' \in [Sessions -> Ports \cup {NoPort}] /\ bound' \in [Sessions -> Ports \cup {NoPort}]
  BY <1>1 DEF TypeOK
<1> QED BY <1>1, <1>2, <1>4, <1>5 DEF TypeOK, ports, lists

\* No step of start_pipeline, stop_pipeline or restart_pipeline leaves the types.
LEMMA TypeStep ==
  ASSUME TypeOK, UpInv, NEW s \in Sessions, Session(s)
  PROVE  TypeOK'
<1> USE LimitAssumption, FileAssumption
<1> USE DEF TypeOK, Ops, At, AfterStop, Found, ports, lists, lost, client
<1>1. ASSUME NEW c \in {"Fm", "Other"}, NEW o \in Offsets, OnStart(s, c, o) PROVE TypeOK'
  BY <1>1 DEF OnStart
<1>2. CASE Restart(s)
  BY <1>2 DEF Restart
<1>3. CASE OnStop(s)
  <2>1. conn' \in [Sessions -> BOOLEAN]
    BY <1>3, Zenon DEF OnStop
  <2>2. /\ op' = [op EXCEPT ![s].kind = "stop"] /\ pc' = [pc EXCEPT ![s] = "stop"]
        /\ UNCHANGED <<ports, lists, told, last, offset, up, bound, starts>>
    BY <1>3, Zenon DEF OnStop
  <2>3. op' \in [Sessions -> Ops]
    BY ONLY <2>2, KindChanges, TypeOK, s \in Sessions
  <2> QED
    BY <2>1, <2>2, <2>3
<1>4. CASE StopIdle(s)
  BY <1>4 DEF StopIdle
<1>5. CASE StopDecoder(s)
  BY <1>5 DEF StopDecoder
<1>6. CASE Release(s)
  BY <1>6 DEF Release
<1>7. CASE Reject(s)
  <2>1. /\ op' = [op EXCEPT ![s].kind = "none"] /\ pc' = [pc EXCEPT ![s] = "idle"]
        /\ UNCHANGED <<ports, lists, client, up, bound, starts>>
    BY <1>7, Zenon DEF Reject
  <2>2. op' \in [Sessions -> Ops]
    BY <2>1, KindChanges
  <2> HIDE DEF Ops
  <2>3. pc' \in [Sessions -> {"idle", "stop", "release", "acquire", "spawn"}]
    BY <2>1
  <2> QED
    BY <2>1, <2>2, <2>3
<1>8. CASE Acquire(s)
  <2> HIDE DEF Ops
  <2>1. pc' = [pc EXCEPT ![s] = "spawn"] /\ pending' = [pending EXCEPT ![s] = NoPort]
    BY <1>8, Zenon DEF Acquire
  <2>2. port' \in [Sessions -> Ports \cup {NoPort}] /\ in_use' \in SUBSET Ports
    <3>1. CASE pending[s] # NoPort
      <4>1. port' = [port EXCEPT ![s] = pending[s]] /\ in_use' = in_use
        BY <1>8, <3>1, Zenon DEF Acquire
      <4> QED
        BY <4>1
    <3>2. CASE pending[s] = NoPort
      <4>1. PICK p \in Ports : port' = [port EXCEPT ![s] = p] /\ in_use' = in_use \cup {p}
        BY <1>8, <3>2, Zenon DEF Acquire
      <4> QED
        BY <4>1
    <3> QED
      BY <3>1, <3>2
  <2>3. disk' \in SUBSET KeyFiles /\ klist' \in [Sessions -> KeyFiles \cup {NoFile}]
    <3>1. \/ disk' = disk /\ klist' = klist
          \/ \E f \in KeyFiles : disk' = disk \cup {f} /\ klist' = [klist EXCEPT ![s] = f]
      BY <1>8, Zenon DEF Acquire
    <3> QED
      BY <3>1
  <2>4. UNCHANGED <<lost, client, op, up, bound, starts>>
    BY <1>8, Zenon DEF Acquire
  <2>5. /\ pc' \in [Sessions -> {"idle", "stop", "release", "acquire", "spawn"}]
        /\ pending' \in [Sessions -> Ports \cup {NoPort}]
    BY <2>1
  <2> QED
    BY <2>2, <2>3, <2>4, <2>5
<1>9. CASE SpawnFails(s)
  <2>1. port[s] \in Ports /\ klist[s] \in KeyFiles \cup {NoFile}
    BY <1>9 DEF SpawnFails, UpInv
  <2>2. lost_ports' \in SUBSET Ports /\ lost_lists' \in SUBSET KeyFiles
    BY <1>9, <2>1 DEF SpawnFails
  <2>3. /\ op' = [op EXCEPT ![s].kind = "none"] /\ pc' = [pc EXCEPT ![s] = "idle"]
        /\ UNCHANGED <<in_use, port, pending, disk, klist, client, up, bound, starts>>
    BY <1>9, Zenon DEF SpawnFails
  <2>4. op' \in [Sessions -> Ops]
    BY <2>3, KindChanges
  <2> HIDE DEF Ops
  <2>5. pc' \in [Sessions -> {"idle", "stop", "release", "acquire", "spawn"}]
    BY <2>3
  <2> QED
    BY <2>2, <2>3, <2>4, <2>5
<1>10. CASE SpawnOk(s)
  <2>1. Started(s, "Fm") /\ pc' = [pc EXCEPT ![s] = "idle"]
    BY <1>10, Zenon DEF SpawnOk
  <2>2. bound' = [bound EXCEPT ![s] = port[s]] \/ bound' = bound
    BY <1>10, Zenon DEF SpawnOk
  <2> QED
    BY ONLY <2>1, <2>2, StartedTypes, TypeOK, s \in Sessions
<1>11. CASE StartOther(s)
  <2>1. Started(s, "Other") /\ pc' = [pc EXCEPT ![s] = "idle"] /\ bound' = bound
    BY <1>11, Zenon DEF StartOther
  <2> QED
    BY ONLY <2>1, StartedTypes, TypeOK, s \in Sessions
<1>12. ASSUME NEW o \in Offsets, SetFreqOffset(s, o) PROVE TypeOK'
  BY <1>12 DEF SetFreqOffset
<1> QED
  BY <1>1, <1>2, <1>3, <1>4, <1>5, <1>6, <1>7, <1>8, <1>9, <1>10, <1>11, <1>12 DEF Session

\* Every step keeps what a decoder, its socket and a restart in progress rely on.
LEMMA ControlStep ==
  ASSUME TypeOK, BoundInv, UpInv, RestartInv, NEW s \in Sessions, Session(s)
  PROVE  BoundInv' /\ UpInv' /\ RestartInv'
<1> USE PortAssumption
<1> USE DEF TypeOK, Ops, At, AfterStop, ports, lists, lost, client, BoundInv, UpInv, RestartInv
<1>1. ASSUME NEW c \in {"Fm", "Other"}, NEW o \in Offsets, OnStart(s, c, o)
      PROVE BoundInv' /\ UpInv' /\ RestartInv'
  BY <1>1 DEF OnStart
<1>2. CASE Restart(s)
  BY <1>2 DEF Restart
<1>3. CASE OnStop(s)
  BY <1>3 DEF OnStop
<1>4. CASE StopIdle(s)
  BY <1>4 DEF StopIdle
<1>5. CASE StopDecoder(s)
  BY <1>5 DEF StopDecoder
<1>6. CASE Release(s)
  BY <1>6 DEF Release
<1>7. CASE Reject(s)
  BY <1>7 DEF Reject
<1>8. CASE Acquire(s)
  BY <1>8 DEF Acquire
<1>9. CASE SpawnFails(s)
  BY <1>9 DEF SpawnFails
<1>10. CASE SpawnOk(s)
  BY <1>10 DEF SpawnOk, Started
<1>11. CASE StartOther(s)
  BY <1>11 DEF StartOther, Started
<1>12. ASSUME NEW o \in Offsets, SetFreqOffset(s, o) PROVE BoundInv' /\ UpInv' /\ RestartInv'
  BY <1>12 DEF SetFreqOffset
<1> QED
  BY <1>1, <1>2, <1>3, <1>4, <1>5, <1>6, <1>7, <1>8, <1>9, <1>10, <1>11, <1>12 DEF Session

-----------------------------------------------------------------------------
(* Ports and key lists.                                                    *)

\* The port a start takes was nobody's, a restart's is its own, and what is
\* released nobody else stands on.
LEMMA PortStep ==
  ASSUME TypeOK, BoundInv, UpInv, PortsExclusive, NEW s \in Sessions, Session(s)
  PROVE  PortsExclusive'
<1> USE PortAssumption
<1> USE DEF TypeOK, At, ports, lists, lost, client
<1>1. ASSUME Holds(s)' \subseteq Holds(s), Holds(s)' \subseteq in_use',
             \A r \in Sessions \ {s} : Holds(r)' = Holds(r) /\ Holds(r) \subseteq in_use'
      PROVE  PortsExclusive'
  <2> SUFFICES ASSUME NEW q \in Sessions, NEW r \in Sessions \ {q}
               PROVE  Holds(q)' \cap Holds(r)' = {}
    BY <1>1 DEF PortsExclusive
  <2>1. Holds(q) \cap Holds(r) = {}
    BY DEF PortsExclusive
  <2>2. Holds(q)' \subseteq Holds(q) /\ Holds(r)' \subseteq Holds(r)
    BY <1>1
  <2> QED
    BY <2>1, <2>2
<1>2. CASE Restart(s)
  <2>1. Holds(s)' \subseteq Holds(s) /\ in_use' = in_use
    BY <1>2 DEF Restart, Holds
  <2>2. \A r \in Sessions \ {s} : Holds(r)' = Holds(r)
    BY <1>2 DEF Restart, Holds
  <2> QED
    BY <1>1, <2>1, <2>2 DEF PortsExclusive
<1>3. CASE StopDecoder(s)
  <2>1. Holds(s)' \subseteq Holds(s) /\ in_use' = in_use
    BY <1>3 DEF StopDecoder, Holds
  <2>2. \A r \in Sessions \ {s} : Holds(r)' = Holds(r)
    BY <1>3 DEF StopDecoder, Holds
  <2> QED
    BY <1>1, <2>1, <2>2 DEF PortsExclusive
<1>4. CASE Release(s)
  <2>1. bound[s] = NoPort
    BY <1>4 DEF Release, UpInv, BoundInv
  <2>2. Holds(s)' \subseteq Holds(s) /\ Holds(s)' \subseteq in_use'
    BY <1>4, <2>1 DEF Release, Holds, PortsExclusive
  <2>3. \A r \in Sessions \ {s} : Holds(r)' = Holds(r) /\ Holds(r) \subseteq in_use'
    BY <1>4, SMTT(30) DEF Release, Holds, PortsExclusive
  <2> QED
    BY <1>1, <2>2, <2>3
<1>5. CASE Acquire(s) /\ pending[s] # NoPort
  <2>1. Holds(s)' \subseteq Holds(s) /\ in_use' = in_use
    BY <1>5 DEF Acquire, Holds
  <2>2. \A r \in Sessions \ {s} : Holds(r)' = Holds(r)
    BY <1>5 DEF Acquire, Holds
  <2> QED
    BY <1>1, <2>1, <2>2 DEF PortsExclusive
<1>6. CASE Acquire(s) /\ pending[s] = NoPort
  <2>1. PICK p \in Ports \ in_use :
          port' = [port EXCEPT ![s] = p] /\ in_use' = in_use \cup {p}
    BY <1>6 DEF Acquire
  <2>2. Holds(s)' \subseteq Holds(s) \cup {p}
    BY <1>6, <2>1 DEF Acquire, Holds
  <2>3. \A r \in Sessions \ {s} : Holds(r)' = Holds(r) /\ p \notin Holds(r)
    BY <1>6, <2>1 DEF Acquire, Holds, PortsExclusive
  <2>4. \A r \in Sessions \ {s} : Holds(s)' \cap Holds(r)' = {}
    BY <2>2, <2>3 DEF PortsExclusive
  <2>5. \A r \in Sessions \ {s} : Holds(r)' \subseteq in_use'
    BY <2>1, <2>3 DEF PortsExclusive
  <2>6. Holds(s)' \subseteq in_use'
    BY <2>1, <2>2 DEF PortsExclusive
  <2> QED
    BY <2>3, <2>4, <2>5, <2>6 DEF PortsExclusive
<1>7. CASE SpawnOk(s)
  <2>1. Holds(s)' \subseteq Holds(s) /\ in_use' = in_use
    BY <1>7 DEF SpawnOk, Started, Holds
  <2>2. \A r \in Sessions \ {s} : Holds(r)' = Holds(r)
    BY <1>7 DEF SpawnOk, Started, Holds
  <2> QED
    BY <1>1, <2>1, <2>2 DEF PortsExclusive
<1>8. CASE \/ \E c \in {"Fm", "Other"}, o \in Offsets : OnStart(s, c, o)
           \/ OnStop(s) \/ StopIdle(s) \/ Reject(s) \/ SpawnFails(s) \/ StartOther(s)
           \/ \E o \in Offsets : SetFreqOffset(s, o)
  <2>1. UNCHANGED <<in_use, port, pending, bound>>
    BY <1>8 DEF OnStart, OnStop, StopIdle, Reject, SpawnFails, StartOther, Started,
                SetFreqOffset
  <2> QED
    BY <2>1 DEF PortsExclusive, Holds
<1> QED
  BY <1>2, <1>3, <1>4, <1>5, <1>6, <1>7, <1>8 DEF Session

\* Every step keeps pending ports, bound sockets and what failed starts left.
LEMMA LeftStep ==
  ASSUME TypeOK, BoundInv, UpInv, RestartInv, PendingInv, LeftInv, PortsExclusive,
         KeyListsExclusive, NEW s \in Sessions, Session(s)
  PROVE  PendingInv' /\ LeftInv'
<1> USE PortAssumption, FileAssumption
<1> USE DEF TypeOK, Ops, At, AfterStop, ports, lists, lost, client, PendingInv, LeftInv
<1>1. CASE Restart(s)
  BY <1>1 DEF Restart, UpInv
<1>2. CASE StopDecoder(s)
  BY <1>2 DEF StopDecoder
<1>3. CASE Release(s)
  <2>1. PendingInv'
    BY <1>3 DEF Release, BoundInv, UpInv
  <2>2. ASSUME NEW r \in Sessions \ {s}, port[r] # NoPort PROVE port[r] # port[s]
    <3>1. port[r] \in Holds(r) /\ Holds(r) \cap Holds(s) = {}
      BY <2>2 DEF PortsExclusive, Holds
    <3> QED
      BY <3>1, <2>2 DEF Holds
  <2>3. \A r \in Sessions \ {s} : klist[r] # NoFile => klist[r] # klist[s]
    BY DEF KeyListsExclusive
  <2> QED
    BY <1>3, <2>1, <2>2, <2>3 DEF Release, Found
<1>4. CASE Acquire(s)
  BY <1>4 DEF Acquire, BoundInv, UpInv
<1>5. CASE SpawnFails(s)
  BY <1>5 DEF SpawnFails
<1>6. CASE SpawnOk(s)
  BY <1>6 DEF SpawnOk, Started
<1>7. CASE StartOther(s)
  BY <1>7 DEF StartOther, Started, RestartInv
<1>8. CASE \/ \E c \in {"Fm", "Other"}, o \in Offsets : OnStart(s, c, o)
           \/ OnStop(s) \/ StopIdle(s) \/ Reject(s)
           \/ \E o \in Offsets : SetFreqOffset(s, o)
  <2>1. /\ UNCHANGED <<up, port, pending, bound, klist, lost_ports, lost_lists>>
        /\ \A r \in Sessions \ {s} : pc'[r] = pc[r] /\ op'[r] = op[r]
        /\ pc'[s] \in {"idle", "stop", "acquire"}
    BY <1>8 DEF OnStart, OnStop, StopIdle, Reject, SetFreqOffset
  <2>2. pc[s] \in {"idle", "stop", "acquire"} /\ (pc[s] # "idle" => pc'[s] # "stop")
    BY <1>8 DEF OnStart, OnStop, StopIdle, Reject, SetFreqOffset
  <2>3. pending[s] # NoPort => op'[s].kind = "restart" /\ pc'[s] = "acquire"
    BY <1>8 DEF OnStart, OnStop, StopIdle, Reject, SetFreqOffset, RestartInv
  <2> QED
    BY <2>1, <2>2, <2>3
<1> QED
  BY <1>1, <1>2, <1>3, <1>4, <1>5, <1>6, <1>7, <1>8 DEF Session

\* A port that leaves a session leaves in_use, or was left by a failed start.
LEMMA AccountStep ==
  ASSUME TypeOK, BoundInv, UpInv, RestartInv, PendingInv, LeftInv, PortsExclusive,
         PortsAccounted, NEW s \in Sessions, Session(s)
  PROVE  PortsAccounted'
<1> USE PortAssumption
<1> USE DEF TypeOK, At, ports, lists, lost, client
<1>1. ASSUME \A p \in in_use' : \/ p \in in_use /\ (p \in lost_ports => p \in lost_ports')
                                \/ p \in Holds(s)',
             \A p \in in_use' : p \in Holds(s) => p \in Holds(s)' \cup lost_ports',
             \A r \in Sessions \ {s} : Holds(r)' = Holds(r)
      PROVE  PortsAccounted'
  BY <1>1 DEF PortsAccounted
<1>2. CASE Restart(s)
  BY <1>1, <1>2 DEF Restart, Holds, PendingInv
<1>3. CASE StopDecoder(s)
  BY <1>1, <1>3 DEF StopDecoder, Holds, PendingInv
<1>4. CASE Release(s)
  <2>1. bound[s] = NoPort
    BY <1>4 DEF Release, UpInv, BoundInv
  <2>2. pending[s] # NoPort => port[s] = pending[s]
    BY <1>4 DEF Release, PendingInv
  <2> QED
    BY <1>1, <1>4, <2>1, <2>2 DEF Release, Found, Holds
<1>5. CASE Acquire(s)
  <2>1. bound[s] = NoPort /\ port[s] \in lost_ports \cup {NoPort}
    BY <1>5 DEF Acquire, UpInv, BoundInv, LeftInv
  <2> QED
    BY <1>1, <1>5, <2>1 DEF Acquire, Holds
<1>6. CASE SpawnOk(s)
  <2>1. bound[s] \in {NoPort, port[s]}
    BY DEF PendingInv
  <2> QED
    BY <1>1, <1>6, <2>1 DEF SpawnOk, Started, Holds
<1>7. CASE SpawnFails(s)
  BY <1>7 DEF SpawnFails, PortsAccounted, Holds
<1>8. CASE \/ \E c \in {"Fm", "Other"}, o \in Offsets : OnStart(s, c, o)
           \/ OnStop(s) \/ StopIdle(s) \/ Reject(s) \/ StartOther(s)
           \/ \E o \in Offsets : SetFreqOffset(s, o)
  <2>1. UNCHANGED <<in_use, port, pending, bound, lost_ports>>
    BY <1>8 DEF OnStart, OnStop, StopIdle, Reject, StartOther, Started, SetFreqOffset
  <2> QED
    BY <2>1 DEF PortsAccounted, Holds
<1> QED
  BY <1>2, <1>3, <1>4, <1>5, <1>6, <1>7, <1>8 DEF Session

\* A key list that leaves a session leaves the disk, or was left by a failed start.
LEMMA KeyListAccountStep ==
  ASSUME TypeOK, UpInv, LeftInv, KeyListsAccounted, NEW s \in Sessions, Session(s)
  PROVE  KeyListsAccounted'
<1> USE FileAssumption
<1> USE DEF TypeOK, At, ports, lists, lost, client
<1>1. CASE Release(s)
  BY <1>1 DEF Release, Found, KeyListsAccounted
<1>2. CASE Acquire(s)
  <2>1. klist[s] \in lost_lists \cup {NoFile}
    BY <1>2 DEF Acquire, UpInv, LeftInv
  <2> QED
    BY <1>2, <2>1 DEF Acquire, KeyListsAccounted
<1>3. CASE SpawnFails(s)
  BY <1>3 DEF SpawnFails, KeyListsAccounted
<1>4. CASE \/ \E c \in {"Fm", "Other"}, o \in Offsets : OnStart(s, c, o)
           \/ Restart(s) \/ OnStop(s) \/ StopIdle(s) \/ StopDecoder(s) \/ Reject(s)
           \/ SpawnOk(s) \/ StartOther(s)
           \/ \E o \in Offsets : SetFreqOffset(s, o)
  <2>1. UNCHANGED <<disk, klist, lost_lists>>
    BY <1>4 DEF OnStart, Restart, OnStop, StopIdle, StopDecoder, Reject, SpawnOk,
                StartOther, Started, SetFreqOffset
  <2> QED
    BY <2>1 DEF KeyListsAccounted
<1> QED
  BY <1>1, <1>2, <1>3, <1>4 DEF Session

\* mkstemp's name is nobody's, and a session removes its own list only.
LEMMA KeyListStep ==
  ASSUME TypeOK, KeyListsExclusive, NEW s \in Sessions, Session(s)
  PROVE  KeyListsExclusive'
<1> USE FileAssumption
<1> USE DEF TypeOK, At, KeyListsExclusive, ports, lists, lost, client
<1>1. CASE Release(s)
  BY <1>1 DEF Release
<1>2. CASE Acquire(s)
  BY <1>2 DEF Acquire
<1>3. CASE \/ \E c \in {"Fm", "Other"}, o \in Offsets : OnStart(s, c, o)
           \/ Restart(s) \/ OnStop(s) \/ StopIdle(s) \/ StopDecoder(s) \/ Reject(s)
           \/ SpawnFails(s) \/ SpawnOk(s) \/ StartOther(s)
           \/ \E o \in Offsets : SetFreqOffset(s, o)
  <2>1. UNCHANGED <<disk, klist>>
    BY <1>3 DEF OnStart, Restart, OnStop, StopIdle, StopDecoder, Reject, SpawnFails,
                SpawnOk, StartOther, Started, SetFreqOffset
  <2> QED
    BY <2>1
<1> QED
  BY <1>1, <1>2, <1>3 DEF Session

-----------------------------------------------------------------------------
(* The theorems.                                                           *)

\* The inductive invariant holds in every reachable state.
THEOREM PortsInvariance == Spec => []PortsInv
<1>1. PortsInv /\ [Next]_vars => PortsInv'
  <2> SUFFICES ASSUME PortsInv, [Next]_vars PROVE PortsInv'
    OBVIOUS
  <2>1. CASE UNCHANGED vars
    <3>1. (TypeOK /\ BoundInv /\ UpInv /\ RestartInv)'
      BY <2>1 DEF PortsInv, TypeOK, BoundInv, UpInv, RestartInv, vars, ports, lists, client
    <3>2. (PendingInv /\ LeftInv /\ KeyListsExclusive /\ KeyListsAccounted)'
      BY <2>1 DEF PortsInv, PendingInv, LeftInv, KeyListsExclusive, KeyListsAccounted, vars,
                  ports, lists, client
    <3>3. (PortsExclusive /\ PortsAccounted)'
      BY <2>1 DEF PortsInv, PortsExclusive, PortsAccounted, Holds, vars, ports, lists
    <3> QED
      BY <3>1, <3>2, <3>3 DEF PortsInv
  <2>2. ASSUME NEW s \in Sessions, Session(s) PROVE PortsInv'
    BY <2>2, TypeStep, ControlStep, PortStep, KeyListStep, LeftStep, AccountStep,
        KeyListAccountStep DEF PortsInv
  <2> QED
    BY <2>1, <2>2 DEF Next
<1> QED
  BY <1>1, PortsBegin, PTL DEF Spec

\* Every variable of every session keeps its type.
THEOREM PortTypes == Spec => []TypeOK
BY PortsInvariance, PTL DEF PortsInv

\* However many sessions start, stop, fail and restart at once, no two stand on
\* one UDP audio port.
THEOREM PortsSafe == Spec => []PortsExclusive
BY PortsInvariance, PTL DEF PortsInv

\* No two sessions share a key-list file, and a decoder's list is on disk.
THEOREM KeyListsSafe == Spec => []KeyListsExclusive
BY PortsInvariance, PTL DEF PortsInv

\* No port is lost for good, but those of decoders that failed to start.
THEOREM PortsComeBack == Spec => []PortsAccounted
BY PortsInvariance, PTL DEF PortsInv

\* No key list stays on disk, but those of decoders that failed to start.
THEOREM KeyListsComeBack == Spec => []KeyListsAccounted
BY PortsInvariance, PTL DEF PortsInv

\* A restart for new keys tells its client the port it already had.
THEOREM PortSurvivesRestart == Spec => RestartKeepsPort
<1>1. PortsInv /\ [Next]_vars =>
        [\A s \in Sessions : op[s].kind = "restart" => told'[s] = told[s]]_told
  <2> SUFFICES ASSUME PortsInv, Next, NEW s \in Sessions, op[s].kind = "restart"
               PROVE  told'[s] = told[s]
    BY DEF vars, client
  <2>1. PICK r \in Sessions : Session(r)
    BY DEF Next
  <2>2. CASE SpawnOk(r)
    BY <2>2 DEF SpawnOk, Started, At, PortsInv, TypeOK, RestartInv
  <2>3. CASE StartOther(r)
    BY <2>3 DEF StartOther, Started, At, PortsInv, TypeOK, RestartInv
  <2>4. CASE ~SpawnOk(r) /\ ~StartOther(r)
    BY <2>1, <2>4 DEF Session, OnStart, Restart, OnStop, StopIdle, StopDecoder, Release,
                      Reject, Acquire, SpawnFails, SetFreqOffset, client
  <2> QED
    BY <2>2, <2>3, <2>4
<1> QED
  BY <1>1, PortsInvariance, PTL DEF Spec, RestartKeepsPort

\* Beside everything else the server does, two sessions never stand on one port,
\* and a port somebody stands on is never offered.
THEOREM PortsStayExclusive == ServerSpec => []PortsExclusive
<1>1. ServerInit => Init
  BY DEF ServerInit
<1>2. [ServerNext]_serverVars => [Next]_vars
  BY DEF ServerNext, serverVars, OfPorts, OfSend, OfKeys, OfSwitch, OfTables
<1> QED BY <1>1, <1>2, PortsSafe, PTL DEF ServerSpec, Spec

-----------------------------------------------------------------------------
(* The Audio switch.  Requests that do not cross write one after another,  *)
(* so the one that still has to write its choice is the last that took     *)
(* effect; without it the invariant could not tell what the write leaves.  *)

SwitchType == req \in [Requests -> [at : {"sent", "write", "done"}, ask : BOOLEAN]]
OneInFlight == ~crossed => \A r, q \in Requests : req[r].at = "write" /\ req[q].at = "write" => r = q
InFlightIsChoice == ~crossed => \A r \in Requests : req[r].at = "write" => Switch!Word(req[r].ask) = choice
Remembered == (\A r \in Requests : req[r].at # "write") /\ ~crossed /\ ~unwritten => setting = choice
\* (Remembered is ChoiceIsRemembered, without its set of requests.)
SwitchInv == SwitchType /\ OneInFlight /\ InFlightIsChoice /\ Remembered

\* At first the choice is the saved one and no request is on its way.
LEMMA SwitchBegins == Switch!Init => SwitchInv
<1> SUFFICES ASSUME Switch!Init PROVE SwitchInv OBVIOUS
<1> USE DEF Switch!Init
<1>1. SwitchType BY DEF SwitchType
<1>2. OneInFlight BY DEF OneInFlight
<1>3. InFlightIsChoice BY DEF InFlightIsChoice
<1>4. Remembered BY DEF Remembered
<1> QED BY <1>1, <1>2, <1>3, <1>4 DEF SwitchInv

\* A request takes effect, writes its choice, or the server restarts.
LEMMA SwitchStep == SwitchInv /\ Switch!Next => SwitchInv'
<1> USE DEF SwitchInv
<1>1. ASSUME SwitchInv, NEW r \in Requests, Switch!Apply(r)
      PROVE SwitchInv'
  <2>1. PICK ask \in BOOLEAN :
          \/ /\ req' = [req EXCEPT ![r] = [at |-> "write", ask |-> ask]]
             /\ choice' = Switch!Word(ask)
             /\ ~crossed' => \A q \in Requests : req[q].at # "write"
          \/ /\ req' = [req EXCEPT ![r] = [at |-> "done", ask |-> ask]]
             /\ UNCHANGED <<choice, crossed>>
    BY <1>1 DEF Switch!Apply, Switch!InFlight, Switch!Waiting
  <2>2. req[r].at = "sent" /\ UNCHANGED <<setting, unwritten>> BY <1>1 DEF Switch!Apply
  <2> USE <1>1, <2>1, <2>2
  <2>3. SwitchType' BY DEF SwitchType
  <2>4. OneInFlight' BY DEF SwitchType, OneInFlight
  <2>5. InFlightIsChoice' BY DEF SwitchType, InFlightIsChoice, Switch!Word
  <2>6. Remembered' BY DEF SwitchType, Remembered
  <2> QED BY <2>3, <2>4, <2>5, <2>6
<1>2. ASSUME SwitchInv, NEW r \in Requests, Switch!Remember(r)
      PROVE SwitchInv'
  BY <1>2 DEF Switch!Remember, SwitchType, OneInFlight, InFlightIsChoice, Remembered, Switch!Word
<1>3. ASSUME SwitchInv, Switch!Restart
      PROVE SwitchInv'
  BY <1>3 DEF Switch!Restart, SwitchType, OneInFlight, InFlightIsChoice, Remembered, Switch!InFlight, Switch!Waiting
<1>4. QED BY <1>1, <1>2, <1>3 DEF Switch!Next

\* A restart finds the Audio switch as it was last set (remember_net_setting),
\* whatever requests there are and however often the server restarts.
THEOREM ChoiceIsKept == ServerSpec => []ChoiceIsRemembered
<1>1. ServerInit => SwitchInv
  BY SwitchBegins DEF ServerInit
<1>2. SwitchInv /\ [ServerNext]_serverVars => SwitchInv'
  <2>1. SwitchInv /\ UNCHANGED switchVars => SwitchInv'
    BY DEF switchVars, SwitchInv, SwitchType, OneInFlight, InFlightIsChoice, Remembered
  <2> QED BY <2>1, SwitchStep DEF ServerNext, serverVars, OfPorts, OfSend, OfKeys, OfSwitch, OfTables
<1>3. SwitchInv => ChoiceIsRemembered
  BY DEF SwitchInv, Remembered, ChoiceIsRemembered, Switch!ChoiceIsRemembered, Switch!InFlight, Switch!Waiting
<1>4. QED BY <1>1, <1>2, <1>3, PTL DEF ServerSpec

-----------------------------------------------------------------------------
(* The keyring.  What is in it, and in any whole file, is as the norms     *)
(* leave it, so that reading it back drops and changes nothing.            *)

KeyText == [hex : BOOLEAN, digits : Nat, v : Nat]

\* net_key_kinds: every kind has digits.
LEMMA KindDigits ==
  \A i \in 1..7 : Keys!NetKeyKinds[i].digits \in {4, 10, 32}
  BY DEF Keys!NetKeyKinds

\* A key of d digits stays as it is once it has them.
LEMMA HexNorm ==
  ASSUME NEW t \in KeyText, NEW d \in Nat \ {0}, Keys!HexKeyNorm(t, d) # Keys!NoKey
  PROVE  LET h == Keys!HexKeyNorm(t, d)
         IN h \in KeyText /\ h.digits = d /\ Keys!HexKeyNorm(h, d) = h
  BY DEF KeyText, Keys!HexKeyNorm, Keys!NoKey

\* A per-network key that was accepted is accepted again, and unchanged.
LEMMA NormOnce ==
  ASSUME NEW i \in 1..7, NEW t \in KeyText, Keys!NetKeyNorm(i, t) # Keys!NoKey
  PROVE  /\ Keys!NetKeyNorm(i, t) \in KeyText
         /\ Keys!NetKeyNorm(i, Keys!NetKeyNorm(i, t)) = Keys!NetKeyNorm(i, t)
<1> DEFINE k == Keys!NetKeyKinds[i]
<1>1. k.digits \in {4, 10, 32} BY KindDigits
<1>2. CASE k.allow256 /\ t.digits = 64
  <2>1. Keys!NetKeyNorm(i, t) = Keys!HexKeyNorm(t, 64) BY <1>2 DEF Keys!NetKeyNorm
  <2> HIDE DEF k
  <2> QED BY <2>1, <1>2, HexNorm DEF Keys!NetKeyNorm, k
<1>3. CASE ~(k.allow256 /\ t.digits = 64)
  <2>1. Keys!NetKeyNorm(i, t) = Keys!HexKeyNorm(t, k.digits) BY <1>3 DEF Keys!NetKeyNorm
  <2>2. Keys!NetKeyNorm(i, t).digits = k.digits BY <2>1, <1>1, HexNorm
  <2> QED BY <2>1, <2>2, <1>1, HexNorm DEF Keys!NetKeyNorm
<1> QED BY <1>2, <1>3

\* Rings whose entries are all well-formed.
Fn(f) == f = [x \in DOMAIN f |-> f[x]]

KeysOK(k) == Fn(k) /\ \A x \in DOMAIN k : Keys!KeyNormValue(k[x]) # Keys!NoKey
BpOK(b) == Fn(b) /\ \A n \in DOMAIN b : b[n] \in 1..255
SecretOK(k) == Fn(k) /\ \A x \in DOMAIN k : k[x] # Keys!NoKey /\ Keys!NetKeyNorm(x[1], k[x]) = k[x]
RingOK(r) ==
  /\ r = [keys |-> r.keys, bp |-> r.bp, secret |-> r.secret]
  /\ KeysOK(r.keys) /\ BpOK(r.bp) /\ SecretOK(r.secret)

KeysInv ==
  /\ RingOK(ring)
  /\ file = Keys!Torn \/ (RingOK(file.ring) /\ file = Keys!Written(file.ring))
  /\ Keys!KeysSurvive

\* A file cut off is read as an empty ring.
LEMMA EmptyRing == RingOK(Keys!NoRing) /\ Keys!Load(Keys!Torn) = Keys!NoRing
  BY DEF RingOK, KeysOK, BpOK, SecretOK, Fn, Keys!NoRing, Keys!Load, Keys!Torn

\* A ring that is written whole is read back as it was.
LEMMA LoadWritten == ASSUME NEW r, RingOK(r) PROVE Keys!Load(Keys!Written(r)) = r
<1>1. ASSUME NEW f, Fn(f), NEW S, S = {} PROVE Keys!Without(f, S) = f
  BY <1>1 DEF Fn, Keys!Without
<1> DEFINE secret == [x \in DOMAIN r.secret |-> Keys!NetKeyNorm(x[1], r.secret[x])]
<1>2. secret = r.secret BY DEF RingOK, SecretOK, Fn
<1>3. {x \in DOMAIN r.keys : Keys!KeyNormValue(r.keys[x]) = Keys!NoKey} = {} BY DEF RingOK, KeysOK
<1>4. {n \in DOMAIN r.bp : r.bp[n] \notin 1..255} = {} BY DEF RingOK, BpOK
<1>5. {x \in DOMAIN secret : secret[x] = Keys!NoKey} = {} BY <1>2 DEF RingOK, SecretOK
<1>6. Keys!Load(Keys!Written(r)) =
        [keys |-> Keys!Without(r.keys, {x \in DOMAIN r.keys : Keys!KeyNormValue(r.keys[x]) = Keys!NoKey}),
         bp |-> Keys!Without(r.bp, {n \in DOMAIN r.bp : r.bp[n] \notin 1..255}),
         secret |-> Keys!Without(secret, {x \in DOMAIN secret : secret[x] = Keys!NoKey})]
  BY Zenon DEF Keys!Load, Keys!Written
<1> HIDE DEF secret
<1>7. Fn(r.keys) /\ Fn(r.bp) /\ Fn(r.secret) BY DEF RingOK, KeysOK, BpOK, SecretOK
<1>8. Keys!Load(Keys!Written(r)) = [keys |-> r.keys, bp |-> r.bp, secret |-> r.secret]
  BY <1>1, <1>2, <1>3, <1>4, <1>5, <1>6, <1>7
<1> QED BY <1>8 DEF RingOK

\* A request leaves a well-formed ring, and in the file that or what was there.
LEMMA ChangeKeeps ==
  ASSUME KeysInv, NEW new, RingOK(new), Keys!Change(new) PROVE KeysInv'
<1>1. ring' = new BY DEF Keys!Change
<1>2. file' \in {Keys!Written(new), file, Keys!Torn} /\ (~stale' => file' = Keys!Written(new))
  BY DEF Keys!Change, Keys!Save
<1>3. Keys!Written(new).ring = new BY DEF Keys!Written
<1>4. file' = Keys!Torn \/ (RingOK(file'.ring) /\ file' = Keys!Written(file'.ring))
  BY <1>2, <1>3 DEF KeysInv
<1> QED BY <1>1, <1>2, <1>4, LoadWritten DEF KeysInv, Keys!KeysSurvive

\* One part of a ring changed, the others as they were.
LEMMA OnePart ==
  ASSUME NEW r, RingOK(r)
  PROVE  /\ \A k : KeysOK(k) => RingOK([r EXCEPT !.keys = k])
         /\ \A b : BpOK(b) => RingOK([r EXCEPT !.bp = b])
         /\ \A k : SecretOK(k) => RingOK([r EXCEPT !.secret = k])
  BY DEF RingOK

\* An entry that is set is well-formed, and one that is removed takes none along.
LEMMA Entries ==
  ASSUME NEW f, NEW x, NEW v, NEW S
  PROVE  /\ KeysOK(f) /\ Keys!KeyNormValue(v) # Keys!NoKey => KeysOK(Keys!With(f, x, v))
         /\ BpOK(f) /\ v \in 1..255 => BpOK(Keys!With(f, x, v))
         /\ SecretOK(f) /\ v # Keys!NoKey /\ Keys!NetKeyNorm(x[1], v) = v => SecretOK(Keys!With(f, x, v))
         /\ KeysOK(f) => KeysOK(Keys!Without(f, S))
         /\ BpOK(f) => BpOK(Keys!Without(f, S))
         /\ SecretOK(f) => SecretOK(Keys!Without(f, S))
<1> DEFINE put == Keys!With(f, x, v)
           rest == Keys!Without(f, S)
<1>1. /\ Fn(put) /\ DOMAIN put = {x} \cup DOMAIN f
      /\ put[x] = v /\ \A y \in DOMAIN f \ {x} : put[y] = f[y]
  BY DEF Fn, Keys!With
<1>2. Fn(rest) /\ DOMAIN rest \subseteq DOMAIN f /\ \A y \in DOMAIN rest : rest[y] = f[y]
  BY DEF Fn, Keys!Without
<1> HIDE DEF put, rest
<1>3. /\ KeysOK(f) /\ Keys!KeyNormValue(v) # Keys!NoKey => KeysOK(put)
      /\ KeysOK(f) => KeysOK(rest)
  BY <1>1, <1>2 DEF KeysOK
<1>4. /\ BpOK(f) /\ v \in 1..255 => BpOK(put)
      /\ BpOK(f) => BpOK(rest)
  BY <1>1, <1>2 DEF BpOK
<1>5. /\ SecretOK(f) /\ v # Keys!NoKey /\ Keys!NetKeyNorm(x[1], v) = v => SecretOK(put)
      /\ SecretOK(f) => SecretOK(rest)
  BY <1>1, <1>2 DEF SecretOK
<1> QED BY <1>3, <1>4, <1>5 DEF put, rest

\* Every request, every step of a starting session, and a restart.
LEMMA KeysStep == KeysInv /\ Keys!Next => KeysInv'
<1>1. ASSUME KeysInv, NEW n \in DOMAIN Nets, NEW t \in Ids, NEW v \in Typed, Keys!SetKey(n, t, v)
      PROVE  KeysInv'
  <2>1. Keys!KeyNormValue(v) # Keys!NoKey /\ Keys!KeyNormValue(v) = v
    BY <1>1 DEF Keys!SetKey, Keys!KeyNormValue
  <2>2. KeysOK(Keys!With(ring.keys, <<n, Keys!KeyNormId(t)>>, Keys!KeyNormValue(v)))
    BY <1>1, <2>1, Entries DEF KeysInv, RingOK
  <2> QED BY <1>1, <2>2, OnePart, ChangeKeeps DEF Keys!SetKey, KeysInv
<1>2. ASSUME KeysInv, NEW n \in DOMAIN Nets, NEW t \in Ids, Keys!RemoveKey(n, t)
      PROVE  KeysInv'
  <2>1. KeysOK(Keys!Without(ring.keys, {<<n, Keys!KeyNormId(t)>>})) BY <1>2, Entries DEF KeysInv, RingOK
  <2> QED BY <1>2, <2>1, OnePart, ChangeKeeps DEF Keys!RemoveKey, KeysInv
<1>3. ASSUME KeysInv, NEW n \in DOMAIN Nets, NEW number \in Numbers, Keys!SetBp(n, number)
      PROVE  KeysInv'
  <2>1. BpOK(Keys!With(ring.bp, n, number)) BY <1>3, Entries DEF KeysInv, RingOK, Keys!SetBp
  <2> QED BY <1>3, <2>1, OnePart, ChangeKeeps DEF Keys!SetBp, KeysInv
<1>4. ASSUME KeysInv, NEW n \in DOMAIN Nets, Keys!RemoveBp(n)
      PROVE  KeysInv'
  <2>1. BpOK(Keys!Without(ring.bp, {n})) BY <1>4, Entries DEF KeysInv, RingOK
  <2> QED BY <1>4, <2>1, OnePart, ChangeKeeps DEF Keys!RemoveBp, KeysInv
<1>5. ASSUME KeysInv, NEW i \in 1..7, NEW n \in DOMAIN Nets, NEW t \in Typed, Keys!SetNetKey(i, n, t)
      PROVE  KeysInv'
  <2> DEFINE v == Keys!NetKeyNorm(i, t)
             others == IF i \in Keys!Forced THEN {<<k, n>> : k \in Keys!Forced \ {i}} ELSE {}
  <2>1. v # Keys!NoKey /\ Keys!NetKeyNorm(i, v) = v
    BY <1>5, NormOnce, TypedAssumption DEF Keys!SetNetKey, KeyText
  <2>2. Keys!Change([ring EXCEPT !.secret = Keys!With(Keys!Without(@, others), <<i, n>>, v)])
    BY <1>5 DEF Keys!SetNetKey
  <2> HIDE DEF v, others
  <2>3. SecretOK(Keys!Without(ring.secret, others)) BY <1>5, Entries DEF KeysInv, RingOK
  <2>4. SecretOK(Keys!With(Keys!Without(ring.secret, others), <<i, n>>, v)) BY <2>1, <2>3, Entries
  <2> QED BY <1>5, <2>2, <2>4, OnePart, ChangeKeeps DEF KeysInv
<1>6. ASSUME KeysInv, NEW i \in 1..7, NEW n \in DOMAIN Nets, Keys!RemoveNetKey(i, n)
      PROVE  KeysInv'
  <2>1. SecretOK(Keys!Without(ring.secret, {<<i, n>>})) BY <1>6, Entries DEF KeysInv, RingOK
  <2> QED BY <1>6, <2>1, OnePart, ChangeKeeps DEF Keys!RemoveNetKey, KeysInv
<1>7. ASSUME KeysInv, NEW s \in Streams, NEW r, Keys!Set(s, r) PROVE KeysInv'
  BY <1>7 DEF Keys!Set, KeysInv, Keys!KeysSurvive
<1>8. ASSUME KeysInv, Keys!Restart PROVE KeysInv'
  <2>1. UNCHANGED file /\ ring' = Keys!Load(file) BY <1>8 DEF Keys!Restart
  <2>2. CASE file = Keys!Torn BY <1>8, <2>1, <2>2, EmptyRing DEF KeysInv, Keys!KeysSurvive
  <2>3. CASE RingOK(file.ring) /\ file = Keys!Written(file.ring)
    BY <1>8, <2>1, <2>3, LoadWritten DEF KeysInv, Keys!KeysSurvive
  <2> QED BY <1>8, <2>2, <2>3 DEF KeysInv
<1>9. ASSUME NEW id \in Kinds PROVE Keys!Kind(id) \in 1..7
  BY KindsAssumption DEF Keys!Kind, Keys!NetKeyKinds
<1>10. ASSUME KeysInv, NEW s \in Streams,
              Keys!Start(s) \/ Keys!Reload(s) \/ Keys!Stop(s) \/ Keys!ReadBp(s) \/ Keys!ReadEp(s)
              \/ Keys!ReadForced(s) \/ Keys!ReadList(s)
       PROVE  \E r : Keys!Set(s, r)
  BY <1>10, Zenon DEF Keys!Start, Keys!Reload, Keys!Begin, Keys!Stop, Keys!ReadBp, Keys!ReadEp, Keys!ReadForced, Keys!ReadList
<1> QED BY <1>1, <1>2, <1>3, <1>4, <1>5, <1>6, <1>7, <1>8, <1>9, <1>10 DEF Keys!Next

\* A restart brings back every key as it was last set, whatever its kind and
\* length and whatever happened to earlier files, unless the last write failed.
THEOREM KeysAlwaysSurvive == ServerSpec => []KeysSurvive
<1>1. ServerInit => KeysInv
  <2>1. Keys!Written(Keys!NoRing).ring = Keys!NoRing BY DEF Keys!Written
  <2> QED BY <2>1, EmptyRing, LoadWritten DEF ServerInit, Keys!Init, KeysInv, Keys!KeysSurvive
<1>2. KeysInv /\ [ServerNext]_serverVars => KeysInv'
  <2>1. KeysInv /\ UNCHANGED keyVars => KeysInv' BY DEF keyVars, KeysInv, Keys!KeysSurvive
  <2> QED BY <2>1, KeysStep DEF ServerNext, serverVars, OfPorts, OfSend, OfKeys, OfSwitch, OfTables
<1>3. KeysInv => KeysSurvive BY DEF KeysInv, KeysSurvive
<1>4. QED BY <1>1, <1>2, <1>3, PTL DEF ServerSpec

-----------------------------------------------------------------------------
(* What a starting decoder reads of the keyring, one thing at a time.      *)

\* A stream's record has these fields.
Client(c) ==
  DOMAIN c = {"at", "starts", "changed", "fam", "freq", "own", "kind", "bp", "ep", "secret", "list"}

\* Keys are of networks, and of known kinds.
OfNets(r) ==
  /\ \A x \in DOMAIN r.keys : x = <<x[1], x[2]>> /\ x[1] \in DOMAIN Nets
  /\ DOMAIN r.bp \subseteq DOMAIN Nets
  /\ DOMAIN r.secret \subseteq (1..7) \X DOMAIN Nets

\* The networks of its channel, and whether it may be DMR.
Here(c) == {n \in DOMAIN Nets : Nets[n].fam = "dmr" /\ c.freq # 0 /\ Nets[n].freq = c.freq}
Reads(c) == c.fam \in {"dmr", "auto"}
OursOf(fam, keys) == {x \in DOMAIN keys : fam \in {"auto", Nets[x[1]].fam}}

BpRead(c, r) == (c.bp # 0) = (Reads(c) /\ ~c.own /\ Here(c) \cap DOMAIN r.bp # {})
EpRead(c, r) == (c.ep # Keys!NoKey) = (Reads(c) /\ \E n \in Here(c) : <<1, n>> \in DOMAIN r.secret)
ForcedRead(c, r) ==
  /\ (c.secret[1] # 0) = (Reads(c) /\ \E x \in DOMAIN r.secret : x[1] \in Keys!Forced /\ x[2] \in Here(c))
  /\ c.secret[1] # 0 => \E n \in Here(c) : <<c.secret[1], n>> \in DOMAIN r.secret

\* A list has every key id of the networks, with the first network's key.
FirstOnes(fam, keys, list) ==
  \A x \in OursOf(fam, keys) :
    /\ list[x[2]] \in {keys[y] : y \in {z \in OursOf(fam, keys) : z[2] = x[2]}}
    /\ (\A y \in OursOf(fam, keys) : y[2] = x[2] => y[1] >= x[1]) => list[x[2]] = keys[x]
ListRead(c, r) ==
  c.list # <<>> =>
    /\ FirstOnes(c.fam, r.keys, c.list)
    /\ c.ep # Keys!NoKey => 0..MaxByte \subseteq DOMAIN c.list

\* A start no request interrupted has read the keyring as it is, so far.
StartOK(c, r) ==
  /\ c.at \in {"off", "bp", "ep", "forced", "list", "on"} /\ c.freq \in Nat
  /\ ~c.changed =>
       /\ c.at \in {"bp", "ep", "forced"} => Reads(c) /\ c.secret[1] = 0
       /\ c.at \in {"ep", "forced", "list", "on"} => BpRead(c, r)
       /\ c.at \in {"forced", "list", "on"} => EpRead(c, r)
       /\ c.at = "forced" =>
            /\ c.kind \in 2..7
            /\ \A i \in 2..7 : i < c.kind => \A n \in Here(c) : <<i, n>> \notin DOMAIN r.secret
       /\ c.at \in {"list", "on"} => ForcedRead(c, r)
       /\ c.at = "on" => ListRead(c, r)

StartsInv ==
  /\ KeysInv /\ OfNets(ring) /\ OfNets(file.ring)
  /\ DOMAIN sess = Streams /\ \A s \in Streams : Client(sess[s]) /\ StartOK(sess[s], ring)

\* The list of a family's keys is made by a loop over the networks; e.last is how
\* many there are.
RowsOne(e, list, n) ==
  IF e.fam = "auto" \/ Nets[n].fam = e.fam THEN Keys!Over(list, Keys!KeysOf(e.keys, n)) ELSE list
RowsSoFar(e, list, k) ==
  LET upto == {x \in OursOf(e.fam, e.keys) : x[1] <= k}
  IN /\ DOMAIN list = {x[2] : x \in upto}
     /\ \A x \in upto :
          /\ list[x[2]] \in {e.keys[y] : y \in {z \in upto : z[2] = x[2]}}
          /\ (\A y \in upto : y[2] = x[2] => y[1] >= x[1]) => list[x[2]] = e.keys[x]
Rows == INSTANCE Folding WITH Op <- RowsOne, Good <- RowsSoFar

\* The kinds that are forced, and their order.
LEMMA KindsAre ==
  /\ Keys!Forced = 2..7 /\ Keys!Min(Keys!Forced) = 2 /\ Keys!Max(Keys!Forced) = 7
  /\ Keys!Kind("ep") = 1
<1>1. Keys!Forced = 2..7 BY DEF Keys!Forced, Keys!NetKeyKinds
<1>2. Keys!Min(2..7) = 2
  <2>1. \E x \in 2..7 : \A y \in 2..7 : x <= y OBVIOUS
  <2>2. Keys!Min(2..7) \in 2..7 /\ \A y \in 2..7 : Keys!Min(2..7) <= y BY <2>1 DEF Keys!Min
  <2> QED BY <2>2
<1>3. Keys!Max(2..7) = 7
  <2>1. \E x \in 2..7 : \A y \in 2..7 : x >= y OBVIOUS
  <2>2. Keys!Max(2..7) \in 2..7 /\ \A y \in 2..7 : Keys!Max(2..7) >= y BY <2>1 DEF Keys!Max
  <2> QED BY <2>2
<1>4. Keys!Kind("ep") = 1
  <2>1. \A i \in DOMAIN Keys!NetKeyKinds : Keys!NetKeyKinds[i].id = "ep" <=> i = 1 BY DEF Keys!NetKeyKinds
  <2>2. 1 \in DOMAIN Keys!NetKeyKinds BY DEF Keys!NetKeyKinds
  <2> QED BY <2>1, <2>2 DEF Keys!Kind
<1> QED BY <1>1, <1>2, <1>3, <1>4

\* The first network on the stream's channel that has an entry, if one has.
LEMMA FirstOnIs ==
  ASSUME NEW c, c.freq \in Nat, NEW having, having \subseteq DOMAIN Nets
  PROVE  LET n == Keys!FirstOn(c.freq, having)
         IN /\ Here(c) \cap having = {} => n = 0
            /\ Here(c) \cap having # {} => n \in Here(c) \cap having /\ n # 0
<1> DEFINE at == {n \in having : Nets[n].fam = "dmr" /\ c.freq > 0 /\ Nets[n].freq = c.freq}
<1>1. at = Here(c) \cap having BY DEF Here
<1>2. DOMAIN Nets \subseteq Nat \ {0}
  <2>1. DOMAIN Nets = 1..Len(Nets) /\ Len(Nets) \in Nat BY NetsAssumption
  <2> QED BY <2>1
<1>3. at \subseteq Nat \ {0} BY <1>2
<1>4. Keys!FirstOn(c.freq, having) = IF at = {} THEN 0 ELSE Keys!Min(at) BY DEF Keys!FirstOn
<1> HIDE DEF at
<1>5. ASSUME at # {} PROVE Keys!Min(at) \in at
  <2>1. \E x \in at : \A y \in at : x <= y BY <1>3, <1>5, Rows!Least
  <2> QED BY <2>1 DEF Keys!Min
<1> QED BY <1>1, <1>3, <1>4, <1>5

\* One network's rows: an id that is already there keeps its key.
LEMMA RowsFurther ==
  ASSUME NEW fam, NEW keys, \A x \in DOMAIN keys : x = <<x[1], x[2]>> /\ x[1] \in DOMAIN Nets,
         NEW list, NEW k \in DOMAIN Nets, RowsSoFar([fam |-> fam, keys |-> keys], list, k - 1)
  PROVE  RowsSoFar([fam |-> fam, keys |-> keys], RowsOne([fam |-> fam, keys |-> keys], list, k), k)
<1> DEFINE e == [fam |-> fam, keys |-> keys]
           ours == OursOf(fam, keys)
           before == {x \in ours : x[1] <= k - 1}
           upto == {x \in ours : x[1] <= k}
           new == {x \in ours : x[1] = k}
           next == RowsOne(e, list, k)
<1>0. DOMAIN Nets \subseteq Nat
  <2>1. DOMAIN Nets = 1..Len(Nets) /\ Len(Nets) \in Nat BY NetsAssumption
  <2> QED BY <2>1
<1>1. /\ \A x \in ours : x \in DOMAIN keys /\ x = <<x[1], x[2]>> /\ x[1] \in Nat
      /\ upto = before \cup new /\ before \cap new = {} /\ before \subseteq ours /\ new \subseteq ours
      /\ \A x \in new : x[1] = k
      /\ \A x \in before : x[1] < k
  BY <1>0 DEF OursOf
<1>2. /\ DOMAIN list = {x[2] : x \in before}
      /\ \A x \in before :
          /\ list[x[2]] \in {keys[y] : y \in {z \in before : z[2] = x[2]}}
          /\ (\A y \in before : y[2] = x[2] => y[1] >= x[1]) => list[x[2]] = keys[x]
  BY DEF RowsSoFar
<1>3. /\ DOMAIN next = DOMAIN list \cup {x[2] : x \in new}
      /\ \A id \in DOMAIN list : next[id] = list[id]
      /\ \A x \in new : x[2] \notin DOMAIN list => next[x[2]] = keys[x]
  <2>1. CASE fam = "auto" \/ Nets[k].fam = fam
    <3> DEFINE mine == {y \in DOMAIN keys : y[1] = k}
               g == Keys!KeysOf(keys, k)
    <3>1. new = mine BY <2>1 DEF OursOf
    <3>2. DOMAIN g = {x[2] : x \in mine} /\ \A id \in DOMAIN g : g[id] = keys[<<k, id>>] BY DEF Keys!KeysOf
    <3>3. next = Keys!Over(list, g) BY <2>1 DEF RowsOne
    <3>4. \A x \in mine : x = <<k, x[2]>> OBVIOUS
    <3> HIDE DEF mine, g, next
    <3>5. \A x \in mine : x[2] \in DOMAIN g /\ g[x[2]] = keys[x] BY <3>2, <3>4
    <3> QED BY <3>1, <3>2, <3>3, <3>5 DEF Keys!Over
  <2>2. CASE ~(fam = "auto" \/ Nets[k].fam = fam)
    <3>1. new = {} BY <2>2 DEF OursOf
    <3>2. next = list BY <2>2 DEF RowsOne
    <3> HIDE DEF new, next
    <3> QED BY <3>1, <3>2
  <2> QED BY <2>1, <2>2
<1>4. RowsSoFar(e, next, k) =
        (/\ DOMAIN next = {x[2] : x \in upto}
         /\ \A x \in upto :
              /\ next[x[2]] \in {keys[y] : y \in {z \in upto : z[2] = x[2]}}
              /\ (\A y \in upto : y[2] = x[2] => y[1] >= x[1]) => next[x[2]] = keys[x])
  BY DEF RowsSoFar
<1> HIDE DEF e, ours, before, upto, new, next
<1>5. DOMAIN next = {x[2] : x \in upto} BY <1>1, <1>2, <1>3
<1>6. ASSUME NEW x \in upto
      PROVE  /\ next[x[2]] \in {keys[y] : y \in {z \in upto : z[2] = x[2]}}
             /\ (\A y \in upto : y[2] = x[2] => y[1] >= x[1]) => next[x[2]] = keys[x]
  <2>1. CASE x[2] \in DOMAIN list
    <3>1. PICK b \in before : b[2] = x[2] BY <1>2, <2>1
    <3>2. next[x[2]] = list[b[2]] BY <1>3, <2>1, <3>1
    <3>3. PICK y \in before : y[2] = b[2] /\ list[b[2]] = keys[y] BY <1>2, <3>1
    <3>4. y \in upto BY <1>1
    <3>5. ASSUME \A z \in upto : z[2] = x[2] => z[1] >= x[1] PROVE next[x[2]] = keys[x]
      <4>1. b[1] >= x[1] /\ b[1] < k /\ b[1] \in Nat /\ x[1] \in Nat BY <1>0, <1>1, <3>1, <3>5
      <4>2. x \notin new
        <5>1. x[1] < k BY <1>0, <4>1
        <5> QED BY <1>0, <1>1, <4>1, <5>1
      <4>3. x \in before BY <1>1, <4>2
      <4> QED BY <1>1, <1>2, <3>2, <3>1, <4>3, <3>5
    <3> QED BY <3>1, <3>2, <3>3, <3>4, <3>5
  <2>2. CASE x[2] \notin DOMAIN list
    <3>1. x \in new BY <1>1, <1>2, <2>2
    <3> QED BY <1>3, <2>2, <3>1
  <2> QED BY <2>1, <2>2
<1> QED BY <1>4, <1>5, <1>6 DEF e, next

\* The decoder's rows: every key id of the keyring has the first network's key,
\* and with an EP key every 8-bit id has one.
LEMMA ListIs ==
  ASSUME OfNets(ring), NEW fam, NEW ep
  PROVE  LET list == Keys!KeysCsvStream(fam, ep)
         IN FirstOnes(fam, ring.keys, list) /\ (ep # Keys!NoKey => 0..MaxByte \subseteq DOMAIN list)
<1> DEFINE keys == ring.keys
           e == [fam |-> fam, keys |-> keys]
           ids == [n \in DOMAIN Nets |-> n]
           rows == Keys!KeysCsvFamily(fam)
           list == Keys!KeysCsvStream(fam, ep)
<1>1. DOMAIN Nets = 1..Len(Nets) /\ Len(Nets) \in Nat BY NetsAssumption
<1>2. e.fam = fam /\ e.keys = keys OBVIOUS
<1>3. \A x \in DOMAIN keys : x = <<x[1], x[2]>> /\ x[1] \in DOMAIN Nets BY DEF OfNets
<1>4. rows = Rows!Fold(e, <<>>, ids)
  BY DEF Keys!KeysCsvFamily, RowsOne, Rows!Fold, Keys!FoldLeft, Rows!FoldLeft, Keys!MapThenFoldSet,
         Rows!MapThenFoldSet, Keys!Max, Rows!Max
<1>5. DOMAIN ids = 1..Len(Nets) /\ \A n \in 1..Len(Nets) : ids[n] = n BY <1>1
<1> HIDE DEF e, ids
<1>6. RowsSoFar(e, <<>>, 0)
  <2>1. \A x \in OursOf(fam, keys) : ~(x[1] <= 0) BY <1>1, <1>3 DEF OursOf
  <2> QED BY <1>2, <2>1 DEF RowsSoFar
<1>7. ASSUME NEW k \in 1..Len(Nets), NEW acc, RowsSoFar(e, acc, k - 1) PROVE RowsSoFar(e, RowsOne(e, acc, ids[k]), k)
  BY <1>1, <1>3, <1>5, <1>7, RowsFurther DEF e
<1>8. RowsSoFar(e, rows, Len(Nets)) BY <1>1, <1>4, <1>5, <1>6, <1>7, Rows!FoldKeeps
<1>9. {x \in OursOf(fam, keys) : x[1] <= Len(Nets)} = OursOf(fam, keys) BY <1>1, <1>3 DEF OursOf
<1>10. DOMAIN rows = {x[2] : x \in OursOf(fam, keys)} /\ FirstOnes(fam, keys, rows)
  BY <1>2, <1>8, <1>9 DEF RowsSoFar, FirstOnes
<1>11. list = Keys!Over(rows, Keys!EpRows(ep)) BY DEF Keys!KeysCsvStream
<1> HIDE DEF rows, list
<1>12. /\ DOMAIN list = DOMAIN rows \cup DOMAIN Keys!EpRows(ep)
       /\ \A id \in DOMAIN rows : list[id] = rows[id]
  BY <1>11 DEF Keys!Over
<1>13. ep # Keys!NoKey => DOMAIN Keys!EpRows(ep) = 0..MaxByte BY DEF Keys!EpRows
<1> QED BY <1>10, <1>12, <1>13 DEF FirstOnes, list

\* A per-network key is found when a network on the channel has one.
LEMMA KeyForFreq ==
  ASSUME OfNets(ring), RingOK(ring), NEW c, c.freq \in Nat, NEW i \in 1..7
  PROVE  (Keys!NetKeyForFreq(i, c.freq) # Keys!NoKey) = (\E n \in Here(c) : <<i, n>> \in DOMAIN ring.secret)
<1> DEFINE having == {x \in DOMAIN Nets : <<i, x>> \in DOMAIN ring.secret}
           n == Keys!FirstOn(c.freq, having)
<1>1. having \subseteq DOMAIN Nets OBVIOUS
<1>2. /\ Here(c) \cap having = {} => n = 0
      /\ Here(c) \cap having # {} => n \in having /\ n # 0
  <2> HIDE DEF having
  <2> QED BY <1>1, FirstOnIs
<1>3. \A x \in DOMAIN ring.secret : ring.secret[x] # Keys!NoKey BY DEF RingOK, SecretOK
<1>4. Keys!NetKeyForFreq(i, c.freq) = IF n = 0 THEN Keys!NoKey ELSE ring.secret[<<i, n>>] BY DEF Keys!NetKeyForFreq
<1>5. (Here(c) \cap having # {}) = (\E x \in Here(c) : <<i, x>> \in DOMAIN ring.secret) BY DEF Here
<1>6. n \in having => <<i, n>> \in DOMAIN ring.secret OBVIOUS
<1> HIDE DEF n, having
<1> QED BY <1>2, <1>3, <1>4, <1>5, <1>6

\* A step of one stream: the keyring and the others' records stay.
LEMMA OneStream ==
  ASSUME StartsInv, NEW s \in Streams, NEW r, Keys!Set(s, r), Client(r), StartOK(r, ring) PROVE StartsInv'
<1>1. sess' = [sess EXCEPT ![s] = r] /\ UNCHANGED <<ring, file, stale, changes>> BY DEF Keys!Set
<1>2. KeysInv' BY <1>1 DEF StartsInv, KeysInv, Keys!KeysSurvive
<1>3. ASSUME NEW c, StartOK(c, ring) PROVE StartOK(c, ring') BY <1>1, <1>3
<1>4. OfNets(ring)' /\ OfNets(file.ring)' /\ DOMAIN sess' = Streams BY <1>1 DEF StartsInv, OfNets
<1>5. ASSUME NEW t \in Streams PROVE Client(sess'[t]) /\ StartOK(sess'[t], ring')
  <2>1. CASE t = s
    <3>1. sess'[t] = r BY <1>1, <2>1 DEF StartsInv
    <3> QED BY <3>1, <1>3
  <2>2. CASE t # s
    <3>1. sess'[t] = sess[t] BY <1>1, <2>2 DEF StartsInv
    <3> QED BY <3>1, <1>3 DEF StartsInv
  <2> QED BY <2>1, <2>2
<1> QED BY <1>2, <1>4, <1>5 DEF StartsInv

\* A request: whoever is starting may have read what it changes.
LEMMA AskedStreams ==
  ASSUME StartsInv, NEW new, OfNets(new), Keys!Change(new), KeysInv' PROVE StartsInv'
<1>1. ring' = new /\ sess' = [s \in Streams |-> [sess[s] EXCEPT !.changed = TRUE]] BY DEF Keys!Change, Keys!Touched
<1>2. file' \in {Keys!Written(new), file, Keys!Torn} BY DEF Keys!Change, Keys!Save
<1>3. OfNets(file'.ring)
  <2>1. Keys!Written(new).ring = new /\ OfNets(Keys!Torn.ring)
    BY DEF Keys!Written, Keys!Torn, Keys!NoRing, OfNets
  <2> QED BY <1>2, <2>1 DEF StartsInv
<1>4. ASSUME NEW s \in Streams PROVE Client(sess'[s]) /\ StartOK(sess'[s], ring')
  <2> DEFINE c == sess[s]
             d == [c EXCEPT !.changed = TRUE]
  <2>1. sess'[s] = d BY <1>1
  <2>2. Client(c) /\ StartOK(c, ring) BY DEF StartsInv
  <2>3. Client(d) /\ d.at = c.at /\ d.freq = c.freq /\ d.changed = TRUE
    <3> HIDE DEF c
    <3> QED BY <2>2 DEF Client
  <2>4. d.at \in {"off", "bp", "ep", "forced", "list", "on"} /\ d.freq \in Nat BY <2>2, <2>3 DEF StartOK
  <2> HIDE DEF d, c
  <2> QED BY <2>1, <2>3, <2>4 DEF StartOK
<1> QED BY <1>1, <1>3, <1>4 DEF StartsInv, OfNets

\* A restart: no session is left, and the keyring is the file's.
LEMMA RestartedStreams == ASSUME StartsInv, Keys!Restart, KeysInv' PROVE StartsInv'
<1>1. /\ ring' = Keys!Load(file) /\ file' = file
      /\ sess' = [s \in Streams |-> [Keys!Idle EXCEPT !.starts = sess[s].starts]]
  BY DEF Keys!Restart
<1>2. OfNets(ring')
  <2>1. CASE ~file.whole
    <3>1. ring' = Keys!NoRing BY <1>1, <2>1 DEF Keys!Load
    <3> QED BY <3>1 DEF OfNets, Keys!NoRing
  <2>2. CASE file.whole
    <3>1. /\ DOMAIN ring'.keys \subseteq DOMAIN file.ring.keys /\ DOMAIN ring'.bp \subseteq DOMAIN file.ring.bp
          /\ DOMAIN ring'.secret \subseteq DOMAIN file.ring.secret
      BY <1>1, <2>2, Zenon DEF Keys!Load, Keys!Without
    <3>2. OfNets(file.ring) BY DEF StartsInv
    <3> HIDE DEF StartsInv
    <3>3. \A x \in DOMAIN ring'.keys : x = <<x[1], x[2]>> /\ x[1] \in DOMAIN Nets
      BY ONLY <3>1, <3>2, Zenon DEF OfNets
    <3>4. DOMAIN ring'.bp \subseteq DOMAIN Nets /\ DOMAIN ring'.secret \subseteq (1..7) \X DOMAIN Nets
      BY ONLY <3>1, <3>2, Zenon DEF OfNets
    <3> QED BY ONLY <3>3, <3>4, Zenon DEF OfNets
  <2> QED BY <2>1, <2>2
<1>3. ASSUME NEW n PROVE Client([Keys!Idle EXCEPT !.starts = n]) /\ StartOK([Keys!Idle EXCEPT !.starts = n], ring')
  BY DEF Client, StartOK, Keys!Idle
<1> QED BY <1>1, <1>2, <1>3 DEF StartsInv

\* Each step of a stream: what it read, and what it has left to read.
LEMMA StartSteps ==
  ASSUME StartsInv, NEW s \in Streams,
         \/ Keys!Start(s) \/ Keys!Reload(s) \/ Keys!Stop(s)
         \/ Keys!ReadBp(s) \/ Keys!ReadEp(s) \/ Keys!ReadForced(s) \/ Keys!ReadList(s)
  PROVE  StartsInv'
<1> DEFINE c == sess[s]
<1>0. Client(c) /\ StartOK(c, ring) /\ OfNets(ring) /\ RingOK(ring) BY DEF StartsInv, KeysInv
<1>1. ASSUME NEW fam, NEW freq \in Nat, NEW own, Keys!Begin(s, fam, freq, own) PROVE StartsInv'
  <2> DEFINE r == [Keys!Idle EXCEPT !.at = IF fam \in {"dmr", "auto"} THEN "bp" ELSE "list",
                                    !.starts = sess[s].starts + 1, !.fam = fam, !.freq = freq, !.own = own]
  <2>1. Keys!Set(s, r) BY <1>1 DEF Keys!Begin
  <2>2. /\ Client(r) /\ r.fam = fam /\ r.freq = freq /\ r.secret = <<0, Keys!NoKey>> /\ r.bp = 0
        /\ r.ep = Keys!NoKey /\ r.at = IF fam \in {"dmr", "auto"} THEN "bp" ELSE "list"
    BY DEF Client, Keys!Idle
  <2> HIDE DEF r
  <2>3. StartOK(r, ring) BY <2>2 DEF StartOK, Reads, BpRead, EpRead, ForcedRead
  <2> QED BY <2>1, <2>2, <2>3, OneStream
<1>2. CASE Keys!Start(s)
  <2>1. \E fam \in Hints, freq \in Freqs, own \in BOOLEAN : Keys!Begin(s, fam, freq, own) BY <1>2 DEF Keys!Start
  <2> QED BY <2>1, <1>1, NetsAssumption
<1>3. CASE Keys!Reload(s) BY <1>0, <1>1, <1>3 DEF Keys!Reload, StartOK
<1>4. CASE Keys!Stop(s)
  <2>1. Keys!Set(s, [Keys!Idle EXCEPT !.starts = sess[s].starts]) BY <1>4 DEF Keys!Stop
  <2>2. ASSUME NEW n PROVE Client([Keys!Idle EXCEPT !.starts = n]) /\ StartOK([Keys!Idle EXCEPT !.starts = n], ring)
    BY DEF Client, StartOK, Keys!Idle
  <2> QED BY <2>1, <2>2, OneStream
<1>5. CASE Keys!ReadBp(s)
  <2> DEFINE number == IF c.own THEN 0 ELSE Keys!BpForFreq(c.freq)
             r == [c EXCEPT !.at = "ep", !.bp = number]
  <2>1. c.at = "bp" /\ Keys!Set(s, r) BY <1>5 DEF Keys!ReadBp
  <2>2. (number # 0) = (~c.own /\ Here(c) \cap DOMAIN ring.bp # {})
    <3> DEFINE n == Keys!FirstOn(c.freq, DOMAIN ring.bp)
    <3>1. c.freq \in Nat /\ DOMAIN ring.bp \subseteq DOMAIN Nets BY <1>0 DEF StartOK, OfNets
    <3>2. /\ Here(c) \cap DOMAIN ring.bp = {} => n = 0
          /\ Here(c) \cap DOMAIN ring.bp # {} => n \in DOMAIN ring.bp /\ n # 0
      BY <3>1, FirstOnIs
    <3>3. \A x \in DOMAIN ring.bp : ring.bp[x] \in 1..255 BY <1>0 DEF RingOK, BpOK
    <3>4. Keys!BpForFreq(c.freq) = IF n = 0 THEN 0 ELSE ring.bp[n] BY DEF Keys!BpForFreq
    <3> HIDE DEF n, c
    <3> QED BY <3>2, <3>3, <3>4
  <2> HIDE DEF number, c
  <2>3. /\ Client(r) /\ r.at = "ep" /\ r.bp = number /\ r.fam = c.fam /\ r.freq = c.freq /\ r.own = c.own
        /\ r.changed = c.changed /\ r.secret = c.secret
    BY <1>0 DEF Client
  <2> HIDE DEF r
  <2>4. Here(r) = Here(c) /\ Reads(r) = Reads(c) BY <2>3 DEF Here, Reads
  <2>5. StartOK(r, ring) BY <1>0, <2>1, <2>2, <2>3, <2>4 DEF StartOK, BpRead
  <2> QED BY <2>1, <2>3, <2>5, OneStream
<1>6. CASE Keys!ReadEp(s)
  <2> DEFINE key == Keys!NetKeyForFreq(1, c.freq)
             r == [c EXCEPT !.at = "forced", !.kind = 2, !.ep = key]
  <2>1. c.at = "ep" /\ Keys!Set(s, r) BY <1>6, KindsAre DEF Keys!ReadEp
  <2>2. (key # Keys!NoKey) = (\E n \in Here(c) : <<1, n>> \in DOMAIN ring.secret)
    <3>1. c.freq \in Nat BY <1>0 DEF StartOK
    <3>2. 1 \in 1..7 OBVIOUS
    <3> QED BY <1>0, <3>1, <3>2, KeyForFreq
  <2> HIDE DEF key, c
  <2>3. /\ Client(r) /\ r.at = "forced" /\ r.kind = 2 /\ r.ep = key /\ r.bp = c.bp /\ r.fam = c.fam
        /\ r.freq = c.freq /\ r.own = c.own /\ r.changed = c.changed /\ r.secret = c.secret
    BY <1>0 DEF Client
  <2> HIDE DEF r
  <2>4. Here(r) = Here(c) /\ Reads(r) = Reads(c) BY <2>3 DEF Here, Reads
  <2>5. ~c.changed => Reads(c) /\ c.secret[1] = 0 /\ BpRead(r, ring) /\ EpRead(r, ring)
    BY <1>0, <2>1, <2>2, <2>3, <2>4 DEF StartOK, BpRead, EpRead
  <2>6. c.freq \in Nat BY <1>0 DEF StartOK
  <2>7. StartOK(r, ring) BY <2>3, <2>4, <2>5, <2>6 DEF StartOK
  <2> QED BY <2>1, <2>3, <2>7, OneStream
<1>7. CASE Keys!ReadForced(s)
  <2> DEFINE i == c.kind
             key == Keys!NetKeyForFreq(i, c.freq)
             found == [c EXCEPT !.at = "list", !.secret = <<i, key>>]
             listing == [c EXCEPT !.at = "list"]
             next == [c EXCEPT !.kind = i + 1]
             r == IF key # Keys!NoKey THEN found ELSE IF i = 7 THEN listing ELSE next
  <2>1. c.at = "forced" /\ Keys!Set(s, r) BY <1>7, KindsAre DEF Keys!ReadForced
  <2>2. i \in 2..7 => (key # Keys!NoKey) = (\E n \in Here(c) : <<i, n>> \in DOMAIN ring.secret)
    <3>1. c.freq \in Nat BY <1>0 DEF StartOK
    <3>2. i \in 2..7 => i \in 1..7 OBVIOUS
    <3> QED BY <1>0, <3>1, <3>2, KeyForFreq
  <2> HIDE DEF i, key, c
  <2>3. /\ Client(found) /\ found.at = "list" /\ found.secret = <<i, key>> /\ found.bp = c.bp /\ found.fam = c.fam
        /\ found.freq = c.freq /\ found.own = c.own /\ found.changed = c.changed /\ found.ep = c.ep
    BY <1>0 DEF Client
  <2>4. /\ Client(listing) /\ listing.at = "list" /\ listing.secret = c.secret /\ listing.bp = c.bp /\ listing.fam = c.fam
        /\ listing.freq = c.freq /\ listing.own = c.own /\ listing.changed = c.changed /\ listing.ep = c.ep
    BY <1>0 DEF Client
  <2>5. /\ Client(next) /\ next.at = "forced" /\ next.secret = c.secret /\ next.bp = c.bp /\ next.fam = c.fam
        /\ next.freq = c.freq /\ next.own = c.own /\ next.changed = c.changed /\ next.ep = c.ep
        /\ next.kind = i + 1
    BY <1>0, <2>1 DEF Client
  <2>6. /\ c.freq \in Nat
        /\ ~c.changed => /\ Reads(c) /\ c.secret[1] = 0 /\ BpRead(c, ring) /\ EpRead(c, ring) /\ i \in 2..7
                         /\ \A j \in 2..7 : j < i => \A n \in Here(c) : <<j, n>> \notin DOMAIN ring.secret
    BY <1>0, <2>1 DEF StartOK, i
  <2> HIDE DEF found, listing, next
  <2>7. ASSUME NEW d, d.fam = c.fam, d.freq = c.freq, d.own = c.own, d.bp = c.bp, d.ep = c.ep
        PROVE  /\ Here(d) = Here(c) /\ Reads(d) = Reads(c)
               /\ BpRead(c, ring) => BpRead(d, ring)
               /\ EpRead(c, ring) => EpRead(d, ring)
    <3>1. Here(d) = Here(c) /\ Reads(d) = Reads(c) BY <2>7 DEF Here, Reads
    <3> QED BY <2>7, <3>1 DEF BpRead, EpRead
  <2>8. \A x \in DOMAIN ring.secret : x = <<x[1], x[2]>> /\ x[1] \in 1..7 BY <1>0 DEF OfNets
  <2>9. CASE key # Keys!NoKey
    <3>1. ASSUME ~c.changed PROVE ForcedRead(found, ring)
      <4>1. PICK n \in Here(c) : <<i, n>> \in DOMAIN ring.secret BY <2>2, <2>6, <2>9, <3>1
      <4>2. i \in Keys!Forced /\ i # 0 BY <2>6, <3>1, KindsAre
      <4>3. <<i, n>>[1] = i /\ <<i, n>>[2] = n /\ <<i, key>>[1] = i OBVIOUS
      <4>4. Here(found) = Here(c) /\ Reads(found) BY <2>3, <2>6, <2>7, <3>1
      <4>5. found.secret[1] = i BY <2>3, <4>3
      <4> QED BY <2>6, <3>1, <4>1, <4>2, <4>3, <4>4, <4>5 DEF ForcedRead
    <3>2. StartOK(found, ring) BY <2>3, <2>6, <2>7, <3>1 DEF StartOK
    <3>3. r = found BY <2>9
    <3> QED BY <2>1, <2>3, <3>2, <3>3, OneStream
  <2>10. CASE key = Keys!NoKey /\ i = 7
    <3>1. ASSUME ~c.changed PROVE ForcedRead(listing, ring)
      <4>1. \A n \in Here(c) : \A j \in 2..7 : <<j, n>> \notin DOMAIN ring.secret
        <5>1. \A j \in 2..7 : j < 7 \/ j = 7 OBVIOUS
        <5> QED BY <2>2, <2>6, <2>10, <3>1, <5>1
      <4>2. ~\E x \in DOMAIN ring.secret : x[1] \in Keys!Forced /\ x[2] \in Here(c)
        BY <2>8, <4>1, KindsAre
      <4>3. Here(listing) = Here(c) /\ listing.secret[1] = 0 BY <2>4, <2>6, <2>7, <3>1
      <4> QED BY <4>2, <4>3 DEF ForcedRead
    <3>2. StartOK(listing, ring) BY <2>4, <2>6, <2>7, <3>1 DEF StartOK
    <3>3. r = listing BY <2>10
    <3> QED BY <2>1, <2>4, <3>2, <3>3, OneStream
  <2>11. CASE key = Keys!NoKey /\ i # 7
    <3>1. ASSUME ~c.changed
          PROVE  /\ i + 1 \in 2..7
                 /\ \A j \in 2..7 : j < i + 1 => \A n \in Here(c) : <<j, n>> \notin DOMAIN ring.secret
      <4>1. i \in 2..7 /\ i # 7 BY <2>6, <2>11, <3>1
      <4>2. \A j \in 2..7 : j < i + 1 => j < i \/ j = i BY <4>1
      <4>3. \A n \in Here(c) : <<i, n>> \notin DOMAIN ring.secret BY <2>2, <2>11, <4>1
      <4> QED BY <2>6, <3>1, <4>1, <4>2, <4>3
    <3>2. StartOK(next, ring) BY <2>5, <2>6, <2>7, <3>1 DEF StartOK
    <3>3. r = next BY <2>11
    <3> QED BY <2>1, <2>5, <3>2, <3>3, OneStream
  <2> QED BY <2>9, <2>10, <2>11
<1>8. CASE Keys!ReadList(s)
  <2>1. PICK written \in BOOLEAN :
          Keys!Set(s, [c EXCEPT !.at = "on", !.list = IF written THEN Keys!KeysCsvStream(c.fam, c.ep) ELSE <<>>])
    BY <1>8 DEF Keys!ReadList
  <2> DEFINE list == IF written THEN Keys!KeysCsvStream(c.fam, c.ep) ELSE <<>>
             r == [c EXCEPT !.at = "on", !.list = list]
  <2>2. c.at = "list" BY <1>8 DEF Keys!ReadList
  <2>3. list # <<>> => FirstOnes(c.fam, ring.keys, list) /\ (c.ep # Keys!NoKey => 0..MaxByte \subseteq DOMAIN list)
    BY <1>0, ListIs
  <2> HIDE DEF list, c
  <2>4. /\ Client(r) /\ r.at = "on" /\ r.list = list /\ r.bp = c.bp /\ r.fam = c.fam /\ r.ep = c.ep
        /\ r.freq = c.freq /\ r.own = c.own /\ r.changed = c.changed /\ r.secret = c.secret
    BY <1>0 DEF Client
  <2>5. Keys!Set(s, r) BY <2>1 DEF list
  <2> HIDE DEF r
  <2>6. Here(r) = Here(c) /\ Reads(r) = Reads(c) BY <2>4 DEF Here, Reads
  <2>7. ListRead(r, ring) BY <2>3, <2>4 DEF ListRead
  <2>8. /\ c.freq \in Nat
        /\ ~c.changed => BpRead(c, ring) /\ EpRead(c, ring) /\ ForcedRead(c, ring)
    BY <1>0, <2>2 DEF StartOK
  <2>9. /\ BpRead(c, ring) => BpRead(r, ring)
        /\ EpRead(c, ring) => EpRead(r, ring)
        /\ ForcedRead(c, ring) => ForcedRead(r, ring)
    BY <2>4, <2>6 DEF BpRead, EpRead, ForcedRead
  <2>10. StartOK(r, ring) BY <2>4, <2>7, <2>8, <2>9 DEF StartOK
  <2> QED BY <2>4, <2>5, <2>10, OneStream
<1> QED BY <1>2, <1>3, <1>4, <1>5, <1>6, <1>7, <1>8

\* Every step: a request changes keys of networks only, and tells whoever starts.
LEMMA StartsStep == StartsInv /\ Keys!Next => StartsInv'
<1> SUFFICES ASSUME StartsInv, Keys!Next PROVE StartsInv' OBVIOUS
<1>0. KeysInv' BY KeysStep DEF StartsInv
<1>1. ASSUME NEW k, \A x \in DOMAIN k : x \in DOMAIN ring.keys \/ \E n \in DOMAIN Nets : \E id : x = <<n, id>>
      PROVE  OfNets([ring EXCEPT !.keys = k])
  <2> DEFINE r == [ring EXCEPT !.keys = k]
  <2>1. r.keys = k /\ r.bp = ring.bp /\ r.secret = ring.secret BY DEF StartsInv, KeysInv, RingOK
  <2>2. OfNets(ring) BY DEF StartsInv
  <2>3. \A n, id : <<n, id>>[1] = n /\ <<n, id>>[2] = id OBVIOUS
  <2> HIDE DEF r
  <2>4. \A x \in DOMAIN r.keys : x = <<x[1], x[2]>> /\ x[1] \in DOMAIN Nets BY <1>1, <2>1, <2>2, <2>3 DEF OfNets
  <2> QED BY <2>1, <2>2, <2>4 DEF OfNets
<1>2. ASSUME NEW b, DOMAIN b \subseteq DOMAIN Nets PROVE OfNets([ring EXCEPT !.bp = b])
  BY <1>2 DEF StartsInv, KeysInv, RingOK, OfNets
<1>3. ASSUME NEW k, DOMAIN k \subseteq (1..7) \X DOMAIN Nets PROVE OfNets([ring EXCEPT !.secret = k])
  BY <1>3 DEF StartsInv, KeysInv, RingOK, OfNets
<1>4. ASSUME NEW n \in DOMAIN Nets, NEW t \in Ids, NEW v \in Typed, Keys!SetKey(n, t, v) PROVE StartsInv'
  <2> DEFINE k == Keys!With(ring.keys, <<n, Keys!KeyNormId(t)>>, Keys!KeyNormValue(v))
  <2>1. DOMAIN k = DOMAIN ring.keys \cup {<<n, Keys!KeyNormId(t)>>} BY DEF Keys!With
  <2>2. Keys!Change([ring EXCEPT !.keys = k]) BY <1>4 DEF Keys!SetKey
  <2> HIDE DEF k
  <2> QED BY <1>0, <1>1, <2>1, <2>2, AskedStreams
<1>5. ASSUME NEW n \in DOMAIN Nets, NEW t \in Ids, Keys!RemoveKey(n, t) PROVE StartsInv'
  <2> DEFINE k == Keys!Without(ring.keys, {<<n, Keys!KeyNormId(t)>>})
  <2>1. DOMAIN k = DOMAIN ring.keys \ {<<n, Keys!KeyNormId(t)>>} BY DEF Keys!Without
  <2>2. Keys!Change([ring EXCEPT !.keys = k]) BY <1>5 DEF Keys!RemoveKey
  <2> HIDE DEF k
  <2> QED BY <1>0, <1>1, <2>1, <2>2, AskedStreams
<1>6. ASSUME NEW n \in DOMAIN Nets, NEW number \in Numbers, Keys!SetBp(n, number) PROVE StartsInv'
  <2> DEFINE b == Keys!With(ring.bp, n, number)
  <2>1. DOMAIN b \subseteq DOMAIN Nets BY DEF Keys!With, StartsInv, OfNets
  <2>2. Keys!Change([ring EXCEPT !.bp = b]) BY <1>6 DEF Keys!SetBp
  <2> HIDE DEF b
  <2> QED BY <1>0, <1>2, <2>1, <2>2, AskedStreams
<1>7. ASSUME NEW n \in DOMAIN Nets, Keys!RemoveBp(n) PROVE StartsInv'
  <2> DEFINE b == Keys!Without(ring.bp, {n})
  <2>1. DOMAIN b \subseteq DOMAIN Nets BY DEF Keys!Without, StartsInv, OfNets
  <2>2. Keys!Change([ring EXCEPT !.bp = b]) BY <1>7 DEF Keys!RemoveBp
  <2> HIDE DEF b
  <2> QED BY <1>0, <1>2, <2>1, <2>2, AskedStreams
<1>8. ASSUME NEW i \in 1..7, NEW n \in DOMAIN Nets, NEW t \in Typed, Keys!SetNetKey(i, n, t) PROVE StartsInv'
  <2> DEFINE others == IF i \in Keys!Forced THEN {<<k, n>> : k \in Keys!Forced \ {i}} ELSE {}
             rest == Keys!Without(ring.secret, others)
             k == Keys!With(rest, <<i, n>>, Keys!NetKeyNorm(i, t))
  <2>1. Keys!Change([ring EXCEPT !.secret = k]) BY <1>8 DEF Keys!SetNetKey
  <2>2. DOMAIN rest \subseteq (1..7) \X DOMAIN Nets BY DEF Keys!Without, StartsInv, OfNets
  <2> HIDE DEF rest
  <2>3. DOMAIN k \subseteq (1..7) \X DOMAIN Nets BY <2>2 DEF Keys!With
  <2> HIDE DEF k
  <2> QED BY <1>0, <1>3, <2>1, <2>3, AskedStreams
<1>9. ASSUME NEW i \in 1..7, NEW n \in DOMAIN Nets, Keys!RemoveNetKey(i, n) PROVE StartsInv'
  <2> DEFINE k == Keys!Without(ring.secret, {<<i, n>>})
  <2>1. DOMAIN k \subseteq (1..7) \X DOMAIN Nets BY DEF Keys!Without, StartsInv, OfNets
  <2>2. Keys!Change([ring EXCEPT !.secret = k]) BY <1>9 DEF Keys!RemoveNetKey
  <2> HIDE DEF k
  <2> QED BY <1>0, <1>3, <2>1, <2>2, AskedStreams
<1>10. ASSUME NEW id \in Kinds PROVE Keys!Kind(id) \in 1..7
  BY KindsAssumption DEF Keys!Kind, Keys!NetKeyKinds
<1> QED BY <1>0, <1>4, <1>5, <1>6, <1>7, <1>8, <1>9, <1>10, StartSteps, RestartedStreams DEF Keys!Next

\* A decoder whose start no request interrupted runs with the keys of its channel
\* (resolve_dsd_keys), for every keyring, whatever requests, restarts and reloads
\* come before and whatever other sessions start meanwhile.
THEOREM StreamsAlwaysHaveTheirKeys == ServerSpec => []StreamsHaveTheirKeys
<1>1. ServerInit => StartsInv
  <2>1. Keys!Written(Keys!NoRing).ring = Keys!NoRing BY DEF Keys!Written
  <2>2. OfNets(Keys!NoRing) BY DEF OfNets, Keys!NoRing
  <2>3. Client(Keys!Idle) /\ StartOK(Keys!Idle, Keys!NoRing) BY DEF Client, StartOK, Keys!Idle
  <2>4. Keys!Init => KeysInv
    BY <2>1, EmptyRing, LoadWritten DEF Keys!Init, KeysInv, Keys!KeysSurvive
  <2> QED BY <2>1, <2>2, <2>3, <2>4 DEF ServerInit, Keys!Init, StartsInv
<1>2. StartsInv /\ [ServerNext]_serverVars => StartsInv'
  <2>1. StartsInv /\ UNCHANGED keyVars => StartsInv'
    BY SMTT(30) DEF keyVars, StartsInv, KeysInv, Keys!KeysSurvive
  <2> QED BY <2>1, StartsStep DEF ServerNext, serverVars, OfPorts, OfSend, OfKeys, OfSwitch, OfTables
<1>3. StartsInv => StreamsHaveTheirKeys
  <2> SUFFICES ASSUME StartsInv, NEW s \in Streams, sess[s].at = "on", ~sess[s].changed
               PROVE  LET c == sess[s]
                          ours == {x \in DOMAIN ring.keys : c.fam \in {"auto", Nets[x[1]].fam}}
                          reads == c.fam \in {"dmr", "auto"}
                      IN /\ (c.bp # 0) = (reads /\ ~c.own /\ Here(c) \cap DOMAIN ring.bp # {})
                         /\ (c.secret[1] # 0) =
                              (reads /\ \E x \in DOMAIN ring.secret : x[1] \in Keys!Forced /\ x[2] \in Here(c))
                         /\ c.secret[1] # 0 => \E n \in Here(c) : <<c.secret[1], n>> \in DOMAIN ring.secret
                         /\ c.list # <<>> =>
                              \A x \in ours :
                                /\ c.list[x[2]] \in {ring.keys[y] : y \in {z \in ours : z[2] = x[2]}}
                                /\ (\A y \in ours : y[2] = x[2] => y[1] >= x[1]) => c.list[x[2]] = ring.keys[x]
                         /\ c.list # <<>> /\ (reads /\ \E n \in Here(c) : <<Keys!Kind("ep"), n>> \in DOMAIN ring.secret)
                              => 0..MaxByte \subseteq DOMAIN c.list
    BY Zenon DEF StreamsHaveTheirKeys, Keys!StreamsHaveTheirKeys, Here
  <2> DEFINE c == sess[s]
  <2>1. StartOK(c, ring) BY DEF StartsInv
  <2>2. BpRead(c, ring) /\ EpRead(c, ring) /\ ForcedRead(c, ring) /\ ListRead(c, ring) BY <2>1 DEF StartOK
  <2> HIDE DEF c
  <2> QED BY <2>2, KindsAre DEF BpRead, EpRead, ForcedRead, ListRead, FirstOnes, OursOf, Reads, c
<1>4. QED BY <1>1, <1>2, <1>3, PTL DEF ServerSpec

-----------------------------------------------------------------------------
(* The status tables.  A sum over the sessions, and how it changes.        *)

AddOne(e, acc, t) == acc + t
SumSoFar(e, acc, k) == e.r[k] \in Int /\ acc = e.r[k] + e.d[k]
Sums == INSTANCE Folding WITH Op <- AddOne, Good <- SumSoFar
Sum(base, f) == Sums!Fold(0, base, f)

\* A loop that adds numbers up does not depend on what else it is given.
LEMMA SumOf == ASSUME NEW e, NEW base, NEW f PROVE Sums!Fold(e, base, f) = Sum(base, f)
BY DEF Sum, Sums!Fold, AddOne, Sums!FoldLeft, Sums!MapThenFoldSet

\* The terms of g are those of f, each changed by the step of d.
StepsBy(n, f, g, d) ==
  /\ f \in [1..n -> Int] /\ g \in [1..n -> Int] /\ d \in [0..n -> Int]
  /\ \A k \in 1..n : g[k] + d[k - 1] = f[k] + d[k]

\* When each term changes by the step of d, the sum changes by all of d.
LEMMA SumChanges ==
  ASSUME NEW n \in Nat, NEW f, NEW g, NEW d, StepsBy(n, f, g, d), NEW b \in Int, NEW c \in Int, c = b + d[0]
  PROVE  Sum(b, f) \in Int /\ Sum(c, g) = Sum(b, f) + d[n]
<1>0. /\ f \in [1..n -> Int] /\ g \in [1..n -> Int] /\ d \in [0..n -> Int]
      /\ \A k \in 1..n : g[k] + d[k - 1] = f[k] + d[k]
  BY DEF StepsBy
<1>1. DOMAIN f = 1..n /\ DOMAIN g = 1..n BY <1>0
<1>2. PICK r : Sums!Runs(0, b, f, n, r) /\ Sums!Fold(0, b, f) = r[n] BY <1>1, Sums!FoldRuns
<1> DEFINE e == [r |-> r, d |-> d]
<1>3. e.r = r /\ e.d = d OBVIOUS
<1> HIDE DEF e
<1>4. SumSoFar(e, c, 0) BY <1>0, <1>2, <1>3 DEF SumSoFar, Sums!Runs
<1>5. ASSUME NEW k \in 1..n, NEW acc, SumSoFar(e, acc, k - 1) PROVE SumSoFar(e, AddOne(e, acc, g[k]), k)
  <2>1. k - 1 \in 0..n /\ k \in 0..n OBVIOUS
  <2>2. r[k - 1] \in Int /\ acc = r[k - 1] + d[k - 1] BY <1>3, <1>5 DEF SumSoFar
  <2>3. r[k] = r[k - 1] + f[k] BY <1>2 DEF AddOne, Sums!Runs
  <2>4. f[k] \in Int /\ g[k] \in Int /\ d[k] \in Int /\ d[k - 1] \in Int BY <1>0, <2>1
  <2>5. g[k] + d[k - 1] = f[k] + d[k] BY <1>0
  <2>6. r[k] \in Int BY <2>2, <2>3, <2>4
  <2>7. acc + g[k] = r[k] + d[k]
    <3> DEFINE x == r[k - 1]
               y == d[k - 1]
               u == f[k]
               w == g[k]
               z == d[k]
    <3>1. x \in Int /\ y \in Int /\ u \in Int /\ w \in Int /\ z \in Int BY <2>2, <2>4
    <3>2. acc = x + y /\ r[k] = x + u /\ w + y = u + z BY <2>2, <2>3, <2>5
    <3> HIDE DEF x, y, u, w, z
    <3>3. acc + w = r[k] + z BY <3>1, <3>2
    <3> QED BY <3>3 DEF w, z
  <2> QED BY <1>3, <2>6, <2>7 DEF SumSoFar, AddOne
<1>6. SumSoFar(e, Sums!Fold(e, c, g), n) BY <1>1, <1>4, <1>5, Sums!FoldKeeps
<1> QED BY <1>2, <1>3, <1>6, SumOf DEF SumSoFar, Sum

\* The tables, their rows, and what the history variables say of them.
RowFields == {"protocol", "active", "since", "used", "requested", "starts"}
UseFields == {"requests", "starts", "sessions", "decode"}

RowOK(s, row, w, rn) ==
  /\ DOMAIN row = RowFields /\ row.active = (w = "running") /\ row.since \in Int
  /\ \E n \in Nat : DOMAIN row.used = 1..n /\ row.used = [i \in 1..n |-> row.used[i]]
  /\ \A p \in Protocols : p \in Tables!ToSet(row.used) <=> s \in rn[p].users
RowsOK(ss, wk, rn, given) ==
  /\ DOMAIN ss \subseteq 1..given /\ DOMAIN wk = DOMAIN ss
  /\ \A s \in DOMAIN ss : RowOK(s, ss[s], wk[s], rn)
RanOK(rn, given) ==
  /\ DOMAIN rn = Protocols
  /\ \A p \in Protocols :
       /\ DOMAIN rn[p] = {"time", "starts", "users"} /\ rn[p].time \in Int /\ rn[p].starts \in Nat
       /\ rn[p].users \subseteq 1..given
UseOK(u) ==
  /\ DOMAIN u = UseFields
  /\ u.requests \in Nat /\ u.starts \in Nat /\ u.sessions \in Nat /\ u.decode \in Int
UsageOK(us) == \A p \in Protocols : UseOK(Tables!Use(us, p))

\* The time of a protocol, of the sessions ss at t.
ActiveOf(ss, p) == {s \in DOMAIN ss : ss[s].active /\ ss[s].protocol = p}
TimeOf(ss, t, p) == [s \in 1..MaxSessions |-> IF s \in ActiveOf(ss, p) THEN t - ss[s].since ELSE 0]
Asking(wk, p) == {s \in DOMAIN wk : wk[s] = p}

\* One protocol's use is what was run of it, at t.
UseIs(us, ss, wk, rn, t, p) ==
  LET u == Tables!Use(us, p)
  IN /\ Sum(u.decode, TimeOf(ss, t, p)) = rn[p].time
     /\ u.starts = rn[p].starts
     /\ u.sessions = Cardinality(rn[p].users)
     /\ u.starts + Cardinality(Asking(wk, p)) <= u.requests

\* The history is of the sessions that ended last; ended is in the order they did.
Older(done) == IF Len(done) <= HistoryLimit THEN 0 ELSE Len(done) - HistoryLimit
SeqOf(f) == f \in Seq({f[i] : i \in DOMAIN f})
PastOK(hist, done, ss, rn, given) ==
  /\ SeqOf(done) /\ SeqOf(hist)
  /\ Len(hist) = Len(done) - Older(done)
  /\ \A i \in 1..Len(hist) : hist[i].id = done[i + Older(done)]
  /\ Tables!ToSet(done) \cap DOMAIN ss = {}
  /\ Tables!ToSet(done) \cup DOMAIN ss = 1..given
  /\ \A i \in 1..Len(hist) : \A p \in Protocols :
       p \in Tables!ToSet(hist[i].used) <=> hist[i].id \in rn[p].users

TablesInv ==
  /\ lastId \in 0..MaxSessions /\ now \in Int
  /\ RowsOK(sessions, work, ran, lastId) /\ RanOK(ran, lastId) /\ UsageOK(usage)
  /\ \A p \in Protocols : UseIs(usage, sessions, work, ran, now, p)
  /\ PastOK(history, ended, sessions, ran, lastId)

\* A function on 1..n is a sequence of its values.
LEMMA SeqFrom == ASSUME NEW f, NEW n \in Nat, f = [i \in 1..n |-> f[i]] PROVE SeqOf(f) /\ Len(f) = n /\ DOMAIN f = 1..n
<1> DEFINE S == {f[i] : i \in DOMAIN f}
<1>1. f \in [1..n -> S] OBVIOUS
<1> HIDE DEF S
<1>2. f \in Seq(S) /\ Len(f) = n BY <1>1
<1> QED BY <1>1, <1>2 DEF SeqOf, S

\* The newest of a sequence: its end, up to so many.
LEMMA NewestIs ==
  ASSUME NEW q, SeqOf(q)
  PROVE  LET r == Tables!Newest(q, HistoryLimit)
         IN SeqOf(r) /\ Len(r) = Len(q) - Older(q) /\ \A i \in 1..Len(r) : r[i] = q[i + Older(q)]
<1> DEFINE r == Tables!Newest(q, HistoryLimit)
           S == {q[i] : i \in DOMAIN q}
<1>0. HistoryLimit \in Nat BY TablesAssumption
<1>1. q \in Seq(S) BY DEF SeqOf
<1> HIDE DEF S
<1>2. Len(q) \in Nat /\ DOMAIN q = 1..Len(q) /\ q = [i \in 1..Len(q) |-> q[i]] BY <1>1
<1>3. CASE Len(q) <= HistoryLimit BY <1>0, <1>2, <1>3 DEF Tables!Newest, Older
<1>4. CASE ~(Len(q) <= HistoryLimit)
  <2> DEFINE k == Len(q) - HistoryLimit
  <2>1. k \in Nat /\ k <= Len(q) /\ Older(q) = k /\ 1 <= k BY <1>0, <1>2, <1>4 DEF Older
  <2>2. r = SubSeq(q, k + 1, Len(q)) BY <1>4 DEF Tables!Newest
  <2> HIDE DEF k, r
  <2>3. r \in Seq(S) /\ Len(r) = Len(q) - k /\ \A i \in 1..Len(r) : r[i] = q[i + k]
    <3>1. \A i \in (k + 1)..Len(q) : q[i] \in S BY <1>1, <1>2, <2>1
    <3>2. k + 1 \in 1..(Len(q) + 1) BY <1>2, <2>1
    <3>3. r = [i \in 1..(Len(q) - (k + 1) + 1) |-> q[(k + 1) + i - 1]] BY <1>1, <1>2, <2>1, <2>2
    <3>4. Len(q) - (k + 1) + 1 = Len(q) - k /\ Len(q) - k \in Nat BY <1>2, <2>1
    <3>5. \A i \in 1..(Len(q) - k) : (k + 1) + i - 1 = i + k /\ i + k \in (k + 1)..Len(q) BY <1>2, <2>1
    <3>6. r = [i \in 1..(Len(q) - k) |-> q[i + k]] BY <3>3, <3>4, <3>5
    <3>7. r \in [1..(Len(q) - k) -> S] BY <3>1, <3>5, <3>6
    <3> QED BY <3>4, <3>6, <3>7
  <2>4. Len(r) \in Nat /\ r = [i \in 1..Len(r) |-> r[i]] BY <2>3
  <2>5. SeqOf(r) BY <2>4, SeqFrom
  <2> QED BY <2>1, <2>3, <2>5 DEF r
<1> QED BY <1>3, <1>4

\* One more at the end of a sequence.
LEMMA OneMore ==
  ASSUME NEW q, SeqOf(q), NEW x
  PROVE  LET r == Append(q, x)
         IN /\ Len(q) \in Nat /\ DOMAIN q = 1..Len(q) /\ Len(r) = Len(q) + 1 /\ DOMAIN r = 1..(Len(q) + 1)
            /\ SeqOf(r) /\ r[Len(q) + 1] = x /\ \A i \in 1..Len(q) : r[i] = q[i]
<1> DEFINE S == {q[i] : i \in DOMAIN q}
           r == Append(q, x)
<1>1. q \in Seq(S) BY DEF SeqOf
<1> HIDE DEF S
<1>2. q \in Seq(S \cup {x}) BY <1>1
<1>3. /\ r \in Seq(S \cup {x}) /\ Len(r) = Len(q) + 1 /\ \A i \in 1..Len(q) : r[i] = q[i]
      /\ r[Len(q) + 1] = x
  BY <1>2, AppendProperties
<1> HIDE DEF r
<1>4. Len(q) \in Nat /\ DOMAIN q = 1..Len(q) /\ DOMAIN r = 1..Len(r) /\ r = [i \in 1..Len(r) |-> r[i]] BY <1>1, <1>3
<1>5. Len(r) \in Nat BY <1>3, <1>4
<1>6. SeqOf(r) BY <1>4, <1>5, SeqFrom
<1> QED BY <1>3, <1>4, <1>6 DEF r

\* A session that ends is the newest: the history loses its oldest, when it is full.
LEMMA PastGrows ==
  ASSUME NEW hist, NEW done, NEW ss, NEW rn, NEW given \in Nat, PastOK(hist, done, ss, rn, given), NEW id \in DOMAIN ss,
         NEW row, \A p \in Protocols : p \in Tables!ToSet(row.used) <=> id \in rn[p].users
  PROVE  PastOK(Tables!Newest(Append(hist, [id |-> id, used |-> row.used]), HistoryLimit), Append(done, id),
                Tables!Without(ss, {id}), rn, given)
<1> DEFINE rec == [id |-> id, used |-> row.used]
           long == Append(hist, rec)
           new == Tables!Newest(long, HistoryLimit)
           then == Append(done, id)
           rest == Tables!Without(ss, {id})
           S == {done[i] : i \in DOMAIN done}
           T == {hist[i] : i \in DOMAIN hist}
<1>0. HistoryLimit \in Nat BY TablesAssumption
<1>1. done \in Seq(S) /\ hist \in Seq(T) BY DEF PastOK, SeqOf
<1>2. rec.id = id /\ rec.used = row.used OBVIOUS
<1> HIDE DEF rec, S, T
<1>3. /\ Len(done) \in Nat /\ DOMAIN done = 1..Len(done)
      /\ Len(hist) \in Nat /\ DOMAIN hist = 1..Len(hist)
  BY <1>1
<1>4. /\ Len(then) = Len(done) + 1 /\ DOMAIN then = 1..(Len(done) + 1) /\ SeqOf(then)
      /\ then[Len(done) + 1] = id /\ \A i \in 1..Len(done) : then[i] = done[i]
  BY OneMore DEF PastOK
<1>5. /\ Len(long) = Len(hist) + 1 /\ DOMAIN long = 1..(Len(hist) + 1) /\ SeqOf(long)
      /\ long[Len(hist) + 1] = rec /\ \A i \in 1..Len(hist) : long[i] = hist[i]
  BY OneMore DEF PastOK
<1> HIDE DEF long, then
<1>6. SeqOf(then) /\ SeqOf(long) BY <1>4, <1>5
<1>7. SeqOf(new) /\ Len(new) = Len(long) - Older(long) /\ \A i \in 1..Len(new) : new[i] = long[i + Older(long)]
  BY <1>6, NewestIs
<1> HIDE DEF new
<1>8. Len(hist) = Len(done) - Older(done) /\ \A i \in 1..Len(hist) : hist[i].id = done[i + Older(done)] BY DEF PastOK
<1>9. /\ Older(done) \in Nat /\ Older(long) \in Nat /\ Older(then) = Older(done) + Older(long)
      /\ Older(long) <= Len(long)
  <2> DEFINE a == Len(done)
             L == HistoryLimit
  <2>1. /\ Older(done) = (IF a <= L THEN 0 ELSE a - L) /\ Len(hist) = a - Older(done)
        /\ Older(then) = (IF a + 1 <= L THEN 0 ELSE (a + 1) - L)
        /\ Older(long) = (IF Len(long) <= L THEN 0 ELSE Len(long) - L) /\ Len(long) = Len(hist) + 1
    BY <1>4, <1>5, <1>8 DEF Older
  <2>2. a \in Nat /\ L \in Nat BY <1>0, <1>3
  <2> HIDE DEF a, L
  <2>3. CASE a <= L
    <3>1. Older(done) = 0 /\ Len(hist) = a /\ Len(long) = a + 1 BY <2>1, <2>2, <2>3
    <3> QED BY <2>1, <2>2, <2>3, <3>1
  <2>4. CASE ~(a <= L)
    <3>1. Older(done) = a - L /\ Len(hist) = L /\ Len(long) = L + 1 BY <2>1, <2>2, <2>4
    <3> QED BY <2>1, <2>2, <2>4, <3>1
  <2> QED BY <2>3, <2>4
<1>10. Len(new) = Len(then) - Older(then) BY <1>3, <1>4, <1>5, <1>7, <1>8, <1>9
<1>11. \A i \in 1..Len(long) : long[i].id = then[i + Older(done)]
  <2> TAKE i \in 1..Len(long)
  <2>1. CASE i = Len(hist) + 1 BY <1>2, <1>3, <1>4, <1>5, <1>8, <1>9, <2>1
  <2>2. CASE i \in 1..Len(hist)
    <3>1. i + Older(done) \in 1..Len(done) BY <1>3, <1>8, <1>9, <2>2
    <3> QED BY <1>4, <1>5, <1>8, <2>2, <3>1
  <2> QED BY <1>3, <1>5, <2>1, <2>2
<1>12. Len(new) \in Nat /\ \A i \in 1..Len(new) : i \in Nat /\ i + Older(long) \in 1..Len(long)
  <2>1. Len(long) \in Nat /\ Older(long) \in Nat /\ Older(long) <= Len(long) /\ Len(new) = Len(long) - Older(long)
    BY <1>3, <1>5, <1>7, <1>9
  <2> QED BY <2>1
<1>13. \A i \in 1..Len(new) : new[i].id = then[i + Older(then)]
  <2> TAKE i \in 1..Len(new)
  <2>1. new[i].id = then[(i + Older(long)) + Older(done)] BY <1>7, <1>11, <1>12
  <2>2. (i + Older(long)) + Older(done) = i + Older(then) BY <1>9, <1>12
  <2> QED BY <2>1, <2>2
<1>14. Tables!ToSet(then) = Tables!ToSet(done) \cup {id}
  <2>1. Tables!ToSet(then) = {then[i] : i \in 1..(Len(done) + 1)} /\ Tables!ToSet(done) = {done[i] : i \in 1..Len(done)}
    BY <1>3, <1>4 DEF Tables!ToSet
  <2>2. 1..(Len(done) + 1) = 1..Len(done) \cup {Len(done) + 1} BY <1>3
  <2>3. {then[i] : i \in 1..(Len(done) + 1)} = {then[i] : i \in 1..Len(done)} \cup {then[Len(done) + 1]} BY <2>2
  <2>4. {then[i] : i \in 1..Len(done)} = {done[i] : i \in 1..Len(done)} BY <1>4
  <2> QED BY <1>4, <2>1, <2>3, <2>4
<1>15. DOMAIN rest = DOMAIN ss \ {id} BY DEF Tables!Without
<1> HIDE DEF rest
<1>16. Tables!ToSet(then) \cap DOMAIN rest = {} /\ Tables!ToSet(then) \cup DOMAIN rest = 1..given
  BY <1>14, <1>15 DEF PastOK
<1>17. \A i \in 1..Len(long) : \A p \in Protocols : p \in Tables!ToSet(long[i].used) <=> long[i].id \in rn[p].users
  <2> TAKE i \in 1..Len(long)
  <2>1. CASE i = Len(hist) + 1 BY <1>2, <1>5, <2>1
  <2>2. CASE i \in 1..Len(hist) BY <1>5, <2>2 DEF PastOK
  <2> QED BY <1>3, <1>5, <2>1, <2>2
<1>18. \A i \in 1..Len(new) : \A p \in Protocols : p \in Tables!ToSet(new[i].used) <=> new[i].id \in rn[p].users
  BY <1>7, <1>12, <1>17
<1> QED BY <1>6, <1>7, <1>10, <1>13, <1>16, <1>18 DEF PastOK, new, rec, long, then, rest

\* What the history says is kept while no session of it runs anything.
LEMMA PastStays ==
  ASSUME NEW hist, NEW done, NEW ss, NEW rn, NEW given, PastOK(hist, done, ss, rn, given),
         NEW tt, NEW sn, NEW next, Tables!ToSet(done) \cap DOMAIN tt = {}, Tables!ToSet(done) \cup DOMAIN tt = 1..next,
         \A p \in Protocols : \A s \in Tables!ToSet(done) : s \in rn[p].users <=> s \in sn[p].users
  PROVE  PastOK(hist, done, tt, sn, next)
<1>1. \A i \in 1..Len(hist) : hist[i].id \in Tables!ToSet(done)
  <2> DEFINE S == {done[i] : i \in DOMAIN done}
             T == {hist[i] : i \in DOMAIN hist}
  <2>1. done \in Seq(S) /\ hist \in Seq(T) BY DEF PastOK, SeqOf
  <2> HIDE DEF S, T
  <2>2. Len(done) \in Nat /\ DOMAIN done = 1..Len(done) /\ Len(hist) \in Nat BY <2>1
  <2>3. Older(done) \in Nat /\ Len(hist) = Len(done) - Older(done) BY <2>2, TablesAssumption DEF Older, PastOK
  <2> TAKE i \in 1..Len(hist)
  <2>4. i + Older(done) \in DOMAIN done BY <2>2, <2>3
  <2> QED BY <2>4 DEF PastOK, Tables!ToSet
<1> QED BY <1>1 DEF PastOK

\* A use that is changed at one protocol leaves the others.
LEMMA UsePut ==
  ASSUME NEW us, NEW p, NEW v
  PROVE  /\ Tables!Use(Tables!Put(us, p, v), p) = v
         /\ \A q : q # p => Tables!Use(Tables!Put(us, p, v), q) = Tables!Use(us, q)
BY DEF Tables!Use, Tables!Put

\* Sessions that are put, or dropped, while they run nothing leave every time as it is.
LEMMA TimeSame ==
  ASSUME NEW ss, NEW tt, NEW t, NEW p,
         \A s : s \in ActiveOf(ss, p) /\ ~(s \in ActiveOf(tt, p) /\ tt[s].since = ss[s].since) => ss[s].since = t /\ t \in Int,
         \A s : s \in ActiveOf(tt, p) /\ ~(s \in ActiveOf(ss, p) /\ tt[s].since = ss[s].since) => tt[s].since = t /\ t \in Int
  PROVE  TimeOf(tt, t, p) = TimeOf(ss, t, p)
<1>1. t \in Int => t - t = 0 OBVIOUS
<1>2. ASSUME NEW s \in 1..MaxSessions PROVE TimeOf(tt, t, p)[s] = TimeOf(ss, t, p)[s]
  <2>1. /\ TimeOf(tt, t, p)[s] = IF s \in ActiveOf(tt, p) THEN t - tt[s].since ELSE 0
        /\ TimeOf(ss, t, p)[s] = IF s \in ActiveOf(ss, p) THEN t - ss[s].since ELSE 0
    BY DEF TimeOf
  <2> QED BY <1>1, <2>1
<1> QED BY <1>2 DEF TimeOf

\* Every term of a protocol's time is a number.
LEMMA TimeType ==
  ASSUME NEW ss, NEW wk, NEW rn, NEW given, RowsOK(ss, wk, rn, given), NEW t \in Int, NEW p
  PROVE  TimeOf(ss, t, p) \in [1..MaxSessions -> Int]
<1>1. \A s \in ActiveOf(ss, p) : t - ss[s].since \in Int
  <2>1. \A s \in ActiveOf(ss, p) : ss[s].since \in Int BY DEF RowsOK, RowOK, ActiveOf
  <2> QED BY <2>1
<1> QED BY <1>1 DEF TimeOf

\* The clock moves: every running session adds its second.
LEMMA TickSum ==
  ASSUME NEW ss, NEW wk, NEW rn, NEW given \in 0..MaxSessions, RowsOK(ss, wk, rn, given), NEW t \in Int, NEW p, NEW b \in Int
  PROVE  /\ Sum(b, TimeOf(ss, t, p)) \in Int
         /\ Sum(b, TimeOf(ss, t + 1, p)) = Sum(b, TimeOf(ss, t, p)) + Cardinality(ActiveOf(ss, p))
<1> DEFINE n == MaxSessions
           A == ActiveOf(ss, p)
           f == TimeOf(ss, t, p)
           g == TimeOf(ss, t + 1, p)
           d == [k \in 0..n |-> Cardinality(A \cap (1..k))]
<1>0. n \in Nat BY TablesAssumption
<1>1. f \in [1..n -> Int] /\ g \in [1..n -> Int]
  <2>1. t + 1 \in Int OBVIOUS
  <2> QED BY <2>1, TimeType
<1>2. A \subseteq 1..n
  <2>1. DOMAIN ss \subseteq 1..given /\ given <= n /\ given \in Int BY DEF RowsOK
  <2> QED BY <1>0, <2>1 DEF ActiveOf
<1>3. \A s \in A : ss[s].since \in Int BY DEF RowsOK, RowOK, ActiveOf
<1>4. \A k \in 1..n : f[k] = (IF k \in A THEN t - ss[k].since ELSE 0) /\ g[k] = (IF k \in A THEN (t + 1) - ss[k].since ELSE 0)
  BY DEF TimeOf
<1> HIDE DEF n, f, g, A
<1>5. \A k \in 0..n : IsFiniteSet(A \cap (1..k)) /\ Cardinality(A \cap (1..k)) \in Nat
  <2> TAKE k \in 0..n
  <2>1. IsFiniteSet(1..k) BY <1>0, FS_Interval
  <2>2. IsFiniteSet(A \cap (1..k)) BY <2>1, FS_Subset
  <2> QED BY <2>2, FS_CardinalityType
<1>6. d \in [0..n -> Int] BY <1>5
<1>7. d[0] = 0
  <2>1. A \cap (1..0) = {} /\ 0 \in 0..n BY <1>0
  <2> QED BY <2>1, FS_EmptySet
<1>8. ASSUME NEW k \in 1..n PROVE g[k] + d[k - 1] = f[k] + d[k]
  <2>1. k \in 0..n /\ k - 1 \in 0..n BY <1>0
  <2>2. CASE k \in A
    <3>1. A \cap (1..k) = (A \cap (1..(k - 1))) \cup {k} /\ k \notin A \cap (1..(k - 1)) BY <1>0, <2>2
    <3>2. Cardinality(A \cap (1..k)) = Cardinality(A \cap (1..(k - 1))) + 1 BY <1>5, <2>1, <3>1, FS_AddElement
    <3>3. d[k] = d[k - 1] + 1 /\ d[k - 1] \in Int BY <1>5, <2>1, <3>2
    <3>4. ss[k].since \in Int /\ f[k] = t - ss[k].since /\ g[k] = (t + 1) - ss[k].since BY <1>3, <1>4, <2>2
    <3> HIDE DEF d
    <3> DEFINE x == d[k - 1]
               z == ss[k].since
    <3>5. x \in Int /\ z \in Int /\ d[k] = x + 1 /\ f[k] = t - z /\ g[k] = (t + 1) - z BY <3>3, <3>4
    <3> HIDE DEF x, z
    <3>6. g[k] + x = f[k] + d[k] BY <3>5
    <3> QED BY <3>6 DEF x
  <2>3. CASE k \notin A
    <3>1. A \cap (1..k) = A \cap (1..(k - 1)) BY <1>0, <2>3
    <3>2. d[k] = d[k - 1] /\ d[k - 1] \in Int BY <1>5, <2>1, <3>1
    <3>3. f[k] = 0 /\ g[k] = 0 BY <1>4, <2>3
    <3> HIDE DEF d
    <3> QED BY <3>2, <3>3
  <2> QED BY <2>2, <2>3
<1>9. d[n] = Cardinality(A)
  <2>1. n \in 0..n BY <1>0
  <2>2. A \cap (1..n) = A BY <1>2
  <2> QED BY <2>1, <2>2
<1> HIDE DEF d
<1>10. b = b + d[0] BY <1>7
<1>11. StepsBy(n, f, g, d) BY <1>1, <1>6, <1>8 DEF StepsBy
<1>12. Sum(b, f) \in Int /\ Sum(b, g) = Sum(b, f) + d[n] BY <1>0, <1>10, <1>11, SumChanges
<1> QED BY <1>9, <1>12 DEF f, g, A

\* The sessions of tt are those of ss, but that id no longer runs p.
Stopped(ss, tt, p, id) ==
  /\ id \in ActiveOf(ss, p) /\ ActiveOf(tt, p) = ActiveOf(ss, p) \ {id}
  /\ \A s \in ActiveOf(tt, p) : tt[s].since = ss[s].since

\* A pipeline goes down: its time moves from what is running to what is banked.
LEMMA BankSum ==
  ASSUME NEW ss, NEW wk, NEW rn, NEW given \in 0..MaxSessions, RowsOK(ss, wk, rn, given), NEW t \in Int, NEW b \in Int,
         NEW p, NEW id, NEW tt, Stopped(ss, tt, p, id)
  PROVE  Sum(b + (t - ss[id].since), TimeOf(tt, t, p)) = Sum(b, TimeOf(ss, t, p))
<1> DEFINE n == MaxSessions
           f == TimeOf(ss, t, p)
           g == TimeOf(tt, t, p)
           x == t - ss[id].since
           d == [k \in 0..n |-> IF k < id THEN x ELSE 0]
<1>0. n \in Nat BY TablesAssumption
<1> id \in ActiveOf(ss, p) /\ ActiveOf(tt, p) = ActiveOf(ss, p) \ {id} /\ \A s \in ActiveOf(tt, p) : tt[s].since = ss[s].since
  BY DEF Stopped
<1>1. f \in [1..n -> Int] BY TimeType
<1>2. id \in 1..n
  <2>1. DOMAIN ss \subseteq 1..given /\ given <= n /\ given \in Int BY DEF RowsOK
  <2> QED BY <1>0, <2>1 DEF ActiveOf
<1>3. x \in Int
  <2>1. ss[id].since \in Int BY DEF RowsOK, RowOK, ActiveOf
  <2> QED BY <2>1
<1>4. \A k \in 1..n : k # id => g[k] = f[k] BY DEF TimeOf
<1>5. f[id] = x /\ g[id] = 0 BY <1>2 DEF TimeOf
<1>6. g = [k \in 1..n |-> g[k]] BY DEF TimeOf
<1> HIDE DEF f, g, x
<1>7. g \in [1..n -> Int]
  <2>1. \A k \in 1..n : g[k] \in Int BY <1>1, <1>4, <1>5
  <2> QED BY <1>6, <2>1
<1>8. d \in [0..n -> Int] BY <1>3
<1>9. d[0] = x /\ d[n] = 0 BY <1>0, <1>2
<1>10. ASSUME NEW k \in 1..n PROVE g[k] + d[k - 1] = f[k] + d[k]
  <2>1. k \in 0..n /\ k - 1 \in 0..n /\ k \in Int BY <1>0
  <2>2. d[k] = (IF k < id THEN x ELSE 0) /\ d[k - 1] = IF k - 1 < id THEN x ELSE 0 BY <2>1
  <2>3. f[k] \in Int /\ g[k] \in Int BY <1>1, <1>7
  <2> HIDE DEF d
  <2>4. CASE k = id BY <1>2, <1>3, <1>5, <2>2, <2>4
  <2>5. CASE k # id
    <3>1. d[k] = d[k - 1] BY <1>2, <2>1, <2>2, <2>5
    <3> QED BY <1>4, <2>5, <3>1
  <2> QED BY <2>4, <2>5
<1> HIDE DEF d
<1>11. Sum(b, f) \in Int /\ Sum(b + x, g) = Sum(b, f) + d[n]
  <2>1. b + x \in Int /\ b + x = b + d[0] BY <1>3, <1>9
  <2> HIDE DEF n
  <2>2. StepsBy(n, f, g, d) BY <1>1, <1>7, <1>8, <1>10 DEF StepsBy
  <2> QED BY <1>0, <2>1, <2>2, SumChanges
<1> QED BY <1>9, <1>11 DEF f, g, x

\* What is finite, and how many start messages wait for their pipeline.
LEMMA AskingIs ==
  ASSUME NEW ss, NEW wk, NEW rn, NEW given \in Nat, RowsOK(ss, wk, rn, given), NEW p
  PROVE  IsFiniteSet(Asking(wk, p)) /\ Cardinality(Asking(wk, p)) \in Nat
<1>1. Asking(wk, p) \subseteq 1..given BY DEF RowsOK, Asking
<1>2. IsFiniteSet(1..given) BY FS_Interval
<1>3. IsFiniteSet(Asking(wk, p)) BY <1>1, <1>2, FS_Subset
<1> QED BY <1>3, FS_CardinalityType

\* A row of a session that is not touched stays as good, whatever others ran.
LEMMA RowStays ==
  ASSUME NEW s, NEW row, NEW w, NEW rn, NEW sn, RowOK(s, row, w, rn),
         \A p \in Protocols : s \in rn[p].users <=> s \in sn[p].users
  PROVE  RowOK(s, row, w, sn)
BY DEF RowOK

\* A connection: its row is empty.
LEMMA AddSessionKeeps == TablesInv /\ Tables!AddSession => TablesInv'
<1> SUFFICES ASSUME TablesInv, Tables!AddSession PROVE TablesInv' OBVIOUS
<1> DEFINE id == lastId + 1
           row == [protocol |-> Tables!None, active |-> FALSE, since |-> 0, used |-> <<>>, requested |-> <<>>, starts |-> 0]
<1>1. /\ lastId < MaxSessions /\ lastId' = id /\ sessions' = Tables!Put(sessions, id, row)
      /\ work' = Tables!Put(work, id, "idle") /\ UNCHANGED <<usage, history, now, ran, ended>>
  BY DEF Tables!AddSession, Tables!tables
<1>2. MaxSessions \in Nat /\ lastId \in Nat /\ id \in 0..MaxSessions /\ id \notin 1..lastId /\ 1..id = 1..lastId \cup {id}
  BY <1>1, TablesAssumption DEF TablesInv
<1>3. /\ DOMAIN row = RowFields /\ row.active = FALSE /\ row.since = 0 /\ DOMAIN row.used = 1..0 /\ DOMAIN row.used = {}
      /\ row.used = [i \in 1..0 |-> row.used[i]]
  BY DEF RowFields
<1> HIDE DEF row, id
<1>4. /\ DOMAIN sessions' = DOMAIN sessions \cup {id} /\ sessions'[id] = row
      /\ \A s \in DOMAIN sessions : s # id => sessions'[s] = sessions[s]
      /\ DOMAIN work' = DOMAIN work \cup {id} /\ work'[id] = "idle"
      /\ \A s \in DOMAIN work : s # id => work'[s] = work[s]
  BY <1>1 DEF Tables!Put
<1>5. DOMAIN sessions \subseteq 1..lastId /\ DOMAIN work = DOMAIN sessions BY DEF TablesInv, RowsOK
<1>6. \A p \in Protocols : id \notin ran[p].users BY <1>2 DEF TablesInv, RanOK
<1>7. RowOK(id, row, "idle", ran)
  <2>1. 0 \in Nat /\ 0 \in Int /\ Tables!ToSet(row.used) = {} BY <1>3 DEF Tables!ToSet
  <2> QED BY <1>3, <1>6, <2>1 DEF RowOK
<1>8. RowsOK(sessions', work', ran, id)
  BY <1>2, <1>4, <1>5, <1>7 DEF TablesInv, RowsOK
<1>9. RanOK(ran, id) BY <1>2 DEF TablesInv, RanOK
<1>10. \A p \in Protocols : UseIs(usage, sessions', work', ran, now, p)
  <2> TAKE p \in Protocols
  <2>1. ActiveOf(sessions', p) = ActiveOf(sessions, p) /\ \A s \in ActiveOf(sessions, p) : sessions'[s].since = sessions[s].since
    BY <1>2, <1>3, <1>4, <1>5 DEF ActiveOf
  <2>2. TimeOf(sessions', now, p) = TimeOf(sessions, now, p) BY <2>1, TimeSame
  <2>3. Asking(work', p) = Asking(work, p)
    <3>1. p # "idle" BY TablesAssumption
    <3> QED BY <1>2, <1>4, <1>5, <3>1 DEF Asking
  <2> QED BY <2>2, <2>3 DEF TablesInv, UseIs
<1>11. PastOK(history, ended, sessions', ran, id)
  <2>1. PastOK(history, ended, sessions, ran, lastId) BY DEF TablesInv
  <2>2. Tables!ToSet(ended) \cap DOMAIN sessions' = {} /\ Tables!ToSet(ended) \cup DOMAIN sessions' = 1..id
    BY <1>2, <1>4, <2>1 DEF PastOK
  <2> QED BY <2>1, <2>2, PastStays
<1> QED BY <1>1, <1>2, <1>8, <1>9, <1>10, <1>11 DEF TablesInv

\* The tables count with the one count of finite sets.
LEMMA OneCount == ASSUME NEW S PROVE Tables!Cardinality(S) = Cardinality(S)
BY DEF Tables!Cardinality, Cardinality

\* The clock: every running session adds its second to its protocol.
LEMMA TickKeeps == TablesInv /\ Tables!Tick => TablesInv'
<1> SUFFICES ASSUME TablesInv, Tables!Tick PROVE TablesInv' OBVIOUS
<1>1. /\ now' = now + 1 /\ UNCHANGED <<sessions, usage, history, lastId, work, ended>>
      /\ ran' = [p \in Protocols |-> [ran[p] EXCEPT !.time = @ + Cardinality(ActiveOf(sessions, p))]]
  <2>1. ran' = [p \in Protocols |-> [ran[p] EXCEPT !.time = @ + Tables!Cardinality(ActiveOf(sessions, p))]]
    BY DEF Tables!Tick, ActiveOf
  <2>2. \A p : Tables!Cardinality(ActiveOf(sessions, p)) = Cardinality(ActiveOf(sessions, p)) BY OneCount
  <2> QED BY <2>1, <2>2 DEF Tables!Tick, Tables!tables
<1>2. ASSUME NEW p \in Protocols
      PROVE  /\ DOMAIN ran'[p] = {"time", "starts", "users"} /\ ran'[p].users = ran[p].users /\ ran'[p].starts = ran[p].starts
             /\ ran'[p].time = ran[p].time + Cardinality(ActiveOf(sessions, p))
  BY <1>1 DEF TablesInv, RanOK
<1>3. ASSUME NEW p \in Protocols
      PROVE  UseIs(usage, sessions, work, ran', now + 1, p) /\ ran'[p].time \in Int
  <2> DEFINE u == Tables!Use(usage, p)
  <2>1. u.decode \in Int BY DEF TablesInv, UsageOK, UseOK
  <2>2. /\ Sum(u.decode, TimeOf(sessions, now, p)) \in Int
        /\ Sum(u.decode, TimeOf(sessions, now + 1, p)) = Sum(u.decode, TimeOf(sessions, now, p)) + Cardinality(ActiveOf(sessions, p))
    BY <2>1, TickSum DEF TablesInv
  <2>3. UseIs(usage, sessions, work, ran, now, p) BY DEF TablesInv
  <2>4. Cardinality(ActiveOf(sessions, p)) \in Nat
    <3>1. ActiveOf(sessions, p) \subseteq 1..lastId /\ lastId \in Int BY DEF TablesInv, RowsOK, ActiveOf
    <3>2. IsFiniteSet(1..lastId) BY <3>1, FS_Interval
    <3> QED BY <3>1, <3>2, FS_Subset, FS_CardinalityType
  <2> QED BY <1>2, <2>2, <2>3, <2>4 DEF UseIs, TablesInv, RanOK
<1>4. RanOK(ran', lastId) BY <1>1, <1>2, <1>3 DEF TablesInv, RanOK
<1>5. RowsOK(sessions, work, ran', lastId) BY <1>2, RowStays DEF TablesInv, RowsOK
<1>6. PastOK(history, ended, sessions, ran', lastId)
  <2>1. PastOK(history, ended, sessions, ran, lastId) BY DEF TablesInv
  <2>2. Tables!ToSet(ended) \cap DOMAIN sessions = {} /\ Tables!ToSet(ended) \cup DOMAIN sessions = 1..lastId
    BY <2>1 DEF PastOK
  <2> QED BY <1>2, <2>1, <2>2, PastStays
<1>7. now + 1 \in Int BY DEF TablesInv
<1> QED BY <1>1, <1>3, <1>4, <1>5, <1>6, <1>7 DEF TablesInv

\* A protocol is noted once, at the end.
LEMMA OnceIs ==
  ASSUME NEW q, NEW n \in Nat, DOMAIN q = 1..n, q = [i \in 1..n |-> q[i]], NEW p
  PROVE  LET r == Tables!Once(q, p)
         IN /\ \E k \in Nat : DOMAIN r = 1..k /\ r = [i \in 1..k |-> r[i]]
            /\ Tables!ToSet(r) = Tables!ToSet(q) \cup {p}
<1>1. SeqOf(q) /\ Len(q) = n BY SeqFrom
<1>2. CASE p \in Tables!ToSet(q) BY <1>2 DEF Tables!Once
<1>3. CASE p \notin Tables!ToSet(q)
  <2> DEFINE r == Append(q, p)
  <2>1. /\ DOMAIN r = 1..(n + 1) /\ r[n + 1] = p /\ \A i \in 1..n : r[i] = q[i]
        /\ SeqOf(r)
    BY <1>1, OneMore
  <2> HIDE DEF r
  <2>2. r = [i \in 1..(n + 1) |-> r[i]] /\ n + 1 \in Nat
    <3> DEFINE S == {r[i] : i \in DOMAIN r}
    <3>1. r \in Seq(S) BY <2>1 DEF SeqOf
    <3> HIDE DEF S
    <3> QED BY <2>1, <3>1
  <2>3. 1..(n + 1) = 1..n \cup {n + 1} OBVIOUS
  <2>4. {r[i] : i \in 1..(n + 1)} = {q[i] : i \in 1..n} \cup {p} BY <2>1, <2>3
  <2>5. Tables!Once(q, p) = r BY <1>3 DEF Tables!Once, r
  <2>6. Tables!ToSet(r) = {r[i] : i \in 1..(n + 1)} /\ Tables!ToSet(q) = {q[i] : i \in 1..n}
    BY ONLY <2>1, DOMAIN q = 1..n, Zenon DEF Tables!ToSet
  <2>7. DOMAIN r = 1..(n + 1) BY <2>1
  <2> QED BY ONLY <2>2, <2>4, <2>5, <2>6, <2>7, Zenon
<1> QED BY <1>2, <1>3

\* A start message: a request more, of a session that runs nothing.
LEMMA NoteRequestKeeps == ASSUME TablesInv, NEW id \in DOMAIN sessions, Tables!NoteRequest(id) PROVE TablesInv'
<1>1. PICK q \in Protocols :
        /\ sessions' = [sessions EXCEPT ![id].requested = Tables!Once(@, q), ![id].starts = @ + 1]
        /\ usage' = Tables!Put(usage, q, [Tables!Use(usage, q) EXCEPT !.requests = @ + 1])
        /\ work' = [work EXCEPT ![id] = q]
  BY DEF Tables!NoteRequest
<1>2. work[id] = "idle" /\ UNCHANGED <<history, lastId, now, ran, ended>> BY DEF Tables!NoteRequest
<1>3. RowsOK(sessions, work, ran, lastId) /\ DOMAIN work = DOMAIN sessions /\ RowOK(id, sessions[id], work[id], ran)
  BY DEF TablesInv, RowsOK
<1>4. \A p \in Protocols : p # "idle" /\ p # "running" BY TablesAssumption
<1>5. /\ DOMAIN sessions' = DOMAIN sessions /\ \A s \in DOMAIN sessions : s # id => sessions'[s] = sessions[s]
      /\ DOMAIN work' = DOMAIN work /\ work'[id] = q /\ \A s \in DOMAIN work : s # id => work'[s] = work[s]
  BY <1>1, <1>3
<1>6. /\ DOMAIN sessions'[id] = DOMAIN sessions[id] /\ sessions'[id].active = sessions[id].active
      /\ sessions'[id].since = sessions[id].since /\ sessions'[id].used = sessions[id].used
      /\ sessions'[id].protocol = sessions[id].protocol
  BY <1>1, <1>3 DEF RowOK, RowFields
<1>7. RowOK(id, sessions'[id], q, ran) BY <1>2, <1>3, <1>4, <1>6 DEF RowOK
<1>8. RowsOK(sessions', work', ran, lastId) BY <1>3, <1>5, <1>7 DEF RowsOK
<1>9. \A p : TimeOf(sessions', now, p) = TimeOf(sessions, now, p)
  <2> TAKE p
  <2>1. ActiveOf(sessions', p) = ActiveOf(sessions, p) /\ \A s \in ActiveOf(sessions, p) : sessions'[s].since = sessions[s].since
    BY <1>5, <1>6 DEF ActiveOf
  <2> QED BY <2>1, TimeSame
<1>10. ASSUME NEW p \in Protocols
       PROVE  UseOK(Tables!Use(usage', p)) /\ UseIs(usage', sessions', work', ran, now, p)
  <2> DEFINE u == Tables!Use(usage, p)
             v == Tables!Use(usage', p)
  <2>1. UseOK(u) /\ UseIs(usage, sessions, work, ran, now, p) BY DEF TablesInv, UsageOK
  <2>2. IsFiniteSet(Asking(work, p)) /\ Cardinality(Asking(work, p)) \in Nat
    <3>1. lastId \in Nat BY DEF TablesInv
    <3> QED BY <1>3, <3>1, AskingIs
  <2>3. CASE p = q
    <3>1. v = [u EXCEPT !.requests = @ + 1] BY <1>1, <2>3, UsePut
    <3>2. DOMAIN v = UseFields /\ v.requests = u.requests + 1 /\ v.starts = u.starts /\ v.sessions = u.sessions /\ v.decode = u.decode
      BY <2>1, <3>1 DEF UseOK, UseFields
    <3>3. Asking(work', p) = Asking(work, p) \cup {id} /\ id \notin Asking(work, p)
      BY <1>2, <1>3, <1>4, <1>5, <2>3 DEF Asking
    <3>4. Cardinality(Asking(work', p)) = Cardinality(Asking(work, p)) + 1 BY <2>2, <3>3, FS_AddElement
    <3> QED BY <1>9, <2>1, <2>2, <3>2, <3>4 DEF UseIs, UseOK
  <2>4. CASE p # q
    <3>1. v = u BY <1>1, <2>4, UsePut
    <3>2. Asking(work', p) = Asking(work, p) BY <1>2, <1>3, <1>4, <1>5, <2>4 DEF Asking
    <3> QED BY <1>9, <2>1, <3>1, <3>2 DEF UseIs
  <2> QED BY <2>3, <2>4
<1>11. PastOK(history, ended, sessions', ran, lastId) BY <1>5 DEF TablesInv, PastOK
<1> QED BY <1>2, <1>8, <1>10, <1>11 DEF TablesInv, UsageOK

\* The pipeline does not come up.
LEMMA StartFailsKeeps == ASSUME TablesInv, NEW id \in DOMAIN sessions, Tables!StartFails(id) PROVE TablesInv'
<1>1. /\ work[id] \in Protocols /\ work' = [work EXCEPT ![id] = "idle"]
      /\ UNCHANGED <<sessions, usage, history, lastId, now, ran, ended>>
  BY DEF Tables!StartFails, Tables!tables
<1>2. RowsOK(sessions, work, ran, lastId) /\ DOMAIN work = DOMAIN sessions /\ RowOK(id, sessions[id], work[id], ran)
  BY DEF TablesInv, RowsOK
<1>3. \A p \in Protocols : p # "idle" /\ p # "running" BY TablesAssumption
<1>4. DOMAIN work' = DOMAIN work /\ work'[id] = "idle" /\ \A s \in DOMAIN work : s # id => work'[s] = work[s]
  BY <1>1, <1>2
<1>5. RowOK(id, sessions[id], "idle", ran) BY <1>1, <1>2, <1>3 DEF RowOK
<1>6. RowsOK(sessions, work', ran, lastId) BY <1>2, <1>4, <1>5 DEF RowsOK
<1>7. ASSUME NEW p \in Protocols PROVE UseIs(usage, sessions, work', ran, now, p)
  <2>1. UseOK(Tables!Use(usage, p)) /\ UseIs(usage, sessions, work, ran, now, p) BY DEF TablesInv, UsageOK
  <2>2. Asking(work', p) \subseteq Asking(work, p) BY <1>2, <1>3, <1>4 DEF Asking
  <2>3. lastId \in Nat BY DEF TablesInv
  <2>4. IsFiniteSet(Asking(work, p)) /\ Cardinality(Asking(work, p)) \in Nat BY <1>2, <2>3, AskingIs
  <2>5. Cardinality(Asking(work', p)) \in Nat /\ Cardinality(Asking(work', p)) <= Cardinality(Asking(work, p))
    BY <2>2, <2>4, FS_Subset, FS_CardinalityType
  <2> QED BY <2>1, <2>4, <2>5 DEF UseIs, UseOK
<1> QED BY <1>1, <1>6, <1>7 DEF TablesInv

\* The pipeline goes down: its time is banked.
LEMMA InactiveKeeps == ASSUME TablesInv, NEW id \in DOMAIN sessions, Tables!SetPipelineInactive(id) PROVE TablesInv'
<1>1. /\ work[id] = "running" /\ work' = [work EXCEPT ![id] = "idle"]
      /\ usage' = IF sessions[id].active THEN Tables!CloseActive(usage, sessions[id]) ELSE usage
      /\ sessions' = [sessions EXCEPT ![id].active = FALSE]
      /\ UNCHANGED <<history, lastId, now, ran, ended>>
  BY DEF Tables!SetPipelineInactive
<1>2. RowsOK(sessions, work, ran, lastId) /\ DOMAIN work = DOMAIN sessions /\ RowOK(id, sessions[id], work[id], ran)
  BY DEF TablesInv, RowsOK
<1>3. \A p \in Protocols : p # "idle" /\ p # "running" BY TablesAssumption
<1>4. /\ DOMAIN sessions' = DOMAIN sessions /\ \A s \in DOMAIN sessions : s # id => sessions'[s] = sessions[s]
      /\ DOMAIN work' = DOMAIN work /\ work'[id] = "idle" /\ \A s \in DOMAIN work : s # id => work'[s] = work[s]
  BY <1>1, <1>2
<1>5. /\ DOMAIN sessions'[id] = DOMAIN sessions[id] /\ sessions'[id].active = FALSE
      /\ sessions'[id].since = sessions[id].since /\ sessions'[id].used = sessions[id].used
  BY <1>1, <1>2 DEF RowOK, RowFields
<1>6. RowOK(id, sessions'[id], "idle", ran) BY <1>2, <1>5 DEF RowOK
<1>7. RowsOK(sessions', work', ran, lastId) BY <1>2, <1>4, <1>6 DEF RowsOK
<1>8. sessions[id].active = TRUE BY <1>1, <1>2 DEF RowOK
<1> DEFINE q == sessions[id].protocol
           time == now - sessions[id].since
<1>9. usage' = Tables!Put(usage, q, [Tables!Use(usage, q) EXCEPT !.decode = @ + time])
  BY <1>1, <1>8 DEF Tables!CloseActive
<1>10. ASSUME NEW p \in Protocols
       PROVE  UseOK(Tables!Use(usage', p)) /\ UseIs(usage', sessions', work', ran, now, p)
  <2> DEFINE u == Tables!Use(usage, p)
             v == Tables!Use(usage', p)
  <2>1. UseOK(u) /\ UseIs(usage, sessions, work, ran, now, p) BY DEF TablesInv, UsageOK
  <2>2. Asking(work', p) = Asking(work, p) BY <1>1, <1>2, <1>3, <1>4 DEF Asking
  <2>3. ActiveOf(sessions', p) = ActiveOf(sessions, p) \ {id}
    BY <1>4, <1>5 DEF ActiveOf
  <2>4. \A s \in ActiveOf(sessions', p) : sessions'[s].since = sessions[s].since BY <1>4, <1>5 DEF ActiveOf
  <2>5. CASE p = q
    <3>1. v = [u EXCEPT !.decode = @ + time] BY <1>9, <2>5, UsePut
    <3>2. DOMAIN v = UseFields /\ v.requests = u.requests /\ v.starts = u.starts /\ v.sessions = u.sessions /\ v.decode = u.decode + time
      BY <2>1, <3>1 DEF UseOK, UseFields
    <3>3. id \in ActiveOf(sessions, p) BY <1>8, <2>5 DEF ActiveOf
    <3>4. u.decode \in Int /\ time \in Int
      <4>1. now \in Int /\ sessions[id].since \in Int BY <1>2 DEF TablesInv, RowOK
      <4> QED BY <2>1, <4>1 DEF UseOK
    <3>5. lastId \in 0..MaxSessions /\ now \in Int /\ u.decode \in Int BY <3>4 DEF TablesInv
    <3>9. Stopped(sessions, sessions', p, id) BY <2>3, <2>4, <3>3 DEF Stopped
    <3> DEFINE b == u.decode
    <3>6. b \in Int BY <3>4
    <3> HIDE DEF b, u, v, time
    <3>7. Sum(b + (now - sessions[id].since), TimeOf(sessions', now, p)) = Sum(b, TimeOf(sessions, now, p))
      BY <1>2, <3>5, <3>6, <3>9, BankSum
    <3>8. Sum(u.decode + time, TimeOf(sessions', now, p)) = Sum(u.decode, TimeOf(sessions, now, p)) BY <3>7 DEF b, time
    <3> QED BY <2>1, <2>2, <3>2, <3>4, <3>8 DEF UseIs, UseOK, u, v
  <2>6. CASE p # q
    <3>1. v = u BY <1>9, <2>6, UsePut
    <3>2. ActiveOf(sessions', p) = ActiveOf(sessions, p) BY <2>3, <2>6 DEF ActiveOf
    <3>3. TimeOf(sessions', now, p) = TimeOf(sessions, now, p) BY <2>4, <3>2, TimeSame
    <3> QED BY <2>1, <2>2, <3>1, <3>3 DEF UseIs
  <2> QED BY <2>5, <2>6
<1>11. PastOK(history, ended, sessions', ran, lastId) BY <1>4 DEF TablesInv, PastOK
<1> QED BY <1>1, <1>7, <1>10, <1>11 DEF TablesInv, UsageOK

\* The pipeline is up: a start, and a session when it is the first of it.
LEMMA SetProtocolKeeps == ASSUME TablesInv, NEW id \in DOMAIN sessions, Tables!SetProtocol(id) PROVE TablesInv'
<1> DEFINE q == work[id]
           row == sessions[id]
           old == Tables!Use(usage, q)
           more == IF q \notin Tables!ToSet(row.used) THEN 1 ELSE 0
<1>1. RowsOK(sessions, work, ran, lastId) /\ DOMAIN work = DOMAIN sessions /\ RowOK(id, row, q, ran)
  BY DEF TablesInv, RowsOK
<1>2. q \in Protocols BY DEF Tables!SetProtocol
<1>3. \A p \in Protocols : p # "idle" /\ p # "running" BY TablesAssumption
<1>4. row.active = FALSE BY <1>1, <1>2, <1>3 DEF RowOK
<1>5. /\ sessions' = [sessions EXCEPT ![id] = [row EXCEPT !.protocol = q, !.active = TRUE, !.since = now,
                                                          !.used = Tables!Once(@, q)]]
      /\ usage' = Tables!Put(usage, q, [old EXCEPT !.starts = @ + 1, !.sessions = @ + more])
      /\ work' = [work EXCEPT ![id] = "running"]
      /\ ran' = [ran EXCEPT ![q] = [ran[q] EXCEPT !.starts = @ + 1, !.users = @ \cup {id}]]
      /\ UNCHANGED <<history, lastId, now, ended>>
  <2>1. sessions' = [sessions EXCEPT ![id] = [row EXCEPT !.protocol = q, !.active = TRUE, !.since = now,
                                                         !.used = Tables!Once(@, q)]]
    BY Zenon DEF Tables!SetProtocol
  <2>2. usage' = Tables!Put(usage, q, [old EXCEPT !.starts = @ + 1, !.sessions = @ + more])
    BY <1>4, Zenon DEF Tables!SetProtocol
  <2>3. ran' = [ran EXCEPT ![q] = [ran[q] EXCEPT !.starts = @ + 1, !.users = @ \cup {id}]]
    BY Zenon DEF Tables!SetProtocol
  <2> QED BY <2>1, <2>2, <2>3 DEF Tables!SetProtocol
<1>6. /\ DOMAIN sessions' = DOMAIN sessions /\ \A s \in DOMAIN sessions : s # id => sessions'[s] = sessions[s]
      /\ DOMAIN work' = DOMAIN work /\ work'[id] = "running" /\ \A s \in DOMAIN work : s # id => work'[s] = work[s]
  BY <1>1, <1>5
<1>7. /\ DOMAIN sessions'[id] = RowFields /\ sessions'[id].protocol = q /\ sessions'[id].active = TRUE
      /\ sessions'[id].since = now /\ sessions'[id].used = Tables!Once(row.used, q)
  <2> DEFINE new == [row EXCEPT !.protocol = q, !.active = TRUE, !.since = now, !.used = Tables!Once(@, q)]
  <2>1. sessions'[id] = new BY <1>5
  <2> HIDE DEF row, q
  <2>2. DOMAIN row = RowFields BY <1>1 DEF RowOK
  <2>3. DOMAIN new = RowFields /\ new.protocol = q /\ new.active = TRUE /\ new.since = now /\ new.used = Tables!Once(row.used, q)
    BY <2>2 DEF RowFields
  <2> QED BY <2>1, <2>3
<1>8. RanOK(ran, lastId) BY DEF TablesInv
<1>9. /\ DOMAIN ran' = Protocols /\ \A p \in Protocols : p # q => ran'[p] = ran[p]
      /\ DOMAIN ran'[q] = {"time", "starts", "users"} /\ ran'[q].time = ran[q].time
      /\ ran'[q].starts = ran[q].starts + 1 /\ ran'[q].users = ran[q].users \cup {id}
  <2> DEFINE new == [ran[q] EXCEPT !.starts = @ + 1, !.users = @ \cup {id}]
  <2>1. DOMAIN ran = Protocols /\ DOMAIN ran[q] = {"time", "starts", "users"} BY <1>2, <1>8 DEF RanOK
  <2>2. ran' = [ran EXCEPT ![q] = new] BY <1>5
  <2>3. /\ DOMAIN new = {"time", "starts", "users"} /\ new.time = ran[q].time
        /\ new.starts = ran[q].starts + 1 /\ new.users = ran[q].users \cup {id}
    BY <2>1
  <2> HIDE DEF new, q
  <2> QED BY <1>2, <2>1, <2>2, <2>3
<1>10. id \in 1..lastId /\ lastId \in Nat /\ now \in Int BY <1>1 DEF TablesInv, RowsOK
<1>11. /\ \E k \in Nat : DOMAIN sessions'[id].used = 1..k /\ sessions'[id].used = [i \in 1..k |-> sessions'[id].used[i]]
       /\ Tables!ToSet(sessions'[id].used) = Tables!ToSet(row.used) \cup {q}
  <2> HIDE DEF row, q
  <2>1. PICK n \in Nat : DOMAIN row.used = 1..n /\ row.used = [i \in 1..n |-> row.used[i]] BY <1>1 DEF RowOK
  <2> DEFINE x == row.used
  <2>2. DOMAIN x = 1..n /\ x = [i \in 1..n |-> x[i]] BY <2>1
  <2>3. sessions'[id].used = Tables!Once(x, q) BY <1>7
  <2> HIDE DEF x
  <2>4. /\ \E k \in Nat : DOMAIN Tables!Once(x, q) = 1..k /\ Tables!Once(x, q) = [i \in 1..k |-> Tables!Once(x, q)[i]]
        /\ Tables!ToSet(Tables!Once(x, q)) = Tables!ToSet(x) \cup {q}
    BY <2>2, OnceIs
  <2> QED BY <2>3, <2>4 DEF x
<1> HIDE DEF row, q, old, more
<1>12. \A p \in Protocols : \A s : s # id => (s \in ran[p].users <=> s \in ran'[p].users) BY <1>9
<1>13. RowOK(id, sessions'[id], "running", ran')
  <2>1. \A p \in Protocols : p \in Tables!ToSet(row.used) <=> id \in ran[p].users BY <1>1 DEF RowOK
  <2>2. \A p \in Protocols : p \in Tables!ToSet(sessions'[id].used) <=> id \in ran'[p].users BY <1>9, <1>11, <2>1
  <2> QED BY <1>7, <1>10, <1>11, <2>2 DEF RowOK
<1>14. RowsOK(sessions', work', ran', lastId)
  <2>1. \A s \in DOMAIN sessions : s # id => RowOK(s, sessions[s], work[s], ran') BY <1>1, <1>12, RowStays DEF RowsOK
  <2> QED BY <1>1, <1>6, <1>13, <2>1 DEF RowsOK
<1>15. RanOK(ran', lastId) BY <1>8, <1>9, <1>10 DEF RanOK
<1>16. ASSUME NEW p \in Protocols PROVE TimeOf(sessions', now, p) = TimeOf(sessions, now, p)
  <2>1. id \notin ActiveOf(sessions, p) BY <1>4 DEF ActiveOf, row
  <2>2. \A s : s # id => (s \in ActiveOf(sessions', p) <=> s \in ActiveOf(sessions, p)) BY <1>6 DEF ActiveOf
  <2>3. \A s \in ActiveOf(sessions, p) : sessions'[s].since = sessions[s].since BY <1>6, <2>1 DEF ActiveOf
  <2> QED BY <1>7, <1>10, <2>1, <2>2, <2>3, TimeSame
<1>17. ASSUME NEW p \in Protocols
       PROVE  UseOK(Tables!Use(usage', p)) /\ UseIs(usage', sessions', work', ran', now, p)
  <2> DEFINE u == Tables!Use(usage, p)
             v == Tables!Use(usage', p)
  <2>1. UseOK(u) /\ UseIs(usage, sessions, work, ran, now, p) BY DEF TablesInv, UsageOK
  <2>2. IsFiniteSet(Asking(work, p)) /\ Cardinality(Asking(work, p)) \in Nat BY <1>1, <1>10, AskingIs
  <2>3. CASE p = q
    <3>1. v = [u EXCEPT !.starts = @ + 1, !.sessions = @ + more] BY <1>5, <2>3, UsePut DEF old
    <3>2. /\ DOMAIN v = UseFields /\ v.requests = u.requests /\ v.starts = u.starts + 1 /\ v.sessions = u.sessions + more
          /\ v.decode = u.decode
      BY <2>1, <3>1 DEF UseOK, UseFields
    <3>3. Asking(work, p) = Asking(work', p) \cup {id} /\ id \notin Asking(work', p)
      BY <1>1, <1>3, <1>6, <2>3 DEF Asking, q
    <3>4. IsFiniteSet(Asking(work', p)) /\ Cardinality(Asking(work', p)) \in Nat
      BY <1>10, <1>14, AskingIs
    <3>5. Cardinality(Asking(work, p)) = Cardinality(Asking(work', p)) + 1 BY <3>3, <3>4, FS_AddElement
    <3>6. Cardinality(ran'[p].users) = Cardinality(ran[p].users) + more /\ more \in Nat
      <4>1. IsFiniteSet(ran[p].users) /\ Cardinality(ran[p].users) \in Nat
        <5>1. ran[p].users \subseteq 1..lastId BY <1>8 DEF RanOK
        <5>2. IsFiniteSet(1..lastId) BY <1>10, FS_Interval
        <5> QED BY <5>1, <5>2, FS_Subset, FS_CardinalityType
      <4>2. q \in Tables!ToSet(row.used) <=> id \in ran[p].users BY <1>1, <1>2, <2>3 DEF RowOK
      <4>3. CASE id \in ran[p].users
        <5>1. ran'[p].users = ran[p].users /\ more = 0 BY <1>9, <2>3, <4>2, <4>3 DEF more
        <5> QED BY <4>1, <5>1
      <4>4. CASE id \notin ran[p].users
        <5>1. ran'[p].users = ran[p].users \cup {id} /\ more = 1 BY <1>9, <2>3, <4>2, <4>4 DEF more
        <5>2. Cardinality(ran[p].users \cup {id}) = Cardinality(ran[p].users) + 1 BY <4>1, <4>4, FS_AddElement
        <5> QED BY <5>1, <5>2
      <4> QED BY <4>3, <4>4
    <3>7. ran'[p].time = ran[p].time /\ ran'[p].starts = ran[p].starts + 1 BY <1>9, <2>3
    <3>8. TimeOf(sessions', now, p) = TimeOf(sessions, now, p) BY <1>16
    <3>9. UseOK(v)
      BY <2>1, <3>2, <3>6 DEF UseOK
    <3> HIDE DEF u
    <3>10. Sum(u.decode, TimeOf(sessions, now, p)) = ran[p].time /\ u.starts = ran[p].starts /\ u.sessions = Cardinality(ran[p].users)
           /\ u.starts + Cardinality(Asking(work, p)) <= u.requests /\ u.starts \in Nat /\ u.requests \in Nat
      BY <2>1 DEF UseIs, UseOK, u
    <3>11. v.starts + Cardinality(Asking(work', p)) <= v.requests BY <3>2, <3>4, <3>5, <3>10
    <3>12. UseIs(usage', sessions', work', ran', now, p) BY <3>2, <3>6, <3>7, <3>8, <3>10, <3>11 DEF UseIs, v
    <3> QED BY <3>9, <3>12
  <2>4. CASE p # q
    <3>1. v = u BY <1>5, <2>4, UsePut
    <3>2. Asking(work', p) = Asking(work, p) BY <1>1, <1>3, <1>6, <2>4 DEF Asking, q
    <3>3. ran'[p] = ran[p] BY <1>9, <2>4
    <3> QED BY <1>16, <2>1, <3>1, <3>2, <3>3 DEF UseIs
  <2> QED BY <2>3, <2>4
<1>18. PastOK(history, ended, sessions', ran', lastId)
  <2>1. PastOK(history, ended, sessions, ran, lastId) BY DEF TablesInv
  <2>2. Tables!ToSet(ended) \cap DOMAIN sessions' = {} /\ Tables!ToSet(ended) \cup DOMAIN sessions' = 1..lastId
    BY <1>6, <2>1 DEF PastOK
  <2>3. id \notin Tables!ToSet(ended) BY <2>1 DEF PastOK
  <2>4. \A p \in Protocols : \A s \in Tables!ToSet(ended) : s \in ran[p].users <=> s \in ran'[p].users BY <1>12, <2>3
  <2> QED BY <2>1, <2>2, <2>4, PastStays
<1> QED BY <1>5, <1>10, <1>14, <1>15, <1>17, <1>18 DEF TablesInv, UsageOK

\* A session leaves: its row becomes the newest of the history.
LEMMA RemoveSessionKeeps == ASSUME TablesInv, NEW id \in DOMAIN sessions, Tables!RemoveSession(id) PROVE TablesInv'
<1> DEFINE row == sessions[id]
<1>1. RowsOK(sessions, work, ran, lastId) /\ DOMAIN work = DOMAIN sessions /\ RowOK(id, row, work[id], ran)
  BY DEF TablesInv, RowsOK
<1>2. work[id] = "idle" BY DEF Tables!RemoveSession
<1>3. row.active = FALSE BY <1>1, <1>2 DEF RowOK
<1>4. /\ usage' = usage
      /\ history' = Tables!Newest(Append(history, [id |-> id, used |-> row.used]), HistoryLimit)
      /\ sessions' = Tables!Without(sessions, {id}) /\ work' = Tables!Without(work, {id})
      /\ ended' = Append(ended, id)
      /\ UNCHANGED <<lastId, now, ran>>
  BY <1>3 DEF Tables!RemoveSession
<1> HIDE DEF row
<1>5. /\ DOMAIN sessions' = DOMAIN sessions \ {id} /\ \A s \in DOMAIN sessions' : sessions'[s] = sessions[s]
      /\ DOMAIN work' = DOMAIN work \ {id} /\ \A s \in DOMAIN work' : work'[s] = work[s]
  BY <1>4 DEF Tables!Without
<1>6. lastId \in Nat /\ PastOK(history, ended, sessions, ran, lastId) BY DEF TablesInv
<1>7. PastOK(history', ended', sessions', ran, lastId)
  <2>1. \A p \in Protocols : p \in Tables!ToSet(row.used) <=> id \in ran[p].users BY <1>1 DEF RowOK
  <2> QED BY <1>4, <1>6, <2>1, PastGrows
<1>8. RowsOK(sessions', work', ran, lastId) BY <1>1, <1>5 DEF RowsOK
<1>9. ASSUME NEW p \in Protocols PROVE UseIs(usage, sessions', work', ran, now, p)
  <2>1. ActiveOf(sessions', p) = ActiveOf(sessions, p) BY <1>3, <1>5 DEF ActiveOf, row
  <2>2. \A s \in ActiveOf(sessions, p) : sessions'[s].since = sessions[s].since BY <1>5, <2>1 DEF ActiveOf
  <2>3. TimeOf(sessions', now, p) = TimeOf(sessions, now, p) BY <2>1, <2>2, TimeSame
  <2>4. Asking(work', p) = Asking(work, p)
    <3>1. p # "idle" BY TablesAssumption
    <3> QED BY <1>2, <1>5, <3>1 DEF Asking
  <2> QED BY <2>3, <2>4 DEF TablesInv, UseIs
<1> QED BY <1>4, <1>7, <1>8, <1>9 DEF TablesInv

\* No time at all.
LEMMA NoTime == ASSUME NEW n \in Nat PROVE Sum(0, [k \in 1..n |-> 0]) = 0
<1> DEFINE z == [k \in 0..n |-> 0]
           e == [r |-> z, d |-> z]
           f == [k \in 1..n |-> 0]
<1>1. e.r = z /\ e.d = z /\ DOMAIN f = 1..n /\ \A k \in 1..n : f[k] = 0 OBVIOUS
<1>2. \A k \in 0..n : z[k] = 0 OBVIOUS
<1> HIDE DEF e, f, z
<1>3. SumSoFar(e, 0, 0) BY <1>1, <1>2 DEF SumSoFar
<1>4. ASSUME NEW k \in 1..n, NEW acc, SumSoFar(e, acc, k - 1) PROVE SumSoFar(e, AddOne(e, acc, f[k]), k)
  <2>1. k \in 0..n /\ k - 1 \in 0..n OBVIOUS
  <2>2. e.r[k - 1] = 0 /\ e.d[k - 1] = 0 /\ e.r[k] = 0 /\ e.d[k] = 0 BY <1>1, <1>2, <2>1
  <2>3. acc = 0 BY <1>4, <2>2 DEF SumSoFar
  <2>4. AddOne(e, acc, f[k]) = 0 BY <1>1, <2>3 DEF AddOne
  <2> QED BY <2>2, <2>4 DEF SumSoFar
<1>5. SumSoFar(e, Sums!Fold(e, 0, f), n) BY <1>1, <1>3, <1>4, Sums!FoldKeeps
<1>6. Sum(0, f) = 0
  <2>1. n \in 0..n OBVIOUS
  <2> QED BY <1>1, <1>2, <1>5, <2>1, SumOf DEF SumSoFar
<1> QED BY <1>6 DEF f

\* Nothing has run before the first connection.
LEMMA TablesBegin == Tables!Init => TablesInv
<1> SUFFICES ASSUME Tables!Init PROVE TablesInv OBVIOUS
<1>0. MaxSessions \in Nat /\ HistoryLimit \in Nat BY TablesAssumption
<1>1. /\ sessions = <<>> /\ usage = <<>> /\ history = <<>> /\ lastId = 0 /\ now = 0 /\ work = <<>> /\ ended = <<>>
      /\ ran = [p \in Protocols |-> [time |-> 0, starts |-> 0, users |-> {}]]
  BY DEF Tables!Init
<1>2. DOMAIN sessions = {} /\ DOMAIN work = {} /\ DOMAIN usage = {} BY <1>1
<1>3. RowsOK(sessions, work, ran, lastId) BY <1>1, <1>2 DEF RowsOK
<1>4. RanOK(ran, lastId) BY <1>1 DEF RanOK
<1>5. \A p : Tables!Use(usage, p) = Tables!NewUse BY <1>2 DEF Tables!Use
<1>6. UsageOK(usage) BY <1>5 DEF UsageOK, UseOK, UseFields, Tables!NewUse
<1>7. ASSUME NEW p \in Protocols PROVE UseIs(usage, sessions, work, ran, now, p)
  <2>1. TimeOf(sessions, now, p) = [k \in 1..MaxSessions |-> 0] BY <1>2 DEF TimeOf, ActiveOf
  <2>2. Sum(0, TimeOf(sessions, now, p)) = 0 BY <1>0, <2>1, NoTime
  <2>3. Asking(work, p) = {} /\ ran[p].users = {} /\ ran[p].time = 0 /\ ran[p].starts = 0 BY <1>1, <1>2 DEF Asking
  <2>4. Cardinality({}) = 0 BY FS_EmptySet
  <2> QED BY <1>5, <2>2, <2>3, <2>4 DEF UseIs, Tables!NewUse
<1>8. PastOK(history, ended, sessions, ran, lastId)
  <2>1. Len(ended) = 0 /\ Len(history) = 0 /\ DOMAIN ended = {} /\ SeqOf(ended) /\ SeqOf(history) BY <1>1 DEF SeqOf
  <2>2. Older(ended) = 0 BY <1>0, <2>1 DEF Older
  <2> QED BY <1>1, <1>2, <2>1, <2>2 DEF PastOK, Tables!ToSet
<1>9. lastId \in 0..MaxSessions /\ now \in Int BY <1>0, <1>1
<1> QED BY <1>3, <1>4, <1>6, <1>7, <1>8, <1>9 DEF TablesInv

\* Every call of a session on the tables keeps them.
LEMMA TablesStep == TablesInv /\ Tables!Next => TablesInv'
BY AddSessionKeeps, TickKeeps, NoteRequestKeeps, SetProtocolKeeps, StartFailsKeeps, InactiveKeeps, RemoveSessionKeeps
   DEF Tables!Next

\* The protocols view is what was run, and the history is the sessions that ended
\* last (server_stats.hpp), for any number of sessions and any length of history:
\* across failed starts, restarts, changes of protocol and disconnects.
THEOREM TablesAreAlwaysTheRuns == ServerSpec => []TablesAreTheRuns
<1>1. ServerInit => TablesInv BY TablesBegin DEF ServerInit
<1>2. TablesInv /\ [ServerNext]_serverVars => TablesInv'
  <2>1. TablesInv /\ UNCHANGED tableVars => TablesInv' BY DEF tableVars, TablesInv
  <2> QED BY <2>1, TablesStep DEF ServerNext, serverVars, OfPorts, OfSend, OfKeys, OfSwitch, OfTables
<1>3. TablesInv => TablesAreTheRuns
  <2> SUFFICES ASSUME TablesInv PROVE Tables!UsageIsTheRuns /\ Tables!HistoryIsRecent
    BY DEF TablesAreTheRuns, Tables!TablesAreTheRuns
  <2>1. ASSUME NEW p \in Protocols
        PROVE  /\ Tables!DecodeTime(p) = ran[p].time
               /\ Tables!Use(usage, p).starts = ran[p].starts
               /\ Tables!Use(usage, p).sessions = Tables!Cardinality(ran[p].users)
               /\ Tables!Use(usage, p).starts + Tables!Cardinality(Asking(work, p)) <= Tables!Use(usage, p).requests
    <3>1. UseIs(usage, sessions, work, ran, now, p) BY DEF TablesInv
    <3>2. Tables!TimeNow(p) = TimeOf(sessions, now, p) BY DEF Tables!TimeNow, Tables!ActiveNow, TimeOf, ActiveOf
    <3>3. Tables!DecodeTime(p) = Sum(Tables!Use(usage, p).decode, Tables!TimeNow(p))
      BY DEF Tables!DecodeTime, Tables!FoldLeft, Tables!MapThenFoldSet, Sum, Sums!Fold, AddOne, Sums!FoldLeft,
             Sums!MapThenFoldSet, Tables!Max, Sums!Max
    <3> QED BY <3>1, <3>2, <3>3, OneCount DEF UseIs
  <2>2. Tables!UsageIsTheRuns BY <2>1 DEF Tables!UsageIsTheRuns, Asking
  <2>3. PastOK(history, ended, sessions, ran, lastId) BY DEF TablesInv
  <2>4. DOMAIN history = 1..Len(history) /\ Len(history) \in Nat
    <3> DEFINE S == {history[i] : i \in DOMAIN history}
    <3>1. history \in Seq(S) BY <2>3 DEF PastOK, SeqOf
    <3> HIDE DEF S
    <3> QED BY <3>1
  <2>5. [i \in DOMAIN history |-> history[i].id] = Tables!Newest(ended, HistoryLimit)
    <3> DEFINE r == Tables!Newest(ended, HistoryLimit)
    <3>1. SeqOf(r) /\ Len(r) = Len(ended) - Older(ended) /\ \A i \in 1..Len(r) : r[i] = ended[i + Older(ended)]
      BY <2>3, NewestIs DEF PastOK
    <3> HIDE DEF r
    <3>2. Len(r) = Len(history) /\ \A i \in 1..Len(history) : r[i] = history[i].id BY <2>3, <3>1 DEF PastOK
    <3>3. r = [i \in 1..Len(r) |-> r[i]]
      <4> DEFINE S == {r[i] : i \in DOMAIN r}
      <4>1. r \in Seq(S) BY <3>1 DEF SeqOf
      <4> HIDE DEF S
      <4> QED BY <4>1
    <3> QED BY <2>4, <3>2, <3>3 DEF r
  <2>6. Tables!HistoryIsRecent BY <2>3, <2>4, <2>5 DEF Tables!HistoryIsRecent, PastOK
  <2> QED BY <2>2, <2>6
<1>4. QED BY <1>1, <1>2, <1>3, PTL DEF ServerSpec

-----------------------------------------------------------------------------
(* The outgoing frames of a session.                                      *)

\* The queue of a healthy connection is what was sent and has not arrived.
QueueIsRest ==
  ~broken =>
    /\ Len(sent) = Len(arrived) + Len(out_queue)
    /\ \A i \in 1..Len(out_queue) : out_queue[i] = sent[Len(arrived) + i]

SendInv == Send!TypeOK /\ Send!OneWriteAtATime /\ QueueIsRest

\* A session that was just accepted has sent nothing.
LEMMA SendBegins == Send!Init => SendInv
<1> SUFFICES ASSUME Send!Init PROVE SendInv
  OBVIOUS
<1>1. writing \in BOOLEAN /\ broken \in BOOLEAN /\ text \in BOOLEAN
  BY Zenon DEF Send!Init
<1> QED
  BY <1>1 DEF Send!Init, SendInv, Send!TypeOK, Send!OneWriteAtATime, QueueIsRest

\* What do_write_next establishes when no write is in flight.
LEMMA WriteNext ==
  ASSUME NEW q \in Seq(Send!Frame), Send!DoWriteNext(q, << >>), text \in BOOLEAN
  PROVE  /\ writing' \in BOOLEAN /\ text' \in BOOLEAN /\ flight' \in Seq(BOOLEAN)
         /\ Len(flight') = IF writing' THEN 1 ELSE 0
         /\ writing' <=> q # << >>
         /\ writing' => flight'[1] = Head(q).text
<1>1. CASE q = << >>
  <2>1. writing' = FALSE /\ flight' = << >> /\ text' = text
    BY <1>1, Zenon DEF Send!DoWriteNext
  <2>2. writing' \in BOOLEAN
    BY <2>1, Zenon
  <2> QED
    BY <1>1, <2>1, <2>2
<1>2. CASE q # << >>
  <2>1. writing' = TRUE /\ text' = Head(q).text /\ flight' = Append(<< >>, text')
    BY <1>2, Zenon DEF Send!DoWriteNext
  <2>2. writing' \in BOOLEAN /\ writing'
    BY <2>1, Zenon
  <2>3. Head(q).text \in BOOLEAN
    <3>1. Head(q) \in Send!Frame
      BY <1>2
    <3> QED
      BY <3>1, Zenon DEF Send!Frame
  <2>4. flight' = << Head(q).text >>
    BY <2>1
  <2> QED
    BY <1>2, <2>1, <2>2, <2>3, <2>4
<1> QED
  BY <1>1, <1>2

\* A send appends one frame to what is still to arrive.
LEMMA SendStep ==
  ASSUME SendInv, NEW f \in Send!Frame, Send!QueueAndSend(f)
  PROVE  SendInv'
<1> USE DEF SendInv, Send!TypeOK, Send!OneWriteAtATime, QueueIsRest
<1>1. /\ sent' = Append(sent, f) /\ out_queue' = Append(out_queue, f)
      /\ broken' = broken /\ arrived' = arrived
  BY Zenon DEF Send!QueueAndSend
<1>2. /\ out_queue' \in Seq(Send!Frame) /\ sent' \in Seq(Send!Frame)
      /\ Len(sent') = Len(sent) + 1 /\ Len(out_queue') = Len(out_queue) + 1
      /\ out_queue' # << >>
  <2>1. out_queue \in Seq(Send!Frame) /\ sent \in Seq(Send!Frame)
    OBVIOUS
  <2> HIDE DEF SendInv, Send!TypeOK, Send!OneWriteAtATime, QueueIsRest
  <2> QED
    BY <1>1, <2>1, AppendProperties, EmptySeq
<1>3. QueueIsRest'
  <2>1. ASSUME ~broken, NEW i \in 1..Len(out_queue')
        PROVE  out_queue'[i] = sent'[Len(arrived) + i]
    <3>1. Len(sent) = Len(arrived) + Len(out_queue)
      BY <2>1
    <3>2. CASE i \in 1..Len(out_queue)
      <4>1. out_queue'[i] = out_queue[i] /\ out_queue[i] = sent[Len(arrived) + i]
        BY <1>1, <2>1, <3>2
      <4>2. sent'[Len(arrived) + i] = sent[Len(arrived) + i]
        BY <1>1, <3>1, <3>2
      <4> QED
        BY <4>1, <4>2
    <3>3. CASE i = Len(out_queue) + 1
      <4>1. out_queue'[i] = f /\ sent'[Len(sent) + 1] = f
        BY <1>1, <3>3
      <4>2. Len(arrived) + i = Len(sent) + 1
        BY <3>1, <3>3
      <4> QED
        BY <4>1, <4>2
    <3> QED
      BY <1>2, <2>1, <3>2, <3>3
  <2>2. ASSUME ~broken
        PROVE  Len(sent') = Len(arrived) + Len(out_queue')
    <3>1. Len(sent) = Len(arrived) + Len(out_queue)
      BY <2>2
    <3> QED
      BY <1>2, <3>1
  <2> QED
    BY <1>1, <2>1, <2>2, Zenon
<1>4. CASE writing
  <2>1. writing' = writing /\ text' = text /\ flight' = flight
    BY <1>4, Zenon DEF Send!QueueAndSend
  <2>2. Head(out_queue') = Head(out_queue)
    BY <1>1, <1>4
  <2>3. Send!TypeOK'
    BY <1>1, <1>2, <2>1
  <2>4. Send!OneWriteAtATime'
    BY <1>2, <1>4, <2>1, <2>2
  <2> QED
    BY <1>3, <2>3, <2>4
<1>5. CASE ~writing
  <2>1. flight = << >>
    BY <1>5
  <2>2. Send!DoWriteNext(out_queue', << >>)
    BY <1>5, <2>1, Zenon DEF Send!QueueAndSend
  <2>3. /\ writing' \in BOOLEAN /\ text' \in BOOLEAN /\ flight' \in Seq(BOOLEAN)
        /\ Len(flight') = (IF writing' THEN 1 ELSE 0)
        /\ writing' <=> out_queue' # << >>
        /\ writing' => flight'[1] = Head(out_queue').text
    BY <1>2, <2>2, WriteNext
  <2>4. Send!TypeOK'
    BY <1>1, <1>2, <2>3
  <2>5. Send!OneWriteAtATime'
    BY <1>2, <2>3
  <2> QED
    BY <1>3, <2>4, <2>5
<1> QED
  BY <1>4, <1>5

\* A completed write moves the front of the queue to the client.
LEMMA WrittenStep ==
  ASSUME SendInv, Send!Written
  PROVE  /\ SendInv'
         /\ Len(arrived) < Len(sent)
         /\ arrived' = Append(arrived, sent[Len(arrived) + 1])
<1> USE DEF SendInv, Send!TypeOK, Send!OneWriteAtATime, QueueIsRest
<1>1. flight # << >> /\ ~broken /\ writing /\ out_queue # << >>
  BY DEF Send!Written
<1>2. /\ Head(flight) = Head(out_queue).text /\ Tail(flight) = << >>
  <2>1. Len(flight) = 1 /\ flight[1] = Head(out_queue).text
    BY <1>1
  <2>2. Head(flight) = flight[1]
    BY <1>1, <2>1
  <2>3. Tail(flight) \in Seq(BOOLEAN) /\ Len(Tail(flight)) = 0
    <3>1. Tail(flight) \in Seq(BOOLEAN) /\ Len(Tail(flight)) = Len(flight) - 1
      BY <1>1, HeadTailProperties, Zenon
    <3> QED
      BY <2>1, <3>1
  <2>4. Tail(flight) = << >>
    BY <2>3, EmptySeq, Zenon
  <2> QED
    BY <2>1, <2>2, <2>4
<1>3. Head(out_queue) \in Send!Frame /\ Head(out_queue) = sent[Len(arrived) + 1]
  BY <1>1
<1>4. arrived' = Append(arrived, sent[Len(arrived) + 1])
  BY <1>2, <1>3 DEF Send!Written, Send!Frame
<1>5. Len(arrived) < Len(sent)
  BY <1>1
<1>6. /\ out_queue' = Tail(out_queue) /\ broken' = broken /\ sent' = sent
      /\ Send!DoWriteNext(out_queue', << >>)
  BY <1>2 DEF Send!Written
<1>7. /\ out_queue' \in Seq(Send!Frame) /\ arrived' \in Seq(Send!Frame)
      /\ Len(out_queue') = Len(out_queue) - 1 /\ Len(arrived') = Len(arrived) + 1
  BY <1>1, <1>3, <1>4, <1>6
<1>8. QueueIsRest'
  <2>0. Len(sent') = Len(arrived') + Len(out_queue')
    <3>1. Len(sent) = Len(arrived) + Len(out_queue)
      BY <1>1
    <3>2. Len(arrived) \in Nat /\ Len(out_queue) \in Nat
      OBVIOUS
    <3> HIDE DEF SendInv, Send!TypeOK, Send!OneWriteAtATime, QueueIsRest
    <3> QED
      BY <1>6, <1>7, <3>1, <3>2
  <2> SUFFICES ASSUME NEW i \in 1..Len(out_queue')
               PROVE  out_queue'[i] = sent[Len(arrived') + i]
    BY <1>6, <2>0, Zenon
  <2>1. out_queue'[i] = out_queue[i + 1] /\ i + 1 \in 1..Len(out_queue)
    BY <1>1, <1>6, <1>7
  <2>2. out_queue[i + 1] = sent[Len(arrived) + (i + 1)]
    BY <1>1, <2>1
  <2>3. Len(arrived') + i = Len(arrived) + (i + 1)
    BY <1>7
  <2> QED
    BY <2>1, <2>2, <2>3
<1>9. /\ writing' \in BOOLEAN /\ text' \in BOOLEAN /\ flight' \in Seq(BOOLEAN)
      /\ Len(flight') = (IF writing' THEN 1 ELSE 0)
      /\ writing' <=> out_queue' # << >>
      /\ writing' => flight'[1] = Head(out_queue').text
  BY <1>6, <1>7, WriteNext
<1>10. Send!TypeOK'
  BY <1>1, <1>6, <1>7, <1>9
<1>11. Send!OneWriteAtATime'
  BY <1>9
<1> HIDE DEF Send!TypeOK, Send!OneWriteAtATime, QueueIsRest
<1> QED
  BY <1>4, <1>5, <1>8, <1>10, <1>11

\* The inductive invariant holds in every reachable state.
THEOREM SendInvariance == Send!Spec => []SendInv
<1>1. SendInv /\ [Send!Next]_Send!vars => SendInv'
  <2> SUFFICES ASSUME SendInv, [Send!Next]_Send!vars PROVE SendInv'
    OBVIOUS
  <2>1. ASSUME NEW f \in Send!Frame, Send!QueueAndSend(f) PROVE SendInv'
    BY <2>1, SendStep
  <2>2. CASE Send!Written
    BY <2>2, WrittenStep
  <2>3. CASE Send!WriteFailed
    <3>1. writing' \in BOOLEAN /\ ~writing'
      BY <2>3, Zenon DEF Send!WriteFailed
    <3>2. /\ broken' = broken /\ broken /\ sent' = sent /\ arrived' = arrived /\ text' = text
          /\ out_queue' = Tail(out_queue) /\ flight' = Tail(flight) /\ flight # << >>
      BY <2>3, Zenon DEF Send!WriteFailed
    <3>3. out_queue # << >> /\ Len(flight) = 1
      BY <3>2 DEF SendInv, Send!TypeOK, Send!OneWriteAtATime
    <3> QED
      BY <3>1, <3>2, <3>3 DEF SendInv, Send!TypeOK, Send!OneWriteAtATime, QueueIsRest
  <2>4. CASE Send!Break
    <3>1. broken' \in BOOLEAN /\ broken'
      BY <2>4, Zenon DEF Send!Break
    <3> QED
      BY <2>4, <3>1 DEF Send!Break, SendInv, Send!TypeOK, Send!OneWriteAtATime, QueueIsRest
  <2>5. CASE UNCHANGED Send!vars
    BY <2>5 DEF Send!vars, SendInv, Send!TypeOK, Send!OneWriteAtATime, QueueIsRest
  <2> QED
    BY <2>1, <2>2, <2>3, <2>4, <2>5 DEF Send!Next
<1> QED
  BY <1>1, SendBegins, PTL DEF Send!Spec

\* Every variable of the outgoing side keeps its type.
THEOREM SendTypes == Send!Spec => []Send!TypeOK
<1>1. SendInv => Send!TypeOK
  BY DEF SendInv
<1> QED
  BY <1>1, SendInvariance, PTL

\* There is never a second async_write, and a frame's buffer outlives its write.
THEOREM OneWrite == Send!Spec => []Send!OneWriteAtATime
<1>1. SendInv => Send!OneWriteAtATime
  BY DEF SendInv
<1> QED
  BY <1>1, SendInvariance, PTL

\* queue_and_send, do_write_next and on_write implement the stream of frames the
\* client relies on.
THEOREM SendImplementsStream == Send!Spec => Send!StreamSpec
<1>1. Send!Init => Send!Stream!Init
  BY DEF Send!Init, Send!Stream!Init
<1>2. SendInv /\ [Send!Next]_Send!vars => [Send!Stream!Next]_<<sent, arrived, broken>>
  <2> SUFFICES ASSUME SendInv, [Send!Next]_Send!vars PROVE [Send!Stream!Next]_<<sent, arrived, broken>>
    OBVIOUS
  <2>1. ASSUME NEW f \in Send!Frame, Send!QueueAndSend(f) PROVE Send!Stream!Next
    <3>1. Send!Stream!Send(f)
      BY <2>1, Zenon DEF Send!QueueAndSend, Send!Stream!Send
    <3> QED
      BY <3>1 DEF Send!Stream!Next
  <2>2. CASE Send!Written
    <3>1. ~broken /\ broken' = broken /\ sent' = sent
      BY <2>2, Zenon DEF Send!Written
    <3>2. Send!Stream!Arrive
      BY <2>2, <3>1, WrittenStep, Zenon DEF Send!Stream!Arrive
    <3> QED
      BY <3>2 DEF Send!Stream!Next
  <2>3. CASE Send!WriteFailed
    BY <2>3 DEF Send!WriteFailed
  <2>4. CASE Send!Break
    BY <2>4, Zenon DEF Send!Break, Send!Stream!Break, Send!Stream!Next
  <2>5. CASE UNCHANGED Send!vars
    BY <2>5 DEF Send!vars
  <2> QED
    BY <2>1, <2>2, <2>3, <2>4, <2>5 DEF Send!Next
<1> QED
  BY <1>1, <1>2, SendInvariance, PTL DEF Send!Spec, Send!StreamSpec, Send!Stream!Spec


\* Beside everything else the server does, a client's frames are the stream it
\* relies on.
THEOREM FramesImplementStream == ServerSpec => StreamSpec
<1>1. ServerInit => Send!Init
  BY DEF ServerInit
<1>2. [ServerNext]_serverVars => [Send!Next]_Send!vars
  BY DEF ServerNext, serverVars, sendVars, Send!vars, OfPorts, OfSend, OfKeys, OfSwitch, OfTables
<1> QED BY <1>1, <1>2, SendImplementsStream, PTL DEF ServerSpec, Send!Spec, StreamSpec
=============================================================================
