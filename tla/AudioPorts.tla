----------------------------- MODULE AudioPorts -----------------------------
(***************************************************************************)
(* What start_pipeline, stop_pipeline and restart_pipeline (session.cpp)   *)
(* take and give back, for several sessions at once: the UDP audio ports   *)
(* they share through g_udp_ports_in_use, the key-list file handed to the  *)
(* decoder, the cached start parameters and the live frequency offset.     *)
(*                                                                         *)
(* A handler of one session is split where another session can interleave: *)
(* the decoder is stopped (its socket closes), the port is released, a     *)
(* port is acquired, the decoder is spawned (its socket is bound).         *)
(***************************************************************************)
EXTENDS Naturals, FiniteSets

CONSTANTS
  Sessions,
  Ports,        \* 40000..59000 in the code
  KeyFiles,     \* the names mkstemp may choose
  Offsets,      \* frequency offsets a client asks for
  MaxStarts     \* bound: starts and restarts in a behaviour

NoPort == 0
NoFile == "none"

ASSUME PortAssumption == NoPort \notin Ports
ASSUME FileAssumption == NoFile \notin KeyFiles
ASSUME LimitAssumption == MaxStarts \in Nat

VARIABLES
  in_use,       \* g_udp_ports_in_use
  disk,         \* key-list files on disk
  conn,         \* the session's connection is up
  pc,           \* where the session's strand is
  op,           \* the handler it is in: what, and the start's parameters
  up,           \* the chain of the running pipeline, or "no"
  port,         \* udp_audio_port_
  pending,      \* pending_udp_port_
  bound,        \* the port dsd_'s socket is bound to
  told,         \* udp_audio_port of the last "started" reply
  klist,        \* klist_path_
  last,         \* last_start_.freq_offset
  offset,       \* the running demodulator's offset
  lost_ports,   \* observed: ports of starts that failed once they had one
  lost_lists,   \* observed: key lists of such starts
  starts

lost == <<lost_ports, lost_lists>>
ports == <<in_use, port, pending, lost_ports>>
lists == <<disk, klist, lost_lists>>
client == <<conn, told, last, offset>>
vars == <<ports, lists, client, pc, op, up, bound, starts>>

\* A start's parameters matter by their chain and their offset.
Ops == [kind : {"none", "start", "restart", "stop"}, chain : {"Fm", "Other"}, offset : Offsets]

TypeOK ==
  /\ in_use \in SUBSET Ports
  /\ disk \in SUBSET KeyFiles
  /\ lost_ports \in SUBSET Ports
  /\ lost_lists \in SUBSET KeyFiles
  /\ conn \in [Sessions -> BOOLEAN]
  /\ pc \in [Sessions -> {"idle", "stop", "release", "acquire", "spawn"}]
  /\ op \in [Sessions -> Ops]
  /\ up \in [Sessions -> {"no", "Fm", "Other"}]
  /\ port \in [Sessions -> Ports \cup {NoPort}]
  /\ pending \in [Sessions -> Ports \cup {NoPort}]
  /\ bound \in [Sessions -> Ports \cup {NoPort}]
  /\ told \in [Sessions -> Ports \cup {NoPort}]
  /\ klist \in [Sessions -> KeyFiles \cup {NoFile}]
  /\ last \in [Sessions -> Offsets]
  /\ offset \in [Sessions -> Offsets]
  /\ starts \in 0..MaxStarts

Init ==
  /\ in_use = {} /\ disk = {} /\ starts = 0
  /\ lost_ports = {} /\ lost_lists = {}
  /\ conn = [s \in Sessions |-> TRUE]
  /\ pc = [s \in Sessions |-> "idle"]
  /\ up = [s \in Sessions |-> "no"]
  /\ port = [s \in Sessions |-> NoPort]
  /\ pending = port /\ bound = port /\ told = port
  /\ klist = [s \in Sessions |-> NoFile]
  /\ \E o \in Offsets :
       /\ last = [s \in Sessions |-> o] /\ offset = last
       /\ op = [s \in Sessions |-> [kind |-> "none", chain |-> "Fm", offset |-> o]]

At(s, from, to) == pc[s] = from /\ pc' = [pc EXCEPT ![s] = to]

-----------------------------------------------------------------------------
(* Handlers begin: each calls stop_pipeline first.                         *)

\* A "start" message.
OnStart(s, c, o) ==
  /\ conn[s] /\ starts < MaxStarts /\ At(s, "idle", "stop")
  /\ starts' = starts + 1
  /\ op' = [op EXCEPT ![s] = [kind |-> "start", chain |-> c, offset |-> o]]
  /\ UNCHANGED <<ports, lists, client, up, bound>>

\* restart_pipeline: only a running FM pipeline, with the cached parameters and
\* its port kept.
Restart(s) ==
  /\ starts < MaxStarts /\ up[s] = "Fm" /\ At(s, "idle", "stop")
  /\ starts' = starts + 1
  /\ op' = [op EXCEPT ![s] = [kind |-> "restart", chain |-> up[s], offset |-> last[s]]]
  /\ pending' = [pending EXCEPT ![s] = port[s]]
  /\ UNCHANGED <<in_use, port, lost_ports, lists, client, up, bound>>

\* A "stop" message, or the end of the read loop.
OnStop(s) ==
  /\ conn[s] /\ At(s, "idle", "stop")
  /\ op' = [op EXCEPT ![s].kind = "stop"]
  /\ conn' = [conn EXCEPT ![s] = TRUE] \/ conn' = [conn EXCEPT ![s] = FALSE]
  /\ UNCHANGED <<ports, lists, told, last, offset, up, bound, starts>>

-----------------------------------------------------------------------------
(* stop_pipeline.                                                          *)

AfterStop(s) == IF op[s].kind = "stop" THEN "idle" ELSE "acquire"

\* Nothing runs: the early return.
StopIdle(s) ==
  /\ up[s] = "no" /\ At(s, "stop", AfterStop(s))
  /\ UNCHANGED <<ports, lists, client, op, up, bound, starts>>

\* Fault: the port goes back while dsd-fme's socket is still bound to it, as it
\* would if it were released before the backend is stopped.
ReleaseBeforeStop(s) ==
  /\ up[s] # "no" /\ At(s, "stop", "release")
  /\ up' = [up EXCEPT ![s] = "no"]
  /\ in_use' = in_use \ {port[s]}
  /\ UNCHANGED <<port, pending, lost_ports, lists, client, op, bound, starts>>

\* The backend's stop() closes the audio socket.
StopDecoder(s) ==
  /\ up[s] # "no" /\ At(s, "stop", "release")
  /\ up' = [up EXCEPT ![s] = "no"]
  /\ bound' = [bound EXCEPT ![s] = NoPort]
  /\ UNCHANGED <<ports, lists, client, op, starts>>

\* What s gives back is not lost (after a failed start, a TETRA or pager pipeline
\* that ran next gives it back).
Found(s) ==
  /\ lost_ports' = lost_ports \ {port[s]}
  /\ lost_lists' = lost_lists \ {klist[s]}

\* The port is released unless a restart keeps it, and the key list is removed.
Release(s) ==
  /\ At(s, "release", AfterStop(s))
  /\ in_use' = IF pending[s] = NoPort THEN in_use \ {port[s]} ELSE in_use
  /\ port' = [port EXCEPT ![s] = NoPort]
  /\ disk' = disk \ {klist[s]}
  /\ klist' = [klist EXCEPT ![s] = NoFile]
  /\ Found(s)
  /\ UNCHANGED <<pending, client, op, up, bound, starts>>

-----------------------------------------------------------------------------
(* start_pipeline after its stop_pipeline.                                 *)

\* A client error (a bad key or pocsag_mode), or a TETRA or pager decoder that
\* does not start: nothing was taken.
Reject(s) ==
  /\ At(s, "acquire", "idle")
  /\ op[s].kind = "start"
  /\ op' = [op EXCEPT ![s].kind = "none"]
  /\ UNCHANGED <<ports, lists, client, up, bound, starts>>

\* acquire_udp_port, or the kept port; then the key list, if there are keys and
\* it could be written.
Acquire(s) ==
  /\ op[s].chain = "Fm" /\ At(s, "acquire", "spawn")
  /\ \/ /\ pending[s] # NoPort
        /\ port' = [port EXCEPT ![s] = pending[s]] /\ UNCHANGED in_use
     \/ /\ pending[s] = NoPort
        /\ \E p \in Ports \ in_use :
             port' = [port EXCEPT ![s] = p] /\ in_use' = in_use \cup {p}
  /\ pending' = [pending EXCEPT ![s] = NoPort]
  /\ \/ UNCHANGED <<disk, klist>>
     \/ \E f \in KeyFiles \ disk :
          disk' = disk \cup {f} /\ klist' = [klist EXCEPT ![s] = f]
  /\ UNCHANGED <<lost, client, op, up, bound, starts>>

\* dsd_.start fails: error, and the handler returns; nothing is given back.
SpawnFails(s) ==
  /\ At(s, "spawn", "idle")
  /\ op' = [op EXCEPT ![s].kind = "none"]
  /\ lost_ports' = lost_ports \cup {port[s]}
  /\ lost_lists' = lost_lists \cup ({klist[s]} \ {NoFile})
  /\ UNCHANGED <<in_use, port, pending, disk, klist, client, up, bound, starts>>

\* The pipeline is up: parameters cached, port told to the client.
Started(s, chain) ==
  /\ up' = [up EXCEPT ![s] = chain]
  /\ told' = [told EXCEPT ![s] = port[s]]
  /\ last' = [last EXCEPT ![s] = op[s].offset]
  /\ offset' = [offset EXCEPT ![s] = op[s].offset]
  /\ op' = [op EXCEPT ![s].kind = "none"]
  /\ UNCHANGED <<ports, lists, conn, starts>>

\* The decoder runs; its audio socket is bound, unless bind() failed.
SpawnOk(s) ==
  /\ At(s, "spawn", "idle") /\ Started(s, "Fm")
  /\ \/ bound' = [bound EXCEPT ![s] = port[s]]
     \/ UNCHANGED bound

\* The TETRA and pager chains take no port and no key list.
StartOther(s) ==
  /\ op[s].chain = "Other" /\ At(s, "acquire", "idle") /\ Started(s, "Other")
  /\ UNCHANGED bound

\* "set_freq_offset" on the running demodulator.
SetFreqOffset(s, o) ==
  /\ conn[s] /\ pc[s] = "idle" /\ up[s] = "Fm"
  /\ offset' = [offset EXCEPT ![s] = o]
  /\ UNCHANGED <<ports, lists, conn, told, last, pc, op, up, bound, starts>>

-----------------------------------------------------------------------------
Session(s) ==
  \/ \E c \in {"Fm", "Other"}, o \in Offsets : OnStart(s, c, o)
  \/ Restart(s) \/ OnStop(s)
  \/ StopIdle(s) \/ StopDecoder(s) \/ Release(s)
  \/ Reject(s) \/ Acquire(s) \/ SpawnFails(s) \/ SpawnOk(s) \/ StartOther(s)
  \/ \E o \in Offsets : SetFreqOffset(s, o)

Next == \E s \in Sessions : Session(s)

Spec == Init /\ [][Next]_vars

-----------------------------------------------------------------------------
(* Properties.                                                             *)

\* The ports a session stands on: its own, the one a restart keeps for it, the
\* one its decoder's socket is bound to.
Holds(s) == {port[s], pending[s], bound[s]} \ {NoPort}

\* "Distinctness a guarantee instead of a probability": whatever starts, stops,
\* fails and restarts interleave, two sessions never stand on one port, and a
\* port somebody stands on is never offered.
PortsExclusive ==
  \A s \in Sessions :
    /\ Holds(s) \subseteq in_use
    /\ \A r \in Sessions \ {s} : Holds(s) \cap Holds(r) = {}

\* "The decode client's audio port is kept" across a key reload.
RestartKeepsPort ==
  [][\A s \in Sessions : op[s].kind = "restart" => told'[s] = told[s]]_told

\* The key list a running decoder was given is on disk and is its own.
KeyListsExclusive ==
  \A s \in Sessions : klist[s] # NoFile =>
    klist[s] \in disk /\ \A r \in Sessions \ {s} : klist[r] # klist[s]

\* "stop_pipeline() releases the port": every port in use is one a session stands
\* on, or one a decoder that failed to start left behind.
PortsAccounted == \A p \in in_use \ lost_ports : \E s \in Sessions : p \in Holds(s)

\* "Removed in stop_pipeline": a key list on disk is some session's, or one a
\* decoder that failed to start left behind.
KeyListsAccounted == \A f \in disk \ lost_lists : \E s \in Sessions : klist[s] = f

=============================================================================
