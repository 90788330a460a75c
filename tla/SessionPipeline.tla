-------------------------- MODULE SessionPipeline --------------------------
(***************************************************************************)
(* The threads of one WebSocket session of dsd-server (session.cpp):       *)
(*                                                                         *)
(*   strand   the connection's executor: client messages, posted handlers, *)
(*            start_pipeline / stop_pipeline / restart_pipeline            *)
(*   worker   demod_worker_loop: takes IQ blocks, demodulates, writes to   *)
(*            the decoder                                                  *)
(*   reader   the decoder process's reader thread: feeds the network       *)
(*            explorer and posts events to the strand                      *)
(*   page     an HTTP thread running another connection's "apply keys"     *)
(*                                                                         *)
(* start_pipeline and stop_pipeline are split where another thread can see *)
(* a difference.  What they do with resources no other thread of the       *)
(* session sees is elsewhere: ports, key-list files and cached settings in *)
(* AudioPorts, captures in IqCapture.  What a decoder does inside its      *)
(* start() and stop() is in DsdProcess and PagerProcess.                   *)
(***************************************************************************)
EXTENDS Integers, Sequences

CONSTANTS
  MaxQueued,     \* kMaxQueuedBlocks, 64 in the code
  MaxBlocks,     \* bound: binary frames received in a behaviour
  MaxRuns,       \* bound: start_pipeline calls in a behaviour
  MaxPosted      \* bound: handlers waiting on the strand

ASSUME QueueAssumption == MaxQueued \in Nat \ {0}
ASSUME BoundAssumption == /\ MaxBlocks \in Nat
                          /\ MaxRuns \in Nat
                          /\ MaxPosted \in Nat

Chains == {"Fm", "Tetra", "Pager"}
None == "None"

VARIABLES
  pc,               \* where the strand is; "idle" between handlers
  then,             \* the chain to start once stop_pipeline returns, or None
  run,              \* number of start_pipeline calls so far
  pipeline_active,  \* pipeline_active_
  chain,            \* chain_
  demod,            \* the chain whose demodulator object exists, or None
  backend,          \* "off", "up", or "stopping" once its stop() was called
  reader,           \* the decoder's reader thread
  worker_running,   \* worker_running_
  worker,           \* worker_thread_
  block,            \* the IQ block the worker holds (0: none)
  iq_queue,         \* iq_queue_, block numbers
  received,         \* blocks accepted so far
  run_first,        \* blocks accepted before the current run
  stream,           \* the session's stream in the explorer: Ctx::running
  posted,           \* handlers posted to the strand
  pager_failed,     \* pager_failed_
  said,             \* the last reply or error frame given to the client
  closed,           \* the read loop has ended
  destroyed,        \* ~Session has begun
  page              \* the HTTP thread

strandVars == <<pc, then, run, pipeline_active, chain, said, closed, destroyed>>
workerVars == <<worker_running, worker, block>>
queueVars == <<iq_queue, received, run_first>>
decoderVars == <<demod, backend, reader, stream>>
vars == <<strandVars, workerVars, queueVars, decoderVars, posted, pager_failed, page>>

StopSteps == {"stop", "stop_flag", "stop_notify", "stop_join", "stop_backend",
              "stop_reader", "stop_demod", "stop_queue", "stop_stream"}
StartSteps == {"start", "start_chain", "start_worker"}

\* A posted handler, and the chain whose code posted it.
Handlers == [kind : {"event", "exit", "restart"}, by : Chains]

TypeOK ==
  /\ pc \in {"idle"} \cup StopSteps \cup StartSteps
  /\ then \in Chains \cup {None}
  /\ run \in 0..MaxRuns
  /\ pipeline_active \in BOOLEAN
  /\ chain \in Chains
  /\ demod \in Chains \cup {None}
  /\ backend \in {"off", "up", "stopping"}
  /\ reader \in {"none", "reading", "holding", "exiting", "done"}
  /\ worker_running \in BOOLEAN
  /\ worker \in {"none", "top", "locking", "blocking", "waiting", "demod", "write", "exited"}
  /\ block \in 0..MaxBlocks
  /\ iq_queue \in Seq(1..MaxBlocks)
  /\ received \in 0..MaxBlocks
  /\ run_first \in 0..MaxBlocks
  /\ stream \in {"none", "running", "ended"}
  /\ posted \in Seq(Handlers)
  /\ pager_failed \in BOOLEAN
  /\ said \in {"none", "started", "error", "pager_exit"}
  /\ closed \in BOOLEAN
  /\ destroyed \in BOOLEAN
  /\ page \in {"idle", "holding"}

Init ==
  /\ pc = "idle" /\ then = None /\ run = 0
  /\ pipeline_active = FALSE /\ chain = "Fm"
  /\ demod = None /\ backend = "off" /\ reader = "none"
  /\ worker_running = FALSE /\ worker = "none" /\ block = 0
  /\ iq_queue = << >> /\ received = 0 /\ run_first = 0
  /\ stream = "none" /\ posted = << >> /\ pager_failed = FALSE
  /\ said = "none" /\ closed = FALSE /\ destroyed = FALSE /\ page = "idle"

-----------------------------------------------------------------------------
(* The strand: client messages.  A handler runs to its end before the next *)
(* one, so each of these needs pc = "idle".                                *)

\* A "start" message: start_pipeline calls stop_pipeline first.
OnStart(c) ==
  /\ pc = "idle" /\ ~closed /\ run < MaxRuns
  /\ pc' = "stop" /\ then' = c /\ run' = run + 1
  /\ UNCHANGED <<pipeline_active, chain, said, closed, destroyed, workerVars,
                 queueVars, decoderVars, posted, pager_failed, page>>

\* A "stop" message.
OnStop ==
  /\ pc = "idle" /\ ~closed
  /\ pc' = "stop" /\ then' = None
  /\ UNCHANGED <<run, pipeline_active, chain, said, closed, destroyed, workerVars,
                 queueVars, decoderVars, posted, pager_failed, page>>

\* on_read with an error or a close: stop_pipeline, and the read is not re-armed.
OnClose ==
  /\ pc = "idle" /\ ~closed
  /\ closed' = TRUE /\ pc' = "stop" /\ then' = None
  /\ UNCHANGED <<run, pipeline_active, chain, said, destroyed, workerVars,
                 queueVars, decoderVars, posted, pager_failed, page>>

\* Only the worker keeps iq_mutex_ across a step: from its last look at the
\* predicate until cv.wait has put it to sleep.
IqMutexFree == worker # "blocking"

\* notify_one and notify_all: there is at most one waiter.
Notified(w) == IF w = "waiting" THEN "locking" ELSE w

\* Fault: the worker is not notified.
BinaryWithoutNotify ==
  /\ pc = "idle" /\ ~closed /\ received < MaxBlocks
  /\ pipeline_active /\ IqMutexFree
  /\ received' = received + 1
  /\ iq_queue' = Append(IF Len(iq_queue) >= MaxQueued THEN Tail(iq_queue) ELSE iq_queue,
                        received')
  /\ UNCHANGED worker
  /\ UNCHANGED <<strandVars, worker_running, block, run_first, decoderVars,
                 posted, pager_failed, page>>

\* handle_binary_message: queue the block, dropping the oldest at the limit.
OnBinary ==
  /\ pc = "idle" /\ ~closed /\ received < MaxBlocks
  /\ pipeline_active /\ IqMutexFree
  /\ received' = received + 1
  /\ iq_queue' = Append(IF Len(iq_queue) >= MaxQueued THEN Tail(iq_queue) ELSE iq_queue,
                        received')
  /\ worker' = Notified(worker)
  /\ UNCHANGED <<strandVars, worker_running, block, run_first, decoderVars,
                 posted, pager_failed, page>>

-----------------------------------------------------------------------------
(* stop_pipeline, step by step.                                            *)

Goto(from, to) == pc = from /\ pc' = to

\* Where stop_pipeline returns to.
AfterStop == IF then = None THEN "idle" ELSE "start"

\* pipeline_active_.exchange(false), with the early return.
StopGuard ==
  /\ Goto("stop", IF pipeline_active THEN "stop_flag" ELSE AfterStop)
  /\ pipeline_active' = FALSE
  /\ UNCHANGED <<then, run, chain, said, closed, destroyed, workerVars,
                 queueVars, decoderVars, posted, pager_failed, page>>

\* worker_running_ = false, without iq_mutex_.
StopFlag ==
  /\ Goto("stop_flag", "stop_notify")
  /\ worker_running' = FALSE
  /\ UNCHANGED <<then, run, pipeline_active, chain, said, closed, destroyed, worker,
                 block, queueVars, decoderVars, posted, pager_failed, page>>

StopNotify ==
  /\ Goto("stop_notify", "stop_join")
  /\ worker' = Notified(worker)
  /\ UNCHANGED <<then, run, pipeline_active, chain, said, closed, destroyed,
                 worker_running, block, queueVars, decoderVars, posted, pager_failed, page>>

\* Fault: the worker is not waited for.
StopWithoutJoin ==
  /\ Goto("stop_join", "stop_backend")
  /\ UNCHANGED <<then, run, pipeline_active, chain, said, closed, destroyed,
                 worker_running, worker, block, queueVars, decoderVars, posted, pager_failed, page>>

\* worker_thread_.join()
StopJoin ==
  /\ Goto("stop_join", "stop_backend")
  /\ worker = "exited"
  /\ worker' = "none"
  /\ UNCHANGED <<then, run, pipeline_active, chain, said, closed, destroyed,
                 worker_running, block, queueVars, decoderVars, posted, pager_failed, page>>

\* Fault: the decoder is never told to stop.
StopBackendForgotten ==
  /\ Goto("stop_backend", "stop_reader")
  /\ chain' = "Fm" /\ UNCHANGED backend
  /\ UNCHANGED <<then, run, pipeline_active, said, closed, destroyed, workerVars,
                 queueVars, demod, reader, stream, posted, pager_failed, page>>

\* chain_.exchange(Fm), then the backend's stop() begins.
StopBackend ==
  /\ Goto("stop_backend", "stop_reader")
  /\ chain' = "Fm" /\ backend' = "stopping"
  /\ UNCHANGED <<then, run, pipeline_active, said, closed, destroyed, workerVars,
                 queueVars, demod, reader, stream, posted, pager_failed, page>>

\* The backend's stop() returns once its reader thread is joined.
StopReader ==
  /\ Goto("stop_reader", "stop_demod")
  /\ reader = "done"
  /\ reader' = "none" /\ backend' = "off"
  /\ UNCHANGED <<then, run, pipeline_active, chain, said, closed, destroyed, workerVars,
                 queueVars, demod, stream, posted, pager_failed, page>>

StopDemod ==
  /\ Goto("stop_demod", "stop_queue")
  /\ demod' = None
  /\ UNCHANGED <<then, run, pipeline_active, chain, said, closed, destroyed, workerVars,
                 queueVars, backend, reader, stream, posted, pager_failed, page>>

\* Fault: queued IQ survives the stop.
StopKeepsQueue ==
  /\ Goto("stop_queue", "stop_stream")
  /\ IqMutexFree
  /\ UNCHANGED iq_queue
  /\ UNCHANGED <<then, run, pipeline_active, chain, said, closed, destroyed, workerVars,
                 received, run_first, decoderVars, posted, pager_failed, page>>

StopQueue ==
  /\ Goto("stop_queue", "stop_stream")
  /\ IqMutexFree
  /\ iq_queue' = << >>
  /\ UNCHANGED <<then, run, pipeline_active, chain, said, closed, destroyed, workerVars,
                 received, run_first, decoderVars, posted, pager_failed, page>>

\* assoc().end_stream
StopStream ==
  /\ Goto("stop_stream", AfterStop)
  /\ stream' = "ended"
  /\ UNCHANGED <<then, run, pipeline_active, chain, said, closed, destroyed, workerVars,
                 queueVars, demod, backend, reader, posted, pager_failed, page>>

-----------------------------------------------------------------------------
(* start_pipeline after its stop_pipeline.                                 *)

\* assoc().begin_stream, before any backend can emit.
StartStream ==
  /\ Goto("start", "start_chain")
  /\ run_first' = received
  /\ stream' = "running"
  /\ UNCHANGED <<then, run, pipeline_active, chain, said, closed, destroyed, workerVars,
                 iq_queue, received, demod, backend, reader, posted, pager_failed, page>>

\* A bad option or a decoder that does not start: error, and nothing is left
\* running.  pager_failed_ is cleared before the pager decoder is spawned.
StartFails ==
  /\ Goto("start_chain", "idle")
  /\ said' = "error" /\ then' = None
  /\ \/ UNCHANGED pager_failed
     \/ then = "Pager" /\ pager_failed' = FALSE
  /\ UNCHANGED <<run, pipeline_active, chain, closed, destroyed, workerVars,
                 queueVars, decoderVars, posted, page>>

\* Fault: pager_failed_ is not cleared for the new decoder.
StartKeepsPagerFailed ==
  /\ Goto("start_chain", "start_worker")
  /\ demod' = then /\ chain' = then /\ backend' = "up" /\ reader' = "reading"
  /\ UNCHANGED pager_failed
  /\ UNCHANGED <<then, run, pipeline_active, said, closed, destroyed, workerVars,
                 queueVars, stream, posted, page>>

\* The demodulator and the decoder are up; its reader thread runs from here.
StartChain ==
  /\ Goto("start_chain", "start_worker")
  /\ demod' = then /\ chain' = then /\ backend' = "up" /\ reader' = "reading"
  /\ pager_failed' = IF then = "Pager" THEN FALSE ELSE pager_failed
  /\ UNCHANGED <<then, run, pipeline_active, said, closed, destroyed, workerVars,
                 queueVars, stream, posted, page>>

\* pipeline_active_, worker_running_, the worker thread, the "started" reply.
StartWorker ==
  /\ Goto("start_worker", "idle")
  /\ pipeline_active' = TRUE /\ worker_running' = TRUE /\ worker' = "top"
  /\ said' = "started" /\ then' = None
  /\ UNCHANGED <<run, chain, closed, destroyed, block, queueVars, decoderVars,
                 posted, pager_failed, page>>

-----------------------------------------------------------------------------
(* The strand: posted handlers, in the order they were posted.             *)

NextPosted(kind) ==
  /\ pc = "idle" /\ posted # << >> /\ Head(posted).kind = kind
  /\ posted' = Tail(posted)

\* send_text / send_binary of a decoded event (the queue is in SessionSend).
RunEvent ==
  /\ NextPosted("event")
  /\ UNCHANGED <<strandVars, workerVars, queueVars, decoderVars, pager_failed, page>>

\* restart_pipeline checks again that an FM pipeline runs.
RunRestart ==
  /\ NextPosted("restart")
  /\ IF pipeline_active /\ chain = "Fm"
     THEN run < MaxRuns /\ run' = run + 1 /\ pc' = "stop" /\ then' = "Fm"
     ELSE UNCHANGED <<run, pc, then>>
  /\ UNCHANGED <<pipeline_active, chain, said, closed, destroyed, workerVars,
                 queueVars, decoderVars, pager_failed, page>>

\* The handler posted by the pager decoder's on_exit.
RunExit ==
  /\ NextPosted("exit")
  /\ IF ~destroyed /\ pipeline_active /\ chain = "Pager" /\ ~pager_failed
     THEN pager_failed' = TRUE /\ said' = "pager_exit"
     ELSE UNCHANGED <<pager_failed, said>>
  /\ UNCHANGED <<pc, then, run, pipeline_active, chain, closed, destroyed, workerVars,
                 queueVars, decoderVars, page>>

-----------------------------------------------------------------------------
(* The worker: demod_worker_loop.                                          *)

WorkerTop ==
  /\ worker = "top"
  /\ worker' = IF worker_running THEN "locking" ELSE "exited"
  /\ UNCHANGED <<strandVars, worker_running, block, queueVars, decoderVars,
                 posted, pager_failed, page>>

\* Under iq_mutex_ the predicate is false: the worker will block.
WorkerPredicateFalse ==
  /\ worker = "locking" /\ iq_queue = << >> /\ worker_running
  /\ worker' = "blocking"
  /\ UNCHANGED <<strandVars, worker_running, block, queueVars, decoderVars,
                 posted, pager_failed, page>>

\* cv.wait releases iq_mutex_ and sleeps; from here a notification reaches it.
WorkerBlock ==
  /\ worker = "blocking"
  /\ worker' = "waiting"
  /\ UNCHANGED <<strandVars, worker_running, block, queueVars, decoderVars,
                 posted, pager_failed, page>>

\* A condition variable may wake up on its own.
WorkerSpuriousWakeup ==
  /\ worker = "waiting"
  /\ worker' = "locking"
  /\ UNCHANGED <<strandVars, worker_running, block, queueVars, decoderVars,
                 posted, pager_failed, page>>

WorkerQuit ==
  /\ worker = "locking" /\ ~worker_running
  /\ worker' = "exited"
  /\ UNCHANGED <<strandVars, worker_running, block, queueVars, decoderVars,
                 posted, pager_failed, page>>

WorkerTake ==
  /\ worker = "locking" /\ iq_queue # << >> /\ worker_running
  /\ block' = Head(iq_queue) /\ iq_queue' = Tail(iq_queue)
  /\ worker' = "demod"
  /\ UNCHANGED <<strandVars, worker_running, received, run_first, decoderVars,
                 posted, pager_failed, page>>

\* Demodulate; a block that yields no output is not written.
WorkerDemod ==
  /\ worker = "demod"
  /\ \/ worker' = "write" /\ UNCHANGED block
     \/ worker' = "top" /\ block' = 0
  /\ UNCHANGED <<strandVars, worker_running, queueVars, decoderVars,
                 posted, pager_failed, page>>

\* The blocking write to the decoder's stdin returns, whole or failed.
WorkerWrite ==
  /\ worker = "write"
  /\ worker' = "top" /\ block' = 0
  /\ UNCHANGED <<strandVars, worker_running, queueVars, decoderVars,
                 posted, pager_failed, page>>

-----------------------------------------------------------------------------
(* The decoder's reader thread.                                            *)

\* While there is a reader, demod names its chain (chain_ is reset earlier).
Post(kind, by) == posted' = Append(posted, [kind |-> kind, by |-> by])

\* Where the bound on waiting handlers applies: before a thread commits to post.
MayPost == Len(posted) < MaxPosted

\* on_event of the FM and TETRA chains: lock the weak pointer, feed the
\* explorer, and keep the Session alive while posting.
ReaderIngest ==
  /\ reader = "reading" /\ demod # "Pager" /\ ~destroyed /\ MayPost
  /\ reader' = "holding"
  /\ UNCHANGED <<strandVars, workerVars, queueVars, demod, backend, stream,
                 posted, pager_failed, page>>

ReaderPostEvent ==
  /\ reader = "holding"
  /\ Post("event", demod)
  /\ reader' = "reading"
  /\ UNCHANGED <<strandVars, workerVars, queueVars, demod, backend, stream,
                 pager_failed, page>>

\* on_line of the pager chain only posts, and holds no reference.
ReaderPostPage ==
  /\ reader = "reading" /\ demod = "Pager" /\ MayPost
  /\ Post("event", "Pager")
  /\ UNCHANGED <<strandVars, workerVars, queueVars, decoderVars, pager_failed, page>>

\* The child's output ends: it was stopped, or it died.  The pager's reader
\* then looks at stopping_ before it calls on_exit.
ReaderEof ==
  /\ reader = "reading"
  /\ reader' = IF demod = "Pager" /\ backend = "up" THEN "exiting" ELSE "done"
  /\ UNCHANGED <<strandVars, workerVars, queueVars, demod, backend, stream,
                 posted, pager_failed, page>>

ReaderPostExit ==
  /\ reader = "exiting"
  /\ Post("exit", "Pager")
  /\ reader' = "done"
  /\ UNCHANGED <<strandVars, workerVars, queueVars, demod, backend, stream,
                 pager_failed, page>>

-----------------------------------------------------------------------------
(* An HTTP thread in ServerStats::reload_pipelines: this session's callback *)
(* checks off the strand, then posts restart_pipeline.                      *)

ReloadCheck ==
  /\ page = "idle" /\ ~destroyed /\ MayPost
  /\ pipeline_active /\ chain = "Fm"
  /\ page' = "holding"
  /\ UNCHANGED <<strandVars, workerVars, queueVars, decoderVars, posted, pager_failed>>

ReloadPost ==
  /\ page = "holding"
  /\ Post("restart", "Fm")
  /\ page' = "idle"
  /\ UNCHANGED <<strandVars, workerVars, queueVars, decoderVars, pager_failed>>

-----------------------------------------------------------------------------
(* Lifetime.  The pending read, running and posted handlers, the reader     *)
(* inside on_event and the HTTP thread each own a reference; the pager's    *)
(* posted handlers only a weak one.                                         *)

Referenced ==
  \/ ~closed \/ pc # "idle" \/ reader = "holding" \/ page = "holding"
  \/ \E i \in 1..Len(posted) : ~(posted[i].by = "Pager")

\* The last reference goes: ~Session calls stop_pipeline.
Destroy ==
  /\ ~destroyed /\ ~Referenced
  /\ destroyed' = TRUE /\ pc' = "stop" /\ then' = None
  /\ UNCHANGED <<run, pipeline_active, chain, said, closed, workerVars, queueVars,
                 decoderVars, posted, pager_failed, page>>

-----------------------------------------------------------------------------
Stop == StopGuard \/ StopFlag \/ StopNotify \/ StopJoin \/ StopBackend
        \/ StopReader \/ StopDemod \/ StopQueue \/ StopStream
Start == StartStream \/ StartFails \/ StartChain \/ StartWorker
Posted == RunEvent \/ RunRestart \/ RunExit
Client == (\E c \in Chains : OnStart(c)) \/ OnStop \/ OnClose \/ OnBinary
WorkerStep == WorkerTop \/ WorkerPredicateFalse \/ WorkerBlock \/ WorkerQuit
              \/ WorkerTake \/ WorkerDemod \/ WorkerWrite
Worker == WorkerStep \/ WorkerSpuriousWakeup
Reader == ReaderIngest \/ ReaderPostEvent \/ ReaderPostPage \/ ReaderEof \/ ReaderPostExit
Page == ReloadCheck \/ ReloadPost

Next == Client \/ Stop \/ Start \/ Posted \/ Worker \/ Reader \/ Page \/ Destroy

Spec == Init /\ [][Next]_vars

\* Threads that can run do run: the strand finishes the handler it is in and
\* takes posted handlers, the worker runs, a pager reader posts what it decided
\* to post, and the reader of a decoder told to stop comes to the end of its
\* output (the decoder is killed if it does not exit).
Fairness ==
  /\ WF_vars(Stop) /\ WF_vars(Start) /\ WF_vars(Posted) /\ WF_vars(WorkerStep)
  /\ WF_vars(ReaderPostEvent \/ ReaderPostExit)
  /\ SF_vars(ReaderEof /\ backend = "stopping")

FairSpec == Spec /\ Fairness

-----------------------------------------------------------------------------
(* Safety.                                                                 *)

\* stop_pipeline joins the worker before it stops the backend and resets the
\* demodulator: whatever the worker uses still exists.
WorkerOnLiveChain ==
  worker \in {"demod", "write"} => demod = chain /\ backend = "up" /\ reader # "none"

\* Every event a decoder emits falls in its own open stream of the explorer:
\* begin_stream comes before the backend can emit, end_stream after its reader
\* thread is joined.
EventsInOpenStream ==
  reader \in {"reading", "holding", "exiting"} => stream = "running"

\* The queue is the newest blocks, in order, and neither it nor the worker holds
\* a block of an earlier pipeline (drop-oldest, and the clear in stop_pipeline).
QueueIsFresh ==
  /\ \A i \in 1..Len(iq_queue) :
        /\ iq_queue[i] = received - Len(iq_queue) + i
        /\ iq_queue[i] > run_first
  /\ block # 0 => block > run_first /\ block <= received - Len(iq_queue)

\* Between handlers, a session without a pipeline has nothing left of one: no
\* thread, no demodulator, no queued IQ, the default chain.
NothingLeftRunning ==
  pc = "idle" /\ ~pipeline_active =>
    /\ worker = "none" /\ reader = "none" /\ backend = "off"
    /\ demod = None /\ chain = "Fm" /\ iq_queue = << >>

\* ~Session never tears a pipeline down, whoever drops the last reference: the
\* reader thread could otherwise come to join itself.
DestructorFindsIdle ==
  destroyed => ~pipeline_active /\ worker = "none" /\ reader = "none"

\* Once the connection is gone no pipeline comes up, whatever is still posted
\* (restart_pipeline looks at pipeline_active_ again on the strand).
NoPipelineAfterClose ==
  [][closed /\ ~pipeline_active => ~pipeline_active']_pipeline_active

\* "chain_ is fixed for this worker's lifetime": what demod_worker_loop read once
\* stays the session's chain until the worker is joined.
ChainFixedForWorker ==
  [][worker # "none" => chain' = chain]_chain

-----------------------------------------------------------------------------
(* Liveness, under FairSpec.                                               *)

\* A queued block is taken, dropped or discarded: no notification is lost
\* between handle_binary_message and the worker.
QueuedBlockLeaves ==
  \A n \in 1..MaxBlocks :
    (\E i \in 1..Len(iq_queue) : iq_queue[i] = n) ~> ~(\E i \in 1..Len(iq_queue) : iq_queue[i] = n)

\* A pager decoder that dies under its running pipeline is reported to the
\* client, unless the pipeline is stopped first.
PagerDeathIsTold ==
  (reader = "exiting" /\ pipeline_active) ~> (said = "pager_exit" \/ ~pipeline_active)

\* The notification came after the worker's last look at the flag but before it
\* slept, and nothing will notify it again.
WakeupMissed == pc = "stop_join" /\ worker = "waiting"

\* Apart from that one case, every stop_pipeline returns.
StopReturnsUnlessMissed == (pc \in StopSteps) ~> (pc \notin StopSteps \/ WakeupMissed)

\* PROTOCOL.md on "stop": the pipeline is torn down and a new start is accepted
\* afterwards.
StopReturns == (pc \in StopSteps) ~> (pc \notin StopSteps)
=============================================================================
