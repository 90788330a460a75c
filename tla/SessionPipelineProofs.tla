----------------------- MODULE SessionPipelineProofs -----------------------
(***************************************************************************)
(* Proofs about SessionPipeline, for every queue limit and every bound.    *)
(*                                                                         *)
(* The safety properties talk about moments (the worker demodulating, the  *)
(* strand between handlers); the inductive invariant says what holds at    *)
(* every step of start_pipeline and stop_pipeline in between.              *)
(***************************************************************************)
EXTENDS SessionPipeline, TLAPS

-----------------------------------------------------------------------------
(* The inductive invariant.                                                *)

\* A pipeline is complete: from StartWorker to StopJoin.
Up ==
  /\ worker # "none" /\ reader # "none" /\ backend = "up"
  /\ demod = chain /\ stream = "running"

\* Nothing of a pipeline is left: from StopQueue to StartChain.
Down ==
  /\ worker = "none" /\ reader = "none" /\ backend = "off"
  /\ demod = None /\ chain = "Fm" /\ iq_queue = << >>

\* What each step of stop_pipeline finds.
StopInv ==
  /\ pipeline_active => pc \in {"idle", "stop"} /\ Up
  /\ pc \in {"stop_flag", "stop_notify", "stop_join"} => Up
  /\ pc = "stop_backend" =>
       /\ worker = "none" /\ reader # "none" /\ backend = "up"
       /\ demod = chain /\ stream = "running"
  /\ pc = "stop_reader" =>
       /\ worker = "none" /\ reader # "none" /\ backend = "stopping"
       /\ chain = "Fm" /\ demod # None /\ stream = "running"
  /\ pc = "stop_demod" =>
       worker = "none" /\ reader = "none" /\ backend = "off" /\ chain = "Fm"
  /\ pc = "stop_queue" =>
       /\ worker = "none" /\ reader = "none" /\ backend = "off"
       /\ chain = "Fm" /\ demod = None
  /\ pc = "stop_stream" => Down
  /\ pc \in {"idle", "stop"} /\ ~pipeline_active => Down

\* What each step of start_pipeline finds.
StartInv ==
  /\ pc \in {"start", "start_chain"} => Down /\ then # None
  /\ pc = "start_chain" => stream = "running"
  /\ pc = "start_worker" =>
       /\ worker = "none" /\ reader # "none" /\ backend = "up"
       /\ demod = chain /\ stream = "running" /\ iq_queue = << >>

\* After the read loop has ended nothing starts, and ~Session finds no pipeline.
LifetimeInv ==
  /\ closed => /\ then = None /\ pc \notin StartSteps
               /\ pc = "idle" => ~pipeline_active
  /\ destroyed => closed /\ ~pipeline_active /\ pc \in {"idle", "stop"}

\* The worker holds a block exactly while it works on it.
BlockInv ==
  /\ block # 0 => worker \in {"demod", "write"}
  /\ run_first <= received

IInv ==
  /\ TypeOK /\ StopInv /\ StartInv /\ LifetimeInv /\ BlockInv /\ QueueIsFresh

-----------------------------------------------------------------------------
(* The initial states.                                                     *)

\* A session that was just accepted (session.cpp's member initialisers) satisfies
\* the inductive invariant.
LEMMA InitIInv == Init => IInv
<1> SUFFICES ASSUME Init PROVE IInv
  OBVIOUS
<1>1. /\ pipeline_active \in BOOLEAN /\ worker_running \in BOOLEAN
      /\ pager_failed \in BOOLEAN /\ closed \in BOOLEAN /\ destroyed \in BOOLEAN
  BY Zenon DEF Init
<1>2. TypeOK
  BY <1>1, BoundAssumption DEF Init, TypeOK, Chains, None, Handlers
<1>3. StopInv /\ StartInv /\ LifetimeInv /\ BlockInv /\ QueueIsFresh
  BY DEF Init, StopInv, StartInv, LifetimeInv, BlockInv, QueueIsFresh, Up, Down,
         None, StopSteps, StartSteps
<1> QED
  BY <1>2, <1>3 DEF IInv

-----------------------------------------------------------------------------
(* Every step preserves the types.  A handler posted by the reader carries *)
(* the chain of its demodulator, so that case needs StopInv and StartInv.  *)

\* No handler, worker, reader or page step leaves the types.
LEMMA TypeStep ==
  ASSUME TypeOK, StopInv, StartInv, [Next]_vars
  PROVE  TypeOK'
<1> USE QueueAssumption, BoundAssumption
<1> USE DEF TypeOK, StopInv, StartInv, Up, Down, Chains, None, StopSteps, StartSteps,
            Handlers, vars, strandVars, workerVars, queueVars, decoderVars
<1>1. ASSUME NEW c \in Chains, OnStart(c) PROVE TypeOK'
  BY <1>1 DEF OnStart
<1>2. CASE OnStop
  BY <1>2 DEF OnStop
<1>3. CASE OnClose
  BY <1>3 DEF OnClose
<1>4. CASE OnBinary
  <2>1. received' \in 1..MaxBlocks
    BY <1>4 DEF OnBinary
  <2>2. (IF Len(iq_queue) >= MaxQueued THEN Tail(iq_queue) ELSE iq_queue) \in Seq(1..MaxBlocks)
    <3>1. CASE Len(iq_queue) >= MaxQueued
      <4>1. iq_queue # << >>
        BY <3>1
      <4> QED
        BY <3>1, <4>1
    <3> QED
      BY <3>1
  <2>3. iq_queue' \in Seq(1..MaxBlocks)
    BY <1>4, <2>1, <2>2 DEF OnBinary
  <2> QED
    BY <1>4, <2>1, <2>3 DEF OnBinary, Notified
<1>5. CASE StopGuard
  <2>1. pipeline_active' \in BOOLEAN
    BY <1>5, Zenon DEF StopGuard
  <2> QED
    BY <1>5, <2>1 DEF StopGuard, Goto, AfterStop
<1>6. CASE StopFlag
  <2>1. worker_running' \in BOOLEAN
    BY <1>6, Zenon DEF StopFlag
  <2> QED
    BY <1>6, <2>1 DEF StopFlag, Goto
<1>7. CASE StopNotify
  BY <1>7 DEF StopNotify, Notified, Goto
<1>8. CASE StopJoin
  BY <1>8 DEF StopJoin, Goto
<1>9. CASE StopBackend
  BY <1>9 DEF StopBackend, Goto
<1>10. CASE StopReader
  BY <1>10 DEF StopReader, Goto
<1>11. CASE StopDemod
  BY <1>11 DEF StopDemod, Goto
<1>12. CASE StopQueue
  BY <1>12 DEF StopQueue, Goto, IqMutexFree
<1>13. CASE StopStream
  BY <1>13 DEF StopStream, Goto, AfterStop
<1>14. CASE StartStream
  BY <1>14 DEF StartStream, Goto
<1>15. CASE StartFails
  <2>1. pager_failed' \in BOOLEAN
    BY <1>15, Zenon DEF StartFails
  <2> QED
    BY <1>15, <2>1 DEF StartFails, Goto
<1>16. CASE StartChain
  BY <1>16 DEF StartChain, Goto
<1>17. CASE StartWorker
  BY <1>17 DEF StartWorker, Goto
<1>18. CASE RunEvent
  BY <1>18 DEF RunEvent, NextPosted
<1>19. CASE RunRestart
  BY <1>19 DEF RunRestart, NextPosted
<1>20. CASE RunExit
  <2>1. pager_failed' \in BOOLEAN
    BY <1>20, Zenon DEF RunExit
  <2> QED
    BY <1>20, <2>1 DEF RunExit, NextPosted
<1>21. CASE WorkerTop
  BY <1>21 DEF WorkerTop
<1>22. CASE WorkerPredicateFalse
  BY <1>22 DEF WorkerPredicateFalse
<1>23. CASE WorkerBlock
  BY <1>23 DEF WorkerBlock
<1>24. CASE WorkerSpuriousWakeup
  BY <1>24 DEF WorkerSpuriousWakeup
<1>25. CASE WorkerQuit
  BY <1>25 DEF WorkerQuit
<1>26. CASE WorkerTake
  BY <1>26 DEF WorkerTake
<1>27. CASE WorkerDemod
  BY <1>27 DEF WorkerDemod
<1>28. CASE WorkerWrite
  BY <1>28 DEF WorkerWrite
<1>29. CASE ReaderIngest
  BY <1>29 DEF ReaderIngest
<1>30. CASE ReaderPostEvent
  <2>1. demod \in Chains
    BY <1>30 DEF ReaderPostEvent
  <2>2. posted' \in Seq(Handlers)
    BY <1>30, <2>1 DEF ReaderPostEvent, Post
  <2> QED
    BY <1>30, <2>2 DEF ReaderPostEvent
<1>31. CASE ReaderPostPage
  BY <1>31 DEF ReaderPostPage, Post
<1>32. CASE ReaderEof
  BY <1>32 DEF ReaderEof
<1>33. CASE ReaderPostExit
  BY <1>33 DEF ReaderPostExit, Post
<1>34. CASE ReloadCheck
  BY <1>34 DEF ReloadCheck
<1>35. CASE ReloadPost
  BY <1>35 DEF ReloadPost, Post
<1>36. CASE Destroy
  BY <1>36 DEF Destroy, Referenced
<1>37. CASE UNCHANGED vars
  BY <1>37, SMTT(30)
<1> QED
  BY <1>1, <1>2, <1>3, <1>4, <1>5, <1>6, <1>7, <1>8, <1>9, <1>10, <1>11,
     <1>12, <1>13, <1>14, <1>15, <1>16, <1>17, <1>18, <1>19, <1>20, <1>21,
     <1>22, <1>23, <1>24, <1>25, <1>26, <1>27, <1>28, <1>29, <1>30, <1>31,
     <1>32, <1>33, <1>34, <1>35, <1>36, <1>37
     DEF Next, Client, Stop, Start, Posted, Worker, WorkerStep, Reader, Page

-----------------------------------------------------------------------------
(* Every step preserves what start_pipeline and stop_pipeline rely on.     *)

\* Every step keeps the teardown and bring-up order of the two pipelines.
LEMMA ControlStep ==
  ASSUME IInv, [Next]_vars
  PROVE  StopInv' /\ StartInv' /\ LifetimeInv' /\ BlockInv'
<1> USE DEF IInv, TypeOK, StopInv, StartInv, LifetimeInv, BlockInv, Up, Down, Chains,
            None, StopSteps, StartSteps, vars, strandVars, workerVars, queueVars, decoderVars
<1>1. ASSUME NEW c \in Chains, OnStart(c) PROVE StopInv' /\ StartInv' /\ LifetimeInv' /\ BlockInv'
  BY <1>1 DEF OnStart
<1>2. CASE OnStop
  BY <1>2 DEF OnStop
<1>3. CASE OnClose
  BY <1>3 DEF OnClose
<1>4. CASE OnBinary
  BY <1>4 DEF OnBinary, Notified, IqMutexFree
<1>5. CASE StopGuard
  BY <1>5 DEF StopGuard, Goto, AfterStop
<1>6. CASE StopFlag
  BY <1>6 DEF StopFlag, Goto
<1>7. CASE StopNotify
  BY <1>7 DEF StopNotify, Notified, Goto
<1>8. CASE StopJoin
  BY <1>8 DEF StopJoin, Goto
<1>9. CASE StopBackend
  BY <1>9 DEF StopBackend, Goto
<1>10. CASE StopReader
  BY <1>10 DEF StopReader, Goto
<1>11. CASE StopDemod
  BY <1>11 DEF StopDemod, Goto
<1>12. CASE StopQueue
  BY <1>12 DEF StopQueue, Goto, IqMutexFree
<1>13. CASE StopStream
  BY <1>13 DEF StopStream, Goto, AfterStop
<1>14. CASE StartStream
  BY <1>14 DEF StartStream, Goto
<1>15. CASE StartFails
  BY <1>15 DEF StartFails, Goto
<1>16. CASE StartChain
  BY <1>16 DEF StartChain, Goto
<1>17. CASE StartWorker
  BY <1>17 DEF StartWorker, Goto
<1>18. CASE RunEvent
  BY <1>18 DEF RunEvent, NextPosted
<1>19. CASE RunRestart
  BY <1>19 DEF RunRestart, NextPosted
<1>20. CASE RunExit
  BY <1>20 DEF RunExit, NextPosted
<1>21. CASE WorkerTop
  BY <1>21 DEF WorkerTop
<1>22. CASE WorkerPredicateFalse
  BY <1>22 DEF WorkerPredicateFalse
<1>23. CASE WorkerBlock
  BY <1>23 DEF WorkerBlock
<1>24. CASE WorkerSpuriousWakeup
  BY <1>24 DEF WorkerSpuriousWakeup
<1>25. CASE WorkerQuit
  BY <1>25 DEF WorkerQuit
<1>26. CASE WorkerTake
  BY <1>26 DEF WorkerTake
<1>27. CASE WorkerDemod
  BY <1>27 DEF WorkerDemod
<1>28. CASE WorkerWrite
  BY <1>28 DEF WorkerWrite
<1>29. CASE ReaderIngest
  BY <1>29 DEF ReaderIngest
<1>30. CASE ReaderPostEvent
  BY <1>30 DEF ReaderPostEvent, Post
<1>31. CASE ReaderPostPage
  BY <1>31 DEF ReaderPostPage, Post
<1>32. CASE ReaderEof
  BY <1>32 DEF ReaderEof
<1>33. CASE ReaderPostExit
  BY <1>33 DEF ReaderPostExit, Post
<1>34. CASE ReloadCheck
  BY <1>34 DEF ReloadCheck
<1>35. CASE ReloadPost
  BY <1>35 DEF ReloadPost, Post
<1>36. CASE Destroy
  BY <1>36 DEF Destroy, Referenced
<1>37. CASE UNCHANGED vars
  BY <1>37
<1> QED
  BY <1>1, <1>2, <1>3, <1>4, <1>5, <1>6, <1>7, <1>8, <1>9, <1>10, <1>11,
     <1>12, <1>13, <1>14, <1>15, <1>16, <1>17, <1>18, <1>19, <1>20, <1>21,
     <1>22, <1>23, <1>24, <1>25, <1>26, <1>27, <1>28, <1>29, <1>30, <1>31,
     <1>32, <1>33, <1>34, <1>35, <1>36, <1>37
     DEF Next, Client, Stop, Start, Posted, Worker, WorkerStep, Reader, Page

-----------------------------------------------------------------------------
(* Every step keeps the queue the newest blocks of the current run.        *)

\* Every step keeps the IQ queue fresh.
LEMMA QueueStep ==
  ASSUME IInv, [Next]_vars
  PROVE  QueueIsFresh'
<1> USE QueueAssumption, BoundAssumption
<1> USE DEF IInv, TypeOK, StartInv, StopInv, Up, Down, BlockInv, QueueIsFresh, StartSteps, StopSteps,
            vars, strandVars, workerVars, queueVars, decoderVars
<1>1. ASSUME NEW c \in Chains, OnStart(c) PROVE QueueIsFresh'
  BY <1>1 DEF OnStart
<1>2. CASE OnStop
  BY <1>2 DEF OnStop
<1>3. CASE OnClose
  BY <1>3 DEF OnClose
<1>4. CASE OnBinary
  <2> DEFINE kept == IF Len(iq_queue) >= MaxQueued THEN Tail(iq_queue) ELSE iq_queue
  <2>2. /\ kept \in Seq(1..MaxBlocks) /\ Len(kept) <= Len(iq_queue)
        /\ \A i \in 1..Len(kept) : kept[i] = received - Len(kept) + i /\ kept[i] > run_first
    <3>1. CASE Len(iq_queue) >= MaxQueued
      <4>1. iq_queue # << >>
        BY <3>1
      <4>2. kept = Tail(iq_queue) /\ kept \in Seq(1..MaxBlocks) /\ Len(kept) = Len(iq_queue) - 1
        BY <3>1, <4>1
      <4>3. \A i \in 1..Len(kept) : i + 1 \in 1..Len(iq_queue) /\ kept[i] = iq_queue[i + 1]
        BY <4>1, <4>2
      <4>4. ASSUME NEW i \in 1..Len(kept)
            PROVE  kept[i] = received - Len(kept) + i /\ kept[i] > run_first
        <5> HIDE DEF kept
        <5>1. iq_queue[i + 1] = received - Len(iq_queue) + (i + 1) /\ iq_queue[i + 1] > run_first
          BY <4>3
        <5>2. received \in Int /\ Len(iq_queue) \in Int /\ Len(kept) \in Int /\ i \in Int
          BY <4>2
        <5> QED
          BY <5>1, <5>2, <4>2, <4>3
      <4>5. Len(kept) <= Len(iq_queue)
        BY <4>2
      <4> HIDE DEF kept
      <4> QED
        BY <4>2, <4>4, <4>5
    <3>2. CASE ~(Len(iq_queue) >= MaxQueued)
      BY <3>2
    <3> QED
      BY <3>1, <3>2
  <2> HIDE DEF kept
  <2>3. /\ received \in Nat /\ run_first \in Nat /\ received >= run_first
        /\ received' = received + 1 /\ received' \in 1..MaxBlocks
        /\ UNCHANGED <<run_first, block>>
    BY <1>4 DEF OnBinary
  <2>4. iq_queue' = Append(kept, received')
    BY <1>4 DEF OnBinary, kept
  <2>5. Len(kept) \in Nat /\ Len(iq_queue') = Len(kept) + 1
    BY <2>2, <2>3, <2>4
  <2>6. ASSUME NEW i \in 1..Len(iq_queue')
        PROVE  iq_queue'[i] = received' - Len(iq_queue') + i /\ iq_queue'[i] > run_first'
    <3>1. CASE i = Len(kept) + 1
      <4>1. iq_queue'[i] = received'
        BY <3>1, <2>2, <2>3, <2>4
      <4> QED
        BY <3>1, <4>1, <2>3, <2>5
    <3>2. CASE i # Len(kept) + 1
      <4>1. i \in 1..Len(kept) /\ iq_queue'[i] = kept[i]
        BY <3>2, <2>2, <2>3, <2>4, <2>5
      <4>2. kept[i] = received - Len(kept) + i /\ kept[i] > run_first
        BY <4>1, <2>2
      <4> QED
        BY <4>1, <4>2, <2>3, <2>5
    <3> QED
      BY <3>1, <3>2
  <2>7. block # 0 => block > run_first /\ block <= received - Len(iq_queue)
    OBVIOUS
  <2>8. block # 0 => block' > run_first' /\ block' <= received' - Len(iq_queue')
    BY <2>2, <2>3, <2>5, <2>7
  <2> QED
    BY <2>3, <2>6, <2>8
<1>5. CASE StopGuard
  BY <1>5 DEF StopGuard, Goto, AfterStop
<1>6. CASE StopFlag
  BY <1>6 DEF StopFlag, Goto
<1>7. CASE StopNotify
  BY <1>7 DEF StopNotify, Notified, Goto
<1>8. CASE StopJoin
  BY <1>8 DEF StopJoin, Goto
<1>9. CASE StopBackend
  BY <1>9 DEF StopBackend, Goto
<1>10. CASE StopReader
  BY <1>10 DEF StopReader, Goto
<1>11. CASE StopDemod
  BY <1>11 DEF StopDemod, Goto
<1>12. CASE StopQueue
  BY <1>12 DEF StopQueue, Goto, IqMutexFree
<1>13. CASE StopStream
  BY <1>13 DEF StopStream, Goto, AfterStop
<1>14. CASE StartStream
  BY <1>14 DEF StartStream, Goto
<1>15. CASE StartFails
  BY <1>15 DEF StartFails, Goto
<1>16. CASE StartChain
  BY <1>16 DEF StartChain, Goto
<1>17. CASE StartWorker
  BY <1>17 DEF StartWorker, Goto
<1>18. CASE RunEvent
  BY <1>18 DEF RunEvent, NextPosted
<1>19. CASE RunRestart
  BY <1>19 DEF RunRestart, NextPosted
<1>20. CASE RunExit
  BY <1>20 DEF RunExit, NextPosted
<1>21. CASE WorkerTop
  BY <1>21 DEF WorkerTop
<1>22. CASE WorkerPredicateFalse
  BY <1>22 DEF WorkerPredicateFalse
<1>23. CASE WorkerBlock
  BY <1>23 DEF WorkerBlock
<1>24. CASE WorkerSpuriousWakeup
  BY <1>24 DEF WorkerSpuriousWakeup
<1>25. CASE WorkerQuit
  BY <1>25 DEF WorkerQuit
<1>26. CASE WorkerTake
  BY <1>26 DEF WorkerTake
<1>27. CASE WorkerDemod
  BY <1>27 DEF WorkerDemod
<1>28. CASE WorkerWrite
  BY <1>28 DEF WorkerWrite
<1>29. CASE ReaderIngest
  BY <1>29 DEF ReaderIngest
<1>30. CASE ReaderPostEvent
  BY <1>30 DEF ReaderPostEvent, Post
<1>31. CASE ReaderPostPage
  BY <1>31 DEF ReaderPostPage, Post
<1>32. CASE ReaderEof
  BY <1>32 DEF ReaderEof
<1>33. CASE ReaderPostExit
  BY <1>33 DEF ReaderPostExit, Post
<1>34. CASE ReloadCheck
  BY <1>34 DEF ReloadCheck
<1>35. CASE ReloadPost
  BY <1>35 DEF ReloadPost, Post
<1>36. CASE Destroy
  BY <1>36 DEF Destroy, Referenced
<1>37. CASE UNCHANGED vars
  BY <1>37
<1> QED
  BY <1>1, <1>2, <1>3, <1>4, <1>5, <1>6, <1>7, <1>8, <1>9, <1>10, <1>11,
     <1>12, <1>13, <1>14, <1>15, <1>16, <1>17, <1>18, <1>19, <1>20, <1>21,
     <1>22, <1>23, <1>24, <1>25, <1>26, <1>27, <1>28, <1>29, <1>30, <1>31,
     <1>32, <1>33, <1>34, <1>35, <1>36, <1>37
     DEF Next, Client, Stop, Start, Posted, Worker, WorkerStep, Reader, Page

-----------------------------------------------------------------------------
(* The theorems.                                                           *)

\* The inductive invariant holds in every reachable state.
THEOREM Invariance == Spec => []IInv
<1>1. Init => IInv
  BY InitIInv
<1>2. IInv /\ [Next]_vars => IInv'
  BY TypeStep, ControlStep, QueueStep DEF IInv
<1> QED
  BY <1>1, <1>2, PTL DEF Spec

\* Every variable of the session keeps its type.
THEOREM TypeCorrect == Spec => []TypeOK
<1>1. IInv => TypeOK
  BY DEF IInv
<1> QED
  BY <1>1, Invariance, PTL

\* The worker never uses a demodulator or a decoder that stop_pipeline has
\* taken down.
THEOREM WorkerSafe == Spec => []WorkerOnLiveChain
<1>1. IInv => WorkerOnLiveChain
  BY DEF IInv, TypeOK, StopInv, StartInv, Up, Down, StopSteps, StartSteps, WorkerOnLiveChain
<1> QED
  BY <1>1, Invariance, PTL

\* No event of a decoder reaches the explorer outside its own stream.
THEOREM EventsSafe == Spec => []EventsInOpenStream
<1>1. IInv => EventsInOpenStream
  BY DEF IInv, TypeOK, StopInv, StartInv, Up, Down, StopSteps, StartSteps, EventsInOpenStream
<1> QED
  BY <1>1, Invariance, PTL

\* The worker sees the newest blocks in order and none of an earlier pipeline.
THEOREM QueueSafe == Spec => []QueueIsFresh
<1>1. IInv => QueueIsFresh
  BY DEF IInv
<1> QED
  BY <1>1, Invariance, PTL

\* A stopped session has no thread, no demodulator and no queued IQ.
THEOREM StoppedIsClean == Spec => []NothingLeftRunning
<1>1. IInv => NothingLeftRunning
  BY DEF IInv, StopInv, Down, NothingLeftRunning
<1> QED
  BY <1>1, Invariance, PTL

\* ~Session never has a pipeline to tear down.
THEOREM DestructorSafe == Spec => []DestructorFindsIdle
<1>1. IInv => DestructorFindsIdle
  BY DEF IInv, StopInv, LifetimeInv, Down, DestructorFindsIdle
<1> QED
  BY <1>1, Invariance, PTL

\* A closed connection never gets a pipeline again.
THEOREM ClosedStaysDown == Spec => NoPipelineAfterClose
<1>1. IInv /\ [Next]_vars =>
        [closed /\ ~pipeline_active => ~pipeline_active']_pipeline_active
  <2> SUFFICES ASSUME IInv, [Next]_vars, closed, ~pipeline_active, pipeline_active'
               PROVE  FALSE
    OBVIOUS
  <2>1. ~StartWorker
    BY DEF IInv, LifetimeInv, StartSteps, StartWorker, Goto
  <2> QED
    BY <2>1, Zenon
       DEF Next, Client, Stop, Start, Posted, Worker, WorkerStep, Reader, Page, vars,
           strandVars, OnStart, OnStop, OnClose, OnBinary, StopGuard, StopFlag, StopNotify,
           StopJoin, StopBackend, StopReader, StopDemod, StopQueue, StopStream,
           StartStream, StartFails, StartChain, RunEvent, RunRestart, RunExit,
           WorkerTop, WorkerPredicateFalse, WorkerBlock, WorkerSpuriousWakeup, WorkerQuit,
           WorkerTake, WorkerDemod, WorkerWrite, ReaderIngest, ReaderPostEvent,
           ReaderPostPage, ReaderEof, ReaderPostExit, ReloadCheck, ReloadPost, Destroy
<1> QED
  BY <1>1, Invariance, PTL DEF Spec, NoPipelineAfterClose

\* chain_ is fixed for the lifetime of a worker: stop_pipeline resets it after the
\* join, start_pipeline sets it before the worker exists.
THEOREM ChainFixed == Spec => ChainFixedForWorker
<1>1. IInv /\ [Next]_vars => [worker # "none" => chain' = chain]_chain
  <2> SUFFICES ASSUME IInv, [Next]_vars, worker # "none", chain' # chain
               PROVE  FALSE
    OBVIOUS
  <2>1. ~StopBackend
    BY DEF IInv, StopInv, StopBackend, Goto
  <2>2. ~StartChain
    BY DEF IInv, StartInv, Down, StartChain, Goto
  <2> QED
    BY <2>1, <2>2, Zenon
       DEF Next, Client, Stop, Start, Posted, Worker, WorkerStep, Reader, Page, vars,
           strandVars, OnStart, OnStop, OnClose, OnBinary, StopGuard, StopFlag, StopNotify,
           StopJoin, StopReader, StopDemod, StopQueue, StopStream, StartStream,
           StartFails, StartWorker, RunEvent, RunRestart, RunExit, WorkerTop,
           WorkerPredicateFalse, WorkerBlock, WorkerSpuriousWakeup, WorkerQuit,
           WorkerTake, WorkerDemod, WorkerWrite, ReaderIngest, ReaderPostEvent,
           ReaderPostPage, ReaderEof, ReaderPostExit, ReloadCheck, ReloadPost, Destroy
<1> QED
  BY <1>1, Invariance, PTL DEF Spec, ChainFixedForWorker
=============================================================================
