-------------------------- MODULE RecordingsProofs --------------------------
(***************************************************************************)
(* Recordings, whatever the clients, files and requests are: a raw-IQ      *)
(* capture is its session's own and whole, and follows the switch; the     *)
(* page plays what its buttons say; and a transcript is the recording's,   *)
(* by the model that was asked.                                            *)
(***************************************************************************)
EXTENDS Recordings, SequenceTheorems, TLAPS

-----------------------------------------------------------------------------
(* Raw-IQ capture: the files.                                              *)

\* An open file is its session's own; what a file holds is what fits of what was
\* received; and one that is not open has its size in its header.
FilesInv ==
  /\ DOMAIN files \subseteq Capture!Names /\ clock \in 0..MaxSeconds
  /\ \A f \in DOMAIN files : files[f] \in Capture!File
  /\ iq_log \in [Clients -> Capture!Names \cup {Capture!NoFile}]
  /\ \A s \in Clients : iq_log[s] # Capture!NoFile => iq_log[s].s = s /\ iq_log[s] \in DOMAIN files
  /\ \A f \in DOMAIN files :
       files[f].bytes = IF files[f].fed > MaxSamples THEN MaxSamples ELSE files[f].fed
  /\ \A f \in DOMAIN files \ Capture!OpenFiles : files[f].data_size = files[f].bytes

\* What was finalized in an earlier second is as it was.
FilesKept ==
  \A f \in DOMAIN files \ Capture!OpenFiles : f.t < clock => files'[f] = files[f]

\* No capture file goes by the name of none.
LEMMA NoFileIsNone == Capture!NoFile \notin Capture!Names
BY ClientAssumption DEF Capture!NoFile, Capture!Names

\* close(): the writer patches the header.
LEMMA CloseKeeps ==
  ASSUME FilesInv, NEW s \in Clients, files' = Capture!Closed(files, iq_log[s]),
         iq_log' = [iq_log EXCEPT ![s] = Capture!NoFile], clock' = clock
  PROVE  FilesInv' /\ FilesKept
<1> DEFINE f == iq_log[s]
<1>1. f \in Capture!Names \cup {Capture!NoFile} BY DEF FilesInv
<1>2. CASE f = Capture!NoFile
  <2>1. files' = files /\ iq_log' = iq_log BY <1>2 DEF Capture!Closed, FilesInv
  <2> QED BY <2>1 DEF FilesInv, FilesKept, Capture!OpenFiles
<1>3. CASE f # Capture!NoFile
  <2>1. f \in DOMAIN files /\ files[f] \in Capture!File BY <1>3 DEF FilesInv
  <2>2. files' = [files EXCEPT ![f].data_size = files[f].bytes] BY <1>3 DEF Capture!Closed
  <2>3. /\ DOMAIN files' = DOMAIN files
        /\ \A g \in DOMAIN files : g # f => files'[g] = files[g]
        /\ files'[f] = [files[f] EXCEPT !.data_size = files[f].bytes]
    BY <2>1, <2>2
  <2>4. /\ files'[f] \in Capture!File /\ files'[f].data_size = files'[f].bytes
        /\ files'[f].bytes = files[f].bytes /\ files'[f].fed = files[f].fed
    BY <2>1, <2>3 DEF Capture!File
  <2>5. /\ iq_log' \in [Clients -> Capture!Names \cup {Capture!NoFile}]
        /\ iq_log'[s] = Capture!NoFile /\ \A r \in Clients \ {s} : iq_log'[r] = iq_log[r]
    BY DEF FilesInv
  <2>6. Capture!OpenFiles \subseteq Capture!OpenFiles' \cup {f}
    BY <2>5 DEF Capture!OpenFiles
  <2>7. f \in Capture!OpenFiles BY <1>3 DEF Capture!OpenFiles
  <2> HIDE DEF f
  <2>8. \A g \in DOMAIN files' \ Capture!OpenFiles' : files'[g].data_size = files'[g].bytes
    BY <2>3, <2>4, <2>6, ZenonT(40) DEF FilesInv
  <2>9. \A g \in DOMAIN files' : /\ files'[g] \in Capture!File
                               /\ files'[g].bytes = files[g].bytes /\ files'[g].fed = files[g].fed
    BY <2>3, <2>4 DEF FilesInv
  <2>10. FilesKept BY <2>3, <2>7 DEF FilesKept
  <2>11. \A r \in Clients : iq_log'[r] # Capture!NoFile => iq_log'[r].s = r /\ iq_log'[r] \in DOMAIN files'
    BY <2>3, <2>5 DEF FilesInv
  <2> QED BY <2>3, <2>5, <2>8, <2>9, <2>10, <2>11 DEF FilesInv
<1> QED BY <1>2, <1>3

\* open(), the session having no capture: a name of this second.
LEMMA OpenKeeps ==
  ASSUME FilesInv, NEW s \in Clients, NEW f, f = [s |-> s, t |-> clock],
         files' = Capture!Opened(Capture!Closed(files, iq_log[s]), f),
         iq_log' = [iq_log EXCEPT ![s] = f], clock' = clock
  PROVE  FilesInv' /\ FilesKept
<1> DEFINE g == iq_log[s]
           fs == Capture!Closed(files, g)
           new == [bytes |-> 0, data_size |-> 0, fed |-> 0]
<1>1. f \in Capture!Names /\ f # Capture!NoFile
  BY NoFileIsNone DEF FilesInv, Capture!Names
<1>2. /\ DOMAIN files' = DOMAIN fs \cup {f}
      /\ files'[f] = new /\ \A h \in DOMAIN fs : h # f => files'[h] = fs[h]
  BY DEF Capture!Opened
<1>3. new \in Capture!File /\ new.bytes = 0 /\ new.fed = 0 BY SamplesAssumption DEF Capture!File
<1>4. /\ DOMAIN fs = DOMAIN files
      /\ \A h \in DOMAIN files : /\ fs[h] \in Capture!File /\ fs[h].bytes = files[h].bytes
                                 /\ fs[h].fed = files[h].fed
                                 /\ h # g => fs[h] = files[h]
                                 /\ h = g => fs[h].data_size = fs[h].bytes
  <2>1. CASE g = Capture!NoFile BY <2>1, NoFileIsNone DEF Capture!Closed, FilesInv
  <2>2. CASE g # Capture!NoFile
    <3>1. fs = [files EXCEPT ![g].data_size = files[g].bytes] /\ g \in DOMAIN files
      BY <2>2 DEF Capture!Closed, FilesInv
    <3>2. DOMAIN fs = DOMAIN files /\ fs[g] = [files[g] EXCEPT !.data_size = files[g].bytes]
          /\ \A h \in DOMAIN files : h # g => fs[h] = files[h]
      BY <3>1
    <3>3. files[g] \in Capture!File BY <3>1 DEF FilesInv
    <3>4. fs[g] \in Capture!File /\ fs[g].bytes = files[g].bytes /\ fs[g].fed = files[g].fed
          /\ fs[g].data_size = fs[g].bytes
      BY <3>2, <3>3 DEF Capture!File
    <3> HIDE DEF fs, g
    <3> QED BY <3>2, <3>4 DEF FilesInv
  <2> QED BY <2>1, <2>2
<1>5. /\ iq_log' \in [Clients -> Capture!Names \cup {Capture!NoFile}]
      /\ iq_log'[s] = f /\ \A r \in Clients \ {s} : iq_log'[r] = iq_log[r]
  BY <1>1 DEF FilesInv
<1>6. Capture!OpenFiles \subseteq Capture!OpenFiles' \cup {g} /\ f \in Capture!OpenFiles'
  BY <1>1, <1>5 DEF Capture!OpenFiles
<1>7. g \in DOMAIN files => g \in Capture!OpenFiles
  BY NoFileIsNone DEF Capture!OpenFiles, FilesInv
<1>8. f.s = s /\ f.t = clock /\ ~(clock < clock) BY DEF FilesInv
<1> HIDE DEF fs, g, new
<1>9. FilesInv' BY <1>1, <1>2, <1>3, <1>4, <1>5, <1>6, <1>8, SamplesAssumption DEF FilesInv
<1>10. FilesKept BY <1>1, <1>2, <1>4, <1>7, <1>8 DEF FilesKept
<1> QED BY <1>9, <1>10

\* write(): what still fits goes into a file that is open.
LEMMA WriteKeeps ==
  ASSUME FilesInv, NEW s \in Clients, NEW n \in FrameSizes, iq_log[s] # Capture!NoFile,
         files' = Capture!Written(files, iq_log[s], n), UNCHANGED <<iq_log, clock>>
  PROVE  FilesInv' /\ FilesKept
<1> DEFINE f == iq_log[s]
<1>1. f \in DOMAIN files /\ files[f] \in Capture!File /\ f \in Capture!OpenFiles /\ n \in Nat
  BY SamplesAssumption DEF FilesInv, Capture!OpenFiles
<1>2. files[f].bytes \in 0..MaxSamples /\ files[f].fed \in Nat BY <1>1 DEF Capture!File
<1>3. /\ DOMAIN files' = DOMAIN files
      /\ \A g \in DOMAIN files : g # f => files'[g] = files[g]
      /\ files'[f] = [bytes |-> IF files[f].bytes + n > MaxSamples THEN MaxSamples ELSE files[f].bytes + n,
                      data_size |-> files[f].data_size, fed |-> files[f].fed + n]
  BY <1>1 DEF Capture!Written, Capture!File
<1>4. files'[f] \in Capture!File BY <1>1, <1>2, <1>3, SamplesAssumption DEF Capture!File
<1>5. files'[f].bytes = IF files'[f].fed > MaxSamples THEN MaxSamples ELSE files'[f].fed
  <2>1. files[f].bytes = IF files[f].fed > MaxSamples THEN MaxSamples ELSE files[f].fed
    BY <1>1 DEF FilesInv
  <2> QED BY <1>1, <1>2, <1>3, <2>1, SamplesAssumption
<1>6. Capture!OpenFiles' = Capture!OpenFiles BY DEF Capture!OpenFiles
<1> HIDE DEF f
<1> QED BY <1>1, <1>3, <1>4, <1>5, <1>6 DEF FilesInv, FilesKept

-----------------------------------------------------------------------------
(* Raw-IQ capture: the sessions.                                           *)

\* A capture is open only in a running pipeline, which only a connected session
\* has, and nothing is posted to a session that is not there.
SessionsInv ==
  /\ \A s \in Clients : active[s] => conn[s] = "in"
  /\ \A s \in Clients : iq_log[s] # Capture!NoFile => active[s]
  /\ \A s \in Clients : posted[s] # << >> => conn[s] \in {"in", "closing"}
  /\ \A t \in Togglers : \A s \in toggler[t].todo : conn[s] # "out"

CaptureInv == Capture!TypeOK /\ FilesInv /\ SessionsInv

\* What a session's handler does to the files: nothing, finalize, or begin anew.
Shut(s) ==
  /\ files' = Capture!Closed(files, iq_log[s])
  /\ iq_log' = [iq_log EXCEPT ![s] = Capture!NoFile]

Anew(s) ==
  /\ files' = Capture!Opened(Capture!Closed(files, iq_log[s]), [s |-> s, t |-> clock])
  /\ iq_log' = [iq_log EXCEPT ![s] = [s |-> s, t |-> clock]]

\* stop_pipeline finalizes whatever is open.
LEMMA StopShuts ==
  ASSUME CaptureInv, NEW s \in Clients
  PROVE  /\ Capture!StoppedFiles(s) = Capture!Closed(files, iq_log[s])
         /\ Capture!StoppedLog(s) = Capture!NoFile
<1>1. CASE active[s] BY <1>1 DEF Capture!StoppedFiles, Capture!StoppedLog
<1>2. CASE ~active[s]
  <2>1. iq_log[s] = Capture!NoFile BY <1>2 DEF CaptureInv, SessionsInv
  <2> QED BY <1>2, <2>1 DEF Capture!StoppedFiles, Capture!StoppedLog, Capture!Closed
<1> QED BY <1>1, <1>2

\* A start, on each of its ways out; a capture is refused, or is there if it was
\* asked for or the switch is on, and only then.
LEMMA StartFiles ==
  ASSUME CaptureInv, NEW s \in Clients, NEW flag \in BOOLEAN, Capture!StartPipeline(s, flag)
  PROVE  \/ /\ Shut(s) /\ active' = [active EXCEPT ![s] = FALSE] /\ UNCHANGED <<own, refused>>
         \/ /\ active' = [active EXCEPT ![s] = TRUE] /\ own' = [own EXCEPT ![s] = flag]
            /\ \/ Anew(s) /\ (flag \/ iq_logging) /\ refused' = [refused EXCEPT ![s] = FALSE]
               \/ Shut(s) /\ (flag \/ iq_logging) /\ refused' = [refused EXCEPT ![s] = TRUE]
               \/ Shut(s) /\ ~flag /\ ~iq_logging /\ UNCHANGED refused
BY StopShuts DEF Capture!StartPipeline, Capture!OpenIqLog, Shut, Anew

\* Each step of the capture does one of those things, to one session's file.
LEMMA StepFiles ==
  ASSUME CaptureInv, Capture!Next
  PROVE  \/ UNCHANGED <<files, iq_log, clock>>
         \/ UNCHANGED <<files, iq_log>> /\ Capture!Tick
         \/ \E s \in Clients : (Shut(s) \/ Anew(s)) /\ UNCHANGED clock
         \/ \E s \in Clients, n \in FrameSizes : Capture!OnBinary(s, n)
<1> USE DEF Capture!sessionVars, Capture!boundVars
<1>1. ASSUME NEW s \in Clients, NEW flag \in BOOLEAN, Capture!OnStart(s, flag)
      PROVE  (Shut(s) \/ Anew(s)) /\ UNCHANGED clock
  BY <1>1, StartFiles DEF Capture!OnStart
<1>2. ASSUME NEW s \in Clients, Capture!OnStop(s) \/ Capture!OnClose(s)
      PROVE  Shut(s) /\ UNCHANGED clock
  BY <1>2, StopShuts DEF Capture!OnStop, Capture!OnClose, Capture!StopPipeline, Shut
<1>3. ASSUME NEW s \in Clients, Capture!RunOn(s)
      PROVE  (Anew(s) \/ UNCHANGED <<files, iq_log>>) /\ UNCHANGED clock
  <2>1. iq_log \in [Clients -> Capture!Names \cup {Capture!NoFile}] BY DEF CaptureInv, FilesInv
  <2>2. [iq_log EXCEPT ![s] = iq_log[s]] = iq_log BY <2>1
  <2>3. iq_log[s] = Capture!NoFile => Capture!Closed(files, iq_log[s]) = files BY DEF Capture!Closed
  <2> QED BY <1>3, <2>2, <2>3 DEF Capture!RunOn, Capture!OpenIqLog, Anew
<1>4. ASSUME NEW s \in Clients, Capture!RunOff(s) PROVE Shut(s) /\ UNCHANGED clock
  BY <1>4 DEF Capture!RunOff, Shut
<1>5. ASSUME NEW s \in Clients, Capture!RunRestart(s)
      PROVE  (Shut(s) \/ Anew(s) \/ UNCHANGED <<files, iq_log>>) /\ UNCHANGED clock
  <2>1. own[s] \in BOOLEAN BY DEF CaptureInv, Capture!TypeOK
  <2> QED BY <1>5, <2>1, StartFiles DEF Capture!RunRestart
<1>6. ASSUME NEW s \in Clients, Capture!Connect(s) \/ Capture!Destroy(s) \/ Capture!ReloadKeys(s)
      PROVE  UNCHANGED <<files, iq_log, clock>>
  BY <1>6 DEF Capture!Connect, Capture!Destroy, Capture!ReloadKeys
<1>7. ASSUME NEW t \in Togglers, \/ \E on \in BOOLEAN : Capture!Flip(t, on)
                                 \/ \E s \in Clients : Capture!Push(t, s)
      PROVE  UNCHANGED <<files, iq_log, clock>>
  BY <1>7 DEF Capture!Flip, Capture!Push
<1>8. Capture!Tick => UNCHANGED <<files, iq_log>> BY DEF Capture!Tick
<1> QED BY <1>1, <1>2, <1>3, <1>4, <1>5, <1>6, <1>7, <1>8 DEF Capture!Next, Capture!RunPosted

\* Every step of the sessions, the togglers and the clock keeps the files in order.
LEMMA StepKeepsFiles == CaptureInv /\ Capture!Next => FilesInv' /\ FilesKept
<1> SUFFICES ASSUME CaptureInv, Capture!Next PROVE FilesInv' /\ FilesKept OBVIOUS
<1>0. FilesInv BY DEF CaptureInv
<1>1. CASE UNCHANGED <<files, iq_log, clock>>
  BY <1>0, <1>1 DEF FilesInv, FilesKept, Capture!OpenFiles
<1>2. CASE UNCHANGED <<files, iq_log>> /\ Capture!Tick
  <2>1. clock' \in 0..MaxSeconds BY <1>0, <1>2, SamplesAssumption DEF FilesInv, Capture!Tick
  <2> QED BY <1>0, <1>2, <2>1 DEF FilesInv, FilesKept, Capture!OpenFiles
<1>3. ASSUME NEW s \in Clients, Shut(s) \/ Anew(s), UNCHANGED clock PROVE FilesInv' /\ FilesKept
  BY <1>0, <1>3, CloseKeeps, OpenKeeps DEF Shut, Anew
<1>4. ASSUME NEW s \in Clients, NEW n \in FrameSizes, Capture!OnBinary(s, n) PROVE FilesInv' /\ FilesKept
  BY <1>0, <1>4, WriteKeeps DEF Capture!OnBinary
<1> QED BY <1>1, <1>2, <1>3, <1>4, StepFiles

SwitchesTyped ==
  active \in [Clients -> BOOLEAN] /\ own \in [Clients -> BOOLEAN] /\ refused \in [Clients -> BOOLEAN]
TogglersTyped ==
  iq_logging \in BOOLEAN /\ toggler \in [Togglers -> [on : BOOLEAN, todo : SUBSET Clients]]

\* ... and the types.
LEMMA StepTypes == CaptureInv /\ Capture!Next => Capture!TypeOK'
<1> SUFFICES ASSUME CaptureInv, Capture!Next PROVE Capture!TypeOK' OBVIOUS
<1> USE DEF CaptureInv
<1>1. FilesInv' BY StepKeepsFiles
<1>2. SwitchesTyped'
  <2> USE DEF SwitchesTyped
  <2>0. SwitchesTyped BY DEF Capture!TypeOK
  <2>1. ASSUME NEW s \in Clients, NEW flag \in BOOLEAN, Capture!StartPipeline(s, flag) PROVE SwitchesTyped'
    BY <2>0, <2>1, StartFiles
  <2>2. ASSUME NEW s \in Clients, Capture!StopPipeline(s), UNCHANGED <<own, refused>> PROVE SwitchesTyped'
    BY <2>0, <2>2 DEF Capture!StopPipeline
  <2>3. ASSUME NEW s \in Clients, Capture!RunOn(s) PROVE SwitchesTyped'
    BY <2>0, <2>3 DEF Capture!RunOn, Capture!OpenIqLog
  <2>4. ASSUME NEW s \in Clients PROVE own[s] \in BOOLEAN BY <2>0
  <2>5. CASE UNCHANGED <<active, own, refused>> BY <2>0, <2>5
  <2> QED
    BY <2>1, <2>2, <2>3, <2>4, <2>5
    DEF Capture!Next, Capture!RunPosted, Capture!Connect, Capture!OnStart, Capture!OnStop, Capture!OnClose,
        Capture!Destroy, Capture!OnBinary, Capture!RunOff, Capture!RunRestart, Capture!Flip, Capture!Push,
        Capture!ReloadKeys, Capture!Tick, Capture!sessionVars, Capture!boundVars
<1>3. posted' \in [Clients -> Seq({"on", "off", "restart"})]
  <2>0. posted \in [Clients -> Seq({"on", "off", "restart"})] BY DEF Capture!TypeOK
  <2>1. ASSUME NEW s \in Clients, NEW e \in {"on", "off", "restart"}, posted' = [posted EXCEPT ![s] = Append(@, e)]
        PROVE  posted' \in [Clients -> Seq({"on", "off", "restart"})]
    BY <2>0, <2>1
  <2>2. ASSUME NEW s \in Clients, posted[s] # << >>, posted' = [posted EXCEPT ![s] = Tail(@)]
        PROVE  posted' \in [Clients -> Seq({"on", "off", "restart"})]
    BY <2>0, <2>2
  <2>3. CASE UNCHANGED posted BY <2>0, <2>3
  <2> QED
    BY <2>1, <2>2, <2>3
    DEF Capture!Next, Capture!RunPosted, Capture!Connect, Capture!OnStart, Capture!OnStop, Capture!OnClose,
        Capture!Destroy, Capture!OnBinary, Capture!RunOn, Capture!RunOff, Capture!RunRestart, Capture!Flip,
        Capture!Push, Capture!ReloadKeys, Capture!Tick, Capture!sessionVars, Capture!boundVars,
        Capture!NextPosted
<1>4. conn' \in [Clients -> {"out", "in", "closing", "gone"}]
  BY SMTT(30) DEF Capture!TypeOK, Capture!Next, Capture!RunPosted, Capture!Connect, Capture!OnStart, Capture!OnStop,
        Capture!OnClose, Capture!Destroy, Capture!OnBinary, Capture!RunOn, Capture!RunOff, Capture!RunRestart,
        Capture!Flip, Capture!Push, Capture!ReloadKeys, Capture!Tick, Capture!sessionVars
<1>5. TogglersTyped'
  <2> USE DEF TogglersTyped
  <2>0. TogglersTyped BY DEF Capture!TypeOK
  <2>1. ASSUME NEW t \in Togglers, NEW on \in BOOLEAN, Capture!Flip(t, on) PROVE TogglersTyped'
    <3>1. [on |-> on, todo |-> Capture!Registered] \in [on : BOOLEAN, todo : SUBSET Clients]
      BY DEF Capture!Registered
    <3> QED BY <2>0, <2>1, <3>1 DEF Capture!Flip
  <2>2. ASSUME NEW t \in Togglers, NEW s \in Clients, Capture!Push(t, s) PROVE TogglersTyped'
    <3>1. toggler[t] \in [on : BOOLEAN, todo : SUBSET Clients] BY <2>0
    <3>2. [toggler[t] EXCEPT !.todo = @ \ {s}] \in [on : BOOLEAN, todo : SUBSET Clients] BY <3>1
    <3>3. toggler' = [toggler EXCEPT ![t] = [toggler[t] EXCEPT !.todo = @ \ {s}]]
      BY <2>2 DEF Capture!Push
    <3>4. iq_logging' = iq_logging BY <2>2 DEF Capture!Push
    <3> HIDE DEF Capture!Push
    <3> QED BY <2>0, <3>2, <3>3, <3>4
  <2>3. CASE UNCHANGED <<iq_logging, toggler>> BY <2>0, <2>3
  <2> QED
    BY <2>1, <2>2, <2>3
    DEF Capture!Next, Capture!RunPosted, Capture!Connect, Capture!OnStart, Capture!OnStop, Capture!OnClose,
        Capture!Destroy, Capture!OnBinary, Capture!RunOn, Capture!RunOff, Capture!RunRestart,
        Capture!ReloadKeys, Capture!Tick
<1>6. {clock, starts, frames, flips}' \subseteq Nat
  BY DEF Capture!TypeOK, Capture!Next, Capture!RunPosted, Capture!Connect, Capture!OnStart, Capture!OnStop,
        Capture!OnClose, Capture!Destroy, Capture!OnBinary, Capture!RunOn, Capture!RunOff, Capture!RunRestart,
        Capture!Flip, Capture!Push, Capture!ReloadKeys, Capture!Tick, Capture!boundVars
<1>7. {active, own, refused}' \subseteq [Clients -> BOOLEAN] BY <1>2 DEF SwitchesTyped
<1> QED BY <1>1, <1>3, <1>4, <1>5, <1>6, <1>7 DEF Capture!TypeOK, FilesInv, TogglersTyped

\* ... and a capture open only while its session's pipeline runs.
LEMMA StepKeepsSessions == CaptureInv /\ Capture!Next => SessionsInv'
<1> SUFFICES ASSUME CaptureInv, Capture!Next PROVE SessionsInv' OBVIOUS
<1> USE DEF CaptureInv, Capture!sessionVars, Capture!boundVars
<1>0. /\ active \in [Clients -> BOOLEAN] /\ conn \in [Clients -> {"out", "in", "closing", "gone"}]
      /\ posted \in [Clients -> Seq({"on", "off", "restart"})]
      /\ iq_log \in [Clients -> Capture!Names \cup {Capture!NoFile}]
      /\ \A t \in Togglers : toggler[t].todo \subseteq Clients
  BY DEF Capture!TypeOK
<1>1. ASSUME NEW s \in Clients, NEW flag \in BOOLEAN, Capture!StartPipeline(s, flag), conn[s] = "in", UNCHANGED conn
      PROVE  /\ \A r \in Clients : active'[r] => conn'[r] = "in"
             /\ \A r \in Clients : iq_log'[r] # Capture!NoFile => active'[r]
  BY <1>0, <1>1, StartFiles DEF SessionsInv, Shut, Anew
<1>2. ASSUME NEW s \in Clients, NEW flag \in BOOLEAN, Capture!OnStart(s, flag) PROVE SessionsInv'
  BY <1>1, <1>2 DEF Capture!OnStart, SessionsInv
<1>3. ASSUME NEW s \in Clients, Capture!RunRestart(s) PROVE SessionsInv'
  <2>1. own[s] \in BOOLEAN BY DEF Capture!TypeOK
  <2>2. CASE active[s] BY <1>0, <1>1, <1>3, <2>1, <2>2 DEF Capture!RunRestart, Capture!NextPosted, SessionsInv
  <2>3. CASE ~active[s] BY <1>0, <1>3, <2>3 DEF Capture!RunRestart, Capture!NextPosted, SessionsInv
  <2> QED BY <2>2, <2>3
<1>4. ASSUME NEW s \in Clients, Capture!OnStop(s) \/ Capture!OnClose(s) PROVE SessionsInv'
  BY <1>0, <1>4, StopShuts, ZenonT(40) DEF Capture!OnStop, Capture!OnClose, Capture!StopPipeline, SessionsInv
<1>5. ASSUME NEW s \in Clients, Capture!RunOn(s) PROVE SessionsInv'
  BY <1>0, <1>5 DEF Capture!RunOn, Capture!NextPosted, Capture!OpenIqLog, SessionsInv
<1>6. ASSUME NEW s \in Clients, Capture!RunOff(s) PROVE SessionsInv'
  BY <1>0, <1>6 DEF Capture!RunOff, Capture!NextPosted, SessionsInv
<1>7. ASSUME NEW s \in Clients,
             Capture!Connect(s) \/ Capture!Destroy(s) \/ Capture!ReloadKeys(s) \/ \E n \in FrameSizes : Capture!OnBinary(s, n)
      PROVE  SessionsInv'
  BY <1>0, <1>7 DEF Capture!Connect, Capture!Destroy, Capture!ReloadKeys, Capture!OnBinary, SessionsInv
<1>8. ASSUME NEW t \in Togglers, NEW s \in Clients, Capture!Push(t, s) PROVE SessionsInv'
  <2>1. /\ UNCHANGED <<active, conn, iq_log>> /\ s \in toggler[t].todo
        /\ \A u \in Togglers : toggler'[u].todo \subseteq toggler[u].todo
        /\ \A r \in Clients \ {s} : posted'[r] = posted[r]
        /\ posted'[s] # << >> => posted[s] # << >> \/ conn[s] # "gone"
    BY <1>0, <1>8 DEF Capture!Push, Capture!TypeOK
  <2> QED BY <1>0, <1>8, <2>1 DEF SessionsInv
<1>9. ASSUME NEW t \in Togglers, NEW on \in BOOLEAN, Capture!Flip(t, on) PROVE SessionsInv'
  <2>1. Capture!Registered \subseteq Clients /\ \A s \in Capture!Registered : conn[s] # "out"
    BY DEF Capture!Registered
  <2>2. \A u \in Togglers : toggler'[u].todo \in {toggler[u].todo, Capture!Registered}
    BY <1>9 DEF Capture!Flip, Capture!TypeOK
  <2> QED BY <1>9, <2>1, <2>2 DEF Capture!Flip, SessionsInv
<1>10. CASE Capture!Tick BY <1>10 DEF Capture!Tick, SessionsInv
<1> QED
  BY <1>2, <1>3, <1>4, <1>5, <1>6, <1>7, <1>8, <1>9, <1>10 DEF Capture!Next, Capture!RunPosted

\* Nothing is connected, open or posted at first.
LEMMA CaptureBegins == Capture!Init => CaptureInv
<1> SUFFICES ASSUME Capture!Init PROVE CaptureInv OBVIOUS
<1> USE DEF Capture!Init
<1>1. SwitchesTyped /\ TogglersTyped BY DEF SwitchesTyped, TogglersTyped
<1>2. {active, own, refused} \subseteq [Clients -> BOOLEAN] BY <1>1 DEF SwitchesTyped
<1>3. DOMAIN files = {} OBVIOUS
<1>4. FilesInv BY <1>3, SamplesAssumption DEF FilesInv
<1>5. SessionsInv BY DEF SessionsInv
<1>6. posted \in [Clients -> Seq({"on", "off", "restart"})] /\ conn \in [Clients -> {"out", "in", "closing", "gone"}]
  OBVIOUS
<1>7. {clock, starts, frames, flips} \subseteq Nat OBVIOUS
<1>8. iq_log \in [Clients -> Capture!Names \cup {Capture!NoFile}] OBVIOUS
<1>9. Capture!TypeOK BY ONLY <1>1, <1>2, <1>3, <1>6, <1>7, <1>8 DEF Capture!TypeOK, TogglersTyped
<1> QED BY <1>4, <1>5, <1>9 DEF CaptureInv

\* A step of the composition is one of the capture's, or leaves it alone.
LEMMA CaptureSteps ==
  [RecordingsNext]_recordingVars => Capture!Next \/ UNCHANGED captureVars
BY DEF RecordingsNext, recordingVars, OfRecorder, OfCapture, OfPlayer

\* The page leaves the captures alone.
LEMMA CaptureStutters == CaptureInv /\ UNCHANGED captureVars => CaptureInv' /\ FilesKept
BY DEF captureVars, CaptureInv, Capture!TypeOK, FilesInv, SessionsInv, FilesKept, Capture!OpenFiles

\* The sessions, their posts and the capture files are consistent throughout.
THEOREM CaptureKeeps == RecordingsSpec => []CaptureInv
<1>1. RecordingsInit => CaptureInv BY CaptureBegins DEF RecordingsInit
<1>2. CaptureInv /\ [RecordingsNext]_recordingVars => CaptureInv'
  BY CaptureSteps, CaptureStutters, StepTypes, StepKeepsFiles, StepKeepsSessions DEF CaptureInv
<1> QED BY <1>1, <1>2, PTL DEF RecordingsSpec

\* What a finished capture holds is exact, and stays.
THEOREM CapturesAreAlwaysSafe == RecordingsSpec => CapturesAreSafe
<1>1. CaptureInv => Capture!TypeOK /\ Capture!CapturesOnlyWhileActive /\ Capture!FinalizedIsExact
  BY NoFileIsNone DEF CaptureInv, SessionsInv, FilesInv, Capture!CapturesOnlyWhileActive, Capture!FinalizedIsExact
<1>2. CaptureInv /\ [RecordingsNext]_recordingVars
        => [\A f \in DOMAIN files \ Capture!OpenFiles : f.t < clock => files'[f] = files[f]]_files
  BY CaptureSteps, CaptureStutters, StepKeepsFiles DEF FilesKept
<1> QED
  BY <1>1, <1>2, CaptureKeeps, PTL DEF RecordingsSpec, CapturesAreSafe, Capture!CapturesAreSafe, Capture!FinalizedIsKept

-----------------------------------------------------------------------------
(* Raw-IQ capture: the switch.  Where flips come one after another, what   *)
(* is posted to a session ends with what the switch says now, unless the   *)
(* flip has still to post to it.                                           *)

\* A flip begins only when the one before has posted to every session.
OneAtATime ==
  \A t \in Togglers, on \in BOOLEAN :
    Capture!Flip(t, on) => \A u \in Togglers : toggler[u].todo = {}

\* What the switch says now, and who has still to be told by the flip under way.
Said == IF iq_logging THEN "on" ELSE "off"

Untold(s) == \E t \in Togglers : s \in toggler[t].todo

\* The last word posted to a session, restarts aside, is what the switch says.
LastSaysIt(s) ==
  ~Untold(s) =>
    \A i \in 1..Len(posted[s]) :
      /\ posted[s][i] # "restart"
      /\ \A j \in 1..Len(posted[s]) : j > i => posted[s][j] = "restart"
      => posted[s][i] = Said

\* The session captures when it should, and only then.
Follows(s) ==
  /\ iq_logging /\ active[s] => iq_log[s] # Capture!NoFile \/ refused[s]
  /\ ~iq_logging /\ iq_log[s] # Capture!NoFile => own[s]

FollowOf(s) == LastSaysIt(s) /\ (Capture!Reached(s) => Follows(s))

FollowInv ==
  /\ \A t, u \in Togglers : toggler[t].todo # {} /\ toggler[u].todo # {} => t = u
  /\ \A t \in Togglers : toggler[t].todo # {} => (toggler[t].on <=> iq_logging)
  /\ \A s \in Clients : FollowOf(s)

\* A session nothing happens to.
Untouched(r) ==
  /\ UNCHANGED iq_logging
  /\ posted'[r] = posted[r] /\ active'[r] = active[r] /\ iq_log'[r] = iq_log[r]
  /\ (refused[r] => refused'[r]) /\ (own[r] => own'[r])
  /\ Untold(r)' <=> Untold(r)

\* A session nothing happened to still follows the switch if it did.
LEMMA UntouchedFollows ==
  ASSUME NEW r \in Clients, FollowOf(r), Untouched(r) PROVE FollowOf(r)'
BY DEF FollowOf, Untouched, LastSaysIt, Follows, Capture!Reached, Untold, Said

\* What a handler at the head leaves behind.
LEMMA TailSaysIt ==
  ASSUME CaptureInv, NEW s \in Clients, LastSaysIt(s), posted[s] # << >>, UNCHANGED iq_logging,
         Untold(s)' <=> Untold(s), posted' = [posted EXCEPT ![s] = Tail(@)]
  PROVE  /\ LastSaysIt(s)'
         /\ Capture!Reached(s)' =>
              IF Head(posted[s]) = "restart" THEN Capture!Reached(s) ELSE Head(posted[s]) = Said
<1> DEFINE q == posted[s]
           w == posted'[s]
<1>1. q \in Seq({"on", "off", "restart"}) /\ w = Tail(q) /\ q # << >> BY DEF CaptureInv, Capture!TypeOK
<1> HIDE DEF q, w
<1>2. /\ Len(q) \in Nat \ {0} /\ Len(w) = Len(q) - 1 /\ Head(q) = q[1]
      /\ \A i \in 1..Len(w) : w[i] = q[i + 1]
  BY ONLY <1>1
<1>3. LastSaysIt(s)'
  <2> SUFFICES ASSUME ~Untold(s), NEW i \in 1..Len(w), w[i] # "restart",
                      \A j \in 1..Len(w) : j > i => w[j] = "restart"
               PROVE  w[i] = Said
    BY DEF LastSaysIt, Said, w
  <2>1. \A k \in 1..Len(q) : k > i + 1 => q[k] = "restart"
    <3> SUFFICES ASSUME NEW k \in 1..Len(q), k > i + 1 PROVE q[k] = "restart" OBVIOUS
    <3>1. k - 1 \in 1..Len(w) /\ k - 1 > i /\ (k - 1) + 1 = k BY <1>2
    <3> QED BY <1>2, <3>1
  <2>2. i + 1 \in 1..Len(q) /\ q[i + 1] # "restart" BY <1>2
  <2> QED BY <1>2, <2>1, <2>2 DEF LastSaysIt, q
<1>4. ASSUME Capture!Reached(s)' PROVE \A k \in 1..Len(q) : k > 1 => q[k] = "restart"
  <2> SUFFICES ASSUME NEW k \in 1..Len(q), k > 1 PROVE q[k] = "restart" OBVIOUS
  <2>1. k - 1 \in 1..Len(w) /\ (k - 1) + 1 = k BY <1>2
  <2>2. w[k - 1] = "restart" BY <1>4, <2>1 DEF Capture!Reached, w
  <2> QED BY <1>2, <2>1, <2>2
<1>5. Capture!Reached(s)' => ~Untold(s) BY DEF Capture!Reached, Untold
<1>6. ASSUME Capture!Reached(s)', Head(q) = "restart" PROVE Capture!Reached(s)
  <2>1. \A k \in 1..Len(q) : q[k] = "restart"
    <3> SUFFICES ASSUME NEW k \in 1..Len(q) PROVE q[k] = "restart" OBVIOUS
    <3>1. k = 1 \/ k > 1 BY <1>2
    <3> QED BY <1>2, <1>4, <1>6, <3>1
  <2>2. ~Untold(s) BY <1>5, <1>6
  <2> QED BY <2>1, <2>2 DEF Capture!Reached, Untold, q
<1>7. ASSUME Capture!Reached(s)', Head(q) # "restart" PROVE Head(q) = Said
  <2>1. 1 \in 1..Len(q) BY <1>2
  <2> QED BY <1>2, <1>4, <1>5, <1>7, <2>1 DEF LastSaysIt, q
<1> QED BY <1>3, <1>6, <1>7 DEF q

\* What is posted at the end.
LEMMA AppendSaysIt ==
  ASSUME CaptureInv, NEW s \in Clients, LastSaysIt(s), UNCHANGED iq_logging, Untold(s)' <=> Untold(s),
         posted' = [posted EXCEPT ![s] = Append(@, "restart")]
  PROVE  LastSaysIt(s)'
<1> DEFINE q == posted[s]
           w == posted'[s]
<1>1. q \in Seq({"on", "off", "restart"}) /\ w = Append(q, "restart") BY DEF CaptureInv, Capture!TypeOK
<1> HIDE DEF q, w
<1>2. /\ Len(q) \in Nat /\ Len(w) = Len(q) + 1 /\ w[Len(q) + 1] = "restart"
      /\ \A i \in 1..Len(q) : w[i] = q[i]
  BY ONLY <1>1
<1> SUFFICES ASSUME ~Untold(s), NEW i \in 1..Len(w), w[i] # "restart",
                    \A j \in 1..Len(w) : j > i => w[j] = "restart"
             PROVE  w[i] = Said
  BY DEF LastSaysIt, Said, w
<1>3. i \in 1..Len(q) /\ q[i] = w[i] BY <1>2
<1>4. \A j \in 1..Len(q) : j > i => q[j] = "restart"
  <2> SUFFICES ASSUME NEW j \in 1..Len(q), j > i PROVE q[j] = "restart" OBVIOUS
  <2>1. j \in 1..Len(w) /\ w[j] = q[j] BY <1>2
  <2> QED BY <2>1
<1> QED BY <1>3, <1>4 DEF LastSaysIt, q

\* A new pipeline captures as the switch and its flag say.
LEMMA StartFollows ==
  ASSUME CaptureInv, NEW s \in Clients, NEW flag \in BOOLEAN, Capture!StartPipeline(s, flag), UNCHANGED iq_logging
  PROVE  /\ Follows(s)'
         /\ \A r \in Clients \ {s} : /\ active'[r] = active[r] /\ iq_log'[r] = iq_log[r]
                                     /\ refused'[r] = refused[r] /\ own'[r] = own[r]
<1>1. /\ active \in [Clients -> BOOLEAN] /\ own \in [Clients -> BOOLEAN] /\ refused \in [Clients -> BOOLEAN]
      /\ iq_log \in [Clients -> Capture!Names \cup {Capture!NoFile}]
  BY DEF CaptureInv, Capture!TypeOK
<1>2. [s |-> s, t |-> clock] # Capture!NoFile BY ClientAssumption DEF Capture!NoFile
<1>3. CASE Shut(s) /\ active' = [active EXCEPT ![s] = FALSE] /\ UNCHANGED <<own, refused>>
  BY <1>1, <1>3 DEF Shut, Follows
<1>4. ASSUME active' = [active EXCEPT ![s] = TRUE], own' = [own EXCEPT ![s] = flag],
             Anew(s), refused' = [refused EXCEPT ![s] = FALSE], flag \/ iq_logging
      PROVE  /\ Follows(s)'
             /\ \A r \in Clients \ {s} : /\ active'[r] = active[r] /\ iq_log'[r] = iq_log[r]
                                         /\ refused'[r] = refused[r] /\ own'[r] = own[r]
  <2>1. own'[s] = flag /\ iq_log'[s] # Capture!NoFile BY <1>1, <1>2, <1>4 DEF Anew
  <2>2. Follows(s)' BY <1>4, <2>1 DEF Follows
  <2> QED BY <1>1, <1>4, <2>2 DEF Anew
<1>5. ASSUME active' = [active EXCEPT ![s] = TRUE], own' = [own EXCEPT ![s] = flag], Shut(s),
             refused' = [refused EXCEPT ![s] = TRUE] \/ (~iq_logging /\ UNCHANGED refused)
      PROVE  /\ Follows(s)'
             /\ \A r \in Clients \ {s} : /\ active'[r] = active[r] /\ iq_log'[r] = iq_log[r]
                                         /\ refused'[r] = refused[r] /\ own'[r] = own[r]
  <2>1. iq_log'[s] = Capture!NoFile /\ (iq_logging => refused'[s]) BY <1>1, <1>5 DEF Shut
  <2>2. Follows(s)' BY <2>1 DEF Follows
  <2> QED BY <1>1, <1>5, <2>2 DEF Shut
<1> QED BY <1>3, <1>4, <1>5, StartFiles

\* So do all when nothing happened to any.
LEMMA StillFollows ==
  FollowInv /\ UNCHANGED <<iq_logging, toggler, active, own, refused, iq_log, posted>> => FollowInv'
BY SMTT(30) DEF FollowInv, FollowOf, LastSaysIt, Follows, Capture!Reached, Untold, Said

\* The step's own session, and the others, follow.
LEMMA OneOfThem ==
  ASSUME FollowInv, NEW s \in Clients, UNCHANGED <<iq_logging, toggler>>, FollowOf(s)',
         \A r \in Clients \ {s} : /\ posted'[r] = posted[r] /\ active'[r] = active[r] /\ iq_log'[r] = iq_log[r]
                                  /\ refused'[r] = refused[r] /\ own'[r] = own[r]
  PROVE  FollowInv'
<1>1. ASSUME NEW r \in Clients \ {s} PROVE Untouched(r) BY DEF Untouched, Untold
<1>2. ASSUME NEW r \in Clients \ {s} PROVE FollowOf(r)' BY <1>1, UntouchedFollows DEF FollowInv
<1> QED BY <1>2 DEF FollowInv

\* Every step keeps a session following the switch, or with a post to come that
\* makes it follow, while no two flips are told at a time.
LEMMA StepFollows ==
  ASSUME OneAtATime, CaptureInv, FollowInv, Capture!Next PROVE FollowInv'
<1> USE DEF Capture!sessionVars, Capture!boundVars
<1>0. /\ active \in [Clients -> BOOLEAN] /\ own \in [Clients -> BOOLEAN] /\ refused \in [Clients -> BOOLEAN]
      /\ iq_log \in [Clients -> Capture!Names \cup {Capture!NoFile}]
      /\ posted \in [Clients -> Seq({"on", "off", "restart"})]
      /\ toggler \in [Togglers -> [on : BOOLEAN, todo : SUBSET Clients]]
      /\ SessionsInv /\ \A s \in Clients : FollowOf(s)
  BY DEF CaptureInv, Capture!TypeOK, FollowInv
<1>1. ASSUME NEW s \in Clients, NEW flag \in BOOLEAN, Capture!OnStart(s, flag) PROVE FollowInv'
  <2>1. Follows(s)' /\ LastSaysIt(s)'
    BY <1>0, <1>1, StartFollows, ZenonT(60) DEF Capture!OnStart, FollowOf, LastSaysIt, Untold, Said
  <2>2. FollowOf(s)' BY <2>1 DEF FollowOf
  <2> QED BY <1>1, <2>2, StartFollows, OneOfThem DEF Capture!OnStart
<1>2. ASSUME NEW s \in Clients, Capture!OnStop(s) \/ Capture!OnClose(s) PROVE FollowInv'
  <2>1. Shut(s) /\ active' = [active EXCEPT ![s] = FALSE] /\ UNCHANGED <<iq_logging, toggler, own, refused, posted>>
    BY <1>2, StopShuts DEF Capture!OnStop, Capture!OnClose, Capture!StopPipeline, Shut
  <2>2. iq_log'[s] = Capture!NoFile /\ ~active'[s] BY <1>0, <2>1 DEF Shut
  <2>3. LastSaysIt(s)' BY <1>0, <2>1 DEF FollowOf, LastSaysIt, Untold, Said
  <2>4. Follows(s)' BY <2>2 DEF Follows
  <2>5. FollowOf(s)' BY <2>3, <2>4 DEF FollowOf
  <2> QED BY <1>0, <2>1, <2>5, OneOfThem DEF Shut
<1>3. ASSUME NEW s \in Clients, Capture!RunOn(s) PROVE FollowInv'
  <2>1. /\ posted[s] # << >> /\ Head(posted[s]) = "on" /\ posted' = [posted EXCEPT ![s] = Tail(@)]
        /\ UNCHANGED <<iq_logging, toggler, active, own>>
    BY <1>3 DEF Capture!RunOn, Capture!NextPosted
  <2>2. LastSaysIt(s)' /\ (Capture!Reached(s)' => iq_logging)
    BY <1>0, <2>1, TailSaysIt DEF FollowOf, Said, Untold
  <2>3. active[s] => iq_log'[s] # Capture!NoFile \/ refused'[s]
    <3>1. [s |-> s, t |-> clock] # Capture!NoFile BY ClientAssumption DEF Capture!NoFile
    <3> QED BY <1>0, <1>3, <3>1 DEF Capture!RunOn, Capture!OpenIqLog
  <2>4. FollowOf(s)' BY <2>1, <2>2, <2>3 DEF FollowOf, Follows
  <2>5. \A r \in Clients \ {s} : posted'[r] = posted[r] /\ iq_log'[r] = iq_log[r] /\ refused'[r] = refused[r]
    BY <1>0, <1>3, <2>1 DEF Capture!RunOn, Capture!OpenIqLog
  <2> QED BY <2>1, <2>4, <2>5, OneOfThem
<1>4. ASSUME NEW s \in Clients, Capture!RunOff(s) PROVE FollowInv'
  <2>1. /\ posted[s] # << >> /\ Head(posted[s]) = "off" /\ posted' = [posted EXCEPT ![s] = Tail(@)]
        /\ UNCHANGED <<iq_logging, toggler, active, own, refused>>
        /\ iq_log' = [iq_log EXCEPT ![s] = Capture!NoFile]
    BY <1>4 DEF Capture!RunOff, Capture!NextPosted
  <2>2. LastSaysIt(s)' /\ (Capture!Reached(s)' => ~iq_logging)
    BY <1>0, <2>1, TailSaysIt DEF FollowOf, Said, Untold
  <2>3. FollowOf(s)' BY <1>0, <2>1, <2>2 DEF FollowOf, Follows
  <2> QED BY <1>0, <2>1, <2>3, OneOfThem
<1>5. ASSUME NEW s \in Clients, Capture!RunRestart(s) PROVE FollowInv'
  <2>1. /\ posted[s] # << >> /\ Head(posted[s]) = "restart" /\ posted' = [posted EXCEPT ![s] = Tail(@)]
        /\ UNCHANGED <<iq_logging, toggler>>
    BY <1>5 DEF Capture!RunRestart, Capture!NextPosted
  <2>2. LastSaysIt(s)' /\ (Capture!Reached(s)' => Capture!Reached(s))
    BY <1>0, <2>1, TailSaysIt DEF FollowOf, Untold
  <2>3. \A r \in Clients \ {s} : posted'[r] = posted[r] BY <1>0, <2>1
  <2>4. CASE active[s]
    <3>1. own[s] \in BOOLEAN /\ Capture!StartPipeline(s, own[s]) BY <1>0, <1>5, <2>4 DEF Capture!RunRestart
    <3>2. FollowOf(s)' BY <2>1, <2>2, <3>1, StartFollows DEF FollowOf
    <3> QED BY <2>1, <2>3, <3>1, <3>2, StartFollows, OneOfThem
  <2>5. CASE ~active[s]
    <3>1. UNCHANGED <<active, own, iq_log, refused>> BY <1>5, <2>5 DEF Capture!RunRestart
    <3>2. FollowOf(s)' BY <1>0, <2>1, <2>2, <3>1 DEF FollowOf, Follows
    <3> QED BY <2>1, <2>3, <3>1, <3>2, OneOfThem
  <2> QED BY <2>4, <2>5
<1>6. ASSUME NEW s \in Clients,
             Capture!Connect(s) \/ Capture!Destroy(s) \/ \E n \in FrameSizes : Capture!OnBinary(s, n)
      PROVE  FollowInv'
  <2>1. UNCHANGED <<iq_logging, toggler, active, own, refused, iq_log, posted>>
    BY <1>6 DEF Capture!Connect, Capture!Destroy, Capture!OnBinary
  <2> QED BY <2>1, StillFollows
<1>7. ASSUME NEW s \in Clients, Capture!ReloadKeys(s) PROVE FollowInv'
  <2>1. /\ posted' = [posted EXCEPT ![s] = Append(@, "restart")]
        /\ UNCHANGED <<iq_logging, toggler, active, own, refused, iq_log>>
    BY <1>7 DEF Capture!ReloadKeys
  <2>2. /\ Len(posted'[s]) = Len(posted[s]) + 1 /\ posted'[s][Len(posted[s]) + 1] = "restart"
        /\ \A i \in 1..Len(posted[s]) : posted'[s][i] = posted[s][i]
        /\ Len(posted[s]) \in Nat
    BY <1>0, <2>1
  <2>3. LastSaysIt(s)' BY <1>0, <2>1, <2>2, AppendSaysIt DEF FollowOf, Untold
  <2>4. Capture!Reached(s)' => Capture!Reached(s) BY <2>1, <2>2 DEF Capture!Reached
  <2>5. FollowOf(s)' BY <1>0, <2>1, <2>3, <2>4 DEF FollowOf, Follows
  <2> QED BY <1>0, <2>1, <2>5, OneOfThem
<1>10. CASE Capture!Tick
  BY <1>10, StillFollows DEF Capture!Tick
<1>8. ASSUME NEW t \in Togglers, NEW on \in BOOLEAN, Capture!Flip(t, on) PROVE FollowInv'
  <2>0. \A u \in Togglers : toggler[u].todo = {} BY <1>8 DEF OneAtATime
  <2>1. /\ toggler'[t].todo = Capture!Registered /\ toggler'[t].on = on
        /\ \A u \in Togglers \ {t} : toggler'[u].todo = {}
        /\ iq_logging' = on /\ UNCHANGED <<active, own, refused, iq_log, posted>>
    BY <1>0, <1>8, <2>0 DEF Capture!Flip
  <2>2. \A u \in Togglers : toggler'[u].todo # {} => (toggler'[u].on <=> iq_logging') BY <2>1
  <2>3. ASSUME NEW s \in Clients PROVE FollowOf(s)'
    <3>1. CASE s \in Capture!Registered
      <4>1. Untold(s)' BY <2>1, <3>1 DEF Untold
      <4>2. LastSaysIt(s)' /\ ~Capture!Reached(s)' BY <4>1 DEF LastSaysIt, Capture!Reached, Untold
      <4> QED BY <4>2 DEF FollowOf
    <3>2. CASE s \notin Capture!Registered
      <4>1. posted[s] = << >> /\ ~active[s] /\ iq_log[s] = Capture!NoFile
        BY <1>0, <3>2 DEF SessionsInv, Capture!Registered
      <4>2. Len(posted'[s]) = 0 /\ Follows(s)' BY <2>1, <4>1 DEF Follows
      <4>3. LastSaysIt(s)' BY <4>2 DEF LastSaysIt
      <4> QED BY <4>2, <4>3 DEF FollowOf
    <3> QED BY <3>1, <3>2
  <2>4. \A u, v \in Togglers : toggler'[u].todo # {} /\ toggler'[v].todo # {} => u = v BY <2>1
  <2> QED BY <2>2, <2>3, <2>4 DEF FollowInv
<1>9. ASSUME NEW t \in Togglers, NEW s \in Clients, Capture!Push(t, s) PROVE FollowInv'
  <2>1. /\ s \in toggler[t].todo /\ toggler'[t].todo = toggler[t].todo \ {s} /\ toggler'[t].on = toggler[t].on
        /\ UNCHANGED <<iq_logging, active, own, refused, iq_log>>
    BY <1>0, <1>9 DEF Capture!Push
  <2>2. \A u \in Togglers : u # t => toggler[u].todo = {} /\ toggler'[u].todo = {}
    BY <1>0, <1>9, <2>1 DEF Capture!Push, FollowInv
  <2>3. toggler[t].on <=> iq_logging BY <2>1 DEF FollowInv
  <2>4. \A u \in Togglers : toggler'[u].todo # {} => (toggler'[u].on <=> iq_logging') BY <2>1, <2>2, <2>3
  <2>5. ASSUME NEW r \in Clients \ {s} PROVE FollowOf(r)'
    <3>1. posted'[r] = posted[r] BY <1>0, <1>9 DEF Capture!Push
    <3>2. Untold(r)' <=> Untold(r) BY <2>1, <2>2 DEF Untold
    <3>3. Untouched(r) BY <2>1, <3>1, <3>2 DEF Untouched
    <3> QED BY <1>0, <3>3, UntouchedFollows
  <2>6. FollowOf(s)'
    <3>1. CASE conn[s] = "gone"
      <4>1. posted'[s] = << >> /\ ~active[s] /\ iq_log[s] = Capture!NoFile
        BY <1>0, <1>9, <3>1 DEF Capture!Push, SessionsInv
      <4>2. Len(posted'[s]) = 0 /\ Follows(s)' BY <2>1, <4>1 DEF Follows
      <4>3. LastSaysIt(s)' BY <4>2 DEF LastSaysIt
      <4> QED BY <4>2, <4>3 DEF FollowOf
    <3>2. CASE conn[s] # "gone"
      <4>1. posted' = [posted EXCEPT ![s] = Append(@, Said)]
        BY <1>9, <2>3, <3>2 DEF Capture!Push, Said
      <4>2. /\ Len(posted[s]) \in Nat /\ Len(posted'[s]) = Len(posted[s]) + 1
            /\ posted'[s][Len(posted[s]) + 1] = Said /\ Said # "restart" /\ Said' = Said
        BY <1>0, <2>1, <4>1 DEF Said
      <4>3. LastSaysIt(s)' BY <4>2 DEF LastSaysIt
      <4>4. ~Capture!Reached(s)' BY <4>2 DEF Capture!Reached
      <4> QED BY <4>3, <4>4 DEF FollowOf
    <3> QED BY <3>1, <3>2
  <2> QED BY <2>2, <2>4, <2>5, <2>6 DEF FollowInv
<1> QED
  BY <1>1, <1>2, <1>3, <1>4, <1>5, <1>6, <1>7, <1>8, <1>9, <1>10 DEF Capture!Next, Capture!RunPosted

\* Where flips come one after another, what each session captures follows the switch.
THEOREM CaptureAlwaysFollows ==
  RecordingsSpec /\ [][OneAtATime]_recordingVars => []CaptureFollowsSwitch
<1> DEFINE Inv == CaptureInv /\ FollowInv
<1>1. RecordingsInit => Inv
  <2> SUFFICES ASSUME RecordingsInit PROVE FollowInv BY CaptureBegins DEF RecordingsInit
  <2>1. \A s \in Clients : Len(posted[s]) = 0 /\ ~active[s] /\ iq_log[s] = Capture!NoFile
    BY DEF RecordingsInit, Capture!Init
  <2>2. \A t \in Togglers : toggler[t].todo = {} BY DEF RecordingsInit, Capture!Init
  <2> QED BY <2>1, <2>2 DEF FollowInv, FollowOf, LastSaysIt, Follows
<1>2. Inv /\ [RecordingsNext]_recordingVars /\ [OneAtATime]_recordingVars => Inv'
  <2>0. UNCHANGED recordingVars => UNCHANGED captureVars BY DEF recordingVars
  <2>1. FollowInv /\ UNCHANGED captureVars => FollowInv'
    BY StillFollows DEF captureVars
  <2> QED
    BY <2>0, <2>1, CaptureSteps, CaptureStutters, StepTypes, StepKeepsFiles, StepKeepsSessions, StepFollows
    DEF CaptureInv
<1>3. Inv => CaptureFollowsSwitch
  BY DEF FollowInv, FollowOf, Follows, CaptureFollowsSwitch, Capture!CaptureFollowsSwitch
<1> QED BY <1>1, <1>2, <1>3, PTL DEF RecordingsSpec

\* With one HTTP thread flipping, they do.
THEOREM CaptureFollowsOneToggler ==
  ASSUME \A t, u \in Togglers : t = u PROVE RecordingsSpec => []CaptureFollowsSwitch
<1>1. OneAtATime BY DEF OneAtATime, Capture!Flip
<1> QED BY <1>1, CaptureAlwaysFollows, PTL

-----------------------------------------------------------------------------
(* The page's player.                                                      *)

\* What an earlier play did not leave behind: the listeners and the timers of this one.
Ours(S) == {l \in S : ~l.old}

PlayerTypes ==
  /\ pl = [name |-> pl.name, call |-> pl.call, live |-> pl.live, loaded |-> pl.loaded,
           waits |-> pl.waits, txLater |-> pl.txLater]
  /\ el = [src |-> el.src, got |-> el.got, st |-> el.st, auto |-> el.auto] /\ el.auto \in BOOLEAN
  /\ crossed \in BOOLEAN
  /\ \A l \in once : l = [name |-> l.name, at |-> l.at, old |-> l.old] /\ l.old \in BOOLEAN
  /\ \A t \in timers : t = [name |-> t.name, old |-> t.old] /\ t.old \in BOOLEAN
  /\ \A l \in once \cup timers : l.name # Player!None

\* The element holds what was loaded last, and a call that plays is that one.
HoldsWhatIsLoaded ==
  /\ pl.call = pl.loaded
  /\ pl.loaded # Player!None => el.src = pl.loaded
  /\ pl.name # Player!None => pl.call = pl.name

\* Stopped, it is silent; playing, exactly one thing carries the play on: the sound,
\* a listener for the file that loads, or a timer until it is loaded again.
OneCarriesOn ==
  /\ pl.name = Player!None => el.st # "playing" /\ ~(el.st = "loading" /\ el.auto)
  /\ pl.name # Player!None =>
       /\ el.st = "playing" \/ (el.st = "loading" /\ el.auto) \/ \E l \in Ours(once) \cup Ours(timers) : l.name = pl.name
       /\ \A l \in Ours(once) : el.st = "loading" /\ ~el.auto /\ l.name = pl.name
       /\ \A k, l \in Ours(once) : k = l
       /\ \A t \in Ours(timers) : el.st = "paused" /\ t.name = pl.name

PlayerInv == PlayerTypes /\ HoldsWhatIsLoaded /\ (~crossed => OneCarriesOn)

\* Nothing plays at first.
LEMMA PlayerBegins == Player!Init => PlayerInv
<1> SUFFICES ASSUME Player!Init PROVE PlayerInv OBVIOUS
<1>1. /\ pl.name = Player!None /\ pl.call = Player!None /\ pl.loaded = Player!None
      /\ pl = [name |-> pl.name, call |-> pl.call, live |-> pl.live, loaded |-> pl.loaded,
               waits |-> pl.waits, txLater |-> pl.txLater]
  BY DEF Player!Init
<1>2. /\ el.st = "empty" /\ el.auto = FALSE
      /\ el = [src |-> el.src, got |-> el.got, st |-> el.st, auto |-> el.auto]
  BY DEF Player!Init
<1>3. once = {} /\ timers = {} /\ crossed = FALSE BY DEF Player!Init
<1> QED BY <1>1, <1>2, <1>3 DEF PlayerInv, PlayerTypes, HoldsWhatIsLoaded, OneCarriesOn, Ours

\* followLive and playDone, by whatever carried the play on: it does no longer.
LEMMA FollowOrDoneKeeps ==
  ASSUME PlayerInv, Player!FollowOrDone,
         timers' \subseteq timers, crossed' \in BOOLEAN,
         ~crossed' => ~crossed /\ pl.name # Player!None /\ el.st \in {"playing", "paused"} /\ Ours(once) = {} /\ Ours(timers') = {}
  PROVE  PlayerInv'
<1>2. CASE pl.name # Player!None /\ Player!Follow
  <2>0. /\ pl.call = pl.name /\ pl.loaded = pl.name /\ el.src = pl.name
    BY <1>2 DEF PlayerInv, HoldsWhatIsLoaded
  <2> DEFINE l == [name |-> pl.name, at |-> el.got, old |-> FALSE]
  <2>1. /\ pl' = [pl EXCEPT !.waits = @ + 1]
        /\ el' = [el EXCEPT !.src = pl.call, !.st = "loading", !.auto = FALSE]
        /\ once' = once \cup {l}
    BY <1>2 DEF Player!Follow
  <2>2. /\ pl'.name = pl.name /\ pl'.call = pl.call /\ pl'.loaded = pl.loaded
        /\ pl' = [name |-> pl'.name, call |-> pl'.call, live |-> pl'.live, loaded |-> pl'.loaded,
                  waits |-> pl'.waits, txLater |-> pl'.txLater]
    BY <2>1 DEF PlayerInv, PlayerTypes
  <2>3. /\ el'.src = pl.name /\ el'.st = "loading" /\ el'.auto = FALSE
        /\ el' = [src |-> el'.src, got |-> el'.got, st |-> el'.st, auto |-> el'.auto]
    BY <2>0, <2>1 DEF PlayerInv, PlayerTypes
  <2>4. PlayerTypes'
    <3>1. l = [name |-> l.name, at |-> l.at, old |-> l.old] /\ l.old \in BOOLEAN /\ l.name # Player!None
      BY <1>2
    <3> HIDE DEF l
    <3>2. \A k \in once' : /\ k = [name |-> k.name, at |-> k.at, old |-> k.old] /\ k.old \in BOOLEAN
                           /\ k.name # Player!None
      BY <2>1, <3>1 DEF PlayerInv, PlayerTypes
    <3> QED BY <2>2, <2>3, <3>2 DEF PlayerInv, PlayerTypes
  <2>5. HoldsWhatIsLoaded' BY <2>0, <2>2, <2>3 DEF HoldsWhatIsLoaded
  <2>6. ASSUME ~crossed' PROVE OneCarriesOn'
    <3>1. Ours(once') = {l} /\ Ours(timers') = {} BY <2>1, <2>6 DEF Ours
    <3>2. l.name = pl.name OBVIOUS
    <3> QED BY <2>2, <2>3, <3>1, <3>2 DEF OneCarriesOn
  <2> QED BY <2>4, <2>5, <2>6 DEF PlayerInv
<1>3. CASE /\ pl' = Player!Done(pl) /\ UNCHANGED once
           /\ el' = [el EXCEPT !.st = IF @ = "playing" THEN "ended" ELSE @]
  <2>1. /\ pl'.name = Player!None /\ pl'.call = pl.call /\ pl'.loaded = pl.loaded
        /\ pl' = [name |-> pl'.name, call |-> pl'.call, live |-> pl'.live, loaded |-> pl'.loaded,
                  waits |-> pl'.waits, txLater |-> pl'.txLater]
    BY <1>3 DEF Player!Done, PlayerInv, PlayerTypes
  <2>2. /\ el'.src = el.src /\ el'.st = (IF el.st = "playing" THEN "ended" ELSE el.st) /\ el'.auto = el.auto
        /\ el' = [src |-> el'.src, got |-> el'.got, st |-> el'.st, auto |-> el'.auto]
    BY <1>3 DEF PlayerInv, PlayerTypes
  <2>3. PlayerTypes' BY <1>3, <2>1, <2>2 DEF PlayerInv, PlayerTypes
  <2>4. HoldsWhatIsLoaded' BY <2>1, <2>2 DEF PlayerInv, HoldsWhatIsLoaded
  <2>5. ~crossed' => OneCarriesOn' BY <2>1, <2>2 DEF OneCarriesOn
  <2> QED BY <2>3, <2>4, <2>5 DEF PlayerInv
<1> QED BY <1>2, <1>3 DEF Player!FollowOrDone, Player!More

\* To make a listener, or a timer, old.
LEMMA OldListener ==
  ASSUME NEW l, NEW n, NEW a, NEW o, l = [name |-> n, at |-> a, old |-> o], NEW k, k = [l EXCEPT !.old = TRUE]
  PROVE  k = [name |-> n, at |-> a, old |-> TRUE]
OBVIOUS

\* ... or a timer.
LEMMA OldTimer ==
  ASSUME NEW t, NEW n, NEW o, t = [name |-> n, old |-> o], NEW k, k = [t EXCEPT !.old = TRUE]
  PROVE  k = [name |-> n, old |-> TRUE]
OBVIOUS

\* What the user plays, stops or closes: what was left behind by then is old.
LEMMA AgedIsNotOurs ==
  ASSUME PlayerTypes, once' = Player!Aged(once), timers' = Player!Aged(timers)
  PROVE  /\ Ours(once') = {} /\ Ours(timers') = {}
         /\ \A l \in once' : l = [name |-> l.name, at |-> l.at, old |-> l.old] /\ l.old \in BOOLEAN
         /\ \A t \in timers' : t = [name |-> t.name, old |-> t.old] /\ t.old \in BOOLEAN
         /\ \A l \in once' \cup timers' : l.name # Player!None
<1>1. \A l \in once' : \E k \in once : l = [k EXCEPT !.old = TRUE] BY DEF Player!Aged
<1>2. \A t \in timers' : \E k \in timers : t = [k EXCEPT !.old = TRUE] BY DEF Player!Aged
<1>3. \A l \in once' : \E k \in once : l = [name |-> k.name, at |-> k.at, old |-> TRUE]
  BY <1>1, OldListener DEF PlayerTypes
<1>4. \A t \in timers' : \E k \in timers : t = [name |-> k.name, old |-> TRUE]
  BY <1>2, OldTimer DEF PlayerTypes
<1>5. \A l \in once' : /\ l = [name |-> l.name, at |-> l.at, old |-> l.old] /\ l.old = TRUE
                       /\ l.name # Player!None
  BY <1>3 DEF PlayerTypes
<1>6. \A t \in timers' : t = [name |-> t.name, old |-> t.old] /\ t.old = TRUE /\ t.name # Player!None
  BY <1>4 DEF PlayerTypes
<1> QED BY <1>5, <1>6 DEF Ours

\* A paused element keeps what it has loaded.
LEMMA SilentIsSilent ==
  ASSUME PlayerTypes, el' = Player!Silent
  PROVE  /\ el'.src = el.src /\ el'.st # "playing" /\ el'.auto = FALSE
         /\ el' = [src |-> el'.src, got |-> el'.got, st |-> el'.st, auto |-> el'.auto]
BY DEF PlayerTypes, Player!Silent

\* The play button.
LEMMA PlayKeeps ==
  ASSUME PlayerInv, NEW r, r # Player!None, NEW live, Player!Play(r, live)
  PROVE  PlayerInv'
<1>1. once' = Player!Aged(once) /\ timers' = Player!Aged(timers) /\ crossed' = crossed
  BY DEF Player!Play, Player!Act
<1>2. /\ Ours(once') = {} /\ Ours(timers') = {}
      /\ \A l \in once' : l = [name |-> l.name, at |-> l.at, old |-> l.old] /\ l.old \in BOOLEAN
      /\ \A t \in timers' : t = [name |-> t.name, old |-> t.old] /\ t.old \in BOOLEAN
      /\ \A l \in once' \cup timers' : l.name # Player!None
  BY <1>1, AgedIsNotOurs DEF PlayerInv
<1>3. CASE pl.name = r
  <2>1. pl' = [pl EXCEPT !.name = Player!None] /\ el' = Player!Silent BY <1>3 DEF Player!Play
  <2>2. /\ pl'.name = Player!None /\ pl'.call = pl.call /\ pl'.loaded = pl.loaded
        /\ pl' = [name |-> pl'.name, call |-> pl'.call, live |-> pl'.live, loaded |-> pl'.loaded,
                  waits |-> pl'.waits, txLater |-> pl'.txLater]
    BY <2>1 DEF PlayerInv, PlayerTypes
  <2>3. /\ el'.src = el.src /\ el'.st # "playing" /\ el'.auto = FALSE
        /\ el' = [src |-> el'.src, got |-> el'.got, st |-> el'.st, auto |-> el'.auto]
    BY <2>1, SilentIsSilent DEF PlayerInv
  <2> QED BY <1>1, <1>2, <2>2, <2>3 DEF PlayerInv, PlayerTypes, HoldsWhatIsLoaded, OneCarriesOn
<1>4. CASE pl.name # r /\ pl.loaded = r /\ pl' = [pl EXCEPT !.name = r, !.call = r, !.live = live]
           /\ el' = [el EXCEPT !.st = "playing"]
  <2>1. /\ pl'.name = r /\ pl'.call = r /\ pl'.loaded = r
        /\ pl' = [name |-> pl'.name, call |-> pl'.call, live |-> pl'.live, loaded |-> pl'.loaded,
                  waits |-> pl'.waits, txLater |-> pl'.txLater]
    BY <1>4 DEF PlayerInv, PlayerTypes
  <2>2. /\ el'.src = r /\ el'.st = "playing" /\ el'.auto \in BOOLEAN
        /\ el' = [src |-> el'.src, got |-> el'.got, st |-> el'.st, auto |-> el'.auto]
    BY <1>4 DEF PlayerInv, PlayerTypes, HoldsWhatIsLoaded
  <2> QED BY <1>1, <1>2, <2>1, <2>2 DEF PlayerInv, PlayerTypes, HoldsWhatIsLoaded, OneCarriesOn
<1>5. CASE /\ pl' = [name |-> r, call |-> r, live |-> live, loaded |-> r, waits |-> 0, txLater |-> asr.on /\ live]
           /\ el' = [src |-> r, got |-> 0, st |-> "loading", auto |-> TRUE]
  <2>1. /\ pl'.name = r /\ pl'.call = r /\ pl'.loaded = r
        /\ pl' = [name |-> pl'.name, call |-> pl'.call, live |-> pl'.live, loaded |-> pl'.loaded,
                  waits |-> pl'.waits, txLater |-> pl'.txLater]
    BY <1>5
  <2>2. /\ el'.src = r /\ el'.st = "loading" /\ el'.auto = TRUE
        /\ el' = [src |-> el'.src, got |-> el'.got, st |-> el'.st, auto |-> el'.auto]
    BY <1>5
  <2> QED BY <1>1, <1>2, <2>1, <2>2 DEF PlayerInv, PlayerTypes, HoldsWhatIsLoaded, OneCarriesOn
<1> QED BY <1>3, <1>4, <1>5 DEF Player!Play

\* The player's close button.
LEMMA CloseKeepsSilent ==
  ASSUME PlayerInv, Player!CloseNp PROVE PlayerInv'
<1>1. /\ once' = Player!Aged(once) /\ timers' = Player!Aged(timers) /\ crossed' = crossed
      /\ el' = IF pl.name # Player!None THEN Player!Silent ELSE el
      /\ pl' = [pl EXCEPT !.name = Player!None, !.call = Player!None, !.loaded = Player!None]
  BY DEF Player!CloseNp, Player!Act
<1>2. /\ Ours(once') = {} /\ Ours(timers') = {}
      /\ \A l \in once' : l = [name |-> l.name, at |-> l.at, old |-> l.old] /\ l.old \in BOOLEAN
      /\ \A t \in timers' : t = [name |-> t.name, old |-> t.old] /\ t.old \in BOOLEAN
      /\ \A l \in once' \cup timers' : l.name # Player!None
  BY <1>1, AgedIsNotOurs DEF PlayerInv
<1>3. /\ pl'.name = Player!None /\ pl'.call = Player!None /\ pl'.loaded = Player!None
      /\ pl' = [name |-> pl'.name, call |-> pl'.call, live |-> pl'.live, loaded |-> pl'.loaded,
                waits |-> pl'.waits, txLater |-> pl'.txLater]
  BY <1>1 DEF PlayerInv, PlayerTypes
<1>4. /\ ~crossed' => el'.st # "playing" /\ ~(el'.st = "loading" /\ el'.auto)
      /\ el' = [src |-> el'.src, got |-> el'.got, st |-> el'.st, auto |-> el'.auto] /\ el'.auto \in BOOLEAN
  <2>1. CASE pl.name # Player!None
    <3>1. el' = Player!Silent BY <1>1, <2>1
    <3> QED BY <3>1, SilentIsSilent DEF PlayerInv
  <2>2. CASE pl.name = Player!None BY <1>1, <2>2 DEF PlayerInv, PlayerTypes, OneCarriesOn
  <2> QED BY <2>1, <2>2
<1> QED BY <1>1, <1>2, <1>3, <1>4 DEF PlayerInv, PlayerTypes, HoldsWhatIsLoaded, OneCarriesOn

\* The element knows its length: the sound goes on, or the page waits again.
LEMMA MetadataKeeps ==
  ASSUME PlayerInv, Player!LoadedMetadata PROVE PlayerInv'
<1> DEFINE got == disk[el.src].len
           mine == {l \in once : l.name = pl.name}
           go == \E l \in mine : got > l.at
           later == {[name |-> l.name, old |-> l.old] : l \in {x \in mine : ~(got > x.at)}}
<1>1. /\ el.st = "loading" /\ once' = {} /\ timers' = timers \cup later
      /\ el' = [el EXCEPT !.got = got, !.st = IF el.auto \/ go THEN "playing" ELSE "paused"]
      /\ pl' = (IF go THEN [pl EXCEPT !.waits = 0] ELSE pl)
      /\ crossed' = (crossed \/ \E l \in mine : l.old)
  BY DEF Player!LoadedMetadata
<1>2. /\ pl'.name = pl.name /\ pl'.call = pl.call /\ pl'.loaded = pl.loaded
      /\ pl' = [name |-> pl'.name, call |-> pl'.call, live |-> pl'.live, loaded |-> pl'.loaded,
                waits |-> pl'.waits, txLater |-> pl'.txLater]
  BY <1>1 DEF PlayerInv, PlayerTypes
<1>3. /\ el'.src = el.src /\ el'.st = (IF el.auto \/ go THEN "playing" ELSE "paused") /\ el'.auto = el.auto
      /\ el' = [src |-> el'.src, got |-> el'.got, st |-> el'.st, auto |-> el'.auto]
  BY <1>1 DEF PlayerInv, PlayerTypes
<1>4. \A t \in later : \E l \in mine : t.name = l.name /\ t.old = l.old /\ t = [name |-> t.name, old |-> t.old] /\ ~(got > l.at)
  OBVIOUS
<1>5. PlayerTypes'
  <2>1. \A t \in timers' : t = [name |-> t.name, old |-> t.old] /\ t.old \in BOOLEAN /\ t.name # Player!None
    BY <1>1, <1>4 DEF PlayerInv, PlayerTypes
  <2> QED BY <1>1, <1>2, <1>3, <2>1 DEF PlayerInv, PlayerTypes
<1>6. HoldsWhatIsLoaded' BY <1>2, <1>3 DEF PlayerInv, HoldsWhatIsLoaded
<1>7. ASSUME ~crossed' PROVE OneCarriesOn'
  <2>1. OneCarriesOn /\ mine \subseteq Ours(once) BY <1>1, <1>7 DEF PlayerInv, PlayerTypes, Ours
  <2>2. CASE pl.name = Player!None
    <3>1. mine = {} BY <2>2 DEF PlayerInv, PlayerTypes
    <3>2. el'.st = "paused" BY <1>1, <1>3, <2>1, <2>2, <3>1 DEF OneCarriesOn
    <3> QED BY <1>2, <2>2, <3>2 DEF OneCarriesOn
  <2>3. CASE pl.name # Player!None
    <3>1. Ours(timers) = {} BY <1>1, <2>1, <2>3 DEF OneCarriesOn
    <3>2. Ours(once') = {} BY <1>1 DEF Ours
    <3>3. Ours(timers') \subseteq later BY <1>1, <3>1 DEF Ours
    <3>4. CASE mine = {}
      <4>1. Ours(once) = {} BY <2>1, <2>3, <3>4 DEF OneCarriesOn, Ours
      <4>2. el.auto BY <1>1, <2>1, <2>3, <3>1, <4>1 DEF OneCarriesOn
      <4>3. el'.st = "playing" /\ later = {} BY <1>3, <1>4, <3>4, <4>2
      <4> QED BY <1>2, <2>3, <3>2, <3>3, <4>3 DEF OneCarriesOn
    <3>5. CASE mine # {}
      <4>1. PICK l \in mine : TRUE BY <3>5
      <4>2. l \in Ours(once) /\ mine = {l} BY <2>1, <2>3, <4>1 DEF OneCarriesOn
      <4>3. ~el.auto /\ l.name = pl.name /\ ~l.old BY <2>1, <2>3, <4>2 DEF OneCarriesOn, Ours
      <4>4. CASE got > l.at
        <5>1. el'.st = "playing" BY <1>3, <4>1, <4>4
        <5>2. later = {} BY <1>4, <4>2, <4>4
        <5> QED BY <1>2, <2>3, <3>2, <3>3, <5>1, <5>2 DEF OneCarriesOn
      <4>5. CASE ~(got > l.at)
        <5>1. el'.st = "paused" BY <1>3, <4>2, <4>3, <4>5
        <5>2. \A t \in Ours(timers') : t.name = pl.name BY <1>4, <3>3
        <5>3. [name |-> l.name, old |-> l.old] \in timers' BY <1>1, <4>1, <4>5
        <5>4. \E t \in Ours(timers') : t.name = pl.name BY <4>3, <5>3 DEF Ours
        <5> QED BY <1>2, <2>3, <3>2, <5>1, <5>2, <5>4 DEF OneCarriesOn
      <4> QED BY <4>4, <4>5
    <3> QED BY <3>4, <3>5
  <2> QED BY <2>2, <2>3
<1> QED BY <1>5, <1>6, <1>7 DEF PlayerInv

\* Every event keeps one thing, and only one, to carry the play on.
LEMMA PlayerSteps == ASSUME PlayerInv, Player!Next PROVE PlayerInv'
<1>1. ASSUME UNCHANGED <<pl, el, once, timers, crossed>> PROVE PlayerInv'
  BY <1>1 DEF PlayerInv, PlayerTypes, HoldsWhatIsLoaded, OneCarriesOn, Ours
<1>2. CASE Player!Ended
  <2>1. el.st = "playing" /\ Player!FollowOrDone /\ timers' = timers /\ crossed' = crossed
    BY <1>2 DEF Player!Ended
  <2>2. crossed' \in BOOLEAN BY <2>1 DEF PlayerInv, PlayerTypes
  <2>3. ASSUME ~crossed' PROVE ~crossed /\ pl.name # Player!None /\ el.st \in {"playing", "paused"}
                               /\ Ours(once) = {} /\ Ours(timers') = {}
    <3>1. OneCarriesOn /\ pl.name # Player!None BY <2>1, <2>3 DEF PlayerInv, OneCarriesOn
    <3> QED BY <2>1, <2>3, <3>1 DEF OneCarriesOn
  <2> QED BY <2>1, <2>2, <2>3, FollowOrDoneKeeps
<1>3. CASE Player!LoadedMetadata BY <1>3, MetadataKeeps
<1>4. ASSUME NEW t \in timers, Player!Timer(t) PROVE PlayerInv'
  <2>1. timers' = timers \ {t} /\ crossed' = (crossed \/ (t.old /\ pl.name = t.name)) BY <1>4 DEF Player!Timer
  <2>2. CASE pl.name = t.name
    <3>1. Player!FollowOrDone BY <1>4, <2>2 DEF Player!Timer
    <3>2. pl.name # Player!None BY <2>2 DEF PlayerInv, PlayerTypes
    <3>3. ASSUME ~crossed' PROVE ~crossed /\ pl.name # Player!None /\ el.st \in {"playing", "paused"}
                                 /\ Ours(once) = {} /\ Ours(timers') = {}
      <4>1. ~crossed /\ ~t.old /\ OneCarriesOn BY <2>1, <2>2, <3>3 DEF PlayerInv
      <4>2. t \in Ours(timers) BY <4>1 DEF Ours
      <4>3. el.st = "paused" BY <3>2, <4>1, <4>2 DEF OneCarriesOn
      <4>4. Ours(once) = {} BY <3>2, <4>1, <4>3 DEF OneCarriesOn
      <4>5. \A u \in Ours(timers) : u = t
        <5>1. \A u \in Ours(timers) : u.name = t.name /\ u.old = FALSE /\ t.old = FALSE
          BY <2>2, <3>2, <4>1 DEF OneCarriesOn, Ours, PlayerInv, PlayerTypes
        <5> QED BY <5>1 DEF Ours, PlayerInv, PlayerTypes
      <4>6. Ours(timers') = {} BY <2>1, <4>5 DEF Ours
      <4> QED BY <3>2, <4>1, <4>3, <4>4, <4>6
    <3>4. crossed' \in BOOLEAN BY <2>1
    <3> QED BY <2>1, <3>1, <3>2, <3>3, <3>4, FollowOrDoneKeeps
  <2>3. CASE pl.name # t.name
    <3>1. UNCHANGED <<pl, el, once>> /\ crossed' = crossed BY <1>4, <2>1, <2>3 DEF Player!Timer, PlayerInv, PlayerTypes
    <3>2. Ours(timers') \subseteq Ours(timers) /\ \A u \in Ours(timers) : u.name = pl.name => u \in Ours(timers')
      BY <2>1, <2>3 DEF Ours
    <3>3. Ours(once') = Ours(once) BY <3>1 DEF Ours
    <3> QED BY <2>1, <3>1, <3>2, <3>3 DEF PlayerInv, PlayerTypes, HoldsWhatIsLoaded, OneCarriesOn
  <2> QED BY <2>2, <2>3
<1>5. CASE Player!MediaError
  <2>1. /\ el.st = "loading" /\ UNCHANGED <<once, timers, crossed>>
        /\ el' = [el EXCEPT !.st = "error"] /\ pl' = [pl EXCEPT !.name = Player!None]
    BY <1>5 DEF Player!MediaError
  <2>2. /\ pl'.name = Player!None /\ pl'.call = pl.call /\ pl'.loaded = pl.loaded
        /\ pl' = [name |-> pl'.name, call |-> pl'.call, live |-> pl'.live, loaded |-> pl'.loaded,
                  waits |-> pl'.waits, txLater |-> pl'.txLater]
    BY <2>1 DEF PlayerInv, PlayerTypes
  <2>3. /\ el'.src = el.src /\ el'.st = "error" /\ el'.auto = el.auto
        /\ el' = [src |-> el'.src, got |-> el'.got, st |-> el'.st, auto |-> el'.auto]
    BY <2>1 DEF PlayerInv, PlayerTypes
  <2> QED BY <2>1, <2>2, <2>3 DEF PlayerInv, PlayerTypes, HoldsWhatIsLoaded, OneCarriesOn
<1>6. ASSUME NEW r \in Recordings, Player!PlayRow(r) PROVE PlayerInv'
  <2>1. r # Player!None BY RecordingAssumption DEF Player!None
  <2> QED BY <1>6, <2>1, PlayKeeps DEF Player!PlayRow
<1>7. CASE Player!PlayAgain BY <1>7, PlayKeeps DEF Player!PlayAgain
<1>8. CASE Player!CloseNp BY <1>8, CloseKeepsSilent
<1>9. CASE \/ Player!Called \/ Player!Config \/ Player!ConfigFails \/ Player!Ready \/ Player!Fails \/ Player!Poll
           \/ (\E j \in fetches : Player!Fetched(j) \/ Player!FetchFails(j)) \/ (\E r \in runs : Player!RunEnds(r))
           \/ (\E r \in Recordings : Player!Grow(r) \/ Player!CallEnds(r))
  <2>1. UNCHANGED Player!player
    BY <1>9 DEF Player!Called, Player!Config, Player!ConfigFails, Player!Ready, Player!Fails, Player!Poll, Player!Fetched,
      Player!FetchFails, Player!RunEnds, Player!Grow, Player!CallEnds
  <2> QED BY <1>1, <2>1 DEF Player!player
<1>10. CASE Player!SwitchAsr \/ (\E m_ \in Models : Player!ChooseModel(m_)) \/ Player!FromTheNet
  BY <1>1, <1>10 DEF Player!SwitchAsr, Player!ChooseModel, Player!FromTheNet, Player!Act
<1> QED BY <1>2, <1>3, <1>4, <1>5, <1>6, <1>7, <1>8, <1>9, <1>10 DEF Player!Next, Player!Unhurried

\* What sounds is what the buttons say, unless what an earlier play left behind went on
\* with this one.
THEOREM SoundIsAlwaysTheButtons == RecordingsSpec => []SoundIsTheButtons
<1>1. RecordingsInit => PlayerInv BY PlayerBegins DEF RecordingsInit
<1>2. PlayerInv /\ [RecordingsNext]_recordingVars => PlayerInv'
  <2>1. PlayerInv /\ UNCHANGED playerVars => PlayerInv'
    BY DEF PlayerInv, PlayerTypes, HoldsWhatIsLoaded, OneCarriesOn, Ours, playerVars
  <2>2. UNCHANGED recordingVars => UNCHANGED playerVars BY DEF recordingVars
  <2> QED BY <2>1, <2>2, PlayerSteps DEF RecordingsNext, OfRecorder, OfCapture, OfPlayer
<1>3. PlayerInv => SoundIsTheButtons
  BY DEF PlayerInv, OneCarriesOn, HoldsWhatIsLoaded, Ours, SoundIsTheButtons, Player!SoundIsTheButtons
<1> QED BY <1>1, <1>2, <1>3, PTL DEF RecordingsSpec

-----------------------------------------------------------------------------
(* Its transcripts.                                                        *)

\* What the page knows of its worker: a job it shows is the worker's, on the worker's
\* model, and only a worker that is up is ready.
AsrSound(a) ==
  /\ a = [on |-> a.on, cfg |-> a.cfg, src |-> a.src, model |-> a.model, w |-> a.w, wModel |-> a.wModel,
          state |-> a.state, job |-> a.job, next |-> a.next, seq |-> a.seq, then |-> a.then]
  /\ a.job # Player!NoJob =>
       /\ a.job = [id |-> a.job.id, name |-> a.job.name, live |-> a.job.live, model |-> a.job.model, phase |-> a.job.phase]
       /\ a.job.model = a.wModel /\ a.w = "up"
  /\ a.state = "ready" => a.w = "up"

\* What the worker runs is that job, and a text is of its own recording, by its model.
SpeechInv ==
  /\ AsrSound(asr)
  /\ \A j \in fetches : j.phase = "fetch"
  /\ \A r \in runs : asr.job.id = r.id /\ asr.job.name = r.name /\ asr.job.phase = "run" /\ runs = {r}
  /\ tx = [r \in Recordings |-> tx[r]]
  /\ \A r \in Recordings : tx[r] # Player!NoText => tx[r].of = r /\ tx[r].by = tx[r].model

\* The page makes a worker for the model it asks for.
LEMMA NewWorkerIsSound ==
  ASSUME NEW a, AsrSound(a), a.job = Player!NoJob
  PROVE  /\ AsrSound(Player!NewWorker(a)) /\ Player!NewWorker(a).job = Player!NoJob
         /\ Player!NewWorker(a).state = "loading"
<1> DEFINE b == Player!NewWorker(a)
<1>1. b = [a EXCEPT !.w = "loading", !.wModel = a.model, !.state = "loading"] BY DEF Player!NewWorker
<1>2. b = [on |-> a.on, cfg |-> a.cfg, src |-> a.src, model |-> a.model, w |-> "loading", wModel |-> a.model,
           state |-> "loading", job |-> a.job, next |-> a.next, seq |-> a.seq, then |-> a.then]
  BY <1>1, ZenonT(40) DEF AsrSound
<1> HIDE DEF b
<1>3. AsrSound(b) /\ b.job = Player!NoJob /\ b.state = "loading" BY <1>2 DEF AsrSound
<1> QED BY <1>3 DEF b

\* asrPump: a job under way stays as it is.
LEMMA PumpIsSound ==
  ASSUME NEW a, AsrSound(a)
  PROVE  /\ AsrSound(Player!Pump(a))
         /\ a.job # Player!NoJob => Player!Pump(a) = a
         /\ Player!Pump(a).job \in {a.job} \/ Player!Pump(a).job.phase = "fetch"
<1> DEFINE b == IF Player!Fresh(a) THEN Player!NewWorker(a) ELSE a
           j == [id |-> b.next.id, name |-> b.next.name, live |-> b.next.live, model |-> b.wModel, phase |-> "fetch"]
<1>1. CASE a.job # Player!NoJob \/ a.next = Player!NoReq \/ a.cfg # "got"
  <2>1. Player!Pump(a) = a BY <1>1 DEF Player!Pump
  <2> QED BY <2>1
<1>2. CASE ~(a.job # Player!NoJob \/ a.next = Player!NoReq \/ a.cfg # "got") /\ ~a.src
  <2> DEFINE c == [a EXCEPT !.state = "nosrc"]
  <2>1. Player!Pump(a) = c BY <1>2 DEF Player!Pump
  <2>2. c = [on |-> a.on, cfg |-> a.cfg, src |-> a.src, model |-> a.model, w |-> a.w, wModel |-> a.wModel,
             state |-> "nosrc", job |-> a.job, next |-> a.next, seq |-> a.seq, then |-> a.then]
    BY DEF AsrSound
  <2> HIDE DEF c
  <2>3. AsrSound(c) /\ c.job = a.job BY <1>2, <2>2 DEF AsrSound
  <2> QED BY <1>2, <2>1, <2>3
<1>3. CASE ~(a.job # Player!NoJob \/ a.next = Player!NoReq \/ a.cfg # "got") /\ a.src
  <2>1. AsrSound(b) /\ b.job = Player!NoJob BY <1>3, NewWorkerIsSound
  <2>2. Player!Pump(a) = IF b.state # "ready" THEN b ELSE [b EXCEPT !.next = Player!NoReq, !.job = j]
    BY <1>3 DEF Player!Pump
  <2> HIDE DEF b
  <2>3. CASE b.state # "ready" BY <1>3, <2>1, <2>2, <2>3
  <2>4. CASE b.state = "ready"
    <3> HIDE DEF j
    <3> PICK c : c = [b EXCEPT !.next = Player!NoReq, !.job = j] OBVIOUS
    <3>1. Player!Pump(a) = c BY <2>2, <2>4
    <3>2. c = [on |-> b.on, cfg |-> b.cfg, src |-> b.src, model |-> b.model, w |-> b.w, wModel |-> b.wModel,
               state |-> b.state, job |-> j, next |-> Player!NoReq, seq |-> b.seq, then |-> b.then]
      BY <2>1 DEF AsrSound
    <3>3. j = [id |-> j.id, name |-> j.name, live |-> j.live, model |-> j.model, phase |-> j.phase]
          /\ j.model = b.wModel /\ j.phase = "fetch"
      BY DEF j
    <3>4. b.w = "up" BY <2>1, <2>4 DEF AsrSound
    <3>5. AsrSound(c) /\ c.job = j BY <2>4, <3>2, <3>3, <3>4 DEF AsrSound
    <3> QED BY <1>3, <3>1, <3>3, <3>5
  <2> QED BY <2>3, <2>4
<1> QED BY <1>1, <1>2, <1>3

\* What becomes of ASR when nothing but its requests and choices change.
Continues(a, b) ==
  /\ AsrSound(b)
  /\ a.job # Player!NoJob => b.job = a.job /\ b.w = a.w
  /\ b.job \in {a.job} \/ b.job.phase = "fetch"

\* The queue is looked at (pump).
LEMMA PumpContinues ==
  ASSUME NEW a, AsrSound(a) PROVE Continues(a, Player!Pump(a))
BY PumpIsSound DEF Continues

\* ... after something that left the job alone.
LEMMA ContinuesOn ==
  ASSUME NEW a, NEW b, NEW c, b.job = a.job, b.w = a.w, Continues(b, c) PROVE Continues(a, c)
BY DEF Continues

\* A transcript is asked for.
LEMMA AskedContinues ==
  ASSUME NEW a, AsrSound(a), NEW r PROVE Continues(a, Player!Asked(a, r))
<1> DEFINE b == IF a.next.name = r /\ tx[r].model = a.model /\ ~tx[r].partial THEN [a EXCEPT !.next = Player!NoReq] ELSE a
<1>1. Player!Asked(a, r) = Player!Pump(b) BY DEF Player!Asked
<1>2. AsrSound(b) /\ b.job = a.job /\ b.w = a.w
  <2> DEFINE c == [a EXCEPT !.next = Player!NoReq]
  <2>1. c = [on |-> a.on, cfg |-> a.cfg, src |-> a.src, model |-> a.model, w |-> a.w, wModel |-> a.wModel,
             state |-> a.state, job |-> a.job, next |-> Player!NoReq, seq |-> a.seq, then |-> a.then]
    BY DEF AsrSound
  <2>2. b \in {a, c} OBVIOUS
  <2> HIDE DEF b, c
  <2>3. AsrSound(c) /\ c.job = a.job /\ c.w = a.w BY <2>1 DEF AsrSound
  <2> QED BY <2>2, <2>3
<1> HIDE DEF b
<1> QED BY <1>1, <1>2, PumpContinues, ContinuesOn

\* transcribe.
LEMMA TranscribeContinues ==
  ASSUME NEW a, AsrSound(a), NEW r, NEW live PROVE Continues(a, Player!Transcribe(a, r, live))
<1> DEFINE q == [id |-> a.seq + 1, name |-> r, live |-> live]
<1> PICK b : b = [a EXCEPT !.next = q, !.seq = @ + 1] OBVIOUS
<1>1. Player!Transcribe(a, r, live) =
        IF b.cfg = "got" THEN Player!Asked(b, r) ELSE [b EXCEPT !.cfg = "asked", !.then = Append(@, r)]
  BY DEF Player!Transcribe
<1> HIDE DEF q
<1>2. b = [on |-> a.on, cfg |-> a.cfg, src |-> a.src, model |-> a.model, w |-> a.w, wModel |-> a.wModel,
           state |-> a.state, job |-> a.job, next |-> q, seq |-> a.seq + 1, then |-> a.then]
  BY DEF AsrSound
<1>3. AsrSound(b) /\ b.job = a.job /\ b.w = a.w BY <1>2 DEF AsrSound
<1>4. CASE b.cfg = "got" BY <1>1, <1>3, <1>4, AskedContinues, ContinuesOn
<1>5. CASE b.cfg # "got"
  <2> PICK c : c = [b EXCEPT !.cfg = "asked", !.then = Append(@, r)] OBVIOUS
  <2>1. c = [on |-> b.on, cfg |-> "asked", src |-> b.src, model |-> b.model, w |-> b.w, wModel |-> b.wModel,
             state |-> b.state, job |-> b.job, next |-> b.next, seq |-> b.seq, then |-> Append(b.then, r)]
    BY <1>3, ZenonT(40) DEF AsrSound
  <2>2. Player!Transcribe(a, r, live) = c BY <1>1, <1>5
  <2>3. AsrSound(c) /\ c.job = a.job /\ c.w = a.w BY <1>3, <2>1, ZenonT(40) DEF AsrSound
  <2> QED BY <2>2, <2>3 DEF Continues
<1> QED BY <1>4, <1>5

\* A new job has its audio fetched, and with a worker go its runs.
LEMMA AsrKeeps ==
  ASSUME SpeechInv, NEW a, Player!Asr(a), Continues(asr, a), tx' = tx PROVE SpeechInv'
<1>1. /\ asr' = a /\ fetches' \subseteq fetches \cup {a.job} /\ runs' \subseteq runs
      /\ fetches' # fetches => a.job.phase = "fetch"
  BY DEF Player!Asr
<1>2. AsrSound(asr)' BY <1>1 DEF Continues, AsrSound
<1>3. \A j \in fetches' : j.phase = "fetch" BY <1>1 DEF SpeechInv
<1>4. runs # {} => asr.job # Player!NoJob BY DEF SpeechInv, Player!NoJob
<1>5. \A r \in runs' : asr'.job.id = r.id /\ asr'.job.name = r.name /\ asr'.job.phase = "run" /\ runs' = {r}
  BY <1>1, <1>4 DEF SpeechInv, Continues
<1> QED BY <1>2, <1>3, <1>5 DEF SpeechInv

\* No transcript is asked for at first.
LEMMA SpeechBegins == Player!Init => SpeechInv
<1> SUFFICES ASSUME Player!Init PROVE SpeechInv OBVIOUS
<1>1. PICK src \in BOOLEAN :
        asr = [on |-> TRUE, cfg |-> "asked", src |-> src, model |-> CHOOSE m_ \in Models : TRUE, w |-> "none",
               wModel |-> Player!None, state |-> "off", job |-> Player!NoJob, next |-> Player!NoReq, seq |-> 0, then |-> << >>]
  BY DEF Player!Init
<1>2. AsrSound(asr) BY <1>1 DEF AsrSound
<1>3. fetches = {} /\ runs = {} /\ tx = [r \in Recordings |-> Player!NoText] BY DEF Player!Init
<1> QED BY <1>2, <1>3 DEF SpeechInv

\* The player's "Again": what is shown is transcribed by the choice made.
LEMMA AgainContinues ==
  ASSUME NEW a, AsrSound(a), NEW live PROVE Continues(a, Player!AgainAsr(a, live))
BY TranscribeContinues DEF Player!AgainAsr, Continues

\* Nothing changed.
LEMMA StaysAsItIs == ASSUME SpeechInv PROVE Continues(asr, asr)
BY DEF SpeechInv, Continues

\* The server's answer, and those who waited for it.
LEMMA ConfigKeeps ==
  ASSUME SpeechInv, Player!Config \/ Player!ConfigFails \/ Player!Called PROVE SpeechInv'
<1>0. AsrSound(asr) BY DEF SpeechInv
<1>1. CASE Player!Config
  <2> PICK a : a = [asr EXCEPT !.cfg = "got"] OBVIOUS
  <2>1. Player!Asr(a) /\ tx' = tx BY <1>1 DEF Player!Config
  <2>2. a = [on |-> asr.on, cfg |-> "got", src |-> asr.src, model |-> asr.model, w |-> asr.w, wModel |-> asr.wModel,
             state |-> asr.state, job |-> asr.job, next |-> asr.next, seq |-> asr.seq, then |-> asr.then]
    BY <1>0 DEF AsrSound
  <2>3. Continues(asr, a) BY <1>0, <2>2 DEF AsrSound, Continues
  <2> QED BY <2>1, <2>3, AsrKeeps
<1>2. CASE Player!ConfigFails
  <2> PICK n, st : /\ asr' = [asr EXCEPT !.cfg = "none", !.then = << >>, !.next = n, !.state = st]
                   /\ st \in {asr.state, "error"}
    BY <1>2 DEF Player!ConfigFails
  <2>1. UNCHANGED <<fetches, runs, tx>> BY <1>2 DEF Player!ConfigFails
  <2>2. asr' = [on |-> asr.on, cfg |-> "none", src |-> asr.src, model |-> asr.model, w |-> asr.w, wModel |-> asr.wModel,
                state |-> st, job |-> asr.job, next |-> n, seq |-> asr.seq, then |-> << >>]
    BY <1>0 DEF AsrSound
  <2>3. AsrSound(asr)' /\ asr'.job = asr.job BY <1>0, <2>2 DEF AsrSound
  <2> QED BY <2>1, <2>3 DEF SpeechInv
<1>3. CASE Player!Called
  <2> PICK a : a = [asr EXCEPT !.then = Tail(@)] OBVIOUS
  <2>1. Player!Asr(Player!Asked(a, Head(asr.then))) /\ tx' = tx BY <1>3 DEF Player!Called
  <2>2. a = [on |-> asr.on, cfg |-> asr.cfg, src |-> asr.src, model |-> asr.model, w |-> asr.w, wModel |-> asr.wModel,
             state |-> asr.state, job |-> asr.job, next |-> asr.next, seq |-> asr.seq, then |-> Tail(asr.then)]
    BY <1>0 DEF AsrSound
  <2>3. AsrSound(a) /\ a.job = asr.job /\ a.w = asr.w BY <1>0, <2>2 DEF AsrSound
  <2> QED BY <2>1, <2>3, AskedContinues, ContinuesOn, AsrKeeps
<1> QED BY <1>1, <1>2, <1>3

\* The worker is there, or is no longer.
LEMMA WorkerKeeps ==
  ASSUME SpeechInv, Player!Ready \/ Player!Fails PROVE SpeechInv'
<1>0. AsrSound(asr) BY DEF SpeechInv
<1>1. CASE Player!Ready
  <2> PICK a : a = [asr EXCEPT !.w = "up", !.state = "ready"] OBVIOUS
  <2>1. Player!Asr(Player!Pump(a)) /\ tx' = tx /\ asr.w = "loading" BY <1>1 DEF Player!Ready
  <2>2. a = [on |-> asr.on, cfg |-> asr.cfg, src |-> asr.src, model |-> asr.model, w |-> "up", wModel |-> asr.wModel,
             state |-> "ready", job |-> asr.job, next |-> asr.next, seq |-> asr.seq, then |-> asr.then]
    BY <1>0 DEF AsrSound
  <2>3. asr.job = Player!NoJob BY <1>0, <2>1 DEF AsrSound
  <2>4. AsrSound(a) /\ a.job = asr.job BY <1>0, <2>2, <2>3 DEF AsrSound
  <2>5. Continues(asr, Player!Pump(a)) BY <2>3, <2>4, PumpIsSound DEF Continues
  <2> QED BY <2>1, <2>5, AsrKeeps
<1>2. CASE Player!Fails
  <2> PICK a : a = [asr EXCEPT !.w = "none", !.wModel = Player!None, !.state = "error", !.job = Player!NoJob,
                               !.next = Player!NoReq]
    OBVIOUS
  <2>1. Player!Asr(a) /\ tx' = tx /\ asr.w # "none" BY <1>2 DEF Player!Fails
  <2>2. a = [on |-> asr.on, cfg |-> asr.cfg, src |-> asr.src, model |-> asr.model, w |-> "none", wModel |-> Player!None,
             state |-> "error", job |-> Player!NoJob, next |-> Player!NoReq, seq |-> asr.seq, then |-> asr.then]
    BY <1>0 DEF AsrSound
  <2>3. AsrSound(a) /\ a.job = Player!NoJob /\ a.w = "none" BY <2>2 DEF AsrSound
  <2>4. asr' = a /\ fetches' = fetches /\ runs' = {} BY <2>1, <2>3 DEF Player!Asr
  <2>5. AsrSound(asr)' BY <2>3, <2>4 DEF AsrSound
  <2> QED BY <2>1, <2>4, <2>5 DEF SpeechInv
<1> QED BY <1>1, <1>2

\* A job's audio arrives, and is the worker's if it is still wanted.
LEMMA FetchKeeps ==
  ASSUME SpeechInv, NEW j \in fetches, Player!Fetched(j) \/ Player!FetchFails(j) PROVE SpeechInv'
<1>0. AsrSound(asr) /\ j.phase = "fetch" /\ tx' = tx BY DEF SpeechInv, Player!Fetched, Player!FetchFails
<1>1. asr.job = j => runs = {} /\ asr.job # Player!NoJob BY <1>0 DEF SpeechInv, Player!NoJob
<1>2. CASE Player!Fetched(j)
  <2>1. CASE asr.job = j /\ asr.w # "none"
    <3> PICK k : k = [asr.job EXCEPT !.phase = "run"] OBVIOUS
    <3>1. /\ asr' = [asr EXCEPT !.job = k] /\ fetches' = fetches \ {j}
          /\ runs' = runs \cup {[id |-> j.id, name |-> j.name, whole |-> disk[j.name].over]}
      BY <1>2, <2>1 DEF Player!Fetched
    <3>2. k = [id |-> j.id, name |-> j.name, live |-> j.live, model |-> j.model, phase |-> "run"]
      BY <1>0, <1>1, <2>1 DEF AsrSound
    <3>3. asr' = [on |-> asr.on, cfg |-> asr.cfg, src |-> asr.src, model |-> asr.model, w |-> asr.w, wModel |-> asr.wModel,
                  state |-> asr.state, job |-> k, next |-> asr.next, seq |-> asr.seq, then |-> asr.then]
      BY <1>0, <3>1 DEF AsrSound
    <3>4. k.model = asr.wModel /\ asr.w = "up" BY <1>0, <1>1, <2>1, <3>2 DEF AsrSound
    <3>5. k = [id |-> k.id, name |-> k.name, live |-> k.live, model |-> k.model, phase |-> k.phase] BY <3>2
    <3>6. AsrSound(asr)' BY <1>0, <3>3, <3>4, <3>5 DEF AsrSound
    <3>7. runs' = {[id |-> j.id, name |-> j.name, whole |-> disk[j.name].over]} BY <1>1, <2>1, <3>1
    <3>8. asr'.job = k /\ k.id = j.id /\ k.name = j.name /\ k.phase = "run" BY <3>2, <3>3
    <3>9. \A r \in runs' : asr'.job.id = r.id /\ asr'.job.name = r.name /\ asr'.job.phase = "run" /\ runs' = {r}
      BY <3>7, <3>8
    <3> QED BY <1>0, <3>1, <3>6, <3>9 DEF SpeechInv
  <2>2. CASE ~(asr.job = j /\ asr.w # "none")
    <3>1. UNCHANGED <<asr, runs, tx>> /\ fetches' = fetches \ {j} BY <1>2, <2>2 DEF Player!Fetched
    <3> QED BY <3>1 DEF SpeechInv, AsrSound
  <2> QED BY <2>1, <2>2
<1>3. CASE Player!FetchFails(j)
  <2> PICK a : a = IF asr.job = j THEN Player!Pump([asr EXCEPT !.job = Player!NoJob]) ELSE asr OBVIOUS
  <2>1. /\ asr' = a
        /\ fetches' = (fetches \ {j}) \cup (IF a.job \in {asr.job, Player!NoJob} THEN {} ELSE {a.job})
        /\ runs' = IF a.w = "loading" THEN {} ELSE runs
    BY <1>3 DEF Player!FetchFails
  <2>2. CASE asr.job = j
    <3> PICK b : b = [asr EXCEPT !.job = Player!NoJob] OBVIOUS
    <3>1. b = [on |-> asr.on, cfg |-> asr.cfg, src |-> asr.src, model |-> asr.model, w |-> asr.w, wModel |-> asr.wModel,
               state |-> asr.state, job |-> Player!NoJob, next |-> asr.next, seq |-> asr.seq, then |-> asr.then]
      BY <1>0 DEF AsrSound
    <3>2. AsrSound(b) /\ b.job = Player!NoJob BY <1>0, <3>1 DEF AsrSound
    <3>3. AsrSound(a) /\ (a.job = Player!NoJob \/ a.job.phase = "fetch") BY <2>2, <3>2, PumpIsSound
    <3>4. AsrSound(asr)' BY <2>1, <3>3 DEF AsrSound
    <3>5. runs' = {} BY <1>1, <2>1, <2>2
    <3>6. \A f \in fetches' : f.phase = "fetch" BY <2>1, <3>3 DEF SpeechInv
    <3> QED BY <1>0, <3>4, <3>5, <3>6 DEF SpeechInv
  <2>3. CASE asr.job # j
    <3>1. asr' = asr /\ fetches' = fetches \ {j} BY <2>1, <2>3
    <3>2. runs' = runs \/ runs' = {} BY <2>1
    <3> QED BY <1>0, <3>1, <3>2 DEF SpeechInv, AsrSound
  <2> QED BY <2>2, <2>3
<1> QED BY <1>2, <1>3

\* A run ends.
LEMMA RunKeeps ==
  ASSUME SpeechInv, NEW r \in runs, Player!RunEnds(r) PROVE SpeechInv'
<1>0. AsrSound(asr) BY DEF SpeechInv
<1>1. asr.job.id = r.id /\ asr.job.name = r.name /\ asr.job.phase = "run" /\ runs = {r} BY DEF SpeechInv
<1>2. asr.job # Player!NoJob BY <1>1 DEF Player!NoJob
<1>3. asr.job.model = asr.wModel BY <1>0, <1>2 DEF AsrSound
<1> PICK b : b = [asr EXCEPT !.job = Player!NoJob] OBVIOUS
<1> PICK a : a = Player!Pump(b) OBVIOUS
<1>4. /\ asr' = a
      /\ fetches' = IF a.job \in {asr.job, Player!NoJob} THEN fetches ELSE fetches \cup {a.job}
      /\ runs' = IF a.w = "loading" THEN {} ELSE runs \ {r}
  BY <1>1 DEF Player!RunEnds
<1>5. b = [on |-> asr.on, cfg |-> asr.cfg, src |-> asr.src, model |-> asr.model, w |-> asr.w, wModel |-> asr.wModel,
           state |-> asr.state, job |-> Player!NoJob, next |-> asr.next, seq |-> asr.seq, then |-> asr.then]
  BY <1>0 DEF AsrSound
<1>6. AsrSound(b) /\ b.job = Player!NoJob BY <1>0, <1>5 DEF AsrSound
<1>7. AsrSound(a) /\ (a.job = Player!NoJob \/ a.job.phase = "fetch") BY <1>6, PumpIsSound
<1>8. AsrSound(asr)' BY <1>4, <1>7 DEF AsrSound
<1>9. runs' = {} BY <1>1, <1>4
<1>10. \A f \in fetches' : f.phase = "fetch" BY <1>4, <1>7 DEF SpeechInv
<1>11. /\ tx' = [q \in Recordings |-> tx'[q]]
       /\ \A q \in Recordings : tx'[q] # Player!NoText => tx'[q].of = q /\ tx'[q].by = tx'[q].model
  <2>1. CASE tx' = tx BY <2>1 DEF SpeechInv
  <2>2. CASE tx' = Player!Text(r)
    <3> PICK t : t = [model |-> asr.job.model, partial |-> asr.job.live, by |-> asr.wModel, of |-> r.name, whole |-> r.whole]
      OBVIOUS
    <3>1. tx' = [tx EXCEPT ![r.name] = t] BY <1>1, <2>2 DEF Player!Text
    <3>2. t.of = r.name /\ t.by = t.model BY <1>3
    <3> QED BY <3>1, <3>2 DEF SpeechInv
  <2> QED BY <2>1, <2>2 DEF Player!RunEnds
<1> QED BY <1>8, <1>9, <1>10, <1>11 DEF SpeechInv

\* Every event of the page, the worker and the server keeps the job and its worker
\* together, on the model the job is for.
LEMMA SpeechSteps == ASSUME SpeechInv, Player!Next PROVE SpeechInv'
<1>0. AsrSound(asr) BY DEF SpeechInv
<1>1. ASSUME UNCHANGED Player!speech PROVE SpeechInv'
  BY <1>1 DEF SpeechInv, AsrSound, Player!speech
<1>2. CASE Player!Called \/ Player!Config \/ Player!ConfigFails BY <1>2, ConfigKeeps
<1>3. CASE Player!Ready \/ Player!Fails BY <1>3, WorkerKeeps
<1>4. CASE \E j \in fetches : Player!Fetched(j) \/ Player!FetchFails(j) BY <1>4, FetchKeeps
<1>5. CASE \E r \in runs : Player!RunEnds(r) BY <1>5, RunKeeps
<1>6. ASSUME Player!FollowOrDone PROVE SpeechInv'
  <2>1. \A live : Continues(asr, Player!DoneAsr(pl, live))
    BY <1>0, TranscribeContinues, StaysAsItIs DEF Player!DoneAsr
  <2>2. PICK a : Player!Quiet(a) /\ Continues(asr, a)
    BY <1>6, <2>1, StaysAsItIs DEF Player!FollowOrDone
  <2> QED BY <2>2, AsrKeeps DEF Player!Quiet
<1>7. CASE Player!Ended \/ Player!LoadedMetadata \/ (\E t \in timers : Player!Timer(t)) \/ Player!MediaError
  BY <1>1, <1>6, <1>7 DEF Player!Ended, Player!LoadedMetadata, Player!Timer, Player!MediaError, Player!speech
<1>8. ASSUME NEW r, NEW live, Player!Play(r, live) PROVE SpeechInv'
  <2>1. Continues(asr, IF asr.on /\ ~live THEN Player!Transcribe(asr, r, FALSE) ELSE asr)
    BY <1>0, TranscribeContinues, StaysAsItIs
  <2>2. PICK a : Player!Asr(a) /\ Continues(asr, a) BY <1>8, <2>1, StaysAsItIs DEF Player!Play
  <2>3. tx' = tx BY <1>8 DEF Player!Play, Player!Act
  <2> QED BY <2>2, <2>3, AsrKeeps
<1>9. CASE (\E r \in Recordings : Player!PlayRow(r)) \/ Player!PlayAgain
  BY <1>8, <1>9 DEF Player!PlayRow, Player!PlayAgain
<1>10. CASE Player!CloseNp
  <2>1. Player!Asr(asr) /\ tx' = tx BY <1>10 DEF Player!CloseNp, Player!Act
  <2> QED BY <2>1, StaysAsItIs, AsrKeeps
<1>11. CASE Player!SwitchAsr
  <2> PICK a : a = [asr EXCEPT !.on = ~@] OBVIOUS
  <2>1. tx' = tx /\ \E live : Player!Asr(Player!AgainAsr(a, live)) BY <1>11 DEF Player!SwitchAsr, Player!Act
  <2>2. a = [on |-> a.on, cfg |-> asr.cfg, src |-> asr.src, model |-> asr.model, w |-> asr.w, wModel |-> asr.wModel,
             state |-> asr.state, job |-> asr.job, next |-> asr.next, seq |-> asr.seq, then |-> asr.then]
    BY <1>0 DEF AsrSound
  <2>3. AsrSound(a) /\ a.job = asr.job /\ a.w = asr.w BY <1>0, <2>2 DEF AsrSound
  <2> QED BY <2>1, <2>3, AgainContinues, ContinuesOn, AsrKeeps
<1>12. ASSUME NEW m_ \in Models, Player!ChooseModel(m_) PROVE SpeechInv'
  <2> PICK a : a = [asr EXCEPT !.model = m_] OBVIOUS
  <2>1. tx' = tx /\ \E live : Player!Asr(Player!AgainAsr(a, live)) BY <1>12 DEF Player!ChooseModel, Player!Act
  <2>2. a = [on |-> asr.on, cfg |-> asr.cfg, src |-> asr.src, model |-> m_, w |-> asr.w, wModel |-> asr.wModel,
             state |-> asr.state, job |-> asr.job, next |-> asr.next, seq |-> asr.seq, then |-> asr.then]
    BY <1>0 DEF AsrSound
  <2>3. AsrSound(a) /\ a.job = asr.job /\ a.w = asr.w BY <1>0, <2>2 DEF AsrSound
  <2> QED BY <2>1, <2>3, AgainContinues, ContinuesOn, AsrKeeps
<1>13. CASE Player!FromTheNet
  <2> PICK a : a = [asr EXCEPT !.src = TRUE, !.state = "off"] OBVIOUS
  <2>1. tx' = tx /\ Player!Asr(Player!Pump(a)) BY <1>13 DEF Player!FromTheNet, Player!Act
  <2>2. a = [on |-> asr.on, cfg |-> asr.cfg, src |-> TRUE, model |-> asr.model, w |-> asr.w, wModel |-> asr.wModel,
             state |-> "off", job |-> asr.job, next |-> asr.next, seq |-> asr.seq, then |-> asr.then]
    BY <1>0 DEF AsrSound
  <2>3. AsrSound(a) /\ a.job = asr.job /\ a.w = asr.w BY <1>0, <2>2 DEF AsrSound
  <2> QED BY <2>1, <2>3, PumpContinues, ContinuesOn, AsrKeeps
<1>14. CASE (\E r \in Recordings : Player!Grow(r) \/ Player!CallEnds(r)) \/ Player!Poll
  BY <1>1, <1>14 DEF Player!Grow, Player!CallEnds, Player!Poll
<1> QED BY <1>2, <1>3, <1>4, <1>5, <1>7, <1>9, <1>10, <1>11, <1>12, <1>13, <1>14
    DEF Player!Next, Player!Unhurried

\* A transcript is of its own call's audio, by the model it names, and the worker runs
\* the job the page shows.
THEOREM AnswersAreAlwaysTheirOwn == RecordingsSpec => []AnswersAreTheirOwn
<1>1. RecordingsInit => SpeechInv BY SpeechBegins DEF RecordingsInit
<1>2. SpeechInv /\ [RecordingsNext]_recordingVars => SpeechInv'
  <2>1. SpeechInv /\ UNCHANGED playerVars => SpeechInv' BY DEF SpeechInv, AsrSound, playerVars
  <2>2. UNCHANGED recordingVars => UNCHANGED playerVars BY DEF recordingVars
  <2> QED BY <2>1, <2>2, SpeechSteps DEF RecordingsNext, OfRecorder, OfCapture, OfPlayer
<1>3. SpeechInv => AnswersAreTheirOwn
  BY DEF SpeechInv, AnswersAreTheirOwn, Player!AnswersAreTheirOwn
<1> QED BY <1>1, <1>2, <1>3, PTL DEF RecordingsSpec
=============================================================================
