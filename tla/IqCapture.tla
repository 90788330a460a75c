----------------------------- MODULE IqCapture -----------------------------
(***************************************************************************)
(* Raw-IQ capture: every session's iq_log_ (session.cpp), the BLUE files   *)
(* it writes (blue_writer.hpp), and the process-wide "Log IQ" switch that  *)
(* HTTP threads flip (ServerStats::set_iq_logging).                        *)
(*                                                                         *)
(* A session's own handlers run one at a time on its strand, so each is    *)
(* one step; a flip of the switch is one step under mu_ and then one       *)
(* off-lock step per session it posts to.                                  *)
(***************************************************************************)
EXTENDS Integers, Sequences, FiniteSets

CONSTANTS
  Sessions,      \* WebSocket clients
  Togglers,      \* HTTP threads serving /iq_log/on and /iq_log/off
  MaxSamples,    \* the size cap of a file, in complex samples
  FrameSizes,    \* sizes of a binary frame, in samples
  MaxSeconds,    \* bound: the clock
  MaxStarts,     \* bound: start messages in a behaviour
  MaxFrames,     \* bound: binary frames in a behaviour
  MaxFlips,      \* bound: flips of the switch
  MaxPosted      \* bound: handlers waiting on one strand

NoFile == [s |-> "none", t |-> 0]

\* A file is named by the second it was opened in and the session's id (and by
\* the stream's protocol and rate, which a restart does not change).
Names == [s : Sessions, t : 0..MaxSeconds]

VARIABLES
  iq_logging,   \* iq_logging_
  toggler,      \* what each HTTP thread still has to post, and to whom
  conn,         \* "out", "in", "closing" (read loop ended), "gone" (destroyed)
  active,       \* pipeline_active_
  own,          \* last_start_.iq_log: the running start asked for a capture
  iq_log,       \* the open capture of a session, or NoFile
  refused,      \* the last attempt to open a capture failed
  posted,       \* handlers waiting on a session's strand
  files,        \* the files on disk
  clock, starts, frames, flips

sessionVars == <<conn, active, own, iq_log, refused, files>>
boundVars == <<clock, starts, frames, flips>>
vars == <<iq_logging, toggler, sessionVars, posted, boundVars>>

\* bytes: samples in the file; data_size: what its header says; fed: samples
\* received since it was opened.
File == [bytes : 0..MaxSamples, data_size : 0..MaxSamples, fed : Nat]

TypeOK ==
  /\ iq_logging \in BOOLEAN
  /\ toggler \in [Togglers -> [on : BOOLEAN, todo : SUBSET Sessions]]
  /\ conn \in [Sessions -> {"out", "in", "closing", "gone"}]
  /\ {active, own, refused} \subseteq [Sessions -> BOOLEAN]
  /\ iq_log \in [Sessions -> Names \cup {NoFile}]
  /\ posted \in [Sessions -> Seq({"on", "off", "restart"})]
  /\ DOMAIN files \subseteq Names
  /\ \A f \in DOMAIN files : files[f] \in File
  /\ {clock, starts, frames, flips} \subseteq Nat

Init ==
  /\ iq_logging = FALSE
  /\ toggler = [t \in Togglers |-> [on |-> FALSE, todo |-> {}]]
  /\ conn = [s \in Sessions |-> "out"]
  /\ active = [s \in Sessions |-> FALSE]
  /\ own = active /\ refused = active
  /\ iq_log = [s \in Sessions |-> NoFile]
  /\ posted = [s \in Sessions |-> << >>]
  /\ files = << >>
  /\ clock = 0 /\ starts = 0 /\ frames = 0 /\ flips = 0

-----------------------------------------------------------------------------
(* BlueFileWriter.                                                         *)

\* open(): the file is truncated, its data_size a placeholder.
Opened(fs, f) ==
  [g \in DOMAIN fs \cup {f} |-> IF g = f THEN [bytes |-> 0, data_size |-> 0, fed |-> 0] ELSE fs[g]]

\* close(): data_size is patched.
Closed(fs, f) == IF f = NoFile THEN fs ELSE [fs EXCEPT ![f].data_size = fs[f].bytes]

\* Fault: a block that does not fit is dropped whole.
WrittenWhole(fs, f, n) ==
  [fs EXCEPT ![f].bytes = IF @ + n > MaxSamples THEN @ ELSE @ + n,
             ![f].fed = @ + n]

\* write(): at the cap, only the samples that still fit.
Written(fs, f, n) ==
  [fs EXCEPT ![f].bytes = IF @ + n > MaxSamples THEN MaxSamples ELSE @ + n,
             ![f].fed = @ + n]

-----------------------------------------------------------------------------
(* A session's handlers on its strand.                                     *)

\* on_accept: the controls are registered.
Connect(s) ==
  /\ conn[s] = "out"
  /\ conn' = [conn EXCEPT ![s] = "in"]
  /\ UNCHANGED <<iq_logging, toggler, active, own, iq_log, refused, files,
                 posted, boundVars>>

\* open_iq_log on the files fs: unless a capture is open, open one; the disk may
\* refuse.
OpenIqLog(s, fs, open) ==
  IF open # NoFile THEN iq_log' = [iq_log EXCEPT ![s] = open] /\ files' = fs /\ UNCHANGED refused
  ELSE LET f == [s |-> s, t |-> clock] IN
       \/ /\ iq_log' = [iq_log EXCEPT ![s] = f]
          /\ files' = Opened(fs, f)
          /\ refused' = [refused EXCEPT ![s] = FALSE]
       \/ /\ iq_log' = [iq_log EXCEPT ![s] = NoFile]
          /\ files' = fs
          /\ refused' = [refused EXCEPT ![s] = TRUE]

\* The capture once stop_pipeline has run: closed if a pipeline was up.
StoppedFiles(s) == IF active[s] THEN Closed(files, iq_log[s]) ELSE files
StoppedLog(s) == IF active[s] THEN NoFile ELSE iq_log[s]

\* Fault: a new pipeline looks at its own flag only.
StartIgnoringSwitch(s, flag) ==
  \/ /\ active' = [active EXCEPT ![s] = FALSE]
     /\ iq_log' = [iq_log EXCEPT ![s] = StoppedLog(s)] /\ files' = StoppedFiles(s)
     /\ UNCHANGED <<own, refused>>
  \/ /\ active' = [active EXCEPT ![s] = TRUE]
     /\ own' = [own EXCEPT ![s] = flag]
     /\ IF flag
        THEN OpenIqLog(s, StoppedFiles(s), StoppedLog(s))
        ELSE /\ iq_log' = [iq_log EXCEPT ![s] = StoppedLog(s)]
             /\ files' = StoppedFiles(s) /\ UNCHANGED refused

\* start_pipeline: stop, then the decoder starts or not; a capture is opened for
\* the client's flag or for the switch.
StartPipeline(s, flag) ==
  \/ /\ active' = [active EXCEPT ![s] = FALSE]
     /\ iq_log' = [iq_log EXCEPT ![s] = StoppedLog(s)] /\ files' = StoppedFiles(s)
     /\ UNCHANGED <<own, refused>>
  \/ /\ active' = [active EXCEPT ![s] = TRUE]
     /\ own' = [own EXCEPT ![s] = flag]
     /\ IF flag \/ iq_logging
        THEN OpenIqLog(s, StoppedFiles(s), StoppedLog(s))
        ELSE /\ iq_log' = [iq_log EXCEPT ![s] = StoppedLog(s)]
             /\ files' = StoppedFiles(s) /\ UNCHANGED refused

OnStart(s, flag) ==
  /\ conn[s] = "in" /\ starts < MaxStarts
  /\ starts' = starts + 1
  /\ StartPipeline(s, flag)
  /\ UNCHANGED <<iq_logging, toggler, conn, posted, clock, frames, flips>>

StopPipeline(s) ==
  /\ active' = [active EXCEPT ![s] = FALSE]
  /\ iq_log' = [iq_log EXCEPT ![s] = StoppedLog(s)]
  /\ files' = StoppedFiles(s)

OnStop(s) ==
  /\ conn[s] = "in" /\ active[s]
  /\ StopPipeline(s)
  /\ UNCHANGED <<iq_logging, toggler, conn, own, refused, posted, boundVars>>

\* on_read fails or closes.
OnClose(s) ==
  /\ conn[s] = "in"
  /\ conn' = [conn EXCEPT ![s] = "closing"]
  /\ StopPipeline(s)
  /\ UNCHANGED <<iq_logging, toggler, own, refused, posted, boundVars>>

\* ~Session, once nothing posted holds it: its controls go.
Destroy(s) ==
  /\ conn[s] = "closing" /\ posted[s] = << >>
  /\ conn' = [conn EXCEPT ![s] = "gone"]
  /\ UNCHANGED <<iq_logging, toggler, active, own, iq_log, refused, files,
                 posted, boundVars>>

\* handle_binary_message: only while a pipeline runs, before backpressure.
OnBinary(s, n) ==
  /\ conn[s] = "in" /\ frames < MaxFrames
  /\ active[s] /\ iq_log[s] # NoFile
  /\ frames' = frames + 1
  /\ files' = Written(files, iq_log[s], n)
  /\ UNCHANGED <<iq_logging, toggler, conn, active, own, iq_log, refused,
                 posted, clock, starts, flips>>

NextPosted(s, what) ==
  /\ posted[s] # << >> /\ Head(posted[s]) = what
  /\ posted' = [posted EXCEPT ![s] = Tail(@)]

\* set_iq_logging(true)
RunOn(s) ==
  /\ NextPosted(s, "on")
  /\ IF active[s] THEN OpenIqLog(s, files, iq_log[s]) ELSE UNCHANGED <<iq_log, files, refused>>
  /\ UNCHANGED <<iq_logging, toggler, conn, active, own, boundVars>>

\* set_iq_logging(false)
RunOff(s) ==
  /\ NextPosted(s, "off")
  /\ iq_log' = [iq_log EXCEPT ![s] = NoFile]
  /\ files' = Closed(files, iq_log[s])
  /\ UNCHANGED <<iq_logging, toggler, conn, active, own, refused, boundVars>>

\* restart_pipeline, posted by "apply keys": the cached start, its flag included.
RunRestart(s) ==
  /\ NextPosted(s, "restart")
  /\ IF active[s] THEN StartPipeline(s, own[s])
     ELSE UNCHANGED <<active, own, iq_log, refused, files>>
  /\ UNCHANGED <<iq_logging, toggler, conn, boundVars>>

-----------------------------------------------------------------------------
(* The HTTP threads.                                                       *)

Registered == {s \in Sessions : conn[s] \in {"in", "closing"}}

\* ServerStats::set_iq_logging under mu_: the flag, and a copy of the controls.
Flip(t, on) ==
  /\ toggler[t].todo = {} /\ flips < MaxFlips
  /\ flips' = flips + 1
  /\ iq_logging' = on
  /\ toggler' = [toggler EXCEPT ![t] = [on |-> on, todo |-> Registered]]
  /\ UNCHANGED <<sessionVars, posted, clock, starts, frames>>

\* Fault: turning the switch off is not pushed to the sessions.
PushOnOnly(t, s) ==
  /\ s \in toggler[t].todo
  /\ toggler' = [toggler EXCEPT ![t].todo = @ \ {s}]
  /\ IF conn[s] # "gone" /\ toggler[t].on
     THEN posted' = [posted EXCEPT ![s] = Append(@, "on")]
     ELSE UNCHANGED posted
  /\ UNCHANGED <<iq_logging, sessionVars, boundVars>>

\* Off the lock: one control, which posts if the session still lives.
Push(t, s) ==
  /\ s \in toggler[t].todo
  /\ toggler' = [toggler EXCEPT ![t].todo = @ \ {s}]
  /\ IF conn[s] # "gone"
     THEN posted' = [posted EXCEPT ![s] = Append(@, IF toggler[t].on THEN "on" ELSE "off")]
     ELSE UNCHANGED posted
  /\ UNCHANGED <<iq_logging, sessionVars, boundVars>>

\* "Apply keys" reaches a decoding session.
ReloadKeys(s) ==
  /\ conn[s] # "gone" /\ active[s] /\ Len(posted[s]) < MaxPosted
  /\ starts < MaxStarts /\ starts' = starts + 1
  /\ posted' = [posted EXCEPT ![s] = Append(@, "restart")]
  /\ UNCHANGED <<iq_logging, toggler, sessionVars, clock, frames, flips>>

Tick ==
  /\ clock < MaxSeconds
  /\ clock' = clock + 1
  /\ UNCHANGED <<iq_logging, toggler, sessionVars, posted, starts, frames, flips>>

-----------------------------------------------------------------------------
RunPosted(s) == RunOn(s) \/ RunOff(s) \/ RunRestart(s)

Next ==
  \/ \E s \in Sessions :
       \/ Connect(s) \/ OnStop(s) \/ OnClose(s) \/ Destroy(s)
       \/ RunPosted(s) \/ ReloadKeys(s)
       \/ \E flag \in BOOLEAN : OnStart(s, flag)
       \/ \E n \in FrameSizes : OnBinary(s, n)
  \/ \E t \in Togglers :
       \/ \E on \in BOOLEAN : Flip(t, on)
       \/ \E s \in Sessions : Push(t, s)
  \/ Tick

Spec == Init /\ [][Next]_vars

\* A strand runs what is posted to it, an HTTP thread finishes its loop.
FairSpec ==
  /\ Spec
  /\ \A s \in Sessions : WF_vars(RunPosted(s))
  /\ \A t \in Togglers, s \in Sessions : WF_vars(Push(t, s))

-----------------------------------------------------------------------------
(* Properties.                                                             *)

OpenFiles == {iq_log[s] : s \in Sessions} \ {NoFile}

\* The switch has reached s: no thread still has to post to it, and nothing
\* posted by one waits.
Reached(s) ==
  /\ \A t \in Togglers : s \notin toggler[t].todo
  /\ \A i \in 1..Len(posted[s]) : posted[s][i] = "restart"

\* PROTOCOL.md: with the switch on, every active session captures, those that
\* start while it is on included; with it off, only one whose start asked for it.
CaptureFollowsSwitch ==
  \A s \in Sessions : Reached(s) =>
    /\ iq_logging /\ active[s] => iq_log[s] # NoFile \/ refused[s]
    /\ ~iq_logging /\ iq_log[s] # NoFile => own[s]

\* A session captures only while its pipeline runs, and no two sessions write
\* the same file.
CapturesOnlyWhileActive ==
  \A s \in Sessions : iq_log[s] # NoFile =>
    /\ active[s] /\ conn[s] = "in"
    /\ \A r \in Sessions \ {s} : iq_log[r] # iq_log[s]

\* A file that is no longer open has its real size in its header and holds the
\* first samples received, up to the cap.
FinalizedIsExact ==
  \A f \in DOMAIN files \ OpenFiles :
    /\ files[f].data_size = files[f].bytes
    /\ files[f].bytes = IF files[f].fed > MaxSamples THEN MaxSamples ELSE files[f].fed

\* "Finalized on stop or disconnect": no later start, restart or flip of the switch
\* touches a finalized capture of an earlier second.  (open_iq_log's names have a
\* resolution of one second: within it a new capture truncates the old one.)
FinalizedIsKept ==
  [][\A f \in DOMAIN files \ OpenFiles : f.t < clock => files'[f] = files[f]]_files

\* All of them, with the types.
CapturesAreSafe == [](TypeOK /\ CapturesOnlyWhileActive /\ FinalizedIsExact) /\ FinalizedIsKept

\* Turning the switch off in the end finalizes every capture it had opened.
OffReachesEverySession ==
  \A s \in Sessions :
    (~iq_logging /\ iq_log[s] # NoFile /\ ~own[s]) ~> (iq_log[s] = NoFile \/ own[s] \/ iq_logging)
=============================================================================
