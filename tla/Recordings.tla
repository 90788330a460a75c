----------------------------- MODULE Recordings -----------------------------
(***************************************************************************)
(* What is recorded, and played: the explorer's inputs and their replay    *)
(* (Recorder), raw IQ (IqCapture), and the page's player (PagePlayer).     *)
(* They share no state, so one of them moves in a behaviour, chosen at the *)
(* start.                                                                  *)
(***************************************************************************)
EXTENDS Recorder

CONSTANTS
  Parts,
  Begun,        \* what a recording may begin with: the model with its streams running
  Clients, Togglers, MaxSamples, FrameSizes, MaxSeconds, MaxStarts, MaxFrames, MaxFlips, MaxPosted,
  Recordings, Models, MaxLen, MaxWaits, MaxActs

\* A session's id is not the word for no file, nor a recording's name that for none;
\* sizes and seconds are numbers.
ASSUME ClientAssumption == "none" \notin Clients
ASSUME SamplesAssumption == MaxSamples \in Nat /\ FrameSizes \subseteq Nat /\ MaxSeconds \in Nat
ASSUME RecordingAssumption == "-" \notin Recordings

VARIABLES
  part,
  iq_logging, toggler, conn, active, own, iq_log, refused, posted, files, clock, starts, frames, flips,
  disk, seen, pl, el, once, timers, asr, fetches, runs, tx, crossed, acts

captureVars == <<iq_logging, toggler, conn, active, own, iq_log, refused, posted, files, clock, starts, frames, flips>>
playerVars == <<disk, seen, pl, el, once, timers, asr, fetches, runs, tx, crossed, acts>>
recordingVars == <<part, rvars, captureVars, playerVars>>

Capture == INSTANCE IqCapture WITH Sessions <- Clients
Player == INSTANCE PagePlayer

FromTheStart == [NoRecording EXCEPT !.on = TRUE, !.fresh = TRUE, !.blank = TRUE, !.model = Begun]
RecorderInit ==
  /\ inputs = 0 /\ commands = 0 /\ now = 1
  /\ m = [Begun EXCEPT !.store = Enable(@, 1)]
  /\ rec \in {NoRecording, FromTheStart}

RecordingsInit ==
  /\ part \in Parts /\ RecorderInit /\ Capture!Init /\ Player!Init
  /\ part # "recorder" => rec = NoRecording
  /\ part # "player" => asr.on /\ asr.src /\ \A r \in Recordings : disk[r].over

OfRecorder(A) == part = "recorder" /\ A /\ UNCHANGED <<part, captureVars, playerVars>>
OfCapture(A) == part = "capture" /\ A /\ UNCHANGED <<part, rvars, playerVars>>
OfPlayer(A) == part = "player" /\ A /\ UNCHANGED <<part, rvars, captureVars>>

RecordingsNext == OfRecorder(RecNext) \/ OfCapture(Capture!Next) \/ OfPlayer(Player!Next)
RecordingsSpec == RecordingsInit /\ [][RecordingsNext]_recordingVars

\* The fairness of IqCapture (a strand runs what is posted to it, which is the only
\* step that takes from posted; an HTTP thread finishes its loop, which is the only
\* step that makes its list shorter) and of PagePlayer.
FairRecordings ==
  /\ RecordingsSpec
  /\ \A s \in Clients : WF_posted(part = "capture" /\ posted[s] # <<>> /\ posted' = [posted EXCEPT ![s] = Tail(@)])
  /\ \A t \in Togglers, s \in Clients :
       WF_toggler(part = "capture" /\ s \in toggler[t].todo /\ toggler' = [toggler EXCEPT ![t].todo = @ \ {s}])
  /\ []<>~(part = "player" /\ Player!Due) \/ []<><<OfPlayer(Player!GoesOn)>>_playerVars

-----------------------------------------------------------------------------
\* What each session captures follows the "Log IQ" switch (IqCapture).
CaptureFollowsSwitch == Capture!CaptureFollowsSwitch

\* Only a running session captures, and what a finished capture holds is exact
\* and stays (IqCapture).
CapturesAreSafe == Capture!CapturesAreSafe

\* Turning the switch off in the end finalizes every capture it opened (IqCapture).
OffReachesEverySession == Capture!OffReachesEverySession

\* A transcript is of its own call's audio, by the model it names (PagePlayer).
AnswersAreTheirOwn == Player!AnswersAreTheirOwn

\* What sounds is what the buttons say (PagePlayer).
SoundIsTheButtons == Player!SoundIsTheButtons

\* Every play, and every request for a transcript, comes to an end (PagePlayer).
NothingHangs == Player!NothingHangs
=============================================================================
