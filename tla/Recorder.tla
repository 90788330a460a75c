------------------------------ MODULE Recorder ------------------------------
(***************************************************************************)
(* The recording of the explorer's inputs (assoc_log.hpp, AssocRecorder)   *)
(* and its replay (assoc_replay.hpp).  Each operation of Explorer writes   *)
(* its line and then the lines of the keep flags it changed.  The file is  *)
(* represented by the model a replay of its lines builds so far, rec.model;*)
(* a replay has no audio, so it is told of every keep flag.                *)
(***************************************************************************)
EXTENDS Explorer

VARIABLE rec    \* [on, fresh, truncated, model] and two histories:
                \*   blank: the streams knew nothing when the recording began
                \*   crossed: a line both took a keep flag and opened a call

rvars == <<vars, rec>>
NoRecording == [on |-> FALSE, fresh |-> FALSE, truncated |-> FALSE, model |-> EmptyModel,
                blank |-> FALSE, crossed |-> FALSE]

\* mark_keep, for each keep line in turn.
MarkKeep(value, lines) ==
  FoldLeft(LAMBDA a, k : IF FindCall(a, k[1]) = NoCall THEN a
                         ELSE SetCall(a, [FindCall(a, k[1]) EXCEPT !.keep = k[2]]), value, lines)
KeepLines == SubSeq(m'.keeps, Len(m.keeps) + 1, Len(m'.keeps))

Crossing == m'.next > m.next /\ \E i \in Len(m.keeps) + 1..Len(m'.keeps) : ~m'.keeps[i][2]
\* A line that would pass the size cap is not written, nor is any after it.
Write(replayed) ==
  IF ~rec.on \/ rec.truncated THEN UNCHANGED rec
  ELSE \E full \in BOOLEAN :
         rec' = IF full THEN [rec EXCEPT !.truncated = TRUE, !.model = EmptyModel]
                ELSE [rec EXCEPT !.model = MarkKeep(replayed, KeepLines),
                                 !.crossed = @ \/ Crossing]

----------------------------------------------------------------------------
\* What each line does to a replay.

ReplayBegin(value, sid, family, freq) ==
  Started(Prune(CloseSessionCalls(value, sid), sid, FALSE), sid, family, freq)
ReplayTune(value, sid, freq) ==
  IF sid \notin DOMAIN value.sess THEN value
  ELSE Moved(Prune(CloseSessionCalls(value, sid), sid, TRUE), sid, freq)
ReplayEnd(value, sid) ==
  LET m1 == Prune(CloseSessionCalls(value, sid), sid, FALSE)
  IN IF sid \notin DOMAIN value.sess THEN value
     ELSE [m1 EXCEPT !.sess[sid] = [@ EXCEPT !.running = FALSE, !.active = <<>>]]
ReplayRemove(value, sid) ==
  LET m1 == Prune(CloseSessionCalls(value, sid), sid, FALSE)
  IN [m1 EXCEPT !.sess = Without(@, {sid})]

----------------------------------------------------------------------------
\* Recording on and off.

Blank(value) ==
  \A s \in DOMAIN value.sess :
    value.sess[s] = [NewStream(value.sess[s].family, value.sess[s].freq) EXCEPT !.running = value.sess[s].running]

\* Fault: the streams already running are not written.
StartRecordingUnresumed(clear) ==
  /\ ~rec.on
  /\ LET m1 == IF clear THEN Forget(m) ELSE m
     IN /\ Becomes(m1)
        /\ rec' = [on |-> TRUE, fresh |-> ~m1.exists /\ m1.next = 0, truncated |-> FALSE,
                   blank |-> Blank(m1), crossed |-> FALSE, model |-> EmptyModel]
\* The file opens with the streams that are running, resumed.
StartRecording(clear) ==
  /\ ~rec.on
  /\ LET m1 == IF clear THEN Forget(m) ELSE m
         running == {s \in DOMAIN m1.sess : m1.sess[s].running}
         Resume(a, s) == ReplayBegin(a, s, m1.sess[s].family, m1.sess[s].freq)
     IN /\ Becomes(m1)
        /\ rec' = [on |-> TRUE, fresh |-> ~m1.exists /\ m1.next = 0, truncated |-> FALSE,
                   blank |-> Blank(m1), crossed |-> FALSE,
                   model |-> FoldLeft(Resume, EmptyModel, SetToSortSeq(running, <))]
StopRecording == rec.on /\ Becomes(m) /\ rec' = NoRecording

----------------------------------------------------------------------------
\* The operations of Explorer, with the lines they write.  Events come only
\* from streams that run (SessionPipeline, EventsInOpenStream); the audio
\* switch writes keep lines alone.
BeginLine(sid) ==
  BeginStream(sid) /\ Write(ReplayBegin(rec.model, sid, m'.sess[sid].family, m'.sess[sid].freq))
TuneLine(sid) == Retune(sid) /\ Write(ReplayTune(rec.model, sid, m'.sess[sid].freq))
EndLine(sid) == EndStream(sid) /\ Write(ReplayEnd(rec.model, sid))
RemoveLine(sid) == RemoveSession(sid) /\ Write(ReplayRemove(rec.model, sid))
ClearLine == Clear(FALSE) /\ Write(Forget(rec.model))
EventLine(sid) ==
  /\ sid \in DOMAIN m.sess /\ m.sess[sid].running
  /\ \E line \in Lines : /\ Hears(Ingest(m, sid, line, now))
                         /\ Write(Ingest(rec.model, sid, line, now))
AudioLines == StartAudio \/ StopAudio \/ \E sid \in Sessions : HearAudio(sid)

RecInit == Init /\ rec = NoRecording
RecNext ==
  \/ Tick /\ UNCHANGED rec
  \/ AudioLines /\ Write(rec.model)
  \/ ClearLine \/ StopRecording \/ (\E clear \in BOOLEAN : StartRecording(clear))
  \/ \E sid \in Sessions : \/ BeginLine(sid) \/ TuneLine(sid) \/ EndLine(sid) \/ RemoveLine(sid)
                           \/ EventLine(sid)
RecSpec == RecInit /\ [][RecNext]_rvars

----------------------------------------------------------------------------
\* What the explorer shows, but for the recordings and the voice quality:
\* neither audio nor a frame's errors are in the file.
Shows(value) ==
  [nets |-> value.nets, tgs |-> value.tgs, radios |-> value.radios,
   calls |-> [i \in DOMAIN value.calls |->
     [f \in DOMAIN value.calls[i] \ {"audio", "audioSid", "audioSlot", "samples", "noAudio", "keyed", "qual"} |->
        value.calls[i][f]]]]

\* The replay of a recording shows at every moment what the explorer showed
\* then, whatever calls were split, adopted and rolled off, and though it has
\* no audio to decide which calls to keep; provided it began with streams
\* that knew nothing, and no line took a keep flag and opened a call.
ReplayShowsTheSame ==
  rec.on /\ ~rec.truncated /\ rec.fresh /\ rec.blank /\ ~rec.crossed => Shows(rec.model) = Shows(m)

=============================================================================
