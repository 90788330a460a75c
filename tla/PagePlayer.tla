----------------------------- MODULE PagePlayer -----------------------------
(***************************************************************************)
(* The explorer page's player and its speech-to-text (net_page.hpp): the   *)
(* audio element, which follows a call still being recorded by loading its *)
(* file again, and the worker that transcribes what is played.  The page   *)
(* is one thread: a handler is one step, and between two of them the file  *)
(* grows, the list is polled and the user clicks.                          *)
(*                                                                         *)
(* The live view only.  A message of a worker and what the page makes of   *)
(* it are one step: terminate() drops what is not yet delivered.           *)
(***************************************************************************)
EXTENDS Naturals, Sequences

CONSTANTS
  Recordings,   \* the audio files of the calls listed
  Models,       \* the speech models to choose from
  MaxLen,       \* bound: the length of a file
  MaxWaits,     \* the loads without anything new (120)
  MaxActs       \* bound: what the user does, and what fails

VARIABLES
  disk,         \* the server's files: [len, over]
  seen,         \* as the last poll listed them
  pl,           \* PLAYER
  el,           \* the audio element: its file, how much of it, and its state
  once,         \* loadedmetadata listeners waiting: [name, at, old]
  timers,       \* the 500 ms timers: [name, old]
  asr,          \* ASR
  fetches,      \* the jobs whose audio is being fetched
  runs,         \* what the worker transcribes: [id, name, whole]
  tx,           \* the transcripts: [model, partial] and, history, [by, of, whole]
  crossed,      \* history: a listener or timer of an earlier play went on with this one
  acts

files == <<disk, seen>>
player == <<pl, el, once, timers, crossed>>
speech == <<asr, fetches, runs, tx>>
vars == <<files, player, speech, acts>>

None == "-"
NoReq == [id |-> 0, name |-> None, live |-> FALSE]
NoJob == [id |-> 0, name |-> None, live |-> FALSE, model |-> None, phase |-> "none"]
NoText == [model |-> None, partial |-> FALSE, by |-> None, of |-> None, whole |-> FALSE]

\* live(c): the call is open in its record, and the record is not too old
\* (LIVE_MS).  The list's records are the last poll's, the player's own is of
\* when it was played.
Listed(r) == {~seen[r].over, FALSE}
Held == {pl.live, FALSE}

-----------------------------------------------------------------------------
\* Speech to text.

\* asrWorker: the old worker, and all it is doing, is gone.
NewWorker(a) == [a EXCEPT !.w = "loading", !.wModel = a.model, !.state = "loading"]
Fresh(a) == a.cfg = "got" /\ a.src /\ a.job = NoJob /\ a.next # NoReq /\ (a.w = "none" \/ a.wModel # a.model)

\* asrPump: one at a time, on a worker of the model chosen.
Pump(a) ==
  IF a.job # NoJob \/ a.next = NoReq \/ a.cfg # "got" THEN a
  ELSE IF ~a.src THEN [a EXCEPT !.state = "nosrc"]
  ELSE LET b == IF Fresh(a) THEN NewWorker(a) ELSE a
       IN IF b.state # "ready" THEN b
          ELSE [b EXCEPT !.next = NoReq,
                         !.job = [id |-> b.next.id, name |-> b.next.name, live |-> b.next.live,
                                  model |-> b.wModel, phase |-> "fetch"]]

\* What follows from asr becoming a: the audio of a new job is fetched, and
\* with its worker go the runs.
Asr(a) ==
  /\ asr' = a
  /\ fetches' = IF a.job # NoJob /\ a.job # asr.job /\ a.job.phase = "fetch" THEN fetches \cup {a.job} ELSE fetches
  /\ runs' = IF a.w # asr.w /\ a.w \in {"none", "loading"} THEN {} ELSE runs

\* The request is dropped if its text is there, whole and of the model chosen.
Asked(a, r) ==
  Pump(IF a.next.name = r /\ tx[r].model = a.model /\ ~tx[r].partial THEN [a EXCEPT !.next = NoReq] ELSE a)
\* transcribe: the newest request wins.
Transcribe(a, r, live) ==
  LET b == [a EXCEPT !.next = [id |-> a.seq + 1, name |-> r, live |-> live], !.seq = @ + 1]
  IN IF b.cfg = "got" THEN Asked(b, r)
     ELSE [b EXCEPT !.cfg = "asked", !.then = Append(@, r)]

\* The server's answer; then, before anything else happens, those who asked for it
\* go on, in turn.
Config ==
  /\ asr.cfg = "asked" /\ Asr([asr EXCEPT !.cfg = "got"])
  /\ UNCHANGED <<files, player, tx, acts>>
GoingOn == asr.cfg = "got" /\ asr.then # <<>>
Called ==
  /\ GoingOn /\ Asr(Asked([asr EXCEPT !.then = Tail(@)], Head(asr.then)))
  /\ UNCHANGED <<files, player, tx, acts>>
ConfigFails ==
  /\ asr.cfg = "asked" /\ acts < MaxActs /\ acts' = acts + 1
  /\ asr' = [asr EXCEPT !.cfg = "none", !.then = <<>>, !.next = IF asr.then = <<>> THEN @ ELSE NoReq,
                        !.state = IF asr.then = <<>> THEN @ ELSE "error"]
  /\ UNCHANGED <<files, player, fetches, runs, tx>>

\* The worker's messages, asrMsg.
Ready ==
  /\ asr.w = "loading" /\ Asr(Pump([asr EXCEPT !.w = "up", !.state = "ready"]))
  /\ UNCHANGED <<files, player, tx, acts>>
\* asrFail: the model cannot be loaded, or the worker stops.
Fails ==
  /\ asr.w # "none" /\ acts < MaxActs /\ acts' = acts + 1
  /\ Asr([asr EXCEPT !.w = "none", !.wModel = None, !.state = "error", !.job = NoJob, !.next = NoReq])
  /\ UNCHANGED <<files, player, tx>>

\* The audio is decoded, and the worker gets it, if it is still wanted.
Fetched(j) ==
  /\ fetches' = fetches \ {j}
  /\ IF asr.job = j /\ asr.w # "none"
     THEN /\ asr' = [asr EXCEPT !.job.phase = "run"]
          /\ runs' = runs \cup {[id |-> j.id, name |-> j.name, whole |-> disk[j.name].over]}
     ELSE UNCHANGED <<asr, runs>>
  /\ UNCHANGED <<files, player, tx, acts>>
FetchFails(j) ==
  /\ acts < MaxActs /\ acts' = acts + 1
  /\ LET a == IF asr.job = j THEN Pump([asr EXCEPT !.job = NoJob]) ELSE asr
     IN /\ asr' = a
        /\ fetches' = (fetches \ {j}) \cup (IF a.job \in {asr.job, NoJob} THEN {} ELSE {a.job})
        /\ runs' = IF a.w = "loading" THEN {} ELSE runs
  /\ UNCHANGED <<files, player, tx>>

\* Fault: a text is filed under the model chosen by then.
TextOfChoice(r) ==
  IF asr.job.id # r.id THEN tx
  ELSE [tx EXCEPT ![asr.job.name] = [model |-> asr.model, partial |-> asr.job.live,
                                     by |-> asr.wModel, of |-> r.name, whole |-> r.whole]]
\* The transcripts with the worker's text of r.
Text(r) ==
  IF asr.job.id # r.id THEN tx
  ELSE [tx EXCEPT ![asr.job.name] = [model |-> asr.job.model, partial |-> asr.job.live,
                                     by |-> asr.wModel, of |-> r.name, whole |-> r.whole]]
\* A run ends, in a text or in an error.
RunEnds(r) ==
  /\ \/ tx' = Text(r) /\ UNCHANGED acts
     \/ acts < MaxActs /\ acts' = acts + 1 /\ UNCHANGED tx
  /\ LET a == IF asr.job.id = r.id THEN Pump([asr EXCEPT !.job = NoJob]) ELSE asr
     IN /\ asr' = a
        /\ fetches' = IF a.job \in {asr.job, NoJob} THEN fetches ELSE fetches \cup {a.job}
        /\ runs' = IF a.w = "loading" THEN {} ELSE runs \ {r}
  /\ UNCHANGED <<files, player>>

-----------------------------------------------------------------------------
\* The player.

Quiet(a) == Asr(a) /\ UNCHANGED <<files, tx>>
Aged(S) == {[x EXCEPT !.old = TRUE] : x \in S}

\* playDone: a live call is transcribed now that it is over.
Done(p) == [p EXCEPT !.name = None, !.txLater = FALSE]
DoneAsr(p, live) == IF p.txLater THEN Transcribe(asr, p.call, live) ELSE asr

\* followLive: is there, or will there be, more of the call than was played?
More(live) == pl.name # None /\ (live \/ seen[pl.call].len > el.got)
Follow ==
  /\ pl' = [pl EXCEPT !.waits = @ + 1]
  /\ el' = [el EXCEPT !.src = pl.call, !.st = "loading", !.auto = FALSE]
  /\ once' = once \cup {[name |-> pl.name, at |-> el.got, old |-> FALSE]}
FollowOrDone ==
  \E live \in Listed(pl.call) :
    IF More(live) /\ pl.waits < MaxWaits THEN Follow /\ Quiet(asr)
    ELSE /\ pl' = Done(pl) /\ Quiet(DoneAsr(pl, live)) /\ UNCHANGED once
         /\ el' = [el EXCEPT !.st = IF @ = "playing" THEN "ended" ELSE @]

Ended == el.st = "playing" /\ FollowOrDone /\ UNCHANGED <<timers, crossed, acts>>

\* The metadata of what is loaded: whoever waits for it looks at it.
LoadedMetadata ==
  LET got == disk[el.src].len
      mine == {l \in once : l.name = pl.name}
      go == \E l \in mine : got > l.at
  IN /\ el.st = "loading"
     /\ el' = [el EXCEPT !.got = got, !.st = IF el.auto \/ go THEN "playing" ELSE "paused"]
     /\ pl' = IF go THEN [pl EXCEPT !.waits = 0] ELSE pl
     /\ once' = {}
     /\ timers' = timers \cup {[name |-> l.name, old |-> l.old] : l \in {x \in mine : ~(got > x.at)}}
     /\ crossed' = (crossed \/ \E l \in mine : l.old)
     /\ UNCHANGED <<files, speech, acts>>

\* Fault: at the end of a call nobody says it is done.
TimerOnlyFollows(t) ==
  /\ timers' = timers \ {t} /\ crossed' = (crossed \/ (t.old /\ pl.name = t.name))
  /\ IF pl.name = t.name /\ More(~seen[t.name].over) /\ pl.waits < MaxWaits THEN Follow /\ Quiet(asr)
     ELSE UNCHANGED <<files, speech, pl, el, once>>
  /\ UNCHANGED acts
Timer(t) ==
  /\ timers' = timers \ {t} /\ crossed' = (crossed \/ (t.old /\ pl.name = t.name))
  /\ IF pl.name = t.name THEN FollowOrDone ELSE UNCHANGED <<files, speech, pl, el, once>>
  /\ UNCHANGED acts

\* The file cannot be loaded (any more).
MediaError ==
  /\ el.st = "loading" /\ acts < MaxActs /\ acts' = acts + 1
  /\ el' = [el EXCEPT !.st = "error"] /\ pl' = [pl EXCEPT !.name = None]
  /\ UNCHANGED <<files, speech, once, timers, crossed>>

-----------------------------------------------------------------------------
\* What the user does.

Act == acts < MaxActs /\ acts' = acts + 1 /\ UNCHANGED <<files, tx, crossed>>

\* The sound is paused.
Silent == [el EXCEPT !.st = IF @ = "playing" THEN "paused" ELSE @, !.auto = FALSE]

\* playAudio of a recording shown live or not: stop, resume, or load afresh.
Play(r, live) ==
  /\ Act /\ once' = Aged(once) /\ timers' = Aged(timers)
  /\ IF pl.name = r THEN pl' = [pl EXCEPT !.name = None] /\ el' = Silent /\ Asr(asr)
     ELSE IF pl.loaded = r /\ el.st \in {"playing", "paused", "ended"} /\ ~live
     THEN pl' = [pl EXCEPT !.name = r, !.call = r, !.live = live] /\ el' = [el EXCEPT !.st = "playing"] /\ Asr(asr)
     ELSE /\ pl' = [name |-> r, call |-> r, live |-> live, loaded |-> r, waits |-> 0, txLater |-> asr.on /\ live]
          /\ el' = [src |-> r, got |-> 0, st |-> "loading", auto |-> TRUE]
          /\ Asr(IF asr.on /\ ~live THEN Transcribe(asr, r, FALSE) ELSE asr)
PlayRow(r) == \E live \in Listed(r) : Play(r, live)
\* The player's own button has the call as it was when it was played.
PlayAgain == pl.call # None /\ \E live \in Held : Play(pl.call, live)

\* Fault: the sound goes on.
CloseNpPlaying ==
  /\ pl.call # None /\ Act /\ once' = Aged(once) /\ timers' = Aged(timers)
  /\ pl' = [pl EXCEPT !.name = None, !.call = None, !.loaded = None]
  /\ Asr(asr) /\ UNCHANGED el
\* closeNp: what plays is paused.
CloseNp ==
  /\ pl.call # None /\ Act /\ once' = Aged(once) /\ timers' = Aged(timers)
  /\ el' = IF pl.name # None THEN Silent ELSE el
  /\ pl' = [pl EXCEPT !.name = None, !.call = None, !.loaded = None]
  /\ Asr(asr)

\* Transcribing is switched on or off, another model is chosen.
AgainAsr(a, live) == IF a.on /\ pl.call # None THEN Transcribe(a, pl.call, live) ELSE a
SwitchAsr == Act /\ (\E live \in Held : Asr(AgainAsr([asr EXCEPT !.on = ~@], live))) /\ UNCHANGED <<pl, el, once, timers>>
ChooseModel(m) ==
  /\ m # asr.model /\ asr.cfg = "got" /\ Act
  /\ \E live \in Held : Asr(AgainAsr([asr EXCEPT !.model = m], live))
  /\ UNCHANGED <<pl, el, once, timers>>
\* "Load them from the internet."
FromTheNet ==
  /\ asr.state = "nosrc" /\ Act /\ Asr(Pump([asr EXCEPT !.src = TRUE, !.state = "off"]))
  /\ UNCHANGED <<pl, el, once, timers>>

-----------------------------------------------------------------------------
\* The server records, and the list is polled.
Grow(r) ==
  /\ ~disk[r].over /\ disk' = [disk EXCEPT ![r] = [len |-> IF @.len < MaxLen THEN @.len + 1 ELSE @.len, over |-> @.len = MaxLen]]
  /\ UNCHANGED <<seen, player, speech, acts>>
CallEnds(r) ==
  /\ ~disk[r].over /\ disk' = [disk EXCEPT ![r].over = TRUE] /\ UNCHANGED <<seen, player, speech, acts>>
Poll == seen # disk /\ seen' = disk /\ UNCHANGED <<disk, player, speech, acts>>

\* One call, or none, is being recorded; which of them makes no difference.
LiveSets == {{}, {CHOOSE r \in Recordings : TRUE}}

Init ==
  /\ disk \in {[r \in Recordings |-> [len |-> 1, over |-> r \notin S]] : S \in LiveSets} /\ seen = disk
  /\ pl = [name |-> None, call |-> None, live |-> FALSE, loaded |-> None, waits |-> 0, txLater |-> FALSE]
  /\ el = [src |-> None, got |-> 0, st |-> "empty", auto |-> FALSE]
  /\ once = {} /\ timers = {} /\ crossed = FALSE /\ acts = 0
  /\ \E src \in BOOLEAN :
       asr = [on |-> TRUE, cfg |-> "asked", src |-> src, model |-> CHOOSE m \in Models : TRUE, w |-> "none", wModel |-> None, state |-> "off",
              job |-> NoJob, next |-> NoReq, seq |-> 0, then |-> <<>>]
  /\ fetches = {} /\ runs = {} /\ tx = [r \in Recordings |-> NoText]

Unhurried ==
  \/ Config \/ ConfigFails \/ Ready \/ Fails
  \/ (\E j \in fetches : Fetched(j) \/ FetchFails(j)) \/ (\E r \in runs : RunEnds(r))
  \/ Ended \/ LoadedMetadata \/ (\E t \in timers : Timer(t)) \/ MediaError
  \/ (\E r \in Recordings : PlayRow(r)) \/ PlayAgain \/ CloseNp
  \/ SwitchAsr \/ (\E m \in Models : ChooseModel(m)) \/ FromTheNet
  \/ (\E r \in Recordings : Grow(r) \/ CallEnds(r)) \/ Poll
Next == Called \/ (~GoingOn /\ Unhurried)

Spec == Init /\ [][Next]_vars

\* What the browser, the worker and the server do unasked.
GoesOn ==
  \/ Called \/ Config \/ Ready \/ (\E j \in fetches : Fetched(j)) \/ (\E r \in runs : RunEnds(r))
  \/ Ended \/ LoadedMetadata \/ (\E t \in timers : Timer(t))

\* When one of them can be made.
Due ==
  \/ asr.cfg = "asked" \/ GoingOn \/ asr.w = "loading" \/ fetches # {} \/ runs # {}
  \/ el.st \in {"playing", "loading"} \/ timers # {}

\* The browser goes on: what is loaded arrives, what plays ends, timers run, the
\* worker and the server answer.  Weak fairness of GoesOn, with Due for its
\* ENABLED, which TLC is slow to work out.
FairSpec == Spec /\ ([]<>~Due \/ []<><<GoesOn>>_vars)

-----------------------------------------------------------------------------
\* A transcript is of its own call's audio, by the model it names, and what the
\* worker runs is the job the page shows.
AnswersAreTheirOwn ==
  /\ \A r \in Recordings : tx[r] # NoText => tx[r].of = r /\ tx[r].by = tx[r].model
  /\ \A r \in runs : asr.job.id = r.id /\ asr.job.phase = "run"

\* (Refuted.)  "A live call is transcribed once it is over (its audio is still
\* growing)": a transcript not marked partial is of the whole recording.
FinalTextIsWhole == \A r \in Recordings : tx[r] # NoText /\ ~tx[r].partial => tx[r].whole

\* The sound is what the buttons say: silent when stopped, and the call they
\* show, playing or waiting for more of it, when not; unless what an earlier
\* play left behind went on with this one.
SoundIsTheButtons ==
  ~crossed =>
    IF pl.name = None THEN el.st # "playing" /\ ~(el.st = "loading" /\ el.auto)
    ELSE /\ el.src = pl.name /\ pl.call = pl.name
         /\ \/ el.st = "playing" \/ (el.st = "loading" /\ el.auto)
            \/ \E l \in once \cup timers : l.name = pl.name /\ ~l.old

\* A request for a transcript comes to an end, unless there is nothing to make
\* it with; and so does every play.
RequestsEnd == <>[](~asr.src \/ (asr.next = NoReq /\ asr.job = NoJob))
PlaysEnd == <>[](pl.name = None)
NothingHangs == RequestsEnd /\ PlaysEnd
=============================================================================
