------------------------------ MODULE Explorer ------------------------------
(***************************************************************************)
(* The network explorer's live side (assoc_model.hpp, AssocModel): the     *)
(* sessions' streams feed it decoder lines and decoded voice, and users    *)
(* clear it and switch call audio on and off.  Every operation holds the   *)
(* model's one mutex throughout, so each is one action on the value m.     *)
(***************************************************************************)
EXTENDS AssocCalls

CONSTANTS
  Sessions,     \* session ids
  Freqs,        \* channel frequencies; 0 is unknown
  Families,     \* what a stream's label says: a family, "auto" or ""
  Lines,        \* the decoder lines of the instance
  Blocks,       \* the audio blocks: [slot, size, loud, keyed]
  PrerollMs,    \* kPrerollMs
  PrerollMax,   \* kPrerollSamples, in blocks
  MaxTime,      \* bound: the clock
  MaxInputs,    \* bound: lines and blocks
  MaxCommands   \* bound: stream starts, stops, moves and commands

ASSUME ExplorerAssumption ==
  /\ PrerollMs \in Nat /\ PrerollMax \in Nat /\ MaxTime \in Nat
  /\ MaxInputs \in Nat /\ MaxCommands \in Nat
  /\ \A b \in Blocks : /\ b.slot \in Slots /\ b.size \in Nat \ {0} /\ b.keyed \in BOOLEAN
                      /\ b.loud \in {"silent", "faint", "audible"}

VARIABLES
  m,          \* the model's value
  now,        \* the wall clock
  inputs,     \* lines and blocks so far
  commands    \* other operations so far

vars == <<m, now, inputs, commands>>

Init == m = EmptyModel /\ now = 1 /\ inputs = 0 /\ commands = 0

\* One operation replaces the model's value.
Becomes(value) ==
  commands < MaxCommands /\ m' = value /\ commands' = commands + 1 /\ UNCHANGED <<now, inputs>>
Hears(value) ==
  inputs < MaxInputs /\ m' = value /\ inputs' = inputs + 1 /\ UNCHANGED <<now, commands>>

Tick == now < MaxTime /\ now' = now + 1 /\ UNCHANGED <<m, inputs, commands>>

----------------------------------------------------------------------------
\* Streams.

Started(value, sid, family, freq) == [value EXCEPT !.sess = Put(@, sid, NewStream(family, freq))]
BeginStream(sid) ==
  \E family \in Families, freq \in Freqs :
    Becomes(Started(Prune(CloseSessionCalls(m, sid), sid, FALSE), sid, family, freq))

\* Fault: the stream stays on the network of the channel it left.
RetuneKeepsNetwork(sid) ==
  /\ sid \in DOMAIN m.sess
  /\ \E freq \in Freqs \ {m.sess[sid].freq} :
       LET m1 == Prune(CloseSessionCalls(m, sid), sid, TRUE)
       IN Becomes([m1 EXCEPT !.sess[sid].freq = freq])
Moved(value, sid, freq) ==
  [value EXCEPT !.sess[sid] = [NewStream(@.family, freq) EXCEPT !.running = value.sess[sid].running]]
Retune(sid) ==
  /\ sid \in DOMAIN m.sess
  /\ \E freq \in Freqs \ {m.sess[sid].freq} :
       Becomes(Moved(Prune(CloseSessionCalls(m, sid), sid, TRUE), sid, freq))

EndStream(sid) ==
  /\ sid \in DOMAIN m.sess
  /\ LET m1 == CloseSessionCalls(m, sid)
     IN Becomes(Prune([m1 EXCEPT !.sess[sid] = [@ EXCEPT !.running = FALSE, !.active = <<>>]], sid, FALSE))

RemoveSession(sid) ==
  /\ sid \in DOMAIN m.sess
  /\ LET m1 == Prune(CloseSessionCalls(m, sid), sid, FALSE)
     IN Becomes([m1 EXCEPT !.sess = Without(@, {sid})])

\* clear_locked: the files of the forgotten calls stay on disk, and call ids
\* start over.
Forgotten(value) ==
  [value EXCEPT !.exists = FALSE, !.nets = <<>>, !.tgs = <<>>, !.radios = <<>>, !.calls = <<>>,
                !.next = 0, !.epoch = @ + 1,
                !.sess = [s \in DOMAIN @ |-> [NewStream(@[s].family, @[s].freq) EXCEPT
                                               !.running = value.sess[s].running]]]
Forget(value) ==
  [Forgotten(value) EXCEPT !.store = FoldLeft(LAMBDA s, k : Finish(s, k.audio), @, value.calls)]

Clear(withAudio) ==
  LET m1 == Forget(m)
  IN Becomes(IF withAudio THEN [m1 EXCEPT !.store = RemoveAll(@)] ELSE m1)

\* A decoder line, as the session's event callback hands it over.
IngestLine(sid) ==
  \E line \in Lines : Hears(Ingest(m, sid, line, now))

----------------------------------------------------------------------------
\* Call audio.

\* Files the store evicted are no call's any more.
Reconcile(value) ==
  LET gone == value.store.evicted
      ids == [i \in DOMAIN value.calls |-> value.calls[i].id]
      Drop(a, id) == LET k == FindCall(a, id)
                     IN IF k.audio \notin gone THEN a
                        ELSE SetKeep(SetCall(a, [k EXCEPT !.audio = NoFile, !.samples = 0]),
                                     [k EXCEPT !.audio = NoFile, !.samples = 0], FALSE)
  IN [FoldLeft(Drop, value, ids) EXCEPT !.store.evicted = {}]

StartAudio == ~m.store.on /\ Becomes(Reconcile([m EXCEPT !.store = Enable(@, now)]))
StopAudio ==
  Becomes([m EXCEPT !.store = Disable(@), !.sess = [s \in DOMAIN @ |-> [@[s] EXCEPT !.preroll = <<>>]]])

DataOnly(k) == k.data /\ ~k.voice
\* The latest of some calls, the first of those that end together.
Latest(calls) ==
  FoldLeft(LAMBDA a, k : IF k # NoCall /\ (a = NoCall \/ k.last > a.last) THEN k ELSE a, NoCall, calls)

\* The call a block on an audio slot goes to: that slot's, or the current one
\* of a decoder without slots; a data call's audio is the other slot's voice.
CallOfSlot(sid, slot) ==
  LET Fresh(s) == FreshCall(m, sid, s, now)
  IN [slot |-> slot, call |-> IF slot = 0 THEN Latest(<<Fresh(0), Fresh(1), Fresh(2)>>)
                              ELSE IF slot = 1 /\ Fresh(1) = NoCall THEN Fresh(0)
                              ELSE Fresh(slot)]
VoiceCall(sid, s) == LET k == FreshCall(m, sid, s, now) IN IF k = NoCall \/ DataOnly(k) THEN NoCall ELSE k
OtherVoice(sid) ==
  LET other == Latest(<<VoiceCall(sid, 1), VoiceCall(sid, 2), VoiceCall(sid, 0)>>)
      at == {s \in Slots : VoiceCall(sid, s) = other}
  IN [slot |-> IF 1 \in at THEN 1 ELSE IF 2 \in at THEN 2 ELSE 0, call |-> other]
NoVoice == [slot |-> 0, call |-> [NoCall EXCEPT !.id = 1]]
FallBack(block, other) == IF block.loud = "silent" \/ other.call = NoCall THEN NoVoice ELSE other
AudioCall(sid, own, block) ==
  IF own.call = NoCall \/ ~DataOnly(own.call) THEN own ELSE FallBack(block, OtherVoice(sid))

\* Voice before its call is decoded is held for its recording.
Hold(sid, slot, block) ==
  LET held == m.sess[sid].preroll
      old == IF slot \notin DOMAIN held \/ now - held[slot].last > PrerollMs
             THEN [n |-> 0, last |-> now, audible |-> FALSE] ELSE held[slot]
      new == [n |-> MinOf(old.n + block.size, PrerollMax), last |-> now,
              audible |-> old.audible \/ block.loud = "audible"]
  IN IF block.loud = "silent" THEN m ELSE [m EXCEPT !.sess[sid].preroll = Put(@, slot, new)]

\* A file begins with audible audio, held or new, and holds what was held.
BeginFile(sid, slot, k, store) ==
  Reconcile([SetKeep(SetCall(m, k), k, TRUE) EXCEPT !.store = store, !.sess[sid].preroll = Without(@, {0, slot})])
StartFile(sid, slot, k, block) ==
  LET held == m.sess[sid].preroll
      at == {s \in {0, slot} : s \in DOMAIN held /\ held[s].n > 0 /\ now - held[s].last <= PrerollMs}
      n == FoldLeft(LAMBDA a, s : a + held[s].n, 0, SetToSeq(at))
      name == <<k.id, m.epoch>>
      k1 == [k EXCEPT !.audio = name, !.audioSid = sid, !.audioSlot = slot, !.samples = @ + n + block.size]
  IN IF \/ block.loud # "audible" /\ ~(\E s \in at : held[s].audible)
        \/ ~CanOpen(m.store, name)
     THEN SetCall(m, k)
     ELSE BeginFile(sid, slot, k1,
                    AppendTo(AppendTo(OpenFile(m.store, name, now), name, n, now), name, block.size, now))

\* The recording goes on, from the one stream and slot it comes from.
Longer(sid, slot, k, block) ==
  LET k1 == [k EXCEPT !.audioSlot = IF @ = 0 THEN slot ELSE @, !.samples = @ + block.size]
  IN Reconcile([SetCall(m, k1) EXCEPT !.store = AppendTo(@, k.audio, block.size, now)])
GoOn(sid, slot, k, block) ==
  IF k.audioSid # sid \/ (k.audioSlot # slot /\ k.audioSlot # 0 /\ slot # 0) THEN SetCall(m, k)
  ELSE Longer(sid, slot, k, block)

\* An encrypted call heard without its key is not recorded.
Muted(k) ==
  LET k1 == [k EXCEPT !.noAudio = TRUE, !.audio = NoFile]
      m1 == [SetCall(m, k1) EXCEPT !.store = IF k.audio = NoFile THEN @ ELSE Discard(@, k.audio)]
  IN SetKeep(m1, k1, FALSE)

Recorded(sid, slot, k, block) ==
  IF k.audio = NoFile THEN StartFile(sid, slot, k, block) ELSE GoOn(sid, slot, k, block)
Record(sid, slot, k, block) ==
  IF k.noAudio THEN m
  ELSE IF k.encrypted /\ ~block.keyed THEN Muted(k)
  ELSE Recorded(sid, slot, [k EXCEPT !.keyed = @ \/ block.keyed], block)

AudioTo(sid, slot, a, block) ==
  IF a.call = NoCall THEN Hold(sid, slot, block)
  ELSE IF a = NoVoice THEN m                                    \* a data call: nowhere
  ELSE Record(sid, a.slot, a.call, block)
Audio(sid, slot, block) == AudioTo(sid, slot, AudioCall(sid, CallOfSlot(sid, slot), block), block)

HearAudio(sid) ==
  /\ sid \in DOMAIN m.sess /\ m.sess[sid].live /\ m.store.on /\ m.exists
  /\ \E block \in Blocks : Hears(Audio(sid, block.slot, block))

----------------------------------------------------------------------------
Next ==
  \/ Tick \/ StartAudio \/ StopAudio
  \/ \E withAudio \in BOOLEAN : Clear(withAudio)
  \/ \E sid \in Sessions :
       \/ BeginStream(sid) \/ Retune(sid) \/ EndStream(sid) \/ RemoveSession(sid)
       \/ IngestLine(sid) \/ HearAudio(sid)

Spec == Init /\ [][Next]_vars

----------------------------------------------------------------------------
TypeOK ==
  /\ now \in 1..MaxTime /\ inputs \in 0..MaxInputs /\ commands \in 0..MaxCommands
  /\ DOMAIN m.sess \subseteq Sessions
  /\ \A s \in DOMAIN m.sess : /\ m.sess[s].family \in Families \cup {Fam}
                              /\ m.sess[s].freq \in Freqs
                              /\ \A slot \in Slots : m.sess[s].last[slot] \in 0..m.next
                              /\ \A a \in DOMAIN m.sess[s].active : m.sess[s].active[a] \in 1..m.next
  /\ Cardinality(DOMAIN m.nets) <= MaxNetworks
  /\ Cardinality(DOMAIN m.tgs) <= MaxTalkgroups /\ Cardinality(DOMAIN m.radios) <= MaxRadios
  /\ \A i \in DOMAIN m.calls : m.calls[i].id \in 1..m.next /\ m.calls[i].last \in 1..now
  /\ \A i, j \in DOMAIN m.calls : m.calls[i].id = m.calls[j].id => i = j
  /\ m.exists \/ (m.nets = <<>> /\ m.calls = <<>> /\ m.tgs = <<>> /\ m.radios = <<>>)

CallAt(i) == m.calls[i]
\* No call has rolled off: every id is a listed call's or was folded into one.
AllListed == m.next = FoldLeft(LAMBDA a, k : a + k.streams, 0, m.calls)
Counted(Is(_)) == Cardinality({i \in DOMAIN m.calls : m.calls[i].counted /\ Is(m.calls[i])})

\* What is shown for a talkgroup, a radio, a pair of radios and a network is
\* what its calls are, each call counted once, whatever was split, adopted,
\* turned private, closed or moved to another network meanwhile.
CountsAreTheCalls ==
  /\ \A t \in DOMAIN m.tgs, r \in DOMAIN m.radios : At(m.tgs[t].radios, r) = At(m.radios[r].tgs, t)
  /\ AllListed =>
       /\ \A n \in DOMAIN m.nets : m.nets[n].calls = Counted(LAMBDA k : k.net = n)
       /\ \A t \in DOMAIN m.tgs :
            LET Group(k) == k.tgt = t /\ ~k.priv
            IN /\ m.tgs[t].calls = Counted(Group)
               /\ m.tgs[t].enc = Counted(LAMBDA k : Group(k) /\ ~k.open /\ k.encrypted)
               /\ m.tgs[t].emerg = Counted(LAMBDA k : Group(k) /\ ~k.open /\ k.emergency)
               /\ \A key \in DOMAIN m.tgs[t].keys :
                    m.tgs[t].keys[key] = Counted(LAMBDA k : Group(k) /\ k.kid = key)
       /\ \A r \in DOMAIN m.radios :
            /\ m.radios[r].calls = Counted(LAMBDA k : k.src = r)
            /\ \A t \in DOMAIN m.tgs :
                 At(m.radios[r].tgs, t) = Counted(LAMBDA k : k.src = r /\ k.tgt = t /\ ~k.priv)
            /\ \A p \in DOMAIN m.radios :
                 At(m.radios[r].peers, p) =
                   Counted(LAMBDA k : k.priv /\ {k.src, k.tgt} = {r, p}) * (IF r = p THEN 2 ELSE 1)

\* One transmission heard by two receivers of a network is counted once: no
\* call is counted while another stream's call with the same ends is running.
SameCall(k, o) ==
  /\ o.session # k.session /\ Current(o, now)
  /\ o.net = k.net /\ o.src = k.src /\ o.tgt = k.tgt /\ o.priv = k.priv
CountsOnlyOnce ==
  \A i \in DOMAIN m'.calls :
    LET k == m'.calls[i]
        before == FindCall(m, k.id)
        isNew == before = NoCall \/ ~before.counted
    IN k.counted /\ k.src # Nobody /\ isNew =>
         \A j \in DOMAIN m'.calls : ~SameCall(k, m'.calls[j])
HeardTwiceCountedOnce == [][CountsOnlyOnce]_vars

\* Every file being written belongs to a running call, and every call that
\* offers a recording has one on disk, of its own.
RecordingsAreCalls ==
  /\ m.store.open \subseteq {CallAt(i).audio : i \in {j \in DOMAIN m.calls : CallAt(j).open}}
  /\ \A i \in DOMAIN m.calls :
       /\ CallAt(i).keep = (CallAt(i).audio # NoFile)
       /\ CallAt(i).audio # NoFile =>
            /\ CallAt(i).audio \in Indexed(m.store)
            /\ \A j \in DOMAIN m.calls : CallAt(j).audio = CallAt(i).audio => i = j

\* A recording that outlives its call is nobody's encrypted speech, whenever
\* the call was found to be encrypted, and by whichever receiver.
EndedRecordingsAreClear ==
  \A i \in DOMAIN m.calls :
    LET k == CallAt(i)
    IN ~k.open /\ k.audio # NoFile => /\ k.encrypted => k.keyed
                                      /\ k.data => k.voice

\* A network is in the model while anything refers to it: a running stream,
\* a call, a talkgroup or a radio; across merges of networks and ended streams.
NothingDangles ==
  /\ TypeOK
  /\ \A s \in DOMAIN m.sess : m.sess[s].running => m.sess[s].net \in DOMAIN m.nets \cup {NoNet}
  /\ \A i \in DOMAIN m.calls : CallAt(i).net \in DOMAIN m.nets
  /\ \A t \in DOMAIN m.tgs : m.tgs[t].networks \subseteq DOMAIN m.nets
  /\ \A r \in DOMAIN m.radios : m.radios[r].networks \subseteq DOMAIN m.nets

\* A network known only by its channel was only ever heard on that channel,
\* and a running stream is on no other channel's network: a stream that moves
\* takes nothing with it.
ChannelsStayApart ==
  /\ \A n \in DOMAIN m.nets :
       n.at = "freq" /\ Derive(m.nets[n].ids).conf # "strong" => m.nets[n].freqs \subseteq {n.n}
  /\ \A s \in DOMAIN m.sess :
       m.sess[s].running /\ m.sess[s].net.at = "freq" => m.sess[s].net.n = m.sess[s].freq

\* A stream that ends or starts over takes no identified network along, unless
\* a network that has all its ids remains, or two networks with the very same
\* ids, which cover each other and have all of its, went together.
Names(n) == Only(m.nets[n].ids, Anchors)
Carries(ids, names) == \A k \in DOMAIN names : k \in DOMAIN ids /\ ids[k] = names[k]
Lost(n) == n \notin DOMAIN m'.nets
RemainsKnown(n) ==
  \/ ~Lost(n)
  \/ \E o \in DOMAIN m'.nets : Carries(m'.nets[o].ids, Names(n))
  \/ \E o, p \in DOMAIN m.nets : /\ o # p /\ Lost(o) /\ Lost(p)
                                 /\ Names(o) = Names(p) /\ Carries(Names(o), Names(n))
EndsKnowing ==
  \A sid \in Sessions : (BeginStream(sid) \/ EndStream(sid) \/ RemoveSession(sid)) =>
    \A n \in DOMAIN m.nets : m.nets[n].conf = "strong" => RemainsKnown(n)
KnowledgeStays == [][EndsKnowing]_vars

=============================================================================
