----------------------------- MODULE AssocCalls -----------------------------
(***************************************************************************)
(* The calls of the association model (assoc_model.hpp): how a decoder     *)
(* line opens, continues, splits and closes calls, when two streams' calls *)
(* are one, what is counted for talkgroups, radios and networks, and which *)
(* calls roll off the list.                                                *)
(*                                                                         *)
(* m.next     next_call_            m.quality  call_quality_: frames fed   *)
(* m.store    the audio store       m.keeps    keep flags changed since    *)
(* m.epoch    Clears so far                    the operation began         *)
(* Audio slots and call slots share their names: 0 is "no slot".           *)
(***************************************************************************)
EXTENDS AssocNetworks, CallAudioStore, FiniteSetsExt

CONSTANTS
  ContinueMs,   \* kContinueMs
  MaxCalls,     \* max_calls_
  MaxRadios,    \* kMaxRadios
  MaxTalkgroups,\* kMaxTalkgroups
  MinAudio      \* kMinAudioSamples, in blocks

ASSUME CallAssumption ==
  /\ ContinueMs \in Nat /\ MinAudio \in Nat
  /\ {MaxCalls, MaxRadios, MaxTalkgroups} \subseteq Nat \ {0}

Slots == 0..2
Nobody == 0
NoKey == 0

\* What one decoder line says, as ingest classifies it.  Its ids are
\* normalised: Nobody is an empty, zero or wildcard id.
Line == [kind |-> "unknown", fam |-> Fam, crc |-> FALSE, adj |-> FALSE, broadcast |-> FALSE,
         roster |-> FALSE, tlc |-> FALSE, traffic |-> FALSE, speech |-> FALSE,
         ids |-> NoIds, slot |-> 0, src |-> Nobody, tgt |-> Nobody, priv |-> FALSE,
         data |-> FALSE, emerg |-> FALSE, enc |-> FALSE, kid |-> NoKey, frames |-> 0]

NoCall == [id |-> 0, open |-> FALSE]

NewStream(family, freq) ==
  [family |-> family, freq |-> freq, running |-> TRUE, live |-> FALSE, adjacent |-> FALSE,
   ids |-> NoIds, pending |-> NoIds, net |-> NoNet, site |-> NoIds,
   active |-> <<>>, last |-> [s \in Slots |-> 0], preroll |-> <<>>]

EmptyModel == [sess |-> <<>>, exists |-> FALSE, nets |-> <<>>, tgs |-> <<>>, radios |-> <<>>,
               calls |-> <<>>, next |-> 0, quality |-> <<>>, epoch |-> 0, store |-> EmptyStore,
               keeps |-> <<>>]

\* The call with an id, or NoCall.
FindCall(m, id) ==
  LET at == {i \in DOMAIN m.calls : m.calls[i].id = id}
  IN IF at = {} THEN NoCall ELSE m.calls[Max(at)]
SetCall(m, k) == [m EXCEPT !.calls = [i \in DOMAIN @ |-> IF @[i].id = k.id THEN k ELSE @[i]]]
DropCall(m, id) == [m EXCEPT !.calls = RemoveAt(@, CHOOSE i \in DOMAIN @ : @[i].id = id)]
Current(k, now) == k.open /\ now - k.last <= ContinueMs
FreshCall(m, sid, slot, now) ==
  LET k == FindCall(m, m.sess[sid].last[slot]) IN IF Current(k, now) THEN k ELSE NoCall

\* A call got or lost audio: recorded, so a replay keeps the same calls.
SetKeep(m, k, on) ==
  IF k.keep = on THEN m
  ELSE [SetCall(m, [k EXCEPT !.keep = on]) EXCEPT !.keeps = Append(@, <<k.id, on>>)]

----------------------------------------------------------------------------
\* Talkgroups, radios and the counts of a call.

NewRadio(now) == [tgs |-> <<>>, peers |-> <<>>, keys |-> <<>>, networks |-> {}, calls |-> 0, last |-> now]
NewTalkgroup(now) ==
  [radios |-> <<>>, networks |-> {}, calls |-> 0, emerg |-> 0, enc |-> 0, keys |-> <<>>, last |-> now]
EnsureRadio(m, r, now) == [m EXCEPT !.radios = Ensure(@, r, NewRadio(now), MaxRadios)]
EnsureTalkgroup(m, t, now) == [m EXCEPT !.tgs = Ensure(@, t, NewTalkgroup(now), MaxTalkgroups)]
Known(net) == IF net = NoNet THEN {} ELSE {net}

TouchRadio(m, r, net, now) ==
  LET m1 == EnsureRadio(m, r, now)
  IN [m1 EXCEPT !.radios[r] = [m1.radios[r] EXCEPT !.last = now, !.networks = @ \cup Known(net)]]

Bump(f, k) == Put(f, k, At(f, k) + 1)
Unbump(f, k) ==
  IF k \notin DOMAIN f THEN f ELSE IF f[k] <= 1 THEN Without(f, {k}) ELSE [f EXCEPT ![k] = @ - 1]

\* A counted call's key, once: on its network, its talkgroup and its talker.
NoteKey(m, id) ==
  LET On(f, S, kid) == [x \in DOMAIN f |-> IF x \in S THEN [f[x] EXCEPT !.keys = Bump(@, kid)] ELSE f[x]]
      Note(k) ==
        IF ~k.counted \/ k.kid = NoKey \/ k.keyNoted THEN m
        ELSE [SetCall(m, [k EXCEPT !.keyNoted = TRUE]) EXCEPT
                !.nets = On(@, {k.net}, k.kid),
                !.tgs = IF k.priv THEN @ ELSE On(@, {k.tgt}, k.kid),
                !.radios = On(@, {k.src}, k.kid)]
  IN Note(FindCall(m, id))

\* The peer edge of a unit-to-unit call, at the called radio.
CalledBy(m, k, now) ==
  LET m1 == EnsureRadio(m, k.tgt, now)
  IN [m1 EXCEPT !.radios[k.tgt] = [m1.radios[k.tgt] EXCEPT !.last = now, !.peers = Bump(@, k.src),
                                                           !.networks = @ \cup Known(k.net)]]

\* A call counts for its talker, its target and its network.
CountTalker(m, k, now) ==
  IF k.src = Nobody THEN SetCall(m, k)
  ELSE [TouchRadio(SetCall(m, k), k.src, k.net, now) EXCEPT !.radios[k.src].calls = @ + 1]
CountPeer(m, k, now) ==
  IF k.src = Nobody THEN m
  ELSE CalledBy([m EXCEPT !.radios[k.src].peers = Bump(@, k.tgt)], k, now)
CountGroup(m, k, now) ==
  LET m1 == IF k.src = Nobody THEN m ELSE [m EXCEPT !.radios[k.src].tgs = Bump(@, k.tgt)]
      m2 == EnsureTalkgroup(m1, k.tgt, now)
  IN [m2 EXCEPT
        !.tgs[k.tgt] = [m2.tgs[k.tgt] EXCEPT !.last = MaxOf(@, now), !.calls = @ + 1,
                                             !.radios = IF k.src = Nobody THEN @ ELSE Bump(@, k.src),
                                             !.networks = @ \cup Known(k.net)]]
CountTarget(m, k, now) == IF k.priv THEN CountPeer(m, k, now) ELSE CountGroup(m, k, now)
CountNetwork(m, net) == IF net \in DOMAIN m.nets THEN [m EXCEPT !.nets[net].calls = @ + 1] ELSE m
CountFor(m, k, now) == CountNetwork(CountTarget(CountTalker(m, k, now), k, now), k.net)
CountCall(m, id, now) == NoteKey(CountFor(m, [FindCall(m, id) EXCEPT !.counted = TRUE], now), id)

\* A call counted for a talkgroup turned out to be unit-to-unit.
\* Fault: only the flag is set, the association stays the talkgroup's.
SetPrivateFlag(m, id, now) == SetCall(m, [FindCall(m, id) EXCEPT !.priv = TRUE])
UntieTalker(m, k) == IF k.src \in DOMAIN m.radios THEN [m EXCEPT !.radios[k.src].tgs = Unbump(@, k.tgt)] ELSE m
UntieGroup(m, k) ==
  LET t == m.tgs[k.tgt]
      t1 == [t EXCEPT !.radios = Unbump(@, k.src), !.calls = IF @ > 0 THEN @ - 1 ELSE 0,
                      !.keys = IF k.keyNoted THEN Unbump(@, k.kid) ELSE @]
  IN IF k.tgt \notin DOMAIN m.tgs THEN m
     ELSE IF t1.calls = 0 /\ t1.radios = <<>> THEN [m EXCEPT !.tgs = Without(@, {k.tgt})]
     ELSE [m EXCEPT !.tgs[k.tgt] = t1]
TiePeer(m, k, now) ==
  CalledBy(IF k.src \in DOMAIN m.radios THEN [m EXCEPT !.radios[k.src].peers = Bump(@, k.tgt)] ELSE m, k, now)
TurnPrivate(m, k, now) ==
  IF ~k.counted THEN SetCall(m, [k EXCEPT !.priv = TRUE])
  ELSE TiePeer(UntieGroup(UntieTalker(SetCall(m, [k EXCEPT !.priv = TRUE]), k), k), k, now)
SetPrivate(m, id, now) == IF FindCall(m, id).priv THEN m ELSE TurnPrivate(m, FindCall(m, id), now)

NoteEncrypted(m, id, line) ==
  LET k == FindCall(m, id)
  IN NoteKey(SetCall(m, [k EXCEPT !.encrypted = TRUE, !.kid = IF @ = NoKey THEN line.kid ELSE @]), id)

----------------------------------------------------------------------------
\* Closing and opening calls.

\* Fault: an encrypted call's audio is kept.
UnwantedUnlessEncrypted(k) == (k.data /\ ~k.voice) \/ k.samples < MinAudio
\* Audio not worth a file, or not to be kept: of an encrypted call that was
\* not decoded with a key, of a call that carried only data, or too short.
Unwanted(k) == (k.encrypted /\ ~k.keyed) \/ (k.data /\ ~k.voice) \/ k.samples < MinAudio

ShutCall(m, k, drop) ==
  LET k1 == [k EXCEPT !.open = FALSE,
                      !.qual = IF k.id \in DOMAIN m.quality THEN m.quality[k.id] ELSE @,
                      !.audio = IF drop THEN NoFile ELSE @,
                      !.samples = IF drop THEN 0 ELSE @]
      m1 == [SetCall(m, k1) EXCEPT
               !.quality = Without(@, {k.id}),
               !.store = IF k.audio = NoFile THEN @ ELSE IF drop THEN Discard(@, k.audio) ELSE Finish(@, k.audio)]
  IN IF drop THEN SetKeep(m1, k1, FALSE) ELSE m1
\* A call whose talker was never read counts for its target when it ends.
CountLate(m, k) ==
  IF ~k.counted /\ k.src = Nobody /\ k.tgt # Nobody /\ k.voice /\ ~k.data
  THEN CountCall(m, k.id, k.last) ELSE m
MarkTalkgroup(m, k) ==
  IF ~k.counted \/ k.priv \/ k.tgt \notin DOMAIN m.tgs THEN m
  ELSE [m EXCEPT !.tgs[k.tgt].emerg = @ + (IF k.emergency THEN 1 ELSE 0),
                 !.tgs[k.tgt].enc = @ + (IF k.encrypted THEN 1 ELSE 0)]
MarkClosed(m, id) == MarkTalkgroup(m, FindCall(m, id))
CloseOne(m, k) ==
  IF ~k.open THEN m
  ELSE MarkClosed(CountLate(ShutCall(m, k, k.audio # NoFile /\ Unwanted(k)), k), k.id)
CloseCall(m, id) == CloseOne(m, FindCall(m, id))

\* Of the calls in their order, those with these ids.
CloseAll(m, closing) ==
  FoldLeft(LAMBDA a, id : IF id \in closing THEN CloseCall(a, id) ELSE a, m,
           [i \in DOMAIN m.calls |-> m.calls[i].id])
CloseSessionCalls(m, sid) ==
  IF sid \notin DOMAIN m.sess \/ m.sess[sid].family # Fam \/ ~m.exists THEN m
  ELSE CloseAll(m, {m.calls[i].id : i \in {j \in DOMAIN m.calls : m.calls[j].session = sid}})

\* expire_locked: this stream's calls that went quiet.
ExpireSlots(m, sid, quiet) ==
  [CloseAll(m, {m.sess[sid].active[a] : a \in quiet}) EXCEPT !.sess[sid].active = Without(@, quiet)]
Expire(m, sid, now) ==
  LET active == m.sess[sid].active
  IN ExpireSlots(m, sid, {a \in DOMAIN active : ~Current(FindCall(m, active[a]), now)})

\* Only calls without audio are capped by number: the oldest goes first.
Loose(m) == {i \in DOMAIN m.calls : ~m.calls[i].keep}
RollOff(m) ==
  LET id == m.calls[Min(Loose(m))].id
  IN IF Cardinality(Loose(m)) < MaxCalls THEN m ELSE DropCall(CloseCall(m, id), id)

AddCall(m, sid, slot, now) ==
  LET id == m.next + 1
      k == [id |-> id, session |-> sid, net |-> m.sess[sid].net, slot |-> slot,
            src |-> Nobody, tgt |-> Nobody, priv |-> FALSE, voice |-> FALSE, data |-> FALSE,
            emergency |-> FALSE, encrypted |-> FALSE, kid |-> NoKey, keyNoted |-> FALSE,
            open |-> TRUE, counted |-> FALSE, audio |-> NoFile, audioSid |-> 0, audioSlot |-> 0,
            samples |-> 0, keep |-> FALSE, noAudio |-> FALSE, keyed |-> FALSE,
            start |-> now, last |-> now, txEnd |-> 0, streams |-> 1, qual |-> 0]
  IN [m EXCEPT !.calls = Append(@, k), !.next = id, !.sess[sid].last[slot] = id]
\* A TDMA slot carries one call at a time: a new call on it ends the last.
EndSlot(m, slot, prev) == IF slot # 0 /\ prev # NoCall THEN CloseCall(m, prev.id) ELSE m
OpenCall(m, sid, slot, now) ==
  AddCall(RollOff(EndSlot(m, slot, FreshCall(m, sid, slot, now))), sid, slot, now)

----------------------------------------------------------------------------
\* One call heard on two streams.

\* Fault: calls of other streams are never recognised.
TwinsNever(m, k, now) == {}
\* The newest other stream's running call that is the same call.
Twins(m, k, now) ==
  {i \in DOMAIN m.calls :
     LET o == m.calls[i]
     IN /\ o.id # k.id /\ o.session # k.session /\ Current(o, now)
        /\ o.net = k.net /\ o.src = k.src /\ o.tgt = k.tgt /\ o.priv = k.priv}

\* Fold `dup` into its twin, and point this stream's slots at the twin.
\* One recording per call: the twin's, else the duplicate's.
AdoptTwin(m, sid, dup, twin, slot) ==
  LET taken == twin.audio = NoFile
      t == [twin EXCEPT
        !.voice = @ \/ dup.voice, !.data = @ \/ dup.data, !.emergency = @ \/ dup.emergency,
        !.encrypted = @ \/ dup.encrypted, !.kid = IF @ = NoKey THEN dup.kid ELSE @,
        !.slot = IF @ = 0 THEN dup.slot ELSE @,
        !.start = MinOf(@, dup.start), !.last = MaxOf(@, dup.last), !.streams = @ + 1,
        !.audio = IF taken THEN dup.audio ELSE @,
        !.audioSid = IF taken /\ dup.audio # NoFile THEN dup.audioSid ELSE @,
        !.audioSlot = IF taken /\ dup.audio # NoFile THEN dup.audioSlot ELSE @,
        !.samples = IF taken /\ dup.audio # NoFile THEN dup.samples ELSE @,
        !.keep = @ \/ dup.keep]
      m1 == DropCall(SetCall(m, t), dup.id)
      To(id) == IF id = dup.id THEN twin.id ELSE id
      m2 == [m1 EXCEPT
        !.store = IF dup.audio # NoFile /\ ~taken THEN Discard(@, dup.audio) ELSE @,
        !.quality = Without(@, {dup.id}),
        !.sess[sid].active = [a \in DOMAIN @ |-> To(@[a])],
        !.sess[sid].last = [[s \in Slots |-> To(@[s])] EXCEPT ![slot] = twin.id]]
  IN NoteKey(m2, twin.id)

----------------------------------------------------------------------------
\* ingest: one decoder line of a stream that is decoding.

Callish(line) == line.kind \in {"call", "voice", "message", "burst"}
IsData(line) == line.data \/ line.kind = "message"
Compatible(line, k) == Nobody \in {line.src, k.src} \/ line.src = k.src

\* The stream enters the model, on the network its ids lead to.
Locate(m1, sid, changed, now) ==
  IF changed \/ m1.sess[sid].net \notin DOMAIN m1.nets THEN Resolve(m1, sid, now) ELSE m1
Enter(m, sid, now) ==
  LET c == m.sess[sid]
  IN [m EXCEPT !.nets[c.net] =
       [m.nets[c.net] EXCEPT !.last = now, !.sessions = @ \cup {sid},
                             !.sites = IF c.site = NoIds THEN @ ELSE @ \cup {c.site},
                             !.freqs = IF c.freq = 0 THEN @ ELSE @ \cup {c.freq}]]
EnterWith(a, sid, now) == Enter(Locate(a.m, sid, a.changed, now), sid, now)
Register(m, sid, line, now) ==
  EnterWith(Absorb([m EXCEPT !.sess[sid].live = TRUE, !.exists = TRUE], sid, line), sid, now)

\* A line of no call's own refines the call in progress on its slot.
NoteEmergency(m, id) == SetCall(m, [FindCall(m, id) EXCEPT !.emergency = TRUE])
RefinePrivate(m, id, line, now) == IF line.priv THEN SetPrivate(m, id, now) ELSE m
RefineKey(m, id, line) == IF line.enc THEN NoteEncrypted(m, id, line) ELSE m
RefineEmergency(m, id, line) == IF line.emerg THEN NoteEmergency(m, id) ELSE m
Refine(m, id, line, now) == RefineKey(RefineEmergency(RefinePrivate(m, id, line, now), id, line), id, line)

\* The call a line with a target continues, by its slot and target, and the
\* one it adopts: seen with and without a slot, or begun without a target.
Keyed(m, sid, line, now) ==
  LET at == <<line.slot, line.tgt>>
      c == m.sess[sid]
      k == IF at \in DOMAIN c.active THEN FindCall(m, c.active[at]) ELSE NoCall
  IN IF Current(k, now) THEN k ELSE NoCall
SlotFits(m, sid, line, now) ==
  LET at(s) == <<s, line.tgt>>
      k(s) == FindCall(m, m.sess[sid].active[at(s)])
  IN {s \in Slots : /\ at(s) \in DOMAIN m.sess[sid].active /\ 0 \in {s, line.slot}
                    /\ Current(k(s), now) /\ Compatible(line, k(s))}
FirstSlot(fits) == CHOOSE s \in fits : s = 1 \/ (s = 2 /\ 1 \notin fits) \/ fits = {0}
GiveSlot(m, sid, k, from, line) ==
  IF k.slot # 0 \/ line.slot = 0 THEN [m |-> m, call |-> k]
  ELSE [m |-> [SetCall(m, [k EXCEPT !.slot = line.slot]) EXCEPT
                 !.sess[sid].active = Put(Without(@, {<<from, line.tgt>>}), <<line.slot, line.tgt>>, k.id)],
        call |-> [k EXCEPT !.slot = line.slot]]
SlotlessAt(m, sid, line, fits) ==
  LET s == FirstSlot(fits)
  IN IF fits = {} THEN [m |-> m, call |-> NoCall]
     ELSE GiveSlot(m, sid, FindCall(m, m.sess[sid].active[<<s, line.tgt>>]), s, line)
Slotless(m, sid, line, now) == SlotlessAt(m, sid, line, SlotFits(m, sid, line, now))
Targetless(m, sid, line, now) ==
  LET k == FreshCall(m, sid, line.slot, now)
  IN IF k # NoCall /\ k.tgt = Nobody /\ Compatible(line, k) THEN k ELSE NoCall

\* The call a line goes with by its ids, its slot or its time; but a voice burst
\* without ids does not turn a data exchange into a voice call.
FoundOf(m, keyed, slotless, targetless) ==
  IF keyed # NoCall THEN [m |-> m, call |-> keyed]
  ELSE IF slotless.call # NoCall THEN slotless
  ELSE [m |-> m, call |-> targetless]
Found(m, sid, line, now) ==
  IF line.tgt = Nobody THEN [m |-> m, call |-> FreshCall(m, sid, line.slot, now)]
  ELSE FoundOf(m, Keyed(m, sid, line, now), Slotless(m, sid, line, now), Targetless(m, sid, line, now))
Fitting(found, line) ==
  LET k == found.call
  IN IF k # NoCall /\ line.speech /\ line.src = Nobody /\ line.tgt = Nobody /\ k.data /\ ~k.voice
     THEN [found EXCEPT !.call = NoCall]
     ELSE IF k # NoCall /\ ~Compatible(line, k)
     THEN [m |-> CloseCall(found.m, k.id), call |-> NoCall]        \* a new talker
     ELSE found
Match(m, sid, line, now) == Fitting(Found(m, sid, line, now), line)

\* The line becomes part of the call: the counts once both ends are known.
Take(m, sid, k, line, now) ==
  LET named == k.tgt = Nobody /\ line.tgt # Nobody
      k1 == [k EXCEPT !.src = IF @ = Nobody THEN line.src ELSE @,
                      !.tgt = IF named THEN line.tgt ELSE @,
                      !.voice = @ \/ line.speech, !.txEnd = IF line.speech THEN 0 ELSE @,
                      !.data = @ \/ IsData(line), !.emergency = @ \/ line.emerg,
                      !.net = IF k.counted THEN @ ELSE m.sess[sid].net, !.last = now]
  IN [SetCall(m, k1) EXCEPT
        !.sess[sid].active = IF named THEN Put(@, <<line.slot, line.tgt>>, k.id) ELSE @,
        !.sess[sid].last[line.slot] = k.id,
        !.quality = IF line.frames > 0 THEN Put(@, k.id, At(@, k.id) + line.frames) ELSE @]
Adopted(m, sid, k, twin, slot) == [m |-> AdoptTwin(m, sid, k, twin, slot), id |-> twin.id]
\* The call that now stands for k, and whether it is k itself.
One(m, sid, k, twins, slot) ==
  IF twins = {} THEN [m |-> m, id |-> k.id] ELSE Adopted(m, sid, k, m.calls[Max(twins)], slot)
CountOnce(a, now) == IF FindCall(a.m, a.id).counted THEN a.m ELSE CountCall(a.m, a.id, now)
Settle(m, sid, k, slot, now) ==
  IF k.counted \/ Nobody \in {k.src, k.tgt} THEN m
  ELSE CountOnce(One(m, sid, k, Twins(m, k, now), slot), now)
SettleId(m, sid, id, slot, now) == Settle(m, sid, FindCall(m, id), slot, now)
Fold(m, sid, id, line, now) ==
  SettleId(RefinePrivate(RefineKey(Take(m, sid, FindCall(m, id), line, now), id, line), id, line, now),
           sid, id, line.slot, now)

Opens(line) == Callish(line) /\ (line.src # Nobody \/ line.tgt # Nobody \/ line.kind = "message")
Opened(m) == [m |-> m, id |-> m.next]
\* The call the line belongs to, opened for it if need be; 0 is none.
Into(found, sid, line, now) ==
  IF found.call # NoCall THEN [m |-> found.m, id |-> found.call.id]
  ELSE IF Opens(line) THEN Opened(OpenCall(found.m, sid, line.slot, now))
  ELSE [m |-> found.m, id |-> 0]
FoldInto(a, sid, line, now) == IF a.id = 0 THEN a.m ELSE Fold(a.m, sid, a.id, line, now)
Extend(m, sid, line, now) == FoldInto(Into(Match(m, sid, line, now), sid, line, now), sid, line, now)

\* The terminator of a DMR talker ends the call's length, not the call.
Terminate(m, id) ==
  SetCall(m, [FindCall(m, id) EXCEPT !.txEnd = IF @ = 0 THEN FindCall(m, id).last ELSE @])

TalkerHeard(m, sid, line, now) ==
  IF line.src = Nobody THEN m ELSE TouchRadio(m, line.src, m.sess[sid].net, now)
Apply(m, sid, line, now, k) ==
  IF line.roster THEN m
  ELSE IF line.tlc THEN IF k = NoCall THEN m ELSE Terminate(m, k.id)
  ELSE IF line.kind = "unknown" THEN IF k = NoCall THEN m ELSE Refine(m, k.id, line, now)
  ELSE IF Callish(line) \/ line.traffic THEN Extend(TalkerHeard(m, sid, line, now), sid, line, now)
  ELSE TalkerHeard(m, sid, line, now)
ApplyNow(m, sid, line, now) == Apply(m, sid, line, now, FreshCall(m, sid, line.slot, now))
Decode(m, sid, line, now) == ApplyNow(Expire(Register(m, sid, line, now), sid, now), sid, line, now)

\* A stream enters the model only with real traffic: until then its ids are
\* kept on the stream alone.
Labelled(m, sid, line) ==
  IF m.sess[sid].family = "auto" /\ line.kind # "unknown" /\ line.fam # ""
  THEN [m EXCEPT !.sess[sid].family = line.fam] ELSE m
IngestAs(m, sid, line, now) ==
  IF m.sess[sid].family # Fam \/ line.crc THEN m
  ELSE IF ~m.sess[sid].live /\ line.kind = "unknown" THEN Absorb(m, sid, line).m
  ELSE Decode(m, sid, line, now)
Ingest(m, sid, line, now) == IF sid \notin DOMAIN m.sess THEN m ELSE IngestAs(Labelled(m, sid, line), sid, line, now)
=============================================================================
