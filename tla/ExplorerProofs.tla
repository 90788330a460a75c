---------------------------- MODULE ExplorerProofs ----------------------------
(***************************************************************************)
(* The recordings of the network explorer, whatever it hears and however   *)
(* small its lists and its disk are: every file being written is a running *)
(* call's, every recording offered is on disk and of one call, and none    *)
(* outlives its call that may not be kept.  And the networks: a stream that*)
(* ends takes no identified one along whose ids do not remain.  And the    *)
(* counts: what two receivers hear at once is counted once.                *)
(*                                                                         *)
(* The inductive invariant is Sound: the calls are a list with ids of      *)
(* their own (Listed), and of their files (Tapes) each is named after its  *)
(* call or after one that was folded into it (Named), which is why a new   *)
(* file, named after a call of the list, is nobody else's; and no file     *)
(* that is written is ever evicted (Apart).  Most operations keep the      *)
(* recordings (Kept), some close calls (Goes), some do more (Fine); the    *)
(* loops over calls and files are folds, proved with Folding.              *)
(*                                                                         *)
(* Closing calls leaves the networks and their ids as they are (SameNets), *)
(* so what a stream's end takes is what Prune takes of them; of the        *)
(* networks that carry a lost one's ids, one with the most ids is either   *)
(* left or covered by one with the very same (CoverRemains).               *)
(*                                                                         *)
(* Every call with both its ends is counted (BothCounted).  Only a line    *)
(* gives a call an end; all else repeats the calls that were there (Echo), *)
(* or opens one and counts those that end with no talker (Quiet).  So a    *)
(* call is counted for its talker when a line settles it, and only if no   *)
(* other stream's is the same (Tallied).                                   *)
(***************************************************************************)
EXTENDS Explorer, SequenceTheorems, FiniteSetTheorems, TLAPS

----------------------------------------------------------------------------
\* The shape of the model's value.

ModelFields == {"sess", "exists", "nets", "tgs", "radios", "calls", "next", "quality", "epoch", "store", "keeps"}
CallFields ==
  {"id", "session", "net", "slot", "src", "tgt", "priv", "voice", "data", "emergency", "encrypted",
   "kid", "keyNoted", "open", "counted", "audio", "audioSid", "audioSlot", "samples", "keep",
   "noAudio", "keyed", "start", "last", "txEnd", "streams", "qual"}
StoreFields == {"on", "index", "open", "evicted"}
IsList(s) == \E n \in Nat : DOMAIN s = 1..n /\ s = [i \in 1..n |-> s[i]]

\* The calls are a list, each with an id of its own that was given out.
Listed(v) ==
  /\ DOMAIN v = ModelFields /\ DOMAIN v.store = StoreFields /\ v.next \in Nat
  /\ IsList(v.calls) /\ IsList(v.store.index)
  /\ \A i \in DOMAIN v.calls : DOMAIN v.calls[i] = CallFields /\ v.calls[i].id \in 1..v.next
  /\ \A i, j \in DOMAIN v.calls : v.calls[i].id = v.calls[j].id => i = j
Has(v, id) == \E i \in DOMAIN v.calls : v.calls[i].id = id
Running(v, id) == \E i \in DOMAIN v.calls : v.calls[i].id = id /\ v.calls[i].open

\* A call that has the same recording: what it carried is still read while it
\* is open.
Alike(k, l) ==
  /\ DOMAIN l = CallFields
  /\ l.id = k.id /\ l.open = k.open /\ l.audio = k.audio /\ l.keep = k.keep
  /\ ~k.open => /\ l.encrypted = k.encrypted /\ l.keyed = k.keyed
                /\ l.data = k.data /\ l.voice = k.voice
\* A value with the same recordings.
Kept(v, w) ==
  /\ DOMAIN w = ModelFields
  /\ w.next = v.next /\ w.epoch = v.epoch /\ w.store = v.store
  /\ IsList(w.calls) /\ DOMAIN w.calls = DOMAIN v.calls
  /\ \A i \in DOMAIN v.calls : Alike(v.calls[i], w.calls[i])
\* k is a call of v's, further along.
Of(v, k) == \E i \in DOMAIN v.calls : Alike(v.calls[i], k)

\* What leaves the calls and the store alone keeps the recordings.
LEMMA Untouched ==
  ASSUME NEW v, NEW w, Listed(v), DOMAIN w = ModelFields, w.calls = v.calls,
         w.next = v.next, w.epoch = v.epoch, w.store = v.store
  PROVE  Kept(v, w)
BY DEF Listed, Kept, Alike

\* Keeping them twice keeps them.
LEMMA KeptTwice ==
  ASSUME NEW u, NEW v, NEW w, Kept(u, v), Kept(v, w) PROVE Kept(u, w)
BY DEF Kept, Alike

\* The shape is kept with them, and which calls there are.
LEMMA KeptListed ==
  ASSUME NEW v, NEW w, Listed(v), Kept(v, w)
  PROVE  /\ Listed(w)
         /\ \A id : Has(v, id) => Has(w, id)
         /\ \A id : Running(v, id) => Running(w, id)
<1>1. Listed(w) BY DEF Listed, Kept, Alike
<1>2. \A id : Has(v, id) => Has(w, id) BY DEF Kept, Alike, Has
<1>3. \A id : Running(v, id) => Running(w, id) BY DEF Kept, Alike, Running
<1> QED BY <1>1, <1>2, <1>3

\* The one call that has an id is found by it.
LEMMA Finds ==
  ASSUME NEW v, Listed(v), NEW i \in DOMAIN v.calls
  PROVE  FindCall(v, v.calls[i].id) = v.calls[i]
<1> DEFINE at == {j \in DOMAIN v.calls : v.calls[j].id = v.calls[i].id}
<1>1. at = {i} BY DEF Listed
<1>2. Max({i}) = i BY DOMAIN v.calls \subseteq Nat DEF Max, Listed, IsList
<1> QED BY <1>1, <1>2 DEF FindCall

\* ... and no other.
LEMMA FindsNone == ASSUME NEW v, NEW id, ~Has(v, id) PROVE FindCall(v, id) = NoCall
BY DEF FindCall, Has

\* Changing a call in what does not concern its recording.
LEMMA SetKept ==
  ASSUME NEW v, NEW k, Listed(v), Of(v, k) PROVE Kept(v, SetCall(v, k))
<1> PICK i \in DOMAIN v.calls : Alike(v.calls[i], k) BY DEF Of
<1>1. \A j \in DOMAIN v.calls : v.calls[j].id = k.id <=> j = i BY DEF Listed, Alike
<1>2. PICK n \in Nat : DOMAIN v.calls = 1..n BY DEF Listed, IsList
<1>3. SetCall(v, k).calls = [j \in 1..n |-> IF j = i THEN k ELSE v.calls[j]]
  BY <1>1, <1>2 DEF SetCall, Listed, ModelFields
<1> DEFINE w == SetCall(v, k)
<1>4. /\ DOMAIN w = ModelFields /\ w.next = v.next /\ w.epoch = v.epoch /\ w.store = v.store
  BY DEF SetCall, Listed, ModelFields
<1> HIDE DEF w
<1>5. IsList(w.calls) /\ DOMAIN w.calls = DOMAIN v.calls BY <1>2, <1>3 DEF IsList, w
<1>6. \A j \in DOMAIN v.calls : Alike(v.calls[j], w.calls[j])
  BY <1>2, <1>3 DEF w, Alike, Listed
<1> QED BY <1>4, <1>5, <1>6 DEF Kept, w

----------------------------------------------------------------------------
\* What keeps the recordings: networks, talkgroups and radios.

\* One more step of the same kind.
LEMMA Further ==
  ASSUME NEW u, NEW v, NEW w, Listed(u), Kept(u, v), Listed(v) => Kept(v, w)
  PROVE  Kept(u, w) /\ Listed(v) /\ Listed(w)
BY KeptListed, KeptTwice

\* Nothing at all.
LEMMA Nothing == ASSUME NEW v, Listed(v) PROVE Kept(v, v)
BY Untouched DEF Listed

\* What is kept of a stream, a network, a radio, a talkgroup or a voice.
LEMMA FieldKept ==
  ASSUME NEW v, NEW f, Listed(v)
  PROVE  /\ Kept(v, [v EXCEPT !.sess = f]) /\ Kept(v, [v EXCEPT !.nets = f])
         /\ Kept(v, [v EXCEPT !.radios = f]) /\ Kept(v, [v EXCEPT !.tgs = f])
         /\ Kept(v, [v EXCEPT !.quality = f]) /\ Kept(v, [v EXCEPT !.exists = f])
<1> USE DEF Listed, ModelFields
<1>1. Kept(v, [v EXCEPT !.sess = f]) BY Untouched
<1>2. Kept(v, [v EXCEPT !.nets = f]) BY Untouched
<1>3. Kept(v, [v EXCEPT !.radios = f]) BY Untouched
<1>4. Kept(v, [v EXCEPT !.tgs = f]) BY Untouched
<1>5. Kept(v, [v EXCEPT !.quality = f]) BY Untouched
<1>6. Kept(v, [v EXCEPT !.exists = f]) BY Untouched
<1> QED BY <1>1, <1>2, <1>3, <1>4, <1>5, <1>6

\* ... and after other steps of the kind.
LEMMA FieldThen ==
  ASSUME NEW v, NEW u, NEW f, Listed(v), Kept(v, u)
  PROVE  /\ Kept(v, [u EXCEPT !.sess = f]) /\ Kept(v, [u EXCEPT !.nets = f])
         /\ Kept(v, [u EXCEPT !.radios = f]) /\ Kept(v, [u EXCEPT !.tgs = f])
         /\ Kept(v, [u EXCEPT !.quality = f]) /\ Kept(v, [u EXCEPT !.exists = f])
BY KeptListed, FieldKept, KeptTwice

\* A line's ids (absorb_identity).
LEMMA AbsorbKept ==
  ASSUME NEW v, NEW sid, NEW line, Listed(v) PROVE Kept(v, Absorb(v, sid, line).m)
<1> DEFINE c == [v.sess[sid] EXCEPT !.adjacent = Adjacent(v.sess[sid], line)]
<1>1. Kept(v, [v EXCEPT !.sess[sid] = c]) BY Untouched DEF Listed, ModelFields
<1>2. \A w, d, ids : Listed(w) => Kept(w, NoteNeighbour(w, d, ids))
  BY Untouched DEF NoteNeighbour, Listed, ModelFields
<1>3. Kept(v, NoteNeighbour([v EXCEPT !.sess[sid] = c], c, line.ids)) BY <1>1, <1>2, Further
<1>4. \A old, s : Kept(v, Believe(v, sid, old, s).m) BY Untouched DEF Believe, Listed, ModelFields
<1>5. \A d, s : Kept(v, Learn(v, sid, d, s).m) BY <1>4 DEF Learn
<1>6. \/ Absorb(v, sid, line).m = [v EXCEPT !.sess[sid] = c]
      \/ Absorb(v, sid, line).m = NoteNeighbour([v EXCEPT !.sess[sid] = c], c, line.ids)
      \/ Absorb(v, sid, line).m = Learn(v, sid, c, Seen(c, line.ids)).m
  BY DEF Absorb
<1> QED BY <1>1, <1>3, <1>5, <1>6

\* Two networks become one (merge_network).
LEMMA MergeKept ==
  ASSUME NEW v, NEW from, NEW to, Listed(v) PROVE Kept(v, MergeNetwork(v, from, to))
<1> DEFINE w == MergeNetwork(v, from, to)
<1>1. CASE ~({from, to} \subseteq DOMAIN v.nets) BY <1>1, Nothing DEF MergeNetwork
<1>2. CASE {from, to} \subseteq DOMAIN v.nets
  <2>1. /\ DOMAIN w = ModelFields /\ w.next = v.next /\ w.epoch = v.epoch /\ w.store = v.store
        /\ w.calls = [i \in DOMAIN v.calls |->
             IF v.calls[i].net = from THEN [v.calls[i] EXCEPT !.net = to] ELSE v.calls[i]]
    BY <1>2 DEF MergeNetwork, Listed, ModelFields
  <2> HIDE DEF w
  <2>2. IsList(w.calls) /\ DOMAIN w.calls = DOMAIN v.calls BY <2>1 DEF IsList, Listed
  <2>3. \A i \in DOMAIN v.calls : Alike(v.calls[i], w.calls[i])
    BY <2>1 DEF Alike, Listed, CallFields
  <2> QED BY <2>1, <2>2, <2>3 DEF Kept, w
<1> QED BY <1>1, <1>2

\* A stream finds its network (resolve_network).
LEMMA ResolveKept ==
  ASSUME NEW v, NEW sid, NEW t, Listed(v) PROVE Kept(v, Resolve(v, sid, t))
<1>1. \A u, id : Listed(u) => Kept(u, NameNetwork(u, sid, id, t)) BY FieldKept DEF NameNetwork
<1>2. \A u, key : Listed(u) => Kept(u, FoldBucket(u, sid, key)) BY MergeKept, Nothing DEF FoldBucket
<1>3. \A u, key : Listed(u) => Kept(u, [u EXCEPT !.sess[sid].net = key])
  BY Untouched DEF Listed, ModelFields
<1> SUFFICES ASSUME NEW id PROVE Kept(v, JoinNetwork(v, sid, id, t)) BY DEF Resolve
<1> DEFINE a == NameNetwork(v, sid, id, t)
           b == FoldBucket(a, sid, id.key)
<1>4. Kept(v, a) BY <1>1
<1>5. Kept(v, b) BY <1>2, <1>4, Further
<1> HIDE DEF a, b
<1>6. Kept(v, [b EXCEPT !.sess[sid].net = id.key]) BY <1>3, <1>5, Further
<1> QED BY <1>6 DEF JoinNetwork, a, b

\* A stream that ends or moves takes its networks along (prune_session_locked).
LEMMA PruneKept ==
  ASSUME NEW v, NEW sid, NEW retune, Listed(v) PROVE Kept(v, Prune(v, sid, retune))
<1>1. DOMAIN Prune(v, sid, retune) = ModelFields BY DEF Prune, Listed, ModelFields
<1>2. Prune(v, sid, retune).calls = v.calls BY DEF Prune, Listed, ModelFields
<1>3. Prune(v, sid, retune).next = v.next BY DEF Prune, Listed, ModelFields
<1>4. Prune(v, sid, retune).epoch = v.epoch BY DEF Prune, Listed, ModelFields
<1>5. Prune(v, sid, retune).store = v.store BY DEF Prune, Listed, ModelFields
<1> QED BY <1>1, <1>2, <1>3, <1>4, <1>5, Untouched

\* A radio is heard.
LEMMA TouchKept ==
  ASSUME NEW v, NEW r, NEW net, NEW t, Listed(v) PROVE Kept(v, TouchRadio(v, r, net, t))
<1>1. Kept(v, EnsureRadio(v, r, t)) BY FieldKept DEF EnsureRadio
<1> QED BY <1>1, FieldThen DEF TouchRadio

\* A called radio gets its peer.
LEMMA CalledByKept ==
  ASSUME NEW v, NEW k, NEW t, Listed(v) PROVE Kept(v, CalledBy(v, k, t))
<1>1. Kept(v, EnsureRadio(v, k.tgt, t)) BY FieldKept DEF EnsureRadio
<1> QED BY <1>1, FieldThen DEF CalledBy

----------------------------------------------------------------------------
\* What is counted for a call keeps the recordings.

\* A call of the list is further along than itself.
LEMMA OfItself == ASSUME NEW v, Listed(v), NEW i \in DOMAIN v.calls PROVE Of(v, v.calls[i])
BY DEF Listed, Of, Alike

\* A counted call's key (note_enc_counts).
LEMMA NoteKeyKept ==
  ASSUME NEW v, NEW id, Listed(v), Has(v, id) PROVE Kept(v, NoteKey(v, id))
<1> PICK i \in DOMAIN v.calls : v.calls[i].id = id BY DEF Has
<1> DEFINE k == v.calls[i]
           u == SetCall(v, [k EXCEPT !.keyNoted = TRUE])
<1>1. FindCall(v, id) = k BY Finds
<1>2. Of(v, [k EXCEPT !.keyNoted = TRUE]) BY DEF Of, Alike, Listed, CallFields
<1>3. Kept(v, u) /\ Listed(u) BY <1>2, SetKept, KeptListed
<1> HIDE DEF u
<1>4. \A f, g, h : Kept(v, [u EXCEPT !.nets = f, !.tgs = g, !.radios = h])
  <2> TAKE f, g, h
  <2> DEFINE a == [u EXCEPT !.nets = f]
             b == [a EXCEPT !.tgs = g]
  <2>1. Kept(v, a) BY <1>3, FieldThen
  <2> HIDE DEF a
  <2>2. Kept(v, b) BY <2>1, FieldThen
  <2> HIDE DEF b
  <2>3. Kept(v, [b EXCEPT !.radios = h]) BY <2>2, FieldThen
  <2> QED BY <2>3 DEF a, b
<1>5. CASE \E f, g, h : NoteKey(v, id) = [u EXCEPT !.nets = f, !.tgs = g, !.radios = h]
  <2> PICK f, g, h : NoteKey(v, id) = [u EXCEPT !.nets = f, !.tgs = g, !.radios = h] BY <1>5
  <2>1. Kept(v, [u EXCEPT !.nets = f, !.tgs = g, !.radios = h]) BY <1>4
  <2> QED BY <2>1
<1>6. NoteKey(v, id) = v \/ \E f, g, h : NoteKey(v, id) = [u EXCEPT !.nets = f, !.tgs = g, !.radios = h]
  BY <1>1, Zenon DEF NoteKey, u
<1> QED BY <1>5, <1>6, Nothing

\* Its talker (TouchRadio is touch_radio).
LEMMA CountTalkerKept ==
  ASSUME NEW v, NEW k, NEW t, Listed(v), Of(v, k) PROVE Kept(v, CountTalker(v, k, t))
<1> DEFINE u == SetCall(v, k)
           w == TouchRadio(u, k.src, k.net, t)
<1>1. Kept(v, u) /\ Listed(u) BY SetKept, KeptListed
<1>2. CASE k.src = Nobody BY <1>1, <1>2 DEF CountTalker
<1>3. CASE k.src # Nobody
  <2>1. Kept(u, w) /\ Listed(w) BY <1>1, TouchKept, KeptListed
  <2>2. \A f : Kept(w, [w EXCEPT !.radios = f]) BY <2>1, FieldKept
  <2>3. \E f : CountTalker(v, k, t) = [w EXCEPT !.radios = f] BY <1>3 DEF CountTalker
  <2> HIDE DEF u, w
  <2> QED BY <1>1, <2>1, <2>2, <2>3, KeptTwice
<1> QED BY <1>2, <1>3

\* Its target, a radio or a talkgroup.
LEMMA CountTargetKept ==
  ASSUME NEW v, NEW k, NEW t, Listed(v) PROVE Kept(v, CountTarget(v, k, t))
<1> DEFINE some(f) == [v EXCEPT !.radios = f]
<1>1. \A f : Kept(v, some(f)) /\ Listed(some(f)) BY FieldKept, KeptListed
<1> HIDE DEF some
<1>2. Kept(v, CountPeer(v, k, t))
  <2>1. CountPeer(v, k, t) = v \/ \E f : CountPeer(v, k, t) = CalledBy(some(f), k, t)
    BY Zenon DEF CountPeer, some
  <2>2. \A f : Kept(v, CalledBy(some(f), k, t)) BY <1>1, CalledByKept, KeptTwice
  <2> QED BY <2>1, <2>2, Nothing
<1>3. Kept(v, CountGroup(v, k, t))
  <2>1. PICK u : /\ u = v \/ \E f : u = some(f)
                 /\ \E f : CountGroup(v, k, t) = [EnsureTalkgroup(u, k.tgt, t) EXCEPT !.tgs = f]
    BY Zenon DEF CountGroup, some
  <2>2. Kept(v, u) BY <1>1, <2>1, Nothing
  <2> DEFINE w == EnsureTalkgroup(u, k.tgt, t)
  <2>3. Kept(v, w) BY <2>2, FieldThen DEF EnsureTalkgroup
  <2>4. PICK f : CountGroup(v, k, t) = [w EXCEPT !.tgs = f] BY <2>1
  <2> HIDE DEF w
  <2>5. Kept(v, [w EXCEPT !.tgs = f]) BY <2>3, FieldThen
  <2> QED BY <2>4, <2>5
<1> QED BY <1>2, <1>3 DEF CountTarget

\* All of it, and its network (count_call).
LEMMA CountCallKept ==
  ASSUME NEW v, NEW id, NEW t, Listed(v), Has(v, id) PROVE Kept(v, CountCall(v, id, t))
<1> PICK i \in DOMAIN v.calls : v.calls[i].id = id BY DEF Has
<1> DEFINE k == [v.calls[i] EXCEPT !.counted = TRUE]
           a == CountTalker(v, k, t)
           b == CountTarget(a, k, t)
           c == CountNetwork(b, k.net)
<1>1. CountCall(v, id, t) = NoteKey(c, id) BY Finds DEF CountCall, CountFor
<1>2. Of(v, k) BY DEF Of, Alike, Listed, CallFields
<1> HIDE DEF k
<1>3. Kept(v, a) /\ Listed(a) BY <1>2, CountTalkerKept, KeptListed
<1> HIDE DEF a
<1>4. Kept(a, b) /\ Listed(b) BY <1>3, CountTargetKept, KeptListed
<1> HIDE DEF b
<1>5. Kept(b, c) /\ Listed(c)
  <2>1. Kept(b, c) BY <1>4, FieldKept, Nothing DEF CountNetwork
  <2> QED BY <1>4, <2>1, KeptListed
<1> HIDE DEF c
<1>6. Kept(v, b) BY <1>3, <1>4, KeptTwice
<1>7. Kept(v, c) BY <1>5, <1>6, KeptTwice
<1>8. Kept(c, NoteKey(c, id)) BY <1>5, <1>7, KeptListed, NoteKeyKept
<1> QED BY <1>1, <1>7, <1>8, KeptTwice

\* A call turns out to be unit-to-unit (set_private).
LEMMA SetPrivateKept ==
  ASSUME NEW v, NEW id, NEW t, Listed(v), Has(v, id) PROVE Kept(v, SetPrivate(v, id, t))
<1> PICK i \in DOMAIN v.calls : v.calls[i].id = id BY DEF Has
<1> DEFINE k == v.calls[i]
           a == SetCall(v, [k EXCEPT !.priv = TRUE])
           b == UntieTalker(a, k)
           c == UntieGroup(b, k)
<1>1. FindCall(v, id) = k BY Finds
<1>2. Of(v, [k EXCEPT !.priv = TRUE]) BY DEF Of, Alike, Listed, CallFields
<1>3. SetPrivate(v, id, t) \in {v, a, TiePeer(c, k, t)} BY <1>1 DEF SetPrivate, TurnPrivate
<1>4. Kept(v, a) /\ Listed(a) BY <1>2, SetKept, KeptListed
<1> HIDE DEF k, a
<1>5. Kept(a, b) BY <1>4, FieldKept, Nothing DEF UntieTalker
<1>6. Kept(v, b) /\ Listed(b) BY <1>4, <1>5, KeptTwice, KeptListed
<1> HIDE DEF b
<1>7. Kept(b, c) BY <1>6, FieldKept, Nothing DEF UntieGroup
<1>8. Kept(v, c) /\ Listed(c) BY <1>6, <1>7, KeptTwice, KeptListed
<1> HIDE DEF c
<1>9. Kept(v, TiePeer(c, k, t))
  <2> DEFINE d == IF k.src \in DOMAIN c.radios THEN [c EXCEPT !.radios[k.src].peers = Bump(@, k.tgt)] ELSE c
  <2>1. Kept(c, d) BY <1>8, FieldKept, Nothing
  <2>2. Kept(v, d) /\ Listed(d) BY <1>8, <2>1, KeptTwice, KeptListed
  <2>3. TiePeer(c, k, t) = CalledBy(d, k, t) BY DEF TiePeer
  <2> HIDE DEF d
  <2> QED BY <2>2, <2>3, CalledByKept, KeptTwice
<1> QED BY <1>3, <1>4, <1>9, Nothing

\* A call turns out to be encrypted while it runs (note_encrypted).
LEMMA NoteEncryptedKept ==
  ASSUME NEW v, NEW id, NEW line, Listed(v), Running(v, id) PROVE Kept(v, NoteEncrypted(v, id, line))
<1> PICK i \in DOMAIN v.calls : v.calls[i].id = id /\ v.calls[i].open BY DEF Running
<1> DEFINE k == [v.calls[i] EXCEPT !.encrypted = TRUE, !.kid = IF @ = NoKey THEN line.kid ELSE @]
           a == SetCall(v, k)
<1>1. NoteEncrypted(v, id, line) = NoteKey(a, id) BY Finds DEF NoteEncrypted
<1>2. Of(v, k) BY DEF Of, Alike, Listed, CallFields
<1> HIDE DEF k
<1>3. Kept(v, a) /\ Listed(a) /\ Has(a, id) BY <1>2, SetKept, KeptListed DEF Has
<1> QED BY <1>1, <1>3, NoteKeyKept, KeptTwice

\* What a call that ended leaves at its talkgroup.
LEMMA MarkClosedKept ==
  ASSUME NEW v, NEW id, Listed(v) PROVE Kept(v, MarkClosed(v, id))
<1> DEFINE k == FindCall(v, id)
           a == [v EXCEPT !.tgs[k.tgt].emerg = @ + (IF k.emergency THEN 1 ELSE 0)]
<1>1. Kept(v, a) BY FieldKept
<1>2. \A f : Kept(v, [a EXCEPT !.tgs = f]) BY <1>1, FieldThen
<1>3. MarkClosed(v, id) = v \/ \E f : MarkClosed(v, id) = [a EXCEPT !.tgs = f]
  BY DEF MarkTalkgroup, MarkClosed
<1> HIDE DEF a
<1> QED BY <1>2, <1>3, Nothing

\* A call whose talker was never read (close_call).
LEMMA CountLateKept ==
  ASSUME NEW v, NEW k, Listed(v), Has(v, k.id) PROVE Kept(v, CountLate(v, k))
BY CountCallKept, Nothing DEF CountLate

----------------------------------------------------------------------------
\* What keeps the recordings: a line, up to the call it belongs to.

\* The stream enters the model (ingest, register).
LEMMA RegisterKept ==
  ASSUME NEW v, NEW sid, NEW line, NEW t, Listed(v) PROVE Kept(v, Register(v, sid, line, t))
<1> DEFINE a == [v EXCEPT !.sess[sid].live = TRUE, !.exists = TRUE]
           b == Absorb(a, sid, line)
           c == Locate(b.m, sid, b.changed, t)
<1>1. Kept(v, a)
  <2> DEFINE d == [v EXCEPT !.sess[sid].live = TRUE]
  <2>1. Kept(v, d) BY FieldKept
  <2> HIDE DEF d
  <2>2. Kept(v, [d EXCEPT !.exists = TRUE]) BY <2>1, FieldThen
  <2> QED BY <2>2 DEF d
<1>2. Listed(a) BY <1>1, KeptListed
<1> HIDE DEF a
<1>3. Kept(v, b.m) BY <1>1, <1>2, AbsorbKept, KeptTwice
<1>4. Listed(b.m) BY <1>3, KeptListed
<1> HIDE DEF b
<1>5. Kept(v, c)
  <2>1. Kept(b.m, c) BY <1>4, ResolveKept, Nothing DEF Locate
  <2> QED BY <1>3, <2>1, KeptTwice
<1> HIDE DEF c
<1>6. Kept(v, Enter(c, sid, t)) BY <1>5, FieldThen, ZenonT(40) DEF Enter
<1> QED BY <1>6 DEF Register, EnterWith, a, b, c

\* A line of no call's own (refine).
LEMMA RefineKept ==
  ASSUME NEW v, NEW id, NEW line, NEW t, Listed(v), Running(v, id) PROVE Kept(v, Refine(v, id, line, t))
<1>1. Has(v, id) BY DEF Has, Running
<1> DEFINE a == RefinePrivate(v, id, line, t)
           b == RefineEmergency(a, id, line)
<1>2. Kept(v, a) BY <1>1, SetPrivateKept, Nothing DEF RefinePrivate
<1>3. Listed(a) /\ Running(a, id) BY <1>2, KeptListed
<1> HIDE DEF a
<1>4. Kept(a, NoteEmergency(a, id))
  <2> PICK i \in DOMAIN a.calls : a.calls[i].id = id BY <1>3 DEF Running
  <2>1. Of(a, [a.calls[i] EXCEPT !.emergency = TRUE]) BY <1>3 DEF Of, Alike, Listed, CallFields
  <2>2. NoteEmergency(a, id) = SetCall(a, [a.calls[i] EXCEPT !.emergency = TRUE])
    BY <1>3, Finds DEF NoteEmergency
  <2> QED BY <1>3, <2>1, <2>2, SetKept
<1>5. Kept(a, b) BY <1>3, <1>4, Nothing DEF RefineEmergency
<1>6. Kept(v, b) /\ Listed(b) /\ Running(b, id) BY <1>2, <1>3, <1>5, KeptTwice, KeptListed
<1> HIDE DEF b
<1>7. Kept(b, RefineKey(b, id, line)) BY <1>6, NoteEncryptedKept, Nothing DEF RefineKey
<1>8. Kept(v, RefineKey(b, id, line)) BY <1>6, <1>7, KeptTwice
<1> QED BY <1>8 DEF Refine, a, b

\* What is known of the call it belongs to.
LEMMA TakeKept ==
  ASSUME NEW v, NEW sid, NEW id, NEW line, NEW t, Listed(v), Running(v, id)
  PROVE  Kept(v, Take(v, sid, FindCall(v, id), line, t))
<1> PICK i \in DOMAIN v.calls : v.calls[i].id = id /\ v.calls[i].open BY DEF Running
<1> DEFINE k == v.calls[i]
           named == k.tgt = Nobody /\ line.tgt # Nobody
           l == [k EXCEPT !.src = IF @ = Nobody THEN line.src ELSE @,
                          !.tgt = IF named THEN line.tgt ELSE @,
                          !.voice = @ \/ line.speech, !.txEnd = IF line.speech THEN 0 ELSE @,
                          !.data = @ \/ IsData(line), !.emergency = @ \/ line.emerg,
                          !.net = IF k.counted THEN @ ELSE v.sess[sid].net, !.last = t]
           a == SetCall(v, l)
<1>1. FindCall(v, id) = k BY Finds
<1>2. Of(v, l)
  <2>1. DOMAIN l = CallFields /\ l.id = k.id /\ l.open = k.open /\ l.audio = k.audio /\ l.keep = k.keep
    BY ZenonT(60) DEF Listed, CallFields
  <2> HIDE DEF l
  <2> QED BY <2>1 DEF Of, Alike
<1> HIDE DEF l
<1>3. Kept(v, a) BY <1>2, SetKept
<1>4. Take(v, sid, k, line, t) =
        [a EXCEPT
           !.sess[sid].active = IF named THEN Put(@, <<line.slot, line.tgt>>, k.id) ELSE @,
           !.sess[sid].last[line.slot] = k.id,
           !.quality = IF line.frames > 0 THEN Put(@, k.id, At(@, k.id) + line.frames) ELSE @]
  BY Zenon DEF Take, a, l
<1> HIDE DEF a
<1> DEFINE b == [a EXCEPT !.sess[sid].active = IF named THEN Put(@, <<line.slot, line.tgt>>, k.id) ELSE @]
           c == [b EXCEPT !.sess[sid].last[line.slot] = k.id]
           d == [c EXCEPT !.quality = IF line.frames > 0 THEN Put(@, k.id, At(@, k.id) + line.frames) ELSE @]
<1>5. Take(v, sid, k, line, t) = d
  <2> HIDE DEF k, named
  <2> QED BY <1>4, Zenon
<1>6. Kept(v, b) BY <1>3, FieldThen
<1> HIDE DEF b
<1>7. Kept(v, c) BY <1>6, FieldThen
<1> HIDE DEF c
<1>8. Kept(v, d) BY <1>7, FieldThen
<1> QED BY <1>1, <1>5, <1>8

\* A terminator (DMR's TLC).
LEMMA TerminateKept ==
  ASSUME NEW v, NEW id, Listed(v), Has(v, id) PROVE Kept(v, Terminate(v, id))
<1> PICK i \in DOMAIN v.calls : v.calls[i].id = id BY DEF Has
<1> DEFINE k == [v.calls[i] EXCEPT !.txEnd = IF @ = 0 THEN v.calls[i].last ELSE @]
<1>1. Terminate(v, id) = SetCall(v, k) BY Finds DEF Terminate
<1>2. Of(v, k) BY DEF Of, Alike, Listed, CallFields
<1> QED BY <1>1, <1>2, SetKept

\* A talker on its own.
LEMMA TalkerKept ==
  ASSUME NEW v, NEW sid, NEW line, NEW t, Listed(v) PROVE Kept(v, TalkerHeard(v, sid, line, t))
BY TouchKept, Nothing DEF TalkerHeard

\* The call that is current on a slot is a call of the list, running.
LEMMA FreshRuns ==
  ASSUME NEW v, NEW id, NEW t, Listed(v), Current(FindCall(v, id), t)
  PROVE  \E i \in DOMAIN v.calls : FindCall(v, id) = v.calls[i] /\ v.calls[i].id = id /\ v.calls[i].open
<1>1. Has(v, id)
  <2> SUFFICES ASSUME ~Has(v, id) PROVE FALSE OBVIOUS
  <2> QED BY FindsNone DEF Current, NoCall
<1> PICK i \in DOMAIN v.calls : v.calls[i].id = id BY <1>1 DEF Has
<1> QED BY Finds DEF Current

----------------------------------------------------------------------------
\* The recordings, and what changes one call's.

Clean(k) == (k.encrypted => k.keyed) /\ (k.data => k.voice)
Written(v) == \A f \in v.store.open : \E i \in DOMAIN v.calls : v.calls[i].open /\ v.calls[i].audio = f
Offered(v) ==
  \A i \in DOMAIN v.calls :
    /\ v.calls[i].keep = (v.calls[i].audio # NoFile)
    /\ v.calls[i].audio # NoFile => v.calls[i].audio \in Indexed(v.store) \cup v.store.evicted
Owned(v) ==
  \A i, j \in DOMAIN v.calls :
    v.calls[i].audio # NoFile /\ v.calls[i].audio = v.calls[j].audio => i = j
\* A file has the name of its call, or of one that was folded into its call.
Named(v) ==
  \A i \in DOMAIN v.calls : v.calls[i].audio # NoFile =>
    \E n \in 1..v.next : v.calls[i].audio = <<n, v.epoch>> /\ (n = v.calls[i].id \/ ~Has(v, n))
Apart(v) == v.store.evicted \cap v.store.open = {} /\ NoFile \notin v.store.open
Ended(v) == \A i \in DOMAIN v.calls : ~v.calls[i].open /\ v.calls[i].audio # NoFile => Clean(v.calls[i])
Tapes(v) == Written(v) /\ Offered(v) /\ Owned(v) /\ Named(v) /\ Apart(v) /\ Ended(v)
Good(v) == Listed(v) /\ Tapes(v)

\* What keeps the recordings keeps them good.
LEMMA KeptGood == ASSUME NEW v, NEW w, Good(v), Kept(v, w) PROVE Good(w)
<1>1. Listed(w) BY KeptListed DEF Good
<1>2. Written(w) BY DEF Good, Tapes, Written, Kept, Alike
<1>3. Offered(w) BY DEF Good, Tapes, Offered, Kept, Alike
<1>4. Owned(w) BY DEF Good, Tapes, Owned, Kept, Alike
<1>5. Named(w)
  <2>1. \A n : Has(w, n) => Has(v, n) BY DEF Has, Kept, Alike
  <2> QED BY <2>1 DEF Good, Tapes, Named, Kept, Alike
<1>6. Apart(w) BY DEF Good, Tapes, Apart, Kept
<1>7. Ended(w) BY DEF Good, Tapes, Ended, Kept, Alike, Clean
<1> QED BY <1>1, <1>2, <1>3, <1>4, <1>5, <1>6, <1>7 DEF Good, Tapes

\* Only the i-th call changed, and the store.
Changed(v, w, i) ==
  /\ DOMAIN w = ModelFields /\ w.next = v.next /\ w.epoch = v.epoch
  /\ DOMAIN w.store = StoreFields /\ IsList(w.store.index)
  /\ IsList(w.calls) /\ DOMAIN w.calls = DOMAIN v.calls
  /\ \A j \in DOMAIN v.calls : j # i => w.calls[j] = v.calls[j]
  /\ DOMAIN w.calls[i] = CallFields /\ w.calls[i].id = v.calls[i].id

\* The shape stays, and which calls there are.
LEMMA ChangedListed ==
  ASSUME NEW v, NEW w, NEW i \in DOMAIN v.calls, Listed(v), Changed(v, w, i)
  PROVE  Listed(w) /\ \A n : Has(w, n) <=> Has(v, n)
<1>1. \A j \in DOMAIN v.calls : DOMAIN w.calls[j] = CallFields /\ w.calls[j].id = v.calls[j].id
  BY DEF Changed, Listed
<1>2. Listed(w) BY <1>1 DEF Changed, Listed
<1>3. \A n : Has(w, n) <=> Has(v, n) BY <1>1 DEF Changed, Has
<1> QED BY <1>2, <1>3

\* The call has no recording any more: its file is closed and may be gone.
LEMMA DroppedGood ==
  ASSUME NEW v, NEW w, NEW i \in DOMAIN v.calls, Good(v), Changed(v, w, i),
         w.calls[i].audio = NoFile, w.calls[i].keep = FALSE,
         w.store.open = v.store.open \ {v.calls[i].audio},
         Indexed(v.store) \ {v.calls[i].audio} \subseteq Indexed(w.store),
         w.store.evicted = v.store.evicted
  PROVE  Good(w)
<1>1. Listed(w) /\ \A n : Has(w, n) <=> Has(v, n) BY ChangedListed DEF Good
<1>2. Written(w) BY DEF Good, Tapes, Written, Changed
<1>3. ASSUME NEW j \in DOMAIN w.calls
      PROVE  /\ w.calls[j].keep = (w.calls[j].audio # NoFile)
             /\ w.calls[j].audio # NoFile => w.calls[j].audio \in Indexed(w.store) \cup w.store.evicted
  <2>1. CASE j = i BY <2>1
  <2>2. CASE j # i
    <3>1. w.calls[j] = v.calls[j] /\ j \in DOMAIN v.calls BY <2>2 DEF Changed
    <3>2. v.calls[j].audio # NoFile => v.calls[j].audio # v.calls[i].audio
      BY <2>2, <3>1 DEF Good, Tapes, Owned
    <3>3. /\ v.calls[j].keep = (v.calls[j].audio # NoFile)
          /\ v.calls[j].audio # NoFile => v.calls[j].audio \in Indexed(v.store) \cup v.store.evicted
      BY <3>1 DEF Good, Tapes, Offered
    <3> QED BY <3>1, <3>2, <3>3
  <2> QED BY <2>1, <2>2
<1>4. Owned(w) BY DEF Good, Tapes, Owned, Changed
<1>5. Named(w) BY <1>1 DEF Good, Tapes, Named, Changed
<1>6. Apart(w) BY DEF Good, Tapes, Apart
<1>7. Ended(w) BY DEF Good, Tapes, Ended, Changed
<1>8. Offered(w) BY <1>3 DEF Offered
<1> QED BY <1>1, <1>2, <1>8, <1>4, <1>5, <1>6, <1>7 DEF Good, Tapes

\* The call ended, and its recording stays.
LEMMA FinishedGood ==
  ASSUME NEW v, NEW w, NEW i \in DOMAIN v.calls, Good(v), Changed(v, w, i),
         w.calls[i].audio = v.calls[i].audio, w.calls[i].keep = v.calls[i].keep,
         w.calls[i].audio # NoFile => Clean(w.calls[i]),
         w.store.open = v.store.open \ {v.calls[i].audio},
         w.store.index = v.store.index, w.store.evicted = v.store.evicted
  PROVE  Good(w)
<1>1. Listed(w) /\ \A n : Has(w, n) <=> Has(v, n) BY ChangedListed DEF Good
<1>2. Written(w) BY DEF Good, Tapes, Written, Changed
<1>3. Offered(w) BY DEF Good, Tapes, Offered, Changed, Indexed
<1>4. Owned(w) BY DEF Good, Tapes, Owned, Changed
<1>5. Named(w) BY <1>1 DEF Good, Tapes, Named, Changed
<1>6. Apart(w) BY DEF Good, Tapes, Apart
<1>7. Ended(w) BY DEF Good, Tapes, Ended, Changed
<1> QED BY <1>1, <1>2, <1>3, <1>4, <1>5, <1>6, <1>7 DEF Good, Tapes

\* A running call gets a file of its own name.
LEMMA BegunGood ==
  ASSUME NEW v, NEW w, NEW i \in DOMAIN v.calls, Good(v), Changed(v, w, i),
         v.calls[i].audio = NoFile, w.calls[i].open, w.calls[i].keep = TRUE,
         w.calls[i].audio = <<v.calls[i].id, v.epoch>>,
         w.store.open = v.store.open \cup {w.calls[i].audio},
         Indexed(v.store) \cup v.store.evicted \cup {w.calls[i].audio} \subseteq Indexed(w.store) \cup w.store.evicted,
         w.store.evicted \cap w.store.open = {}
  PROVE  Good(w)
<1>1. Listed(w) /\ \A n : Has(w, n) <=> Has(v, n) BY ChangedListed DEF Good
<1>2. v.calls[i].id \in 1..v.next /\ v.next \in Nat BY DEF Good, Listed
<1>3. w.calls[i].audio # NoFile BY <1>2 DEF NoFile
<1>4. Written(w)
  <2>1. \A j \in DOMAIN v.calls : v.calls[j].audio # NoFile => j # i OBVIOUS
  <2>2. \A f \in v.store.open : f # NoFile BY DEF Good, Tapes, Apart
  <2> QED BY <2>1, <2>2 DEF Good, Tapes, Written, Changed
<1>5. ASSUME NEW j \in DOMAIN w.calls
      PROVE  /\ w.calls[j].keep = (w.calls[j].audio # NoFile)
             /\ w.calls[j].audio # NoFile => w.calls[j].audio \in Indexed(w.store) \cup w.store.evicted
  <2>1. CASE j = i BY <1>3, <2>1
  <2>2. CASE j # i
    <3>1. w.calls[j] = v.calls[j] /\ j \in DOMAIN v.calls BY <2>2 DEF Changed
    <3>2. /\ v.calls[j].keep = (v.calls[j].audio # NoFile)
          /\ v.calls[j].audio # NoFile => v.calls[j].audio \in Indexed(v.store) \cup v.store.evicted
      BY <3>1 DEF Good, Tapes, Offered
    <3> QED BY <3>1, <3>2
  <2> QED BY <2>1, <2>2
<1>6. \A j \in DOMAIN v.calls : j # i => v.calls[j].audio # w.calls[i].audio
  <2> SUFFICES ASSUME NEW j \in DOMAIN v.calls, j # i, v.calls[j].audio = w.calls[i].audio PROVE FALSE
    OBVIOUS
  <2>1. PICK n \in 1..v.next : v.calls[j].audio = <<n, v.epoch>> /\ (n = v.calls[j].id \/ ~Has(v, n))
    BY <1>3 DEF Good, Tapes, Named
  <2>2. n = v.calls[i].id BY <2>1
  <2> QED BY <2>1, <2>2 DEF Good, Listed, Has
<1>7. Owned(w) BY <1>6 DEF Good, Tapes, Owned, Changed
<1>8. Named(w) BY <1>1, <1>2 DEF Good, Tapes, Named, Changed
<1>9. Apart(w) BY <1>3 DEF Good, Tapes, Apart
<1>10. Ended(w) BY DEF Good, Tapes, Ended, Changed
<1>11. Offered(w) BY <1>5 DEF Offered
<1> QED BY <1>1, <1>4, <1>11, <1>7, <1>8, <1>9, <1>10 DEF Good, Tapes

\* The store alone: files get longer, and some are evicted.
LEMMA StoredGood ==
  ASSUME NEW v, NEW w, Good(v), Kept(v, [w EXCEPT !.store = v.store]),
         DOMAIN w = ModelFields, DOMAIN w.store = StoreFields, IsList(w.store.index),
         w.store.open \subseteq v.store.open,
         Indexed(v.store) \cup v.store.evicted \subseteq Indexed(w.store) \cup w.store.evicted,
         w.store.evicted \cap w.store.open = {}
  PROVE  Good(w)
<1> DEFINE u == [w EXCEPT !.store = v.store]
<1>1. Good(u) BY KeptGood
<1>2. /\ w.calls = u.calls /\ w.next = u.next /\ w.epoch = u.epoch /\ u.store = v.store
  BY DEF ModelFields
<1> HIDE DEF u
<1>3. Listed(w) BY <1>1, <1>2 DEF Good, Listed
<1>4. Written(w) BY <1>1, <1>2 DEF Good, Tapes, Written
<1>5. Offered(w) BY <1>1, <1>2 DEF Good, Tapes, Offered
<1>6. Owned(w) BY <1>1, <1>2 DEF Good, Tapes, Owned
<1>7. Named(w) BY <1>1, <1>2 DEF Good, Tapes, Named, Has
<1>8. Apart(w) BY <1>1, <1>2 DEF Good, Tapes, Apart
<1>9. Ended(w) BY <1>1, <1>2 DEF Good, Tapes, Ended
<1> QED BY <1>3, <1>4, <1>5, <1>6, <1>7, <1>8, <1>9 DEF Good, Tapes

----------------------------------------------------------------------------
\* The store's operations.

\* One more at the end of a list.
LEMMA Appended ==
  ASSUME NEW s, NEW x, NEW n \in Nat, DOMAIN s = 1..n, IsList(s)
  PROVE  /\ IsList(Append(s, x)) /\ DOMAIN Append(s, x) = 1..n + 1
         /\ Append(s, x)[n + 1] = x /\ \A i \in 1..n : Append(s, x)[i] = s[i]
<1> DEFINE S == {s[i] : i \in 1..n} \cup {x}
<1>1. s \in Seq(S)
  <2>1. s = [i \in DOMAIN s |-> s[i]] BY DEF IsList
  <2>2. s \in [1..n -> S] BY <2>1
  <2> QED BY <2>2, SeqDef
<1>2. Len(s) = n BY <1>1
<1>3. Append(s, x) \in Seq(S) /\ Len(Append(s, x)) = n + 1 BY <1>1, <1>2
<1>4. DOMAIN Append(s, x) = 1..n + 1 BY <1>3
<1>5. Append(s, x) = [i \in 1..n + 1 |-> Append(s, x)[i]]
  <2> DEFINE a == Append(s, x)
  <2> HIDE DEF a, S
  <2>1. a \in [1..Len(a) -> S] /\ Len(a) = n + 1 BY <1>3, LenProperties DEF a
  <2>2. a = [i \in 1..n + 1 |-> a[i]] BY <2>1
  <2> QED BY <2>2 DEF a
<1>6. Append(s, x)[n + 1] = x BY <1>1, <1>2
<1>7. \A i \in 1..n : Append(s, x)[i] = s[i] BY <1>1, <1>2
<1>8. IsList(Append(s, x))
  <2> DEFINE a == Append(s, x)
  <2>1. n + 1 \in Nat /\ DOMAIN a = 1..n + 1 /\ a = [i \in 1..n + 1 |-> a[i]] BY <1>4, <1>5
  <2> HIDE DEF a
  <2>2. IsList(a) BY <2>1 DEF IsList
  <2> QED BY <2>2 DEF a
<1> QED BY <1>4, <1>6, <1>7, <1>8

\* ... which so has one name more.
LEMMA AppendedNames ==
  ASSUME NEW s, NEW x, IsList(s)
  PROVE  /\ IsList(Append(s, x))
         /\ {Append(s, x)[i].name : i \in DOMAIN Append(s, x)} = {s[i].name : i \in DOMAIN s} \cup {x.name}
<1> PICK n \in Nat : DOMAIN s = 1..n BY DEF IsList
<1> DEFINE a == Append(s, x)
<1>1. IsList(a) /\ DOMAIN a = 1..n + 1 /\ a[n + 1] = x /\ \A i \in 1..n : a[i] = s[i] BY Appended
<1> HIDE DEF a
<1>2. 1..n + 1 = 1..n \cup {n + 1} OBVIOUS
<1>3. {a[i].name : i \in DOMAIN a} = {s[i].name : i \in DOMAIN s} \cup {x.name} BY <1>1, <1>2
<1> QED BY <1>1, <1>3 DEF a

\* What is left of an index when files are deleted (discard, remove_all).
LeftOne(e, left, x) == IF x.name \in e.gone THEN left ELSE Append(left, x)
LeftSoFar(e, left, n) ==
  /\ IsList(left)
  /\ {left[i].name : i \in DOMAIN left} = {e.index[i].name : i \in 1..n} \ e.gone
Leaving == INSTANCE Folding WITH Op <- LeftOne, Good <- LeftSoFar

\* The empty list.
LEMMA EmptyList == IsList(<<>>) /\ DOMAIN <<>> = {} /\ 1..0 = {}
<1>1. DOMAIN <<>> = 1..0 /\ <<>> = [i \in 1..0 |-> <<>>[i]] OBVIOUS
<1> QED BY <1>1 DEF IsList

\* It is the others.
LEMMA LeftAreTheOthers ==
  ASSUME NEW index, NEW gone, IsList(index)
  PROVE  /\ IsList(Left(index, gone))
         /\ {Left(index, gone)[i].name : i \in DOMAIN Left(index, gone)}
              = {index[i].name : i \in DOMAIN index} \ gone
<1> PICK n \in Nat : DOMAIN index = 1..n BY DEF IsList
<1> DEFINE e == [index |-> index, gone |-> gone]
<1>1. Left(index, gone) = Leaving!Fold(e, <<>>, index)
  BY DEF Left, LeftOne, Leaving!Fold, FoldLeft, Leaving!FoldLeft, MapThenFoldSet, Leaving!MapThenFoldSet,
         Max, Leaving!Max
<1>2. LeftSoFar(e, <<>>, 0) BY EmptyList DEF LeftSoFar
<1>3. ASSUME NEW k \in 1..n, NEW left, LeftSoFar(e, left, k - 1)
      PROVE  LeftSoFar(e, LeftOne(e, left, index[k]), k)
  <2>1. 1..k = 1..(k - 1) \cup {k} OBVIOUS
  <2>2. {index[i].name : i \in 1..k} = {index[i].name : i \in 1..(k - 1)} \cup {index[k].name} BY <2>1
  <2>3. CASE index[k].name \in gone BY <1>3, <2>2, <2>3 DEF LeftSoFar, LeftOne
  <2>4. CASE index[k].name \notin gone
    <3> PICK x : x = index[k] OBVIOUS
    <3> DEFINE a == Append(left, x)
    <3>0. IsList(left) BY <1>3 DEF LeftSoFar
    <3>1. IsList(a) BY <3>0, AppendedNames
    <3>2. {a[i].name : i \in DOMAIN a} = {left[i].name : i \in DOMAIN left} \cup {x.name}
      BY <3>0, AppendedNames, SMTT(30)
    <3> HIDE DEF a
    <3>3. {left[i].name : i \in DOMAIN left} = {index[i].name : i \in 1..(k - 1)} \ gone BY <1>3 DEF LeftSoFar
    <3> DEFINE A == {a[i].name : i \in DOMAIN a}
               B == {left[i].name : i \in DOMAIN left}
               N == {index[i].name : i \in 1..(k - 1)}
               O == {index[i].name : i \in 1..k}
    <3>4. A = B \cup {index[k].name} /\ B = N \ gone /\ O = N \cup {index[k].name} BY <2>2, <3>2, <3>3
    <3> HIDE DEF A, B, N, O
    <3>5. A = O \ gone BY <2>4, <3>4
    <3>6. LeftSoFar(e, a, k) BY <3>1, <3>5 DEF LeftSoFar, A, O
    <3> QED BY <2>4, <3>6 DEF LeftOne, a
  <2> QED BY <2>3, <2>4
<1>4. LeftSoFar(e, Leaving!Fold(e, <<>>, index), n) BY <1>2, <1>3, Leaving!FoldKeeps
<1> QED BY <1>1, <1>4 DEF LeftSoFar

\* A deleted file is closed, and only it is gone.
LEMMA Discards ==
  ASSUME NEW s, NEW name, DOMAIN s = StoreFields, IsList(s.index)
  PROVE  /\ DOMAIN Discard(s, name) = StoreFields /\ IsList(Discard(s, name).index)
         /\ Discard(s, name).open = s.open \ {name} /\ Discard(s, name).evicted = s.evicted
         /\ Indexed(Discard(s, name)) = Indexed(s) \ {name}
<1> DEFINE left == Left(s.index, {name})
<1>1. /\ IsList(left)
      /\ {left[i].name : i \in DOMAIN left} = {s.index[i].name : i \in DOMAIN s.index} \ {name}
  BY LeftAreTheOthers
<1>2. Discard(s, name).index = left BY DEF Discard, Finish, StoreFields
<1>3. Indexed(Discard(s, name)) = {left[i].name : i \in DOMAIN left}
  BY <1>2 DEF Indexed, ToSet
<1>4. Indexed(s) = {s.index[i].name : i \in DOMAIN s.index} BY DEF Indexed, ToSet
<1>5. DOMAIN Discard(s, name) = StoreFields BY DEF Discard, Finish, StoreFields
<1>6. Discard(s, name).open = s.open \ {name} /\ Discard(s, name).evicted = s.evicted
  BY DEF Discard, Finish, StoreFields
<1> HIDE DEF left
<1> QED BY <1>1, <1>2, <1>3, <1>4, <1>5, <1>6

\* A sweep (enforce): what it keeps and what it evicts is what there was, and it
\* evicts no file that is being written.
SweepOne(e, a, x) ==
  IF a.done \/ ~OverCap(a.total, x, e.now)
  THEN [a EXCEPT !.done = TRUE, !.kept = Append(@, x)]
  ELSE IF x.name \in e.s.open
  THEN [a EXCEPT !.kept = Append(@, x)]
  ELSE [a EXCEPT !.total = @ - x.size, !.gone = @ \cup {x.name}]
SweptSoFar(e, a, n) ==
  /\ DOMAIN a = {"done", "total", "kept", "gone"} /\ IsList(a.kept) /\ a.gone \cap e.s.open = {}
  /\ {a.kept[i].name : i \in DOMAIN a.kept} \cup a.gone = {e.s.index[i].name : i \in 1..n}
Sweeping == INSTANCE Folding WITH Op <- SweepOne, Good <- SweptSoFar

\* It splits the index.
LEMMA SweptIsASplit ==
  ASSUME NEW s, NEW t, IsList(s.index)
  PROVE  /\ IsList(Swept(s, t).kept) /\ Swept(s, t).gone \cap s.open = {}
         /\ {Swept(s, t).kept[i].name : i \in DOMAIN Swept(s, t).kept} \cup Swept(s, t).gone = Indexed(s)
<1> PICK n \in Nat : DOMAIN s.index = 1..n BY DEF IsList
<1> DEFINE e == [s |-> s, now |-> t]
           base == [done |-> FALSE, total |-> Total(s), kept |-> <<>>, gone |-> {}]
<1>1. Swept(s, t) = Sweeping!Fold(e, base, s.index)
  BY DEF Swept, SweepOne, Sweeping!Fold, FoldLeft, Sweeping!FoldLeft, MapThenFoldSet, Sweeping!MapThenFoldSet,
         Max, Sweeping!Max
<1>2. SweptSoFar(e, base, 0) BY EmptyList DEF SweptSoFar
<1>3. ASSUME NEW k \in 1..n, NEW a, SweptSoFar(e, a, k - 1)
      PROVE  SweptSoFar(e, SweepOne(e, a, s.index[k]), k)
  <2> DEFINE x == s.index[k]
             b == SweepOne(e, a, x)
  <2>1. 1..k = 1..(k - 1) \cup {k} OBVIOUS
  <2>2. {s.index[i].name : i \in 1..k} = {s.index[i].name : i \in 1..(k - 1)} \cup {x.name} BY <2>1
  <2>3. \/ b.kept = Append(a.kept, x) /\ b.gone = a.gone
        \/ b.kept = a.kept /\ b.gone = a.gone \cup {x.name} /\ x.name \notin s.open
    BY <1>3 DEF SweepOne, SweptSoFar
  <2>4. DOMAIN b = {"done", "total", "kept", "gone"} BY <1>3 DEF SweepOne, SweptSoFar
  <2> HIDE DEF b, base
  <2>5. /\ IsList(a.kept) /\ a.gone \cap s.open = {}
        /\ {a.kept[i].name : i \in DOMAIN a.kept} \cup a.gone = {s.index[i].name : i \in 1..(k - 1)}
    BY <1>3 DEF SweptSoFar
  <2>6. /\ IsList(b.kept) /\ b.gone \cap s.open = {}
        /\ {b.kept[i].name : i \in DOMAIN b.kept} \cup b.gone = {s.index[i].name : i \in 1..k}
    <3>1. CASE b.kept = a.kept /\ b.gone = a.gone \cup {x.name} /\ x.name \notin s.open
      <4>1. {b.kept[i].name : i \in DOMAIN b.kept} = {a.kept[i].name : i \in DOMAIN a.kept} BY <3>1
      <4> QED BY <2>2, <2>5, <3>1, <4>1
    <3>2. CASE b.kept = Append(a.kept, x) /\ b.gone = a.gone
      <4>1. IsList(b.kept) BY <2>5, <3>2, AppendedNames
      <4>2. {b.kept[i].name : i \in DOMAIN b.kept} = {a.kept[i].name : i \in DOMAIN a.kept} \cup {x.name}
        BY <2>5, <3>2, AppendedNames, SMTT(30)
      <4> DEFINE A == {a.kept[i].name : i \in DOMAIN a.kept}
                 B == {b.kept[i].name : i \in DOMAIN b.kept}
                 N == {s.index[i].name : i \in 1..(k - 1)}
                 O == {s.index[i].name : i \in 1..k}
      <4>3. B = A \cup {x.name} /\ A \cup a.gone = N /\ O = N \cup {x.name} BY <2>2, <2>5, <4>2
      <4> HIDE DEF A, B, N, O
      <4>4. B \cup b.gone = O BY <3>2, <4>3
      <4> QED BY <2>5, <3>2, <4>1, <4>4 DEF B, O
    <3> QED BY <2>3, <3>1, <3>2
  <2>7. SweptSoFar(e, b, k) BY <2>4, <2>6 DEF SweptSoFar
  <2> QED BY <2>7 DEF b
<1>4. SweptSoFar(e, Sweeping!Fold(e, base, s.index), n) BY <1>2, <1>3, Sweeping!FoldKeeps
<1>5. Indexed(s) = {s.index[i].name : i \in 1..n} BY DEF Indexed, ToSet
<1> QED BY <1>1, <1>4, <1>5 DEF SweptSoFar

\* What an operation on files does to a store: names go over to the evicted
\* ones, at most, and no file that is written.
Stored(s, r) ==
  /\ DOMAIN r = StoreFields /\ IsList(r.index) /\ r.open = s.open
  /\ Indexed(s) \cup s.evicted \subseteq Indexed(r) \cup r.evicted
  /\ s.evicted \cap s.open = {} => r.evicted \cap r.open = {}

\* The caps (enforce).
LEMMA Enforces ==
  ASSUME NEW s, NEW t, DOMAIN s = StoreFields, IsList(s.index) PROVE Stored(s, Enforce(s, t))
<1> DEFINE r == Enforce(s, t)
           w == Swept(s, t)
<1>1. /\ DOMAIN r = StoreFields /\ r.index = w.kept /\ r.evicted = s.evicted \cup w.gone /\ r.open = s.open
  BY DEF Enforce, StoreFields
<1>2. /\ IsList(w.kept) /\ w.gone \cap s.open = {}
      /\ {w.kept[i].name : i \in DOMAIN w.kept} \cup w.gone = Indexed(s)
  BY SweptIsASplit
<1> HIDE DEF r, w
<1>3. Indexed(r) = {w.kept[i].name : i \in DOMAIN w.kept} BY <1>1 DEF Indexed, ToSet
<1>4. Indexed(s) \cup s.evicted \subseteq Indexed(r) \cup r.evicted BY <1>1, <1>2, <1>3
<1>5. s.evicted \cap s.open = {} => r.evicted \cap r.open = {} BY <1>1, <1>2
<1> QED BY <1>1, <1>2, <1>4, <1>5 DEF Stored, r

\* A file gets longer (append).
LEMMA Appends ==
  ASSUME NEW s, NEW name, NEW n, NEW t, DOMAIN s = StoreFields, IsList(s.index)
  PROVE  Stored(s, AppendTo(s, name, n, t))
<1> DEFINE a == AddSize(s, name, n, t)
<1>1. /\ DOMAIN a = StoreFields /\ a.open = s.open /\ a.evicted = s.evicted
      /\ a.index = [i \in DOMAIN s.index |->
           IF s.index[i].name = name THEN [name |-> name, size |-> s.index[i].size + n, mtime |-> t]
                                     ELSE s.index[i]]
  BY DEF AddSize, StoreFields
<1> HIDE DEF a
<1>2. IsList(a.index) BY <1>1 DEF IsList
<1>3. \A i \in DOMAIN s.index : a.index[i].name = s.index[i].name BY <1>1
<1>4. Indexed(a) = Indexed(s) BY <1>1, <1>3, SMTT(30) DEF Indexed, ToSet
<1>5. Stored(s, a) BY <1>1, <1>2, <1>4 DEF Stored
<1>6. Stored(s, Enforce(a, t))
  <2>1. Stored(a, Enforce(a, t)) BY <1>1, <1>2, Enforces
  <2> QED BY <1>5, <2>1 DEF Stored
<1>7. Stored(s, s) BY DEF Stored
<1> QED BY <1>5, <1>6, <1>7 DEF AppendTo, a

\* A switch (enable).
LEMMA Enables ==
  ASSUME NEW s, NEW t, DOMAIN s = StoreFields, IsList(s.index) PROVE Stored(s, Enable(s, t))
<1> DEFINE a == [s EXCEPT !.on = TRUE]
<1>1. /\ DOMAIN a = StoreFields /\ a.open = s.open /\ a.evicted = s.evicted /\ a.index = s.index
  BY DEF StoreFields
<1>2. Enable(s, t) = Enforce(a, t) BY DEF Enable
<1> HIDE DEF a
<1>3. Indexed(a) = Indexed(s) BY <1>1 DEF Indexed
<1>4. Stored(a, Enforce(a, t)) BY <1>1, Enforces
<1> QED BY <1>1, <1>2, <1>3, <1>4 DEF Stored

----------------------------------------------------------------------------
\* A call ends (close_call).

\* A call of the list is replaced.
LEMMA SetsOne ==
  ASSUME NEW v, NEW i \in DOMAIN v.calls, NEW k, Listed(v), DOMAIN k = CallFields, k.id = v.calls[i].id
  PROVE  /\ Changed(v, SetCall(v, k), i) /\ SetCall(v, k).calls[i] = k
         /\ SetCall(v, k).store = v.store
<1> DEFINE w == SetCall(v, k)
<1>1. \A j \in DOMAIN v.calls : v.calls[j].id = k.id <=> j = i BY DEF Listed
<1>2. PICK n \in Nat : DOMAIN v.calls = 1..n BY DEF Listed, IsList
<1>3. w.calls = [j \in 1..n |-> IF j = i THEN k ELSE v.calls[j]]
  BY <1>1, <1>2 DEF SetCall, Listed, ModelFields
<1>4. /\ DOMAIN w = ModelFields /\ w.next = v.next /\ w.epoch = v.epoch /\ w.store = v.store
  BY DEF SetCall, Listed, ModelFields
<1> HIDE DEF w
<1>5. IsList(w.calls) /\ DOMAIN w.calls = DOMAIN v.calls BY <1>2, <1>3 DEF IsList
<1>6. Changed(v, w, i) BY <1>2, <1>3, <1>4, <1>5 DEF Changed, Listed
<1> QED BY <1>2, <1>3, <1>4, <1>6 DEF w

\* Two changes of a call are one.
LEMMA ChangedTwice ==
  ASSUME NEW u, NEW v, NEW w, NEW i, Changed(u, v, i), Changed(v, w, i) PROVE Changed(u, w, i)
BY DEF Changed

\* A call that says the same of itself but for its keep flag.
Again(k, l) ==
  /\ DOMAIN l = CallFields
  /\ l.id = k.id /\ l.open = k.open /\ l.audio = k.audio
  /\ l.encrypted = k.encrypted /\ l.keyed = k.keyed /\ l.data = k.data /\ l.voice = k.voice

\* A keep flag is set (set_keep).
LEMMA SetsKeep ==
  ASSUME NEW v, NEW i \in DOMAIN v.calls, NEW k, NEW on \in BOOLEAN, Listed(v), v.calls[i] = k
  PROVE  /\ Changed(v, SetKeep(v, k, on), i)
         /\ SetKeep(v, k, on).calls[i].keep = on
         /\ Again(k, SetKeep(v, k, on).calls[i])
         /\ SetKeep(v, k, on).store = v.store
<1> DEFINE l == [k EXCEPT !.keep = on]
           w == SetCall(v, l)
<1>1. DOMAIN k = CallFields BY DEF Listed
<1>2. CASE k.keep = on
  <2>1. SetKeep(v, k, on) = v BY <1>2 DEF SetKeep
  <2> QED BY <1>1, <1>2, <2>1 DEF Changed, Listed, Again
<1>3. CASE k.keep # on
  <2>1. DOMAIN l = CallFields /\ l.keep = on /\ Again(k, l) BY <1>1 DEF CallFields, Again
  <2>2. SetKeep(v, k, on) = [w EXCEPT !.keeps = Append(@, <<k.id, on>>)] BY <1>3 DEF SetKeep
  <2> HIDE DEF l
  <2>3. Changed(v, w, i) /\ w.calls[i] = l /\ w.store = v.store BY <2>1, SetsOne DEF Again
  <2> HIDE DEF w
  <2> DEFINE x == [w EXCEPT !.keeps = Append(@, <<k.id, on>>)]
  <2>4. /\ DOMAIN x = ModelFields /\ x.calls = w.calls /\ x.store = w.store
        /\ x.next = w.next /\ x.epoch = w.epoch
    BY <2>3 DEF Changed, ModelFields
  <2> HIDE DEF x
  <2>5. Changed(v, x, i) BY <2>3, <2>4 DEF Changed
  <2> QED BY <2>1, <2>2, <2>3, <2>4, <2>5 DEF x
<1> QED BY <1>2, <1>3

\* A call that ends, keeps its recording only if that may be kept.
LEMMA ShutsGood ==
  ASSUME NEW v, NEW i \in DOMAIN v.calls, Good(v),
         NEW drop \in BOOLEAN, drop = (v.calls[i].audio # NoFile /\ Unwanted(v.calls[i]))
  PROVE  /\ Good(ShutCall(v, v.calls[i], drop)) /\ Changed(v, ShutCall(v, v.calls[i], drop), i)
         /\ ShutCall(v, v.calls[i], drop).store.evicted = v.store.evicted
         /\ ShutCall(v, v.calls[i], drop).calls[i].audio \in {v.calls[i].audio, NoFile}
<1> DEFINE k == v.calls[i]
           l == [k EXCEPT !.open = FALSE,
                          !.qual = IF k.id \in DOMAIN v.quality THEN v.quality[k.id] ELSE @,
                          !.audio = IF drop THEN NoFile ELSE @,
                          !.samples = IF drop THEN 0 ELSE @]
           s == IF k.audio = NoFile THEN v.store
                ELSE IF drop THEN Discard(v.store, k.audio) ELSE Finish(v.store, k.audio)
           a == SetCall(v, l)
           b == [a EXCEPT !.quality = Without(@, {k.id}), !.store = s]
<1>0. Listed(v) /\ DOMAIN v.store = StoreFields /\ IsList(v.store.index) BY DEF Good, Listed
<1>1. /\ DOMAIN l = CallFields /\ l.id = k.id /\ ~l.open /\ l.keep = k.keep
      /\ l.audio = (IF drop THEN NoFile ELSE k.audio)
      /\ l.encrypted = k.encrypted /\ l.keyed = k.keyed /\ l.data = k.data /\ l.voice = k.voice
  BY <1>0, SMTT(30) DEF Listed, CallFields
<1>2. ShutCall(v, k, drop) = IF drop THEN SetKeep(b, l, FALSE) ELSE b
  <2>1. a.store = v.store BY <1>0 DEF SetCall, Listed, ModelFields
  <2> QED BY <2>1 DEF ShutCall
<1> HIDE DEF l
<1>3. Changed(v, a, i) /\ a.calls[i] = l /\ a.store = v.store BY <1>0, <1>1, SetsOne
<1> HIDE DEF a
<1>4. /\ DOMAIN b = ModelFields /\ b.calls = a.calls /\ b.next = a.next /\ b.epoch = a.epoch /\ b.store = s
  BY <1>3 DEF Changed, ModelFields
<1> HIDE DEF b
<1>5. NoFile \notin v.store.open BY DEF Good, Tapes, Apart
<1>6. /\ DOMAIN s = StoreFields /\ IsList(s.index) /\ s.evicted = v.store.evicted
      /\ s.open = v.store.open \ {k.audio}
      /\ Indexed(v.store) \ {k.audio} \subseteq Indexed(s)
      /\ ~drop => s.index = v.store.index
  <2>1. CASE k.audio = NoFile BY <1>0, <1>5, <2>1
  <2>2. CASE k.audio # NoFile /\ drop BY <1>0, <2>2, Discards
  <2>3. CASE k.audio # NoFile /\ ~drop
    <3>1. s = [v.store EXCEPT !.open = @ \ {k.audio}] BY <2>3 DEF Finish
    <3>2. /\ DOMAIN s = StoreFields /\ s.index = v.store.index /\ s.evicted = v.store.evicted
          /\ s.open = v.store.open \ {k.audio}
      BY <1>0, <3>1 DEF StoreFields
    <3> QED BY <1>0, <3>2 DEF Indexed
  <2> QED BY <2>1, <2>2, <2>3
<1> HIDE DEF s
<1>7. Changed(v, b, i) /\ b.calls[i] = l BY <1>3, <1>4, <1>6 DEF Changed
<1>8. CASE drop
  <2> DEFINE x == SetKeep(b, l, FALSE)
  <2>1. Listed(b) BY <1>0, <1>7, ChangedListed
  <2>2. i \in DOMAIN b.calls BY <1>7 DEF Changed
  <2>3. Changed(b, x, i) /\ x.calls[i].keep = FALSE /\ Again(l, x.calls[i]) /\ x.store = b.store
    <3> SUFFICES ASSUME NEW off \in BOOLEAN, off = FALSE
                 PROVE  LET y == SetKeep(b, l, off)
                        IN  Changed(b, y, i) /\ y.calls[i].keep = off /\ Again(l, y.calls[i]) /\ y.store = b.store
      OBVIOUS
    <3> QED BY <1>7, <2>1, <2>2, SetsKeep
  <2> HIDE DEF x
  <2>4. Changed(v, x, i) BY <1>7, <2>3, ChangedTwice
  <2>5. x.calls[i].audio = NoFile BY <1>1, <1>8, <2>3 DEF Again
  <2>6. x.store = s BY <1>4, <2>3
  <2>7. Good(x) BY <1>6, <2>3, <2>4, <2>5, <2>6, DroppedGood
  <2> QED BY <1>2, <1>6, <1>8, <2>4, <2>5, <2>6, <2>7 DEF x
<1>9. CASE ~drop
  <2>1. l.audio # NoFile => Clean(l)
    <3>1. l.audio # NoFile => ~Unwanted(k) BY <1>1, <1>9
    <3> QED BY <1>1, <3>1 DEF Unwanted, Clean
  <2>2. Good(b) BY <1>1, <1>4, <1>6, <1>7, <1>9, <2>1, FinishedGood
  <2> QED BY <1>1, <1>2, <1>4, <1>6, <1>7, <1>9, <2>2
<1> QED BY <1>8, <1>9

\* The same calls, and none has another recording than it had.
Later(v, w) ==
  /\ DOMAIN w.calls = DOMAIN v.calls /\ w.next = v.next /\ w.epoch = v.epoch
  /\ w.store.evicted = v.store.evicted
  /\ \A i \in DOMAIN v.calls : /\ w.calls[i].id = v.calls[i].id
                               /\ w.calls[i].audio \in {v.calls[i].audio, NoFile}
Goes(v, w) == Good(w) /\ Later(v, w)

\* In two steps.
LEMMA GoesOn ==
  ASSUME NEW u, NEW v, NEW w, Goes(u, v), Goes(v, w) PROVE Goes(u, w)
BY DEF Goes, Later

\* What keeps the recordings is such a step.
LEMMA KeptGoes ==
  ASSUME NEW u, NEW v, NEW w, Goes(u, v), Kept(v, w) PROVE Goes(u, w)
<1>1. Good(w) BY KeptGood DEF Goes
<1>2. Later(u, w) BY DEF Goes, Later, Kept, Alike
<1> QED BY <1>1, <1>2 DEF Goes

\* So is none.
LEMMA Stays == ASSUME NEW v, Good(v) PROVE Goes(v, v)
BY DEF Goes, Later

\* A call is closed (close_call).
LEMMA CloseGoes == ASSUME NEW v, NEW id, Good(v) PROVE Goes(v, CloseCall(v, id))
<1>1. CASE ~FindCall(v, id).open
  <2>1. CloseCall(v, id) = v BY <1>1 DEF CloseCall, CloseOne
  <2> QED BY <2>1, Stays
<1>2. CASE FindCall(v, id).open
  <2>0. Listed(v) BY DEF Good
  <2>1. Has(v, id)
    <3> SUFFICES ASSUME ~Has(v, id) PROVE FALSE OBVIOUS
    <3> QED BY <1>2, FindsNone DEF NoCall
  <2> PICK i \in DOMAIN v.calls : v.calls[i].id = id BY <2>1 DEF Has
  <2> DEFINE k == v.calls[i]
             a == ShutCall(v, k, k.audio # NoFile /\ Unwanted(k))
             b == CountLate(a, k)
             c == MarkClosed(b, k.id)
  <2>2. FindCall(v, id) = k BY <2>0, Finds
  <2>3. CloseCall(v, id) = c BY <1>2, <2>2 DEF CloseCall, CloseOne
  <2>4. /\ Good(a) /\ Changed(v, a, i) /\ a.store.evicted = v.store.evicted
        /\ a.calls[i].audio \in {k.audio, NoFile}
    <3> SUFFICES ASSUME NEW drop \in BOOLEAN, drop = (k.audio # NoFile /\ Unwanted(k))
                 PROVE  LET x == ShutCall(v, k, drop)
                        IN  /\ Good(x) /\ Changed(v, x, i) /\ x.store.evicted = v.store.evicted
                            /\ x.calls[i].audio \in {k.audio, NoFile}
      OBVIOUS
    <3> QED BY ShutsGood
  <2> HIDE DEF a
  <2>5. Goes(v, a) BY <2>4 DEF Goes, Later, Changed
  <2>6. Listed(a) /\ Has(a, k.id) BY <2>1, <2>4, ChangedListed DEF Good
  <2>7. Kept(a, b) BY <2>6, CountLateKept
  <2>8. Goes(v, b) BY <2>5, <2>7, KeptGoes
  <2> HIDE DEF b
  <2>9. Kept(b, c) BY <2>8, MarkClosedKept DEF Goes, Good
  <2>10. Goes(v, c) BY <2>8, <2>9, KeptGoes
  <2> QED BY <2>3, <2>10
<1> QED BY <1>1, <1>2

\* The loops that close calls.
CloseStep(e, a, id) == IF id \in e.closing THEN CloseCall(a, id) ELSE a
ClosedSoFar(e, a, n) == Goes(e.m, a)
Closing == INSTANCE Folding WITH Op <- CloseStep, Good <- ClosedSoFar

\* They close calls, and nothing else happens to a recording.
LEMMA CloseAllGoes == ASSUME NEW v, NEW closing, Good(v) PROVE Goes(v, CloseAll(v, closing))
<1> PICK n \in Nat : DOMAIN v.calls = 1..n BY DEF Good, Listed, IsList
<1> DEFINE e == [m |-> v, closing |-> closing]
           ids == [i \in 1..n |-> v.calls[i].id]
<1>1. CloseAll(v, closing) = Closing!Fold(e, v, ids)
  BY DEF CloseAll, CloseStep, Closing!Fold, FoldLeft, Closing!FoldLeft, MapThenFoldSet,
         Closing!MapThenFoldSet, Max, Closing!Max
<1>2. ClosedSoFar(e, v, 0) BY Stays DEF ClosedSoFar
<1>3. ASSUME NEW k \in 1..n, NEW a, ClosedSoFar(e, a, k - 1)
      PROVE  ClosedSoFar(e, CloseStep(e, a, ids[k]), k)
  <2>1. Goes(v, a) /\ Good(a) BY <1>3 DEF ClosedSoFar, Goes
  <2>2. Goes(a, CloseCall(a, ids[k])) BY <2>1, CloseGoes
  <2>3. Goes(v, CloseCall(a, ids[k])) BY <2>1, <2>2, GoesOn
  <2> QED BY <2>1, <2>3 DEF ClosedSoFar, CloseStep
<1>4. ClosedSoFar(e, Closing!Fold(e, v, ids), n) BY <1>2, <1>3, Closing!FoldKeeps
<1> QED BY <1>1, <1>4 DEF ClosedSoFar

\* A stream's calls, when it ends or moves.
LEMMA CloseSessionGoes == ASSUME NEW v, NEW sid, Good(v) PROVE Goes(v, CloseSessionCalls(v, sid))
<1>1. \/ CloseSessionCalls(v, sid) = v
      \/ \E closing : CloseSessionCalls(v, sid) = CloseAll(v, closing)
  BY Zenon DEF CloseSessionCalls
<1>2. \A closing : Goes(v, CloseAll(v, closing)) BY ONLY CloseAllGoes, Good(v), Zenon
<1> QED BY ONLY <1>1, <1>2, Stays, Good(v), Zenon

\* A stream's calls that went quiet (expire_locked).
LEMMA ExpireGoes == ASSUME NEW v, NEW sid, NEW t, Good(v) PROVE Goes(v, Expire(v, sid, t))
<1> SUFFICES ASSUME NEW quiet PROVE Goes(v, ExpireSlots(v, sid, quiet)) BY DEF Expire
<1> DEFINE a == CloseAll(v, {v.sess[sid].active[x] : x \in quiet})
<1>1. Goes(v, a) BY CloseAllGoes
<1> HIDE DEF a
<1>2. Kept(a, [a EXCEPT !.sess[sid].active = Without(@, quiet)]) BY <1>1, FieldKept DEF Goes, Good
<1>3. Goes(v, [a EXCEPT !.sess[sid].active = Without(@, quiet)]) BY <1>1, <1>2, KeptGoes
<1> QED BY <1>3 DEF ExpireSlots, a

----------------------------------------------------------------------------
\* Calls come and go (RollOff, AddCall).

\* A list without its i-th element.
Skip(i, j) == IF j < i THEN j ELSE j + 1

\* The elements behind it move up.
LEMMA Removes ==
  ASSUME NEW s, NEW n \in Nat, DOMAIN s = 1..n, s = [j \in 1..n |-> s[j]], NEW i \in 1..n
  PROVE  /\ IsList(RemoveAt(s, i)) /\ DOMAIN RemoveAt(s, i) = 1..n - 1
         /\ \A j \in 1..n - 1 : RemoveAt(s, i)[j] = s[Skip(i, j)]
<1> DEFINE S == {s[j] : j \in 1..n}
           a == SubSeq(s, 1, i - 1)
           b == SubSeq(s, i + 1, n)
<1>1. s \in Seq(S)
  <2>1. s \in [1..n -> S] OBVIOUS
  <2> QED BY <2>1, SeqDef
<1>2. Len(s) = n BY <1>1
<1>3. RemoveAt(s, i) = a \o b BY <1>2 DEF RemoveAt
<1>0. \A j \in 1..n : s[j] \in S OBVIOUS
<1> HIDE DEF S
<1>4. a \in Seq(S) /\ Len(a) = i - 1 /\ \A j \in 1..i - 1 : a[j] = s[j]
  <2>1. 1 \in Int /\ i - 1 \in Int /\ \A j \in 1..i - 1 : s[j] \in S BY <1>0
  <2>2. a \in Seq(S) BY <2>1, SubSeqProperties
  <2>3. Len(a) = IF 1 <= i - 1 THEN (i - 1) - 1 + 1 ELSE 0 BY <2>1, SubSeqProperties
  <2>4. \A j \in 1..(i - 1) - 1 + 1 : a[j] = s[1 + j - 1] BY <2>1, SubSeqProperties
  <2> HIDE DEF a
  <2>5. Len(a) = i - 1 BY <2>3
  <2>6. ASSUME NEW j \in 1..i - 1 PROVE a[j] = s[j]
    <3>1. j \in 1..(i - 1) - 1 + 1 /\ 1 + j - 1 = j OBVIOUS
    <3> QED BY <2>4, <3>1
  <2> QED BY <2>2, <2>5, <2>6
<1>5. b \in Seq(S) /\ Len(b) = n - i /\ \A j \in 1..n - i : b[j] = s[i + j]
  <2>1. i + 1 \in Int /\ n \in Int /\ \A j \in i + 1..n : s[j] \in S BY <1>0
  <2>2. b \in Seq(S) BY <2>1, SubSeqProperties
  <2>3. Len(b) = IF i + 1 <= n THEN n - (i + 1) + 1 ELSE 0 BY <2>1, SubSeqProperties
  <2>4. \A j \in 1..n - (i + 1) + 1 : b[j] = s[(i + 1) + j - 1] BY <2>1, SubSeqProperties
  <2> HIDE DEF b
  <2>5. Len(b) = n - i BY <2>3
  <2>6. ASSUME NEW j \in 1..n - i PROVE b[j] = s[i + j]
    <3>1. j \in 1..n - (i + 1) + 1 /\ (i + 1) + j - 1 = i + j OBVIOUS
    <3> QED BY <2>4, <3>1
  <2> QED BY <2>2, <2>5, <2>6
<1> HIDE DEF a, b
<1> DEFINE c == a \o b
<1>6. c \in Seq(S) /\ Len(c) = n - 1
  <2>1. c \in Seq(S) BY <1>4, <1>5, ConcatProperties
  <2>2. Len(c) = Len(a) + Len(b) BY <1>4, <1>5, ConcatProperties
  <2> HIDE DEF c
  <2> QED BY <1>4, <1>5, <2>1, <2>2
<1>7. \A j \in 1..n - 1 : c[j] = IF j <= i - 1 THEN a[j] ELSE b[j - (i - 1)]
  <2>1. \A j \in 1..Len(a) + Len(b) : c[j] = IF j <= Len(a) THEN a[j] ELSE b[j - Len(a)]
    BY <1>4, <1>5, ConcatProperties
  <2> HIDE DEF c
  <2>2. Len(a) + Len(b) = n - 1 BY <1>4, <1>5
  <2> QED BY <1>4, <2>1, <2>2
<1> HIDE DEF c
<1>8. ASSUME NEW j \in 1..n - 1 PROVE c[j] = s[Skip(i, j)]
  <2>1. CASE j < i
    <3>1. j <= i - 1 /\ j \in 1..i - 1 BY <2>1
    <3>2. c[j] = a[j] BY <1>7, <3>1
    <3> QED BY <1>4, <2>1, <3>1, <3>2 DEF Skip
  <2>2. CASE ~(j < i)
    <3>1. j - (i - 1) \in 1..n - i /\ i + (j - (i - 1)) = j + 1 /\ ~(j <= i - 1) BY <2>2
    <3>2. c[j] = b[j - (i - 1)] BY <1>7, <3>1
    <3>3. b[j - (i - 1)] = s[i + (j - (i - 1))] BY <1>5, <3>1
    <3>4. c[j] = s[j + 1] BY <3>1, <3>2, <3>3
    <3> QED BY <2>2, <3>4 DEF Skip
  <2> QED BY <2>1, <2>2
<1>9. DOMAIN c = 1..n - 1 /\ n - 1 \in Nat BY <1>6
<1>10. IsList(c)
  <2>1. c = [j \in 1..n - 1 |-> c[j]] BY <1>6
  <2> QED BY <1>9, <2>1 DEF IsList
<1> QED BY <1>3, <1>8, <1>9, <1>10 DEF c

\* What a value is without its i-th call.
Fewer(v, w, i) ==
  /\ DOMAIN w = ModelFields /\ w.next = v.next /\ w.epoch = v.epoch /\ w.store = v.store
  /\ IsList(w.calls)
  /\ \E n \in Nat : DOMAIN v.calls = 1..n /\ DOMAIN w.calls = 1..n - 1
  /\ \A j \in DOMAIN w.calls : w.calls[j] = v.calls[Skip(i, j)]

\* A call that is dropped from the list leaves that.
LEMMA Drops ==
  ASSUME NEW v, Listed(v), NEW i \in DOMAIN v.calls
  PROVE  Fewer(v, DropCall(v, v.calls[i].id), i)
<1> DEFINE w == DropCall(v, v.calls[i].id)
<1>1. (CHOOSE j \in DOMAIN v.calls : v.calls[j].id = v.calls[i].id) = i BY DEF Listed
<1>2. /\ DOMAIN w = ModelFields /\ w.next = v.next /\ w.epoch = v.epoch /\ w.store = v.store
      /\ w.calls = RemoveAt(v.calls, i)
  BY <1>1 DEF DropCall, Listed, ModelFields
<1> HIDE DEF w
<1> PICK n \in Nat : DOMAIN v.calls = 1..n /\ v.calls = [j \in 1..n |-> v.calls[j]] BY DEF Listed, IsList
<1> DEFINE s == v.calls
<1>3. i \in 1..n OBVIOUS
<1>4. /\ IsList(RemoveAt(s, i)) /\ DOMAIN RemoveAt(s, i) = 1..n - 1
      /\ \A j \in 1..n - 1 : RemoveAt(s, i)[j] = s[Skip(i, j)]
  <2>1. n \in Nat /\ DOMAIN s = 1..n /\ s = [j \in 1..n |-> s[j]] /\ i \in 1..n OBVIOUS
  <2> HIDE DEF s
  <2> QED BY <2>1, Removes, ZenonT(40)
<1> QED BY <1>2, <1>4 DEF Fewer, w

\* The others are the calls that remain.
LEMMA OthersRemain ==
  ASSUME NEW v, NEW w, NEW i \in DOMAIN v.calls, Listed(v), Fewer(v, w, i)
  PROVE  /\ Listed(w)
         /\ \A j \in DOMAIN w.calls : Skip(i, j) \in DOMAIN v.calls \ {i}
         /\ \A j, l \in DOMAIN w.calls : Skip(i, j) = Skip(i, l) => j = l
         /\ \A l \in DOMAIN v.calls \ {i} : \E j \in DOMAIN w.calls : Skip(i, j) = l
         /\ \A n : Has(w, n) <=> Has(v, n) /\ n # v.calls[i].id
<1> PICK n \in Nat : DOMAIN v.calls = 1..n /\ DOMAIN w.calls = 1..n - 1 BY DEF Fewer
<1>1. \A j \in 1..n - 1 : Skip(i, j) \in 1..n /\ Skip(i, j) # i BY DEF Skip
<1>2. \A j, l \in 1..n - 1 : Skip(i, j) = Skip(i, l) => j = l BY DEF Skip
<1>3. \A l \in 1..n : l # i => \E j \in 1..n - 1 : Skip(i, j) = l
  <2> TAKE l \in 1..n
  <2>1. l < i => l \in 1..n - 1 /\ Skip(i, l) = l BY DEF Skip
  <2>2. l > i => l - 1 \in 1..n - 1 /\ Skip(i, l - 1) = l BY DEF Skip
  <2> QED BY <2>1, <2>2
<1>4. \A j \in DOMAIN w.calls : w.calls[j] = v.calls[Skip(i, j)] BY DEF Fewer
<1>5. \A m1 : Has(w, m1) <=> Has(v, m1) /\ m1 # v.calls[i].id
  <2> TAKE m1
  <2>1. Has(w, m1) => Has(v, m1) /\ m1 # v.calls[i].id BY <1>1, <1>4, SMTT(30) DEF Has, Listed
  <2>2. Has(v, m1) /\ m1 # v.calls[i].id => Has(w, m1)
    <3> SUFFICES ASSUME NEW l \in 1..n, v.calls[l].id = m1, l # i PROVE Has(w, m1) BY DEF Has
    <3> QED BY <1>3, <1>4 DEF Has
  <2> QED BY <2>1, <2>2
<1>6. Listed(w)
  <2>1. \A j \in DOMAIN w.calls : DOMAIN w.calls[j] = CallFields /\ w.calls[j].id \in 1..w.next
    BY <1>1, <1>4 DEF Listed, Fewer
  <2>2. \A j, l \in DOMAIN w.calls : w.calls[j].id = w.calls[l].id => j = l
    <3> TAKE j, l \in DOMAIN w.calls
    <3>1. v.calls[Skip(i, j)].id = v.calls[Skip(i, l)].id => Skip(i, j) = Skip(i, l) BY <1>1 DEF Listed
    <3> QED BY <1>2, <1>4, <3>1
  <2> QED BY <2>1, <2>2 DEF Listed, Fewer
<1> QED BY <1>1, <1>2, <1>3, <1>5, <1>6

\* A call without a recording rolls off.
LEMMA DropGood ==
  ASSUME NEW v, Good(v), NEW i \in DOMAIN v.calls, v.calls[i].audio = NoFile
  PROVE  /\ Good(DropCall(v, v.calls[i].id)) /\ DropCall(v, v.calls[i].id).store = v.store
         /\ DropCall(v, v.calls[i].id).next = v.next
<1> DEFINE w == DropCall(v, v.calls[i].id)
<1>0. Listed(v) BY DEF Good
<1>1. Fewer(v, w, i) BY <1>0, Drops
<1> HIDE DEF w
<1>2. /\ Listed(w)
      /\ \A j \in DOMAIN w.calls : Skip(i, j) \in DOMAIN v.calls \ {i}
      /\ \A j, l \in DOMAIN w.calls : Skip(i, j) = Skip(i, l) => j = l
      /\ \A l \in DOMAIN v.calls \ {i} : \E j \in DOMAIN w.calls : Skip(i, j) = l
      /\ \A n : Has(w, n) <=> Has(v, n) /\ n # v.calls[i].id
  BY <1>0, <1>1, OthersRemain
<1>3. \A j \in DOMAIN w.calls : w.calls[j] = v.calls[Skip(i, j)] BY <1>1 DEF Fewer
<1>4. w.store = v.store /\ w.next = v.next /\ w.epoch = v.epoch BY <1>1 DEF Fewer
<1>5. Written(w)
  <2> SUFFICES ASSUME NEW f \in v.store.open
               PROVE  \E j \in DOMAIN w.calls : w.calls[j].open /\ w.calls[j].audio = f
    BY <1>4 DEF Written
  <2>1. PICK l \in DOMAIN v.calls : v.calls[l].open /\ v.calls[l].audio = f BY DEF Good, Tapes, Written
  <2>2. l # i BY <2>1 DEF Good, Tapes, Apart
  <2> QED BY <1>2, <1>3, <2>1, <2>2
<1>6. Offered(w) BY <1>2, <1>3, <1>4 DEF Good, Tapes, Offered
<1>7. Owned(w) BY <1>2, <1>3 DEF Good, Tapes, Owned
<1>8. Named(w) BY <1>2, <1>3, <1>4 DEF Good, Tapes, Named
<1>9. Apart(w) BY <1>4 DEF Good, Tapes, Apart
<1>10. Ended(w) BY <1>2, <1>3 DEF Good, Tapes, Ended
<1> QED BY <1>2, <1>4, <1>5, <1>6, <1>7, <1>8, <1>9, <1>10 DEF Good, Tapes, w

\* A value with good recordings, none evicted meanwhile.
Fine(v, w) == Good(w) /\ w.store.evicted = v.store.evicted

\* Steps of that kind, one after the other.
LEMMA FineSteps ==
  ASSUME NEW u, NEW v, NEW w
  PROVE  /\ Goes(u, v) => Fine(u, v)
         /\ Fine(u, v) /\ Fine(v, w) => Fine(u, w)
         /\ Fine(u, v) /\ Kept(v, w) => Fine(u, w)
         /\ Good(u) /\ Kept(u, v) => Fine(u, v)
         /\ Good(u) => Fine(u, u)
BY KeptGood DEF Goes, Later, Fine, Kept

\* The oldest call without a recording rolls off (open_call).
LEMMA RollOffGood ==
  ASSUME NEW v, Good(v) PROVE Fine(v, RollOff(v)) /\ RollOff(v).next = v.next
<1>1. CASE Cardinality(Loose(v)) < MaxCalls BY <1>1, FineSteps DEF RollOff
<1>2. CASE ~(Cardinality(Loose(v)) < MaxCalls)
  <2> DEFINE i == Min(Loose(v))
             id == v.calls[i].id
             w == CloseCall(v, id)
  <2>1. Loose(v) # {}
    <3>1. Cardinality({}) = 0 BY FS_EmptySet
    <3>2. MaxCalls \in Nat \ {0} BY CallAssumption
    <3> QED BY <1>2, <3>1, <3>2
  <2>2. Loose(v) \subseteq DOMAIN v.calls /\ Loose(v) \subseteq Nat BY DEF Loose, Good, Listed, IsList
  <2>3. i \in Loose(v)
    <3>1. \E x \in Loose(v) : \A y \in Loose(v) : x <= y BY <2>1, <2>2, Closing!Least
    <3> QED BY <3>1 DEF Min
  <2>4. i \in DOMAIN v.calls /\ ~v.calls[i].keep BY <2>2, <2>3 DEF Loose
  <2> HIDE DEF i
  <2>5. v.calls[i].audio = NoFile BY <2>4 DEF Good, Tapes, Offered
  <2>6. Goes(v, w) BY CloseGoes
  <2>7. RollOff(v) = DropCall(w, id) BY <1>2 DEF RollOff, i
  <2> HIDE DEF w
  <2>8. i \in DOMAIN w.calls /\ w.calls[i].id = id /\ w.calls[i].audio = NoFile /\ w.next = v.next
    BY <2>4, <2>5, <2>6 DEF Goes, Later
  <2>9. Good(DropCall(w, id)) /\ DropCall(w, id).store = w.store /\ DropCall(w, id).next = w.next
    BY <2>6, <2>8, DropGood DEF Goes
  <2> QED BY <2>6, <2>7, <2>8, <2>9 DEF Fine, Goes, Later
<1> QED BY <1>1, <1>2

\* A new call has the next id, and no recording.
LEMMA AddGood ==
  ASSUME NEW v, NEW sid, NEW slot, NEW t, Good(v)
  PROVE  /\ Fine(v, AddCall(v, sid, slot, t)) /\ AddCall(v, sid, slot, t).next # 0
         /\ Running(AddCall(v, sid, slot, t), AddCall(v, sid, slot, t).next)
<1> DEFINE id == v.next + 1
           k == [id |-> id, session |-> sid, net |-> v.sess[sid].net, slot |-> slot,
                 src |-> Nobody, tgt |-> Nobody, priv |-> FALSE, voice |-> FALSE, data |-> FALSE,
                 emergency |-> FALSE, encrypted |-> FALSE, kid |-> NoKey, keyNoted |-> FALSE,
                 open |-> TRUE, counted |-> FALSE, audio |-> NoFile, audioSid |-> 0, audioSlot |-> 0,
                 samples |-> 0, keep |-> FALSE, noAudio |-> FALSE, keyed |-> FALSE,
                 start |-> t, last |-> t, txEnd |-> 0, streams |-> 1, qual |-> 0]
           w == AddCall(v, sid, slot, t)
<1>0. Listed(v) BY DEF Good
<1>1. DOMAIN k = CallFields /\ k.id = id /\ k.open /\ k.audio = NoFile /\ k.keep = FALSE
  BY DEF CallFields
<1>2. /\ DOMAIN w = ModelFields /\ w.calls = Append(v.calls, k) /\ w.next = id
      /\ w.epoch = v.epoch /\ w.store = v.store
  BY <1>0 DEF AddCall, Listed, ModelFields
<1> HIDE DEF k, w
<1> PICK n \in Nat : DOMAIN v.calls = 1..n BY <1>0 DEF Listed, IsList
<1> DEFINE s == v.calls
<1>3. /\ IsList(Append(s, k)) /\ DOMAIN Append(s, k) = 1..n + 1
      /\ Append(s, k)[n + 1] = k /\ \A i \in 1..n : Append(s, k)[i] = s[i]
  <2>1. DOMAIN s = 1..n /\ IsList(s) BY <1>0 DEF Listed
  <2> HIDE DEF s
  <2> QED BY <2>1, Appended
<1>4. /\ IsList(w.calls) /\ DOMAIN w.calls = 1..n + 1 /\ w.calls[n + 1] = k
      /\ \A i \in 1..n : w.calls[i] = v.calls[i]
  BY <1>2, <1>3
<1> HIDE DEF s
<1>5. v.next \in Nat /\ id \in Nat /\ 1..v.next \subseteq 1..id /\ id \in 1..id /\ id \notin 1..v.next
  BY <1>0 DEF Listed
<1>6. 1..n + 1 = 1..n \cup {n + 1} /\ n + 1 \notin 1..n OBVIOUS
<1>7. Listed(w)
  <2>1. \A i \in DOMAIN w.calls : DOMAIN w.calls[i] = CallFields /\ w.calls[i].id \in 1..w.next
    BY <1>0, <1>1, <1>2, <1>4, <1>5, <1>6 DEF Listed
  <2>2. \A i \in 1..n : v.calls[i].id # id BY <1>0, <1>5 DEF Listed
  <2>3. \A i, j \in DOMAIN w.calls : w.calls[i].id = w.calls[j].id => i = j
    BY <1>0, <1>1, <1>4, <1>6, <2>2, SMTT(30) DEF Listed
  <2> QED BY <1>0, <1>2, <1>4, <1>5, <2>1, <2>3 DEF Listed
<1>8. \A x : Has(w, x) => Has(v, x) \/ x = id BY <1>1, <1>4, <1>6 DEF Has
<1>9. Written(w) BY <1>2, <1>4, <1>6 DEF Good, Tapes, Written
<1>10. Offered(w)
  <2>1. ASSUME NEW i \in DOMAIN w.calls
        PROVE  /\ w.calls[i].keep = (w.calls[i].audio # NoFile)
               /\ w.calls[i].audio # NoFile => w.calls[i].audio \in Indexed(w.store) \cup w.store.evicted
    <3>1. CASE i \in 1..n BY <1>2, <1>4, <3>1 DEF Good, Tapes, Offered
    <3>2. CASE i = n + 1 BY <1>1, <1>4, <3>2
    <3> QED BY <1>4, <1>6, <3>1, <3>2
  <2> QED BY <2>1 DEF Offered
<1>11. Owned(w) BY <1>1, <1>4, <1>6, SMTT(30) DEF Good, Tapes, Owned
<1>12. Named(w)
  <2> SUFFICES ASSUME NEW i \in DOMAIN w.calls, w.calls[i].audio # NoFile
               PROVE  \E x \in 1..w.next : w.calls[i].audio = <<x, w.epoch>> /\ (x = w.calls[i].id \/ ~Has(w, x))
    BY DEF Named
  <2>1. i \in 1..n /\ w.calls[i] = v.calls[i] BY <1>1, <1>4, <1>6
  <2>2. PICK x \in 1..v.next : v.calls[i].audio = <<x, v.epoch>> /\ (x = v.calls[i].id \/ ~Has(v, x))
    BY <2>1 DEF Good, Tapes, Named
  <2> QED BY <1>2, <1>5, <1>8, <2>1, <2>2
<1>13. Apart(w) BY <1>2 DEF Good, Tapes, Apart
<1>14. Ended(w) BY <1>1, <1>4, <1>6 DEF Good, Tapes, Ended
<1>15. Running(w, w.next) BY <1>1, <1>2, <1>4, <1>6 DEF Running
<1> QED BY <1>2, <1>5, <1>7, <1>9, <1>10, <1>11, <1>12, <1>13, <1>14, <1>15 DEF Good, Tapes, Fine, w

\* A call is opened, for which others may be closed (open_call).
LEMMA OpenGood ==
  ASSUME NEW v, NEW sid, NEW slot, NEW t, Good(v)
  PROVE  /\ Fine(v, OpenCall(v, sid, slot, t)) /\ OpenCall(v, sid, slot, t).next # 0
         /\ Running(OpenCall(v, sid, slot, t), OpenCall(v, sid, slot, t).next)
<1> DEFINE a == EndSlot(v, slot, FreshCall(v, sid, slot, t))
           b == RollOff(a)
<1>1. Fine(v, a) BY CloseGoes, FineSteps DEF EndSlot
<1> HIDE DEF a
<1>2. Fine(v, b) BY <1>1, RollOffGood, FineSteps DEF Fine
<1> HIDE DEF b
<1>3. /\ Fine(b, AddCall(b, sid, slot, t)) /\ AddCall(b, sid, slot, t).next # 0
      /\ Running(AddCall(b, sid, slot, t), AddCall(b, sid, slot, t).next)
  BY <1>2, AddGood DEF Fine
<1> QED BY <1>2, <1>3, FineSteps DEF OpenCall, a, b

----------------------------------------------------------------------------
\* A call turns out to be another stream's (adopt_twin).

\* The call is gone, and its twin has the recording of one of them; the other's
\* file, if there was one, is deleted.
LEMMA FoldedGood ==
  ASSUME NEW v, Good(v), NEW d \in DOMAIN v.calls, NEW i \in DOMAIN v.calls, d # i,
         NEW a, NEW w, NEW t, Changed(v, a, i), a.calls[i] = t, Fewer(a, [w EXCEPT !.store = a.store], d),
         DOMAIN w = ModelFields, t.open,
         t.audio = (IF v.calls[i].audio = NoFile THEN v.calls[d].audio ELSE v.calls[i].audio),
         t.keep = (t.audio # NoFile),
         DOMAIN w.store = StoreFields, IsList(w.store.index), w.store.evicted = v.store.evicted,
         v.calls[d].audio = NoFile \/ v.calls[i].audio = NoFile =>
           w.store.open = v.store.open /\ Indexed(w.store) = Indexed(v.store),
         v.calls[d].audio # NoFile /\ v.calls[i].audio # NoFile =>
           /\ w.store.open = v.store.open \ {v.calls[d].audio}
           /\ Indexed(w.store) = Indexed(v.store) \ {v.calls[d].audio}
  PROVE  Good(w) /\ Running(w, v.calls[i].id)
<1> DEFINE u == [w EXCEPT !.store = a.store]
<1>0. Listed(v) BY DEF Good
<1>1. /\ u.calls = w.calls /\ u.next = w.next /\ u.epoch = w.epoch /\ DOMAIN u = ModelFields
  BY DEF ModelFields
<1> HIDE DEF u
<1>2. Listed(a) /\ \A n : Has(a, n) <=> Has(v, n) BY <1>0, ChangedListed
<1>3. /\ DOMAIN a.calls = DOMAIN v.calls /\ a.next = v.next /\ a.epoch = v.epoch
      /\ a.calls[d] = v.calls[d] /\ t.id = v.calls[i].id
      /\ \A j \in DOMAIN v.calls : j # i => a.calls[j] = v.calls[j]
  BY DEF Changed
<1>4. Fewer(a, u, d) BY DEF u
<1>5. /\ Listed(u)
      /\ \A j \in DOMAIN w.calls : Skip(d, j) \in DOMAIN v.calls \ {d}
      /\ \A j, l \in DOMAIN w.calls : Skip(d, j) = Skip(d, l) => j = l
      /\ \A l \in DOMAIN v.calls \ {d} : \E j \in DOMAIN w.calls : Skip(d, j) = l
      /\ \A n : Has(w, n) <=> Has(v, n) /\ n # v.calls[d].id
  <2>1. \A n : Has(w, n) <=> Has(u, n) BY <1>1 DEF Has
  <2> QED BY <1>1, <1>2, <1>3, <1>4, <2>1, OthersRemain
<1>6. /\ w.next = v.next /\ w.epoch = v.epoch
      /\ \A j \in DOMAIN w.calls : w.calls[j] = (IF Skip(d, j) = i THEN t ELSE v.calls[Skip(d, j)])
  BY <1>1, <1>3, <1>4, <1>5 DEF Fewer
<1>7. PICK p \in DOMAIN w.calls : Skip(d, p) = i BY <1>5
<1>8. w.calls[p] = t BY <1>6, <1>7
<1>9. Listed(w) BY <1>1, <1>5 DEF Listed
<1>10. Running(w, v.calls[i].id) BY <1>3, <1>8 DEF Running
<1>11. NoFile \notin v.store.open BY DEF Good, Tapes, Apart
<1>12. Written(w)
  <2> SUFFICES ASSUME NEW f \in w.store.open
               PROVE  \E j \in DOMAIN w.calls : w.calls[j].open /\ w.calls[j].audio = f
    BY DEF Written
  <2>1. f \in v.store.open /\ f # NoFile BY <1>11
  <2>2. PICK l \in DOMAIN v.calls : v.calls[l].open /\ v.calls[l].audio = f
    BY <2>1 DEF Good, Tapes, Written
  <2>3. CASE l \in {d, i}
    <3>1. t.audio = f BY <2>1, <2>2, <2>3
    <3> QED BY <1>8, <3>1
  <2>4. CASE l \notin {d, i} BY <1>5, <1>6, <2>2, <2>4
  <2> QED BY <2>3, <2>4
<1>13. \A j \in DOMAIN v.calls : j # d /\ v.calls[j].audio # NoFile => v.calls[j].audio # v.calls[d].audio
  BY DEF Good, Tapes, Owned
<1>14. \A j \in DOMAIN v.calls : /\ v.calls[j].keep = (v.calls[j].audio # NoFile)
                                 /\ v.calls[j].audio # NoFile =>
                                      v.calls[j].audio \in Indexed(v.store) \cup v.store.evicted
  BY DEF Good, Tapes, Offered
<1>15. ASSUME NEW j \in DOMAIN w.calls
       PROVE  /\ w.calls[j].keep = (w.calls[j].audio # NoFile)
              /\ w.calls[j].audio # NoFile => w.calls[j].audio \in Indexed(w.store) \cup w.store.evicted
  <2>1. CASE Skip(d, j) = i
    <3>1. t.audio # NoFile => t.audio \in Indexed(w.store) \cup w.store.evicted BY <1>13, <1>14
    <3> QED BY <1>6, <2>1, <3>1
  <2>2. CASE Skip(d, j) # i
    <3> PICK l \in DOMAIN v.calls : l = Skip(d, j) /\ l # d BY <1>5
    <3>1. w.calls[j] = v.calls[l] BY <1>6, <2>2
    <3>2. v.calls[l].audio # NoFile => v.calls[l].audio \in Indexed(w.store) \cup w.store.evicted
      BY <1>13, <1>14
    <3> QED BY <1>14, <3>1, <3>2
  <2> QED BY <2>1, <2>2
<1>16. Offered(w) BY <1>15 DEF Offered
<1>17. Owned(w)
  <2> SUFFICES ASSUME NEW j \in DOMAIN w.calls, NEW l \in DOMAIN w.calls,
                      w.calls[j].audio # NoFile, w.calls[j].audio = w.calls[l].audio
               PROVE  j = l
    BY DEF Owned
  <2> DEFINE from(q) == IF Skip(d, q) = i /\ v.calls[i].audio = NoFile THEN d ELSE Skip(d, q)
  <2>1. \A q \in DOMAIN w.calls : from(q) \in DOMAIN v.calls /\ w.calls[q].audio = v.calls[from(q)].audio
    BY <1>5, <1>6
  <2>2. from(j) = from(l) BY <2>1 DEF Good, Tapes, Owned
  <2>3. Skip(d, j) = Skip(d, l) BY <1>5, <2>2
  <2> QED BY <1>5, <2>3
<1>18. Named(w)
  <2> SUFFICES ASSUME NEW j \in DOMAIN w.calls, w.calls[j].audio # NoFile
               PROVE  \E n \in 1..w.next : w.calls[j].audio = <<n, w.epoch>> /\ (n = w.calls[j].id \/ ~Has(w, n))
    BY DEF Named
  <2>1. CASE Skip(d, j) = i
    <3> PICK l \in {d, i} : t.audio = v.calls[l].audio OBVIOUS
    <3>1. PICK n \in 1..v.next : v.calls[l].audio = <<n, v.epoch>> /\ (n = v.calls[l].id \/ ~Has(v, n))
      BY <1>6, <2>1 DEF Good, Tapes, Named
    <3> QED BY <1>3, <1>5, <1>6, <2>1, <3>1
  <2>2. CASE Skip(d, j) # i
    <3> PICK l \in DOMAIN v.calls : l = Skip(d, j) /\ l # d BY <1>5
    <3>1. w.calls[j] = v.calls[l] BY <1>6, <2>2
    <3>2. PICK n \in 1..v.next : v.calls[l].audio = <<n, v.epoch>> /\ (n = v.calls[l].id \/ ~Has(v, n))
      BY <3>1 DEF Good, Tapes, Named
    <3> QED BY <1>5, <1>6, <3>1, <3>2
  <2> QED BY <2>1, <2>2
<1>19. Apart(w) BY DEF Good, Tapes, Apart
<1>20. Ended(w)
  <2> SUFFICES ASSUME NEW j \in DOMAIN w.calls, ~w.calls[j].open, w.calls[j].audio # NoFile
               PROVE  Clean(w.calls[j])
    BY DEF Ended
  <2>1. Skip(d, j) # i BY <1>6
  <2> QED BY <1>5, <1>6, <2>1 DEF Good, Tapes, Ended
<1> QED BY <1>9, <1>10, <1>12, <1>16, <1>17, <1>18, <1>19, <1>20 DEF Good, Tapes

\* So are the recordings of the two (adopt_twin).
LEMMA AdoptGood ==
  ASSUME NEW v, NEW sid, NEW slot, Good(v), NEW d \in DOMAIN v.calls, NEW i \in DOMAIN v.calls, d # i,
         v.calls[i].open
  PROVE  /\ Fine(v, AdoptTwin(v, sid, v.calls[d], v.calls[i], slot))
         /\ Running(AdoptTwin(v, sid, v.calls[d], v.calls[i], slot), v.calls[i].id)
<1> DEFINE dup == v.calls[d]
           twin == v.calls[i]
           taken == twin.audio = NoFile
           t == [twin EXCEPT
             !.voice = @ \/ dup.voice, !.data = @ \/ dup.data, !.emergency = @ \/ dup.emergency,
             !.encrypted = @ \/ dup.encrypted, !.kid = IF @ = NoKey THEN dup.kid ELSE @,
             !.slot = IF @ = 0 THEN dup.slot ELSE @,
             !.start = MinOf(@, dup.start), !.last = MaxOf(@, dup.last), !.streams = @ + 1,
             !.audio = IF taken THEN dup.audio ELSE @,
             !.audioSid = IF taken /\ dup.audio # NoFile THEN dup.audioSid ELSE @,
             !.audioSlot = IF taken /\ dup.audio # NoFile THEN dup.audioSlot ELSE @,
             !.samples = IF taken /\ dup.audio # NoFile THEN dup.samples ELSE @,
             !.keep = @ \/ dup.keep]
           a == SetCall(v, t)
           b == DropCall(a, dup.id)
           s == IF dup.audio # NoFile /\ ~taken THEN Discard(v.store, dup.audio) ELSE v.store
           To(id) == IF id = dup.id THEN twin.id ELSE id
           w == [b EXCEPT
             !.store = s, !.quality = Without(@, {dup.id}),
             !.sess[sid].active = [x \in DOMAIN @ |-> To(@[x])],
             !.sess[sid].last = [[x \in Slots |-> To(@[x])] EXCEPT ![slot] = twin.id]]
<1>0. Listed(v) /\ DOMAIN v.store = StoreFields /\ IsList(v.store.index) BY DEF Good, Listed
<1>1. DOMAIN twin = CallFields /\ DOMAIN dup = CallFields BY <1>0 DEF Listed
<1>2. /\ DOMAIN t = CallFields /\ t.id = twin.id /\ t.open = twin.open
      /\ t.audio = (IF taken THEN dup.audio ELSE twin.audio) /\ t.keep = (twin.keep \/ dup.keep)
  BY <1>1, ZenonT(60) DEF CallFields
<1> HIDE DEF t
<1>3. Changed(v, a, i) /\ a.calls[i] = t /\ a.store = v.store BY <1>0, <1>2, SetsOne
<1> HIDE DEF a
<1>4. Listed(a) /\ d \in DOMAIN a.calls /\ a.calls[d] = dup BY <1>0, <1>3, ChangedListed DEF Changed
<1>5. Fewer(a, b, d) BY <1>4, Drops
<1>6. AdoptTwin(v, sid, dup, twin, slot) = NoteKey(w, twin.id)
  <2>1. b.store = v.store BY <1>3, <1>5 DEF Fewer
  <2> DEFINE x == [b EXCEPT
             !.store = IF dup.audio # NoFile /\ ~taken THEN Discard(@, dup.audio) ELSE @,
             !.quality = Without(@, {dup.id}),
             !.sess[sid].active = [y \in DOMAIN @ |-> To(@[y])],
             !.sess[sid].last = [[y \in Slots |-> To(@[y])] EXCEPT ![slot] = twin.id]]
  <2>2. AdoptTwin(v, sid, dup, twin, slot) = NoteKey(x, twin.id) BY DEF AdoptTwin, t, a
  <2> HIDE DEF b, To
  <2>3. x = w BY <2>1
  <2> QED BY <2>2, <2>3
<1> HIDE DEF b
<1>7. /\ DOMAIN w = ModelFields /\ w.calls = b.calls /\ w.next = b.next /\ w.epoch = b.epoch /\ w.store = s
  BY <1>5 DEF Fewer, ModelFields
<1> HIDE DEF w
<1>8. Fewer(a, [w EXCEPT !.store = a.store], d)
  <2> DEFINE x == [w EXCEPT !.store = a.store]
  <2>1. /\ DOMAIN x = ModelFields /\ x.calls = w.calls /\ x.next = w.next /\ x.epoch = w.epoch
        /\ x.store = a.store
    BY <1>7 DEF ModelFields
  <2> HIDE DEF x
  <2>2. Fewer(a, x, d) BY <1>5, <1>7, <2>1 DEF Fewer
  <2> QED BY <2>2 DEF x
<1>9. /\ DOMAIN s = StoreFields /\ IsList(s.index) /\ s.evicted = v.store.evicted
      /\ dup.audio = NoFile \/ taken => s.open = v.store.open /\ Indexed(s) = Indexed(v.store)
      /\ dup.audio # NoFile /\ ~taken =>
           s.open = v.store.open \ {dup.audio} /\ Indexed(s) = Indexed(v.store) \ {dup.audio}
  BY <1>0, Discards
<1> HIDE DEF s
<1>10. twin.keep = (twin.audio # NoFile) /\ dup.keep = (dup.audio # NoFile) BY DEF Good, Tapes, Offered
<1>11. t.keep = (t.audio # NoFile) BY <1>2, <1>10
<1>12. Good(w) /\ Running(w, twin.id)
  BY <1>2, <1>3, <1>7, <1>8, <1>9, <1>11, FoldedGood
<1>13. Listed(w) /\ Has(w, twin.id) BY <1>12 DEF Good, Running, Has
<1>14. Kept(w, NoteKey(w, twin.id)) BY <1>13, NoteKeyKept
<1>15. Fine(v, w) BY <1>7, <1>9, <1>12 DEF Fine
<1>16. Fine(v, NoteKey(w, twin.id)) BY <1>14, <1>15, FineSteps
<1>17. Running(NoteKey(w, twin.id), twin.id) BY <1>12, <1>13, <1>14, KeptListed
<1> QED BY <1>6, <1>16, <1>17

\* The last of some places in a list.
LEMMA Greatest ==
  ASSUME NEW n \in Nat, NEW S, S \subseteq 1..n, S # {} PROVE Max(S) \in S
<1> DEFINE T == {n - x : x \in S}
<1>0. \A x \in S : n - x \in Nat OBVIOUS
<1>1. T \subseteq Nat /\ T # {} BY <1>0
<1>2. \E x \in T : \A y \in T : x <= y BY <1>1, Closing!Least
<1>3. PICK z \in S : \A y \in S : z >= y
  <2>1. PICK x \in S : \A y \in S : n - x <= n - y BY <1>2
  <2>2. \A y \in S : x \in Int /\ y \in Int BY <2>1
  <2> QED BY <2>1, <2>2
<1> QED BY <1>3 DEF Max

\* A call is counted once, its twins' included (settle).
LEMMA SettleGood ==
  ASSUME NEW v, NEW sid, NEW id, NEW slot, NEW t, Good(v), Has(v, id)
  PROVE  Fine(v, SettleId(v, sid, id, slot, t))
<1> PICK d \in DOMAIN v.calls : v.calls[d].id = id BY DEF Has
<1> DEFINE k == v.calls[d]
           twins == Twins(v, k, t)
           a == One(v, sid, k, twins, slot)
<1>0. Listed(v) BY DEF Good
<1>1. FindCall(v, id) = k BY <1>0, Finds
<1>2. SettleId(v, sid, id, slot, t) = v \/ SettleId(v, sid, id, slot, t) = CountOnce(a, t)
  BY <1>1 DEF SettleId, Settle
<1>3. Fine(v, a.m) /\ Has(a.m, a.id)
  <2>1. CASE twins = {} BY <2>1, FineSteps DEF One
  <2>2. CASE twins # {}
    <3> DEFINE i == Max(twins)
    <3>1. PICK n \in Nat : DOMAIN v.calls = 1..n BY <1>0 DEF Listed, IsList
    <3>2. twins \subseteq 1..n BY <3>1 DEF Twins
    <3>3. i \in twins BY <2>2, <3>1, <3>2, Greatest
    <3>4. i \in DOMAIN v.calls /\ i # d /\ v.calls[i].open
      BY <3>3, Zenon DEF Twins, Current
    <3>5. a = [m |-> AdoptTwin(v, sid, k, v.calls[i], slot), id |-> v.calls[i].id]
      BY <2>2 DEF One, Adopted
    <3> HIDE DEF i, twins
    <3> DEFINE w == AdoptTwin(v, sid, k, v.calls[i], slot)
    <3>6. Fine(v, w) /\ Running(w, v.calls[i].id) BY <3>4, AdoptGood
    <3>7. a.m = w /\ a.id = v.calls[i].id BY <3>5
    <3> HIDE DEF a, w
    <3> QED BY <3>6, <3>7 DEF Running, Has
  <2> QED BY <2>1, <2>2
<1> HIDE DEF a
<1>4. Fine(v, CountOnce(a, t))
  <2>1. Listed(a.m) BY <1>3 DEF Fine, Good
  <2>2. Kept(a.m, CountCall(a.m, a.id, t)) BY <1>3, <2>1, CountCallKept
  <2>3. Fine(v, CountCall(a.m, a.id, t)) BY <1>3, <2>2, FineSteps
  <2> QED BY <1>3, <2>3 DEF CountOnce
<1> QED BY <1>2, <1>4, FineSteps

\* A line goes into its call (fold).
LEMMA FoldGood ==
  ASSUME NEW v, NEW sid, NEW id, NEW line, NEW t, Good(v), Running(v, id)
  PROVE  Fine(v, Fold(v, sid, id, line, t))
<1> DEFINE a == Take(v, sid, FindCall(v, id), line, t)
           b == RefineKey(a, id, line)
           c == RefinePrivate(b, id, line, t)
<1>0. Listed(v) BY DEF Good
<1>1. Kept(v, a) BY <1>0, TakeKept
<1>2. Listed(a) /\ Running(a, id) BY <1>0, <1>1, KeptListed
<1> HIDE DEF a
<1>3. Kept(a, b) BY <1>2, NoteEncryptedKept, Nothing DEF RefineKey
<1>4. Kept(v, b) BY <1>1, <1>3, KeptTwice
<1>5. Listed(b) /\ Running(b, id) BY <1>2, <1>3, KeptListed
<1> HIDE DEF b
<1>6. Kept(b, c) BY <1>5, SetPrivateKept, Nothing DEF RefinePrivate, Has, Running
<1>7. Kept(v, c) BY <1>4, <1>6, KeptTwice
<1>8. Listed(c) /\ Has(c, id) BY <1>5, <1>6, KeptListed DEF Has, Running
<1> HIDE DEF c
<1>9. Fine(v, c) BY <1>7, FineSteps
<1>10. Fine(c, SettleId(c, sid, id, line.slot, t)) BY <1>8, <1>9, SettleGood DEF Fine
<1>11. Fine(v, SettleId(c, sid, id, line.slot, t)) BY <1>9, <1>10, FineSteps
<1> QED BY <1>11 DEF Fold, a, b, c

----------------------------------------------------------------------------
\* The call a line belongs to.

\* What a line is matched with: nothing, or a call of the list that runs, in a
\* value with good recordings.
Runs(v, k) == k = NoCall \/ (Running(v, k.id) /\ k.id # 0)
Matched(v, a) == DOMAIN a = {"m", "call"} /\ Fine(v, a.m) /\ Runs(a.m, a.call)

\* The call that is current, if there is one, runs.
LEMMA CurrentRuns ==
  ASSUME NEW v, NEW id, NEW t, Listed(v) PROVE Runs(v, IF Current(FindCall(v, id), t) THEN FindCall(v, id) ELSE NoCall)
<1>1. CASE Current(FindCall(v, id), t)
  <2>1. PICK i \in DOMAIN v.calls : FindCall(v, id) = v.calls[i] /\ v.calls[i].id = id /\ v.calls[i].open
    BY <1>1, FreshRuns
  <2>2. v.calls[i].id \in 1..v.next /\ v.next \in Nat BY DEF Listed
  <2>3. v.calls[i].id # 0 BY <2>2
  <2> QED BY <1>1, <2>1, <2>3 DEF Runs, Running
<1>2. CASE ~Current(FindCall(v, id), t) BY <1>2 DEF Runs
<1> QED BY <1>1, <1>2

\* On a slot of a stream.
LEMMA FreshIsRunning ==
  ASSUME NEW v, NEW sid, NEW slot, NEW t, Listed(v) PROVE Runs(v, FreshCall(v, sid, slot, t))
BY CurrentRuns DEF FreshCall

\* A call heard without its slot gets one.
LEMMA SlotGiven ==
  ASSUME NEW v, NEW sid, NEW id, NEW from, NEW line, Good(v), Running(v, id), id # 0
  PROVE  Matched(v, GiveSlot(v, sid, FindCall(v, id), from, line))
<1> PICK i \in DOMAIN v.calls : v.calls[i].id = id /\ v.calls[i].open BY DEF Running
<1> DEFINE k == v.calls[i]
           l == [k EXCEPT !.slot = line.slot]
           a == SetCall(v, l)
<1>0. Listed(v) BY DEF Good
<1>1. FindCall(v, id) = k BY <1>0, Finds
<1>2. Of(v, l) /\ l.id = id BY <1>0 DEF Of, Alike, Listed, CallFields
<1> DEFINE g == GiveSlot(v, sid, k, from, line)
<1>3. \/ g = [m |-> v, call |-> k]
      \/ \E f : g = [m |-> [a EXCEPT !.sess = f], call |-> l]
  BY DEF GiveSlot
<1> HIDE DEF l
<1>4. Kept(v, a) BY <1>0, <1>2, SetKept
<1> HIDE DEF a, g
<1>5. CASE g = [m |-> v, call |-> k]
  <2>1. g.m = v /\ g.call = k /\ DOMAIN g = {"m", "call"} BY <1>5
  <2> QED BY <1>1, <2>1, FineSteps DEF Matched, Runs, g
<1>6. CASE \E f : g = [m |-> [a EXCEPT !.sess = f], call |-> l]
  <2> PICK f : g = [m |-> [a EXCEPT !.sess = f], call |-> l] BY <1>6
  <2> DEFINE w == [a EXCEPT !.sess = f]
  <2>1. Kept(v, w) BY <1>0, <1>4, FieldThen
  <2>2. g.m = w /\ g.call = l OBVIOUS
  <2> HIDE DEF w
  <2>3. Fine(v, w) /\ Running(w, id) BY <1>0, <2>1, FineSteps, KeptListed
  <2> QED BY <1>1, <1>2, <2>2, <2>3 DEF Matched, Runs, g
<1> QED BY <1>1, <1>3, <1>5, <1>6 DEF g

\* A line with a target: by its slot, without one, or the one without a target
\* (find_call).
LEMMA FoundMatches ==
  ASSUME NEW v, NEW sid, NEW line, NEW t, Good(v) PROVE Matched(v, Found(v, sid, line, t))
<1>0. Listed(v) BY DEF Good
<1>1. Runs(v, FreshCall(v, sid, line.slot, t)) BY <1>0, FreshIsRunning
<1>2. Fine(v, v) BY FineSteps
<1>3. Runs(v, Keyed(v, sid, line, t))
  <2> DEFINE at == <<line.slot, line.tgt>>
             id == v.sess[sid].active[at]
             k == FindCall(v, id)
  <2>1. Runs(v, IF Current(k, t) THEN k ELSE NoCall) BY <1>0, CurrentRuns
  <2>2. Runs(v, NoCall) BY DEF Runs
  <2>3. Keyed(v, sid, line, t) \in {NoCall, IF Current(k, t) THEN k ELSE NoCall} BY DEF Keyed
  <2> HIDE DEF k
  <2> QED BY <2>1, <2>2, <2>3
<1>4. Matched(v, Slotless(v, sid, line, t))
  <2> DEFINE fits == SlotFits(v, sid, line, t)
             s == FirstSlot(fits)
             id == v.sess[sid].active[<<s, line.tgt>>]
  <2>1. CASE fits = {}
    <3>1. Slotless(v, sid, line, t) = [m |-> v, call |-> NoCall] BY <2>1 DEF Slotless, SlotlessAt
    <3> QED BY <1>2, <3>1 DEF Matched, Runs
  <2>2. CASE fits # {}
    <3>1. fits \subseteq 0..2 BY DEF SlotFits, Slots
    <3>2. \E x \in fits : x = 1 \/ (x = 2 /\ 1 \notin fits) \/ fits = {0}
      <4> HIDE DEF fits
      <4>0. fits \subseteq {0, 1, 2} BY <3>1
      <4>1. 0 \in fits \/ 1 \in fits \/ 2 \in fits BY <2>2, <4>0
      <4>2. 1 \notin fits /\ 2 \notin fits => fits = {0} BY <4>0, <4>1
      <4> QED BY <4>1, <4>2
    <3>3. s \in fits BY <3>2 DEF FirstSlot
    <3>4. Current(FindCall(v, id), t) BY <3>3, Zenon DEF SlotFits
    <3>5. Slotless(v, sid, line, t) = GiveSlot(v, sid, FindCall(v, id), s, line)
      BY <2>2 DEF Slotless, SlotlessAt
    <3> HIDE DEF fits, s, id
    <3>6. PICK i \in DOMAIN v.calls : FindCall(v, id) = v.calls[i] /\ v.calls[i].id = id /\ v.calls[i].open
      BY <1>0, <3>4, FreshRuns
    <3>7. Running(v, id) BY <3>6 DEF Running
    <3>8. id # 0 BY <1>0, <3>6 DEF Listed
    <3>9. Matched(v, GiveSlot(v, sid, FindCall(v, id), s, line)) BY <3>7, <3>8, SlotGiven
    <3> QED BY <3>5, <3>9
  <2> QED BY <2>1, <2>2
<1>5. Runs(v, Targetless(v, sid, line, t)) BY <1>1 DEF Targetless, Runs
<1>6. \A k : Runs(v, k) => Matched(v, [m |-> v, call |-> k]) BY <1>2 DEF Matched
<1>7. Matched(v, FoundOf(v, Keyed(v, sid, line, t), Slotless(v, sid, line, t), Targetless(v, sid, line, t)))
  BY <1>3, <1>4, <1>5, <1>6 DEF FoundOf
<1> QED BY <1>1, <1>6, <1>7 DEF Found

\* A new talker ends the call, and data stays data.
LEMMA FittingMatches ==
  ASSUME NEW v, NEW a, NEW line, Good(v), Matched(v, a) PROVE Matched(v, Fitting(a, line))
<1> DEFINE k == a.call
<1>1. Fine(v, a.m) /\ Runs(a.m, k) BY DEF Matched
<1>2. Fine(a.m, CloseCall(a.m, k.id)) BY <1>1, CloseGoes, FineSteps DEF Fine
<1>3. Fine(v, CloseCall(a.m, k.id)) BY <1>1, <1>2, FineSteps
<1>4. Matched(v, [m |-> CloseCall(a.m, k.id), call |-> NoCall]) BY <1>3 DEF Matched, Runs
<1>5. Matched(v, [a EXCEPT !.call = NoCall])
  <2>1. [a EXCEPT !.call = NoCall].m = a.m BY DEF Matched
  <2>2. [a EXCEPT !.call = NoCall].call = NoCall BY DEF Matched
  <2> QED BY <1>1, <2>1, <2>2 DEF Matched, Runs
<1> QED BY <1>4, <1>5 DEF Fitting

\* The line's call, opened if need be, with the line in it (extend).
LEMMA ExtendGood ==
  ASSUME NEW v, NEW sid, NEW line, NEW t, Good(v) PROVE Fine(v, Extend(v, sid, line, t))
<1> DEFINE f == Match(v, sid, line, t)
           a == Into(f, sid, line, t)
<1>1. Matched(v, f) BY FoundMatches, FittingMatches DEF Match
<1> HIDE DEF f
<1>2. Fine(v, f.m) /\ Good(f.m) BY <1>1 DEF Matched, Fine
<1>3. Fine(v, a.m) /\ (a.id = 0 \/ Running(a.m, a.id))
  <2>1. CASE f.call # NoCall BY <1>1, <1>2, <2>1 DEF Matched, Runs, Into
  <2>2. CASE f.call = NoCall /\ Opens(line)
    <3> DEFINE w == OpenCall(f.m, sid, line.slot, t)
    <3>1. a = [m |-> w, id |-> w.next] BY <2>2 DEF Into, Opened
    <3>2. Fine(f.m, w) /\ Running(w, w.next) BY <1>2, OpenGood
    <3> HIDE DEF w
    <3>3. a.m = w /\ a.id = w.next BY <3>1
    <3> QED BY <1>2, <3>2, <3>3, FineSteps
  <2>3. CASE f.call = NoCall /\ ~Opens(line) BY <1>2, <2>3 DEF Into
  <2> QED BY <2>1, <2>2, <2>3
<1> HIDE DEF a
<1>4. a.id # 0 => Fine(a.m, Fold(a.m, sid, a.id, line, t)) BY <1>3, FoldGood DEF Fine
<1>5. Fine(v, FoldInto(a, sid, line, t)) BY <1>3, <1>4, FineSteps DEF FoldInto
<1> QED BY <1>5 DEF Extend, a, f

\* What a line does, whatever it is (ingest).
LEMMA ApplyGood ==
  ASSUME NEW v, NEW sid, NEW line, NEW t, Good(v) PROVE Fine(v, ApplyNow(v, sid, line, t))
<1> DEFINE k == FreshCall(v, sid, line.slot, t)
           a == TalkerHeard(v, sid, line, t)
<1>0. Listed(v) BY DEF Good
<1>1. Runs(v, k) BY <1>0, FreshIsRunning
<1> HIDE DEF k
<1>2. k # NoCall => Fine(v, Terminate(v, k.id))
  BY <1>0, <1>1, TerminateKept, FineSteps DEF Runs, Running, Has
<1>3. k # NoCall => Fine(v, Refine(v, k.id, line, t)) BY <1>0, <1>1, RefineKept, FineSteps DEF Runs
<1>4. Fine(v, a) BY <1>0, TalkerKept, FineSteps
<1> HIDE DEF a
<1>5. Fine(a, Extend(a, sid, line, t)) BY <1>4, ExtendGood DEF Fine
<1>6. Fine(v, Extend(a, sid, line, t)) BY <1>4, <1>5, FineSteps
<1>7. Fine(v, v) BY FineSteps
<1> QED BY <1>2, <1>3, <1>4, <1>6, <1>7 DEF ApplyNow, Apply, a, k

\* A line, as the session's event callback hands it over.
LEMMA IngestGood ==
  ASSUME NEW v, NEW sid, NEW line, NEW t, Good(v) PROVE Fine(v, Ingest(v, sid, line, t))
<1>0. Listed(v) BY DEF Good
<1> DEFINE a == Labelled(v, sid, line)
<1>1. Kept(v, a) BY <1>0, FieldKept, Nothing DEF Labelled
<1>2. Fine(v, a) /\ Good(a) /\ Listed(a) BY <1>1, FineSteps DEF Fine, Good
<1> HIDE DEF a
<1>3. Fine(a, Absorb(a, sid, line).m) BY <1>2, AbsorbKept, FineSteps
<1>4. Fine(a, Decode(a, sid, line, t))
  <2> DEFINE b == Register(a, sid, line, t)
             c == Expire(b, sid, t)
  <2>1. Fine(a, b) BY <1>2, RegisterKept, FineSteps
  <2> HIDE DEF b
  <2>2. Fine(b, c) BY <2>1, ExpireGoes, FineSteps DEF Fine
  <2>3. Fine(a, c) BY <2>1, <2>2, FineSteps
  <2> HIDE DEF c
  <2>4. Fine(c, ApplyNow(c, sid, line, t)) BY <2>3, ApplyGood DEF Fine
  <2>5. Fine(a, ApplyNow(c, sid, line, t)) BY <2>3, <2>4, FineSteps
  <2> QED BY <2>5 DEF Decode, b, c
<1>5. Fine(a, a) BY <1>2, FineSteps
<1>6. Fine(a, IngestAs(a, sid, line, t)) BY <1>3, <1>4, <1>5 DEF IngestAs
<1>7. Fine(v, IngestAs(a, sid, line, t)) BY <1>2, <1>6, FineSteps
<1> QED BY <1>7, FineSteps DEF Ingest, a

----------------------------------------------------------------------------
\* The recorder (audio): a file begins, goes on and is thrown away.

\* x is v when its i-th call has no recording, with a's store.
Silent(v, a, x, i) ==
  Good(x) /\ x.store = a.store /\ Changed(v, x, i) /\ x.calls[i].audio = NoFile

\* A call loses its recording, and says so (its keep flag is what a replay of
\* the lines needs).
LEMMA SilencedGood ==
  ASSUME NEW v, Good(v), NEW i \in DOMAIN v.calls, NEW k, NEW a, DOMAIN k = CallFields,
         k.id = v.calls[i].id, k.audio = NoFile, DOMAIN a.store = StoreFields, IsList(a.store.index),
         a.store.open = v.store.open \ {v.calls[i].audio}, a.store.evicted = v.store.evicted,
         Indexed(v.store) \ {v.calls[i].audio} \subseteq Indexed(a.store),
         DOMAIN a = ModelFields, a.calls = SetCall(v, k).calls, a.next = v.next, a.epoch = v.epoch,
         NEW off \in BOOLEAN, off = FALSE
  PROVE  Silent(v, a, SetKeep(a, k, off), i)
<1>0. Listed(v) BY DEF Good
<1>1. Changed(v, SetCall(v, k), i) /\ SetCall(v, k).calls[i] = k BY <1>0, SetsOne
<1>2. Changed(v, a, i) /\ a.calls[i] = k BY <1>1 DEF Changed
<1>3. Listed(a) /\ i \in DOMAIN a.calls BY <1>0, <1>2, ChangedListed DEF Changed
<1> DEFINE x == SetKeep(a, k, off)
<1>4. Changed(a, x, i) /\ x.calls[i].keep = off /\ Again(k, x.calls[i]) /\ x.store = a.store
  BY <1>2, <1>3, SetsKeep
<1> HIDE DEF x
<1>5. Changed(v, x, i) BY <1>2, <1>4, ChangedTwice
<1>6. x.calls[i].audio = NoFile /\ x.calls[i].keep = FALSE /\ x.store = a.store BY <1>4 DEF Again
<1>7. Good(x) BY <1>5, <1>6, DroppedGood
<1> QED BY <1>5, <1>6, <1>7 DEF x, Silent

\* What holds between operations: the store has told of every eviction.
Sound(v) == Good(v) /\ v.store.evicted = {}

\* The files the store evicted, call by call (reconcile).
ReconcileStep(e, a, id) ==
  LET k == FindCall(a, id)
  IN IF k.audio \notin e.gone THEN a
     ELSE SetKeep(SetCall(a, [k EXCEPT !.audio = NoFile, !.samples = 0]),
                  [k EXCEPT !.audio = NoFile, !.samples = 0], FALSE)
ReconciledSoFar(e, a, n) ==
  /\ Good(a) /\ a.store = e.m.store /\ DOMAIN a.calls = DOMAIN e.m.calls
  /\ \A i \in DOMAIN a.calls : a.calls[i].id = e.m.calls[i].id
  /\ \A i \in 1..n : a.calls[i].audio = NoFile \/ a.calls[i].audio \notin e.gone
Reconciling == INSTANCE Folding WITH Op <- ReconcileStep, Good <- ReconciledSoFar

\* One call.
LEMMA ReconcilesOne ==
  ASSUME NEW v, Good(v), NEW gone, gone = v.store.evicted, NEW n \in Nat, DOMAIN v.calls = 1..n,
         NEW a, NEW k \in 1..n, ReconciledSoFar([m |-> v, gone |-> gone], a, k - 1)
  PROVE  ReconciledSoFar([m |-> v, gone |-> gone],
                         ReconcileStep([m |-> v, gone |-> gone], a, v.calls[k].id), k)
<1> DEFINE e == [m |-> v, gone |-> gone]
           c == a.calls[k]
           l == [c EXCEPT !.audio = NoFile, !.samples = 0]
           x == SetKeep(SetCall(a, l), l, FALSE)
<1>0. /\ Good(a) /\ Listed(a) /\ a.store = v.store /\ DOMAIN a.calls = DOMAIN v.calls
      /\ \A i \in DOMAIN a.calls : a.calls[i].id = v.calls[i].id
      /\ \A i \in 1..k - 1 : a.calls[i].audio = NoFile \/ a.calls[i].audio \notin gone
  BY DEF ReconciledSoFar, Good
<1>1. FindCall(a, v.calls[k].id) = c BY <1>0, Finds
<1>2. 1..k = 1..(k - 1) \cup {k} OBVIOUS
<1>3. CASE c.audio \notin gone
  <2>1. ReconcileStep(e, a, v.calls[k].id) = a BY <1>1, <1>3 DEF ReconcileStep
  <2> QED BY <1>0, <1>2, <1>3, <2>1 DEF ReconciledSoFar
<1>4. CASE c.audio \in gone
  <2>1. ReconcileStep(e, a, v.calls[k].id) = x BY <1>1, <1>4 DEF ReconcileStep
  <2>2. DOMAIN l = CallFields /\ l.id = c.id /\ l.audio = NoFile BY <1>0 DEF Listed, CallFields
  <2> HIDE DEF l
  <2> DEFINE b == SetCall(a, l)
  <2>3. /\ DOMAIN b = ModelFields /\ b.next = a.next /\ b.epoch = a.epoch /\ b.store = a.store
    BY <1>0, <2>2, SetsOne DEF Changed
  <2>4. a.store.open = a.store.open \ {c.audio} BY <1>0, <1>4 DEF Good, Tapes, Apart
  <2>5. DOMAIN a.store = StoreFields /\ IsList(a.store.index) BY <1>0 DEF Listed
  <2>6. Good(x) /\ x.store = a.store /\ Changed(a, x, k) /\ x.calls[k].audio = NoFile
    <3>1. b.calls = SetCall(a, l).calls /\ Good(a) /\ k \in DOMAIN a.calls BY <1>0
    <3>2. Indexed(a.store) \ {c.audio} \subseteq Indexed(b.store) BY <2>3
    <3>3. DOMAIN b.store = StoreFields /\ IsList(b.store.index) /\ b.store.open = a.store.open \ {c.audio}
          /\ b.store.evicted = a.store.evicted
      BY <2>3, <2>4, <2>5
    <3>4. Silent(a, b, x, k)
      <4> SUFFICES ASSUME NEW off \in BOOLEAN, off = FALSE PROVE Silent(a, b, SetKeep(b, l, off), k)
        BY DEF b
      <4> HIDE DEF b
      <4> QED BY <2>2, <2>3, <3>1, <3>2, <3>3, SilencedGood
    <3> HIDE DEF x, b
    <3> QED BY <2>3, <3>4 DEF Silent
  <2> HIDE DEF x
  <2>7. DOMAIN x.calls = DOMAIN v.calls /\ \A i \in DOMAIN x.calls : x.calls[i].id = v.calls[i].id
    BY <1>0, <2>6 DEF Changed
  <2>8. \A i \in 1..k - 1 : x.calls[i] = a.calls[i] BY <1>0, <2>6 DEF Changed
  <2>9. \A i \in 1..k : x.calls[i].audio = NoFile \/ x.calls[i].audio \notin gone
    BY <1>0, <1>2, <2>6, <2>8
  <2> QED BY <1>0, <2>1, <2>6, <2>7, <2>9 DEF ReconciledSoFar
<1> QED BY <1>3, <1>4

\* No call has an evicted file, and none is remembered as evicted.
LEMMA ReconcileGood ==
  ASSUME NEW v, Good(v) PROVE Sound(Reconcile(v))
<1> PICK n \in Nat : DOMAIN v.calls = 1..n BY DEF Good, Listed, IsList
<1> DEFINE gone == v.store.evicted
           e == [m |-> v, gone |-> gone]
           ids == [i \in 1..n |-> v.calls[i].id]
           a == Reconciling!Fold(e, v, ids)
           w == [a EXCEPT !.store.evicted = {}]
<1>1. Reconcile(v) = w
  BY DEF Reconcile, ReconcileStep, Reconciling!Fold, FoldLeft, Reconciling!FoldLeft, MapThenFoldSet,
         Reconciling!MapThenFoldSet, Max, Reconciling!Max
<1>2. ReconciledSoFar(e, v, 0) BY DEF ReconciledSoFar
<1>3. ASSUME NEW k \in 1..n, NEW b, ReconciledSoFar(e, b, k - 1)
      PROVE  ReconciledSoFar(e, ReconcileStep(e, b, ids[k]), k)
  BY <1>3, ReconcilesOne
<1>4. ReconciledSoFar(e, a, n)
  <2> HIDE DEF e
  <2> QED BY <1>2, <1>3, Reconciling!FoldKeeps
<1> HIDE DEF a
<1>5. /\ Good(a) /\ Listed(a) /\ a.store = v.store /\ DOMAIN a.calls = 1..n
      /\ \A i \in 1..n : a.calls[i].audio = NoFile \/ a.calls[i].audio \notin a.store.evicted
  BY <1>4 DEF ReconciledSoFar, Good
<1>6. /\ DOMAIN w = ModelFields /\ w.calls = a.calls /\ w.next = a.next /\ w.epoch = a.epoch
      /\ DOMAIN w.store = StoreFields /\ w.store.index = a.store.index /\ w.store.open = a.store.open
      /\ w.store.evicted = {}
  BY <1>5 DEF Listed, ModelFields, StoreFields
<1> HIDE DEF w
<1>7. Listed(w) BY <1>5, <1>6 DEF Listed
<1>8. Written(w) BY <1>5, <1>6 DEF Good, Tapes, Written
<1>9. Offered(w)
  <2>1. \A i \in 1..n : /\ a.calls[i].keep = (a.calls[i].audio # NoFile)
                        /\ a.calls[i].audio # NoFile => a.calls[i].audio \in Indexed(a.store) \cup a.store.evicted
    BY <1>5 DEF Good, Tapes, Offered
  <2>2. Indexed(w.store) = Indexed(a.store) BY <1>6 DEF Indexed
  <2>3. \A i \in 1..n : /\ a.calls[i].keep = (a.calls[i].audio # NoFile)
                        /\ a.calls[i].audio # NoFile => a.calls[i].audio \in Indexed(w.store) \cup w.store.evicted
    BY <1>5, <2>1, <2>2
  <2> QED BY <1>5, <1>6, <2>3 DEF Offered
<1>10. Owned(w) BY <1>5, <1>6 DEF Good, Tapes, Owned
<1>11. Named(w) BY <1>5, <1>6 DEF Good, Tapes, Named, Has
<1>12. Apart(w) BY <1>5, <1>6 DEF Good, Tapes, Apart
<1>13. Ended(w) BY <1>5, <1>6 DEF Good, Tapes, Ended
<1> QED BY <1>1, <1>6, <1>7, <1>8, <1>9, <1>10, <1>11, <1>12, <1>13 DEF Good, Tapes, Sound

\* A stream that is moved to another channel, started and so on: only what is
\* kept of streams changes.
LEMMA SessFine == ASSUME NEW v, NEW w, NEW f, Fine(v, w) PROVE Fine(v, [w EXCEPT !.sess = f])
<1>1. Kept(w, [w EXCEPT !.sess = f]) BY FieldKept DEF Fine, Good
<1> QED BY <1>1, FineSteps

\* An encrypted call heard without its key.
LEMMA MutedGood ==
  ASSUME Good(m), NEW i \in DOMAIN m.calls PROVE Fine(m, Muted(m.calls[i]))
<1> DEFINE k == m.calls[i]
           l == [k EXCEPT !.noAudio = TRUE, !.audio = NoFile]
           b == SetCall(m, l)
           a == [b EXCEPT !.store = IF k.audio = NoFile THEN @ ELSE Discard(@, k.audio)]
           x == SetKeep(a, l, FALSE)
<1>0. Listed(m) /\ DOMAIN m.store = StoreFields /\ IsList(m.store.index) BY DEF Good, Listed
<1>1. Muted(k) = x BY DEF Muted
<1>2. DOMAIN l = CallFields /\ l.id = k.id /\ l.audio = NoFile BY <1>0 DEF Listed, CallFields
<1> HIDE DEF l
<1>3. Changed(m, b, i) /\ b.calls[i] = l /\ b.store = m.store BY <1>0, <1>2, SetsOne
<1>4. /\ DOMAIN a = ModelFields /\ a.calls = b.calls /\ a.next = m.next /\ a.epoch = m.epoch
      /\ a.store = (IF k.audio = NoFile THEN m.store ELSE Discard(m.store, k.audio))
  BY <1>3 DEF Changed, ModelFields
<1>5. NoFile \notin m.store.open BY DEF Good, Tapes, Apart
<1>6. /\ DOMAIN a.store = StoreFields /\ IsList(a.store.index) /\ a.store.evicted = m.store.evicted
      /\ a.store.open = m.store.open \ {k.audio}
      /\ Indexed(m.store) \ {k.audio} \subseteq Indexed(a.store)
  BY <1>0, <1>4, <1>5, Discards
<1>7. Silent(m, a, x, i)
  <2> SUFFICES ASSUME NEW off \in BOOLEAN, off = FALSE PROVE Silent(m, a, SetKeep(a, l, off), i)
    OBVIOUS
  <2> HIDE DEF a
  <2> QED BY <1>2, <1>4, <1>6, SilencedGood
<1> HIDE DEF x, a
<1> QED BY <1>1, <1>6, <1>7 DEF Silent, Fine

\* The recording goes on (Longer), in its file.
LEMMA LongerGood ==
  ASSUME Good(m), NEW k, Of(m, k), NEW sid, NEW slot, NEW block
  PROVE  Sound(Longer(sid, slot, k, block))
<1> DEFINE l == [k EXCEPT !.audioSlot = IF @ = 0 THEN slot ELSE @, !.samples = @ + block.size]
           b == SetCall(m, l)
           s == AppendTo(m.store, k.audio, block.size, now)
           w == [b EXCEPT !.store = s]
<1>0. Listed(m) /\ DOMAIN m.store = StoreFields /\ IsList(m.store.index) BY DEF Good, Listed
<1>1. Of(m, l)
  <2> PICK i \in DOMAIN m.calls : Alike(m.calls[i], k) BY DEF Of
  <2>1. /\ DOMAIN l = CallFields /\ l.id = k.id /\ l.open = k.open /\ l.audio = k.audio /\ l.keep = k.keep
        /\ l.encrypted = k.encrypted /\ l.keyed = k.keyed /\ l.data = k.data /\ l.voice = k.voice
    BY DEF Alike, CallFields
  <2> HIDE DEF l
  <2>2. Alike(m.calls[i], l) BY <2>1 DEF Alike
  <2> QED BY <2>2 DEF Of
<1>2. Longer(sid, slot, k, block) = Reconcile(w)
  <2>1. b.store = m.store BY <1>0 DEF SetCall, Listed, ModelFields
  <2> QED BY <2>1 DEF Longer
<1> HIDE DEF l
<1>3. Kept(m, b) BY <1>0, <1>1, SetKept
<1> HIDE DEF b
<1>4. Stored(m.store, s) BY <1>0, Appends
<1> HIDE DEF s
<1>5. DOMAIN w = ModelFields /\ w.store = s /\ Kept(m, [w EXCEPT !.store = m.store])
  <2> DEFINE y == [w EXCEPT !.store = m.store]
  <2>1. DOMAIN w = ModelFields /\ w.store = s BY <1>3 DEF Kept, ModelFields
  <2>2. /\ DOMAIN y = ModelFields /\ y.calls = b.calls /\ y.next = b.next /\ y.epoch = b.epoch
        /\ y.store = m.store
    BY <1>3 DEF Kept, ModelFields
  <2> HIDE DEF w, y
  <2>3. Kept(m, y) BY <1>3, <2>2 DEF Kept
  <2> QED BY <2>1, <2>3 DEF y
<1>6. Good(w)
  <2>1. m.store.evicted \cap m.store.open = {} BY DEF Good, Tapes, Apart
  <2> HIDE DEF w
  <2> QED BY <1>4, <1>5, <2>1, StoredGood DEF Stored
<1> HIDE DEF w
<1> QED BY <1>2, <1>6, ReconcileGood

\* A new file in the store (open).
LEMMA OpensFile ==
  ASSUME NEW s, NEW name, NEW t, DOMAIN s = StoreFields, IsList(s.index)
  PROVE  /\ DOMAIN OpenFile(s, name, t) = StoreFields
         /\ OpenFile(s, name, t).open = s.open \cup {name} /\ OpenFile(s, name, t).evicted = s.evicted
         /\ IsList(OpenFile(s, name, t).index)
         /\ Indexed(OpenFile(s, name, t)) = Indexed(s) \cup {name}
<1> DEFINE o == OpenFile(s, name, t)
<1>1. DOMAIN o = StoreFields /\ o.open = s.open \cup {name} /\ o.evicted = s.evicted
  BY DEF OpenFile, StoreFields
<1>2. \E x : o.index = Append(s.index, x) /\ x.name = name
  <2>1. o.index = Append(s.index, [name |-> name, size |-> 0, mtime |-> t]) BY DEF OpenFile, StoreFields
  <2> QED BY <2>1
<1> PICK x : o.index = Append(s.index, x) /\ x.name = name BY <1>2
<1> HIDE DEF o
<1> PICK list : list = s.index OBVIOUS
<1> DEFINE a == Append(list, x)
<1>3. IsList(list) OBVIOUS
<1>4. IsList(a) BY <1>3, AppendedNames
<1>5. {a[i].name : i \in DOMAIN a} = {list[i].name : i \in DOMAIN list} \cup {x.name} BY <1>3, AppendedNames
<1>8. o.index = a OBVIOUS
<1> HIDE DEF a
<1>6. Indexed(o) = {a[i].name : i \in DOMAIN a} BY <1>8 DEF Indexed, ToSet
<1>7. Indexed(s) = {list[i].name : i \in DOMAIN list} BY DEF Indexed, ToSet
<1> QED BY <1>1, <1>4, <1>5, <1>6, <1>7, <1>8 DEF o

\* A file begins (StartFile): under the call's own name, with what was held.
LEMMA BeginGood ==
  ASSUME Sound(m), NEW i \in DOMAIN m.calls, m.calls[i].open, m.calls[i].audio = NoFile,
         NEW k, DOMAIN k = CallFields, k.id = m.calls[i].id, k.open, k.audio = <<k.id, m.epoch>>,
         NEW sid, NEW slot, NEW n, NEW size
  PROVE  LET s == AppendTo(AppendTo(OpenFile(m.store, k.audio, now), k.audio, n, now), k.audio, size, now)
         IN Sound(BeginFile(sid, slot, k, s))
<1> DEFINE o == OpenFile(m.store, k.audio, now)
           p == AppendTo(o, k.audio, n, now)
           s == AppendTo(p, k.audio, size, now)
           a == SetCall(m, k)
           b == SetKeep(a, k, TRUE)
           x == [b EXCEPT !.store = s]
           w == [x EXCEPT !.sess[sid].preroll = Without(@, {0, slot})]
<1>0. Good(m) /\ Listed(m) /\ DOMAIN m.store = StoreFields /\ IsList(m.store.index) /\ m.store.evicted = {}
  BY DEF Good, Listed, Sound
<1>1. /\ DOMAIN o = StoreFields /\ o.open = m.store.open \cup {k.audio} /\ o.evicted = {}
      /\ IsList(o.index) /\ Indexed(o) = Indexed(m.store) \cup {k.audio}
  BY <1>0, OpensFile
<1> HIDE DEF o
<1>2. Stored(o, p) BY <1>1, Appends
<1> HIDE DEF p
<1>3. Stored(p, s) BY <1>2, Appends DEF Stored
<1> HIDE DEF s
<1>4. k.audio # NoFile /\ NoFile \notin m.store.open
  <2>1. m.calls[i].id \in 1..m.next /\ m.next \in Nat BY <1>0 DEF Listed
  <2>2. k.id # 0 BY <2>1
  <2>3. NoFile \notin m.store.open BY <1>0 DEF Good, Tapes, Apart
  <2> QED BY <2>2, <2>3 DEF NoFile
<1>5. o.evicted \cap o.open = {} BY <1>1
<1>6. /\ DOMAIN s = StoreFields /\ IsList(s.index) /\ s.open = m.store.open \cup {k.audio}
      /\ Indexed(m.store) \cup {k.audio} \subseteq Indexed(s) \cup s.evicted
      /\ s.evicted \cap s.open = {}
  BY <1>1, <1>2, <1>3, <1>5 DEF Stored
<1>7. Changed(m, a, i) /\ a.calls[i] = k BY <1>0, SetsOne
<1> HIDE DEF a
<1>8. Changed(m, b, i) /\ b.calls[i].keep = TRUE /\ b.calls[i].open /\ b.calls[i].audio = k.audio
  <2> SUFFICES ASSUME NEW on \in BOOLEAN, on = TRUE
               PROVE  LET y == SetKeep(a, k, on)
                      IN  Changed(m, y, i) /\ y.calls[i].keep = on /\ y.calls[i].open /\ y.calls[i].audio = k.audio
    OBVIOUS
  <2> DEFINE y == SetKeep(a, k, on)
  <2>1. Listed(a) /\ i \in DOMAIN a.calls BY <1>0, <1>7, ChangedListed DEF Changed
  <2>2. Changed(a, y, i) /\ y.calls[i].keep = on /\ Again(k, y.calls[i]) BY <1>7, <2>1, SetsKeep
  <2> HIDE DEF y
  <2>3. Changed(m, y, i) BY <1>7, <2>2, ChangedTwice
  <2>4. y.calls[i].open /\ y.calls[i].audio = k.audio BY <2>2 DEF Again
  <2> QED BY <2>2, <2>3, <2>4 DEF y
<1> HIDE DEF b
<1>9. /\ DOMAIN x = ModelFields /\ x.calls = b.calls /\ x.next = b.next /\ x.epoch = b.epoch /\ x.store = s
  BY <1>8 DEF Changed, ModelFields
<1> HIDE DEF x
<1>10. /\ DOMAIN w = ModelFields /\ w.calls = b.calls /\ w.next = b.next /\ w.epoch = b.epoch /\ w.store = s
  BY <1>9 DEF ModelFields
<1>11. BeginFile(sid, slot, k, s) = Reconcile(w)
  BY <1>9 DEF BeginFile, x, b, a
<1> HIDE DEF w
<1>12. Changed(m, w, i) /\ w.calls[i] = b.calls[i] BY <1>6, <1>8, <1>10 DEF Changed
<1>13. Good(w)
  <2>1. /\ w.calls[i].open /\ w.calls[i].keep = TRUE /\ w.calls[i].audio = <<m.calls[i].id, m.epoch>>
        /\ w.store.open = m.store.open \cup {w.calls[i].audio}
        /\ Indexed(m.store) \cup m.store.evicted \cup {w.calls[i].audio} \subseteq Indexed(w.store) \cup w.store.evicted
        /\ w.store.evicted \cap w.store.open = {}
    BY <1>0, <1>6, <1>8, <1>10, <1>12
  <2> QED BY <1>0, <1>12, <2>1, BegunGood
<1>14. Sound(BeginFile(sid, slot, k, s)) BY <1>11, <1>13, ReconcileGood
<1> QED BY <1>14 DEF o, p, s

\* A block for a call that is recorded, or not yet (Record).
LEMMA RecordGood ==
  ASSUME Sound(m), NEW i \in DOMAIN m.calls, m.calls[i].open,
         NEW sid, NEW slot, NEW block
  PROVE  Sound(Record(sid, slot, m.calls[i], block))
<1> DEFINE k == m.calls[i]
           l == [k EXCEPT !.keyed = @ \/ block.keyed]
<1>0. Good(m) /\ Listed(m) BY DEF Good, Sound
<1>1. Sound(m) OBVIOUS
<1>2. Sound(Muted(k)) BY <1>0, MutedGood DEF Fine, Sound
<1>3. Alike(k, l) /\ l.open
  <2>1. DOMAIN l = CallFields /\ l.id = k.id /\ l.open = k.open /\ l.audio = k.audio /\ l.keep = k.keep
    BY <1>0 DEF Listed, CallFields
  <2> HIDE DEF l
  <2> QED BY <2>1 DEF Alike
<1>4. Of(m, l) BY <1>3 DEF Of
<1> HIDE DEF l
<1>5. Sound(SetCall(m, l))
  <2>1. Fine(m, SetCall(m, l)) BY <1>0, <1>4, SetKept, FineSteps
  <2> QED BY <2>1 DEF Fine, Sound
<1>6. Sound(GoOn(sid, slot, l, block)) BY <1>0, <1>4, <1>5, LongerGood DEF GoOn
<1>7. l.audio = NoFile => Sound(StartFile(sid, slot, l, block))
  <2> SUFFICES ASSUME l.audio = NoFile PROVE Sound(StartFile(sid, slot, l, block)) OBVIOUS
  <2> DEFINE held == m.sess[sid].preroll
             at == {s \in {0, slot} : s \in DOMAIN held /\ held[s].n > 0 /\ now - held[s].last <= PrerollMs}
             n == FoldLeft(LAMBDA a, s : a + held[s].n, 0, SetToSeq(at))
             name == <<l.id, m.epoch>>
             k1 == [l EXCEPT !.audio = name, !.audioSid = sid, !.audioSlot = slot, !.samples = @ + n + block.size]
             store == AppendTo(AppendTo(OpenFile(m.store, name, now), name, n, now), name, block.size, now)
  <2>1. StartFile(sid, slot, l, block) \in {SetCall(m, l), BeginFile(sid, slot, k1, store)} BY DEF StartFile
  <2>2. DOMAIN k1 = CallFields /\ k1.id = l.id /\ k1.open = l.open /\ k1.audio = name
    BY <1>3 DEF Alike, CallFields
  <2> HIDE DEF k1, n
  <2>3. Sound(BeginFile(sid, slot, k1, store))
    <3>1. k1.open /\ k1.id = k.id /\ k1.audio = <<k1.id, m.epoch>> BY <1>3, <2>2 DEF Alike
    <3>2. m.calls[i].audio = NoFile BY <1>3 DEF Alike
    <3>3. store = AppendTo(AppendTo(OpenFile(m.store, k1.audio, now), k1.audio, n, now), k1.audio, block.size, now)
      BY <2>2
    <3> HIDE DEF store, name
    <3> QED BY <2>2, <3>1, <3>2, <3>3, BeginGood
  <2> QED BY <1>5, <2>1, <2>3
<1>8. Sound(Recorded(sid, slot, l, block)) BY <1>6, <1>7 DEF Recorded
<1>9. Sound(Record(sid, slot, k, block))
  <2>1. Record(sid, slot, k, block) \in {m, Muted(k), Recorded(sid, slot, l, block)} BY DEF Record, l
  <2> QED BY <1>1, <1>2, <1>8, <2>1
<1> QED BY <1>9

\* The call a block goes to is one of the list, running.
Chosen(k) == k = NoCall \/ \E i \in DOMAIN m.calls : k = m.calls[i] /\ m.calls[i].open
LatestOne(e, a, k) == IF k # NoCall /\ (a = NoCall \/ k.last > a.last) THEN k ELSE a
LatestSoFar(e, a, n) == Chosen(a)
Picking == INSTANCE Folding WITH Op <- LatestOne, Good <- LatestSoFar

\* The latest of some that are.
LEMMA LatestChosen ==
  ASSUME NEW a, NEW b, NEW c, Chosen(a), Chosen(b), Chosen(c) PROVE Chosen(Latest(<<a, b, c>>))
<1> DEFINE calls == <<a, b, c>>
<1>1. Latest(calls) = Picking!Fold(0, NoCall, calls)
  BY DEF Latest, LatestOne, Picking!Fold, FoldLeft, Picking!FoldLeft, MapThenFoldSet,
         Picking!MapThenFoldSet, Max, Picking!Max
<1>2. LatestSoFar(0, NoCall, 0) BY DEF LatestSoFar, Chosen
<1>3. DOMAIN calls = 1..3 /\ \A k \in 1..3 : Chosen(calls[k]) OBVIOUS
<1> HIDE DEF calls
<1>4. ASSUME NEW k \in 1..3, NEW x, LatestSoFar(0, x, k - 1)
      PROVE  LatestSoFar(0, LatestOne(0, x, calls[k]), k)
  BY <1>3, <1>4 DEF LatestSoFar, LatestOne
<1>5. LatestSoFar(0, Picking!Fold(0, NoCall, calls), 3) BY <1>2, <1>3, <1>4, Picking!FoldKeeps
<1> QED BY <1>1, <1>5 DEF LatestSoFar, calls

\* It is that of the block's slot, or another slot's voice.
LEMMA AudioCallChosen ==
  ASSUME Good(m), NEW sid, NEW slot, NEW block
  PROVE  LET a == AudioCall(sid, CallOfSlot(sid, slot), block) IN a = NoVoice \/ Chosen(a.call)
<1>0. Listed(m) BY DEF Good
<1>1. \A s : Chosen(FreshCall(m, sid, s, now))
  <2> TAKE s
  <2> DEFINE id == m.sess[sid].last[s]
  <2>1. CASE Current(FindCall(m, id), now)
    <3>1. \E i \in DOMAIN m.calls : FindCall(m, id) = m.calls[i] /\ m.calls[i].open BY <1>0, <2>1, FreshRuns
    <3> QED BY <2>1, <3>1 DEF Chosen, FreshCall
  <2>2. CASE ~Current(FindCall(m, id), now) BY <2>2 DEF Chosen, FreshCall
  <2> QED BY <2>1, <2>2
<1>2. \A s : Chosen(VoiceCall(sid, s)) BY <1>1 DEF VoiceCall, Chosen
<1> DEFINE own == CallOfSlot(sid, slot)
           other == OtherVoice(sid)
<1>3. Chosen(own.call)
  <2>1. Chosen(Latest(<<FreshCall(m, sid, 0, now), FreshCall(m, sid, 1, now), FreshCall(m, sid, 2, now)>>))
    BY <1>1, LatestChosen
  <2> QED BY <1>1, <2>1 DEF CallOfSlot
<1>4. Chosen(other.call)
  <2>1. Chosen(Latest(<<VoiceCall(sid, 1), VoiceCall(sid, 2), VoiceCall(sid, 0)>>)) BY <1>2, LatestChosen
  <2> QED BY <2>1 DEF OtherVoice
<1> HIDE DEF own, other
<1>5. AudioCall(sid, own, block) \in {own, NoVoice, other} BY DEF AudioCall, FallBack, other
<1> QED BY <1>3, <1>4, <1>5 DEF own

\* A block of decoded voice (audio).
LEMMA AudioGood ==
  ASSUME Sound(m), NEW sid, NEW slot, NEW block
  PROVE  Sound(Audio(sid, slot, block))
<1> DEFINE a == AudioCall(sid, CallOfSlot(sid, slot), block)
<1>1. a = NoVoice \/ Chosen(a.call) BY AudioCallChosen DEF Sound
<1> HIDE DEF a
<1>2. Sound(Hold(sid, slot, block))
  <2>1. Hold(sid, slot, block) = m \/ \E f : Hold(sid, slot, block) = [m EXCEPT !.sess = f] BY DEF Hold
  <2>2. Fine(m, m) BY FineSteps DEF Sound
  <2>3. \A f : Fine(m, [m EXCEPT !.sess = f]) BY <2>2, SessFine
  <2> QED BY <2>1, <2>2, <2>3 DEF Fine, Sound
<1>3. Sound(AudioTo(sid, slot, a, block))
  <2>1. CASE a.call = NoCall BY <1>2, <2>1 DEF AudioTo
  <2>2. CASE a.call # NoCall /\ a = NoVoice
    <3>1. AudioTo(sid, slot, a, block) = m BY <2>2 DEF AudioTo
    <3> QED BY <3>1
  <2>3. CASE a.call # NoCall /\ a # NoVoice
    <3> PICK i \in DOMAIN m.calls : a.call = m.calls[i] /\ m.calls[i].open BY <1>1, <2>3 DEF Chosen
    <3>1. AudioTo(sid, slot, a, block) = Record(sid, a.slot, m.calls[i], block) BY <2>3 DEF AudioTo
    <3> QED BY <3>1, RecordGood
  <2> QED BY <2>1, <2>2, <2>3
<1> QED BY <1>3 DEF Audio, a

----------------------------------------------------------------------------
\* The other operations.

\* A clear closes every file that is written.
FinishOne(e, s, k) == Finish(s, k.audio)
FinishedSoFar(e, s, n) ==
  /\ DOMAIN s = StoreFields /\ s.index = e.store.index /\ s.evicted = e.store.evicted
  /\ s.open \subseteq e.store.open /\ \A i \in 1..n : e.calls[i].audio \notin s.open
Finishing == INSTANCE Folding WITH Op <- FinishOne, Good <- FinishedSoFar

\* It leaves no call, and no file open (clear_locked).
LEMMA ForgetGood == ASSUME Sound(m) PROVE Sound(Forget(m)) /\ Forget(m).calls = <<>>
<1>0. Good(m) /\ Listed(m) /\ DOMAIN m.store = StoreFields /\ m.store.evicted = {} BY DEF Good, Listed, Sound
<1> PICK n \in Nat : DOMAIN m.calls = 1..n BY <1>0 DEF Listed, IsList
<1> DEFINE s == Finishing!Fold(m, m.store, m.calls)
           f == Forgotten(m)
           w == [f EXCEPT !.store = s]
<1>1. DOMAIN f = ModelFields /\ f.calls = <<>> /\ f.next = 0 /\ f.store = m.store
  BY <1>0 DEF Forgotten, Listed, ModelFields
<1>2. FoldLeft(LAMBDA a, k : Finish(a, k.audio), m.store, m.calls) = s
  BY DEF FinishOne, Finishing!Fold, FoldLeft, Finishing!FoldLeft, MapThenFoldSet,
         Finishing!MapThenFoldSet, Max, Finishing!Max
<1>3. Forget(m) = w BY <1>1, <1>2 DEF Forget
<1>4. FinishedSoFar(m, m.store, 0) BY <1>0 DEF FinishedSoFar
<1>5. ASSUME NEW k \in 1..n, NEW a, FinishedSoFar(m, a, k - 1)
      PROVE  FinishedSoFar(m, FinishOne(m, a, m.calls[k]), k)
  <2>1. 1..k = 1..(k - 1) \cup {k} OBVIOUS
  <2>2. /\ DOMAIN Finish(a, m.calls[k].audio) = StoreFields
        /\ Finish(a, m.calls[k].audio).index = a.index /\ Finish(a, m.calls[k].audio).evicted = a.evicted
        /\ Finish(a, m.calls[k].audio).open = a.open \ {m.calls[k].audio}
    BY <1>5 DEF FinishedSoFar, Finish, StoreFields
  <2> QED BY <1>5, <2>1, <2>2 DEF FinishedSoFar, FinishOne
<1>6. FinishedSoFar(m, s, n) BY <1>4, <1>5, Finishing!FoldKeeps
<1> HIDE DEF s, f
<1>7. s.open = {}
  <2> SUFFICES ASSUME NEW x \in s.open PROVE FALSE OBVIOUS
  <2>1. x \in m.store.open BY <1>6 DEF FinishedSoFar
  <2>2. PICK i \in DOMAIN m.calls : m.calls[i].audio = x BY <1>0, <2>1 DEF Good, Tapes, Written
  <2> QED BY <1>6, <2>2 DEF FinishedSoFar
<1>8. /\ DOMAIN w = ModelFields /\ w.calls = <<>> /\ w.next = 0 /\ w.store = s
      /\ DOMAIN s = StoreFields /\ s.index = m.store.index /\ s.evicted = {}
  BY <1>0, <1>1, <1>6 DEF ModelFields, FinishedSoFar
<1> HIDE DEF w
<1>9. DOMAIN w.calls = {} /\ IsList(w.calls) BY <1>8, EmptyList
<1>10. Listed(w) BY <1>0, <1>8, <1>9 DEF Listed
<1>11. Tapes(w) BY <1>7, <1>8, <1>9 DEF Tapes, Written, Offered, Owned, Named, Apart, Ended
<1> QED BY <1>3, <1>8, <1>10, <1>11 DEF Sound, Good

\* The files may be deleted as well (remove_all).
LEMMA ClearGood ==
  ASSUME Sound(m) PROVE Sound([Forget(m) EXCEPT !.store = RemoveAll(@)])
<1> DEFINE v == Forget(m)
           gone == Indexed(v.store) \ v.store.open
           left == Left(v.store.index, gone)
           w == [v EXCEPT !.store = RemoveAll(@)]
<1>1. Sound(v) /\ v.calls = <<>> BY ForgetGood
<1> HIDE DEF v
<1>2. Listed(v) /\ Tapes(v) BY <1>1 DEF Sound, Good
<1>3. IsList(left)
  <2> HIDE DEF gone
  <2> QED BY <1>2, LeftAreTheOthers DEF Listed
<1> HIDE DEF left
<1>4. /\ DOMAIN w = ModelFields /\ w.calls = v.calls /\ w.next = v.next
      /\ w.store = RemoveAll(v.store)
  BY <1>2 DEF Listed, ModelFields
<1>5. /\ DOMAIN w.store = StoreFields /\ w.store.index = left /\ w.store.open = v.store.open
      /\ w.store.evicted = v.store.evicted
  BY <1>2, <1>4 DEF Listed, StoreFields, RemoveAll, left
<1> HIDE DEF w
<1>6. DOMAIN v.calls = {} BY <1>1, EmptyList
<1>7. Listed(w) BY <1>2, <1>3, <1>4, <1>5 DEF Listed
<1>8. Written(w) BY <1>2, <1>4, <1>5 DEF Tapes, Written
<1>9. Apart(w) BY <1>2, <1>5 DEF Tapes, Apart
<1>10. Tapes(w) BY <1>4, <1>6, <1>8, <1>9 DEF Tapes, Offered, Owned, Named, Ended
<1>11. Sound(w) BY <1>1, <1>5, <1>7, <1>10 DEF Sound, Good
<1> QED BY <1>11 DEF w, v

\* Call audio is switched on, or on with other limits.
LEMMA StartGood ==
  ASSUME Sound(m) PROVE Sound(Reconcile([m EXCEPT !.store = Enable(@, now)]))
<1> DEFINE s == Enable(m.store, now)
           w == [m EXCEPT !.store = s]
<1>0. Good(m) /\ Listed(m) BY DEF Good, Sound
<1>1. Stored(m.store, s) BY <1>0, Enables DEF Listed
<1> HIDE DEF s
<1>2. DOMAIN w = ModelFields /\ w.store = s /\ Kept(m, [w EXCEPT !.store = m.store])
  <2> DEFINE y == [w EXCEPT !.store = m.store]
  <2>1. DOMAIN w = ModelFields /\ w.store = s BY <1>0 DEF Listed, ModelFields
  <2>2. /\ DOMAIN y = ModelFields /\ y.calls = m.calls /\ y.next = m.next /\ y.epoch = m.epoch
        /\ y.store = m.store
    BY <1>0 DEF Listed, ModelFields
  <2> HIDE DEF w, y
  <2>3. Kept(m, y) BY <1>0, <2>2, Untouched
  <2> QED BY <2>1, <2>3 DEF y
<1>3. m.store.evicted \cap m.store.open = {} BY <1>0 DEF Good, Tapes, Apart
<1>4. Good(w)
  <2> HIDE DEF w
  <2> QED BY <1>0, <1>1, <1>2, <1>3, StoredGood DEF Stored
<1> HIDE DEF w
<1>5. Sound(Reconcile(w)) BY <1>4, ReconcileGood
<1> QED BY <1>5 DEF w, s

\* ... and off: no file is written any more.
LEMMA StopGood ==
  ASSUME Sound(m), NEW f PROVE Sound([m EXCEPT !.store = Disable(@), !.sess = f])
<1> DEFINE w == [m EXCEPT !.store = Disable(@), !.sess = f]
<1>0. Listed(m) /\ Tapes(m) BY DEF Good, Sound
<1>1. /\ DOMAIN w = ModelFields /\ w.calls = m.calls /\ w.next = m.next /\ w.epoch = m.epoch
      /\ DOMAIN w.store = StoreFields /\ w.store.index = m.store.index /\ w.store.open = {}
      /\ w.store.evicted = {}
  BY <1>0 DEF Listed, ModelFields, StoreFields, Disable, Sound
<1> HIDE DEF w
<1>2. Listed(w) BY <1>0, <1>1 DEF Listed
<1>3. Offered(w)
  <2>1. Indexed(w.store) = Indexed(m.store) BY <1>1 DEF Indexed
  <2> QED BY <1>0, <1>1, <2>1 DEF Tapes, Offered, Sound
<1>4. Written(w) /\ Apart(w) BY <1>1 DEF Written, Apart
<1>5. Owned(w) BY <1>0, <1>1 DEF Tapes, Owned
<1>6. Named(w) BY <1>0, <1>1 DEF Tapes, Named, Has
<1>7. Ended(w) BY <1>0, <1>1 DEF Tapes, Ended
<1> QED BY <1>1, <1>2, <1>3, <1>4, <1>5, <1>6, <1>7 DEF Tapes, Good, Sound, w

\* A stream that ends, starts, moves or is removed.
LEMMA StreamGood ==
  ASSUME Sound(m), NEW sid, NEW retune
  PROVE  /\ Fine(m, Prune(CloseSessionCalls(m, sid), sid, retune))
         /\ \A f : Fine(m, Prune([CloseSessionCalls(m, sid) EXCEPT !.sess = f], sid, retune))
<1> DEFINE a == CloseSessionCalls(m, sid)
<1>1. Fine(m, a) BY CloseSessionGoes, FineSteps DEF Sound
<1> HIDE DEF a
<1>2. \A w : Fine(m, w) => Fine(m, Prune(w, sid, retune))
  <2> SUFFICES ASSUME NEW w, Fine(m, w) PROVE Fine(m, Prune(w, sid, retune)) OBVIOUS
  <2>1. Kept(w, Prune(w, sid, retune)) BY PruneKept DEF Fine, Good
  <2> QED BY <2>1, FineSteps
<1>3. \A f : Fine(m, [a EXCEPT !.sess = f]) BY <1>1, SessFine
<1> QED BY <1>1, <1>2, <1>3 DEF a

----------------------------------------------------------------------------
\* The theorems.

\* Fine steps from a sound value lead to one.
LEMMA FineIsSound == ASSUME NEW v, NEW w, Sound(v), Fine(v, w) PROVE Sound(w)
BY DEF Sound, Fine

\* The recordings are sound after every operation.
THEOREM RecordingsSound == Spec => []Sound(m)
<1>1. Init => Sound(m)
  <2> SUFFICES ASSUME Init PROVE Sound(m) OBVIOUS
  <2>1. /\ DOMAIN m = ModelFields /\ m.calls = <<>> /\ m.next = 0 /\ m.store = EmptyStore
    BY DEF Init, EmptyModel, ModelFields
  <2>2. /\ DOMAIN m.store = StoreFields /\ m.store.index = <<>> /\ m.store.open = {} /\ m.store.evicted = {}
    BY <2>1 DEF EmptyStore, StoreFields
  <2>3. IsList(m.calls) /\ DOMAIN m.calls = {} /\ IsList(m.store.index) BY <2>1, <2>2, EmptyList
  <2>4. Listed(m) BY <2>1, <2>2, <2>3 DEF Listed
  <2>5. Tapes(m) BY <2>2, <2>3 DEF Tapes, Written, Offered, Owned, Named, Apart, Ended
  <2> QED BY <2>2, <2>4, <2>5 DEF Sound, Good
<1>2. Sound(m) /\ [Next]_vars => Sound(m)'
  <2> SUFFICES ASSUME Sound(m), [Next]_vars PROVE Sound(m') OBVIOUS
  <2>1. CASE Tick BY <2>1 DEF Tick
  <2>2. CASE StartAudio BY <2>2, StartGood DEF StartAudio, Becomes
  <2>3. CASE StopAudio BY <2>3, StopGood DEF StopAudio, Becomes
  <2>4. CASE \E withAudio \in BOOLEAN : Clear(withAudio)
    <3>1. m' = Forget(m) \/ m' = [Forget(m) EXCEPT !.store = RemoveAll(@)] BY <2>4 DEF Clear, Becomes
    <3> QED BY <3>1, ForgetGood, ClearGood
  <2>5. ASSUME NEW sid \in Sessions, BeginStream(sid) PROVE Sound(m')
    <3>1. PICK f : m' = [Prune(CloseSessionCalls(m, sid), sid, FALSE) EXCEPT !.sess = f]
      BY <2>5 DEF BeginStream, Becomes, Started
    <3> QED BY <3>1, StreamGood, SessFine, FineIsSound
  <2>6. ASSUME NEW sid \in Sessions, Retune(sid) PROVE Sound(m')
    <3>1. PICK f : m' = [Prune(CloseSessionCalls(m, sid), sid, TRUE) EXCEPT !.sess = f]
      BY <2>6 DEF Retune, Becomes, Moved
    <3> QED BY <3>1, StreamGood, SessFine, FineIsSound
  <2>7. ASSUME NEW sid \in Sessions, EndStream(sid) PROVE Sound(m')
    <3>1. PICK f : m' = Prune([CloseSessionCalls(m, sid) EXCEPT !.sess = f], sid, FALSE)
      BY <2>7 DEF EndStream, Becomes
    <3> QED BY <3>1, StreamGood, FineIsSound
  <2>8. ASSUME NEW sid \in Sessions, RemoveSession(sid) PROVE Sound(m')
    <3>1. PICK f : m' = [Prune(CloseSessionCalls(m, sid), sid, FALSE) EXCEPT !.sess = f]
      BY <2>8 DEF RemoveSession, Becomes
    <3> QED BY <3>1, StreamGood, SessFine, FineIsSound
  <2>9. ASSUME NEW sid \in Sessions, IngestLine(sid) PROVE Sound(m')
    <3>1. PICK line : m' = Ingest(m, sid, line, now) BY <2>9 DEF IngestLine, Hears
    <3> QED BY <3>1, IngestGood, FineIsSound DEF Sound
  <2>10. ASSUME NEW sid \in Sessions, HearAudio(sid) PROVE Sound(m')
    <3>1. PICK block : m' = Audio(sid, block.slot, block) BY <2>10 DEF HearAudio, Hears
    <3> QED BY <3>1, AudioGood
  <2>11. CASE UNCHANGED vars BY <2>11 DEF vars
  <2> QED BY <2>1, <2>2, <2>3, <2>4, <2>5, <2>6, <2>7, <2>8, <2>9, <2>10, <2>11 DEF Next
<1> QED BY <1>1, <1>2, PTL DEF Spec

\* Every file being written is a running call's, and every call that offers a
\* recording has one on disk, of its own (assoc_model.hpp, assoc_audio.hpp).
THEOREM RecordingsStayCalls == Spec => []RecordingsAreCalls
<1>1. Sound(m) => RecordingsAreCalls
  <2> SUFFICES ASSUME Sound(m) PROVE RecordingsAreCalls OBVIOUS
  <2>1. Written(m) /\ Offered(m) /\ Owned(m) /\ m.store.evicted = {} BY DEF Sound, Good, Tapes
  <2>2. m.store.open \subseteq {CallAt(i).audio : i \in {j \in DOMAIN m.calls : CallAt(j).open}}
    BY <2>1 DEF Written, CallAt
  <2>3. \A i \in DOMAIN m.calls :
          /\ CallAt(i).keep = (CallAt(i).audio # NoFile)
          /\ CallAt(i).audio # NoFile => CallAt(i).audio \in Indexed(m.store)
    BY <2>1 DEF Offered, CallAt
  <2>4. \A i \in DOMAIN m.calls : CallAt(i).audio # NoFile =>
          \A j \in DOMAIN m.calls : CallAt(j).audio = CallAt(i).audio => i = j
    BY <2>1 DEF Owned, CallAt
  <2> QED BY <2>2, <2>3, <2>4 DEF RecordingsAreCalls
<1> QED BY <1>1, RecordingsSound, PTL

\* A recording that outlives its call is nobody's encrypted speech, and no data
\* call's (close_call).
THEOREM EndedRecordingsStayClear == Spec => []EndedRecordingsAreClear
<1>1. Sound(m) => EndedRecordingsAreClear
  BY DEF Sound, Good, Tapes, Ended, Clean, EndedRecordingsAreClear, CallAt
<1> QED BY <1>1, RecordingsSound, PTL

----------------------------------------------------------------------------
\* The networks: which there are and what is known of them.

Charted(v) ==
  /\ DOMAIN v = ModelFields
  /\ \A n \in DOMAIN v.nets : {"ids", "conf"} \subseteq DOMAIN v.nets[n]
\* Nothing of a network changed.
Calm(v, w) == DOMAIN v = ModelFields => DOMAIN w = ModelFields /\ w.nets = v.nets
\* The same networks, known by the same ids.
SameNets(v, w) ==
  Charted(v) =>
    /\ Charted(w) /\ DOMAIN w.nets = DOMAIN v.nets
    /\ \A n \in DOMAIN v.nets : w.nets[n].ids = v.nets[n].ids /\ w.nets[n].conf = v.nets[n].conf
Charts(v, w) == Charted(v) => Charted(w)

\* One after another, and what is the weaker.
LEMMA CalmSteps ==
  ASSUME NEW u, NEW v, NEW w
  PROVE  /\ Calm(v, v) /\ SameNets(v, v)
         /\ Calm(u, v) /\ Calm(v, w) => Calm(u, w)
         /\ SameNets(u, v) /\ SameNets(v, w) => SameNets(u, w)
         /\ Charts(u, v) /\ Charts(v, w) => Charts(u, w)
         /\ Calm(v, w) => SameNets(v, w)
         /\ SameNets(v, w) => Charts(v, w)
BY DEF Calm, SameNets, Charted, Charts

\* What is kept of anything else.
LEMMA ElseCalm ==
  ASSUME NEW v, NEW f
  PROVE  /\ Calm(v, [v EXCEPT !.sess = f]) /\ Calm(v, [v EXCEPT !.exists = f])
         /\ Calm(v, [v EXCEPT !.tgs = f]) /\ Calm(v, [v EXCEPT !.radios = f])
         /\ Calm(v, [v EXCEPT !.calls = f]) /\ Calm(v, [v EXCEPT !.next = f])
         /\ Calm(v, [v EXCEPT !.quality = f]) /\ Calm(v, [v EXCEPT !.store = f])
         /\ Calm(v, [v EXCEPT !.keeps = f])
BY DEF Calm, ModelFields

\* Calls that change, go, or keep their audio.
LEMMA CallsCalm ==
  ASSUME NEW v, NEW k, NEW id, NEW on
  PROVE  Calm(v, SetCall(v, k)) /\ Calm(v, DropCall(v, id)) /\ Calm(v, SetKeep(v, k, on))
<1>1. Calm(v, SetCall(v, k)) BY ElseCalm DEF SetCall
<1>2. Calm(v, DropCall(v, id)) BY ElseCalm DEF DropCall
<1>3. Calm(v, SetKeep(v, k, on))
  <2> DEFINE a == SetCall(v, [k EXCEPT !.keep = on])
  <2>1. Calm(v, a) BY ElseCalm DEF SetCall
  <2> HIDE DEF a
  <2>2. Calm(a, [a EXCEPT !.keeps = Append(@, <<k.id, on>>)]) BY ElseCalm
  <2>3. Calm(v, [a EXCEPT !.keeps = Append(@, <<k.id, on>>)]) BY <2>1, <2>2, CalmSteps
  <2> QED BY <2>3, CalmSteps DEF SetKeep, a
<1> QED BY <1>1, <1>2, <1>3

\* Radios and talkgroups.
LEMMA RadiosCalm ==
  ASSUME NEW v, NEW r, NEW net, NEW t, NEW k
  PROVE  /\ Calm(v, EnsureRadio(v, r, t)) /\ Calm(v, EnsureTalkgroup(v, r, t))
         /\ Calm(v, TouchRadio(v, r, net, t)) /\ Calm(v, CalledBy(v, k, t))
<1>1. \A x : Calm(v, EnsureRadio(v, x, t)) BY ElseCalm DEF EnsureRadio
<1>2. Calm(v, EnsureTalkgroup(v, r, t)) BY ElseCalm DEF EnsureTalkgroup
<1>3. \A u : \E f : TouchRadio(v, r, net, t) = [EnsureRadio(v, r, t) EXCEPT !.radios = f]
  BY DEF TouchRadio
<1>4. Calm(v, TouchRadio(v, r, net, t)) BY <1>1, <1>3, ElseCalm, CalmSteps
<1>5. \E f : CalledBy(v, k, t) = [EnsureRadio(v, k.tgt, t) EXCEPT !.radios = f]
  BY DEF CalledBy
<1>6. Calm(v, CalledBy(v, k, t)) BY <1>1, <1>5, ElseCalm, CalmSteps
<1> QED BY <1>1, <1>2, <1>4, <1>6

\* A call's talker and its target.
LEMMA TargetCalm ==
  ASSUME NEW v, NEW k, NEW t PROVE Calm(v, CountTalker(v, k, t)) /\ Calm(v, CountTarget(v, k, t))
<1>1. Calm(v, CountTalker(v, k, t))
  <2> DEFINE a == SetCall(v, k)
             b == TouchRadio(a, k.src, k.net, t)
  <2>1. Calm(v, a) BY CallsCalm
  <2> HIDE DEF a
  <2>2. Calm(a, b) BY RadiosCalm
  <2> HIDE DEF b
  <2>3. Calm(b, [b EXCEPT !.radios[k.src].calls = @ + 1]) BY DEF Calm, ModelFields
  <2>4. Calm(v, [b EXCEPT !.radios[k.src].calls = @ + 1]) BY <2>1, <2>2, <2>3, CalmSteps
  <2> QED BY <2>1, <2>4 DEF CountTalker, a, b
<1>2. Calm(v, CountPeer(v, k, t))
  <2> DEFINE a == [v EXCEPT !.radios[k.src].peers = Bump(@, k.tgt)]
  <2>1. Calm(v, a) BY DEF Calm, ModelFields
  <2> HIDE DEF a
  <2>2. Calm(a, CalledBy(a, k, t)) BY RadiosCalm
  <2>3. Calm(v, CalledBy(a, k, t)) BY <2>1, <2>2, CalmSteps
  <2> QED BY <2>3, CalmSteps DEF CountPeer, a
<1>3. Calm(v, CountGroup(v, k, t))
  <2> DEFINE a == IF k.src = Nobody THEN v ELSE [v EXCEPT !.radios[k.src].tgs = Bump(@, k.tgt)]
             b == EnsureTalkgroup(a, k.tgt, t)
  <2>1. Calm(v, a) BY DEF Calm, ModelFields
  <2> HIDE DEF a
  <2>2. Calm(a, b) BY RadiosCalm
  <2>3. \E f : CountGroup(v, k, t) = [b EXCEPT !.tgs = f] BY Zenon DEF CountGroup, a
  <2> HIDE DEF b
  <2> QED BY <2>1, <2>2, <2>3, ElseCalm, CalmSteps
<1> QED BY <1>1, <1>2, <1>3 DEF CountTarget

\* What is counted for a network is not what it is known by.
LEMMA NotesSame ==
  ASSUME NEW v, NEW id, NEW net PROVE SameNets(v, NoteKey(v, id)) /\ SameNets(v, CountNetwork(v, net))
<1>1. SameNets(v, CountNetwork(v, net))
  BY DEF CountNetwork, SameNets, Charted, ModelFields
<1>2. SameNets(v, NoteKey(v, id))
  <2> DEFINE k == FindCall(v, id)
             u == SetCall(v, [k EXCEPT !.keyNoted = TRUE])
             N == [x \in DOMAIN u.nets |-> IF x \in {k.net} THEN [u.nets[x] EXCEPT !.keys = Bump(@, k.kid)] ELSE u.nets[x]]
             a == [u EXCEPT !.nets = N]
  <2>1. Calm(v, u) BY CallsCalm
  <2>2. NoteKey(v, id) = v \/ \E f, g : NoteKey(v, id) = [[a EXCEPT !.tgs = f] EXCEPT !.radios = g]
    <3> DEFINE On(f, S, kid) == [x \in DOMAIN f |-> IF x \in S THEN [f[x] EXCEPT !.keys = Bump(@, kid)] ELSE f[x]]
               f == IF k.priv THEN u.tgs ELSE On(u.tgs, {k.tgt}, k.kid)
               g == On(u.radios, {k.src}, k.kid)
    <3>1. NoteKey(v, id) = v \/ NoteKey(v, id) = [u EXCEPT !.nets = N, !.tgs = f, !.radios = g]
      BY DEF NoteKey
    <3> HIDE DEF f, g, N, u
    <3>2. [u EXCEPT !.nets = N, !.tgs = f, !.radios = g] = [[[u EXCEPT !.nets = N] EXCEPT !.tgs = f] EXCEPT !.radios = g]
      OBVIOUS
    <3> QED BY <3>1, <3>2
  <2> HIDE DEF u
  <2>3. SameNets(u, a) BY DEF SameNets, Charted, ModelFields
  <2> HIDE DEF a
  <2>4. \A f, g : Calm(a, [[a EXCEPT !.tgs = f] EXCEPT !.radios = g]) BY ElseCalm, CalmSteps
  <2>5. SameNets(v, a) BY <2>1, <2>3, CalmSteps
  <2>6. \A w : Calm(a, w) => SameNets(v, w) BY <2>5, CalmSteps
  <2>7. CASE NoteKey(v, id) = v BY <2>7, CalmSteps
  <2>8. CASE \E f, g : NoteKey(v, id) = [[a EXCEPT !.tgs = f] EXCEPT !.radios = g]
    <3> PICK f, g : NoteKey(v, id) = [[a EXCEPT !.tgs = f] EXCEPT !.radios = g] BY <2>8
    <3> QED BY <2>4, <2>6
  <2> QED BY <2>2, <2>7, <2>8
<1> QED BY <1>1, <1>2

\* A call is counted (count_call).
LEMMA CountSame ==
  ASSUME NEW v, NEW id, NEW t PROVE SameNets(v, CountCall(v, id, t))
<1> DEFINE k == [FindCall(v, id) EXCEPT !.counted = TRUE]
           a == CountTalker(v, k, t)
           b == CountTarget(a, k, t)
           c == CountNetwork(b, k.net)
<1>1. Calm(v, a) BY TargetCalm
<1>2. CountCall(v, id, t) = NoteKey(c, id) BY DEF CountCall, CountFor
<1> HIDE DEF a
<1>3. Calm(a, b) BY TargetCalm
<1> HIDE DEF b
<1>4. SameNets(b, c) BY NotesSame
<1> HIDE DEF c
<1>5. SameNets(c, NoteKey(c, id)) BY NotesSame
<1>6. SameNets(v, b) BY <1>1, <1>3, CalmSteps
<1>7. SameNets(v, c) BY <1>4, <1>6, CalmSteps
<1> QED BY <1>2, <1>5, <1>7, CalmSteps

\* ... and closed (close_call).
LEMMA CloseSame == ASSUME NEW v, NEW id PROVE SameNets(v, CloseCall(v, id))
<1> SUFFICES ASSUME NEW k PROVE SameNets(v, CloseOne(v, k)) BY DEF CloseCall
<1> SUFFICES ASSUME k.open PROVE SameNets(v, CloseOne(v, k)) BY CalmSteps DEF CloseOne
<1>1. ASSUME NEW drop PROVE Calm(v, ShutCall(v, k, drop))
  <2> DEFINE l == [k EXCEPT !.open = FALSE,
                      !.qual = IF k.id \in DOMAIN v.quality THEN v.quality[k.id] ELSE @,
                      !.audio = IF drop THEN NoFile ELSE @,
                      !.samples = IF drop THEN 0 ELSE @]
             a == SetCall(v, l)
             q == Without(a.quality, {k.id})
             s == IF k.audio = NoFile THEN a.store ELSE IF drop THEN Discard(a.store, k.audio) ELSE Finish(a.store, k.audio)
             b == [[a EXCEPT !.quality = q] EXCEPT !.store = s]
  <2>1. ShutCall(v, k, drop) = IF drop THEN SetKeep(b, l, FALSE) ELSE b BY Zenon DEF ShutCall
  <2>2. Calm(v, a) BY CallsCalm
  <2> HIDE DEF a, l, q, s
  <2>3. Calm(a, b) BY ElseCalm, CalmSteps
  <2> HIDE DEF b
  <2>4. Calm(b, SetKeep(b, l, FALSE)) BY CallsCalm
  <2> QED BY <2>1, <2>2, <2>3, <2>4, CalmSteps
<1> DEFINE a == ShutCall(v, k, k.audio # NoFile /\ Unwanted(k))
           b == CountLate(a, k)
<1>2. Calm(v, a)
  <2> DEFINE drop == k.audio # NoFile /\ Unwanted(k)
  <2> HIDE DEF drop
  <2> QED BY <1>1 DEF drop
<1>3. CloseOne(v, k) = MarkClosed(b, k.id) BY DEF CloseOne
<1> HIDE DEF a
<1>4. SameNets(a, b) BY CountSame, CalmSteps DEF CountLate
<1> HIDE DEF b
<1>5. \A l : Calm(b, MarkTalkgroup(b, l)) BY DEF MarkTalkgroup, Calm, ModelFields
<1>6. SameNets(b, MarkClosed(b, k.id)) BY <1>5, CalmSteps DEF MarkClosed
<1>7. SameNets(v, b) BY <1>2, <1>4, CalmSteps
<1> QED BY <1>3, <1>6, <1>7, CalmSteps

\* The loop that closes calls.
CloseOn(e, a, id) == IF id \in e.closing THEN CloseCall(a, id) ELSE a
SameSoFar(e, a, n) == SameNets(e.m, a)
ClosingOn == INSTANCE Folding WITH Op <- CloseOn, Good <- SameSoFar

\* Closing a stream's calls (close_session_calls_locked, expire_locked).
LEMMA CloseAllSame ==
  ASSUME NEW v, NEW closing, IsList(v.calls) PROVE SameNets(v, CloseAll(v, closing))
<1> PICK n \in Nat : DOMAIN v.calls = 1..n BY DEF IsList
<1> DEFINE e == [m |-> v, closing |-> closing]
           ids == [i \in 1..n |-> v.calls[i].id]
<1>1. CloseAll(v, closing) = ClosingOn!Fold(e, v, ids)
  BY DEF CloseAll, CloseOn, ClosingOn!Fold, FoldLeft, ClosingOn!FoldLeft, MapThenFoldSet,
         ClosingOn!MapThenFoldSet, Max, ClosingOn!Max
<1>2. SameSoFar(e, v, 0) BY CalmSteps DEF SameSoFar
<1>3. ASSUME NEW k \in 1..n, NEW a, SameSoFar(e, a, k - 1)
      PROVE  SameSoFar(e, CloseOn(e, a, ids[k]), k)
  <2>1. SameNets(v, a) BY <1>3 DEF SameSoFar
  <2>2. SameNets(a, CloseCall(a, ids[k])) BY CloseSame
  <2>3. SameNets(v, CloseCall(a, ids[k])) BY <2>1, <2>2, CalmSteps
  <2> QED BY <2>1, <2>3 DEF SameSoFar, CloseOn
<1>4. SameSoFar(e, ClosingOn!Fold(e, v, ids), n) BY <1>2, <1>3, ClosingOn!FoldKeeps
<1> QED BY <1>1, <1>4 DEF SameSoFar

\* ... which end with their stream, or went quiet.
LEMMA EndSame ==
  ASSUME NEW v, NEW sid, NEW t, IsList(v.calls)
  PROVE  SameNets(v, CloseSessionCalls(v, sid)) /\ SameNets(v, Expire(v, sid, t))
<1>1. SameNets(v, CloseSessionCalls(v, sid)) BY CloseAllSame, CalmSteps DEF CloseSessionCalls
<1>2. ASSUME NEW quiet PROVE SameNets(v, ExpireSlots(v, sid, quiet))
  <2> DEFINE a == CloseAll(v, {v.sess[sid].active[x] : x \in quiet})
  <2>1. SameNets(v, a) BY CloseAllSame
  <2> HIDE DEF a
  <2>2. Calm(a, [a EXCEPT !.sess[sid].active = Without(@, quiet)]) BY ElseCalm
  <2> QED BY <2>1, <2>2, CalmSteps, ZenonT(60) DEF ExpireSlots, a
<1> QED BY <1>1, <1>2 DEF Expire

----------------------------------------------------------------------------
\* The rest of a line leaves the networks as they are.

\* A call is opened (open_call).
LEMMA OpenSame == ASSUME NEW v, NEW sid, NEW slot, NEW t PROVE SameNets(v, OpenCall(v, sid, slot, t))
<1> DEFINE a == EndSlot(v, slot, FreshCall(v, sid, slot, t))
           b == RollOff(a)
           c == AddCall(b, sid, slot, t)
<1>1. SameNets(v, a) BY CloseSame, CalmSteps DEF EndSlot
<1>2. OpenCall(v, sid, slot, t) = c BY DEF OpenCall
<1> HIDE DEF a
<1>3. SameNets(a, b)
  <2> DEFINE id == a.calls[Min(Loose(a))].id
             x == CloseCall(a, id)
  <2>1. SameNets(a, x) BY CloseSame
  <2>2. b = a \/ b = DropCall(x, id) BY DEF RollOff
  <2> HIDE DEF x
  <2>3. Calm(x, DropCall(x, id)) BY CallsCalm
  <2>4. SameNets(a, DropCall(x, id)) BY <2>1, <2>3, CalmSteps
  <2> QED BY <2>2, <2>4, CalmSteps
<1> HIDE DEF b
<1>4. Calm(b, c) BY DEF AddCall, Calm, ModelFields
<1> HIDE DEF c
<1>5. SameNets(v, b) BY <1>1, <1>3, CalmSteps
<1> QED BY <1>2, <1>4, <1>5, CalmSteps

\* A call becomes private, encrypted, an emergency (refine).
LEMMA RefineSame ==
  ASSUME NEW v, NEW id, NEW line, NEW t
  PROVE  /\ SameNets(v, RefinePrivate(v, id, line, t)) /\ SameNets(v, RefineKey(v, id, line))
         /\ SameNets(v, Refine(v, id, line, t))
<1>1. \A w : Calm(w, RefinePrivate(w, id, line, t))
  <2> SUFFICES ASSUME NEW w, NEW k PROVE Calm(w, TurnPrivate(w, k, t))
    BY CalmSteps DEF RefinePrivate, SetPrivate
  <2> DEFINE a == SetCall(w, [k EXCEPT !.priv = TRUE])
             b == UntieTalker(a, k)
             c == UntieGroup(b, k)
             d == IF k.src \in DOMAIN c.radios THEN [c EXCEPT !.radios[k.src].peers = Bump(@, k.tgt)] ELSE c
  <2>1. Calm(w, a) BY CallsCalm
  <2>2. TurnPrivate(w, k, t) = a \/ TurnPrivate(w, k, t) = CalledBy(d, k, t) BY DEF TurnPrivate, TiePeer
  <2> HIDE DEF a
  <2>3. Calm(a, b) BY DEF UntieTalker, Calm, ModelFields
  <2> HIDE DEF b
  <2>4. Calm(b, c) BY DEF UntieGroup, Calm, ModelFields
  <2> HIDE DEF c
  <2>5. Calm(c, d) BY DEF Calm, ModelFields
  <2> HIDE DEF d
  <2>6. Calm(d, CalledBy(d, k, t)) BY RadiosCalm
  <2>7. Calm(w, c) BY <2>1, <2>3, <2>4, CalmSteps
  <2>8. Calm(w, d) BY <2>5, <2>7, CalmSteps
  <2>9. Calm(w, CalledBy(d, k, t)) BY <2>6, <2>8, CalmSteps
  <2> QED BY <2>1, <2>2, <2>9
<1>2. \A w : SameNets(w, RefineKey(w, id, line))
  <2> SUFFICES ASSUME NEW w PROVE SameNets(w, NoteEncrypted(w, id, line)) BY CalmSteps DEF RefineKey
  <2> DEFINE k == FindCall(w, id)
             a == SetCall(w, [k EXCEPT !.encrypted = TRUE, !.kid = IF @ = NoKey THEN line.kid ELSE @])
  <2>1. Calm(w, a) BY CallsCalm
  <2>2. NoteEncrypted(w, id, line) = NoteKey(a, id) BY DEF NoteEncrypted
  <2> HIDE DEF a
  <2>3. SameNets(a, NoteKey(a, id)) BY NotesSame
  <2> QED BY <2>1, <2>2, <2>3, CalmSteps
<1>3. \A w : Calm(w, RefineEmergency(w, id, line)) BY CallsCalm, CalmSteps DEF RefineEmergency, NoteEmergency
<1>4. SameNets(v, Refine(v, id, line, t))
  <2> DEFINE a == RefinePrivate(v, id, line, t)
             b == RefineEmergency(a, id, line)
  <2>1. Calm(v, a) BY <1>1
  <2>2. Refine(v, id, line, t) = RefineKey(b, id, line) BY DEF Refine
  <2> HIDE DEF a
  <2>3. Calm(a, b) BY <1>3
  <2> HIDE DEF b
  <2>4. SameNets(b, RefineKey(b, id, line)) BY <1>2
  <2> QED BY <2>1, <2>2, <2>3, <2>4, CalmSteps
<1> QED BY <1>1, <1>2, <1>4, CalmSteps

\* One call of two (adopt, settle).
LEMMA SettleSame ==
  ASSUME NEW v, NEW sid, NEW id, NEW slot, NEW t PROVE SameNets(v, SettleId(v, sid, id, slot, t))
<1>1. ASSUME NEW dup, NEW twin PROVE SameNets(v, AdoptTwin(v, sid, dup, twin, slot))
  <2> DEFINE taken == twin.audio = NoFile
             x == [twin EXCEPT
               !.voice = @ \/ dup.voice, !.data = @ \/ dup.data, !.emergency = @ \/ dup.emergency,
               !.encrypted = @ \/ dup.encrypted, !.kid = IF @ = NoKey THEN dup.kid ELSE @,
               !.slot = IF @ = 0 THEN dup.slot ELSE @,
               !.start = MinOf(@, dup.start), !.last = MaxOf(@, dup.last), !.streams = @ + 1,
               !.audio = IF taken THEN dup.audio ELSE @,
               !.audioSid = IF taken /\ dup.audio # NoFile THEN dup.audioSid ELSE @,
               !.audioSlot = IF taken /\ dup.audio # NoFile THEN dup.audioSlot ELSE @,
               !.samples = IF taken /\ dup.audio # NoFile THEN dup.samples ELSE @,
               !.keep = @ \/ dup.keep]
             a == SetCall(v, x)
             b == DropCall(a, dup.id)
             To(n) == IF n = dup.id THEN twin.id ELSE n
             c == [b EXCEPT
               !.store = IF dup.audio # NoFile /\ ~taken THEN Discard(@, dup.audio) ELSE @,
               !.quality = Without(@, {dup.id}),
               !.sess[sid].active = [y \in DOMAIN @ |-> To(@[y])],
               !.sess[sid].last = [[y \in Slots |-> To(@[y])] EXCEPT ![slot] = twin.id]]
  <2>1. AdoptTwin(v, sid, dup, twin, slot) = NoteKey(c, twin.id) BY DEF AdoptTwin
  <2>2. Calm(v, a) BY CallsCalm
  <2> HIDE DEF a
  <2>3. Calm(a, b) BY CallsCalm
  <2> HIDE DEF b, To
  <2>4. Calm(b, c) BY DEF Calm, ModelFields
  <2> HIDE DEF c
  <2>5. SameNets(c, NoteKey(c, twin.id)) BY NotesSame
  <2>6. Calm(v, c) BY <2>2, <2>3, <2>4, CalmSteps
  <2> QED BY <2>1, <2>5, <2>6, CalmSteps, SMTT(30)
<1> SUFFICES ASSUME NEW k PROVE SameNets(v, Settle(v, sid, k, slot, t)) BY DEF SettleId
<1> DEFINE a == One(v, sid, k, Twins(v, k, t), slot)
<1>2. SameNets(v, a.m) BY <1>1, CalmSteps DEF One, Adopted
<1>3. Settle(v, sid, k, slot, t) = v \/ Settle(v, sid, k, slot, t) = CountOnce(a, t) BY DEF Settle
<1> HIDE DEF a
<1>4. SameNets(a.m, CountOnce(a, t)) BY CountSame, CalmSteps DEF CountOnce
<1> QED BY <1>2, <1>3, <1>4, CalmSteps

\* The line becomes part of its call (fold).
LEMMA FoldSame ==
  ASSUME NEW v, NEW sid, NEW id, NEW line, NEW t PROVE SameNets(v, Fold(v, sid, id, line, t))
<1> DEFINE a == Take(v, sid, FindCall(v, id), line, t)
           b == RefineKey(a, id, line)
           c == RefinePrivate(b, id, line, t)
<1>1. Calm(v, a)
  <2> SUFFICES ASSUME NEW k PROVE Calm(v, Take(v, sid, k, line, t)) OBVIOUS
  <2> QED BY DEF Take, SetCall, Calm, ModelFields
<1>2. Fold(v, sid, id, line, t) = SettleId(c, sid, id, line.slot, t) BY DEF Fold
<1> HIDE DEF a
<1>3. SameNets(a, b) BY RefineSame
<1> HIDE DEF b
<1>4. SameNets(b, c) BY RefineSame
<1> HIDE DEF c
<1>5. SameNets(c, SettleId(c, sid, id, line.slot, t)) BY SettleSame
<1>6. SameNets(v, b) BY <1>1, <1>3, CalmSteps
<1>7. SameNets(v, c) BY <1>4, <1>6, CalmSteps
<1> QED BY <1>2, <1>5, <1>7, CalmSteps, SMTT(30)

\* The call the line goes with, found or opened (extend).
LEMMA ExtendSame ==
  ASSUME NEW v, NEW sid, NEW line, NEW t PROVE SameNets(v, Extend(v, sid, line, t))
<1>1. \A k, from : Calm(v, GiveSlot(v, sid, k, from, line).m)
  <2> SUFFICES ASSUME NEW k, NEW from PROVE Calm(v, GiveSlot(v, sid, k, from, line).m) OBVIOUS
  <2> DEFINE a == SetCall(v, [k EXCEPT !.slot = line.slot])
  <2>1. Calm(v, a) BY CallsCalm
  <2> DEFINE b == [a EXCEPT !.sess[sid].active = Put(Without(@, {<<from, line.tgt>>}), <<line.slot, line.tgt>>, k.id)]
  <2>2. GiveSlot(v, sid, k, from, line).m \in {v, b} BY DEF GiveSlot
  <2> HIDE DEF a
  <2>3. Calm(a, b) BY ElseCalm
  <2>4. Calm(v, b) BY <2>1, <2>3, CalmSteps
  <2> HIDE DEF b
  <2> QED BY <2>2, <2>4, CalmSteps
<1>2. Calm(v, Slotless(v, sid, line, t).m) BY <1>1, CalmSteps DEF Slotless, SlotlessAt
<1>3. Calm(v, Found(v, sid, line, t).m) BY <1>2, CalmSteps DEF Found, FoundOf
<1> DEFINE f == Found(v, sid, line, t)
           g == Fitting(f, line)
           a == Into(g, sid, line, t)
<1>4. Extend(v, sid, line, t) = FoldInto(a, sid, line, t) BY DEF Extend, Match
<1>5. Calm(v, f.m) BY <1>3
<1> HIDE DEF f
<1>6. SameNets(f.m, g.m) BY CloseSame, CalmSteps DEF Fitting
<1> HIDE DEF g
<1>7. SameNets(g.m, a.m) BY OpenSame, CalmSteps DEF Into, Opened
<1> HIDE DEF a
<1>8. SameNets(a.m, FoldInto(a, sid, line, t)) BY FoldSame, CalmSteps DEF FoldInto
<1>9. SameNets(v, g.m) BY <1>5, <1>6, CalmSteps
<1>10. SameNets(v, a.m) BY <1>7, <1>9, CalmSteps
<1> QED BY <1>4, <1>8, <1>10, CalmSteps

\* What a decoded line does once its stream is on its network.
LEMMA ApplySame ==
  ASSUME NEW v, NEW sid, NEW line, NEW t PROVE SameNets(v, ApplyNow(v, sid, line, t))
<1> SUFFICES ASSUME NEW k PROVE SameNets(v, Apply(v, sid, line, t, k)) BY DEF ApplyNow
<1> DEFINE a == TalkerHeard(v, sid, line, t)
<1>1. Calm(v, a) BY RadiosCalm, CalmSteps DEF TalkerHeard
<1>2. SameNets(v, Terminate(v, k.id)) BY CallsCalm, CalmSteps DEF Terminate
<1>3. SameNets(v, Refine(v, k.id, line, t)) BY RefineSame
<1>4. SameNets(v, Extend(a, sid, line, t))
  <2> HIDE DEF a
  <2>1. SameNets(a, Extend(a, sid, line, t)) BY ExtendSame
  <2> QED BY <1>1, <2>1, CalmSteps
<1> QED BY <1>1, <1>2, <1>3, <1>4, CalmSteps DEF Apply

----------------------------------------------------------------------------
\* What changes the networks.

\* A network with the fields it had.
LEMMA OneNetwork ==
  ASSUME NEW v, NEW n, NEW x, Charted(v), n \in DOMAIN v.nets => {"ids", "conf"} \subseteq DOMAIN x
  PROVE  Charted([v EXCEPT !.nets = [v.nets EXCEPT ![n] = x]])
BY DEF Charted, ModelFields

\* A line's ids (absorb_identity).
LEMMA AbsorbCharts == ASSUME NEW v, NEW sid, NEW line PROVE Charts(v, Absorb(v, sid, line).m)
<1> DEFINE c == [v.sess[sid] EXCEPT !.adjacent = Adjacent(v.sess[sid], line)]
           a == [v EXCEPT !.sess[sid] = c]
<1>1. Calm(v, a) BY ElseCalm
<1>2. ASSUME NEW ids, Charted(a) PROVE Charted(NoteNeighbour(a, c, ids))
  <2> HIDE DEF a
  <2> DEFINE x == [a.nets[c.net] EXCEPT !.sites = @ \cup {SiteOf(ids)}]
  <2>1. NoteNeighbour(a, c, ids) \in {a, [a EXCEPT !.nets = [a.nets EXCEPT ![c.net] = x]]}
    BY DEF NoteNeighbour
  <2>2. c.net \in DOMAIN a.nets => {"ids", "conf"} \subseteq DOMAIN x BY <1>2 DEF Charted
  <2> HIDE DEF x, c
  <2>3. Charted([a EXCEPT !.nets = [a.nets EXCEPT ![c.net] = x]]) BY <1>2, <2>2, OneNetwork
  <2> QED BY <1>2, <2>1, <2>3
<1>3. \A old, s : Calm(v, Believe(v, sid, old, s).m) BY ElseCalm DEF Believe
<1>4. \A d, s : Calm(v, Learn(v, sid, d, s).m) BY <1>3 DEF Learn
<1>5. \/ Absorb(v, sid, line).m = a
      \/ Absorb(v, sid, line).m = NoteNeighbour(a, c, line.ids)
      \/ Absorb(v, sid, line).m = Learn(v, sid, c, Seen(c, line.ids)).m
  BY DEF Absorb
<1> HIDE DEF a, c
<1>6. Charted(v) => Charted(a) /\ Charted(NoteNeighbour(a, c, line.ids))
  BY <1>1, <1>2, CalmSteps DEF Charts
<1>7. Charts(v, Learn(v, sid, c, Seen(c, line.ids)).m) BY <1>4, CalmSteps
<1> QED BY <1>5, <1>6, <1>7 DEF Charts

\* Two networks become one (merge_network).
LEMMA MergeCharts == ASSUME NEW v, NEW from, NEW to PROVE Charts(v, MergeNetwork(v, from, to))
<1> SUFFICES ASSUME Charted(v), {from, to} \subseteq DOMAIN v.nets PROVE Charted(MergeNetwork(v, from, to))
  BY DEF Charts, MergeNetwork
<1> DEFINE a == v.nets[from]
           z == v.nets[to]
           x == [z EXCEPT !.ids = Over(@, a.ids), !.sites = @ \cup a.sites, !.freqs = @ \cup a.freqs,
                          !.sessions = @ \cup a.sessions, !.calls = @ + a.calls,
                          !.keys = AddCounts(@, a.keys), !.first = MinOf(@, a.first),
                          !.last = MaxOf(@, a.last)]
           w == MergeNetwork(v, from, to)
<1>1. DOMAIN w = ModelFields /\ w.nets = Without([v.nets EXCEPT ![to] = x], {from})
  BY DEF MergeNetwork, Charted, ModelFields
<1>2. DOMAIN x = DOMAIN z OBVIOUS
<1> HIDE DEF x, w
<1>3. DOMAIN w.nets = DOMAIN v.nets \ {from} BY <1>1 DEF Without, Restrict
<1>4. \A n \in DOMAIN w.nets : w.nets[n] = IF n = to THEN x ELSE v.nets[n]
  BY <1>1 DEF Without, Restrict
<1> QED BY <1>1, <1>2, <1>3, <1>4 DEF Charted, w

\* A stream finds its network (resolve_network).
LEMMA ResolveCharts == ASSUME NEW v, NEW sid, NEW t PROVE Charts(v, Resolve(v, sid, t))
<1> SUFFICES ASSUME NEW id PROVE Charts(v, JoinNetwork(v, sid, id, t)) BY DEF Resolve
<1> DEFINE a == NameNetwork(v, sid, id, t)
           b == FoldBucket(a, sid, id.key)
<1>1. Charts(v, a)
  <2> SUFFICES ASSUME Charted(v) PROVE Charted(a) BY DEF Charts
  <2> DEFINE new == NewNetwork(id.conf, t)
             nets == Ensure(v.nets, id.key, new, MaxNetworks)
             x == [nets[id.key] EXCEPT !.conf = IF id.conf = "strong" THEN id.conf ELSE @,
                                       !.ids = Over(v.sess[sid].ids, @)]
             u == [v EXCEPT !.nets = nets]
  <2>1. {"ids", "conf"} \subseteq DOMAIN new BY DEF NewNetwork
  <2>2. \A n \in DOMAIN nets : nets[n] = new \/ (n \in DOMAIN v.nets /\ nets[n] = v.nets[n])
    <3> HIDE DEF new
    <3> QED BY DEF Ensure, Put, Without, Restrict
  <2>3. a = [v EXCEPT !.nets = [nets EXCEPT ![id.key] = x]] BY Zenon DEF NameNetwork
  <2>4. DOMAIN x = DOMAIN nets[id.key] OBVIOUS
  <2> HIDE DEF new, nets, x
  <2>5. Charted(u) BY <2>1, <2>2 DEF Charted, ModelFields
  <2>6. DOMAIN u = ModelFields /\ u.nets = nets BY DEF Charted, ModelFields
  <2>7. Charted([u EXCEPT !.nets = [u.nets EXCEPT ![id.key] = x]])
    <3> HIDE DEF u
    <3>1. id.key \in DOMAIN u.nets => {"ids", "conf"} \subseteq DOMAIN x
      BY <2>4, <2>5, <2>6 DEF Charted
    <3> QED BY <2>5, <3>1, OneNetwork
  <2>8. [u EXCEPT !.nets = [u.nets EXCEPT ![id.key] = x]] = [v EXCEPT !.nets = [nets EXCEPT ![id.key] = x]]
    BY <2>6
  <2> HIDE DEF u, a
  <2> QED BY <2>3, <2>7, <2>8
<1> HIDE DEF a
<1>2. Charts(a, b) BY MergeCharts, CalmSteps DEF FoldBucket
<1> HIDE DEF b
<1>3. Calm(b, [b EXCEPT !.sess[sid].net = id.key]) BY ElseCalm
<1>4. Charts(b, [b EXCEPT !.sess[sid].net = id.key]) BY <1>3, CalmSteps
<1> QED BY <1>1, <1>2, <1>4, CalmSteps DEF JoinNetwork, a, b

\* The stream enters the model (ingest, register).
LEMMA RegisterCharts ==
  ASSUME NEW v, NEW sid, NEW line, NEW t PROVE Charts(v, Register(v, sid, line, t))
<1> DEFINE a == [v EXCEPT !.sess[sid].live = TRUE, !.exists = TRUE]
           b == Absorb(a, sid, line)
           c == Locate(b.m, sid, b.changed, t)
<1>1. Calm(v, a) BY DEF Calm, ModelFields
<1> HIDE DEF a
<1>2. Charts(a, b.m) BY AbsorbCharts
<1> HIDE DEF b
<1>3. Charts(b.m, c) BY ResolveCharts, CalmSteps DEF Locate
<1> HIDE DEF c
<1>4. Charts(c, Enter(c, sid, t))
  <2> SUFFICES ASSUME Charted(c) PROVE Charted(Enter(c, sid, t)) BY DEF Charts
  <2> DEFINE s == c.sess[sid]
             x == [c.nets[s.net] EXCEPT !.last = t, !.sessions = @ \cup {sid},
                             !.sites = IF s.site = NoIds THEN @ ELSE @ \cup {s.site},
                             !.freqs = IF s.freq = 0 THEN @ ELSE @ \cup {s.freq}]
  <2>1. Enter(c, sid, t) = [c EXCEPT !.nets = [c.nets EXCEPT ![s.net] = x]] BY DEF Enter
  <2>2. s.net \in DOMAIN c.nets => {"ids", "conf"} \subseteq DOMAIN x BY DEF Charted
  <2> HIDE DEF x, s
  <2> QED BY <2>1, <2>2, OneNetwork
<1>5. Charts(v, b.m) BY <1>1, <1>2, CalmSteps
<1>6. Charts(v, c) BY <1>3, <1>5, CalmSteps
<1>7. Charts(v, Enter(c, sid, t)) BY <1>4, <1>6, CalmSteps
<1> QED BY <1>7 DEF Register, EnterWith, a, b, c

\* A line (ingest).
LEMMA IngestCharts ==
  ASSUME NEW v, NEW sid, NEW line, NEW t, Listed(v) PROVE Charts(v, Ingest(v, sid, line, t))
<1> DEFINE a == Labelled(v, sid, line)
           b == Register(a, sid, line, t)
           c == Expire(b, sid, t)
<1>1. Listed(a)
  <2>1. Kept(v, a) BY FieldKept, Nothing DEF Labelled
  <2> HIDE DEF a
  <2> QED BY <2>1, KeptListed
<1>2. Charts(v, a)
  <2>1. Calm(v, a) BY DEF Labelled, Calm, ModelFields
  <2> QED BY <2>1, CalmSteps
<1>3. Ingest(v, sid, line, t) \in {v, a, Absorb(a, sid, line).m, ApplyNow(c, sid, line, t)}
  BY DEF Ingest, IngestAs, Decode
<1> HIDE DEF a
<1>4. Charts(v, Absorb(a, sid, line).m) BY <1>2, AbsorbCharts, CalmSteps
<1>5. Charts(v, b) BY <1>2, RegisterCharts, CalmSteps
<1>6. IsList(b.calls) BY <1>1, RegisterKept DEF Kept
<1> HIDE DEF b
<1>7. Charts(b, c) BY <1>6, EndSame, CalmSteps
<1>8. Charts(v, c) BY <1>5, <1>7, CalmSteps
<1> HIDE DEF c
<1>9. Charts(c, ApplyNow(c, sid, line, t)) BY ApplySame, CalmSteps
<1>10. Charts(v, ApplyNow(c, sid, line, t)) BY <1>8, <1>9, CalmSteps
<1> QED BY <1>2, <1>3, <1>4, <1>10, CalmSteps

\* A stream's end takes networks away, and changes none (prune_session_locked).
LEMMA PruneTakes ==
  ASSUME NEW v, NEW sid, NEW retune, Charted(v)
  PROVE  \E dead \in SUBSET {k \in DOMAIN v.nets : Droppable(v, sid, k, retune)} :
           /\ DOMAIN Prune(v, sid, retune) = ModelFields
           /\ DOMAIN Prune(v, sid, retune).nets = DOMAIN v.nets \ dead
           /\ \A k \in DOMAIN v.nets \ dead : Prune(v, sid, retune).nets[k] = v.nets[k]
<1> DEFINE D == {k \in DOMAIN v.nets : Droppable(v, sid, k, retune)}
           w == Prune(v, sid, retune)
<1>1. w = v \/ (DOMAIN w = ModelFields /\ w.nets = Without(v.nets, D))
  <2> HIDE DEF D
  <2> QED BY DEF Prune, Charted, ModelFields, D
<1>2. CASE w = v
  <2> HIDE DEF w, D
  <2>1. /\ {} \in SUBSET D /\ DOMAIN w = ModelFields /\ DOMAIN w.nets = DOMAIN v.nets \ {}
        /\ \A k \in DOMAIN v.nets \ {} : w.nets[k] = v.nets[k]
    BY <1>2 DEF Charted
  <2> QED BY <2>1 DEF w, D
<1>3. CASE DOMAIN w = ModelFields /\ w.nets = Without(v.nets, D)
  <2> HIDE DEF w, D
  <2>1. DOMAIN w.nets = DOMAIN v.nets \ D /\ \A k \in DOMAIN v.nets \ D : w.nets[k] = v.nets[k]
    BY <1>3 DEF Without, Restrict
  <2> QED BY <1>3, <2>1 DEF w, D
<1> QED BY <1>1, <1>2, <1>3, SMTT(30)

----------------------------------------------------------------------------
\* What of an identified network's ids remains when a stream's networks go.

\* A network's ids that tell systems apart.
NamesIn(v, n) == Only(v.nets[n].ids, Anchors)
Strong(v, n) == v.nets[n].conf = "strong"

\* The ids that tell systems apart are a few.
LEMMA AnchorsAreFew == IsFiniteSet(Anchors)
<1>1. ASSUME NEW x, NEW y, NEW z PROVE IsFiniteSet({x, y, z})
  <2>1. IsFiniteSet({} \cup {x}) BY FS_EmptySet, FS_AddElement
  <2>2. IsFiniteSet(({} \cup {x}) \cup {y}) BY <2>1, FS_AddElement
  <2>3. IsFiniteSet((({} \cup {x}) \cup {y}) \cup {z}) BY <2>2, FS_AddElement
  <2>4. {x, y, z} = (({} \cup {x}) \cup {y}) \cup {z} OBVIOUS
  <2> QED BY <2>3, <2>4
<1>2. \E x, y, z : Anchors = {x, y, z}
  <2>1. Fam = "p25" => Anchors = {"wacn", "system_id", "nac"} BY DEF Anchors
  <2>2. Fam = "dmr" => Anchors = {"network_id", "cc", "cc"} BY DEF Anchors
  <2>3. Fam = "nxdn" => Anchors = {"system_code", "ran", "ran"} BY DEF Anchors
  <2>4. Fam = "tetra" => Anchors = {"mcc", "mnc", "cc"} BY DEF Anchors
  <2>5. Fam = "dpmr" => Anchors = {"cc", "cc", "cc"} BY DEF Anchors
  <2>6. Fam = "dstar" => Anchors = {"rpt1", "rpt1", "rpt1"} BY DEF Anchors
  <2>7. Fam = "ysf" => Anchors = {"downlink", "downlink", "downlink"} BY DEF Anchors
  <2>8. Fam = "edacs" => Anchors = {"system_id", "system_id", "system_id"} BY DEF Anchors
  <2> QED BY <2>1, <2>2, <2>3, <2>4, <2>5, <2>6, <2>7, <2>8, FamAssumption
<1>3. PICK x, y, z : Anchors = {x, y, z} BY <1>2
<1> QED BY <1>1, <1>3

\* ... so a network has only so many.
LEMMA NamesAreFew ==
  ASSUME NEW v, NEW n
  PROVE  IsFiniteSet(DOMAIN NamesIn(v, n)) /\ Cardinality(DOMAIN NamesIn(v, n)) \in Nat
         /\ DOMAIN NamesIn(v, n) = DOMAIN v.nets[n].ids \cap Anchors
<1>1. IsFiniteSet(Anchors) BY AnchorsAreFew
<1>2. DOMAIN NamesIn(v, n) = DOMAIN v.nets[n].ids \cap Anchors BY DEF NamesIn, Only, Restrict
<1>3. DOMAIN NamesIn(v, n) \in SUBSET Anchors BY <1>2
<1>4. IsFiniteSet(DOMAIN NamesIn(v, n)) BY <1>1, <1>3, FS_Subset
<1> QED BY <1>2, <1>4, FS_CardinalityType

\* A covered network's ids are another's.
LEMMA CoverCarries ==
  ASSUME NEW v, NEW n \in DOMAIN v.nets, Covered(v, n)
  PROVE  \E o \in DOMAIN v.nets \ {n} : Strong(v, o) /\ Carries(NamesIn(v, o), NamesIn(v, n))
<1>1. PICK o \in DOMAIN v.nets \ {n} :
        /\ Strong(v, o)
        /\ \A k \in DOMAIN v.nets[n].ids \cap Anchors :
             k \in DOMAIN v.nets[o].ids /\ v.nets[o].ids[k] = v.nets[n].ids[k]
  BY DEF Covered, Strong
<1>2. Carries(NamesIn(v, o), NamesIn(v, n)) BY <1>1 DEF Carries, NamesIn, Only, Restrict
<1> QED BY <1>1, <1>2

\* Carrying is transitive, and two that carry each other are the same.
LEMMA CarriesSteps ==
  ASSUME NEW v, NEW n, NEW o, NEW p,
         Carries(NamesIn(v, o), NamesIn(v, n)), Carries(NamesIn(v, p), NamesIn(v, o))
  PROVE  /\ Carries(NamesIn(v, p), NamesIn(v, n))
         /\ DOMAIN NamesIn(v, o) \subseteq DOMAIN NamesIn(v, p)
         /\ DOMAIN NamesIn(v, o) = DOMAIN NamesIn(v, p) => NamesIn(v, o) = NamesIn(v, p)
BY DEF Carries, NamesIn, Only, Restrict

\* A set of networks has one with the most ids.
LEMMA MostNamed ==
  ASSUME NEW v, NEW S, S # {}
  PROVE  \E o \in S : \A p \in S : Cardinality(DOMAIN NamesIn(v, o)) >= Cardinality(DOMAIN NamesIn(v, p))
<1>1. IsFiniteSet(Anchors) BY AnchorsAreFew
<1> DEFINE all == Cardinality(Anchors)
           size(p) == Cardinality(DOMAIN NamesIn(v, p))
           T == {all - size(p) : p \in S}
<1>2. all \in Nat BY <1>1, FS_CardinalityType
<1>3. ASSUME NEW p PROVE size(p) \in Nat /\ size(p) <= all
  <2>1. DOMAIN NamesIn(v, p) \in SUBSET Anchors BY NamesAreFew
  <2> QED BY <1>1, <2>1, NamesAreFew, FS_Subset
<1> HIDE DEF all, size
<1>4. T \subseteq Nat /\ T # {} BY <1>2, <1>3
<1>5. \E x \in T : \A y \in T : x <= y BY <1>4, Closing!Least
<1>6. PICK o \in S : \A p \in S : all - size(o) <= all - size(p) BY <1>5
<1>7. \A p \in S : size(o) >= size(p) BY <1>2, <1>3, <1>6
<1> QED BY <1>7 DEF size

\* Of the identified networks that carry a network's ids one remains, or two of
\* those with the most ids go together, with the very same.
LEMMA CoverRemains ==
  ASSUME NEW v, NEW dead \in SUBSET DOMAIN v.nets, NEW n \in dead, Strong(v, n),
         \A k \in dead : Strong(v, k) => Covered(v, k)
  PROVE  \/ \E o \in DOMAIN v.nets \ dead : Carries(NamesIn(v, o), NamesIn(v, n))
         \/ \E o, p \in dead : o # p /\ NamesIn(v, o) = NamesIn(v, p) /\ Carries(NamesIn(v, o), NamesIn(v, n))
<1> DEFINE S == {o \in DOMAIN v.nets \ {n} : Strong(v, o) /\ Carries(NamesIn(v, o), NamesIn(v, n))}
<1> SUFFICES ASSUME S \subseteq dead
             PROVE  \E o, p \in dead : o # p /\ NamesIn(v, o) = NamesIn(v, p) /\ Carries(NamesIn(v, o), NamesIn(v, n))
  OBVIOUS
<1>1. S # {}
  <2>1. Covered(v, n) OBVIOUS
  <2> QED BY <2>1, CoverCarries
<1>2. PICK o \in S : \A p \in S : Cardinality(DOMAIN NamesIn(v, o)) >= Cardinality(DOMAIN NamesIn(v, p))
  <2> HIDE DEF S
  <2> QED BY <1>1, MostNamed
<1>3. Covered(v, o) /\ o \in DOMAIN v.nets /\ o # n /\ o \in dead OBVIOUS
<1>4. PICK p \in DOMAIN v.nets \ {o} : Strong(v, p) /\ Carries(NamesIn(v, p), NamesIn(v, o))
  BY <1>3, CoverCarries
<1>5. Carries(NamesIn(v, o), NamesIn(v, n)) OBVIOUS
<1>6. /\ Carries(NamesIn(v, p), NamesIn(v, n))
      /\ DOMAIN NamesIn(v, o) \subseteq DOMAIN NamesIn(v, p)
      /\ DOMAIN NamesIn(v, o) = DOMAIN NamesIn(v, p) => NamesIn(v, o) = NamesIn(v, p)
  BY <1>4, <1>5, CarriesSteps
<1>7. CASE p = n
  <2>1. DOMAIN NamesIn(v, n) \subseteq DOMAIN NamesIn(v, o) BY <1>5 DEF Carries
  <2>2. NamesIn(v, o) = NamesIn(v, p) BY <1>6, <1>7, <2>1
  <2> QED BY <1>3, <1>5, <1>7, <2>2
<1>8. CASE p # n
  <2>1. p \in S BY <1>4, <1>6, <1>8
  <2>2. Cardinality(DOMAIN NamesIn(v, o)) >= Cardinality(DOMAIN NamesIn(v, p)) BY <1>2, <2>1
  <2>3. DOMAIN NamesIn(v, o) \in SUBSET DOMAIN NamesIn(v, p) BY <1>6
  <2>4. Cardinality(DOMAIN NamesIn(v, o)) = Cardinality(DOMAIN NamesIn(v, p))
    <3>1. Cardinality(DOMAIN NamesIn(v, o)) <= Cardinality(DOMAIN NamesIn(v, p))
      BY <2>3, NamesAreFew, FS_Subset
    <3>2. Cardinality(DOMAIN NamesIn(v, o)) \in Nat /\ Cardinality(DOMAIN NamesIn(v, p)) \in Nat
      BY NamesAreFew
    <3> QED BY <2>2, <3>1, <3>2
  <2>5. DOMAIN NamesIn(v, o) = DOMAIN NamesIn(v, p) BY <2>3, <2>4, NamesAreFew, FS_Subset
  <2> QED BY <1>3, <1>4, <1>5, <1>6, <2>1, <2>5
<1> QED BY <1>7, <1>8

----------------------------------------------------------------------------
\* Call audio changes no network.

\* The value with a list of calls.
Lists(v) == DOMAIN v = ModelFields /\ IsList(v.calls)
\* Nothing of a network changed, and there still is a list of calls.
CalmList(v, w) == Lists(v) => Lists(w) /\ w.nets = v.nets

\* One after another.
LEMMA ListSteps ==
  ASSUME NEW u, NEW v, NEW w
  PROVE  /\ CalmList(v, v)
         /\ CalmList(u, v) /\ CalmList(v, w) => CalmList(u, w)
         /\ Lists(v) /\ CalmList(v, w) => SameNets(v, w)
BY DEF CalmList, Lists, SameNets, Charted

\* A call that changes, or whose audio is kept.
LEMMA SetsList ==
  ASSUME NEW v, NEW k, NEW on, NEW f
  PROVE  /\ CalmList(v, SetCall(v, k)) /\ CalmList(v, SetKeep(v, k, on))
         /\ CalmList(v, [v EXCEPT !.store = f]) /\ CalmList(v, [v EXCEPT !.sess = f])
<1>1. \A l : CalmList(v, SetCall(v, l))
  <2> SUFFICES ASSUME NEW l, Lists(v) PROVE Lists(SetCall(v, l)) /\ SetCall(v, l).nets = v.nets
    BY DEF CalmList
  <2> PICK n \in Nat : DOMAIN v.calls = 1..n BY DEF Lists, IsList
  <2> DEFINE c == [i \in DOMAIN v.calls |-> IF v.calls[i].id = l.id THEN l ELSE v.calls[i]]
  <2>1. SetCall(v, l) = [v EXCEPT !.calls = c] BY DEF SetCall
  <2>2. DOMAIN c = 1..n /\ c = [i \in 1..n |-> c[i]] OBVIOUS
  <2> HIDE DEF c
  <2>3. IsList(c) BY <2>2 DEF IsList
  <2> QED BY <2>1, <2>3 DEF Lists, ModelFields
<1>2. CalmList(v, SetKeep(v, k, on))
  <2> DEFINE a == SetCall(v, [k EXCEPT !.keep = on])
             b == [a EXCEPT !.keeps = Append(@, <<k.id, on>>)]
  <2>1. CalmList(v, a) BY <1>1
  <2>2. SetKeep(v, k, on) = IF k.keep = on THEN v ELSE b BY DEF SetKeep
  <2> HIDE DEF a
  <2>3. CalmList(a, b) BY DEF CalmList, Lists, ModelFields
  <2> HIDE DEF b
  <2> QED BY <2>1, <2>2, <2>3, ListSteps
<1>3. CalmList(v, [v EXCEPT !.store = f]) /\ CalmList(v, [v EXCEPT !.sess = f])
  BY DEF CalmList, Lists, ModelFields
<1> QED BY <1>1, <1>2, <1>3

\* The loop over the calls whose files went.
CalmSoFar(e, a, n) == CalmList(e.m, a)
Telling == INSTANCE Folding WITH Op <- ReconcileStep, Good <- CalmSoFar

\* ... changes no network (reconcile).
LEMMA ReconcileCalm == ASSUME NEW v PROVE CalmList(v, Reconcile(v))
<1> SUFFICES ASSUME Lists(v) PROVE CalmList(v, Reconcile(v)) BY SMTT(30) DEF CalmList
<1> PICK n \in Nat : DOMAIN v.calls = 1..n BY DEF Lists, IsList
<1> DEFINE e == [m |-> v, gone |-> v.store.evicted]
           ids == [i \in 1..n |-> v.calls[i].id]
           a == Telling!Fold(e, v, ids)
           w == [a EXCEPT !.store.evicted = {}]
<1>1. Reconcile(v) = w
  BY DEF Reconcile, ReconcileStep, Telling!Fold, FoldLeft, Telling!FoldLeft, MapThenFoldSet,
         Telling!MapThenFoldSet, Max, Telling!Max
<1>2. CalmSoFar(e, v, 0) BY ListSteps DEF CalmSoFar
<1>3. ASSUME NEW k \in 1..n, NEW b, CalmSoFar(e, b, k - 1)
      PROVE  CalmSoFar(e, ReconcileStep(e, b, ids[k]), k)
  <2>1. CalmList(v, b) BY <1>3 DEF CalmSoFar
  <2> DEFINE l == [FindCall(b, ids[k]) EXCEPT !.audio = NoFile, !.samples = 0]
             x == SetCall(b, l)
             y == SetKeep(x, l, FALSE)
  <2>2. ReconcileStep(e, b, ids[k]) \in {b, y} BY DEF ReconcileStep
  <2> HIDE DEF l
  <2>3. CalmList(b, x) BY SetsList
  <2> HIDE DEF x
  <2>4. CalmList(x, y) BY SetsList
  <2> HIDE DEF y
  <2>5. CalmList(v, y) BY <2>1, <2>3, <2>4, ListSteps
  <2> HIDE DEF ids
  <2>6. CalmList(v, ReconcileStep(e, b, ids[k])) BY <2>1, <2>2, <2>5
  <2> QED BY <2>6 DEF CalmSoFar
<1>4. CalmSoFar(e, a, n)
  <2> HIDE DEF e
  <2> QED BY <1>2, <1>3, Telling!FoldKeeps
<1> HIDE DEF a
<1>5. CalmList(v, a) BY <1>4 DEF CalmSoFar
<1>6. CalmList(a, w) BY DEF CalmList, Lists, ModelFields
<1> QED BY <1>1, <1>5, <1>6, ListSteps

\* A block of voice (audio).
LEMMA AudioCalm ==
  ASSUME NEW sid, NEW slot, NEW block PROVE CalmList(m, Audio(sid, slot, block))
<1>1. CalmList(m, Hold(sid, slot, block)) BY DEF Hold, CalmList, Lists, ModelFields
<1>2. ASSUME NEW s, NEW k, NEW store PROVE CalmList(m, BeginFile(sid, s, k, store))
  <2> DEFINE a == SetCall(m, k)
             b == SetKeep(a, k, TRUE)
             c == [b EXCEPT !.store = store, !.sess[sid].preroll = Without(@, {0, s})]
  <2>1. BeginFile(sid, s, k, store) = Reconcile(c) BY DEF BeginFile
  <2>2. CalmList(m, a) BY SetsList
  <2> HIDE DEF a
  <2>3. CalmList(a, b) BY SetsList
  <2> HIDE DEF b
  <2>4. CalmList(b, c) BY DEF CalmList, Lists, ModelFields
  <2> HIDE DEF c
  <2>5. CalmList(c, Reconcile(c)) BY ReconcileCalm
  <2>6. CalmList(m, c) BY <2>2, <2>3, <2>4, ListSteps
  <2> QED BY <2>1, <2>5, <2>6, ListSteps
<1>3. ASSUME NEW s, NEW k PROVE CalmList(m, Longer(sid, s, k, block))
  <2> DEFINE k1 == [k EXCEPT !.audioSlot = IF @ = 0 THEN s ELSE @, !.samples = @ + block.size]
             a == SetCall(m, k1)
             c == [a EXCEPT !.store = AppendTo(@, k.audio, block.size, now)]
  <2>1. Longer(sid, s, k, block) = Reconcile(c) BY DEF Longer
  <2>2. CalmList(m, a) BY SetsList
  <2> HIDE DEF a
  <2>3. CalmList(a, c) BY SetsList
  <2> HIDE DEF c
  <2>4. CalmList(c, Reconcile(c)) BY ReconcileCalm
  <2>5. CalmList(m, c) BY <2>2, <2>3, ListSteps
  <2> QED BY <2>1, <2>4, <2>5, ListSteps
<1>4. ASSUME NEW k PROVE CalmList(m, Muted(k))
  <2> DEFINE k1 == [k EXCEPT !.noAudio = TRUE, !.audio = NoFile]
             a == SetCall(m, k1)
             c == [a EXCEPT !.store = IF k.audio = NoFile THEN @ ELSE Discard(@, k.audio)]
  <2>1. Muted(k) = SetKeep(c, k1, FALSE) BY DEF Muted
  <2>2. CalmList(m, a) BY SetsList
  <2> HIDE DEF a, k1
  <2>3. CalmList(a, c) BY SetsList
  <2> HIDE DEF c
  <2>4. CalmList(c, SetKeep(c, k1, FALSE)) BY SetsList
  <2>5. CalmList(m, c) BY <2>2, <2>3, ListSteps
  <2> QED BY <2>1, <2>4, <2>5, ListSteps
<1>5. ASSUME NEW s, NEW k PROVE CalmList(m, Recorded(sid, s, k, block))
  <2>1. CalmList(m, GoOn(sid, s, k, block)) BY <1>3, SetsList DEF GoOn
  <2>2. CalmList(m, StartFile(sid, s, k, block)) BY <1>2, SetsList DEF StartFile
  <2> QED BY <2>1, <2>2 DEF Recorded
<1>6. ASSUME NEW s, NEW k PROVE CalmList(m, Record(sid, s, k, block))
  BY <1>4, <1>5, ListSteps DEF Record
<1> QED BY <1>1, <1>6, ListSteps DEF Audio, AudioTo

----------------------------------------------------------------------------
\* Every operation leaves networks that say what they are known by.

\* A sound value has one.
LEMMA SoundLists == ASSUME NEW v, Sound(v) PROVE Lists(v) /\ Listed(v) /\ IsList(v.calls)
BY DEF Sound, Good, Listed, Lists

\* A stream that ends, or moves.
LEMMA PruneCharts ==
  ASSUME NEW v, NEW sid, NEW retune, NEW f
  PROVE  Charts(v, Prune(v, sid, retune)) /\ Charts(v, [Prune(v, sid, retune) EXCEPT !.sess = f])
<1>1. Charts(v, Prune(v, sid, retune))
  <2> SUFFICES ASSUME Charted(v) PROVE Charted(Prune(v, sid, retune)) BY DEF Charts
  <2> PICK dead \in SUBSET {k \in DOMAIN v.nets : Droppable(v, sid, k, retune)} :
             /\ DOMAIN Prune(v, sid, retune) = ModelFields
             /\ DOMAIN Prune(v, sid, retune).nets = DOMAIN v.nets \ dead
             /\ \A k \in DOMAIN v.nets \ dead : Prune(v, sid, retune).nets[k] = v.nets[k]
    BY PruneTakes
  <2> QED BY DEF Charted
<1> DEFINE w == Prune(v, sid, retune)
<1>2. Charts(w, [w EXCEPT !.sess = f])
  <2>1. Calm(w, [w EXCEPT !.sess = f]) BY ElseCalm
  <2> HIDE DEF w
  <2> QED BY <2>1, CalmSteps
<1> HIDE DEF w
<1>3. Charts(v, w) BY <1>1 DEF w
<1>4. Charts(v, [w EXCEPT !.sess = f]) BY <1>2, <1>3, CalmSteps
<1> QED BY <1>1, <1>4 DEF w

\* The networks always do.
THEOREM NetworksCharted == Spec => []Charted(m)
<1>1. Init => Charted(m)
  <2>1. DOMAIN EmptyModel = ModelFields /\ EmptyModel.nets = <<>> BY DEF EmptyModel, ModelFields
  <2> QED BY <2>1 DEF Init, Charted
<1>2. Charted(m) /\ Sound(m) /\ [Next]_vars => Charted(m)'
  <2> SUFFICES ASSUME Charted(m), Sound(m), [Next]_vars PROVE Charted(m') OBVIOUS
  <2>0. Lists(m) /\ Listed(m) /\ IsList(m.calls) BY SoundLists
  <2> DEFINE Ends(sid) == CloseSessionCalls(m, sid)
  <2>01. \A sid, f : Charted([Ends(sid) EXCEPT !.sess = f]) /\ Charted(Ends(sid))
    <3>1. \A sid : SameNets(m, Ends(sid)) BY <2>0, EndSame
    <3> HIDE DEF Ends
    <3> QED BY <3>1, ElseCalm, CalmSteps, ZenonT(60) DEF Charts
  <2> HIDE DEF Ends
  <2>02. \A sid, retune, f : /\ Charted(Prune(Ends(sid), sid, retune))
                             /\ Charted([Prune(Ends(sid), sid, retune) EXCEPT !.sess = f])
    BY <2>01, PruneCharts DEF Charts
  <2>1. CASE Tick BY <2>1 DEF Tick
  <2>2. CASE StartAudio
    <3> DEFINE a == [m EXCEPT !.store = Enable(@, now)]
    <3>1. m' = Reconcile(a) BY <2>2 DEF StartAudio, Becomes
    <3>2. CalmList(m, a) BY SetsList
    <3> HIDE DEF a
    <3>3. CalmList(m, Reconcile(a)) BY <3>2, ReconcileCalm, ListSteps
    <3> QED BY <2>0, <3>1, <3>3, ListSteps DEF SameNets
  <2>3. CASE StopAudio
    <3>1. PICK f : m' = [m EXCEPT !.store = Disable(@), !.sess = f] BY <2>3 DEF StopAudio, Becomes
    <3> QED BY <3>1, SMTT(30) DEF Charted, ModelFields
  <2>4. CASE \E withAudio \in BOOLEAN : Clear(withAudio)
    <3>1. m' = Forget(m) \/ m' = [Forget(m) EXCEPT !.store = RemoveAll(@)] BY <2>4 DEF Clear, Becomes
    <3>2. DOMAIN Forgotten(m) = ModelFields /\ Forgotten(m).nets = <<>> BY DEF Forgotten, Charted, ModelFields
    <3>3. DOMAIN Forget(m) = ModelFields /\ Forget(m).nets = <<>> BY <3>2 DEF Forget, ModelFields
    <3>4. DOMAIN m' = ModelFields /\ m'.nets = <<>> BY <3>1, <3>3 DEF ModelFields
    <3> QED BY <3>4 DEF Charted
  <2>5. ASSUME NEW sid \in Sessions, BeginStream(sid) PROVE Charted(m')
    <3>1. PICK f : m' = [Prune(Ends(sid), sid, FALSE) EXCEPT !.sess = f]
      BY <2>5 DEF BeginStream, Becomes, Started, Ends
    <3> QED BY <2>02, <3>1
  <2>6. ASSUME NEW sid \in Sessions, Retune(sid) PROVE Charted(m')
    <3>1. PICK f : m' = [Prune(Ends(sid), sid, TRUE) EXCEPT !.sess = f]
      BY <2>6 DEF Retune, Becomes, Moved, Ends
    <3> QED BY <2>02, <3>1
  <2>7. ASSUME NEW sid \in Sessions, EndStream(sid) PROVE Charted(m')
    <3>1. PICK f : m' = Prune([Ends(sid) EXCEPT !.sess = f], sid, FALSE)
      BY <2>7 DEF EndStream, Becomes, Ends
    <3> QED BY <2>01, <3>1, PruneCharts DEF Charts
  <2>8. ASSUME NEW sid \in Sessions, RemoveSession(sid) PROVE Charted(m')
    <3>1. PICK f : m' = [Prune(Ends(sid), sid, FALSE) EXCEPT !.sess = f]
      BY <2>8 DEF RemoveSession, Becomes, Ends
    <3> QED BY <2>02, <3>1
  <2>9. ASSUME NEW sid \in Sessions, IngestLine(sid) PROVE Charted(m')
    <3>1. PICK line : m' = Ingest(m, sid, line, now) BY <2>9 DEF IngestLine, Hears
    <3> QED BY <2>0, <3>1, IngestCharts DEF Charts
  <2>10. ASSUME NEW sid \in Sessions, HearAudio(sid) PROVE Charted(m')
    <3>1. PICK block : m' = Audio(sid, block.slot, block) BY <2>10 DEF HearAudio, Hears
    <3>2. CalmList(m, Audio(sid, block.slot, block)) BY AudioCalm
    <3> QED BY <2>0, <3>1, <3>2, ListSteps DEF SameNets
  <2>11. CASE UNCHANGED vars BY <2>11 DEF vars
  <2> QED BY <2>1, <2>2, <2>3, <2>4, <2>5, <2>6, <2>7, <2>8, <2>9, <2>10, <2>11 DEF Next
<1> QED BY <1>1, <1>2, RecordingsSound, PTL DEF Spec

\* A stream that ends or starts over takes no identified network along, unless
\* one with all its ids remains, or two with the very same ids, which cover each
\* other and have all of its, went together (prune_session_locked).
THEOREM NetworksStay == Spec => KnowledgeStays
<1>1. Charted(m) /\ Sound(m) /\ [Next]_vars => EndsKnowing
  <2> SUFFICES ASSUME Charted(m), Sound(m), NEW sid \in Sessions,
                      BeginStream(sid) \/ EndStream(sid) \/ RemoveSession(sid),
                      NEW n \in DOMAIN m.nets, m.nets[n].conf = "strong", Lost(n)
               PROVE  RemainsKnown(n)
    BY DEF EndsKnowing, RemainsKnown
  <2> DEFINE a == CloseSessionCalls(m, sid)
  <2>1. SameNets(m, a) BY SoundLists, EndSame
  <2>2. \E f, g : \/ m' = [Prune(a, sid, FALSE) EXCEPT !.sess = f]
                  \/ m' = Prune([a EXCEPT !.sess = g], sid, FALSE)
    BY DEF BeginStream, Started, EndStream, RemoveSession, Becomes
  <2> HIDE DEF a
  <2>3. PICK f, g : \/ m' = [Prune(a, sid, FALSE) EXCEPT !.sess = f]
                    \/ m' = Prune([a EXCEPT !.sess = g], sid, FALSE)
    BY <2>2
  <2>4. \E v : SameNets(m, v) /\ Charted(v) /\ m'.nets = Prune(v, sid, FALSE).nets
    <3>1. CASE m' = [Prune(a, sid, FALSE) EXCEPT !.sess = f]
      <4>1. Charted(a) BY <2>1 DEF SameNets
      <4>2. DOMAIN Prune(a, sid, FALSE) = ModelFields BY <4>1, PruneTakes
      <4>3. m'.nets = Prune(a, sid, FALSE).nets BY <3>1, <4>2 DEF ModelFields
      <4> QED BY <2>1, <4>1, <4>3
    <3>2. CASE m' = Prune([a EXCEPT !.sess = g], sid, FALSE)
      <4> DEFINE b == [a EXCEPT !.sess = g]
      <4>1. Calm(a, b) BY ElseCalm
      <4>2. m'.nets = Prune(b, sid, FALSE).nets BY <3>2
      <4> HIDE DEF b
      <4>3. SameNets(m, b) BY <2>1, <4>1, CalmSteps
      <4>4. Charted(b) BY <4>3 DEF SameNets
      <4> QED BY <4>2, <4>3, <4>4
    <3> QED BY <2>3, <3>1, <3>2
  <2>5. PICK v : SameNets(m, v) /\ Charted(v) /\ m'.nets = Prune(v, sid, FALSE).nets BY <2>4
  <2>6. PICK dead \in SUBSET {k \in DOMAIN v.nets : Droppable(v, sid, k, FALSE)} :
              /\ DOMAIN Prune(v, sid, FALSE).nets = DOMAIN v.nets \ dead
              /\ \A k \in DOMAIN v.nets \ dead : Prune(v, sid, FALSE).nets[k] = v.nets[k]
    BY <2>5, PruneTakes
  <2>7. /\ DOMAIN m'.nets = DOMAIN v.nets \ dead
        /\ \A k \in DOMAIN v.nets \ dead : m'.nets[k] = v.nets[k]
    BY <2>5, <2>6
  <2>8. /\ DOMAIN v.nets = DOMAIN m.nets
        /\ \A k \in DOMAIN m.nets : v.nets[k].ids = m.nets[k].ids /\ v.nets[k].conf = m.nets[k].conf
    BY <2>5 DEF SameNets
  <2>9. \A k \in DOMAIN m.nets : NamesIn(v, k) = Names(k) BY <2>8 DEF NamesIn, Names
  <2>10. \A k \in dead : Strong(v, k) => Covered(v, k) BY DEF Droppable, Identified, Strong
  <2>11. n \in dead /\ Strong(v, n) BY <2>7, <2>8 DEF Lost, Strong
  <2>12. dead \in SUBSET DOMAIN v.nets OBVIOUS
  <2>13. \/ \E o \in DOMAIN v.nets \ dead : Carries(NamesIn(v, o), NamesIn(v, n))
         \/ \E o, p \in dead : o # p /\ NamesIn(v, o) = NamesIn(v, p) /\ Carries(NamesIn(v, o), NamesIn(v, n))
    BY <2>10, <2>11, <2>12, CoverRemains
  <2>14. ASSUME NEW o \in DOMAIN v.nets \ dead, Carries(NamesIn(v, o), NamesIn(v, n))
         PROVE  RemainsKnown(n)
    <3>1. Carries(m'.nets[o].ids, NamesIn(v, n)) BY <2>7, <2>14 DEF Carries, NamesIn, Only, Restrict
    <3> QED BY <2>7, <2>9, <3>1 DEF RemainsKnown
  <2>15. ASSUME NEW o \in dead, NEW p \in dead, o # p, NamesIn(v, o) = NamesIn(v, p),
                Carries(NamesIn(v, o), NamesIn(v, n))
         PROVE  RemainsKnown(n)
    <3>1. o \in DOMAIN m.nets /\ p \in DOMAIN m.nets /\ Lost(o) /\ Lost(p) BY <2>7, <2>8 DEF Lost
    <3>2. Names(o) = Names(p) /\ Carries(Names(o), Names(n)) BY <2>9, <2>15, <3>1
    <3> QED BY <2>15, <3>1, <3>2 DEF RemainsKnown
  <2> QED BY <2>13, <2>14, <2>15
<1>2. Charted(m) /\ Sound(m) /\ [Next]_vars => [EndsKnowing]_vars BY <1>1
<1> QED BY <1>2, NetworksCharted, RecordingsSound, PTL DEF Spec, KnowledgeStays

----------------------------------------------------------------------------
\* Who speaks, and what is counted.

\* Nothing of a call changed.
Still(v, w) == DOMAIN v = ModelFields => DOMAIN w = ModelFields /\ w.calls = v.calls
\* The calls are a list.
Shaped(v) ==
  /\ DOMAIN v = ModelFields /\ IsList(v.calls)
  /\ \A i \in DOMAIN v.calls : DOMAIN v.calls[i] = CallFields /\ v.calls[i].id # 0

\* l is the call k, with the same ends, and counted if that was; it may be over.
SameTalk(k, l) ==
  l.id = k.id /\ l.src = k.src /\ l.tgt = k.tgt /\ l.counted = k.counted /\ (l.open => k.open)
Repeats(v, l) == \E j \in DOMAIN v.calls : SameTalk(v.calls[j], l)
\* A call whose talker was never read, and counted only if it is over.
NoTalk(k) == k.src = Nobody /\ ~(k.open /\ k.counted)
\* Every call was there, and says the same.
Echo(v, w) == Shaped(v) => Shaped(w) /\ \A i \in DOMAIN w.calls : Repeats(v, w.calls[i])
\* ... or nobody speaks in it.
Quiet(v, w) ==
  Shaped(v) => Shaped(w) /\ \A i \in DOMAIN w.calls : NoTalk(w.calls[i]) \/ Repeats(v, w.calls[i])

\* One after another, and what is the weaker.
LEMMA EchoSteps ==
  ASSUME NEW u, NEW v, NEW w
  PROVE  /\ Still(v, v) /\ Echo(v, v) /\ Quiet(v, v)
         /\ Still(u, v) /\ Still(v, w) => Still(u, w)
         /\ Echo(u, v) /\ Echo(v, w) => Echo(u, w)
         /\ Quiet(u, v) /\ Quiet(v, w) => Quiet(u, w)
         /\ Still(v, w) => Echo(v, w)
         /\ Echo(v, w) => Quiet(v, w)
<1>1. Still(v, v) /\ Echo(v, v) /\ Quiet(v, v) BY DEF Still, Echo, Quiet, Repeats, SameTalk
<1>2. Still(u, v) /\ Still(v, w) => Still(u, w) BY DEF Still
<1>3. Echo(u, v) /\ Echo(v, w) => Echo(u, w) BY DEF Echo, Repeats, SameTalk
<1>4. Quiet(u, v) /\ Quiet(v, w) => Quiet(u, w) BY DEF Quiet, Repeats, SameTalk, NoTalk
<1>5. Still(v, w) => Echo(v, w) BY DEF Still, Echo, Shaped, Repeats, SameTalk
<1>6. Echo(v, w) => Quiet(v, w) BY DEF Echo, Quiet
<1> QED BY <1>1, <1>2, <1>3, <1>4, <1>5, <1>6

\* What is kept of anything else.
LEMMA ElseStill ==
  ASSUME NEW v, NEW f
  PROVE  /\ Still(v, [v EXCEPT !.sess = f]) /\ Still(v, [v EXCEPT !.exists = f])
         /\ Still(v, [v EXCEPT !.tgs = f]) /\ Still(v, [v EXCEPT !.radios = f])
         /\ Still(v, [v EXCEPT !.nets = f]) /\ Still(v, [v EXCEPT !.next = f])
         /\ Still(v, [v EXCEPT !.quality = f]) /\ Still(v, [v EXCEPT !.store = f])
         /\ Still(v, [v EXCEPT !.keeps = f])
BY DEF Still, ModelFields

\* Radios and talkgroups, and a network's count.
LEMMA RadiosStill ==
  ASSUME NEW v, NEW r, NEW net, NEW t, NEW k
  PROVE  /\ Still(v, TouchRadio(v, r, net, t)) /\ Still(v, CalledBy(v, k, t))
         /\ Still(v, CountTarget(v, k, t)) /\ Still(v, CountNetwork(v, net))
<1>1. \A x, u : Still(u, EnsureRadio(u, x, t)) BY ElseStill DEF EnsureRadio
<1>2. \A x, u : Still(u, EnsureTalkgroup(u, x, t)) BY ElseStill DEF EnsureTalkgroup
<1>3. \E f : TouchRadio(v, r, net, t) = [EnsureRadio(v, r, t) EXCEPT !.radios = f]
  BY DEF TouchRadio
<1>4. Still(v, TouchRadio(v, r, net, t)) BY <1>1, <1>3, ElseStill, EchoSteps
<1>5. \A u : Still(u, CalledBy(u, k, t))
  <2> TAKE u
  <2>1. \E f : CalledBy(u, k, t) = [EnsureRadio(u, k.tgt, t) EXCEPT !.radios = f]
    BY DEF CalledBy
  <2> QED BY <1>1, <2>1, ElseStill, EchoSteps
<1>6. Still(v, CountPeer(v, k, t))
  <2> DEFINE a == [v EXCEPT !.radios[k.src].peers = Bump(@, k.tgt)]
  <2>1. Still(v, a) BY DEF Still, ModelFields
  <2> HIDE DEF a
  <2>2. Still(a, CalledBy(a, k, t)) BY <1>5
  <2>3. Still(v, CalledBy(a, k, t)) BY <2>1, <2>2, EchoSteps
  <2> QED BY <2>3, EchoSteps DEF CountPeer, a
<1>7. Still(v, CountGroup(v, k, t))
  <2> DEFINE a == IF k.src = Nobody THEN v ELSE [v EXCEPT !.radios[k.src].tgs = Bump(@, k.tgt)]
             b == EnsureTalkgroup(a, k.tgt, t)
  <2>1. Still(v, a) BY DEF Still, ModelFields
  <2>2. \E f : CountGroup(v, k, t) = [b EXCEPT !.tgs = f] BY DEF CountGroup
  <2> HIDE DEF a
  <2>3. Still(a, b) BY <1>2
  <2> HIDE DEF b
  <2> QED BY <2>1, <2>2, <2>3, ElseStill, EchoSteps
<1>8. Still(v, CountNetwork(v, net)) BY DEF CountNetwork, Still, ModelFields
<1> QED BY <1>4, <1>5, <1>6, <1>7, <1>8 DEF CountTarget

\* A call's record that is one of the list's, or none's.
Says(v, l) ==
  Shaped(v) => /\ "id" \in DOMAIN l
               /\ \/ \A j \in DOMAIN v.calls : v.calls[j].id # l.id
                  \/ DOMAIN l = CallFields /\ Repeats(v, l)
\* The record changed in what is not about its ends.
Like(k, l) ==
  /\ DOMAIN l = DOMAIN k
  /\ "id" \in DOMAIN k => l.id = k.id
  /\ DOMAIN k = CallFields => SameTalk(k, l)

\* The call that is found is one of the list's.
LEMMA FoundCall ==
  ASSUME NEW v, NEW id, Shaped(v)
  PROVE  \/ FindCall(v, id) = NoCall /\ \A j \in DOMAIN v.calls : v.calls[j].id # id
         \/ \E j \in DOMAIN v.calls : v.calls[j].id = id /\ FindCall(v, id) = v.calls[j]
<1> PICK n \in Nat : DOMAIN v.calls = 1..n BY DEF Shaped, IsList
<1> DEFINE at == {i \in DOMAIN v.calls : v.calls[i].id = id}
<1>1. at = {} => FindCall(v, id) = NoCall BY DEF FindCall
<1>2. at # {} => Max(at) \in at
  <2>1. at \subseteq 1..n OBVIOUS
  <2> HIDE DEF at
  <2> QED BY <2>1, Greatest
<1>3. at # {} => FindCall(v, id) = v.calls[Max(at)] BY DEF FindCall
<1> QED BY <1>1, <1>2, <1>3

\* ... and says what that says.
LEMMA FindSays == ASSUME NEW v, NEW id PROVE Says(v, FindCall(v, id))
<1>0. "id" \in DOMAIN NoCall /\ NoCall.id = 0 BY DEF NoCall
<1> SUFFICES ASSUME Shaped(v) PROVE Says(v, FindCall(v, id)) BY DEF Says
<1>1. CASE FindCall(v, id) = NoCall BY <1>0, <1>1 DEF Says, Shaped
<1>2. ASSUME NEW j \in DOMAIN v.calls, FindCall(v, id) = v.calls[j] PROVE Says(v, FindCall(v, id))
  <2>1. DOMAIN v.calls[j] = CallFields BY DEF Shaped
  <2>2. Repeats(v, v.calls[j]) BY DEF Repeats, SameTalk
  <2> QED BY <1>2, <2>1, <2>2 DEF Says, CallFields
<1> QED BY <1>1, <1>2, FoundCall

\* A record changed in what is not about its ends still says the same.
LEMMA LikeSays == ASSUME NEW v, NEW k, NEW l, Says(v, k), Like(k, l) PROVE Says(v, l)
BY DEF Says, Like, Repeats, SameTalk

\* A call's record put into the list.
LEMMA PutIn ==
  ASSUME NEW v, NEW l, Shaped(v), Has(v, l.id) => DOMAIN l = CallFields
  PROVE  /\ Shaped(SetCall(v, l)) /\ DOMAIN SetCall(v, l).calls = DOMAIN v.calls
         /\ \A i \in DOMAIN v.calls :
              SetCall(v, l).calls[i] = IF v.calls[i].id = l.id THEN l ELSE v.calls[i]
<1> PICK n \in Nat : DOMAIN v.calls = 1..n BY DEF Shaped, IsList
<1> DEFINE c == [i \in 1..n |-> IF v.calls[i].id = l.id THEN l ELSE v.calls[i]]
           w == SetCall(v, l)
<1>1. w.calls = c /\ DOMAIN w = ModelFields BY DEF SetCall, Shaped, ModelFields
<1> HIDE DEF w
<1>2. IsList(w.calls) BY <1>1 DEF IsList
<1>3. \A i \in DOMAIN w.calls : DOMAIN w.calls[i] = CallFields /\ w.calls[i].id # 0
  BY <1>1 DEF Shaped, Has
<1>4. Shaped(w) BY <1>1, <1>2, <1>3 DEF Shaped
<1> QED BY <1>1, <1>4 DEF w

\* A call of the list that still says the same.
LEMMA SetEcho ==
  ASSUME NEW v, NEW l, Says(v, l)
  PROVE  Echo(v, SetCall(v, l)) /\ (Shaped(v) => Says(SetCall(v, l), l))
<1> SUFFICES ASSUME Shaped(v) PROVE Echo(v, SetCall(v, l)) /\ Says(SetCall(v, l), l) BY DEF Echo
<1> DEFINE w == SetCall(v, l)
<1>1. Has(v, l.id) => DOMAIN l = CallFields /\ Repeats(v, l) BY DEF Says, Has
<1>2. /\ Shaped(w) /\ DOMAIN w.calls = DOMAIN v.calls
      /\ \A i \in DOMAIN v.calls : w.calls[i] = IF v.calls[i].id = l.id THEN l ELSE v.calls[i]
  BY <1>1, PutIn
<1> HIDE DEF w
<1>3. \A i \in DOMAIN w.calls : Repeats(v, w.calls[i])
  <2> TAKE i \in DOMAIN w.calls
  <2>1. Repeats(v, v.calls[i]) BY <1>2 DEF Repeats, SameTalk
  <2>2. v.calls[i].id = l.id => Repeats(v, l) BY <1>1, <1>2 DEF Has
  <2> QED BY <1>2, <2>1, <2>2
<1>4. Says(w, l)
  <2> SUFFICES ASSUME NEW j \in DOMAIN w.calls, w.calls[j].id = l.id
               PROVE  DOMAIN l = CallFields /\ Repeats(w, l)
    BY DEF Says
  <2>1. v.calls[j].id = l.id /\ w.calls[j] = l BY <1>2
  <2>2. DOMAIN l = CallFields BY <1>1, <1>2, <2>1 DEF Has
  <2> QED BY <2>1, <2>2 DEF Repeats, SameTalk
<1> QED BY <1>2, <1>3, <1>4 DEF Echo, w

\* Its keep flag is set.
LEMMA KeepEcho ==
  ASSUME NEW v, NEW k, NEW on, Says(v, k)
  PROVE  Echo(v, SetKeep(v, k, on))
<1> DEFINE l == [k EXCEPT !.keep = on]
           a == SetCall(v, l)
<1>1. Like(k, l) BY DEF Like, SameTalk, CallFields
<1>2. SetKeep(v, k, on) = IF k.keep = on THEN v ELSE [a EXCEPT !.keeps = Append(@, <<k.id, on>>)]
  BY DEF SetKeep
<1> HIDE DEF l
<1>3. Echo(v, a) BY <1>1, LikeSays, SetEcho
<1> HIDE DEF a
<1>4. Still(a, [a EXCEPT !.keeps = Append(@, <<k.id, on>>)]) BY ElseStill
<1>5. Echo(v, [a EXCEPT !.keeps = Append(@, <<k.id, on>>)])
  BY <1>3, <1>4, EchoSteps, ZenonT(60)
<1> QED BY <1>2, <1>5, EchoSteps

----------------------------------------------------------------------------
\* What counting a call does to the calls.

\* The same call on the same network, as another may be.
Sight(k, l) ==
  /\ l.id = k.id /\ l.session = k.session /\ l.net = k.net /\ l.src = k.src /\ l.tgt = k.tgt
  /\ l.priv = k.priv /\ l.open = k.open /\ l.last = k.last
\* The calls are the same, and as many are counted.
Noted(v, w) ==
  Shaped(v) => /\ Shaped(w)
               /\ \A i \in DOMAIN w.calls : \E j \in DOMAIN v.calls :
                    Sight(v.calls[j], w.calls[i]) /\ w.calls[i].counted = v.calls[j].counted
\* ... and one call more.
Counting(v, w, id) ==
  Shaped(v) => /\ Shaped(w)
               /\ \A i \in DOMAIN w.calls : \E j \in DOMAIN v.calls :
                    /\ Sight(v.calls[j], w.calls[i])
                    /\ w.calls[i].id = id => w.calls[i].counted
                    /\ w.calls[i].id # id => w.calls[i].counted = v.calls[j].counted

\* Before and after other steps.
LEMMA NotedSteps ==
  ASSUME NEW u, NEW v, NEW w, NEW id
  PROVE  /\ Noted(v, v) /\ (Still(v, w) => Noted(v, w))
         /\ Noted(u, v) /\ Noted(v, w) => Noted(u, w)
         /\ Noted(v, w) => Echo(v, w)
         /\ Counting(u, v, id) /\ Noted(v, w) => Counting(u, w, id)
<1>1. Noted(v, v) /\ (Still(v, w) => Noted(v, w)) BY DEF Noted, Still, Shaped, Sight
<1>2. Noted(u, v) /\ Noted(v, w) => Noted(u, w) BY DEF Noted, Sight
<1>3. Noted(v, w) => Echo(v, w) BY DEF Noted, Echo, Repeats, SameTalk, Sight
<1>4. Counting(u, v, id) /\ Noted(v, w) => Counting(u, w, id) BY DEF Noted, Counting, Sight
<1> QED BY <1>1, <1>2, <1>3, <1>4

\* A counted call's key (note_enc_counts).
LEMMA NoteKeyNoted == ASSUME NEW v, NEW id PROVE Noted(v, NoteKey(v, id))
<1> DEFINE k == FindCall(v, id)
           l == [k EXCEPT !.keyNoted = TRUE]
           u == SetCall(v, l)
<1>1. NoteKey(v, id) = v \/ Still(u, NoteKey(v, id))
  BY Zenon DEF NoteKey, Still, ModelFields
<1>2. Noted(v, u)
  <2> SUFFICES ASSUME Shaped(v) PROVE Noted(v, u) BY DEF Noted
  <2>1. CASE k = NoCall
    <3>1. l.id = 0 BY <2>1 DEF NoCall
    <3>2. ~Has(v, l.id) BY <3>1 DEF Has, Shaped
    <3> HIDE DEF l
    <3>3. /\ Shaped(u) /\ DOMAIN u.calls = DOMAIN v.calls
          /\ \A i \in DOMAIN v.calls : u.calls[i] = v.calls[i]
      BY <3>2, PutIn DEF Has
    <3> QED BY <3>3 DEF Noted, Sight
  <2>2. ASSUME NEW j \in DOMAIN v.calls, k = v.calls[j] PROVE Noted(v, u)
    <3>1. DOMAIN k = CallFields BY <2>2 DEF Shaped
    <3>2. DOMAIN l = CallFields /\ Sight(k, l) /\ l.counted = k.counted BY <3>1 DEF Sight, CallFields
    <3> HIDE DEF l
    <3>3. /\ Shaped(u) /\ DOMAIN u.calls = DOMAIN v.calls
          /\ \A i \in DOMAIN v.calls : u.calls[i] = IF v.calls[i].id = l.id THEN l ELSE v.calls[i]
      BY <3>2, PutIn
    <3> HIDE DEF u, k
    <3> QED BY <2>2, <3>2, <3>3 DEF Noted, Sight
  <2> QED BY <2>1, <2>2, FoundCall
<1> HIDE DEF u
<1> QED BY <1>1, <1>2, NotedSteps

\* A call is counted (count_call).
LEMMA CountsCall == ASSUME NEW v, NEW id, NEW t PROVE Counting(v, CountCall(v, id, t), id)
<1> SUFFICES ASSUME Shaped(v) PROVE Counting(v, CountCall(v, id, t), id) BY DEF Counting
<1> DEFINE k == FindCall(v, id)
           l == [k EXCEPT !.counted = TRUE]
           u == SetCall(v, l)
           x == TouchRadio(u, l.src, l.net, t)
           a == CountTalker(v, l, t)
           b == CountTarget(a, l, t)
           c == CountNetwork(b, l.net)
<1>1. CountCall(v, id, t) = NoteKey(c, id) BY DEF CountCall, CountFor
<1>2. Still(u, a)
  <2>1. Still(u, x) BY RadiosStill
  <2>2. a = IF l.src = Nobody THEN u ELSE [x EXCEPT !.radios[l.src].calls = @ + 1] BY DEF CountTalker
  <2> HIDE DEF u, x, l
  <2>3. Still(x, [x EXCEPT !.radios[l.src].calls = @ + 1]) BY DEF Still, ModelFields
  <2> HIDE DEF a
  <2> QED BY <2>1, <2>2, <2>3, EchoSteps
<1>3. Still(a, b) BY RadiosStill
<1>4. Still(b, c) BY RadiosStill
<1>5. Counting(v, u, id)
  <2>1. CASE k = NoCall /\ \A j \in DOMAIN v.calls : v.calls[j].id # id
    <3>1. l.id = 0 BY <2>1 DEF NoCall
    <3>2. ~Has(v, l.id) BY <3>1 DEF Has, Shaped
    <3> HIDE DEF l
    <3>3. /\ Shaped(u) /\ DOMAIN u.calls = DOMAIN v.calls
          /\ \A i \in DOMAIN v.calls : u.calls[i] = v.calls[i]
      BY <3>2, PutIn DEF Has
    <3> HIDE DEF u
    <3> QED BY <2>1, <3>3 DEF Counting, Sight
  <2>2. ASSUME NEW j \in DOMAIN v.calls, v.calls[j].id = id, k = v.calls[j] PROVE Counting(v, u, id)
    <3>1. DOMAIN k = CallFields BY <2>2 DEF Shaped
    <3>2. DOMAIN l = CallFields /\ Sight(k, l) /\ l.counted = TRUE BY <3>1 DEF Sight, CallFields
    <3> HIDE DEF l
    <3>3. /\ Shaped(u) /\ DOMAIN u.calls = DOMAIN v.calls
          /\ \A i \in DOMAIN v.calls : u.calls[i] = IF v.calls[i].id = l.id THEN l ELSE v.calls[i]
      BY <3>2, PutIn
    <3>4. l.id = id BY <2>2, <3>2 DEF Sight
    <3> HIDE DEF u, k
    <3>5. \A i \in DOMAIN u.calls : \E p \in DOMAIN v.calls :
                    /\ Sight(v.calls[p], u.calls[i])
                    /\ u.calls[i].id = id => u.calls[i].counted
                    /\ u.calls[i].id # id => u.calls[i].counted = v.calls[p].counted
      <4> TAKE i \in DOMAIN u.calls
      <4>1. CASE v.calls[i].id = id BY <2>2, <3>2, <3>3, <3>4, <4>1
      <4>2. CASE v.calls[i].id # id BY <3>3, <3>4, <4>2 DEF Sight
      <4> QED BY <4>1, <4>2
    <3> QED BY <3>3, <3>5 DEF Counting
  <2> QED BY <2>1, <2>2, FoundCall
<1> HIDE DEF u, a, b, c
<1>6. Noted(c, NoteKey(c, id)) BY NoteKeyNoted
<1>7. Still(u, c) BY <1>2, <1>3, <1>4, EchoSteps
<1>8. Noted(u, NoteKey(c, id)) BY <1>6, <1>7, NotedSteps
<1> QED BY <1>1, <1>5, <1>8, NotedSteps

----------------------------------------------------------------------------
\* Closing calls.

\* What a record says of the list does not depend on the rest.
LEMMA StillSays ==
  ASSUME NEW v, NEW w, NEW l, Shaped(v), Still(v, w), Says(v, l)
  PROVE  Shaped(w) /\ Says(w, l)
BY DEF Shaped, Still, Says, Repeats

\* The call with an id is over, and this was its talker.
Ceased(v, id, r) ==
  \A j \in DOMAIN v.calls : v.calls[j].id = id => ~v.calls[j].open /\ v.calls[j].src = r

\* A call ends, with or without its recording.
LEMMA ShutEcho ==
  ASSUME NEW v, Shaped(v), NEW i \in DOMAIN v.calls, NEW k, k = v.calls[i], NEW drop
  PROVE  Echo(v, ShutCall(v, k, drop)) /\ Ceased(ShutCall(v, k, drop), k.id, k.src)
<1> DEFINE l == [k EXCEPT !.open = FALSE,
                    !.qual = IF k.id \in DOMAIN v.quality THEN v.quality[k.id] ELSE @,
                    !.audio = IF drop THEN NoFile ELSE @,
                    !.samples = IF drop THEN 0 ELSE @]
           a == SetCall(v, l)
           q == Without(a.quality, {k.id})
           s == IF k.audio = NoFile THEN a.store ELSE IF drop THEN Discard(a.store, k.audio) ELSE Finish(a.store, k.audio)
           b == [[a EXCEPT !.quality = q] EXCEPT !.store = s]
           c == SetKeep(b, l, FALSE)
<1>1. ShutCall(v, k, drop) = IF drop THEN c ELSE b BY Zenon DEF ShutCall
<1>2. DOMAIN k = CallFields /\ k.id # 0 BY DEF Shaped
<1>3. DOMAIN l = CallFields /\ Like(k, l) /\ ~l.open /\ l.src = k.src /\ l.id = k.id
  BY <1>2 DEF Like, SameTalk, CallFields
<1>4. Says(v, k) BY <1>2 DEF Says, Repeats, SameTalk, CallFields
<1> HIDE DEF l
<1>5. Says(v, l) BY <1>3, <1>4, LikeSays
<1>6. Echo(v, a) /\ Shaped(a) /\ Says(a, l) BY <1>5, SetEcho DEF Echo
<1>7. Ceased(a, k.id, k.src)
  <2>1. /\ DOMAIN a.calls = DOMAIN v.calls
        /\ \A j \in DOMAIN v.calls : a.calls[j] = IF v.calls[j].id = l.id THEN l ELSE v.calls[j]
    BY <1>3, PutIn
  <2> HIDE DEF a
  <2> QED BY <1>3, <2>1 DEF Ceased
<1> HIDE DEF a, q, s
<1>8. Still(a, b) BY ElseStill, EchoSteps
<1> HIDE DEF b
<1>9. Shaped(b) /\ Says(b, l) BY <1>6, <1>8, StillSays
<1>10. Echo(b, c) BY <1>9, KeepEcho
<1> HIDE DEF c
<1>11. \A x, y : Shaped(x) /\ Echo(x, y) /\ Ceased(x, k.id, k.src) => Ceased(y, k.id, k.src)
  BY DEF Echo, Ceased, Repeats, SameTalk
<1>12. Echo(a, b) BY <1>8, EchoSteps
<1>13. Ceased(b, k.id, k.src) BY <1>6, <1>7, <1>11, <1>12
<1>14. Ceased(c, k.id, k.src) BY <1>9, <1>10, <1>11, <1>13
<1>15. Echo(v, b) BY <1>6, <1>12, EchoSteps
<1>16. Echo(v, c) BY <1>10, <1>15, EchoSteps
<1> QED BY <1>1, <1>13, <1>14, <1>15, <1>16

\* A call whose talker was never read is counted when it is over (close_call).
LEMMA CloseQuiet == ASSUME NEW v, NEW id PROVE Quiet(v, CloseCall(v, id))
<1> SUFFICES ASSUME Shaped(v) PROVE Quiet(v, CloseCall(v, id)) BY DEF Quiet
<1> DEFINE k == FindCall(v, id)
<1>1. CASE ~k.open
  <2>1. CloseCall(v, id) = v BY <1>1 DEF CloseCall, CloseOne
  <2> QED BY <2>1, EchoSteps
<1>2. CASE k.open
  <2>1. PICK i \in DOMAIN v.calls : v.calls[i].id = id /\ k = v.calls[i]
    <3>1. k # NoCall BY <1>2 DEF NoCall
    <3> QED BY <3>1, FoundCall
  <2> DEFINE drop == k.audio # NoFile /\ Unwanted(k)
             a == ShutCall(v, k, drop)
             b == CountLate(a, k)
             c == MarkClosed(b, k.id)
  <2>2. CloseCall(v, id) = c BY <1>2 DEF CloseCall, CloseOne
  <2>3. Echo(v, a) /\ Ceased(a, k.id, k.src)
    <3> HIDE DEF drop, k
    <3> QED BY <2>1, ShutEcho
  <2> HIDE DEF a
  <2>4. Shaped(a) BY <2>3 DEF Echo
  <2>5. Quiet(a, b)
    <3>1. CASE b = a BY <3>1, EchoSteps
    <3>2. CASE k.src = Nobody /\ b = CountCall(a, k.id, k.last)
      <4>1. Counting(a, b, k.id) BY <3>2, CountsCall
      <4> HIDE DEF b, k
      <4>2. Shaped(b) BY <2>4, <4>1 DEF Counting
      <4>3. ASSUME NEW p \in DOMAIN b.calls PROVE NoTalk(b.calls[p]) \/ Repeats(a, b.calls[p])
        <5>1. PICK j \in DOMAIN a.calls : /\ Sight(a.calls[j], b.calls[p])
                                          /\ b.calls[p].id # k.id => b.calls[p].counted = a.calls[j].counted
          BY <2>4, <4>1 DEF Counting
        <5>2. CASE b.calls[p].id = k.id BY <2>3, <3>2, <5>1, <5>2 DEF Ceased, Sight, NoTalk
        <5>3. CASE b.calls[p].id # k.id BY <5>1, <5>3 DEF Sight, Repeats, SameTalk
        <5> QED BY <5>2, <5>3
      <4> QED BY <4>2, <4>3 DEF Quiet
    <3> QED BY <3>1, <3>2 DEF CountLate
  <2> HIDE DEF b
  <2>6. \A l : Still(b, MarkTalkgroup(b, l)) BY DEF MarkTalkgroup, Still, ModelFields
  <2>7. Still(b, c) BY <2>6 DEF MarkClosed
  <2> HIDE DEF c
  <2>8. Quiet(b, c) BY <2>7, EchoSteps
  <2>9. Quiet(v, a) BY <2>3, EchoSteps
  <2>10. Quiet(v, b) BY <2>5, <2>9, EchoSteps
  <2> QED BY <2>2, <2>8, <2>10, EchoSteps
<1> QED BY <1>1, <1>2

\* The loop that closes calls.
QuietSoFar(e, a, n) == Quiet(e.m, a)
Hushing == INSTANCE Folding WITH Op <- CloseOn, Good <- QuietSoFar

\* Closing a stream's calls (close_session_calls_locked, expire_locked).
LEMMA CloseAllQuiet == ASSUME NEW v, NEW closing PROVE Quiet(v, CloseAll(v, closing))
<1> SUFFICES ASSUME Shaped(v) PROVE Quiet(v, CloseAll(v, closing)) BY DEF Quiet
<1> PICK n \in Nat : DOMAIN v.calls = 1..n BY DEF Shaped, IsList
<1> DEFINE e == [m |-> v, closing |-> closing]
           ids == [i \in 1..n |-> v.calls[i].id]
<1>1. CloseAll(v, closing) = Hushing!Fold(e, v, ids)
  BY DEF CloseAll, CloseOn, Hushing!Fold, FoldLeft, Hushing!FoldLeft, MapThenFoldSet,
         Hushing!MapThenFoldSet, Max, Hushing!Max
<1>2. QuietSoFar(e, v, 0) BY EchoSteps DEF QuietSoFar
<1>3. ASSUME NEW k \in 1..n, NEW a, QuietSoFar(e, a, k - 1)
      PROVE  QuietSoFar(e, CloseOn(e, a, ids[k]), k)
  <2>1. Quiet(v, a) BY <1>3 DEF QuietSoFar
  <2>2. Quiet(a, CloseCall(a, ids[k])) BY CloseQuiet
  <2>3. Quiet(v, CloseCall(a, ids[k])) BY <2>1, <2>2, EchoSteps
  <2> QED BY <2>1, <2>3 DEF QuietSoFar, CloseOn
<1>4. QuietSoFar(e, Hushing!Fold(e, v, ids), n) BY <1>2, <1>3, Hushing!FoldKeeps
<1> QED BY <1>1, <1>4 DEF QuietSoFar

\* ... which end with their stream, or went quiet.
LEMMA EndQuiet ==
  ASSUME NEW v, NEW sid, NEW t
  PROVE  Quiet(v, CloseSessionCalls(v, sid)) /\ Quiet(v, Expire(v, sid, t))
<1>1. Quiet(v, CloseSessionCalls(v, sid)) BY CloseAllQuiet, EchoSteps DEF CloseSessionCalls
<1>2. ASSUME NEW quiet PROVE Quiet(v, ExpireSlots(v, sid, quiet))
  <2> DEFINE a == CloseAll(v, {v.sess[sid].active[x] : x \in quiet})
  <2>1. Quiet(v, a) BY CloseAllQuiet
  <2> HIDE DEF a
  <2>2. Still(a, [a EXCEPT !.sess[sid].active = Without(@, quiet)]) BY ElseStill
  <2>3. Quiet(a, [a EXCEPT !.sess[sid].active = Without(@, quiet)]) BY <2>2, EchoSteps
  <2>4. Quiet(v, [a EXCEPT !.sess[sid].active = Without(@, quiet)]) BY <2>1, <2>3, EchoSteps
  <2> QED BY <2>4, Zenon DEF ExpireSlots, a
<1> QED BY <1>1, <1>2 DEF Expire

----------------------------------------------------------------------------
\* Opening calls.

\* The calls of a list with ids of its own.
LEMMA ListedShaped == ASSUME NEW v, Listed(v) PROVE Shaped(v)
<1>1. \A i \in DOMAIN v.calls : v.calls[i].id # 0
  <2> TAKE i \in DOMAIN v.calls
  <2>1. v.calls[i].id \in 1..v.next /\ v.next \in Nat BY DEF Listed
  <2> QED BY <2>1
<1> QED BY <1>1 DEF Listed, Shaped

\* One call fewer.
LEMMA DropEcho ==
  ASSUME NEW v, Listed(v), NEW i \in DOMAIN v.calls
  PROVE  Echo(v, DropCall(v, v.calls[i].id))
<1> DEFINE w == DropCall(v, v.calls[i].id)
<1>1. Fewer(v, w, i) BY Drops
<1> HIDE DEF w
<1>2. Listed(w) /\ \A j \in DOMAIN w.calls : Skip(i, j) \in DOMAIN v.calls BY <1>1, OthersRemain
<1>3. \A j \in DOMAIN w.calls : w.calls[j] = v.calls[Skip(i, j)] BY <1>1 DEF Fewer
<1>4. \A j \in DOMAIN w.calls : Repeats(v, w.calls[j]) BY <1>2, <1>3 DEF Repeats, SameTalk
<1> QED BY <1>2, <1>4, ListedShaped DEF Echo, w

\* The oldest call without a recording rolls off.
LEMMA RollOffQuiet == ASSUME NEW v, Good(v) PROVE Quiet(v, RollOff(v))
<1>1. CASE Cardinality(Loose(v)) < MaxCalls BY <1>1, EchoSteps DEF RollOff
<1>2. CASE ~(Cardinality(Loose(v)) < MaxCalls)
  <2> DEFINE i == Min(Loose(v))
             id == v.calls[i].id
             w == CloseCall(v, id)
  <2>1. Loose(v) # {}
    <3>1. Cardinality({}) = 0 BY FS_EmptySet
    <3>2. MaxCalls \in Nat \ {0} BY CallAssumption
    <3> QED BY <1>2, <3>1, <3>2
  <2>2. Loose(v) \subseteq DOMAIN v.calls /\ Loose(v) \subseteq Nat BY DEF Loose, Good, Listed, IsList
  <2>3. i \in DOMAIN v.calls
    <3>1. \E x \in Loose(v) : \A y \in Loose(v) : x <= y BY <2>1, <2>2, Closing!Least
    <3> QED BY <2>2, <3>1 DEF Min
  <2>4. RollOff(v) = DropCall(w, id) BY <1>2 DEF RollOff
  <2> HIDE DEF i
  <2>5. Goes(v, w) /\ Quiet(v, w) BY CloseGoes, CloseQuiet
  <2> HIDE DEF w
  <2>6. i \in DOMAIN w.calls /\ w.calls[i].id = id /\ Listed(w) BY <2>3, <2>5 DEF Goes, Later, Good
  <2>7. Echo(w, DropCall(w, id)) BY <2>6, DropEcho
  <2>8. Quiet(w, DropCall(w, id)) BY <2>7, EchoSteps
  <2> QED BY <2>4, <2>5, <2>8, EchoSteps
<1> QED BY <1>1, <1>2

\* A new call has no talker.
LEMMA AddQuiet ==
  ASSUME NEW v, NEW sid, NEW slot, NEW t, Listed(v) PROVE Quiet(v, AddCall(v, sid, slot, t))
<1> DEFINE id == v.next + 1
           k == [id |-> id, session |-> sid, net |-> v.sess[sid].net, slot |-> slot,
                 src |-> Nobody, tgt |-> Nobody, priv |-> FALSE, voice |-> FALSE, data |-> FALSE,
                 emergency |-> FALSE, encrypted |-> FALSE, kid |-> NoKey, keyNoted |-> FALSE,
                 open |-> TRUE, counted |-> FALSE, audio |-> NoFile, audioSid |-> 0, audioSlot |-> 0,
                 samples |-> 0, keep |-> FALSE, noAudio |-> FALSE, keyed |-> FALSE,
                 start |-> t, last |-> t, txEnd |-> 0, streams |-> 1, qual |-> 0]
           w == AddCall(v, sid, slot, t)
<1>1. DOMAIN k = CallFields /\ k.id = id /\ NoTalk(k) BY DEF CallFields, NoTalk
<1>2. DOMAIN w = ModelFields /\ w.calls = Append(v.calls, k) BY DEF AddCall, Listed, ModelFields
<1> HIDE DEF k, w
<1>3. k.id # 0
  <2>1. v.next \in Nat BY DEF Listed
  <2> QED BY <1>1, <2>1
<1> PICK n \in Nat : DOMAIN v.calls = 1..n BY DEF Listed, IsList
<1> DEFINE s == v.calls
<1>4. /\ IsList(Append(s, k)) /\ DOMAIN Append(s, k) = 1..n + 1
      /\ Append(s, k)[n + 1] = k /\ \A i \in 1..n : Append(s, k)[i] = s[i]
  <2>1. DOMAIN s = 1..n /\ IsList(s) BY DEF Listed
  <2> HIDE DEF s
  <2> QED BY <2>1, Appended
<1>5. /\ IsList(w.calls) /\ DOMAIN w.calls = 1..n + 1 /\ w.calls[n + 1] = k
      /\ \A i \in 1..n : w.calls[i] = v.calls[i]
  BY <1>2, <1>4
<1>6. 1..n + 1 = 1..n \cup {n + 1} OBVIOUS
<1>7. Shaped(v) BY ListedShaped
<1>8. \A i \in DOMAIN w.calls : DOMAIN w.calls[i] = CallFields /\ w.calls[i].id # 0
  BY <1>1, <1>3, <1>5, <1>6, <1>7 DEF Shaped
<1>9. \A i \in DOMAIN w.calls : NoTalk(w.calls[i]) \/ Repeats(v, w.calls[i])
  BY <1>1, <1>5, <1>6 DEF Repeats, SameTalk
<1> QED BY <1>2, <1>5, <1>8, <1>9 DEF Quiet, Shaped, w

\* A call is opened, for which others may end (open_call).
LEMMA OpenQuiet ==
  ASSUME NEW v, NEW sid, NEW slot, NEW t, Good(v) PROVE Quiet(v, OpenCall(v, sid, slot, t))
<1> DEFINE a == EndSlot(v, slot, FreshCall(v, sid, slot, t))
           b == RollOff(a)
           c == AddCall(b, sid, slot, t)
<1>1. OpenCall(v, sid, slot, t) = c BY DEF OpenCall
<1>2. Quiet(v, a) BY CloseQuiet, EchoSteps DEF EndSlot
<1>3. Good(a) BY CloseGoes DEF EndSlot, Goes
<1> HIDE DEF a
<1>4. Quiet(a, b) /\ Good(b) BY <1>3, RollOffQuiet, RollOffGood DEF Fine
<1> HIDE DEF b
<1>5. Quiet(b, c) BY <1>4, AddQuiet DEF Good
<1> HIDE DEF c
<1>6. Quiet(v, b) BY <1>2, <1>4, EchoSteps
<1> QED BY <1>1, <1>5, <1>6, EchoSteps

----------------------------------------------------------------------------
\* What a line does before and beside its call.

\* The stream's network (absorb_identity, resolve_network, merge_network).
LEMMA NetworkEcho ==
  ASSUME NEW v, NEW sid, NEW line, NEW t
  PROVE  /\ Still(v, Absorb(v, sid, line).m) /\ Echo(v, Resolve(v, sid, t))
         /\ Echo(v, Register(v, sid, line, t))
<1>1. \A u : Still(u, Absorb(u, sid, line).m)
  <2> TAKE u
  <2> DEFINE c == [u.sess[sid] EXCEPT !.adjacent = Adjacent(u.sess[sid], line)]
             a == [u EXCEPT !.sess[sid] = c]
  <2>1. Still(u, a) BY ElseStill
  <2>2. \A d, ids : Still(a, NoteNeighbour(a, d, ids))
    <3> HIDE DEF a
    <3> QED BY DEF NoteNeighbour, Still, ModelFields
  <2>3. \A old, s : Still(u, Believe(u, sid, old, s).m) BY ElseStill DEF Believe
  <2>4. \A d, s : Still(u, Learn(u, sid, d, s).m) BY <2>3 DEF Learn
  <2>5. \/ Absorb(u, sid, line).m = a
        \/ Absorb(u, sid, line).m = NoteNeighbour(a, c, line.ids)
        \/ Absorb(u, sid, line).m = Learn(u, sid, c, Seen(c, line.ids)).m
    BY DEF Absorb
  <2> HIDE DEF a, c
  <2>6. Still(u, NoteNeighbour(a, c, line.ids)) BY <2>1, <2>2, EchoSteps
  <2> QED BY <2>1, <2>4, <2>5, <2>6
<1>2. \A u, from, to : Echo(u, MergeNetwork(u, from, to))
  <2> TAKE u, from, to
  <2> DEFINE w == MergeNetwork(u, from, to)
  <2> SUFFICES ASSUME Shaped(u), {from, to} \subseteq DOMAIN u.nets PROVE Echo(u, w)
    BY EchoSteps DEF Echo, MergeNetwork
  <2>1. /\ DOMAIN w = ModelFields
        /\ w.calls = [i \in DOMAIN u.calls |->
             IF u.calls[i].net = from THEN [u.calls[i] EXCEPT !.net = to] ELSE u.calls[i]]
    BY DEF MergeNetwork, Shaped, ModelFields
  <2> HIDE DEF w
  <2>2. IsList(w.calls) /\ DOMAIN w.calls = DOMAIN u.calls BY <2>1 DEF IsList, Shaped
  <2>3. \A i \in DOMAIN u.calls : DOMAIN w.calls[i] = CallFields /\ SameTalk(u.calls[i], w.calls[i])
    BY <2>1 DEF SameTalk, Shaped, CallFields
  <2>4. \A i \in DOMAIN u.calls : w.calls[i].id # 0 BY <2>3 DEF SameTalk, Shaped
  <2> QED BY <2>1, <2>2, <2>3, <2>4 DEF Echo, Shaped, Repeats
<1>3. \A u : Echo(u, Resolve(u, sid, t))
  <2> SUFFICES ASSUME NEW u, NEW id PROVE Echo(u, JoinNetwork(u, sid, id, t)) BY DEF Resolve
  <2> DEFINE a == NameNetwork(u, sid, id, t)
             b == FoldBucket(a, sid, id.key)
  <2>1. Still(u, a) BY DEF NameNetwork, Still, ModelFields
  <2> HIDE DEF a
  <2>2. Echo(a, b) BY <1>2, EchoSteps DEF FoldBucket
  <2> HIDE DEF b
  <2>3. Still(b, [b EXCEPT !.sess[sid].net = id.key]) BY ElseStill
  <2>4. Echo(b, [b EXCEPT !.sess[sid].net = id.key]) BY <2>3, EchoSteps
  <2>5. Echo(u, b) BY <2>1, <2>2, EchoSteps
  <2>6. Echo(u, [b EXCEPT !.sess[sid].net = id.key]) BY <2>4, <2>5, EchoSteps
  <2> QED BY <2>6 DEF JoinNetwork, a, b
<1>4. Echo(v, Register(v, sid, line, t))
  <2> DEFINE a == [v EXCEPT !.sess[sid].live = TRUE, !.exists = TRUE]
             b == Absorb(a, sid, line)
             c == Locate(b.m, sid, b.changed, t)
             d == Enter(c, sid, t)
  <2>1. Still(v, a) BY DEF Still, ModelFields
  <2>2. Register(v, sid, line, t) = d BY DEF Register, EnterWith
  <2> HIDE DEF a
  <2>3. Still(a, b.m) BY <1>1
  <2> HIDE DEF b
  <2>4. Echo(b.m, c) BY <1>3, EchoSteps DEF Locate
  <2> HIDE DEF c
  <2>5. Still(c, d) BY DEF Enter, Still, ModelFields
  <2> HIDE DEF d
  <2>6. Echo(v, b.m) BY <2>1, <2>3, EchoSteps
  <2>7. Echo(v, c) BY <2>4, <2>6, EchoSteps
  <2>8. Echo(c, d) BY <2>5, EchoSteps
  <2> QED BY <2>2, <2>7, <2>8, EchoSteps
<1> QED BY <1>1, <1>3, <1>4

\* A call becomes private, encrypted, an emergency, or its talker stops.
LEMMA RefineEcho ==
  ASSUME NEW v, NEW id, NEW line, NEW t
  PROVE  /\ Echo(v, RefinePrivate(v, id, line, t)) /\ Echo(v, RefineKey(v, id, line))
         /\ Echo(v, Refine(v, id, line, t)) /\ Echo(v, Terminate(v, id))
<1>1. \A w : Echo(w, RefinePrivate(w, id, line, t))
  <2> TAKE w
  <2> DEFINE k == FindCall(w, id)
             l == [k EXCEPT !.priv = TRUE]
             a == SetCall(w, l)
             b == UntieTalker(a, k)
             c == UntieGroup(b, k)
             d == IF k.src \in DOMAIN c.radios THEN [c EXCEPT !.radios[k.src].peers = Bump(@, k.tgt)] ELSE c
             e == CalledBy(d, k, t)
  <2>1. RefinePrivate(w, id, line, t) \in {w, a, e}
    BY DEF RefinePrivate, SetPrivate, TurnPrivate, TiePeer
  <2>2. Says(w, k) /\ Like(k, l) BY FindSays DEF Like, SameTalk, CallFields
  <2> HIDE DEF k, l
  <2>3. Echo(w, a) BY <2>2, LikeSays, SetEcho
  <2> HIDE DEF a
  <2>4. Still(a, b) BY DEF UntieTalker, Still, ModelFields
  <2> HIDE DEF b
  <2>5. Still(b, c) BY DEF UntieGroup, Still, ModelFields
  <2> HIDE DEF c
  <2>6. Still(c, d) BY DEF Still, ModelFields
  <2> HIDE DEF d
  <2>7. Still(d, e) BY RadiosStill
  <2> HIDE DEF e
  <2>8. Still(a, c) BY <2>4, <2>5, EchoSteps
  <2>9. Still(a, d) BY <2>6, <2>8, EchoSteps
  <2>10. Still(a, e) BY <2>7, <2>9, EchoSteps
  <2>11. Echo(a, e) BY <2>10, EchoSteps
  <2>12. Echo(w, e) BY <2>3, <2>11, EchoSteps
  <2> QED BY <2>1, <2>3, <2>12, EchoSteps
<1>2. \A w : Echo(w, RefineKey(w, id, line))
  <2> TAKE w
  <2> DEFINE k == FindCall(w, id)
             l == [k EXCEPT !.encrypted = TRUE, !.kid = IF @ = NoKey THEN line.kid ELSE @]
             a == SetCall(w, l)
             b == NoteKey(a, id)
  <2>1. RefineKey(w, id, line) \in {w, b} BY DEF RefineKey, NoteEncrypted
  <2>2. Says(w, k) /\ Like(k, l) BY FindSays DEF Like, SameTalk, CallFields
  <2> HIDE DEF k, l
  <2>3. Echo(w, a) BY <2>2, LikeSays, SetEcho
  <2> HIDE DEF a
  <2>4. Echo(a, b) BY NoteKeyNoted, NotedSteps
  <2>5. Echo(w, b) BY <2>3, <2>4, EchoSteps
  <2> QED BY <2>1, <2>5, EchoSteps
<1>3. \A w : Echo(w, RefineEmergency(w, id, line))
  <2> TAKE w
  <2> DEFINE k == FindCall(w, id)
             l == [k EXCEPT !.emergency = TRUE]
  <2>1. Says(w, k) /\ Like(k, l) BY FindSays DEF Like, SameTalk, CallFields
  <2>2. RefineEmergency(w, id, line) \in {w, SetCall(w, l)} BY DEF RefineEmergency, NoteEmergency
  <2> HIDE DEF k, l
  <2>3. Echo(w, SetCall(w, l)) BY <2>1, LikeSays, SetEcho
  <2> QED BY <2>2, <2>3, EchoSteps
<1>4. Echo(v, Refine(v, id, line, t))
  <2> DEFINE a == RefinePrivate(v, id, line, t)
             b == RefineEmergency(a, id, line)
             c == RefineKey(b, id, line)
  <2>1. Echo(v, a) BY <1>1
  <2>2. Refine(v, id, line, t) = c BY DEF Refine
  <2> HIDE DEF a
  <2>3. Echo(a, b) BY <1>3
  <2> HIDE DEF b
  <2>4. Echo(b, c) BY <1>2
  <2> HIDE DEF c
  <2>5. Echo(v, b) BY <2>1, <2>3, EchoSteps
  <2> QED BY <2>2, <2>4, <2>5, EchoSteps
<1>5. Echo(v, Terminate(v, id))
  <2> DEFINE k == FindCall(v, id)
             l == [k EXCEPT !.txEnd = IF @ = 0 THEN k.last ELSE @]
  <2>1. Says(v, k) /\ Like(k, l) BY FindSays DEF Like, SameTalk, CallFields
  <2>2. Terminate(v, id) = SetCall(v, l) BY DEF Terminate
  <2> HIDE DEF k, l
  <2> QED BY <2>1, <2>2, LikeSays, SetEcho
<1> QED BY <1>1, <1>2, <1>4, <1>5

----------------------------------------------------------------------------
\* What is counted, and when.

\* Every call with both ends is counted.
BothCounted(v) ==
  \A i \in DOMAIN v.calls : v.calls[i].src # Nobody /\ v.calls[i].tgt # Nobody => v.calls[i].counted
WasCounted(v, id) == \E j \in DOMAIN v.calls : v.calls[j].id = id /\ v.calls[j].counted /\ ~NoTalk(v.calls[j])
\* SameCall, at a time.
Double(k, o, t) ==
  /\ o.session # k.session /\ Current(o, t)
  /\ o.net = k.net /\ o.src = k.src /\ o.tgt = k.tgt /\ o.priv = k.priv
\* What is counted for a talker was counted, or has no double.
Tallied(v, w, t) ==
  \A i \in DOMAIN w.calls :
    /\ w.calls[i].src # Nobody /\ w.calls[i].tgt # Nobody => w.calls[i].counted
    /\ w.calls[i].counted /\ w.calls[i].src # Nobody =>
         \/ WasCounted(v, w.calls[i].id)
         \/ \A j \in DOMAIN w.calls : ~Double(w.calls[i], w.calls[j], t)

\* Where nobody new speaks, nothing is counted for a talker; nor before.
LEMMA QuietTallied ==
  ASSUME NEW u, NEW v, NEW w, NEW t, Shaped(u), Quiet(u, v)
  PROVE  /\ BothCounted(u) => Tallied(u, v, t)
         /\ BothCounted(u) => BothCounted(v)
         /\ Tallied(v, w, t) => Tallied(u, w, t)
<1>1. \A id : WasCounted(v, id) => WasCounted(u, id)
  <2> TAKE id
  <2> HAVE WasCounted(v, id)
  <2>1. PICK j \in DOMAIN v.calls : v.calls[j].id = id /\ v.calls[j].counted /\ ~NoTalk(v.calls[j]) BY DEF WasCounted
  <2>2. PICK i \in DOMAIN u.calls : SameTalk(u.calls[i], v.calls[j]) BY <2>1 DEF Quiet, Repeats
  <2> QED BY <2>1, <2>2 DEF WasCounted, SameTalk, NoTalk
<1>2. BothCounted(u) => Tallied(u, v, t)
  <2> SUFFICES ASSUME BothCounted(u), NEW i \in DOMAIN v.calls, v.calls[i].src # Nobody
               PROVE  /\ v.calls[i].tgt # Nobody => v.calls[i].counted
                      /\ v.calls[i].counted => WasCounted(u, v.calls[i].id)
    BY DEF Tallied
  <2>1. PICK j \in DOMAIN u.calls : SameTalk(u.calls[j], v.calls[i]) BY DEF Quiet, Repeats, NoTalk
  <2> QED BY <2>1 DEF SameTalk, BothCounted, WasCounted, NoTalk
<1>3. BothCounted(u) => BothCounted(v) BY <1>2 DEF Tallied, BothCounted
<1>4. Tallied(v, w, t) => Tallied(u, w, t) BY <1>1 DEF Tallied
<1> QED BY <1>2, <1>3, <1>4

\* One running call changes; it is counted as it was.
Took(v, x, id) ==
  /\ Shaped(x)
  /\ \A i \in DOMAIN x.calls :
       /\ x.calls[i].id = id =>
            \E j \in DOMAIN v.calls : v.calls[j].id = id /\ v.calls[j].open /\ x.calls[i].counted = v.calls[j].counted
       /\ x.calls[i].id # id => Repeats(v, x.calls[i])

\* What says the same after that does so too.
LEMMA TookOn ==
  ASSUME NEW v, NEW x, NEW y, NEW id, Took(v, x, id), Echo(x, y) PROVE Took(v, y, id)
BY DEF Took, Echo, Repeats, SameTalk

\* A line gives its call the ends it lacks.
LEMMA Takes ==
  ASSUME NEW v, NEW sid, NEW id, NEW line, NEW t, Listed(v), Running(v, id)
  PROVE  Took(v, Take(v, sid, FindCall(v, id), line, t), id)
<1> PICK i \in DOMAIN v.calls : v.calls[i].id = id /\ v.calls[i].open BY DEF Running
<1> DEFINE k == v.calls[i]
           named == k.tgt = Nobody /\ line.tgt # Nobody
           l == [k EXCEPT !.src = IF @ = Nobody THEN line.src ELSE @,
                          !.tgt = IF named THEN line.tgt ELSE @,
                          !.voice = @ \/ line.speech, !.txEnd = IF line.speech THEN 0 ELSE @,
                          !.data = @ \/ IsData(line), !.emergency = @ \/ line.emerg,
                          !.net = IF k.counted THEN @ ELSE v.sess[sid].net, !.last = t]
           a == SetCall(v, l)
           w == Take(v, sid, k, line, t)
<1>1. FindCall(v, id) = k BY Finds
<1>2. DOMAIN l = CallFields /\ l.id = id /\ l.counted = k.counted
  BY ZenonT(60) DEF Listed, CallFields
<1>3. Shaped(v) BY ListedShaped
<1>4. w = [a EXCEPT
           !.sess[sid].active = IF named THEN Put(@, <<line.slot, line.tgt>>, k.id) ELSE @,
           !.sess[sid].last[line.slot] = k.id,
           !.quality = IF line.frames > 0 THEN Put(@, k.id, At(@, k.id) + line.frames) ELSE @]
  BY Zenon DEF Take
<1> HIDE DEF w, l
<1>5. /\ Shaped(a) /\ DOMAIN a.calls = DOMAIN v.calls
      /\ \A j \in DOMAIN v.calls : a.calls[j] = IF v.calls[j].id = l.id THEN l ELSE v.calls[j]
  BY <1>2, <1>3, PutIn
<1> HIDE DEF a, named
<1>6. Still(a, w) BY <1>4 DEF Still, ModelFields
<1>7. Took(v, a, id)
  <2>1. ASSUME NEW j \in DOMAIN a.calls, v.calls[j].id = id
        PROVE  a.calls[j].id = id /\ a.calls[j].counted = k.counted
    BY <1>2, <1>5, <2>1
  <2>2. ASSUME NEW j \in DOMAIN a.calls, v.calls[j].id # id
        PROVE  a.calls[j].id # id /\ Repeats(v, a.calls[j])
    BY <1>2, <1>5, <2>2 DEF Repeats, SameTalk
  <2> QED BY <1>5, <2>1, <2>2 DEF Took
<1>8. Echo(a, w) BY <1>6, EchoSteps
<1> QED BY <1>1, <1>7, <1>8, TookOn DEF w

\* The other calls, that say what they did.
Besides(v, w, d) ==
  /\ Shaped(w)
  /\ \A p \in DOMAIN w.calls : \E q \in DOMAIN v.calls \ {d} : SameTalk(v.calls[q], w.calls[p])

\* A call that is folded into its twin leaves those (adopt_twin).
LEMMA AdoptLeaves ==
  ASSUME NEW v, NEW sid, NEW slot, Listed(v), NEW d \in DOMAIN v.calls, NEW i \in DOMAIN v.calls, d # i
  PROVE  Besides(v, AdoptTwin(v, sid, v.calls[d], v.calls[i], slot), d)
<1> DEFINE dup == v.calls[d]
           twin == v.calls[i]
           taken == twin.audio = NoFile
           x == [twin EXCEPT
             !.voice = @ \/ dup.voice, !.data = @ \/ dup.data, !.emergency = @ \/ dup.emergency,
             !.encrypted = @ \/ dup.encrypted, !.kid = IF @ = NoKey THEN dup.kid ELSE @,
             !.slot = IF @ = 0 THEN dup.slot ELSE @,
             !.start = MinOf(@, dup.start), !.last = MaxOf(@, dup.last), !.streams = @ + 1,
             !.audio = IF taken THEN dup.audio ELSE @,
             !.audioSid = IF taken /\ dup.audio # NoFile THEN dup.audioSid ELSE @,
             !.audioSlot = IF taken /\ dup.audio # NoFile THEN dup.audioSlot ELSE @,
             !.samples = IF taken /\ dup.audio # NoFile THEN dup.samples ELSE @,
             !.keep = @ \/ dup.keep]
           a == SetCall(v, x)
           b == DropCall(a, dup.id)
           To(n) == IF n = dup.id THEN twin.id ELSE n
           c == [b EXCEPT
             !.store = IF dup.audio # NoFile /\ ~taken THEN Discard(@, dup.audio) ELSE @,
             !.quality = Without(@, {dup.id}),
             !.sess[sid].active = [y \in DOMAIN @ |-> To(@[y])],
             !.sess[sid].last = [[y \in Slots |-> To(@[y])] EXCEPT ![slot] = twin.id]]
           w == NoteKey(c, twin.id)
<1>1. AdoptTwin(v, sid, dup, twin, slot) = w BY DEF AdoptTwin
<1>2. DOMAIN twin = CallFields BY DEF Listed
<1>3. DOMAIN x = CallFields /\ SameTalk(twin, x) BY <1>2 DEF CallFields, SameTalk
<1> HIDE DEF x
<1>4. Changed(v, a, i) /\ a.calls[i] = x BY <1>3, SetsOne DEF SameTalk
<1> HIDE DEF a
<1>5. Listed(a) /\ d \in DOMAIN a.calls /\ a.calls[d] = dup BY <1>4, ChangedListed DEF Changed
<1>6. Fewer(a, b, d) BY <1>5, Drops
<1> HIDE DEF b, To
<1>7. Listed(b) /\ \A p \in DOMAIN b.calls : Skip(d, p) \in DOMAIN a.calls \ {d}
  BY <1>5, <1>6, OthersRemain
<1>8. \A q \in DOMAIN a.calls : SameTalk(v.calls[q], a.calls[q]) BY <1>3, <1>4 DEF Changed, SameTalk
<1>9. Besides(v, b, d)
  <2>1. Shaped(b) BY <1>7, ListedShaped
  <2>2. \A p \in DOMAIN b.calls : b.calls[p] = a.calls[Skip(d, p)] BY <1>6 DEF Fewer
  <2> QED BY <1>4, <1>7, <1>8, <2>1, <2>2 DEF Besides, Changed
<1>10. Still(b, c) BY DEF Still, ModelFields
<1>11. Echo(b, c) BY <1>10, EchoSteps
<1> HIDE DEF c
<1>12. Echo(c, w) BY NoteKeyNoted, NotedSteps
<1> HIDE DEF w
<1>13. Echo(b, w) BY <1>11, <1>12, EchoSteps
<1>14. Besides(v, w, d) BY <1>9, <1>13 DEF Besides, Echo, Repeats, SameTalk
<1> QED BY <1>1, <1>14, SMTT(30)

\* What holds of the calls beside one.
Told(v, k) ==
  /\ k.src # Nobody /\ k.tgt # Nobody => k.counted
  /\ k.counted /\ k.src # Nobody => WasCounted(v, k.id)

\* A call is counted when both its ends are known, unless it is another's.
LEMMA SettleTallied ==
  ASSUME NEW v, NEW x, NEW sid, NEW id, NEW slot, NEW t,
         BothCounted(v), Good(x), Has(x, id), Took(v, x, id)
  PROVE  Tallied(v, SettleId(x, sid, id, slot, t), t)
<1> PICK d \in DOMAIN x.calls : x.calls[d].id = id BY DEF Has
<1> DEFINE k == x.calls[d]
           twins == Twins(x, k, t)
           a == One(x, sid, k, twins, slot)
<1>0. Listed(x) /\ Shaped(x) BY ListedShaped DEF Good
<1>1. FindCall(x, id) = k BY <1>0, Finds
<1>2. \A q \in DOMAIN x.calls : x.calls[q].id = id => q = d BY <1>0 DEF Listed
<1>3. ASSUME NEW l, Repeats(v, l) PROVE Told(v, l)
  <2> PICK j \in DOMAIN v.calls : SameTalk(v.calls[j], l) BY <1>3 DEF Repeats
  <2> QED BY DEF Told, SameTalk, BothCounted, WasCounted, NoTalk
<1>4. \A q \in DOMAIN x.calls : q # d => Told(v, x.calls[q]) BY <1>2, <1>3 DEF Took
<1>5. k.counted => WasCounted(v, id) BY DEF Took, WasCounted, NoTalk
<1>6. CASE k.counted \/ k.src = Nobody \/ k.tgt = Nobody
  <2>1. SettleId(x, sid, id, slot, t) = x BY <1>1, <1>6 DEF SettleId, Settle
  <2>2. \A q \in DOMAIN x.calls : Told(v, x.calls[q]) BY <1>4, <1>5, <1>6 DEF Told
  <2> QED BY <2>1, <2>2 DEF Told, Tallied
<1>7. CASE ~(k.counted \/ k.src = Nobody \/ k.tgt = Nobody)
  <2>1. SettleId(x, sid, id, slot, t) = CountOnce(a, t) BY <1>1, <1>7 DEF SettleId, Settle
  <2>2. CASE twins = {}
    <3> DEFINE w == CountCall(x, id, t)
    <3>1. a = [m |-> x, id |-> id] BY <2>2 DEF One
    <3>2. SettleId(x, sid, id, slot, t) = w BY <1>1, <1>7, <2>1, <3>1 DEF CountOnce
    <3>3. Counting(x, w, id) BY CountsCall
    <3> HIDE DEF w
    <3>4. ASSUME NEW p \in DOMAIN w.calls
          PROVE  \/ Told(v, w.calls[p])
                 \/ w.calls[p].counted /\ \A o \in DOMAIN w.calls : ~Double(w.calls[p], w.calls[o], t)
      <4> PICK q \in DOMAIN x.calls : /\ Sight(x.calls[q], w.calls[p])
                                      /\ w.calls[p].id = id => w.calls[p].counted
                                      /\ w.calls[p].id # id => w.calls[p].counted = x.calls[q].counted
        BY <1>0, <3>3 DEF Counting
      <4>1. CASE q # d
        <5>1. w.calls[p].id # id BY <1>2, <4>1 DEF Sight
        <5> QED BY <1>4, <4>1, <5>1 DEF Told, Sight
      <4>2. CASE q = d
        <5>1. ASSUME NEW o \in DOMAIN w.calls, Double(w.calls[p], w.calls[o], t) PROVE FALSE
          <6>1. PICK r \in DOMAIN x.calls : Sight(x.calls[r], w.calls[o]) BY <1>0, <3>3 DEF Counting
          <6>2. Double(k, x.calls[r], t) BY <4>2, <5>1, <6>1 DEF Double, Sight, Current
          <6>3. r # d BY <6>2 DEF Double
          <6>4. r \in twins BY <1>2, <6>2, <6>3 DEF Twins, Double
          <6> QED BY <2>2, <6>4
        <5> QED BY <4>2, <5>1 DEF Sight
      <4> QED BY <4>1, <4>2
    <3> QED BY <3>2, <3>4 DEF Told, Tallied
  <2>3. CASE twins # {}
    <3> DEFINE i == Max(twins)
    <3>1. PICK n \in Nat : DOMAIN x.calls = 1..n BY <1>0 DEF Listed, IsList
    <3>2. twins \subseteq 1..n BY <3>1 DEF Twins
    <3>3. i \in twins BY <2>3, <3>1, <3>2, Greatest
    <3>4. i \in DOMAIN x.calls /\ i # d /\ x.calls[i].open /\ x.calls[i].src = k.src /\ x.calls[i].tgt = k.tgt
      BY <3>3, Zenon DEF Twins, Current
    <3>5. a = [m |-> AdoptTwin(x, sid, k, x.calls[i], slot), id |-> x.calls[i].id]
      BY <2>3 DEF One, Adopted
    <3>6. x.calls[i].counted BY <1>4, <1>7, <3>4 DEF Told
    <3> HIDE DEF i, twins
    <3> DEFINE w == AdoptTwin(x, sid, k, x.calls[i], slot)
    <3>7. Good(w) /\ Running(w, x.calls[i].id) BY <3>4, AdoptGood DEF Fine
    <3>8. Besides(x, w, d) BY <1>0, <3>4, AdoptLeaves
    <3>9. a.m = w /\ a.id = x.calls[i].id BY <3>5
    <3> HIDE DEF a, w
    <3>10. FindCall(w, x.calls[i].id).counted
      <4>1. PICK p \in DOMAIN w.calls : w.calls[p].id = x.calls[i].id BY <3>7 DEF Running
      <4>2. FindCall(w, x.calls[i].id) = w.calls[p] BY <3>7, <4>1, Finds DEF Good
      <4>3. PICK q \in DOMAIN x.calls : SameTalk(x.calls[q], w.calls[p]) BY <3>8 DEF Besides
      <4>4. q = i BY <1>0, <3>4, <4>1, <4>3 DEF SameTalk, Listed
      <4> QED BY <3>6, <4>2, <4>3, <4>4 DEF SameTalk
    <3>11. SettleId(x, sid, id, slot, t) = w BY <2>1, <3>9, <3>10 DEF CountOnce
    <3>12. \A p \in DOMAIN w.calls : Told(v, w.calls[p])
      <4> TAKE p \in DOMAIN w.calls
      <4>1. PICK q \in DOMAIN x.calls \ {d} : SameTalk(x.calls[q], w.calls[p]) BY <3>8 DEF Besides
      <4> QED BY <1>4, <4>1 DEF Told, SameTalk
    <3> QED BY <3>11, <3>12 DEF Told, Tallied
  <2> QED BY <2>2, <2>3
<1> QED BY <1>6, <1>7

\* A line goes into its call (fold).
LEMMA FoldTallied ==
  ASSUME NEW v, NEW sid, NEW id, NEW line, NEW t, Good(v), Running(v, id), BothCounted(v)
  PROVE  Tallied(v, Fold(v, sid, id, line, t), t)
<1> DEFINE a == Take(v, sid, FindCall(v, id), line, t)
           b == RefineKey(a, id, line)
           c == RefinePrivate(b, id, line, t)
<1>0. Listed(v) BY DEF Good
<1>1. Kept(v, a) /\ Took(v, a, id) BY <1>0, TakeKept, Takes
<1>2. Listed(a) /\ Running(a, id) BY <1>0, <1>1, KeptListed
<1> HIDE DEF a
<1>3. Kept(a, b) BY <1>2, NoteEncryptedKept, Nothing DEF RefineKey
<1>4. Kept(v, b) BY <1>1, <1>3, KeptTwice
<1>5. Listed(b) /\ Running(b, id) BY <1>2, <1>3, KeptListed
<1>6. Took(v, b, id) BY <1>1, RefineEcho, TookOn
<1> HIDE DEF b
<1>7. Kept(b, c) BY <1>5, SetPrivateKept, Nothing DEF RefinePrivate, Has, Running
<1>8. Kept(v, c) BY <1>4, <1>7, KeptTwice
<1>9. Has(c, id) BY <1>5, <1>7, KeptListed DEF Has, Running
<1>10. Took(v, c, id) BY <1>6, RefineEcho, TookOn
<1> HIDE DEF c
<1>11. Good(c) BY <1>8, KeptGood
<1>12. Tallied(v, SettleId(c, sid, id, line.slot, t), t) BY <1>9, <1>10, <1>11, SettleTallied
<1> QED BY <1>12 DEF Fold, a, b, c

----------------------------------------------------------------------------
\* A line, from the stream's network to its call.

\* The call the line goes with is given its slot (find_call).
LEMMA FoundEcho == ASSUME NEW v, NEW sid, NEW line, NEW t PROVE Echo(v, Found(v, sid, line, t).m)
<1>1. ASSUME NEW id, NEW from PROVE Echo(v, GiveSlot(v, sid, FindCall(v, id), from, line).m)
  <2> DEFINE k == FindCall(v, id)
             l == [k EXCEPT !.slot = line.slot]
             a == SetCall(v, l)
             b == [a EXCEPT !.sess[sid].active = Put(Without(@, {<<from, line.tgt>>}), <<line.slot, line.tgt>>, k.id)]
  <2>1. Says(v, k) /\ Like(k, l) BY FindSays DEF Like, SameTalk, CallFields
  <2>2. GiveSlot(v, sid, k, from, line).m \in {v, b} BY DEF GiveSlot
  <2> HIDE DEF k, l
  <2>3. Echo(v, a) BY <2>1, LikeSays, SetEcho
  <2> HIDE DEF a
  <2>4. Still(a, b) BY ElseStill
  <2> HIDE DEF b
  <2>5. Echo(a, b) BY <2>4, EchoSteps
  <2>6. Echo(v, b) BY <2>3, <2>5, EchoSteps
  <2> QED BY <2>2, <2>6, EchoSteps DEF k
<1>2. Echo(v, Slotless(v, sid, line, t).m) BY <1>1, EchoSteps DEF Slotless, SlotlessAt
<1> QED BY <1>2, EchoSteps DEF Found, FoundOf

\* The line's call, found or opened, with the line in it (extend).
LEMMA ExtendTallied ==
  ASSUME NEW v, NEW sid, NEW line, NEW t, Good(v), BothCounted(v)
  PROVE  Tallied(v, Extend(v, sid, line, t), t)
<1> DEFINE f == Found(v, sid, line, t)
           g == Fitting(f, line)
           a == Into(g, sid, line, t)
           w == FoldInto(a, sid, line, t)
<1>0. Shaped(v) BY ListedShaped DEF Good
<1>1. Extend(v, sid, line, t) = w BY DEF Extend, Match
<1>2. Quiet(v, f.m) /\ Matched(v, f) BY FoundEcho, EchoSteps, FoundMatches
<1> HIDE DEF f
<1>3. Matched(v, g) BY <1>2, FittingMatches
<1>4. Quiet(f.m, g.m)
  <2>1. g = f \/ g = [f EXCEPT !.call = NoCall] \/ g = [m |-> CloseCall(f.m, f.call.id), call |-> NoCall]
    BY DEF Fitting
  <2>2. [f EXCEPT !.call = NoCall].m = f.m BY <1>2 DEF Matched
  <2> HIDE DEF g
  <2>3. g.m = f.m \/ g.m = CloseCall(f.m, f.call.id)
    <3>1. CASE g = f BY <3>1
    <3>2. CASE g = [f EXCEPT !.call = NoCall] BY <2>2, <3>2
    <3>3. CASE g = [m |-> CloseCall(f.m, f.call.id), call |-> NoCall] BY <3>3
    <3> QED BY <2>1, <3>1, <3>2, <3>3
  <2> QED BY <2>3, CloseQuiet, EchoSteps
<1> HIDE DEF g
<1>5. Good(g.m) BY <1>3 DEF Matched, Fine
<1>6. Quiet(g.m, a.m) /\ (a.id # 0 => Good(a.m) /\ Running(a.m, a.id))
  <2>1. CASE g.call # NoCall
    <3>1. a.m = g.m /\ a.id = g.call.id BY <2>1 DEF Into
    <3> QED BY <1>3, <1>5, <2>1, <3>1, EchoSteps DEF Matched, Runs
  <2>2. CASE g.call = NoCall /\ Opens(line)
    <3> DEFINE o == OpenCall(g.m, sid, line.slot, t)
    <3>1. a = [m |-> o, id |-> o.next] BY <2>2 DEF Into, Opened
    <3>2. Fine(g.m, o) /\ Running(o, o.next) /\ Quiet(g.m, o) BY <1>5, OpenGood, OpenQuiet
    <3> HIDE DEF o
    <3>3. a.m = o /\ a.id = o.next BY <3>1
    <3> QED BY <3>2, <3>3 DEF Fine
  <2>3. CASE g.call = NoCall /\ ~Opens(line)
    <3>1. a = [m |-> g.m, id |-> 0] BY <2>3 DEF Into
    <3>2. a.m = g.m /\ a.id = 0 BY <3>1
    <3> QED BY <3>2, EchoSteps
  <2> QED BY <2>1, <2>2, <2>3
<1> HIDE DEF a
<1>7. Quiet(v, g.m) BY <1>2, <1>4, EchoSteps
<1>8. Quiet(v, a.m) BY <1>6, <1>7, EchoSteps
<1>9. BothCounted(a.m) /\ Tallied(v, a.m, t) BY <1>0, <1>8, QuietTallied
<1>10. CASE a.id = 0 BY <1>1, <1>9, <1>10 DEF FoldInto
<1>11. CASE a.id # 0
  <2>1. w = Fold(a.m, sid, a.id, line, t) BY <1>11 DEF FoldInto
  <2>2. Tallied(a.m, w, t) BY <1>6, <1>9, <1>11, <2>1, FoldTallied
  <2> HIDE DEF w
  <2> QED BY <1>0, <1>1, <1>8, <2>2, QuietTallied
<1> QED BY <1>10, <1>11

\* What a line does, whatever it is.
LEMMA ApplyTallied ==
  ASSUME NEW v, NEW sid, NEW line, NEW t, Good(v), BothCounted(v)
  PROVE  Tallied(v, ApplyNow(v, sid, line, t), t)
<1> DEFINE k == FreshCall(v, sid, line.slot, t)
           a == TalkerHeard(v, sid, line, t)
<1>0. Listed(v) /\ Shaped(v) BY ListedShaped DEF Good
<1> HIDE DEF k
<1>1. Quiet(v, v) BY EchoSteps
<1>2. Quiet(v, Terminate(v, k.id)) BY RefineEcho, EchoSteps
<1>3. Quiet(v, Refine(v, k.id, line, t)) BY RefineEcho, EchoSteps
<1>4. Quiet(v, a)
  <2>1. Still(v, a) BY RadiosStill, EchoSteps DEF TalkerHeard
  <2> HIDE DEF a
  <2>2. Echo(v, a) BY <2>1, EchoSteps
  <2> QED BY <2>2, EchoSteps
<1>5. Good(a) BY <1>0, TalkerKept, KeptGood
<1> HIDE DEF a
<1>6. Tallied(v, Extend(a, sid, line, t), t)
  <2>1. BothCounted(a) BY <1>0, <1>4, QuietTallied
  <2>2. Tallied(a, Extend(a, sid, line, t), t) BY <1>5, <2>1, ExtendTallied
  <2> QED BY <1>0, <1>4, <2>2, QuietTallied
<1>7. \A w : Quiet(v, w) => Tallied(v, w, t) BY <1>0, QuietTallied
<1> QED BY <1>1, <1>2, <1>3, <1>4, <1>6, <1>7 DEF ApplyNow, Apply, a, k

\* A line, as the session's event callback hands it over.
LEMMA IngestTallied ==
  ASSUME NEW v, NEW sid, NEW line, NEW t, Good(v), BothCounted(v)
  PROVE  Tallied(v, Ingest(v, sid, line, t), t)
<1>0. Listed(v) /\ Shaped(v) BY ListedShaped DEF Good
<1> DEFINE a == Labelled(v, sid, line)
           b == Register(a, sid, line, t)
           c == Expire(b, sid, t)
           w == ApplyNow(c, sid, line, t)
<1>1. Kept(v, a) BY <1>0, FieldKept, Nothing DEF Labelled
<1>2. Fine(v, a) /\ Good(a) /\ Listed(a) BY <1>1, FineSteps DEF Fine, Good
<1>3. Still(v, a) BY DEF Labelled, Still, ModelFields
<1>4. Ingest(v, sid, line, t) \in {v, a, Absorb(a, sid, line).m, w}
  BY DEF Ingest, IngestAs, Decode
<1> HIDE DEF a
<1>5. Still(a, Absorb(a, sid, line).m) BY NetworkEcho
<1>6. Quiet(a, b) /\ Fine(a, b) BY <1>2, NetworkEcho, EchoSteps, RegisterKept, FineSteps
<1> HIDE DEF b
<1>7. Quiet(b, c) /\ Fine(b, c) BY <1>6, EndQuiet, ExpireGoes, FineSteps DEF Fine
<1> HIDE DEF c
<1>8. Echo(v, a) BY <1>3, EchoSteps
<1>9. Quiet(v, a) BY <1>8, EchoSteps
<1>10. Quiet(v, b) BY <1>6, <1>9, EchoSteps, SMTT(30)
<1>11. Quiet(v, c) BY <1>7, <1>10, EchoSteps
<1>12. Tallied(v, w, t)
  <2>1. BothCounted(c) BY <1>0, <1>11, QuietTallied
  <2>2. Tallied(c, w, t) BY <1>7, <2>1, ApplyTallied DEF Fine
  <2> HIDE DEF w
  <2> QED BY <1>0, <1>11, <2>2, QuietTallied
<1> HIDE DEF w
<1>13. Quiet(v, Absorb(a, sid, line).m)
  <2> DEFINE x == Absorb(a, sid, line).m
  <2>1. Still(a, x) BY <1>5
  <2> HIDE DEF x
  <2>2. Still(v, x) BY <1>3, <2>1, EchoSteps
  <2>3. Echo(v, x) BY <2>2, EchoSteps
  <2>4. Quiet(v, x) BY <2>3, EchoSteps
  <2> QED BY <2>4 DEF x
<1>14. Quiet(v, v) BY EchoSteps
<1>15. \A y : Quiet(v, y) => Tallied(v, y, t) BY <1>0, QuietTallied
<1> QED BY <1>4, <1>9, <1>12, <1>13, <1>14, <1>15

----------------------------------------------------------------------------
\* Call audio says nothing of who speaks.

\* The loop over the calls whose files went.
EchoSoFar(e, a, n) == Echo(e.m, a)
Repeating == INSTANCE Folding WITH Op <- ReconcileStep, Good <- EchoSoFar

\* ... leaves what is said in them (reconcile).
LEMMA ReconcileEcho == ASSUME NEW v PROVE Echo(v, Reconcile(v))
<1> SUFFICES ASSUME Shaped(v) PROVE Echo(v, Reconcile(v)) BY DEF Echo
<1> PICK n \in Nat : DOMAIN v.calls = 1..n BY DEF Shaped, IsList
<1> DEFINE e == [m |-> v, gone |-> v.store.evicted]
           ids == [i \in 1..n |-> v.calls[i].id]
           a == Repeating!Fold(e, v, ids)
           w == [a EXCEPT !.store.evicted = {}]
<1>1. Reconcile(v) = w
  BY DEF Reconcile, ReconcileStep, Repeating!Fold, FoldLeft, Repeating!FoldLeft, MapThenFoldSet,
         Repeating!MapThenFoldSet, Max, Repeating!Max
<1>2. EchoSoFar(e, v, 0) BY EchoSteps DEF EchoSoFar
<1>3. ASSUME NEW k \in 1..n, NEW b, EchoSoFar(e, b, k - 1)
      PROVE  EchoSoFar(e, ReconcileStep(e, b, ids[k]), k)
  <2>1. Echo(v, b) /\ Shaped(b) BY <1>3 DEF EchoSoFar, Echo
  <2> DEFINE c == FindCall(b, ids[k])
             l == [c EXCEPT !.audio = NoFile, !.samples = 0]
             x == SetCall(b, l)
             y == SetKeep(x, l, FALSE)
  <2>2. ReconcileStep(e, b, ids[k]) \in {b, y} BY DEF ReconcileStep
  <2>3. Says(b, c) /\ Like(c, l) BY FindSays DEF Like, SameTalk, CallFields
  <2> HIDE DEF c, l
  <2>4. Echo(b, x) /\ Says(x, l) BY <2>1, <2>3, LikeSays, SetEcho
  <2> HIDE DEF x
  <2>5. Echo(x, y) BY <2>4, KeepEcho
  <2> HIDE DEF y
  <2>6. Echo(v, x) BY <2>1, <2>4, EchoSteps
  <2>7. Echo(v, y) BY <2>5, <2>6, EchoSteps
  <2> HIDE DEF ids
  <2>8. Echo(v, ReconcileStep(e, b, ids[k])) BY <2>1, <2>2, <2>7
  <2> QED BY <2>8 DEF EchoSoFar
<1>4. EchoSoFar(e, a, n)
  <2> HIDE DEF e
  <2> QED BY <1>2, <1>3, Repeating!FoldKeeps
<1> HIDE DEF a
<1>5. Echo(v, a) BY <1>4 DEF EchoSoFar
<1>6. Still(a, w) BY DEF Still, ModelFields
<1> HIDE DEF w
<1>7. Echo(a, w) BY <1>6, EchoSteps
<1> QED BY <1>1, <1>5, <1>7, EchoSteps

\* A block for a call that is recorded, or not yet (Record).
LEMMA RecordEcho ==
  ASSUME NEW k, Says(m, k), Shaped(m), NEW sid, NEW s, NEW block
  PROVE  Echo(m, Record(sid, s, k, block))
<1>1. ASSUME NEW l, Says(m, l), NEW store PROVE Echo(m, BeginFile(sid, s, l, store))
  <2> DEFINE a == SetCall(m, l)
             b == SetKeep(a, l, TRUE)
             c == [b EXCEPT !.store = store, !.sess[sid].preroll = Without(@, {0, s})]
  <2>1. BeginFile(sid, s, l, store) = Reconcile(c) BY DEF BeginFile
  <2>2. Echo(m, a) /\ Says(a, l) BY <1>1, SetEcho
  <2> HIDE DEF a
  <2>3. Echo(a, b) BY <2>2, KeepEcho
  <2> HIDE DEF b
  <2>4. Still(b, c) BY DEF Still, ModelFields
  <2> HIDE DEF c
  <2>5. Echo(b, c) BY <2>4, EchoSteps
  <2>6. Echo(c, Reconcile(c)) BY ReconcileEcho
  <2>7. Echo(m, b) BY <2>2, <2>3, EchoSteps
  <2>8. Echo(m, c) BY <2>5, <2>7, EchoSteps
  <2>9. Echo(m, Reconcile(c)) BY <2>6, <2>8, EchoSteps
  <2> QED BY <2>1, <2>9
<1>2. ASSUME NEW l, Says(m, l) PROVE Echo(m, Longer(sid, s, l, block))
  <2> DEFINE k1 == [l EXCEPT !.audioSlot = IF @ = 0 THEN s ELSE @, !.samples = @ + block.size]
             a == SetCall(m, k1)
             c == [a EXCEPT !.store = AppendTo(@, l.audio, block.size, now)]
  <2>1. Longer(sid, s, l, block) = Reconcile(c) BY DEF Longer
  <2>2. Like(l, k1) BY DEF Like, SameTalk, CallFields
  <2> HIDE DEF k1
  <2>3. Echo(m, a) BY <1>2, <2>2, LikeSays, SetEcho
  <2> HIDE DEF a
  <2>4. Still(a, c) BY ElseStill
  <2> HIDE DEF c
  <2>5. Echo(a, c) BY <2>4, EchoSteps
  <2>6. Echo(c, Reconcile(c)) BY ReconcileEcho
  <2>7. Echo(m, c) BY <2>3, <2>5, EchoSteps
  <2>8. Echo(m, Reconcile(c)) BY <2>6, <2>7, EchoSteps
  <2> QED BY <2>1, <2>8
<1>3. Echo(m, Muted(k))
  <2> DEFINE k1 == [k EXCEPT !.noAudio = TRUE, !.audio = NoFile]
             a == SetCall(m, k1)
             c == [a EXCEPT !.store = IF k.audio = NoFile THEN @ ELSE Discard(@, k.audio)]
             y == SetKeep(c, k1, FALSE)
  <2>1. Muted(k) = y BY DEF Muted
  <2>2. Like(k, k1) BY DEF Like, SameTalk, CallFields
  <2> HIDE DEF k1
  <2>3. Echo(m, a) /\ Says(a, k1) BY <2>2, LikeSays, SetEcho
  <2> HIDE DEF a
  <2>4. Still(a, c) BY ElseStill
  <2> HIDE DEF c
  <2>5. Echo(a, c) /\ Shaped(a) BY <2>3, <2>4, EchoSteps DEF Echo
  <2>6. Says(c, k1) BY <2>3, <2>4, <2>5, StillSays
  <2>7. Echo(c, y) BY <2>6, KeepEcho
  <2> HIDE DEF y
  <2>8. Echo(m, c) BY <2>3, <2>5, EchoSteps
  <2> QED BY <2>1, <2>7, <2>8, EchoSteps
<1>4. ASSUME NEW l, Says(m, l) PROVE Echo(m, SetCall(m, l)) BY <1>4, SetEcho
<1>5. ASSUME NEW l, Says(m, l) PROVE Echo(m, GoOn(sid, s, l, block))
  BY <1>2, <1>4, <1>5 DEF GoOn
<1>6. ASSUME NEW l, Says(m, l) PROVE Echo(m, StartFile(sid, s, l, block))
  <2> DEFINE held == m.sess[sid].preroll
             at == {z \in {0, s} : z \in DOMAIN held /\ held[z].n > 0 /\ now - held[z].last <= PrerollMs}
             n == FoldLeft(LAMBDA a, z : a + held[z].n, 0, SetToSeq(at))
             name == <<l.id, m.epoch>>
             k1 == [l EXCEPT !.audio = name, !.audioSid = sid, !.audioSlot = s, !.samples = @ + n + block.size]
             store == AppendTo(AppendTo(OpenFile(m.store, name, now), name, n, now), name, block.size, now)
  <2>1. StartFile(sid, s, l, block) \in {SetCall(m, l), BeginFile(sid, s, k1, store)} BY DEF StartFile
  <2> HIDE DEF n
  <2>2. Like(l, k1) BY DEF Like, SameTalk, CallFields
  <2> HIDE DEF k1, store
  <2>3. Says(m, k1) BY <1>6, <2>2, LikeSays
  <2>4. Echo(m, BeginFile(sid, s, k1, store)) BY <1>1, <2>3
  <2>5. Echo(m, SetCall(m, l)) BY <1>4, <1>6
  <2> QED BY <2>1, <2>4, <2>5
<1> DEFINE h == [k EXCEPT !.keyed = @ \/ block.keyed]
<1>7. Says(m, h)
  <2>1. Like(k, h) BY DEF Like, SameTalk, CallFields
  <2> HIDE DEF h
  <2> QED BY <2>1, LikeSays
<1>8. Record(sid, s, k, block) \in {m, Muted(k), StartFile(sid, s, h, block), GoOn(sid, s, h, block)}
  BY DEF Record, Recorded
<1> HIDE DEF h
<1>9. Echo(m, StartFile(sid, s, h, block)) BY <1>6, <1>7
<1>10. Echo(m, GoOn(sid, s, h, block)) BY <1>5, <1>7
<1> QED BY <1>3, <1>8, <1>9, <1>10, EchoSteps

\* A block of decoded voice (audio).
LEMMA AudioEcho ==
  ASSUME Good(m), NEW sid, NEW slot, NEW block PROVE Echo(m, Audio(sid, slot, block))
<1> DEFINE a == AudioCall(sid, CallOfSlot(sid, slot), block)
<1>1. a = NoVoice \/ Chosen(a.call) BY AudioCallChosen
<1>2. Echo(m, Hold(sid, slot, block))
  <2>1. Still(m, Hold(sid, slot, block)) BY DEF Hold, Still, ModelFields
  <2> QED BY <2>1, EchoSteps
<1>3. Shaped(m) BY ListedShaped DEF Good
<1>4. ASSUME a.call # NoCall, a # NoVoice PROVE Says(m, a.call)
  <2> HIDE DEF a
  <2> PICK i \in DOMAIN m.calls : a.call = m.calls[i] BY <1>1, <1>4 DEF Chosen
  <2>1. DOMAIN a.call = CallFields BY <1>3 DEF Shaped
  <2> QED BY <2>1 DEF Says, Repeats, SameTalk, CallFields
<1>5. a.call # NoCall /\ a # NoVoice => Echo(m, Record(sid, a.slot, a.call, block))
  BY <1>3, <1>4, RecordEcho
<1>6. Audio(sid, slot, block) = AudioTo(sid, slot, a, block) BY DEF Audio
<1> HIDE DEF a
<1> QED BY <1>2, <1>5, <1>6, EchoSteps DEF AudioTo

\* A stream that ends, moves or starts over (prune_session_locked).
LEMMA PruneQuiet ==
  ASSUME NEW v, NEW sid, NEW retune, NEW f
  PROVE  Quiet(v, Prune(v, sid, retune)) /\ Quiet(v, [Prune(v, sid, retune) EXCEPT !.sess = f])
<1> DEFINE w == Prune(v, sid, retune)
           x == [w EXCEPT !.sess = f]
<1>1. Still(v, w)
  <2> SUFFICES ASSUME DOMAIN v = ModelFields PROVE DOMAIN w = ModelFields /\ w.calls = v.calls BY DEF Still
  <2>1. DOMAIN w = ModelFields BY DEF Prune, ModelFields
  <2>2. w.calls = v.calls BY DEF Prune, ModelFields
  <2> QED BY <2>1, <2>2
<1> HIDE DEF w
<1>2. Still(w, x) BY ElseStill
<1> HIDE DEF x
<1>3. Still(v, x) BY <1>1, <1>2, EchoSteps
<1>4. Echo(v, w) /\ Echo(v, x) BY <1>1, <1>3, EchoSteps
<1> QED BY <1>4, EchoSteps DEF w, x

----------------------------------------------------------------------------
\* Every operation counts only what has no double.

\* Nobody new speaks but in a line.
LEMMA StepTallied ==
  ASSUME Sound(m), BothCounted(m), [Next]_vars PROVE Tallied(m, m', now)
<1>0. Good(m) /\ Shaped(m) BY ListedShaped DEF Sound, Good
<1>1. Quiet(m, m') => Tallied(m, m', now) BY <1>0, QuietTallied
<1> DEFINE Ends(sid) == CloseSessionCalls(m, sid)
<1>2. \A sid : Quiet(m, Ends(sid)) BY EndQuiet
<1> HIDE DEF Ends
<1>3. \A sid, f : Quiet(m, [Ends(sid) EXCEPT !.sess = f])
  <2> TAKE sid, f
  <2> DEFINE a == Ends(sid)
             b == [a EXCEPT !.sess = f]
  <2>1. Still(a, b) BY ElseStill
  <2> HIDE DEF b
  <2>2. Echo(a, b) BY <2>1, EchoSteps
  <2>3. Quiet(a, b) BY <2>2, EchoSteps
  <2>4. Quiet(m, b) BY <1>2, <2>3, EchoSteps
  <2> QED BY <2>4 DEF b
<1>4. \A sid, retune, f : Quiet(m, [Prune(Ends(sid), sid, retune) EXCEPT !.sess = f])
  <2> TAKE sid, retune, f
  <2> DEFINE x == [Prune(Ends(sid), sid, retune) EXCEPT !.sess = f]
  <2>1. Quiet(Ends(sid), x) BY PruneQuiet
  <2> HIDE DEF x
  <2>2. Quiet(m, x) BY <1>2, <2>1, EchoSteps
  <2> QED BY <2>2 DEF x
<1>5. CASE Tick \/ UNCHANGED vars BY <1>1, <1>5, EchoSteps DEF Tick, vars
<1>6. CASE StartAudio
  <2> DEFINE a == [m EXCEPT !.store = Enable(@, now)]
  <2>1. m' = Reconcile(a) BY <1>6 DEF StartAudio, Becomes
  <2>2. Still(m, a) BY ElseStill
  <2> HIDE DEF a
  <2>3. Echo(m, a) /\ Echo(a, Reconcile(a)) BY <2>2, EchoSteps, ReconcileEcho
  <2>4. Echo(m, m') BY <2>1, <2>3, EchoSteps
  <2> QED BY <1>1, <2>4, EchoSteps
<1>7. CASE StopAudio
  <2>1. PICK f : m' = [m EXCEPT !.store = Disable(@), !.sess = f]
    BY <1>7, Zenon DEF StopAudio, Becomes
  <2>2. Still(m, m') BY <2>1 DEF Still, ModelFields
  <2>3. Echo(m, m') BY <2>2, EchoSteps
  <2> QED BY <1>1, <2>3, EchoSteps
<1>8. CASE \E withAudio \in BOOLEAN : Clear(withAudio)
  <2>1. m' = Forget(m) \/ m' = [Forget(m) EXCEPT !.store = RemoveAll(@)] BY <1>8 DEF Clear, Becomes
  <2>2. Forget(m).calls = <<>> /\ Sound(Forget(m)) BY ForgetGood
  <2>3. m'.calls = <<>> BY <2>1, <2>2 DEF Sound, Good, Listed, ModelFields
  <2>4. DOMAIN m'.calls = {} BY <2>3, EmptyList
  <2> QED BY <2>4 DEF Tallied
<1>9. ASSUME NEW sid \in Sessions, BeginStream(sid) PROVE Quiet(m, m')
  <2>1. PICK f : m' = [Prune(Ends(sid), sid, FALSE) EXCEPT !.sess = f]
    BY <1>9 DEF BeginStream, Becomes, Started, Ends
  <2> QED BY <1>4, <2>1
<1>10. ASSUME NEW sid \in Sessions, Retune(sid) PROVE Quiet(m, m')
  <2>1. PICK f : m' = [Prune(Ends(sid), sid, TRUE) EXCEPT !.sess = f]
    BY <1>10 DEF Retune, Becomes, Moved, Ends
  <2> QED BY <1>4, <2>1
<1>11. ASSUME NEW sid \in Sessions, EndStream(sid) PROVE Quiet(m, m')
  <2>1. PICK f : m' = Prune([Ends(sid) EXCEPT !.sess = f], sid, FALSE)
    BY <1>11 DEF EndStream, Becomes, Ends
  <2> DEFINE b == [Ends(sid) EXCEPT !.sess = f]
  <2>2. Quiet(m, b) /\ m' = Prune(b, sid, FALSE) BY <1>3, <2>1
  <2> HIDE DEF b
  <2>3. Quiet(b, m') BY <2>2, PruneQuiet
  <2> QED BY <2>2, <2>3, EchoSteps
<1>12. ASSUME NEW sid \in Sessions, RemoveSession(sid) PROVE Quiet(m, m')
  <2>1. PICK f : m' = [Prune(Ends(sid), sid, FALSE) EXCEPT !.sess = f]
    BY <1>12 DEF RemoveSession, Becomes, Ends
  <2> QED BY <1>4, <2>1
<1>13. ASSUME NEW sid \in Sessions, IngestLine(sid) PROVE Tallied(m, m', now)
  <2>1. PICK line : m' = Ingest(m, sid, line, now) BY <1>13 DEF IngestLine, Hears
  <2> QED BY <1>0, <2>1, IngestTallied
<1>14. ASSUME NEW sid \in Sessions, HearAudio(sid) PROVE Quiet(m, m')
  <2>1. PICK block : m' = Audio(sid, block.slot, block) BY <1>14 DEF HearAudio, Hears
  <2>2. Echo(m, m') BY <1>0, <2>1, AudioEcho
  <2> QED BY <2>2, EchoSteps
<1> QED BY <1>1, <1>5, <1>6, <1>7, <1>8, <1>9, <1>10, <1>11, <1>12, <1>13, <1>14, SMTT(30) DEF Next

\* Every call with both ends known is counted.
THEOREM EndsCounted == Spec => []BothCounted(m)
<1>1. Init => BothCounted(m)
  <2> SUFFICES ASSUME Init PROVE BothCounted(m) OBVIOUS
  <2>1. m.calls = <<>> BY DEF Init, EmptyModel
  <2>2. DOMAIN m.calls = {} BY <2>1, EmptyList
  <2> QED BY <2>2 DEF BothCounted
<1>2. BothCounted(m) /\ Sound(m) /\ [Next]_vars => BothCounted(m)'
  <2> SUFFICES ASSUME BothCounted(m), Sound(m), [Next]_vars PROVE BothCounted(m') OBVIOUS
  <2> QED BY StepTallied DEF Tallied, BothCounted
<1> QED BY <1>1, <1>2, RecordingsSound, PTL DEF Spec

\* One transmission heard by two receivers is counted once: no call is counted
\* while another stream's call with the same ends runs on its network (settle).
THEOREM CountedOnce == Spec => HeardTwiceCountedOnce
<1>1. BothCounted(m) /\ Sound(m) /\ [Next]_vars => CountsOnlyOnce
  <2> SUFFICES ASSUME BothCounted(m), Sound(m), [Next]_vars,
                      NEW i \in DOMAIN m'.calls, m'.calls[i].counted, m'.calls[i].src # Nobody,
                      FindCall(m, m'.calls[i].id) = NoCall \/ ~FindCall(m, m'.calls[i].id).counted,
                      NEW j \in DOMAIN m'.calls, SameCall(m'.calls[i], m'.calls[j])
               PROVE  FALSE
    BY DEF CountsOnlyOnce
  <2>1. Tallied(m, m', now) BY StepTallied
  <2>2. Double(m'.calls[i], m'.calls[j], now) BY DEF Double, SameCall
  <2>3. PICK q \in DOMAIN m.calls : m.calls[q].id = m'.calls[i].id /\ m.calls[q].counted
    BY <2>1, <2>2 DEF Tallied, WasCounted
  <2>4. Listed(m) /\ Shaped(m) BY ListedShaped DEF Sound, Good
  <2>5. FindCall(m, m'.calls[i].id) = m.calls[q] BY <2>3, <2>4, Finds
  <2>6. m.calls[q].id # NoCall.id BY <2>4 DEF Shaped, NoCall
  <2> QED BY <2>3, <2>5, <2>6
<1>2. BothCounted(m) /\ Sound(m) /\ [Next]_vars => [CountsOnlyOnce]_vars BY <1>1
<1> QED BY <1>2, EndsCounted, RecordingsSound, PTL DEF Spec, HeardTwiceCountedOnce
===============================================================================
