---------------------------- MODULE AssocNetworks ----------------------------
(***************************************************************************)
(* Which network a decoder stream belongs to (assoc_model.hpp): the ids it *)
(* absorbs, the network they resolve to, the folding of a bucket into the  *)
(* network a stream turns out to be on, and what is dropped when a stream  *)
(* ends or moves.  All operators are functions of the model's value, a     *)
(* record m; AssocModel applies them under its one mutex.                  *)
(*                                                                         *)
(* m.sess     session -> its stream's context                              *)
(* m.exists   the family's entry in fam_                                   *)
(* m.nets, m.tgs, m.radios   the family's maps                             *)
(* m.calls    its calls, oldest first                                      *)
(***************************************************************************)
EXTENDS Naturals, Sequences, FiniteSets, SequencesExt

CONSTANTS
  Fam,          \* the protocol: families share nothing
  MaxNetworks   \* kMaxNetworks

ASSUME FamAssumption ==
  Fam \in {"p25", "dmr", "nxdn", "tetra", "dpmr", "dstar", "ysf", "edacs"}
ASSUME NetworkAssumption == MaxNetworks \in Nat \ {0}

NoIds == <<>>

\* Ids whose change means another network.
Anchors == CASE Fam = "p25" -> {"wacn", "system_id", "nac"}
             [] Fam = "dmr" -> {"network_id", "cc"}
             [] Fam = "nxdn" -> {"system_code", "ran"}
             [] Fam = "tetra" -> {"mcc", "mnc", "cc"}
             [] Fam = "dpmr" -> {"cc"}
             [] Fam = "dstar" -> {"rpt1"}
             [] Fam = "ysf" -> {"downlink"}
             [] Fam = "edacs" -> {"system_id"}
WeakAnchors == {"cc", "nac", "ran"}
SiteKeys == CASE Fam = "p25" -> {"rfss", "site_id"}
              [] Fam = "dmr" -> {"site_id"}
              [] Fam = "nxdn" -> {"site_code", "location_id"}
              [] Fam = "tetra" -> {"la"}
              [] OTHER -> {}

\* The id sets that identify a system for good, the most specific first, and
\* the short code that only identifies a channel.
StrongIds == CASE Fam = "p25" -> <<{"wacn", "system_id"}, {"system_id"}>>
               [] Fam = "dmr" -> <<{"network_id"}>>
               [] Fam = "nxdn" -> <<{"system_code"}>>
               [] Fam = "tetra" -> <<{"mcc", "mnc"}>>
               [] Fam = "edacs" -> <<{"system_id"}>>
               [] OTHER -> <<>>
ShortCode == CASE Fam = "p25" -> "nac"
               [] Fam = "nxdn" -> "ran"
               [] Fam \in {"dmr", "tetra", "dpmr"} -> "cc"
               [] Fam = "dstar" -> "rpt1"
               [] Fam = "ysf" -> "downlink"
               [] OTHER -> "none"

Only(f, S) == Restrict(f, DOMAIN f \cap S)
At(f, x) == IF x \in DOMAIN f THEN f[x] ELSE 0
Put(f, x, v) == [y \in DOMAIN f \cup {x} |-> IF y = x THEN v ELSE f[y]]
Over(f, g) == [x \in DOMAIN f \cup DOMAIN g |-> IF x \in DOMAIN f THEN f[x] ELSE g[x]]
Without(f, S) == Restrict(f, DOMAIN f \ S)
SiteOf(ids) == IF Fam = "p25" /\ "site_id" \notin DOMAIN ids THEN NoIds ELSE Only(ids, SiteKeys)

\* A network's key: the ids that name it and how far they reach.
NoNet == [ids |-> NoIds, at |-> "nowhere", n |-> 0]
Everywhere(ids) == [ids |-> ids, at |-> "all", n |-> 0]
OnChannel(ids, f) == [ids |-> ids, at |-> "freq", n |-> f]
OnStream(ids, sid) == [ids |-> ids, at |-> "stream", n |-> sid]

Derive(ids) ==
  LET full == {i \in DOMAIN StrongIds : StrongIds[i] \subseteq DOMAIN ids}
  IN IF full # {} THEN [conf |-> "strong", ids |-> Only(ids, StrongIds[Min(full)])]
     ELSE IF ShortCode \in DOMAIN ids THEN [conf |-> "weak", ids |-> Only(ids, {ShortCode})]
     ELSE [conf |-> "none", ids |-> NoIds]

----------------------------------------------------------------------------
\* absorb_identity

Adjacent(c, line) ==
  IF line.kind = "sync" \/ line.broadcast THEN line.adj ELSE c.adjacent

\* A short code is believed once it was seen twice in a row; the established
\* value cancels a pending change.
Seen(c, got) ==
  LET weak == DOMAIN got \cap WeakAnchors
      same == {k \in weak : k \in DOMAIN c.ids /\ c.ids[k] = got[k]}
      count == [k \in weak \ same |->
                 IF k \in DOMAIN c.pending /\ c.pending[k].val = got[k]
                 THEN [c.pending[k] EXCEPT !.times = @ + 1] ELSE [val |-> got[k], times |-> 1]]
      sure == {k \in DOMAIN count : count[k].times >= 2}
  IN [pending |-> Over(Without(count, sure), Without(c.pending, weak)),
      got |-> Without(got, DOMAIN count \ sure)]

\* A neighbour's broadcast only adds its site to this stream's network.
NoteNeighbour(m, c, ids) ==
  IF SiteOf(ids) = NoIds \/ ~c.live \/ c.net \notin DOMAIN m.nets THEN m
  ELSE [m EXCEPT !.nets[c.net].sites = @ \cup {SiteOf(ids)}]

\* The stream's ids with those read, and whether that changed its identity.
Believe(m, sid, old, s) ==
  LET ids == Over(s.got, old.ids)
  IN [m |-> [m EXCEPT !.sess[sid] = [old EXCEPT !.pending = s.pending, !.ids = ids,
                                                !.site = IF ids # old.ids THEN SiteOf(ids) ELSE @]],
      changed |-> ids # old.ids]
\* Another value of an anchor starts the identity over.
Reread(c, got) ==
  IF \E k \in DOMAIN got \cap DOMAIN c.ids \cap Anchors : c.ids[k] # got[k]
  THEN [c EXCEPT !.ids = NoIds, !.net = NoNet, !.site = NoIds] ELSE c
Learn(m, sid, c, s) == Believe(m, sid, Reread(c, s.got), s)
Absorb(m, sid, line) ==
  LET c == [m.sess[sid] EXCEPT !.adjacent = Adjacent(m.sess[sid], line)]
  IN IF line.ids = NoIds THEN [m |-> [m EXCEPT !.sess[sid] = c], changed |-> FALSE]
     ELSE IF c.adjacent \/ line.adj
     THEN [m |-> NoteNeighbour([m EXCEPT !.sess[sid] = c], c, line.ids), changed |-> FALSE]
     ELSE Learn(m, sid, c, Seen(c, line.ids))

----------------------------------------------------------------------------
\* resolve_network

NewNetwork(conf, now) ==
  [conf |-> conf, ids |-> NoIds, sites |-> {}, freqs |-> {}, sessions |-> {}, calls |-> 0,
   first |-> now, last |-> now, keys |-> <<>>]

Oldest(f) == CHOOSE x \in DOMAIN f : \A y \in DOMAIN f : f[x].last <= f[y].last
\* A map that is full loses its oldest entry to a new one.
Ensure(f, key, new, cap) ==
  IF key \in DOMAIN f THEN f
  ELSE Put(IF Cardinality(DOMAIN f) >= cap THEN Without(f, {Oldest(f)}) ELSE f, key, new)

AddCounts(f, g) == [k \in DOMAIN f \cup DOMAIN g |-> At(f, k) + At(g, k)]
MaxOf(a, b) == IF a >= b THEN a ELSE b
MinOf(a, b) == IF a <= b THEN a ELSE b
Relabel(S, from, to) == IF from \in S THEN (S \ {from}) \cup {to} ELSE S

MergeNetwork(m, from, to) ==
  LET a == m.nets[from]
      z == m.nets[to]
      Named(f) == [x \in DOMAIN f |-> [f[x] EXCEPT !.networks = Relabel(@, from, to)]]
  IN IF ~({from, to} \subseteq DOMAIN m.nets) THEN m
     ELSE [m EXCEPT
        !.nets = Without([m.nets EXCEPT ![to] =
           [z EXCEPT !.ids = Over(@, a.ids), !.sites = @ \cup a.sites, !.freqs = @ \cup a.freqs,
                     !.sessions = @ \cup a.sessions, !.calls = @ + a.calls,
                     !.keys = AddCounts(@, a.keys), !.first = MinOf(@, a.first),
                     !.last = MaxOf(@, a.last)]], {from}),
        !.tgs = Named(@),
        !.radios = Named(@),
        !.calls = [i \in DOMAIN @ |-> IF @[i].net = from THEN [@[i] EXCEPT !.net = to] ELSE @[i]],
        !.sess = [s \in DOMAIN @ |-> IF @[s].net = from THEN [@[s] EXCEPT !.net = to] ELSE @[s]]]

\* The strong networks that carry this short code: on P25 one match is enough.
Carriers(m, code) ==
  IF Fam # "p25" THEN {}
  ELSE {k \in DOMAIN m.nets : /\ m.nets[k].conf = "strong"
                              /\ ShortCode \in DOMAIN m.nets[k].ids
                              /\ m.nets[k].ids[ShortCode] = code[ShortCode]}

Identity(m, sid) ==
  LET c == m.sess[sid]
      Named(d, here) ==
        IF d.conf = "strong" THEN [key |-> Everywhere(d.ids), conf |-> "strong"]
        ELSE IF d.conf = "weak" /\ Cardinality(here) = 1
        THEN [key |-> CHOOSE k \in here : TRUE, conf |-> "weak"]
        ELSE IF c.freq # 0 THEN [key |-> OnChannel(d.ids, c.freq), conf |-> "channel"]
        ELSE [key |-> OnStream(d.ids, sid), conf |-> d.conf]
      Of(d) == Named(d, Carriers(m, d.ids))
  IN Of(Derive(c.ids))

\* May the bucket the stream filled so far be folded into its new network:
\* only it fed the bucket, every anchor of the bucket is one of its own, or
\* the bucket is its channel's unidentified one?
Refines(m, sid, prev) ==
  LET c == m.sess[sid]
      p == m.nets[prev]
      anchors == DOMAIN p.ids \cap Anchors
  IN \/ p.sessions \subseteq {sid}
     \/ anchors # {} /\ \A k \in anchors : k \in DOMAIN c.ids /\ c.ids[k] = p.ids[k]
     \/ c.freq # 0 /\ prev = OnChannel(NoIds, c.freq)

FoldBucket(m, sid, key) ==
  LET net == m.sess[sid].net
  IN IF net \notin {NoNet, key} /\ net \in DOMAIN m.nets /\ Refines(m, sid, net)
     THEN MergeNetwork(m, net, key) ELSE m
NameNetwork(m, sid, id, now) ==
  LET nets == Ensure(m.nets, id.key, NewNetwork(id.conf, now), MaxNetworks)
  IN [m EXCEPT !.nets = [nets EXCEPT ![id.key] =
       [nets[id.key] EXCEPT !.conf = IF id.conf = "strong" THEN id.conf ELSE @,
                            !.ids = Over(m.sess[sid].ids, @)]]]
JoinNetwork(m, sid, id, now) ==
  [FoldBucket(NameNetwork(m, sid, id, now), sid, id.key) EXCEPT !.sess[sid].net = id.key]
Resolve(m, sid, now) == JoinNetwork(m, sid, Identity(m, sid), now)

----------------------------------------------------------------------------
\* prune_session_locked: what a stream that ends, or moves (retune), leaves.

\* A partial identity is covered by a network that has all of it.
Covered(m, key) ==
  LET n == m.nets[key]
      mine == DOMAIN n.ids \cap Anchors
  IN /\ mine # {}
     /\ n.conf = "strong" \/ Fam = "p25"
     /\ \E o \in DOMAIN m.nets \ {key} :
          /\ m.nets[o].conf = "strong"
          /\ \A k \in mine : k \in DOMAIN m.nets[o].ids /\ m.nets[o].ids[k] = n.ids[k]

\* Fault: only a channel's short code counts as known.
IdentifiedByCode(n) == n.conf = "channel" /\ n.ids # NoIds
Identified(n) == n.conf = "strong" \/ (n.conf = "channel" /\ n.ids # NoIds)

\* Fault: a network another running stream is on is dropped.
DroppableInUse(m, sid, key, retune) ==
  LET n == m.nets[key]
  IN /\ n.calls = 0 /\ sid \in n.sessions
     /\ retune \/ ~Identified(n) \/ Covered(m, key)
     /\ \A i \in DOMAIN m.calls : m.calls[i].net # key
Droppable(m, sid, key, retune) ==
  LET n == m.nets[key]
  IN /\ n.calls = 0 /\ sid \in n.sessions
     /\ retune \/ ~Identified(n) \/ Covered(m, key)
     /\ \A s \in DOMAIN m.sess \ {sid} : ~(m.sess[s].running /\ m.sess[s].family = Fam /\ m.sess[s].net = key)
     /\ \A i \in DOMAIN m.calls : m.calls[i].net # key

\* A radio without a talkgroup or a peer, a talkgroup without a radio.
Unlinked(x) ==
  IF "peers" \in DOMAIN x THEN x.tgs = <<>> /\ x.peers = <<>> ELSE x.radios = <<>>

Prune(m, sid, retune) ==
  LET Named(f, dead) == [x \in DOMAIN f |-> [f[x] EXCEPT !.networks = @ \ dead]]
      Spare(f) == Without(f, {x \in DOMAIN f : f[x].networks = {} /\ f[x].calls = 0 /\ Unlinked(f[x])})
      Emptied(m1) ==
        [m1 EXCEPT !.exists = ~(m1.nets = <<>> /\ m1.radios = <<>> /\ m1.tgs = <<>> /\ m1.calls = <<>>)]
      Drop(dead) ==
        IF dead = {} THEN m
        ELSE Emptied([m EXCEPT !.nets = Without(@, dead), !.radios = Spare(Named(@, dead)),
                               !.tgs = Spare(Named(@, dead)),
                               !.sess[sid].net = IF @ \in dead THEN NoNet ELSE @])
  IN IF sid \notin DOMAIN m.sess \/ m.sess[sid].family # Fam \/ ~m.exists THEN m
     ELSE Drop({k \in DOMAIN m.nets : Droppable(m, sid, k, retune)})
=============================================================================
