---------------------------- MODULE SameNetwork ----------------------------
(***************************************************************************)
(* The explorer page's network merges and its "probably the same network"  *)
(* judgement (net_page.hpp: applyMerges, mergesAdd, mergesRemove,          *)
(* sameEvidence, sameJudge, sameSuggestions, autoMergePairs).              *)
(*                                                                         *)
(* The data of one protocol is a record d:                                 *)
(*   calls   the calls listed: [id, net, session, slot, src, tgt, priv,    *)
(*           start, last]; src and tgt are 0 when not decoded              *)
(*   rules   d.merges: the key each merged network is shown under          *)
(*   shown   the networks shown: key -> the networks it is made of         *)
(* A network is [ids, freqs, conf, bare, radios]: its codes, its channels, *)
(* the rank of its confidence, whether nothing of it was decoded but the   *)
(* frequency, and the radios heard on it.  Confidence is not strong unless *)
(* it is 3.  Sites, names, first and last heard are left out.              *)
(***************************************************************************)
EXTENDS Integers, Sequences, FiniteSets, SequencesExt, FiniteSetsExt

CONSTANTS
  Networks,   \* the networks of the instance, by key
  Order,      \* their keys, in the order of the server's list
  TwinGap,    \* 4 s
  Near,       \* 6.25 kHz: AUTO_MERGE_MAX_GAP is 2.5 kHz
  VeryNear,
  ClashCap    \* CLASH_CAP

NoGap == 1000000

\* What the server sends: channels and calls are numbers, and the list has
\* every network once.
ASSUME NetworksAssumption ==
  /\ IsFiniteSet(DOMAIN Networks)
  /\ \A k \in DOMAIN Networks : IsFiniteSet(Networks[k].freqs) /\ Networks[k].freqs \subseteq Nat
  /\ Order \in Seq(DOMAIN Networks) /\ ToSet(Order) = DOMAIN Networks
  /\ \A i, j \in DOMAIN Order : Order[i] = Order[j] => i = j
  /\ TwinGap \in Nat /\ Near \in Nat /\ VeryNear \in Nat

Strong == 3
\* CODE_NAME, in its order.
CodeNames == <<"cc", "nac", "ran">>

-----------------------------------------------------------------------------
\* The rules, and the networks they show.

RootOf(rules, key) == IF key \in DOMAIN rules THEN rules[key] ELSE key

\* Fault: a network already merged elsewhere is taken for the target.
MergesAddToPart(rules, from, to) ==
  IF to = from \/ RootOf(rules, from) = to THEN rules
  ELSE [k \in DOMAIN rules \cup {from} |-> IF k = from \/ rules[k] = from THEN to ELSE rules[k]]
\* mergesAdd: "the same rules as the server's", for file views.
MergesAdd(rules, from, to) ==
  LET r == RootOf(rules, to)
  IN IF r = from \/ RootOf(rules, from) = r THEN rules
     ELSE [k \in DOMAIN rules \cup {from} |-> IF k = from \/ rules[k] = from THEN r ELSE rules[k]]
Without(rules, keys) == [k \in DOMAIN rules \ keys |-> rules[k]]
MergesRemove(rules, key) ==
  Without(rules, IF key \in DOMAIN rules THEN {key} ELSE {k \in DOMAIN rules : rules[k] = key})

\* applyMerges: each group is shown as one network; the data stays apart.
ApplyMerges(d) ==
  LET roots == {RootOf(d.rules, k) : k \in DOMAIN Networks}
  IN [d EXCEPT !.shown = [r \in roots |-> {k \in DOMAIN Networks : RootOf(d.rules, k) = r}]]

\* What a shown network is: its ids are a target's own first, then its parts'
\* in order.
Speaker(d, key, name) ==
  LET at == {i \in DOMAIN Order : Order[i] \in d.shown[key] /\ name \in DOMAIN Networks[Order[i]].ids}
  IN IF \E i \in at : Order[i] = key THEN key ELSE Order[Min(at)]
IdsOf(d, key) ==
  [name \in UNION {DOMAIN Networks[k].ids : k \in d.shown[key]} |-> Networks[Speaker(d, key, name)].ids[name]]
FreqsOf(d, key) == UNION {Networks[k].freqs : k \in d.shown[key]}
ConfOf(d, key) == Max({Networks[k].conf : k \in d.shown[key]})
RadiosOf(d, key) == UNION {Networks[k].radios : k \in d.shown[key]}
CallsOf(d, key) == {c \in d.calls : RootOf(d.rules, c.net) = key}
Unidentified(key) == key \in DOMAIN Networks /\ Networks[key].bare

-----------------------------------------------------------------------------
\* The evidence.

ShownNet(d, c) == RootOf(d.rules, c.net)
Earlier(x, y) == x.start < y.start \/ (x.start = y.start /\ x.id < y.id)
Ordered(d) == SetToSortSeq(d.calls, Earlier)

\* The same call heard on two networks by different streams.
Twin(d, x, y) ==
  /\ x.src # 0 /\ x.tgt # 0 /\ x.src = y.src /\ x.tgt = y.tgt /\ x.priv = y.priv
  /\ ShownNet(d, x) # ShownNet(d, y) /\ x.session # y.session
  /\ IF Earlier(x, y) THEN y.start <= x.last + TwinGap ELSE x.start <= y.last + TwinGap

\* Two calls at the same moment on two networks, o the earlier.
AtOnce(d, o, c) == o.last >= c.start /\ ShownNet(d, o) # ShownNet(d, c) /\ ~Twin(d, o, c)

TwinsOf(d, a, b) == Cardinality({p \in CallsOf(d, a) \X CallsOf(d, b) : Twin(d, p[1], p[2])})
OneStream(d, a, b) ==
  \E o, c \in d.calls : /\ Earlier(o, c) /\ {ShownNet(d, o), ShownNet(d, c)} = {a, b}
                        /\ AtOnce(d, o, c) /\ o.session = c.session

\* Different calls on one slot at the same moment: each call counts for at most
\* ClashCap of them.
ClashPairs(d) ==
  LET q == Ordered(d)
      Clash(p) == /\ AtOnce(d, q[p[1]], q[p[2]]) /\ q[p[1]].session # q[p[2]].session
                  /\ q[p[1]].slot = q[p[2]].slot
                  /\ ~(q[p[1]].src = q[p[2]].src /\ q[p[1]].tgt = q[p[2]].tgt)
      all == {p \in (DOMAIN q) \X (DOMAIN q) : p[1] < p[2] /\ Clash(p)}
      used(acc, i) == Cardinality({p \in acc : i \in {p[1], p[2]}})
  IN {{ShownNet(d, q[p[1]]), ShownNet(d, q[p[2]])} :
        p \in FoldLeft(LAMBDA acc, p : IF used(acc, p[1]) >= ClashCap \/ used(acc, p[2]) >= ClashCap THEN acc ELSE acc \cup {p},
                       {}, SetToSortSeq(all, LAMBDA p, r : p[2] < r[2] \/ (p[2] = r[2] /\ p[1] < r[1])))}

SameEvidence(d, a, b) ==
  [twins |-> TwinsOf(d, a, b), sameStream |-> OneStream(d, a, b), clash |-> {a, b} \in ClashPairs(d),
   radios |-> Cardinality(RadiosOf(d, a) \cap RadiosOf(d, b))]

-----------------------------------------------------------------------------
\* The judgement.

NetCode(ids) ==
  LET have == {i \in DOMAIN CodeNames : CodeNames[i] \in DOMAIN ids}
  IN IF have = {} THEN <<>> ELSE <<Min(have), ids[CodeNames[Min(have)]]>>
FreqGap(fs, gs) ==
  Min({NoGap} \cup {IF f < g THEN g - f ELSE f - g : f \in fs, g \in gs})

\* Fault: a fleet of radios heard on both is as good as one code.
SameJudgeFleet(d, a, b, e) ==
  LET gap == FreqGap(FreqsOf(d, a), FreqsOf(d, b))
  IN CASE Unidentified(a) \/ Unidentified(b) \/ (ConfOf(d, a) = Strong /\ ConfOf(d, b) = Strong) -> 0
       [] e.sameStream \/ (e.twins = 0 /\ gap > Near /\ e.radios < 2) -> 0
       [] e.twins > 0 /\ ~e.clash -> 3
       [] e.twins > 0 \/ (e.radios >= 2 /\ gap <= VeryNear) -> 2
       [] OTHER -> 1
\* 3 very likely, 2 likely, 1 possible, 0 ruled out.
SameJudge(d, a, b, e) ==
  LET ca == NetCode(IdsOf(d, a))
      cb == NetCode(IdsOf(d, b))
      sameCode == ca # <<>> /\ ca = cb
      gap == FreqGap(FreqsOf(d, a), FreqsOf(d, b))
      crossFleet == e.radios >= 2
      ruledOut == \/ Unidentified(a) \/ Unidentified(b)
                  \/ ConfOf(d, a) = Strong /\ ConfOf(d, b) = Strong
                  \/ ca # <<>> /\ cb # <<>> /\ ~sameCode /\ e.twins = 0 /\ ~crossFleet
                  \/ e.sameStream
                  \/ e.clash /\ e.twins = 0 /\ ~crossFleet
                  \/ e.twins = 0 /\ gap > Near /\ ~crossFleet
  IN CASE ruledOut -> 0
       [] ~ruledOut /\ e.twins > 0 /\ ~e.clash -> 3
       [] ~ruledOut /\ ((e.twins > 0 /\ e.clash) \/ (e.twins = 0 /\ sameCode /\ gap <= VeryNear)) -> 2
       [] OTHER -> 1

\* The networks listed, by their places in the list: identified, or with traffic.
NetShown(d) ==
  {i \in DOMAIN Order : Order[i] \in DOMAIN d.shown /\ (~Unidentified(Order[i]) \/ CallsOf(d, Order[i]) # {})}

\* sameSuggestions, before the pairs set aside are left out: the pairs that are
\* not ruled out.
Load(d, key) == Cardinality(CallsOf(d, key))
Offer(d, i, j) ==
  LET a == Order[i]
      b == Order[j]
      e == SameEvidence(d, a, b)
      tier == SameJudge(d, a, b, e)
      gap == FreqGap(FreqsOf(d, a), FreqsOf(d, b))
      busier == Load(d, a) >= Load(d, b)
  IN [tier |-> tier, gap |-> gap, to |-> IF busier THEN a ELSE b, from |-> IF busier THEN b ELSE a,
      rank |-> <<0 - tier, 0 - e.twins, gap, 0 - (Load(d, a) + Load(d, b)), i, j>>]
Offers(d) ==
  {s \in {Offer(d, x[1], x[2]) : x \in {y \in NetShown(d) \X NetShown(d) : y[1] < y[2]}} : s.tier > 0}

\* Likeliest first.
Before(s, t) == \E i \in 1..6 : s.rank[i] < t.rank[i] /\ \A j \in 1..(i - 1) : s.rank[j] = t.rank[j]
InOrder(S) == [n \in 1..Cardinality(S) |-> CHOOSE s \in S : Cardinality({t \in S : Before(t, s)}) = n - 1]
=============================================================================
