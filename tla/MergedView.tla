----------------------------- MODULE MergedView -----------------------------
(***************************************************************************)
(* Data sets of calls and how several become one (assoc_merge.hpp): which  *)
(* may be shown together, which calls of two receivers are one call, and   *)
(* what the counters say afterwards.                                       *)
(*                                                                         *)
(* A data set is [sources, nets, calls, counts, rules].  A source is a run *)
(* of a server and the span it covers.  The counters of its networks,      *)
(* talkgroups and radios are one bag, a counter being named by a tuple.    *)
(* `of` is the transmissions a call record stands for: no field of the     *)
(* code, it is what the properties compare.                                *)
(***************************************************************************)
EXTENDS NetMerges, Bags

CONSTANTS
  TwinGap,      \* kTwinGapMs
  MaxCalls      \* max_calls_: audio-less calls kept

ASSUME ViewAssumption == TwinGap \in Nat /\ MaxCalls \in Nat

NoName == ""

----------------------------------------------------------------------------
\* Calls and counters.

\* What counting a call adds (count_call), and uncount takes back.
Counted(c) ==
  LET key == <<c.alg, c.kid>>
      Keyed(kind, id) == IF c.kid = NoName THEN {} ELSE {<<kind, id, key>>}
      Radio == {<<"radio calls", c.src>>} \cup Keyed("radio key", c.src)
      Group == {<<"talkgroup calls", c.tgt>>} \cup Keyed("talkgroup key", c.tgt)
               \cup (IF c.emerg THEN {<<"talkgroup emergencies", c.tgt>>} ELSE {})
               \cup (IF c.enc THEN {<<"talkgroup encrypted", c.tgt>>} ELSE {})
  IN {<<"network calls", c.net>>} \cup Keyed("network key", c.net)
     \cup (IF c.src = NoName THEN {} ELSE Radio)
     \cup (IF c.priv
           THEN {<<"peer", c.src, c.tgt>>, <<"peer", c.tgt, c.src>>}
           ELSE Group \cup (IF c.src = NoName THEN {}
                            ELSE {<<"radio talkgroup", c.src, c.tgt>>, <<"talkgroup radio", c.tgt, c.src>>}))

Uncount(counts, dup) == counts (-) SetToBag(Counted(dup))

Fold(twin, dup) ==
  LET first == IF dup.start < twin.start THEN dup.start ELSE twin.start
      last == IF dup.last > twin.last THEN dup.last ELSE twin.last
      keyless == twin.kid = NoName
      silent == twin.audio = {}
  IN [twin EXCEPT !.emerg = @ \/ dup.emerg, !.enc = @ \/ dup.enc,
                  !.alg = IF keyless THEN dup.alg ELSE @, !.kid = IF keyless THEN dup.kid ELSE @,
                  !.audio = IF silent THEN dup.audio ELSE @,
                  !.start = first, !.last = last, !.streams = @ + dup.streams, !.of = @ \cup dup.of]

Twin(rules, o, c) ==
  /\ o.src # NoName /\ o.tgt # NoName
  /\ c.src # NoName /\ c.tgt # NoName /\ c.net # NoName
  /\ o.tgt = c.tgt /\ o.src = c.src /\ o.priv = c.priv
  /\ o.net = c.net \/ Root(rules, o.net) = Root(rules, c.net)
  /\ c.start <= o.last + TwinGap /\ o.start <= c.last + TwinGap

\* Fault: the merged data do not say what they cover.
MergeIntoUnnamed(into, from) ==
  LET rules == Union(into.rules, from.rules)
      before == 1..Len(into.calls)
      Step(acc, c) ==
        LET twins == {i \in before : Twin(rules, acc.calls[i], c)}
        IN IF twins = {} THEN [acc EXCEPT !.calls = Append(@, c)]
           ELSE [acc EXCEPT !.calls[Min(twins)] = Fold(@, c), !.counts = Uncount(@, c)]
      all == [sources |-> into.sources, nets |-> into.nets \cup from.nets,
              calls |-> into.calls, counts |-> into.counts (+) from.counts, rules |-> rules]
  IN FoldLeft(Step, all, from.calls)
\* merge_into: a call is compared with the calls that were there before, each
\* data set having joined its own receivers' records.
MergeInto(into, from) ==
  LET rules == Union(into.rules, from.rules)
      before == 1..Len(into.calls)
      Step(acc, c) ==
        LET twins == {i \in before : Twin(rules, acc.calls[i], c)}
        IN IF twins = {} THEN [acc EXCEPT !.calls = Append(@, c)]
           ELSE [acc EXCEPT !.calls[Min(twins)] = Fold(@, c), !.counts = Uncount(@, c)]
      all == [sources |-> into.sources \cup from.sources, nets |-> into.nets \cup from.nets,
              calls |-> into.calls, counts |-> into.counts (+) from.counts, rules |-> rules]
  IN FoldLeft(Step, all, from.calls)

NewestFirst(calls) ==
  LET starts == SetToSortSeq({calls[i].start : i \in DOMAIN calls}, >)
  IN FlattenSeq([n \in DOMAIN starts |-> SelectSeq(calls, LAMBDA c : c.start = starts[n])])

Audioless(calls) == {i \in DOMAIN calls : calls[i].audio = {}}
\* Calls with audio stay; of the others the newest.
CapCalls(calls) ==
  LET kept == {i \in DOMAIN calls :
                 \/ calls[i].audio # {}
                 \/ Cardinality(Audioless(calls) \cap 1..i) <= MaxCalls}
      order == SetToSortSeq(kept, <)
  IN [n \in DOMAIN order |-> calls[order[n]]]
FinalizeMerge(d) == [d EXCEPT !.calls = CapCalls(NewestFirst(@))]

----------------------------------------------------------------------------
\* Provenance: what may be shown together without counting anything twice.

\* Fault: only where the spans end is compared.
SpansAtTheEnd(a, b) == a.instance = b.instance /\ b.through <= a.through
Spans(a, b) == a.instance = b.instance /\ a.since <= b.since /\ b.through <= a.through
\* Fault: a span inside another does not overlap it.
OverlapsOnEdges(a, b) ==
  /\ a.instance = b.instance
  /\ \/ a.since = b.since /\ a.through = b.through
     \/ a.since < b.since /\ b.since < a.through
     \/ b.since < a.since /\ a.since < b.through
Overlaps(a, b) ==
  /\ a.instance = b.instance
  /\ \/ a.since = b.since /\ a.through = b.through
     \/ a.since < b.through /\ b.since < a.through
OverlapAny(xs, ys) == \E x \in xs, y \in ys : Overlaps(x, y)
Covered(xs, ys) == \A x \in xs : \E y \in ys : Spans(y, x)

Judge(x, layers, live) ==
  LET all == live \cup UNION {layers[i].sources : i \in DOMAIN layers}
      meets == {i \in DOMAIN layers : OverlapAny(x, layers[i].sources)}
      add == /\ ~(x # {} /\ Covered(x, all))
             /\ ~OverlapAny(x, live)
             /\ \A i \in meets : Covered(layers[i].sources, x)
  IN [add |-> add, replaces |-> IF add THEN meets ELSE {}]

NoData == [sources |-> {}, nets |-> {}, calls |-> <<>>, counts |-> EmptyBag, rules |-> NoRules]
MergeAll(first, layers) ==
  FoldLeft(LAMBDA d, i : MergeInto(d, layers[i]), first, SetToSortSeq(DOMAIN layers, <))

\* net-merge and the page's "Open...": several export files, in order.
MergeExports(files) ==
  LET Step(layers, n) ==
        LET verdict == Judge(files[n].sources, layers, {})
        IN IF ~verdict.add THEN layers
           ELSE (n :> files[n]) @@ [i \in DOMAIN layers \ verdict.replaces |-> layers[i]]
      layers == FoldLeft(Step, NoRules, [n \in DOMAIN files |-> n])
  IN FinalizeMerge(MergeAll(NoData, layers))
=============================================================================
