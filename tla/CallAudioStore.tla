--------------------------- MODULE CallAudioStore ---------------------------
(***************************************************************************)
(* The store of call recordings (assoc_audio.hpp, CallAudioStore) as       *)
(* operators on its value: the index of its files, oldest first, the files *)
(* being written, and the names evicted since the model last asked.  A     *)
(* size is a number of audio blocks; the 44 bytes of a header are left out.*)
(***************************************************************************)
EXTENDS Naturals, Sequences, FiniteSets, SequencesExt

CONSTANTS
  AudioCap,     \* cap_bytes, in blocks
  MaxAge        \* max_age_ms; 0 is no age limit

ASSUME StoreAssumption == AudioCap \in Nat /\ MaxAge \in Nat

NoFile == <<0, 0>>
EmptyStore == [on |-> FALSE, index |-> <<>>, open |-> {}, evicted |-> {}]

Indexed(s) == {e.name : e \in ToSet(s.index)}
Total(s) == FoldLeft(LAMBDA n, e : n + e.size, 0, s.index)
AddSize(s, name, n, now) ==
  [s EXCEPT !.index = [i \in DOMAIN @ |->
     IF @[i].name = name THEN [name |-> name, size |-> @[i].size + n, mtime |-> now] ELSE @[i]]]

\* Oldest finished files go first, until the store is under its cap and the
\* oldest one left is young enough.
OverCap(total, e, now) == total > AudioCap \/ (MaxAge > 0 /\ now - e.mtime > MaxAge)
Swept(s, now) ==
  LET Step(a, e) ==
        IF a.done \/ ~OverCap(a.total, e, now)
        THEN [a EXCEPT !.done = TRUE, !.kept = Append(@, e)]
        ELSE IF e.name \in s.open
        THEN [a EXCEPT !.kept = Append(@, e)]
        ELSE [a EXCEPT !.total = @ - e.size, !.gone = @ \cup {e.name}]
  IN FoldLeft(Step, [done |-> FALSE, total |-> Total(s), kept |-> <<>>, gone |-> {}], s.index)
\* Fault: the model is not told which files went.
EnforceUntold(s, now) == [s EXCEPT !.index = Swept(s, now).kept]
Enforce(s, now) ==
  LET r == Swept(s, now) IN [s EXCEPT !.index = r.kept, !.evicted = @ \cup r.gone]

\* enable() reads the directory again: the files it indexed before are there.
Enable(s, now) == Enforce([s EXCEPT !.on = TRUE], now)
Disable(s) == [s EXCEPT !.on = FALSE, !.open = {}]
CanOpen(s, name) == s.on /\ name \notin s.open
OpenFile(s, name, now) ==
  [s EXCEPT !.open = @ \cup {name}, !.index = Append(@, [name |-> name, size |-> 0, mtime |-> now])]
AppendTo(s, name, n, now) ==
  IF name \notin s.open \/ n = 0 THEN s
  ELSE LET a == AddSize(s, name, n, now) IN IF Total(a) > AudioCap THEN Enforce(a, now) ELSE a
Finish(s, name) == [s EXCEPT !.open = @ \ {name}]
\* The files of an index that are not among those deleted.
Left(index, gone) ==
  FoldLeft(LAMBDA left, e : IF e.name \in gone THEN left ELSE Append(left, e), <<>>, index)
Discard(s, name) == [Finish(s, name) EXCEPT !.index = Left(@, {name})]
RemoveAll(s) == [s EXCEPT !.index = Left(@, Indexed(s) \ s.open)]
=============================================================================
