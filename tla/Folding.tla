------------------------------- MODULE Folding -------------------------------
(***************************************************************************)
(* What holds of a FoldLeft whatever the sequence is: a loop invariant of  *)
(* the code's loops over lists, maps and lines.  The provers cannot        *)
(* instantiate an induction theorem that takes an operator, so a module    *)
(* that folds with its own operator instantiates this one: Op is the body  *)
(* of its loop and Good what the loop keeps, both in a setting e.          *)
(***************************************************************************)
EXTENDS Naturals, Sequences, SequencesExt, WellFoundedInduction, TLAPS

CONSTANTS
  Op(_, _, _),    \* e, what was made so far, the next element
  Good(_, _, _)   \* e, what was made so far, of so many elements

Fold(e, base, seq) == FoldLeft(LAMBDA acc, x : Op(e, acc, x), base, seq)

\* A set of numbers that is not empty has a least one.
LEMMA Least == ASSUME NEW T, T \subseteq Nat, T # {} PROVE \E x \in T : \A y \in T : x <= y
<1>1. IsWellFoundedOn(OpToRel(<, Nat), Nat) BY NatLessThanWellFounded
<1>2. PICK x \in T : \A y \in T : ~(<<y, x>> \in OpToRel(<, Nat)) BY <1>1, WFMin
<1>3. \A y \in T : ~(y < x)
  <2> SUFFICES ASSUME NEW y \in T, y < x PROVE <<y, x>> \in OpToRel(<, Nat) BY <1>2
  <2> QED BY DEF OpToRel
<1>4. x \in Nat /\ \A y \in T : y \in Nat OBVIOUS
<1> QED BY <1>3, <1>4

\* h is the fold's own function: what is made of the elements with these indices.
Iterates(e, base, seq, n, h) ==
  h = [t \in SUBSET (1..n) |-> IF t = {} THEN base ELSE Op(e, h[t \ {Max(t)}], seq[Max(t)])]

\* The last index is the greatest.
LEMMA MaxIsLast == ASSUME NEW n \in Nat, NEW t \in SUBSET (1..n), n \in t PROVE Max(t) = n
<1>1. \A y \in t : n >= y OBVIOUS
<1>2. Max(t) \in t /\ \A y \in t : Max(t) >= y BY <1>1 DEF Max
<1> DEFINE m == Max(t)
<1>3. m \in t /\ m >= n BY <1>2
<1> HIDE DEF m
<1>4. m \in Nat /\ n >= m BY <1>3
<1>5. m = n BY <1>3, <1>4
<1> QED BY <1>5 DEF m

\* There is one for an index more.
LEMMA IteratesFurther ==
  ASSUME NEW e, NEW base, NEW seq, NEW n \in Nat, NEW h, Iterates(e, base, seq, n, h)
  PROVE  \E g : Iterates(e, base, seq, n + 1, g)
<1> DEFINE g == [t \in SUBSET (1..n + 1) |-> IF n + 1 \in t THEN Op(e, h[t \ {n + 1}], seq[n + 1]) ELSE h[t]]
<1> SUFFICES Iterates(e, base, seq, n + 1, g) OBVIOUS
<1>1. \A t \in SUBSET (1..n + 1) : n + 1 \notin t => t \in SUBSET (1..n) OBVIOUS
<1>2. \A t \in SUBSET (1..n + 1) : t \ {n + 1} \in SUBSET (1..n) OBVIOUS
<1>3. ASSUME NEW t \in SUBSET (1..n + 1)
      PROVE  g[t] = IF t = {} THEN base ELSE Op(e, g[t \ {Max(t)}], seq[Max(t)])
  <2>1. CASE n + 1 \in t
    <3>1. Max(t) = n + 1 BY <2>1, MaxIsLast, n + 1 \in Nat
    <3>2. g[t \ {n + 1}] = h[t \ {n + 1}] OBVIOUS
    <3>3. g[t] = Op(e, h[t \ {n + 1}], seq[n + 1]) BY <2>1
    <3> HIDE DEF g
    <3> QED BY <2>1, <3>1, <3>2, <3>3
  <2>2. CASE n + 1 \notin t
    <3>1. t \in SUBSET (1..n) BY <1>1, <2>2
    <3>2. h[t] = IF t = {} THEN base ELSE Op(e, h[t \ {Max(t)}], seq[Max(t)])
      BY <3>1 DEF Iterates
    <3>3. g[t] = h[t] /\ g[t \ {Max(t)}] = h[t \ {Max(t)}] BY <2>2
    <3> HIDE DEF g
    <3> QED BY <3>2, <3>3
  <2> QED BY <2>1, <2>2
<1>4. g = [t \in SUBSET (1..n + 1) |-> g[t]] OBVIOUS
<1> HIDE DEF g
<1> QED BY <1>3, <1>4 DEF Iterates

\* So there is one for every length.
LEMMA IteratesAll ==
  ASSUME NEW e, NEW base, NEW seq, NEW n \in Nat PROVE \E h : Iterates(e, base, seq, n, h)
<1> DEFINE T == {k \in Nat : ~\E h : Iterates(e, base, seq, k, h)}
<1> SUFFICES ASSUME T # {} PROVE FALSE OBVIOUS
<1>1. T \subseteq Nat OBVIOUS
<1>2. PICK k \in T : \A j \in T : k <= j
  <2> HIDE DEF T
  <2> QED BY <1>1, Least
<1>3. Iterates(e, base, seq, 0, [t \in SUBSET (1..0) |-> base])
  <2>1. \A t \in SUBSET (1..0) : t = {} OBVIOUS
  <2> QED BY <2>1 DEF Iterates
<1>4. k # 0 BY <1>3
<1>5. k - 1 \in Nat /\ (k - 1) + 1 = k /\ ~(k <= k - 1) BY <1>4
<1>6. k - 1 \notin T BY <1>2, <1>5
<1>7. PICK h : Iterates(e, base, seq, k - 1, h) BY <1>5, <1>6
<1>8. \E g : Iterates(e, base, seq, (k - 1) + 1, g) BY <1>5, <1>7, IteratesFurther
<1> QED BY <1>5, <1>8

\* The fold is what its function makes of all the elements.
LEMMA FoldIterates ==
  ASSUME NEW e, NEW base, NEW seq, NEW n \in Nat, DOMAIN seq = 1..n
  PROVE  \E h : Iterates(e, base, seq, n, h) /\ Fold(e, base, seq) = h[1..n]
<1> DEFINE h == CHOOSE h : h = [t \in SUBSET DOMAIN seq |->
                                 IF t = {} THEN base ELSE Op(e, h[t \ {Max(t)}], seq[Max(t)])]
<1>1. Fold(e, base, seq) = h[DOMAIN seq] BY DEF Fold, FoldLeft, MapThenFoldSet
<1>2. \E g : g = [t \in SUBSET DOMAIN seq |-> IF t = {} THEN base ELSE Op(e, g[t \ {Max(t)}], seq[Max(t)])]
  <2>1. PICK g : Iterates(e, base, seq, n, g) BY IteratesAll
  <2> WITNESS g
  <2> QED BY <2>1 DEF Iterates
<1>3. h = [t \in SUBSET DOMAIN seq |-> IF t = {} THEN base ELSE Op(e, h[t \ {Max(t)}], seq[Max(t)])]
  BY <1>2
<1> HIDE DEF h
<1> QED BY <1>1, <1>3 DEF Iterates

\* r is what the loop has made after so many elements.
Runs(e, base, seq, n, r) == r[0] = base /\ \A k \in 1..n : r[k] = Op(e, r[k - 1], seq[k])

\* Every loop has one, and ends with the last.
LEMMA FoldRuns ==
  ASSUME NEW e, NEW base, NEW seq, NEW n \in Nat, DOMAIN seq = 1..n
  PROVE  \E r : Runs(e, base, seq, n, r) /\ Fold(e, base, seq) = r[n]
<1>1. PICK h : Iterates(e, base, seq, n, h) /\ Fold(e, base, seq) = h[1..n] BY FoldIterates, ZenonT(40)
<1>2. h[{}] = base BY <1>1 DEF Iterates
<1>3. ASSUME NEW k \in 1..n PROVE h[1..k] = Op(e, h[1..(k - 1)], seq[k])
  <2>1. k \in Nat /\ 1..k \in SUBSET (1..n) /\ k \in 1..k /\ 1..k # {} OBVIOUS
  <2>2. Max(1..k) = k BY <2>1, MaxIsLast
  <2>3. (1..k) \ {k} = 1..(k - 1) OBVIOUS
  <2> QED BY <1>1, <2>1, <2>2, <2>3 DEF Iterates
<1> DEFINE r == [k \in 0..n |-> h[1..k]]
<1>4. r[0] = base /\ r[n] = Fold(e, base, seq)
  <2>1. 1..0 = {} /\ 0 \in 0..n /\ n \in 0..n OBVIOUS
  <2> QED BY <1>1, <1>2, <2>1
<1>5. ASSUME NEW k \in 1..n PROVE r[k] = Op(e, r[k - 1], seq[k])
  <2>1. k \in 0..n /\ k - 1 \in 0..n OBVIOUS
  <2>2. r[k] = h[1..k] /\ r[k - 1] = h[1..(k - 1)] BY <2>1
  <2> HIDE DEF r
  <2> QED BY <1>3, <2>2
<1> HIDE DEF r
<1> QED BY <1>4, <1>5 DEF Runs

\* What holds at the start and is kept by the body of a loop holds at its end.
THEOREM FoldKeeps ==
  ASSUME NEW e, NEW base, NEW seq, NEW n \in Nat, DOMAIN seq = 1..n,
         Good(e, base, 0),
         \A k \in 1..n : \A acc : Good(e, acc, k - 1) => Good(e, Op(e, acc, seq[k]), k)
  PROVE  Good(e, Fold(e, base, seq), n)
<1>1. PICK r : Runs(e, base, seq, n, r) /\ Fold(e, base, seq) = r[n] BY FoldRuns
<1> DEFINE T == {k \in 0..n : ~Good(e, r[k], k)}
<1>2. T = {}
  <2> SUFFICES ASSUME T # {} PROVE FALSE OBVIOUS
  <2>1. T \subseteq Nat OBVIOUS
  <2>2. PICK k \in T : \A j \in T : k <= j
    <3> HIDE DEF T
    <3> QED BY <2>1, Least
  <2>3. k # 0 BY <1>1 DEF Runs
  <2>4. k \in 1..n /\ k - 1 \in 0..n /\ ~(k <= k - 1) BY <2>3
  <2>5. Good(e, r[k - 1], k - 1) BY <2>2, <2>4
  <2>6. Good(e, r[k], k) BY <1>1, <2>4, <2>5 DEF Runs
  <2> QED BY <2>6
<1>3. n \in 0..n OBVIOUS
<1> QED BY <1>1, <1>2, <1>3
=============================================================================
