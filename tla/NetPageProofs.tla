--------------------------- MODULE NetPageProofs ---------------------------
(***************************************************************************)
(* What NetPage promises, for any networks, calls, files and number of     *)
(* acts: the rules the page shows are such as the server would make, and   *)
(* what it merges by itself has its evidence.                              *)
(***************************************************************************)
EXTENDS NetPage, FiniteSetTheorems, TLAPS

\* The loops over the pairs of an auto-merge and over the renders it causes.
RulesOK(F) == F \in AnyRules /\ Server!Flat(F)
JoinPair(e, acc, x) == MergesAdd(acc, x.from, x.to)
JoinGood(e, acc, n) == RulesOK(acc)
Joining == INSTANCE Folding WITH Op <- JoinPair, Good <- JoinGood

----------------------------------------------------------------------------
(* The order of the suggestions. *)

Ranked(S) ==
  /\ \A s \in S : \A i \in 1..6 : s.rank[i] \in Int
  /\ \A s, t \in S : (\A i \in 1..6 : s.rank[i] = t.rank[i]) => s = t
Below(S, s) == {t \in S : Before(t, s)}

\* Of two suggestions the one or the other is likelier.
LEMMA BeforeTotal ==
  ASSUME NEW S, Ranked(S), NEW s \in S, NEW t \in S, s # t
  PROVE  Before(s, t) \/ Before(t, s)
<1> DEFINE T == {i \in 1..6 : s.rank[i] # t.rank[i]}
<1>1. T # {} /\ T \subseteq Nat BY DEF Ranked
<1>2. PICK i \in T : \A j \in T : i <= j
  <2> HIDE DEF T
  <2> QED BY <1>1, Joining!Least
<1>3. i \in 1..6 /\ s.rank[i] # t.rank[i] OBVIOUS
<1>4. \A j \in 1..(i - 1) : s.rank[j] = t.rank[j]
  <2> TAKE j \in 1..(i - 1)
  <2>1. j \in 1..6 /\ ~(i <= j) BY <1>3
  <2> QED BY <1>2, <2>1
<1>5. s.rank[i] \in Int /\ t.rank[i] \in Int BY <1>3 DEF Ranked
<1>6. s.rank[i] < t.rank[i] \/ t.rank[i] < s.rank[i] BY <1>3, <1>5
<1> QED BY <1>3, <1>4, <1>6 DEF Before

\* What is likelier than a likelier one is likelier; and nothing than itself.
LEMMA BeforeStrict ==
  ASSUME NEW S, Ranked(S), NEW s \in S, NEW t \in S, NEW u \in S
  PROVE  ~Before(s, s) /\ (Before(s, t) /\ Before(t, u) => Before(s, u))
<1>1. ~Before(s, s) BY DEF Before, Ranked
<1>2. ASSUME Before(s, t), Before(t, u) PROVE Before(s, u)
  <2>1. PICK i \in 1..6 : s.rank[i] < t.rank[i] /\ \A j \in 1..(i - 1) : s.rank[j] = t.rank[j]
    BY <1>2 DEF Before
  <2>2. PICK k \in 1..6 : t.rank[k] < u.rank[k] /\ \A j \in 1..(k - 1) : t.rank[j] = u.rank[j]
    BY <1>2 DEF Before
  <2>3. \A l \in 1..6 : s.rank[l] \in Int /\ t.rank[l] \in Int /\ u.rank[l] \in Int BY DEF Ranked
  <2>4. CASE i < k
    <3>1. i \in 1..(k - 1) BY <2>4
    <3>2. s.rank[i] < u.rank[i] BY <2>1, <2>2, <3>1
    <3>3. \A j \in 1..(i - 1) : s.rank[j] = u.rank[j]
      <4> TAKE j \in 1..(i - 1)
      <4>1. j \in 1..(k - 1) BY <2>4
      <4> QED BY <2>1, <2>2, <4>1
    <3> QED BY <3>2, <3>3 DEF Before
  <2>5. CASE k < i
    <3>1. k \in 1..(i - 1) BY <2>5
    <3>2. s.rank[k] < u.rank[k] BY <2>1, <2>2, <3>1
    <3>3. \A j \in 1..(k - 1) : s.rank[j] = u.rank[j]
      <4> TAKE j \in 1..(k - 1)
      <4>1. j \in 1..(i - 1) BY <2>5
      <4> QED BY <2>1, <2>2, <4>1
    <3> QED BY <3>2, <3>3 DEF Before
  <2>6. CASE i = k
    <3>1. s.rank[i] < u.rank[i]
      <4>1. s.rank[i] < t.rank[i] /\ t.rank[i] < u.rank[i] BY <2>1, <2>2, <2>6
      <4>2. s.rank[i] \in Int /\ t.rank[i] \in Int /\ u.rank[i] \in Int BY <2>3
      <4> QED BY <4>1, <4>2
    <3>2. \A j \in 1..(i - 1) : s.rank[j] = u.rank[j] BY <2>1, <2>2, <2>6
    <3> QED BY <3>1, <3>2 DEF Before
  <2> QED BY <2>4, <2>5, <2>6
<1> QED BY <1>1, <1>2

\* The likelier of two has fewer before it.
LEMMA BelowGrows ==
  ASSUME NEW S, IsFiniteSet(S), Ranked(S), NEW s \in S, NEW t \in S, Before(s, t)
  PROVE  /\ Cardinality(Below(S, s)) \in Nat /\ Cardinality(Below(S, t)) \in Nat
         /\ Cardinality(Below(S, s)) < Cardinality(Below(S, t))
<1>1. Below(S, s) \subseteq S /\ Below(S, t) \subseteq S BY DEF Below
<1>2. IsFiniteSet(Below(S, s)) /\ IsFiniteSet(Below(S, t)) BY <1>1, FS_Subset
<1>3. Cardinality(Below(S, s)) \in Nat /\ Cardinality(Below(S, t)) \in Nat BY <1>2, FS_CardinalityType
<1>4. Below(S, s) \in SUBSET Below(S, t) BY BeforeStrict DEF Below
<1>5. s \in Below(S, t) /\ s \notin Below(S, s) BY BeforeStrict DEF Below
<1>6. /\ Cardinality(Below(S, s)) <= Cardinality(Below(S, t))
      /\ Cardinality(Below(S, s)) = Cardinality(Below(S, t)) => Below(S, s) = Below(S, t)
  BY <1>2, <1>4, FS_Subset
<1>7. Cardinality(Below(S, s)) # Cardinality(Below(S, t)) BY <1>5, <1>6
<1> QED BY <1>3, <1>6, <1>7

\* Few suggestions have fewer than n before them: no two have equally many.
LEMMA FewBelow ==
  ASSUME NEW S, IsFiniteSet(S), Ranked(S), NEW n \in Nat
  PROVE  LET U == {s \in S : Cardinality(Below(S, s)) < n}
         IN IsFiniteSet(U) /\ Cardinality(U) \in Nat /\ Cardinality(U) <= n
<1> DEFINE U == {s \in S : Cardinality(Below(S, s)) < n}
           f == [s \in U |-> Cardinality(Below(S, s)) + 1]
<1>1. \A s \in S : Cardinality(Below(S, s)) \in Nat
  <2> TAKE s \in S
  <2>1. Below(S, s) \in SUBSET S BY DEF Below
  <2> QED BY <2>1, FS_Subset, FS_CardinalityType
<1>2. f \in [U -> 1..n] BY <1>1
<1>3. \A s, t \in U : f[s] = f[t] => s = t
  <2> SUFFICES ASSUME NEW s \in U, NEW t \in U, s # t PROVE f[s] # f[t] OBVIOUS
  <2>1. Before(s, t) \/ Before(t, s) BY BeforeTotal
  <2>2. Cardinality(Below(S, s)) # Cardinality(Below(S, t)) BY <1>1, <2>1, BelowGrows
  <2> QED BY <1>1, <2>2
<1>4. f \in Injection(U, 1..n) BY <1>2, <1>3 DEF Injection, IsInjective
<1>5. IsFiniteSet(1..n) /\ Cardinality(1..n) = n
  <2>1. 1 \in Int /\ n \in Int OBVIOUS
  <2> QED BY <2>1, FS_Interval
<1> HIDE DEF f, U
<1>6. IsFiniteSet(U) /\ Cardinality(U) <= n BY <1>4, <1>5, FS_Injection
<1>7. Cardinality(U) \in Nat BY <1>6, FS_CardinalityType
<1> QED BY <1>6, <1>7 DEF U

\* There is a suggestion for every place.
LEMMA PlaceTaken ==
  ASSUME NEW S, IsFiniteSet(S), Ranked(S), NEW n \in 1..Cardinality(S)
  PROVE  \E s \in S : Cardinality(Below(S, s)) = n - 1
<1> DEFINE r(s) == Cardinality(Below(S, s))
           U == {s \in S : r(s) < n - 1}
           V == {s \in S : ~(r(s) < n - 1)}
           T == {r(s) : s \in V}
<1>1. n \in Nat /\ n - 1 \in Nat /\ Cardinality(S) \in Nat /\ n <= Cardinality(S)
  BY FS_CardinalityType
<1>2. \A s \in S : r(s) \in Nat
  <2> TAKE s \in S
  <2>1. Below(S, s) \in SUBSET S BY DEF Below
  <2> QED BY <2>1, FS_Subset, FS_CardinalityType
<1>3. IsFiniteSet(U) /\ Cardinality(U) \in Nat /\ Cardinality(U) <= n - 1 BY <1>1, FewBelow
<1>4. V # {}
  <2> SUFFICES ASSUME V = {} PROVE FALSE OBVIOUS
  <2>1. U = S BY <1>1, <1>2
  <2> QED BY <1>1, <1>3, <2>1
<1>5. T # {} /\ T \subseteq Nat BY <1>2, <1>4
<1>6. PICK x \in T : \A y \in T : x <= y
  <2> HIDE DEF T
  <2> QED BY <1>5, Joining!Least
<1>7. PICK s \in V : x = r(s) OBVIOUS
<1>8. Below(S, s) \in SUBSET U
  <2> SUFFICES ASSUME NEW t \in S, Before(t, s) PROVE t \in U BY DEF Below
  <2>1. r(t) < r(s) BY BelowGrows
  <2>2. r(t) \in Nat /\ r(s) \in Nat BY <1>2
  <2> SUFFICES ASSUME t \in V PROVE FALSE BY <1>1, <1>2
  <2>3. r(s) <= r(t) BY <1>6, <1>7
  <2> QED BY <2>1, <2>2, <2>3
<1>9. r(s) <= Cardinality(U)
  <2> HIDE DEF U
  <2> QED BY <1>3, <1>8, FS_Subset
<1>10. r(s) \in Nat /\ ~(r(s) < n - 1) BY <1>2
<1>11. r(s) = n - 1
  <2> HIDE DEF U, r
  <2> QED BY <1>1, <1>3, <1>9, <1>10
<1> QED BY <1>11

\* The suggestions in order are the suggestions.
LEMMA InOrderOf ==
  ASSUME NEW S, IsFiniteSet(S), Ranked(S)
  PROVE  /\ InOrder(S) = [n \in 1..Cardinality(S) |-> InOrder(S)[n]]
         /\ Cardinality(S) \in Nat
         /\ \A n \in 1..Cardinality(S) : InOrder(S)[n] \in S
<1>1. Cardinality(S) \in Nat BY FS_CardinalityType
<1>2. InOrder(S) = [n \in 1..Cardinality(S) |-> CHOOSE s \in S : Cardinality(Below(S, s)) = n - 1]
  BY DEF InOrder, Below
<1>3. \A n \in 1..Cardinality(S) : (CHOOSE s \in S : Cardinality(Below(S, s)) = n - 1) \in S
  BY PlaceTaken
<1> QED BY <1>1, <1>2, <1>3

----------------------------------------------------------------------------
(* What is offered. *)

ShownBy(rules) ==
  [r \in {RootOf(rules, k) : k \in DOMAIN Networks} |-> {k \in DOMAIN Networks : RootOf(rules, k) = r}]
DataFields == {"calls", "rules", "shown", "keyed", "version"}
DataOK(d) ==
  /\ DOMAIN d = DataFields /\ d.calls \in AnyCalls /\ RulesOK(d.rules) /\ d.shown = ShownBy(d.rules)

\* The server's answer and an opened file are data whose networks are grouped
\* by its rules.
LEMMA DataIsOK ==
  ASSUME NEW calls \in AnyCalls, NEW rules, RulesOK(rules), NEW keyed, NEW version
  PROVE  /\ DataOK(Data(calls, rules, keyed, version))
         /\ Data(calls, rules, keyed, version).calls = calls
         /\ Data(calls, rules, keyed, version).rules = rules
  BY DEF Data, ApplyMerges, DataOK, ShownBy, DataFields

\* So is a view with other rules.
LEMMA WithRulesIsOK ==
  ASSUME NEW d, DataOK(d), NEW rules, RulesOK(rules) PROVE DataOK(WithRules(d, rules))
  BY DEF WithRules, ApplyMerges, DataOK, ShownBy, DataFields

\* The calls of a view are a finite set.
LEMMA FiniteCalls ==
  ASSUME NEW d, DataOK(d), NEW key
  PROVE  /\ IsFiniteSet(d.calls) /\ IsFiniteSet(CallsOf(d, key)) /\ Cardinality(CallsOf(d, key)) \in Nat
         /\ \A c \in d.calls : {c.id, c.start, c.last} \subseteq Nat /\ c.start <= c.last
<1>1. /\ IsFiniteSet(d.calls)
      /\ \A c \in d.calls : {c.id, c.start, c.last} \subseteq Nat /\ c.start <= c.last
  <2>1. CASE d.calls \in SUBSET (Heard \cup Pool)
    <3>1. IsFiniteSet(Heard \cup Pool) BY CallsAssumption
    <3> QED BY <2>1, <3>1, CallsAssumption, FS_Subset
  <2>2. CASE d.calls \in {Files[f].calls : f \in DOMAIN Files} BY <2>2, CallsAssumption
  <2>3. d.calls \in AnyCalls BY DEF DataOK
  <2>4. d.calls \in SUBSET (Heard \cup Pool) \/ d.calls \in {Files[f].calls : f \in DOMAIN Files}
    BY <2>3 DEF AnyCalls
  <2> HIDE DEF CallsOf
  <2> QED BY <2>1, <2>2, <2>4
<1>2. CallsOf(d, key) \in SUBSET d.calls BY DEF CallsOf
<1> QED BY <1>1, <1>2, FS_Subset, FS_CardinalityType

\* The judgement is a number, and so is how far apart two networks are.
LEMMA JudgeIsTier == ASSUME NEW d, NEW a, NEW b, NEW e PROVE SameJudge(d, a, b, e) \in 0..3
  BY DEF SameJudge

\* The members of the list are the networks.
LEMMA Listed ==
  /\ IsFiniteSet(DOMAIN Order) /\ DOMAIN Order \subseteq Nat
  /\ \A i \in DOMAIN Order : Order[i] \in DOMAIN Networks
<1>1. Order \in Seq(DOMAIN Networks) BY NetworksAssumption
<1>2. Len(Order) \in Nat /\ DOMAIN Order = 1..Len(Order) /\ \A i \in 1..Len(Order) : Order[i] \in DOMAIN Networks
  BY <1>1
<1>3. 1 \in Int /\ Len(Order) \in Int BY <1>2
<1>4. IsFiniteSet(1..Len(Order)) BY <1>3, FS_Interval
<1> QED BY <1>2, <1>4

\* The least difference of two networks' channels.
LEMMA GapIsNat ==
  ASSUME NEW F \in SUBSET Nat, NEW G \in SUBSET Nat
  PROVE  FreqGap(F, G) \in Nat /\ FreqGap(F, G) = FreqGap(G, F)
<1> DEFINE D(f, g) == IF f < g THEN g - f ELSE f - g
           S == {NoGap} \cup {D(f, g) : f \in F, g \in G}
           T == {NoGap} \cup {D(f, g) : f \in G, g \in F}
<1>1. FreqGap(F, G) = Min(S) /\ FreqGap(G, F) = Min(T) BY DEF FreqGap
<1>2. \A f \in F, g \in G : D(f, g) = D(g, f) /\ D(f, g) \in Nat OBVIOUS
<1>3. S = T
  <2>1. \A x \in S : x \in T BY <1>2
  <2>2. \A x \in T : x \in S BY <1>2
  <2> HIDE DEF S, T
  <2> QED BY <2>1, <2>2
<1>4. S \subseteq Nat /\ S # {} BY <1>2 DEF NoGap
<1> HIDE DEF S, T
<1>5. \E x \in S : \A y \in S : x <= y BY <1>4, Joining!Least
<1>6. Min(S) \in S BY <1>5 DEF Min
<1> QED BY <1>1, <1>3, <1>4, <1>6

\* A shown network's channels are channels.
LEMMA FreqsAreNat == ASSUME NEW d, DataOK(d), NEW key \in DOMAIN d.shown PROVE FreqsOf(d, key) \in SUBSET Nat
<1>1. d.shown[key] \subseteq DOMAIN Networks BY DEF DataOK, ShownBy
<1> QED BY <1>1, NetworksAssumption DEF FreqsOf

\* What an offer is made of.
OfferOf(d, s) ==
  \E i, j \in NetShown(d) : i # j /\ s = Offer(d, i, j) /\ s.tier > 0

\* A shown network has its channels, and calls in a number.
LEMMA ShownIs ==
  ASSUME NEW d, DataOK(d), NEW i \in NetShown(d)
  PROVE  /\ i \in DOMAIN Order /\ Order[i] \in DOMAIN Networks
         /\ FreqsOf(d, Order[i]) \in SUBSET Nat /\ Load(d, Order[i]) \in Nat
<1>1. i \in DOMAIN Order /\ Order[i] \in DOMAIN d.shown BY DEF NetShown
<1> QED BY <1>1, Listed, FreqsAreNat, FiniteCalls DEF Load

\* How many calls were heard on both is a number.
LEMMA TwinsAreNat ==
  ASSUME NEW d, DataOK(d), NEW a, NEW b
  PROVE  /\ TwinsOf(d, a, b) \in Nat
         /\ TwinsOf(d, a, b) > 0 => \E x \in CallsOf(d, a), y \in CallsOf(d, b) : Twin(d, x, y)
<1> DEFINE P == CallsOf(d, a) \X CallsOf(d, b)
           S == {p \in P : Twin(d, p[1], p[2])}
<1>1. IsFiniteSet(CallsOf(d, a)) /\ IsFiniteSet(CallsOf(d, b)) BY FiniteCalls
<1>2. IsFiniteSet(P) BY <1>1, FS_Product
<1>3. S \in SUBSET P OBVIOUS
<1>4. IsFiniteSet(S)
  <2> HIDE DEF S, P
  <2> QED BY <1>2, <1>3, FS_Subset
<1>5. TwinsOf(d, a, b) = Cardinality(S) BY DEF TwinsOf
<1>6. Cardinality(S) \in Nat /\ (Cardinality(S) > 0 => S # {})
  <2> HIDE DEF S
  <2> QED BY <1>4, FS_CardinalityType, FS_EmptySet
<1>7. S # {} => \E x \in CallsOf(d, a), y \in CallsOf(d, b) : Twin(d, x, y) OBVIOUS
<1> QED BY <1>5, <1>6, <1>7

\* An offer's rank is of numbers, the last two its places in the list.
LEMMA OfferRank ==
  ASSUME NEW d, DataOK(d), NEW i \in NetShown(d), NEW j \in NetShown(d)
  PROVE  /\ \A n \in 1..6 : Offer(d, i, j).rank[n] \in Int
         /\ Offer(d, i, j).rank[5] = i /\ Offer(d, i, j).rank[6] = j
<1> DEFINE a == Order[i]
           b == Order[j]
           e == SameEvidence(d, a, b)
           tier == SameJudge(d, a, b, e)
           gap == FreqGap(FreqsOf(d, a), FreqsOf(d, b))
           twins == e.twins
           load == Load(d, a) + Load(d, b)
<1>1. i \in Int /\ j \in Int /\ FreqsOf(d, a) \in SUBSET Nat /\ FreqsOf(d, b) \in SUBSET Nat /\ load \in Nat
  <2>1. i \in DOMAIN Order /\ j \in DOMAIN Order BY ShownIs
  <2>2. Load(d, a) \in Nat /\ Load(d, b) \in Nat BY ShownIs
  <2>3. FreqsOf(d, a) \in SUBSET Nat /\ FreqsOf(d, b) \in SUBSET Nat BY ShownIs
  <2> QED BY <2>1, <2>2, <2>3, Listed
<1>2. gap \in Nat BY <1>1, GapIsNat
<1>3. tier \in 0..3 BY JudgeIsTier
<1>4. twins \in Nat
  <2>1. twins = TwinsOf(d, a, b) BY DEF SameEvidence
  <2> QED BY <2>1, TwinsAreNat
<1>5. Offer(d, i, j).rank = <<0 - tier, 0 - twins, gap, 0 - load, i, j>> BY DEF Offer
<1> HIDE DEF tier, twins, gap, load
<1>6. 0 - tier \in Int /\ 0 - twins \in Int /\ gap \in Int /\ 0 - load \in Int BY <1>1, <1>2, <1>3, <1>4
<1> QED BY <1>1, <1>5, <1>6

\* The offers are finitely many, each a pair of shown networks, each with a
\* rank of its own.
LEMMA OffersAre ==
  ASSUME NEW d, DataOK(d)
  PROVE  IsFiniteSet(Offers(d)) /\ Ranked(Offers(d)) /\ \A s \in Offers(d) : OfferOf(d, s)
<1> DEFINE N == NetShown(d)
           P == {y \in N \X N : y[1] < y[2]}
           f == [x \in P |-> Offer(d, x[1], x[2])]
           All == {Offer(d, x[1], x[2]) : x \in P}
<1>1. N \in SUBSET DOMAIN Order BY DEF NetShown
<1>2. IsFiniteSet(P)
  <2>1. IsFiniteSet(N)
    <3> HIDE DEF N
    <3> QED BY <1>1, Listed, FS_Subset
  <2>2. IsFiniteSet(N \X N)
    <3> HIDE DEF N
    <3> QED BY <2>1, FS_Product
  <2>3. P \in SUBSET (N \X N) OBVIOUS
  <2> HIDE DEF N, P
  <2> QED BY <2>2, <2>3, FS_Subset
<1>3. IsFiniteSet(All)
  <2>1. f \in Surjection(P, All)
    <3> HIDE DEF P
    <3> QED BY DEF Surjection
  <2> HIDE DEF P, All, f
  <2> QED BY <1>2, <2>1, FS_Surjection
<1>4. Offers(d) \in SUBSET All BY DEF Offers
<1>5. IsFiniteSet(Offers(d))
  <2> HIDE DEF All
  <2> QED BY <1>3, <1>4, FS_Subset
<1>6. \A s \in Offers(d) : \E x \in P : s = Offer(d, x[1], x[2]) /\ s.tier > 0
  <2>1. Offers(d) = {s \in All : s.tier > 0} BY DEF Offers
  <2> HIDE DEF P
  <2> QED BY <2>1
<1>7. \A x \in P : x[1] \in NetShown(d) /\ x[2] \in NetShown(d) /\ x[1] < x[2] /\ x = <<x[1], x[2]>> OBVIOUS
<1>8. \A s \in Offers(d) : OfferOf(d, s)
  <2> TAKE s \in Offers(d)
  <2>1. PICK x \in P : s = Offer(d, x[1], x[2]) /\ s.tier > 0 BY <1>6
  <2>2. x[1] \in NetShown(d) /\ x[2] \in NetShown(d) /\ x[1] < x[2] BY <1>7
  <2>3. x[1] \in Nat /\ x[2] \in Nat BY <1>1, <2>2, Listed
  <2> HIDE DEF P
  <2>4. x[1] # x[2] BY <2>2, <2>3
  <2> QED BY <2>1, <2>2, <2>4 DEF OfferOf
<1>9. Ranked(Offers(d))
  <2>1. ASSUME NEW s \in Offers(d) PROVE \A i \in 1..6 : s.rank[i] \in Int
    <3>1. PICK i, j \in NetShown(d) : s = Offer(d, i, j) BY <1>8 DEF OfferOf
    <3> QED BY <3>1, OfferRank
  <2>2. ASSUME NEW s \in Offers(d), NEW t \in Offers(d), \A i \in 1..6 : s.rank[i] = t.rank[i] PROVE s = t
    <3>1. PICK i, j \in NetShown(d) : s = Offer(d, i, j) BY <1>8 DEF OfferOf
    <3>2. PICK k, l \in NetShown(d) : t = Offer(d, k, l) BY <1>8 DEF OfferOf
    <3>3. s.rank[5] = i /\ s.rank[6] = j /\ t.rank[5] = k /\ t.rank[6] = l BY <3>1, <3>2, OfferRank
    <3>4. i = k /\ j = l
      <4>1. 5 \in 1..6 /\ 6 \in 1..6 OBVIOUS
      <4> QED BY <2>2, <3>3, <4>1
    <3> QED BY <3>1, <3>2, <3>4
  <2> QED BY <2>1, <2>2 DEF Ranked
<1> QED BY <1>5, <1>8, <1>9

----------------------------------------------------------------------------
(* What is merged. *)

\* The offers worked out once are those of the view.
LEMMA OfferedAre ==
  ASSUME NEW d, DataOK(d)
  PROVE  \E e : /\ DataOK(e) /\ e.calls = d.calls /\ e.rules = d.rules /\ e.shown = d.shown
                /\ Offered[<<d.calls, d.rules>>] = Offers(e)
<1> DEFINE e == Data(d.calls, d.rules, {}, 0)
<1>1. d.calls \in AnyCalls /\ d.rules \in AnyRules /\ RulesOK(d.rules) BY DEF DataOK, RulesOK
<1>2. DataOK(e) /\ e.calls = d.calls /\ e.rules = d.rules BY <1>1, DataIsOK
<1>3. e.shown = d.shown BY <1>2 DEF DataOK
<1>4. Offered[<<d.calls, d.rules>>] = Offers(e)
  <2>1. <<d.calls, d.rules>> \in AnyCalls \X AnyRules BY <1>1
  <2> QED BY <2>1 DEF Offered
<1> HIDE DEF e
<1> QED BY <1>2, <1>3, <1>4

\* An auto-merge is a sequence of qualifying offers.
Qualifies(d, s) == OfferOf(d, s) /\ s.tier >= 2 /\ s.gap <= VeryNear
\* The pairs the page's auto-merge takes are such a sequence (autoMergePairs).
LEMMA PairsQualify ==
  ASSUME NEW d, DataOK(d), NEW notSame
  PROVE  \E e, n : /\ DataOK(e) /\ e.calls = d.calls /\ e.rules = d.rules /\ e.shown = d.shown
                   /\ n \in Nat /\ DOMAIN AutoMergePairs(d, notSame) = 1..n
                   /\ \A i \in 1..n : Qualifies(e, AutoMergePairs(d, notSame)[i])
<1>1. PICK e : /\ DataOK(e) /\ e.calls = d.calls /\ e.rules = d.rules /\ e.shown = d.shown
               /\ Offered[<<d.calls, d.rules>>] = Offers(e)
  BY OfferedAre
<1> DEFINE S == {s \in SameSuggestions(d, notSame) : s.tier >= 2 /\ s.gap <= VeryNear}
<1>2. S \in SUBSET Offers(e) BY <1>1 DEF SameSuggestions
<1>3. \A s \in S : s \in Offers(e) /\ s.tier >= 2 /\ s.gap <= VeryNear BY <1>2
<1>4. AutoMergePairs(d, notSame) = InOrder(S) BY DEF AutoMergePairs
<1> HIDE DEF S
<1>5. IsFiniteSet(S) BY <1>1, <1>2, OffersAre, FS_Subset
<1>6. Ranked(S) BY <1>1, <1>2, OffersAre DEF Ranked
<1>7. /\ Cardinality(S) \in Nat /\ DOMAIN InOrder(S) = 1..Cardinality(S)
      /\ \A i \in 1..Cardinality(S) : InOrder(S)[i] \in S
  <2>1. DOMAIN InOrder(S) = 1..Cardinality(S) BY DEF InOrder
  <2> QED BY <1>5, <1>6, <2>1, InOrderOf
<1>8. \A s \in S : Qualifies(e, s) BY <1>1, <1>3, OffersAre DEF Qualifies
<1> WITNESS e, Cardinality(S)
<1> QED BY <1>1, <1>4, <1>7, <1>8

\* A pair is of two networks of the server's.
LEMMA PairIsOfTwo ==
  ASSUME NEW d, DataOK(d), NEW s, OfferOf(d, s)
  PROVE  s.from \in DOMAIN Networks /\ s.to \in DOMAIN Networks
<1>1. PICK i, j \in NetShown(d) : s = Offer(d, i, j) BY DEF OfferOf
<1>2. Order[i] \in DOMAIN Networks /\ Order[j] \in DOMAIN Networks BY ShownIs
<1> QED BY <1>1, <1>2 DEF Offer

----------------------------------------------------------------------------
(* The rules. *)

\* A set of rules is a function on some networks, each to another, a root.
LEMMA RulesAre ==
  ASSUME NEW F
  PROVE  RulesOK(F) <=> /\ F = [k \in DOMAIN F |-> F[k]] /\ DOMAIN F \subseteq DOMAIN Networks
                        /\ \A k \in DOMAIN F : F[k] \in DOMAIN Networks /\ F[k] \notin DOMAIN F
<1>1. ASSUME RulesOK(F)
      PROVE  /\ F = [k \in DOMAIN F |-> F[k]] /\ DOMAIN F \subseteq DOMAIN Networks
             /\ \A k \in DOMAIN F : F[k] \in DOMAIN Networks /\ F[k] \notin DOMAIN F
  <2>1. PICK keys \in SUBSET DOMAIN Networks : F \in [keys -> DOMAIN Networks] BY <1>1 DEF RulesOK, AnyRules
  <2>2. \A k \in DOMAIN F : F[k] \notin DOMAIN F BY <1>1 DEF RulesOK, Server!Flat
  <2> QED BY <2>1, <2>2
<1>2. ASSUME F = [k \in DOMAIN F |-> F[k]], DOMAIN F \subseteq DOMAIN Networks,
             \A k \in DOMAIN F : F[k] \in DOMAIN Networks /\ F[k] \notin DOMAIN F
      PROVE  RulesOK(F)
  <2>1. F \in [DOMAIN F -> DOMAIN Networks] BY <1>2
  <2>2. F \in AnyRules BY <1>2, <2>1 DEF AnyRules
  <2> QED BY <1>2, <2>2 DEF RulesOK, Server!Flat
<1> QED BY <1>1, <1>2

\* No rules are rules.
LEMMA NoRulesOK == RulesOK(<<>>)
<1>1. DOMAIN <<>> = {} /\ <<>> = [k \in DOMAIN <<>> |-> <<>>[k]] OBVIOUS
<1> QED BY <1>1, RulesAre

\* The server counts its rules as anyone does.
LEMMA SameCount == ASSUME NEW S PROVE Server!Cardinality(S) = Cardinality(S)
  BY DEF Cardinality, Server!Cardinality

\* The page's merge is the server's: below the cap on rules while one of the
\* networks has none.
LEMMA AddIsTheServers ==
  ASSUME NEW F, RulesOK(F), NEW from \in DOMAIN Networks, NEW to \in DOMAIN Networks
  PROVE  MergesAdd(F, from, to) = Server!Add(F, from, to) /\ RulesOK(MergesAdd(F, from, to))
<1> DEFINE r == RootOf(F, to)
           G == [k \in DOMAIN F \cup {from} |-> IF k = from \/ F[k] = from THEN r ELSE F[k]]
<1>1. /\ F = [k \in DOMAIN F |-> F[k]] /\ DOMAIN F \subseteq DOMAIN Networks
      /\ \A k \in DOMAIN F : F[k] \in DOMAIN Networks /\ F[k] \notin DOMAIN F
  BY RulesAre
<1>2. r \in DOMAIN Networks /\ r \notin DOMAIN F /\ Server!Root(F, to) = r /\ Server!Root(F, from) = RootOf(F, from)
  BY <1>1 DEF RootOf, Server!Root
<1>3. from \notin DOMAIN F => ~(Cardinality(DOMAIN F) >= Cardinality(DOMAIN Networks))
  <2> SUFFICES ASSUME from \notin DOMAIN F PROVE ~(Cardinality(DOMAIN F) >= Cardinality(DOMAIN Networks)) OBVIOUS
  <2>1. IsFiniteSet(DOMAIN Networks) BY NetworksAssumption
  <2>2. /\ IsFiniteSet(DOMAIN F) /\ Cardinality(DOMAIN F) <= Cardinality(DOMAIN Networks)
        /\ Cardinality(DOMAIN Networks) = Cardinality(DOMAIN F) => DOMAIN Networks = DOMAIN F
    BY <1>1, <2>1, FS_Subset
  <2>3. Cardinality(DOMAIN F) \in Nat /\ Cardinality(DOMAIN Networks) \in Nat BY <2>1, <2>2, FS_CardinalityType
  <2>4. DOMAIN Networks # DOMAIN F OBVIOUS
  <2> QED BY <2>2, <2>3, <2>4
<1>4. G = [k \in DOMAIN F \cup {from} |-> IF k = from THEN r ELSE IF F[k] = from THEN r ELSE F[k]] OBVIOUS
<1>5. MergesAdd(F, from, to) = Server!Add(F, from, to)
  <2>1. MergesAdd(F, from, to) = IF r = from \/ RootOf(F, from) = r THEN F ELSE G BY DEF MergesAdd
  <2>2. Server!Add(F, from, to) = IF r = from \/ RootOf(F, from) = r THEN F ELSE G
    <3> DEFINE H == [k \in DOMAIN F \cup {from} |-> IF k = from THEN r ELSE IF F[k] = from THEN r ELSE F[k]]
               full == from \notin DOMAIN F /\ Cardinality(DOMAIN F) >= Cardinality(DOMAIN Networks)
               q == Server!Root(F, to)
    <3>1. Server!Add(F, from, to) =
            IF q = from \/ Server!Root(F, from) = q \/ full THEN F
            ELSE [k \in DOMAIN F \cup {from} |-> IF k = from THEN q ELSE IF F[k] = from THEN q ELSE F[k]]
      BY SameCount DEF Server!Add
    <3>2. q = r /\ Server!Root(F, from) = RootOf(F, from) /\ ~full BY <1>2, <1>3
    <3>3. H = G BY <1>4
    <3>4. [k \in DOMAIN F \cup {from} |-> IF k = from THEN q ELSE IF F[k] = from THEN q ELSE F[k]] = H
      BY <3>2
    <3> HIDE DEF q, full, r, G, H
    <3> QED BY <3>1, <3>2, <3>3, <3>4
  <2> QED BY <2>1, <2>2
<1>6. ASSUME r # from PROVE RulesOK(G)
  <2>1. G = [k \in DOMAIN G |-> G[k]] /\ DOMAIN G \subseteq DOMAIN Networks BY <1>1
  <2>2. ASSUME NEW k \in DOMAIN G PROVE G[k] \in DOMAIN Networks /\ G[k] \notin DOMAIN G
    BY <1>1, <1>2, <1>6
  <2> HIDE DEF G
  <2> QED BY <2>1, <2>2, RulesAre
<1>7. RulesOK(MergesAdd(F, from, to)) BY <1>6 DEF MergesAdd
<1> QED BY <1>5, <1>7

\* The page's unmerge is the server's.
LEMMA RemoveIsTheServers ==
  ASSUME NEW F, RulesOK(F), NEW key
  PROVE  MergesRemove(F, key) = Server!LetGo(F, key) /\ RulesOK(MergesRemove(F, key))
<1>1. /\ F = [k \in DOMAIN F |-> F[k]] /\ DOMAIN F \subseteq DOMAIN Networks
      /\ \A k \in DOMAIN F : F[k] \in DOMAIN Networks /\ F[k] \notin DOMAIN F
  BY RulesAre
<1>2. ASSUME NEW keys PROVE RulesOK([k \in DOMAIN F \ keys |-> F[k]])
  <2> DEFINE G == [k \in DOMAIN F \ keys |-> F[k]]
  <2>1. G = [k \in DOMAIN G |-> G[k]] /\ DOMAIN G \subseteq DOMAIN Networks BY <1>1
  <2>2. \A k \in DOMAIN G : G[k] \in DOMAIN Networks /\ G[k] \notin DOMAIN G BY <1>1
  <2> HIDE DEF G
  <2>3. RulesOK(G) BY <2>1, <2>2, RulesAre
  <2> QED BY <2>3 DEF G
<1>3. RulesOK(MergesRemove(F, key)) BY <1>2 DEF MergesRemove, Without
<1>4. DOMAIN F \ {k \in DOMAIN F : F[k] = key} = {k \in DOMAIN F : F[k] # key} OBVIOUS
<1>5. MergesRemove(F, key) = Server!LetGo(F, key)
  BY <1>4 DEF MergesRemove, Without, Server!LetGo, Server!Only
<1> QED BY <1>3, <1>5

\* A file view's auto-merge: the pairs' rules one after another.
PairsOf(d, pairs) ==
  \E e, n : /\ DataOK(e) /\ e.calls = d.calls /\ e.rules = d.rules /\ e.shown = d.shown
            /\ n \in Nat /\ DOMAIN pairs = 1..n /\ \A i \in 1..n : Qualifies(e, pairs[i])
\* Merging them one after another leaves the rules flat.
LEMMA RulesKeep ==
  ASSUME NEW d, DataOK(d), NEW pairs, PairsOf(d, pairs) PROVE RulesOK(Rules(d, pairs))
<1>1. PICK e, n : DataOK(e) /\ n \in Nat /\ DOMAIN pairs = 1..n /\ \A i \in 1..n : Qualifies(e, pairs[i])
  BY DEF PairsOf
<1>2. JoinGood(0, d.rules, 0) BY DEF DataOK, JoinGood
<1>3. ASSUME NEW k \in 1..n, NEW acc, JoinGood(0, acc, k - 1) PROVE JoinGood(0, JoinPair(0, acc, pairs[k]), k)
  <2>1. pairs[k].from \in DOMAIN Networks /\ pairs[k].to \in DOMAIN Networks
    BY <1>1, PairIsOfTwo DEF Qualifies
  <2> QED BY <1>3, <2>1, AddIsTheServers DEF JoinGood, JoinPair
<1>4. JoinGood(0, Joining!Fold(0, d.rules, pairs), n) BY <1>1, <1>2, <1>3, Joining!FoldKeeps
<1>5. Rules(d, pairs) = Joining!Fold(0, d.rules, pairs)
  BY DEF Rules, JoinPair, Joining!Fold, FoldLeft, Joining!FoldLeft, MapThenFoldSet, Joining!MapThenFoldSet,
         Max, Joining!Max
<1> QED BY <1>4, <1>5 DEF JoinGood

----------------------------------------------------------------------------
(* A render. *)

PageFields == {"file", "d", "fam", "stored", "paused", "hold", "auto", "notSame", "am", "sig"}
ViewOK(d) == d = NoView \/ DataOK(d)
RequestsOK(q) == q \in Seq((DOMAIN Networks) \X (DOMAIN Networks))
PageOK(p) == DOMAIN p = PageFields /\ ViewOK(p.d) /\ RequestsOK(p.am)

\* The only member of a set.
LEMMA TheOne == ASSUME NEW x PROVE The({x}) = x BY DEF The

\* The requests of an auto-merge name networks.
LEMMA RequestsOfPairs ==
  ASSUME NEW d, DataOK(d), NEW pairs, PairsOf(d, pairs)
  PROVE  RequestsOK([i \in DOMAIN pairs |-> <<pairs[i].from, pairs[i].to>>])
<1>1. PICK e, n : DataOK(e) /\ n \in Nat /\ DOMAIN pairs = 1..n /\ \A i \in 1..n : Qualifies(e, pairs[i])
  BY DEF PairsOf
<1>2. \A i \in 1..n : pairs[i].from \in DOMAIN Networks /\ pairs[i].to \in DOMAIN Networks
  BY <1>1, PairIsOfTwo DEF Qualifies
<1> DEFINE q == [i \in DOMAIN pairs |-> <<pairs[i].from, pairs[i].to>>]
<1>3. q \in [1..n -> (DOMAIN Networks) \X (DOMAIN Networks)] BY <1>1, <1>2
<1> HIDE DEF q
<1>4. q \in Seq((DOMAIN Networks) \X (DOMAIN Networks)) BY <1>1, <1>3
<1> QED BY <1>4 DEF q, RequestsOK

\* Auto-merge leaves a view, and requests, that name networks.
LEMMA AutoMergeKeeps ==
  ASSUME NEW p, PageOK(p), DataOK(p.d), NEW pairs, PairsOf(p.d, pairs) PROVE PageOK(AutoMerge(p, pairs))
<1> DEFINE sig == <<p.file # 0, p.d.version, {<<s.to, s.from>> : s \in ToSet(pairs)}>>
           v == WithRules(p.d, Rules(p.d, pairs))
           q == [i \in DOMAIN pairs |-> <<pairs[i].from, pairs[i].to>>]
<1>1. DataOK(v) BY RulesKeep, WithRulesIsOK
<1>2. RequestsOK(q) BY RequestsOfPairs
<1>3. AutoMerge(p, pairs) =
        IF pairs = <<>> \/ p.sig = sig THEN p
        ELSE IF p.file # 0 THEN [p EXCEPT !.sig = sig, !.d = v] ELSE [p EXCEPT !.sig = sig, !.am = q]
  BY DEF AutoMerge
<1> HIDE DEF sig, v, q
<1>4. PageOK([p EXCEPT !.sig = sig, !.d = v]) BY <1>1 DEF PageOK, PageFields, ViewOK
<1>5. PageOK([p EXCEPT !.sig = sig, !.am = q]) BY <1>2 DEF PageOK, PageFields
<1> QED BY <1>3, <1>4, <1>5

\* So does the end of a render.
LEMMA MaybeKeeps == ASSUME NEW p, PageOK(p) PROVE PageOK(MaybeAutoMerge(p))
<1> DEFINE pairs == AutoMergePairs(p.d, p.notSame)
           idle == p.d = NoView \/ p.am # <<>> \/ ~p.auto \/ p.fam # "dmr"
<1>1. MaybeAutoMerge(p) = IF idle THEN p ELSE The({AutoMerge(p, x) : x \in {pairs}}) BY DEF MaybeAutoMerge
<1>2. {AutoMerge(p, x) : x \in {pairs}} = {AutoMerge(p, pairs)}
  <2> HIDE DEF pairs
  <2> QED OBVIOUS
<1>3. ASSUME ~idle PROVE PageOK(AutoMerge(p, pairs))
  <2>1. DataOK(p.d) BY <1>3 DEF PageOK, ViewOK
  <2>2. PairsOf(p.d, pairs) BY <2>1, PairsQualify DEF PairsOf
  <2> HIDE DEF pairs
  <2> QED BY <2>1, <2>2, AutoMergeKeeps
<1> HIDE DEF pairs, idle
<1> QED BY <1>1, <1>2, <1>3, TheOne

RenderAgain(e, S, x) == {MaybeAutoMerge(q) : q \in S}
RenderGood(e, S, n) == S # {} /\ \A q \in S : PageOK(q)
Rendering == INSTANCE Folding WITH Op <- RenderAgain, Good <- RenderGood

\* A render, with the auto-merges it makes, leaves a view of the server's or a
\* file's data under rules of its own.
LEMMA RenderKeeps == ASSUME NEW p, PageOK(p) PROVE PageOK(Render(p))
<1>1. Len(Order) \in Nat /\ DOMAIN Order = 1..Len(Order)
  <2>1. Order \in Seq(DOMAIN Networks) BY NetworksAssumption
  <2> QED BY <2>1
<1>2. RenderGood(0, {p}, 0) BY DEF RenderGood
<1>3. ASSUME NEW k \in 1..Len(Order), NEW S, RenderGood(0, S, k - 1) PROVE RenderGood(0, RenderAgain(0, S, Order[k]), k)
  <2>1. \A q \in S : PageOK(MaybeAutoMerge(q)) BY <1>3, MaybeKeeps DEF RenderGood
  <2>2. S # {} BY <1>3 DEF RenderGood
  <2> QED BY <2>1, <2>2 DEF RenderGood, RenderAgain
<1>4. RenderGood(0, Rendering!Fold(0, {p}, Order), Len(Order)) BY <1>1, <1>2, <1>3, Rendering!FoldKeeps
<1>5. Render(p) = The(Rendering!Fold(0, {p}, Order))
  BY DEF Render, RenderAgain, Rendering!Fold, FoldLeft, Rendering!FoldLeft, MapThenFoldSet,
         Rendering!MapThenFoldSet, Max, Rendering!Max
<1> QED BY <1>4, <1>5 DEF RenderGood, The

----------------------------------------------------------------------------
(* Every step. *)

SrvOK ==
  /\ DOMAIN srv = {"calls", "rules", "keyed", "version"}
  /\ srv.calls \in SUBSET (Heard \cup Pool) /\ RulesOK(srv.rules)
PollOK ==
  /\ DOMAIN poll = {"at", "d"} /\ ViewOK(poll.d)
  /\ poll.at = "answered" => DataOK(poll.d)
JobOK ==
  /\ DOMAIN job = {"at", "what", "fam", "todo", "res"}
  /\ job.what = "merge" => RequestsOK(job.todo) /\ job.todo # <<>>
  /\ job.at = "answered" => RulesOK(job.res)
MergedOK == merged # NoAnswer => RulesOK(merged)
OpeningOK == opening \in SUBSET DOMAIN Files

\* What is under way names networks, and every answer is of rules the server had.
PageInv == SrvOK /\ PageOK(page) /\ PollOK /\ JobOK /\ MergedOK /\ OpeningOK

\* What the server makes of a request are rules.
LEMMA ServeKeeps ==
  ASSUME RulesOK(srv.rules), NEW c, c.what = "merge" => RequestsOK(c.todo) /\ c.todo # <<>>
  PROVE  RulesOK(RulesAfter(c))
<1>1. CASE c.what = "merge"
  <2>1. Head(c.todo) \in (DOMAIN Networks) \X (DOMAIN Networks) BY <1>1 DEF RequestsOK
  <2>2. Head(c.todo)[1] \in DOMAIN Networks /\ Head(c.todo)[2] \in DOMAIN Networks BY <2>1
  <2>3. RulesOK(Server!Add(srv.rules, Head(c.todo)[1], Head(c.todo)[2])) BY <2>2, AddIsTheServers
  <2>4. RulesAfter(c) = Server!Add(srv.rules, Head(c.todo)[1], Head(c.todo)[2]) BY <1>1 DEF RulesAfter
  <2> QED BY <2>3, <2>4
<1>2. CASE c.what \in {"unmerge", "clear"}
  <2>1. RulesOK(Server!LetGo(srv.rules, Head(c.todo)[1])) BY RemoveIsTheServers
  <2>2. RulesAfter(c) = Server!LetGo(srv.rules, Head(c.todo)[1]) BY <1>2 DEF RulesAfter
  <2> QED BY <2>1, <2>2
<1>3. CASE c.what \notin {"merge", "unmerge", "clear"}
  <2>1. RulesAfter(c) = srv.rules BY <1>3 DEF RulesAfter
  <2> QED BY <2>1
<1> QED BY <1>1, <1>2, <1>3

\* A request served leaves the server with rules, and answers with them.
LEMMA ServedKeeps ==
  ASSUME SrvOK, NEW c, c.what = "merge" => RequestsOK(c.todo) /\ c.todo # <<>>, Serve(c)
  PROVE  SrvOK' /\ RulesOK(RulesAfter(c))
<1>1. RulesOK(RulesAfter(c)) BY ServeKeeps DEF SrvOK
<1> DEFINE v == IF <<RulesAfter(c), KeyedAfter(c)>> = <<srv.rules, srv.keyed>> THEN srv.version ELSE srv.version + 1
<1>2. srv' = [srv EXCEPT !.rules = RulesAfter(c), !.keyed = KeyedAfter(c), !.version = v] BY DEF Serve
<1> HIDE DEF v
<1>3. SrvOK' BY <1>1, <1>2 DEF SrvOK
<1> QED BY <1>1, <1>3

\* The rest of a chain of several requests.
LEMMA MoreToAsk ==
  ASSUME NEW T, NEW q \in Seq(T), Len(q) > 1 PROVE RequestsOK(q) => RequestsOK(Tail(q)) /\ Tail(q) # <<>>
<1>1. Len(Tail(q)) = Len(q) - 1 /\ Len(q) - 1 > 0 OBVIOUS
<1>2. Len(<<>>) = 0 OBVIOUS
<1>3. Tail(q) # <<>>
  <2> DEFINE t == Tail(q)
  <2>1. Len(t) > 0 BY <1>1
  <2>2. \A u : u = <<>> => Len(u) = 0 BY <1>2
  <2> HIDE DEF t
  <2>3. t # <<>> BY <2>1, <2>2
  <2> QED BY <2>3 DEF t
<1>4. RequestsOK(q) => RequestsOK(Tail(q)) BY <1>3 DEF RequestsOK
<1> QED BY <1>3, <1>4

\* At first there is nothing to keep.
LEMMA InitKeeps == Init => PageInv
<1> SUFFICES ASSUME Init PROVE PageInv OBVIOUS
<1>1. SrvOK BY NoRulesOK DEF Init, SrvOK
<1>2. RequestsOK(<<>>) BY DEF RequestsOK
<1>3. PageOK(page) BY <1>2 DEF Init, PageOK, PageFields, ViewOK
<1>4. PollOK BY DEF Init, PollOK, NoPoll, ViewOK
<1>5. JobOK BY DEF Init, JobOK, NoChain
<1>6. MergedOK /\ OpeningOK BY DEF Init, MergedOK, OpeningOK
<1> QED BY <1>1, <1>3, <1>4, <1>5, <1>6 DEF PageInv

\* The server's answer to a poll.
LEMMA PollSteps == PageInv /\ (PollSend \/ PollServed \/ PollFails \/ PollAnswered) => PageInv'
<1> SUFFICES ASSUME PageInv, PollSend \/ PollServed \/ PollFails \/ PollAnswered PROVE PageInv' OBVIOUS
<1> USE DEF PageInv
<1>1. CASE PollSend
  <2>1. PollOK' BY <1>1 DEF PollSend, PollOK
  <2> QED BY <1>1, <2>1 DEF PollSend, SrvOK, JobOK, MergedOK, OpeningOK
<1>2. CASE PollServed
  <2> DEFINE d == Data(srv.calls, srv.rules, srv.keyed, srv.version)
  <2>1. srv.calls \in AnyCalls BY DEF SrvOK, AnyCalls
  <2>2. DataOK(d) BY <2>1, DataIsOK DEF SrvOK
  <2>3. poll' = [at |-> "answered", d |-> d] BY <1>2 DEF PollServed
  <2> HIDE DEF d
  <2>4. PollOK' BY <2>2, <2>3 DEF PollOK, ViewOK
  <2> QED BY <1>2, <2>4 DEF PollServed, SrvOK, JobOK, MergedOK, OpeningOK
<1>3. CASE PollFails
  <2>1. PollOK' BY <1>3 DEF PollFails, PollOK, NoPoll, ViewOK
  <2> QED BY <1>3, <2>1 DEF PollFails, SrvOK, JobOK, MergedOK, OpeningOK
<1>4. CASE PollAnswered
  <2>1. PollOK' BY <1>4 DEF PollAnswered, PollTaken, PollOK, NoPoll, ViewOK
  <2>2. DataOK(poll.d) BY <1>4 DEF PollAnswered, PollTaken, PollOK
  <2>3. PageOK([page EXCEPT !.d = poll.d]) BY <2>2 DEF PageOK, PageFields, ViewOK
  <2>4. page' = IF page.hold THEN page ELSE Render([page EXCEPT !.d = poll.d]) BY <1>4 DEF PollAnswered
  <2>5. PageOK(page') BY <2>3, <2>4, RenderKeeps
  <2> QED BY <1>4, <2>1, <2>5 DEF PollAnswered, SrvOK, JobOK, MergedOK, OpeningOK
<1> QED BY <1>1, <1>2, <1>3, <1>4

\* Requests and answers of the chains.
LEMMA ChainSteps ==
  PageInv /\ (ServeJob \/ JobAnswered \/ JobFails \/ ServeAuto \/ AutoAnswered \/ AutoFails) => PageInv'
<1> SUFFICES ASSUME PageInv, ServeJob \/ JobAnswered \/ JobFails \/ ServeAuto \/ AutoAnswered \/ AutoFails
             PROVE  PageInv'
  OBVIOUS
<1> USE DEF PageInv
<1>1. CASE ServeJob
  <2>1. SrvOK' /\ RulesOK(RulesAfter(job)) BY <1>1, ServedKeeps DEF ServeJob, JobOK
  <2>2. JobOK' BY <1>1, <2>1 DEF ServeJob, JobOK
  <2> QED BY <1>1, <2>1, <2>2 DEF ServeJob, PollOK, MergedOK, OpeningOK
<1>2. CASE JobAnswered
  <2>1. JobOK'
    <3>1. CASE Len(job.todo) > 1
      <4>1. job' = [job EXCEPT !.at = "sent", !.todo = Tail(job.todo)]
        BY <1>2, <3>1 DEF JobAnswered, JobTaken, Going
      <4>2. ASSUME job.what = "merge" PROVE RequestsOK(Tail(job.todo)) /\ Tail(job.todo) # <<>>
        <5>1. job.todo \in Seq((DOMAIN Networks) \X (DOMAIN Networks)) BY <4>2 DEF JobOK, RequestsOK
        <5>2. RequestsOK(job.todo) BY <4>2 DEF JobOK
        <5> QED BY <3>1, <5>1, <5>2, MoreToAsk
      <4> QED BY <4>1, <4>2 DEF JobOK
    <3>2. CASE ~(Len(job.todo) > 1)
      <4>1. job' = NoChain BY <1>2, <3>2 DEF JobAnswered, JobTaken
      <4> QED BY <4>1 DEF JobOK, NoChain
    <3> QED BY <3>1, <3>2
  <2>2. PageOK(page')
    <3> DEFINE v == IF job.what \in {"setkey", "removekey"} THEN Marked(page.d, page.fam, job.what = "setkey")
                    ELSE WithRules(page.d, job.res)
    <3>1. page' = IF Len(job.todo) > 1 \/ page.d = NoView THEN page ELSE Render([page EXCEPT !.d = v])
      BY <1>2 DEF JobAnswered
    <3>2. ASSUME page.d # NoView PROVE PageOK([page EXCEPT !.d = v])
      <4>1. DataOK(page.d) BY <3>2 DEF PageOK, ViewOK
      <4>2. RulesOK(job.res) BY <1>2 DEF JobAnswered, JobTaken, JobOK
      <4>3. DataOK(WithRules(page.d, job.res)) BY <4>1, <4>2, WithRulesIsOK
      <4>4. DataOK(Marked(page.d, page.fam, job.what = "setkey")) BY <4>1 DEF Marked, DataOK, DataFields
      <4>5. DataOK(v) BY <4>3, <4>4
      <4> HIDE DEF v
      <4> QED BY <4>5 DEF PageOK, PageFields, ViewOK
    <3> HIDE DEF v
    <3> QED BY <3>1, <3>2, RenderKeeps
  <2> QED BY <1>2, <2>1, <2>2 DEF JobAnswered, SrvOK, PollOK, MergedOK, OpeningOK
<1>3. CASE JobFails
  <2>1. JobOK' BY <1>3 DEF JobFails, JobOK, NoChain
  <2>2. PageOK(page') BY <1>3, RenderKeeps DEF JobFails
  <2> QED BY <1>3, <2>1, <2>2 DEF JobFails, SrvOK, PollOK, MergedOK, OpeningOK
<1>4. CASE ServeAuto
  <2>1. AutoChain.what = "merge" /\ AutoChain.todo = page.am BY DEF AutoChain, Chain
  <2>2. RequestsOK(AutoChain.todo) /\ AutoChain.todo # <<>> BY <1>4, <2>1 DEF ServeAuto, PageOK
  <2>3. SrvOK' /\ RulesOK(RulesAfter(AutoChain)) BY <1>4, <2>2, ServedKeeps DEF ServeAuto
  <2>4. MergedOK' BY <1>4, <2>3 DEF ServeAuto, MergedOK
  <2> QED BY <1>4, <2>3, <2>4 DEF ServeAuto, PollOK, JobOK, OpeningOK
<1>5. CASE AutoAnswered
  <2>1. MergedOK' BY <1>5 DEF AutoAnswered, AutoTaken, MergedOK
  <2>2. RequestsOK(<<>>) BY DEF RequestsOK
  <2>3. CASE Len(page.am) > 1
    <3>1. page' = [page EXCEPT !.am = Tail(page.am)] BY <1>5, <2>3 DEF AutoAnswered
    <3>2. RequestsOK(Tail(page.am)) BY <2>3, MoreToAsk DEF PageOK, RequestsOK
    <3>3. PageOK(page') BY <3>1, <3>2 DEF PageOK, PageFields
    <3> QED BY <1>5, <2>1, <3>3 DEF AutoAnswered, SrvOK, PollOK, JobOK, OpeningOK
  <2>4. CASE ~(Len(page.am) > 1) /\ page.d = NoView
    <3>1. page' = [page EXCEPT !.am = <<>>] BY <1>5, <2>4 DEF AutoAnswered
    <3>2. PageOK(page') BY <2>2, <3>1 DEF PageOK, PageFields
    <3> QED BY <1>5, <2>1, <3>2 DEF AutoAnswered, SrvOK, PollOK, JobOK, OpeningOK
  <2>5. CASE ~(Len(page.am) > 1) /\ page.d # NoView
    <3> DEFINE v == WithRules(page.d, merged)
    <3>1. page' = Render([page EXCEPT !.am = <<>>, !.d = v]) BY <1>5, <2>5 DEF AutoAnswered
    <3>2. DataOK(v)
      <4>1. DataOK(page.d) BY <2>5 DEF PageOK, ViewOK
      <4>2. RulesOK(merged) BY <1>5 DEF AutoAnswered, AutoTaken, MergedOK
      <4> QED BY <4>1, <4>2, WithRulesIsOK
    <3> HIDE DEF v
    <3>3. PageOK([page EXCEPT !.am = <<>>, !.d = v]) BY <2>2, <3>2 DEF PageOK, PageFields, ViewOK
    <3>4. PageOK(page') BY <3>1, <3>3, RenderKeeps
    <3> QED BY <1>5, <2>1, <3>4 DEF AutoAnswered, SrvOK, PollOK, JobOK, OpeningOK
  <2> QED BY <2>3, <2>4, <2>5
<1>6. CASE AutoFails
  <2>1. RequestsOK(<<>>) BY DEF RequestsOK
  <2>2. PageOK(page') BY <1>6, <2>1 DEF AutoFails, PageOK, PageFields
  <2> QED BY <1>6, <2>2 DEF AutoFails, SrvOK, PollOK, JobOK, MergedOK, OpeningOK
<1> QED BY <1>1, <1>2, <1>3, <1>4, <1>5, <1>6

\* A change of what is not a view or a request.
LEMMA FieldKeeps ==
  ASSUME NEW p, PageOK(p), NEW x
  PROVE  /\ PageOK([p EXCEPT !.paused = x]) /\ PageOK([p EXCEPT !.hold = x]) /\ PageOK([p EXCEPT !.auto = x])
         /\ PageOK([p EXCEPT !.notSame = x]) /\ PageOK([p EXCEPT !.fam = x, !.stored = x])
  BY DEF PageOK, PageFields

\* The rest of the state stays when only the page changes.
LEMMA OnlyPage ==
  ASSUME PageInv, PageOK(page'), OpeningOK', UNCHANGED <<srv, poll, job, merged>> PROVE PageInv'
  BY DEF PageInv, SrvOK, PollOK, JobOK, MergedOK

\* A user's merge, unmerge, clear or key: the view's at once, or a chain.
LEMMA ChangesKeep ==
  ASSUME PageInv, NEW what \in {"merge", "unmerge"}, NEW from, NEW to, NEW rules,
         page.d # NoView => RulesOK(rules),
         what = "merge" => from \in DOMAIN Networks /\ to \in DOMAIN Networks,
         Changes(what, from, to, rules)
  PROVE  PageInv'
<1>1. DataOK(page.d) /\ RulesOK(rules) BY DEF Changes, PageInv, PageOK, ViewOK
<1>2. CASE page.file # 0
  <2> DEFINE v == WithRules(page.d, rules)
  <2>1. page' = Render([page EXCEPT !.d = v]) /\ UNCHANGED <<srv, poll, job, merged, opening>>
    BY <1>2 DEF Changes, Only, Acts
  <2>2. DataOK(v) BY <1>1, WithRulesIsOK
  <2> HIDE DEF v
  <2>3. PageOK([page EXCEPT !.d = v]) BY <2>2 DEF PageInv, PageOK, PageFields, ViewOK
  <2> QED BY <2>1, <2>3, RenderKeeps, OnlyPage DEF PageInv, OpeningOK
<1>3. CASE page.file = 0
  <2>1. job' = Chain(what, "dmr", <<<<from, to>>>>, <<>>) /\ UNCHANGED <<srv, poll, merged, page, opening>>
    BY <1>3 DEF Changes, Acts
  <2>2. JobOK'
    <3>1. what = "merge" => RequestsOK(<<<<from, to>>>>) BY DEF RequestsOK
    <3> QED BY <2>1, <3>1 DEF JobOK, Chain
  <2> QED BY <2>1, <2>2 DEF PageInv, SrvOK, PollOK, MergedOK, OpeningOK
<1> QED BY <1>2, <1>3

\* What a user does.
LEMMA UserSteps == PageInv /\ User => PageInv'
<1> SUFFICES ASSUME PageInv, User PROVE PageInv' OBVIOUS
<1>0. PageOK(page) BY DEF PageInv
<1>1. CASE (\E fam \in Fams : SwitchTab(fam))
  <2>1. PICK fam \in Fams : SwitchTab(fam) BY <1>1
  <2> QED BY <1>0, <2>1, FieldKeeps, RenderKeeps, OnlyPage DEF SwitchTab, Only, Acts, PageInv, OpeningOK
<1>2. CASE Pause BY <1>0, <1>2, FieldKeeps, OnlyPage DEF Pause, Only, Acts, PageInv, OpeningOK
<1>3. CASE Hold BY <1>0, <1>3, FieldKeeps, OnlyPage DEF Hold, Only, Acts, PageInv, OpeningOK
<1>4. CASE ToggleAuto BY <1>0, <1>4, FieldKeeps, RenderKeeps, OnlyPage DEF ToggleAuto, Only, Acts, PageInv, OpeningOK
<1>5. CASE NotSame
  <2>1. PICK x : page' = [page EXCEPT !.notSame = x] /\ UNCHANGED <<srv, poll, job, merged, opening>>
    BY <1>5 DEF NotSame, Only, Acts
  <2> QED BY <1>0, <2>1, FieldKeeps, OnlyPage DEF PageInv, OpeningOK
<1>6. CASE SuggestAgain BY <1>0, <1>6, FieldKeeps, OnlyPage DEF SuggestAgain, Only, Acts, PageInv, OpeningOK
<1>7. CASE \E a, b \in DOMAIN Networks : Merge(a, b)
  <2>1. PICK a, b \in DOMAIN Networks : Merge(a, b) BY <1>7
  <2>2. page.d # NoView => RulesOK(MergesAdd(page.d.rules, a, b))
    BY <1>0, AddIsTheServers DEF PageOK, ViewOK, DataOK
  <2>3. Changes("merge", a, b, MergesAdd(page.d.rules, a, b)) BY <2>1 DEF Merge
  <2> QED BY <2>2, <2>3, ChangesKeep
<1>8. CASE \E k \in DOMAIN Networks : Unmerge(k)
  <2>1. PICK k \in DOMAIN Networks : Unmerge(k) BY <1>8
  <2>2. page.d # NoView => RulesOK(MergesRemove(page.d.rules, k))
    BY <1>0, RemoveIsTheServers DEF PageOK, ViewOK, DataOK
  <2>3. Changes("unmerge", k, page.d.rules[k], MergesRemove(page.d.rules, k)) BY <2>1 DEF Unmerge
  <2> QED BY <2>2, <2>3, ChangesKeep
<1>9. CASE ClearMerges
  <2>1. PICK todo : job' = Chain("clear", "dmr", todo, <<>>) BY <1>9 DEF ClearMerges
  <2>2. JobOK' BY <2>1 DEF JobOK, Chain
  <2> QED BY <1>9, <2>2 DEF ClearMerges, Acts, PageInv, SrvOK, PollOK, MergedOK, OpeningOK
<1>10. CASE \E what \in {"setkey", "removekey"} : ChangeKey(what)
  <2>1. PICK what \in {"setkey", "removekey"} : ChangeKey(what) BY <1>10
  <2>2. job' = Chain(what, page.fam, <<<<>>>>, <<>>) BY <2>1 DEF ChangeKey
  <2>3. JobOK' BY <2>2 DEF JobOK, Chain
  <2> QED BY <2>1, <2>3 DEF ChangeKey, Acts, PageInv, SrvOK, PollOK, MergedOK, OpeningOK
<1>11. CASE \E f \in DOMAIN Files : OpenFile(f)
  BY <1>0, <1>11, OnlyPage DEF OpenFile, Acts, PageInv, OpeningOK
<1>12. CASE BackToLive
  <2>1. PageOK([page EXCEPT !.file = 0, !.d = NoView, !.fam = page.stored]) BY <1>0 DEF PageOK, PageFields, ViewOK
  <2> QED BY <1>12, <2>1, OnlyPage DEF BackToLive, Only, Acts, PageInv, OpeningOK
<1> QED BY <1>1, <1>2, <1>3, <1>4, <1>5, <1>6, <1>7, <1>8, <1>9, <1>10, <1>11, <1>12 DEF User

\* A file is shown with the rules it holds.
LEMMA FileSteps == ASSUME PageInv, NEW f \in opening, FileRead(f) PROVE PageInv'
<1> DEFINE d == Data(Files[f].calls, Files[f].rules, {}, 1000 + acts)
<1>1. f \in DOMAIN Files BY DEF PageInv, OpeningOK
<1>2. Files[f].calls \in AnyCalls /\ RulesOK(Files[f].rules)
  BY <1>1, FilesAssumption DEF AnyCalls, RulesOK
<1>3. DataOK(d) BY <1>2, DataIsOK
<1>4. page' = Render([page EXCEPT !.file = f, !.fam = "dmr", !.d = d]) BY DEF FileRead
<1> HIDE DEF d
<1>5. PageOK([page EXCEPT !.file = f, !.fam = "dmr", !.d = d]) BY <1>3 DEF PageInv, PageOK, PageFields, ViewOK
<1>6. PageOK(page') BY <1>4, <1>5, RenderKeeps
<1>7. OpeningOK' BY DEF FileRead, PageInv, OpeningOK
<1> QED BY <1>6, <1>7, OnlyPage DEF FileRead

\* Every step keeps what is under way in order.
LEMMA NextKeeps == PageInv /\ [Next]_vars => PageInv'
<1> SUFFICES ASSUME PageInv, [Next]_vars PROVE PageInv' OBVIOUS
<1>1. CASE PollSend \/ PollServed \/ PollFails \/ PollAnswered BY <1>1, PollSteps
<1>2. CASE ServeJob \/ JobAnswered \/ JobFails \/ ServeAuto \/ AutoAnswered \/ AutoFails BY <1>2, ChainSteps
<1>3. CASE \E f \in opening : FileRead(f) BY <1>3, FileSteps
<1>4. CASE \E c \in Pool : Hear(c)
  <2>1. PICK c \in Pool : Hear(c) BY <1>4
  <2>2. srv' = [srv EXCEPT !.calls = @ \cup {c}, !.version = @ + 1] BY <2>1 DEF Hear
  <2>3. SrvOK' BY <2>2 DEF PageInv, SrvOK
  <2> QED BY <2>1, <2>3 DEF Hear, PageInv, PollOK, JobOK, MergedOK, OpeningOK
<1>5. CASE Release
  <2>1. PageOK(page') BY <1>5, FieldKeeps DEF Release, PageInv
  <2> QED BY <1>5, <2>1, OnlyPage DEF Release, PageInv, OpeningOK
<1>6. CASE User BY <1>6, UserSteps
<1>7. CASE UNCHANGED vars BY <1>7 DEF vars, PageInv, SrvOK, PollOK, JobOK, MergedOK, OpeningOK
<1> QED BY <1>1, <1>2, <1>3, <1>4, <1>5, <1>6, <1>7 DEF Next

\* The rules the page shows are flat rules of its networks.
LEMMA ShownRules == PageInv => RulesOK(page.d.rules)
  BY NoRulesOK DEF PageInv, PageOK, ViewOK, DataOK, NoView

\* net_page.hpp's mergesAdd and mergesRemove are "the same rules as the
\* server's": whatever view the page shows, and whatever answers crossed on the
\* way, a merge or an unmerge of any two networks gives what the server makes
\* of the same rules, and no network is shown under a merged one.
THEOREM RulesAreAlwaysTheServers == Spec => []RulesAreTheServers
<1>1. PageInv => RulesAreTheServers
  <2> SUFFICES ASSUME PageInv PROVE RulesAreTheServers OBVIOUS
  <2>1. RulesOK(page.d.rules) BY ShownRules
  <2>2. \A from, to \in DOMAIN Networks : MergesAdd(page.d.rules, from, to) = Server!Add(page.d.rules, from, to)
    BY <2>1, AddIsTheServers
  <2>3. \A k \in DOMAIN Networks : MergesRemove(page.d.rules, k) = Server!LetGo(page.d.rules, k)
    BY <2>1, RemoveIsTheServers
  <2> QED BY <2>1, <2>2, <2>3 DEF RulesAreTheServers, RulesOK
<1> QED BY <1>1, InitKeeps, NextKeeps, PTL DEF Spec

----------------------------------------------------------------------------
(* The cause of an auto-merge. *)

\* What the page asks of the two networks of a pair, of either first.
Cause(d, a, b) ==
  /\ \/ NetCode(IdsOf(d, a)) = NetCode(IdsOf(d, b)) /\ NetCode(IdsOf(d, a)) # <<>>
     \/ \E x \in CallsOf(d, a), y \in CallsOf(d, b) : Twin(d, x, y)
  /\ FreqGap(FreqsOf(d, a), FreqsOf(d, b)) <= VeryNear
  /\ ~OneStream(d, a, b)

\* One call heard twice is that from either side.
LEMMA TwinIsMutual ==
  ASSUME NEW d, DataOK(d), NEW x \in d.calls, NEW y \in d.calls, Twin(d, x, y) PROVE Twin(d, y, x)
<1>1. x.start \in Nat /\ y.start \in Nat /\ x.last \in Nat /\ y.last \in Nat /\ x.id \in Nat /\ y.id \in Nat
  BY FiniteCalls
<1>2. x.start <= x.last /\ y.start <= y.last /\ TwinGap \in Nat BY FiniteCalls, NetworksAssumption
<1>3. IF Earlier(y, x) THEN x.start <= y.last + TwinGap ELSE y.start <= x.last + TwinGap
  BY <1>1, <1>2 DEF Twin, Earlier
<1> QED BY <1>3 DEF Twin

\* A cause is a cause from either side.
LEMMA CauseIsMutual ==
  ASSUME NEW d, DataOK(d), NEW a \in DOMAIN d.shown, NEW b \in DOMAIN d.shown, Cause(d, a, b) PROVE Cause(d, b, a)
<1>1. FreqGap(FreqsOf(d, b), FreqsOf(d, a)) <= VeryNear
  <2>1. FreqsOf(d, a) \in SUBSET Nat /\ FreqsOf(d, b) \in SUBSET Nat BY FreqsAreNat
  <2> QED BY <2>1, GapIsNat DEF Cause
<1>2. ~OneStream(d, b, a)
  <2>1. {a, b} = {b, a} OBVIOUS
  <2>2. OneStream(d, b, a) <=> OneStream(d, a, b) BY <2>1 DEF OneStream
  <2> QED BY <2>2 DEF Cause
<1>3. \/ NetCode(IdsOf(d, b)) = NetCode(IdsOf(d, a)) /\ NetCode(IdsOf(d, b)) # <<>>
      \/ \E x \in CallsOf(d, b), y \in CallsOf(d, a) : Twin(d, x, y)
  <2>1. CASE NetCode(IdsOf(d, a)) = NetCode(IdsOf(d, b)) /\ NetCode(IdsOf(d, a)) # <<>> BY <2>1
  <2>2. CASE \E x \in CallsOf(d, a), y \in CallsOf(d, b) : Twin(d, x, y)
    <3>1. PICK x \in CallsOf(d, a), y \in CallsOf(d, b) : Twin(d, x, y) BY <2>2
    <3>2. Twin(d, y, x) BY <3>1, TwinIsMutual DEF CallsOf
    <3> QED BY <3>1, <3>2
  <2> QED BY <2>1, <2>2 DEF Cause
<1> QED BY <1>1, <1>2, <1>3 DEF Cause

\* Two networks judged likely the same, and near enough, have a cause.
LEMMA JudgeHasCause ==
  ASSUME NEW d, DataOK(d), NEW a, NEW b, FreqGap(FreqsOf(d, a), FreqsOf(d, b)) <= VeryNear,
         SameJudge(d, a, b, SameEvidence(d, a, b)) >= 2
  PROVE  Cause(d, a, b)
<1> DEFINE e == SameEvidence(d, a, b)
           ca == NetCode(IdsOf(d, a))
           cb == NetCode(IdsOf(d, b))
           gap == FreqGap(FreqsOf(d, a), FreqsOf(d, b))
           ruledOut == \/ Unidentified(a) \/ Unidentified(b)
                       \/ ConfOf(d, a) = Strong /\ ConfOf(d, b) = Strong
                       \/ ca # <<>> /\ cb # <<>> /\ ~(ca # <<>> /\ ca = cb) /\ e.twins = 0 /\ ~(e.radios >= 2)
                       \/ e.sameStream
                       \/ e.clash /\ e.twins = 0 /\ ~(e.radios >= 2)
                       \/ e.twins = 0 /\ gap > Near /\ ~(e.radios >= 2)
           tier == SameJudge(d, a, b, e)
<1>1. e.twins = TwinsOf(d, a, b) /\ e.sameStream = OneStream(d, a, b) BY DEF SameEvidence
<1>2. e.twins \in Nat /\ (e.twins > 0 => \E x \in CallsOf(d, a), y \in CallsOf(d, b) : Twin(d, x, y))
  BY <1>1, TwinsAreNat
<1>3. ~e.sameStream /\ (e.twins > 0 \/ (ca # <<>> /\ ca = cb))
  <2>1. tier = CASE ruledOut -> 0
                 [] ~ruledOut /\ e.twins > 0 /\ ~e.clash -> 3
                 [] ~ruledOut /\ ((e.twins > 0 /\ e.clash) \/ (e.twins = 0 /\ (ca # <<>> /\ ca = cb) /\ gap <= VeryNear)) -> 2
                 [] OTHER -> 1
    BY DEF SameJudge
  <2>2. e.sameStream => ruledOut OBVIOUS
  <2>3. tier >= 2 OBVIOUS
  <2> HIDE DEF e, ca, cb, gap, ruledOut, tier
  <2>4. ~ruledOut BY <2>1, <2>3
  <2>5. e.twins > 0 \/ (ca # <<>> /\ ca = cb) BY <2>1, <2>3, <2>4
  <2> QED BY <2>2, <2>4, <2>5
<1> QED BY <1>1, <1>2, <1>3 DEF Cause

\* So has every pair that is merged.
LEMMA PairHasCause == ASSUME NEW d, DataOK(d), NEW s, Qualifies(d, s) PROVE Cause(d, s.from, s.to)
<1>1. PICK i, j \in NetShown(d) : s = Offer(d, i, j) BY DEF Qualifies, OfferOf
<1> DEFINE a == Order[i]
           b == Order[j]
           busier == Load(d, a) >= Load(d, b)
<1>2. /\ s.tier = SameJudge(d, a, b, SameEvidence(d, a, b)) /\ s.gap = FreqGap(FreqsOf(d, a), FreqsOf(d, b))
      /\ s.from = (IF busier THEN b ELSE a) /\ s.to = (IF busier THEN a ELSE b)
  BY <1>1 DEF Offer
<1>3. a \in DOMAIN d.shown /\ b \in DOMAIN d.shown BY DEF NetShown
<1> HIDE DEF a, b, busier
<1>4. Cause(d, a, b) BY <1>2, JudgeHasCause DEF Qualifies
<1>5. Cause(d, b, a) BY <1>3, <1>4, CauseIsMutual
<1> QED BY <1>2, <1>4, <1>5

\* Views of the same calls under the same rules have the same causes.
LEMMA SameViewSameCause ==
  ASSUME NEW d, NEW e, e.calls = d.calls, e.rules = d.rules, e.shown = d.shown, NEW a, NEW b, Cause(e, a, b)
  PROVE  Cause(d, a, b)
<1>1. \A k : IdsOf(e, k) = IdsOf(d, k) BY DEF IdsOf, Speaker
<1>2. \A k : FreqsOf(e, k) = FreqsOf(d, k) BY DEF FreqsOf
<1>3. \A k : CallsOf(e, k) = CallsOf(d, k) BY DEF CallsOf
<1>4. \A x, y : Twin(e, x, y) <=> Twin(d, x, y) BY DEF Twin, ShownNet
<1>5. OneStream(e, a, b) <=> OneStream(d, a, b)
  <2>1. \A x : ShownNet(e, x) = ShownNet(d, x) BY DEF ShownNet
  <2>2. \A x, y : AtOnce(e, x, y) <=> AtOnce(d, x, y) BY <1>4, <2>1 DEF AtOnce
  <2> QED BY <2>1, <2>2 DEF OneStream
<1> QED BY <1>1, <1>2, <1>3, <1>4, <1>5 DEF Cause

\* net_page.hpp autoMergePairs: the page joins two networks by itself only when
\* both carry one code or one call was heard on both, their channels are within
\* AUTO_MERGE_MAX_GAP and no stream heard both at once; of whatever data the
\* server or a file sent, with whatever merges made before.
THEOREM AutoMergesHaveCause == Spec => []AutoMergeHasCause
<1>1. PageInv => AutoMergeHasCause
  <2> SUFFICES ASSUME PageInv, page.d # NoView, NEW s \in ToSet(AutoMergePairs(page.d, page.notSame))
               PROVE  Cause(page.d, s.from, s.to)
    BY DEF AutoMergeHasCause, Cause
  <2> DEFINE pairs == AutoMergePairs(page.d, page.notSame)
  <2>1. DataOK(page.d) BY DEF PageInv, PageOK, ViewOK
  <2>2. PICK e, n : /\ DataOK(e) /\ e.calls = page.d.calls /\ e.rules = page.d.rules /\ e.shown = page.d.shown
                    /\ n \in Nat /\ DOMAIN pairs = 1..n /\ \A i \in 1..n : Qualifies(e, pairs[i])
    BY <2>1, PairsQualify
  <2>3. PICK i \in DOMAIN pairs : s = pairs[i] BY DEF ToSet
  <2> HIDE DEF pairs
  <2>4. Qualifies(e, s) BY <2>2, <2>3
  <2>5. Cause(e, s.from, s.to) BY <2>2, <2>4, PairHasCause
  <2> QED BY <2>2, <2>5, SameViewSameCause
<1> QED BY <1>1, InitKeeps, NextKeeps, PTL DEF Spec
===============================================================================
