------------------------------ MODULE NetMerges ------------------------------
(***************************************************************************)
(* The explorer's "these are one network" rules (assoc_merge.hpp,          *)
(* NetMerges) of one protocol family: a function from a network's key to   *)
(* the key it is shown under.                                              *)
(***************************************************************************)
EXTENDS Naturals, Sequences, FiniteSets, SequencesExt

CONSTANTS
  KeyOrder,     \* the network keys, in std::map order
  MaxRules      \* kMaxMergesPerFamily

ASSUME RulesAssumption == MaxRules \in Nat
ASSUME OrderAssumption == KeyOrder \in Seq(ToSet(KeyOrder))

NoRules == <<>>
Root(F, key) == IF key \in DOMAIN F THEN F[key] ELSE key

\* Show `from`, and whatever is shown under it, under `to`'s network.
Add(F, from, to) ==
  LET r == Root(F, to)
  IN IF r = from \/ Root(F, from) = r \/ (from \notin DOMAIN F /\ Cardinality(DOMAIN F) >= MaxRules)
     THEN F
     ELSE [k \in DOMAIN F \cup {from} |-> IF k = from THEN r ELSE IF F[k] = from THEN r ELSE F[k]]

Only(F, keys) == [k \in keys |-> F[k]]
\* A merged network goes back to being its own; a target lets all its networks go.
LetGo(F, key) ==
  IF key \in DOMAIN F THEN Only(F, DOMAIN F \ {key})
  ELSE Only(F, {k \in DOMAIN F : F[k] # key})

\* One rule of another data set joins, unless this one has its own for the key.
Adopt(F, from, key) ==
  IF key \in DOMAIN from /\ key \notin DOMAIN F THEN Add(F, key, from[key]) ELSE F
Union(F, from) == FoldLeft(LAMBDA acc, key : Adopt(acc, from, key), F, KeyOrder)

\* Rules read back from a file, or from an export.
Reload(rules) == Union(NoRules, rules)

\* A target is never itself merged into another network.
Flat(F) == \A k \in DOMAIN F : F[k] \notin DOMAIN F
=============================================================================
