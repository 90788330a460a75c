---------------------------- MODULE LibraryProofs ----------------------------
(***************************************************************************)
(* What holds of the explorer's imports and merges, whatever files there   *)
(* are: merge rules stay flat and mean what the operator said; the loops   *)
(* that join rules keep that (Folding); a file that plays is on disk; and  *)
(* no moment of a server's run is shown twice.                             *)
(***************************************************************************)
EXTENDS Library, FiniteSetTheorems, TLAPS

----------------------------------------------------------------------------
\* Rules, one at a time.

\* A new rule leaves the rules flat (assoc_merge.hpp, "Always flat -- a
\* target is never itself merged into another").
THEOREM AddKeepsFlat == ASSUME NEW F, NEW from, NEW to, Flat(F) PROVE Flat(Add(F, from, to))
  BY DEF Flat, Add, Root

\* So does a rule that is taken back.
THEOREM LetGoKeepsFlat == ASSUME NEW F, NEW key, Flat(F) PROVE Flat(LetGo(F, key))
  BY DEF Flat, LetGo, Only

\* So does a rule taken over from an import.
THEOREM AdoptKeepsFlat == ASSUME NEW F, NEW from, NEW key, Flat(F) PROVE Flat(Adopt(F, from, key))
  BY AddKeepsFlat DEF Adopt

\* A rule that is taken makes the two networks one.
THEOREM AddJoins ==
  ASSUME NEW F, NEW from, NEW to, Add(F, from, to) # F
  PROVE  Root(Add(F, from, to), from) = Root(Add(F, from, to), to)
  BY DEF Flat, Add, Root

\* Networks that are one stay one when a rule for a network without one joins:
\* an import's rule cannot part what the operator merged.
THEOREM AdoptKeepsTogether ==
  ASSUME NEW F, NEW from, NEW key, NEW a, NEW b, Flat(F), Root(F, a) = Root(F, b)
  PROVE  Root(Adopt(F, from, key), a) = Root(Adopt(F, from, key), b)
  BY DEF Flat, Adopt, Add, Root

\* A network that is shown as itself, with nothing under it.
Free(F, key) == key \notin DOMAIN F /\ \A k \in DOMAIN F : F[k] # key

\* A network that is let go is shown as itself, and nothing under it.
THEOREM LetGoFrees ==
  ASSUME NEW F, NEW key, Flat(F)
  PROVE  Free(LetGo(F, key), key)
  BY DEF Flat, LetGo, Only, Free

\* ... and it stays so when the rules of imports that let it go too join.
THEOREM AdoptKeepsFree ==
  ASSUME NEW F, NEW from, NEW key, NEW free, Flat(F), Free(F, free), Free(from, free)
  PROVE  Free(Adopt(F, from, key), free)
  BY DEF Flat, Adopt, Add, Root, Free

----------------------------------------------------------------------------
\* What one rule of another data set leaves as it was.
LEMMA AdoptKeeps ==
  ASSUME NEW F, NEW from, NEW key, Flat(F)
  PROVE  /\ Flat(Adopt(F, from, key))
         /\ \A a, b : Root(F, a) = Root(F, b) => Root(Adopt(F, from, key), a) = Root(Adopt(F, from, key), b)
         /\ \A f : Free(F, f) /\ Free(from, f) => Free(Adopt(F, from, key), f)
  BY AdoptKeepsFlat, AdoptKeepsTogether, AdoptKeepsFree

\* The loop over another data set's rules (merge_into): one turn, and what holds
\* of the rules after n of them.
JoinOne(e, F, key) == Adopt(F, e.from, key)
Kept(e, F, n) == /\ Flat(F) /\ Root(F, e.a) = Root(F, e.b)
                 /\ \A f \in e.free : Free(F, f)
Joining == INSTANCE Folding WITH Op <- JoinOne, Good <- Kept

\* The networks are read in one order, a sequence.
LEMMA KeyOrderIsASeq == Len(KeyOrder) \in Nat /\ DOMAIN KeyOrder = 1..Len(KeyOrder)
BY OrderAssumption

\* Joining all the rules is that loop.
LEMMA UnionIsAFold ==
  ASSUME NEW e, NEW F PROVE Union(F, e.from) = Joining!Fold(e, F, KeyOrder)
BY DEF Union, JoinOne, Joining!Fold, FoldLeft, Joining!FoldLeft, MapThenFoldSet, Joining!MapThenFoldSet,
       Max, Joining!Max

\* Another data set's rules part nothing that is one, and name nothing free.
LEMMA UnionKeeps ==
  ASSUME NEW F, NEW from, NEW a, NEW b, NEW free, Flat(F), Root(F, a) = Root(F, b),
         \A f \in free : Free(F, f) /\ Free(from, f)
  PROVE  /\ Flat(Union(F, from)) /\ Root(Union(F, from), a) = Root(Union(F, from), b)
         /\ \A f \in free : Free(Union(F, from), f)
<1> DEFINE e == [from |-> from, a |-> a, b |-> b, free |-> free]
<1>0. e.from = from /\ e.a = a /\ e.b = b /\ e.free = free OBVIOUS
<1> HIDE DEF e
<1>1. Union(F, from) = Joining!Fold(e, F, KeyOrder)
  BY <1>0, UnionIsAFold
<1>2. Kept(e, F, 0) BY <1>0 DEF Kept
<1>3. \A k \in 1..Len(KeyOrder) : \A acc : Kept(e, acc, k - 1) => Kept(e, JoinOne(e, acc, KeyOrder[k]), k)
  BY <1>0, AdoptKeeps DEF Kept, JoinOne
<1>4. Kept(e, Joining!Fold(e, F, KeyOrder), Len(KeyOrder))
  BY <1>2, <1>3, KeyOrderIsASeq, Joining!FoldKeeps
<1> QED BY <1>0, <1>1, <1>4 DEF Kept

\* So the rules of layers join: what the loop over them keeps.
LayerOne(e, F, i) == WithLayer(F, e.layers, i)
Layering == INSTANCE Folding WITH Op <- LayerOne, Good <- Kept

\* The view's rules are made by a loop over the layers (view_merges_locked).
LEMMA LayersAreAFold ==
  ASSUME NEW e, NEW F, NEW last
  PROVE  WithLayers(F, e.layers, last) = Layering!Fold(e, F, [i \in 1..last |-> i])
BY DEF WithLayers, LayerOne, Layering!Fold, FoldLeft, Layering!FoldLeft, MapThenFoldSet,
       Layering!MapThenFoldSet, Max, Layering!Max

\* What the operator merged stays one under the layers' rules, and what neither
\* the rules nor a layer name stays as it is.
LEMMA LayersKeep ==
  ASSUME NEW F, NEW ls, NEW last \in Nat, NEW a, NEW b, NEW free, Flat(F), Root(F, a) = Root(F, b),
         \A f \in free : Free(F, f) /\ \A i \in DOMAIN ls : Free(ls[i].rules, f)
  PROVE  LET G == WithLayers(F, ls, last)
         IN /\ Flat(G) /\ Root(G, a) = Root(G, b)
            /\ \A f \in free : Free(G, f)
<1> DEFINE e == [layers |-> ls, a |-> a, b |-> b, free |-> free]
           ids == [i \in 1..last |-> i]
<1>0. e.layers = ls /\ e.a = a /\ e.b = b /\ e.free = free OBVIOUS
<1>1. DOMAIN ids = 1..last OBVIOUS
<1> HIDE DEF e, ids
<1>2. Kept(e, F, 0) BY <1>0 DEF Kept
<1>3. ASSUME NEW k \in 1..last, NEW acc, Kept(e, acc, k - 1) PROVE Kept(e, LayerOne(e, acc, ids[k]), k)
  <2>0. Flat(acc) /\ Root(acc, a) = Root(acc, b) /\ \A f \in free : Free(acc, f) BY <1>0, <1>3 DEF Kept
  <2>1. CASE ids[k] \in DOMAIN ls
    <3> DEFINE from == ls[ids[k]].rules
               G == Union(acc, from)
    <3>0. \A f \in free : Free(acc, f) /\ Free(from, f) BY <2>0, <2>1
    <3> HIDE DEF from
    <3>1. Flat(G) /\ Root(G, a) = Root(G, b) /\ \A f \in free : Free(G, f) BY <2>0, <3>0, UnionKeeps
    <3>2. LayerOne(e, acc, ids[k]) = G BY <1>0, <2>1 DEF LayerOne, WithLayer, from
    <3> HIDE DEF G
    <3> QED BY <1>0, <3>1, <3>2 DEF Kept
  <2>2. CASE ids[k] \notin DOMAIN ls BY <1>0, <1>3, <2>2 DEF Kept, LayerOne, WithLayer
  <2> QED BY <2>1, <2>2
<1>4. Kept(e, Layering!Fold(e, F, ids), last) BY <1>1, <1>2, <1>3, Layering!FoldKeeps
<1>5. WithLayers(F, ls, last) = Layering!Fold(e, F, ids) BY <1>0, LayersAreAFold DEF ids
<1> QED BY <1>0, <1>4, <1>5 DEF Kept

\* The rules an export is read with are flat.
RuleOne(e, F, key) == WithRule(F, e, HomeName, key)
FlatSoFar(e, F, n) == Flat(F)
Reading == INSTANCE Folding WITH Op <- RuleOne, Good <- FlatSoFar

\* What an export says, whoever wrote it, is read into flat rules.
LEMMA ReadRulesAreFlat == ASSUME NEW x PROVE Flat(ReadExport(x, HomeName).rules)
<1>1. ReadExport(x, HomeName).rules = Reading!Fold(x, NoRules, KeyOrder)
  BY DEF ReadExport, RuleOne, Reading!Fold, FoldLeft, Reading!FoldLeft, MapThenFoldSet,
         Reading!MapThenFoldSet, Max, Reading!Max
<1>2. FlatSoFar(x, NoRules, 0) BY DEF FlatSoFar, Flat, NoRules
<1>3. ASSUME NEW k \in 1..Len(KeyOrder), NEW acc, FlatSoFar(x, acc, k - 1)
      PROVE  FlatSoFar(x, RuleOne(x, acc, KeyOrder[k]), k)
  BY <1>3, AddKeepsFlat DEF FlatSoFar, RuleOne, WithRule
<1>4. FlatSoFar(x, Reading!Fold(x, NoRules, KeyOrder), Len(KeyOrder))
  BY <1>2, <1>3, KeyOrderIsASeq, Reading!FoldKeeps
<1> QED BY <1>1, <1>4 DEF FlatSoFar

\* Rules as the merges file has them: flat, of known networks, no more than allowed.
RulesOK(F) ==
  /\ Flat(F) /\ F = [k \in DOMAIN F |-> F[k]] /\ DOMAIN F \subseteq ToSet(KeyOrder)
  /\ IsFiniteSet(DOMAIN F) /\ Cardinality(DOMAIN F) <= MaxRules

\* The merges file, read back line by line: of the keys so far, the rules are those it has.
ReadSoFar(e, F, n) == F = [k \in {j \in DOMAIN e.from : \E i \in 1..n : KeyOrder[i] = j} |-> e.from[k]]
Restoring == INSTANCE Folding WITH Op <- JoinOne, Good <- ReadSoFar

\* Reading the merges file is that loop.
LEMMA ReloadIsAFold ==
  ASSUME NEW e PROVE Reload(e.from) = Restoring!Fold(e, NoRules, KeyOrder)
BY DEF Reload, Union, JoinOne, Restoring!Fold, FoldLeft, Restoring!FoldLeft, MapThenFoldSet,
       Restoring!MapThenFoldSet, Max, Restoring!Max

\* The merges file brings back the very rules it was written from: the cap and
\* the order of the lines refuse none of them.
LEMMA ReloadKeeps == ASSUME NEW F, RulesOK(F) PROVE Reload(F) = F
<1> DEFINE e == [from |-> F]
           Read(n) == {j \in DOMAIN F : \E i \in 1..n : KeyOrder[i] = j}
<1>0. e.from = F OBVIOUS
<1> HIDE DEF e
<1>1. ReadSoFar(e, NoRules, 0)
  <2>1. Read(0) = {} OBVIOUS
  <2>2. NoRules = [k \in {} |-> F[k]] BY DEF NoRules
  <2> QED BY <1>0, <2>1, <2>2 DEF ReadSoFar
<1>2. ASSUME NEW k \in 1..Len(KeyOrder), NEW acc, ReadSoFar(e, acc, k - 1)
      PROVE  ReadSoFar(e, JoinOne(e, acc, KeyOrder[k]), k)
  <2> DEFINE key == KeyOrder[k]
  <2>0. k \in Nat /\ k - 1 \in Nat /\ \A i : i \in 1..k <=> i \in 1..(k - 1) \/ i = k OBVIOUS
  <2>1. acc = [j \in Read(k - 1) |-> F[j]] BY <1>0, <1>2 DEF ReadSoFar
  <2>2. Read(k) = IF key \in DOMAIN F THEN Read(k - 1) \cup {key} ELSE Read(k - 1) BY <2>0
  <2>3. Read(k - 1) \subseteq DOMAIN F OBVIOUS
  <2> HIDE DEF Read, key
  <2>4. CASE key \notin DOMAIN F \/ key \in Read(k - 1)
    <3>1. Read(k) = Read(k - 1) BY <2>2, <2>4
    <3>2. DOMAIN acc = Read(k - 1) BY <2>1
    <3>3. Adopt(acc, F, key) = acc BY <2>4, <3>2 DEF Adopt
    <3> QED BY <1>0, <2>1, <3>1, <3>3 DEF ReadSoFar, JoinOne, Read, key
  <2>5. CASE key \in DOMAIN F /\ key \notin Read(k - 1)
    <3>1. DOMAIN acc = Read(k - 1) /\ \A j \in Read(k - 1) : acc[j] = F[j] BY <2>1
    <3>2. Root(acc, F[key]) = F[key] /\ Root(acc, key) = key /\ F[key] # key
      BY <2>3, <2>5, <3>1 DEF Root, RulesOK, Flat
    <3>3. Cardinality(DOMAIN acc) < MaxRules
      <4>1. IsFiniteSet(DOMAIN F) BY DEF RulesOK
      <4>2. IsFiniteSet(Read(k - 1)) BY <4>1, <2>3, FS_Subset
      <4>3. Read(k - 1) # DOMAIN F BY <2>5
      <4>4. Cardinality(Read(k - 1)) \in Nat /\ Cardinality(DOMAIN F) \in Nat BY <4>1, <4>2, FS_CardinalityType
      <4>5. /\ Cardinality(Read(k - 1)) <= Cardinality(DOMAIN F)
            /\ Cardinality(DOMAIN F) = Cardinality(Read(k - 1)) => DOMAIN F = Read(k - 1)
        BY <4>1, <2>3, FS_Subset
      <4> QED BY <3>1, <4>3, <4>4, <4>5, RulesAssumption DEF RulesOK
    <3>4. ~(Cardinality(DOMAIN acc) >= MaxRules)
      <4>1. IsFiniteSet(DOMAIN F) BY DEF RulesOK
      <4>2. Cardinality(Read(k - 1)) \in Nat BY <4>1, <2>3, FS_Subset, FS_CardinalityType
      <4> QED BY <3>1, <3>3, <4>2, RulesAssumption
    <3>5. Adopt(acc, F, key) = Add(acc, key, F[key]) BY <2>5, <3>1 DEF Adopt
    <3>6. Add(acc, key, F[key]) =
            [j \in Read(k - 1) \cup {key} |-> IF j = key THEN F[key] ELSE IF acc[j] = key THEN F[key] ELSE acc[j]]
      BY <3>1, <3>2, <3>4 DEF Add
    <3>7. \A j \in Read(k - 1) : F[j] # key BY <2>3, <2>5 DEF RulesOK, Flat
    <3>8. Add(acc, key, F[key]) = [j \in Read(k - 1) \cup {key} |-> F[j]] BY <3>1, <3>6, <3>7
    <3>9. Read(k) = Read(k - 1) \cup {key} BY <2>2, <2>5
    <3> QED BY <1>0, <3>5, <3>8, <3>9 DEF ReadSoFar, JoinOne, Read, key
  <2> QED BY <2>4, <2>5
<1>3. ReadSoFar(e, Restoring!Fold(e, NoRules, KeyOrder), Len(KeyOrder))
  BY <1>1, <1>2, KeyOrderIsASeq, Restoring!FoldKeeps
<1>4. Reload(F) = Restoring!Fold(e, NoRules, KeyOrder) BY <1>0, ReloadIsAFold
<1>5. Read(Len(KeyOrder)) = DOMAIN F
  <2>1. \A j \in DOMAIN F : \E i \in 1..Len(KeyOrder) : KeyOrder[i] = j BY KeyOrderIsASeq DEF RulesOK, ToSet
  <2> QED BY <2>1
<1> QED BY <1>0, <1>3, <1>4, <1>5 DEF ReadSoFar, RulesOK

\* A layer has the fields of a data set, and its rules are flat.
LayersInv ==
  /\ DOMAIN layers \subseteq 1..lastImport
  /\ \A i \in DOMAIN layers : {"sources", "calls", "rules"} \subseteq DOMAIN layers[i] /\ Flat(layers[i].rules)

\* What an import wants and has; nothing is wanted for one that is gone.
WantedInv ==
  /\ DOMAIN wanted \subseteq DOMAIN layers
  /\ \A i \in DOMAIN wanted : wanted[i] = [want |-> wanted[i].want, have |-> wanted[i].have]

\* What an uploader has in hand is of an import there was.
UploadInv ==
  /\ DOMAIN upload = Uploaders
  /\ \A u \in Uploaders :
       /\ upload[u] = [at |-> upload[u].at, file |-> upload[u].file, written |-> upload[u].written]
       /\ upload[u].at \in 0..lastImport /\ upload[u].written \in BOOLEAN

\* The file of import i by this name.
Name(i, f) == [at |-> i, file |-> f]
\* A file an import has, and one an uploader has written and not yet attached.
Had(f) == f.at \in DOMAIN wanted /\ f.file \in wanted[f.at].have
InHand(f) == \E u \in Uploaders : upload[u].written /\ upload[u].at = f.at /\ upload[u].file = f.file

\* A layer's calls play files it had; what it had, and what an uploader wrote for
\* it, is on disk; and nothing else is.
FilesInv ==
  /\ \A i \in DOMAIN layers : \A c \in DOMAIN layers[i].calls : \A a \in layers[i].calls[c].audio :
       a = Name(i, a.file) /\ Had(a)
  /\ \A i \in DOMAIN wanted : \A f \in wanted[i].have : Name(i, f) \in disk
  /\ \A u \in Uploaders :
       upload[u].written /\ upload[u].at \in DOMAIN wanted => Name(upload[u].at, upload[u].file) \in disk
  /\ \A f \in disk : f = Name(f.at, f.file) /\ (Had(f) \/ InHand(f))

\* The invariant of the imports' audio.
AudioInv == LayersInv /\ WantedInv /\ UploadInv /\ FilesInv

\* A merge leaves rules the merges file can bring back.
LEMMA AddKeepsRules ==
  ASSUME NEW F, RulesOK(F), NEW from \in ToSet(KeyOrder), NEW to PROVE RulesOK(Add(F, from, to))
<1>1. CASE Add(F, from, to) = F BY <1>1
<1>2. CASE Add(F, from, to) # F
  <2>1. Add(F, from, to) = [k \in DOMAIN F \cup {from} |->
                              IF k = from THEN Root(F, to) ELSE IF F[k] = from THEN Root(F, to) ELSE F[k]]
    BY <1>2 DEF Add
  <2>2. from \in DOMAIN F \/ ~(Cardinality(DOMAIN F) >= MaxRules) BY <1>2 DEF Add
  <2>3. DOMAIN Add(F, from, to) = DOMAIN F \cup {from} BY <2>1
  <2>4. IsFiniteSet(DOMAIN F) /\ Cardinality(DOMAIN F) <= MaxRules BY DEF RulesOK
  <2>5. /\ IsFiniteSet(DOMAIN F \cup {from})
        /\ Cardinality(DOMAIN F \cup {from}) =
             IF from \in DOMAIN F THEN Cardinality(DOMAIN F) ELSE Cardinality(DOMAIN F) + 1
    BY <2>4, FS_AddElement
  <2>6. Cardinality(DOMAIN F) \in Nat BY <2>4, FS_CardinalityType
  <2>7. Cardinality(DOMAIN F \cup {from}) <= MaxRules BY <2>2, <2>4, <2>5, <2>6, RulesAssumption
  <2>8. Flat(Add(F, from, to)) BY AddKeepsFlat DEF RulesOK
  <2>9. Add(F, from, to) = [k \in DOMAIN Add(F, from, to) |-> Add(F, from, to)[k]] BY <2>1
  <2> QED BY <2>3, <2>5, <2>7, <2>8, <2>9 DEF RulesOK
<1> QED BY <1>1, <1>2

\* So do fewer of the rules.
LEMMA OnlyKeepsRules ==
  ASSUME NEW F, RulesOK(F), NEW keys \in SUBSET DOMAIN F PROVE RulesOK(Only(F, keys))
<1>1. DOMAIN Only(F, keys) = keys BY DEF Only
<1>2. Flat(Only(F, keys)) BY DEF Only, Flat, RulesOK
<1>3. IsFiniteSet(keys) /\ Cardinality(keys) <= Cardinality(DOMAIN F) BY FS_Subset DEF RulesOK
<1>4. Cardinality(keys) \in Nat /\ Cardinality(DOMAIN F) \in Nat BY <1>3, FS_CardinalityType DEF RulesOK
<1>5. Cardinality(keys) <= MaxRules BY <1>3, <1>4, RulesAssumption DEF RulesOK
<1>6. Only(F, keys) = [k \in DOMAIN Only(F, keys) |-> Only(F, keys)[k]] BY DEF Only
<1> QED BY <1>1, <1>2, <1>3, <1>5, <1>6 DEF RulesOK

\* So does an unmerge.
LEMMA LetGoKeepsRules == ASSUME NEW F, RulesOK(F), NEW key PROVE RulesOK(LetGo(F, key))
<1>1. CASE key \in DOMAIN F BY <1>1, OnlyKeepsRules, DOMAIN F \ {key} \in SUBSET DOMAIN F DEF LetGo
<1>2. CASE key \notin DOMAIN F
  <2>1. {k \in DOMAIN F : F[k] # key} \in SUBSET DOMAIN F OBVIOUS
  <2> QED BY <1>2, <2>1, OnlyKeepsRules DEF LetGo
<1> QED BY <1>1, <1>2

\* There are no rules at first.
LEMMA NoRulesOK == RulesOK(NoRules)
<1>1. DOMAIN NoRules = {} /\ NoRules = [k \in {} |-> NoRules[k]] BY DEF NoRules
<1>2. IsFiniteSet({}) /\ Cardinality({}) = 0 BY FS_EmptySet
<1> QED BY <1>1, <1>2, RulesAssumption DEF RulesOK, Flat

\* Every operation leaves rules the merges file can bring back.
LEMMA RulesStep == ASSUME RulesOK(rules), [Next]_vars PROVE RulesOK(rules)'
<1>0. ASSUME UNCHANGED rules PROVE RulesOK(rules)' BY <1>0
<1>1. CASE UNCHANGED vars BY <1>0, <1>1 DEF vars
<1>2. CASE Tick \/ RemoveImport \/ ClearImports \/ Clear \/ SaveExport
  BY <1>0, <1>2 DEF Tick, RemoveImport, ClearImports, Clear, SaveExport
<1>3. CASE Import BY <1>0, <1>3 DEF Import, ImportExport
<1>4. CASE Restart BY <1>4, ReloadKeeps DEF Restart
<1>5. CASE Merge
  <2>1. PICK from \in RuleKeys, to \in RuleKeys : rules' = Add(rules, from, to) BY <1>5 DEF Merge, MergeNetworks
  <2>2. from \in ToSet(KeyOrder) BY LibraryAssumption
  <2> QED BY <2>1, <2>2, AddKeepsRules
<1>6. CASE Unmerge
  <2>1. PICK key \in RuleKeys : rules' = LetGo(rules, key) BY <1>6 DEF Unmerge, UnmergeNetwork
  <2> QED BY <2>1, LetGoKeepsRules
<1>7. CASE Upload
  BY <1>0, <1>7 DEF Upload, UploadCheck, UploadWrite, UploadFails, UploadAttach
<1> QED BY <1>1, <1>2, <1>3, <1>4, <1>5, <1>6, <1>7 DEF Next

\* Nothing of the audio moves.
LEMMA AudioStays ==
  ASSUME AudioInv, UNCHANGED <<lastImport, wanted, disk, upload>>, DOMAIN layers' = DOMAIN layers,
         \A i \in DOMAIN layers : /\ DOMAIN layers'[i] = DOMAIN layers[i] /\ layers'[i].calls = layers[i].calls
                                  /\ Flat(layers'[i].rules)
  PROVE  AudioInv'
<1>1. LayersInv' BY DEF AudioInv, LayersInv
<1>2. WantedInv' /\ UploadInv' BY DEF AudioInv, WantedInv, UploadInv
<1>3. FilesInv'
  <2>1. \A f : (Had(f)' <=> Had(f)) /\ (InHand(f)' <=> InHand(f)) BY DEF Had, InHand
  <2> QED BY <2>1 DEF AudioInv, FilesInv, Name
<1> QED BY <1>1, <1>2, <1>3 DEF AudioInv

\* Layers go, and their audio with them.
LEMMA DropKeeps ==
  ASSUME AudioInv, NEW ids, AudioDropped(ids), UNCHANGED <<lastImport, upload>>,
         DOMAIN layers' \subseteq DOMAIN layers, \A i \in DOMAIN layers' : layers'[i] = layers[i] ,
         \A i \in DOMAIN layers' : i \in DOMAIN wanted => i \notin ids, DOMAIN wanted \ ids \subseteq DOMAIN layers'
  PROVE  AudioInv'
<1>1. /\ DOMAIN wanted' = DOMAIN wanted \ ids /\ \A i \in DOMAIN wanted' : wanted'[i] = wanted[i]
      /\ disk' = {f \in disk : f.at \notin ids \cap DOMAIN wanted}
  BY DEF AudioDropped, Drop
<1>2. LayersInv' BY DEF AudioInv, LayersInv
<1>3. WantedInv' /\ UploadInv' BY <1>1 DEF AudioInv, WantedInv, UploadInv
<1>4. \A f : Had(f)' <=> Had(f) /\ f.at \notin ids BY <1>1 DEF Had
<1>5. \A f : InHand(f)' <=> InHand(f) BY DEF InHand
<1>6. ASSUME NEW i \in DOMAIN layers', NEW c \in DOMAIN layers'[i].calls, NEW a \in layers'[i].calls[c].audio
      PROVE  a = Name(i, a.file) /\ Had(a)'
  <2>1. a = Name(i, a.file) /\ Had(a) BY <1>6 DEF AudioInv, FilesInv
  <2>2. a.at = i BY <2>1 DEF Name
  <2> QED BY <1>4, <2>1, <2>2 DEF Had
<1>7. ASSUME NEW i \in DOMAIN wanted', NEW f \in wanted'[i].have PROVE Name(i, f) \in disk'
  BY <1>1 DEF AudioInv, FilesInv, Name
<1>8. ASSUME NEW u \in Uploaders, upload'[u].written, upload'[u].at \in DOMAIN wanted'
      PROVE  Name(upload'[u].at, upload'[u].file) \in disk'
  BY <1>1, <1>8 DEF AudioInv, FilesInv, Name
<1>9. ASSUME NEW f \in disk' PROVE f = Name(f.at, f.file) /\ (Had(f)' \/ InHand(f)')
  BY <1>1, <1>4, <1>5 DEF AudioInv, FilesInv, Had
<1>10. FilesInv' BY <1>6, <1>7, <1>8, <1>9 DEF FilesInv, Name
<1> QED BY <1>2, <1>3, <1>10 DEF AudioInv

\* An import comes, its calls without audio yet, and may take others' places.
LEMMA ImportKeeps == ASSUME AudioInv, lastImport \in Nat, NEW x, ImportExport(x) PROVE AudioInv'
<1> DEFINE d == ReadExport(x, HomeName)
           gone == Judge(d.sources, layers, {LiveSource}).replaces
           id == lastImport + 1
           kept == DOMAIN layers \ gone
<1>1. UNCHANGED upload /\ lastImport' = id BY DEF ImportExport
<1> DEFINE calls == CapCalls(NewestFirst(d.calls))
           layer == [d EXCEPT !.calls = [i \in DOMAIN calls |-> Playing(calls[i], {})]]
<1>2. layers' = [i \in {id} \cup kept |-> IF i = id THEN layer ELSE layers[i]]
  BY DEF ImportExport
<1> DEFINE wants == {[file |-> a.file, call |-> i] : a \in UNION {calls[j].audio : j \in DOMAIN calls},
                                                    i \in DOMAIN calls}
           want == {w \in wants : \E a \in calls[w.call].audio : a.file = w.file}
           asked == IF want = {} THEN {} ELSE {id}
<1>3. wanted' = [i \in asked \cup (DOMAIN wanted \ gone) |->
                  IF i \in asked THEN [want |-> want, have |-> {}] ELSE wanted[i]]
  BY DEF ImportExport
<1> HIDE DEF calls, want
<1>4. disk' = {f \in disk : f.at \notin gone \cap DOMAIN wanted} BY DEF ImportExport
<1>5. id \notin DOMAIN layers /\ id \notin DOMAIN wanted /\ id \in Nat /\ id \notin 0..lastImport
  BY DEF AudioInv, LayersInv, WantedInv
<1>6. DOMAIN d = {"sources", "nets", "calls", "counts", "rules"} /\ Flat(d.rules)
  <2>1. Flat(d.rules) BY ReadRulesAreFlat
  <2>2. DOMAIN d = {"sources", "nets", "calls", "counts", "rules"} BY DEF ReadExport
  <2> HIDE DEF d
  <2> QED BY <2>1, <2>2
<1>7. /\ DOMAIN layer = DOMAIN d /\ layer.rules = d.rules
      /\ \A c \in DOMAIN layer.calls : layer.calls[c].audio = {}
  <2>1. layer.calls = [i \in DOMAIN calls |-> Playing(calls[i], {})]
        /\ DOMAIN layer = DOMAIN d /\ layer.rules = d.rules
    <3> HIDE DEF d
    <3> QED BY <1>6
  <2>2. \A c : Playing(c, {}).audio = {} BY DEF Playing
  <2> HIDE DEF layer, d
  <2> QED BY <2>1, <2>2
<1> HIDE DEF d
<1>8. /\ DOMAIN layers' = {id} \cup kept /\ layers'[id] = layer
      /\ \A i \in kept : layers'[i] = layers[i]
  <2> HIDE DEF layer, gone, id
  <2> QED BY <1>2, <1>5 DEF layer
<1> HIDE DEF layer, gone
<1>9. LayersInv'
  <2>1. kept \subseteq 1..lastImport /\ {id} \cup kept \subseteq 1..id BY <1>5 DEF AudioInv, LayersInv
  <2>2. {"sources", "calls", "rules"} \subseteq DOMAIN layer /\ Flat(layer.rules) BY <1>6, <1>7
  <2> HIDE DEF id
  <2> QED BY <1>1, <1>8, <2>1, <2>2 DEF AudioInv, LayersInv
<1>10. /\ DOMAIN wanted' \subseteq {id} \cup (DOMAIN wanted \ gone)
       /\ DOMAIN wanted \ gone \subseteq DOMAIN wanted'
       /\ \A i \in DOMAIN wanted \ gone : wanted'[i] = wanted[i]
       /\ id \in DOMAIN wanted' => wanted'[id] = [want |-> want, have |-> {}]
  <2> HIDE DEF id
  <2> QED BY <1>3, <1>5
<1>11. WantedInv'
  <2> HIDE DEF id
  <2>1. DOMAIN wanted' \subseteq DOMAIN layers' BY <1>8, <1>10 DEF AudioInv, WantedInv
  <2>2. ASSUME NEW i \in DOMAIN wanted' PROVE wanted'[i] = [want |-> wanted'[i].want, have |-> wanted'[i].have]
    BY <1>10 DEF AudioInv, WantedInv
  <2> QED BY <2>1, <2>2 DEF WantedInv
<1>12. UploadInv'
  <2>1. \A j \in 0..lastImport : j \in 0..id BY <1>5
  <2> HIDE DEF id
  <2> QED BY <1>1, <2>1 DEF AudioInv, UploadInv
<1>13. \A f : Had(f)' <=> Had(f) /\ f.at \notin gone
  <2>1. ASSUME NEW f PROVE Had(f)' <=> Had(f) /\ f.at \notin gone
    <3>1. CASE f.at = id BY <1>5, <1>10, <3>1 DEF Had
    <3>2. CASE f.at # id
      <4> HIDE DEF id
      <4> QED BY <1>10, <3>2 DEF Had
    <3> QED BY <3>1, <3>2
  <2> QED BY <2>1
<1>14. \A f : InHand(f)' <=> InHand(f) BY <1>1 DEF InHand
<1>15. \A u \in Uploaders : upload[u].at # id BY <1>5 DEF AudioInv, UploadInv
<1> HIDE DEF id
<1>16. ASSUME NEW i \in DOMAIN layers', NEW c \in DOMAIN layers'[i].calls, NEW a \in layers'[i].calls[c].audio
       PROVE  a = Name(i, a.file) /\ Had(a)'
  <2>1. i \in kept BY <1>7, <1>8
  <2>2. a = Name(i, a.file) /\ Had(a) BY <1>8, <1>16, <2>1 DEF AudioInv, FilesInv
  <2>3. a.at = i BY <2>2 DEF Name
  <2> QED BY <1>13, <2>1, <2>2, <2>3
<1>17. ASSUME NEW i \in DOMAIN wanted', NEW f \in wanted'[i].have PROVE Name(i, f) \in disk'
  <2>1. i \in DOMAIN wanted \ gone /\ f \in wanted[i].have BY <1>10
  <2>2. Name(i, f) \in disk /\ Name(i, f).at = i BY <2>1 DEF AudioInv, FilesInv, Name
  <2> QED BY <1>4, <2>1, <2>2
<1>18. ASSUME NEW u \in Uploaders, upload'[u].written, upload'[u].at \in DOMAIN wanted'
       PROVE  Name(upload'[u].at, upload'[u].file) \in disk'
  <2>1. upload[u].at \in DOMAIN wanted \ gone BY <1>1, <1>10, <1>15, <1>18
  <2>2. Name(upload[u].at, upload[u].file) \in disk BY <1>1, <1>18, <2>1 DEF AudioInv, FilesInv
  <2>3. Name(upload[u].at, upload[u].file).at = upload[u].at BY DEF Name
  <2> QED BY <1>1, <1>4, <2>1, <2>2, <2>3
<1>19. ASSUME NEW f \in disk' PROVE f = Name(f.at, f.file) /\ (Had(f)' \/ InHand(f)')
  BY <1>4, <1>13, <1>14, <1>19 DEF AudioInv, FilesInv, Had
<1>20. FilesInv' BY <1>16, <1>17, <1>18, <1>19 DEF FilesInv, Name
<1> QED BY <1>9, <1>11, <1>12, <1>20 DEF AudioInv

\* An upload, between its two critical sections and in them.
LEMMA UploadKeeps == ASSUME AudioInv, lastImport \in Nat, Upload PROVE AudioInv'
<1> PICK u \in Uploaders : UploadCheck(u) \/ UploadWrite(u) \/ UploadFails(u) \/ UploadAttach(u) BY DEF Upload
<1> USE DEF AudioInv
<1>1. CASE UploadCheck(u)
  <2>1. PICK i, f : i \in DOMAIN wanted /\ upload' = [upload EXCEPT ![u] = [at |-> i, file |-> f, written |-> FALSE]]
    BY <1>1 DEF UploadCheck
  <2>2. UNCHANGED <<layers, lastImport, wanted, disk>> /\ upload[u] = NoUpload BY <1>1 DEF UploadCheck
  <2>3. i \in 0..lastImport BY <2>1 DEF LayersInv, WantedInv
  <2>4. LayersInv' /\ WantedInv' BY <2>2 DEF LayersInv, WantedInv
  <2>5. UploadInv' BY <2>1, <2>2, <2>3 DEF UploadInv
  <2>6. ~upload[u].written /\ ~upload'[u].written BY <2>1, <2>2 DEF NoUpload, UploadInv
  <2>7. \A v \in Uploaders \ {u} : upload'[v] = upload[v] BY <2>1 DEF UploadInv
  <2>8. \A g : (Had(g)' <=> Had(g)) /\ (InHand(g)' <=> InHand(g)) BY <2>2, <2>6, <2>7 DEF Had, InHand
  <2>9. FilesInv' BY <2>2, <2>6, <2>7, <2>8 DEF FilesInv, Name
  <2> QED BY <2>4, <2>5, <2>9
<1>2. CASE UploadWrite(u)
  <2> DEFINE name == Name(upload[u].at, upload[u].file)
  <2>1. /\ UNCHANGED <<layers, lastImport, wanted>> /\ disk' = disk \cup {name}
        /\ upload' = [upload EXCEPT ![u].written = TRUE]
    BY <1>2 DEF UploadWrite, Name
  <2>2. upload'[u] = [at |-> upload[u].at, file |-> upload[u].file, written |-> TRUE]
        /\ DOMAIN upload' = Uploaders /\ \A v \in Uploaders \ {u} : upload'[v] = upload[v]
    <3>1. PICK r : r = upload[u] OBVIOUS
    <3>2. r = [at |-> r.at, file |-> r.file, written |-> r.written] BY <3>1 DEF UploadInv
    <3>3. PICK w : w = [r EXCEPT !.written = TRUE] OBVIOUS
    <3>4. w = [at |-> r.at, file |-> r.file, written |-> TRUE] BY <3>2, <3>3
    <3>5. upload' = [upload EXCEPT ![u] = w] BY <2>1, <3>1, <3>3
    <3> QED BY <3>1, <3>4, <3>5 DEF UploadInv
  <2>3. LayersInv' /\ WantedInv' BY <2>1 DEF LayersInv, WantedInv
  <2>4. UploadInv' BY <2>1, <2>2, ZenonT(40) DEF UploadInv
  <2>5. \A g : Had(g)' <=> Had(g) BY <2>1 DEF Had
  <2>6. \A g : InHand(g) => InHand(g)' BY <2>2 DEF InHand
  <2>7. ASSUME NEW g, g = name PROVE InHand(g)' /\ g = Name(g.at, g.file) BY <2>2, <2>7 DEF InHand, Name
  <2>8. name \in disk' /\ disk \subseteq disk' BY <2>1
  <2>9. ASSUME NEW v \in Uploaders, upload'[v].written, upload'[v].at \in DOMAIN wanted'
        PROVE  Name(upload'[v].at, upload'[v].file) \in disk'
    BY <2>1, <2>2, <2>8, <2>9 DEF FilesInv, Name
  <2> HIDE DEF name
  <2>10. ASSUME NEW g \in disk' PROVE g = Name(g.at, g.file) /\ (Had(g)' \/ InHand(g)')
    <3>1. CASE g = name BY <2>7, <3>1
    <3>2. CASE g \in disk
      <4>1. g = Name(g.at, g.file) /\ (Had(g) \/ InHand(g)) BY <3>2 DEF FilesInv
      <4> QED BY <2>5, <2>6, <4>1
    <3> QED BY <2>1, <3>1, <3>2
  <2>11. FilesInv' BY <2>1, <2>5, <2>8, <2>9, <2>10 DEF FilesInv, Name
  <2> QED BY <2>3, <2>4, <2>11
<1>3. CASE UploadFails(u)
  <2>1. UNCHANGED <<layers, lastImport, wanted, disk>> /\ upload' = [upload EXCEPT ![u] = NoUpload]
        /\ ~upload[u].written
    BY <1>3 DEF UploadFails
  <2>2. LayersInv' /\ WantedInv' BY <2>1 DEF LayersInv, WantedInv
  <2>3. upload'[u] = NoUpload /\ \A v \in Uploaders \ {u} : upload'[v] = upload[v] BY <2>1 DEF UploadInv
  <2>4. UploadInv'
    <3>1. 0 \in 0..lastImport OBVIOUS
    <3> QED BY <2>1, <2>3, <3>1 DEF UploadInv, NoUpload
  <2>5. \A g : (Had(g)' <=> Had(g)) /\ (InHand(g)' <=> InHand(g)) BY <2>1, <2>3 DEF Had, InHand, NoUpload
  <2>6. FilesInv' BY <2>1, <2>3, <2>5 DEF FilesInv, Name, NoUpload
  <2> QED BY <2>2, <2>4, <2>6
<1>4. CASE UploadAttach(u)
  <2> DEFINE id == upload[u].at
             name == Name(id, upload[u].file)
  <2>1. upload[u].written /\ upload' = [upload EXCEPT ![u] = NoUpload] /\ UNCHANGED lastImport
    BY <1>4 DEF UploadAttach
  <2>2. upload'[u] = NoUpload /\ \A v \in Uploaders \ {u} : upload'[v] = upload[v] BY <2>1 DEF UploadInv
  <2>3. UploadInv'
    <3>1. 0 \in 0..lastImport OBVIOUS
    <3> QED BY <2>1, <2>2, <3>1 DEF UploadInv, NoUpload
  <2>4. ASSUME NEW g, ~(g.at = id /\ g.file = upload[u].file) PROVE InHand(g)' <=> InHand(g)
    <3>1. ~upload'[u].written BY <2>2 DEF NoUpload
    <3> QED BY <2>1, <2>2, <2>4, <3>1 DEF InHand
  <2>5. CASE id \in DOMAIN wanted
    <3>1. PICK calls : /\ wanted' = [wanted EXCEPT ![id].have = @ \cup {upload[u].file}] /\ UNCHANGED disk
                       /\ layers' = [layers EXCEPT ![id].calls =
                                       [i \in DOMAIN @ |-> IF i \in calls THEN Playing(@[i], {name}) ELSE @[i]]]
      BY <1>4, <2>5 DEF UploadAttach, Name, WantedInv
    <3>2. id \in DOMAIN layers BY <2>5 DEF WantedInv
    <3>3. PICK w : w = wanted[id] OBVIOUS
    <3>4. w = [want |-> w.want, have |-> w.have] BY <2>5, <3>3 DEF WantedInv
    <3>5. PICK v : v = [w EXCEPT !.have = @ \cup {upload[u].file}] OBVIOUS
    <3>6. v = [want |-> w.want, have |-> w.have \cup {upload[u].file}] BY <3>4, <3>5
    <3>7. /\ wanted' = [wanted EXCEPT ![id] = v] /\ DOMAIN wanted' = DOMAIN wanted /\ wanted'[id] = v
          /\ \A i \in DOMAIN wanted \ {id} : wanted'[i] = wanted[i]
      BY <2>5, <3>1, <3>3, <3>5
    <3>8. PICK l : l = layers[id] OBVIOUS
    <3>9. {"sources", "calls", "rules"} \subseteq DOMAIN l /\ Flat(l.rules) BY <3>2, <3>8 DEF LayersInv
    <3> DEFINE told == [i \in DOMAIN l.calls |-> IF i \in calls THEN Playing(l.calls[i], {name}) ELSE l.calls[i]]
    <3>10. PICK m : m = [l EXCEPT !.calls = told] OBVIOUS
    <3>11. /\ layers' = [layers EXCEPT ![id] = m] /\ DOMAIN layers' = DOMAIN layers /\ layers'[id] = m
           /\ \A i \in DOMAIN layers \ {id} : layers'[i] = layers[i]
      BY <3>1, <3>2, <3>8, <3>10
    <3>12. DOMAIN m = DOMAIN l /\ m.rules = l.rules /\ m.calls = told
      <4> HIDE DEF told
      <4> QED BY <3>9, <3>10
    <3>13. LayersInv' BY <2>1, <3>2, <3>9, <3>11, <3>12 DEF LayersInv
    <3>14. WantedInv' BY <3>6, <3>7, <3>11 DEF WantedInv
    <3>15. ASSUME NEW g PROVE Had(g)' <=> Had(g) \/ (g.at = id /\ g.file = upload[u].file)
      BY <2>5, <3>3, <3>6, <3>7 DEF Had
    <3>16. name \in disk BY <2>1, <2>5 DEF FilesInv
    <3>17. ASSUME NEW i \in DOMAIN layers', NEW c \in DOMAIN layers'[i].calls, NEW a \in layers'[i].calls[c].audio
           PROVE  a = Name(i, a.file) /\ Had(a)'
      <4>1. CASE i # id
        <5>1. a = Name(i, a.file) /\ Had(a) BY <3>11, <3>17, <4>1 DEF FilesInv
        <5> QED BY <3>15, <5>1
      <4>2. CASE i = id
        <5>1. c \in DOMAIN l.calls /\ a \in told[c].audio BY <3>11, <3>12, <3>17, <4>2
        <5>2. CASE c \in calls
          <6>1. Playing(l.calls[c], {name}).audio = {name} BY DEF Playing
          <6>2. a = name BY <5>1, <5>2, <6>1
          <6>3. a = Name(id, a.file) /\ a.at = id /\ a.file = upload[u].file BY <6>2 DEF Name
          <6> QED BY <3>15, <4>2, <6>3
        <5>3. CASE c \notin calls
          <6>1. a \in layers[id].calls[c].audio BY <3>8, <5>1, <5>3
          <6>2. a = Name(id, a.file) /\ Had(a) BY <3>2, <3>8, <5>1, <6>1 DEF FilesInv
          <6> QED BY <3>15, <4>2, <6>2
        <5> QED BY <5>2, <5>3
      <4> QED BY <4>1, <4>2
    <3>18. ASSUME NEW i \in DOMAIN wanted', NEW f \in wanted'[i].have PROVE Name(i, f) \in disk'
      <4>1. CASE i # id BY <3>1, <3>7, <3>18, <4>1 DEF FilesInv
      <4>2. CASE i = id
        <5>1. f \in wanted[id].have \/ f = upload[u].file BY <3>3, <3>6, <3>7, <3>18, <4>2
        <5> QED BY <2>5, <3>1, <3>16, <4>2, <5>1 DEF FilesInv
      <4> QED BY <4>1, <4>2
    <3>19. ASSUME NEW v2 \in Uploaders, upload'[v2].written, upload'[v2].at \in DOMAIN wanted'
           PROVE  Name(upload'[v2].at, upload'[v2].file) \in disk'
      <4>1. v2 # u BY <2>2, <3>19 DEF NoUpload
      <4> QED BY <2>2, <3>1, <3>7, <3>19, <4>1 DEF FilesInv, Name
    <3>20. ASSUME NEW g \in disk' PROVE g = Name(g.at, g.file) /\ (Had(g)' \/ InHand(g)')
      <4>1. g = Name(g.at, g.file) /\ (Had(g) \/ InHand(g)) BY <3>1, <3>20 DEF FilesInv
      <4> QED BY <2>4, <3>15, <4>1
    <3>21. FilesInv' BY <3>17, <3>18, <3>19, <3>20 DEF FilesInv, Name
    <3> QED BY <2>3, <3>13, <3>14, <3>21
  <2>6. CASE id \notin DOMAIN wanted
    <3>1. disk' = disk \ {name} /\ UNCHANGED <<wanted, layers>> BY <1>4, <2>6 DEF UploadAttach, Name
    <3>2. LayersInv' /\ WantedInv' BY <2>1, <3>1 DEF LayersInv, WantedInv
    <3>3. \A g : Had(g)' <=> Had(g) BY <3>1 DEF Had
    <3>4. name.at = id /\ ~Had(name) BY <2>6 DEF Had, Name
    <3>5. ASSUME NEW i \in DOMAIN wanted', NEW f \in wanted'[i].have PROVE Name(i, f) \in disk'
      BY <2>6, <3>1 DEF FilesInv, Name
    <3>6. ASSUME NEW v \in Uploaders, upload'[v].written, upload'[v].at \in DOMAIN wanted'
          PROVE  Name(upload'[v].at, upload'[v].file) \in disk'
      <4>1. v # u BY <2>2, <3>6 DEF NoUpload
      <4> QED BY <2>2, <2>6, <3>1, <3>6, <4>1 DEF FilesInv, Name
    <3>7. ASSUME NEW g \in disk' PROVE g = Name(g.at, g.file) /\ (Had(g)' \/ InHand(g)')
      <4>1. g # name /\ g \in disk /\ g = Name(g.at, g.file) /\ (Had(g) \/ InHand(g)) BY <3>1, <3>7 DEF FilesInv
      <4>2. ~(g.at = id /\ g.file = upload[u].file) BY <4>1 DEF Name
      <4> QED BY <2>4, <3>3, <4>1, <4>2
    <3>8. FilesInv' BY <3>1, <3>3, <3>5, <3>6, <3>7 DEF FilesInv
    <3> QED BY <2>3, <3>2, <3>8
  <2> QED BY <2>5, <2>6
<1> QED BY <1>1, <1>2, <1>3, <1>4

\* Nothing imported, nothing wanted, no file, no upload: as the process starts.
LEMMA FreshAudio ==
  ASSUME layers = <<>>, lastImport = 0, wanted = <<>>, disk = {}, upload = [u \in Uploaders |-> NoUpload]
  PROVE  AudioInv
<1>1. LayersInv /\ WantedInv BY DEF LayersInv, WantedInv
<1>2. UploadInv
  <2>1. 0 \in 0..lastImport OBVIOUS
  <2>2. \A u \in Uploaders : upload[u] = NoUpload OBVIOUS
  <2> QED BY <2>1, <2>2 DEF UploadInv, NoUpload
<1>3. FilesInv BY DEF FilesInv, NoUpload
<1> QED BY <1>1, <1>2, <1>3 DEF AudioInv

\* Every operation keeps the imports' audio in order.
LEMMA AudioStep == ASSUME AudioInv, lastImport \in Nat, RulesOK(rules), [Next]_vars PROVE AudioInv'
<1>1. CASE UNCHANGED vars BY <1>1, AudioStays DEF vars, AudioInv, LayersInv
<1>2. CASE Tick \/ SaveExport BY <1>2, AudioStays DEF Tick, SaveExport, AudioInv, LayersInv
<1>3. CASE Import BY <1>3, ImportKeeps DEF Import
<1>4. CASE RemoveImport
  <2>1. PICK id \in DOMAIN layers : layers' = Drop(layers, {id}) /\ AudioDropped({id})
                                    /\ UNCHANGED <<lastImport, upload>>
    BY <1>4 DEF RemoveImport
  <2>2. /\ DOMAIN layers' = DOMAIN layers \ {id}
        /\ \A i \in DOMAIN layers' : layers'[i] = layers[i]
    BY <2>1 DEF Drop
  <2>3. DOMAIN wanted \ {id} \subseteq DOMAIN layers' BY <2>2 DEF AudioInv, WantedInv
  <2> QED BY <2>1, <2>2, <2>3, DropKeeps
<1>5. CASE ClearImports \/ Clear
  <2>1. layers' = <<>> /\ AudioDropped(DOMAIN wanted) /\ UNCHANGED <<lastImport, upload>>
    BY <1>5 DEF ClearImports, Clear
  <2>2. DOMAIN layers' = {} BY <2>1
  <2> QED BY <2>1, <2>2, DropKeeps
<1>6. CASE Restart
  <2>1. /\ layers' = <<>> /\ lastImport' = 0 /\ wanted' = <<>> /\ disk' = {}
        /\ upload' = [u \in Uploaders |-> NoUpload]
    BY <1>6 DEF Restart
  <2>2. LayersInv' /\ WantedInv' BY <2>1 DEF LayersInv, WantedInv
  <2>3. UploadInv'
    <3>1. 0 \in 0..lastImport' BY <2>1
    <3>2. \A u \in Uploaders : upload'[u] = NoUpload BY <2>1
    <3> QED BY <2>1, <3>1, <3>2 DEF UploadInv, NoUpload
  <2>4. FilesInv' BY <2>1 DEF FilesInv, NoUpload
  <2> QED BY <2>2, <2>3, <2>4 DEF AudioInv
<1>7. CASE Merge
  <2>1. PICK from : layers' = [i \in DOMAIN layers |-> [layers[i] EXCEPT !.rules = Only(@, DOMAIN @ \ {from})]]
    BY <1>7 DEF Merge, MergeNetworks
  <2>2. UNCHANGED <<lastImport, wanted, disk, upload>> BY <1>7 DEF Merge, MergeNetworks
  <2>3. ASSUME NEW i \in DOMAIN layers
        PROVE  DOMAIN layers'[i] = DOMAIN layers[i] /\ layers'[i].calls = layers[i].calls /\ Flat(layers'[i].rules)
    <3>1. PICK l : l = layers[i] OBVIOUS
    <3>2. {"sources", "calls", "rules"} \subseteq DOMAIN l /\ Flat(l.rules) BY <2>3, <3>1 DEF AudioInv, LayersInv
    <3>3. PICK F : F = Only(l.rules, DOMAIN l.rules \ {from}) OBVIOUS
    <3>4. Flat(F) BY <3>2, <3>3 DEF Flat, Only
    <3>5. layers'[i] = [l EXCEPT !.rules = F] BY <2>1, <2>3, <3>1, <3>3
    <3> QED BY <3>1, <3>2, <3>4, <3>5
  <2>4. DOMAIN layers' = DOMAIN layers BY <2>1
  <2> QED BY <2>2, <2>3, <2>4, AudioStays
<1>8. CASE Unmerge
  <2>1. PICK key : layers' = [i \in DOMAIN layers |-> [layers[i] EXCEPT !.rules = LetGo(@, key)]]
    BY <1>8 DEF Unmerge, UnmergeNetwork
  <2>2. UNCHANGED <<lastImport, wanted, disk, upload>> BY <1>8 DEF Unmerge, UnmergeNetwork
  <2>3. ASSUME NEW i \in DOMAIN layers
        PROVE  DOMAIN layers'[i] = DOMAIN layers[i] /\ layers'[i].calls = layers[i].calls /\ Flat(layers'[i].rules)
    <3>1. PICK l : l = layers[i] OBVIOUS
    <3>2. {"sources", "calls", "rules"} \subseteq DOMAIN l /\ Flat(l.rules) BY <2>3, <3>1 DEF AudioInv, LayersInv
    <3>3. PICK F : F = LetGo(l.rules, key) OBVIOUS
    <3>4. Flat(F) BY <3>2, <3>3, LetGoKeepsFlat
    <3>5. layers'[i] = [l EXCEPT !.rules = F] BY <2>1, <2>3, <3>1, <3>3
    <3> QED BY <3>1, <3>2, <3>4, <3>5
  <2>4. DOMAIN layers' = DOMAIN layers BY <2>1
  <2> QED BY <2>2, <2>3, <2>4, AudioStays
<1>9. CASE Upload BY <1>9, UploadKeeps
<1> QED BY <1>1, <1>2, <1>3, <1>4, <1>5, <1>6, <1>7, <1>8, <1>9 DEF Next

\* The clock, the run and the import ids.
Bounds == lastImport \in Nat /\ since \in Nat /\ since <= now /\ now \in 0..MaxTime /\ run \in 1..MaxRuns

\* Every operation keeps these in their bounds.
LEMMA BoundsStep == ASSUME Bounds, [Next]_vars PROVE Bounds'
<1> USE LibraryAssumption DEF Bounds
<1>1. CASE UNCHANGED vars BY <1>1 DEF vars
<1>2. CASE Tick BY <1>2 DEF Tick
<1>3. CASE Import BY <1>3 DEF Import, ImportExport
<1>4. CASE Restart BY <1>4 DEF Restart
<1>5. CASE RemoveImport \/ ClearImports \/ SaveExport
  BY <1>5 DEF RemoveImport, ClearImports, SaveExport
<1>8. CASE Clear BY <1>8 DEF Clear
<1>6. CASE Merge \/ Unmerge BY <1>6 DEF Merge, MergeNetworks, Unmerge, UnmergeNetwork
<1>7. CASE Upload BY <1>7 DEF Upload, UploadCheck, UploadWrite, UploadFails, UploadAttach
<1> QED BY <1>1, <1>2, <1>3, <1>4, <1>5, <1>6, <1>7, <1>8 DEF Next

\* The inductive invariant of rules, imports and audio.
LibraryInv == Bounds /\ RulesOK(rules) /\ AudioInv

\* It holds throughout.
LEMMA LibraryHolds == Spec => []LibraryInv
<1>1. Init => LibraryInv
  <2> SUFFICES ASSUME Init PROVE LibraryInv OBVIOUS
  <2>1. Bounds BY LibraryAssumption DEF Init, Bounds
  <2>2. RulesOK(rules) BY NoRulesOK DEF Init
  <2>3. AudioInv BY FreshAudio DEF Init
  <2> QED BY <2>1, <2>2, <2>3 DEF LibraryInv
<1>2. LibraryInv /\ [Next]_vars => LibraryInv'
  <2> SUFFICES ASSUME LibraryInv, [Next]_vars PROVE LibraryInv' OBVIOUS
  <2>1. Bounds' BY BoundsStep DEF LibraryInv
  <2>2. RulesOK(rules)' BY RulesStep DEF LibraryInv
  <2>3. AudioInv' BY AudioStep DEF LibraryInv, Bounds
  <2> QED BY <2>1, <2>2, <2>3 DEF LibraryInv
<1> QED BY <1>1, <1>2, PTL DEF Spec

\* Whatever is imported, replaced, removed or cleared, and whatever uploads were on
\* their way meanwhile: a call that plays an import's file has it on disk, and no
\* file is left that nobody has (import_audio looks again under its second lock).
THEOREM AudioIsAlwaysOnDisk == Spec => []AudioIsOnDisk
<1>1. LibraryInv => AudioIsOnDisk
  <2> SUFFICES ASSUME LibraryInv PROVE AudioIsOnDisk OBVIOUS
  <2>1. Flat(ViewRules)
    <3>1. Flat(rules) /\ lastImport \in Nat BY DEF LibraryInv, RulesOK, Bounds
    <3>2. PICK none : none = {} OBVIOUS
    <3>3. \A f \in none : Free(rules, f) /\ \A i \in DOMAIN layers : Free(layers[i].rules, f) BY <3>2
    <3>4. Root(rules, none) = Root(rules, none) OBVIOUS
    <3>5. Flat(WithLayers(rules, layers, lastImport)) BY <3>1, <3>3, <3>4, LayersKeep
    <3> QED BY <3>5 DEF ViewRules
  <2>2. TypeOK BY <2>1 DEF LibraryInv, Bounds, RulesOK, AudioInv, LayersInv, WantedInv, TypeOK
  <2>3. ASSUME NEW i \in DOMAIN layers, NEW c \in DOMAIN layers[i].calls, NEW a \in layers[i].calls[c].audio
        PROVE  a \in disk
    <3>1. a = Name(i, a.file) /\ Had(a) BY <2>3 DEF LibraryInv, AudioInv, FilesInv
    <3>2. a.at = i BY <3>1 DEF Name
    <3> QED BY <3>1, <3>2 DEF LibraryInv, AudioInv, FilesInv, Had
  <2>4. ASSUME NEW f \in disk, ~InHand(f) PROVE f \in HadFiles
    <3>1. f = [at |-> f.at, file |-> f.file] /\ f.at \in DOMAIN wanted /\ f.file \in wanted[f.at].have
      BY <2>4 DEF LibraryInv, AudioInv, FilesInv, Name, Had
    <3> QED BY <3>1 DEF HadFiles
  <2> QED BY <2>2, <2>3, <2>4 DEF AudioIsOnDisk, InHand
<1> QED BY <1>1, LibraryHolds, PTL

\* A merge shows the two as one, after the layers' rules too (merge_networks).
LEMMA MergeShows ==
  ASSUME LibraryInv, LibraryInv', NEW from \in RuleKeys, NEW to \in RuleKeys, MergeNetworks(from, to)
  PROVE  Root(ViewRules', from) = Root(ViewRules', to)
<1>1. rules' = Add(rules, from, to) /\ Add(rules, from, to) # rules BY DEF MergeNetworks
<1>2. Root(rules', from) = Root(rules', to) BY <1>1 DEF LibraryInv, RulesOK, Flat, Add, Root
<1>3. Flat(rules') /\ lastImport' \in Nat BY DEF LibraryInv, RulesOK, Bounds
<1>4. Root(WithLayers(rules', layers', lastImport'), from) = Root(WithLayers(rules', layers', lastImport'), to)
  <2>1. PICK none : none = {} OBVIOUS
  <2>2. \A f \in none : Free(rules', f) /\ \A i \in DOMAIN layers' : Free(layers'[i].rules, f) BY <2>1
  <2> QED BY <1>2, <1>3, <2>2, LayersKeep
<1> QED BY <1>4 DEF ViewRules

\* An unmerge frees the network, in the layers' rules too (unmerge_network).
LEMMA UnmergeShows ==
  ASSUME LibraryInv, LibraryInv', NEW key \in RuleKeys, UnmergeNetwork(key)
  PROVE  Root(ViewRules', key) = key /\ \A k \in DOMAIN ViewRules' : ViewRules'[k] # key
<1>1. Flat(rules') /\ Flat(rules) /\ lastImport' \in Nat BY DEF LibraryInv, RulesOK, Bounds
<1>2. Free(rules', key) BY <1>1, LetGoFrees DEF UnmergeNetwork
<1>3. ASSUME NEW i \in DOMAIN layers' PROVE Free(layers'[i].rules, key)
  <2>1. i \in DOMAIN layers /\ layers'[i] = [layers[i] EXCEPT !.rules = LetGo(@, key)] BY DEF UnmergeNetwork
  <2>2. "rules" \in DOMAIN layers[i] /\ Flat(layers[i].rules) BY <2>1 DEF LibraryInv, AudioInv, LayersInv
  <2>3. PICK F : F = LetGo(layers[i].rules, key) OBVIOUS
  <2>4. layers'[i].rules = F BY <2>1, <2>2, <2>3
  <2> QED BY <2>2, <2>3, <2>4, LetGoFrees
<1>4. \A f \in {key} : Free(rules', f) /\ \A i \in DOMAIN layers' : Free(layers'[i].rules, f) BY <1>2, <1>3
<1>5. Root(rules', key) = Root(rules', key) OBVIOUS
<1>6. \A f \in {key} : Free(WithLayers(rules', layers', lastImport'), f) BY <1>1, <1>4, <1>5, LayersKeep
<1>7. Free(ViewRules', key) BY <1>6 DEF ViewRules
<1> QED BY <1>7 DEF Free, Root

\* Merging and unmerging do what they say whatever rules the imports brought, and a
\* restart brings every rule back.
THEOREM RulesAlwaysTakeEffect == Spec => RulesTakeEffect
<1>1. ASSUME LibraryInv, LibraryInv', [Next]_vars
      PROVE  [/\ \A from, to \in RuleKeys : MergeNetworks(from, to) => Root(ViewRules', from) = Root(ViewRules', to)
              /\ \A key \in RuleKeys : UnmergeNetwork(key) =>
                   /\ Root(ViewRules', key) = key
                   /\ \A k \in DOMAIN ViewRules' : ViewRules'[k] # key]_vars
  BY <1>1, MergeShows, UnmergeShows
<1>2. ASSUME LibraryInv, [Next]_vars PROVE [Restart => rules' = rules]_vars
  BY <1>2, ReloadKeeps DEF LibraryInv, Restart
<1> QED BY <1>1, <1>2, LibraryHolds, PTL DEF Spec, RulesTakeEffect, MergesTakeEffect, RulesSurvive

----------------------------------------------------------------------------
\* Spans.

\* A source says a span, and one of this server says one that has passed.
SourceOK(s) ==
  /\ s.since \in Nat /\ s.through \in Nat /\ s.since <= s.through
  /\ s.instance[1] = HomeName =>
       /\ s.instance[2] \in Nat /\ s.instance[2] <= run /\ s.through <= now
       /\ s.instance[2] = run => s.since <= since

\* The clock and the counters; layers are numbered as they came.
Clock == now \in Nat /\ since \in Nat /\ since <= now /\ run \in Nat /\ lastImport \in Nat
LayersNumbered == \A i \in DOMAIN layers : i \in 1..lastImport /\ "sources" \in DOMAIN layers[i]
\* Every source of a layer or a kept export is one there was.
SourcesKnown ==
  /\ \A i \in DOMAIN layers : \A s \in layers[i].sources : SourceOK(s)
  /\ \A x \in saved : \A s \in x.data.sources : SourceOK(s)
\* A layer of this very run ends before the live data begin.
HomeBehind == \A i \in DOMAIN layers : \A s \in layers[i].sources : s.instance = Home => s.through <= since

\* The inductive invariant of the spans.
LInv == Clock /\ LayersNumbered /\ SourcesKnown /\ HomeBehind /\ SpansDisjoint

\* What the verdict Add means for the layers that stay.
LEMMA JudgeAdds ==
  ASSUME NEW x, NEW ls, NEW live, Judge(x, ls, live).add
  PROVE  /\ ~OverlapAny(x, live)
         /\ \A i \in DOMAIN ls \ Judge(x, ls, live).replaces : ~OverlapAny(x, ls[i].sources)
  BY DEF Judge

\* Sharing time is overlapping, and it is symmetric.
LEMMA ShareOverlaps ==
  ASSUME NEW xs, NEW ys, ShareTime(xs, ys) PROVE OverlapAny(xs, ys) /\ ShareTime(ys, xs)
  BY DEF ShareTime, OverlapAny, Overlaps

\* It holds as the process first starts.
LEMMA InitInv == Init => LInv
  BY DEF Init, LInv, Clock, LayersNumbered, SourcesKnown, HomeBehind, SpansDisjoint, NoRules

\* Layers that cover the same as before beside unchanged live data.
LEMMA SameSources ==
  ASSUME LInv, UNCHANGED <<now, since, run, lastImport, saved>>,
         DOMAIN layers' \subseteq DOMAIN layers,
         \A i \in DOMAIN layers' : "sources" \in DOMAIN layers'[i] /\ layers'[i].sources = layers[i].sources
  PROVE  LInv'
  BY DEF LInv, Clock, LayersNumbered, SourcesKnown, HomeBehind, SpansDisjoint, SourceOK, LiveSource, Home

\* All layers go; the live data may begin anew.
LEMMA NoLayers ==
  ASSUME LInv, layers' = <<>>, UNCHANGED <<now, saved>>, lastImport' \in Nat,
         \/ UNCHANGED <<run, since>>
         \/ run' = run /\ since' = now
         \/ run' = run + 1 /\ since' = now
  PROVE  LInv'
<1>1. ASSUME NEW x \in saved, NEW s \in x.data.sources PROVE SourceOK(s)'
  <2>1. SourceOK(s) BY <1>1 DEF LInv, SourcesKnown
  <2> QED BY <2>1 DEF SourceOK, LInv, Clock
<1>2. SourcesKnown' BY <1>1 DEF SourcesKnown
<1> QED BY <1>2 DEF LInv, Clock, LayersNumbered, HomeBehind, SpansDisjoint

\* Time makes the live span longer: the layers end before it begins.
LEMMA TickInv == LInv /\ Tick => LInv'
<1> SUFFICES ASSUME LInv, Tick PROVE LInv' OBVIOUS
<1> USE DEF Tick
<1>1. Clock' /\ LayersNumbered' BY DEF LInv, Clock, LayersNumbered
<1>2. ASSUME NEW s, SourceOK(s) PROVE SourceOK(s)' BY <1>2 DEF SourceOK, LInv, Clock
<1>3. SourcesKnown' BY <1>2 DEF LInv, SourcesKnown
<1>4. HomeBehind' BY DEF LInv, HomeBehind, Home
<1>5. ASSUME NEW i \in DOMAIN layers PROVE ~ShareTime(layers[i].sources, {LiveSource'})
  <2>1. ASSUME NEW s \in layers[i].sources, s.instance = Home, since < s.through PROVE FALSE
    <3>1. s.through <= since BY <2>1 DEF LInv, HomeBehind
    <3>2. s.through \in Nat BY <2>1 DEF LInv, SourcesKnown, SourceOK
    <3> QED BY <2>1, <3>1, <3>2 DEF LInv, Clock
  <2> QED BY <2>1 DEF ShareTime, LiveSource, Source, Home
<1>6. SpansDisjoint' BY <1>5 DEF LInv, SpansDisjoint
<1> QED BY <1>1, <1>3, <1>4, <1>6 DEF LInv

\* An export covers what the view covers.
LEMMA SaveInv == LInv /\ SaveExport => LInv'
<1> SUFFICES ASSUME LInv, SaveExport PROVE LInv' OBVIOUS
<1>1. ASSUME NEW s \in ShownSources PROVE SourceOK(s)
  <2>1. CASE s = LiveSource BY <2>1 DEF LiveSource, Source, SourceOK, Home, LInv, Clock
  <2>2. CASE s # LiveSource BY <2>2 DEF ShownSources, LInv, SourcesKnown
  <2> QED BY <2>1, <2>2
<1>2. Export(Home, HomeName, Exported).data.sources = ShownSources BY DEF Export, Exported
<1>3. SourcesKnown'
  <2>1. ASSUME NEW s PROVE SourceOK(s)' <=> SourceOK(s) BY DEF SaveExport, SourceOK
  <2> QED BY <1>1, <1>2, <2>1 DEF SaveExport, LInv, SourcesKnown
<1> QED BY <1>3 DEF SaveExport, LInv, Clock, LayersNumbered, HomeBehind, SpansDisjoint, LiveSource, Home

\* An export that joins shares no time with what stays, and if it is of this
\* very run it ends where the live data begin.
LEMMA ImportInv == ASSUME LInv, NEW x \in Files \cup saved, ImportExport(x) PROVE LInv'
<1> DEFINE d == ReadExport(x, HomeName)
           verdict == Judge(d.sources, layers, {LiveSource})
           id == lastImport + 1
           kept == DOMAIN layers \ verdict.replaces
<1>1. d.sources = x.data.sources BY DEF ReadExport
<1>2. verdict.add /\ UNCHANGED <<now, run, since, saved>> /\ lastImport' = id BY DEF ImportExport
<1>3. PICK calls : layers' = [i \in {id} \cup kept |-> IF i = id THEN [d EXCEPT !.calls = calls] ELSE layers[i]]
  BY DEF ImportExport
<1>4. id \notin DOMAIN layers BY DEF LInv, Clock, LayersNumbered
<1>5. PICK layer : /\ layers' = [i \in {id} \cup kept |-> IF i = id THEN layer ELSE layers[i]]
                   /\ "sources" \in DOMAIN layer /\ layer.sources = x.data.sources
  <2>1. "sources" \in DOMAIN d BY DEF ReadExport
  <2> HIDE DEF d
  <2>2. /\ "sources" \in DOMAIN [d EXCEPT !.calls = calls]
        /\ [d EXCEPT !.calls = calls].sources = x.data.sources
    BY <1>1, <2>1
  <2> QED BY <1>3, <2>2
<1>6. /\ DOMAIN layers' = {id} \cup kept
      /\ \A i \in kept : layers'[i] = layers[i]
      /\ layers'[id] = layer
  <2> HIDE DEF id, verdict
  <2> QED BY <1>4, <1>5
<1>7. ASSUME NEW s \in x.data.sources PROVE SourceOK(s)
  BY <1>7, LibraryAssumption DEF LInv, SourcesKnown, SourceOK
<1>8. ASSUME NEW s PROVE SourceOK(s)' <=> SourceOK(s) BY <1>2 DEF SourceOK
<1>9. Clock' /\ LayersNumbered'
  <2>1. id \in Nat /\ id \in 1..id /\ \A i \in kept : i \in 1..id BY DEF LInv, Clock, LayersNumbered
  <2> HIDE DEF verdict
  <2> QED BY <1>2, <1>5, <1>6, <2>1 DEF LInv, Clock, LayersNumbered
<1>10. SourcesKnown' BY <1>2, <1>5, <1>6, <1>7, <1>8 DEF LInv, SourcesKnown
<1>11. /\ ~OverlapAny(x.data.sources, {LiveSource})
       /\ \A i \in kept : ~OverlapAny(x.data.sources, layers[i].sources)
  BY <1>1, <1>2, JudgeAdds
<1>12. ASSUME NEW s \in x.data.sources, s.instance = Home PROVE s.through <= since
  <2>1. ~Overlaps(s, LiveSource) BY <1>11 DEF OverlapAny
  <2>2. ~(s.since < now /\ since < s.through) BY <1>12, <2>1 DEF Overlaps, LiveSource, Source
  <2>3. SourceOK(s) BY <1>7
  <2>4. s.since <= since /\ s.through <= now BY <1>12, <2>3 DEF SourceOK, Home
  <2> QED BY <2>2, <2>3, <2>4 DEF SourceOK, LInv, Clock
<1>13. HomeBehind' BY <1>2, <1>5, <1>6, <1>12 DEF LInv, HomeBehind, Home
<1>14. SpansDisjoint'
  <2>1. LiveSource' = LiveSource BY <1>2 DEF LiveSource, Home
  <2>2. ASSUME NEW i \in kept PROVE
          /\ ~ShareTime(layers[i].sources, {LiveSource})
          /\ ~ShareTime(layers[i].sources, x.data.sources)
          /\ ~ShareTime(x.data.sources, layers[i].sources)
          /\ \A j \in kept \ {i} : ~ShareTime(layers[i].sources, layers[j].sources)
    BY <1>11, ShareOverlaps DEF LInv, SpansDisjoint
  <2>3. ~ShareTime(x.data.sources, {LiveSource}) BY <1>11, ShareOverlaps
  <2>4. /\ DOMAIN layers' = {id} \cup kept /\ id \notin kept
        /\ layers'[id].sources = x.data.sources
        /\ \A i \in kept : layers'[i].sources = layers[i].sources
    BY <1>4, <1>5, <1>6
  <2> HIDE DEF id, kept
  <2>5. ASSUME NEW i \in DOMAIN layers' PROVE ~ShareTime(layers'[i].sources, {LiveSource})
    <3>1. CASE i = id BY <2>3, <2>4, <3>1
    <3>2. CASE i \in kept BY <2>2, <2>4, <3>2
    <3> QED BY <2>4, <3>1, <3>2
  <2>6. ASSUME NEW i \in DOMAIN layers', NEW j \in DOMAIN layers' \ {i}
        PROVE  ~ShareTime(layers'[i].sources, layers'[j].sources)
    <3>1. CASE i = id BY <2>2, <2>4, <3>1
    <3>2. CASE i \in kept /\ j = id BY <2>2, <2>4, <3>2
    <3>3. CASE i \in kept /\ j \in kept BY <2>2, <2>4, <3>3
    <3> QED BY <2>4, <3>1, <3>2, <3>3
  <2> QED BY <2>1, <2>5, <2>6 DEF SpansDisjoint
<1> QED BY <1>9, <1>10, <1>13, <1>14 DEF LInv

\* An upload changes no span.
LEMMA UploadSpans == LInv /\ Upload => LInv'
<1> SUFFICES ASSUME LInv, NEW u \in Uploaders, UploadCheck(u) \/ UploadWrite(u) \/ UploadFails(u) \/ UploadAttach(u)
             PROVE LInv'
  BY DEF Upload
<1>1. ASSUME UNCHANGED layers, UNCHANGED <<now, since, run, lastImport, saved>> PROVE LInv'
  BY <1>1, SameSources DEF LInv, LayersNumbered
<1>2. CASE UploadCheck(u) BY <1>1, <1>2 DEF UploadCheck
<1>3. CASE UploadWrite(u) BY <1>1, <1>3 DEF UploadWrite
<1>4. CASE UploadFails(u) BY <1>1, <1>4 DEF UploadFails
<1>5. CASE UploadAttach(u)
  <2>1. UNCHANGED <<now, since, run, lastImport, saved>> BY <1>5 DEF UploadAttach
  <2>2. CASE UNCHANGED layers BY <1>1, <2>1, <2>2
  <2>3. CASE ~UNCHANGED layers
    <3>1. PICK id, calls : layers' = [layers EXCEPT ![id].calls = calls] BY <1>5, <2>3 DEF UploadAttach
    <3>2. /\ DOMAIN layers' = DOMAIN layers
          /\ \A i \in DOMAIN layers' : "sources" \in DOMAIN layers'[i] /\ layers'[i].sources = layers[i].sources
      BY <3>1 DEF LInv, LayersNumbered
    <3> QED BY <2>1, <3>2, SameSources
  <2> QED BY <2>2, <2>3
<1> QED BY <1>2, <1>3, <1>4, <1>5

\* Nor does a merge or an unmerge.
LEMMA RulesSpans == LInv /\ (Merge \/ Unmerge) => LInv'
<1> SUFFICES ASSUME LInv, NEW key \in RuleKeys, NEW to \in RuleKeys, MergeNetworks(key, to) \/ UnmergeNetwork(key)
             PROVE LInv'
  BY DEF Merge, Unmerge
<1>1. /\ UNCHANGED <<now, since, run, lastImport, saved>>
      /\ DOMAIN layers' = DOMAIN layers
      /\ \A i \in DOMAIN layers' : "sources" \in DOMAIN layers'[i] /\ layers'[i].sources = layers[i].sources
  BY DEF MergeNetworks, UnmergeNetwork, LInv, LayersNumbered
<1> QED BY <1>1, SameSources

\* Every operation keeps the spans apart.
LEMMA StepInv == LInv /\ [Next]_vars => LInv'
<1> SUFFICES ASSUME LInv, [Next]_vars PROVE LInv' OBVIOUS
<1>1. CASE UNCHANGED vars
  <2>1. UNCHANGED <<now, since, run, lastImport, saved, layers>> BY <1>1 DEF vars
  <2> QED BY <2>1, SameSources DEF LInv, LayersNumbered
<1>2. CASE Tick BY <1>2, TickInv
<1>3. CASE Import BY <1>3, ImportInv DEF Import
<1>4. CASE RemoveImport
  <2>1. /\ UNCHANGED <<now, since, run, lastImport, saved>>
        /\ DOMAIN layers' \subseteq DOMAIN layers
        /\ \A i \in DOMAIN layers' : layers'[i] = layers[i]
    BY <1>4 DEF RemoveImport, Drop
  <2> QED BY <2>1, SameSources DEF LInv, LayersNumbered
<1>5. CASE ClearImports \/ Clear \/ Restart
  BY <1>5, NoLayers DEF ClearImports, Clear, Restart, LInv, Clock
<1>6. CASE SaveExport BY <1>6, SaveInv
<1>7. CASE Merge \/ Unmerge BY <1>7, RulesSpans
<1>8. CASE Upload BY <1>8, UploadSpans
<1> QED BY <1>1, <1>2, <1>3, <1>4, <1>5, <1>6, <1>7, <1>8 DEF Next

\* No moment of a server's run is counted twice, for any files and bounds.
THEOREM NothingCountedTwice == Spec => []SpansDisjoint
<1>1. LInv => SpansDisjoint BY DEF LInv
<1> QED BY <1>1, InitInv, StepInv, PTL DEF Spec
=============================================================================
