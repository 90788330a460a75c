------------------------------- MODULE Library -------------------------------
(***************************************************************************)
(* What the explorer shows beside its live data (assoc_model.hpp): exports *)
(* of this and other servers imported as layers, their uploaded audio, and *)
(* the network merges.  An operation holds the model's mutex throughout    *)
(* and is one action, but for an audio upload, which writes its file       *)
(* between two critical sections.                                          *)
(*                                                                         *)
(* What a server has heard follows from the World of transmissions: a span *)
(* that ends at `through` holds the calls up to it, one that begins at     *)
(* `since` those after it.                                                 *)
(***************************************************************************)
EXTENDS MergedView

CONSTANTS
  HomeName,     \* name_ of this server
  World,        \* the transmissions: [id, at, src, tgt, priv, hears]
  NetKind,      \* a local network's confidence: strong | channel | stream
  PerReceiver,  \* per_receiver_
  Files,        \* export files of other servers
  RuleKeys,     \* the networks users merge
  Uploaders,    \* concurrent uploads
  AudioMax,     \* import_audio_cap_, in files
  MaxTime, MaxRuns, MaxSaved, MaxCommands   \* bounds

ASSUME LibraryAssumption ==
  /\ MaxTime \in Nat /\ MaxRuns \in Nat \ {0} /\ MaxSaved \in Nat /\ MaxCommands \in Nat
  /\ AudioMax \in Nat /\ PerReceiver \in BOOLEAN /\ RuleKeys \subseteq ToSet(KeyOrder)
  /\ \A x \in Files : \A s \in x.data.sources :
       s.instance[1] # HomeName /\ s.since \in Nat /\ s.through \in Nat /\ s.since <= s.through

VARIABLES
  now, run,     \* the clock; the server run, with its own instance id
  since,        \* since_
  layers,       \* imports_, by import id
  lastImport,   \* next_import_
  rules,        \* merges_, as in the merges file
  wanted,       \* import_audio_: per import the [file, call]s wanted and the files had
  disk,         \* files under import_audio_root_
  upload,       \* per uploader: what it has in hand
  saved,        \* exports of this server that were kept
  commands      \* operations so far

vars == <<now, run, since, layers, lastImport, rules, wanted, disk, upload, saved, commands>>

NoUpload == [at |-> 0, file |-> <<>>, written |-> FALSE]

----------------------------------------------------------------------------
\* Data sets.

Source(instance, from, through) == [instance |-> instance, since |-> from, through |-> through]
Heard(name, from, through) == {w \in World : name \in DOMAIN w.hears /\ from < w.at /\ w.at <= through}
CallOf(w, name) ==
  LET h == w.hears[name]
  IN [net |-> <<h.net, NoName>>, src |-> w.src, tgt |-> w.tgt, priv |-> w.priv, start |-> w.at, last |-> w.at,
      emerg |-> h.emerg, enc |-> h.kid # NoName, alg |-> h.kid, kid |-> h.kid, streams |-> 1,
      audio |-> IF h.audio THEN {[at |-> 0, file |-> <<name, w.id>>]} ELSE {}, of |-> {w.id}]
\* dataset_locked: what a run of a server has learned in a span.
RunData(instance, from, through, itsRules) ==
  LET heard == SetToSortSeq(Heard(instance[1], from, through), LAMBDA v, w : v.id > w.id)
      calls == NewestFirst([i \in DOMAIN heard |-> CallOf(heard[i], instance[1])])
  IN [sources |-> {Source(instance, from, through)}, nets |-> {calls[i].net : i \in DOMAIN calls},
      calls |-> calls, counts |-> FoldLeft(LAMBDA b, c : b (+) SetToBag(Counted(c)), EmptyBag, calls),
      rules |-> itsRules]
Export(instance, name, data) == [by |-> instance, name |-> name, data |-> data]

Home == <<HomeName, run>>
LiveSource == Source(Home, since, now)
LiveData == RunData(Home, since, now, rules)
View == IF DOMAIN layers = {} THEN LiveData ELSE FinalizeMerge(MergeAll(LiveData, layers))
\* What the view says it covers, and the view as it is exported.
ShownSources == {LiveSource} \cup UNION {layers[i].sources : i \in DOMAIN layers}
Exported == LET v == View IN [sources |-> ShownSources, nets |-> v.nets, calls |-> v.calls,
                              counts |-> v.counts, rules |-> v.rules]
\* The rules of these layers, of the oldest first, join F.
WithLayer(F, ls, i) == IF i \in DOMAIN ls THEN Union(F, ls[i].rules) ELSE F
WithLayers(F, ls, last) == FoldLeft(LAMBDA acc, i : WithLayer(acc, ls, i), F, [i \in 1..last |-> i])
ViewRules == WithLayers(rules, layers, lastImport)

\* A network key as an import knows it: one that means something only in its
\* stream gets its run's tag, a channel its receiver's name when receivers are
\* kept apart.
Qualify(key, x, home) ==
  IF key[2] # NoName \/ x.by[1] = NoName \/ NetKind[key[1]] = "strong" THEN key
  ELSE IF NetKind[key[1]] = "stream" THEN <<key[1], ToString(x.by)>>
  ELSE IF PerReceiver /\ x.name # home THEN <<key[1], x.name>> ELSE key
\* A rule about a stream's network the export does not hold is dropped: no
\* telling which network it meant.
WithRule(F, x, home, key) ==
  LET d == x.data
      Known(k) == NetKind[k[1]] # "stream" \/ k[2] # NoName \/ k \in d.nets
  IN IF /\ key \in DOMAIN d.rules
        /\ Known(key) /\ Known(d.rules[key])
        /\ {key, d.rules[key]} \cap d.nets # {}
     THEN Add(F, Qualify(key, x, home), Qualify(d.rules[key], x, home)) ELSE F
\* dataset_from_export.
ReadExport(x, home) ==
  LET d == x.data
      Q(key) == Qualify(key, x, home)
      Counter(c) == IF c[1] \in {"network calls", "network key"} THEN [c EXCEPT ![2] = Q(@)] ELSE c
      Named(k) == {c \in DOMAIN d.counts : Counter(c) = k}
  IN [sources |-> d.sources, nets |-> {Q(key) : key \in d.nets},
      calls |-> [i \in DOMAIN d.calls |-> [d.calls[i] EXCEPT !.net = Q(@)]],
      counts |-> [k \in {Counter(c) : c \in DOMAIN d.counts} |-> MapThenSumSet(LAMBDA c : d.counts[c], Named(k))],
      rules |-> FoldLeft(LAMBDA F, key : WithRule(F, x, home, key), NoRules, KeyOrder)]

----------------------------------------------------------------------------
Init ==
  /\ now = 0 /\ run = 1 /\ since = 0 /\ commands = 0
  /\ layers = <<>> /\ lastImport = 0 /\ rules = NoRules
  /\ wanted = <<>> /\ disk = {} /\ upload = [u \in Uploaders |-> NoUpload] /\ saved = {}

Command == commands < MaxCommands /\ commands' = commands + 1
Drop(f, keys) == [k \in DOMAIN f \ keys |-> f[k]]
\* A call with these files for its audio.
Playing(c, audio) == [f \in DOMAIN c \cup {"audio"} |-> IF f = "audio" THEN audio ELSE c[f]]
\* drop_import_audio_locked
AudioDropped(ids) ==
  /\ wanted' = Drop(wanted, ids)
  /\ disk' = {f \in disk : f.at \notin ids \cap DOMAIN wanted}
Tick == now < MaxTime /\ now' = now + 1
        /\ UNCHANGED <<run, since, layers, lastImport, rules, wanted, disk, upload, saved, commands>>

\* import_export.
ImportExport(x) ==
  LET d == ReadExport(x, HomeName)
      verdict == Judge(d.sources, layers, {LiveSource})
      id == lastImport + 1
      calls == CapCalls(NewestFirst(d.calls))
      wants == {[file |-> a.file, call |-> i] : a \in UNION {calls[j].audio : j \in DOMAIN calls}, i \in DOMAIN calls}
      want == {w \in wants : \E a \in calls[w.call].audio : a.file = w.file}
      layer == [d EXCEPT !.calls = [i \in DOMAIN calls |-> Playing(calls[i], {})]]
      asked == IF want = {} THEN {} ELSE {id}
  IN /\ Command
     /\ verdict.add
     /\ lastImport' = id
     /\ layers' = [i \in {id} \cup (DOMAIN layers \ verdict.replaces) |-> IF i = id THEN layer ELSE layers[i]]
     /\ wanted' = [i \in asked \cup (DOMAIN wanted \ verdict.replaces) |->
                    IF i \in asked THEN [want |-> want, have |-> {}] ELSE wanted[i]]
     /\ disk' = {f \in disk : f.at \notin verdict.replaces \cap DOMAIN wanted}
     /\ UNCHANGED <<now, run, since, rules, upload, saved>>
Import == \E x \in Files \cup saved : ImportExport(x)

RemoveImport == \E id \in DOMAIN layers :
  /\ Command /\ layers' = Drop(layers, {id}) /\ AudioDropped({id})
  /\ UNCHANGED <<now, run, since, lastImport, rules, upload, saved>>
ClearImports ==
  /\ Command /\ layers' = <<>> /\ AudioDropped(DOMAIN wanted)
  /\ UNCHANGED <<now, run, since, lastImport, rules, upload, saved>>

\* Clear: the live data and the imports go, the rules stay.
Clear ==
  /\ Command /\ since' = now /\ layers' = <<>> /\ AudioDropped(DOMAIN wanted)
  /\ UNCHANGED <<now, run, lastImport, rules, upload, saved>>

SaveExport ==
  /\ Command /\ Cardinality(saved) < MaxSaved
  /\ saved' = saved \cup {Export(Home, HomeName, Exported)}
  /\ UNCHANGED <<now, run, since, layers, lastImport, rules, wanted, disk, upload>>

\* The process starts anew: it keeps its exports and its merges file.
Restart ==
  /\ Command /\ run < MaxRuns /\ run' = run + 1 /\ since' = now
  /\ layers' = <<>> /\ lastImport' = 0 /\ wanted' = <<>> /\ disk' = {}
  /\ upload' = [u \in Uploaders |-> NoUpload]
  /\ rules' = Reload(rules)
  /\ UNCHANGED <<now, saved>>

----------------------------------------------------------------------------
\* Network merges.

MergeNetworks(from, to) ==
  /\ Command /\ Add(rules, from, to) # rules
  /\ rules' = Add(rules, from, to)
  /\ layers' = [i \in DOMAIN layers |-> [layers[i] EXCEPT !.rules = Only(@, DOMAIN @ \ {from})]]
  /\ UNCHANGED <<now, run, since, lastImport, wanted, disk, upload, saved>>
\* Fault: an import's rules are left as they are.
UnmergeOwnOnly(key) ==
  /\ Command /\ LetGo(rules, key) # rules
  /\ rules' = LetGo(rules, key)
  /\ UNCHANGED <<now, run, since, layers, lastImport, wanted, disk, upload, saved>>
UnmergeNetwork(key) ==
  /\ Command
  /\ rules' = LetGo(rules, key)
  /\ layers' = [i \in DOMAIN layers |-> [layers[i] EXCEPT !.rules = LetGo(@, key)]]
  /\ <<rules, layers>>' # <<rules, layers>>
  /\ UNCHANGED <<now, run, since, lastImport, wanted, disk, upload, saved>>
Merge == \E from, to \in RuleKeys : MergeNetworks(from, to)
Unmerge == \E key \in RuleKeys : UnmergeNetwork(key)

----------------------------------------------------------------------------
\* An upload of a call's audio: looked at under the lock, written outside it,
\* attached under it again.

HadFiles == UNION {{[at |-> id, file |-> f] : f \in wanted[id].have} : id \in DOMAIN wanted}
UploadCheck(u) == \E id \in DOMAIN wanted : \E w \in wanted[id].want :
  /\ upload[u] = NoUpload
  /\ w.file \notin wanted[id].have
  /\ Cardinality(HadFiles) + 1 <= AudioMax
  /\ upload' = [upload EXCEPT ![u] = [at |-> id, file |-> w.file, written |-> FALSE]]
  /\ UNCHANGED <<now, run, since, layers, lastImport, rules, wanted, disk, saved, commands>>
UploadWrite(u) ==
  /\ upload[u] # NoUpload /\ ~upload[u].written
  /\ disk' = disk \cup {[at |-> upload[u].at, file |-> upload[u].file]}
  /\ upload' = [upload EXCEPT ![u].written = TRUE]
  /\ UNCHANGED <<now, run, since, layers, lastImport, rules, wanted, saved, commands>>
UploadFails(u) ==
  /\ upload[u] # NoUpload /\ ~upload[u].written
  /\ upload' = [upload EXCEPT ![u] = NoUpload]
  /\ UNCHANGED <<now, run, since, layers, lastImport, rules, wanted, disk, saved, commands>>
\* Fault: the file of an import that went meanwhile stays.
UploadAttachKeepsFile(u) ==
  LET id == upload[u].at
      name == [at |-> id, file |-> upload[u].file]
      present == id \in DOMAIN wanted /\ id \in DOMAIN layers
      calls == {w.call : w \in {v \in wanted[id].want : v.file = name.file}}
  IN /\ upload[u].written
     /\ upload' = [upload EXCEPT ![u] = NoUpload]
     /\ IF present
        THEN /\ wanted' = [wanted EXCEPT ![id].have = @ \cup {name.file}]
             /\ layers' = [layers EXCEPT ![id].calls =
                             [i \in DOMAIN @ |-> IF i \in calls THEN Playing(@[i], {name}) ELSE @[i]]]
        ELSE UNCHANGED <<wanted, layers>>
     /\ UNCHANGED <<now, run, since, disk, lastImport, rules, saved, commands>>
UploadAttach(u) ==
  LET id == upload[u].at
      name == [at |-> id, file |-> upload[u].file]
      present == id \in DOMAIN wanted /\ id \in DOMAIN layers
      calls == {w.call : w \in {v \in wanted[id].want : v.file = name.file}}
  IN /\ upload[u].written
     /\ upload' = [upload EXCEPT ![u] = NoUpload]
     /\ IF present
        THEN /\ wanted' = [wanted EXCEPT ![id].have = @ \cup {name.file}]
             /\ layers' = [layers EXCEPT ![id].calls =
                             [i \in DOMAIN @ |-> IF i \in calls THEN Playing(@[i], {name}) ELSE @[i]]]
             /\ UNCHANGED disk
        ELSE disk' = disk \ {name} /\ UNCHANGED <<wanted, layers>>
     /\ UNCHANGED <<now, run, since, lastImport, rules, saved, commands>>
Upload == \E u \in Uploaders : UploadCheck(u) \/ UploadWrite(u) \/ UploadFails(u) \/ UploadAttach(u)

Next ==
  \/ Tick \/ Import \/ RemoveImport \/ ClearImports \/ Clear \/ SaveExport \/ Restart
  \/ Merge \/ Unmerge \/ Upload
Spec == Init /\ [][Next]_vars

----------------------------------------------------------------------------
\* Properties.

\* Every file name and layer is known: an import's audio belongs to an import,
\* its calls play only files it had, and rules are flat.
TypeOK ==
  /\ since <= now /\ now \in 0..MaxTime /\ run \in 1..MaxRuns
  /\ DOMAIN layers \subseteq 1..lastImport /\ DOMAIN wanted \subseteq DOMAIN layers
  /\ Flat(rules) /\ Flat(ViewRules) /\ \A i \in DOMAIN layers : Flat(layers[i].rules)

\* No moment of a run of a server is in two of the live data and the layers, so
\* no call is counted twice (judge; "without counting anything twice").
ShareTime(xs, ys) ==
  \E x \in xs, y \in ys : x.instance = y.instance /\ x.since < y.through /\ y.since < x.through
SpansDisjoint ==
  \A i \in DOMAIN layers :
    /\ ~ShareTime(layers[i].sources, {LiveSource})
    /\ \A j \in DOMAIN layers \ {i} : ~ShareTime(layers[i].sources, layers[j].sources)

Shown(d) == UNION {d.calls[i].of : i \in DOMAIN d.calls}
HeardIn(sources) == UNION {{w.id : w \in Heard(s.instance[1], s.since, s.through)} : s \in sources}
Full(d) == Cardinality(Audioless(d.calls)) >= MaxCalls
SomeFull(v) == Full(v) \/ (\E i \in DOMAIN layers : Full(layers[i])) \/ \E x \in saved : Full(x.data)

\* The explorer shows what the sources it names have heard: nothing else, and
\* all of it unless a list is at its cap (merge_into, judge, replaced layers).
ViewIsItsSources ==
  LET v == View
      heard == HeardIn(v.sources)
  IN /\ v.sources = ShownSources /\ v.rules = ViewRules
     /\ Shown(v) \subseteq heard /\ (heard \subseteq Shown(v) \/ SomeFull(v))

\* A transmission several receivers heard on one network is listed once,
\* unless one data set brought it apart (fold_call; "kept once").
ListedOnce ==
  LET v == View
      Apart(d, both) == \E i, j \in DOMAIN d.calls : i < j /\ both \cap d.calls[i].of \cap d.calls[j].of # {}
  IN \A i, j \in DOMAIN v.calls :
       LET a == v.calls[i]
           b == v.calls[j]
       IN i < j /\ a.of \cap b.of # {} /\ a.src # NoName /\ Root(v.rules, a.net) = Root(v.rules, b.net)
          => \E k \in DOMAIN layers : Apart(layers[k], a.of \cap b.of)

\* Every counter of a network, talkgroup or radio is the number of listed
\* calls it counts, unless a list is at its cap (uncount; "and counted once").
CountedOnce ==
  LET v == View
      counters == BagToSet(v.counts) \cup UNION {Counted(v.calls[i]) : i \in DOMAIN v.calls}
      counted == [i \in DOMAIN v.calls |-> Counted(v.calls[i])]
  IN (\A c \in counters : (IF BagIn(c, v.counts) THEN v.counts[c] ELSE 0) = Cardinality({i \in DOMAIN v.calls : c \in counted[i]}))
     \/ SomeFull(v)

\* A call that plays an import's file has it on disk, and a file on disk is an
\* import's or in some uploader's hands (import_audio, drop_import_audio_locked).
AudioIsOnDisk ==
  /\ TypeOK
  /\ \A i \in DOMAIN layers : \A c \in DOMAIN layers[i].calls : layers[i].calls[c].audio \subseteq disk
  /\ \A f \in disk : \/ f \in HadFiles
                     \/ \E u \in Uploaders : upload[u].written /\ upload[u].at = f.at /\ upload[u].file = f.file

\* Importing never takes anything away (judge's replaces: "a newer export of
\* an already-imported run replaces the older import").
InLayers(ls) == UNION {Shown(ls[i]) : i \in DOMAIN ls}
ImportForgetsNothing ==
  [][lastImport' = lastImport + 1 =>
       (\E i \in DOMAIN layers' : Full(layers'[i])) \/ InLayers(layers) \subseteq InLayers(layers')]_vars

\* A merge shows the two networks as one whatever rules the imports brought,
\* and an undone one shows the network as itself with nothing under it.
MergesTakeEffect ==
  [][/\ \A from, to \in RuleKeys : MergeNetworks(from, to) => Root(ViewRules', from) = Root(ViewRules', to)
     /\ \A key \in RuleKeys : UnmergeNetwork(key) =>
          /\ Root(ViewRules', key) = key
          /\ \A k \in DOMAIN ViewRules' : ViewRules'[k] # key]_vars

\* The merges file brings every rule back ("kept through restarts").
RulesSurvive == [][Restart => rules' = rules]_vars

\* The view is what its sources have heard, listed once and counted
\* once (merge_into, fold_call, uncount).
ShowsItsSources == ViewIsItsSources /\ ListedOnce /\ CountedOnce

\* Merging and unmerging do what they say whatever was imported, and a restart
\* changes no rule.
RulesTakeEffect == MergesTakeEffect /\ RulesSurvive
=============================================================================
