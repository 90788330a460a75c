------------------------------ MODULE NetPage ------------------------------
(***************************************************************************)
(* One explorer page and its server (net_page.hpp): the poll, the two      *)
(* views (live, and an opened export), and what a user does to the shared  *)
(* data from it: keys, merges, and the merges the page makes by itself.    *)
(* Every request is answered later, and whatever else happens meanwhile    *)
(* happens between.  The page is one thread: a callback is one step, with  *)
(* the render it ends in (the Calls view renders at every poll).           *)
(*                                                                         *)
(* The networks are of one protocol, "dmr"; the other tabs have none.  A   *)
(* key set for a network of a tab is that tab's name in `keyed`.           *)
(***************************************************************************)
EXTENDS SameNetwork

CONSTANTS
  Heard,      \* the calls the server has heard when the page is opened
  Pool,       \* and those it may hear
  Files,      \* the exports a user may open: [calls, rules], from 1
  Fams,       \* the protocol tabs
  MaxActs     \* bound: what the user does, and the requests that fail

VARIABLES
  srv,        \* the server: [calls, rules, keyed, version]
  page,       \* S and AM
  poll,       \* "idle", "sent" or "answered", and the answer on its way
  job,        \* the user's chain of requests
  merged,     \* the rules in the answer to auto-merge on its way, or NoAnswer
  opening,    \* the files being read
  acts,
  undone      \* history: of the last auto-merge, what the user undid

Server == INSTANCE NetMerges WITH KeyOrder <- Order, MaxRules <- Cardinality(DOMAIN Networks)

NoAnswer == [none |-> TRUE]
NoChain == [at |-> "idle", what |-> "", fam |-> "", todo |-> <<>>, res |-> <<>>]
Chain(what, fam, todo, res) == [at |-> "sent", what |-> what, fam |-> fam, todo |-> todo, res |-> res]

Apart == [k \in DOMAIN Networks |-> {k}]
NoView == [calls |-> {}, rules |-> <<>>, shown |-> <<>>, keyed |-> {}, version |-> 0]
Data(calls, rules, keyed, version) ==
  ApplyMerges([calls |-> calls, rules |-> rules, shown |-> Apart, keyed |-> keyed, version |-> version])

\* What is offered for each data: like the code's, the evidence is worked out
\* once, here for every call heard and every rule made.
AnyRules == UNION {[keys -> DOMAIN Networks] : keys \in SUBSET DOMAIN Networks}
AnyCalls == (SUBSET (Heard \cup Pool)) \cup {Files[f].calls : f \in DOMAIN Files}
Offered == [x \in AnyCalls \X AnyRules |-> Offers(Data(x[1], x[2], {}, 0))]
SameSuggestions(d, notSame) == {s \in Offered[<<d.calls, d.rules>>] : {s.from, s.to} \notin notSame}
AutoMergePairs(d, notSame) == InOrder({s \in SameSuggestions(d, notSame) : s.tier >= 2 /\ s.gap <= VeryNear})
NoPoll == [at |-> "idle", d |-> NoView]

\* A call has numbers for its times; an export's rules are a server's: of its
\* networks, and flat.
ASSUME CallsAssumption ==
  \A calls \in {Heard \cup Pool} \cup {Files[f].calls : f \in DOMAIN Files} :
    /\ IsFiniteSet(calls)
    /\ \A c \in calls : {c.id, c.start, c.last} \subseteq Nat /\ c.start <= c.last
ASSUME FilesAssumption ==
  /\ 0 \notin DOMAIN Files
  /\ \A f \in DOMAIN Files : Files[f].rules \in AnyRules /\ Server!Flat(Files[f].rules)

-----------------------------------------------------------------------------
\* The end of a render: the pairs that qualify are merged, once per data
\* version and set of pairs; a file view's at once, the server's by a chain of
\* requests.

\* The member of a set of one: TLC evaluates it once.
The(S) == CHOOSE x \in S : TRUE

Rules(d, pairs) == FoldLeft(LAMBDA r, p : MergesAdd(r, p.from, p.to), d.rules, pairs)
WithRules(d, rules) == ApplyMerges([d EXCEPT !.rules = rules])

AutoMerge(p, pairs) ==
  LET sig == <<p.file # 0, p.d.version, {<<s.to, s.from>> : s \in ToSet(pairs)}>>
  IN IF pairs = <<>> \/ p.sig = sig THEN p
     ELSE IF p.file # 0 THEN [p EXCEPT !.sig = sig, !.d = WithRules(p.d, Rules(p.d, pairs))]
     ELSE [p EXCEPT !.sig = sig,
                    !.am = [i \in DOMAIN pairs |-> <<pairs[i].from, pairs[i].to>>]]
MaybeAutoMerge(p) ==
  IF p.d = NoView \/ p.am # <<>> \/ ~p.auto \/ p.fam # "dmr" THEN p
  ELSE The({AutoMerge(p, pairs) : pairs \in {AutoMergePairs(p.d, p.notSame)}})

\* A merge of a file view renders again, until nothing qualifies.
Render(p) == The(FoldLeft(LAMBDA S, k : {MaybeAutoMerge(q) : q \in S}, {p}, Order))

-----------------------------------------------------------------------------
\* The poll.  It waits while the user is in the middle of something, and an
\* answer that finds them so is dropped; it does not look at the view again.

PollSend ==
  /\ poll.at = "idle" /\ ~page.paused /\ page.file = 0 /\ (page.hold => page.d = NoView)
  /\ poll' = [poll EXCEPT !.at = "sent"] /\ UNCHANGED <<srv, page, job, merged, opening, acts, undone>>
PollServed ==
  /\ poll.at = "sent" /\ poll' = [at |-> "answered", d |-> Data(srv.calls, srv.rules, srv.keyed, srv.version)]
  /\ UNCHANGED <<srv, page, job, merged, opening, acts, undone>>
PollFails ==
  /\ poll.at = "sent" /\ acts < MaxActs /\ acts' = acts + 1 /\ poll' = NoPoll
  /\ UNCHANGED <<srv, page, job, merged, opening, undone>>
\* Fault: a dropped answer is not asked for again.
PollAnsweredOnce ==
  /\ poll.at = "answered"
  /\ IF page.hold THEN poll' = [poll EXCEPT !.at = "dropped"] /\ UNCHANGED page
     ELSE poll' = NoPoll /\ page' = Render([page EXCEPT !.d = poll.d])
  /\ UNCHANGED <<srv, job, merged, opening, acts, undone>>
PollTaken == poll.at = "answered" /\ poll' = NoPoll
PollAnswered ==
  /\ PollTaken
  /\ page' = IF page.hold THEN page ELSE Render([page EXCEPT !.d = poll.d])
  /\ UNCHANGED <<srv, job, merged, opening, acts, undone>>

-----------------------------------------------------------------------------
\* The chains of requests: the user's, and auto-merge's.

\* What the server makes of the first request of a chain.
RulesAfter(c) ==
  CASE c.what = "merge" -> Server!Add(srv.rules, Head(c.todo)[1], Head(c.todo)[2])
    [] c.what \in {"unmerge", "clear"} -> Server!LetGo(srv.rules, Head(c.todo)[1])
    [] OTHER -> srv.rules
KeyedAfter(c) ==
  CASE c.what = "setkey" -> srv.keyed \cup {c.fam} [] c.what = "removekey" -> srv.keyed \ {c.fam} [] OTHER -> srv.keyed
Serve(c) ==
  srv' = [srv EXCEPT !.rules = RulesAfter(c), !.keyed = KeyedAfter(c),
                     !.version = IF <<RulesAfter(c), KeyedAfter(c)>> = <<srv.rules, srv.keyed>> THEN @ ELSE @ + 1]
Going(c) == [c EXCEPT !.at = "sent", !.todo = Tail(@)]

ServeJob ==
  /\ job.at = "sent" /\ Serve(job) /\ job' = [job EXCEPT !.at = "answered", !.res = RulesAfter(job)]
  /\ UNCHANGED <<page, poll, merged, opening, acts, undone>>
AutoChain == Chain("merge", "dmr", page.am, <<>>)
ServeAuto ==
  /\ page.am # <<>> /\ merged = NoAnswer /\ Serve(AutoChain) /\ merged' = RulesAfter(AutoChain)
  /\ UNCHANGED <<page, poll, job, opening, acts, undone>>

\* An answer is taken: what is left of the chain goes on.
AutoTaken == merged # NoAnswer /\ merged' = NoAnswer
\* applyAutoMerges: the last answer's rules are shown (finish), in whichever
\* view there is by then; with none, finish throws and nothing is shown.
AutoAnswered ==
  /\ AutoTaken
  /\ page' = IF Len(page.am) > 1 THEN [page EXCEPT !.am = Tail(@)]
             ELSE IF page.d = NoView THEN [page EXCEPT !.am = <<>>]
             ELSE Render([page EXCEPT !.am = <<>>, !.d = WithRules(page.d, merged)])
  /\ UNCHANGED <<srv, poll, job, opening, acts, undone>>
\* A request that fails ends the chain, whatever it has done so far.
AutoFails ==
  /\ page.am # <<>> /\ merged = NoAnswer /\ acts < MaxActs /\ acts' = acts + 1
  /\ page' = [page EXCEPT !.am = <<>>]
  /\ UNCHANGED <<srv, poll, job, merged, opening, undone>>

Marked(d, fam, on) == [d EXCEPT !.keyed = IF on THEN @ \cup {fam} ELSE @ \ {fam}]

AutoMade(pair) == <<pair[2], pair[1]>> \in page.sig[3]

\* The user's chain: a key's mark is set in the tab that is open by then
\* (markKeyed), the merges as after() of changeMerges.
JobTaken == job.at = "answered" /\ job' = IF Len(job.todo) > 1 THEN Going(job) ELSE NoChain
JobAnswered ==
  /\ JobTaken
  /\ page' = IF Len(job.todo) > 1 \/ page.d = NoView THEN page
             ELSE Render([page EXCEPT !.d =
                    IF job.what \in {"setkey", "removekey"} THEN Marked(@, page.fam, job.what = "setkey")
                    ELSE WithRules(@, job.res)])
  /\ undone' = IF job.what = "unmerge" /\ page.am = <<>> /\ AutoMade(Head(job.todo))
                THEN undone \cup {{Head(job.todo)[1], Head(job.todo)[2]}} ELSE undone
  /\ UNCHANGED <<srv, poll, merged, opening, acts>>
\* Only clearAllMerges renders when it fails.
JobFails ==
  /\ job.at = "sent" /\ acts < MaxActs /\ acts' = acts + 1 /\ job' = NoChain
  /\ page' = IF job.what = "clear" THEN Render(page) ELSE page
  /\ UNCHANGED <<srv, poll, merged, opening, undone>>

-----------------------------------------------------------------------------
\* What the user does.

Acts(p) == acts < MaxActs /\ acts' = acts + 1 /\ page' = p /\ UNCHANGED <<srv, poll, merged>>
Only(p) == Acts(p) /\ UNCHANGED <<job, merged, opening, undone>>

SwitchTab(fam) ==
  page.d # NoView /\ fam # page.fam /\ Only(Render([page EXCEPT !.fam = fam, !.stored = fam]))
Pause == page.file = 0 /\ Only([page EXCEPT !.paused = ~@])
Hold == ~page.hold /\ page.d # NoView /\ Only([page EXCEPT !.hold = TRUE])
\* What the user is in the middle of ends; it is not an act of its own.
Release ==
  /\ page.hold /\ page' = [page EXCEPT !.hold = FALSE]
  /\ UNCHANGED <<srv, poll, job, merged, opening, acts, undone>>
ToggleAuto == page.d # NoView /\ Only(Render([page EXCEPT !.auto = ~@]))
\* setNotSame renders the view only: no merge follows.
NotSame ==
  /\ page.d # NoView /\ page.fam = "dmr"
  /\ \E s \in SameSuggestions(page.d, page.notSame) : Only([page EXCEPT !.notSame = @ \cup {{s.from, s.to}}])
SuggestAgain == page.notSame # {} /\ page.d # NoView /\ Only([page EXCEPT !.notSame = {}])

\* A file is read for a while before it is shown; so a second may come first.
OpenFile(f) == f \notin opening /\ Acts(page) /\ opening' = opening \cup {f} /\ UNCHANGED <<job, undone>>
\* openData.
FileRead(f) ==
  /\ f \in opening /\ opening' = opening \ {f}
  /\ page' = Render([page EXCEPT !.file = f, !.fam = "dmr",
                                 !.d = Data(Files[f].calls, Files[f].rules, {}, 1000 + acts)])
  /\ UNCHANGED <<srv, poll, job, merged, acts, undone>>
BackToLive == page.file # 0 /\ Only([page EXCEPT !.file = 0, !.d = NoView, !.fam = page.stored])

\* changeMerges: in a file view at once, live by requests.
Changes(what, from, to, rules) ==
  /\ page.d # NoView /\ page.fam = "dmr"
  /\ IF page.file # 0
     THEN Only(Render([page EXCEPT !.d = WithRules(page.d, rules)]))
     ELSE /\ job = NoChain /\ job' = Chain(what, "dmr", <<<<from, to>>>>, <<>>)
          /\ Acts(page) /\ undone' = undone \ {{from, to}} /\ UNCHANGED opening
Merge(from, to) ==
  from # to /\ {from, to} \subseteq DOMAIN page.d.shown /\ Changes("merge", from, to, MergesAdd(page.d.rules, from, to))
\* The Unmerge of a part, or of the network shown (Unmerge all).
Unmerge(key) ==
  /\ key \in DOMAIN page.d.rules
  /\ Changes("unmerge", key, page.d.rules[key], MergesRemove(page.d.rules, key))
\* clearAllMerges: one request for each rule shown.
ClearMerges ==
  /\ page.file = 0 /\ page.d.rules # <<>> /\ job = NoChain
  /\ job' = Chain("clear", "dmr", SelectSeq([i \in DOMAIN Order |-> <<Order[i], RootOf(page.d.rules, Order[i])>>],
                                              LAMBDA r : r[1] \in DOMAIN page.d.rules), <<>>)
  /\ Acts(page) /\ UNCHANGED <<merged, opening, undone>>
ChangeKey(what) ==
  /\ page.file = 0 /\ page.d # NoView /\ job = NoChain
  /\ (what = "removekey") => page.fam \in page.d.keyed
  /\ job' = Chain(what, page.fam, <<<<>>>>, <<>>)
  /\ Acts(page) /\ UNCHANGED <<merged, opening, undone>>

\* The server hears another call.
Hear(c) ==
  /\ c \notin srv.calls
  /\ srv' = [srv EXCEPT !.calls = @ \cup {c}, !.version = @ + 1]
  /\ UNCHANGED <<page, poll, job, merged, opening, acts, undone>>

-----------------------------------------------------------------------------
Init ==
  /\ srv = [calls |-> Heard, rules |-> <<>>, keyed |-> {}, version |-> 1]
  /\ page = [file |-> 0, d |-> NoView, fam |-> "dmr", stored |-> "dmr", paused |-> FALSE, hold |-> FALSE,
             auto |-> TRUE, notSame |-> {}, am |-> <<>>, sig |-> <<FALSE, 0, {}>>]
  /\ poll = NoPoll /\ job = NoChain /\ merged = NoAnswer /\ opening = {} /\ acts = 0 /\ undone = {}

User ==
  \/ (\E fam \in Fams : SwitchTab(fam)) \/ Pause \/ Hold \/ ToggleAuto
  \/ (\E a, b \in DOMAIN Networks : Merge(a, b)) \/ NotSame \/ SuggestAgain
  \/ (\E k \in DOMAIN Networks : Unmerge(k)) \/ ClearMerges
  \/ (\E what \in {"setkey", "removekey"} : ChangeKey(what))
  \/ (\E f \in DOMAIN Files : OpenFile(f)) \/ BackToLive

Next ==
  \/ PollSend \/ PollServed \/ PollFails \/ PollAnswered
  \/ ServeJob \/ JobAnswered \/ JobFails \/ ServeAuto \/ AutoAnswered \/ AutoFails
  \/ (\E f \in opening : FileRead(f)) \/ (\E c \in Pool : Hear(c)) \/ Release \/ User

vars == <<srv, page, poll, job, merged, opening, acts, undone>>
Spec == Init /\ [][Next]_vars

\* The page's timer runs, the server answers, and an answer is taken: these
\* three are what PollAnswered, AutoAnswered and JobAnswered are enabled by.
FairSpec ==
  /\ Spec
  /\ WF_vars(PollSend) /\ WF_vars(PollServed) /\ WF_poll(PollTaken)
  /\ WF_vars(ServeAuto) /\ WF_merged(AutoTaken)
  /\ WF_vars(ServeJob) /\ WF_job(JobTaken)

-----------------------------------------------------------------------------
\* "The same rules as the server's": merging or unmerging any network of the
\* rules shown gives what the server makes of them.
RulesAreTheServers ==
  LET F == page.d.rules
  IN /\ \A from, to \in DOMAIN Networks : MergesAdd(F, from, to) = Server!Add(F, from, to)
     /\ \A k \in DOMAIN Networks : MergesRemove(F, k) = Server!LetGo(F, k)
     /\ Server!Flat(F)

\* Auto-merge joins two networks only with a cause: one code, or a call heard
\* on both; within 2.5 kHz; never a pair one stream was heard on at once, and
\* "a larger fleet" is not enough.
AutoMergeHasCause ==
  page.d # NoView /\ page.fam = "dmr" =>
    \A s \in ToSet(AutoMergePairs(page.d, page.notSame)) :
      LET a == s.from
          b == s.to
      IN /\ \/ NetCode(IdsOf(page.d, a)) = NetCode(IdsOf(page.d, b)) /\ NetCode(IdsOf(page.d, a)) # <<>>
            \/ \E x \in CallsOf(page.d, a), y \in CallsOf(page.d, b) : Twin(page.d, x, y)
         /\ FreqGap(FreqsOf(page.d, a), FreqsOf(page.d, b)) <= VeryNear
         /\ ~OneStream(page.d, a, b)

\* A live page that is left alone shows what the server has, whatever answers
\* crossed before.
PageConverges ==
  <>[](page.file = 0 /\ ~page.paused /\ ~page.hold) =>
  <>[](page.d.rules = srv.rules /\ page.d.keyed = srv.keyed /\ page.d.calls = srv.calls)

\* Auto-merge comes to an end, and is free for the next pair.
AutoMergeSettles == <>[](page.am = <<>>)

\* Both: the page comes to rest, showing what there is.
PageSettles == PageConverges /\ AutoMergeSettles

\* (Refuted.)  "Every auto-merge is undoable with Unmerge": the page does not
\* make again by itself a merge it made and the user undid.
UnmergeStays == \A i \in DOMAIN page.am : {page.am[i][1], page.am[i][2]} \notin undone
=============================================================================
