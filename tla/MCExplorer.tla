---------------------------- MODULE MCExplorer ----------------------------
(***************************************************************************)
(* Instances of Explorer: two sessions hear one DMR channel, with call     *)
(* audio (CallSpec), or two P25 channels whose network comes to light in   *)
(* pieces (NetSpec).                                                       *)
(***************************************************************************)
EXTENDS Explorer, TLC

\* Both streams were started.
Begun(family, f1, f2) == Started(Started(EmptyModel, 1, family, f1), 2, family, f2)

Talk(src, tgt) == [Line EXCEPT !.kind = "voice", !.speech = TRUE, !.slot = 1, !.src = src, !.tgt = tgt]
CallLines ==
  { Talk(1, 9), Talk(2, 9), Talk(Nobody, 9),
    [Talk(1, 9) EXCEPT !.enc = TRUE, !.kid = 7],
    [Line EXCEPT !.kind = "message", !.data = TRUE, !.slot = 1, !.src = 2, !.tgt = 9],
    [Line EXCEPT !.slot = 1, !.priv = TRUE, !.emerg = TRUE] }
Block == [slot |-> 1, size |-> 2, loud |-> "audible", keyed |-> FALSE]
CallBlocks == { Block, [Block EXCEPT !.slot = 0, !.size = 1, !.keyed = TRUE] }

CallInit ==
  /\ inputs = 0 /\ commands = 0 /\ now = 1
  /\ m = [Begun(Fam, 1, 1) EXCEPT !.store = Enable(@, 1)]
CallSpec == CallInit /\ [][Next]_vars

Unknown(ids) == [Line EXCEPT !.broadcast = TRUE, !.ids = ids]
Sync(nac) == [Line EXCEPT !.kind = "sync", !.ids = "nac" :> nac]
NetLines ==
  { Sync(1), Sync(2), Unknown("system_id" :> 6), Unknown("system_id" :> 6 @@ "wacn" :> 5),
    [Unknown("system_id" :> 7 @@ "site_id" :> 3) EXCEPT !.adj = TRUE],
    [Line EXCEPT !.kind = "call", !.src = 1, !.tgt = 9] }

\* One system became two networks: a stream named it in full, the next one
\* only in part after its NAC had led there.
Heard(value, lines) == FoldLeft(LAMBDA a, line : Ingest(a, 1, line, 1), value, lines)
Again(value) == Started(Prune(CloseSessionCalls(value, 1), 1, FALSE), 1, "auto", 0)
NamedTwice ==
  Heard(Again(Heard(Begun("auto", 0, 0), <<Sync(1), Unknown("system_id" :> 6 @@ "wacn" :> 5), Sync(1)>>)),
        <<Sync(1), Sync(1), Unknown("system_id" :> 6)>>)

NetInit ==
  /\ inputs = 0 /\ commands = 0 /\ now = 1
  /\ \/ \E f1, f2 \in Freqs : m = Begun("auto", f1, f2)
     \/ m = NamedTwice
NetSpec == NetInit /\ [][Next]_vars
==============================================================================
