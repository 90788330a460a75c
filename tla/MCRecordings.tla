---------------------------- MODULE MCRecordings ----------------------------
(***************************************************************************)
(* The instance of Recordings that is model-checked: two streams of one    *)
(* DMR channel with call audio, recorded from the server's start, or later *)
(* on a user's request.                                                    *)
(***************************************************************************)
EXTENDS Recordings

MCBegun == Started(Started(EmptyModel, 1, Fam, 1), 2, Fam, 1)
Talk(src, tgt) == [Line EXCEPT !.kind = "voice", !.speech = TRUE, !.slot = 1, !.src = src, !.tgt = tgt]
MCLines ==
  { Talk(1, 9), Talk(2, 9), [Talk(1, 9) EXCEPT !.enc = TRUE, !.kid = 7],
    [Line EXCEPT !.ids = "network_id" :> 5] }
MCBlocks == { [slot |-> 1, size |-> 1, loud |-> "audible", keyed |-> FALSE] }
=============================================================================
