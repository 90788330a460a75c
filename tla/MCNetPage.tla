----------------------------- MODULE MCNetPage -----------------------------
(***************************************************************************)
(* An instance of NetPage: two networks of one code that are not next to   *)
(* each other (A and B), one of another code on which the same call may be *)
(* heard by a second session (C), and an export with a rule of its own.    *)
(***************************************************************************)
EXTENDS NetPage

Net(ids, freqs, conf, radios) ==
  [ids |-> ids, freqs |-> freqs, conf |-> conf, bare |-> FALSE, radios |-> radios]
Call(id, net, session, start, last) ==
  [id |-> id, net |-> net, session |-> session, slot |-> 1, src |-> 7, tgt |-> 5, priv |-> FALSE,
   start |-> start, last |-> last]

MCNetworks == [A |-> Net([cc |-> 1], {10}, 1, {1, 2}), B |-> Net([cc |-> 1], {12}, 2, {}),
               C |-> Net([cc |-> 2], {11}, 1, {1, 2})]
MCOrder == <<"A", "B", "C">>
MCHeard == {Call(1, "A", 1, 0, 2)}
MCPool == {Call(2, "C", 2, 1, 2)}
MCFiles == <<[calls |-> MCHeard, rules |-> [C |-> "A"]]>>
=============================================================================
