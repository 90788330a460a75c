------------------------------ MODULE MCLibrary ------------------------------
(***************************************************************************)
(* Three receivers.  Transmission 1 is heard at home and by "a" at two     *)
(* offsets of one channel, 2 at home and by "b" on a strong network, 3 by  *)
(* "a" on a network it only knows in its stream, 4 by "a" and "b".         *)
(***************************************************************************)
EXTENDS Library

Hears(net, kid, audio) == [net |-> net, emerg |-> FALSE, kid |-> kid, audio |-> audio]
Kinds == [c1 |-> "channel", c2 |-> "channel", s |-> "strong", u |-> "stream"]
Transmissions == {
  [id |-> 1, at |-> 1, src |-> "r1", tgt |-> "t1", priv |-> FALSE,
   hears |-> [home |-> Hears("c1", "", FALSE),
              a |-> Hears("c2", "", FALSE)]],
  [id |-> 2, at |-> 2, src |-> "r1", tgt |-> "r2", priv |-> TRUE,
   hears |-> [home |-> Hears("s", "k", FALSE), b |-> Hears("s", "k", TRUE)]],
  [id |-> 3, at |-> 2, src |-> "", tgt |-> "t1", priv |-> FALSE,
   hears |-> [home |-> Hears("u", "", FALSE), a |-> Hears("u", "", FALSE)]],
  [id |-> 4, at |-> 3, src |-> "r2", tgt |-> "t1", priv |-> FALSE,
   hears |-> [a |-> Hears("s", "", TRUE), b |-> Hears("s", "", TRUE)]]}

C1 == <<"c1", "">>
C2 == <<"c2", "">>
S == <<"s", "">>
U == <<"u", "">>
AtA(base) == <<base, "a">>
ARun == <<"a", 1>>
BRun == <<"b", 1>>
Keys == <<C1, AtA("c1"), C2, AtA("c2"), S, U>>
MergeKeys == {C1, AtA("c2"), S}

\* What "a" and "b" exported: "a" shows its channel as part of the strong network.
ARules == C2 :> S
AFile(from, through) == Export(ARun, "a", RunData(ARun, from, through, ARules))
BFile == Export(BRun, "b", RunData(BRun, 0, 3, NoRules))
Merged == Export(<<"", 0>>, "merged",
                 MergeExports(<<ReadExport(AFile(0, 3), ""), ReadExport(BFile, "")>>))
ExportFiles == {AFile(0, 2), AFile(1, 3), Merged}
=============================================================================
