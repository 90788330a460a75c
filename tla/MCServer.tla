------------------------------ MODULE MCServer ------------------------------
(***************************************************************************)
(* The instance of Server that is model-checked.                           *)
(***************************************************************************)
EXTENDS Server

\* Two networks on one channel and one elsewhere; ids of one and two bytes and one
\* that is no number; values of the usual length, of 256 bits and of an odd length.
Digits(n, v) == [hex |-> TRUE, digits |-> n, v |-> v]
KeyNets == <<[fam |-> "dmr", freq |-> 1], [fam |-> "dmr", freq |-> 1], [fam |-> "p25", freq |-> 2]>>
KeyIds == {Digits(2, 1), Digits(4, 300), [Digits(2, 1) EXCEPT !.hex = FALSE]}
KeyValues == {Digits(10, 7), Digits(64, 8), Digits(3, 0)}
=============================================================================
