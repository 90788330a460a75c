----------------------------- MODULE MCDecoders -----------------------------
(***************************************************************************)
(* The instance of Decoders that is model-checked.                         *)
(***************************************************************************)
EXTENDS Decoders

Line(mark, word, has, head, hex) ==
  [mark |-> mark, word |-> word, has |-> has, head |-> head, hex |-> hex]

\* Voice and a control burst of each slot, a bare call line, another channel's slot,
\* the headers and rows of data PDUs.
DsdPrinted ==
  {Line(1, 0, {"sync", "burst"}, 0, ""), Line(2, 0, {"sync"}, 0, ""), Line(0, 0, {"id"}, 0, ""),
   Line(0, 2, {"voice", "other"}, 0, ""),
   Line(0, 1, {}, 1, ""), Line(0, 2, {}, 2, ""), Line(0, 0, {"svc", "mnis"}, 0, ""),
   Line(0, 0, {}, 0, "text"), Line(0, 0, {}, 0, "lrrp"), Line(0, 0, {"text"}, 0, "")}

Report(valid, says, frame) == [valid |-> valid, says |-> says, frame |-> frame]

\* Voice of the two spellings of its service, and what is no report.
TetraDatagrams ==
  {<<Report(TRUE, {"uplane"}, "good"), Report(TRUE, {"UPLANE"}, "good")>>,
   <<Report(TRUE, {"SETUP", "DSETUPDEC"}, "good"), Report(FALSE, {}, "none")>>}
=============================================================================
