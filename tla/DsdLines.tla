------------------------------ MODULE DsdLines ------------------------------
(***************************************************************************)
(* What a DsdProcess object makes of its decoder's output: the stdout      *)
(* reader classifies dsd-fme's lines, carries the slot of the last marked  *)
(* burst onto unmarked lines (DmrSlotCarry), puts the hex dumps of data    *)
(* PDUs together (DmrPduTextCarry) and publishes the slot that carries     *)
(* voice; the UDP reader files the decoded audio under that slot.          *)
(*                                                                         *)
(* The object belongs to the session and is started again for each run of  *)
(* its pipeline: what the readers carry is not reset.                      *)
(*                                                                         *)
(* A line is a record: mark, the slot of its "[slotN]"; word, the slot a   *)
(* "Slot N" names; head, the slot of a "Multi Block PDU" header; hex, what *)
(* a row of hex holds ("" for any other line); has, what else it shows.    *)
(***************************************************************************)
EXTENDS Naturals, Sequences, SequencesExt

CONSTANTS
  Printed,      \* the lines dsd-fme prints
  MaxLines,     \* bound: lines printed
  MaxPackets,   \* bound: audio packets sent
  MaxStreams    \* bound: starts of the object

VARIABLES
  stream,       \* starts so far
  ended,        \* the decoder's output has ended and was read
  printed,      \* lines read, of every stream: [stream, line]
  packets,      \* packets sent so far
  voiced,       \* slots whose voice a line has shown
  current,      \* DmrSlotCarry::current; 0: none yet
  capture,      \* DmrPduTextCarry: capturing, slot, hex, mnis
  active_slot,  \* active_slot_
  events,       \* what on_event_ was given: [stream, kind, slot, text]
  filed         \* what on_slot_audio was given: the slot, and the packet's channel

vars == <<stream, ended, printed, packets, voiced, current, capture, active_slot, events, filed>>

Idle == [on |-> FALSE, slot |-> 0, rows |-> << >>, mnis |-> FALSE]

Init ==
  /\ stream = 1 /\ ended = FALSE /\ printed = << >> /\ packets = 0 /\ voiced = {}
  /\ current = 0 /\ capture = Idle /\ active_slot = 0 /\ events = << >> /\ filed = {}

-----------------------------------------------------------------------------
(* classify_dsd_fme_line                                                   *)

\* The brackets mark the burst's own slot; a bare "TS: 1" of a Capacity Plus
\* status or a grant names another channel's.
SlotOf(l) == IF l.mark # 0 THEN l.mark ELSE IF "other" \in l.has THEN 0 ELSE l.word

\* A "Text:" body that passed its check.
TextOf(l) == IF "text" \in l.has /\ "err" \notin l.has THEN "line" ELSE ""

KindOf(l) ==
  IF "callsign" \in l.has THEN "call"
  ELSE IF "voice" \in l.has THEN "voice"
  ELSE IF "sync" \in l.has THEN "sync"
  ELSE IF "edacs" \in l.has THEN "call"
  ELSE IF TextOf(l) # "" THEN "message"
  ELSE IF "id" \in l.has THEN "call"
  ELSE "unknown"

Classified(l) == [stream |-> stream, kind |-> KindOf(l), slot |-> SlotOf(l), text |-> TextOf(l)]

-----------------------------------------------------------------------------
(* DmrPduTextCarry                                                         *)

\* What decode_dmr_pdu_text finds to be printable, in any PDU...
Readable == {"text", "ars", "lrrp"}

\* ... and what starts with an MNIS header: ARS is decoded, the rest says nothing.
Mnis == {"ars", "lrrp"}

TextOfDump(c) ==
  IF c.rows = << >> THEN ""
  ELSE IF c.mnis /\ c.rows[1] \in Mnis THEN IF c.rows[1] = "ars" THEN "ars" ELSE ""
  ELSE IF \E i \in DOMAIN c.rows : c.rows[i] \in Readable THEN "dump" ELSE ""

\* The message events a finished dump yields: none or one.
Finish(c) ==
  IF c.on /\ TextOfDump(c) # ""
  THEN <<[stream |-> stream, kind |-> "message", slot |-> c.slot, text |-> TextOfDump(c),
          rows |-> c.rows]>>
  ELSE << >>

AfterFinish(c) == IF c.on THEN Idle ELSE c

\* DSD prints an MNIS PDU's header before its dump.
Noted(c, l) == [c EXCEPT !.mnis = @ \/ "mnis" \in l.has]

\* Fault: a second header drops the dump it ends.
FeedDropsDump(c, l) ==
  LET n == Noted(c, l)
  IN IF l.head # 0 THEN << >>
     ELSE IF n.on /\ l.hex = "" THEN Finish(n) ELSE << >>

\* feed(): the message the line completes...
Feed(c, l) ==
  LET n == Noted(c, l)
  IN IF l.head # 0 \/ (n.on /\ l.hex = "") THEN Finish(n) ELSE << >>

\* ... and what is carried on.
Fed(c, l) ==
  LET n == Noted(c, l)
  IN IF l.head # 0 THEN [AfterFinish(n) EXCEPT !.on = TRUE, !.slot = l.head, !.rows = << >>]
     ELSE IF ~n.on THEN n
     ELSE IF l.hex # "" THEN [n EXCEPT !.rows = Append(@, l.hex)]
     ELSE AfterFinish(n)

\* dsd-fme's rendering of a binary PDU "as if it were text".
BinaryText(c, l) == c.mnis /\ ~c.on /\ "text" \in l.has

-----------------------------------------------------------------------------
(* DmrSlotCarry                                                            *)

Carries(e, l) ==
  e.kind \in {"voice", "call", "message"} \/ l.has \cap {"svc", "gps"} # {}

Stamped(e, l, slot) == IF e.slot = 0 /\ Carries(e, l) THEN [e EXCEPT !.slot = slot] ELSE e

SlotAfter(e, slot) == IF e.slot # 0 THEN e.slot ELSE slot

\* Fault: any line's slot is the voice's.
VoiceSlotOfAny(e, l) == e.slot

\* voice_slot_of
VoiceSlot(e, l) ==
  IF e.kind = "voice" \/ (e.kind = "sync" /\ "burst" \in l.has) THEN e.slot ELSE 0

-----------------------------------------------------------------------------
(* stdout_reader_loop: one line.                                           *)

ReadLine(l) ==
  /\ ~ended /\ Len(printed) < MaxLines
  /\ LET dump == Feed(capture, l)
         c == Fed(capture, l)
         slot == IF dump = << >> THEN current ELSE SlotAfter(dump[1], current)
         raw == IF BinaryText(c, l) /\ KindOf(l) = "message"
                THEN [Classified(l) EXCEPT !.kind = "unknown", !.text = ""] ELSE Classified(l)
         e == Stamped(raw, l, slot)
         voice == VoiceSlot(e, l)
     IN /\ capture' = c
        /\ current' = SlotAfter(raw, slot)
        /\ active_slot' = IF voice # 0 THEN voice ELSE active_slot
        /\ voiced' = IF l.has \cap {"voice", "burst"} # {} THEN voiced \cup ({e.slot} \ {0})
                     ELSE voiced
        /\ events' = events \o dump \o (IF e.kind # "unknown" THEN <<e>> ELSE << >>)
        /\ printed' = Append(printed, [stream |-> stream, line |-> l])
  /\ UNCHANGED <<stream, ended, packets, filed>>

\* The output ends, or stop() has cleared running_: flush().
ReadEnd ==
  /\ ~ended /\ ended' = TRUE
  /\ events' = events \o Finish(capture)
  /\ current' = IF Finish(capture) = << >> THEN current ELSE capture.slot
  /\ capture' = AfterFinish(capture)
  /\ UNCHANGED <<stream, printed, packets, voiced, active_slot, filed>>

\* start() again on the same object.
StartAgain ==
  /\ ended /\ stream < MaxStreams
  /\ stream' = stream + 1 /\ ended' = FALSE
  /\ UNCHANGED <<printed, packets, voiced, current, capture, active_slot, events, filed>>

-----------------------------------------------------------------------------
(* udp_reader_loop: one packet.  dsd-fme copies the voice of a lone slot   *)
(* to both channels.                                                       *)

HearLone ==
  /\ ~ended /\ packets < MaxPackets
  /\ filed' = filed \cup {[slot |-> active_slot, channel |-> "both"]}
  /\ packets' = packets + 1
  /\ UNCHANGED <<stream, ended, printed, voiced, current, capture, active_slot, events>>

HearBoth ==
  /\ ~ended /\ packets < MaxPackets /\ voiced = {1, 2}
  /\ filed' = filed \cup {[slot |-> 1, channel |-> "left"], [slot |-> 2, channel |-> "right"]}
  /\ packets' = packets + 1
  /\ UNCHANGED <<stream, ended, printed, voiced, current, capture, active_slot, events>>

Next == (\E l \in Printed : ReadLine(l)) \/ ReadEnd \/ StartAgain \/ HearLone \/ HearBoth

-----------------------------------------------------------------------------
(* Properties.                                                             *)

\* The headers among the lines read, and the rows right after one.
Headers == {i \in DOMAIN printed : printed[i].line.head # 0}

Row(i, j) ==
  printed[j].line.head = 0 /\ printed[j].line.hex # "" /\ printed[j].stream = printed[i].stream

RowCount(i, n) ==
  /\ i + n <= Len(printed) /\ \A j \in i + 1..i + n : Row(i, j)
  /\ i + n = Len(printed) \/ ~Row(i, i + n + 1)

RowsAfter(i) ==
  LET n == CHOOSE n \in 0..Len(printed) : RowCount(i, n) IN [j \in 1..n |-> printed[i + j].line.hex]

\* The dump is still being read.
Pending(i) == ~ended /\ printed[i].stream = stream /\ RowCount(i, Len(printed) - i)

\* The short messages that were dumped whole, by their headers, and those told.
Whole == {i \in Headers : RowsAfter(i) # << >> /\ RowsAfter(i)[1] = "text" /\ ~Pending(i)}
Told == {k \in DOMAIN events : "rows" \in DOMAIN events[k] /\ events[k].rows[1] = "text"}

\* Every short message dsd-fme dumps is told once, in order, whole and with its
\* burst's slot: whatever lines come between, also when the next dump's header or
\* the end of the output ends it.
EveryTextIsTold ==
  \E f \in [Whole -> Told] :
    /\ \A i, j \in Whole : i < j => f[i] < f[j]
    /\ \A k \in Told : \E i \in Whole : f[i] = k
    /\ \A i \in Whole : /\ events[f[i]].slot = printed[i].line.head
                         /\ events[f[i]].rows = RowsAfter(i)

\* Audio is never filed under a slot whose voice no line has shown: control bursts
\* of the other slot, which come "without a break", do not move it.
AudioUnderVoicedSlot == \A a \in filed : a.slot = 0 \/ a.slot \in voiced

=============================================================================
