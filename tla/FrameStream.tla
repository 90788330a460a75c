---------------------------- MODULE FrameStream ----------------------------
(***************************************************************************)
(* What a WebSocket client may rely on: the frames a session gives to      *)
(* send_text and send_binary (session.cpp) arrive whole, in that order,    *)
(* each once and as the kind it was sent, up to the moment the connection  *)
(* breaks.                                                                 *)
(***************************************************************************)
EXTENDS Naturals, Sequences

CONSTANT Frame    \* a frame: its payload and whether it is text or binary

VARIABLES sent, arrived, broken

Init == sent = << >> /\ arrived = << >> /\ broken = FALSE

\* The session sends a frame.
Send(f) ==
  /\ sent' = Append(sent, f)
  /\ UNCHANGED <<arrived, broken>>

\* The next frame arrives.
Arrive ==
  /\ ~broken /\ Len(arrived) < Len(sent)
  /\ arrived' = Append(arrived, sent[Len(arrived) + 1])
  /\ UNCHANGED <<sent, broken>>

Break ==
  /\ broken' = TRUE
  /\ UNCHANGED <<sent, arrived>>

Next == (\E f \in Frame : Send(f)) \/ Arrive \/ Break

Spec == Init /\ [][Next]_<<sent, arrived, broken>>
=============================================================================
