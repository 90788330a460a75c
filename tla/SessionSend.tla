---------------------------- MODULE SessionSend ----------------------------
(***************************************************************************)
(* The outgoing frames of one session (session.cpp): out_queue_, writing_  *)
(* and the one async_write that empties it.  Callers are the handlers on   *)
(* the strand; the queue is under out_mutex_, so each call is one step.    *)
(*                                                                         *)
(* Beast reads the opcode when async_write is called, and the payload from *)
(* the front of the queue until it completes.                              *)
(***************************************************************************)
EXTENDS Naturals, Sequences

CONSTANTS
  Payloads,     \* what a frame may carry
  MaxSends      \* bound: frames sent in a behaviour

Frame == [data : Payloads, text : BOOLEAN]

VARIABLES
  out_queue,    \* out_queue_
  writing,      \* writing_
  text,         \* ws_.text(): the opcode of the next message
  flight,       \* the async_writes in flight, by the opcode each began with
  failed,       \* the connection is broken
  sent,         \* every frame given to queue_and_send
  arrived       \* the frames the client has received

vars == <<out_queue, writing, text, flight, failed, sent, arrived>>

TypeOK ==
  /\ out_queue \in Seq(Frame)
  /\ writing \in BOOLEAN /\ text \in BOOLEAN /\ failed \in BOOLEAN
  /\ flight \in Seq(BOOLEAN)
  /\ sent \in Seq(Frame)
  /\ arrived \in Seq(Frame) /\ Len(arrived) + Len(out_queue) <= Len(sent)

Init ==
  /\ out_queue = << >> /\ writing = FALSE /\ text = TRUE /\ flight = << >>
  /\ failed = FALSE /\ sent = << >> /\ arrived = << >>

\* do_write_next, on the queue q with the writes w already in flight.
DoWriteNext(q, w) ==
  IF q = << >>
  THEN writing' = FALSE /\ flight' = w /\ UNCHANGED text
  ELSE writing' = TRUE /\ text' = Head(q).text /\ flight' = Append(w, text')

\* Fault: a frame waits for the next one to start the write.
SendWaits(f) ==
  /\ Len(sent) < MaxSends
  /\ sent' = Append(sent, f)
  /\ out_queue' = Append(out_queue, f)
  /\ IF writing \/ out_queue = << >> THEN UNCHANGED <<writing, text, flight>>
     ELSE DoWriteNext(out_queue', flight)
  /\ UNCHANGED <<failed, arrived>>

\* queue_and_send: a write is started unless one is in flight.
QueueAndSend(f) ==
  /\ Len(sent) < MaxSends
  /\ sent' = Append(sent, f)
  /\ out_queue' = Append(out_queue, f)
  /\ IF writing THEN UNCHANGED <<writing, text, flight>>
     ELSE DoWriteNext(out_queue', flight)
  /\ UNCHANGED <<failed, arrived>>

\* Fault: the frame written is dropped from the wrong end of the queue.
WrittenPopsBack ==
  /\ flight # << >> /\ ~failed
  /\ arrived' = Append(arrived, [data |-> Head(out_queue).data, text |-> Head(flight)])
  /\ out_queue' = SubSeq(out_queue, 1, Len(out_queue) - 1)
  /\ DoWriteNext(out_queue', Tail(flight))
  /\ UNCHANGED <<failed, sent>>

\* on_write: the message was written; the next is started.
Written ==
  /\ flight # << >> /\ ~failed
  /\ arrived' = Append(arrived, [data |-> Head(out_queue).data, text |-> Head(flight)])
  /\ out_queue' = Tail(out_queue)
  /\ DoWriteNext(out_queue', Tail(flight))
  /\ UNCHANGED <<failed, sent>>

\* on_write with an error: the frame is dropped, the rest waits for a next send.
WriteFailed ==
  /\ flight # << >> /\ failed
  /\ out_queue' = Tail(out_queue)
  /\ writing' = FALSE /\ flight' = Tail(flight)
  /\ UNCHANGED <<text, failed, sent, arrived>>

\* The connection breaks: what is in flight, and any later write, ends in error.
Break ==
  /\ ~failed /\ failed' = TRUE
  /\ UNCHANGED <<out_queue, writing, text, flight, sent, arrived>>

Next == (\E f \in Frame : QueueAndSend(f)) \/ Written \/ WriteFailed \/ Break

Spec == Init /\ [][Next]_vars

\* A write that was started completes.
FairSpec == Spec /\ WF_vars(Written \/ WriteFailed)

-----------------------------------------------------------------------------
(* Properties.                                                             *)

\* A stream allows one async_write at a time, and its buffer, the front of the
\* queue, stays until it completes; a waiting frame of a healthy connection
\* always has a write in flight before it.
OneWriteAtATime ==
  /\ Len(flight) = IF writing THEN 1 ELSE 0
  /\ writing => out_queue # << >> /\ flight[1] = Head(out_queue).text
  /\ ~failed /\ out_queue # << >> => writing

\* The client receives what was sent, in order, once and as what it was.
Stream == INSTANCE FrameStream WITH broken <- failed

StreamSpec == Stream!Spec

\* Every frame arrives unless the connection breaks.
EveryFrameArrives ==
  \A n \in 1..MaxSends : (Len(sent) >= n) ~> (Len(arrived) >= n \/ failed)
=============================================================================
