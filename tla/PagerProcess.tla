---------------------------- MODULE PagerProcess ----------------------------
(***************************************************************************)
(* One MultimonProcess object (pager_process.cpp): the multimon-ng child   *)
(* of a paging session, its reader thread, and the promise of stop() that  *)
(* every line the child printed has been delivered.                        *)
(*                                                                         *)
(* A session makes a new object for every start, so start() is Init.       *)
(***************************************************************************)
EXTENDS Naturals, Sequences

CONSTANTS
  MaxLines,     \* bound: lines the child prints in its life
  PipeLines     \* lines that fit in the output pipe

VARIABLES
  child,        \* "none", "alive", "zombie"
  term,         \* SIGTERM was sent
  stdin_open,   \* stdin_fd_ >= 0
  stdout_open,  \* stdout_fd_ >= 0
  pipe,         \* lines printed and not yet read
  printed,      \* lines printed so far, numbered
  delivered,    \* lines given to on_line_
  buf,          \* what reader_loop holds: lines read, on_line_ not yet called
  reader,       \* "none", "read", "lines", "ended", "exit", "done"
  stopping,     \* stopping_
  running,      \* running_
  exits,        \* calls of on_exit_
  died_alone,   \* the child's output ended before stop() was called
  writer,       \* the worker is in write_audio, write_mutex_ held
  pc            \* where stop() is

pipes == <<stdin_open, stdout_open, pipe, printed>>
flags == <<stopping, running, exits, died_alone>>
vars == <<child, term, pipes, delivered, buf, reader, flags, writer, pc>>

Steps == {"close_stdin", "wait", "reap", "join", "close"}

TypeOK ==
  /\ child \in {"none", "alive", "zombie"}
  /\ {term, stdin_open, stdout_open, stopping, running, died_alone, writer} \subseteq BOOLEAN
  /\ pipe \in Seq(1..MaxLines) /\ Len(pipe) <= PipeLines
  /\ printed \in 0..MaxLines
  /\ delivered \in Seq(1..MaxLines) /\ buf \in Seq(1..MaxLines)
  /\ Len(delivered) + Len(buf) <= MaxLines
  /\ reader \in {"none", "read", "lines", "ended", "exit", "done"}
  /\ exits \in 0..1
  /\ pc \in {"idle", "stopped"} \cup Steps

\* start() returned true.  (When it returns false the object has nothing.)
Init ==
  /\ child = "alive" /\ term = FALSE
  /\ stdin_open = TRUE /\ stdout_open = TRUE /\ pipe = << >> /\ printed = 0
  /\ delivered = << >> /\ buf = << >> /\ reader = "read"
  /\ stopping = FALSE /\ running = TRUE /\ exits = 0 /\ died_alone = FALSE
  /\ writer = FALSE /\ pc = "idle"

-----------------------------------------------------------------------------
(* The child, and write_audio on the session's worker.                     *)

\* A full pipe blocks the child.
ChildPrints ==
  /\ child = "alive" /\ printed < MaxLines /\ Len(pipe) < PipeLines
  /\ printed' = printed + 1
  /\ pipe' = Append(pipe, printed')
  /\ UNCHANGED <<child, term, stdin_open, stdout_open, delivered, buf, reader, flags,
                 writer, pc>>

\* It crashes, or exits at the end of its input, or of SIGTERM.
ChildExits ==
  /\ child = "alive" /\ child' = "zombie"
  /\ died_alone' = (pc = "idle")
  /\ UNCHANGED <<term, pipes, delivered, buf, reader, stopping, running, exits, writer, pc>>

WriteBegin ==
  /\ pc = "idle" /\ ~writer /\ stdin_open
  /\ writer' = TRUE
  /\ UNCHANGED <<child, term, pipes, delivered, buf, reader, flags, pc>>

\* The child read it all, or is gone (EPIPE).
WriteEnd ==
  /\ writer
  /\ writer' = FALSE
  /\ UNCHANGED <<child, term, pipes, delivered, buf, reader, flags, pc>>

-----------------------------------------------------------------------------
(* reader_loop.                                                            *)

\* Fault: like dsd-fme's reader, it stops reading once stop() has begun.
ReadWhileRunning ==
  /\ reader = "read"
  /\ \/ /\ pipe # << >> /\ ~stopping
        /\ buf' = pipe /\ pipe' = << >> /\ reader' = "lines"
     \/ /\ stopping \/ (child # "alive" /\ pipe = << >>)
        /\ reader' = "ended" /\ UNCHANGED <<pipe, buf>>
  /\ UNCHANGED <<child, term, stdin_open, stdout_open, printed, delivered, flags, writer, pc>>

\* read(): what is in the pipe, or its end once the child is gone.
Read ==
  /\ reader = "read"
  /\ \/ /\ pipe # << >>
        /\ buf' = pipe /\ pipe' = << >> /\ reader' = "lines"
     \/ /\ child # "alive" /\ pipe = << >>
        /\ reader' = "ended" /\ UNCHANGED <<pipe, buf>>
  /\ UNCHANGED <<child, term, stdin_open, stdout_open, printed, delivered, flags, writer, pc>>

\* on_line_ for each line; a last one without a newline is delivered at the end.
Deliver ==
  /\ reader = "lines"
  /\ delivered' = Append(delivered, Head(buf))
  /\ buf' = Tail(buf)
  /\ reader' = IF buf' = << >> THEN "read" ELSE "lines"
  /\ UNCHANGED <<child, term, pipes, flags, writer, pc>>

\* Fault: running_, cleared just before, is read instead of stopping_.
EndedReadsRunning ==
  /\ reader = "ended"
  /\ running' = FALSE
  /\ reader' = IF running' THEN "exit" ELSE "done"
  /\ UNCHANGED <<child, term, pipes, delivered, buf, stopping, exits, died_alone, writer, pc>>

\* running_ is cleared, then stopping_ is read.
Ended ==
  /\ reader = "ended"
  /\ running' = FALSE
  /\ reader' = IF stopping THEN "done" ELSE "exit"
  /\ UNCHANGED <<child, term, pipes, delivered, buf, stopping, exits, died_alone, writer, pc>>

OnExit ==
  /\ reader = "exit"
  /\ exits' = exits + 1
  /\ reader' = "done"
  /\ UNCHANGED <<child, term, pipes, delivered, buf, stopping, running, died_alone, writer, pc>>

-----------------------------------------------------------------------------
(* stop(); the session has joined its worker.                              *)

Stop ==
  /\ pc = "idle" /\ ~writer
  /\ stopping' = TRUE
  /\ pc' = "close_stdin"
  /\ UNCHANGED <<child, term, pipes, delivered, buf, reader, running, exits, died_alone, writer>>

CloseStdin ==
  /\ pc = "close_stdin" /\ ~writer
  /\ stdin_open' = FALSE
  /\ pc' = "wait"
  /\ UNCHANGED <<child, term, stdout_open, pipe, printed, delivered, buf, reader, flags, writer>>

\* waitpid(WNOHANG), up to 40 times.
Reaped ==
  /\ pc \in {"wait", "reap"} /\ child = "zombie"
  /\ child' = "none"
  /\ pc' = "join"
  /\ UNCHANGED <<term, pipes, delivered, buf, reader, flags, writer>>

\* Two seconds have passed: SIGTERM, then a blocking waitpid.
Term ==
  /\ pc = "wait"
  /\ term' = TRUE
  /\ pc' = "reap"
  /\ UNCHANGED <<child, pipes, delivered, buf, reader, flags, writer>>

Join ==
  /\ pc = "join" /\ reader = "done"
  /\ reader' = "none"
  /\ pc' = "close"
  /\ UNCHANGED <<child, term, pipes, delivered, buf, flags, writer>>

\* stop() may be called again, and the object is then destroyed.
Close ==
  /\ pc = "close"
  /\ stdout_open' = FALSE /\ running' = FALSE
  /\ pc' = "stopped"
  /\ UNCHANGED <<child, term, stdin_open, pipe, printed, delivered, buf, reader, stopping,
                 exits, died_alone, writer>>

-----------------------------------------------------------------------------
Reader == Read \/ Deliver \/ Ended \/ OnExit
StopStep == CloseStdin \/ Reaped \/ Term \/ Join \/ Close

Next == ChildPrints \/ ChildExits \/ WriteBegin \/ WriteEnd \/ Reader \/ Stop \/ StopStep

Spec == Init /\ [][Next]_vars

\* stop() and the reader thread run, and SIGTERM kills.
FairSpec == Spec /\ WF_vars(StopStep) /\ WF_vars(Reader) /\ WF_vars(ChildExits /\ term)

-----------------------------------------------------------------------------
(* Properties.                                                             *)

\* "Every line the child printed has been delivered to the callback by the time
\* this returns", in order and once, whether the child exits at the end of its
\* input, is killed, or crashed before.
StopDelivered ==
  pc = "stopped" =>
    /\ Len(delivered) = printed
    /\ \A n \in 1..printed : delivered[n] = n

\* on_exit_ is called only for a child whose output ended "without stop() having
\* been called", and no callback runs once stop() has returned.
ExitIsUnasked ==
  /\ exits > 0 => died_alone
  /\ pc \in {"close", "stopped"} => reader = "none" /\ child = "none"

\* A child that dies on its own is reported, unless stop() is called first.
DeathIsReported == (child = "zombie" /\ died_alone) ~> (exits = 1 \/ stopping)

\* stop() returns, even from a child that never exits by itself.
StopReturns == (pc = "close_stdin") ~> (pc = "stopped")
=============================================================================
