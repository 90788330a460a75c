----------------------------- MODULE DsdProcess -----------------------------
(***************************************************************************)
(* One DsdProcess object (dsd_process.cpp): the dsd-fme child of an FM     *)
(* session, its pipes and its audio socket, its two reader threads, and    *)
(* start() / stop() / write_audio() called by the session.                 *)
(*                                                                         *)
(* Descriptor numbers are shared by the whole process: another session     *)
(* opens and closes its own at any moment, and forks its own decoders.     *)
(***************************************************************************)
EXTENDS Integers, FiniteSets

CONSTANTS
  Fds,          \* descriptor numbers
  NoFd,         \* -1
  MaxStarts,    \* bound: start() calls in a behaviour
  MaxPrinted    \* bound: lines waiting in the child's output pipe

VARIABLES
  owner,          \* what each number is open as; "other": another session's
  stdin_fd,       \* stdin_fd_, stdout_fd_, udp_fd_
  stdout_fd,
  udp_fd,
  running,        \* running_
  child,          \* "none", "alive", "zombie"
  sibling,        \* another session's child with copies of our pipe ends: "none",
                  \* "forked" until it execs, "kept" if it has them after that
  pipe,           \* number of lines printed and not yet read
  stdout_thread,  \* "none", "check", "read", "done"
  udp_thread,
  writer,         \* the session's worker is inside write_audio
  pc,             \* where stop() is; "idle" outside
  term,           \* SIGTERM was sent
  starts

fds == <<owner, stdin_fd, stdout_fd, udp_fd>>
kid == <<child, sibling, pipe, term>>
threads == <<stdout_thread, udp_thread>>
vars == <<fds, kid, threads, running, writer, pc, starts>>

Steps == {"eof", "shutdown", "wait", "reap", "join_stdout", "join_udp", "close"}

TypeOK ==
  /\ owner \in [Fds -> {"free", "stdin", "stdout", "udp", "other"}]
  /\ \A f, g \in Fds : owner[f] = owner[g] /\ owner[f] \in {"stdin", "stdout", "udp"} => f = g
  /\ {stdin_fd, stdout_fd, udp_fd} \subseteq Fds \cup {NoFd}
  /\ {running, writer, term} \subseteq BOOLEAN
  /\ child \in {"none", "alive", "zombie"}
  /\ sibling \in {"none", "forked", "kept"}
  /\ pipe \in 0..MaxPrinted
  /\ {stdout_thread, udp_thread} \subseteq {"none", "check", "read", "done"}
  /\ pc \in {"idle"} \cup Steps
  /\ starts \in 0..MaxStarts

Init ==
  /\ owner = [f \in Fds |-> "free"]
  /\ stdin_fd = NoFd /\ stdout_fd = NoFd /\ udp_fd = NoFd
  /\ running = FALSE /\ writer = FALSE /\ term = FALSE
  /\ child = "none" /\ sibling = "none" /\ pipe = 0
  /\ stdout_thread = "none" /\ udp_thread = "none"
  /\ pc = "idle" /\ starts = 0

Free == {f \in Fds : owner[f] = "free"}

\* Somebody holds the write end of the output pipe.
StdoutOpen == child = "alive" \/ sibling # "none"

-----------------------------------------------------------------------------
(* start()                                                                 *)

\* Sessions call start() only on a stopped object.
MayStart == pc = "idle" /\ ~running /\ stdout_thread = "none" /\ starts < MaxStarts

\* A pipe cannot be made: nothing was touched.
StartNoPipe ==
  /\ MayStart /\ starts' = starts + 1
  /\ UNCHANGED <<fds, kid, threads, running, writer, pc>>

\* fork() fails: the bound socket is closed, and udp_fd_ keeps its number.
StartNoFork ==
  /\ MayStart /\ starts' = starts + 1
  /\ udp_fd' \in Free \cup {NoFd}
  /\ UNCHANGED <<owner, stdin_fd, stdout_fd, kid, threads, running, writer, pc>>

\* exec fails: the child is reaped, pipes and socket are closed.
StartNoExec ==
  /\ MayStart /\ starts' = starts + 1
  /\ udp_fd' = NoFd
  /\ UNCHANGED <<owner, stdin_fd, stdout_fd, kid, threads, running, writer, pc>>

\* The decoder runs; its socket is bound, unless bind() failed.
StartOk ==
  /\ MayStart /\ starts' = starts + 1
  /\ \E i, o \in Free :
       /\ i # o
       /\ stdin_fd' = i /\ stdout_fd' = o
       /\ \/ \E u \in Free \ {i, o} :
               /\ udp_fd' = u /\ udp_thread' = "check"
               /\ owner' = [owner EXCEPT ![i] = "stdin", ![o] = "stdout", ![u] = "udp"]
          \/ /\ udp_fd' = NoFd /\ UNCHANGED udp_thread
             /\ owner' = [owner EXCEPT ![i] = "stdin", ![o] = "stdout"]
  /\ child' = "alive" /\ pipe' = 0 /\ term' = FALSE /\ sibling' = "none"
  /\ running' = TRUE /\ stdout_thread' = "check"
  /\ UNCHANGED <<writer, pc>>

-----------------------------------------------------------------------------
(* write_audio(), on the session's worker.                                 *)

WriteBegin ==
  /\ pc = "idle" /\ running /\ ~writer
  /\ stdin_fd # NoFd
  /\ writer' = TRUE
  /\ UNCHANGED <<fds, kid, threads, running, pc, starts>>

\* The child has read it all, or is gone (EPIPE).
WriteEnd ==
  /\ writer
  /\ writer' = FALSE
  /\ UNCHANGED <<fds, kid, threads, running, pc, starts>>

-----------------------------------------------------------------------------
(* stop(), once the session has joined its worker.  It may be called on an *)
(* object that is not running.                                             *)

Goto(from, to) == pc = from /\ pc' = to

Stop ==
  /\ Goto("idle", "eof") /\ ~writer
  /\ running' = FALSE
  /\ UNCHANGED <<fds, kid, threads, writer, starts>>

StopEof ==
  /\ Goto("eof", "shutdown")
  /\ IF stdin_fd # NoFd
     THEN owner' = [owner EXCEPT ![stdin_fd] = "free"] /\ stdin_fd' = NoFd
     ELSE UNCHANGED <<owner, stdin_fd>>
  /\ UNCHANGED <<stdout_fd, udp_fd, kid, threads, running, writer, starts>>

\* shutdown(udp_fd_) wakes recv(); the number stays taken.
StopShutdown ==
  /\ Goto("shutdown", IF child = "none" THEN "join_stdout" ELSE "wait")
  /\ UNCHANGED <<fds, kid, threads, running, writer, starts>>

\* waitpid(WNOHANG), up to 20 times.
StopReaped ==
  /\ Goto("wait", "join_stdout")
  /\ child = "zombie" /\ child' = "none"
  /\ UNCHANGED <<fds, sibling, pipe, term, threads, running, writer, starts>>

\* A second has passed: SIGTERM.
StopTerm ==
  /\ Goto("wait", "reap")
  /\ term' = TRUE
  /\ UNCHANGED <<fds, child, sibling, pipe, threads, running, writer, starts>>

\* The blocking waitpid.
StopReap ==
  /\ Goto("reap", "join_stdout")
  /\ child = "zombie" /\ child' = "none"
  /\ UNCHANGED <<fds, sibling, pipe, term, threads, running, writer, starts>>

\* Fault: the descriptors are closed before the readers are joined.
StopJoinStdoutCloses ==
  /\ Goto("join_stdout", "join_udp")
  /\ owner' = [f \in Fds |-> IF f \in {stdout_fd, udp_fd} THEN "free" ELSE owner[f]]
  /\ UNCHANGED <<stdin_fd, stdout_fd, udp_fd, kid, threads, running, writer, starts>>

StopJoinStdout ==
  /\ Goto("join_stdout", "join_udp")
  /\ stdout_thread \in {"none", "done"} /\ stdout_thread' = "none"
  /\ UNCHANGED <<fds, kid, udp_thread, running, writer, starts>>

StopJoinUdp ==
  /\ Goto("join_udp", "close")
  /\ udp_thread \in {"none", "done"} /\ udp_thread' = "none"
  /\ UNCHANGED <<fds, kid, stdout_thread, running, writer, starts>>

StopClose ==
  /\ Goto("close", "idle")
  /\ owner' = [f \in Fds |-> IF f \in {stdout_fd, udp_fd} THEN "free" ELSE owner[f]]
  /\ stdout_fd' = NoFd /\ udp_fd' = NoFd
  /\ UNCHANGED <<stdin_fd, kid, threads, running, writer, starts>>

-----------------------------------------------------------------------------
(* stdout_reader_loop and udp_reader_loop.                                 *)

StdoutCheck ==
  /\ stdout_thread = "check"
  /\ stdout_thread' = IF running THEN "read" ELSE "done"
  /\ UNCHANGED <<fds, kid, udp_thread, running, writer, pc, starts>>

\* read() returned what is in the pipe: each line is an event.
StdoutRead ==
  /\ stdout_thread = "read" /\ pipe > 0
  /\ pipe' = 0
  /\ stdout_thread' = "check"
  /\ UNCHANGED <<fds, child, sibling, term, udp_thread, running, writer, pc, starts>>

StdoutEof ==
  /\ stdout_thread = "read" /\ pipe = 0 /\ ~StdoutOpen
  /\ stdout_thread' = "done"
  /\ UNCHANGED <<fds, kid, udp_thread, running, writer, pc, starts>>

UdpCheck ==
  /\ udp_thread = "check"
  /\ udp_thread' = IF running THEN "read" ELSE "done"
  /\ UNCHANGED <<fds, kid, stdout_thread, running, writer, pc, starts>>

\* A datagram: its audio goes to on_audio_.
UdpAudio ==
  /\ udp_thread = "read" /\ child = "alive"
  /\ udp_thread' = "check"
  /\ UNCHANGED <<fds, kid, stdout_thread, running, writer, pc, starts>>

UdpShutDown ==
  /\ udp_thread = "read" /\ pc \in Steps \ {"eof", "shutdown"}
  /\ udp_thread' = "done"
  /\ UNCHANGED <<fds, kid, stdout_thread, running, writer, pc, starts>>

-----------------------------------------------------------------------------
(* The child, and the other sessions of the process.                       *)

ChildPrints ==
  /\ child = "alive" /\ pipe < MaxPrinted
  /\ pipe' = pipe + 1
  /\ UNCHANGED <<fds, child, sibling, term, threads, running, writer, pc, starts>>

\* It may crash at any time, exits at the end of its input, and dies of SIGTERM.
ChildExits ==
  /\ child = "alive" /\ child' = "zombie"
  /\ UNCHANGED <<fds, sibling, pipe, term, threads, running, writer, pc, starts>>

OtherOpens(f) ==
  /\ owner[f] = "free"
  /\ owner' = [owner EXCEPT ![f] = "other"]
  /\ UNCHANGED <<stdin_fd, stdout_fd, udp_fd, kid, threads, running, writer, pc, starts>>

OtherCloses(f) ==
  /\ owner[f] = "other"
  /\ owner' = [owner EXCEPT ![f] = "free"]
  /\ UNCHANGED <<stdin_fd, stdout_fd, udp_fd, kid, threads, running, writer, pc, starts>>

\* Another session forks its decoder, which has a copy of every descriptor (of
\* our output pipe's write end only if it forks inside our start(); allowing it
\* for the child's whole life asks more of stop())...
SiblingForks ==
  /\ child = "alive" /\ sibling = "none"
  /\ sibling' = "forked"
  /\ UNCHANGED <<fds, child, pipe, term, threads, running, writer, pc, starts>>

\* ... until close_inherited_fds and exec: every pipe is O_CLOEXEC.
SiblingExecs ==
  /\ sibling = "forked"
  /\ sibling' = "none"
  /\ UNCHANGED <<fds, child, pipe, term, threads, running, writer, pc, starts>>

-----------------------------------------------------------------------------
Start == StartNoPipe \/ StartNoFork \/ StartNoExec \/ StartOk
StopStep == StopEof \/ StopShutdown \/ StopReaped \/ StopTerm \/ StopReap
            \/ StopJoinStdout \/ StopJoinUdp \/ StopClose
StdoutReader == StdoutCheck \/ StdoutRead \/ StdoutEof
UdpReader == UdpCheck \/ UdpAudio \/ UdpShutDown
Child == ChildExits \/ ChildPrints
Others == SiblingForks \/ SiblingExecs \/ \E f \in Fds : OtherOpens(f) \/ OtherCloses(f)

Next == Start \/ Stop \/ StopStep \/ WriteBegin \/ WriteEnd \/ StdoutReader
        \/ UdpReader \/ Child \/ Others

Spec == Init /\ [][Next]_vars

\* stop() runs on its strand, the readers run, a forked child goes on to exec,
\* and SIGTERM kills.
FairSpec ==
  /\ Spec
  /\ WF_vars(StopStep)
  /\ WF_vars(StdoutReader) /\ WF_vars(UdpCheck \/ UdpShutDown)
  /\ WF_vars(SiblingExecs)
  /\ WF_vars(ChildExits /\ term)

-----------------------------------------------------------------------------
(* Properties.                                                             *)

\* A reader thread only ever reads its own pipe or socket, whatever numbers the
\* other sessions get meanwhile: stop() joins the readers before it closes.
ReadersReadTheirOwn ==
  /\ stdout_thread \in {"check", "read"} => stdout_fd # NoFd /\ owner[stdout_fd] = "stdout"
  /\ udp_thread \in {"check", "read"} => udp_fd # NoFd /\ owner[udp_fd] = "udp"

\* Between calls, a stopped object has no child, zombie or thread, and no
\* descriptor of it is open: on every way out of start() and stop().
StoppedIsEmpty ==
  pc = "idle" /\ ~running =>
    /\ child = "none" /\ stdout_thread = "none" /\ udp_thread = "none"
    /\ \A f \in Fds : owner[f] \in {"free", "other"}

\* The numbers stop() is going to close or shut down are its own: stop() is "safe
\* to call multiple times".  (A failed fork() leaves the number of the socket it
\* closed in udp_fd_, so of a start that failed nothing is claimed there.)
DescriptorsAreOwn ==
  /\ stdin_fd # NoFd => owner[stdin_fd] = "stdin"
  /\ stdout_fd # NoFd => owner[stdout_fd] = "stdout"
  /\ running /\ udp_fd # NoFd => owner[udp_fd] = "udp"

\* stop() returns, even if the child crashes, does not exit at the end of its
\* input, or other sessions fork decoders meanwhile.
StopReturns == (pc \in Steps) ~> (pc = "idle")
=============================================================================
