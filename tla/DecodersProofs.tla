--------------------------- MODULE DecodersProofs ---------------------------
(***************************************************************************)
(* What the decoders' objects keep to, whatever their children, readers    *)
(* and other sessions do.                                                  *)
(***************************************************************************)
EXTENDS Decoders, SequenceTheorems, TLAPS

-----------------------------------------------------------------------------
(* multimon-ng.  What was printed is, in order, what is delivered, what    *)
(* the reader holds, and what is in the pipe; the reader leaves its loop   *)
(* only when the child is gone and nothing is left, so that with the       *)
(* thread joined all of it is delivered.                                   *)

PagerLinesInOrder ==
  /\ Len(delivered) + Len(buf) + Len(pipe) = printed
  /\ \A n \in 1..Len(delivered) : delivered[n] = n
  /\ \A n \in 1..Len(buf) : buf[n] = Len(delivered) + n
  /\ \A n \in 1..Len(pipe) : pipe[n] = Len(delivered) + Len(buf) + n

PagerReader ==
  /\ reader = "lines" <=> buf # << >>
  /\ reader \in {"ended", "exit", "done", "none"} => pipe = << >> /\ child # "alive"
  /\ reader = "none" <=> pc \in {"close", "stopped"}
  /\ child = "none" <=> pc \in {"join", "close", "stopped"}

PagerExit ==
  /\ stopping <=> pc # "idle"
  /\ ~stopping /\ child # "alive" => died_alone
  /\ reader = "exit" \/ exits > 0 => died_alone
  /\ exits > 0 => reader \in {"done", "none"}

PagerInv == P!TypeOK /\ PagerLinesInOrder /\ PagerReader /\ PagerExit

\* Nothing is printed, held or delivered at first.
LEMMA PagerBegins == P!Init => PagerInv
<1> SUFFICES ASSUME P!Init PROVE PagerInv OBVIOUS
<1> USE DEF P!Init
<1>1. P!TypeOK
  <2>1. PagerLines \in Nat /\ PipeLines \in Nat BY BoundAssumption
  <2>2. pipe \in Seq(1..PagerLines) /\ buf \in Seq(1..PagerLines) /\ delivered \in Seq(1..PagerLines)
    OBVIOUS
  <2>3. Len(pipe) = 0 /\ Len(delivered) = 0 /\ Len(buf) = 0 OBVIOUS
  <2>4. Len(pipe) <= PipeLines /\ printed \in 0..PagerLines /\ Len(delivered) + Len(buf) <= PagerLines
    BY <2>1, <2>3
  <2>5. {term, stdin_open, stdout_open, stopping, running, died_alone, writer} \subseteq BOOLEAN
    OBVIOUS
  <2>6. /\ child \in {"none", "alive", "zombie"} /\ exits \in 0..1 /\ pc \in {"idle", "stopped"} \cup P!Steps
        /\ reader \in {"none", "read", "lines", "ended", "exit", "done"}
    OBVIOUS
  <2> QED BY ONLY <2>2, <2>4, <2>5, <2>6 DEF P!TypeOK
<1>2. PagerLinesInOrder BY DEF PagerLinesInOrder
<1>3. PagerReader BY DEF PagerReader
<1>4. PagerExit BY DEF PagerExit
<1> QED BY <1>1, <1>2, <1>3, <1>4 DEF PagerInv

\* The child, the pipe, the reader and the stop() keep the lines in order and whole.
LEMMA PagerStep == PagerInv /\ P!Next => PagerInv'
<1> USE DEF PagerInv
<1>1. ASSUME PagerInv, P!ChildPrints PROVE PagerInv'
  <2> USE <1>1 DEF P!ChildPrints
  <2>1. P!TypeOK'
    <3>0. pipe \in Seq(1..PagerLines) /\ printed \in 0..PagerLines /\ printed < PagerLines BY DEF P!TypeOK
    <3>1. printed' \in 1..PagerLines /\ pipe' \in Seq(1..PagerLines) /\ Len(pipe') = Len(pipe) + 1
      <4>1. printed + 1 \in 1..PagerLines BY ONLY <3>0, BoundAssumption
      <4>2. printed' = printed + 1 /\ pipe' = Append(pipe, printed + 1) OBVIOUS
      <4> QED BY ONLY <3>0, <4>1, <4>2, AppendProperties
    <3> QED BY <3>1, BoundAssumption DEF P!TypeOK, P!flags
  <2>2. PagerLinesInOrder'
    <3>1. /\ Len(pipe') = Len(pipe) + 1 /\ printed' = printed + 1 /\ UNCHANGED <<delivered, buf>>
          /\ \A n \in 1..Len(pipe) : pipe'[n] = pipe[n]
          /\ pipe'[Len(pipe) + 1] = printed + 1
      BY DEF P!TypeOK
    <3>2. Len(delivered) \in Nat /\ Len(buf) \in Nat /\ Len(pipe) \in Nat /\ printed \in Nat
      BY BoundAssumption DEF P!TypeOK
    <3>3. \A n \in 1..Len(pipe') : pipe'[n] = Len(delivered') + Len(buf') + n
      <4>1. \A n \in 1..Len(pipe') : n \in 1..Len(pipe) \/ n = Len(pipe) + 1 BY ONLY <3>1, <3>2
      <4>2. printed + 1 = Len(delivered) + Len(buf) + (Len(pipe) + 1)
        <5>1. Len(delivered) + Len(buf) + Len(pipe) = printed BY DEF PagerLinesInOrder
        <5> QED BY ONLY <3>2, <5>1
      <4>3. \A n \in 1..Len(pipe) : pipe[n] = Len(delivered) + Len(buf) + n BY DEF PagerLinesInOrder
      <4> QED BY ONLY <3>1, <4>1, <4>2, <4>3
    <3>4. Len(delivered') + Len(buf') + Len(pipe') = printed' BY <3>1, <3>2 DEF PagerLinesInOrder
    <3> QED BY <3>1, <3>3, <3>4 DEF PagerLinesInOrder
  <2>3. PagerReader' /\ PagerExit' BY DEF P!TypeOK, PagerReader, PagerExit, P!flags
  <2> QED BY <2>1, <2>2, <2>3
<1>2. ASSUME PagerInv, P!ChildExits PROVE PagerInv'
  BY <1>2 DEF P!ChildExits, P!TypeOK, PagerLinesInOrder, PagerReader, PagerExit, P!pipes
<1>3. ASSUME PagerInv, P!WriteBegin \/ P!WriteEnd PROVE PagerInv'
  <2>1. writer' \in BOOLEAN /\ UNCHANGED <<child, term, P!pipes, delivered, buf, reader, P!flags, pc>>
    BY <1>3 DEF P!WriteBegin, P!WriteEnd
  <2> QED BY <1>3, <2>1 DEF P!TypeOK, PagerLinesInOrder, PagerReader, PagerExit, P!pipes, P!flags
<1>4. ASSUME PagerInv, P!Read PROVE PagerInv'
  <2>1. /\ reader = "read" /\ buf = << >>
        /\ UNCHANGED <<child, term, stdin_open, stdout_open, printed, delivered, P!flags, writer, pc>>
    BY <1>4 DEF P!Read, PagerReader
  <2>2. CASE pipe # << >> /\ buf' = pipe /\ pipe' = << >> /\ reader' = "lines"
    <3>1. P!TypeOK' BY <1>4, <2>1, <2>2, BoundAssumption DEF P!TypeOK, PagerLinesInOrder, P!flags
    <3>2. PagerLinesInOrder' BY <1>4, <2>1, <2>2 DEF PagerLinesInOrder, P!TypeOK
    <3> QED BY <1>4, <2>1, <2>2, <3>1, <3>2 DEF PagerReader, PagerExit, P!flags
  <2>3. CASE child # "alive" /\ pipe = << >> /\ reader' = "ended" /\ UNCHANGED <<pipe, buf>>
    BY <1>4, <2>1, <2>3 DEF P!TypeOK, PagerLinesInOrder, PagerReader, PagerExit, P!flags
  <2> QED BY <1>4, <2>2, <2>3 DEF P!Read
<1>5. ASSUME PagerInv, P!Deliver PROVE PagerInv'
  <2> USE <1>5 DEF P!Deliver
  <2>a. buf # << >> /\ reader = "lines" BY DEF PagerReader
  <2>b. buf \in Seq(1..PagerLines) /\ delivered \in Seq(1..PagerLines) BY DEF P!TypeOK
  <2>c. buf' = Tail(buf) /\ delivered' = Append(delivered, Head(buf)) /\ UNCHANGED <<pipe, printed>>
    BY DEF P!pipes
  <2>0. /\ buf \in Seq(1..PagerLines) /\ buf # << >> /\ delivered \in Seq(1..PagerLines)
        /\ Head(buf) \in 1..PagerLines /\ Head(buf) = buf[1]
        /\ Len(buf') = Len(buf) - 1 /\ Len(delivered') = Len(delivered) + 1
        /\ buf' \in Seq(1..PagerLines) /\ delivered' \in Seq(1..PagerLines)
        /\ UNCHANGED <<pipe, printed>>
    <3>1. Len(buf) \in Nat \ {0} /\ Head(buf) = buf[1] /\ Head(buf) \in 1..PagerLines
      <4>1. Len(buf) \in Nat \ {0} BY ONLY <2>a, <2>b
      <4>2. 1 \in 1..Len(buf) BY ONLY <4>1
      <4>3. buf[1] \in 1..PagerLines BY ONLY <2>b, <4>2, ElementOfSeq
      <4>4. Head(buf) = buf[1] BY ONLY <2>a, <2>b
      <4> QED BY ONLY <4>1, <4>3, <4>4
    <3>2. Tail(buf) \in Seq(1..PagerLines) /\ Len(Tail(buf)) = Len(buf) - 1 BY ONLY <2>a, <2>b
    <3>3. /\ Append(delivered, Head(buf)) \in Seq(1..PagerLines)
          /\ Len(Append(delivered, Head(buf))) = Len(delivered) + 1
      BY ONLY <2>b, <3>1
    <3> QED BY ONLY <2>a, <2>b, <2>c, <3>1, <3>2, <3>3
  <2>1. P!TypeOK' BY <2>0 DEF P!TypeOK, P!pipes, P!flags
  <2>2. PagerLinesInOrder'
    <3>1. \A n \in 1..Len(delivered) : delivered'[n] = delivered[n] BY <2>0
    <3>2. delivered'[Len(delivered) + 1] = buf[1] BY <2>0
    <3>3. \A n \in 1..Len(buf') : buf'[n] = buf[n + 1] BY <2>0
    <3>4. Len(delivered) \in Nat /\ Len(buf) \in Nat \ {0} /\ Len(pipe) \in Nat
      BY <2>0 DEF P!TypeOK
    <3>5. buf[1] = Len(delivered) + 1 /\ \A n \in 1..Len(buf') : buf'[n] = Len(delivered') + n
      BY <2>0, <3>3, <3>4 DEF PagerLinesInOrder
    <3>6. \A n \in 1..Len(delivered') : delivered'[n] = n
      BY <2>0, <3>1, <3>2, <3>4, <3>5 DEF PagerLinesInOrder
    <3>7. \A n \in 1..Len(pipe') : pipe'[n] = Len(delivered') + Len(buf') + n
      BY <2>0, <3>4 DEF PagerLinesInOrder
    <3>8. Len(delivered') + Len(buf') + Len(pipe') = printed'
      BY <2>0, <3>4 DEF PagerLinesInOrder
    <3> QED BY <3>5, <3>6, <3>7, <3>8 DEF PagerLinesInOrder
  <2>3. PagerReader' /\ PagerExit' BY DEF P!TypeOK, PagerReader, PagerExit, P!flags, P!pipes
  <2> QED BY <2>1, <2>2, <2>3
<1>6. ASSUME PagerInv, P!Ended PROVE PagerInv'
  BY <1>6 DEF P!Ended, P!TypeOK, PagerLinesInOrder, PagerReader, PagerExit, P!pipes
<1>7. ASSUME PagerInv, P!OnExit PROVE PagerInv'
  BY <1>7 DEF P!OnExit, P!TypeOK, PagerLinesInOrder, PagerReader, PagerExit, P!pipes
<1>8. ASSUME PagerInv, P!Stop PROVE PagerInv'
  BY <1>8 DEF P!Stop, P!TypeOK, P!Steps, PagerLinesInOrder, PagerReader, PagerExit, P!pipes
<1>9. ASSUME PagerInv, P!StopStep PROVE PagerInv'
  BY <1>9 DEF P!StopStep, P!CloseStdin, P!Reaped, P!Term, P!Join, P!Close, P!TypeOK, P!Steps,
              PagerLinesInOrder, PagerReader, PagerExit, P!pipes, P!flags
<1> QED BY <1>1, <1>2, <1>3, <1>4, <1>5, <1>6, <1>7, <1>8, <1>9 DEF P!Next, P!Reader

-----------------------------------------------------------------------------
(* dsd-fme.  Which number is open as what is decided by the object's three *)
(* fields, except that udp_fd_ may name a number the object no longer has. *)

DsdNumbers ==
  /\ \A f \in Fds : (owner[f] = "stdin") <=> (f = stdin_fd)
  /\ \A f \in Fds : (owner[f] = "stdout") <=> (f = stdout_fd)
  /\ \A f \in Fds : owner[f] = "udp" => f = udp_fd
  /\ udp_fd # NoFd /\ (running \/ udp_thread \in {"check", "read"}) => owner[udp_fd] = "udp"
  /\ udp_thread \in {"check", "read"} => udp_fd # NoFd
  /\ stdout_thread \in {"check", "read"} => stdout_fd # NoFd

\* Where stop() gives back what.
DsdPlaces ==
  /\ running => pc = "idle"
  /\ stdin_fd # NoFd => running \/ pc = "eof"
  /\ stdout_fd # NoFd => running \/ pc # "idle"
  /\ \A f \in Fds : owner[f] = "udp" => running \/ pc # "idle"
  /\ child # "none" => running \/ pc \in {"eof", "shutdown", "wait", "reap"}
  /\ stdout_thread # "none" => running \/ pc \in D!Steps \ {"join_udp", "close"}
  /\ udp_thread # "none" => running \/ pc \in D!Steps \ {"close"}

DsdInv == D!TypeOK /\ DsdNumbers /\ DsdPlaces

\* No descriptor is open at first.
LEMMA DsdBegins == D!Init => DsdInv
<1> SUFFICES ASSUME D!Init PROVE DsdInv OBVIOUS
<1> USE DEF D!Init
<1>1. {running, writer, term} \subseteq BOOLEAN OBVIOUS
<1>2. D!TypeOK BY <1>1, BoundAssumption, NoFdAssumption DEF D!TypeOK
<1> QED BY <1>2, NoFdAssumption DEF DsdInv, DsdNumbers, DsdPlaces

\* start(), on each of its ways out.
LEMMA DsdStarts == DsdInv /\ D!Start => DsdInv'
<1> SUFFICES ASSUME DsdInv, D!Start PROVE DsdInv' OBVIOUS
<1> USE NoFdAssumption DEF DsdInv
<1>1. /\ ~running /\ pc = "idle" /\ stdout_thread = "none" /\ starts < MaxStarts /\ starts' = starts + 1
      /\ starts' \in 0..MaxStarts
  BY BoundAssumption DEF D!Start, D!StartNoPipe, D!StartNoFork, D!StartNoExec, D!StartOk, D!MayStart, D!TypeOK
<1>2. /\ stdin_fd = NoFd /\ stdout_fd = NoFd /\ udp_thread = "none" /\ child = "none"
      /\ \A f \in Fds : owner[f] \in {"free", "other"}
  BY <1>1 DEF D!TypeOK, D!Steps, DsdNumbers, DsdPlaces
<1>3. ASSUME /\ UNCHANGED <<owner, stdin_fd, stdout_fd, D!kid, D!threads, running, writer, pc>>
             /\ udp_fd' \in Fds \cup {NoFd}
      PROVE  DsdInv'
  BY <1>1, <1>2, <1>3 DEF D!kid, D!threads, D!TypeOK, DsdNumbers, DsdPlaces
<1>4. CASE D!StartNoPipe \/ D!StartNoFork \/ D!StartNoExec
  BY <1>3, <1>4 DEF D!StartNoPipe, D!StartNoFork, D!StartNoExec, D!fds, D!Free, D!TypeOK
<1>5. CASE D!StartOk
  <2>1. PICK i \in D!Free, o \in D!Free :
          /\ i # o /\ stdin_fd' = i /\ stdout_fd' = o
          /\ \/ \E u \in D!Free \ {i, o} :
                  /\ udp_fd' = u /\ udp_thread' = "check"
                  /\ owner' = [owner EXCEPT ![i] = "stdin", ![o] = "stdout", ![u] = "udp"]
             \/ /\ udp_fd' = NoFd /\ UNCHANGED udp_thread
                /\ owner' = [owner EXCEPT ![i] = "stdin", ![o] = "stdout"]
    BY <1>5 DEF D!StartOk
  <2>2. /\ child' = "alive" /\ pipe' = 0 /\ term' = FALSE /\ sibling' = "none" /\ running' = TRUE
        /\ stdout_thread' = "check" /\ UNCHANGED <<writer, pc>>
    BY <1>5 DEF D!StartOk
  <2>3. i \in Fds /\ o \in Fds /\ D!Free \subseteq Fds BY DEF D!Free
  <2>4. owner' \in [Fds -> {"free", "stdin", "stdout", "udp", "other"}]
    BY <2>1, <2>3 DEF D!TypeOK
  <2>5. DsdNumbers'
    BY <1>2, <2>1, <2>2, <2>3 DEF D!TypeOK, DsdNumbers, DsdPlaces
  <2>6. D!TypeOK'
    <3>1. {running, writer, term}' \subseteq BOOLEAN BY <2>2 DEF D!TypeOK
    <3>2. udp_fd' \in Fds \cup {NoFd} /\ udp_thread' \in {"none", "check"} BY <1>2, <2>1, <2>3
    <3>3. \A f, g \in Fds : owner'[f] = owner'[g] /\ owner'[f] \in {"stdin", "stdout", "udp"} => f = g
      BY <2>5 DEF DsdNumbers
    <3> QED BY <1>1, <2>1, <2>2, <2>3, <2>4, <3>1, <3>2, <3>3, BoundAssumption DEF D!TypeOK
  <2>7. DsdPlaces' BY <1>1, <2>2 DEF DsdPlaces
  <2> QED BY <2>5, <2>6, <2>7
<1> QED BY <1>4, <1>5 DEF D!Start

\* stop(), step by step.
LEMMA DsdStops == DsdInv /\ (D!Stop \/ D!StopStep) => DsdInv'
<1> SUFFICES ASSUME DsdInv, D!Stop \/ D!StopStep PROVE DsdInv' OBVIOUS
<1> USE NoFdAssumption DEF DsdInv, D!Goto, D!Steps
<1>1. {running, writer, term}' \subseteq BOOLEAN
  BY DEF D!Stop, D!StopStep, D!StopEof, D!StopShutdown, D!StopReaped, D!StopTerm, D!StopReap,
         D!StopJoinStdout, D!StopJoinUdp, D!StopClose, D!kid, D!TypeOK
<1>2. CASE D!Stop
  BY <1>1, <1>2 DEF D!Stop, D!fds, D!kid, D!threads, D!TypeOK, DsdNumbers, DsdPlaces
<1>3. CASE D!StopEof
  <2>1. stdin_fd' = NoFd /\ UNCHANGED <<stdout_fd, udp_fd, D!kid, D!threads, running, writer, starts>>
    BY <1>3 DEF D!StopEof
  <2>2. owner' \in [Fds -> {"free", "stdin", "stdout", "udp", "other"}]
    BY <1>3 DEF D!StopEof, D!TypeOK
  <2>3. \A f \in Fds : owner'[f] = IF f = stdin_fd THEN "free" ELSE owner[f]
    BY <1>3 DEF D!StopEof, D!TypeOK
  <2>4. D!TypeOK' BY <1>1, <1>3, <2>1, <2>2, <2>3 DEF D!StopEof, D!kid, D!threads, D!TypeOK
  <2>5. DsdNumbers' BY <1>3, <2>1, <2>3 DEF D!threads, D!TypeOK, DsdNumbers
  <2>6. DsdPlaces' BY <1>3, <2>1, <2>3 DEF D!StopEof, D!kid, D!threads, DsdPlaces
  <2> QED BY <2>4, <2>5, <2>6
<1>4. CASE D!StopShutdown \/ D!StopReaped \/ D!StopTerm \/ D!StopReap
  <2>1. /\ UNCHANGED <<owner, stdin_fd, stdout_fd, udp_fd, D!threads, running, pipe, sibling, starts>>
        /\ child' \in {child, "none"}
    BY <1>4 DEF D!StopShutdown, D!StopReaped, D!StopTerm, D!StopReap, D!fds, D!kid
  <2>2. D!TypeOK' /\ DsdNumbers'
    BY <1>1, <1>4, <2>1 DEF D!StopShutdown, D!StopReaped, D!StopTerm, D!StopReap, D!threads, D!TypeOK, DsdNumbers
  <2>3. DsdPlaces'
    BY <1>4, <2>1 DEF D!StopShutdown, D!StopReaped, D!StopTerm, D!StopReap, D!threads, D!kid, DsdPlaces
  <2> QED BY <2>2, <2>3
<1>5. CASE D!StopJoinStdout \/ D!StopJoinUdp
  BY <1>1, <1>5 DEF D!StopJoinStdout, D!StopJoinUdp, D!fds, D!kid, D!TypeOK, DsdNumbers, DsdPlaces
<1>6. CASE D!StopClose
  <2>1. /\ stdout_fd' = NoFd /\ udp_fd' = NoFd
        /\ UNCHANGED <<stdin_fd, D!kid, D!threads, running, writer, starts>>
    BY <1>6 DEF D!StopClose
  <2>2. \A f \in Fds : owner'[f] = IF f \in {stdout_fd, udp_fd} THEN "free" ELSE owner[f]
    BY <1>6 DEF D!StopClose
  <2>3. owner' \in [Fds -> {"free", "stdin", "stdout", "udp", "other"}]
    BY <1>6 DEF D!StopClose, D!TypeOK
  <2>4. ~running /\ stdin_fd = NoFd /\ child = "none" /\ stdout_thread = "none" /\ udp_thread = "none"
    BY <1>6 DEF D!StopClose, DsdPlaces
  <2>5. DsdNumbers' BY <2>1, <2>2, <2>4 DEF D!threads, D!TypeOK, DsdNumbers
  <2>6. D!TypeOK' BY <1>1, <1>6, <2>1, <2>2, <2>3 DEF D!StopClose, D!kid, D!threads, D!TypeOK
  <2>7. DsdPlaces' BY <2>1, <2>2, <2>4 DEF D!kid, D!threads, DsdPlaces, DsdNumbers
  <2> QED BY <2>5, <2>6, <2>7
<1> QED BY <1>2, <1>3, <1>4, <1>5, <1>6 DEF D!StopStep

\* The threads, the child, and the rest of the process.
LEMMA DsdRuns ==
  DsdInv /\ (D!WriteBegin \/ D!WriteEnd \/ D!StdoutReader \/ D!UdpReader \/ D!Child \/ D!Others) => DsdInv'
<1> SUFFICES ASSUME DsdInv,
                    D!WriteBegin \/ D!WriteEnd \/ D!StdoutReader \/ D!UdpReader \/ D!Child \/ D!Others
             PROVE  DsdInv'
  OBVIOUS
<1> USE NoFdAssumption DEF DsdInv
<1>1. CASE D!WriteBegin \/ D!WriteEnd
  <2>1. UNCHANGED <<D!fds, D!kid, D!threads, running, pc, starts>> /\ writer' \in BOOLEAN
    BY <1>1 DEF D!WriteBegin, D!WriteEnd
  <2>2. {running, writer, term}' \subseteq BOOLEAN BY <2>1 DEF D!kid, D!TypeOK
  <2> QED BY <2>1, <2>2 DEF D!fds, D!kid, D!threads, D!TypeOK, DsdNumbers, DsdPlaces
<1>2. CASE D!StdoutReader \/ D!UdpReader
  <2>1. /\ UNCHANGED <<D!fds, child, sibling, term, running, writer, pc, starts>>
        /\ pipe' \in {0, pipe}
    BY <1>2 DEF D!StdoutReader, D!StdoutCheck, D!StdoutRead, D!StdoutEof,
                D!UdpReader, D!UdpCheck, D!UdpAudio, D!UdpShutDown, D!kid
  <2>2. \/ stdout_thread \in {"check", "read"} /\ stdout_thread' \in {"check", "read", "done"} /\ udp_thread' = udp_thread
        \/ udp_thread \in {"check", "read"} /\ udp_thread' \in {"check", "read", "done"} /\ stdout_thread' = stdout_thread
    BY <1>2 DEF D!StdoutReader, D!StdoutCheck, D!StdoutRead, D!StdoutEof,
                D!UdpReader, D!UdpCheck, D!UdpAudio, D!UdpShutDown, D!threads
  <2> QED BY <2>1, <2>2, BoundAssumption DEF D!fds, D!TypeOK, DsdNumbers, DsdPlaces
<1>3. CASE D!Child \/ D!SiblingForks \/ D!SiblingExecs
  <2>1. /\ UNCHANGED <<D!fds, D!threads, term, running, writer, pc, starts>> /\ pipe' \in 0..MaxPrinted
        /\ child' \in {child, "zombie"} /\ (child' # child => child # "none") /\ sibling' \in {"none", "forked", "kept"}
    BY <1>3, BoundAssumption DEF D!Child, D!ChildExits, D!ChildPrints, D!SiblingForks, D!SiblingExecs, D!TypeOK
  <2> QED BY <2>1 DEF D!fds, D!threads, D!TypeOK, DsdNumbers, DsdPlaces
<1>4. CASE \E f \in Fds : D!OtherOpens(f) \/ D!OtherCloses(f)
  <2>1. PICK f \in Fds : D!OtherOpens(f) \/ D!OtherCloses(f) BY <1>4
  <2>2. /\ UNCHANGED <<stdin_fd, stdout_fd, udp_fd, D!kid, D!threads, running, writer, pc, starts>>
        /\ owner[f] \in {"free", "other"} /\ owner'[f] \in {"free", "other"}
        /\ \A g \in Fds \ {f} : owner'[g] = owner[g]
        /\ owner' \in [Fds -> {"free", "stdin", "stdout", "udp", "other"}]
    BY <2>1 DEF D!OtherOpens, D!OtherCloses, D!TypeOK
  <2>3. DsdNumbers' BY <2>2 DEF D!threads, D!TypeOK, DsdNumbers
  <2>4. D!TypeOK' BY <2>2 DEF D!kid, D!threads, D!TypeOK
  <2>5. DsdPlaces' BY <2>2 DEF D!kid, D!threads, DsdPlaces
  <2> QED BY <2>3, <2>4, <2>5
<1> QED BY <1>1, <1>2, <1>3, <1>4 DEF D!Others

-----------------------------------------------------------------------------
(* TETRA.  The same for the two numbers of a TetraProcess, whose fields    *)
(* are never stale: an object is started once.                             *)

TetraNumbers ==
  /\ \A f \in TetraFds : (owner[f] = "out") <=> (f = out)
  /\ \A f \in TetraFds : (owner[f] = "sock") <=> (f = sock)

TetraPlaces ==
  /\ running => pc = "idle"
  /\ sock # NoFd <=> pc \notin {"new", "stopped"}
  /\ pc \in {"idle", "output"} => out # NoFd
  /\ pc \in {"new", "stopped"} => out = NoFd
  /\ pc \in {"new", "join", "close", "stopped"} => child = "none"
  /\ pc \in {"new", "close", "stopped"} => reader = "none"
  /\ pc \in {"new", "stopped"} => voice = "none"
  /\ pc \notin {"new", "stopped"} /\ tetra = "kit" => voice # "none"

\* Speech is decoded by tetra-kit's object only, and what was told so far keeps to it.
TetraTold ==
  /\ voice = "decoder" => tetra = "kit"
  /\ \E S : told \in Seq(S)
  /\ T!SpeechIsVoice

TetraInv == T!TypeOK /\ TetraNumbers /\ TetraPlaces /\ TetraTold

\* Tetra-kit's frame extraction takes nothing that is not classified as voice.
LEMMA SpeechIsClassified ==
  ASSUME NEW r, T!Speech(r) PROVE T!KitKind(r) = "voice"
BY DEF T!Speech, T!KitKind

\* A TETRA process has no descriptor open at first.
LEMMA TetraBegins == T!Init => TetraInv
<1> SUFFICES ASSUME T!Init PROVE TetraInv OBVIOUS
<1> USE DEF T!Init
<1>1. {codec, running, writer} \subseteq BOOLEAN OBVIOUS
<1>2. T!TypeOK
  <2>1. inbox \in Seq(Datagrams) /\ sent \in 0..MaxSent BY BoundAssumption
  <2> QED BY <1>1, <2>1 DEF T!TypeOK
<1>3. TetraTold
  <2>1. told \in Seq({}) /\ DOMAIN told = {} OBVIOUS
  <2> QED BY <2>1 DEF TetraTold, T!SpeechIsVoice
<1> QED BY <1>2, <1>3, NoFdAssumption DEF TetraInv, TetraNumbers, TetraPlaces

\* start(), stop() and the reader's own steps, and what else runs in the process.
LEMMA TetraTypes == TetraInv /\ T!Next => T!TypeOK'
<1> SUFFICES ASSUME TetraInv, T!Next PROVE T!TypeOK' OBVIOUS
<1> USE DEF TetraInv
<1>1. {codec, running, writer}' \subseteq BOOLEAN
  BY DEF T!Next, T!StartFails, T!StartOk, T!Stop, T!StopStep, T!StopOutput, T!StopShutdown, T!StopReaped,
         T!StopSignal, T!StopJoin, T!StopClose, T!WriteBegin, T!WriteEnd, T!Reader, T!Check, T!Recv,
         T!RecvShutDown, T!Line, T!LinesDone, T!ChildSends, T!ChildExits, T!OtherOpens, T!OtherCloses, T!TypeOK
<1>2. tetra' \in {"osmo", "kit"}
  BY DEF T!Next, T!StartFails, T!StartOk, T!Stop, T!StopStep, T!StopOutput, T!StopShutdown, T!StopReaped,
         T!StopSignal, T!StopJoin, T!StopClose, T!WriteBegin, T!WriteEnd, T!Reader, T!Check, T!Recv,
         T!RecvShutDown, T!Line, T!LinesDone, T!ChildSends, T!ChildExits, T!OtherOpens, T!OtherCloses, T!TypeOK
<1>3. owner' \in [TetraFds -> {"free", "out", "sock", "other"}] /\ {out, sock}' \subseteq TetraFds \cup {NoFd}
  <2> DEFINE Owners == [TetraFds -> {"free", "out", "sock", "other"}]
  <2>0. owner \in Owners /\ {out, sock} \subseteq TetraFds \cup {NoFd} BY DEF T!TypeOK
  <2>1. CASE T!StartOk
    <3>1. PICK o, s \in TetraFds : out' = o /\ sock' = s /\ owner' = [owner EXCEPT ![o] = "out", ![s] = "sock"]
      BY <2>1, Zenon DEF T!StartOk, T!Free
    <3> QED BY ONLY <2>0, <3>1
  <2>2. CASE T!StopOutput
    <3>1. /\ owner' = owner \/ owner' = [owner EXCEPT ![out] = "free"]
          /\ out' \in {out, NoFd} /\ sock' = sock
      <4>1. CASE tetra = "osmo" BY <2>2, <4>1, Zenon DEF T!StopOutput
      <4>2. CASE tetra # "osmo"
        <5>1. owner' = owner /\ out' = out /\ sock' = sock BY <2>2, <4>2, Zenon DEF T!StopOutput
        <5> QED BY <5>1
      <4> QED BY <4>1, <4>2
    <3> QED BY ONLY <2>0, <3>1
  <2>3. CASE T!StopClose
    <3>1. /\ owner' = [f \in TetraFds |-> IF f \in {out, sock} THEN "free" ELSE owner[f]]
          /\ out' = NoFd /\ sock' = NoFd
      BY <2>3, Zenon DEF T!StopClose
    <3> QED BY ONLY <2>0, <3>1
  <2>4. CASE \E f \in TetraFds : T!OtherOpens(f) \/ T!OtherCloses(f)
    <3>1. PICK f \in TetraFds : \/ owner' = [owner EXCEPT ![f] = "other"]
                               \/ owner' = [owner EXCEPT ![f] = "free"]
      BY <2>4, Zenon DEF T!OtherOpens, T!OtherCloses
    <3>2. out' = out /\ sock' = sock BY <2>4, Zenon DEF T!OtherOpens, T!OtherCloses
    <3> QED BY ONLY <2>0, <3>1, <3>2
  <2>5. CASE UNCHANGED <<owner, out, sock>> BY ONLY <2>0, <2>5
  <2> QED
    BY <2>1, <2>2, <2>3, <2>4, <2>5
    DEF T!Next, T!StartFails, T!Stop, T!StopStep, T!StopShutdown, T!StopReaped, T!StopSignal, T!StopJoin,
        T!WriteBegin, T!WriteEnd, T!Reader, T!Check, T!Recv, T!RecvShutDown, T!Line, T!LinesDone,
        T!ChildSends, T!ChildExits
<1>4. /\ child' \in {"none", "alive", "zombie"} /\ sig' \in {"none", "term", "kill"}
      /\ voice' \in {"none", "null", "decoder"}
      /\ reader' \in {"none", "check", "recv", "lines", "done"}
      /\ pc' \in {"new", "idle", "stopped"} \cup T!Steps
  BY DEF T!Next, T!StartFails, T!StartOk, T!Stop, T!StopStep, T!StopOutput, T!StopShutdown, T!StopReaped,
         T!StopSignal, T!StopJoin, T!StopClose, T!WriteBegin, T!WriteEnd, T!Reader, T!Check, T!Recv,
         T!RecvShutDown, T!Line, T!LinesDone, T!ChildSends, T!ChildExits, T!OtherOpens, T!OtherCloses,
         T!TypeOK, T!Goto, T!Steps
<1>5. inbox' \in Seq(Datagrams) /\ sent' \in 0..MaxSent
  <2>1. CASE T!Recv
    BY <2>1 DEF T!Recv, T!TypeOK
  <2>2. CASE T!ChildSends
    <3>1. PICK d \in Datagrams : inbox' \in {Append(inbox, d), inbox} BY <2>2 DEF T!ChildSends
    <3>2. Append(inbox, d) \in Seq(Datagrams) BY DEF T!TypeOK
    <3>3. sent < MaxSent /\ sent' = sent + 1 BY <2>2 DEF T!ChildSends
    <3>4. sent \in 0..MaxSent /\ inbox \in Seq(Datagrams) BY DEF T!TypeOK
    <3>5. sent' \in 0..MaxSent BY ONLY <3>3, <3>4, BoundAssumption
    <3> QED BY ONLY <3>1, <3>2, <3>4, <3>5
  <2>3. CASE UNCHANGED <<inbox, sent>> BY <2>3 DEF T!TypeOK
  <2> QED
    BY <2>1, <2>2, <2>3
    DEF T!Next, T!StartFails, T!StartOk, T!Stop, T!StopStep, T!StopOutput, T!StopShutdown, T!StopReaped,
        T!StopSignal, T!StopJoin, T!StopClose, T!WriteBegin, T!WriteEnd, T!Reader, T!Check,
        T!RecvShutDown, T!Line, T!LinesDone, T!ChildExits, T!OtherOpens, T!OtherCloses
<1> QED BY <1>1, <1>2, <1>3, <1>4, <1>5 DEF T!TypeOK

\* A stop, step by step, a start and a write close and use only what is the
\* process's own, whatever the rest of the program opens meanwhile.
LEMMA TetraKeeps == TetraInv /\ T!Next => TetraNumbers' /\ TetraPlaces'
<1> SUFFICES ASSUME TetraInv, T!Next PROVE TetraNumbers' /\ TetraPlaces' OBVIOUS
<1> USE NoFdAssumption DEF TetraInv, T!Goto
<1>1. CASE T!StartFails
  BY <1>1 DEF T!StartFails, TetraNumbers, TetraPlaces
<1>2. CASE T!StartOk
  <2>1. PICK o \in T!Free, s \in T!Free :
          o # s /\ out' = o /\ sock' = s /\ owner' = [owner EXCEPT ![o] = "out", ![s] = "sock"]
    BY <1>2 DEF T!StartOk
  <2>2. out = NoFd /\ sock = NoFd /\ o \in TetraFds /\ s \in TetraFds
    BY <1>2, <2>1 DEF T!StartOk, T!Free, TetraPlaces
  <2>3. TetraNumbers' BY <2>1, <2>2 DEF T!TypeOK, TetraNumbers
  <2>4. TetraPlaces' BY <1>2, <2>1, <2>2 DEF T!StartOk, TetraPlaces
  <2> QED BY <2>3, <2>4
<1>3. CASE T!StopOutput
  <2>1. /\ out # NoFd /\ pc = "output" /\ pc' = "shutdown"
        /\ UNCHANGED <<tetra, sock, running, child, voice, reader>>
    BY <1>3 DEF T!StopOutput, TetraPlaces
  <2>2. CASE owner' = [owner EXCEPT ![out] = "free"] /\ out' = NoFd
    BY <2>1, <2>2 DEF T!TypeOK, TetraNumbers, TetraPlaces
  <2>3. CASE UNCHANGED <<owner, out>>
    BY <2>1, <2>3 DEF TetraNumbers, TetraPlaces
  <2> QED BY <1>3, <2>2, <2>3 DEF T!StopOutput
<1>4. CASE T!Stop \/ T!StopShutdown \/ T!StopReaped \/ T!StopSignal \/ T!StopJoin
  BY <1>4 DEF T!Stop, T!StopShutdown, T!StopReaped, T!StopSignal, T!StopJoin, TetraNumbers, TetraPlaces
<1>5. CASE T!StopClose
  <2>1. \A f \in TetraFds : owner'[f] = IF f \in {out, sock} THEN "free" ELSE owner[f]
    BY <1>5 DEF T!StopClose
  <2> QED BY <1>5, <2>1 DEF T!StopClose, TetraNumbers, TetraPlaces
<1>6. CASE T!Reader
  <2>1. /\ UNCHANGED <<tetra, owner, out, sock, running, child, voice, pc>>
        /\ reader # "none"
    BY <1>6 DEF T!Reader, T!Check, T!Recv, T!RecvShutDown, T!Line, T!LinesDone
  <2> QED BY <2>1 DEF TetraNumbers, TetraPlaces
<1>7. CASE T!WriteBegin \/ T!WriteEnd \/ T!ChildSends \/ T!ChildExits
  BY <1>7 DEF T!WriteBegin, T!WriteEnd, T!ChildSends, T!ChildExits, TetraNumbers, TetraPlaces
<1>8. CASE \E f \in TetraFds : T!OtherOpens(f) \/ T!OtherCloses(f)
  BY <1>8 DEF T!OtherOpens, T!OtherCloses, T!TypeOK, TetraNumbers, TetraPlaces
<1> QED BY <1>1, <1>2, <1>3, <1>4, <1>5, <1>6, <1>7, <1>8 DEF T!Next, T!StopStep

\* One more at the end of a sequence.
LEMMA Joined ==
  ASSUME NEW S, NEW s \in Seq(S), NEW e \in S
  PROVE  /\ s \o <<e>> \in Seq(S) /\ Len(s \o <<e>>) = Len(s) + 1
         /\ \A i \in 1..Len(s) : (s \o <<e>>)[i] = s[i]
         /\ (s \o <<e>>)[Len(s) + 1] = e
OBVIOUS

\* What the reader tells as voice is what came in as voice.
LEMMA TetraTells == TetraInv /\ T!Next => TetraTold'
<1> SUFFICES ASSUME TetraInv, T!Next PROVE TetraTold' OBVIOUS
<1> USE DEF TetraInv
<1>1. voice' = "decoder" => tetra' = "kit"
  BY DEF T!Next, T!StartFails, T!StartOk, T!Stop, T!StopStep, T!StopOutput, T!StopShutdown, T!StopReaped,
         T!StopSignal, T!StopJoin, T!StopClose, T!WriteBegin, T!WriteEnd, T!Reader, T!Check, T!Recv,
         T!RecvShutDown, T!Line, T!LinesDone, T!ChildSends, T!ChildExits, T!OtherOpens, T!OtherCloses,
         T!TypeOK, TetraTold
<1>2. CASE UNCHANGED told BY <1>1, <1>2 DEF TetraTold, T!SpeechIsVoice
<1>3. CASE T!Line
  <2> DEFINE r == Head(batch)
             E == [what |-> "event", line |-> r]
             A == [what |-> "audio", line |-> r]
             event == IF T!Kind(r) # "unknown" THEN <<E>> ELSE << >>
             audio == IF voice = "decoder" /\ T!Speech(r) THEN <<A>> ELSE << >>
  <2>1. told' = told \o event \o audio BY <1>3 DEF T!Line
  <2>2. PICK S : told \in Seq(S) BY DEF TetraTold
  <2>3. audio = <<A>> => event = <<E>> /\ T!KitKind(r) = "voice"
    BY SpeechIsClassified DEF TetraTold, T!Kind
  <2>4. event \in {<< >>, <<E>>} /\ audio \in {<< >>, <<A>>} OBVIOUS
  <2>5. /\ E.what = "event" /\ A.what = "audio" /\ E = [what |-> "event", line |-> A.line]
        /\ A.line = r
    OBVIOUS
  <2> HIDE DEF E, A, event, audio, r
  <2>6. /\ told \in Seq(S \cup {E, A})
        /\ told \o << >> = told
        /\ \A i \in 1..Len(told) : told[i].what = "audio" =>
             /\ i > 1 /\ told[i - 1] = [what |-> "event", line |-> told[i].line]
             /\ T!KitKind(told[i].line) = "voice"
    <3>1. DOMAIN told = 1..Len(told) BY <2>2
    <3> QED BY <2>2, <3>1 DEF TetraTold, T!SpeechIsVoice
  <2>7. CASE told' = told BY <1>2, <2>7
  <2>8. CASE told' = told \o <<E>>
    <3>1. told' \in Seq(S \cup {E, A}) /\ Len(told') = Len(told) + 1 /\ told'[Len(told) + 1] = E
          /\ (\A i \in 1..Len(told) : told'[i] = told[i])
      BY <2>6, <2>8, Joined
    <3>2. Len(told) \in Nat /\ DOMAIN told' = 1..(Len(told) + 1) BY <2>6, <3>1
    <3>3. T!SpeechIsVoice' BY <2>5, <2>6, <3>1, <3>2 DEF T!SpeechIsVoice
    <3> QED BY <1>1, <3>1, <3>3 DEF TetraTold
  <2>9. CASE told' = (told \o <<E>>) \o <<A>> /\ T!KitKind(r) = "voice"
    <3> DEFINE t == told \o <<E>>
    <3>1. t \in Seq(S \cup {E, A}) /\ Len(t) = Len(told) + 1 /\ t[Len(told) + 1] = E
          /\ (\A i \in 1..Len(told) : t[i] = told[i])
      BY <2>6, Joined
    <3> HIDE DEF t
    <3>2. told' \in Seq(S \cup {E, A}) /\ Len(told') = Len(t) + 1 /\ told'[Len(t) + 1] = A
          /\ (\A i \in 1..Len(t) : told'[i] = t[i])
      BY <2>9, <3>1, Joined DEF t
    <3>3. Len(told) \in Nat /\ DOMAIN told' = 1..(Len(told) + 2) BY <2>6, <3>1, <3>2
    <3>4. /\ \A i \in 1..Len(told) : told'[i] = told[i]
          /\ told'[Len(told) + 1] = E /\ told'[Len(told) + 2] = A
      BY <3>1, <3>2, <3>3
    <3>5. T!SpeechIsVoice' BY <2>5, <2>6, <2>9, <3>3, <3>4 DEF T!SpeechIsVoice
    <3> QED BY <1>1, <3>2, <3>5 DEF TetraTold
  <2>10. \/ told' = told
         \/ told' = told \o <<E>>
         \/ told' = (told \o <<E>>) \o <<A>> /\ T!KitKind(r) = "voice"
    <3>1. CASE audio = <<A>> BY <2>1, <2>3, <3>1
    <3>2. CASE audio = << >> /\ event = << >>
      <4>1. told \o event = told BY <2>6, <3>2, Zenon
      <4>2. (told \o event) \o audio = told BY <2>6, <3>2, <4>1, Zenon
      <4> QED BY <2>1, <4>2, Zenon
    <3>3. CASE audio = << >> /\ event = <<E>>
      <4>1. told \o <<E>> \in Seq(S \cup {E, A}) BY <2>6, Joined
      <4>2. (told \o <<E>>) \o << >> = told \o <<E>> BY <4>1
      <4>3. told' = told \o <<E>> BY <2>1, <3>3, <4>2, Zenon
      <4> QED BY <4>3
    <3> QED BY <2>4, <3>1, <3>2, <3>3
  <2> QED BY <2>7, <2>8, <2>9, <2>10
<1> QED
  BY <1>2, <1>3
  DEF T!Next, T!StartFails, T!StartOk, T!Stop, T!StopStep, T!StopOutput, T!StopShutdown, T!StopReaped,
      T!StopSignal, T!StopJoin, T!StopClose, T!WriteBegin, T!WriteEnd, T!Reader, T!Check, T!Recv,
      T!RecvShutDown, T!LinesDone, T!ChildSends, T!ChildExits, T!OtherOpens, T!OtherCloses

-----------------------------------------------------------------------------
(* The text of dsd-fme: the published slot is one whose voice was shown.   *)

LinesInv == (active_slot = 0 \/ active_slot \in voiced) /\ L!AudioUnderVoicedSlot

\* A line of dsd-fme's changes the active slot only together with its voice.
LEMMA LinesStep == LinesInv /\ L!Next => LinesInv'
<1> SUFFICES ASSUME LinesInv, L!Next PROVE LinesInv' OBVIOUS
<1> USE DEF LinesInv, L!AudioUnderVoicedSlot
<1>1. ASSUME NEW l \in Printed, L!ReadLine(l) PROVE LinesInv'
  <2> DEFINE dump == L!Feed(capture, l)
             slot == IF dump = << >> THEN current ELSE L!SlotAfter(dump[1], current)
             raw == IF L!BinaryText(L!Fed(capture, l), l) /\ L!KindOf(l) = "message"
                    THEN [L!Classified(l) EXCEPT !.kind = "unknown", !.text = ""] ELSE L!Classified(l)
             e == L!Stamped(raw, l, slot)
             marked == L!VoiceSlot(e, l)
  <2>1. /\ active_slot' = IF marked # 0 THEN marked ELSE active_slot
        /\ voiced' = IF l.has \cap {"voice", "burst"} # {} THEN voiced \cup ({e.slot} \ {0}) ELSE voiced
        /\ filed' = filed
    BY <1>1 DEF L!ReadLine
  <2>2. e.kind = "voice" => "voice" \in l.has
    <3>1. raw.kind \in {"unknown", L!KindOf(l)} BY DEF L!Classified
    <3>2. e.kind = raw.kind BY DEF L!Stamped, L!Classified
    <3>3. L!KindOf(l) = "voice" => "voice" \in l.has BY DEF L!KindOf
    <3> HIDE DEF e, raw
    <3> QED BY <3>1, <3>2, <3>3
  <2> HIDE DEF e
  <2>3. marked # 0 => marked = e.slot /\ l.has \cap {"voice", "burst"} # {}
    BY <2>2 DEF L!VoiceSlot
  <2> HIDE DEF marked
  <2> QED BY <2>1, <2>3
<1>2. CASE L!ReadEnd \/ L!StartAgain
  BY <1>2 DEF L!ReadEnd, L!StartAgain
<1>3. CASE L!HearLone \/ L!HearBoth
  BY <1>3 DEF L!HearLone, L!HearBoth
<1> QED BY <1>1, <1>2, <1>3 DEF L!Next

-----------------------------------------------------------------------------
(* The short messages of dsd-fme's dumps.  In terms of what was read (pr): *)
(* each header with the rows after it, of which the last may still grow.   *)

Listed(s) == \E S : s \in Seq(S)
RowIn(pr, i, j) == pr[j].line.head = 0 /\ pr[j].line.hex # "" /\ pr[j].stream = pr[i].stream
CountIn(pr, i, n) ==
  /\ i + n <= Len(pr) /\ \A j \in i + 1..i + n : RowIn(pr, i, j)
  /\ i + n = Len(pr) \/ ~RowIn(pr, i, i + n + 1)
RowsIn(pr, i) ==
  LET n == CHOOSE n \in 0..Len(pr) : CountIn(pr, i, n) IN [j \in 1..n |-> pr[i + j].line.hex]
HeadersIn(pr) == {i \in DOMAIN pr : pr[i].line.head # 0}
ToldIn(ev) == {k \in DOMAIN ev : "rows" \in DOMAIN ev[k] /\ ev[k].rows[1] = "text"}
Tells(pr, W, ev) ==
  \E f \in [W -> ToldIn(ev)] :
    /\ \A i, j \in W : i < j => f[i] < f[j]
    /\ \A k \in ToldIn(ev) : \E i \in W : f[i] = k
    /\ \A i \in W : ev[f[i]].slot = pr[i].line.head /\ ev[f[i]].rows = RowsIn(pr, i)

\* A list with one more.
LEMMA OneMore ==
  ASSUME NEW s, Listed(s), NEW x
  PROVE  /\ Listed(Append(s, x)) /\ s \o <<x>> = Append(s, x) /\ s \o << >> = s
         /\ Len(s) \in Nat /\ DOMAIN s = 1..Len(s)
         /\ Len(Append(s, x)) = Len(s) + 1 /\ DOMAIN Append(s, x) = 1..Len(s) + 1
         /\ \A k \in 1..Len(s) : Append(s, x)[k] = s[k]
         /\ Append(s, x)[Len(s) + 1] = x
<1> PICK S : s \in Seq(S) BY DEF Listed
<1> DEFINE U == S \cup {x}
<1>1. s \in Seq(U) BY SeqMonotonic
<1> QED BY <1>1 DEF Listed

\* A header has one number of rows.
LEMMA OneCount ==
  ASSUME NEW pr, Listed(pr), NEW i \in DOMAIN pr, NEW n \in Nat, CountIn(pr, i, n)
  PROVE  /\ \A k \in Nat : CountIn(pr, i, k) => k = n
         /\ RowsIn(pr, i) = [j \in 1..n |-> pr[i + j].line.hex]
<1>0. Len(pr) \in Nat /\ i \in 1..Len(pr) BY OneMore
<1>1. ASSUME NEW k \in Nat, NEW l \in Nat, CountIn(pr, i, k), CountIn(pr, i, l), k < l PROVE FALSE
  <2>1. i + k + 1 \in i + 1..i + l BY <1>0, <1>1
  <2>2. RowIn(pr, i, i + k + 1) BY <1>1, <2>1 DEF CountIn
  <2>3. i + k # Len(pr) BY <1>0, <1>1 DEF CountIn
  <2> QED BY <1>1, <2>2, <2>3 DEF CountIn
<1>2. ASSUME NEW k \in Nat, CountIn(pr, i, k) PROVE k = n
  <2>1. ~(k < n) /\ ~(n < k) BY <1>1, <1>2
  <2> QED BY <2>1
<1>3. n \in 0..Len(pr) BY <1>0 DEF CountIn
<1>4. (CHOOSE k \in 0..Len(pr) : CountIn(pr, i, k)) = n
  <2>1. \E k \in 0..Len(pr) : CountIn(pr, i, k) BY <1>3
  <2> DEFINE c == CHOOSE k \in 0..Len(pr) : CountIn(pr, i, k)
  <2>2. c \in 0..Len(pr) /\ CountIn(pr, i, c) BY <2>1
  <2> HIDE DEF c
  <2> QED BY <1>0, <1>2, <2>2 DEF c
<1>5. RowsIn(pr, i) = [j \in 1..n |-> pr[i + j].line.hex] BY <1>4 DEF RowsIn
<1> QED BY <1>2, <1>5

\* The rows of a header when a line is read.
LEMMA LineAfter ==
  ASSUME NEW pr, Listed(pr), NEW x, NEW i \in DOMAIN pr, NEW n \in Nat, CountIn(pr, i, n)
  PROVE  LET row == x.line.head = 0 /\ x.line.hex # "" /\ x.stream = pr[i].stream
             more == Append(pr, x)
         IN /\ i + n = Len(pr) /\ row =>
                 CountIn(more, i, n + 1) /\ RowsIn(more, i) = Append(RowsIn(pr, i), x.line.hex)
            /\ ~(i + n = Len(pr) /\ row) => CountIn(more, i, n) /\ RowsIn(more, i) = RowsIn(pr, i)
<1> DEFINE row == x.line.head = 0 /\ x.line.hex # "" /\ x.stream = pr[i].stream
           more == Append(pr, x)
<1>0. /\ Len(pr) \in Nat /\ i \in 1..Len(pr) /\ Listed(more) /\ Len(more) = Len(pr) + 1
      /\ i \in DOMAIN more /\ more[i] = pr[i] /\ i + n <= Len(pr)
      /\ \A k \in 1..Len(pr) : more[k] = pr[k]
      /\ more[Len(pr) + 1] = x
  BY OneMore DEF CountIn
<1> HIDE DEF more
<1>1. \A j \in 1..Len(pr) : RowIn(more, i, j) = RowIn(pr, i, j) BY <1>0 DEF RowIn
<1>2. RowIn(more, i, Len(pr) + 1) = row BY <1>0 DEF RowIn
<1> HIDE DEF row
<1>3. \A j \in i + 1..i + n : j \in 1..Len(pr) /\ RowIn(more, i, j) BY <1>0, <1>1 DEF CountIn
<1>4. RowsIn(pr, i) = [j \in 1..n |-> pr[i + j].line.hex] BY OneCount
<1>5. CASE i + n = Len(pr) /\ row
  <2>1. CountIn(more, i, n + 1)
    <3>1. \A j \in i + 1..i + (n + 1) : j \in i + 1..i + n \/ j = Len(pr) + 1 BY <1>0, <1>5
    <3>2. \A j \in i + 1..i + (n + 1) : RowIn(more, i, j) BY <1>2, <1>3, <1>5, <3>1
    <3>3. i + (n + 1) = Len(more) BY <1>0, <1>5
    <3> QED BY <3>2, <3>3, <1>0 DEF CountIn
  <2>2. RowsIn(more, i) = [j \in 1..n + 1 |-> more[i + j].line.hex]
    <3>1. \A k \in Nat : CountIn(more, i, k) => RowsIn(more, i) = [j \in 1..k |-> more[i + j].line.hex]
      BY <1>0, OneCount
    <3>2. n + 1 \in Nat OBVIOUS
    <3> QED BY <2>1, <3>1, <3>2
  <2> DEFINE rows == [j \in 1..n |-> pr[i + j].line.hex]
  <2>3. rows \in Seq({pr[i + j].line.hex : j \in 1..n}) /\ Len(rows) = n BY DEF Seq
  <2>4. Listed(rows) BY <2>3 DEF Listed
  <2>5. \A j \in 1..n : more[i + j].line.hex = rows[j] BY <1>0
  <2>6. more[i + (n + 1)].line.hex = x.line.hex BY <1>0, <1>5
  <2> HIDE DEF rows
  <2> DEFINE a == Append(rows, x.line.hex)
             b == [j \in 1..n + 1 |-> more[i + j].line.hex]
  <2>7. /\ DOMAIN a = 1..n + 1 /\ \A j \in 1..n : a[j] = rows[j]
        /\ a[n + 1] = x.line.hex /\ Listed(a)
    BY <2>3, <2>4, OneMore
  <2>8. a = [j \in 1..n + 1 |-> a[j]]
    <3> HIDE DEF a
    <3>1. PICK S : a \in Seq(S) BY <2>7 DEF Listed
    <3> QED BY <2>7, <3>1
  <2> HIDE DEF a
  <2>9. \A j \in 1..n + 1 : a[j] = more[i + j].line.hex
    <3> TAKE j \in 1..n + 1
    <3>1. j \in 1..n \/ j = n + 1 OBVIOUS
    <3> QED BY <2>5, <2>6, <2>7, <3>1
  <2>10. a = b BY <2>8, <2>9
  <2> QED BY <1>4, <1>5, <2>1, <2>2, <2>10 DEF a, rows, more, row
<1>6. CASE ~(i + n = Len(pr) /\ row)
  <2>1. i + n # Len(more) BY <1>0
  <2>2. ~RowIn(more, i, i + n + 1)
    <3>1. CASE i + n = Len(pr) BY <1>2, <1>6, <3>1
    <3>2. CASE i + n # Len(pr)
      <4>1. Len(pr) \in Nat /\ i \in 1..Len(pr) /\ i + n <= Len(pr) BY <1>0
      <4>2. i + n + 1 \in 1..Len(pr)
        <5>1. \A l, k, h \in Nat : k \in 1..l /\ k + h <= l /\ k + h # l => k + h + 1 \in 1..l OBVIOUS
        <5>2. n \in Nat /\ i \in Nat BY <4>1
        <5> QED BY ONLY <3>2, <4>1, <5>1, <5>2, Zenon
      <4> QED BY <1>1, <3>2, <4>2 DEF CountIn
    <3> QED BY <3>1, <3>2
  <2>3. CountIn(more, i, n) BY <1>0, <1>3, <2>2 DEF CountIn
  <2>4. RowsIn(more, i) = [j \in 1..n |-> more[i + j].line.hex] BY <1>0, <2>3, OneCount
  <2>5. \A j \in 1..n : more[i + j].line.hex = pr[i + j].line.hex BY <1>0
  <2> QED BY <1>4, <1>6, <2>3, <2>4, <2>5 DEF more, row
<1> QED BY <1>5, <1>6 DEF more, row

\* A header whose rows reach the end is the last.
LEMMA LastGrows ==
  ASSUME NEW pr, Listed(pr), NEW i \in HeadersIn(pr), NEW j \in HeadersIn(pr),
         CountIn(pr, i, Len(pr) - i)
  PROVE  j <= i
<1> SUFFICES ASSUME i < j PROVE FALSE BY OneMore DEF HeadersIn
<1>1. Len(pr) \in Nat /\ i \in 1..Len(pr) /\ j \in 1..Len(pr) BY OneMore DEF HeadersIn
<1>2. j \in i + 1..i + (Len(pr) - i) BY <1>1
<1> QED BY <1>2 DEF CountIn, RowIn, HeadersIn

\* What is told when an event is.
LEMMA TellsMore ==
  ASSUME NEW pr, NEW W, W \subseteq Nat, NEW ev, Listed(ev), Tells(pr, W, ev), NEW x,
         NEW qr, \A i \in W : qr[i].line.head = pr[i].line.head /\ RowsIn(qr, i) = RowsIn(pr, i)
  PROVE  /\ Tells(qr, W, ev)
         /\ ~("rows" \in DOMAIN x /\ x.rows[1] = "text") => Tells(qr, W, Append(ev, x))
         /\ \A h \in Nat : /\ \A i \in W : i < h
                           /\ "rows" \in DOMAIN x /\ x.rows[1] = "text"
                           /\ x.slot = qr[h].line.head /\ x.rows = RowsIn(qr, h)
                           => Tells(qr, W \cup {h}, Append(ev, x))
<1> DEFINE more == Append(ev, x)
           N == Len(ev) + 1
<1>0. /\ Len(ev) \in Nat /\ N \in Nat /\ DOMAIN ev = 1..Len(ev) /\ DOMAIN more = 1..N
      /\ \A k \in 1..Len(ev) : more[k] = ev[k]
      /\ more[N] = x
  BY OneMore
<1>1. PICK f \in [W -> ToldIn(ev)] :
        /\ \A i, j \in W : i < j => f[i] < f[j]
        /\ \A k \in ToldIn(ev) : \E i \in W : f[i] = k
        /\ \A i \in W : ev[f[i]].slot = pr[i].line.head /\ ev[f[i]].rows = RowsIn(pr, i)
  BY DEF Tells
<1>2. Tells(qr, W, ev) BY <1>1 DEF Tells
<1> HIDE DEF more
<1>3. ToldIn(ev) \subseteq 1..Len(ev) BY <1>0 DEF ToldIn
<1>4. CASE ~("rows" \in DOMAIN x /\ x.rows[1] = "text")
  <2>1. ToldIn(more) = ToldIn(ev) BY <1>0, <1>4 DEF ToldIn
  <2>2. \A i \in W : f[i] \in 1..Len(ev) BY <1>3
  <2>3. \A i \in W : more[f[i]].slot = qr[i].line.head /\ more[f[i]].rows = RowsIn(qr, i)
    BY <1>0, <1>1, <2>2
  <2>4. Tells(qr, W, more) BY <1>1, <2>1, <2>3 DEF Tells
  <2> QED BY <1>2, <1>4, <2>4 DEF more
<1>5. CASE "rows" \in DOMAIN x /\ x.rows[1] = "text"
  <2> SUFFICES ASSUME NEW h \in Nat, \A i \in W : i < h, x.slot = qr[h].line.head, x.rows = RowsIn(qr, h)
               PROVE  Tells(qr, W \cup {h}, more)
    BY <1>2, <1>5 DEF more
  <2>1. ToldIn(more) = ToldIn(ev) \cup {N} BY <1>0, <1>5 DEF ToldIn
  <2>2. h \notin W OBVIOUS
  <2> DEFINE g == [i \in W \cup {h} |-> IF i = h THEN N ELSE f[i]]
  <2>3. g \in [W \cup {h} -> ToldIn(more)] BY <2>1
  <2>4. g[h] = N /\ \A i \in W : g[i] = f[i] /\ f[i] \in 1..Len(ev) BY <1>3, <2>2
  <2> HIDE DEF g
  <2>5. ASSUME NEW i \in W \cup {h}, NEW j \in W \cup {h}, i < j PROVE g[i] < g[j]
    <3>1. i \in W BY <2>5
    <3>2. CASE j \in W BY <1>1, <2>4, <2>5, <3>1, <3>2
    <3>3. CASE j = h BY <1>0, <2>4, <3>1, <3>3
    <3> QED BY <3>2, <3>3
  <2>6. \A k \in ToldIn(more) : \E i \in W \cup {h} : g[i] = k BY <1>1, <2>1, <2>4
  <2>7. ASSUME NEW i \in W \cup {h}
        PROVE  more[g[i]].slot = qr[i].line.head /\ more[g[i]].rows = RowsIn(qr, i)
    <3>1. CASE i = h BY <1>0, <2>4, <3>1
    <3>2. CASE i \in W BY <1>0, <1>1, <2>4, <3>2
    <3> QED BY <3>1, <3>2
  <2> QED BY <2>3, <2>5, <2>6, <2>7 DEF Tells
<1> QED BY <1>4, <1>5

\* An event that is no short message's.
SameTexts(pr, qr, W) == \A i \in W : qr[i].line.head = pr[i].line.head /\ RowsIn(qr, i) = RowsIn(pr, i)
NoText(x) == ~("rows" \in DOMAIN x /\ x.rows[1] = "text")

\* Such an event leaves what is told alone.
LEMMA TellsNoMore ==
  ASSUME NEW pr, NEW W, W \subseteq Nat, NEW ev, Listed(ev), Tells(pr, W, ev), NEW x,
         NEW qr, SameTexts(pr, qr, W), NoText(x)
  PROVE  Tells(qr, W, Append(ev, x))
<1> QED BY TellsMore DEF NoText, SameTexts

-----------------------------------------------------------------------------
(* The invariant: what is captured is the last header's rows so far, and   *)
(* what is told is the dumps that ended.                                   *)

\* The rows after a header may still become more.
Growing(pr, st, en, i) == ~en /\ pr[i].stream = st /\ CountIn(pr, i, Len(pr) - i)
TextAt(pr, i) == RowsIn(pr, i) # << >> /\ RowsIn(pr, i)[1] = "text"
WholeIn(pr, st, en) == {i \in HeadersIn(pr) : TextAt(pr, i) /\ ~Growing(pr, st, en, i)}

ReadOK(pr, st) ==
  /\ Listed(pr) /\ st \in Nat
  /\ \A i \in DOMAIN pr : pr[i].stream \in Nat /\ pr[i].stream <= st
  /\ \A i \in HeadersIn(pr) : \E n \in Nat : CountIn(pr, i, n)
CaptureOK(pr, st, en, c) ==
  /\ DOMAIN c = {"on", "slot", "rows", "mnis"} /\ c.on \in BOOLEAN
  /\ c.on => \E i \in HeadersIn(pr) : /\ Growing(pr, st, en, i)
                                      /\ c.slot = pr[i].line.head /\ c.rows = RowsIn(pr, i)
  /\ \A i \in HeadersIn(pr) : Growing(pr, st, en, i) => c.on
TextsOK(pr, st, en, c, ev) ==
  ReadOK(pr, st) /\ CaptureOK(pr, st, en, c) /\ Listed(ev) /\ Tells(pr, WholeIn(pr, st, en), ev)
TextsInv == TextsOK(printed, stream, ended, capture, events)

\* It gives the property.
LEMMA TextsAreTold == TextsInv => L!EveryTextIsTold
<1>1. \A i : L!RowsAfter(i) = RowsIn(printed, i)
  BY DEF L!RowsAfter, RowsIn, L!RowCount, CountIn, L!Row, RowIn
<1>2. \A i : L!Pending(i) <=> Growing(printed, stream, ended, i)
  BY DEF L!Pending, L!RowCount, CountIn, L!Row, RowIn, Growing
<1>3. L!Headers = HeadersIn(printed) /\ L!Told = ToldIn(events)
  BY DEF L!Headers, HeadersIn, L!Told, ToldIn
<1>4. L!Whole = WholeIn(printed, stream, ended) BY <1>1, <1>2, <1>3 DEF L!Whole, WholeIn, TextAt
<1> QED BY <1>1, <1>3, <1>4 DEF TextsInv, TextsOK, Tells, L!EveryTextIsTold

\* A line x read lets the rows of header i grow, if they may grow and it is one.
RowsGo(pr, st, x, more, i) ==
  LET row == x.line.head = 0 /\ x.line.hex # ""
  IN /\ \E n \in Nat : CountIn(more, i, n)
     /\ i \in HeadersIn(more) /\ more[i] = pr[i]
     /\ Growing(pr, st, FALSE, i) /\ row =>
          Growing(more, st, FALSE, i) /\ RowsIn(more, i) = Append(RowsIn(pr, i), x.line.hex)
     /\ ~(Growing(pr, st, FALSE, i) /\ row) =>
          ~Growing(more, st, FALSE, i) /\ RowsIn(more, i) = RowsIn(pr, i)

\* Every line read does that.
LEMMA OldRows ==
  ASSUME NEW pr, NEW st, ReadOK(pr, st), NEW x, x.stream = st, NEW i \in HeadersIn(pr)
  PROVE  RowsGo(pr, st, x, Append(pr, x), i)
<1> DEFINE row == x.line.head = 0 /\ x.line.hex # ""
           more == Append(pr, x)
<1>0. Listed(pr) /\ i \in DOMAIN pr BY DEF ReadOK, HeadersIn
<1>1. /\ Len(pr) \in Nat /\ i \in 1..Len(pr) /\ Listed(more) /\ Len(more) = Len(pr) + 1
      /\ i \in DOMAIN more /\ more[i] = pr[i]
  BY <1>0, OneMore
<1>2. i \in HeadersIn(more) BY <1>1 DEF HeadersIn
<1>3. PICK n \in Nat : CountIn(pr, i, n) BY DEF ReadOK
<1>4. /\ i + n = Len(pr) /\ row /\ x.stream = pr[i].stream =>
           CountIn(more, i, n + 1) /\ RowsIn(more, i) = Append(RowsIn(pr, i), x.line.hex)
      /\ ~(i + n = Len(pr) /\ row /\ x.stream = pr[i].stream) =>
           CountIn(more, i, n) /\ RowsIn(more, i) = RowsIn(pr, i)
  BY <1>0, <1>3, LineAfter
<1> HIDE DEF more, row
<1>5. i + n = Len(pr) <=> CountIn(pr, i, Len(pr) - i)
  <2>1. i + n = Len(pr) => n = Len(pr) - i BY <1>1
  <2>2. Len(pr) - i \in Nat BY <1>1
  <2>3. CountIn(pr, i, Len(pr) - i) => Len(pr) - i = n BY <1>0, <1>3, <2>2, OneCount
  <2> QED BY <1>1, <1>3, <2>1, <2>3
<1>6. ASSUME NEW k \in Nat, CountIn(more, i, k) PROVE i + k = Len(more) <=> CountIn(more, i, Len(more) - i)
  <2>1. i + k = Len(more) => k = Len(more) - i BY <1>1
  <2>2. Len(more) - i \in Nat BY <1>1
  <2>3. CountIn(more, i, Len(more) - i) => Len(more) - i = k BY <1>1, <1>6, <2>2, OneCount
  <2> QED BY <1>1, <1>6, <2>1, <2>3
<1>7. i + n <= Len(pr) BY <1>3 DEF CountIn
<1>8. CASE Growing(pr, st, FALSE, i) /\ row
  <2>1. i + n = Len(pr) /\ x.stream = pr[i].stream BY <1>5, <1>8 DEF Growing
  <2>2. n + 1 \in Nat /\ i + (n + 1) = Len(more) BY <1>1, <2>1
  <2>3. CountIn(more, i, n + 1) /\ RowsIn(more, i) = Append(RowsIn(pr, i), x.line.hex) BY <1>4, <1>8, <2>1
  <2>4. CountIn(more, i, Len(more) - i) BY <1>6, <2>2, <2>3
  <2>5. Growing(more, st, FALSE, i) BY <1>1, <2>1, <2>4 DEF Growing
  <2> QED BY <1>1, <1>2, <1>8, <2>2, <2>3, <2>5 DEF RowsGo, more, row
<1>9. CASE ~(Growing(pr, st, FALSE, i) /\ row)
  <2>1. ~(i + n = Len(pr) /\ row /\ x.stream = pr[i].stream) BY <1>5, <1>9 DEF Growing
  <2>2. CountIn(more, i, n) /\ RowsIn(more, i) = RowsIn(pr, i) BY <1>4, <2>1
  <2>3. i + n # Len(more) BY <1>1, <1>7
  <2>4. ~Growing(more, st, FALSE, i) BY <1>6, <2>2, <2>3 DEF Growing
  <2> QED BY <1>1, <1>2, <1>9, <2>2, <2>4 DEF RowsGo, more, row
<1> QED BY <1>8, <1>9

\* A dump that ends is told if it is a short message's.
LEMMA DumpEnds ==
  ASSUME NEW pr, NEW st, NEW c, NEW ev, TextsOK(pr, st, FALSE, c, ev), c.on,
         NEW n, n.on = c.on, n.slot = c.slot, n.rows = c.rows,
         NEW qr, \A i \in HeadersIn(pr) : qr[i].line.head = pr[i].line.head /\ RowsIn(qr, i) = RowsIn(pr, i)
  PROVE  Listed(ev \o L!Finish(n)) /\ Tells(qr, {i \in HeadersIn(pr) : TextAt(pr, i)}, ev \o L!Finish(n))
<1> DEFINE W == WholeIn(pr, st, FALSE)
           d == L!Finish(n)
           V == {i \in HeadersIn(pr) : TextAt(pr, i)}
<1>1. PICK h \in HeadersIn(pr) : /\ Growing(pr, st, FALSE, h)
                                 /\ c.slot = pr[h].line.head /\ c.rows = RowsIn(pr, h)
  BY DEF TextsOK, CaptureOK
<1>2. /\ Listed(pr) /\ Listed(ev) /\ Tells(pr, W, ev) BY DEF TextsOK, ReadOK
<1>3. \A i \in HeadersIn(pr) : i \in Nat BY <1>2, OneMore DEF HeadersIn
<1>4. W \subseteq Nat BY <1>3 DEF WholeIn
<1>5. \A i \in W : qr[i].line.head = pr[i].line.head /\ RowsIn(qr, i) = RowsIn(pr, i) BY DEF WholeIn
<1>6. \A i \in HeadersIn(pr) : Growing(pr, st, FALSE, i) => i = h
  <2> SUFFICES ASSUME NEW i \in HeadersIn(pr), Growing(pr, st, FALSE, i) PROVE i = h OBVIOUS
  <2>1. i <= h /\ h <= i BY <1>1, <1>2, LastGrows DEF Growing
  <2> QED BY <1>3, <2>1
<1>7. \A i \in W : i < h
  <2> SUFFICES ASSUME NEW i \in W PROVE i < h OBVIOUS
  <2>1. i \in HeadersIn(pr) /\ i # h BY <1>1 DEF WholeIn
  <2>2. i <= h BY <1>1, <1>2, <2>1, LastGrows DEF Growing
  <2> QED BY <1>3, <2>1, <2>2
<1>8. V = IF TextAt(pr, h) THEN W \cup {h} ELSE W BY <1>1, <1>6 DEF WholeIn
<1>9. d = << >> \/ \E x : /\ d = <<x>> /\ "rows" \in DOMAIN x /\ x.slot = c.slot
                           /\ x.rows = c.rows /\ c.rows # << >>
  <2> DEFINE x == [stream |-> stream, kind |-> "message", slot |-> n.slot, text |-> L!TextOfDump(n),
                   rows |-> n.rows]
  <2>1. d = << >> \/ (d = <<x>> /\ L!TextOfDump(n) # "") BY DEF L!Finish
  <2>2. L!TextOfDump(n) # "" => n.rows # << >> BY DEF L!TextOfDump
  <2>3. "rows" \in DOMAIN x /\ x.slot = c.slot /\ x.rows = c.rows OBVIOUS
  <2> HIDE DEF d, x
  <2> QED BY <2>1, <2>2, <2>3
<1>10. TextAt(pr, h) => d # << >>
  <2>1. TextAt(pr, h) => n.rows # << >> /\ n.rows[1] = "text" BY <1>1 DEF TextAt
  <2>2. TextAt(pr, h) => 1 \in DOMAIN n.rows
    <3>1. PICK k \in Nat : CountIn(pr, h, k) BY DEF TextsOK, ReadOK
    <3>2. RowsIn(pr, h) = [j \in 1..k |-> pr[h + j].line.hex]
      BY <1>2, <3>1, OneCount DEF HeadersIn
    <3>3. k = 0 => RowsIn(pr, h) = << >> BY <3>2
    <3>4. k # 0 => 1 \in 1..k OBVIOUS
    <3> QED BY <1>1, <3>2, <3>3, <3>4 DEF TextAt
  <2>3. TextAt(pr, h) => L!TextOfDump(n) # "" BY <2>1, <2>2 DEF L!TextOfDump, L!Readable, L!Mnis
  <2>4. n.on BY <1>1
  <2> QED BY <2>3, <2>4 DEF L!Finish
<1> HIDE DEF W, d, V
<1>11. CASE d = << >>
  <2>1. V = W /\ ev \o d = ev BY <1>2, <1>8, <1>10, <1>11, OneMore
  <2>2. Tells(qr, W, ev) BY <1>2, <1>4, <1>5, TellsMore
  <2> QED BY <1>2, <2>1, <2>2 DEF d, V
<1>12. CASE \E x : /\ d = <<x>> /\ "rows" \in DOMAIN x /\ x.slot = c.slot
                   /\ x.rows = c.rows /\ c.rows # << >>
  <2> PICK x : /\ d = <<x>> /\ "rows" \in DOMAIN x /\ x.slot = c.slot
               /\ x.rows = c.rows /\ c.rows # << >>
    BY <1>12
  <2>1. ev \o d = Append(ev, x) /\ Listed(Append(ev, x)) BY <1>2, OneMore
  <2>2. CASE TextAt(pr, h)
    <3>1. V = W \cup {h} BY <1>8, <2>2
    <3>2. x.rows[1] = "text" /\ x.slot = qr[h].line.head /\ x.rows = RowsIn(qr, h)
      BY <1>1, <2>2 DEF TextAt
    <3>3. h \in Nat BY <1>1, <1>3
    <3>4. Tells(qr, W \cup {h}, Append(ev, x)) BY <1>2, <1>4, <1>5, <1>7, <3>2, <3>3, TellsMore
    <3> QED BY <2>1, <3>1, <3>4 DEF d, V
  <2>3. CASE ~TextAt(pr, h)
    <3>1. V = W BY <1>8, <2>3
    <3>2. CASE x.rows[1] # "text"
      <4>1. NoText(x) BY <3>2 DEF NoText
      <4>2. SameTexts(pr, qr, W) BY <1>5 DEF SameTexts
      <4>3. Tells(qr, W, Append(ev, x)) BY <1>2, <1>4, <4>1, <4>2, TellsNoMore
      <4> QED BY <2>1, <3>1, <4>3 DEF d, V
    <3>3. CASE x.rows[1] = "text" BY <1>1, <2>3, <3>3 DEF TextAt
    <3> QED BY <3>2, <3>3
  <2> QED BY <2>2, <2>3
<1> QED BY <1>9, <1>11, <1>12

\* An event that is no dump's changes nothing of what is told.
LEMMA OtherEvent ==
  ASSUME NEW pr, NEW W, W \subseteq Nat, NEW ev, Listed(ev), Tells(pr, W, ev),
         NEW e, "rows" \notin DOMAIN e, NEW t, t \in {<< >>, <<e>>}
  PROVE  Listed(ev \o t) /\ Tells(pr, W, ev \o t)
<1>1. ev \o t = ev \/ ev \o t = Append(ev, e) BY OneMore
<1>2. Listed(Append(ev, e)) BY OneMore
<1>3. Tells(pr, W, Append(ev, e)) BY TellsMore
<1> QED BY <1>1, <1>2, <1>3

\* A line is read (feed): the invariant of the lines, the capture and the dumps told.
LEMMA LineTells ==
  ASSUME NEW pr, NEW st, NEW c, NEW ev, TextsOK(pr, st, FALSE, c, ev), NEW l, NEW x, x.stream = st, x.line = l
  PROVE  LET more == Append(pr, x)
         IN /\ ReadOK(more, st) /\ CaptureOK(more, st, FALSE, L!Fed(c, l))
            /\ Listed(ev \o L!Feed(c, l))
            /\ Tells(more, WholeIn(more, st, FALSE), ev \o L!Feed(c, l))
<1> DEFINE more == Append(pr, x)
           N == Len(pr) + 1
           n == L!Noted(c, l)
           row == x.line.head = 0 /\ x.line.hex # ""
<1>0. /\ Listed(pr) /\ ReadOK(pr, st) /\ CaptureOK(pr, st, FALSE, c)
      /\ Listed(ev) /\ Tells(pr, WholeIn(pr, st, FALSE), ev) /\ st \in Nat
  BY DEF TextsOK, ReadOK
<1>1. /\ Len(pr) \in Nat /\ Listed(more) /\ Len(more) = N /\ DOMAIN pr = 1..Len(pr)
      /\ DOMAIN more = 1..N /\ more[N] = x /\ \A k \in 1..Len(pr) : more[k] = pr[k]
  BY <1>0, OneMore
<1> HIDE DEF more
<1>2. \A i \in HeadersIn(pr) :
         /\ \E k \in Nat : CountIn(more, i, k)
         /\ i \in HeadersIn(more) /\ more[i] = pr[i]
         /\ Growing(pr, st, FALSE, i) /\ row =>
              Growing(more, st, FALSE, i) /\ RowsIn(more, i) = Append(RowsIn(pr, i), l.hex)
         /\ ~(Growing(pr, st, FALSE, i) /\ row) =>
              ~Growing(more, st, FALSE, i) /\ RowsIn(more, i) = RowsIn(pr, i)
  <2> SUFFICES ASSUME NEW i \in HeadersIn(pr) PROVE RowsGo(pr, st, x, more, i) BY DEF RowsGo
  <2> QED BY <1>0, OldRows DEF more
<1>3. HeadersIn(more) = IF l.head # 0 THEN HeadersIn(pr) \cup {N} ELSE HeadersIn(pr)
  BY <1>1 DEF HeadersIn
<1>4. N \notin HeadersIn(pr) BY <1>1 DEF HeadersIn
<1>5. l.head # 0 => CountIn(more, N, 0) /\ RowsIn(more, N) = << >> /\ Growing(more, st, FALSE, N)
  <2>1. CountIn(more, N, 0) /\ 0 = Len(more) - N
    <3>1. N + 0 <= Len(more) /\ N + 0 = Len(more) /\ N + 1..N + 0 = {} BY <1>1
    <3> QED BY <1>1, <3>1 DEF CountIn
  <2>2. N \in DOMAIN more /\ 0 \in Nat BY <1>1
  <2>3. RowsIn(more, N) = [j \in 1..0 |-> more[N + j].line.hex] BY <1>1, <2>1, <2>2, OneCount
  <2>4. RowsIn(more, N) = << >> BY <2>3
  <2>5. Growing(more, st, FALSE, N) BY <1>1, <2>1 DEF Growing
  <2> QED BY <2>1, <2>4, <2>5
<1>6. ReadOK(more, st)
  <2>1. \A i \in DOMAIN more : more[i].stream \in Nat /\ more[i].stream <= st
    <3> TAKE i \in DOMAIN more
    <3>1. CASE i \in 1..Len(pr) BY <1>0, <1>1, <3>1 DEF ReadOK
    <3>2. CASE i = N BY <1>0, <1>1, <3>2
    <3> QED BY <1>1, <3>1, <3>2
  <2>2. \A i \in HeadersIn(more) : \E k \in Nat : CountIn(more, i, k) BY <1>2, <1>3, <1>5
  <2> QED BY <1>0, <1>1, <2>1, <2>2 DEF ReadOK
<1>7. /\ DOMAIN n = {"on", "slot", "rows", "mnis"}
      /\ n.on = c.on /\ n.slot = c.slot /\ n.rows = c.rows /\ c.on \in BOOLEAN
  BY <1>0 DEF CaptureOK, L!Noted
<1> HIDE DEF n, N
<1>8. WholeIn(pr, st, FALSE) \subseteq Nat
  <2>1. DOMAIN pr \subseteq Nat BY <1>1
  <2> QED BY <2>1 DEF WholeIn, HeadersIn
<1>9. CASE c.on /\ row
  <2>1. l.head = 0 /\ l.hex # "" BY <1>9
  <2>2. L!Feed(c, l) = << >> BY <2>1 DEF L!Feed
  <2>3. L!Fed(c, l) = [n EXCEPT !.rows = Append(@, l.hex)] BY <1>7, <1>9, <2>1 DEF L!Fed, n
  <2>4. PICK h \in HeadersIn(pr) : /\ Growing(pr, st, FALSE, h)
                                   /\ c.slot = pr[h].line.head /\ c.rows = RowsIn(pr, h)
    BY <1>0, <1>9 DEF CaptureOK
  <2> DEFINE f == L!Fed(c, l)
  <2>5. /\ DOMAIN f = {"on", "slot", "rows", "mnis"} /\ f.on = TRUE
        /\ f.slot = c.slot /\ f.rows = Append(c.rows, l.hex)
    BY <1>7, <1>9, <2>3
  <2> HIDE DEF f
  <2>6. CaptureOK(more, st, FALSE, f) BY <1>2, <1>9, <2>4, <2>5 DEF CaptureOK
  <2>7. WholeIn(more, st, FALSE) = WholeIn(pr, st, FALSE)
    <3>1. HeadersIn(more) = HeadersIn(pr) BY <1>3, <2>1
    <3> QED BY <1>2, <1>9, <3>1 DEF WholeIn, TextAt
  <2>8. \A i \in WholeIn(pr, st, FALSE) :
           more[i].line.head = pr[i].line.head /\ RowsIn(more, i) = RowsIn(pr, i)
    BY <1>2 DEF WholeIn
  <2>9. Tells(more, WholeIn(pr, st, FALSE), ev) BY <1>0, <1>8, <2>8, TellsMore
  <2>10. ev \o << >> = ev BY <1>0, OneMore
  <2> QED BY <1>0, <1>6, <2>2, <2>6, <2>7, <2>9, <2>10 DEF f, more
<1>10. CASE ~(c.on /\ row)
  <2> DEFINE f == L!Fed(c, l)
             V == {i \in HeadersIn(pr) : TextAt(pr, i)}
  <2>1. \A i \in HeadersIn(pr) : /\ ~Growing(more, st, FALSE, i) /\ RowsIn(more, i) = RowsIn(pr, i)
                                 /\ more[i].line.head = pr[i].line.head
    BY <1>0, <1>2, <1>10 DEF CaptureOK
  <2>2. WholeIn(more, st, FALSE) = V
    <3>1. ~TextAt(more, N) \/ N \notin HeadersIn(more) BY <1>3, <1>4, <1>5 DEF TextAt
    <3> QED BY <1>3, <2>1, <3>1 DEF WholeIn, TextAt
  <2>3. CaptureOK(more, st, FALSE, f)
    <3>1. CASE l.head # 0
      <4>1. /\ DOMAIN f = {"on", "slot", "rows", "mnis"} /\ f.on = TRUE
            /\ f.slot = l.head /\ f.rows = << >>
        BY <1>7, <3>1 DEF L!Fed, L!AfterFinish, L!Idle, n
      <4> HIDE DEF f
      <4>2. N \in HeadersIn(more) /\ more[N].line.head = l.head BY <1>1, <1>3, <3>1
      <4> QED BY <1>5, <3>1, <4>1, <4>2 DEF CaptureOK
    <3>2. CASE l.head = 0
      <4>1. /\ DOMAIN f = {"on", "slot", "rows", "mnis"} /\ f.on = FALSE
        BY <1>7, <1>10, <3>2 DEF L!Fed, L!AfterFinish, L!Idle, n
      <4> HIDE DEF f
      <4>2. HeadersIn(more) = HeadersIn(pr) BY <1>3, <3>2
      <4> QED BY <2>1, <4>1, <4>2 DEF CaptureOK
    <3> QED BY <3>1, <3>2
  <2>4. Listed(ev \o L!Feed(c, l)) /\ Tells(more, V, ev \o L!Feed(c, l))
    <3>1. CASE c.on
      <4>1. L!Feed(c, l) = L!Finish(n) BY <1>7, <1>10, <3>1 DEF L!Feed, n
      <4> QED BY <1>7, <2>1, <3>1, <4>1, DumpEnds
    <3>2. CASE ~c.on
      <4>1. L!Feed(c, l) = << >> BY <1>7, <3>2 DEF L!Feed, L!Finish, n
      <4>2. WholeIn(pr, st, FALSE) = V BY <1>0, <3>2 DEF WholeIn, CaptureOK
      <4> HIDE DEF V
      <4>3. \A i \in WholeIn(pr, st, FALSE) :
               more[i].line.head = pr[i].line.head /\ RowsIn(more, i) = RowsIn(pr, i)
        BY <2>1 DEF WholeIn
      <4>4. Tells(more, WholeIn(pr, st, FALSE), ev) BY <1>0, <1>8, <4>3, TellsMore
      <4>5. ev \o << >> = ev BY <1>0, OneMore
      <4> QED BY <1>0, <4>1, <4>2, <4>4, <4>5
    <3> QED BY <3>1, <3>2
  <2> QED BY <1>6, <2>2, <2>3, <2>4 DEF f, more
<1> QED BY <1>9, <1>10

\* Every step of the lines keeps what is told (DmrPduTextCarry).
LEMMA TextsStep == TextsInv /\ L!Next => TextsInv'
<1> SUFFICES ASSUME TextsInv, L!Next PROVE TextsInv' OBVIOUS
<1>0. TextsOK(printed, stream, ended, capture, events) BY DEF TextsInv
<1> SUFFICES TextsOK(printed', stream', ended', capture', events') BY DEF TextsInv
<1>1. ASSUME NEW l \in Printed, L!ReadLine(l) PROVE TextsOK(printed', stream', ended', capture', events')
  <2> DEFINE dump == L!Feed(capture, l)
             c == L!Fed(capture, l)
             slot == IF dump = << >> THEN current ELSE L!SlotAfter(dump[1], current)
             raw == IF L!BinaryText(c, l) /\ L!KindOf(l) = "message"
                    THEN [L!Classified(l) EXCEPT !.kind = "unknown", !.text = ""] ELSE L!Classified(l)
             e == L!Stamped(raw, l, slot)
             t == IF e.kind # "unknown" THEN <<e>> ELSE << >>
             x == [stream |-> stream, line |-> l]
  <2>1. "rows" \notin DOMAIN e BY DEF L!Stamped, L!Classified
  <2>2. /\ ~ended /\ ended' = ended /\ stream' = stream /\ capture' = c
        /\ events' = (events \o dump) \o t /\ printed' = Append(printed, x)
    BY <1>1 DEF L!ReadLine
  <2> HIDE DEF e
  <2>3. t \in {<< >>, <<e>>} OBVIOUS
  <2>4. x.stream = stream /\ x.line = l OBVIOUS
  <2> HIDE DEF t, x, c, dump
  <2>5. ended = FALSE /\ ended' = FALSE BY <2>2
  <2>6. TextsOK(printed, stream, FALSE, capture, events) BY <1>0, <2>5
  <2>7. /\ ReadOK(printed', stream) /\ CaptureOK(printed', stream, FALSE, capture')
        /\ Listed(events \o dump) /\ Tells(printed', WholeIn(printed', stream, FALSE), events \o dump)
    BY <2>2, <2>4, <2>6, LineTells DEF c, dump
  <2>8. WholeIn(printed', stream, FALSE) \subseteq Nat
    <3>1. DOMAIN printed' \subseteq Nat BY <2>7, OneMore DEF ReadOK
    <3> QED BY <3>1 DEF WholeIn, HeadersIn
  <2>9. Listed(events') /\ Tells(printed', WholeIn(printed', stream, FALSE), events')
    BY <2>1, <2>2, <2>3, <2>7, <2>8, OtherEvent
  <2> QED BY <2>2, <2>5, <2>7, <2>9 DEF TextsOK
<1>2. CASE L!ReadEnd
  <2>1. /\ ended = FALSE /\ ended' = TRUE /\ events' = events \o L!Finish(capture)
        /\ capture' = L!AfterFinish(capture) /\ stream' = stream /\ printed' = printed
    BY <1>0, <1>2 DEF L!ReadEnd
  <2>2. \A i : ~Growing(printed, stream, TRUE, i) BY DEF Growing
  <2>3. WholeIn(printed, stream, TRUE) = {i \in HeadersIn(printed) : TextAt(printed, i)}
    BY <2>2 DEF WholeIn
  <2>4. ReadOK(printed, stream) /\ CaptureOK(printed, stream, FALSE, capture) /\ Listed(events)
        /\ Tells(printed, WholeIn(printed, stream, FALSE), events)
    BY <1>0, <2>1 DEF TextsOK
  <2>5. CaptureOK(printed, stream, TRUE, capture')
    <3>1. DOMAIN capture' = {"on", "slot", "rows", "mnis"} /\ capture'.on = FALSE
      BY <2>1, <2>4 DEF L!AfterFinish, L!Idle, CaptureOK
    <3> QED BY <2>2, <3>1 DEF CaptureOK
  <2>6. Listed(events') /\ Tells(printed, WholeIn(printed, stream, TRUE), events')
    <3>1. CASE capture.on BY <1>0, <2>1, <2>3, <3>1, DumpEnds
    <3>2. CASE ~capture.on
      <4>1. L!Finish(capture) = << >> BY <3>2 DEF L!Finish
      <4>2. events' = events BY <2>1, <2>4, <4>1, OneMore
      <4>3. WholeIn(printed, stream, FALSE) = WholeIn(printed, stream, TRUE)
        BY <2>2, <2>4, <3>2 DEF WholeIn, CaptureOK
      <4> QED BY <2>4, <4>2, <4>3
    <3> QED BY <3>1, <3>2
  <2> QED BY <2>1, <2>4, <2>5, <2>6 DEF TextsOK
<1>3. CASE L!StartAgain
  <2>1. /\ ended = TRUE /\ ended' = FALSE /\ stream' = stream + 1
        /\ printed' = printed /\ capture' = capture /\ events' = events
    BY <1>0, <1>3 DEF L!StartAgain
  <2>2. ReadOK(printed, stream) /\ CaptureOK(printed, stream, TRUE, capture) /\ Listed(events)
        /\ Tells(printed, WholeIn(printed, stream, TRUE), events)
    BY <1>0, <2>1 DEF TextsOK
  <2>3. \A i \in HeadersIn(printed) : ~Growing(printed, stream + 1, FALSE, i)
    BY <2>2 DEF ReadOK, Growing, HeadersIn
  <2>4. \A i : ~Growing(printed, stream, TRUE, i) BY DEF Growing
  <2>5. ReadOK(printed, stream + 1) BY <2>2 DEF ReadOK
  <2>6. CaptureOK(printed, stream + 1, FALSE, capture) BY <2>2, <2>3, <2>4 DEF CaptureOK
  <2>7. WholeIn(printed, stream + 1, FALSE) = WholeIn(printed, stream, TRUE) BY <2>3, <2>4 DEF WholeIn
  <2> QED BY <2>1, <2>2, <2>5, <2>6, <2>7 DEF TextsOK
<1>4. CASE L!HearLone \/ L!HearBoth
  <2>1. /\ ended' = ended /\ stream' = stream /\ printed' = printed /\ capture' = capture /\ events' = events
    BY <1>4 DEF L!HearLone, L!HearBoth
  <2> QED BY <1>0, <2>1
<1> QED BY <1>1, <1>2, <1>3, <1>4 DEF L!Next

\* Nothing is told before anything is read.
LEMMA TextsBegin == L!Init => TextsInv
<1> SUFFICES ASSUME L!Init PROVE TextsOK(printed, stream, ended, capture, events) BY DEF TextsInv
<1>1. /\ stream = 1 /\ ended = FALSE /\ printed = << >> /\ events = << >>
      /\ capture = [on |-> FALSE, slot |-> 0, rows |-> << >>, mnis |-> FALSE]
  BY DEF L!Init, L!Idle
<1>2. Listed(printed) /\ Listed(events) /\ DOMAIN printed = {} /\ DOMAIN events = {}
  <2>1. << >> \in Seq({}) /\ DOMAIN << >> = {} OBVIOUS
  <2> QED BY <1>1, <2>1 DEF Listed
<1>3. HeadersIn(printed) = {} /\ WholeIn(printed, stream, ended) = {} /\ ToldIn(events) = {}
  BY <1>2 DEF HeadersIn, WholeIn, ToldIn
<1>4. Tells(printed, {}, events)
  <2> DEFINE f == [i \in {} |-> 0]
  <2>1. f \in [{} -> ToldIn(events)] OBVIOUS
  <2> HIDE DEF f
  <2> QED BY <1>3, <2>1 DEF Tells
<1>5. ReadOK(printed, stream) BY <1>1, <1>2, <1>3 DEF ReadOK
<1>6. CaptureOK(printed, stream, ended, capture) BY <1>1, <1>3 DEF CaptureOK
<1> QED BY <1>2, <1>3, <1>4, <1>5, <1>6 DEF TextsOK

-----------------------------------------------------------------------------
(* The theorems: each decoder keeps its invariant when it is the one that  *)
(* runs.                                                                   *)

\* Whichever of the four runs keeps its own invariant.
PartInv ==
  /\ part = "dsd" => DsdInv
  /\ part = "pager" => PagerInv
  /\ part = "tetra" => TetraInv
  /\ part = "lines" => LinesInv /\ TextsInv

\* Whichever decoder runs, its invariant holds: its descriptors, its reader thread
\* and its lines are as the other threads and the kernel find them.
THEOREM PartsKeep == Spec => []PartInv
<1>1. Init => PartInv
  <2>1. L!Init => LinesInv BY DEF L!Init, LinesInv, L!AudioUnderVoicedSlot
  <2> QED BY <2>1, DsdBegins, PagerBegins, TetraBegins, TextsBegin DEF Init, PartInv
<1>2. PartInv /\ [Next]_vars => PartInv'
  <2> SUFFICES ASSUME PartInv, [Next]_vars PROVE PartInv' OBVIOUS
  <2>1. part' = part BY DEF Next, OfDsd, OfPager, OfTetra, OfLines, DRest, PRest, TRest, LRest, vars
  <2>2. ASSUME part = "dsd", DsdInv PROVE DsdInv'
    <3>1. D!Next \/ UNCHANGED D!vars
      BY <2>2 DEF Next, OfDsd, OfPager, OfTetra, OfLines, vars, D!vars, D!fds, D!kid, D!threads
    <3>2. UNCHANGED D!vars => DsdInv'
      BY <2>2 DEF D!vars, D!fds, D!kid, D!threads, DsdInv, D!TypeOK, DsdNumbers, DsdPlaces
    <3> QED BY <2>2, <3>1, <3>2, DsdStarts, DsdStops, DsdRuns DEF D!Next
  <2>3. ASSUME part = "pager", PagerInv PROVE PagerInv'
    <3>1. P!Next \/ UNCHANGED P!vars
      BY <2>3 DEF Next, OfDsd, OfPager, OfTetra, OfLines, vars, P!vars, P!pipes, P!flags
    <3>2. UNCHANGED P!vars => PagerInv'
      BY <2>3 DEF P!vars, P!pipes, P!flags, PagerInv, P!TypeOK, PagerLinesInOrder, PagerReader, PagerExit
    <3> QED BY <2>3, <3>1, <3>2, PagerStep
  <2>4. ASSUME part = "tetra", TetraInv PROVE TetraInv'
    <3>1. T!Next \/ UNCHANGED T!vars
      BY <2>4 DEF Next, OfDsd, OfPager, OfTetra, OfLines, vars, T!vars
    <3>2. UNCHANGED T!vars => TetraInv'
      BY <2>4 DEF T!vars, TetraInv, T!TypeOK, TetraNumbers, TetraPlaces, TetraTold, T!SpeechIsVoice
    <3> QED BY <2>4, <3>1, <3>2, TetraTypes, TetraKeeps, TetraTells DEF TetraInv
  <2>5. ASSUME part = "lines", LinesInv PROVE LinesInv'
    <3>1. L!Next \/ UNCHANGED L!vars
      BY <2>5 DEF Next, OfDsd, OfPager, OfTetra, OfLines, vars, L!vars
    <3>2. UNCHANGED L!vars => LinesInv'
      BY <2>5 DEF L!vars, LinesInv, L!AudioUnderVoicedSlot
    <3> QED BY <2>5, <3>1, <3>2, LinesStep
  <2>6. ASSUME part = "lines", TextsInv PROVE TextsInv'
    <3>1. L!Next \/ UNCHANGED L!vars
      BY <2>6 DEF Next, OfDsd, OfPager, OfTetra, OfLines, vars, L!vars
    <3>2. UNCHANGED L!vars => TextsInv' BY <2>6 DEF L!vars, TextsInv
    <3> QED BY <2>6, <3>1, <3>2, TextsStep
  <2> QED BY <2>1, <2>2, <2>3, <2>4, <2>5, <2>6 DEF PartInv
<1> QED BY <1>1, <1>2, PTL DEF Spec

\* Every page printed is delivered by the time stop() returns.
THEOREM PagesAreAlwaysTold == Spec => []PagesAreTold
<1>1. PartInv => PagesAreTold
  BY DEF PartInv, PagerInv, PagesAreTold, P!StopDelivered, P!ExitIsUnasked, PagerLinesInOrder, PagerReader,
         PagerExit, P!TypeOK
<1> QED BY <1>1, PartsKeep, PTL

\* Readers read, and stop() closes, what is the object's own; nothing is left.
THEOREM AlwaysOnlyItsOwn == Spec => []OnlyItsOwn
<1>1. PartInv => OnlyItsOwn
  <2> SUFFICES ASSUME PartInv PROVE OnlyItsOwn OBVIOUS
  <2>1. ASSUME part = "dsd"
        PROVE  D!TypeOK /\ D!ReadersReadTheirOwn /\ D!DescriptorsAreOwn /\ D!StoppedIsEmpty
    BY <2>1, NoFdAssumption
    DEF PartInv, DsdInv, D!TypeOK, DsdNumbers, DsdPlaces, D!ReadersReadTheirOwn, D!DescriptorsAreOwn,
        D!StoppedIsEmpty, D!Steps
  <2>2. ASSUME part = "tetra" PROVE T!TypeOK /\ T!ReaderIsServed /\ T!StoppedIsEmpty
    BY <2>2, NoFdAssumption
    DEF PartInv, TetraInv, T!TypeOK, TetraNumbers, TetraPlaces, T!ReaderIsServed, T!StoppedIsEmpty, T!Steps
  <2> QED BY <2>1, <2>2 DEF OnlyItsOwn
<1> QED BY <1>1, PartsKeep, PTL

\* Decoded audio is filed under a slot that has shown voice; TETRA speech is of a voice report.
THEOREM AudioIsAlwaysVoice == Spec => []AudioIsVoice
<1>1. PartInv => AudioIsVoice BY DEF PartInv, LinesInv, TetraInv, TetraTold, AudioIsVoice
<1> QED BY <1>1, PartsKeep, PTL

\* Every short message dsd-fme dumps is told once, whole, in order and with its slot
\* (the capture of a dump, its end at the next line or at the end of the stream).
THEOREM TextsAreAlwaysTold == Spec => []EveryTextIsTold
<1>1. PartInv => EveryTextIsTold BY TextsAreTold DEF PartInv, EveryTextIsTold
<1> QED BY <1>1, PartsKeep, PTL
=============================================================================
