------------------------------ MODULE Decoders ------------------------------
(***************************************************************************)
(* The decoders of a session, one at a time: which of DsdProcess,          *)
(* PagerProcess, TetraProcess and DsdLines (the text of DsdProcess) moves  *)
(* is chosen at the start.  A variable the chosen one has not stays 0.     *)
(***************************************************************************)
EXTENDS Integers, Sequences, FiniteSets

CONSTANTS
  Parts,
  Fds, NoFd, MaxStarts, MaxPrinted,           \* DsdProcess
  PagerLines, PipeLines,                      \* PagerProcess
  TetraFds, Datagrams, MaxSent,               \* TetraProcess
  Printed, LineLimit, MaxPackets, MaxStreams  \* DsdLines

\* -1 is no descriptor; the bounds are numbers.
ASSUME NoFdAssumption == NoFd \notin Fds \cup TetraFds
ASSUME BoundAssumption == {MaxStarts, MaxPrinted, PagerLines, PipeLines, MaxSent} \subseteq Nat

VARIABLES
  part,
  owner, stdin_fd, stdout_fd, udp_fd, running, child, sibling, pipe, stdout_thread, udp_thread,
  writer, pc, term, starts, stdin_open, stdout_open, printed, delivered, buf, reader, stopping,
  exits, died_alone, tetra, codec, out, sock, sig, voice, inbox, batch, sent, told, stream,
  ended, packets, voiced, current, capture, active_slot, events, filed

D == INSTANCE DsdProcess
P == INSTANCE PagerProcess WITH MaxLines <- PagerLines
T == INSTANCE TetraProcess WITH Fds <- TetraFds
L == INSTANCE DsdLines WITH MaxLines <- LineLimit

vars == <<part, owner, stdin_fd, stdout_fd, udp_fd, running, child, sibling, pipe, stdout_thread,
          udp_thread, writer, pc, term, starts, stdin_open, stdout_open, printed, delivered,
          buf, reader, stopping, exits, died_alone, tetra, codec, out, sock, sig, voice, inbox,
          batch, sent, told, stream, ended, packets, voiced, current, capture, active_slot,
          events, filed>>

DOnly ==
  stdin_open = 0 /\ stdout_open = 0 /\ printed = 0 /\ delivered = 0 /\ buf = 0 /\ reader = 0 /\
  stopping = 0 /\ exits = 0 /\ died_alone = 0 /\ tetra = 0 /\ codec = 0 /\ out = 0 /\ sock = 0
  /\ sig = 0 /\ voice = 0 /\ inbox = 0 /\ batch = 0 /\ sent = 0 /\ told = 0 /\ stream = 0 /\
  ended = 0 /\ packets = 0 /\ voiced = 0 /\ current = 0 /\ capture = 0 /\ active_slot = 0 /\
  events = 0 /\ filed = 0

DRest == <<part, stdin_open, stdout_open, printed, delivered, buf, reader, stopping, exits,
            died_alone, tetra, codec, out, sock, sig, voice, inbox, batch, sent, told, stream,
            ended, packets, voiced, current, capture, active_slot, events, filed>>

POnly ==
  owner = 0 /\ stdin_fd = 0 /\ stdout_fd = 0 /\ udp_fd = 0 /\ sibling = 0 /\ stdout_thread = 0
  /\ udp_thread = 0 /\ starts = 0 /\ tetra = 0 /\ codec = 0 /\ out = 0 /\ sock = 0 /\ sig = 0 /\
  voice = 0 /\ inbox = 0 /\ batch = 0 /\ sent = 0 /\ told = 0 /\ stream = 0 /\ ended = 0 /\
  packets = 0 /\ voiced = 0 /\ current = 0 /\ capture = 0 /\ active_slot = 0 /\ events = 0 /\
  filed = 0

PRest == <<part, owner, stdin_fd, stdout_fd, udp_fd, sibling, stdout_thread, udp_thread, starts,
            tetra, codec, out, sock, sig, voice, inbox, batch, sent, told, stream, ended,
            packets, voiced, current, capture, active_slot, events, filed>>

TOnly ==
  stdin_fd = 0 /\ stdout_fd = 0 /\ udp_fd = 0 /\ sibling = 0 /\ pipe = 0 /\ stdout_thread = 0 /\
  udp_thread = 0 /\ term = 0 /\ starts = 0 /\ stdin_open = 0 /\ stdout_open = 0 /\ printed = 0
  /\ delivered = 0 /\ buf = 0 /\ stopping = 0 /\ exits = 0 /\ died_alone = 0 /\ stream = 0 /\
  ended = 0 /\ packets = 0 /\ voiced = 0 /\ current = 0 /\ capture = 0 /\ active_slot = 0 /\
  events = 0 /\ filed = 0

TRest == <<part, stdin_fd, stdout_fd, udp_fd, sibling, pipe, stdout_thread, udp_thread, term, starts,
            stdin_open, stdout_open, printed, delivered, buf, stopping, exits, died_alone,
            stream, ended, packets, voiced, current, capture, active_slot, events, filed>>

LOnly ==
  owner = 0 /\ stdin_fd = 0 /\ stdout_fd = 0 /\ udp_fd = 0 /\ running = 0 /\ child = 0 /\
  sibling = 0 /\ pipe = 0 /\ stdout_thread = 0 /\ udp_thread = 0 /\ writer = 0 /\ pc = 0 /\ term
  = 0 /\ starts = 0 /\ stdin_open = 0 /\ stdout_open = 0 /\ delivered = 0 /\ buf = 0 /\ reader =
  0 /\ stopping = 0 /\ exits = 0 /\ died_alone = 0 /\ tetra = 0 /\ codec = 0 /\ out = 0 /\ sock
  = 0 /\ sig = 0 /\ voice = 0 /\ inbox = 0 /\ batch = 0 /\ sent = 0 /\ told = 0

LRest == <<part, owner, stdin_fd, stdout_fd, udp_fd, running, child, sibling, pipe, stdout_thread,
            udp_thread, writer, pc, term, starts, stdin_open, stdout_open, delivered, buf,
            reader, stopping, exits, died_alone, tetra, codec, out, sock, sig, voice, inbox,
            batch, sent, told>>

Init ==
  /\ part \in Parts
  /\ \/ part = "dsd" /\ D!Init /\ DOnly
     \/ part = "pager" /\ P!Init /\ POnly
     \/ part = "tetra" /\ T!Init /\ TOnly
     \/ part = "lines" /\ L!Init /\ LOnly

OfDsd(A) == part = "dsd" /\ A /\ UNCHANGED DRest
OfPager(A) == part = "pager" /\ A /\ UNCHANGED PRest
OfTetra(A) == part = "tetra" /\ A /\ UNCHANGED TRest
OfLines(A) == part = "lines" /\ A /\ UNCHANGED LRest

Next == OfDsd(D!Next) \/ OfPager(P!Next) \/ OfTetra(T!Next) \/ OfLines(L!Next)

Spec == Init /\ [][Next]_vars

\* Each decoder's own scheduling: its stop(), its reader threads, and a child that
\* dies of the signal it cannot ignore.
FairSpec ==
  /\ Spec
  /\ WF_vars(OfDsd(D!StopStep)) /\ WF_vars(OfDsd(D!StdoutReader))
  /\ WF_vars(OfDsd(D!UdpCheck \/ D!UdpShutDown)) /\ WF_vars(OfDsd(D!SiblingExecs))
  /\ WF_vars(OfDsd(D!ChildExits /\ term))
  /\ WF_vars(OfPager(P!StopStep)) /\ WF_vars(OfPager(P!Reader))
  /\ WF_vars(OfPager(P!ChildExits /\ term))
  /\ WF_vars(OfTetra(T!StopStep)) /\ WF_vars(OfTetra(T!Reader)) /\ WF_vars(OfTetra(T!Killed))

-----------------------------------------------------------------------------
\* The object's threads and stop() touch only what is the object's own: a reader
\* reads no descriptor that was closed under it, a second stop() closes none that
\* another session got meanwhile, and nothing is left after a stop() or after a
\* start() that failed (DsdProcess, TetraProcess).
OnlyItsOwn ==
  /\ part = "dsd" => D!TypeOK /\ D!ReadersReadTheirOwn /\ D!DescriptorsAreOwn /\ D!StoppedIsEmpty
  /\ part = "tetra" => T!TypeOK /\ T!ReaderIsServed /\ T!StoppedIsEmpty

\* By the time stop() returns every page multimon-ng printed is delivered, in
\* order, and on_exit_ is told only of a death nobody asked for (PagerProcess).
PagesAreTold == part = "pager" => P!TypeOK /\ P!StopDelivered /\ P!ExitIsUnasked

\* Decoded audio is never filed under a slot that has carried no voice (DsdLines),
\* and TETRA speech comes only from a report the client is told is voice.
AudioIsVoice ==
  /\ part = "lines" => L!AudioUnderVoicedSlot
  /\ part = "tetra" => T!SpeechIsVoice

\* Every short message dsd-fme dumps is told once, whole, with its slot.
EveryTextIsTold == part = "lines" => L!EveryTextIsTold

\* A decoder that dies on its own is reported.
DeathIsReported ==
  (part = "pager" /\ child = "zombie" /\ died_alone) ~> (part = "pager" /\ (exits = 1 \/ stopping))

\* stop() of each of the three returns.
StopReturns ==
  /\ (part = "dsd" /\ pc \in D!Steps) ~> (part = "dsd" /\ pc = "idle")
  /\ (part = "pager" /\ pc = "close_stdin") ~> (part = "pager" /\ pc = "stopped")
  /\ (part = "tetra" /\ pc = "output") ~> (part = "tetra" /\ pc = "stopped")
=============================================================================
