---------------------------- MODULE TetraProcess ----------------------------
(***************************************************************************)
(* The two TETRA backends of a session: TetraProcess (osmo tetra-rx, bits  *)
(* on its stdin, TETMON lines on a UDP socket) and TetraKitProcess         *)
(* (tetra-kit's decoder, bits and JSON reports both over UDP).  They share *)
(* their shape: a child, the descriptor bits go out on, the socket reports *)
(* come in on, and one reader thread.  A session makes a new object for    *)
(* every start.                                                            *)
(***************************************************************************)
EXTENDS Integers, Sequences, FiniteSets

CONSTANTS
  Fds,        \* descriptor numbers of the process
  NoFd,       \* -1
  Datagrams,  \* what a decoder sends: sequences of lines (see Kind and Speech)
  MaxSent     \* bound: datagrams the child sends

VARIABLES
  tetra,      \* "osmo" or "kit"
  codec,      \* make_tetra_voice_decoder() returns a decoder in this build
  owner,      \* what each number is open as; "other": another session's
  out,        \* stdin_fd_ / bits_fd_
  sock,       \* udp_fd_ / json_fd_
  running,    \* running_
  child,      \* "none", "alive", "zombie"
  sig,        \* the last signal sent to it: "none", "term", "kill"
  voice,      \* voice_: "none", "null" (no codec), "decoder"
  reader,     \* "none", "check", "recv", "lines", "done"
  inbox,      \* datagrams in the socket's buffer
  batch,      \* lines of the datagram the reader holds
  sent,       \* datagrams sent so far
  told,       \* what on_event_ and on_audio_ were given, in order
  writer,     \* the worker is in write_bits
  pc          \* where stop() is

vars == <<tetra, codec, owner, out, sock, running, child, sig, voice, reader, inbox, batch,
          sent, told, writer, pc>>

Steps == {"output", "shutdown", "wait", "reap", "join", "close"}

TypeOK ==
  /\ tetra \in {"osmo", "kit"} /\ {codec, running, writer} \subseteq BOOLEAN
  /\ owner \in [Fds -> {"free", "out", "sock", "other"}]
  /\ {out, sock} \subseteq Fds \cup {NoFd}
  /\ child \in {"none", "alive", "zombie"} /\ sig \in {"none", "term", "kill"}
  /\ voice \in {"none", "null", "decoder"}
  /\ reader \in {"none", "check", "recv", "lines", "done"}
  /\ pc \in {"new", "idle", "stopped"} \cup Steps
  /\ inbox \in Seq(Datagrams) /\ sent \in 0..MaxSent

Init ==
  /\ tetra \in {"osmo", "kit"} /\ codec \in BOOLEAN
  /\ owner = [f \in Fds |-> "free"] /\ out = NoFd /\ sock = NoFd
  /\ running = FALSE /\ child = "none" /\ sig = "none" /\ voice = "none"
  /\ reader = "none" /\ inbox = << >> /\ batch = << >> /\ sent = 0 /\ told = << >>
  /\ writer = FALSE /\ pc = "new"

-----------------------------------------------------------------------------
(* The reports.  TETMON names a function; tetra-kit a service and a PDU.   *)

\* classify_tetmon_line.
OsmoKind(r) ==
  IF ~r.valid THEN "unknown"
  ELSE IF r.says \cap {"DSETUPDEC", "DCONNECTDEC", "DRELEASEDEC", "DTXGRANTDEC"} # {} THEN "call"
  ELSE IF r.says \cap {"NETINFO1", "FREQINFO1", "FREQINFO2"} # {} THEN "sync"
  ELSE "unknown"

\* classify_tetrakit_json: service and PDU in any case.
KitKind(r) ==
  IF ~r.valid THEN "unknown"
  ELSE IF r.says \cap {"UPLANE", "uplane", "U-PLANE", "TCH"} # {} THEN "voice"
  ELSE IF r.says \cap {"SYNC", "BSCH"} # {} THEN "sync"
  ELSE IF r.says \cap {"SETUP", "CONNECT", "TX-", "RELEASE"} # {} THEN "call"
  ELSE "unknown"

Kind(r) == IF tetra = "osmo" THEN OsmoKind(r) ELSE KitKind(r)

\* tetrakit_extract_speech_frame: a traffic report (its service in capitals only)
\* whose frame decodes and inflates.
Speech(r) == r.valid /\ r.frame = "good" /\ r.says \cap {"UPLANE", "TCH"} # {}

-----------------------------------------------------------------------------
(* start(): any step of it may fail, and undoes the ones before.           *)

Free == {f \in Fds : owner[f] = "free"}

\* No pipe, no socket, no port, no fork, or exec fails: the session drops the object.
StartFails ==
  /\ pc = "new" /\ pc' = "stopped"
  /\ UNCHANGED <<tetra, codec, owner, out, sock, running, child, sig, voice, reader, inbox,
                 batch, sent, told, writer>>

StartOk ==
  /\ pc = "new" /\ pc' = "idle"
  /\ \E o, s \in Free :
       /\ o # s
       /\ out' = o /\ sock' = s
       /\ owner' = [owner EXCEPT ![o] = "out", ![s] = "sock"]
  /\ child' = "alive"
  /\ voice' = IF tetra = "osmo" THEN "none" ELSE IF codec THEN "decoder" ELSE "null"
  /\ running' = TRUE /\ reader' = "check"
  /\ UNCHANGED <<tetra, codec, sig, inbox, batch, sent, told, writer>>

-----------------------------------------------------------------------------
(* write_bits(), on the session's worker.  tetra-rx may leave its stdin    *)
(* unread; a datagram never waits.                                         *)

WriteBegin ==
  /\ pc = "idle" /\ ~writer /\ out # NoFd
  /\ writer' = TRUE
  /\ UNCHANGED <<tetra, codec, owner, out, sock, running, child, sig, voice, reader, inbox, batch,
                 sent, told, pc>>

WriteEnd ==
  /\ writer
  /\ writer' = FALSE
  /\ UNCHANGED <<tetra, codec, owner, out, sock, running, child, sig, voice, reader, inbox, batch,
                 sent, told, pc>>

-----------------------------------------------------------------------------
(* stop().                                                                 *)

Goto(from, to) == pc = from /\ pc' = to

Stop ==
  /\ Goto("idle", "output") /\ ~writer
  /\ running' = FALSE
  /\ UNCHANGED <<tetra, codec, owner, out, sock, child, sig, voice, reader, inbox, batch, sent,
                 told, writer>>

\* tetra-rx's stdin is closed; tetra-kit's decoder, which has none, gets SIGTERM.
StopOutput ==
  /\ Goto("output", "shutdown")
  /\ IF tetra = "osmo"
     THEN owner' = [owner EXCEPT ![out] = "free"] /\ out' = NoFd /\ UNCHANGED sig
     ELSE sig' = "term" /\ UNCHANGED <<owner, out>>
  /\ UNCHANGED <<tetra, codec, sock, running, child, voice, reader, inbox, batch, sent, told,
                 writer>>

\* shutdown() of the socket wakes recv().
StopShutdown ==
  /\ Goto("shutdown", "wait")
  /\ UNCHANGED <<tetra, codec, owner, out, sock, running, child, sig, voice, reader, inbox, batch,
                 sent, told, writer>>

\* waitpid(WNOHANG) up to 20 times, and the blocking one after the signal.
StopReaped ==
  /\ pc \in {"wait", "reap"} /\ child = "zombie"
  /\ child' = "none" /\ pc' = "join"
  /\ UNCHANGED <<tetra, codec, owner, out, sock, running, sig, voice, reader, inbox, batch, sent,
                 told, writer>>

\* Fault: the signal tetra-kit's decoder has had already is sent again.
StopSignalTerm ==
  /\ Goto("wait", "reap")
  /\ sig' = "term"
  /\ UNCHANGED <<tetra, codec, owner, out, sock, running, child, voice, reader, inbox, batch, sent,
                 told, writer>>

\* A second has passed.
StopSignal ==
  /\ Goto("wait", "reap")
  /\ sig' = IF tetra = "osmo" THEN "term" ELSE "kill"
  /\ UNCHANGED <<tetra, codec, owner, out, sock, running, child, voice, reader, inbox, batch, sent,
                 told, writer>>

StopJoin ==
  /\ Goto("join", "close") /\ reader = "done"
  /\ reader' = "none"
  /\ UNCHANGED <<tetra, codec, owner, out, sock, running, child, sig, voice, inbox, batch, sent,
                 told, writer>>

StopClose ==
  /\ Goto("close", "stopped")
  /\ owner' = [f \in Fds |-> IF f \in {out, sock} THEN "free" ELSE owner[f]]
  /\ out' = NoFd /\ sock' = NoFd /\ voice' = "none"
  /\ UNCHANGED <<tetra, codec, running, child, sig, reader, inbox, batch, sent, told, writer>>

-----------------------------------------------------------------------------
(* udp_reader_loop / json_reader_loop.                                     *)

Check ==
  /\ reader = "check"
  /\ reader' = IF running THEN "recv" ELSE "done"
  /\ UNCHANGED <<tetra, codec, owner, out, sock, running, child, sig, voice, inbox, batch, sent,
                 told, writer, pc>>

Recv ==
  /\ reader = "recv" /\ inbox # << >>
  /\ batch' = Head(inbox) /\ inbox' = Tail(inbox)
  /\ reader' = "lines"
  /\ UNCHANGED <<tetra, codec, owner, out, sock, running, child, sig, voice, sent, told, writer, pc>>

RecvShutDown ==
  /\ reader = "recv" /\ pc \in Steps \ {"output", "shutdown"}
  /\ reader' = "done"
  /\ UNCHANGED <<tetra, codec, owner, out, sock, running, child, sig, voice, inbox, batch, sent,
                 told, writer, pc>>

\* One line of the datagram: its event, unless unknown, then its speech.
Line ==
  /\ reader = "lines" /\ batch # << >>
  /\ LET r == Head(batch)
         event == IF Kind(r) # "unknown" THEN <<[what |-> "event", line |-> r]>> ELSE << >>
         audio == IF voice = "decoder" /\ Speech(r) THEN <<[what |-> "audio", line |-> r]>>
                  ELSE << >>
     IN told' = told \o event \o audio
  /\ batch' = Tail(batch)
  /\ UNCHANGED <<tetra, codec, owner, out, sock, running, child, sig, voice, reader, inbox, sent,
                 writer, pc>>

LinesDone ==
  /\ reader = "lines" /\ batch = << >>
  /\ reader' = "check"
  /\ UNCHANGED <<tetra, codec, owner, out, sock, running, child, sig, voice, inbox, batch, sent,
                 told, writer, pc>>

-----------------------------------------------------------------------------
(* The child, and the other sessions of the process.                       *)

\* One that finds the buffer full is lost.
ChildSends ==
  /\ child = "alive" /\ sent < MaxSent
  /\ sent' = sent + 1
  /\ \E d \in Datagrams : inbox' \in {Append(inbox, d), inbox}
  /\ UNCHANGED <<tetra, codec, owner, out, sock, running, child, sig, voice, reader, batch, told,
                 writer, pc>>

\* It may crash at any time; a signal or the end of its input ends it.
ChildExits ==
  /\ child = "alive"
  /\ child' = "zombie"
  /\ UNCHANGED <<tetra, codec, owner, out, sock, running, sig, voice, reader, inbox, batch, sent,
                 told, writer, pc>>

OtherOpens(f) ==
  /\ owner[f] = "free"
  /\ owner' = [owner EXCEPT ![f] = "other"]
  /\ UNCHANGED <<tetra, codec, out, sock, running, child, sig, voice, reader, inbox, batch, sent,
                 told, writer, pc>>

OtherCloses(f) ==
  /\ owner[f] = "other"
  /\ owner' = [owner EXCEPT ![f] = "free"]
  /\ UNCHANGED <<tetra, codec, out, sock, running, child, sig, voice, reader, inbox, batch, sent,
                 told, writer, pc>>

-----------------------------------------------------------------------------
StopStep == StopOutput \/ StopShutdown \/ StopReaped \/ StopSignal \/ StopJoin \/ StopClose
Reader == Check \/ Recv \/ RecvShutDown \/ Line \/ LinesDone

Next == StartFails \/ StartOk \/ Stop \/ StopStep \/ WriteBegin \/ WriteEnd \/ Reader
        \/ ChildSends \/ ChildExits \/ \E f \in Fds : OtherOpens(f) \/ OtherCloses(f)

\* SIGTERM ends tetra-rx; tetra-kit's decoder may ignore it, and nothing ignores
\* SIGKILL.
Killed == ChildExits /\ sig \in (IF tetra = "osmo" THEN {"term", "kill"} ELSE {"kill"})

-----------------------------------------------------------------------------
(* Properties.                                                             *)

\* While the reader thread lives, the socket it receives on and the speech decoder
\* it uses are its own: stop() joins it before it closes and resets them.
ReaderIsServed ==
  reader \in {"check", "recv", "lines"} =>
    /\ sock # NoFd /\ owner[sock] = "sock"
    /\ tetra = "kit" => voice # "none"

\* An object that was stopped, or whose start failed, has no child or thread, and
\* nothing of it is open ("child reaped, everything undone").
StoppedIsEmpty ==
  pc = "stopped" => /\ child = "none" /\ reader = "none" /\ voice = "none"
                    /\ \A f \in Fds : owner[f] \in {"free", "other"}

\* Speech is only what the client was told is voice: the frame extraction, which
\* reads the report by rules of its own, never takes a report classified as
\* something else.
SpeechIsVoice ==
  \A i \in DOMAIN told :
    told[i].what = "audio" =>
      /\ i > 1 /\ told[i - 1] = [what |-> "event", line |-> told[i].line]
      /\ KitKind(told[i].line) = "voice"

\* stop() returns.
StopReturns == (pc = "output") ~> (pc = "stopped")
=============================================================================
