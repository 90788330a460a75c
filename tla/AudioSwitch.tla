---------------------------- MODULE AudioSwitch ----------------------------
(***************************************************************************)
(* The explorer's Audio switch and the settings file that remembers it     *)
(* (session.cpp, /net/audio/on and off, remember_net_setting, and the      *)
(* server's start).  A request changes the model under the model's lock    *)
(* and then the file under another, so two requests can cross.             *)
(***************************************************************************)
EXTENDS Naturals, FiniteSets

CONSTANTS
  Requests,    \* the requests of the instance
  Env,         \* DSD_NET_AUDIO: "on", "off", or "" when unset
  MaxRestarts  \* bound

VARIABLES
  on,          \* the store is on
  setting,     \* the file: "on", "off", or "" when nothing is remembered
  req,         \* what each request asks and how far it is
  choice,      \* history: the last choice that took effect
  crossed,     \* history: the last writes were of requests that overlapped
  failed,      \* history: the last write of the file failed
  restarts

vars == <<on, setting, req, choice, crossed, failed, restarts>>

Waiting(r) == req[r].at = "write"
InFlight == {r \in Requests : Waiting(r)}
Word(b) == IF b THEN "on" ELSE "off"

\* start_audio or stop_audio.  A folder that cannot be used leaves the switch
\* off, and is not remembered.
Apply(r) ==
  /\ req[r].at = "sent"
  /\ \E ask, works \in BOOLEAN :
       LET ok == works \/ ~ask
       IN /\ on' = IF ok THEN ask ELSE on
          /\ choice' = IF ok THEN Word(ask) ELSE choice
          /\ req' = [req EXCEPT ![r] = [at |-> IF ok THEN "write" ELSE "done", ask |-> ask]]
          /\ crossed' = IF ok THEN InFlight # {} ELSE crossed
  /\ UNCHANGED <<setting, failed, restarts>>

\* Fault: a choice is remembered only when it is to record.
RememberOn(r) ==
  /\ req[r].at = "write"
  /\ setting' = IF req[r].ask THEN "on" ELSE setting
  /\ failed' = FALSE
  /\ req' = [req EXCEPT ![r].at = "done"]
  /\ UNCHANGED <<on, choice, crossed, restarts>>
Remember(r) ==
  /\ req[r].at = "write"
  /\ \E result \in {Word(req[r].ask), setting, ""} :     \* written, left as it was, or cut off
       /\ setting' = result
       /\ failed' = (result # Word(req[r].ask))
  /\ req' = [req EXCEPT ![r].at = "done"]
  /\ UNCHANGED <<on, choice, crossed, restarts>>

\* The server starts: the variable decides, else what is remembered.
Restart ==
  /\ restarts < MaxRestarts /\ restarts' = restarts + 1
  /\ LET start == IF Env = "" THEN setting = "on" ELSE Env = "on"
     IN \E works \in BOOLEAN : on' = (start /\ works)
  /\ req' = [r \in Requests |-> IF req[r].at = "write" THEN [req[r] EXCEPT !.at = "done"] ELSE req[r]]
  /\ crossed' = (crossed \/ InFlight # {})
  /\ UNCHANGED <<setting, choice, failed>>

Init ==
  /\ on = (Env = "on") /\ setting = "" /\ choice = "" /\ crossed = FALSE /\ failed = FALSE /\ restarts = 0
  /\ req = [r \in Requests |-> [at |-> "sent", ask |-> FALSE]]

Next == (\E r \in Requests : Apply(r) \/ Remember(r)) \/ Restart
Spec == Init /\ [][Next]_vars

----------------------------------------------------------------------------
\* The choice a restart finds is the last one that took effect, unless it
\* could not be written or requests (or a crash) came between change and write.
ChoiceIsRemembered == InFlight = {} /\ ~crossed /\ ~failed => setting = choice
=============================================================================
