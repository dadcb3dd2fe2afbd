-------------------------------- MODULE Command --------------------------------
(***************************************************************************)
(* src/cli.ts and src/cli/managed-postgres.ts: a command that runs a       *)
(* scenario, by itself or against a PostgreSQL container it starts for the *)
(* purpose and removes again, while signals arrive and its output breaks.  *)
(* The run is Supervision's; the container's life surrounds it.            *)
(***************************************************************************)
EXTENDS Supervision

VARIABLES
  phase,     \* "info", "create", "verify", "start", "wait", "use", "inspect", "remove", "recheck" or "over"
  managed,   \* --docker
  container, \* what Docker holds under the name: "none", "foreign" or a state of ours
  order,     \* docker create: "none", "sent", "created", "refused" or "late"
  known,     \* the container's identity was verified
  failed,    \* the command failed
  unclean,   \* the container's removal failed or could not be verified
  stop,      \* "none", standard "output" failed, or a stop "signal" arrived
  exit       \* process.exitCode, None until it is set

docker == <<phase, managed, container, order, known, failed, unclean>>
ends   == <<stop, exit>>
vars   == <<owned, run, docker, ends>>

None == -1
Signalled == 130

Ours == {"created", "starting", "ready"}

Init ==
  /\ DatabaseInit /\ RunInit
  /\ managed \in BOOLEAN
  /\ phase = IF managed THEN "info" ELSE "use"
  /\ container \in IF managed THEN {"none", "foreign"} ELSE {"none"}
  /\ order = "none" /\ known = FALSE /\ failed = FALSE /\ unclean = FALSE
  /\ stop = "none" /\ exit = None

Docker == UNCHANGED <<owned, run, managed, ends>>

(* An error before the try block ends the command, one inside it leads to  *)
(* cleanup().                                                              *)
Fail == failed' = TRUE /\ phase' = "inspect"

Info ==
  /\ phase = "info"
  /\ \/ /\ aborted \/ Unreliable
        /\ failed' = TRUE /\ phase' = "over" /\ UNCHANGED order
     \/ /\ ~aborted /\ phase' = "create" /\ order' = "sent" /\ UNCHANGED failed
  /\ UNCHANGED <<container, known, unclean>> /\ Docker

(* The Docker engine, whether or not the command still waits for it. *)
EngineCreates ==
  /\ order = "sent"
  /\ \/ /\ container = "none" /\ container' = "created"
        /\ order' = IF phase \in {"create", "inspect"} THEN "created" ELSE "late"
     \/ /\ container # "none" \/ Unreliable
        /\ order' = "refused" /\ UNCHANGED container
  /\ UNCHANGED <<phase, known, failed, unclean>> /\ Docker

CreateReturns ==
  /\ phase = "create"
  /\ \/ order = "created" /\ phase' = "verify" /\ order' = "none" /\ UNCHANGED failed
     \/ order = "refused" /\ Fail /\ UNCHANGED order
     \/ Unreliable /\ Fail /\ order' \in IF order = "sent" THEN {"sent", "refused"} ELSE {order}
  /\ UNCHANGED <<container, known, unclean>> /\ Docker

(* Mutation: a container of that name is this command's. *)
FoundByName == container # "none"

(* inspect() finds the container by its identity or its exact name, and    *)
(* refuses one that does not carry this command's label.                   *)
Found == container \in Ours

Verify ==
  /\ phase = "verify"
  /\ \/ /\ Found /\ known' = TRUE
        /\ IF aborted THEN Fail ELSE phase' = "start" /\ UNCHANGED failed
     \/ /\ ~Found \/ Unreliable
        /\ Fail /\ UNCHANGED known
  /\ UNCHANGED <<container, order, unclean>> /\ Docker

StartServer ==
  /\ phase = "start"
  /\ \/ container = "created" /\ container' = "starting" /\ phase' = "wait" /\ UNCHANGED failed
     \/ Unreliable /\ container' \in {container, "starting"} /\ Fail
  /\ UNCHANGED <<order, known, unclean>> /\ Docker

ServerRuns ==
  /\ container = "starting" /\ container' = "ready"
  /\ UNCHANGED <<phase, order, known, failed, unclean>> /\ Docker

(* The readiness loop: its log line and a probe, or the end of 90 seconds. *)
GiveUp ==
  /\ phase = "wait" /\ Fail
  /\ UNCHANGED <<container, order, known, unclean>> /\ Docker

Ready ==
  /\ phase = "wait" /\ container = "ready" /\ ~aborted
  /\ phase' = "use"
  /\ UNCHANGED <<container, order, known, failed, unclean>> /\ Docker

RunScenario ==
  /\ phase = "use" /\ Begin
  /\ UNCHANGED <<docker, ends>>

(* Mutation: an aborted command does not wait for its run. *)
UsedWhenAborted == pc = "done" \/ aborted

Used == pc = "done"

(* executeDatabase() returns a result, or throws: no record fits, or the   *)
(* artifact cannot be written.                                             *)
UseReturns ==
  /\ phase = "use" /\ Used
  /\ phase' = IF managed THEN "inspect" ELSE "over"
  /\ failed' \in {FALSE, Unreliable}
  /\ UNCHANGED <<container, order, known, unclean>> /\ Docker

(* Mutation: cleanup looks for the identity that create returned. *)
LooksForId == known

(* id ?? name: the proposed name when the reply was lost. *)
LooksFor == TRUE

Inspect ==
  /\ phase = "inspect"
  /\ \/ (container = "none" \/ ~LooksFor) /\ phase' = "over" /\ UNCHANGED unclean
     \/ LooksFor /\ Found /\ phase' = "remove" /\ UNCHANGED unclean
     \/ /\ container = "foreign" \/ Unreliable
        /\ unclean' = TRUE /\ phase' = "over"
  /\ UNCHANGED <<container, order, known, failed>> /\ Docker

Remove ==
  /\ phase = "remove"
  /\ \/ /\ container' \in {"none"} \union (IF Unreliable THEN {container} ELSE {})
        /\ phase' = "recheck" /\ UNCHANGED unclean
     \/ /\ Unreliable /\ container' \in {"none", container}
        /\ unclean' = TRUE /\ phase' = "over"
  /\ UNCHANGED <<order, known, failed>> /\ Docker

Absent == container = "none"

Recheck ==
  /\ phase = "recheck" /\ phase' = "over"
  /\ \/ Absent /\ UNCHANGED unclean
     \/ (~Absent \/ Unreliable) /\ unclean' = TRUE
  /\ UNCHANGED <<container, order, known, failed>> /\ Docker

Managed ==
  \/ Info \/ CreateReturns \/ Verify \/ StartServer \/ Ready \/ GiveUp
  \/ UseReturns \/ Inspect \/ Remove \/ Recheck

-----------------------------------------------------------------------------
(***************************************************************************)
(* The process: signals, broken output and the exit status.                *)
(***************************************************************************)
Halt == IF aborted THEN UNCHANGED <<run, owned>> ELSE Abort

Signals ==
  /\ exit = None /\ stop # "signal" /\ stop' = "signal"
  /\ Halt /\ UNCHANGED <<docker, exit>>

(* A pipe may fail after write() returned, even when the command is over.  *)
OutputFails ==
  /\ stop = "none" /\ stop' = "output"
  /\ exit' = IF exit = None THEN None ELSE 2
  /\ Halt /\ UNCHANGED docker

(* runExitCode(). *)
RunCode ==
  IF ~cleanup THEN 2
  ELSE CASE outcome = "passed" -> 0
         [] outcome = "violation" -> 1
         [] outcome \in HardOutcome -> 2
         [] outcome = "incompatible" -> 3
         [] outcome = "inconclusive" -> 4

(* Mutation: the failure of a managed server is the run's own status. *)
RunCodeAnyhow ==
  IF stop = "signal" THEN Signalled ELSE IF stop = "output" \/ pc # "done" THEN 2 ELSE RunCode

ExitCode ==
  IF stop = "signal" THEN Signalled ELSE IF stop = "output" \/ failed \/ unclean THEN 2 ELSE RunCode

Exit ==
  /\ phase = "over" /\ exit = None
  /\ exit' = ExitCode
  /\ UNCHANGED <<owned, run, docker, stop>>

Process == UNCHANGED <<docker, ends>>

Running ==
  /\ Parent \/ Timers \/ TimePasses \/ SourcesChange \/ Acts \/ Server
  /\ Process

Next ==
  \/ Managed \/ RunScenario \/ EngineCreates \/ ServerRuns
  \/ Running \/ Signals \/ OutputFails \/ Exit

(* What the command itself does next it does: every wait on PostgreSQL,    *)
(* Docker, a source capture or a timer is bounded.  Nothing is promised of *)
(* the worker but that it dies of SIGKILL.                                 *)
Fairness ==
  /\ WF_vars(Managed) /\ WF_vars(RunScenario) /\ WF_vars(Exit)
  /\ WF_vars(Parent /\ Process) /\ WF_vars(Timers /\ Process)
  /\ WF_vars(TimePasses /\ Process)

Spec == Init /\ [][Next]_vars /\ Fairness

-----------------------------------------------------------------------------
TypeOK ==
  /\ RunTypeOK
  /\ container \in Ours \union {"none", "foreign"}
  /\ exit \in {None, 0, 1, 2, 3, 4, Signalled}
  /\ known => managed
  /\ pc \notin {"idle", "done"} => phase = "use"

(* A database or a container that had the generated name before is never   *)
(* used or removed, whatever reply was lost (database.ts:253).             *)
NothingForeignTouched ==
  [][/\ database = "foreign" => database' = "foreign"
     /\ container = "foreign" => container' = "foreign"]_vars

(* The worker and what it left in its process group are gone before their  *)
(* database is dropped, however the worker ended; and the server stays     *)
(* until the run has cleaned up.                                           *)
TornDownInOrder ==
  [][/\ database = "ours" /\ database' = "none" => ~Alive /\ ~kin
     /\ container \in Ours /\ container' = "none" => pc \in {"idle", "done"}]_vars

(* A command that does not report a failed cleanup has left no container   *)
(* of its own, even when the reply to docker create was lost               *)
(* (managed-postgres.ts:74); what Docker creates after it was told that    *)
(* the name is free, nobody can remove.                                    *)
NoContainerLeft ==
  exit # None /\ ~unclean => container \notin Ours \/ order = "late"

(* Exit status 0 promises all of it: a verdict, a database and a container *)
(* that are gone, no signal and no lost output.                            *)
ZeroIsClean ==
  exit = 0 =>
    /\ outcome = "passed" /\ cleanup /\ database # "ours"
    /\ ~managed \/ container = "none"
    /\ stop = "none" /\ ~failed /\ ~unclean

(* Every command ends, whatever its scenario, PostgreSQL and Docker do. *)
Ends == <>(exit # None)

(* What a script reads from the exit status is true: a status that does    *)
(* not report failed cleanup leaves no container, and 0 promises it all.   *)
ExitIsHonest == NoContainerLeft /\ ZeroIsClean

================================================================================
