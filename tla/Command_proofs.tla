---------------------------- MODULE Command_proofs ----------------------------
(***************************************************************************)
(* What a command promises its caller, proved for every outcome a worker   *)
(* may report, every bound on its channel and both kinds of connections:   *)
(* the recorded outcome, the database, the container and the exit status.  *)
(***************************************************************************)
EXTENDS Command, TLAPS

-----------------------------------------------------------------------------
(***************************************************************************)
(* The invariant.                                                          *)
(***************************************************************************)
MessageSet ==
  [type : {"running", "error", "stray"}] \union [type : {"result"}, outcome : Results]

RunType ==
  /\ pc \in {"idle", "prepare", "capture", "create", "supervise", "recapture", "close", "done"}
  /\ outcome \in Finished /\ accepted \in Finished \union {"none"}
  /\ interruption \in {"none", "cancelled", "deadline"}
  /\ inbox \in Seq(MessageSet)
  /\ cleanup \in BOOLEAN /\ hard \in BOOLEAN

(* The creation's state and the answer to it tell what the server holds:   *)
(* a name is dropped only after an answer that proves it is ours.          *)
OwnershipKnown ==
  /\ handle \in Handles /\ database \in {"none", "ours", "foreign"}
  /\ request \in {"none", "sent", "created", "refused"}
  /\ request \in {"sent", "refused"} => database # "ours"
  /\ request = "created" => database = "ours"
  /\ request # "none" => handle \in {"creating", "uncertain"}
  /\ handle = "creating" => request # "none"
  /\ handle \in {"attaching", "recovering", "open"} => database = "ours"
  /\ handle \in {"none", "connecting", "failed", "closed"} => database # "ours"

(* Where the execution is and what its database handle is doing.           *)
HandleFollowsRun ==
  /\ pc \in {"idle", "prepare", "capture"} => handle = "none"
  /\ pc = "create" =>
       handle \in {"connecting", "creating", "attaching", "recovering", "open", "failed", "uncertain"}
  /\ pc \in {"supervise", "recapture", "close"} => handle = "open"
  /\ pc = "done" => handle \in {"none", "failed", "uncertain", "closed", "unclean"}
  /\ pc = "done" => cleanup = (handle \notin {"uncertain", "unclean"})
  /\ pc = "done" /\ ~cleanup => outcome = "harness-error"

(* The worker's process group lives, and the deadline runs, only where the *)
(* parent supervises them; an exit code is an exit's.                      *)
GroupSupervised ==
  /\ Alive \/ kin => pc = "supervise"
  /\ worker # "exited" => code = "none"
  /\ pc \in {"idle", "prepare", "capture", "create"} => worker = "none"
  /\ armed # "off" => pc \in {"create", "supervise"}

(* What the outcome rests on between the worker's exit and the end: a      *)
(* verdict is the accepted one, a failure that was accepted as hard is     *)
(* kept.                                                                   *)
OutcomeRests ==
  /\ pc \in {"idle", "prepare", "capture", "create", "supervise"} =>
       outcome = "harness-error" /\ ~hard
  /\ pc \in {"recapture", "close", "done"} /\ outcome \in {"passed", "violation"} =>
       outcome = accepted /\ code = "ok" /\ ~broken
  /\ pc \in {"close", "done"} /\ outcome \in {"passed", "violation"} =>
       interruption = "none" /\ ~drifted
  /\ pc \in {"recapture", "close", "done"} /\ hard => outcome \in HardOutcome
  /\ pc = "recapture" /\ hard => reason

RunInv == RunType /\ OwnershipKnown /\ HandleFollowsRun /\ GroupSupervised /\ OutcomeRests

Phases ==
  {"info", "create", "verify", "start", "wait", "use", "inspect", "remove", "recheck", "over"}

ContainerType ==
  /\ phase \in Phases /\ managed \in BOOLEAN
  /\ failed \in BOOLEAN /\ unclean \in BOOLEAN /\ known \in BOOLEAN
  /\ container \in Ours \union {"none", "foreign"}
  /\ order \in {"none", "sent", "created", "refused", "late"}

(* The container's life surrounds the run's, and the command knows what    *)
(* Docker holds unless its order is still on its way.                      *)
ContainerKnown ==
  /\ known => managed
  /\ ~managed => phase \in {"use", "over"} /\ container = "none" /\ order = "none"
  /\ phase \in {"info", "create", "verify", "start", "wait"} => pc = "idle"
  /\ phase # "use" => pc \in {"idle", "done"}
  /\ phase = "info" => order = "none" /\ container \notin Ours
  /\ phase \in {"create", "verify", "start"} => container \notin {"starting", "ready"}
  /\ phase = "start" => container = "created"
  /\ phase = "remove" => container \in Ours
  /\ phase = "over" /\ ~unclean => container \notin Ours \/ order = "late"

(* A command that has not failed used its server, has no order on its way  *)
(* and, when it is over, nothing left to remove.                           *)
SuccessKnown ==
  /\ phase \in {"info", "create", "verify", "start", "wait", "use"} => ~failed
  /\ phase \in {"verify", "start", "wait", "use"} => order = "none"
  /\ phase \in {"inspect", "remove", "recheck", "over"} /\ ~failed =>
       pc = "done" /\ order = "none"
  /\ phase = "over" /\ managed /\ ~failed /\ ~unclean => container = "none"

ExitKnown ==
  /\ exit \in {None, 0, 1, 2, 3, 4, Signalled}
  /\ stop \in {"none", "output", "signal"}
  /\ exit # None => phase = "over"
  /\ exit = 0 => stop = "none" /\ ~failed /\ ~unclean /\ outcome = "passed" /\ cleanup

CommandInv == RunInv /\ ContainerType /\ ContainerKnown /\ SuccessKnown /\ ExitKnown

-----------------------------------------------------------------------------
(***************************************************************************)
(* The run keeps its invariant, step by step.                              *)
(***************************************************************************)
USE DEF verdict, watch, group, process, run, owned

LEMMA RunInvInit == DatabaseInit /\ RunInit => RunInv
<1>. SUFFICES ASSUME DatabaseInit, RunInit PROVE RunInv
  OBVIOUS
<1>0. <<>> \in Seq(MessageSet)
  OBVIOUS
<1>1. RunType
  BY <1>0 DEF RunInit, RunType, Finished
<1>2. OwnershipKnown
  BY DEF DatabaseInit, OwnershipKnown, Handles
<1>3. HandleFollowsRun /\ GroupSupervised /\ OutcomeRests
  BY DEF DatabaseInit, RunInit, HandleFollowsRun, GroupSupervised, OutcomeRests, Alive
<1>. QED  BY <1>1, <1>2, <1>3 DEF RunInv

(* Creation and the server's own step, seen from the database alone.       *)
LEMMA CreationOwns ==
  ASSUME OwnershipKnown, Creating
  PROVE  /\ OwnershipKnown'
         /\ handle \in {"connecting", "creating", "attaching", "recovering"}
         /\ handle' \in {"creating", "attaching", "recovering", "open", "failed", "uncertain"}
<1>1. CASE SendCreate \/ ConnectFails \/ Confirmed \/ Rejected
  BY <1>1 DEF SendCreate, ConnectFails, Confirmed, Rejected, OwnershipKnown, Handles
<1>2. CASE Lost \/ Attached \/ AttachFails
  BY <1>2 DEF Lost, AfterLoss, Attached, AttachFails, OwnershipKnown, Handles
<1>3. ASSUME NEW ok \in BOOLEAN, Recover(ok)
      PROVE  /\ OwnershipKnown'
             /\ handle = "recovering" /\ handle' \in {"failed", "uncertain"}
  BY <1>3 DEF Recover, Recovered, CleanUp, OwnershipKnown, Handles
<1>. QED
  BY <1>1, <1>2, <1>3
     DEF Creating, SendCreate, ConnectFails, Confirmed, Rejected, Lost, AfterLoss, Attached,
         AttachFails

LEMMA CreateKeeps == RunInv /\ Create => RunInv'
<1>. SUFFICES ASSUME RunInv, Create PROVE RunInv'
  OBVIOUS
<1>1. OwnershipKnown' /\ pc = "create"
      /\ handle' \in {"creating", "attaching", "recovering", "open", "failed", "uncertain"}
  BY CreationOwns DEF Create, RunInv, HandleFollowsRun, RunType
<1>. QED
  BY <1>1 DEF Create, RunInv, RunType, HandleFollowsRun, GroupSupervised, OutcomeRests, Alive

LEMMA ServerKeeps == RunInv /\ Server => RunInv'
  BY DEF Server, Execute, RunInv, RunType, OwnershipKnown, HandleFollowsRun, GroupSupervised,
     OutcomeRests, Alive

(* Where an execution ends: the outcome that the finally block leaves, when *)
(* it is entered with a sound one.                                         *)
LEMMA ConcludeKeeps ==
  ASSUME RunType, OwnershipKnown,
         NEW o \in Finished, NEW h \in BOOLEAN, NEW i \in {"none", "cancelled", "deadline"},
         Conclude(o, h, i), hard' = h, interruption' = i,
         accepted' = accepted, broken' = broken, drifted' = drifted, inbox' = <<>> \/ inbox' = inbox,
         UNCHANGED owned,
         handle \in {"none", "open", "failed", "uncertain"},
         worker # "exited" => code = "none",
         h => o \in HardOutcome,
         o \in {"passed", "violation"} =>
           o = accepted /\ code = "ok" /\ ~broken /\ ~Alive /\ (i = "none" => ~drifted)
  PROVE  RunInv'
<1>1. /\ ~Alive' /\ ~kin' /\ armed' = "off" /\ pc' \in {"close", "done"}
      /\ ~Alive => code' = code
  BY DEF Conclude, Kill, Alive
<1>2. RunType'
  <2>1. <<>> \in Seq(MessageSet)
    OBVIOUS
  <2>2. inbox' \in Seq(MessageSet)
    BY <2>1 DEF RunType
  <2>3. outcome' \in Finished /\ cleanup' \in BOOLEAN
    BY DEF RunType, Conclude, Interrupted, Recorded, Finished
  <2>. QED  BY <1>1, <2>2, <2>3 DEF RunType
<1>3. OwnershipKnown'
  BY DEF OwnershipKnown
<1>4. HandleFollowsRun'
  BY <1>1 DEF HandleFollowsRun, Conclude, Interrupted, Recorded, HardOutcome
<1>5. GroupSupervised'
  BY <1>1 DEF GroupSupervised, Conclude, Kill
<1>6. OutcomeRests'
  <2>1. CASE handle = "open"
    BY <1>1, <2>1 DEF OutcomeRests, Conclude, Interrupted, HardOutcome, Finished
  <2>2. CASE handle # "open"
    BY <1>1, <2>2 DEF OutcomeRests, Conclude, Interrupted, Recorded, HardOutcome, Finished
  <2>. QED  BY <2>1, <2>2
<1>. QED  BY <1>2, <1>3, <1>4, <1>5, <1>6 DEF RunInv

LEMMA BeginKeeps == RunInv /\ Begin => RunInv'
  BY DEF Begin, RunInv, RunType, OwnershipKnown, HandleFollowsRun, GroupSupervised,
     OutcomeRests,
     Alive

LEMMA PrepareKeeps == RunInv /\ Prepare => RunInv'
<1>. SUFFICES ASSUME RunInv, Prepare PROVE RunInv'
  OBVIOUS
<1>1. /\ pc = "prepare" /\ handle = "none" /\ outcome = "harness-error" /\ hard = FALSE /\ ~Alive
      /\ interruption \in {"none", "cancelled", "deadline"}
  BY DEF Prepare, RunInv, RunType, HandleFollowsRun, GroupSupervised, OutcomeRests
<1>2. ASSUME NEW o \in {"harness-error", "incompatible"}, Conclude(o, hard, interruption)
      PROVE  RunInv'
  BY <1>1, <1>2, ConcludeKeeps DEF Prepare, RunInv, GroupSupervised, Finished
<1>3. CASE pc' = "capture" /\ UNCHANGED <<armed, group, outcome, cleanup>>
  BY <1>1, <1>3
     DEF Prepare, RunInv, RunType, OwnershipKnown, HandleFollowsRun, GroupSupervised,
         OutcomeRests, Alive
<1>. QED  BY <1>1, <1>2, <1>3 DEF Prepare

LEMMA CapturedKeeps == RunInv /\ Captured => RunInv'
<1>. SUFFICES ASSUME RunInv, Captured PROVE RunInv'
  OBVIOUS
<1>1. /\ pc = "capture" /\ handle = "none" /\ outcome = "harness-error" /\ hard = FALSE /\ ~Alive
      /\ interruption \in {"none", "cancelled", "deadline"}
  BY DEF Captured, RunInv, RunType, HandleFollowsRun, GroupSupervised, OutcomeRests
<1>2. ASSUME NEW o \in {"harness-error", "incompatible", "inconclusive"},
             Conclude(o, hard, interruption), UNCHANGED handle
      PROVE  RunInv'
  BY <1>1, <1>2, ConcludeKeeps DEF Captured, RunInv, GroupSupervised, Finished
<1>3. CASE /\ interruption = "none" /\ pc' = "create" /\ armed' = "execution"
           /\ handle' = "connecting" /\ UNCHANGED <<group, outcome, cleanup>>
  BY <1>1, <1>3
     DEF Captured, RunInv, RunType, OwnershipKnown, HandleFollowsRun, GroupSupervised,
         OutcomeRests, Alive, Handles
<1>. QED  BY <1>1, <1>2, <1>3 DEF Captured

LEMMA CreatedKeeps == RunInv /\ Created => RunInv'
<1>. SUFFICES ASSUME RunInv, Created PROVE RunInv'
  OBVIOUS
<1>1. /\ pc = "create" /\ handle \in {"open", "failed", "uncertain"}
      /\ outcome = "harness-error" /\ hard = FALSE /\ ~Alive
      /\ interruption \in {"none", "cancelled", "deadline"}
  BY DEF Created, RunInv, RunType, HandleFollowsRun, GroupSupervised, OutcomeRests
<1>2. ASSUME NEW o \in {"harness-error", "incompatible"}, Conclude(o, hard, interruption)
      PROVE  RunInv'
  BY <1>1, <1>2, ConcludeKeeps DEF Created, RunInv, GroupSupervised, Finished
<1>3. CASE /\ handle = "open" /\ interruption = "none"
           /\ pc' = "supervise" /\ worker' = "starting"
           /\ UNCHANGED <<armed, code, kin, outcome, cleanup>>
  BY <1>1, <1>3
     DEF Created, RunInv, RunType, OwnershipKnown, HandleFollowsRun, GroupSupervised,
         OutcomeRests, Alive
<1>. QED  BY <1>1, <1>2, <1>3 DEF Created

LEMMA ReceiveKeeps == RunInv /\ Receive => RunInv'
<1>. SUFFICES ASSUME RunInv, Receive PROVE RunInv'
  OBVIOUS
<1>1. /\ pc = "supervise" /\ pc' = "supervise" /\ inbox # <<>> /\ inbox' = Tail(inbox)
      /\ UNCHANGED <<outcome, hard, cleanup, interruption, drifted, owned>>
      /\ inbox \in Seq(MessageSet)
  BY DEF Receive, RunInv, RunType
<1>2. Head(inbox) \in MessageSet /\ Tail(inbox) \in Seq(MessageSet)
  BY <1>1
<1>3. Head(inbox).type = "result" => Head(inbox).outcome \in Finished
  BY <1>2, ResultsAssumption DEF MessageSet
<1>4. accepted' \in Finished \union {"none"}
  BY <1>3 DEF Receive, Breaks, IsFirstResult, RunInv, RunType
<1>5. RunType'
  BY <1>1, <1>2, <1>4 DEF RunInv, RunType
<1>7. (Alive' => Alive) /\ (kin' => kin) /\ (worker' # "exited" => UNCHANGED <<worker, code>>)
  BY DEF Receive, Breaks, Kill, Alive
<1>6. OwnershipKnown' /\ HandleFollowsRun' /\ GroupSupervised' /\ OutcomeRests'
  BY <1>1, <1>7 DEF RunInv, OwnershipKnown, HandleFollowsRun, GroupSupervised, OutcomeRests
<1>. QED  BY <1>5, <1>6 DEF RunInv

(* The worker is gone: what it reported counts when it ended by itself.    *)
LEMMA WorkerGoneKeeps == RunInv /\ WorkerGone => RunInv'
<1>. DEFINE late == ~broken /\ ~Believes /\ running /\ overdue /\ interruption = "none"
            i == IF late THEN "deadline" ELSE interruption
            o == IF Believes THEN accepted ELSE outcome
<1>. SUFFICES ASSUME RunInv, WorkerGone PROVE RunInv'
  OBVIOUS
<1>1. /\ pc = "supervise" /\ handle = "open" /\ outcome = "harness-error"
      /\ worker \in {"exited", "starting"}
      /\ interruption' = i /\ i \in {"none", "cancelled", "deadline"}
      /\ hard' = (Believes /\ accepted \in HardOutcome)
      /\ reason' = (reason \/ ~Believes \/ accepted \notin {"passed", "violation"})
      /\ inbox' = <<>> /\ UNCHANGED <<accepted, broken, drifted, owned>>
      /\ o \in Finished
  BY DEF WorkerGone, RunInv, RunType, HandleFollowsRun, OutcomeRests, Believes, Finished
<1>2. hard' \in BOOLEAN /\ (hard' => o \in HardOutcome)
  BY <1>1 DEF HardOutcome
<1>3. CASE i = "none"
  <2>1. pc' = "recapture" /\ outcome' = o /\ armed' = "off" /\ Kill /\ UNCHANGED cleanup
    BY <1>3 DEF WorkerGone
  <2>2. ~Alive' /\ ~kin' /\ (~Alive => code' = code)
    BY <2>1 DEF Kill, Alive
  <2>3. RunType'
    <3>1. <<>> \in Seq(MessageSet)
      OBVIOUS
    <3>. QED  BY <1>1, <2>1, <3>1 DEF RunInv, RunType
  <2>4. Believes => worker = "exited"
    BY <1>1 DEF Believes, RunInv, GroupSupervised
  <2>5. OwnershipKnown' /\ HandleFollowsRun' /\ GroupSupervised'
    BY <1>1, <2>1, <2>2 DEF RunInv, OwnershipKnown, HandleFollowsRun, GroupSupervised, Kill
  <2>6. OutcomeRests'
    BY <1>1, <1>2, <2>1, <2>2, <2>4 DEF OutcomeRests, Believes, Alive, HardOutcome
  <2>. QED  BY <2>3, <2>5, <2>6 DEF RunInv
<1>4. CASE i # "none"
  <2>1. Conclude(o, hard', i)
    BY <1>4 DEF WorkerGone
  <2>2. o \in {"passed", "violation"} =>
          o = accepted /\ code = "ok" /\ ~broken /\ ~Alive
    BY <1>1 DEF Believes, RunInv, GroupSupervised, Alive
  <2>. QED  BY <1>1, <1>2, <1>4, <2>1, <2>2, ConcludeKeeps DEF RunInv, GroupSupervised
<1>. QED  BY <1>3, <1>4

LEMMA RecapturedKeeps == RunInv /\ Recaptured => RunInv'
<1>. SUFFICES ASSUME RunInv, Recaptured PROVE RunInv'
  OBVIOUS
<1>1. /\ pc = "recapture" /\ handle = "open" /\ outcome \in Finished /\ ~Alive
      /\ interruption \in {"none", "cancelled", "deadline"}
      /\ worker # "exited" => code = "none"
      /\ hard => outcome \in HardOutcome /\ reason
      /\ outcome \in {"passed", "violation"} => outcome = accepted /\ code = "ok" /\ ~broken
      /\ UNCHANGED <<accepted, hard, interruption, broken, inbox, drifted, owned>>
  BY DEF Recaptured, RunInv, RunType, HandleFollowsRun, GroupSupervised, OutcomeRests
<1>2. hard \in BOOLEAN
  BY DEF RunInv, RunType
<1>3. CASE ~Differs /\ interruption = "none" /\ Conclude(outcome, hard, interruption)
  BY <1>1, <1>2, <1>3, ConcludeKeeps DEF RunInv, Differs
<1>4. CASE Conclude(Unbound(outcome), hard, interruption)
  <2>1. /\ Unbound(outcome) \in Finished \ {"passed", "violation"}
        /\ hard => Unbound(outcome) \in HardOutcome
    BY <1>1 DEF Unbound, HardOutcome, Finished
  <2>. QED  BY <1>1, <1>2, <1>4, <2>1, ConcludeKeeps DEF RunInv
<1>. QED  BY <1>3, <1>4 DEF Recaptured

LEMMA CloseReturnsKeeps ==
  ASSUME RunInv, NEW ok \in BOOLEAN, CloseReturns(ok)
  PROVE  RunInv'
<1>1. /\ pc = "close" /\ pc' = "done" /\ handle = "open" /\ request = "none"
      /\ handle' = (IF ok THEN "closed" ELSE "unclean") /\ cleanup' = ok
      /\ database' \in IF ok THEN {"none"} ELSE {"none", database}
      /\ UNCHANGED <<request, accepted, hard, watch, process, drifted>>
  BY DEF CloseReturns, CloseDatabase, CleanUp, RunInv, OwnershipKnown
<1>2. outcome' \in Finished
  BY DEF CloseReturns, Recorded, RunInv, RunType, Finished
<1>3. ~ok => outcome' = "harness-error"
  BY DEF CloseReturns, Recorded
<1>4. ok => \/ outcome' = outcome
            \/ outcome' = IF outcome \in HardOutcome THEN "harness-error" ELSE "inconclusive"
  BY DEF CloseReturns, Recorded
<1>5. RunType'
  BY <1>1, <1>2 DEF RunInv, RunType
<1>6. OwnershipKnown' /\ HandleFollowsRun' /\ GroupSupervised'
  BY <1>1, <1>3 DEF RunInv, OwnershipKnown, HandleFollowsRun, GroupSupervised, Alive, Handles
<1>7. OutcomeRests'
  BY <1>1, <1>2, <1>3, <1>4 DEF RunInv, OutcomeRests, HardOutcome
<1>. QED  BY <1>5, <1>6, <1>7 DEF RunInv

LEMMA TimersKeep == RunInv /\ (Timers \/ TimePasses \/ SourcesChange) => RunInv'
<1>1. ASSUME RunInv, DeadlineFires PROVE RunInv'
  BY <1>1
     DEF DeadlineFires, Interrupt, RunInv, RunType, OwnershipKnown, HandleFollowsRun,
         GroupSupervised, OutcomeRests, Alive
<1>2. ASSUME RunInv, GraceEnds PROVE RunInv'
  BY <1>2
     DEF GraceEnds, Kill, RunInv, RunType, OwnershipKnown, HandleFollowsRun, GroupSupervised,
         OutcomeRests, Alive
<1>3. ASSUME RunInv, TimePasses \/ SourcesChange PROVE RunInv'
  BY <1>3
     DEF TimePasses, SourcesChange, RunInv, RunType, OwnershipKnown, HandleFollowsRun,
         GroupSupervised, OutcomeRests, Alive
<1>. QED  BY <1>1, <1>2, <1>3 DEF Timers

LEMMA AbortKeeps == RunInv /\ Abort => RunInv'
  BY DEF Abort, Interrupt, RunInv, RunType, OwnershipKnown, HandleFollowsRun, GroupSupervised,
     OutcomeRests, Alive

(* The worker's own steps touch nothing but its processes and its channel. *)
LEMMA ActsKeep == RunInv /\ Acts => RunInv'
<1>. SUFFICES ASSUME RunInv, Acts PROVE RunInv'
  OBVIOUS
<1>1. /\ UNCHANGED <<pc, aborted, verdict, watch, overdue, drifted, owned>>
      /\ worker \notin {"none", "exited"} /\ pc = "supervise"
      /\ worker' # "exited" => UNCHANGED code
  BY DEF Acts, Start, Runs, Reports, Fails, Strays, Spawns, Exits, Worker, RunInv,
     GroupSupervised, Alive
<1>2. inbox' \in Seq(MessageSet)
  <2>1. ASSUME NEW m \in MessageSet, Send(m) PROVE inbox' \in Seq(MessageSet)
    BY <2>1 DEF Send, RunInv, RunType
  <2>2. /\ [type |-> "running"] \in MessageSet /\ [type |-> "error"] \in MessageSet
        /\ [type |-> "stray"] \in MessageSet
        /\ \A o \in Results : [type |-> "result", outcome |-> o] \in MessageSet
    BY DEF MessageSet
  <2>3. CASE Start \/ Spawns \/ Exits
    BY <2>3 DEF Start, Spawns, Exits, RunInv, RunType
  <2>4. CASE Runs \/ Fails \/ Strays \/ \E o \in Results : Reports(o)
    BY <2>1, <2>2, <2>4 DEF Runs, Fails, Strays, Reports
  <2>. QED  BY <2>3, <2>4 DEF Acts
<1>. QED
  BY <1>1, <1>2
     DEF RunInv, RunType, OwnershipKnown, HandleFollowsRun, GroupSupervised, OutcomeRests

-----------------------------------------------------------------------------
(***************************************************************************)
(* The command keeps its own.                                              *)
(***************************************************************************)
USE DEF docker, ends, vars

(* What happens beside the command's own steps: the run, its worker and    *)
(* the server, but no signal.                                              *)
LEMMA RunningKeeps == RunInv /\ Running => RunInv'
<1>1. ASSUME RunInv, Parent PROVE RunInv'
  BY <1>1, PrepareKeeps, CapturedKeeps, CreateKeeps, CreatedKeeps, ReceiveKeeps,
     WorkerGoneKeeps, RecapturedKeeps, CloseReturnsKeeps DEF Parent
<1>. QED  BY <1>1, TimersKeep, ActsKeep, ServerKeeps DEF Running

(* A run that has not begun or has ended stays as it is.                   *)
LEMMA AtRest ==
  ASSUME RunInv, Running \/ Halt
  PROVE  /\ pc = "idle" <=> pc' = "idle"
         /\ pc = "done" => UNCHANGED <<pc, outcome, cleanup>>
<1>1. CASE Running
  <2>1. CASE Parent
    BY <2>1
       DEF Parent, Prepare, Captured, Create, Creating, Created, Receive, WorkerGone,
           Recaptured, CloseReturns,
           Conclude, RunInv, HandleFollowsRun, SendCreate, ConnectFails, Confirmed, Rejected, Lost,
           Attached, AttachFails, Recover
  <2>2. CASE Timers \/ TimePasses \/ SourcesChange \/ Acts \/ Server
    BY <2>2
       DEF Timers, DeadlineFires, GraceEnds, TimePasses, SourcesChange, Acts, Server, Start,
           Runs,
           Reports, Fails, Strays, Spawns, Exits, Worker
  <2>. QED  BY <1>1, <2>1, <2>2 DEF Running
<1>2. CASE Halt
  BY <1>2 DEF Halt, Abort
<1>. QED  BY <1>1, <1>2

LEMMA CommandInvInit == Init => CommandInv
<1>. SUFFICES ASSUME Init PROVE CommandInv
  OBVIOUS
<1>1. RunInv
  BY RunInvInit DEF Init
<1>2. pc = "idle" /\ exit = -1 /\ stop = "none" /\ order = "none"
      /\ known = FALSE /\ failed = FALSE /\ unclean = FALSE
  BY DEF Init, RunInit, None
<1>3. ContainerType
  BY <1>2 DEF Init, ContainerType, Phases, Ours
<1>4. ContainerKnown
  BY <1>2 DEF Init, ContainerKnown, Ours
<1>5. SuccessKnown /\ ExitKnown
  BY <1>2 DEF Init, SuccessKnown, ExitKnown, None
<1>. QED  BY <1>1, <1>3, <1>4, <1>5 DEF CommandInv

(* The run moves under a command that waits for it, or not at all.         *)
LEMMA BesideKeeps ==
  ASSUME CommandInv, \/ Running
                     \/ Signals \/ OutputFails
                     \/ RunScenario
  PROVE  CommandInv'
<1>1. CASE Running
  <2>1. RunInv' /\ UNCHANGED <<docker, ends>>
    BY <1>1, RunningKeeps DEF CommandInv, Running, Process
  <2>2. /\ pc = "idle" <=> pc' = "idle"
        /\ pc = "done" => UNCHANGED <<pc, outcome, cleanup>>
    BY <1>1, AtRest DEF CommandInv
  <2>. QED  BY <2>1, <2>2 DEF CommandInv, ContainerType, ContainerKnown, SuccessKnown, ExitKnown, None
<1>2. CASE Signals \/ OutputFails
  <2>1. Halt /\ UNCHANGED docker
    BY <1>2 DEF Signals, OutputFails
  <2>2. RunInv'
    BY <2>1, AbortKeeps
       DEF CommandInv, Halt, RunInv, RunType, OwnershipKnown, HandleFollowsRun,
           GroupSupervised,
           OutcomeRests, Alive
  <2>3. UNCHANGED <<pc, outcome, cleanup>>
    BY <2>1 DEF Halt, Abort
  <2>. QED
    BY <1>2, <2>1, <2>2, <2>3
       DEF Signals, OutputFails, CommandInv, ContainerType, ContainerKnown, SuccessKnown,
           ExitKnown, None
<1>3. CASE RunScenario
  <2>1. RunInv'
    BY <1>3, BeginKeeps DEF CommandInv, RunScenario
  <2>. QED
    BY <1>3, <2>1
       DEF RunScenario, Begin, CommandInv, ContainerType, ContainerKnown, SuccessKnown,
           ExitKnown, None
<1>. QED  BY <1>1, <1>2, <1>3

(* Docker's and the command's own steps leave the run alone.               *)
LEMMA RunUntouched == RunInv /\ UNCHANGED <<owned, run>> => RunInv'
  BY DEF RunInv, RunType, OwnershipKnown, HandleFollowsRun, GroupSupervised, OutcomeRests,
     Alive

LEMMA BeforeUseKeeps ==
  ASSUME CommandInv, Info \/ CreateReturns \/ Verify \/ StartServer \/ Ready \/ GiveUp
  PROVE  CommandInv'
<1>1. RunInv' /\ UNCHANGED <<owned, run, managed, ends>>
  BY RunUntouched
     DEF CommandInv, Info, CreateReturns, Verify, StartServer, Ready, GiveUp, Docker
<1>2. Unreliable \in BOOLEAN
  BY UnreliableAssumption
<1>3. CASE Info
  <2>1. ContainerType'
    BY <1>1, <1>3
       DEF Info, CommandInv, ContainerType, ContainerKnown, Phases, Ours
  <2>2. ContainerKnown'
    BY <1>1, <1>3, <2>1
       DEF Info, CommandInv, ContainerType, ContainerKnown, SuccessKnown, Ours
  <2>3. SuccessKnown' /\ ExitKnown'
    BY <1>1, <1>3, <2>1
       DEF Info, CommandInv, ContainerType, ContainerKnown, SuccessKnown, ExitKnown, Ours, None
  <2>. QED  BY <1>1, <2>1, <2>2, <2>3 DEF CommandInv
<1>4. CASE CreateReturns
  <2>1. ContainerType'
    BY <1>1, <1>4
       DEF CreateReturns, Fail, CommandInv, ContainerType, ContainerKnown, Phases, Ours
  <2>2. ContainerKnown'
    BY <1>1, <1>4, <2>1
       DEF CreateReturns, Fail, CommandInv, ContainerType, ContainerKnown, SuccessKnown, Ours
  <2>3. SuccessKnown' /\ ExitKnown'
    BY <1>1, <1>4, <2>1
       DEF CreateReturns, Fail, CommandInv, ContainerType, ContainerKnown, SuccessKnown,
           ExitKnown, Ours, None
  <2>. QED  BY <1>1, <2>1, <2>2, <2>3 DEF CommandInv
<1>5. CASE Verify
  <2>1. ContainerType'
    BY <1>1, <1>5
       DEF Verify, Found, Fail, CommandInv, ContainerType, ContainerKnown, Phases, Ours
  <2>2. ContainerKnown'
    BY <1>1, <1>5, <2>1
       DEF Verify, Found, Fail, CommandInv, ContainerType, ContainerKnown, SuccessKnown, Ours
  <2>3. SuccessKnown' /\ ExitKnown'
    BY <1>1, <1>5, <2>1
       DEF Verify, Found, Fail, CommandInv, ContainerType, ContainerKnown, SuccessKnown,
           ExitKnown, Ours, None
  <2>. QED  BY <1>1, <2>1, <2>2, <2>3 DEF CommandInv
<1>6. CASE StartServer
  <2>1. ContainerType'
    BY <1>1, <1>6
       DEF StartServer, Fail, CommandInv, ContainerType, ContainerKnown, Phases, Ours
  <2>2. ContainerKnown'
    BY <1>1, <1>6, <2>1
       DEF StartServer, Fail, CommandInv, ContainerType, ContainerKnown, SuccessKnown, Ours
  <2>3. SuccessKnown' /\ ExitKnown'
    BY <1>1, <1>6, <2>1
       DEF StartServer, Fail, CommandInv, ContainerType, ContainerKnown, SuccessKnown,
           ExitKnown, Ours, None
  <2>. QED  BY <1>1, <2>1, <2>2, <2>3 DEF CommandInv
<1>7. CASE Ready \/ GiveUp
  <2>1. ContainerType'
    BY <1>1, <1>7
       DEF Ready, GiveUp, Fail, CommandInv, ContainerType, ContainerKnown, Phases, Ours
  <2>2. ContainerKnown'
    BY <1>1, <1>7, <2>1
       DEF Ready, GiveUp, Fail, CommandInv, ContainerType, ContainerKnown, SuccessKnown, Ours
  <2>3. SuccessKnown' /\ ExitKnown'
    BY <1>1, <1>7, <2>1
       DEF Ready, GiveUp, Fail, CommandInv, ContainerType, ContainerKnown, SuccessKnown,
           ExitKnown, Ours, None
  <2>. QED  BY <1>1, <2>1, <2>2, <2>3 DEF CommandInv
<1>. QED  BY <1>3, <1>4, <1>5, <1>6, <1>7

LEMMA AfterUseKeeps ==
  ASSUME CommandInv, UseReturns \/ Inspect \/ Remove \/ Recheck
  PROVE  CommandInv'
<1>1. RunInv' /\ UNCHANGED <<owned, run, managed, ends>>
  BY RunUntouched DEF CommandInv, UseReturns, Inspect, Remove, Recheck, Docker
<1>2. Unreliable \in BOOLEAN
  BY UnreliableAssumption
<1>3. CASE UseReturns
  <2>1. ContainerType'
    BY <1>1, <1>2, <1>3
       DEF UseReturns, Used, CommandInv, ContainerType, ContainerKnown, Phases, Ours
  <2>2. ContainerKnown'
    BY <1>1, <1>2, <1>3, <2>1
       DEF UseReturns, Used, CommandInv, ContainerType, ContainerKnown, SuccessKnown, Ours
  <2>3. SuccessKnown' /\ ExitKnown'
    BY <1>1, <1>2, <1>3, <2>1
       DEF UseReturns, Used, CommandInv, ContainerType, ContainerKnown, SuccessKnown,
           ExitKnown, Ours, None
  <2>. QED  BY <1>1, <2>1, <2>2, <2>3 DEF CommandInv
<1>4. CASE Inspect
  <2>1. ContainerType'
    BY <1>1, <1>4
       DEF Inspect, LooksFor, Found, CommandInv, ContainerType, ContainerKnown, Phases, Ours
  <2>2. ContainerKnown'
    BY <1>1, <1>4, <2>1
       DEF Inspect, LooksFor, Found, CommandInv, ContainerType, ContainerKnown, SuccessKnown,
           Ours
  <2>3. SuccessKnown' /\ ExitKnown'
    BY <1>1, <1>4, <2>1
       DEF Inspect, LooksFor, Found, CommandInv, ContainerType, ContainerKnown, SuccessKnown,
           ExitKnown, Ours, None
  <2>. QED  BY <1>1, <2>1, <2>2, <2>3 DEF CommandInv
<1>5. CASE Remove
  <2>1. ContainerType'
    BY <1>1, <1>5
       DEF Remove, CommandInv, ContainerType, ContainerKnown, Phases, Ours
  <2>2. ContainerKnown'
    BY <1>1, <1>5, <2>1
       DEF Remove, CommandInv, ContainerType, ContainerKnown, SuccessKnown, Ours
  <2>3. SuccessKnown' /\ ExitKnown'
    BY <1>1, <1>5, <2>1
       DEF Remove, CommandInv, ContainerType, ContainerKnown, SuccessKnown, ExitKnown, Ours,
           None
  <2>. QED  BY <1>1, <2>1, <2>2, <2>3 DEF CommandInv
<1>6. CASE Recheck
  <2>1. ContainerType'
    BY <1>1, <1>6
       DEF Recheck, Absent, CommandInv, ContainerType, ContainerKnown, Phases, Ours
  <2>2. ContainerKnown'
    BY <1>1, <1>6, <2>1
       DEF Recheck, Absent, CommandInv, ContainerType, ContainerKnown, SuccessKnown, Ours
  <2>3. SuccessKnown' /\ ExitKnown'
    BY <1>1, <1>6, <2>1
       DEF Recheck, Absent, CommandInv, ContainerType, ContainerKnown, SuccessKnown,
           ExitKnown, Ours, None
  <2>. QED  BY <1>1, <2>1, <2>2, <2>3 DEF CommandInv
<1>. QED  BY <1>3, <1>4, <1>5, <1>6

LEMMA EngineKeeps ==
  ASSUME CommandInv, EngineCreates \/ ServerRuns
  PROVE  CommandInv'
<1>1. RunInv' /\ UNCHANGED <<owned, run, managed, ends>>
  BY RunUntouched DEF CommandInv, EngineCreates, ServerRuns, Docker
<1>2. CASE EngineCreates
  <2>1. ContainerType'
    BY <1>1, <1>2
       DEF EngineCreates, CommandInv, ContainerType, ContainerKnown, Phases, Ours
  <2>2. ContainerKnown'
    BY <1>1, <1>2, <2>1
       DEF EngineCreates, CommandInv, ContainerType, ContainerKnown, SuccessKnown, Ours
  <2>3. SuccessKnown' /\ ExitKnown'
    BY <1>1, <1>2, <2>1
       DEF EngineCreates, CommandInv, ContainerType, ContainerKnown, SuccessKnown, ExitKnown,
           Ours, None
  <2>. QED  BY <1>1, <2>1, <2>2, <2>3 DEF CommandInv
<1>3. CASE ServerRuns
  <2>1. ContainerType'
    BY <1>1, <1>3
       DEF ServerRuns, CommandInv, ContainerType, ContainerKnown, Phases, Ours
  <2>2. ContainerKnown'
    BY <1>1, <1>3, <2>1
       DEF ServerRuns, CommandInv, ContainerType, ContainerKnown, SuccessKnown, Ours
  <2>3. SuccessKnown' /\ ExitKnown'
    BY <1>1, <1>3, <2>1
       DEF ServerRuns, CommandInv, ContainerType, ContainerKnown, SuccessKnown, ExitKnown,
           Ours, None
  <2>. QED  BY <1>1, <2>1, <2>2, <2>3 DEF CommandInv
<1>. QED  BY <1>2, <1>3

LEMMA ExitKeeps == CommandInv /\ Exit => CommandInv'
<1>. SUFFICES ASSUME CommandInv, Exit PROVE CommandInv'
  OBVIOUS
<1>1. RunInv' /\ UNCHANGED <<owned, run, docker, stop>>
  BY RunUntouched DEF CommandInv, Exit
<1>2. RunCode \in 0..4 /\ (RunCode = 0 => outcome = "passed" /\ cleanup)
  BY DEF RunCode, CommandInv, RunInv, RunType, Finished, HardOutcome
<1>3. /\ exit' \in {None, 0, 1, 2, 3, 4, Signalled}
      /\ exit' = 0 => stop = "none" /\ ~failed /\ ~unclean /\ outcome = "passed" /\ cleanup
  BY <1>2 DEF Exit, ExitCode, Signalled, CommandInv, ExitKnown
<1>4. ExitKnown'
  BY <1>1, <1>3 DEF Exit, CommandInv, ExitKnown
<1>. QED  BY <1>1, <1>4 DEF CommandInv, ContainerType, ContainerKnown, SuccessKnown

LEMMA CommandInvStep == CommandInv /\ [Next]_vars => CommandInv'
<1>. SUFFICES ASSUME CommandInv, [Next]_vars PROVE CommandInv'
  OBVIOUS
<1>1. CASE Managed
  BY <1>1, BeforeUseKeeps, AfterUseKeeps DEF Managed
<1>2. CASE RunScenario \/ Running \/ Signals \/ OutputFails
  BY <1>2, BesideKeeps
<1>3. CASE EngineCreates \/ ServerRuns
  BY <1>3, EngineKeeps
<1>4. CASE Exit
  BY <1>4, ExitKeeps
<1>5. CASE UNCHANGED vars
  BY <1>5, RunUntouched DEF CommandInv, ContainerType, ContainerKnown, SuccessKnown, ExitKnown
<1>. QED  BY <1>1, <1>2, <1>3, <1>4, <1>5 DEF Next

LEMMA AlwaysCommandInv == Spec => []CommandInv
  BY CommandInvInit, CommandInvStep, PTL DEF Spec

-----------------------------------------------------------------------------
(***************************************************************************)
(* What the command promises.                                              *)
(***************************************************************************)
(* The run and the command keep the shape of their state: an execution     *)
(* supervises, recaptures and closes only with an open database of its own *)
(* (supervised.ts), and a command runs one only in its own phase (cli.ts). *)
THEOREM CommandTyped == Spec => []TypeOK
<1>1. CommandInv => TypeOK
  <2>. SUFFICES ASSUME CommandInv PROVE TypeOK
    OBVIOUS
  <2>1. RunTypeOK
    BY DEF CommandInv, RunInv, RunType, OwnershipKnown, HandleFollowsRun, GroupSupervised,
       RunTypeOK
  <2>2. pc \notin {"idle", "done"} => phase = "use"
    BY DEF CommandInv, ContainerKnown
  <2>. QED
    BY <2>1, <2>2 DEF CommandInv, ContainerType, ContainerKnown, ExitKnown, TypeOK
<1>. QED  BY <1>1, AlwaysCommandInv, PTL

(* A run that reports complete cleanup left no database of its own, and    *)
(* none can still be created; every other one says so as a harness error   *)
(* (database.ts:253).                                                      *)
THEOREM CleanupReportedHonestly == Spec => []CleanupIsHonest
<1>1. CommandInv => CleanupIsHonest
  BY DEF CommandInv, RunInv, RunType, OwnershipKnown, HandleFollowsRun, CleanupIsHonest
<1>. QED  BY <1>1, AlwaysCommandInv, PTL

(* The recorded outcome neither claims a verdict the worker did not earn   *)
(* nor drops a failure that was accepted (supervised.ts:285-308).          *)
THEOREM ResultReportedHonestly == Spec => []ResultIsHonest
<1>1. CommandInv => VerdictIsBound
  BY DEF CommandInv, RunInv, RunType, HandleFollowsRun, OutcomeRests, VerdictIsBound
<1>2. CommandInv => HardFailureKept
  BY DEF CommandInv, RunInv, OutcomeRests, HardFailureKept
<1>. QED  BY <1>1, <1>2, AlwaysCommandInv, PTL DEF ResultIsHonest

(* The exit status is true of what is left behind (managed-postgres.ts:74, *)
(* cli.ts).                                                                *)
THEOREM ExitReportedHonestly == Spec => []ExitIsHonest
<1>1. CommandInv => NoContainerLeft
  BY DEF CommandInv, ContainerKnown, ExitKnown, NoContainerLeft
<1>2. CommandInv => ZeroIsClean
  <2>. SUFFICES ASSUME CommandInv, exit = 0 PROVE ZeroIsClean
    BY DEF ZeroIsClean
  <2>1. /\ stop = "none" /\ ~failed /\ ~unclean /\ outcome = "passed" /\ cleanup
        /\ phase = "over"
    BY DEF CommandInv, ExitKnown, None
  <2>2. pc = "done" /\ (managed => container = "none")
    BY <2>1 DEF CommandInv, SuccessKnown
  <2>3. database # "ours"
    BY <2>1, <2>2 DEF CommandInv, RunInv, HandleFollowsRun, OwnershipKnown
  <2>. QED  BY <2>1, <2>2, <2>3 DEF ZeroIsClean
<1>. QED  BY <1>1, <1>2, AlwaysCommandInv, PTL DEF ExitIsHonest

(* Only two steps change what the server or Docker holds by removing it.   *)
LEMMA DatabaseMoves ==
  ASSUME CommandInv, [Next]_vars, database' # database
  PROVE  \/ database = "none" /\ database' = "ours"
         \/ /\ database = "ours" /\ database' = "none"
            /\ pc \in {"create", "close"}
<1>1. CASE Running
  <2>1. CASE Create
    BY <2>1
       DEF Create, Creating, SendCreate, ConnectFails, Confirmed, Rejected, Lost, Attached,
           AttachFails, Recover, CleanUp, CommandInv, RunInv, RunType, OwnershipKnown,
           HandleFollowsRun
  <2>2. CASE \E ok \in BOOLEAN : CloseReturns(ok)
    BY <2>2 DEF CloseReturns, CloseDatabase, CleanUp, CommandInv, RunInv, OwnershipKnown
  <2>3. CASE Server
    BY <2>3 DEF Server, Execute
  <2>4. CASE ~(Create \/ Server \/ \E ok \in BOOLEAN : CloseReturns(ok))
    BY <1>1, <2>4
       DEF Running, Parent, Prepare, Captured, Created, Receive, WorkerGone, Recaptured,
           Timers,
           DeadlineFires, GraceEnds, TimePasses, SourcesChange, Acts, Start, Runs, Reports, Fails,
           Strays, Spawns, Exits, Worker
  <2>. QED  BY <2>1, <2>2, <2>3, <2>4
<1>2. CASE ~Running
  BY <1>2
     DEF Next, Managed, Info, CreateReturns, Verify, StartServer, Ready, GiveUp, UseReturns,
         Inspect, Remove, Recheck, Docker, RunScenario, Begin, EngineCreates, ServerRuns, Signals,
         OutputFails, Halt, Abort, Exit
<1>. QED  BY <1>1, <1>2

LEMMA ContainerMoves ==
  ASSUME CommandInv, [Next]_vars, container' # container
  PROVE  \/ container = "none" /\ container' = "created"
         \/ container \in Ours /\ container' \in Ours
         \/ container \in Ours /\ container' = "none" /\ phase = "remove"
<1>1. CASE EngineCreates \/ StartServer \/ ServerRuns \/ Remove
  BY <1>1
     DEF EngineCreates, StartServer, ServerRuns, Remove, CommandInv, ContainerKnown, Ours
<1>2. CASE ~(EngineCreates \/ StartServer \/ ServerRuns \/ Remove)
  BY <1>2
     DEF Next, Managed, Info, CreateReturns, Verify, Ready, GiveUp, UseReturns, Inspect,
         Recheck,
         RunScenario, Running, Process, Signals, OutputFails, Exit
<1>. QED  BY <1>1, <1>2

(* A database or a container that had the generated name before is never   *)
(* used or removed, whatever reply was lost (database.ts:253).             *)
THEOREM ForeignKept == Spec => NothingForeignTouched
<1>1. CommandInv /\ [Next]_vars =>
        [/\ database = "foreign" => database' = "foreign"
         /\ container = "foreign" => container' = "foreign"]_vars
  BY DatabaseMoves, ContainerMoves DEF Ours
<1>. QED  BY <1>1, AlwaysCommandInv, PTL DEF Spec, NothingForeignTouched

(* The worker's process group is gone before its database is, and the run  *)
(* has ended before its server is removed (supervised.ts:288).             *)
THEOREM TearsDownInOrder == Spec => TornDownInOrder
<1>1. ASSUME CommandInv, [Next]_vars, database = "ours", database' = "none"
      PROVE  ~Alive /\ ~kin
  BY <1>1, DatabaseMoves DEF CommandInv, RunInv, GroupSupervised
<1>2. ASSUME CommandInv, [Next]_vars, container \in Ours, container' = "none"
      PROVE  pc \in {"idle", "done"}
  BY <1>2, ContainerMoves DEF CommandInv, ContainerKnown, Ours
<1>3. CommandInv /\ [Next]_vars =>
        [/\ database = "ours" /\ database' = "none" => ~Alive /\ ~kin
         /\ container \in Ours /\ container' = "none" => pc \in {"idle", "done"}]_vars
  BY <1>1, <1>2
<1>. QED  BY <1>3, AlwaysCommandInv, PTL DEF Spec, TornDownInOrder

================================================================================
