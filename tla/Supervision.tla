------------------------------ MODULE Supervision ------------------------------
(***************************************************************************)
(* src/supervised.ts and src/worker.ts: runScenarioFile() runs a scenario  *)
(* in a worker process against a database that only this parent creates    *)
(* and drops.  Between two awaits the parent is atomic; while it waits,    *)
(* its caller may abort, its deadline may fire and the worker, whose       *)
(* scenario is arbitrary code, may report, crash, hang or talk nonsense.   *)
(***************************************************************************)
EXTENDS OwnedDatabase, Integers, Sequences

CONSTANTS
  Results,  \* the outcomes a worker may report
  Messages  \* bound: messages in the channel

Finished == {"passed", "violation", "actor-error", "harness-error", "inconclusive", "incompatible"}

ASSUME ResultsAssumption == Results \subseteq Finished

VARIABLES
  pc,        \* "idle", "prepare", "capture", "create", "supervise", "recapture", "close" or "done"
  aborted,   \* options.signal
  interruption, \* "none", "cancelled" or "deadline"
  armed,     \* the deadline: "off", "execution" or "backstop"
  grace,     \* stopChild() was called: SIGKILL follows
  outcome, reason,  \* result.outcome; whether it has a reason
  accepted,  \* outcome of the worker's result, "none" before one is accepted
  broken,    \* protocolFailure
  hard,      \* receivedHardFailure
  cleanup,   \* result.cleanup.complete
  worker,    \* "none", "starting", "loading", "running", "reported", "leaving" or "exited"
  code,      \* how it exited: "none", "ok", "failed" or "killed"
  kin,       \* processes it started and left in its group are alive
  inbox,     \* what it has sent and the parent has not read
  running,   \* the parent knows that the run began
  overdue,   \* timeoutMs have passed since then
  drifted    \* the captured sources have changed since they were captured

verdict   == <<outcome, reason, accepted, hard, cleanup>>
watch     == <<interruption, armed, grace, broken, running>>
group     == <<worker, code, kin>>
process   == <<group, inbox>>
run       == <<pc, aborted, verdict, watch, process, overdue, drifted>>

HardOutcome == {"actor-error", "harness-error"}

RunInit ==
  /\ pc = "idle" /\ aborted = FALSE
  /\ interruption = "none" /\ armed = "off" /\ grace = FALSE
  /\ outcome = "harness-error" /\ reason = FALSE /\ accepted = "none"
  /\ broken = FALSE /\ hard = FALSE /\ cleanup = FALSE
  /\ worker = "none" /\ code = "none" /\ kin = FALSE /\ inbox = <<>>
  /\ running = FALSE /\ overdue = FALSE /\ drifted = FALSE

Alive == worker \notin {"none", "exited"}

(* Mutation: only the worker is killed, while it lives. *)
KillWorker ==
  IF Alive THEN worker' = "exited" /\ code' = "killed" /\ UNCHANGED kin ELSE UNCHANGED group

(* terminateGroup(). *)
Kill ==
  /\ kin' = FALSE
  /\ IF Alive THEN worker' = "exited" /\ code' = "killed" ELSE UNCHANGED <<worker, code>>

-----------------------------------------------------------------------------
(***************************************************************************)
(* The end of an execution.                                                *)
(***************************************************************************)
(* finalizeRunEvidence(): what does not fit or is not valid keeps only     *)
(* whether the failure was a hard one.                                     *)
Recorded(o, clean, fits) ==
  IF fits THEN o ELSE IF o \in HardOutcome \/ ~clean THEN "harness-error" ELSE "inconclusive"

(* Mutation: an interruption makes any result inconclusive. *)
InterruptedSoftly(o, wasHard, i) == IF i = "none" THEN o ELSE "inconclusive"

(* An interruption overrides what the worker reported. *)
Interrupted(o, wasHard, i) ==
  IF i = "none" THEN o ELSE IF wasHard THEN "harness-error" ELSE "inconclusive"

(* The finally block up to its await, entered with outcome o. *)
Conclude(o, wasHard, i) ==
  /\ armed' = "off"
  /\ Kill
  /\ IF handle = "open"
     THEN pc' = "close" /\ outcome' = Interrupted(o, wasHard, i) /\ UNCHANGED cleanup
     ELSE /\ pc' = "done" /\ cleanup' = (handle # "uncertain")
          /\ \E fits \in BOOLEAN :
               outcome' = Recorded(IF handle = "uncertain" THEN "harness-error"
                                   ELSE Interrupted(o, wasHard, i), cleanup', fits)

CloseReturns(ok) ==
  /\ pc = "close" /\ CloseDatabase(ok)
  /\ pc' = "done" /\ cleanup' = ok
  /\ \E fits \in BOOLEAN : outcome' = Recorded(IF ok THEN outcome ELSE "harness-error", ok, fits)
  /\ UNCHANGED <<aborted, reason, accepted, hard, watch, process, overdue, drifted>>

-----------------------------------------------------------------------------
(***************************************************************************)
(* Interruptions.                                                          *)
(***************************************************************************)
(* Mutation: the worker is asked to stop, and nothing more. *)
StopChildPolitely == grace

(* stopChild(): an abort message, and SIGKILL after a grace period. *)
StopChild == grace \/ pc = "supervise"

Interrupt(why) ==
  /\ interruption' = IF interruption = "none" THEN why ELSE interruption
  /\ grace' = StopChild

Abort ==
  /\ ~aborted /\ aborted' = TRUE
  /\ IF pc \in {"idle", "close", "done"}
     THEN UNCHANGED <<interruption, grace>>
     ELSE Interrupt("cancelled")
  /\ UNCHANGED <<pc, armed, broken, running, verdict, process, overdue, drifted, owned>>

DeadlineFires ==
  /\ armed = "execution" \/ (armed = "backstop" /\ overdue)
  /\ armed' = "off" /\ Interrupt("deadline")
  /\ UNCHANGED <<pc, aborted, broken, running, verdict, process, overdue, drifted, owned>>

GraceEnds ==
  /\ grace /\ pc = "supervise" /\ Alive /\ Kill
  /\ UNCHANGED <<pc, aborted, verdict, watch, inbox, overdue, drifted, owned>>

TimePasses ==
  /\ pc = "supervise" /\ running /\ ~overdue /\ overdue' = TRUE
  /\ UNCHANGED <<pc, aborted, verdict, watch, process, drifted, owned>>

SourcesChange ==
  /\ pc \in {"create", "supervise", "recapture"} /\ ~drifted /\ drifted' = TRUE
  /\ UNCHANGED <<pc, aborted, verdict, watch, process, overdue, owned>>

-----------------------------------------------------------------------------
(***************************************************************************)
(* The parent before there is a worker.                                    *)
(***************************************************************************)
Begin ==
  /\ pc = "idle" /\ pc' = "prepare"
  /\ interruption' = IF aborted THEN "cancelled" ELSE "none"
  /\ UNCHANGED <<aborted, armed, grace, broken, running, verdict, process, overdue, drifted, owned>>

(* A replay whose recorded environment differs is incompatible. *)
Prepare ==
  /\ pc = "prepare"
  /\ \/ interruption # "none" /\ Conclude(outcome, hard, interruption)
     \/ interruption = "none" /\ Conclude("incompatible", hard, interruption)
     \/ interruption = "none" /\ pc' = "capture" /\ UNCHANGED <<armed, group, outcome, cleanup>>
  /\ UNCHANGED <<aborted, reason, accepted, hard, interruption, grace, broken, running, inbox,
                 overdue, drifted, owned>>

(* The sources do not fit the evidence, differ from a replay's, cannot be  *)
(* read, or are bound to this execution, which then creates its database.  *)
Captured ==
  /\ pc = "capture"
  /\ \/ /\ Conclude(IF interruption = "none" THEN "inconclusive" ELSE outcome, hard, interruption)
        /\ UNCHANGED <<handle>>
     \/ /\ interruption = "none"
        /\ \E o \in {"incompatible", "harness-error"} : Conclude(o, hard, interruption)
        /\ UNCHANGED <<handle>>
     \/ /\ interruption = "none" /\ pc' = "create" /\ armed' = "execution" /\ handle' = "connecting"
        /\ UNCHANGED <<group, outcome, cleanup>>
  /\ UNCHANGED <<aborted, reason, accepted, hard, interruption, grace, broken, running, inbox,
                 overdue, drifted, database, request>>

(* Creation is never raced against an interruption: its handle is awaited. *)
Created ==
  /\ pc = "create" /\ handle \in {"open", "failed", "uncertain"}
  /\ \/ /\ handle # "open" \/ interruption # "none"
        /\ Conclude(outcome, hard, interruption)
     \/ /\ handle = "open" /\ interruption = "none"
        /\ Conclude("incompatible", hard, interruption)
     \/ /\ handle = "open" /\ interruption = "none"
        /\ pc' = "supervise" /\ worker' = "starting"
        /\ UNCHANGED <<armed, code, kin, outcome, cleanup>>
  /\ UNCHANGED <<aborted, reason, accepted, hard, interruption, grace, broken, running, inbox,
                 overdue, drifted, owned>>

-----------------------------------------------------------------------------
(***************************************************************************)
(* The worker.                                                             *)
(***************************************************************************)
Worker == UNCHANGED <<pc, aborted, verdict, watch, overdue, drifted, owned>>

Send(m) == Len(inbox) < Messages /\ inbox' = Append(inbox, m)

Start ==
  /\ worker = "starting" /\ worker' = "loading" /\ UNCHANGED <<code, kin, inbox>> /\ Worker

(* Attached to the database: its deadline starts, and the parent is told. *)
Runs ==
  /\ worker = "loading" /\ worker' = "running"
  /\ Send([type |-> "running"]) /\ UNCHANGED <<code, kin>> /\ Worker

Reports(o) ==
  /\ worker = "running" /\ worker' = "reported"
  /\ Send([type |-> "result", outcome |-> o])
  /\ UNCHANGED <<code, kin>> /\ Worker

(* Loading, attaching, running or closing failed, or a failure came from   *)
(* outside the actors' promises.  After a result only the message is left. *)
Fails ==
  /\ worker \in {"loading", "running", "reported"}
  /\ worker' = IF worker = "reported" THEN "reported" ELSE "leaving"
  /\ Send([type |-> "error"]) /\ UNCHANGED <<code, kin>> /\ Worker

(* The scenario's own code writes to the channel, or a result claims       *)
(* another environment than the parent gave.                               *)
Strays ==
  /\ worker \in {"loading", "running", "reported"}
  /\ Send([type |-> "stray"]) /\ UNCHANGED <<group>> /\ Worker

Spawns ==
  /\ worker \in {"loading", "running"} /\ kin' = TRUE
  /\ UNCHANGED <<worker, code, inbox>> /\ Worker

(* It exits once its last message is written, or its scenario ends it. *)
Exits ==
  /\ Alive /\ worker' = "exited"
  /\ code' \in CASE worker = "reported" -> {"ok", "failed", "killed"}
                 [] worker = "leaving" -> {"failed", "killed"}
                 [] OTHER -> {"ok", "failed", "killed"}
  /\ UNCHANGED <<kin, inbox>> /\ Worker

Acts ==
  \/ Start \/ Runs \/ Spawns \/ Fails \/ Strays \/ Exits
  \/ \E o \in Results : Reports(o)

-----------------------------------------------------------------------------
(***************************************************************************)
(* The parent while the worker lives, and after it.                        *)
(***************************************************************************)
Breaks == broken' = TRUE /\ Kill /\ UNCHANGED <<accepted, reason, running, armed>>

IsFirstResult(m) == m.type = "result" /\ accepted = "none"

Receive ==
  LET m == Head(inbox)
  IN  /\ pc = "supervise" /\ inbox # <<>>
      /\ inbox' = Tail(inbox)
      /\ CASE IsFirstResult(m) ->
                accepted' = m.outcome /\ UNCHANGED <<broken, group, reason, running, armed>>
           [] m.type = "running" /\ accepted = "none" ->
                /\ running' = TRUE
                /\ armed' = IF interruption = "none" THEN "backstop" ELSE armed
                /\ UNCHANGED <<broken, group, accepted, reason>>
           [] m.type = "error" ->
                reason' = TRUE /\ UNCHANGED <<broken, group, accepted, running, armed>>
           [] OTHER -> Breaks
      /\ UNCHANGED <<pc, aborted, outcome, hard, cleanup, interruption, grace, overdue, drifted, owned>>

(* Mutation: a result is believed however its worker ended. *)
BelievesAnyExit == accepted # "none" /\ ~broken

Believes == accepted # "none" /\ ~broken /\ code = "ok"

(* The worker's exit is noticed, perhaps before its last messages are, or  *)
(* it could not be started.  One that dies after its own deadline was      *)
(* interrupted by it.                                                      *)
WorkerGone ==
  LET late == ~broken /\ ~Believes /\ running /\ overdue /\ interruption = "none"
      i    == IF late THEN "deadline" ELSE interruption
      o    == IF Believes THEN accepted ELSE outcome
  IN  /\ pc = "supervise"
      /\ worker \in {"exited", "starting"}
      /\ interruption' = i /\ grace' = FALSE
      /\ hard' = (Believes /\ accepted \in HardOutcome)
      /\ reason' = (reason \/ ~Believes \/ accepted \notin {"passed", "violation"})
      /\ IF i = "none"
         THEN pc' = "recapture" /\ outcome' = o /\ armed' = "off" /\ Kill /\ UNCHANGED cleanup
         ELSE Conclude(o, hard', i)
      /\ running' = FALSE /\ overdue' = FALSE /\ inbox' = <<>>
      /\ UNCHANGED <<aborted, accepted, broken, drifted, owned>>

(* unbound(): a result whose sources changed binds nothing, but a hard     *)
(* failure is still one.                                                   *)
Unbound(o) ==
  IF o = "actor-error" \/ (o = "harness-error" /\ reason) THEN "harness-error" ELSE "inconclusive"

(* Whether the second capture differs from the first, or may fail.         *)
Differs == drifted

Recaptured ==
  /\ pc = "recapture"
  /\ \/ ~Differs /\ interruption = "none" /\ Conclude(outcome, hard, interruption)
     \/ Conclude(Unbound(outcome), hard, interruption)
  /\ UNCHANGED <<aborted, reason, accepted, hard, interruption, grace, broken, running, inbox,
                 overdue, drifted, owned>>

Create == Creating /\ UNCHANGED run

Server == Execute /\ UNCHANGED run

Parent ==
  \/ Prepare \/ Captured \/ Create \/ Created \/ Receive \/ WorkerGone \/ Recaptured
  \/ \E ok \in BOOLEAN : CloseReturns(ok)

Timers == DeadlineFires \/ GraceEnds

-----------------------------------------------------------------------------
RunTypeOK ==
  /\ handle \in Handles /\ database \in {"none", "ours", "foreign"}
  /\ outcome \in Finished /\ accepted \in Finished \union {"none"}
  /\ interruption \in {"none", "cancelled", "deadline"}
  /\ pc \in {"supervise", "recapture", "close"} => handle = "open" /\ database = "ours"
  /\ Alive => pc = "supervise"

(* A run that reports complete cleanup has left nothing on the server, and *)
(* one that may have left its database says so as a harness error          *)
(* (database.ts:253).                                                      *)
CleanupIsHonest ==
  pc = "done" =>
    /\ cleanup => database # "ours" /\ request # "sent"
    /\ ~cleanup => outcome = "harness-error"

(* A verdict rests on a worker that reported it and ended by itself, that  *)
(* nothing interrupted, and whose sources were the same after it: not on   *)
(* a result that came before a crash, a stray message or the deadline.     *)
VerdictIsBound ==
  pc = "done" /\ outcome \in {"passed", "violation"} =>
    /\ outcome = accepted /\ code = "ok" /\ ~broken
    /\ interruption = "none" /\ ~drifted /\ cleanup

(* An application or cleanup failure that the parent accepted stays a hard *)
(* failure through an interruption, changed sources, failed cleanup and    *)
(* evidence that does not fit.                                             *)
HardFailureKept == pc = "done" /\ hard => outcome \in HardOutcome

(* The recorded outcome neither claims a verdict the worker did not earn   *)
(* nor drops a failure that was accepted (supervised.ts:285-308).          *)
ResultIsHonest == VerdictIsBound /\ HardFailureKept

================================================================================
