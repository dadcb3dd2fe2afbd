------------------------------- MODULE Scheduler -------------------------------
(***************************************************************************)
(* One execution of src/runner.ts: its loop, the callbacks its proxies and *)
(* actor tasks run, and the PostgreSQL backends it observes.               *)
(*                                                                         *)
(* The loop gives up control only where it awaits: pausing (pc "top"), an  *)
(* observation (pc "observe"), the invariant (pc "evaluate") and cleanup   *)
(* (pc "closing").  Everything from one await to the next is one action;   *)
(* callbacks interleave between them.                                      *)
(***************************************************************************)
EXTENDS Lanes, FiniteSets

CONSTANTS
  Multi,        \* connectionProfile is multi-producer-v1
  Pairs,        \* overlap is pairs
  Plans,        \* the plans a caller may pass; <<>> leaves every choice to fairLane
  Locks,        \* PostgreSQL locks; a command that needs one is named after it
  Commands,     \* commands an application may issue, a subset of Unit
  MaxSteps,     \* limits.maxSteps
  MaxCommands,  \* bound: commands issued on one connection
  MaxCancels,   \* bound: cancel requests sent
  Interrupts,   \* the deadline, an abort signal or the evidence limit may strike
  Failures,     \* a connection may fail under a running unit
  Rejections,   \* an actor's operation may throw
  Closes,       \* applications close connections they no longer need
  Abandons,     \* applications close connections inside a transaction
  Disturbances  \* lock timeouts, outside sessions and operations that return with
                \* commands or transactions open

Nobody  == [actor |-> "", connection |-> -1]  \* holds a free lock
Outside == [actor |-> "", connection |-> -2]  \* a session of no scheduled actor

Unit == {"plain", "copy", "commit"} \union Locks

ASSUME SchedulerAssumption ==
  /\ {Multi, Pairs, Interrupts, Failures, Rejections, Closes, Abandons, Disturbances}
       \subseteq BOOLEAN
  /\ MaxSteps \in Nat \ {0} /\ MaxCommands \in Nat /\ MaxCancels \in Nat
  /\ Commands \subseteq Unit
  /\ Locks \intersect {"none", "plain", "copy", "commit"} = {}
  /\ \A p \in Plans : p \in Seq(Seq(Entry)) /\ ValidPlan(p, Multi, Pairs)
  /\ \A a \in Actors : a # ""

VARIABLES
  \* the execution's own state
  pc,        \* where the loop waits
  todo,      \* lanes still to sample in this pass
  watch,     \* the observation under way: its lane and PostgreSQL's answer
  stale,     \* the pass under way began before the last runtime event
  laneWait,  \* the plan entry waited for, and whether nothing happened since
  head,      \* [Lane -> the unit its proxy announced, or "none"]: lane.queue
  running,   \* [Lane -> {"no", "unblocked", "blocked", "client"}]: lane.running
  trace,     \* the steps released, in order
  cancels,   \* result.cancels
  pending,   \* indices of cancels whose acknowledgement is awaited
  settled,   \* [Actors -> {"no", "fulfilled", "rejected"}]
  failure,   \* the first stop(), or "none"
  rejected,  \* applicationRejected
  outcome,   \* result.outcome, "none" until the loop is left
  plan,      \* options.plan
  \* the application, its connections and PostgreSQL
  conn,      \* [Lane -> {"new", "open", "leaving", "closed"}]
  quota,     \* [Lane -> commands the application may still issue]
  pg,        \* [Lane -> what its backend is doing]
  holder,    \* [Locks -> lane whose transaction holds it]
  unsignalled, \* indices of cancels PostgreSQL has yet to act on
  \* history: what this pass's observations confirmed since the last runtime event
  confirmed

loop  == <<pc, todo, watch, outcome>>
stops == <<failure, rejected>>
world == <<conn, quota, pg, holder>>
vars  == <<pc, todo, watch, stale, laneWait, head, running, trace, cancels, pending,
           settled, failure, rejected, outcome, plan, conn, quota, pg, holder,
           unsignalled, confirmed>>

-----------------------------------------------------------------------------
NoWait  == [entry |-> [actor |-> "", connection |-> AnyConnection], fresh |-> FALSE]
NoWatch == [lane |-> Nobody, answer |-> "none", blocker |-> Nobody]

Init ==
  /\ pc = "top" /\ todo = {} /\ watch = NoWatch /\ stale = FALSE /\ laneWait = NoWait
  /\ head = [l \in Lane |-> "none"] /\ running = [l \in Lane |-> "no"]
  /\ trace = <<>> /\ cancels = <<>> /\ pending = {} /\ unsignalled = {}
  /\ settled = [a \in Actors |-> "no"]
  /\ failure = "none" /\ rejected = FALSE /\ outcome = "none"
  /\ plan \in Plans
  /\ conn = [l \in Lane |-> "new"] /\ quota = [l \in Lane |-> MaxCommands]
  /\ pg = [l \in Lane |-> "none"]
  /\ holder \in [Locks -> {Nobody} \union (IF Disturbances THEN {Outside} ELSE {})]
  /\ confirmed = [l \in Lane |-> "nothing"]

(* livePids: backends announced and not yet disconnected. *)
Live == {l \in Lane : conn[l] \in {"open", "leaving"}}

(* The trace step that l runs, when it runs one: lane.running.step. *)
LastStep(l) == CHOOSE i \in 1 .. Len(trace) :
                 /\ trace[i].lane = l
                 /\ \A j \in i + 1 .. Len(trace) : trace[j].lane # l

UnitOf(l) == trace[LastStep(l)].unit

(* A decision's steps share the index of its first step: step.overlap. *)
Decisions == Cardinality({i \in 1 .. Len(trace) : trace[i].group = i})

(* stop(outcome): the first one wins. *)
Stop(o) == failure' = IF failure = "none" THEN o ELSE failure

(* runtimeEpoch++: the pass under way and the wait for a plan's lane are void. *)
RuntimeEventWithoutEpoch ==
  /\ UNCHANGED <<stale, laneWait>>
  /\ confirmed' = [l \in Lane |-> "nothing"]

RuntimeEvent ==
  /\ stale' = (pc = "observe")
  /\ laneWait' = [laneWait EXCEPT !.fresh = FALSE]
  /\ confirmed' = [l \in Lane |-> "nothing"]

NoRuntimeEvent == UNCHANGED <<stale, laneWait, confirmed>>

(* Callbacks return at once when the execution is finished. *)
Listening == pc \in {"top", "observe", "evaluate"}

-----------------------------------------------------------------------------
(***************************************************************************)
(* The application and its connections, as the proxies report them.        *)
(***************************************************************************)
ByActor(a) == {l \in Lane : l.actor = a}

Quiet(l) == head[l] = "none" /\ running[l] = "no"

Holding(l) == \E k \in Locks : holder[k] = l

(* The startup and connected events.  Generations count up; one at a time  *)
(* unless the profile is multi-producer.                                   *)
Connect(l) ==
  /\ Listening /\ conn[l] = "new" /\ settled[l.actor] = "no"
  /\ \A m \in ByActor(l.actor) :
       m.connection < l.connection => conn[m] # "new" /\ (Multi \/ conn[m] = "closed")
  /\ conn' = [conn EXCEPT ![l] = "open"]
  /\ pg' = [pg EXCEPT ![l] = "idle"]
  /\ RuntimeEvent
  /\ UNCHANGED <<loop, stops, head, running, trace, cancels, pending, settled, plan,
                 quota, holder, unsignalled>>

(* onUnit: the proxy announces a connection's next command once the one    *)
(* before it has been answered.  The quota bounds what a connection sends, *)
(* not the commit that ends what it began.                                 *)
Announce(l, u) ==
  /\ Listening /\ conn[l] = "open" /\ pg[l] \in {"idle", "answered"}
  /\ head[l] = "none"
  /\ IF u = "commit" THEN Holding(l) ELSE quota[l] > 0
  /\ settled[l.actor] = "no" \/ Disturbances
  /\ head' = [head EXCEPT ![l] = u]
  /\ quota' = IF u = "commit" THEN quota ELSE [quota EXCEPT ![l] = @ - 1]
  /\ NoRuntimeEvent
  /\ UNCHANGED <<loop, stops, running, trace, cancels, pending, settled, plan,
                 conn, pg, holder, unsignalled>>

(* The application closes an idle connection; its backend notices later,   *)
(* before or after both of the proxy's sockets have closed.                *)
LeaveConnection(l) ==
  /\ Closes /\ Listening /\ conn[l] = "open" /\ Quiet(l) /\ pg[l] = "idle"
  /\ Holding(l) => Abandons
  /\ conn' = [conn EXCEPT ![l] = "leaving"]
  /\ NoRuntimeEvent
  /\ UNCHANGED <<loop, stops, head, running, trace, cancels, pending, settled, plan,
                 quota, pg, holder, unsignalled>>

(* The disconnected event: the backend is no longer live for the loop. *)
Disconnected(l) ==
  /\ Listening /\ conn[l] = "leaving"
  /\ conn' = [conn EXCEPT ![l] = "closed"]
  /\ RuntimeEvent
  /\ UNCHANGED <<loop, stops, head, running, trace, cancels, pending, settled, plan,
                 quota, pg, holder, unsignalled>>

(* A connection fails under its running unit: onError stops the execution, *)
(* then the unit's promise rejects.                                        *)
ConnectionFails(l) ==
  /\ Failures /\ Listening /\ running[l] # "no" /\ pg[l] # "answered"
  /\ \E o \in {"inconclusive", "harness-error"} : Stop(o)
  /\ running' = [running EXCEPT ![l] = "no"]
  /\ conn' = [conn EXCEPT ![l] = "leaving"]
  /\ pg' = [pg EXCEPT ![l] = "idle"]
  /\ RuntimeEvent
  /\ UNCHANGED <<loop, rejected, head, trace, cancels, pending, settled, plan,
                 quota, holder, unsignalled>>

(* An actor's operation returns or throws.  Only a rejection seen before   *)
(* any interruption is the application's own failure.                      *)
Settle(a, status) ==
  /\ Listening /\ settled[a] = "no"
  /\ IF status = "rejected"
     THEN Rejections
     ELSE Disturbances \/ \A l \in ByActor(a) : Quiet(l) /\ ~Holding(l)
  /\ settled' = [settled EXCEPT ![a] = status]
  /\ rejected' = (rejected \/ (status = "rejected" /\ failure = "none"))
  /\ NoRuntimeEvent
  /\ UNCHANGED <<loop, failure, head, running, trace, cancels, pending, plan, world,
                 unsignalled>>

(* An actor asks PostgreSQL to cancel what a connection runs.  Its proxy   *)
(* forwards a request for one of the actor's own connections, and the      *)
(* record names the step running on it now; a request for another actor's  *)
(* connection is refused and ends the execution.                           *)
CancelRequest(a, l) ==
  LET index == Len(cancels) + 1
      own   == l.actor = a
  IN  /\ Listening /\ index <= MaxCancels /\ l \in Live
      /\ cancels' = Append(cancels,
           [lane |-> l, step |-> IF own /\ running[l] # "no" THEN LastStep(l) ELSE 0])
      /\ IF own
         THEN /\ pending' = pending \union {index}
              /\ unsignalled' = unsignalled \union {index}
              /\ UNCHANGED stops
         ELSE /\ Stop("inconclusive")
              /\ UNCHANGED <<pending, unsignalled, rejected>>
      /\ NoRuntimeEvent
      /\ UNCHANGED <<loop, head, running, trace, settled, plan, world>>

CancelAcknowledged(c) ==
  /\ Listening /\ c \in pending \ unsignalled
  /\ pending' = pending \ {c}
  /\ RuntimeEvent
  /\ UNCHANGED <<loop, stops, head, running, trace, cancels, settled, plan, world,
                 unsignalled>>

(* Five seconds without the acknowledgement: the proxy reports an error,   *)
(* which stops the execution, and only then settles the acknowledgement.   *)
CancelTimesOut(c) ==
  /\ Failures /\ Listening /\ c \in pending \intersect unsignalled
  /\ Stop("inconclusive")
  /\ pending' = pending \ {c}
  /\ RuntimeEvent
  /\ UNCHANGED <<loop, rejected, head, running, trace, cancels, settled, plan, world,
                 unsignalled>>

(* The deadline, an abort signal, or evidence that outgrew its limit. *)
Interrupt ==
  /\ Interrupts /\ Listening /\ failure = "none"
  /\ Stop("inconclusive")
  /\ NoRuntimeEvent
  /\ UNCHANGED <<loop, rejected, head, running, trace, cancels, pending, settled, plan,
                 world, unsignalled>>

-----------------------------------------------------------------------------
(***************************************************************************)
(* PostgreSQL.  A backend is "idle", was "sent" a command, is executing    *)
(* ("exec"), waits for a lock ("lockwait") or for its client ("copy"), or  *)
(* has "answered".                                                         *)
(***************************************************************************)
PgStep ==
  /\ Listening
  /\ UNCHANGED <<loop, stops, stale, laneWait, confirmed, head, running, trace,
                 cancels, pending, settled, plan, conn, quota>>

Waiting(l) == pg[l] = "lockwait"

(* The session l waits for: pg_blocking_pids. *)
Blocker(l) == holder[UnitOf(l)]

Freed(l) == [k \in Locks |-> IF holder[k] = l THEN Nobody ELSE holder[k]]

Execute(l) ==
  LET u == UnitOf(l)
  IN  /\ pg[l] = "sent"
      /\ IF u \in Locks
         THEN IF holder[u] \in {Nobody, l}
              THEN pg' = [pg EXCEPT ![l] = "exec"] /\ holder' = [holder EXCEPT ![u] = l]
              ELSE pg' = [pg EXCEPT ![l] = "lockwait"] /\ UNCHANGED holder
         ELSE /\ pg' = [pg EXCEPT ![l] = IF u = "copy" THEN "copy" ELSE "exec"]
              /\ UNCHANGED holder
      /\ PgStep /\ UNCHANGED unsignalled

Grant(l) ==
  /\ Waiting(l) /\ Blocker(l) = Nobody
  /\ pg' = [pg EXCEPT ![l] = "exec"]
  /\ holder' = [holder EXCEPT ![UnitOf(l)] = l]
  /\ PgStep /\ UNCHANGED unsignalled

(* The client ends its copy. *)
CopyDone(l) ==
  /\ pg[l] = "copy"
  /\ pg' = [pg EXCEPT ![l] = "exec"]
  /\ PgStep /\ UNCHANGED <<holder, unsignalled>>

Respond(l) ==
  /\ pg[l] = "exec"
  /\ pg' = [pg EXCEPT ![l] = "answered"]
  /\ holder' = IF UnitOf(l) = "commit" THEN Freed(l) ELSE holder
  /\ PgStep /\ UNCHANGED unsignalled

(* An error ends the command and its transaction. *)
Aborted(l) ==
  /\ pg' = [pg EXCEPT ![l] = "answered"]
  /\ holder' = Freed(l)

(* The deadlock detector ends one member of a cycle of waiting backends. *)
DeadlockVictim(l) ==
  /\ \E cycle \in SUBSET {m \in Lane : Waiting(m)} :
       /\ l \in cycle
       /\ cycle = {Blocker(m) : m \in cycle}
  /\ Aborted(l)
  /\ PgStep /\ UNCHANGED unsignalled

LockTimeout(l) ==
  /\ Disturbances /\ Waiting(l)
  /\ Aborted(l)
  /\ PgStep /\ UNCHANGED unsignalled

OutsideReleases(k) ==
  /\ holder[k] = Outside
  /\ holder' = [holder EXCEPT ![k] = Nobody]
  /\ PgStep /\ UNCHANGED <<pg, unsignalled>>

(* A forwarded cancel reaches the backend: what it executes is cancelled,  *)
(* an idle backend ignores it.                                             *)
CancelActs(c) ==
  LET l == cancels[c].lane
  IN  /\ c \in unsignalled
      /\ unsignalled' = unsignalled \ {c}
      /\ IF pg[l] \in {"exec", "lockwait", "copy"}
         THEN Aborted(l)
         ELSE UNCHANGED <<pg, holder>>
      /\ PgStep

(* A backend whose client left rolls back and exits. *)
BackendExits(l) ==
  /\ conn[l] \in {"leaving", "closed"} /\ pg[l] = "idle"
  /\ pg' = [pg EXCEPT ![l] = "gone"]
  /\ holder' = Freed(l)
  /\ PgStep /\ UNCHANGED unsignalled

(* The answer reached the proxy and the release's promise has resolved. *)
Complete(l) ==
  /\ Listening /\ pg[l] = "answered" /\ running[l] # "no"
  /\ running' = [running EXCEPT ![l] = "no"]
  /\ trace' = [trace EXCEPT ![LastStep(l)].done = TRUE]
  /\ pg' = [pg EXCEPT ![l] = "idle"]
  /\ RuntimeEvent
  /\ UNCHANGED <<loop, stops, head, cancels, pending, settled, plan, conn, quota, holder,
                 unsignalled>>

-----------------------------------------------------------------------------
(***************************************************************************)
(* The execution loop.                                                     *)
(***************************************************************************)
Loop == UNCHANGED <<cancels, pending, settled, failure, rejected, plan, conn, quota,
                    holder, unsignalled>>

Active(a) == \E l \in ByActor(a) : running[l] # "no" \/ head[l] # "none"

LoopOverOnceSettled == \A a \in Actors : settled[a] # "no"

LoopOver ==
  /\ \A a \in Actors : settled[a] # "no"
  /\ \A l \in Lane : Quiet(l)

EndPass ==
  /\ todo' = {} /\ watch' = NoWatch /\ stale' = FALSE
  /\ confirmed' = [l \in Lane |-> "nothing"]

(* Leave the loop with an Interrupted error: the catch block. *)
ThrowForgettingRejection(run, o) ==
  /\ pc' = "closing" /\ outcome' = o /\ EndPass
  /\ running' = run
  /\ UNCHANGED <<laneWait, head, trace, pg>>

ThrowSwallowed(run, o) ==
  /\ pc' = "top" /\ EndPass
  /\ running' = run
  /\ UNCHANGED <<laneWait, head, trace, pg, outcome>>

Throw(run, o) ==
  /\ pc' = "closing"
  /\ outcome' = IF rejected THEN "harness-error" ELSE o
  /\ EndPass
  /\ running' = run
  /\ UNCHANGED <<laneWait, head, trace, pg>>

(* Pause and start over; w is the wait for a plan's lane that continues. *)
Pause(run, w) ==
  /\ pc' = "top" /\ EndPass
  /\ running' = run /\ laneWait' = w
  /\ UNCHANGED <<head, trace, pg, outcome>>

OverflowsForOne(group) == Len(trace) + 1 > MaxSteps

Overflows(group) == Len(trace) + Len(group) > MaxSteps

(* Release a decision's units in one synchronous pass. *)
Release(run, group) ==
  LET first  == Len(trace) + 1
      chosen == {group[i] : i \in DOMAIN group}
  IN  IF Overflows(group)
      THEN Throw(run, "inconclusive")
      ELSE /\ pc' = "top" /\ EndPass /\ laneWait' = NoWait
           /\ trace' = trace \o [i \in DOMAIN group |->
                [lane |-> group[i], unit |-> head[group[i]], group |-> first, done |-> FALSE]]
           /\ running' = [l \in Lane |-> IF l \in chosen THEN "unblocked" ELSE run[l]]
           /\ head' = [l \in Lane |-> IF l \in chosen THEN "none" ELSE head[l]]
           /\ pg' = [l \in Lane |-> IF l \in chosen THEN "sent" ELSE pg[l]]
           /\ UNCHANGED outcome

(* A copy that waits for its client yields to its actor's held commands. *)
NeverYields(run, l) == FALSE

YieldsTo(run, l) ==
  /\ run[l] = "client"
  /\ \E m \in ByActor(l.actor) : m # l /\ run[m] = "no" /\ head[m] # "none"

YieldingActors(run) == {l.actor : l \in {m \in Lane : YieldsTo(run, m)}}

UnreadyWhileAnyRuns(run) ==
  \/ pending # {}
  \/ \E l \in Lane : run[l] # "no"
  \/ \E a \in Actors : settled[a] = "no" /\ ~Active(a)

UnreadyIgnoringCancels(run) ==
  \/ \E l \in Lane : run[l] \in {"unblocked", "client"} /\ ~YieldsTo(run, l)
  \/ \E a \in Actors : settled[a] = "no" /\ ~Active(a)

Unready(run) ==
  \/ pending # {}
  \/ \E l \in Lane : run[l] \in {"unblocked", "client"} /\ ~YieldsTo(run, l)
  \/ \E a \in Actors : settled[a] = "no" /\ ~Active(a)

Releasable(run) ==
  {l \in Lane : /\ head[l] # "none" /\ run[l] = "no"
                /\ YieldingActors(run) = {} \/ l.actor \in YieldingActors(run)}

(* lastActor's place among the names, and each actor's lastConnection. *)
Rotation ==
  IF trace = <<>> THEN 0 ELSE Position(trace[Len(trace)].lane.actor)

LastConnection ==
  [a \in Actors |->
     LET steps == {i \in 1 .. Len(trace) : trace[i].lane.actor = a}
     IN  IF steps = {} THEN -1
         ELSE trace[CHOOSE i \in steps : \A j \in steps : j <= i].lane.connection]

Resolve(run, e, taken) ==
  Resolution(e, Releasable(run) \ taken,
             {l \in Lane : run[l] # "no"} \union taken,
             {l \in Lane : conn[l] = "closed"},
             settled[e.actor] # "no", LastConnection)

(* A plan entry whose lane has no command yet: wait, but not for ever while *)
(* nothing else happens (laneWaitLimit).                                    *)
WaitFor(run, e) ==
  LET wait == [entry |-> e, fresh |-> TRUE]
  IN  \/ Pause(run, wait)
      \/ laneWait = wait /\ Throw(run, "incompatible")

RequestedChoiceByStep ==
  IF Len(trace) < Len(plan) THEN plan[Len(trace) + 1] ELSE <<>>

RequestedChoice ==
  IF Decisions < Len(plan) THEN plan[Decisions + 1] ELSE <<>>

ChooseFairly(run) ==
  \E l \in FairLanes(Releasable(run), Rotation, LastConnection) : Release(run, <<l>>)

Follow(run, choice) ==
  LET first == Resolve(run, choice[1], {})
  IN  \/ first.kind = "incompatible" /\ Throw(run, "incompatible")
      \/ first.kind = "wait" /\ WaitFor(run, choice[1])
      \/ \E l \in first.lanes :
           IF Len(choice) = 1
           THEN Release(run, <<l>>)
           ELSE LET second == Resolve(run, choice[2], {l})
                IN  \/ second.kind = "incompatible" /\ Throw(run, "incompatible")
                    \/ second.kind = "wait" /\ WaitFor(run, choice[2])
                    \/ \E m \in second.lanes : Release(run, <<l, m>>)

(* Everything after the last sample of a pass, up to the next await. *)
Decide(run) ==
  \/ Unready(run) /\ Pause(run, NoWait)
  \/ ~Unready(run) /\ Releasable(run) = {} /\ Pause(run, laneWait)
  \/ /\ ~Unready(run) /\ Releasable(run) # {}
     /\ IF Len(trace) >= MaxSteps
        THEN Throw(run, "inconclusive")
        ELSE IF RequestedChoice = <<>>
             THEN ChooseFairly(run)
             ELSE Follow(run, RequestedChoice)

Observe(l, rest) ==
  /\ pc' = "observe" /\ todo' = rest
  /\ watch' = [lane |-> l, answer |-> "asked", blocker |-> Nobody]
  /\ UNCHANGED <<confirmed, head, trace, pg, outcome>>

(* Start a pass: note the epoch and sample every lane with a unit in flight. *)
BeginPass ==
  /\ pc = "top" /\ failure = "none" /\ ~LoopOver
  /\ LET flying == {l \in Lane : running[l] # "no"}
     IN  IF flying = {}
         THEN Decide(running)
         ELSE \E l \in flying :
                /\ Observe(l, flying \ {l})
                /\ stale' = FALSE /\ UNCHANGED <<running, laneWait>>
  /\ Loop

(* observeWait(): PostgreSQL answers with what it sees at this moment. *)
ObserverAnswers ==
  LET l     == watch.lane
      lock  == Waiting(l) /\ Blocker(l) # Nobody
      answer == IF lock THEN "lock" ELSE IF pg[l] = "copy" THEN "client" ELSE "nothing"
  IN  /\ pc = "observe" /\ watch.answer = "asked"
      /\ watch' = [watch EXCEPT !.answer = answer,
                                !.blocker = IF lock THEN Blocker(l) ELSE Nobody]
      /\ confirmed' = IF running[l] = "no" THEN confirmed
                      ELSE [confirmed EXCEPT ![l] = answer]
      /\ UNCHANGED <<pc, todo, stale, laneWait, head, running, trace, pg, outcome>>
      /\ Loop

(* The blocker is no backend of a live scheduled connection: !ownBlockers. *)
ForeignWhenUnknown == watch.answer = "lock" /\ watch.blocker = Nobody

Foreign == watch.answer = "lock" /\ watch.blocker \notin Live

(* The sample arrives.  A runtime event since the pass began voids the     *)
(* pass; a wait for an unscheduled session ends the execution; a copy      *)
(* counts as waiting for its client only while the proxy still sees it     *)
(* copying.                                                                *)
SampleTaken ==
  LET l == watch.lane
      status == CASE watch.answer = "lock" -> "blocked"
                  [] watch.answer = "client" /\ pg[l] = "copy" -> "client"
                  [] OTHER -> "unblocked"
      run == IF running[l] = "no" THEN running ELSE [running EXCEPT ![l] = status]
  IN  /\ pc = "observe" /\ watch.answer # "asked" /\ failure = "none"
      /\ \/ stale /\ Pause(running, laneWait)
         \/ ~stale /\ Foreign /\ Throw(running, "inconclusive")
         \/ /\ ~stale /\ ~Foreign
            /\ IF todo = {}
               THEN Decide(run)
               ELSE \E m \in todo :
                      /\ Observe(m, todo \ {m})
                      /\ running' = run /\ UNCHANGED <<stale, laneWait>>
      /\ Loop

(* Every actor has settled and nothing is held or in flight. *)
LeaveLoop ==
  /\ pc = "top" /\ failure = "none" /\ LoopOver
  /\ \/ Len(plan) > Decisions /\ Throw(running, "incompatible")
     \/ /\ Len(plan) <= Decisions
        /\ IF \E a \in Actors : settled[a] = "rejected"
           THEN pc' = "closing" /\ outcome' = "actor-error"
           ELSE pc' = "evaluate" /\ UNCHANGED outcome
        /\ UNCHANGED <<todo, watch, stale, laneWait, confirmed, running, head, trace, pg>>
  /\ Loop

(* The invariant holds, fails its assertion, or fails in another way. *)
EvaluateInvariant ==
  /\ pc = "evaluate" /\ failure = "none"
  /\ pc' = "closing"
  /\ outcome' \in {"passed", "violation", "harness-error"}
  /\ UNCHANGED <<todo, watch, stale, laneWait, confirmed, running, head, trace, pg>>
  /\ Loop

(* check() finds that the execution was stopped. *)
NoticeStop ==
  /\ Listening /\ failure # "none"
  /\ Throw(running, failure)
  /\ Loop

(* finally: the proxies and the database are closed, or cannot be. *)
CleanUp ==
  /\ pc = "closing"
  /\ pc' = "done"
  /\ outcome' \in {outcome} \union (IF Failures THEN {"harness-error"} ELSE {})
  /\ UNCHANGED <<todo, watch, stale, laneWait, confirmed, running, head, trace, pg>>
  /\ Loop

Done == pc = "done" /\ UNCHANGED vars

-----------------------------------------------------------------------------
Run == BeginPass \/ SampleTaken \/ LeaveLoop \/ EvaluateInvariant \/ NoticeStop \/ CleanUp

Application ==
  \/ \E l \in Lane :
       \/ Connect(l)
       \/ \E u \in Commands : Announce(l, u)
       \/ LeaveConnection(l)
       \/ CopyDone(l)
       \/ \E a \in Actors : CancelRequest(a, l)
  \/ \E a \in Actors : \E status \in {"fulfilled", "rejected"} : Settle(a, status)

Proxy ==
  \/ \E l \in Lane : Complete(l) \/ Disconnected(l) \/ ConnectionFails(l)
  \/ \E c \in 1 .. MaxCancels : CancelAcknowledged(c) \/ CancelTimesOut(c)

Postgres ==
  \/ \E l \in Lane : \/ Execute(l) \/ Grant(l) \/ Respond(l) \/ DeadlockVictim(l)
                     \/ LockTimeout(l) \/ BackendExits(l)
  \/ \E k \in Locks : OutsideReleases(k)
  \/ \E c \in 1 .. MaxCancels : CancelActs(c)
  \/ ObserverAnswers

Next == Run \/ Application \/ Proxy \/ Postgres \/ Interrupt \/ Done

Spec == Init /\ [][Next]_vars

(* Timers and the event loop run; so do the observer's queries. *)
LoopFairness == WF_vars(Run \/ ObserverAnswers)

(* The run's deadline timer fires. *)
DeadlineFairness == WF_vars(Interrupt)

(* Clients that finish what they start, over a working database: a copy's  *)
(* data is produced once none of the actor's other commands is held back,  *)
(* a transaction that holds locks commits, and an operation whose          *)
(* connections are all idle returns.                                       *)
SystemFairness ==
  /\ \A l \in Lane :
       /\ WF_vars(Execute(l)) /\ WF_vars(Grant(l)) /\ WF_vars(Respond(l))
       /\ WF_vars(DeadlockVictim(l)) /\ WF_vars(BackendExits(l))
       /\ WF_vars(Complete(l)) /\ WF_vars(Disconnected(l))
       /\ WF_vars(Announce(l, "commit"))
       /\ WF_vars(CopyDone(l) /\ \A m \in ByActor(l.actor) \ {l} : head[m] = "none")
  /\ \A c \in 1 .. MaxCancels : WF_vars(CancelActs(c)) /\ WF_vars(CancelAcknowledged(c))
  /\ \A a \in Actors :
       WF_vars(Settle(a, "fulfilled"))

SpecWithDeadline == Spec /\ LoopFairness /\ DeadlineFairness

SpecWithProgress == Spec /\ LoopFairness /\ SystemFairness

-----------------------------------------------------------------------------
(***************************************************************************)
(* Properties.                                                             *)
(***************************************************************************)
Step == [lane : Lane, unit : Unit, group : Nat, done : BOOLEAN]

Outcomes == {"passed", "violation", "actor-error", "inconclusive", "incompatible",
             "harness-error"}

(* The shape of the execution's state; maxSteps bounds the trace, pairs    *)
(* included (runner.ts:391, 441).                                          *)
TypeOK ==
  /\ pc \in {"top", "observe", "evaluate", "closing", "done"}
  /\ todo \subseteq Lane
  /\ watch \in [lane : Lane \union {Nobody}, answer : {"none", "asked", "lock", "client", "nothing"},
                blocker : Lane \union {Nobody, Outside}]
  /\ stale \in BOOLEAN /\ rejected \in BOOLEAN
  /\ head \in [Lane -> Unit \union {"none"}]
  /\ running \in [Lane -> {"no", "unblocked", "blocked", "client"}]
  /\ trace \in Seq(Step) /\ Len(trace) <= MaxSteps
  /\ pending \subseteq Nat /\ unsignalled \subseteq Nat
  /\ settled \in [Actors -> {"no", "fulfilled", "rejected"}]
  /\ failure \in Outcomes \union {"none"} /\ outcome \in Outcomes \union {"none"}
  /\ conn \in [Lane -> {"new", "open", "leaving", "closed"}]
  /\ pg \in [Lane -> {"none", "idle", "sent", "exec", "lockwait", "copy", "answered", "gone"}]
  /\ holder \in [Locks -> Lane \union {Nobody, Outside}]
  /\ confirmed \in [Lane -> {"nothing", "lock", "client"}]

(* The loop keeps its release contract: every release finds the other      *)
(* units in flight confirmed waiting since the last runtime event, every   *)
(* actor accounted for and no cancel outstanding (runner.ts:345-388).      *)
Contract == INSTANCE ReleaseContract WITH
  held <- {l \in Lane : head[l] # "none"},
  flying <- {l \in Lane : running[l] # "no"},
  settled <- {a \in Actors : settled[a] # "no"},
  cancels <- pending,
  Cancels <- 1 .. MaxCancels,
  MaxGroup <- IF Pairs THEN 2 ELSE 1

HonoursContract == Contract!Spec

Released == {l \in Lane : pg'[l] = "sent" /\ pg[l] # "sent"}

(* A command for a lock that has been answered without it has failed. *)
Failed(l) == pg[l] = "answered" /\ UnitOf(l) \in Locks /\ holder[UnitOf(l)] # l

(* While no connection is closed inside a transaction, what the loop       *)
(* believes at a release is still true, although it was sampled some       *)
(* awaits earlier: every unit it takes for blocked waits for a lock that a *)
(* live scheduled connection holds.  PostgreSQL can end such a wait by     *)
(* itself, a deadlock or a timeout, and then its error is on its way       *)
(* (runner.ts:346-365).                                                    *)
OthersReallyWait ==
  [][Released # {} =>
       \/ \A l \in Lane : running'[l] = "blocked" => Waiting(l) /\ Blocker(l) \in Live
       \/ \E l \in Lane : running'[l] = "blocked" /\ Failed(l)]_vars

(* A cancel request can only hit the step its record names, however late   *)
(* PostgreSQL acts on it (runner.ts:146-148, 272-296).                     *)
CancelNamesItsStep ==
  \A c \in unsignalled :
    LET l == cancels[c].lane
    IN  running[l] # "no" => cancels[c].step = LastStep(l)

(* A verdict rests on complete evidence: every released step completed,    *)
(* every actor fulfilled, the whole plan used and nothing interrupted the  *)
(* execution (runner.ts:343, 509-512, 526, 557-566).                       *)
VerdictIsComplete ==
  outcome \in {"passed", "violation"} =>
    /\ failure = "none"
    /\ \A a \in Actors : settled[a] = "fulfilled"
    /\ \A i \in 1 .. Len(trace) : trace[i].done
    /\ Len(plan) <= Decisions

(* A rejection is never lost behind a later interruption, and a rejection  *)
(* the interruption caused is never blamed on the application              *)
(* (runner.ts:326-332, 558-560, 573-587).                                  *)
RejectionsReported ==
  /\ rejected => outcome \in {"none", "actor-error", "harness-error"}
  /\ outcome = "actor-error" => rejected /\ failure = "none"
  /\ failure # "none" /\ pc \in {"closing", "done"} /\ ~rejected
       => outcome \in {failure, "harness-error"}

(* The outcome of an execution says what happened in it: a verdict only of *)
(* a complete one, and the failure that was seen first.                    *)
OutcomeIsHonest == VerdictIsComplete /\ RejectionsReported

(* Decision k of an execution is what entry k of the plan asked for, pairs *)
(* released together and in the plan's order: an overlapped pair is one    *)
(* decision and two steps (runner.ts:143-145, 397-398).                    *)
Starts == {i \in 1 .. Len(trace) : trace[i].group = i}

Asked(step, e) ==
  /\ step.lane.actor = e.actor
  /\ e.connection \in {AnyConnection, step.lane.connection}

PlanFollowed ==
  \A k \in 1 .. Len(plan) :
    LET start == CHOOSE i \in Starts : Cardinality({j \in Starts : j <= i}) = k
        steps == {i \in 1 .. Len(trace) : trace[i].group = start}
    IN  k <= Decisions =>
          /\ steps = start .. start + Len(plan[k]) - 1
          /\ \A i \in DOMAIN plan[k] : Asked(trace[start + i - 1], plan[k][i])

(* Whatever the application and the database do, the deadline ends the     *)
(* execution with its cleanup (runner.ts:171, 178-189, 588-611).           *)
Terminates == <>(pc = "done")

(* No wedge: when clients and PostgreSQL make progress, the loop reaches a *)
(* verdict, or is stopped by a failure, without the deadline's help        *)
(* (runner.ts:343-388).                                                    *)
ReachesVerdict ==
  <>(outcome \in {"passed", "violation", "harness-error"} \/ failure # "none")

(* docs/api.md:189: while a unit is inside COPY and waits on its own       *)
(* client, "no other actor's command starts until the COPY completes or    *)
(* blocks"; runner.ts:376 says the same.                                   *)
CopyExcludesOtherActors ==
  [][\A l \in Released, m \in Lane : running[m] = "client" => l.actor = m.actor]_vars
================================================================================
