------------------------------- MODULE StageOrder -------------------------------
(***************************************************************************)
(* The order in which src/artifact-schema.ts lets the stages of recorded   *)
(* commands appear.  A step names its lane, its ordinal among that lane's  *)
(* commands, its stage and cycle, the ordinal of the stage it continues    *)
(* (prefix), when it was released and completed (at, done) and whether its *)
(* completion carries an error.                                            *)
(***************************************************************************)
EXTENDS Integers, Sequences

Never    == 0    \* the time of a completion that was not recorded
NoPrefix == -1

DoneBy(step, time) == step.done # Never /\ step.done <= time

(* The last step before step i among those that satisfy Of, or 0. *)
Latest(trace, i, Of(_)) ==
  LET earlier == {j \in 1 .. i - 1 : Of(trace[j])}
  IN  IF earlier = {} THEN 0 ELSE CHOOSE j \in earlier : \A k \in earlier : k <= j

Before(trace, i) == Latest(trace, i, LAMBDA s : s.lane = trace[i].lane)

BeforeOfActor(trace, i) == Latest(trace, i, LAMBDA s : s.lane.actor = trace[i].lane.actor)

(* A stage that leaves its cycle open, and one that belongs to a cycle     *)
(* that another one opened. *)
Opens(step) == step.stage \in {"describe", "flush"}

Continues(step, open) == step.cycle = open.cycle /\ step.prefix = open.ordinal

Begins(step, next) == step.cycle = next /\ step.prefix = NoPrefix

(* A stage starts a cycle of its lane or continues the open one: an error  *)
(* leaves only Sync. *)
FollowsOn(step, previous, profile) ==
  IF Opens(previous)
  THEN /\ Continues(step, previous)
       /\ step.stage \in IF previous.error THEN {"recover"}
                         ELSE IF profile = "flush" THEN {"flush", "sync"} ELSE {"execute"}
  ELSE /\ Begins(step, previous.cycle + 1)
       /\ step.stage \in {"complete", "describe"} \union (IF profile = "flush" THEN {"flush"} ELSE {})

(* Single-producer profile: a cycle that one connection of an actor left   *)
(* open keeps the actor's other connections out, and a describe cycle does *)
(* until its continuation has completed. *)
KeepsOut(step, previous, profile) ==
  /\ previous.lane # step.lane
  /\ \/ Opens(previous)
     \/ profile = "describe" /\ previous.stage \in {"execute", "recover"} /\ ~DoneBy(previous, step.at)

(* validateStageSequence() and validateFlushStageSequence().  conclusive:  *)
(* the record claims that every step completed. *)
StagesAccepted(trace, profile, multi, conclusive) ==
  /\ \A i \in DOMAIN trace :
       LET step == trace[i]
           own  == Before(trace, i)
           last == BeforeOfActor(trace, i)
       IN  /\ IF own = 0
              THEN /\ Begins(step, 0)
                   /\ step.stage \in {"complete", "describe"} \union (IF profile = "flush" THEN {"flush"} ELSE {})
              ELSE DoneBy(trace[own], step.at) /\ FollowsOn(step, trace[own], profile)
           /\ ~multi /\ last # 0 => ~KeepsOut(step, trace[last], profile)
           /\ conclusive => step.done # Never
           /\ conclusive /\ profile = "describe" /\ step.stage = "describe"
                => \E j \in i + 1 .. Len(trace) : trace[j].lane = step.lane
================================================================================
