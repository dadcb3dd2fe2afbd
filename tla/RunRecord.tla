------------------------------- MODULE RunRecord -------------------------------
(***************************************************************************)
(* The record of one execution: what parseRunArtifact() of                 *)
(* src/artifact-schema.ts accepts, and what finalizeRunEvidence() of       *)
(* src/evidence.ts returns in place of a record that it refuses or that is *)
(* too large.  A generation has one backend, named by its lane; times are  *)
(* natural numbers; optional fields that only repeat others are left out.  *)
(***************************************************************************)
EXTENDS Lanes, FiniteSets, StageOrder

MaxActors == 8

Conclusive(run) == run.outcome \in {"passed", "violation", "actor-error"}

Admitted(run) == {run.connections[i] : i \in DOMAIN run.connections}

Settled(run) == {run.actors[i].actor : i \in DOMAIN run.actors}

(* Choices and blockers are lanes in multi-producer records, else actors. *)
Identity(run, lane) == IF run.multi THEN lane ELSE lane.actor

-----------------------------------------------------------------------------
(* Each version has what its predecessors cannot express, and says so. *)
VersionFits(run) ==
  /\ run.version \in 3 .. 5
  /\ run.profiled = (run.version >= 4)
  /\ run.multi \/ run.pairs => run.version >= 4
  /\ run.version = 4 => run.multi \/ run.pairs
  /\ run.profile = "flush" \/ run.cancels # <<>> => run.version = 5
  /\ run.version = 5 =>
       \/ run.profile = "flush" \/ run.cancels # <<>>
       \/ \E i \in DOMAIN run.trace : run.trace[i].copied

ConnectionsFit(run) ==
  \A i, j \in DOMAIN run.connections :
    LET c == run.connections[i]
        d == run.connections[j]
    IN  i < j /\ SameActor(c, d) => c.connection < d.connection

(* validateTraceStep(): a step was among the choices, all of them admitted *)
(* lanes, and continues its connection's numbering. *)
StepFits(run, i) ==
  LET step == run.trace[i]
  IN  /\ step.lane \in Admitted(run)
      /\ Identity(run, step.lane) \in step.available
      /\ run.multi => step.available \subseteq Admitted(run)
      /\ step.ordinal = Cardinality({j \in 1 .. i - 1 : run.trace[j].lane = step.lane})
      /\ step.done # Never => step.done >= step.at
      /\ step.copied => step.done # Never /\ run.version = 5

TimesFit(run) ==
  \A i \in DOMAIN run.trace :
    /\ i > 1 => run.trace[i - 1].at <= run.trace[i].at
    /\ run.trace[i].at <= run.duration /\ run.trace[i].done <= run.duration

(* validateOverlapPairs(): a pair is named by its first step. *)
PairFits(run, i) ==
  LET first  == run.trace[i].pair
      second == first + 1
  IN  /\ run.pairs /\ i \in {first, second} /\ second <= Len(run.trace)
      /\ LET f == run.trace[first]
             s == run.trace[second]
         IN  /\ f.pair = first /\ s.pair = first
             /\ Identity(run, f.lane) # Identity(run, s.lane)
             /\ f.at = s.at /\ f.available = s.available

(* validateWait(): each wait has blockers, other parties of the trace. *)
WaitsFit(run, step) ==
  \A blockers \in step.waits :
    /\ blockers # {}
    /\ \A blocker \in blockers :
         /\ \E j \in DOMAIN run.trace : run.trace[j].lane = blocker
         /\ Identity(run, blocker) # Identity(run, step.lane)

Running(step, lane, time) ==
  step.lane = lane /\ step.at <= time /\ step.done # Never /\ step.done > time

(* validateCancels(): a request hit the step that ran when it arrived. *)
CancelFits(run, i) ==
  LET cancel == run.cancels[i]
  IN  /\ cancel.at <= run.duration
      /\ i > 1 => run.cancels[i - 1].at <= cancel.at
      /\ cancel.forwarded => cancel.lane \in Admitted(run)
      /\ IF cancel.step # 0
         THEN /\ cancel.forwarded /\ cancel.step \in DOMAIN run.trace
              /\ LET step == run.trace[cancel.step]
                 IN  /\ step.lane = cancel.lane /\ step.at <= cancel.at
                     /\ step.done # Never => step.done >= cancel.at
         ELSE cancel.forwarded =>
                ~\E j \in DOMAIN run.trace : Running(run.trace[j], cancel.lane, cancel.at)

(* A conclusive record accounts for every actor it names. *)
ActorsFit(run) ==
  LET entries == UNION {{run.plan[i][j] : j \in DOMAIN run.plan[i]} : i \in DOMAIN run.plan}
      status  == {run.actors[i].status : i \in DOMAIN run.actors}
      choices == UNION {run.trace[i].available : i \in DOMAIN run.trace}
      named   == {e.actor : e \in entries} \union {l.actor : l \in Admitted(run)}
                   \union (IF run.multi THEN {} ELSE choices)
  IN  /\ Cardinality(Settled(run)) = Len(run.actors)
      /\ Cardinality(named \union Settled(run)) <= MaxActors
      /\ Conclusive(run) =>
           /\ Len(run.actors) >= 2 /\ named \subseteq Settled(run)
           /\ \A e \in entries : e.connection # AnyConnection =>
                [actor |-> e.actor, connection |-> e.connection] \in Admitted(run)
      /\ run.outcome \in {"passed", "violation"} => "rejected" \notin status
      /\ run.outcome = "actor-error" => "rejected" \in status

(* parseRunArtifact() *)
Accepts(run) ==
  /\ VersionFits(run)
  /\ ValidPlan(run.plan, run.multi, run.pairs)
  /\ ConnectionsFit(run)
  /\ \A i \in DOMAIN run.trace :
       /\ StepFits(run, i) /\ WaitsFit(run, run.trace[i])
       /\ run.trace[i].pair # 0 => PairFits(run, i)
  /\ TimesFit(run)
  /\ \A i \in DOMAIN run.cancels : CancelFits(run, i)
  /\ ActorsFit(run)
  /\ run.profile # "sync" => StagesAccepted(run.trace, run.profile, run.multi, Conclusive(run))
  /\ run.failure = (run.outcome = "violation")

-----------------------------------------------------------------------------
(* Mutation: an incomplete record keeps its version. *)
IncompleteAsBefore(run) ==
  [run EXCEPT !.outcome = IF @ \in {"actor-error", "harness-error"} THEN "harness-error" ELSE "inconclusive",
              !.failure = FALSE, !.plan = <<>>, !.trace = <<>>, !.cancels = <<>>,
              !.actors = <<>>, !.connections = <<>>]

(* What is kept of a record that cannot be represented: a hard failure     *)
(* stays one, and without its cancels and copies the record is of the      *)
(* version it began with. *)
Incomplete(run) ==
  LET version == IF run.version # 5 \/ run.profile = "flush" THEN run.version
                 ELSE IF run.multi \/ run.pairs THEN 4 ELSE 3
      hard    == run.outcome \in {"actor-error", "harness-error"}
  IN  [run EXCEPT !.outcome = IF hard THEN "harness-error" ELSE "inconclusive",
                  !.version = version, !.profiled = (version >= 4),
                  !.failure = FALSE, !.plan = <<>>, !.trace = <<>>, !.cancels = <<>>,
                  !.actors = <<>>, !.connections = <<>>]

(* finalizeRunEvidence(): small tells whether the record fits its limit. *)
Finalized(run, small) == IF Accepts(run) /\ small THEN run ELSE Incomplete(run)
================================================================================
