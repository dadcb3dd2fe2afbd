------------------------------- MODULE Recording -------------------------------
(***************************************************************************)
(* The evidence that src/runner.ts keeps of the execution that Scheduler   *)
(* describes, and the record it returns.  A time is only compared with     *)
(* releases and cancel requests, so the clock counts those.                *)
(***************************************************************************)
EXTENDS Scheduler, RunRecord, SequencesExt

VARIABLES
  taken,    \* of each step of the trace: at, done, available, waits
  arrivals  \* of each cancel request: at, forwarded

recorded == <<taken, arrivals>>

Clock == 1 + 2 * (Len(trace) + Len(cancels))

RecordingInit == Init /\ taken = <<>> /\ arrivals = <<>>

-----------------------------------------------------------------------------
(* Mutation: the choices that the decision left. *)
AvailableAfterwards ==
  LET chosen == {trace'[i].lane : i \in Len(trace) + 1 .. Len(trace')}
      lanes  == Releasable([l \in Lane |-> IF l \in chosen THEN "no" ELSE running'[l]]) \ chosen
  IN  IF Multi THEN lanes ELSE {l.actor : l \in lanes}

(* The choices when a decision was made, its own among them. *)
Available ==
  LET chosen == {trace'[i].lane : i \in Len(trace) + 1 .. Len(trace')}
      lanes  == Releasable([l \in Lane |-> IF l \in chosen THEN "no" ELSE running'[l]])
  IN  IF Multi THEN lanes ELSE {l.actor : l \in lanes}

(* A sample of the pass that is still valid saw step i wait for a lock. *)
SawWait(i) ==
  /\ pc = "observe" /\ watch.answer = "lock" /\ watch' # watch
  /\ failure = "none" /\ ~stale /\ watch.blocker \in Live
  /\ trace[i].lane = watch.lane /\ running[watch.lane] # "no" /\ i = LastStep(watch.lane)

StepTaken(i) ==
  [taken[i] EXCEPT !.done = IF trace'[i].done /\ ~trace[i].done THEN Clock - 1 ELSE @,
                   !.waits = IF SawWait(i) THEN @ \union {{watch.blocker}} ELSE @]

Record ==
  /\ taken' = [i \in DOMAIN trace' |->
       IF i \in DOMAIN trace THEN StepTaken(i)
       ELSE [at |-> Clock, done |-> Never, available |-> Available, waits |-> {}]]
  /\ arrivals' = [i \in DOMAIN cancels' |->
       IF i \in DOMAIN cancels THEN arrivals[i]
       ELSE [at |-> Clock, forwarded |-> i \in pending']]

RecordingNext == Next /\ Record

-----------------------------------------------------------------------------
(* Steps of one decision name the first of them when there are several. *)
Pair(i) ==
  IF \E j \in DOMAIN trace : j # i /\ trace[j].group = trace[i].group
  THEN trace[i].group ELSE 0

Copied(i) == trace[i].done /\ trace[i].unit = "copy"

(* Every unit is a complete cycle of its own. *)
RecordedStep(i) ==
  LET ordinal == Cardinality({j \in 1 .. i - 1 : trace[j].lane = trace[i].lane})
  IN  [lane |-> trace[i].lane, ordinal |-> ordinal, stage |-> "complete", cycle |-> ordinal,
       prefix |-> NoPrefix, at |-> taken[i].at, done |-> taken[i].done, error |-> FALSE,
       available |-> taken[i].available, waits |-> taken[i].waits, pair |-> Pair(i),
       copied |-> Copied(i)]

RecordedCancel(i) ==
  [lane |-> cancels[i].lane, step |-> cancels[i].step,
   at |-> arrivals[i].at, forwarded |-> arrivals[i].forwarded]

(* Mutation: only COPY makes a record one of version 5. *)
VersionOfCopies ==
  IF \E i \in DOMAIN trace : Copied(i) THEN 5
  ELSE IF Multi \/ Pairs THEN 4 ELSE 3

(* requireVersion5(): cancel requests and copies do. *)
Version ==
  IF cancels # <<>> \/ \E i \in DOMAIN trace : Copied(i) THEN 5
  ELSE IF Multi \/ Pairs THEN 4 ELSE 3

(* The result that the finally block leaves. *)
Artifact ==
  LET known == SelectSeq(Names, LAMBDA a : settled[a] # "no")
      Started(a) == SelectSeq([i \in 1 .. Generations |-> [actor |-> a, connection |-> i - 1]],
                              LAMBDA l : conn[l] # "new")
      admitted == FlattenSeq([i \in DOMAIN Names |-> Started(Names[i])])
  IN  [version |-> Version, profiled |-> Version >= 4, profile |-> "describe",
       multi |-> Multi, pairs |-> Pairs, outcome |-> outcome,
       failure |-> outcome = "violation",
       plan |-> plan, connections |-> admitted, duration |-> Clock,
       trace |-> [i \in DOMAIN trace |-> RecordedStep(i)],
       cancels |-> [i \in DOMAIN cancels |-> RecordedCancel(i)],
       actors |-> [i \in DOMAIN known |-> [actor |-> known[i], status |-> settled[known[i]]]]]

-----------------------------------------------------------------------------
RecordingVars == <<vars, recorded>>

RecordingSpec == RecordingInit /\ [][RecordingNext]_RecordingVars

RecordingSpecWithDeadline == RecordingSpec /\ LoopFairness /\ DeadlineFairness

(* Whatever happened, the record of the execution is one that its readers  *)
(* accept, so a verdict is never discarded as unrepresentable evidence;    *)
(* and so is what is kept of it when it is too large (runner.ts:611,       *)
(* evidence.ts:12-38). *)
RecordIsAccepted ==
  pc = "done" => Finalized(Artifact, TRUE) = Artifact /\ Accepts(Finalized(Artifact, FALSE))
================================================================================
