---------------------------- MODULE Scheduler_proofs ----------------------------
(***************************************************************************)
(* Theorems about Scheduler for any actors, lanes, locks, commands, plans  *)
(* and limits: its type correctness, its refinement of ReleaseContract,    *)
(* the record a cancel request keeps, what an execution may report, how    *)
(* its decisions follow a plan and that the waits it relies on are real.   *)
(***************************************************************************)
EXTENDS Scheduler, Sums_proofs, FiniteSetTheorems, SequenceTheorems, TLAPS

Statuses == {"no", "unblocked", "blocked", "client"}

Cancel == [lane : Lane, step : Nat]

(* Step i is the last one that l was released for. *)
IsLast(l, i) ==
  /\ i \in 1 .. Len(trace)
  /\ trace[i].lane = l
  /\ \A j \in i + 1 .. Len(trace) : trace[j].lane # l

-----------------------------------------------------------------------------
(* What can stop an execution. *)
Aborts == {"inconclusive", "incompatible", "harness-error"}

(* The two ways a pass ends.  It pauses or throws ... *)
Idles(run) ==
  /\ \/ pc' = "top" /\ outcome' = outcome
     \/ pc' = "closing" /\ outcome' \in (IF rejected THEN {"harness-error"} ELSE Aborts)
  /\ EndPass
  /\ running' = run
  /\ UNCHANGED <<head, trace, pg>>

(* ... or releases l, and m with it when they differ. *)
NewStep(l) == [lane |-> l, unit |-> head[l], group |-> Len(trace) + 1, done |-> FALSE]

NewSteps(l, m) == IF l = m THEN 1 ELSE 2

(* They are the lanes the plan's next entry asks for, if it has one. *)
Obeys(l, m) ==
  LET choice == RequestedChoice
  IN  choice # <<>> =>
        /\ Len(choice) = NewSteps(l, m)
        /\ Asked(NewStep(l), choice[1])
        /\ Asked(NewStep(m), choice[NewSteps(l, m)])

Launches(run, l, m) ==
  /\ Obeys(l, m)
  /\ {l, m} \subseteq Releasable(run)
  /\ ~Unready(run)
  /\ l # m => Pairs
  /\ pc' = "top" /\ outcome' = outcome
  /\ EndPass
  /\ trace' \in Seq(Step)
  /\ Len(trace') = Len(trace) + NewSteps(l, m) /\ Len(trace') <= MaxSteps
  /\ \A i \in 1 .. Len(trace) : trace'[i] = trace[i]
  /\ trace'[Len(trace) + 1] = NewStep(l)
  /\ trace'[Len(trace) + NewSteps(l, m)] = NewStep(m)
  /\ running' = [n \in Lane |-> IF n \in {l, m} THEN "unblocked" ELSE run[n]]
  /\ head' = [n \in Lane |-> IF n \in {l, m} THEN "none" ELSE head[n]]
  /\ pg' = [n \in Lane |-> IF n \in {l, m} THEN "sent" ELSE pg[n]]

-----------------------------------------------------------------------------
(* The inductive invariant, in named parts. *)
Shape ==
  /\ TypeOK
  /\ cancels \in Seq(Cancel)
  /\ pending \subseteq 1 .. Len(cancels) /\ unsignalled \subseteq 1 .. Len(cancels)
  /\ Len(cancels) <= MaxCancels
  /\ plan \in Plans
  /\ failure \in Aborts \union {"none"}

(* An observation under way is of a lane. *)
Watching ==
  /\ pc # "observe" => todo = {}
  /\ pc = "observe" => watch.lane \in Lane /\ watch.answer # "none"

(* A unit in flight, or waiting in PostgreSQL, has a step in the trace. *)
Started ==
  \A l \in Lane :
    running[l] # "no" \/ pg[l] \in {"sent", "lockwait"} => \E i \in 1 .. Len(trace) : IsLast(l, i)

(* Only a command that needs a lock waits for one. *)
LocksOnly == \A l \in Lane : pg[l] = "lockwait" => UnitOf(l) \in Locks

(* What an undisturbed pass has concluded of a lane rests on an observation. *)
Sampled ==
  pc = "observe" /\ ~stale =>
    /\ \A l \in Lane \ (todo \union {watch.lane}) :
         /\ running[l] = "blocked" => confirmed[l] = "lock"
         /\ running[l] = "client" => confirmed[l] = "client"
    /\ watch.answer # "asked" /\ running[watch.lane] # "no"
         => confirmed[watch.lane] = watch.answer

(* Nothing is released while PostgreSQL has yet to act on a cancel. *)
CancelHolds ==
  \A c \in unsignalled : c \in pending \/ failure # "none"

Inductive ==
  Shape /\ Watching /\ Started /\ LocksOnly /\ Sampled /\ CancelHolds /\ CancelNamesItsStep

-----------------------------------------------------------------------------
(* The last step of a lane is unique, and LastStep finds it. *)
LEMMA LastUnique ==
  ASSUME NEW t, NEW l, NEW i, Len(t) \in Nat,
         i \in 1 .. Len(t), t[i].lane = l, \A j \in i + 1 .. Len(t) : t[j].lane # l
  PROVE  (CHOOSE k \in 1 .. Len(t) : /\ t[k].lane = l
                                     /\ \A j \in k + 1 .. Len(t) : t[j].lane # l) = i
<1> DEFINE P(k) == /\ t[k].lane = l
                   /\ \A j \in k + 1 .. Len(t) : t[j].lane # l
<1>1. \A k \in 1 .. Len(t) : P(k) => k = i
  OBVIOUS
<1>2. P(i)
  OBVIOUS
<1>3. (CHOOSE k \in 1 .. Len(t) : P(k)) = i
  <2> HIDE DEF P
  <2>. QED
    BY <1>1, <1>2
<1>. QED
  BY <1>3

LEMMA LastStepFound ==
  ASSUME NEW l, NEW i, Len(trace) \in Nat, IsLast(l, i)
  PROVE  LastStep(l) = i
  BY LastUnique DEF LastStep, IsLast

(* The trace after a step that keeps its lanes and units, or extends it. *)
LEMMA LastStepKept ==
  ASSUME NEW l, NEW i, IsLast(l, i), Len(trace) \in Nat, Len(trace') \in Nat,
         Len(trace') >= Len(trace),
         \A j \in 1 .. Len(trace) : /\ trace'[j].lane = trace[j].lane
                                    /\ trace'[j].unit = trace[j].unit,
         \A j \in Len(trace) + 1 .. Len(trace') : trace'[j].lane # l
  PROVE  IsLast(l, i)' /\ LastStep(l)' = LastStep(l) /\ UnitOf(l)' = UnitOf(l)
<1>1. i \in 1 .. Len(trace') /\ trace'[i].lane = l /\ \A j \in i + 1 .. Len(trace') : trace'[j].lane # l
  BY DEF IsLast
<1>2. LastStep(l)' = i
  BY <1>1, LastUnique DEF LastStep
<1>3. LastStep(l) = i
  BY LastStepFound
<1>. QED
  BY <1>1, <1>2, <1>3 DEF IsLast, UnitOf

-----------------------------------------------------------------------------
(* What a decision can be.                                                 *)
LEMMA StepLimit == MaxSteps \in Nat /\ MaxCancels \in Nat
  BY SchedulerAssumption

LEMMA TraceShape ==
  ASSUME Shape
  PROVE  trace \in Seq(Step) /\ Len(trace) \in Nat
  BY DEF Shape, TypeOK

LEMMA ResolvesReleasable ==
  ASSUME NEW e, NEW R, NEW B, NEW C, NEW s, NEW last
  PROVE  Resolution(e, R, B, C, s, last).lanes \subseteq R
  BY DEF Resolution, FairLanes

LEMMA PlanChoices ==
  ASSUME Shape, RequestedChoice # <<>>
  PROVE  Len(RequestedChoice) = 1 \/ (Len(RequestedChoice) = 2 /\ Pairs)
<1>1. plan \in Seq(Seq(Entry)) /\ ValidPlan(plan, Multi, Pairs)
  BY SchedulerAssumption DEF Shape
<1>2. Decisions \in Nat
  <2>1. Len(trace) \in Nat
    BY DEF Shape, TypeOK
  <2>2. IsFiniteSet(1 .. Len(trace))
    BY <2>1, FS_Interval
  <2>3. {i \in 1 .. Len(trace) : trace[i].group = i} \in SUBSET (1 .. Len(trace))
    OBVIOUS
  <2>. QED
    BY <2>2, <2>3, FS_Subset, FS_CardinalityType DEF Decisions
<1>3. Decisions + 1 \in DOMAIN plan /\ RequestedChoice = plan[Decisions + 1]
  BY <1>1, <1>2 DEF RequestedChoice
<1>. QED
  BY <1>1, <1>3 DEF ValidPlan, ValidChoice

LEMMA ThrowIdles ==
  ASSUME NEW STATE run, NEW o \in Aborts, Throw(run, o)
  PROVE  Idles(run)
  BY DEF Throw, Idles

LEMMA PauseIdles ==
  ASSUME NEW STATE run, NEW w, Shape, Pause(run, w)
  PROVE  Idles(run)
  BY DEF Pause, Idles, Shape, TypeOK

LEMMA WaitIdles ==
  ASSUME NEW STATE run, NEW e, Shape, WaitFor(run, e)
  PROVE  Idles(run)
  BY ThrowIdles, PauseIdles DEF WaitFor, Aborts

(* The steps a release appends. *)
Steps(group) ==
  [i \in DOMAIN group |->
     [lane |-> group[i], unit |-> head[group[i]], group |-> Len(trace) + 1, done |-> FALSE]]

LEMMA Appended ==
  ASSUME Shape, NEW k \in {1, 2}, NEW STATE group, DOMAIN group = 1 .. k,
         \A i \in 1 .. k : group[i] \in Lane /\ head[group[i]] # "none"
  PROVE  /\ trace \o Steps(group) \in Seq(Step)
         /\ Len(trace \o Steps(group)) = Len(trace) + k
         /\ \A i \in 1 .. Len(trace) : (trace \o Steps(group))[i] = trace[i]
         /\ \A i \in 1 .. k : (trace \o Steps(group))[Len(trace) + i] = NewStep(group[i])
<1>1. trace \in Seq(Step) /\ Len(trace) \in Nat
  BY DEF Shape, TypeOK
<1>2. \A i \in 1 .. k : NewStep(group[i]) \in Step
  BY <1>1 DEF Shape, TypeOK, NewStep, Step
<1>3. /\ Steps(group) \in [1 .. k -> Step]
      /\ \A i \in 1 .. k : Steps(group)[i] = NewStep(group[i])
  BY <1>2 DEF Steps, NewStep
<1>4. Steps(group) \in Seq(Step)
  BY <1>3, SeqDef
<1>5. Len(Steps(group)) = k
  BY <1>3, <1>4, LenProperties
<1>. QED
  BY <1>1, <1>3, <1>4, <1>5, ConcatProperties

LEMMA ReleasableLanes ==
  ASSUME NEW STATE run, NEW l \in Releasable(run)
  PROVE  l \in Lane /\ head[l] # "none" /\ run[l] = "no"
  BY DEF Releasable

LEMMA ReleasesOne ==
  ASSUME Shape, NEW STATE run, NEW l \in Releasable(run), ~Unready(run),
         Obeys(l, l), Release(run, <<l>>)
  PROVE  Idles(run) \/ Launches(run, l, l)
<1>1. CASE Overflows(<<l>>)
  BY <1>1, ThrowIdles DEF Release, Aborts
<1>2. CASE ~Overflows(<<l>>)
  <2>1. {<<l>>[i] : i \in DOMAIN <<l>>} = {l}
    OBVIOUS
  <2>2. trace' = trace \o Steps(<<l>>)
    BY <1>2 DEF Release, Steps
  <2>3. /\ trace' \in Seq(Step) /\ Len(trace') = Len(trace) + 1
        /\ \A i \in 1 .. Len(trace) : trace'[i] = trace[i]
        /\ trace'[Len(trace) + 1] = NewStep(l)
    BY <2>2, Appended, ReleasableLanes, DOMAIN <<l>> = 1 .. 1
  <2>4. Len(trace) + 1 <= MaxSteps
    <3>1. Len(<<l>>) = 1
      OBVIOUS
    <3>2. Len(trace) \in Nat /\ MaxSteps \in Nat
      BY StepLimit, TraceShape
    <3>. QED
      BY <1>2, <3>1, <3>2 DEF Overflows
  <2>. QED
    BY <1>2, <2>1, <2>3, <2>4 DEF Release, Launches, NewSteps
<1>. QED
  BY <1>1, <1>2

LEMMA ReleasesTwo ==
  ASSUME Shape, NEW STATE run, NEW l \in Releasable(run), NEW m \in Releasable(run),
         l # m, Pairs, ~Unready(run), Obeys(l, m), Release(run, <<l, m>>)
  PROVE  Idles(run) \/ Launches(run, l, m)
<1>1. CASE Overflows(<<l, m>>)
  BY <1>1, ThrowIdles DEF Release, Aborts
<1>2. CASE ~Overflows(<<l, m>>)
  <2>1. {<<l, m>>[i] : i \in DOMAIN <<l, m>>} = {l, m}
    OBVIOUS
  <2>2. trace' = trace \o Steps(<<l, m>>)
    BY <1>2 DEF Release, Steps
  <2>3. /\ trace' \in Seq(Step) /\ Len(trace') = Len(trace) + 2
        /\ \A i \in 1 .. Len(trace) : trace'[i] = trace[i]
        /\ trace'[Len(trace) + 1] = NewStep(l) /\ trace'[Len(trace) + 2] = NewStep(m)
    <3>1. DOMAIN <<l, m>> = 1 .. 2 /\ <<l, m>>[1] = l /\ <<l, m>>[2] = m
      OBVIOUS
    <3>2. \A i \in 1 .. 2 : <<l, m>>[i] \in Lane /\ head[<<l, m>>[i]] # "none"
      BY ReleasableLanes
    <3>3. 2 \in {1, 2} /\ 1 \in 1 .. 2 /\ 2 \in 1 .. 2
      OBVIOUS
    <3>4. /\ trace \o Steps(<<l, m>>) \in Seq(Step)
          /\ Len(trace \o Steps(<<l, m>>)) = Len(trace) + 2
          /\ \A i \in 1 .. Len(trace) : (trace \o Steps(<<l, m>>))[i] = trace[i]
          /\ \A i \in 1 .. 2 : (trace \o Steps(<<l, m>>))[Len(trace) + i] = NewStep(<<l, m>>[i])
      BY <3>1, <3>2, <3>3, Appended
    <3>. QED
      BY <2>2, <3>1, <3>3, <3>4
  <2>4. Len(trace) + 2 <= MaxSteps
    <3>1. Len(<<l, m>>) = 2
      OBVIOUS
    <3>2. Len(trace) \in Nat /\ MaxSteps \in Nat
      BY StepLimit, TraceShape
    <3>. QED
      BY <1>2, <3>1, <3>2 DEF Overflows
  <2>. QED
    BY <1>2, <2>1, <2>3, <2>4 DEF Release, Launches, NewSteps
<1>. QED
  BY <1>1, <1>2

(* What resolvePlanEntry() finds is what the entry asks for. *)
LEMMA ResolvesAsked ==
  ASSUME NEW STATE run, NEW e, NEW taken, NEW l \in Resolve(run, e, taken).lanes
  PROVE  Asked(NewStep(l), e)
<1>. NewStep(l).lane = l
  BY DEF NewStep
<1>. QED  BY DEF Resolve, Resolution, FairLanes, Asked

LEMMA FollowEnds ==
  ASSUME Shape, NEW STATE run, ~Unready(run),
         RequestedChoice # <<>>, Follow(run, RequestedChoice)
  PROVE  Idles(run) \/ \E l, m \in Lane : Launches(run, l, m)
<1> DEFINE choice == RequestedChoice
           first  == Resolve(run, choice[1], {})
<1>1. CASE first.kind = "incompatible" /\ Throw(run, "incompatible")
  BY <1>1, ThrowIdles DEF Aborts
<1>2. CASE first.kind = "wait" /\ WaitFor(run, choice[1])
  BY <1>2, WaitIdles
<1>3. ASSUME NEW l \in first.lanes, Len(choice) = 1, Release(run, <<l>>)
      PROVE  Idles(run) \/ \E m, n \in Lane : Launches(run, m, n)
  <2>1. l \in Releasable(run)
    BY <1>3, ResolvesReleasable DEF Resolve
  <2>2. Obeys(l, l)
    <3>1. Asked(NewStep(l), choice[1])
      BY <1>3, ResolvesAsked
    <3>. QED  BY <1>3, <3>1 DEF Obeys, NewSteps
  <2>. QED
    BY <1>3, <2>1, <2>2, ReleasesOne, ReleasableLanes
<1>4. ASSUME NEW l \in first.lanes, Len(choice) # 1,
             LET second == Resolve(run, choice[2], {l})
             IN  \/ second.kind = "incompatible" /\ Throw(run, "incompatible")
                 \/ second.kind = "wait" /\ WaitFor(run, choice[2])
                 \/ \E m \in second.lanes : Release(run, <<l, m>>)
      PROVE  Idles(run) \/ \E m, n \in Lane : Launches(run, m, n)
  <2> DEFINE second == Resolve(run, choice[2], {l})
  <2>1. l \in Releasable(run)
    BY <1>4, ResolvesReleasable DEF Resolve
  <2>2. Pairs
    BY <1>4, PlanChoices
  <2>3. CASE second.kind = "incompatible" /\ Throw(run, "incompatible")
    BY <2>3, ThrowIdles DEF Aborts
  <2>4. CASE second.kind = "wait" /\ WaitFor(run, choice[2])
    BY <2>4, WaitIdles
  <2>5. ASSUME NEW m \in second.lanes, Release(run, <<l, m>>)
        PROVE  Idles(run) \/ \E n, o \in Lane : Launches(run, n, o)
    <3>1. m \in Releasable(run) \ {l}
      BY <2>5, ResolvesReleasable DEF Resolve
    <3>2. l \in Lane /\ m \in Lane
      BY <2>1, <3>1, ReleasableLanes
    <3>3. Obeys(l, m)
      <4>1. Asked(NewStep(l), choice[1]) /\ Asked(NewStep(m), choice[2]) /\ Len(choice) = 2 /\ l # m
        BY <1>4, <2>5, <3>1, ResolvesAsked, PlanChoices
      <4>. QED  BY <4>1 DEF Obeys, NewSteps
    <3>4. Idles(run) \/ Launches(run, l, m)
      BY <2>1, <2>2, <2>5, <3>1, <3>3, ReleasesTwo
    <3>. QED
      BY <3>2, <3>4
  <2>. QED
    BY <1>4, <2>3, <2>4, <2>5
<1>. QED
  BY <1>1, <1>2, <1>3, <1>4 DEF Follow

LEMMA DecideEnds ==
  ASSUME Shape, NEW STATE run, Decide(run)
  PROVE  Idles(run) \/ \E l, m \in Lane : Launches(run, l, m)
<1>1. CASE Unready(run) /\ Pause(run, NoWait)
  BY <1>1, PauseIdles
<1>2. CASE ~Unready(run) /\ Releasable(run) = {} /\ Pause(run, laneWait)
  BY <1>2, PauseIdles
<1>3. CASE Throw(run, "inconclusive")
  BY <1>3, ThrowIdles DEF Aborts
<1>4. CASE ~Unready(run) /\ RequestedChoice = <<>> /\ ChooseFairly(run)
  <2>1. PICK l \in FairLanes(Releasable(run), Rotation, LastConnection) :
               Release(run, <<l>>)
    BY <1>4 DEF ChooseFairly
  <2>2. l \in Releasable(run) /\ l \in Lane
    BY <2>1, ReleasableLanes DEF FairLanes
  <2>3. Obeys(l, l)
    BY <1>4 DEF Obeys
  <2>. QED
    BY <1>4, <2>1, <2>2, <2>3, ReleasesOne
<1>5. CASE ~Unready(run) /\ RequestedChoice # <<>> /\ Follow(run, RequestedChoice)
  BY <1>5, FollowEnds
<1>. QED
  BY <1>1, <1>2, <1>3, <1>4, <1>5 DEF Decide

-----------------------------------------------------------------------------
(* Shape is inductive: the callbacks.                                      *)
LEMMA InitShape ==
  ASSUME Init
  PROVE  Shape
<1>1. trace \in Seq(Step) /\ Len(trace) <= MaxSteps
  BY StepLimit DEF Init
<1>2. cancels \in Seq(Cancel) /\ Len(cancels) <= MaxCancels
  BY StepLimit DEF Init
<1>3. holder \in [Locks -> Lane \union {Nobody, Outside}]
  BY DEF Init
<1>4. watch \in [lane : Lane \union {Nobody},
                answer : {"none", "asked", "lock", "client", "nothing"},
                blocker : Lane \union {Nobody, Outside}]
  BY DEF Init, NoWatch
<1>5. pending \subseteq Nat /\ unsignalled \subseteq Nat
  BY DEF Init
<1>. QED
  BY <1>1, <1>2, <1>3, <1>4, <1>5 DEF Init, Shape, TypeOK

LEMMA ConnectShape ==
  ASSUME Shape, NEW l \in Lane, Connect(l) \/ LeaveConnection(l) \/ Disconnected(l)
  PROVE  Shape'
<1>. USE DEF Shape, TypeOK, loop, stops
<1>1. CASE Connect(l)
  BY <1>1 DEF Connect, RuntimeEvent
<1>2. CASE LeaveConnection(l)
  BY <1>2 DEF LeaveConnection, NoRuntimeEvent
<1>3. CASE Disconnected(l)
  BY <1>3 DEF Disconnected, RuntimeEvent
<1>. QED
  BY <1>1, <1>2, <1>3

LEMMA AnnounceShape ==
  ASSUME Shape, NEW l \in Lane, NEW u \in Commands, Announce(l, u)
  PROVE  Shape'
<1>1. u \in Unit
  BY SchedulerAssumption
<1>2. head' \in [Lane -> Unit \union {"none"}]
  BY <1>1 DEF Announce, Shape, TypeOK
<1>. QED
  BY <1>2 DEF Shape, TypeOK, Announce, NoRuntimeEvent, loop, stops

LEMMA FailsShape ==
  ASSUME Shape, NEW l \in Lane, ConnectionFails(l)
  PROVE  Shape'
  BY DEF Shape, TypeOK, ConnectionFails, RuntimeEvent, Stop, loop, Outcomes, Aborts, Listening

LEMMA SettleShape ==
  ASSUME Shape, NEW a \in Actors, NEW status \in {"fulfilled", "rejected"}, Settle(a, status)
  PROVE  Shape'
  BY DEF Shape, TypeOK, Settle, NoRuntimeEvent, loop, world

LEMMA InterruptShape ==
  ASSUME Shape, Interrupt
  PROVE  Shape'
  BY DEF Shape, TypeOK, Interrupt, Stop, NoRuntimeEvent, loop, world, Outcomes, Aborts

LEMMA AcknowledgeShape ==
  ASSUME Shape, NEW c \in 1 .. MaxCancels, CancelAcknowledged(c) \/ CancelTimesOut(c)
  PROVE  Shape'
<1>. USE DEF Shape, TypeOK, RuntimeEvent, loop, stops, world
<1>1. CASE CancelAcknowledged(c)
  BY <1>1 DEF CancelAcknowledged
<1>2. CASE CancelTimesOut(c)
  BY <1>2 DEF CancelTimesOut, Stop, Outcomes, Aborts
<1>. QED
  BY <1>1, <1>2

LEMMA PgShape ==
  ASSUME Shape, PgStep, unsignalled' \subseteq unsignalled,
         pg' \in [Lane -> {"none", "idle", "sent", "exec", "lockwait", "copy", "answered", "gone"}],
         holder' \in [Locks -> Lane \union {Nobody, Outside}]
  PROVE  Shape'
  BY DEF Shape, TypeOK, PgStep, loop, stops

LEMMA RequestShape ==
  ASSUME Shape, Started, NEW l \in Lane, NEW a \in Actors, CancelRequest(a, l)
  PROVE  Shape'
<1> DEFINE record == [lane |-> l, step |-> IF l.actor = a /\ running[l] # "no" THEN LastStep(l) ELSE 0]
<1>1. running[l] # "no" => LastStep(l) \in Nat
  BY TraceShape, LastStepFound DEF Started, IsLast
<1>2. record \in Cancel
  BY <1>1 DEF Cancel
<1>3. /\ cancels' = Append(cancels, record) /\ Len(cancels) + 1 <= MaxCancels
      /\ pending' \subseteq pending \union {Len(cancels) + 1}
      /\ unsignalled' \subseteq unsignalled \union {Len(cancels) + 1}
  BY DEF CancelRequest
<1>4. /\ cancels' \in Seq(Cancel) /\ Len(cancels') = Len(cancels) + 1
      /\ pending' \subseteq 1 .. Len(cancels') /\ unsignalled' \subseteq 1 .. Len(cancels')
      /\ pending' \subseteq Nat /\ unsignalled' \subseteq Nat
  <2> HIDE DEF record
  <2>. QED
    BY <1>2, <1>3 DEF Shape
<1>5. failure' \in Outcomes \union {"none"} /\ failure' \in Aborts \union {"none"}
  BY DEF CancelRequest, Stop, stops, Shape, TypeOK, Outcomes, Aborts
<1>. QED
  BY <1>3, <1>4, <1>5, StepLimit DEF CancelRequest, NoRuntimeEvent, loop, stops, world, Shape, TypeOK

LEMMA PostgresShape ==
  ASSUME Shape, NEW l \in Lane,
         Execute(l) \/ Grant(l) \/ CopyDone(l) \/ Respond(l) \/ DeadlockVictim(l)
           \/ LockTimeout(l) \/ BackendExits(l)
  PROVE  Shape'
<1>1. Freed(l) \in [Locks -> Lane \union {Nobody, Outside}]
  BY DEF Freed, Shape, TypeOK
<1>. USE DEF Aborted
<1>2. PgStep /\ unsignalled' \subseteq unsignalled
  BY DEF Execute, Grant, CopyDone, Respond, DeadlockVictim, LockTimeout, BackendExits
<1>3. pg' \in [Lane -> {"none", "idle", "sent", "exec", "lockwait", "copy", "answered", "gone"}]
  BY DEF Execute, Grant, CopyDone, Respond, DeadlockVictim, LockTimeout, BackendExits, Shape, TypeOK
<1>4. holder' \in [Locks -> Lane \union {Nobody, Outside}]
  BY <1>1 DEF Execute, Grant, CopyDone, Respond, DeadlockVictim, LockTimeout, BackendExits, Shape, TypeOK
<1>. QED
  BY <1>2, <1>3, <1>4, PgShape

LEMMA OutsideShape ==
  ASSUME Shape, NEW k \in Locks, OutsideReleases(k)
  PROVE  Shape'
<1>1. holder' \in [Locks -> Lane \union {Nobody, Outside}]
  BY DEF OutsideReleases, Shape, TypeOK
<1>. QED
  BY <1>1, PgShape DEF OutsideReleases, Shape, TypeOK

LEMMA CancelActsShape ==
  ASSUME Shape, NEW c \in 1 .. MaxCancels, CancelActs(c)
  PROVE  Shape'
<1> DEFINE l == cancels[c].lane
<1>1. l \in Lane
  <2>1. cancels \in Seq(Cancel) /\ c \in 1 .. Len(cancels)
    BY DEF CancelActs, Shape
  <2>2. cancels[c] \in Cancel
    BY <2>1, ElementOfSeq
  <2>. QED
    BY <2>2 DEF Cancel
<1>2. Freed(l) \in [Locks -> Lane \union {Nobody, Outside}]
  BY <1>1 DEF Freed, Shape, TypeOK
<1>3. pg' \in [Lane -> {"none", "idle", "sent", "exec", "lockwait", "copy", "answered", "gone"}]
  BY <1>1 DEF CancelActs, Aborted, Shape, TypeOK
<1>4. holder' \in [Locks -> Lane \union {Nobody, Outside}]
  BY <1>2 DEF CancelActs, Aborted, Shape, TypeOK
<1>. QED
  BY <1>3, <1>4, PgShape DEF CancelActs

LEMMA CompleteShape ==
  ASSUME Shape, Started, NEW l \in Lane, Complete(l)
  PROVE  /\ Shape' /\ Len(trace') = Len(trace)
         /\ \A i \in 1 .. Len(trace) : /\ trace'[i].lane = trace[i].lane
                                       /\ trace'[i].unit = trace[i].unit
                                       /\ trace'[i].group = trace[i].group
<1>1. LastStep(l) \in 1 .. Len(trace)
  BY TraceShape, LastStepFound DEF Started, IsLast, Complete
<1>2. trace' = [trace EXCEPT ![LastStep(l)].done = TRUE]
  BY DEF Complete
<1>3. /\ trace' \in Seq(Step) /\ Len(trace') = Len(trace)
      /\ \A i \in 1 .. Len(trace) : /\ trace'[i].lane = trace[i].lane
                                    /\ trace'[i].unit = trace[i].unit
                                    /\ trace'[i].group = trace[i].group
  <2> DEFINE k    == LastStep(l)
             step == [trace[k] EXCEPT !.done = TRUE]
  <2>1. trace \in Seq(Step) /\ trace[k] \in Step
    BY <1>1, TraceShape, ElementOfSeq
  <2>2. step \in Step /\ step.lane = trace[k].lane /\ step.unit = trace[k].unit
      /\ step.group = trace[k].group
    BY <2>1 DEF Step
  <2>3. trace' = [trace EXCEPT ![k] = step]
    BY <1>2
  <2> HIDE DEF k, step
  <2>4. /\ [trace EXCEPT ![k] = step] \in Seq(Step)
        /\ Len([trace EXCEPT ![k] = step]) = Len(trace)
        /\ \A j \in 1 .. Len(trace) :
             [trace EXCEPT ![k] = step][j] = IF j = k THEN step ELSE trace[j]
    BY <1>1, <2>1, <2>2, ExceptSeq DEF k
  <2>. QED
    BY <2>2, <2>3, <2>4
<1>. QED
  BY <1>3 DEF Complete, RuntimeEvent, loop, stops, Shape, TypeOK, Listening

-----------------------------------------------------------------------------
(* The loop's steps.                                                       *)
(* What a pass has made of the lanes: run differs from running only in how *)
(* the units in flight wait.                                               *)
Judged(run) ==
  /\ run \in [Lane -> Statuses]
  /\ \A l \in Lane : run[l] = "no" <=> running[l] = "no"

LEMMA RunningJudged ==
  ASSUME Shape
  PROVE  Judged(running)
  BY DEF Judged, Shape, TypeOK, Statuses

LEMMA IdlesShape ==
  ASSUME Shape, NEW STATE run, Judged(run), Idles(run), Loop
  PROVE  Shape'
  BY DEF Shape, TypeOK, Judged, Idles, Aborts, Outcomes, Loop, EndPass, NoWatch, Statuses

LEMMA LaunchesShape ==
  ASSUME Shape, NEW STATE run, NEW l \in Lane, NEW m \in Lane,
         Judged(run), Launches(run, l, m), Loop
  PROVE  Shape'
  BY DEF Shape, TypeOK, Judged, Launches, Loop, EndPass, NoWatch, Statuses

(* The pass turns to another lane. *)
Observes(run) ==
  /\ \E l \in Lane, rest \in SUBSET Lane : Observe(l, rest) /\ todo \subseteq rest \union {l}
  /\ running' = run

(* What SampleTaken makes of the lanes. *)
Sample == CASE watch.answer = "lock" -> "blocked"
            [] watch.answer = "client" /\ pg[watch.lane] = "copy" -> "client"
            [] OTHER -> "unblocked"

SampledRun ==
  IF running[watch.lane] = "no" THEN running ELSE [running EXCEPT ![watch.lane] = Sample]

(* The loop leaves its passes with nothing else changed. *)
Rests ==
  /\ pc # "observe" /\ pc' \in {"evaluate", "closing", "done"}
  /\ outcome' \in Outcomes \union {"none"}
  /\ UNCHANGED <<todo, watch, stale, confirmed, running, head, trace, pg>>

LEMMA ObservesShape ==
  ASSUME Shape, NEW STATE run, Judged(run), Observes(run), stale' \in BOOLEAN, Loop
  PROVE  Shape'
<1>1. todo' \in SUBSET Lane /\ pc' = "observe"
  BY DEF Observes, Observe
<1>2. watch' \in [lane : Lane \union {Nobody},
                 answer : {"none", "asked", "lock", "client", "nothing"},
                 blocker : Lane \union {Nobody, Outside}]
  BY DEF Observes, Observe
<1>. QED
  BY <1>1, <1>2 DEF Shape, TypeOK, Judged, Observes, Observe, Loop, Statuses

LEMMA RestsShape ==
  ASSUME Shape, Rests, Loop
  PROVE  Shape'
  BY DEF Shape, TypeOK, Rests, Loop

LEMMA SampledJudged ==
  ASSUME Shape, Watching, pc = "observe"
  PROVE  Judged(SampledRun)
<1>1. watch.lane \in Lane /\ Sample \in {"unblocked", "blocked", "client"}
  BY DEF Watching, Sample
<1>2. running \in [Lane -> Statuses]
  BY DEF Shape, TypeOK, Statuses
<1> HIDE DEF Sample
<1>. QED
  BY <1>1, <1>2 DEF Judged, SampledRun, Statuses

(* BeginPass ends its pass, or observes every lane with a unit in flight. *)
LEMMA BeginEnds ==
  ASSUME Shape, Watching, BeginPass
  PROVE  /\ failure = "none" /\ Loop
         /\ \/ Idles(running)
            \/ /\ \A l \in Lane : running[l] = "no"
               /\ \E l, m \in Lane : Launches(running, l, m)
            \/ /\ Observes(running) /\ stale' = FALSE
               /\ \A l \in Lane : running[l] # "no" => l \in todo' \union {watch'.lane}
<1> DEFINE flying == {l \in Lane : running[l] # "no"}
<1>1. CASE flying = {} /\ Decide(running)
  BY <1>1, DecideEnds DEF BeginPass
<1>2. CASE \E l \in flying : /\ Observe(l, flying \ {l})
                             /\ stale' = FALSE /\ UNCHANGED <<running, laneWait>>
  <2>1. PICK l \in flying : /\ Observe(l, flying \ {l})
                            /\ stale' = FALSE /\ UNCHANGED <<running, laneWait>>
    BY <1>2
  <2>2. todo = {}
    BY DEF Watching, BeginPass
  <2>3. todo' = flying \ {l} /\ watch'.lane = l
    BY <2>1 DEF Observe
  <2>. QED
    BY <2>1, <2>2, <2>3 DEF Observes, BeginPass
<1>. QED
  BY <1>1, <1>2 DEF BeginPass

(* SampleTaken drops the pass, or counts the sample and goes on with it. *)
LEMMA SampleEnds ==
  ASSUME Shape, Watching, SampleTaken
  PROVE  /\ pc = "observe" /\ failure = "none" /\ watch.answer # "asked" /\ Loop
         /\ \/ Idles(running)
            \/ /\ ~stale /\ ~Foreign /\ todo = {}
               /\ Idles(SampledRun) \/ \E l, m \in Lane : Launches(SampledRun, l, m)
            \/ /\ Observes(SampledRun) /\ ~Foreign /\ UNCHANGED stale
<1>1. pc = "observe" /\ failure = "none" /\ watch.answer # "asked" /\ Loop
  BY DEF SampleTaken
<1>2. CASE stale /\ Pause(running, laneWait)
  BY <1>1, <1>2, PauseIdles
<1>3. CASE Throw(running, "inconclusive")
  BY <1>1, <1>3, ThrowIdles DEF Aborts
<1>4. CASE ~stale /\ ~Foreign /\ todo = {} /\ Decide(SampledRun)
  BY <1>1, <1>4, DecideEnds
<1>5. CASE ~Foreign /\ \E m \in todo : /\ Observe(m, todo \ {m})
                                       /\ running' = SampledRun /\ UNCHANGED <<stale, laneWait>>
  <2>1. PICK m \in todo : /\ Observe(m, todo \ {m})
                          /\ running' = SampledRun /\ UNCHANGED <<stale, laneWait>>
    BY <1>5
  <2>2. todo \in SUBSET Lane
    BY DEF Shape, TypeOK
  <2>. QED
    BY <1>1, <1>5, <2>1, <2>2 DEF Observes
<1>. QED
  BY <1>2, <1>3, <1>4, <1>5, <1>1 DEF SampleTaken, SampledRun, Sample

LEMMA AnswerShape ==
  ASSUME Shape, Watching, Started, LocksOnly, ObserverAnswers
  PROVE  Shape'
<1> DEFINE l == watch.lane
<1>1. l \in Lane
  BY DEF Watching, ObserverAnswers
<1>2. Waiting(l) => Blocker(l) \in Lane \union {Nobody, Outside}
  BY <1>1 DEF Waiting, Blocker, LocksOnly, Shape, TypeOK
<1>3. watch' \in [lane : Lane \union {Nobody},
                 answer : {"none", "asked", "lock", "client", "nothing"},
                 blocker : Lane \union {Nobody, Outside}]
  <2>1. watch \in [lane : Lane \union {Nobody},
                  answer : {"none", "asked", "lock", "client", "nothing"},
                  blocker : Lane \union {Nobody, Outside}]
    BY DEF Shape, TypeOK
  <2>. QED
    BY <1>2, <2>1 DEF ObserverAnswers
<1>4. confirmed' \in [Lane -> {"nothing", "lock", "client"}]
  BY DEF ObserverAnswers, Shape, TypeOK
<1>. QED
  BY <1>3, <1>4 DEF ObserverAnswers, Loop, Shape, TypeOK

-----------------------------------------------------------------------------
(***************************************************************************)
(* The rest of the invariant.  A calm step is one outside the loop: it     *)
(* releases nothing, and either voids the pass under way or leaves what it *)
(* relies on alone.                                                        *)
(***************************************************************************)
SameSteps ==
  /\ Len(trace') = Len(trace)
  /\ \A i \in 1 .. Len(trace) : /\ trace'[i].lane = trace[i].lane
                                /\ trace'[i].unit = trace[i].unit

PgMoves ==
  \A l \in Lane :
    pg'[l] \in {"sent", "lockwait"} =>
      \/ pg'[l] = pg[l]
      \/ pg[l] = "sent" /\ UnitOf(l) \in Locks

CancelsMove ==
  /\ unsignalled' \subseteq unsignalled
  /\ \A c \in unsignalled' : /\ cancels'[c] = cancels[c]
                             /\ c \in pending => c \in pending' \/ failure' # "none"
  /\ failure # "none" => failure' # "none"

NoStarts == \A l \in Lane : running'[l] # "no" => running[l] # "no"

Calm ==
  /\ UNCHANGED <<pc, todo, watch>>
  /\ SameSteps /\ NoStarts /\ PgMoves /\ CancelsMove
  /\ stale' = (pc = "observe") \/ UNCHANGED <<stale, running, confirmed>>

LEMMA StepsKept ==
  ASSUME Shape, Shape', SameSteps
  PROVE  \A l \in Lane : \A i \in 1 .. Len(trace) :
           IsLast(l, i) => IsLast(l, i)' /\ LastStep(l)' = LastStep(l) /\ UnitOf(l)' = UnitOf(l)
<1>1. Len(trace) \in Nat /\ Len(trace') \in Nat
  BY TraceShape DEF SameSteps
<1>. QED
  BY <1>1, LastStepKept DEF SameSteps

LEMMA StartedKept ==
  ASSUME Shape, Shape', Started, LocksOnly, SameSteps, NoStarts, PgMoves
  PROVE  Started' /\ LocksOnly'
<1>1. ASSUME NEW l \in Lane, running'[l] # "no" \/ pg'[l] \in {"sent", "lockwait"}
      PROVE  /\ \E i \in 1 .. Len(trace') : IsLast(l, i)'
             /\ UnitOf(l)' = UnitOf(l)
  <2>1. running[l] # "no" \/ pg[l] \in {"sent", "lockwait"}
    BY <1>1 DEF NoStarts, PgMoves
  <2>2. PICK i \in 1 .. Len(trace) : IsLast(l, i)
    BY <2>1 DEF Started
  <2>. QED
    BY <2>2, StepsKept DEF SameSteps
<1>2. Started'
  BY <1>1 DEF Started
<1>3. LocksOnly'
  BY <1>1 DEF LocksOnly, PgMoves
<1>. QED
  BY <1>2, <1>3

LEMMA CancelsKept ==
  ASSUME Shape, Shape', Started, CancelHolds, CancelNamesItsStep,
         SameSteps, NoStarts, CancelsMove
  PROVE  CancelHolds' /\ CancelNamesItsStep'
<1>1. CancelHolds'
  BY DEF CancelHolds, CancelsMove
<1>2. ASSUME NEW c \in unsignalled', running'[cancels'[c].lane] # "no"
      PROVE  (cancels[c].step = LastStep(cancels[c].lane))'
  <2>1. c \in unsignalled /\ cancels'[c] = cancels[c]
    BY <1>2 DEF CancelsMove
  <2>2. cancels[c] \in Cancel
    BY <2>1, ElementOfSeq DEF Shape
  <2>3. PICK l \in Lane : l = cancels[c].lane
    BY <2>2 DEF Cancel
  <2>4. running[l] # "no"
    BY <1>2, <2>1, <2>3 DEF NoStarts
  <2>5. PICK i \in 1 .. Len(trace) : IsLast(l, i)
    BY <2>4 DEF Started
  <2>6. LastStep(l)' = LastStep(l)
    BY <2>5, StepsKept
  <2>7. cancels[c].step = LastStep(l)
    BY <2>1, <2>3, <2>4 DEF CancelNamesItsStep
  <2>8. cancels'[c].lane = l /\ cancels'[c].step = cancels[c].step
    BY <2>1, <2>3
  <2>9. LastStep(cancels[c].lane)' = LastStep(l)'
    BY <2>8 DEF LastStep
  <2>. QED
    BY <2>6, <2>7, <2>8, <2>9
<1>. QED
  BY <1>1, <1>2 DEF CancelNamesItsStep

LEMMA CalmKeeps ==
  ASSUME Inductive, Shape', Calm
  PROVE  Inductive'
<1>1. Watching'
  BY DEF Inductive, Watching, Calm
<1>2. Started' /\ LocksOnly'
  BY StartedKept DEF Inductive, Calm
<1>3. Sampled'
  <2>1. CASE stale' = (pc = "observe")
    BY <2>1 DEF Sampled, Calm
  <2>2. CASE UNCHANGED <<stale, running, confirmed>>
    BY <2>2 DEF Inductive, Sampled, Calm
  <2>. QED
    BY <2>1, <2>2 DEF Calm
<1>4. CancelHolds' /\ CancelNamesItsStep'
  <2>1. Shape /\ Started /\ CancelHolds /\ CancelNamesItsStep
    BY DEF Inductive
  <2>2. SameSteps /\ NoStarts /\ CancelsMove
    BY DEF Calm
  <2>. QED
    BY <2>1, <2>2, CancelsKept
<1>. QED
  BY <1>1, <1>2, <1>3, <1>4 DEF Inductive

(* Every callback and every step of PostgreSQL outside an observation is   *)
(* calm.                                                                   *)
LEMMA ConnectionsCalm ==
  ASSUME Inductive, NEW l \in Lane,
         Connect(l) \/ LeaveConnection(l) \/ Disconnected(l) \/ ConnectionFails(l)
           \/ \E u \in Commands : Announce(l, u)
  PROVE  Calm
<1>1. Shape
  BY DEF Inductive
<1>. USE <1>1 DEF Shape, TypeOK, Calm, SameSteps, NoStarts, PgMoves, CancelsMove, loop, stops, world
<1>2. CASE Connect(l)
  BY <1>2 DEF Connect, RuntimeEvent
<1>3. CASE LeaveConnection(l)
  BY <1>3 DEF LeaveConnection, NoRuntimeEvent
<1>4. CASE Disconnected(l)
  BY <1>4 DEF Disconnected, RuntimeEvent
<1>5. CASE ConnectionFails(l)
  BY <1>5 DEF ConnectionFails, RuntimeEvent, Stop
<1>6. CASE \E u \in Commands : Announce(l, u)
  BY <1>6 DEF Announce, NoRuntimeEvent
<1>. QED
  BY <1>2, <1>3, <1>4, <1>5, <1>6

LEMMA SignalsCalm ==
  ASSUME Inductive,
         \/ Interrupt
         \/ \E a \in Actors, status \in {"fulfilled", "rejected"} : Settle(a, status)
         \/ \E c \in 1 .. MaxCancels : CancelAcknowledged(c) \/ CancelTimesOut(c)
  PROVE  Calm
<1>1. Shape
  BY DEF Inductive
<1>. USE <1>1 DEF Shape, TypeOK, Calm, SameSteps, NoStarts, PgMoves, CancelsMove, loop, stops, world
<1>2. CASE Interrupt
  BY <1>2 DEF Interrupt, NoRuntimeEvent, Stop
<1>3. CASE \E a \in Actors, status \in {"fulfilled", "rejected"} : Settle(a, status)
  BY <1>3 DEF Settle, NoRuntimeEvent
<1>4. CASE \E c \in 1 .. MaxCancels : CancelAcknowledged(c)
  BY <1>4 DEF CancelAcknowledged, RuntimeEvent
<1>5. CASE \E c \in 1 .. MaxCancels : CancelTimesOut(c)
  BY <1>5 DEF CancelTimesOut, RuntimeEvent, Stop
<1>. QED
  BY <1>2, <1>3, <1>4, <1>5

LEMMA PostgresCalm ==
  ASSUME Inductive, NEW l \in Lane,
         Execute(l) \/ Grant(l) \/ CopyDone(l) \/ Respond(l) \/ DeadlockVictim(l)
           \/ LockTimeout(l) \/ BackendExits(l)
  PROVE  Calm
<1>1. Shape
  BY DEF Inductive
<1>. USE <1>1 DEF PgStep, loop, stops
<1>2. PgStep /\ UNCHANGED <<unsignalled, failure>>
  BY DEF Execute, Grant, CopyDone, Respond, DeadlockVictim, LockTimeout, BackendExits
<1>3. PgMoves
  BY DEF Shape, TypeOK, PgMoves, Execute, Grant, CopyDone, Respond, DeadlockVictim, LockTimeout,
         BackendExits, Aborted
<1>. QED
  BY <1>2, <1>3 DEF Calm, SameSteps, NoStarts, CancelsMove

LEMMA OthersCalm ==
  ASSUME Inductive,
         \/ \E k \in Locks : OutsideReleases(k)
         \/ \E c \in 1 .. MaxCancels : CancelActs(c)
  PROVE  Calm
<1>1. Shape
  BY DEF Inductive
<1>2. PgStep /\ unsignalled' \subseteq unsignalled
  BY DEF OutsideReleases, CancelActs
<1>3. PgMoves
  BY <1>1 DEF Shape, TypeOK, PgMoves, OutsideReleases, CancelActs, Aborted
<1>. QED
  BY <1>2, <1>3 DEF PgStep, loop, stops, Calm, SameSteps, NoStarts, CancelsMove

LEMMA CompleteCalm ==
  ASSUME Inductive, NEW l \in Lane, Complete(l)
  PROVE  Calm /\ Shape'
<1>1. Shape /\ Started
  BY DEF Inductive
<1>2. Shape' /\ SameSteps
  BY <1>1, CompleteShape DEF SameSteps
<1>3. NoStarts /\ PgMoves
  BY <1>1 DEF Complete, NoStarts, PgMoves, Shape, TypeOK
<1>. QED
  BY <1>2, <1>3 DEF Complete, RuntimeEvent, loop, stops, Calm, CancelsMove

(* A cancel request's record names the step that runs when it arrives. *)
LEMMA RequestKeeps ==
  ASSUME Inductive, NEW l \in Lane, NEW a \in Actors, CancelRequest(a, l)
  PROVE  Inductive'
<1> DEFINE index == Len(cancels) + 1
<1>1. Shape /\ Started /\ Watching /\ LocksOnly /\ Sampled /\ CancelHolds /\ CancelNamesItsStep
  BY DEF Inductive
<1>2. Shape'
  BY <1>1, RequestShape
<1>3. /\ UNCHANGED <<pc, todo, watch, stale, confirmed, running, trace, pg>>
      /\ failure # "none" => failure' # "none"
  BY DEF CancelRequest, loop, stops, world, Stop, NoRuntimeEvent
<1>4. SameSteps /\ NoStarts /\ PgMoves
  BY <1>3 DEF SameSteps, NoStarts, PgMoves
<1>5. Started' /\ LocksOnly'
  BY <1>1, <1>2, <1>4, StartedKept
<1>6. Watching' /\ Sampled'
  BY <1>1, <1>3 DEF Watching, Sampled
<1>7. /\ cancels \in Seq(Cancel) /\ Len(cancels) \in Nat
      /\ unsignalled \subseteq 1 .. Len(cancels)
      /\ cancels' = Append(cancels,
           [lane |-> l, step |-> IF l.actor = a /\ running[l] # "no" THEN LastStep(l) ELSE 0])
  BY <1>1 DEF Shape, CancelRequest
<1>8. \A c \in unsignalled : cancels'[c] = cancels[c]
  BY <1>7
<1>9. CASE l.actor # a
  <2>1. UNCHANGED <<pending, unsignalled>>
    BY <1>9 DEF CancelRequest
  <2>2. CancelsMove
    BY <2>1, <1>3, <1>8 DEF CancelsMove
  <2>. QED
    BY <1>1, <1>2, <1>4, <1>5, <1>6, <2>2, CancelsKept DEF Inductive
<1>10. CASE l.actor = a
  <2>1. pending' = pending \union {index} /\ unsignalled' = unsignalled \union {index}
    BY <1>10 DEF CancelRequest
  <2>2. CancelHolds'
    BY <2>1, <1>1, <1>3 DEF CancelHolds
  <2>3. cancels'[index].lane = l /\ (running[l] # "no" => cancels'[index].step = LastStep(l))
    BY <1>7, <1>10
  <2>4. ASSUME NEW c \in unsignalled'
        PROVE  running[cancels'[c].lane] # "no" => cancels'[c].step = LastStep(cancels'[c].lane)
    <3>1. CASE c = index
      BY <3>1, <2>3
    <3>2. CASE c \in unsignalled
      BY <3>2, <1>1, <1>8 DEF CancelNamesItsStep
    <3>. QED
      BY <2>1, <3>1, <3>2
  <2>5. CancelNamesItsStep'
    BY <1>3, <2>4 DEF CancelNamesItsStep, LastStep
  <2>. QED
    BY <1>2, <1>5, <1>6, <2>2, <2>5 DEF Inductive
<1>. QED
  BY <1>9, <1>10

(* An observation confirms what the pass will conclude. *)
LEMMA AnswerKeeps ==
  ASSUME Inductive, ObserverAnswers
  PROVE  Inductive'
<1>1. Shape /\ Started /\ Watching /\ LocksOnly /\ Sampled /\ CancelHolds /\ CancelNamesItsStep
  BY DEF Inductive
<1>2. Shape'
  BY <1>1, AnswerShape
<1>3. /\ UNCHANGED <<pc, todo, stale, running, trace, pg, cancels, pending, unsignalled, failure>>
      /\ watch'.lane = watch.lane /\ watch'.answer \in {"lock", "client", "nothing"}
      /\ confirmed' = IF running[watch.lane] = "no" THEN confirmed
                      ELSE [confirmed EXCEPT ![watch.lane] = watch'.answer]
  BY <1>1 DEF ObserverAnswers, Loop, Shape, TypeOK
<1>4. SameSteps /\ NoStarts /\ PgMoves /\ CancelsMove
  BY <1>3 DEF SameSteps, NoStarts, PgMoves, CancelsMove
<1>5. Started' /\ LocksOnly' /\ CancelHolds' /\ CancelNamesItsStep'
  BY <1>1, <1>2, <1>4, StartedKept, CancelsKept
<1>6. Watching'
  BY <1>1, <1>3 DEF Watching
<1>7. Sampled'
  <2>1. confirmed \in [Lane -> {"nothing", "lock", "client"}] /\ (pc = "observe" => watch.lane \in Lane)
    BY <1>1 DEF Shape, TypeOK, Watching
  <2>. QED
    BY <1>1, <1>3, <2>1 DEF Sampled
<1>. QED
  BY <1>2, <1>5, <1>6, <1>7 DEF Inductive

-----------------------------------------------------------------------------
LEMMA IdlesKeeps ==
  ASSUME Inductive, NEW STATE run, Judged(run), Idles(run), Loop
  PROVE  Inductive'
<1>1. Shape /\ Started /\ Watching /\ LocksOnly /\ CancelHolds /\ CancelNamesItsStep
  BY DEF Inductive
<1>2. Shape'
  BY <1>1, IdlesShape
<1>3. SameSteps /\ NoStarts /\ PgMoves /\ CancelsMove
  BY DEF Idles, Loop, Judged, SameSteps, NoStarts, PgMoves, CancelsMove
<1>4. Started' /\ LocksOnly' /\ CancelHolds' /\ CancelNamesItsStep'
  BY <1>1, <1>2, <1>3, StartedKept, CancelsKept
<1>5. Watching' /\ Sampled'
  BY DEF Idles, EndPass, Watching, Sampled
<1>. QED
  BY <1>2, <1>4, <1>5 DEF Inductive

LEMMA RestsKeeps ==
  ASSUME Inductive, Rests, Loop
  PROVE  Inductive'
<1>1. Shape /\ Started /\ Watching /\ LocksOnly /\ CancelHolds /\ CancelNamesItsStep
  BY DEF Inductive
<1>2. Shape'
  BY <1>1, RestsShape
<1>3. SameSteps /\ NoStarts /\ PgMoves /\ CancelsMove
  BY DEF Rests, Loop, SameSteps, NoStarts, PgMoves, CancelsMove
<1>4. Started' /\ LocksOnly' /\ CancelHolds' /\ CancelNamesItsStep'
  BY <1>1, <1>2, <1>3, StartedKept, CancelsKept
<1>5. Watching' /\ Sampled'
  BY <1>1 DEF Rests, Watching, Sampled
<1>. QED
  BY <1>2, <1>4, <1>5 DEF Inductive

LEMMA ObservesKeeps ==
  ASSUME Inductive, NEW STATE run, Judged(run), Observes(run), stale' \in BOOLEAN, Loop, Sampled'
  PROVE  Inductive'
<1>1. Shape /\ Started /\ Watching /\ LocksOnly /\ CancelHolds /\ CancelNamesItsStep
  BY DEF Inductive
<1>2. Shape'
  BY <1>1, ObservesShape
<1>3. SameSteps /\ NoStarts /\ PgMoves /\ CancelsMove
  BY DEF Observes, Observe, Loop, Judged, SameSteps, NoStarts, PgMoves, CancelsMove
<1>4. Started' /\ LocksOnly' /\ CancelHolds' /\ CancelNamesItsStep'
  BY <1>1, <1>2, <1>3, StartedKept, CancelsKept
<1>5. Watching'
  BY DEF Observes, Observe, Watching
<1>. QED
  BY <1>2, <1>4, <1>5 DEF Inductive

(* A release leaves the last step of every other lane what it was. *)
LEMMA LaunchLeavesOthers ==
  ASSUME Shape, Shape', NEW STATE run, NEW l \in Lane, NEW m \in Lane, Launches(run, l, m),
         NEW n \in Lane \ {l, m}, NEW i \in 1 .. Len(trace), IsLast(n, i)
  PROVE  IsLast(n, i)' /\ i \in 1 .. Len(trace') /\ UnitOf(n)' = UnitOf(n)
<1>1. Len(trace) \in Nat /\ Len(trace') \in Nat
  BY TraceShape DEF Launches, NewSteps
<1>2. /\ Len(trace') >= Len(trace)
      /\ \A j \in 1 .. Len(trace) : /\ trace'[j].lane = trace[j].lane
                                    /\ trace'[j].unit = trace[j].unit
  BY <1>1 DEF Launches, NewSteps
<1>3. \A j \in Len(trace) + 1 .. Len(trace') : trace'[j].lane # n
  BY <1>1 DEF Launches, NewSteps, NewStep
<1>. QED  BY <1>1, <1>2, <1>3, LastStepKept

(* A release gives its lanes their last step, and no cancel is under way. *)
LEMMA LaunchesKeeps ==
  ASSUME Inductive, NEW STATE run, NEW l \in Lane, NEW m \in Lane,
         Judged(run), Launches(run, l, m), Loop, failure = "none"
  PROVE  Inductive'
<1>1. Shape /\ Started /\ LocksOnly /\ CancelHolds
  BY DEF Inductive
<1>2. Shape'
  BY <1>1, LaunchesShape
<1>3. Len(trace) \in Nat /\ Len(trace') \in Nat
  BY <1>1, <1>2, TraceShape DEF Launches, NewSteps
<1>4. \A n \in {l, m} : \E i \in 1 .. Len(trace') : IsLast(n, i)'
  <2>1. PICK k \in Nat : k = Len(trace)
    BY <1>3
  <2>2. CASE l = m
    <3>1. Len(trace') = k + 1 /\ trace'[k + 1].lane = l
      BY <2>1, <2>2 DEF Launches, NewSteps, NewStep
    <3>2. IsLast(l, k + 1)'
      BY <3>1 DEF IsLast
    <3>. QED
      BY <2>2, <3>1, <3>2
  <2>3. CASE l # m
    <3>1. Len(trace') = k + 2 /\ trace'[k + 1].lane = l /\ trace'[k + 2].lane = m
      BY <2>1, <2>3 DEF Launches, NewSteps, NewStep
    <3>2. IsLast(l, k + 1)' /\ IsLast(m, k + 2)'
      BY <2>3, <3>1 DEF IsLast
    <3>. QED
      BY <3>1, <3>2
  <2>. QED
    BY <2>2, <2>3
<1>5. ASSUME NEW n \in Lane \ {l, m}, NEW i \in 1 .. Len(trace), IsLast(n, i)
      PROVE  IsLast(n, i)' /\ i \in 1 .. Len(trace') /\ UnitOf(n)' = UnitOf(n)
  BY <1>1, <1>2, <1>5, LaunchLeavesOthers
<1>6. ASSUME NEW n \in Lane, running'[n] # "no" \/ pg'[n] \in {"sent", "lockwait"}
      PROVE  \E i \in 1 .. Len(trace') : IsLast(n, i)'
  <2>1. CASE n \in {l, m}
    BY <1>4, <2>1
  <2>2. CASE n \notin {l, m}
    <3>1. running[n] # "no" \/ pg[n] \in {"sent", "lockwait"}
      BY <1>6, <2>2 DEF Launches, Judged
    <3>. QED
      BY <1>1, <1>5, <2>2, <3>1 DEF Started
  <2>. QED
    BY <2>1, <2>2
<1>7. Started'
  BY <1>6 DEF Started
<1>8. LocksOnly'
  <2>1. ASSUME NEW n \in Lane, pg'[n] = "lockwait"
        PROVE  UnitOf(n)' \in Locks
    <3>1. n \notin {l, m} /\ pg[n] = "lockwait"
      BY <2>1 DEF Launches
    <3>. QED
      BY <1>1, <1>5, <3>1 DEF Started, LocksOnly
  <2>. QED
    BY <2>1 DEF LocksOnly
<1>9. unsignalled' = {}
  BY <1>1 DEF Launches, Unready, Loop, CancelHolds
<1>10. CancelHolds' /\ CancelNamesItsStep'
  BY <1>9 DEF CancelHolds, CancelNamesItsStep
<1>11. Watching' /\ Sampled'
  BY DEF Launches, EndPass, Watching, Sampled
<1>. QED
  BY <1>2, <1>7, <1>8, <1>10, <1>11 DEF Inductive

(***************************************************************************)
(* The invariant holds initially and every step preserves it.              *)
(***************************************************************************)
LEMMA InitInductive ==
  ASSUME Init
  PROVE  Inductive
<1>1. Shape
  BY InitShape
<1>2. Watching /\ Started /\ LocksOnly /\ Sampled /\ CancelHolds /\ CancelNamesItsStep
  BY DEF Init, Watching, Started, LocksOnly, Sampled, CancelHolds, CancelNamesItsStep
<1>. QED
  BY <1>1, <1>2 DEF Inductive

LEMMA BeginKeeps ==
  ASSUME Inductive, BeginPass
  PROVE  Inductive'
<1>1. Shape /\ Watching /\ Judged(running)
  BY RunningJudged DEF Inductive
<1>2. failure = "none" /\ Loop
  BY <1>1, BeginEnds
<1>3. CASE Idles(running)
  BY <1>1, <1>2, <1>3, IdlesKeeps
<1>4. CASE \E l, m \in Lane : Launches(running, l, m)
  BY <1>1, <1>2, <1>4, LaunchesKeeps
<1>5. CASE /\ Observes(running) /\ stale' = FALSE
           /\ \A l \in Lane : running[l] # "no" => l \in todo' \union {watch'.lane}
  <2>1. Sampled'
    BY <1>5 DEF Observes, Observe, Sampled
  <2>. QED
    BY <1>1, <1>2, <1>5, <2>1, ObservesKeeps
<1>. QED
  BY <1>1, <1>3, <1>4, <1>5, BeginEnds

LEMMA SampleKeeps ==
  ASSUME Inductive, SampleTaken
  PROVE  Inductive'
<1>1. Shape /\ Watching /\ Sampled /\ Judged(running)
  BY RunningJudged DEF Inductive
<1>2. pc = "observe" /\ failure = "none" /\ watch.answer # "asked" /\ Loop
  BY <1>1, SampleEnds
<1>3. Judged(SampledRun)
  BY <1>1, <1>2, SampledJudged
<1>4. CASE Idles(running)
  BY <1>1, <1>2, <1>4, IdlesKeeps
<1>5. CASE Idles(SampledRun)
  BY <1>2, <1>3, <1>5, IdlesKeeps
<1>6. CASE \E l, m \in Lane : Launches(SampledRun, l, m)
  BY <1>2, <1>3, <1>6, LaunchesKeeps
<1>7. CASE Observes(SampledRun) /\ UNCHANGED stale
  <2>1. stale' \in BOOLEAN
    BY <1>1, <1>7 DEF Shape, TypeOK
  <2>2. Sampled'
    <3>1. todo \subseteq todo' \union {watch'.lane} /\ watch'.answer = "asked"
          /\ running' = SampledRun /\ UNCHANGED <<stale, confirmed>>
      BY <1>7 DEF Observes, Observe
    <3>2. \A l \in Lane \ {watch.lane} : SampledRun[l] = running[l]
      BY <1>1 DEF SampledRun, Shape, TypeOK
    <3>3. ~stale /\ watch.lane \in Lane =>
            /\ SampledRun[watch.lane] = "blocked" => confirmed[watch.lane] = "lock"
            /\ SampledRun[watch.lane] = "client" => confirmed[watch.lane] = "client"
      BY <1>1, <1>2 DEF SampledRun, Sample, Sampled, Shape, TypeOK
    <3>4. watch.lane \in Lane
      BY <1>1, <1>2 DEF Watching
    <3>. QED
      BY <1>1, <1>2, <3>1, <3>2, <3>3, <3>4 DEF Sampled
  <2>. QED
    BY <1>2, <1>3, <1>7, <2>1, <2>2, ObservesKeeps
<1>. QED
  BY <1>1, <1>4, <1>5, <1>6, <1>7, SampleEnds

LEMMA LoopEnds ==
  ASSUME Shape, LeaveLoop \/ EvaluateInvariant \/ NoticeStop \/ CleanUp
  PROVE  Loop /\ (Idles(running) \/ Rests)
<1>1. CASE LeaveLoop
  BY <1>1, ThrowIdles DEF LeaveLoop, Rests, Outcomes, Aborts, Shape, TypeOK
<1>2. CASE EvaluateInvariant
  BY <1>2 DEF EvaluateInvariant, Rests, Outcomes
<1>3. CASE NoticeStop
  BY <1>3, ThrowIdles DEF NoticeStop, Shape, TypeOK
<1>4. CASE CleanUp
  BY <1>4 DEF CleanUp, Rests, Outcomes, Shape, TypeOK
<1>. QED
  BY <1>1, <1>2, <1>3, <1>4

LEMMA LoopEndKeeps ==
  ASSUME Inductive, LeaveLoop \/ EvaluateInvariant \/ NoticeStop \/ CleanUp
  PROVE  Inductive'
<1>1. Shape /\ Judged(running)
  BY RunningJudged DEF Inductive
<1>. QED
  BY <1>1, LoopEnds, IdlesKeeps, RestsKeeps

LEMMA StutterKeeps ==
  ASSUME Inductive, UNCHANGED vars
  PROVE  Inductive'
<1>1. Shape /\ Watching /\ Sampled /\ Started /\ LocksOnly /\ CancelHolds /\ CancelNamesItsStep
  BY DEF Inductive
<1>2. Shape'
  BY <1>1 DEF vars, Shape, TypeOK
<1>3. Calm
  BY DEF vars, Calm, SameSteps, NoStarts, PgMoves, CancelsMove
<1>. QED
  BY <1>2, <1>3, CalmKeeps

LEMMA NextKeeps ==
  ASSUME Inductive, [Next]_vars
  PROVE  Inductive'
<1>1. Shape /\ Started
  BY DEF Inductive
<1>2. ASSUME NEW l \in Lane,
             Connect(l) \/ LeaveConnection(l) \/ Disconnected(l) \/ ConnectionFails(l)
               \/ \E u \in Commands : Announce(l, u)
      PROVE  Inductive'
  BY <1>1, <1>2, ConnectShape, FailsShape, AnnounceShape, ConnectionsCalm, CalmKeeps
<1>3. CASE \/ Interrupt
           \/ \E a \in Actors, status \in {"fulfilled", "rejected"} : Settle(a, status)
           \/ \E c \in 1 .. MaxCancels : CancelAcknowledged(c) \/ CancelTimesOut(c)
  BY <1>1, <1>3, InterruptShape, SettleShape, AcknowledgeShape, SignalsCalm, CalmKeeps
<1>4. ASSUME NEW l \in Lane,
             Execute(l) \/ Grant(l) \/ CopyDone(l) \/ Respond(l) \/ DeadlockVictim(l)
               \/ LockTimeout(l) \/ BackendExits(l)
      PROVE  Inductive'
  BY <1>1, <1>4, PostgresShape, PostgresCalm, CalmKeeps
<1>5. CASE (\E k \in Locks : OutsideReleases(k)) \/ \E c \in 1 .. MaxCancels : CancelActs(c)
  BY <1>1, <1>5, OutsideShape, CancelActsShape, OthersCalm, CalmKeeps
<1>6. ASSUME NEW l \in Lane, Complete(l)
      PROVE  Inductive'
  BY <1>6, CompleteCalm, CalmKeeps
<1>7. ASSUME NEW l \in Lane, NEW a \in Actors, CancelRequest(a, l)
      PROVE  Inductive'
  BY <1>7, RequestKeeps
<1>8. CASE ObserverAnswers
  BY <1>8, AnswerKeeps
<1>9. CASE Run
  BY <1>9, BeginKeeps, SampleKeeps, LoopEndKeeps DEF Run
<1>10. CASE Done \/ UNCHANGED vars
  BY <1>10, StutterKeeps DEF Done
<1>. QED
  BY <1>2, <1>3, <1>4, <1>5, <1>6, <1>7, <1>8, <1>9, <1>10
     DEF Next, Application, Proxy, Postgres

LEMMA AlwaysInductive == Spec => []Inductive
<1>1. Init => Inductive
  BY InitInductive
<1>2. Inductive /\ [Next]_vars => Inductive'
  BY NextKeeps
<1>. QED
  BY <1>1, <1>2, PTL DEF Spec

(* The execution's state keeps its shape, and no pair outgrows maxSteps.   *)
THEOREM TypeCorrect == Spec => []TypeOK
<1>1. Inductive => TypeOK
  BY DEF Inductive, Shape
<1>. QED
  BY <1>1, AlwaysInductive, PTL

(* Between a cancel request's arrival and PostgreSQL's acting on it no     *)
(* other step starts on its connection, so its record is right.            *)
THEOREM CancelsNameTheirSteps == Spec => []CancelNamesItsStep
<1>1. Inductive => CancelNamesItsStep
  BY DEF Inductive
<1>. QED
  BY <1>1, AlwaysInductive, PTL

-----------------------------------------------------------------------------
(***************************************************************************)
(* Scheduler implements ReleaseContract.                                   *)
(***************************************************************************)
LEMMA EventMaps ==
  ASSUME NoStarts, confirmed' = [l \in Lane |-> "nothing"], UNCHANGED <<head, settled, pending>>
  PROVE  Contract!Next
<1>1. Contract!RuntimeEvent
  BY DEF Contract!RuntimeEvent, Contract!Forget, NoStarts
<1>. QED
  BY <1>1 DEF Contract!Next

LEMMA StutterMaps ==
  ASSUME UNCHANGED <<head, settled, pending, confirmed>>,
         \A l \in Lane : running'[l] = "no" <=> running[l] = "no"
  PROVE  UNCHANGED Contract!vars
  BY DEF Contract!vars

LEMMA ConnectionsMap ==
  ASSUME Shape, NEW l \in Lane,
         Connect(l) \/ LeaveConnection(l) \/ Disconnected(l) \/ ConnectionFails(l)
           \/ Complete(l) \/ \E u \in Commands : Announce(l, u)
  PROVE  Contract!Next \/ UNCHANGED Contract!vars
<1>1. CASE Connect(l) \/ Disconnected(l)
  BY <1>1, EventMaps DEF Connect, Disconnected, RuntimeEvent, NoStarts
<1>2. CASE LeaveConnection(l)
  BY <1>2, StutterMaps DEF LeaveConnection, NoRuntimeEvent
<1>3. CASE ConnectionFails(l) \/ Complete(l)
  <2>1. NoStarts
    BY <1>3 DEF ConnectionFails, Complete, NoStarts, Shape, TypeOK
  <2>. QED
    BY <1>3, <2>1, EventMaps DEF ConnectionFails, Complete, RuntimeEvent
<1>4. ASSUME NEW u \in Commands, Announce(l, u)
      PROVE  Contract!Next
  <2>1. u # "none"
    BY SchedulerAssumption DEF Unit
  <2>2. head' = [head EXCEPT ![l] = u] /\ head \in [Lane -> Unit \union {"none"}] /\ head[l] = "none"
    BY <1>4 DEF Announce, Shape, TypeOK
  <2>3. Contract!Hold(l)
    BY <1>4, <2>1, <2>2 DEF Announce, NoRuntimeEvent, Contract!Hold
  <2>. QED
    BY <2>3 DEF Contract!Next
<1>. QED
  BY <1>1, <1>2, <1>3, <1>4

LEMMA SignalsMap ==
  ASSUME Shape,
         \/ Interrupt
         \/ \E a \in Actors, status \in {"fulfilled", "rejected"} : Settle(a, status)
         \/ \E c \in 1 .. MaxCancels : CancelAcknowledged(c) \/ CancelTimesOut(c)
         \/ \E l \in Lane, a \in Actors : CancelRequest(a, l)
  PROVE  Contract!Next \/ UNCHANGED Contract!vars
<1>1. CASE Interrupt
  BY <1>1, StutterMaps DEF Interrupt, NoRuntimeEvent
<1>2. ASSUME NEW a \in Actors, NEW status \in {"fulfilled", "rejected"}, Settle(a, status)
      PROVE  Contract!Next
  <2>1. settled \in [Actors -> {"no", "fulfilled", "rejected"}]
    BY DEF Shape, TypeOK
  <2>2. Contract!Settle(a)
    BY <1>2, <2>1 DEF Settle, NoRuntimeEvent, Contract!Settle
  <2>. QED
    BY <2>2 DEF Contract!Next
<1>3. ASSUME NEW c \in 1 .. MaxCancels, CancelAcknowledged(c) \/ CancelTimesOut(c)
      PROVE  Contract!Next
  <2>1. Contract!CancelAcknowledged(c)
    BY <1>3 DEF CancelAcknowledged, CancelTimesOut, RuntimeEvent, Contract!CancelAcknowledged,
                Contract!Forget
  <2>. QED
    BY <2>1 DEF Contract!Next
<1>4. ASSUME NEW l \in Lane, NEW a \in Actors, CancelRequest(a, l)
      PROVE  Contract!Next \/ UNCHANGED Contract!vars
  <2>1. CASE l.actor = a
    <3>1. Len(cancels) + 1 \in 1 .. MaxCancels
      BY <1>4, StepLimit DEF CancelRequest, Shape
    <3>2. Contract!CancelForwarded(Len(cancels) + 1)
      BY <1>4, <2>1 DEF CancelRequest, NoRuntimeEvent, Contract!CancelForwarded
    <3>. QED
      BY <3>1, <3>2 DEF Contract!Next
  <2>2. CASE l.actor # a
    BY <1>4, <2>2, StutterMaps DEF CancelRequest, NoRuntimeEvent
  <2>. QED
    BY <2>1, <2>2
<1>. QED
  BY <1>1, <1>2, <1>3, <1>4

LEMMA PgMaps ==
  ASSUME PgStep
  PROVE  UNCHANGED Contract!vars
  BY StutterMaps DEF PgStep

LEMMA AnswerMaps ==
  ASSUME Shape, Watching, ObserverAnswers
  PROVE  Contract!Next \/ UNCHANGED Contract!vars
<1>1. CASE running[watch.lane] = "no"
  BY <1>1, StutterMaps DEF ObserverAnswers, Loop
<1>2. CASE running[watch.lane] # "no"
  <2>1. watch.lane \in Lane
    BY DEF Watching, ObserverAnswers
  <2>2. PICK w \in Contract!Confirmation : confirmed' = [confirmed EXCEPT ![watch.lane] = w]
    BY <1>2 DEF ObserverAnswers, Contract!Confirmation
  <2>3. Contract!Confirm(watch.lane, w)
    BY <1>2, <2>1, <2>2 DEF ObserverAnswers, Loop, Contract!Confirm
  <2>. QED
    BY <2>1, <2>2, <2>3 DEF Contract!Next
<1>. QED
  BY <1>1, <1>2

LEMMA IdlesMaps ==
  ASSUME NEW STATE run, Judged(run), Idles(run), Loop
  PROVE  Contract!Next
  BY EventMaps DEF Idles, EndPass, Judged, Loop, NoStarts

(* What the pass concluded was confirmed since the last runtime event. *)
Trusted(run) ==
  \A l \in Lane :
    /\ run[l] = "blocked" => confirmed[l] = "lock"
    /\ run[l] = "client" => confirmed[l] = "client"

LEMMA LaunchesMaps ==
  ASSUME Shape, NEW STATE run, NEW l \in Lane, NEW m \in Lane,
         Judged(run), Trusted(run), Launches(run, l, m), Loop
  PROVE  Contract!Next
<1> DEFINE held   == {n \in Lane : head[n] # "none"}
           flying == {n \in Lane : running[n] # "no"}
<1>1. {l, m} \subseteq held \ flying
  BY DEF Launches, Releasable, Judged
<1>2. l # m => (IF Pairs THEN 2 ELSE 1) = 2
  BY DEF Launches
<1>3. \A n \in flying : run[n] = "blocked" \/ YieldsTo(run, n)
  BY DEF Launches, Unready, Judged, Statuses
<1>4. ASSUME NEW n \in {l, m}
      PROVE  Contract!Yields(n)
  <2>3. \A p \in flying : \/ run[p] = "blocked" /\ confirmed[p] = "lock"
                          \/ YieldsTo(run, p) /\ confirmed[p] = "client"
    <3>1. \A p \in Lane : YieldsTo(run, p) => run[p] = "client"
      BY DEF YieldsTo
    <3>. QED
      BY <1>3, <3>1 DEF Trusted
  <2>1. \A p \in flying : confirmed[p] # "nothing"
    BY <2>3
  <2>2. ASSUME NEW p \in flying, confirmed[p] = "client"
        PROVE  \E q \in flying : confirmed[q] = "client" /\ q.actor = n.actor
    <3>1. YieldsTo(run, p)
      BY <2>3, <2>2
    <3>2. p.actor \in YieldingActors(run)
      BY <3>1 DEF YieldingActors
    <3>3. n.actor \in YieldingActors(run)
      BY <3>2 DEF Launches, Releasable
    <3>4. PICK q \in Lane : YieldsTo(run, q) /\ q.actor = n.actor
      BY <3>3 DEF YieldingActors
    <3>. QED
      BY <3>4 DEF YieldsTo, Trusted, Judged
  <2>. QED
    BY <2>1, <2>2 DEF Contract!Yields, Contract!Awaited
<1>5. \A a \in Actors : Contract!Accounted(a)
  BY DEF Launches, Unready, Active, ByActor, Contract!Accounted
<1>6. pending = {}
  BY DEF Launches, Unready
<1>7. {n \in Lane : head'[n] # "none"} = held \ {l, m}
  BY DEF Launches
<1>8. {n \in Lane : running'[n] # "no"} = flying \union {l, m}
  BY DEF Launches, Judged
<1>9. Contract!Forget /\ UNCHANGED <<settled, pending>>
  BY DEF Launches, EndPass, Loop, Contract!Forget
<1>10. Contract!Release(l, m)
  BY <1>1, <1>2, <1>4, <1>5, <1>6, <1>7, <1>8, <1>9 DEF Contract!Release
<1>. QED
  BY <1>10 DEF Contract!Next

LEMMA RunMaps ==
  ASSUME Inductive, Run
  PROVE  Contract!Next \/ UNCHANGED Contract!vars
<1>1. Shape /\ Watching /\ Sampled /\ Judged(running)
  BY RunningJudged DEF Inductive
<1>2. CASE BeginPass
  <2>1. Loop
    BY <1>1, <1>2, BeginEnds
  <2>2. CASE Idles(running)
    BY <1>1, <2>1, <2>2, IdlesMaps
  <2>3. ASSUME NEW l \in Lane, NEW m \in Lane, \A n \in Lane : running[n] = "no",
               Launches(running, l, m)
        PROVE  Contract!Next
    BY <1>1, <2>1, <2>3, LaunchesMaps DEF Trusted
  <2>4. CASE Observes(running)
    BY <2>1, <2>4, StutterMaps DEF Observes, Observe, Loop
  <2>. QED
    BY <1>1, <1>2, <2>2, <2>3, <2>4, BeginEnds
<1>3. CASE SampleTaken
  <2>1. pc = "observe" /\ watch.answer # "asked" /\ Loop /\ Judged(SampledRun)
    BY <1>1, <1>3, SampleEnds, SampledJudged
  <2>2. CASE Idles(running) \/ Idles(SampledRun)
    BY <1>1, <2>1, <2>2, IdlesMaps
  <2>3. ASSUME NEW l \in Lane, NEW m \in Lane, ~stale, todo = {}, Launches(SampledRun, l, m)
        PROVE  Contract!Next
    <3>1. \A n \in Lane \ {watch.lane} : SampledRun[n] = running[n]
      BY <1>1 DEF SampledRun, Shape, TypeOK
    <3>2. watch.lane \in Lane =>
            /\ SampledRun[watch.lane] = "blocked" => confirmed[watch.lane] = "lock"
            /\ SampledRun[watch.lane] = "client" => confirmed[watch.lane] = "client"
      BY <1>1, <2>1, <2>3 DEF SampledRun, Sample, Sampled, Shape, TypeOK
    <3>3. Trusted(SampledRun)
      BY <1>1, <2>1, <2>3, <3>1, <3>2 DEF Trusted, Sampled
    <3>. QED
      BY <1>1, <2>1, <2>3, <3>3, LaunchesMaps
  <2>4. CASE Observes(SampledRun)
    BY <2>1, <2>4, StutterMaps DEF Observes, Observe, Loop, Judged
  <2>. QED
    BY <1>1, <1>3, <2>2, <2>3, <2>4, SampleEnds
<1>4. CASE LeaveLoop \/ EvaluateInvariant \/ NoticeStop \/ CleanUp
  BY <1>1, <1>4, LoopEnds, IdlesMaps, StutterMaps DEF Rests, Loop
<1>. QED
  BY <1>2, <1>3, <1>4 DEF Run

LEMMA NextMaps ==
  ASSUME Inductive, [Next]_vars
  PROVE  [Contract!Next]_(Contract!vars)
<1>1. Shape /\ Watching
  BY DEF Inductive
<1>2. CASE Run
  BY <1>2, RunMaps
<1>3. CASE Application
  BY <1>1, <1>3, ConnectionsMap, SignalsMap, PgMaps DEF Application, CopyDone
<1>4. CASE Proxy
  BY <1>1, <1>4, ConnectionsMap, SignalsMap DEF Proxy
<1>5. CASE Postgres
  BY <1>1, <1>5, PgMaps, AnswerMaps
     DEF Postgres, Execute, Grant, Respond, DeadlockVictim, LockTimeout, BackendExits,
         OutsideReleases, CancelActs
<1>6. CASE Interrupt
  BY <1>1, <1>6, SignalsMap
<1>7. CASE Done \/ UNCHANGED vars
  BY <1>7, StutterMaps DEF Done, vars
<1>. QED
  BY <1>2, <1>3, <1>4, <1>5, <1>6, <1>7 DEF Next

(* Every release keeps the contract, for any actors, lanes, plans and      *)
(* limits and whatever the database and the application do.                *)
THEOREM SchedulerHonoursContract == Spec => HonoursContract
<1>1. Init => Contract!Init
  BY DEF Init, Contract!Init
<1>2. Inductive /\ [Next]_vars => [Contract!Next]_(Contract!vars)
  BY NextMaps
<1>. QED
  BY <1>1, <1>2, AlwaysInductive, PTL DEF Spec, HonoursContract, Contract!Spec

-----------------------------------------------------------------------------
(***************************************************************************)
(* The outcome.                                                            *)
(***************************************************************************)
(* A step that has not completed is the one its lane runs, unless the      *)
(* execution was stopped.                                                  *)
Unfinished(i) ==
  /\ running[trace[i].lane] # "no"
  /\ \A j \in i + 1 .. Len(trace) : trace[j].lane # trace[i].lane

Completes == \A i \in 1 .. Len(trace) : trace[i].done \/ failure # "none" \/ Unfinished(i)

(* A rejection was either the application's own or came after a failure.   *)
Blames ==
  /\ rejected => \E a \in Actors : settled[a] = "rejected"
  /\ \A a \in Actors : settled[a] = "rejected" => rejected \/ failure # "none"

(* What lets the loop evaluate the invariant stays true until it has.      *)
Evaluable ==
  /\ \A a \in Actors : settled[a] = "fulfilled"
  /\ \A l \in Lane : running[l] = "no"
  /\ Len(plan) <= Decisions

Honest ==
  /\ outcome = "none" <=> Listening
  /\ Completes /\ Blames
  /\ pc = "evaluate" => Evaluable
  /\ OutcomeIsHonest

LEMMA TraceLanes ==
  ASSUME Shape, NEW i \in 1 .. Len(trace)
  PROVE  trace[i] \in Step /\ trace[i].lane \in Lane
<1>1. trace[i] \in Step
  BY TraceShape, ElementOfSeq
<1>. QED  BY <1>1 DEF Step

LEMMA HonestInit == Init => Honest
  BY DEF Init, Honest, Listening, Completes, Blames, OutcomeIsHonest, VerdictIsComplete,
         RejectionsReported

(* While the execution goes on nothing is reported. *)
LEMMA NotYetOver ==
  ASSUME (outcome = "none")', Listening'
  PROVE  OutcomeIsHonest'
  BY DEF OutcomeIsHonest, VerdictIsComplete, RejectionsReported, Listening

(* A callback or a step of PostgreSQL that completes no step. *)
LEMMA CallbackHonest ==
  ASSUME Honest, Listening, UNCHANGED <<pc, outcome, trace, plan>>,
         failure # "none" => failure' # "none", Blames',
         \A l \in Lane : running[l] = "no" => running'[l] = "no",
         failure' # "none" \/ \A l \in Lane : running[l] # "no" => running'[l] # "no",
         pc = "evaluate" => UNCHANGED settled, Shape
  PROVE  Honest'
<1>1. outcome' = "none" /\ Listening'
  BY DEF Honest, Listening
<1>2. Completes'
  <2>1. \A i \in 1 .. Len(trace) : trace[i].lane \in Lane
    BY TraceLanes
  <2>. QED  BY <2>1 DEF Honest, Completes, Unfinished
<1>3. pc' = "evaluate" => Evaluable'
  BY DEF Honest, Evaluable, Decisions
<1>. QED  BY <1>1, <1>2, <1>3, NotYetOver DEF Honest

LEMMA SettleHonest ==
  ASSUME Inductive, Honest, NEW a \in Actors, NEW status \in {"fulfilled", "rejected"},
         Settle(a, status)
  PROVE  Honest'
<1>1. /\ Listening /\ settled[a] = "no" /\ settled' = [settled EXCEPT ![a] = status]
      /\ rejected' = (rejected \/ (status = "rejected" /\ failure = "none"))
      /\ UNCHANGED <<pc, outcome, trace, plan, failure, running>>
  BY DEF Settle, loop
<1>2. settled \in [Actors -> {"no", "fulfilled", "rejected"}]
  BY DEF Inductive, Shape, TypeOK
<1>3. Blames'
  BY <1>1, <1>2 DEF Honest, Blames
<1>4. pc # "evaluate"
  BY <1>1 DEF Honest, Evaluable
<1>. QED
  BY <1>1, <1>3, <1>4, CallbackHonest DEF Inductive

LEMMA CompleteHonest ==
  ASSUME Inductive, Honest, NEW l \in Lane, Complete(l)
  PROVE  Honest'
<1>1. /\ Listening /\ running[l] # "no" /\ running' = [running EXCEPT ![l] = "no"]
      /\ trace' = [trace EXCEPT ![LastStep(l)].done = TRUE]
      /\ UNCHANGED <<pc, outcome, plan, failure, rejected, settled>>
  BY DEF Complete, loop, stops
<1>2. /\ Len(trace') = Len(trace) /\ Len(trace) \in Nat
      /\ \A i \in 1 .. Len(trace) : trace'[i].lane = trace[i].lane /\ trace[i].lane \in Lane
  <2>1. trace \in Seq(Step)
    BY TraceShape DEF Inductive
  <2>2. \A i \in 1 .. Len(trace) : trace[i].lane \in Lane
    BY TraceLanes DEF Inductive
  <2>. QED  BY <2>1, <2>2, CompleteShape, TraceShape DEF Inductive
<1>3. running \in [Lane -> Statuses] /\ trace \in Seq(Step)
  BY DEF Inductive, Shape, TypeOK, Statuses
<1>4. ASSUME NEW i \in 1 .. Len(trace), ~trace'[i].done, failure = "none"
      PROVE  Unfinished(i)'
  <2>1. i # LastStep(l) /\ trace'[i] = trace[i]
    <3>1. trace[i] \in Step
      BY <1>3, ElementOfSeq
    <3>2. CASE i = LastStep(l)
      BY <1>1, <1>3, <1>4, <3>1, <3>2 DEF Step
    <3>3. CASE i # LastStep(l)
      BY <1>1, <1>3, <3>3
    <3>. QED  BY <3>2, <3>3
  <2>2. Unfinished(i)
    BY <1>4, <2>1 DEF Honest, Completes
  <2>3. trace[i].lane # l
    <3>1. trace[i].lane = l => IsLast(l, i)
      BY <2>2 DEF Unfinished, IsLast
    <3>. QED  BY <1>2, <2>1, <3>1, LastStepFound
  <2>4. running'[trace'[i].lane] # "no"
    BY <1>1, <1>2, <1>3, <2>2, <2>3 DEF Unfinished
  <2>5. \A j \in i + 1 .. Len(trace') : trace'[j].lane # trace'[i].lane
    <3>1. \A j \in i + 1 .. Len(trace) : j \in 1 .. Len(trace)
      BY <1>2
    <3>. QED  BY <1>2, <2>2, <3>1 DEF Unfinished
  <2>. QED  BY <2>4, <2>5 DEF Unfinished
<1>5. Completes'
  BY <1>1, <1>2, <1>4 DEF Completes
<1>6. pc # "evaluate"
  BY <1>1 DEF Honest, Evaluable
<1>. QED
  BY <1>1, <1>5, <1>6, NotYetOver DEF Honest, Blames, Listening

(* A release: the lanes it takes run nothing, so all their steps have      *)
(* completed.                                                              *)
LEMMA LaunchesHonest ==
  ASSUME Inductive, Honest, failure = "none", Listening, NEW STATE run,
         NEW l \in Lane, NEW m \in Lane, Judged(run), Launches(run, l, m), Loop
  PROVE  Honest'
<1>1. /\ pc' = "top" /\ outcome' = "none" /\ UNCHANGED <<settled, failure, rejected>>
      /\ run[l] = "no" /\ run[m] = "no"
  BY ReleasableLanes DEF Launches, Loop, Honest
<1>2. /\ Len(trace) \in Nat /\ Len(trace') = Len(trace) + NewSteps(l, m)
      /\ \A i \in 1 .. Len(trace) : trace'[i] = trace[i] /\ trace[i].lane \in Lane
  <2>1. trace \in Seq(Step) /\ Len(trace) \in Nat
    BY TraceShape DEF Inductive
  <2>2. \A i \in 1 .. Len(trace) : trace[i].lane \in Lane
    BY TraceLanes DEF Inductive
  <2>. QED  BY <2>1, <2>2 DEF Launches
<1>3. ASSUME NEW i \in 1 .. Len(trace), ~trace[i].done
      PROVE  Unfinished(i)'
  <2>1. Unfinished(i) /\ trace'[i] = trace[i] /\ trace[i].lane \in Lane
    BY <1>2, <1>3 DEF Honest, Completes
  <2>2. trace[i].lane \notin {l, m} /\ running'[trace[i].lane] # "no"
    BY <1>1, <2>1 DEF Judged, Launches, Unfinished
  <2>3. ASSUME NEW j \in i + 1 .. Len(trace') PROVE trace'[j].lane # trace'[i].lane
    <3>1. CASE j <= Len(trace)
      BY <1>2, <2>1, <3>1 DEF Unfinished
    <3>2. CASE j > Len(trace)
      <4>1. trace'[j].lane \in {l, m}
        BY <1>2, <3>2 DEF Launches, NewSteps, NewStep
      <4>. QED  BY <2>1, <2>2, <4>1
    <3>. QED  BY <1>2, <3>1, <3>2 DEF NewSteps
  <2>. QED  BY <2>1, <2>2, <2>3 DEF Unfinished
<1>4. ASSUME NEW i \in Len(trace) + 1 .. Len(trace')
      PROVE  Unfinished(i)'
  <2>1. /\ i = Len(trace) + 1 => trace'[i].lane = l
        /\ i = Len(trace) + NewSteps(l, m) => trace'[i].lane = m
        /\ i \in {Len(trace) + 1, Len(trace) + NewSteps(l, m)}
    BY <1>2, <1>4 DEF Launches, NewSteps, NewStep
  <2>2. running'[trace'[i].lane] # "no"
    BY <2>1 DEF Launches
  <2>3. ASSUME NEW j \in i + 1 .. Len(trace') PROVE trace'[j].lane # trace'[i].lane
    <3>1. l # m /\ i = Len(trace) + 1 /\ j = Len(trace) + NewSteps(l, m)
      BY <1>2, <1>4, <2>1 DEF NewSteps
    <3>. QED  BY <2>1, <3>1 DEF Launches, NewStep
  <2>. QED  BY <2>2, <2>3 DEF Unfinished
<1>5. Completes'
  BY <1>2, <1>3, <1>4 DEF Completes, NewSteps
<1>. QED
  BY <1>1, <1>5, NotYetOver DEF Honest, Blames, Listening

(* A pass that pauses, or that stops the execution. *)
LEMMA IdlesHonest ==
  ASSUME Inductive, Honest, failure = "none", Listening, NEW STATE run,
         Judged(run), Idles(run), Loop
  PROVE  Honest'
<1>1. UNCHANGED <<trace, settled, failure, rejected>> /\ outcome = "none"
  BY DEF Idles, Loop, Honest
<1>2. Completes'
  <2>1. \A i \in 1 .. Len(trace) : trace[i].lane \in Lane
    BY TraceLanes DEF Inductive
  <2>. QED  BY <1>1, <2>1 DEF Honest, Completes, Unfinished, Idles, Judged
<1>3. Blames'
  BY <1>1 DEF Honest, Blames
<1>4. CASE pc' = "top" /\ outcome' = outcome
  BY <1>1, <1>2, <1>3, <1>4, NotYetOver DEF Honest, Listening
<1>5. CASE pc' = "closing" /\ outcome' \in (IF rejected THEN {"harness-error"} ELSE Aborts)
  BY <1>1, <1>2, <1>3, <1>5
     DEF Honest, Listening, OutcomeIsHonest, VerdictIsComplete, RejectionsReported, Aborts
<1>. QED  BY <1>4, <1>5 DEF Idles


LEMMA ObservesHonest ==
  ASSUME Inductive, Honest, failure = "none", Listening, NEW STATE run,
         Judged(run), Observes(run), Loop
  PROVE  Honest'
<1>1. pc' = "observe" /\ UNCHANGED <<trace, settled, failure, rejected, outcome>>
  BY DEF Observes, Observe, Loop
<1>2. Completes'
  <2>1. \A i \in 1 .. Len(trace) : trace[i].lane \in Lane
    BY TraceLanes DEF Inductive
  <2>. QED  BY <1>1, <2>1 DEF Honest, Completes, Unfinished, Observes, Judged
<1>. QED  BY <1>1, <1>2, NotYetOver DEF Honest, Blames, Listening

(* The loop is left: by a stop, with every actor settled, with the         *)
(* invariant's verdict, and finally after its cleanup.                     *)
LEMMA LeavesHonest ==
  ASSUME Inductive, Honest, LeaveLoop \/ EvaluateInvariant \/ NoticeStop \/ CleanUp
  PROVE  Honest'
<1>1. UNCHANGED <<running, trace, settled, failure, rejected, plan>>
  BY DEF LeaveLoop, EvaluateInvariant, NoticeStop, CleanUp, Loop, Throw
<1>2. Completes' /\ Blames' /\ (Evaluable => Evaluable')
  BY <1>1 DEF Honest, Completes, Unfinished, Blames, Evaluable, Decisions
<1>3. CASE NoticeStop
  <2>1. /\ failure # "none" /\ failure \in Aborts /\ pc' = "closing"
        /\ outcome' = IF rejected THEN "harness-error" ELSE failure
    BY <1>3 DEF NoticeStop, Throw, Inductive, Shape
  <2>. QED
    BY <1>1, <1>2, <2>1
       DEF Honest, Listening, OutcomeIsHonest, VerdictIsComplete, RejectionsReported, Aborts
<1>4. CASE LeaveLoop
  <2>1. CASE pc' = "evaluate"
    <3>1. Evaluable
      BY <1>4, <2>1 DEF LeaveLoop, LoopOver, Quiet, Throw, Evaluable, Inductive, Shape, TypeOK
    <3>2. outcome' = "none"
      BY <1>4, <2>1 DEF LeaveLoop, Throw, Honest, Listening
    <3>. QED  BY <1>2, <2>1, <3>1, <3>2, NotYetOver DEF Honest, Listening
  <2>2. CASE pc' # "evaluate"
    <3>1. /\ pc' = "closing" /\ failure = "none"
          /\ \/ outcome' = IF rejected THEN "harness-error" ELSE "incompatible"
             \/ outcome' = "actor-error" /\ \E a \in Actors : settled[a] = "rejected"
      BY <1>4, <2>2 DEF LeaveLoop, Throw
    <3>2. outcome' = "actor-error" => rejected
      BY <3>1 DEF Honest, Blames
    <3>. QED
      BY <1>1, <1>2, <3>1, <3>2
         DEF Honest, Listening, OutcomeIsHonest, VerdictIsComplete, RejectionsReported
  <2>. QED  BY <2>1, <2>2
<1>5. CASE EvaluateInvariant
  <2>1. /\ pc' = "closing" /\ failure = "none" /\ Evaluable
        /\ outcome' \in {"passed", "violation", "harness-error"}
    BY <1>5 DEF EvaluateInvariant, Honest
  <2>2. ~rejected /\ \A i \in 1 .. Len(trace) : trace[i].done
    <3>1. \A i \in 1 .. Len(trace) : running[trace[i].lane] = "no"
      BY <2>1, TraceLanes DEF Inductive, Evaluable
    <3>. QED  BY <2>1, <3>1 DEF Honest, Blames, Completes, Unfinished, Evaluable
  <2>3. (\A a \in Actors : settled[a] = "fulfilled") /\ Len(plan) <= Decisions
    BY <2>1 DEF Evaluable
  <2>4. OutcomeIsHonest'
    BY <1>1, <2>1, <2>2, <2>3
       DEF OutcomeIsHonest, VerdictIsComplete, RejectionsReported, Decisions
  <2>. QED  BY <1>1, <1>2, <2>1, <2>4 DEF Honest, Listening
<1>6. CASE CleanUp
  <2>1. pc = "closing" /\ pc' = "done" /\ outcome' \in {outcome, "harness-error"}
    BY <1>6 DEF CleanUp
  <2>2. outcome # "none" /\ OutcomeIsHonest
    BY <2>1 DEF Honest, Listening
  <2>3. OutcomeIsHonest'
    BY <1>1, <2>1, <2>2 DEF OutcomeIsHonest, VerdictIsComplete, RejectionsReported, Decisions
  <2>. QED  BY <1>2, <2>1, <2>2, <2>3 DEF Honest, Listening
<1>. QED  BY <1>3, <1>4, <1>5, <1>6

LEMMA RunHonest ==
  ASSUME Inductive, Honest, Run
  PROVE  Honest'
<1>1. Shape /\ Watching /\ Judged(running)
  BY RunningJudged DEF Inductive
<1>2. CASE BeginPass
  <2>1. Listening
    BY <1>2 DEF BeginPass, Listening
  <2>. QED
    BY <1>1, <1>2, <2>1, BeginEnds, IdlesHonest, LaunchesHonest, ObservesHonest
<1>3. CASE SampleTaken
  <2>1. Listening /\ Judged(SampledRun)
    BY <1>1, <1>3, SampledJudged DEF SampleTaken, Listening
  <2>. QED
    BY <1>1, <1>3, <2>1, SampleEnds, IdlesHonest, LaunchesHonest, ObservesHonest
<1>. QED  BY <1>2, <1>3, LeavesHonest DEF Run

LEMMA CallbacksHonest ==
  ASSUME Inductive, Honest, Application \/ Proxy \/ Postgres \/ Interrupt
  PROVE  Honest'
<1>1. Shape
  BY DEF Inductive
<1>2. ASSUME Listening, UNCHANGED <<pc, outcome, trace, plan, running, settled, rejected>>,
             failure' = failure \/ (failure' # "none" /\ (failure # "none" => failure' # "none"))
      PROVE  Honest'
  BY <1>1, <1>2, CallbackHonest DEF Honest, Blames
<1>3. ASSUME NEW l \in Lane,
             Connect(l) \/ LeaveConnection(l) \/ Disconnected(l) \/ \E u \in Commands : Announce(l, u)
      PROVE  Honest'
  BY <1>2, <1>3 DEF Connect, LeaveConnection, Disconnected, Announce, loop, stops
<1>4. ASSUME NEW l \in Lane, ConnectionFails(l)
      PROVE  Honest'
  <2>1. /\ Listening /\ failure' # "none" /\ running' = [running EXCEPT ![l] = "no"]
        /\ UNCHANGED <<pc, outcome, trace, plan, settled, rejected>>
    BY <1>4 DEF ConnectionFails, Stop, loop
  <2>2. \A n \in Lane : running[n] = "no" => running'[n] = "no"
    BY <1>1, <2>1 DEF Shape, TypeOK
  <2>. QED  BY <1>1, <2>1, <2>2, CallbackHonest DEF Honest, Blames
<1>5. ASSUME NEW l \in Lane, NEW a \in Actors, CancelRequest(a, l)
      PROVE  Honest'
  BY <1>2, <1>5 DEF CancelRequest, Stop, loop, stops
<1>6. ASSUME NEW c \in 1 .. MaxCancels, CancelAcknowledged(c) \/ CancelTimesOut(c)
      PROVE  Honest'
  BY <1>2, <1>6 DEF CancelAcknowledged, CancelTimesOut, Stop, loop, stops
<1>7. CASE Interrupt
  BY <1>2, <1>7 DEF Interrupt, Stop, loop
<1>8. CASE PgStep
  BY <1>2, <1>8 DEF PgStep, loop, stops
<1>9. CASE ObserverAnswers
  BY <1>2, <1>9 DEF ObserverAnswers, Loop, Listening
<1>. QED
  BY <1>3, <1>4, <1>5, <1>6, <1>7, <1>8, <1>9, SettleHonest, CompleteHonest
     DEF Application, Proxy, Postgres, CopyDone, Execute, Grant, Respond, DeadlockVictim,
         LockTimeout, BackendExits, OutsideReleases, CancelActs

LEMMA HonestStep == Inductive /\ Honest /\ [Next]_vars => Honest'
<1>. SUFFICES ASSUME Inductive, Honest, [Next]_vars PROVE Honest'
  OBVIOUS
<1>1. CASE Done \/ UNCHANGED vars
  <2>1. UNCHANGED <<pc, outcome, failure, rejected, settled, running, trace, plan>>
    BY <1>1 DEF Done, vars
  <2>2. Completes' /\ Blames' /\ (pc' = "evaluate" => Evaluable') /\ (Listening' <=> Listening)
    BY <2>1 DEF Honest, Completes, Unfinished, Blames, Evaluable, Decisions, Listening
  <2>3. OutcomeIsHonest'
    BY <2>1 DEF Honest, OutcomeIsHonest, VerdictIsComplete, RejectionsReported, Decisions
  <2>. QED  BY <2>1, <2>2, <2>3 DEF Honest
<1>. QED  BY <1>1, RunHonest, CallbacksHonest DEF Next

(* The outcome of an execution says what happened in it, however its       *)
(* callbacks interleave with its passes: passed or violation only when     *)
(* every step completed and every actor fulfilled; a rejection never lost, *)
(* nor blamed on the application when it came of an interruption           *)
(* (runner.ts:326-332, 343, 557-587).                                      *)
THEOREM OutcomesAreHonest == Spec => []OutcomeIsHonest
<1>1. Honest => OutcomeIsHonest
  BY DEF Honest
<1>. QED  BY HonestInit, HonestStep, AlwaysInductive, <1>1, PTL DEF Spec


-----------------------------------------------------------------------------
(***************************************************************************)
(* The plan.  A decision is one step or two neighbours, and the decision   *)
(* that is the n-th to start was asked for by the plan's n-th entry.       *)
(***************************************************************************)
Grouped ==
  \A i \in 1 .. Len(trace) :
    \/ trace[i].group = i
    \/ i > 1 /\ trace[i].group = i - 1 /\ trace[i - 1].group = i - 1

Size(i) == IF i + 1 \in 1 .. Len(trace) /\ trace[i + 1].group = i THEN 2 ELSE 1

Nth(i) == Cardinality(UpTo(Starts, i))

Obeyed ==
  \A i \in Starts :
    LET choice == plan[Nth(i)]
    IN  Nth(i) <= Len(plan) =>
          /\ Len(choice) = Size(i)
          /\ Asked(trace[i], choice[1]) /\ Asked(trace[i + Size(i) - 1], choice[Size(i)])

Followed == Grouped /\ Obeyed

LEMMA PlanShape ==
  ASSUME Shape
  PROVE  plan \in Seq(Seq(Entry)) /\ Len(plan) \in Nat /\ Len(trace) \in Nat
<1>1. plan \in Seq(Seq(Entry))
  BY SchedulerAssumption DEF Shape
<1>. QED  BY <1>1, TraceShape, LenProperties

LEMMA ChoiceNotEmpty ==
  ASSUME NEW choice, Len(choice) \in {1, 2}
  PROVE  choice # <<>>
  OBVIOUS

LEMMA FollowedMeans ==
  ASSUME Shape, Followed
  PROVE  PlanFollowed
<1>. SUFFICES ASSUME NEW k \in 1 .. Len(plan), k <= Decisions
              PROVE LET start == CHOOSE i \in Starts : Cardinality({j \in Starts : j <= i}) = k
                        steps == {i \in 1 .. Len(trace) : trace[i].group = start}
                    IN  /\ steps = start .. start + Len(plan[k]) - 1
                        /\ \A i \in DOMAIN plan[k] : Asked(trace[start + i - 1], plan[k][i])
  BY DEF PlanFollowed
<1>. DEFINE start == CHOOSE i \in Starts : Cardinality({j \in Starts : j <= i}) = k
            steps == {i \in 1 .. Len(trace) : trace[i].group = start}
<1>1. start \in Starts /\ Nth(start) = k
  <2>1. Starts \in SUBSET (1 .. Len(trace)) /\ Cardinality(Starts) \in Nat
    BY PlanShape, SubsetCounted DEF Starts
  <2>2. Cardinality(Starts) = Decisions
    BY DEF Starts, Decisions
  <2>3. \E i \in Starts : Cardinality(UpTo(Starts, i)) = k
    <3>1. k \in 1 .. Cardinality(Starts) /\ Len(trace) \in Nat
      BY <2>1, <2>2, PlanShape
    <3>. QED  BY <2>1, <3>1, KthSmallest
  <2>4. start \in Starts /\ Cardinality({j \in Starts : j <= start}) = k
    BY <2>3 DEF UpTo
  <2>. QED  BY <2>4 DEF UpTo, Nth
<1>. HIDE DEF start
<1>2. /\ Len(plan[k]) = Size(start)
      /\ Asked(trace[start], plan[k][1]) /\ Asked(trace[start + Size(start) - 1], plan[k][Size(start)])
  BY <1>1, PlanShape DEF Followed, Obeyed
<1>3. plan[k] \in Seq(Entry) /\ DOMAIN plan[k] = 1 .. Size(start)
  BY <1>2, PlanShape
<1>4. start \in 1 .. Len(trace) /\ trace[start].group = start
  BY <1>1 DEF Starts
<1>5. steps = start .. start + Size(start) - 1
  <2>1. \A i \in steps : i = start \/ i = start + 1
    BY <1>4, PlanShape DEF Followed, Grouped
  <2>2. start + 1 \in steps <=> Size(start) = 2
    BY <1>4, PlanShape DEF Size
  <2>3. start \in steps /\ Size(start) \in {1, 2}
    BY <1>4 DEF Size
  <2>. HIDE DEF steps
  <2>4. start \in Nat
    BY <1>4, PlanShape
  <2>5. start .. start + 2 - 1 = {start, start + 1} /\ start .. start + 1 - 1 = {start}
    BY <2>4
  <2>6. CASE Size(start) = 2
    BY <2>1, <2>2, <2>3, <2>5, <2>6
  <2>7. CASE Size(start) = 1
    BY <2>1, <2>2, <2>3, <2>5, <2>7
  <2>. QED  BY <2>3, <2>6, <2>7
<1>6. \A i \in DOMAIN plan[k] : Asked(trace[start + i - 1], plan[k][i])
  <2>1. Size(start) \in {1, 2} /\ start \in Nat
    BY <1>4, PlanShape DEF Size
  <2>. QED  BY <1>2, <1>3, <1>4, <2>1
<1>. QED  BY <1>2, <1>5, <1>6 DEF start

LEMMA FollowedInit == Init => Followed
<1>. SUFFICES ASSUME Init PROVE Followed
  OBVIOUS
<1>1. trace = <<>> /\ Len(<<>>) = 0
  BY DEF Init
<1>. QED  BY <1>1 DEF Followed, Grouped, Obeyed, Starts

(* Completions and everything else leave lanes and groups alone. *)
LEMMA GroupsKept ==
  ASSUME Followed, UNCHANGED plan, Len(trace') = Len(trace),
         \A i \in 1 .. Len(trace) : trace'[i].lane = trace[i].lane /\ trace'[i].group = trace[i].group,
         Shape
  PROVE  Followed'
<1>1. Starts' = Starts
  BY DEF Starts
<1>2. Grouped'
  <2>1. ASSUME NEW i \in 1 .. Len(trace)
        PROVE  trace'[i].group = i \/ (i > 1 /\ trace'[i].group = i - 1 /\ trace'[i - 1].group = i - 1)
    <3>1. i > 1 => i - 1 \in 1 .. Len(trace)
      BY PlanShape
    <3>. QED  BY <3>1 DEF Followed, Grouped
  <2>. QED  BY <2>1 DEF Grouped
<1>3. \A i \in 1 .. Len(trace) : Size(i)' = Size(i)
  BY PlanShape DEF Size
<1>4. \A i \in Starts : Nth(i)' = Nth(i)
  BY <1>1 DEF Nth
<1>5. \A i \in Starts : i \in 1 .. Len(trace) /\ i + Size(i) - 1 \in 1 .. Len(trace)
  BY PlanShape DEF Starts, Size
<1>6. ASSUME NEW i \in Starts, Nth(i)' <= Len(plan')
      PROVE  /\ Len(plan'[Nth(i)']) = Size(i)'
             /\ Asked(trace'[i], plan'[Nth(i)'][1])
             /\ Asked(trace'[i + Size(i)' - 1], plan'[Nth(i)'][Size(i)'])
  <2>1. /\ Nth(i)' = Nth(i) /\ Size(i)' = Size(i) /\ plan' = plan
        /\ i \in 1 .. Len(trace) /\ i + Size(i) - 1 \in 1 .. Len(trace)
    BY <1>3, <1>4, <1>5
  <2>2. /\ Len(plan[Nth(i)]) = Size(i)
        /\ Asked(trace[i], plan[Nth(i)][1])
        /\ Asked(trace[i + Size(i) - 1], plan[Nth(i)][Size(i)])
    BY <1>6, <2>1 DEF Followed, Obeyed
  <2>. QED  BY <2>1, <2>2 DEF Asked
<1>. QED  BY <1>1, <1>2, <1>6 DEF Followed, Obeyed

(* A release: its steps are a decision more, the one its entry asks for. *)
LEMMA LaunchFollows ==
  ASSUME Shape, Followed, NEW STATE run, NEW l \in Lane, NEW m \in Lane, Launches(run, l, m),
         UNCHANGED plan
  PROVE  Followed'
<1>0. PICK n \in Nat : n = Len(trace)
  BY PlanShape
<1>1. /\ n \in Nat /\ Len(trace') = n + NewSteps(l, m) /\ NewSteps(l, m) \in {1, 2}
      /\ \A i \in 1 .. n : trace'[i] = trace[i]
      /\ trace'[n + 1] = NewStep(l) /\ trace'[n + NewSteps(l, m)] = NewStep(m)
      /\ NewStep(l).group = n + 1 /\ NewStep(m).group = n + 1
  BY <1>0 DEF Launches, NewSteps, NewStep
<1>2. \A i \in 1 .. Len(trace') : i \in 1 .. n \/ i = n + 1 \/ (i = n + 2 /\ NewSteps(l, m) = 2)
  BY <1>1
<1>3. Starts' = Starts \union {n + 1} /\ \A i \in Starts : i \in 1 .. n
  <2>1. \A i \in 1 .. n : i \in 1 .. Len(trace')
    BY <1>1
  <2>2. n + 1 \in 1 .. Len(trace')
    BY <1>1
  <2>3. \A i \in Starts : i \in 1 .. n /\ trace[i].group = i
    BY <1>0 DEF Starts
  <2>4. \A i \in Starts' : i \in 1 .. Len(trace') /\ trace'[i].group = i
    BY DEF Starts
  <2>5. \A i \in Starts' : i \in Starts \/ i = n + 1
    <3>1. ASSUME NEW i \in Starts', i \in 1 .. n PROVE i \in Starts
      BY <1>0, <1>1, <2>4, <3>1 DEF Starts
    <3>2. n + 2 # n + 1
      BY <1>1
    <3>. QED  BY <1>1, <1>2, <2>4, <3>1, <3>2
  <2>6. \A i \in Starts : i \in Starts'
    BY <1>1, <2>1, <2>3 DEF Starts
  <2>7. n + 1 \in Starts'
    BY <1>1, <2>2 DEF Starts
  <2>. QED  BY <2>3, <2>5, <2>6, <2>7
<1>4. Grouped'
  <2>1. ASSUME NEW i \in 1 .. Len(trace')
        PROVE  trace'[i].group = i \/ (i > 1 /\ trace'[i].group = i - 1 /\ trace'[i - 1].group = i - 1)
    <3>1. CASE i \in 1 .. n
      <4>1. i > 1 => i - 1 \in 1 .. n
        BY <1>1, <3>1
      <4>. QED  BY <1>0, <1>1, <3>1, <4>1 DEF Followed, Grouped
    <3>2. CASE i = n + 1
      BY <1>1, <3>2
    <3>3. CASE i = n + 2 /\ NewSteps(l, m) = 2
      BY <1>1, <3>3
    <3>. QED  BY <1>2, <3>1, <3>2, <3>3
  <2>. QED  BY <2>1 DEF Grouped
<1>5. ASSUME NEW i \in Starts
      PROVE  /\ Size(i)' = Size(i) /\ Nth(i)' = Nth(i)
             /\ i \in 1 .. n /\ i + Size(i) - 1 \in 1 .. n
  <2>1. i \in 1 .. n
    BY <1>3
  <2>2. CASE i + 1 \in 1 .. n
    <3>1. i + 1 \in 1 .. Len(trace') /\ trace'[i + 1] = trace[i + 1]
      BY <1>1, <2>2
    <3>. QED
      <4>1. Size(i)' = Size(i) /\ Size(i) \in {1, 2}
        BY <1>0, <2>2, <3>1 DEF Size
      <4>2. i + Size(i) - 1 \in 1 .. n
        BY <1>1, <2>1, <2>2, <4>1
      <4>3. UpTo(Starts', i) = UpTo(Starts, i)
        BY <1>1, <1>3, <2>1 DEF UpTo
      <4>. QED  BY <2>1, <4>1, <4>2, <4>3 DEF Nth
  <2>3. CASE i + 1 \notin 1 .. n
    <3>1. i = n
      BY <1>1, <2>1, <2>3
    <3>2. trace'[i + 1].group # i
      BY <1>1, <3>1
    <3>3. Size(i) = 1 /\ Size(i)' = 1
      BY <1>0, <2>3, <3>2 DEF Size
    <3>4. UpTo(Starts', i) = UpTo(Starts, i)
      BY <1>1, <1>3, <2>1 DEF UpTo
    <3>. QED  BY <1>1, <2>1, <3>3, <3>4 DEF Nth
  <2>. QED  BY <2>2, <2>3
<1>6. Size(n + 1)' = NewSteps(l, m) /\ Nth(n + 1)' = Decisions + 1
  <2>1. Size(n + 1)' = NewSteps(l, m)
    <3>1. CASE NewSteps(l, m) = 2
      <4>1. n + 2 \in 1 .. Len(trace') /\ trace'[n + 2].group = n + 1 /\ n + 1 + 1 = n + 2
        BY <1>1, <3>1
      <4>. QED  BY <3>1, <4>1 DEF Size
    <3>2. CASE NewSteps(l, m) = 1
      <4>1. n + 1 + 1 \notin 1 .. Len(trace')
        BY <1>1, <3>2
      <4>. QED  BY <3>2, <4>1 DEF Size
    <3>. QED  BY <1>1, <3>1, <3>2
  <2>2. UpTo(Starts', n + 1) = Starts'
    BY <1>1, <1>3 DEF UpTo
  <2>3. Cardinality(Starts') = Cardinality(Starts) + 1
    <3>1. Starts \in SUBSET (1 .. n) /\ n + 1 \notin Starts
      BY <1>1, <1>3
    <3>2. IsFiniteSet(Starts)
      BY <1>1, <3>1, SubsetCounted
    <3>. QED  BY <1>3, <3>1, <3>2, FS_AddElement
  <2>4. Decisions = Cardinality(Starts)
    BY DEF Decisions, Starts
  <2>. QED  BY <2>1, <2>2, <2>3, <2>4 DEF Nth
<1>7. ASSUME NEW i \in Starts', Nth(i)' <= Len(plan')
      PROVE  /\ Len(plan'[Nth(i)']) = Size(i)'
             /\ Asked(trace'[i], plan'[Nth(i)'][1])
             /\ Asked(trace'[i + Size(i)' - 1], plan'[Nth(i)'][Size(i)'])
  <2>1. CASE i \in Starts
    <3>1. /\ Nth(i)' = Nth(i) /\ Size(i)' = Size(i) /\ plan' = plan
          /\ trace'[i] = trace[i] /\ trace'[i + Size(i) - 1] = trace[i + Size(i) - 1]
      BY <1>1, <1>5, <2>1
    <3>2. /\ Len(plan[Nth(i)]) = Size(i)
          /\ Asked(trace[i], plan[Nth(i)][1])
          /\ Asked(trace[i + Size(i) - 1], plan[Nth(i)][Size(i)])
      BY <1>7, <2>1, <3>1 DEF Followed, Obeyed
    <3>. QED  BY <3>1, <3>2
  <2>2. CASE i = n + 1
    <3>1. Decisions \in Nat
      <4>1. Starts \in SUBSET (1 .. n)
        BY <1>3
      <4>. QED  BY <1>1, <4>1, SubsetCounted DEF Decisions, Starts
    <3>2. Decisions < Len(plan) /\ RequestedChoice = plan[Decisions + 1]
      BY <1>6, <1>7, <2>2, <3>1, PlanShape DEF RequestedChoice
    <3>3. RequestedChoice # <<>>
      <4>1. Decisions + 1 \in DOMAIN plan
        BY <3>1, <3>2, PlanShape
      <4>2. ValidPlan(plan, Multi, Pairs)
        BY SchedulerAssumption DEF Shape
      <4>3. ValidChoice(plan[Decisions + 1], Multi, Pairs)
        BY <4>1, <4>2 DEF ValidPlan
      <4>4. Len(plan[Decisions + 1]) \in {1, 2}
        BY <4>3 DEF ValidChoice
      <4>. QED  BY <3>2, <4>4, ChoiceNotEmpty
    <3>4. /\ Len(RequestedChoice) = NewSteps(l, m)
          /\ Asked(NewStep(l), RequestedChoice[1])
          /\ Asked(NewStep(m), RequestedChoice[NewSteps(l, m)])
      BY <3>3 DEF Launches, Obeys
    <3>5. i + Size(i)' - 1 = n + NewSteps(l, m)
      BY <1>1, <1>6, <2>2
    <3>. QED  BY <1>1, <1>6, <2>2, <3>2, <3>4, <3>5
  <2>. QED  BY <1>3, <2>1, <2>2
<1>. QED  BY <1>4, <1>7 DEF Followed, Obeyed

LEMMA CallbackFollows ==
  ASSUME Shape, Followed, UNCHANGED <<trace, plan>>
  PROVE  Followed'
  BY GroupsKept

(* The loop's own steps, a release among them. *)
LEMMA RunFollows ==
  ASSUME Inductive, Followed, Run
  PROVE  Followed'
<1>1. Shape /\ Watching
  BY DEF Inductive
<1>2. UNCHANGED plan
  BY DEF Run, BeginPass, SampleTaken, LeaveLoop, EvaluateInvariant, NoticeStop, CleanUp, Loop
<1>3. ASSUME NEW STATE run, Idles(run) \/ Observes(run)
      PROVE  UNCHANGED trace
  BY <1>3 DEF Idles, Observes, Observe
<1>4. CASE BeginPass
  <2>1. UNCHANGED trace \/ \E l, m \in Lane : Launches(running, l, m)
    BY <1>1, <1>3, <1>4, BeginEnds
  <2>. QED  BY <1>1, <1>2, <2>1, CallbackFollows, LaunchFollows
<1>5. CASE SampleTaken
  <2>1. UNCHANGED trace \/ \E l, m \in Lane : Launches(SampledRun, l, m)
    BY <1>1, <1>3, <1>5, SampleEnds
  <2>. QED  BY <1>1, <1>2, <2>1, CallbackFollows, LaunchFollows
<1>6. CASE LeaveLoop \/ EvaluateInvariant \/ NoticeStop \/ CleanUp
  <2>1. UNCHANGED trace
    BY <1>6 DEF LeaveLoop, EvaluateInvariant, NoticeStop, CleanUp, Throw
  <2>. QED  BY <1>1, <1>2, <2>1, CallbackFollows
<1>. QED  BY <1>4, <1>5, <1>6 DEF Run

LEMMA FollowedStep == Inductive /\ Followed /\ [Next]_vars => Followed'
<1>. SUFFICES ASSUME Inductive, Followed, [Next]_vars PROVE Followed'
  OBVIOUS
<1>1. Shape
  BY DEF Inductive
<1>2. ASSUME NEW l \in Lane, Complete(l) PROVE Followed'
  <2>1. Started /\ UNCHANGED plan
    BY <1>2 DEF Inductive, Complete
  <2>. QED  BY <1>1, <1>2, <2>1, CompleteShape, GroupsKept
<1>3. CASE UNCHANGED <<trace, plan>>
  BY <1>1, <1>3, CallbackFollows
<1>4. CASE Application
  <2>1. UNCHANGED <<trace, plan>>
    BY <1>4 DEF Application, Connect, Announce, LeaveConnection, CopyDone, CancelRequest, Settle,
                PgStep
  <2>. QED  BY <1>3, <2>1
<1>5. CASE Proxy
  <2>1. UNCHANGED <<trace, plan>> \/ \E l \in Lane : Complete(l)
    BY <1>5 DEF Proxy, Disconnected, ConnectionFails, CancelAcknowledged, CancelTimesOut
  <2>. QED  BY <1>2, <1>3, <2>1
<1>6. CASE Postgres
  <2>1. UNCHANGED <<trace, plan>>
    BY <1>6 DEF Postgres, Execute, Grant, Respond, DeadlockVictim, LockTimeout, BackendExits,
                OutsideReleases, CancelActs, ObserverAnswers, Loop, PgStep
  <2>. QED  BY <1>3, <2>1
<1>7. CASE Interrupt \/ Done \/ UNCHANGED vars
  <2>1. UNCHANGED <<trace, plan>>
    BY <1>7 DEF Interrupt, Done, vars
  <2>. QED  BY <1>3, <2>1
<1>. QED  BY <1>4, <1>5, <1>6, <1>7, RunFollows DEF Next

(* Decision k of an execution is what entry k of its plan asked for, with  *)
(* an overlapped pair's two steps released together and in the plan's      *)
(* order, whatever the execution waits for between its decisions           *)
(* (runner.ts:143-145, 397-398, 400-447).                                  *)
THEOREM PlansAreFollowed == Spec => []PlanFollowed
<1>1. Inductive /\ Followed => PlanFollowed
  BY FollowedMeans DEF Inductive
<1>. QED  BY FollowedInit, FollowedStep, AlwaysInductive, <1>1, PTL DEF Spec

-----------------------------------------------------------------------------
(***************************************************************************)
(* What a pass believes, when no connection is closed inside a             *)
(* transaction: a lane it has confirmed still waits for a lane's lock,     *)
(* unless a cancel, a unit that has ended, a wait that has failed or the   *)
(* sample just taken is yet to be heard of.                                *)
(***************************************************************************)
(* A lane that holds a lock keeps its connection. *)
Holders ==
  \A k \in Locks :
    failure = "none" /\ holder[k] \in Lane => conn[holder[k]] = "open"

AtWork == {"sent", "exec", "lockwait", "copy", "answered"}

(* So does one with a unit announced or in flight. *)
Workers ==
  \A l \in Lane :
    /\ failure = "none" /\ ~Quiet(l) => conn[l] = "open"
    /\ pg[l] \in AtWork => running[l] # "no"

(* Only a COPY waits for its client, only a lock is waited for. *)
Kinds ==
  \A l \in Lane :
    /\ pg[l] = "copy" \/ confirmed[l] = "client" => UnitOf(l) = "copy"
    /\ confirmed[l] = "lock" => UnitOf(l) \in Locks

Unconfirmed == pc = "top" => \A l \in Lane : confirmed[l] = "nothing"

(* A unit in flight that the pass will find, or has found, not waiting. *)
Busy(l) ==
  /\ running[l] # "no" /\ pg[l] \in {"exec", "answered"}
  /\ confirmed[l] # "lock" /\ UnitOf(l) # "copy"

(* A lane that was confirmed waiting and has failed. *)
Victim(l) == confirmed[l] = "lock" /\ running[l] # "no" /\ Failed(l)

Blocked(l) == Waiting(l) /\ Blocker(l) \in Lane

(* A lane whose sample, on its way, names a session of no actor. *)
Outcast(l) == l = watch.lane /\ watch.answer = "lock" /\ watch.blocker \notin Lane

Beliefs ==
  \/ pending # {}
  \/ \E l \in Lane : Busy(l)
  \/ \E l \in Lane : Victim(l)
  \/ \A l \in Lane : confirmed[l] = "lock" => Blocked(l) \/ Outcast(l)

Believed == pc = "observe" /\ ~stale /\ failure = "none" => Beliefs

Standing == Holders /\ Workers /\ Kinds /\ Unconfirmed /\ Believed

LEMMA SomeLane ==
  ASSUME NEW l \in Lane
  PROVE  l # Nobody /\ l # Outside
<1>1. l.actor \in Actors
  BY DEF Lane
<1>2. \A a \in Actors : a # Nobody.actor /\ a # Outside.actor
  BY SchedulerAssumption, Zenon DEF Nobody, Outside
<1>. QED  BY <1>1, <1>2

LEMMA OutsideIsSomebody == Outside # Nobody
<1>1. \A a : [actor |-> a, connection |-> -2] # [actor |-> a, connection |-> -1]
  BY SMT
<1>. QED  BY <1>1, Zenon DEF Outside, Nobody

LEMMA NotLocks == "copy" \notin Locks /\ "commit" \notin Locks
<1>1. Locks \intersect {"none", "plain", "copy", "commit"} = {}
  BY SchedulerAssumption, Zenon
<1>. QED  BY <1>1

LEMMA StandingInit ==
  ASSUME Init
  PROVE  Standing
<1>1. \A k \in Locks : holder[k] \in {Nobody, Outside}
  BY DEF Init
<1>2. Holders
  BY <1>1, SomeLane DEF Holders
<1>. QED
  BY <1>2 DEF Init, Standing, Workers, AtWork, Quiet, Kinds, Unconfirmed, Believed

(* A runtime event voids whatever the pass believes. *)
LEMMA EventStanding ==
  ASSUME Inductive, Standing, Shape', RuntimeEvent, SameSteps, UNCHANGED pc,
         Holders', Workers', \A l \in Lane : pg'[l] = "copy" => pg[l] = "copy"
  PROVE  Standing'
<1>1. ASSUME NEW l \in Lane, pg'[l] = "copy"
      PROVE  UnitOf(l)' = "copy"
  <2>1. pg[l] = "copy" /\ running[l] # "no" /\ UnitOf(l) = "copy"
    BY <1>1 DEF Standing, Workers, AtWork, Kinds
  <2>2. PICK i \in 1 .. Len(trace) : IsLast(l, i)
    BY <2>1 DEF Inductive, Started
  <2>. QED  BY <2>1, <2>2, StepsKept DEF Inductive
<1>2. Kinds'
  BY <1>1 DEF Kinds, RuntimeEvent
<1>3. Unconfirmed' /\ Believed'
  BY DEF Unconfirmed, Believed, RuntimeEvent
<1>. QED  BY <1>2, <1>3 DEF Standing

(* A callback that PostgreSQL does not see changes none of it. *)
LEMMA SilentStanding ==
  ASSUME Standing, Holders', Workers', pending \subseteq pending',
         UNCHANGED <<pc, watch, stale, confirmed, running, trace, pg, holder>>,
         failure # "none" => failure' # "none"
  PROVE  Standing'
<1>1. \A l \in Lane : UnitOf(l)' = UnitOf(l)
  BY DEF UnitOf, LastStep
<1>2. Kinds' /\ Unconfirmed'
  BY <1>1 DEF Standing, Kinds, Unconfirmed
<1>3. Beliefs => Beliefs'
  BY <1>1 DEF Beliefs, Busy, Victim, Failed, Blocked, Outcast, Waiting, Blocker
<1>. QED  BY <1>2, <1>3 DEF Standing, Believed

LEMMA ConnectionsStanding ==
  ASSUME ~Abandons, Inductive, Standing, NEW l \in Lane,
         Connect(l) \/ LeaveConnection(l) \/ Disconnected(l) \/ ConnectionFails(l)
           \/ \E u \in Commands : Announce(l, u)
  PROVE  Standing'
<1>1. Shape /\ Holders /\ Workers /\ Unconfirmed
  BY DEF Inductive, Standing
<1>2. Shape'
  BY <1>1, ConnectShape, FailsShape, AnnounceShape
<1>3. l # Nobody
  BY SomeLane
<1>4. CASE Connect(l)
  <2>1. /\ RuntimeEvent /\ conn[l] = "new" /\ conn' = [conn EXCEPT ![l] = "open"]
        /\ pg' = [pg EXCEPT ![l] = "idle"]
        /\ UNCHANGED <<pc, trace, failure, head, running, holder>>
    BY <1>4 DEF Connect, loop, stops
  <2>2. Holders' /\ Workers'
    BY <1>1, <2>1 DEF Shape, TypeOK, Holders, Workers, AtWork, Quiet
  <2>. QED
    BY <1>1, <1>2, <2>1, <2>2, EventStanding DEF SameSteps, Shape, TypeOK
<1>5. CASE LeaveConnection(l)
  <2>1. /\ conn' = [conn EXCEPT ![l] = "leaving"] /\ Quiet(l) /\ ~Holding(l)
        /\ UNCHANGED <<pc, watch, stale, confirmed, trace, failure, head, running, holder, pg,
                       pending>>
    BY <1>5 DEF LeaveConnection, NoRuntimeEvent, loop, stops
  <2>2. Holders' /\ Workers'
    BY <1>1, <2>1 DEF Shape, TypeOK, Holders, Workers, Quiet, Holding
  <2>. QED
    BY <2>1, <2>2, SilentStanding
<1>6. CASE Disconnected(l)
  <2>1. /\ RuntimeEvent /\ conn[l] = "leaving" /\ conn' = [conn EXCEPT ![l] = "closed"]
        /\ UNCHANGED <<pc, trace, failure, head, running, holder, pg>>
    BY <1>6 DEF Disconnected, loop, stops
  <2>2. Holders' /\ Workers'
    BY <1>1, <2>1 DEF Shape, TypeOK, Holders, Workers, Quiet
  <2>. QED
    BY <1>2, <2>1, <2>2, EventStanding DEF SameSteps
<1>7. CASE ConnectionFails(l)
  <2>1. /\ RuntimeEvent /\ failure' # "none" /\ running' = [running EXCEPT ![l] = "no"]
        /\ pg' = [pg EXCEPT ![l] = "idle"] /\ UNCHANGED <<pc, trace, holder>>
    BY <1>7 DEF ConnectionFails, Stop, loop
  <2>2. Holders' /\ Workers'
    BY <1>1, <2>1 DEF Shape, TypeOK, Holders, Workers, AtWork
  <2>. QED
    BY <1>1, <1>2, <2>1, <2>2, EventStanding DEF SameSteps, Shape, TypeOK
<1>8. CASE \E u \in Commands : Announce(l, u)
  <2>1. /\ conn[l] = "open" /\ \A n \in Lane \ {l} : head'[n] = head[n]
        /\ UNCHANGED <<pc, watch, stale, confirmed, trace, failure, running, holder, pg, pending,
                       conn>>
    BY <1>1, <1>8 DEF Announce, NoRuntimeEvent, loop, stops, Shape, TypeOK
  <2>2. Holders' /\ Workers'
    BY <1>1, <2>1 DEF Holders, Workers, Quiet
  <2>. QED
    BY <2>1, <2>2, SilentStanding
<1>. QED  BY <1>4, <1>5, <1>6, <1>7, <1>8

LEMMA SignalsStanding ==
  ASSUME Inductive, Standing,
         \/ Interrupt
         \/ \E a \in Actors, status \in {"fulfilled", "rejected"} : Settle(a, status)
         \/ \E a \in Actors, l \in Lane : CancelRequest(a, l)
         \/ \E c \in 1 .. MaxCancels : CancelAcknowledged(c) \/ CancelTimesOut(c)
  PROVE  Standing'
<1>1. Shape /\ Holders /\ Workers
  BY DEF Inductive, Standing
<1>2. /\ UNCHANGED <<pc, watch, running, trace, head, conn, pg, holder>>
      /\ failure # "none" => failure' # "none"
  BY DEF Interrupt, Settle, CancelRequest, CancelAcknowledged, CancelTimesOut, Stop, loop, stops,
         world
<1>3. Holders' /\ Workers'
  BY <1>1, <1>2 DEF Holders, Workers, Quiet
<1>4. CASE UNCHANGED <<stale, confirmed>> /\ pending \subseteq pending'
  BY <1>2, <1>3, <1>4, SilentStanding
<1>5. CASE \E c \in 1 .. MaxCancels : CancelAcknowledged(c) \/ CancelTimesOut(c)
  <2>1. RuntimeEvent /\ SameSteps
    BY <1>2, <1>5 DEF CancelAcknowledged, CancelTimesOut, SameSteps
  <2>. QED
    BY <1>1, <1>2, <1>3, <1>5, <2>1, AcknowledgeShape, EventStanding
<1>. QED
  BY <1>4, <1>5 DEF Interrupt, Settle, CancelRequest, NoRuntimeEvent, stops

LEMMA CompleteStanding ==
  ASSUME Inductive, Standing, NEW l \in Lane, Complete(l)
  PROVE  Standing'
<1>1. Shape /\ Started /\ Holders /\ Workers
  BY DEF Inductive, Standing
<1>2. Shape' /\ SameSteps
  BY <1>1, CompleteShape DEF SameSteps
<1>3. /\ RuntimeEvent /\ running' = [running EXCEPT ![l] = "no"]
      /\ pg' = [pg EXCEPT ![l] = "idle"]
      /\ UNCHANGED <<pc, failure, head, conn, holder>>
  BY DEF Complete, loop, stops
<1>4. Holders' /\ Workers'
  BY <1>1, <1>3 DEF Shape, TypeOK, Holders, Workers, AtWork, Quiet
<1>. QED
  BY <1>1, <1>2, <1>3, <1>4, EventStanding DEF Shape, TypeOK

(***************************************************************************)
(* PostgreSQL's steps.  One that moves l's backend ends no belief unless   *)
(* it frees a lock or ends a wait, and then something is to be heard of.   *)
(***************************************************************************)
Grows == \A k \in Locks : holder[k] \in Lane => holder'[k] \in Lane

Ends(l) ==
  /\ pg'[l] = "answered" /\ running[l] # "no" /\ UnitOf(l) # "copy"
  /\ UnitOf(l) \in Locks => holder'[UnitOf(l)] # l

LEMMA BackendStanding ==
  ASSUME Inductive, Standing, Shape', PgStep, NEW l \in Lane,
         \A n \in Lane \ {l} : pg'[n] = pg[n],
         pg[l] # "answered" /\ (pg[l] = "exec" => pg'[l] \in {"exec", "answered"}),
         pg'[l] \in AtWork => pg[l] \in AtWork,
         pg'[l] = "copy" => UnitOf(l) = "copy",
         \A k \in Locks : \/ holder'[k] \in {holder[k], Nobody}
                          \/ pg[l] \in AtWork /\ holder'[k] = l,
         failure # "none" \/ pending # {} \/ Ends(l) \/ (Grows /\ ~Blocked(l))
  PROVE  Standing'
<1>1. Shape /\ LocksOnly /\ Holders /\ Workers /\ Kinds
  BY DEF Inductive, Standing
<1>2. UNCHANGED <<pc, watch, stale, confirmed, running, trace, failure, pending, conn, head>>
  BY DEF PgStep, loop, stops
<1>3. \A n \in Lane : UnitOf(n)' = UnitOf(n)
  BY <1>2 DEF UnitOf, LastStep
<1>4. Holders'
  <2>1. ASSUME NEW k \in Locks, failure = "none", holder'[k] \in Lane
        PROVE  conn[holder'[k]] = "open"
    <3>1. CASE holder'[k] \in {holder[k], Nobody}
      BY <1>1, <2>1, <3>1, SomeLane DEF Holders
    <3>2. CASE pg[l] \in AtWork /\ holder'[k] = l
      BY <1>1, <2>1, <3>2 DEF Workers, Quiet
    <3>. QED  BY <3>1, <3>2
  <2>. QED  BY <1>2, <2>1 DEF Holders
<1>5. Workers'
  BY <1>1, <1>2 DEF Workers, Quiet
<1>6. Kinds'
  BY <1>1, <1>2, <1>3 DEF Kinds
<1>7. Unconfirmed'
  BY <1>2 DEF Standing, Unconfirmed
<1>8. ASSUME failure = "none", Beliefs
      PROVE  Beliefs'
  <2>1. CASE pending # {}
    BY <1>2, <2>1 DEF Beliefs
  <2>2. ASSUME NEW n \in Lane, Busy(n)
        PROVE  Busy(n)'
    BY <1>2, <1>3, <2>2 DEF Busy
  <2>3. ASSUME NEW n \in Lane, Victim(n)
        PROVE  Victim(n)'
    <3>1. n # l /\ pg[n] = "answered" /\ UnitOf(n) \in Locks /\ holder[UnitOf(n)] # n
      BY <2>3 DEF Victim, Failed
    <3>2. holder'[UnitOf(n)] # n
      BY <3>1, SomeLane
    <3>. QED  BY <1>2, <1>3, <2>3, <3>1, <3>2 DEF Victim, Failed
  <2>4. CASE pending = {} /\ \A n \in Lane : confirmed[n] = "lock" => Blocked(n) \/ Outcast(n)
    <3>1. CASE Ends(l)
      <4>1. CASE confirmed[l] = "lock"
        <5>1. UnitOf(l) \in Locks
          BY <1>1, <4>1 DEF Kinds
        <5>2. Victim(l)'
          BY <1>2, <1>3, <3>1, <4>1, <5>1 DEF Ends, Victim, Failed
        <5>. QED  BY <5>2 DEF Beliefs
      <4>2. CASE confirmed[l] # "lock"
        <5>1. Busy(l)'
          BY <1>2, <1>3, <3>1, <4>2 DEF Ends, Busy
        <5>. QED  BY <5>1 DEF Beliefs
      <4>. QED  BY <4>1, <4>2
    <3>2. CASE Grows /\ ~Blocked(l)
      <4>1. ASSUME NEW n \in Lane, confirmed'[n] = "lock", ~Outcast(n)'
            PROVE  Blocked(n)'
        <5>0. confirmed[n] = "lock" /\ ~Outcast(n)
          BY <1>2, <4>1 DEF Outcast
        <5>1. n # l /\ pg[n] = "lockwait" /\ UnitOf(n) \in Locks /\ holder[UnitOf(n)] \in Lane
          BY <1>1, <2>4, <3>2, <5>0 DEF Blocked, Waiting, Blocker, Kinds
        <5>. QED  BY <1>3, <3>2, <5>1 DEF Grows, Blocked, Waiting, Blocker
      <4>. QED  BY <4>1 DEF Beliefs
    <3>. QED  BY <1>8, <2>4, <3>1, <3>2
  <2>. QED  BY <1>8, <2>1, <2>2, <2>3, <2>4 DEF Beliefs
<1>9. Believed'
  BY <1>2, <1>8 DEF Standing, Believed
<1>. QED  BY <1>4, <1>5, <1>6, <1>7, <1>9 DEF Standing

(* An aborted transaction's locks are free. *)
LEMMA FreedLocks ==
  ASSUME NEW l \in Lane, NEW k \in Locks
  PROVE  /\ Freed(l)[k] \in {holder[k], Nobody} /\ Freed(l)[k] # l
         /\ holder[k] # l => Freed(l)[k] = holder[k]
<1>1. Freed(l)[k] = IF holder[k] = l THEN Nobody ELSE holder[k]
  BY DEF Freed
<1>2. l # Nobody
  BY SomeLane
<1>. QED  BY <1>1, <1>2

LEMMA PostgresStanding ==
  ASSUME Inductive, Standing, NEW l \in Lane,
         Execute(l) \/ Grant(l) \/ CopyDone(l) \/ Respond(l) \/ DeadlockVictim(l)
           \/ LockTimeout(l) \/ BackendExits(l)
  PROVE  Standing'
<1>1. Shape /\ LocksOnly /\ Holders /\ Workers /\ Kinds /\ Shape'
  BY PostgresShape DEF Inductive, Standing
<1>2. /\ pg \in [Lane -> {"none", "idle", "sent", "exec", "lockwait", "copy", "answered", "gone"}]
      /\ holder \in [Locks -> Lane \union {Nobody, Outside}]
      /\ l # Nobody /\ Nobody \notin Lane
  BY <1>1, SomeLane DEF Shape, TypeOK
<1>. "copy" \notin Locks /\ "commit" \notin Locks
  BY NotLocks
<1>3. CASE Execute(l)
  <2>1. /\ PgStep /\ pg[l] = "sent" /\ pg'[l] \in {"exec", "lockwait", "copy"}
        /\ pg'[l] = "copy" => UnitOf(l) = "copy"
        /\ \A n \in Lane \ {l} : pg'[n] = pg[n]
        /\ \A k \in Locks : holder'[k] \in {holder[k], l}
    BY <1>2, <1>3 DEF Execute
  <2>2. Grows /\ ~Blocked(l)
    BY <2>1 DEF Grows, Blocked, Waiting
  <2>. QED  BY <1>1, <1>2, <2>1, <2>2, BackendStanding DEF AtWork
<1>4. CASE Grant(l)
  <2>1. /\ PgStep /\ pg[l] = "lockwait" /\ pg'[l] = "exec" /\ Blocker(l) = Nobody
        /\ \A n \in Lane \ {l} : pg'[n] = pg[n]
        /\ \A k \in Locks : holder'[k] = holder[k] \/ holder'[k] = l
    BY <1>2, <1>4 DEF Grant, Waiting
  <2>2. Grows /\ ~Blocked(l)
    BY <1>2, <2>1 DEF Grows, Blocked
  <2>. QED  BY <1>1, <2>1, <2>2, BackendStanding DEF AtWork
<1>5. CASE CopyDone(l)
  <2>1. /\ PgStep /\ pg[l] = "copy" /\ pg'[l] = "exec" /\ UNCHANGED holder
        /\ \A n \in Lane \ {l} : pg'[n] = pg[n]
    BY <1>2, <1>5 DEF CopyDone
  <2>2. Grows /\ ~Blocked(l)
    BY <2>1 DEF Grows, Blocked, Waiting
  <2>. QED  BY <1>1, <2>1, <2>2, BackendStanding DEF AtWork
<1>6. CASE Respond(l)
  <2>1. /\ PgStep /\ pg[l] = "exec" /\ pg'[l] = "answered"
        /\ \A n \in Lane \ {l} : pg'[n] = pg[n]
        /\ holder' = IF UnitOf(l) = "commit" THEN Freed(l) ELSE holder
    BY <1>2, <1>6 DEF Respond
  <2>2. Ends(l) \/ (Grows /\ ~Blocked(l))
    <3>1. CASE UnitOf(l) = "commit"
      BY <1>1, <2>1, <3>1 DEF Ends, Workers, AtWork
    <3>2. CASE UnitOf(l) # "commit"
      BY <2>1, <3>2 DEF Grows, Blocked, Waiting
    <3>. QED  BY <3>1, <3>2
  <2>3. \A k \in Locks : holder'[k] \in {holder[k], Nobody}
    BY <1>1, <2>1, FreedLocks
  <2>. QED  BY <1>1, <2>1, <2>2, <2>3, BackendStanding DEF AtWork
<1>7. CASE DeadlockVictim(l) \/ LockTimeout(l)
  <2>1. PgStep /\ Waiting(l) /\ pg' = [pg EXCEPT ![l] = "answered"] /\ holder' = Freed(l)
    <3>1. CASE DeadlockVictim(l)
      <4>1. PICK cycle \in SUBSET {m \in Lane : Waiting(m)} : l \in cycle
        BY <3>1 DEF DeadlockVictim
      <4>. QED  BY <3>1, <4>1 DEF DeadlockVictim, Aborted
    <3>2. CASE LockTimeout(l)
      BY <3>2 DEF LockTimeout, Aborted
    <3>. QED  BY <1>7, <3>1, <3>2
  <2>2. UnitOf(l) \in Locks /\ UnitOf(l) # "copy" /\ running[l] # "no"
    BY <1>1, <1>2, <2>1 DEF LocksOnly, Workers, AtWork, Waiting
  <2>3. Ends(l) /\ \A k \in Locks : holder'[k] \in {holder[k], Nobody}
    BY <1>1, <1>2, <2>1, <2>2, FreedLocks DEF Ends
  <2>. QED  BY <1>1, <1>2, <2>1, <2>3, BackendStanding DEF AtWork, Waiting
<1>8. CASE BackendExits(l)
  <2>1. /\ PgStep /\ pg[l] = "idle" /\ pg' = [pg EXCEPT ![l] = "gone"] /\ holder' = Freed(l)
        /\ conn[l] # "open"
    BY <1>8 DEF BackendExits
  <2>2. \A k \in Locks : holder'[k] \in {holder[k], Nobody}
    BY <1>1, <2>1, FreedLocks
  <2>3. failure # "none" \/ (Grows /\ ~Blocked(l))
    BY <1>1, <1>2, <2>1, FreedLocks DEF Grows, Blocked, Waiting, Holders
  <2>. QED  BY <1>1, <1>2, <2>1, <2>2, <2>3, BackendStanding DEF AtWork
<1>. QED  BY <1>3, <1>4, <1>5, <1>6, <1>7, <1>8

(* A lock that an outside session gives up was no lane's. *)
LEMMA OutsideStanding ==
  ASSUME Inductive, Standing, NEW k \in Locks, OutsideReleases(k)
  PROVE  Standing'
<1>1. Shape /\ LocksOnly /\ Holders /\ Workers /\ Kinds
  BY DEF Inductive, Standing
<1>2. /\ UNCHANGED <<pc, watch, stale, confirmed, running, trace, failure, pending, conn, head, pg>>
      /\ holder[k] = Outside /\ holder' = [holder EXCEPT ![k] = Nobody]
  BY DEF OutsideReleases, PgStep, loop, stops
<1>3. \A n \in Lane : UnitOf(n)' = UnitOf(n)
  BY <1>2 DEF UnitOf, LastStep
<1>4. ASSUME NEW n \in Lane, NEW j \in Locks
      PROVE  holder'[j] = n <=> holder[j] = n
  BY <1>1, <1>2, SomeLane DEF Shape, TypeOK
<1>5. \A j \in Locks : holder'[j] \in Lane <=> holder[j] \in Lane
  BY <1>4
<1>6. \A j \in Locks : holder'[j] \in Lane => holder'[j] = holder[j]
  BY <1>4
<1>7. Holders'
  BY <1>1, <1>2, <1>5, <1>6 DEF Holders
<1>8. Workers'
  BY <1>1, <1>2 DEF Workers, Quiet
<1>9. Kinds'
  BY <1>1, <1>2, <1>3 DEF Kinds
<1>10. Beliefs => Beliefs'
  <2>1. ASSUME NEW n \in Lane
        PROVE  /\ Busy(n) => Busy(n)'
               /\ Victim(n) => Victim(n)'
               /\ Outcast(n) => Outcast(n)'
    BY <1>2, <1>3, <1>4 DEF Busy, Victim, Failed, Outcast
  <2>2. ASSUME NEW n \in Lane, confirmed[n] = "lock", Blocked(n)
        PROVE  Blocked(n)'
    BY <1>1, <1>2, <1>3, <1>5, <2>2 DEF Blocked, Waiting, Blocker, Kinds
  <2>. QED  BY <1>2, <2>1, <2>2 DEF Beliefs
<1>. QED
  BY <1>2, <1>7, <1>8, <1>9, <1>10 DEF Standing, Unconfirmed, Believed

LEMMA CancelActsStanding ==
  ASSUME Inductive, Standing, NEW c \in 1 .. MaxCancels, CancelActs(c)
  PROVE  Standing'
<1>1. Shape /\ CancelHolds /\ Holders /\ Workers /\ Kinds
  BY DEF Inductive, Standing
<1>2. Shape' /\ PgStep /\ c \in unsignalled
  BY <1>1, CancelActsShape DEF CancelActs
<1>3. PICK l \in Lane : l = cancels[c].lane
  <2>1. cancels[c] \in Cancel
    BY <1>1, <1>2, ElementOfSeq DEF Shape
  <2>. QED  BY <2>1 DEF Cancel
<1>4. pending # {} \/ failure # "none"
  BY <1>1, <1>2 DEF CancelHolds
<1>5. CASE /\ pg[l] \in {"exec", "lockwait", "copy"}
           /\ pg' = [pg EXCEPT ![l] = "answered"] /\ holder' = Freed(l)
  <2>1. \A k \in Locks : holder'[k] \in {holder[k], Nobody}
    BY <1>1, <1>5, FreedLocks
  <2>2. pg'[l] = "answered" /\ \A n \in Lane \ {l} : pg'[n] = pg[n]
    BY <1>1, <1>5 DEF Shape, TypeOK
  <2>. QED
    BY <1>2, <1>4, <1>5, <2>1, <2>2, BackendStanding DEF AtWork
<1>6. CASE UNCHANGED <<pg, holder>>
  <2>1. UNCHANGED <<pc, watch, stale, confirmed, running, trace, failure, pending, conn, head>>
    BY <1>2 DEF PgStep, loop, stops
  <2>2. Holders' /\ Workers'
    BY <1>1, <1>6, <2>1 DEF Holders, Workers, Quiet
  <2>. QED  BY <1>6, <2>1, <2>2, SilentStanding
<1>. QED  BY <1>3, <1>5, <1>6 DEF CancelActs, Aborted

(***************************************************************************)
(* The loop's own steps.                                                   *)
(***************************************************************************)
LEMMA IdlesStanding ==
  ASSUME Standing, NEW STATE run, Judged(run), Idles(run), Loop
  PROVE  Standing'
<1>1. /\ UNCHANGED <<trace, pg, head, holder, conn, failure>> /\ pc' # "observe"
      /\ \A l \in Lane : confirmed'[l] = "nothing" /\ (running'[l] = "no" <=> running[l] = "no")
  BY DEF Idles, EndPass, Loop, Judged
<1>2. Kinds'
  <2>1. \A l \in Lane : UnitOf(l)' = UnitOf(l)
    BY <1>1 DEF UnitOf, LastStep
  <2>. QED  BY <1>1, <2>1 DEF Standing, Kinds
<1>3. Holders' /\ Workers'
  BY <1>1 DEF Standing, Holders, Workers, Quiet
<1>. QED  BY <1>1, <1>2, <1>3 DEF Standing, Unconfirmed, Believed

LEMMA RestsStanding ==
  ASSUME Standing, Rests, Loop
  PROVE  Standing'
<1>1. /\ UNCHANGED <<trace, pg, head, holder, conn, failure, running, confirmed>>
      /\ pc' \notin {"top", "observe"}
  BY DEF Rests, Loop
<1>2. Kinds'
  <2>1. \A l \in Lane : UnitOf(l)' = UnitOf(l)
    BY <1>1 DEF UnitOf, LastStep
  <2>. QED  BY <1>1, <2>1 DEF Standing, Kinds
<1>3. Holders' /\ Workers'
  BY <1>1 DEF Standing, Holders, Workers, Quiet
<1>. QED  BY <1>1, <1>2, <1>3 DEF Standing, Unconfirmed, Believed

(* A pass that goes on believes what it believed. *)
LEMMA ObservesStanding ==
  ASSUME Standing, NEW STATE run, Judged(run), Observes(run), Loop,
         pc = "top" \/ (pc = "observe" /\ ~Foreign /\ UNCHANGED stale)
  PROVE  Standing'
<1>1. /\ UNCHANGED <<trace, pg, head, holder, conn, failure, pending, confirmed>>
      /\ pc' = "observe" /\ \A l \in Lane : running'[l] = "no" <=> running[l] = "no"
  BY DEF Observes, Observe, Loop, Judged
<1>2. \A l \in Lane : UnitOf(l)' = UnitOf(l)
  BY <1>1 DEF UnitOf, LastStep
<1>3. Kinds' /\ Unconfirmed'
  BY <1>1, <1>2 DEF Standing, Kinds, Unconfirmed
<1>4. Holders' /\ Workers'
  BY <1>1 DEF Standing, Holders, Workers, Quiet
<1>5. Believed'
  <2>1. CASE pc = "top"
    <3>1. \A l \in Lane : confirmed'[l] = "nothing"
      BY <1>1, <2>1 DEF Standing, Unconfirmed
    <3>. QED  BY <3>1 DEF Believed, Beliefs
  <2>2. CASE pc = "observe" /\ ~Foreign /\ UNCHANGED stale
    <3>1. \A l \in Lane : /\ Busy(l) => Busy(l)'
                          /\ Victim(l) => Victim(l)'
                          /\ Blocked(l) => Blocked(l)'
                          /\ ~Outcast(l)
      <4>1. \A l \in Lane : ~Outcast(l)
        BY <2>2 DEF Outcast, Foreign, Live
      <4>. QED
       BY <4>1, <1>1, <1>2 DEF Busy, Victim, Failed, Blocked, Waiting, Blocker
    <3>2. Beliefs => Beliefs'
      BY <1>1, <3>1 DEF Beliefs
    <3>. QED  BY <1>1, <2>2, <3>2 DEF Standing, Believed
  <2>. QED  BY <2>1, <2>2
<1>. QED  BY <1>3, <1>4, <1>5 DEF Standing

LEMMA LaunchesStanding ==
  ASSUME Inductive, Standing, NEW STATE run, NEW l \in Lane, NEW m \in Lane,
         Judged(run), Launches(run, l, m), Loop
  PROVE  Standing'
<1>1. Shape /\ Shape' /\ Started
  BY LaunchesShape DEF Inductive
<1>2. /\ pc' = "top" /\ UNCHANGED <<holder, conn, failure>>
      /\ \A n \in Lane : confirmed'[n] = "nothing"
      /\ \A n \in {l, m} : head[n] # "none" /\ run[n] = "no"
  BY ReleasableLanes DEF Launches, EndPass, Loop
<1>3. Holders'
  BY <1>2 DEF Standing, Holders
<1>4. Workers'
  BY <1>2 DEF Standing, Workers, AtWork, Quiet, Launches, Judged
<1>5. ASSUME NEW n \in Lane, pg'[n] = "copy"
      PROVE  UnitOf(n)' = "copy"
  <2>1. n \notin {l, m} /\ pg[n] = "copy"
    BY <1>5 DEF Launches
  <2>2. running[n] # "no" /\ UnitOf(n) = "copy"
    BY <2>1 DEF Standing, Workers, AtWork, Kinds
  <2>3. PICK i \in 1 .. Len(trace) : IsLast(n, i)
    BY <1>1, <2>2 DEF Started
  <2>. QED  BY <1>1, <2>1, <2>2, <2>3, LaunchLeavesOthers
<1>6. Kinds'
  BY <1>2, <1>5 DEF Kinds
<1>. QED  BY <1>2, <1>3, <1>4, <1>6 DEF Standing, Unconfirmed, Believed

(* The observation confirms of a lane what it finds at that moment. *)
LEMMA AnswerStanding ==
  ASSUME Inductive, Standing, ObserverAnswers
  PROVE  Standing'
<1>1. Shape /\ Watching /\ LocksOnly /\ Holders /\ Workers /\ Kinds
  BY DEF Inductive, Standing
<1>2. PICK w \in Lane : w = watch.lane
  BY <1>1 DEF Watching, ObserverAnswers
<1>3. /\ UNCHANGED <<pc, stale, running, trace, head, pg, holder, conn, failure, pending>>
      /\ pc = "observe" /\ \A n \in Lane \ {w} : confirmed'[n] = confirmed[n]
  BY <1>1, <1>2 DEF ObserverAnswers, Loop, Shape, TypeOK
<1>4. \/ running[w] = "no" /\ confirmed'[w] = confirmed[w]
      \/ running[w] # "no" /\ confirmed'[w] = "lock" /\ Waiting(w) /\ Blocker(w) # Nobody
      \/ running[w] # "no" /\ confirmed'[w] = "client" /\ pg[w] = "copy"
      \/ running[w] # "no" /\ confirmed'[w] = "nothing"
  BY <1>1, <1>2 DEF ObserverAnswers, Shape, TypeOK
<1>5. \A n \in Lane : UnitOf(n)' = UnitOf(n)
  BY <1>3 DEF UnitOf, LastStep
<1>6. Kinds'
  BY <1>1, <1>3, <1>4, <1>5 DEF Kinds, LocksOnly, Waiting
<1>7. Holders' /\ Workers' /\ Unconfirmed'
  BY <1>1, <1>3 DEF Holders, Workers, Quiet, Unconfirmed
<1>8. \A n \in Lane : ~Outcast(n)
  BY DEF Outcast, ObserverAnswers
<1>9. ASSUME Beliefs
      PROVE  Beliefs'
  <2>1. CASE pending # {}
    BY <1>3, <2>1 DEF Beliefs
  <2>2. ASSUME NEW n \in Lane, Busy(n)
        PROVE  Busy(n)'
    BY <1>3, <1>4, <1>5, <2>2 DEF Busy, Waiting
  <2>3. ASSUME NEW n \in Lane, Victim(n)
        PROVE  Victim(n)' \/ Busy(n)'
    <3>1. pg[n] = "answered" /\ UnitOf(n) \in Locks /\ UnitOf(n) # "copy"
      BY <2>3, NotLocks DEF Victim, Failed
    <3>. QED
      BY <1>3, <1>4, <1>5, <2>3, <3>1 DEF Victim, Failed, Busy, Waiting
  <2>4. CASE \A n \in Lane : confirmed[n] = "lock" => Blocked(n)
    <3>1. ASSUME NEW n \in Lane, confirmed'[n] = "lock"
          PROVE  Blocked(n) \/ Outcast(n)'
      <4>1. CASE confirmed[n] = "lock"
        BY <2>4, <4>1
      <4>2. CASE n = w /\ Waiting(w) /\ Blocker(w) # Nobody
        BY <1>1, <1>2, <4>2 DEF Blocked, Outcast, ObserverAnswers, Shape, TypeOK
      <4>. QED  BY <1>3, <1>4, <3>1, <4>1, <4>2
    <3>2. \A n \in Lane : Blocked(n) => Blocked(n)'
      BY <1>3, <1>5 DEF Blocked, Waiting, Blocker
    <3>. QED  BY <3>1, <3>2 DEF Beliefs
  <2>. QED  BY <1>8, <1>9, <2>1, <2>2, <2>3, <2>4 DEF Beliefs
<1>. QED
  BY <1>3, <1>6, <1>7, <1>9 DEF Standing, Believed

LEMMA RunStanding ==
  ASSUME Inductive, Standing, Run
  PROVE  Standing'
<1>1. Shape /\ Watching /\ Judged(running)
  BY RunningJudged DEF Inductive
<1>2. CASE BeginPass
  <2>1. pc = "top"
    BY <1>2 DEF BeginPass
  <2>. QED
    BY <1>1, <1>2, <2>1, BeginEnds, IdlesStanding, LaunchesStanding, ObservesStanding
<1>3. CASE SampleTaken
  <2>1. Judged(SampledRun)
    BY <1>1, <1>3, SampledJudged DEF SampleTaken
  <2>. QED
    BY <1>1, <1>3, <2>1, SampleEnds, IdlesStanding, LaunchesStanding, ObservesStanding
<1>4. CASE LeaveLoop \/ EvaluateInvariant \/ NoticeStop \/ CleanUp
  BY <1>1, <1>4, LoopEnds, IdlesStanding, RestsStanding
<1>. QED  BY <1>2, <1>3, <1>4 DEF Run

LEMMA StandingStep ==
  ASSUME ~Abandons, Inductive, Standing, [Next]_vars
  PROVE  Standing'
<1>1. CASE Done \/ UNCHANGED vars
  <2>1. UNCHANGED <<pc, watch, stale, confirmed, running, trace, pg, holder, pending, failure,
                    head, conn>>
    BY <1>1 DEF Done, vars
  <2>2. Holders' /\ Workers'
    BY <2>1 DEF Standing, Holders, Workers, Quiet
  <2>. QED  BY <2>1, <2>2, SilentStanding
<1>2. CASE Application
  BY <1>2, ConnectionsStanding, SignalsStanding, PostgresStanding DEF Application
<1>3. CASE Proxy \/ Interrupt
  BY <1>3, CompleteStanding, ConnectionsStanding, SignalsStanding DEF Proxy
<1>4. CASE Postgres
  BY <1>4, PostgresStanding, OutsideStanding, CancelActsStanding, AnswerStanding DEF Postgres
<1>. QED  BY <1>1, <1>2, <1>3, <1>4, RunStanding DEF Next

LEMMA AlwaysStanding ==
  ASSUME ~Abandons
  PROVE  Spec => []Standing
<1>1. Init => Standing
  BY StandingInit
<1>2. Inductive /\ Standing /\ [Next]_vars => Standing'
  BY StandingStep
<1>. QED  BY <1>1, <1>2, AlwaysInductive, PTL DEF Spec

(* A release is the end of a pass. *)
LEMMA ReleasesLaunch ==
  ASSUME Inductive, [Next]_vars, Released # {}
  PROVE  \/ /\ \A n \in Lane : running[n] = "no"
            /\ \E l, m \in Lane : Launches(running, l, m)
         \/ /\ SampleTaken /\ ~stale /\ ~Foreign /\ todo = {}
            /\ \E l, m \in Lane : Launches(SampledRun, l, m)
<1>1. PICK r \in Lane : pg'[r] = "sent" /\ pg[r] # "sent"
  BY DEF Released
<1>2. Shape /\ Watching
  BY DEF Inductive
<1>3. pg' # pg /\ ~Calm
  BY <1>1 DEF Calm, PgMoves
<1>4. ~(Done \/ UNCHANGED vars) /\ ~Interrupt
  BY <1>3, SignalsCalm DEF Done, vars
<1>5. ~Application
  BY <1>3, ConnectionsCalm, SignalsCalm, PostgresCalm DEF Application, CancelRequest, world
<1>6. ~Proxy
  BY <1>3, ConnectionsCalm, SignalsCalm, CompleteCalm DEF Proxy
<1>7. ~Postgres
  BY <1>3, PostgresCalm, OthersCalm DEF Postgres, ObserverAnswers
<1>8. ~(LeaveLoop \/ EvaluateInvariant \/ NoticeStop \/ CleanUp)
  BY <1>2, <1>3, LoopEnds DEF Idles, Rests
<1>9. ASSUME NEW STATE run PROVE ~Idles(run) /\ ~Observes(run)
  BY <1>3 DEF Idles, Observes, Observe
<1>10. CASE BeginPass
  BY <1>2, <1>9, <1>10, BeginEnds
<1>11. CASE SampleTaken
  BY <1>2, <1>9, <1>11, SampleEnds
<1>. QED
  BY <1>4, <1>5, <1>6, <1>7, <1>8, <1>10, <1>11 DEF Next, Run

(* What the end of a pass that releases has found of each lane. *)
LEMMA FoundWaiting ==
  ASSUME Inductive, Standing, SampleTaken, ~stale, todo = {}, ~Unready(SampledRun),
         NEW l \in Lane, running[l] # "no"
  PROVE  /\ SampledRun[l] \in {"blocked", "client"}
         /\ SampledRun[l] = "blocked" => confirmed[l] = "lock"
         /\ SampledRun[l] = "client" => confirmed[l] = "client"
<1>1. Shape /\ Sampled /\ Watching /\ pc = "observe" /\ watch.answer # "asked"
  BY DEF Inductive, SampleTaken
<1>2. SampledRun[l] # "no" /\ SampledRun[l] \in Statuses
  BY <1>1, SampledJudged DEF Judged
<1>3. SampledRun[l] # "unblocked"
  BY DEF Unready, YieldsTo
<1>4. CASE l # watch.lane
  <2>1. SampledRun[l] = running[l]
    BY <1>1, <1>4 DEF SampledRun, Shape, TypeOK
  <2>. QED  BY <1>1, <1>2, <1>3, <1>4, <2>1 DEF Sampled, Statuses
<1>5. CASE l = watch.lane
  <2>1. SampledRun[l] = Sample /\ confirmed[l] = watch.answer
    BY <1>1, <1>5 DEF SampledRun, Shape, TypeOK, Sampled
  <2>. QED  BY <1>2, <1>3, <2>1 DEF Sample, Statuses
<1>. QED  BY <1>4, <1>5

LEMMA OthersWaitStep ==
  ASSUME Inductive, Standing, [Next]_vars, Released # {}
  PROVE  \/ \A l \in Lane : running'[l] = "blocked" => Waiting(l) /\ Blocker(l) \in Live
         \/ \E l \in Lane : running'[l] = "blocked" /\ Failed(l)
<1>1. CASE /\ \A n \in Lane : running[n] = "no"
           /\ \E l, m \in Lane : Launches(running, l, m)
  BY <1>1 DEF Launches
<1>2. CASE /\ SampleTaken /\ ~stale /\ ~Foreign /\ todo = {}
           /\ \E l, m \in Lane : Launches(SampledRun, l, m)
  <2>1. PICK l, m \in Lane : Launches(SampledRun, l, m)
    BY <1>2
  <2>2. /\ ~Unready(SampledRun) /\ pending = {}
        /\ \A n \in Lane : running'[n] = IF n \in {l, m} THEN "unblocked" ELSE SampledRun[n]
        /\ SampledRun[l] = "no" /\ SampledRun[m] = "no"
    BY <2>1, ReleasableLanes DEF Launches, Unready
  <2>3. /\ Shape /\ LocksOnly /\ Watching /\ Holders /\ Kinds /\ Believed
        /\ pc = "observe" /\ failure = "none"
    BY <1>2 DEF Inductive, Standing, SampleTaken
  <2>4. Judged(SampledRun)
    BY <2>3, SampledJudged
  <2>5. ASSUME NEW n \in Lane, running[n] # "no"
        PROVE  /\ running'[n] \in {"blocked", "client"}
               /\ running'[n] = "blocked" => confirmed[n] = "lock"
               /\ running'[n] = "client" => confirmed[n] = "client"
    <3>1. n \notin {l, m}
      BY <2>2, <2>4, <2>5 DEF Judged
    <3>. QED  BY <1>2, <2>2, <2>5, <3>1, FoundWaiting
  <2>6. \A n \in Lane : running'[n] = "blocked" => confirmed[n] = "lock"
    BY <2>2, <2>4, <2>5 DEF Judged
  <2>7. Beliefs /\ \A n \in Lane : ~Outcast(n)
    BY <1>2, <2>3 DEF Believed, Outcast, Foreign, Live
  <2>8. ASSUME NEW n \in Lane PROVE ~Busy(n)
    BY <2>3, <2>5 DEF Busy, Kinds
  <2>9. ASSUME NEW n \in Lane, Victim(n)
        PROVE  running'[n] = "blocked" /\ Failed(n)
    BY <2>5, <2>9 DEF Victim
  <2>10. ASSUME NEW n \in Lane, Blocked(n), UnitOf(n) \in Locks
         PROVE  Waiting(n) /\ Blocker(n) \in Live
    BY <2>3, <2>10 DEF Blocked, Blocker, Holders, Live
  <2>11. \A n \in Lane : confirmed[n] = "lock" => UnitOf(n) \in Locks
    BY <2>3 DEF Kinds
  <2>. QED
    BY <2>2, <2>6, <2>7, <2>8, <2>9, <2>10, <2>11 DEF Beliefs
<1>. QED  BY <1>1, <1>2, ReleasesLaunch

(* While no connection is closed inside a transaction, a release rests on  *)
(* waits that are still real, although each was sampled some awaits        *)
(* earlier: for any actors, locks, cancels, copies, failures, lock         *)
(* timeouts, outside sessions and interruptions.  At worst one of the      *)
(* waits has failed, and its error is on its way (runner.ts:346-365).      *)
THEOREM OthersAreWaiting ==
  ASSUME ~Abandons
  PROVE  Spec => OthersReallyWait
<1>1. Inductive /\ Standing /\ [Next]_vars =>
        [Released # {} =>
           \/ \A l \in Lane : running'[l] = "blocked" => Waiting(l) /\ Blocker(l) \in Live
           \/ \E l \in Lane : running'[l] = "blocked" /\ Failed(l)]_vars
  BY OthersWaitStep
<1>. QED
  BY <1>1, AlwaysInductive, AlwaysStanding, PTL DEF Spec, OthersReallyWait

================================================================================
