--------------------------------- MODULE Search ---------------------------------
(***************************************************************************)
(* src/explore.ts: search over the schedules of a scenario, and            *)
(* src/minimize.ts: reduction of a failing schedule it found.  Both run    *)
(* the scenario through runTarget() with a plan, whose choices the runner  *)
(* follows before it falls back to fairLane().                             *)
(*                                                                         *)
(* A scenario is what its runs show: after each sequence of decisions, the *)
(* lanes that can proceed.  A decision is the sequence of the lanes it     *)
(* releases, one or an overlapped pair; a history is complete when nothing *)
(* can proceed, and then has a verdict.  The loop of explore() awaits only *)
(* runTarget(), and looks at the clock before every decision it branches   *)
(* on, so those are the places where the model's steps begin.              *)
(***************************************************************************)
EXTENDS Lanes, FiniteSets, SequencesExt

CONSTANTS
  Cases,     \* names of the scenarios searched
  Scenario,  \* [Cases -> what its runs show]: available, verdict, multi and pairs
  Plans,     \* [Cases -> initial plans a caller may pass]
  Limits,    \* [Cases -> options: maxRuns, maxCandidates, maxBytes, maxAttempts, seeded, keepGoing]
  RunSizes,  \* encoded sizes of a run's artifact
  Faulty     \* cases whose runs may end early, hard or unclean, and whose budgets may run out

(* Outcomes of a run that ended before its verdict. *)
Early == {"inconclusive", "actor-error", "harness-error"}

(* The decisions between lanes that can proceed. *)
DecisionsOf(lanes, pairs) ==
  {<<l>> : l \in lanes}
  \union IF pairs THEN {<<l, m>> : l \in lanes, m \in lanes} \ {<<l, l>> : l \in lanes} ELSE {}

(* A scenario has finitely many runs, and judges those that are complete.  *)
ASSUME ScenarioAssumption ==
  \A c \in Cases : LET s == Scenario[c] IN
    /\ IsFiniteSet(DOMAIN s.available) /\ <<>> \in DOMAIN s.available
    /\ DOMAIN s.available \subseteq Seq(Seq(Lane))
    /\ \A node \in DOMAIN s.available : \A n \in 0 .. Len(node) : SubSeq(node, 1, n) \in DOMAIN s.available
    /\ \A node \in DOMAIN s.available : IsFiniteSet(s.available[node]) /\ s.available[node] \subseteq Lane
    /\ \A h \in DOMAIN s.available : s.available[h] = {} => s.verdict[h] \notin Early \union {"incompatible"}

(* A run takes decisions between lanes that can proceed, any of them; the  *)
(* proxy holds an actor to one unless its profile is multi-producer.       *)
ASSUME DecisionAssumption ==
  \A c \in Cases : LET s == Scenario[c] IN
    \A node \in DOMAIN s.available :
      /\ \A d \in DecisionsOf(s.available[node], s.pairs) : Append(node, d) \in DOMAIN s.available
      /\ \A i \in DOMAIN node : node[i] \in DecisionsOf(s.available[SubSeq(node, 1, i - 1)], s.pairs)
      /\ \A l, m \in s.available[node] : SameActor(l, m) /\ l # m => s.multi

(* What can proceed is released before the run is complete: the loop goes  *)
(* on until every queue is empty.                                          *)
ASSUME CompletionAssumption ==
  \A c \in Cases : LET s == Scenario[c] IN
    \A h \in DOMAIN s.available : s.available[h] = {} =>
      \A n \in 0 .. Len(h) : \A l \in s.available[SubSeq(h, 1, n)] :
        \E i \in n + 1 .. Len(h) : \E k \in DOMAIN h[i] : h[i][k] = l

(* integerLimit(), planFile(): what the options of a search may be. *)
ASSUME OptionsAssumption ==
  /\ \A c \in Cases :
       /\ Plans[c] \subseteq Seq(Seq(Entry))
       /\ \A l \in Limits[c] : {l.maxRuns, l.maxCandidates, l.maxBytes, l.maxAttempts} \subseteq Nat
  /\ RunSizes \subseteq Nat

VARIABLES
  case, limits, initial,    \* fixed when the command starts
  pc,        \* "search", "running", "branch" or "done"
  frontier,  \* keys not dispatched yet, oldest first
  seen,      \* every key that was ever in the frontier
  current,   \* the plan dispatched last; when branching, the history it led to
  index,     \* the decision to branch on next
  attempted, \* metrics.attemptedRuns
  runs,      \* result.runs with the plan and the size of each, without their order
  violations, hard, omitted, \* violationCount, hardFailureCount, omittedRuns
  bytes,     \* retainedBytes
  stop,      \* stopReason
  signal     \* "none", "deadline" or "aborted": what budget.reason() would say

tally  == <<runs, violations, hard, omitted>>
search == <<pc, frontier, seen, current, index, attempted, tally, bytes, stop>>
job    == <<case, limits, initial>>

-----------------------------------------------------------------------------
(***************************************************************************)
(* A run under a plan.                                                     *)
(***************************************************************************)
AvailableLanes(node) == Scenario[case].available[node]

Nodes == DOMAIN Scenario[case].available

Histories == {node \in Nodes : AvailableLanes(node) = {}}

LastConnection(node) ==
  [a \in Actors |->
     LET uses == {i \in DOMAIN node : \E k \in DOMAIN node[i] : node[i][k].actor = a}
     IN  IF uses = {} THEN -1
         ELSE LET d == node[CHOOSE i \in uses : \A j \in uses : j <= i]
              IN  d[CHOOSE k \in DOMAIN d : /\ d[k].actor = a
                                            /\ \A j \in DOMAIN d : d[j].actor = a => j <= k].connection]

FairStart(node) == IF node = <<>> THEN 0 ELSE Position(Last(Last(node)).actor) % Len(Names)

(* What the runner releases for a choice; {} when it is incompatible.      *)
Picks(entry, lanes, node) == Resolution(entry, lanes, {}, {}, TRUE, LastConnection(node)).lanes

Resolved(choice, node) ==
  LET lanes == AvailableLanes(node)
  IN  {d \in {<<l>> : l \in lanes} \union {<<l, m>> : l \in lanes, m \in lanes} :
         /\ Len(d) = Len(choice)
         /\ d[1] \in Picks(choice[1], lanes, node)
         /\ Len(d) = 2 => d[2] \in Picks(choice[2], lanes \ {d[1]}, node)}

Fallback(node) ==
  {<<l>> : l \in FairLanes(AvailableLanes(node), FairStart(node), LastConnection(node))}

(* The decision a plan leads to after a history. *)
Following(plan, node) ==
  IF Len(node) < Len(plan) THEN Resolved(plan[Len(node) + 1], node) ELSE Fallback(node)

(* How far a run gets with a plan: the longest history that it leads to. *)
Reached(plan) ==
  LET led == {h \in Nodes : \A i \in DOMAIN h : h[i] \in Following(plan, SubSeq(h, 1, i - 1))}
  IN  CHOOSE h \in led : \A g \in led : Len(g) <= Len(h)

(* A plan that asks for what cannot proceed, or for more than there is. *)
Compatible(plan) == Reached(plan) \in Histories /\ Len(plan) <= Len(Reached(plan))

Verdict(plan) ==
  IF Compatible(plan) THEN Scenario[case].verdict[Reached(plan)] ELSE "incompatible"

Result(h, o, clean) == [history |-> h, outcome |-> o, clean |-> clean]

(* How a run towards h may end: at its verdict, or before it.  A budget    *)
(* that ran out has aborted the run, unless it had come to its end.        *)
Endings(h, verdict) ==
  {Result(h, verdict, TRUE)}
  \union IF case \notin Faulty THEN {}
         ELSE {Result(SubSeq(h, 1, n), o, TRUE) : n \in {0, Len(h)}, o \in Early}
              \union {Result(<<>>, "harness-error", FALSE)}

(* What runTarget() may return. *)
Results(plan) == Endings(Reached(plan), Verdict(plan))

Failure(r) == r.outcome \notin Early \union {"passed", "incompatible"}

HardFailure(r) == r.outcome \in {"actor-error", "harness-error"} \/ ~r.clean

-----------------------------------------------------------------------------
(***************************************************************************)
(* The choices of a run in plan notation: only actors that released        *)
(* commands on several connections are named with their lane.              *)
(***************************************************************************)
Released(h) == UNION {{h[i][k] : k \in DOMAIN h[i]} : i \in DOMAIN h}

MultiLane(h) ==
  {a \in Actors : Scenario[case].multi
     /\ \E l, m \in Released(h) : l # m /\ l.actor = a /\ m.actor = a}

Name(l, multi) ==
  [actor |-> l.actor, connection |-> IF l.actor \in multi THEN l.connection ELSE AnyConnection]

Choice(d, multi) == [k \in DOMAIN d |-> Name(d[k], multi)]

ChoicesOf(h) ==
  LET multi == MultiLane(h) IN [i \in DOMAIN h |-> Choice(h[i], multi)]

Before(l, m) ==
  \/ Position(l.actor) < Position(m.actor)
  \/ SameActor(l, m) /\ l.connection < m.connection

DecisionChoices(node, multi) ==
  LET lanes == AvailableLanes(node)
  IN  {Choice(<<l>>, multi) : l \in lanes}
      \union IF Scenario[case].pairs
             THEN {Choice(<<p[1], p[2]>>, multi) : p \in {q \in lanes \X lanes : Before(q[1], q[2])}}
             ELSE {}

(* Mutation: an off-by-one, the first decision is never branched on. *)
KeysAtLater(h, i) ==
  LET multi   == MultiLane(h)
      choices == ChoicesOf(h)
  IN  {Append(SubSeq(choices, 1, i - 1), alternative) :
         alternative \in IF i = 1 THEN {}
                         ELSE DecisionChoices(SubSeq(h, 1, i - 1), multi) \ {choices[i]}}

(* The keys that branch off a run at its i-th decision. *)
KeysAt(h, i) ==
  LET multi   == MultiLane(h)
      choices == ChoicesOf(h)
  IN  {Append(SubSeq(choices, 1, i - 1), alternative) :
         alternative \in DecisionChoices(SubSeq(h, 1, i - 1), multi) \ {choices[i]}}

(* Encoded size of a key: brackets, and a name and a comma for each choice. *)
KeyBytes(key) == IF key = <<>> THEN 2 ELSE 1 + 2 * Len(key)

(* Mutation: the alternative itself is not counted. *)
BranchBytesOfPrefix(i) == 1 + 2 * (i - 1)

(* The same for a key that branches off at the i-th decision. *)
BranchBytes(i) == 1 + 2 * i

LatestDecision(h) == Len(h)

Schedules ==
  {h \in Histories : \A i \in DOMAIN h : Len(h[i]) = 2 => Before(h[i][1], h[i][2])}

-----------------------------------------------------------------------------
Init ==
  /\ case \in Cases /\ limits \in Limits[case] /\ initial \in Plans[case]
  /\ frontier = <<initial>> /\ seen = {initial}
  /\ current = <<>> /\ index = 0 /\ attempted = 0
  /\ runs = {} /\ violations = 0 /\ hard = 0 /\ omitted = 0
  /\ signal = "none"
  /\ IF KeyBytes(initial) > limits.maxBytes
     THEN pc = "done" /\ bytes = 0 /\ stop = "max-search-bytes"
     ELSE pc = "search" /\ bytes = KeyBytes(initial) /\ stop = "frontier-exhausted"

(* The total deadline passes, or the caller aborts.  Branching never yields *)
(* to the event loop, but the clock goes on.                               *)
BudgetRunsOut(s) ==
  /\ case \in Faulty /\ pc # "done"
  /\ signal = "none" \/ (signal = "deadline" /\ s = "aborted")
  /\ pc = "branch" => s = "deadline"
  /\ signal' = s
  /\ UNCHANGED <<job, search>>

Budget == UNCHANGED <<job, signal>>

StopSearch(reason) == stop' = reason /\ pc' = "done"

(* The loop ends by itself: prefixes left over are what maxRuns cut off. *)
Conclude ==
  /\ pc = "search" /\ (frontier = <<>> \/ attempted >= limits.maxRuns)
  /\ StopSearch(IF frontier = <<>> THEN stop ELSE "max-runs")
  /\ UNCHANGED <<frontier, seen, current, index, attempted, tally, bytes>> /\ Budget

StopAtHead ==
  /\ pc = "search" /\ frontier # <<>> /\ attempted < limits.maxRuns
  /\ signal # "none"
  /\ StopSearch(signal)
  /\ UNCHANGED <<frontier, seen, current, index, attempted, tally, bytes>> /\ Budget

(* Mutation: the run limit is not looked at. *)
DispatchUnlimited(i) ==
  /\ pc = "search" /\ signal = "none"
  /\ i \in DOMAIN frontier /\ (limits.seeded \/ i = 1)
  /\ current' = frontier[i] /\ frontier' = RemoveAt(frontier, i)
  /\ attempted' = attempted + 1 /\ pc' = "running"
  /\ UNCHANGED <<seen, index, tally, bytes, stop>> /\ Budget

(* Mutation: the chosen prefix is run, but the oldest one is removed. *)
DispatchShift(i) ==
  /\ pc = "search" /\ attempted < limits.maxRuns /\ signal = "none"
  /\ i \in DOMAIN frontier /\ (limits.seeded \/ i = 1)
  /\ current' = frontier[i] /\ frontier' = Tail(frontier)
  /\ attempted' = attempted + 1 /\ pc' = "running"
  /\ UNCHANGED <<seen, index, tally, bytes, stop>> /\ Budget

(* FIFO takes the oldest key; the seeded hash may name any. *)
Dispatch(i) ==
  /\ pc = "search" /\ attempted < limits.maxRuns /\ signal = "none"
  /\ i \in DOMAIN frontier /\ (limits.seeded \/ i = 1)
  /\ current' = frontier[i]
  /\ frontier' = RemoveAt(frontier, i)
  /\ attempted' = attempted + 1
  /\ pc' = "running"
  /\ UNCHANGED <<seen, index, tally, bytes, stop>> /\ Budget

(* A run came back: counted, retained when it fits, and branched on unless *)
(* it ends the search.                                                     *)
RunReturns(r, size) ==
  LET interrupted == signal # "none"
      caught      == Failure(r) /\ ~limits.keepGoing
  IN  /\ pc = "running"
      /\ violations' = violations + IF Failure(r) THEN 1 ELSE 0
      /\ hard' = hard + IF HardFailure(r) THEN 1 ELSE 0
      /\ IF bytes + size > limits.maxBytes
         THEN /\ omitted' = omitted + 1
              /\ StopSearch("max-search-bytes")
              /\ UNCHANGED <<bytes, runs, current, index>>
         ELSE /\ bytes' = bytes + size
              /\ runs' = runs \union {[plan |-> current, result |-> r, size |-> size]}
              /\ UNCHANGED omitted
              /\ IF interrupted \/ caught \/ r.outcome \in Early
                 THEN /\ StopSearch(IF interrupted THEN signal
                                    ELSE IF caught THEN "failure" ELSE "inconclusive")
                      /\ UNCHANGED <<current, index>>
                 ELSE /\ pc' = "branch" /\ current' = r.history /\ index' = LatestDecision(r.history)
                      /\ UNCHANGED stop
      /\ UNCHANGED <<frontier, seen, attempted>> /\ Budget

(* The latest deviations first.  Keys of one decision join in an order that *)
(* no property depends on, until one no longer fits.                       *)
BranchAt ==
  /\ pc = "branch" /\ index > 0 /\ signal = "none"
  /\ \E fresh \in {SetToSeq(KeysAt(current, index) \ seen)} : \E n \in 0 .. Len(fresh) :
       LET size == BranchBytes(index)
           Fits(k) == bytes + k * size <= limits.maxBytes /\ Cardinality(seen) + k <= limits.maxCandidates
       IN  /\ Fits(n) /\ (n < Len(fresh) => ~Fits(n + 1))
           /\ frontier' = frontier \o SubSeq(fresh, 1, n)
           /\ seen' = seen \union {fresh[k] : k \in 1 .. n}
           /\ bytes' = bytes + n * size
           /\ IF n = Len(fresh)
              THEN index' = index - 1 /\ UNCHANGED <<pc, stop>>
              ELSE /\ StopSearch(IF bytes + (n + 1) * size > limits.maxBytes
                                 THEN "max-search-bytes" ELSE "max-candidates")
                   /\ UNCHANGED index
  /\ UNCHANGED <<current, attempted, tally>> /\ Budget

StopBranching ==
  /\ pc = "branch" /\ index > 0 /\ signal # "none"
  /\ StopSearch(signal)
  /\ UNCHANGED <<frontier, seen, current, index, attempted, tally, bytes>> /\ Budget

Branched ==
  /\ pc = "branch" /\ index = 0
  /\ pc' = "search"
  /\ UNCHANGED <<frontier, seen, current, index, attempted, tally, bytes, stop>> /\ Budget

Step ==
  \/ Conclude \/ StopAtHead \/ BranchAt \/ StopBranching \/ Branched
  \/ \E i \in DOMAIN frontier : Dispatch(i)
  \/ pc = "running" /\ \E r \in Results(current), size \in RunSizes : RunReturns(r, size)

BudgetStep == \E s \in {"deadline", "aborted"} : BudgetRunsOut(s)

(* explorationExitCode(). *)
ExitCode ==
  IF hard > 0 THEN 2
  ELSE IF stop \in {"max-runs", "max-candidates", "max-search-bytes", "deadline", "aborted", "inconclusive"} THEN 4
  ELSE IF violations > 0 THEN 1
  ELSE IF \A r \in runs : r.result.outcome = "incompatible" THEN 3
  ELSE 0

-----------------------------------------------------------------------------
TypeOK ==
  /\ case \in Cases /\ pc \in {"search", "running", "branch", "done"}
  /\ Range(frontier) \subseteq seen
  /\ attempted \in 0 .. limits.maxRuns /\ index \in Nat
  /\ \A r \in runs : r.plan \in seen
  /\ {violations, hard, omitted, bytes} \subseteq Nat
  /\ signal \in {"none", "deadline", "aborted"}

(* What a caller concludes from exit code 0, "the modeled exploration      *)
(* frontier was exhausted without a violation" (docs/cli.md:267): every    *)
(* schedule the scenario can show was run to its end and passed, whatever  *)
(* plan the search began with and in whatever order it took prefixes.      *)
(* A pair is searched in one order: "each unordered pair" (lanes.ts:172).  *)
ZeroExitMeansEverySchedulePassed ==
  pc = "done" /\ ExitCode = 0 =>
    \A h \in Schedules : \E r \in runs : r.result = Result(h, "passed", TRUE)

(* No prefix is dispatched twice and none is lost: a key is in the frontier *)
(* once, or was taken out of it and never enters it again.                 *)
EachKeyOnce ==
  /\ Cardinality(seen) = Len(frontier) + attempted
  /\ IsInjective(frontier)
  /\ Range(frontier) \intersect {r.plan : r \in runs} = {}

(* retainedBytes is within its limit and is what the retained artifacts    *)
(* and every key kept in seen take, dispatched ones included.              *)
BytesAccounted ==
  /\ bytes <= limits.maxBytes
  /\ bytes = 0 \/ bytes = SumFunction([key \in seen |-> KeyBytes(key)])
                           + SumFunction([r \in runs |-> r.size])

(* What the budget and the exit status are computed from is true: every    *)
(* key is counted once, in the frontier and in the retained bytes.         *)
FrontierIsAccounted == EachKeyOnce /\ BytesAccounted

================================================================================
