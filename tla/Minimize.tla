------------------------------- MODULE Minimize -------------------------------
(***************************************************************************)
(* src/minimize.ts, the command beside exploration: replay a recorded      *)
(* failure exactly, then delete chunks of its choices while it stays.      *)
(***************************************************************************)
EXTENDS Search

VARIABLES
  phase,     \* "search", "verify", "reduce", "trial", "reduced" or "unverified"
  original,  \* the history of the recorded failure
  plan,      \* the choices that reproduce it
  chunks, start, \* the reduction pass: chunks of the plan, where the next one begins
  attempts,  \* runs so far, the verification included
  candidate, \* the plan under trial
  locallyMinimal,
  stopReason,
  attemptFailure, \* a trial failed hard
  budget,    \* what this reduction's budget.reason() would say
  \* history
  tried      \* plans whose trial came back without the failure

reduction == <<phase, original, plan, chunks, start, attempts, candidate, locallyMinimal,
               stopReason, attemptFailure, budget, tried>>
vars == <<job, signal, search, reduction>>

ReductionInit ==
  /\ plan = <<>> /\ chunks = 2 /\ start = 0 /\ attempts = 0
  /\ candidate = <<>> /\ locallyMinimal = FALSE /\ stopReason = "max-attempts"
  /\ attemptFailure = FALSE /\ tried = {} /\ budget = "none"

(* minimize() takes a recorded run whose invariant failed. *)
MinimizeInit ==
  /\ case \in Cases /\ limits \in Limits[case] /\ initial = <<>>
  /\ original \in {h \in Histories : Scenario[case].verdict[h] # "passed"}
  /\ phase = "verify"
  /\ pc = "done" /\ frontier = <<>> /\ seen = {} /\ current = <<>> /\ index = 0 /\ attempted = 0
  /\ runs = {} /\ violations = 0 /\ hard = 0 /\ omitted = 0 /\ bytes = 0 /\ stop = "none"
  /\ signal = "none"

CommandInit ==
  /\ \/ Init /\ phase = "search" /\ original = <<>>
     \/ MinimizeInit
  /\ ReductionInit

Searching == (Step \/ BudgetStep) /\ UNCHANGED reduction

Reducing == UNCHANGED <<job, signal, search, original>>

Wanted == Scenario[case].verdict[original]

ReductionBudgetRunsOut(s) ==
  /\ case \in Faulty /\ phase \in {"verify", "reduce", "trial"}
  /\ budget = "none" \/ (budget = "deadline" /\ s = "aborted")
  /\ budget' = s
  /\ UNCHANGED <<phase, plan, chunks, start, attempts, candidate, locallyMinimal, stopReason,
                 attemptFailure, tried>> /\ Reducing

(* Mutation: the fingerprint is not compared. *)
AnyFailure(r) == Failure(r)

Reproduces(r) == r.outcome = Wanted

(* replay(): the recorded run again, decision by decision. *)
Replays == Endings(original, Wanted)

(* Anything but the same failure, cleanly ended and in the recorded        *)
(* environment, refuses to reduce; the reduction starts from the choices   *)
(* of the run that was replayed.                                           *)
Verification(r, drifted) ==
  /\ phase = "verify"
  /\ attempts' = 1
  /\ IF Reproduces(r) /\ ~HardFailure(r) /\ ~drifted
     THEN /\ phase' = "reduce"
          /\ plan' = ChoicesOf(r.history)
          /\ locallyMinimal' = (plan' = <<>>)
          /\ stopReason' = IF plan' = <<>> THEN "locally-minimal" ELSE stopReason
     ELSE phase' = "unverified" /\ UNCHANGED <<plan, locallyMinimal, stopReason>>
  /\ UNCHANGED <<chunks, start, candidate, attemptFailure, tried, budget>> /\ Reducing

Report(reason) == phase' = "reduced" /\ stopReason' = reason

(* What ends the loop between trials.  A pass that has tried all its       *)
(* chunks is left to PassEnds.                                             *)
StopReducing ==
  /\ phase = "reduce"
  /\ \/ start = 0 /\ (plan = <<>> \/ attempts >= limits.maxAttempts) /\ Report(stopReason)
     \/ /\ plan # <<>> /\ start < Len(plan) /\ (start = 0 => attempts < limits.maxAttempts)
        /\ budget # "none" /\ Report(budget)
     \/ start > 0 /\ start < Len(plan) /\ budget = "none" /\ attempts >= limits.maxAttempts
        /\ Report(stopReason)
  /\ UNCHANGED <<plan, chunks, start, attempts, candidate, locallyMinimal, attemptFailure,
                 tried, budget>> /\ Reducing

ChunkSize == (Len(plan) + chunks - 1) \div chunks

Try ==
  /\ phase = "reduce" /\ start < Len(plan) /\ budget = "none" /\ attempts < limits.maxAttempts
  /\ candidate' = SubSeq(plan, 1, start) \o SubSeq(plan, start + ChunkSize + 1, Len(plan))
  /\ phase' = "trial"
  /\ UNCHANGED <<plan, chunks, start, attempts, locallyMinimal, stopReason, attemptFailure,
                 tried, budget>> /\ Reducing

(* A trial came back.  A hard failure is reported even when the budget ran *)
(* out meanwhile; then the budget, then an environment that drifted.       *)
TrialReturns(r, drifted) ==
  /\ phase = "trial"
  /\ attempts' = attempts + 1
  /\ attemptFailure' = HardFailure(r)
  /\ IF HardFailure(r) \/ budget # "none" \/ drifted \/ r.outcome = "inconclusive"
     THEN /\ Report(IF HardFailure(r) \/ budget = "none" THEN "inconclusive" ELSE budget)
          /\ UNCHANGED <<plan, chunks, start, locallyMinimal, tried>>
     ELSE IF Reproduces(r)
     THEN /\ plan' = candidate
          /\ chunks' = IF chunks > 3 THEN chunks - 1 ELSE 2
          /\ start' = 0 /\ phase' = "reduce"
          /\ locallyMinimal' = (candidate = <<>>)
          /\ stopReason' = IF candidate = <<>> THEN "locally-minimal" ELSE stopReason
          /\ UNCHANGED tried
     ELSE /\ start' = start + ChunkSize /\ phase' = "reduce"
          /\ tried' = tried \union {candidate}
          /\ UNCHANGED <<plan, chunks, locallyMinimal, stopReason>>
  /\ UNCHANGED <<candidate, budget>> /\ Reducing

(* Mutation: chunks of two choices count as single ones. *)
ChunksOfTwo == 2 * chunks >= Len(plan)

SingleChoices == chunks >= Len(plan)

(* A pass without a reduction: done when its chunks were single choices. *)
PassEnds ==
  /\ phase = "reduce" /\ plan # <<>> /\ start >= Len(plan)
  /\ IF SingleChoices
     THEN /\ locallyMinimal' = TRUE /\ Report("locally-minimal")
          /\ UNCHANGED <<chunks, start>>
     ELSE /\ chunks' = IF 2 * chunks < Len(plan) THEN 2 * chunks ELSE Len(plan)
          /\ start' = 0
          /\ UNCHANGED <<phase, stopReason, locallyMinimal>>
  /\ UNCHANGED <<plan, attempts, candidate, attemptFailure, tried, budget>> /\ Reducing

(* Is the environment another one than was recorded or verified? *)
Drifts == {FALSE, (case \in Faulty)}

Reduce ==
  \/ StopReducing \/ Try \/ PassEnds
  \/ phase = "verify" /\ \E r \in Replays, d \in Drifts : Verification(r, d)
  \/ phase = "trial" /\ \E r \in Results(candidate), d \in Drifts : TrialReturns(r, d)

Next ==
  \/ Searching \/ Reduce
  \/ \E s \in {"deadline", "aborted"} : ReductionBudgetRunsOut(s)

Spec == CommandInit /\ [][Next]_vars

-----------------------------------------------------------------------------
Without(p, i) == SubSeq(p, 1, i - 1) \o SubSeq(p, i + 1, Len(p))

(* docs/api.md:358: "locallyMinimal applies to deleting explicit choices": *)
(* it is claimed only when every single choice left was deleted in a trial *)
(* that came back without the failure, whatever limit was near.            *)
LocallyMinimalIsHonest ==
  /\ phase = "reduced" => (locallyMinimal <=> stopReason = "locally-minimal")
  /\ locallyMinimal => \A i \in DOMAIN plan : Without(plan, i) \in tried

(* "It keeps the last verified matching failure" (docs/api.md:358): what   *)
(* is reported reproduces the failure under the runner's own fallback.     *)
KeptPlanReproduces ==
  phase \in {"reduce", "trial", "reduced"} => Verdict(plan) = Wanted

(* What minimize() reports is true: the plan kept reproduces the failure,  *)
(* and it is called locally minimal only after every deletion was tried.   *)
ReductionIsHonest == LocallyMinimalIsHonest /\ KeptPlanReproduces

================================================================================
