# A verification project for Interleave

Interleave reproduces PostgreSQL race conditions. It runs an application's
operations ("actors") against a disposable database, puts a TCP proxy between
each actor and PostgreSQL, holds every command at its proxy, and releases the
commands one decision at a time in a chosen order. A schedule that violates the
scenario's invariant is recorded, reduced, exported as a regression and replayed.
These modules model the parts of `src/src/` where concurrency, ordering and failure
make the program hard to test, check them with TLC, and prove the most important
results with TLAPS.

Paths below are those of the repository (`runner.ts` is `src/src/runner.ts`).

## 1. Inventory

| component | state | operations | hard because | what makes it correct |
|---|---|---|---|---|
| execution loop, `runner.ts` | lanes (held unit, unit in flight and what was last observed of it), trace, settled actors, first failure, cancel records, runtime epoch | proxy and actor callbacks, sampling of waits, decisions, releases, verdict, cleanup | callbacks run while the loop awaits an observation; samples go stale; PostgreSQL acts later than the proxy believes | a release only beside units that are known to wait; no wedge; honest verdicts |
| lane selection, `lanes.ts` | none (pure), `LaneBinder`: a partial bijection | fair choice, plan entries, replay binding | replayed connections arrive in another order and look alike | fairness; one bijection; a faithful replay is not refused |
| actor proxy, `proxy.ts` | sessions, generation counter, command owner, one pending replacement; per session: queue, unit in flight, open cycle, which sockets closed | accept, startup, command, announce, release, completion, fail, close, cancel routing, shutdown | two sockets per session close in any order; a replacement connects before the old one has gone | connection limit, one command owner, each released unit settles once, generations in admission order |
| wire protocol, `protocol/frontend.ts`, `backend.ts`, `framing.ts` | assembler of extended-protocol cycles, names acknowledged by PostgreSQL, response summaries | cut a byte stream into release units, name them, reconcile responses | pipelining, Flush stages, COPY inside cycles, skipped messages after an error | a unit is named for what runs and complete when all of it was answered |
| upstream transport, `protocol/upstream-transport.ts` | connection phase, deferred socket with queued writes | TCP, SSLRequest, TLS, ordered hand-over | write, end and destroy before the connection exists | bytes in order, nothing after end, one close |
| exploration, `explore.ts`, `exploration-search.ts`, `search-budget.ts` | frontier, seen set, budgets | run a plan, branch on its decisions | four budgets, naming of lanes depends on the trace | `frontier-exhausted` means every schedule was run |
| minimization and replay, `minimize.ts`, `replay.ts` | current plan, chunk count | try a plan with a chunk removed; run a record again | budgets, failing attempts | the result still fails; `locallyMinimal` is true; a replayed verdict is of the recorded execution |
| owned database, `database.ts` | creation state, clients | create, recover, observe, close | a lost answer to CREATE DATABASE | never drops what it may not own; never leaks silently |
| supervised execution, `supervised.ts`, `worker.ts` | child, IPC token, deadline, grace timer, result | fork, abort, receive, kill, clean up | late results, timeouts against answers, worker death, descendants | one result, bound to its sources; database dropped last |
| managed server, `cli/managed-postgres.ts` | container identity | create, start, probe, remove | lost create reply, signals in any phase | removes exactly its own container, and does remove it |
| artifacts, `artifact.ts`, `artifact-schema.ts`, `evidence.ts` | a file; the record | write, validate, bound | crash while writing; interrupted executions | whole or absent; what was recorded is accepted |
| identity, `source-identity.ts`, `fixture-identity.ts` | files read and their stats; snapshot, sequences | walk, read, verify; open a snapshot, read, look again | files and sequences change meanwhile | an identity describes one state |
| regression export, `export.ts`, `export-install.ts`, `export-shared.ts` | files written, ownership of the folder | copy, pack, verify, install | anyone may edit the project and the folder | what is returned is what was recorded; nothing foreign is overwritten |
| process actors, CLI options, reports | child processes; none | run, parse, render | – | see section 6 |

How they interact: `explore` and `minimize` call the runner (directly or through a
supervised worker) once per plan. The runner creates the owned database and one
proxy per actor and passes each proxy three callbacks: `onUnit` (a command is
held), `onEvent` (startup, connected, disconnected, cancel) and `onError`. It
calls `unit.release()`, whose promise resolves on PostgreSQL's answer, and polls
`database.observeWait()` for what the units in flight wait for. Everything of one
process runs in one Node.js event loop, so interleavings happen exactly at the awaits.
The parent and its worker exchange messages over IPC; the record is the only thing
that writing, exporting and replaying share.

## 2. Modules

| module | models | role |
|---|---|---|
| `Lanes` | `lanes.ts`: lanes, plan entries, `fairLane`, `resolvePlanEntry`, `validatePlanEntries` | pure operators, used by `Scheduler`, `Search`, `RunRecord` |
| `ReleaseContract` | what the loop promises of every release | abstract specification |
| `Scheduler` | `execute()` of `runner.ts`, its callbacks, `observeWait`, and the PostgreSQL it watches | detailed specification |
| `StageOrder`, `RunRecord` | `artifact-schema.ts`, `evidence.ts`: which records are accepted | pure operators |
| `Recording` | the evidence `runner.ts` keeps | composes `Scheduler` with `RunRecord` |
| `LaneContract` | what a proxy promises the loop of an actor's connections | abstract specification |
| `ActorProxy` | `proxy.ts` for one actor: sessions and sockets | detailed specification |
| `Upstream` | `upstream-transport.ts` | one connection to PostgreSQL |
| `Wire` | `frontend.ts`, `backend.ts` and the data handlers of `proxy.ts` for one session | composed with `Upstream` |
| `Search`, `Minimize` | `explore.ts`, `minimize.ts` | `Minimize` extends `Search`: reduces what was found |
| `OwnedDatabase` | `database.ts`: creation and removal | steps used by `Supervision` |
| `Supervision` | `supervised.ts`, `worker.ts` | one execution, parent and worker |
| `Command` | `cli.ts`, `managed-postgres.ts` | composes the container's life with `Supervision` |
| `SourceIdentity` | `source-identity.ts` | a capture, step by step |
| `Export`, `Install` | `export.ts`, `export-shared.ts`; the generated `install.mjs` | use `SourceIdentity` for their captures |
| `RegressionFolder` | other programs, project and folder | composes the two above |
| `ArtifactFile` | `artifact.ts` | writers, crashes, power loss |
| `FixtureIdentity` | `fixture-identity.ts` | a capture against a forgotten session |
| `Replay` | replay mode of `runner.ts`, `LaneBinder` | composed with `FixtureIdentity` |
| `Regression` | the commands that use a record | composes the six above |
| `SchedulerMC`, `RecordingMC`, `ActorProxyMC`, `SearchMC`, `WireMC`, `RegressionMC` | – | constants for TLC |
| `Scheduler_proofs` | – | theorems about `Scheduler`: its invariant, its contract, its outcomes, its beliefs |
| `ActorProxy_proofs`, `Wire_proofs` | – | theorems about `ActorProxy` (admission; units, endings and `LaneContract`); about what a session of `Wire` holds |
| `Command_proofs`, `Regression_proofs` | – | theorems about a supervised command; about records, captures and folders |
| `Replay_proofs` | – | theorem about `Replay`: what a replay that reports reproduced has done |
| `Sums_proofs`, `Search_proofs` | – | induction and sums over functions; theorems about `Search` and `Minimize` |

Operators headed "Mutation" are one plausible bug each; no specification uses
them. Replacing the definition below by one of them must break a property.

### Scheduler

The loop's program counter `pc` names the awaits of `execute()`: `top` (a
`pause()`), `observe` (the `observeWait` query), `evaluate` (the scenario's
invariant), `closing` (the `finally` block), `done`. Everything between two awaits
is one action: `BeginPass` (343-351), `ObserverAnswers` (PostgreSQL computes the
answer), `SampleTaken` (the continuation of the await, up to the decision and the
release), `LeaveLoop`, `EvaluateInvariant`, `NoticeStop` (`check()`), `CleanUp`.
The decision itself is `Decide`: wait while something is unready, otherwise
choose fairly or follow the plan, and `Release`, which moves the held heads into
`running`, appends to the trace and counts a runtime event, in one step.

Callbacks are actions of their own: `Connect`, `Disconnected`, `Announce` (onUnit),
`Complete` and `ConnectionFails` (the release's promise), `Settle` (an actor's task),
`CancelRequest`, `CancelAcknowledged`, `CancelTimesOut`, `Interrupt` (deadline, abort,
evidence limit). `stale` is `sampledEpoch !== runtimeEpoch`: the only use of
the epoch in a pass is this comparison, so the unbounded counter is a Boolean.
`laneWait` pairs the plan entry waited for with whether a runtime event happened
since (`laneWaitEpoch`); the elapsed time is a choice. `trace` keeps a step's lane,
kind of unit, group (`step.overlap`) and whether it completed.

PostgreSQL is external and modelled from what the loop can see of it: a backend
is idle, was sent a command, executes, waits for a lock, waits for its client in
a COPY, has answered, or is gone. A transaction keeps its locks until commit, error
or exit. The deadlock detector, lock timeouts, sessions of no scheduled actor and
late cancel signals are actions. `pg[l]` is the truth; `running[l]` is what the
loop believes; most properties relate the two.

`confirmed` is a history variable: what the observer reported of a lane since the
last runtime event. It appears in no guard and exists for the refinement.

### ReleaseContract

Six variables and seven actions: what a reader of `runner.ts:343-390` may assume of a
release. `Contract == INSTANCE ReleaseContract WITH ...` in `Scheduler` maps the loop's
state to it and `HonoursContract == Contract!Spec` is checked and proved.
While a unit inside COPY waits only for its client, the contract allows
every actor with such a unit to go on, which is what the code does; the
documentation's stronger sentence is the finding below.

### ActorProxy

One action is one event of the proxy's sockets, one timer, or one call. Node runs
each handler to its end, so there is no state between two lines of a handler, and
the order of the events is free. For every client socket the module keeps where
it is (`place`), the state of both sockets of its session, the session's flags
(the local variables of `accept()`, as sets of sessions), and its command units:
`partial` is `cycles.bufferedBytes`, `queue` the units not yet released,
`announced` the sessions whose `queue[0].unit` exists, `prefix` the open cycle, `inFlight`
the released unit. `held` and `reported` are the other side of the callbacks:
the units the loop was given and has not released, and whether `onError` ran.

* Admission: `Connect` (accept, wait, refuse), `Abandon`, `Refuse`, `Retire` (`finishClose`
  and the promotion it triggers; only a promise callback lies between them).
* Client data: `Startup`, `CancelPacket`, `RefusedCancelPacket`, `BeginCycle`, `EndCycle`,
  `Terminate`, `Unsupported` (any message or size that `guard` turns into a failure).
* `Release`, and from PostgreSQL `Connected`, `ServerError`, `Completes`.
* `ClientEnd`, `ClientError`, `ClientClose`, `UpstreamEnd`, `UpstreamError`, `UpstreamClose`,
  `FailTimer`, `Close`, `CloseTimer`, `CancelSettles`.

A socket is `up`, `ending` (the proxy ended its side), `down` (its close event is
due) or `closed`; the peer may end or break it in the first two. Frames are
abstracted to the unit they finish: a `cycle` (simple query, or up to Sync), a
`describe` prefix, a `flush` stage.

### LaneContract

Four variables and eight actions: a lane starts, connects and disconnects once, in
numbers without gaps; it has one unit, held or flying; a released unit resolves,
or rejects once an error was reported or the proxy closes; nothing is left behind
without such an excuse. `ActorProxy!Contract` maps the proxy's state to it.
These are the assumptions `Scheduler` makes in its callback actions: `Announce`
only on a connected lane, `ConnectionFails` only with a failure of the execution,
no event of a lane after `Disconnected` and, with `OneProducer`, one open producer in
the single-producer profile.

### Recording, RunRecord, StageOrder

`Recording` adds to `Scheduler` what the loop writes down: of each step the time of
its release and completion, the choices there were and who was seen waiting
(`taken`), and of each cancel request its time and whether it was forwarded
(`arrivals`). It restricts nothing: each of its actions is one of `Scheduler`'s,
extended. `Artifact` is the record returned in the `finally` block (588-611).
`RunRecord!Accepts` is `parseRunArtifact()` conjunct by conjunct (`VersionFits`,
`ConnectionsFit`, `StepFits`, `TimesFit`, `PairFits`, `WaitsFit`, `CancelFits`, `ActorsFit`,
`StagesAccepted`) and `Finalized` is `finalizeRunEvidence()`. A time is only compared with
releases and cancel requests, so the clock counts those.

### Wire and Upstream

`Wire` is one admitted session with everything between the two sockets: `Receive`
is the client's data handler (cutting frames into units, `Accept`, `Refused`, a COPY
that `Passes`), `Announce` and `Release` the unit's life, `Backend` the upstream's data handler
(`KnownAfter` reconciles names with acknowledgements, `Completes` decides that a unit is
answered), `Fail`, `Shutdown`, `Leaves` and `UpstreamLost` its ends. Client and PostgreSQL are external,
and modelled by the protocol: a client sends the next of its cycles or stages,
ahead of answers where the protocol lets it, but awaits what a driver must await;
PostgreSQL serves frame by frame, may fail any command, skips to Sync, and enters and leaves
COPY. A frame weighs 2 and half a frame 1 against `maxBufferedBytes`.

`Upstream` is the connection below: `Connects` starts TCP, `Reply` the answer to SSLRequest,
`Secured` the handshake, `ConnectionFails`/`Breaks`/`Rejects` its failures, `Attach` the hand-over to
the `DeferredUpstream` on which `Write`, `End` and `Destroy` may have been called before.

### Search and Minimize

A scenario is data: the lanes that can proceed after each sequence of decisions and
a verdict of each complete one. `Dispatch` takes a prefix from the frontier (oldest, or
seeded: any), `RunReturns` is what came of following it and going on with `fairLane`, `BranchAt`
looks at the clock and branches on one decision within the limits, `StopAtHead` and
`StopBranching` apply them. `Minimize` adds the verification (`Verification` replays the recorded history
itself, `Replays`; `Drifts` is an environment that changed), the trials
(`Try`, `TrialReturns`) that give the runner a plan (`Results`), the passes over chunks (`PassEnds`) and every way to stop. Steps begin
where `explore()` and `minimize()` await or read the clock.

### OwnedDatabase, Supervision, Command

`OwnedDatabase` has one action per answer that may be lost: CREATE DATABASE may execute after its
connection has failed, recovery asks what exists, close drops. `Supervision` is
`runScenarioFile()`: the parent's waits (`pc`), its deadline with backstop, the caller's abort and the grace
kill; and the worker, arbitrary code that may report, report twice, talk
nonsense, spawn, hang or exit, seen through the channel (`inbox`). A worker's exit may be
seen before its last messages. `Command` surrounds it with `--docker`: from
`docker info` to the container's verified absence, the two kinds of stop
(signal, broken output) and the exit status. It makes one execution per
command; `Search` has the exit status of `explore`.

### SourceIdentity, FixtureIdentity

A file is its content and a stamp that every edit renews, as `sameFile()` compares device,
inode, size and both times. A capture keeps its stack of requests (`todo`), the files it has
read with their stamps and what each component consists of; each open, each read and
each `lstat` of the verification is a step, and the walk depends on what it reads (`Asks`).
`FixtureIdentity` is a repeatable-read snapshot for tables and plain reads for sequences, then
the second look at sequences and the two quiescence checks; a forgotten session may
open, change and end transactions at any time.

### Export, Install, RegressionFolder, ArtifactFile

`Export` is `exportRegression()` await by await: the record is compared, sources selected in a walk
of its own, captured, archives read; then the destination is claimed, each
file guarded, created exclusively and read back; npm packs or writes a lock; the project is
captured again; the manifest is written, the folder verified (`ExportVerify`,
`ExportList`, `ExportBind`) and returned. `Install` is the generated `install.mjs`: verify, fill a
cache, `npm ci`, verify, identify, verify. `RegressionFolder` lets others `Edit` any file of
project and folder at any step, and `Occupy` its place or move the folder away. npm is
external: it reads and writes what is there when it runs. `ArtifactFile` has several
writers of one path, each at any of its eight steps when it dies or the power fails.

### Replay and Regression

`Replay` is the loop in replay mode: `ReplayStart` compares environments, `ReplayFixture` fixtures;
`Connect`, `Queue`, `Close`, `Block`, `Answer` are its callbacks and samples; `Decide` asks `Resolve`
for the live lane of the next recorded step, which binds, waits or gives up;
`Impatience` is the moment at which waiting has made no progress; `ReplayFinish` compares the rest.
The application is data (its connections' startups and scripts), and may connect in any order
or be another one than was recorded. `Regression` is one of four commands over a record:
write it, export and install it, capture a fixture, replay.

## 3. Runs

| run | asks | bounds |
|---|---|---|
| `SchedulerQuiet` | `ReachesVerdict` | 2 actors, 1 connection each, locks x and y, 2 commands each and their commits, 1 cancel |
| `SchedulerDisturbed` | `OthersReallyWait`, `CancelNamesItsStep` | 2 actors, 1 connection each, lock x, COPY, 3 steps, 1 cancel, interruptions, failures, lock timeouts, outside sessions, connections closed outside a transaction |
| `RecordingCancels` | `RecordIsAccepted` | 2 actors, 1 connection each, lock x, COPY, pairs, 1 cancel, interruptions, failures, disturbances, closing connections, with the evidence kept |
| `SchedulerOutcomes` | `TypeOK`, `OutcomeIsHonest`, `PlanFollowed`, `RecordIsAccepted`, `Terminates` | 2 actors, 2 connections each, five plans with pairs and lane entries, 3 steps, interruptions, rejections, failures |
| `SchedulerProgress` | `HonoursContract`, `ReachesVerdict` | 2 actors, 2 connections each, lock x, COPY, pairs, no interruption |
| `SchedulerCopies` | `CopyExcludesOtherActors` (violated) | 2 actors, 2 connections each, COPY, optional pair plan |
| `ActorProxyLanes` | `TypeOK`, `NoUnitForgotten`, `TerminateIsLast`, `OneProducer`, `HonoursLaneContract` | 2 connections, limit 2, single producer, Flush stages, 2 units each and both sent ahead, all failures |
| `ActorProxyCloses` | `AdmissionSound`, `ConnectionsSettle` | 2 connections, limit 1, multi-producer, Describe prefixes, 2 units each, all failures |
| `WireCompletes` | `FingerprintIsWhatRan`, `CompletionMeansDone`, `BytesCountedOnce`, `CyclesEnd`, `UpstreamCloses` | one session in each of three profiles, 3 cycles or stages, names `""` and `s`, 1 failing command, 14 bytes (7 frames), TLS |
| `SearchAndReduce` | `TypeOK`, `ZeroExitMeansEverySchedulePassed`, `FrontierIsAccounted`, `ReductionIsHonest` | 4 scenarios (two actors with two commands; a lock; two connections; pairs), with and without an initial plan, in both orders, stopping or going on, and with each limit tight |
| `CommandCleansUp` | `TypeOK`, `CleanupIsHonest`, `ResultIsHonest`, `ExitIsHonest`, `NothingForeignTouched`, `TornDownInOrder`, `Ends` | one command, with and without `--docker`, 4 outcomes, 3 messages in the channel, unreliable connections |
| `Regression` | `IdentitiesAreSnapshots`, `ExportedIsRecorded`, `RecordIsWhole`, `ReplayReproduces`, `NothingForeignLost`, `RegressionEnds` | 16 file names, 2 contents, 2 edits; 3 writers; 2 tables and 2 sequences, 1 forgotten transaction; 4 recordings replayed by 8 applications on up to 4 connections |

Why the bounds suffice for the loop: it treats lanes alike except for sibling lanes of
one actor (COPY, pairs) and lanes of another actor (everything else), so two
actors with two connections show every relation between two lanes; stale samples
need two units in flight and one event; a lock cycle needs two locks; a release
beside a wait that PostgreSQL has ended needs a lock timeout and three steps; the
step limit is hit by three steps with a pair at the end; one cancel request
meets every phase of its target. `MaxCommands`, `MaxSteps`, `MaxCancels` and
`Generations` are the named bounds; a commit is not counted, so a transaction can
always be ended. The single-producer profile has one open connection per actor in the
model, as its proxy allows one to produce commands.

For the proxy: sessions meet only in the limit, the owner and the single pending
replacement. An owner and an auxiliary show how ownership passes, a session and
a newcomer at a limit of one every way to be admitted; multi-producer sessions that
work at the same time share nothing but the limit and the close. A unit
in flight with one queued behind it is the deepest a session's work goes, as units
of a session are strictly sequential; `MaxUnits` and `MaxQueue` bound them. The
theorems about the limit and the owner hold for any number of connections, limits and units.

For the wire: what a unit is named depends on the units before it that are not answered yet,
and two of those in front of it with one named and one unnamed statement show every
way to replace, keep or lose a name; one failure meets every place of a cycle. Seven frames
are less than the longest of the pipelines, so the limit is hit by some and not by others.

For the search: four commands on two actors are the smallest scenario with more than one
branch at more than one depth, in which a schedule that only a plan of three choices
reaches has a failure of its own. Tight limits cut it off at every place.

For the files: a capture goes wrong by one edit between two of its steps; the second
edit (of the file edited last, or of the folder after it was replaced) covers changing
back and taking the folder's place. Three writers are one that overwrites and two that do not.
For the replay: two connections that begin alike and then diverge, in both
orders, late, missing, additional or of another identity, are what a binder can meet
between two recorded lanes of one actor; a lane of another actor shows the rest.

What the runs show, property by property:

* `HonoursContract`: the double `await`/`epoch` pattern of the sampling pass is right
  under every interleaving. Without the epoch (mutant) a release happens beside
  a unit that was last seen waiting before its blocker finished.
* `OthersReallyWait`: while no connection is closed inside a transaction, the confirmation is not
  only recent but still true at the release, as a lock wait on a scheduled
  connection ends only by a completion, a disconnection or an acknowledged
  cancel, each a runtime event; a wait on anybody else ends the execution (the mutant
  `ForeignWhenUnknown` lets one through). There is one exception: a lock timeout or PostgreSQL's
  deadlock detector ends a wait by itself, and until the error has arrived the loop takes the lane
  for blocked and may release beside it. The run reaches it with a timeout; a deadlock needs
  a third actor, as two in a cycle leave nobody to release, and is covered by the theorem.
* `ReachesVerdict`: no wedge without the deadline. The mutants are the two rules
  that prevent one: blocked units do not hold back releases, and a COPY yields to its
  siblings.
* `CancelNamesItsStep`: while a cancel is unacknowledged the loop releases nothing, so
  a late signal hits the recorded step or an idle backend.
* `OutcomeIsHonest`, `PlanFollowed`, `Terminates`, `TypeOK`: what the result of an
  execution claims about it, and that it comes.
* `RecordIsAccepted`: the code that writes evidence and the code that validates it agree. Whatever
  interrupts an execution, its record is accepted by `parseRunArtifact()`, and so is the
  reduced one that takes its place when it is too large. No verdict is lost for
  evidence that its readers refuse.
* `HonoursLaneContract`: whichever of the events ends a session first, its released
  unit settles exactly once and the loop hears of it.
* `NoUnitForgotten`: `announce()` returns silently in five cases; in each of them one of
  its other call sites follows.
* `TerminateIsLast`: a driver that leaves on an error, before its command has
  completed, does not cut the command short.
* `AdmissionSound`, `OneProducer`: the limit holds through replacements and cancel
  packets, and a producer's work is over before another may produce.
* `ConnectionsSettle`: shutdown ends by timers and close events alone; every ending a
  retiring session can take frees its slot for the connection that waits.
* `FingerprintIsWhatRan`: a pipelined cycle is named only when what it names is settled, so the
  identity the loop decides on is what PostgreSQL executes.
* `CompletionMeansDone`: a unit is complete only after the last answer to it, in each profile and around each COPY.
* `BytesCountedOnce`: buffered, queued, in-flight and prefix bytes are counted once each;
  what is within the limit is not refused and what is retained never exceeds it.
* `CyclesEnd`: every cycle of a driver that goes on is answered or the session fails; no message is
  kept for ever in front of a COPY. `UpstreamCloses`: whatever was called before the connection
  was there, one close follows, and nothing is sent after an end.
* `ZeroExitMeansEverySchedulePassed`: `explore` exits with 0 only if every schedule of the scenario
  has run and passed, whichever limit, order or plan there was.
* `FrontierIsAccounted`: each key is dispatched once, and the bytes that are counted are those retained.
* `ReductionIsHonest`: the reduced plan still fails as the original did, and `locallyMinimal`
  is claimed only when each single deletion was tried and failed to reproduce it.
* `CleanupIsHonest`: a result that reports complete cleanup has left no database. `ResultIsHonest`:
  a verdict is of the sources it is bound to, and a hard failure is not softened by what
  comes after. `ExitIsHonest`: a status that does not report failed cleanup leaves no container,
  and 0 promises everything. `TornDownInOrder`: database and server go after the
  processes that use them. `NothingForeignTouched`: a database or container that
  had the name before stays. `Ends`: every command does.
* `IdentitiesAreSnapshots`: a captured identity describes one state of the disk, that at which its
  verification began, and a captured fixture one state of its tables and one of its sequences.
* `ExportedIsRecorded`: an exported folder, and an installed one, holds what was recorded, whatever
  was edited before its last verification. `NothingForeignLost`: what others put in its place stays.
* `RecordIsWhole`: through deaths and power losses a path holds one writer's whole
  record or none, and a call that returned has left one for good.
* `ReplayReproduces`: a replay comes to a verdict only if one bijection of connections
  makes it the recorded execution. `RegressionEnds`: each of the commands ends, and the
  replay of a faithful application is not refused though its connections look alike at first.

Finding: `docs/api.md:189` and the comment at `runner.ts:376` say that while a COPY waits
on its client no other actor's command starts. With COPYs of two actors in flight
(an overlapped pair), `yielding` holds both actors and either may start a command.

An observation that no run makes: under `flush-stages-v1` with a single producer, a driver may
abandon a cursor in an open cycle, leave, and reconnect; its next command comes from
connection 1. The validator still holds connection 0 to be inside its cycle and refuses
the record ("another command connection cannot enter an actor's open staged cycle",
`artifact-schema.ts:671-674`), although `docs/api.md:394` says that a cycle may stay open so.
`Recording` has units that complete once and no stages, so it cannot show this.

### Fairness

No fairness is ever assumed of a fault: failures, edits, deaths, cancels and noise may
happen at any time or never.

`LoopFairness`: timers fire and the observer's query returns, so the loop keeps going.
`DeadlineFairness`: the deadline's timer fires; `Terminates` needs nothing else, whatever
actors and PostgreSQL do. `SystemFairness` is the premise of "no wedge": PostgreSQL
executes, grants, responds and detects deadlocks; sockets deliver; a client ends its
transaction with a commit, finishes a COPY once none of its actor's other
commands is held back, and an operation whose connections are idle returns. A COPY whose data
depends on a sibling command that waits for a lock of another actor's idle
transaction is outside this premise: the loop then waits for its deadline.

For the proxy, `SocketFairness` says that timers fire and that a socket which was
destroyed, or ended on both sides, reports its close. The replacement half of
`ConnectionsSettle` adds `PeerFairness` as a premise: a peer that sees the connection ended ends it
too, and PostgreSQL answers the unit in flight. Without it the proxy has no timer for a
retiring session, and the waiting connection waits for as long as its client does.

`Wire`: a client sends what it has begun to send, the loop releases what it was given, PostgreSQL
serves and its answers arrive, and connection attempts come to an end (they have a timer).
`Command`: what the command itself does next it does, as every wait on
PostgreSQL, Docker, a capture or a timer is bounded; nothing is assumed of the worker but that
it dies of SIGKILL. `Regression`: a program that can take its next step takes it, and the
replay's deadline fires. The second half of `RegressionEnds` has the premise that
the application behaves as it did (`faithful`): connects in order, issues its commands within
the loop's patience, and PostgreSQL answers as before.

## 4. Proofs

Everything here is proved for all values of the constants that satisfy the modules'
named assumptions: any numbers of actors, connections, writers, files or relations, any plan,
scenario and limit. An assumption only says what a constant is, and TLC evaluates each one on
every run:
`ResultsAssumption` (a scenario file's outcome is one of the four that `supervised.ts` accepts),
`ExportAssumption` and `FixtureAssumption` (places, archives and relations are of their
kinds; the metadata are a manifest and a lock), `OptionsAssumption` (plans are lists of entries, limits and sizes are numbers), `LaneAssumption` and
`RecordingAssumption` (finitely many connections; a recording's steps are of its connections, and a step
released together with the next is of another connection than that one, as `runner.ts` pairs only different lanes and
`artifact-schema.ts` checks), `FramesAssumption` (a client sends lists of protocol messages, never
an empty one) and, for the search,
three about the scenario's tree of decisions. `ScenarioAssumption`: it is finite and judges what is complete.
`DecisionAssumption`: every decision between lanes that can proceed leads somewhere (`runner.ts:397-438`
releases what it is asked for), and an actor has several only in the multi-producer profile
(`SingleProducer` proves that of the proxy). `CompletionAssumption`: a lane that could proceed is released before
the run is complete, as the loop goes on until every queue is empty (`runner.ts:343-390`). They say that the
application is deterministic under a schedule; nothing can be exhausted of one that is not.

| module | theorem | proves |
|---|---|---|
| `Scheduler_proofs` | `TypeCorrect` | `TypeOK` |
| | `CancelsNameTheirSteps` | `CancelNamesItsStep` |
| | `SchedulerHonoursContract` | `HonoursContract`: `Scheduler` implements `ReleaseContract` |
| | `OutcomesAreHonest`, `PlansAreFollowed` | `OutcomeIsHonest`, `PlanFollowed` |
| | `OthersAreWaiting` | the action property `OthersReallyWait`, given `~Abandons` |
| `ActorProxy_proofs` | `ConnectionLimit`, `SingleProducer` | `AdmissionSound`, `OneProducer` |
| | `ProxyTyped`, `NoUnitLeftWaiting`, `TerminateComesLast` | `TypeOK`, `NoUnitForgotten`, `TerminateIsLast` |
| | `ProxyHonoursContract` | `HonoursLaneContract`: `ActorProxy` implements `LaneContract` |
| `Command_proofs` | `CommandTyped`, `CleanupReportedHonestly`, `ResultReportedHonestly`, `ExitReportedHonestly` | `TypeOK`, `CleanupIsHonest`, `ResultIsHonest`, `ExitIsHonest` |
| | `ForeignKept`, `TearsDownInOrder` | the action properties `NothingForeignTouched`, `TornDownInOrder` |
| `Regression_proofs` | `RecordsAreWhole`, `ForeignFilesKept` | `RecordIsWhole`, `NothingForeignLost` |
| | `ExportsAreRecorded` | `ExportedIsRecorded` |
| | `FixturesAreOneState`, `CapturesAreOneState` | both halves of `IdentitiesAreSnapshots` that say what was captured existed |
| `Replay_proofs` | `ReplaysReproduce` | `ReplayReproduces` |
| `Wire_proofs` | `BytesAreCounted` | `BytesCountedOnce` |
| `Search_proofs` | `SearchIsTyped`, `FrontierAddsUp`, `ReductionReportsHonestly` | `TypeOK`, `FrontierIsAccounted`, `ReductionIsHonest` |
| | `ChoicesLead` | a run's own choices, as a plan, lead back to it |
| | `ZeroExitIsExhaustive` | `ZeroExitMeansEverySchedulePassed` |

### The loop

`Scheduler_proofs` rests on one inductive invariant, `Inductive`. `TypeOK` is not inductive: that
a cancel names the step of its lane is preserved by a release only because
no release happens while a cancel is pending, and stays true only because every
unsignalled cancel is pending (`CancelHolds`) and refers to a recorded one. For the
refinement, the loop's belief must be backed by the history: a lane the pass
has sampled as `blocked` or `client` is one the observer confirmed since the last
runtime event, unless the pass is stale (`Sampled`); the answer in transit too
(`Watching`); and a unit in flight has a step in the trace (`Started`). `LocksOnly`
says that only lock commands wait for locks. `AlwaysInductive` proves
`Spec => []Inductive`, one step per action.

`OutcomeIsHonest` says of a verdict that every step completed, and nothing in it is about steps that have
not. `Honest` adds that a step which has not completed is the last of its lane and that lane runs
(`Completes`), where a rejection comes from (`Blames`), and that between the decision to evaluate
the invariant and its verdict no callback can undo what permitted it (`Evaluable`).

`PlanFollowed` speaks of the k-th decision of a trace in which a decision is one step or two. Its invariant
`Followed` says that a group is one step or two neighbours (`Grouped`), and of every first step that the plan's entry
with the number of decisions begun up to there asked for its group (`Obeyed`). That there is one
such step for each k is a fact about counting (`KthSmallest` in `Sums_proofs`).

`OthersReallyWait` needs one thing of the applications, `~Abandons`, and so does its theorem: when a connection is closed
inside a transaction, PostgreSQL frees its locks before the loop hears of the disconnection, and with
three actors the property is false. Everything else may happen: interruptions, failing connections, cancels, copies, lock timeouts and outside
sessions that hold locks. The invariant `Standing` says that a lane that holds a lock keeps its connection
(`Holders`, `Workers`). `Believed` is the argument. As long as no event voids the pass, every lane confirmed waiting
still waits for a lane's lock, unless one of four things has happened that the pass cannot miss: a cancel
was sent, which is pending until an event; a unit that holds locks has ended, whose lane is in flight and will be
sampled as not waiting; the sample on its way names a session of no actor, which ends the execution when it
arrives (`Outcast`); or the wait of a confirmed lane has failed. The first three keep the pass from releasing, and
the last is the exception that the property names. The property first had no exception; that it held
of two actors hid that it does not hold of three, as the attempt to prove it showed.

### The proxy

* `ConnectionLimit`: the invariant `Limited` adds that a
  session another connection waits for has failed, terminated or lost its client
  (`Leaving`). Without it a cancel packet could take that session out of the sessions
  without retiring it, and the waiting connection would wait for nothing.
* `SingleProducer`: `Produced` adds that an announced unit is still
  queued, so a release never gives work to a session that had none.
* The theorems about units and endings build on one typing invariant. `NoUnitForgotten` needs to know which of the
  five conditions `announce()` returned on still holds; the refinement maps each event of a
  socket to the step of the contract it is, or to a stutter, and needs that a session's place, its sockets,
  its unit in flight and what the loop holds of it agree. Proving it showed a mistake of the model:
  the mapping of a lane's life was written with alternatives that overlapped, so what
  it meant was left to the order in which TLC evaluates them.

Most actions are instances of one lemma each (`UninvolvedStep`, `NoNewWorkStep`).

### Commands, records, captures and folders

`Command_proofs` has one invariant for the container and one for the execution inside it. What
carries it is ownership: a database or container of the command exists only in the phases that
still remove it, or the result already reports that cleanup failed. The two action properties follow from
the same invariant, action by action.

`Regression_proofs` has one invariant per property. `RecordsAreWhole` follows every writer through its
steps: only a file synced under its temporary name is ever linked or renamed. `ForeignFilesKept`
shows of each write that the name was free or npm's to write (`Spares`). `FixturesAreOneState` bounds each
sequence between the value read, the value it had when all were read and the value now (`ReadAsOf`), and
shows that what a session changes inside the capture began inside it (`BeganInside`), where the second look for sessions
sees it (`Undisturbed`). `CapturesAreOneState`
takes the moment at which the verification begins: a file whose stamp is unchanged at its `lstat`
has had its content since it was read, so everything read was on the disk together at
that moment. That nothing else was (a lookup that found nothing stays true for those names that are not
exempt) is the other half of the property and stays with TLC.

`ExportsAreRecorded` is the promise those two serve: an exported folder is the recorded regression, whatever others do to
the project and the folder meanwhile. Its invariant `ExportKept` has four parts. `Prepared` follows
the export: once the sources are captured, the files selected are the recorded ones, each with one
content (`Agreed`, which needs `CapturesAreOneState`: two contents under one name were never on the disk together);
an archive is held only if it is what the recorded lock pins (`Holding`); and what is written
and what still is to be written are together exactly what the stage calls for (`Progress`). `Verified` says of the folder that
each file verified so far is as recorded unless it was edited since: while the folder is verified
nobody but others writes into it (`CheckingCalm`, `UntouchedStays`), and an edit bears a later stamp. `SeenInFolder` says
that the capture by which the installer identifies its work sees the folder, and what has not been edited
since as it is; `InstallHeld` that from that capture on the recorded packages are there, and of the export's
own files those that the last pass has verified again. No edit is excluded on the way: the proof shows that the
export notices it or that its stamp is later. Two actions read the selected lock through `\A` over what was selected under
its name, true also if nothing was; the code dereferences it (`export.ts:160-180`), and they now say `\E`.

### Replay

`ReplayReproduces` speaks of a verdict and of a pairing of recorded and live connections; nothing of the kind is a
variable. `Reproducing` is the invariant that carries it. Its pairing is what the binder has bound so far
(`Standing`: one-to-one, and connected alike; without a binder every connection stands for itself, `Admitted`). Each
live connection has issued as many commands of its script as there are steps of it in the trace, one more if one
waits (`Scripted`); each step's ordinal is its rank among its connection's steps and its command is the one the script has
there (`Placed`); and each step is the recorded one at the same place of the trace, of the connection bound to it
(`Repeats`). The step that releases is the delicate one: the resolution that the binder returned is checked against the
head of each lane in the recorded order, so a pair's two steps take two neighbouring places and their connections differ.
`ReplayFinish` then compares the two traces, and `Concluded` keeps what it compared. The verdict follows by counting: the
recorded commands of a connection and the script of the one that stands for it are both the commands of the same steps
in the same order, since ranks among the steps are a bijection (`RanksAreAll`, `SameCommands`), so `Commands(r)` is not only a
prefix of the script but all of it.

To be reasoned about, `Commands` is stated by the ranks of the steps instead of a filter over the trace.

### Bytes

`BytesCountedOnce` is inductive only with what the units are: the announced one is the oldest of the queue, so a
release moves exactly its bytes (`Announced`); and a stage in flight has an open cycle, whose frames are counted in its
place (`Released`). `Held` adds these. The sum over the queue is a sum over a function, for which `QueuedAppend` and
`QueuedTail` say what a unit at either end adds; the second is an induction over the length of the queue.

### Search and reduction

None of these properties is inductive. `FrontierIsAccounted` counts keys and bytes; `SearchKept`
adds that the frontier and the set of keys hold each key once, that the run in
progress is a dispatched one, and what has been counted of it at each place of the branching
loop (`SearchTyped`, `Underway`, `EachKeyOnce`, `Retained`). For `ReductionIsHonest`, `ReductionKept`
adds which deletions a pass has tried when it stands at `start`, and that they were single ones if its chunks are as many as the
choices (`PassIsHonest`, `ClaimIsHonest`), and that the plan kept so far is one whose run failed as the
original did (`KeptPlanReproduces`).

`ZeroExitIsExhaustive` is the reason to search at all. Its invariant `Explored` says of a search that nothing has cut
short: every key waits, runs or was run (`EachKeyRuns`), the keys of every decision of every run have been seen
unless that run is being branched on (`BranchesSeen`), and every result kept is one that its plan leads to
(`RunsAreHonest`). The rest is about schedules. Exit code 0 means some run came to its end. Follow a schedule
along it up to the decision where the run left it (`Deviation`): the run has branched there to a key
that names the schedule's decision, and that key was run; its plan forces the choices up to that decision (`Forced`) and
`fairLane()` takes it on from there to an end (`FairExists`, `RunsOn`). So, by induction over the decisions, some
run is the schedule. What could go wrong on the way is the notation: a key names a lane only by its actor if
the run it branches from released one of the actor's lanes. `NameResolves` shows that the name still finds the lane:
were there another to choose from, that run would have released it too (`CompletionAssumption`).
`ChoicesLead` is the same for a whole run.

These proofs showed where the model could not be reasoned about, or was wrong: what a run reaches is now
the longest history that follows its plan (`Reached`), what a scenario is has been stated,
what is retained is a sum over the keys (`BytesAccounted`), and a verification replays the
record instead of the choices read off it (`Replays`), as `minimize.ts:44` does.

A sum over a set that grows needs an induction, which the library's theorems cannot give here (they take an
operator as a parameter). `Sums_proofs` derives it as a first-order fact: a set of numbers that has 0 and with
each number its successor has all of them (`NatSetInduction`), from the well-foundedness of inclusion among
finite sets. The sum over a finite set is a recursive function, and its lemmas say what adding one
element adds; counting the elements of a set of numbers below a bound gives its k-th smallest.

## 5. What is only model-checked

Liveness (`ReachesVerdict`, `Terminates`, `ConnectionsSettle`, `CyclesEnd`, `UpstreamCloses`, `Ends`,
`RegressionEnds`) is beyond the prover. These safety properties hold of the instances in section 3 and
are not proved, each for its own reason:

* `FingerprintIsWhatRan` and `CompletionMeansDone` relate a pipelined client, a server that skips after an error
  and the assembler between them; a proof would need the order of everything on the way.
* `RecordIsAccepted` goes through the operators of the validator, which walk over sequences.
* The other half of `IdentitiesAreSnapshots`, that nothing which was there is missing, compares a walk with a closure over
  what the files ask for, which is an induction over the walk.

None of their modules declares a RECURSIVE operator but `SearchMC`, which only its run uses, so they can
be proved about.

## 6. What is left out

* Loop: the `LANE_SETTLE_MS` window (381-388) delays a decision; the model decides at any time.
  Evidence bytes: `retain()` failing is `Interrupt`. A unit completes once, whatever its stages.
* Record: the shapes of JSON values, fingerprints, environment and limits; a generation has one backend;
  times are only ordered.
* Proxy: authentication, encryption negotiation with the client, backpressure (`pause`, `resume`).
  Which of several terminating sessions a replacement waits for is left open; the code takes the oldest.
  Admission and Terminate are `ActorProxy`'s, COPY and bytes are `Wire`'s.
* Wire: decoding of fields, row counts, the limit on metadata bytes, SQL-level PREPARE and DEALLOCATE. The server
  fails a COPY only after it has read the Sync that the client sent ahead.
* Search: depth metrics and validation of options. Minimize: a verification that numbers the connections otherwise
  than the record (`minimize.ts:49-51`); the rest of it only uses the numbers found there.
* Command: one execution per command; ports, log lines and redaction. What Docker creates after it has answered
  that the name is free nobody can remove, and `ExitIsHonest` exempts it.
* Source identity: digests, links, decoding and the two-MiB limit on what is parsed. A lookup that found nothing is
  not repeated: a file that appears after it is missed, even between two components of one
  capture, and the property exempts exactly those names.
* Export and install: archives' format, modules' parsing, links, size limits; the second `npm ci` of the
  layout without shared packages, which no code of the repository runs. Verifying a folder takes many
  steps, so what is edited after it has begun may differ. The installer does not verify
  the manifest and itself.
* Fixture: canonical SQL, the pgvector profile, waits for locks. Transactions that begin and end between the two
  looks for other sessions are the caller's to rule out, as the doc comment says.
* Replay: COPY, cancels and the comparison of transaction status; an actor's operation returns once its
  connections have closed.
* `process-actor.ts`: one child process as an actor. To the loop it is an actor like any other, and what can
  go wrong in its life (requests that end after an abort, a process that survives its stop) is what
  `Supervision` models of the worker.
* Option parsing, rendering of reports, the readiness report and the parsing of scenarios are pure functions.

## 7. Plan

Done: the execution loop and its contract, the proxy and its lanes, the wire, exploration and reduction, the
owned database, supervised executions and the managed server, the record, its file, the two identities, the
export and the replay; and of the proofs those of section 4. What remains is to prove `CompletionMeansDone`, with the
order of what is on its way between session and server.
