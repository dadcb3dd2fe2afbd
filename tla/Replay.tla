-------------------------------- MODULE Replay --------------------------------
(***************************************************************************)
(* The exact replay of a recorded run: src/runner.ts in mode "replay" and  *)
(* the LaneBinder of src/lanes.ts.  The environment and the fixture must   *)
(* be the recorded ones; then each recorded step is released to the        *)
(* connection that stands for the recorded one, and what came of it is     *)
(* compared.  Anything that differs ends the replay as incompatible.       *)
(*                                                                         *)
(* A recording and an application are data here: what runs anew may open   *)
(* its connections in another order, or be another program altogether.     *)
(***************************************************************************)
EXTENDS FixtureIdentity

CONSTANTS
  Lane,          \* [actor, connection]: connections by the order of acceptance
  None,          \* no lane
  Recordings,    \* [multi, fixture, startup, trace]: completed runs
  Applications   \* [startup, script, needs]: what may run anew

Nothing == "nothing"  \* no command

ScriptsOf(app) ==
  /\ DOMAIN app.startup \subseteq Lane /\ DOMAIN app.script = DOMAIN app.startup
  /\ \A l \in DOMAIN app.script : app.script[l] \in Seq(STRING \ {Nothing})

(* A step is the lane, its command, the lane that it waited for, and       *)
(* whether the next step was released together with it: one of another     *)
(* lane.                                                                   *)
StepsOf(run) ==
  /\ run.trace \in Seq([lane : DOMAIN run.startup, command : STRING \ {Nothing},
                        blocker : Lane \union {None}, paired : BOOLEAN])
  /\ \A i \in DOMAIN run.trace :
       run.trace[i].paired => i < Len(run.trace) /\ run.trace[i + 1].lane # run.trace[i].lane

ASSUME LaneAssumption ==
  IsFiniteSet(Lane) /\ Lane \subseteq [actor : STRING, connection : Nat] /\ None \notin Lane

ASSUME RecordingAssumption ==
  /\ \A run \in Recordings : DOMAIN run.startup \subseteq Lane /\ StepsOf(run) /\ ScriptsOf(run.by)
  /\ \A app \in Applications : ScriptsOf(app)

VARIABLES
  recording,
  application,
  faithful,      \* all runs as it did when it was recorded, and promptly
  replay,        \* the loop: its stage, trace, bindings and patience
  live           \* live[l]: connection l as the loop knows it

replayVars == <<recording, application, faithful, replay, live>>

IdleLane == [conn |-> "new", head |-> Nothing, done |-> 0, running |-> "no"]

ReplayInit ==
  /\ recording \in Recordings
  /\ faithful \in BOOLEAN
  /\ application \in IF faithful THEN {recording.by} ELSE Applications
  /\ replay = [at |-> "idle", trace |-> <<>>, bound |-> {}, patience |-> "fresh"]
  /\ live = [l \in Lane |-> IdleLane]

Actors == {l.actor : l \in Lane}

Opens(a) == {l \in DOMAIN application.startup : l.actor = a}

Script(l) == application.script[l]

Connected(l) == live[l].conn # "new"

Busy(l) == live[l].running # "no"

Settled(a) == \A l \in Opens(a) : live[l].conn = "closed"

Replaying == replay.at = "running"

(* runtimeEpoch++ *)
Anew == [replay EXCEPT !.patience = "fresh"]

Ends(verdict) ==
  /\ replay' = [replay EXCEPT !.at = verdict]
  /\ UNCHANGED <<recording, application, faithful, live>>

-----------------------------------------------------------------------------
(* The environment must be the recorded one before actors start. *)
ReplayStart ==
  /\ replay.at = "idle"
  /\ \E same \in IF faithful THEN {TRUE} ELSE BOOLEAN :
       IF same THEN FixtureStart /\ replay' = [replay EXCEPT !.at = "fixture"]
               ELSE UNCHANGED fixtureVars /\ replay' = [replay EXCEPT !.at = "incompatible"]
  /\ UNCHANGED <<recording, application, faithful, live>>

(* Mutation: any fixture is accepted. *)
SameFixtureAny == TRUE

(* environmentMatches(); a capture that failed ends the run otherwise. *)
SameFixture == fixture.read = recording.fixture

ReplayFixture ==
  /\ replay.at = "fixture"
  /\ \/ fixture.at = "captured" /\ Ends(IF SameFixture THEN "running" ELSE "incompatible")
     \/ fixture.at = "failed" /\ Ends("failed")
  /\ UNCHANGED fixtureVars

-----------------------------------------------------------------------------
(* The recording, as the binder sees it: recorded lanes r. *)
Recorded == DOMAIN recording.startup

Steps(r) == {i \in DOMAIN recording.trace : recording.trace[i].lane = r}

(* The commands of r in the order of its steps. *)
Commands(r) ==
  [n \in 1 .. Cardinality(Steps(r)) |->
     recording.trace[CHOOSE i \in Steps(r) :
                       Cardinality({j \in Steps(r) : j <= i}) = n].command]

First(r) == IF Commands(r) = <<>> THEN Nothing ELSE Commands(r)[1]

IsBound(r) == \E b \in replay.bound : b[1] = r

LiveFor(r) == (CHOOSE b \in replay.bound : b[1] = r)[2]

(* recordedFor() *)
StandsFor(l) == {r \in Recorded : <<r, l>> \in replay.bound}

Unbound(l) == StandsFor(l) = {}

SameStartup(r, l) == r.actor = l.actor /\ recording.startup[r] = application.startup[l]

Namesakes(l) == {r \in Recorded : SameStartup(r, l)}

(* startup(): no more connections than were recorded with that identity;   *)
(* without a binder, the very connection must have been recorded with it.  *)
Admits(l) ==
  IF recording.multi
  THEN Cardinality({m \in Opens(l.actor) :
                      Connected(m) /\ application.startup[m] = application.startup[l]})
         < Cardinality(Namesakes(l))
  ELSE l \in Recorded /\ SameStartup(l, l)

(* mismatch(): a queued command that can never be what was recorded *)
Mismatched(l) ==
  /\ live[l].head # Nothing
  /\ LET ordinal == live[l].done + 1
         fits(r) == ordinal <= Len(Commands(r)) /\ Commands(r)[ordinal] = live[l].head
     IN  IF Unbound(l)
         THEN ~\E r \in Namesakes(l) : ordinal = 1 /\ ~IsBound(r) /\ fits(r)
         ELSE \E r \in StandsFor(l) : ~fits(r)

(* Mutation: connections that begin alike are not told apart by waiting. *)
MayStillQueueNever(r, taken) == FALSE

(* The recorded generation may still queue what distinguishes it.         *)
MayStillQueue(r, taken) ==
  IF r \in DOMAIN application.startup /\ Connected(r)
  THEN /\ replay.patience # "out"
       /\ SameStartup(r, r) /\ Unbound(r) /\ live[r].conn = "open"
       /\ live[r].head = Nothing /\ ~Busy(r) /\ r \notin taken
  ELSE Cardinality({l \in Opens(r.actor) : Connected(l) /\ SameStartup(r, l)})
         < Cardinality({p \in Recorded : p.actor = r.actor /\ recording.startup[p] = recording.startup[r]})

(* resolve(): the connection to release for recorded step s, if `taken`    *)
(* are busy; or no lane: wait, or give up.                                 *)
Wait == [kind |-> "wait", lane |-> None]
GiveUp == [kind |-> "incompatible", lane |-> None]
Release(l) == [kind |-> "release", lane |-> l]

Free(l, taken) == live[l].head # Nothing /\ ~Busy(l) /\ l \notin taken

Resolve(s, taken) ==
  LET r == s.lane
      settled == Settled(r.actor)
      open(l) == SameStartup(r, l) /\ Unbound(l) /\ live[l].conn = "open"
      matches(l) == open(l) /\ Free(l, taken) /\ live[l].head = s.command
      (* recorded connections that begin alike and later diverge *)
      alike == {p \in Recorded : /\ p.actor = r.actor /\ ~IsBound(p)
                                 /\ recording.startup[p] = recording.startup[r]
                                 /\ First(p) = s.command}
      ambiguous == \E p \in alike : Commands(p) # Commands(r)
      candidates == {l \in Opens(r.actor) : matches(l)}
  IN  IF IsBound(r)
      THEN LET l == LiveFor(r)
           IN  IF Free(l, taken) THEN (IF live[l].head = s.command THEN Release(l) ELSE GiveUp)
               ELSE IF settled \/ Busy(l) \/ l \in taken \/ live[l].conn = "closed" THEN GiveUp
               ELSE Wait
      ELSE IF r \in candidates THEN Release(r)
      ELSE IF ambiguous /\ ~settled /\ MayStillQueue(r, taken) THEN Wait
      ELSE IF candidates # {}
      THEN Release(CHOOSE l \in candidates : \A m \in candidates : l.connection <= m.connection)
      ELSE IF settled THEN GiveUp ELSE Wait

(* Without a binder a step goes to its actor, whose command must be the    *)
(* recorded one on the recorded connection.                                *)
ResolveSingle(s, taken) ==
  IF Free(s.lane, taken) /\ live[s.lane].head = s.command THEN Release(s.lane) ELSE GiveUp

ResolveStep(s, taken) == IF recording.multi THEN Resolve(s, taken) ELSE ResolveSingle(s, taken)

-----------------------------------------------------------------------------
(* The loop.  It goes on while no command runs unhindered, every actor has *)
(* a command queued or running, or is done, and some command may start.    *)
Active(a) == \E l \in Opens(a) : live[l].head # Nothing \/ Busy(l)

Deciding ==
  /\ Replaying
  /\ \A l \in Lane : live[l].running # "yes" /\ ~(recording.multi /\ Mismatched(l))
  /\ \A a \in Actors : Settled(a) \/ Active(a)
  /\ \E l \in Lane : Free(l, {})

MismatchFound ==
  /\ Replaying
  /\ recording.multi
  /\ \E l \in Lane : Mismatched(l)
  /\ Ends("incompatible")

(* expectedGroup: the next recorded step, or the next two of a pair *)
Position == Len(replay.trace) + 1

Expected ==
  IF recording.trace[Position].paired
  THEN SubSeq(recording.trace, Position, Position + 1)
  ELSE SubSeq(recording.trace, Position, Position)

Resolutions ==
  LET first == ResolveStep(Expected[1], {})
  IN  IF Len(Expected) = 1 \/ first.kind # "release"
      THEN <<first>>
      ELSE <<first, ResolveStep(Expected[2], {first.lane})>>

Exhausted ==
  /\ Deciding
  /\ Position > Len(recording.trace)
  /\ Ends("incompatible")

Decide ==
  /\ Deciding
  /\ Position <= Len(recording.trace)
  /\ LET choices == Resolutions
         kinds   == {choices[i].kind : i \in DOMAIN choices}
         lanes   == {choices[i].lane : i \in DOMAIN choices}
     IN  \/ "incompatible" \in kinds /\ Ends("incompatible")
         \/ /\ "wait" \in kinds /\ "incompatible" \notin kinds
            /\ replay.patience = "fresh"
            /\ replay' = [replay EXCEPT !.patience = "waiting"]
            /\ UNCHANGED <<recording, application, faithful, live>>
         \/ /\ kinds = {"release"}
            /\ replay' = [Anew EXCEPT
                 !.trace = @ \o [i \in DOMAIN choices |->
                   [lane |-> choices[i].lane, command |-> live[choices[i].lane].head,
                    ordinal |-> live[choices[i].lane].done + 1, blocker |-> None]],
                 !.bound = @ \union {<<Expected[i].lane, choices[i].lane>> : i \in DOMAIN choices}]
            /\ live' = [l \in Lane |-> IF l \in lanes
                                       THEN [live[l] EXCEPT !.head = Nothing, !.running = "yes"]
                                       ELSE live[l]]
            /\ UNCHANGED <<recording, application, faithful>>

-----------------------------------------------------------------------------
(* The application and PostgreSQL *)
Lives(l, state) ==
  /\ live' = [live EXCEPT ![l] = state]
  /\ UNCHANGED <<recording, application, faithful>>

Preceding(l) == {m \in Opens(l.actor) : m.connection < l.connection}

(* needs[l] = <<m, n>>: l does nothing before m has n commands answered. *)
Unhindered(l) ==
  l \in DOMAIN application.needs =>
    live[application.needs[l][1]].done >= application.needs[l][2]

MayConnect(l) ==
  /\ l \in DOMAIN application.startup
  /\ live[l].conn = "new"
  /\ \A m \in Preceding(l) : live[m].conn = IF recording.multi THEN live[m].conn ELSE "closed"
  /\ \A m \in Preceding(l) : Connected(m)

Connect(l) ==
  /\ Replaying
  /\ MayConnect(l)
  /\ Lives(l, [live[l] EXCEPT !.conn = "open"])
  /\ replay' = IF Admits(l) THEN Anew ELSE [replay EXCEPT !.at = "incompatible"]

MayQueue(l) ==
  /\ live[l].conn = "open" /\ live[l].head = Nothing /\ ~Busy(l)
  /\ live[l].done < Len(Script(l))
  /\ Unhindered(l)

Queue(l) ==
  /\ Replaying
  /\ MayQueue(l)
  /\ Lives(l, [live[l] EXCEPT !.head = Script(l)[live[l].done + 1]])
  /\ UNCHANGED replay

MayClose(l) ==
  live[l].conn = "open" /\ live[l].head = Nothing /\ ~Busy(l) /\ live[l].done = Len(Script(l))

Close(l) ==
  /\ Replaying
  /\ MayClose(l)
  /\ Lives(l, [live[l] EXCEPT !.conn = "closed"])
  /\ replay' = Anew

RunningStep(l) == CHOOSE i \in DOMAIN replay.trace :
                    /\ replay.trace[i].lane = l
                    /\ \A j \in DOMAIN replay.trace : replay.trace[j].lane = l => j <= i

(* PostgreSQL reports that l waits for a lock of lane m. *)
Block(l, m) ==
  /\ Replaying
  /\ live[l].running = "yes"
  /\ Connected(m) /\ m # l
  /\ faithful => recording.trace[RunningStep(l)].blocker = m
  /\ live' = [live EXCEPT ![l].running = "blocked"]
  /\ replay' = [replay EXCEPT !.trace[RunningStep(l)].blocker = m]
  /\ UNCHANGED <<recording, application, faithful>>

(* A faithful PostgreSQL answers what it answered then: a step that waited *)
(* for a lane is answered after that lane's next step.                     *)
AnsweredAsRecorded(l) ==
  LET i == RunningStep(l)
      b == recording.trace[i].blocker
  IN  b # None => /\ live[l].running = "blocked"
                  /\ \E j \in DOMAIN replay.trace : j > i /\ replay.trace[j].lane = b /\ ~Busy(b)

Answer(l) ==
  /\ Replaying
  /\ Busy(l)
  /\ faithful => AnsweredAsRecorded(l)
  /\ Lives(l, [live[l] EXCEPT !.running = "no", !.done = @ + 1])
  /\ replay' = Anew

(* 100 ms pass in which the loop waits and no runtime event happens.       *)
ApplicationCouldAct == \E l \in Lane : MayConnect(l) \/ MayQueue(l) \/ MayClose(l)

Impatience ==
  /\ Replaying
  /\ replay.patience = "waiting"
  /\ faithful => ~ApplicationCouldAct
  /\ replay' = [replay EXCEPT !.patience = "out"]
  /\ UNCHANGED <<recording, application, faithful, live>>

-----------------------------------------------------------------------------
(* Mutation: connections that were never opened are not missed. *)
CompleteAlways == TRUE

(* complete(): each identity was admitted as often as recorded. *)
Complete ==
  LET opened == {l \in Lane : Connected(l)}
      alike(l) == {m \in opened : m.actor = l.actor /\ application.startup[m] = application.startup[l]}
  IN  IF recording.multi
      THEN /\ \A l \in opened : Cardinality(alike(l)) = Cardinality(Namesakes(l))
           /\ \A r \in Recorded : \E l \in opened : SameStartup(r, l)
      ELSE Cardinality(opened) = Cardinality(Recorded)

(* Mutation: lock waits are not compared. *)
SameEvidenceAny(i) == TRUE

(* describeWaits(): lanes that blocked are named as recorded; what         *)
(* PostgreSQL made of a pair is not compared.                              *)
SameEvidence(i) ==
  LET s == recording.trace[i]
      b == replay.trace[i].blocker
      pair == s.paired \/ (i > 1 /\ recording.trace[i - 1].paired)
  IN  \/ pair
      \/ IF b = None \/ s.blocker = None THEN b = s.blocker
         ELSE IF recording.multi THEN <<s.blocker, b>> \in replay.bound
         ELSE b.actor = s.blocker.actor

ReplayFinish ==
  /\ Replaying
  /\ \A a \in Actors : Settled(a)
  /\ Ends(IF /\ Complete
             /\ Len(replay.trace) = Len(recording.trace)
             /\ \A i \in DOMAIN replay.trace : SameEvidence(i)
          THEN "verdict" ELSE "incompatible")

(* The deadline, an abort, a connection that fails *)
ReplayTrouble == Replaying /\ ~faithful /\ Ends("failed") /\ UNCHANGED fixtureVars

ReplayStep ==
  /\ \/ MismatchFound
     \/ Exhausted
     \/ Decide
     \/ Impatience
     \/ ReplayFinish
     \/ \E l \in Lane : Connect(l) \/ Queue(l) \/ Close(l) \/ Answer(l)
     \/ \E l, m \in Lane : Block(l, m)
  /\ UNCHANGED fixtureVars

-----------------------------------------------------------------------------
(* A replay comes to a verdict only over the recorded fixture and the      *)
(* recorded execution: there is one bijection between recorded and live    *)
(* connections, each with an equal startup, under which the steps are the  *)
(* recorded ones in their order, have waited for the recorded connections, *)
(* and are all that the application has sent (code: LaneBinder,            *)
(* src/lanes.ts; the loop and its final comparisons, src/runner.ts).       *)
Pairings == {f \in [Recorded -> {l \in Lane : Connected(l)}] :
               /\ \A r, q \in Recorded : f[r] = f[q] => r = q
               /\ \A r \in Recorded : SameStartup(r, f[r])}

ReplayReproduces ==
  replay.at = "verdict" =>
    /\ fixture.read = recording.fixture
    /\ Len(replay.trace) = Len(recording.trace)
    /\ \E f \in Pairings :
         /\ \A l \in Lane : Connected(l) => \E r \in Recorded : f[r] = l
         /\ \A i \in DOMAIN replay.trace :
              LET was == recording.trace[i]
                  is  == replay.trace[i]
                  pair == was.paired \/ (i > 1 /\ recording.trace[i - 1].paired)
              IN  /\ is.lane = f[was.lane] /\ is.command = was.command
                  /\ \/ pair
                     \/ ~recording.multi
                     \/ is.blocker = IF was.blocker = None THEN None ELSE f[was.blocker]
         /\ \A r \in Recorded : Commands(r) = Script(f[r])

ReplayOver == replay.at \in {"verdict", "incompatible", "failed"}
=============================================================================
