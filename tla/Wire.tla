---------------------------------- MODULE Wire ----------------------------------
(***************************************************************************)
(* The frames of one admitted session of src/proxy.ts: the client's        *)
(* messages are cut into units, named against the metadata PostgreSQL has  *)
(* acknowledged, announced, released, and completed by its answers.        *)
(* Includes src/protocol/frontend.ts and src/protocol/backend.ts.          *)
(***************************************************************************)
EXTENDS Upstream, Integers, SequencesExt

CONSTANTS
  None,
  Names,        \* names of statements and portals; "" is the unnamed one
  Starts,       \* [profile -> what a client sends outside a cycle]
  Stages,       \* [profile -> what it sends inside one that is open]
  MaxItems,     \* bound: of those, sent by the client
  MaxErrors,    \* bound: commands that fail
  MaxBuffered   \* maxBufferedBytes; a frame weighs 2

ASSUME WireAssumption ==
  /\ "" \in Names /\ DOMAIN Starts = DOMAIN Stages
  /\ MaxItems \in Nat /\ MaxErrors \in Nat /\ MaxBuffered \in Nat

VARIABLES
  \* the client
  profile,     \* the protocol profile
  todo, items, \* frames it is about to send; items begun
  awaits,      \* what it awaits first: "nothing", "answer" or "copy"
  \* the session
  state,       \* "open", "failed" or "closed"
  ready,
  frontend,    \* half a frame has arrived
  cycle, hasPrefix, cycleBytes,  \* FrontendCycleBuffer
  queue, retained,  \* units not released, as frames; retainedBytes
  unit,        \* what the oldest was announced as
  meta,        \* FrontendAssembler: acknowledged statements and portals
  prefix,      \* the open cycle
  inFlight,
  copyIn,      \* "none", "open", "ended", "stale" once its unit is complete
  copyOut,
  \* PostgreSQL
  mode, objects, answers, failures,
  synced,      \* a copy has read the Sync sent ahead of it
  ran          \* statements executed since the last release

client   == <<profile, todo, items, awaits>>
intake   == <<frontend, cycle, hasPrefix, cycleBytes>>
work     == <<queue, retained, unit, prefix, inFlight>>
copies   == <<copyIn, copyOut>>
postgres == <<mode, objects, answers, failures, synced, ran>>
vars     == <<upstream, client, state, ready, intake, work, meta, copies, postgres>>

(* An extended message is <<type, target, name, of>>: Parse of a SQL text, *)
(* Bind of a statement, and Execute, Describe or Close of an object.       *)
Frame(t, to, name, of) == [t |-> t, to |-> to, name |-> name, of |-> of]
Bare(t) == Frame(t, "", "", "")
Sync == Bare("S")

Message == [t : {"startup", "P", "B", "C", "D", "E", "H", "S", "Q", "d", "c", "f"},
            to : {"", "S", "P"}, name : Names, of : STRING \union {""}]

(* A stage that was released, until Sync ends its cycle. *)
OpenCycle == [frames : Seq(Message), complete : BOOLEAN, error : BOOLEAN]

ASSUME FramesAssumption ==
  /\ \A p \in DOMAIN Starts : Starts[p] \union Stages[p] \subseteq Seq(Message) \ {<<>>}
  /\ None \notin OpenCycle

Types(frames) == [i \in DOMAIN frames |-> frames[i].t]

Weight(frames) == 2 * Len(frames)

Queued(q) == SumFunction([i \in DOMAIN q |-> Weight(q[i])])

NoObjects == [to \in {"S", "P"} |-> [n \in Names |-> None]]

Init ==
  /\ UpstreamInit
  /\ profile \in DOMAIN Starts /\ todo = <<Bare("startup")>> /\ items = 0
  /\ awaits = "nothing"
  /\ state = "open" /\ ready = FALSE
  /\ frontend = 0 /\ cycle = <<>> /\ hasPrefix = FALSE /\ cycleBytes = 0
  /\ queue = <<>> /\ retained = 0 /\ unit = None /\ prefix = None /\ inFlight = None
  /\ meta = NoObjects /\ copyIn = "none" /\ copyOut = FALSE
  /\ mode = "startup" /\ objects = NoObjects /\ answers = <<>> /\ failures = 0
  /\ synced = FALSE /\ ran = <<>>

-----------------------------------------------------------------------------
(***************************************************************************)
(* Statements and portals, as the proxy and PostgreSQL each keep them.     *)
(***************************************************************************)
(* The SQL text a message is about, or None. *)
SqlOf(f, m) ==
  IF f.t = "P" THEN f.of ELSE IF f.t = "B" THEN m["S"][f.of] ELSE m[f.to][f.name]

After(f, sql, m) ==
  IF f.t \in {"P", "B"} THEN [m EXCEPT ![f.to][f.name] = sql]
  ELSE IF f.t = "C" THEN [m EXCEPT ![f.to][f.name] = None] ELSE m

(* An unnamed object is destroyed before its replacement is attempted. *)
WithoutUnnamed(f, m) ==
  IF f.t \in {"P", "B"} /\ f.name = "" THEN [m EXCEPT ![f.to][""] = None] ELSE m

WithoutPortals(m) == [m EXCEPT !["P"] = NoObjects["P"]]

-----------------------------------------------------------------------------
(***************************************************************************)
(* FrontendAssembler: a unit's operations and their identities.            *)
(***************************************************************************)
(* Each operation, resolved against what those before it would leave. *)
Operations(frames, m) ==
  FoldLeft(LAMBDA a, f : LET sql == SqlOf(f, a.m)
                         IN  [m   |-> After(f, sql, a.m),
                              ops |-> Append(a.ops, [frame |-> f, sql |-> sql])],
           [m |-> m, ops |-> <<>>],
           SelectSeq(frames, LAMBDA f : f.t \in {"P", "B", "C", "D", "E"})).ops

(* isDescribePrefix(): Parse, Describe of that statement, Flush. *)
IsDescribePrefix(frames) ==
  Types(frames) = <<"P", "D", "H">> /\ frames[2].to = "S" /\ frames[2].name = frames[1].name

(* Bind of the described statement, Execute of that portal, Sync. *)
IsExecution(frames, described) ==
  /\ Types(frames) = <<"B", "E", "S">>
  /\ frames[1].of = described[1].name /\ frames[2].name = frames[1].name

Stage(frames, open) ==
  LET last == Last(frames).t
  IN  IF open # None
      THEN IF open.error THEN "recover"
           ELSE IF profile = "describe" THEN "execute"
           ELSE IF last = "H" THEN "flush" ELSE "sync"
      ELSE IF last = "Q" THEN "simple"
           ELSE IF last = "S" THEN "complete"
           ELSE IF profile = "describe" \/ IsDescribePrefix(frames) THEN "describe" ELSE "flush"

Supported(stage, frames, open) ==
  /\ stage = "describe" => IsDescribePrefix(frames)
  /\ stage = "execute" => IsExecution(frames, open.frames)
  /\ stage = "recover" => frames = <<Sync>>

(* accept(), describe(), continuation(), flushStage(), flushContinuation() *)
Assembled(frames, open, m) ==
  LET ops   == Operations(frames, m)
      stage == Stage(frames, open)
  IN  IF Supported(stage, frames, open) /\ \A i \in DOMAIN ops : ops[i].sql # None
      THEN [stage |-> stage, frames |-> frames, ops |-> ops]
      ELSE [stage |-> "unsupported"]

(* What a unit's identity says PostgreSQL will execute. *)
Executions(u) ==
  IF u.stage = "simple" THEN <<u.frames[1].of>>
  ELSE LET executed == SelectSeq(u.ops, LAMBDA op : op.frame.t = "E")
       IN  [i \in DOMAIN executed |-> executed[i].sql]

(* Mutation: identities are derived before the preceding unit completes. *)
ProposedAhead(q, open, flying, m) ==
  IF q = <<>> \/ (open # None /\ ~open.complete) THEN None ELSE Assembled(Head(q), open, m)

(* announce(): what the oldest unit is announced as, None when it cannot be yet. *)
Proposed(q, open, flying, m) ==
  IF q = <<>> \/ flying # None \/ (open # None /\ ~open.complete) THEN None
  ELSE Assembled(Head(q), open, m)

-----------------------------------------------------------------------------
(***************************************************************************)
(* The session's ends.                                                     *)
(***************************************************************************)
(* An error or close of the upstream is handled before anything else is. *)
Open == state = "open" /\ errors = 0 /\ closes = 0

OpenWork == prefix # None /\ ~(profile = "flush" /\ prefix.complete /\ inFlight = None)

Outstanding == inFlight # None \/ OpenWork \/ queue # <<>>

Drops ==
  /\ inFlight' = None /\ queue' = <<>> /\ retained' = 0 /\ prefix' = None /\ unit' = None

Fail == state' = "failed" /\ Drops /\ Destroy

(* The work has changed: announce the oldest unit, if it is time. *)
Announce(isReady, q, bytes, open, flying, m) ==
  \E u \in {IF unit # None THEN unit
            ELSE IF isReady THEN Proposed(q, open, flying, m) ELSE None} :
    IF u # None /\ u.stage = "unsupported" THEN Fail /\ UNCHANGED <<ready, meta>>
    ELSE /\ unit' = u /\ queue' = q /\ retained' = bytes /\ prefix' = open /\ inFlight' = flying
         /\ ready' = isReady /\ meta' = m /\ UNCHANGED <<upstream, state>>

(* Outstanding work is rejected; nothing received from now on is forwarded. *)
Shutdown ==
  /\ state # "closed" /\ state' = "closed" /\ Drops /\ Destroy
  /\ UNCHANGED <<client, postgres, ready, meta, intake, copies>>

(* The upstream's error and close events. *)
UpstreamLost ==
  /\ state = "open" /\ ~Open
  /\ IF errors > 0 \/ Outstanding THEN Fail ELSE state' = "closed" /\ Destroy /\ UNCHANGED work
  /\ UNCHANGED <<client, postgres, ready, meta, intake, copies>>

(* The client ends or closes its socket. *)
Leaves ==
  /\ Open
  /\ IF Outstanding \/ cycle # <<>> \/ frontend > 0 THEN Fail
     ELSE state' = "closed" /\ (End \/ Destroy) /\ UNCHANGED work
  /\ UNCHANGED <<client, postgres, ready, meta, intake, copies>>

-----------------------------------------------------------------------------
(***************************************************************************)
(* Frames from the client.                                                 *)
(***************************************************************************)
(* Mutation: bytes stay counted as queued after the release. *)
ReleaseStillCounted ==
  /\ Open /\ unit # None /\ inFlight = None
  /\ queue' = Tail(queue) /\ unit' = None /\ ran' = <<>> /\ UNCHANGED retained
  /\ prefix' = IF unit.stage \in {"describe", "flush"}
               THEN [frames |-> unit.frames, complete |-> FALSE, error |-> FALSE] ELSE prefix
  /\ inFlight' = [stage |-> unit.stage, frames |-> unit.frames, ops |-> unit.ops, index |-> 0,
                  failed |-> FALSE]
  /\ Write(unit.frames) /\ Written
  /\ UNCHANGED <<client, state, ready, intake, meta, copies, mode, objects, answers, failures, synced>>

(* release(): the bytes go upstream; a stage becomes the open cycle. *)
Release ==
  /\ Open /\ unit # None /\ inFlight = None
  /\ queue' = Tail(queue) /\ retained' = retained - Weight(Head(queue))
  /\ unit' = None /\ ran' = <<>>
  /\ prefix' = IF unit.stage \in {"describe", "flush"}
               THEN [frames |-> unit.frames, complete |-> FALSE, error |-> FALSE] ELSE prefix
  /\ inFlight' = [stage |-> unit.stage, frames |-> unit.frames, ops |-> unit.ops, index |-> 0,
                  failed |-> FALSE]
  /\ Write(unit.frames) /\ Written
  /\ UNCHANGED <<client, state, ready, intake, meta, copies, mode, objects, answers, failures, synced>>

(* What checkRetained() adds to the bytes queued. *)
Others(flying, open) ==
  (IF flying = None THEN 0 ELSE Weight(flying.frames))
    + (IF open = None \/ (flying # None /\ flying.frames = open.frames) THEN 0
       ELSE Weight(open.frames))

(* Types a cycle may not continue with. *)
Refused(f) ==
  \/ f.t \in {"d", "c", "f"}
  \/ f.t = "Q" /\ (cycle # <<>> \/ hasPrefix)
  \/ /\ f.t = "H"
     /\ \/ profile = "sync"
        \/ profile = "flush" /\ cycle = <<>>
        \/ profile = "describe" /\ (hasPrefix \/ Types(cycle) # <<"P", "D">>)

(* Mutation: what is queued is not checked when it arrives. *)
FitsAlone(bytes) == bytes + frontend' + Others(inFlight, prefix) <= MaxBuffered

Fits(bytes) == retained + bytes + frontend' + Others(inFlight, prefix) <= MaxBuffered

(* FrontendCycleBuffer.accept(), enqueue() and checkRetained(). *)
Accept(f) ==
  LET frames == Append(cycle, f)
      spent  == IF f.t = "Q" THEN cycleBytes ELSE cycleBytes + 2
  IN  IF Refused(f) \/ spent > MaxBuffered \/ ~Fits(Weight(frames))
      THEN Fail /\ UNCHANGED <<ready, meta, cycle, hasPrefix, cycleBytes>>
      ELSE IF f.t \in {"S", "H", "Q"}
      THEN /\ cycle' = <<>> /\ hasPrefix' = (f.t = "H")
           /\ cycleBytes' = IF f.t = "S" \/ (f.t = "H" /\ profile = "flush") THEN 0 ELSE spent
           /\ Announce(ready, Append(queue, frames), retained + Weight(frames), prefix, inFlight, meta)
      ELSE /\ cycle' = frames /\ cycleBytes' = spent
           /\ UNCHANGED <<upstream, state, ready, meta, work, hasPrefix>>

InCopy == copyIn \in {"open", "ended"}

(* A Sync after a Flush stage's copy belongs to the next release. *)
EndsStage(f) == inFlight.stage = "flush" /\ f.t = "S" /\ copyIn = "ended"

(* Mutation: Sync never passes with a copy. *)
PassesDataOnly(f) == copyIn # "none" /\ f.t \in {"d", "c", "f"}

(* While PostgreSQL copies in, or did: copy messages, and Flush and Sync. *)
Passes(f) ==
  /\ copyIn # "none"
  /\ f.t \in {"d", "c", "f"} \/ (InCopy /\ f.t \in {"H", "S"} /\ ~EndsStage(f))

AfterCopy(f) ==
  IF f.t \in {"c", "f"} /\ InCopy THEN "ended"
  ELSE IF f.t = "S" /\ copyIn = "ended" THEN "none" ELSE copyIn

Receive(f) ==
  IF f.t = "startup"
  THEN /\ Write(<<f>>) /\ Written
       /\ UNCHANGED <<state, ready, meta, work, copyIn, cycle, hasPrefix, cycleBytes>>
  ELSE IF Passes(f)
  THEN /\ copyIn' = AfterCopy(f) /\ Write(<<f>>) /\ Written
       /\ UNCHANGED <<state, ready, meta, work, cycle, hasPrefix, cycleBytes>>
  ELSE IF copyIn = "open"
  THEN Fail /\ UNCHANGED <<ready, meta, cycle, hasPrefix, cycleBytes, copyIn>>
  ELSE Accept(f) /\ copyIn' = "none"

(* What the client may send next.  It awaits what it cannot continue       *)
(* without, answers a copy, and after an error in an open cycle only syncs. *)
Answers ==
  LET ends == IF inFlight.stage = "simple" THEN {<<>>}
              ELSE IF inFlight.stage = "flush" THEN {<<>>, <<Sync>>} ELSE {<<Sync>>}
  IN  {<<Bare("d"), Bare("c")>> \o e : e \in ends} \union {<<Bare("f")>> \o e : e \in ends}
        \union (IF inFlight.failed /\ inFlight.stage # "simple" THEN {<<Sync>>} ELSE {})

Begins ==
  IF items = MaxItems \/ (awaits # "nothing" /\ (inFlight # None \/ queue # <<>>)) THEN {}
  ELSE IF ~hasPrefix THEN Starts[profile]
  ELSE IF prefix # None /\ prefix.error THEN {<<Sync>>} ELSE Stages[profile]

Awaited(frames) ==
  IF frames[1].t \in {"B", "E"} \/ \E i \in DOMAIN frames : frames[i].of = "copyin" THEN "copy"
  ELSE IF Last(frames).t = "H" THEN "answer" ELSE "nothing"

Answering == copyIn = "open" /\ awaits = "copy"

(* One frame, with or without half of the next. *)
Send ==
  /\ Open
  /\ \E frames \in IF todo # <<>> THEN {todo} ELSE IF Answering THEN Answers ELSE Begins :
       /\ todo' = Tail(frames)
       /\ IF todo # <<>> THEN UNCHANGED <<items, awaits>>
          ELSE IF Answering THEN awaits' = "answer" /\ UNCHANGED items
          ELSE items' = items + 1 /\ awaits' = Awaited(frames)
       /\ frontend' \in 0 .. (IF Len(frames) > 1 THEN 1 ELSE 0)
       /\ Receive(Head(frames))
  /\ UNCHANGED <<profile, postgres, copyOut>>

-----------------------------------------------------------------------------
(***************************************************************************)
(* Frames from PostgreSQL.                                                 *)
(***************************************************************************)
Operation ==
  IF inFlight.index < Len(inFlight.ops) THEN inFlight.ops[inFlight.index + 1] ELSE None

Acknowledgements == [P |-> {"1"}, B |-> {"2"}, C |-> {"3"}, D |-> {"T", "n"}, E |-> {"C", "I", "s"}]

Acknowledges(t) ==
  ~inFlight.failed /\ Operation # None /\ t \in Acknowledgements[Operation.frame.t]

Unexpected(t) ==
  \/ t \in {"G", "H"} /\ (inFlight = None \/ copyOut \/ copyIn = "open")
  \/ t \in {"d", "c"} /\ ~copyOut
  \/ IF inFlight = None THEN prefix # None
     ELSE \/ t \in {"1", "2", "3"} /\ ~inFlight.failed /\ ~Acknowledges(t)
          \/ t \in {"ZI", "ZT"} /\ ~inFlight.failed /\ Operation # None
          \/ t \in {"ZI", "ZT"} /\ inFlight.stage = "flush"
          \/ t \notin {"1", "t", "T", "n", "E"} /\ inFlight.stage = "describe"

(* reconcile(): what PostgreSQL is known to hold after its answer. *)
KnownAfter(t) ==
  IF t = "E" THEN IF Operation = None THEN meta ELSE WithoutUnnamed(Operation.frame, meta)
  ELSE IF t \in {"ZI", "ZT"}
  THEN LET m == IF inFlight.stage = "simple" THEN [meta EXCEPT !["S"][""] = None] ELSE meta
       IN  IF t = "ZI" THEN WithoutPortals(m) ELSE m
  ELSE IF Acknowledges(t) THEN After(Operation.frame, Operation.sql, meta) ELSE meta

Journal(t) ==
  [inFlight EXCEPT !.failed = (@ \/ t = "E"), !.index = IF Acknowledges(t) THEN @ + 1 ELSE @]

(* Mutation: CommandComplete completes a command. *)
CompletesAtCommand(journal, t) ==
  IF journal.stage = "describe" THEN t \in {"T", "n", "E"}
  ELSE IF journal.stage = "flush" THEN t = "E" \/ journal.index = Len(journal.ops)
  ELSE t \in {"C", "ZI", "ZT"}

(* MetadataSummary, FlushSummary and BackendSummary. *)
Completes(journal, t) ==
  IF journal.stage = "describe" THEN t \in {"T", "n", "E"}
  ELSE IF journal.stage = "flush" THEN t = "E" \/ journal.index = Len(journal.ops)
  ELSE t \in {"ZI", "ZT"}

(* The open cycle once its stage is answered; Sync ends it. *)
CycleAfter(t) ==
  IF inFlight.stage \in {"describe", "flush"}
  THEN [prefix EXCEPT !.complete = TRUE, !.error = (t = "E")] ELSE None

Answered(t) ==
  \E journal \in {Journal(t)} :
    IF Completes(journal, t)
    THEN /\ copyIn' = IF t = "G" THEN "open" ELSE IF InCopy THEN "stale" ELSE copyIn
         /\ Announce(TRUE, queue, retained, CycleAfter(t), None, KnownAfter(t))
    ELSE /\ copyIn' = IF t = "G" THEN "open" ELSE copyIn
         /\ inFlight' = journal /\ meta' = KnownAfter(t)
         /\ UNCHANGED <<upstream, state, ready, queue, retained, unit, prefix>>

Backend ==
  /\ Open /\ phase = "attached" /\ answers # <<>> /\ answers' = Tail(answers)
  /\ LET t == Head(answers)
     IN  /\ copyOut' = ((copyOut \/ t = "H") /\ t \notin {"c", "C", "E"})
         /\ IF ~ready
            THEN Announce(TRUE, queue, retained, prefix, inFlight, meta) /\ UNCHANGED copyIn
            ELSE IF Unexpected(t) THEN Fail /\ UNCHANGED <<ready, meta, copyIn>>
            ELSE IF inFlight # None THEN Answered(t)
            ELSE UNCHANGED <<upstream, state, ready, work, meta, copyIn>>
  /\ UNCHANGED <<client, intake, mode, objects, failures, synced, ran>>

-----------------------------------------------------------------------------
(***************************************************************************)
(* PostgreSQL.                                                             *)
(***************************************************************************)
(* A transaction block keeps the portals that its end drops. *)
ReadyForQuery(ts, objs) ==
  \/ answers' = answers \o ts \o <<"ZT">> /\ objects' = objs
  \/ answers' = answers \o ts \o <<"ZI">> /\ objects' = WithoutPortals(objs)

Answer(ts) == answers' = answers \o ts

Output(sql) ==
  IF sql = "copyin" THEN <<"G">> ELSE IF sql = "copyout" THEN <<"H", "d", "c", "C">> ELSE <<"C">>

(* A copy's portal runs once. *)
Ran(f, sql) == IF sql \in {"copyin", "copyout"} THEN [objects EXCEPT !["P"][f.name] = "done"] ELSE objects

Impossible(f) ==
  \/ f.t # "C" /\ SqlOf(f, objects) \in {None, "done"}
  \/ f.t \in {"P", "B"} /\ f.name # "" /\ objects[f.to][f.name] # None

CommandFails(f) ==
  /\ f.t \in {"P", "B", "D", "E"} /\ (Impossible(f) \/ failures < MaxErrors)
  /\ failures' = IF Impossible(f) THEN failures ELSE failures + 1
  /\ mode' = "skip" /\ Answer(<<"E">>)
  /\ objects' \in {WithoutUnnamed(f, objects)} \union (IF f.t = "P" THEN {} ELSE {objects})
  /\ UNCHANGED <<synced, ran>>

Performs(f) ==
  /\ f.t \in {"P", "B", "C", "D", "E"} /\ ~Impossible(f)
  /\ LET sql == SqlOf(f, objects)
     IN  IF f.t = "E"
         THEN /\ ran' = Append(ran, sql) /\ objects' = Ran(f, sql)
              /\ Answer(IF f.of = "limited" /\ Output(sql) = <<"C">> THEN <<"s">> ELSE Output(sql))
              /\ mode' = IF sql = "copyin" THEN "copy" ELSE "ready"
         ELSE /\ objects' = After(f, sql, objects) /\ UNCHANGED <<ran, mode>>
              /\ Answer(IF f.t = "D" THEN IF f.to = "S" THEN <<"t", "T">> ELSE <<"T">>
                        ELSE IF f.t = "P" THEN <<"1">> ELSE IF f.t = "B" THEN <<"2">> ELSE <<"3">>)
  /\ synced' = FALSE /\ UNCHANGED failures

SimpleQuery(f) ==
  /\ f.t = "Q" /\ synced' = FALSE
  /\ LET left == [to \in {"S", "P"} |-> [objects[to] EXCEPT ![""] = None]]
     IN  \/ /\ failures < MaxErrors /\ failures' = failures + 1
            /\ ReadyForQuery(<<"E">>, left) /\ UNCHANGED <<mode, ran>>
         \/ /\ ran' = Append(ran, f.of) /\ UNCHANGED failures
           /\ IF f.of = "copyin" THEN mode' = "copySimple" /\ Answer(<<"G">>) /\ objects' = left
              ELSE mode' = "ready" /\ ReadyForQuery(Output(f.of), left)

(* Messages of a copy that has ended are ignored. *)
Between(f) ==
  /\ f.t \in {"S", "H", "d", "c", "f"}
  /\ IF f.t = "S" THEN ReadyForQuery(<<>>, objects) ELSE UNCHANGED <<answers, objects>>
  /\ UNCHANGED <<mode, failures, synced, ran>>

Skips(f) ==
  /\ mode = "skip" /\ UNCHANGED <<failures, synced, ran>>
  /\ IF f.t = "S" THEN mode' = "ready" /\ ReadyForQuery(<<>>, objects)
     ELSE UNCHANGED <<mode, answers, objects>>

(* Sync and Flush are ignored during a copy. *)
DuringCopy(f) ==
  /\ mode \in {"copy", "copySimple"} /\ UNCHANGED <<failures, ran>>
  /\ synced' = (synced \/ f.t = "S")
  /\ IF f.t \in {"S", "H", "d"} THEN UNCHANGED <<mode, answers, objects>>
     ELSE LET result == IF f.t = "c" THEN <<"C">> ELSE <<"E">>
          IN  IF mode = "copySimple" THEN mode' = "ready" /\ ReadyForQuery(result, objects)
              ELSE /\ mode' = IF f.t = "c" THEN "ready" ELSE "skip"
                   /\ Answer(result) /\ UNCHANGED objects

Serve ==
  /\ phase = "attached" /\ ~dead /\ toServer # <<>> /\ toServer' = Tail(toServer)
  /\ LET f == Head(toServer)
     IN  \/ /\ mode = "startup" /\ mode' = "ready" /\ ReadyForQuery(<<>>, objects)
            /\ UNCHANGED <<failures, synced, ran>>
         \/ mode = "ready" /\ (CommandFails(f) \/ Performs(f) \/ SimpleQuery(f) \/ Between(f))
         \/ Skips(f)
         \/ DuringCopy(f)
  /\ Written /\ UNCHANGED <<pending, client, state, ready, intake, work, meta, copies>>

(* A row is refused before the client ends the copy.  The Sync sent ahead  *)
(* has then been read. *)
RowRefused ==
  /\ mode \in {"copy", "copySimple"} /\ ~dead /\ failures < MaxErrors
  /\ synced \/ \A i \in DOMAIN toServer : toServer[i].t # "S"
  /\ failures' = failures + 1 /\ UNCHANGED <<synced, ran>>
  /\ IF mode = "copySimple" THEN mode' = "ready" /\ ReadyForQuery(<<"E">>, objects)
     ELSE mode' = "skip" /\ Answer(<<"E">>) /\ UNCHANGED objects
  /\ UNCHANGED <<upstream, client, state, ready, intake, work, meta, copies>>

-----------------------------------------------------------------------------
session == <<client, state, ready, intake, work, meta, copies, postgres>>

Transport == Connects /\ UNCHANGED session

TransportBreaks == Breaks /\ UNCHANGED session

Next ==
  \/ Send \/ Release \/ Backend \/ Serve \/ RowRefused \/ Transport
  \/ TransportBreaks \/ UpstreamLost \/ Leaves \/ Shutdown

Fairness ==
  /\ WF_vars(Send) /\ WF_vars(Release) /\ WF_vars(Backend) /\ WF_vars(Serve)
  /\ WF_vars(Transport) /\ WF_vars(UpstreamLost)

Spec == Init /\ [][Next]_vars /\ Fairness

-----------------------------------------------------------------------------
(***************************************************************************)
(* Properties.                                                             *)
(***************************************************************************)
(* What PostgreSQL has executed since the last release begins what the     *)
(* identity of the released unit says: names are resolved as PostgreSQL    *)
(* resolves them, whatever was refused, replaced or dropped before.        *)
FingerprintIsWhatRan == inFlight # None => IsPrefix(ran, Executions(inFlight))

(* A unit is complete only when PostgreSQL has answered all of it: nothing *)
(* is on its way, and what PostgreSQL has yet to read it will not answer.  *)
(* The next release finds it ready, or skipping to Sync after an error.    *)
CompletionMeansDone ==
  state = "open" /\ ready /\ inFlight = None /\ ~dead =>
    LET unread == Range(Types(toServer))
    IN  /\ answers = <<>>
        /\ IF prefix # None /\ prefix.error THEN mode = "skip" /\ "S" \notin unread
           ELSE mode = "ready" /\ unread \subseteq {"d", "c", "f", "H"}

(* Every frame held counts once against the limit, and no more are held. *)
BytesCountedOnce ==
  state = "open" =>
    /\ retained = Queued(queue)
    /\ retained + Weight(cycle) + Others(inFlight, prefix) <= MaxBuffered

(* What is queued or released is completed, or the session ends: neither   *)
(* side of a copy, of an error or of an open cycle waits for the other.    *)
CyclesEnd == (inFlight # None \/ queue # <<>>) ~> (inFlight = None /\ queue = <<>>)

(* A destroyed upstream closes, whatever its connection was about to do. *)
UpstreamCloses == destroyed ~> closes = 1
================================================================================
