------------------------------- MODULE ActorProxy -------------------------------
(***************************************************************************)
(* One actor's proxy, src/proxy.ts: admission of the actor's connections,  *)
(* the two sockets of each, the command units it holds and releases, the   *)
(* cancel requests it routes, and its shutdown.                            *)
(*                                                                         *)
(* Every action is one socket event, timer or call of the proxy; they run  *)
(* to completion, so the interleavings are those of the events.            *)
(***************************************************************************)
EXTENDS Integers, Sequences, FiniteSets

CONSTANTS
  Clients,         \* the client sockets the actor ever opens
  None,            \* not a client
  MaxConnections,  \* maxConnectionsPerActor
  Multi,           \* connectionProfile is multi-producer-v1
  Profile,         \* protocolProfile: "sync", "describe" or "flush"
  MaxUnits,        \* bound: units a client sends
  MaxQueue,        \* bound: units a client sends ahead of their release
  Faults           \* sockets may fail and messages may be unsupported

ASSUME ActorProxyAssumption ==
  /\ IsFiniteSet(Clients) /\ None \notin Clients
  /\ MaxConnections \in 1 .. 8
  /\ Multi \in BOOLEAN /\ Faults \in BOOLEAN
  /\ Profile \in {"sync", "describe", "flush"}
  /\ MaxUnits \in Nat /\ MaxQueue \in Nat \ {0}

(* Units: a cycle that ends in Sync or a simple query; a Parse/Describe    *)
(* prefix; a stage that ends in Flush.  The last two leave a cycle open.   *)
Kinds ==
  {"cycle"} \union (IF Profile = "sync" THEN {} ELSE {"describe"})
            \union (IF Profile = "flush" THEN {"flush"} ELSE {})

VARIABLES
  \* the proxy
  generation,   \* connections that have sent a startup packet
  owner,        \* commandOwner: the session that may send commands, or None
  replacement,  \* pendingReplacement, or NoReplacement
  closing,
  \* its sessions and sockets
  place,        \* [Clients -> where the socket is: see Places]
  number,       \* [Clients -> connection generation, -1 before startup]
  client,       \* [Clients -> client socket: "up", "ending", "down", "closed"]
  upstream,     \* [Clients -> upstream socket, likewise]
  ready, terminated, failed, closed, frontendEnded, pendingTerminate,  \* flags: sets of clients
  \* their command units
  sent,         \* [Clients -> units sent]
  partial,      \* clients with an incomplete extended cycle buffered
  queue,        \* [Clients -> kinds of the units not yet released]
  announced,    \* clients whose oldest queued unit was passed to onUnit
  prefix,       \* [Clients -> the open cycle: "none", "open", "complete", "failed"]
  inFlight,     \* [Clients -> the kind of the unit in flight, or "none"]
  errorSeen,    \* clients whose unit in flight has met an error
  \* cancel requests
  route,        \* [Clients -> "none", "forwarded", "acknowledged"]
  \* the scheduler's side of the callbacks
  held,         \* clients whose announced unit the scheduler has not released
  reported      \* onError was called

numbers   == <<generation, number>>
admission == <<owner, replacement, place>>
sockets   == <<client, upstream>>
flags     == <<ready, terminated, frontendEnded, pendingTerminate>>
over      == <<failed, closed>>
commands  == <<sent, partial>>
work      == <<queue, announced, prefix, inFlight, errorSeen>>
loop      == <<held, reported>>
vars == <<generation, owner, replacement, closing, place, number, client, upstream,
          ready, terminated, failed, closed, frontendEnded, pendingTerminate, sent,
          partial, queue, announced, prefix, inFlight, errorSeen, route, held, reported>>

(* A socket waits to replace a retiring session, is refused but may carry  *)
(* a cancel request, has a session, or turned out to carry a cancel.       *)
Places == {"new", "waiting", "refused", "session", "cancel", "gone"}

(* A socket is "ending" once the proxy has ended its side, and "down" when *)
(* its close event is due.                                                 *)
Socket == {"up", "ending", "down", "closed"}

NoReplacement == [client |-> None, retiring |-> None]

Init ==
  /\ generation = 0 /\ owner = None /\ replacement = NoReplacement /\ closing = FALSE
  /\ place = [c \in Clients |-> "new"] /\ number = [c \in Clients |-> -1]
  /\ client = [c \in Clients |-> "up"] /\ upstream = [c \in Clients |-> "up"]
  /\ ready = {} /\ terminated = {} /\ failed = {} /\ closed = {}
  /\ frontendEnded = {} /\ pendingTerminate = {}
  /\ sent = [c \in Clients |-> 0] /\ partial = {}
  /\ queue = [c \in Clients |-> <<>>] /\ announced = {}
  /\ prefix = [c \in Clients |-> "none"] /\ inFlight = [c \in Clients |-> "none"]
  /\ errorSeen = {}
  /\ route = [c \in Clients |-> "none"] /\ held = {} /\ reported = FALSE

-----------------------------------------------------------------------------
Sessions == {c \in Clients : place[c] = "session"}

Started(c) == number[c] # -1

(* A cycle that must still be completed.  In the flush profile one whose   *)
(* stages have all completed may be left open.                             *)
OpenWork(c) ==
  /\ prefix[c] # "none"
  /\ ~(Profile = "flush" /\ prefix[c] # "open" /\ inFlight[c] = "none")

Busy(c) == inFlight[c] # "none" \/ OpenWork(c)

(* What a client may not leave behind. *)
Unfinished(c) == Busy(c) \/ queue[c] # <<>> \/ c \in partial

IsTerminating(c) ==
  c \notin failed /\ (c \in terminated \union frontendEnded \/ client[c] = "closed")

Receives(socket, c) == place[c] = "session" /\ socket[c] \in {"up", "ending"}

Listens(c) == c \notin failed \union closed

Destroyed(socket, S) ==
  [c \in Clients |-> IF c \in S /\ socket[c] # "closed" THEN "down" ELSE socket[c]]

Ending(socket, c) == IF socket[c] = "up" THEN [socket EXCEPT ![c] = "ending"] ELSE socket

(* Mutation: inFlight is left behind by a failure. *)
DropQueueOnly(S) ==
  /\ queue' = [c \in Clients |-> IF c \in S THEN <<>> ELSE queue[c]]
  /\ prefix' = [c \in Clients |-> IF c \in S THEN "none" ELSE prefix[c]]
  /\ announced' = announced \ S
  /\ UNCHANGED <<inFlight, errorSeen>>

(* Drop the work of the sessions S: what is queued, the open cycle, and    *)
(* the unit in flight, whose promise rejects.                              *)
Drop(S) ==
  /\ queue' = [c \in Clients |-> IF c \in S THEN <<>> ELSE queue[c]]
  /\ prefix' = [c \in Clients |-> IF c \in S THEN "none" ELSE prefix[c]]
  /\ inFlight' = [c \in Clients |-> IF c \in S THEN "none" ELSE inFlight[c]]
  /\ announced' = announced \ S
  /\ errorSeen' = errorSeen \ S

(* fail(): report, then reject and drop the session's work and destroy its *)
(* upstream.  Only the first failure of a session that is not closed.      *)
FailsWhen(c, condition) ==
  IF condition /\ Listens(c)
  THEN /\ failed' = failed \union {c} /\ reported' = TRUE
       /\ Drop({c})
  ELSE UNCHANGED <<failed, reported, work>>

Fail(c) ==
  /\ Listens(c)
  /\ FailsWhen(c, TRUE)
  /\ upstream' = Destroyed(upstream, {c})

(* Mutation: a stage is not followed up. *)
AnnouncesOutsideCycles(c, units, flying, cycle) ==
  /\ Listens(c) /\ c \notin announced
  /\ flying = "none" /\ units # <<>> /\ cycle = "none"

(* announce(): pass the oldest unit to the scheduler, when the session is  *)
(* ready, nothing is in flight and the open cycle's stage has completed.   *)
Announces(c, units, flying, cycle) ==
  /\ Listens(c) /\ c \notin announced
  /\ flying = "none" /\ units # <<>> /\ cycle # "open"

-----------------------------------------------------------------------------
(***************************************************************************)
(* Admission.                                                              *)
(***************************************************************************)
(* Mutation: off by one. *)
HasRoomForOneMore == Cardinality(Sessions) <= MaxConnections

HasRoom == Cardinality(Sessions) < MaxConnections

AcceptedAt(c) == place' = [place EXCEPT ![c] = "session"]

(* A connection arrives.  When the limit is reached it may wait for one    *)
(* session that is conclusively ending; otherwise its first packet tells   *)
(* whether it is refused.                                                  *)
Connect(c) ==
  /\ place[c] = "new"
  /\ \/ closing /\ place' = [place EXCEPT ![c] = "gone"] /\ UNCHANGED replacement
     \/ /\ ~closing /\ replacement = NoReplacement
        /\ HasRoom
        /\ AcceptedAt(c) /\ UNCHANGED replacement
     \/ /\ ~closing /\ replacement = NoReplacement
        /\ ~HasRoom
        /\ \E r \in {s \in Sessions : IsTerminating(s)} :
             /\ replacement' = [client |-> c, retiring |-> r]
             /\ place' = [place EXCEPT ![c] = "waiting"]
     \/ /\ ~closing
        /\ \/ replacement # NoReplacement
           \/ ~HasRoom /\ \A s \in Sessions : ~IsTerminating(s)
        /\ place' = [place EXCEPT ![c] = "refused"] /\ UNCHANGED replacement
  /\ UNCHANGED <<numbers, sockets, flags, over, commands, work, loop, owner, closing,
                 route>>

(* The waiting client gives up, or sends more than may be buffered. *)
Abandon(c) ==
  /\ place[c] = "waiting"
  /\ replacement' = NoReplacement
  /\ place' = [place EXCEPT ![c] = "gone"]
  /\ reported' \in {reported} \union (IF Faults THEN {TRUE} ELSE {})
  /\ UNCHANGED <<numbers, sockets, flags, over, commands, work, owner, closing, route,
                 held>>

(* A refused connection that carries no cancel request: its first packet,  *)
(* its end or a second of silence is answered with an error; one that just *)
(* closes is forgotten.                                                    *)
Refuse(c) ==
  /\ place[c] = "refused"
  /\ place' = [place EXCEPT ![c] = "gone"]
  /\ reported' \in {reported, TRUE}
  /\ UNCHANGED <<numbers, sockets, flags, over, commands, work, owner, replacement,
                 closing, route, held>>

(* finishClose() and then promoteReplacement(): both sockets have closed.  *)
(* left tells which sessions remain.                                       *)
Retire(c) ==
  LET waiter == replacement.client
      after  == [place EXCEPT ![c] = IF @ = "session" THEN "gone" ELSE @]
      admit  == replacement # NoReplacement /\ replacement.retiring = c
      room   == Cardinality(Sessions \ {c}) < MaxConnections
  IN  /\ closed' = closed \union {c}
      /\ owner' = IF owner = c THEN None ELSE owner
      /\ IF admit
         THEN /\ replacement' = NoReplacement
              /\ place' = [after EXCEPT ![waiter] = IF closing \/ ~room THEN "gone" ELSE "session"]
         ELSE place' = after /\ UNCHANGED replacement

(* Mutation: a failed session keeps its slot. *)
RetireWhenHealthy(c, condition) ==
  IF condition /\ c \notin failed THEN Retire(c) ELSE UNCHANGED <<admission, closed>>

RetireWhen(c, condition) ==
  IF condition THEN Retire(c) ELSE UNCHANGED <<admission, closed>>

-----------------------------------------------------------------------------
(***************************************************************************)
(* Data from the client.                                                   *)
(***************************************************************************)
(* Mutation: a second startup packet is taken. *)
StartupAgain(c) ==
  /\ Receives(client, c) /\ Listens(c)
  /\ number' = [number EXCEPT ![c] = generation]
  /\ generation' = generation + 1
  /\ UNCHANGED <<admission, sockets, flags, over, commands, work, loop, closing, route>>

(* The startup packet: the generation is assigned here, so sockets that    *)
(* never start, and cancel requests, take no number.                       *)
Startup(c) ==
  /\ Receives(client, c) /\ Listens(c) /\ ~Started(c)
  /\ number' = [number EXCEPT ![c] = generation]
  /\ generation' = generation + 1
  /\ UNCHANGED <<admission, sockets, flags, over, commands, work, loop, closing, route>>

(* routeCancel(): forward a request for a live backend of this actor. *)
Routed(c, target) ==
  route' = [route EXCEPT ![c] =
              IF target \in Sessions \intersect ready THEN "forwarded" ELSE "none"]

(* A session's first packet is a cancel request: it frees its slot. *)
CancelPacket(c) ==
  /\ Receives(client, c) /\ Listens(c) /\ ~Started(c)
  /\ place' = [place EXCEPT ![c] = "cancel"]
  /\ upstream' = Destroyed(upstream, {c})
  /\ \E target \in (Clients \ {c}) \union {None} : Routed(c, target)
  /\ UNCHANGED <<numbers, flags, over, commands, work, loop, owner, replacement, closing,
                 client>>

RefusedCancelPacket(c) ==
  /\ place[c] = "refused"
  /\ place' = [place EXCEPT ![c] = "cancel"]
  /\ \E target \in (Clients \ {c}) \union {None} : Routed(c, target)
  /\ UNCHANGED <<numbers, sockets, flags, over, commands, work, loop, owner, replacement,
                 closing>>

(* PostgreSQL closed the cancel connection, or it failed or timed out. *)
CancelSettles(c) ==
  /\ route[c] = "forwarded"
  /\ route' = [route EXCEPT ![c] = "acknowledged"]
  /\ reported' \in {reported} \union (IF Faults /\ ~closing THEN {TRUE} ELSE {})
  /\ UNCHANGED <<numbers, admission, sockets, flags, over, commands, work, closing, held>>

(* Mutation: any session may send commands. *)
AcceptsCommandOfAny(c) == c \notin terminated

(* A command frame is acceptable: only one session of a single-producer    *)
(* actor sends commands, and none does after Terminate.                    *)
AcceptsCommand(c) ==
  c \notin terminated /\ (Multi \/ owner \in {None, c})

(* Frames that do not end a unit yet reserve the producer's place. *)
BeginCycle(c) ==
  /\ Receives(client, c) /\ Listens(c) /\ Started(c)
  /\ sent[c] < MaxUnits /\ c \notin partial
  /\ IF AcceptsCommand(c)
     THEN /\ owner' = IF Multi THEN None ELSE c
          /\ partial' = partial \union {c}
          /\ UNCHANGED <<work, upstream, failed, reported>>
     ELSE Fail(c) /\ UNCHANGED <<owner, partial>>
  /\ UNCHANGED <<numbers, flags, replacement, closing, place, client, closed, sent, route,
                 held>>

(* Whether the next unit continues an open cycle. *)
HasPrefix(c) ==
  IF queue[c] # <<>> THEN queue[c][Len(queue[c])] # "cycle"
                     ELSE prefix[c] # "none" /\ inFlight[c] # "cycle"

(* The frame that ends a unit: it is queued, and announced if it can be.   *)

EndCycle(c, kind) ==
  LET units == Append(queue[c], kind)
      now   == c \in ready /\ Announces(c, units, inFlight[c], prefix[c])
  IN  /\ kind \in Kinds
      /\ Receives(client, c) /\ Listens(c) /\ Started(c)
      /\ sent[c] < MaxUnits /\ Len(queue[c]) < MaxQueue
      /\ kind # "cycle" => c \in partial
      /\ kind = "describe" => ~HasPrefix(c)
      /\ IF AcceptsCommand(c)
         THEN /\ owner' = IF Multi THEN None ELSE c
              /\ queue' = [queue EXCEPT ![c] = units]
              /\ announced' = IF now THEN announced \union {c} ELSE announced
              /\ held' = IF now THEN held \union {c} ELSE held
              /\ UNCHANGED <<upstream, failed, prefix, inFlight, errorSeen, reported>>
         ELSE Fail(c) /\ UNCHANGED <<owner, held>>
      /\ sent' = [sent EXCEPT ![c] = @ + 1]
      /\ partial' = partial \ {c}
      /\ UNCHANGED <<numbers, flags, replacement, closing, place, client, closed, route>>

(* Mutation: Terminate overlooks the queue. *)
LeavesWorkUnqueued(c) ==
  \/ c \in partial
  \/ OpenWork(c) /\ inFlight[c] \in {"none", "describe"}
  \/ inFlight[c] # "none" /\ c \notin errorSeen

(* Terminate with unfinished work is an error.  One exception: a driver    *)
(* may leave on ErrorResponse, before the command has completed; Terminate *)
(* then waits for the completion.                                          *)
LeavesWork(c) ==
  \/ queue[c] # <<>> \/ c \in partial
  \/ OpenWork(c) /\ inFlight[c] \in {"none", "describe"}
  \/ inFlight[c] # "none" /\ c \notin errorSeen

Terminate(c) ==
  /\ Receives(client, c) /\ Listens(c) /\ Started(c)
  /\ IF c \in terminated \/ LeavesWork(c)
     THEN Fail(c) /\ UNCHANGED <<terminated, pendingTerminate>>
     ELSE /\ terminated' = terminated \union {c}
          /\ IF inFlight[c] # "none"
             THEN pendingTerminate' = pendingTerminate \union {c} /\ UNCHANGED upstream
             ELSE upstream' = Ending(upstream, c) /\ UNCHANGED pendingTerminate
          /\ UNCHANGED <<failed, work, reported>>
  /\ UNCHANGED <<numbers, admission, commands, closing, client, ready, closed,
                 frontendEnded, route, held>>

(* A malformed or unsupported message, or a buffer limit, in either        *)
(* direction.                                                              *)
Unsupported(c) ==
  /\ Faults
  /\ Receives(client, c) \/ Receives(upstream, c)
  /\ Fail(c)
  /\ owner' \in {owner} \union (IF Started(c) /\ ~Multi /\ AcceptsCommand(c) THEN {c} ELSE {})
  /\ UNCHANGED <<numbers, flags, commands, replacement, closing, place, client, closed,
                 route, held>>

-----------------------------------------------------------------------------
(***************************************************************************)
(* Releases and PostgreSQL's answers.                                      *)
(***************************************************************************)
(* The scheduler releases the unit it holds; a release that comes too late *)
(* rejects at once.                                                        *)
Release(c) ==
  LET kind == queue[c][1]
  IN  /\ c \in held
      /\ held' = held \ {c}
      /\ IF c \in closed \union failed \/ closing \/ c \notin announced
         THEN UNCHANGED work
         ELSE /\ inFlight' = [inFlight EXCEPT ![c] = kind]
              /\ queue' = [queue EXCEPT ![c] = Tail(@)]
              /\ announced' = announced \ {c}
              /\ errorSeen' = IF prefix[c] = "failed" THEN errorSeen \union {c} ELSE errorSeen
              /\ prefix' = IF kind = "cycle" THEN prefix ELSE [prefix EXCEPT ![c] = "open"]
      /\ UNCHANGED <<numbers, admission, sockets, flags, over, commands, closing, route,
                     reported>>

(* The first ReadyForQuery: the session is ready and its backend known. *)
Connected(c) ==
  LET now == Announces(c, queue[c], inFlight[c], prefix[c])
  IN  /\ Receives(upstream, c) /\ Listens(c) /\ Started(c) /\ c \notin ready
      /\ ready' = ready \union {c}
      /\ announced' = IF now THEN announced \union {c} ELSE announced
      /\ held' = IF now THEN held \union {c} ELSE held
      /\ UNCHANGED <<numbers, admission, sockets, over, commands, closing, terminated,
                     frontendEnded, pendingTerminate, queue, prefix, inFlight, errorSeen,
                     route, reported>>

(* ErrorResponse inside a cycle; it ends a stage at once. *)
ServerError(c) ==
  /\ Receives(upstream, c) /\ Listens(c) /\ inFlight[c] = "cycle"
  /\ errorSeen' = errorSeen \union {c}
  /\ UNCHANGED <<numbers, admission, sockets, flags, over, commands, loop, closing, queue,
                 announced, prefix, inFlight, route>>

(* The unit in flight has completed: its promise resolves; then a waiting  *)
(* Terminate goes out, or the next unit is announced.                      *)
Completes(c) ==
  LET after == IF inFlight[c] = "cycle" THEN {"none"} ELSE {"complete", "failed"}
      ends  == c \in pendingTerminate
  IN  /\ Receives(upstream, c) /\ Listens(c) /\ inFlight[c] # "none"
      /\ inFlight' = [inFlight EXCEPT ![c] = "none"]
      /\ errorSeen' = errorSeen \ {c}
      /\ \E cycle \in after :
           LET now == ~ends /\ c \in ready /\ Announces(c, queue[c], "none", cycle)
           IN  /\ prefix' = [prefix EXCEPT ![c] = cycle]
               /\ announced' = IF now THEN announced \union {c} ELSE announced
               /\ held' = IF now THEN held \union {c} ELSE held
      /\ pendingTerminate' = pendingTerminate \ {c}
      /\ upstream' = IF ends THEN Ending(upstream, c) ELSE upstream
      /\ UNCHANGED <<numbers, admission, over, commands, closing, client, ready,
                     terminated, frontendEnded, queue, route, reported>>

-----------------------------------------------------------------------------
(***************************************************************************)
(* Socket events.                                                          *)
(***************************************************************************)
(* The client ends its side.  A session with unfinished work, or half a    *)
(* frame, fails; one whose Terminate waits goes on; otherwise its upstream *)
(* is ended.                                                               *)
ClientEnd(c) ==
  \E halfFrame \in {FALSE, Faults} :
  LET quiet == closing \/ ~Listens(c)
      fails == ~quiet /\ c \notin terminated /\ (Unfinished(c) \/ halfFrame)
      ends  == ~quiet /\ ~fails /\ c \notin pendingTerminate
  IN  /\ Receives(client, c)
      /\ client' = [client EXCEPT ![c] = "down"]
      /\ FailsWhen(c, fails)
      /\ frontendEnded' = IF ends THEN frontendEnded \union {c} ELSE frontendEnded
      /\ upstream' = IF fails THEN Destroyed(upstream, {c})
                     ELSE IF ends THEN Ending(upstream, c) ELSE upstream
      /\ UNCHANGED <<numbers, admission, commands, closing, ready, terminated, closed,
                     pendingTerminate, route, held>>

(* The client's connection breaks; its close event follows. *)
ClientError(c) ==
  LET fails == ~closing /\ c \notin terminated /\ Listens(c)
  IN  /\ Faults /\ Receives(client, c)
      /\ client' = [client EXCEPT ![c] = "down"]
      /\ FailsWhen(c, fails)
      /\ upstream' = IF fails THEN Destroyed(upstream, {c}) ELSE upstream
      /\ UNCHANGED <<numbers, admission, flags, commands, closing, closed, route, held>>

ClientClose(c) ==
  LET fails == ~closing /\ c \notin terminated /\ Listens(c) /\ Unfinished(c)
  IN  /\ place[c] = "session" /\ client[c] = "down"
      /\ client' = [client EXCEPT ![c] = "closed"]
      /\ FailsWhen(c, fails)
      /\ upstream' = IF fails \/ c \notin pendingTerminate
                     THEN Destroyed(upstream, {c}) ELSE upstream
      /\ RetireWhen(c, upstream[c] = "closed")
      /\ UNCHANGED <<numbers, flags, commands, closing, route, held>>

(* PostgreSQL ends the connection. *)
UpstreamEnd(c) ==
  LET fails == /\ ~closing /\ Listens(c)
               /\ Busy(c) \/ queue[c] # <<>> \/ (c \notin terminated /\ c \in ready)
  IN  /\ Receives(upstream, c)
      /\ upstream' = [upstream EXCEPT ![c] = "down"]
      /\ FailsWhen(c, fails)
      /\ client' = IF fails \/ c \in closed THEN client ELSE Ending(client, c)
      /\ UNCHANGED <<numbers, admission, flags, commands, closing, closed, route, held>>

UpstreamError(c) ==
  LET fails == ~closing /\ Listens(c) /\ (c \notin terminated \/ inFlight[c] # "none")
  IN  /\ Faults /\ Receives(upstream, c)
      /\ upstream' = [upstream EXCEPT ![c] = "down"]
      /\ FailsWhen(c, fails)
      /\ UNCHANGED <<numbers, admission, flags, commands, closing, client, closed, route,
                     held>>

UpstreamClose(c) ==
  LET fails == ~closing /\ Listens(c) /\ Busy(c)
  IN  /\ place[c] = "session" /\ upstream[c] = "down"
      /\ upstream' = [upstream EXCEPT ![c] = "closed"]
      /\ FailsWhen(c, fails)
      /\ client' = IF Listens(c) /\ ~fails /\ client[c] = "up"
                   THEN [client EXCEPT ![c] = "down"] ELSE client
      /\ RetireWhen(c, client[c] = "closed")
      /\ UNCHANGED <<numbers, flags, commands, closing, route, held>>

(* A tenth of a second after a failure the session is shut down. *)
FailTimer(c) ==
  /\ place[c] = "session" /\ c \in failed
  /\ client[c] \in {"up", "ending"} \/ (client[c] = "down" /\ c \notin closed)
  /\ closed' = closed \union {c}
  /\ Drop({c} \ closed)
  /\ client' = Destroyed(client, {c})
  /\ upstream' = Destroyed(upstream, {c} \ closed)
  /\ UNCHANGED <<numbers, admission, flags, commands, loop, closing, failed, route>>

-----------------------------------------------------------------------------
(***************************************************************************)
(* close(): drop the replacement and shut every session down; a tenth of a *)
(* second later every socket is destroyed.                                 *)
(***************************************************************************)
Close ==
  LET waiter == replacement.client
  IN  /\ ~closing /\ closing' = TRUE
      /\ replacement' = NoReplacement
      /\ place' = [c \in Clients |-> IF c = waiter THEN "gone" ELSE place[c]]
      /\ closed' = closed \union Sessions
      /\ Drop(Sessions \ closed)
      /\ upstream' = Destroyed(upstream, Sessions \ closed)
      /\ UNCHANGED <<numbers, flags, commands, loop, owner, client, failed, route>>

(* Mutation: client sockets are not destroyed. *)
CloseTimerUpstreams ==
  /\ closing
  /\ upstream' = Destroyed(upstream, Sessions)
  /\ place' = [c \in Clients |-> IF place[c] \in {"refused", "cancel"} THEN "gone" ELSE place[c]]
  /\ UNCHANGED <<numbers, flags, over, commands, work, loop, owner, replacement, closing,
                 client, route>>

CloseTimer ==
  /\ closing
  /\ \E c \in Clients : \/ place[c] \in {"refused", "cancel"}
                        \/ place[c] = "session" /\ {client[c], upstream[c]} \ {"down", "closed"} # {}
  /\ client' = Destroyed(client, Sessions)
  /\ upstream' = Destroyed(upstream, Sessions)
  /\ place' = [c \in Clients |-> IF place[c] \in {"refused", "cancel"} THEN "gone" ELSE place[c]]
  /\ UNCHANGED <<numbers, flags, over, commands, work, loop, owner, replacement, closing,
                 route>>

Done ==
  /\ \A c \in Clients : place[c] \in {"gone", "cancel"} /\ route[c] # "forwarded"
  /\ held = {}
  /\ UNCHANGED vars

-----------------------------------------------------------------------------
Application ==
  \E c \in Clients :
    \/ Connect(c) \/ Startup(c) \/ CancelPacket(c) \/ RefusedCancelPacket(c)
    \/ BeginCycle(c) \/ EndCycle(c, "cycle") \/ EndCycle(c, "describe") \/ EndCycle(c, "flush")
    \/ Terminate(c) \/ Unsupported(c) \/ ClientError(c) \/ Abandon(c)

Postgres ==
  \E c \in Clients :
    Connected(c) \/ ServerError(c) \/ Completes(c) \/ UpstreamEnd(c) \/ UpstreamError(c)

Next ==
  \/ Application
  \/ Postgres
  \/ \E c \in Clients :
       Refuse(c) \/ CancelSettles(c) \/ ClientEnd(c) \/ ClientClose(c)
         \/ UpstreamClose(c) \/ FailTimer(c) \/ Release(c)
  \/ Close \/ CloseTimer \/ Done

Spec == Init /\ [][Next]_vars

(* Node runs timers and delivers the close of a socket whose ends are      *)
(* finished or destroyed.                                                  *)
SocketFairness ==
  /\ \A c \in Clients : WF_vars(ClientClose(c)) /\ WF_vars(UpstreamClose(c)) /\ WF_vars(FailTimer(c))
  /\ WF_vars(CloseTimer)

(* A peer whose connection was ended answers with its own end, and         *)
(* PostgreSQL answers what it was sent.                                    *)
PeerFairness ==
  \A c \in Clients :
    /\ WF_vars(client[c] = "ending" /\ ClientEnd(c))
    /\ WF_vars(upstream[c] = "ending" /\ UpstreamEnd(c))
    /\ WF_vars(Completes(c))

ClosingSpec == Spec /\ SocketFairness

-----------------------------------------------------------------------------
(* The proxy's state keeps its shape. *)
TypeOK ==
  /\ generation \in 0 .. Cardinality(Clients)
  /\ owner \in Clients \union {None}
  /\ replacement \in [client : Clients, retiring : Clients] \union {NoReplacement}
  /\ closing \in BOOLEAN
  /\ place \in [Clients -> Places]
  /\ number \in [Clients -> -1 .. Cardinality(Clients)]
  /\ client \in [Clients -> Socket] /\ upstream \in [Clients -> Socket]
  /\ ready \subseteq Clients /\ terminated \subseteq Clients /\ failed \subseteq Clients
  /\ closed \subseteq Clients /\ frontendEnded \subseteq Clients
  /\ pendingTerminate \subseteq Clients
  /\ sent \in [Clients -> 0 .. MaxUnits] /\ partial \subseteq Clients
  /\ \A c \in Clients : queue[c] \in Seq(Kinds) /\ Len(queue[c]) <= MaxQueue
  /\ announced \subseteq Clients
  /\ prefix \in [Clients -> {"none", "open", "complete", "failed"}]
  /\ inFlight \in [Clients -> Kinds \union {"none"}]
  /\ errorSeen \subseteq Clients
  /\ route \in [Clients -> {"none", "forwarded", "acknowledged"}]
  /\ held \subseteq Clients /\ reported \in BOOLEAN

(* The actor never has more sessions than its limit, and a connection that *)
(* waits for a session to retire waits for one that still exists: the      *)
(* replacement, the release of slots by cancel requests and the order of   *)
(* the two close events keep both (proxy.ts:143-192, 471-478).             *)
AdmissionSound ==
  /\ Cardinality(Sessions) <= MaxConnections
  /\ replacement # NoReplacement =>
       /\ place[replacement.client] = "waiting"
       /\ replacement.retiring \in Sessions

(* In a single-producer actor only the owner has commands anywhere: half   *)
(* received, queued, held, in flight or in an open cycle.  Ownership moves *)
(* only when the last producer's socket pair has closed (proxy.ts:386).    *)
OneProducer ==
  ~Multi => \A c \in Clients : Listens(c) /\ Unfinished(c) => owner = c

(* No lost wakeup: a queued unit that could be announced is.  announce()   *)
(* is called when a unit is queued, when the session becomes ready and     *)
(* when a unit completes; nothing else would wake it (proxy.ts:254-257).   *)
NoUnitForgotten ==
  \A c \in Clients :
    c \in ready /\ Listens(c) /\ queue[c] # <<>> /\ inFlight[c] = "none"
      => c \in announced /\ c \in held

(* Terminate is the last thing PostgreSQL is sent: a session that accepted *)
(* it has no unit to send, and its upstream ends only after the unit in    *)
(* flight has completed (proxy.ts:373-382, 452).                           *)
TerminateIsLast ==
  \A c \in terminated \ (failed \union closed) :
    /\ queue[c] = <<>> /\ c \notin partial \union held
    /\ inFlight[c] # "none" <=> c \in pendingTerminate
    /\ upstream[c] = "ending" => inFlight[c] = "none"

(* The proxy as the execution loop sees it implements the contract of its  *)
(* lanes.                                                                  *)
Life(c) ==
  IF ~Started(c) THEN "none"
  ELSE IF place[c] = "gone" THEN "disconnected"
  ELSE IF c \in ready THEN "connected" ELSE "started"

Contract == INSTANCE LaneContract WITH
  Connections <- Clients,
  life        <- [c \in Clients |-> Life(c)],
  generation  <- number,
  unit        <- [c \in Clients |-> IF inFlight[c] # "none" THEN "flying"
                                    ELSE IF c \in held THEN "held" ELSE "none"],
  excused     <- reported \/ closing

HonoursLaneContract == Contract!Spec

(* close() ends: whatever the client, PostgreSQL and the sessions were     *)
(* doing, every socket is gone some time after it was called, by timers    *)
(* and close events alone (proxy.ts:505-519).                              *)
CloseFinishes ==
  closing ~> \A c \in Clients : place[c] \in {"new", "gone", "cancel"}

(* A connection that waits for a retiring session does not wait forever,   *)
(* whatever becomes of that session: it may still fail, drain a command    *)
(* after Terminate, or lose either socket first (proxy.ts:150-192).  The   *)
(* premise is that ended connections are ended by their peers too.         *)
ReplacementSettles ==
  PeerFairness => \A c \in Clients : place[c] = "waiting" ~> place[c] # "waiting"

(* Whoever waits for a connection to go does not wait forever: close() and *)
(* a replacement both end.                                                 *)
ConnectionsSettle == CloseFinishes /\ ReplacementSettles

================================================================================
