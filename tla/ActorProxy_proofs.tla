--------------------------- MODULE ActorProxy_proofs ---------------------------
(***************************************************************************)
(* The connection limit of ActorProxy, its one producer of commands, and   *)
(* its units from their arrival to their answer, for any number of         *)
(* connections, any limit and every profile.                               *)
(***************************************************************************)
EXTENDS ActorProxy, FiniteSetTheorems, TLAPS

USE DEF numbers, admission, sockets, flags, over, commands, work, loop

-----------------------------------------------------------------------------
(* The part of TypeOK that admission depends on. *)
AdmissionType ==
  /\ place \in [Clients -> Places]
  /\ number \in [Clients -> Int] /\ generation \in Nat
  /\ client \in [Clients -> Socket]
  /\ replacement \in [client : Clients, retiring : Clients] \union {NoReplacement}

(* A session that another connection waits for has failed or is ending, so *)
(* it can no longer turn out to carry a cancel request, which would take   *)
(* it out of the sessions without retiring it.                             *)
Leaving(c) == c \in failed \union terminated \union frontendEnded \/ client[c] = "closed"

Replaceable == replacement # NoReplacement => Leaving(replacement.retiring)

(* Only a session that has started terminates, and one whose client has    *)
(* ended receives nothing more from it.                                    *)
EndsOnce ==
  /\ \A c \in Clients : c \in terminated => Started(c)
  /\ \A c \in Clients : c \in frontendEnded => client[c] \in {"down", "closed"}

(* The inductive invariant behind AdmissionSound. *)
Limited == AdmissionType /\ AdmissionSound /\ Replaceable /\ EndsOnce

(* A step that admits and retires nobody. *)
Uninvolved ==
  /\ UNCHANGED <<place, replacement>>
  /\ failed \subseteq failed' /\ terminated \subseteq terminated'
  /\ frontendEnded \subseteq frontendEnded'
  /\ \A c \in Clients : client[c] = "closed" => client'[c] = "closed"

-----------------------------------------------------------------------------
(* Sessions are finite in number, so their cardinality counts. *)
LEMMA SessionsFinite == IsFiniteSet(Sessions) /\ Cardinality(Sessions) \in Nat
  BY ActorProxyAssumption, FS_Subset, FS_CardinalityType, Sessions \subseteq Clients
     DEF Sessions

(* Sessions that leave keep the others within the limit. *)
LEMMA FewerSessions ==
  ASSUME Cardinality(Sessions) <= MaxConnections, Sessions' \subseteq Sessions
  PROVE  Cardinality(Sessions') <= MaxConnections
<1>1. Cardinality(Sessions') <= Cardinality(Sessions) /\ Cardinality(Sessions') \in Nat
  BY SessionsFinite, FS_Subset, FS_CardinalityType
<1>. QED  BY <1>1, SessionsFinite, ActorProxyAssumption

(* A session may join when there is room for it. *)
LEMMA OneMoreSession ==
  ASSUME NEW S \in SUBSET Sessions, NEW w, Cardinality(S) < MaxConnections,
         Sessions' \subseteq S \union {w}
  PROVE  Cardinality(Sessions') <= MaxConnections
<1>1. IsFiniteSet(S) /\ Cardinality(S) \in Nat
  BY SessionsFinite, FS_Subset, FS_CardinalityType
<1>2. IsFiniteSet(S \union {w}) /\ Cardinality(S \union {w}) <= Cardinality(S) + 1
  BY <1>1, FS_AddElement
<1>3. /\ Cardinality(Sessions') <= Cardinality(S \union {w})
      /\ Cardinality(Sessions') \in Nat /\ Cardinality(S \union {w}) \in Nat
  BY <1>2, FS_Subset, FS_CardinalityType
<1>. QED  BY <1>1, <1>2, <1>3, ActorProxyAssumption

(* Steps that admit and retire nobody keep the invariant. *)
LEMMA UninvolvedStep ==
  ASSUME Limited, Uninvolved, AdmissionType', EndsOnce'
  PROVE  Limited'
<1>1. Sessions' = Sessions
  BY DEF Uninvolved, Sessions
<1>2. AdmissionSound'
  BY <1>1 DEF Limited, AdmissionSound, Uninvolved
<1>3. Replaceable'
  <2>. SUFFICES ASSUME replacement # NoReplacement
                PROVE  Leaving(replacement.retiring)'
    BY DEF Replaceable, Uninvolved
  <2>1. replacement.retiring \in Clients /\ Leaving(replacement.retiring)
    BY DEF Limited, AdmissionType, Replaceable
  <2>2. replacement' = replacement
    BY DEF Uninvolved
  <2>. QED  BY <2>1, <2>2 DEF Leaving, Uninvolved
<1>. QED  BY <1>2, <1>3 DEF Limited

-----------------------------------------------------------------------------
(* The initial state has no sessions. *)
LEMMA LimitedInit == Init => Limited
<1>. SUFFICES ASSUME Init PROVE Limited
  OBVIOUS
<1>1. Sessions = {}
  BY DEF Init, Sessions
<1>2. AdmissionSound
  BY <1>1, FS_EmptySet, ActorProxyAssumption DEF AdmissionSound, Init
<1>3. AdmissionType /\ Replaceable /\ EndsOnce
  BY DEF Init, AdmissionType, Replaceable, EndsOnce, Places, Socket
<1>. QED  BY <1>2, <1>3 DEF Limited

-----------------------------------------------------------------------------
(***************************************************************************)
(* Steps that admit and retire nobody.                                     *)
(***************************************************************************)

LEMMA StartupLimited ==
  ASSUME Limited, NEW c \in Clients, Startup(c)
  PROVE  Limited'
<1>1. Uninvolved
  BY DEF Limited, AdmissionType, Uninvolved, Startup, Receives, Socket
<1>2. AdmissionType'
  BY DEF Limited, AdmissionType, Startup, Receives, Socket
<1>3. EndsOnce'
  BY DEF Limited, AdmissionType, EndsOnce, Started, Startup, Receives, Socket
<1>. QED  BY <1>1, <1>2, <1>3, UninvolvedStep

LEMMA CancelSettlesLimited ==
  ASSUME Limited, NEW c \in Clients, CancelSettles(c)
  PROVE  Limited'
<1>1. Uninvolved
  BY DEF Limited, AdmissionType, Uninvolved, CancelSettles, Socket
<1>2. AdmissionType'
  BY DEF Limited, AdmissionType, CancelSettles, Socket
<1>3. EndsOnce'
  BY DEF Limited, AdmissionType, EndsOnce, Started, CancelSettles, Socket
<1>. QED  BY <1>1, <1>2, <1>3, UninvolvedStep

LEMMA BeginCycleLimited ==
  ASSUME Limited, NEW c \in Clients, BeginCycle(c)
  PROVE  Limited'
<1>1. Uninvolved
  BY DEF Limited, AdmissionType, Uninvolved, BeginCycle, Fail, FailsWhen, Socket
<1>2. AdmissionType'
  BY DEF Limited, AdmissionType, BeginCycle, Fail, FailsWhen, Socket
<1>3. EndsOnce'
  BY DEF Limited, AdmissionType, EndsOnce, Started, BeginCycle, Fail, FailsWhen, Socket
<1>. QED  BY <1>1, <1>2, <1>3, UninvolvedStep

LEMMA EndCycleLimited ==
  ASSUME Limited, NEW c \in Clients, NEW kind, EndCycle(c, kind)
  PROVE  Limited'
<1>1. Uninvolved
  BY DEF Limited, AdmissionType, Uninvolved, EndCycle, Fail, FailsWhen, Socket
<1>2. AdmissionType'
  BY DEF Limited, AdmissionType, EndCycle, Fail, FailsWhen, Socket
<1>3. EndsOnce'
  BY DEF Limited, AdmissionType, EndsOnce, Started, EndCycle, Fail, FailsWhen, Socket
<1>. QED  BY <1>1, <1>2, <1>3, UninvolvedStep

LEMMA TerminateLimited ==
  ASSUME Limited, NEW c \in Clients, Terminate(c)
  PROVE  Limited'
<1>1. Uninvolved
  BY DEF Limited, AdmissionType, Uninvolved, Terminate, Fail, FailsWhen, Socket
<1>2. AdmissionType'
  BY DEF Limited, AdmissionType, Terminate, Fail, FailsWhen, Socket
<1>3. EndsOnce'
  BY DEF Limited, AdmissionType, EndsOnce, Started, Terminate, Fail, FailsWhen, Socket
<1>. QED  BY <1>1, <1>2, <1>3, UninvolvedStep

LEMMA UnsupportedLimited ==
  ASSUME Limited, NEW c \in Clients, Unsupported(c)
  PROVE  Limited'
<1>1. Uninvolved
  BY DEF Limited, AdmissionType, Uninvolved, Unsupported, Fail, FailsWhen, Socket
<1>2. AdmissionType'
  BY DEF Limited, AdmissionType, Unsupported, Fail, FailsWhen, Socket
<1>3. EndsOnce'
  BY DEF Limited, AdmissionType, EndsOnce, Started, Unsupported, Fail, FailsWhen, Socket
<1>. QED  BY <1>1, <1>2, <1>3, UninvolvedStep

LEMMA ReleaseLimited ==
  ASSUME Limited, NEW c \in Clients, Release(c)
  PROVE  Limited'
<1>1. Uninvolved
  BY DEF Limited, AdmissionType, Uninvolved, Release, Socket
<1>2. AdmissionType'
  BY DEF Limited, AdmissionType, Release, Socket
<1>3. EndsOnce'
  BY DEF Limited, AdmissionType, EndsOnce, Started, Release, Socket
<1>. QED  BY <1>1, <1>2, <1>3, UninvolvedStep

LEMMA ConnectedLimited ==
  ASSUME Limited, NEW c \in Clients, Connected(c)
  PROVE  Limited'
<1>1. Uninvolved
  BY DEF Limited, AdmissionType, Uninvolved, Connected, Socket
<1>2. AdmissionType'
  BY DEF Limited, AdmissionType, Connected, Socket
<1>3. EndsOnce'
  BY DEF Limited, AdmissionType, EndsOnce, Started, Connected, Socket
<1>. QED  BY <1>1, <1>2, <1>3, UninvolvedStep

LEMMA ServerErrorLimited ==
  ASSUME Limited, NEW c \in Clients, ServerError(c)
  PROVE  Limited'
<1>1. Uninvolved
  BY DEF Limited, AdmissionType, Uninvolved, ServerError, Socket
<1>2. AdmissionType'
  BY DEF Limited, AdmissionType, ServerError, Socket
<1>3. EndsOnce'
  BY DEF Limited, AdmissionType, EndsOnce, Started, ServerError, Socket
<1>. QED  BY <1>1, <1>2, <1>3, UninvolvedStep

LEMMA CompletesLimited ==
  ASSUME Limited, NEW c \in Clients, Completes(c)
  PROVE  Limited'
<1>1. Uninvolved
  BY DEF Limited, AdmissionType, Uninvolved, Completes, Socket
<1>2. AdmissionType'
  BY DEF Limited, AdmissionType, Completes, Socket
<1>3. EndsOnce'
  BY DEF Limited, AdmissionType, EndsOnce, Started, Completes, Socket
<1>. QED  BY <1>1, <1>2, <1>3, UninvolvedStep

LEMMA ClientEndLimited ==
  ASSUME Limited, NEW c \in Clients, ClientEnd(c)
  PROVE  Limited'
<1>1. Uninvolved
  BY DEF Limited, AdmissionType, Uninvolved, ClientEnd, FailsWhen, Receives, Socket
<1>2. AdmissionType'
  BY DEF Limited, AdmissionType, ClientEnd, FailsWhen, Receives, Socket
<1>3. EndsOnce'
  BY DEF Limited, AdmissionType, EndsOnce, Started, ClientEnd, FailsWhen, Receives, Socket
<1>. QED  BY <1>1, <1>2, <1>3, UninvolvedStep

LEMMA ClientErrorLimited ==
  ASSUME Limited, NEW c \in Clients, ClientError(c)
  PROVE  Limited'
<1>1. Uninvolved
  BY DEF Limited, AdmissionType, Uninvolved, ClientError, FailsWhen, Receives, Socket
<1>2. AdmissionType'
  BY DEF Limited, AdmissionType, ClientError, FailsWhen, Receives, Socket
<1>3. EndsOnce'
  BY DEF Limited, AdmissionType, EndsOnce, Started, ClientError, FailsWhen, Receives, Socket
<1>. QED  BY <1>1, <1>2, <1>3, UninvolvedStep

LEMMA UpstreamEndLimited ==
  ASSUME Limited, NEW c \in Clients, UpstreamEnd(c)
  PROVE  Limited'
<1>1. Uninvolved
  BY DEF Limited, AdmissionType, Uninvolved, UpstreamEnd, FailsWhen, Ending, Socket
<1>2. AdmissionType'
  BY DEF Limited, AdmissionType, UpstreamEnd, FailsWhen, Ending, Socket
<1>3. EndsOnce'
  BY DEF Limited, AdmissionType, EndsOnce, Started, UpstreamEnd, FailsWhen, Ending, Socket
<1>. QED  BY <1>1, <1>2, <1>3, UninvolvedStep

LEMMA UpstreamErrorLimited ==
  ASSUME Limited, NEW c \in Clients, UpstreamError(c)
  PROVE  Limited'
<1>1. Uninvolved
  BY DEF Limited, AdmissionType, Uninvolved, UpstreamError, FailsWhen, Socket
<1>2. AdmissionType'
  BY DEF Limited, AdmissionType, UpstreamError, FailsWhen, Socket
<1>3. EndsOnce'
  BY DEF Limited, AdmissionType, EndsOnce, Started, UpstreamError, FailsWhen, Socket
<1>. QED  BY <1>1, <1>2, <1>3, UninvolvedStep

LEMMA FailTimerLimited ==
  ASSUME Limited, NEW c \in Clients, FailTimer(c)
  PROVE  Limited'
<1>1. Uninvolved
  BY DEF Limited, AdmissionType, Uninvolved, FailTimer, Destroyed, Socket
<1>2. AdmissionType'
  BY DEF Limited, AdmissionType, FailTimer, Destroyed, Socket
<1>3. EndsOnce'
  BY DEF Limited, AdmissionType, EndsOnce, Started, FailTimer, Destroyed, Socket
<1>. QED  BY <1>1, <1>2, <1>3, UninvolvedStep

-----------------------------------------------------------------------------
(***************************************************************************)
(* Admission and retirement.                                               *)
(***************************************************************************)
LEMMA ConnectLimited ==
  ASSUME Limited, NEW c \in Clients, Connect(c)
  PROVE  Limited'
<1>. USE DEF Limited, AdmissionType, Connect
<1>1. AdmissionType'
  BY DEF Places, NoReplacement, Sessions, AcceptedAt
<1>2. EndsOnce'
  BY DEF EndsOnce, Started
<1>3. Replaceable'
  BY DEF Replaceable, Leaving, IsTerminating, NoReplacement, Sessions
<1>4. Cardinality(Sessions') <= MaxConnections
  <2>1. CASE AcceptedAt(c) /\ HasRoom
    <3>1. Sessions' \subseteq Sessions \union {c}
      BY <2>1 DEF AcceptedAt, Sessions
    <3>. QED  BY <2>1, <3>1, OneMoreSession DEF HasRoom
  <2>2. CASE ~(AcceptedAt(c) /\ HasRoom)
    <3>1. Sessions' \subseteq Sessions
      BY <2>2 DEF Sessions
    <3>. QED  BY <3>1, FewerSessions DEF AdmissionSound
  <2>. QED  BY <2>1, <2>2
<1>5. (replacement # NoReplacement =>
         place[replacement.client] = "waiting" /\ replacement.retiring \in Sessions)'
  BY DEF AdmissionSound, Sessions, NoReplacement, AcceptedAt
<1>. QED  BY <1>1, <1>2, <1>3, <1>4, <1>5 DEF AdmissionSound

(* A connection that is not a session leaves, or a waiting one gives up. *)
LEMMA LeaveLimited ==
  ASSUME Limited, NEW c \in Clients, Abandon(c) \/ Refuse(c) \/ RefusedCancelPacket(c)
  PROVE  Limited'
<1>. USE DEF Limited, AdmissionType, Abandon, Refuse, RefusedCancelPacket
<1>1. AdmissionType'
  BY DEF Places
<1>2. EndsOnce' /\ Replaceable'
  BY DEF EndsOnce, Started, Replaceable, Leaving
<1>3. Sessions' = Sessions
  BY DEF Sessions
<1>. QED  BY <1>1, <1>2, <1>3 DEF AdmissionSound

(* A session that turns out to carry a cancel request is not one that      *)
(* another connection waits for.                                           *)
LEMMA CancelPacketLimited ==
  ASSUME Limited, NEW c \in Clients, CancelPacket(c)
  PROVE  Limited'
<1>. USE DEF Limited, AdmissionType, CancelPacket
<1>1. AdmissionType' /\ EndsOnce' /\ Replaceable'
  BY DEF Places, EndsOnce, Started, Replaceable, Leaving
<1>2. Sessions' = Sessions \ {c}
  BY DEF Sessions, Receives
<1>3. ~Leaving(c)
  BY DEF EndsOnce, Leaving, Receives, Listens, Started
<1>4. Cardinality(Sessions') <= MaxConnections
  BY <1>2, FewerSessions DEF AdmissionSound
<1>5. replacement # NoReplacement =>
        place'[replacement.client] = "waiting" /\ replacement.retiring \in Sessions'
  BY <1>2, <1>3 DEF AdmissionSound, Replaceable, Receives
<1>. QED  BY <1>1, <1>4, <1>5 DEF AdmissionSound

(* When a session retires the connection that waited for it is admitted in *)
(* its place or turned away; a session that retires for nobody leaves the  *)
(* replacement alone.                                                      *)
LEMMA RetireLimited ==
  ASSUME Limited, NEW c \in Sessions, Retire(c), AdmissionType', EndsOnce',
         failed \subseteq failed', terminated' = terminated, frontendEnded' = frontendEnded,
         \A d \in Clients : client[d] = "closed" => client'[d] = "closed"
  PROVE  Limited'
<1>. USE DEF Limited, AdmissionType
<1>. DEFINE waiter == replacement.client
            admit  == replacement # NoReplacement /\ replacement.retiring = c
            room   == Cardinality(Sessions \ {c}) < MaxConnections
<1>1. CASE admit
  <2>1. replacement' = NoReplacement
    BY <1>1 DEF Retire
  <2>2. waiter \in Clients /\ place[waiter] = "waiting" /\ waiter # c /\ place[c] = "session"
    BY <1>1 DEF AdmissionSound, Sessions
  <2>3. Cardinality(Sessions') <= MaxConnections
    <3>1. CASE closing \/ ~room
      <4>1. Sessions' \subseteq Sessions
        BY <1>1, <2>2, <3>1 DEF Retire, Sessions
      <4>. QED  BY <4>1, FewerSessions DEF AdmissionSound
    <3>2. CASE ~closing /\ room
      <4>1. Sessions' \subseteq (Sessions \ {c}) \union {waiter}
        BY <1>1, <2>2, <3>2 DEF Retire, Sessions
      <4>. QED  BY <3>2, <4>1, OneMoreSession
    <3>. QED  BY <3>1, <3>2
  <2>. QED  BY <2>1, <2>3 DEF AdmissionSound, Replaceable
<1>2. CASE ~admit
  <2>1. replacement' = replacement /\ place' = [place EXCEPT ![c] = "gone"]
    BY <1>2 DEF Retire, Sessions
  <2>2. Sessions' = Sessions \ {c}
    BY <2>1 DEF Sessions
  <2>3. Cardinality(Sessions') <= MaxConnections
    BY <2>2, FewerSessions DEF AdmissionSound
  <2>4. replacement # NoReplacement =>
          place'[replacement.client] = "waiting" /\ replacement.retiring \in Sessions'
    BY <1>2, <2>1, <2>2 DEF AdmissionSound, Sessions
  <2>5. Replaceable'
    <3>. SUFFICES ASSUME replacement # NoReplacement
                  PROVE  Leaving(replacement.retiring)'
      BY <2>1 DEF Replaceable
    <3>. QED  BY <2>1 DEF Replaceable, Leaving
  <2>. QED  BY <2>1, <2>3, <2>4, <2>5 DEF AdmissionSound
<1>. QED  BY <1>1, <1>2

LEMMA ClientCloseLimited ==
  ASSUME Limited, NEW c \in Clients, ClientClose(c)
  PROVE  Limited'
<1>. USE DEF Limited, AdmissionType, ClientClose
<1>1. AdmissionType'
  BY DEF RetireWhen, Retire, Socket, Places, NoReplacement
<1>2. EndsOnce'
  BY DEF EndsOnce, Started
<1>3. failed \subseteq failed' /\ \A d \in Clients : client[d] = "closed" => client'[d] = "closed"
  BY DEF FailsWhen
<1>4. CASE upstream[c] = "closed"
  BY <1>1, <1>2, <1>3, <1>4, RetireLimited DEF RetireWhen, Sessions
<1>5. CASE upstream[c] # "closed"
  BY <1>1, <1>2, <1>3, <1>5, UninvolvedStep DEF RetireWhen, Uninvolved
<1>. QED  BY <1>4, <1>5

LEMMA UpstreamCloseLimited ==
  ASSUME Limited, NEW c \in Clients, UpstreamClose(c)
  PROVE  Limited'
<1>. USE DEF Limited, AdmissionType, UpstreamClose
<1>1. AdmissionType'
  BY DEF RetireWhen, Retire, Socket, Places, NoReplacement
<1>2. EndsOnce'
  BY DEF EndsOnce, Started
<1>3. failed \subseteq failed' /\ \A d \in Clients : client[d] = "closed" => client'[d] = "closed"
  BY DEF FailsWhen
<1>4. CASE client[c] = "closed"
  BY <1>1, <1>2, <1>3, <1>4, RetireLimited DEF RetireWhen, Sessions
<1>5. CASE client[c] # "closed"
  BY <1>1, <1>2, <1>3, <1>5, UninvolvedStep DEF RetireWhen, Uninvolved
<1>. QED  BY <1>4, <1>5

(* close() and its timer admit nobody. *)
LEMMA CloseLimited ==
  ASSUME Limited, Close
  PROVE  Limited'
<1>. USE DEF Limited, AdmissionType, Close
<1>1. AdmissionType' /\ EndsOnce' /\ Replaceable'
  BY DEF Places, EndsOnce, Started, Replaceable
<1>2. Sessions' \subseteq Sessions
  BY DEF Sessions
<1>. QED  BY <1>1, <1>2, FewerSessions DEF AdmissionSound

LEMMA CloseTimerLimited ==
  ASSUME Limited, CloseTimer
  PROVE  Limited'
<1>. USE DEF Limited, AdmissionType, CloseTimer
<1>1. AdmissionType'
  BY DEF Places, Destroyed, Socket
<1>2. EndsOnce'
  BY DEF EndsOnce, Started, Destroyed
<1>3. Replaceable'
  BY DEF Replaceable, Leaving, Destroyed, NoReplacement
<1>4. Sessions' = Sessions
  BY DEF Sessions
<1>5. replacement # NoReplacement => place'[replacement.client] = "waiting"
  BY DEF AdmissionSound
<1>. QED  BY <1>1, <1>2, <1>3, <1>4, <1>5 DEF AdmissionSound

-----------------------------------------------------------------------------
(* Every step keeps the connection limit. *)
LEMMA LimitedStep == Limited /\ [Next]_vars => Limited'
<1>. SUFFICES ASSUME Limited, [Next]_vars PROVE Limited'
  OBVIOUS
<1>1. ASSUME NEW c \in Clients, Connect(c) PROVE Limited'  BY <1>1, ConnectLimited
<1>2. ASSUME NEW c \in Clients, Abandon(c) \/ Refuse(c) \/ RefusedCancelPacket(c)
      PROVE Limited'  BY <1>2, LeaveLimited
<1>3. ASSUME NEW c \in Clients, CancelPacket(c) PROVE Limited'  BY <1>3, CancelPacketLimited
<1>4. ASSUME NEW c \in Clients, ClientClose(c) PROVE Limited'  BY <1>4, ClientCloseLimited
<1>5. ASSUME NEW c \in Clients, UpstreamClose(c) PROVE Limited'  BY <1>5, UpstreamCloseLimited
<1>6. CASE Close  BY <1>6, CloseLimited
<1>7. CASE CloseTimer  BY <1>7, CloseTimerLimited
<1>8. ASSUME NEW c \in Clients, \E kind \in {"cycle", "describe", "flush"} : EndCycle(c, kind)
      PROVE Limited'  BY <1>8, EndCycleLimited
<1>9. ASSUME NEW c \in Clients,
             \/ Startup(c) \/ CancelSettles(c) \/ BeginCycle(c) \/ Terminate(c)
             \/ Unsupported(c) \/ Release(c) \/ Connected(c) \/ ServerError(c)
      PROVE Limited'
  BY <1>9, StartupLimited, CancelSettlesLimited, BeginCycleLimited, TerminateLimited,
     UnsupportedLimited, ReleaseLimited, ConnectedLimited, ServerErrorLimited
<1>10. ASSUME NEW c \in Clients,
              \/ Completes(c) \/ ClientEnd(c) \/ ClientError(c) \/ UpstreamEnd(c)
              \/ UpstreamError(c) \/ FailTimer(c)
       PROVE Limited'
  BY <1>10, CompletesLimited, ClientEndLimited, ClientErrorLimited, UpstreamEndLimited,
     UpstreamErrorLimited, FailTimerLimited
<1>11. CASE UNCHANGED vars
  <2>1. Uninvolved /\ AdmissionType' /\ EndsOnce'
    BY <1>11 DEF vars, Limited, Uninvolved, AdmissionType, EndsOnce, Started
  <2>. QED  BY <2>1, UninvolvedStep
<1>. QED
  BY <1>1, <1>2, <1>3, <1>4, <1>5, <1>6, <1>7, <1>8, <1>9, <1>10, <1>11
     DEF Next, Application, Postgres, Done

(* An actor never has more sessions than maxConnectionsPerActor, and a     *)
(* connection that waits for one to retire waits for a session that exists *)
(* (proxy.ts:143-192, 471-478).                                            *)
THEOREM ConnectionLimit == Spec => []AdmissionSound
<1>1. Limited => AdmissionSound
  BY DEF Limited
<1>. QED  BY LimitedInit, LimitedStep, <1>1, PTL DEF Spec

-----------------------------------------------------------------------------
(***************************************************************************)
(* One producer of commands.                                               *)
(***************************************************************************)
WorkType ==
  /\ queue \in [Clients -> Seq(Kinds)]
  /\ prefix \in [Clients -> {"none", "open", "complete", "failed"}]
  /\ inFlight \in [Clients -> Kinds \union {"none"}]

AnnouncedQueued == \A c \in Clients : c \in announced => queue[c] # <<>>

(* The invariant behind OneProducer: a release finds the unit that was     *)
(* announced still queued, so it gives no session work it did not have.    *)
Produced ==
  WorkType /\ OneProducer /\ AnnouncedQueued

(* A step that gives no session work it did not have, and takes ownership  *)
(* from no session that has some.                                          *)
NoNewWork ==
  \A d \in Clients :
    (Listens(d) /\ Unfinished(d))' => Listens(d) /\ Unfinished(d) /\ (owner = d => owner' = d)

LEMMA NoNewWorkStep ==
  ASSUME Produced, NoNewWork, WorkType', AnnouncedQueued'
  PROVE  Produced'
  BY DEF Produced, NoNewWork, OneProducer, AnnouncedQueued

LEMMA ProducedInit == Init => Produced
  BY DEF Init, Produced, AnnouncedQueued, WorkType, OneProducer, Unfinished, Busy,
     OpenWork, Listens

(* Dropping work keeps its type. *)
LEMMA DropType ==
  ASSUME WorkType, NEW S, Drop(S)
  PROVE  WorkType'
<1>1. queue' \in [Clients -> Seq(Kinds)]
  <2>1. <<>> \in Seq(Kinds)
    OBVIOUS
  <2>. QED  BY <2>1 DEF WorkType, Drop
<1>. QED  BY <1>1 DEF WorkType, Drop

LEMMA FailsWhenType ==
  ASSUME WorkType, NEW c, NEW condition, FailsWhen(c, condition)
  PROVE  WorkType'
<1>1. CASE condition /\ Listens(c)  BY <1>1, DropType DEF FailsWhen
<1>2. CASE ~(condition /\ Listens(c))  BY <1>2 DEF FailsWhen, WorkType
<1>. QED  BY <1>1, <1>2

(* Steps that touch no work at all. *)
LEMMA IdleProduced ==
  ASSUME Produced, UNCHANGED <<owner, over, partial, work>>
  PROVE  Produced'
<1>1. NoNewWork /\ WorkType' /\ AnnouncedQueued'
  BY DEF Produced, NoNewWork, WorkType, AnnouncedQueued, Listens, Unfinished, Busy, OpenWork
<1>. QED  BY <1>1, NoNewWorkStep

LEMMA TerminateProduced ==
  ASSUME Produced, NEW c \in Clients, Terminate(c)
  PROVE  Produced'
<1>1. NoNewWork
  BY DEF Produced, WorkType, AnnouncedQueued, NoNewWork, Unfinished, Busy, OpenWork,
     Listens, Terminate, Fail, FailsWhen, Drop
<1>2. WorkType'
  BY FailsWhenType DEF Produced, WorkType, Terminate, Fail
<1>3. AnnouncedQueued'
  BY DEF Produced, WorkType, AnnouncedQueued, Terminate, Fail, FailsWhen, Drop
<1>. QED  BY <1>1, <1>2, <1>3, NoNewWorkStep

LEMMA ReleaseProduced ==
  ASSUME Produced, NEW c \in Clients, Release(c)
  PROVE  Produced'
<1>1. NoNewWork
  BY DEF Produced, WorkType, AnnouncedQueued, NoNewWork, Unfinished, Busy, OpenWork,
     Listens, Release
<1>2. WorkType'
  <2>1. CASE queue' = queue /\ prefix' = prefix /\ inFlight' = inFlight
    BY <2>1 DEF Produced, WorkType
  <2>2. CASE c \in announced
    <3>1. queue[c] \in Seq(Kinds) /\ queue[c] # <<>>
      BY <2>2 DEF Produced, WorkType, AnnouncedQueued
    <3>2. Tail(queue[c]) \in Seq(Kinds) /\ queue[c][1] \in Kinds
      BY <3>1
    <3>3. queue' \in [Clients -> Seq(Kinds)]
      BY <3>2 DEF Produced, WorkType, Release
    <3>4. prefix' \in [Clients -> {"none", "open", "complete", "failed"}]
      BY DEF Produced, WorkType, Release
    <3>5. inFlight' \in [Clients -> Kinds \union {"none"}]
      BY <3>2 DEF Produced, WorkType, Release
    <3>. QED  BY <3>3, <3>4, <3>5 DEF WorkType
  <2>. QED  BY <2>1, <2>2 DEF Release
<1>3. AnnouncedQueued'
  BY DEF Produced, WorkType, AnnouncedQueued, Release
<1>. QED  BY <1>1, <1>2, <1>3, NoNewWorkStep

LEMMA ConnectedProduced ==
  ASSUME Produced, NEW c \in Clients, Connected(c)
  PROVE  Produced'
<1>1. NoNewWork
  BY DEF Produced, WorkType, AnnouncedQueued, NoNewWork, Unfinished, Busy, OpenWork,
     Listens, Connected, Announces
<1>2. WorkType'
  BY DEF Produced, WorkType, Connected, Announces
<1>3. AnnouncedQueued'
  BY DEF Produced, WorkType, AnnouncedQueued, Connected, Announces
<1>. QED  BY <1>1, <1>2, <1>3, NoNewWorkStep

LEMMA ServerErrorProduced ==
  ASSUME Produced, NEW c \in Clients, ServerError(c)
  PROVE  Produced'
<1>1. NoNewWork
  BY DEF Produced, WorkType, AnnouncedQueued, NoNewWork, Unfinished, Busy, OpenWork,
     Listens, ServerError
<1>2. WorkType'
  BY DEF Produced, WorkType, ServerError
<1>3. AnnouncedQueued'
  BY DEF Produced, WorkType, AnnouncedQueued, ServerError
<1>. QED  BY <1>1, <1>2, <1>3, NoNewWorkStep

LEMMA CompletesProduced ==
  ASSUME Produced, NEW c \in Clients, Completes(c)
  PROVE  Produced'
<1>1. NoNewWork
  BY DEF Produced, WorkType, AnnouncedQueued, NoNewWork, Unfinished, Busy, OpenWork,
     Listens, Completes, Announces
<1>2. WorkType'
  BY DEF Produced, WorkType, Completes, Announces
<1>3. AnnouncedQueued'
  BY DEF Produced, WorkType, AnnouncedQueued, Completes, Announces
<1>. QED  BY <1>1, <1>2, <1>3, NoNewWorkStep

LEMMA ClientEndProduced ==
  ASSUME Produced, NEW c \in Clients, ClientEnd(c)
  PROVE  Produced'
<1>1. NoNewWork
  BY DEF Produced, WorkType, AnnouncedQueued, NoNewWork, Unfinished, Busy, OpenWork,
     Listens, ClientEnd, FailsWhen, Drop
<1>2. WorkType'
  BY FailsWhenType DEF Produced, ClientEnd
<1>3. AnnouncedQueued'
  BY DEF Produced, WorkType, AnnouncedQueued, ClientEnd, FailsWhen, Drop
<1>. QED  BY <1>1, <1>2, <1>3, NoNewWorkStep

LEMMA ClientErrorProduced ==
  ASSUME Produced, NEW c \in Clients, ClientError(c)
  PROVE  Produced'
<1>1. NoNewWork
  BY DEF Produced, WorkType, AnnouncedQueued, NoNewWork, Unfinished, Busy, OpenWork,
     Listens, ClientError, FailsWhen, Drop
<1>2. WorkType'
  BY FailsWhenType DEF Produced, ClientError
<1>3. AnnouncedQueued'
  BY DEF Produced, WorkType, AnnouncedQueued, ClientError, FailsWhen, Drop
<1>. QED  BY <1>1, <1>2, <1>3, NoNewWorkStep

LEMMA ClientCloseProduced ==
  ASSUME Produced, NEW c \in Clients, ClientClose(c)
  PROVE  Produced'
<1>1. NoNewWork
  BY DEF Produced, WorkType, AnnouncedQueued, NoNewWork, Unfinished, Busy, OpenWork,
     Listens, ClientClose, FailsWhen, Drop, RetireWhen, Retire
<1>2. WorkType'
  BY FailsWhenType DEF Produced, ClientClose
<1>3. AnnouncedQueued'
  BY DEF Produced, WorkType, AnnouncedQueued, ClientClose, FailsWhen, Drop, RetireWhen,
     Retire
<1>. QED  BY <1>1, <1>2, <1>3, NoNewWorkStep

LEMMA UpstreamEndProduced ==
  ASSUME Produced, NEW c \in Clients, UpstreamEnd(c)
  PROVE  Produced'
<1>1. NoNewWork
  BY DEF Produced, WorkType, AnnouncedQueued, NoNewWork, Unfinished, Busy, OpenWork,
     Listens, UpstreamEnd, FailsWhen, Drop
<1>2. WorkType'
  BY FailsWhenType DEF Produced, UpstreamEnd
<1>3. AnnouncedQueued'
  BY DEF Produced, WorkType, AnnouncedQueued, UpstreamEnd, FailsWhen, Drop
<1>. QED  BY <1>1, <1>2, <1>3, NoNewWorkStep

LEMMA UpstreamErrorProduced ==
  ASSUME Produced, NEW c \in Clients, UpstreamError(c)
  PROVE  Produced'
<1>1. NoNewWork
  BY DEF Produced, WorkType, AnnouncedQueued, NoNewWork, Unfinished, Busy, OpenWork,
     Listens, UpstreamError, FailsWhen, Drop
<1>2. WorkType'
  BY FailsWhenType DEF Produced, UpstreamError
<1>3. AnnouncedQueued'
  BY DEF Produced, WorkType, AnnouncedQueued, UpstreamError, FailsWhen, Drop
<1>. QED  BY <1>1, <1>2, <1>3, NoNewWorkStep

LEMMA UpstreamCloseProduced ==
  ASSUME Produced, NEW c \in Clients, UpstreamClose(c)
  PROVE  Produced'
<1>1. NoNewWork
  BY DEF Produced, WorkType, AnnouncedQueued, NoNewWork, Unfinished, Busy, OpenWork,
     Listens, UpstreamClose, FailsWhen, Drop, RetireWhen, Retire
<1>2. WorkType'
  BY FailsWhenType DEF Produced, UpstreamClose
<1>3. AnnouncedQueued'
  BY DEF Produced, WorkType, AnnouncedQueued, UpstreamClose, FailsWhen, Drop,
     RetireWhen, Retire
<1>. QED  BY <1>1, <1>2, <1>3, NoNewWorkStep

LEMMA FailTimerProduced ==
  ASSUME Produced, NEW c \in Clients, FailTimer(c)
  PROVE  Produced'
<1>1. NoNewWork
  BY DEF Produced, WorkType, AnnouncedQueued, NoNewWork, Unfinished, Busy, OpenWork,
     Listens, FailTimer, Drop
<1>2. WorkType'
  BY DEF Produced, WorkType, FailTimer, Drop
<1>3. AnnouncedQueued'
  BY DEF Produced, WorkType, AnnouncedQueued, FailTimer, Drop
<1>. QED  BY <1>1, <1>2, <1>3, NoNewWorkStep

LEMMA CloseProduced ==
  ASSUME Produced, Close
  PROVE  Produced'
<1>1. NoNewWork
  BY DEF Produced, WorkType, AnnouncedQueued, NoNewWork, Unfinished, Busy, OpenWork,
     Listens, Close, Drop
<1>2. WorkType'
  BY DEF Produced, WorkType, Close, Drop
<1>3. AnnouncedQueued'
  BY DEF Produced, WorkType, AnnouncedQueued, Close, Drop
<1>. QED  BY <1>1, <1>2, <1>3, NoNewWorkStep

LEMMA BeginCycleProduced ==
  ASSUME Produced, NEW c \in Clients, BeginCycle(c)
  PROVE  Produced'
<1>1. WorkType'
  BY FailsWhenType DEF Produced, WorkType, BeginCycle, Fail
<1>0. AnnouncedQueued'
  BY DEF Produced, WorkType, AnnouncedQueued, BeginCycle, Fail, FailsWhen, Drop
<1>2. ASSUME ~Multi, NEW d \in Clients, (Listens(d) /\ Unfinished(d))'
      PROVE  owner' = d
  <2>1. CASE d = c
    BY <1>2, <2>1 DEF Produced, WorkType, Listens, BeginCycle, AcceptsCommand, Fail,
       FailsWhen
  <2>2. CASE d # c
    <3>1. Listens(d) /\ Unfinished(d) /\ owner = d
      BY <1>2, <2>2 DEF Produced, WorkType, OneProducer, Unfinished, Busy, OpenWork,
         Listens, BeginCycle,
         Fail, FailsWhen, Drop
    <3>. QED  BY <1>2, <2>2, <3>1, ActorProxyAssumption DEF BeginCycle, AcceptsCommand
  <2>. QED  BY <2>1, <2>2
<1>. QED  BY <1>0, <1>1, <1>2 DEF Produced, OneProducer

LEMMA EndCycleProduced ==
  ASSUME Produced, NEW c \in Clients, NEW kind, EndCycle(c, kind)
  PROVE  Produced'
<1>1. WorkType'
  <2>1. CASE ~AcceptsCommand(c)
    BY <2>1, FailsWhenType DEF Produced, EndCycle, Fail
  <2>2. CASE AcceptsCommand(c)
    <3>1. Append(queue[c], kind) \in Seq(Kinds)
      BY DEF Produced, WorkType, EndCycle
    <3>2. queue' = [queue EXCEPT ![c] = Append(queue[c], kind)]
      BY <2>2 DEF EndCycle
    <3>. QED  BY <2>2, <3>1, <3>2 DEF Produced, WorkType, EndCycle
  <2>. QED  BY <2>1, <2>2
<1>0. AnnouncedQueued'
  BY DEF Produced, WorkType, AnnouncedQueued, EndCycle, Fail, FailsWhen, Drop
<1>2. ASSUME ~Multi, NEW d \in Clients, (Listens(d) /\ Unfinished(d))'
      PROVE  owner' = d
  <2>1. CASE d = c
    BY <1>2, <2>1 DEF Produced, WorkType, Listens, EndCycle, AcceptsCommand, Fail, FailsWhen
  <2>2. CASE d # c
    <3>1. Listens(d) /\ Unfinished(d) /\ owner = d
      BY <1>2, <2>2 DEF Produced, WorkType, OneProducer, Unfinished, Busy, OpenWork,
         Listens, EndCycle,
         Fail, FailsWhen, Drop
    <3>. QED  BY <1>2, <2>2, <3>1, ActorProxyAssumption DEF EndCycle, AcceptsCommand
  <2>. QED  BY <2>1, <2>2
<1>. QED  BY <1>0, <1>1, <1>2 DEF Produced, OneProducer

LEMMA UnsupportedProduced ==
  ASSUME Produced, NEW c \in Clients, Unsupported(c)
  PROVE  Produced'
<1>1. WorkType'
  BY FailsWhenType DEF Produced, WorkType, Unsupported, Fail
<1>0. AnnouncedQueued'
  BY DEF Produced, WorkType, AnnouncedQueued, Unsupported, Fail, FailsWhen, Drop
<1>2. ASSUME ~Multi, NEW d \in Clients, (Listens(d) /\ Unfinished(d))'
      PROVE  owner' = d
  <2>1. CASE d = c
    BY <1>2, <2>1 DEF Produced, WorkType, Listens, Unsupported, AcceptsCommand, Fail,
       FailsWhen
  <2>2. CASE d # c
    <3>1. Listens(d) /\ Unfinished(d) /\ owner = d
      BY <1>2, <2>2 DEF Produced, WorkType, OneProducer, Unfinished, Busy, OpenWork,
         Listens, Unsupported,
         Fail, FailsWhen, Drop
    <3>. QED  BY <1>2, <2>2, <3>1, ActorProxyAssumption DEF Unsupported, AcceptsCommand
  <2>. QED  BY <2>1, <2>2
<1>. QED  BY <1>0, <1>1, <1>2 DEF Produced, OneProducer

LEMMA ProducedStep == Produced /\ [Next]_vars => Produced'
<1>. SUFFICES ASSUME Produced, [Next]_vars PROVE Produced'
  OBVIOUS
<1>1. ASSUME NEW c \in Clients,
             \/ Connect(c) \/ Abandon(c) \/ Refuse(c) \/ Startup(c) \/ CancelPacket(c)
             \/ RefusedCancelPacket(c) \/ CancelSettles(c)
      PROVE Produced'
  BY <1>1, IdleProduced
     DEF Connect, Abandon, Refuse, Startup, CancelPacket, RefusedCancelPacket, CancelSettles
<1>2. ASSUME NEW c \in Clients,
             \/ BeginCycle(c) \/ Unsupported(c)
             \/ \E kind \in {"cycle", "describe", "flush"} : EndCycle(c, kind)
      PROVE Produced'
  BY <1>2, BeginCycleProduced, UnsupportedProduced, EndCycleProduced
<1>3. ASSUME NEW c \in Clients,
             \/ Terminate(c) \/ Release(c) \/ Connected(c) \/ ServerError(c) \/ Completes(c)
             \/ FailTimer(c)
      PROVE Produced'
  BY <1>3, TerminateProduced, ReleaseProduced, ConnectedProduced, ServerErrorProduced,
     CompletesProduced, FailTimerProduced
<1>4. ASSUME NEW c \in Clients,
             \/ ClientEnd(c) \/ ClientError(c) \/ ClientClose(c)
             \/ UpstreamEnd(c) \/ UpstreamError(c) \/ UpstreamClose(c)
      PROVE Produced'
  BY <1>4, ClientEndProduced, ClientErrorProduced, ClientCloseProduced, UpstreamEndProduced,
     UpstreamErrorProduced, UpstreamCloseProduced
<1>5. CASE Close \/ CloseTimer \/ Done \/ UNCHANGED vars
  BY <1>5, CloseProduced, IdleProduced DEF CloseTimer, Done, vars
<1>. QED  BY <1>1, <1>2, <1>3, <1>4, <1>5 DEF Next, Application, Postgres

(* In a single-producer actor only the owner has commands anywhere,        *)
(* whatever order the sockets of the last owner close in (proxy.ts:386).   *)
THEOREM SingleProducer == Spec => []OneProducer
<1>1. Produced => OneProducer
  BY DEF Produced
<1>. QED  BY ProducedInit, ProducedStep, <1>1, PTL DEF Spec

-----------------------------------------------------------------------------
(***************************************************************************)
(* The invariant.  All of it but the numbering concerns one session.       *)
(***************************************************************************)
(* What Limited and Produced leave of TypeOK. *)
LiveType ==
  /\ owner \in Clients \union {None} /\ closing \in BOOLEAN
  /\ upstream \in [Clients -> Socket]
  /\ ready \subseteq Clients /\ terminated \subseteq Clients /\ failed \subseteq Clients
  /\ closed \subseteq Clients /\ frontendEnded \subseteq Clients
  /\ pendingTerminate \subseteq Clients
  /\ sent \in [Clients -> 0 .. MaxUnits] /\ partial \subseteq Clients
  /\ \A c \in Clients : Len(queue[c]) <= MaxQueue
  /\ announced \subseteq Clients /\ errorSeen \subseteq Clients
  /\ route \in [Clients -> {"none", "forwarded", "acknowledged"}]
  /\ held \subseteq Clients /\ reported \in BOOLEAN

(* Lane numbers count the connections that have started. *)
Numbered ==
  /\ generation = Cardinality({c \in Clients : Started(c)})
  /\ \A c \in Clients : -1 <= number[c] /\ number[c] < generation

(* A session that has started keeps its place until both sockets are gone, *)
(* and close() closes every session.                                       *)
Placed(c) ==
  /\ Started(c) => place[c] = "session" \/ (place[c] = "gone" /\ c \in closed)
  /\ closing /\ place[c] = "session" => c \in closed
  /\ c \in terminated \union ready \union partial => Started(c)
  /\ c \in pendingTerminate => c \in terminated
  /\ route[c] # "none" => ~Started(c) /\ place[c] \in {"cancel", "gone"}

(* The unit in flight and the announced one belong to a live session, and  *)
(* a cycle is open only while its stage is in flight.                      *)
Settled(c) ==
  /\ ~Listens(c) => inFlight[c] = "none" /\ c \notin announced
  /\ c \in announced => inFlight[c] = "none" /\ c \in held /\ c \in ready
  /\ c \in held /\ Listens(c) => c \in announced
  /\ inFlight[c] # "none" => c \in ready
  /\ prefix[c] = "open" => inFlight[c] # "none"

(* What is left of a session one of whose sockets is gone or ending. *)
HalfClosed(c) ==
  Listens(c) =>
    /\ client[c] = "closed" =>
         /\ queue[c] = <<>> /\ upstream[c] # "closed"
         /\ inFlight[c] # "none" => c \in pendingTerminate
    /\ upstream[c] = "closed" => inFlight[c] = "none"
    /\ upstream[c] \in {"down", "closed"} /\ c \in ready => c \in terminated \/ client[c] = "closed"
    /\ upstream[c] = "ending" => c \in terminated \union frontendEnded

(* A unit is left with the scheduler only after an error or by close().    *)
Excused(c) ==
  /\ c \in failed => reported
  /\ c \in held /\ ~Listens(c) => reported \/ closing

(* The two properties, of one session. *)
Awake(c) ==
  c \in ready /\ Listens(c) /\ queue[c] # <<>> /\ inFlight[c] = "none"
    => c \in announced /\ c \in held

LastWord(c) ==
  c \in terminated \ (failed \union closed) =>
    /\ queue[c] = <<>> /\ c \notin partial \union held
    /\ inFlight[c] # "none" <=> c \in pendingTerminate
    /\ upstream[c] = "ending" => inFlight[c] = "none"

Lane(c) ==
  Placed(c) /\ Settled(c) /\ HalfClosed(c) /\ Excused(c) /\ Awake(c) /\ LastWord(c)

Kept == LiveType /\ Numbered /\ \A c \in Clients : Lane(c)

Known == Limited /\ Produced /\ Kept

(* A step that leaves session d alone; before it has started, its socket   *)
(* may still move.                                                         *)
Same(d) ==
  /\ number'[d] = number[d] /\ client'[d] = client[d] /\ upstream'[d] = upstream[d]
  /\ queue'[d] = queue[d] /\ prefix'[d] = prefix[d] /\ inFlight'[d] = inFlight[d]
  /\ route'[d] = route[d]
  /\ d \in ready' <=> d \in ready
  /\ d \in terminated' <=> d \in terminated
  /\ d \in failed' <=> d \in failed
  /\ d \in closed' <=> d \in closed
  /\ d \in frontendEnded' <=> d \in frontendEnded
  /\ d \in pendingTerminate' <=> d \in pendingTerminate
  /\ d \in partial' <=> d \in partial
  /\ d \in announced' <=> d \in announced
  /\ d \in held' <=> d \in held
  /\ reported => reported'
  /\ closing' = closing
  /\ place'[d] = place[d] \/ (~Started(d) /\ place[d] = "waiting")
  /\ place'[d] = "session" => place[d] = "session" \/ ~closing

LEMMA SameLane ==
  ASSUME NEW d \in Clients, Lane(d), Same(d), closing \in BOOLEAN
  PROVE  Lane(d)'
<1>1. (Listens(d)' <=> Listens(d)) /\ (Started(d)' <=> Started(d))
  BY DEF Same, Listens, Started
<1>2. Placed(d)'
  BY <1>1 DEF Lane, Placed, Same
<1>3. Settled(d)' /\ HalfClosed(d)'
  BY <1>1 DEF Lane, Settled, HalfClosed, Same
<1>4. Excused(d)' /\ Awake(d)' /\ LastWord(d)'
  BY <1>1 DEF Lane, Excused, Awake, LastWord, Same
<1>. QED  BY <1>2, <1>3, <1>4 DEF Lane

(* Steps of one session that number nobody. *)
LEMMA LocalStep ==
  ASSUME Kept, NEW c \in Clients, LiveType', UNCHANGED numbers,
         \A d \in Clients \ {c} : Same(d), Lane(c)'
  PROVE  Kept'
<1>1. Numbered'
  BY DEF Kept, Numbered, Started
<1>2. ASSUME NEW d \in Clients PROVE Lane(d)'
  BY <1>2, SameLane DEF Kept, LiveType
<1>. QED  BY <1>1, <1>2 DEF Kept

LEMMA KeptInit == Init => Kept
<1>. SUFFICES ASSUME Init PROVE Kept
  OBVIOUS
<1>1. {c \in Clients : Started(c)} = {}
  BY DEF Init, Started
<1>2. Numbered
  <2>1. generation = 0 /\ \A c \in Clients : number[c] = -1
    BY DEF Init
  <2>2. Cardinality({c \in Clients : Started(c)}) = 0
    BY <1>1, FS_EmptySet
  <2>. QED  BY <2>1, <2>2 DEF Numbered
<1>3. LiveType
  <2>1. sent \in [Clients -> 0 .. MaxUnits]
    BY ActorProxyAssumption DEF Init
  <2>2. \A c \in Clients : Len(queue[c]) <= MaxQueue
    BY ActorProxyAssumption DEF Init
  <2>. QED  BY <2>1, <2>2 DEF Init, LiveType, Socket
<1>4. ASSUME NEW c \in Clients PROVE Lane(c)
  BY <1>4
     DEF Init, Lane, Placed, Settled, HalfClosed, Excused, Awake, LastWord, Listens, Started
<1>. QED  BY <1>2, <1>3, <1>4 DEF Kept

-----------------------------------------------------------------------------
(***************************************************************************)
(* Steps of one session.                                                   *)
(***************************************************************************)
LEMMA ConnectKept ==
  ASSUME Known, NEW c \in Clients, Connect(c)
  PROVE  Kept'
<1>1. LiveType'
  BY DEF Known, Kept, LiveType, Connect
<1>2. \A d \in Clients \ {c} : Same(d)
  BY DEF Known, Limited, AdmissionType, Connect, AcceptedAt, Same, Started
<1>3. ~Started(c) /\ ~Started(c)' /\ place[c] = "new" /\ Lane(c)
  BY DEF Known, Kept, Lane, Placed, Connect, Started
<1>4. Listens(c)' <=> Listens(c)
  BY DEF Connect, Listens
<1>5. Placed(c)'
  BY <1>3 DEF Known, Limited, AdmissionType, Lane, Placed, Connect, AcceptedAt, Started
<1>6. Settled(c)' /\ HalfClosed(c)' /\ Excused(c)' /\ Awake(c)' /\ LastWord(c)'
  BY <1>3, <1>4 DEF Lane, Settled, HalfClosed, Excused, Awake, LastWord, Connect
<1>. QED  BY <1>1, <1>2, <1>5, <1>6, LocalStep DEF Known, Lane, Connect

LEMMA LeavesKept ==
  ASSUME Known, NEW c \in Clients,
         Abandon(c) \/ Refuse(c) \/ RefusedCancelPacket(c) \/ CancelSettles(c)
  PROVE  Kept'
<1>1. LiveType'
  <2>1. CASE Abandon(c) \/ Refuse(c)
    BY <2>1 DEF Known, Kept, LiveType, Abandon, Refuse
  <2>2. CASE RefusedCancelPacket(c) \/ CancelSettles(c)
    BY <2>2 DEF Known, Kept, LiveType, RefusedCancelPacket, Routed, CancelSettles
  <2>. QED  BY <2>1, <2>2
<1>2. \A d \in Clients \ {c} : Same(d)
  BY DEF Known, Kept, LiveType, Limited, AdmissionType, Abandon, Refuse, RefusedCancelPacket,
     Routed,
     CancelSettles, Same
<1>3. ~Started(c) /\ ~Started(c)' /\ place[c] # "session" /\ place'[c] # "session" /\ Lane(c)
  BY DEF Known, Kept, Limited, AdmissionType, Lane, Placed, Abandon, Refuse,
     RefusedCancelPacket,
     CancelSettles, Started
<1>4. Listens(c)' <=> Listens(c)
  BY DEF Abandon, Refuse, RefusedCancelPacket, CancelSettles, Listens
<1>5. Placed(c)'
  BY <1>3
     DEF Known, Kept, LiveType, Limited, AdmissionType, Lane, Placed, Abandon, Refuse,
         RefusedCancelPacket,
     Routed, CancelSettles
<1>6. Settled(c)' /\ HalfClosed(c)' /\ Excused(c)' /\ Awake(c)' /\ LastWord(c)'
  BY <1>3, <1>4
     DEF Known, Kept, LiveType, Lane, Settled, HalfClosed, Excused, Awake, LastWord, Abandon,
         Refuse,
     RefusedCancelPacket, CancelSettles
<1>. QED
  BY <1>1, <1>2, <1>5, <1>6, LocalStep
     DEF Known, Lane, Abandon, Refuse, RefusedCancelPacket, CancelSettles

LEMMA CancelPacketKept ==
  ASSUME Known, NEW c \in Clients, CancelPacket(c)
  PROVE  Kept'
<1>1. LiveType'
  BY DEF Known, Kept, LiveType, CancelPacket, Destroyed, Routed, Socket
<1>2. \A d \in Clients \ {c} : Same(d)
  BY DEF Known, Kept, LiveType, Limited, AdmissionType, CancelPacket, Destroyed, Routed, Same
<1>3. ~Started(c) /\ ~Started(c)' /\ place'[c] = "cancel" /\ Lane(c)
  BY DEF Known, Kept, Limited, AdmissionType, Lane, CancelPacket, Started
<1>4. Listens(c)' <=> Listens(c)
  BY DEF CancelPacket, Listens
<1>5. Placed(c)'
  BY <1>3 DEF Lane, Placed, CancelPacket
<1>6. upstream'[c] = "closed" => upstream[c] = "closed"
  BY DEF Known, Kept, LiveType, CancelPacket, Destroyed
<1>8. c \notin ready /\ upstream'[c] # "ending"
  BY <1>3 DEF Lane, Placed, CancelPacket, Destroyed, Known, Kept, LiveType
<1>7. Settled(c)' /\ HalfClosed(c)' /\ Excused(c)' /\ Awake(c)' /\ LastWord(c)'
  BY <1>3, <1>4, <1>6, <1>8
     DEF Lane, Settled, HalfClosed, Excused, Awake, LastWord, CancelPacket
<1>. QED  BY <1>1, <1>2, <1>5, <1>7, LocalStep DEF Known, Lane, CancelPacket

(* One more connection has started, and takes the next number.             *)
LEMMA StartupKept ==
  ASSUME Known, NEW c \in Clients, Startup(c)
  PROVE  Kept'
<1>. DEFINE On == {d \in Clients : Started(d)}
<1>1. LiveType'
  BY DEF Known, Kept, LiveType, Startup
<1>2. On' = On \union {c} /\ c \notin On /\ IsFiniteSet(On)
  <2>1. IsFiniteSet(On)
    BY ActorProxyAssumption, FS_Subset, On \subseteq Clients
  <2>2. generation \in Nat /\ generation # -1
    BY DEF Known, Limited, AdmissionType
  <2>. QED  BY <2>1, <2>2 DEF Startup, Started, Known, Limited, AdmissionType
<1>3. Cardinality(On') = Cardinality(On) + 1
  BY <1>2, FS_AddElement
<1>4. Numbered'
  <2>1. generation' = Cardinality(On')
    BY <1>3 DEF Known, Kept, Numbered, Startup
  <2>2. \A d \in Clients : -1 <= number'[d] /\ number'[d] < generation'
    BY DEF Known, Kept, Numbered, Limited, AdmissionType, Startup
  <2>. QED  BY <2>1, <2>2 DEF Numbered
<1>5. ASSUME NEW d \in Clients \ {c} PROVE Lane(d)'
  BY <1>5, SameLane DEF Known, Kept, LiveType, Limited, AdmissionType, Startup, Same
<1>6. Lane(c) /\ place[c] = "session" /\ route[c] = "none" /\ Started(c)'
  <2>1. Lane(c) /\ place[c] = "session" /\ route[c] = "none"
    BY DEF Known, Kept, Lane, Placed, Startup, Receives
  <2>2. number'[c] = generation /\ generation \in Nat
    BY DEF Known, Limited, AdmissionType, Startup
  <2>. QED  BY <2>1, <2>2 DEF Started
<1>7. Lane(c)'
  BY <1>6
     DEF Lane, Placed, Settled, HalfClosed, Excused, Awake, LastWord, Listens, Startup
<1>. QED  BY <1>1, <1>4, <1>5, <1>7 DEF Kept

(* A session that fails has no work left, and the error was reported.      *)
LEMMA FailedLane ==
  ASSUME NEW c \in Clients, c \in failed', reported' = TRUE, inFlight'[c] = "none",
         prefix'[c] = "none", c \notin announced', Placed(c)'
  PROVE  Lane(c)'
  BY DEF Lane, Settled, HalfClosed, Excused, Awake, LastWord, Listens

(* What every session but c keeps when c fails, and when c retires. *)
FailureApart(c) ==
  /\ \A d \in Clients \ {c} :
       /\ d \in failed' <=> d \in failed
       /\ d \in announced' <=> d \in announced
       /\ queue'[d] = queue[d] /\ prefix'[d] = prefix[d] /\ inFlight'[d] = inFlight[d]
  /\ reported => reported'
  /\ failed' \subseteq Clients /\ announced' \subseteq Clients
  /\ errorSeen' \subseteq Clients /\ reported' \in BOOLEAN
  /\ \A d \in Clients : Len(queue'[d]) <= MaxQueue

RetirementApart(c) ==
  /\ owner' \in Clients \union {None} /\ closed' \subseteq Clients
  /\ \A d \in Clients \ {c} :
       /\ d \in closed' <=> d \in closed
       /\ place'[d] = place[d] \/ (~Started(d) /\ place[d] = "waiting")
       /\ place'[d] = "session" => place[d] = "session" \/ ~closing

(* What fail() does, and that it touches no other session.                 *)
LEMMA FailsWhenEffect ==
  ASSUME Known, NEW c \in Clients, NEW condition \in BOOLEAN, FailsWhen(c, condition)
  PROVE  /\ condition /\ Listens(c) =>
              /\ failed' = failed \union {c} /\ reported' = TRUE /\ inFlight'[c] = "none"
              /\ prefix'[c] = "none" /\ c \notin announced'
         /\ ~(condition /\ Listens(c)) => UNCHANGED <<failed, reported, work>>
         /\ FailureApart(c)
<1>1. CASE condition /\ Listens(c)
  <2>1. \A d \in Clients : Len(queue'[d]) <= MaxQueue
    BY <1>1, ActorProxyAssumption DEF FailsWhen, Drop, Known, Kept, LiveType
  <2>. QED  BY <1>1, <2>1 DEF FailsWhen, Drop, FailureApart, Known, Kept, LiveType
<1>2. CASE ~(condition /\ Listens(c))
  BY <1>2 DEF FailsWhen, FailureApart, Known, Kept, LiveType
<1>. QED  BY <1>1, <1>2

LEMMA FailKept ==
  ASSUME Known, NEW c \in Clients, Fail(c), place[c] = "session",
         UNCHANGED <<numbers, client, ready, terminated, frontendEnded, pendingTerminate, closing,
                     closed, place, route, held>>,
         owner' \in Clients \union {None}, sent' \in [Clients -> 0 .. MaxUnits],
         partial' \in {partial, partial \ {c}}
  PROVE  Kept'
<1>1. /\ failed' = failed \union {c} /\ reported' = TRUE /\ inFlight'[c] = "none"
      /\ prefix'[c] = "none" /\ c \notin announced'
      /\ FailureApart(c)
  BY FailsWhenEffect DEF Fail
<1>2. LiveType'
  BY <1>1 DEF FailureApart, Known, Kept, LiveType, Fail, Destroyed, Socket
<1>3. \A d \in Clients \ {c} : Same(d)
  BY <1>1 DEF FailureApart, Known, Kept, LiveType, Fail, Destroyed, Same
<1>4. Placed(c)'
  BY DEF Known, Kept, Lane, Placed, Started
<1>5. Lane(c)'
  BY <1>1, <1>4, FailedLane
<1>. QED  BY <1>2, <1>3, <1>5, LocalStep DEF Known

LEMMA BeginCycleKept ==
  ASSUME Known, NEW c \in Clients, BeginCycle(c)
  PROVE  Kept'
<1>1. CASE ~AcceptsCommand(c)
  BY <1>1, FailKept DEF Known, Kept, LiveType, BeginCycle, Receives
<1>2. CASE AcceptsCommand(c)
  <2>1. LiveType'
    BY <1>2 DEF Known, Kept, LiveType, BeginCycle
  <2>2. \A d \in Clients \ {c} : Same(d)
    BY <1>2 DEF Known, Kept, LiveType, BeginCycle, Same
  <2>3. Placed(c)'
    BY <1>2 DEF Known, Kept, Lane, Placed, BeginCycle, Started
  <2>4. Settled(c)' /\ HalfClosed(c)' /\ Excused(c)' /\ Awake(c)' /\ LastWord(c)'
    BY <1>2
       DEF Known, Kept, Lane, Settled, HalfClosed, Excused, Awake, LastWord, Listens,
           BeginCycle,
           AcceptsCommand
  <2>. QED  BY <2>1, <2>2, <2>3, <2>4, LocalStep DEF Known, Lane, BeginCycle
<1>. QED  BY <1>1, <1>2

LEMMA EndCycleKept ==
  ASSUME Known, NEW c \in Clients, NEW kind, EndCycle(c, kind)
  PROVE  Kept'
<1>0. sent' \in [Clients -> 0 .. MaxUnits]
  BY ActorProxyAssumption DEF Known, Kept, LiveType, EndCycle
<1>1. CASE ~AcceptsCommand(c)
  BY <1>0, <1>1, FailKept DEF Known, Kept, LiveType, EndCycle, Receives
<1>2. CASE AcceptsCommand(c)
  <2>0. /\ Append(queue[c], kind) # <<>> /\ Len(Append(queue[c], kind)) <= MaxQueue
        /\ queue'[c] = Append(queue[c], kind)
        /\ \A d \in Clients \ {c} : queue'[d] = queue[d]
    BY <1>2, ActorProxyAssumption DEF EndCycle, Known, Produced, WorkType
  <2>1. LiveType'
    <3>1. \A d \in Clients : Len(queue'[d]) <= MaxQueue
      BY <2>0 DEF Known, Kept, LiveType
    <3>. QED  BY <1>0, <1>2, <3>1 DEF Known, Kept, LiveType, EndCycle
  <2>2. \A d \in Clients \ {c} : Same(d)
    BY <1>2, <2>0 DEF Known, Kept, LiveType, EndCycle, Same
  <2>3. Placed(c)'
    BY <1>2 DEF Known, Kept, Lane, Placed, EndCycle, Started
  <2>4. Listens(c) /\ Listens(c)' /\ Started(c) /\ c \notin terminated /\ client[c] # "closed"
    BY <1>2 DEF EndCycle, Listens, AcceptsCommand, Receives
  <2>5. c \in ready /\ inFlight[c] = "none" => c \in announced' /\ c \in held'
    BY <1>2, <2>0, <2>4
       DEF Known, Kept, Lane, Settled, EndCycle, Announces
  <2>6. Settled(c)' /\ Awake(c)'
    BY <1>2, <2>0, <2>4, <2>5
       DEF Known, Kept, Lane, Settled, Awake, EndCycle, Announces
  <2>7. HalfClosed(c)' /\ Excused(c)' /\ LastWord(c)'
    BY <1>2, <2>4 DEF Known, Kept, Lane, HalfClosed, Excused, LastWord, EndCycle
  <2>. QED  BY <2>1, <2>2, <2>3, <2>6, <2>7, LocalStep DEF Known, Lane, EndCycle
<1>. QED  BY <1>1, <1>2

LEMMA TerminateKept ==
  ASSUME Known, NEW c \in Clients, Terminate(c)
  PROVE  Kept'
<1>1. CASE c \in terminated \/ LeavesWork(c)
  BY <1>1, FailKept DEF Known, Kept, LiveType, Terminate, Receives
<1>2. CASE ~(c \in terminated \/ LeavesWork(c))
  <2>1. LiveType'
    BY <1>2 DEF Known, Kept, LiveType, Terminate, Ending, Socket
  <2>2. \A d \in Clients \ {c} : Same(d)
    BY <1>2 DEF Known, Kept, LiveType, Terminate, Ending, Same
  <2>3. Placed(c)'
    BY <1>2 DEF Known, Kept, Lane, Placed, Terminate, Started
  <2>4. /\ Listens(c) /\ Listens(c)' /\ queue[c] = <<>> /\ c \notin partial
        /\ c \notin announced /\ c \notin held /\ client[c] \in {"up", "ending"}
        /\ c \notin frontendEnded /\ upstream[c] # "ending"
    BY <1>2
       DEF Known, Kept, Lane, Settled, HalfClosed, Terminate, Receives, LeavesWork, Listens,
           Produced, AnnouncedQueued, Limited, EndsOnce
  <2>5. Settled(c)' /\ HalfClosed(c)' /\ Excused(c)' /\ Awake(c)'
    BY <1>2, <2>4
       DEF Known, Kept, LiveType, Lane, Settled, HalfClosed, Excused, Awake, Terminate, Ending
  <2>6. LastWord(c)'
    BY <1>2, <2>4
       DEF Known, Kept, LiveType, Lane, Placed, LastWord, Terminate, Ending
  <2>. QED  BY <2>1, <2>2, <2>3, <2>5, <2>6, LocalStep DEF Known, Lane, Terminate
<1>. QED  BY <1>1, <1>2

LEMMA UnsupportedKept ==
  ASSUME Known, NEW c \in Clients, Unsupported(c)
  PROVE  Kept'
  BY FailKept DEF Known, Kept, LiveType, Unsupported, Receives

LEMMA ReleaseKept ==
  ASSUME Known, NEW c \in Clients, Release(c)
  PROVE  Kept'
<1>1. c \in announced => queue[c] # <<>> /\ Len(Tail(queue[c])) <= MaxQueue
                         /\ Tail(queue[c]) \in Seq(Kinds) /\ queue[c][1] \in Kinds
  <2>. SUFFICES ASSUME c \in announced
                PROVE  /\ queue[c] # <<>> /\ Len(Tail(queue[c])) <= MaxQueue
                       /\ Tail(queue[c]) \in Seq(Kinds) /\ queue[c][1] \in Kinds
    OBVIOUS
  <2>1. queue[c] \in Seq(Kinds) /\ queue[c] # <<>> /\ Len(queue[c]) <= MaxQueue
    BY DEF Known, Produced, WorkType, AnnouncedQueued, Kept, LiveType
  <2>2. Tail(queue[c]) \in Seq(Kinds) /\ Len(Tail(queue[c])) = Len(queue[c]) - 1
        /\ queue[c][1] \in Kinds
    BY <2>1
  <2>. QED  BY <2>1, <2>2, ActorProxyAssumption
<1>2. CASE c \in closed \union failed \/ closing \/ c \notin announced
  <2>1. LiveType'
    BY <1>2 DEF Known, Kept, LiveType, Release
  <2>2. \A d \in Clients \ {c} : Same(d)
    BY <1>2 DEF Known, Kept, LiveType, Release, Same
  <2>3. Placed(c)'
    BY <1>2 DEF Known, Kept, Lane, Placed, Release, Started
  <2>4. (Listens(c)' <=> Listens(c)) /\ (Listens(c) => c \notin announced)
    <3>1. closing /\ c \in announced => ~Listens(c)
      BY DEF Known, Kept, Lane, Placed, Settled, Listens
    <3>. QED  BY <1>2, <3>1 DEF Known, Release, Listens
  <2>5. Settled(c)' /\ HalfClosed(c)' /\ Excused(c)' /\ Awake(c)' /\ LastWord(c)'
    BY <1>2, <2>4
       DEF Known, Kept, Lane, Settled, HalfClosed, Excused, Awake, LastWord, Release
  <2>. QED  BY <2>1, <2>2, <2>3, <2>5, LocalStep DEF Known, Lane, Release
<1>3. CASE ~(c \in closed \union failed \/ closing \/ c \notin announced)
  <2>0. /\ inFlight' = [inFlight EXCEPT ![c] = queue[c][1]]
        /\ queue' = [queue EXCEPT ![c] = Tail(@)]
        /\ announced' = announced \ {c} /\ held' = held \ {c}
        /\ errorSeen' = IF prefix[c] = "failed" THEN errorSeen \union {c} ELSE errorSeen
        /\ prefix' = IF queue[c][1] = "cycle" THEN prefix ELSE [prefix EXCEPT ![c] = "open"]
        /\ UNCHANGED <<numbers, admission, sockets, flags, over, commands, closing, route, reported>>
    BY <1>3 DEF Release
  <2>1. LiveType'
    <3>1. \A d \in Clients : Len(queue'[d]) <= MaxQueue
      BY <1>1, <1>3, <2>0 DEF Known, Produced, WorkType, Kept, LiveType
    <3>. QED  BY <2>0, <3>1 DEF Known, Kept, LiveType
  <2>2. \A d \in Clients \ {c} : Same(d)
    BY <2>0 DEF Known, Kept, LiveType, Produced, WorkType, Same
  <2>3. Placed(c)'
    BY <2>0 DEF Known, Kept, Lane, Placed, Started
  <2>4. Listens(c) /\ Listens(c)' /\ c \in ready /\ inFlight[c] = "none" /\ c \notin terminated
        /\ client[c] # "closed"
    BY <1>1, <1>3, <2>0 DEF Known, Kept, Lane, Settled, HalfClosed, LastWord, Listens
  <2>5. inFlight'[c] = queue[c][1] /\ queue[c][1] # "none"
    BY <1>1, <1>3, <2>0 DEF Known, Produced, WorkType, Kinds
  <2>6. Settled(c)' /\ Awake(c)'
    BY <2>0, <2>4, <2>5 DEF Known, Kept, Lane, Settled, Awake
  <2>7. HalfClosed(c)' /\ Excused(c)' /\ LastWord(c)'
    BY <2>0, <2>4, <2>5 DEF Known, Kept, Lane, HalfClosed, Excused, LastWord
  <2>. QED  BY <2>0, <2>1, <2>2, <2>3, <2>6, <2>7, LocalStep DEF Known, Lane
<1>. QED  BY <1>2, <1>3

LEMMA ConnectedKept ==
  ASSUME Known, NEW c \in Clients, Connected(c)
  PROVE  Kept'
<1>1. LiveType'
  BY DEF Known, Kept, LiveType, Connected
<1>2. \A d \in Clients \ {c} : Same(d)
  BY DEF Known, Kept, LiveType, Connected, Same
<1>3. Placed(c)'
  BY DEF Known, Kept, Lane, Placed, Connected, Started
<1>4. /\ Listens(c) /\ Listens(c)' /\ upstream[c] \in {"up", "ending"}
      /\ c \notin ready /\ c \notin announced /\ c \notin held /\ inFlight[c] = "none"
      /\ prefix[c] # "open"
  BY DEF Known, Kept, Lane, Settled, Connected, Listens, Receives
<1>5. c \in announced' <=> queue[c] # <<>>
  BY <1>4 DEF Connected, Announces, Known, Kept, LiveType
<1>6. Settled(c)' /\ Awake(c)'
  BY <1>4, <1>5 DEF Known, Kept, Lane, Settled, Awake, Connected, Announces
<1>7. HalfClosed(c)' /\ Excused(c)' /\ LastWord(c)'
  BY <1>4, <1>5 DEF Known, Kept, Lane, HalfClosed, Excused, LastWord, Connected, Announces,
     Listens
<1>. QED  BY <1>1, <1>2, <1>3, <1>6, <1>7, LocalStep DEF Known, Lane, Connected

LEMMA ServerErrorKept ==
  ASSUME Known, NEW c \in Clients, ServerError(c)
  PROVE  Kept'
<1>1. LiveType'
  BY DEF Known, Kept, LiveType, ServerError
<1>2. \A d \in Clients : Same(d)
  BY DEF ServerError, Same
<1>. QED  BY <1>1, <1>2, SameLane, LocalStep DEF Known, Kept, LiveType, ServerError

LEMMA CompletesKept ==
  ASSUME Known, NEW c \in Clients, Completes(c)
  PROVE  Kept'
<1>0. /\ Listens(c) /\ Listens(c)' /\ inFlight[c] # "none" /\ inFlight'[c] = "none"
      /\ c \in ready /\ c \notin announced /\ c \notin held /\ Started(c)
      /\ upstream[c] \in {"up", "ending"}
  BY DEF Known, Produced, WorkType, Kept, Lane, Placed, Settled, Completes, Listens, Receives
<1>1. PICK cycle \in {"none", "complete", "failed"} :
        /\ prefix' = [prefix EXCEPT ![c] = cycle]
        /\ c \in announced' <=> c \notin pendingTerminate /\ queue[c] # <<>>
        /\ c \in held' <=> c \in announced'
        /\ announced' \in {announced, announced \union {c}} /\ held' \in {held, held \union {c}}
  BY <1>0 DEF Completes, Announces
<1>2. LiveType'
  BY <1>1 DEF Known, Kept, LiveType, Completes, Ending, Socket
<1>3. \A d \in Clients \ {c} : Same(d)
  BY <1>1 DEF Known, Kept, LiveType, Produced, WorkType, Completes, Ending, Same
<1>4. Placed(c)'
  BY DEF Known, Kept, Lane, Placed, Completes, Started
<1>5. prefix'[c] = cycle
  BY <1>1 DEF Known, Produced, WorkType
<1>6. c \in pendingTerminate => c \in terminated /\ queue[c] = <<>>
  BY <1>0 DEF Known, Kept, Lane, Placed, LastWord, Listens
<1>7. Settled(c)' /\ Awake(c)'
  BY <1>0, <1>1, <1>5, <1>6 DEF Known, Kept, Lane, Settled, Awake, Completes
<1>8. HalfClosed(c)'
  BY <1>0, <1>1, <1>6 DEF Known, Kept, LiveType, Lane, HalfClosed, Completes, Ending
<1>9. Excused(c)' /\ LastWord(c)'
  BY <1>0, <1>1, <1>6 DEF Known, Kept, Lane, Excused, LastWord, Completes, Listens
<1>. QED  BY <1>2, <1>3, <1>4, <1>7, <1>8, <1>9, LocalStep DEF Known, Lane, Completes

-----------------------------------------------------------------------------
(***************************************************************************)
(* Socket events.                                                          *)
(***************************************************************************)
(* Both sockets of a session have closed: the only other connection that   *)
(* moves is the one that waited for it, which has not started.             *)
LEMMA RetireEffect ==
  ASSUME Known, NEW c \in Clients, NEW condition \in BOOLEAN, place[c] = "session",
         RetireWhen(c, condition)
  PROVE  /\ ~condition => UNCHANGED <<admission, closed>>
         /\ condition => closed' = closed \union {c} /\ place'[c] = "gone"
         /\ RetirementApart(c)
<1>1. CASE ~condition
  BY <1>1 DEF RetireWhen, RetirementApart, Known, Kept, LiveType
<1>2. CASE condition
  <2>1. Retire(c)
    BY <1>2 DEF RetireWhen
  <2>2. closed' = closed \union {c} /\ owner' \in Clients \union {None}
    BY <2>1 DEF Retire, Known, Kept, LiveType
  <2>3. CASE replacement # NoReplacement /\ replacement.retiring = c
    <3>1. /\ replacement.client \in Clients /\ replacement.client # c
          /\ place[replacement.client] = "waiting" /\ ~Started(replacement.client)
      BY <2>3 DEF Known, Limited, AdmissionType, AdmissionSound, Kept, Lane, Placed
    <3>2. PICK next \in {"gone", "session"} :
            /\ closing => next = "gone"
            /\ place' = [[place EXCEPT ![c] = IF @ = "session" THEN "gone" ELSE @]
                            EXCEPT ![replacement.client] = next]
      BY <2>1, <2>3 DEF Retire
    <3>. QED
      BY <1>2, <2>2, <3>1, <3>2
         DEF RetirementApart, Known, Limited, AdmissionType, Kept, LiveType
  <2>4. CASE ~(replacement # NoReplacement /\ replacement.retiring = c)
    BY <1>2, <2>1, <2>2, <2>4
       DEF Retire, RetirementApart, Known, Limited, AdmissionType, Kept, LiveType
  <2>. QED  BY <2>3, <2>4
<1>. QED  BY <1>1, <1>2

(* A session that does not fail keeps its work, and one that does has none *)
(* left: what both kinds of socket event have in common.                   *)
LEMMA FailingLane ==
  ASSUME Known, NEW c \in Clients, NEW fails \in BOOLEAN, FailsWhen(c, fails),
         fails => Listens(c), Placed(c)',
         ~fails => Settled(c)' /\ HalfClosed(c)' /\ Excused(c)' /\ Awake(c)' /\ LastWord(c)'
  PROVE  Lane(c)'
<1>1. CASE fails
  BY <1>1, FailsWhenEffect, FailedLane
<1>2. CASE ~fails
  BY <1>2 DEF Lane
<1>. QED  BY <1>1, <1>2

LEMMA ClientEndKept ==
  ASSUME Known, NEW c \in Clients, ClientEnd(c)
  PROVE  Kept'
<1>0. PICK halfFrame \in {FALSE, Faults} : ClientEnd(c)!(halfFrame)
  BY DEF ClientEnd
<1>. DEFINE quiet == closing \/ ~Listens(c)
            fails == ~quiet /\ c \notin terminated /\ (Unfinished(c) \/ halfFrame)
            ends == ~quiet /\ ~fails /\ c \notin pendingTerminate
<1>1. /\ place[c] = "session" /\ client[c] \in {"up", "ending"}
      /\ client' = [client EXCEPT ![c] = "down"]
      /\ FailsWhen(c, fails)
      /\ frontendEnded' = IF ends THEN frontendEnded \union {c} ELSE frontendEnded
      /\ upstream' = IF fails THEN Destroyed(upstream, {c})
                     ELSE IF ends THEN Ending(upstream, c) ELSE upstream
      /\ UNCHANGED <<numbers, admission, commands, closing, ready, terminated, closed,
                     pendingTerminate, route, held>>
  BY <1>0 DEF Receives
<1>2. fails \in BOOLEAN /\ ends \in BOOLEAN /\ (fails => Listens(c))
  OBVIOUS
<1>. HIDE DEF fails
<1>3. LiveType'
  BY <1>1, <1>2, FailsWhenEffect
     DEF FailureApart, Known, Kept, LiveType, Destroyed, Ending, Socket
<1>4. \A d \in Clients \ {c} : Same(d)
  BY <1>1, <1>2, FailsWhenEffect
     DEF FailureApart, Known, Kept, LiveType, Limited, AdmissionType, Destroyed, Ending, Same
<1>5. Placed(c)'
  BY <1>1 DEF Known, Kept, Lane, Placed, Started
<1>6. ASSUME ~fails
      PROVE  Settled(c)' /\ HalfClosed(c)' /\ Excused(c)' /\ Awake(c)' /\ LastWord(c)'
  <2>1. UNCHANGED <<failed, reported, work>> /\ client'[c] = "down"
    BY <1>1, <1>2, <1>6, FailsWhenEffect DEF Known, Limited, AdmissionType
  <2>2. /\ Listens(c)' <=> Listens(c)
        /\ Listens(c) => ~closing
    BY <1>1, <2>1 DEF Known, Kept, Lane, Placed, Listens
  <2>3. Settled(c)' /\ Excused(c)' /\ Awake(c)'
    BY <1>1, <2>1, <2>2 DEF Known, Kept, Lane, Settled, Excused, Awake
  <2>4. /\ Listens(c) /\ upstream'[c] = "ending" => c \in terminated \union frontendEnded'
        /\ Listens(c) /\ upstream'[c] = "ending" /\ c \in terminated => inFlight[c] = "none"
        /\ upstream'[c] \in {"down", "closed"} => upstream'[c] = upstream[c]
    BY <1>1, <1>6, <2>2
       DEF Known, Kept, LiveType, Lane, HalfClosed, LastWord, Ending, Listens
  <2>. QED
    BY <1>1, <2>1, <2>2, <2>3, <2>4 DEF Known, Kept, Lane, HalfClosed, LastWord, Listens
<1>7. Lane(c)'
  BY <1>1, <1>2, <1>5, <1>6, FailingLane
<1>. QED  BY <1>1, <1>3, <1>4, <1>7, LocalStep DEF Known

LEMMA ClientErrorKept ==
  ASSUME Known, NEW c \in Clients, ClientError(c)
  PROVE  Kept'
<1>. DEFINE fails == ~closing /\ c \notin terminated /\ Listens(c)
<1>1. /\ place[c] = "session" /\ client[c] \in {"up", "ending"}
      /\ client' = [client EXCEPT ![c] = "down"]
      /\ FailsWhen(c, fails)
      /\ upstream' = IF fails THEN Destroyed(upstream, {c}) ELSE upstream
      /\ UNCHANGED <<numbers, admission, flags, commands, closing, closed, route, held>>
  BY DEF ClientError, Receives
<1>2. fails \in BOOLEAN /\ (fails => Listens(c))
  OBVIOUS
<1>. HIDE DEF fails
<1>3. LiveType'
  BY <1>1, <1>2, FailsWhenEffect
     DEF FailureApart, Known, Kept, LiveType, Destroyed, Socket
<1>4. \A d \in Clients \ {c} : Same(d)
  BY <1>1, <1>2, FailsWhenEffect
     DEF FailureApart, Known, Kept, LiveType, Limited, AdmissionType, Destroyed, Same
<1>5. Placed(c)'
  BY <1>1 DEF Known, Kept, Lane, Placed, Started
<1>6. ASSUME ~fails
      PROVE  Settled(c)' /\ HalfClosed(c)' /\ Excused(c)' /\ Awake(c)' /\ LastWord(c)'
  <2>1. UNCHANGED <<failed, reported, work, upstream>> /\ client'[c] = "down"
    BY <1>1, <1>2, <1>6, FailsWhenEffect DEF Known, Limited, AdmissionType
  <2>2. Listens(c)' <=> Listens(c)
    BY <1>1, <2>1 DEF Listens
  <2>. QED
    BY <1>1, <2>1, <2>2 DEF Known, Kept, Lane, Settled, HalfClosed, Excused, Awake, LastWord
<1>7. Lane(c)'
  BY <1>1, <1>2, <1>5, <1>6, FailingLane
<1>. QED  BY <1>1, <1>3, <1>4, <1>7, LocalStep DEF Known

LEMMA ClientCloseKept ==
  ASSUME Known, NEW c \in Clients, ClientClose(c)
  PROVE  Kept'
<1>. DEFINE fails == ~closing /\ c \notin terminated /\ Listens(c) /\ Unfinished(c)
            leaves == upstream[c] = "closed"
<1>1. /\ place[c] = "session" /\ client[c] = "down"
      /\ client' = [client EXCEPT ![c] = "closed"]
      /\ FailsWhen(c, fails)
      /\ upstream' = IF fails \/ c \notin pendingTerminate
                     THEN Destroyed(upstream, {c}) ELSE upstream
      /\ RetireWhen(c, leaves)
      /\ UNCHANGED <<numbers, flags, commands, closing, route, held>>
  BY DEF ClientClose
<1>2. fails \in BOOLEAN /\ leaves \in BOOLEAN /\ (fails => Listens(c))
  OBVIOUS
<1>3. ~fails /\ Listens(c) =>
        /\ queue[c] = <<>> /\ c \notin announced /\ c \notin held
        /\ inFlight[c] # "none" => c \in pendingTerminate
  <2>1. Listens(c) => ~closing
    BY <1>1 DEF Known, Kept, Lane, Placed, Listens
  <2>. QED
    BY <2>1
       DEF Known, Produced, AnnouncedQueued, Kept, Lane, Settled, LastWord, Listens,
           Unfinished, Busy
<1>. HIDE DEF fails, leaves
<1>a. FailureApart(c) /\ RetirementApart(c)
  BY <1>1, <1>2, FailsWhenEffect, RetireEffect
<1>4. LiveType'
  BY <1>1, <1>a DEF FailureApart, RetirementApart, Known, Kept, LiveType, Destroyed, Socket
<1>5. \A d \in Clients \ {c} : Same(d)
  BY <1>1, <1>a DEF FailureApart, RetirementApart, Known, Kept, LiveType, Limited,
     AdmissionType, Destroyed, Same
<1>6. Placed(c)'
  BY <1>1, <1>2, RetireEffect DEF RetirementApart, Known, Kept, Lane, Placed, Started
<1>7. ASSUME ~fails
      PROVE  Settled(c)' /\ HalfClosed(c)' /\ Excused(c)' /\ Awake(c)' /\ LastWord(c)'
  <2>1. UNCHANGED <<failed, reported, work>> /\ client'[c] = "closed"
    BY <1>1, <1>2, <1>7, FailsWhenEffect DEF Known, Limited, AdmissionType
  <2>2. /\ c \in closed' <=> c \in closed \/ leaves
        /\ Listens(c)' <=> (Listens(c) /\ ~leaves)
    <3>1. c \in closed' <=> (c \in closed \/ leaves)
      BY <1>1, <1>2, RetireEffect
    <3>. QED  BY <2>1, <3>1 DEF Listens
  <2>3. /\ upstream'[c] = "closed" => upstream[c] = "closed"
        /\ upstream'[c] = "ending" => upstream[c] = "ending"
    BY <1>1 DEF Known, Kept, LiveType, Destroyed
  <2>4. leaves = (upstream[c] = "closed") /\ (leaves /\ Listens(c) => inFlight[c] = "none")
    BY DEF leaves, Known, Kept, Lane, HalfClosed
  <2>5. Settled(c)' /\ Excused(c)' /\ Awake(c)'
    BY <1>1, <1>3, <1>7, <2>1, <2>2, <2>4 DEF Known, Kept, Lane, Settled, Excused, Awake
  <2>6. HalfClosed(c)'
    BY <1>1, <1>3, <1>7, <2>1, <2>2, <2>3, <2>4 DEF Known, Kept, Lane, HalfClosed
  <2>7. LastWord(c)'
    BY <1>1, <2>1, <2>2, <2>3 DEF Known, Kept, Lane, LastWord, Listens
  <2>. QED  BY <2>5, <2>6, <2>7
<1>8. Lane(c)'
  BY <1>1, <1>2, <1>6, <1>7, FailingLane
<1>. QED  BY <1>1, <1>4, <1>5, <1>8, LocalStep DEF Known

LEMMA UpstreamEndKept ==
  ASSUME Known, NEW c \in Clients, UpstreamEnd(c) \/ UpstreamError(c)
  PROVE  Kept'
<1>1. PICK fails \in BOOLEAN :
        /\ fails => Listens(c)
        /\ ~fails /\ Listens(c) =>
             /\ c \in ready => c \in terminated
             /\ c \in terminated => queue[c] = <<>>
        /\ place[c] = "session" /\ upstream[c] \in {"up", "ending"}
        /\ upstream' = [upstream EXCEPT ![c] = "down"]
        /\ FailsWhen(c, fails)
        /\ client' \in {client, Ending(client, c)}
        /\ UNCHANGED <<numbers, admission, flags, commands, closing, closed, route, held>>
  <2>0. Listens(c) /\ place[c] = "session" => ~closing
    BY DEF Known, Kept, Lane, Placed, Listens
  <2>1. Listens(c) /\ c \in terminated => queue[c] = <<>>
    BY DEF Known, Kept, Lane, LastWord, Listens
  <2>2. CASE UpstreamEnd(c)
    <3>. DEFINE f == /\ ~closing /\ Listens(c)
                     /\ Busy(c) \/ queue[c] # <<>> \/ (c \notin terminated /\ c \in ready)
    <3>1. f \in BOOLEAN /\ FailsWhen(c, f) /\ client' \in {client, Ending(client, c)}
      BY <2>2 DEF UpstreamEnd
    <3>2. UpstreamEnd(c) /\ place[c] = "session"
      BY <2>2 DEF UpstreamEnd, Receives
    <3>3. ~f /\ Listens(c) => (c \in ready => c \in terminated)
      BY <2>0, <3>2
    <3>. QED  BY <2>1, <3>1, <3>2, <3>3 DEF UpstreamEnd, Receives
  <2>3. CASE UpstreamError(c)
    <3>. DEFINE f == ~closing /\ Listens(c) /\ (c \notin terminated \/ inFlight[c] # "none")
    <3>1. f \in BOOLEAN /\ FailsWhen(c, f)
      BY <2>3 DEF UpstreamError
    <3>2. UpstreamError(c) /\ place[c] = "session"
      BY <2>3 DEF UpstreamError, Receives
    <3>3. ~f /\ Listens(c) => c \in terminated
      BY <2>0, <3>2
    <3>. QED  BY <2>1, <3>1, <3>2, <3>3 DEF UpstreamError, Receives
  <2>. QED  BY <2>2, <2>3
<1>2. FailureApart(c)
  BY <1>1, FailsWhenEffect
<1>3. LiveType'
  BY <1>1, <1>2 DEF FailureApart, Known, Kept, LiveType, Socket
<1>4. \A d \in Clients \ {c} : Same(d)
  BY <1>1, <1>2 DEF FailureApart, Known, Kept, LiveType, Limited, AdmissionType, Ending, Same
<1>5. Placed(c)'
  BY <1>1 DEF Known, Kept, Lane, Placed, Started
<1>6. ASSUME ~fails
      PROVE  Settled(c)' /\ HalfClosed(c)' /\ Excused(c)' /\ Awake(c)' /\ LastWord(c)'
  <2>1. UNCHANGED <<failed, reported, work>> /\ upstream'[c] = "down"
    BY <1>1, <1>6, FailsWhenEffect DEF Known, Kept, LiveType
  <2>2. /\ Listens(c)' <=> Listens(c)
        /\ client'[c] = "closed" <=> client[c] = "closed"
    BY <1>1, <2>1 DEF Known, Limited, AdmissionType, Listens, Ending
  <2>3. Settled(c)' /\ Excused(c)' /\ Awake(c)' /\ LastWord(c)'
    BY <1>1, <2>1, <2>2 DEF Known, Kept, Lane, Settled, Excused, Awake, LastWord
  <2>4. HalfClosed(c)'
    BY <1>1, <1>6, <2>1, <2>2 DEF Known, Kept, Lane, HalfClosed
  <2>. QED  BY <2>3, <2>4
<1>7. Lane(c)'
  BY <1>1, <1>5, <1>6, FailingLane
<1>. QED  BY <1>1, <1>3, <1>4, <1>7, LocalStep DEF Known

LEMMA UpstreamCloseKept ==
  ASSUME Known, NEW c \in Clients, UpstreamClose(c)
  PROVE  Kept'
<1>. DEFINE fails == ~closing /\ Listens(c) /\ Busy(c)
            leaves == client[c] = "closed"
<1>1. /\ place[c] = "session" /\ upstream[c] = "down"
      /\ upstream' = [upstream EXCEPT ![c] = "closed"]
      /\ FailsWhen(c, fails)
      /\ client' = IF Listens(c) /\ ~fails /\ client[c] = "up"
                   THEN [client EXCEPT ![c] = "down"] ELSE client
      /\ RetireWhen(c, leaves)
      /\ UNCHANGED <<numbers, flags, commands, closing, route, held>>
  BY DEF UpstreamClose
<1>2. /\ fails \in BOOLEAN /\ leaves \in BOOLEAN /\ (fails => Listens(c))
      /\ leaves = (client[c] = "closed")
  OBVIOUS
<1>3. ~fails /\ Listens(c) => inFlight[c] = "none"
  BY <1>1 DEF Known, Kept, Lane, Placed, Listens, Busy
<1>4. leaves /\ Listens(c) => queue[c] = <<>> /\ c \notin announced /\ c \notin held
  BY DEF Known, Produced, AnnouncedQueued, Kept, Lane, HalfClosed, Settled
<1>. HIDE DEF fails, leaves
<1>a. FailureApart(c) /\ RetirementApart(c)
  BY <1>1, <1>2, FailsWhenEffect, RetireEffect
<1>5. LiveType'
  BY <1>1, <1>a DEF FailureApart, RetirementApart, Known, Kept, LiveType, Socket
<1>6. \A d \in Clients \ {c} : Same(d)
  BY <1>1, <1>a
     DEF FailureApart, RetirementApart, Known, Kept, LiveType, Limited, AdmissionType, Same
<1>7. Placed(c)'
  BY <1>1, <1>2, RetireEffect DEF RetirementApart, Known, Kept, Lane, Placed, Started
<1>8. ASSUME ~fails
      PROVE  Settled(c)' /\ HalfClosed(c)' /\ Excused(c)' /\ Awake(c)' /\ LastWord(c)'
  <2>1. UNCHANGED <<failed, reported, work>> /\ upstream'[c] = "closed"
    BY <1>1, <1>2, <1>8, FailsWhenEffect DEF Known, Kept, LiveType
  <2>2. /\ c \in closed' <=> (c \in closed \/ leaves)
        /\ Listens(c)' <=> (Listens(c) /\ ~leaves)
    <3>1. c \in closed' <=> (c \in closed \/ leaves)
      BY <1>1, <1>2, RetireEffect
    <3>. QED  BY <2>1, <3>1 DEF Listens
  <2>3. client'[c] = "closed" <=> client[c] = "closed"
    BY <1>1 DEF Known, Limited, AdmissionType
  <2>4. Settled(c)' /\ Excused(c)' /\ Awake(c)'
    BY <1>1, <1>3, <1>4, <1>8, <2>1, <2>2 DEF Known, Kept, Lane, Settled, Excused, Awake
  <2>5. HalfClosed(c)'
    BY <1>1, <1>2, <1>3, <1>8, <2>1, <2>2, <2>3 DEF Known, Kept, Lane, HalfClosed
  <2>6. LastWord(c)'
    BY <1>1, <2>1, <2>2 DEF Known, Kept, Lane, LastWord, Listens
  <2>. QED  BY <2>4, <2>5, <2>6
<1>9. Lane(c)'
  BY <1>1, <1>2, <1>7, <1>8, FailingLane
<1>. QED  BY <1>1, <1>5, <1>6, <1>9, LocalStep DEF Known

(* A session that is shut down after its failure had nothing left.         *)
LEMMA FailTimerKept ==
  ASSUME Known, NEW c \in Clients, FailTimer(c)
  PROVE  Kept'
<1>1. /\ c \in failed /\ closed' = closed \union {c}
      /\ Drop({c} \ closed)
      /\ UNCHANGED <<numbers, admission, flags, commands, loop, closing, failed, route>>
  BY DEF FailTimer
<1>2. \A d \in Clients : Len(queue'[d]) <= MaxQueue
  BY <1>1, ActorProxyAssumption DEF Drop, Known, Kept, LiveType
<1>3. LiveType'
  BY <1>1, <1>2 DEF Known, Kept, LiveType, Drop, FailTimer, Destroyed, Socket
<1>4. \A d \in Clients \ {c} : Same(d)
  BY <1>1
     DEF Known, Kept, LiveType, Limited, AdmissionType, Produced, WorkType, Drop, FailTimer,
         Destroyed,
         Same
<1>5. Placed(c)'
  BY <1>1 DEF Known, Kept, Lane, Placed, Started
<1>6. inFlight'[c] = "none" /\ c \notin announced' /\ ~Listens(c)' /\ reported
  BY <1>1 DEF Known, Kept, Lane, Settled, Excused, Listens, Drop
<1>7. Settled(c)' /\ HalfClosed(c)' /\ Excused(c)' /\ Awake(c)' /\ LastWord(c)'
  BY <1>1, <1>6
     DEF Known, Kept, Lane, Settled, HalfClosed, Excused, Awake, LastWord, Listens, Drop
<1>. QED  BY <1>1, <1>3, <1>4, <1>5, <1>7, LocalStep DEF Known, Lane

-----------------------------------------------------------------------------
(***************************************************************************)
(* Shutdown of the whole actor.                                            *)
(***************************************************************************)
LEMMA CloseKept == Known /\ Close => Kept'
<1>. SUFFICES ASSUME Known, Close PROVE Kept'
  OBVIOUS
<1>1. /\ ~closing /\ closing' = TRUE /\ closed' = closed \union Sessions
      /\ Drop(Sessions \ closed)
      /\ upstream' = Destroyed(upstream, Sessions \ closed)
      /\ UNCHANGED <<numbers, flags, commands, loop, owner, client, failed, route>>
  BY DEF Close
<1>2. \A d \in Clients : Len(queue'[d]) <= MaxQueue
  BY <1>1, ActorProxyAssumption DEF Drop, Known, Kept, LiveType
<1>3. LiveType'
  BY <1>1, <1>2 DEF Known, Kept, LiveType, Drop, Destroyed, Socket, Sessions
<1>4. Numbered'
  BY <1>1 DEF Known, Kept, Numbered, Started
<1>5. ASSUME NEW c \in Clients PROVE Lane(c)'
  <2>1. place'[c] = place[c] \/ (place[c] = "waiting" /\ place'[c] = "gone")
    <3>1. place' = [d \in Clients |-> IF d = replacement.client THEN "gone" ELSE place[d]]
      BY DEF Close
    <3>2. CASE replacement = NoReplacement
      BY <3>1, <3>2, ActorProxyAssumption DEF NoReplacement
    <3>3. CASE replacement # NoReplacement
      BY <3>1, <3>3 DEF Known, Limited, AdmissionSound
    <3>. QED  BY <3>2, <3>3
  <2>2. c \in closed' <=> (c \in closed \/ place[c] = "session")
    BY <1>1 DEF Sessions
  <2>3. Placed(c)'
    BY <1>1, <2>1, <2>2 DEF Known, Kept, Lane, Placed, Started
  <2>4. CASE c \in Sessions \ closed
    <3>1. inFlight'[c] = "none" /\ prefix'[c] = "none" /\ c \notin announced' /\ ~Listens(c)'
      BY <1>1, <2>4 DEF Drop, Listens
    <3>. QED
      BY <1>1, <2>3, <2>4, <3>1
         DEF Known, Kept, Lane, Settled, HalfClosed, Excused, Awake, LastWord, Listens
  <2>5. CASE c \notin Sessions \ closed
    <3>1. /\ queue'[c] = queue[c] /\ prefix'[c] = prefix[c] /\ inFlight'[c] = inFlight[c]
          /\ c \in announced' <=> c \in announced
          /\ upstream'[c] = upstream[c]
          /\ Listens(c)' <=> Listens(c)
      BY <1>1, <2>5 DEF Drop, Destroyed, Listens, Known, Kept, LiveType
    <3>2. Settled(c)' /\ HalfClosed(c)' /\ Excused(c)'
      BY <1>1, <3>1 DEF Known, Kept, Lane, Settled, HalfClosed, Excused
    <3>3. Awake(c)' /\ LastWord(c)'
      BY <1>1, <3>1 DEF Known, Kept, Lane, Awake, LastWord, Listens
    <3>. QED  BY <2>3, <3>2, <3>3 DEF Lane
  <2>. QED  BY <2>4, <2>5
<1>. QED  BY <1>3, <1>4, <1>5 DEF Kept

LEMMA CloseTimerKept == Known /\ CloseTimer => Kept'
<1>. SUFFICES ASSUME Known, CloseTimer PROVE Kept'
  OBVIOUS
<1>1. LiveType'
  BY DEF CloseTimer, Known, Kept, LiveType, Destroyed, Socket
<1>2. Numbered'
  BY DEF CloseTimer, Known, Kept, Numbered, Started
<1>3. ASSUME NEW c \in Clients PROVE Lane(c)'
  <2>1. /\ closing /\ UNCHANGED <<numbers, flags, over, commands, work, loop, closing, route>>
        /\ place'[c] = (IF place[c] \in {"refused", "cancel"} THEN "gone" ELSE place[c])
    BY DEF CloseTimer
  <2>2. Placed(c)'
    BY <2>1 DEF Known, Kept, Lane, Placed, Started
  <2>3. CASE Listens(c)
    <3>1. place[c] # "session"
      BY <2>1, <2>3 DEF Known, Kept, Lane, Placed, Listens
    <3>2. client'[c] = client[c] /\ upstream'[c] = upstream[c]
      BY <3>1 DEF CloseTimer, Destroyed, Sessions, Known, Kept, LiveType, Limited,
         AdmissionType
    <3>. QED
      BY <2>1, <2>2, <3>2
         DEF Known, Kept, Lane, Settled, HalfClosed, Excused, Awake, LastWord, Listens
  <2>4. CASE ~Listens(c)
    BY <2>1, <2>2, <2>4
       DEF Known, Kept, Lane, Settled, HalfClosed, Excused, Awake, LastWord, Listens
  <2>. QED  BY <2>3, <2>4
<1>. QED  BY <1>1, <1>2, <1>3 DEF Kept

LEMMA StutterKept == Known /\ UNCHANGED vars => Kept'
<1>. SUFFICES ASSUME Known, UNCHANGED vars PROVE Kept'
  OBVIOUS
<1>1. LiveType' /\ Numbered'
  BY DEF vars, Known, Kept, LiveType, Numbered, Started
<1>2. ASSUME NEW c \in Clients PROVE Lane(c)'
  BY SameLane DEF vars, Same, Known, Kept, LiveType
<1>. QED  BY <1>1, <1>2 DEF Kept

LEMMA KeptStep == Known /\ [Next]_vars => Kept'
<1>. SUFFICES ASSUME Known, [Next]_vars PROVE Kept'
  OBVIOUS
<1>1. ASSUME NEW c \in Clients,
             \/ Connect(c) \/ Abandon(c) \/ Refuse(c) \/ Startup(c) \/ CancelPacket(c)
             \/ RefusedCancelPacket(c) \/ CancelSettles(c)
      PROVE Kept'
  BY <1>1, ConnectKept, LeavesKept, StartupKept, CancelPacketKept
<1>2. ASSUME NEW c \in Clients, NEW kind, EndCycle(c, kind) PROVE Kept'
  BY <1>2, EndCycleKept
<1>3. ASSUME NEW c \in Clients,
             \/ BeginCycle(c) \/ Terminate(c) \/ Unsupported(c) \/ Release(c)
             \/ Connected(c) \/ ServerError(c) \/ Completes(c)
      PROVE Kept'
  BY <1>3, BeginCycleKept, TerminateKept, UnsupportedKept, ReleaseKept, ConnectedKept,
     ServerErrorKept, CompletesKept
<1>4. ASSUME NEW c \in Clients,
             \/ ClientEnd(c) \/ ClientError(c) \/ ClientClose(c)
             \/ UpstreamEnd(c) \/ UpstreamError(c) \/ UpstreamClose(c) \/ FailTimer(c)
      PROVE Kept'
  BY <1>4, ClientEndKept, ClientErrorKept, ClientCloseKept, UpstreamEndKept,
     UpstreamCloseKept, FailTimerKept
<1>5. CASE Close \/ CloseTimer \/ Done \/ UNCHANGED vars
  BY <1>5, CloseKept, CloseTimerKept, StutterKept DEF Done
<1>. QED  BY <1>1, <1>2, <1>3, <1>4, <1>5 DEF Next, Application, Postgres

LEMMA AlwaysKnown == Spec => []Known
<1>1. Init => Known
  BY LimitedInit, ProducedInit, KeptInit DEF Known
<1>2. Known /\ [Next]_vars => Known'
  BY LimitedStep, ProducedStep, KeptStep DEF Known
<1>. QED  BY <1>1, <1>2, PTL DEF Spec

-----------------------------------------------------------------------------
(***************************************************************************)
(* What holds of every actor's proxy.                                      *)
(***************************************************************************)
LEMMA StartedAtMost ==
  ASSUME Known
  PROVE  /\ generation \in 0 .. Cardinality(Clients)
         /\ \A c \in Clients : number[c] \in -1 .. Cardinality(Clients)
<1>1. Cardinality({c \in Clients : Started(c)}) <= Cardinality(Clients)
  BY ActorProxyAssumption, FS_Subset, {c \in Clients : Started(c)} \subseteq Clients
<1>2. Cardinality(Clients) \in Nat
  BY ActorProxyAssumption, FS_CardinalityType
<1>3. generation \in 0 .. Cardinality(Clients)
  BY <1>1, <1>2 DEF Known, Kept, Numbered, Limited, AdmissionType
<1>. QED  BY <1>2, <1>3 DEF Known, Kept, Numbered, Limited, AdmissionType

(* The proxy's state keeps its shape: no more connections are numbered     *)
(* than the actor opened, and no queue outgrows its bound (proxy.ts).      *)
THEOREM ProxyTyped == Spec => []TypeOK
<1>1. Known => TypeOK
  <2>. SUFFICES ASSUME Known PROVE TypeOK
    OBVIOUS
  <2>1. number \in [Clients -> -1 .. Cardinality(Clients)]
    BY StartedAtMost DEF Known, Limited, AdmissionType
  <2>2. \A c \in Clients : queue[c] \in Seq(Kinds) /\ Len(queue[c]) <= MaxQueue
    BY DEF Known, Kept, LiveType, Produced, WorkType
  <2>. QED
    BY <2>1, <2>2, StartedAtMost
       DEF Known, Kept, LiveType, Limited, AdmissionType, Produced, WorkType, TypeOK
<1>. QED  BY <1>1, AlwaysKnown, PTL

(* No unit is left waiting: whenever a ready session has a queued unit and *)
(* nothing in flight, the scheduler has been told of it, whatever made the *)
(* session ready or the last unit complete (proxy.ts:254-257).             *)
THEOREM NoUnitLeftWaiting == Spec => []NoUnitForgotten
<1>1. Known => NoUnitForgotten
  BY DEF Known, Kept, Lane, Awake, NoUnitForgotten
<1>. QED  BY <1>1, AlwaysKnown, PTL

(* Terminate is the last thing PostgreSQL is sent, also when the driver    *)
(* leaves on an ErrorResponse before its command has completed             *)
(* (proxy.ts:373-382, 452).                                                *)
THEOREM TerminateComesLast == Spec => []TerminateIsLast
<1>1. Known => TerminateIsLast
  BY DEF Known, Kept, LiveType, Lane, LastWord, TerminateIsLast
<1>. QED  BY <1>1, AlwaysKnown, PTL


-----------------------------------------------------------------------------
(***************************************************************************)
(* The proxy implements LaneContract.                                      *)
(***************************************************************************)
(* What the scheduler has of lane c. *)
UnitOf(c) == IF inFlight[c] # "none" THEN "flying" ELSE IF c \in held THEN "held" ELSE "none"

Excuse == reported \/ closing

(* A step of lane c alone, in the contract's terms. *)
Elsewhere(c) == \A d \in Clients \ {c} : UnitOf(d)' = UnitOf(d) /\ Life(d)' = Life(d)

LEMMA SameElsewhere ==
  ASSUME NEW c \in Clients, \A d \in Clients \ {c} : Same(d)
  PROVE  Elsewhere(c)
<1>. SUFFICES ASSUME NEW d \in Clients \ {c} PROVE UnitOf(d)' = UnitOf(d) /\ Life(d)' = Life(d)
  BY DEF Elsewhere
<1>1. Same(d)
  OBVIOUS
<1>2. UnitOf(d)' = UnitOf(d)
  BY <1>1 DEF Same, UnitOf
<1>3. Life(d)' = Life(d)
  BY <1>1 DEF Same, Life, Started
<1>. QED  BY <1>2, <1>3

(* A step of the contract's lane c, by what it does to the lane's unit and *)
(* life.                                                                   *)
LEMMA QuietMaps ==
  ASSUME NEW c \in Clients, Elsewhere(c), UNCHANGED number, Excuse' <=> Excuse,
         UnitOf(c)' = UnitOf(c), Life(c)' = Life(c)
  PROVE  UNCHANGED Contract!vars
<1>1. \A d \in Clients : UnitOf(d)' = UnitOf(d) /\ Life(d)' = Life(d)
  BY DEF Elsewhere
<1>. QED  BY <1>1 DEF Contract!vars, Excuse, UnitOf

LEMMA LoseMaps ==
  ASSUME NEW c \in Clients, Elsewhere(c), UNCHANGED number, Excuse',
         UnitOf(c)' = (IF UnitOf(c) = "flying" THEN "none" ELSE UnitOf(c)),
         \/ Life(c)' = Life(c)
         \/ Life(c) \in {"started", "connected"} /\ Life(c)' = "disconnected"
  PROVE  Contract!Next
<1>1. Contract!Lose(c)
  BY DEF Contract!Lose, Elsewhere, Excuse, UnitOf
<1>. QED  BY <1>1 DEF Contract!Next

LEMMA DisconnectMaps ==
  ASSUME NEW c \in Clients, Elsewhere(c), UNCHANGED number, Excuse' <=> Excuse,
         UnitOf(c)' = UnitOf(c), UnitOf(c) # "flying", UnitOf(c) = "held" => Excuse,
         Life(c) \in {"started", "connected"}, Life(c)' = "disconnected"
  PROVE  Contract!Next
<1>1. Contract!Disconnect(c)
  BY DEF Contract!Disconnect, Elsewhere, Excuse, UnitOf
<1>. QED  BY <1>1 DEF Contract!Next

LEMMA UnitMaps ==
  ASSUME NEW c \in Clients, Elsewhere(c), UNCHANGED number, Excuse' <=> Excuse,
         \/ /\ Life(c) = "started" /\ Life(c)' = "connected" /\ UnitOf(c)' \in {"none", "held"}
         \/ /\ Life(c)' = Life(c)
            /\ \/ Life(c) = "connected" /\ UnitOf(c) = "none" /\ UnitOf(c)' = "held"
               \/ Life(c) = "connected" /\ UnitOf(c) = "held" /\ UnitOf(c)' = "flying"
               \/ Excuse /\ UnitOf(c) = "held" /\ UnitOf(c)' = "none"
               \/ Life(c) = "connected" /\ UnitOf(c) = "flying" /\ UnitOf(c)' \in {"none", "held"}
  PROVE  Contract!Next
<1>1. CASE Life(c) = "started" /\ Life(c)' = "connected" /\ UnitOf(c)' \in {"none", "held"}
  <2>1. Contract!Connect(c)
    BY <1>1 DEF Contract!Connect, Elsewhere, Excuse, UnitOf
  <2>. QED  BY <2>1 DEF Contract!Next
<1>2. CASE Life(c)' = Life(c) /\ Life(c) = "connected" /\ UnitOf(c) = "none" /\ UnitOf(c)' = "held"
  <2>1. Contract!Hold(c)
    BY <1>2 DEF Contract!Hold, Elsewhere, Excuse, UnitOf
  <2>. QED  BY <2>1 DEF Contract!Next
<1>3. CASE /\ Life(c)' = Life(c)
           /\ \/ Life(c) = "connected" /\ UnitOf(c) = "held" /\ UnitOf(c)' = "flying"
              \/ Excuse /\ UnitOf(c) = "held" /\ UnitOf(c)' = "none"
  <2>1. Contract!Release(c)
    BY <1>3 DEF Contract!Release, Elsewhere, Excuse, UnitOf
  <2>. QED  BY <2>1 DEF Contract!Next
<1>4. CASE /\ Life(c)' = Life(c)
           /\ Life(c) = "connected" /\ UnitOf(c) = "flying" /\ UnitOf(c)' \in {"none", "held"}
  <2>1. Contract!Resolve(c)
    BY <1>4 DEF Contract!Resolve, Elsewhere, Excuse, UnitOf
  <2>. QED  BY <2>1 DEF Contract!Next
<1>. QED  BY <1>1, <1>2, <1>3, <1>4

(* Connections that have not started have nothing the contract speaks of.  *)
LEMMA UnstartedMaps ==
  ASSUME Known, NEW c \in Clients,
         \/ Connect(c) \/ Abandon(c) \/ Refuse(c) \/ RefusedCancelPacket(c)
         \/ CancelPacket(c) \/ CancelSettles(c)
  PROVE  Contract!Next \/ UNCHANGED Contract!vars
<1>1. /\ UNCHANGED <<number, ready, inFlight, held, closing>> /\ reported' \in {reported, TRUE}
      /\ \A d \in Clients \ {c} : place'[d] = place[d]
  BY DEF Known, Limited, AdmissionType, Kept, LiveType, Connect, AcceptedAt, Abandon, Refuse,
         RefusedCancelPacket, CancelPacket, CancelSettles
<1>2. Elsewhere(c)
  BY <1>1 DEF Elsewhere, UnitOf, Life, Started
<1>3. ~Started(c) /\ inFlight[c] = "none"
  BY DEF Known, Kept, Lane, Placed, Settled, Connect, Abandon, Refuse, RefusedCancelPacket,
         CancelPacket, CancelSettles
<1>4. UnitOf(c)' = UnitOf(c) /\ Life(c)' = Life(c) /\ UnitOf(c) # "flying"
  BY <1>1, <1>3 DEF UnitOf, Life, Started
<1>5. CASE reported' = reported
  <2>1. Excuse' <=> Excuse
    BY <1>1, <1>5 DEF Excuse
  <2>. QED  BY <1>1, <1>2, <1>4, <2>1, QuietMaps
<1>6. CASE reported' = TRUE
  <2>1. Excuse'
    BY <1>6 DEF Excuse
  <2>. QED  BY <1>1, <1>2, <1>4, <2>1, LoseMaps
<1>. QED  BY <1>1, <1>5, <1>6

LEMMA StartupMaps ==
  ASSUME Known, NEW c \in Clients, Startup(c)
  PROVE  Contract!Next
<1>1. /\ ~Started(c) /\ place[c] = "session" /\ c \notin ready
      /\ number' = [number EXCEPT ![c] = generation]
      /\ UNCHANGED <<place, ready, inFlight, held, reported, closing>>
  BY DEF Startup, Receives, Known, Kept, Lane, Placed
<1>2. number'[c] = generation /\ generation \in Nat /\ \A d \in Clients \ {c} : number'[d] = number[d]
  BY <1>1 DEF Known, Limited, AdmissionType
<1>3. Life(c) = "none" /\ Life(c)' = "started" /\ \A d \in Clients \ {c} : Life(d)' = Life(d)
  BY <1>1, <1>2 DEF Life, Started
<1>. DEFINE lives == [d \in Clients |-> Life(d)]
<1>4. \A d \in Clients : lives[d] = Life(d)
  OBVIOUS
<1>5. lives' = [lives EXCEPT ![c] = "started"]
  BY <1>3
<1>6. generation = Cardinality({d \in Clients : lives[d] # "none"})
  <2>. HIDE DEF lives
  <2>1. \A d \in Clients : lives[d] # "none" <=> Started(d)
    BY <1>4 DEF Life
  <2>2. {d \in Clients : lives[d] # "none"} = {d \in Clients : Started(d)}
    BY <2>1
  <2>. QED  BY <2>2 DEF Known, Kept, Numbered
<1>7. number' = [number EXCEPT ![c] = Cardinality({d \in Clients : lives[d] # "none"})]
  <2>. HIDE DEF lives
  <2>. QED  BY <1>1, <1>6
<1>8. Contract!Start(c)
  <2>0. \A S : Contract!Cardinality(S) = Cardinality(S)
    BY Zenon DEF Contract!Cardinality, Cardinality
  <2>1. lives[c] = "none" /\ UNCHANGED <<[d \in Clients |-> UnitOf(d)], Excuse>>
    BY <1>1, <1>3, <1>4 DEF UnitOf, Excuse
  <2>. QED  BY <1>5, <1>7, <2>0, <2>1, Zenon DEF Contract!Start, UnitOf, Excuse
<1>. QED  BY <1>8 DEF Contract!Next

(* A failure, a socket's end or close, and the retirement of a session     *)
(* whose sockets have both closed.                                         *)
LEMMA EventMaps ==
  ASSUME Known, Kept', NEW c \in Clients, NEW fails \in BOOLEAN, FailsWhen(c, fails),
         UNCHANGED <<number, ready, held, closing>>,
         place'[c] = place[c] \/ (place'[c] = "gone" /\ c \in closed'),
         \A d \in Clients \ {c} : place'[d] = place[d] \/ ~Started(d)
  PROVE  Contract!Next \/ UNCHANGED Contract!vars
<1>1. \A d \in Clients \ {c} : inFlight'[d] = inFlight[d]
  BY FailsWhenEffect DEF FailureApart
<1>2. Elsewhere(c)
  BY <1>1 DEF Elsewhere, UnitOf, Life, Started
<1>3. \/ Life(c)' = Life(c)
      \/ /\ Life(c) \in {"started", "connected"} /\ Life(c)' = "disconnected"
         /\ c \in closed'
  BY DEF Life, Started
<1>4. CASE fails /\ Listens(c)
  <2>1. Excuse' /\ inFlight'[c] = "none"
    BY <1>4, FailsWhenEffect DEF Excuse
  <2>2. inFlight[c] # "none" => c \notin held
    BY <1>4 DEF Known, Kept, Lane, Settled
  <2>3. UnitOf(c)' = (IF UnitOf(c) = "flying" THEN "none" ELSE UnitOf(c))
    BY <2>1, <2>2 DEF UnitOf
  <2>. QED  BY <1>2, <1>3, <2>1, <2>3, LoseMaps
<1>5. CASE ~(fails /\ Listens(c))
  <2>1. UNCHANGED <<failed, reported, work>>
    BY <1>5, FailsWhenEffect
  <2>2. (Excuse' <=> Excuse) /\ UnitOf(c)' = UnitOf(c)
    BY <2>1 DEF Excuse, UnitOf
  <2>3. CASE Life(c)' = Life(c)
    BY <1>2, <2>2, <2>3, QuietMaps
  <2>4. CASE Life(c) \in {"started", "connected"} /\ Life(c)' = "disconnected" /\ c \in closed'
    <3>1. ~Listens(c)'
      BY <2>4 DEF Listens
    <3>2. inFlight[c] = "none" /\ (c \in held => reported \/ closing)
      BY <2>1, <3>1 DEF Kept, Lane, Settled, Excused
    <3>3. UnitOf(c) # "flying" /\ (UnitOf(c) = "held" => Excuse)
      BY <3>2 DEF UnitOf, Excuse
    <3>. QED  BY <1>2, <2>2, <2>4, <3>3, DisconnectMaps
  <2>. QED  BY <1>3, <2>3, <2>4
<1>. QED  BY <1>4, <1>5


(* fail() outside the socket events. *)
LEMMA FailMaps ==
  ASSUME Known, Kept', NEW c \in Clients, Fail(c), UNCHANGED <<number, ready, held, closing, place>>
  PROVE  Contract!Next \/ UNCHANGED Contract!vars
<1>1. FailsWhen(c, TRUE)
  BY DEF Fail
<1>. QED  BY <1>1, EventMaps

LEMMA ClientMaps ==
  ASSUME Known, Kept', NEW c \in Clients,
         BeginCycle(c) \/ Terminate(c) \/ Unsupported(c) \/ \E kind \in Kinds : EndCycle(c, kind)
  PROVE  Contract!Next \/ UNCHANGED Contract!vars
<1>1. CASE Unsupported(c)
  BY <1>1, FailMaps DEF Unsupported
<1>2. CASE BeginCycle(c)
  <2>1. CASE ~AcceptsCommand(c)
    BY <1>2, <2>1, FailMaps DEF BeginCycle
  <2>2. CASE AcceptsCommand(c)
    <3>1. UNCHANGED <<number, ready, place, inFlight, held, reported, closing>>
      BY <1>2, <2>2 DEF BeginCycle
    <3>. QED
      BY <3>1, QuietMaps DEF Elsewhere, UnitOf, Life, Started, Excuse
  <2>. QED  BY <2>1, <2>2
<1>3. CASE Terminate(c)
  <2>1. CASE c \in terminated \/ LeavesWork(c)
    BY <1>3, <2>1, FailMaps DEF Terminate
  <2>2. CASE ~(c \in terminated \/ LeavesWork(c))
    <3>1. UNCHANGED <<number, ready, place, inFlight, held, reported, closing>>
      BY <1>3, <2>2 DEF Terminate
    <3>. QED
      BY <3>1, QuietMaps DEF Elsewhere, UnitOf, Life, Started, Excuse
  <2>. QED  BY <2>1, <2>2
<1>4. ASSUME NEW kind \in Kinds, EndCycle(c, kind)
      PROVE  Contract!Next \/ UNCHANGED Contract!vars
  <2>1. CASE ~AcceptsCommand(c)
    BY <1>4, <2>1, FailMaps DEF EndCycle
  <2>2. CASE AcceptsCommand(c)
    <3>. DEFINE now == c \in ready /\ Announces(c, Append(queue[c], kind), inFlight[c], prefix[c])
    <3>1. /\ UNCHANGED <<number, ready, place, inFlight, reported, closing>>
          /\ held' = IF now THEN held \union {c} ELSE held
          /\ place[c] = "session" /\ Started(c)
      BY <1>4, <2>2 DEF EndCycle, Receives
    <3>2. now => c \in ready /\ inFlight[c] = "none" /\ Listens(c) /\ c \notin announced
      BY DEF Announces
    <3>. HIDE DEF now
    <3>3. Elsewhere(c) /\ (Excuse' <=> Excuse) /\ Life(c)' = Life(c)
      BY <3>1 DEF Elsewhere, UnitOf, Life, Started, Excuse
    <3>4. CASE now
      <4>1. c \notin held
        BY <3>2, <3>4 DEF Known, Kept, Lane, Settled
      <4>2. UnitOf(c) = "none" /\ UnitOf(c)' = "held" /\ Life(c) = "connected"
        BY <3>1, <3>2, <3>4, <4>1 DEF UnitOf, Life
      <4>. QED  BY <3>1, <3>3, <4>2, UnitMaps
    <3>5. CASE ~now
      <4>1. UnitOf(c)' = UnitOf(c)
        BY <3>1, <3>5 DEF UnitOf
      <4>. QED  BY <3>1, <3>3, <4>1, QuietMaps
    <3>. QED  BY <3>4, <3>5
  <2>. QED  BY <2>1, <2>2
<1>. QED  BY <1>1, <1>2, <1>3, <1>4

LEMMA PromisesMap ==
  ASSUME Known, NEW c \in Clients,
         Release(c) \/ Connected(c) \/ ServerError(c) \/ Completes(c)
  PROVE  Contract!Next \/ UNCHANGED Contract!vars
<1>1. CASE Release(c)
  <2>1. /\ c \in held /\ held' = held \ {c}
        /\ UNCHANGED <<number, ready, place, reported, closing>>
        /\ inFlight[c] = "none" \/ ~Listens(c)
    BY <1>1 DEF Release, Known, Kept, Lane, Settled
  <2>2. inFlight[c] = "none"
    BY <2>1 DEF Known, Kept, Lane, Settled
  <2>3. (Excuse' <=> Excuse) /\ UnitOf(c) = "held" /\ Life(c)' = Life(c)
    BY <2>1, <2>2 DEF Excuse, UnitOf, Life, Started
  <2>4. CASE c \in closed \union failed \/ closing \/ c \notin announced
    <3>1. UNCHANGED inFlight
      BY <1>1, <2>4 DEF Release
    <3>2. Elsewhere(c) /\ UnitOf(c)' = "none"
      BY <2>1, <2>2, <3>1 DEF Elsewhere, UnitOf, Life, Started
    <3>3. Excuse
      BY <2>1, <2>4 DEF Known, Kept, Lane, Settled, Excused, Listens, Excuse
    <3>. QED  BY <2>1, <2>3, <3>2, <3>3, UnitMaps
  <2>5. CASE ~(c \in closed \union failed \/ closing \/ c \notin announced)
    <3>1. inFlight' = [inFlight EXCEPT ![c] = queue[c][1]]
      BY <1>1, <2>5 DEF Release
    <3>2. queue[c][1] # "none" /\ c \in ready
      <4>1. queue[c] \in Seq(Kinds) /\ queue[c] # <<>> /\ c \in ready
        BY <2>5 DEF Known, Produced, WorkType, AnnouncedQueued, Kept, Lane, Settled
      <4>2. queue[c][1] \in Kinds
        BY <4>1
      <4>. QED  BY <4>1, <4>2 DEF Kinds
    <3>3. Elsewhere(c) /\ UnitOf(c)' = "flying"
      BY <2>1, <3>1, <3>2 DEF Elsewhere, UnitOf, Life, Started, Known, Produced, WorkType
    <3>4. Life(c) = "connected"
      BY <2>5, <3>2 DEF Known, Kept, Lane, Placed, Life
    <3>. QED  BY <2>1, <2>3, <3>3, <3>4, UnitMaps
  <2>. QED  BY <2>4, <2>5
<1>2. CASE Connected(c)
  <2>1. /\ ready' = ready \union {c} /\ c \notin ready /\ place[c] = "session" /\ Started(c)
        /\ held' \in {held, held \union {c}} /\ inFlight[c] = "none"
        /\ UNCHANGED <<number, place, inFlight, reported, closing>>
    BY <1>2 DEF Connected, Receives, Known, Kept, Lane, Settled
  <2>2. /\ Elsewhere(c) /\ (Excuse' <=> Excuse) /\ UnitOf(c)' \in {"none", "held"}
        /\ Life(c) = "started" /\ Life(c)' = "connected"
    BY <2>1 DEF Elsewhere, UnitOf, Life, Started, Excuse
  <2>. QED  BY <2>1, <2>2, UnitMaps
<1>3. CASE ServerError(c)
  <2>1. UNCHANGED <<number, ready, place, inFlight, held, reported, closing>>
    BY <1>3 DEF ServerError
  <2>. QED
    BY <2>1, QuietMaps DEF Elsewhere, UnitOf, Life, Started, Excuse
<1>4. CASE Completes(c)
  <2>1. /\ inFlight[c] # "none" /\ inFlight' = [inFlight EXCEPT ![c] = "none"]
        /\ held' \in {held, held \union {c}} /\ place[c] = "session"
        /\ UNCHANGED <<number, ready, place, reported, closing>>
    BY <1>4 DEF Completes, Receives
  <2>2. c \in ready /\ Started(c)
    BY <2>1 DEF Known, Kept, Lane, Placed, Settled
  <2>3. /\ Elsewhere(c) /\ (Excuse' <=> Excuse)
        /\ UnitOf(c) = "flying" /\ UnitOf(c)' \in {"none", "held"}
        /\ Life(c) = "connected" /\ Life(c)' = "connected"
    BY <2>1, <2>2 DEF Elsewhere, UnitOf, Life, Started, Excuse, Known, Produced, WorkType
  <2>. QED  BY <2>1, <2>3, UnitMaps
<1>. QED  BY <1>1, <1>2, <1>3, <1>4


LEMMA SocketMaps ==
  ASSUME Known, Kept', NEW c \in Clients,
         \/ ClientEnd(c) \/ ClientError(c) \/ ClientClose(c)
         \/ UpstreamEnd(c) \/ UpstreamError(c) \/ UpstreamClose(c) \/ FailTimer(c)
  PROVE  Contract!Next \/ UNCHANGED Contract!vars
<1>1. ASSUME NEW fails \in BOOLEAN, FailsWhen(c, fails), UNCHANGED <<number, ready, held, closing>>,
             UNCHANGED admission
      PROVE  Contract!Next \/ UNCHANGED Contract!vars
  BY <1>1, EventMaps
<1>2. ASSUME NEW fails \in BOOLEAN, FailsWhen(c, fails), UNCHANGED <<number, ready, held, closing>>,
             NEW leaves \in BOOLEAN, place[c] = "session", RetireWhen(c, leaves)
      PROVE  Contract!Next \/ UNCHANGED Contract!vars
  <2>1. RetirementApart(c) /\ (place'[c] = place[c] \/ (place'[c] = "gone" /\ c \in closed'))
    BY <1>2, RetireEffect
  <2>. QED  BY <1>2, <2>1, EventMaps DEF RetirementApart
<1>3. CASE ClientEnd(c)
  <2>1. PICK halfFrame \in {FALSE, Faults} : ClientEnd(c)!(halfFrame)
    BY <1>3 DEF ClientEnd
  <2>. DEFINE fails == ~(closing \/ ~Listens(c)) /\ c \notin terminated /\ (Unfinished(c) \/ halfFrame)
  <2>2. fails \in BOOLEAN
    OBVIOUS
  <2>3. FailsWhen(c, fails) /\ UNCHANGED <<number, ready, held, closing, admission>>
    BY <2>1
  <2>. HIDE DEF fails
  <2>. QED  BY <2>2, <2>3, <1>1
<1>4. CASE ClientError(c)
  <2>. DEFINE fails == ~closing /\ c \notin terminated /\ Listens(c)
  <2>1. FailsWhen(c, fails) /\ UNCHANGED <<number, ready, held, closing, admission>>
    BY <1>4 DEF ClientError
  <2>2. fails \in BOOLEAN
    OBVIOUS
  <2>. HIDE DEF fails
  <2>. QED  BY <2>1, <2>2, <1>1
<1>5. CASE UpstreamEnd(c)
  <2>. DEFINE fails == /\ ~closing /\ Listens(c)
                       /\ Busy(c) \/ queue[c] # <<>> \/ (c \notin terminated /\ c \in ready)
  <2>1. FailsWhen(c, fails) /\ UNCHANGED <<number, ready, held, closing, admission>>
    BY <1>5 DEF UpstreamEnd
  <2>2. fails \in BOOLEAN
    OBVIOUS
  <2>. HIDE DEF fails
  <2>. QED  BY <2>1, <2>2, <1>1
<1>6. CASE UpstreamError(c)
  <2>. DEFINE fails == ~closing /\ Listens(c) /\ (c \notin terminated \/ inFlight[c] # "none")
  <2>1. FailsWhen(c, fails) /\ UNCHANGED <<number, ready, held, closing, admission>>
    BY <1>6 DEF UpstreamError
  <2>2. fails \in BOOLEAN
    OBVIOUS
  <2>. HIDE DEF fails
  <2>. QED  BY <2>1, <2>2, <1>1
<1>7. CASE ClientClose(c)
  <2>. DEFINE fails == ~closing /\ c \notin terminated /\ Listens(c) /\ Unfinished(c)
              leaves == upstream[c] = "closed"
  <2>1. /\ place[c] = "session" /\ FailsWhen(c, fails) /\ RetireWhen(c, leaves)
        /\ UNCHANGED <<number, ready, held, closing>>
    BY <1>7 DEF ClientClose
  <2>2. fails \in BOOLEAN /\ leaves \in BOOLEAN
    OBVIOUS
  <2>. HIDE DEF fails, leaves
  <2>. QED  BY <2>1, <2>2, <1>2
<1>8. CASE UpstreamClose(c)
  <2>. DEFINE fails == ~closing /\ Listens(c) /\ Busy(c)
              leaves == client[c] = "closed"
  <2>1. /\ place[c] = "session" /\ FailsWhen(c, fails) /\ RetireWhen(c, leaves)
        /\ UNCHANGED <<number, ready, held, closing>>
    BY <1>8 DEF UpstreamClose
  <2>2. fails \in BOOLEAN /\ leaves \in BOOLEAN
    OBVIOUS
  <2>. HIDE DEF fails, leaves
  <2>. QED  BY <2>1, <2>2, <1>2
<1>9. CASE FailTimer(c)
  <2>1. /\ c \in failed /\ Drop({c} \ closed)
        /\ UNCHANGED <<number, ready, held, closing, place, reported>>
    BY <1>9 DEF FailTimer
  <2>2. inFlight[c] = "none" /\ \A d \in Clients : inFlight'[d] = inFlight[d]
    <3>1. inFlight[c] = "none"
      BY <2>1 DEF Known, Kept, Lane, Settled, Listens
    <3>. QED  BY <2>1, <3>1 DEF Drop
  <2>. QED
    BY <2>1, <2>2, QuietMaps DEF Elsewhere, UnitOf, Life, Started, Excuse
<1>. QED  BY <1>3, <1>4, <1>5, <1>6, <1>7, <1>8, <1>9

LEMMA CloseMaps ==
  ASSUME Known, Close
  PROVE  Contract!Next
<1>1. /\ closing' = TRUE /\ Drop(Sessions \ closed)
      /\ place' = [d \in Clients |-> IF d = replacement.client THEN "gone" ELSE place[d]]
      /\ UNCHANGED <<number, ready, held>>
  BY DEF Close
<1>2. ASSUME NEW d \in Clients
      PROVE  Life(d)' = Life(d)
  <2>1. replacement.client = d => ~Started(d)
    <3>1. CASE replacement = NoReplacement
      BY <3>1, ActorProxyAssumption DEF NoReplacement
    <3>2. CASE replacement # NoReplacement
      BY <3>2 DEF Known, Limited, AdmissionSound, Kept, Lane, Placed
    <3>. QED  BY <3>1, <3>2
  <2>. QED  BY <1>1, <2>1 DEF Life, Started
<1>3. ASSUME NEW d \in Clients
      PROVE  UnitOf(d)' = (IF UnitOf(d) = "flying" THEN "none" ELSE UnitOf(d))
  <2>1. inFlight[d] # "none" => d \in Sessions \ closed /\ d \notin held
    BY DEF Known, Kept, Lane, Placed, Settled, Listens, Sessions
  <2>2. inFlight'[d] = "none"
    BY <1>1, <2>1 DEF Drop
  <2>. QED  BY <1>1, <2>1, <2>2 DEF UnitOf
<1>4. Contract!Close
  BY <1>1, <1>2, <1>3 DEF Contract!Close, UnitOf
<1>. QED  BY <1>4 DEF Contract!Next

LEMMA CloseTimerMaps ==
  ASSUME Known, CloseTimer
  PROVE  UNCHANGED Contract!vars
<1>1. ASSUME NEW d \in Clients
      PROVE  Life(d)' = Life(d)
  BY DEF CloseTimer, Known, Kept, Lane, Placed, Life, Started
<1>. QED  BY <1>1 DEF CloseTimer, Contract!vars

LEMMA NextMaps ==
  ASSUME Known, Kept', [Next]_vars
  PROVE  [Contract!Next]_(Contract!vars)
<1>1. ASSUME NEW c \in Clients,
             \/ Connect(c) \/ Abandon(c) \/ Refuse(c) \/ Startup(c) \/ CancelPacket(c)
             \/ RefusedCancelPacket(c) \/ CancelSettles(c)
      PROVE Contract!Next \/ UNCHANGED Contract!vars
  BY <1>1, UnstartedMaps, StartupMaps
<1>2. ASSUME NEW c \in Clients, NEW kind, EndCycle(c, kind)
      PROVE Contract!Next \/ UNCHANGED Contract!vars
  BY <1>2, ClientMaps DEF EndCycle
<1>3. ASSUME NEW c \in Clients,
             \/ BeginCycle(c) \/ Terminate(c) \/ Unsupported(c) \/ Release(c)
             \/ Connected(c) \/ ServerError(c) \/ Completes(c)
      PROVE Contract!Next \/ UNCHANGED Contract!vars
  BY <1>3, ClientMaps, PromisesMap
<1>4. ASSUME NEW c \in Clients,
             \/ ClientEnd(c) \/ ClientError(c) \/ ClientClose(c)
             \/ UpstreamEnd(c) \/ UpstreamError(c) \/ UpstreamClose(c) \/ FailTimer(c)
      PROVE Contract!Next \/ UNCHANGED Contract!vars
  BY <1>4, SocketMaps
<1>5. CASE Close \/ CloseTimer
  BY <1>5, CloseMaps, CloseTimerMaps
<1>6. CASE Done \/ UNCHANGED vars
  BY <1>6 DEF Done, vars, Contract!vars, Life, Started
<1>. QED  BY <1>1, <1>2, <1>3, <1>4, <1>5, <1>6 DEF Next, Application, Postgres

(* To the execution loop the proxy is the lanes it was promised, whatever  *)
(* the clients, PostgreSQL and the sockets do: lanes are numbered in the   *)
(* order of their startup, a unit is held, in flight or settled, and one   *)
(* is lost only when an error was reported or the proxy closes             *)
(* (src/types.ts: PendingUnit, ProxyEvent, ActorProxy).                    *)
THEOREM ProxyHonoursContract == Spec => HonoursLaneContract
<1>1. Init => Contract!Init
  BY DEF Init, Contract!Init, Life, Started
<1>2. Known /\ Known' /\ [Next]_vars => [Contract!Next]_(Contract!vars)
  BY NextMaps DEF Known
<1>. QED  BY <1>1, <1>2, AlwaysKnown, PTL DEF Spec, HonoursLaneContract, Contract!Spec

================================================================================
