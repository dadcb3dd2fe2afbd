----------------------------- MODULE LaneContract -----------------------------
(***************************************************************************)
(* What an actor's proxy promises the execution loop through its three     *)
(* callbacks and the promises of its releases (src/types.ts: PendingUnit,  *)
(* ProxyEvent, ActorProxy).                                                *)
(*                                                                         *)
(* A lane is one physical connection of the actor.  It starts, connects    *)
(* and disconnects once; it holds at most one unit or has one in flight;   *)
(* a released unit settles; and work is lost only when the proxy has       *)
(* reported an error or is being closed.                                   *)
(***************************************************************************)
EXTENDS Integers, FiniteSets

CONSTANT Connections

VARIABLES
  life,       \* [Connections -> "none", "started", "connected", "disconnected"]
  generation, \* [Connections -> number reported at startup, -1 before]
  unit,       \* [Connections -> "none", "held", "flying"]
  excused     \* an error was reported, or the proxy is closing

vars == <<life, generation, unit, excused>>

Lives == {"none", "started", "connected", "disconnected"}

Init ==
  /\ life = [c \in Connections |-> "none"]
  /\ generation = [c \in Connections |-> -1]
  /\ unit = [c \in Connections |-> "none"]
  /\ excused = FALSE

(* The connections of an actor are numbered in the order of their startup. *)
Start(c) ==
  /\ life[c] = "none"
  /\ life' = [life EXCEPT ![c] = "started"]
  /\ generation' = [generation EXCEPT ![c] = Cardinality({d \in Connections : life[d] # "none"})]
  /\ UNCHANGED <<unit, excused>>

(* A unit that was sent ahead may be held as soon as the lane connects. *)
Connect(c) ==
  /\ life[c] = "started"
  /\ life' = [life EXCEPT ![c] = "connected"]
  /\ \E next \in {"none", "held"} : unit' = [unit EXCEPT ![c] = next]
  /\ UNCHANGED <<generation, excused>>

Hold(c) ==
  /\ life[c] = "connected" /\ unit[c] = "none"
  /\ unit' = [unit EXCEPT ![c] = "held"]
  /\ UNCHANGED <<life, generation, excused>>

(* A release puts the unit in flight; it is refused only with an excuse. *)
Release(c) ==
  /\ unit[c] = "held"
  /\ \/ life[c] = "connected" /\ unit' = [unit EXCEPT ![c] = "flying"]
     \/ excused /\ unit' = [unit EXCEPT ![c] = "none"]
  /\ UNCHANGED <<life, generation, excused>>

(* PostgreSQL has answered; the next unit may be held at once. *)
Resolve(c) ==
  /\ life[c] = "connected" /\ unit[c] = "flying"
  /\ \E next \in {"none", "held"} : unit' = [unit EXCEPT ![c] = next]
  /\ UNCHANGED <<life, generation, excused>>

(* An error of lane c: it is reported, its unit in flight rejects, and the *)
(* lane may be gone with it.                                               *)
Lose(c) ==
  /\ excused' = TRUE
  /\ unit' = [unit EXCEPT ![c] = IF @ = "flying" THEN "none" ELSE @]
  /\ \/ life' = life
     \/ life[c] \in {"started", "connected"} /\ life' = [life EXCEPT ![c] = "disconnected"]
  /\ generation' = generation

(* The proxy closes: every unit in flight rejects. *)
Close ==
  /\ excused' = TRUE
  /\ unit' = [c \in Connections |-> IF unit[c] = "flying" THEN "none" ELSE unit[c]]
  /\ UNCHANGED <<life, generation>>

(* A lane disconnects with nothing in flight; a unit is left behind only   *)
(* with an excuse.                                                         *)
Disconnect(c) ==
  /\ life[c] \in {"started", "connected"}
  /\ unit[c] # "flying"
  /\ unit[c] = "held" => excused
  /\ life' = [life EXCEPT ![c] = "disconnected"]
  /\ UNCHANGED <<generation, unit, excused>>

Next ==
  \/ \E c \in Connections :
       \/ Start(c) \/ Connect(c) \/ Hold(c) \/ Release(c)
       \/ Resolve(c) \/ Lose(c) \/ Disconnect(c)
  \/ Close

Spec == Init /\ [][Next]_vars
================================================================================
