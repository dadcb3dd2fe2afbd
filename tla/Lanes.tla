--------------------------------- MODULE Lanes ---------------------------------
(***************************************************************************)
(* Lane selection of src/lanes.ts.  A lane is one admitted connection      *)
(* generation of an actor, `actor#n`.  The operators are pure: the caller  *)
(* passes the view of the lanes that it decides on.                        *)
(***************************************************************************)
EXTENDS Integers, Sequences

CONSTANTS
  Names,         \* the scenario's actors in order: a sequence without repetition
  Generations    \* bound: connection generations one actor opens

ASSUME NamesAssumption ==
  /\ Names \in Seq(STRING)
  /\ Len(Names) > 0
  /\ \A i, j \in 1 .. Len(Names) : Names[i] = Names[j] => i = j

ASSUME GenerationsAssumption == Generations \in Nat \ {0}

Actors == {Names[i] : i \in 1 .. Len(Names)}

Lane == [actor : Actors, connection : 0 .. Generations - 1]

(***************************************************************************)
(* A plan entry names an actor, or one lane of it; a choice is one entry,  *)
(* or two for an overlapped pair; a plan is a sequence of choices.         *)
(***************************************************************************)
AnyConnection == -1

Entry == [actor : Actors, connection : {AnyConnection} \union (0 .. Generations - 1)]

SameActor(l, m) == l.actor = m.actor

(***************************************************************************)
(* What validatePlanEntries() accepts.  multi is the multi-producer        *)
(* profile and pairs the overlap option.                                   *)
(***************************************************************************)
ValidChoice(choice, multi, pairs) ==
  /\ Len(choice) = 1 \/ (Len(choice) = 2 /\ pairs)
  /\ \A i \in DOMAIN choice : choice[i].connection # AnyConnection => multi
  /\ Len(choice) = 2 /\ SameActor(choice[1], choice[2])
       => multi /\ (choice[1].connection = AnyConnection
                      \/ choice[1].connection # choice[2].connection)

ValidPlan(plan, multi, pairs) ==
  \A i \in DOMAIN plan : ValidChoice(plan[i], multi, pairs)

-----------------------------------------------------------------------------
(***************************************************************************)
(* fairLane(): rotate among actors after the actor released last, then     *)
(* among that actor's lanes after the lane it released last.  start is the *)
(* number of actors to rotate by; last[a] is a's last connection, -1 when  *)
(* it has none.                                                            *)
(***************************************************************************)
Position(a) == CHOOSE i \in 1 .. Len(Names) : Names[i] = a

Turn(a, start) == (Position(a) - 1 - start) % Len(Names)

BeforeInActor(m, n, previous) ==
  IF (m > previous) = (n > previous) THEN m <= n ELSE m > previous

NoFairRotation(S, start, last) ==
  {l \in S : \A m \in S : Position(l.actor) <= Position(m.actor)}

FairLanes(S, start, last) ==
  {l \in S : \A m \in S :
     /\ Turn(l.actor, start) <= Turn(m.actor, start)
     /\ SameActor(l, m) => BeforeInActor(l.connection, m.connection, last[l.actor])}

(***************************************************************************)
(* resolvePlanEntry(): an actor entry takes the fair choice among the      *)
(* actor's own lanes that can be released; a lane entry takes its lane,    *)
(* waits while that lane may still queue a command, and is incompatible    *)
(* once it cannot.  releasable, busy (running), closed are sets of lanes   *)
(* and settled tells whether the entry's actor has settled.                *)
(***************************************************************************)
Resolution(e, releasable, busy, closed, settled, last) ==
  LET own  == {l \in releasable : l.actor = e.actor}
      lane == [actor |-> e.actor, connection |-> e.connection]
  IN  IF e.connection = AnyConnection
      THEN IF own = {}
           THEN [kind |-> "incompatible", lanes |-> {}]
           ELSE [kind |-> "release", lanes |-> FairLanes(own, 0, last)]
      ELSE IF lane \in releasable
           THEN [kind |-> "release", lanes |-> {lane}]
           ELSE IF settled \/ lane \in busy \union closed
                THEN [kind |-> "incompatible", lanes |-> {}]
                ELSE [kind |-> "wait", lanes |-> {}]
================================================================================
