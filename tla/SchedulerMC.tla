------------------------------ MODULE SchedulerMC ------------------------------
(* Values for the constants of Scheduler that a .cfg cannot write. *)
EXTENDS Scheduler

Alice == "alice"
Bob == "bob"
TwoActors == <<"alice", "bob">>

AnyLaneOf(a) == [actor |-> a, connection |-> AnyConnection]
LaneOf(a, n) == [actor |-> a, connection |-> n]

NoPlan == {<<>>}

MaybePair == { <<>>, << <<AnyLaneOf(Alice), AnyLaneOf(Bob)>> >> }

SomePlans ==
  { <<>>,
    << <<AnyLaneOf(Alice)>>, <<AnyLaneOf(Bob)>>, <<AnyLaneOf(Alice), AnyLaneOf(Bob)>> >>,
    << <<LaneOf(Bob, 0), AnyLaneOf(Alice)>>, <<AnyLaneOf(Alice)>> >>,
    << <<LaneOf(Alice, 1)>>, <<AnyLaneOf(Alice)>> >>,
    << <<AnyLaneOf(Alice), LaneOf(Alice, 0)>>, <<AnyLaneOf(Bob)>> >> }
================================================================================
