---------------------------- MODULE ReleaseContract ----------------------------
(***************************************************************************)
(* What the execution loop of src/runner.ts promises about every release,  *)
(* whatever the lanes, plans and database do: a unit is released only      *)
(*   - when every other unit in flight has been confirmed waiting by an    *)
(*     observation made after the last runtime event (a release, a         *)
(*     completion, a connection change, an acknowledged cancel), and while *)
(*     some wait only for their clients, only those clients' actors go on; *)
(*   - when every actor is accounted for: settled, holding a command, or   *)
(*     with one in flight;                                                 *)
(*   - and while no forwarded cancel request awaits PostgreSQL.            *)
(***************************************************************************)
EXTENDS Naturals

CONSTANTS
  Actors,    \* the scenario's actors
  Lane,      \* the lanes, records with a field actor
  Cancels,   \* identifiers of the cancel requests
  MaxGroup   \* units one decision may release: 2 with overlap pairs, else 1

VARIABLES
  held,       \* lanes whose next unit waits at the scheduler
  flying,     \* lanes whose released unit has not completed
  confirmed,  \* [Lane -> what an observation since the last event confirmed]
  settled,    \* actors whose operation has returned or thrown
  cancels     \* forwarded cancel requests PostgreSQL has not acknowledged

vars == <<held, flying, confirmed, settled, cancels>>

Confirmation == {"nothing", "lock", "client"}

Init ==
  /\ held = {} /\ flying = {} /\ settled = {} /\ cancels = {}
  /\ confirmed = [l \in Lane |-> "nothing"]

Forget == confirmed' = [l \in Lane |-> "nothing"]

(* A client's next command arrives at the scheduler and is held. *)
Hold(l) ==
  /\ l \notin held
  /\ held' = held \union {l}
  /\ UNCHANGED <<flying, confirmed, settled, cancels>>

(* PostgreSQL is observed while it waits on behalf of l. *)
Confirm(l, w) ==
  /\ l \in flying
  /\ confirmed' = [confirmed EXCEPT ![l] = w]
  /\ UNCHANGED <<held, flying, settled, cancels>>

(* A unit ends, a connection comes or goes: earlier observations are void. *)
RuntimeEvent ==
  /\ flying' \subseteq flying
  /\ Forget
  /\ UNCHANGED <<held, settled, cancels>>

Settle(a) ==
  /\ settled' = settled \union {a}
  /\ UNCHANGED <<held, flying, confirmed, cancels>>

CancelForwarded(c) ==
  /\ cancels' = cancels \union {c}
  /\ UNCHANGED <<held, flying, confirmed, settled>>

CancelAcknowledged(c) ==
  /\ cancels' = cancels \ {c}
  /\ Forget
  /\ UNCHANGED <<held, flying, settled>>

Accounted(a) ==
  a \in settled \/ \E l \in held \union flying : l.actor = a

(* Actors with a unit in flight that waits only for its own client. *)
Awaited == {n.actor : n \in {n \in flying : confirmed[n] = "client"}}

(* The units in flight leave room for l. *)
Yields(l) ==
  /\ \A n \in flying : confirmed[n] # "nothing"
  /\ Awaited = {} \/ l.actor \in Awaited

Release(l, m) ==
  /\ {l, m} \subseteq held \ flying
  /\ l # m => MaxGroup = 2
  /\ Yields(l) /\ Yields(m)
  /\ \A a \in Actors : Accounted(a)
  /\ cancels = {}
  /\ held' = held \ {l, m}
  /\ flying' = flying \union {l, m}
  /\ Forget
  /\ UNCHANGED <<settled, cancels>>

Next ==
  \/ \E l \in Lane :
       \/ Hold(l)
       \/ \E w \in Confirmation : Confirm(l, w)
       \/ \E m \in Lane : Release(l, m)
  \/ RuntimeEvent
  \/ \E a \in Actors : Settle(a)
  \/ \E c \in Cancels : CancelForwarded(c) \/ CancelAcknowledged(c)

Spec == Init /\ [][Next]_vars
================================================================================
