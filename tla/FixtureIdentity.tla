---------------------------- MODULE FixtureIdentity ----------------------------
(***************************************************************************)
(* captureFixtureIdentity() of src/fixture-identity.ts: the fixture that   *)
(* setup has left in the owned database is fingerprinted through one       *)
(* read-only connection, while a session that setup forgot may still be at *)
(* work.  PostgreSQL is external: tables are read as of a snapshot,        *)
(* sequences as they are, for they follow no transaction.                  *)
(*                                                                         *)
(* A relation is the number of its rows, or the value of its sequence.     *)
(***************************************************************************)
EXTENDS Naturals, Sequences, FiniteSets

CONSTANTS
  Relations,     \* tables and sequences by name, in the order they are read
  Counters,      \* the sequences among them
  Setups,        \* what setup may leave in them
  MaxRows,       \* options.maxRows
  MaxForgotten   \* bound: transactions of the forgotten session

Relation == {Relations[i] : i \in DOMAIN Relations}

ASSUME FixtureAssumption ==
  /\ Relations \in Seq(Relation)
  /\ Counters \subseteq Relation
  /\ Setups \subseteq [Relation -> Nat]
  /\ MaxRows \in Nat /\ MaxForgotten \in Nat

VARIABLES
  data,       \* what is committed, and the sequences
  forgotten,  \* the forgotten session: its transaction and what it changes
  fixture     \* the capture

fixtureVars == <<data, forgotten, fixture>>

Tables == Relation \ Counters

IdleFixture ==
  [at |-> "idle", snapshot |-> <<>>, read |-> <<>>, next |-> 1, rows |-> 0,
   settled |-> <<>>, ended |-> <<>>, inside |-> FALSE]

FixtureInit ==
  /\ data \in Setups
  /\ \E n \in 0 .. MaxForgotten :
       forgotten = [state |-> "idle", changed |-> {}, left |-> n, since |-> "idle"]
  /\ fixture = IdleFixture

-----------------------------------------------------------------------------
(* The forgotten session *)
ForgottenBegins ==
  /\ forgotten.state = "idle"
  /\ forgotten.left > 0
  /\ forgotten' = [forgotten EXCEPT !.state = "open", !.changed = {}, !.left = @ - 1,
                                    !.since = fixture.at]
  /\ UNCHANGED <<data, fixture>>

(* nextval() takes effect at once, for all to see. *)
ForgottenChanges(r) ==
  /\ forgotten.state = "open"
  /\ r \notin forgotten.changed
  /\ forgotten' = [forgotten EXCEPT !.changed = @ \union {r}]
  /\ data' = IF r \in Counters THEN [data EXCEPT ![r] = @ + 1] ELSE data
  /\ UNCHANGED fixture

Capturing == fixture.at \notin {"idle", "connect", "captured", "failed"}

ForgottenEnds ==
  /\ forgotten.state = "open"
  /\ forgotten' = [forgotten EXCEPT !.state = "idle"]
  /\ \E kept \in {Tables \intersect forgotten.changed, {}} :
       data' = [r \in Relation |-> IF r \in kept THEN data[r] + 1 ELSE data[r]]
  /\ fixture' = [fixture EXCEPT !.inside = @ \/ (Capturing /\ forgotten.since \notin {"idle", "connect"})]

Forgotten == ForgottenBegins \/ (\E r \in Relation : ForgottenChanges(r)) \/ ForgottenEnds

-----------------------------------------------------------------------------
FixtureGoes(f) == fixture' = f /\ UNCHANGED <<data, forgotten>>

FixtureFails == FixtureGoes([fixture EXCEPT !.at = "failed"])

FixtureStart == fixture.at = "idle" /\ FixtureGoes([fixture EXCEPT !.at = "connect"])

(* quiescent(): no other session works or has a transaction open. *)
Quiescent == forgotten.state = "idle"

FixtureConnect ==
  /\ fixture.at = "connect"
  /\ IF Quiescent THEN FixtureGoes([fixture EXCEPT !.at = "begin"]) ELSE FixtureFails

(* BEGIN ISOLATION LEVEL REPEATABLE READ READ ONLY, and its first query *)
FixtureBegin ==
  /\ fixture.at = "begin"
  /\ FixtureGoes([fixture EXCEPT !.at = "read", !.snapshot = data])

(* Mutation: the transaction is read committed. *)
VisibleCommitted(r) == data[r]

(* What a query of the capture's transaction sees of r *)
Visible(r) == IF r \in Counters THEN data[r] ELSE fixture.snapshot[r]

(* account(): rows beyond the budget end the capture. *)
FixtureRead ==
  /\ fixture.at = "read"
  /\ fixture.next <= Len(Relations)
  /\ LET r    == Relations[fixture.next]
         rows == fixture.rows + IF r \in Tables THEN Visible(r) ELSE 0
     IN  IF rows > MaxRows
         THEN FixtureFails
         ELSE FixtureGoes([fixture EXCEPT !.rows = rows, !.next = @ + 1,
                                          !.read = Append(@, Visible(r))])

FixtureReadAll ==
  /\ fixture.at = "read"
  /\ fixture.next > Len(Relations)
  /\ FixtureGoes([fixture EXCEPT !.at = "recheck", !.next = 1, !.settled = data])

(* Mutation: sequences are not read again. *)
MovedUnseen(i) == FALSE

(* Sequences must not have moved since they were read. *)
Moved(i) == Relations[i] \in Counters /\ data[Relations[i]] # fixture.read[i]

FixtureRecheck ==
  /\ fixture.at = "recheck"
  /\ IF fixture.next > Len(Relations)
     THEN FixtureGoes([fixture EXCEPT !.at = "commit"])
     ELSE IF Moved(fixture.next)
          THEN FixtureFails
          ELSE FixtureGoes([fixture EXCEPT !.next = @ + 1])

FixtureCommit ==
  /\ fixture.at = "commit"
  /\ IF Quiescent
     THEN FixtureGoes([fixture EXCEPT !.at = "captured", !.ended = data])
     ELSE FixtureFails

(* The deadline, the caller's signal, or a failing query: interrupt() has  *)
(* the last word whatever run() is waiting for.                            *)
FixtureTrouble == fixture.at \notin {"idle", "captured", "failed"} /\ FixtureFails

FixtureStep ==
  \/ FixtureConnect
  \/ FixtureBegin
  \/ FixtureRead
  \/ FixtureReadAll
  \/ FixtureRecheck
  \/ FixtureCommit

-----------------------------------------------------------------------------
Seen(r) == fixture.read[CHOOSE i \in DOMAIN Relations : Relations[i] = r]

(* A captured fixture has its tables as they were together at one moment,  *)
(* and its sequences as they were together at another, after all had been  *)
(* read.  Both are what the database holds when the capture ends, unless a *)
(* transaction has begun and ended wholly between the two looks for other  *)
(* sessions: that is what the caller has to rule out (code:                *)
(* captureFixtureIdentity, quiescent; its doc comment, "sequences are not  *)
(* MVCC snapshots").                                                       *)
FixtureIsOneState ==
  fixture.at = "captured" =>
    /\ \A r \in Tables : Seen(r) = fixture.snapshot[r]
    /\ \A r \in Counters : Seen(r) = fixture.settled[r]
    /\ ~fixture.inside => \A r \in Relation : Seen(r) = fixture.ended[r]
=============================================================================
