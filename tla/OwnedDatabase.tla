----------------------------- MODULE OwnedDatabase -----------------------------
(***************************************************************************)
(* src/database.ts: creation and removal of the database one execution     *)
(* owns.  Its name is generated; nothing but the answer to CREATE DATABASE *)
(* tells a database of that name from one that was already there, and the  *)
(* answer may be lost while the server has executed the statement, or will.*)
(***************************************************************************)
CONSTANT Unreliable  \* connections to PostgreSQL (and to Docker) may fail

ASSUME UnreliableAssumption == Unreliable \in BOOLEAN

VARIABLES
  database,  \* what the server holds under the name: "none", "ours" or "foreign"
  request,   \* CREATE DATABASE: "none", "sent", or its answer "created" or "refused"
  handle     \* createOwnedDatabase(), its creationState, and close()

owned == <<database, request, handle>>

Handles ==
  {"none", "connecting", "creating", "attaching", "recovering", "open", "closed",
   "failed", "uncertain", "unclean"}

DatabaseInit ==
  /\ database \in {"none", "foreign"}
  /\ request = "none" /\ handle = "none"

SendCreate ==
  /\ handle = "connecting"
  /\ handle' = "creating" /\ request' = "sent"
  /\ UNCHANGED database

ConnectFails ==
  /\ handle = "connecting" /\ Unreliable
  /\ handle' = "failed"
  /\ UNCHANGED <<database, request>>

(* The server, even when nobody waits for its answer any more. *)
Execute ==
  /\ request = "sent"
  /\ \/ database = "none" /\ database' = "ours" /\ request' = "created"
     \/ (database # "none" \/ Unreliable) /\ request' = "refused" /\ UNCHANGED database
  /\ UNCHANGED handle

Confirmed ==
  /\ handle = "creating" /\ request = "created"
  /\ handle' = "attaching" /\ request' = "none"
  /\ UNCHANGED database

(* A definite ERROR of the server proves that CREATE did not succeed. *)
Rejected ==
  /\ handle = "creating" /\ request = "refused"
  /\ handle' = "failed" /\ request' = "none"
  /\ UNCHANGED database

Attached ==
  /\ handle = "attaching" /\ handle' = "open"
  /\ UNCHANGED <<database, request>>

AttachFails ==
  /\ handle = "attaching" /\ Unreliable
  /\ handle' = "recovering"
  /\ UNCHANGED <<database, request>>

(* Mutation: the generated name is dropped as if it were proof of ownership. *)
AfterLossDrop == "recovering"

(* Without an answer the name is reported, never dropped. *)
AfterLoss == "uncertain"

Lost ==
  /\ handle = "creating" /\ Unreliable
  /\ handle' = AfterLoss
  /\ request' \in {request, "none"}
  /\ UNCHANGED database

(* cleanupGeneratedDatabase(): terminate the sessions and drop the name.   *)
(* It fails when a client cannot be closed or an answer is lost, which     *)
(* tells nothing about whether the database is gone.                       *)
CleanUp(ok) ==
  /\ ok \/ Unreliable
  /\ database' \in IF ok THEN {"none"} ELSE {"none", database}

(* Mutation: a failed recovery is reported as the failure it recovered from. *)
RecoveredAnyhow(ok) == "failed"

Recovered(ok) == IF ok THEN "failed" ELSE "uncertain"

Recover(ok) ==
  /\ handle = "recovering" /\ CleanUp(ok)
  /\ handle' = Recovered(ok)
  /\ UNCHANGED request

CloseDatabase(ok) ==
  /\ handle = "open" /\ CleanUp(ok)
  /\ handle' = IF ok THEN "closed" ELSE "unclean"
  /\ UNCHANGED request

Creating ==
  \/ SendCreate \/ ConnectFails \/ Confirmed \/ Rejected \/ Lost \/ Attached \/ AttachFails
  \/ \E ok \in BOOLEAN : Recover(ok)
================================================================================
