----------------------------- MODULE ArtifactFile -----------------------------
(***************************************************************************)
(* writeRunArtifact() of src/artifact.ts: several processes write a run's  *)
(* record to the same path, each through a temporary file of its own, and  *)
(* each may die, as may the machine, between any two steps.                *)
(*                                                                         *)
(* A directory entry names a file; a file is what its writer has put into  *)
(* it: "none", "part" or "whole", and what of that a power loss spares.    *)
(* The entry of the path is spared only by a directory sync: until then    *)
(* the disk may keep any of the entries it has had since the last one.     *)
(***************************************************************************)
EXTENDS Naturals, FiniteSets

CONSTANTS
  Writers,
  Overwriting,  \* the writers called with { overwrite: true }
  Nobody        \* no writer

ASSUME ArtifactFileAssumption == Overwriting \subseteq Writers /\ Nobody \notin Writers

VARIABLES
  path,         \* the file at the path: its writer, or Nobody
  kept,         \* the entries that the path may have after a power loss
  bytes,        \* bytes[w]: what w's file holds
  safe,         \* safe[w]: what it is sure to hold after a power loss
  temps,        \* the writers whose temporary file has an entry
  writer,       \* writer[w]: where its call stands
  replaced      \* <<w, v>>: the record of w at the path gave way to that of v

artifactVars == <<path, kept, bytes, safe, temps, writer, replaced>>

ArtifactInit ==
  /\ path = Nobody
  /\ kept = {Nobody}
  /\ bytes = [w \in Writers |-> "none"]
  /\ safe = [w \in Writers |-> "none"]
  /\ temps = {}
  /\ writer = [w \in Writers |-> "called"]
  /\ replaced = {}

At(w, stage) == writer[w] = stage

Moves(w, stage) == writer' = [writer EXCEPT ![w] = stage]

(* Flag 'wx', under a name of its own *)
Open(w) ==
  /\ At(w, "called")
  /\ temps' = temps \union {w}
  /\ Moves(w, "open")
  /\ UNCHANGED <<path, kept, bytes, safe, replaced>>

Write(w) ==
  /\ At(w, "open")
  /\ bytes[w] # "whole"
  /\ bytes' = [bytes EXCEPT ![w] = IF @ = "none" THEN "part" ELSE "whole"]
  /\ UNCHANGED <<path, kept, safe, temps, writer, replaced>>

(* Mutation: the file is not flushed before it is published. *)
SyncFileNot(w) ==
  /\ At(w, "open")
  /\ bytes[w] = "whole"
  /\ Moves(w, "synced")
  /\ UNCHANGED <<path, kept, bytes, safe, temps, replaced>>

SyncFile(w) ==
  /\ At(w, "open")
  /\ bytes[w] = "whole"
  /\ safe' = [safe EXCEPT ![w] = bytes[w]]
  /\ Moves(w, "synced")
  /\ UNCHANGED <<path, kept, bytes, temps, replaced>>

(* Mutation: every call renames. *)
MayPublishAlways(w) == TRUE

(* rename() replaces what is there; link() refuses to (EEXIST). *)
MayPublish(w) == w \in Overwriting \/ path = Nobody

Publish(w) ==
  /\ At(w, "synced")
  /\ MayPublish(w)
  /\ path' = w
  /\ kept' = kept \union {w}
  /\ replaced' = replaced \union (({path} \ {Nobody}) \X {w})
  /\ temps' = IF w \in Overwriting THEN temps \ {w} ELSE temps
  /\ Moves(w, IF w \in Overwriting THEN "published" ELSE "linked")
  /\ UNCHANGED <<bytes, safe>>

Refuse(w) ==
  /\ At(w, "synced")
  /\ ~MayPublish(w)
  /\ Moves(w, "failing")
  /\ UNCHANGED <<path, kept, bytes, safe, temps, replaced>>

Unlink(w) ==
  /\ At(w, "linked")
  /\ temps' = temps \ {w}
  /\ Moves(w, "published")
  /\ UNCHANGED <<path, kept, bytes, safe, replaced>>

(* syncDirectory(): the entry that the path has now is the one it keeps. *)
SyncDirectory(w) ==
  /\ At(w, "published")
  /\ kept' = {path}
  /\ Moves(w, "written")
  /\ UNCHANGED <<path, bytes, safe, temps, replaced>>

(* An operation fails: the disk is full, the handle cannot be flushed. *)
ArtifactTrouble(w) ==
  /\ writer[w] \in {"called", "open", "synced", "linked", "published"}
  /\ Moves(w, "failing")
  /\ UNCHANGED <<path, kept, bytes, safe, temps, replaced>>

(* finally: the temporary file is removed, if it can be. *)
Cleanup(w) ==
  /\ At(w, "failing")
  /\ temps' = temps \ {w}
  /\ Moves(w, "failed")
  /\ UNCHANGED <<path, kept, bytes, safe, replaced>>

Running(w) == writer[w] \notin {"written", "failed", "dead"}

(* The process is killed. *)
Die(w) ==
  /\ Running(w)
  /\ Moves(w, "dead")
  /\ UNCHANGED <<path, kept, bytes, safe, temps, replaced>>

(* Power is lost: what was not synced is there or not, in any state.       *)
PowerLoss ==
  /\ path' \in kept
  /\ kept' = {path'}
  /\ bytes' \in {b \in [Writers -> {"none", "part", "whole"}] :
                   \A w \in Writers : b[w] \in {safe[w], bytes[w]}}
  /\ writer' = [w \in Writers |-> IF Running(w) THEN "dead" ELSE writer[w]]
  /\ UNCHANGED <<safe, temps, replaced>>

WriterStep(w) ==
  \/ Open(w)
  \/ Write(w)
  \/ SyncFile(w)
  \/ Publish(w)
  \/ Refuse(w)
  \/ Unlink(w)
  \/ SyncDirectory(w)
  \/ Cleanup(w)

ArtifactFault == PowerLoss \/ \E w \in Writers : ArtifactTrouble(w) \/ Die(w)

-----------------------------------------------------------------------------
(* At every moment, after any crash too, the path holds nothing or one     *)
(* writer's whole record: readRunArtifact() never sees half of one.  Only  *)
(* a call that was asked to overwrite replaces a record.  A call that      *)
(* returned has left its record there, or one that was to overwrite it, to *)
(* survive every later crash; and one that ended in any way but a crash    *)
(* has removed its temporary file (code: writeRunArtifact, syncDirectory,  *)
(* src/artifact.ts).                                                       *)
RecordIsWhole ==
  /\ path # Nobody => bytes[path] = "whole"
  /\ \A r \in replaced : r[2] \in Overwriting
  /\ \A w \in Writers : At(w, "written") => path \in {w} \union Overwriting
  /\ \A w \in Writers : writer[w] \in {"written", "failed"} => w \notin temps
=============================================================================
