------------------------------ MODULE Regression ------------------------------
(***************************************************************************)
(* What becomes of a recorded run: its record is written to a file, its    *)
(* regression is exported and installed, and it is replayed on a fixture   *)
(* that must be the recorded one.  Each is a command of its own that       *)
(* shares only the record with the others, so a behaviour is one of them.  *)
(***************************************************************************)
EXTENDS RegressionFolder, ArtifactFile, Replay

VARIABLES task   \* "write", "export", "capture" a fixture, or "replay"

vars == <<task, folderVars, artifactVars, fixtureVars, replayVars>>

Init ==
  /\ task \in {"write", "export", "capture", "replay"}
  /\ FolderInit
  /\ ArtifactInit
  /\ FixtureInit
  /\ ReplayInit
  \* The other commands stand still, each in one state.
  /\ task # "export" => recorded = IdentityOf([p \in Parts |-> CHOOSE s \in Starts : TRUE])
  /\ task # "replay" => faithful /\ recording = CHOOSE r \in Recordings : TRUE
  /\ faithful => \A i \in DOMAIN Relations : data[Relations[i]] = recording.fixture[i]
  \* What a forgotten session can do is seen in "capture".
  /\ forgotten.left = IF task = "capture" THEN MaxForgotten ELSE 0

Programs ==
  \/ /\ task = "write"
     /\ \E w \in Writers : WriterStep(w)
     /\ UNCHANGED <<task, folderVars, fixtureVars, replayVars>>
  \/ /\ task = "export"
     /\ FolderStep
     /\ UNCHANGED <<task, artifactVars, fixtureVars, replayVars>>
  \/ /\ task = "capture"
     /\ FixtureStart \/ FixtureStep
     /\ UNCHANGED <<task, folderVars, artifactVars, replayVars>>
  \/ /\ task = "replay"
     /\ \/ ReplayStart \/ ReplayFixture \/ ReplayStep
        \/ FixtureStep /\ UNCHANGED replayVars
     /\ UNCHANGED <<task, folderVars, artifactVars>>

(* Nothing makes these happen, and nothing prevents them.                  *)
Faults ==
  \/ /\ task = "write"
     /\ ArtifactFault
     /\ UNCHANGED <<task, folderVars, fixtureVars, replayVars>>
  \/ /\ task = "export"
     /\ FolderTrouble \/ Edit \/ Occupy
     /\ UNCHANGED <<task, artifactVars, fixtureVars, replayVars>>
  \/ /\ task = "capture"
     /\ FixtureTrouble \/ Forgotten
     /\ UNCHANGED <<task, folderVars, artifactVars, replayVars>>
  \/ /\ task = "replay"
     /\ ~faithful /\ FixtureTrouble
     /\ UNCHANGED <<task, folderVars, artifactVars, replayVars>>

(* The replay's deadline is a timer: it fires if nothing else ends it. *)
Deadline ==
  /\ task = "replay"
  /\ ReplayTrouble
  /\ UNCHANGED <<task, folderVars, artifactVars>>

Over ==
  CASE task = "write"   -> \A w \in Writers : ~Running(w)
    [] task = "export"  -> FolderOver
    [] task = "capture" -> fixture.at \in {"captured", "failed"}
    [] task = "replay"  -> ReplayOver

Done == Over /\ UNCHANGED vars

Next ==
  \/ Programs
  \/ Faults
  \/ Deadline
  \/ Done

Spec == Init /\ [][Next]_vars /\ WF_vars(Programs) /\ WF_vars(Deadline)

-----------------------------------------------------------------------------
(* What a run is bound to is what was there: the identity of its sources   *)
(* and that of its fixture each describe one state.                        *)
IdentitiesAreSnapshots == CapturesAreSnapshots /\ FixtureIsOneState

(* Every command ends, whatever others do to its files; and the replay of  *)
(* an application that connects in the recorded order, issues its commands *)
(* within the loop's patience and is answered as before ends with a        *)
(* verdict, though its first commands do not tell its connections apart    *)
(* (code: LaneBinder.resolve, src/lanes.ts:323-336).                       *)
RegressionEnds ==
  /\ <>Over
  /\ (task = "replay" /\ faithful) => <>(replay.at = "verdict")
=============================================================================
