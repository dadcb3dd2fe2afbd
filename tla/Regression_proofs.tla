--------------------------- MODULE Regression_proofs ---------------------------
(***************************************************************************)
(* What Regression promises of the file that a record is written to, of    *)
(* the fixture it is bound to, of what others own in the exported folder   *)
(* and of what that folder holds, for every number of writers, relations,  *)
(* files and edits.                                                        *)
(***************************************************************************)
EXTENDS Regression, SequenceTheorems, TLAPS

-----------------------------------------------------------------------------
(***************************************************************************)
(* The record's file.                                                      *)
(***************************************************************************)
Amounts == {"none", "part", "whole"}

Stages == {"called", "open", "synced", "linked", "published", "written", "failing", "failed",
           "dead"}

FileTyped ==
  /\ path \in Writers \union {Nobody} /\ kept \subseteq Writers \union {Nobody}
  /\ bytes \in [Writers -> Amounts] /\ safe \in [Writers -> Amounts]
  /\ temps \subseteq Writers /\ writer \in [Writers -> Stages]

(* What may be at the path after a power loss was flushed before it could  *)
(* be, and what was flushed is in the file.                                *)
Flushed ==
  /\ path \in kept
  /\ \A w \in Writers :
       /\ safe[w] = "whole" => bytes[w] = "whole"
       /\ writer[w] \in {"synced", "linked", "published", "written"} => safe[w] = "whole"
       /\ w \in kept => safe[w] = "whole"

(* A record at the path gives way only to a call that overwrites: at once  *)
(* for those who look, and after a directory sync for those after a crash. *)
Overwritten ==
  /\ \A r \in replaced : r[2] \in Overwriting
  /\ \A w \in Writers :
       /\ writer[w] \in {"linked", "published"} => path \in {w} \union Overwriting
       /\ writer[w] = "written" => kept \subseteq {w} \union Overwriting

Removed == \A w \in Writers : writer[w] \in {"published", "written", "failed"} => w \notin temps

Whole == FileTyped /\ Flushed /\ Overwritten /\ Removed

ArtifactNext == (\E w \in Writers : WriterStep(w)) \/ ArtifactFault

LEMMA WholeInit == ArtifactInit => Whole
  BY ArtifactFileAssumption
     DEF ArtifactInit, Whole, FileTyped, Flushed, Overwritten, Removed, Amounts, Stages

LEMMA WholeIsRecord == Whole => RecordIsWhole
  BY ArtifactFileAssumption
     DEF Whole, FileTyped, Flushed, Overwritten, Removed, RecordIsWhole, At

LEMMA PublishWhole ==
  ASSUME Whole, NEW w \in Writers, Publish(w)
  PROVE  Whole'
<1>. USE DEF Publish, At, Moves, MayPublish
<1>1. FileTyped'
  BY DEF Whole, FileTyped, Stages
<1>2. Flushed'
  BY DEF Whole, FileTyped, Flushed
<1>3. Overwritten'
  <2>1. \A r \in replaced' : r[2] \in Overwriting
    BY DEF Whole, Overwritten
  <2>2. ASSUME NEW v \in Writers, writer'[v] \in {"linked", "published"}
        PROVE  path' \in {v} \union Overwriting
    BY <2>2, ArtifactFileAssumption DEF Whole, FileTyped, Overwritten
  <2>3. ASSUME NEW v \in Writers, writer'[v] = "written"
        PROVE  kept' \subseteq {v} \union Overwriting
    <3>1. writer[v] = "written" /\ v # w
      BY <2>3 DEF Whole, FileTyped
    <3>2. path # Nobody
      BY <3>1, ArtifactFileAssumption DEF Whole, FileTyped, Flushed, Overwritten
    <3>. QED  BY <3>1, <3>2 DEF Whole, Overwritten
  <2>. QED  BY <2>1, <2>2, <2>3 DEF Overwritten
<1>4. Removed'
  BY DEF Whole, FileTyped, Removed
<1>. QED  BY <1>1, <1>2, <1>3, <1>4 DEF Whole

LEMMA PowerLossWhole ==
  ASSUME Whole, PowerLoss
  PROVE  Whole'
<1>. USE DEF PowerLoss, Running
<1>1. FileTyped'
  BY DEF Whole, FileTyped, Stages, Amounts
<1>2. Flushed'
  BY DEF Whole, FileTyped, Flushed
<1>3. Overwritten'
  BY DEF Whole, FileTyped, Overwritten
<1>4. Removed'
  BY DEF Whole, FileTyped, Removed
<1>. QED  BY <1>1, <1>2, <1>3, <1>4 DEF Whole

LEMMA WholeStep == Whole /\ [ArtifactNext]_artifactVars => Whole'
<1>. SUFFICES ASSUME Whole, [ArtifactNext]_artifactVars PROVE Whole'
  OBVIOUS
<1>. USE DEF Whole, FileTyped, Flushed, Overwritten, Removed, At, Moves, Amounts, Stages
<1>1. CASE UNCHANGED artifactVars
  BY <1>1 DEF artifactVars
<1>2. ASSUME NEW w \in Writers, Open(w) PROVE Whole'
  BY <1>2 DEF Open
<1>3. ASSUME NEW w \in Writers, Write(w) PROVE Whole'
  BY <1>3 DEF Write
<1>4. ASSUME NEW w \in Writers, SyncFile(w) PROVE Whole'
  BY <1>4 DEF SyncFile
<1>5. ASSUME NEW w \in Writers, Refuse(w) PROVE Whole'
  BY <1>5 DEF Refuse
<1>6. ASSUME NEW w \in Writers, Unlink(w) PROVE Whole'
  BY <1>6 DEF Unlink
<1>7. ASSUME NEW w \in Writers, SyncDirectory(w) PROVE Whole'
  BY <1>7 DEF SyncDirectory
<1>8. ASSUME NEW w \in Writers, ArtifactTrouble(w) PROVE Whole'
  BY <1>8 DEF ArtifactTrouble
<1>9. ASSUME NEW w \in Writers, Cleanup(w) PROVE Whole'
  BY <1>9 DEF Cleanup
<1>10. ASSUME NEW w \in Writers, Die(w) PROVE Whole'
  BY <1>10 DEF Die, Running
<1>. QED
  BY <1>1, <1>2, <1>3, <1>4, <1>5, <1>6, <1>7, <1>8, <1>9, <1>10, PublishWhole, PowerLossWhole
     DEF ArtifactNext, WriterStep, ArtifactFault

LEMMA ArtifactSteps == [Next]_vars => [ArtifactNext]_artifactVars
  BY DEF Next, Programs, Faults, Deadline, Done, vars, artifactVars, ArtifactNext

(* The file at the record's path is whole or absent whatever the writers   *)
(* and the machine do: a call publishes only what it has flushed, replaces *)
(* a record only when told to, and is durable once it has returned         *)
(* (writeRunArtifact and syncDirectory of artifact.ts).                    *)
THEOREM RecordsAreWhole == Spec => []RecordIsWhole
<1>1. Init => Whole
  BY WholeInit DEF Init
<1>2. Whole /\ [Next]_vars => Whole'
  BY ArtifactSteps, WholeStep
<1>. QED  BY <1>1, <1>2, WholeIsRecord, PTL DEF Spec

-----------------------------------------------------------------------------
(***************************************************************************)
(* The fixture.                                                            *)
(***************************************************************************)
CaptureStages == {"idle", "connect", "begin", "read", "recheck", "commit", "captured", "failed"}

Taken == [Relation -> Nat]  \* what the tables and sequences are at one moment

FixtureTyped ==
  /\ data \in Taken
  /\ forgotten \in [state : {"idle", "open"}, changed : SUBSET Relation, left : Nat,
                    since : CaptureStages]
  /\ fixture \in [at : CaptureStages, snapshot : Taken \union {<<>>}, read : Seq(Nat),
                  next : Nat, rows : Nat, settled : Taken \union {<<>>},
                  ended : Taken \union {<<>>}, inside : BOOLEAN]

InTransaction == fixture.at \in {"read", "recheck", "commit"}
Settling      == fixture.at \in {"recheck", "commit"}

(* What has been read so far: tables as of the snapshot, sequences as they *)
(* were then, which only grow; from "recheck" on, those looked at again    *)
(* have not moved since all had been read.                                 *)
Rechecked(i) == fixture.at = "commit" \/ (fixture.at = "recheck" /\ i < fixture.next)

ReadAsOf ==
  /\ fixture.at \in {"idle", "connect", "begin"} => fixture.read = <<>> /\ fixture.next = 1
  /\ InTransaction =>
       /\ fixture.snapshot \in Taken
       /\ \A i \in 1 .. Len(fixture.read) :
            /\ Relations[i] \in Tables => fixture.read[i] = fixture.snapshot[Relations[i]]
            /\ Relations[i] \in Counters => fixture.read[i] <= data[Relations[i]]
  /\ fixture.at = "read" => Len(fixture.read) = fixture.next - 1 /\ fixture.next <= Len(Relations) + 1
  /\ Settling =>
       /\ Len(fixture.read) = Len(Relations) /\ fixture.next \in Nat \ {0}
       /\ fixture.settled \in Taken
       /\ \A i \in 1 .. Len(Relations) :
            Relations[i] \in Counters =>
              /\ fixture.read[i] <= fixture.settled[Relations[i]]
              /\ fixture.settled[Relations[i]] <= data[Relations[i]]
              /\ Rechecked(i) => fixture.read[i] = fixture.settled[Relations[i]]

(* A transaction that is open inside the capture began inside it: the      *)
(* first look for other sessions saw none.                                 *)
BeganInside ==
  Capturing /\ forgotten.state = "open" => forgotten.since \notin {"idle", "connect"}

(* Unless one ended inside, the database is what the capture has seen.     *)
Undisturbed ==
  InTransaction /\ ~fixture.inside =>
    /\ \A r \in Tables : data[r] = fixture.snapshot[r]
    /\ Settling /\ forgotten.state = "idle" => \A r \in Counters : data[r] = fixture.settled[r]

Captive == FixtureTyped /\ ReadAsOf /\ BeganInside /\ Undisturbed /\ FixtureIsOneState

FixtureNext == FixtureStart \/ FixtureStep \/ FixtureTrouble \/ Forgotten

LEMMA RelationIndex ==
  /\ \A r \in Relation : \E i \in 1 .. Len(Relations) : Relations[i] = r
  /\ \A i \in 1 .. Len(Relations) : Relations[i] \in Relation
  /\ Len(Relations) \in Nat /\ DOMAIN Relations = 1 .. Len(Relations)
  /\ Counters \subseteq Relation /\ Tables = Relation \ Counters
  BY FixtureAssumption DEF Relation, Tables

LEMMA CaptiveInit == FixtureInit => Captive
<1>. SUFFICES ASSUME FixtureInit PROVE Captive
  OBVIOUS
<1>1. FixtureTyped
  BY FixtureAssumption
     DEF FixtureInit, IdleFixture, FixtureTyped, Taken, CaptureStages
<1>. QED
  BY <1>1 DEF FixtureInit, IdleFixture, Captive, ReadAsOf, InTransaction, Settling,
     BeganInside,
              Capturing, Undisturbed, FixtureIsOneState

(* The forgotten session's steps. *)
LEMMA ForgottenCaptive ==
  ASSUME Captive, Forgotten
  PROVE  Captive'
<1>. USE RelationIndex
<1>0. FixtureTyped /\ ReadAsOf /\ BeganInside /\ Undisturbed /\ FixtureIsOneState
  BY DEF Captive
<1>1. FixtureTyped' /\ \A r \in Relation : data[r] <= data'[r]
  <2>1. CASE ForgottenBegins
    <3>1. forgotten.left - 1 \in Nat /\ fixture.at \in CaptureStages /\ UNCHANGED <<data, fixture>>
      BY <1>0, <2>1 DEF ForgottenBegins, FixtureTyped
    <3>2. forgotten' \in [state : {"idle", "open"}, changed : SUBSET Relation, left : Nat,
                          since : CaptureStages]
      BY <1>0, <2>1, <3>1 DEF ForgottenBegins, FixtureTyped
    <3>. QED  BY <1>0, <3>1, <3>2 DEF FixtureTyped, Taken
  <2>2. ASSUME NEW r \in Relation, ForgottenChanges(r)
        PROVE  FixtureTyped' /\ \A s \in Relation : data[s] <= data'[s]
    <3>1. data' \in Taken /\ \A s \in Relation : data[s] <= data'[s]
      BY <1>0, <2>2 DEF ForgottenChanges, FixtureTyped, Taken
    <3>. QED  BY <1>0, <2>2, <3>1 DEF ForgottenChanges, FixtureTyped
  <2>3. CASE ForgottenEnds
    <3>1. data' \in Taken /\ \A s \in Relation : data[s] <= data'[s]
      BY <1>0, <2>3 DEF ForgottenEnds, FixtureTyped, Taken
    <3>2. fixture.inside \/ (Capturing /\ forgotten.since \notin {"idle", "connect"}) \in BOOLEAN
      BY <1>0 DEF FixtureTyped, Capturing
    <3>. QED  BY <1>0, <2>3, <3>1 DEF ForgottenEnds, FixtureTyped, Capturing
  <2>. QED  BY <2>1, <2>2, <2>3 DEF Forgotten
<1>2. /\ UNCHANGED <<fixture.at, fixture.snapshot, fixture.read, fixture.next, fixture.settled,
                     fixture.ended>>
      /\ fixture.inside => fixture'.inside
  BY <1>0 DEF Forgotten, ForgottenBegins, ForgottenChanges, ForgottenEnds, FixtureTyped
<1>3. ReadAsOf'
  <2>1. \A i \in 1 .. Len(Relations) :
          data[Relations[i]] \in Nat /\ data'[Relations[i]] \in Nat
            /\ data[Relations[i]] <= data'[Relations[i]]
    BY <1>0, <1>1 DEF FixtureTyped, Taken
  <2>2. fixture.read \in Seq(Nat) /\ fixture.next \in Nat
    BY <1>0 DEF FixtureTyped
  <2>3. ASSUME InTransaction PROVE Len(fixture.read) <= Len(Relations)
    BY <1>0, <2>2, <2>3 DEF ReadAsOf, InTransaction, Settling
  <2>4. \A i \in 1 .. Len(fixture.read) : fixture.read[i] \in Nat
    BY <2>2
  <2>5. ASSUME InTransaction', NEW i \in 1 .. Len(fixture'.read)
        PROVE  /\ Relations[i] \in Tables => fixture'.read[i] = fixture'.snapshot[Relations[i]]
               /\ Relations[i] \in Counters => fixture'.read[i] <= data'[Relations[i]]
    <3>1. InTransaction /\ i \in 1 .. Len(fixture.read) /\ i \in 1 .. Len(Relations)
      BY <1>2, <2>2, <2>3, <2>5 DEF InTransaction
    <3>2. /\ Relations[i] \in Tables => fixture.read[i] = fixture.snapshot[Relations[i]]
          /\ Relations[i] \in Counters => fixture.read[i] <= data[Relations[i]]
      BY <1>0, <3>1 DEF ReadAsOf
    <3>. QED  BY <1>2, <2>1, <2>4, <3>1, <3>2
  <2>6. ASSUME Settling', NEW i \in 1 .. Len(Relations), Relations[i] \in Counters
        PROVE  /\ fixture'.read[i] <= fixture'.settled[Relations[i]]
               /\ fixture'.settled[Relations[i]] <= data'[Relations[i]]
               /\ Rechecked(i)' => fixture'.read[i] = fixture'.settled[Relations[i]]
    <3>1. fixture.settled[Relations[i]] \in Nat
      BY <1>0, <1>2, <2>6 DEF ReadAsOf, Settling, Taken
    <3>. QED  BY <1>0, <1>2, <2>1, <2>6, <3>1 DEF ReadAsOf, Settling, Rechecked
  <2>. QED  BY <1>0, <1>2, <2>5, <2>6 DEF ReadAsOf, InTransaction, Settling
<1>4. BeganInside'
  BY <1>0, <1>2 DEF BeganInside, Capturing, Forgotten, ForgottenBegins, ForgottenChanges,
     ForgottenEnds,
              FixtureTyped
<1>5. Undisturbed'
  <2>1. CASE ForgottenBegins
    BY <1>0, <2>1 DEF ForgottenBegins, FixtureTyped, Undisturbed, InTransaction, Settling
  <2>2. ASSUME NEW r \in Relation, ForgottenChanges(r)
        PROVE  Undisturbed'
    BY <1>0, <2>2 DEF ForgottenChanges, FixtureTyped, Taken, Undisturbed, InTransaction,
       Settling
  <2>3. CASE ForgottenEnds
    BY <1>0, <2>3 DEF ForgottenEnds, FixtureTyped, Taken, Undisturbed, InTransaction,
       Settling, BeganInside,
                Capturing
  <2>. QED  BY <2>1, <2>2, <2>3 DEF Forgotten
<1>6. FixtureIsOneState'
  BY <1>0, <1>2 DEF FixtureIsOneState, Seen
<1>. QED  BY <1>1, <1>3, <1>4, <1>5, <1>6 DEF Captive

(* The capture's steps that read nothing. *)
LEMMA MovingCaptive ==
  ASSUME Captive, FixtureStart \/ FixtureConnect \/ FixtureBegin \/ FixtureTrouble \/ FixtureCommit
  PROVE  Captive'
<1>. USE RelationIndex
<1>0. FixtureTyped /\ ReadAsOf /\ BeganInside /\ Undisturbed /\ FixtureIsOneState
  BY DEF Captive
<1>. USE DEF FixtureGoes, FixtureFails
<1>1. UNCHANGED <<data, forgotten, fixture.read, fixture.next, fixture.inside, fixture.settled>>
  BY <1>0
     DEF FixtureStart, FixtureConnect, FixtureBegin, FixtureTrouble, FixtureCommit,
         FixtureTyped
<1>2. FixtureTyped'
  <2>1. CASE FixtureStart
    BY <1>0, <2>1 DEF FixtureStart, FixtureTyped, CaptureStages
  <2>2. CASE FixtureConnect
    BY <1>0, <2>2 DEF FixtureConnect, FixtureTyped, CaptureStages
  <2>3. CASE FixtureBegin
    BY <1>0, <2>3 DEF FixtureBegin, FixtureTyped, CaptureStages
  <2>4. CASE FixtureTrouble
    BY <1>0, <2>4 DEF FixtureTrouble, FixtureTyped, CaptureStages
  <2>5. CASE FixtureCommit
    <3>1. CASE Quiescent
      <4>1. /\ fixture' = [fixture EXCEPT !.at = "captured", !.ended = data]
            /\ UNCHANGED <<data, forgotten>>
        BY <2>5, <3>1 DEF FixtureCommit
      <4>2. data \in Taken \union {<<>>} /\ "captured" \in CaptureStages
        BY <1>0 DEF FixtureTyped, CaptureStages
      <4>. QED  BY <1>0, <4>1, <4>2 DEF FixtureTyped
    <3>2. CASE ~Quiescent
      BY <1>0, <2>5, <3>2 DEF FixtureCommit, FixtureTyped, CaptureStages
    <3>. QED  BY <3>1, <3>2
  <2>. QED  BY <2>1, <2>2, <2>3, <2>4, <2>5
<1>3. CASE fixture'.at \in {"connect", "failed"}
  <2>1. fixture'.at = "connect" => fixture.at = "idle"
    BY <1>0, <1>3 DEF FixtureStart, FixtureConnect, FixtureBegin, FixtureTrouble,
       FixtureCommit,
                      FixtureTyped
  <2>. QED
    BY <1>0, <1>1, <1>2, <1>3, <2>1 DEF Captive, ReadAsOf, InTransaction, Settling,
       BeganInside, Capturing,
                    Undisturbed, FixtureIsOneState
<1>4. CASE FixtureConnect /\ fixture'.at = "begin"
  <2>1. forgotten.state = "idle" /\ fixture.at = "connect"
    BY <1>0, <1>4 DEF FixtureConnect, FixtureTyped, Quiescent
  <2>. QED
    BY <1>0, <1>1, <1>2, <1>4, <2>1 DEF Captive, ReadAsOf, InTransaction, Settling,
       BeganInside,
                                 Undisturbed, FixtureIsOneState
<1>5. CASE FixtureBegin
  <2>1. /\ fixture.at = "begin" /\ fixture'.at = "read" /\ fixture'.snapshot = data
    BY <1>0, <1>5 DEF FixtureBegin, FixtureTyped
  <2>2. fixture.read = <<>> /\ fixture.next = 1
    BY <1>0, <2>1 DEF ReadAsOf, InTransaction, Settling
  <2>3. BeganInside'
    BY <1>0, <1>1, <2>1 DEF BeganInside, Capturing
  <2>4. ReadAsOf'
    BY <1>0, <1>1, <2>1, <2>2 DEF ReadAsOf, InTransaction, Settling, FixtureTyped
  <2>5. Undisturbed'
    BY <1>0, <1>1, <2>1 DEF Undisturbed, InTransaction, Settling
  <2>6. FixtureIsOneState'
    BY <2>1 DEF FixtureIsOneState
  <2>. QED  BY <1>2, <2>3, <2>4, <2>5, <2>6 DEF Captive
<1>6. CASE FixtureCommit /\ fixture'.at = "captured"
  <2>1. /\ fixture.at = "commit" /\ forgotten.state = "idle" /\ fixture'.ended = data
        /\ UNCHANGED fixture.snapshot
    BY <1>0, <1>6 DEF FixtureCommit, FixtureTyped, Quiescent
  <2>2. ASSUME NEW r \in Relation
        PROVE  /\ r \in Tables => Seen(r)' = fixture'.snapshot[r]
               /\ r \in Counters => Seen(r)' = fixture'.settled[r]
               /\ ~fixture'.inside => Seen(r)' = fixture'.ended[r]
    <3>. DEFINE i == CHOOSE j \in DOMAIN Relations : Relations[j] = r
    <3>1. i \in 1 .. Len(Relations) /\ Relations[i] = r
      OBVIOUS
    <3>2. Seen(r)' = fixture.read[i]
      BY <1>1 DEF Seen
    <3>. HIDE DEF i
    <3>3. /\ r \in Tables => fixture.read[i] = fixture.snapshot[r]
          /\ r \in Counters => fixture.read[i] = fixture.settled[r]
      BY <1>0, <2>1, <3>1 DEF ReadAsOf, InTransaction, Settling, Rechecked
    <3>4. ~fixture.inside =>
            /\ r \in Tables => data[r] = fixture.snapshot[r]
            /\ r \in Counters => data[r] = fixture.settled[r]
      BY <1>0, <2>1 DEF Undisturbed, InTransaction, Settling
    <3>. QED  BY <1>1, <2>1, <3>2, <3>3, <3>4
  <2>3. FixtureIsOneState'
    BY <2>2 DEF FixtureIsOneState
  <2>. QED
    BY <1>2, <1>6, <2>3 DEF Captive, ReadAsOf, InTransaction, Settling, BeganInside, Capturing,
                           Undisturbed
<1>. QED
  BY <1>0, <1>3, <1>4, <1>5, <1>6
     DEF FixtureStart, FixtureConnect, FixtureTrouble, FixtureCommit, FixtureTyped

(* The next relation is read: a table in the snapshot, a sequence as it is. *)
LEMMA ReadCaptive ==
  ASSUME Captive, FixtureRead
  PROVE  Captive'
<1>. USE RelationIndex
<1>0. FixtureTyped /\ ReadAsOf /\ BeganInside /\ Undisturbed /\ FixtureIsOneState
  BY DEF Captive
<1>. DEFINE r    == Relations[fixture.next]
            rows == fixture.rows + IF r \in Tables THEN Visible(r) ELSE 0
<1>1. /\ fixture.at = "read" /\ fixture.next \in 1 .. Len(Relations) /\ r \in Relation
      /\ Len(fixture.read) = fixture.next - 1 /\ fixture.snapshot \in Taken
  BY <1>0 DEF FixtureRead, FixtureTyped, ReadAsOf, InTransaction
<1>2. Visible(r) \in Nat /\ rows \in Nat
  BY <1>0, <1>1 DEF Visible, FixtureTyped, Taken
<1>3. UNCHANGED <<data, forgotten>>
  BY DEF FixtureRead, FixtureGoes, FixtureFails
<1>. HIDE DEF r, rows
<1>4. CASE fixture' = [fixture EXCEPT !.at = "failed"]
  <2>1. FixtureTyped'
    BY <1>0, <1>3, <1>4 DEF FixtureTyped, CaptureStages
  <2>2. fixture'.at = "failed"
    BY <1>0, <1>4 DEF FixtureTyped
  <2>. QED
    BY <2>1, <2>2 DEF Captive, ReadAsOf, InTransaction, Settling, BeganInside, Capturing,
                      Undisturbed, FixtureIsOneState
<1>5. CASE fixture' = [fixture EXCEPT !.rows = rows, !.next = fixture.next + 1,
                                      !.read = Append(fixture.read, Visible(r))]
  <2>1. FixtureTyped'
    <3>1. Append(fixture.read, Visible(r)) \in Seq(Nat) /\ fixture.next + 1 \in Nat
      BY <1>0, <1>1, <1>2 DEF FixtureTyped
    <3>. QED  BY <1>0, <1>2, <1>3, <1>5, <3>1 DEF FixtureTyped
  <2>2. /\ UNCHANGED <<fixture.at, fixture.snapshot, fixture.inside>>
        /\ fixture'.next = fixture.next + 1 /\ fixture'.read = Append(fixture.read, Visible(r))
    BY <1>0, <1>5 DEF FixtureTyped
  <2>3. ASSUME NEW i \in 1 .. Len(fixture'.read)
        PROVE  /\ Relations[i] \in Tables => fixture'.read[i] = fixture'.snapshot[Relations[i]]
               /\ Relations[i] \in Counters => fixture'.read[i] <= data'[Relations[i]]
    <3>1. fixture.read \in Seq(Nat) /\ i \in 1 .. fixture.next /\ Len(fixture.read) \in Nat
      BY <1>0, <1>1, <2>2 DEF FixtureTyped
    <3>2. CASE i = fixture.next
      <4>1. fixture'.read[i] = Visible(Relations[i])
        BY <1>1, <2>2, <3>1, <3>2 DEF r
      <4>2. data[Relations[i]] \in Nat
        BY <1>0, <1>1, <3>2 DEF FixtureTyped, Taken
      <4>. QED  BY <1>3, <2>2, <4>1, <4>2 DEF Visible
    <3>3. CASE i # fixture.next
      <4>1. i \in 1 .. Len(fixture.read) /\ fixture'.read[i] = fixture.read[i]
        BY <1>1, <2>2, <3>1, <3>3
      <4>. QED  BY <1>0, <1>1, <1>3, <2>2, <4>1 DEF ReadAsOf, InTransaction
    <3>. QED  BY <3>2, <3>3
  <2>4. ReadAsOf'
    <3>1. Len(fixture'.read) = fixture'.next - 1 /\ fixture'.next <= Len(Relations) + 1
      BY <1>0, <1>1, <2>2 DEF FixtureTyped
    <3>. QED  BY <1>1, <2>2, <2>3, <3>1 DEF ReadAsOf, InTransaction, Settling
  <2>5. BeganInside' /\ Undisturbed'
    BY <1>0, <1>1, <1>3, <2>2 DEF BeganInside, Capturing, Undisturbed, InTransaction, Settling
  <2>. QED
    BY <1>1, <2>1, <2>2, <2>4, <2>5 DEF Captive, FixtureIsOneState
<1>. QED
  BY <1>4, <1>5 DEF FixtureRead, FixtureGoes, FixtureFails, r, rows

(* All has been read: from here on the sequences may not move. *)
LEMMA ReadAllCaptive ==
  ASSUME Captive, FixtureReadAll
  PROVE  Captive'
<1>. USE RelationIndex
<1>0. FixtureTyped /\ ReadAsOf /\ BeganInside /\ Undisturbed /\ FixtureIsOneState
  BY DEF Captive
<1>1. /\ fixture.at = "read" /\ UNCHANGED <<data, forgotten>> /\ fixture.next > Len(Relations)
      /\ fixture' = [fixture EXCEPT !.at = "recheck", !.next = 1, !.settled = data]
  BY DEF FixtureReadAll, FixtureGoes
<1>2. FixtureTyped'
  <2>1. data \in Taken \union {<<>>} /\ "recheck" \in CaptureStages
    BY <1>0 DEF FixtureTyped, CaptureStages
  <2>. QED  BY <1>0, <1>1, <2>1 DEF FixtureTyped
<1>3. /\ fixture'.at = "recheck" /\ fixture'.next = 1 /\ fixture'.settled = data
      /\ UNCHANGED <<fixture.read, fixture.snapshot, fixture.inside>>
  BY <1>0, <1>1 DEF FixtureTyped
<1>4. Len(fixture.read) = Len(Relations)
  BY <1>0, <1>1 DEF ReadAsOf, FixtureTyped
<1>5. ReadAsOf'
  <2>1. \A i \in 1 .. Len(Relations) : data[Relations[i]] \in Nat
    BY <1>0 DEF FixtureTyped, Taken
  <2>. QED
    BY <1>0, <1>1, <1>3, <1>4, <2>1
       DEF ReadAsOf, InTransaction, Settling, Rechecked, FixtureTyped
<1>6. BeganInside' /\ Undisturbed'
  BY <1>0, <1>1, <1>3 DEF BeganInside, Capturing, Undisturbed, InTransaction, Settling
<1>. QED  BY <1>2, <1>3, <1>5, <1>6 DEF Captive, FixtureIsOneState

(* The next relation is looked at again. *)
LEMMA RecheckCaptive ==
  ASSUME Captive, FixtureRecheck
  PROVE  Captive'
<1>. USE RelationIndex
<1>0. FixtureTyped /\ ReadAsOf /\ BeganInside /\ Undisturbed /\ FixtureIsOneState
  BY DEF Captive
<1>1. /\ fixture.at = "recheck" /\ UNCHANGED <<data, forgotten>>
      /\ \/ fixture.next > Len(Relations) /\ fixture' = [fixture EXCEPT !.at = "commit"]
         \/ fixture' = [fixture EXCEPT !.at = "failed"]
         \/ /\ fixture.next <= Len(Relations) /\ ~Moved(fixture.next)
            /\ fixture' = [fixture EXCEPT !.next = fixture.next + 1]
  BY <1>0 DEF FixtureRecheck, FixtureGoes, FixtureFails, FixtureTyped
<1>2. fixture.next \in Nat \ {0} /\ Len(fixture.read) = Len(Relations)
  BY <1>0, <1>1 DEF ReadAsOf, Settling
<1>3. FixtureTyped'
  <2>1. CASE fixture' = [fixture EXCEPT !.next = fixture.next + 1]
    <3>1. fixture.next + 1 \in Nat /\ UNCHANGED <<data, forgotten>>
      BY <1>1, <1>2
    <3>. QED  BY <1>0, <2>1, <3>1 DEF FixtureTyped
  <2>2. ASSUME NEW stage \in {"commit", "failed"}, fixture' = [fixture EXCEPT !.at = stage]
        PROVE  FixtureTyped'
    BY <1>0, <1>1, <2>2 DEF FixtureTyped, CaptureStages
  <2>. QED  BY <1>1, <2>1, <2>2
<1>4. UNCHANGED <<fixture.read, fixture.snapshot, fixture.settled, fixture.inside>>
  BY <1>0, <1>1 DEF FixtureTyped
<1>5. CASE fixture' = [fixture EXCEPT !.at = "failed"]
  <2>1. fixture'.at = "failed"
    BY <1>0, <1>5 DEF FixtureTyped
  <2>. QED
    BY <1>3, <2>1 DEF Captive, ReadAsOf, InTransaction, Settling, BeganInside, Capturing,
                      Undisturbed, FixtureIsOneState
<1>6. CASE fixture' # [fixture EXCEPT !.at = "failed"]
  <2>1. fixture'.at \in {"recheck", "commit"} /\ fixture'.next \in Nat \ {0}
    BY <1>0, <1>1, <1>2, <1>6 DEF FixtureTyped
  <2>2. ASSUME NEW i \in 1 .. Len(Relations), Relations[i] \in Counters, Rechecked(i)'
        PROVE  fixture.read[i] = fixture.settled[Relations[i]]
    <3>1. Rechecked(i) \/ (i = fixture.next /\ ~Moved(i))
      BY <1>0, <1>1, <1>2, <1>6, <2>2 DEF Rechecked, FixtureTyped
    <3>2. CASE Rechecked(i)
      BY <1>0, <1>1, <2>2, <3>2 DEF ReadAsOf, Settling
    <3>3. CASE ~Moved(i)
      <4>1. fixture.read[i] = data[Relations[i]]
        BY <2>2, <3>3 DEF Moved
      <4>2. /\ fixture.read[i] <= fixture.settled[Relations[i]]
            /\ fixture.settled[Relations[i]] <= data[Relations[i]]
            /\ fixture.settled[Relations[i]] \in Nat /\ data[Relations[i]] \in Nat
        BY <1>0, <1>1, <2>2 DEF ReadAsOf, Settling, FixtureTyped, Taken
      <4>. QED  BY <4>1, <4>2
    <3>. QED  BY <3>1, <3>2, <3>3
  <2>3. ReadAsOf'
    BY <1>0, <1>1, <1>2, <1>4, <2>1, <2>2 DEF ReadAsOf, InTransaction, Settling
  <2>4. BeganInside' /\ Undisturbed'
    BY <1>0, <1>1, <1>4, <2>1 DEF BeganInside, Capturing, Undisturbed, InTransaction, Settling
  <2>. QED  BY <1>3, <2>1, <2>3, <2>4 DEF Captive, FixtureIsOneState
<1>. QED  BY <1>5, <1>6

LEMMA CaptiveStep == Captive /\ [FixtureNext]_fixtureVars => Captive'
<1>1. Captive /\ UNCHANGED fixtureVars => Captive'
  <2>. SUFFICES ASSUME Captive, UNCHANGED fixtureVars PROVE Captive'
    OBVIOUS
  <2>1. UNCHANGED <<data, forgotten, fixture>>
    BY DEF fixtureVars
  <2>2. FixtureTyped' /\ BeganInside' /\ Undisturbed'
    BY <2>1 DEF Captive, FixtureTyped, BeganInside, Capturing, Undisturbed, InTransaction,
       Settling
  <2>3. ReadAsOf'
    BY <2>1 DEF Captive, ReadAsOf, InTransaction, Settling, Rechecked
  <2>4. FixtureIsOneState'
    BY <2>1 DEF Captive, FixtureIsOneState, Seen
  <2>. QED  BY <2>2, <2>3, <2>4 DEF Captive
<1>. QED
  BY <1>1, MovingCaptive, ForgottenCaptive, ReadCaptive, ReadAllCaptive, RecheckCaptive
     DEF FixtureNext, FixtureStep

LEMMA FixtureSteps == [Next]_vars => [FixtureNext]_fixtureVars
<1>. SUFFICES ASSUME [Next]_vars PROVE [FixtureNext]_fixtureVars
  OBVIOUS
<1>1. CASE Programs
  BY <1>1 DEF Programs, fixtureVars, FixtureNext, ReplayStart, ReplayFixture, ReplayStep
<1>2. CASE Faults
  BY <1>2 DEF Faults, fixtureVars, FixtureNext
<1>3. CASE Deadline \/ Done \/ UNCHANGED vars
  BY <1>3 DEF Deadline, Done, vars, fixtureVars, ReplayTrouble
<1>. QED  BY <1>1, <1>2, <1>3 DEF Next

(* A fixture that was captured is one state of the database: its tables at *)
(* the snapshot, its sequences when all had been read, and what the        *)
(* database held at the end unless a transaction began and ended between   *)
(* the two looks for other sessions.  A sequence that a forgotten session  *)
(* moves while it is read is found by the second look alone                *)
(* (captureFixtureIdentity and quiescent of fixture-identity.ts).          *)
THEOREM FixturesAreOneState == Spec => []FixtureIsOneState
<1>1. Init => Captive
  BY CaptiveInit DEF Init
<1>2. Captive /\ [Next]_vars => Captive'
  BY FixtureSteps, CaptiveStep
<1>3. Captive => FixtureIsOneState
  BY DEF Captive
<1>. QED  BY <1>1, <1>2, <1>3, PTL DEF Spec

-----------------------------------------------------------------------------
(***************************************************************************)
(* The exported folder and the identity of the sources.                    *)
(***************************************************************************)
Copying == ExportWrite \/ NpmPack \/ NpmLock \/ ExportManifest \/ NpmCi \/ NpmCiEnds

FolderWork == FolderStep \/ FolderTrouble

Foldering == FolderNext \/ UNCHANGED folderVars

(* Steps that leave the files alone. *)
LEMMA ExportReads1 ==
  ExportParse \/ ExportAbsent \/ ExportSelect \/ ExportLocks \/ ExportCapture \/ ExportArchives
    \/ ExportStart => UNCHANGED <<disk, dest>>
  BY DEF ExportParse, ExportAbsent, ExportSelect, ExportLocks, ExportCapture, ExportArchives,
         ExportStart, Provided, ExportFails, Preserved, Goes, Becomes

LEMMA ExportReads2 ==
  ExportOwn \/ ExportGuard \/ ExportReadBack \/ ExportTree \/ ExportEvidence \/ ExportRuntime
    \/ ExportPacked \/ ExportLocked \/ ExportRecapture => UNCHANGED <<disk, dest>>
  BY DEF ExportOwn, ExportGuard, ExportReadBack, ExportTree, ExportEvidence, ExportRuntime,
         ExportPacked, ExportLocked, ExportRecapture, Provided, ExportFails, Preserved, Goes,
         Becomes

LEMMA ExportReads3 ==
  ExportCapturedAgain \/ ExportVerify \/ ExportList \/ ExportBind \/ ExportCaptures
    \/ ExportTrouble => UNCHANGED <<disk, dest>>
  BY DEF ExportCapturedAgain, ExportVerify, ExportList, ExportBind, ExportCaptures,
     ExportTrouble,
         Provided, ExportFails, Preserved, Goes, Becomes

LEMMA InstallReads ==
  InstallStart \/ InstallClean \/ InstallVerify \/ InstallVerified \/ InstallArchive
    \/ NpmCacheAdd \/ InstallCapture \/ InstallCaptured \/ InstallCaptures \/ InstallTrouble
    => UNCHANGED <<disk, dest>>
  BY DEF InstallStart, InstallClean, InstallVerify, InstallVerified, InstallArchive,
     NpmCacheAdd,
         InstallCapture, InstallCaptured, InstallCaptures, InstallTrouble, InstallProvided,
         InstallFails, InstallBecomes

LEMMA OnlyCopyingWrites ==
  /\ FolderWork /\ ~Copying => UNCHANGED disk
  /\ FolderWork => UNCHANGED dest \/ dest = "none"
<1>1. Copying \/ ExportClaim => UNCHANGED dest \/ dest = "none"
  BY DEF Copying, ExportWrite, NpmPack, NpmLock, ExportManifest, NpmCi, NpmCiEnds, ExportClaim,
         Provided, ExportFails, Preserved, InstallProvided, InstallFails
<1>2. ExportClaim => UNCHANGED disk
  BY DEF ExportClaim, Provided, ExportFails, Preserved
<1>. QED
  BY <1>1, <1>2, ExportReads1, ExportReads2, ExportReads3, InstallReads
     DEF FolderWork, FolderStep, FolderTrouble, ExportStep, InstallStep, Copying

(* Every directory holds a file, or none, under each name; a stamp is the  *)
(* number of an edit that was made.                                        *)
DiskShape ==
  /\ edits \in Nat
  /\ DOMAIN disk = Place /\ \A p \in Place : DOMAIN disk[p] = Name
  /\ \A p \in Place, n \in Name : disk[p][n].at \in 0 .. edits

(* What is written: another file in place of one of the folder's that is   *)
(* not there, unless npm writes.                                           *)
Spares ==
  /\ \A p \in Place \ {"bundle"} : disk'[p] = disk[p]
  /\ \A n \in Name : Bundle[n].is # 0 /\ ~NpmWrites => disk'["bundle"][n] = Bundle[n]

LEMMA CopyingSpares ==
  ASSUME DiskShape, Copying, UNCHANGED edits
  PROVE  DiskShape' /\ Spares
<1>1. CASE UNCHANGED disk
  BY <1>1 DEF DiskShape, Spares, Bundle
<1>2. ASSUME NEW n, NEW c, InBundle(n, c), NpmWrites \/ Bundle[n].is = 0
      PROVE  DiskShape' /\ Spares
  BY <1>2, ExportAssumption DEF DiskShape, InBundle, Ours, Spares, Bundle
<1>3. CASE ExportWrite \/ NpmPack \/ NpmLock \/ ExportManifest
  BY <1>1, <1>2, <1>3
     DEF ExportWrite, NpmPack, NpmLock, ExportManifest, Provided, ExportFails, Preserved,
         MayCreate,
         NpmWrites, Exporting
<1>4. ASSUME NEW g, disk' = [disk EXCEPT !["bundle"] = g], DOMAIN g = Name, NpmWrites,
             \A n \in Name : g[n].at = 0 \/ g[n].at = Bundle[n].at
      PROVE  DiskShape' /\ Spares
  BY <1>4, ExportAssumption DEF DiskShape, Spares, Bundle
<1>5. CASE NpmCi
  <2>1. NpmWrites
    BY <1>5 DEF NpmCi, NpmWrites, Installing
  <2>2. CASE ~UNCHANGED disk
    <3>. DEFINE g == [n \in Name |-> IF n = Runtime THEN Ours(install.cached[1])
                                   ELSE IF n \in Modules THEN NoFile ELSE disk["bundle"][n]]
    <3>1. disk' = [disk EXCEPT !["bundle"] = g]
      BY <1>5, <2>2, ExportAssumption DEF NpmCi, InstallProvided, InstallFails, DiskShape
    <3>2. DOMAIN g = Name /\ \A n \in Name : g[n].at = 0 \/ g[n].at = Bundle[n].at
      BY DEF Ours, NoFile, Bundle
    <3>. HIDE DEF g
    <3>. QED  BY <1>4, <2>1, <3>1, <3>2
  <2>. QED  BY <1>1, <2>2
<1>6. CASE NpmCiEnds
  <2>1. NpmWrites
    BY <1>6 DEF NpmCiEnds, NpmWrites, Installing
  <2>2. CASE ~UNCHANGED disk
    <3>. DEFINE g == [n \in Name |-> IF n \in Modules \ {Runtime} THEN Ours(install.cached[2])
                                   ELSE disk["bundle"][n]]
    <3>1. disk' = [disk EXCEPT !["bundle"] = g]
      BY <1>6, <2>2, ExportAssumption DEF NpmCiEnds, InstallFails, DiskShape
    <3>2. DOMAIN g = Name /\ \A n \in Name : g[n].at = 0 \/ g[n].at = Bundle[n].at
      BY DEF Ours, Bundle
    <3>. HIDE DEF g
    <3>. QED  BY <1>4, <2>1, <3>1, <3>2
  <2>. QED  BY <1>1, <2>2
<1>. QED  BY <1>3, <1>5, <1>6 DEF Copying

LEMMA DiskInit == FolderInit => DiskShape
  BY DEF FolderInit, DiskShape, Files, Ours, NoFile

LEMMA WorkSpares ==
  ASSUME DiskShape, FolderWork
  PROVE  DiskShape' /\ Spares /\ UNCHANGED edits
<1>1. UNCHANGED edits
  BY DEF FolderWork, FolderStep, FolderTrouble
<1>2. CASE UNCHANGED disk
  BY <1>1, <1>2 DEF DiskShape, Spares, Bundle
<1>. QED  BY <1>1, <1>2, OnlyCopyingWrites, CopyingSpares

LEMMA DiskStep ==
  ASSUME DiskShape, Foldering
  PROVE  DiskShape'
<1>1. CASE Edit
  BY <1>1 DEF Edit, DiskShape
<1>2. CASE Occupy
  BY <1>2 DEF Occupy, DiskShape
<1>3. CASE UNCHANGED folderVars
  BY <1>3 DEF folderVars, DiskShape
<1>. QED
  BY <1>1, <1>2, <1>3, WorkSpares DEF Foldering, FolderNext, FolderWork

LEMMA ForeignStep ==
  ASSUME DiskShape, Foldering, UNCHANGED edits
  PROVE  /\ disk'["project"] = Project
         /\ dest = "theirs" => dest' = dest
         /\ \A n \in Name :
              (Bundle[n].at > 0 /\ Bundle[n].is # 0 /\ ~NpmWrites) => disk'["bundle"][n] = Bundle[n]
<1>1. CASE UNCHANGED folderVars
  BY <1>1 DEF folderVars, Project, Bundle
<1>2. CASE FolderWork
  BY <1>2, WorkSpares, OnlyCopyingWrites, ExportAssumption DEF Spares, Project
<1>3. ~(Edit \/ Occupy)
  BY DEF Edit, Occupy, DiskShape
<1>. QED  BY <1>1, <1>2, <1>3 DEF Foldering, FolderNext, FolderWork

LEMMA FolderSteps == [Next]_vars => Foldering
  BY DEF Next, Programs, Faults, Deadline, Done, vars, Foldering, FolderNext

(* The export and its installer write only where they found nothing, and   *)
(* never remove what another program put into the folder or into its       *)
(* place, whatever fails half-way; only npm writes over what it finds      *)
(* (the 'wx' flags and assertOwnership of export.ts).                      *)
THEOREM ForeignFilesKept == Spec => NothingForeignLost
<1>1. Init => DiskShape
  BY DiskInit DEF Init
<1>2. DiskShape /\ [Next]_vars => DiskShape'
  BY FolderSteps, DiskStep
<1>3. DiskShape /\ [Next]_vars =>
        [ (edits' = edits) =>
            /\ disk'["project"] = Project
            /\ (dest = "theirs" => dest' = dest)
            /\ \A n \in Name :
                 (Bundle[n].at > 0 /\ Bundle[n].is # 0 /\ ~NpmWrites) => disk'["bundle"][n] = Bundle[n]
        ]_folderVars
  BY FolderSteps, ForeignStep
<1>. QED  BY <1>1, <1>2, <1>3, PTL DEF Spec, NothingForeignLost

-----------------------------------------------------------------------------
(***************************************************************************)
(* A capture and the disk it reads.                                        *)
(***************************************************************************)
CaptureFields ==
  {"state", "place", "part", "todo", "imports", "read", "found", "absent", "reading", "verified", "seen"}

Reads == DOMAIN capture.read

Verifying1 == capture.state = "running" /\ capture.part = "verify"

(* A file that is not what it was when the verification began was edited   *)
(* since, so that its stamp is later than any that was read before.        *)
EditedSince(n) ==
  \A i \in Reads : capture.read[i].name = n => disk[capture.place][n].at > capture.read[i].file.at

(* What was found was read; what was read was on the disk; and what was    *)
(* verified was still there when the verification began.                   *)
WasRead ==
  /\ DOMAIN capture = CaptureFields /\ DOMAIN capture.found = Parts
  /\ capture.read \in Seq(ToSet(capture.read)) /\ capture.verified \in Nat
  /\ \A p \in Parts : \A f \in capture.found[p] :
       \E i \in Reads : capture.read[i].name = f[1] /\ capture.read[i].file.is = f[2]
  /\ \A i \in Reads : capture.read[i].name \in Name => capture.read[i].file.at \in 0 .. edits
  /\ capture.state = "running" /\ capture.part # "verify" => capture.verified = 0
  /\ Verifying1 => \A n \in Name : disk[capture.place][n] = capture.seen[n] \/ EditedSince(n)
  /\ Verifying1 \/ Captured =>
       \A i \in Reads : \A n \in Name :
         (Captured \/ i <= capture.verified) /\ capture.read[i].name = n =>
           capture.seen[n] = capture.read[i].file

(* While it runs, whoever began it waits for it and writes nothing.        *)
Waits ==
  /\ "at" \in DOMAIN export /\ "at" \in DOMAIN install
  /\ capture.state = "running" =>
       /\ capture.place \in {"project", "bundle"}
       /\ \/ export.at \in {"capture", "captured again"}
          \/ export.at = "returned" /\ install.at \in {"identity", "failed"}
  /\ install.at # "idle" => export.at = "returned"

CaptureKept == DiskShape /\ WasRead /\ Waits

LEMMA AppendShape ==
  ASSUME NEW s, s \in Seq(ToSet(s)), NEW e
  PROVE  /\ Append(s, e) \in Seq(ToSet(Append(s, e)))
         /\ DOMAIN s = 1 .. Len(s) /\ Len(s) \in Nat
         /\ DOMAIN Append(s, e) = 1 .. Len(s) + 1
         /\ \A i \in DOMAIN s : Append(s, e)[i] = s[i]
         /\ Append(s, e)[Len(s) + 1] = e
<1>1. DOMAIN s = 1 .. Len(s) /\ Len(s) \in Nat
  OBVIOUS
<1>2. s \in Seq(ToSet(s) \union {e}) /\ e \in ToSet(s) \union {e}
  <2>. DEFINE S == ToSet(s)
  <2>1. s \in Seq(S)
    OBVIOUS
  <2>. HIDE DEF S
  <2>2. s \in Seq(S \union {e})
    BY <2>1
  <2>. QED  BY <2>2 DEF S
<1>. DEFINE t == Append(s, e)
<1>3. /\ t \in Seq(ToSet(s) \union {e}) /\ Len(t) = Len(s) + 1 /\ DOMAIN t = 1 .. Len(s) + 1
      /\ \A i \in DOMAIN s : t[i] = s[i]
      /\ t[Len(s) + 1] = e
  <2>. DEFINE S == ToSet(s) \union {e}
  <2>1. s \in Seq(S) /\ e \in S
    BY <1>2
  <2>. HIDE DEF S
  <2>2. /\ t \in Seq(S) /\ Len(t) = Len(s) + 1 /\ DOMAIN t = 1 .. Len(s) + 1
        /\ \A i \in DOMAIN s : t[i] = s[i]
        /\ t[Len(s) + 1] = e
    BY <2>1
  <2>. QED  BY <2>2 DEF S
<1>. HIDE DEF t
<1>4. t \in Seq(ToSet(t))
  <2>1. Len(t) \in Nat /\ t = [i \in 1 .. Len(t) |-> t[i]]
    BY <1>1, <1>3
  <2>2. \A i \in 1 .. Len(t) : t[i] \in ToSet(t)
    BY <1>3 DEF ToSet
  <2>3. t \in [1 .. Len(t) -> ToSet(t)]
    BY <2>1, <2>2
  <2>. QED  BY <2>1, <2>3
<1>. QED  BY <1>1, <1>3, <1>4 DEF t

LEMMA WasReadInit == FolderInit => WasRead /\ Waits
<1>. SUFFICES ASSUME FolderInit PROVE WasRead /\ Waits
  OBVIOUS
<1>1. /\ DOMAIN capture = CaptureFields /\ capture.state = "idle"
      /\ capture.read = <<>> /\ capture.verified = 0 /\ capture.found = [p \in Parts |-> {}]
  BY DEF FolderInit, IdleCapture, CaptureFields
<1>2. <<>> \in Seq(ToSet(<<>>)) /\ DOMAIN <<>> = {}
  OBVIOUS
<1>3. WasRead
  BY <1>1, <1>2 DEF WasRead, Reads, Verifying1, Captured
<1>4. Waits
  BY <1>1 DEF FolderInit, IdleExport, IdleInstall, Waits
<1>. QED  BY <1>3, <1>4

LEMMA StartWasRead ==
  ASSUME NEW place, CaptureStart(place)
  PROVE  WasRead' /\ (capture.state = "running")' /\ capture'.place = place
<1>1. /\ DOMAIN capture' = CaptureFields /\ capture'.state = "running" /\ capture'.part = "source"
      /\ capture'.place = place /\ capture'.read = <<>> /\ capture'.verified = 0
      /\ capture'.found = [p \in Parts |-> {}]
  BY DEF CaptureStart, IdleCapture, CaptureFields
<1>2. <<>> \in Seq(ToSet(<<>>)) /\ DOMAIN <<>> = {}
  OBVIOUS
<1>. QED  BY <1>1, <1>2 DEF WasRead, Reads, Verifying1, Captured

LEMMA FailsWasRead ==
  ASSUME WasRead, CaptureFails, UNCHANGED edits
  PROVE  WasRead' /\ (capture.state = "failed")'
<1>1. capture'.state = "failed" /\ DOMAIN capture' = DOMAIN capture
      /\ UNCHANGED <<capture.read, capture.found, capture.verified>>
  BY DEF CaptureFails, WasRead, CaptureFields
<1>. QED
  BY <1>1 DEF WasRead, Reads, Verifying1, Captured

(* A file joins what was found. *)
LEMMA TakeFileTakes ==
  ASSUME WasRead, NEW n, NEW c, NEW kind, capture.part \in Parts
  PROVE  LET cap == TakeFile(n, c, kind, capture)
         IN  /\ DOMAIN cap = CaptureFields /\ DOMAIN cap.found = Parts
             /\ cap.state = capture.state /\ cap.part = capture.part
             /\ cap.read = capture.read /\ cap.verified = capture.verified
             /\ cap.place = capture.place /\ cap.seen = capture.seen
             /\ \A p \in Parts : cap.found[p] \subseteq capture.found[p] \union {<<n, c>>}
  BY DEF TakeFile, WasRead, CaptureFields

(* Found again in what was read for another part. *)
LEMMA CachedWasRead ==
  ASSUME WasRead, CaptureCached, UNCHANGED <<disk, edits>>
  PROVE  WasRead'
<1>1. PICK c \in Held(Asked.name) : capture' = TakeFile(Asked.name, c, Asked.kind, capture)
  BY DEF CaptureCached
<1>2. capture.state = "running" /\ capture.part \in Parts /\ capture.part # "verify"
  BY DEF CaptureCached, Reading, Parts
<1>3. \E i \in Reads : capture.read[i].name = Asked.name /\ capture.read[i].file.is = c
  BY DEF Held, Reads
<1>. DEFINE n == Asked.name
            kind == Asked.kind
<1>. HIDE DEF n, kind
<1>4. /\ DOMAIN capture' = CaptureFields /\ DOMAIN capture'.found = Parts
      /\ capture'.state = capture.state /\ capture'.part = capture.part
      /\ capture'.read = capture.read /\ capture'.verified = capture.verified
      /\ \A p \in Parts : capture'.found[p] \subseteq capture.found[p] \union {<<n, c>>}
  BY <1>1, <1>2, TakeFileTakes DEF n, kind
<1>5. \E i \in Reads : capture.read[i].name = n /\ capture.read[i].file.is = c
  BY <1>3 DEF n
<1>. QED
  BY <1>2, <1>4, <1>5 DEF WasRead, Reads, Verifying1, Captured

(* Read from the disk: it is the file that was opened. *)
LEMMA ReadWasRead ==
  ASSUME DiskShape, WasRead, Waits, CaptureRead, UNCHANGED <<disk, edits>>
  PROVE  WasRead'
<1>. DEFINE n == Asked.name
            kind == Asked.kind
            file == Here(n)
            one == [name |-> n, file |-> file]
<1>1. CASE CaptureFails
  BY <1>1, FailsWasRead
<1>2. CASE ~CaptureFails
  <2>1. /\ capture.state = "running" /\ capture.part \in Parts /\ capture.part # "verify"
        /\ capture' = [TakeFile(n, file.is, kind, capture) EXCEPT
                         !.reading = NoFile, !.read = Append(capture.read, one)]
    <3>1. /\ Reading /\ Here(Asked.name) = capture.reading
          /\ capture' = [TakeFile(Asked.name, capture.reading.is, Asked.kind, capture) EXCEPT
                           !.reading = NoFile,
                           !.read = Append(TakeFile(Asked.name, capture.reading.is, Asked.kind, capture).read,
                                           [name |-> Asked.name, file |-> capture.reading])]
      BY <1>2, TakeFileTakes DEF CaptureRead, Reading, Parts, CaptureFields
    <3>2. capture.part \in Parts /\ capture.part # "verify" /\ capture.state = "running"
      BY <3>1 DEF Reading, Parts
    <3>3. TakeFile(Asked.name, capture.reading.is, Asked.kind, capture).read = capture.read
      BY <3>2, TakeFileTakes
    <3>. QED  BY <3>1, <3>2, <3>3
  <2>2. n \in Name => file.at \in 0 .. edits
    BY <2>1, ExportAssumption DEF Waits, Here, DiskShape
  <2>. HIDE DEF n, kind, file
  <2>. DEFINE cap == TakeFile(n, file.is, kind, capture)
  <2>3. /\ DOMAIN cap = CaptureFields /\ DOMAIN cap.found = Parts
        /\ cap.state = capture.state /\ cap.part = capture.part /\ cap.verified = capture.verified
        /\ \A p \in Parts : cap.found[p] \subseteq capture.found[p] \union {<<n, file.is>>}
    BY <2>1, TakeFileTakes
  <2>. HIDE DEF cap
  <2>4. /\ DOMAIN capture' = CaptureFields /\ DOMAIN capture'.found = Parts
        /\ capture'.state = "running" /\ capture'.part # "verify"
        /\ capture'.verified = capture.verified /\ capture'.read = Append(capture.read, one)
        /\ \A p \in Parts : capture'.found[p] \subseteq capture.found[p] \union {<<n, file.is>>}
    BY <2>1, <2>3 DEF CaptureFields, cap
  <2>5. /\ capture'.read \in Seq(ToSet(capture'.read))
        /\ Reads = 1 .. Len(capture.read) /\ Len(capture.read) \in Nat
        /\ Reads' = 1 .. Len(capture.read) + 1
        /\ \A i \in Reads : capture'.read[i] = capture.read[i]
        /\ capture'.read[Len(capture.read) + 1] = one
    BY <2>4, AppendShape DEF WasRead, Reads
  <2>6. \A p \in Parts : \A f \in capture'.found[p] :
          \E i \in Reads' : capture'.read[i].name = f[1] /\ capture'.read[i].file.is = f[2]
    <3>. TAKE p \in Parts
    <3>. TAKE f \in capture'.found[p]
    <3>1. CASE f \in capture.found[p]
      <4>1. PICK i \in Reads : capture.read[i].name = f[1] /\ capture.read[i].file.is = f[2]
        BY <3>1 DEF WasRead
      <4>2. i \in Reads' /\ capture'.read[i] = capture.read[i]
        BY <2>5, <4>1
      <4>. QED  BY <4>1, <4>2
    <3>2. CASE f = <<n, file.is>>
      <4>1. one.name = f[1] /\ one.file.is = f[2]
        BY <3>2
      <4>. QED  BY <2>5, <4>1
    <3>. QED  BY <2>4, <3>1, <3>2
  <2>7. \A i \in Reads' : capture'.read[i].name \in Name => capture'.read[i].file.at \in 0 .. edits'
    <3>. TAKE i \in Reads'
    <3>1. CASE i \in Reads
      BY <2>5, <3>1 DEF WasRead
    <3>2. CASE i = Len(capture.read) + 1
      <4>1. one.name = n /\ one.file = file
        OBVIOUS
      <4>. QED  BY <2>2, <2>5, <3>2, <4>1
    <3>. QED  BY <2>5, <3>1, <3>2
  <2>8. capture'.verified = 0
    BY <2>1, <2>4 DEF WasRead
  <2>. QED
    BY <2>4, <2>5, <2>6, <2>7, <2>8 DEF WasRead, Verifying1, Captured
<1>. QED  BY <1>1, <1>2

(* The verification begins: what is there now is what is compared. *)
LEMMA CountWasRead ==
  ASSUME WasRead, CaptureCount, UNCHANGED <<disk, edits>>
  PROVE  WasRead'
<1>1. CASE CaptureFails
  BY <1>1, FailsWasRead
<1>2. CASE ~CaptureFails
  <2>1. /\ DOMAIN capture' = CaptureFields /\ capture'.state = "running" /\ capture'.part = "verify"
        /\ UNCHANGED <<capture.read, capture.found, capture.verified, capture.place>>
        /\ capture'.seen = disk[capture.place]
    BY <1>2 DEF CaptureCount, WasRead, CaptureFields
  <2>2. capture.verified = 0 /\ \A i \in Reads : i \in Nat \ {0}
    BY DEF CaptureCount, WasRead, Reads
  <2>. QED
    BY <2>1, <2>2 DEF WasRead, Reads, Verifying1, Captured
<1>. QED  BY <1>1, <1>2

(* One more file is what it was when it was read: no edit has a stamp of   *)
(* before, so it was there when the verification began.                    *)
LEMMA VerifyWasRead ==
  ASSUME DiskShape, WasRead, Waits, CaptureVerify, UNCHANGED <<disk, edits>>
  PROVE  WasRead'
<1>1. CASE CaptureFails
  BY <1>1, FailsWasRead
<1>2. CASE ~CaptureFails
  <2>. DEFINE k == capture.verified + 1
  <2>1. Verifying1 /\ Unchanged(capture.read[k])
    BY <1>2 DEF CaptureVerify, Verifying1
  <2>2. /\ DOMAIN capture' = CaptureFields /\ capture'.part = "verify" /\ capture'.verified = k
        /\ capture'.state = IF k = Len(capture.read) THEN "captured" ELSE "running"
        /\ UNCHANGED <<capture.read, capture.found, capture.place, capture.seen>>
    BY <1>2, <2>1 DEF CaptureVerify, WasRead, CaptureFields, Verifying1
  <2>3. k \in Nat \ {0} /\ Reads = 1 .. Len(capture.read) /\ Len(capture.read) \in Nat
    BY AppendShape DEF WasRead, Reads
  <2>4. ASSUME NEW i \in Reads, NEW n \in Name, i <= k, capture.read[i].name = n
        PROVE  capture.seen[n] = capture.read[i].file
    <3>1. CASE i <= capture.verified
      BY <2>1, <2>4, <3>1 DEF WasRead
    <3>2. CASE i = k
      <4>1. disk[capture.place][n] = capture.read[i].file
        BY <2>1, <2>4, <3>2 DEF Unchanged, Here
      <4>2. disk[capture.place][n].at \in Nat
        <5>1. capture.place \in Place
          BY <2>1, ExportAssumption DEF Waits, Verifying1
        <5>2. disk[capture.place][n].at \in 0 .. edits /\ edits \in Nat
          BY <5>1 DEF DiskShape
        <5>. QED  BY <5>2
      <4>3. ~(disk[capture.place][n].at > capture.read[i].file.at)
        BY <4>1, <4>2
      <4>4. ~EditedSince(n)
        BY <2>4, <4>3 DEF EditedSince
      <4>. QED  BY <2>1, <2>4, <4>1, <4>4 DEF WasRead
    <3>. QED  BY <2>3, <2>4, <3>1, <3>2 DEF WasRead
  <2>5. ASSUME NEW i \in Reads, NEW n \in Name, Captured' \/ i <= k, capture.read[i].name = n
        PROVE  capture.seen[n] = capture.read[i].file
    BY <2>2, <2>3, <2>4, <2>5 DEF Captured
  <2>. HIDE DEF k
  <2>6. Reads' = Reads
    BY <2>2 DEF Reads
  <2>. QED
    BY <2>1, <2>2, <2>3, <2>5 DEF WasRead, Reads, Verifying1, Captured, EditedSince
<1>. QED  BY <1>1, <1>2

(* Steps that only change what is left to do. *)
LEMMA MoveWasRead ==
  ASSUME WasRead, CaptureKnown \/ CaptureLookup \/ CaptureOpen \/ CapturePart,
         UNCHANGED <<disk, edits>>
  PROVE  WasRead'
<1>1. CASE CaptureFails
  BY <1>1, FailsWasRead
<1>2. CASE ~CaptureFails
  <2>1. /\ capture.state = "running" /\ capture.part \in Parts /\ capture.part # "verify"
        /\ DOMAIN capture' = CaptureFields /\ capture'.state = "running" /\ capture'.part # "verify"
        /\ UNCHANGED <<capture.read, capture.found, capture.verified>>
    BY <1>2 DEF CaptureKnown, CaptureLookup, CaptureOpen, CapturePart, WasRead, CaptureFields,
                Reading, Parts
  <2>. QED
    BY <2>1 DEF WasRead, Reads, Verifying1, Captured
<1>. QED  BY <1>1, <1>2

LEMMA CaptureStepWasRead ==
  ASSUME DiskShape, WasRead, Waits, CaptureStep \/ CaptureStop, UNCHANGED <<disk, edits>>
  PROVE  WasRead'
  BY CachedWasRead, ReadWasRead, CountWasRead, VerifyWasRead, MoveWasRead, FailsWasRead
     DEF CaptureStep, CaptureStop

(* While a capture runs, the one that waits for it does nothing else. *)
LEMMA ExportStages ==
  ASSUME ExportStart \/ ExportStep
  PROVE  \/ ExportCaptures
         \/ export.at \in {"capture", "captured again"} /\ CaptureOver
         \/ export.at \notin {"capture", "captured again", "returned"}
<1>1. ASSUME ExportStart \/ ExportParse \/ ExportAbsent \/ ExportSelect \/ ExportLocks \/ ExportCapture
               \/ ExportArchives \/ ExportClaim \/ ExportOwn \/ ExportGuard \/ ExportWrite
               \/ ExportReadBack \/ ExportTree
      PROVE  \/ export.at \in {"capture", "captured again"} /\ CaptureOver
             \/ export.at \notin {"capture", "captured again", "returned"}
  BY <1>1 DEF ExportStart, ExportParse, ExportAbsent, ExportSelect, ExportLocks, ExportCapture,
              ExportArchives, ExportClaim, ExportOwn, ExportGuard, ExportWrite, ExportReadBack,
              ExportTree, Exporting
<1>2. ASSUME ExportEvidence \/ ExportRuntime \/ NpmPack \/ ExportPacked \/ NpmLock \/ ExportLocked
               \/ ExportRecapture \/ ExportCapturedAgain \/ ExportManifest \/ ExportVerify
               \/ ExportList \/ ExportBind
      PROVE  \/ export.at \in {"capture", "captured again"} /\ CaptureOver
             \/ export.at \notin {"capture", "captured again", "returned"}
  BY <1>2 DEF ExportEvidence, ExportRuntime, NpmPack, ExportPacked, NpmLock, ExportLocked,
              ExportRecapture, ExportCapturedAgain, ExportManifest, ExportVerify, ExportList,
              ExportBind, Exporting
<1>. QED  BY <1>1, <1>2 DEF ExportStep

LEMMA InstallStages ==
  ASSUME InstallStep
  PROVE  \/ InstallStart
         \/ InstallCaptures
         \/ install.at = "identity" /\ CaptureOver
         \/ install.at \notin {"idle", "identity", "failed"}
  BY DEF InstallStep, InstallStart, InstallClean, InstallVerify, InstallVerified,
     InstallArchive,
         NpmCacheAdd, NpmCi, NpmCiEnds, InstallCapture, InstallCaptured, InstallCaptures, Installing

LEMMA InstallTurns ==
  ASSUME InstallStep \/ InstallTrouble, "at" \in DOMAIN install
  PROVE  /\ UNCHANGED export
         /\ "at" \in DOMAIN install'
         /\ InstallStart => install'.at # "identity" /\ UNCHANGED capture /\ export.at = "returned"
  BY DEF InstallStep, InstallStart, InstallClean, InstallVerify, InstallVerified,
     InstallArchive,
         NpmCacheAdd, NpmCi, NpmCiEnds, InstallCapture, InstallCaptured, InstallCaptures,
         InstallTrouble, InstallProvided, InstallBecomes, InstallFails, Verifying, IdleInstall, Exporting

(* What an export's step does to the capture: nothing, a step of it, or it *)
(* begins one and waits for it.                                            *)
ExportLeaves ==
  /\ "at" \in DOMAIN export'
  /\ \/ UNCHANGED capture
     \/ CaptureStep /\ UNCHANGED export
     \/ CaptureStart("project") /\ export'.at \in {"capture", "captured again"}

LEMMA FailsLeaves ==
  ASSUME "at" \in DOMAIN export, ExportFails
  PROVE  ExportLeaves
  BY DEF ExportFails, ExportLeaves

LEMMA BecomesLeaves ==
  ASSUME NEW e, "at" \in DOMAIN e, Becomes(e)
  PROVE  ExportLeaves
  BY DEF Becomes, ExportLeaves

LEMMA ExportTurns1 ==
  ASSUME "at" \in DOMAIN export,
         ExportStart \/ ExportParse \/ ExportAbsent \/ ExportSelect \/ ExportCapture \/ ExportArchives
  PROVE  ExportLeaves
<1>1. CASE ExportFails
  BY <1>1, FailsLeaves
<1>2. CASE ~ExportFails
  <2>1. ExportStart => UNCHANGED capture /\ "at" \in DOMAIN export'
    BY DEF ExportStart, Becomes, IdleExport
  <2>2. ExportParse \/ ExportAbsent \/ ExportCapture => UNCHANGED capture /\ "at" \in DOMAIN export'
    BY <1>2 DEF ExportParse, ExportAbsent, ExportCapture, Provided, Goes, Becomes
  <2>3. ExportSelect \/ ExportArchives => UNCHANGED capture /\ "at" \in DOMAIN export'
    BY <1>2 DEF ExportSelect, ExportArchives, Provided, Becomes
  <2>. QED  BY <2>1, <2>2, <2>3 DEF ExportLeaves
<1>. QED  BY <1>1, <1>2

LEMMA ExportTurns2 ==
  ASSUME "at" \in DOMAIN export,
         ExportClaim \/ ExportOwn \/ ExportGuard \/ ExportWrite \/ ExportReadBack \/ ExportTree
           \/ ExportEvidence \/ ExportRuntime
  PROVE  ExportLeaves
<1>1. CASE ExportFails
  BY <1>1, FailsLeaves
<1>2. CASE ~ExportFails
  <2>1. ExportClaim \/ ExportWrite \/ ExportTree => UNCHANGED capture /\ "at" \in DOMAIN export'
    BY <1>2 DEF ExportClaim, ExportWrite, ExportTree, Provided, Goes, Becomes
  <2>2. ExportOwn \/ ExportEvidence => UNCHANGED capture /\ "at" \in DOMAIN export'
    BY <1>2 DEF ExportOwn, ExportEvidence, Provided, Becomes, Writing
  <2>3. ExportGuard \/ ExportReadBack => UNCHANGED capture /\ "at" \in DOMAIN export'
    BY <1>2 DEF ExportGuard, ExportReadBack, Provided, Becomes
  <2>4. ExportRuntime => UNCHANGED capture /\ "at" \in DOMAIN export'
    BY <1>2 DEF ExportRuntime, Provided, Goes, Becomes, Writing
  <2>. QED  BY <2>1, <2>2, <2>3, <2>4 DEF ExportLeaves
<1>. QED  BY <1>1, <1>2

LEMMA ExportTurns3 ==
  ASSUME "at" \in DOMAIN export,
         NpmPack \/ ExportPacked \/ NpmLock \/ ExportLocked \/ ExportCapturedAgain \/ ExportManifest
           \/ ExportVerify \/ ExportList \/ ExportBind \/ ExportTrouble
  PROVE  ExportLeaves
<1>1. CASE ExportFails
  BY <1>1, FailsLeaves
<1>2. CASE ~ExportFails
  <2>1. NpmPack \/ NpmLock \/ ExportManifest => UNCHANGED capture /\ "at" \in DOMAIN export'
    BY <1>2 DEF NpmPack, NpmLock, ExportManifest, Provided
  <2>2. ExportPacked \/ ExportLocked => UNCHANGED capture /\ "at" \in DOMAIN export'
    BY <1>2 DEF ExportPacked, ExportLocked, Provided, Becomes, Writing
  <2>3. ExportCapturedAgain \/ ExportList \/ ExportBind => UNCHANGED capture /\ "at" \in DOMAIN export'
    BY <1>2 DEF ExportCapturedAgain, ExportList, ExportBind, Provided, Goes, Becomes
  <2>4. ExportVerify => UNCHANGED capture /\ "at" \in DOMAIN export'
    BY <1>2 DEF ExportVerify, Provided, Becomes
  <2>5. ~ExportTrouble
    BY <1>2 DEF ExportTrouble
  <2>. QED  BY <2>1, <2>2, <2>3, <2>4, <2>5 DEF ExportLeaves
<1>. QED  BY <1>1, <1>2

LEMMA ExportTurns ==
  ASSUME "at" \in DOMAIN export, ExportStart \/ ExportStep \/ ExportTrouble
  PROVE  ExportLeaves
<1>1. CASE ExportLocks \/ ExportRecapture
  <2>1. CASE ExportFails
    BY <2>1, FailsLeaves
  <2>2. CASE ~ExportFails
    BY <1>1, <2>2 DEF ExportLocks, ExportRecapture, Provided, ExportLeaves
  <2>. QED  BY <2>1, <2>2
<1>2. CASE ExportCaptures
  BY <1>2 DEF ExportCaptures, ExportLeaves
<1>. QED
  BY <1>1, <1>2, ExportTurns1, ExportTurns2, ExportTurns3 DEF ExportStep

LEMMA InstallLeaves ==
  ASSUME InstallStep \/ InstallTrouble, "at" \in DOMAIN install
  PROVE  \/ UNCHANGED capture
         \/ CaptureStep /\ UNCHANGED install
         \/ CaptureStart("bundle") /\ install'.at = "identity"
  BY DEF InstallStep, InstallStart, InstallClean, InstallVerify, InstallVerified,
     InstallArchive,
         NpmCacheAdd, NpmCi, NpmCiEnds, InstallCapture, InstallCaptured, InstallCaptures,
         InstallTrouble, InstallProvided, InstallBecomes, InstallFails

LEMMA CaptureStays ==
  ASSUME WasRead, CaptureStep \/ CaptureStop
  PROVE  capture.state = "running" /\ capture'.place = capture.place
<1>1. CASE CaptureFails
  <2>1. capture'.place = capture.place
    BY <1>1 DEF CaptureFails
  <2>2. capture.state = "running"
    BY DEF CaptureStep, CaptureStop, CaptureKnown, CaptureCached, CaptureLookup, CaptureOpen,
           CaptureRead, CapturePart, CaptureCount, CaptureVerify, Reading
  <2>. QED  BY <2>1, <2>2
<1>2. CASE /\ CaptureKnown \/ CaptureLookup \/ CaptureOpen \/ CapturePart \/ CaptureCount \/ CaptureVerify
           /\ ~CaptureFails
  <2>0. "place" \in DOMAIN capture
    BY DEF WasRead, CaptureFields
  <2>1. CASE CaptureKnown \/ CaptureLookup \/ CaptureOpen
    BY <1>2, <2>0, <2>1 DEF CaptureKnown, CaptureLookup, CaptureOpen, Reading
  <2>2. CASE CapturePart \/ CaptureCount \/ CaptureVerify
    BY <1>2, <2>0, <2>2 DEF CapturePart, CaptureCount, CaptureVerify
  <2>. QED  BY <1>2, <2>1, <2>2
<1>3. CASE CaptureCached
  <2>1. PICK c \in Held(Asked.name) : capture' = TakeFile(Asked.name, c, Asked.kind, capture)
    BY <1>3 DEF CaptureCached
  <2>2. capture.part \in Parts /\ capture.state = "running"
    BY <1>3 DEF CaptureCached, Reading
  <2>. QED  BY <2>1, <2>2, TakeFileTakes
<1>4. CASE CaptureRead /\ ~CaptureFails
  <2>. DEFINE cap == TakeFile(Asked.name, capture.reading.is, Asked.kind, capture)
  <2>1. /\ capture.part \in Parts /\ capture.state = "running"
        /\ capture' = [cap EXCEPT !.reading = NoFile,
                         !.read = Append(@, [name |-> Asked.name, file |-> capture.reading])]
    BY <1>4 DEF CaptureRead, Reading
  <2>2. cap.place = capture.place /\ "place" \in DOMAIN cap
    BY <2>1, TakeFileTakes DEF CaptureFields
  <2>. HIDE DEF cap
  <2>. QED  BY <2>1, <2>2
<1>. QED  BY <1>1, <1>2, <1>3, <1>4 DEF CaptureStep, CaptureStop

(* While a capture runs, only it moves. *)
LEMMA WorkWhileRunning ==
  ASSUME DiskShape, WasRead, Waits, FolderWork, capture.state = "running"
  PROVE  WasRead' /\ Waits'
<1>1. ExportStart \/ ExportStep => ExportCaptures
  BY ExportStages DEF Waits, CaptureOver
<1>2. InstallStep => InstallCaptures
  BY InstallStages DEF Waits, CaptureOver, InstallStart, Installing, Exporting
<1>3. ~ExportTrouble
  BY DEF Waits, ExportTrouble
<1>4. CASE (CaptureStep \/ CaptureStop) /\ UNCHANGED <<disk, edits, export, install>>
  BY <1>4, CaptureStepWasRead, CaptureStays DEF Waits
<1>5. CASE InstallTrouble
  <2>1. UNCHANGED <<disk, edits, capture, export>> /\ install' = [install EXCEPT !.at = "failed"]
        /\ install.at # "idle"
    BY <1>5 DEF InstallTrouble, InstallFails, FolderWork, FolderStep, FolderTrouble
  <2>2. WasRead'
    BY <2>1 DEF WasRead, Reads, Verifying1, Captured, EditedSince
  <2>3. Waits'
    BY <2>1 DEF Waits
  <2>. QED  BY <2>2, <2>3
<1>. QED
  BY <1>1, <1>2, <1>3, <1>4, <1>5
     DEF FolderWork, FolderStep, FolderTrouble, ExportCaptures, InstallCaptures

(* Otherwise a capture stays what it is, or one begins. *)
LEMMA WorkBetween ==
  ASSUME DiskShape, WasRead, Waits, FolderWork, capture.state # "running"
  PROVE  WasRead' /\ Waits'
<1>1. ~CaptureStep /\ ~CaptureStop
  BY CaptureStays
<1>2. UNCHANGED capture => WasRead'
  BY DEF WasRead, Reads, Verifying1, Captured, FolderWork, FolderStep, FolderTrouble
<1>3. CASE (ExportStart \/ ExportStep \/ ExportTrouble) /\ UNCHANGED install
  <2>1. ExportLeaves /\ export.at # "returned"
    BY <1>1, <1>3, ExportTurns, ExportStages DEF Waits, ExportCaptures, ExportTrouble
  <2>2. install.at = "idle"
    BY <2>1 DEF Waits
  <2>3. CASE UNCHANGED capture
    BY <1>2, <1>3, <2>1, <2>2, <2>3 DEF Waits, ExportLeaves
  <2>4. CASE CaptureStart("project") /\ export'.at \in {"capture", "captured again"}
    BY <1>3, <2>1, <2>2, <2>4, StartWasRead DEF Waits, ExportLeaves
  <2>. QED  BY <1>1, <2>1, <2>3, <2>4 DEF ExportLeaves
<1>4. CASE InstallStep \/ InstallTrouble
  <2>1. /\ UNCHANGED export /\ "at" \in DOMAIN install'
        /\ InstallStart => export.at = "returned"
    BY <1>4, InstallTurns DEF Waits
  <2>2. export.at = "returned"
    BY <1>1, <1>4, <2>1, InstallStages
       DEF Waits, InstallTrouble, InstallCaptures
  <2>3. CASE UNCHANGED capture
    BY <1>2, <2>1, <2>2, <2>3 DEF Waits
  <2>4. CASE CaptureStart("bundle") /\ install'.at = "identity"
    BY <2>1, <2>2, <2>4, StartWasRead DEF Waits
  <2>. QED  BY <1>1, <1>4, <2>3, <2>4, InstallLeaves DEF Waits
<1>. QED
  BY <1>1, <1>3, <1>4 DEF FolderWork, FolderStep, FolderTrouble

(* What others write, or remove, bears a new stamp. *)
LEMMA OthersStamp ==
  ASSUME DiskShape, Edit \/ Occupy, NEW p \in Place, NEW n \in Name
  PROVE  disk'[p][n] = disk[p][n] \/ disk'[p][n].at = edits'
<1>1. p \in DOMAIN disk /\ n \in DOMAIN disk[p]
  BY DEF DiskShape
<1>2. CASE Edit
  <2>1. PICK e \in Edits : disk' = [disk EXCEPT ![e[1]][e[2]] = [is |-> e[3], at |-> edits']]
    BY <1>2 DEF Edit
  <2>. QED  BY <1>1, <2>1
<1>3. CASE Occupy
  <2>1. PICK d \in {"none", "theirs"} :
          disk' = [disk EXCEPT !["bundle"] =
            [m \in Name |-> [is |-> IF d = "theirs" /\ m = Entry THEN 1 ELSE 0, at |-> edits']]]
    BY <1>3 DEF Occupy
  <2>2. CASE p = "bundle"
    BY <1>1, <2>1, <2>2
  <2>3. CASE p # "bundle"
    BY <1>1, <2>1, <2>3
  <2>. QED  BY <2>2, <2>3
<1>. QED  BY <1>2, <1>3

(* What others write gets a stamp that no capture has read. *)
LEMMA OthersWasRead ==
  ASSUME DiskShape, WasRead, Waits, Edit \/ Occupy
  PROVE  WasRead' /\ Waits'
<1>1. UNCHANGED <<capture, export, install>> /\ edits' = edits + 1 /\ edits \in Nat
  BY DEF Edit, Occupy, DiskShape
<1>2. Waits'
  BY <1>1 DEF Waits
<1>3. \A p \in Place, n \in Name : disk'[p][n] = disk[p][n] \/ disk'[p][n].at = edits'
  BY OthersStamp
<1>4. Reads' = Reads /\ (Verifying1' <=> Verifying1) /\ (Captured' <=> Captured)
  BY <1>1 DEF Reads, Verifying1, Captured
<1>5. \A i \in Reads : capture.read[i].name \in Name => capture.read[i].file.at \in 0 .. edits'
  BY <1>1 DEF WasRead
<1>6. ASSUME Verifying1, NEW n \in Name
      PROVE  disk'[capture.place][n] = capture.seen[n] \/ EditedSince(n)'
  <2>1. capture.place \in Place
    BY <1>6, ExportAssumption DEF Waits, Verifying1
  <2>2. disk[capture.place][n] = capture.seen[n] \/ EditedSince(n)
    BY <1>6 DEF WasRead
  <2>3. CASE disk'[capture.place][n] = disk[capture.place][n]
    BY <1>1, <2>2, <2>3 DEF EditedSince, Reads
  <2>4. CASE disk'[capture.place][n].at = edits'
    <3>1. ASSUME NEW i \in Reads, capture.read[i].name = n
          PROVE  edits' > capture.read[i].file.at
      <4>1. capture.read[i].file.at \in 0 .. edits
        BY <3>1 DEF WasRead
      <4>. QED  BY <1>1, <4>1
    <3>. QED  BY <1>1, <1>4, <2>4, <3>1 DEF EditedSince
  <2>. QED  BY <1>3, <2>1, <2>3, <2>4
<1>. QED  BY <1>1, <1>2, <1>4, <1>5, <1>6 DEF WasRead

LEMMA CaptureKeeps ==
  ASSUME CaptureKept, Foldering
  PROVE  CaptureKept'
<1>0. DiskShape /\ WasRead /\ Waits
  BY DEF CaptureKept
<1>1. ASSUME UNCHANGED folderVars
      PROVE  WasRead' /\ Waits'
  <2>1. UNCHANGED <<disk, capture, edits, export, install>>
    BY <1>1 DEF folderVars
  <2>2. WasRead'
    BY <1>0, <2>1 DEF WasRead, Reads, Verifying1, Captured, EditedSince
  <2>. QED  BY <1>0, <2>1, <2>2 DEF Waits
<1>2. WasRead' /\ Waits'
  BY <1>0, <1>1, WorkWhileRunning, WorkBetween, OthersWasRead
     DEF Foldering, FolderNext, FolderWork
<1>. QED  BY <1>0, <1>2, DiskStep DEF CaptureKept

OnDiskTogether ==
  Captured => \A p \in Parts, n \in Name : \A f \in Identity[p] : f[1] = n => capture.seen[n].is = f[2]

LEMMA KeptTogether == CaptureKept => OnDiskTogether
<1>. SUFFICES ASSUME CaptureKept, Captured, NEW p \in Parts, NEW n \in Name, NEW f \in Identity[p],
                     f[1] = n
              PROVE  capture.seen[n].is = f[2]
  BY DEF OnDiskTogether
<1>1. PICK i \in Reads : capture.read[i].name = n /\ capture.read[i].file.is = f[2]
  BY DEF CaptureKept, WasRead, Identity
<1>. QED  BY <1>1 DEF CaptureKept, WasRead

(* What a capture identifies was on the disk at one moment, the one at     *)
(* which its verification began, though others edit the directory and no   *)
(* two of the files were read at the same time (captureIdentity,           *)
(* CaptureState.read, verifyUnchanged of source-identity.ts).              *)
THEOREM CapturesAreOneState == Spec => []OnDiskTogether
<1>1. Init => CaptureKept
  BY DiskInit, WasReadInit DEF Init, CaptureKept
<1>2. CaptureKept /\ [Next]_vars => CaptureKept'
  BY FolderSteps, CaptureKeeps
<1>. QED  BY <1>1, <1>2, KeptTogether, PTL DEF Spec

-----------------------------------------------------------------------------
(***************************************************************************)
(* What an export returns.  The first part of the invariant follows the    *)
(* export: what it has selected, what it holds, what it has written and is *)
(* to write, from one stage to the next.                                   *)
(***************************************************************************)
ExportFields ==
  {"at", "supplied", "shared", "todo", "selected", "held", "node", "queue", "put", "after",
   "packed", "records", "checked"}

ExportTyped ==
  /\ DOMAIN export = ExportFields
  /\ export.selected \in Seq(ToSet(export.selected))
  /\ \A f \in ToSet(export.selected) : f = <<f[1], f[2]>>
  /\ export.held \in Seq(ToSet(export.held))
  /\ export.records \in Seq(ToSet(export.records))
  /\ export.queue \in Seq(ToSet(export.queue))
  /\ export.checked \in Nat

(* Before the sources are captured, before anything is written, and after  *)
(* everything is.                                                          *)
Choosing == {"idle", "parse", "absent", "select", "capture"}
Claiming == {"archives", "claim", "own"}
Checking == {"verify", "bind", "returned"}
AllWritten == {"recapture", "captured again", "manifest"} \union Checking
Apart == {"npm pack", "packed", "npm install", "locked"}

(* Where the files that are being written lead to. *)
Toward == IF export.at = "put" THEN export.after ELSE export.at

(* What was selected is what was recorded, with one content for each name. *)
Unique(files) == \A f, g \in files : f[1] \in Name /\ f[1] = g[1] => f[2] = g[2]

Agreed ==
  /\ ToSet(export.selected) = recorded["source"]
  /\ Selected(Metadata[2]) # {}
  /\ \A p \in Parts : Unique(recorded[p])

(* The archives that are held are those which the recorded lock pins. *)
Holding ==
  /\ export.at \in Choosing => export.held = <<>>
  /\ export.at = "archives" => export.shared /\ Len(export.held) < 2
  /\ export.at \notin Choosing \union {"archives", "failed"} /\ export.shared =>
       Len(export.held) = 2 /\ export.held[1] = Pinned /\ export.held[2] = Pinned

(* What is written, or is to be. *)
Planned == Declared \union {<<g.name, g.bytes>> : g \in ToSet(export.queue)}

WithRun == recorded["source"] \union {<<"run", 1>>}

WithArchive == WithRun \union {<<"archive", Packed>>, <<"wrapper", 1>>}

WholeExport ==
  IF export.shared
  THEN WithRun \union {<<"archive", Packed>>, <<"depArchive", Pinned>>, <<"installer", 1>>}
  ELSE WithArchive \union {<<"wrapperLock", Packed>>}

Progress ==
  /\ export.at = "put" =>
       export.after \in {"tree", "runtime", "recapture", "npm install"} /\ export.queue # <<>>
  /\ export.at \notin {"put", "failed"} => export.queue = <<>>
  /\ export.at \notin Checking \union {"failed"} => export.checked = 0
  /\ Toward \in Choosing \union Claiming => Planned = {}
  /\ Toward \in {"tree", "evidence"} => Planned = recorded["source"]
  /\ Toward \in {"runtime", "npm pack", "packed"} => Planned = WithRun
  /\ Toward \in {"npm install", "locked"} => Planned = WithArchive /\ export.packed = Packed
  /\ Toward \in AllWritten => Planned = WholeExport
  /\ Toward \in Apart => ~export.shared

ExportAt ==
  Choosing \union Claiming \union AllWritten \union Apart
    \union {"put", "tree", "evidence", "runtime", "failed"}

Prepared ==
  /\ ExportTyped /\ export.at \in ExportAt
  /\ export.at = "capture" => Selected(Metadata[2]) # {}
  /\ export.at \notin Choosing \union {"failed"} => Agreed
  /\ Holding /\ Progress

-----------------------------------------------------------------------------
(***************************************************************************)
(* The second part is about the folder: what was verified is still so,     *)
(* unless it was edited since.                                             *)
(***************************************************************************)
Manifest == {<<"manifest", 1>>}

Verified ==
  /\ export.at = "verify" =>
       /\ export.checked <= Len(export.records)
       /\ \A i \in 1 .. export.checked : Holds({export.records[i]})
       /\ export.checked > 0 => Holds(Manifest)
  /\ export.at \in {"bind", "returned"} /\ install.at \in {"idle", "clean"} =>
       Holds(Declared \union Manifest) /\ HoldsOnly(Declared \union Manifest)

InstallFields == {"at", "node", "after", "left", "cached"}

Ending == install.at = "installed" \/ (install.at = "verify" /\ install.after = "installed")

SeenInFolder ==
  install.at = "identity" =>
    /\ capture.place = "bundle"
    /\ Verifying1 \/ Captured => \A n \in Name : Untouched(n) => capture.seen[n] = Bundle[n]

InstallHeld ==
  /\ DOMAIN install = InstallFields
  /\ install.at = "verify" => install.after \in {"cache", "npm cache add", "npm ci", "npmrc", "installed"}
  /\ install.at = "installed" => install.left = {}
  /\ Ending => Holds(Config \ install.left) /\ Holds(recorded["dependencies"] \union recorded["runtime"])

ExportKept ==
  /\ CaptureKept /\ since \in 0 .. edits
  /\ Prepared /\ Verified /\ SeenInFolder /\ InstallHeld

-----------------------------------------------------------------------------
LEMMA SameFilesWanted ==
  ASSUME UNCHANGED recorded
  PROVE  /\ Packed' = Packed /\ Pinned' = Pinned /\ WithRun' = WithRun /\ WithArchive' = WithArchive
         /\ export'.shared = export.shared => WholeExport' = WholeExport
<1>1. Packed' = Packed /\ Pinned' = Pinned
  BY DEF Packed, Pinned
<1>2. WithRun' = WithRun /\ WithArchive' = WithArchive
  BY <1>1 DEF WithRun, WithArchive
<1>. QED  BY <1>1, <1>2 DEF WholeExport

(* The stages that follow each other while nothing else is decided. *)
Onward ==
  {<<"parse", "absent">>, <<"absent", "select">>, <<"claim", "own">>, <<"tree", "evidence">>,
   <<"npm pack", "packed">>, <<"npm install", "locked">>, <<"recapture", "captured again">>,
   <<"captured again", "manifest">>, <<"manifest", "verify">>, <<"verify", "bind">>, <<"bind", "returned">>}

(* Only the stage changes. *)
LEMMA StageMoves ==
  ASSUME ExportTyped, NEW b, export' = [export EXCEPT !.at = b]
  PROVE  /\ ExportTyped' /\ export'.at = b
         /\ UNCHANGED <<export.shared, export.selected, export.held, export.queue, export.put,
                       export.after, export.packed, export.records, export.checked>>
         /\ Planned' = Planned /\ (\A n : Selected(n)' = Selected(n))
<1>1. /\ DOMAIN export' = ExportFields /\ export'.at = b
      /\ UNCHANGED <<export.shared, export.selected, export.held, export.queue, export.put,
                    export.after, export.packed, export.records, export.checked>>
  BY DEF ExportTyped, ExportFields
<1>2. Planned' = Planned /\ (\A n : Selected(n)' = Selected(n))
  BY <1>1 DEF Planned, Declared, Selected
<1>3. ExportTyped'
  BY <1>1 DEF ExportTyped
<1>. QED  BY <1>1, <1>2, <1>3

LEMMA OnwardPrepared ==
  ASSUME Prepared, NEW b, export' = [export EXCEPT !.at = b], UNCHANGED recorded,
         b = "failed" \/ <<export.at, b>> \in Onward
  PROVE  Prepared'
<1>1. /\ ExportTyped' /\ export'.at = b
      /\ UNCHANGED <<export.shared, export.selected, export.held, export.queue, export.put,
                    export.after, export.packed, export.records, export.checked>>
      /\ Planned' = Planned /\ (\A n : Selected(n)' = Selected(n))
  BY StageMoves DEF Prepared
<1>2. /\ Packed' = Packed /\ Pinned' = Pinned /\ WithRun' = WithRun /\ WithArchive' = WithArchive
      /\ WholeExport' = WholeExport
  BY <1>1, SameFilesWanted
<1>3. Agreed => Agreed'
  BY <1>1 DEF Agreed
<1>4. CASE b = "failed"
  BY <1>1, <1>4
     DEF Prepared, Holding, Progress, Toward, ExportAt, Choosing, Claiming, AllWritten, Checking,
         Apart
<1>5. CASE <<export.at, b>> \in Onward
  <2>1. Holding'
    BY <1>1, <1>2, <1>5 DEF Prepared, Holding, Onward, Choosing
  <2>2. Progress'
    BY <1>1, <1>2, <1>5
       DEF Prepared, Progress, Toward, Onward, Choosing, Claiming, AllWritten, Checking, Apart
  <2>3. b \in ExportAt /\ (b \notin Choosing \union {"failed"} => Agreed)
    BY <1>5 DEF Prepared, Onward, ExportAt, Choosing, Claiming, AllWritten, Checking, Apart
  <2>4. b # "capture"
    BY <1>5 DEF Onward
  <2>. QED  BY <1>1, <1>3, <2>1, <2>2, <2>3, <2>4 DEF Prepared
<1>. QED  BY <1>4, <1>5

LEMMA AppendAdds ==
  ASSUME NEW s, s \in Seq(ToSet(s)), NEW e
  PROVE  ToSet(Append(s, e)) = ToSet(s) \union {e}
<1>. DEFINE t == Append(s, e)
<1>1. /\ DOMAIN s = 1 .. Len(s) /\ Len(s) \in Nat
      /\ DOMAIN t = 1 .. Len(s) + 1
      /\ \A i \in DOMAIN s : t[i] = s[i]
      /\ t[Len(s) + 1] = e
  BY AppendShape
<1>. HIDE DEF t
<1>2. \A x : x \in ToSet(t) <=> \E i \in 1 .. Len(s) + 1 : t[i] = x
  BY <1>1 DEF ToSet
<1>3. \A x : x \in ToSet(s) <=> \E i \in 1 .. Len(s) : s[i] = x
  BY <1>1 DEF ToSet
<1>4. ASSUME NEW x \in ToSet(t)
      PROVE  x \in ToSet(s) \union {e}
  <2>1. PICK i \in 1 .. Len(s) + 1 : t[i] = x
    BY <1>2
  <2>. QED  BY <1>1, <1>3, <2>1
<1>5. ASSUME NEW x \in ToSet(s) \union {e}
      PROVE  x \in ToSet(t)
  BY <1>1, <1>2, <1>3, <1>5
<1>. QED  BY <1>4, <1>5 DEF t

(* A sequence is its head and those after it. *)
LEMMA TailTakes ==
  ASSUME NEW s, s \in Seq(ToSet(s)), s # <<>>
  PROVE  /\ Tail(s) \in Seq(ToSet(Tail(s)))
         /\ ToSet(s) = ToSet(Tail(s)) \union {Head(s)}
         /\ Len(s) = 1 <=> Tail(s) = <<>>
<1>. DEFINE S == ToSet(s)
            t == Tail(s)
<1>1. /\ DOMAIN s = 1 .. Len(s) /\ Len(s) \in Nat \ {0} /\ Head(s) = s[1]
      /\ t \in Seq(S) /\ Len(t) = Len(s) - 1 /\ DOMAIN t = 1 .. Len(t)
      /\ \A i \in 1 .. Len(t) : t[i] = s[i + 1]
  <2>1. s \in Seq(S)
    OBVIOUS
  <2>. HIDE DEF S
  <2>2. s # <<>>
    OBVIOUS
  <2>. QED  BY <2>1, <2>2
<1>. HIDE DEF S, t
<1>2. t \in Seq(ToSet(t))
  <2>1. Len(t) \in Nat /\ t = [i \in 1 .. Len(t) |-> t[i]]
    BY <1>1
  <2>2. \A i \in 1 .. Len(t) : t[i] \in ToSet(t)
    BY <1>1 DEF ToSet
  <2>3. t \in [1 .. Len(t) -> ToSet(t)]
    BY <2>1, <2>2
  <2>. QED  BY <2>1, <2>3
<1>3. \A x : x \in ToSet(t) <=> \E i \in 1 .. Len(t) : t[i] = x
  BY <1>1 DEF ToSet
<1>4. \A x : x \in ToSet(s) <=> \E i \in 1 .. Len(s) : s[i] = x
  BY <1>1 DEF ToSet
<1>5. ASSUME NEW x \in ToSet(s)
      PROVE  x \in ToSet(t) \union {Head(s)}
  <2>1. PICK i \in 1 .. Len(s) : s[i] = x
    BY <1>4
  <2>2. CASE i = 1
    BY <1>1, <2>1, <2>2
  <2>3. CASE i # 1
    <3>1. i - 1 \in 1 .. Len(t) /\ t[i - 1] = x
      BY <1>1, <2>1, <2>3
    <3>. QED  BY <1>3, <3>1
  <2>. QED  BY <2>2, <2>3
<1>6. ASSUME NEW x \in ToSet(t) \union {Head(s)}
      PROVE  x \in ToSet(s)
  <2>1. CASE x = Head(s)
    BY <1>1, <1>4, <2>1
  <2>2. CASE x \in ToSet(t)
    <3>1. PICK i \in 1 .. Len(t) : t[i] = x
      BY <1>3, <2>2
    <3>2. i + 1 \in 1 .. Len(s) /\ s[i + 1] = x
      BY <1>1, <3>1
    <3>. QED  BY <1>4, <3>2
  <2>. QED  BY <1>6, <2>1, <2>2
<1>7. Len(s) = 1 <=> t = <<>>
  BY <1>1
<1>. QED  BY <1>2, <1>5, <1>6, <1>7 DEF t

LEMMA NoneIsSequence == <<>> \in Seq(ToSet(<<>>)) /\ ToSet(<<>>) = {} /\ Len(<<>>) = 0
<1>1. <<>> \in Seq(ToSet(<<>>)) /\ DOMAIN <<>> = {} /\ Len(<<>>) = 0
  OBVIOUS
<1>. QED  BY <1>1 DEF ToSet

LEMMA FailsPrepared ==
  ASSUME Prepared, ExportFails
  PROVE  Prepared'
  BY OnwardPrepared DEF ExportFails

LEMMA StartPrepared ==
  ASSUME Prepared, ExportStart
  PROVE  Prepared' /\ export'.at = "parse"
<1>1. PICK s \in Supplied : export' = [IdleExport EXCEPT
                  !.at = "parse", !.supplied = s,
                  !.todo = <<[name |-> Entry, kind |-> "local"]>>
                             \o Wanted(Metadata, "include") \o Wanted(SetToSeq(Includes), "include")]
  BY DEF ExportStart, Becomes
<1>2. /\ DOMAIN export' = ExportFields /\ export'.at = "parse"
      /\ export'.selected = <<>> /\ export'.held = <<>> /\ export'.queue = <<>> /\ export'.records = <<>>
      /\ export'.checked = 0
  BY <1>1 DEF IdleExport, ExportFields
<1>3. ExportTyped'
  BY <1>2, NoneIsSequence DEF ExportTyped
<1>4. Planned' = {}
  BY <1>2, NoneIsSequence DEF Planned, Declared
<1>5. Holding' /\ Progress'
  BY <1>2, <1>4 DEF Holding, Progress, Toward, Choosing, Claiming, AllWritten, Checking, Apart
<1>. QED  BY <1>2, <1>3, <1>5 DEF Prepared, ExportAt, Choosing

LEMMA SelectPrepared ==
  ASSUME Prepared, ExportSelect
  PROVE  Prepared'
<1>1. /\ export.at = "select" /\ DOMAIN export = ExportFields
  BY DEF ExportSelect, Exporting, Prepared, ExportTyped
<1>2. ASSUME NEW q, export' = [export EXCEPT !.todo = q]
      PROVE  Prepared'
  <2>1. /\ DOMAIN export' = ExportFields /\ export'.at = "select"
        /\ UNCHANGED <<export.selected, export.held, export.queue, export.records, export.checked>>
    BY <1>1, <1>2 DEF ExportFields
  <2>2. ExportTyped' /\ Planned' = Planned
    BY <2>1 DEF Prepared, ExportTyped, Planned, Declared
  <2>. QED
    BY <1>1, <2>1, <2>2
       DEF Prepared, Holding, Progress, Toward, ExportAt, Choosing, Claiming, AllWritten, Checking,
           Apart
<1>3. ASSUME NEW q, NEW a, NEW b, export' = [export EXCEPT !.selected = Append(@, <<a, b>>), !.todo = q]
      PROVE  Prepared'
  <2>1. /\ DOMAIN export' = ExportFields /\ export'.at = "select"
        /\ export'.selected = Append(export.selected, <<a, b>>)
        /\ UNCHANGED <<export.held, export.queue, export.records, export.checked>>
    BY <1>1, <1>3 DEF ExportFields
  <2>2. /\ export'.selected \in Seq(ToSet(export'.selected))
        /\ ToSet(export'.selected) = ToSet(export.selected) \union {<<a, b>>}
    <3>. DEFINE s == export.selected
    <3>1. s \in Seq(ToSet(s))
      BY DEF Prepared, ExportTyped
    <3>. HIDE DEF s
    <3>2. /\ Append(s, <<a, b>>) \in Seq(ToSet(Append(s, <<a, b>>)))
          /\ ToSet(Append(s, <<a, b>>)) = ToSet(s) \union {<<a, b>>}
      BY <3>1, AppendShape, AppendAdds
    <3>3. export'.selected = Append(s, <<a, b>>)
      BY <2>1 DEF s
    <3>. QED  BY <3>2, <3>3 DEF s
  <2>3. \A f \in ToSet(export'.selected) : f = <<f[1], f[2]>>
    <3>1. \A f \in ToSet(export.selected) : f = <<f[1], f[2]>>
      BY DEF Prepared, ExportTyped
    <3>. QED  BY <2>2, <3>1
  <2>4. Planned' = Planned
    BY <2>1 DEF Planned, Declared
  <2>5. ExportTyped'
    BY <2>1, <2>2, <2>3 DEF Prepared, ExportTyped
  <2>. QED
    BY <1>1, <2>1, <2>4, <2>5
       DEF Prepared, Holding, Progress, Toward, ExportAt, Choosing, Claiming, AllWritten, Checking, Apart
<1>. QED
  BY <1>2, <1>3, FailsPrepared DEF ExportSelect, Provided, Becomes

LEMMA LocksPrepared ==
  ASSUME Prepared, ExportLocks
  PROVE  Prepared'
<1>1. CASE ExportFails
  BY <1>1, FailsPrepared
<1>2. CASE ~ExportFails
  <2>1. /\ export.at = "select" /\ Selected(Metadata[2]) # {}
        /\ export' = [export EXCEPT !.at = "capture",
                                    !.shared = SharedPackages(recorded) # {} \/ export.supplied]
    BY <1>2 DEF ExportLocks, Provided, Exporting
  <2>2. /\ DOMAIN export' = ExportFields /\ export'.at = "capture"
        /\ UNCHANGED <<export.selected, export.held, export.queue, export.records, export.checked>>
    BY <2>1 DEF Prepared, ExportTyped, ExportFields
  <2>3. ExportTyped' /\ Planned' = Planned /\ Selected(Metadata[2])' # {}
    BY <2>1, <2>2 DEF Prepared, ExportTyped, Planned, Declared, Selected
  <2>. QED
    BY <2>1, <2>2, <2>3
       DEF Prepared, Holding, Progress, Toward, ExportAt, Choosing, Claiming, AllWritten, Checking,
           Apart
<1>. QED  BY <1>1, <1>2

LEMMA CapturePrepared ==
  ASSUME CaptureKept, Prepared, ExportCapture
  PROVE  Prepared'
<1>1. CASE ExportFails
  BY <1>1, FailsPrepared
<1>2. CASE ~ExportFails
  <2>. DEFINE b == IF export.shared THEN "archives" ELSE "claim"
  <2>1. /\ export.at = "capture" /\ AsRecorded /\ ToSet(export.selected) = recorded["source"]
        /\ export' = [export EXCEPT !.at = b] /\ UNCHANGED recorded
    BY <1>2 DEF ExportCapture, Provided, Exporting, Goes, Becomes, SameFiles
  <2>2. ASSUME NEW p \in Parts
        PROVE  Unique(recorded[p])
    <3>1. OnDiskTogether /\ Captured /\ Identity[p] = recorded[p]
      BY <2>1, KeptTogether DEF AsRecorded, SameIdentity, SameFiles
    <3>2. ASSUME NEW f \in recorded[p], NEW g \in recorded[p], f[1] \in Name, f[1] = g[1]
          PROVE  f[2] = g[2]
      <4>1. capture.seen[f[1]].is = f[2] /\ capture.seen[f[1]].is = g[2]
        BY <3>1, <3>2 DEF OnDiskTogether
      <4>. QED  BY <4>1
    <3>. QED  BY <3>2 DEF Unique
  <2>3. Agreed
    BY <2>1, <2>2 DEF Prepared, Agreed
  <2>4. b \in {"archives", "claim"} /\ (b = "archives" <=> export.shared)
    OBVIOUS
  <2>. HIDE DEF b
  <2>5. /\ ExportTyped' /\ export'.at = b
        /\ UNCHANGED <<export.shared, export.selected, export.held, export.queue, export.put,
                       export.after, export.packed, export.records, export.checked>>
        /\ Planned' = Planned /\ (\A n : Selected(n)' = Selected(n))
    BY <2>1, StageMoves DEF Prepared
  <2>6. Agreed'
    BY <2>1, <2>3, <2>5 DEF Agreed
  <2>7. Len(export.held) = 0
    BY <2>1 DEF Prepared, Holding, Choosing
  <2>8. Holding'
    BY <2>4, <2>5, <2>7 DEF Holding, Choosing
  <2>9. Progress'
    BY <2>1, <2>4, <2>5 DEF Prepared, Progress, Toward, Choosing, Claiming, AllWritten, Checking, Apart
  <2>. QED
    BY <2>4, <2>5, <2>6, <2>8, <2>9 DEF Prepared, ExportAt, Claiming
<1>. QED  BY <1>1, <1>2

LEMMA PinnedIs ==
  ASSUME Agreed, NEW l \in Selected(Metadata[2])
  PROVE  l = Pinned
<1>1. PICK f \in recorded["source"] : f[1] = Metadata[2] /\ f[2] = l
  BY DEF Selected, Agreed
<1>. DEFINE g == CHOOSE h \in recorded["source"] : h[1] = Metadata[2]
<1>2. g \in recorded["source"] /\ g[1] = Metadata[2]
  BY <1>1
<1>. HIDE DEF g
<1>3. Metadata[2] \in Name /\ "source" \in Parts
  BY ExportAssumption DEF Parts
<1>4. g[2] = l
  BY <1>1, <1>2, <1>3 DEF Agreed, Unique
<1>. QED  BY <1>4 DEF g, Pinned

LEMMA PackedIs ==
  ASSUME Agreed, NEW c, RuntimeFits(c)
  PROVE  c = Packed
<1>1. PICK f \in recorded["runtime"] : f[1] = Runtime /\ f[2] = c
  BY DEF RuntimeFits
<1>. DEFINE g == CHOOSE h \in recorded["runtime"] : h[1] = Runtime
<1>2. g \in recorded["runtime"] /\ g[1] = Runtime
  BY <1>1
<1>. HIDE DEF g
<1>3. Runtime \in Name /\ "runtime" \in Parts
  BY SourceIdentityAssumption DEF Parts
<1>4. g[2] = c
  BY <1>1, <1>2, <1>3 DEF Agreed, Unique
<1>. QED  BY <1>4 DEF g, Packed

LEMMA ArchivesPrepared ==
  ASSUME Prepared, ExportArchives
  PROVE  Prepared'
<1>1. CASE ExportFails
  BY <1>1, FailsPrepared
<1>2. CASE ~ExportFails
  <2>. DEFINE x == Project[Archives[Len(export.held) + 1]].is
              h == Append(export.held, x)
              all == Len(h) = Len(Archives)
              b == IF all THEN "claim" ELSE "archives"
  <2>1. /\ export.at = "archives" /\ UNCHANGED recorded
        /\ all => \E l \in Selected(Metadata[2]) : ArchivesFit(h, l)
        /\ export' = [export EXCEPT !.held = h, !.at = b]
    BY <1>2 DEF ExportArchives, Provided, Exporting, Becomes
  <2>2. /\ DOMAIN export' = ExportFields /\ export'.at = b /\ export'.held = h
        /\ UNCHANGED <<export.shared, export.selected, export.queue, export.records, export.checked>>
    <3>. HIDE DEF b, h
    <3>. QED  BY <2>1 DEF Prepared, ExportTyped, ExportFields
  <2>3. /\ h \in Seq(ToSet(h)) /\ Len(h) = Len(export.held) + 1 /\ DOMAIN h = 1 .. Len(h)
        /\ Len(export.held) \in Nat
    <3>. DEFINE s == export.held
    <3>1. s \in Seq(ToSet(s))
      BY DEF Prepared, ExportTyped
    <3>. HIDE DEF s, x
    <3>2. /\ Append(s, x) \in Seq(ToSet(Append(s, x)))
          /\ Len(s) \in Nat /\ DOMAIN Append(s, x) = 1 .. Len(s) + 1
      BY <3>1, AppendShape
    <3>3. Len(Append(s, x)) = Len(s) + 1
      BY <3>2
    <3>. QED  BY <3>2, <3>3 DEF s
  <2>4. Len(Archives) = 2
    BY DEF Archives
  <2>. HIDE DEF h
  <2>5. Len(export.held) < 2 /\ export.shared /\ Agreed
    BY <2>1 DEF Prepared, Holding, Choosing
  <2>6. all => Len(h) = 2 /\ h[1] = Pinned /\ h[2] = Pinned
    <3>1. SUFFICES ASSUME all PROVE Len(h) = 2 /\ h[1] = Pinned /\ h[2] = Pinned
      OBVIOUS
    <3>2. PICK l \in Selected(Metadata[2]) : ArchivesFit(h, l)
      BY <2>1, <3>1
    <3>3. l = Pinned
      BY <2>5, PinnedIs
    <3>4. \A i \in DOMAIN h : h[i] = Pinned
      BY <3>2, <3>3 DEF ArchivesFit
    <3>5. Len(h) = 2
      BY <2>4, <3>1
    <3>6. DOMAIN h = 1 .. 2
      BY <2>3, <3>5
    <3>7. 1 \in 1 .. 2 /\ 2 \in 1 .. 2
      OBVIOUS
    <3>. QED  BY <3>4, <3>5, <3>6, <3>7
  <2>7. ~all => Len(h) < 2
    BY <2>3, <2>4, <2>5
  <2>8. b \in {"archives", "claim"} /\ (b = "claim" <=> all)
    OBVIOUS
  <2>. HIDE DEF b, all
  <2>9. ExportTyped' /\ Planned' = Planned /\ Pinned' = Pinned
    BY <2>1, <2>2, <2>3, SameFilesWanted DEF Prepared, ExportTyped, Planned, Declared
  <2>10. Agreed'
    BY <2>1, <2>2, <2>5 DEF Agreed, Selected
  <2>11. Holding'
    BY <2>2, <2>5, <2>6, <2>7, <2>8, <2>9 DEF Holding, Choosing
  <2>12. Progress'
    BY <2>1, <2>2, <2>8, <2>9
       DEF Prepared, Progress, Toward, Choosing, Claiming, AllWritten, Checking, Apart
  <2>. QED
    BY <2>2, <2>8, <2>9, <2>10, <2>11, <2>12 DEF Prepared, ExportAt, Claiming
<1>. QED  BY <1>1, <1>2

Puts == {"tree", "runtime", "recapture", "npm install"}

(* What a list of files to write adds to what is planned. *)
Named(q) == {<<g.name, g.bytes>> : g \in ToSet(q)}

(* Files to write have been listed. *)
LEMMA PutPrepared ==
  ASSUME Prepared, UNCHANGED recorded,
         export.at \notin Choosing \union Checking \union {"archives", "failed"},
         DOMAIN export' = ExportFields, export'.at = "put", export'.after \in Puts,
         export'.queue \in Seq(ToSet(export'.queue)), export'.queue # <<>>,
         export'.records \in Seq(ToSet(export'.records)),
         UNCHANGED <<export.shared, export.selected, export.held, export.checked>>,
         export'.after = "tree" => Planned' = recorded["source"],
         export'.after = "runtime" => Planned' = WithRun,
         export'.after = "recapture" => Planned' = WholeExport,
         export'.after = "npm install" =>
           Planned' = WithArchive /\ export'.packed = Packed /\ ~export.shared
  PROVE  Prepared'
<1>1. /\ Packed' = Packed /\ Pinned' = Pinned /\ WithRun' = WithRun /\ WithArchive' = WithArchive
      /\ WholeExport' = WholeExport
  BY SameFilesWanted
<1>2. ExportTyped'
  BY DEF Prepared, ExportTyped
<1>3. Agreed'
  BY DEF Prepared, Agreed, Selected
<1>4. Holding'
  BY <1>1 DEF Prepared, Holding, Choosing
<1>5. export.checked = 0
  BY DEF Prepared, Progress
<1>6. Progress'
  BY <1>1, <1>5 DEF Progress, Toward, Puts, Choosing, Claiming, AllWritten, Checking, Apart
<1>. QED  BY <1>2, <1>3, <1>4, <1>6 DEF Prepared, ExportAt

LEMMA OneInList ==
  ASSUME NEW g
  PROVE  <<g>> \in Seq(ToSet(<<g>>)) /\ Named(<<g>>) = {<<g.name, g.bytes>>} /\ <<g>> # <<>>
<1>1. ToSet(<<g>>) = {g}
  BY DEF ToSet
<1>2. <<g>> \in Seq({g})
  OBVIOUS
<1>. QED  BY <1>1, <1>2 DEF Named

LEMMA CopiesList ==
  ASSUME Prepared, Agreed
  PROVE  Copies \in Seq(ToSet(Copies)) /\ Copies # <<>> /\ Named(Copies) = recorded["source"]
<1>. DEFINE s == export.selected
            c(i) == [name |-> s[i][1], bytes |-> s[i][2], guarded |-> TRUE, copied |-> TRUE]
            q == [i \in DOMAIN s |-> c(i)]
<1>1. s \in Seq(ToSet(s)) /\ \A f \in ToSet(s) : f = <<f[1], f[2]>>
  BY DEF Prepared, ExportTyped
<1>2. ToSet(s) # {}
  BY DEF Agreed, Selected
<1>3. Copies = q
  BY DEF Copies
<1>4. ToSet(s) = recorded["source"]
  BY DEF Agreed
<1>. HIDE DEF s
<1>5. DOMAIN s = 1 .. Len(s) /\ Len(s) \in Nat
  BY <1>1
<1>6. \A x : x \in ToSet(q) <=> \E i \in DOMAIN s : x = c(i)
  BY DEF ToSet
<1>7. q \in Seq(ToSet(q))
  BY <1>5, <1>6
<1>8. \A f : f \in ToSet(s) <=> \E i \in DOMAIN s : f = s[i]
  BY DEF ToSet
<1>9. q # <<>>
  <2>1. DOMAIN q = DOMAIN s /\ DOMAIN s # {}
    BY <1>2, <1>8
  <2>. HIDE DEF q
  <2>2. DOMAIN <<>> = {}
    OBVIOUS
  <2>. QED  BY <2>1, <2>2
<1>10. \A i \in DOMAIN s : s[i] = <<s[i][1], s[i][2]>>
  BY <1>1, <1>8
<1>11. Named(q) = ToSet(s)
  <2>1. \A f : f \in Named(q) <=> \E i \in DOMAIN s : f = <<c(i).name, c(i).bytes>>
    BY <1>6 DEF Named
  <2>2. \A i \in DOMAIN s : <<c(i).name, c(i).bytes>> = s[i]
    BY <1>10
  <2>. HIDE DEF q, c
  <2>3. \A f : f \in Named(q) <=> f \in ToSet(s)
    BY <1>8, <2>1, <2>2
  <2>. QED  BY <2>3
<1>. QED  BY <1>3, <1>4, <1>7, <1>9, <1>11

LEMMA OwnPrepared ==
  ASSUME Prepared, ExportOwn
  PROVE  Prepared'
<1>1. CASE ExportFails
  BY <1>1, FailsPrepared
<1>2. CASE ~ExportFails
  <2>1. export.at = "own" /\ export' = Writing([export EXCEPT !.node = dest], Copies, "tree")
        /\ UNCHANGED recorded
    BY <1>2 DEF ExportOwn, Provided, Exporting, Becomes
  <2>2. /\ DOMAIN export' = ExportFields /\ export'.at = "put" /\ export'.after = "tree"
        /\ export'.queue = Copies
        /\ UNCHANGED <<export.shared, export.selected, export.held, export.checked, export.records>>
    BY <2>1 DEF Prepared, ExportTyped, ExportFields, Writing
  <2>3. Agreed
    BY <2>1 DEF Prepared, Choosing
  <2>4. Copies \in Seq(ToSet(Copies)) /\ Copies # <<>> /\ Named(Copies) = recorded["source"]
    BY <2>3, CopiesList
  <2>5. Declared = {}
    BY <2>1 DEF Prepared, Progress, Toward, Claiming, Planned
  <2>6. Planned' = recorded["source"]
    BY <2>2, <2>4, <2>5 DEF Planned, Named, Declared
  <2>. QED
    BY <2>1, <2>2, <2>4, <2>6, PutPrepared DEF Prepared, ExportTyped, Puts, Choosing, Checking
<1>. QED  BY <1>1, <1>2

LEMMA EvidencePrepared ==
  ASSUME Prepared, ExportEvidence
  PROVE  Prepared'
<1>1. CASE ExportFails
  BY <1>1, FailsPrepared
<1>2. CASE ~ExportFails
  <2>. DEFINE q == <<Generated("run", 1, FALSE)>>
  <2>1. export.at = "evidence" /\ export' = Writing(export, q, "runtime") /\ UNCHANGED recorded
    BY <1>2 DEF ExportEvidence, Provided, Exporting, Becomes
  <2>2. q \in Seq(ToSet(q)) /\ q # <<>> /\ Named(q) = {<<"run", 1>>}
    BY OneInList DEF Generated
  <2>. HIDE DEF q
  <2>3. /\ DOMAIN export' = ExportFields /\ export'.at = "put" /\ export'.after = "runtime"
        /\ export'.queue = q
        /\ UNCHANGED <<export.shared, export.selected, export.held, export.checked, export.records>>
    BY <2>1 DEF Prepared, ExportTyped, ExportFields, Writing
  <2>4. Declared = recorded["source"]
    BY <2>1, NoneIsSequence DEF Prepared, Progress, Toward, Planned
  <2>5. Planned' = WithRun
    BY <2>2, <2>3, <2>4 DEF Planned, Named, Declared, WithRun
  <2>. QED
    BY <2>1, <2>2, <2>3, <2>5, PutPrepared DEF Prepared, ExportTyped, Puts, Choosing, Checking
<1>. QED  BY <1>1, <1>2

LEMMA ThirdInList ==
  ASSUME NEW x, NEW y, NEW z
  PROVE  <<x, y>> \o <<z>> = <<x, y, z>>
<1>1. ASSUME NEW S, NEW u \in Seq(S), NEW v \in Seq(S), NEW w \in Seq(S),
             Len(u) = 2, Len(v) = 1, Len(w) = 3, u[1] = w[1], u[2] = w[2], v[1] = w[3]
      PROVE  u \o v = w
  <2>0. /\ u \o v \in Seq(S) /\ Len(u \o v) = Len(u) + Len(v)
        /\ \A i \in 1 .. Len(u) + Len(v) :
             (u \o v)[i] = IF i <= Len(u) THEN u[i] ELSE v[i - Len(u)]
    BY ConcatProperties, Zenon
  <2>. DEFINE t == u \o v
  <2>1. t \in Seq(S) /\ Len(t) = 3 /\ \A i \in 1 .. 3 : t[i] = IF i <= 2 THEN u[i] ELSE v[i - 2]
    <3>1. Len(u) + Len(v) = 3
      BY <1>1
    <3>. QED  BY <1>1, <2>0, <3>1, Zenon
  <2>. HIDE DEF t
  <2>2. t[1] = w[1] /\ t[2] = w[2] /\ t[3] = w[3]
    BY <1>1, <2>1
  <2>3. \A i \in 1 .. 3 : t[i] = w[i]
    BY <2>2
  <2>4. t = w
    BY <1>1, <2>1, <2>3
  <2>. QED  BY <2>4 DEF t
<1>2. /\ <<x, y>> \in Seq({x, y, z}) /\ Len(<<x, y>>) = 2
      /\ <<z>> \in Seq({x, y, z}) /\ Len(<<z>>) = 1
      /\ <<x, y, z>> \in Seq({x, y, z}) /\ Len(<<x, y, z>>) = 3
      /\ <<x, y>>[1] = <<x, y, z>>[1] /\ <<x, y>>[2] = <<x, y, z>>[2] /\ <<z>>[1] = <<x, y, z>>[3]
  OBVIOUS
<1>. QED  BY <1>1, <1>2, Zenon

LEMMA RuntimePrepared ==
  ASSUME Prepared, ExportRuntime
  PROVE  Prepared'
<1>1. CASE ExportFails
  BY <1>1, FailsPrepared
<1>. DEFINE a(i) == Generated(Archives[i], export.held[i], TRUE)
            q == [i \in DOMAIN Archives |-> a(i)] \o <<Generated("installer", 1, FALSE)>>
<1>2. /\ export.at = "runtime" /\ Agreed
      /\ Declared = WithRun
  BY NoneIsSequence
     DEF ExportRuntime, Exporting, Prepared, Progress, Toward, Planned, Choosing
<1>3. CASE ~ExportFails /\ export.shared
  <2>1. RuntimeFits(export.held[1]) /\ export' = Writing(export, q, "recapture") /\ UNCHANGED recorded
    BY <1>3 DEF ExportRuntime, Provided, Becomes
  <2>2. export.held[1] = Pinned /\ export.held[2] = Pinned /\ Pinned = Packed
    <3>1. export.held[1] = Pinned /\ export.held[2] = Pinned
      BY <1>2, <1>3 DEF Prepared, Holding, Choosing
    <3>. QED  BY <1>2, <2>1, <3>1, PackedIs
  <2>3. q = <<Generated("archive", Packed, TRUE), Generated("depArchive", Pinned, TRUE),
              Generated("installer", 1, FALSE)>>
    <3>. DEFINE x == Generated("archive", Packed, TRUE)
                y == Generated("depArchive", Pinned, TRUE)
                z == Generated("installer", 1, FALSE)
                u == [i \in DOMAIN Archives |-> a(i)]
    <3>1. DOMAIN Archives = 1 .. 2
      BY DEF Archives
    <3>2. a(1) = x /\ a(2) = y
      BY <2>2 DEF Archives
    <3>. HIDE DEF x, y, z, a
    <3>3. u = <<x, y>>
      BY <3>1, <3>2
    <3>. HIDE DEF u
    <3>4. u \o <<z>> = <<x, y, z>>
      BY <3>3, ThirdInList
    <3>. QED  BY <3>4 DEF x, y, z, u
  <2>4. /\ q \in Seq(ToSet(q)) /\ q # <<>>
        /\ Named(q) = {<<"archive", Packed>>, <<"depArchive", Pinned>>, <<"installer", 1>>}
    <3>. DEFINE x == Generated("archive", Packed, TRUE)
                y == Generated("depArchive", Pinned, TRUE)
                z == Generated("installer", 1, FALSE)
                t == <<x, y, z>>
    <3>1. /\ x.name = "archive" /\ x.bytes = Packed /\ y.name = "depArchive" /\ y.bytes = Pinned
          /\ z.name = "installer" /\ z.bytes = 1
      BY DEF Generated
    <3>. HIDE DEF x, y, z
    <3>2. ToSet(t) = {x, y, z}
      BY DEF ToSet
    <3>3. t \in Seq({x, y, z}) /\ t # <<>>
      OBVIOUS
    <3>4. Named(t) = {<<"archive", Packed>>, <<"depArchive", Pinned>>, <<"installer", 1>>}
      BY <3>1, <3>2 DEF Named
    <3>. QED  BY <2>3, <3>2, <3>3, <3>4 DEF x, y, z
  <2>. HIDE DEF q
  <2>5. /\ DOMAIN export' = ExportFields /\ export'.at = "put" /\ export'.after = "recapture"
        /\ export'.queue = q
        /\ UNCHANGED <<export.shared, export.selected, export.held, export.checked, export.records>>
    BY <2>1 DEF Prepared, ExportTyped, ExportFields, Writing
  <2>6. Planned' = WholeExport
    BY <1>2, <1>3, <2>4, <2>5 DEF Planned, Named, Declared, WholeExport
  <2>. QED
    BY <1>2, <2>1, <2>4, <2>5, <2>6, PutPrepared
       DEF Prepared, ExportTyped, Puts, Choosing, Checking
<1>4. CASE ~ExportFails /\ ~export.shared
  <2>1. export' = [export EXCEPT !.at = "npm pack"] /\ UNCHANGED recorded
    BY <1>4 DEF ExportRuntime, Provided, Goes, Becomes
  <2>2. /\ ExportTyped' /\ export'.at = "npm pack"
        /\ UNCHANGED <<export.shared, export.selected, export.held, export.queue, export.put,
                       export.after, export.packed, export.records, export.checked>>
        /\ Planned' = Planned /\ (\A n : Selected(n)' = Selected(n))
    BY <2>1, StageMoves DEF Prepared
  <2>3. Agreed' /\ WithRun' = WithRun
    BY <1>2, <2>1, <2>2, SameFilesWanted DEF Agreed
  <2>4. Holding'
    BY <1>4, <2>2 DEF Holding, Choosing
  <2>5. Progress'
    BY <1>2, <1>4, <2>2, <2>3
       DEF Prepared, Progress, Toward, Choosing, Claiming, AllWritten, Checking, Apart
  <2>. QED  BY <2>2, <2>3, <2>4, <2>5 DEF Prepared, ExportAt, Apart
<1>. QED  BY <1>1, <1>3, <1>4

LEMMA PackedPrepared ==
  ASSUME Prepared, ExportPacked
  PROVE  Prepared'
<1>1. CASE ExportFails
  BY <1>1, FailsPrepared
<1>2. CASE ~ExportFails
  <2>. DEFINE q == <<Generated("wrapper", 1, TRUE)>>
              p == Bundle["archive"].is
              r == Append(export.records, <<"archive", p>>)
  <2>1. /\ export.at = "packed" /\ RuntimeFits(p) /\ UNCHANGED recorded
        /\ export' = Writing([export EXCEPT !.packed = p, !.records = r], q, "npm install")
    BY <1>2 DEF ExportPacked, Provided, Exporting, Becomes
  <2>2. q \in Seq(ToSet(q)) /\ q # <<>> /\ Named(q) = {<<"wrapper", 1>>}
    BY OneInList DEF Generated
  <2>3. Agreed /\ Declared = WithRun /\ ~export.shared
    BY <2>1, NoneIsSequence DEF Prepared, Progress, Toward, Planned, Choosing, Apart
  <2>4. p = Packed
    BY <2>1, <2>3, PackedIs
  <2>5. r \in Seq(ToSet(r)) /\ ToSet(r) = WithRun \union {<<"archive", Packed>>}
    <3>. DEFINE s == export.records
    <3>1. s \in Seq(ToSet(s)) /\ ToSet(s) = WithRun
      BY <2>3 DEF Prepared, ExportTyped, Declared
    <3>. HIDE DEF s
    <3>2. /\ Append(s, <<"archive", Packed>>) \in Seq(ToSet(Append(s, <<"archive", Packed>>)))
          /\ ToSet(Append(s, <<"archive", Packed>>)) = WithRun \union {<<"archive", Packed>>}
      BY <3>1, AppendShape, AppendAdds
    <3>. QED  BY <2>4, <3>2 DEF s
  <2>. HIDE DEF q, r, p
  <2>6. /\ DOMAIN export' = ExportFields /\ export'.at = "put" /\ export'.after = "npm install"
        /\ export'.queue = q /\ export'.packed = p /\ export'.records = r
        /\ UNCHANGED <<export.shared, export.selected, export.held, export.checked>>
    BY <2>1 DEF Prepared, ExportTyped, ExportFields, Writing
  <2>7. Planned' = WithArchive
    BY <2>2, <2>5, <2>6 DEF Planned, Named, Declared, WithArchive
  <2>. QED
    BY <2>1, <2>2, <2>3, <2>4, <2>5, <2>6, <2>7, PutPrepared
       DEF Prepared, ExportTyped, Puts, Choosing, Checking
<1>. QED  BY <1>1, <1>2

LEMMA LockedPrepared ==
  ASSUME Prepared, ExportLocked
  PROVE  Prepared'
<1>1. CASE ExportFails
  BY <1>1, FailsPrepared
<1>2. CASE ~ExportFails
  <2>. DEFINE f == <<"wrapperLock", export.packed>>
              r == Append(export.records, f)
  <2>1. /\ export.at = "locked" /\ UNCHANGED recorded
        /\ export' = [export EXCEPT !.at = "recapture", !.records = r]
    BY <1>2 DEF ExportLocked, Provided, Exporting, Becomes
  <2>2. /\ Agreed /\ Declared = WithArchive /\ ~export.shared /\ export.packed = Packed
        /\ export.queue = <<>> /\ export.checked = 0
    BY <2>1, NoneIsSequence DEF Prepared, Progress, Toward, Planned, Choosing, Checking, Apart
  <2>3. r \in Seq(ToSet(r)) /\ ToSet(r) = WholeExport
    <3>. DEFINE s == export.records
    <3>1. s \in Seq(ToSet(s)) /\ ToSet(s) = WithArchive
      BY <2>2 DEF Prepared, ExportTyped, Declared
    <3>. HIDE DEF s, f
    <3>2. Append(s, f) \in Seq(ToSet(Append(s, f))) /\ ToSet(Append(s, f)) = WithArchive \union {f}
      BY <3>1, AppendShape, AppendAdds
    <3>3. WholeExport = WithArchive \union {f}
      BY <2>2 DEF WholeExport, f
    <3>. QED  BY <3>2, <3>3 DEF s
  <2>. HIDE DEF r
  <2>4. /\ DOMAIN export' = ExportFields /\ export'.at = "recapture" /\ export'.records = r
        /\ UNCHANGED <<export.shared, export.selected, export.held, export.checked, export.queue>>
    BY <2>1 DEF Prepared, ExportTyped, ExportFields
  <2>5. WholeExport' = WholeExport /\ Agreed'
    BY <2>1, <2>2, <2>4, SameFilesWanted DEF Agreed, Selected
  <2>6. Planned' = WholeExport
    BY <2>2, <2>3, <2>4, NoneIsSequence DEF Planned, Declared
  <2>7. ExportTyped'
    BY <2>3, <2>4 DEF Prepared, ExportTyped
  <2>8. Holding'
    BY <2>2, <2>4 DEF Holding, Choosing
  <2>9. Progress'
    BY <2>2, <2>4, <2>5, <2>6 DEF Progress, Toward, Choosing, Claiming, AllWritten, Checking, Apart
  <2>. QED  BY <2>4, <2>5, <2>7, <2>8, <2>9 DEF Prepared, ExportAt, AllWritten
<1>. QED  BY <1>1, <1>2

LEMMA GuardPrepared ==
  ASSUME Prepared, ExportGuard \/ ExportWrite
  PROVE  Prepared'
<1>1. CASE ExportFails
  BY <1>1, FailsPrepared
<1>2. CASE ~ExportFails
  <2>1. PICK b \in {"write", "check"} : export' = [export EXCEPT !.put = b]
    BY <1>2 DEF ExportGuard, ExportWrite, Provided, Becomes
  <2>2. UNCHANGED recorded
    BY <1>2 DEF ExportGuard, ExportWrite, Provided, Becomes
  <2>3. /\ DOMAIN export' = ExportFields
        /\ UNCHANGED <<export.at, export.shared, export.selected, export.held, export.queue,
                       export.after, export.packed, export.records, export.checked>>
    BY <2>1 DEF Prepared, ExportTyped, ExportFields
  <2>4. ExportTyped' /\ Planned' = Planned /\ (\A n : Selected(n)' = Selected(n)) /\ Toward' = Toward
    BY <2>3 DEF Prepared, ExportTyped, Planned, Declared, Selected, Toward
  <2>5. /\ Packed' = Packed /\ Pinned' = Pinned /\ WithRun' = WithRun /\ WithArchive' = WithArchive
        /\ WholeExport' = WholeExport
    BY <2>2, <2>3, SameFilesWanted
  <2>6. Agreed => Agreed'
    BY <2>2, <2>3, <2>4 DEF Agreed
  <2>7. Holding' /\ Progress'
    BY <2>2, <2>3, <2>4, <2>5 DEF Prepared, Holding, Progress
  <2>. QED  BY <2>3, <2>4, <2>6, <2>7 DEF Prepared
<1>. QED  BY <1>1, <1>2

LEMMA ReadBackPrepared ==
  ASSUME Prepared, ExportReadBack
  PROVE  Prepared'
<1>1. CASE ExportFails
  BY <1>1, FailsPrepared
<1>2. CASE ~ExportFails
  <2>. DEFINE g == Head(export.queue)
              f == <<g.name, g.bytes>>
              r == Append(export.records, f)
              q == Tail(export.queue)
              last == Len(export.queue) = 1
              b == IF last THEN export.after ELSE "put"
  <2>1. /\ export.at = "put" /\ UNCHANGED recorded
        /\ export' = [export EXCEPT !.records = r, !.put = "guard", !.queue = q, !.at = b]
    BY <1>2 DEF ExportReadBack, Provided, Exporting, Becomes, File1
  <2>2. /\ q \in Seq(ToSet(q)) /\ ToSet(export.queue) = ToSet(q) \union {g} /\ (last <=> q = <<>>)
        /\ export.queue # <<>>
    <3>. DEFINE s == export.queue
    <3>1. s \in Seq(ToSet(s)) /\ s # <<>>
      BY <2>1 DEF Prepared, ExportTyped, Progress
    <3>. HIDE DEF s
    <3>2. /\ Tail(s) \in Seq(ToSet(Tail(s))) /\ ToSet(s) = ToSet(Tail(s)) \union {Head(s)}
          /\ (Len(s) = 1 <=> Tail(s) = <<>>)
      BY <3>1, TailTakes
    <3>. QED  BY <3>1, <3>2 DEF s
  <2>3. r \in Seq(ToSet(r)) /\ ToSet(r) = Declared \union {f}
    <3>. DEFINE s == export.records
    <3>1. s \in Seq(ToSet(s)) /\ ToSet(s) = Declared
      BY DEF Prepared, ExportTyped, Declared
    <3>. HIDE DEF s, f
    <3>2. Append(s, f) \in Seq(ToSet(Append(s, f))) /\ ToSet(Append(s, f)) = ToSet(s) \union {f}
      BY <3>1, AppendShape, AppendAdds
    <3>. QED  BY <3>1, <3>2 DEF s
  <2>4. /\ export.after \in Puts /\ export.checked = 0
        /\ Toward = export.after /\ Agreed
    BY <2>1 DEF Prepared, Progress, Toward, Puts, Checking, Choosing
  <2>5. b \in {"put", export.after} /\ (b = "put" => q # <<>>) /\ (b # "put" => q = <<>>)
    BY <2>2, <2>4 DEF Puts
  <2>. HIDE DEF r, q, b
  <2>6. /\ DOMAIN export' = ExportFields /\ export'.at = b /\ export'.records = r /\ export'.queue = q
        /\ UNCHANGED <<export.shared, export.selected, export.held, export.checked, export.after,
                       export.packed>>
    BY <2>1 DEF Prepared, ExportTyped, ExportFields
  <2>7. Planned' = Planned
    <3>1. \A x : x \in Planned' <=> x \in ToSet(r) \/ \E h \in ToSet(q) : x = <<h.name, h.bytes>>
      BY <2>6 DEF Planned, Declared
    <3>2. \A x : x \in Planned <=> x \in Declared \/ \E h \in ToSet(export.queue) : x = <<h.name, h.bytes>>
      BY DEF Planned
    <3>3. \A x : x \in Planned' <=> x \in Planned
      BY <2>2, <2>3, <3>1, <3>2
    <3>. QED  BY <3>3
  <2>8. Toward' = Toward
    BY <2>4, <2>5, <2>6 DEF Toward
  <2>9. /\ Packed' = Packed /\ Pinned' = Pinned /\ WithRun' = WithRun /\ WithArchive' = WithArchive
        /\ WholeExport' = WholeExport
    BY <2>1, <2>6, SameFilesWanted
  <2>10. Agreed'
    BY <2>1, <2>4, <2>6 DEF Agreed, Selected
  <2>11. ExportTyped'
    BY <2>2, <2>3, <2>6 DEF Prepared, ExportTyped
  <2>12. b \in Puts \union {"put"}
    BY <2>4, <2>5
  <2>13. Holding'
    BY <2>1, <2>6, <2>9, <2>12 DEF Prepared, Holding, Choosing, Puts
  <2>14. Progress'
    BY <2>1, <2>4, <2>5, <2>6, <2>7, <2>8, <2>9, <2>12 DEF Prepared, Progress, Puts, Checking
  <2>15. b \in ExportAt /\ b # "capture"
    BY <2>12 DEF ExportAt, Puts, AllWritten, Apart
  <2>. QED  BY <2>6, <2>10, <2>11, <2>13, <2>14, <2>15 DEF Prepared
<1>. QED  BY <1>1, <1>2

LEMMA VerifyPrepared ==
  ASSUME Prepared, ExportVerify
  PROVE  Prepared'
<1>1. CASE ExportFails
  BY <1>1, FailsPrepared
<1>2. CASE ~ExportFails
  <2>1. /\ export' = [export EXCEPT !.checked = @ + 1] /\ UNCHANGED recorded /\ export.at = "verify"
    BY <1>2 DEF ExportVerify, Provided, Becomes, Exporting
  <2>2. /\ DOMAIN export' = ExportFields /\ export'.checked = export.checked + 1
        /\ UNCHANGED <<export.at, export.shared, export.selected, export.held, export.queue,
                       export.after, export.packed, export.records>>
    BY <2>1 DEF Prepared, ExportTyped, ExportFields
  <2>3. ExportTyped' /\ Planned' = Planned /\ (\A n : Selected(n)' = Selected(n)) /\ Toward' = Toward
    BY <2>2 DEF Prepared, ExportTyped, Planned, Declared, Selected, Toward
  <2>4. /\ Packed' = Packed /\ Pinned' = Pinned /\ WithRun' = WithRun /\ WithArchive' = WithArchive
        /\ WholeExport' = WholeExport
    BY <2>1, <2>2, SameFilesWanted
  <2>5. Agreed => Agreed'
    BY <2>1, <2>2, <2>3 DEF Agreed
  <2>6. Holding' /\ Progress'
    BY <2>1, <2>2, <2>3, <2>4 DEF Prepared, Holding, Progress, Checking
  <2>. QED  BY <2>2, <2>3, <2>5, <2>6 DEF Prepared
<1>. QED  BY <1>1, <1>2

(* What the export's own state means is kept by all else. *)
LEMMA StillPrepared ==
  ASSUME Prepared, UNCHANGED <<export, recorded>>
  PROVE  Prepared'
<1>1. /\ Packed' = Packed /\ Pinned' = Pinned /\ WithRun' = WithRun /\ WithArchive' = WithArchive
      /\ WholeExport' = WholeExport
  BY SameFilesWanted
<1>2. ExportTyped' /\ Planned' = Planned /\ (\A n : Selected(n)' = Selected(n)) /\ Toward' = Toward
  BY DEF Prepared, ExportTyped, Planned, Declared, Selected, Toward
<1>3. Agreed => Agreed'
  BY <1>2 DEF Agreed
<1>4. Holding' /\ Progress'
  BY <1>1, <1>2 DEF Prepared, Holding, Progress
<1>. QED  BY <1>2, <1>3, <1>4 DEF Prepared


LEMMA PreparedInit == FolderInit => Prepared
<1>. SUFFICES ASSUME FolderInit PROVE Prepared
  OBVIOUS
<1>1. /\ DOMAIN export = ExportFields /\ export.at = "idle"
      /\ export.selected = <<>> /\ export.held = <<>> /\ export.queue = <<>> /\ export.records = <<>>
      /\ export.checked = 0
  BY DEF FolderInit, IdleExport, ExportFields
<1>2. ExportTyped
  BY <1>1, NoneIsSequence DEF ExportTyped
<1>3. Planned = {}
  BY <1>1, NoneIsSequence DEF Planned, Declared
<1>4. Holding /\ Progress
  BY <1>1, <1>3 DEF Holding, Progress, Toward, Choosing, Claiming, AllWritten, Checking, Apart
<1>. QED  BY <1>1, <1>2, <1>4 DEF Prepared, ExportAt, Choosing

(* The steps that only move on. *)
LEMMA OnlyMoves ==
  ASSUME Prepared,
         \/ ExportParse \/ ExportAbsent \/ ExportClaim \/ ExportTree \/ NpmPack \/ NpmLock
         \/ ExportRecapture \/ ExportCapturedAgain \/ ExportManifest \/ ExportList \/ ExportBind
  PROVE  Prepared'
<1>1. CASE ExportFails
  BY <1>1, FailsPrepared
<1>2. CASE ~ExportFails
  <2>1. CASE ExportParse \/ ExportAbsent \/ ExportTree
    <3>1. PICK b : export' = [export EXCEPT !.at = b] /\ <<export.at, b>> \in Onward /\ UNCHANGED recorded
      BY <1>2, <2>1
         DEF ExportParse, ExportAbsent, ExportTree, Provided, Goes, Becomes, Exporting, Onward
    <3>. QED  BY <3>1, OnwardPrepared
  <2>2. CASE ExportClaim \/ NpmPack \/ NpmLock \/ ExportManifest
    <3>1. PICK b : export' = [export EXCEPT !.at = b] /\ <<export.at, b>> \in Onward /\ UNCHANGED recorded
      BY <1>2, <2>2 DEF ExportClaim, NpmPack, NpmLock, ExportManifest, Provided, Exporting, Onward
    <3>. QED  BY <3>1, OnwardPrepared
  <2>3. CASE ExportRecapture \/ ExportCapturedAgain \/ ExportList \/ ExportBind
    <3>1. PICK b : export' = [export EXCEPT !.at = b] /\ <<export.at, b>> \in Onward /\ UNCHANGED recorded
      BY <1>2, <2>3 DEF ExportRecapture, ExportCapturedAgain, ExportList, ExportBind, Provided, Goes,
                        Becomes, Exporting, Onward
    <3>. QED  BY <3>1, OnwardPrepared
  <2>. QED  BY <2>1, <2>2, <2>3
<1>. QED  BY <1>1, <1>2

LEMMA InstallLeavesExport ==
  ASSUME InstallStep \/ InstallTrouble
  PROVE  UNCHANGED <<export, recorded>>
<1>1. CASE InstallStart \/ InstallClean \/ InstallVerify \/ InstallVerified \/ InstallArchive \/ NpmCacheAdd
  BY <1>1 DEF InstallStart, InstallClean, InstallVerify, InstallVerified, InstallArchive, NpmCacheAdd,
              InstallProvided, InstallBecomes, InstallFails
<1>2. CASE NpmCi \/ NpmCiEnds \/ InstallCapture \/ InstallCaptured \/ InstallCaptures \/ InstallTrouble
  BY <1>2 DEF NpmCi, NpmCiEnds, InstallCapture, InstallCaptured, InstallCaptures, InstallTrouble,
              InstallProvided, InstallBecomes, InstallFails
<1>. QED  BY <1>1, <1>2 DEF InstallStep

LEMMA PreparedStep ==
  ASSUME CaptureKept, Prepared, Foldering
  PROVE  Prepared'
<1>1. CASE ExportStart \/ ExportTrouble
  BY <1>1, StartPrepared, FailsPrepared DEF ExportTrouble
<1>2. CASE ExportStep /\ ~ExportCaptures
  BY <1>2, OnlyMoves, SelectPrepared, LocksPrepared, CapturePrepared, ArchivesPrepared, OwnPrepared,
     GuardPrepared, ReadBackPrepared, EvidencePrepared, RuntimePrepared, PackedPrepared, LockedPrepared,
     VerifyPrepared
     DEF ExportStep
<1>3. CASE UNCHANGED <<export, recorded>>
  BY <1>3, StillPrepared
<1>4. ExportCaptures \/ Edit \/ Occupy \/ UNCHANGED folderVars => UNCHANGED <<export, recorded>>
  BY DEF ExportCaptures, Edit, Occupy, folderVars
<1>5. FolderTrouble => ExportTrouble \/ UNCHANGED <<export, recorded>>
  BY InstallLeavesExport DEF FolderTrouble
<1>6. FolderStep => ExportStart \/ ExportStep \/ UNCHANGED <<export, recorded>>
  BY InstallLeavesExport DEF FolderStep
<1>. QED
  BY <1>1, <1>2, <1>3, <1>4, <1>5, <1>6 DEF Foldering, FolderNext


-----------------------------------------------------------------------------
LEMMA SinceStep ==
  ASSUME DiskShape, since \in 0 .. edits, Foldering
  PROVE  since' \in 0 .. edits'
<1>1. since' \in {since, edits} /\ edits' \in {edits, edits + 1}
  <2>1. CASE FolderStep \/ FolderTrouble
    BY <2>1 DEF FolderStep, FolderTrouble
  <2>2. CASE Edit \/ Occupy \/ UNCHANGED folderVars
    BY <2>2 DEF Edit, Occupy, folderVars
  <2>. QED  BY <2>1, <2>2 DEF Foldering, FolderNext
<1>2. edits \in Nat
  BY DEF DiskShape
<1>. QED  BY <1>1, <1>2

(* Where nothing is copied, what is untouched has been so, and is the same. *)
LEMMA UntouchedStays ==
  ASSUME DiskShape, since \in 0 .. edits, Foldering, ~Copying, ~VerificationBegins
  PROVE  /\ since' = since
         /\ \A n \in Name : Untouched(n)' => Untouched(n) /\ Bundle'[n] = Bundle[n]
<1>1. since' = since
  BY DEF Foldering, FolderNext, FolderStep, FolderTrouble, Edit, Occupy, folderVars
<1>2. CASE UNCHANGED disk
  BY <1>1, <1>2 DEF Untouched, Bundle
<1>3. CASE Edit \/ Occupy
  <2>. SUFFICES ASSUME NEW n \in Name, Untouched(n)'
                PROVE  Untouched(n) /\ Bundle'[n] = Bundle[n]
    BY <1>1
  <2>1. disk'["bundle"][n] = disk["bundle"][n] \/ disk'["bundle"][n].at = edits'
    BY <1>3, OthersStamp, ExportAssumption
  <2>2. edits' = edits + 1 /\ edits \in Nat
    BY <1>3 DEF Edit, Occupy, DiskShape
  <2>. QED  BY <1>1, <2>1, <2>2 DEF Untouched, Bundle
<1>. QED
  BY <1>2, <1>3, OnlyCopyingWrites DEF Foldering, FolderNext, FolderWork, folderVars

(* How the export's last stages are reached. *)
LEMMA ExportMoves ==
  ASSUME Prepared, Foldering
  PROVE  \/ UNCHANGED export
         \/ export'.at \notin Checking
         \/ ExportManifest /\ export.at = "manifest" /\ export'.at = "verify" /\ export'.checked = 0
         \/ ExportVerify /\ export' = [export EXCEPT !.checked = @ + 1]
         \/ ExportList /\ export' = [export EXCEPT !.at = "bind"]
         \/ ExportBind /\ export' = [export EXCEPT !.at = "returned"]
<1>0. DOMAIN export = ExportFields
  BY DEF Prepared, ExportTyped
<1>1. CASE ExportFails
  BY <1>0, <1>1 DEF ExportFails, ExportFields, Checking
<1>2. CASE ~ExportFails /\ (ExportStart \/ ExportParse \/ ExportAbsent)
  <2>1. export'.at \in {"parse", "absent", "select"}
    BY <1>0, <1>2
       DEF ExportFields, IdleExport, ExportStart, ExportParse, ExportAbsent, Provided, Goes, Becomes
  <2>. QED  BY <2>1 DEF Checking
<1>3. CASE ~ExportFails /\ (ExportSelect \/ ExportLocks \/ ExportCapture \/ ExportArchives \/ ExportClaim)
  <2>1. CASE ExportSelect \/ ExportLocks
    <3>1. export'.at \in {"select", "capture"}
      BY <1>0, <1>3, <2>1 DEF ExportFields, ExportSelect, ExportLocks, Exporting, Provided, Becomes
    <3>. QED  BY <3>1 DEF Checking
  <2>2. CASE ExportCapture \/ ExportArchives \/ ExportClaim
    <3>1. export'.at \in {"archives", "claim", "own"}
      BY <1>0, <1>3, <2>2
         DEF ExportFields, ExportCapture, ExportArchives, ExportClaim, Exporting, Provided, Goes, Becomes
    <3>. QED  BY <3>1 DEF Checking
  <2>. QED  BY <1>3, <2>1, <2>2
<1>4. CASE ~ExportFails /\ (ExportOwn \/ ExportEvidence \/ ExportRuntime \/ ExportPacked)
  <2>1. export'.at \in {"put", "npm pack"}
    BY <1>0, <1>4 DEF ExportFields, ExportOwn, ExportEvidence, ExportRuntime, ExportPacked, Writing,
                      Provided, Goes, Becomes
  <2>. QED  BY <2>1 DEF Checking
<1>5. CASE ~ExportFails /\ (ExportGuard \/ ExportWrite \/ ExportReadBack)
  <2>1. export.at = "put" /\ export.after \notin Checking
    BY <1>5 DEF ExportGuard, ExportWrite, ExportReadBack, Exporting, Prepared, Progress, Checking
  <2>2. export'.at \in {"put", export.after}
    BY <1>0, <1>5, <2>1 DEF ExportFields, ExportGuard, ExportWrite, ExportReadBack, Provided, Becomes
  <2>. QED  BY <2>1, <2>2 DEF Checking
<1>6. CASE ~ExportFails /\ (ExportTree \/ NpmPack \/ NpmLock \/ ExportLocked
                             \/ ExportRecapture \/ ExportCapturedAgain)
  <2>1. export'.at \in {"evidence", "packed", "locked", "recapture", "captured again", "manifest"}
    BY <1>0, <1>6 DEF ExportFields, ExportTree, NpmPack, NpmLock, ExportLocked, ExportRecapture,
                      ExportCapturedAgain, Provided, Goes, Becomes
  <2>. QED  BY <2>1 DEF Checking
<1>7. CASE ~ExportFails /\ ExportManifest
  <2>1. export.at = "manifest" /\ export' = [export EXCEPT !.at = "verify"] /\ export.checked = 0
    BY <1>7 DEF ExportManifest, Exporting, Provided, Prepared, Progress, Checking
  <2>. QED  BY <1>0, <1>7, <2>1 DEF ExportFields
<1>8. CASE ~ExportFails /\ (ExportVerify \/ ExportList \/ ExportBind)
  BY <1>8 DEF ExportVerify, ExportList, ExportBind, Provided, Goes, Becomes
<1>9. CASE UNCHANGED export
  BY <1>9
<1>10. ExportCaptures \/ Edit \/ Occupy \/ UNCHANGED folderVars => UNCHANGED export
  BY DEF ExportCaptures, Edit, Occupy, folderVars
<1>11. FolderTrouble => ExportFails \/ UNCHANGED export
  BY InstallLeavesExport DEF FolderTrouble, ExportTrouble
<1>12. FolderStep => ExportStart \/ ExportStep \/ UNCHANGED export
  BY InstallLeavesExport DEF FolderStep
<1>. QED
  BY <1>1, <1>2, <1>3, <1>4, <1>5, <1>6, <1>7, <1>8, <1>9, <1>10, <1>11, <1>12
     DEF Foldering, FolderNext, ExportStep


(* While the folder is verified, nobody copies into it. *)
LEMMA CheckingCalm ==
  ASSUME Prepared, Waits, Foldering, export.at \in Checking,
         install.at \notin {"npm ci", "npm ci again"}
  PROVE  ~Copying /\ ~VerificationBegins
<1>1. ~Copying
  BY DEF Copying, ExportWrite, NpmPack, NpmLock, ExportManifest, NpmCi, NpmCiEnds, Exporting,
         Installing, Checking
<1>2. ~(export.at # "verify" /\ export'.at = "verify")
  <2>. SUFFICES ASSUME export.at # "verify", export'.at = "verify" PROVE FALSE
    OBVIOUS
  <2>1. DOMAIN export = ExportFields
    BY DEF Prepared, ExportTyped
  <2>2. ~ExportManifest /\ ~ExportVerify /\ ~ExportList
    BY DEF ExportManifest, ExportVerify, ExportList, Exporting, Checking
  <2>3. export' = [export EXCEPT !.at = "returned"]
    BY <2>2, ExportMoves DEF Checking
  <2>. QED  BY <2>1, <2>3 DEF ExportFields
<1>. QED  BY <1>1, <1>2 DEF VerificationBegins

(* A record that is read is what it was when it was written. *)
LEMMA VerifyVerified ==
  ASSUME CaptureKept, since \in 0 .. edits, Prepared, Verified, Foldering,
         export.at = "verify", export'.at = "verify"
  PROVE  Verified'
<1>1. install.at = "idle" /\ ~Copying /\ ~VerificationBegins
  BY CheckingCalm DEF CaptureKept, Waits, Checking
<1>2. \A n \in Name : Untouched(n)' => Untouched(n) /\ Bundle'[n] = Bundle[n]
  BY <1>1, UntouchedStays DEF CaptureKept
<1>. DEFINE s == export.records
            k == export.checked
<1>3. k <= Len(s) /\ (\A i \in 1 .. k : Holds({s[i]})) /\ (k > 0 => Holds(Manifest))
  BY DEF Verified
<1>4. k \in Nat /\ Len(s) \in Nat /\ DOMAIN export = ExportFields
  <2>1. s \in Seq(ToSet(s)) /\ k \in Nat /\ DOMAIN export = ExportFields
    BY DEF Prepared, ExportTyped
  <2>. HIDE DEF s
  <2>. QED  BY <2>1
<1>5. CASE UNCHANGED export
  <2>1. \A i \in 1 .. k : Holds({s[i]})'
    BY <1>2, <1>3, <1>5 DEF Holds
  <2>2. k > 0 => Holds(Manifest)'
    BY <1>2, <1>3 DEF Holds, Manifest
  <2>. QED  BY <1>3, <1>5, <2>1, <2>2 DEF Verified
<1>6. CASE ExportVerify /\ export' = [export EXCEPT !.checked = @ + 1]
  <2>1. /\ export'.checked = k + 1 /\ export'.records = s /\ UNCHANGED disk
        /\ k < Len(s) /\ Bundle[s[k + 1][1]].is = s[k + 1][2]
        /\ k = 0 => Bundle["manifest"].is = 1
    BY <1>4, <1>6 DEF ExportVerify, Provided, Becomes, ExportFails, Preserved, ExportFields
  <2>. HIDE DEF s, k
  <2>2. \A i \in 1 .. k + 1 : Holds({s[i]})'
    <3>. TAKE i \in 1 .. k + 1
    <3>1. CASE i \in 1 .. k
      BY <1>2, <1>3, <2>1, <3>1 DEF Holds, s
    <3>2. CASE i = k + 1
      BY <1>2, <2>1, <3>2 DEF Holds, Bundle, s
    <3>. QED  BY <1>4, <3>1, <3>2
  <2>3. Holds(Manifest)'
    BY <1>2, <1>3, <1>4, <2>1 DEF Holds, Manifest, Bundle
  <2>4. k + 1 <= Len(s)
    BY <1>4, <2>1
  <2>5. (\A i \in 1 .. export.checked : Holds({export.records[i]}))'
    BY <2>1, <2>2 DEF s, Holds
  <2>6. (export.checked <= Len(export.records))'
    BY <2>1, <2>4 DEF s
  <2>. QED  BY <2>3, <2>5, <2>6 DEF Verified
<1>. QED
  <2>1. ~ExportManifest
    BY DEF ExportManifest, Exporting
  <2>2. export' # [export EXCEPT !.at = "bind"] /\ export' # [export EXCEPT !.at = "returned"]
    BY <1>4 DEF ExportFields
  <2>. QED  BY <1>5, <1>6, <2>1, <2>2, ExportMoves DEF Checking


(* How the installer's last stages are reached. *)
LEMMA InstallMoves ==
  ASSUME InstallHeld, Foldering
  PROVE  /\ DOMAIN install' = InstallFields
         /\ \/ UNCHANGED install
            \/ install.at = "idle" /\ install'.at \in {"clean", "failed"}
            \/ install'.at \in {"failed", "cache", "npm cache add", "npm ci", "npm ci again", "npmrc"}
            \/ install'.at = "verify" /\ install'.after \in {"cache", "npm cache add", "npm ci", "npmrc"}
            \/ InstallVerify /\ Ending /\ Ending' /\ install'.at = "verify"
            \/ /\ install.at = "verify" /\ install.after = "installed" /\ install.left = {}
               /\ install'.at = "installed" /\ install'.left = {} /\ UNCHANGED disk
            \/ InstallCapture /\ install'.at = "identity" /\ CaptureStart("bundle") /\ UNCHANGED disk
            \/ /\ install.at = "identity" /\ CaptureOver /\ AsRecorded /\ UNCHANGED disk
               /\ install'.at = "verify" /\ install'.after = "installed" /\ install'.left = Config
<1>0. DOMAIN install = InstallFields
  BY DEF InstallHeld
<1>1. CASE InstallFails
  BY <1>0, <1>1 DEF InstallFails, InstallFields
<1>2. CASE ~InstallFails /\ (InstallStart \/ InstallClean \/ InstallArchive)
  BY <1>0, <1>2
     DEF InstallStart, InstallClean, InstallArchive, InstallProvided, InstallBecomes, Installing,
         Verifying, IdleInstall, InstallFields
<1>3. CASE ~InstallFails /\ InstallVerify
  <2>1. PICK l : install' = [install EXCEPT !.left = l] /\ install.at = "verify"
    BY <1>3 DEF InstallVerify, InstallProvided, InstallBecomes, Installing
  <2>2. DOMAIN install' = InstallFields /\ UNCHANGED <<install.at, install.after>>
    BY <1>0, <2>1 DEF InstallFields
  <2>. QED  BY <1>3, <2>1, <2>2 DEF InstallHeld, Ending
<1>4. CASE ~InstallFails /\ InstallVerified
  <2>1. /\ install.at = "verify" /\ install.left = {} /\ UNCHANGED disk
        /\ install' = [install EXCEPT !.at = install.after]
    BY <1>4 DEF InstallVerified, InstallBecomes, Installing
  <2>2. DOMAIN install' = InstallFields /\ install'.at = install.after /\ install'.left = {}
    BY <1>0, <2>1 DEF InstallFields
  <2>. QED  BY <2>1, <2>2 DEF InstallHeld
<1>5. CASE ~InstallFails /\ (NpmCacheAdd \/ NpmCi \/ NpmCiEnds)
  BY <1>0, <1>5
     DEF NpmCacheAdd, NpmCi, NpmCiEnds, InstallProvided, InstallBecomes, Verifying, InstallFields
<1>6. CASE ~InstallFails /\ (InstallCapture \/ InstallCaptured)
  <2>1. CASE InstallCapture
    BY <1>0, <1>6, <2>1 DEF InstallCapture, InstallProvided, InstallFields
  <2>2. CASE InstallCaptured
    BY <1>0, <1>6, <2>2
       DEF InstallCaptured, InstallProvided, InstallBecomes, Installing, Verifying, InstallFields
  <2>. QED  BY <1>6, <2>1, <2>2
<1>7. InstallCaptures \/ Edit \/ Occupy \/ UNCHANGED folderVars => UNCHANGED install
  BY DEF InstallCaptures, Edit, Occupy, folderVars
<1>8. FolderTrouble => InstallFails \/ UNCHANGED install
  BY DEF FolderTrouble, InstallTrouble
<1>9. FolderStep => InstallStep \/ UNCHANGED install
  BY DEF FolderStep
<1>10. UNCHANGED install => DOMAIN install' = InstallFields
  BY <1>0
<1>. QED
  BY <1>1, <1>2, <1>3, <1>4, <1>5, <1>6, <1>7, <1>8, <1>9, <1>10 DEF Foldering, FolderNext, InstallStep

(* All is verified, and there is nothing else. *)
LEMMA ListVerified ==
  ASSUME CaptureKept, since \in 0 .. edits, Prepared, Verified, Foldering,
         ExportList, export' = [export EXCEPT !.at = "bind"]
  PROVE  Verified'
<1>. DEFINE s == export.records
<1>1. /\ export.at = "verify" /\ export.checked = Len(s) /\ UNCHANGED disk
      /\ Listing = {f[1] : f \in Declared} \union {"manifest"}
      /\ DOMAIN export = ExportFields
  BY DEF ExportList, Exporting, Provided, Goes, Becomes, ExportFails, Preserved, Prepared,
         ExportTyped, ExportFields
<1>2. export'.at = "bind" /\ export'.records = s /\ Declared' = Declared
  BY <1>1 DEF ExportFields, Declared
<1>3. \A n \in Name : Untouched(n)' => Untouched(n) /\ Bundle'[n] = Bundle[n]
  BY <1>1, CheckingCalm, UntouchedStays DEF CaptureKept, Waits, Checking
<1>4. \A f \in Declared : \E i \in 1 .. Len(s) : s[i] = f
  <2>1. s \in Seq(ToSet(s)) /\ Declared = ToSet(s)
    BY DEF Prepared, ExportTyped, Declared
  <2>. HIDE DEF s
  <2>2. DOMAIN s = 1 .. Len(s)
    BY <2>1
  <2>. QED  BY <2>1, <2>2 DEF ToSet
<1>5. <<"run", 1>> \in Declared
  BY <1>1, NoneIsSequence
     DEF Prepared, Progress, Toward, Planned, AllWritten, Checking, WholeExport, WithArchive,
         WithRun
<1>6. \A i \in 1 .. Len(s) : Holds({s[i]})
  BY <1>1 DEF Verified
<1>7. Len(s) \in Nat
  <2>1. s \in Seq(ToSet(s))
    BY DEF Prepared, ExportTyped
  <2>. HIDE DEF s
  <2>. QED  BY <2>1
<1>8. Holds(Manifest)
  <2>1. PICK i \in 1 .. Len(s) : s[i] = <<"run", 1>>
    BY <1>4, <1>5
  <2>2. export.checked > 0
    BY <1>1, <1>7, <2>1
  <2>. QED  BY <1>1, <2>2 DEF Verified
<1>. HIDE DEF s
<1>9. \A n \in Name : Untouched(n) => \A f \in Declared : f[1] = n => Bundle[n].is = f[2]
  <2>. SUFFICES ASSUME NEW n \in Name, Untouched(n), NEW f \in Declared, f[1] = n
                PROVE  Bundle[n].is = f[2]
    OBVIOUS
  <2>1. PICK i \in 1 .. Len(s) : s[i] = f
    BY <1>4
  <2>. QED  BY <1>6, <2>1 DEF Holds
<1>10. Holds(Declared \union Manifest)'
  BY <1>2, <1>3, <1>8, <1>9 DEF Holds, Manifest
<1>11. HoldsOnly(Declared \union Manifest)'
  <2>. SUFFICES ASSUME NEW n \in Name, Untouched(n)', Bundle'[n].is # 0
                PROVE  \E f \in Declared \union Manifest : f[1] = n
    BY <1>2 DEF HoldsOnly, Manifest
  <2>1. n \in Listing
    BY <1>3 DEF Listing
  <2>2. CASE n = "manifest"
    <3>1. <<"manifest", 1>> \in Declared \union Manifest /\ <<"manifest", 1>>[1] = n
      BY <2>2 DEF Manifest
    <3>. QED  BY <3>1
  <2>3. CASE n # "manifest"
    BY <1>1, <2>1, <2>3
  <2>. QED  BY <2>2, <2>3
<1>. QED  BY <1>2, <1>10, <1>11 DEF Verified

LEMMA BoundVerified ==
  ASSUME CaptureKept, since \in 0 .. edits, Prepared, Verified, Foldering,
         export.at \in {"bind", "returned"}, install.at \in {"idle", "clean"},
         export'.at \in {"bind", "returned"}, Declared' = Declared
  PROVE  Verified'
<1>1. \A n \in Name : Untouched(n)' => Untouched(n) /\ Bundle'[n] = Bundle[n]
  BY CheckingCalm, UntouchedStays DEF CaptureKept, Checking
<1>2. Holds(Declared \union Manifest) /\ HoldsOnly(Declared \union Manifest)
  BY DEF Verified
<1>3. Holds(Declared \union Manifest)'
  BY <1>1, <1>2 DEF Holds, Manifest
<1>4. HoldsOnly(Declared \union Manifest)'
  BY <1>1, <1>2 DEF HoldsOnly, Manifest
<1>. QED  BY <1>3, <1>4 DEF Verified

LEMMA VerifiedStep ==
  ASSUME ExportKept, Foldering
  PROVE  Verified'
<1>. USE DEF ExportKept
<1>0. DOMAIN export = ExportFields
  BY DEF Prepared, ExportTyped
<1>1. CASE export'.at \notin Checking
  BY <1>1 DEF Verified, Checking
<1>2. CASE ExportManifest /\ export'.at = "verify" /\ export'.checked = 0
  <2>1. Len(export.records) \in Nat /\ UNCHANGED export.records
    <3>1. UNCHANGED export.records
      BY <1>0, <1>2 DEF ExportManifest, Provided, ExportFails, ExportFields
    <3>. DEFINE s == export.records
    <3>2. s \in Seq(ToSet(s))
      BY DEF Prepared, ExportTyped
    <3>. HIDE DEF s
    <3>3. Len(s) \in Nat
      BY <3>2
    <3>. QED  BY <3>1, <3>3 DEF s
  <2>. QED  BY <1>2, <2>1 DEF Verified
<1>3. CASE ExportVerify /\ export' = [export EXCEPT !.checked = @ + 1]
  <2>1. export.at = "verify" /\ export'.at = "verify"
    BY <1>0, <1>3 DEF ExportVerify, Exporting, ExportFields
  <2>. QED  BY <2>1, VerifyVerified
<1>4. CASE ExportList /\ export' = [export EXCEPT !.at = "bind"]
  BY <1>4, ListVerified
<1>5. CASE /\ export.at \in {"bind", "returned"}
           /\ UNCHANGED export \/ (ExportBind /\ export' = [export EXCEPT !.at = "returned"])
  <2>1. export'.at \in {"bind", "returned"} /\ Declared' = Declared
    BY <1>0, <1>5 DEF ExportFields, Declared
  <2>2. CASE install'.at \in {"idle", "clean"}
    <3>1. install.at \in {"idle", "clean"}
      BY <2>2, InstallMoves
    <3>. QED  BY <1>5, <2>1, <3>1, BoundVerified
  <2>3. CASE install'.at \notin {"idle", "clean"}
    BY <2>1, <2>3 DEF Verified
  <2>. QED  BY <2>2, <2>3
<1>6. CASE UNCHANGED export /\ export.at \notin {"bind", "returned"}
  <2>1. CASE export.at = "verify"
    BY <1>6, <2>1, VerifyVerified
  <2>2. CASE export.at # "verify"
    BY <1>6, <2>2 DEF Verified
  <2>. QED  BY <2>1, <2>2
<1>7. ExportBind => export.at = "bind"
  BY DEF ExportBind, Exporting
<1>. QED  BY <1>1, <1>2, <1>3, <1>4, <1>5, <1>6, <1>7, ExportMoves


LEMMA ReturnedStays ==
  ASSUME Foldering, export.at = "returned"
  PROVE  UNCHANGED <<export, recorded>>
<1>1. ~ExportStart /\ ~ExportStep /\ ~ExportTrouble
  BY ExportStages DEF ExportTrouble, ExportCaptures
<1>2. Edit \/ Occupy \/ UNCHANGED folderVars => UNCHANGED <<export, recorded>>
  BY DEF Edit, Occupy, folderVars
<1>3. FolderTrouble => UNCHANGED <<export, recorded>>
  BY <1>1, InstallLeavesExport DEF FolderTrouble
<1>4. FolderStep => UNCHANGED <<export, recorded>>
  BY <1>1, InstallLeavesExport DEF FolderStep
<1>. QED  BY <1>2, <1>3, <1>4 DEF Foldering, FolderNext

(* A capture's verification begins with a look at what is there. *)
LEMMA CaptureSees ==
  ASSUME WasRead, CaptureStep \/ CaptureStop, (Verifying1 \/ Captured)'
  PROVE  \/ CaptureCount /\ capture'.seen = disk[capture.place]
         \/ Verifying1 /\ UNCHANGED capture.seen
<1>0. DOMAIN capture = CaptureFields
  BY DEF WasRead
<1>1. ~CaptureFails
  <2>. SUFFICES ASSUME CaptureFails PROVE FALSE
    OBVIOUS
  <2>1. capture'.state = "failed"
    BY <1>0 DEF CaptureFails, CaptureFields
  <2>. QED  BY <2>1 DEF Verifying1, Captured
<1>2. ~(CaptureKnown \/ CaptureLookup \/ CaptureOpen \/ CapturePart)
  <2>. SUFFICES ASSUME CaptureKnown \/ CaptureLookup \/ CaptureOpen \/ CapturePart PROVE FALSE
    OBVIOUS
  <2>1. capture'.state = "running" /\ capture'.part # "verify"
    BY <1>0, <1>1
       DEF CaptureKnown, CaptureLookup, CaptureOpen, CapturePart, Reading, CaptureFields, Parts
  <2>. QED  BY <2>1 DEF Verifying1, Captured
<1>3. ~CaptureCached
  <2>. SUFFICES ASSUME CaptureCached PROVE FALSE
    OBVIOUS
  <2>1. PICK c \in Held(Asked.name) : capture' = TakeFile(Asked.name, c, Asked.kind, capture)
    BY DEF CaptureCached
  <2>2. capture.part \in Parts /\ capture.state = "running"
    BY DEF CaptureCached, Reading
  <2>3. capture'.state = "running" /\ capture'.part \in Parts
    BY <2>1, <2>2, TakeFileTakes
  <2>. QED  BY <2>3 DEF Verifying1, Captured, Parts
<1>4. ~CaptureRead
  <2>. SUFFICES ASSUME CaptureRead PROVE FALSE
    OBVIOUS
  <2>. DEFINE cap == TakeFile(Asked.name, capture.reading.is, Asked.kind, capture)
  <2>1. /\ capture.part \in Parts /\ capture.state = "running"
        /\ capture' = [cap EXCEPT !.reading = NoFile,
                         !.read = Append(@, [name |-> Asked.name, file |-> capture.reading])]
    BY <1>1 DEF CaptureRead, Reading
  <2>2. cap.state = "running" /\ cap.part \in Parts /\ DOMAIN cap = CaptureFields
    BY <2>1, TakeFileTakes
  <2>. HIDE DEF cap
  <2>3. capture'.state = "running" /\ capture'.part \in Parts
    BY <2>1, <2>2 DEF CaptureFields
  <2>. QED  BY <2>3 DEF Verifying1, Captured, Parts
<1>5. CASE CaptureCount
  BY <1>0, <1>1, <1>5 DEF CaptureCount, CaptureFields
<1>6. CASE CaptureVerify
  BY <1>0, <1>1, <1>6 DEF CaptureVerify, CaptureFields, Verifying1
<1>. QED  BY <1>1, <1>2, <1>3, <1>4, <1>5, <1>6 DEF CaptureStep, CaptureStop

LEMMA SeenStep ==
  ASSUME ExportKept, Foldering
  PROVE  SeenInFolder'
<1>. USE DEF ExportKept
<1>0. DiskShape /\ WasRead /\ Waits
  BY DEF CaptureKept
<1>1. CASE InstallCapture /\ CaptureStart("bundle")
  <2>1. capture'.place = "bundle" /\ capture'.state = "running" /\ capture'.part = "source"
    BY <1>1 DEF CaptureStart, IdleCapture
  <2>. QED  BY <2>1 DEF SeenInFolder, Verifying1, Captured
<1>2. CASE UNCHANGED install /\ install.at = "identity"
  <2>1. export.at = "returned" /\ capture.place = "bundle"
    BY <1>0, <1>2 DEF Waits, SeenInFolder
  <2>2. \A n \in Name : Untouched(n)' => Untouched(n) /\ Bundle'[n] = Bundle[n]
    BY <1>0, <1>2, <2>1, CheckingCalm, UntouchedStays DEF Checking
  <2>3. UNCHANGED capture \/ ((CaptureStep \/ CaptureStop) /\ UNCHANGED disk)
    <3>1. ~ExportStart /\ ~ExportStep /\ ~ExportTrouble
      BY <2>1, ExportStages DEF ExportTrouble, ExportCaptures
    <3>2. Edit \/ Occupy \/ UNCHANGED folderVars => UNCHANGED capture
      BY DEF Edit, Occupy, folderVars
    <3>3. FolderTrouble => UNCHANGED capture \/ (CaptureStop /\ UNCHANGED disk)
      BY <3>1 DEF FolderTrouble, InstallTrouble, InstallFails
    <3>4. InstallStep => UNCHANGED capture \/ (CaptureStep /\ UNCHANGED disk)
      <4>1. CASE InstallCaptures
        BY <4>1 DEF InstallCaptures
      <4>2. CASE InstallCaptured
        BY <4>2 DEF InstallCaptured, InstallProvided, InstallBecomes, InstallFails
      <4>3. ~(InstallStart \/ InstallClean \/ InstallVerify \/ InstallVerified \/ InstallArchive
                \/ NpmCacheAdd \/ NpmCi \/ NpmCiEnds \/ InstallCapture)
        BY <1>2 DEF InstallStart, InstallClean, InstallVerify, InstallVerified, InstallArchive,
                    NpmCacheAdd, NpmCi, NpmCiEnds, InstallCapture, Installing
      <4>. QED  BY <4>1, <4>2, <4>3 DEF InstallStep
    <3>. QED  BY <3>1, <3>2, <3>3, <3>4 DEF Foldering, FolderNext, FolderStep
  <2>4. CASE UNCHANGED capture
    BY <1>2, <2>1, <2>2, <2>4 DEF SeenInFolder, Verifying1, Captured
  <2>5. CASE (CaptureStep \/ CaptureStop) /\ UNCHANGED disk
    <3>1. capture'.place = "bundle"
      BY <1>0, <2>1, <2>5, CaptureStays
    <3>2. ASSUME (Verifying1 \/ Captured)', NEW n \in Name, Untouched(n)'
          PROVE  capture'.seen[n] = Bundle'[n]
      BY <1>0, <1>2, <2>1, <2>2, <2>5, <3>2, CaptureSees DEF SeenInFolder, Bundle
    <3>. QED  BY <3>1, <3>2 DEF SeenInFolder
  <2>. QED  BY <2>3, <2>4, <2>5
<1>. QED  BY <1>1, <1>2, InstallMoves DEF SeenInFolder

LEMMA InstallHeldStep ==
  ASSUME ExportKept, Foldering
  PROVE  InstallHeld'
<1>. USE DEF ExportKept
<1>0. DiskShape /\ WasRead /\ Waits /\ DOMAIN install = InstallFields
  BY DEF CaptureKept, InstallHeld
<1>. DEFINE deps == recorded["dependencies"] \union recorded["runtime"]
<1>1. DOMAIN install' = InstallFields
  BY InstallMoves
<1>2. CASE ~Ending'
  BY <1>1, <1>2, InstallMoves DEF InstallHeld, Ending
<1>3. ASSUME Ending \/ install.at = "identity"
      PROVE  /\ \A n \in Name : Untouched(n)' => Untouched(n) /\ Bundle'[n] = Bundle[n]
             /\ Config' = Config /\ UNCHANGED recorded
  <2>1. export.at = "returned" /\ install.at \notin {"npm ci", "npm ci again"}
    BY <1>0, <1>3 DEF Waits, Ending
  <2>2. UNCHANGED <<export, recorded>>
    BY <2>1, ReturnedStays
  <2>3. Config' = Config
    BY <2>2 DEF Config, Declared
  <2>. QED  BY <1>0, <2>1, <2>2, <2>3, CheckingCalm, UntouchedStays DEF Checking
<1>4. CASE /\ install.at = "identity" /\ CaptureOver /\ AsRecorded /\ UNCHANGED disk
           /\ install'.at = "verify" /\ install'.after = "installed" /\ install'.left = Config
  <2>1. OnDiskTogether
    BY KeptTogether
  <2>2. ASSUME NEW p \in Parts, NEW n \in Name, Untouched(n)', NEW f \in recorded[p], f[1] = n
        PROVE  Bundle'[n].is = f[2]
    <3>1. Captured /\ f \in Identity[p]
      BY <1>4, <2>2 DEF AsRecorded, SameIdentity, SameFiles
    <3>2. capture.seen[n].is = f[2]
      BY <2>1, <2>2, <3>1 DEF OnDiskTogether
    <3>3. Untouched(n) /\ Bundle'[n] = Bundle[n]
      BY <1>3, <1>4, <2>2
    <3>4. capture.seen[n] = Bundle[n]
      BY <1>4, <2>2, <3>1, <3>3 DEF SeenInFolder
    <3>. QED  BY <3>2, <3>3, <3>4
  <2>3. Holds(deps)'
    <3>1. "dependencies" \in Parts /\ "runtime" \in Parts
      BY DEF Parts
    <3>2. UNCHANGED recorded
      BY <1>3, <1>4
    <3>. QED  BY <2>2, <3>1, <3>2 DEF Holds
  <2>4. Holds(Config \ install.left)'
    BY <1>3, <1>4 DEF Holds
  <2>. QED  BY <1>1, <1>4, <2>3, <2>4 DEF InstallHeld
<1>5. ASSUME Ending, Ending', NEW l, install'.left = l, UNCHANGED disk \/ l = install.left,
             \A f \in install.left \ l : Bundle[f[1]].is = f[2],
             install'.at = "verify" => install'.after = "installed",
             install'.at = "installed" => l = {}
      PROVE  InstallHeld'
  <2>1. Holds(Config \ install.left) /\ Holds(deps)
    BY <1>5 DEF InstallHeld
  <2>2. Holds(deps)'
    BY <1>3, <1>5, <2>1 DEF Holds
  <2>3. Holds(Config \ install.left)'
    BY <1>3, <1>5, <2>1 DEF Holds
  <2>. QED  BY <1>1, <1>5, <2>2, <2>3 DEF InstallHeld
<1>6. CASE UNCHANGED install /\ Ending'
  <2>1. Ending
    BY <1>6 DEF Ending
  <2>. QED  BY <1>5, <1>6, <2>1 DEF InstallHeld, Ending
<1>7. CASE InstallVerify /\ Ending /\ Ending' /\ install'.at = "verify"
  <2>1. CASE InstallFails
    <3>1. install'.at = "failed"
      BY <1>0, <2>1 DEF InstallFails, InstallFields
    <3>. QED  BY <1>7, <3>1
  <2>2. CASE ~InstallFails
    <3>. DEFINE f == CHOOSE g \in install.left : TRUE
    <3>0. InstallProvided(Bundle[f[1]].is = f[2], InstallBecomes([install EXCEPT !.left = @ \ {f}]))
      BY <1>7 DEF InstallVerify
    <3>. HIDE DEF f
    <3>1. /\ install' = [install EXCEPT !.left = @ \ {f}] /\ UNCHANGED disk /\ Bundle[f[1]].is = f[2]
      BY <2>2, <3>0 DEF InstallProvided, InstallBecomes
    <3>2. install'.left = install.left \ {f} /\ UNCHANGED <<install.at, install.after>>
      BY <1>0, <3>1 DEF InstallFields
    <3>. QED  BY <1>5, <1>7, <3>1, <3>2 DEF Ending
  <2>. QED  BY <2>1, <2>2
<1>8. CASE /\ install.at = "verify" /\ install.after = "installed" /\ install.left = {}
           /\ install'.at = "installed" /\ install'.left = {} /\ UNCHANGED disk
  BY <1>5, <1>8 DEF Ending
<1>. QED
  BY <1>2, <1>4, <1>6, <1>7, <1>8, InstallMoves DEF Ending


LEMMA ExportedInit == FolderInit => ExportKept
<1>. SUFFICES ASSUME FolderInit PROVE ExportKept
  OBVIOUS
<1>1. CaptureKept /\ since \in 0 .. edits
  <2>1. since = 0 /\ edits = 0
    BY DEF FolderInit
  <2>. QED  BY <2>1, DiskInit, WasReadInit DEF CaptureKept
<1>2. export.at = "idle" /\ install.at = "idle" /\ DOMAIN install = InstallFields
  BY DEF FolderInit, IdleExport, IdleInstall, InstallFields
<1>3. Verified /\ SeenInFolder /\ InstallHeld
  BY <1>2 DEF Verified, SeenInFolder, InstallHeld, Ending
<1>. QED  BY <1>1, <1>3, PreparedInit DEF ExportKept

LEMMA ExportedStep ==
  ASSUME ExportKept, Foldering
  PROVE  ExportKept'
<1>1. CaptureKept' /\ Prepared' /\ (since \in 0 .. edits)'
  BY CaptureKeeps, PreparedStep, SinceStep DEF ExportKept, CaptureKept
<1>. QED  BY <1>1, VerifiedStep, SeenStep, InstallHeldStep DEF ExportKept

LEMMA ExportedRecorded == ExportKept => ExportedIsRecorded
<1>. SUFFICES ASSUME ExportKept PROVE ExportedIsRecorded
  OBVIOUS
<1>1. ASSUME export.at = "returned"
      PROVE  Declared = WholeExport
  BY <1>1, NoneIsSequence DEF ExportKept, Prepared, Progress, Toward, Planned, AllWritten, Checking
<1>2. Bundled = WholeExport \union Manifest
  BY DEF Bundled, WholeExport, WithArchive, WithRun, Manifest
<1>3. ASSUME export.at = "returned", install.at \in {"idle", "clean"}
      PROVE  Holds(Bundled) /\ HoldsOnly(Bundled)
  <2>1. Holds(Declared \union Manifest) /\ HoldsOnly(Declared \union Manifest)
    BY <1>3 DEF ExportKept, Verified
  <2>. QED  BY <1>1, <1>2, <1>3, <2>1
<1>4. ASSUME install.at = "installed"
      PROVE  Holds({f \in Bundled \union Installed : f[1] \notin {"manifest", "installer"}})
  <2>. DEFINE deps == recorded["dependencies"] \union recorded["runtime"]
  <2>1. Declared = WholeExport
    BY <1>1, <1>4 DEF ExportKept, CaptureKept, Waits
  <2>2. Holds(Config) /\ Holds(deps)
    <3>1. install.left = {} /\ Ending
      BY <1>4 DEF ExportKept, InstallHeld, Ending
    <3>2. Holds(Config \ install.left) /\ Holds(deps)
      BY <3>1 DEF ExportKept, InstallHeld
    <3>3. Config \ install.left = Config
      BY <3>1
    <3>. QED  BY <3>2, <3>3
  <2>3. ASSUME NEW f \in Bundled \union Installed, f[1] \notin {"manifest", "installer"}
        PROVE  f \in Config \union deps
    <3>1. f \notin Manifest
      BY <2>3 DEF Manifest
    <3>. QED  BY <1>2, <2>1, <2>3, <3>1 DEF Config, Installed
  <2>. QED  BY <2>2, <2>3 DEF Holds
<1>. QED  BY <1>3, <1>4 DEF ExportedIsRecorded

(* A folder that an export returns is the recorded regression, and nothing *)
(* else, and so is what its installer then leaves, except for what others  *)
(* have edited since the last verification began: an edit of the project   *)
(* or of the folder before that, or between any two steps, makes the       *)
(* export or the installer fail (exportRegression and                      *)
(* verifyRegressionExport of export.ts, main of export-install.ts).        *)
THEOREM ExportsAreRecorded == Spec => []ExportedIsRecorded
<1>1. Init => ExportKept
  BY ExportedInit DEF Init
<1>2. ExportKept /\ [Next]_vars => ExportKept'
  BY FolderSteps, ExportedStep
<1>. QED  BY <1>1, <1>2, ExportedRecorded, PTL DEF Spec

=============================================================================
