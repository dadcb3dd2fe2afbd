-------------------------------- MODULE Export --------------------------------
(***************************************************************************)
(* exportRegression() of src/export.ts: the sources, the lock, the record  *)
(* and the runtime of a recorded violation are copied into a new folder    *)
(* that is verified before it is returned, while others may edit the       *)
(* project and the folder.  npm is external: `npm pack` and `npm install`  *)
(* write where they are told to, whatever is there.                        *)
(***************************************************************************)
EXTENDS SourceIdentity

CONSTANTS Supplied    \* SUBSET BOOLEAN: may archives be supplied by hand?

ASSUME ExportAssumption ==
  /\ {"project", "bundle"} \subseteq Place /\ Supplied \subseteq BOOLEAN
  /\ Metadata \in Name \X Name  \* the manifest and the lock

VARIABLES
  recorded,   \* the run's source identity
  dest,       \* the directory at the destination's path: none, ours, remade, theirs
  export      \* the export that is running, or the last one

(* The folder's files besides the application's. *)
Archives == <<"archive", "depArchive">>   \* of the runtime and of the dependency

Project == disk["project"]
Bundle == disk["bundle"]

Ours(c) == [is |-> c, at |-> 0]

InBundle(n, c) == disk' = [disk EXCEPT !["bundle"][n] = Ours(c)]

IdleExport ==
  [at |-> "idle", supplied |-> FALSE, shared |-> FALSE, todo |-> <<>>, selected |-> <<>>,
   held |-> <<>>, node |-> "none", queue |-> <<>>, put |-> "guard", after |-> "idle",
   packed |-> 0, records |-> <<>>, checked |-> 0]

Exporting(stage) == export.at = stage

(* Mutation: a failing export removes what it believes to have written. *)
PreservedNothing ==
  /\ disk' = [disk EXCEPT !["bundle"] = [n \in Name |-> Ours(0)]]
  /\ dest' = "none"

(* An error ends the export.  Whatever was written stays where it is: the  *)
(* path may have changed hands since, so nothing is ever removed.          *)
Preserved == UNCHANGED <<disk, dest>>

ExportFails ==
  /\ export' = [export EXCEPT !.at = "failed"]
  /\ Preserved
  /\ UNCHANGED <<capture, recorded>>

(* Only the export's own state changes. *)
Becomes(e) == export' = e /\ UNCHANGED <<disk, dest, capture, recorded>>

Goes(stage) == Becomes([export EXCEPT !.at = stage])

(* Do `step` if `fit`, else fail. *)
Provided(fit, step) ==
  \/ fit /\ step
  \/ ~fit /\ ExportFails

(* Mutation: the same paths are taken for the same files. *)
SameFilesByPath(a, b) == {f[1] : f \in a} = {f[1] : f \in b}

(* stableJson(a) = stableJson(b), for sets of <<file, digest>> *)
SameFiles(a, b) == a = b

SameIdentity(a, b) == \A p \in Parts : SameFiles(a[p], b[p])

-----------------------------------------------------------------------------
(* The record and the destination are looked at first. *)
ExportStart ==
  /\ Exporting("idle")
  /\ \E s \in Supplied :
       Becomes([IdleExport EXCEPT
                  !.at = "parse", !.supplied = s,
                  !.todo = <<[name |-> Entry, kind |-> "local"]>>
                             \o Wanted(Metadata, "include") \o Wanted(SetToSeq(Includes), "include")])

(* The original artifact must hold the run that is exported. *)
ArtifactUnchanged == Project["run"].is = 1

ExportParse == Exporting("parse") /\ Provided(ArtifactUnchanged, Goes("absent"))

ExportAbsent == Exporting("absent") /\ Provided(dest = "none", Goes("select"))

Selected(n) == {f[2] : f \in {g \in ToSet(export.selected) : g[1] = n}}

(* addScenarioGraph(), addSelectedFile(), addInclude(): a walk of its own  *)
(* over the sources.  Each must exist, but for the package.json of a       *)
(* module's directory.                                                     *)
ExportSelect ==
  /\ Exporting("select")
  /\ export.todo # <<>>
  /\ LET r == Head(export.todo)
         c == Project[r.name].is
         module == r.kind = "local"
         scopes == IF module THEN Wanted(<<Metadata[1]>>, "scope") ELSE <<>>
         locals == IF module THEN SelectSeq(Asks(r.name, c), LAMBDA q : q.kind = "local") ELSE <<>>
         passed == Selected(r.name) # {} \/ (c = 0 /\ r.kind = "scope")
     IN  IF passed
         THEN Becomes([export EXCEPT !.todo = Tail(@)])
         ELSE Provided(c # 0, Becomes([export EXCEPT !.selected = Append(@, <<r.name, c>>),
                                                     !.todo = scopes \o locals \o Tail(@)]))

(* validatePackageLock(): the lock fits the manifest it was made for. *)
LockFits(manifest, lock) == manifest = lock

(* The recorded run decides how the folder will be installed. *)
ExportLocks ==
  /\ Exporting("select")
  /\ export.todo = <<>>
  /\ Provided(\E c \in Selected(Metadata[1]), l \in Selected(Metadata[2]) : LockFits(c, l),
              /\ export' = [export EXCEPT !.at = "capture",
                                          !.shared = SharedPackages(recorded) # {} \/ export.supplied]
              /\ CaptureStart("project")
              /\ UNCHANGED <<disk, dest, recorded>>)

CaptureOver == capture.state \in {"captured", "failed"}

AsRecorded == Captured /\ SameIdentity(Identity, recorded)

ExportCapture ==
  /\ Exporting("capture")
  /\ CaptureOver
  /\ Provided(AsRecorded /\ SameFiles(ToSet(export.selected), recorded["source"]),
              Goes(IF export.shared THEN "archives" ELSE "claim"))

(* verifySharedArchives(): what the lock pins, and what was recorded *)
ArchivesFit(held, lock) ==
  /\ \A i \in DOMAIN held : held[i] = lock
  /\ \A f \in SharedPackages(recorded) : f[2] = held[2]

(* prepareSharedArchives(): each locked archive is read into memory. *)
ExportArchives ==
  /\ Exporting("archives")
  /\ LET held == Append(export.held, Project[Archives[Len(export.held) + 1]].is)
         all  == Len(held) = Len(Archives)
     IN  Provided(all => \E l \in Selected(Metadata[2]) : ArchivesFit(held, l),
                  Becomes([export EXCEPT !.held = held, !.at = IF all THEN "claim" ELSE @]))

-----------------------------------------------------------------------------
(* mkdir() claims the destination; lstat() then remembers which directory  *)
(* stands at its path.                                                     *)
ExportClaim ==
  /\ Exporting("claim")
  /\ Provided(dest = "none",
              /\ dest' = "ours"
              /\ export' = [export EXCEPT !.at = "own"]
              /\ UNCHANGED <<disk, capture, recorded>>)

(* A file to write: is the folder's owner looked at before, and is it a    *)
(* copy whose source must still read as it was selected?                   *)
Copies ==
  [i \in DOMAIN export.selected |->
     [name |-> export.selected[i][1], bytes |-> export.selected[i][2],
      guarded |-> TRUE, copied |-> TRUE]]

Generated(n, c, guarded) == [name |-> n, bytes |-> c, guarded |-> guarded, copied |-> FALSE]

Writing(e, queue, after) ==
  [e EXCEPT !.at = "put", !.put = "guard", !.queue = queue, !.after = after]

ExportOwn ==
  /\ Exporting("own")
  /\ Provided(dest # "none", Becomes(Writing([export EXCEPT !.node = dest], Copies, "tree")))

(* assertOwnership() *)
Owned == dest = export.node

File1 == Head(export.queue)

ExportGuard ==
  /\ Exporting("put")
  /\ export.put = "guard"
  /\ Provided(/\ File1.guarded => Owned
              /\ File1.copied => Project[File1.name].is = File1.bytes,
              Becomes([export EXCEPT !.put = "write"]))

(* Mutation: flag 'w' *)
MayCreateOver(n) == TRUE

(* Flag 'wx': the file is created, or the write fails. *)
MayCreate(n) == Bundle[n].is = 0

(* mkdir() with `recursive` makes the folder again where it is gone. *)
ExportWrite ==
  /\ Exporting("put")
  /\ export.put = "write"
  /\ Provided(MayCreate(File1.name),
              /\ InBundle(File1.name, File1.bytes)
              /\ dest' = IF dest = "none" THEN "remade" ELSE dest
              /\ export' = [export EXCEPT !.put = "check"]
              /\ UNCHANGED <<capture, recorded>>)

ExportReadBack ==
  /\ Exporting("put")
  /\ export.put = "check"
  /\ Provided(Bundle[File1.name].is = File1.bytes,
              Becomes([export EXCEPT !.records = Append(@, <<File1.name, File1.bytes>>),
                                     !.put = "guard", !.queue = Tail(@),
                                     !.at = IF Len(export.queue) = 1 THEN export.after ELSE @]))

-----------------------------------------------------------------------------
(* validateLockedTree(): `npm ls` reads the copied manifest and lock. *)
TreeFits == LockFits(Bundle[Metadata[1]].is, Bundle[Metadata[2]].is)

ExportTree == Exporting("tree") /\ Provided(TreeFits, Goes("evidence"))

ExportEvidence ==
  /\ Exporting("evidence")
  /\ Provided(ArtifactUnchanged, Becomes(Writing(export, <<Generated("run", 1, FALSE)>>, "runtime")))

(* verifyPackedRuntime() *)
RuntimeFits(packed) == <<Runtime, packed>> \in recorded["runtime"]

(* The shared layout writes the archives that it holds; the separate one   *)
(* makes a directory for npm to pack the runtime into.                     *)
ExportRuntime ==
  /\ Exporting("runtime")
  /\ IF export.shared
     THEN Provided(RuntimeFits(export.held[1]),
                   Becomes(Writing(export,
                     [i \in DOMAIN Archives |-> Generated(Archives[i], export.held[i], TRUE)]
                       \o <<Generated("installer", 1, FALSE)>>, "recapture")))
     ELSE Provided(Bundle["archive"].is = 0 /\ dest # "none", Goes("npm pack"))

NpmPack ==
  /\ Exporting("npm pack")
  /\ Provided(dest # "none",
              /\ InBundle("archive", Project[Runtime].is)
              /\ export' = [export EXCEPT !.at = "packed"]
              /\ UNCHANGED <<dest, capture, recorded>>)

ExportPacked ==
  /\ Exporting("packed")
  /\ LET packed == Bundle["archive"].is
     IN  Provided(RuntimeFits(packed),
                  Becomes(Writing([export EXCEPT !.packed = packed,
                                                 !.records = Append(@, <<"archive", packed>>)],
                                  <<Generated("wrapper", 1, TRUE)>>, "npm install")))

(* `npm install --package-lock-only` pins the archive that it finds. *)
NpmLock ==
  /\ Exporting("npm install")
  /\ Provided(Bundle["archive"].is # 0,
              /\ InBundle("wrapperLock", Bundle["archive"].is)
              /\ export' = [export EXCEPT !.at = "locked"]
              /\ UNCHANGED <<dest, capture, recorded>>)

(* createRuntimeLock(), validateRuntimeBinding() *)
ExportLocked ==
  /\ Exporting("locked")
  /\ Provided(Bundle["wrapperLock"].is = export.packed,
              Becomes([export EXCEPT !.at = "recapture",
                                     !.records = Append(@, <<"wrapperLock", export.packed>>)]))

(* The sources are captured once more after everything has been copied. *)
ExportRecapture ==
  /\ Exporting("recapture")
  /\ export' = [export EXCEPT !.at = "captured again"]
  /\ CaptureStart("project")
  /\ UNCHANGED <<disk, dest, recorded>>

ExportCapturedAgain ==
  /\ Exporting("captured again")
  /\ CaptureOver
  /\ Provided(AsRecorded /\ ArtifactUnchanged /\ Owned, Goes("manifest"))

ExportManifest ==
  /\ Exporting("manifest")
  /\ Provided(MayCreate("manifest") /\ dest # "none",
              /\ InBundle("manifest", 1)
              /\ export' = [export EXCEPT !.at = "verify"]
              /\ UNCHANGED <<dest, capture, recorded>>)

-----------------------------------------------------------------------------
(* verifyRegressionExport(): the manifest and every byte that it declares, *)
(* then the list of files, then what the files, read again, say of each    *)
(* other.                                                                  *)
Declared == ToSet(export.records)

ExportVerify ==
  /\ Exporting("verify")
  /\ export.checked < Len(export.records)
  /\ LET f == export.records[export.checked + 1]
     IN  Provided(Bundle[f[1]].is = f[2] /\ (export.checked = 0 => Bundle["manifest"].is = 1),
                  Becomes([export EXCEPT !.checked = @ + 1]))

Listing == {n \in Name : Bundle[n].is # 0}

ExportList ==
  /\ Exporting("verify")
  /\ export.checked = Len(export.records)
  /\ Provided(Listing = {f[1] : f \in Declared} \union {"manifest"}, Goes("bind"))

AppFiles == {f \in Declared : \E g \in recorded["source"] : g[1] = f[1]}

Bound ==
  /\ Bundle["run"].is = 1
  /\ SameFiles(AppFiles, recorded["source"])
  /\ RuntimeFits(Bundle["archive"].is)
  /\ TreeFits
  /\ export.shared => /\ ArchivesFit([i \in DOMAIN Archives |-> Bundle[Archives[i]].is],
                                     Bundle[Metadata[2]].is)
                      /\ Bundle["installer"].is = 1
  /\ ~export.shared => /\ SharedPackages(recorded) = {}
                       /\ Bundle["wrapperLock"].is = Bundle["archive"].is
                       /\ Bundle["wrapper"].is = 1

ExportBind == Exporting("bind") /\ Provided(Bound /\ Owned, Goes("returned"))

(* A read, a write or npm fails, or npm exceeds its minute. *)
ExportTrouble ==
  /\ export.at \notin {"idle", "failed", "returned", "capture", "captured again"}
  /\ ExportFails

ExportCaptures ==
  /\ export.at \in {"capture", "captured again"}
  /\ CaptureStep
  /\ UNCHANGED <<disk, dest, recorded, export>>

ExportStep ==
  \/ ExportParse
  \/ ExportAbsent
  \/ ExportSelect
  \/ ExportLocks
  \/ ExportCapture
  \/ ExportArchives
  \/ ExportClaim
  \/ ExportOwn
  \/ ExportGuard
  \/ ExportWrite
  \/ ExportReadBack
  \/ ExportTree
  \/ ExportEvidence
  \/ ExportRuntime
  \/ NpmPack
  \/ ExportPacked
  \/ NpmLock
  \/ ExportLocked
  \/ ExportRecapture
  \/ ExportCapturedAgain
  \/ ExportManifest
  \/ ExportVerify
  \/ ExportList
  \/ ExportBind
  \/ ExportCaptures
=============================================================================
