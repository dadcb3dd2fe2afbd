--------------------------- MODULE RegressionFolder ---------------------------
(***************************************************************************)
(* An exported regression from the recorded run to its installed folder,   *)
(* while other programs edit the project and the folder.  Whatever they do *)
(* the export may refuse, but what it returns is what was recorded, and    *)
(* nothing of theirs is overwritten or removed.                            *)
(***************************************************************************)
EXTENDS Install

CONSTANTS
  Starts,       \* the projects a run may have been recorded in
  Edits,        \* what others may do: <<place, name, content>>, 0 removes
  MaxEdits      \* bound on them

VARIABLES
  edits,        \* how many there have been: the stamp of the latest
  since         \* edits when the last verification of the folder began

folderVars == <<disk, capture, recorded, dest, export, install, edits, since>>

Files(holds) == [n \in Name |-> Ours(holds[n])]

FolderInit ==
  /\ \E project \in Starts :
       /\ disk = [p \in Place |-> IF p = "project" THEN Files(project) ELSE [n \in Name |-> NoFile]]
       /\ recorded = IdentityOf([p \in Parts |-> project])
  /\ capture = IdleCapture
  /\ dest = "none"
  /\ export = IdleExport
  /\ install = IdleInstall
  /\ edits = 0
  /\ since = 0

VerificationBegins ==
  \/ export.at # "verify" /\ export'.at = "verify"
  \/ install.at = "npm ci again" /\ install'.at = "verify"

FolderStep ==
  /\ \/ ExportStart /\ UNCHANGED install
     \/ ExportStep /\ UNCHANGED install
     \/ InstallStep
  /\ UNCHANGED edits
  /\ since' = IF VerificationBegins THEN edits ELSE since

FolderTrouble ==
  /\ \/ ExportTrouble /\ UNCHANGED install
     \/ InstallTrouble
     \/ /\ export.at \in {"capture", "captured again"} \/ install.at = "identity"
        /\ CaptureStop
        /\ UNCHANGED <<disk, dest, recorded, export, install>>
  /\ UNCHANGED <<edits, since>>

(* Another program edits, creates or removes a file. *)
Edit ==
  /\ edits < MaxEdits
  /\ edits' = edits + 1
  /\ \E e \in Edits :
       /\ e[1] = "bundle" => dest # "none"
       /\ edits > 0 => disk[e[1]][e[2]].at = edits
       /\ disk[e[1]][e[2]].is # e[3]
       /\ disk' = [disk EXCEPT ![e[1]][e[2]] = [is |-> e[3], at |-> edits']]
  /\ UNCHANGED <<capture, recorded, dest, export, install, since>>

(* Another program moves the folder away, or puts one of its own there. *)
Occupy ==
  /\ edits < MaxEdits
  /\ edits' = edits + 1
  /\ \E d \in {"none", "theirs"} :
       /\ d # dest
       /\ dest' = d
       /\ disk' = [disk EXCEPT !["bundle"] =
            [n \in Name |-> [is |-> IF d = "theirs" /\ n = Entry THEN 1 ELSE 0, at |-> edits']]]
  /\ UNCHANGED <<capture, recorded, export, install, since>>

FolderNext ==
  \/ FolderStep
  \/ FolderTrouble
  \/ Edit
  \/ Occupy

FolderOver ==
  \/ export.at = "failed"
  \/ export.at = "returned" /\ ~export.shared
  \/ install.at \in {"failed", "installed"}

-----------------------------------------------------------------------------
(* The recorded runtime, as an archive of it holds it. *)
Packed == (CHOOSE f \in recorded["runtime"] : f[1] = Runtime)[2]

(* The recorded lock, by what it pins. *)
Pinned == (CHOOSE f \in recorded["source"] : f[1] = Metadata[2])[2]

Bundled ==
  recorded["source"] \union {<<"run", 1>>, <<"manifest", 1>>, <<"archive", Packed>>}
    \union (IF export.shared
            THEN {<<"installer", 1>>, <<"depArchive", Pinned>>}
            ELSE {<<"wrapper", 1>>, <<"wrapperLock", Packed>>})

Installed == {f \in recorded["dependencies"] \union recorded["runtime"] : f[1] \in Modules}

Untouched(n) == Bundle[n].at <= since

Holds(files) ==
  \A n \in Name : Untouched(n) => \A f \in files : f[1] = n => Bundle[n].is = f[2]

HoldsOnly(files) ==
  \A n \in Name : Untouched(n) /\ Bundle[n].is # 0 => \E f \in files : f[1] = n

(* A folder that the export returns holds the recorded sources, the        *)
(* recorded run, the packages of the recorded runtime and nothing else.    *)
(* After its installer has ended well, all but the manifest and the        *)
(* installer still are what they were, and the recorded packages are       *)
(* installed.  Only what others change after the last verification has     *)
(* begun may differ; what they did before, in the project or in the        *)
(* folder, never shows (code: exportRegression, verifyRegressionExport,    *)
(* export-install's main).                                                 *)
ExportedIsRecorded ==
  /\ (export.at = "returned" /\ install.at \in {"idle", "clean"}) =>
       Holds(Bundled) /\ HoldsOnly(Bundled)
  /\ (install.at = "installed") =>
       Holds({f \in Bundled \union Installed : f[1] \notin {"manifest", "installer"}})

NpmWrites == export.at \in {"npm pack", "npm install"} \/ install.at \in {"npm ci", "npm ci again"}

(* What another program left in the folder's place stays: every file that  *)
(* it wrote and its directory, even when the export fails half-way; only   *)
(* npm, external, writes over what it finds.  And the project is only read *)
(* (code: the 'wx' flags, assertOwnership and the cleanup that is not      *)
(* there, src/export.ts).                                                  *)
NothingForeignLost ==
  [][ (edits' = edits) =>
        /\ disk'["project"] = Project
        /\ (dest = "theirs" => dest' = dest)
        /\ \A n \in Name :
             (Bundle[n].at > 0 /\ Bundle[n].is # 0 /\ ~NpmWrites) => disk'["bundle"][n] = Bundle[n]
    ]_folderVars
=============================================================================
