------------------------------- MODULE Install -------------------------------
(***************************************************************************)
(* The installer of a shared export, src/export-install.ts: it installs    *)
(* the recorded packages from the folder's archives, offline, and ends     *)
(* well only if what was installed is identified as what was recorded.     *)
(* npm is external: `npm cache add` and `npm ci` read what is there when   *)
(* they run.                                                               *)
(***************************************************************************)
EXTENDS Export

CONSTANTS Modules    \* names under app/node_modules

VARIABLES install

IdleInstall == [at |-> "idle", node |-> "none", after |-> "idle", left |-> {}, cached |-> <<>>]

Installing(stage) == install.at = stage

Config == {f \in Declared : f[1] # "installer"}

AppRecords == {f \in Config : f[1] \in {g[1] : g \in recorded["source"]}}

InstallFails ==
  /\ install' = [install EXCEPT !.at = "failed"]
  /\ UNCHANGED <<disk, dest, capture, recorded, export>>

InstallBecomes(i) == install' = i /\ UNCHANGED <<disk, dest, capture, recorded, export>>

(* directory(): every step first looks whether the folder is still the     *)
(* one that the installer started in.                                      *)
InstallProvided(fit, step) ==
  \/ fit /\ dest = install.node /\ step
  \/ ~(fit /\ dest = install.node) /\ InstallFails

Absent(names) == \A n \in names : Bundle[n].is = 0

Verifying(i, files, after) == [i EXCEPT !.at = "verify", !.left = files, !.after = after]

(* `node install.mjs`, once the folder has been exported *)
InstallStart ==
  /\ Installing("idle")
  /\ Exporting("returned")
  /\ export.shared
  /\ IF Bundle["installer"].is = 1
     THEN InstallBecomes([IdleInstall EXCEPT !.at = "clean", !.node = dest])
     ELSE InstallFails

InstallClean ==
  /\ Installing("clean")
  /\ InstallProvided(Absent(Modules \union {"npmrc"}),
                     InstallBecomes(Verifying(install, Config, "cache")))

(* verifyFile(), of the next file that is left to verify *)
InstallVerify ==
  /\ Installing("verify")
  /\ install.left # {}
  /\ LET f == CHOOSE g \in install.left : TRUE
     IN  InstallProvided(Bundle[f[1]].is = f[2],
                         InstallBecomes([install EXCEPT !.left = @ \ {f}]))

InstallVerified ==
  /\ Installing("verify")
  /\ install.left = {}
  /\ InstallBecomes([install EXCEPT !.at = install.after])

(* Each archive is verified and then added to a cache made for this run. *)
NextArchive == Archives[Len(install.cached) + 1]

InstallArchive ==
  /\ Installing("cache")
  /\ IF Len(install.cached) < Len(Archives)
     THEN InstallBecomes(Verifying(install, {f \in Config : f[1] = NextArchive}, "npm cache add"))
     ELSE InstallProvided(Absent(Modules \union {"npmrc"}),
                          InstallBecomes(Verifying(install, AppRecords, "npm ci")))

NpmCacheAdd ==
  /\ Installing("npm cache add")
  /\ InstallProvided(Bundle[NextArchive].is # 0,
       InstallBecomes([install EXCEPT !.cached = Append(@, Bundle[NextArchive].is), !.at = "cache"]))

(* `npm ci` removes node_modules and installs what the lock pins, which    *)
(* must be in the cache, package by package.                               *)
NpmCi ==
  /\ Installing("npm ci")
  /\ InstallProvided(TreeFits /\ \A i \in DOMAIN install.cached : install.cached[i] = Bundle[Metadata[2]].is,
       /\ disk' = [disk EXCEPT !["bundle"] = [n \in Name |-> IF n = Runtime THEN Ours(install.cached[1])
                                                             ELSE IF n \in Modules THEN NoFile ELSE @[n]]]
       /\ install' = [install EXCEPT !.at = "npm ci again"]
       /\ UNCHANGED <<dest, capture, recorded, export>>)

NpmCiEnds ==
  /\ Installing("npm ci again")
  /\ IF dest = "none"
     THEN InstallFails
     ELSE /\ disk' = [disk EXCEPT !["bundle"] = [n \in Name |-> IF n \in Modules \ {Runtime}
                                                                THEN Ours(install.cached[2]) ELSE @[n]]]
          /\ install' = Verifying(install, Config, "npmrc")
          /\ UNCHANGED <<dest, capture, recorded, export>>

(* The installed runtime captures the installed application. *)
InstallCapture ==
  /\ Installing("npmrc")
  /\ InstallProvided(Absent({"npmrc"}),
       /\ install' = [install EXCEPT !.at = "identity"]
       /\ CaptureStart("bundle")
       /\ UNCHANGED <<disk, dest, recorded, export>>)

InstallCaptured ==
  /\ Installing("identity")
  /\ CaptureOver
  /\ InstallProvided(AsRecorded, InstallBecomes(Verifying(install, Config, "installed")))

InstallCaptures ==
  /\ Installing("identity")
  /\ CaptureStep
  /\ UNCHANGED <<disk, dest, recorded, export, install>>

(* A signal, the deadline, or npm: its process group is killed, what it    *)
(* had written stays, and so does the cache.                               *)
InstallTrouble == install.at \notin {"idle", "failed", "installed"} /\ InstallFails

InstallStep ==
  \/ InstallStart
  \/ InstallClean
  \/ InstallVerify
  \/ InstallVerified
  \/ InstallArchive
  \/ NpmCacheAdd
  \/ NpmCi
  \/ NpmCiEnds
  \/ InstallCapture
  \/ InstallCaptured
  \/ InstallCaptures
=============================================================================
