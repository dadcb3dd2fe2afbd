---------------------------- MODULE SourceIdentity ----------------------------
(***************************************************************************)
(* src/source-identity.ts: the identity of a scenario's sources, installed *)
(* packages and runtime, read from a disk that others may be editing.      *)
(*                                                                         *)
(* A name stands for one file, or for an installed package, whose files    *)
(* are read alike.  A file is what it holds (0 if absent) and a stamp that *)
(* every edit renews: device, inode, size, mtime and ctime, as sameFile()  *)
(* compares them.                                                          *)
(***************************************************************************)
EXTENDS Naturals, FiniteSets, SequencesExt

CONSTANTS
  Place,        \* directories: the project, the exported regression
  Name,         \* paths relative to such a directory
  Content,      \* what a file may hold, without 0
  Entry,        \* the scenario's file
  Metadata,     \* read where they exist: package.json, package-lock.json
  Includes,     \* selected with --include; must exist
  Runtime,      \* the Interleave package that is bound as the runtime
  Asks(_, _),   \* Asks(n, c): the requests of file n when it holds c, in order
  MaxFiles      \* of files, and of entries in the finished manifest

ASSUME SourceIdentityAssumption ==
  /\ {Entry, Runtime} \union Includes \union ToSet(Metadata) \subseteq Name
  /\ 0 \notin Content
  /\ MaxFiles \in Nat

VARIABLES
  disk,         \* disk[place][name]: what the file holds, and its stamp
  capture       \* the capture that is running, or the last one

(* A request is a name and its kind.  "local" modules and "include"s must  *)
(* exist, as must every "package"; "optional" packages and the metadata of *)
(* a "scope" are taken if they exist.                                      *)
Parts == {"source", "dependencies", "runtime"}

NoFile == [is |-> 0, at |-> 0]

IdleCapture ==
  [state |-> "idle", place |-> CHOOSE p \in Place : TRUE, part |-> "source",
   todo |-> <<>>, imports |-> {}, read |-> <<>>, found |-> [p \in Parts |-> {}],
   absent |-> [p \in Parts |-> {}], reading |-> NoFile, verified |-> 0, seen |-> [n \in Name |-> NoFile]]

Wanted(names, kind) == [i \in DOMAIN names |-> [name |-> names[i], kind |-> kind]]

(* Each module asks for the metadata of its directory before its imports. *)
Scopes == Wanted(Metadata, "scope")

CaptureStart(place) ==
  capture' = [IdleCapture EXCEPT
                !.state = "running", !.place = place,
                !.todo = <<[name |-> Entry, kind |-> "local"]>> \o Scopes
                           \o Wanted(SetToSeq(Includes), "include")]

CaptureFails == capture' = [capture EXCEPT !.state = "failed"]

-----------------------------------------------------------------------------
Here(n) == disk[capture.place][n]

Reading == capture.state = "running" /\ capture.part \in Parts /\ capture.todo # <<>>

Asked == Head(capture.todo)

Held(n) == {capture.read[i].file.is : i \in {j \in DOMAIN capture.read : capture.read[j].name = n}}

Known(n) == \E c \in Content : <<n, c>> \in capture.found[capture.part]

External(r) == r.kind \in {"package", "optional"}

(* What file n, holding c and asked for as `kind`, adds to the work. Only  *)
(* modules and packages are inspected; a module's package imports wait     *)
(* until all sources are read.                                             *)
TakeFile(n, c, kind, cap) ==
  LET asks   == IF kind \in {"include", "scope"} THEN <<>> ELSE Asks(n, c)
      scopes == IF kind = "local" THEN Scopes ELSE <<>>
      source == cap.part = "source"
  IN  [cap EXCEPT
         !.found[cap.part] = @ \union {<<n, c>>},
         !.imports = IF source THEN @ \union {r \in ToSet(asks) : External(r)} ELSE @,
         !.todo = scopes \o SelectSeq(asks, LAMBDA r : External(r) # source) \o Tail(@)]

(* visited, known: asked for before in this part *)
CaptureKnown ==
  /\ Reading
  /\ Known(Asked.name)
  /\ capture' = [capture EXCEPT !.todo = Tail(@)]

(* A file of another part is not read again: its cached bytes serve. *)
CaptureCached ==
  /\ Reading
  /\ ~Known(Asked.name)
  /\ \E c \in Held(Asked.name) : capture' = TakeFile(Asked.name, c, Asked.kind, capture)

CaptureLookup ==
  /\ Reading
  /\ capture.reading = NoFile
  /\ ~Known(Asked.name)
  /\ Held(Asked.name) = {}
  /\ Here(Asked.name).is = 0
  /\ IF Asked.kind \in {"scope", "optional"}
     THEN capture' = [capture EXCEPT !.todo = Tail(@), !.absent[capture.part] = @ \union {Asked.name}]
     ELSE CaptureFails

CaptureOpen ==
  /\ Reading
  /\ capture.reading = NoFile
  /\ ~Known(Asked.name)
  /\ Held(Asked.name) = {}
  /\ Here(Asked.name).is # 0
  /\ IF Len(capture.read) < MaxFiles
     THEN capture' = [capture EXCEPT !.reading = Here(Asked.name)]
     ELSE CaptureFails

(* read(): the file must be the one that was opened, before and after *)
CaptureRead ==
  /\ Reading
  /\ capture.reading # NoFile
  /\ IF Here(Asked.name) = capture.reading
     THEN capture' = [TakeFile(Asked.name, capture.reading.is, Asked.kind, capture) EXCEPT
                        !.reading = NoFile,
                        !.read = Append(@, [name |-> Asked.name, file |-> capture.reading])]
     ELSE CaptureFails

(* Sources, then the packages they import, then the runtime and its own. *)
CapturePart ==
  /\ capture.state = "running"
  /\ capture.todo = <<>>
  /\ \/ /\ capture.part = "source"
        /\ capture' = [capture EXCEPT !.part = "dependencies", !.todo = SetToSeq(capture.imports)]
     \/ /\ capture.part = "dependencies"
        /\ capture' = [capture EXCEPT !.part = "runtime",
                                      !.todo = <<[name |-> Runtime, kind |-> "package"]>>]

(* checkOutput(): a package in two parts counts twice *)
FileCount == Cardinality(capture.found["source"]) + Cardinality(capture.found["dependencies"])
               + Cardinality(capture.found["runtime"])

CaptureCount ==
  /\ capture.state = "running"
  /\ capture.part = "runtime"
  /\ capture.todo = <<>>
  /\ IF FileCount <= MaxFiles
     THEN capture' = [capture EXCEPT !.part = "verify", !.seen = disk[capture.place]]
     ELSE CaptureFails

(* Mutation: that the file still exists is enough. *)
UnchangedIfPresent(saved) == Here(saved.name).is # 0

(* verifyUnchanged(), file by file in the order they were read *)
Unchanged(saved) == Here(saved.name) = saved.file

CaptureVerify ==
  /\ capture.state = "running"
  /\ capture.part = "verify"
  /\ LET i == capture.verified + 1
     IN  IF Unchanged(capture.read[i])
         THEN capture' = [capture EXCEPT
                            !.verified = i,
                            !.state = IF i = Len(capture.read) THEN "captured" ELSE @]
         ELSE CaptureFails

(* The deadline or the caller's signal: the race is lost at any moment. *)
CaptureStop == capture.state = "running" /\ CaptureFails

CaptureStep ==
  \/ CaptureKnown
  \/ CaptureCached
  \/ CaptureLookup
  \/ CaptureOpen
  \/ CaptureRead
  \/ CapturePart
  \/ CaptureCount
  \/ CaptureVerify

Captured == capture.state = "captured"

-----------------------------------------------------------------------------
(* What a directory is identified as that nobody edits: d[p][n] is what    *)
(* file n holds while part p is read.                                      *)

Requested(d, n, kinds) == {r.name : r \in {q \in ToSet(Asks(n, d[n])) : q.kind \in kinds}}

(* The names reached from `first` by requests of `kinds` that d satisfies. *)
Reached(d, first, kinds) ==
  LET present(names) == {n \in names : d[n] # 0}
      grow[k \in 0 .. Cardinality(Name)] ==
        IF k = 0 THEN present(first)
        ELSE LET before == grow[k - 1]
             IN  before \union present(UNION {Requested(d, n, kinds) : n \in before})
  IN  grow[Cardinality(Name)]

IdentityOf(d) ==
  LET source   == d["source"]
      modules  == Reached(source, {Entry}, {"local"})
      packages == {"package", "optional"}
      imported == UNION {Requested(source, n, packages) : n \in modules}
      names    == [p \in Parts |->
        CASE p = "source"       -> modules \union Includes \union {n \in ToSet(Metadata) : source[n] # 0}
          [] p = "dependencies" -> Reached(d[p], imported, packages)
          [] p = "runtime"      -> Reached(d[p], {Runtime}, packages)]
  IN  [p \in Parts |-> {<<n, d[p][n]>> : n \in names[p]}]

(* What the capture came to. *)
Identity == capture.found

(* sharedPackages(): installed once and used by application and runtime *)
SharedPackages(identity) == identity["dependencies"] \intersect identity["runtime"]

-----------------------------------------------------------------------------
(* A name that a part has looked for in vain, and not found later *)
Missed(p) == {n \in capture.absent[p] : \A c \in Content : <<n, c>> \notin capture.found[p]}

(* A completed capture describes one moment of the disk, the one at which  *)
(* its verification began: the identity is what that disk would have been  *)
(* identified as, though no two of its files were read at the same time.   *)
(* What a part has looked for in vain is taken as absent: a file that      *)
(* appears after that is not noticed (code: captureIdentity,               *)
(* CaptureState.read, verifyUnchanged).                                    *)
CapturesAreSnapshots ==
  Captured =>
    Identity = IdentityOf([p \in Parts |-> [n \in Name |-> IF n \in Missed(p) THEN 0 ELSE capture.seen[n].is]])
=============================================================================
