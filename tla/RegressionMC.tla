----------------------------- MODULE RegressionMC -----------------------------
(***************************************************************************)
(* A small project, what may happen to it, and small recordings.           *)
(***************************************************************************)
EXTENDS Regression

(* The project: entry.mjs imports ./lib and, if it holds 1, the package    *)
(* dep, which imports the package opt if that is installed.  The runtime   *)
(* imports dep as well, so that dep is shared; notes is an --include.      *)
MCNames ==
  {"entry", "lib", "package", "lock", "notes", "dep", "opt", "runtime", "run", "archive",
   "depArchive", "installer", "wrapper", "wrapperLock", "manifest", "npmrc"}

MCMetadata == <<"package", "lock">>

Asked1(name, kind) == [name |-> name, kind |-> kind]

MCAsks(n, c) ==
  CASE n = "entry"   -> <<Asked1("lib", "local")>>
                          \o IF c = 1 THEN <<Asked1("dep", "package")>> ELSE <<>>
    [] n = "dep"     -> <<Asked1("opt", "optional")>>
    [] n = "runtime" -> <<Asked1("dep", "package")>>
    [] OTHER         -> <<>>

ProjectWith(entry) ==
  [n \in MCNames |->
     IF n = "entry" THEN entry
     ELSE IF n \in {"lib", "package", "lock", "notes", "dep", "runtime", "run", "archive", "depArchive"}
          THEN 1 ELSE 0]

MCStarts == {ProjectWith(1), ProjectWith(2)}

MCEdits ==
  ({"project"} \X {"entry", "lib", "package", "lock", "dep", "runtime", "run", "archive", "depArchive"} \X {2})
    \union ({"project"} \X {"lib", "dep", "opt"} \X {1})
    \union ({"project"} \X {"dep"} \X {0})
    \union ({"bundle"} \X {"entry", "package", "lock", "run", "archive", "wrapperLock", "manifest",
                           "runtime", "dep"} \X {2})
    \union ({"bundle"} \X {"opt", "npmrc", "archive"} \X {1})
    \union ({"bundle"} \X {"lib", "installer"} \X {0})

(* Connections, by the order in which they are accepted *)
L(a, c) == [actor |-> a, connection |-> c]
A0 == L("a", 0)
A1 == L("a", 1)
A2 == L("a", 2)
B0 == L("b", 0)
MCLane == {A0, A1, A2, B0}
MCNone == L("", 0)

(* Two connections of a begin with the same command and then diverge. *)
App(script, needs) == [startup |-> [l \in DOMAIN script |-> "app"], script |-> script, needs |-> needs]
Pool(first, second) == A0 :> first @@ A1 :> second @@ B0 :> <<"w">>

Twins   == App(Pool(<<"x", "y">>, <<"x", "z">>), <<>>)
Swapped == App(Pool(<<"x", "z">>, <<"x", "y">>), <<>>)
Late    == App(Pool(<<"x", "z">>, <<"x", "y">>), A0 :> <<A1, 1>>)
Differs == App(Pool(<<"x", "y">>, <<"x", "q">>), <<>>)
Longer  == App(Pool(<<"x", "y">>, <<"x", "z", "z">>), <<>>)
Missing == App(A0 :> <<"x", "y">> @@ B0 :> <<"w">>, <<>>)
Extra   == App(Pool(<<"x", "y">>, <<"x", "z">>) @@ A2 :> <<>>, <<>>)
Other   == [Twins EXCEPT !.startup[A1] = "other"]

MCApplications == {Twins, Swapped, Late, Differs, Longer, Missing, Extra, Other}

Plain(l, command)       == [lane |-> l, command |-> command, blocker |-> MCNone, paired |-> FALSE]
Waited(l, command, for) == [Plain(l, command) EXCEPT !.blocker = for]
Paired(l, command)      == [Plain(l, command) EXCEPT !.paired = TRUE]

RecordingOf(by, multi, trace) ==
  [by |-> by, multi |-> multi, fixture |-> <<1, 1, 1, 1>>, startup |-> by.startup, trace |-> trace]

MCRecordings ==
  {RecordingOf(Twins, TRUE,
     <<Plain(A0, "x"), Plain(A1, "x"), Waited(A1, "z", A0), Plain(A0, "y"), Plain(B0, "w")>>),
   RecordingOf(Extra, TRUE,
     <<Paired(A0, "x"), Plain(B0, "w"), Plain(A1, "x"), Plain(A0, "y"), Plain(A1, "z")>>),
   RecordingOf(Late, TRUE,
     <<Plain(A1, "x"), Plain(A0, "x"), Waited(A0, "z", A1), Plain(A1, "y"), Plain(B0, "w")>>),
   RecordingOf(Twins, FALSE,
     <<Plain(A0, "x"), Waited(B0, "w", A0), Plain(A0, "y"), Plain(A1, "x"), Plain(A1, "z")>>)}

MCRelations == <<"users", "ids", "log", "tickets">>
MCCounters == {"ids", "tickets"}
MCSetups == {[r \in Relation |-> IF r = more THEN 2 ELSE 1] : more \in {"none", "users", "ids"}}
================================================================================
