-------------------------------- MODULE SearchMC --------------------------------
(***************************************************************************)
(* Small scenarios for Search and Minimize.  Each is generated from the    *)
(* commands of its lanes and from the locks that hold a lane back: lane m  *)
(* cannot proceed while l has released from..until-1 commands.             *)
(***************************************************************************)
EXTENDS Minimize

MCNames == <<"a", "b">>

L(a, n) == [actor |-> a, connection |-> n]

Held(holds, done, m) ==
  \E x \in holds : x.lane = m /\ done[x.by] >= x.from /\ done[x.by] < x.until

Ready(commands, holds, done) ==
  {l \in DOMAIN commands : done[l] < commands[l] /\ ~Held(holds, done, l)}

(* Done(commands, node): commands released on each lane by a node. *)
Done(commands, node) ==
  [l \in DOMAIN commands |-> Cardinality({i \in DOMAIN FlattenSeq(node) : FlattenSeq(node)[i] = l})]

(* The function from nodes to available lanes, built level by level. *)
RECURSIVE Grow(_, _, _, _)
Grow(commands, holds, pairs, node) ==
  LET ready  == Ready(commands, holds, Done(commands, node))
      single == {<<l>> : l \in ready}
      double == IF pairs THEN {<<l, m>> : l \in ready, m \in ready} \ {<<l, l>> : l \in ready} ELSE {}
  IN  FoldSet(LAMBDA d, f : f @@ Grow(commands, holds, pairs, Append(node, d)),
              node :> ready, single \union double)

Generate(commands, holds, pairs) == Grow(commands, holds, pairs, <<>>)

A0 == L("a", 0)
A1 == L("a", 1)
B0 == L("b", 0)

(* A function with the verdict of each complete history. *)
Verdicts(available, Judge(_)) ==
  FoldSet(LAMBDA h, f : f @@ (h :> Judge(h)), <<>>,
          {h \in DOMAIN available : available[h] = {}})

(* Two actors, two commands each: a read and a write.  The reads before    *)
(* either write lose an update; one interleaving, which the fair order     *)
(* finds only when three choices are given, fails in its own way.          *)
TwoActors == Generate((A0 :> 2) @@ (B0 :> 2), {}, FALSE)
(* The same with the row locked from a's read to its write. *)
Locked == Generate((A0 :> 2) @@ (B0 :> 1), {[lane |-> B0, by |-> A0, from |-> 1, until |-> 2]}, FALSE)
(* One actor with two connections, and pairs. *)
TwoLanes == Generate((A0 :> 1) @@ (A1 :> 1) @@ (B0 :> 1), {}, FALSE)
Paired == Generate((A0 :> 1) @@ (B0 :> 2), {}, TRUE)

LostUpdate(h) ==
  IF h = <<<<B0>>, <<A0>>, <<A0>>, <<B0>>>> THEN "phantom"
  ELSE IF h[1][1].actor = h[2][1].actor THEN "passed"
  ELSE IF h[1][1].actor = "a" THEN "lost-update" ELSE "stale-read"

MCScenario ==
  [two    |-> [available |-> TwoActors, multi |-> FALSE, pairs |-> FALSE,
               verdict |-> Verdicts(TwoActors, LostUpdate)],
   locked |-> [available |-> Locked, multi |-> FALSE, pairs |-> FALSE,
               verdict |-> Verdicts(Locked, LAMBDA h : IF h[1] = <<B0>> THEN "lost-update" ELSE "passed")],
   lanes  |-> [available |-> TwoLanes, multi |-> TRUE, pairs |-> FALSE,
               verdict |-> Verdicts(TwoLanes, LAMBDA h : IF h[1] = <<A1>> THEN "lost-update" ELSE "passed")],
   paired |-> [available |-> Paired, multi |-> FALSE, pairs |-> TRUE,
               verdict |-> Verdicts(Paired, LAMBDA h : "passed")]]

E(a) == [actor |-> a, connection |-> AnyConnection]

MCPlans ==
  [two    |-> {<<>>, <<<<E("b")>>, <<E("a")>>>>},
   locked |-> {<<>>, <<<<E("a")>>, <<E("b")>>>>},
   lanes  |-> {<<>>, <<<<E("a")>>, <<E("b")>>, <<E("b")>>>>},
   paired |-> {<<>>, <<<<E("b"), E("a")>>>>}]

Options(seeded, keepGoing) ==
  [maxRuns |-> 100, maxCandidates |-> 100, maxBytes |-> 1000, maxAttempts |-> 100,
   seeded |-> seeded, keepGoing |-> keepGoing]

Orders(seeds) == {Options(s, k) : s \in seeds, k \in BOOLEAN}

Tight ==
  {[Options(FALSE, TRUE) EXCEPT !.maxRuns = 2], [Options(FALSE, TRUE) EXCEPT !.maxCandidates = 4],
   [Options(FALSE, TRUE) EXCEPT !.maxBytes = 20], [Options(FALSE, TRUE) EXCEPT !.maxBytes = 1]}
  \union {[Options(FALSE, FALSE) EXCEPT !.maxAttempts = n] : n \in 1 .. 4}

MCLimits ==
  [two    |-> Orders({FALSE}) \union Tight,
   locked |-> Orders(BOOLEAN) \union Tight,
   lanes  |-> Orders({FALSE}) \union Tight,
   paired |-> Orders(BOOLEAN) \union Tight]
================================================================================
