----------------------------- MODULE Search_proofs -----------------------------
(***************************************************************************)
(* The search for a failing schedule and its reduction, for every scenario *)
(* and every limit: each key is dispatched once and every byte is          *)
(* accounted for; what the reduction keeps reproduces the failure, and     *)
(* what it calls locally minimal is.                                       *)
(***************************************************************************)
EXTENDS Minimize, Sums_proofs, SequenceTheorems

Keys == Seq(Seq(Entry))

(* Finite sets of numbers have a largest element. *)
LEMMA Largest ==
  ASSUME NEW S \in SUBSET Nat, IsFiniteSet(S), S # {}
  PROVE  \E m \in S : \A n \in S : n <= m
<1>. DEFINE N == {k \in Nat : \A s \in SUBSET S : Cardinality(s) = k /\ s # {} =>
                    \E m \in s : \A n \in s : n <= m}
<1>1. 0 \in N
  BY FS_Subset, FS_EmptySet
<1>2. ASSUME NEW k \in N PROVE k + 1 \in N
  <2>. SUFFICES ASSUME NEW s \in SUBSET S, Cardinality(s) = k + 1, s # {}
                PROVE  \E m \in s : \A n \in s : n <= m
    OBVIOUS
  <2>1. PICK x \in s : TRUE
    OBVIOUS
  <2>2. IsFiniteSet(s) /\ x \in Nat
    BY FS_Subset
  <2>3. Cardinality(s \ {x}) = k
    <3>1. Cardinality(s \ {x}) = Cardinality(s) - 1
      BY <2>2, FS_RemoveElement
    <3>. QED  BY <3>1
  <2>4. CASE s \ {x} = {}
    BY <2>2, <2>4
  <2>5. CASE s \ {x} # {}
    <3>1. PICK m \in s \ {x} : \A n \in s \ {x} : n <= m
      BY <2>3, <2>5
    <3>2. CASE m <= x
      BY <2>2, <3>1, <3>2
    <3>3. CASE x <= m
      BY <2>2, <3>1, <3>3
    <3>. QED  BY <2>2, <3>2, <3>3
  <2>. QED  BY <2>4, <2>5
<1>3. N = Nat
  <2>. HIDE DEF N
  <2>1. N \in SUBSET Nat
    BY DEF N
  <2>. QED  BY <1>1, <1>2, <2>1, NatSetInduction
<1>4. Cardinality(S) \in N
  BY <1>3, FS_CardinalityType
<1>. QED  BY <1>4

LEMMA FiniteRange ==
  ASSUME NEW f, IsFiniteSet(DOMAIN f), f = [x \in DOMAIN f |-> f[x]]
  PROVE  IsFiniteSet(Range(f))
<1>1. f \in Surjection(DOMAIN f, Range(f))
  BY DEF Surjection, Range
<1>. QED  BY <1>1, FS_Surjection

(* A finite set in some order, each element once. *)
LEMMA InOrder ==
  ASSUME NEW S, IsFiniteSet(S)
  PROVE  LET s == SetToSeq(S)
         IN  /\ s \in Seq(S) /\ Len(s) = Cardinality(S) /\ DOMAIN s = 1 .. Cardinality(S)
             /\ Cardinality(S) \in Nat
             /\ IsInjective(s)
             /\ \A x \in S : \E i \in DOMAIN s : s[i] = x
<1>1. Cardinality(S) \in Nat /\ ExistsBijection(1 .. Cardinality(S), S)
  BY FS_CardinalityType
<1>2. \E f \in [1 .. Cardinality(S) -> S] : IsInjective(f)
  BY <1>1 DEF ExistsBijection, Bijection, Injection, IsInjective
<1>. DEFINE s == SetToSeq(S)
<1>3. s \in [1 .. Cardinality(S) -> S] /\ IsInjective(s)
  BY <1>2 DEF SetToSeq
<1>. HIDE DEF s
<1>4. s \in Injection(1 .. Cardinality(S), S)
  BY <1>3 DEF Injection, IsInjective
<1>5. s \in Surjection(1 .. Cardinality(S), S)
  <2>1. Cardinality(1 .. Cardinality(S)) = Cardinality(S)
    BY <1>1, FS_Interval
  <2>. QED  BY <1>4, <2>1, FS_Injection
<1>6. s \in Seq(S) /\ Len(s) = Cardinality(S) /\ DOMAIN s = 1 .. Cardinality(S)
  BY <1>1, <1>3
<1>7. \A x \in S : \E i \in DOMAIN s : s[i] = x
  BY <1>5, <1>6 DEF Surjection
<1>. QED  BY <1>1, <1>3, <1>6, <1>7 DEF s

(* The first n of them are n. *)
LEMMA FirstElements ==
  ASSUME NEW S, IsFiniteSet(S), NEW n \in 0 .. Cardinality(S)
  PROVE  LET s == SetToSeq(S)
             T == {s[k] : k \in 1 .. n}
         IN  IsFiniteSet(T) /\ Cardinality(T) = n /\ T \subseteq S
<1>. DEFINE s == SetToSeq(S)
            T == {s[k] : k \in 1 .. n}
<1>1. s \in Seq(S) /\ DOMAIN s = 1 .. Cardinality(S) /\ IsInjective(s) /\ Cardinality(S) \in Nat
  BY InOrder
<1>. HIDE DEF s
<1>2. 1 .. n \subseteq DOMAIN s /\ n \in Nat
  BY <1>1
<1>. DEFINE f == [k \in 1 .. n |-> s[k]]
<1>3. f \in Bijection(1 .. n, T)
  BY <1>1, <1>2 DEF Bijection, Injection, Surjection, IsInjective
<1>4. IsFiniteSet(1 .. n) /\ Cardinality(1 .. n) = n
  BY <1>2, FS_Interval
<1>5. IsFiniteSet(T) /\ Cardinality(T) = n
  BY <1>3, <1>4, FS_Bijection DEF ExistsBijection
<1>6. T \subseteq S
  BY <1>1, <1>2
<1>. QED  BY <1>5, <1>6 DEF s

-----------------------------------------------------------------------------
(***************************************************************************)
(* Runs and the keys that branch off them.                                 *)
(***************************************************************************)

(* The histories a plan leads to. *)
Led(p) == {h \in Nodes : \A i \in DOMAIN h : h[i] \in Following(p, SubSeq(h, 1, i - 1))}

(* A run follows its plan as far as it can. *)
LEMMA ReachedIsLongest ==
  ASSUME case \in Cases, NEW p
  PROVE  Reached(p) \in Led(p) /\ \A g \in Led(p) : Len(g) <= Len(Reached(p))
<1>. DEFINE led == {h \in Nodes : \A i \in DOMAIN h : h[i] \in Following(p, SubSeq(h, 1, i - 1))}
            L == {Len(h) : h \in led}
<1>1. IsFiniteSet(Nodes) /\ <<>> \in Nodes /\ Nodes \subseteq Seq(Seq(Lane))
  BY ScenarioAssumption DEF Nodes
<1>2. <<>> \in led
  BY <1>1
<1>3. L \in SUBSET Nat /\ L # {}
  <2>1. led \subseteq Seq(Seq(Lane))
    BY <1>1
  <2>. HIDE DEF led
  <2>2. \A h \in led : Len(h) \in Nat
    BY <2>1
  <2>3. \E h \in led : TRUE
    BY <1>2
  <2>. QED  BY <2>2, <2>3
<1>4. IsFiniteSet(L)
  <2>. DEFINE f == [h \in led |-> Len(h)]
  <2>1. IsFiniteSet(led)
    BY <1>1, FS_Subset
  <2>2. f \in Surjection(led, L)
    BY DEF Surjection
  <2>. QED  BY <2>1, <2>2, FS_Surjection
<1>5. PICK best \in led : \A g \in led : Len(g) <= Len(best)
  <2>1. PICK m \in L : \A n \in L : n <= m
    <3>. HIDE DEF L
    <3>. QED  BY <1>3, <1>4, Largest
  <2>. QED  BY <2>1
<1>6. Reached(p) \in led /\ \A g \in led : Len(g) <= Len(Reached(p))
  <2>. HIDE DEF led
  <2>. DEFINE longest == CHOOSE h \in led : \A g \in led : Len(g) <= Len(h)
  <2>1. longest \in led /\ \A g \in led : Len(g) <= Len(longest)
    BY <1>5
  <2>2. Reached(p) = longest
    BY DEF Reached, led
  <2>. QED  BY <2>1, <2>2
<1>. QED  BY <1>6 DEF Led

(* A run leads to some history, and so does what interrupts it. *)
LEMMA ReachedIsNode ==
  ASSUME case \in Cases, NEW p
  PROVE  Reached(p) \in Nodes
  BY ReachedIsLongest DEF Led

LEMMA EndingIsNode ==
  ASSUME case \in Cases, NEW h \in Nodes, NEW verdict, NEW r \in Endings(h, verdict)
  PROVE  r.history \in Nodes
<1>1. Nodes \subseteq Seq(Seq(Lane)) /\ <<>> \in Nodes
  BY ScenarioAssumption DEF Nodes
<1>2. \A n \in {0, Len(h)} : SubSeq(h, 1, n) \in Nodes
  <2>1. Len(h) \in Nat
    BY <1>1
  <2>. QED  BY <2>1, ScenarioAssumption DEF Nodes
<1>3. r.history = h \/ r.history = <<>> \/ \E n \in {0, Len(h)} : r.history = SubSeq(h, 1, n)
  BY DEF Endings, Result
<1>. QED  BY <1>1, <1>2, <1>3

LEMMA ResultIsNode ==
  ASSUME case \in Cases, NEW p, NEW r \in Results(p)
  PROVE  r.history \in Nodes
<1>1. PICK h \in Nodes : h = Reached(p)
  BY ReachedIsNode
<1>2. r \in Endings(h, Verdict(p))
  BY <1>1 DEF Results
<1>. QED  BY <1>2, EndingIsNode

(* What a run releases is one name for each lane. *)
LEMMA ChoiceIsChoice ==
  ASSUME NEW d \in Seq(Lane), NEW multi
  PROVE  Choice(d, multi) \in Seq(Entry) /\ Len(Choice(d, multi)) = Len(d)
<1>1. \A l \in Lane : Name(l, multi) \in Entry
  BY DEF Name, Lane, Entry
<1>2. \A k \in DOMAIN d : Name(d[k], multi) \in Entry
  BY <1>1
<1>. QED  BY <1>2 DEF Choice

LEMMA ChoicesAreKey ==
  ASSUME NEW h \in Seq(Seq(Lane))
  PROVE  ChoicesOf(h) \in Keys /\ Len(ChoicesOf(h)) = Len(h)
<1>. DEFINE multi == MultiLane(h)
<1>. HIDE DEF multi
<1>1. \A i \in DOMAIN h : Choice(h[i], multi) \in Seq(Entry)
  BY ChoiceIsChoice
<1>2. ChoicesOf(h) = [i \in DOMAIN h |-> Choice(h[i], multi)]
  BY DEF ChoicesOf, multi
<1>. QED  BY <1>1, <1>2 DEF Keys

LEMMA DecisionsAreFinite ==
  ASSUME case \in Cases, NEW node \in Nodes, NEW multi
  PROVE  IsFiniteSet(DecisionChoices(node, multi)) /\ DecisionChoices(node, multi) \subseteq Seq(Entry)
<1>. DEFINE lanes == AvailableLanes(node)
            one == [l \in lanes |-> Choice(<<l>>, multi)]
            pairs == {q \in lanes \X lanes : Before(q[1], q[2])}
            two == [p \in pairs |-> Choice(<<p[1], p[2]>>, multi)]
<1>1. IsFiniteSet(lanes) /\ lanes \subseteq Lane
  BY ScenarioAssumption DEF Nodes, AvailableLanes
<1>. HIDE DEF lanes
<1>2. IsFiniteSet(pairs)
  <2>1. IsFiniteSet(lanes \X lanes)
    BY <1>1, FS_Product
  <2>. QED  BY <2>1, FS_Subset
<1>3. IsFiniteSet(Range(one)) /\ Range(one) = {Choice(<<l>>, multi) : l \in lanes}
  <2>1. DOMAIN one = lanes /\ one = [x \in DOMAIN one |-> one[x]]
    OBVIOUS
  <2>2. Range(one) = {Choice(<<l>>, multi) : l \in lanes}
    BY DEF Range
  <2>. HIDE DEF one
  <2>. QED  BY <1>1, <2>1, <2>2, FiniteRange
<1>4. IsFiniteSet(Range(two)) /\ Range(two) = {Choice(<<p[1], p[2]>>, multi) : p \in pairs}
  <2>1. DOMAIN two = pairs /\ two = [x \in DOMAIN two |-> two[x]]
    OBVIOUS
  <2>2. Range(two) = {Choice(<<p[1], p[2]>>, multi) : p \in pairs}
    BY DEF Range
  <2>. HIDE DEF two, pairs
  <2>. QED  BY <1>2, <2>1, <2>2, FiniteRange
<1>5. /\ \A l \in lanes : Choice(<<l>>, multi) \in Seq(Entry)
      /\ \A p \in pairs : Choice(<<p[1], p[2]>>, multi) \in Seq(Entry)
  <2>1. \A l \in lanes : <<l>> \in Seq(Lane)
    BY <1>1
  <2>2. \A p \in pairs : <<p[1], p[2]>> \in Seq(Lane)
    BY <1>1
  <2>. QED  BY <2>1, <2>2, ChoiceIsChoice
<1>6. DecisionChoices(node, multi) = Range(one) \union IF Scenario[case].pairs THEN Range(two) ELSE {}
  BY <1>3, <1>4 DEF DecisionChoices, lanes
<1>7. IsFiniteSet(DecisionChoices(node, multi))
  <2>1. IsFiniteSet(Range(one) \union Range(two))
    BY <1>3, <1>4, FS_Union
  <2>. HIDE DEF one, two, pairs
  <2>. QED  BY <1>3, <1>6, <2>1
<1>8. DecisionChoices(node, multi) \subseteq Seq(Entry)
  BY <1>3, <1>4, <1>5, <1>6
<1>. QED  BY <1>7, <1>8

(* The keys of one decision: finitely many, all of one length. *)
LEMMA KeysShape ==
  ASSUME case \in Cases, NEW h \in Nodes, NEW i \in 1 .. Len(h)
  PROVE  /\ IsFiniteSet(KeysAt(h, i)) /\ KeysAt(h, i) \subseteq Keys
         /\ \A key \in KeysAt(h, i) : KeyBytes(key) = BranchBytes(i)
<1>. DEFINE multi == MultiLane(h)
            prefix == SubSeq(ChoicesOf(h), 1, i - 1)
            others == DecisionChoices(SubSeq(h, 1, i - 1), multi) \ {ChoicesOf(h)[i]}
            key == [a \in others |-> Append(prefix, a)]
<1>1. h \in Seq(Seq(Lane)) /\ Len(h) \in Nat /\ SubSeq(h, 1, i - 1) \in Nodes
  <2>1. h \in Seq(Seq(Lane)) /\ Len(h) \in Nat
    BY ScenarioAssumption DEF Nodes
  <2>2. i - 1 \in 0 .. Len(h)
    BY <2>1
  <2>. QED  BY <2>1, <2>2, ScenarioAssumption DEF Nodes
<1>2. prefix \in Keys /\ Len(prefix) = i - 1
  <2>1. ChoicesOf(h) \in Seq(Seq(Entry)) /\ Len(ChoicesOf(h)) = Len(h)
    BY <1>1, ChoicesAreKey DEF Keys
  <2>2. \A j \in 1 .. i - 1 : ChoicesOf(h)[j] \in Seq(Entry)
    BY <1>1, <2>1
  <2>. QED  BY <1>1, <2>1, <2>2, SubSeqProperties DEF Keys
<1>3. IsFiniteSet(others) /\ others \subseteq Seq(Entry)
  <2>1. /\ IsFiniteSet(DecisionChoices(SubSeq(h, 1, i - 1), multi))
        /\ DecisionChoices(SubSeq(h, 1, i - 1), multi) \subseteq Seq(Entry)
    BY <1>1, DecisionsAreFinite
  <2>. QED  BY <2>1, FS_Subset
<1>. HIDE DEF others, prefix
<1>4. \A a \in others : Append(prefix, a) \in Keys /\ Len(Append(prefix, a)) = i
  BY <1>1, <1>2, <1>3 DEF Keys
<1>5. Range(key) = {Append(prefix, a) : a \in others}
  BY DEF Range
<1>6. IsFiniteSet(Range(key))
  <2>1. DOMAIN key = others /\ key = [a \in DOMAIN key |-> key[a]]
    OBVIOUS
  <2>. HIDE DEF key
  <2>. QED  BY <1>3, <2>1, FiniteRange
<1>7. KeysAt(h, i) = {Append(prefix, a) : a \in others}
  BY DEF KeysAt, prefix, others
<1>8. ASSUME NEW a \in others PROVE KeyBytes(Append(prefix, a)) = BranchBytes(i)
  <2>1. Append(prefix, a) # <<>> /\ Len(Append(prefix, a)) = i
    <3>. DEFINE q == Append(prefix, a)
    <3>1. Len(q) = i /\ i \in Nat /\ i # 0 /\ Len(<<>>) = 0
      BY <1>1, <1>4
    <3>. HIDE DEF q
    <3>2. q # <<>>
      BY <3>1
    <3>. QED  BY <3>1, <3>2 DEF q
  <2>. QED  BY <2>1 DEF KeyBytes, BranchBytes
<1>. QED  BY <1>4, <1>5, <1>6, <1>7, <1>8

-----------------------------------------------------------------------------
(***************************************************************************)
(* The plan notation.  A run's own choices, given as a plan, lead to it.   *)
(***************************************************************************)
LEMMA HistoryShape ==
  ASSUME case \in Cases, NEW h \in Nodes
  PROVE  /\ h \in Seq(Seq(Lane)) /\ Len(h) \in Nat /\ DOMAIN h = 1 .. Len(h)
         /\ \A n \in 0 .. Len(h) : SubSeq(h, 1, n) \in Nodes
         /\ AvailableLanes(h) \subseteq Lane
  BY ScenarioAssumption, LenProperties DEF Nodes, AvailableLanes

(* A decision was one between the lanes available before it. *)
LEMMA DecisionTaken ==
  ASSUME case \in Cases, NEW h \in Nodes, NEW i \in 1 .. Len(h)
  PROVE  h[i] \in DecisionsOf(AvailableLanes(SubSeq(h, 1, i - 1)), Scenario[case].pairs)
  BY HistoryShape, DecisionAssumption DEF Nodes, AvailableLanes

(* An actor that a plan does not name a lane of has one to release. *)
LEMMA OneLane ==
  ASSUME case \in Cases, NEW h \in Histories, NEW n \in 0 .. Len(h),
         NEW l \in AvailableLanes(SubSeq(h, 1, n)), NEW m \in AvailableLanes(SubSeq(h, 1, n)),
         SameActor(l, m), l.actor \notin MultiLane(h)
  PROVE  l = m
<1>1. h \in Nodes /\ AvailableLanes(h) = {} /\ SubSeq(h, 1, n) \in Nodes
  BY HistoryShape DEF Histories
<1>2. l \in Lane /\ m \in Lane /\ l.actor \in Actors
  BY <1>1, HistoryShape DEF Lane
<1>3. CASE ~Scenario[case].multi
  BY <1>1, <1>3, DecisionAssumption DEF Nodes, AvailableLanes
<1>4. CASE Scenario[case].multi
  <2>1. \A x \in AvailableLanes(SubSeq(h, 1, n)) :
          \E i \in n + 1 .. Len(h) : \E k \in DOMAIN h[i] : h[i][k] = x
    BY <1>1, CompletionAssumption DEF Nodes, AvailableLanes
  <2>2. n + 1 .. Len(h) \subseteq DOMAIN h
    BY <1>1, HistoryShape
  <2>3. l \in Released(h) /\ m \in Released(h)
    BY <2>1, <2>2 DEF Released
  <2>. QED  BY <1>2, <1>4, <2>3 DEF MultiLane, SameActor
<1>. QED  BY <1>3, <1>4

LEMMA TurnTyped ==
  ASSUME NEW a \in Actors, NEW turn \in Int
  PROVE  Turn(a, turn) \in Nat
<1>1. Position(a) \in 1 .. Len(Names) /\ Len(Names) \in Nat /\ Len(Names) > 0
  <2>1. \E i \in 1 .. Len(Names) : Names[i] = a
    BY DEF Actors
  <2>. QED  BY <2>1, NamesAssumption, LenProperties DEF Position
<1>. QED  BY <1>1 DEF Turn

LEMMA FairAlone ==
  ASSUME NEW l \in Lane, NEW turn \in Int, NEW last
  PROVE  FairLanes({l}, turn, last) = {l}
<1>1. Turn(l.actor, turn) <= Turn(l.actor, turn)
  BY TurnTyped DEF Lane
<1>2. BeforeInActor(l.connection, l.connection, last[l.actor])
  <2>1. l.connection \in Int
    BY GenerationsAssumption DEF Lane
  <2>. QED  BY <2>1 DEF BeforeInActor
<1>. QED  BY <1>1, <1>2 DEF FairLanes

(* The name a plan gives a lane, picked from lanes with only one of its    *)
(* actor or looked up among several, is that lane.                         *)
LEMMA NamePicks ==
  ASSUME NEW multi, NEW node, NEW S \in SUBSET Lane, NEW l \in S,
         l.actor \notin multi => \A m \in S : SameActor(l, m) => l = m
  PROVE  Picks(Name(l, multi), S, node) = {l}
<1>. DEFINE e == Name(l, multi)
            own == {m \in S : m.actor = e.actor}
<1>1. l \in Lane /\ l.connection \in Nat /\ AnyConnection = -1
  BY GenerationsAssumption DEF Lane, AnyConnection
<1>2. CASE l.actor \in multi
  <2>1. e.connection = l.connection /\ e.connection # AnyConnection
    BY <1>1, <1>2 DEF Name
  <2>2. [actor |-> e.actor, connection |-> e.connection] = l
    BY <1>1, <1>2 DEF Name, Lane
  <2>. HIDE DEF e
  <2>. QED  BY <2>1, <2>2 DEF Picks, Resolution, e
<1>3. CASE l.actor \notin multi
  <2>1. e.connection = AnyConnection /\ e.actor = l.actor
    BY <1>3 DEF Name
  <2>2. own = {l}
    BY <1>3, <2>1 DEF SameActor
  <2>3. FairLanes({l}, 0, LastConnection(node)) = {l}
    BY <1>1, FairAlone
  <2>. HIDE DEF e
  <2>. QED  BY <2>1, <2>2, <2>3 DEF Picks, Resolution, e
<1>. QED  BY <1>2, <1>3

LEMMA DecisionParts ==
  ASSUME NEW S, NEW d \in {<<x>> : x \in S} \union {<<x, y>> : x \in S, y \in S}
  PROVE  (Len(d) = 1 /\ d = <<d[1]>>) \/ (Len(d) = 2 /\ d = <<d[1], d[2]>>)
<1>1. CASE \E x \in S : d = <<x>>
  <2>1. PICK x \in S : d = <<x>>
    BY <1>1
  <2>. QED  BY <2>1
<1>2. CASE \E x, y \in S : d = <<x, y>>
  <2>1. PICK x \in S, y \in S : d = <<x, y>>
    BY <1>2
  <2>. QED  BY <2>1
<1>. QED  BY <1>1, <1>2

(* A decision that could be taken is the one its name resolves to. *)
LEMMA NameResolves ==
  ASSUME case \in Cases, NEW h \in Histories, NEW n \in 0 .. Len(h),
         NEW d \in DecisionsOf(AvailableLanes(SubSeq(h, 1, n)), Scenario[case].pairs)
  PROVE  Resolved(Choice(d, MultiLane(h)), SubSeq(h, 1, n)) = {d}
<1>. DEFINE node == SubSeq(h, 1, n)
            lanes == AvailableLanes(node)
            multi == MultiLane(h)
            choice == Choice(d, multi)
            pool == {<<x>> : x \in lanes} \union {<<x, y>> : x \in lanes, y \in lanes}
<1>1. h \in Nodes
  BY DEF Histories
<1>2. lanes \in SUBSET Lane
  BY <1>1, HistoryShape
<1>3. choice = Choice(d, multi)
  OBVIOUS
<1>4. ASSUME NEW S \in SUBSET lanes, NEW l \in S
      PROVE  Picks(Name(l, multi), S, node) = {l}
  <2>1. l.actor \notin multi => \A m \in S : SameActor(l, m) => l = m
    BY <1>1, OneLane
  <2>2. S \in SUBSET Lane
    BY <1>2
  <2>. HIDE DEF lanes, node, multi
  <2>. QED  BY <2>1, <2>2, NamePicks
<1>5. (\E l \in lanes : d = <<l>>) \/ (\E l, m \in lanes : l # m /\ d = <<l, m>>)
  BY DEF DecisionsOf
<1>. HIDE DEF lanes, multi, choice, node
<1>9. /\ \A c \in pool : (Len(c) = 1 /\ c = <<c[1]>>) \/ (Len(c) = 2 /\ c = <<c[1], c[2]>>)
      /\ \A x \in lanes : <<x>> \in pool /\ \A y \in lanes : <<x, y>> \in pool
  BY DecisionParts
<1>6. \A c : c \in Resolved(choice, node) <=>
        /\ c \in pool /\ Len(c) = Len(choice)
        /\ c[1] \in Picks(choice[1], lanes, node)
        /\ Len(c) = 2 => c[2] \in Picks(choice[2], lanes \ {c[1]}, node)
  BY DEF Resolved, lanes
<1>. HIDE DEF pool
<1>7. CASE \E l \in lanes : d = <<l>>
  <2>1. PICK l \in lanes : d = <<l>>
    BY <1>7
  <2>2. Len(choice) = 1 /\ choice[1] = Name(l, multi)
    BY <1>3, <2>1 DEF Choice
  <2>3. Picks(choice[1], lanes, node) = {l}
    BY <1>4, <2>2
  <2>4. ASSUME NEW c \in Resolved(choice, node) PROVE c = <<l>>
    <3>1. c \in pool /\ Len(c) = 1 /\ c[1] = l
      BY <1>6, <2>2, <2>3
    <3>2. c = <<c[1]>>
      BY <1>9, <3>1
    <3>. QED  BY <3>1, <3>2
  <2>5. <<l>> \in Resolved(choice, node)
    <3>. DEFINE c == <<l>>
    <3>1. Len(c) = 1 /\ c[1] = l /\ c \in pool
      BY <1>9
    <3>. HIDE DEF c
    <3>2. Len(c) = Len(choice) /\ c[1] \in Picks(choice[1], lanes, node) /\ Len(c) # 2
      BY <2>2, <2>3, <3>1
    <3>3. c \in Resolved(choice, node)
      BY <1>6, <3>1, <3>2
    <3>. QED  BY <3>3 DEF c
  <2>. QED  BY <2>1, <2>4, <2>5 DEF choice, node, multi
<1>8. CASE \E l, m \in lanes : l # m /\ d = <<l, m>>
  <2>1. PICK l \in lanes, m \in lanes : l # m /\ d = <<l, m>>
    BY <1>8
  <2>2. Len(choice) = 2 /\ choice[1] = Name(l, multi) /\ choice[2] = Name(m, multi)
    BY <1>3, <2>1 DEF Choice
  <2>3. Picks(choice[1], lanes, node) = {l} /\ Picks(choice[2], lanes \ {l}, node) = {m}
    BY <1>4, <2>1, <2>2
  <2>4. ASSUME NEW c \in Resolved(choice, node) PROVE c = <<l, m>>
    <3>1. /\ c \in pool /\ Len(c) = 2 /\ c[1] \in Picks(choice[1], lanes, node)
          /\ c[2] \in Picks(choice[2], lanes \ {c[1]}, node)
      BY <1>6, <2>2
    <3>2. c[1] = l /\ c[2] = m
      BY <2>3, <3>1
    <3>3. c = <<c[1], c[2]>>
      BY <1>9, <3>1
    <3>. QED  BY <3>2, <3>3
  <2>5. <<l, m>> \in Resolved(choice, node)
    <3>. DEFINE c == <<l, m>>
    <3>1. Len(c) = 2 /\ c[1] = l /\ c[2] = m
      OBVIOUS
    <3>2. c \in pool
      BY <1>9
    <3>. HIDE DEF c
    <3>3. c[1] \in Picks(choice[1], lanes, node) /\ c[2] \in Picks(choice[2], lanes \ {c[1]}, node)
      BY <2>3, <3>1
    <3>4. c \in Resolved(choice, node)
      BY <1>6, <2>2, <3>1, <3>2, <3>3
    <3>. QED  BY <3>4 DEF c
  <2>. QED  BY <2>1, <2>4, <2>5 DEF choice, node, multi
<1>. QED  BY <1>5, <1>7, <1>8

LEMMA ChoiceResolves ==
  ASSUME case \in Cases, NEW h \in Histories, NEW i \in 1 .. Len(h)
  PROVE  Resolved(ChoicesOf(h)[i], SubSeq(h, 1, i - 1)) = {h[i]}
<1>1. h \in Nodes /\ i \in DOMAIN h /\ i - 1 \in 0 .. Len(h)
  BY HistoryShape DEF Histories
<1>2. h[i] \in DecisionsOf(AvailableLanes(SubSeq(h, 1, i - 1)), Scenario[case].pairs)
  BY <1>1, DecisionTaken
<1>3. ChoicesOf(h)[i] = Choice(h[i], MultiLane(h))
  BY <1>1 DEF ChoicesOf
<1>. QED  BY <1>1, <1>2, <1>3, NameResolves

(* Where a plan and its fallback leave one decision, all its runs agree. *)
LEMMA Forced ==
  ASSUME case \in Cases, NEW p, NEW h \in Nodes,
         \A i \in 1 .. Len(h) : Following(p, SubSeq(h, 1, i - 1)) = {h[i]},
         NEW g \in Led(p)
  PROVE  \A i \in 1 .. Len(g) : i <= Len(h) => g[i] = h[i]
<1>1. h \in Seq(Seq(Lane)) /\ Len(h) \in Nat
  BY HistoryShape
<1>2. /\ g \in Nodes /\ g \in Seq(Seq(Lane)) /\ Len(g) \in Nat
      /\ \A i \in 1 .. Len(g) : g[i] \in Following(p, SubSeq(g, 1, i - 1))
  BY HistoryShape DEF Led
<1>. DEFINE N == {n \in Nat : \A i \in 1 .. n : i <= Len(g) /\ i <= Len(h) => g[i] = h[i]}
<1>3. 0 \in N
  OBVIOUS
<1>4. ASSUME NEW n \in N PROVE n + 1 \in N
  <2>1. n \in Nat /\ \A i \in 1 .. n : i <= Len(g) /\ i <= Len(h) => g[i] = h[i]
    OBVIOUS
  <2>. HIDE DEF N
  <2>2. ASSUME n + 1 <= Len(g), n + 1 <= Len(h) PROVE g[n + 1] = h[n + 1]
    <3>1. n + 1 \in 1 .. Len(g) /\ n + 1 \in 1 .. Len(h) /\ (n + 1) - 1 = n
      BY <1>1, <1>2, <2>1, <2>2
    <3>2. SubSeq(g, 1, n) = SubSeq(h, 1, n)
      <4>1. n <= Len(h) /\ n <= Len(g) /\ \A i \in 1 .. n : g[i] = h[i]
        <5>1. n <= Len(h) /\ n <= Len(g)
          BY <1>1, <1>2, <2>1, <3>1
        <5>2. \A i \in 1 .. n : i <= Len(g) /\ i <= Len(h)
          BY <1>1, <1>2, <2>1, <5>1
        <5>. QED  BY <2>1, <5>1, <5>2
      <4>. QED  BY <1>1, <1>2, <2>1, <4>1
    <3>3. g[n + 1] \in Following(p, SubSeq(h, 1, n))
      BY <1>2, <3>1, <3>2
    <3>. QED  BY <3>1, <3>3
  <2>3. \A i \in 1 .. n + 1 : i \in 1 .. n \/ i = n + 1
    BY <2>1
  <2>4. \A i \in 1 .. n + 1 : i <= Len(g) /\ i <= Len(h) => g[i] = h[i]
    BY <2>1, <2>2, <2>3
  <2>. QED  BY <2>1, <2>4 DEF N
<1>5. N = Nat
  <2>1. N \in SUBSET Nat
    OBVIOUS
  <2>. HIDE DEF N
  <2>. QED  BY <1>3, <1>4, <2>1, NatSetInduction
<1>6. Len(g) \in N
  BY <1>2, <1>5
<1>. QED  BY <1>2, <1>6

(* A run's own choices, written in plan notation and followed as a plan,   *)
(* lead to that run and no other: the names of planFromTrace()             *)
(* (src/lanes.ts) are enough for resolvePlanEntry() and fairLane() to find *)
(* the lanes again, although an actor with one lane is named without it.   *)
THEOREM ChoicesLead ==
  ASSUME case \in Cases, NEW h \in Histories
  PROVE  Reached(ChoicesOf(h)) = h
<1>. DEFINE p == ChoicesOf(h)
            led == Led(p)
<1>1. h \in Nodes /\ h \in Seq(Seq(Lane)) /\ Len(h) \in Nat /\ DOMAIN h = 1 .. Len(h) /\ AvailableLanes(h) = {}
  BY HistoryShape DEF Histories
<1>2. Len(p) = Len(h)
  BY <1>1, ChoicesAreKey
<1>3. ASSUME NEW i \in 1 .. Len(h)
      PROVE  Following(p, SubSeq(h, 1, i - 1)) = {h[i]}
  <2>1. Len(SubSeq(h, 1, i - 1)) = i - 1 /\ i - 1 < Len(h) /\ (i - 1) + 1 = i
    BY <1>1, SubSeqProperties
  <2>2. Resolved(ChoicesOf(h)[i], SubSeq(h, 1, i - 1)) = {h[i]}
    BY ChoiceResolves
  <2>. QED  BY <1>2, <2>1, <2>2 DEF Following
<1>4. Following(p, h) = {}
  <2>1. Fallback(h) = {}
    BY <1>1 DEF Fallback, FairLanes
  <2>. QED  BY <1>1, <1>2, <2>1 DEF Following
<1>5. h \in led
  BY <1>1, <1>3 DEF Led
<1>6. ASSUME NEW g \in led
      PROVE  g \in Seq(Seq(Lane)) /\ Len(g) \in Nat /\ Len(g) <= Len(h) /\ \A i \in 1 .. Len(g) : g[i] = h[i]
  <2>. HIDE DEF p
  <2>1. /\ g \in Seq(Seq(Lane)) /\ Len(g) \in Nat
        /\ \A i \in 1 .. Len(g) : g[i] \in Following(p, SubSeq(g, 1, i - 1))
    BY HistoryShape DEF Led
  <2>2. \A i \in 1 .. Len(g) : i <= Len(h) => g[i] = h[i]
    BY <1>1, <1>3, Forced
  <2>3. ~(Len(g) > Len(h))
    <3>. SUFFICES ASSUME Len(g) > Len(h) PROVE FALSE
      OBVIOUS
    <3>1. Len(h) + 1 \in 1 .. Len(g) /\ (Len(h) + 1) - 1 = Len(h)
      BY <1>1, <2>1
    <3>2. SubSeq(g, 1, Len(h)) = h
      BY <1>1, <2>1, <2>2
    <3>. QED  BY <1>4, <2>1, <3>1, <3>2
  <2>. QED  BY <1>1, <2>1, <2>2, <2>3
<1>7. ASSUME NEW g \in led, \A x \in led : Len(x) <= Len(g)
      PROVE  g = h
  <2>. HIDE DEF led
  <2>1. Len(g) = Len(h)
    BY <1>1, <1>5, <1>6, <1>7
  <2>. QED  BY <1>1, <1>6, <1>7, <2>1, SeqEqual
<1>8. Reached(p) = CHOOSE x \in led : \A g \in led : Len(g) <= Len(x)
  BY DEF Reached, Led
<1>. HIDE DEF p, led
<1>9. (CHOOSE x \in led : \A g \in led : Len(g) <= Len(x)) = h
  <2>1. \A g \in led : Len(g) <= Len(h)
    BY <1>6
  <2>. QED  BY <1>5, <1>7, <2>1
<1>. QED  BY <1>8, <1>9 DEF p

(* So the verdict of its choices is its own. *)
LEMMA ChoicesLeadBack ==
  ASSUME case \in Cases, NEW h \in Histories
  PROVE  Verdict(ChoicesOf(h)) = Scenario[case].verdict[h]
<1>1. Reached(ChoicesOf(h)) = h /\ h \in Seq(Seq(Lane)) /\ Len(h) \in Nat
  BY ChoicesLead, HistoryShape DEF Histories
<1>2. Len(ChoicesOf(h)) = Len(h)
  BY <1>1, ChoicesAreKey
<1>. QED  BY <1>1, <1>2 DEF Verdict, Compatible

(* Sets of numbers have a smallest element. *)
LEMMA Smallest ==
  ASSUME NEW S \in SUBSET Nat, S # {}
  PROVE  \E m \in S : \A n \in S : m <= n
<1>. SUFFICES ASSUME \A m \in S : \E n \in S : n < m PROVE FALSE
  OBVIOUS
<1>. DEFINE N == {k \in Nat : \A j \in 0 .. k : j \notin S}
<1>1. 0 \in N
  <2>1. 0 \notin S
    OBVIOUS
  <2>. QED  BY <2>1
<1>2. ASSUME NEW k \in N PROVE k + 1 \in N
  <2>1. k + 1 \notin S
    OBVIOUS
  <2>. QED  BY <2>1
<1>3. N = Nat
  <2>1. N \in SUBSET Nat
    OBVIOUS
  <2>. HIDE DEF N
  <2>. QED  BY <1>1, <1>2, <2>1, NatSetInduction
<1>4. PICK m \in S : m \in N
  BY <1>3
<1>5. m \in 0 .. m
  OBVIOUS
<1>. QED  BY <1>4, <1>5

(* The fair choice finds a lane as long as there is one. *)
LEMMA FairExists ==
  ASSUME NEW S \in SUBSET Lane, S # {}, NEW turn \in Int, NEW last
  PROVE  FairLanes(S, turn, last) # {}
<1>. DEFINE T == {Turn(l.actor, turn) : l \in S}
<1>1. T \in SUBSET Nat
  <2>1. \A l \in S : Turn(l.actor, turn) \in Nat
    BY TurnTyped DEF Lane
  <2>. QED  BY <2>1
<1>2. PICK t \in T : \A u \in T : t <= u
  <2>. HIDE DEF T
  <2>1. T # {}
    BY DEF T
  <2>. QED  BY <1>1, <2>1, Smallest
<1>3. PICK l \in S : Turn(l.actor, turn) = t
  BY <1>2
<1>. DEFINE C == {m.connection : m \in {x \in S : x.actor = l.actor}}
            E == {c \in C : c > last[l.actor]}
<1>4. C \in SUBSET Nat /\ C # {}
  BY GenerationsAssumption DEF Lane
<1>5. \E c \in C : \A d \in C : BeforeInActor(c, d, last[l.actor])
  <2>1. CASE E = {}
    <3>1. PICK c \in C : \A d \in C : c <= d
      <4>. HIDE DEF C
      <4>. QED  BY <1>4, Smallest
    <3>2. \A d \in C : ~(d > last[l.actor])
      BY <2>1
    <3>. HIDE DEF C, E
    <3>3. \A d \in C : BeforeInActor(c, d, last[l.actor])
      BY <3>1, <3>2 DEF BeforeInActor
    <3>. QED  BY <3>3
  <2>2. CASE E # {}
    <3>1. E \in SUBSET Nat
      BY <1>4
    <3>2. PICK c \in E : \A d \in E : c <= d
      <4>. HIDE DEF E
      <4>. QED  BY <2>2, <3>1, Smallest
    <3>3. c \in C /\ c > last[l.actor]
      BY <3>2
    <3>4. ASSUME NEW d \in C PROVE BeforeInActor(c, d, last[l.actor])
      <4>1. CASE d > last[l.actor]
        <5>1. d \in E
          BY <4>1
        <5>2. c <= d
          BY <3>2, <5>1
        <5>. QED  BY <3>3, <4>1, <5>2 DEF BeforeInActor
      <4>2. CASE ~(d > last[l.actor])
        BY <3>3, <4>2 DEF BeforeInActor
      <4>. QED  BY <4>1, <4>2
    <3>. QED  BY <3>3, <3>4
  <2>. QED  BY <2>1, <2>2
<1>6. PICK m \in S : m.actor = l.actor /\ \A d \in C : BeforeInActor(m.connection, d, last[l.actor])
  BY <1>5
<1>7. m \in FairLanes(S, turn, last)
  BY <1>2, <1>3, <1>6 DEF FairLanes, SameActor
<1>. QED  BY <1>7

LEMMA StartTyped ==
  ASSUME case \in Cases, NEW node \in Nodes
  PROVE  FairStart(node) \in Int
<1>1. Len(Names) \in Nat /\ Len(Names) > 0
  BY NamesAssumption, LenProperties
<1>2. CASE node = <<>>
  BY <1>2 DEF FairStart
<1>3. CASE node # <<>>
  <2>1. node \in Seq(Seq(Lane)) /\ Len(node) \in 1 .. Len(node)
    BY <1>3, HistoryShape, EmptySeq
  <2>. DEFINE d == Last(node)
  <2>2. d \in DecisionsOf(AvailableLanes(SubSeq(node, 1, Len(node) - 1)), Scenario[case].pairs)
    BY <2>1, DecisionTaken DEF Last
  <2>3. AvailableLanes(SubSeq(node, 1, Len(node) - 1)) \subseteq Lane
    <3>1. Len(node) - 1 \in 0 .. Len(node)
      BY <2>1
    <3>. QED  BY <3>1, HistoryShape
  <2>. HIDE DEF d
  <2>4. Last(d) \in Lane
    <3>1. (\E l \in Lane : d = <<l>>) \/ (\E l, m \in Lane : d = <<l, m>>)
      BY <2>2, <2>3 DEF DecisionsOf
    <3>. QED  BY <3>1 DEF Last
  <2>5. Position(Last(d).actor) \in Int
    <3>1. \E i \in 1 .. Len(Names) : Names[i] = Last(d).actor
      BY <2>4 DEF Lane, Actors
    <3>. QED  BY <1>1, <3>1 DEF Position
  <2>. QED  BY <1>1, <1>3, <2>5 DEF FairStart, d
<1>. QED  BY <1>2, <1>3

(* A run that has used up its plan goes on to its end. *)
LEMMA RunsOn ==
  ASSUME case \in Cases, NEW p \in Keys, NEW h \in Led(p), Len(p) <= Len(h)
  PROVE  Compatible(p) /\ Len(h) <= Len(Reached(p))
<1>. DEFINE x == Reached(p)
<1>1. x \in Led(p) /\ Len(h) <= Len(x) /\ \A g \in Led(p) : Len(g) <= Len(x)
  BY ReachedIsLongest
<1>2. /\ x \in Nodes /\ x \in Seq(Seq(Lane)) /\ Len(x) \in Nat /\ DOMAIN x = 1 .. Len(x)
      /\ AvailableLanes(x) \in SUBSET Lane /\ Len(p) \in Nat /\ Len(h) \in Nat
  BY <1>1, HistoryShape, LenProperties DEF Led, Keys
<1>. HIDE DEF x
<1>3. ASSUME AvailableLanes(x) # {} PROVE FALSE
  <2>1. FairLanes(AvailableLanes(x), FairStart(x), LastConnection(x)) # {}
    BY <1>2, <1>3, StartTyped, FairExists
  <2>2. PICK l \in FairLanes(AvailableLanes(x), FairStart(x), LastConnection(x)) : TRUE
    BY <2>1
  <2>3. l \in AvailableLanes(x) /\ <<l>> \in Fallback(x)
    BY DEF FairLanes, Fallback
  <2>. DEFINE y == Append(x, <<l>>)
  <2>4. y \in Nodes
    <3>1. <<l>> \in DecisionsOf(AvailableLanes(x), Scenario[case].pairs)
      BY <2>3 DEF DecisionsOf
    <3>. QED  BY <1>2, <3>1, DecisionAssumption DEF Nodes, AvailableLanes
  <2>5. /\ Len(y) = Len(x) + 1 /\ DOMAIN y = 1 .. Len(x) + 1 /\ y[Len(x) + 1] = <<l>>
        /\ \A i \in 1 .. Len(x) : y[i] = x[i]
        /\ \A i \in 1 .. Len(x) + 1 : SubSeq(y, 1, i - 1) = SubSeq(x, 1, i - 1)
    <3>1. <<l>> \in Seq(Lane)
      BY <1>2, <2>3
    <3>2. /\ y \in Seq(Seq(Lane)) /\ Len(y) = Len(x) + 1 /\ y[Len(x) + 1] = <<l>>
          /\ \A i \in 1 .. Len(x) : y[i] = x[i]
      BY <1>2, <3>1, AppendProperties
    <3>. HIDE DEF y
    <3>3. DOMAIN y = 1 .. Len(x) + 1
      BY <3>2
    <3>4. ASSUME NEW i \in 1 .. Len(x) + 1 PROVE SubSeq(y, 1, i - 1) = SubSeq(x, 1, i - 1)
      <4>1. i - 1 <= Len(x) /\ i - 1 <= Len(y) /\ i - 1 \in Nat
        BY <1>2, <3>2
      <4>2. \A j \in 1 .. i - 1 : y[j] = x[j]
        BY <1>2, <3>2, <4>1
      <4>. QED  BY <1>2, <3>2, <4>1, <4>2
    <3>. QED  BY <3>2, <3>3, <3>4
  <2>. HIDE DEF y
  <2>6. ASSUME NEW i \in DOMAIN y PROVE y[i] \in Following(p, SubSeq(y, 1, i - 1))
    <3>1. CASE i \in 1 .. Len(x)
      BY <1>1, <1>2, <2>5, <3>1 DEF Led
    <3>2. CASE i = Len(x) + 1
      <4>1. SubSeq(y, 1, i - 1) = x
        <5>1. SubSeq(x, 1, Len(x)) = x /\ i - 1 = Len(x)
          BY <1>2, <3>2
        <5>. QED  BY <2>5, <5>1
      <4>2. Following(p, x) = Fallback(x)
        BY <1>1, <1>2 DEF Following
      <4>. QED  BY <2>3, <2>5, <3>2, <4>1, <4>2
    <3>. QED  BY <1>2, <2>5, <3>1, <3>2
  <2>7. y \in Led(p)
    BY <2>4, <2>6 DEF Led
  <2>. QED  BY <1>1, <1>2, <2>5, <2>7
<1>4. x \in Histories
  BY <1>2, <1>3 DEF Histories
<1>. QED  BY <1>1, <1>2, <1>4 DEF Compatible, x

(* A decision between lanes that can proceed is one of those the search    *)
(* branches to.                                                            *)
LEMMA DecisionIsChoice ==
  ASSUME NEW node, NEW multi, NEW d \in DecisionsOf(AvailableLanes(node), Scenario[case].pairs),
         Len(d) = 2 => Before(d[1], d[2])
  PROVE  Choice(d, multi) \in DecisionChoices(node, multi)
<1>. DEFINE lanes == AvailableLanes(node)
            ordered == {q \in lanes \X lanes : Before(q[1], q[2])}
<1>1. CASE \E l \in lanes : d = <<l>>
  BY <1>1 DEF DecisionChoices
<1>2. CASE Scenario[case].pairs /\ \E l, m \in lanes : d = <<l, m>>
  <2>1. PICK l \in lanes, m \in lanes : d = <<l, m>>
    BY <1>2
  <2>2. Len(d) = 2 /\ d[1] = l /\ d[2] = m /\ d = <<d[1], d[2]>>
    BY <2>1
  <2>3. d \in ordered
    BY <2>1, <2>2
  <2>4. \E p \in ordered : Choice(d, multi) = Choice(<<p[1], p[2]>>, multi)
    BY <2>2, <2>3
  <2>. HIDE DEF ordered
  <2>5. Choice(d, multi) \in {Choice(<<p[1], p[2]>>, multi) : p \in ordered}
    BY <2>4
  <2>. QED  BY <1>2, <2>5 DEF DecisionChoices, ordered, lanes
<1>. QED  BY <1>1, <1>2 DEF DecisionsOf

(* Where a schedule leaves a run, a key of the run leads along the schedule *)
(* one decision further.                                                   *)
LEMMA Deviation ==
  ASSUME case \in Cases, NEW g \in Histories, NEW h \in Schedules, NEW n \in Nat,
         n < Len(h), n <= Len(g), \A i \in 1 .. n : g[i] = h[i]
  PROVE  /\ n < Len(g)
         /\ \/ g[n + 1] = h[n + 1]
            \/ \E key \in KeysAt(g, n + 1) :
                 /\ key \in Keys /\ Compatible(key) /\ n + 1 <= Len(Reached(key))
                 /\ \A i \in 1 .. n + 1 : Reached(key)[i] = h[i]
<1>. DEFINE node == SubSeq(g, 1, n)
            multi == MultiLane(g)
            d == h[n + 1]
            choices == ChoicesOf(g)
            key == Append(SubSeq(choices, 1, n), Choice(d, multi))
            y == SubSeq(h, 1, n + 1)
<1>1. /\ g \in Nodes /\ g \in Seq(Seq(Lane)) /\ Len(g) \in Nat /\ AvailableLanes(g) = {}
      /\ h \in Nodes /\ h \in Seq(Seq(Lane)) /\ Len(h) \in Nat
      /\ DOMAIN g = 1 .. Len(g) /\ DOMAIN h = 1 .. Len(h)
  BY HistoryShape DEF Schedules, Histories
<1>2. /\ n \in 0 .. Len(g) /\ n + 1 \in 1 .. Len(h) /\ (n + 1) - 1 = n /\ n + 1 \in 0 .. Len(h)
      /\ 1 .. n \subseteq DOMAIN g /\ 1 .. n \subseteq DOMAIN h
  BY <1>1
<1>3. node = SubSeq(h, 1, n)
  BY <1>1, <1>2
<1>4. d \in DecisionsOf(AvailableLanes(node), Scenario[case].pairs)
  BY <1>1, <1>2, <1>3, DecisionTaken
<1>5. n < Len(g)
  <2>1. ASSUME n = Len(g) PROVE FALSE
    <3>1. node = g
      BY <1>1, <2>1
    <3>2. AvailableLanes(node) = {}
      BY <1>1, <3>1
    <3>. QED  BY <1>4, <3>2 DEF DecisionsOf
  <2>2. Len(g) \in Nat
    BY <1>1
  <2>. HIDE DEF node, d, multi, choices
  <2>. QED  BY <2>1, <2>2
<1>6. ASSUME g[n + 1] # d
      PROVE  \E k \in KeysAt(g, n + 1) :
                 /\ k \in Keys /\ Compatible(k) /\ n + 1 <= Len(Reached(k))
                 /\ \A i \in 1 .. n + 1 : Reached(k)[i] = h[i]
  <2>1. n + 1 \in 1 .. Len(g) /\ g[n + 1] \in DecisionsOf(AvailableLanes(node), Scenario[case].pairs)
    <3>1. n + 1 \in 1 .. Len(g)
      BY <1>1, <1>5
    <3>. QED  BY <1>1, <1>2, <3>1, DecisionTaken
  <2>2. Resolved(Choice(d, multi), node) = {d}
    BY <1>2, <1>4, NameResolves
  <2>3. Resolved(choices[n + 1], node) = {g[n + 1]}
    BY <1>2, <2>1, ChoiceResolves
  <2>4. Choice(d, multi) \in DecisionChoices(node, multi) \ {choices[n + 1]}
    <3>1. Len(d) = 2 => Before(d[1], d[2])
      BY <1>1, <1>2 DEF Schedules
    <3>2. Choice(d, multi) \in DecisionChoices(node, multi)
      BY <1>4, <3>1, DecisionIsChoice
    <3>3. Choice(d, multi) # choices[n + 1]
      BY <1>6, <2>2, <2>3
    <3>. QED  BY <3>2, <3>3
  <2>5. key \in KeysAt(g, n + 1)
    <3>. HIDE DEF d
    <3>. QED  BY <1>2, <2>4 DEF KeysAt
  <2>6. choices \in Keys /\ Len(choices) = Len(g) /\ choices \in Seq(Seq(Entry))
    BY <1>1, ChoicesAreKey DEF Keys
  <2>7. key \in Keys
    BY <1>1, <2>1, <2>5, KeysShape
  <2>8. Len(key) = n + 1 /\ key[n + 1] = Choice(d, multi) /\ \A i \in 1 .. n : key[i] = choices[i]
    <3>. DEFINE prefix == SubSeq(choices, 1, n)
    <3>1. \A i \in 1 .. n : choices[i] \in Seq(Entry)
      BY <1>1, <1>2, <2>6
    <3>2. prefix \in Seq(Seq(Entry)) /\ Len(prefix) = n /\ \A i \in 1 .. n : prefix[i] = choices[i]
      BY <1>2, <2>6, <3>1, SubSeqProperties
    <3>3. Choice(d, multi) \in Seq(Entry)
      <4>1. d \in Seq(Lane)
        BY <1>1, <1>2
      <4>. QED  BY <4>1, ChoiceIsChoice
    <3>. HIDE DEF prefix, choices, d, multi
    <3>4. /\ Len(Append(prefix, Choice(d, multi))) = n + 1
          /\ Append(prefix, Choice(d, multi))[n + 1] = Choice(d, multi)
          /\ \A i \in 1 .. n : Append(prefix, Choice(d, multi))[i] = prefix[i]
      BY <3>2, <3>3, AppendProperties
    <3>. QED  BY <3>2, <3>4 DEF prefix
  <2>9. /\ y \in Nodes /\ Len(y) = n + 1 /\ DOMAIN y = 1 .. n + 1
        /\ \A i \in 1 .. n + 1 : y[i] = h[i]
        /\ \A i \in 1 .. n + 1 : SubSeq(y, 1, i - 1) = SubSeq(g, 1, i - 1)
    <3>1. y \in Nodes
      BY <1>1, <1>2, HistoryShape
    <3>2. y \in Seq(Seq(Lane)) /\ Len(y) = n + 1 /\ \A i \in 1 .. n + 1 : y[i] = h[i]
      <4>1. \A i \in 1 .. n + 1 : h[i] \in Seq(Lane)
        BY <1>1, <1>2
      <4>. QED  BY <1>1, <1>2, <4>1, SubSeqProperties
    <3>. HIDE DEF y
    <3>3. DOMAIN y = 1 .. n + 1
      BY <3>2
    <3>4. ASSUME NEW i \in 1 .. n + 1 PROVE SubSeq(y, 1, i - 1) = SubSeq(g, 1, i - 1)
      <4>1. i - 1 <= Len(g) /\ i - 1 <= Len(y) /\ i - 1 \in Nat
        BY <1>1, <1>2, <3>2
      <4>2. \A j \in 1 .. i - 1 : y[j] = g[j]
        BY <1>1, <1>2, <3>2, <4>1
      <4>. QED  BY <1>1, <3>2, <4>1, <4>2
    <3>. QED  BY <3>1, <3>2, <3>3, <3>4
  <2>. HIDE DEF key, y, d, choices, multi
  <2>10. ASSUME NEW i \in 1 .. n + 1
         PROVE  Following(key, SubSeq(y, 1, i - 1)) = {y[i]}
    <3>1. Len(SubSeq(g, 1, i - 1)) = i - 1 /\ i - 1 < Len(key) /\ (i - 1) + 1 = i
      <4>1. i - 1 \in 0 .. Len(g) /\ i \in Nat
        BY <1>1, <1>2, <1>5
      <4>2. \A j \in 1 .. i - 1 : g[j] \in Seq(Lane)
        BY <1>1, <4>1
      <4>. QED  BY <1>1, <1>2, <2>8, <4>1, <4>2, SubSeqProperties
    <3>2. Following(key, SubSeq(g, 1, i - 1)) = Resolved(key[i], SubSeq(g, 1, i - 1))
      BY <3>1 DEF Following
    <3>3. CASE i = n + 1
      BY <1>2, <2>2, <2>8, <2>9, <3>2, <3>3 DEF d
    <3>4. CASE i \in 1 .. n
      <4>1. i \in 1 .. Len(g)
        BY <1>1, <1>2, <3>4
      <4>2. Resolved(choices[i], SubSeq(g, 1, i - 1)) = {g[i]}
        BY <4>1, ChoiceResolves DEF choices
      <4>. QED  BY <2>8, <2>9, <3>2, <3>4, <4>2
    <3>. QED  BY <3>3, <3>4
  <2>11. y \in Led(key)
    BY <2>9, <2>10 DEF Led
  <2>12. Compatible(key) /\ n + 1 <= Len(Reached(key))
    BY <2>7, <2>8, <2>9, <2>11, RunsOn
  <2>13. Reached(key) \in Led(key) /\ Reached(key) \in Nodes
    BY ReachedIsLongest DEF Led
  <2>14. \A i \in 1 .. n + 1 : Reached(key)[i] = h[i]
    <3>1. \A i \in 1 .. Len(Reached(key)) : i <= Len(y) => Reached(key)[i] = y[i]
      BY <2>9, <2>10, <2>13, Forced
    <3>2. Len(Reached(key)) \in Nat
      BY <2>13, HistoryShape
    <3>3. \A i \in 1 .. n + 1 : i \in 1 .. Len(Reached(key)) /\ i <= Len(y)
      BY <2>9, <2>12, <3>2
    <3>. QED  BY <2>9, <3>1, <3>3
  <2>. QED  BY <2>5, <2>7, <2>12, <2>14
<1>. QED  BY <1>5, <1>6

-----------------------------------------------------------------------------
(***************************************************************************)
(* The search.                                                             *)
(***************************************************************************)
SearchTyped ==
  /\ case \in Cases /\ limits \in Limits[case]
  /\ pc \in {"search", "running", "branch", "done"} /\ signal \in {"none", "deadline", "aborted"}
  /\ seen \subseteq Keys /\ IsFiniteSet(seen)
  /\ frontier \in Seq(Keys) /\ Range(frontier) \subseteq seen
  /\ IsFiniteSet(runs) /\ \A r \in runs : r.plan \in seen /\ r.size \in Nat
  /\ attempted \in 0 .. limits.maxRuns
  /\ index \in Nat /\ violations \in Nat /\ hard \in Nat /\ omitted \in Nat /\ bytes \in Nat

(* The plan that runs left the frontier and has no result yet; a run that  *)
(* is branched on is a history with `index` decisions left.                *)
Underway ==
  /\ pc = "running" =>
       current \in seen /\ current \notin Range(frontier) /\ \A r \in runs : r.plan # current
  /\ pc = "branch" => current \in Nodes /\ index \in 0 .. Len(current)

KeptBytes == SumFunction([key \in seen |-> KeyBytes(key)]) + SumFunction([r \in runs |-> r.size])

Retained ==
  /\ bytes <= limits.maxBytes
  /\ bytes = KeptBytes \/ (bytes = 0 /\ pc = "done")

SearchKept == SearchTyped /\ Underway /\ EachKeyOnce /\ Retained

LEMMA LimitsTyped ==
  ASSUME case \in Cases, limits \in Limits[case]
  PROVE  /\ limits.maxRuns \in Nat /\ limits.maxCandidates \in Nat
         /\ limits.maxBytes \in Nat /\ limits.maxAttempts \in Nat
  BY OptionsAssumption

LEMMA KeyBytesTyped == \A key \in Keys : KeyBytes(key) \in Nat
  BY DEF KeyBytes, Keys

LEMMA SumsTyped ==
  ASSUME SearchTyped
  PROVE  /\ SumFunction([key \in seen |-> KeyBytes(key)]) \in Nat
         /\ SumFunction([r \in runs |-> r.size]) \in Nat
         /\ KeptBytes \in Nat
<1>. DEFINE f == [key \in seen |-> KeyBytes(key)]
            g == [r \in runs |-> r.size]
<1>1. /\ DOMAIN f = seen /\ \A x \in DOMAIN f : f[x] \in Nat
      /\ DOMAIN g = runs /\ \A x \in DOMAIN g : g[x] \in Nat
      /\ IsFiniteSet(seen) /\ IsFiniteSet(runs)
  BY KeyBytesTyped DEF SearchTyped
<1>. HIDE DEF f, g
<1>2. SumFunction(f) \in Nat /\ SumFunction(g) \in Nat
  BY <1>1, SumIsNat DEF SumFunction
<1>. QED  BY <1>2 DEF f, g, KeptBytes

LEMMA SearchInit ==
  ASSUME Init
  PROVE  SearchKept
<1>1. case \in Cases /\ limits \in Limits[case] /\ initial \in Keys
  BY OptionsAssumption DEF Init, Keys
<1>2. /\ frontier = <<initial>> /\ seen = {initial} /\ runs = {} /\ attempted = 0
      /\ frontier \in Seq(Keys) /\ Range(frontier) = {initial} /\ IsInjective(frontier) /\ Len(frontier) = 1
  BY <1>1 DEF Init, Range, IsInjective
<1>3. IsFiniteSet(seen) /\ Cardinality(seen) = 1 /\ IsFiniteSet(runs)
  BY <1>2, FS_Singleton, FS_EmptySet
<1>4. KeyBytes(initial) \in Nat /\ limits.maxRuns \in Nat /\ limits.maxBytes \in Nat
  BY <1>1, KeyBytesTyped, LimitsTyped
<1>5. SearchTyped
  BY <1>1, <1>2, <1>3, <1>4 DEF Init, SearchTyped
<1>6. Underway
  BY DEF Init, Underway
<1>7. EachKeyOnce
  BY <1>2, <1>3 DEF EachKeyOnce
<1>8. KeptBytes = KeyBytes(initial)
  <2>. DEFINE f == [key \in {} |-> 0]
              g == [key \in seen |-> KeyBytes(key)]
              h == [r \in runs |-> r.size]
  <2>1. SumFunction(f) = 0 /\ SumFunction(h) = 0
    BY <1>2, SumEmpty DEF SumFunction
  <2>2. SumFunction(g) = SumFunction(f) + g[initial]
    <3>1. /\ IsFiniteSet(DOMAIN f) /\ initial \notin DOMAIN f /\ DOMAIN g = DOMAIN f \union {initial}
          /\ \A y \in DOMAIN f : g[y] = f[y]
          /\ \A y \in DOMAIN g : g[y] \in Nat
      BY <1>2, <1>4, FS_EmptySet
    <3>. HIDE DEF f, g
    <3>. QED  BY <3>1, SumAdds
  <2>3. g[initial] = KeyBytes(initial)
    BY <1>2
  <2>. QED  BY <1>4, <2>1, <2>2, <2>3 DEF KeptBytes
<1>9. Retained
  BY <1>4, <1>8 DEF Init, Retained
<1>. QED  BY <1>5, <1>6, <1>7, <1>9 DEF SearchKept

LEMMA ReductionStarts ==
  ASSUME MinimizeInit
  PROVE  SearchKept
<1>1. case \in Cases /\ limits \in Limits[case] /\ limits.maxRuns \in Nat /\ limits.maxBytes \in Nat
  BY LimitsTyped DEF MinimizeInit
<1>2. /\ frontier = <<>> /\ frontier \in Seq(Keys) /\ Range(frontier) = {} /\ IsInjective(frontier)
      /\ Len(frontier) = 0 /\ IsFiniteSet({}) /\ Cardinality({}) = 0
  BY FS_EmptySet DEF MinimizeInit, Range, IsInjective
<1>3. SearchTyped
  BY <1>1, <1>2 DEF MinimizeInit, SearchTyped
<1>4. EachKeyOnce
  BY <1>2 DEF MinimizeInit, EachKeyOnce
<1>. QED  BY <1>1, <1>3, <1>4 DEF MinimizeInit, SearchKept, Underway, Retained

(* Steps that end the search, or go on to its next part. *)
LEMMA TurnsKeep ==
  ASSUME SearchKept, Conclude \/ StopAtHead \/ StopBranching \/ Branched
  PROVE  SearchKept'
<1>0. SearchTyped /\ Underway /\ EachKeyOnce /\ Retained
  BY DEF SearchKept
<1>1. /\ UNCHANGED <<job, signal, frontier, seen, current, index, attempted, tally, bytes>>
      /\ pc' \in {"search", "done"} /\ pc # "done"
  BY DEF Conclude, StopAtHead, StopBranching, Branched, StopSearch, Budget
<1>2. SearchTyped'
  BY <1>0, <1>1 DEF SearchTyped, job, tally
<1>3. Underway'
  BY <1>1 DEF Underway
<1>4. EachKeyOnce'
  BY <1>0, <1>1 DEF EachKeyOnce, tally
<1>5. Retained'
  BY <1>0, <1>1 DEF Retained, KeptBytes, tally, job
<1>. QED  BY <1>2, <1>3, <1>4, <1>5 DEF SearchKept

LEMMA RemovedOnce ==
  ASSUME NEW S, NEW s \in Seq(S), IsInjective(s), NEW i \in DOMAIN s
  PROVE  /\ RemoveAt(s, i) \in Seq(S) /\ Len(RemoveAt(s, i)) = Len(s) - 1
         /\ IsInjective(RemoveAt(s, i)) /\ Range(RemoveAt(s, i)) = Range(s) \ {s[i]}
<1>. DEFINE a == SubSeq(s, 1, i - 1)
            b == SubSeq(s, i + 1, Len(s))
            t == a \o b
<1>0. Len(s) \in Nat /\ DOMAIN s = 1 .. Len(s) /\ i \in 1 .. Len(s)
  BY LenProperties
<1>1. a \in Seq(S) /\ Len(a) = i - 1 /\ \A j \in 1 .. i - 1 : a[j] = s[j]
  <2>1. \A j \in 1 .. i - 1 : s[j] \in S
    BY <1>0
  <2>. QED  BY <1>0, <2>1, SubSeqProperties
<1>2. b \in Seq(S) /\ Len(b) = Len(s) - i /\ \A j \in 1 .. Len(s) - i : b[j] = s[i + j]
  <2>1. \A j \in i + 1 .. Len(s) : s[j] \in S
    BY <1>0
  <2>2. /\ b \in Seq(S)
        /\ Len(b) = IF i + 1 <= Len(s) THEN Len(s) - (i + 1) + 1 ELSE 0
        /\ \A j \in 1 .. Len(s) - (i + 1) + 1 : b[j] = s[(i + 1) + j - 1]
    BY <1>0, <2>1, SubSeqProperties
  <2>3. Len(b) = Len(s) - i
    BY <1>0, <2>2
  <2>4. \A j \in 1 .. Len(s) - i : b[j] = s[i + j]
    BY <1>0, <2>2
  <2>. QED  BY <2>2, <2>3, <2>4
<1>. HIDE DEF a, b
<1>3. t \in Seq(S) /\ Len(t) = Len(s) - 1
  <2>1. t \in Seq(S) /\ Len(t) = Len(a) + Len(b)
    BY <1>1, <1>2, ConcatProperties
  <2>. HIDE DEF t
  <2>. QED  BY <1>0, <1>1, <1>2, <2>1
<1>4. DOMAIN t = 1 .. Len(s) - 1
  BY <1>3, LenProperties
<1>5. \A j \in 1 .. Len(s) - 1 : t[j] = IF j < i THEN s[j] ELSE s[j + 1]
  <2>1. \A j \in 1 .. Len(a) + Len(b) : t[j] = IF j <= Len(a) THEN a[j] ELSE b[j - Len(a)]
    BY <1>1, <1>2, ConcatProperties
  <2>. SUFFICES ASSUME NEW j \in 1 .. Len(s) - 1
                PROVE  t[j] = IF j < i THEN s[j] ELSE s[j + 1]
    OBVIOUS
  <2>2. t[j] = IF j <= i - 1 THEN a[j] ELSE b[j - (i - 1)]
    BY <1>0, <1>1, <1>2, <2>1
  <2>3. CASE j < i
    BY <1>0, <1>1, <2>2, <2>3
  <2>4. CASE ~(j < i)
    <3>1. j - (i - 1) \in 1 .. Len(s) - i /\ i + (j - (i - 1)) = j + 1
      BY <1>0, <2>4
    <3>2. b[j - (i - 1)] = s[j + 1]
      BY <1>2, <3>1
    <3>. QED  BY <1>0, <2>2, <2>4, <3>2
  <2>. QED  BY <2>3, <2>4
<1>. HIDE DEF t
<1>6. IsInjective(t)
  <2>. SUFFICES ASSUME NEW j \in 1 .. Len(s) - 1, NEW k \in 1 .. Len(s) - 1, t[j] = t[k]
                PROVE  j = k
    BY <1>4 DEF IsInjective
  <2>1. \A x, y \in 1 .. Len(s) : s[x] = s[y] => x = y
    BY <1>0 DEF IsInjective
  <2>2. /\ j \in 1 .. Len(s) /\ j + 1 \in 1 .. Len(s)
        /\ k \in 1 .. Len(s) /\ k + 1 \in 1 .. Len(s)
    BY <1>0
  <2>. QED  BY <1>0, <1>5, <2>1, <2>2
<1>7. Range(t) \subseteq Range(s) \ {s[i]}
  BY <1>0, <1>4, <1>5 DEF Range, IsInjective
<1>8. ASSUME NEW x \in Range(s) \ {s[i]} PROVE x \in Range(t)
  <2>1. PICK k \in 1 .. Len(s) : x = s[k] /\ k # i
    BY <1>0 DEF Range
  <2>2. CASE k < i
    <3>1. k \in 1 .. Len(s) - 1 /\ t[k] = x
      BY <1>0, <1>5, <2>1, <2>2
    <3>. QED  BY <1>4, <3>1 DEF Range
  <2>3. CASE k > i
    <3>1. k - 1 \in 1 .. Len(s) - 1 /\ ~(k - 1 < i) /\ (k - 1) + 1 = k
      BY <1>0, <2>1, <2>3
    <3>2. t[k - 1] = x
      BY <1>5, <2>1, <3>1
    <3>. QED  BY <1>4, <3>1, <3>2 DEF Range
  <2>. QED  BY <1>0, <2>1, <2>2, <2>3
<1>9. RemoveAt(s, i) = t
  BY DEF RemoveAt, t, a, b
<1>. QED  BY <1>3, <1>6, <1>7, <1>8, <1>9

LEMMA DispatchKeeps ==
  ASSUME SearchKept, NEW i \in DOMAIN frontier, Dispatch(i)
  PROVE  SearchKept'
<1>0. SearchTyped /\ Underway /\ EachKeyOnce /\ Retained
  BY DEF SearchKept
<1>1. /\ UNCHANGED <<job, signal, seen, index, tally, bytes>>
      /\ pc' = "running" /\ attempted' = attempted + 1 /\ attempted < limits.maxRuns
      /\ current' = frontier[i] /\ frontier' = RemoveAt(frontier, i)
  BY DEF Dispatch, Budget
<1>2. /\ frontier' \in Seq(Keys) /\ Len(frontier') = Len(frontier) - 1
      /\ IsInjective(frontier') /\ Range(frontier') = Range(frontier) \ {frontier[i]}
  BY <1>0, <1>1, RemovedOnce DEF SearchTyped, EachKeyOnce
<1>3. frontier[i] \in Range(frontier) /\ limits.maxRuns \in Nat
  BY <1>0, LimitsTyped DEF Range, SearchTyped
<1>4. SearchTyped'
  BY <1>0, <1>1, <1>2, <1>3 DEF SearchTyped, job, tally
<1>5. Underway'
  BY <1>0, <1>1, <1>2, <1>3 DEF Underway, SearchTyped, EachKeyOnce, tally
<1>6. EachKeyOnce'
  <2>1. Len(frontier) \in Nat /\ attempted \in Nat
    BY <1>0 DEF SearchTyped
  <2>. QED  BY <1>0, <1>1, <1>2, <2>1 DEF EachKeyOnce, tally
<1>7. Retained'
  BY <1>0, <1>1 DEF Retained, KeptBytes, tally, job, Dispatch
<1>. QED  BY <1>4, <1>5, <1>6, <1>7 DEF SearchKept

LEMMA RunKeeps ==
  ASSUME SearchKept, NEW r \in Results(current), NEW size \in RunSizes, RunReturns(r, size)
  PROVE  SearchKept'
<1>0. SearchTyped /\ Underway /\ EachKeyOnce /\ Retained
  BY DEF SearchKept
<1>. DEFINE run == [plan |-> current, result |-> r, size |-> size]
<1>1. /\ UNCHANGED <<job, signal, frontier, seen, attempted>> /\ pc = "running"
      /\ violations' \in Nat /\ hard' \in Nat /\ size \in Nat
  BY <1>0, OptionsAssumption DEF RunReturns, Budget, SearchTyped
<1>2. r.history \in Nodes /\ Len(r.history) \in Nat
  <2>1. r.history \in Nodes
    BY <1>0, ResultIsNode DEF SearchTyped
  <2>. QED  BY <1>0, <2>1, ScenarioAssumption DEF Nodes, SearchTyped
<1>3. limits.maxBytes \in Nat /\ KeptBytes \in Nat
  BY <1>0, LimitsTyped, SumsTyped DEF SearchTyped
<1>4. CASE bytes + size > limits.maxBytes
  <2>1. /\ omitted' = omitted + 1 /\ pc' = "done" /\ UNCHANGED <<bytes, runs, current, index>>
    BY <1>4 DEF RunReturns, StopSearch
  <2>2. SearchTyped'
    BY <1>0, <1>1, <2>1 DEF SearchTyped, job
  <2>3. Underway' /\ EachKeyOnce'
    BY <1>0, <1>1, <2>1 DEF Underway, EachKeyOnce
  <2>4. Retained'
    BY <1>0, <1>1, <2>1 DEF Retained, KeptBytes, job
  <2>. QED  BY <2>2, <2>3, <2>4 DEF SearchKept
<1>5. CASE ~(bytes + size > limits.maxBytes)
  <2>1. /\ bytes' = bytes + size /\ omitted' = omitted /\ runs' = runs \union {run}
        /\ \/ pc' = "done" /\ UNCHANGED <<current, index>>
           \/ pc' = "branch" /\ current' = r.history /\ index' = Len(r.history)
    BY <1>5 DEF RunReturns, StopSearch, LatestDecision
  <2>2. current \in seen /\ current \notin Range(frontier) /\ run \notin runs
    BY <1>0, <1>1 DEF Underway
  <2>3. SearchTyped'
    <3>1. IsFiniteSet(runs')
      BY <1>0, <2>1, FS_AddElement DEF SearchTyped
    <3>. QED  BY <1>0, <1>1, <1>2, <2>1, <2>2, <3>1 DEF SearchTyped, job
  <2>4. Underway'
    BY <1>1, <1>2, <2>1 DEF Underway, Nodes, job
  <2>5. EachKeyOnce'
    BY <1>0, <1>1, <2>1, <2>2 DEF EachKeyOnce
  <2>6. KeptBytes' = KeptBytes + size
    <3>. DEFINE f == [x \in runs |-> x.size]
                g == [x \in runs' |-> x.size]
    <3>1. /\ DOMAIN f = runs /\ IsFiniteSet(DOMAIN f) /\ run \notin DOMAIN f
          /\ DOMAIN g = DOMAIN f \union {run}
          /\ \A y \in DOMAIN f : g[y] = f[y]
          /\ \A y \in DOMAIN g : g[y] \in Nat
          /\ g[run] = size
      BY <1>0, <1>1, <2>1, <2>2 DEF SearchTyped
    <3>. HIDE DEF f, g
    <3>2. SumFunction(g) = SumFunction(f) + size /\ SumFunction(f) \in Nat
      BY <3>1, SumAdds
    <3>3. SumFunction([key \in seen |-> KeyBytes(key)]) \in Nat
      BY <1>0, SumsTyped
    <3>4. KeptBytes = SumFunction([key \in seen |-> KeyBytes(key)]) + SumFunction(f)
      BY DEF KeptBytes, f
    <3>5. KeptBytes' = SumFunction([key \in seen |-> KeyBytes(key)]) + SumFunction(g)
      BY <1>1 DEF KeptBytes, g
    <3>. QED  BY <1>1, <3>2, <3>3, <3>4, <3>5
  <2>7. Retained'
    BY <1>0, <1>1, <1>3, <1>5, <2>1, <2>6 DEF Retained, job, SearchTyped
  <2>. QED  BY <2>3, <2>4, <2>5, <2>7 DEF SearchKept
<1>. QED  BY <1>4, <1>5

(* A sequence goes on with the first n of others that it does not hold. *)
Joinable(S, s, u, n) ==
  /\ s \in Seq(S) /\ u \in Seq(S) /\ n \in 0 .. Len(u)
  /\ IsInjective(s) /\ IsInjective(u) /\ \A k \in DOMAIN u : u[k] \notin Range(s)

LEMMA JoinedOnce ==
  ASSUME NEW S, NEW s, NEW u, NEW n, Joinable(S, s, u, n)
  PROVE  LET t == s \o SubSeq(u, 1, n)
         IN  /\ t \in Seq(S) /\ Len(t) = Len(s) + n /\ IsInjective(t)
             /\ Range(t) = Range(s) \union {u[k] : k \in 1 .. n}
<1>. USE DEF Joinable
<1>. DEFINE v == SubSeq(u, 1, n)
            t == s \o v
<1>0. Len(s) \in Nat /\ DOMAIN s = 1 .. Len(s) /\ Len(u) \in Nat /\ DOMAIN u = 1 .. Len(u) /\ n \in Nat
  BY LenProperties
<1>1. v \in Seq(S) /\ Len(v) = n /\ \A k \in 1 .. n : v[k] = u[k]
  <2>1. \A k \in 1 .. n : u[k] \in S
    BY <1>0
  <2>. QED  BY <1>0, <2>1, SubSeqProperties
<1>. HIDE DEF v
<1>2. /\ t \in Seq(S) /\ Len(t) = Len(s) + n
      /\ \A k \in 1 .. Len(s) + n : t[k] = IF k <= Len(s) THEN s[k] ELSE v[k - Len(s)]
  <2>1. /\ t \in Seq(S) /\ Len(t) = Len(s) + Len(v)
        /\ \A k \in 1 .. Len(s) + Len(v) : t[k] = IF k <= Len(s) THEN s[k] ELSE v[k - Len(s)]
    BY <1>1, ConcatProperties
  <2>. HIDE DEF t
  <2>. QED  BY <1>1, <2>1
<1>3. DOMAIN t = 1 .. Len(s) + n
  BY <1>2, LenProperties
<1>. HIDE DEF t
<1>4. /\ \A k \in 1 .. Len(s) : k \in DOMAIN t /\ t[k] = s[k]
      /\ \A k \in 1 .. n : Len(s) + k \in DOMAIN t /\ t[Len(s) + k] = u[k]
  <2>1. ASSUME NEW k \in 1 .. n PROVE Len(s) + k \in DOMAIN t /\ t[Len(s) + k] = u[k]
    <3>1. Len(s) + k \in 1 .. Len(s) + n /\ ~(Len(s) + k <= Len(s)) /\ (Len(s) + k) - Len(s) = k
      BY <1>0
    <3>. QED  BY <1>1, <1>2, <1>3, <3>1
  <2>2. ASSUME NEW k \in 1 .. Len(s) PROVE k \in DOMAIN t /\ t[k] = s[k]
    <3>1. k \in 1 .. Len(s) + n /\ k <= Len(s)
      BY <1>0
    <3>. QED  BY <1>2, <1>3, <3>1
  <2>. QED  BY <2>1, <2>2
<1>5. ASSUME NEW j \in DOMAIN t
      PROVE  j \in 1 .. Len(s) \/ \E k \in 1 .. n : j = Len(s) + k
  <2>1. CASE j > Len(s)
    <3>1. j - Len(s) \in 1 .. n /\ j = Len(s) + (j - Len(s))
      BY <1>0, <1>3, <2>1
    <3>. QED  BY <3>1
  <2>. QED  BY <1>0, <1>3, <2>1
<1>6. IsInjective(t)
  <2>. SUFFICES ASSUME NEW i \in DOMAIN t, NEW j \in DOMAIN t, t[i] = t[j]
                PROVE  i = j
    BY DEF IsInjective
  <2>1. CASE i \in 1 .. Len(s) /\ j \in 1 .. Len(s)
    BY <1>0, <1>4, <2>1 DEF IsInjective
  <2>2. \A x \in 1 .. Len(s), k \in 1 .. n : s[x] # u[k]
    BY <1>0 DEF Range
  <2>3. CASE i \in 1 .. Len(s) /\ j \notin 1 .. Len(s)
    <3>1. PICK k \in 1 .. n : j = Len(s) + k
      BY <1>5, <2>3
    <3>2. t[i] = s[i] /\ t[j] = u[k]
      BY <1>4, <2>3, <3>1
    <3>. QED  BY <2>2, <2>3, <3>2
  <2>4. CASE i \notin 1 .. Len(s) /\ j \in 1 .. Len(s)
    <3>1. PICK k \in 1 .. n : i = Len(s) + k
      BY <1>5, <2>4
    <3>2. t[j] = s[j] /\ t[i] = u[k]
      BY <1>4, <2>4, <3>1
    <3>. QED  BY <2>2, <2>4, <3>2
  <2>5. CASE i \notin 1 .. Len(s) /\ j \notin 1 .. Len(s)
    <3>1. PICK x \in 1 .. n, y \in 1 .. n : i = Len(s) + x /\ j = Len(s) + y
      BY <1>5, <2>5
    <3>2. u[x] = u[y] /\ x \in DOMAIN u /\ y \in DOMAIN u
      BY <1>0, <1>4, <3>1
    <3>. QED  BY <3>1, <3>2 DEF IsInjective
  <2>. QED  BY <2>1, <2>3, <2>4, <2>5
<1>7. Range(t) = Range(s) \union {u[k] : k \in 1 .. n}
  <2>1. \A x \in Range(s) : x \in Range(t)
    BY <1>0, <1>4 DEF Range
  <2>2. \A k \in 1 .. n : u[k] \in Range(t)
    BY <1>4 DEF Range
  <2>3. ASSUME NEW j \in DOMAIN t PROVE t[j] \in Range(s) \union {u[k] : k \in 1 .. n}
    BY <1>0, <1>4, <1>5 DEF Range
  <2>4. \A x \in Range(t) : x \in Range(s) \union {u[k] : k \in 1 .. n}
    BY <2>3 DEF Range
  <2>. QED  BY <2>1, <2>2, <2>4
<1>. QED  BY <1>2, <1>6, <1>7 DEF t, v

(* Branching adds keys to the frontier, and goes on only with all keys of  *)
(* the decision seen.                                                      *)
Joining ==
  /\ seen \subseteq seen' /\ Range(frontier) \subseteq Range(frontier')
  /\ seen' \ seen \subseteq Range(frontier')
  /\ \/ UNCHANGED <<pc, stop>> /\ index' = index - 1 /\ KeysAt(current, index) \subseteq seen'
     \/ pc' = "done" /\ stop' \in {"max-search-bytes", "max-candidates"}

LEMMA BranchKeeps ==
  ASSUME SearchKept, BranchAt
  PROVE  SearchKept' /\ Joining
<1>0. SearchTyped /\ Underway /\ EachKeyOnce /\ Retained
  BY DEF SearchKept
<1>. DEFINE F == KeysAt(current, index) \ seen
            fresh == SetToSeq(F)
            size == BranchBytes(index)
<1>1. current \in Nodes /\ index \in 1 .. Len(current) /\ pc = "branch"
  BY <1>0 DEF BranchAt, Underway, SearchTyped
<1>2. /\ IsFiniteSet(F) /\ F \subseteq Keys
      /\ \A key \in F : KeyBytes(key) = size
  <2>1. case \in Cases
    BY <1>0 DEF SearchTyped
  <2>2. /\ IsFiniteSet(KeysAt(current, index)) /\ KeysAt(current, index) \subseteq Keys
        /\ \A key \in KeysAt(current, index) : KeyBytes(key) = size
    BY <1>1, <2>1, KeysShape
  <2>. QED  BY <2>2, FS_Subset
<1>3. PICK n \in 0 .. Len(fresh) :
        /\ bytes + n * size <= limits.maxBytes
        /\ frontier' = frontier \o SubSeq(fresh, 1, n)
        /\ seen' = seen \union {fresh[k] : k \in 1 .. n}
        /\ bytes' = bytes + n * size
        /\ \/ n = Len(fresh) /\ index' = index - 1 /\ UNCHANGED <<pc, stop>>
           \/ pc' = "done" /\ stop' \in {"max-search-bytes", "max-candidates"} /\ UNCHANGED index
  BY DEF BranchAt, StopSearch
<1>4. UNCHANGED <<current, attempted, tally, job, signal>>
  BY DEF BranchAt, Budget
<1>. DEFINE T == {fresh[k] : k \in 1 .. n}
<1>5. /\ fresh \in Seq(F) /\ Len(fresh) = Cardinality(F) /\ IsInjective(fresh)
      /\ DOMAIN fresh = 1 .. Cardinality(F) /\ Cardinality(F) \in Nat
  <2>. HIDE DEF F
  <2>. QED  BY <1>2, InOrder
<1>6. IsFiniteSet(T) /\ Cardinality(T) = n /\ T \subseteq F
  <2>. HIDE DEF F
  <2>. QED  BY <1>2, <1>5, FirstElements
<1>20. n = Len(fresh) => F \subseteq T
  <2>1. \A x \in F : \E k \in DOMAIN fresh : fresh[k] = x
    <3>. HIDE DEF F
    <3>. QED  BY <1>2, InOrder
  <2>. HIDE DEF F, fresh
  <2>. QED  BY <1>5, <2>1
<1>7. fresh \in Seq(Keys)
  <2>. HIDE DEF F, fresh
  <2>. QED  BY <1>2, <1>5
<1>8. \A key \in T : key \in Keys /\ key \notin seen /\ KeyBytes(key) = size
  BY <1>2, <1>6
<1>9. size \in Nat /\ n \in Nat /\ n * size \in Nat
  <2>1. size \in Nat
    BY <1>1 DEF BranchBytes
  <2>. HIDE DEF size
  <2>. QED  BY <1>3, <1>5, <2>1
<1>10. \A k \in DOMAIN fresh : fresh[k] \notin Range(frontier)
  <2>1. \A k \in DOMAIN fresh : fresh[k] \in F
    <3>. HIDE DEF F, fresh
    <3>. QED  BY <1>5
  <2>. QED  BY <1>0, <2>1 DEF SearchTyped
<1>. HIDE DEF fresh, F, size
<1>11. /\ frontier' \in Seq(Keys) /\ Len(frontier') = Len(frontier) + n /\ IsInjective(frontier')
       /\ Range(frontier') = Range(frontier) \union T
  <2>1. Joinable(Keys, frontier, fresh, n)
    BY <1>0, <1>3, <1>5, <1>7, <1>10 DEF SearchTyped, EachKeyOnce, Joinable
  <2>2. LET t == frontier \o SubSeq(fresh, 1, n)
        IN  /\ t \in Seq(Keys) /\ Len(t) = Len(frontier) + n /\ IsInjective(t)
            /\ Range(t) = Range(frontier) \union {fresh[k] : k \in 1 .. n}
    BY <2>1, JoinedOnce
  <2>. QED  BY <1>3, <2>2
<1>12. seen' = seen \union T
  BY <1>3
<1>. HIDE DEF T
<1>19. seen \intersect T = {}
  BY <1>8
<1>13. IsFiniteSet(seen') /\ Cardinality(seen') = Cardinality(seen) + n
  <2>1. IsFiniteSet(seen) /\ Cardinality(seen) \in Nat /\ Cardinality({}) = 0
    BY <1>0, FS_CardinalityType, FS_EmptySet DEF SearchTyped
  <2>2. /\ IsFiniteSet(seen \union T)
        /\ Cardinality(seen \union T) = Cardinality(seen) + Cardinality(T) - Cardinality(seen \intersect T)
    BY <1>6, <2>1, FS_Union
  <2>3. Cardinality(seen \intersect T) = 0
    BY <1>19, <2>1
  <2>. QED  BY <1>6, <1>9, <1>12, <2>1, <2>2, <2>3
<1>14. SearchTyped'
  <2>1. bytes' \in Nat /\ index' \in Nat /\ pc' \in {"search", "running", "branch", "done"}
    <3>. DEFINE m == n * size
    <3>1. m \in Nat /\ bytes' = bytes + m
      BY <1>3, <1>9
    <3>. HIDE DEF m
    <3>2. bytes' \in Nat
      BY <1>0, <3>1 DEF SearchTyped
    <3>3. index' \in Nat /\ pc' \in {"search", "running", "branch", "done"}
      <4>1. index \in Nat /\ index # 0
        BY <1>0, <1>1 DEF SearchTyped, Underway
      <4>. QED  BY <1>1, <1>3, <4>1
    <3>. QED  BY <3>2, <3>3
  <2>2. seen' \subseteq Keys /\ Range(frontier') \subseteq seen'
    BY <1>0, <1>8, <1>11, <1>12 DEF SearchTyped
  <2>3. \A r \in runs' : r.plan \in seen' /\ r.size \in Nat
    BY <1>0, <1>4, <1>12 DEF SearchTyped, tally
  <2>. QED  BY <1>0, <1>4, <1>11, <1>13, <2>1, <2>2, <2>3 DEF SearchTyped, tally, job
<1>15. Underway'
  BY <1>1, <1>3, <1>4 DEF Underway, Nodes, job
<1>16. EachKeyOnce'
  <2>1. Len(frontier) \in Nat /\ attempted \in Nat
    BY <1>0 DEF SearchTyped
  <2>2. Cardinality(seen') = Len(frontier') + attempted'
    BY <1>0, <1>4, <1>9, <1>11, <1>13, <2>1 DEF EachKeyOnce
  <2>3. Range(frontier') \intersect {r.plan : r \in runs} = {}
    BY <1>0, <1>8, <1>11 DEF EachKeyOnce, SearchTyped
  <2>. QED  BY <1>4, <1>11, <2>2, <2>3 DEF EachKeyOnce, tally
<1>17. KeptBytes' = KeptBytes + n * size
  <2>. DEFINE f == [key \in seen |-> KeyBytes(key)]
              g == [key \in seen' |-> KeyBytes(key)]
  <2>1. /\ DOMAIN f = seen /\ IsFiniteSet(DOMAIN f) /\ T \intersect DOMAIN f = {}
        /\ DOMAIN g = DOMAIN f \union T
        /\ \A y \in DOMAIN f : g[y] = f[y]
        /\ \A y \in DOMAIN f : f[y] \in Nat
        /\ \A y \in T : g[y] = size
    BY <1>0, <1>8, <1>12, <1>19, KeyBytesTyped DEF SearchTyped
  <2>2. KeptBytes = SumFunction(f) + SumFunction([r \in runs |-> r.size])
    BY DEF KeptBytes
  <2>3. KeptBytes' = SumFunction(g) + SumFunction([r \in runs |-> r.size])
    BY <1>4 DEF KeptBytes, tally
  <2>4. SumFunction(f) \in Nat /\ SumFunction([r \in runs |-> r.size]) \in Nat
    BY <1>0, SumsTyped
  <2>. HIDE DEF f, g
  <2>5. SumFunction(g) = SumFunction(f) + n * size
    <3>1. SumFunction(g) = SumFunction(f) + Cardinality(T) * size
      <4>1. size \in Nat /\ IsFiniteSet(T)
        BY <1>6, <1>9
      <4>2. GrowsBy(f, g, T, size)
        BY <2>1, <4>1 DEF GrowsBy
      <4>. QED  BY <4>2, SumGrows
    <3>. QED  BY <1>6, <3>1
  <2>. DEFINE m == n * size
  <2>. HIDE DEF m
  <2>6. m \in Nat /\ SumFunction(g) = SumFunction(f) + m
    BY <1>9, <2>5 DEF m
  <2>7. KeptBytes' = KeptBytes + m
    BY <2>2, <2>3, <2>4, <2>6
  <2>. QED  BY <2>7 DEF m
<1>18. Retained'
  <2>. DEFINE m == n * size
  <2>1. bytes = KeptBytes /\ bytes' = bytes + m /\ bytes + m <= limits.maxBytes /\ KeptBytes' = KeptBytes + m
    BY <1>0, <1>1, <1>3, <1>17 DEF Retained
  <2>. HIDE DEF m
  <2>. QED  BY <1>4, <2>1 DEF Retained, job
<1>21. Joining
  <2>1. seen \subseteq seen' /\ Range(frontier) \subseteq Range(frontier') /\ seen' \ seen \subseteq Range(frontier')
    BY <1>11, <1>12
  <2>2. n = Len(fresh) => KeysAt(current, index) \subseteq seen'
    BY <1>12, <1>20 DEF F
  <2>. QED  BY <1>3, <2>1, <2>2 DEF Joining
<1>. QED  BY <1>14, <1>15, <1>16, <1>18, <1>21 DEF SearchKept


(* The clock and the caller change nothing but the signal. *)
LEMMA SignalKeeps ==
  ASSUME SearchKept, BudgetStep
  PROVE  SearchKept'
<1>1. signal' \in {"deadline", "aborted"} /\ UNCHANGED <<job, search>>
  BY DEF BudgetStep, BudgetRunsOut
<1>2. SearchTyped' /\ Underway' /\ EachKeyOnce'
  BY <1>1 DEF SearchKept, SearchTyped, Underway, Nodes, EachKeyOnce, job, search, tally
<1>3. Retained'
  BY <1>1 DEF SearchKept, Retained, KeptBytes, job, search, tally
<1>. QED  BY <1>2, <1>3 DEF SearchKept

(* The reduction does not touch the search beside it. *)
LEMMA RestKeeps ==
  ASSUME SearchKept, UNCHANGED <<job, signal, search>>
  PROVE  SearchKept'
<1>1. SearchTyped' /\ Underway' /\ EachKeyOnce'
  BY DEF SearchKept, SearchTyped, Underway, Nodes, EachKeyOnce, job, search, tally
<1>2. Retained'
  BY DEF SearchKept, Retained, KeptBytes, job, search, tally
<1>. QED  BY <1>1, <1>2 DEF SearchKept

LEMMA ReductionRests ==
  ASSUME Reduce \/ (\E s \in {"deadline", "aborted"} : ReductionBudgetRunsOut(s)) \/ UNCHANGED vars
  PROVE  UNCHANGED <<job, signal, search>>
<1>1. CASE StopReducing \/ Try \/ PassEnds
  BY <1>1 DEF StopReducing, Try, PassEnds, Reducing
<1>2. CASE \E r \in Replays, d \in Drifts : Verification(r, d)
  BY <1>2 DEF Verification, Reducing
<1>3. CASE \E r \in Results(candidate), d \in Drifts : TrialReturns(r, d)
  BY <1>3 DEF TrialReturns, Reducing
<1>4. CASE \E s \in {"deadline", "aborted"} : ReductionBudgetRunsOut(s)
  BY <1>4 DEF ReductionBudgetRunsOut, Reducing
<1>5. CASE UNCHANGED vars
  BY <1>5 DEF vars
<1>. QED  BY <1>1, <1>2, <1>3, <1>4, <1>5 DEF Reduce

LEMMA NextKeepsSearch ==
  ASSUME SearchKept, [Next]_vars
  PROVE  SearchKept'
<1>1. CASE Step
  <2>1. CASE \E i \in DOMAIN frontier : Dispatch(i)
    BY <2>1, DispatchKeeps
  <2>2. CASE pc = "running" /\ \E r \in Results(current), size \in RunSizes : RunReturns(r, size)
    BY <2>2, RunKeeps
  <2>. QED  BY <1>1, <2>1, <2>2, TurnsKeep, BranchKeeps DEF Step
<1>2. CASE BudgetStep
  BY <1>2, SignalKeeps
<1>3. CASE Reduce \/ (\E s \in {"deadline", "aborted"} : ReductionBudgetRunsOut(s)) \/ UNCHANGED vars
  BY <1>3, ReductionRests, RestKeeps
<1>. QED  BY <1>1, <1>2, <1>3 DEF Next, Searching

LEMMA SearchStaysKept == Spec => []SearchKept
<1>1. CommandInit => SearchKept
  BY SearchInit, ReductionStarts DEF CommandInit
<1>2. SearchKept /\ [Next]_vars => SearchKept'
  BY NextKeepsSearch
<1>. QED  BY <1>1, <1>2, PTL DEF Spec

(* The variables of the search have their types, the frontier holds keys   *)
(* that were seen, and no more runs start than maxRuns allows: the loop of *)
(* explore() (src/explore.ts), for every scenario and all limits.          *)
THEOREM SearchIsTyped == Spec => []TypeOK
<1>1. SearchKept => TypeOK
  BY DEF SearchKept, SearchTyped, TypeOK
<1>. QED  BY <1>1, SearchStaysKept, PTL

(* Every key is in the frontier once or was dispatched once, and the bytes *)
(* of explore()'s retainedBytes are exactly those of the keys and of the   *)
(* artifacts it keeps (src/explore.ts): however large the sets of keys and *)
(* runs get, whatever the sizes are and wherever a limit cuts the search.  *)
THEOREM FrontierAddsUp == Spec => []FrontierIsAccounted
<1>1. SearchKept => EachKeyOnce /\ BytesAccounted
  BY DEF SearchKept, Retained, KeptBytes, BytesAccounted
<1>2. SearchKept => FrontierIsAccounted
  BY <1>1 DEF FrontierIsAccounted
<1>. QED  BY <1>2, SearchStaysKept, PTL

-----------------------------------------------------------------------------
(***************************************************************************)
(* What a search that exhausted its frontier has run.                      *)
(***************************************************************************)
Cut == {"max-runs", "max-candidates", "max-search-bytes", "deadline", "aborted", "inconclusive"}

StopIsHonest ==
  /\ stop \in Cut \union {"none", "failure", "frontier-exhausted"}
  /\ stop = "none" => pc = "done" /\ runs = {}
  /\ stop = "failure" => violations > 0
  /\ pc # "done" => stop = "frontier-exhausted"
  /\ pc = "done" /\ stop = "frontier-exhausted" => frontier = <<>>

RunsAreHonest ==
  \A r \in runs :
    /\ r.result \in Results(r.plan)
    /\ stop = "frontier-exhausted" => r.result.outcome \notin Early
    /\ stop = "frontier-exhausted" /\ violations = 0 => ~Failure(r.result)

(* Every key waits or was run, and every decision of a run was branched on *)
(* unless that is under way.                                               *)
EachKeyRuns ==
  \A key \in seen :
    \/ key \in Range(frontier) \/ (pc = "running" /\ key = current)
    \/ \E r \in runs : r.plan = key

BranchesSeen ==
  \A r \in runs : \A i \in 1 .. Len(r.result.history) :
    \/ KeysAt(r.result.history, i) \subseteq seen
    \/ pc = "branch" /\ r.result.history = current /\ i <= index

Explored ==
  /\ StopIsHonest /\ RunsAreHonest
  /\ stop = "frontier-exhausted" => EachKeyRuns /\ BranchesSeen

LEMMA SameResults ==
  ASSUME NEW p, case' = case
  PROVE  Results(p)' = Results(p)
  BY DEF Results, Endings, Result, Verdict, Compatible, Reached, Following, Resolved, Fallback,
     AvailableLanes, Nodes, Histories

LEMMA SameKeys ==
  ASSUME NEW h, NEW i, case' = case
  PROVE  KeysAt(h, i)' = KeysAt(h, i)
  BY DEF KeysAt, MultiLane, ChoicesOf, DecisionChoices, AvailableLanes

LEMMA ExploredInit ==
  ASSUME CommandInit
  PROVE  Explored
<1>1. CASE Init
  <2>1. runs = {} /\ seen = {initial} /\ Range(frontier) = {initial}
    BY <1>1 DEF Init, Range
  <2>. QED  BY <1>1, <2>1 DEF Init, Explored, StopIsHonest, RunsAreHonest, EachKeyRuns, BranchesSeen, Cut
<1>2. CASE MinimizeInit
  BY <1>2 DEF MinimizeInit, Explored, StopIsHonest, RunsAreHonest, EachKeyRuns, BranchesSeen,
     Cut
<1>. QED  BY <1>1, <1>2 DEF CommandInit

(* A step after which the search has been cut short leaves nothing to show *)
(* but that what its runs returned is what they may return.                *)
LEMMA CutKeeps ==
  ASSUME Explored, case' = case, runs' = runs, pc' = "done", stop' \in Cut
  PROVE  Explored'
<1>1. \A r \in runs : r.result \in Results(r.plan)'
  BY SameResults DEF Explored, RunsAreHonest
<1>. QED  BY <1>1 DEF Explored, StopIsHonest, RunsAreHonest, Cut

(* One that only moves on keeps what was seen and run.                     *)
LEMMA MoveKeeps ==
  ASSUME Explored, case' = case, UNCHANGED <<runs, violations, seen, stop>>,
         pc # "done", pc' = "done" => frontier' = <<>>,
         EachKeyRuns', \A r \in runs : \A i \in 1 .. Len(r.result.history) :
           KeysAt(r.result.history, i) \subseteq seen \/ (pc' = "branch" /\ r.result.history = current' /\ i <= index')
  PROVE  Explored'
<1>1. \A r \in runs : r.result \in Results(r.plan)'
  BY SameResults DEF Explored, RunsAreHonest
<1>2. stop = "frontier-exhausted"
  BY DEF Explored, StopIsHonest
<1>3. StopIsHonest'
  BY <1>2 DEF Explored, StopIsHonest
<1>4. RunsAreHonest'
  BY <1>1 DEF Explored, RunsAreHonest, Failure
<1>5. BranchesSeen'
  BY SameKeys DEF BranchesSeen
<1>. QED  BY <1>3, <1>4, <1>5 DEF Explored

LEMMA TurnsExplore ==
  ASSUME SearchKept, Explored, Conclude \/ StopAtHead \/ StopBranching \/ Branched
  PROVE  Explored'
<1>0. signal \in {"none", "deadline", "aborted"} /\ (pc # "done" => stop = "frontier-exhausted")
  BY DEF SearchKept, SearchTyped, Explored, StopIsHonest
<1>1. UNCHANGED <<case, frontier, seen, current, index, runs, violations>>
  BY DEF Conclude, StopAtHead, StopBranching, Branched, Budget, job, tally
<1>2. CASE StopAtHead \/ StopBranching
  <2>1. pc' = "done" /\ stop' \in Cut
    BY <1>0, <1>2 DEF StopAtHead, StopBranching, StopSearch, Cut
  <2>. QED  BY <1>1, <2>1, CutKeeps
<1>3. CASE Conclude /\ frontier # <<>>
  <2>1. pc' = "done" /\ stop' \in Cut
    BY <1>3 DEF Conclude, StopSearch, Cut
  <2>. QED  BY <1>1, <2>1, CutKeeps
<1>4. CASE Conclude /\ frontier = <<>>
  <2>1. pc = "search" /\ pc' = "done" /\ stop' = stop /\ frontier' = <<>>
    BY <1>1, <1>4 DEF Conclude, StopSearch
  <2>2. EachKeyRuns /\ BranchesSeen
    BY <1>0, <2>1 DEF Explored
  <2>3. EachKeyRuns'
    BY <1>1, <2>1, <2>2 DEF EachKeyRuns
  <2>. QED  BY <1>1, <2>1, <2>2, <2>3, MoveKeeps DEF BranchesSeen
<1>5. CASE Branched
  <2>1. pc = "branch" /\ index = 0 /\ pc' = "search" /\ stop' = stop
    BY <1>5 DEF Branched
  <2>2. EachKeyRuns /\ BranchesSeen
    BY <1>0, <2>1 DEF Explored
  <2>3. EachKeyRuns'
    BY <1>1, <2>1, <2>2 DEF EachKeyRuns
  <2>4. \A r \in runs : \A i \in 1 .. Len(r.result.history) : KeysAt(r.result.history, i) \subseteq seen
    BY <2>1, <2>2 DEF BranchesSeen
  <2>. QED  BY <1>1, <2>1, <2>3, <2>4, MoveKeeps
<1>. QED  BY <1>2, <1>3, <1>4, <1>5

LEMMA DispatchExplores ==
  ASSUME SearchKept, Explored, NEW i \in DOMAIN frontier, Dispatch(i)
  PROVE  Explored'
<1>1. /\ UNCHANGED <<case, runs, violations, seen, stop>> /\ pc = "search" /\ pc' = "running"
      /\ current' = frontier[i] /\ frontier' = RemoveAt(frontier, i)
  BY DEF Dispatch, Budget, job, tally
<1>2. Range(frontier') = Range(frontier) \ {frontier[i]}
  BY <1>1, RemovedOnce DEF SearchKept, SearchTyped, EachKeyOnce
<1>3. EachKeyRuns /\ BranchesSeen
  BY <1>1 DEF Explored, StopIsHonest
<1>4. EachKeyRuns'
  BY <1>1, <1>2, <1>3 DEF EachKeyRuns
<1>. QED  BY <1>1, <1>3, <1>4, MoveKeeps DEF BranchesSeen

LEMMA RunExplores ==
  ASSUME SearchKept, Explored, NEW r \in Results(current), NEW size \in RunSizes, RunReturns(r, size)
  PROVE  Explored'
<1>. DEFINE run == [plan |-> current, result |-> r, size |-> size]
<1>1. /\ UNCHANGED <<case, frontier, seen>> /\ pc = "running"
      /\ stop = "frontier-exhausted" /\ EachKeyRuns /\ BranchesSeen
  BY DEF RunReturns, Budget, job, Explored, StopIsHonest
<1>2. /\ violations \in Nat /\ violations' = violations + IF Failure(r) THEN 1 ELSE 0
      /\ signal \in {"none", "deadline", "aborted"}
  BY DEF RunReturns, SearchKept, SearchTyped
<1>3. violations' \in Nat /\ (Failure(r) => violations' > 0) /\ (violations' = 0 => violations = 0)
  BY <1>2
<1>4. CASE bytes + size > limits.maxBytes
  <2>1. runs' = runs /\ pc' = "done" /\ stop' \in Cut
    BY <1>4 DEF RunReturns, StopSearch, Cut
  <2>. QED  BY <1>1, <2>1, CutKeeps
<1>5. CASE ~(bytes + size > limits.maxBytes)
  <2>1. /\ runs' = runs \union {run}
        /\ \/ pc' = "done" /\ stop' \in Cut \union {"failure"}
              /\ (stop' = "failure" => Failure(r))
           \/ /\ pc' = "branch" /\ current' = r.history /\ index' = Len(r.history) /\ stop' = stop
              /\ r.outcome \notin Early
    <3>1. CASE signal # "none" \/ (Failure(r) /\ ~limits.keepGoing) \/ r.outcome \in Early
      <4>1. /\ runs' = runs \union {run} /\ pc' = "done"
            /\ stop' = IF signal # "none" THEN signal
                       ELSE IF Failure(r) /\ ~limits.keepGoing THEN "failure" ELSE "inconclusive"
        BY <1>5, <3>1 DEF RunReturns, StopSearch
      <4>. QED  BY <1>2, <4>1 DEF Cut
    <3>2. CASE ~(signal # "none" \/ (Failure(r) /\ ~limits.keepGoing) \/ r.outcome \in Early)
      BY <1>5, <3>2 DEF RunReturns, LatestDecision
    <3>. QED  BY <3>1, <3>2
  <2>2. \A x \in runs' : x.result \in Results(x.plan)'
    <3>1. \A x \in runs' : x.result \in Results(x.plan)
      BY <2>1 DEF Explored, RunsAreHonest
    <3>. QED  BY <1>1, <3>1, SameResults
  <2>3. StopIsHonest'
    BY <1>1, <1>3, <2>1 DEF StopIsHonest, Cut
  <2>4. RunsAreHonest'
    <3>. SUFFICES ASSUME stop' = "frontier-exhausted", NEW x \in runs'
                  PROVE  x.result.outcome \notin Early /\ (violations' = 0 => ~Failure(x.result))
      BY <2>2 DEF RunsAreHonest, Failure
    <3>1. stop' = stop /\ r.outcome \notin Early
      BY <2>1 DEF Cut
    <3>2. CASE x = run
      BY <1>3, <3>1, <3>2
    <3>3. CASE x \in runs
      BY <1>1, <1>3, <3>3 DEF Explored, RunsAreHonest
    <3>. QED  BY <2>1, <3>2, <3>3
  <2>5. ASSUME stop' = "frontier-exhausted" PROVE EachKeyRuns' /\ BranchesSeen'
    <3>1. pc' = "branch" /\ current' = r.history /\ index' = Len(r.history)
      BY <2>1, <2>5 DEF Cut
    <3>2. EachKeyRuns'
      <4>1. run \in runs' /\ run.plan = current /\ runs \subseteq runs'
        BY <2>1
      <4>2. \A key \in seen : key \in Range(frontier) \/ \E x \in runs' : x.plan = key
        BY <1>1, <4>1 DEF EachKeyRuns
      <4>. QED  BY <1>1, <4>2 DEF EachKeyRuns
    <3>3. Len(r.history) \in Nat
      <4>1. case \in Cases
        BY DEF SearchKept, SearchTyped
      <4>2. r.history \in Nodes
        BY <4>1, ResultIsNode
      <4>. QED  BY <4>1, <4>2, HistoryShape
    <3>4. BranchesSeen'
      <4>. SUFFICES ASSUME NEW x \in runs', NEW i \in 1 .. Len(x.result.history)
                    PROVE  \/ KeysAt(x.result.history, i)' \subseteq seen
                           \/ x.result.history = r.history /\ i <= Len(r.history)
        BY <1>1, <3>1 DEF BranchesSeen
      <4>1. CASE x = run
        BY <3>3, <4>1
      <4>2. CASE x \in runs
        <5>1. KeysAt(x.result.history, i) \subseteq seen
          BY <1>1, <4>2 DEF BranchesSeen
        <5>. QED  BY <1>1, <5>1, SameKeys
      <4>. QED  BY <2>1, <4>1, <4>2
    <3>. QED  BY <3>2, <3>4
  <2>. QED  BY <2>3, <2>4, <2>5 DEF Explored
<1>. QED  BY <1>4, <1>5

LEMMA BranchExplores ==
  ASSUME SearchKept, Explored, BranchAt
  PROVE  Explored'
<1>1. /\ UNCHANGED <<case, current, runs, violations>> /\ pc = "branch" /\ Joining
      /\ stop = "frontier-exhausted" /\ EachKeyRuns /\ BranchesSeen
  <2>1. Joining
    BY BranchKeeps
  <2>. QED  BY <2>1 DEF BranchAt, Budget, job, tally, Explored, StopIsHonest
<1>2. CASE pc' = "done" /\ stop' \in {"max-search-bytes", "max-candidates"}
  <2>1. stop' \in Cut
    BY <1>2 DEF Cut
  <2>. QED  BY <1>1, <1>2, <2>1, CutKeeps
<1>3. CASE UNCHANGED <<pc, stop>> /\ index' = index - 1 /\ KeysAt(current, index) \subseteq seen'
  <2>1. \A x \in runs : x.result \in Results(x.plan)'
    BY <1>1, SameResults DEF Explored, RunsAreHonest
  <2>2. StopIsHonest' /\ RunsAreHonest'
    BY <1>1, <1>3, <2>1 DEF Explored, StopIsHonest, RunsAreHonest, Failure
  <2>3. EachKeyRuns'
    BY <1>1, <1>3 DEF EachKeyRuns, Joining
  <2>4. BranchesSeen'
    <3>. SUFFICES ASSUME NEW x \in runs, NEW i \in 1 .. Len(x.result.history)
                  PROVE  \/ KeysAt(x.result.history, i)' \subseteq seen'
                         \/ x.result.history = current /\ i <= index - 1
      BY <1>1, <1>3 DEF BranchesSeen
    <3>1. KeysAt(x.result.history, i)' = KeysAt(x.result.history, i)
      BY <1>1, SameKeys
    <3>2. index \in Nat /\ i \in Int /\ seen \subseteq seen'
      BY <1>1 DEF SearchKept, SearchTyped, Joining
    <3>3. CASE KeysAt(x.result.history, i) \subseteq seen
      BY <3>1, <3>2, <3>3
    <3>4. CASE x.result.history = current /\ i <= index
      <4>1. i = index => KeysAt(x.result.history, i) \subseteq seen'
        BY <1>3, <3>4
      <4>2. i = index \/ i <= index - 1
        BY <3>2, <3>4
      <4>. QED  BY <3>1, <3>4, <4>1, <4>2
    <3>. QED  BY <1>1, <3>3, <3>4 DEF BranchesSeen
  <2>. QED  BY <2>2, <2>3, <2>4 DEF Explored
<1>. QED  BY <1>1, <1>2, <1>3 DEF Joining

LEMMA OthersKeepExplored ==
  ASSUME Explored, UNCHANGED <<case, search>>
  PROVE  Explored'
<1>1. UNCHANGED <<pc, frontier, seen, current, index, runs, violations, stop>>
  BY DEF search, tally
<1>2. \A r \in runs : r.result \in Results(r.plan)'
  BY SameResults DEF Explored, RunsAreHonest
<1>3. StopIsHonest' /\ RunsAreHonest'
  BY <1>1, <1>2 DEF Explored, StopIsHonest, RunsAreHonest, Failure
<1>4. ASSUME EachKeyRuns /\ BranchesSeen PROVE EachKeyRuns' /\ BranchesSeen'
  BY <1>1, <1>4, SameKeys DEF EachKeyRuns, BranchesSeen
<1>. QED  BY <1>1, <1>3, <1>4 DEF Explored

LEMMA NextExplores ==
  ASSUME SearchKept, Explored, [Next]_vars
  PROVE  Explored'
<1>1. CASE Step
  <2>1. CASE \E i \in DOMAIN frontier : Dispatch(i)
    BY <2>1, DispatchExplores
  <2>2. CASE pc = "running" /\ \E r \in Results(current), size \in RunSizes : RunReturns(r, size)
    BY <2>2, RunExplores
  <2>. QED  BY <1>1, <2>1, <2>2, TurnsExplore, BranchExplores DEF Step
<1>2. CASE BudgetStep
  BY <1>2, OthersKeepExplored DEF BudgetStep, BudgetRunsOut, job
<1>3. CASE Reduce \/ (\E s \in {"deadline", "aborted"} : ReductionBudgetRunsOut(s)) \/ UNCHANGED vars
  <2>1. UNCHANGED <<job, signal, search>>
    BY <1>3, ReductionRests
  <2>. QED  BY <2>1, OthersKeepExplored DEF job
<1>. QED  BY <1>1, <1>2, <1>3 DEF Next, Searching

(* A run that comes to its end says what the plan leads to. *)
LEMMA OutcomeIsVerdict ==
  ASSUME NEW p, NEW r \in Results(p), r.outcome \notin Early
  PROVE  r.outcome = Verdict(p)
  BY DEF Results, Endings, Result, Early

(* What a run that ended with a verdict was. *)
LEMMA EndedRun ==
  ASSUME case \in Cases, NEW p, NEW r \in Results(p), r.outcome \notin Early, r.outcome # "incompatible"
  PROVE  r = Result(Reached(p), Verdict(p), TRUE) /\ r.history \in Histories /\ r.history = Reached(p)
<1>1. r = Result(Reached(p), Verdict(p), TRUE)
  BY DEF Results, Endings, Result, Early
<1>2. r.outcome = Verdict(p) /\ r.history = Reached(p)
  BY <1>1 DEF Result
<1>. QED  BY <1>1, <1>2 DEF Verdict, Compatible

LEMMA VerdictIsNot ==
  ASSUME case \in Cases, NEW p, Compatible(p)
  PROVE  Verdict(p) # "incompatible"
  BY ScenarioAssumption DEF Verdict, Compatible, Histories, Nodes, AvailableLanes

(* The schedules of an exhausted search were run: along any of them, each  *)
(* decision was taken by a run, or is one that the search branched to.     *)
LEMMA Exhausted ==
  ASSUME SearchKept, Explored, pc = "done", ExitCode = 0, NEW h \in Schedules
  PROVE  \E r \in runs : r.result = Result(h, "passed", TRUE)
<1>1. /\ case \in Cases /\ stop = "frontier-exhausted" /\ violations = 0
      /\ \E r \in runs : r.result.outcome # "incompatible"
  <2>1. /\ stop \notin Cut /\ ~(violations > 0)
        /\ ~(\A r \in runs : r.result.outcome = "incompatible")
    BY DEF ExitCode, Cut
  <2>. QED  BY <2>1 DEF Explored, StopIsHonest, SearchKept, SearchTyped
<1>2. \A key \in seen : \E r \in runs : r.plan = key
  <2>1. frontier = <<>> /\ Range(frontier) = {}
    BY <1>1 DEF Explored, StopIsHonest, Range
  <2>. QED  BY <1>1, <2>1 DEF Explored, EachKeyRuns
<1>3. \A r \in runs : /\ r.result \in Results(r.plan) /\ r.result.outcome \notin Early
                      /\ ~Failure(r.result)
                      /\ \A i \in 1 .. Len(r.result.history) : KeysAt(r.result.history, i) \subseteq seen
  BY <1>1 DEF Explored, RunsAreHonest, BranchesSeen
<1>4. /\ h \in Nodes /\ h \in Histories /\ h \in Seq(Seq(Lane)) /\ Len(h) \in Nat /\ DOMAIN h = 1 .. Len(h)
  BY <1>1, HistoryShape DEF Schedules, Histories
<1>. DEFINE Along(n, r) ==
              /\ r.result.outcome # "incompatible" /\ n <= Len(r.result.history)
              /\ \A i \in 1 .. n : r.result.history[i] = h[i]
            N == {n \in Nat : n <= Len(h) => \E r \in runs : Along(n, r)}
<1>5. \A r \in runs : r.result.outcome # "incompatible" =>
        /\ r.result = Result(Reached(r.plan), Verdict(r.plan), TRUE)
        /\ r.result.history \in Histories /\ r.result.history = Reached(r.plan)
        /\ r.result.history \in Seq(Seq(Lane)) /\ Len(r.result.history) \in Nat
  <2>1. \A g \in Histories : g \in Seq(Seq(Lane)) /\ Len(g) \in Nat
    BY <1>1, HistoryShape DEF Histories
  <2>. QED  BY <1>1, <1>3, <2>1, EndedRun
<1>6. 0 \in N
  <2>1. PICK r \in runs : r.result.outcome # "incompatible"
    BY <1>1
  <2>2. Len(r.result.history) \in Nat
    BY <1>5, <2>1
  <2>3. Along(0, r)
    BY <2>1, <2>2
  <2>. QED  BY <2>3
<1>7. ASSUME NEW n \in N PROVE n + 1 \in N
  <2>. SUFFICES ASSUME n + 1 <= Len(h) PROVE \E r \in runs : Along(n + 1, r)
    OBVIOUS
  <2>1. n \in Nat /\ n < Len(h) /\ n <= Len(h)
    BY <1>4
  <2>2. PICK r \in runs : Along(n, r)
    BY <2>1
  <2>. DEFINE g == r.result.history
  <2>3. g \in Histories /\ Len(g) \in Nat
    BY <1>5, <2>2
  <2>4. n <= Len(g) /\ \A i \in 1 .. n : g[i] = h[i]
    BY <2>2
  <2>. HIDE DEF g, N
  <2>5. /\ n < Len(g)
        /\ \/ g[n + 1] = h[n + 1]
           \/ \E key \in KeysAt(g, n + 1) :
                /\ key \in Keys /\ Compatible(key) /\ n + 1 <= Len(Reached(key))
                /\ \A i \in 1 .. n + 1 : Reached(key)[i] = h[i]
    BY <1>1, <2>1, <2>3, <2>4, Deviation
  <2>6. n + 1 \in 1 .. Len(g) /\ \A i \in 1 .. n + 1 : i \in 1 .. n \/ i = n + 1
    BY <2>1, <2>3, <2>5
  <2>7. CASE g[n + 1] = h[n + 1]
    <3>1. \A i \in 1 .. n + 1 : g[i] = h[i]
      BY <2>4, <2>6, <2>7
    <3>2. n + 1 <= Len(g)
      BY <2>6
    <3>3. Along(n + 1, r)
      BY <2>2, <3>1, <3>2 DEF g
    <3>. QED  BY <3>3
  <2>8. CASE \E key \in KeysAt(g, n + 1) :
               /\ key \in Keys /\ Compatible(key) /\ n + 1 <= Len(Reached(key))
               /\ \A i \in 1 .. n + 1 : Reached(key)[i] = h[i]
    <3>1. PICK key \in KeysAt(g, n + 1) :
               /\ key \in Keys /\ Compatible(key) /\ n + 1 <= Len(Reached(key))
               /\ \A i \in 1 .. n + 1 : Reached(key)[i] = h[i]
      BY <2>8
    <3>2. PICK s \in runs : s.plan = key
      <4>1. key \in seen
        BY <1>3, <2>6, <3>1 DEF g
      <4>. QED  BY <1>2, <4>1
    <3>3. s.result.outcome = Verdict(key)
      BY <1>3, <3>2, OutcomeIsVerdict
    <3>4. s.result.outcome # "incompatible"
      BY <1>1, <3>1, <3>3, VerdictIsNot
    <3>5. s.result.history = Reached(key)
      BY <1>5, <3>2, <3>4
    <3>6. Along(n + 1, s)
      BY <3>1, <3>4, <3>5
    <3>. QED  BY <3>6
  <2>. QED  BY <2>5, <2>7, <2>8
<1>8. N = Nat
  <2>1. N \in SUBSET Nat
    OBVIOUS
  <2>. HIDE DEF N
  <2>. QED  BY <1>6, <1>7, <2>1, NatSetInduction
<1>9. PICK r \in runs : Along(Len(h), r)
  <2>1. Len(h) \in N /\ Len(h) <= Len(h)
    <3>. HIDE DEF N
    <3>. QED  BY <1>4, <1>8
  <2>. QED  BY <2>1
<1>. DEFINE g == r.result.history
<1>10. g \in Histories /\ g \in Nodes /\ g \in Seq(Seq(Lane)) /\ Len(g) \in Nat
  BY <1>5, <1>9 DEF Histories
<1>11. Len(h) <= Len(g) /\ \A i \in 1 .. Len(h) : g[i] = h[i]
  BY <1>9
<1>12. r.result.outcome = "passed"
  BY <1>3, <1>9 DEF Failure
<1>13. r.result = Result(g, "passed", TRUE)
  <2>1. r.result = Result(Reached(r.plan), Verdict(r.plan), TRUE) /\ g = Reached(r.plan)
    BY <1>5, <1>9
  <2>2. Verdict(r.plan) = "passed"
    BY <1>12, <2>1 DEF Result
  <2>. QED  BY <2>1, <2>2
<1>. HIDE DEF g
<1>14. Len(g) = Len(h)
  <2>1. ASSUME Len(g) > Len(h) PROVE FALSE
    <3>1. Len(h) + 1 \in 1 .. Len(g) /\ (Len(h) + 1) - 1 = Len(h)
      BY <1>4, <1>10, <2>1
    <3>2. SubSeq(g, 1, Len(h)) = h
      BY <1>4, <1>10, <1>11
    <3>3. AvailableLanes(h) = {}
      BY <1>4 DEF Histories
    <3>4. g[Len(h) + 1] \in DecisionsOf({}, Scenario[case].pairs)
      BY <1>1, <1>10, <3>1, <3>2, <3>3, DecisionTaken
    <3>. QED  BY <3>4 DEF DecisionsOf
  <2>. QED  BY <1>4, <1>10, <1>11, <2>1
<1>15. g = h
  BY <1>4, <1>10, <1>11, <1>14, SeqEqual
<1>. QED  BY <1>13, <1>15

(* Exit code 0 means what docs/cli.md:267 says of it: every schedule that  *)
(* the scenario can show was run to its end and passed.  The search of     *)
(* explore() (src/explore.ts) misses none, whatever the scenario, the      *)
(* limits, the initial plan and the order in which it takes prefixes: of a *)
(* schedule, a run that follows it up to some decision has branched there  *)
(* to a key that leads one decision further.                               *)
THEOREM ZeroExitIsExhaustive == Spec => []ZeroExitMeansEverySchedulePassed
<1>1. CommandInit => Explored
  BY ExploredInit
<1>2. SearchKept /\ Explored /\ [Next]_vars => Explored'
  BY NextExplores
<1>3. SearchKept /\ Explored => ZeroExitMeansEverySchedulePassed
  BY Exhausted DEF ZeroExitMeansEverySchedulePassed
<1>. QED  BY <1>1, <1>2, <1>3, SearchStaysKept, PTL DEF Spec

-----------------------------------------------------------------------------
(***************************************************************************)
(* The reduction.                                                          *)
(***************************************************************************)

LEMMA WantedIsVerdict ==
  ASSUME case \in Cases, original \in Histories
  PROVE  Wanted \notin Early
  BY ScenarioAssumption DEF Wanted, Histories, Nodes, AvailableLanes

ReductionTyped ==
  /\ phase \in {"search", "verify", "reduce", "trial", "reduced", "unverified"}
  /\ phase # "search" => original \in Histories
  /\ plan \in Keys /\ start \in Nat /\ chunks \in Nat /\ chunks >= 2
  /\ phase = "trial" => candidate \in Keys
  /\ locallyMinimal \in BOOLEAN /\ budget \in {"none", "deadline", "aborted"}

(* A pass over single choices has tried what it has gone past. *)
PassIsHonest ==
  /\ phase \in {"search", "verify"} => start = 0
  /\ phase \in {"reduce", "trial"} /\ chunks >= Len(plan) =>
       \A i \in 1 .. Len(plan) : i <= start => Without(plan, i) \in tried
  /\ phase = "trial" =>
       /\ start < Len(plan)
       /\ candidate = SubSeq(plan, 1, start) \o SubSeq(plan, start + ChunkSize + 1, Len(plan))

(* Before the report, only an empty plan is called locally minimal. *)
ClaimIsHonest ==
  /\ locallyMinimal <=> stopReason = "locally-minimal"
  /\ locallyMinimal =>
       \/ phase = "reduce" /\ plan = <<>>
       \/ phase = "reduced" /\ \A i \in DOMAIN plan : Without(plan, i) \in tried

ReductionKept == ReductionTyped /\ PassIsHonest /\ ClaimIsHonest /\ KeptPlanReproduces

LEMMA ReductionBegins ==
  ASSUME CommandInit
  PROVE  ReductionKept
<1>1. <<>> \in Keys /\ Len(<<>>) = 0
  BY DEF Keys
<1>2. phase \in {"search", "verify"} /\ (phase = "verify" => original \in Histories)
  BY DEF CommandInit, MinimizeInit
<1>3. ReductionTyped
  <2>1. /\ plan = <<>> /\ start = 0 /\ chunks = 2
        /\ locallyMinimal = FALSE /\ budget = "none"
    BY DEF CommandInit, ReductionInit
  <2>2. chunks \in Nat /\ chunks >= 2 /\ start \in Nat /\ plan \in Keys
    BY <1>1, <2>1
  <2>. QED  BY <1>2, <2>1, <2>2 DEF ReductionTyped
<1>4. PassIsHonest /\ KeptPlanReproduces
  BY <1>2 DEF CommandInit, ReductionInit, PassIsHonest, KeptPlanReproduces
<1>5. ClaimIsHonest
  <2>1. locallyMinimal = FALSE /\ stopReason = "max-attempts"
    BY DEF CommandInit, ReductionInit
  <2>. QED  BY <2>1 DEF ClaimIsHonest
<1>. QED  BY <1>3, <1>4, <1>5 DEF ReductionKept

(* What a plan leads to depends on nothing but the scenario. *)
LEMMA SameVerdict ==
  ASSUME NEW p, case' = case, plan' = p
  PROVE  Verdict(plan)' = Verdict(p)
  BY DEF Verdict, Compatible, Reached, Following, Resolved, Fallback, AvailableLanes, Nodes,
     Histories

LEMMA OthersKeepReduction ==
  ASSUME ReductionKept, UNCHANGED <<case, reduction>>
  PROVE  ReductionKept'
<1>1. ReductionTyped' /\ PassIsHonest' /\ ClaimIsHonest'
  BY DEF ReductionKept, ReductionTyped, PassIsHonest, ClaimIsHonest, reduction, Histories,
     Nodes, AvailableLanes, Without, ChunkSize
<1>2. PICK p : p = plan
  OBVIOUS
<1>3. Verdict(plan)' = Verdict(plan)
  BY <1>2, SameVerdict DEF reduction
<1>4. KeptPlanReproduces'
  BY <1>3 DEF ReductionKept, KeptPlanReproduces, reduction, Wanted
<1>. QED  BY <1>1, <1>4 DEF ReductionKept

LEMMA SingleChunk ==
  ASSUME NEW n \in Nat, NEW c \in Nat, n > 0, c >= n
  PROVE  (n + c - 1) \div c = 1
  OBVIOUS

LEMMA ChunkIsNat ==
  ASSUME NEW n \in Nat, NEW c \in Nat, c > 0
  PROVE  (n + c - 1) \div c \in Nat
  OBVIOUS


(* A trial deletes one chunk, and leaves the choices of a key. *)
LEMMA CandidateIsKey ==
  ASSUME NEW p \in Keys, NEW s \in Nat, NEW n \in Nat, s < Len(p)
  PROVE  SubSeq(p, 1, s) \o SubSeq(p, s + n + 1, Len(p)) \in Keys
<1>1. Len(p) \in Nat /\ \A k \in 1 .. Len(p) : p[k] \in Seq(Entry)
  BY LenProperties DEF Keys
<1>2. SubSeq(p, 1, s) \in Keys
  <2>1. \A k \in 1 .. s : p[k] \in Seq(Entry)
    BY <1>1
  <2>. QED  BY <1>1, <2>1, SubSeqProperties DEF Keys
<1>3. SubSeq(p, s + n + 1, Len(p)) \in Keys
  <2>1. \A k \in s + n + 1 .. Len(p) : p[k] \in Seq(Entry)
    BY <1>1
  <2>. QED  BY <1>1, <2>1, SubSeqProperties DEF Keys
<1>. QED  BY <1>2, <1>3, ConcatProperties DEF Keys

LEMMA VerificationKeeps ==
  ASSUME ReductionKept, case \in Cases, NEW r \in Replays,
         NEW drifted, Verification(r, drifted)
  PROVE  ReductionKept'
<1>0. ReductionTyped /\ PassIsHonest /\ ClaimIsHonest /\ phase = "verify" /\ original \in Histories
  BY DEF ReductionKept, ReductionTyped, Verification
<1>1. UNCHANGED <<case, original, chunks, start, candidate, tried, budget>>
  BY DEF Verification, Reducing, job
<1>2. ~locallyMinimal /\ stopReason # "locally-minimal"
  BY <1>0 DEF ClaimIsHonest
<1>3. CASE phase' = "unverified" /\ UNCHANGED <<plan, locallyMinimal, stopReason>>
  BY <1>0, <1>1, <1>2, <1>3 DEF ReductionKept, ReductionTyped, PassIsHonest, ClaimIsHonest,
     KeptPlanReproduces, Histories, Nodes, AvailableLanes
<1>4. CASE /\ Reproduces(r) /\ phase' = "reduce" /\ plan' = ChoicesOf(r.history)
           /\ locallyMinimal' = (plan' = <<>>)
           /\ stopReason' = IF plan' = <<>> THEN "locally-minimal" ELSE stopReason
  <2>0. r.history = original /\ plan' = ChoicesOf(original)
    <3>1. r.outcome \notin Early
      BY <1>0, <1>4, WantedIsVerdict DEF Reproduces
    <3>2. r.history = original
      BY <3>1 DEF Replays, Endings, Result, Early
    <3>. QED  BY <1>4, <3>2
  <2>1. plan' \in Keys
    <3>1. original \in Seq(Seq(Lane))
      BY <1>0, ScenarioAssumption DEF Histories, Nodes
    <3>. QED  BY <2>0, <3>1, ChoicesAreKey
  <2>2. ReductionTyped'
    BY <1>0, <1>1, <1>4, <2>1 DEF ReductionTyped, Histories, Nodes, AvailableLanes
  <2>3. PassIsHonest'
    <3>1. start' = 0 /\ phase' = "reduce"
      BY <1>0, <1>1, <1>4 DEF PassIsHonest
    <3>. QED  BY <3>1, <2>1, LenProperties DEF PassIsHonest, Keys
  <2>4. ClaimIsHonest'
    BY <1>2, <1>4 DEF ClaimIsHonest
  <2>5. Verdict(ChoicesOf(original)) = Wanted
    BY <1>0, ChoicesLeadBack DEF Wanted
  <2>6. PICK p : p = ChoicesOf(original)
    OBVIOUS
  <2>7. Verdict(plan)' = Verdict(p)
    BY <1>1, <2>0, <2>6, SameVerdict
  <2>8. KeptPlanReproduces'
    BY <1>1, <2>5, <2>6, <2>7 DEF KeptPlanReproduces, Wanted
  <2>. QED  BY <2>2, <2>3, <2>4, <2>8 DEF ReductionKept
<1>. QED  BY <1>3, <1>4 DEF Verification


LEMMA StopKeeps ==
  ASSUME ReductionKept, StopReducing
  PROVE  ReductionKept'
<1>0. ReductionTyped /\ PassIsHonest /\ ClaimIsHonest /\ KeptPlanReproduces
  BY DEF ReductionKept
<1>1. /\ UNCHANGED <<case, original, plan, chunks, start, candidate, locallyMinimal, tried, budget>>
      /\ phase = "reduce" /\ phase' = "reduced"
  BY DEF StopReducing, Reducing, Report, job
<1>2. \/ stopReason' = stopReason /\ plan = <<>>
      \/ stopReason' = stopReason /\ plan # <<>>
      \/ stopReason' = budget /\ budget # "none" /\ plan # <<>>
  BY DEF StopReducing, Report
<1>3. ReductionTyped'
  BY <1>0, <1>1 DEF ReductionTyped, Histories, Nodes, AvailableLanes
<1>4. PassIsHonest'
  BY <1>1 DEF PassIsHonest
<1>5. ClaimIsHonest'
  <2>1. stopReason' = "locally-minimal" <=> stopReason = "locally-minimal"
    BY <1>0, <1>1, <1>2 DEF ClaimIsHonest, ReductionTyped
  <2>2. locallyMinimal => plan = <<>>
    BY <1>0, <1>1 DEF ClaimIsHonest
  <2>3. locallyMinimal' => \A i \in DOMAIN plan' : Without(plan, i)' \in tried'
    BY <1>1, <2>2
  <2>. QED  BY <1>0, <1>1, <2>1, <2>3 DEF ClaimIsHonest
<1>6. KeptPlanReproduces'
  <2>1. PICK p : p = plan
    OBVIOUS
  <2>2. Verdict(plan)' = Verdict(plan)
    BY <1>1, <2>1, SameVerdict
  <2>. QED  BY <1>0, <1>1, <2>2 DEF KeptPlanReproduces, Wanted
<1>. QED  BY <1>3, <1>4, <1>5, <1>6 DEF ReductionKept

LEMMA TryKeeps ==
  ASSUME ReductionKept, Try
  PROVE  ReductionKept'
<1>0. ReductionTyped /\ PassIsHonest /\ ClaimIsHonest /\ KeptPlanReproduces
  BY DEF ReductionKept
<1>1. /\ UNCHANGED <<case, original, plan, chunks, start, locallyMinimal, stopReason, tried, budget>>
      /\ phase = "reduce" /\ phase' = "trial" /\ start < Len(plan)
      /\ candidate' = SubSeq(plan, 1, start) \o SubSeq(plan, start + ChunkSize + 1, Len(plan))
  BY DEF Try, Reducing, job
<1>2. candidate' \in Keys
  <2>1. Len(plan) \in Nat /\ start \in Nat /\ plan \in Keys
    BY <1>0, LenProperties DEF ReductionTyped, Keys
  <2>2. ChunkSize \in Nat
    BY <1>0, <2>1, ChunkIsNat DEF ReductionTyped, ChunkSize
  <2>. QED  BY <1>1, <2>1, <2>2, CandidateIsKey
<1>3. ReductionTyped'
  BY <1>0, <1>1, <1>2 DEF ReductionTyped, Histories, Nodes, AvailableLanes
<1>4. PassIsHonest'
  BY <1>0, <1>1 DEF PassIsHonest, Without, ChunkSize
<1>5. ClaimIsHonest'
  <2>1. plan # <<>>
    BY <1>0, <1>1 DEF ReductionTyped
  <2>. QED  BY <1>0, <1>1, <2>1 DEF ClaimIsHonest
<1>6. KeptPlanReproduces'
  <2>1. PICK p : p = plan
    OBVIOUS
  <2>2. Verdict(plan)' = Verdict(plan)
    BY <1>1, <2>1, SameVerdict
  <2>. QED  BY <1>0, <1>1, <2>2 DEF KeptPlanReproduces, Wanted
<1>. QED  BY <1>3, <1>4, <1>5, <1>6 DEF ReductionKept

LEMMA BudgetKeepsReduction ==
  ASSUME ReductionKept, NEW s \in {"deadline", "aborted"}, ReductionBudgetRunsOut(s)
  PROVE  ReductionKept'
<1>0. ReductionTyped /\ PassIsHonest /\ ClaimIsHonest /\ KeptPlanReproduces
  BY DEF ReductionKept
<1>1. /\ UNCHANGED <<case, original, phase, plan, chunks, start, candidate, locallyMinimal, stopReason, tried>>
      /\ budget' \in {"deadline", "aborted"}
  BY DEF ReductionBudgetRunsOut, Reducing, job
<1>2. ReductionTyped' /\ PassIsHonest' /\ ClaimIsHonest'
  BY <1>0, <1>1 DEF ReductionTyped, PassIsHonest, ClaimIsHonest, Histories, Nodes,
     AvailableLanes,
     Without, ChunkSize
<1>3. KeptPlanReproduces'
  <2>1. PICK p : p = plan
    OBVIOUS
  <2>2. Verdict(plan)' = Verdict(plan)
    BY <1>1, <2>1, SameVerdict
  <2>. QED  BY <1>0, <1>1, <2>2 DEF KeptPlanReproduces, Wanted
<1>. QED  BY <1>2, <1>3 DEF ReductionKept

(* A pass over single choices that ends has tried them all. *)
LEMMA PassEndsHonestly ==
  ASSUME ReductionKept, PassEnds
  PROVE  ReductionKept'
<1>0. ReductionTyped /\ PassIsHonest /\ ClaimIsHonest /\ KeptPlanReproduces
  BY DEF ReductionKept
<1>1. /\ UNCHANGED <<case, original, plan, candidate, tried, budget>>
      /\ phase = "reduce" /\ plan # <<>> /\ start >= Len(plan)
  BY DEF PassEnds, Reducing, job
<1>2. Len(plan) \in Nat /\ DOMAIN plan = 1 .. Len(plan) /\ chunks \in Nat /\ chunks >= 2 /\ start \in Nat
  BY <1>0, LenProperties DEF ReductionTyped, Keys
<1>3. KeptPlanReproduces'
  <2>1. PICK p : p = plan
    OBVIOUS
  <2>2. Verdict(plan)' = Verdict(plan)
    BY <1>1, <2>1, SameVerdict
  <2>. QED  BY <1>0, <1>1, <2>2 DEF KeptPlanReproduces, Wanted
<1>4. CASE chunks >= Len(plan)
  <2>1. /\ locallyMinimal' = TRUE /\ phase' = "reduced" /\ stopReason' = "locally-minimal"
        /\ UNCHANGED <<chunks, start>>
    BY <1>4 DEF PassEnds, Report, SingleChoices
  <2>2. \A i \in 1 .. Len(plan) : i <= start
    BY <1>1, <1>2
  <2>3. \A i \in DOMAIN plan : Without(plan, i) \in tried
    BY <1>0, <1>1, <1>2, <1>4, <2>2 DEF PassIsHonest
  <2>4. ClaimIsHonest'
    BY <1>1, <2>1, <2>3 DEF ClaimIsHonest, Without
  <2>5. ReductionTyped' /\ PassIsHonest'
    BY <1>0, <1>1, <2>1 DEF ReductionTyped, PassIsHonest, Histories, Nodes, AvailableLanes
  <2>. QED  BY <1>3, <2>4, <2>5 DEF ReductionKept
<1>5. CASE ~(chunks >= Len(plan))
  <2>1. /\ chunks' = IF 2 * chunks < Len(plan) THEN 2 * chunks ELSE Len(plan)
        /\ start' = 0 /\ UNCHANGED <<phase, stopReason, locallyMinimal>>
    BY <1>5 DEF PassEnds, SingleChoices
  <2>2. chunks' \in Nat /\ chunks' >= 2
    BY <1>2, <1>5, <2>1
  <2>3. ReductionTyped'
    BY <1>0, <1>1, <2>1, <2>2 DEF ReductionTyped, Histories, Nodes, AvailableLanes
  <2>4. PassIsHonest'
    BY <1>1, <1>2, <2>1 DEF PassIsHonest
  <2>5. ClaimIsHonest'
    BY <1>0, <1>1, <2>1 DEF ClaimIsHonest
  <2>. QED  BY <1>3, <2>3, <2>4, <2>5 DEF ReductionKept
<1>. QED  BY <1>4, <1>5


(* A trial that came back: taken, gone past or given up. *)
LEMMA TrialKeeps ==
  ASSUME ReductionKept, case \in Cases, NEW r \in Results(candidate), NEW drifted,
         TrialReturns(r, drifted)
  PROVE  ReductionKept'
<1>0. ReductionTyped /\ PassIsHonest /\ ClaimIsHonest /\ KeptPlanReproduces
  BY DEF ReductionKept
<1>1. /\ UNCHANGED <<case, original, candidate, budget>>
      /\ phase = "trial" /\ original \in Histories /\ candidate \in Keys
  BY <1>0 DEF TrialReturns, Reducing, job, ReductionTyped
<1>2. /\ Len(plan) \in Nat /\ chunks \in Nat /\ chunks >= 2 /\ start \in Nat /\ start < Len(plan)
      /\ ~locallyMinimal /\ stopReason # "locally-minimal" /\ ChunkSize \in Nat
  <2>1. /\ Len(plan) \in Nat /\ chunks \in Nat /\ chunks >= 2 /\ start \in Nat /\ start < Len(plan)
        /\ ~locallyMinimal /\ stopReason # "locally-minimal"
    BY <1>0, <1>1, LenProperties DEF ReductionTyped, PassIsHonest, ClaimIsHonest, Keys
  <2>. QED  BY <2>1, ChunkIsNat DEF ChunkSize
<1>. DEFINE gaveUp == /\ phase' = "reduced" /\ stopReason' \in {"inconclusive", budget}
                      /\ (stopReason' = budget => budget # "none")
                      /\ UNCHANGED <<plan, chunks, start, locallyMinimal, tried>>
            taken  == /\ Reproduces(r)
                      /\ plan' = candidate /\ chunks' = (IF chunks > 3 THEN chunks - 1 ELSE 2)
                      /\ start' = 0 /\ phase' = "reduce" /\ locallyMinimal' = (candidate = <<>>)
                      /\ stopReason' = (IF candidate = <<>> THEN "locally-minimal" ELSE stopReason)
                      /\ UNCHANGED tried
            past   == /\ start' = start + ChunkSize /\ phase' = "reduce"
                      /\ tried' = tried \union {candidate}
                      /\ UNCHANGED <<plan, chunks, locallyMinimal, stopReason>>
<1>3. gaveUp \/ taken \/ past
  BY <1>0 DEF TrialReturns, Report, ReductionTyped
<1>4. CASE gaveUp \/ past
  <2>1. PICK p : p = plan
    OBVIOUS
  <2>2. Verdict(plan)' = Verdict(plan)
    BY <1>1, <1>4, <2>1, SameVerdict
  <2>3. KeptPlanReproduces'
    BY <1>0, <1>1, <2>2 DEF KeptPlanReproduces, Wanted
  <2>4. CASE gaveUp
    <3>1. ReductionTyped' /\ PassIsHonest'
      BY <1>0, <1>1, <2>4 DEF ReductionTyped, PassIsHonest, Histories, Nodes, AvailableLanes
    <3>2. ClaimIsHonest'
      BY <1>0, <1>2, <2>4 DEF ReductionTyped, ClaimIsHonest
    <3>. QED  BY <2>3, <3>1, <3>2 DEF ReductionKept
  <2>5. CASE past
    <3>1. ReductionTyped'
      BY <1>0, <1>1, <1>2, <2>5 DEF ReductionTyped, Histories, Nodes, AvailableLanes
    <3>2. PassIsHonest'
      <4>. SUFFICES ASSUME chunks >= Len(plan), NEW i \in 1 .. Len(plan), i <= start + ChunkSize
                    PROVE  Without(plan, i) \in tried \union {candidate}
        BY <1>4, <2>5 DEF PassIsHonest, Without
      <4>1. ChunkSize = 1
        BY <1>2, SingleChunk DEF ChunkSize
      <4>2. CASE i <= start
        BY <1>0, <1>1, <4>2 DEF PassIsHonest
      <4>3. CASE i = start + 1
        <5>1. i - 1 = start /\ i + 1 = start + ChunkSize + 1
          BY <1>2, <4>1, <4>3
        <5>. QED  BY <1>0, <1>1, <5>1 DEF PassIsHonest, Without
      <4>. QED  BY <1>2, <4>1, <4>2, <4>3
    <3>3. ClaimIsHonest'
      BY <1>2, <2>5 DEF ClaimIsHonest
    <3>. QED  BY <2>3, <3>1, <3>2, <3>3 DEF ReductionKept
  <2>. QED  BY <1>4, <2>4, <2>5
<1>5. CASE taken
  <2>1. ReductionTyped'
    <3>1. chunks' \in Nat /\ chunks' >= 2
      BY <1>2, <1>5
    <3>. QED  BY <1>0, <1>1, <1>5, <3>1 DEF ReductionTyped, Histories, Nodes, AvailableLanes
  <2>2. PassIsHonest'
    <3>1. Len(candidate) \in Nat
      BY <1>1, LenProperties DEF Keys
    <3>. QED  BY <1>5, <3>1 DEF PassIsHonest
  <2>3. ClaimIsHonest'
    BY <1>2, <1>5 DEF ClaimIsHonest
  <2>4. Verdict(candidate) = Wanted
    BY <1>1, <1>5, OutcomeIsVerdict, WantedIsVerdict DEF Reproduces
  <2>5. PICK p : p = candidate
    OBVIOUS
  <2>6. Verdict(plan)' = Verdict(p)
    BY <1>1, <1>5, <2>5, SameVerdict
  <2>7. KeptPlanReproduces'
    BY <1>1, <2>4, <2>5, <2>6 DEF KeptPlanReproduces, Wanted
  <2>. QED  BY <2>1, <2>2, <2>3, <2>7 DEF ReductionKept
<1>. QED  BY <1>3, <1>4, <1>5


LEMMA NextKeepsReduction ==
  ASSUME ReductionKept, case \in Cases, [Next]_vars
  PROVE  ReductionKept'
<1>1. CASE Searching \/ UNCHANGED vars
  <2>1. UNCHANGED <<case, reduction>>
    <3>1. CASE BudgetStep
      BY <1>1, <3>1 DEF Searching, BudgetStep, BudgetRunsOut, job, vars
    <3>2. CASE Step
      BY <1>1, <3>2 DEF Searching, Step, Conclude, StopAtHead, BranchAt, StopBranching,
         Branched,
         Dispatch, RunReturns, Budget, job, vars
    <3>. QED  BY <1>1, <3>1, <3>2 DEF Searching, vars, job
  <2>. QED  BY <2>1, OthersKeepReduction
<1>2. CASE Reduce
  BY <1>2, StopKeeps, TryKeeps, PassEndsHonestly, VerificationKeeps, TrialKeeps DEF Reduce
<1>3. CASE \E s \in {"deadline", "aborted"} : ReductionBudgetRunsOut(s)
  BY <1>3, BudgetKeepsReduction
<1>. QED  BY <1>1, <1>2, <1>3 DEF Next

(* What minimize() reports is true (src/minimize.ts): the choices it keeps *)
(* lead to the recorded failure under the runner's own fallback, and       *)
(* locallyMinimal is reported exactly when every single choice left was    *)
(* deleted in a trial that came back without the failure, for plans of any *)
(* length and however the budget, the limit of attempts and hard failures  *)
(* cut the passes.                                                         *)
THEOREM ReductionReportsHonestly == Spec => []ReductionIsHonest
<1>1. CommandInit => SearchKept /\ ReductionKept
  BY SearchInit, ReductionStarts, ReductionBegins DEF CommandInit
<1>2. SearchKept /\ ReductionKept /\ [Next]_vars => SearchKept' /\ ReductionKept'
  BY NextKeepsSearch, NextKeepsReduction DEF SearchKept, SearchTyped
<1>3. ReductionKept => ReductionIsHonest
  <2>1. ReductionKept => LocallyMinimalIsHonest
    <3>. SUFFICES ASSUME ReductionKept PROVE LocallyMinimalIsHonest
      OBVIOUS
    <3>1. DOMAIN <<>> = {}
      OBVIOUS
    <3>. QED  BY <3>1 DEF ReductionKept, ClaimIsHonest, LocallyMinimalIsHonest
  <2>. QED  BY <2>1 DEF ReductionKept, ReductionIsHonest
<1>. QED  BY <1>1, <1>2, <1>3, PTL DEF Spec

================================================================================
