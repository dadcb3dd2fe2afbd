----------------------------- MODULE Replay_proofs -----------------------------
(***************************************************************************)
(* The exact replay of a recorded run, for any recordings, applications    *)
(* and connections: a verdict is given over the recorded execution alone.  *)
(***************************************************************************)
EXTENDS Regression, FiniteSetTheorems, FunctionTheorems, WellFoundedInduction, TLAPS

-----------------------------------------------------------------------------
(***************************************************************************)
(* One-to-one pairings of two finite sets.                                 *)
(***************************************************************************)
(* The element that B pairs r with. *)
Partner(B, r) == (CHOOSE b \in B : b[1] = r)[2]

Paired1(B, r) == \E b \in B : b[1] = r
Paired2(B, o) == \E b \in B : b[2] = o

OneToOne(B) == \A b, d \in B : b[1] = d[1] <=> b[2] = d[2]

LEMMA PartnerPairs ==
  ASSUME NEW R, NEW O, NEW B \in SUBSET (R \X O), OneToOne(B), NEW r, Paired1(B, r)
  PROVE  <<r, Partner(B, r)>> \in B /\ \A b \in B : b[1] = r => b[2] = Partner(B, r)
<1>. DEFINE b == CHOOSE b \in B : b[1] = r
<1>1. b \in B /\ b[1] = r
  BY DEF Paired1
<1>2. b = <<b[1], b[2]>>
  BY <1>1
<1>. QED  BY <1>1, <1>2 DEF Partner, OneToOne

(* A pairing of some elements of two finite sets that respects their keys, *)
(* each key as frequent in one set as in the other, extends to all of      *)
(* both.                                                                   *)
LEMMA PairingExtends ==
  ASSUME NEW R, NEW O, IsFiniteSet(R), IsFiniteSet(O),
         NEW K, NEW key \in [R -> K], NEW lock \in [O -> K],
         \A k \in K : Cardinality({r \in R : key[r] = k}) = Cardinality({o \in O : lock[o] = k}),
         NEW B \in SUBSET (R \X O), OneToOne(B), \A b \in B : key[b[1]] = lock[b[2]]
  PROVE  \E f \in [R -> O] :
           /\ \A r, q \in R : f[r] = f[q] => r = q
           /\ \A o \in O : \E r \in R : f[r] = o
           /\ \A r \in R : key[r] = lock[f[r]]
           /\ \A b \in B : f[b[1]] = b[2]
<1>. DEFINE RK(k) == {r \in R : key[r] = k}
            OK(k) == {o \in O : lock[o] = k}
            RB(k) == {r \in RK(k) : Paired1(B, r)}
            OB(k) == {o \in OK(k) : Paired2(B, o)}
            RF(k) == RK(k) \ RB(k)
            OF(k) == OK(k) \ OB(k)
<1>0. \A b \in B : b[2] = Partner(B, b[1])
  <2>1. ASSUME NEW r, Paired1(B, r) PROVE \A b \in B : b[1] = r => b[2] = Partner(B, r)
    <3>1. <<r, Partner(B, r)>> \in B
      BY <2>1, PartnerPairs
    <3>. QED  BY <3>1 DEF OneToOne
  <2>2. \A b \in B : Paired1(B, b[1])
    BY DEF Paired1
  <2>. QED  BY <2>1, <2>2
<1>1. ASSUME NEW k \in K PROVE ExistsBijection(RF(k), OF(k))
  <2>1. IsFiniteSet(RK(k)) /\ IsFiniteSet(OK(k))
    <3>1. RK(k) \in SUBSET R /\ OK(k) \in SUBSET O
      OBVIOUS
    <3>. QED  BY <3>1, FS_Subset
  <2>2. IsFiniteSet(RB(k)) /\ IsFiniteSet(OB(k))
    <3>1. RB(k) \in SUBSET RK(k) /\ OB(k) \in SUBSET OK(k)
      OBVIOUS
    <3>. QED  BY <2>1, <3>1, FS_Subset
  <2>3. Cardinality(RB(k)) = Cardinality(OB(k))
    <3>. DEFINE g == [r \in RB(k) |-> Partner(B, r)]
    <3>1. ASSUME NEW r \in RB(k) PROVE g[r] \in OB(k) /\ <<r, g[r]>> \in B
      <4>1. <<r, Partner(B, r)>> \in B
        BY PartnerPairs
      <4>. QED  BY <4>1 DEF Paired2
    <3>2. \A r, q \in RB(k) : g[r] = g[q] => r = q
      <4>. SUFFICES ASSUME NEW r \in RB(k), NEW q \in RB(k), g[r] = g[q] PROVE r = q
        OBVIOUS
      <4>. HIDE DEF g
      <4>. QED  BY <3>1 DEF OneToOne
    <3>3. \A o \in OB(k) : \E r \in RB(k) : g[r] = o
      <4>. SUFFICES ASSUME NEW o \in OB(k) PROVE \E r \in RB(k) : g[r] = o
        OBVIOUS
      <4>1. PICK b \in B : b[2] = o
        BY DEF Paired2
      <4>2. b[1] \in RB(k)
        BY <4>1 DEF Paired1
      <4>3. b[2] = Partner(B, b[1])
        BY <1>0
      <4>. QED  BY <4>1, <4>2, <4>3
    <3>4. g \in [RB(k) -> OB(k)]
      BY <3>1
    <3>. HIDE DEF g
    <3>5. g \in Bijection(RB(k), OB(k))
      BY <3>2, <3>3, <3>4, Fun_IsBij
    <3>6. ExistsBijection(RB(k), OB(k))
      BY <3>5, Fun_ExistsBij
    <3>. QED  BY <2>2, <3>6, FS_Bijection
  <2>4. Cardinality(RK(k)) = Cardinality(OK(k))
    BY Zenon
  <2>5. IsFiniteSet(RF(k)) /\ Cardinality(RF(k)) = Cardinality(RK(k)) - Cardinality(RB(k))
    <3>1. RK(k) \cap RB(k) = RB(k)
      OBVIOUS
    <3>. HIDE DEF RK, RB
    <3>2. /\ IsFiniteSet(RK(k) \ RB(k))
          /\ Cardinality(RK(k) \ RB(k)) = Cardinality(RK(k)) - Cardinality(RK(k) \cap RB(k))
      BY <2>1, FS_Difference
    <3>. QED  BY <3>1, <3>2
  <2>6. IsFiniteSet(OF(k)) /\ Cardinality(OF(k)) = Cardinality(OK(k)) - Cardinality(OB(k))
    <3>1. OK(k) \cap OB(k) = OB(k)
      OBVIOUS
    <3>. HIDE DEF OK, OB
    <3>2. /\ IsFiniteSet(OK(k) \ OB(k))
          /\ Cardinality(OK(k) \ OB(k)) = Cardinality(OK(k)) - Cardinality(OK(k) \cap OB(k))
      BY <2>1, FS_Difference
    <3>. QED  BY <3>1, <3>2
  <2>. HIDE DEF RK, RB, OK, OB, RF, OF
  <2>. QED  BY <2>3, <2>4, <2>5, <2>6, FS_SameCardinalityBij
<1>. DEFINE h(k) == CHOOSE h \in Bijection(RF(k), OF(k)) : TRUE
<1>2. ASSUME NEW k \in K PROVE h(k) \in Bijection(RF(k), OF(k))
  <2>1. Bijection(RF(k), OF(k)) # {}
    <3>. HIDE DEF RF, OF
    <3>. QED  BY <1>1, Fun_ExistsBij
  <2>. QED  BY <2>1
<1>3. ASSUME NEW k \in K
      PROVE  /\ \A r \in RF(k) : h(k)[r] \in OF(k)
             /\ \A r, q \in RF(k) : h(k)[r] = h(k)[q] => r = q
             /\ \A o \in OF(k) : \E r \in RF(k) : h(k)[r] = o
  <2>. HIDE DEF h, RF, OF
  <2>1. h(k) \in Bijection(RF(k), OF(k))
    BY <1>2
  <2>2. /\ h(k) \in [RF(k) -> OF(k)]
        /\ \A r, q \in RF(k) : h(k)[r] = h(k)[q] => r = q
        /\ \A o \in OF(k) : \E r \in RF(k) : h(k)[r] = o
    BY <2>1, Fun_BijectionProperties
  <2>. QED  BY <2>2
<1>. DEFINE f == [r \in R |-> IF Paired1(B, r) THEN Partner(B, r) ELSE h(key[r])[r]]
<1>. HIDE DEF h
<1>4. ASSUME NEW r \in R, Paired1(B, r)
      PROVE  f[r] \in O /\ Paired2(B, f[r]) /\ key[r] = lock[f[r]] /\ <<r, f[r]>> \in B
  <2>1. <<r, Partner(B, r)>> \in B
    BY <1>4, PartnerPairs
  <2>2. f[r] = Partner(B, r)
    BY <1>4
  <2>. HIDE DEF f
  <2>. QED  BY <2>1, <2>2 DEF Paired2
<1>5. ASSUME NEW r \in R, ~Paired1(B, r)
      PROVE  f[r] = h(key[r])[r] /\ r \in RF(key[r]) /\ f[r] \in OF(key[r])
             /\ f[r] \in O /\ ~Paired2(B, f[r]) /\ key[r] = lock[f[r]]
  <2>1. r \in RF(key[r]) /\ key[r] \in K
    BY <1>5
  <2>2. f[r] = h(key[r])[r]
    BY <1>5
  <2>3. h(key[r])[r] \in OF(key[r])
    <3>. HIDE DEF f, RF, OF
    <3>. QED  BY <1>3, <2>1
  <2>. HIDE DEF f
  <2>4. f[r] \in O /\ ~Paired2(B, f[r]) /\ key[r] = lock[f[r]]
    BY <2>2, <2>3
  <2>. QED  BY <2>1, <2>2, <2>3, <2>4
<1>6. f \in [R -> O]
  BY <1>4, <1>5
<1>7. \A r, q \in R : f[r] = f[q] => r = q
  <2>. SUFFICES ASSUME NEW r \in R, NEW q \in R, f[r] = f[q] PROVE r = q
    OBVIOUS
  <2>. HIDE DEF f
  <2>1. CASE Paired1(B, r) /\ Paired1(B, q)
    BY <1>4, <2>1 DEF OneToOne
  <2>2. CASE ~Paired1(B, r) /\ ~Paired1(B, q)
    <3>1. key[r] = key[q] /\ key[r] \in K
      BY <1>5, <2>2
    <3>2. r \in RF(key[r]) /\ q \in RF(key[r]) /\ h(key[r])[r] = h(key[r])[q]
      <4>. HIDE DEF RF, OF
      <4>. QED  BY <1>5, <2>2, <3>1
    <3>. HIDE DEF RF, OF
    <3>. QED  BY <1>3, <3>1, <3>2
  <2>3. (Paired1(B, r) /\ ~Paired1(B, q)) => FALSE
    BY <1>4, <1>5
  <2>4. (Paired1(B, q) /\ ~Paired1(B, r)) => FALSE
    BY <1>4, <1>5
  <2>. QED  BY <2>1, <2>2, <2>3, <2>4
<1>8. \A o \in O : \E r \in R : f[r] = o
  <2>. SUFFICES ASSUME NEW o \in O PROVE \E r \in R : f[r] = o
    OBVIOUS
  <2>1. CASE Paired2(B, o)
    <3>1. PICK b \in B : b[2] = o
      BY <2>1 DEF Paired2
    <3>2. b[1] \in R /\ Paired1(B, b[1])
      BY DEF Paired1
    <3>3. b[2] = Partner(B, b[1])
      BY <1>0
    <3>. QED  BY <3>1, <3>2, <3>3
  <2>2. CASE ~Paired2(B, o)
    <3>1. lock[o] \in K /\ o \in OF(lock[o])
      BY <2>2
    <3>2. PICK r \in RF(lock[o]) : h(lock[o])[r] = o
      <4>. HIDE DEF RF, OF
      <4>. QED  BY <1>3, <3>1
    <3>3. r \in R /\ ~Paired1(B, r) /\ key[r] = lock[o]
      OBVIOUS
    <3>. QED  BY <3>2, <3>3
  <2>. QED  BY <2>1, <2>2
<1>9. \A r \in R : key[r] = lock[f[r]]
  <2>. HIDE DEF f
  <2>. QED  BY <1>4, <1>5
<1>10. \A b \in B : f[b[1]] = b[2]
  <2>. SUFFICES ASSUME NEW b \in B PROVE f[b[1]] = b[2]
    OBVIOUS
  <2>1. b[1] \in R /\ Paired1(B, b[1])
    BY DEF Paired1
  <2>2. b[2] = Partner(B, b[1])
    BY <1>0
  <2>. QED  BY <2>1, <2>2
<1>. HIDE DEF f
<1>. QED  BY <1>6, <1>7, <1>8, <1>9, <1>10

-----------------------------------------------------------------------------
(***************************************************************************)
(* The invariant of the loop.                                              *)
(***************************************************************************)
Released == [lane : Lane, command : STRING, ordinal : Nat, blocker : Lane \union {None}]

ReplayStates ==
  [at : {"idle", "fixture", "running", "verdict", "incompatible", "failed"},
   trace : Seq(Released), bound : SUBSET (Lane \X Lane), patience : {"fresh", "waiting", "out"}]

LiveLane == [conn : {"new", "open", "closed"}, head : STRING \union {Nothing}, done : Nat,
             running : {"no", "yes", "blocked"}]

ReplayTyped ==
  /\ recording \in Recordings /\ ScriptsOf(application)
  /\ replay \in ReplayStates /\ live \in [Lane -> LiveLane]

(* The loop runs over the recorded fixture alone. *)
SameStart ==
  /\ task # "replay" => replay.at = "idle"
  /\ replay.at \in {"idle", "fixture"} => live = [l \in Lane |-> IdleLane]
  /\ replay.at \in {"running", "verdict"} =>
       fixture.at = "captured" /\ fixture.read = recording.fixture

(* A connection issues its script, one command after the other. *)
LaneSteps(l) == {i \in DOMAIN replay.trace : replay.trace[i].lane = l}

Begun(l) == live[l].done + (IF Busy(l) THEN 1 ELSE 0)

Scripted(l) ==
  /\ Cardinality(LaneSteps(l)) = Begun(l)
  /\ ~Connected(l) => live[l].head = Nothing /\ ~Busy(l) /\ live[l].done = 0
  /\ Connected(l) =>
       /\ l \in DOMAIN application.startup
       /\ Begun(l) <= Len(Script(l))
       /\ live[l].head # Nothing =>
            ~Busy(l) /\ live[l].done < Len(Script(l)) /\ live[l].head = Script(l)[live[l].done + 1]
  /\ live[l].conn = "closed" =>
       ~Busy(l) /\ live[l].head = Nothing /\ live[l].done = Len(Script(l))

(* A step holds its place among those of its lane. *)
Placed(i) ==
  LET l == replay.trace[i].lane
  IN  /\ replay.trace[i].ordinal = Cardinality({j \in LaneSteps(l) : j <= i})
      /\ replay.trace[i].ordinal \in 1 .. Len(Script(l))
      /\ replay.trace[i].command = Script(l)[replay.trace[i].ordinal]

(* What stands for what is one-to-one, and connected alike. *)
StandsAlike(b) ==
  /\ b[1] \in Recorded /\ SameStartup(b[1], b[2]) /\ Connected(b[2])
  /\ ~recording.multi => b[1] = b[2]

Standing == OneToOne(replay.bound) /\ \A b \in replay.bound : StandsAlike(b)

(* Without a binder every connection is the recorded one. *)
Admitted(l) ==
  Connected(l) /\ ~recording.multi /\ replay.at \in {"running", "verdict"} =>
    l \in Recorded /\ SameStartup(l, l)

(* Each step is the recorded one, on the connection that stands for the    *)
(* recorded. *)
Repeats(i) ==
  /\ i \in DOMAIN recording.trace
  /\ <<recording.trace[i].lane, replay.trace[i].lane>> \in replay.bound
  /\ replay.trace[i].command = recording.trace[i].command

(* What ReplayFinish has compared stays as it was. *)
Concluded ==
  replay.at = "verdict" =>
    /\ \A a \in Actors : Settled(a)
    /\ Complete
    /\ Len(replay.trace) = Len(recording.trace)
    /\ \A i \in DOMAIN replay.trace : SameEvidence(i)

Reproducing ==
  /\ ReplayTyped /\ SameStart /\ Standing /\ Concluded
  /\ \A l \in Lane : Scripted(l) /\ Admitted(l)
  /\ \A i \in DOMAIN replay.trace : Placed(i) /\ Repeats(i)

-----------------------------------------------------------------------------
(***************************************************************************)
(* What a verdict means.                                                   *)
(***************************************************************************)
(* The elements of a finite set of numbers have the ranks 1, 2, ...        *)
LEMMA RanksAreAll ==
  ASSUME NEW S \in SUBSET Nat, IsFiniteSet(S)
  PROVE  /\ Cardinality(S) \in Nat
         /\ \A n \in 1 .. Cardinality(S) : \E i \in S : Cardinality({j \in S : j <= i}) = n
<1>. DEFINE Upto(i) == {j \in S : j <= i}
            rank == [i \in S |-> Cardinality(Upto(i))]
<1>1. Cardinality(S) \in Nat
  BY FS_CardinalityType
<1>2. ASSUME NEW i \in S PROVE IsFiniteSet(Upto(i)) /\ Cardinality(Upto(i)) \in 1 .. Cardinality(S)
  <2>1. Upto(i) \in SUBSET S /\ Upto(i) # {}
    OBVIOUS
  <2>. HIDE DEF Upto
  <2>2. IsFiniteSet(Upto(i)) /\ Cardinality(Upto(i)) <= Cardinality(S)
    BY <2>1, FS_Subset
  <2>3. Cardinality(Upto(i)) \in Nat /\ Cardinality(Upto(i)) # 0
    BY <2>1, <2>2, FS_CardinalityType, FS_EmptySet
  <2>. QED  BY <1>1, <2>2, <2>3
<1>3. ASSUME NEW i \in S, NEW k \in S, i < k PROVE Cardinality(Upto(i)) # Cardinality(Upto(k))
  <2>0. i \in Nat /\ k \in Nat /\ k \in Upto(k) /\ k \notin Upto(i)
    BY <1>3
  <2>1. Upto(i) \in SUBSET Upto(k)
    <3>1. \A j \in S : j <= i => j <= k
      BY <1>3
    <3>. QED  BY <3>1
  <2>2. IsFiniteSet(Upto(k))
    BY <1>2
  <2>. HIDE DEF Upto
  <2>3. Upto(i) # Upto(k)
    BY <2>0
  <2>. QED  BY <2>1, <2>2, <2>3, FS_Subset
<1>4. rank \in [S -> 1 .. Cardinality(S)]
  BY <1>2
<1>5. \A i, k \in S : rank[i] = rank[k] => i = k
  <2>. HIDE DEF Upto
  <2>1. \A i, k \in S : i < k => rank[i] # rank[k]
    BY <1>3
  <2>. QED  BY <2>1
<1>. HIDE DEF rank
<1>6. rank \in Injection(S, 1 .. Cardinality(S))
  BY <1>4, <1>5, Fun_IsInj
<1>7. IsFiniteSet(1 .. Cardinality(S)) /\ Cardinality(1 .. Cardinality(S)) = Cardinality(S)
  BY <1>1, FS_Interval
<1>8. rank \in Surjection(S, 1 .. Cardinality(S))
  BY <1>6, <1>7, FS_Injection
<1>9. \A n \in 1 .. Cardinality(S) : \E i \in S : rank[i] = n
  BY <1>8, Fun_SurjectionProperties
<1>. QED  BY <1>1, <1>9 DEF rank

(* At a verdict every connection has issued its script.                    *)
LEMMA AllIssued ==
  ASSUME Reproducing, replay.at = "verdict", NEW l \in Lane, Connected(l)
  PROVE  /\ l \in DOMAIN application.startup
         /\ Cardinality(LaneSteps(l)) = Len(Script(l))
<1>1. Scripted(l) /\ ReplayTyped /\ \A a \in Actors : Settled(a)
  BY DEF Reproducing, Concluded
<1>2. l \in DOMAIN application.startup
  BY <1>1 DEF Scripted
<1>3. l.actor \in Actors /\ l \in Opens(l.actor)
  BY <1>2 DEF Actors, Opens
<1>4. live[l].conn = "closed"
  BY <1>1, <1>3 DEF Settled
<1>. QED  BY <1>1, <1>2, <1>4 DEF Scripted, Begun, ReplayTyped

(* At a verdict what stands for what extends to all connections.           *)
Extends(f) ==
  /\ f \in Pairings
  /\ \A l \in Lane : Connected(l) => \E r \in Recorded : f[r] = l
  /\ \A b \in replay.bound : f[b[1]] = b[2]

LEMMA RecordedLanes ==
  ASSUME ReplayTyped
  PROVE  Recorded \in SUBSET Lane /\ IsFiniteSet(Recorded)
<1>1. Recorded \in SUBSET Lane
  BY RecordingAssumption DEF ReplayTyped, Recorded
<1>. QED  BY <1>1, LaneAssumption, FS_Subset

LEMMA PairedWithBinder ==
  ASSUME Reproducing, replay.at = "verdict", recording.multi
  PROVE  \E f : Extends(f)
<1>. DEFINE R == Recorded
            O == {l \in Lane : Connected(l)}
            key == [r \in R |-> <<r.actor, recording.startup[r]>>]
            lock == [l \in O |-> <<l.actor, application.startup[l]>>]
            K == {key[r] : r \in R} \union {lock[l] : l \in O}
            Alike(l) == {m \in O : m.actor = l.actor /\ application.startup[m] = application.startup[l]}
            B == replay.bound
<1>1. IsFiniteSet(R) /\ IsFiniteSet(O) /\ R \in SUBSET Lane
  <2>1. O \in SUBSET Lane
    OBVIOUS
  <2>. QED  BY <2>1, RecordedLanes, LaneAssumption, FS_Subset DEF Reproducing
<1>2. /\ \A l \in O : Cardinality(Alike(l)) = Cardinality(Namesakes(l))
      /\ \A r \in R : \E l \in O : SameStartup(r, l)
  BY DEF Reproducing, Concluded, Complete
<1>3. ASSUME NEW l \in O
      PROVE  /\ {r \in R : key[r] = lock[l]} = Namesakes(l)
             /\ {m \in O : lock[m] = lock[l]} = Alike(l)
  BY DEF Namesakes, SameStartup
<1>4. ASSUME NEW k \in K PROVE \E l \in O : k = lock[l]
  <2>1. ASSUME NEW r \in R PROVE \E l \in O : key[r] = lock[l]
    <3>1. PICK l \in O : SameStartup(r, l)
      BY <1>2
    <3>. QED  BY <3>1 DEF SameStartup
  <2>. HIDE DEF key, lock, R, O
  <2>. QED  BY <2>1
<1>5. \A k \in K : Cardinality({r \in R : key[r] = k}) = Cardinality({l \in O : lock[l] = k})
  <2>. SUFFICES ASSUME NEW k \in K
                PROVE  Cardinality({r \in R : key[r] = k}) = Cardinality({l \in O : lock[l] = k})
    OBVIOUS
  <2>1. PICK l \in O : k = lock[l]
    BY <1>4
  <2>. HIDE DEF key, lock, R, O, K, Alike
  <2>. QED  BY <1>2, <1>3, <2>1
<1>6. key \in [R -> K] /\ lock \in [O -> K]
  OBVIOUS
<1>7. OneToOne(B) /\ \A b \in B : StandsAlike(b) /\ b \in Lane \X Lane
  BY DEF Reproducing, Standing, ReplayTyped, ReplayStates
<1>8. B \in SUBSET (R \X O) /\ \A b \in B : key[b[1]] = lock[b[2]]
  BY <1>7 DEF StandsAlike, SameStartup
<1>. HIDE DEF key, lock, R, O, K, B
<1>9. PICK f \in [R -> O] :
        /\ \A r, q \in R : f[r] = f[q] => r = q
        /\ \A o \in O : \E r \in R : f[r] = o
        /\ \A r \in R : key[r] = lock[f[r]]
        /\ \A b \in B : f[b[1]] = b[2]
  BY <1>1, <1>5, <1>6, <1>7, <1>8, PairingExtends
<1>10. \A r \in R : SameStartup(r, f[r])
  BY <1>9 DEF SameStartup, key, lock
<1>11. f \in Pairings
  BY <1>9, <1>10 DEF Pairings, R, O
<1>. QED  BY <1>9, <1>11 DEF Extends, R, O, B

LEMMA PairedWithoutBinder ==
  ASSUME Reproducing, replay.at = "verdict", ~recording.multi
  PROVE  \E f : Extends(f)
<1>. DEFINE O == {l \in Lane : Connected(l)}
            f == [r \in Recorded |-> r]
<1>1. \A l \in O : l \in Recorded /\ SameStartup(l, l)
  BY DEF Reproducing, Admitted
<1>2. Cardinality(O) = Cardinality(Recorded)
  BY DEF Reproducing, Concluded, Complete
<1>3. IsFiniteSet(Recorded)
  BY RecordedLanes DEF Reproducing
<1>4. O = Recorded
  <2>1. O \in SUBSET Recorded
    BY <1>1
  <2>. HIDE DEF O
  <2>. QED  BY <1>2, <1>3, <2>1, FS_Subset
<1>5. f \in [Recorded -> O] /\ \A r \in Recorded : f[r] = r
  <2>. HIDE DEF O
  <2>. QED  BY <1>4
<1>. HIDE DEF f
<1>6. f \in Pairings
  BY <1>1, <1>4, <1>5 DEF Pairings
<1>7. \A b \in replay.bound : b[1] \in Recorded /\ b[1] = b[2]
  BY DEF Reproducing, Standing, StandsAlike
<1>. QED  BY <1>1, <1>5, <1>6, <1>7 DEF Extends

(* The steps of a recorded connection are those of the one that stands for *)
(* it, and with them their commands are. *)
LEMMA SameSteps ==
  ASSUME Reproducing, replay.at = "verdict", NEW f, Extends(f), NEW r \in Recorded
  PROVE  Steps(r) = LaneSteps(f[r])
<1>1. /\ f \in [Recorded -> {l \in Lane : Connected(l)}]
      /\ \A p, q \in Recorded : f[p] = f[q] => p = q
  BY DEF Extends, Pairings
<1>2. DOMAIN replay.trace = DOMAIN recording.trace
  BY RecordingAssumption DEF Reproducing, Concluded, ReplayTyped, StepsOf
<1>3. ASSUME NEW i \in DOMAIN replay.trace
      PROVE  /\ recording.trace[i].lane \in Recorded
             /\ f[recording.trace[i].lane] = replay.trace[i].lane
  <2>1. <<recording.trace[i].lane, replay.trace[i].lane>> \in replay.bound
    BY DEF Reproducing, Repeats
  <2>2. \A b \in replay.bound : b[1] \in Recorded
    BY DEF Reproducing, Standing, StandsAlike
  <2>. QED  BY <2>1, <2>2 DEF Extends
<1>. QED  BY <1>1, <1>2, <1>3 DEF Steps, LaneSteps

LEMMA SameCommands ==
  ASSUME Reproducing, replay.at = "verdict", NEW f, Extends(f), NEW r \in Recorded
  PROVE  Commands(r) = Script(f[r])
<1>. DEFINE l == f[r]
            S == Steps(r)
            Upto(i) == {j \in S : j <= i}
            Nth(n) == CHOOSE i \in S : Cardinality(Upto(i)) = n
<1>1. l \in Lane /\ Connected(l)
  BY DEF Extends, Pairings
<1>2. S = LaneSteps(l)
  BY SameSteps
<1>3. l \in DOMAIN application.startup /\ Cardinality(S) = Len(Script(l))
  BY <1>1, <1>2, AllIssued
<1>4. Script(l) \in Seq(STRING)
  BY <1>3 DEF Reproducing, ReplayTyped, ScriptsOf, Script
<1>5. S \in SUBSET Nat /\ IsFiniteSet(S)
  <2>1. Len(recording.trace) \in Nat /\ DOMAIN recording.trace = 1 .. Len(recording.trace)
    BY RecordingAssumption DEF Reproducing, ReplayTyped, StepsOf
  <2>2. S \in SUBSET (1 .. Len(recording.trace))
    BY <2>1 DEF Steps
  <2>. HIDE DEF S
  <2>3. IsFiniteSet(1 .. Len(recording.trace)) /\ 1 .. Len(recording.trace) \in SUBSET Nat
    BY <2>1, FS_Interval
  <2>. QED  BY <2>2, <2>3, FS_Subset
<1>6. ASSUME NEW n \in 1 .. Cardinality(S)
      PROVE  Nth(n) \in S /\ Cardinality(Upto(Nth(n))) = n
  <2>. HIDE DEF S
  <2>1. \E i \in S : Cardinality(Upto(i)) = n
    BY <1>5, RanksAreAll
  <2>. HIDE DEF Upto
  <2>. QED  BY <2>1
<1>7. ASSUME NEW n \in 1 .. Cardinality(S)
      PROVE  recording.trace[Nth(n)].command = Script(l)[n]
  <2>. DEFINE i == Nth(n)
  <2>1. i \in LaneSteps(l) /\ Cardinality({j \in LaneSteps(l) : j <= i}) = n
    <3>. HIDE DEF S, Nth
    <3>. QED  BY <1>2, <1>6
  <2>. HIDE DEF i
  <2>2. i \in DOMAIN replay.trace /\ replay.trace[i].lane = l
    BY <2>1 DEF LaneSteps
  <2>3. Placed(i) /\ Repeats(i)
    BY <2>2 DEF Reproducing
  <2>4. replay.trace[i].ordinal = n /\ replay.trace[i].command = Script(l)[n]
    BY <2>1, <2>2, <2>3 DEF Placed
  <2>5. recording.trace[i].command = Script(l)[n]
    BY <2>3, <2>4 DEF Repeats
  <2>. QED  BY <2>5 DEF i
<1>8. Commands(r) = [n \in 1 .. Cardinality(S) |-> recording.trace[Nth(n)].command]
  BY DEF Commands
<1>. HIDE DEF S, Nth, l
<1>9. Script(l) = [n \in 1 .. Cardinality(S) |-> Script(l)[n]]
  BY <1>3, <1>4
<1>10. Commands(r) = Script(l)
  BY <1>7, <1>8, <1>9
<1>. QED  BY <1>10 DEF l

LEMMA ReproducingReproduces == Reproducing => ReplayReproduces
<1>. SUFFICES ASSUME Reproducing, replay.at = "verdict" PROVE ReplayReproduces
  BY DEF ReplayReproduces
<1>1. PICK f : Extends(f)
  BY PairedWithBinder, PairedWithoutBinder
<1>2. f \in Pairings /\ \A l \in Lane : Connected(l) => \E r \in Recorded : f[r] = l
  BY <1>1 DEF Extends
<1>3. \A r \in Recorded : Commands(r) = Script(f[r])
  BY <1>1, SameCommands
<1>4. fixture.read = recording.fixture /\ Len(replay.trace) = Len(recording.trace)
  BY DEF Reproducing, SameStart, Concluded
<1>5. ASSUME NEW i \in DOMAIN replay.trace
      PROVE  LET was == recording.trace[i]
                 is  == replay.trace[i]
                 pair == was.paired \/ (i > 1 /\ recording.trace[i - 1].paired)
             IN  /\ is.lane = f[was.lane] /\ is.command = was.command
                 /\ \/ pair
                    \/ ~recording.multi
                    \/ is.blocker = IF was.blocker = None THEN None ELSE f[was.blocker]
  <2>1. Repeats(i) /\ SameEvidence(i)
    BY DEF Reproducing, Concluded
  <2>2. \A b \in replay.bound : f[b[1]] = b[2]
    BY <1>1 DEF Extends
  <2>3. replay.trace[i].lane = f[recording.trace[i].lane] /\ replay.trace[i].command = recording.trace[i].command
    BY <2>1, <2>2 DEF Repeats
  <2>. QED  BY <2>1, <2>2, <2>3 DEF SameEvidence
<1>. QED  BY <1>2, <1>3, <1>4, <1>5 DEF ReplayReproduces

-----------------------------------------------------------------------------
(***************************************************************************)
(* Steps that release nothing.                                             *)
(***************************************************************************)
SameReleases ==
  /\ DOMAIN replay'.trace = DOMAIN replay.trace
  /\ \A i \in DOMAIN replay.trace :
       /\ replay'.trace[i].lane = replay.trace[i].lane
       /\ replay'.trace[i].command = replay.trace[i].command
       /\ replay'.trace[i].ordinal = replay.trace[i].ordinal
  /\ replay'.bound = replay.bound
  /\ UNCHANGED <<recording, application>>

LEMMA ReproducingInit == Init => Reproducing
<1>. SUFFICES ASSUME Init PROVE Reproducing
  OBVIOUS
<1>1. ReplayInit /\ task \in {"write", "export", "capture", "replay"}
  BY DEF Init
<1>2. replay.trace = <<>> /\ replay.bound = {} /\ replay.at = "idle" /\ live = [l \in Lane |-> IdleLane]
  BY <1>1 DEF ReplayInit
<1>3. DOMAIN replay.trace = {}
  BY <1>2
<1>4. ReplayTyped
  <2>1. recording \in Recordings /\ application \in Applications \union {recording.by}
    BY <1>1 DEF ReplayInit
  <2>2. ScriptsOf(application)
    BY <2>1, RecordingAssumption
  <2>3. IdleLane \in LiveLane
    BY DEF IdleLane, LiveLane
  <2>4. replay = [at |-> "idle", trace |-> <<>>, bound |-> {}, patience |-> "fresh"]
    BY <1>1 DEF ReplayInit
  <2>. QED  BY <1>2, <2>1, <2>2, <2>3, <2>4 DEF ReplayTyped, ReplayStates
<1>5. ASSUME NEW l \in Lane PROVE Scripted(l) /\ Admitted(l)
  <2>1. live[l].conn = "new" /\ live[l].head = Nothing /\ live[l].done = 0 /\ live[l].running = "no"
    BY <1>2 DEF IdleLane
  <2>2. LaneSteps(l) = {}
    BY <1>3 DEF LaneSteps
  <2>3. Cardinality(LaneSteps(l)) = 0
    BY <2>2, FS_EmptySet
  <2>. QED  BY <1>2, <2>1, <2>3 DEF Scripted, Admitted, Begun, Busy, Connected
<1>6. SameStart /\ Standing /\ Concluded
  BY <1>2 DEF SameStart, Standing, Concluded, OneToOne
<1>. QED  BY <1>3, <1>4, <1>5, <1>6 DEF Reproducing

LEMMA SameLaneSteps ==
  ASSUME SameReleases, NEW l
  PROVE  LaneSteps(l)' = LaneSteps(l)
BY DEF SameReleases, LaneSteps

LEMMA StillScripted ==
  ASSUME Reproducing, SameReleases, NEW l \in Lane, live'[l] = live[l]
  PROVE  Scripted(l)'
<1>1. Scripted(l)
  BY DEF Reproducing
<1>2. LaneSteps(l)' = LaneSteps(l)
  BY SameLaneSteps
<1>3. application' = application
  BY DEF SameReleases
<1>. QED  BY <1>1, <1>2, <1>3 DEF Scripted, Begun, Busy, Connected, Script

LEMMA Continues ==
  ASSUME Reproducing, SameReleases, ReplayTyped', SameStart', Concluded',
         \A l \in Lane : Connected(l) => Connected(l)',
         \A l \in Lane : Scripted(l)' /\ Admitted(l)'
  PROVE  Reproducing'
<1>1. recording' = recording /\ application' = application /\ replay'.bound = replay.bound
  BY DEF SameReleases
<1>2. Standing'
  <2>1. Standing /\ replay.bound \in SUBSET (Lane \X Lane)
    BY DEF Reproducing, ReplayTyped, ReplayStates
  <2>2. ASSUME NEW b \in replay.bound PROVE StandsAlike(b)'
    <3>1. StandsAlike(b) /\ b[2] \in Lane
      BY <2>1 DEF Standing
    <3>. QED  BY <1>1, <3>1 DEF StandsAlike, Recorded, SameStartup
  <2>. QED  BY <1>1, <2>1, <2>2 DEF Standing, OneToOne
<1>3. ASSUME NEW i \in DOMAIN replay.trace PROVE Placed(i)' /\ Repeats(i)'
  <2>1. Placed(i) /\ Repeats(i)
    BY DEF Reproducing
  <2>2. /\ replay'.trace[i].lane = replay.trace[i].lane
        /\ replay'.trace[i].command = replay.trace[i].command
        /\ replay'.trace[i].ordinal = replay.trace[i].ordinal
    BY DEF SameReleases
  <2>3. PICK l : l = replay.trace[i].lane
    OBVIOUS
  <2>4. LaneSteps(l)' = LaneSteps(l)
    BY SameLaneSteps
  <2>5. Placed(i)'
    BY <1>1, <2>1, <2>2, <2>3, <2>4 DEF Placed, Script, LaneSteps
  <2>. QED  BY <1>1, <2>1, <2>2, <2>5 DEF Repeats
<1>. QED  BY <1>2, <1>3 DEF Reproducing, SameReleases

(* The loop turns to another stage, or loses patience. *)
LEMMA Turns ==
  ASSUME Reproducing, SameStart', Concluded', UNCHANGED <<recording, application, live>>,
         NEW at \in {"idle", "fixture", "running", "verdict", "incompatible", "failed"},
         NEW patience \in {"fresh", "waiting", "out"},
         replay' = [replay EXCEPT !.at = at, !.patience = patience],
         at = "running" => replay.at = "running" \/ live = [l \in Lane |-> IdleLane],
         at = "verdict" => replay.at \in {"running", "verdict"}
  PROVE  Reproducing'
<1>1. ReplayTyped /\ ReplayTyped'
  BY DEF Reproducing, ReplayTyped, ReplayStates, ScriptsOf
<1>2. replay'.trace = replay.trace /\ replay'.bound = replay.bound /\ replay'.at = at
  BY <1>1 DEF ReplayTyped, ReplayStates
<1>3. SameReleases
  BY <1>2 DEF SameReleases
<1>4. \A l \in Lane : Scripted(l)'
  BY <1>3, StillScripted
<1>5. ASSUME NEW l \in Lane PROVE Admitted(l)'
  <2>1. Admitted(l)
    BY DEF Reproducing
  <2>2. live = [m \in Lane |-> IdleLane] => ~Connected(l)
    BY DEF Connected, IdleLane
  <2>. QED  BY <1>2, <2>1, <2>2 DEF Admitted, Connected, Recorded, SameStartup
<1>6. \A l \in Lane : Connected(l) => Connected(l)'
  BY DEF Connected
<1>. QED  BY <1>1, <1>3, <1>4, <1>5, <1>6, Continues

(* One connection moves on while the loop runs. *)
LEMMA LaneMoves ==
  ASSUME Reproducing, Replaying, SameReleases, replay' \in ReplayStates,
         UNCHANGED <<fixture, task>>,
         replay'.at \in {"running", "incompatible"},
         NEW l \in Lane, NEW state \in LiveLane, live' = [live EXCEPT ![l] = state],
         Scripted(l)', Admitted(l)', Connected(l) => state.conn # "new"
  PROVE  Reproducing'
<1>1. ReplayTyped'
  BY DEF Reproducing, ReplayTyped, LiveLane, ReplayStates, SameReleases, ScriptsOf
<1>2. live'[l] = state /\ \A m \in Lane : m # l => live'[m] = live[m]
  BY DEF Reproducing, ReplayTyped
<1>3. SameStart'
  BY DEF Reproducing, SameStart, Replaying, SameReleases
<1>4. Concluded'
  BY DEF Concluded
<1>5. \A m \in Lane : Connected(m) => Connected(m)'
  BY <1>2 DEF Connected
<1>6. ASSUME NEW m \in Lane PROVE Scripted(m)' /\ Admitted(m)'
  <2>1. CASE m = l
    BY <2>1
  <2>2. CASE m # l
    <3>1. Scripted(m)'
      BY <1>2, <2>2, StillScripted
    <3>2. Admitted(m) /\ replay.at = "running"
      BY DEF Reproducing, Replaying
    <3>3. Admitted(m)'
      BY <1>2, <2>2, <3>2 DEF Admitted, Connected, SameReleases, Recorded, SameStartup
    <3>. QED  BY <3>1, <3>3
  <2>. QED  BY <2>1, <2>2
<1>. QED  BY <1>1, <1>3, <1>4, <1>5, <1>6, Continues

(* What is known of the connection before it moves. *)
LEMMA LaneBefore ==
  ASSUME Reproducing, NEW l \in Lane
  PROVE  /\ live[l] \in LiveLane /\ replay \in ReplayStates /\ Scripted(l) /\ Admitted(l)
         /\ l \in DOMAIN application.startup =>
              /\ Script(l) \in Seq(STRING) /\ Len(Script(l)) \in Nat
              /\ \A n \in 1 .. Len(Script(l)) : Script(l)[n] \in STRING /\ Script(l)[n] # Nothing
<1>1. ReplayTyped /\ Scripted(l) /\ Admitted(l)
  BY DEF Reproducing
<1>2. live[l] \in LiveLane /\ replay \in ReplayStates
  BY <1>1 DEF ReplayTyped, LiveLane, ReplayStates
<1>3. l \in DOMAIN application.startup => Script(l) \in Seq(STRING \ {Nothing})
  BY <1>1 DEF ReplayTyped, ScriptsOf, Script
<1>4. \A s \in Seq(STRING \ {Nothing}) :
        s \in Seq(STRING) /\ Len(s) \in Nat /\ \A n \in 1 .. Len(s) : s[n] \in STRING /\ s[n] # Nothing
  OBVIOUS
<1>. QED  BY <1>1, <1>2, <1>3, <1>4

LEMMA ConnectReproduces ==
  ASSUME Reproducing, NEW l \in Lane, Connect(l), UNCHANGED <<fixture, task>>
  PROVE  Reproducing'
<1>. DEFINE state == [live[l] EXCEPT !.conn = "open"]
<1>1. /\ live' = [live EXCEPT ![l] = state] /\ UNCHANGED <<recording, application>>
      /\ Replaying /\ l \in DOMAIN application.startup /\ live[l].conn = "new"
      /\ replay' = IF Admits(l) THEN Anew ELSE [replay EXCEPT !.at = "incompatible"]
  BY DEF Connect, Lives, MayConnect
<1>2. live[l] \in LiveLane /\ replay \in ReplayStates /\ Scripted(l) /\ Len(Script(l)) \in Nat
  BY <1>1, LaneBefore
<1>3. state \in LiveLane /\ state.conn = "open" /\ state.head = live[l].head
      /\ state.done = live[l].done /\ state.running = live[l].running
  BY <1>2 DEF LiveLane
<1>4. /\ replay' \in ReplayStates /\ SameReleases /\ replay'.at \in {"running", "incompatible"}
      /\ replay'.at = "running" => Admits(l)
  BY <1>1, <1>2 DEF ReplayStates, SameReleases, Anew, Replaying
<1>. HIDE DEF state
<1>5. live'[l] = state
  BY <1>1 DEF Reproducing, ReplayTyped
<1>6. Scripted(l)'
  <2>1. LaneSteps(l)' = LaneSteps(l)
    BY <1>4, SameLaneSteps
  <2>2. live[l].head = Nothing /\ ~Busy(l) /\ live[l].done = 0
    BY <1>1, <1>2 DEF Scripted, Connected
  <2>. QED  BY <1>1, <1>2, <1>3, <1>5, <2>1, <2>2 DEF Scripted, Begun, Busy, Connected, Script
<1>7. Admitted(l)'
  BY <1>1, <1>4 DEF Admitted, Admits, Recorded, SameStartup
<1>. QED  BY <1>1, <1>3, <1>4, <1>6, <1>7, LaneMoves

LEMMA QueueReproduces ==
  ASSUME Reproducing, NEW l \in Lane, Queue(l), UNCHANGED <<fixture, task>>
  PROVE  Reproducing'
<1>. DEFINE state == [live[l] EXCEPT !.head = Script(l)[live[l].done + 1]]
<1>1. /\ live' = [live EXCEPT ![l] = state] /\ UNCHANGED <<recording, application, replay>>
      /\ Replaying /\ live[l].conn = "open" /\ ~Busy(l) /\ live[l].done < Len(Script(l))
  BY DEF Queue, Lives, MayQueue
<1>2. live[l] \in LiveLane /\ replay \in ReplayStates /\ Scripted(l) /\ Admitted(l)
  BY LaneBefore
<1>3. l \in DOMAIN application.startup
  BY <1>1, <1>2 DEF Scripted, Connected
<1>4. Script(l)[live[l].done + 1] \in STRING /\ Len(Script(l)) \in Nat
  <2>1. live[l].done + 1 \in 1 .. Len(Script(l)) /\ Len(Script(l)) \in Nat
    BY <1>1, <1>2, <1>3, LaneBefore DEF LiveLane
  <2>. QED  BY <1>3, <2>1, LaneBefore
<1>5. state \in LiveLane /\ state.conn = "open" /\ state.head = Script(l)[live[l].done + 1]
      /\ state.done = live[l].done /\ state.running = live[l].running
  BY <1>1, <1>2, <1>4 DEF LiveLane
<1>6. SameReleases /\ replay'.at = "running" /\ replay' = replay
  BY <1>1 DEF SameReleases, Replaying
<1>. HIDE DEF state
<1>7. live'[l] = state
  BY <1>1 DEF Reproducing, ReplayTyped
<1>8. Scripted(l)'
  <2>1. LaneSteps(l)' = LaneSteps(l)
    BY <1>6, SameLaneSteps
  <2>. QED  BY <1>1, <1>2, <1>3, <1>5, <1>7, <2>1 DEF Scripted, Begun, Busy, Connected, Script
<1>9. Admitted(l)'
  BY <1>1, <1>2, <1>5, <1>7 DEF Admitted, Connected, Recorded, SameStartup
<1>. QED  BY <1>1, <1>2, <1>5, <1>6, <1>8, <1>9, LaneMoves

LEMMA CloseReproduces ==
  ASSUME Reproducing, NEW l \in Lane, Close(l), UNCHANGED <<fixture, task>>
  PROVE  Reproducing'
<1>. DEFINE state == [live[l] EXCEPT !.conn = "closed"]
<1>1. /\ live' = [live EXCEPT ![l] = state] /\ UNCHANGED <<recording, application>> /\ replay' = Anew
      /\ Replaying /\ live[l].conn = "open" /\ ~Busy(l) /\ live[l].head = Nothing
      /\ live[l].done = Len(Script(l))
  BY DEF Close, Lives, MayClose
<1>2. live[l] \in LiveLane /\ replay \in ReplayStates /\ Scripted(l) /\ Admitted(l)
  BY LaneBefore
<1>3. state \in LiveLane /\ state.conn = "closed" /\ state.head = live[l].head
      /\ state.done = live[l].done /\ state.running = live[l].running
  BY <1>1, <1>2 DEF LiveLane
<1>4. replay' \in ReplayStates /\ SameReleases /\ replay'.at = "running"
  BY <1>1, <1>2 DEF ReplayStates, SameReleases, Anew, Replaying
<1>. HIDE DEF state
<1>5. live'[l] = state
  BY <1>1 DEF Reproducing, ReplayTyped
<1>6. Scripted(l)'
  <2>1. LaneSteps(l)' = LaneSteps(l)
    BY <1>4, SameLaneSteps
  <2>. QED  BY <1>1, <1>2, <1>3, <1>5, <2>1 DEF Scripted, Begun, Busy, Connected, Script
<1>7. Admitted(l)'
  BY <1>1, <1>2, <1>3, <1>4, <1>5 DEF Admitted, Connected, Recorded, SameStartup, Replaying
<1>. QED  BY <1>1, <1>3, <1>4, <1>6, <1>7, LaneMoves

LEMMA AnswerReproduces ==
  ASSUME Reproducing, NEW l \in Lane, Answer(l), UNCHANGED <<fixture, task>>
  PROVE  Reproducing'
<1>. DEFINE state == [live[l] EXCEPT !.running = "no", !.done = @ + 1]
<1>1. /\ live' = [live EXCEPT ![l] = state] /\ UNCHANGED <<recording, application>> /\ replay' = Anew
      /\ Replaying /\ Busy(l)
  BY DEF Answer, Lives
<1>2. live[l] \in LiveLane /\ replay \in ReplayStates /\ Scripted(l) /\ Admitted(l)
  BY LaneBefore
<1>3. state \in LiveLane /\ state.conn = live[l].conn /\ state.head = live[l].head
      /\ state.done = live[l].done + 1 /\ state.running = "no"
  <2>1. PICK n \in Nat : n = live[l].done + 1
    BY <1>2 DEF LiveLane
  <2>2. state = [live[l] EXCEPT !.running = "no", !.done = n]
    BY <2>1
  <2>. HIDE DEF state
  <2>3. state \in LiveLane /\ state.conn = live[l].conn /\ state.head = live[l].head
        /\ state.done = n /\ state.running = "no"
    BY <1>2, <2>2 DEF LiveLane
  <2>. QED  BY <2>1, <2>3
<1>4. replay' \in ReplayStates /\ SameReleases /\ replay'.at = "running"
  BY <1>1, <1>2 DEF ReplayStates, SameReleases, Anew, Replaying
<1>. HIDE DEF state
<1>5. live'[l] = state
  BY <1>1 DEF Reproducing, ReplayTyped
<1>6. Scripted(l)'
  <2>1. LaneSteps(l)' = LaneSteps(l)
    BY <1>4, SameLaneSteps
  <2>2. live[l].conn = "open" /\ live[l].head = Nothing
    BY <1>1, <1>2 DEF Scripted, Connected, LiveLane
  <2>3. Begun(l)' = Begun(l)
    BY <1>1, <1>2, <1>3, <1>5 DEF Begun, Busy, LiveLane
  <2>. QED  BY <1>1, <1>2, <1>3, <1>5, <2>1, <2>2, <2>3 DEF Scripted, Busy, Connected, Script
<1>7. Admitted(l)'
  BY <1>1, <1>2, <1>3, <1>4, <1>5 DEF Admitted, Connected, Recorded, SameStartup, Replaying
<1>8. Connected(l) => state.conn # "new"
  BY <1>3 DEF Connected
<1>. QED  BY <1>1, <1>3, <1>4, <1>6, <1>7, <1>8, LaneMoves

LEMMA BlockReproduces ==
  ASSUME Reproducing, NEW l \in Lane, NEW m \in Lane, Block(l, m), UNCHANGED <<fixture, task>>
  PROVE  Reproducing'
<1>. DEFINE state == [live[l] EXCEPT !.running = "blocked"]
<1>1. /\ live' = [live EXCEPT ![l] = state] /\ UNCHANGED <<recording, application>>
      /\ Replaying /\ live[l].running = "yes"
  BY DEF Block
<1>2. live[l] \in LiveLane /\ replay \in ReplayStates /\ Scripted(l) /\ Admitted(l)
  BY LaneBefore
<1>3. state \in LiveLane /\ state.conn = live[l].conn /\ state.head = live[l].head
      /\ state.done = live[l].done /\ state.running = "blocked"
  BY <1>1, <1>2 DEF LiveLane
<1>4. replay' \in ReplayStates /\ SameReleases /\ replay'.at = "running"
  <2>. DEFINE k == RunningStep(l)
              t == [replay.trace EXCEPT ![k].blocker = m]
  <2>1. replay' = [replay EXCEPT !.trace = t]
    BY DEF Block
  <2>2. replay.trace \in Seq(Released)
    BY <1>2 DEF ReplayStates
  <2>. HIDE DEF k
  <2>3. ASSUME NEW i \in DOMAIN replay.trace
        PROVE  /\ t[i] \in Released
               /\ t[i].lane = replay.trace[i].lane
               /\ t[i].command = replay.trace[i].command
               /\ t[i].ordinal = replay.trace[i].ordinal
    <3>1. replay.trace[i] \in Released
      BY <2>2
    <3>2. t[i] = IF i = k THEN [replay.trace[i] EXCEPT !.blocker = m] ELSE replay.trace[i]
      OBVIOUS
    <3>. HIDE DEF t
    <3>. QED  BY <3>1, <3>2 DEF Released
  <2>4. DOMAIN t = DOMAIN replay.trace /\ Len(replay.trace) \in Nat
        /\ DOMAIN replay.trace = 1 .. Len(replay.trace) /\ t = [i \in DOMAIN replay.trace |-> t[i]]
    BY <2>2
  <2>5. t \in Seq(Released)
    <3>. HIDE DEF t
    <3>. QED  BY <2>3, <2>4
  <2>. HIDE DEF t
  <2>. QED  BY <1>1, <1>2, <2>1, <2>3, <2>4, <2>5 DEF ReplayStates, SameReleases, Replaying
<1>. HIDE DEF state
<1>5. live'[l] = state
  BY <1>1 DEF Reproducing, ReplayTyped
<1>6. Scripted(l)'
  <2>1. LaneSteps(l)' = LaneSteps(l)
    BY <1>4, SameLaneSteps
  <2>. QED  BY <1>1, <1>2, <1>3, <1>5, <2>1 DEF Scripted, Begun, Busy, Connected, Script
<1>7. Admitted(l)'
  BY <1>1, <1>2, <1>3, <1>4, <1>5 DEF Admitted, Connected, Recorded, SameStartup, Replaying
<1>8. Connected(l) => state.conn # "new"
  BY <1>3 DEF Connected
<1>. QED  BY <1>1, <1>3, <1>4, <1>6, <1>7, <1>8, LaneMoves

-----------------------------------------------------------------------------
(***************************************************************************)
(* A decision releases the connections that stand for the recorded ones.   *)
(***************************************************************************)
LEMMA LowestConnection ==
  ASSUME NEW C \in SUBSET Lane, C # {}
  PROVE  \E l \in C : \A m \in C : l.connection <= m.connection
<1>. DEFINE N == {l.connection : l \in C}
<1>1. \A l \in C : l.connection \in Nat
  BY LaneAssumption
<1>2. N \in SUBSET Nat /\ N # {}
  BY <1>1
<1>3. PICK n \in N : \A m \in N : <<m, n>> \notin OpToRel(<, Nat)
  <2>. HIDE DEF N
  <2>. QED  BY <1>2, NatLessThanWellFounded, WFMin
<1>4. \A m \in N : n <= m
  <2>1. \A m \in N : m \in Nat /\ n \in Nat /\ ~(m < n)
    BY <1>2, <1>3 DEF OpToRel
  <2>. QED  BY <2>1
<1>. QED  BY <1>3, <1>4

(* Recorded connection r and connection l: one stands for the other, or    *)
(* neither stands for any. *)
Stands(r, l) ==
  \/ <<r, l>> \in replay.bound
  \/ \A b \in replay.bound : b[1] # r /\ b[2] # l

LEMMA BoundPairs ==
  ASSUME Reproducing, NEW b \in replay.bound
  PROVE  /\ b = <<b[1], b[2]>> /\ b[1] \in Lane /\ b[2] \in Lane
         /\ b[1] \in Recorded /\ StandsAlike(b)
<1>1. b \in Lane \X Lane /\ StandsAlike(b)
  BY DEF Reproducing, ReplayTyped, ReplayStates, Standing
<1>. QED  BY <1>1 DEF StandsAlike

LEMMA FreeIsConnected ==
  ASSUME Reproducing, NEW l \in Lane, NEW taken, Free(l, taken)
  PROVE  Connected(l) /\ ~Busy(l) /\ l \notin taken /\ l \in DOMAIN application.startup
BY DEF Reproducing, Scripted, Free

LEMMA ResolvedLane ==
  ASSUME Reproducing, recording.multi, NEW s, s.lane \in Recorded, NEW taken,
         Resolve(s, taken).kind = "release", NEW l, l = Resolve(s, taken).lane
  PROVE  /\ l \in Lane /\ Free(l, taken) /\ live[l].head = s.command
         /\ Stands(s.lane, l) /\ StandsAlike(<<s.lane, l>>)
<1>. DEFINE r == s.lane
            open(m) == SameStartup(r, m) /\ Unbound(m) /\ live[m].conn = "open"
            matches(m) == open(m) /\ Free(m, taken) /\ live[m].head = s.command
            candidates == {m \in Opens(r.actor) : matches(m)}
            lowest == CHOOSE m \in candidates : \A k \in candidates : m.connection <= k.connection
<1>1. Wait.kind # "release" /\ GiveUp.kind # "release" /\ \A m : Release(m).lane = m
  BY DEF Wait, GiveUp, Release
<1>2. CASE IsBound(r)
  <2>1. Free(LiveFor(r), taken) /\ live[LiveFor(r)].head = s.command /\ l = LiveFor(r)
    BY <1>1, <1>2 DEF Resolve
  <2>2. <<r, l>> \in replay.bound
    <3>1. PICK b \in replay.bound : b[1] = r /\ b = CHOOSE d \in replay.bound : d[1] = r
      BY <1>2 DEF IsBound
    <3>2. b[2] = l
      BY <2>1, <3>1 DEF LiveFor
    <3>. QED  BY <3>1, <3>2, BoundPairs
  <2>3. l \in Lane /\ StandsAlike(<<r, l>>)
    BY <2>2, BoundPairs
  <2>. QED  BY <2>1, <2>2, <2>3 DEF Stands
<1>3. CASE ~IsBound(r)
  <2>1. l \in candidates
    <3>1. candidates \in SUBSET Lane
      BY DEF Reproducing, ReplayTyped, ScriptsOf, Opens
    <3>2. candidates # {} => lowest \in candidates
      <4>. HIDE DEF candidates
      <4>. QED  BY <3>1, LowestConnection
    <3>3. (r \in candidates /\ l = r) \/ (candidates # {} /\ l = lowest)
      <4>1. \/ Resolve(s, taken) \in {Wait, GiveUp}
            \/ r \in candidates /\ Resolve(s, taken) = Release(r)
            \/ candidates # {} /\ Resolve(s, taken) = Release(lowest)
        BY <1>3, Zenon DEF Resolve
      <4>. QED  BY <1>1, <4>1
    <3>. HIDE DEF candidates, lowest
    <3>. QED  BY <3>2, <3>3
  <2>2. l \in Lane /\ Free(l, taken) /\ live[l].head = s.command /\ Unbound(l)
        /\ SameStartup(r, l) /\ live[l].conn = "open"
    BY <2>1 DEF Reproducing, ReplayTyped, ScriptsOf, Opens
  <2>3. Stands(r, l)
    BY <1>3, <2>2, BoundPairs DEF Stands, IsBound, Unbound, StandsFor
  <2>. QED  BY <2>2, <2>3 DEF StandsAlike, Connected
<1>. QED  BY <1>2, <1>3

LEMMA ResolvedSingle ==
  ASSUME Reproducing, Replaying, ~recording.multi, NEW s, s.lane \in Recorded, NEW taken,
         ResolveSingle(s, taken).kind = "release", NEW l, l = ResolveSingle(s, taken).lane
  PROVE  /\ l \in Lane /\ Free(l, taken) /\ live[l].head = s.command
         /\ Stands(s.lane, l) /\ StandsAlike(<<s.lane, l>>)
<1>1. GiveUp.kind # "release" /\ \A m : Release(m).lane = m
  BY DEF GiveUp, Release
<1>2. l = s.lane /\ Free(l, taken) /\ live[l].head = s.command
  BY <1>1 DEF ResolveSingle
<1>3. l \in Lane
  BY <1>2, RecordedLanes DEF Reproducing
<1>4. Connected(l)
  BY <1>2, <1>3, FreeIsConnected
<1>5. SameStartup(l, l)
  BY <1>3, <1>4 DEF Reproducing, Admitted, Replaying
<1>6. Stands(s.lane, l)
  <2>1. \A b \in replay.bound : b = <<b[1], b[2]>> /\ b[1] = b[2]
    BY BoundPairs DEF StandsAlike
  <2>. QED  BY <1>2, <2>1 DEF Stands
<1>. QED  BY <1>2, <1>3, <1>4, <1>5, <1>6 DEF StandsAlike

(* The next n recorded steps are released together, to the connections c.  *)
Due(i) == recording.trace[Len(replay.trace) + i]

Grouped(n, c) ==
  /\ n \in {1, 2} /\ c \in [1 .. n -> Lane]
  /\ Len(replay.trace) + n <= Len(recording.trace)
  /\ \A i \in 1 .. n : /\ Free(c[i], {}) /\ live[c[i]].head = Due(i).command
                       /\ Stands(Due(i).lane, c[i]) /\ StandsAlike(<<Due(i).lane, c[i]>>)
  /\ \A i, k \in 1 .. n : i # k => c[i] # c[k] /\ Due(i).lane # Due(k).lane

Releases(n, c) ==
  /\ replay' = [Anew EXCEPT
       !.trace = @ \o [i \in 1 .. n |->
         [lane |-> c[i], command |-> live[c[i]].head, ordinal |-> live[c[i]].done + 1, blocker |-> None]],
       !.bound = @ \union {<<Due(i).lane, c[i]>> : i \in 1 .. n}]
  /\ live' = [l \in Lane |-> IF \E i \in 1 .. n : c[i] = l
                             THEN [live[l] EXCEPT !.head = Nothing, !.running = "yes"]
                             ELSE live[l]]
  /\ UNCHANGED <<recording, application>>

LEMMA Traces ==
  ASSUME Reproducing
  PROVE  /\ Len(replay.trace) \in Nat /\ DOMAIN replay.trace = 1 .. Len(replay.trace)
         /\ Len(recording.trace) \in Nat /\ DOMAIN recording.trace = 1 .. Len(recording.trace)
         /\ Len(replay.trace) <= Len(recording.trace)
         /\ \A i \in DOMAIN recording.trace :
              /\ recording.trace[i].lane \in Recorded
              /\ recording.trace[i].paired =>
                   i < Len(recording.trace) /\ recording.trace[i + 1].lane # recording.trace[i].lane
<1>1. replay.trace \in Seq(Released) /\ recording \in Recordings
  BY DEF Reproducing, ReplayTyped, ReplayStates
<1>2. StepsOf(recording)
  BY <1>1, RecordingAssumption
<1>3. Len(replay.trace) \in Nat /\ DOMAIN replay.trace = 1 .. Len(replay.trace)
  BY <1>1
<1>4. Len(recording.trace) \in Nat /\ DOMAIN recording.trace = 1 .. Len(recording.trace)
  BY <1>2 DEF StepsOf
<1>5. \A i \in DOMAIN recording.trace : recording.trace[i].lane \in Recorded
  <2>. DEFINE T == [lane : Recorded, command : STRING \ {Nothing}, blocker : Lane \union {None}, paired : BOOLEAN]
  <2>1. recording.trace \in Seq(T)
    BY <1>2 DEF StepsOf, Recorded
  <2>2. \A i \in DOMAIN recording.trace : recording.trace[i] \in T
    <3>. HIDE DEF T
    <3>. QED  BY <2>1
  <2>. QED  BY <2>2
<1>6. \A i \in DOMAIN replay.trace : i \in DOMAIN recording.trace
  BY DEF Reproducing, Repeats
<1>7. Len(replay.trace) <= Len(recording.trace)
  BY <1>3, <1>4, <1>6
<1>. QED  BY <1>2, <1>3, <1>4, <1>5, <1>7 DEF StepsOf

LEMMA ResolvedStep ==
  ASSUME Reproducing, Replaying, NEW s, s.lane \in Recorded, NEW taken,
         ResolveStep(s, taken).kind = "release", NEW l, l = ResolveStep(s, taken).lane
  PROVE  /\ l \in Lane /\ Free(l, taken) /\ live[l].head = s.command
         /\ Stands(s.lane, l) /\ StandsAlike(<<s.lane, l>>)
BY ResolvedLane, ResolvedSingle DEF ResolveStep

LEMMA FreeOfAll ==
  ASSUME NEW l, NEW taken, Free(l, taken)
  PROVE  Free(l, {}) /\ l \notin taken
BY DEF Free

LEMMA DecideReleases ==
  ASSUME Reproducing, Deciding, Decide, replay'.at = "running", replay'.patience = "fresh"
  PROVE  \E n, c : Grouped(n, c) /\ Releases(n, c)
<1>. DEFINE choices == Resolutions
            kinds   == {choices[i].kind : i \in DOMAIN choices}
            lanes   == {choices[i].lane : i \in DOMAIN choices}
            n       == Len(Expected)
            p       == Len(replay.trace)
<1>1. Replaying /\ replay \in ReplayStates /\ p + 1 <= Len(recording.trace)
  BY DEF Reproducing, ReplayTyped, Deciding, Decide, Position
<1>2. /\ kinds = {"release"}
      /\ replay' = [Anew EXCEPT
           !.trace = @ \o [i \in DOMAIN choices |->
             [lane |-> choices[i].lane, command |-> live[choices[i].lane].head,
              ordinal |-> live[choices[i].lane].done + 1, blocker |-> None]],
           !.bound = @ \union {<<Expected[i].lane, choices[i].lane>> : i \in DOMAIN choices}]
      /\ live' = [l \in Lane |-> IF l \in lanes
                                 THEN [live[l] EXCEPT !.head = Nothing, !.running = "yes"]
                                 ELSE live[l]]
      /\ UNCHANGED <<recording, application>>
  <2>1. (\E v \in {"incompatible"} : Ends(v)) => replay'.at # "running"
    BY <1>1 DEF Ends, ReplayStates
  <2>2. replay' = [replay EXCEPT !.patience = "waiting"] => replay'.patience # "fresh"
    BY <1>1 DEF ReplayStates
  <2>. QED  BY <2>1, <2>2 DEF Decide
<1>3. /\ n \in {1, 2} /\ p + n <= Len(recording.trace)
      /\ \A i \in 1 .. n : Expected[i] = Due(i)
      /\ n = 2 => Due(1).lane # Due(2).lane
  <2>1. p \in Nat /\ Len(recording.trace) \in Nat /\ DOMAIN recording.trace = 1 .. Len(recording.trace)
    BY Traces
  <2>2. recording.trace \in Seq([lane : DOMAIN recording.startup, command : STRING \ {Nothing},
                                blocker : Lane \union {None}, paired : BOOLEAN])
    BY RecordingAssumption DEF Reproducing, ReplayTyped, StepsOf
  <2>3. CASE recording.trace[Position].paired
    <3>1. p + 2 <= Len(recording.trace) /\ recording.trace[p + 2].lane # recording.trace[p + 1].lane
      BY <1>1, <2>1, <2>3, Traces DEF Position
    <3>2. Expected = SubSeq(recording.trace, p + 1, p + 2)
      BY <2>1, <2>3 DEF Expected, Position
    <3>3. Len(Expected) = 2 /\ Expected[1] = recording.trace[p + 1] /\ Expected[2] = recording.trace[p + 2]
      BY <2>1, <2>2, <3>1, <3>2
    <3>. QED  BY <2>1, <3>1, <3>3 DEF Due
  <2>4. CASE ~recording.trace[Position].paired
    <3>1. Expected = SubSeq(recording.trace, p + 1, p + 1)
      BY <2>4 DEF Expected, Position
    <3>2. Len(Expected) = 1 /\ Expected[1] = recording.trace[p + 1]
      BY <1>1, <2>1, <2>2, <3>1
    <3>. QED  BY <1>1, <2>1, <3>2 DEF Due
  <2>. QED  BY <2>3, <2>4
<1>. DEFINE first == ResolveStep(Expected[1], {})
            second == ResolveStep(Expected[2], {first.lane})
<1>4. choices = (IF n = 1 THEN <<first>> ELSE <<first, second>>) /\ first.kind = "release"
  <2>1. choices = IF n = 1 \/ first.kind # "release" THEN <<first>> ELSE <<first, second>>
    BY DEF Resolutions
  <2>. HIDE DEF choices, first, second
  <2>2. 1 \in DOMAIN choices /\ choices[1] = first
    BY <2>1
  <2>3. first.kind = "release"
    BY <1>2, <2>2
  <2>. QED  BY <2>1, <2>3
<1>5. n = 2 => second.kind = "release"
  <2>. SUFFICES ASSUME n = 2 PROVE second.kind = "release"
    OBVIOUS
  <2>. HIDE DEF choices, first, second, n
  <2>1. 2 \in DOMAIN choices /\ choices[2] = second
    BY <1>4
  <2>2. second.kind \in kinds
    BY <2>1
  <2>. QED  BY <1>2, <2>2
<1>. DEFINE c == [i \in 1 .. n |-> choices[i].lane]
<1>6. DOMAIN choices = 1 .. n /\ c[1] = first.lane /\ (n = 2 => c[2] = second.lane)
  <2>. HIDE DEF choices, first, second, n
  <2>. QED  BY <1>3, <1>4
<1>7. \A i \in 1 .. n : Due(i).lane \in Recorded
  <2>1. \A i \in 1 .. n : p + i \in DOMAIN recording.trace
    <3>. HIDE DEF n
    <3>. QED  BY <1>3, Traces
  <2>. QED  BY <2>1, Traces DEF Due
<1>8. LET l == c[1] IN
      /\ l \in Lane /\ Free(l, {}) /\ live[l].head = Due(1).command
      /\ Stands(Due(1).lane, l) /\ StandsAlike(<<Due(1).lane, l>>)
  <2>1. Expected[1] = Due(1) /\ Due(1).lane \in Recorded
    <3>. HIDE DEF n
    <3>. QED  BY <1>3, <1>7
  <2>2. first.kind = "release" /\ c[1] = first.lane
    <3>. HIDE DEF choices, first, second, n, c
    <3>. QED  BY <1>4, <1>6
  <2>. HIDE DEF c
  <2>3. PICK l, s : l = c[1] /\ s = Due(1)
    OBVIOUS
  <2>4. s = Expected[1] /\ s.lane \in Recorded
    BY <2>1, <2>3
  <2>5. ResolveStep(s, {}).kind = "release" /\ l = ResolveStep(s, {}).lane
    BY <2>2, <2>3, <2>4
  <2>6. /\ l \in Lane /\ Free(l, {}) /\ live[l].head = s.command
        /\ Stands(s.lane, l) /\ StandsAlike(<<s.lane, l>>)
    BY <1>1, <2>4, <2>5, ResolvedStep
  <2>. QED  BY <2>3, <2>6
<1>9. n = 2 =>
        LET l == c[2] IN
        /\ l \in Lane /\ Free(l, {}) /\ l # c[1] /\ live[l].head = Due(2).command
        /\ Stands(Due(2).lane, l) /\ StandsAlike(<<Due(2).lane, l>>)
  <2>. SUFFICES ASSUME n = 2
                PROVE  LET l == c[2] IN
                       /\ l \in Lane /\ Free(l, {}) /\ l # c[1] /\ live[l].head = Due(2).command
                       /\ Stands(Due(2).lane, l) /\ StandsAlike(<<Due(2).lane, l>>)
    OBVIOUS
  <2>1. Expected[2] = Due(2) /\ Due(2).lane \in Recorded
    <3>. HIDE DEF n
    <3>. QED  BY <1>3, <1>7
  <2>2. second.kind = "release" /\ c[2] = second.lane /\ c[1] = first.lane
    <3>. HIDE DEF choices, first, second, n, c
    <3>. QED  BY <1>5, <1>6
  <2>. HIDE DEF n, c
  <2>3. PICK l, s, taken : l = c[2] /\ s = Due(2) /\ taken = {first.lane}
    OBVIOUS
  <2>4. s = Expected[2] /\ s.lane \in Recorded
    BY <2>1, <2>3
  <2>5. ResolveStep(s, taken).kind = "release" /\ l = ResolveStep(s, taken).lane
    BY <2>2, <2>3, <2>4
  <2>6. /\ l \in Lane /\ Free(l, taken) /\ live[l].head = s.command
        /\ Stands(s.lane, l) /\ StandsAlike(<<s.lane, l>>)
    BY <1>1, <2>4, <2>5, ResolvedStep
  <2>7. Free(l, {}) /\ l \notin taken
    BY <2>6, FreeOfAll
  <2>. HIDE DEF first
  <2>. QED  BY <2>2, <2>3, <2>6, <2>7
<1>. HIDE DEF choices, first, second, n
<1>10. Grouped(n, c)
  <2>. HIDE DEF c
  <2>1. 1 .. n = IF n = 1 THEN {1} ELSE {1, 2}
    <3>1. CASE n = 1
      BY <3>1
    <3>2. CASE n = 2
      BY <3>2
    <3>. QED  BY <1>3, <3>1, <3>2
  <2>2. c \in [1 .. n -> Lane]
    <3>1. \A i \in 1 .. n : c[i] \in Lane
      BY <1>3, <1>8, <1>9, <2>1
    <3>. QED  BY <3>1 DEF c
  <2>. QED  BY <1>3, <1>8, <1>9, <2>1, <2>2 DEF Grouped
<1>11. Releases(n, c)
  <2>1. \A i \in DOMAIN choices : c[i] = choices[i].lane /\ Expected[i] = Due(i)
    BY <1>3, <1>6
  <2>2. \A l \in Lane : (l \in lanes) <=> (\E i \in 1 .. n : c[i] = l)
    BY <1>6, <2>1
  <2>. HIDE DEF c, lanes
  <2>3. [i \in DOMAIN choices |->
           [lane |-> choices[i].lane, command |-> live[choices[i].lane].head,
            ordinal |-> live[choices[i].lane].done + 1, blocker |-> None]]
          = [i \in 1 .. n |->
               [lane |-> c[i], command |-> live[c[i]].head, ordinal |-> live[c[i]].done + 1, blocker |-> None]]
    BY <1>6, <2>1
  <2>4. {<<Expected[i].lane, choices[i].lane>> : i \in DOMAIN choices}
          = {<<Due(i).lane, c[i]>> : i \in 1 .. n}
    BY <1>6, <2>1
  <2>5. live' = [l \in Lane |-> IF \E i \in 1 .. n : c[i] = l
                               THEN [live[l] EXCEPT !.head = Nothing, !.running = "yes"]
                               ELSE live[l]]
    BY <1>2, <2>2
  <2>. HIDE DEF kinds
  <2>. QED  BY <1>2, <2>3, <2>4, <2>5 DEF Releases
<1>. QED  BY <1>10, <1>11

LEMMA Concatenated ==
  ASSUME NEW S, NEW s \in Seq(S), NEW t \in Seq(S)
  PROVE  /\ s \o t \in Seq(S)
         /\ DOMAIN (s \o t) = 1 .. Len(s) + Len(t)
         /\ \A i \in 1 .. Len(s) : (s \o t)[i] = s[i]
         /\ \A i \in 1 .. Len(t) : (s \o t)[Len(s) + i] = t[i]
<1>1. s \o t \in Seq(S) /\ Len(s \o t) = Len(s) + Len(t) /\ Len(s) \in Nat /\ Len(t) \in Nat
  OBVIOUS
<1>2. DOMAIN (s \o t) = 1 .. Len(s) + Len(t)
  BY <1>1
<1>3. ASSUME NEW i \in 1 .. Len(s) PROVE (s \o t)[i] = s[i]
  OBVIOUS
<1>4. ASSUME NEW i \in 1 .. Len(t) PROVE (s \o t)[Len(s) + i] = t[i]
  OBVIOUS
<1>. QED  BY <1>1, <1>2, <1>3, <1>4

LEMMA ReleasedTrace ==
  ASSUME Reproducing, Replaying, NEW n, NEW c, Grouped(n, c), Releases(n, c)
  PROVE  /\ replay' \in ReplayStates /\ replay'.at = "running"
         /\ n \in Nat /\ DOMAIN replay'.trace = 1 .. Len(replay.trace) + n
         /\ \A i \in 1 .. Len(replay.trace) : replay'.trace[i] = replay.trace[i]
         /\ \A i \in 1 .. n :
              /\ replay'.trace[Len(replay.trace) + i].lane = c[i]
              /\ replay'.trace[Len(replay.trace) + i].command = live[c[i]].head
              /\ replay'.trace[Len(replay.trace) + i].ordinal = live[c[i]].done + 1
         /\ replay'.bound = replay.bound \union {<<Due(i).lane, c[i]>> : i \in 1 .. n}
<1>. DEFINE p == Len(replay.trace)
            step(i) == [lane |-> c[i], command |-> live[c[i]].head, ordinal |-> live[c[i]].done + 1,
                        blocker |-> None]
            more == [i \in 1 .. n |-> step(i)]
            pairs == {<<Due(i).lane, c[i]>> : i \in 1 .. n}
<1>1. replay \in ReplayStates /\ live \in [Lane -> LiveLane] /\ n \in Nat /\ c \in [1 .. n -> Lane]
  BY DEF Reproducing, ReplayTyped, Grouped
<1>2. p \in Nat /\ DOMAIN replay.trace = 1 .. p /\ replay.trace \in Seq(Released)
  BY <1>1 DEF ReplayStates
<1>3. ASSUME NEW i \in 1 .. n PROVE step(i) \in Released
  <2>1. c[i] \in Lane /\ live[c[i]] \in LiveLane /\ live[c[i]].head # Nothing
    BY <1>1 DEF Grouped, Free
  <2>2. live[c[i]].head \in STRING /\ live[c[i]].done + 1 \in Nat
    BY <2>1 DEF LiveLane
  <2>. QED  BY <2>1, <2>2 DEF Released
<1>4. more \in Seq(Released) /\ Len(more) = n /\ DOMAIN more = 1 .. n
  <2>. HIDE DEF step
  <2>. QED  BY <1>1, <1>3
<1>5. pairs \in SUBSET (Lane \X Lane)
  <2>1. \A i \in 1 .. n : Due(i).lane \in Lane
    <3>1. \A i \in 1 .. n : StandsAlike(<<Due(i).lane, c[i]>>)
      BY DEF Grouped
    <3>2. \A i \in 1 .. n : Due(i).lane \in Recorded
      BY <3>1 DEF StandsAlike
    <3>. QED  BY <3>2, RecordedLanes DEF Reproducing
  <2>. QED  BY <1>1, <2>1
<1>6. replay' = [Anew EXCEPT !.trace = @ \o more, !.bound = @ \union pairs]
  BY DEF Releases
<1>. HIDE DEF more, pairs
<1>7. /\ replay' \in ReplayStates /\ replay'.at = "running"
      /\ replay'.trace = replay.trace \o more /\ replay'.bound = replay.bound \union pairs
  <2>1. replay.trace \o more \in Seq(Released)
    BY <1>2, <1>4
  <2>. QED  BY <1>1, <1>5, <1>6, <2>1 DEF ReplayStates, Anew, Replaying
<1>8. /\ DOMAIN (replay.trace \o more) = 1 .. p + n
      /\ \A i \in 1 .. p : (replay.trace \o more)[i] = replay.trace[i]
      /\ \A i \in 1 .. n : (replay.trace \o more)[p + i] = more[i]
  <2>1. /\ DOMAIN (replay.trace \o more) = 1 .. Len(replay.trace) + Len(more)
        /\ \A i \in 1 .. Len(replay.trace) : (replay.trace \o more)[i] = replay.trace[i]
        /\ \A i \in 1 .. Len(more) : (replay.trace \o more)[Len(replay.trace) + i] = more[i]
    <3>1. \A s, t \in Seq(Released) :
            /\ DOMAIN (s \o t) = 1 .. Len(s) + Len(t)
            /\ \A i \in 1 .. Len(s) : (s \o t)[i] = s[i]
            /\ \A i \in 1 .. Len(t) : (s \o t)[Len(s) + i] = t[i]
      BY Concatenated
    <3>. QED  BY <1>2, <1>4, <3>1, Zenon
  <2>2. Len(more) = n
    BY <1>4
  <2>. QED  BY <2>1, <2>2
<1>9. \A i \in 1 .. n : /\ more[i].lane = c[i] /\ more[i].command = live[c[i]].head
                        /\ more[i].ordinal = live[c[i]].done + 1
  BY DEF more
<1>. HIDE DEF p
<1>. QED  BY <1>1, <1>7, <1>8, <1>9 DEF p, pairs

(* The steps of a connection after a release. *)
LEMMA ReleasedSteps ==
  ASSUME Reproducing, Replaying, NEW n, NEW c, Grouped(n, c), Releases(n, c), NEW l \in Lane
  PROVE  /\ (\A i \in 1 .. n : c[i] # l) => LaneSteps(l)' = LaneSteps(l)
         /\ \A i \in 1 .. n : c[i] = l =>
              /\ LaneSteps(l)' = LaneSteps(l) \union {Len(replay.trace) + i}
              /\ Cardinality(LaneSteps(l)') = Cardinality(LaneSteps(l)) + 1
<1>. DEFINE p == Len(replay.trace)
<1>1. /\ n \in Nat /\ p \in Nat /\ DOMAIN replay.trace = 1 .. p /\ DOMAIN replay'.trace = 1 .. p + n
      /\ \A i \in 1 .. p : replay'.trace[i] = replay.trace[i]
      /\ \A i \in 1 .. n : replay'.trace[p + i].lane = c[i]
  BY ReleasedTrace, Traces
<1>2. \A j \in 1 .. p + n : j \in 1 .. p \/ \E i \in 1 .. n : j = p + i
  <2>. SUFFICES ASSUME NEW j \in 1 .. p + n, j \notin 1 .. p PROVE \E i \in 1 .. n : j = p + i
    OBVIOUS
  <2>1. j - p \in 1 .. n /\ j = p + (j - p)
    BY <1>1
  <2>. QED  BY <2>1
<1>3. \A i \in 1 .. n : p + i \in 1 .. p + n /\ p + i \notin 1 .. p
  BY <1>1
<1>4. 1 .. p \subseteq 1 .. p + n
  BY <1>1
<1>5. IsFiniteSet(1 .. p)
  <2>1. 1 \in Int /\ p \in Int
    BY <1>1
  <2>. HIDE DEF p
  <2>. QED  BY <2>1, FS_Interval
<1>. HIDE DEF p
<1>6. /\ \A j : j \in LaneSteps(l) <=> j \in 1 .. p /\ replay.trace[j].lane = l
      /\ LaneSteps(l) \subseteq 1 .. p
  BY <1>1 DEF LaneSteps
<1>. DEFINE now == LaneSteps(l)'
<1>7. /\ \A j : j \in now <=> j \in 1 .. p + n /\ replay'.trace[j].lane = l
       /\ now \subseteq 1 .. p + n
  BY <1>1 DEF LaneSteps
<1>. HIDE DEF now
<1>8. \A j \in 1 .. p : j \in now <=> j \in LaneSteps(l)
  BY <1>1, <1>4, <1>6, <1>7
<1>9. \A i \in 1 .. n : p + i \in now <=> c[i] = l
  BY <1>1, <1>3, <1>7
<1>10. LaneSteps(l) \subseteq 1 .. p /\ now \subseteq 1 .. p + n
  BY <1>6, <1>7
<1>11. (\A i \in 1 .. n : c[i] # l) => now = LaneSteps(l)
  BY <1>2, <1>4, <1>8, <1>9, <1>10
<1>12. ASSUME NEW i \in 1 .. n, c[i] = l
      PROVE  /\ now = LaneSteps(l) \union {p + i}
             /\ Cardinality(now) = Cardinality(LaneSteps(l)) + 1
  <2>1. \A k \in 1 .. n : c[k] = l => k = i
    BY <1>12 DEF Grouped
  <2>2. now = LaneSteps(l) \union {p + i}
    <3>1. \A j : j \in now => j \in LaneSteps(l) \/ j = p + i
      BY <1>2, <1>8, <1>9, <1>10, <2>1
    <3>2. LaneSteps(l) \subseteq now
      BY <1>8, <1>10
    <3>3. p + i \in now
      BY <1>9, <1>12
    <3>. QED  BY <3>1, <3>2, <3>3
  <2>3. LaneSteps(l) \in SUBSET (1 .. p)
    BY <1>10
  <2>5. IsFiniteSet(LaneSteps(l)) /\ p + i \notin LaneSteps(l)
    BY <1>3, <1>5, <2>3, FS_Subset
  <2>6. Cardinality(LaneSteps(l) \union {p + i}) = Cardinality(LaneSteps(l)) + 1
    BY <2>5, FS_AddElement
  <2>. QED  BY <2>2, <2>6
<1>. QED  BY <1>11, <1>12 DEF p, now

(* The connections after a release. *)
LEMMA ReleasedLanes ==
  ASSUME Reproducing, NEW n, NEW c, Grouped(n, c), Releases(n, c), NEW l \in Lane
  PROVE  /\ live'[l] \in LiveLane /\ live'[l].conn = live[l].conn /\ live'[l].done = live[l].done
         /\ (\A i \in 1 .. n : c[i] # l) => live'[l] = live[l]
         /\ (\E i \in 1 .. n : c[i] = l) =>
              /\ live'[l].head = Nothing /\ live'[l].running = "yes"
              /\ Free(l, {}) /\ live[l].running = "no" /\ Connected(l)
<1>1. /\ live[l] \in LiveLane
      /\ live'[l] = IF \E i \in 1 .. n : c[i] = l
                    THEN [live[l] EXCEPT !.head = Nothing, !.running = "yes"]
                    ELSE live[l]
  BY LaneBefore DEF Releases
<1>2. (\E i \in 1 .. n : c[i] = l) => Free(l, {})
  BY DEF Grouped
<1>3. Free(l, {}) => live[l].running = "no" /\ Connected(l)
  BY FreeIsConnected DEF Busy
<1>4. (\A i \in 1 .. n : c[i] # l) => live'[l] = live[l]
  BY <1>1
<1>5. CASE \E i \in 1 .. n : c[i] = l
  <2>1. live'[l] = [live[l] EXCEPT !.head = Nothing, !.running = "yes"]
    BY <1>1, <1>5
  <2>2. /\ live'[l] \in LiveLane /\ live'[l].conn = live[l].conn /\ live'[l].done = live[l].done
        /\ live'[l].head = Nothing /\ live'[l].running = "yes"
    BY <1>1, <2>1 DEF LiveLane
  <2>. QED  BY <1>2, <1>3, <1>4, <2>2
<1>6. CASE ~\E i \in 1 .. n : c[i] = l
  BY <1>1, <1>6
<1>. QED  BY <1>5, <1>6

LEMMA ReleaseScripted ==
  ASSUME Reproducing, Replaying, NEW n, NEW c, Grouped(n, c), Releases(n, c), NEW l \in Lane
  PROVE  Scripted(l)' /\ Admitted(l)'
<1>1. live[l] \in LiveLane /\ Scripted(l) /\ Admitted(l)
  BY LaneBefore
<1>2. application' = application /\ recording' = recording /\ replay'.at = "running" /\ replay.at = "running"
  BY ReleasedTrace DEF Releases, Replaying
<1>. DEFINE now == LaneSteps(l)'
<1>3. CASE \A i \in 1 .. n : c[i] # l
  <2>1. live'[l] = live[l] /\ LaneSteps(l)' = LaneSteps(l)
    BY <1>3, ReleasedLanes, ReleasedSteps
  <2>. QED  BY <1>1, <1>2, <2>1 DEF Scripted, Begun, Busy, Connected, Script, Admitted, Recorded, SameStartup
<1>4. CASE \E i \in 1 .. n : c[i] = l
  <2>1. /\ live'[l] \in LiveLane /\ live'[l].conn = live[l].conn /\ live'[l].done = live[l].done
        /\ live'[l].head = Nothing /\ live'[l].running = "yes"
        /\ Free(l, {}) /\ live[l].running = "no" /\ Connected(l)
    BY <1>4, ReleasedLanes
  <2>2. Cardinality(LaneSteps(l)') = Cardinality(LaneSteps(l)) + 1
    BY <1>4, ReleasedSteps
  <2>3. live[l].done < Len(Script(l)) /\ live[l].conn = "open" /\ l \in DOMAIN application.startup
    BY <1>1, <2>1 DEF Scripted, Free, LiveLane, Connected
  <2>4. Len(Script(l)) \in Nat /\ live[l].done \in Nat
    BY <1>1, <2>3, LaneBefore DEF LiveLane
  <2>5. Begun(l) = live[l].done /\ Begun(l)' = live[l].done + 1 /\ Busy(l)'
    BY <2>1, <2>4 DEF Begun, Busy
  <2>6. Script(l)' = Script(l)
    BY <1>2 DEF Script
  <2>7. Scripted(l)'
    BY <1>1, <1>2, <2>1, <2>2, <2>3, <2>4, <2>5, <2>6 DEF Scripted, Connected
  <2>. QED  BY <1>1, <1>2, <2>1, <2>7 DEF Admitted, Connected, Recorded, SameStartup
<1>. QED  BY <1>3, <1>4

LEMMA ReleaseStanding ==
  ASSUME Reproducing, Replaying, NEW n, NEW c, Grouped(n, c), Releases(n, c)
  PROVE  Standing'
<1>. DEFINE B == replay.bound
            pair(i) == <<Due(i).lane, c[i]>>
            more == {pair(i) : i \in 1 .. n}
<1>1. replay'.bound = B \union more /\ recording' = recording /\ application' = application
  <2>1. replay'.bound = replay.bound \union {<<Due(i).lane, c[i]>> : i \in 1 .. n}
    BY ReleasedTrace
  <2>. QED  BY <2>1 DEF Releases
<1>2. OneToOne(B) /\ \A b \in B : StandsAlike(b) /\ b = <<b[1], b[2]>> /\ b[2] \in Lane
  BY BoundPairs DEF Reproducing, Standing
<1>3. \A i \in 1 .. n : StandsAlike(pair(i)) /\ Stands(Due(i).lane, c[i]) /\ c[i] \in Lane
  BY DEF Grouped
<1>4. ASSUME NEW b \in B \union more PROVE StandsAlike(b)'
  <2>1. StandsAlike(b) /\ b[2] \in Lane
    BY <1>2, <1>3
  <2>2. live'[b[2]].conn = live[b[2]].conn
    BY <2>1, ReleasedLanes
  <2>. QED  BY <1>1, <2>1, <2>2 DEF StandsAlike, Recorded, SameStartup, Connected
<1>5. ASSUME NEW b \in B, NEW i \in 1 .. n PROVE b[1] = Due(i).lane <=> b[2] = c[i]
  <2>1. CASE pair(i) \in B
    BY <1>2, <2>1 DEF OneToOne
  <2>2. CASE pair(i) \notin B
    BY <1>3, <2>2 DEF Stands
  <2>. QED  BY <2>1, <2>2
<1>6. \A i, k \in 1 .. n : Due(i).lane = Due(k).lane <=> c[i] = c[k]
  BY DEF Grouped
<1>7. \A m \in more : \E i \in 1 .. n : m[1] = Due(i).lane /\ m[2] = c[i]
  OBVIOUS
<1>. HIDE DEF more, pair, B
<1>8. OneToOne(B \union more)
  <2>. SUFFICES ASSUME NEW b \in B \union more, NEW d \in B \union more
                PROVE  b[1] = d[1] <=> b[2] = d[2]
    BY DEF OneToOne
  <2>1. CASE b \in B /\ d \in B
    BY <1>2, <2>1 DEF OneToOne
  <2>2. CASE b \in B /\ d \in more
    BY <1>5, <1>7, <2>2
  <2>3. CASE b \in more /\ d \in B
    BY <1>5, <1>7, <2>3
  <2>4. CASE b \in more /\ d \in more
    BY <1>6, <1>7, <2>4
  <2>. QED  BY <2>1, <2>2, <2>3, <2>4
<1>. QED  BY <1>1, <1>4, <1>8 DEF Standing, OneToOne

(* The steps after a release: those that were, and the released ones. *)
LEMMA ReleasePlaced ==
  ASSUME Reproducing, Replaying, NEW n, NEW c, Grouped(n, c), Releases(n, c),
         NEW j \in 1 .. Len(replay.trace)
  PROVE  Placed(j)' /\ Repeats(j)'
<1>1. j \in DOMAIN replay.trace /\ j \in Nat /\ Len(replay.trace) \in Nat
  BY Traces
<1>2. Placed(j) /\ Repeats(j) /\ replay.trace[j] \in Released
  BY <1>1 DEF Reproducing, ReplayTyped, ReplayStates
<1>3. /\ replay'.trace[j] = replay.trace[j] /\ replay.bound \subseteq replay'.bound
      /\ recording' = recording /\ application' = application
  BY ReleasedTrace DEF Releases
<1>4. PICK l \in Lane : l = replay.trace[j].lane
  BY <1>2 DEF Released
<1>5. {k \in LaneSteps(l)' : k <= j} = {k \in LaneSteps(l) : k <= j}
  <2>. DEFINE now == LaneSteps(l)'
  <2>1. \A k : k <= j => (k \in now <=> k \in LaneSteps(l))
    <3>1. CASE \A i \in 1 .. n : c[i] # l
      BY <3>1, ReleasedSteps
    <3>2. CASE \E i \in 1 .. n : c[i] = l
      <4>1. PICK i \in 1 .. n : now = LaneSteps(l) \union {Len(replay.trace) + i}
        BY <3>2, ReleasedSteps
      <4>2. n \in Nat
        BY ReleasedTrace
      <4>3. ~(Len(replay.trace) + i <= j)
        BY <1>1, <4>2
      <4>. HIDE DEF now
      <4>. QED  BY <4>1, <4>3
    <3>. QED  BY <3>1, <3>2
  <2>. HIDE DEF now
  <2>2. {k \in now : k <= j} = {k \in LaneSteps(l) : k <= j}
    BY <2>1
  <2>. QED  BY <2>2 DEF now
<1>6. Placed(j)'
  <2>1. PICK C : C = {k \in LaneSteps(l) : k <= j}
    OBVIOUS
  <2>2. C = {k \in LaneSteps(l)' : k <= j}
    BY <1>5, <2>1
  <2>3. /\ replay.trace[j].ordinal = Cardinality(C)
        /\ replay.trace[j].ordinal \in 1 .. Len(Script(l))
        /\ replay.trace[j].command = Script(l)[replay.trace[j].ordinal]
    BY <1>2, <1>4, <2>1 DEF Placed
  <2>. QED  BY <1>3, <1>4, <2>2, <2>3 DEF Placed, Script
<1>7. Repeats(j)'
  BY <1>2, <1>3 DEF Repeats
<1>. QED  BY <1>6, <1>7

LEMMA ReleaseAdds ==
  ASSUME Reproducing, Replaying, NEW n, NEW c, Grouped(n, c), Releases(n, c), NEW i \in 1 .. n,
         NEW j, j = Len(replay.trace) + i
  PROVE  Placed(j)' /\ Repeats(j)'
<1>. DEFINE p == Len(replay.trace)
<1>1. PICK l : j = p + i /\ l = c[i]
  OBVIOUS
<1>2. /\ l \in Lane /\ Free(l, {}) /\ live[l].head = Due(i).command
      /\ p + n <= Len(recording.trace) /\ n \in Nat /\ p \in Nat /\ Len(recording.trace) \in Nat
      /\ DOMAIN recording.trace = 1 .. Len(recording.trace) /\ DOMAIN replay.trace = 1 .. p
  BY <1>1, Traces, ReleasedTrace DEF Grouped
<1>3. /\ replay'.trace[j].lane = l /\ replay'.trace[j].command = live[l].head
      /\ replay'.trace[j].ordinal = live[l].done + 1
      /\ <<Due(i).lane, l>> \in replay'.bound
  BY <1>1, ReleasedTrace
<1>4. recording' = recording /\ application' = application
  BY DEF Releases
<1>5. /\ live[l] \in LiveLane /\ Scripted(l) /\ l \in DOMAIN application.startup
      /\ ~Busy(l) /\ Connected(l) /\ Len(Script(l)) \in Nat /\ live[l].done \in Nat
  BY <1>2, LaneBefore, FreeIsConnected DEF LiveLane
<1>6. /\ live[l].done < Len(Script(l)) /\ live[l].head = Script(l)[live[l].done + 1]
      /\ Cardinality(LaneSteps(l)) = live[l].done
  BY <1>2, <1>5 DEF Scripted, Free, Begun
<1>. DEFINE now == LaneSteps(l)'
<1>7. now = LaneSteps(l) \union {j} /\ Cardinality(now) = Cardinality(LaneSteps(l)) + 1
  BY <1>1, <1>2, ReleasedSteps
<1>8. \A k \in LaneSteps(l) : k <= j
  BY <1>1, <1>2 DEF LaneSteps
<1>. HIDE DEF now
<1>9. {k \in now : k <= j} = now
  <2>1. j <= j
    BY <1>1, <1>2
  <2>. QED  BY <1>7, <1>8, <2>1
<1>10. PICK C : C = now /\ C = {k \in LaneSteps(l)' : k <= j}
  BY <1>9 DEF now
<1>11. Cardinality(C) = live[l].done + 1
  BY <1>6, <1>7, <1>10
<1>12. Placed(j)'
  BY <1>3, <1>4, <1>5, <1>6, <1>10, <1>11 DEF Placed, Script
<1>13. Repeats(j)'
  <2>1. j \in DOMAIN recording.trace /\ Due(i) = recording.trace[j]
    BY <1>1, <1>2 DEF Due
  <2>. QED  BY <1>2, <1>3, <1>4, <2>1 DEF Repeats
<1>. QED  BY <1>12, <1>13

LEMMA ReleaseReproduces ==
  ASSUME Reproducing, Replaying, NEW n, NEW c, Grouped(n, c), Releases(n, c), UNCHANGED <<fixture, task>>
  PROVE  Reproducing'
<1>1. /\ replay' \in ReplayStates /\ replay'.at = "running"
      /\ n \in Nat /\ DOMAIN replay'.trace = 1 .. Len(replay.trace) + n /\ Len(replay.trace) \in Nat
  BY ReleasedTrace, Traces
<1>2. ReplayTyped'
  <2>1. live' \in [Lane -> LiveLane]
    <3>1. DOMAIN live' = Lane /\ live' = [l \in Lane |-> live'[l]]
      BY DEF Releases
    <3>. QED  BY <3>1, ReleasedLanes
  <2>. QED  BY <1>1, <2>1 DEF Reproducing, ReplayTyped, Releases, ScriptsOf
<1>3. SameStart' /\ Concluded'
  BY <1>1 DEF Reproducing, SameStart, Concluded, Replaying, Releases
<1>4. ASSUME NEW j \in DOMAIN replay'.trace PROVE Placed(j)' /\ Repeats(j)'
  <2>1. CASE j \in 1 .. Len(replay.trace)
    BY <2>1, ReleasePlaced
  <2>2. CASE j \notin 1 .. Len(replay.trace)
    <3>1. PICK i \in 1 .. n : j = Len(replay.trace) + i
      <4>1. j - Len(replay.trace) \in 1 .. n /\ j = Len(replay.trace) + (j - Len(replay.trace))
        BY <1>1, <2>2
      <4>. QED  BY <4>1
    <3>. QED  BY <3>1, ReleaseAdds
  <2>. QED  BY <2>1, <2>2
<1>. QED  BY <1>2, <1>3, <1>4, ReleaseScripted, ReleaseStanding DEF Reproducing

-----------------------------------------------------------------------------
(***************************************************************************)
(* The stages of a replay.                                                 *)
(***************************************************************************)
Stage == {"idle", "fixture", "running", "verdict", "incompatible", "failed"}

LEMMA EndsReproduces ==
  ASSUME Reproducing, NEW at \in Stage, Ends(at), task' = task, task = "replay",
         at \in {"idle", "fixture"} => live = [l \in Lane |-> IdleLane],
         at \in {"running", "verdict"} => fixture'.at = "captured" /\ fixture'.read = recording.fixture,
         at = "running" => replay.at = "fixture",
         at = "verdict" => /\ replay.at = "running"
                           /\ \A a \in Actors : Settled(a)
                           /\ Complete
                           /\ Len(replay.trace) = Len(recording.trace)
                           /\ \A i \in DOMAIN replay.trace : SameEvidence(i)
  PROVE  Reproducing'
<1>1. replay \in ReplayStates /\ UNCHANGED <<recording, application, live>> /\ replay' = [replay EXCEPT !.at = at]
  BY DEF Ends, Reproducing, ReplayTyped
<1>2. PICK patience \in {"fresh", "waiting", "out"} : patience = replay.patience
  BY <1>1 DEF ReplayStates
<1>3. /\ replay' = [replay EXCEPT !.at = at, !.patience = patience] /\ replay'.at = at
      /\ replay'.trace = replay.trace /\ replay'.bound = replay.bound
  BY <1>1, <1>2 DEF ReplayStates
<1>4. SameStart'
  BY <1>1, <1>3 DEF SameStart
<1>5. Concluded'
  BY <1>1, <1>3 DEF Concluded, Settled, Opens, Complete, Connected, Namesakes, SameStartup, Recorded, SameEvidence
<1>6. replay.at = "fixture" => live = [l \in Lane |-> IdleLane]
  BY DEF Reproducing, SameStart
<1>. QED  BY <1>1, <1>3, <1>4, <1>5, <1>6, Turns DEF Stage

(* Another command, or the capture of the fixture, leaves the replay alone. *)
LEMMA StandsStill ==
  ASSUME Reproducing, SameStart', UNCHANGED replayVars
  PROVE  Reproducing'
<1>1. replay \in ReplayStates /\ UNCHANGED <<recording, application, live, replay>> /\ Concluded
  BY DEF replayVars, Reproducing, ReplayTyped
<1>2. PICK at \in Stage, patience \in {"fresh", "waiting", "out"} : at = replay.at /\ patience = replay.patience
  BY <1>1 DEF ReplayStates, Stage
<1>3. replay' = [replay EXCEPT !.at = at, !.patience = patience]
  BY <1>1, <1>2 DEF ReplayStates
<1>4. Concluded'
  BY <1>1 DEF Concluded, Settled, Opens, Complete, Connected, Namesakes, SameStartup, Recorded, SameEvidence
<1>. QED  BY <1>1, <1>2, <1>3, <1>4, Turns DEF Stage

LEMMA DecideReproduces ==
  ASSUME Reproducing, Decide, task = "replay", UNCHANGED <<fixture, task>>
  PROVE  Reproducing'
<1>1. Deciding /\ Replaying /\ replay \in ReplayStates
  BY DEF Decide, Deciding, Reproducing, ReplayTyped
<1>2. \/ Ends("incompatible")
      \/ /\ replay' = [replay EXCEPT !.patience = "waiting"]
         /\ UNCHANGED <<recording, application, live>>
      \/ replay'.at = "running" /\ replay'.patience = "fresh"
  BY <1>1 DEF Decide, ReplayStates, Replaying, Anew
<1>3. CASE Ends("incompatible")
  BY <1>1, <1>3, EndsReproduces DEF Stage
<1>4. CASE replay' = [replay EXCEPT !.patience = "waiting"] /\ UNCHANGED <<recording, application, live>>
  <2>1. replay' = [replay EXCEPT !.at = "running", !.patience = "waiting"]
    BY <1>1, <1>4 DEF ReplayStates, Replaying
  <2>2. SameStart' /\ Concluded'
    BY <1>1, <1>4, <2>1 DEF Reproducing, SameStart, Concluded, ReplayStates, Replaying
  <2>. QED  BY <1>1, <1>4, <2>1, <2>2, Turns DEF Replaying
<1>5. CASE replay'.at = "running" /\ replay'.patience = "fresh"
  BY <1>1, <1>5, DecideReleases, ReleaseReproduces
<1>. QED  BY <1>2, <1>3, <1>4, <1>5

LEMMA ReplayStepReproduces ==
  ASSUME Reproducing, ReplayStep, task = "replay", task' = task
  PROVE  Reproducing'
<1>1. fixture' = fixture /\ replay \in ReplayStates /\ SameStart
  BY DEF ReplayStep, fixtureVars, Reproducing, ReplayTyped
<1>2. CASE MismatchFound \/ Exhausted
  <2>1. Ends("incompatible")
    BY <1>2 DEF MismatchFound, Exhausted
  <2>. QED  BY <2>1, EndsReproduces DEF Stage
<1>3. CASE Decide
  BY <1>1, <1>3, DecideReproduces
<1>4. CASE Impatience
  <2>1. replay' = [replay EXCEPT !.at = "running", !.patience = "out"]
        /\ UNCHANGED <<recording, application, live>> /\ Replaying
    BY <1>1, <1>4 DEF Impatience, ReplayStates, Replaying
  <2>2. SameStart' /\ Concluded'
    BY <1>1, <2>1 DEF SameStart, Concluded, ReplayStates, Replaying
  <2>. QED  BY <2>1, <2>2, Turns DEF Replaying
<1>5. CASE ReplayFinish
  <2>. DEFINE same == /\ Complete
                      /\ Len(replay.trace) = Len(recording.trace)
                      /\ \A i \in DOMAIN replay.trace : SameEvidence(i)
  <2>1. Replaying /\ (\A a \in Actors : Settled(a)) /\ Ends(IF same THEN "verdict" ELSE "incompatible")
    BY <1>5 DEF ReplayFinish
  <2>2. fixture.at = "captured" /\ fixture.read = recording.fixture
    BY <1>1, <2>1 DEF SameStart, Replaying
  <2>3. CASE same
    <3>1. Ends("verdict")
      BY <2>1, <2>3
    <3>. QED  BY <1>1, <2>1, <2>2, <2>3, <3>1, EndsReproduces DEF Stage, Replaying
  <2>4. CASE ~same
    <3>. HIDE DEF same
    <3>1. Ends("incompatible")
      BY <2>1, <2>4
    <3>. QED  BY <3>1, EndsReproduces DEF Stage
  <2>. QED  BY <2>3, <2>4
<1>6. CASE \E l \in Lane : Connect(l) \/ Queue(l) \/ Close(l) \/ Answer(l)
  BY <1>1, <1>6, ConnectReproduces, QueueReproduces, CloseReproduces, AnswerReproduces
<1>7. CASE \E l, m \in Lane : Block(l, m)
  BY <1>1, <1>7, BlockReproduces
<1>. QED  BY <1>2, <1>3, <1>4, <1>5, <1>6, <1>7 DEF ReplayStep

LEMMA ReplayBegins ==
  ASSUME Reproducing, ReplayStart \/ ReplayFixture, task = "replay", task' = task
  PROVE  Reproducing'
<1>1. replay \in ReplayStates /\ SameStart
  BY DEF Reproducing, ReplayTyped
<1>2. CASE ReplayStart
  <2>1. PICK at \in {"fixture", "incompatible"} : Ends(at) /\ replay.at = "idle"
    BY <1>2 DEF ReplayStart, Ends
  <2>. QED  BY <1>1, <2>1, EndsReproduces DEF Stage, SameStart
<1>3. CASE ReplayFixture
  <2>1. /\ replay.at = "fixture" /\ fixture' = fixture
        /\ \/ fixture.at = "captured" /\ SameFixture /\ Ends("running")
           \/ Ends("incompatible")
           \/ Ends("failed")
    BY <1>3 DEF ReplayFixture, fixtureVars
  <2>. QED  BY <1>1, <2>1, EndsReproduces DEF Stage, SameFixture
<1>. QED  BY <1>2, <1>3

(* A step of any command. *)
LEMMA ReproducingNext ==
  ASSUME Reproducing, Next
  PROVE  Reproducing'
<1>1. SameStart
  BY DEF Reproducing
<1>2. CASE task # "replay"
  <2>1. UNCHANGED replayVars /\ task' = task
    BY <1>2, Zenon DEF Next, Programs, Faults, Deadline, Done, vars
  <2>2. SameStart'
    BY <1>1, <1>2, <2>1 DEF SameStart, replayVars
  <2>. QED  BY <2>1, <2>2, StandsStill
<1>3. CASE task = "replay"
  <2>1. \/ (ReplayStart \/ ReplayFixture) /\ task' = task
        \/ ReplayStep /\ task' = task
        \/ (FixtureStep \/ FixtureTrouble) /\ UNCHANGED <<task, replayVars>>
        \/ ReplayTrouble /\ task' = task
        \/ UNCHANGED vars
    BY <1>3 DEF Next, Programs, Faults, Deadline, Done
  <2>2. CASE (ReplayStart \/ ReplayFixture) /\ task' = task
    BY <1>3, <2>2, ReplayBegins
  <2>3. CASE ReplayStep /\ task' = task
    BY <1>3, <2>3, ReplayStepReproduces
  <2>4. CASE (FixtureStep \/ FixtureTrouble) /\ UNCHANGED <<task, replayVars>>
    <3>1. fixture.at # "captured"
      BY <2>4 DEF FixtureStep, FixtureConnect, FixtureBegin, FixtureRead, FixtureReadAll, FixtureRecheck,
                  FixtureCommit, FixtureTrouble
    <3>2. SameStart'
      BY <1>1, <2>4, <3>1 DEF SameStart, replayVars
    <3>. QED  BY <2>4, <3>2, StandsStill
  <2>5. CASE ReplayTrouble /\ task' = task
    <3>1. Ends("failed")
      BY <2>5 DEF ReplayTrouble
    <3>. QED  BY <1>3, <2>5, <3>1, EndsReproduces DEF Stage
  <2>6. CASE UNCHANGED vars
    <3>1. UNCHANGED replayVars /\ SameStart'
      BY <1>1, <2>6 DEF vars, SameStart, replayVars, fixtureVars
    <3>. QED  BY <3>1, StandsStill
  <2>. QED  BY <2>1, <2>2, <2>3, <2>4, <2>5, <2>6
<1>. QED  BY <1>2, <1>3

(* A replay comes to a verdict only over the recorded fixture and the      *)
(* recorded execution, whatever the recordings and the applications are    *)
(* (code: LaneBinder, src/lanes.ts; the replay's part of executeRun,       *)
(* src/runner.ts).                                                         *)
THEOREM ReplaysReproduce == Spec => []ReplayReproduces
<1>1. Reproducing /\ [Next]_vars => Reproducing'
  <2>1. ASSUME Reproducing, UNCHANGED vars PROVE Reproducing'
    <3>1. UNCHANGED replayVars /\ SameStart'
      BY <2>1 DEF vars, Reproducing, SameStart, replayVars, fixtureVars
    <3>. QED  BY <2>1, <3>1, StandsStill
  <2>. QED  BY <2>1, ReproducingNext
<1>. QED  BY <1>1, ReproducingInit, ReproducingReproduces, PTL DEF Spec
=============================================================================
