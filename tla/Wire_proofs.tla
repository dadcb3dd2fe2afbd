------------------------------- MODULE Wire_proofs -------------------------------
(***************************************************************************)
(* The bytes that a session of Wire holds for its client, for any          *)
(* messages, profiles and limits.                                          *)
(***************************************************************************)
EXTENDS Wire, Sums_proofs

-----------------------------------------------------------------------------
(***************************************************************************)
(* The weight of a queue.                                                  *)
(***************************************************************************)
Units == Seq(Message)

LEMMA WeightIsNat ==
  ASSUME NEW S, NEW u \in Seq(S)
  PROVE  Weight(u) \in Nat /\ \A f \in S : Weight(Append(u, f)) = Weight(u) + 2
<1>1. Len(u) \in Nat /\ \A f \in S : Len(Append(u, f)) = Len(u) + 1
  OBVIOUS
<1>. QED  BY <1>1 DEF Weight

LEMMA QueuedIsNat ==
  ASSUME NEW q \in Seq(Units)
  PROVE  /\ Queued(q) \in Nat
         /\ IsFiniteSet(DOMAIN q) /\ \A i \in DOMAIN q : Weight(q[i]) \in Nat
<1>. DEFINE f == [i \in DOMAIN q |-> Weight(q[i])]
<1>1. IsFiniteSet(DOMAIN q)
  <2>1. DOMAIN q = 1 .. Len(q) /\ Len(q) \in Int /\ 1 \in Int
    OBVIOUS
  <2>. QED  BY <2>1, FS_Interval
<1>2. \A i \in DOMAIN q : Weight(q[i]) \in Nat
  <2>1. \A i \in DOMAIN q : q[i] \in Units
    OBVIOUS
  <2>. QED  BY <2>1, WeightIsNat DEF Units
<1>3. DOMAIN f = DOMAIN q /\ \A i \in DOMAIN f : f[i] \in Nat
  BY <1>2
<1>. HIDE DEF f
<1>4. SumFunction(f) \in Nat
  BY <1>1, <1>3, SumIsNat DEF SumFunction
<1>. QED  BY <1>1, <1>2, <1>4 DEF Queued, f

LEMMA QueuedAppend ==
  ASSUME NEW q \in Seq(Units), NEW u \in Units
  PROVE  Queued(Append(q, u)) = Queued(q) + Weight(u)
<1>. DEFINE r == Append(q, u)
            x == Len(q) + 1
            f == [i \in DOMAIN q |-> Weight(q[i])]
            g == [i \in DOMAIN r |-> Weight(r[i])]
<1>1. /\ r \in Seq(Units) /\ DOMAIN r = DOMAIN q \union {x} /\ x \notin DOMAIN q
      /\ r[x] = u /\ \A i \in DOMAIN q : r[i] = q[i]
  OBVIOUS
<1>2. IsFiniteSet(DOMAIN q) /\ \A i \in DOMAIN r : Weight(r[i]) \in Nat
  <2>. HIDE DEF r
  <2>. QED  BY <1>1, QueuedIsNat
<1>. HIDE DEF r, x
<1>3. /\ DOMAIN f = DOMAIN q /\ DOMAIN g = DOMAIN f \union {x} /\ g[x] = Weight(u)
      /\ \A i \in DOMAIN f : g[i] = f[i]
      /\ \A i \in DOMAIN g : g[i] \in Nat
  BY <1>1, <1>2
<1>. HIDE DEF f, g
<1>4. SumFunction(g) = SumFunction(f) + g[x]
  BY <1>1, <1>2, <1>3, SumAdds
<1>. QED  BY <1>3, <1>4 DEF Queued, f, g, r

LEMMA QueuedNothing == Queued(<<>>) = 0
<1>. DEFINE f == [i \in DOMAIN <<>> |-> Weight(<<>>[i])]
<1>1. DOMAIN f = {}
  OBVIOUS
<1>. HIDE DEF f
<1>2. SumFunction(f) = 0
  BY <1>1, SumEmpty DEF SumFunction
<1>. QED  BY <1>2 DEF Queued, f

(* A queue is its last unit and those before it. *)
LEMMA LastUnit ==
  ASSUME NEW q \in Seq(Units), NEW n \in Nat, Len(q) = n + 1
  PROVE  \E r \in Seq(Units), u \in Units : q = Append(r, u) /\ Len(r) = n
<1>. DEFINE r == SubSeq(q, 1, n)
<1>1. r \in Seq(Units) /\ Len(r) = n /\ \A i \in 1 .. n : r[i] = q[i]
  OBVIOUS
<1>2. q[n + 1] \in Units
  OBVIOUS
<1>. HIDE DEF r
<1>3. q = Append(r, q[n + 1])
  <2>1. Append(r, q[n + 1]) \in Seq(Units) /\ Len(Append(r, q[n + 1])) = n + 1
    BY <1>1, <1>2
  <2>2. \A i \in 1 .. n + 1 : q[i] = Append(r, q[n + 1])[i]
    BY <1>1, <1>2
  <2>. QED  BY <2>1, <2>2
<1>. QED  BY <1>1, <1>2, <1>3

(* Releasing the oldest unit takes its weight off the queue. *)
LEMMA QueuedTail ==
  ASSUME NEW q \in Seq(Units), q # <<>>
  PROVE  Queued(q) = Weight(Head(q)) + Queued(Tail(q))
<1>. DEFINE Sum(s) == Queued(s) = Weight(Head(s)) + Queued(Tail(s))
            N == {n \in Nat : \A s \in Seq(Units) : Len(s) = n + 1 => Sum(s)}
<1>1. 0 \in N
  <2>. SUFFICES ASSUME NEW s \in Seq(Units), Len(s) = 0 + 1 PROVE Sum(s)
    OBVIOUS
  <2>1. PICK r \in Seq(Units), u \in Units : s = Append(r, u) /\ Len(r) = 0
    BY LastUnit
  <2>2. r = <<>> /\ Head(s) = u /\ Tail(s) = <<>>
    BY <2>1
  <2>3. Queued(s) = Queued(r) + Weight(u)
    BY <2>1, QueuedAppend
  <2>4. Weight(u) \in Nat
    BY WeightIsNat DEF Units
  <2>5. Queued(r) = 0 /\ Queued(Tail(s)) = 0 /\ Weight(Head(s)) = Weight(u)
    BY <2>2, QueuedNothing
  <2>. QED  BY <2>3, <2>4, <2>5
<1>2. ASSUME NEW n \in N PROVE n + 1 \in N
  <2>. SUFFICES ASSUME NEW s \in Seq(Units), Len(s) = (n + 1) + 1 PROVE Sum(s)
    OBVIOUS
  <2>0. n + 1 \in Nat
    OBVIOUS
  <2>1. PICK r \in Seq(Units), u \in Units : s = Append(r, u) /\ Len(r) = n + 1
    BY <2>0, LastUnit
  <2>2. Head(s) = Head(r) /\ Tail(s) = Append(Tail(r), u) /\ r # <<>> /\ Tail(r) \in Seq(Units) /\ Head(r) \in Units
    <3>1. r # <<>> /\ Len(r) \in Nat
      BY <2>1
    <3>2. Tail(r) \in Seq(Units) /\ Head(r) \in Units /\ Head(s) = Head(r)
      BY <2>1, <3>1
    <3>3. Tail(s) = Append(Tail(r), u)
      <4>1. Len(Tail(s)) = n + 1 /\ Len(Append(Tail(r), u)) = n + 1 /\ Tail(s) \in Seq(Units)
            /\ Append(Tail(r), u) \in Seq(Units)
        BY <2>1, <3>1, <3>2
      <4>2. \A i \in 1 .. n + 1 : Tail(s)[i] = Append(Tail(r), u)[i]
        BY <2>1, <3>1, <3>2
      <4>. QED  BY <4>1, <4>2
    <3>. QED  BY <3>1, <3>2, <3>3
  <2>3. Sum(r)
    BY <2>1
  <2>4. Queued(s) = Queued(r) + Weight(u) /\ Queued(Tail(s)) = Queued(Tail(r)) + Weight(u)
    BY <2>1, <2>2, QueuedAppend
  <2>5. Weight(u) \in Nat /\ Weight(Head(r)) \in Nat /\ Queued(Tail(r)) \in Nat
    BY <2>2, WeightIsNat, QueuedIsNat DEF Units
  <2>. QED  BY <2>2, <2>3, <2>4, <2>5
<1>3. N = Nat
  <2>. HIDE DEF N
  <2>1. N \in SUBSET Nat
    BY DEF N
  <2>. QED  BY <1>1, <1>2, <2>1, NatSetInduction
<1>4. PICK n \in Nat : Len(q) = n + 1
  <2>1. Len(q) \in Nat /\ Len(q) # 0
    OBVIOUS
  <2>2. Len(q) - 1 \in Nat /\ Len(q) = (Len(q) - 1) + 1
    BY <2>1
  <2>. QED  BY <2>2
<1>. QED  BY <1>3, <1>4

-----------------------------------------------------------------------------
(***************************************************************************)
(* The invariant.  What was announced is the oldest unit of the queue, so  *)
(* its release moves the bytes of that unit, and no others, from the queue *)
(* to what is in flight; and a stage that is answered has an open cycle,   *)
(* which its frames are counted with.                                      *)
(***************************************************************************)
Flying(journal) ==
  {"stage", "frames", "index", "failed"} \subseteq DOMAIN journal /\ journal.frames \in Units

Announced(u, q) == u # None => q # <<>> /\ u.frames = Head(q)

Released(flying, open) ==
  /\ flying # None => Flying(flying)
  /\ open # None => open \in OpenCycle
  /\ flying # None /\ flying.stage \in {"describe", "flush"} => open # None

Holds ==
  /\ cycle \in Units /\ queue \in Seq(Units)
  /\ Announced(unit, queue) /\ Released(inFlight, prefix)
  /\ retained = Queued(queue)
  /\ retained + Weight(cycle) + Others(inFlight, prefix) <= MaxBuffered

Held == profile \in DOMAIN Starts /\ todo \in Units /\ (state = "open" => Holds)

LEMMA HeldCounts == Held => BytesCountedOnce
BY DEF Held, Holds, BytesCountedOnce

LEMMA BareIsMessage ==
  /\ \A t \in {"startup", "P", "B", "C", "D", "E", "H", "S", "Q", "d", "c", "f"} : Bare(t) \in Message
  /\ Sync \in Message
BY WireAssumption DEF Bare, Frame, Message, Sync

LEMMA HeldInit == Init => Held
<1>. SUFFICES ASSUME Init PROVE Held
  OBVIOUS
<1>1. todo \in Units
  BY BareIsMessage DEF Init, Units
<1>2. queue \in Seq(Units) /\ cycle \in Units /\ Queued(queue) = 0 /\ Weight(cycle) = 0
  BY QueuedNothing DEF Init, Units, Weight
<1>3. Others(inFlight, prefix) = 0
  BY DEF Init, Others
<1>4. Announced(unit, queue) /\ Released(inFlight, prefix) /\ retained = 0 /\ MaxBuffered \in Nat
  BY WireAssumption DEF Init, Announced, Released
<1>5. Holds
  BY <1>2, <1>3, <1>4 DEF Holds
<1>. QED  BY <1>1, <1>5 DEF Held, Init

-----------------------------------------------------------------------------
(***************************************************************************)
(* What is held besides the queue.                                         *)
(***************************************************************************)
LEMMA OthersCount ==
  ASSUME NEW flying, NEW open, Released(flying, open)
  PROVE  /\ Others(flying, open) \in Nat
         /\ open # None => Weight(open.frames) \in Nat /\ Others(None, open) = Weight(open.frames)
                           /\ Weight(open.frames) <= Others(flying, open)
         /\ Others(None, None) = 0
<1>1. flying # None => Weight(flying.frames) \in Nat
  BY WeightIsNat DEF Released, Flying, Units
<1>2. open # None => Weight(open.frames) \in Nat
  BY WeightIsNat DEF Released, OpenCycle
<1>3. flying # None /\ open # None /\ flying.frames = open.frames => Weight(flying.frames) = Weight(open.frames)
  OBVIOUS
<1>. QED  BY <1>1, <1>2, <1>3 DEF Others

(* What a release and what an answer leave in flight and open weigh no     *)
(* more than before.                                                       *)
LEMMA ReleaseCounts ==
  ASSUME NEW open, Released(None, open), NEW u \in Units, NEW flying, Flying(flying), flying.frames = u,
         NEW staged, \/ staged = open
                     \/ staged \in OpenCycle /\ staged.frames = u
  PROVE  Others(flying, staged) <= Weight(u) + Others(None, open)
<1>1. Weight(u) \in Nat /\ Others(None, open) \in Nat
  BY OthersCount, WeightIsNat DEF Units
<1>2. CASE staged = open
  BY <1>1, <1>2, OthersCount DEF Others
<1>3. CASE staged \in OpenCycle /\ staged.frames = u
  BY <1>1, <1>3 DEF Others
<1>. QED  BY <1>2, <1>3

LEMMA Announces ==
  ASSUME NEW isReady, NEW q, NEW bytes, NEW open, NEW flying, NEW m,
         Announce(isReady, q, bytes, open, flying, m), state' = "open", Announced(unit, q)
  PROVE  /\ queue' = q /\ retained' = bytes /\ prefix' = open /\ inFlight' = flying
         /\ Announced(unit', q)
<1>1. PICK u \in {IF unit # None THEN unit ELSE IF isReady THEN Proposed(q, open, flying, m) ELSE None} :
        IF u # None /\ u.stage = "unsupported" THEN Fail /\ UNCHANGED <<ready, meta>>
        ELSE /\ unit' = u /\ queue' = q /\ retained' = bytes /\ prefix' = open /\ inFlight' = flying
             /\ ready' = isReady /\ meta' = m /\ UNCHANGED <<upstream, state>>
  BY DEF Announce
<1>2. ~(u # None /\ u.stage = "unsupported")
  BY <1>1 DEF Fail
<1>3. unit' = u /\ queue' = q /\ retained' = bytes /\ prefix' = open /\ inFlight' = flying
  BY <1>1, <1>2
<1>4. Announced(u, q)
  <2>1. CASE u = unit
    BY <2>1
  <2>2. CASE u = None
    BY <2>2 DEF Announced
  <2>3. CASE q # <<>> /\ u = Assembled(Head(q), open, m) /\ u # None
    <3>. DEFINE ops == Operations(Head(q), m)
                stage == Stage(Head(q), open)
                ok == Supported(stage, Head(q), open) /\ \A i \in DOMAIN ops : ops[i].sql # None
    <3>1. u = IF ok THEN [stage |-> stage, frames |-> Head(q), ops |-> ops] ELSE [stage |-> "unsupported"]
      BY <2>3 DEF Assembled
    <3>. HIDE DEF ops, stage, ok
    <3>2. u = [stage |-> stage, frames |-> Head(q), ops |-> ops]
      BY <1>2, <2>3, <3>1
    <3>3. u.frames = Head(q)
      BY <3>2
    <3>. QED  BY <2>3, <3>3 DEF Announced
  <2>. QED  BY <1>1, <2>1, <2>2, <2>3 DEF Proposed
<1>. QED  BY <1>3, <1>4

-----------------------------------------------------------------------------
(***************************************************************************)
(* The steps.                                                              *)
(***************************************************************************)
(* The released unit is the oldest one that is queued. *)
LEMMA ReleaseHolds ==
  ASSUME Held, Release
  PROVE  Held'
<1>1. /\ Holds /\ unit # None /\ inFlight = None /\ state = "open"
      /\ queue' = Tail(queue) /\ retained' = retained - Weight(Head(queue)) /\ unit' = None
      /\ UNCHANGED <<profile, todo, state, cycle>>
  BY DEF Held, Release, Open, client, intake
<1>2. queue \in Seq(Units) /\ queue # <<>> /\ unit.frames = Head(queue) /\ cycle \in Units
  BY <1>1 DEF Holds, Announced
<1>3. Head(queue) \in Units /\ Tail(queue) \in Seq(Units)
  BY <1>2
<1>4. Released(None, prefix) /\ MaxBuffered \in Nat
  BY <1>1, WireAssumption DEF Holds, Released
<1>5. Flying(inFlight') /\ inFlight'.frames = Head(queue) /\ inFlight'.stage = unit.stage
  BY <1>2, <1>3 DEF Release, Flying
<1>6. IF unit.stage \in {"describe", "flush"}
      THEN prefix' \in OpenCycle /\ prefix'.frames = Head(queue)
      ELSE prefix' = prefix
  BY <1>2, <1>3 DEF Release, OpenCycle, Units
<1>7. Released(inFlight', prefix')
  BY <1>4, <1>5, <1>6, FramesAssumption DEF Released
<1>8. Others(inFlight', prefix') <= Weight(Head(queue)) + Others(None, prefix)
  <2>1. PICK flying, staged : flying = inFlight' /\ staged = prefix'
    OBVIOUS
  <2>2. Others(flying, staged) <= Weight(Head(queue)) + Others(None, prefix)
    BY <1>3, <1>4, <1>5, <1>6, <2>1, ReleaseCounts
  <2>. QED  BY <2>1, <2>2
<1>9. /\ Weight(Head(queue)) \in Nat /\ Weight(cycle) \in Nat /\ Queued(Tail(queue)) \in Nat
      /\ Queued(queue) = Weight(Head(queue)) + Queued(Tail(queue))
  BY <1>2, <1>3, QueuedTail, QueuedIsNat, WeightIsNat DEF Units
<1>10. Others(None, prefix) \in Nat /\ Others(inFlight', prefix') \in Nat
  <2>1. PICK flying, staged : flying = inFlight' /\ staged = prefix'
    OBVIOUS
  <2>. QED  BY <1>4, <1>7, <2>1, OthersCount
<1>11. retained' = Queued(Tail(queue))
       /\ retained' + Weight(cycle) + Others(inFlight', prefix') <= MaxBuffered
  <2>1. retained = Queued(queue) /\ retained + Weight(cycle) + Others(None, prefix) <= MaxBuffered
    BY <1>1 DEF Holds
  <2>. QED  BY <1>1, <1>4, <1>8, <1>9, <1>10, <2>1
<1>12. Holds'
  BY <1>1, <1>2, <1>3, <1>7, <1>11 DEF Holds, Announced
<1>. QED  BY <1>1, <1>12 DEF Held

(* An arriving message counts with its cycle, and a whole unit as queued. *)
LEMMA AcceptHolds ==
  ASSUME Holds, NEW f \in Message, Accept(f), frontend' \in Nat, state' = "open"
  PROVE  Holds'
<1>. DEFINE frames == Append(cycle, f)
            spent  == IF f.t = "Q" THEN cycleBytes ELSE cycleBytes + 2
<1>1. ~(Refused(f) \/ spent > MaxBuffered \/ ~Fits(Weight(frames)))
  BY DEF Accept, Fail
<1>2. retained + Weight(frames) + frontend' + Others(inFlight, prefix) <= MaxBuffered
  BY <1>1 DEF Fits
<1>3. cycle \in Units /\ queue \in Seq(Units) /\ Announced(unit, queue) /\ Released(inFlight, prefix)
      /\ retained = Queued(queue)
  BY DEF Holds
<1>4. frames \in Units /\ Weight(frames) \in Nat /\ Queued(queue) \in Nat /\ MaxBuffered \in Nat
      /\ Others(inFlight, prefix) \in Nat
  <2>1. frames \in Units
    BY <1>3 DEF Units
  <2>. HIDE DEF frames
  <2>. QED  BY <1>3, <2>1, WeightIsNat, QueuedIsNat, OthersCount, WireAssumption DEF Units
<1>5. CASE f.t \in {"S", "H", "Q"}
  <2>. DEFINE q == Append(queue, frames)
              bytes == retained + Weight(frames)
  <2>1. cycle' = <<>> /\ Announce(ready, q, bytes, prefix, inFlight, meta)
    BY <1>1, <1>5 DEF Accept
  <2>2. q \in Seq(Units) /\ Queued(q) = bytes /\ Announced(unit, q)
    <3>. HIDE DEF frames
    <3>1. q \in Seq(Units) /\ Queued(q) = bytes
      BY <1>3, <1>4, QueuedAppend
    <3>2. queue # <<>> => q # <<>> /\ Head(q) = Head(queue)
      BY <1>3, <1>4
    <3>. QED  BY <1>3, <3>1, <3>2 DEF Announced
  <2>. HIDE DEF q, bytes, frames
  <2>3. queue' = q /\ retained' = bytes /\ prefix' = prefix /\ inFlight' = inFlight /\ Announced(unit', q)
    BY <2>1, <2>2, Announces
  <2>4. cycle' \in Units /\ Weight(cycle') = 0
    BY <2>1 DEF Weight, Units
  <2>5. bytes + 0 + Others(inFlight, prefix) <= MaxBuffered
    BY <1>2, <1>3, <1>4 DEF bytes
  <2>. QED  BY <1>3, <2>2, <2>3, <2>4, <2>5 DEF Holds
<1>6. CASE f.t \notin {"S", "H", "Q"}
  <2>1. cycle' = frames /\ UNCHANGED <<retained, queue, unit, prefix, inFlight>>
    BY <1>1, <1>6 DEF Accept, work
  <2>. HIDE DEF frames
  <2>2. retained + Weight(frames) + Others(inFlight, prefix) <= MaxBuffered
    BY <1>2, <1>3, <1>4
  <2>. QED  BY <1>3, <1>4, <2>1, <2>2 DEF Holds
<1>. QED  BY <1>5, <1>6

(* What a client sends is a message and those that follow it. *)
LEMMA SendsMessages ==
  ASSUME Held, NEW frames \in IF todo # <<>> THEN {todo} ELSE IF Answering THEN Answers ELSE Begins
  PROVE  frames \in Units /\ frames # <<>>
<1>1. CASE todo # <<>>
  BY <1>1 DEF Held
<1>2. CASE frames \in Answers
  <2>1. ASSUME NEW e \in {<<>>, <<Sync>>}
        PROVE  /\ <<Bare("d"), Bare("c")>> \o e \in Units /\ <<Bare("d"), Bare("c")>> \o e # <<>>
               /\ <<Bare("f")>> \o e \in Units /\ <<Bare("f")>> \o e # <<>>
    <3>1. Bare("d") \in Message /\ Bare("c") \in Message /\ Bare("f") \in Message
      BY BareIsMessage
    <3>2. e \in Seq(Message)
      <4>1. <<Sync>> \in Seq(Message) /\ <<>> \in Seq(Message)
        BY BareIsMessage
      <4>. QED  BY <4>1
    <3>3. \A d, c, b \in Message : /\ <<d, c>> \o e \in Seq(Message) /\ <<d, c>> \o e # <<>>
                                   /\ <<b>> \o e \in Seq(Message) /\ <<b>> \o e # <<>>
      BY <3>2
    <3>. QED  BY <3>1, <3>3 DEF Units
  <2>2. <<Sync>> \in Units /\ <<Sync>> # <<>>
    BY BareIsMessage DEF Units
  <2>3. \/ \E e \in {<<>>, <<Sync>>} : frames = <<Bare("d"), Bare("c")>> \o e \/ frames = <<Bare("f")>> \o e
        \/ frames = <<Sync>>
    BY <1>2 DEF Answers
  <2>. QED  BY <2>1, <2>2, <2>3
<1>3. CASE frames \in Begins
  <2>1. <<Sync>> \in Units /\ <<Sync>> # <<>>
    BY BareIsMessage DEF Units
  <2>2. Starts[profile] \union Stages[profile] \subseteq Units \ {<<>>}
    BY FramesAssumption DEF Held, Units
  <2>3. frames = <<Sync>> \/ frames \in Starts[profile] \union Stages[profile]
    BY <1>3 DEF Begins
  <2>. QED  BY <2>1, <2>2, <2>3
<1>. QED  BY <1>1, <1>2, <1>3

LEMMA SendHolds ==
  ASSUME Held, Send
  PROVE  Held'
<1>1. PICK frames \in IF todo # <<>> THEN {todo} ELSE IF Answering THEN Answers ELSE Begins :
        /\ todo' = Tail(frames)
        /\ frontend' \in 0 .. (IF Len(frames) > 1 THEN 1 ELSE 0)
        /\ Receive(Head(frames))
  BY DEF Send
<1>2. frames \in Units /\ frames # <<>>
  BY SendsMessages
<1>3. PICK f \in Message : f = Head(frames)
  BY <1>2 DEF Units
<1>4. todo' \in Units /\ frontend' \in Nat /\ profile' = profile /\ state = "open" /\ Holds
  <2>1. todo' \in Units
    BY <1>1, <1>2 DEF Units
  <2>2. frontend' \in Nat
    <3>1. frontend' \in 0 .. 0 \/ frontend' \in 0 .. 1
      BY <1>1
    <3>. QED  BY <3>1
  <2>. QED  BY <2>1, <2>2 DEF Send, Open, Held
<1>5. CASE UNCHANGED <<state, work, cycle>>
  BY <1>4, <1>5 DEF Held, Holds, work
<1>6. CASE Fail
  BY <1>4, <1>6 DEF Held, Fail
<1>7. CASE Accept(f)
  BY <1>4, <1>7, AcceptHolds DEF Held
<1>. QED  BY <1>1, <1>3, <1>5, <1>6, <1>7 DEF Receive

(* An answer leaves the unit in flight, or its cycle open, or neither. *)
LEMMA BackendHolds ==
  ASSUME Held, Backend
  PROVE  Held'
<1>1. Holds /\ state = "open" /\ UNCHANGED <<profile, todo, cycle>>
  BY DEF Held, Backend, Open, client, intake
<1>2. /\ cycle \in Units /\ queue \in Seq(Units) /\ Announced(unit, queue) /\ Released(inFlight, prefix)
      /\ retained = Queued(queue)
      /\ retained + Weight(cycle) + Others(inFlight, prefix) <= MaxBuffered
  BY <1>1 DEF Holds
<1>3. /\ retained \in Nat /\ Weight(cycle) \in Nat /\ Others(inFlight, prefix) \in Nat /\ MaxBuffered \in Nat
  BY <1>2, QueuedIsNat, WeightIsNat, OthersCount, WireAssumption DEF Units
<1>4. ASSUME state' = "open", NEW open, NEW flying, NEW m, Announce(TRUE, queue, retained, open, flying, m),
             Released(flying, open), Others(flying, open) <= Others(inFlight, prefix)
      PROVE  Holds'
  <2>1. queue' = queue /\ retained' = retained /\ prefix' = open /\ inFlight' = flying /\ Announced(unit', queue)
    BY <1>2, <1>4, Announces
  <2>2. Others(flying, open) \in Nat
    BY <1>4, OthersCount
  <2>3. retained + Weight(cycle) + Others(flying, open) <= MaxBuffered
    BY <1>2, <1>3, <1>4, <2>2
  <2>. QED  BY <1>1, <1>2, <1>4, <2>1, <2>3 DEF Holds
<1>5. CASE Announce(TRUE, queue, retained, prefix, inFlight, meta)
  <2>1. PICK open, flying, m : open = prefix /\ flying = inFlight /\ m = meta
    OBVIOUS
  <2>2. /\ Announce(TRUE, queue, retained, open, flying, m) /\ Released(flying, open)
        /\ Others(flying, open) <= Others(inFlight, prefix)
    <3>1. Others(inFlight, prefix) <= Others(inFlight, prefix)
      BY <1>3
    <3>. QED  BY <1>2, <1>5, <2>1, <3>1, Zenon
  <2>3. state' = "open" => Holds'
    BY <1>4, <2>2
  <2>. QED  BY <1>1, <2>3 DEF Held
<1>6. CASE Fail
  BY <1>1, <1>6 DEF Held, Fail
<1>7. CASE UNCHANGED <<state, work>>
  BY <1>1, <1>7 DEF Held, Holds, work
<1>8. ASSUME NEW t, Answered(t), inFlight # None
      PROVE  Held'
  <2>1. PICK journal : /\ journal = Journal(t)
                       /\ IF Completes(journal, t)
                          THEN Announce(TRUE, queue, retained, CycleAfter(t), None, KnownAfter(t))
                          ELSE inFlight' = journal /\ UNCHANGED <<state, queue, retained, unit, prefix>>
    BY <1>8 DEF Answered
  <2>2. CASE Announce(TRUE, queue, retained, CycleAfter(t), None, KnownAfter(t))
    <3>1. PICK open, m : open = CycleAfter(t) /\ m = KnownAfter(t)
      OBVIOUS
    <3>2. \/ open = None
          \/ prefix # None /\ open \in OpenCycle /\ open.frames = prefix.frames
      <4>1. PICK e \in BOOLEAN : e = (t = "E")
        OBVIOUS
      <4>2. open = IF inFlight.stage \in {"describe", "flush"}
                   THEN [prefix EXCEPT !.complete = TRUE, !.error = e] ELSE None
        BY <3>1, <4>1 DEF CycleAfter
      <4>3. inFlight.stage \in {"describe", "flush"} => prefix # None /\ prefix \in OpenCycle
        BY <1>2, <1>8 DEF Released
      <4>4. prefix \in OpenCycle =>
              /\ [prefix EXCEPT !.complete = TRUE, !.error = e] \in OpenCycle
              /\ [prefix EXCEPT !.complete = TRUE, !.error = e].frames = prefix.frames
        BY DEF OpenCycle
      <4>. QED  BY <4>2, <4>3, <4>4
    <3>3. Released(None, open)
      BY <3>2 DEF Released
    <3>4. Others(None, open) <= Others(inFlight, prefix)
      <4>1. CASE open = None
        BY <1>2, <1>3, <4>1, OthersCount
      <4>2. CASE open # None
        <5>1. Others(None, open) = Weight(open.frames) /\ Weight(prefix.frames) <= Others(inFlight, prefix)
          BY <1>2, <3>2, <3>3, <4>2, OthersCount
        <5>. QED  BY <3>2, <4>2, <5>1
      <4>. QED  BY <4>1, <4>2
    <3>5. state' = "open" => Holds'
      BY <1>4, <2>2, <3>1, <3>3, <3>4
    <3>. QED  BY <1>1, <3>5 DEF Held
  <2>3. CASE inFlight' = journal /\ UNCHANGED <<state, queue, retained, unit, prefix>>
    <3>1. Flying(journal) /\ journal.frames = inFlight.frames /\ journal.stage = inFlight.stage
      <4>1. PICK a, b : a = (inFlight.failed \/ t = "E")
                        /\ b = (IF Acknowledges(t) THEN inFlight.index + 1 ELSE inFlight.index)
        OBVIOUS
      <4>2. journal = [inFlight EXCEPT !.failed = a, !.index = b]
        BY <2>1, <4>1 DEF Journal
      <4>3. Flying(inFlight)
        BY <1>2, <1>8 DEF Released
      <4>. QED  BY <4>2, <4>3 DEF Flying
    <3>2. Released(journal, prefix)
      BY <1>2, <1>8, <3>1 DEF Released
    <3>3. Others(journal, prefix) \in Nat /\ Others(journal, prefix) <= Others(inFlight, prefix)
      <4>1. Others(journal, prefix) \in Nat
        BY <3>2, OthersCount
      <4>2. CASE journal = None
        BY <1>2, <1>3, <4>1, <4>2, OthersCount
      <4>3. CASE journal # None
        <5>1. Weight(journal.frames) = Weight(inFlight.frames)
          BY <3>1
        <5>2. Others(journal, prefix) = Others(inFlight, prefix)
          BY <1>8, <3>1, <4>3, <5>1 DEF Others
        <5>. QED  BY <1>3, <5>2
      <4>. QED  BY <4>1, <4>2, <4>3
    <3>4. retained + Weight(cycle) + Others(journal, prefix) <= MaxBuffered
      BY <1>2, <1>3, <3>3
    <3>. QED  BY <1>1, <1>2, <2>3, <3>2, <3>4 DEF Held, Holds
  <2>. QED  BY <2>1, <2>2, <2>3
<1>. QED  BY <1>5, <1>6, <1>7, <1>8 DEF Backend

(* A session never holds more bytes for its client than its limit, and     *)
(* counts each of them once, however messages, stages, releases and        *)
(* answers interleave (code: enqueue, checkRetained, src/proxy.ts;         *)
(* FrontendCycleBuffer, src/protocol/frontend.ts).                         *)
THEOREM BytesAreCounted == Spec => []BytesCountedOnce
<1>1. Held /\ [Next]_vars => Held'
  <2>. SUFFICES ASSUME Held, [Next]_vars PROVE Held'
    OBVIOUS
  <2>1. CASE Send
    BY <2>1, SendHolds
  <2>2. CASE Release
    BY <2>2, ReleaseHolds
  <2>3. CASE Backend
    BY <2>3, BackendHolds
  <2>4. CASE Serve \/ RowRefused \/ Transport \/ TransportBreaks \/ UNCHANGED vars
    <3>1. UNCHANGED <<profile, todo, state, cycle, work>>
      BY <2>4, Zenon DEF Serve, RowRefused, Transport, TransportBreaks, vars, session, client, intake
    <3>. QED  BY <3>1 DEF Held, Holds, work
  <2>5. CASE UpstreamLost \/ Leaves \/ Shutdown
    <3>1. state' # "open" /\ UNCHANGED <<profile, todo>>
      BY <2>5 DEF UpstreamLost, Leaves, Shutdown, Fail, client
    <3>. QED  BY <3>1 DEF Held
  <2>. QED  BY <2>1, <2>2, <2>3, <2>4, <2>5 DEF Next
<1>. QED  BY <1>1, HeldInit, HeldCounts, PTL DEF Spec
=============================================================================
