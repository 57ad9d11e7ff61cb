------------------------ MODULE AsyncPersistenceProofs ------------------------
(***************************************************************************)
(* What the lock-free queue, the manager above it and the engine above     *)
(* both promise, for any number of engine threads, any capacity and any    *)
(* batch sizes.                                                            *)
(***************************************************************************)
EXTENDS OptimizedV3, SumTheorems, SequenceTheorems, FunctionTheorems

-----------------------------------------------------------------------------
(* Whose turn it is at a slot *)

\* Whole rounds of the ring: a later round is at least one round ahead.
LEMMA RoundsApart ==
    ASSUME NEW a \in Nat, NEW b \in Nat, a < b
    PROVE  Capacity * a + Capacity <= Capacity * b
<1> DEFINE d == b - a - 1
<1>1. d \in Nat /\ b = a + 1 + d /\ Capacity \in Nat
  BY QueueAssumption
<1> HIDE DEF d
<1>2. Capacity * (a + 1 + d) = Capacity * a + Capacity + Capacity * d
  BY <1>1
<1>3. Capacity * d \in Nat /\ Capacity * a \in Nat
  BY <1>1
<1> QED BY <1>1, <1>2, <1>3

\* A position is so many rounds and a slot, in one way.
LEMMA RoundUnique ==
    ASSUME NEW a \in Nat, NEW b \in Nat, NEW i \in Slots, NEW j \in Slots,
           Capacity * a + i = Capacity * b + j
    PROVE  a = b /\ i = j
<1>1. Capacity * a \in Nat /\ Capacity * b \in Nat
  BY QueueAssumption
<1>2. CASE a < b
  <2>1. Capacity * a + Capacity <= Capacity * b
    BY <1>2, RoundsApart
  <2> QED BY <2>1, <1>1, QueueAssumption DEF Slots
<1>3. CASE b < a
  <2>1. Capacity * b + Capacity <= Capacity * a
    BY <1>3, RoundsApart
  <2> QED BY <2>1, <1>1, QueueAssumption DEF Slots
<1>4. CASE a = b
  BY <1>4, <1>1, QueueAssumption DEF Slots
<1> QED BY <1>2, <1>3, <1>4

LEMMA IndexRound ==
    ASSUME NEW p \in Nat
    PROVE  /\ Index(p) \in Slots
           /\ \E a \in Nat : p = Capacity * a + Index(p)
<1>1. p = Capacity * (p \div Capacity) + (p % Capacity) /\ p \div Capacity \in Nat
  BY QueueAssumption
<1>2. p % Capacity \in 0 .. Capacity - 1
  BY QueueAssumption
<1> QED BY <1>1, <1>2 DEF Index, Slots

LEMMA IndexIs ==
    ASSUME NEW p \in Nat, NEW a \in Nat, NEW i \in Slots, p = Capacity * a + i
    PROVE  Index(p) = i
<1>1. PICK b \in Nat : p = Capacity * b + Index(p)
  BY IndexRound
<1>2. Index(p) \in Slots
  BY IndexRound
<1>3. Capacity * a + i = Capacity * b + Index(p)
  BY <1>1
<1> QED BY <1>2, <1>3, RoundUnique

\* The positions of one slot are whole rounds apart, and one round on is the same slot.
LEMMA SameSlot ==
    ASSUME NEW p \in Nat, NEW q \in Nat, Index(p) = Index(q), p < q
    PROVE  p + Capacity <= q
<1>1. PICK a \in Nat : p = Capacity * a + Index(p)
  BY IndexRound
<1>2. PICK b \in Nat : q = Capacity * b + Index(q)
  BY IndexRound
<1>3. Capacity * a \in Nat /\ Capacity * b \in Nat /\ Index(p) \in Nat
  BY QueueAssumption, IndexRound DEF Slots
<1>4. CASE a < b
  <2>1. Capacity * a + Capacity <= Capacity * b
    BY <1>4, RoundsApart
  <2> QED BY <2>1, <1>1, <1>2, <1>3, QueueAssumption
<1>5. CASE b < a
  <2>1. Capacity * b + Capacity <= Capacity * a
    BY <1>5, RoundsApart
  <2> QED BY <2>1, <1>1, <1>2, <1>3, QueueAssumption
<1>6. CASE a = b
  BY <1>6, <1>1, <1>2
<1> QED BY <1>4, <1>5, <1>6

LEMMA NextRound ==
    ASSUME NEW p \in Nat
    PROVE  p + Capacity \in Nat /\ Index(p + Capacity) = Index(p)
<1>1. PICK a \in Nat : p = Capacity * a + Index(p)
  BY IndexRound
<1>2. Index(p) \in Slots /\ Index(p) \in Nat /\ Capacity \in Nat
  BY IndexRound, QueueAssumption DEF Slots
<1>3. Capacity * (a + 1) = Capacity * a + Capacity /\ Capacity * a \in Nat
  BY <1>2
<1>4. p + Capacity = Capacity * (a + 1) + Index(p)
  BY <1>1, <1>2, <1>3
<1>5. a + 1 \in Nat /\ p + Capacity \in Nat
  BY <1>2
<1>6. PICK q \in Nat, b \in Nat : q = p + Capacity /\ b = a + 1
  BY <1>5
<1>7. q = Capacity * b + Index(p)
  BY <1>4, <1>6
<1>8. Index(q) = Index(p)
  BY <1>2, <1>7, IndexIs
<1> QED BY <1>5, <1>6, <1>8

\* Every slot has a position in each stretch of one round.
LEMMA SlotHasTurn ==
    ASSUME NEW w \in Nat, NEW i \in Slots
    PROVE  \E q \in w .. w + Capacity - 1 : Index(q) = i
<1>1. PICK a \in Nat : w = Capacity * a + Index(w)
  BY IndexRound
<1>2. /\ Index(w) \in Nat /\ Index(w) < Capacity /\ i \in Nat /\ i < Capacity
      /\ Capacity \in Nat /\ Capacity * a \in Nat
  BY IndexRound, QueueAssumption DEF Slots
<1>3. CASE Index(w) <= i
  <2>1. PICK q \in Nat : q = Capacity * a + i
    BY <1>2
  <2>2. q \in w .. w + Capacity - 1
    BY <1>1, <1>2, <1>3, <2>1
  <2> QED BY <2>1, <2>2, IndexIs
<1>4. CASE i < Index(w)
  <2>1. Capacity * (a + 1) = Capacity * a + Capacity
    BY <1>2
  <2>2. PICK q \in Nat, b \in Nat : q = Capacity * b + i /\ b = a + 1
    BY <1>2, <2>1
  <2>3. q \in w .. w + Capacity - 1
    BY <1>1, <1>2, <1>4, <2>1, <2>2
  <2> QED BY <2>2, <2>3, IndexIs
<1> QED BY <1>2, <1>3, <1>4

\* No thread waits at a slot for whose next position another one waits already.
Spread(S, w) == S \subseteq Nat /\ \A q \in S : q < w /\ w <= q + Capacity

\* The position whose turn it is at slot i: the one a thread waits there for, or the
\* next one to be claimed.
Turn(S, w, i) ==
    IF \E q \in S : Index(q) = i THEN CHOOSE q \in S : Index(q) = i
    ELSE CHOOSE q \in w .. w + Capacity - 1 : Index(q) = i

IsTurn(S, w, i, q) ==
    /\ Index(q) = i
    /\ \/ q \in S
       \/ q \in w .. w + Capacity - 1 /\ \A r \in S : Index(r) # i

LEMMA TurnIs ==
    ASSUME NEW w \in Nat, NEW S, Spread(S, w), NEW i \in Slots
    PROVE  /\ IsTurn(S, w, i, Turn(S, w, i))
           /\ Turn(S, w, i) \in Nat /\ Turn(S, w, i) < w + Capacity
           /\ Turn(S, w, i) < w <=> Turn(S, w, i) \in S
<1>1. CASE \E q \in S : Index(q) = i
  <2>1. Turn(S, w, i) \in S /\ Index(Turn(S, w, i)) = i
    BY <1>1 DEF Turn
  <2>2. Turn(S, w, i) \in Nat /\ Turn(S, w, i) < w
    BY <2>1 DEF Spread
  <2>3. Turn(S, w, i) < w + Capacity
    BY <2>2, QueueAssumption
  <2> QED BY <2>1, <2>2, <2>3 DEF IsTurn
<1>2. CASE ~\E q \in S : Index(q) = i
  <2>1. \E q \in w .. w + Capacity - 1 : Index(q) = i
    BY SlotHasTurn
  <2>2. Turn(S, w, i) \in w .. w + Capacity - 1 /\ Index(Turn(S, w, i)) = i
    BY <1>2, <2>1 DEF Turn
  <2> QED BY <1>2, <2>2, QueueAssumption DEF IsTurn, Spread
<1> QED BY <1>1, <1>2

LEMMA TurnUnique ==
    ASSUME NEW w \in Nat, NEW S, Spread(S, w), NEW i \in Slots,
           NEW q, IsTurn(S, w, i, q)
    PROVE  q = Turn(S, w, i)
<1>1. PICK t : t = Turn(S, w, i)
  OBVIOUS
<1>2. IsTurn(S, w, i, t)
  BY <1>1, TurnIs
<1>3. ASSUME NEW r, IsTurn(S, w, i, r)
      PROVE  /\ r \in Nat /\ Index(r) = i /\ r < w + Capacity /\ w <= r + Capacity
             /\ r < w <=> r \in S
  <2>1. CASE r \in S
    BY <1>3, <2>1, QueueAssumption DEF IsTurn, Spread
  <2>2. CASE r \in w .. w + Capacity - 1 /\ r \notin S
    BY <1>3, <2>2, QueueAssumption DEF IsTurn
  <2> QED BY <1>3, <2>1, <2>2 DEF IsTurn
<1>4. q \in S <=> t \in S
  BY <1>2 DEF IsTurn
<1>5. /\ q \in Nat /\ Index(q) = i /\ q < w + Capacity /\ w <= q + Capacity
      /\ t \in Nat /\ Index(t) = i /\ t < w + Capacity /\ w <= t + Capacity
      /\ q < w <=> t < w
  BY <1>2, <1>3, <1>4
<1>6. CASE q < t
  <2>1. q + Capacity <= t
    BY <1>5, <1>6, SameSlot
  <2> QED BY <1>5, <2>1, QueueAssumption
<1>7. CASE t < q
  <2>1. t + Capacity <= q
    BY <1>5, <1>7, SameSlot
  <2> QED BY <1>5, <2>1, QueueAssumption
<1>8. CASE q = t
  BY <1>1, <1>8
<1> QED BY <1>5, <1>6, <1>7, <1>8

\* A claim changes nobody's turn.
LEMMA TurnClaimed ==
    ASSUME NEW w \in Nat, NEW S, Spread(S, w), \A q \in S : Index(q) # Index(w)
    PROVE  /\ Spread(S \cup {w}, w + 1)
           /\ \A i \in Slots : Turn(S \cup {w}, w + 1, i) = Turn(S, w, i)
           /\ Turn(S, w, Index(w)) = w
<1>1. Index(w) \in Slots
  BY IndexRound
<1>2. Spread(S \cup {w}, w + 1)
  <2> SUFFICES ASSUME NEW q \in S PROVE w + 1 <= q + Capacity
    BY QueueAssumption DEF Spread
  <2>1. q \in Nat /\ w <= q + Capacity
    BY DEF Spread
  <2>2. w # q + Capacity
    BY <2>1, NextRound
  <2> QED BY <2>1, <2>2, QueueAssumption
<1>3. ASSUME NEW i \in Slots
      PROVE  Turn(S \cup {w}, w + 1, i) = Turn(S, w, i)
  <2> DEFINE t == Turn(S, w, i)
  <2>1. IsTurn(S, w, i, t) /\ t \in Nat
    BY TurnIs
  <2>2. IsTurn(S \cup {w}, w + 1, i, t)
    <3>1. CASE t \in S
      BY <2>1, <3>1 DEF IsTurn
    <3>2. CASE t = w
      BY <2>1, <3>2 DEF IsTurn
    <3>3. CASE t \notin S /\ t # w
      <4>1. Index(t) = i /\ t \in w .. w + Capacity - 1 /\ \A r \in S : Index(r) # i
        BY <2>1, <3>3 DEF IsTurn
      <4>2. Index(w) # i
        <5> SUFFICES ASSUME Index(w) = i PROVE FALSE
          OBVIOUS
        <5>1. w < t
          BY <4>1, <3>3
        <5>2. w + Capacity <= t
          BY <2>1, <4>1, <5>1, SameSlot
        <5> QED BY <4>1, <5>2, QueueAssumption
      <4>3. t \in w + 1 .. w + 1 + Capacity - 1
        BY <4>1, <3>3, QueueAssumption
      <4> QED BY <4>1, <4>2, <4>3 DEF IsTurn
    <3> QED BY <3>1, <3>2, <3>3
  <2> HIDE DEF t
  <2>3. t = Turn(S \cup {w}, w + 1, i)
    <3>1. w + 1 \in Nat
      OBVIOUS
    <3> QED BY ONLY <3>1, <1>2, <2>2, TurnUnique, i \in Slots
  <2> QED BY <2>3 DEF t
<1>4. Turn(S, w, Index(w)) = w
  <2>1. IsTurn(S, w, Index(w), w)
    BY QueueAssumption DEF IsTurn
  <2> QED BY <1>1, <2>1, TurnUnique
<1> QED BY <1>2, <1>3, <1>4

\* When one who waited is done, the turn at its slot is a round later.
LEMMA TurnDone ==
    ASSUME NEW w \in Nat, NEW S, Spread(S, w), NEW q \in S
    PROVE  /\ Spread(S \ {q}, w)
           /\ Turn(S, w, Index(q)) = q
           /\ Turn(S \ {q}, w, Index(q)) = q + Capacity
           /\ \A i \in Slots \ {Index(q)} : Turn(S \ {q}, w, i) = Turn(S, w, i)
           /\ \A r \in S : Index(r) = Index(q) => r = q
<1>1. q \in Nat /\ Index(q) \in Slots /\ q < w /\ w <= q + Capacity
  BY IndexRound DEF Spread
<1>2. Spread(S \ {q}, w)
  BY DEF Spread
<1>3. Turn(S, w, Index(q)) = q
  <2>1. IsTurn(S, w, Index(q), q)
    BY DEF IsTurn
  <2> QED BY <1>1, <2>1, TurnUnique
<1>4. \A r \in S : Index(r) = Index(q) => r = q
  <2> SUFFICES ASSUME NEW r \in S, Index(r) = Index(q) PROVE r = q
    OBVIOUS
  <2>1. IsTurn(S, w, Index(q), r)
    BY DEF IsTurn
  <2> QED BY <1>1, <1>3, <2>1, TurnUnique
<1>5. Turn(S \ {q}, w, Index(q)) = q + Capacity
  <2>1. q + Capacity \in w .. w + Capacity - 1 /\ Index(q + Capacity) = Index(q)
    BY <1>1, NextRound, QueueAssumption
  <2>2. IsTurn(S \ {q}, w, Index(q), q + Capacity)
    BY <1>4, <2>1 DEF IsTurn
  <2> QED BY <1>1, <1>2, <2>2, TurnUnique
<1>6. ASSUME NEW i \in Slots \ {Index(q)}
      PROVE  Turn(S \ {q}, w, i) = Turn(S, w, i)
  <2>1. IsTurn(S, w, i, Turn(S, w, i))
    BY TurnIs
  <2>2. IsTurn(S \ {q}, w, i, Turn(S, w, i))
    BY <2>1 DEF IsTurn
  <2> QED BY <1>2, <2>2, TurnUnique
<1> QED BY <1>2, <1>3, <1>4, <1>5, <1>6

-----------------------------------------------------------------------------
(* The queue *)

PushesAt == {p.pos : p \in pushing}
PopsAt == {c.pos : c \in popping}
PushTurn(i) == Turn(PushesAt, write_pos_, i)
PopTurn(i) == Turn(PopsAt, read_pos_, i)

QueueTypeOK ==
    /\ buffer_ \in [Slots -> Item \cup {NoItem}]
    /\ write_pos_ \in Nat /\ read_pos_ \in Nat
    /\ pushing \subseteq Spin
    /\ popping \subseteq [pos : Nat, by : {"worker", "owner"}]
    /\ lapped \in BOOLEAN
    /\ sent \in [Producers -> 0 .. MaxItems]

\* A thread waits for one position at a time, one that nobody else has, and pushes the
\* last item it has handed over.
OneAtATime ==
    /\ \A p, q \in pushing : p.item.by = q.item.by \/ p.pos = q.pos => p = q
    /\ \A p \in pushing : p.pos < write_pos_ /\ p.item.n = sent[p.item.by]
    /\ \A c, d \in popping : c.by = d.by \/ c.pos = d.pos => c = d
    /\ \A c \in popping : c.pos < read_pos_
    /\ IsFiniteSet(pushing)

\* The claims of positions are the calls.
SentCounted == write_pos_ = SumFunctionOnSet(sent, Producers)

\* While no two pushes and no two pops wait for one slot, they take turns there: the
\* next push is for the position of the next pop if the slot is empty, and a round
\* ahead of it if not.
TurnsTaken ==
    ~lapped =>
        /\ Spread(PushesAt, write_pos_) /\ Spread(PopsAt, read_pos_)
        /\ \A i \in Slots :
              PushTurn(i) = IF buffer_[i] = NoItem THEN PopTurn(i) ELSE PopTurn(i) + Capacity

QueueInv == QueueTypeOK /\ OneAtATime /\ SentCounted /\ TurnsTaken

\* What a step does to the queue.
Handed(t, type) == [by |-> t, n |-> sent[t] + 1, type |-> type]
Claims(t, type) ==
    /\ ~Pushing(t) /\ write_pos_ < MaxItems
    /\ PushClaim(Handed(t, type))
    /\ sent' = [sent EXCEPT ![t] = @ + 1]
Stores(p) == PushStore(p) /\ UNCHANGED sent
Asks(b) == (\A c \in popping : c.by # b) /\ PopClaim(b) /\ UNCHANGED sent
Takes(c, x) == x \in Stored /\ PopTake(c, x) /\ UNCHANGED sent

LEMMA QueueSteps ==
    ASSUME [Next]_vars
    PROVE  \/ \E t \in Producers, type \in PersistType : Claims(t, type)
           \/ \E p \in pushing : Stores(p)
           \/ \E b \in {"worker", "owner"} : Asks(b)
           \/ \E c \in popping, x \in Stored : Takes(c, x)
           \/ UNCHANGED <<queueVars, sent>>
<1>1. ASSUME NEW t \in Producers, Persist(t)
      PROVE  \E type \in PersistType : Claims(t, type)
  BY <1>1 DEF Persist, Claims, Handed
<1>2. ASSUME NEW t \in Producers, PersistReturns(t)
      PROVE  \E p \in pushing : Stores(p)
  BY <1>2 DEF PersistReturns, Stores
<1>3. CASE WorkerPop
  <2>1. Asks("worker")
    BY <1>3 DEF WorkerPop, WorkerPops, Asks
  <2> QED BY <2>1
<1>4. CASE FlushPop
  <2>1. Asks("owner")
    BY <1>4 DEF FlushPop, OwnerPops, Asks
  <2> QED BY <2>1
<1>5. CASE WorkerTake
  <2>1. PICK c \in popping, x \in Stored : PopTake(c, x)
    BY <1>5 DEF WorkerTake
  <2>2. UNCHANGED sent
    BY <1>5 DEF WorkerTake
  <2> QED BY <2>1, <2>2 DEF Takes
<1>6. CASE FlushTake
  <2>1. PICK c \in popping, x \in Stored : PopTake(c, x)
    BY <1>6 DEF FlushTake
  <2>2. UNCHANGED sent
    BY <1>6 DEF FlushTake
  <2> QED BY <2>1, <2>2 DEF Takes
<1>7. CASE WorkerTop \/ PersistItem \/ PersistTrades \/ Spill \/ Initialize \/ Start \/ Flush
             \/ Stop \/ Join \/ FlushEnd
  BY <1>7 DEF WorkerTop, PersistItem, PersistTrades, Spill, Initialize, Start, Flush, Stop, Join,
     FlushEnd
<1>8. CASE UNCHANGED vars
  BY <1>8 DEF vars
<1> QED BY <1>1, <1>2, <1>3, <1>4, <1>5, <1>6, <1>7, <1>8 DEF Next

\* What one thread has handed over is part of what all have.
LEMMA SentWithin ==
    ASSUME QueueTypeOK, SentCounted, NEW t \in Producers
    PROVE  sent[t] <= write_pos_
<1>1. \A u \in Producers : sent[u] \in Nat /\ sent[u] \in Int
  BY DEF QueueTypeOK
<1>2. SumFunctionOnSet(sent, Producers) = sent[t] + SumFunctionOnSet(sent, Producers \ {t})
  BY <1>1, SumRemove, PersistenceAssumption
<1>3. IsFiniteSet(Producers \ {t})
  BY PersistenceAssumption, FS_RemoveElement
<1>4. SumFunctionOnSet(sent, Producers \ {t}) \in Nat
  BY <1>1, <1>3, SumType
<1> QED BY <1>1, <1>2, <1>4 DEF SentCounted

LEMMA ItemHanded ==
    ASSUME QueueInv, NEW t \in Producers, NEW type \in PersistType, Claims(t, type)
    PROVE  Handed(t, type) \in Item /\ sent' \in [Producers -> 0 .. MaxItems]
<1>1. sent[t] <= write_pos_ /\ write_pos_ < MaxItems
  BY SentWithin DEF QueueInv, Claims
<1>2. sent[t] \in 0 .. MaxItems /\ write_pos_ \in Nat /\ MaxItems \in Nat
  BY PersistenceAssumption DEF QueueInv, QueueTypeOK
<1>3. sent[t] + 1 \in 1 .. MaxItems
  BY <1>1, <1>2
<1>4. sent' = [sent EXCEPT ![t] = sent[t] + 1]
  BY DEF Claims
<1>5. sent[t] + 1 \in 0 .. MaxItems
  BY <1>3
<1> QED BY <1>3, <1>4, <1>5 DEF Handed, Item, QueueInv, QueueTypeOK

LEMMA QueueInitial == Init => QueueInv
<1> SUFFICES ASSUME Init PROVE QueueInv
  OBVIOUS
<1> USE DEF Init, QueueInit
<1>1. QueueTypeOK
  <2>1. lapped \in BOOLEAN
    OBVIOUS
  <2> QED BY <2>1, PersistenceAssumption, QueueAssumption DEF QueueTypeOK
<1>2. OneAtATime
  BY FS_EmptySet DEF OneAtATime
<1>3. SentCounted
  <2>1. \A t \in Producers : sent[t] = 0
    OBVIOUS
  <2>2. SumFunctionOnSet(sent, Producers) = 0
    BY <2>1, SumOfZeros, PersistenceAssumption
  <2> QED BY <2>2 DEF SentCounted
<1>4. TurnsTaken
  <2>1. PushesAt = {} /\ PopsAt = {}
    BY DEF PushesAt, PopsAt
  <2>2. Spread({}, 0)
    BY DEF Spread
  <2>3. PushTurn(0) = PushTurn(0) /\ \A i \in Slots : PushTurn(i) = PopTurn(i)
    BY <2>1 DEF PushTurn, PopTurn
  <2>4. \A i \in Slots : buffer_[i] = NoItem
    OBVIOUS
  <2> QED BY <2>1, <2>2, <2>3, <2>4 DEF TurnsTaken
<1> QED BY <1>1, <1>2, <1>3, <1>4 DEF QueueInv

LEMMA ClaimKeeps ==
    ASSUME QueueInv, NEW t \in Producers, NEW type \in PersistType, Claims(t, type)
    PROVE  QueueInv'
<1> DEFINE x == Handed(t, type)
           p == [pos |-> write_pos_, item |-> x]
<1>1. x \in Item /\ sent' \in [Producers -> 0 .. MaxItems]
  BY ItemHanded
<1>2. /\ pushing' = pushing \cup {p}
      /\ write_pos_' = write_pos_ + 1
      /\ lapped' = (lapped \/ \E q \in pushing : Index(q.pos) = Index(write_pos_))
      /\ UNCHANGED <<buffer_, read_pos_, popping>>
      /\ sent' = [sent EXCEPT ![t] = sent[t] + 1]
      /\ \A q \in pushing : q.item.by # t
  BY DEF Claims, PushClaim, Pushing
<1>3. x.by = t /\ x.n = sent[t] + 1
  BY DEF Handed
<1> HIDE DEF x
<1>4. QueueTypeOK'
  <2>1. p \in Spin
    BY <1>1 DEF QueueInv, QueueTypeOK, Spin
  <2>2. lapped' \in BOOLEAN
    BY <1>2 DEF QueueInv, QueueTypeOK
  <2> QED BY <1>1, <1>2, <2>1, <2>2 DEF QueueInv, QueueTypeOK
<1>5. OneAtATime'
  <2>1. \A q, r \in pushing' : q.item.by = r.item.by \/ q.pos = r.pos => q = r
    <3>1. \A q \in pushing : q.item.by # p.item.by /\ q.pos # p.pos
      BY <1>2, <1>3 DEF QueueInv, OneAtATime, QueueTypeOK
    <3> QED BY <1>2, <3>1 DEF QueueInv, OneAtATime
  <2>2. \A q \in pushing' : q.pos < write_pos_'
    BY <1>2 DEF QueueInv, OneAtATime, QueueTypeOK, Spin
  <2>3. \A q \in pushing' : q.item.n = sent'[q.item.by]
    BY <1>2, <1>3 DEF QueueInv, OneAtATime, QueueTypeOK, Spin, Item
  <2>4. IsFiniteSet(pushing')
    BY <1>2, FS_AddElement DEF QueueInv, OneAtATime
  <2> QED BY <1>2, <2>1, <2>2, <2>3, <2>4 DEF QueueInv, OneAtATime
<1>6. SentCounted'
  <2>1. \A u \in Producers : sent[u] \in Int /\ sent'[u] \in Int
    BY <1>1 DEF QueueInv, QueueTypeOK
  <2>2. \A u \in Producers \ {t} : sent[u] = sent'[u]
    BY <1>2 DEF QueueInv, QueueTypeOK
  <2>3. SumFunctionOnSet(sent', Producers) = SumFunctionOnSet(sent, Producers) - sent[t] + sent'[t]
    BY <2>1, <2>2, SumUpdate, PersistenceAssumption
  <2>4. sent'[t] = sent[t] + 1
    BY <1>2 DEF QueueInv, QueueTypeOK
  <2>5. SumFunctionOnSet(sent, Producers) = write_pos_
    BY DEF QueueInv, SentCounted
  <2>6. SumFunctionOnSet(sent', Producers) = write_pos_ + 1
    BY <2>1, <2>3, <2>4, <2>5 DEF QueueInv, QueueTypeOK
  <2> QED BY <1>2, <2>6 DEF SentCounted
<1>7. TurnsTaken'
  <2> SUFFICES ASSUME ~lapped' PROVE TurnsTaken'
    BY DEF TurnsTaken
  <2>1. ~lapped /\ \A q \in PushesAt : Index(q) # Index(write_pos_)
    BY <1>2 DEF PushesAt
  <2>2. Spread(PushesAt, write_pos_)
    BY <2>1 DEF QueueInv, TurnsTaken
  <2>3. PushesAt' = PushesAt \cup {write_pos_} /\ PopsAt' = PopsAt
    <3>1. p.pos = write_pos_
      OBVIOUS
    <3> HIDE DEF p
    <3> QED BY <1>2, <3>1 DEF PushesAt, PopsAt
  <2>4. write_pos_ \in Nat
    BY DEF QueueInv, QueueTypeOK
  <2>5. /\ Spread(PushesAt \cup {write_pos_}, write_pos_ + 1)
        /\ \A i \in Slots : Turn(PushesAt \cup {write_pos_}, write_pos_ + 1, i)
                              = Turn(PushesAt, write_pos_, i)
    BY <2>1, <2>2, <2>4, TurnClaimed
  <2>6. \A i \in Slots : PushTurn(i)' = PushTurn(i) /\ PopTurn(i)' = PopTurn(i)
    BY <1>2, <2>3, <2>5 DEF PushTurn, PopTurn
  <2>7. Spread(PushesAt', write_pos_') /\ Spread(PopsAt', read_pos_')
    BY <1>2, <2>1, <2>3, <2>5 DEF QueueInv, TurnsTaken
  <2> QED BY <1>2, <2>1, <2>6, <2>7 DEF QueueInv, TurnsTaken
<1> QED BY <1>4, <1>5, <1>6, <1>7 DEF QueueInv

LEMMA StoreKeeps ==
    ASSUME QueueInv, NEW p \in pushing, Stores(p)
    PROVE  QueueInv'
<1>1. /\ pushing' = pushing \ {p}
      /\ buffer_' = [buffer_ EXCEPT ![Index(p.pos)] = p.item]
      /\ buffer_[Index(p.pos)] = NoItem
      /\ UNCHANGED <<write_pos_, read_pos_, popping, lapped, sent>>
  BY DEF Stores, PushStore, Store
<1>2. p.pos \in Nat /\ p.item \in Item /\ p.item # NoItem
  BY NullAssumption DEF QueueInv, QueueTypeOK, Spin
<1>3. Index(p.pos) \in Slots
  BY <1>2, IndexRound
<1>4. QueueTypeOK'
  BY <1>1, <1>2, <1>3 DEF QueueInv, QueueTypeOK
<1>5. OneAtATime'
  BY <1>1, FS_RemoveElement DEF QueueInv, OneAtATime
<1>6. SentCounted'
  BY <1>1 DEF QueueInv, SentCounted
<1>7. TurnsTaken'
  <2> SUFFICES ASSUME ~lapped' PROVE TurnsTaken'
    BY DEF TurnsTaken
  <2>1. ~lapped /\ Spread(PushesAt, write_pos_) /\ p.pos \in PushesAt /\ write_pos_ \in Nat
    BY <1>1 DEF QueueInv, TurnsTaken, PushesAt, QueueTypeOK
  <2>2. PushesAt' = PushesAt \ {p.pos} /\ PopsAt' = PopsAt
    BY <1>1 DEF PushesAt, PopsAt, QueueInv, OneAtATime
  <2>3. /\ Spread(PushesAt \ {p.pos}, write_pos_)
        /\ Turn(PushesAt, write_pos_, Index(p.pos)) = p.pos
        /\ Turn(PushesAt \ {p.pos}, write_pos_, Index(p.pos)) = p.pos + Capacity
        /\ \A i \in Slots \ {Index(p.pos)} :
             Turn(PushesAt \ {p.pos}, write_pos_, i) = Turn(PushesAt, write_pos_, i)
    BY <2>1, TurnDone
  <2>4. /\ PushTurn(Index(p.pos)) = p.pos
        /\ \A j \in Slots : j = Index(p.pos) => PushTurn(j)' = p.pos + Capacity
        /\ \A i \in Slots \ {Index(p.pos)} : PushTurn(i)' = PushTurn(i)
        /\ \A i \in Slots : PopTurn(i)' = PopTurn(i)
    BY <1>1, <2>2, <2>3 DEF PushTurn, PopTurn
  <2>5. PopTurn(Index(p.pos)) = p.pos
    BY <1>1, <1>3, <2>1, <2>4 DEF QueueInv, TurnsTaken
  <2>6. ASSUME NEW i \in Slots
        PROVE  PushTurn(i)' = IF buffer_'[i] = NoItem THEN PopTurn(i)' ELSE PopTurn(i)' + Capacity
    <3>1. CASE i = Index(p.pos)
      BY <1>1, <1>2, <1>3, <2>4, <2>5, <3>1 DEF QueueInv, QueueTypeOK
    <3>2. CASE i # Index(p.pos)
      <4>1. buffer_'[i] = buffer_[i]
        BY <1>1, <3>2 DEF QueueInv, QueueTypeOK
      <4> QED BY <2>1, <2>4, <3>2, <4>1 DEF QueueInv, TurnsTaken
    <3> QED BY <3>1, <3>2
  <2>7. Spread(PushesAt', write_pos_') /\ Spread(PopsAt', read_pos_')
    BY <1>1, <2>1, <2>2, <2>3 DEF QueueInv, TurnsTaken
  <2> QED BY <2>6, <2>7 DEF TurnsTaken
<1> QED BY <1>4, <1>5, <1>6, <1>7 DEF QueueInv

\* A claim of a pop, and what it leaves of the turns.
LEMMA AskTurns ==
    ASSUME QueueInv, NEW b \in {"worker", "owner"}, Asks(b), ~lapped'
    PROVE  /\ ~lapped /\ Spread(PushesAt', write_pos_') /\ Spread(PopsAt', read_pos_')
           /\ \A i \in Slots : PushTurn(i)' = PushTurn(i) /\ PopTurn(i)' = PopTurn(i)
<1> DEFINE c == [pos |-> read_pos_, by |-> b]
<1>1. /\ popping' = popping \cup {c}
      /\ read_pos_' = read_pos_ + 1
      /\ lapped' = (lapped \/ \E d \in popping : Index(d.pos) = Index(read_pos_))
      /\ UNCHANGED <<buffer_, write_pos_, pushing, sent>>
  BY DEF Asks, PopClaim, NextRead
<1>2. c.pos = read_pos_
  OBVIOUS
<1> HIDE DEF c
<1>3. ~lapped /\ \A q \in PopsAt : Index(q) # Index(read_pos_)
  BY <1>1 DEF PopsAt
<1>4. Spread(PopsAt, read_pos_) /\ Spread(PushesAt, write_pos_)
  BY <1>3 DEF QueueInv, TurnsTaken
<1>5. PopsAt' = PopsAt \cup {read_pos_} /\ PushesAt' = PushesAt
  BY <1>1, <1>2 DEF PushesAt, PopsAt
<1>6. read_pos_ \in Nat
  BY DEF QueueInv, QueueTypeOK
<1>7. /\ Spread(PopsAt \cup {read_pos_}, read_pos_ + 1)
      /\ \A i \in Slots : Turn(PopsAt \cup {read_pos_}, read_pos_ + 1, i)
                            = Turn(PopsAt, read_pos_, i)
  BY <1>3, <1>4, <1>6, TurnClaimed
<1> QED BY <1>1, <1>3, <1>4, <1>5, <1>7 DEF PushTurn, PopTurn

LEMMA AskKeeps ==
    ASSUME QueueInv, NEW b \in {"worker", "owner"}, Asks(b)
    PROVE  QueueInv'
<1> DEFINE c == [pos |-> read_pos_, by |-> b]
<1>1. /\ popping' = popping \cup {c}
      /\ read_pos_' = read_pos_ + 1
      /\ lapped' = (lapped \/ \E d \in popping : Index(d.pos) = Index(read_pos_))
      /\ UNCHANGED <<buffer_, write_pos_, pushing, sent>>
      /\ \A d \in popping : d.by # b
  BY DEF Asks, PopClaim, NextRead
<1>2. c.pos = read_pos_ /\ c.by = b /\ c \in [pos : Nat, by : {"worker", "owner"}]
  BY DEF QueueInv, QueueTypeOK
<1> HIDE DEF c
<1>3. QueueTypeOK'
  <2>1. lapped' \in BOOLEAN
    BY <1>1 DEF QueueInv, QueueTypeOK
  <2> QED BY <1>1, <1>2, <2>1 DEF QueueInv, QueueTypeOK
<1>4. OneAtATime'
  <2>1. \A d, e \in popping' : d.by = e.by \/ d.pos = e.pos => d = e
    <3>1. \A d \in popping : d.by # c.by /\ d.pos # c.pos
      BY <1>1, <1>2 DEF QueueInv, OneAtATime, QueueTypeOK
    <3> QED BY <1>1, <3>1 DEF QueueInv, OneAtATime
  <2>2. \A d \in popping' : d.pos < read_pos_'
    BY <1>1, <1>2 DEF QueueInv, OneAtATime, QueueTypeOK
  <2> QED BY <1>1, <2>1, <2>2 DEF QueueInv, OneAtATime
<1>5. SentCounted'
  BY <1>1 DEF QueueInv, SentCounted
<1>6. TurnsTaken'
  <2> SUFFICES ASSUME ~lapped' PROVE TurnsTaken'
    BY DEF TurnsTaken
  <2> QED BY <1>1, AskTurns DEF QueueInv, TurnsTaken
<1> QED BY <1>3, <1>4, <1>5, <1>6 DEF QueueInv

\* A pop that finds its item, and what it leaves of the turns.
LEMMA TakeTurns ==
    ASSUME QueueInv, NEW c \in popping, NEW x \in Stored, Takes(c, x), ~lapped'
    PROVE  /\ ~lapped /\ Spread(PushesAt', write_pos_') /\ Spread(PopsAt', read_pos_')
           /\ Index(c.pos) \in Slots
           /\ PopTurn(Index(c.pos)) = c.pos
           /\ \A j \in Slots : j = Index(c.pos) => PopTurn(j)' = c.pos + Capacity
           /\ \A i \in Slots \ {Index(c.pos)} : PopTurn(i)' = PopTurn(i)
           /\ \A i \in Slots : PushTurn(i)' = PushTurn(i)
           /\ \A d \in popping : Index(d.pos) = Index(c.pos) => d = c
<1>1. /\ popping' = popping \ {c}
      /\ UNCHANGED <<write_pos_, read_pos_, pushing, lapped>>
  BY DEF Takes, PopTake
<1>2. /\ ~lapped /\ Spread(PushesAt, write_pos_) /\ Spread(PopsAt, read_pos_)
      /\ c.pos \in PopsAt /\ read_pos_ \in Nat /\ c.pos \in Nat
  BY <1>1 DEF QueueInv, TurnsTaken, PopsAt, QueueTypeOK
<1>3. PopsAt' = PopsAt \ {c.pos} /\ PushesAt' = PushesAt
  BY <1>1 DEF PushesAt, PopsAt, QueueInv, OneAtATime
<1>4. /\ Spread(PopsAt \ {c.pos}, read_pos_)
      /\ Turn(PopsAt, read_pos_, Index(c.pos)) = c.pos
      /\ Turn(PopsAt \ {c.pos}, read_pos_, Index(c.pos)) = c.pos + Capacity
      /\ \A i \in Slots \ {Index(c.pos)} :
           Turn(PopsAt \ {c.pos}, read_pos_, i) = Turn(PopsAt, read_pos_, i)
      /\ \A r \in PopsAt : Index(r) = Index(c.pos) => r = c.pos
  BY <1>2, TurnDone
<1>5. \A d \in popping : Index(d.pos) = Index(c.pos) => d = c
  BY <1>4 DEF PopsAt, QueueInv, OneAtATime
<1>6. Index(c.pos) \in Slots
  BY <1>2, IndexRound
<1> QED BY <1>1, <1>2, <1>3, <1>4, <1>5, <1>6 DEF PushTurn, PopTurn

LEMMA TakeKeeps ==
    ASSUME QueueInv, NEW c \in popping, NEW x \in Stored, Takes(c, x)
    PROVE  QueueInv'
<1>1. /\ popping' = popping \ {c}
      /\ buffer_' = [buffer_ EXCEPT ![Index(c.pos)] = NoItem]
      /\ buffer_[Index(c.pos)] = x /\ x # NoItem
      /\ UNCHANGED <<write_pos_, read_pos_, pushing, lapped, sent>>
  BY DEF Takes, PopTake
<1>2. c.pos \in Nat /\ Index(c.pos) \in Slots
  BY IndexRound DEF QueueInv, QueueTypeOK
<1>3. QueueTypeOK'
  BY <1>1, <1>2 DEF QueueInv, QueueTypeOK
<1>4. OneAtATime'
  BY <1>1 DEF QueueInv, OneAtATime
<1>5. SentCounted'
  BY <1>1 DEF QueueInv, SentCounted
<1>6. TurnsTaken'
  <2> SUFFICES ASSUME ~lapped' PROVE TurnsTaken'
    BY DEF TurnsTaken
  <2>1. /\ ~lapped /\ Spread(PushesAt', write_pos_') /\ Spread(PopsAt', read_pos_')
        /\ PopTurn(Index(c.pos)) = c.pos
        /\ \A j \in Slots : j = Index(c.pos) => PopTurn(j)' = c.pos + Capacity
        /\ \A i \in Slots \ {Index(c.pos)} : PopTurn(i)' = PopTurn(i)
        /\ \A i \in Slots : PushTurn(i)' = PushTurn(i)
    BY TakeTurns
  <2>2. ASSUME NEW i \in Slots
        PROVE  PushTurn(i)' = IF buffer_'[i] = NoItem THEN PopTurn(i)' ELSE PopTurn(i)' + Capacity
    <3>1. CASE i = Index(c.pos)
      <4>1. PushTurn(i) = c.pos + Capacity
        BY <1>1, <1>2, <2>1, <3>1 DEF QueueInv, TurnsTaken
      <4>2. buffer_'[i] = NoItem
        BY <1>1, <3>1 DEF QueueInv, QueueTypeOK
      <4> QED BY <2>1, <3>1, <4>1, <4>2
    <3>2. CASE i # Index(c.pos)
      <4>1. buffer_'[i] = buffer_[i]
        BY <1>1, <3>2 DEF QueueInv, QueueTypeOK
      <4> QED BY <2>1, <3>2, <4>1 DEF QueueInv, TurnsTaken
    <3> QED BY <3>1, <3>2
  <2> QED BY <2>1, <2>2 DEF TurnsTaken
<1> QED BY <1>3, <1>4, <1>5, <1>6 DEF QueueInv

LEMMA QueueKept ==
    ASSUME QueueInv, [Next]_vars
    PROVE  QueueInv'
<1>1. CASE UNCHANGED <<queueVars, sent>>
  BY <1>1 DEF queueVars, QueueInv, QueueTypeOK, OneAtATime, SentCounted, TurnsTaken, PushesAt, PopsAt,
     PushTurn, PopTurn
<1> QED BY <1>1, QueueSteps, ClaimKeeps, StoreKeeps, AskKeeps, TakeKeeps

-----------------------------------------------------------------------------
(* The worker and the owner *)

FlagsOK == running_ \in BOOLEAN /\ open \in BOOLEAN

PlacesOK ==
    /\ worker \in {"none", "top", "pop", "write", "exited"}
    /\ owner \in {"idle", "flush", "join", "last flush"}
    /\ retries \in 0 .. MaxRetries + 1
    /\ started \in 0 .. MaxStarts

RecordsOK ==
    /\ batch \in Seq(Item) /\ wal_buffer \in Seq(Item)
    /\ Len(batch) + Len(wal_buffer) <= BATCH_SIZE
    /\ wal \in Seq(Item) /\ flushed \in 0 .. Len(wal)
    /\ discarded \subseteq Item /\ dropped \subseteq Item

\* Only while it writes has the worker a full batch or collected trades; and there is no
\* worker once the manager is stopped and the worker joined.
HandsEmpty == worker # "write" => wal_buffer = <<>> /\ ~Full(batch)
StoppedGone == ~running_ /\ owner # "join" => WorkerGone

WorkInv == FlagsOK /\ PlacesOK /\ RecordsOK /\ HandsEmpty /\ StoppedGone

LEMMA WorkInitial == Init => WorkInv
<1> SUFFICES ASSUME Init PROVE WorkInv
  OBVIOUS
<1>1. FlagsOK
  BY Zenon DEF Init, FlagsOK
<1>2. /\ batch = <<>> /\ wal_buffer = <<>> /\ wal = <<>> /\ flushed = 0 /\ worker = "none"
      /\ owner = "idle" /\ retries = 0 /\ started = 0 /\ discarded = {} /\ dropped = {}
  BY DEF Init
<1>3. PlacesOK
  BY <1>2, PersistenceAssumption DEF PlacesOK
<1>4. RecordsOK
  BY <1>2, PersistenceAssumption DEF RecordsOK
<1>5. HandsEmpty
  BY <1>2, PersistenceAssumption DEF HandsEmpty, Full
<1>6. StoppedGone
  BY <1>2 DEF StoppedGone, WorkerGone
<1> QED BY <1>1, <1>3, <1>4, <1>5, <1>6 DEF WorkInv

\* writeToWAL adds to the log or to what a closed file swallows.
LEMMA WriteTypes ==
    ASSUME RecordsOK, NEW items \in Seq(Item), WriteToWAL(items)
    PROVE  wal' \in Seq(Item) /\ Len(wal) <= Len(wal') /\ dropped' \subseteq Item
<1>1. CASE wal' = wal \o items /\ UNCHANGED dropped
  BY <1>1, ConcatProperties, LenProperties DEF RecordsOK
<1>2. CASE dropped' = dropped \cup ToSet(items) /\ UNCHANGED wal
  <2>1. ToSet(items) \subseteq Item
    BY DEF ToSet
  <2>2. Len(wal') = Len(wal) /\ Len(wal) \in Nat /\ wal' \in Seq(Item)
    BY <1>2, LenProperties DEF RecordsOK
  <2>3. dropped' \subseteq Item
    BY <1>2, <2>1 DEF RecordsOK
  <2> QED BY <2>2, <2>3
<1> QED BY <1>1, <1>2 DEF WriteToWAL

LEMMA StoredItems == QueueInv => Stored \subseteq Item
  BY DEF Stored, QueueInv, QueueTypeOK

LEMMA FlagsKept == FlagsOK /\ [Next]_vars => FlagsOK'
<1> SUFFICES ASSUME FlagsOK, [Next]_vars PROVE FlagsOK'
  OBVIOUS
<1>1. running_' \in {running_, TRUE, FALSE}
  BY DEF Next, Persist, PersistReturns, WorkerTop, WorkerPop, WorkerTake, PersistItem, PersistTrades,
     Spill, Initialize, Start, Flush, Stop, Join, FlushPop, FlushTake, FlushEnd, vars, workVars
<1>2. \/ open' = open \/ open' = TRUE \/ open' = (open /\ owner = "flush")
  BY DEF Next, Persist, PersistReturns, WorkerTop, WorkerPop, WorkerTake, PersistItem, PersistTrades,
     Spill, Initialize, Start, Flush, Stop, Join, FlushPop, FlushTake, FlushEnd, vars, workVars
<1>3. running_' \in BOOLEAN
  BY Zenon, <1>1 DEF FlagsOK
<1>4. open' \in BOOLEAN
  BY Zenon, <1>2 DEF FlagsOK
<1> QED BY <1>3, <1>4 DEF FlagsOK

LEMMA PlacesKept == PlacesOK /\ [Next]_vars => PlacesOK'
<1> SUFFICES ASSUME PlacesOK, [Next]_vars PROVE PlacesOK'
  OBVIOUS
<1>1. worker' \in {worker, "top", "pop", "write", "exited"}
  BY DEF Next, Persist, PersistReturns, WorkerTop, WorkerPop, WorkerTake, PersistItem, PersistTrades,
     Spill, Initialize, Start, Flush, Stop, Join, FlushPop, FlushTake, FlushEnd, vars, workVars
<1>2. owner' \in {owner, "idle", "flush", "join", "last flush"}
  BY DEF Next, Persist, PersistReturns, WorkerTop, WorkerPop, WorkerTake, PersistItem, PersistTrades,
     Spill, Initialize, Start, Flush, Stop, Join, FlushPop, FlushTake, FlushEnd, vars, ownerVars
<1>3. retries' \in {retries, 0, MaxRetries + 1} \/ (retries < MaxRetries /\ retries' = retries + 2)
  BY DEF Next, Persist, PersistReturns, WorkerTop, WorkerPop, WorkerTake, PersistItem, PersistTrades,
     Spill, Initialize, Start, Flush, Stop, Join, FlushPop, FlushTake, FlushEnd, vars, ownerVars
<1>4. started' = started \/ (started < MaxStarts /\ started' = started + 1)
  BY DEF Next, Persist, PersistReturns, WorkerTop, WorkerPop, WorkerTake, PersistItem, PersistTrades,
     Spill, Initialize, Start, Flush, Stop, Join, FlushPop, FlushTake, FlushEnd, vars, ownerVars
<1>5. worker' \in {"none", "top", "pop", "write", "exited"}
      /\ owner' \in {"idle", "flush", "join", "last flush"}
  BY <1>1, <1>2 DEF PlacesOK
<1>6. /\ MaxRetries \in Nat /\ MaxStarts \in Nat
      /\ retries \in 0 .. MaxRetries + 1 /\ started \in 0 .. MaxStarts
  BY PersistenceAssumption DEF PlacesOK
<1>7. retries' \in 0 .. MaxRetries + 1
  BY ONLY <1>3, <1>6
<1>8. started' \in 0 .. MaxStarts
  BY ONLY <1>4, <1>6
<1> QED BY <1>5, <1>7, <1>8 DEF PlacesOK

\* What the steps do to the records.
LEMMA RecordSteps ==
    ASSUME StoppedGone, [Next]_vars
    PROVE  \/ /\ UNCHANGED <<batch, wal_buffer, wal, discarded, dropped>>
              /\ flushed' \in {flushed, Len(wal)} \cup (flushed + 1 .. Len(wal))
              /\ worker = "write" => worker' = "write"
           \/ WorkerTake \/ PersistItem \/ PersistTrades
           \/ \E x \in Stored : /\ discarded' = discarded \cup {x}
                                /\ UNCHANGED <<batch, wal_buffer, wal, flushed, dropped, worker>>
<1>1. CASE FlushTake
  BY <1>1 DEF FlushTake, workVars
<1>2. CASE WorkerTop \/ Initialize \/ FlushEnd
  <2>1. UNCHANGED <<batch, wal_buffer, wal, discarded, dropped>>
    BY <1>2 DEF WorkerTop, Initialize, FlushEnd, ownerVars
  <2>2. flushed' \in {flushed, Len(wal)}
    BY <1>2 DEF WorkerTop, Initialize, FlushEnd, FlushBatch
  <2>3. worker = "write" => worker' = "write"
    BY <1>2 DEF WorkerTop, Initialize, FlushEnd
  <2> QED BY <2>1, <2>2, <2>3
<1>3. CASE Spill
  BY <1>3 DEF Spill, ownerVars
<1>4. CASE Start
  BY <1>4 DEF Start, StoppedGone, WorkerGone
<1>5. CASE \/ Flush \/ Stop \/ Join \/ WorkerPop \/ FlushPop \/ UNCHANGED vars
           \/ \E t \in Producers : Persist(t) \/ PersistReturns(t)
  BY <1>5 DEF Flush, Stop, Join, WorkerPop, FlushPop, Persist, PersistReturns, workVars,
     ownerVars, vars
<1> QED BY <1>1, <1>2, <1>3, <1>4, <1>5 DEF Next

LEMMA RecordsKept ==
    ASSUME QueueInv, StoppedGone, RecordsOK, HandsEmpty, [Next]_vars
    PROVE  RecordsOK' /\ HandsEmpty'
<1>1. /\ Len(batch) \in Nat /\ Len(wal_buffer) \in Nat /\ Len(wal) \in Nat /\ BATCH_SIZE \in Nat \ {0}
      /\ batch \in Seq(Item) /\ wal_buffer \in Seq(Item) /\ wal \in Seq(Item)
  BY LenProperties, PersistenceAssumption DEF RecordsOK
<1>2. CASE /\ UNCHANGED <<batch, wal_buffer, wal, discarded, dropped>>
           /\ flushed' \in {flushed, Len(wal)} \cup (flushed + 1 .. Len(wal))
           /\ worker = "write" => worker' = "write"
  <2>1. flushed' \in 0 .. Len(wal)
    BY <1>1, <1>2 DEF RecordsOK
  <2> QED BY <1>2, <2>1 DEF RecordsOK, HandsEmpty, Full
<1>3. CASE WorkerTake
  <2>1. PICK x \in Stored : batch' = Append(batch, x)
    BY <1>3 DEF WorkerTake
  <2>2. /\ worker = "pop" /\ (worker' = "write" \/ (~Full(batch') /\ worker' = "pop"))
        /\ UNCHANGED <<wal_buffer, wal, flushed, dropped, discarded>>
    BY <1>3 DEF WorkerTake, ownerVars
  <2>3. x \in Item
    BY <2>1, StoredItems
  <2>4. wal_buffer = <<>> /\ ~Full(batch)
    BY <2>2 DEF HandsEmpty
  <2>5. Len(batch) < BATCH_SIZE
    BY <1>1, <2>4 DEF Full
  <2>6. batch' \in Seq(Item) /\ Len(batch') = Len(batch) + 1
    BY <1>1, <2>1, <2>3, AppendProperties
  <2>7. Len(wal_buffer) = 0
    BY <2>4
  <2>8. Len(batch') + Len(wal_buffer') <= BATCH_SIZE
    BY <1>1, <2>2, <2>5, <2>6, <2>7
  <2>9. RecordsOK'
    BY <2>2, <2>6, <2>8 DEF RecordsOK
  <2>10. HandsEmpty'
    BY <2>2, <2>4 DEF HandsEmpty
  <2> QED BY <2>9, <2>10
<1>4. CASE PersistItem
  <2>1. /\ worker' = "write" /\ batch # <<>> /\ batch' = Tail(batch)
        /\ UNCHANGED <<flushed, discarded>>
    BY <1>4 DEF PersistItem, ownerVars
  <2>2. Head(batch) \in Item /\ batch' \in Seq(Item) /\ Len(batch') = Len(batch) - 1
    BY <1>1, <2>1, HeadTailProperties
  <2>3. /\ wal_buffer' \in Seq(Item) /\ Len(wal_buffer') <= Len(wal_buffer) + 1
        /\ wal' \in Seq(Item) /\ Len(wal) <= Len(wal') /\ dropped' \subseteq Item
    <3>1. CASE WriteToWAL(<<Head(batch)>>) /\ UNCHANGED wal_buffer
      <4>1. <<Head(batch)>> \in Seq(Item)
        BY <2>2
      <4>2. wal' \in Seq(Item) /\ Len(wal) <= Len(wal') /\ dropped' \subseteq Item
        BY <3>1, <4>1, WriteTypes
      <4> QED BY <1>1, <3>1, <4>2
    <3>2. CASE wal_buffer' = Append(wal_buffer, Head(batch)) /\ UNCHANGED <<wal, dropped>>
      <4>1. wal_buffer' \in Seq(Item) /\ Len(wal_buffer') = Len(wal_buffer) + 1
        BY <1>1, <2>2, <3>2, AppendProperties
      <4>2. wal' \in Seq(Item) /\ Len(wal') = Len(wal) /\ dropped' \subseteq Item
        BY <1>1, <3>2 DEF RecordsOK
      <4> QED BY <1>1, <4>1, <4>2
    <3> QED BY <1>4, <3>1, <3>2 DEF PersistItem
  <2>4. Len(batch') + Len(wal_buffer') <= BATCH_SIZE
    <3>1. Len(batch) + Len(wal_buffer) <= BATCH_SIZE /\ Len(wal_buffer') \in Nat
      BY <2>3, LenProperties DEF RecordsOK
    <3> QED BY <1>1, <2>2, <2>3, <3>1
  <2>5. flushed' \in 0 .. Len(wal')
    <3>1. Len(wal') \in Nat /\ flushed \in 0 .. Len(wal)
      BY <2>3, LenProperties DEF RecordsOK
    <3> QED BY <1>1, <2>1, <2>3, <3>1
  <2>6. RecordsOK'
    BY <2>1, <2>2, <2>3, <2>4, <2>5 DEF RecordsOK
  <2> QED BY <2>1, <2>6 DEF HandsEmpty
<1>5. CASE PersistTrades
  <2>1. /\ worker' = "pop" /\ batch = <<>> /\ batch' = batch /\ wal_buffer' = <<>>
        /\ WriteToWAL(wal_buffer) /\ UNCHANGED <<flushed, discarded>>
    BY <1>5 DEF PersistTrades, ownerVars
  <2>2. wal' \in Seq(Item) /\ Len(wal) <= Len(wal') /\ dropped' \subseteq Item
    BY <1>1, <2>1, WriteTypes
  <2>3. flushed' \in 0 .. Len(wal')
    <3>1. Len(wal') \in Nat /\ flushed \in 0 .. Len(wal)
      BY <2>2, LenProperties DEF RecordsOK
    <3> QED BY <1>1, <2>1, <2>2, <3>1
  <2>4. Len(batch') = 0 /\ Len(wal_buffer') = 0 /\ wal_buffer' \in Seq(Item)
    BY <2>1
  <2>5. RecordsOK'
    BY <1>1, <2>1, <2>2, <2>3, <2>4 DEF RecordsOK
  <2>6. HandsEmpty'
    BY <1>1, <2>1, <2>4 DEF HandsEmpty, Full
  <2> QED BY <2>5, <2>6
<1>6. CASE \E x \in Stored : /\ discarded' = discarded \cup {x}
                            /\ UNCHANGED <<batch, wal_buffer, wal, flushed, dropped, worker>>
  <2>1. PICK x \in Stored : /\ discarded' = discarded \cup {x}
                           /\ UNCHANGED <<batch, wal_buffer, wal, flushed, dropped, worker>>
    BY <1>6
  <2>2. discarded' \subseteq Item
    BY <2>1, StoredItems DEF RecordsOK
  <2> QED BY <2>1, <2>2 DEF RecordsOK, HandsEmpty, Full
<1> QED BY <1>2, <1>3, <1>4, <1>5, <1>6, RecordSteps

LEMMA StoppedKept == StoppedGone /\ [Next]_vars => StoppedGone'
<1> SUFFICES ASSUME StoppedGone, [Next]_vars PROVE StoppedGone'
  OBVIOUS
<1>1. CASE WorkerTop \/ WorkerTake \/ PersistItem \/ PersistTrades
  <2>1. ~WorkerGone /\ UNCHANGED <<running_, owner>>
    BY <1>1 DEF WorkerTop, WorkerTake, PersistItem, PersistTrades, WorkerGone, ownerVars
  <2> QED BY <2>1 DEF StoppedGone
<1>2. CASE Start \/ Stop
  <2>1. running_' \/ owner' = "join"
    BY <1>2 DEF Start, Stop
  <2> QED BY <2>1 DEF StoppedGone
<1>3. CASE Join
  BY <1>3 DEF Join, StoppedGone, WorkerGone, workVars
<1>4. CASE FlushEnd \/ Flush
  <2>1. owner # "join" /\ UNCHANGED <<running_, worker>>
    BY <1>4 DEF Flush, FlushEnd, Flushing, workVars
  <2> QED BY <2>1 DEF StoppedGone, WorkerGone
<1>5. CASE \/ WorkerPop \/ Spill \/ Initialize \/ FlushPop \/ FlushTake \/ UNCHANGED vars
           \/ \E t \in Producers : Persist(t) \/ PersistReturns(t)
  <2>1. UNCHANGED <<running_, worker, owner>>
    BY <1>5 DEF WorkerPop, Spill, Initialize, FlushPop, FlushTake, Persist, PersistReturns,
       workVars, ownerVars, vars
  <2> QED BY <2>1 DEF StoppedGone, WorkerGone
<1> QED BY <1>1, <1>2, <1>3, <1>4, <1>5 DEF Next

LEMMA TypesHold == QueueInv /\ WorkInv => TypeOK
<1> SUFFICES ASSUME QueueInv, WorkInv PROVE TypeOK
  OBVIOUS
<1> USE DEF WorkInv
<1>1. running_ \in BOOLEAN /\ open \in BOOLEAN
  BY Zenon DEF FlagsOK
<1> QED BY Zenon, <1>1 DEF QueueInv, QueueTypeOK, PlacesOK, RecordsOK, TypeOK

-----------------------------------------------------------------------------
(* Sequences of items and the sets of them *)

Distinct(s) == \A i, j \in DOMAIN s : s[i] = s[j] => i = j

LEMMA SetOfAppend ==
    ASSUME NEW S, NEW s \in Seq(S), NEW x \in S
    PROVE  /\ ToSet(Append(s, x)) = ToSet(s) \cup {x}
           /\ Distinct(s) /\ x \notin ToSet(s) => Distinct(Append(s, x))
<1>1. /\ Append(s, x) \in Seq(S) /\ Len(Append(s, x)) = Len(s) + 1 /\ Len(s) \in Nat
      /\ \A i \in 1 .. Len(s) : Append(s, x)[i] = s[i]
      /\ Append(s, x)[Len(s) + 1] = x
  BY AppendProperties, LenProperties
<1>2. DOMAIN s = 1 .. Len(s) /\ DOMAIN Append(s, x) = 1 .. Len(s) + 1
  BY <1>1, LenProperties
<1>3. ToSet(Append(s, x)) = ToSet(s) \cup {x}
  <2>1. ToSet(Append(s, x)) \subseteq ToSet(s) \cup {x}
    BY <1>1, <1>2 DEF ToSet
  <2>2. ToSet(s) \subseteq ToSet(Append(s, x))
    BY <1>1, <1>2 DEF ToSet
  <2>3. x \in ToSet(Append(s, x))
    BY <1>1, <1>2 DEF ToSet
  <2> QED BY <2>1, <2>2, <2>3
<1>4. Distinct(s) /\ x \notin ToSet(s) => Distinct(Append(s, x))
  BY <1>1, <1>2 DEF ToSet, Distinct
<1> QED BY <1>3, <1>4

LEMMA SetOfConcat ==
    ASSUME NEW S, NEW s \in Seq(S), NEW t \in Seq(S)
    PROVE  ToSet(s \o t) = ToSet(s) \cup ToSet(t)
<1>1. /\ s \o t \in Seq(S) /\ Len(s \o t) = Len(s) + Len(t)
      /\ \A i \in 1 .. Len(s) + Len(t) :
           (s \o t)[i] = IF i <= Len(s) THEN s[i] ELSE t[i - Len(s)]
      /\ Len(s) \in Nat /\ Len(t) \in Nat
  BY ConcatProperties, LenProperties
<1>2. /\ DOMAIN s = 1 .. Len(s) /\ DOMAIN t = 1 .. Len(t)
      /\ DOMAIN (s \o t) = 1 .. Len(s) + Len(t)
  BY <1>1, LenProperties
<1>3. ToSet(s \o t) \subseteq ToSet(s) \cup ToSet(t)
  BY <1>1, <1>2 DEF ToSet
<1>4. ToSet(s) \subseteq ToSet(s \o t)
  BY <1>1, <1>2 DEF ToSet
<1>5. ToSet(t) \subseteq ToSet(s \o t)
  <2> SUFFICES ASSUME NEW i \in 1 .. Len(t) PROVE t[i] \in ToSet(s \o t)
    BY <1>2 DEF ToSet
  <2>1. i + Len(s) \in 1 .. Len(s) + Len(t)
    BY <1>1
  <2>2. (s \o t)[i + Len(s)] = t[i]
    BY <1>1, <2>1
  <2> QED BY <1>2, <2>1, <2>2 DEF ToSet
<1> QED BY <1>3, <1>4, <1>5

LEMMA SetOfTail ==
    ASSUME NEW S, NEW s \in Seq(S), s # <<>>, Distinct(s)
    PROVE  /\ Head(s) \in ToSet(s) /\ ToSet(Tail(s)) = ToSet(s) \ {Head(s)}
           /\ Distinct(Tail(s))
<1>1. /\ Tail(s) \in Seq(S) /\ Len(Tail(s)) = Len(s) - 1 /\ Len(s) \in Nat \ {0}
      /\ \A i \in 1 .. Len(Tail(s)) : Tail(s)[i] = s[i + 1]
      /\ Head(s) = s[1]
  BY HeadTailProperties, EmptySeq
<1>2. DOMAIN s = 1 .. Len(s) /\ DOMAIN Tail(s) = 1 .. Len(s) - 1
  BY <1>1, LenProperties
<1>3. Head(s) \in ToSet(s)
  BY <1>1, <1>2 DEF ToSet
<1>4. \A x \in ToSet(Tail(s)) : x \in ToSet(s) /\ x # Head(s)
  <2> SUFFICES ASSUME NEW i \in 1 .. Len(s) - 1
               PROVE  Tail(s)[i] \in ToSet(s) /\ Tail(s)[i] # Head(s)
    BY <1>2 DEF ToSet
  <2>1. i + 1 \in 1 .. Len(s) /\ i + 1 # 1 /\ Tail(s)[i] = s[i + 1] /\ 1 \in 1 .. Len(s)
    BY <1>1
  <2> QED BY <1>1, <1>2, <2>1 DEF ToSet, Distinct
<1>5. \A x \in ToSet(s) : x # Head(s) => x \in ToSet(Tail(s))
  <2> SUFFICES ASSUME NEW i \in 1 .. Len(s), s[i] # Head(s) PROVE s[i] \in ToSet(Tail(s))
    BY <1>2 DEF ToSet
  <2>1. i - 1 \in 1 .. Len(s) - 1 /\ i = (i - 1) + 1
    BY <1>1
  <2>2. Tail(s)[i - 1] = s[i]
    BY <1>1, <2>1
  <2> QED BY <1>2, <2>1, <2>2 DEF ToSet
<1>6. Distinct(Tail(s))
  <2> SUFFICES ASSUME NEW i \in 1 .. Len(s) - 1, NEW j \in 1 .. Len(s) - 1, Tail(s)[i] = Tail(s)[j]
               PROVE  i = j
    BY <1>2 DEF Distinct
  <2>1. /\ i + 1 \in 1 .. Len(s) /\ j + 1 \in 1 .. Len(s)
        /\ Tail(s)[i] = s[i + 1] /\ Tail(s)[j] = s[j + 1]
    BY <1>1
  <2>2. i + 1 = j + 1
    BY <1>2, <2>1 DEF Distinct
  <2> QED BY <2>2
<1> QED BY <1>3, <1>4, <1>5, <1>6

LEMMA SetOfSequence ==
    ASSUME NEW S, NEW s \in Seq(S)
    PROVE  /\ ToSet(s) \subseteq S /\ IsFiniteSet(ToSet(s))
           /\ Distinct(s) => Cardinality(ToSet(s)) = Len(s)
<1>1. Len(s) \in Nat /\ DOMAIN s = 1 .. Len(s) /\ s \in [1 .. Len(s) -> S]
  BY LenProperties
<1>2. ToSet(s) \subseteq S
  BY <1>1 DEF ToSet
<1>3. s \in Surjection(1 .. Len(s), ToSet(s))
  BY <1>1 DEF Surjection, ToSet
<1>4. IsFiniteSet(1 .. Len(s)) /\ Cardinality(1 .. Len(s)) = Len(s)
  BY <1>1, FS_Interval
<1>5. /\ IsFiniteSet(ToSet(s))
      /\ Cardinality(ToSet(s)) = Cardinality(1 .. Len(s))
           <=> s \in Injection(1 .. Len(s), ToSet(s))
  BY <1>3, <1>4, FS_Surjection
<1>6. Distinct(s) => s \in Injection(1 .. Len(s), ToSet(s))
  BY <1>1, <1>3 DEF Distinct, Injection, IsInjective, Surjection
<1> QED BY <1>2, <1>4, <1>5, <1>6

-----------------------------------------------------------------------------
(* Every item is in one place *)

InPush == {p.item : p \in pushing}

PlaceNames == {"push", "slot", "batch", "buffer", "log", "discarded", "dropped"}
Where ==
    [k \in PlaceNames |->
        CASE k = "push"      -> InPush
          [] k = "slot"      -> Stored
          [] k = "batch"     -> ToSet(batch)
          [] k = "buffer"    -> ToSet(wal_buffer)
          [] k = "log"       -> ToSet(wal)
          [] k = "discarded" -> discarded
          [] k = "dropped"   -> dropped]

Apart(W, K) == \A j, k \in K : j # k => W[j] \cap W[k] = {}

\* W becomes V when the items of M go from a to b.
Moves(W, V, K, a, b, M) ==
    /\ M \subseteq W[a] /\ V[a] = W[a] \ M /\ V[b] = W[b] \cup M
    /\ \A k \in K \ {a, b} : V[k] = W[k]

LEMMA MovesKeep ==
    ASSUME NEW K, NEW W, NEW V, NEW a \in K, NEW b \in K, a # b, NEW M, Moves(W, V, K, a, b, M),
           Apart(W, K)
    PROVE  /\ Apart(V, K)
           /\ \A x : (\E k \in K : x \in V[k]) <=> (\E k \in K : x \in W[k])
<1> USE DEF Moves, Apart
<1>1. ASSUME NEW j \in K, NEW k \in K, j # k PROVE V[j] \cap V[k] = {}
  <2> SUFFICES ASSUME NEW x, x \in V[j], x \in V[k] PROVE FALSE
    OBVIOUS
  <2>1. ASSUME NEW l \in K, x \in V[l], l # a, l # b PROVE x \in W[l]
    BY <2>1
  <2>2. x \in V[a] => x \in W[a] /\ x \notin M
    OBVIOUS
  <2>3. x \in V[b] => x \in W[b] \/ (x \in M /\ x \in W[a])
    OBVIOUS
  <2>4. \A l, m \in K : x \in W[l] /\ x \in W[m] => l = m
    OBVIOUS
  <2> QED BY <1>1, <2>1, <2>2, <2>3, <2>4
<1>2. ASSUME NEW x PROVE (\E k \in K : x \in V[k]) <=> (\E k \in K : x \in W[k])
  <2>1. \A k \in K : x \in V[k] => x \in W[k] \/ x \in W[a]
    OBVIOUS
  <2>2. \A k \in K : x \in W[k] => x \in V[k] \/ x \in V[a] \/ x \in V[b]
    OBVIOUS
  <2> QED BY <2>1, <2>2
<1> QED BY <1>1, <1>2

LEMMA PlacesAre == \A x : x \in Places <=> \E k \in PlaceNames : x \in Where[k]
  BY DEF Places, Where, PlaceNames, InPush

\* No two items have one number, and there is one for every call.
Numbered ==
    /\ \A x, y \in Places : x.by = y.by /\ x.n = y.n => x = y
    /\ \A x \in Places : x.by \in Producers /\ x.n \in 1 .. sent[x.by]
    /\ \A t \in Producers : \A n \in 1 .. sent[t] : \E x \in Places : x.by = t /\ x.n = n

\* A place that is a sequence or an array holds an item once, too.
HeldOnce ==
    /\ Apart(Where, PlaceNames)
    /\ \A i, j \in Slots : buffer_[i] # NoItem /\ buffer_[i] = buffer_[j] => i = j
    /\ Distinct(batch) /\ Distinct(wal_buffer)

FullSlots == {i \in Slots : buffer_[i] # NoItem}
Counted ==
    /\ IsFiniteSet(discarded) /\ IsFiniteSet(dropped)
    /\ Count = write_pos_

OnceInv == Numbered /\ HeldOnce /\ Counted

records == <<batch, wal_buffer, wal, discarded, dropped>>

\* What a step does to queue and records together.
Receives(c, x) ==
    /\ Takes(c, x)
    /\ \/ /\ c.by = "worker" /\ batch' = Append(batch, x)
          /\ UNCHANGED <<wal_buffer, wal, discarded, dropped>>
       \/ /\ c.by = "owner" /\ discarded' = discarded \cup {x}
          /\ UNCHANGED <<batch, wal_buffer, wal, dropped>>

LEMMA ItemSteps ==
    ASSUME [Next]_vars
    PROVE  \/ /\ UNCHANGED records
              /\ \/ \E t \in Producers, type \in PersistType : Claims(t, type)
                 \/ \E p \in pushing : Stores(p)
                 \/ \E b \in {"worker", "owner"} : Asks(b)
                 \/ UNCHANGED <<queueVars, sent>>
           \/ \E c \in popping, x \in Stored : Receives(c, x)
           \/ PersistItem /\ UNCHANGED <<queueVars, sent, discarded>>
           \/ PersistTrades /\ UNCHANGED <<queueVars, sent, discarded>>
<1> USE DEF records
<1>1. ASSUME NEW t \in Producers, Persist(t)
      PROVE  UNCHANGED records /\ \E type \in PersistType : Claims(t, type)
  BY <1>1 DEF Persist, Claims, Handed, workVars, ownerVars
<1>2. ASSUME NEW t \in Producers, PersistReturns(t)
      PROVE  UNCHANGED records /\ \E p \in pushing : Stores(p)
  BY <1>2 DEF PersistReturns, Stores, workVars, ownerVars
<1>3. CASE WorkerPop
  <2>1. UNCHANGED records /\ Asks("worker")
    BY <1>3 DEF WorkerPop, WorkerPops, Asks, workVars, ownerVars
  <2> QED BY <2>1
<1>4. CASE FlushPop
  <2>1. UNCHANGED records /\ Asks("owner")
    BY <1>4 DEF FlushPop, OwnerPops, Asks, workVars, ownerVars
  <2> QED BY <2>1
<1>5. CASE WorkerTake
  <2>1. PICK c \in popping, x \in Stored :
            c.by = "worker" /\ PopTake(c, x) /\ batch' = Append(batch, x)
    BY <1>5 DEF WorkerTake
  <2>2. UNCHANGED <<wal_buffer, wal, discarded, dropped, sent>>
    BY <1>5 DEF WorkerTake, ownerVars
  <2> QED BY <2>1, <2>2 DEF Receives, Takes
<1>6. CASE FlushTake
  <2>1. PICK c \in popping, x \in Stored :
            c.by = "owner" /\ PopTake(c, x) /\ discarded' = discarded \cup {x}
    BY <1>6 DEF FlushTake
  <2>2. UNCHANGED <<batch, wal_buffer, wal, dropped, sent>>
    BY <1>6 DEF FlushTake, workVars
  <2> QED BY <2>1, <2>2 DEF Receives, Takes
<1>7. CASE PersistItem \/ PersistTrades
  BY <1>7 DEF PersistItem, PersistTrades, ownerVars
<1>8. CASE WorkerTop \/ Spill \/ Initialize \/ Start \/ Flush \/ Stop \/ Join \/ FlushEnd
  BY <1>8 DEF WorkerTop, Spill, Initialize, Start, Flush, Stop, Join, FlushEnd, workVars, ownerVars
<1>9. CASE UNCHANGED vars
  BY <1>9 DEF vars, workVars, ownerVars
<1> QED BY <1>1, <1>2, <1>3, <1>4, <1>5, <1>6, <1>7, <1>8, <1>9 DEF Next

LEMMA WhereIs ==
    /\ Where["push"] = InPush /\ Where["slot"] = Stored
    /\ Where["batch"] = ToSet(batch) /\ Where["buffer"] = ToSet(wal_buffer)
    /\ Where["log"] = ToSet(wal) /\ Where["discarded"] = discarded /\ Where["dropped"] = dropped
  BY DEF Where, PlaceNames

\* What the steps do to the places, and to the slots that are taken.
LEMMA StoreMoves ==
    ASSUME QueueInv, HeldOnce, NEW p \in pushing, Stores(p), UNCHANGED records
    PROVE  /\ Moves(Where, Where', PlaceNames, "push", "slot", {p.item})
           /\ HeldOnce'
           /\ FullSlots' = FullSlots \cup {Index(p.pos)} /\ Index(p.pos) \in Slots \ FullSlots
<1>1. /\ pushing' = pushing \ {p}
      /\ buffer_' = [buffer_ EXCEPT ![Index(p.pos)] = p.item]
      /\ buffer_[Index(p.pos)] = NoItem
  BY DEF Stores, PushStore, Store
<1>2. p.pos \in Nat /\ p.item \in Item /\ p.item # NoItem
  BY NullAssumption DEF QueueInv, QueueTypeOK, Spin
<1>3. PICK i \in Slots : i = Index(p.pos)
  BY <1>2, IndexRound
<1>4. buffer_'[i] = p.item /\ \A j \in Slots : j # i => buffer_'[j] = buffer_[j]
  BY <1>1, <1>3 DEF QueueInv, QueueTypeOK
<1>5. InPush' = InPush \ {p.item} /\ p.item \in InPush
  BY <1>1 DEF InPush, QueueInv, OneAtATime
<1>6. Stored' = Stored \cup {p.item}
  <2>1. Stored' \subseteq Stored \cup {p.item}
    BY <1>4 DEF Stored
  <2>2. Stored \subseteq Stored'
    BY <1>1, <1>3, <1>4 DEF Stored
  <2>3. p.item \in Stored'
    BY <1>2, <1>3, <1>4 DEF Stored
  <2> QED BY <2>1, <2>2, <2>3
<1>7. \A k \in PlaceNames \ {"push", "slot"} : Where'[k] = Where[k]
  BY DEF records, Where, PlaceNames
<1>8. /\ Where'["push"] = InPush' /\ Where'["slot"] = Stored'
  BY DEF Where, PlaceNames
<1>9. Moves(Where, Where', PlaceNames, "push", "slot", {p.item})
  BY <1>5, <1>6, <1>7, <1>8, WhereIs DEF Moves
<1>10. Apart(Where', PlaceNames)
  <2>1. "push" \in PlaceNames /\ "slot" \in PlaceNames /\ "push" # "slot"
    BY DEF PlaceNames
  <2> QED BY <1>9, <2>1, MovesKeep DEF HeldOnce
<1>11. \A j, k \in Slots : buffer_'[j] # NoItem /\ buffer_'[j] = buffer_'[k] => j = k
  <2>1. p.item \notin Stored
    <3>1. InPush \cap Stored = {}
      BY WhereIs DEF HeldOnce, Apart, PlaceNames
    <3> QED BY <1>5, <3>1
  <2>2. \A j \in Slots : buffer_[j] # p.item
    BY <1>2, <2>1 DEF Stored
  <2>3. ASSUME NEW j \in Slots, NEW k \in Slots, buffer_'[j] # NoItem, buffer_'[j] = buffer_'[k]
        PROVE  j = k
    BY <1>4, <2>2, <2>3 DEF HeldOnce
  <2> QED BY <2>3
<1>12. HeldOnce'
  BY <1>10, <1>11 DEF HeldOnce, records
<1>13. FullSlots' = FullSlots \cup {i} /\ i \in Slots \ FullSlots
  BY <1>1, <1>2, <1>3, <1>4 DEF FullSlots
<1> QED BY <1>3, <1>9, <1>12, <1>13

\* An item comes out of its slot, and goes to the batch or away.
LEMMA TakeSets ==
    ASSUME QueueInv, HeldOnce, NEW c \in popping, NEW x \in Stored, Takes(c, x)
    PROVE  /\ x \in Item /\ Stored' = Stored \ {x} /\ InPush' = InPush
           /\ Index(c.pos) \in FullSlots /\ FullSlots' = FullSlots \ {Index(c.pos)}
           /\ \A j, k \in Slots : buffer_'[j] # NoItem /\ buffer_'[j] = buffer_'[k] => j = k
<1>1. /\ buffer_' = [buffer_ EXCEPT ![Index(c.pos)] = NoItem]
      /\ buffer_[Index(c.pos)] = x /\ x # NoItem
      /\ pushing' = pushing
  BY DEF Takes, PopTake
<1>2. c.pos \in Nat
  BY DEF QueueInv, QueueTypeOK
<1>3. PICK i \in Slots : i = Index(c.pos)
  BY <1>2, IndexRound
<1>4. buffer_'[i] = NoItem /\ \A j \in Slots : j # i => buffer_'[j] = buffer_[j]
  BY <1>1, <1>3 DEF QueueInv, QueueTypeOK
<1>5. Stored' = Stored \ {x}
  <2>1. Stored' \subseteq Stored
    BY <1>4 DEF Stored
  <2>2. x \notin Stored'
    BY <1>1, <1>3, <1>4 DEF Stored, HeldOnce
  <2>3. \A y \in Stored : y # x => y \in Stored'
    BY <1>1, <1>3, <1>4 DEF Stored
  <2> QED BY <2>1, <2>2, <2>3
<1>6. \A j, k \in Slots : buffer_'[j] # NoItem /\ buffer_'[j] = buffer_'[k] => j = k
  BY <1>4 DEF HeldOnce
<1>7. i \in FullSlots /\ FullSlots' = FullSlots \ {i}
  BY <1>1, <1>3, <1>4 DEF FullSlots
<1> QED BY <1>1, <1>3, <1>5, <1>6, <1>7, StoredItems DEF InPush

LEMMA TakeMoves ==
    ASSUME QueueInv, RecordsOK, HeldOnce, NEW c \in popping, NEW x \in Stored, Receives(c, x)
    PROVE  /\ \E to \in PlaceNames \ {"slot"} : Moves(Where, Where', PlaceNames, "slot", to, {x})
           /\ HeldOnce'
<1>1. /\ x \in Item /\ Stored' = Stored \ {x} /\ InPush' = InPush
      /\ \A j, k \in Slots : buffer_'[j] # NoItem /\ buffer_'[j] = buffer_'[k] => j = k
  BY TakeSets DEF Receives
<1>2. /\ Where'["push"] = InPush' /\ Where'["slot"] = Stored'
      /\ Where'["batch"] = ToSet(batch') /\ Where'["buffer"] = ToSet(wal_buffer')
      /\ Where'["log"] = ToSet(wal') /\ Where'["discarded"] = discarded'
      /\ Where'["dropped"] = dropped'
  BY DEF Where, PlaceNames
<1>3. Stored \cap ToSet(batch) = {}
  BY WhereIs DEF HeldOnce, Apart, PlaceNames
<1>4. CASE batch' = Append(batch, x) /\ UNCHANGED <<wal_buffer, wal, discarded, dropped>>
  <2>1. ToSet(batch') = ToSet(batch) \cup {x} /\ Distinct(batch')
    BY <1>1, <1>3, <1>4, SetOfAppend DEF RecordsOK, HeldOnce
  <2>2. Moves(Where, Where', PlaceNames, "slot", "batch", {x})
    BY <1>1, <1>2, <1>4, <2>1, WhereIs DEF Moves, PlaceNames
  <2>3. Apart(Where', PlaceNames)
    <3>1. "slot" \in PlaceNames /\ "batch" \in PlaceNames /\ "slot" # "batch"
      BY DEF PlaceNames
    <3> QED BY <2>2, <3>1, MovesKeep DEF HeldOnce
  <2>4. HeldOnce'
    BY <1>1, <1>4, <2>1, <2>3 DEF HeldOnce
  <2> QED BY <2>2, <2>4 DEF PlaceNames
<1>5. CASE discarded' = discarded \cup {x} /\ UNCHANGED <<batch, wal_buffer, wal, dropped>>
  <2>2. Moves(Where, Where', PlaceNames, "slot", "discarded", {x})
    BY <1>1, <1>2, <1>5, WhereIs DEF Moves, PlaceNames
  <2>3. Apart(Where', PlaceNames)
    <3>1. "slot" \in PlaceNames /\ "discarded" \in PlaceNames /\ "slot" # "discarded"
      BY DEF PlaceNames
    <3> QED BY <2>2, <3>1, MovesKeep DEF HeldOnce
  <2>4. HeldOnce'
    BY <1>1, <1>5, <2>3 DEF HeldOnce
  <2> QED BY <2>2, <2>4 DEF PlaceNames
<1> QED BY <1>4, <1>5 DEF Receives

LEMMA WriteSets ==
    ASSUME RecordsOK, NEW items \in Seq(Item), WriteToWAL(items)
    PROVE  \/ /\ ToSet(wal') = ToSet(wal) \cup ToSet(items) /\ UNCHANGED dropped
              /\ wal' = wal \o items
           \/ dropped' = dropped \cup ToSet(items) /\ UNCHANGED wal
<1>1. wal \in Seq(Item)
  BY DEF RecordsOK
<1>2. ToSet(wal \o items) = ToSet(wal) \cup ToSet(items)
  BY <1>1, SetOfConcat
<1>3. CASE wal' = wal \o items /\ UNCHANGED dropped
  BY <1>2, <1>3
<1>4. CASE dropped' = dropped \cup ToSet(items) /\ UNCHANGED wal
  BY <1>4
<1> QED BY <1>3, <1>4 DEF WriteToWAL

LEMMA ItemMoves ==
    ASSUME RecordsOK, HeldOnce, PersistItem, UNCHANGED <<queueVars, sent, discarded>>
    PROVE  /\ \E to \in PlaceNames \ {"batch"} :
                 Moves(Where, Where', PlaceNames, "batch", to, {Head(batch)})
           /\ HeldOnce'
<1> DEFINE h == Head(batch)
<1>1. /\ batch # <<>> /\ batch' = Tail(batch) /\ batch \in Seq(Item) /\ h \in Item
  BY HeadTailProperties DEF PersistItem, RecordsOK
<1>2. h \in ToSet(batch) /\ ToSet(batch') = ToSet(batch) \ {h} /\ Distinct(batch')
  BY <1>1, SetOfTail DEF HeldOnce
<1>3. /\ Where'["push"] = InPush' /\ Where'["slot"] = Stored'
      /\ Where'["batch"] = ToSet(batch') /\ Where'["buffer"] = ToSet(wal_buffer')
      /\ Where'["log"] = ToSet(wal') /\ Where'["discarded"] = discarded'
      /\ Where'["dropped"] = dropped'
  BY DEF Where, PlaceNames
<1>4. InPush' = InPush /\ Stored' = Stored /\ UNCHANGED <<buffer_, discarded>>
  BY DEF queueVars, InPush, Stored
<1>5. \A to \in PlaceNames \ {"batch"} :
         Moves(Where, Where', PlaceNames, "batch", to, {h}) => Apart(Where', PlaceNames)
  <2>1. "batch" \in PlaceNames
    BY DEF PlaceNames
  <2> QED BY <2>1, MovesKeep DEF HeldOnce
<1>6. ToSet(batch) \cap ToSet(wal_buffer) = {}
  BY WhereIs DEF HeldOnce, Apart, PlaceNames
<1>7. /\ "buffer" \in PlaceNames \ {"batch"} /\ "log" \in PlaceNames \ {"batch"}
      /\ "dropped" \in PlaceNames \ {"batch"}
  BY DEF PlaceNames
<1> HIDE DEF h
<1>8. CASE wal_buffer' = Append(wal_buffer, h) /\ UNCHANGED <<wal, dropped>>
  <2>1. ToSet(wal_buffer') = ToSet(wal_buffer) \cup {h} /\ Distinct(wal_buffer')
    BY <1>1, <1>2, <1>6, <1>8, SetOfAppend DEF RecordsOK, HeldOnce
  <2>2. Moves(Where, Where', PlaceNames, "batch", "buffer", {h})
    BY <1>2, <1>3, <1>4, <1>8, <2>1, WhereIs DEF Moves, PlaceNames
  <2>3. HeldOnce'
    BY <1>2, <1>4, <1>5, <1>7, <2>1, <2>2 DEF HeldOnce
  <2> QED BY <1>7, <2>2, <2>3 DEF h
<1>9. CASE WriteToWAL(<<h>>) /\ UNCHANGED wal_buffer
  <2>1. <<h>> \in Seq(Item) /\ ToSet(<<h>>) = {h}
    BY <1>1 DEF ToSet
  <2>2. CASE ToSet(wal') = ToSet(wal) \cup {h} /\ UNCHANGED dropped
    <3>1. Moves(Where, Where', PlaceNames, "batch", "log", {h})
      BY <1>2, <1>3, <1>4, <1>9, <2>2, WhereIs DEF Moves, PlaceNames
    <3>2. HeldOnce'
      BY <1>2, <1>4, <1>5, <1>7, <1>9, <3>1 DEF HeldOnce
    <3> QED BY <1>7, <3>1, <3>2 DEF h
  <2>3. CASE dropped' = dropped \cup {h} /\ UNCHANGED wal
    <3>1. Moves(Where, Where', PlaceNames, "batch", "dropped", {h})
      BY <1>2, <1>3, <1>4, <1>9, <2>3, WhereIs DEF Moves, PlaceNames
    <3>2. HeldOnce'
      BY <1>2, <1>4, <1>5, <1>7, <1>9, <3>1 DEF HeldOnce
    <3> QED BY <1>7, <3>1, <3>2 DEF h
  <2> QED BY <1>9, <2>1, <2>2, <2>3, WriteSets
<1> QED BY <1>8, <1>9 DEF PersistItem, h

LEMMA TradesMove ==
    ASSUME RecordsOK, HeldOnce, PersistTrades, UNCHANGED <<queueVars, sent, discarded>>
    PROVE  /\ \E to \in PlaceNames \ {"buffer"} :
                 Moves(Where, Where', PlaceNames, "buffer", to, ToSet(wal_buffer))
           /\ HeldOnce'
<1>1. wal_buffer' = <<>> /\ UNCHANGED batch /\ WriteToWAL(wal_buffer) /\ wal_buffer \in Seq(Item)
  BY DEF PersistTrades, RecordsOK
<1>2. ToSet(wal_buffer') = {} /\ Distinct(wal_buffer')
  BY <1>1 DEF ToSet, Distinct
<1>3. /\ Where'["push"] = InPush' /\ Where'["slot"] = Stored'
      /\ Where'["batch"] = ToSet(batch') /\ Where'["buffer"] = ToSet(wal_buffer')
      /\ Where'["log"] = ToSet(wal') /\ Where'["discarded"] = discarded'
      /\ Where'["dropped"] = dropped'
  BY DEF Where, PlaceNames
<1>4. InPush' = InPush /\ Stored' = Stored /\ UNCHANGED <<buffer_, discarded>>
  BY DEF queueVars, InPush, Stored
<1>5. \A to \in PlaceNames \ {"buffer"} :
         Moves(Where, Where', PlaceNames, "buffer", to, ToSet(wal_buffer))
            => Apart(Where', PlaceNames)
  <2>1. "buffer" \in PlaceNames
    BY DEF PlaceNames
  <2> QED BY <2>1, MovesKeep DEF HeldOnce
<1>6. "log" \in PlaceNames \ {"buffer"} /\ "dropped" \in PlaceNames \ {"buffer"}
  BY DEF PlaceNames
<1>7. CASE ToSet(wal') = ToSet(wal) \cup ToSet(wal_buffer) /\ UNCHANGED dropped
  <2>1. Moves(Where, Where', PlaceNames, "buffer", "log", ToSet(wal_buffer))
    BY <1>1, <1>2, <1>3, <1>4, <1>7, WhereIs DEF Moves, PlaceNames
  <2>2. HeldOnce'
    BY <1>1, <1>2, <1>4, <1>5, <1>6, <2>1 DEF HeldOnce
  <2> QED BY <1>6, <2>1, <2>2
<1>8. CASE dropped' = dropped \cup ToSet(wal_buffer) /\ UNCHANGED wal
  <2>1. Moves(Where, Where', PlaceNames, "buffer", "dropped", ToSet(wal_buffer))
    BY <1>1, <1>2, <1>3, <1>4, <1>8, WhereIs DEF Moves, PlaceNames
  <2>2. HeldOnce'
    BY <1>1, <1>2, <1>4, <1>5, <1>6, <2>1 DEF HeldOnce
  <2> QED BY <1>6, <2>1, <2>2
<1> QED BY <1>1, <1>7, <1>8, WriteSets

\* A claim adds its item, which no place holds yet.
LEMMA ClaimAdds ==
    ASSUME QueueInv, Numbered, HeldOnce,
           NEW t \in Producers, NEW type \in PersistType, Claims(t, type), UNCHANGED records
    PROVE  /\ InPush' = InPush \cup {Handed(t, type)} /\ Stored' = Stored
           /\ \A x : x \in Places' <=> x \in Places \/ x = Handed(t, type)
           /\ Handed(t, type) \notin Places
           /\ HeldOnce'
<1>1. PICK x \in Item : x = Handed(t, type)
  BY ItemHanded
<1>2. x.by = t /\ x.n = sent[t] + 1
  BY <1>1 DEF Handed
<1>3. x \notin Places
  <2>1. sent[t] \in Nat
    BY DEF QueueInv, QueueTypeOK
  <2>2. x \in Places => x.n \in 1 .. sent[x.by]
    BY DEF Numbered
  <2> QED BY <1>2, <2>1, <2>2
<1>4. InPush' = InPush \cup {x}
  <2>1. PICK p : p = [pos |-> write_pos_, item |-> x]
    OBVIOUS
  <2>2. pushing' = pushing \cup {p} /\ p.item = x
    BY <1>1, <2>1 DEF Claims, PushClaim
  <2> QED BY <2>2 DEF InPush
<1>5. Stored' = Stored /\ buffer_' = buffer_
  BY DEF Claims, PushClaim, Stored
<1>6. Places' = Places \cup {x}
  BY <1>4, <1>5 DEF Places, InPush, records
<1>7. HeldOnce'
  <2>1. /\ Where'["push"] = InPush'
        /\ \A k \in PlaceNames \ {"push"} : Where'[k] = Where[k]
    BY <1>5 DEF Where, PlaceNames, records
  <2>2. \A k \in PlaceNames : x \notin Where[k]
    BY <1>3, PlacesAre
  <2>3. Apart(Where', PlaceNames)
    BY <1>4, <2>1, <2>2, WhereIs DEF Apart, HeldOnce
  <2> QED BY <1>5, <2>3 DEF HeldOnce, records
<1> QED BY <1>1, <1>3, <1>4, <1>5, <1>6, <1>7

LEMMA OnceInitial == Init => OnceInv
<1> SUFFICES ASSUME Init PROVE OnceInv
  OBVIOUS
<1>1. /\ pushing = {} /\ batch = <<>> /\ wal_buffer = <<>> /\ wal = <<>> /\ write_pos_ = 0
      /\ discarded = {} /\ dropped = {} /\ \A i \in Slots : buffer_[i] = NoItem
      /\ \A t \in Producers : sent[t] = 0
  BY DEF Init, QueueInit
<1>2. /\ InPush = {} /\ Stored = {} /\ FullSlots = {}
      /\ ToSet(batch) = {} /\ ToSet(wal_buffer) = {} /\ ToSet(wal) = {}
  BY <1>1 DEF InPush, Stored, FullSlots, ToSet
<1>3. Places = {}
  BY <1>1, <1>2 DEF Places, InPush
<1>4. Numbered
  BY <1>1, <1>3 DEF Numbered
<1>5. HeldOnce
  <2>1. \A k \in PlaceNames : Where[k] = {}
    BY <1>1, <1>2, WhereIs DEF PlaceNames
  <2> QED BY <1>1, <2>1 DEF HeldOnce, Apart, Distinct
<1>6. Counted
  <2>1. Cardinality({}) = 0 /\ IsFiniteSet({})
    BY FS_EmptySet
  <2>2. /\ Cardinality(pushing) = 0 /\ Cardinality({i \in Slots : buffer_[i] # NoItem}) = 0
        /\ Len(batch) = 0 /\ Len(wal_buffer) = 0 /\ Len(wal) = 0
        /\ Cardinality(discarded) = 0 /\ Cardinality(dropped) = 0
    BY <1>1, <1>2, <2>1 DEF FullSlots
  <2>3. Count = 0
    BY ONLY <2>2 DEF Count
  <2> QED BY <1>1, <2>1, <2>3 DEF Counted
<1> QED BY <1>4, <1>5, <1>6 DEF OnceInv

LEMMA NumberedKept ==
    ASSUME QueueInv, RecordsOK, OnceInv, [Next]_vars
    PROVE  Numbered' /\ HeldOnce'
<1> USE DEF OnceInv
<1>1. ASSUME NEW t \in Producers, NEW type \in PersistType, Claims(t, type), UNCHANGED records
      PROVE  Numbered' /\ HeldOnce'
  <2>1. PICK x \in Item : x = Handed(t, type)
    BY <1>1, ItemHanded
  <2>2. x.by = t /\ x.n = sent[t] + 1
    BY <2>1 DEF Handed
  <2>3. /\ \A y : y \in Places' <=> y \in Places \/ y = x
        /\ HeldOnce'
    BY <1>1, <2>1, ClaimAdds
  <2>4. /\ \A u \in Producers : sent[u] \in Nat
        /\ sent'[t] = sent[t] + 1 /\ \A u \in Producers : u # t => sent'[u] = sent[u]
    BY <1>1 DEF Claims, QueueInv, QueueTypeOK
  <2>5. \A y \in Places : y.by = t => y.n # sent[t] + 1
    BY <2>4 DEF Numbered
  <2>6. \A y, z \in Places' : y.by = z.by /\ y.n = z.n => y = z
    BY <2>2, <2>3, <2>5 DEF Numbered
  <2>7. \A y \in Places' : y.by \in Producers /\ y.n \in 1 .. sent'[y.by]
    <3>1. ASSUME NEW y \in Places PROVE y.by \in Producers /\ y.n \in 1 .. sent'[y.by]
      <4>1. y.by \in Producers /\ y.n \in 1 .. sent[y.by] /\ sent[y.by] \in Nat
        BY <2>4 DEF Numbered
      <4>2. sent'[y.by] \in {sent[y.by], sent[y.by] + 1}
        BY <2>4, <4>1
      <4> QED BY <4>1, <4>2
    <3>2. x.n \in 1 .. sent'[t]
      BY <2>2, <2>4
    <3> QED BY <2>2, <2>3, <3>1, <3>2
  <2>8. ASSUME NEW u \in Producers, NEW n \in 1 .. sent'[u]
        PROVE  \E y \in Places' : y.by = u /\ y.n = n
    <3>1. CASE u = t /\ n = sent[t] + 1
      BY <2>2, <2>3, <3>1
    <3>2. CASE ~(u = t /\ n = sent[t] + 1)
      <4>1. n \in 1 .. sent[u]
        BY <2>4, <3>2
      <4>2. PICK y \in Places : y.by = u /\ y.n = n
        BY <4>1 DEF Numbered
      <4> QED BY <2>3, <4>2
    <3> QED BY <3>1, <3>2
  <2>9. Numbered'
    BY <2>6, <2>7, <2>8 DEF Numbered
  <2> QED BY <2>3, <2>9
<1>2. ASSUME NEW a \in PlaceNames, NEW b \in PlaceNames, a # b, NEW M,
             Moves(Where, Where', PlaceNames, a, b, M), UNCHANGED sent
      PROVE  Numbered'
  <2>1. \A x : (\E k \in PlaceNames : x \in Where'[k]) <=> (\E k \in PlaceNames : x \in Where[k])
    BY <1>2, MovesKeep DEF HeldOnce
  <2>2. \A x : x \in Places' <=> \E k \in PlaceNames : x \in Where'[k]
    <3>1. (\A x : x \in Places <=> \E k \in PlaceNames : x \in Where[k])'
      BY PlacesAre, PTL
    <3> QED BY <3>1
  <2>3. Places' = Places
    BY <2>1, <2>2, PlacesAre
  <2> QED BY <1>2, <2>3 DEF Numbered
<1>3. /\ "push" \in PlaceNames /\ "slot" \in PlaceNames \ {"push"} /\ "batch" \in PlaceNames
      /\ "buffer" \in PlaceNames
  BY DEF PlaceNames
<1>4. ASSUME NEW p \in pushing, Stores(p), UNCHANGED records
      PROVE  Numbered' /\ HeldOnce'
  <2>1. Moves(Where, Where', PlaceNames, "push", "slot", {p.item}) /\ HeldOnce'
    BY <1>4, StoreMoves
  <2>2. UNCHANGED sent
    BY <1>4 DEF Stores
  <2> QED BY <1>2, <1>3, <2>1, <2>2
<1>5. ASSUME NEW c \in popping, NEW x \in Stored, Receives(c, x)
      PROVE  Numbered' /\ HeldOnce'
  <2>1. /\ HeldOnce'
        /\ \E to \in PlaceNames \ {"slot"} : Moves(Where, Where', PlaceNames, "slot", to, {x})
    BY <1>5, TakeMoves
  <2>2. UNCHANGED sent
    BY <1>5 DEF Receives, Takes
  <2> QED BY <1>2, <1>3, <2>1, <2>2
<1>6. ASSUME PersistItem, UNCHANGED <<queueVars, sent, discarded>>
      PROVE  Numbered' /\ HeldOnce'
  <2>1. /\ HeldOnce'
        /\ \E to \in PlaceNames \ {"batch"} :
             Moves(Where, Where', PlaceNames, "batch", to, {Head(batch)})
    BY <1>6, ItemMoves
  <2> QED BY <1>2, <1>3, <1>6, <2>1
<1>7. ASSUME PersistTrades, UNCHANGED <<queueVars, sent, discarded>>
      PROVE  Numbered' /\ HeldOnce'
  <2>1. /\ HeldOnce'
        /\ \E to \in PlaceNames \ {"buffer"} :
             Moves(Where, Where', PlaceNames, "buffer", to, ToSet(wal_buffer))
    BY <1>7, TradesMove
  <2> QED BY <1>2, <1>3, <1>7, <2>1
<1>8. ASSUME UNCHANGED <<buffer_, pushing, sent>>, UNCHANGED records
      PROVE  Numbered' /\ HeldOnce'
  <2>1. Places' = Places /\ Where' = Where
    BY <1>8 DEF records, Places, Where, Stored, InPush
  <2> QED BY <1>8, <2>1 DEF Numbered, HeldOnce, records
<1>9. ASSUME NEW b \in {"worker", "owner"}, Asks(b), UNCHANGED records
      PROVE  Numbered' /\ HeldOnce'
  <2>1. UNCHANGED <<buffer_, pushing, sent>>
    BY <1>9 DEF Asks, PopClaim
  <2> QED BY <1>8, <1>9, <2>1
<1>10. ASSUME UNCHANGED <<queueVars, sent>>, UNCHANGED records
      PROVE  Numbered' /\ HeldOnce'
  BY <1>8, <1>10 DEF queueVars
<1> QED BY <1>1, <1>4, <1>5, <1>6, <1>7, <1>9, <1>10, ItemSteps

\* The parts of the count are natural numbers.
Parts(push, slot, b, wb, log, away, lost) == push + slot + b + wb + log + away + lost

LEMMA CountIs ==
    /\ Count = Parts(Cardinality(pushing), Cardinality(FullSlots), Len(batch), Len(wal_buffer),
                     Len(wal), Cardinality(discarded), Cardinality(dropped))
  BY DEF Count, Parts, FullSlots

LEMMA PartTypes ==
    ASSUME QueueInv, RecordsOK, Counted
    PROVE  /\ IsFiniteSet(FullSlots) /\ IsFiniteSet(pushing)
           /\ Cardinality(pushing) \in Nat /\ Cardinality(FullSlots) \in Nat
           /\ Len(batch) \in Nat /\ Len(wal_buffer) \in Nat /\ Len(wal) \in Nat
           /\ Cardinality(discarded) \in Nat /\ Cardinality(dropped) \in Nat
<1>1. IsFiniteSet(Slots)
  BY FS_Interval, QueueAssumption DEF Slots
<1>2. IsFiniteSet(FullSlots)
  BY <1>1, FS_Subset DEF FullSlots
<1>3. IsFiniteSet(pushing) /\ IsFiniteSet(discarded) /\ IsFiniteSet(dropped)
  BY DEF QueueInv, OneAtATime, Counted
<1> QED BY <1>2, <1>3, FS_CardinalityType, LenProperties DEF RecordsOK

LEMMA CountedKept ==
    ASSUME QueueInv, RecordsOK, OnceInv, [Next]_vars
    PROVE  Counted'
<1> USE DEF OnceInv
<1>1. /\ IsFiniteSet(FullSlots) /\ IsFiniteSet(pushing)
      /\ Cardinality(pushing) \in Nat /\ Cardinality(FullSlots) \in Nat
      /\ Len(batch) \in Nat /\ Len(wal_buffer) \in Nat /\ Len(wal) \in Nat
      /\ Cardinality(discarded) \in Nat /\ Cardinality(dropped) \in Nat
  BY PartTypes
<1>0. PICK nPush \in Nat, nSlot \in Nat, nBatch \in Nat, nBuffer \in Nat, nLog \in Nat,
           nAway \in Nat, nLost \in Nat :
             /\ nPush = Cardinality(pushing) /\ nSlot = Cardinality(FullSlots)
             /\ nBatch = Len(batch) /\ nBuffer = Len(wal_buffer) /\ nLog = Len(wal)
             /\ nAway = Cardinality(discarded) /\ nLost = Cardinality(dropped)
  BY <1>1
<1>2. /\ write_pos_ = Parts(nPush, nSlot, nBatch, nBuffer, nLog, nAway, nLost)
      /\ IsFiniteSet(discarded) /\ IsFiniteSet(dropped)
  BY <1>0, CountIs DEF Counted
<1>3. Count' = Parts(Cardinality(pushing'), Cardinality(FullSlots'), Len(batch'),
                     Len(wal_buffer'), Len(wal'), Cardinality(discarded'), Cardinality(dropped'))
  BY DEF Count, Parts, FullSlots
<1>4. ASSUME NEW t \in Producers, NEW type \in PersistType, Claims(t, type), UNCHANGED records
      PROVE  Counted'
  <2>1. PICK p : p = [pos |-> write_pos_, item |-> Handed(t, type)]
    OBVIOUS
  <2>2. /\ pushing' = pushing \cup {p} /\ p.pos = write_pos_ /\ UNCHANGED buffer_
        /\ write_pos_' = write_pos_ + 1
    BY <1>4, <2>1 DEF Claims, PushClaim
  <2>3. p \notin pushing
    BY <2>2 DEF QueueInv, OneAtATime, QueueTypeOK
  <2>4. Cardinality(pushing') = Cardinality(pushing) + 1 /\ FullSlots' = FullSlots
    BY <1>1, <2>2, <2>3, FS_AddElement DEF FullSlots
  <2>50. /\ Len(batch') = Len(batch)
           /\ Len(wal_buffer') = Len(wal_buffer)
           /\ Len(wal') = Len(wal)
           /\ Cardinality(discarded') = Cardinality(discarded)
           /\ Cardinality(dropped') = Cardinality(dropped)
    BY <1>4 DEF records
  <2>51. Count' = Parts(nPush + 1, nSlot, nBatch, nBuffer, nLog, nAway, nLost)
    BY <1>0, <1>3, <2>2, <2>4, <2>50
  <2>5. Count' = write_pos_'
    BY <1>2, <2>2, <2>4, <2>50, <2>51 DEF Parts
  <2> QED BY <1>2, <1>4, <2>5 DEF Counted, records
<1>5. ASSUME NEW p \in pushing, Stores(p), UNCHANGED records
      PROVE  Counted'
  <2>1. FullSlots' = FullSlots \cup {Index(p.pos)} /\ Index(p.pos) \notin FullSlots
    BY <1>5, StoreMoves
  <2>2. pushing' = pushing \ {p} /\ UNCHANGED write_pos_
    BY <1>5 DEF Stores, PushStore
  <2>3. /\ Cardinality(pushing') = Cardinality(pushing) - 1
        /\ Cardinality(FullSlots') = Cardinality(FullSlots) + 1
    BY <1>1, <2>1, <2>2, FS_AddElement, FS_RemoveElement
  <2>41. Count' = Parts(nPush - 1, nSlot + 1, nBatch, nBuffer, nLog, nAway, nLost)
    BY <1>0, <1>3, <1>5, <2>2, <2>3 DEF records
  <2>4. Count' = write_pos_'
    BY <1>2, <1>5, <2>2, <2>3, <2>41 DEF Parts
  <2> QED BY <1>2, <1>5, <2>4 DEF Counted, records
<1>6. ASSUME NEW c \in popping, NEW x \in Stored, Receives(c, x)
      PROVE  Counted'
  <2>1. x \in Item /\ Index(c.pos) \in FullSlots /\ FullSlots' = FullSlots \ {Index(c.pos)}
    BY <1>6, TakeSets DEF Receives
  <2>2. Cardinality(FullSlots') = Cardinality(FullSlots) - 1
    BY <1>1, <2>1, FS_RemoveElement
  <2>3. UNCHANGED <<pushing, write_pos_>>
    BY <1>6 DEF Receives, Takes, PopTake
  <2>4. CASE batch' = Append(batch, x) /\ UNCHANGED <<wal_buffer, wal, discarded, dropped>>
    <3>1. Len(batch') = Len(batch) + 1
      BY <2>1, <2>4, AppendProperties DEF RecordsOK
    <3>20. /\ Cardinality(pushing') = Cardinality(pushing)
             /\ Len(wal_buffer') = Len(wal_buffer)
             /\ Len(wal') = Len(wal)
             /\ Cardinality(discarded') = Cardinality(discarded)
             /\ Cardinality(dropped') = Cardinality(dropped)
      BY <2>3, <2>4
    <3>21. Count' = Parts(nPush, nSlot - 1, nBatch + 1, nBuffer, nLog, nAway, nLost)
      BY <1>0, <1>3, <2>2, <2>3, <3>1, <3>20
    <3>2. Count' = write_pos_'
      BY <1>2, <2>2, <2>3, <3>1, <3>20, <3>21 DEF Parts
    <3> QED BY <1>2, <2>4, <3>2 DEF Counted
  <2>5. CASE discarded' = discarded \cup {x} /\ UNCHANGED <<batch, wal_buffer, wal, dropped>>
    <3>1. x \notin discarded
      <4>1. Stored \cap discarded = {}
        BY WhereIs DEF HeldOnce, Apart, PlaceNames
      <4> QED BY <4>1
    <3>2. Cardinality(discarded') = Cardinality(discarded) + 1 /\ IsFiniteSet(discarded')
      BY <1>2, <2>5, <3>1, FS_AddElement
    <3>30. /\ Cardinality(pushing') = Cardinality(pushing)
             /\ Len(batch') = Len(batch)
             /\ Len(wal_buffer') = Len(wal_buffer)
             /\ Len(wal') = Len(wal)
             /\ Cardinality(dropped') = Cardinality(dropped)
      BY <2>3, <2>5
    <3>31. Count' = Parts(nPush, nSlot - 1, nBatch, nBuffer, nLog, nAway + 1, nLost)
      BY <1>0, <1>3, <2>2, <2>3, <3>2, <3>30
    <3>3. Count' = write_pos_'
      BY <1>2, <2>2, <2>3, <3>2, <3>30, <3>31 DEF Parts
    <3> QED BY <1>2, <2>5, <3>2, <3>3 DEF Counted
  <2> QED BY <1>6, <2>4, <2>5 DEF Receives
<1>7. ASSUME PersistItem, UNCHANGED <<queueVars, sent, discarded>>
      PROVE  Counted'
  <2>1. PICK h : h = Head(batch)
    OBVIOUS
  <2>2. batch # <<>> /\ batch' = Tail(batch) /\ batch \in Seq(Item) /\ wal_buffer \in Seq(Item)
    BY <1>7 DEF PersistItem, RecordsOK
  <2>3. h \in Item /\ Len(batch') = Len(batch) - 1
    BY <2>1, <2>2, HeadTailProperties
  <2>4. UNCHANGED <<pushing, buffer_, write_pos_, discarded>> /\ FullSlots' = FullSlots
    BY <1>7 DEF queueVars, FullSlots
  <2>5. CASE wal_buffer' = Append(wal_buffer, h) /\ UNCHANGED <<wal, dropped>>
    <3>1. Len(wal_buffer') = Len(wal_buffer) + 1
      BY <2>2, <2>3, <2>5, AppendProperties
    <3>20. /\ Cardinality(pushing') = Cardinality(pushing)
             /\ Cardinality(FullSlots') = Cardinality(FullSlots)
             /\ Len(wal') = Len(wal)
             /\ Cardinality(discarded') = Cardinality(discarded)
             /\ Cardinality(dropped') = Cardinality(dropped)
      BY <2>4, <2>5
    <3>21. Count' = Parts(nPush, nSlot, nBatch - 1, nBuffer + 1, nLog, nAway, nLost)
      BY <1>0, <1>3, <2>3, <2>4, <3>1, <3>20
    <3>2. Count' = write_pos_'
      BY <1>2, <2>3, <2>4, <3>1, <3>20, <3>21 DEF Parts
    <3> QED BY <1>2, <2>4, <2>5, <3>2 DEF Counted
  <2>6. CASE WriteToWAL(<<h>>) /\ UNCHANGED wal_buffer
    <3>1. <<h>> \in Seq(Item) /\ ToSet(<<h>>) = {h} /\ Len(<<h>>) = 1
      BY <2>3 DEF ToSet
    <3>2. CASE wal' = wal \o <<h>> /\ UNCHANGED dropped
      <4>1. Len(wal') = Len(wal) + 1
        BY <3>1, <3>2, ConcatProperties DEF RecordsOK
      <4>20. /\ Cardinality(pushing') = Cardinality(pushing)
               /\ Cardinality(FullSlots') = Cardinality(FullSlots)
               /\ Len(wal_buffer') = Len(wal_buffer)
               /\ Cardinality(discarded') = Cardinality(discarded)
               /\ Cardinality(dropped') = Cardinality(dropped)
        BY <2>4, <2>6, <3>2
      <4>21. Count' = Parts(nPush, nSlot, nBatch - 1, nBuffer, nLog + 1, nAway, nLost)
        BY <1>0, <1>3, <2>3, <2>4, <4>1, <4>20
      <4>2. Count' = write_pos_'
        BY <1>2, <2>3, <2>4, <4>1, <4>20, <4>21 DEF Parts
      <4> QED BY <1>2, <2>4, <3>2, <4>2 DEF Counted
    <3>3. CASE dropped' = dropped \cup {h} /\ UNCHANGED wal
      <4>1. h \notin dropped
        <5>1. ToSet(batch) \cap dropped = {}
          BY WhereIs DEF HeldOnce, Apart, PlaceNames
        <5>2. h \in ToSet(batch)
          BY <2>1, <2>2, SetOfTail DEF HeldOnce
        <5> QED BY <5>1, <5>2
      <4>2. Cardinality(dropped') = Cardinality(dropped) + 1 /\ IsFiniteSet(dropped')
        BY <1>2, <3>3, <4>1, FS_AddElement
      <4>30. /\ Cardinality(pushing') = Cardinality(pushing)
               /\ Cardinality(FullSlots') = Cardinality(FullSlots)
               /\ Len(wal_buffer') = Len(wal_buffer)
               /\ Len(wal') = Len(wal)
               /\ Cardinality(discarded') = Cardinality(discarded)
        BY <2>4, <2>6, <3>3
      <4>31. Count' = Parts(nPush, nSlot, nBatch - 1, nBuffer, nLog, nAway, nLost + 1)
        BY <1>0, <1>3, <2>3, <2>4, <4>2, <4>30
      <4>3. Count' = write_pos_'
        BY <1>2, <2>3, <2>4, <4>2, <4>30, <4>31 DEF Parts
      <4> QED BY <1>2, <2>4, <4>2, <4>3 DEF Counted
    <3> QED BY <2>6, <3>1, <3>2, <3>3, WriteSets
  <2> QED BY <1>7, <2>1, <2>5, <2>6 DEF PersistItem
<1>8. ASSUME PersistTrades, UNCHANGED <<queueVars, sent, discarded>>
      PROVE  Counted'
  <2>1. wal_buffer' = <<>> /\ UNCHANGED batch /\ WriteToWAL(wal_buffer) /\ wal_buffer \in Seq(Item)
    BY <1>8 DEF PersistTrades, RecordsOK
  <2>2. UNCHANGED <<pushing, buffer_, write_pos_, discarded>> /\ FullSlots' = FullSlots
    BY <1>8 DEF queueVars, FullSlots
  <2>3. Len(wal_buffer') = 0
    BY <2>1
  <2>4. CASE wal' = wal \o wal_buffer /\ UNCHANGED dropped
    <3>1. Len(wal') = Len(wal) + Len(wal_buffer)
      BY <2>1, <2>4, ConcatProperties DEF RecordsOK
    <3>21. Count' = Parts(nPush, nSlot, nBatch, 0, nLog + nBuffer, nAway, nLost)
      BY <1>0, <1>3, <2>1, <2>2, <2>3, <2>4, <3>1
    <3>2. Count' = write_pos_'
      BY <1>2, <2>1, <2>2, <2>3, <2>4, <3>1, <3>21 DEF Parts
    <3> QED BY <1>2, <2>2, <2>4, <3>2 DEF Counted
  <2>5. CASE dropped' = dropped \cup ToSet(wal_buffer) /\ UNCHANGED wal
    <3>1. dropped \cap ToSet(wal_buffer) = {}
      BY WhereIs DEF HeldOnce, Apart, PlaceNames
    <3>2. IsFiniteSet(ToSet(wal_buffer)) /\ Cardinality(ToSet(wal_buffer)) = Len(wal_buffer)
      BY <2>1, SetOfSequence DEF HeldOnce
    <3>3. /\ IsFiniteSet(dropped')
          /\ Cardinality(dropped') = Cardinality(dropped) + Len(wal_buffer) - Cardinality({})
      BY <1>2, <2>5, <3>1, <3>2, FS_Union
    <3>4. Cardinality({}) = 0
      BY FS_EmptySet
    <3>51. Count' = Parts(nPush, nSlot, nBatch, 0, nLog, nAway, nLost + nBuffer)
      BY <1>0, <1>3, <2>1, <2>2, <2>3, <2>5, <3>3, <3>4
    <3>5. Count' = write_pos_'
      BY <1>2, <2>1, <2>2, <2>3, <2>5, <3>3, <3>4, <3>51 DEF Parts
    <3> QED BY <1>2, <2>2, <3>3, <3>5 DEF Counted
  <2> QED BY <2>1, <2>4, <2>5, WriteSets
<1>9. ASSUME UNCHANGED <<buffer_, pushing, write_pos_>>, UNCHANGED records
      PROVE  Counted'
  BY <1>9 DEF Counted, Count, records
<1>10. ASSUME NEW b \in {"worker", "owner"}, Asks(b), UNCHANGED records
       PROVE  Counted'
  BY <1>9, <1>10 DEF Asks, PopClaim
<1>11. ASSUME UNCHANGED <<queueVars, sent>>, UNCHANGED records
       PROVE  Counted'
  BY <1>9, <1>11 DEF queueVars
<1> QED BY <1>4, <1>5, <1>6, <1>7, <1>8, <1>10, <1>11, ItemSteps

LEMMA OnceKept ==
    ASSUME QueueInv, RecordsOK, OnceInv, [Next]_vars
    PROVE  OnceInv'
  BY NumberedKept, CountedKept DEF OnceInv

LEMMA OnceHolds == QueueInv /\ OnceInv => ExactlyOnce
<1> SUFFICES ASSUME QueueInv, OnceInv PROVE ExactlyOnce
  OBVIOUS
<1>1. {<<x.by, x.n>> : x \in Places} = UNION {{t} \X (1 .. sent[t]) : t \in Producers}
  <2>1. \A x \in Places : <<x.by, x.n>> \in {x.by} \X (1 .. sent[x.by]) /\ x.by \in Producers
    BY DEF OnceInv, Numbered
  <2>2. ASSUME NEW t \in Producers, NEW n \in 1 .. sent[t]
        PROVE  <<t, n>> \in {<<x.by, x.n>> : x \in Places}
    BY DEF OnceInv, Numbered
  <2> QED BY <2>1, <2>2
<1>2. Count = SumFunctionOnSet(sent, Producers)
  BY DEF OnceInv, Counted, QueueInv, SentCounted
<1> QED BY <1>1, <1>2 DEF ExactlyOnce

-----------------------------------------------------------------------------
(* The order of one producer's items *)

InHand == ToSet(batch) \cup ToSet(wal_buffer) \cup ToSet(wal)
Before(x, y) == x.by = y.by /\ x.n < y.n

\* The slots keep the order of each producer, and its push in flight comes after them;
\* only an item the owner waits for can be overtaken by what the worker took out.
SlotOrder ==
    \A i, j \in FullSlots : Before(buffer_[i], buffer_[j]) => PopTurn(i) < PopTurn(j)
PushOrder ==
    \A i \in FullSlots, p \in pushing : buffer_[i].by = p.item.by => PopTurn(i) < p.pos
OwnerWaits(i) == \E c \in popping : c.by = "owner" /\ Index(c.pos) = i
TakenOrder ==
    \A i \in FullSlots, y \in InHand : Before(buffer_[i], y) => OwnerWaits(i)

QueueOrder == ~lapped => SlotOrder /\ PushOrder /\ TakenOrder

LEMMA TypesOfSlots ==
    ASSUME QueueInv
    PROVE  \A i \in FullSlots : buffer_[i] \in Item /\ buffer_[i] \in Stored
  BY DEF QueueInv, QueueTypeOK, FullSlots, Stored

LEMMA PlacesTyped ==
    ASSUME QueueInv, RecordsOK
    PROVE  /\ \A x \in InHand : x \in Item /\ x \in Places
           /\ \A x \in Stored : x \in Item /\ x \in Places
           /\ \A p \in pushing : p.item \in Item /\ p.item \in Places /\ p.item \in InPush
<1>1. \A x \in InHand : x \in Item
  BY SetOfSequence DEF InHand, RecordsOK
<1>2. \A p \in pushing : p.item \in Item
  BY DEF QueueInv, QueueTypeOK, Spin
<1> QED BY <1>1, <1>2, StoredItems DEF InHand, Places, InPush

\* A push in flight is the last its producer has made.
LEMMA PushLast ==
    ASSUME QueueInv, RecordsOK, OnceInv, NEW p \in pushing,
           NEW x \in Stored \cup InHand, x.by = p.item.by
    PROVE  x.n < p.item.n
<1>1. x \in Item /\ x \in Places /\ p.item \in Item /\ p.item \in Places
  BY PlacesTyped
<1>2. x.n \in 1 .. sent[x.by] /\ p.item.n = sent[p.item.by]
  BY <1>1 DEF OnceInv, Numbered, QueueInv, OneAtATime
<1>3. x # p.item
  <2>1. /\ InPush \cap Stored = {} /\ InPush \cap ToSet(batch) = {}
        /\ InPush \cap ToSet(wal_buffer) = {} /\ InPush \cap ToSet(wal) = {}
    BY WhereIs DEF OnceInv, HeldOnce, Apart, PlaceNames
  <2>2. p.item \in InPush
    BY DEF InPush
  <2> QED BY <2>1, <2>2 DEF InHand
<1>4. x.n # p.item.n
  BY <1>1, <1>3 DEF OnceInv, Numbered
<1>5. x.n \in Nat /\ p.item.n \in Nat
  BY <1>1 DEF Item
<1> QED BY <1>2, <1>4, <1>5

\* What the worker takes comes after all it has in hand of the same producer.
LEMMA TakenLast ==
    ASSUME QueueInv, RecordsOK, OnceInv, QueueOrder,
           NEW c \in popping, NEW x \in Stored, Takes(c, x), ~lapped', c.by = "worker",
           NEW y \in InHand, y.by = x.by
    PROVE  y.n < x.n
<1>1. PICK s : s = Index(c.pos)
  OBVIOUS
<1>2. x = buffer_[s] /\ x # NoItem /\ s \in Slots /\ ~lapped
  BY <1>1, TakeTurns DEF Takes, PopTake
<1>3. x \in Item /\ x \in Places /\ y \in Item /\ y \in Places
  BY PlacesTyped
<1>4. y # x
  <2>1. /\ Stored \cap ToSet(batch) = {}
        /\ Stored \cap ToSet(wal_buffer) = {} /\ Stored \cap ToSet(wal) = {}
    BY WhereIs DEF OnceInv, HeldOnce, Apart, PlaceNames
  <2> QED BY <2>1 DEF InHand
<1>5. y.n # x.n
  BY <1>3, <1>4 DEF OnceInv, Numbered
<1>6. ASSUME Before(x, y)
      PROVE  FALSE
  <2>1. s \in FullSlots
    BY <1>2 DEF FullSlots
  <2>2. PICK d \in popping : d.by = "owner" /\ Index(d.pos) = s
    BY <1>2, <1>6, <2>1 DEF QueueOrder, TakenOrder, OwnerWaits
  <2>3. d = c
    BY <1>1, <2>2, TakeTurns
  <2> QED BY <2>2, <2>3
<1>7. x.n \in Nat /\ y.n \in Nat
  BY <1>3 DEF Item
<1> QED BY <1>5, <1>6, <1>7 DEF Before

LEMMA ClaimOrder ==
    ASSUME QueueInv, QueueOrder,
           NEW t \in Producers, NEW type \in PersistType, Claims(t, type), UNCHANGED records
    PROVE  QueueOrder'
<1> SUFFICES ASSUME ~lapped'
             PROVE  (SlotOrder /\ PushOrder /\ TakenOrder)'
  BY DEF QueueOrder
<1>1. PICK p : p = [pos |-> write_pos_, item |-> Handed(t, type)]
  OBVIOUS
<1>2. /\ pushing' = pushing \cup {p} /\ p.pos = write_pos_
      /\ UNCHANGED <<buffer_, read_pos_, popping>> /\ ~lapped
  BY <1>1 DEF Claims, PushClaim
<1>3. FullSlots' = FullSlots /\ InHand' = InHand
  BY <1>2 DEF FullSlots, InHand, records
<1>4. \A i \in Slots : PopTurn(i)' = PopTurn(i)
  BY <1>2 DEF PopTurn, PopsAt
<1>5. SlotOrder /\ PushOrder /\ TakenOrder
  BY <1>2 DEF QueueOrder
<1>6. FullSlots \subseteq Slots
  BY DEF FullSlots
<1>7. SlotOrder'
  BY <1>2, <1>3, <1>4, <1>5, <1>6 DEF SlotOrder, Before
<1>8. TakenOrder'
  BY <1>2, <1>3, <1>5 DEF TakenOrder, Before, OwnerWaits
<1>9. ASSUME NEW i \in FullSlots
      PROVE  PopTurn(i) < write_pos_
  <2>1. i \in Slots /\ buffer_[i] # NoItem
    BY DEF FullSlots
  <2>2. Spread(PushesAt, write_pos_) /\ Spread(PopsAt, read_pos_)
    BY <1>2 DEF QueueInv, TurnsTaken
  <2>3. PushTurn(i) = PopTurn(i) + Capacity
    BY <1>2, <2>1 DEF QueueInv, TurnsTaken
  <2>4. write_pos_ \in Nat /\ read_pos_ \in Nat
    BY DEF QueueInv, QueueTypeOK
  <2>5. PushTurn(i) < write_pos_ + Capacity
    BY <2>1, <2>2, <2>4, TurnIs DEF PushTurn
  <2>6. PopTurn(i) \in Nat
    BY <2>1, <2>2, <2>4, TurnIs DEF PopTurn
  <2> QED BY <2>3, <2>4, <2>5, <2>6, QueueAssumption
<1>10. PushOrder'
  BY <1>2, <1>3, <1>4, <1>5, <1>6, <1>9 DEF PushOrder
<1> QED BY <1>7, <1>8, <1>10

LEMMA StoreOrder ==
    ASSUME QueueInv, RecordsOK, OnceInv, QueueOrder, NEW p \in pushing, Stores(p), UNCHANGED records
    PROVE  QueueOrder'
<1> SUFFICES ASSUME ~lapped'
             PROVE  (SlotOrder /\ PushOrder /\ TakenOrder)'
  BY DEF QueueOrder
<1>1. PICK s : s = Index(p.pos)
  OBVIOUS
<1>2. /\ pushing' = pushing \ {p} /\ buffer_' = [buffer_ EXCEPT ![s] = p.item]
      /\ buffer_[s] = NoItem /\ UNCHANGED <<read_pos_, popping>> /\ ~lapped
  BY <1>1 DEF Stores, PushStore, Store
<1>3. FullSlots' = FullSlots \cup {s} /\ s \in Slots \ FullSlots
  BY <1>1, StoreMoves DEF OnceInv
<1>4. InHand' = InHand
  BY DEF InHand, records
<1>5. \A i \in Slots : PopTurn(i)' = PopTurn(i)
  BY <1>2 DEF PopTurn, PopsAt
<1>6. SlotOrder /\ PushOrder /\ TakenOrder
  BY <1>2 DEF QueueOrder
<1>7. FullSlots \subseteq Slots
  BY DEF FullSlots
<1>8. PopTurn(s) = p.pos
  <2>1. Spread(PushesAt, write_pos_) /\ p.pos \in PushesAt
    BY <1>2 DEF QueueInv, TurnsTaken, PushesAt
  <2>2. write_pos_ \in Nat
    BY DEF QueueInv, QueueTypeOK
  <2>3. PushTurn(s) = p.pos
    BY <1>1, <2>1, <2>2, TurnDone DEF PushTurn
  <2>4. PushTurn(s) = PopTurn(s)
    BY <1>2, <1>3 DEF QueueInv, TurnsTaken
  <2> QED BY <2>3, <2>4
<1>9. /\ buffer_'[s] = p.item
      /\ \A i \in FullSlots : buffer_'[i] = buffer_[i] /\ i # s
  BY <1>2, <1>3, <1>7 DEF QueueInv, QueueTypeOK
<1>10. \A i \in FullSlots, q \in pushing' : buffer_[i].by = q.item.by => PopTurn(i) < q.pos
  BY <1>2, <1>6 DEF PushOrder
<1>11. \A x \in Stored \cup InHand : ~Before(p.item, x)
  <2>1. ASSUME NEW x \in Stored \cup InHand, Before(p.item, x)
        PROVE  FALSE
    <3>1. x.n < p.item.n
      BY <2>1, PushLast DEF Before
    <3>2. x.n \in Nat /\ p.item.n \in Nat
      BY PlacesTyped DEF Item
    <3> QED BY <2>1, <3>1, <3>2 DEF Before
  <2> QED BY <2>1
<1>12. \A i \in FullSlots : buffer_[i] \in Stored
  BY TypesOfSlots
<1>13. ~Before(p.item, p.item)
  <2>1. p.item.n \in Nat
    BY PlacesTyped DEF Item
  <2> QED BY <2>1 DEF Before
<1>14. SlotOrder'
  <2>1. \A i \in FullSlots : Before(buffer_[i], p.item) => PopTurn(i) < p.pos
    BY <1>6 DEF PushOrder, Before
  <2>2. \A i, j \in FullSlots' :
          Before(buffer_'[i], buffer_'[j]) => PopTurn(i) < PopTurn(j)
    BY <1>3, <1>6, <1>8, <1>9, <1>11, <1>12, <1>13, <2>1 DEF SlotOrder
  <2> QED BY <1>3, <1>5, <1>7, <2>2 DEF SlotOrder, Before
<1>15. PushOrder'
  <2>1. \A q \in pushing' : p.item.by # q.item.by
    BY <1>2 DEF QueueInv, OneAtATime
  <2>2. \A i \in FullSlots', q \in pushing' : buffer_'[i].by = q.item.by => PopTurn(i) < q.pos
    BY <1>3, <1>9, <1>10, <2>1
  <2> QED BY <1>3, <1>5, <1>7, <2>2 DEF PushOrder
<1>16. TakenOrder'
  <2>1. \A i \in FullSlots', y \in InHand : Before(buffer_'[i], y) => OwnerWaits(i)
    BY <1>3, <1>6, <1>9, <1>11 DEF TakenOrder
  <2> QED BY <1>2, <1>4, <2>1 DEF TakenOrder, Before, OwnerWaits
<1> QED BY <1>14, <1>15, <1>16

LEMMA AskOrder ==
    ASSUME QueueInv, QueueOrder, NEW b \in {"worker", "owner"}, Asks(b), UNCHANGED records
    PROVE  QueueOrder'
<1> SUFFICES ASSUME ~lapped'
             PROVE  (SlotOrder /\ PushOrder /\ TakenOrder)'
  BY DEF QueueOrder
<1>1. UNCHANGED <<buffer_, pushing>> /\ popping \subseteq popping'
  BY DEF Asks, PopClaim
<1>2. ~lapped /\ \A i \in Slots : PopTurn(i)' = PopTurn(i)
  BY AskTurns
<1>3. FullSlots' = FullSlots /\ InHand' = InHand /\ FullSlots \subseteq Slots
  BY <1>1 DEF FullSlots, InHand, records
<1>4. SlotOrder /\ PushOrder /\ TakenOrder
  BY <1>2 DEF QueueOrder
<1>5. SlotOrder'
  BY <1>1, <1>2, <1>3, <1>4 DEF SlotOrder, Before
<1>6. PushOrder'
  BY <1>1, <1>2, <1>3, <1>4 DEF PushOrder
<1>7. TakenOrder'
  BY <1>1, <1>3, <1>4 DEF TakenOrder, Before, OwnerWaits
<1> QED BY <1>5, <1>6, <1>7

LEMMA TakeOrder ==
    ASSUME QueueInv, RecordsOK, OnceInv, QueueOrder,
           NEW c \in popping, NEW x \in Stored, Receives(c, x)
    PROVE  QueueOrder'
<1> SUFFICES ASSUME ~lapped'
             PROVE  (SlotOrder /\ PushOrder /\ TakenOrder)'
  BY DEF QueueOrder
<1>1. PICK s : s = Index(c.pos)
  OBVIOUS
<1>2. /\ buffer_' = [buffer_ EXCEPT ![s] = NoItem] /\ x = buffer_[s] /\ x # NoItem
      /\ popping' = popping \ {c} /\ UNCHANGED <<pushing, read_pos_>>
  BY <1>1 DEF Receives, Takes, PopTake
<1>3. /\ ~lapped /\ s \in Slots /\ PopTurn(s) = c.pos
      /\ \A i \in Slots \ {s} : PopTurn(i)' = PopTurn(i)
      /\ \A d \in popping : Index(d.pos) = s => d = c
  BY <1>1, TakeTurns DEF Receives
<1>4. FullSlots' = FullSlots \ {s} /\ FullSlots \subseteq Slots /\ s \in FullSlots
  BY <1>1, TakeSets DEF OnceInv, Receives, FullSlots
<1>5. \A i \in FullSlots' : buffer_'[i] = buffer_[i]
  BY <1>2, <1>4 DEF QueueInv, QueueTypeOK
<1>6. SlotOrder /\ PushOrder /\ TakenOrder
  BY <1>3 DEF QueueOrder
<1>7. SlotOrder'
  BY <1>3, <1>4, <1>5, <1>6 DEF SlotOrder, Before
<1>8. PushOrder'
  BY <1>2, <1>3, <1>4, <1>5, <1>6 DEF PushOrder
<1>9. \A i \in FullSlots' : OwnerWaits(i) => OwnerWaits(i)'
  BY <1>1, <1>2, <1>4 DEF OwnerWaits
<1>10. CASE c.by = "owner" /\ UNCHANGED <<batch, wal_buffer, wal>>
  <2>1. InHand' = InHand
    BY <1>10 DEF InHand
  <2> QED BY <1>4, <1>5, <1>6, <1>7, <1>8, <1>9, <2>1 DEF TakenOrder, Before
<1>11. CASE c.by = "worker" /\ batch' = Append(batch, x) /\ UNCHANGED <<wal_buffer, wal>>
  <2>1. InHand' = InHand \cup {x}
    BY <1>11, SetOfAppend, StoredItems DEF InHand, RecordsOK
  <2>2. ASSUME NEW i \in FullSlots', Before(buffer_[i], x)
        PROVE  OwnerWaits(i)
    <3>1. i \in Slots /\ i \in FullSlots
      BY <1>4
    <3>2. PopTurn(i) < PopTurn(s)
      BY <1>2, <1>4, <1>6, <2>2, <3>1 DEF SlotOrder
    <3>3. Spread(PopsAt, read_pos_) /\ read_pos_ \in Nat /\ c.pos \in Nat /\ c.pos < read_pos_
      BY <1>3 DEF QueueInv, TurnsTaken, QueueTypeOK, OneAtATime
    <3>4. /\ IsTurn(PopsAt, read_pos_, i, PopTurn(i)) /\ PopTurn(i) \in Nat
          /\ PopTurn(i) < read_pos_ <=> PopTurn(i) \in PopsAt
      BY <3>1, <3>3, TurnIs DEF PopTurn
    <3>5. PopTurn(i) < read_pos_
      BY <1>3, <3>2, <3>3, <3>4
    <3>6. PICK d \in popping : d.pos = PopTurn(i)
      BY <3>4, <3>5 DEF PopsAt
    <3>7. Index(d.pos) = i
      BY <3>4, <3>6 DEF IsTurn
    <3>8. d # c
      BY <1>1, <1>4, <3>7
    <3>9. d.by \in {"worker", "owner"} /\ d.by # c.by
      BY <3>8 DEF QueueInv, QueueTypeOK, OneAtATime
    <3> QED BY <1>11, <3>7, <3>9 DEF OwnerWaits
  <2> QED BY <1>4, <1>5, <1>6, <1>7, <1>8, <1>9, <2>1, <2>2 DEF TakenOrder, Before
<1> QED BY <1>10, <1>11 DEF Receives

\* The items in hand, in the order the log is to have.
Rising(s) == \A i, j \in DOMAIN s : i < j /\ s[i].by = s[j].by => s[i].n < s[j].n
AllBefore(S, T) == \A x \in S, y \in T : x.by = y.by => x.n < y.n

HandOrder ==
    ~lapped =>
        /\ Rising(batch) /\ Rising(wal_buffer)
        /\ AllBefore(ToSet(wal_buffer), ToSet(batch))
        /\ AllBefore(ToSet(wal), ToSet(batch))
        /\ \A x \in ToSet(wal), y \in ToSet(wal_buffer) :
              x.by = y.by /\ x.n > y.n => IsOrder(x)

TradesWait == \A x \in ToSet(wal_buffer) : IsTrade(x)

OrderInv == QueueOrder /\ HandOrder /\ TradesWait /\ WalOrder

LEMMA InSet ==
    ASSUME NEW S, NEW s \in Seq(S), NEW x \in ToSet(s)
    PROVE  x \in S /\ \E i \in 1 .. Len(s) : x = s[i]
  BY LenProperties DEF ToSet

LEMMA RisingAppend ==
    ASSUME NEW s \in Seq(Item), NEW x \in Item, Rising(s), AllBefore(ToSet(s), {x})
    PROVE  Rising(Append(s, x))
<1>1. /\ Append(s, x) \in Seq(Item) /\ Len(Append(s, x)) = Len(s) + 1
      /\ \A i \in 1 .. Len(s) : Append(s, x)[i] = s[i]
      /\ Append(s, x)[Len(s) + 1] = x
  BY AppendProperties
<1>2. /\ DOMAIN s = 1 .. Len(s) /\ DOMAIN Append(s, x) = 1 .. Len(s) + 1 /\ Len(s) \in Nat
  BY <1>1, LenProperties
<1>3. \A i \in 1 .. Len(s) : s[i] \in ToSet(s)
  BY <1>2 DEF ToSet
<1>4. ASSUME NEW i \in 1 .. Len(s) + 1, NEW j \in 1 .. Len(s) + 1, i < j,
             Append(s, x)[i].by = Append(s, x)[j].by
      PROVE  Append(s, x)[i].n < Append(s, x)[j].n
  <2>1. i \in 1 .. Len(s)
    BY <1>2, <1>4
  <2>2. CASE j = Len(s) + 1
    BY <1>1, <1>3, <1>4, <2>1, <2>2 DEF AllBefore
  <2>3. CASE j # Len(s) + 1
    <3>1. j \in 1 .. Len(s)
      BY <1>2, <2>3
    <3> QED BY <1>1, <1>2, <1>4, <2>1, <3>1 DEF Rising
  <2> QED BY <2>2, <2>3
<1> QED BY <1>2, <1>4 DEF Rising

LEMMA RisingTail ==
    ASSUME NEW s \in Seq(Item), s # <<>>, Rising(s)
    PROVE  Rising(Tail(s)) /\ AllBefore({Head(s)}, ToSet(Tail(s)))
<1>1. /\ Head(s) = s[1] /\ Tail(s) \in Seq(Item) /\ Len(Tail(s)) = Len(s) - 1
      /\ \A i \in 1 .. Len(s) - 1 : Tail(s)[i] = s[i + 1]
  BY HeadTailProperties
<1>2. DOMAIN s = 1 .. Len(s) /\ DOMAIN Tail(s) = 1 .. Len(s) - 1 /\ Len(s) \in Nat /\ Len(s) > 0
  BY <1>1, LenProperties, EmptySeq
<1>3. Rising(Tail(s))
  <2>1. ASSUME NEW i \in 1 .. Len(s) - 1, NEW j \in 1 .. Len(s) - 1, i < j,
               Tail(s)[i].by = Tail(s)[j].by
        PROVE  Tail(s)[i].n < Tail(s)[j].n
    <3>1. i + 1 \in 1 .. Len(s) /\ j + 1 \in 1 .. Len(s) /\ i + 1 < j + 1
      BY <1>2, <2>1
    <3> QED BY <1>1, <1>2, <2>1, <3>1 DEF Rising
  <2> QED BY <1>2, <2>1 DEF Rising
<1>4. ASSUME NEW y \in ToSet(Tail(s)), Head(s).by = y.by
      PROVE  Head(s).n < y.n
  <2>1. PICK i \in 1 .. Len(s) - 1 : y = s[i + 1]
    BY <1>1, <1>2 DEF ToSet
  <2>2. 1 \in 1 .. Len(s) /\ i + 1 \in 1 .. Len(s) /\ 1 < i + 1
    BY <1>2
  <2> QED BY <1>1, <1>2, <1>4, <2>1, <2>2 DEF Rising
<1> QED BY <1>3, <1>4 DEF AllBefore

\* What the order of a log needs when items are written behind it.
Ordered(s) ==
    \A i, j \in 1 .. Len(s) :
        i < j /\ s[i].by = s[j].by /\ s[i].n > s[j].n => IsOrder(s[i]) /\ IsTrade(s[j])

LEMMA OrderedConcat ==
    ASSUME NEW s \in Seq(Item), NEW t \in Seq(Item), Ordered(s), Rising(t),
           \A x \in ToSet(s), y \in ToSet(t) :
              x.by = y.by /\ x.n > y.n => IsOrder(x) /\ IsTrade(y)
    PROVE  Ordered(s \o t)
<1>1. /\ Len(s \o t) = Len(s) + Len(t) /\ Len(s) \in Nat /\ Len(t) \in Nat
      /\ \A i \in 1 .. Len(s) : (s \o t)[i] = s[i]
      /\ \A i \in 1 .. Len(t) : (s \o t)[Len(s) + i] = t[i]
  BY ConcatProperties, LenProperties
<1>2. DOMAIN s = 1 .. Len(s) /\ DOMAIN t = 1 .. Len(t)
  BY LenProperties
<1>3. /\ \A i \in 1 .. Len(s) : s[i] \in ToSet(s)
      /\ \A i \in 1 .. Len(t) : t[i] \in ToSet(t)
  BY <1>2 DEF ToSet
<1>4. \A i \in 1 .. Len(t) : t[i].n \in Nat
  <2>1. \A i \in 1 .. Len(t) : t[i] \in Item
    BY <1>2
  <2>2. \A x \in Item : x.n \in Nat
    BY DEF Item
  <2> QED BY <2>1, <2>2
<1>5. ASSUME NEW i \in 1 .. Len(s) + Len(t), NEW j \in 1 .. Len(s) + Len(t), i < j,
             (s \o t)[i].by = (s \o t)[j].by, (s \o t)[i].n > (s \o t)[j].n
      PROVE  IsOrder((s \o t)[i]) /\ IsTrade((s \o t)[j])
  <2>1. CASE j <= Len(s)
    <3>1. i \in 1 .. Len(s) /\ j \in 1 .. Len(s)
      BY <1>1, <1>5, <2>1
    <3> QED BY <1>1, <1>5, <3>1 DEF Ordered
  <2>2. CASE i <= Len(s) /\ j > Len(s)
    <3>1. PICK k \in 1 .. Len(t) : j = Len(s) + k
      <4>1. j - Len(s) \in 1 .. Len(t) /\ j = Len(s) + (j - Len(s))
        BY <1>1, <2>2
      <4> QED BY <4>1
    <3>2. i \in 1 .. Len(s)
      BY <1>1, <2>2
    <3>3. (s \o t)[i] = s[i] /\ (s \o t)[j] = t[k] /\ s[i] \in ToSet(s) /\ t[k] \in ToSet(t)
      BY <1>1, <1>3, <3>1, <3>2
    <3> QED BY <1>5, <3>3
  <2>3. CASE i > Len(s)
    <3>1. PICK k \in 1 .. Len(t), l \in 1 .. Len(t) : i = Len(s) + k /\ j = Len(s) + l /\ k < l
      <4>1. /\ i - Len(s) \in 1 .. Len(t) /\ i = Len(s) + (i - Len(s))
            /\ j - Len(s) \in 1 .. Len(t) /\ j = Len(s) + (j - Len(s))
            /\ i - Len(s) < j - Len(s)
        BY <1>1, <1>5, <2>3
      <4> QED BY <4>1
    <3>2. (s \o t)[i] = t[k] /\ (s \o t)[j] = t[l]
      BY <1>1, <3>1
    <3>3. t[k].n < t[l].n
      BY <1>2, <1>5, <3>1, <3>2 DEF Rising
    <3> QED BY <1>4, <1>5, <3>2, <3>3
  <2> QED BY <1>1, <2>1, <2>2, <2>3
<1> QED BY <1>1, <1>5 DEF Ordered

LEMMA OrderedLog ==
    ASSUME RecordsOK
    PROVE  ~lapped => (WalOrder <=> Ordered(wal))
  BY DEF WalOrder, Ordered

LEMMA TakeHand ==
    ASSUME QueueInv, RecordsOK, OnceInv, OrderInv,
           NEW c \in popping, NEW x \in Stored, Receives(c, x)
    PROVE  HandOrder' /\ TradesWait' /\ WalOrder'
<1>1. x \in Item /\ UNCHANGED <<wal_buffer, wal, lapped>>
  BY PlacesTyped DEF Receives, Takes, PopTake
<1>2. TradesWait' /\ WalOrder'
  BY <1>1 DEF OrderInv, TradesWait, WalOrder
<1>3. ASSUME ~lapped'
      PROVE  HandOrder'
  <2>1. /\ Rising(batch) /\ Rising(wal_buffer)
        /\ AllBefore(ToSet(wal_buffer), ToSet(batch)) /\ AllBefore(ToSet(wal), ToSet(batch))
        /\ \A y \in ToSet(wal), z \in ToSet(wal_buffer) : y.by = z.by /\ y.n > z.n => IsOrder(y)
    BY <1>1, <1>3 DEF OrderInv, HandOrder
  <2>2. CASE UNCHANGED batch
    BY <1>1, <2>1, <2>2 DEF HandOrder
  <2>3. CASE c.by = "worker" /\ batch' = Append(batch, x)
    <3>1. AllBefore(InHand, {x})
      BY <1>3, <2>3, TakenLast DEF AllBefore, OrderInv, Receives
    <3>2. /\ AllBefore(ToSet(batch), {x}) /\ AllBefore(ToSet(wal_buffer), {x})
          /\ AllBefore(ToSet(wal), {x})
      BY <3>1 DEF AllBefore, InHand
    <3>3. Rising(batch') /\ ToSet(batch') = ToSet(batch) \cup {x}
      BY <1>1, <2>1, <2>3, <3>2, RisingAppend, SetOfAppend DEF RecordsOK
    <3>4. /\ AllBefore(ToSet(wal_buffer), ToSet(batch) \cup {x})
          /\ AllBefore(ToSet(wal), ToSet(batch) \cup {x})
      BY <2>1, <3>2 DEF AllBefore
    <3> QED BY <1>1, <2>1, <3>3, <3>4 DEF HandOrder
  <2> QED BY <2>2, <2>3 DEF Receives
<1>4. lapped' => HandOrder'
  BY DEF HandOrder
<1> QED BY <1>2, <1>3, <1>4

LEMMA ItemHand ==
    ASSUME RecordsOK, OnceInv, OrderInv, PersistItem, UNCHANGED <<queueVars, sent, discarded>>
    PROVE  HandOrder' /\ TradesWait' /\ WalOrder' /\ InHand' \subseteq InHand
<1>1. PICK h : h = Head(batch)
  OBVIOUS
<1>2. /\ batch # <<>> /\ batch' = Tail(batch) /\ UNCHANGED lapped
      /\ batch \in Seq(Item) /\ wal_buffer \in Seq(Item) /\ wal \in Seq(Item)
  BY DEF PersistItem, RecordsOK, queueVars
<1>3. h \in Item /\ h \in ToSet(batch) /\ ToSet(batch') \subseteq ToSet(batch)
  BY <1>1, <1>2, SetOfTail, SetOfSequence DEF OnceInv, HeldOnce
<1>4. /\ <<h>> \in Seq(Item) /\ ToSet(<<h>>) = {h}
  BY <1>3 DEF ToSet
<1>5. \/ IsTrade(h) /\ wal_buffer' = Append(wal_buffer, h) /\ UNCHANGED wal
      \/ IsOrder(h) /\ UNCHANGED wal_buffer /\ wal' = wal \o <<h>>
      \/ UNCHANGED <<wal_buffer, wal>>
  BY <1>1, <1>2, <1>4, WriteSets DEF PersistItem
<1>6. /\ Append(wal_buffer, h) \in Seq(Item) /\ ToSet(Append(wal_buffer, h)) = ToSet(wal_buffer) \cup {h}
      /\ ToSet(wal \o <<h>>) = ToSet(wal) \cup {h}
  <2>1. ToSet(wal \o <<h>>) = ToSet(wal) \cup ToSet(<<h>>)
    <3>1. PICK t \in Seq(Item) : t = <<h>>
      BY <1>4
    <3>2. ToSet(wal \o t) = ToSet(wal) \cup ToSet(t)
      BY <1>2, SetOfConcat
    <3> QED BY <3>1, <3>2
  <2> QED BY <1>2, <1>3, <1>4, <2>1, SetOfAppend, AppendProperties
<1>7. InHand' \subseteq InHand
  <2>1. /\ ToSet(wal_buffer') \subseteq ToSet(wal_buffer) \cup ToSet(batch)
        /\ ToSet(wal') \subseteq ToSet(wal) \cup ToSet(batch)
    BY <1>3, <1>5, <1>6
  <2> QED BY <1>3, <2>1 DEF InHand
<1>8. TradesWait'
  BY <1>3, <1>5, <1>6 DEF OrderInv, TradesWait
<1>9. ASSUME ~lapped'
      PROVE  HandOrder' /\ WalOrder'
  <2>1. /\ Rising(batch) /\ Rising(wal_buffer)
        /\ AllBefore(ToSet(wal_buffer), ToSet(batch)) /\ AllBefore(ToSet(wal), ToSet(batch))
        /\ \A y \in ToSet(wal), z \in ToSet(wal_buffer) : y.by = z.by /\ y.n > z.n => IsOrder(y)
    BY <1>2, <1>9 DEF OrderInv, HandOrder
  <2>2. Rising(batch') /\ AllBefore({h}, ToSet(batch'))
    BY <1>1, <1>2, <2>1, RisingTail
  <2>3. /\ AllBefore(ToSet(wal_buffer), ToSet(batch')) /\ AllBefore(ToSet(wal), ToSet(batch'))
        /\ AllBefore(ToSet(wal_buffer), {h}) /\ AllBefore(ToSet(wal), {h})
    BY <1>3, <2>1 DEF AllBefore
  <2>4. Ordered(wal)
    BY <1>2, <1>9, OrderedLog DEF OrderInv
  <2>5. CASE IsTrade(h) /\ wal_buffer' = Append(wal_buffer, h) /\ UNCHANGED wal
    <3>1. Rising(wal_buffer')
      BY <1>2, <1>3, <2>1, <2>3, <2>5, RisingAppend
    <3>2. AllBefore(ToSet(wal_buffer'), ToSet(batch'))
      BY <1>6, <2>2, <2>3, <2>5 DEF AllBefore
    <3>3. \A y \in ToSet(wal) : ~(y.by = h.by /\ y.n > h.n)
      <4>1. \A y \in ToSet(wal) : y.n \in Nat
        <5>1. ToSet(wal) \subseteq Item
          BY <1>2, SetOfSequence
        <5> QED BY <5>1 DEF Item
      <4>2. h.n \in Nat
        BY <1>3 DEF Item
      <4> QED BY <2>3, <4>1, <4>2 DEF AllBefore
    <3>4. \A y \in ToSet(wal'), z \in ToSet(wal_buffer') :
             y.by = z.by /\ y.n > z.n => IsOrder(y)
      BY <1>6, <2>1, <2>5, <3>3
    <3>5. HandOrder'
      BY <2>2, <2>3, <2>5, <3>1, <3>2, <3>4 DEF HandOrder
    <3>6. WalOrder'
      BY <1>2, <2>5 DEF OrderInv, WalOrder
    <3> QED BY <3>5, <3>6
  <2>6. CASE IsOrder(h) /\ UNCHANGED wal_buffer /\ wal' = wal \o <<h>>
    <3>1. AllBefore(ToSet(wal'), ToSet(batch'))
      BY <1>6, <2>2, <2>3, <2>6 DEF AllBefore
    <3>2. \A y \in ToSet(wal'), z \in ToSet(wal_buffer') :
             y.by = z.by /\ y.n > z.n => IsOrder(y)
      BY <1>6, <2>1, <2>6
    <3>3. HandOrder'
      BY <2>1, <2>2, <2>3, <2>6, <3>1, <3>2 DEF HandOrder
    <3>4. \A y \in ToSet(wal), z \in ToSet(<<h>>) :
             y.by = z.by /\ y.n > z.n => IsOrder(y) /\ IsTrade(z)
      <4>1. \A y \in ToSet(wal) : y.n \in Nat
        <5>1. ToSet(wal) \subseteq Item
          BY <1>2, SetOfSequence
        <5> QED BY <5>1 DEF Item
      <4>2. h.n \in Nat
        BY <1>3 DEF Item
      <4> QED BY <1>4, <2>3, <4>1, <4>2 DEF AllBefore
    <3>5. Rising(<<h>>)
      BY <1>4 DEF Rising
    <3>6. Ordered(wal')
      BY <1>2, <1>4, <2>4, <2>6, <3>4, <3>5, OrderedConcat
    <3>7. WalOrder'
      BY <3>6 DEF WalOrder, Ordered
    <3> QED BY <3>3, <3>7
  <2>7. CASE UNCHANGED <<wal_buffer, wal>>
    <3>1. HandOrder'
      BY <2>1, <2>2, <2>3, <2>7 DEF HandOrder
    <3>2. WalOrder'
      BY <1>2, <2>7 DEF OrderInv, WalOrder
    <3> QED BY <3>1, <3>2
  <2> QED BY <1>5, <2>5, <2>6, <2>7
<1>10. lapped' => HandOrder' /\ WalOrder'
  BY DEF HandOrder, WalOrder
<1> QED BY <1>7, <1>8, <1>9, <1>10

LEMMA TradesHand ==
    ASSUME RecordsOK, OnceInv, OrderInv, PersistTrades, UNCHANGED <<queueVars, sent, discarded>>
    PROVE  HandOrder' /\ TradesWait' /\ WalOrder' /\ InHand' \subseteq InHand
<1>1. /\ batch = <<>> /\ UNCHANGED <<batch, lapped>> /\ wal_buffer' = <<>>
      /\ wal_buffer \in Seq(Item) /\ wal \in Seq(Item)
  BY DEF PersistTrades, RecordsOK, queueVars
<1>2. \/ wal' = wal \o wal_buffer /\ ToSet(wal') = ToSet(wal) \cup ToSet(wal_buffer)
      \/ UNCHANGED wal
  BY <1>1, WriteSets DEF PersistTrades
<1>3. ToSet(batch') = {} /\ ToSet(wal_buffer') = {}
  BY <1>1 DEF ToSet
<1>4. TradesWait' /\ InHand' \subseteq InHand
  BY <1>2, <1>3 DEF TradesWait, InHand
<1>5. Rising(batch') /\ Rising(wal_buffer')
  BY <1>1 DEF Rising
<1>6. HandOrder'
  BY <1>3, <1>5 DEF HandOrder, AllBefore
<1>7. ASSUME ~lapped'
      PROVE  WalOrder'
  <2>1. /\ Rising(wal_buffer) /\ Ordered(wal)
        /\ \A y \in ToSet(wal), z \in ToSet(wal_buffer) : y.by = z.by /\ y.n > z.n => IsOrder(y)
    BY <1>1, <1>7, OrderedLog DEF OrderInv, HandOrder
  <2>2. \A z \in ToSet(wal_buffer) : IsTrade(z)
    BY DEF OrderInv, TradesWait
  <2>3. Ordered(wal \o wal_buffer)
    BY <1>1, <2>1, <2>2, OrderedConcat
  <2>4. Ordered(wal')
    BY <1>2, <2>1, <2>3
  <2> QED BY <2>4 DEF WalOrder, Ordered
<1>8. lapped' => WalOrder'
  BY DEF WalOrder
<1> QED BY <1>4, <1>6, <1>7, <1>8

LEMMA SameOrder ==
    ASSUME OrderInv, UNCHANGED <<buffer_, pushing, popping, write_pos_, read_pos_, lapped>>,
           InHand' \subseteq InHand
    PROVE  QueueOrder'
<1>1. FullSlots' = FullSlots /\ FullSlots \subseteq Slots
  BY DEF FullSlots
<1>2. \A i \in Slots : PopTurn(i)' = PopTurn(i)
  BY DEF PopTurn, PopsAt
<1>3. SUFFICES ASSUME ~lapped
               PROVE  (SlotOrder /\ PushOrder /\ TakenOrder)'
  BY DEF QueueOrder
<1>4. SlotOrder /\ PushOrder /\ TakenOrder
  BY <1>3 DEF OrderInv, QueueOrder
<1>5. SlotOrder'
  BY <1>1, <1>2, <1>4 DEF SlotOrder, Before
<1>6. PushOrder'
  BY <1>1, <1>2, <1>4 DEF PushOrder
<1>7. TakenOrder'
  BY <1>1, <1>4 DEF TakenOrder, Before, OwnerWaits
<1> QED BY <1>5, <1>6, <1>7

LEMMA OrderInitial == Init => OrderInv
<1> SUFFICES ASSUME Init PROVE OrderInv
  OBVIOUS
<1>1. batch = <<>> /\ wal_buffer = <<>> /\ wal = <<>>
  BY DEF Init
<1>2. ToSet(<<>>) = {} /\ Rising(<<>>)
  BY DEF ToSet, Rising
<1>3. FullSlots = {}
  BY DEF Init, QueueInit, FullSlots
<1>4. QueueOrder
  BY <1>3 DEF QueueOrder, SlotOrder, PushOrder, TakenOrder
<1>5. HandOrder /\ TradesWait /\ WalOrder
  BY <1>1, <1>2 DEF HandOrder, AllBefore, TradesWait, WalOrder
<1> QED BY <1>4, <1>5 DEF OrderInv

LEMMA OrderKept ==
    ASSUME QueueInv, RecordsOK, OnceInv, OrderInv, [Next]_vars
    PROVE  OrderInv'
<1>1. ASSUME UNCHANGED records, lapped => lapped'
      PROVE  HandOrder' /\ TradesWait' /\ WalOrder'
  <2>1. HandOrder /\ TradesWait /\ WalOrder
    BY DEF OrderInv
  <2>2. HandOrder'
    BY <1>1, <2>1 DEF HandOrder, records
  <2>3. TradesWait'
    BY <1>1, <2>1 DEF TradesWait, records
  <2>4. WalOrder'
    BY <1>1, <2>1 DEF WalOrder, records
  <2> QED BY <2>2, <2>3, <2>4
<1>2. ASSUME NEW t \in Producers, NEW type \in PersistType, Claims(t, type), UNCHANGED records
      PROVE  OrderInv'
  BY <1>1, <1>2, ClaimOrder DEF OrderInv, Claims, PushClaim
<1>3. ASSUME NEW p \in pushing, Stores(p), UNCHANGED records
      PROVE  OrderInv'
  BY <1>1, <1>3, StoreOrder DEF OrderInv, Stores, PushStore
<1>4. ASSUME NEW b \in {"worker", "owner"}, Asks(b), UNCHANGED records
      PROVE  OrderInv'
  BY <1>1, <1>4, AskOrder DEF OrderInv, Asks, PopClaim
<1>5. ASSUME UNCHANGED <<queueVars, sent>>, UNCHANGED records
      PROVE  OrderInv'
  <2>1. InHand' = InHand
    BY <1>5 DEF InHand, records
  <2> QED BY <1>1, <1>5, <2>1, SameOrder DEF OrderInv, queueVars
<1>6. ASSUME NEW c \in popping, NEW x \in Stored, Receives(c, x)
      PROVE  OrderInv'
  BY <1>6, TakeOrder, TakeHand DEF OrderInv
<1>7. ASSUME PersistItem, UNCHANGED <<queueVars, sent, discarded>>
      PROVE  OrderInv'
  BY <1>7, ItemHand, SameOrder DEF OrderInv, queueVars
<1>8. ASSUME PersistTrades, UNCHANGED <<queueVars, sent, discarded>>
      PROVE  OrderInv'
  BY <1>8, TradesHand, SameOrder DEF OrderInv, queueVars
<1> QED BY <1>2, <1>3, <1>4, <1>5, <1>6, <1>7, <1>8, ItemSteps

-----------------------------------------------------------------------------
\* Every record handed over is in exactly one place at all times, and a producer's
\* records reach the log in its order: persistence_async.cpp and lockfree_queue.h for
\* any number of engine threads, any ring and any batch size.
THEOREM RecordsStay == Spec => []RecordsReachLog
<1> DEFINE Inv == QueueInv /\ WorkInv /\ OnceInv /\ OrderInv
<1>1. Init => Inv
  BY QueueInitial, WorkInitial, OnceInitial, OrderInitial
<1>2. Inv /\ [Next]_vars => Inv'
  <2> SUFFICES ASSUME Inv, [Next]_vars PROVE Inv'
    OBVIOUS
  <2>1. QueueInv' /\ OnceInv' /\ OrderInv'
    BY QueueKept, OnceKept, OrderKept DEF WorkInv
  <2>2. WorkInv'
    BY FlagsKept, PlacesKept, RecordsKept, StoppedKept DEF WorkInv
  <2> QED BY <2>1, <2>2
<1>3. Inv => RecordsReachLog
  BY TypesHold, OnceHolds DEF RecordsReachLog, OrderInv
<1> QED BY <1>1, <1>2, <1>3, PTL DEF Spec

-----------------------------------------------------------------------------
(* The engine above the persistence *)

\* How often a number occurs in a sequence, and in the items a thread has handed over.
LEMMA TimesType ==
    ASSUME NEW S, NEW s \in Seq(S), NEW x
    PROVE  /\ Times(x, s) \in Nat
           /\ IsFiniteSet({i \in 1 .. Len(s) : s[i] = x})
           /\ x \notin S => Times(x, s) = 0
<1> DEFINE At == {i \in 1 .. Len(s) : s[i] = x}
<1>1. Len(s) \in Nat /\ DOMAIN s = 1 .. Len(s) /\ \A i \in 1 .. Len(s) : s[i] \in S
  OBVIOUS
<1>2. IsFiniteSet(1 .. Len(s)) /\ At \subseteq 1 .. Len(s)
  <2>1. Len(s) \in Int /\ 1 \in Int
    BY <1>1
  <2> QED BY <2>1, FS_Interval
<1>3. IsFiniteSet(At)
  BY <1>2, FS_Subset
<1>4. Cardinality(At) \in Nat
  BY <1>3, FS_CardinalityType
<1>5. Times(x, s) = Cardinality(At)
  BY <1>1 DEF Times
<1>6. x \notin S => At = {}
  BY <1>1
<1> QED BY <1>3, <1>4, <1>5, <1>6, FS_EmptySet

LEMMA TimesEmpty == \A x : Times(x, <<>>) = 0
<1> SUFFICES ASSUME NEW x PROVE Times(x, <<>>) = 0
  OBVIOUS
<1>1. {i \in DOMAIN <<>> : <<>>[i] = x} = {}
  OBVIOUS
<1> QED BY <1>1, FS_EmptySet DEF Times

LEMMA TimesAppend ==
    ASSUME NEW S, NEW s \in Seq(S), NEW y \in S, NEW x
    PROVE  Times(x, Append(s, y)) = Times(x, s) + IF y = x THEN 1 ELSE 0
<1> DEFINE At == {i \in 1 .. Len(s) : s[i] = x}
           Then == {i \in 1 .. Len(s) + 1 : Append(s, y)[i] = x}
<1>1. /\ Len(s) \in Nat /\ DOMAIN s = 1 .. Len(s) /\ DOMAIN Append(s, y) = 1 .. Len(s) + 1
      /\ Append(s, y)[Len(s) + 1] = y /\ \A i \in 1 .. Len(s) : Append(s, y)[i] = s[i]
  BY AppendProperties
<1>2. Times(x, s) = Cardinality(At) /\ Times(x, Append(s, y)) = Cardinality(Then)
  BY <1>1 DEF Times
<1>3. IsFiniteSet(At)
  BY TimesType
<1>4. Len(s) + 1 \notin At
  BY <1>1
<1>5. Then = IF y = x THEN At \cup {Len(s) + 1} ELSE At
  BY <1>1
<1> HIDE DEF At, Then
<1>6. Cardinality(At \cup {Len(s) + 1}) = Cardinality(At) + 1
  BY <1>3, <1>4, FS_AddElement
<1>7. Cardinality(At) \in Nat
  BY <1>3, FS_CardinalityType
<1> QED BY <1>2, <1>5, <1>6, <1>7

LEMMA TimesConcat ==
    ASSUME NEW S, NEW s \in Seq(S), NEW u \in Seq(S), NEW x
    PROVE  Times(x, s \o u) = Times(x, s) + Times(x, u)
<1> DEFINE In(q) == {i \in 1 .. Len(q) : q[i] = x}
           Later == {i \in Len(s) + 1 .. Len(s) + Len(u) : (s \o u)[i] = x}
           f == [i \in In(u) |-> Len(s) + i]
<1>1. /\ Len(s) \in Nat /\ Len(u) \in Nat /\ s \o u \in Seq(S) /\ Len(s \o u) = Len(s) + Len(u)
      /\ \A i \in 1 .. Len(s) : (s \o u)[i] = s[i]
      /\ \A i \in 1 .. Len(u) : (s \o u)[Len(s) + i] = u[i]
  BY ConcatProperties
<1>2. \A q \in Seq(S) : Times(x, q) = Cardinality(In(q)) /\ IsFiniteSet(In(q))
  <2> SUFFICES ASSUME NEW q \in Seq(S)
               PROVE  Times(x, q) = Cardinality(In(q)) /\ IsFiniteSet(In(q))
    OBVIOUS
  <2>1. DOMAIN q = 1 .. Len(q)
    OBVIOUS
  <2>2. IsFiniteSet(In(q))
    BY TimesType
  <2> QED BY <2>1, <2>2 DEF Times
<1>3. f \in [In(u) -> Later]
  BY <1>1
<1>4. \A i, j \in In(u) : f[i] = f[j] => i = j
  BY <1>1
<1>5. \A k \in Later : \E i \in In(u) : f[i] = k
  <2> SUFFICES ASSUME NEW k \in Later PROVE \E i \in In(u) : f[i] = k
    OBVIOUS
  <2>1. k - Len(s) \in 1 .. Len(u) /\ k = Len(s) + (k - Len(s))
    BY <1>1
  <2>2. k - Len(s) \in In(u)
    BY <1>1, <2>1
  <2> QED BY <2>1, <2>2
<1>6. In(s \o u) = In(s) \cup Later /\ In(s) \cap Later = {}
  BY <1>1
<1>7. IsFiniteSet(In(s)) /\ IsFiniteSet(In(u)) /\ Times(x, s) = Cardinality(In(s))
      /\ Times(x, u) = Cardinality(In(u)) /\ Times(x, s \o u) = Cardinality(In(s \o u))
  BY <1>1, <1>2
<1> HIDE DEF In, Later, f
<1>8. f \in Bijection(In(u), Later)
  BY <1>3, <1>4, <1>5, Fun_IsBij
<1>9. IsFiniteSet(Later) /\ Cardinality(Later) = Cardinality(In(u))
  <2>1. ExistsBijection(In(u), Later)
    BY <1>8, Fun_ExistsBij
  <2> QED BY <1>7, <2>1, FS_Bijection
<1>10. Cardinality(In(s) \cup Later) = Cardinality(In(s)) + Cardinality(Later) - Cardinality(In(s) \cap Later)
  BY <1>7, <1>9, FS_Union
<1>11. Cardinality(In(s)) \in Nat /\ Cardinality(Later) \in Nat /\ Cardinality(In(s) \cap Later) = 0
  BY <1>6, <1>7, <1>9, FS_CardinalityType, FS_EmptySet
<1> QED BY <1>6, <1>7, <1>9, <1>10, <1>11

\* The numbers a call gives its trades.
LEMMA TimesFresh ==
    ASSUME NEW m \in Nat, NEW n \in Nat, NEW x \in m + 1 .. m + n
    PROVE  Times(x, [i \in 1 .. n |-> m + i]) = 1
<1> DEFINE s == [i \in 1 .. n |-> m + i]
<1>1. DOMAIN s = 1 .. n
  OBVIOUS
<1>2. x - m \in 1 .. n /\ m + (x - m) = x
  OBVIOUS
<1>3. {i \in DOMAIN s : s[i] = x} = {x - m}
  BY <1>1, <1>2
<1> QED BY <1>3, FS_Singleton DEF Times

LEMMA CopiesType ==
    ASSUME NEW S, NEW items \in Seq(Contents(S)), NEW x, NEW call
    PROVE  /\ Copies(x, items, call) \in Nat
           /\ x \notin S => Copies(x, items, call) = 0
<1> DEFINE f == [i \in DOMAIN items |-> IF items[i].call = call THEN Times(x, items[i].trades) ELSE 0]
<1>1. DOMAIN items = 1 .. Len(items) /\ Len(items) \in Nat
      /\ \A i \in 1 .. Len(items) : items[i].trades \in Seq(S)
  <2>1. \A i \in 1 .. Len(items) : items[i] \in Contents(S)
    OBVIOUS
  <2> QED BY <2>1 DEF Contents
<1>2. IsFiniteSet(DOMAIN items)
  <2>1. Len(items) \in Int /\ 1 \in Int
    BY <1>1
  <2> QED BY <1>1, <2>1, FS_Interval
<1>3. \A i \in DOMAIN items : f[i] \in Nat /\ (x \notin S => f[i] = 0)
  BY <1>1, TimesType
<1>4. Copies(x, items, call) = SumFunctionOnSet(f, DOMAIN items)
  BY DEF Copies
<1> HIDE DEF f
<1>5. SumFunctionOnSet(f, DOMAIN items) \in Nat
  BY <1>2, <1>3, SumType
<1>6. x \notin S => SumFunctionOnSet(f, DOMAIN items) = 0
  BY <1>2, <1>3, SumOfZeros
<1> QED BY <1>4, <1>5, <1>6

LEMMA CopiesEmpty == \A x, call : Copies(x, <<>>, call) = 0
<1> SUFFICES ASSUME NEW x, NEW call PROVE Copies(x, <<>>, call) = 0
  OBVIOUS
<1>1. PICK items : items = <<>>
  OBVIOUS
<1>2. DOMAIN items = {}
  BY <1>1
<1>3. SumFunctionOnSet([i \in DOMAIN items |-> IF items[i].call = call THEN Times(x, items[i].trades)
                                              ELSE 0], {}) = 0
  BY SumEmpty
<1>4. Copies(x, items, call) = 0
  BY <1>2, <1>3 DEF Copies
<1> QED BY <1>1, <1>4

LEMMA CopiesAppend ==
    ASSUME NEW S, NEW items \in Seq(Contents(S)), NEW item \in Contents(S), NEW x, NEW call
    PROVE  Copies(x, Append(items, item), call)
             = Copies(x, items, call) + IF item.call = call THEN Times(x, item.trades) ELSE 0
<1> DEFINE more == Append(items, item)
           f == [i \in DOMAIN items |-> IF items[i].call = call THEN Times(x, items[i].trades) ELSE 0]
           g == [i \in DOMAIN more |-> IF more[i].call = call THEN Times(x, more[i].trades) ELSE 0]
           n == Len(items) + 1
<1>1. item.trades \in Seq(S)
  BY DEF Contents
<1>2. /\ Len(items) \in Nat /\ DOMAIN items = 1 .. Len(items) /\ DOMAIN more = 1 .. n
      /\ more[n] = item /\ \A i \in 1 .. Len(items) : more[i] = items[i]
      /\ \A i \in 1 .. Len(items) : items[i].trades \in Seq(S)
  <2>1. \A i \in 1 .. Len(items) : items[i] \in Contents(S)
    OBVIOUS
  <2>2. \A i \in 1 .. Len(items) : items[i].trades \in Seq(S)
    BY <2>1 DEF Contents
  <2> QED BY <1>1, <2>2, AppendProperties
<1>3. DOMAIN more = DOMAIN items \cup {n} /\ n \notin DOMAIN items
  BY <1>2
<1>4. IsFiniteSet(DOMAIN items)
  <2>1. Len(items) \in Int /\ 1 \in Int
    BY <1>2
  <2> QED BY <1>2, <2>1, FS_Interval
<1>5. g[n] = (IF item.call = call THEN Times(x, item.trades) ELSE 0) /\ \A i \in DOMAIN items : g[i] = f[i]
  BY <1>1, <1>2
<1>6. \A i \in DOMAIN more : g[i] \in Nat /\ g[i] \in Int
  <2>1. Times(x, item.trades) \in Nat /\ \A i \in DOMAIN items : Times(x, items[i].trades) \in Nat
    BY <1>1, <1>2, TimesType
  <2> QED BY <1>3, <1>5, <2>1
<1>7. Copies(x, items, call) = SumFunctionOnSet(f, DOMAIN items)
      /\ Copies(x, more, call) = SumFunctionOnSet(g, DOMAIN items \cup {n})
  BY <1>3 DEF Copies
<1> HIDE DEF f, g, more, n
<1>8. SumFunctionOnSet(g, DOMAIN items \cup {n}) = g[n] + SumFunctionOnSet(g, DOMAIN items)
  BY <1>3, <1>4, <1>6, SumAdd
<1>9. SumFunctionOnSet(g, DOMAIN items) = SumFunctionOnSet(f, DOMAIN items)
  BY <1>4, <1>5, SumSame
<1>10. SumFunctionOnSet(f, DOMAIN items) \in Nat /\ g[n] \in Nat
  BY <1>3, <1>6, <1>7, CopiesType
<1>11. Copies(x, more, call) = Copies(x, items, call) + g[n]
  BY <1>7, <1>8, <1>9, <1>10
<1> QED BY <1>5, <1>11 DEF more

\* Where a thread of the engine waits for a push, and where it is in stop.
PushLabels == {"pushes", "pushes all", "stop pushes"}
StopLabels == {"stop", "stop pushes", "stop flush", "stop flushes", "stop joins"}

\* What each thread may have where it is in its calls.
CallOrder ==
    \A t \in Producers :
        /\ pc[t] # "traded" => trades[t] = <<>>
        /\ ~in_batch[t] => all_trades[t] = <<>>
        /\ pc[t] \in StopLabels => t = Main
        /\ pc[t] \in StopLabels \cup {"pushes all"} => ~in_batch[t]
        /\ client = "engine" => (Pushing(t) <=> pc[t] \in PushLabels)

\* Each call of the persistence has trades of its own or a call of processOrderBatch to
\* show for it: whatever is handed over finds room below MaxItems.
Weights == [t \in Producers |-> Len(trades[t]) + IF in_batch[t] THEN 1 ELSE 0]
Room ==
    client = "engine" =>
        write_pos_ + SumFunctionOnSet(Weights, Producers) + Len(Waiting) <= Len(made) + batches

UseInv == CallsTypeOK /\ TradesTypeOK /\ CallOrder /\ Room

\* Sums over the threads of which one moves.
LEMMA SumMoves ==
    ASSUME NEW f, NEW g, NEW t \in Producers,
           \A u \in Producers : f[u] \in Nat /\ g[u] \in Nat,
           \A u \in Producers \ {t} : f[u] = g[u]
    PROVE  /\ SumFunctionOnSet(f, Producers) \in Nat /\ SumFunctionOnSet(f, Producers) >= f[t]
           /\ SumFunctionOnSet(g, Producers) = SumFunctionOnSet(f, Producers) - f[t] + g[t]
<1>1. IsFiniteSet(Producers) /\ IsFiniteSet(Producers \ {t})
  BY PersistenceAssumption, FS_RemoveElement
<1>2. \A u \in Producers : f[u] \in Int /\ g[u] \in Int
  OBVIOUS
<1>3. SumFunctionOnSet(g, Producers) = SumFunctionOnSet(f, Producers) - f[t] + g[t]
  BY <1>1, <1>2, SumUpdate
<1>4. /\ SumFunctionOnSet(f, Producers) = f[t] + SumFunctionOnSet(f, Producers \ {t})
      /\ SumFunctionOnSet(f, Producers \ {t}) \in Nat
  BY <1>1, <1>2, SumRemove, SumType
<1>5. f[t] \in Nat
  OBVIOUS
<1> QED BY <1>3, <1>4, <1>5

LEMMA WeightIs ==
    ASSUME NEW t \in Producers
    PROVE  \E e \in {0, 1} : Weights[t] = Len(trades[t]) + e /\ (in_batch[t] <=> e = 1)
<1>1. CASE in_batch[t]
  <2>1. Weights[t] = Len(trades[t]) + 1
    BY <1>1 DEF Weights
  <2> QED BY <1>1, <2>1
<1>2. CASE ~in_batch[t]
  <2>1. Weights[t] = Len(trades[t]) + 0
    BY <1>2 DEF Weights
  <2> QED BY <1>2, <2>1
<1> QED BY <1>1, <1>2

LEMMA WeightTypes ==
    ASSUME CallsTypeOK, TradesTypeOK
    PROVE  /\ \A t \in Producers : Weights[t] \in Nat /\ Len(trades[t]) \in Nat
           /\ Waiting \in Seq(Numbers) /\ Len(Waiting) \in Nat
           /\ SumFunctionOnSet(Weights, Producers) \in Nat
           /\ Len(made) \in Nat /\ batches \in Nat /\ Len(made) + batches <= MaxTrades + MaxBatches
<1>1. \A t \in Producers : trades[t] \in Seq(Numbers)
  BY DEF TradesTypeOK
<1>2. \A t \in Producers : Len(trades[t]) \in Nat
  BY <1>1
<1>3. \A t \in Producers : Weights[t] \in Nat
  <2> SUFFICES ASSUME NEW t \in Producers PROVE Weights[t] \in Nat
    OBVIOUS
  <2>1. PICK e \in {0, 1} : Weights[t] = Len(trades[t]) + e
    BY WeightIs
  <2> QED BY <1>2, <2>1
<1>4. <<>> \in Seq(Numbers) /\ trade_batch_ \in Seq(Numbers)
  BY DEF TradesTypeOK
<1>5. Waiting \in Seq(Numbers)
  BY <1>4 DEF Waiting
<1>6. Len(Waiting) \in Nat
  BY <1>5
<1>7. SumFunctionOnSet(Weights, Producers) \in Nat
  BY <1>3, SumType, PersistenceAssumption
<1>8. Len(made) \in Nat /\ batches \in Nat /\ Len(made) + batches <= MaxTrades + MaxBatches
  <2>1. made \in Seq(BOOLEAN) /\ Len(made) <= MaxTrades /\ batches \in 0 .. MaxBatches
    BY DEF TradesTypeOK, CallsTypeOK
  <2>2. Len(made) \in Nat
    BY <2>1
  <2> QED BY <2>1, <2>2, OptimizedAssumption
<1> QED BY <1>2, <1>3, <1>5, <1>6, <1>7, <1>8

WeightsOK ==
    /\ \A u \in Producers : Weights[u] \in Nat
    /\ Len(Waiting) \in Nat /\ Len(made) \in Nat /\ batches \in Nat

LEMMA WeightsTyped == CallsTypeOK /\ TradesTypeOK => WeightsOK
BY WeightTypes DEF WeightsOK

LEMMA RoomLeft ==
    ASSUME QueueInv, UseInv, client = "engine", NEW t \in Producers, Weights[t] + Len(Waiting) > 0
    PROVE  write_pos_ < MaxItems
<1>1. CallsTypeOK /\ TradesTypeOK
  BY DEF UseInv
<1>2. SumFunctionOnSet(Weights, Producers) >= Weights[t]
  BY <1>1, WeightTypes, SumMoves
<1>3. write_pos_ + SumFunctionOnSet(Weights, Producers) + Len(Waiting) <= Len(made) + batches
  BY DEF UseInv, Room
<1>4. write_pos_ \in Nat /\ MaxItems \in Nat /\ MaxTrades \in Nat /\ MaxBatches \in Nat
  BY PersistenceAssumption, OptimizedAssumption DEF QueueInv, QueueTypeOK
<1>5. /\ Weights[t] \in Nat /\ Len(Waiting) \in Nat /\ SumFunctionOnSet(Weights, Producers) \in Nat
      /\ Len(made) \in Nat /\ batches \in Nat /\ Len(made) + batches <= MaxTrades + MaxBatches
  BY <1>1, WeightTypes
<1> QED BY <1>2, <1>3, <1>4, <1>5, RoomAssumption

LEMMA HandsOverPersists ==
    ASSUME NEW t \in Producers, NEW b, NEW call, HandsOver(t, b, call), ~Pushing(t), write_pos_ < MaxItems
    PROVE  Next
<1>1. Persist(t)
  BY DEF HandsOver, Persist, PersistType
<1> QED BY <1>1 DEF Next

\* The engine uses the persistence as its clients may.
LEMMA EngineActs ==
    ASSUME QueueInv, UseInv, [OptimizedNext]_optimizedVars
    PROVE  [Next]_vars
<1>1. CallsTypeOK /\ TradesTypeOK /\ CallOrder
  BY DEF UseInv
<1>2. CASE UNCHANGED optimizedVars
  BY <1>2 DEF optimizedVars
<1>3. CASE client = "direct" /\ Next
  BY <1>3
<1>4. ASSUME client = "engine", NEW t \in Producers, Orders(t) PROVE [Next]_vars
  <2>1. CASE (\E n \in {1, 2} : ProcessOrder(t, n)) \/ BeginBatch(t)
    BY <2>1 DEF ProcessOrder, BeginBatch
  <2>2. CASE PersistTradesBatch(t)
    <3>1. CASE UNCHANGED vars
      BY <3>1
    <3>2. CASE Filled(trade_batch_') /\ HandsOver(t, trade_batch_', "collected")
      <4>1. pc[t] = "traded" /\ batch_mutex_ = Unlocked /\ trade_batch_' = trade_batch_ \o trades[t]
        BY <2>2 DEF PersistTradesBatch
      <4>2. trades[t] \in Seq(Numbers) /\ trade_batch_ \in Seq(Numbers)
        BY <1>1 DEF TradesTypeOK
      <4>3. Len(trade_batch_') = Len(trade_batch_) + Len(trades[t])
        BY <4>1, <4>2, ConcatProperties
      <4>4. Len(trade_batch_') > 0
        BY <3>2, <4>2, <4>3, OptimizedAssumption DEF Filled
      <4>5. Weights[t] >= Len(trades[t]) /\ Len(Waiting) = Len(trade_batch_) /\ Weights[t] \in Nat
        <5>1. PICK e \in {0, 1} : Weights[t] = Len(trades[t]) + e
          BY WeightIs
        <5>2. Weights[t] \in Nat /\ Len(trades[t]) \in Nat
          BY <1>1, WeightTypes
        <5>3. Weights[t] >= Len(trades[t])
          BY <5>1, <5>2
        <5> QED BY <4>1, <5>2, <5>3 DEF Waiting
      <4>6. write_pos_ < MaxItems
        BY <1>4, <4>2, <4>3, <4>4, <4>5, RoomLeft
      <4>7. ~Pushing(t)
        BY <1>1, <1>4, <4>1 DEF CallOrder, PushLabels
      <4> QED BY <3>2, <4>6, <4>7, HandsOverPersists
    <3> QED BY <2>2, <3>1, <3>2 DEF PersistTradesBatch
  <2>3. CASE EndBatch(t)
    <3>1. CASE UNCHANGED vars
      BY <3>1
    <3>2. CASE HandsOver(t, all_trades[t], "batch")
      <4>1. pc[t] = "idle" /\ in_batch[t]
        BY <2>3 DEF EndBatch
      <4>2. Weights[t] = Len(trades[t]) + 1 /\ Len(trades[t]) \in Nat /\ Len(Waiting) \in Nat
        BY <1>1, <4>1, WeightTypes DEF Weights
      <4>3. write_pos_ < MaxItems
        BY <1>4, <4>2, RoomLeft
      <4>4. ~Pushing(t)
        BY <1>1, <1>4, <4>1 DEF CallOrder, PushLabels
      <4> QED BY <3>2, <4>3, <4>4, HandsOverPersists
    <3> QED BY <2>3, <3>1, <3>2 DEF EndBatch
  <2> QED BY <1>4, <2>1, <2>2, <2>3 DEF Orders
<1>5. ASSUME NEW t \in Producers, Returns(t) PROVE [Next]_vars
  BY <1>5 DEF Returns, BatchHandedOver, AllHandedOver, Next
<1>6. CASE client = "engine" /\ StopHandsOver
  <2>1. CASE UNCHANGED vars
    BY <2>1
  <2>2. CASE trade_batch_ # <<>> /\ HandsOver(Main, trade_batch_, "collected")
    <3>1. pc[Main] = "stop" /\ batch_mutex_ = Unlocked /\ Main \in Producers
      BY <1>6, OptimizedAssumption DEF StopHandsOver
    <3>2. Len(trade_batch_) > 0 /\ Len(Waiting) = Len(trade_batch_) /\ Weights[Main] \in Nat
      <4>1. trade_batch_ \in Seq(Numbers)
        BY <1>1 DEF TradesTypeOK
      <4>2. Len(trade_batch_) \in Nat /\ Len(trade_batch_) # 0
        BY <2>2, <4>1, EmptySeq
      <4> QED BY <1>1, <3>1, <4>2, WeightTypes DEF Waiting
    <3>3. write_pos_ < MaxItems
      BY <1>6, <3>1, <3>2, RoomLeft
    <3>4. ~Pushing(Main)
      BY <1>1, <1>6, <3>1 DEF CallOrder, PushLabels
    <3> QED BY <2>2, <3>1, <3>3, <3>4, HandsOverPersists
  <2> QED BY <1>6, <2>1, <2>2 DEF StopHandsOver
<1>7. CASE StartEngine \/ StopEngine \/ StopFlushes \/ StopEnds
  BY <1>7 DEF StartEngine, StopEngine, StopFlushes, StopEnds, Next
<1>8. CASE Background
  BY <1>8 DEF Background, WorkerSteps, OwnerSteps, Next
<1> QED BY <1>2, <1>3, <1>4, <1>5, <1>6, <1>7, <1>8 DEF OptimizedNext

\* What the steps of the engine do to the pushes of the queue.
LEMMA HandsOverPushes ==
    ASSUME NEW t \in Producers, NEW b, NEW call, HandsOver(t, b, call)
    PROVE  write_pos_' = write_pos_ + 1 /\ \A u \in Producers : Pushing(u)' <=> Pushing(u) \/ u = t
<1>1. PICK x : x.by = t /\ PushClaim(x)
  BY DEF HandsOver
<1>2. PICK p : /\ p = [pos |-> write_pos_, item |-> x]
               /\ pushing' = pushing \cup {p} /\ write_pos_' = write_pos_ + 1
  BY <1>1 DEF PushClaim
<1>3. p.item.by = t
  BY <1>1, <1>2
<1> QED BY <1>2, <1>3 DEF Pushing

LEMMA ReturnsPushes ==
    ASSUME QueueInv, NEW t \in Producers, PersistReturns(t)
    PROVE  write_pos_' = write_pos_ /\ \A u \in Producers : Pushing(u)' <=> Pushing(u) /\ u # t
<1>1. PICK p \in pushing : p.item.by = t /\ PushStore(p)
  BY DEF PersistReturns
<1>2. pushing' = pushing \ {p} /\ write_pos_' = write_pos_
  BY <1>1 DEF PushStore
<1>3. \A q \in pushing : q.item.by = t => q = p
  BY <1>1 DEF QueueInv, OneAtATime
<1> QED BY <1>1, <1>2, <1>3 DEF Pushing

LEMMA OthersPush ==
    ASSUME Background \/ StartEngine \/ StopFlushes \/ UNCHANGED vars
    PROVE  UNCHANGED <<write_pos_, pushing>> /\ \A u \in Producers : Pushing(u)' <=> Pushing(u)
<1>1. UNCHANGED <<write_pos_, pushing>>
  BY DEF Background, StartEngine, StopFlushes, WorkerSteps, OwnerSteps, vars, queueVars, WorkerTop, WorkerPop,
     WorkerTake, PersistItem, PersistTrades, Spill, Join, FlushPop, FlushTake, FlushEnd, Start, Flush, Stop,
     PopClaim, PopTake
<1> QED BY <1>1 DEF Pushing

\* One action at a time: where the threads are, and what they may have there.
LEMMA OrdersCalls ==
    ASSUME UseInv, NEW t \in Producers, Orders(t), client = "engine", UNCHANGED client
    PROVE  CallsTypeOK' /\ CallOrder'
<1>1. CallsTypeOK /\ TradesTypeOK /\ CallOrder
  BY DEF UseInv
<1>2. Unlocked \notin Producers /\ MaxBatches \in Nat
  BY OptimizedAssumption
<1>3. ASSUME NEW n \in {1, 2}, ProcessOrder(t, n) PROVE CallsTypeOK' /\ CallOrder'
  <2>1. CallsTypeOK'
    BY <1>1, <1>3 DEF ProcessOrder, MovesTo, CallsTypeOK, Labels
  <2>2. \A u \in Producers : Pushing(u)' <=> Pushing(u)
    BY <1>3, OthersPush DEF ProcessOrder
  <2>3. CallOrder'
    BY <1>1, <1>3, <2>2 DEF ProcessOrder, MovesTo, CallsTypeOK, TradesTypeOK, CallOrder, PushLabels,
       StopLabels
  <2> QED BY <2>1, <2>3
<1>4. CASE PersistTradesBatch(t)
  <2>0. pc[t] = "traded" /\ batch_mutex_ = Unlocked /\ UNCHANGED <<engine_running_, in_batch, batches>>
        /\ trades' = [trades EXCEPT ![t] = <<>>]
        /\ all_trades' = IF in_batch[t] THEN [all_trades EXCEPT ![t] = @ \o trades[t]] ELSE all_trades
    BY <1>4 DEF PersistTradesBatch
  <2>1. \A u \in Producers : /\ trades'[u] = IF u = t THEN <<>> ELSE trades[u]
                             /\ ~in_batch[u] => all_trades'[u] = all_trades[u]
    BY <1>1, <2>0 DEF TradesTypeOK
  <2>2. CASE HandsOver(t, trade_batch_', "collected") /\ batch_mutex_' = t /\ MovesTo(t, "pushes")
    <3>1. CallsTypeOK'
      BY <1>1, <1>2, <2>0, <2>2 DEF MovesTo, CallsTypeOK, Labels
    <3>2. \A u \in Producers : Pushing(u)' <=> Pushing(u) \/ u = t
      BY <2>2, HandsOverPushes
    <3>3. CallOrder'
      BY <1>1, <2>0, <2>1, <2>2, <3>2 DEF MovesTo, CallsTypeOK, CallOrder, PushLabels, StopLabels
    <3> QED BY <3>1, <3>3
  <2>3. CASE MovesTo(t, "idle") /\ UNCHANGED <<vars, batch_mutex_, contents>>
    <3>1. CallsTypeOK'
      BY <1>1, <2>0, <2>3 DEF MovesTo, CallsTypeOK, Labels
    <3>2. \A u \in Producers : Pushing(u)' <=> Pushing(u)
      BY <2>3, OthersPush
    <3>3. CallOrder'
      BY <1>1, <2>0, <2>1, <2>3, <3>2 DEF MovesTo, CallsTypeOK, CallOrder, PushLabels, StopLabels
    <3> QED BY <3>1, <3>3
  <2> QED BY <1>4, <2>2, <2>3 DEF PersistTradesBatch
<1>5. CASE BeginBatch(t)
  <2>1. CallsTypeOK'
    <3>1. batches' \in 0 .. MaxBatches
      <4>1. batches < MaxBatches /\ batches' = batches + 1
        BY <1>5 DEF BeginBatch
      <4>2. batches \in 0 .. MaxBatches
        BY <1>1 DEF CallsTypeOK
      <4> QED BY <1>2, <4>1, <4>2
    <3>2. in_batch' \in [Producers -> BOOLEAN]
      BY <1>1, <1>5 DEF BeginBatch, CallsTypeOK
    <3> QED BY <1>1, <1>5, <3>1, <3>2 DEF BeginBatch, CallsTypeOK, tradeVars
  <2>2. \A u \in Producers : Pushing(u)' <=> Pushing(u)
    BY <1>5, OthersPush DEF BeginBatch
  <2>3. CallOrder'
    BY <1>1, <1>5, <2>2 DEF BeginBatch, CallsTypeOK, CallOrder, StopLabels
  <2> QED BY <2>1, <2>3
<1>6. CASE EndBatch(t)
  <2>0. /\ pc[t] = "idle" /\ in_batch[t] /\ in_batch' = [in_batch EXCEPT ![t] = FALSE]
        /\ all_trades' = [all_trades EXCEPT ![t] = <<>>]
        /\ UNCHANGED <<engine_running_, trades, batches, batch_mutex_>>
    BY <1>6 DEF EndBatch
  <2>1. \A u \in Producers : all_trades'[u] = IF u = t THEN <<>> ELSE all_trades[u]
    BY <1>1, <2>0 DEF TradesTypeOK
  <2>2. CASE HandsOver(t, all_trades[t], "batch") /\ MovesTo(t, "pushes all")
    <3>1. CallsTypeOK'
      BY <1>1, <2>0, <2>2 DEF MovesTo, CallsTypeOK, Labels
    <3>2. \A u \in Producers : Pushing(u)' <=> Pushing(u) \/ u = t
      BY <2>2, HandsOverPushes
    <3>3. CallOrder'
      BY <1>1, <2>0, <2>1, <2>2, <3>2 DEF MovesTo, CallsTypeOK, CallOrder, PushLabels, StopLabels
    <3> QED BY <3>1, <3>3
  <2>3. CASE UNCHANGED <<vars, contents, pc>>
    <3>1. CallsTypeOK'
      BY <1>1, <2>0, <2>3 DEF CallsTypeOK
    <3>2. \A u \in Producers : Pushing(u)' <=> Pushing(u)
      BY <2>3, OthersPush
    <3>3. CallOrder'
      BY <1>1, <2>0, <2>1, <2>3, <3>2 DEF CallsTypeOK, CallOrder, StopLabels
    <3> QED BY <3>1, <3>3
  <2> QED BY <1>6, <2>2, <2>3 DEF EndBatch
<1> QED BY <1>3, <1>4, <1>5, <1>6 DEF Orders

LEMMA ReturnsCalls ==
    ASSUME QueueInv, UseInv, NEW t \in Producers, Returns(t), client = "engine", UNCHANGED client
    PROVE  CallsTypeOK' /\ CallOrder'
<1>1. CallsTypeOK /\ TradesTypeOK /\ CallOrder
  BY DEF UseInv
<1>2. Unlocked \notin Producers
  BY OptimizedAssumption
<1>3. PersistReturns(t) /\ pc[t] \in PushLabels
      /\ UNCHANGED <<engine_running_, trades, in_batch, all_trades, batches>>
  BY DEF Returns, BatchHandedOver, AllHandedOver, PushLabels
<1>4. \A u \in Producers : Pushing(u)' <=> Pushing(u) /\ u # t
  BY <1>3, ReturnsPushes
<1>5. PICK l \in {"idle", "stop flush"} :
        /\ pc' = [pc EXCEPT ![t] = l]
        /\ l = "stop flush" => pc[t] = "stop pushes"
  BY DEF Returns, BatchHandedOver, AllHandedOver, After, MovesTo
<1>6. \A u \in Producers : pc'[u] = IF u = t THEN l ELSE pc[u]
  BY <1>1, <1>5 DEF CallsTypeOK
<1>7. batch_mutex_' = IF pc[t] = "pushes all" THEN batch_mutex_ ELSE Unlocked
  BY DEF Returns, BatchHandedOver, AllHandedOver, tradeVars
<1>8. CallsTypeOK'
  <2>1. pc' \in [Producers -> Labels]
    BY <1>1, <1>5 DEF CallsTypeOK, Labels
  <2>2. \A u \in Producers : pc'[u] \in {"pushes", "stop pushes"} <=> batch_mutex_' = u
    BY <1>1, <1>2, <1>3, <1>6, <1>7 DEF CallsTypeOK, PushLabels
  <2> QED BY <1>1, <1>3, <1>7, <2>1, <2>2 DEF CallsTypeOK
<1>9. CallOrder'
  <2> SUFFICES ASSUME NEW u \in Producers
               PROVE  /\ pc'[u] # "traded" => trades'[u] = <<>>
                      /\ ~in_batch'[u] => all_trades'[u] = <<>>
                      /\ pc'[u] \in StopLabels => u = Main
                      /\ pc'[u] \in StopLabels \cup {"pushes all"} => ~in_batch'[u]
                      /\ client' = "engine" => (Pushing(u)' <=> pc'[u] \in PushLabels)
    BY DEF CallOrder
  <2>1. CASE u # t
    BY <1>1, <1>3, <1>4, <1>6, <2>1 DEF CallOrder
  <2>2. CASE u = t
    BY <1>1, <1>3, <1>4, <1>5, <1>6, <2>2 DEF CallOrder, PushLabels, StopLabels
  <2> QED BY <2>1, <2>2
<1> QED BY <1>8, <1>9

LEMMA StopCalls ==
    ASSUME UseInv, client = "engine", UNCHANGED client,
           StartEngine \/ StopEngine \/ StopHandsOver \/ StopFlushes \/ StopEnds \/ Background
    PROVE  CallsTypeOK' /\ CallOrder'
<1>1. CallsTypeOK /\ TradesTypeOK /\ CallOrder
  BY DEF UseInv
<1>2. Unlocked \notin Producers /\ Main \in Producers
  BY OptimizedAssumption
<1>3. CASE StartEngine \/ Background
  <2>1. UNCHANGED <<pc, trades, in_batch, all_trades, batches, batch_mutex_>> /\ engine_running_' \in BOOLEAN
    BY <1>1, <1>3 DEF StartEngine, Background, callVars, tradeVars, CallsTypeOK
  <2>2. \A u \in Producers : Pushing(u)' <=> Pushing(u)
    BY <1>3, OthersPush
  <2>3. CallsTypeOK'
    BY <1>1, <2>1 DEF CallsTypeOK
  <2>4. CallOrder'
    BY <1>1, <2>1, <2>2 DEF CallOrder
  <2> QED BY <2>3, <2>4
<1>4. CASE StopEngine \/ StopFlushes \/ StopEnds
  <2>1. PICK l \in {"idle", "stop", "stop flushes", "stop joins"} :
          /\ pc' = [pc EXCEPT ![Main] = l] /\ pc[Main] \notin PushLabels \cup {"traded"}
          /\ ~in_batch[Main]
    <3>1. CASE StopEngine
      BY <3>1 DEF StopEngine, MovesTo, PushLabels
    <3>2. CASE StopFlushes \/ StopEnds
      <4>1. pc[Main] \in {"stop flush", "stop flushes", "stop joins"}
        BY <3>2 DEF StopFlushes, StopEnds
      <4>2. ~in_batch[Main]
        BY <1>1, <1>2, <4>1 DEF CallOrder, StopLabels
      <4> QED BY <3>2, <4>1, <4>2 DEF StopFlushes, StopEnds, MovesTo, PushLabels
    <3> QED BY <1>4, <3>1, <3>2
  <2>2. UNCHANGED <<trades, in_batch, all_trades, batches, batch_mutex_>> /\ engine_running_' \in BOOLEAN
    BY <1>1, <1>4 DEF StopEngine, StopFlushes, StopEnds, tradeVars, CallsTypeOK
  <2>3. \A u \in Producers : Pushing(u)' <=> Pushing(u)
    BY <1>4, OthersPush DEF StopEngine, StopEnds
  <2>4. \A u \in Producers : pc'[u] = IF u = Main THEN l ELSE pc[u]
    BY <1>1, <2>1 DEF CallsTypeOK
  <2>5. CallsTypeOK'
    <3>1. pc' \in [Producers -> Labels]
      BY <1>1, <2>1 DEF CallsTypeOK, Labels
    <3>2. \A u \in Producers : pc'[u] \in {"pushes", "stop pushes"} <=> batch_mutex_' = u
      BY <1>1, <2>1, <2>2, <2>4 DEF CallsTypeOK, PushLabels
    <3> QED BY <1>1, <2>2, <3>1, <3>2 DEF CallsTypeOK
  <2>6. CallOrder'
    BY <1>1, <1>2, <2>1, <2>2, <2>3, <2>4 DEF CallOrder, PushLabels, StopLabels
  <2> QED BY <2>5, <2>6
<1>5. CASE StopHandsOver
  <2>1. /\ pc[Main] = "stop" /\ batch_mutex_ = Unlocked
        /\ UNCHANGED <<engine_running_, trades, in_batch, all_trades, batches>>
    BY <1>5 DEF StopHandsOver
  <2>2. CASE HandsOver(Main, trade_batch_, "collected") /\ batch_mutex_' = Main /\ MovesTo(Main, "stop pushes")
    <3>1. CallsTypeOK'
      BY <1>1, <1>2, <2>1, <2>2 DEF MovesTo, CallsTypeOK, Labels
    <3>2. \A u \in Producers : Pushing(u)' <=> Pushing(u) \/ u = Main
      BY <1>2, <2>2, HandsOverPushes
    <3>3. CallOrder'
      BY <1>1, <2>1, <2>2, <3>2 DEF MovesTo, CallsTypeOK, CallOrder, PushLabels, StopLabels
    <3> QED BY <3>1, <3>3
  <2>3. CASE MovesTo(Main, "stop flush") /\ UNCHANGED <<vars, batch_mutex_, contents>>
    <3>1. CallsTypeOK'
      BY <1>1, <2>1, <2>3 DEF MovesTo, CallsTypeOK, Labels
    <3>2. \A u \in Producers : Pushing(u)' <=> Pushing(u)
      BY <2>3, OthersPush
    <3>3. CallOrder'
      BY <1>1, <2>1, <2>3, <3>2 DEF MovesTo, CallsTypeOK, CallOrder, PushLabels, StopLabels
    <3> QED BY <3>1, <3>3
  <2> QED BY <1>5, <2>2, <2>3 DEF StopHandsOver
<1> QED BY <1>3, <1>4, <1>5

LEMMA CallsKept ==
    ASSUME QueueInv, UseInv, [OptimizedNext]_optimizedVars
    PROVE  CallsTypeOK' /\ CallOrder'
<1>1. CallsTypeOK /\ TradesTypeOK /\ CallOrder
  BY DEF UseInv
<1>2. CASE UNCHANGED optimizedVars
  <2>1. \A u \in Producers : Pushing(u)' <=> Pushing(u)
    BY <1>2, OthersPush DEF optimizedVars
  <2>2. UNCHANGED <<client, engine_running_, callVars, tradeVars>>
    BY <1>2 DEF optimizedVars
  <2> QED BY <1>1, <2>1, <2>2 DEF callVars, tradeVars, CallsTypeOK, CallOrder
<1>3. CASE client = "direct" /\ UNCHANGED <<client, engine_running_, callVars, tradeVars>>
  BY <1>1, <1>3 DEF callVars, tradeVars, CallsTypeOK, CallOrder
<1>4. CASE client = "engine"
  <2>1. ASSUME NEW t \in Producers, Orders(t) \/ Returns(t) PROVE UNCHANGED client
    BY <2>1 DEF Orders, Returns, ProcessOrder, PersistTradesBatch, BeginBatch, EndBatch, BatchHandedOver,
       AllHandedOver
  <2>2. ASSUME StartEngine \/ StopEngine \/ StopHandsOver \/ StopFlushes \/ StopEnds \/ Background
        PROVE  UNCHANGED client
    BY <2>2 DEF StartEngine, StopEngine, StopHandsOver, StopFlushes, StopEnds, Background
  <2> QED BY <1>2, <1>4, <2>1, <2>2, OrdersCalls, ReturnsCalls, StopCalls DEF OptimizedNext
<1> QED BY <1>2, <1>3, <1>4 DEF OptimizedNext

\* The numbers only grow: what was in a sequence of them stays in one.
LEMMA NumbersGrow ==
    ASSUME NEW m \in Nat, NEW k \in Nat, m <= k
    PROVE  /\ 1 .. m \subseteq 1 .. k
           /\ Seq(1 .. m) \subseteq Seq(1 .. k)
           /\ Seq(Contents(1 .. m)) \subseteq Seq(Contents(1 .. k))
<1>1. 1 .. m \subseteq 1 .. k
  OBVIOUS
<1>2. ASSUME NEW S, NEW T, S \subseteq T, NEW s \in Seq(S) PROVE s \in Seq(T)
  <2>1. Len(s) \in Nat /\ DOMAIN s = 1 .. Len(s) /\ s = [i \in 1 .. Len(s) |-> s[i]]
        /\ \A i \in 1 .. Len(s) : s[i] \in S
    BY <1>2
  <2> QED BY <1>2
<1>3. Seq(1 .. m) \subseteq Seq(1 .. k)
  BY <1>1, <1>2
<1>4. Contents(1 .. m) \subseteq Contents(1 .. k)
  BY <1>3 DEF Contents
<1> QED BY <1>1, <1>2, <1>3, <1>4

\* What the actions do to the trades: an order makes some, the thread hands them on.
LEMMA MakesTrades ==
    ASSUME UseInv, NEW t \in Producers, NEW n \in {1, 2}, ProcessOrder(t, n)
    PROVE  /\ TradesTypeOK' /\ Len(made') = Len(made) + n /\ Len(made) \in Nat
           /\ \A i \in Numbers : made'[i] = made[i]
           /\ \A i \in Len(made) + 1 .. Len(made) + n : made'[i] = in_batch[t]
           /\ pc[t] = "idle" /\ trades[t] = <<>>
           /\ \A u \in Producers : trades'[u] = IF u = t THEN [i \in 1 .. n |-> Len(made) + i] ELSE trades[u]
           /\ UNCHANGED <<in_batch, all_trades, contents, trade_batch_, batch_mutex_, batches, late>>
<1>1. CallsTypeOK /\ TradesTypeOK /\ CallOrder
  BY DEF UseInv
<1>2. /\ made' = made \o [i \in 1 .. n |-> in_batch[t]] /\ Len(made) + n <= MaxTrades
      /\ trades' = [trades EXCEPT ![t] = [i \in 1 .. n |-> Len(made) + i]]
      /\ pc[t] = "idle"
      /\ UNCHANGED <<in_batch, all_trades, contents, trade_batch_, batch_mutex_, batches, late>>
  BY DEF ProcessOrder
<1>3. made \in Seq(BOOLEAN) /\ Len(made) \in Nat
  BY <1>1 DEF TradesTypeOK
<1>4. PICK more : more = [i \in 1 .. n |-> in_batch[t]]
  OBVIOUS
<1>5. in_batch[t] \in BOOLEAN
  BY <1>1 DEF CallsTypeOK
<1>6. more \in Seq(BOOLEAN) /\ Len(more) = n /\ \A i \in 1 .. n : more[i] = in_batch[t]
  BY <1>4, <1>5
<1>7. /\ made' \in Seq(BOOLEAN) /\ Len(made') = Len(made) + n
      /\ \A i \in 1 .. Len(made) : made'[i] = made[i]
      /\ \A i \in 1 .. n : made'[Len(made) + i] = in_batch[t]
  BY <1>2, <1>3, <1>4, <1>6, ConcatProperties
<1>8. ASSUME NEW i \in Len(made) + 1 .. Len(made) + n PROVE made'[i] = in_batch[t]
  <2>1. i - Len(made) \in 1 .. n /\ Len(made) + (i - Len(made)) = i
    BY <1>3
  <2> QED BY <1>7, <2>1
<1>9. \A u \in Producers : trades'[u] = IF u = t THEN [i \in 1 .. n |-> Len(made) + i] ELSE trades[u]
  BY <1>1, <1>2 DEF TradesTypeOK
<1>10. TradesTypeOK'
  <2>1. PICK m \in Nat, k \in Nat : m = Len(made) /\ k = m + n
    BY <1>3
  <2>2. Numbers = 1 .. m /\ Numbers' = 1 .. k /\ m <= k
    BY <1>7, <2>1 DEF Numbers
  <2>3. /\ 1 .. m \subseteq 1 .. k /\ Seq(1 .. m) \subseteq Seq(1 .. k)
        /\ Seq(Contents(1 .. m)) \subseteq Seq(Contents(1 .. k))
    BY <2>2, NumbersGrow
  <2>4. [i \in 1 .. n |-> m + i] \in Seq(1 .. k)
    BY <2>1
  <2>5. trades' \in [Producers -> Seq(1 .. k)]
    <3>1. trades \in [Producers -> Seq(1 .. m)]
      BY <1>1, <2>2 DEF TradesTypeOK
    <3> QED BY <1>2, <2>1, <2>3, <2>4, <3>1
  <2>6. /\ all_trades' \in [Producers -> Seq(1 .. k)] /\ trade_batch_' \in Seq(1 .. k)
        /\ late' \subseteq 1 .. k /\ contents' \in [Producers -> Seq(Contents(1 .. k))]
    BY <1>1, <1>2, <2>2, <2>3 DEF TradesTypeOK
  <2>7. Len(made') <= MaxTrades
    BY <1>2, <1>7
  <2> QED BY <1>7, <2>2, <2>5, <2>6, <2>7 DEF TradesTypeOK
<1>11. trades[t] = <<>>
  BY <1>1, <1>2 DEF CallOrder
<1> QED BY <1>2, <1>3, <1>7, <1>8, <1>9, <1>10, <1>11 DEF Numbers

\* Room and the places of the trades, when one thread moves: what it moves balances.
LEMMA RoomMoves ==
    ASSUME QueueInv, QueueInv', UseInv, CallsTypeOK', TradesTypeOK', client = "engine", UNCHANGED client,
           NEW t \in Producers,
           \A u \in Producers \ {t} : trades'[u] = trades[u] /\ in_batch'[u] = in_batch[u],
           write_pos_' + Weights'[t] + Len(Waiting') + Len(made) + batches
             <= write_pos_ + Weights[t] + Len(Waiting) + Len(made') + batches'
    PROVE  Room'
<1>1. CallsTypeOK /\ TradesTypeOK /\ Room
  BY DEF UseInv
<1>2. PICK f, g : f = Weights /\ g = Weights'
  OBVIOUS
<1>3. \A u \in Producers : f[u] \in Nat /\ g[u] \in Nat
  <2>1. \A u \in Producers : f[u] \in Nat
    BY <1>1, <1>2, WeightTypes
  <2>2. WeightsOK'
    BY WeightsTyped, PTL
  <2> QED BY <1>2, <2>1, <2>2 DEF WeightsOK
<1>4. \A u \in Producers \ {t} : f[u] = g[u]
  BY <1>2 DEF Weights
<1>5. /\ SumFunctionOnSet(f, Producers) \in Nat
      /\ SumFunctionOnSet(g, Producers) = SumFunctionOnSet(f, Producers) - f[t] + g[t]
  BY <1>3, <1>4, SumMoves
<1>6. write_pos_ + SumFunctionOnSet(f, Producers) + Len(Waiting) <= Len(made) + batches
  BY <1>1, <1>2 DEF Room
<1>7. PICK w \in Nat, l \in Nat, m \in Nat, b \in Nat :
        w = write_pos_ /\ l = Len(Waiting) /\ m = Len(made) /\ b = batches
  BY <1>1, WeightTypes DEF QueueInv, QueueTypeOK
<1>8. PICK w1 \in Nat, l1 \in Nat, m1 \in Nat, b1 \in Nat :
        w1 = write_pos_' /\ l1 = Len(Waiting)' /\ m1 = Len(made)' /\ b1 = batches'
  <2>1. WeightsOK'
    BY WeightsTyped, PTL
  <2>2. write_pos_' \in Nat
    BY DEF QueueInv, QueueTypeOK
  <2> QED BY <2>1, <2>2 DEF WeightsOK
<1>9. w1 + g[t] + l1 + m + b <= w + f[t] + l + m1 + b1
  BY <1>2, <1>7, <1>8
<1>10. PICK sf, sg, ft, gt :
         /\ sf = SumFunctionOnSet(f, Producers) /\ sg = SumFunctionOnSet(g, Producers)
         /\ ft = f[t] /\ gt = g[t]
  OBVIOUS
<1>11. sf \in Nat /\ ft \in Nat /\ gt \in Nat
  BY <1>3, <1>5, <1>10
<1>12. sg = sf - ft + gt /\ w + sf + l <= m + b /\ w1 + gt + l1 + m + b <= w + ft + l + m1 + b1
  BY <1>2, <1>5, <1>6, <1>7, <1>9, <1>10
<1>13. w1 + sg + l1 <= m1 + b1
  BY <1>11, <1>12
<1> QED BY <1>2, <1>8, <1>10, <1>13 DEF Room

LEMMA CountTypes ==
    ASSUME TradesTypeOK, NEW t \in Producers, NEW x
    PROVE  /\ Times(x, trades[t]) \in Nat /\ Times(x, all_trades[t]) \in Nat
           /\ Copies(x, contents[t], "collected") \in Nat /\ Copies(x, contents[t], "batch") \in Nat
           /\ Times(x, trade_batch_) \in Nat
           /\ Collected(x)[t] = Times(x, trades[t]) + Copies(x, contents[t], "collected")
           /\ Repeated(x)[t] = Times(x, all_trades[t]) + Copies(x, contents[t], "batch")
                                 + IF in_batch[t] THEN Times(x, trades[t]) ELSE 0
<1>1. trades[t] \in Seq(Numbers) /\ all_trades[t] \in Seq(Numbers) /\ trade_batch_ \in Seq(Numbers)
      /\ contents[t] \in Seq(Contents(Numbers))
  BY DEF TradesTypeOK
<1> QED BY <1>1, TimesType, CopiesType DEF Collected, Repeated

CountsOK ==
    \A t \in Producers, x \in Nat :
        Collected(x)[t] \in Nat /\ Repeated(x)[t] \in Nat /\ Times(x, Waiting) \in Nat

LEMMA CountsTyped == TradesTypeOK => CountsOK
<1> SUFFICES ASSUME TradesTypeOK, NEW t \in Producers, NEW x \in Nat
             PROVE  Collected(x)[t] \in Nat /\ Repeated(x)[t] \in Nat /\ Times(x, Waiting) \in Nat
  BY DEF CountsOK
<1>1. PICK a \in Nat, b \in Nat, c \in Nat, d \in Nat :
        /\ a = Times(x, trades[t]) /\ b = Times(x, all_trades[t])
        /\ c = Copies(x, contents[t], "collected") /\ d = Copies(x, contents[t], "batch")
  BY CountTypes
<1>2. Collected(x)[t] = a + c /\ Repeated(x)[t] = b + d + IF in_batch[t] THEN a ELSE 0
  BY <1>1, CountTypes
<1>3. Repeated(x)[t] \in Nat
  <2>1. CASE in_batch[t]
    <3>1. Repeated(x)[t] = b + d + a
      BY <1>2, <2>1
    <3> QED BY <3>1
  <2>2. CASE ~in_batch[t]
    <3>1. Repeated(x)[t] = b + d + 0
      BY <1>2, <2>2
    <3> QED BY <3>1
  <2> QED BY <2>1, <2>2
<1>4. Times(x, <<>>) = 0
  BY TimesEmpty
<1>5. Times(x, Waiting) \in Nat
  BY <1>4, CountTypes DEF Waiting
<1> QED BY <1>2, <1>3, <1>5

LEMMA HandedMoves ==
    ASSUME TradesTypeOK, TradesTypeOK', HandedOnce, NEW t \in Producers,
           \A x \in Numbers : made'[x] = made[x],
           \A u \in Producers \ {t} :
               /\ trades'[u] = trades[u] /\ in_batch'[u] = in_batch[u]
               /\ all_trades'[u] = all_trades[u] /\ contents'[u] = contents[u],
           \A x \in Numbers :
               /\ Collected(x)'[t] + Times(x, Waiting)' = Collected(x)[t] + Times(x, Waiting)
               /\ Repeated(x)'[t] = Repeated(x)[t]
    PROVE  \A x \in Numbers :
               /\ SumFunctionOnSet(Collected(x)', Producers) + Times(x, Waiting)' = 1
               /\ SumFunctionOnSet(Repeated(x)', Producers) = IF made'[x] THEN 1 ELSE 0
<1>1. Numbers \subseteq Nat
  BY DEF Numbers
<1> SUFFICES ASSUME NEW x \in Numbers
             PROVE  /\ SumFunctionOnSet(Collected(x)', Producers) + Times(x, Waiting)' = 1
                    /\ SumFunctionOnSet(Repeated(x)', Producers) = IF made[x] THEN 1 ELSE 0
  OBVIOUS
<1>2. /\ SumFunctionOnSet(Collected(x), Producers) + Times(x, Waiting) = 1
      /\ SumFunctionOnSet(Repeated(x), Producers) = IF made[x] THEN 1 ELSE 0
  BY DEF HandedOnce
<1>3. PICK f, g, d, e, w, w1 :
        /\ f = Collected(x) /\ g = Collected(x)' /\ d = Repeated(x) /\ e = Repeated(x)'
        /\ w = Times(x, Waiting) /\ w1 = Times(x, Waiting)'
  OBVIOUS
<1>4. CountsOK /\ CountsOK'
  BY CountsTyped, PTL
<1>5. /\ \A u \in Producers : f[u] \in Nat /\ g[u] \in Nat
      /\ \A u \in Producers : d[u] \in Nat /\ e[u] \in Nat
      /\ w \in Nat /\ w1 \in Nat
  BY <1>1, <1>3, <1>4 DEF CountsOK
<1>6. \A u \in Producers \ {t} : f[u] = g[u] /\ d[u] = e[u]
  BY <1>3 DEF Collected, Repeated
<1>7. /\ SumFunctionOnSet(g, Producers) = SumFunctionOnSet(f, Producers) - f[t] + g[t]
      /\ SumFunctionOnSet(f, Producers) \in Nat
  BY <1>5, <1>6, SumMoves
<1>8. /\ SumFunctionOnSet(e, Producers) = SumFunctionOnSet(d, Producers) - d[t] + e[t]
      /\ SumFunctionOnSet(d, Producers) \in Nat
  BY <1>5, <1>6, SumMoves
<1>9. g[t] + w1 = f[t] + w /\ e[t] = d[t]
  BY <1>3
<1>10. PICK ft, gt, dt, sf, sd :
         /\ ft = f[t] /\ gt = g[t] /\ dt = d[t]
         /\ sf = SumFunctionOnSet(f, Producers) /\ sd = SumFunctionOnSet(d, Producers)
  OBVIOUS
<1>11. ft \in Nat /\ gt \in Nat /\ dt \in Nat /\ sf \in Nat /\ sd \in Nat
  BY <1>5, <1>7, <1>8, <1>10
<1>12. SumFunctionOnSet(g, Producers) + w1 = 1
  <2>1. SumFunctionOnSet(g, Producers) = sf - ft + gt /\ gt + w1 = ft + w /\ sf + w = 1
    BY <1>2, <1>3, <1>7, <1>9, <1>10
  <2> QED BY <1>5, <1>11, <2>1
<1>13. SumFunctionOnSet(e, Producers) = sd
  BY <1>8, <1>9, <1>10, <1>11
<1> QED BY <1>2, <1>3, <1>10, <1>12, <1>13

\* The same when nothing new is traded.
LEMMA HandedOnes ==
    ASSUME HandedOnce, made' = made,
           \A x \in Numbers :
               /\ SumFunctionOnSet(Collected(x)', Producers) + Times(x, Waiting)' = 1
               /\ SumFunctionOnSet(Repeated(x)', Producers) = IF made'[x] THEN 1 ELSE 0
    PROVE  HandedOnce'
<1>1. Numbers' = Numbers
  BY DEF Numbers
<1> QED BY <1>1 DEF HandedOnce

OptInv == QueueInv /\ UseInv /\ HandedOnce /\ OnlyLateLeft
TradesKept == TradesTypeOK' /\ Room' /\ HandedOnce' /\ OnlyLateLeft'

\* What handing trades over adds to the copies.
LEMMA CopiesHandedOver ==
    ASSUME NEW S, NEW items \in Seq(Contents(S)), NEW item \in Contents(S), NEW x
    PROVE  /\ Append(items, item) \in Seq(Contents(S)) /\ Times(x, item.trades) \in Nat
           /\ item.call = "collected" =>
                /\ Copies(x, Append(items, item), "collected")
                     = Copies(x, items, "collected") + Times(x, item.trades)
                /\ Copies(x, Append(items, item), "batch") = Copies(x, items, "batch")
           /\ item.call = "batch" =>
                /\ Copies(x, Append(items, item), "batch") = Copies(x, items, "batch") + Times(x, item.trades)
                /\ Copies(x, Append(items, item), "collected") = Copies(x, items, "collected")
<1>1. PICK c, d : c = "collected" /\ d = "batch"
  OBVIOUS
<1>2. c # d
  BY <1>1
<1>3. Append(items, item) \in Seq(Contents(S))
  <2>1. ASSUME NEW T, NEW q \in Seq(T), NEW y \in T PROVE Append(q, y) \in Seq(T)
    BY <2>1, AppendProperties
  <2> QED BY <2>1
<1>4. Copies(x, items, c) \in Nat /\ Copies(x, items, d) \in Nat /\ Times(x, item.trades) \in Nat
  <2>1. item.trades \in Seq(S)
    BY DEF Contents
  <2> QED BY <2>1, CopiesType, TimesType
<1>5. CASE item.call = c
  <2>1. Copies(x, Append(items, item), c) = Copies(x, items, c) + Times(x, item.trades)
    BY <1>5, CopiesAppend
  <2>2. Copies(x, Append(items, item), d) = Copies(x, items, d) + 0
    BY <1>2, <1>5, CopiesAppend
  <2> QED BY <1>1, <1>2, <1>3, <1>4, <1>5, <2>1, <2>2
<1>6. CASE item.call = d
  <2>1. Copies(x, Append(items, item), d) = Copies(x, items, d) + Times(x, item.trades)
    BY <1>6, CopiesAppend
  <2>2. Copies(x, Append(items, item), c) = Copies(x, items, c) + 0
    BY <1>2, <1>6, CopiesAppend
  <2> QED BY <1>1, <1>2, <1>3, <1>4, <1>6, <2>1, <2>2
<1>7. item.call \in {"collected", "batch"}
  BY DEF Contents
<1> QED BY <1>1, <1>5, <1>6, <1>7

\* The weight of a thread before and after a step.
WeightsForm ==
    \A t \in Producers :
        \E e \in {0, 1} : Weights[t] = Len(trades[t]) + e /\ (in_batch[t] <=> e = 1)

LEMMA WeightsFormed == WeightsForm
BY WeightIs DEF WeightsForm

LEMMA WeightMoves ==
    ASSUME NEW t \in Producers
    PROVE  \E e \in {0, 1}, e1 \in {0, 1} :
             /\ Weights[t] = Len(trades[t]) + e /\ (in_batch[t] <=> e = 1)
             /\ Weights'[t] = Len(trades'[t]) + e1 /\ (in_batch'[t] <=> e1 = 1)
<1>1. WeightsForm /\ WeightsForm'
  BY WeightsFormed, PTL
<1> QED BY <1>1 DEF WeightsForm

\* A thread's trades get into trade_batch_, and with it, once it is full, to the persistence.
LEMMA CollectKeeps ==
    ASSUME OptInv, QueueInv', CallsTypeOK', client = "engine", UNCHANGED client,
           NEW t \in Producers, PersistTradesBatch(t)
    PROVE  TradesKept
<1>1. CallsTypeOK /\ TradesTypeOK /\ CallOrder
  BY DEF OptInv, UseInv
<1>2. /\ pc[t] = "traded" /\ batch_mutex_ = Unlocked /\ trade_batch_' = trade_batch_ \o trades[t]
      /\ late' = IF engine_running_ THEN late ELSE late \cup ToSet(trades[t])
      /\ all_trades' = IF in_batch[t] THEN [all_trades EXCEPT ![t] = @ \o trades[t]] ELSE all_trades
      /\ trades' = [trades EXCEPT ![t] = <<>>]
      /\ UNCHANGED <<engine_running_, in_batch, batches, made>>
  BY DEF PersistTradesBatch
<1>3. PICK s, a, k, b, bb :
        /\ s = trades[t] /\ a = all_trades[t] /\ k = contents[t] /\ b = trade_batch_ /\ bb = b \o s
  OBVIOUS
<1>4. /\ s \in Seq(Numbers) /\ a \in Seq(Numbers) /\ k \in Seq(Contents(Numbers)) /\ b \in Seq(Numbers)
      /\ Numbers' = Numbers /\ <<>> \in Seq(Numbers)
  BY <1>1, <1>2, <1>3 DEF TradesTypeOK, Numbers
<1>5. bb \in Seq(Numbers) /\ Len(bb) = Len(b) + Len(s) /\ a \o s \in Seq(Numbers)
      /\ Len(b) \in Nat /\ Len(s) \in Nat
  BY <1>3, <1>4, ConcatProperties
<1>5a. PICK item : item = [trades |-> bb, call |-> "collected"]
  OBVIOUS
<1>5b. item \in Contents(Numbers) /\ item.trades = bb /\ item.call = "collected"
  BY <1>5a, <1>5 DEF Contents
<1>6. PICK c : /\ contents' = [contents EXCEPT ![t] = c]
               /\ \/ /\ c = Append(k, item) /\ batch_mutex_' = t
                     /\ write_pos_' = write_pos_ + 1 /\ Filled(bb) /\ pc' = [pc EXCEPT ![t] = "pushes"]
                  \/ /\ c = k /\ batch_mutex_' = Unlocked /\ write_pos_' = write_pos_
                     /\ pc' = [pc EXCEPT ![t] = "idle"]
  <2>1. CASE /\ HandsOver(t, trade_batch_', "collected") /\ batch_mutex_' = t /\ MovesTo(t, "pushes")
             /\ Filled(trade_batch_')
    BY <1>2, <1>3, <1>5a, <2>1, HandsOverPushes DEF HandsOver, MovesTo
  <2>2. CASE UNCHANGED <<vars, batch_mutex_, contents>> /\ MovesTo(t, "idle")
    <3>1. contents = [contents EXCEPT ![t] = k]
      BY <1>1, <1>3 DEF TradesTypeOK
    <3> QED BY <1>2, <2>2, <3>1, OthersPush DEF MovesTo
  <2> QED BY <2>1, <2>2 DEF PersistTradesBatch
<1>7. c \in Seq(Contents(Numbers))
  <2>1. Append(k, item) \in Seq(Contents(Numbers))
    BY <1>4, <1>5b, CopiesHandedOver
  <2> QED BY <1>4, <1>6, <2>1
<1>8. TradesTypeOK'
  <2>1. late' \subseteq Numbers
    <3>1. ToSet(trades[t]) \subseteq Numbers
      BY <1>3, <1>4 DEF ToSet
    <3> QED BY <1>1, <1>2, <3>1 DEF TradesTypeOK
  <2>2. trades' \in [Producers -> Seq(Numbers)] /\ contents' \in [Producers -> Seq(Contents(Numbers))]
    BY <1>1, <1>2, <1>4, <1>6, <1>7 DEF TradesTypeOK
  <2>3. all_trades' \in [Producers -> Seq(Numbers)]
    BY <1>1, <1>2, <1>3, <1>5 DEF TradesTypeOK
  <2>4. trade_batch_' \in Seq(Numbers)
    BY <1>2, <1>3, <1>5
  <2> QED BY <1>1, <1>2, <1>4, <2>1, <2>2, <2>3, <2>4 DEF TradesTypeOK
<1>9. /\ trades'[t] = <<>> /\ contents'[t] = c /\ in_batch'[t] = in_batch[t]
      /\ all_trades'[t] = IF in_batch[t] THEN a \o s ELSE a
      /\ \A u \in Producers \ {t} :
           /\ trades'[u] = trades[u] /\ in_batch'[u] = in_batch[u]
           /\ all_trades'[u] = all_trades[u] /\ contents'[u] = contents[u]
  BY <1>1, <1>2, <1>3, <1>6 DEF TradesTypeOK
<1>10. Waiting = b /\ Waiting' = IF batch_mutex_' = Unlocked THEN bb ELSE <<>>
  BY <1>2, <1>3 DEF Waiting
<1>11. t # Unlocked
  BY OptimizedAssumption
<1>12. Room'
  <2>1. PICK e \in {0, 1}, e1 \in {0, 1} :
          /\ Weights[t] = Len(trades[t]) + e /\ (in_batch[t] <=> e = 1)
          /\ Weights'[t] = Len(trades'[t]) + e1 /\ (in_batch'[t] <=> e1 = 1)
    BY WeightMoves
  <2>2. e1 = e
    BY <1>9, <2>1
  <2>3. Len(trades'[t]) = 0
    BY <1>9
  <2>4. PICK w, m, n, lb, ls, lw :
          w = write_pos_ /\ m = Len(made) /\ n = batches /\ lb = Len(b) /\ ls = Len(s) /\ lw = Len(Waiting')
    OBVIOUS
  <2>5. w \in Nat /\ m \in Nat /\ n \in Nat /\ lb \in Nat /\ ls \in Nat
    BY <1>1, <1>5, <2>4, WeightTypes DEF OptInv, QueueInv, QueueTypeOK
  <2>6. UNCHANGED <<made, batches>> /\ Weights[t] = ls + e /\ Weights'[t] = 0 + e /\ Len(Waiting) = lb
    BY <1>2, <1>3, <1>10, <2>1, <2>2, <2>3, <2>4
  <2>7. CASE batch_mutex_' = t /\ write_pos_' = write_pos_ + 1 /\ Filled(bb)
    <3>1. Len(bb) >= TRADE_BATCH_SIZE /\ TRADE_BATCH_SIZE \in Nat \ {0}
      BY <2>7, OptimizedAssumption DEF Filled
    <3>2. lb + ls >= 1
      BY <1>5, <2>4, <2>5, <3>1
    <3>3. lw = 0
      BY <1>10, <1>11, <2>4, <2>7
    <3>4. (w + 1) + (0 + e) + lw + m + n <= w + (ls + e) + lb + m + n
      BY <2>5, <3>2, <3>3
    <3> QED BY <1>8, <1>9, <2>4, <2>6, <2>7, <3>4, RoomMoves DEF OptInv
  <2>8. CASE batch_mutex_' = Unlocked /\ write_pos_' = write_pos_
    <3>1. lw = lb + ls
      BY <1>5, <1>10, <2>4, <2>8
    <3>2. w + (0 + e) + lw + m + n <= w + (ls + e) + lb + m + n
      BY <2>5, <3>1
    <3> QED BY <1>8, <1>9, <2>4, <2>6, <2>8, <3>2, RoomMoves DEF OptInv
  <2> QED BY <1>6, <2>7, <2>8
<1>13. ASSUME NEW x \in Numbers
       PROVE  /\ Collected(x)'[t] + Times(x, Waiting)' = Collected(x)[t] + Times(x, Waiting)
              /\ Repeated(x)'[t] = Repeated(x)[t]
  <2>1. Times(x, <<>>) = 0
    BY TimesEmpty
  <2>2. PICK m, n, i, j, l :
          /\ m = Times(x, s) /\ n = Times(x, b) /\ i = Copies(x, k, "collected") /\ j = Copies(x, k, "batch")
          /\ l = Times(x, a)
    OBVIOUS
  <2>3. m \in Nat /\ n \in Nat /\ i \in Nat /\ j \in Nat /\ l \in Nat
    BY <1>4, <2>2, TimesType, CopiesType
  <2>4. Times(x, bb) = n + m /\ Times(x, a \o s) = l + m
    BY <1>3, <1>4, <2>2, TimesConcat
  <2>5. Collected(x)[t] = m + i /\ Repeated(x)[t] = l + j + IF in_batch[t] THEN m ELSE 0
    BY <1>3, <2>2 DEF Collected, Repeated
  <2>6. Collected(x)'[t] = 0 + Copies(x, c, "collected")
    BY <1>9, <2>1 DEF Collected
  <2>7. Repeated(x)'[t] = (IF in_batch[t] THEN l + m ELSE l) + Copies(x, c, "batch") + 0
    <3>1. Repeated(x)'[t] = Times(x, all_trades'[t]) + Copies(x, c, "batch")
                              + IF in_batch[t] THEN 0 ELSE 0
      BY <1>9, <2>1 DEF Repeated
    <3> QED BY <1>9, <2>2, <2>4, <3>1
  <2>8. CASE c = k /\ batch_mutex_' = Unlocked
    <3>1. Times(x, Waiting)' = n + m /\ Times(x, Waiting) = n /\ Collected(x)'[t] = 0 + i
      BY <1>10, <2>2, <2>4, <2>6, <2>8
    <3>2. Collected(x)'[t] + Times(x, Waiting)' = Collected(x)[t] + Times(x, Waiting)
      BY <2>3, <2>5, <3>1
    <3>3. Repeated(x)'[t] = (IF in_batch[t] THEN l + m ELSE l) + j + 0
      BY <2>2, <2>7, <2>8
    <3> QED BY <2>3, <2>5, <3>2, <3>3
  <2>9. CASE c = Append(k, item) /\ batch_mutex_' = t
    <3>1. /\ Copies(x, c, "collected") = i + Times(x, bb)
          /\ Copies(x, c, "batch") = j + 0
      <4>1. /\ Copies(x, c, "collected") = Copies(x, k, "collected") + Times(x, bb)
            /\ Copies(x, c, "batch") = Copies(x, k, "batch")
        BY <1>4, <1>5b, <2>9, CopiesHandedOver
      <4> QED BY <2>2, <2>3, <4>1
    <3>2. Times(x, Waiting)' = 0 /\ Times(x, Waiting) = n /\ Collected(x)'[t] = 0 + (i + (n + m))
      BY <1>10, <1>11, <2>1, <2>2, <2>4, <2>6, <2>9, <3>1
    <3>3. Collected(x)'[t] + Times(x, Waiting)' = Collected(x)[t] + Times(x, Waiting)
      BY <2>3, <2>5, <3>2
    <3>4. Repeated(x)'[t] = (IF in_batch[t] THEN l + m ELSE l) + (j + 0) + 0
      BY <2>7, <3>1
    <3> QED BY <2>3, <2>5, <3>3, <3>4
  <2> QED BY <1>6, <2>8, <2>9
<1>14. HandedOnce'
  <2>1. HandedOnce
    BY DEF OptInv
  <2>2. \A x \in Numbers :
          /\ SumFunctionOnSet(Collected(x)', Producers) + Times(x, Waiting)' = 1
          /\ SumFunctionOnSet(Repeated(x)', Producers) = IF made'[x] THEN 1 ELSE 0
    BY <1>1, <1>2, <1>8, <1>9, <1>13, <2>1, HandedMoves
  <2> QED BY <1>2, <2>1, <2>2, HandedOnes
<1>15. OnlyLateLeft'
  <2>1. ToSet(trade_batch_') = ToSet(b) \cup ToSet(s)
    BY <1>2, <1>3, <1>4, SetOfConcat
  <2>2. pc'[Main] \notin {"stop", "stop pushes"} => pc[Main] \notin {"stop", "stop pushes"}
    BY <1>1, <1>2, <1>6, OptimizedAssumption DEF CallsTypeOK
  <2> QED BY <1>2, <1>3, <2>1, <2>2 DEF OptInv, OnlyLateLeft
<1> QED BY <1>8, <1>12, <1>14, <1>15 DEF TradesKept

\* stop hands over what has collected.
LEMMA StopHandsKeeps ==
    ASSUME OptInv, QueueInv', CallsTypeOK', client = "engine", UNCHANGED client, StopHandsOver
    PROVE  TradesKept
<1>1. CallsTypeOK /\ TradesTypeOK /\ Main \in Producers /\ Main # Unlocked
  BY OptimizedAssumption DEF OptInv, UseInv
<1>2. /\ batch_mutex_ = Unlocked
      /\ UNCHANGED <<engine_running_, trades, in_batch, all_trades, batches, trade_batch_, made, late>>
  BY DEF StopHandsOver
<1>3. PICK b, k, item : b = trade_batch_ /\ k = contents[Main] /\ item = [trades |-> b, call |-> "collected"]
  OBVIOUS
<1>4. b \in Seq(Numbers) /\ Len(b) \in Nat /\ k \in Seq(Contents(Numbers)) /\ Numbers' = Numbers
  BY <1>1, <1>2, <1>3 DEF TradesTypeOK, Numbers
<1>5. item \in Contents(Numbers) /\ item.trades = b /\ item.call = "collected"
  BY <1>3, <1>4 DEF Contents
<1>6. PICK c : /\ contents' = [contents EXCEPT ![Main] = c]
               /\ \/ /\ c = Append(k, item) /\ batch_mutex_' = Main /\ b # <<>>
                     /\ write_pos_' = write_pos_ + 1 /\ pc' = [pc EXCEPT ![Main] = "stop pushes"]
                  \/ /\ c = k /\ batch_mutex_' = Unlocked /\ b = <<>>
                     /\ write_pos_' = write_pos_ /\ pc' = [pc EXCEPT ![Main] = "stop flush"]
  <2>1. CASE /\ HandsOver(Main, trade_batch_, "collected") /\ batch_mutex_' = Main
             /\ MovesTo(Main, "stop pushes") /\ trade_batch_ # <<>>
    BY <1>1, <1>3, <2>1, HandsOverPushes DEF HandsOver, MovesTo
  <2>2. CASE UNCHANGED <<vars, batch_mutex_, contents>> /\ MovesTo(Main, "stop flush") /\ trade_batch_ = <<>>
    <3>1. contents = [contents EXCEPT ![Main] = k]
      BY <1>1, <1>3 DEF TradesTypeOK
    <3> QED BY <1>2, <1>3, <2>2, <3>1, OthersPush DEF MovesTo
  <2> QED BY <2>1, <2>2 DEF StopHandsOver
<1>7. c \in Seq(Contents(Numbers))
  BY <1>4, <1>5, <1>6, CopiesHandedOver
<1>8. TradesTypeOK'
  BY <1>1, <1>2, <1>4, <1>6, <1>7 DEF TradesTypeOK
<1>9. /\ contents'[Main] = c
      /\ \A u \in Producers \ {Main} :
           /\ trades'[u] = trades[u] /\ in_batch'[u] = in_batch[u]
           /\ all_trades'[u] = all_trades[u] /\ contents'[u] = contents[u]
  BY <1>1, <1>2, <1>6 DEF TradesTypeOK
<1>10. Waiting = b /\ Waiting' = <<>>
  BY <1>1, <1>2, <1>3, <1>6 DEF Waiting
<1>11. Room'
  <2>1. Weights'[Main] = Weights[Main]
    BY <1>1, <1>2 DEF Weights
  <2>2. PICK w, m, n, lb, e :
          w = write_pos_ /\ m = Len(made) /\ n = batches /\ lb = Len(b) /\ e = Weights[Main]
    OBVIOUS
  <2>3. w \in Nat /\ m \in Nat /\ n \in Nat /\ lb \in Nat /\ e \in Nat
    BY <1>1, <1>4, <2>2, WeightTypes DEF OptInv, QueueInv, QueueTypeOK
  <2>4. b # <<>> => lb >= 1
    BY <1>4, <2>2, <2>3
  <2>5. UNCHANGED <<made, batches>> /\ Len(Waiting) = lb /\ Len(Waiting') = 0
    BY <1>2, <1>10, <2>2
  <2>6. CASE write_pos_' = write_pos_ + 1 /\ b # <<>>
    <3>1. (w + 1) + e + 0 + m + n <= w + e + lb + m + n
      BY <2>3, <2>4, <2>6
    <3> QED BY <1>1, <1>8, <1>9, <2>1, <2>2, <2>5, <2>6, <3>1, RoomMoves DEF OptInv
  <2>7. CASE write_pos_' = write_pos_
    <3>1. w + e + 0 + m + n <= w + e + lb + m + n
      BY <2>3
    <3> QED BY <1>1, <1>8, <1>9, <2>1, <2>2, <2>5, <2>7, <3>1, RoomMoves DEF OptInv
  <2> QED BY <1>6, <2>6, <2>7
<1>12. ASSUME NEW x \in Numbers
       PROVE  /\ Collected(x)'[Main] + Times(x, Waiting)' = Collected(x)[Main] + Times(x, Waiting)
              /\ Repeated(x)'[Main] = Repeated(x)[Main]
  <2>1. Times(x, <<>>) = 0
    BY TimesEmpty
  <2>2. PICK m, n, i : m = Times(x, trades[Main]) /\ n = Times(x, b) /\ i = Copies(x, k, "collected")
    OBVIOUS
  <2>3. m \in Nat /\ n \in Nat /\ i \in Nat
    BY <1>1, <1>3, <1>4, <2>2, CountTypes, TimesType
  <2>4. Collected(x)[Main] = m + i /\ Collected(x)'[Main] = m + Copies(x, c, "collected")
    BY <1>1, <1>2, <1>3, <1>9, <2>2 DEF Collected
  <2>5. Copies(x, c, "collected") = i + n /\ Copies(x, c, "batch") = Copies(x, k, "batch")
    <3>1. CASE c = Append(k, item)
      BY <1>4, <1>5, <2>2, <3>1, CopiesHandedOver
    <3>2. CASE c = k /\ b = <<>>
      BY <2>1, <2>2, <2>3, <3>2
    <3> QED BY <1>6, <3>1, <3>2
  <2>6. Repeated(x)'[Main] = Repeated(x)[Main]
    BY <1>1, <1>2, <1>3, <1>9, <2>5 DEF Repeated
  <2>7. Times(x, Waiting)' = 0 /\ Times(x, Waiting) = n
    BY <1>10, <2>1, <2>2
  <2>8. (m + (i + n)) + 0 = (m + i) + n
    BY <2>3
  <2> QED BY <2>4, <2>5, <2>6, <2>7, <2>8
<1>13. HandedOnce'
  <2>1. HandedOnce
    BY DEF OptInv
  <2>2. \A x \in Numbers :
          /\ SumFunctionOnSet(Collected(x)', Producers) + Times(x, Waiting)' = 1
          /\ SumFunctionOnSet(Repeated(x)', Producers) = IF made'[x] THEN 1 ELSE 0
    BY <1>1, <1>2, <1>8, <1>9, <1>12, <2>1, HandedMoves
  <2> QED BY <1>2, <2>1, <2>2, HandedOnes
<1>14. OnlyLateLeft'
  <2>1. CASE pc' = [pc EXCEPT ![Main] = "stop pushes"]
    <3>1. pc'[Main] = "stop pushes"
      BY <1>1, <2>1 DEF CallsTypeOK
    <3> QED BY <3>1 DEF OnlyLateLeft
  <2>2. CASE b = <<>>
    <3>1. ToSet(trade_batch_') = {}
      BY <1>2, <1>3, <2>2 DEF ToSet
    <3> QED BY <3>1 DEF OnlyLateLeft
  <2> QED BY <1>6, <2>1, <2>2
<1> QED BY <1>8, <1>11, <1>13, <1>14 DEF TradesKept

\* processOrderBatch hands over what its call has collected, trade_batch_ or not.
LEMMA EndBatchKeeps ==
    ASSUME OptInv, QueueInv', CallsTypeOK', client = "engine", UNCHANGED client,
           NEW t \in Producers, EndBatch(t)
    PROVE  TradesKept
<1>1. CallsTypeOK /\ TradesTypeOK /\ CallOrder
  BY DEF OptInv, UseInv
<1>2. /\ pc[t] = "idle" /\ in_batch[t]
      /\ in_batch' = [in_batch EXCEPT ![t] = FALSE] /\ all_trades' = [all_trades EXCEPT ![t] = <<>>]
      /\ UNCHANGED <<engine_running_, trades, batches, trade_batch_, batch_mutex_, made, late>>
  BY DEF EndBatch
<1>3. PICK a, k, item : a = all_trades[t] /\ k = contents[t] /\ item = [trades |-> a, call |-> "batch"]
  OBVIOUS
<1>4. a \in Seq(Numbers) /\ k \in Seq(Contents(Numbers)) /\ Numbers' = Numbers /\ <<>> \in Seq(Numbers)
  BY <1>1, <1>2, <1>3 DEF TradesTypeOK, Numbers
<1>5. item \in Contents(Numbers) /\ item.trades = a /\ item.call = "batch"
  BY <1>3, <1>4 DEF Contents
<1>6. PICK c : /\ contents' = [contents EXCEPT ![t] = c]
               /\ \/ /\ c = Append(k, item) /\ write_pos_' = write_pos_ + 1
                     /\ pc' = [pc EXCEPT ![t] = "pushes all"]
                  \/ c = k /\ a = <<>> /\ write_pos_' = write_pos_ /\ pc' = pc
  <2>1. CASE HandsOver(t, all_trades[t], "batch") /\ MovesTo(t, "pushes all")
    BY <1>1, <1>3, <2>1, HandsOverPushes DEF HandsOver, MovesTo
  <2>2. CASE UNCHANGED <<vars, contents, pc>> /\ all_trades[t] = <<>>
    <3>1. contents = [contents EXCEPT ![t] = k]
      BY <1>1, <1>3 DEF TradesTypeOK
    <3> QED BY <1>2, <1>3, <2>2, <3>1, OthersPush
  <2> QED BY <2>1, <2>2 DEF EndBatch
<1>7. c \in Seq(Contents(Numbers))
  BY <1>4, <1>5, <1>6, CopiesHandedOver
<1>8. TradesTypeOK'
  BY <1>1, <1>2, <1>4, <1>6, <1>7 DEF TradesTypeOK
<1>9. /\ contents'[t] = c /\ all_trades'[t] = <<>> /\ ~in_batch'[t] /\ trades'[t] = <<>> /\ trades[t] = <<>>
      /\ \A u \in Producers \ {t} :
           /\ trades'[u] = trades[u] /\ in_batch'[u] = in_batch[u]
           /\ all_trades'[u] = all_trades[u] /\ contents'[u] = contents[u]
  <2>1. trades[t] = <<>>
    BY <1>1, <1>2 DEF CallOrder
  <2> QED BY <1>1, <1>2, <1>6, <2>1 DEF TradesTypeOK, CallsTypeOK
<1>10. Waiting' = Waiting
  BY <1>2 DEF Waiting
<1>11. Room'
  <2>1. PICK e \in {0, 1}, e1 \in {0, 1} :
          /\ Weights[t] = Len(trades[t]) + e /\ (in_batch[t] <=> e = 1)
          /\ Weights'[t] = Len(trades'[t]) + e1 /\ (in_batch'[t] <=> e1 = 1)
    BY WeightMoves
  <2>2. e = 1 /\ e1 = 0
    BY <1>2, <1>9, <2>1
  <2>3. PICK w, m, n, l : w = write_pos_ /\ m = Len(made) /\ n = batches /\ l = Len(Waiting)
    OBVIOUS
  <2>4. w \in Nat /\ m \in Nat /\ n \in Nat /\ l \in Nat
    BY <1>1, <2>3, WeightTypes DEF OptInv, QueueInv, QueueTypeOK
  <2>5. UNCHANGED <<made, batches>> /\ Weights[t] = 1 /\ Weights'[t] = 0
    BY <1>2, <1>9, <2>1, <2>2
  <2>6. CASE write_pos_' = write_pos_ + 1
    <3>1. (w + 1) + 0 + l + m + n <= w + 1 + l + m + n
      BY <2>4
    <3> QED BY <1>8, <1>1, <1>9, <1>10, <2>3, <2>5, <2>6, <3>1, RoomMoves DEF OptInv
  <2>7. CASE write_pos_' = write_pos_
    <3>1. w + 0 + l + m + n <= w + 1 + l + m + n
      BY <2>4
    <3> QED BY <1>8, <1>1, <1>9, <1>10, <2>3, <2>5, <2>7, <3>1, RoomMoves DEF OptInv
  <2> QED BY <1>6, <2>6, <2>7
<1>12. ASSUME NEW x \in Numbers
       PROVE  /\ Collected(x)'[t] + Times(x, Waiting)' = Collected(x)[t] + Times(x, Waiting)
              /\ Repeated(x)'[t] = Repeated(x)[t]
  <2>1. Times(x, <<>>) = 0
    BY TimesEmpty
  <2>2. PICK j, l : j = Copies(x, k, "batch") /\ l = Times(x, a)
    OBVIOUS
  <2>3. j \in Nat /\ l \in Nat
    BY <1>1, <1>3, <1>4, <2>2, CountTypes, TimesType
  <2>4. Copies(x, c, "batch") = j + l /\ Copies(x, c, "collected") = Copies(x, k, "collected")
    <3>1. CASE c = Append(k, item)
      BY <1>4, <1>5, <2>2, <3>1, CopiesHandedOver
    <3>2. CASE c = k /\ a = <<>>
      BY <2>1, <2>2, <2>3, <3>2
    <3> QED BY <1>6, <3>1, <3>2
  <2>5. Collected(x)'[t] = Collected(x)[t] /\ Times(x, Waiting)' = Times(x, Waiting)
    <3>1. Times(x, Waiting)' = Times(x, Waiting)
      BY <1>10
    <3> QED BY <1>3, <1>9, <2>4, <3>1 DEF Collected
  <2>6. Repeated(x)[t] = l + j + 0
    BY <1>2, <1>3, <1>9, <2>1, <2>2 DEF Repeated
  <2>7. Repeated(x)'[t] = 0 + (j + l) + 0
    BY <1>9, <2>1, <2>4 DEF Repeated
  <2> QED BY <2>3, <2>5, <2>6, <2>7
<1>13. HandedOnce'
  <2>1. HandedOnce
    BY DEF OptInv
  <2>2. \A x \in Numbers :
          /\ SumFunctionOnSet(Collected(x)', Producers) + Times(x, Waiting)' = 1
          /\ SumFunctionOnSet(Repeated(x)', Producers) = IF made'[x] THEN 1 ELSE 0
    BY <1>1, <1>2, <1>8, <1>9, <1>12, <2>1, HandedMoves
  <2> QED BY <1>2, <2>1, <2>2, HandedOnes
<1>14. OnlyLateLeft'
  <2>1. pc'[Main] \notin {"stop", "stop pushes"} => pc[Main] \notin {"stop", "stop pushes"}
    BY <1>1, <1>2, <1>6, OptimizedAssumption DEF CallsTypeOK
  <2> QED BY <1>2, <2>1 DEF OptInv, OnlyLateLeft
<1> QED BY <1>8, <1>11, <1>13, <1>14 DEF TradesKept

\* The lock is given back with an empty trade_batch_.
LEMMA HandedOverKeeps ==
    ASSUME OptInv, QueueInv', CallsTypeOK', client = "engine", UNCHANGED client,
           NEW t \in Producers, BatchHandedOver(t)
    PROVE  TradesKept
<1>1. CallsTypeOK /\ TradesTypeOK /\ t # Unlocked
  BY OptimizedAssumption DEF OptInv, UseInv
<1>2. /\ pc[t] \in {"pushes", "stop pushes"} /\ write_pos_' = write_pos_
      /\ trade_batch_' = <<>> /\ batch_mutex_' = Unlocked
      /\ UNCHANGED <<engine_running_, trades, in_batch, all_trades, batches, contents, made, late>>
  BY ReturnsPushes DEF BatchHandedOver, Emptied, OptInv
<1>3. batch_mutex_ = t
  BY <1>1, <1>2 DEF CallsTypeOK
<1>4. Waiting = <<>> /\ Waiting' = <<>>
  BY <1>1, <1>2, <1>3 DEF Waiting
<1>5. TradesTypeOK'
  <2>1. Numbers' = Numbers
    BY <1>2 DEF Numbers
  <2>2. <<>> \in Seq(Numbers)
    OBVIOUS
  <2> QED BY <1>1, <1>2, <2>1, <2>2 DEF TradesTypeOK
<1>6. Room'
  BY <1>2, <1>4 DEF Room, OptInv, UseInv, Weights
<1>7. HandedOnce'
  <2>1. \A x : Collected(x)' = Collected(x) /\ Repeated(x)' = Repeated(x) /\ Times(x, Waiting)' = Times(x, Waiting)
    BY <1>2, <1>4 DEF Collected, Repeated
  <2> QED BY <1>2, <2>1 DEF HandedOnce, Numbers, OptInv
<1>8. ToSet(trade_batch_') = {}
  <2>1. trade_batch_' = <<>>
    BY <1>2
  <2>2. ToSet(<<>>) = {}
    BY DEF ToSet
  <2> QED BY <2>1, <2>2
<1> QED BY <1>5, <1>6, <1>7, <1>8 DEF TradesKept, OnlyLateLeft

LEMMA BeginBatchKeeps ==
    ASSUME OptInv, QueueInv', CallsTypeOK', client = "engine", UNCHANGED client,
           NEW t \in Producers, BeginBatch(t)
    PROVE  TradesKept
<1>1. CallsTypeOK /\ TradesTypeOK /\ CallOrder
  BY DEF OptInv, UseInv
<1>2. /\ pc[t] = "idle" /\ ~in_batch[t]
      /\ in_batch' = [in_batch EXCEPT ![t] = TRUE] /\ batches' = batches + 1
      /\ UNCHANGED <<vars, engine_running_, pc, trades, all_trades, tradeVars>>
  BY DEF BeginBatch
<1>3. UNCHANGED <<write_pos_, trade_batch_, batch_mutex_, contents, made, late>>
  BY <1>2 DEF tradeVars, vars, queueVars
<1>4. trades[t] = <<>>
  BY <1>1, <1>2 DEF CallOrder
<1>5. TradesTypeOK'
  BY <1>1, <1>2, <1>3 DEF TradesTypeOK, Numbers
<1>6. \A u \in Producers \ {t} : trades'[u] = trades[u] /\ in_batch'[u] = in_batch[u]
  BY <1>1, <1>2 DEF CallsTypeOK
<1>7. Waiting' = Waiting /\ in_batch'[t]
  BY <1>1, <1>2, <1>3 DEF Waiting, CallsTypeOK
<1>8. Room'
  <2>1. PICK e \in {0, 1}, e1 \in {0, 1} :
          /\ Weights[t] = Len(trades[t]) + e /\ (in_batch[t] <=> e = 1)
          /\ Weights'[t] = Len(trades'[t]) + e1 /\ (in_batch'[t] <=> e1 = 1)
    BY WeightMoves
  <2>2. e = 0 /\ e1 = 1
    BY <1>2, <1>7, <2>1
  <2>3. PICK w, m, n, l : w = write_pos_ /\ m = Len(made) /\ n = batches /\ l = Len(Waiting)
    OBVIOUS
  <2>4. w \in Nat /\ m \in Nat /\ n \in Nat /\ l \in Nat
    BY <1>1, <2>3, WeightTypes DEF OptInv, QueueInv, QueueTypeOK
  <2>5. Weights[t] = 0 /\ Weights'[t] = 1
    BY <1>2, <1>4, <2>1, <2>2
  <2>6. w + 1 + l + m + n <= w + 0 + l + m + (n + 1)
    BY <2>4
  <2> QED BY <1>1, <1>2, <1>3, <1>5, <1>6, <1>7, <2>3, <2>5, <2>6, RoomMoves DEF OptInv
<1>9. HandedOnce'
  <2>1. ASSUME NEW x PROVE Collected(x)' = Collected(x) /\ Repeated(x)' = Repeated(x)
    <3>1. Times(x, <<>>) = 0
      BY TimesEmpty
    <3>2. \A u \in Producers : (IF in_batch'[u] THEN Times(x, trades[u]) ELSE 0)
                                 = IF in_batch[u] THEN Times(x, trades[u]) ELSE 0
      BY <1>4, <1>6, <3>1
    <3> QED BY <1>2, <1>3, <3>2 DEF Collected, Repeated
  <2>2. \A x : Times(x, Waiting)' = Times(x, Waiting)
    BY <1>7
  <2> QED BY <1>3, <2>1, <2>2 DEF HandedOnce, Numbers, OptInv
<1>10. OnlyLateLeft'
  BY <1>2, <1>3 DEF OnlyLateLeft, OptInv
<1> QED BY <1>5, <1>8, <1>9, <1>10 DEF TradesKept

\* An order's trades are new numbers, each once on its way.
LEMMA ProcessKeeps ==
    ASSUME OptInv, QueueInv', CallsTypeOK', client = "engine", UNCHANGED client,
           NEW t \in Producers, NEW n \in {1, 2}, ProcessOrder(t, n)
    PROVE  TradesKept
<1>1. CallsTypeOK /\ TradesTypeOK /\ CallOrder /\ UseInv
  BY DEF OptInv, UseInv
<1>2. PICK m : m = Len(made)
  OBVIOUS
<1>3. PICK s : s = [i \in 1 .. n |-> m + i]
  OBVIOUS
<1>4. /\ TradesTypeOK' /\ Len(made') = m + n /\ m \in Nat
      /\ \A i \in 1 .. m : made'[i] = made[i]
      /\ \A i \in m + 1 .. m + n : made'[i] = in_batch[t]
      /\ pc[t] = "idle" /\ trades[t] = <<>> /\ trades'[t] = s
      /\ \A u \in Producers \ {t} : trades'[u] = trades[u]
      /\ UNCHANGED <<in_batch, all_trades, contents, trade_batch_, batch_mutex_, batches, late>>
  <2>1. /\ TradesTypeOK' /\ Len(made') = Len(made) + n /\ Len(made) \in Nat
        /\ \A i \in Numbers : made'[i] = made[i]
        /\ \A i \in Len(made) + 1 .. Len(made) + n : made'[i] = in_batch[t]
        /\ pc[t] = "idle" /\ trades[t] = <<>>
        /\ \A u \in Producers : trades'[u] = IF u = t THEN [i \in 1 .. n |-> Len(made) + i] ELSE trades[u]
        /\ UNCHANGED <<in_batch, all_trades, contents, trade_batch_, batch_mutex_, batches, late>>
    BY <1>1, MakesTrades
  <2>2. trades'[t] = s /\ \A u \in Producers \ {t} : trades'[u] = trades[u]
    BY <1>2, <1>3, <2>1
  <2>3. Numbers = 1 .. m
    BY <1>2 DEF Numbers
  <2> HIDE <1>3
  <2>4. Len(made') = m + n /\ m \in Nat /\ \A i \in 1 .. m : made'[i] = made[i]
    BY <1>2, <2>1, <2>3
  <2>5. \A i \in m + 1 .. m + n : made'[i] = in_batch[t]
    BY <1>2, <2>1
  <2> QED BY <2>1, <2>2, <2>4, <2>5
<1>5. /\ UNCHANGED <<vars, engine_running_>> /\ pc' = [pc EXCEPT ![t] = "traded"]
      /\ write_pos_' = write_pos_
  BY DEF ProcessOrder, MovesTo, vars, queueVars
<1>6. Numbers = 1 .. m /\ Numbers' = 1 .. m + n /\ Waiting' = Waiting
  BY <1>2, <1>4 DEF Numbers, Waiting
<1>7. s \in Seq(m + 1 .. m + n) /\ Len(s) = n
  BY <1>3, <1>4
<1>8. Room'
  <2>1. PICK e \in {0, 1}, e1 \in {0, 1} :
          /\ Weights[t] = Len(trades[t]) + e /\ (in_batch[t] <=> e = 1)
          /\ Weights'[t] = Len(trades'[t]) + e1 /\ (in_batch'[t] <=> e1 = 1)
    BY WeightMoves
  <2>2. e1 = e
    BY <1>4, <2>1
  <2>3. PICK w, b, l : w = write_pos_ /\ b = batches /\ l = Len(Waiting)
    OBVIOUS
  <2>4. w \in Nat /\ b \in Nat /\ l \in Nat
    BY <1>1, <2>3, WeightTypes DEF OptInv, QueueInv, QueueTypeOK
  <2>5. Weights[t] = 0 + e /\ Weights'[t] = n + e
    BY <1>4, <1>7, <2>1, <2>2
  <2>6. w + (n + e) + l + m + b <= w + (0 + e) + l + (m + n) + b
    <3>1. n \in Nat /\ e \in Nat /\ m \in Nat
      BY <1>4
    <3> QED BY <2>4, <3>1
  <2>7. \A u \in Producers \ {t} : trades'[u] = trades[u] /\ in_batch'[u] = in_batch[u]
    BY <1>4
  <2>8. write_pos_' + Weights'[t] + Len(Waiting') + Len(made) + batches
          <= write_pos_ + Weights[t] + Len(Waiting) + Len(made') + batches'
    BY <1>2, <1>4, <1>5, <1>6, <2>3, <2>5, <2>6
  <2> QED BY <1>1, <1>4, <2>7, <2>8, RoomMoves DEF OptInv
<1>9. \A x \in Numbers :
        /\ SumFunctionOnSet(Collected(x)', Producers) + Times(x, Waiting)' = 1
        /\ SumFunctionOnSet(Repeated(x)', Producers) = IF made'[x] THEN 1 ELSE 0
  <2>1. ASSUME NEW x \in Numbers
        PROVE  /\ Collected(x)'[t] + Times(x, Waiting)' = Collected(x)[t] + Times(x, Waiting)
               /\ Repeated(x)'[t] = Repeated(x)[t]
    <3>1. x \notin m + 1 .. m + n
      BY <1>4, <1>6
    <3>2. Times(x, s) = 0 /\ Times(x, <<>>) = 0
      BY <1>7, <3>1, TimesType, TimesEmpty
    <3>3. Times(x, trades'[t]) = Times(x, trades[t])
      BY <1>4, <3>2
    <3>4. Collected(x)'[t] = Collected(x)[t] /\ Repeated(x)'[t] = Repeated(x)[t]
      BY <1>4, <3>3 DEF Collected, Repeated
    <3>5. Times(x, Waiting)' = Times(x, Waiting)
      BY <1>6
    <3> QED BY <3>4, <3>5
  <2>2. \A u \in Producers \ {t} :
          /\ trades'[u] = trades[u] /\ in_batch'[u] = in_batch[u]
          /\ all_trades'[u] = all_trades[u] /\ contents'[u] = contents[u]
    BY <1>4
  <2>3. \A x \in Numbers : made'[x] = made[x]
    BY <1>4, <1>6
  <2>4. HandedOnce
    BY DEF OptInv
  <2> QED BY <1>1, <1>4, <2>1, <2>2, <2>3, <2>4, HandedMoves
<1>10. ASSUME NEW x \in m + 1 .. m + n
       PROVE  /\ SumFunctionOnSet(Collected(x)', Producers) + Times(x, Waiting)' = 1
              /\ SumFunctionOnSet(Repeated(x)', Producers) = IF made'[x] THEN 1 ELSE 0
  <2>1. x \notin Numbers /\ x \in Nat
    BY <1>4, <1>6
  <2>2. /\ trades \in [Producers -> Seq(Numbers)] /\ all_trades \in [Producers -> Seq(Numbers)]
        /\ contents \in [Producers -> Seq(Contents(Numbers))] /\ Waiting \in Seq(Numbers)
    BY <1>1, WeightTypes DEF TradesTypeOK
  <2>3. \A u \in Producers :
          /\ Times(x, trades[u]) = 0 /\ Times(x, all_trades[u]) = 0
          /\ Copies(x, contents[u], "collected") = 0 /\ Copies(x, contents[u], "batch") = 0
    BY <2>1, <2>2, TimesType, CopiesType
  <2>4. Times(x, s) = 1
    BY <1>3, <1>4, TimesFresh
  <2>5. Times(x, Waiting)' = 0
    <3>1. Times(x, Waiting) = 0
      BY <2>1, <2>2, TimesType
    <3> QED BY <1>6, <3>1
  <2>6. PICK f, g, z : f = Collected(x)' /\ g = Repeated(x)' /\ z = [u \in Producers |-> 0]
    OBVIOUS
  <2>7. f[t] = 1 /\ \A u \in Producers \ {t} : f[u] = 0
    BY <1>4, <2>3, <2>4, <2>6 DEF Collected
  <2>8. g[t] = (IF made'[x] THEN 1 ELSE 0) /\ \A u \in Producers \ {t} : g[u] = 0
    <3>1. made'[x] = in_batch[t]
      BY <1>4
    <3>2. g[t] = 0 + 0 + IF in_batch[t] THEN 1 ELSE 0
      BY <1>4, <2>3, <2>4, <2>6 DEF Repeated
    <3>3. g[t] = IF in_batch[t] THEN 1 ELSE 0
      <4>1. CASE in_batch[t]
        <5>1. g[t] = 0 + 0 + 1
          BY <3>2, <4>1
        <5> QED BY <4>1, <5>1
      <4>2. CASE ~in_batch[t]
        <5>1. g[t] = 0 + 0 + 0
          BY <3>2, <4>2
        <5> QED BY <4>2, <5>1
      <4> QED BY <4>1, <4>2
    <3>4. ASSUME NEW u \in Producers \ {t} PROVE g[u] = 0
      <4>1. g[u] = 0 + 0 + IF in_batch[u] THEN 0 ELSE 0
        BY <1>4, <2>3, <2>6 DEF Repeated
      <4> QED BY <4>1
    <3> QED BY <3>1, <3>3, <3>4
  <2>9. SumFunctionOnSet(z, Producers) = 0 /\ z[t] = 0 /\ \A u \in Producers : z[u] = 0
    BY <2>6, SumOfZeros, PersistenceAssumption
  <2>10. SumFunctionOnSet(f, Producers) = 1
    <3>1. SumFunctionOnSet(f, Producers) = SumFunctionOnSet(z, Producers) - z[t] + f[t]
      <4>1. \A u \in Producers : z[u] \in Nat /\ f[u] \in Nat
        BY <2>7, <2>9
      <4>2. \A u \in Producers \ {t} : z[u] = f[u]
        BY <2>7, <2>9
      <4> QED BY <4>1, <4>2, SumMoves
    <3> QED BY <2>7, <2>9, <3>1
  <2>11. SumFunctionOnSet(g, Producers) = g[t]
    <3>1. SumFunctionOnSet(g, Producers) = SumFunctionOnSet(z, Producers) - z[t] + g[t]
      <4>1. \A u \in Producers : z[u] \in Nat /\ g[u] \in Nat
        BY <2>8, <2>9
      <4>2. \A u \in Producers \ {t} : z[u] = g[u]
        BY <2>8, <2>9
      <4> QED BY <4>1, <4>2, SumMoves
    <3>2. g[t] \in Nat
      BY <2>8
    <3> QED BY <2>9, <3>1, <3>2
  <2> QED BY <2>5, <2>6, <2>8, <2>10, <2>11
<1>11. HandedOnce'
  <2>1. \A x \in 1 .. m + n : x \in 1 .. m \/ x \in m + 1 .. m + n
    BY <1>4
  <2>2. \A x \in 1 .. m + n :
          /\ SumFunctionOnSet(Collected(x)', Producers) + Times(x, Waiting)' = 1
          /\ SumFunctionOnSet(Repeated(x)', Producers) = IF made'[x] THEN 1 ELSE 0
    BY <1>6, <1>9, <1>10, <2>1
  <2> QED BY <1>6, <2>2 DEF HandedOnce
<1>12. OnlyLateLeft'
  <2>1. pc'[Main] \notin {"stop", "stop pushes"} => pc[Main] \notin {"stop", "stop pushes"}
    BY <1>1, <1>4, <1>5, OptimizedAssumption DEF CallsTypeOK
  <2> QED BY <1>4, <1>5, <2>1 DEF OptInv, OnlyLateLeft
<1> QED BY <1>4, <1>8, <1>11, <1>12 DEF TradesKept

\* The steps that hand nothing on.
LEMMA OthersKeep ==
    ASSUME OptInv, UNCHANGED <<client, trades, in_batch, all_trades, batches, tradeVars>>,
           client = "engine" => UNCHANGED write_pos_
    PROVE  TradesTypeOK' /\ Room' /\ HandedOnce'
<1>1. UNCHANGED <<trade_batch_, batch_mutex_, contents, made, late>>
  BY DEF tradeVars
<1>2. Numbers' = Numbers /\ Waiting' = Waiting /\ Weights' = Weights
  BY <1>1 DEF Numbers, Waiting, Weights
<1>3. TradesTypeOK'
  BY <1>1, <1>2 DEF OptInv, UseInv, TradesTypeOK
<1>4. Room'
  BY <1>1, <1>2 DEF OptInv, UseInv, Room
<1>5. HandedOnce'
  <2>1. \A x : Collected(x)' = Collected(x) /\ Repeated(x)' = Repeated(x) /\ Times(x, Waiting)' = Times(x, Waiting)
    BY <1>1, <1>2 DEF Collected, Repeated
  <2> QED BY <1>1, <1>2, <2>1 DEF HandedOnce, OptInv
<1> QED BY <1>3, <1>4, <1>5

LEMMA OptInitial == OptimizedInit => OptInv
<1> SUFFICES ASSUME OptimizedInit PROVE OptInv
  OBVIOUS
<1>1. QueueInv
  BY QueueInitial DEF OptimizedInit
<1>2. /\ client \in Clients /\ engine_running_ = FALSE
      /\ pc = [t \in Producers |-> "idle"] /\ trades = [t \in Producers |-> <<>>]
      /\ in_batch = [t \in Producers |-> FALSE] /\ all_trades = [t \in Producers |-> <<>>]
      /\ trade_batch_ = <<>> /\ batch_mutex_ = Unlocked
      /\ contents = [t \in Producers |-> <<>>]
      /\ made = <<>> /\ late = {} /\ batches = 0
  BY DEF OptimizedInit
<1>3. CallsTypeOK
  <2>1. batches \in 0 .. MaxBatches /\ batch_mutex_ \in Producers \cup {Unlocked}
    BY <1>2, OptimizedAssumption
  <2>2. ASSUME NEW t \in Producers
        PROVE  pc[t] \in {"pushes", "stop pushes"} <=> batch_mutex_ = t
    <3>1. pc[t] = "idle" /\ batch_mutex_ # t
      BY <1>2, OptimizedAssumption
    <3> QED BY <3>1
  <2>3. pc \in [Producers -> Labels] /\ in_batch \in [Producers -> BOOLEAN]
    BY <1>2 DEF Labels
  <2> QED BY <1>2, <2>1, <2>2, <2>3 DEF CallsTypeOK
<1>4. Len(made) = 0 /\ made \in Seq(BOOLEAN) /\ Numbers = {}
  <2>1. <<>> \in Seq(BOOLEAN) /\ Len(<<>>) = 0
    OBVIOUS
  <2>2. Numbers = 1 .. 0
    BY <1>2, <2>1 DEF Numbers
  <2> QED BY <1>2, <2>1, <2>2
<1>5. TradesTypeOK
  <2>1. <<>> \in Seq(Numbers) /\ <<>> \in Seq(Contents(Numbers))
    OBVIOUS
  <2>2. Len(made) <= MaxTrades
    BY <1>4, OptimizedAssumption
  <2> QED BY <1>2, <1>4, <2>1, <2>2 DEF TradesTypeOK
<1>6. CallOrder
  <2>1. pushing = {}
    BY DEF OptimizedInit, Init, QueueInit
  <2> QED BY <1>2, <2>1 DEF CallOrder, StopLabels, PushLabels, Pushing
<1>7. Room
  <2>1. \A t \in Producers : Weights[t] = 0
    <3>1. Len(<<>>) = 0
      OBVIOUS
    <3>2. \A t \in Producers : Weights[t] = 0 + 0
      BY <1>2, <3>1 DEF Weights
    <3> QED BY <3>2
  <2>2. SumFunctionOnSet(Weights, Producers) = 0
    BY <2>1, SumOfZeros, PersistenceAssumption
  <2>3. write_pos_ = 0 /\ Len(Waiting) = 0
    BY <1>2 DEF OptimizedInit, Init, QueueInit, Waiting
  <2> QED BY <1>2, <1>4, <2>2, <2>3 DEF Room
<1>8. HandedOnce
  BY <1>4 DEF HandedOnce
<1>9. OnlyLateLeft
  <2>1. ToSet(<<>>) = {}
    BY DEF ToSet
  <2> QED BY <1>2, <2>1 DEF OnlyLateLeft
<1> QED BY <1>1, <1>3, <1>5, <1>6, <1>7, <1>8, <1>9 DEF OptInv, UseInv

LEMMA OptKept ==
    ASSUME OptInv, [OptimizedNext]_optimizedVars
    PROVE  OptInv'
<1>1. QueueInv /\ UseInv /\ CallsTypeOK /\ CallOrder
  BY DEF OptInv, UseInv
<1>2. [Next]_vars
  BY <1>1, EngineActs
<1>3. QueueInv'
  BY <1>1, <1>2, QueueKept
<1>4. CallsTypeOK' /\ CallOrder'
  BY <1>1, CallsKept
<1>5. SUFFICES TradesKept
  BY <1>3, <1>4 DEF TradesKept, OptInv, UseInv
<1>6. CASE UNCHANGED optimizedVars
  <2>1. UNCHANGED <<client, engine_running_, pc, trades, in_batch, all_trades, batches, tradeVars, write_pos_>>
    BY <1>6 DEF optimizedVars, callVars, vars, queueVars
  <2>2. OnlyLateLeft'
    BY <2>1 DEF OptInv, OnlyLateLeft, tradeVars
  <2> QED BY <2>1, <2>2, OthersKeep DEF TradesKept
<1>7. CASE client = "direct" /\ UNCHANGED <<client, engine_running_, callVars, tradeVars>>
  <2>1. UNCHANGED <<client, engine_running_, pc, trades, in_batch, all_trades, batches, tradeVars>>
    BY <1>7 DEF callVars
  <2>2. OnlyLateLeft'
    BY <2>1 DEF OptInv, OnlyLateLeft, tradeVars
  <2> QED BY <1>7, <2>1, <2>2, OthersKeep DEF TradesKept
<1>8. CASE client = "engine" /\ OptimizedNext
  <2>1. CASE \E t \in Producers, n \in {1, 2} : ProcessOrder(t, n)
    BY <1>3, <1>4, <1>8, <2>1, ProcessKeeps DEF ProcessOrder
  <2>2. CASE \E t \in Producers : PersistTradesBatch(t)
    BY <1>3, <1>4, <1>8, <2>2, CollectKeeps DEF PersistTradesBatch
  <2>3. CASE \E t \in Producers : BeginBatch(t)
    BY <1>3, <1>4, <1>8, <2>3, BeginBatchKeeps DEF BeginBatch
  <2>4. CASE \E t \in Producers : EndBatch(t)
    BY <1>3, <1>4, <1>8, <2>4, EndBatchKeeps DEF EndBatch
  <2>5. CASE \E t \in Producers : BatchHandedOver(t)
    BY <1>3, <1>4, <1>8, <2>5, HandedOverKeeps DEF BatchHandedOver
  <2>6. CASE StopHandsOver
    BY <1>3, <1>4, <1>8, <2>6, StopHandsKeeps DEF StopHandsOver
  <2>7. CASE \E t \in Producers : AllHandedOver(t)
    <3>1. PICK t \in Producers : AllHandedOver(t)
      BY <2>7
    <3>2. /\ pc[t] = "pushes all" /\ pc' = [pc EXCEPT ![t] = "idle"]
          /\ UNCHANGED <<client, engine_running_, trades, in_batch, all_trades, batches, tradeVars>>
      BY <3>1 DEF AllHandedOver, MovesTo
    <3>3. UNCHANGED write_pos_
      BY <1>1, <3>1, ReturnsPushes DEF AllHandedOver
    <3>4. pc'[Main] \notin {"stop", "stop pushes"} => pc[Main] \notin {"stop", "stop pushes"}
      BY <1>1, <3>2, OptimizedAssumption DEF CallsTypeOK
    <3>5. OnlyLateLeft'
      BY <3>2, <3>4 DEF OptInv, OnlyLateLeft, tradeVars
    <3> QED BY <3>2, <3>3, <3>5, OthersKeep DEF TradesKept
  <2>8. CASE StartEngine
    <3>1. UNCHANGED <<client, trades, in_batch, all_trades, batches, tradeVars, write_pos_>> /\ engine_running_'
      BY <2>8, OthersPush DEF StartEngine, callVars
    <3> QED BY <3>1, OthersKeep DEF TradesKept, OnlyLateLeft
  <2>9. CASE StopEngine
    <3>1. UNCHANGED <<client, trades, in_batch, all_trades, batches, tradeVars, write_pos_>>
          /\ pc' = [pc EXCEPT ![Main] = "stop"]
      BY <2>9 DEF StopEngine, MovesTo, vars, queueVars
    <3>2. pc'[Main] = "stop"
      BY <1>1, <3>1, OptimizedAssumption DEF CallsTypeOK
    <3> QED BY <3>1, <3>2, OthersKeep DEF TradesKept, OnlyLateLeft
  <2>10. CASE StopFlushes \/ StopEnds
    <3>1. /\ UNCHANGED <<client, engine_running_, trades, in_batch, all_trades, batches, tradeVars, write_pos_>>
          /\ pc[Main] \in {"stop flush", "stop flushes", "stop joins"}
      <4>1. CASE StopFlushes
        BY <4>1, OthersPush DEF StopFlushes
      <4>2. CASE StopEnds
        BY <4>2 DEF StopEnds, vars, queueVars
      <4> QED BY <2>10, <4>1, <4>2
    <3>2. OnlyLateLeft'
      BY <3>1 DEF OptInv, OnlyLateLeft, tradeVars
    <3> QED BY <3>1, <3>2, OthersKeep DEF TradesKept
  <2>11. CASE Background
    <3>1. UNCHANGED <<client, engine_running_, pc, trades, in_batch, all_trades, batches, tradeVars, write_pos_>>
      BY <2>11, OthersPush DEF Background, callVars
    <3>2. OnlyLateLeft'
      BY <3>1 DEF OptInv, OnlyLateLeft, tradeVars
    <3> QED BY <3>1, <3>2, OthersKeep DEF TradesKept
  <2> QED BY <1>8, <2>1, <2>2, <2>3, <2>4, <2>5, <2>6, <2>7, <2>8, <2>9, <2>10, <2>11
          DEF OptimizedNext, Orders, Returns
<1> QED BY <1>6, <1>7, <1>8 DEF OptimizedNext
-----------------------------------------------------------------------------
\* MatchingEngineOptimizedV3 calls the persistence as AsyncPersistence lets a client call
\* it: process_order_es, processOrderBatch, start and stop on any threads implement it.
THEOREM EngineUsesPersistence == OptimizedSpec => Spec
<1>1. OptimizedInit => Init
  BY DEF OptimizedInit
<1>2. OptInv /\ [OptimizedNext]_optimizedVars => [Next]_vars
  BY EngineActs DEF OptInv
<1>3. OptInv /\ [OptimizedNext]_optimizedVars => OptInv'
  BY OptKept
<1> QED BY <1>1, <1>2, <1>3, OptInitial, PTL DEF OptimizedSpec, Spec

\* Each trade is handed to the persistence once by way of trade_batch_ and, when
\* processOrderBatch made it, once more by that call, never more; what stop leaves in
\* trade_batch_ came while the engine was not running: for any threads and any batch size.
THEOREM TradesAllHandedOver == OptimizedSpec => []TradesHandedOver
<1>1. OptInv => CallsTypeOK /\ TradesTypeOK /\ HandedOnce /\ OnlyLateLeft
  BY DEF OptInv, UseInv
<1>2. OptInv /\ [OptimizedNext]_optimizedVars => OptInv'
  BY OptKept
<1>3. RecordsReachLog => TypeOK
  BY DEF RecordsReachLog
<1>4. TypeOK /\ CallsTypeOK /\ TradesTypeOK /\ HandedOnce /\ OnlyLateLeft => TradesHandedOver
  BY DEF TradesHandedOver, OptimizedTypeOK
<1> QED BY <1>1, <1>2, <1>3, <1>4, OptInitial, EngineUsesPersistence, RecordsStay, PTL DEF OptimizedSpec
=============================================================================
