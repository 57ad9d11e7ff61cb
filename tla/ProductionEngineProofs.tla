----------------------- MODULE ProductionEngineProofs -----------------------
(***************************************************************************)
(* The ring of the tasks implements a bounded queue, and what the log and  *)
(* the pipeline of ProductionEngine keep, for any number of orders and     *)
(* trades, any buffer size and any capacity of the ring.                   *)
(***************************************************************************)
EXTENDS ProductionEngine, SequenceTheorems, TLAPS

-----------------------------------------------------------------------------
(* The ring of the tasks, LockFreeSPSCQueue. *)

LEMMA MaskedBelow == ASSUME NEW i \in 0 .. Capacity - 1 PROVE Masked(i) = i
  BY SpscAssumption, SMT DEF Masked

LEMMA MaskedAbove == ASSUME NEW i \in Capacity .. 2 * Capacity - 1
                     PROVE  Masked(i) = i - Capacity
  BY SpscAssumption, SMT DEF Masked

LEMMA MaskedNegative == ASSUME NEW i \in Int, -Capacity < i, i < 0
                        PROVE  Masked(i) = i + Capacity
  BY SpscAssumption, SMT DEF Masked

\* A producer between its steps has room, a consumer between its steps has an
\* item: the other side may move meanwhile, but only away.
RingInv ==
    /\ RingTypeOK
    /\ filled => ~RingFull /\ buffer_[write_pos_] \in Item
    /\ taken => ~RingEmpty

\* The next slot, and how many items lie between two positions.
LEMMA NextSlot == ASSUME NEW p \in Slots
                  PROVE  /\ Masked(p + 1) \in Slots
                         /\ Masked(p + 1) = IF p + 1 = Capacity THEN 0 ELSE p + 1
  <1>1. CASE p + 1 = Capacity
    BY <1>1, MaskedAbove, SpscAssumption, SMT DEF Slots
  <1>2. CASE p + 1 # Capacity
    BY <1>2, MaskedBelow, SpscAssumption, SMT DEF Slots
  <1> QED BY <1>1, <1>2

LEMMA Distance == ASSUME NEW w \in Slots, NEW r \in Slots
                  PROVE  Masked(w - r) = IF r <= w THEN w - r ELSE w - r + Capacity
  <1>1. CASE r <= w
    BY <1>1, MaskedBelow, SpscAssumption, SMT DEF Slots
  <1>2. CASE ~(r <= w)
    BY <1>2, MaskedNegative, SpscAssumption, SMT DEF Slots
  <1> QED BY <1>1, <1>2

\* The slot of the k-th item after position r.
LEMMA SlotAt == ASSUME NEW r \in Slots, NEW k \in 0 .. Capacity - 1
                PROVE  /\ Masked(r + k) \in Slots
                       /\ Masked(r + k) = IF r + k < Capacity THEN r + k ELSE r + k - Capacity
  <1>1. CASE r + k < Capacity
    BY <1>1, MaskedBelow, SpscAssumption, SMT DEF Slots
  <1>2. CASE ~(r + k < Capacity)
    BY <1>2, MaskedAbove, SpscAssumption, SMT DEF Slots
  <1> QED BY <1>1, <1>2
-----------------------------------------------------------------------------
LEMMA RingInvInit == RingInit => RingInv
  <1>1. 0 \in Slots
    BY SpscAssumption, SMT DEF Slots
  <1> QED BY <1>1 DEF RingInit, RingInv, RingTypeOK

LEMMA RingInvNext == RingInv /\ [RingNext]_ringVars => RingInv'
  <1> SUFFICES ASSUME RingInv, [RingNext]_ringVars PROVE RingInv'
    OBVIOUS
  <1> USE DEF RingInv, RingTypeOK
  <1>w. /\ Masked(write_pos_ + 1) \in Slots
        /\ Masked(write_pos_ + 1) =
              IF write_pos_ + 1 = Capacity THEN 0 ELSE write_pos_ + 1
    BY NextSlot
  <1>r. /\ Masked(read_pos_ + 1) \in Slots
        /\ Masked(read_pos_ + 1) = IF read_pos_ + 1 = Capacity THEN 0 ELSE read_pos_ + 1
    BY NextSlot
  <1>1. ASSUME NEW x \in Item, PushFill(x) PROVE RingInv'
    BY <1>1 DEF PushFill, RingFull, RingEmpty, Masked
  <1>2. ASSUME NEW x \in Item, PopCopy(x) PROVE RingInv'
    BY <1>2 DEF PopCopy, RingFull, RingEmpty, Masked
  <1>3. CASE PushPublish
    BY <1>3, <1>w DEF PushPublish, RingFull, RingEmpty
  <1>4. CASE PopRelease
    <2>1. Masked(write_pos_ + 1) # Masked(read_pos_ + 1)
      BY <1>4, <1>w, <1>r, SpscAssumption, SMT DEF PopRelease, RingEmpty, Slots
    <2> QED
      BY <1>4, <1>r, <2>1 DEF PopRelease, RingFull, RingEmpty, Masked
  <1>5. CASE UNCHANGED ringVars
    BY <1>5 DEF ringVars, RingFull, RingEmpty, Masked
  <1> QED BY <1>1, <1>2, <1>3, <1>4, <1>5 DEF RingNext

\* Type correctness of the ring, with what each side may rely on between its steps.
THEOREM RingCorrect == RingSpec => []RingInv
  BY RingInvInit, RingInvNext, PTL DEF RingSpec
-----------------------------------------------------------------------------
LEMMA SizeShape ==
    ASSUME RingInv
    PROVE  /\ write_pos_ \in 0 .. Capacity - 1 /\ read_pos_ \in 0 .. Capacity - 1
           /\ RingSize \in 0 .. Capacity - 1
           /\ RingSize = IF read_pos_ <= write_pos_ THEN write_pos_ - read_pos_
                                                    ELSE write_pos_ - read_pos_ + Capacity
  <1>1. write_pos_ \in Slots /\ read_pos_ \in Slots
    BY DEF RingInv, RingTypeOK
  <1>2. RingSize = IF read_pos_ <= write_pos_ THEN write_pos_ - read_pos_
                                              ELSE write_pos_ - read_pos_ + Capacity
    BY <1>1, Distance DEF RingSize
  <1> QED BY <1>1, <1>2, SpscAssumption, SMT DEF Slots

\* How many items there are, and where each of them lies.
LEMMA ContentsShape ==
    ASSUME RingInv
    PROVE  /\ RingSize \in 0 .. Capacity - 1
           /\ Contents \in Seq(Item \cup {NoItem})
           /\ Len(Contents) = RingSize
           /\ \A i \in 1 .. RingSize :
                 /\ Masked(read_pos_ + i - 1) \in Slots
                 /\ Masked(read_pos_ + i - 1) # write_pos_
                 /\ Contents[i] = buffer_[Masked(read_pos_ + i - 1)]
  <1> USE DEF RingInv, RingTypeOK
  <1>1. RingSize = IF read_pos_ <= write_pos_ THEN write_pos_ - read_pos_
                                              ELSE write_pos_ - read_pos_ + Capacity
    BY SizeShape
  <1>2. RingSize \in 0 .. Capacity - 1
    BY SizeShape
  <1>3. ASSUME NEW i \in 1 .. RingSize
        PROVE  /\ Masked(read_pos_ + i - 1) \in Slots
               /\ Masked(read_pos_ + i - 1) # write_pos_
    <2>1. i - 1 \in 0 .. Capacity - 1 /\ read_pos_ + i - 1 = read_pos_ + (i - 1)
      BY <1>2, SpscAssumption, SMT DEF Slots
    <2>2. /\ Masked(read_pos_ + (i - 1)) \in Slots
          /\ Masked(read_pos_ + (i - 1)) =
                IF read_pos_ + (i - 1) < Capacity THEN read_pos_ + (i - 1)
                                                  ELSE read_pos_ + (i - 1) - Capacity
      BY <2>1, SlotAt
    <2> QED BY <1>1, <2>1, <2>2, SpscAssumption, SMT DEF Slots
  <1>4. \A i \in 1 .. RingSize : Contents[i] = buffer_[Masked(read_pos_ + i - 1)]
    BY DEF Contents
  <1>5. Contents \in Seq(Item \cup {NoItem}) /\ Len(Contents) = RingSize
    <2>1. Contents \in [1 .. RingSize -> Item \cup {NoItem}]
      BY <1>3 DEF Contents
    <2> QED BY <1>2, <2>1, SpscAssumption, SMT
  <1> QED BY <1>1, <1>2, <1>3, <1>4, <1>5

LEMMA FifoInit == RingInit => Fifo!Init
  <1> SUFFICES ASSUME RingInit PROVE Contents = <<>> /\ taken = FALSE
    BY DEF Fifo!Init
  <1>1. RingInv BY RingInvInit
  <1>2. RingSize = 0
    BY <1>1, SizeShape, SMT DEF RingInit
  <1> QED BY <1>1, <1>2, ContentsShape, SMT DEF RingInit

\* Filling the slot of the producer is a stutter: no item lies there.
LEMMA FillStutters ==
    ASSUME RingInv, RingInv', NEW x \in Item, PushFill(x)
    PROVE  UNCHANGED <<Contents, taken>>
  <1>1. RingSize' = RingSize
    BY DEF PushFill, RingSize, Masked
  <1>2. \A i \in 1 .. RingSize : Masked(read_pos_ + i - 1)' = Masked(read_pos_ + i - 1)
    BY DEF PushFill, Masked
  <1>3. \A i \in 1 .. RingSize :
           buffer_'[Masked(read_pos_ + i - 1)] = buffer_[Masked(read_pos_ + i - 1)]
    BY ContentsShape DEF PushFill, RingInv, RingTypeOK
  <1> QED BY <1>1, <1>2, <1>3 DEF Contents, PushFill

\* Releasing the position of the producer appends the item.
LEMMA PublishPushes ==
    ASSUME RingInv, RingInv', PushPublish
    PROVE  Fifo!Push(buffer_[write_pos_]) /\ buffer_[write_pos_] \in Item
  <1> DEFINE x == buffer_[write_pos_]
  <1>w. Masked(write_pos_ + 1) = IF write_pos_ + 1 = Capacity THEN 0 ELSE write_pos_ + 1
    BY NextSlot DEF RingInv, RingTypeOK
  <1>1. x \in Item /\ ~RingFull /\ write_pos_' = Masked(write_pos_ + 1)
        /\ read_pos_' = read_pos_ /\ buffer_' = buffer_
    BY DEF PushPublish, RingInv
  <1>2. RingSize < Capacity - 1 /\ RingSize' = RingSize + 1
    <2>1. RingSize' = IF read_pos_ <= write_pos_'
                        THEN write_pos_' - read_pos_
                        ELSE write_pos_' - read_pos_ + Capacity
      BY <1>1, Distance DEF RingSize, RingInv, RingTypeOK, Masked, Slots
    <2>2. write_pos_' = IF write_pos_ + 1 = Capacity THEN 0 ELSE write_pos_ + 1
      BY <1>1, <1>w
    <2>3. write_pos_' # read_pos_
      BY <1>1 DEF RingFull
    <2> QED BY <2>1, <2>2, <2>3, SizeShape, SpscAssumption, SMT
  <1>3. Masked(read_pos_ + RingSize) = write_pos_
    <2>1. Masked(read_pos_ + RingSize) =
             IF read_pos_ + RingSize < Capacity THEN read_pos_ + RingSize
                                                ELSE read_pos_ + RingSize - Capacity
      BY ContentsShape, SlotAt DEF RingInv, RingTypeOK
    <2> QED BY <2>1, SizeShape, SpscAssumption, SMT
  <1>4. Contents' = Append(Contents, x)
    <2>1. Contents' = [i \in 1 .. RingSize + 1 |-> buffer_[Masked(read_pos_ + i - 1)]]
      BY <1>1, <1>2 DEF Contents, Masked
    <2>2. \A i \in 1 .. RingSize + 1 :
             Contents'[i] = IF i <= RingSize THEN Contents[i] ELSE x
      <3> TAKE i \in 1 .. RingSize + 1
      <3>1. CASE i <= RingSize
        BY <3>1, <2>1, ContentsShape, SMT
      <3>2. CASE i = RingSize + 1
        <4>1. read_pos_ + i - 1 = read_pos_ + RingSize
          BY <3>2, ContentsShape, SpscAssumption, SMT DEF RingInv, RingTypeOK, Slots
        <4> QED BY <4>1, <3>2, <2>1, <1>3, ContentsShape, SMT
      <3> QED BY <3>1, <3>2, ContentsShape, SMT
    <2> QED BY <2>1, <2>2, ContentsShape, <1>1, SMT
  <1> QED BY <1>1, <1>2, <1>4, ContentsShape DEF Fifo!Push, PushPublish

\* Releasing the position of the consumer removes the first item.
LEMMA ReleasePops ==
    ASSUME RingInv, RingInv', PopRelease
    PROVE  Fifo!EndPop
  <1>r. Masked(read_pos_ + 1) = IF read_pos_ + 1 = Capacity THEN 0 ELSE read_pos_ + 1
    BY NextSlot DEF RingInv, RingTypeOK
  <1>1. ~RingEmpty /\ read_pos_' = Masked(read_pos_ + 1)
        /\ write_pos_' = write_pos_ /\ buffer_' = buffer_
    BY DEF PopRelease, RingInv
  <1>2. RingSize > 0 /\ RingSize' = RingSize - 1
    <2>1. RingSize' = IF read_pos_' <= write_pos_
                        THEN write_pos_ - read_pos_'
                        ELSE write_pos_ - read_pos_' + Capacity
      BY <1>1, Distance DEF RingSize, RingInv, RingTypeOK, Masked, Slots
    <2>2. read_pos_' = IF read_pos_ + 1 = Capacity THEN 0 ELSE read_pos_ + 1
      BY <1>1, <1>r
    <2>3. write_pos_ # read_pos_
      BY <1>1 DEF RingEmpty
    <2> QED BY <2>1, <2>2, <2>3, SizeShape, SpscAssumption, SMT
  <1>3. Contents' = [i \in 1 .. RingSize - 1 |-> buffer_[Masked(Masked(read_pos_ + 1) + i - 1)]]
    BY <1>1, <1>2 DEF Contents, Masked
  <1>4. ASSUME NEW i \in 1 .. RingSize - 1
        PROVE  Masked(Masked(read_pos_ + 1) + i - 1) = Masked(read_pos_ + (i + 1) - 1)
    <2>1. /\ i - 1 \in 0 .. Capacity - 1 /\ i \in 0 .. Capacity - 1
          /\ Masked(read_pos_ + 1) + i - 1 = Masked(read_pos_ + 1) + (i - 1)
          /\ read_pos_ + (i + 1) - 1 = read_pos_ + i
      BY <1>r, ContentsShape, SpscAssumption, SMT DEF RingInv, RingTypeOK, Slots
    <2>2. Masked(read_pos_ + i) = IF read_pos_ + i < Capacity THEN read_pos_ + i
                                                              ELSE read_pos_ + i - Capacity
      BY <2>1, SlotAt DEF RingInv, RingTypeOK
    <2>3. Masked(Masked(read_pos_ + 1) + (i - 1)) =
             IF Masked(read_pos_ + 1) + (i - 1) < Capacity
               THEN Masked(read_pos_ + 1) + (i - 1)
               ELSE Masked(read_pos_ + 1) + (i - 1) - Capacity
      BY <2>1, SlotAt, NextSlot DEF RingInv, RingTypeOK
    <2> QED BY <2>1, <2>2, <2>3, <1>r, ContentsShape, SpscAssumption, SMT
            DEF RingInv, RingTypeOK, Slots
  <1>5. Contents' = Tail(Contents)
    <2>1. \A i \in 1 .. RingSize - 1 : Contents'[i] = Contents[i + 1]
      <3> TAKE i \in 1 .. RingSize - 1
      <3>1. i + 1 \in 1 .. RingSize
        BY ContentsShape, SMT
      <3>2. Contents[i + 1] = buffer_[Masked(read_pos_ + (i + 1) - 1)]
        BY <3>1, ContentsShape
      <3> QED BY <3>2, <1>3, <1>4
    <2>2. /\ Contents \in Seq(Item \cup {NoItem}) /\ Len(Contents) = RingSize
          /\ RingSize \in Nat /\ RingSize > 0
      BY <1>2, ContentsShape, SpscAssumption, SMT
    <2>3. Contents # <<>>
      BY <2>2, SMT
    <2>4. /\ Tail(Contents) \in Seq(Item \cup {NoItem})
          /\ Len(Tail(Contents)) = RingSize - 1
          /\ \A i \in 1 .. RingSize - 1 : Tail(Contents)[i] = Contents[i + 1]
      BY <2>2, <2>3, HeadTailProperties
    <2>5. Contents' \in Seq(Item \cup {NoItem}) /\ Len(Contents') = RingSize - 1
      <3>1. \A i \in 1 .. RingSize - 1 : Contents[i + 1] \in Item \cup {NoItem}
        BY <2>2, <2>4, SMT
      <3>2. Contents' \in [1 .. RingSize - 1 -> Item \cup {NoItem}]
        BY <1>3, <2>1, <3>1
      <3>3. RingSize - 1 \in Nat
        BY <2>2, SMT
      <3> QED BY <3>2, <3>3, SMT
    <2> QED BY <2>1, <2>4, <2>5, SeqEqual
  <1> QED BY <1>5 DEF Fifo!EndPop, PopRelease

LEMMA FifoStep ==
    RingInv /\ RingInv' /\ [RingNext]_ringVars => [Fifo!Next]_<<Contents, taken>>
  <1> SUFFICES ASSUME RingInv, RingInv', [RingNext]_ringVars
               PROVE  Fifo!Next \/ UNCHANGED <<Contents, taken>>
    OBVIOUS
  <1>1. ASSUME NEW x \in Item, PushFill(x) PROVE UNCHANGED <<Contents, taken>>
    BY <1>1, FillStutters
  <1>2. ASSUME NEW x \in Item, PopCopy(x) PROVE Fifo!BeginPop
    <2>1. Contents' = Contents
      BY <1>2 DEF PopCopy, Contents, RingSize, Masked
    <2>2. Contents # <<>>
      BY <1>2, ContentsShape, SpscAssumption, SMT DEF PopCopy, RingEmpty, RingInv, RingTypeOK, Slots
    <2> QED BY <1>2, <2>1, <2>2 DEF Fifo!BeginPop, PopCopy
  <1>3. CASE PushPublish
    BY <1>3, PublishPushes DEF Fifo!Next
  <1>4. CASE PopRelease
    BY <1>4, ReleasePops DEF Fifo!Next
  <1>5. CASE UNCHANGED ringVars
    BY <1>5 DEF ringVars, Contents, RingSize, Masked
  <1> QED BY <1>1, <1>2, <1>3, <1>4, <1>5 DEF RingNext, Fifo!Next

\* The ring is a bounded queue, first in, first out, with one slot less than its
\* buffer, whatever the capacity and however often the positions wrap.
THEOREM RingIsFifo == RingSpec => ActsAsFifo
  <1>1. RingInit => Fifo!Init BY FifoInit
  <1>2. RingInv /\ RingInv' /\ [RingNext]_ringVars => [Fifo!Next]_<<Contents, taken>>
    BY FifoStep
  <1> QED BY <1>1, <1>2, RingCorrect, PTL DEF RingSpec, ActsAsFifo, Fifo!Spec

-----------------------------------------------------------------------------
(* What is marked committed has been synced. *)

Upto(n) == Seq(1 .. n)

\* The log holds the orders in the order they were sent.
LogInv ==
    /\ sent \in 0 .. MaxSent
    /\ wal = [i \in 1 .. sent |-> i]
    /\ processed \subseteq 1 .. sent
    /\ engine # "idle" => sent > 0

\* A collected batch was in the log before its fsync began, so it lies within
\* synced when the batch is marked.
GroupInv ==
    /\ synced \in 0 .. sent
    /\ committed \in 0 .. synced
    /\ batch_buffer_ \in Upto(sent)
    /\ to_flush \in Upto(sent)
    /\ flusher \in {"sync", "mark"} => to_flush # <<>>
    /\ flusher = "mark" => to_flush \in Upto(synced)

CommitInv == LogInv /\ GroupInv

LEMMA SentBound == MaxSent \in Nat /\ (\A n \in 1 .. MaxSent : n \in Item /\ n \in Orders)
  BY ProductionAssumption, SMT DEF MaxSent

LEMMA UptoGrows == ASSUME NEW m \in Nat, NEW n \in Nat, m <= n, NEW s \in Upto(m)
                   PROVE  s \in Upto(n)
  <1>1. s \in [1 .. Len(s) -> 1 .. m] /\ Len(s) \in Nat
    BY LenProperties DEF Upto
  <1>2. s \in [1 .. Len(s) -> 1 .. n]
    BY <1>1, SMT
  <1> QED BY <1>1, <1>2, SMT DEF Upto

LEMMA LastIn == ASSUME NEW n \in Nat, NEW s \in Upto(n), s # <<>>
                PROVE  Last(s) \in 1 .. n
  <1>1. s \in [1 .. Len(s) -> 1 .. n] /\ Len(s) \in Nat /\ Len(s) # 0
    BY LenProperties, EmptySeq DEF Upto
  <1> QED BY <1>1, SMT DEF Last

LEMMA CommitInit == Init => CommitInv
  BY SentBound, SMT DEF Init, CommitInv, LogInv, GroupInv, Upto

\* What the actions outside the log and its groups leave alone.
commitVars == <<sent, engine, processed, wal, synced, committed, batch_buffer_, to_flush, flusher>>

LEMMA CommitNext == CommitInv /\ [Next]_vars => CommitInv'
  <1> SUFFICES ASSUME CommitInv, [Next]_vars PROVE CommitInv'
    OBVIOUS
  <1> USE DEF CommitInv, LogInv, GroupInv
  <1>0. ASSUME UNCHANGED commitVars PROVE CommitInv'
    BY <1>0 DEF commitVars
  <1>1. CASE AppendToWal
    <2>1. sent' = sent + 1 /\ sent < MaxSent /\ wal' = Append(wal, sent + 1)
          /\ UNCHANGED <<processed, synced, committed, batch_buffer_, to_flush, flusher>>
      BY <1>1 DEF AppendToWal, groupVars
    <2>2. wal' = [i \in 1 .. sent' |-> i]
      BY <2>1, SMT
    <2>3. LogInv'
      BY <2>1, <2>2, SentBound, SMT
    <2>4. batch_buffer_' \in Upto(sent') /\ to_flush' \in Upto(sent')
      BY <2>1, UptoGrows, SMT
    <2>5. synced' \in 0 .. sent' /\ committed' \in 0 .. synced'
      BY <2>1, SMT
    <2> QED BY <2>1, <2>3, <2>4, <2>5 DEF Upto
  <1>2. CASE Engine
    <2>0. UNCHANGED <<synced, committed, to_flush, flusher>>
      BY <1>2 DEF Engine, RefuseOrder, TakeOrder, DropTask, FillTask, PublishTask, AddToBatch, groupVars
    <2>1. engine # "idle" /\ UNCHANGED <<sent, wal>>
      BY <1>2 DEF Engine, RefuseOrder, TakeOrder, DropTask, FillTask, PublishTask, AddToBatch
    <2>2. processed' \subseteq 1 .. sent
      <3>1. sent \in 1 .. sent
        BY <2>1, SMT
      <3> QED BY <1>2, <3>1 DEF Engine, RefuseOrder, TakeOrder, DropTask, FillTask, PublishTask, AddToBatch
    <2>3. batch_buffer_' \in Upto(sent)
      <3>1. sent \in 1 .. sent
        BY <2>1, SMT
      <3>2. CASE AddToBatch
        BY <3>1, <3>2, AppendProperties DEF AddToBatch, Upto
      <3>3. CASE ~AddToBatch
        BY <1>2, <3>3 DEF Engine, RefuseOrder, TakeOrder, DropTask, FillTask, PublishTask
      <3> QED BY <3>2, <3>3
    <2> QED BY <2>0, <2>1, <2>2, <2>3 DEF Upto
  <1>3. CASE Flusher
    <2>1. CASE FlusherGoesOn
      BY <2>1 DEF FlusherGoesOn, engineVars, Upto
    <2>2. CASE NotDue
      BY <2>2 DEF NotDue, engineVars, Upto
    <2>3. CASE Collect
      <3>1. <<>> \in Upto(sent)
        BY SMT DEF Upto
      <3> QED BY <2>3, <3>1 DEF Collect, Upto
    <2>4. CASE Sync
      <3>1. synced' = sent /\ UNCHANGED <<engineVars, committed, to_flush>> /\ flusher' = "mark"
        <4>1. Len(wal) = sent
          BY SMT
        <4> QED BY <2>4, <4>1 DEF Sync
      <3>2. committed' \in 0 .. synced' /\ synced' \in 0 .. sent
        BY <3>1, SMT
      <3> QED BY <2>4, <3>1, <3>2 DEF Sync, engineVars, Upto
    <2>5. CASE MarkCommitted
      <3>1. committed' \in 0 .. synced
        BY <2>5, LastIn, SMT DEF MarkCommitted, Marked
      <3>2. <<>> \in Upto(sent)
        BY SMT DEF Upto
      <3> QED BY <2>5, <3>1, <3>2 DEF MarkCommitted, engineVars, Upto
    <2>6. CASE SyncFails
      <3>1. <<>> \in Upto(sent)
        BY SMT DEF Upto
      <3> QED BY <2>6, <3>1 DEF SyncFails, engineVars, Upto
    <2>7. CASE FlusherExits
      BY <2>7 DEF FlusherExits, engineVars, Upto
    <2> QED BY <1>3, <2>1, <2>2, <2>3, <2>4, <2>5, <2>6, <2>7 DEF Flusher
  <1>4. CASE Worker
    BY <1>0, <1>4 DEF Worker, WorkerPop, WorkerReleases, WorkerLogs, WorkerPushes, WorkerExits,
                      commitVars, engineVars, groupVars
  <1>5. CASE WriterSteps
    BY <1>0, <1>5 DEF WriterSteps, commitVars, engineVars, groupVars
  <1>6. CASE Shutdown
    BY <1>0, <1>6 DEF Shutdown, commitVars, groupVars
  <1>7. CASE Owner
    BY <1>0, <1>7 DEF Owner, FlusherJoined, StopWorker, WorkerJoined, WriterJoined, ShutdownDone,
                      commitVars, engineVars, groupVars
  <1>8. CASE UNCHANGED vars
    BY <1>0, <1>8 DEF vars, commitVars, engineVars, groupVars
  <1> QED BY <1>1, <1>2, <1>3, <1>4, <1>5, <1>6, <1>7, <1>8 DEF Next

\* What mark_committed covers has reached the disk, whatever is appended between
\* the collection of a batch, its fsync and its mark.
THEOREM CommitsSynced == Spec => []CommittedIsSynced
  <1>1. CommitInv => CommittedIsSynced
    <2> SUFFICES ASSUME CommitInv, NEW n \in processed, n <= committed
                 PROVE  n \in ToSet(SubSeq(wal, 1, synced))
      BY DEF CommittedIsSynced
    <2> USE DEF CommitInv, LogInv, GroupInv
    <2>1. n \in 1 .. synced /\ synced \in 0 .. sent
      BY SMT
    <2>2. wal \in Seq(1 .. sent) /\ Len(wal) = sent
      BY SMT
    <2>3. DOMAIN SubSeq(wal, 1, synced) = 1 .. synced /\ SubSeq(wal, 1, synced)[n] = n
      BY <2>1, <2>2, SMT
    <2> QED BY <2>1, <2>3 DEF ToSet
  <1> QED BY <1>1, CommitInit, CommitNext, PTL DEF Spec
-----------------------------------------------------------------------------
(* The task ring between engine and worker. *)

\* Every action is one of the ring's or leaves the ring alone.
LEMMA RingStep == CommitInv /\ [Next]_vars => [RingNext]_ringVars
  <1> SUFFICES ASSUME CommitInv, [Next]_vars PROVE RingNext \/ UNCHANGED ringVars
    OBVIOUS
  <1>1. CASE AppendToWal
    BY <1>1 DEF AppendToWal
  <1>2. CASE Engine
    <2>1. CASE RefuseOrder BY <2>1 DEF RefuseOrder
    <2>2. CASE TakeOrder BY <2>2 DEF TakeOrder
    <2>3. CASE DropTask BY <2>3 DEF DropTask
    <2>4. CASE FillTask
      <3>1. sent \in 1 .. MaxSent
        BY <2>4, SMT DEF FillTask, CommitInv, LogInv
      <3> QED BY <2>4, <3>1, SentBound DEF FillTask, RingNext
    <2>5. CASE PublishTask BY <2>5 DEF PublishTask, RingNext
    <2>6. CASE AddToBatch BY <2>6 DEF AddToBatch
    <2> QED BY <1>2, <2>1, <2>2, <2>3, <2>4, <2>5, <2>6 DEF Engine
  <1>3. CASE Flusher
    BY <1>3 DEF Flusher, FlusherGoesOn, NotDue, Collect, Sync, SyncFails, MarkCommitted,
                FlusherExits
  <1>4. CASE Worker
    <2>1. CASE WorkerPop
      BY <2>1, ProductionAssumption DEF WorkerPop, RingNext
    <2>2. CASE WorkerReleases BY <2>2 DEF WorkerReleases, RingNext
    <2>3. CASE WorkerLogs BY <2>3 DEF WorkerLogs
    <2>4. CASE WorkerPushes BY <2>4 DEF WorkerPushes
    <2>5. CASE WorkerExits BY <2>5 DEF WorkerExits
    <2> QED BY <1>4, <2>1, <2>2, <2>3, <2>4, <2>5 DEF Worker
  <1>5. CASE WriterSteps BY <1>5 DEF WriterSteps
  <1>6. CASE Shutdown BY <1>6 DEF Shutdown
  <1>7. CASE Owner
    BY <1>7 DEF Owner, FlusherJoined, StopWorker, WorkerJoined, WriterJoined, ShutdownDone
  <1>8. CASE UNCHANGED vars BY <1>8 DEF vars
  <1> QED BY <1>1, <1>2, <1>3, <1>4, <1>5, <1>6, <1>7, <1>8 DEF Next

\* Engine and worker use the ring as its two threads may, so that between them it is
\* a bounded queue, first in, first out, whatever its size.
THEOREM TaskRingIsFifo == Spec => ActsAsFifo
  <1>1. Init => RingInit
    BY DEF Init
  <1>2. Spec => RingSpec
    BY <1>1, CommitInit, CommitNext, RingStep, PTL DEF Spec, RingSpec
  <1> QED BY <1>2, RingIsFifo
-----------------------------------------------------------------------------
(* Sequences: what the moves between them keep. *)

LEMMA ToSetOf == ASSUME NEW S, NEW s \in Seq(S)
                 PROVE  /\ ToSet(s) = {s[i] : i \in 1 .. Len(s)} /\ ToSet(s) \subseteq S
                        /\ DOMAIN s = 1 .. Len(s) /\ Len(s) \in Nat
  BY LenProperties DEF ToSet

LEMMA ToSetAppended == ASSUME NEW S, NEW s \in Seq(S), NEW e \in S
                       PROVE  ToSet(Append(s, e)) = ToSet(s) \cup {e}
  <1>1. /\ Append(s, e) \in Seq(S) /\ Len(Append(s, e)) = Len(s) + 1 /\ Len(s) \in Nat
        /\ \A i \in 1 .. Len(s) : Append(s, e)[i] = s[i]
        /\ Append(s, e)[Len(s) + 1] = e
    BY AppendProperties, LenProperties
  <1>2. /\ ToSet(Append(s, e)) = {Append(s, e)[i] : i \in 1 .. Len(s) + 1}
        /\ ToSet(s) = {s[i] : i \in 1 .. Len(s)}
    BY <1>1, ToSetOf
  <1>3. \A i : i \in 1 .. Len(s) + 1 <=> i \in 1 .. Len(s) \/ i = Len(s) + 1
    BY <1>1, SMT
  <1> QED BY <1>1, <1>2, <1>3, Zenon

LEMMA ToSetSplit == ASSUME NEW S, NEW s \in Seq(S), s # <<>>
                    PROVE  ToSet(s) = {Head(s)} \cup ToSet(Tail(s))
  <1>1. /\ Tail(s) \in Seq(S) /\ Len(Tail(s)) = Len(s) - 1 /\ Len(s) \in Nat \ {0}
        /\ \A i \in 1 .. Len(Tail(s)) : Tail(s)[i] = s[i + 1]
        /\ Head(s) = s[1]
    BY HeadTailProperties, EmptySeq
  <1>2. /\ ToSet(Tail(s)) = {Tail(s)[i] : i \in 1 .. Len(Tail(s))}
        /\ ToSet(s) = {s[i] : i \in 1 .. Len(s)}
    BY <1>1, ToSetOf
  <1>3. \A i \in 1 .. Len(s) : i = 1 \/ (i - 1 \in 1 .. Len(Tail(s)) /\ (i - 1) + 1 = i)
    BY <1>1, SMT
  <1>4. \A i \in 1 .. Len(Tail(s)) : i + 1 \in 1 .. Len(s)
    BY <1>1, SMT
  <1>5. 1 \in 1 .. Len(s)
    BY <1>1, SMT
  <1>6. ASSUME NEW x \in ToSet(s) PROVE x = Head(s) \/ x \in ToSet(Tail(s))
    <2>1. PICK i \in 1 .. Len(s) : x = s[i]
      BY <1>2
    <2>2. CASE i = 1 BY <2>1, <2>2, <1>1
    <2>3. CASE i - 1 \in 1 .. Len(Tail(s)) /\ (i - 1) + 1 = i
      BY <2>1, <2>3, <1>1, <1>2, Zenon
    <2> QED BY <2>2, <2>3, <1>3
  <1>7. ASSUME NEW x \in ToSet(Tail(s)) PROVE x \in ToSet(s)
    BY <1>1, <1>2, <1>4, Zenon
  <1> QED BY <1>1, <1>2, <1>5, <1>6, <1>7

LEMMA TailShape == ASSUME NEW S, NEW s \in Seq(S), s # <<>>
                   PROVE  /\ Tail(s) \in Seq(S) /\ Len(Tail(s)) = Len(s) - 1
                          /\ Len(s) \in Nat \ {0} /\ Head(s) = s[1] /\ DOMAIN s = 1 .. Len(s)
                          /\ \A i \in 1 .. Len(Tail(s)) : Tail(s)[i] = s[i + 1]
                          /\ DOMAIN Tail(s) = 1 .. Len(s) - 1
                          /\ ToSet(Tail(s)) = {Tail(s)[i] : i \in 1 .. Len(Tail(s))}
  <1>1. /\ Tail(s) \in Seq(S) /\ Len(Tail(s)) = Len(s) - 1 /\ Len(s) \in Nat \ {0}
        /\ \A i \in 1 .. Len(Tail(s)) : Tail(s)[i] = s[i + 1]
        /\ Head(s) = s[1]
    BY HeadTailProperties, EmptySeq
  <1>2. DOMAIN s = 1 .. Len(s) /\ DOMAIN Tail(s) = 1 .. Len(Tail(s))
    BY <1>1, LenProperties
  <1>3. ToSet(Tail(s)) = {Tail(s)[i] : i \in 1 .. Len(Tail(s))}
    BY <1>1, ToSetOf
  <1> QED BY <1>1, <1>2, <1>3

LEMMA EmptyToSet == ToSet(<<>>) = {}
  BY SMT DEF ToSet

LEMMA HeadOfConcat == ASSUME NEW S, NEW s \in Seq(S), s # <<>>, NEW r \in Seq(S)
                      PROVE  /\ s \o r # <<>>
                             /\ Head(s \o r) = Head(s) /\ Tail(s \o r) = Tail(s) \o r
  <1>1. /\ Tail(s) \in Seq(S) /\ Len(Tail(s)) = Len(s) - 1 /\ Len(s) \in Nat \ {0}
        /\ \A i \in 1 .. Len(Tail(s)) : Tail(s)[i] = s[i + 1]
        /\ Head(s) = s[1] /\ Len(r) \in Nat
    BY HeadTailProperties, EmptySeq, LenProperties
  <1>2. /\ s \o r \in Seq(S) /\ Len(s \o r) = Len(s) + Len(r)
        /\ \A i \in 1 .. Len(s) + Len(r) :
              (s \o r)[i] = IF i <= Len(s) THEN s[i] ELSE r[i - Len(s)]
    BY ConcatProperties
  <1>3. s \o r # <<>>
    BY <1>1, <1>2, EmptySeq
  <1>4. /\ Tail(s \o r) \in Seq(S) /\ Len(Tail(s \o r)) = Len(s) + Len(r) - 1
        /\ \A i \in 1 .. Len(s) + Len(r) - 1 : Tail(s \o r)[i] = (s \o r)[i + 1]
        /\ Head(s \o r) = (s \o r)[1]
    BY <1>2, <1>3, HeadTailProperties
  <1>5. /\ Tail(s) \o r \in Seq(S) /\ Len(Tail(s) \o r) = Len(s) - 1 + Len(r)
        /\ \A i \in 1 .. Len(s) - 1 + Len(r) :
              (Tail(s) \o r)[i] = IF i <= Len(s) - 1 THEN Tail(s)[i] ELSE r[i - (Len(s) - 1)]
    BY <1>1, ConcatProperties
  <1>6. ASSUME NEW i \in 1 .. Len(s) + Len(r) - 1
        PROVE  Tail(s \o r)[i] = (Tail(s) \o r)[i]
    <2>1. /\ Tail(s \o r)[i] = (s \o r)[i + 1]
          /\ i + 1 \in 1 .. Len(s) + Len(r) /\ i \in 1 .. Len(s) - 1 + Len(r)
      BY <1>1, <1>4, SMT
    <2>2. CASE i <= Len(s) - 1
      <3>1. i + 1 <= Len(s) /\ i \in 1 .. Len(Tail(s))
        BY <2>2, <1>1, SMT
      <3> QED BY <2>1, <2>2, <3>1, <1>1, <1>2, <1>5
    <2>3. CASE ~(i <= Len(s) - 1)
      <3>1. ~(i + 1 <= Len(s)) /\ i + 1 - Len(s) = i - (Len(s) - 1)
        BY <2>3, <1>1, SMT
      <3> QED BY <2>1, <2>3, <3>1, <1>2, <1>5
    <2> QED BY <2>2, <2>3
  <1>7. Len(Tail(s \o r)) = Len(Tail(s) \o r)
    BY <1>1, <1>4, <1>5, SMT
  <1>8. Tail(s \o r) = Tail(s) \o r
    BY <1>4, <1>5, <1>6, <1>7, SeqEqual
  <1>9. Head(s \o r) = Head(s)
    BY <1>1, <1>2, <1>4, SMT
  <1> QED BY <1>3, <1>8, <1>9

\* Taking the head of a queue to the end of a buffer leaves their concatenation alone.
Joined(s, b, q) == (s \o b) \o q

LEMMA CarryHead == ASSUME NEW S, NEW s \in Seq(S), NEW b \in Seq(S), NEW q \in Seq(S), q # <<>>
                   PROVE  Joined(s, Append(b, Head(q)), Tail(q)) = Joined(s, b, q)
  <1>1. Head(q) \in S /\ Tail(q) \in Seq(S) /\ <<Head(q)>> \in Seq(S)
    BY HeadTailProperties, SMT
  <1>2. Append(b, Head(q)) = b \o <<Head(q)>>
    BY <1>1, SMT
  <1>3. q = <<Head(q)>> \o Tail(q)
    <2>1. <<Head(q)>> # <<>> /\ Head(<<Head(q)>>) = Head(q) /\ Tail(<<Head(q)>>) = <<>>
      BY <1>1, SMT
    <2> QED BY <1>1, SMT
  <1>4. PICK h \in Seq(S) : h = <<Head(q)>>
    BY <1>1
  <1>5. PICK t \in Seq(S) : t = Tail(q)
    BY <1>1
  <1>6. PICK c \in Seq(S) : c = b \o h
    BY ConcatProperties
  <1>7. (s \o c) \o t = s \o (c \o t)
    BY SMT
  <1>8. (b \o h) \o t = b \o (h \o t)
    BY SMTT(30)
  <1>9. (s \o b) \o q = s \o (b \o q)
    BY SMT
  <1> QED BY <1>2, <1>3, <1>4, <1>5, <1>6, <1>7, <1>8, <1>9, Zenon DEF Joined
-----------------------------------------------------------------------------
(* The paths of the records, apart from where the program keeps them. *)

EntriesOfAll(ns) == UNION {ToSet(EntriesOf(n)) : n \in ns}
Remaining(begun, waiting) == ToSet(begun) \cup EntriesOfAll(ToSet(waiting))
Increasing(ns) == \A i, j \in DOMAIN ns : i < j => ns[i] < ns[j]

\* PathsComplete, and that a record a full queue dropped was produced, before all
\* those that remain to be logged: none of these is among the dropped.
PathTypes(tp, op, begun, waiting, made, dropped) ==
    /\ tp \in Seq(Entry) /\ op \in Seq(Entry)
    /\ begun \in Seq(Entry) /\ waiting \in Seq(Orders)
    /\ made \subseteq Entry /\ dropped \subseteq made

Partition(tp, op, begun, waiting, made, dropped) ==
    (ToSet(tp) \cup ToSet(op)) \cup Remaining(begun, waiting) = made \ dropped

Ordered(tp, op, begun, waiting) ==
    /\ \A e \in ToSet(tp) : IsTradeEntry(e)
    /\ \A e \in ToSet(op) : ~IsTradeEntry(e)
    /\ InOrder(tp) /\ InOrder(op) /\ InOrder(begun)
    /\ \A e \in ToSet(begun), n \in ToSet(waiting) : e.order < n
    /\ Increasing(waiting)

Behind(done, begun, waiting) == \A e \in done, f \in Remaining(begun, waiting) : Before(e, f)

Paths(tp, op, begun, waiting, made, dropped) ==
    /\ PathTypes(tp, op, begun, waiting, made, dropped)
    /\ Partition(tp, op, begun, waiting, made, dropped)
    /\ Ordered(tp, op, begun, waiting)
    /\ Behind((ToSet(tp) \cup ToSet(op)) \cup dropped, begun, waiting)

LEMMA OrderNumbers == Orders = 1 .. MaxSent /\ MaxSent \in Nat /\ Orders \subseteq Int
  <1>1. MaxSent \in Nat
    BY SentBound
  <1> QED BY <1>1, ProductionAssumption, SMT

LEMMA EntryShape == \A e \in Entry : e.order \in Orders /\ e.order \in Int /\ e.k \in Int
  BY OrderNumbers, BufferAssumption, SMT DEF Entry

LEMMA InOrderAppended ==
    ASSUME NEW s \in Seq(Entry), NEW e \in Entry, InOrder(s), \A x \in ToSet(s) : Before(x, e)
    PROVE  InOrder(Append(s, e))
  <1>1. /\ Append(s, e) \in Seq(Entry) /\ Len(Append(s, e)) = Len(s) + 1 /\ Len(s) \in Nat
        /\ \A i \in 1 .. Len(s) : Append(s, e)[i] = s[i]
        /\ Append(s, e)[Len(s) + 1] = e
        /\ DOMAIN Append(s, e) = 1 .. Len(s) + 1 /\ DOMAIN s = 1 .. Len(s)
    BY AppendProperties, LenProperties
  <1> SUFFICES ASSUME NEW i \in 1 .. Len(s) + 1, NEW j \in 1 .. Len(s) + 1, i < j
               PROVE  Before(Append(s, e)[i], Append(s, e)[j])
    BY <1>1 DEF InOrder
  <1>2. i \in 1 .. Len(s) /\ (j \in 1 .. Len(s) \/ j = Len(s) + 1)
    BY <1>1, SMT
  <1>3. CASE j \in 1 .. Len(s)
    BY <1>1, <1>2, <1>3 DEF InOrder
  <1>4. CASE j = Len(s) + 1
    <2>1. s[i] \in ToSet(s)
      BY <1>2, ToSetOf
    <2> QED BY <1>1, <1>2, <1>4, <2>1
  <1> QED BY <1>2, <1>3, <1>4

LEMMA InOrderTail ==
    ASSUME NEW s \in Seq(Entry), s # <<>>, InOrder(s)
    PROVE  InOrder(Tail(s)) /\ (\A f \in ToSet(Tail(s)) : Before(Head(s), f))
  <1>1. /\ Len(Tail(s)) = Len(s) - 1 /\ Len(s) \in Nat \ {0}
        /\ \A i \in 1 .. Len(Tail(s)) : Tail(s)[i] = s[i + 1]
        /\ Head(s) = s[1] /\ DOMAIN s = 1 .. Len(s)
        /\ DOMAIN Tail(s) = 1 .. Len(s) - 1
        /\ ToSet(Tail(s)) = {Tail(s)[i] : i \in 1 .. Len(Tail(s))}
    BY TailShape
  <1>2. \A i \in 1 .. Len(s) - 1 : i + 1 \in 1 .. Len(s) /\ 1 < i + 1 /\ 1 \in 1 .. Len(s)
    BY <1>1, SMT
  <1>3. \A i, j \in 1 .. Len(s) - 1 : i < j => i + 1 < j + 1
    BY <1>1, SMT
  <1>4. InOrder(Tail(s))
    BY <1>1, <1>2, <1>3, SMT DEF InOrder
  <1>5. \A f \in ToSet(Tail(s)) : Before(Head(s), f)
    BY <1>1, <1>2, SMT DEF InOrder
  <1> QED BY <1>4, <1>5

LEMMA EmptyInOrder == InOrder(<<>>) /\ Increasing(<<>>)
  BY SMT DEF InOrder, Increasing

LEMMA IncreasingAppended ==
    ASSUME NEW s \in Seq(Orders), NEW n \in Orders, Increasing(s), \A m \in ToSet(s) : m < n
    PROVE  Increasing(Append(s, n))
  <1>1. /\ Append(s, n) \in Seq(Orders) /\ Len(Append(s, n)) = Len(s) + 1 /\ Len(s) \in Nat
        /\ \A i \in 1 .. Len(s) : Append(s, n)[i] = s[i]
        /\ Append(s, n)[Len(s) + 1] = n
        /\ DOMAIN Append(s, n) = 1 .. Len(s) + 1 /\ DOMAIN s = 1 .. Len(s)
    BY AppendProperties, LenProperties
  <1> SUFFICES ASSUME NEW i \in 1 .. Len(s) + 1, NEW j \in 1 .. Len(s) + 1, i < j
               PROVE  Append(s, n)[i] < Append(s, n)[j]
    BY <1>1 DEF Increasing
  <1>2. i \in 1 .. Len(s) /\ (j \in 1 .. Len(s) \/ j = Len(s) + 1)
    BY <1>1, SMT
  <1>3. CASE j \in 1 .. Len(s)
    BY <1>1, <1>2, <1>3 DEF Increasing
  <1>4. CASE j = Len(s) + 1
    <2>1. s[i] \in ToSet(s)
      BY <1>2, ToSetOf
    <2> QED BY <1>1, <1>2, <1>4, <2>1
  <1> QED BY <1>2, <1>3, <1>4

LEMMA IncreasingTail ==
    ASSUME NEW s \in Seq(Orders), s # <<>>, Increasing(s)
    PROVE  Increasing(Tail(s)) /\ (\A n \in ToSet(Tail(s)) : Head(s) < n)
  <1>1. /\ Len(Tail(s)) = Len(s) - 1 /\ Len(s) \in Nat \ {0}
        /\ \A i \in 1 .. Len(Tail(s)) : Tail(s)[i] = s[i + 1]
        /\ Head(s) = s[1] /\ DOMAIN s = 1 .. Len(s)
        /\ DOMAIN Tail(s) = 1 .. Len(s) - 1
        /\ ToSet(Tail(s)) = {Tail(s)[i] : i \in 1 .. Len(Tail(s))}
    BY TailShape
  <1>2. \A i \in 1 .. Len(s) - 1 : i + 1 \in 1 .. Len(s) /\ 1 < i + 1 /\ 1 \in 1 .. Len(s)
    BY <1>1, SMT
  <1>3. \A i, j \in 1 .. Len(s) - 1 : i < j => i + 1 < j + 1
    BY <1>1, SMT
  <1>4. Increasing(Tail(s))
    BY <1>1, <1>2, <1>3, SMT DEF Increasing
  <1>5. \A n \in ToSet(Tail(s)) : Head(s) < n
    BY <1>1, <1>2, SMT DEF Increasing
  <1> QED BY <1>4, <1>5

LEMMA EntriesShape ==
    ASSUME NEW n \in Orders
    PROVE  /\ EntriesOf(n) \in Seq(Entry) /\ InOrder(EntriesOf(n))
           /\ \A e \in ToSet(EntriesOf(n)) : e \in Entry /\ e.order = n
           /\ \E e \in ToSet(EntriesOf(n)) : e.k = 0
  <1>1. PICK t \in 0 .. MaxTrades : t = TradesOf[n]
    <2>1. TradesOf \in Seq(0 .. MaxTrades) /\ n \in 1 .. Len(TradesOf)
      BY ProductionAssumption, OrderNumbers DEF MaxSent
    <2>2. TradesOf[n] \in 0 .. MaxTrades
      BY <2>1, ElementOfSeq, Zenon
    <2> QED BY <2>2, Zenon
  <1>2. t \in Nat /\ MaxTrades \in Nat /\ t + 1 \in Nat /\ t <= MaxTrades
    BY <1>1, BufferAssumption, SMT
  <1> DEFINE en(i) == [order |-> n, k |-> IF i > t THEN 0 ELSE i]
  <1>3. EntriesOf(n) = [i \in 1 .. t + 1 |-> en(i)]
    BY <1>1 DEF EntriesOf
  <1>4. \A i \in 1 .. t + 1 : en(i) \in Entry /\ en(i).order = n
    BY <1>2, SMT DEF Entry
  <1>5. EntriesOf(n) \in Seq(Entry) /\ Len(EntriesOf(n)) = t + 1
    <2>1. [i \in 1 .. t + 1 |-> en(i)] \in [1 .. t + 1 -> Entry]
      BY <1>4
    <2> HIDE DEF en
    <2> QED BY <2>1, <1>2, <1>3, SMT
  <1>6. ToSet(EntriesOf(n)) = {en(i) : i \in 1 .. t + 1}
    <2> HIDE DEF en
    <2> QED BY <1>3, <1>5, Zenon DEF ToSet
  <1>7. InOrder(EntriesOf(n))
    <2> SUFFICES ASSUME NEW i \in 1 .. t + 1, NEW j \in 1 .. t + 1, i < j
                 PROVE  Before(en(i), en(j))
      <3>1. DOMAIN EntriesOf(n) = 1 .. t + 1 /\ \A i \in 1 .. t + 1 : EntriesOf(n)[i] = en(i)
        BY <1>3
      <3> HIDE DEF en
      <3> QED BY <3>1, Zenon DEF InOrder
    <2>1. en(i).order = n /\ en(j).order = n /\ en(i).k = i
      BY <1>2, SMT
    <2>2. en(j).k = 0 \/ en(j).k = j
      OBVIOUS
    <2>3. en(i).k # en(j).k
      BY <1>2, <2>1, <2>2, SMT
    <2>4. en(i) # en(j)
      BY <2>3
    <2>5. en(j).k = 0 \/ en(i).k < en(j).k
      BY <2>1, <2>2
    <2> HIDE DEF en
    <2> QED BY <2>1, <2>4, <2>5 DEF Before
  <1>8. t + 1 \in 1 .. t + 1 /\ en(t + 1).k = 0
    BY <1>2, SMT
  <1> HIDE DEF en
  <1> QED BY <1>4, <1>5, <1>6, <1>7, <1>8

LEMMA NotBeforeItself == \A e \in Entry : ~Before(e, e)
  BY EntryShape, SMT DEF Before

\* The entry at the head of what was begun comes before all the others that remain.
LEMMA PathHead ==
    ASSUME NEW tp, NEW op, NEW b, NEW w, NEW made, NEW d, Paths(tp, op, b, w, made, d),
           b # <<>>
    PROVE  /\ Head(b) \in Entry /\ Tail(b) \in Seq(Entry)
           /\ Remaining(b, w) = {Head(b)} \cup Remaining(Tail(b), w)
           /\ \A f \in Remaining(Tail(b), w) : Before(Head(b), f)
           /\ Head(b) \notin Remaining(Tail(b), w)
           /\ Head(b) \notin (ToSet(tp) \cup ToSet(op)) \cup d
           /\ Head(b) \in made
           /\ InOrder(Tail(b)) /\ \A e \in ToSet(Tail(b)), n \in ToSet(w) : e.order < n
  <1> USE DEF Paths
  <1>1. b \in Seq(Entry) /\ w \in Seq(Orders) /\ InOrder(b) /\ ToSet(w) \subseteq Orders
        /\ \A e \in ToSet(b), n \in ToSet(w) : e.order < n
    BY ToSetOf DEF PathTypes, Ordered
  <1>2. Head(b) \in Entry /\ Tail(b) \in Seq(Entry) /\ ToSet(b) = {Head(b)} \cup ToSet(Tail(b))
    BY <1>1, HeadTailProperties, ToSetSplit
  <1>3. Remaining(b, w) = {Head(b)} \cup Remaining(Tail(b), w)
    BY <1>2 DEF Remaining
  <1>4. InOrder(Tail(b)) /\ \A f \in ToSet(Tail(b)) : Before(Head(b), f)
    BY <1>1, InOrderTail
  <1>5. ASSUME NEW f \in EntriesOfAll(ToSet(w)) PROVE Before(Head(b), f)
    <2>1. PICK n \in ToSet(w) : f \in ToSet(EntriesOf(n))
      BY DEF EntriesOfAll
    <2>2. n \in Orders /\ f.order = n /\ Head(b).order < n
      BY <1>1, <1>2, <2>1, EntriesShape
    <2> QED BY <2>2 DEF Before
  <1>6. \A f \in Remaining(Tail(b), w) : Before(Head(b), f)
    BY <1>4, <1>5 DEF Remaining
  <1>7. Head(b) \notin Remaining(Tail(b), w)
    BY <1>2, <1>6, NotBeforeItself
  <1>8. Head(b) \notin (ToSet(tp) \cup ToSet(op)) \cup d
    BY <1>2, <1>3, NotBeforeItself DEF Behind
  <1>9. Head(b) \in made
    BY <1>3 DEF Partition
  <1> QED BY <1>1, <1>2, <1>3, <1>4, <1>6, <1>7, <1>8, <1>9

LEMMA PathLogsTrade ==
    ASSUME NEW tp, NEW op, NEW b, NEW w, NEW made, NEW d, Paths(tp, op, b, w, made, d),
           b # <<>>, IsTradeEntry(Head(b))
    PROVE  Paths(Append(tp, Head(b)), op, Tail(b), w, made, d)
  <1>1. tp \in Seq(Entry) /\ op \in Seq(Entry) /\ w \in Seq(Orders) /\ Head(b) \in Entry
        /\ Tail(b) \in Seq(Entry) /\ Append(tp, Head(b)) \in Seq(Entry)
    BY PathHead, AppendProperties DEF Paths, PathTypes
  <1>2. ToSet(Append(tp, Head(b))) = ToSet(tp) \cup {Head(b)}
    BY <1>1, ToSetAppended
  <1>3. PathTypes(Append(tp, Head(b)), op, Tail(b), w, made, d)
    BY <1>1 DEF Paths, PathTypes
  <1>4. Partition(Append(tp, Head(b)), op, Tail(b), w, made, d)
    BY <1>2, PathHead DEF Paths, Partition
  <1>5. Ordered(Append(tp, Head(b)), op, Tail(b), w)
    <2>1. \A x \in ToSet(tp) : Before(x, Head(b))
      BY PathHead DEF Paths, Behind
    <2>2. InOrder(Append(tp, Head(b)))
      BY <1>1, <2>1, InOrderAppended DEF Paths, Ordered
    <2> QED BY <1>2, <2>2, PathHead DEF Paths, Ordered
  <1>6. Behind((ToSet(Append(tp, Head(b))) \cup ToSet(op)) \cup d, Tail(b), w)
    BY <1>2, PathHead DEF Paths, Behind
  <1> QED BY <1>3, <1>4, <1>5, <1>6 DEF Paths

LEMMA PathLogsOrder ==
    ASSUME NEW tp, NEW op, NEW b, NEW w, NEW made, NEW d, Paths(tp, op, b, w, made, d),
           b # <<>>, ~IsTradeEntry(Head(b))
    PROVE  Paths(tp, Append(op, Head(b)), Tail(b), w, made, d)
  <1>1. tp \in Seq(Entry) /\ op \in Seq(Entry) /\ w \in Seq(Orders) /\ Head(b) \in Entry
        /\ Tail(b) \in Seq(Entry) /\ Append(op, Head(b)) \in Seq(Entry)
    BY PathHead, AppendProperties DEF Paths, PathTypes
  <1>2. ToSet(Append(op, Head(b))) = ToSet(op) \cup {Head(b)}
    BY <1>1, ToSetAppended
  <1>3. PathTypes(tp, Append(op, Head(b)), Tail(b), w, made, d)
    BY <1>1 DEF Paths, PathTypes
  <1>4. Partition(tp, Append(op, Head(b)), Tail(b), w, made, d)
    BY <1>2, PathHead DEF Paths, Partition
  <1>5. Ordered(tp, Append(op, Head(b)), Tail(b), w)
    <2>1. \A x \in ToSet(op) : Before(x, Head(b))
      BY PathHead DEF Paths, Behind
    <2>2. InOrder(Append(op, Head(b)))
      BY <1>1, <2>1, InOrderAppended DEF Paths, Ordered
    <2> QED BY <1>2, <2>2, PathHead DEF Paths, Ordered
  <1>6. Behind((ToSet(tp) \cup ToSet(Append(op, Head(b)))) \cup d, Tail(b), w)
    BY <1>2, PathHead DEF Paths, Behind
  <1> QED BY <1>3, <1>4, <1>5, <1>6 DEF Paths

LEMMA PathLoses ==
    ASSUME NEW tp, NEW op, NEW b, NEW w, NEW made, NEW d, Paths(tp, op, b, w, made, d),
           b # <<>>
    PROVE  Paths(tp, op, Tail(b), w, made, d \cup {Head(b)})
  <1>1. PathTypes(tp, op, Tail(b), w, made, d \cup {Head(b)})
    BY PathHead DEF Paths, PathTypes
  <1>2. Partition(tp, op, Tail(b), w, made, d \cup {Head(b)})
    BY PathHead DEF Paths, Partition
  <1>3. Ordered(tp, op, Tail(b), w)
    BY PathHead DEF Paths, Ordered
  <1>4. Behind((ToSet(tp) \cup ToSet(op)) \cup (d \cup {Head(b)}), Tail(b), w)
    BY PathHead DEF Paths, Behind
  <1> QED BY <1>1, <1>2, <1>3, <1>4 DEF Paths

\* The worker begins the first task that waits.
LEMMA PathBegins ==
    ASSUME NEW tp, NEW op, NEW w, NEW made, NEW d, Paths(tp, op, <<>>, w, made, d), w # <<>>
    PROVE  Paths(tp, op, EntriesOf(Head(w)), Tail(w), made, d)
  <1>1. w \in Seq(Orders) /\ Increasing(w)
    BY DEF Paths, PathTypes, Ordered
  <1>2. Head(w) \in Orders /\ Tail(w) \in Seq(Orders)
        /\ ToSet(w) = {Head(w)} \cup ToSet(Tail(w))
    BY <1>1, HeadTailProperties, ToSetSplit
  <1>3. Remaining(EntriesOf(Head(w)), Tail(w)) = Remaining(<<>>, w)
    BY <1>2, EmptyToSet DEF Remaining, EntriesOfAll
  <1>4. EntriesOf(Head(w)) \in Seq(Entry) /\ InOrder(EntriesOf(Head(w)))
        /\ \A e \in ToSet(EntriesOf(Head(w))) : e.order = Head(w)
    BY <1>2, EntriesShape
  <1>5. Increasing(Tail(w)) /\ (\A n \in ToSet(Tail(w)) : Head(w) < n)
    BY <1>1, IncreasingTail
  <1>6. PathTypes(tp, op, EntriesOf(Head(w)), Tail(w), made, d)
    BY <1>2, <1>4 DEF Paths, PathTypes
  <1>7. Ordered(tp, op, EntriesOf(Head(w)), Tail(w))
    BY <1>4, <1>5 DEF Paths, Ordered
  <1> QED BY <1>3, <1>6, <1>7 DEF Paths, Partition, Behind

\* Another order is taken, after all that was produced before.
LEMMA PathTakes ==
    ASSUME NEW tp, NEW op, NEW b, NEW w, NEW made, NEW d, Paths(tp, op, b, w, made, d),
           NEW n \in Orders, \A e \in made : e.order < n
    PROVE  Paths(tp, op, b, Append(w, n), made \cup ToSet(EntriesOf(n)), d)
  <1> DEFINE new == ToSet(EntriesOf(n))
  <1>1. w \in Seq(Orders) /\ ToSet(w) \subseteq Orders /\ Increasing(w)
    BY ToSetOf DEF Paths, PathTypes, Ordered
  <1>2. Append(w, n) \in Seq(Orders) /\ ToSet(Append(w, n)) = ToSet(w) \cup {n}
    BY <1>1, AppendProperties, ToSetAppended
  <1>3. Remaining(b, Append(w, n)) = Remaining(b, w) \cup new
    BY <1>2 DEF Remaining, EntriesOfAll
  <1>4. \A e \in new : e \in Entry /\ e.order = n
    BY EntriesShape
  <1>5. n \in Int /\ ~(n < n)
    BY OrderNumbers, SMT
  <1>6. \A e \in made : e \notin new
    BY <1>4, <1>5
  <1>7. d \subseteq made /\ ToSet(b) \subseteq made
        /\ ToSet(tp) \cup ToSet(op) \subseteq made
        /\ \A m \in ToSet(w) : ToSet(EntriesOf(m)) \subseteq made
    BY DEF Paths, PathTypes, Partition, Remaining, EntriesOfAll
  <1>8. \A m \in ToSet(w) : m < n
    <2> TAKE m \in ToSet(w)
    <2>1. PICK e \in ToSet(EntriesOf(m)) : e.order = m
      BY <1>1, EntriesShape
    <2> QED BY <1>7, <2>1
  <1>9. Increasing(Append(w, n))
    BY <1>1, <1>8, IncreasingAppended
  <1>10. PathTypes(tp, op, b, Append(w, n), made \cup new, d)
    BY <1>2, <1>4 DEF Paths, PathTypes
  <1>11. Partition(tp, op, b, Append(w, n), made \cup new, d)
    <2> HIDE DEF new
    <2> QED BY <1>3, <1>6, <1>7 DEF Paths, Partition
  <1>12. Ordered(tp, op, b, Append(w, n))
    BY <1>2, <1>7, <1>9 DEF Paths, Ordered
  <1>13. Behind((ToSet(tp) \cup ToSet(op)) \cup d, b, Append(w, n))
    <2>1. \A e \in (ToSet(tp) \cup ToSet(op)) \cup d, f \in new : Before(e, f)
      BY <1>4, <1>7 DEF Before
    <2> HIDE DEF new
    <2> QED BY <1>3, <2>1 DEF Paths, Behind
  <1> QED BY <1>10, <1>11, <1>12, <1>13 DEF Paths

\* The task that came last is refused, with all that it would have recorded.
LEMMA PathRefuses ==
    ASSUME NEW tp, NEW op, NEW b, NEW w \in Seq(Orders), NEW n \in Orders, NEW made, NEW d,
           Paths(tp, op, b, Append(w, n), made, d)
    PROVE  Paths(tp, op, b, w, made \ ToSet(EntriesOf(n)), d)
  <1> DEFINE new == ToSet(EntriesOf(n))
  <1>1. ToSet(Append(w, n)) = ToSet(w) \cup {n} /\ ToSet(w) \subseteq Orders
    BY ToSetAppended, ToSetOf
  <1>2. Remaining(b, Append(w, n)) = Remaining(b, w) \cup new
    BY <1>1 DEF Remaining, EntriesOfAll
  <1>3. \A e \in new : e \in Entry /\ e.order = n
    BY EntriesShape
  <1>4. Increasing(w) /\ \A m \in ToSet(w) : m < n
    <2>1. /\ Len(Append(w, n)) = Len(w) + 1 /\ Len(w) \in Nat
          /\ \A i \in 1 .. Len(w) : Append(w, n)[i] = w[i]
          /\ Append(w, n)[Len(w) + 1] = n
          /\ DOMAIN Append(w, n) = 1 .. Len(w) + 1 /\ DOMAIN w = 1 .. Len(w)
          /\ ToSet(w) = {w[i] : i \in 1 .. Len(w)}
      <3>1. Append(w, n) \in Seq(Orders) /\ Len(Append(w, n)) = Len(w) + 1
            /\ (\A i \in 1 .. Len(w) : Append(w, n)[i] = w[i])
            /\ Append(w, n)[Len(w) + 1] = n
        BY AppendProperties
      <3> QED BY <3>1, LenProperties, ToSetOf
    <2>2. \A i, j \in 1 .. Len(w) + 1 : i < j => Append(w, n)[i] < Append(w, n)[j]
      BY <2>1 DEF Paths, Ordered, Increasing
    <2>3. \A i \in 1 .. Len(w) : i \in 1 .. Len(w) + 1 /\ i < Len(w) + 1
                                 /\ Len(w) + 1 \in 1 .. Len(w) + 1
      BY <2>1, SMT
    <2>4. Increasing(w)
      BY <2>1, <2>2, <2>3, SMT DEF Increasing
    <2>5. \A m \in ToSet(w) : m < n
      BY <2>1, <2>2, <2>3, SMT
    <2> QED BY <2>4, <2>5
  <1>5. n \in Int /\ ~(n < n)
    BY OrderNumbers, SMT
  <1>6. \A f \in Remaining(b, w) : f \notin new
    <2>1. \A f \in ToSet(b) : f.order < n
      BY <1>1 DEF Paths, Ordered
    <2>2. ASSUME NEW f \in EntriesOfAll(ToSet(w)) PROVE f.order < n
      <3>1. PICK m \in ToSet(w) : f \in ToSet(EntriesOf(m))
        BY DEF EntriesOfAll
      <3>2. m \in Orders /\ m < n /\ f.order = m
        BY <1>1, <1>4, <3>1, EntriesShape
      <3> QED BY <3>2
    <2> QED BY <1>3, <1>5, <2>1, <2>2 DEF Remaining
  <1>7. \A e \in (ToSet(tp) \cup ToSet(op)) \cup d : e \notin new
    BY <1>2, <1>3, NotBeforeItself DEF Paths, Behind
  <1>8. PathTypes(tp, op, b, w, made \ new, d)
    <2> HIDE DEF new
    <2> QED BY <1>7 DEF Paths, PathTypes
  <1>9. Partition(tp, op, b, w, made \ new, d)
    <2> HIDE DEF new
    <2> QED BY <1>2, <1>6, <1>7 DEF Paths, Partition
  <1>10. Ordered(tp, op, b, w)
    BY <1>1, <1>4 DEF Paths, Ordered
  <1>11. Behind((ToSet(tp) \cup ToSet(op)) \cup d, b, w)
    BY <1>2 DEF Paths, Behind
  <1> QED BY <1>8, <1>9, <1>10, <1>11 DEF Paths
-----------------------------------------------------------------------------
(* The phases of the threads and of the shutdown. *)

FlagTypes ==
    /\ initialized_ \in BOOLEAN /\ shutdown_requested_ \in BOOLEAN /\ has_data \in BOOLEAN
    /\ overlap \in BOOLEAN /\ sync_failed \in BOOLEAN /\ shutting_down_ \in BOOLEAN
    /\ persistence_running_ \in BOOLEAN /\ flush_running_ \in BOOLEAN

PhaseTypes ==
    /\ writer \in {"trades", "orders", "decide", "next", "wait", "exited"}
    /\ manager \in {"idle", "join", "last flush"}
    /\ engine \in {"idle", "process", "enqueue", "publish", "batch"}
    /\ flusher \in {"top", "collect", "sync", "mark", "exited"}
    /\ worker \in {"pop", "release", "exited"}
    /\ owner \in {"idle", "flusher", "v2", "worker", "writer", "done"}

\* Where the shutdown stands, and what the threads it has joined left behind.
PhaseInv ==
    /\ PhaseTypes
    /\ worker = "exited" => ~persistence_running_ /\ logging = None /\ todo = <<>>
    /\ ~persistence_running_ => owner \in {"worker", "writer", "done"}
    /\ owner \in {"writer", "done"} => worker = "exited"
    /\ shutdown_requested_ => owner \in {"writer", "done"}
    /\ ~initialized_ => owner = "done"
    /\ manager # "idle" => owner = "writer"
    /\ manager = "last flush" => writer = "exited"
    /\ owner = "done" => writer = "exited" /\ QueuesEmpty

\* Without an order in the meantime nothing is left in the ring.
QuietInv ==
    /\ owner # "idle" /\ ~overlap => engine \in {"idle", "process"}
    /\ worker = "exited" /\ ~overlap => RingEmpty

\* The ring's two threads are where engine and worker say.
TaskInv ==
    /\ filled => engine = "publish"
    /\ engine = "publish" => buffer_[write_pos_] = sent
    /\ worker = "release" => taken
    /\ taken => worker = "release"
    /\ full \subseteq processed
    /\ engine = "process" => sent \notin processed
    /\ engine \in {"enqueue", "publish"} => sent \in processed \ full

LEMMA FlagsInit == Init => FlagTypes
  BY DEF Init, PersistInit, FlagTypes

LEMMA FlagsNext == FlagTypes /\ [Next]_vars => FlagTypes'
  <1> SUFFICES ASSUME FlagTypes, [Next]_vars PROVE FlagTypes'
    OBVIOUS
  <1> USE DEF FlagTypes, persistVars, writerVars, flagVars, logVars, engineVars, groupVars,
              workerVars, ownerVars
  <1>1. CASE AppendToWal BY <1>1 DEF AppendToWal
  <1>2. CASE Engine
    <2>1. CASE RefuseOrder BY <2>1 DEF RefuseOrder
    <2>2. CASE TakeOrder BY <2>2 DEF TakeOrder
    <2>3. CASE DropTask BY <2>3 DEF DropTask
    <2>4. CASE FillTask BY <2>4 DEF FillTask
    <2>5. CASE PublishTask BY <2>5 DEF PublishTask
    <2>6. CASE AddToBatch BY <2>6 DEF AddToBatch
    <2> QED BY <1>2, <2>1, <2>2, <2>3, <2>4, <2>5, <2>6 DEF Engine
  <1>3. CASE Flusher
    <2>1. CASE SyncFails BY <2>1 DEF SyncFails
    <2>2. CASE ~SyncFails
      <3>1. sync_failed' = sync_failed /\ overlap' = overlap /\ UNCHANGED <<persistVars, ownerVars>>
        BY <1>3, <2>2 DEF Flusher, FlusherGoesOn, NotDue, Collect, Sync, MarkCommitted, FlusherExits
      <3> QED BY <3>1
    <2> QED BY <2>1, <2>2
  <1>4. CASE Worker
    BY <1>4 DEF Worker, WorkerPop, WorkerReleases, WorkerLogs, LogCheck, WorkerPushes, LogPush,
                WorkerExits
  <1>5. CASE WriterSteps
    BY <1>5 DEF WriterSteps, Writer, DrainTrade, TradesDrained, DrainOrder, OrdersDrained,
                WriteBatches, Hold, NextTurn, LastWrite
  <1>6. CASE Shutdown BY <1>6 DEF Shutdown
  <1>7. CASE Owner
    BY <1>7 DEF Owner, FlusherJoined, StopWorker, WorkerJoined, WriterJoined, ShutdownDone,
                RequestShutdown, JoinWriter, ShutdownReturns
  <1>8. CASE UNCHANGED vars BY <1>8 DEF vars
  <1> QED BY <1>1, <1>2, <1>3, <1>4, <1>5, <1>6, <1>7, <1>8 DEF Next

LEMMA PhaseInit == Init => PhaseInv /\ QuietInv
  BY DEF Init, PersistInit, RingInit, PhaseInv, PhaseTypes, QuietInv

LEMMA PhaseNext == PhaseInv /\ [Next]_vars => PhaseInv'
  <1> SUFFICES ASSUME PhaseInv, [Next]_vars PROVE PhaseInv'
    OBVIOUS
  <1> USE DEF PhaseInv, PhaseTypes, QueuesEmpty
  <1> DEFINE others == <<writer, manager, worker, owner, initialized_, shutdown_requested_,
                         persistence_running_, logging, todo, trade_queue_, order_queue_>>
  <1>0. ASSUME UNCHANGED others, engine' \in {"idle", "process", "enqueue", "publish", "batch"},
               flusher' \in {"top", "collect", "sync", "mark", "exited"}
        PROVE  PhaseInv'
    BY <1>0
  <1>1. CASE AppendToWal
    BY <1>1 DEF AppendToWal, persistVars, writerVars, flagVars, logVars, groupVars, workerVars, ownerVars
  <1>2. CASE Engine
    <2>1. UNCHANGED <<persistVars, groupVars, workerVars, ownerVars>>
      BY <1>2 DEF Engine, RefuseOrder, TakeOrder, DropTask, FillTask, PublishTask, AddToBatch
    <2>2. engine' \in {"idle", "process", "enqueue", "publish", "batch"}
      BY <1>2 DEF Engine, RefuseOrder, TakeOrder, DropTask, FillTask, PublishTask, AddToBatch
    <2>3. UNCHANGED others /\ flusher' = flusher
      BY <2>1 DEF persistVars, writerVars, flagVars, logVars, groupVars, workerVars, ownerVars
    <2> QED BY <1>0, <2>2, <2>3
  <1>3. CASE Flusher
    <2>1. UNCHANGED <<persistVars, engine, workerVars, ownerVars>>
      BY <1>3 DEF Flusher, FlusherGoesOn, NotDue, Collect, Sync, SyncFails, MarkCommitted,
                  FlusherExits, engineVars
    <2>2. flusher' \in {"top", "collect", "sync", "mark", "exited"}
      BY <1>3 DEF Flusher, FlusherGoesOn, NotDue, Collect, Sync, SyncFails, MarkCommitted,
                  FlusherExits
    <2>3. UNCHANGED others /\ engine' = engine
      BY <2>1 DEF persistVars, writerVars, flagVars, logVars, workerVars, ownerVars
    <2> QED BY <1>0, <2>2, <2>3
  <1>4. CASE Worker
    <2> USE DEF persistVars, writerVars, flagVars, logVars, engineVars, groupVars, workerVars, ownerVars
    <2>1. CASE WorkerPop BY <2>1 DEF WorkerPop, Unoccupied
    <2>2. CASE WorkerReleases BY <2>2 DEF WorkerReleases
    <2>3. CASE WorkerLogs BY <2>3 DEF WorkerLogs, LogCheck
    <2>4. CASE WorkerPushes BY <2>4 DEF WorkerPushes, LogPush
    <2>5. CASE WorkerExits BY <2>5 DEF WorkerExits, Unoccupied, WorkerContinues
    <2> QED BY <1>4, <2>1, <2>2, <2>3, <2>4, <2>5 DEF Worker
  <1>5. CASE WriterSteps
    <2> USE DEF WriterSteps, flagVars, logVars, engineVars, groupVars, workerVars, ownerVars
    <2>1. CASE DrainTrade BY <1>5, <2>1 DEF DrainTrade
    <2>2. CASE TradesDrained BY <1>5, <2>2 DEF TradesDrained
    <2>3. CASE DrainOrder BY <1>5, <2>3 DEF DrainOrder
    <2>4. CASE OrdersDrained BY <1>5, <2>4 DEF OrdersDrained
    <2>5. CASE WriteBatches BY <1>5, <2>5 DEF WriteBatches
    <2>6. CASE Hold BY <1>5, <2>6 DEF Hold
    <2>7. CASE NextTurn BY <1>5, <2>7 DEF NextTurn
    <2>8. CASE LastWrite BY <1>5, <2>8 DEF LastWrite
    <2> QED BY <1>5, <2>1, <2>2, <2>3, <2>4, <2>5, <2>6, <2>7, <2>8 DEF Writer
  <1>6. CASE Shutdown
    BY <1>6 DEF Shutdown, persistVars, writerVars, flagVars, logVars, groupVars, workerVars
  <1>7. CASE Owner
    <2> USE DEF persistVars, writerVars, flagVars, logVars, engineVars, groupVars, workerVars
    <2>1. CASE FlusherJoined BY <2>1 DEF FlusherJoined
    <2>2. CASE StopWorker BY <2>2 DEF StopWorker
    <2>3. CASE WorkerJoined BY <2>3 DEF WorkerJoined, RequestShutdown, WorkerGone
    <2>4. CASE WriterJoined BY <2>4 DEF WriterJoined, JoinWriter, ownerVars
    <2>5. CASE ShutdownDone BY <2>5 DEF ShutdownDone, ShutdownReturns
    <2> QED BY <1>7, <2>1, <2>2, <2>3, <2>4, <2>5 DEF Owner
  <1>8. CASE UNCHANGED vars
    <2>1. UNCHANGED <<others, engine, flusher>>
      BY <1>8 DEF vars, persistVars, writerVars, flagVars, logVars, engineVars, groupVars,
                  workerVars, ownerVars
    <2> QED BY <1>0, <2>1
  <1> QED BY <1>1, <1>2, <1>3, <1>4, <1>5, <1>6, <1>7, <1>8 DEF Next

LEMMA QuietNext == RingInv /\ FlagTypes /\ PhaseInv /\ QuietInv /\ [Next]_vars => QuietInv'
  <1> SUFFICES ASSUME RingInv, FlagTypes, PhaseInv, QuietInv, [Next]_vars PROVE QuietInv'
    OBVIOUS
  <1> USE DEF QuietInv, RingEmpty
  <1>a. owner = "idle" => worker # "exited"
    BY DEF PhaseInv
  <1>0. ASSUME UNCHANGED <<engine, worker, owner, overlap, write_pos_, read_pos_>>
        PROVE  QuietInv'
    BY <1>0
  <1>1. CASE AppendToWal
    BY <1>1 DEF AppendToWal, ringVars, workerVars, ownerVars
  <1>2. CASE Engine
    <2> USE DEF ringVars, workerVars, ownerVars
    <2>1. CASE RefuseOrder BY <2>1 DEF RefuseOrder
    <2>2. CASE TakeOrder
      <3>1. CASE owner = "idle" BY <1>a, <2>2, <3>1 DEF TakeOrder
      <3>2. CASE owner # "idle"
        <4>1. overlap' = TRUE BY <2>2, <3>2 DEF TakeOrder
        <4> QED BY <4>1
      <3> QED BY <3>1, <3>2
    <2>3. CASE DropTask BY <1>a, <2>3 DEF DropTask
    <2>4. CASE FillTask BY <1>a, <2>4 DEF FillTask, PushFill
    <2>5. CASE PublishTask BY <1>a, <2>5 DEF PublishTask, PushPublish
    <2>6. CASE AddToBatch BY <2>6 DEF AddToBatch
    <2> QED BY <1>2, <2>1, <2>2, <2>3, <2>4, <2>5, <2>6 DEF Engine
  <1>3. CASE Flusher
    <2>1. UNCHANGED <<engine, overlap, ringVars, workerVars, ownerVars>>
      BY <1>3 DEF Flusher, FlusherGoesOn, NotDue, Collect, Sync, SyncFails, MarkCommitted,
                  FlusherExits, engineVars
    <2> QED BY <1>0, <2>1 DEF ringVars, workerVars, ownerVars
  <1>4. CASE Worker
    <2> USE DEF engineVars, ownerVars
    <2>1. CASE WorkerPop BY <2>1 DEF WorkerPop
    <2>2. CASE WorkerReleases BY <2>2 DEF WorkerReleases
    <2>3. CASE WorkerLogs BY <2>3 DEF WorkerLogs, ringVars
    <2>4. CASE WorkerPushes BY <2>4 DEF WorkerPushes, ringVars, workerVars
    <2>5. CASE WorkerExits
      <3>1. RingEmpty
        BY <2>5, SizeShape, SpscAssumption, SMT DEF WorkerExits, WorkerContinues, RingEmpty
      <3> QED BY <2>5, <3>1 DEF WorkerExits, ringVars
    <2> QED BY <1>4, <2>1, <2>2, <2>3, <2>4, <2>5 DEF Worker
  <1>5. CASE WriterSteps
    BY <1>0, <1>5 DEF WriterSteps, ringVars, engineVars, workerVars, ownerVars
  <1>6. CASE Shutdown
    <2>1. worker # "exited" /\ worker' = worker /\ engine' = engine
      BY <1>a, <1>6 DEF Shutdown, workerVars
    <2>2. overlap' = (engine # "idle")
      BY <1>6 DEF Shutdown
    <2> QED BY <2>1, <2>2
  <1>7. CASE Owner
    <2>1. UNCHANGED <<engine, overlap, ringVars, workerVars>> /\ owner # "idle"
      BY <1>7 DEF Owner, FlusherJoined, StopWorker, WorkerJoined, WriterJoined, ShutdownDone,
                  engineVars
    <2> QED BY <2>1 DEF ringVars, workerVars
  <1>8. CASE UNCHANGED vars
    BY <1>0, <1>8 DEF vars, ringVars, engineVars, workerVars, ownerVars
  <1> QED BY <1>1, <1>2, <1>3, <1>4, <1>5, <1>6, <1>7, <1>8 DEF Next

LEMMA TaskInit == Init => TaskInv
  BY DEF Init, RingInit, TaskInv

LEMMA TaskNext == CommitInv /\ RingInv /\ PhaseInv /\ TaskInv /\ [Next]_vars => TaskInv'
  <1> SUFFICES ASSUME CommitInv, RingInv, PhaseInv, TaskInv, [Next]_vars PROVE TaskInv'
    OBVIOUS
  <1> USE DEF TaskInv
  <1>0. ASSUME UNCHANGED <<filled, taken, engine, worker, buffer_, write_pos_, sent, full, processed>>
        PROVE  TaskInv'
    BY <1>0
  <1>1. CASE AppendToWal
    <2>1. sent' = sent + 1 /\ sent' \notin processed /\ engine' = "process"
      BY <1>1, SMT DEF AppendToWal, CommitInv, LogInv
    <2>2. UNCHANGED <<ringVars, processed, full, workerVars>> /\ engine = "idle"
      BY <1>1 DEF AppendToWal
    <2> QED BY <2>1, <2>2 DEF ringVars, workerVars
  <1>2. CASE Engine
    <2> USE DEF ringVars, workerVars
    <2>1. CASE RefuseOrder BY <2>1 DEF RefuseOrder
    <2>2. CASE TakeOrder BY <2>2 DEF TakeOrder
    <2>3. CASE DropTask BY <2>3 DEF DropTask
    <2>4. CASE FillTask BY <2>4 DEF FillTask, PushFill, RingInv, RingTypeOK
    <2>5. CASE PublishTask BY <2>5 DEF PublishTask, PushPublish
    <2>6. CASE AddToBatch BY <2>6 DEF AddToBatch
    <2> QED BY <1>2, <2>1, <2>2, <2>3, <2>4, <2>5, <2>6 DEF Engine
  <1>3. CASE Flusher
    <2>1. UNCHANGED <<sent, engine, processed, full, ringVars, workerVars>>
      BY <1>3 DEF Flusher, FlusherGoesOn, NotDue, Collect, Sync, SyncFails, MarkCommitted,
                  FlusherExits, engineVars
    <2> QED BY <1>0, <2>1 DEF ringVars, workerVars
  <1>4. CASE Worker
    <2> USE DEF engineVars
    <2>1. CASE WorkerPop
      <3>1. taken' = TRUE /\ worker' = "release"
            /\ UNCHANGED <<filled, engine, buffer_, write_pos_, sent, full, processed>>
        BY <2>1 DEF WorkerPop, PopCopy
      <3> QED BY <3>1
    <2>2. CASE WorkerReleases
      <3>1. taken' = FALSE /\ worker' = "pop"
            /\ UNCHANGED <<filled, engine, buffer_, write_pos_, sent, full, processed>>
        BY <2>2 DEF WorkerReleases, PopRelease
      <3> QED BY <3>1
    <2>3. CASE WorkerLogs BY <1>0, <2>3 DEF WorkerLogs, ringVars
    <2>4. CASE WorkerPushes BY <1>0, <2>4 DEF WorkerPushes, ringVars, workerVars
    <2>5. CASE WorkerExits
      <3>1. worker = "pop" /\ worker' = "exited"
            /\ UNCHANGED <<filled, taken, engine, buffer_, write_pos_, sent, full, processed>>
        BY <2>5 DEF WorkerExits, ringVars, Unoccupied
      <3> QED BY <3>1
    <2> QED BY <1>4, <2>1, <2>2, <2>3, <2>4, <2>5 DEF Worker
  <1>5. CASE WriterSteps
    BY <1>0, <1>5 DEF WriterSteps, ringVars, engineVars, workerVars
  <1>6. CASE Shutdown
    BY <1>0, <1>6 DEF Shutdown, ringVars, workerVars
  <1>7. CASE Owner
    <2>1. UNCHANGED <<engineVars, ringVars, workerVars>>
      BY <1>7 DEF Owner, FlusherJoined, StopWorker, WorkerJoined, WriterJoined, ShutdownDone
    <2> QED BY <1>0, <2>1 DEF engineVars, ringVars, workerVars
  <1>8. CASE UNCHANGED vars
    BY <1>0, <1>8 DEF vars, ringVars, engineVars, workerVars
  <1> QED BY <1>1, <1>2, <1>3, <1>4, <1>5, <1>6, <1>7, <1>8 DEF Next
-----------------------------------------------------------------------------
(* The queues, the buffers and the work of the worker. *)

QueueInv ==
    /\ trade_queue_ \in Seq(Entry) /\ (\A n \in QueueSizes : Len(trade_queue_) < n)
    /\ order_queue_ \in Seq(Entry) /\ (\A n \in QueueSizes : Len(order_queue_) < n)

WorkInv ==
    /\ todo \in Seq(Entry) /\ logging \in Entry \cup {None} /\ lost \subseteq Entry

\* A buffer is full only between the entry that filled it and the next write.
BufferInv ==
    /\ trade_buffer_ \in Seq(Entry) /\ Len(trade_buffer_) <= buffer_size_
    /\ order_buffer_ \in Seq(Entry) /\ Len(order_buffer_) <= buffer_size_
    /\ trade_log_ \in Seq(Entry) /\ order_log_ \in Seq(Entry)
    /\ writer \in {"trades", "wait", "next"} =>
          ~FullBuffer(trade_buffer_) /\ ~FullBuffer(order_buffer_)
    /\ writer = "orders" => ~FullBuffer(order_buffer_)

LEMMA QueueSizesAreNumbers == \A n \in QueueSizes : n \in Int /\ n > 0
  <1>1. QueueSizes \subseteq 2 * buffer_size_ .. 4 * buffer_size_
    BY Zenon DEF QueueSizes
  <1> QED BY <1>1, BufferAssumption, SMT

LEMMA QueueGrows ==
    ASSUME NEW q \in Seq(Entry), NEW e \in Entry, HasRoom(q)
    PROVE  Append(q, e) \in Seq(Entry) /\ \A n \in QueueSizes : Len(Append(q, e)) < n
  <1>1. Append(q, e) \in Seq(Entry) /\ Len(Append(q, e)) = Len(q) + 1 /\ Len(q) \in Nat
    BY AppendProperties, LenProperties
  <1>2. \A n \in QueueSizes : Len(q) < n - 1 /\ n \in Int
    BY QueueSizesAreNumbers DEF HasRoom
  <1> QED BY <1>1, <1>2, SMT

LEMMA QueueShrinks ==
    ASSUME NEW q \in Seq(Entry), q # <<>>, \A n \in QueueSizes : Len(q) < n
    PROVE  Tail(q) \in Seq(Entry) /\ Head(q) \in Entry /\ \A n \in QueueSizes : Len(Tail(q)) < n
  <1>1. Tail(q) \in Seq(Entry) /\ Head(q) \in Entry /\ Len(Tail(q)) = Len(q) - 1 /\ Len(q) \in Nat
    BY HeadTailProperties, LenProperties
  <1> QED BY <1>1, QueueSizesAreNumbers, SMT

LEMMA BufferGrows ==
    ASSUME NEW b \in Seq(Entry), NEW e \in Entry, ~FullBuffer(b)
    PROVE  Append(b, e) \in Seq(Entry) /\ Len(Append(b, e)) <= buffer_size_
  <1>1. Append(b, e) \in Seq(Entry) /\ Len(Append(b, e)) = Len(b) + 1 /\ Len(b) \in Nat
    BY AppendProperties, LenProperties
  <1> QED BY <1>1, BufferAssumption, SMT DEF FullBuffer

LEMMA DataInit == Init => QueueInv /\ WorkInv /\ BufferInv
  <1> SUFFICES ASSUME Init PROVE QueueInv /\ WorkInv /\ BufferInv
    OBVIOUS
  <1>1. <<>> \in Seq(Entry) /\ Len(<<>>) = 0
    BY EmptySeq
  <1>2. trade_queue_ = <<>> /\ order_queue_ = <<>> /\ trade_buffer_ = <<>> /\ order_buffer_ = <<>>
        /\ trade_log_ = <<>> /\ order_log_ = <<>> /\ todo = <<>> /\ logging = None /\ lost = {}
    BY DEF Init, PersistInit
  <1>3. QueueInv
    BY <1>1, <1>2, QueueSizesAreNumbers, SMT DEF QueueInv
  <1>4. BufferInv
    BY <1>1, <1>2, BufferAssumption, SMT DEF BufferInv, FullBuffer
  <1> QED BY <1>1, <1>2, <1>3, <1>4 DEF WorkInv

\* The threads of the engine leave the queues and the buffers alone.
LEMMA PersistStep ==
    ASSUME [Next]_vars
    PROVE  Worker \/ WriterSteps \/ Owner \/ UNCHANGED <<persistVars, todo>>
  <1>1. CASE Engine
    BY <1>1 DEF Engine, RefuseOrder, TakeOrder, DropTask, FillTask, PublishTask, AddToBatch, workerVars
  <1>2. CASE Flusher
    BY <1>2 DEF Flusher, FlusherGoesOn, NotDue, Collect, Sync, SyncFails, MarkCommitted,
                FlusherExits, workerVars
  <1> QED BY <1>1, <1>2 DEF Next, vars, AppendToWal, Shutdown, workerVars

LEMMA QueueNext == QueueInv /\ WorkInv /\ [Next]_vars => QueueInv'
  <1> SUFFICES ASSUME QueueInv, WorkInv, [Next]_vars PROVE QueueInv'
    OBVIOUS
  <1> USE DEF QueueInv
  <1>0. ASSUME UNCHANGED <<trade_queue_, order_queue_>> PROVE QueueInv'
    BY <1>0
  <1>1. CASE Worker
    <2>1. CASE WorkerPushes
      <3> USE <2>1 DEF WorkerPushes, LogPush
      <3>0. logging \in Entry
        BY DEF WorkInv
      <3>1. CASE IsTradeEntry(logging) /\ HasRoom(trade_queue_)
        <4>1. trade_queue_' = Append(trade_queue_, logging) /\ order_queue_' = order_queue_
          BY <3>1
        <4> QED BY <3>0, <3>1, <4>1, QueueGrows
      <3>2. CASE ~IsTradeEntry(logging) /\ HasRoom(order_queue_)
        <4>1. order_queue_' = Append(order_queue_, logging) /\ trade_queue_' = trade_queue_
          BY <3>2
        <4> QED BY <3>0, <3>2, <4>1, QueueGrows
      <3>3. CASE UNCHANGED <<trade_queue_, order_queue_>>
        BY <1>0, <3>3
      <3> QED BY <3>1, <3>2, <3>3
    <2>2. CASE ~WorkerPushes
      BY <1>0, <1>1, <2>2 DEF Worker, WorkerPop, WorkerReleases, WorkerLogs, LogCheck, WorkerExits,
                              persistVars, logVars
    <2> QED BY <2>1, <2>2
  <1>2. CASE WriterSteps
    <2>1. CASE DrainTrade
      <3>1. trade_queue_ # <<>> /\ trade_queue_' = Tail(trade_queue_) /\ order_queue_' = order_queue_
        BY <2>1 DEF DrainTrade
      <3> QED BY <3>1, QueueShrinks
    <2>2. CASE DrainOrder
      <3>1. order_queue_ # <<>> /\ order_queue_' = Tail(order_queue_) /\ trade_queue_' = trade_queue_
        BY <2>2 DEF DrainOrder
      <3> QED BY <3>1, QueueShrinks
    <2>3. CASE ~DrainTrade /\ ~DrainOrder
      BY <1>0, <1>2, <2>3 DEF WriterSteps, Writer, TradesDrained, OrdersDrained, WriteBatches, Hold,
                              NextTurn, LastWrite, logVars
    <2> QED BY <2>1, <2>2, <2>3
  <1>3. CASE Owner
    BY <1>0, <1>3 DEF Owner, FlusherJoined, StopWorker, WorkerJoined, WriterJoined, ShutdownDone,
                      RequestShutdown, JoinWriter, ShutdownReturns, persistVars, logVars
  <1>4. CASE UNCHANGED <<persistVars, todo>>
    BY <1>0, <1>4 DEF persistVars, logVars
  <1> QED BY <1>1, <1>2, <1>3, <1>4, PersistStep

LEMMA WorkNext == WorkInv /\ [Next]_vars => WorkInv'
  <1> SUFFICES ASSUME WorkInv, [Next]_vars PROVE WorkInv'
    OBVIOUS
  <1> USE DEF WorkInv
  <1>0. ASSUME UNCHANGED <<todo, logging, lost>> PROVE WorkInv'
    BY <1>0
  <1>1. CASE Worker
    <2>1. CASE WorkerPop
      <3>1. PICK n \in Orders : todo' = EntriesOf(n)
        BY <2>1 DEF WorkerPop
      <3>2. todo' \in Seq(Entry)
        BY <3>1, EntriesShape
      <3> QED BY <2>1, <3>2 DEF WorkerPop, persistVars, logVars
    <2>2. CASE WorkerReleases
      BY <1>0, <2>2 DEF WorkerReleases, persistVars, logVars
    <2>3. CASE WorkerLogs
      <3>1. todo \in Seq(Entry) /\ todo # <<>> /\ todo' = Tail(todo) /\ lost' = lost
            /\ (logging' = Head(todo) \/ logging' = None)
        BY <2>3 DEF WorkerLogs, LogCheck
      <3>2. Head(todo) \in Entry /\ Tail(todo) \in Seq(Entry)
        BY <3>1, HeadTailProperties
      <3> QED BY <3>1, <3>2
    <2>4. CASE WorkerPushes
      BY <2>4 DEF WorkerPushes, LogPush, workerVars
    <2>5. CASE WorkerExits
      BY <1>0, <2>5 DEF WorkerExits, persistVars, logVars
    <2> QED BY <1>1, <2>1, <2>2, <2>3, <2>4, <2>5 DEF Worker
  <1>2. CASE WriterSteps
    <2>1. UNCHANGED <<logging, lost>>
      BY <1>2 DEF WriterSteps, Writer, DrainTrade, TradesDrained, DrainOrder, OrdersDrained,
                  WriteBatches, Hold, NextTurn, LastWrite, logVars
    <2> QED BY <1>0, <1>2, <2>1 DEF WriterSteps, workerVars
  <1>3. CASE Owner
    BY <1>0, <1>3 DEF Owner, FlusherJoined, StopWorker, WorkerJoined, WriterJoined, ShutdownDone,
                      RequestShutdown, JoinWriter, ShutdownReturns, persistVars, logVars, workerVars
  <1>4. CASE UNCHANGED <<persistVars, todo>>
    BY <1>0, <1>4 DEF persistVars, logVars
  <1> QED BY <1>1, <1>2, <1>3, <1>4, PersistStep

LEMMA BufferNext == QueueInv /\ BufferInv /\ [Next]_vars => BufferInv'
  <1> SUFFICES ASSUME QueueInv, BufferInv, [Next]_vars PROVE BufferInv'
    OBVIOUS
  <1> USE DEF BufferInv
  <1>0. ASSUME UNCHANGED <<trade_buffer_, order_buffer_, trade_log_, order_log_, writer>>
        PROVE  BufferInv'
    BY <1>0 DEF FullBuffer
  <1>1. CASE Worker
    BY <1>0, <1>1 DEF Worker, WorkerPop, WorkerReleases, WorkerLogs, LogCheck, WorkerPushes, LogPush,
                      WorkerExits, persistVars, writerVars
  <1>2. CASE WriterSteps
    <2>1. CASE DrainTrade
      <3>1. /\ writer = "trades" /\ trade_buffer_' = Append(trade_buffer_, Head(trade_queue_))
            /\ writer' = IF FullBuffer(trade_buffer_') THEN "orders" ELSE "trades"
            /\ UNCHANGED <<order_buffer_, trade_log_, order_log_>>
        BY <2>1 DEF DrainTrade
      <3>2. Head(trade_queue_) \in Entry
        BY <2>1, QueueShrinks DEF DrainTrade, QueueInv
      <3>3. trade_buffer_' \in Seq(Entry) /\ Len(trade_buffer_') <= buffer_size_
        BY <3>1, <3>2, BufferGrows
      <3> QED BY <3>1, <3>3 DEF FullBuffer
    <2>2. CASE TradesDrained
      BY <2>2 DEF TradesDrained, FullBuffer
    <2>3. CASE DrainOrder
      <3>1. /\ writer = "orders" /\ order_buffer_' = Append(order_buffer_, Head(order_queue_))
            /\ writer' = IF FullBuffer(order_buffer_') THEN "decide" ELSE "orders"
            /\ UNCHANGED <<trade_buffer_, trade_log_, order_log_>>
        BY <2>3 DEF DrainOrder
      <3>2. Head(order_queue_) \in Entry
        BY <2>3, QueueShrinks DEF DrainOrder, QueueInv
      <3>3. order_buffer_' \in Seq(Entry) /\ Len(order_buffer_') <= buffer_size_
        BY <3>1, <3>2, BufferGrows
      <3> QED BY <3>1, <3>3 DEF FullBuffer
    <2>4. CASE OrdersDrained
      BY <2>4 DEF OrdersDrained
    <2>5. CASE WriteBatches
      <3>1. <<>> \in Seq(Entry) /\ Len(<<>>) <= buffer_size_ /\ ~FullBuffer(<<>>)
        BY EmptySeq, BufferAssumption, SMT DEF FullBuffer
      <3>2. trade_log_' \in Seq(Entry) /\ order_log_' \in Seq(Entry)
        BY <2>5, ConcatProperties DEF WriteBatches, Write
      <3>3. trade_buffer_' = <<>> /\ order_buffer_' = <<>> /\ writer' = "next"
        BY <2>5 DEF WriteBatches
      <3> QED BY <3>1, <3>2, <3>3 DEF FullBuffer
    <2>6. CASE Hold
      BY <2>6 DEF Hold, FullBuffer
    <2>7. CASE NextTurn
      BY <2>7 DEF NextTurn, FullBuffer
    <2>8. CASE LastWrite
      <3>1. trade_log_' \in Seq(Entry) /\ order_log_' \in Seq(Entry)
        BY <2>8, ConcatProperties DEF LastWrite, Write
      <3> QED BY <2>8, <3>1 DEF LastWrite
    <2> QED BY <1>2, <2>1, <2>2, <2>3, <2>4, <2>5, <2>6, <2>7, <2>8 DEF WriterSteps, Writer
  <1>3. CASE Owner
    BY <1>0, <1>3 DEF Owner, FlusherJoined, StopWorker, WorkerJoined, WriterJoined, ShutdownDone,
                      RequestShutdown, JoinWriter, ShutdownReturns, persistVars, writerVars
  <1>4. CASE UNCHANGED <<persistVars, todo>>
    BY <1>0, <1>4 DEF persistVars, writerVars
  <1> QED BY <1>1, <1>2, <1>3, <1>4, PersistStep
-----------------------------------------------------------------------------
(* Every step moves a record along its path, or leaves the paths alone. *)

PathsInv == Paths(TradePath, OrderPath, Begun, Waiting, Produced, lost)

LEMMA PathsPrimed ==
    ASSUME NEW tp, NEW op, NEW b, NEW w, NEW made, NEW d, Paths(tp, op, b, w, made, d),
           TradePath' = tp, OrderPath' = op, Begun' = b, Waiting' = w, Produced' = made, lost' = d
    PROVE  PathsInv'
  BY DEF PathsInv, Paths, PathTypes, Partition, Ordered, Behind, Remaining, EntriesOfAll

LEMMA PathsKept ==
    ASSUME PathsInv, UNCHANGED <<TradePath, OrderPath, Begun, Waiting, Produced, lost>>
    PROVE  PathsInv'
  <1>1. PICK tp, op, b, w, made, d :
           /\ tp = TradePath /\ op = OrderPath /\ b = Begun /\ w = Waiting
           /\ made = Produced /\ d = lost
    OBVIOUS
  <1>2. Paths(tp, op, b, w, made, d)
    BY <1>1 DEF PathsInv
  <1> QED BY <1>1, <1>2, PathsPrimed

\* What each of them is made of.
Pool == IF worker = "release" THEN Tail(Contents) ELSE Contents
Pledged == IF engine \in {"enqueue", "publish"} THEN <<sent>> ELSE <<>>

LEMMA TracksKept ==
    ASSUME UNCHANGED <<trade_log_, trade_buffer_, trade_queue_, order_log_, order_buffer_,
                       order_queue_, lost>>,
           writer' = "exited" <=> writer = "exited"
    PROVE  UNCHANGED <<TradePath, OrderPath, lost>>
  BY DEF TradePath, OrderPath, Pending

LEMMA PersistKept ==
    ASSUME UNCHANGED persistVars
    PROVE  UNCHANGED <<TradePath, OrderPath, lost, logging>>
  <1>1. UNCHANGED <<trade_log_, trade_buffer_, trade_queue_, order_log_, order_buffer_,
                    order_queue_, lost, writer, logging>>
    BY DEF persistVars, writerVars, logVars
  <1> QED BY <1>1, TracksKept

LEMMA BegunKept == ASSUME UNCHANGED <<logging, todo>> PROVE Begun' = Begun
  BY DEF Begun

LEMMA ProducedKept == ASSUME UNCHANGED <<processed, full>> PROVE Produced' = Produced
  BY DEF Produced

LEMMA ContentsKept == ASSUME UNCHANGED ringVars PROVE Contents' = Contents
  BY DEF ringVars, Contents, RingSize, Masked

LEMMA WaitingKept ==
    ASSUME UNCHANGED <<Pool, sent>>,
           engine' \in {"enqueue", "publish"} <=> engine \in {"enqueue", "publish"}
    PROVE  Waiting' = Waiting
  BY DEF Waiting, Pool

Numbers == Item \cup {NoItem}

LEMMA PoolShape ==
    ASSUME CommitInv, RingInv, TaskInv
    PROVE  /\ Pool \in Seq(Numbers) /\ Pledged \in Seq(Numbers) /\ Contents \in Seq(Numbers)
           /\ Waiting = Pool \o Pledged
           /\ (taken => Contents # <<>>) /\ sent \in Numbers
  <1>1. Contents \in Seq(Numbers) /\ Len(Contents) = RingSize
    BY ContentsShape DEF Numbers
  <1>2. ASSUME taken PROVE Contents # <<>>
    <2>1. RingSize # 0
      <3>1. read_pos_ # write_pos_
        BY <1>2 DEF RingInv, RingEmpty
      <3> QED BY <3>1, SizeShape, SpscAssumption, SMT
    <2> QED BY <1>1, <2>1, EmptySeq
  <1>3. Pool \in Seq(Numbers)
    BY <1>1, <1>2, HeadTailProperties DEF Pool, TaskInv
  <1>4. sent \in Numbers
    BY ProductionAssumption, SMT DEF CommitInv, LogInv, Numbers
  <1>5. <<sent>> \in Seq(Numbers) /\ <<>> \in Seq(Numbers)
    BY <1>4, SMT
  <1> QED BY <1>1, <1>2, <1>3, <1>4, <1>5 DEF Pool, Pledged, Waiting

LEMMA NoneIsNoEntry == None \notin Entry
  <1>1. 0 \notin Orders
    BY OrderNumbers, SMT
  <1> QED BY <1>1 DEF None, Entry

LEMMA AppendedIn ==
    ASSUME NEW S, NEW T, NEW s \in Seq(S), NEW e \in S, Append(s, e) \in Seq(T)
    PROVE  s \in Seq(T) /\ e \in T
  <1>1. Len(Append(s, e)) = Len(s) + 1 /\ Append(s, e)[Len(s) + 1] = e /\ Len(s) \in Nat
        /\ \A i \in 1 .. Len(s) : Append(s, e)[i] = s[i]
    BY AppendProperties, LenProperties
  <1>2. \A i \in 1 .. Len(s) + 1 : Append(s, e)[i] \in T
    BY <1>1, ElementOfSeq
  <1>3. \A i \in 1 .. Len(s) : i \in 1 .. Len(s) + 1
    BY <1>1, SMT
  <1>4. Len(s) + 1 \in 1 .. Len(s) + 1
    BY <1>1, SMT
  <1>5. s \in [1 .. Len(s) -> T]
    <2>1. \A i \in 1 .. Len(s) : s[i] \in T
      BY <1>1, <1>2, <1>3
    <2> QED BY <2>1, LenProperties
  <1> QED BY <1>1, <1>2, <1>4, <1>5, SMT

LEMMA OneMore == ASSUME NEW S, NEW s \in Seq(S), NEW e \in S
                 PROVE  s \o <<e>> = Append(s, e)
  BY SMT

\* The engine takes an order, drops its task or hands it over.
LEMMA EngineKeepsPaths ==
    ASSUME CommitInv, RingInv, RingInv', TaskInv, PathsInv, Engine \/ AppendToWal
    PROVE  PathsInv'
  <1>0. UNCHANGED <<TradePath, OrderPath, lost, Begun>> /\ worker' = worker
    <2>1. UNCHANGED <<persistVars, workerVars>>
      BY DEF Engine, RefuseOrder, TakeOrder, DropTask, FillTask, PublishTask, AddToBatch, AppendToWal
    <2> QED BY <2>1, PersistKept, BegunKept DEF workerVars
  <1>1. PICK tp, op, b, w, made, d :
           /\ tp = TradePath /\ op = OrderPath /\ b = Begun /\ w = Waiting
           /\ made = Produced /\ d = lost
    OBVIOUS
  <1>2. Paths(tp, op, b, w, made, d) /\ w \in Seq(Orders)
    BY <1>1 DEF PathsInv, Paths, PathTypes
  <1>p. /\ Pool \in Seq(Numbers) /\ Pledged \in Seq(Numbers) /\ Waiting = Pool \o Pledged
        /\ sent \in Numbers /\ Contents \in Seq(Numbers)
        /\ (taken => Contents # <<>>)
    BY PoolShape
  <1>s. ASSUME engine # "idle" PROVE sent \in Orders /\ sent \in Int
    BY <1>s, OrderNumbers, SMT DEF CommitInv, LogInv
  <1>e. ASSUME Contents' = Contents PROVE Pool' = Pool
    BY <1>0, <1>e DEF Pool
  <1>3. CASE RefuseOrder \/ AddToBatch
    <2>1. Waiting' = Waiting
      BY <1>3, <1>e, ContentsKept, WaitingKept DEF RefuseOrder, AddToBatch
    <2>2. Produced' = Produced
      BY <1>3, ProducedKept DEF RefuseOrder, AddToBatch
    <2> QED BY <1>0, <2>1, <2>2, PathsKept
  <1>4. CASE AppendToWal
    <2>1. Pool' = Pool
      BY <1>4, <1>e, ContentsKept DEF AppendToWal
    <2>2. Waiting' = Waiting
      BY <1>4, <2>1 DEF AppendToWal, Waiting, Pool
    <2>3. Produced' = Produced
      BY <1>4, ProducedKept DEF AppendToWal
    <2> QED BY <1>0, <2>2, <2>3, PathsKept
  <1>5. CASE TakeOrder
    <2>1. sent \in Orders /\ sent \in Int
      BY <1>5, <1>s DEF TakeOrder
    <2>2. Pool' = Pool
      BY <1>5, <1>e, ContentsKept DEF TakeOrder
    <2>3. w = Pool
      BY <1>1, <1>5, <1>p, ConcatEmptySeq DEF TakeOrder, Pledged
    <2>4. Waiting' = Append(w, sent)
      <3>1. Waiting' = Pool' \o <<sent>>
        BY <1>5 DEF Waiting, Pool, TakeOrder
      <3> QED BY <1>2, <2>1, <2>2, <2>3, <3>1, OneMore
    <2>5. Produced' = made \cup ToSet(EntriesOf(sent))
      <3>1. processed' \ full' = (processed \ full) \cup {sent}
        BY <1>5 DEF TakeOrder, TaskInv
      <3> QED BY <1>1, <3>1 DEF Produced
    <2>6. \A e \in made : e.order < sent
      <3> TAKE e \in made
      <3>1. PICK n \in processed : e \in ToSet(EntriesOf(n))
        BY <1>1 DEF Produced
      <3>2. n \in Orders /\ n < sent
        BY <1>5, <2>1, OrderNumbers, SMT DEF TakeOrder, TaskInv, CommitInv, LogInv
      <3>3. e.order = n
        BY <3>1, <3>2, EntriesShape
      <3> QED BY <3>2, <3>3
    <2>7. PICK n \in Orders : n = sent
      BY <2>1
    <2>8. Paths(tp, op, b, Append(w, n), made \cup ToSet(EntriesOf(n)), d)
      BY <1>2, <2>6, <2>7, PathTakes
    <2> QED BY <1>0, <1>1, <2>4, <2>5, <2>7, <2>8, PathsPrimed
  <1>6. CASE DropTask
    <2>1. sent \in Orders /\ sent \in Int
      BY <1>6, <1>s DEF DropTask
    <2>2. Pool' = Pool
      BY <1>6, <1>e, ContentsKept DEF DropTask
    <2>3. PICK v \in Seq(Numbers) : v = Pool
      BY <1>p
    <2>4. w = Append(v, sent)
      BY <1>1, <1>6, <1>p, <2>3, OneMore DEF DropTask, Pledged
    <2>5. v \in Seq(Orders)
      BY <1>2, <1>p, <2>4, AppendedIn
    <2>6. Waiting' = v
      <3>1. Waiting' = v \o <<>>
        BY <1>6, <2>2, <2>3 DEF Waiting, Pool, DropTask
      <3> QED BY <2>5, <3>1, ConcatEmptySeq
    <2>7. Produced' = made \ ToSet(EntriesOf(sent))
      <3>1. processed' \ full' = (processed \ full) \ {sent} /\ sent \in processed \ full
        BY <1>6 DEF DropTask, TaskInv
      <3>2. ASSUME NEW n \in processed \ full, n # sent, NEW e \in ToSet(EntriesOf(n))
            PROVE  e \notin ToSet(EntriesOf(sent))
        <4>1. n \in Orders
          BY <3>2, OrderNumbers, SMT DEF CommitInv, LogInv
        <4>2. e.order = n
          BY <3>2, <4>1, EntriesShape
        <4>3. \A f \in ToSet(EntriesOf(sent)) : f.order = sent
          BY <2>1, EntriesShape
        <4> QED BY <3>2, <4>2, <4>3
      <3> QED BY <1>1, <3>1, <3>2 DEF Produced
    <2>8. PICK n \in Orders : n = sent
      BY <2>1
    <2>9. Paths(tp, op, b, v, made \ ToSet(EntriesOf(n)), d)
      BY <1>2, <2>4, <2>5, <2>8, PathRefuses
    <2> QED BY <1>0, <1>1, <2>6, <2>7, <2>8, <2>9, PathsPrimed
  <1>7. CASE FillTask
    <2>1. sent \in Item
      BY <1>7, <1>s, ProductionAssumption DEF FillTask
    <2>2. Contents' = Contents
      BY <1>7, <2>1, FillStutters DEF FillTask
    <2>3. Waiting' = Waiting
      BY <1>7, <1>e, <2>2, WaitingKept DEF FillTask
    <2>4. Produced' = Produced
      BY <1>7, ProducedKept DEF FillTask
    <2> QED BY <1>0, <2>3, <2>4, PathsKept
  <1>8. CASE PublishTask
    <2>1. Contents' = Append(Contents, sent)
      BY <1>8, PublishPushes DEF PublishTask, TaskInv, Fifo!Push
    <2>2. Pool' = Append(Pool, sent)
      <3>1. CASE worker = "release"
        <4>1. Contents # <<>>
          BY <1>p, <3>1 DEF TaskInv
        <4>2. Append(Contents, sent) = Contents \o <<sent>> /\ <<sent>> \in Seq(Numbers)
          BY <1>p, SMT
        <4>3. Tail(Append(Contents, sent)) = Tail(Contents) \o <<sent>>
          BY <1>p, <4>1, <4>2, HeadOfConcat
        <4>4. Tail(Contents) \in Seq(Numbers)
          BY <1>p, <3>1 DEF Pool
        <4> QED BY <1>0, <1>p, <2>1, <3>1, <4>3, <4>4, OneMore DEF Pool
      <3>2. CASE worker # "release"
        BY <1>0, <2>1, <3>2 DEF Pool
      <3> QED BY <3>1, <3>2
    <2>3. Waiting' = Waiting
      <3>1. Waiting' = Pool' \o <<>>
        BY <1>8 DEF Waiting, Pool, PublishTask
      <3>2. Waiting = Pool \o <<sent>>
        BY <1>8, <1>p DEF Pledged, PublishTask
      <3>3. Pool' \in Seq(Numbers)
        BY <1>p, <2>2, AppendProperties
      <3> QED BY <1>p, <2>2, <3>1, <3>2, <3>3, ConcatEmptySeq, OneMore
    <2>4. Produced' = Produced
      BY <1>8, ProducedKept DEF PublishTask
    <2> QED BY <1>0, <2>3, <2>4, PathsKept
  <1> QED BY <1>3, <1>4, <1>5, <1>6, <1>7, <1>8 DEF Engine

\* The worker takes a task up, logs an entry of it or loses it to a full queue.
LEMMA WorkerKeepsPaths ==
    ASSUME CommitInv, RingInv, RingInv', TaskInv, PhaseInv, WorkInv, QueueInv, BufferInv,
           PathsInv, Worker
    PROVE  PathsInv'
  <1>0. UNCHANGED <<engine, sent, processed, full, persistence_running_>>
    BY DEF Worker, WorkerPop, WorkerReleases, WorkerLogs, WorkerPushes, WorkerExits, engineVars, ownerVars
  <1>1. PICK tp, op, b, w, made, d :
           /\ tp = TradePath /\ op = OrderPath /\ b = Begun /\ w = Waiting
           /\ made = Produced /\ d = lost
    OBVIOUS
  <1>2. Paths(tp, op, b, w, made, d) /\ w \in Seq(Orders)
    BY <1>1 DEF PathsInv, Paths, PathTypes
  <1>p. /\ Pool \in Seq(Numbers) /\ Pledged \in Seq(Numbers) /\ Waiting = Pool \o Pledged
        /\ sent \in Numbers /\ Contents \in Seq(Numbers)
        /\ (taken => Contents # <<>>)
    BY PoolShape
  <1>q. Produced' = Produced
    BY <1>0, ProducedKept
  <1>w. ASSUME Pool' = Pool PROVE Waiting' = Waiting
    BY <1>0, <1>w, WaitingKept
  <1>3. CASE WorkerPop
    <2>1. PICK n \in Orders : PopCopy(n) /\ todo' = EntriesOf(n)
      BY <1>3 DEF WorkerPop
    <2>2. UNCHANGED <<TradePath, OrderPath, lost, logging>>
      BY <1>3, PersistKept DEF WorkerPop
    <2>3. Contents' = Contents
      BY <2>1 DEF PopCopy, Contents, RingSize, Masked
    <2>4. Contents # <<>> /\ Head(Contents) = n
      <3>1. read_pos_ # write_pos_ /\ n = buffer_[read_pos_]
        BY <2>1 DEF PopCopy, RingEmpty
      <3>2. 1 \in 1 .. RingSize /\ RingSize # 0
        BY <3>1, SizeShape, SpscAssumption, SMT
      <3>3. Contents[1] = buffer_[Masked(read_pos_ + 1 - 1)] /\ Len(Contents) = RingSize
        BY <3>2, ContentsShape
      <3>4. read_pos_ + 1 - 1 = read_pos_ /\ Masked(read_pos_) = read_pos_
        BY SizeShape, MaskedBelow, SMT
      <3>5. Contents # <<>>
        BY <1>p, <3>2, <3>3, EmptySeq
      <3> QED BY <1>p, <3>1, <3>3, <3>4, <3>5, HeadTailProperties
    <2>5. w = Contents \o Pledged
      BY <1>1, <1>3, <1>p DEF WorkerPop, Unoccupied, Pool
    <2>6. w # <<>> /\ Head(w) = n /\ Tail(w) = Tail(Contents) \o Pledged
      BY <1>p, <2>4, <2>5, HeadOfConcat
    <2>7. Waiting' = Tail(w)
      BY <1>0, <1>3, <2>3, <2>6 DEF Waiting, Pledged, WorkerPop
    <2>8. b = <<>>
      <3>1. b = <<>> \o <<>>
        BY <1>1, <1>3 DEF WorkerPop, Unoccupied, Begun
      <3> QED BY <3>1, ConcatEmptySeq, EmptySeq
    <2>9. Begun' = EntriesOf(Head(w))
      <3>1. Begun' = <<>> \o EntriesOf(n)
        BY <1>3, <2>1, <2>2 DEF WorkerPop, Unoccupied, Begun
      <3>2. EntriesOf(n) \in Seq(Entry)
        BY EntriesShape
      <3> QED BY <2>6, <3>1, <3>2, ConcatEmptySeq
    <2>10. Paths(tp, op, EntriesOf(Head(w)), Tail(w), made, d)
      BY <1>2, <2>6, <2>8, PathBegins
    <2> QED BY <1>1, <1>q, <2>2, <2>7, <2>9, <2>10, PathsPrimed
  <1>4. CASE WorkerReleases
    <2>1. UNCHANGED <<TradePath, OrderPath, lost, Begun>>
      BY <1>4, PersistKept, BegunKept DEF WorkerReleases
    <2>2. Contents' = Tail(Contents)
      BY <1>4, ReleasePops DEF WorkerReleases, Fifo!EndPop
    <2>3. Pool' = Pool
      BY <1>4, <2>2 DEF WorkerReleases, Pool
    <2> QED BY <1>q, <1>w, <2>1, <2>3, PathsKept
  <1>5. CASE WorkerLogs
    <2>1. todo \in Seq(Entry) /\ todo # <<>> /\ Head(todo) \in Entry /\ Tail(todo) \in Seq(Entry)
      BY <1>5, HeadTailProperties DEF WorkerLogs, WorkInv
    <2>2. initialized_ /\ ~shutdown_requested_
      BY <1>5 DEF WorkerLogs, PhaseInv
    <2>3. logging = None /\ logging' = Head(todo) /\ todo' = Tail(todo) /\ Head(todo) # None
      BY <1>5, <2>1, <2>2, NoneIsNoEntry DEF WorkerLogs, LogCheck
    <2>4. Begun' = Begun
      <3>1. Begun = <<>> \o todo /\ Begun' = <<Head(todo)>> \o Tail(todo)
        BY <2>3 DEF Begun
      <3>2. <<>> \o todo = todo
        BY <2>1, ConcatEmptySeq
      <3>3. <<Head(todo)>> \o Tail(todo) = todo
        BY <2>1, SMT
      <3> QED BY <3>1, <3>2, <3>3
    <2>5. UNCHANGED <<TradePath, OrderPath, lost>>
      BY <1>5, TracksKept DEF WorkerLogs, LogCheck, writerVars
    <2>6. Pool' = Pool
      BY <1>5, ContentsKept DEF WorkerLogs, Pool
    <2> QED BY <1>q, <1>w, <2>4, <2>5, <2>6, PathsKept
  <1>6. CASE WorkerPushes
    <2> USE DEF WorkerPushes, LogPush
    <2>1. logging \in Entry /\ logging # None /\ logging' = None /\ todo' = todo /\ todo \in Seq(Entry)
      BY <1>6 DEF workerVars, WorkInv
    <2>2. b # <<>> /\ Head(b) = logging /\ Tail(b) = todo
      <3>1. b = <<logging>> \o todo
        BY <1>1, <2>1 DEF Begun
      <3> QED BY <2>1, <3>1, SMT
    <2>3. Begun' = Tail(b)
      <3>1. Begun' = <<>> \o todo
        BY <2>1 DEF Begun
      <3> QED BY <2>1, <2>2, <3>1, ConcatEmptySeq
    <2>4. Waiting' = w
      <3>1. Pool' = Pool
        BY <1>6, ContentsKept DEF Pool, workerVars
      <3> QED BY <1>1, <1>w, <3>1
    <2>5. UNCHANGED <<writer, trade_log_, trade_buffer_, order_log_, order_buffer_>>
      BY <1>6 DEF writerVars
    <2>6. CASE IsTradeEntry(logging) /\ trade_queue_' = Append(trade_queue_, logging)
               /\ UNCHANGED <<order_queue_, lost>>
      <3>1. TradePath' = Append(tp, Head(b))
        <4>1. PICK s \in Seq(Entry) : s = trade_log_ \o Pending(trade_buffer_)
          BY ConcatProperties, EmptySeq DEF Pending, BufferInv
        <4>2. tp = s \o trade_queue_ /\ TradePath' = s \o Append(trade_queue_, logging)
          BY <1>1, <2>5, <2>6, <4>1 DEF TradePath, Pending
        <4>3. s \o Append(trade_queue_, logging) = Append(s \o trade_queue_, logging)
          BY <2>1, SMT DEF QueueInv
        <4> QED BY <2>2, <4>2, <4>3
      <3>2. OrderPath' = op
        BY <1>1, <2>5, <2>6 DEF OrderPath, Pending
      <3>3. Paths(Append(tp, Head(b)), op, Tail(b), w, made, d)
        BY <1>2, <2>2, <2>6, PathLogsTrade
      <3> QED BY <1>1, <1>q, <2>3, <2>4, <2>6, <3>1, <3>2, <3>3, PathsPrimed
    <2>7. CASE ~IsTradeEntry(logging) /\ order_queue_' = Append(order_queue_, logging)
               /\ UNCHANGED <<trade_queue_, lost>>
      <3>1. OrderPath' = Append(op, Head(b))
        <4>1. PICK s \in Seq(Entry) : s = order_log_ \o Pending(order_buffer_)
          BY ConcatProperties, EmptySeq DEF Pending, BufferInv
        <4>2. op = s \o order_queue_ /\ OrderPath' = s \o Append(order_queue_, logging)
          BY <1>1, <2>5, <2>7, <4>1 DEF OrderPath, Pending
        <4>3. s \o Append(order_queue_, logging) = Append(s \o order_queue_, logging)
          BY <2>1, SMT DEF QueueInv
        <4> QED BY <2>2, <4>2, <4>3
      <3>2. TradePath' = tp
        BY <1>1, <2>5, <2>7 DEF TradePath, Pending
      <3>3. Paths(tp, Append(op, Head(b)), Tail(b), w, made, d)
        BY <1>2, <2>2, <2>7, PathLogsOrder
      <3> QED BY <1>1, <1>q, <2>3, <2>4, <2>7, <3>1, <3>2, <3>3, PathsPrimed
    <2>8. CASE lost' = lost \cup {logging} /\ UNCHANGED <<trade_queue_, order_queue_>>
      <3>1. TradePath' = tp /\ OrderPath' = op
        BY <1>1, <2>5, <2>8 DEF TradePath, OrderPath, Pending
      <3>2. Paths(tp, op, Tail(b), w, made, d \cup {Head(b)})
        BY <1>2, <2>2, PathLoses
      <3>3. lost' = d \cup {Head(b)}
        BY <1>1, <2>2, <2>8
      <3> QED BY <1>1, <1>q, <2>3, <2>4, <3>1, <3>2, <3>3, PathsPrimed
    <2> QED BY <1>6, <2>6, <2>7, <2>8
  <1>7. CASE WorkerExits
    <2>1. UNCHANGED <<TradePath, OrderPath, lost, Begun>>
      BY <1>7, PersistKept, BegunKept DEF WorkerExits
    <2>2. Pool' = Pool
      BY <1>7, ContentsKept DEF WorkerExits, Unoccupied, Pool
    <2> QED BY <1>q, <1>w, <2>1, <2>2, PathsKept
  <1> QED BY <1>3, <1>4, <1>5, <1>6, <1>7 DEF Worker

\* The writer moves records within a path.
LEMMA WriterKeepsPaths ==
    ASSUME QueueInv, BufferInv, PathsInv, WriterSteps
    PROVE  PathsInv'
  <1> USE DEF QueueInv, BufferInv
  <1>1. UNCHANGED <<ringVars, engineVars, workerVars>>
    BY DEF WriterSteps
  <1>2. UNCHANGED <<Begun, Waiting, Produced, lost>>
    <2>1. UNCHANGED <<logging, lost>>
      BY DEF WriterSteps, Writer, DrainTrade, TradesDrained, DrainOrder, OrdersDrained,
             WriteBatches, Hold, NextTurn, LastWrite, logVars
    <2>2. Contents' = Contents
      BY <1>1, ContentsKept
    <2> QED BY <1>1, <2>1, <2>2, BegunKept, ProducedKept DEF Waiting, engineVars, workerVars
  <1>3. CASE DrainTrade
    <2> USE <1>3 DEF DrainTrade
    <2>1. OrderPath' = OrderPath
      BY DEF OrderPath, Pending
    <2>2. writer # "exited" /\ writer' # "exited" /\ trade_queue_ # <<>>
      OBVIOUS
    <2>3. TradePath' = Joined(trade_log_, Append(trade_buffer_, Head(trade_queue_)), Tail(trade_queue_))
      BY <2>2 DEF TradePath, Pending, Joined
    <2>4. TradePath = Joined(trade_log_, trade_buffer_, trade_queue_)
      BY <2>2 DEF TradePath, Pending, Joined
    <2>5. TradePath' = TradePath
      BY <2>2, <2>3, <2>4, CarryHead
    <2> QED BY <1>2, <2>1, <2>5, PathsKept
  <1>4. CASE DrainOrder
    <2> USE <1>4 DEF DrainOrder
    <2>1. TradePath' = TradePath
      BY DEF TradePath, Pending
    <2>2. writer # "exited" /\ writer' # "exited" /\ order_queue_ # <<>>
      OBVIOUS
    <2>3. OrderPath' = Joined(order_log_, Append(order_buffer_, Head(order_queue_)), Tail(order_queue_))
      BY <2>2 DEF OrderPath, Pending, Joined
    <2>4. OrderPath = Joined(order_log_, order_buffer_, order_queue_)
      BY <2>2 DEF OrderPath, Pending, Joined
    <2>5. OrderPath' = OrderPath
      BY <2>2, <2>3, <2>4, CarryHead
    <2> QED BY <1>2, <2>1, <2>5, PathsKept
  <1>5. CASE TradesDrained \/ OrdersDrained \/ Hold \/ NextTurn
    <2>1. UNCHANGED <<TradePath, OrderPath, lost>>
      BY <1>5, TracksKept DEF TradesDrained, OrdersDrained, Hold, NextTurn, logVars
    <2> QED BY <1>2, <2>1, PathsKept
  <1>6. CASE WriteBatches \/ LastWrite
    <2>1. PICK tl \in Seq(Entry) : tl = trade_log_ \o trade_buffer_
      BY ConcatProperties
    <2>2. PICK ol \in Seq(Entry) : ol = order_log_ \o order_buffer_
      BY ConcatProperties
    <2>3. trade_log_' = tl /\ order_log_' = ol /\ UNCHANGED <<trade_queue_, order_queue_>>
          /\ writer # "exited"
          /\ ((trade_buffer_' = <<>> /\ order_buffer_' = <<>>) \/ writer' = "exited")
      BY <1>6, <2>1, <2>2 DEF WriteBatches, LastWrite, Write, logVars
    <2>4. TradePath = tl \o trade_queue_ /\ OrderPath = ol \o order_queue_
      BY <2>1, <2>2, <2>3 DEF TradePath, OrderPath, Pending
    <2>5. TradePath' = (tl \o <<>>) \o trade_queue_ /\ OrderPath' = (ol \o <<>>) \o order_queue_
      BY <2>3 DEF TradePath, OrderPath, Pending
    <2>6. tl \o <<>> = tl /\ ol \o <<>> = ol
      BY ConcatEmptySeq
    <2> QED BY <1>2, <2>4, <2>5, <2>6, PathsKept
  <1> QED BY <1>3, <1>4, <1>5, <1>6 DEF WriterSteps, Writer
-----------------------------------------------------------------------------
(* The theorem. *)

RecordInv ==
    /\ CommitInv /\ RingInv /\ FlagTypes /\ PhaseInv /\ QuietInv /\ TaskInv
    /\ QueueInv /\ WorkInv /\ BufferInv /\ PathsInv

LEMMA PathsInit == Init => PathsInv
  <1> SUFFICES ASSUME Init PROVE PathsInv
    OBVIOUS
  <1>1. RingInv
    BY RingInvInit DEF Init
  <1>2. Contents = <<>>
    <2>1. RingSize = 0
      BY <1>1, SizeShape, SMT DEF Init, RingInit
    <2> QED BY <1>1, <2>1, ContentsShape, EmptySeq
  <1>3. <<>> \o <<>> = <<>> /\ (<<>> \o <<>>) \o <<>> = <<>>
    BY SMT
  <1>4. TradePath = <<>> /\ OrderPath = <<>> /\ Begun = <<>> /\ Waiting = <<>>
    BY <1>2, <1>3 DEF Init, PersistInit, TradePath, OrderPath, Pending, Begun, Waiting
  <1>5. Produced = {} /\ lost = {}
    BY DEF Init, PersistInit, Produced
  <1>6. Remaining(<<>>, <<>>) = {}
    BY EmptyToSet DEF Remaining, EntriesOfAll
  <1>7. <<>> \in Seq(Entry) /\ <<>> \in Seq(Orders)
    BY EmptySeq
  <1> QED BY <1>4, <1>5, <1>6, <1>7, EmptyToSet, EmptyInOrder
          DEF PathsInv, Paths, PathTypes, Partition, Ordered, Behind

LEMMA RecordInit == Init => RecordInv
  <1>1. Init => RingInv
    BY RingInvInit DEF Init
  <1> QED BY <1>1, CommitInit, FlagsInit, PhaseInit, TaskInit, DataInit, PathsInit DEF RecordInv

LEMMA PathsNext ==
    ASSUME RecordInv, RingInv', [Next]_vars
    PROVE  PathsInv'
  <1> USE DEF RecordInv
  <1>1. CASE Engine \/ AppendToWal
    BY <1>1, EngineKeepsPaths
  <1>2. CASE Worker
    BY <1>2, WorkerKeepsPaths
  <1>3. CASE WriterSteps
    BY <1>3, WriterKeepsPaths
  <1>0. ASSUME UNCHANGED <<trade_log_, trade_buffer_, trade_queue_, order_log_, order_buffer_,
                           order_queue_, lost, writer, logging, todo, worker, engine, sent,
                           processed, full, ringVars>>
        PROVE  PathsInv'
    <2>1. UNCHANGED <<TradePath, OrderPath, lost>>
      BY <1>0, TracksKept
    <2>2. Contents' = Contents
      BY <1>0, ContentsKept
    <2> QED BY <1>0, <2>1, <2>2, BegunKept, ProducedKept, PathsKept DEF Waiting
  <1>4. CASE Flusher
    BY <1>0, <1>4 DEF Flusher, FlusherGoesOn, NotDue, Collect, Sync, SyncFails, MarkCommitted,
                      FlusherExits, persistVars, writerVars, logVars, engineVars, workerVars
  <1>5. CASE Shutdown
    BY <1>0, <1>5 DEF Shutdown, persistVars, writerVars, logVars, workerVars
  <1>6. CASE Owner
    <2>1. UNCHANGED <<ringVars, engineVars, workerVars, writerVars, logVars>>
      BY <1>6 DEF Owner, FlusherJoined, StopWorker, WorkerJoined, WriterJoined, ShutdownDone,
                  RequestShutdown, JoinWriter, ShutdownReturns, persistVars
    <2> QED BY <1>0, <2>1 DEF writerVars, logVars, engineVars, workerVars
  <1>7. CASE UNCHANGED vars
    BY <1>0, <1>7 DEF vars, persistVars, writerVars, logVars, engineVars, workerVars
  <1> QED BY <1>1, <1>2, <1>3, <1>4, <1>5, <1>6, <1>7 DEF Next

LEMMA RecordNext == RecordInv /\ [Next]_vars => RecordInv'
  <1> SUFFICES ASSUME RecordInv, [Next]_vars PROVE RecordInv'
    OBVIOUS
  <1> USE DEF RecordInv
  <1>1. CommitInv'
    BY CommitNext
  <1>2. RingInv'
    BY RingStep, RingInvNext
  <1>3. FlagTypes' /\ PhaseInv' /\ QuietInv' /\ TaskInv'
    BY FlagsNext, PhaseNext, QuietNext, TaskNext
  <1>4. QueueInv' /\ WorkInv' /\ BufferInv'
    BY QueueNext, WorkNext, BufferNext
  <1>5. PathsInv'
    BY <1>2, PathsNext
  <1> QED BY <1>1, <1>2, <1>3, <1>4, <1>5

LEMMA TypesFollow == RecordInv => TypeOK
  <1> SUFFICES ASSUME RecordInv PROVE TypeOK
    OBVIOUS
  <1> USE DEF RecordInv
  <1>1. {initialized_, shutdown_requested_, has_data, overlap, sync_failed, shutting_down_,
         persistence_running_, flush_running_} \subseteq BOOLEAN
    BY DEF FlagTypes
  <1>2. RingTypeOK
    BY DEF RingInv
  <1>3. sent \in 0 .. MaxSent /\ processed \subseteq Orders /\ full \subseteq Orders
    <2>1. 1 .. sent \subseteq Orders
      BY OrderNumbers, SMT DEF CommitInv, LogInv
    <2> QED BY <2>1 DEF CommitInv, LogInv, TaskInv
  <1>4. wal \in Seq(Orders) /\ synced \in 0 .. Len(wal) /\ committed \in Orders \cup {0}
    <2>1. sent \in Nat /\ sent <= MaxSent /\ wal = [i \in 1 .. sent |-> i]
          /\ synced \in 0 .. sent /\ committed \in 0 .. synced
      BY SentBound, SMT DEF CommitInv, LogInv, GroupInv
    <2>2. wal \in [1 .. sent -> Orders]
      BY <2>1, OrderNumbers, SMT
    <2>3. wal \in Seq(Orders) /\ Len(wal) = sent
      BY <2>1, <2>2, SMT
    <2>4. committed \in Orders \cup {0}
      BY <2>1, OrderNumbers, SMT
    <2> QED BY <2>1, <2>3, <2>4
  <1>5. batch_buffer_ \in Seq(Orders) /\ to_flush \in Seq(Orders)
    <2>1. sent \in Nat /\ sent <= MaxSent /\ batch_buffer_ \in Upto(sent) /\ to_flush \in Upto(sent)
      BY SentBound, SMT DEF CommitInv, LogInv, GroupInv
    <2>2. batch_buffer_ \in Upto(MaxSent) /\ to_flush \in Upto(MaxSent)
      BY <2>1, SentBound, UptoGrows
    <2> QED BY <2>2, OrderNumbers DEF Upto
  <1>6. PhaseTypes
    BY DEF PhaseInv
  <1> QED BY <1>1, <1>2, <1>3, <1>4, <1>5, <1>6
          DEF TypeOK, PhaseTypes, QueueInv, WorkInv, BufferInv

LEMMA PathsFollow == RecordInv => PathsComplete
  <1> SUFFICES ASSUME RecordInv PROVE PathsComplete
    OBVIOUS
  <1>1. Paths(TradePath, OrderPath, Begun, Waiting, Produced, lost)
    BY DEF RecordInv, PathsInv
  <1>2. ToLog = Remaining(Begun, Waiting)
    BY DEF ToLog, Remaining, EntriesOfAll
  <1> QED BY <1>1, <1>2 DEF PathsComplete, Paths, Partition, Ordered, Behind, Increasing, Logged

LEMMA NothingLeft == RecordInv => ShutdownWritesAll
  <1> SUFFICES ASSUME RecordInv, owner = "done", ~overlap
               PROVE  Produced \ lost = ToSet(trade_log_) \cup ToSet(order_log_)
    BY DEF ShutdownWritesAll
  <1>1. /\ worker = "exited" /\ writer = "exited" /\ trade_queue_ = <<>> /\ order_queue_ = <<>>
        /\ logging = None /\ todo = <<>>
    BY DEF RecordInv, PhaseInv, QueuesEmpty
  <1>2. RingEmpty /\ engine \in {"idle", "process"}
    BY <1>1 DEF RecordInv, QuietInv
  <1>3. Contents = <<>>
    <2>1. RingInv
      BY DEF RecordInv
    <2>2. RingSize = 0
      BY <1>2, <2>1, SizeShape, SMT DEF RingEmpty
    <2> QED BY <2>1, <2>2, ContentsShape, EmptySeq
  <1>4. <<>> \o <<>> = <<>>
    BY SMT
  <1>5. Begun = <<>> /\ Waiting = <<>>
    BY <1>1, <1>2, <1>3, <1>4 DEF Begun, Waiting
  <1>6. TradePath = trade_log_ /\ OrderPath = order_log_
    <2>1. trade_log_ \in Seq(Entry) /\ order_log_ \in Seq(Entry)
      BY DEF RecordInv, BufferInv
    <2>2. TradePath = (trade_log_ \o <<>>) \o <<>> /\ OrderPath = (order_log_ \o <<>>) \o <<>>
      BY <1>1 DEF TradePath, OrderPath, Pending
    <2>3. trade_log_ \o <<>> = trade_log_ /\ order_log_ \o <<>> = order_log_
      BY <2>1, ConcatEmptySeq
    <2> QED BY <2>2, <2>3
  <1>7. Remaining(<<>>, <<>>) = {}
    BY EmptyToSet DEF Remaining, EntriesOfAll
  <1> QED BY <1>5, <1>6, <1>7 DEF RecordInv, PathsInv, Paths, Partition

\* On the way from the engine to the files no record is lost, doubled or overtaken but
\* those a full queue dropped, and a shutdown nobody sends orders into writes them
\* all: for any number of orders and trades, any size of ring, queues and buffers.
THEOREM RecordsStayInPath == Spec => []RecordsKept
  <1>1. RecordInv => RecordsKept
    BY TypesFollow, PathsFollow, NothingLeft DEF RecordsKept
  <1> QED BY <1>1, RecordInit, RecordNext, PTL DEF Spec
=============================================================================
