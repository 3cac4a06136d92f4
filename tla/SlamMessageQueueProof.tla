----------------------- MODULE SlamMessageQueueProof ------------------------
(***************************************************************************)
(* Proofs about SlamMessageQueue for every MaxSize, every set of messages  *)
(* and every MaxPush.                                                      *)
(*                                                                         *)
(* The invariant ties the two indices to the histories.  rindex never      *)
(* wraps, so it counts the messages popped; windex has wrapped at most     *)
(* once, because push_back cannot run a full ring ahead of a reader that   *)
(* stops at MaxSize.                                                       *)
(***************************************************************************)
EXTENDS SlamMessageQueue, TLAPS

\* The slot of the i-th message pushed, i starting from 1.
SlotOf(i) == IF i <= MaxSize THEN i - 1 ELSE i - 1 - MaxSize

\* Where the indices are: at most MaxSize - 1 messages are unread.
IndexInv ==
  /\ rindex <= Len(pushed)
  /\ Len(pushed) <= rindex + MaxSize - 1
  /\ windex = SlotOf(Len(pushed) + 1)

\* The slots between rindex and windex hold the unread messages.
SlotInv == \A i \in rindex + 1 .. Len(pushed) : queue[SlotOf(i)] = pushed[i]

\* What the producer knows inside push_back.
ProducerInv ==
  /\ ppc # "idle" => pushing \in Message
  /\ ppc = "check" => Len(pushed) < 2 * MaxSize - 1
  /\ ppc \in {"store", "publish"} => Len(pushed) < rindex + MaxSize - 1
  /\ ppc = "publish" => queue[windex] = pushing

\* What the consumer knows inside pop_front, and what it has returned.
ConsumerInv ==
  /\ Len(delivered) + Len(freed) + (IF cpc = "load" THEN 1 ELSE 0) = rindex
  /\ \A i \in 1 .. Len(delivered) : delivered[i] = pushed[i]
  /\ cpc = "load" => queue[rindex - 1] = pushed[rindex]
  /\ cpc \in {"pop", "advance"} => rindex < Len(pushed) /\ rindex < MaxSize
  /\ cpc = "advance" => loaded = pushed[rindex + 1]
  /\ peeked # NoMessage /\ status = "running" =>
       /\ Len(delivered) < Len(pushed)
       /\ peeked = pushed[Len(delivered) + 1]

\* What slam_message_queue_delete has freed.
DeleteInv ==
  /\ status # "deleted" => freed = << >>
  /\ status = "deleted" =>
       /\ Len(delivered) + Len(freed) = Len(pushed)
       /\ \A i \in 1 .. Len(freed) : freed[i] = pushed[Len(delivered) + i]

\* The inductive invariant.
QueueInv ==
  /\ TypeOK
  /\ IndexInv
  /\ SlotInv
  /\ ProducerInv
  /\ ConsumerInv
  /\ DeleteInv

-----------------------------------------------------------------------------
(* Facts about the indices.                                                *)

\* Reducing an index that lies less than two rounds ahead.
LEMMA ModOneRound ==
  ASSUME NEW a \in Nat, NEW n \in Nat \ {0}, a < 2 * n
  PROVE  /\ a < n => a % n = a
         /\ a >= n => a % n = a - n
  <1>1. CASE a < n
    BY <1>1
  <1>2. CASE a >= n
    BY <1>2
  <1> QED
    BY <1>1, <1>2

\* windex + 1 reduced modulo MaxSize, without the modulo.
LEMMA NextIndexValue ==
  ASSUME windex \in Slot
  PROVE  /\ NextIndex = IF windex + 1 = MaxSize THEN 0 ELSE windex + 1
         /\ NextIndex \in Slot
  <1> DEFINE next == windex + 1
  <1>1. next \in Nat /\ next <= MaxSize /\ next < 2 * MaxSize
    BY MaxSizeAssumption DEF Slot
  <1>2. next % MaxSize = IF next = MaxSize THEN 0 ELSE next
    <2> HIDE DEF next
    <2>1. /\ next < MaxSize => next % MaxSize = next
          /\ next >= MaxSize => next % MaxSize = next - MaxSize
      BY <1>1, MaxSizeAssumption, ModOneRound
    <2> QED
      BY <1>1, <2>1, MaxSizeAssumption
  <1>3. next % MaxSize \in Slot
    BY <1>1, <1>2, MaxSizeAssumption DEF Slot
  <1> QED
    BY <1>2, <1>3, Zenon DEF NextIndex

\* The index after the one of the k-th message, without the modulo: it is the
\* slot of message k + 2, and it differs from r unless the ring is full.
LEMMA NextSlot ==
  ASSUME NEW n \in Nat \ {0}, NEW r \in Nat, NEW k \in Nat, NEW w \in Nat,
         r <= n, k < 2 * n - 1, w = IF k + 1 <= n THEN k ELSE k - n
  PROVE  /\ (IF w + 1 = n THEN 0 ELSE w + 1)
              = IF k + 2 <= n THEN k + 1 ELSE k + 1 - n
         /\ (IF w + 1 = n THEN 0 ELSE w + 1) # r /\ k <= r + n - 1
              => k < r + n - 1
  OBVIOUS

\* Unread messages do not lie in the slot that is written next.
LEMMA SlotDiffers ==
  ASSUME NEW r \in Nat, NEW k \in Nat, NEW i \in Nat,
         r <= MaxSize, k < r + MaxSize - 1, r < i, i <= k
  PROVE  SlotOf(i) \in Slot /\ SlotOf(i) # SlotOf(k + 1)
  BY MaxSizeAssumption DEF SlotOf, Slot

\* A queue the test rindex # windex calls non-empty has an unread message,
\* and rindex is the slot of the oldest one.
LEMMA HeadSlot ==
  ASSUME QueueInv, rindex # windex, rindex < MaxSize
  PROVE  /\ rindex < Len(pushed)
         /\ queue[rindex] = pushed[rindex + 1]
         /\ pushed[rindex + 1] \in Message
  <1> USE MaxSizeAssumption DEF QueueInv, TypeOK
  <1>1. rindex < Len(pushed)
    BY DEF IndexInv, SlotOf
  <1>2. SlotOf(rindex + 1) = rindex
    BY DEF SlotOf
  <1>3. queue[rindex] = pushed[rindex + 1]
    BY <1>1, <1>2 DEF SlotInv
  <1>4. pushed[rindex + 1] \in Message
    BY <1>1
  <1> QED
    BY <1>1, <1>3, <1>4

-----------------------------------------------------------------------------
(* One lemma per action: it preserves the inductive invariant.             *)

\* A new queue satisfies the invariant.
LEMMA InitQueueInv == Init => QueueInv
  BY MaxSizeAssumption
  DEF Init, QueueInv, TypeOK, IndexInv, SlotInv, ProducerInv, ConsumerInv,
      DeleteInv, SlotOf, Slot

\* PushBegin preserves the invariant.
LEMMA PushBeginStep ==
  ASSUME NEW m \in Message, QueueInv, PushBegin(m)
  PROVE  QueueInv'
  <1> USE MaxSizeAssumption DEF QueueInv, PushBegin, ProducerGoes, consumer
  <1>1. TypeOK'
    BY DEF TypeOK
  <1>2. IndexInv' /\ SlotInv' /\ ConsumerInv' /\ DeleteInv'
    BY DEF IndexInv, SlotInv, ConsumerInv, DeleteInv
  <1>3. ProducerInv'
    BY DEF TypeOK, IndexInv, ProducerInv, AssertQueue, Slot
  <1> QED
    BY <1>1, <1>2, <1>3

\* PushFull preserves the invariant.
LEMMA PushFullStep ==
  ASSUME QueueInv, PushFull
  PROVE  QueueInv'
  <1> USE MaxSizeAssumption DEF QueueInv, PushFull, ProducerGoes, consumer
  <1>1. TypeOK'
    BY DEF TypeOK
  <1>2. IndexInv' /\ SlotInv' /\ ConsumerInv' /\ DeleteInv'
    BY DEF IndexInv, SlotInv, ConsumerInv, DeleteInv
  <1>3. ProducerInv'
    BY DEF ProducerInv
  <1> QED
    BY <1>1, <1>2, <1>3

\* PushRoom preserves the invariant.
LEMMA PushRoomStep ==
  ASSUME QueueInv, PushRoom
  PROVE  QueueInv'
  <1> USE MaxSizeAssumption DEF QueueInv, PushRoom, Full, ProducerGoes, consumer
  <1>1. TypeOK'
    BY DEF TypeOK
  <1>2. IndexInv' /\ SlotInv' /\ ConsumerInv' /\ DeleteInv'
    BY DEF IndexInv, SlotInv, ConsumerInv, DeleteInv
  <1>3. ProducerInv'
    <2> DEFINE k == Len(pushed)
    <2>1. /\ k \in Nat /\ rindex \in Nat /\ windex \in Nat /\ rindex <= MaxSize
          /\ k < 2 * MaxSize - 1 /\ k <= rindex + MaxSize - 1
          /\ windex = IF k + 1 <= MaxSize THEN k ELSE k - MaxSize
      BY DEF TypeOK, IndexInv, ProducerInv, SlotOf, Slot
    <2>2. (IF windex + 1 = MaxSize THEN 0 ELSE windex + 1) # rindex
      BY NextIndexValue DEF TypeOK
    <2> HIDE DEF k
    <2>3. k < rindex + MaxSize - 1
      BY <2>1, <2>2, NextSlot
    <2> QED
      BY <2>3 DEF ProducerInv, k
  <1> QED
    BY <1>1, <1>2, <1>3

\* PushStore preserves the invariant.
LEMMA PushStoreStep ==
  ASSUME QueueInv, PushStore
  PROVE  QueueInv'
  <1> USE MaxSizeAssumption DEF QueueInv, PushStore, ProducerGoes, consumer
  <1>1. TypeOK'
    BY DEF TypeOK
  <1>2. IndexInv' /\ DeleteInv'
    BY DEF IndexInv, DeleteInv
  <1>3. SlotInv'
    <2> SUFFICES ASSUME NEW i \in rindex + 1 .. Len(pushed)
                 PROVE  queue'[SlotOf(i)] = pushed[i]
      BY DEF SlotInv
    <2>1. /\ rindex \in Nat /\ Len(pushed) \in Nat /\ i \in Nat /\ rindex <= MaxSize
          /\ Len(pushed) < rindex + MaxSize - 1 /\ rindex < i /\ i <= Len(pushed)
      BY DEF TypeOK, ProducerInv
    <2>2. SlotOf(i) \in Slot /\ SlotOf(i) # windex
      BY <2>1, SlotDiffers DEF IndexInv
    <2>3. queue'[SlotOf(i)] = queue[SlotOf(i)]
      BY <2>2 DEF TypeOK
    <2> QED
      BY <2>3 DEF SlotInv
  <1>4. ProducerInv'
    BY DEF TypeOK, ProducerInv
  <1>5. ConsumerInv'
    BY DEF TypeOK, IndexInv, ProducerInv, ConsumerInv, SlotOf, Slot
  <1> QED
    BY <1>1, <1>2, <1>3, <1>4, <1>5

\* PushPublish preserves the invariant.
LEMMA PushPublishStep ==
  ASSUME QueueInv, PushPublish
  PROVE  QueueInv'
  <1> USE MaxSizeAssumption DEF QueueInv, PushPublish, ProducerGoes, consumer
  <1>1. TypeOK'
    BY NextIndexValue DEF TypeOK, ProducerInv
  <1>2. IndexInv'
    <2> DEFINE k == Len(pushed)
    <2>1. /\ k \in Nat /\ rindex \in Nat /\ windex \in Nat /\ rindex <= MaxSize
          /\ rindex <= k /\ k < rindex + MaxSize - 1
          /\ windex = IF k + 1 <= MaxSize THEN k ELSE k - MaxSize
      BY DEF TypeOK, IndexInv, ProducerInv, SlotOf, Slot
    <2>2. windex' = (IF windex + 1 = MaxSize THEN 0 ELSE windex + 1)
      BY NextIndexValue DEF TypeOK
    <2>3. Len(pushed') = k + 1 /\ rindex' = rindex
      BY DEF TypeOK, ProducerInv
    <2> HIDE DEF k
    <2>4. windex' = SlotOf(k + 2)
      BY <2>1, <2>2, NextSlot DEF SlotOf
    <2> QED
      BY <2>1, <2>3, <2>4 DEF IndexInv
  <1>3. SlotInv'
    <2> SUFFICES ASSUME NEW i \in rindex + 1 .. Len(pushed) + 1
                 PROVE  queue[SlotOf(i)] = pushed'[i]
      BY DEF TypeOK, SlotInv
    <2>1. CASE i <= Len(pushed)
      BY <2>1 DEF TypeOK, SlotInv
    <2>2. CASE i = Len(pushed) + 1
      BY <2>2 DEF TypeOK, IndexInv, ProducerInv
    <2> QED
      BY <2>1, <2>2 DEF TypeOK
  <1>4. ProducerInv'
    BY DEF ProducerInv
  <1>5. ConsumerInv'
    BY DEF TypeOK, IndexInv, ConsumerInv
  <1>6. DeleteInv'
    BY DEF DeleteInv
  <1> QED
    BY <1>1, <1>2, <1>3, <1>4, <1>5, <1>6

\* PushCount preserves the invariant.
LEMMA PushCountStep ==
  ASSUME QueueInv, PushCount
  PROVE  QueueInv'
  <1> USE MaxSizeAssumption DEF QueueInv, PushCount, ProducerGoes, consumer
  <1>1. TypeOK'
    BY DEF TypeOK
  <1>2. IndexInv' /\ SlotInv' /\ ConsumerInv' /\ DeleteInv'
    BY DEF IndexInv, SlotInv, ConsumerInv, DeleteInv
  <1>3. ProducerInv'
    BY DEF ProducerInv
  <1> QED
    BY <1>1, <1>2, <1>3

\* Front preserves the invariant.
LEMMA FrontStep ==
  ASSUME QueueInv, Front
  PROVE  QueueInv'
  <1> USE MaxSizeAssumption DEF QueueInv, Front, ConsumerGoes, producer
  <1>1. rindex < Len(pushed) /\ queue[rindex] = pushed[rindex + 1]
    BY HeadSlot DEF AssertQueue, Slot
  <1>2. TypeOK'
    BY DEF TypeOK, AssertQueue
  <1>3. IndexInv' /\ SlotInv' /\ ProducerInv' /\ DeleteInv'
    BY DEF IndexInv, SlotInv, ProducerInv, DeleteInv
  <1>4. Len(delivered) = rindex
    BY DEF TypeOK, ConsumerInv, DeleteInv
  <1>5. ConsumerInv'
    BY <1>1, <1>4 DEF TypeOK, ConsumerInv
  <1> QED
    BY <1>1, <1>2, <1>3, <1>4, <1>5

\* PopBegin preserves the invariant.
LEMMA PopBeginStep ==
  ASSUME QueueInv, PopBegin
  PROVE  QueueInv'
  <1> USE MaxSizeAssumption DEF QueueInv, PopBegin, ConsumerGoes, producer
  <1>1. rindex < Len(pushed) /\ rindex < MaxSize
    BY HeadSlot DEF AssertQueue, Slot
  <1>2. TypeOK'
    BY DEF TypeOK
  <1>3. IndexInv' /\ SlotInv' /\ ProducerInv' /\ DeleteInv'
    BY DEF IndexInv, SlotInv, ProducerInv, DeleteInv
  <1>4. ConsumerInv'
    BY <1>1 DEF ConsumerInv
  <1> QED
    BY <1>1, <1>2, <1>3, <1>4

\* PopAdvanceFirst preserves the invariant.
LEMMA PopAdvanceFirstStep ==
  ASSUME QueueInv, PopAdvanceFirst
  PROVE  QueueInv'
  <1> USE MaxSizeAssumption DEF QueueInv, PopAdvanceFirst, ConsumerGoes, producer
  <1>1. rindex < Len(pushed) /\ rindex < MaxSize
    BY DEF ConsumerInv
  <1>2. queue[rindex] = pushed[rindex + 1]
    BY <1>1 DEF TypeOK, SlotInv, SlotOf
  <1>3. TypeOK'
    BY <1>1 DEF TypeOK
  <1>4. IndexInv' /\ SlotInv' /\ ProducerInv' /\ DeleteInv'
    BY <1>1 DEF TypeOK, IndexInv, SlotInv, ProducerInv, DeleteInv
  <1>5. ConsumerInv'
    BY <1>1, <1>2 DEF TypeOK, ConsumerInv, DeleteInv
  <1> QED
    BY <1>1, <1>2, <1>3, <1>4, <1>5

\* PopLoadLast preserves the invariant.
LEMMA PopLoadLastStep ==
  ASSUME QueueInv, PopLoadLast
  PROVE  QueueInv'
  <1> USE MaxSizeAssumption DEF QueueInv, PopLoadLast, ConsumerGoes, producer
  <1>1. freed = << >> /\ Len(delivered) + 1 = rindex /\ queue[rindex - 1] = pushed[rindex]
    BY DEF TypeOK, ConsumerInv, DeleteInv
  <1>2. pushed[rindex] \in Message
    BY <1>1 DEF TypeOK, IndexInv
  <1>3. TypeOK'
    BY <1>1, <1>2 DEF TypeOK
  <1>4. IndexInv' /\ SlotInv' /\ ProducerInv' /\ DeleteInv'
    BY DEF IndexInv, SlotInv, ProducerInv, DeleteInv
  <1>5. ConsumerInv'
    BY <1>1, <1>2 DEF TypeOK, ConsumerInv
  <1> QED
    BY <1>1, <1>2, <1>3, <1>4, <1>5

\* PopLoadFirst preserves the invariant.
LEMMA PopLoadFirstStep ==
  ASSUME QueueInv, PopLoadFirst
  PROVE  QueueInv'
  <1> USE MaxSizeAssumption DEF QueueInv, PopLoadFirst, ConsumerGoes, producer
  <1>1. rindex < Len(pushed) /\ rindex < MaxSize
    BY DEF ConsumerInv
  <1>2. queue[rindex] = pushed[rindex + 1]
    BY <1>1 DEF TypeOK, SlotInv, SlotOf
  <1>3. TypeOK'
    BY <1>1 DEF TypeOK, Slot
  <1>4. IndexInv' /\ SlotInv' /\ ProducerInv' /\ DeleteInv'
    BY DEF IndexInv, SlotInv, ProducerInv, DeleteInv
  <1>5. ConsumerInv'
    BY <1>1, <1>2 DEF ConsumerInv
  <1> QED
    BY <1>1, <1>2, <1>3, <1>4, <1>5

\* PopAdvanceLast preserves the invariant.
LEMMA PopAdvanceLastStep ==
  ASSUME QueueInv, PopAdvanceLast
  PROVE  QueueInv'
  <1> USE MaxSizeAssumption DEF QueueInv, PopAdvanceLast, ConsumerGoes, producer
  <1>1. rindex < Len(pushed) /\ rindex < MaxSize /\ loaded = pushed[rindex + 1]
    BY DEF ConsumerInv
  <1>2. loaded \in Message
    BY <1>1 DEF TypeOK
  <1>3. TypeOK'
    BY <1>1, <1>2 DEF TypeOK
  <1>4. IndexInv' /\ SlotInv' /\ ProducerInv' /\ DeleteInv'
    BY <1>1 DEF TypeOK, IndexInv, SlotInv, ProducerInv, DeleteInv
  <1>5. ConsumerInv'
    BY <1>1, <1>2 DEF TypeOK, ConsumerInv, DeleteInv
  <1> QED
    BY <1>1, <1>2, <1>3, <1>4, <1>5

\* Abort preserves the invariant.
LEMMA AbortStep ==
  ASSUME QueueInv, Abort
  PROVE  QueueInv'
  <1> USE MaxSizeAssumption DEF QueueInv, Abort,
          indices, counters, producer, consumer, messages
  <1>1. TypeOK'
    BY DEF TypeOK
  <1>2. IndexInv' /\ SlotInv' /\ ProducerInv' /\ ConsumerInv' /\ DeleteInv'
    BY DEF IndexInv, SlotInv, ProducerInv, ConsumerInv, DeleteInv
  <1> QED
    BY <1>1, <1>2

\* DeleteAborts preserves the invariant.
LEMMA DeleteAbortsStep ==
  ASSUME QueueInv, DeleteAborts
  PROVE  QueueInv'
  <1> USE MaxSizeAssumption DEF QueueInv, DeleteAborts,
          indices, counters, producer, consumer, messages
  <1>1. TypeOK'
    BY DEF TypeOK
  <1>2. IndexInv' /\ SlotInv' /\ ProducerInv' /\ ConsumerInv' /\ DeleteInv'
    BY DEF IndexInv, SlotInv, ProducerInv, ConsumerInv, DeleteInv
  <1> QED
    BY <1>1, <1>2

\* Delete preserves the invariant.
LEMMA DeleteStep ==
  ASSUME QueueInv, Delete
  PROVE  QueueInv'
  <1> USE MaxSizeAssumption DEF QueueInv, Delete, Drained, producer, consumer
  <1>1. Len(pushed) = windex
    BY DEF TypeOK, IndexInv, SlotOf
  <1>2. Len(delivered) = rindex /\ freed = << >>
    BY DEF TypeOK, ConsumerInv, DeleteInv
  <1>3. \A i \in 1 .. windex - rindex : queue[rindex + i - 1] = pushed[rindex + i]
    <2> SUFFICES ASSUME NEW i \in 1 .. windex - rindex
                 PROVE  queue[rindex + i - 1] = pushed[rindex + i]
      OBVIOUS
    <2>1. SlotOf(rindex + i) = rindex + i - 1
      BY DEF TypeOK, Slot, SlotOf
    <2>2. rindex + i \in rindex + 1 .. Len(pushed)
      BY <1>1 DEF TypeOK, Slot
    <2> QED
      BY <2>1, <2>2 DEF SlotInv
  <1>4. \A i \in 1 .. windex - rindex : queue[rindex + i - 1] \in Message
    <2> SUFFICES ASSUME NEW i \in 1 .. windex - rindex
                 PROVE  queue[rindex + i - 1] \in Message
      OBVIOUS
    <2>1. rindex + i \in 1 .. Len(pushed)
      BY <1>1 DEF TypeOK, Slot
    <2>2. pushed[rindex + i] \in Message
      BY <2>1 DEF TypeOK
    <2> QED
      BY <1>3, <2>2
  <1>5. freed' \in Seq(Message) /\ Len(freed') = windex - rindex
    BY <1>4 DEF TypeOK, Slot
  <1>6. TypeOK'
    BY <1>5 DEF TypeOK, Slot
  <1>7. IndexInv'
    <2>1. /\ windex \in Nat /\ windex < MaxSize /\ rindex <= windex
          /\ rindex' = windex /\ windex' = windex /\ Len(pushed') = windex
      BY <1>1 DEF TypeOK, Slot, IndexInv
    <2> QED
      BY <2>1 DEF IndexInv, SlotOf
  <1>8. SlotInv'
    BY <1>1 DEF TypeOK, Slot, SlotInv
  <1>9. ProducerInv'
    BY DEF ProducerInv
  <1>10. ConsumerInv'
    BY <1>2, <1>5 DEF TypeOK, Slot, ConsumerInv
  <1>11. DeleteInv'
    BY <1>1, <1>2, <1>3, <1>5 DEF TypeOK, Slot, DeleteInv
  <1> QED
    BY <1>1, <1>2, <1>3, <1>4, <1>5, <1>6, <1>7, <1>8, <1>9, <1>10, <1>11

-----------------------------------------------------------------------------
\* Every step, and a stuttering step, preserves the invariant.
LEMMA NextQueueInv == QueueInv /\ [Next]_vars => QueueInv'
  <1> SUFFICES ASSUME QueueInv, [Next]_vars
               PROVE  QueueInv'
    OBVIOUS
  <1>1. CASE Producer
    BY <1>1, PushBeginStep, PushFullStep, PushRoomStep, PushStoreStep,
       PushPublishStep, PushCountStep DEF Producer
  <1>2. CASE Consumer
    BY <1>2, FrontStep, PopBeginStep, PopAdvanceFirstStep, PopLoadLastStep,
       PopLoadFirstStep, PopAdvanceLastStep DEF Consumer
  <1>3. CASE Abort \/ Delete \/ DeleteAborts
    BY <1>3, AbortStep, DeleteStep, DeleteAbortsStep
  <1>4. CASE UNCHANGED vars
    BY <1>4 DEF vars, indices, counters, producer, consumer, messages, QueueInv,
                TypeOK, IndexInv, SlotInv, ProducerInv, ConsumerInv, DeleteInv
  <1> QED
    BY <1>1, <1>2, <1>3, <1>4 DEF Next

\* The invariant holds in every reachable state.
THEOREM QueueInvariant == Spec => []QueueInv
  BY InitQueueInv, NextQueueInv, PTL DEF Spec

\* Every variable keeps its type: windex stays a slot, rindex stops at maxsize,
\* and only messages that were pushed are returned or freed.
THEOREM TypeCorrect == Spec => []TypeOK
  <1>1. QueueInv => TypeOK
    BY DEF QueueInv
  <1> QED
    BY <1>1, QueueInvariant, PTL

\* pop_front returns what push_back accepted, once and in order.
THEOREM FifoOrderHolds == Spec => []FifoOrder
  <1>1. QueueInv => FifoOrder
    BY DEF QueueInv, TypeOK, IndexInv, ConsumerInv, FifoOrder
  <1> QED
    BY <1>1, QueueInvariant, PTL

\* push_back never overwrites a message pop_front has yet to load.
THEOREM NoUnreadOverwriteHolds == Spec => []NoUnreadOverwrite
  <1>1. ASSUME QueueInv, ppc = "store"
        PROVE  /\ \A k \in 0 .. Len(pushed) - rindex - 1 :
                     windex # (rindex + k) % MaxSize
               /\ cpc = "load" => windex # rindex - 1
    <2> USE <1>1, MaxSizeAssumption DEF QueueInv, TypeOK, IndexInv, ProducerInv
    <2>1. ASSUME NEW k \in 0 .. Len(pushed) - rindex - 1
          PROVE  windex # (rindex + k) % MaxSize
      <3> DEFINE ahead == rindex + k
      <3>1. ahead \in Nat /\ rindex <= ahead /\ ahead < Len(pushed)
        OBVIOUS
      <3>2. windex # ahead % MaxSize
        <4> HIDE DEF ahead
        <4>1. ahead < 2 * MaxSize
          BY <3>1
        <4>2. /\ ahead < MaxSize => ahead % MaxSize = ahead
              /\ ahead >= MaxSize => ahead % MaxSize = ahead - MaxSize
          BY <3>1, <4>1, ModOneRound
        <4> QED
          BY <3>1, <4>2 DEF SlotOf
      <3> QED
        BY <3>2, Zenon
    <2>2. cpc = "load" => windex # rindex - 1
      BY DEF SlotOf
    <2> QED
      BY <2>1, <2>2
  <1>2. QueueInv => NoUnreadOverwrite
    BY <1>1 DEF NoUnreadOverwrite
  <1> QED
    BY <1>2, QueueInvariant, PTL

\* A deleted queue has freed exactly the messages that were never popped.
THEOREM DeleteFreesTheRestHolds == Spec => []DeleteFreesTheRest
  <1>1. QueueInv => DeleteFreesTheRest
    BY DEF QueueInv, TypeOK, IndexInv, ConsumerInv, DeleteInv, DeleteFreesTheRest
  <1> QED
    BY <1>1, QueueInvariant, PTL

\* The message front returned is the one the next pop_front removes.
THEOREM FrontIsPoppedHolds == Spec => FrontIsPopped
  <1>1. ASSUME QueueInv, [Next]_vars, delivered' # delivered, peeked # NoMessage
        PROVE  delivered'[Len(delivered')] = peeked
    <2>1. CASE PopLoadLast
      <3>1. Len(delivered) + 1 = rindex /\ queue[rindex - 1] = pushed[rindex]
        BY <1>1, <2>1
        DEF PopLoadLast, ConsumerGoes, QueueInv, TypeOK, ConsumerInv, DeleteInv
      <3> QED
        BY <1>1, <2>1, <3>1 DEF PopLoadLast, ConsumerGoes, QueueInv, TypeOK, ConsumerInv
    <2>2. CASE PopAdvanceLast
      <3>1. Len(delivered) = rindex /\ loaded = pushed[rindex + 1]
        BY <1>1, <2>2
        DEF PopAdvanceLast, ConsumerGoes, QueueInv, TypeOK, ConsumerInv, DeleteInv
      <3> QED
        BY <1>1, <2>2, <3>1
        DEF PopAdvanceLast, ConsumerGoes, QueueInv, TypeOK, ConsumerInv
    <2>3. PopLoadLast \/ PopAdvanceLast
      BY <1>1 DEF Next, Producer, Consumer, ProducerGoes, vars, messages,
         PushBegin, PushFull, PushRoom, PushStore, PushPublish, PushCount, Front,
         PopBegin, PopAdvanceFirst,
         PopLoadFirst, Abort, Delete, DeleteAborts
    <2> QED
      BY <2>1, <2>2, <2>3
  <1> QED
    BY <1>1, QueueInvariant, PTL DEF Spec, FrontIsPopped

-----------------------------------------------------------------------------
(* The refinement.  Under the invariant the slots between the two indices  *)
(* are the rest of the pushed messages, so each step is followed on the    *)
(* histories instead of on the ring.                                       *)

\* Unread, computed from the slots, is what was pushed after the first rindex.
UnreadRest == Unread = [i \in 1 .. Len(pushed) - rindex |-> pushed[rindex + i]]

\* The invariant gives UnreadRest.
LEMMA UnreadIsRest == QueueInv => UnreadRest
  <1> SUFFICES ASSUME QueueInv
               PROVE  Unread = [i \in 1 .. Len(pushed) - rindex |-> pushed[rindex + i]]
    BY DEF UnreadRest
  <1> USE MaxSizeAssumption DEF QueueInv, TypeOK
  <1>1. NumberUnread = Len(pushed) - rindex
    BY DEF NumberUnread, IndexInv, SlotOf, Slot
  <1>2. ASSUME NEW i \in 1 .. Len(pushed) - rindex
        PROVE  queue[(rindex + i - 1) % MaxSize] = pushed[rindex + i]
    <2> DEFINE ahead == rindex + i - 1
    <2>1. ahead \in Nat /\ ahead < 2 * MaxSize
      BY DEF IndexInv, SlotOf
    <2>2. ahead % MaxSize = SlotOf(rindex + i)
      <3>1. /\ ahead < MaxSize => ahead % MaxSize = ahead
            /\ ahead >= MaxSize => ahead % MaxSize = ahead - MaxSize
        <4> HIDE DEF ahead
        <4> QED
          BY <2>1, ModOneRound
      <3>2. SlotOf(rindex + i) = IF ahead < MaxSize THEN ahead ELSE ahead - MaxSize
        BY DEF SlotOf
      <3> HIDE DEF ahead
      <3> QED
        BY <2>1, <3>1, <3>2
    <2>3. queue[SlotOf(rindex + i)] = pushed[rindex + i]
      BY DEF SlotInv
    <2> QED
      BY <2>2, <2>3, Zenon
  <1> QED
    BY <1>1, <1>2, Zenon DEF Unread

\* What was handed over is the first rindex messages pushed.
HandedOverPrefix ==
  /\ HandedOver \in Seq(Message)
  /\ Len(HandedOver) = rindex
  /\ \A i \in 1 .. rindex : HandedOver[i] = pushed[i]

NotDeleted == status # "deleted"

\* The invariant gives HandedOverPrefix until the queue is deleted.
LEMMA HandedOverIsPrefix == QueueInv /\ NotDeleted => HandedOverPrefix
  <1> SUFFICES ASSUME QueueInv, status # "deleted"
               PROVE  HandedOverPrefix
    BY DEF NotDeleted
  <1> USE DEF QueueInv, TypeOK
  <1>1. freed = << >>
    BY DEF DeleteInv
  <1>2. CASE cpc = "load"
    <2>1. /\ Len(delivered) + 1 = rindex
          /\ queue[rindex - 1] = pushed[rindex]
          /\ pushed[rindex] \in Message
      BY <1>1, <1>2 DEF ConsumerInv, IndexInv
    <2> QED
      BY <1>2, <2>1 DEF HandedOver, HandedOverPrefix, ConsumerInv
  <1>3. CASE cpc # "load"
    BY <1>1, <1>3 DEF HandedOver, HandedOverPrefix, ConsumerInv
  <1> QED
    BY <1>2, <1>3

\* A function on 1 .. n is a sequence of length n, and its elements are the
\* function's values.
LEMMA FunctionIsSeq ==
  ASSUME NEW S, NEW n \in Nat, NEW f \in [1 .. n -> S]
  PROVE  f \in Seq(S) /\ Len(f) = n
  OBVIOUS

\* Two sequences with the same length and the same elements are equal.
LEMMA SameSeq ==
  ASSUME NEW S, NEW a \in Seq(S), NEW b \in Seq(S), Len(a) = Len(b),
         \A i \in 1 .. Len(a) : a[i] = b[i]
  PROVE  a = b
  OBVIOUS

\* The elements of s from position r + 1 on, and what removing the first of
\* them, or appending an element to s, does to them.
Rest(s, r) == [i \in 1 .. Len(s) - r |-> s[r + i]]

\* The rest is a sequence with the elements of s.
LEMMA RestIsSeq ==
  ASSUME NEW S, NEW s \in Seq(S), NEW r \in Nat, r <= Len(s)
  PROVE  /\ Rest(s, r) \in Seq(S)
         /\ Len(Rest(s, r)) = Len(s) - r
         /\ \A i \in 1 .. Len(s) - r : Rest(s, r)[i] = s[r + i]
  <1> DEFINE n == Len(s) - r
  <1>1. n \in Nat
    OBVIOUS
  <1>2. \A i \in 1 .. n : r + i \in 1 .. Len(s)
    BY <1>1
  <1>3. \A i \in 1 .. n : s[r + i] \in S
    BY <1>2
  <1> HIDE DEF n
  <1>4. [i \in 1 .. n |-> s[r + i]] \in [1 .. n -> S]
    BY <1>3
  <1>5. Rest(s, r) = [i \in 1 .. n |-> s[r + i]]
    BY DEF Rest, n
  <1>6. Rest(s, r) \in Seq(S) /\ Len(Rest(s, r)) = n
    <2> DEFINE f == [i \in 1 .. n |-> s[r + i]]
    <2>1. f \in [1 .. n -> S]
      BY <1>4
    <2> HIDE DEF f
    <2>2. f \in Seq(S) /\ Len(f) = n
      BY <1>1, <2>1, FunctionIsSeq
    <2> QED
      BY <1>5, <2>2, Zenon DEF f
  <1> QED
    BY <1>5, <1>6 DEF n

\* Without its first element the rest from r is the rest from r + 1.
LEMMA RestTail ==
  ASSUME NEW S, NEW s \in Seq(S), NEW r \in Nat, r < Len(s)
  PROVE  /\ Rest(s, r) \in Seq(S)
         /\ Len(Rest(s, r)) = Len(s) - r
         /\ Head(Rest(s, r)) = s[r + 1]
         /\ Tail(Rest(s, r)) = Rest(s, r + 1)
  <1> DEFINE t == Rest(s, r)
             u == Rest(s, r + 1)
  <1>2. /\ t \in Seq(S) /\ Len(t) = Len(s) - r
        /\ \A i \in 1 .. Len(t) : t[i] = s[r + i]
    BY RestIsSeq
  <1>3. r + 1 \in Nat /\ r + 1 <= Len(s)
    OBVIOUS
  <1>4. /\ u \in Seq(S) /\ Len(u) = Len(s) - (r + 1)
        /\ \A i \in 1 .. Len(u) : u[i] = s[r + 1 + i]
    <2> DEFINE q == r + 1
    <2>1. q \in Nat /\ q <= Len(s)
      BY <1>3
    <2> HIDE DEF q
    <2>2. /\ Rest(s, q) \in Seq(S) /\ Len(Rest(s, q)) = Len(s) - q
          /\ \A i \in 1 .. Len(s) - q : Rest(s, q)[i] = s[q + i]
      BY <2>1, RestIsSeq
    <2> QED
      BY <2>2 DEF q
  <1> HIDE DEF t, u
  <1>1. Len(t) # 0 /\ t # << >>
    BY <1>2
  <1>5. Tail(t) \in Seq(S) /\ Len(Tail(t)) = Len(t) - 1
    BY <1>1, <1>2
  <1>6. \A i \in 1 .. Len(u) : Tail(t)[i] = u[i]
    <2> SUFFICES ASSUME NEW i \in 1 .. Len(u)
                 PROVE  Tail(t)[i] = u[i]
      OBVIOUS
    <2>1. i + 1 \in 1 .. Len(t) /\ r + (i + 1) = r + 1 + i
      BY <1>2, <1>4
    <2>2. Tail(t)[i] = t[i + 1]
      BY <1>1, <1>2, <1>4, <1>5
    <2> QED
      BY <1>2, <1>4, <2>1, <2>2
  <1>7. Len(Tail(t)) = Len(u)
    BY <1>2, <1>4, <1>5
  <1>8. Tail(t) = u
    BY <1>4, <1>5, <1>6, <1>7, SameSeq
  <1>9. Head(t) = s[r + 1]
    BY <1>1, <1>2
  <1> QED
    BY <1>2, <1>8, <1>9 DEF t, u

\* Appending to the sequence appends to its rest.
LEMMA RestAppend ==
  ASSUME NEW S, NEW s \in Seq(S), NEW r \in Nat, r <= Len(s), NEW e \in S
  PROVE  Rest(Append(s, e), r) = Append(Rest(s, r), e)
  <1> DEFINE t == Rest(s, r)
             a == Append(s, e)
             u == Rest(a, r)
  <1>1. a \in Seq(S) /\ Len(a) = Len(s) + 1 /\ a[Len(s) + 1] = e
    OBVIOUS
  <1>2. \A i \in 1 .. Len(s) : a[i] = s[i]
    OBVIOUS
  <1>3. t \in Seq(S) /\ Len(t) = Len(s) - r
    BY RestIsSeq
  <1>4. \A i \in 1 .. Len(t) : t[i] = s[r + i]
    BY <1>3, RestIsSeq
  <1> HIDE DEF a
  <1>a. r <= Len(a)
    BY <1>1
  <1>5. /\ u \in Seq(S) /\ Len(u) = Len(s) + 1 - r
        /\ \A i \in 1 .. Len(u) : u[i] = a[r + i]
    <2>1. /\ u \in Seq(S) /\ Len(u) = Len(a) - r
          /\ \A i \in 1 .. Len(a) - r : u[i] = a[r + i]
      BY <1>1, <1>a, RestIsSeq
    <2> HIDE DEF u
    <2> QED
      BY <1>1, <2>1
  <1>6. \A i \in 1 .. Len(u) : u[i] = a[r + i]
    BY <1>5
  <1> HIDE DEF t, u
  <1>7. \A i \in 1 .. Len(u) : u[i] = Append(t, e)[i]
    <2> SUFFICES ASSUME NEW i \in 1 .. Len(u)
                 PROVE  u[i] = Append(t, e)[i]
      OBVIOUS
    <2>1. CASE i <= Len(t)
      <3>1. i \in 1 .. Len(t) /\ r + i \in 1 .. Len(s)
        BY <1>3, <1>5, <2>1
      <3>2. Append(t, e)[i] = t[i]
        BY <1>3, <3>1
      <3> QED
        BY <1>2, <1>4, <1>6, <3>1, <3>2
    <2>2. CASE i > Len(t)
      <3>1. i = Len(t) + 1 /\ r + i = Len(s) + 1
        <4>1. /\ i \in Int /\ i <= Len(s) + 1 - r /\ i > Len(s) - r
              /\ Len(s) \in Nat /\ Len(t) = Len(s) - r
          BY <1>3, <1>5, <2>2
        <4> QED
          BY <4>1
      <3>2. Append(t, e)[i] = e
        BY <1>3, <3>1
      <3> QED
        BY <1>1, <1>6, <3>1, <3>2
    <2> QED
      BY <1>3, <1>5, <2>1, <2>2
  <1>8. Append(t, e) \in Seq(S) /\ Len(Append(t, e)) = Len(u)
    BY <1>3, <1>5
  <1>9. u = Append(t, e)
    BY <1>5, <1>7, <1>8, SameSeq
  <1> QED
    BY <1>9 DEF t, a, u

\* Two sequences that agree with a third up to k and up to k + 1 differ by its
\* element k + 1.
LEMMA PrefixAppend ==
  ASSUME NEW S, NEW k \in Nat, NEW a \in Seq(S), NEW b \in Seq(S), NEW p \in Seq(S),
         Len(a) = k, Len(b) = k + 1, p[k + 1] \in S,
         \A i \in 1 .. k : a[i] = p[i], \A i \in 1 .. k + 1 : b[i] = p[i]
  PROVE  b = Append(a, p[k + 1])
  <1> DEFINE c == Append(a, p[k + 1])
  <1>1. c \in Seq(S) /\ Len(c) = k + 1
    OBVIOUS
  <1>2. \A i \in 1 .. k + 1 : c[i] = p[i]
    OBVIOUS
  <1> HIDE DEF c
  <1>3. b = c
    BY <1>1, <1>2, SameSeq
  <1> QED
    BY <1>3 DEF c

\* A step that leaves the two histories and rindex alone leaves the abstract
\* queue alone.
LEMMA HiddenStep ==
  ASSUME QueueInv, QueueInv', status # "deleted",
         UNCHANGED <<pushed, rindex, status>>
  PROVE  UNCHANGED Fifo!vars
  <1>1. UnreadRest /\ UnreadRest'
    BY UnreadIsRest, PTL
  <1>2. HandedOverPrefix /\ HandedOverPrefix'
    <2>1. NotDeleted /\ NotDeleted'
      BY DEF NotDeleted
    <2> QED
      BY <2>1, HandedOverIsPrefix, PTL
  <1>3. Unread' = Unread
    BY <1>1 DEF UnreadRest
  <1>4. HandedOver' = HandedOver
    <2>1. /\ HandedOver \in Seq(Message) /\ HandedOver' \in Seq(Message)
          /\ Len(HandedOver') = Len(HandedOver)
      BY <1>2 DEF HandedOverPrefix
    <2>2. \A i \in 1 .. Len(HandedOver) : HandedOver'[i] = HandedOver[i]
      BY <1>2 DEF HandedOverPrefix
    <2> QED
      BY <2>1, <2>2
  <1> QED
    BY <1>3, <1>4 DEF Fifo!vars

\* Publishing windex is the abstract Put.
LEMMA PublishIsPut ==
  ASSUME QueueInv, QueueInv', PushPublish
  PROVE  Fifo!Put(pushing)
  <1> USE DEF PushPublish, ProducerGoes, consumer
  <1>1. UnreadRest /\ UnreadRest'
    BY UnreadIsRest, PTL
  <1>2. Len(Unread) = Len(pushed) - rindex
    BY <1>1 DEF UnreadRest, QueueInv, TypeOK, IndexInv
  <1>3. Len(Unread) < MaxSize - 1
    BY <1>2, MaxSizeAssumption DEF QueueInv, TypeOK, ProducerInv
  <1>4. pushing \in Message
    BY DEF QueueInv, ProducerInv
  <1>5. Unread' = Append(Unread, pushing)
    <2>1. /\ rindex \in Nat /\ pushed \in Seq(Message) /\ rindex <= Len(pushed)
          /\ rindex' = rindex /\ pushed' = Append(pushed, pushing)
      BY DEF QueueInv, TypeOK, IndexInv
    <2>2. Unread = Rest(pushed, rindex) /\ Unread' = Rest(Append(pushed, pushing), rindex)
      BY <1>1, <2>1 DEF UnreadRest, Rest
    <2> QED
      BY <1>4, <2>1, <2>2, RestAppend
  <1>6. UNCHANGED <<HandedOver, status>>
    BY DEF HandedOver
  <1> QED
    BY <1>3, <1>5, <1>6 DEF Fifo!Put

\* Advancing rindex is the abstract Take, before or after the slot is loaded.
LEMMA AdvanceIsTake ==
  ASSUME QueueInv, QueueInv', PopAdvanceFirst \/ PopAdvanceLast
  PROVE  Fifo!Take
  <1> USE DEF PopAdvanceFirst, PopAdvanceLast, ConsumerGoes, producer
  <1>1. UnreadRest /\ UnreadRest'
    BY UnreadIsRest, PTL
  <1>2. HandedOverPrefix /\ HandedOverPrefix'
    <2>1. NotDeleted /\ NotDeleted'
      BY DEF NotDeleted
    <2> QED
      BY <2>1, HandedOverIsPrefix, PTL
  <1>3. rindex < Len(pushed) /\ rindex' = rindex + 1 /\ pushed' = pushed
    BY DEF QueueInv, ConsumerInv
  <1>a. rindex \in Nat /\ pushed \in Seq(Message)
    BY DEF QueueInv, TypeOK
  <1>b. Unread = Rest(pushed, rindex) /\ Unread' = Rest(pushed, rindex + 1)
    BY <1>1, <1>3 DEF UnreadRest, Rest
  <1>4. /\ Unread \in Seq(Message)
        /\ Len(Unread) = Len(pushed) - rindex
        /\ Head(Unread) = pushed[rindex + 1]
        /\ Unread' = Tail(Unread)
    BY <1>3, <1>a, <1>b, RestTail
  <1>5. Unread # << >>
    BY <1>3, <1>4, <1>a
  <1>7. HandedOver' = Append(HandedOver, Head(Unread))
    <2>1. /\ HandedOver \in Seq(Message) /\ HandedOver' \in Seq(Message)
          /\ Len(HandedOver) = rindex /\ Len(HandedOver') = rindex + 1
          /\ \A i \in 1 .. rindex : HandedOver[i] = pushed[i]
          /\ \A i \in 1 .. rindex + 1 : HandedOver'[i] = pushed[i]
      BY <1>2, <1>3 DEF HandedOverPrefix
    <2>2. Head(Unread) \in Message
      BY <1>3, <1>4, <1>a
    <2> QED
      BY <1>4, <1>a, <2>1, <2>2, PrefixAppend
  <1> QED
    BY <1>4, <1>5, <1>7 DEF Fifo!Take

\* slam_message_queue_delete is the abstract Discard.
LEMMA DeleteIsDiscard ==
  ASSUME QueueInv, QueueInv', Delete
  PROVE  Fifo!Discard
  <1> USE DEF Delete, producer, consumer
  <1>1. Unread' = << >>
    BY DEF Unread, NumberUnread, QueueInv, TypeOK, Slot
  <1>2. HandedOver' = HandedOver
    BY DEF HandedOver
  <1> QED
    BY <1>1, <1>2 DEF Fifo!Discard

\* A failed assert is the abstract Abort: MaxSize messages were accepted.
LEMMA AssertIsAbort ==
  ASSUME QueueInv, QueueInv', Abort \/ DeleteAborts
  PROVE  Fifo!Abort
  <1> USE DEF Abort, DeleteAborts, indices, counters, producer, consumer, messages
  <1>1. UnreadRest
    BY UnreadIsRest
  <1>2. HandedOverPrefix
    BY HandedOverIsPrefix DEF NotDeleted
  <1>3. Len(pushed) >= MaxSize
    <2>1. /\ rindex \in 0 .. MaxSize /\ windex \in Slot /\ Len(pushed) \in Nat
          /\ rindex <= Len(pushed)
          /\ windex = IF Len(pushed) + 1 <= MaxSize
                      THEN Len(pushed) ELSE Len(pushed) - MaxSize
      BY DEF QueueInv, TypeOK, IndexInv, SlotOf
    <2>2. rindex \notin Slot \/ rindex > windex
      BY <2>1 DEF AssertQueue
    <2> QED
      BY <2>1, <2>2, MaxSizeAssumption DEF Slot
  <1>4. Len(HandedOver) + Len(Unread) > MaxSize - 1
    BY <1>1, <1>2, <1>3, MaxSizeAssumption
    DEF UnreadRest, HandedOverPrefix, QueueInv, TypeOK, IndexInv
  <1>5. UNCHANGED <<Unread, HandedOver>>
    BY DEF Unread, NumberUnread, HandedOver
  <1> QED
    BY <1>4, <1>5 DEF Fifo!Abort

\* The ring buffer, under every interleaving of its two threads, implements
\* the bounded FIFO.
THEOREM QueueImplementsFifo == Spec => ImplementsFifo
  <1>1. Init => Fifo!Init
    BY DEF Init, Fifo!Init, Unread, NumberUnread, HandedOver
  <1>2. ASSUME QueueInv, QueueInv', [Next]_vars
        PROVE  [Fifo!Next]_(Fifo!vars)
    <2>1. CASE \/ \E m \in Message : PushBegin(m)
               \/ PushFull \/ PushRoom \/ PushStore \/ PushCount
      <3>1. status # "deleted" /\ UNCHANGED <<pushed, rindex, status>>
        BY <2>1 DEF PushBegin, PushFull, PushRoom, PushStore, PushCount, ProducerGoes
      <3> QED
        BY <1>2, <3>1, HiddenStep
    <2>2. CASE Front \/ PopBegin \/ PopLoadFirst \/ PopLoadLast
      <3>1. status # "deleted" /\ UNCHANGED <<pushed, rindex, status>>
        BY <2>2 DEF Front, PopBegin, PopLoadFirst, PopLoadLast, ConsumerGoes
      <3> QED
        BY <1>2, <3>1, HiddenStep
    <2>3. CASE PushPublish
      <3>1. pushing \in Message
        BY <1>2, <2>3 DEF PushPublish, ProducerGoes, QueueInv, ProducerInv
      <3> QED
        BY <1>2, <2>3, <3>1, PublishIsPut DEF Fifo!Next
    <2>4. CASE PopAdvanceFirst \/ PopAdvanceLast
      BY <1>2, <2>4, AdvanceIsTake DEF Fifo!Next
    <2>5. CASE Delete
      BY <1>2, <2>5, DeleteIsDiscard DEF Fifo!Next
    <2>6. CASE Abort \/ DeleteAborts
      BY <1>2, <2>6, AssertIsAbort DEF Fifo!Next
    <2>7. CASE UNCHANGED vars
      BY <2>7 DEF vars, indices, counters, producer, consumer, messages, Fifo!vars,
         Unread, NumberUnread, HandedOver
    <2> QED
      BY <1>2, <2>1, <2>2, <2>3, <2>4, <2>5, <2>6, <2>7
      DEF Next, Producer, Consumer
  <1> QED
    BY <1>1, <1>2, QueueInvariant, PTL DEF Spec, ImplementsFifo, Fifo!Spec


=============================================================================
