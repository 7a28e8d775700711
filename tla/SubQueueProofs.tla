---------------------------- MODULE SubQueueProofs ----------------------------
(***************************************************************************)
(* Theorems about SubQueue, for every number of threads, ring size, set of *)
(* values and bound on the enqueues: the ring's invariant IInv, and that   *)
(* the ring implements the queue of FifoQueue.  IInv carries the argument  *)
(* for both: it says what a thread knows at the step where its call takes  *)
(* effect.                                                                 *)
(***************************************************************************)
EXTENDS SubQueue, SequenceTheorems, TLAPS

-----------------------------------------------------------------------------
(* Arithmetic of the slots *)

\* Multiples of the ring's size are at least the size apart.
LEMMA MultipleGap ==
    \A a, b \in Nat, S \in Nat \ {0} : S * a < S * b => S * a + S <= S * b
<1> SUFFICES ASSUME NEW a \in Nat, NEW b \in Nat, NEW S \in Nat \ {0}, S * a < S * b
             PROVE  S * a + S <= S * b
    OBVIOUS
<1>1. a < b
    BY SMT
<1>2. QED
    BY <1>1, SMT

\* The quotient and the remainder of a division by the ring's size.
LEMMA Division ==
    \A n \in Nat : /\ n \div Size \in Nat
                   /\ n % Size \in 0 .. Size - 1
                   /\ n = Size * (n \div Size) + (n % Size)
BY SizeAssumption, SMT

\* A number modulo the ring's size is a slot.
LEMMA SlotType == \A n \in Nat : Slot(n) \in Slots
BY Division DEF Slot, Slots

\* One lap further is the same slot.
LEMMA SlotLap == \A n \in Nat : Slot(n + Size) = Slot(n)
<1> SUFFICES ASSUME NEW n \in Nat
             PROVE  (n + Size) % Size = n % Size
    BY DEF Slot
<1> DEFINE d == n \div Size
           r == n % Size
<1>1. d \in Nat /\ r \in Nat /\ r < Size /\ n = Size * d + r
    BY Division, SizeAssumption
<1>2. n + Size = Size * (d + 1) + r
    BY <1>1, SizeAssumption, SMT
<1> HIDE DEF d, r
<1>3. \A m, b, a \in Nat : a < Size /\ m = Size * b + a => m % Size = a
    BY SizeAssumption, SMTT(30)
<1>4. n + Size \in Nat /\ d + 1 \in Nat
    BY <1>1, SizeAssumption
<1>5. (n + Size) % Size = r
    BY <1>1, <1>2, <1>3, <1>4
<1>6. QED
    BY <1>5 DEF r

\* Two numbers of one slot are at least a lap apart.
LEMMA SlotGap ==
    \A m, n \in Nat : m < n /\ Slot(m) = Slot(n) => m + Size <= n
<1> SUFFICES ASSUME NEW m \in Nat, NEW n \in Nat, m < n, m % Size = n % Size
             PROVE  m + Size <= n
    BY DEF Slot
<1> DEFINE a == m \div Size
           b == n \div Size
           r == n % Size
<1>1. a \in Nat /\ b \in Nat /\ r \in Nat /\ m = Size * a + r /\ n = Size * b + r
    BY Division, SizeAssumption
<1>2. Size * a < Size * b
    BY <1>1, SizeAssumption, SMT
<1>3. Size * a + Size <= Size * b
    BY <1>1, <1>2, MultipleGap, SizeAssumption
<1>4. QED
    BY <1>1, <1>3, SizeAssumption, SMT

-----------------------------------------------------------------------------
(* Typing *)

LEMMA InitTyping == Init => TypeOK
BY ZeroAssumption, SizeAssumption
   DEF Init, TypeOK, Entry, Slots, Threads, Locations

LEMMA NextTyping == TypeOK /\ [Next]_vars => TypeOK'
<1> SUFFICES ASSUME TypeOK, [Next]_vars
             PROVE  TypeOK'
    OBVIOUS
<1>0. ASSUME NEW t \in Threads, NEW l \in Locations, Goto(t, l)
      PROVE  pc' \in [Threads -> Locations]
    BY <1>0 DEF TypeOK, Goto
<1>a. /\ "idle" \in Locations /\ "read_tail_copy" \in Locations
      /\ "read_val" \in Locations /\ "read_ctr" \in Locations
      /\ "cas" \in Locations /\ "write_head_copy" \in Locations
      /\ "read_tail" \in Locations /\ "compare_tail_copy" \in Locations
      /\ "write_tail_copy" \in Locations /\ "refused" \in Locations
      /\ "deq_tail" \in Locations /\ "deq_ctr" \in Locations
      /\ "deq_val" \in Locations /\ "deq_cas" \in Locations
      /\ "got" \in Locations
    BY DEF Locations
<1>b. Producers \subseteq Threads /\ Consumers \subseteq Threads
    BY DEF Threads
<1>c. /\ counter \in [Consumers -> Nat] /\ ctr \in [Consumers -> Nat]
      /\ val \in [Consumers -> Val] /\ tail \in Nat
    BY DEF TypeOK
<1> USE ZeroAssumption
    DEF shared, plocal, clocal
<1>1. ASSUME NEW p \in Producers, NEW v \in Val, ReadHeadCopy(p, v)
      PROVE  TypeOK'
  <2>1. pc' \in [Threads -> Locations]
    BY <1>1, <1>0, <1>a, <1>b DEF ReadHeadCopy, TypeOK
  <2>2. QED
    BY <1>1, <2>1 DEF ReadHeadCopy, Goto, Entry, TypeOK
<1>2. ASSUME NEW p \in Producers, ReadTailCopy(p)
      PROVE  TypeOK'
  <2>1. pc' \in [Threads -> Locations]
    BY <1>2, <1>0, <1>a, <1>b DEF ReadTailCopy, TypeOK
  <2>2. QED
    BY <1>2, <2>1 DEF ReadTailCopy, Goto, Entry, TypeOK
<1>3. ASSUME NEW p \in Producers, ReadVal(p)
      PROVE  TypeOK'
  <2>1. Slot(head[p] + 1) \in Slots
    BY SlotType DEF TypeOK
  <2>2. q[Slot(head[p] + 1)].val \in Val
    BY <2>1 DEF Entry, TypeOK
  <2>3. old' \in [Producers -> Entry]
    BY <1>3, <2>2 DEF ReadVal, Entry, TypeOK
  <2>4. pc' \in [Threads -> Locations]
    BY <1>3, <1>0, <1>a, <1>b DEF ReadVal, TypeOK
  <2>5. QED
    BY <1>3, <2>3, <2>4 DEF ReadVal, Goto, TypeOK
<1>4. ASSUME NEW p \in Producers, ReadCtr(p)
      PROVE  TypeOK'
  <2>1. q[Slot(head[p])].ctr \in Nat
    BY SlotType, SMT DEF Entry, TypeOK
  <2>2. old' \in [Producers -> Entry]
    BY <1>4, <2>1 DEF ReadCtr, Entry, TypeOK
  <2>3. pc' \in [Threads -> Locations]
    BY <1>4, <1>0, <1>a, <1>b DEF ReadCtr, TypeOK
  <2>4. head' \in [Producers -> Nat]
    BY <1>4, <2>1 DEF ReadCtr, TypeOK
  <2>5. QED
    BY <1>4, <2>2, <2>3, <2>4 DEF ReadCtr, TypeOK
<1>5. ASSUME NEW p \in Producers, CasEntry(p)
      PROVE  TypeOK'
  <2>a. [ctr |-> head[p], val |-> arg[p]] \in Entry
    BY DEF Entry, TypeOK
  <2>b. q' \in [Slots -> Entry]
    BY <1>5, <2>a DEF CasEntry, Goto, TypeOK
  <2>c. log' = Append(log, arg[p]) \/ log' = log
    BY <1>5 DEF CasEntry, Goto, TypeOK
  <2>e. log \in Seq(Val) /\ arg[p] \in Val
    BY DEF TypeOK
  <2>f. Append(log, arg[p]) \in Seq(Val)
    BY <2>e
  <2>d. log' \in Seq(Val)
    BY <2>c, <2>e, <2>f
  <2>1. q' \in [Slots -> Entry] /\ log' \in Seq(Val)
    BY <2>b, <2>d
  <2>2. pc' \in [Threads -> Locations]
    BY <1>5, <1>0, <1>a, <1>b DEF CasEntry, TypeOK
  <2>3. QED
    BY <1>5, <2>1, <2>2 DEF CasEntry, TypeOK
<1>6. ASSUME NEW p \in Producers, WriteHeadCopy(p)
      PROVE  TypeOK'
  <2>1. pc' \in [Threads -> Locations]
    BY <1>6, <1>0, <1>a, <1>b DEF WriteHeadCopy, LeaveEnqueue, TypeOK
  <2>2. QED
    BY <1>6, <2>1 DEF WriteHeadCopy, Goto, LeaveEnqueue, Entry, TypeOK
<1>7. ASSUME NEW p \in Producers, ReadTail(p)
      PROVE  TypeOK'
  <2>1. pc' \in [Threads -> Locations]
    BY <1>7, <1>0, <1>a, <1>b DEF ReadTail, TypeOK
  <2>2. QED
    BY <1>7, <2>1 DEF ReadTail, Goto, Entry, TypeOK
<1>8. ASSUME NEW p \in Producers, CompareTailCopy(p)
      PROVE  TypeOK'
  <2>1. pc' \in [Threads -> Locations]
    BY <1>8, <1>0, <1>a, <1>b DEF CompareTailCopy, NextRound, TypeOK
  <2>2. QED
    BY <1>8, <2>1 DEF CompareTailCopy, Goto, NextRound, Entry, TypeOK
<1>9. ASSUME NEW p \in Producers, WriteTailCopy(p)
      PROVE  TypeOK'
  <2>1. pc' \in [Threads -> Locations]
    BY <1>9, <1>0, <1>a, <1>b DEF WriteTailCopy, NextRound, TypeOK
  <2>2. QED
    BY <1>9, <2>1 DEF WriteTailCopy, Goto, NextRound, Entry, TypeOK
<1>10. ASSUME NEW p \in Producers, ReturnRefused(p)
      PROVE  TypeOK'
  <2>1. pc' \in [Threads -> Locations]
    BY <1>10, <1>0, <1>a, <1>b DEF ReturnRefused, LeaveEnqueue, TypeOK
  <2>2. QED
    BY <1>10, <2>1 DEF ReturnRefused, Goto, LeaveEnqueue, Entry, TypeOK
<1>11. ASSUME NEW c \in Consumers, ReadTailC(c)
      PROVE  TypeOK'
  <2>1. pc' \in [Threads -> Locations]
    BY <1>11, <1>0, <1>a, <1>b DEF ReadTailC, TypeOK
  <2>2. QED
    BY <1>11, <2>1 DEF ReadTailC, Goto, Entry, TypeOK
<1>12. ASSUME NEW c \in Consumers, ReadCtrC(c)
      PROVE  TypeOK'
  <2>1. q[Slot(counter[c])].ctr \in Nat
    BY SlotType, SMT DEF Entry, TypeOK
  <2>2. pc' \in [Threads -> Locations]
    BY <1>12, <1>0, <1>a, <1>b DEF ReadCtrC, TypeOK
  <2>3. QED
    BY <1>12, <2>1, <2>2 DEF ReadCtrC, Goto, TypeOK
<1>13. ASSUME NEW c \in Consumers, ReadValC(c)
      PROVE  TypeOK'
  <2>1. q[Slot(counter[c])].val \in Val
    BY SlotType, SMT DEF Entry, TypeOK
  <2>2. pc' \in [Threads -> Locations]
    BY <1>13, <1>0, <1>a, <1>b DEF ReadValC, LeaveDequeue, TypeOK
  <2>3. counter' \in [Consumers -> Nat]
    BY <1>13, <1>c, <2>1 DEF ReadValC, LeaveDequeue, Goto
  <2>4. ctr' \in [Consumers -> Nat]
    BY <1>13, <1>c, <2>1 DEF ReadValC, LeaveDequeue, Goto
  <2>5. val' \in [Consumers -> Val]
    BY <1>13, <1>c, <2>1 DEF ReadValC, LeaveDequeue, Goto
  <2>6. QED
    BY <1>13, <2>2, <2>3, <2>4, <2>5 DEF ReadValC, TypeOK
<1>14. ASSUME NEW c \in Consumers, CasTail(c)
      PROVE  TypeOK'
  <2>1. pc' \in [Threads -> Locations]
    BY <1>14, <1>0, <1>a, <1>b DEF CasTail, LeaveDequeue, TypeOK
  <2>a. tail' \in Nat
    BY <1>14, <1>c DEF CasTail, Goto
  <2>2. counter' \in [Consumers -> Nat]
    BY <1>14, <1>c DEF CasTail, LeaveDequeue, Goto
  <2>3. ctr' \in [Consumers -> Nat]
    BY <1>14, <1>c DEF CasTail, LeaveDequeue, Goto
  <2>4. val' \in [Consumers -> Val]
    BY <1>14, <1>c DEF CasTail, LeaveDequeue, Goto
  <2>5. QED
    BY <1>14, <2>1, <2>a, <2>2, <2>3, <2>4 DEF CasTail, TypeOK
<1>15. ASSUME NEW c \in Consumers, ReturnGot(c)
      PROVE  TypeOK'
  <2>1. pc' \in [Threads -> Locations]
    BY <1>15, <1>0, <1>a, <1>b DEF ReturnGot, LeaveDequeue, TypeOK
  <2>2. QED
    BY <1>15, <2>1 DEF ReturnGot, Goto, LeaveDequeue, Entry, TypeOK
<1>16. CASE UNCHANGED vars
    BY <1>16 DEF vars, TypeOK
<1>17. QED
    BY <1>1, <1>2, <1>3, <1>4, <1>5, <1>6, <1>7, <1>8, <1>9, <1>10, <1>11, <1>12, <1>13, <1>14, <1>15, <1>16 DEF Next, Produce, Consume

-----------------------------------------------------------------------------
(* What a step of another thread leaves alone *)

\* A producer keeps its knowledge while others move, as long as the ring
\* stays as it is or the producer's entry has been taken by another producer.
LEMMA ProducerFrame ==
    ASSUME TypeOK, TypeOK', NEW r \in Producers,
           ProducerKnows(r), RoundsPaid(r),
           pc'[r] = pc[r], head'[r] = head[r], ptail'[r] = ptail[r],
           old'[r] = old[r], i'[r] = i[r], since'[r] = since[r],
           tail <= tail',
           (q' = q /\ H' = H) \/ H' = H + 1
    PROVE  ProducerKnows(r)' /\ RoundsPaid(r)'
<1>1. /\ H \in Nat /\ H' \in Nat /\ tail \in Nat /\ tail' \in Nat
      /\ head[r] \in Nat /\ ptail[r] \in Nat /\ since[r] \in Nat
    BY DEF TypeOK, H
<1>2. ProducerKnows(r)'
  <2>1. CASE q' = q /\ H' = H
    BY <1>1, <2>1 DEF ProducerKnows, Slot
  <2>2. CASE H' = H + 1
    BY <1>1, <2>2, SizeAssumption DEF ProducerKnows
  <2>3. QED
    BY <2>1, <2>2
<1>3. RoundsPaid(r)'
    BY DEF RoundsPaid
<1>4. QED
    BY <1>2, <1>3

\* A consumer keeps its knowledge while the log grows and the tail advances.
LEMMA ConsumerFrame ==
    ASSUME TypeOK, TypeOK', NEW c \in Consumers, ConsumerKnows(c),
           pc'[c] = pc[c], counter'[c] = counter[c], ctr'[c] = ctr[c],
           val'[c] = val[c], tail <= tail', H <= H', tail <= H,
           \A n \in 1 .. H : log'[n] = log[n]
    PROVE  ConsumerKnows(c)'
<1>1. PICK t \in Nat : tail' = t
    BY DEF TypeOK
<1>2. PICK h \in Nat : H' = h
    BY DEF TypeOK, H
<1>3. H \in Nat /\ tail \in Nat /\ counter[c] \in Nat /\ ctr[c] \in Nat
    BY DEF TypeOK, H
<1>4. Slot(ctr[c])' = Slot(ctr[c]) /\ Slot(counter[c])' = Slot(counter[c])
    BY DEF Slot
<1>5. \A n \in Nat : 0 < n /\ n <= H => log'[n] = log[n]
    BY <1>3
<1>6. QED
    BY <1>1, <1>2, <1>3, <1>4, <1>5 DEF ConsumerKnows

\* A step of producer p, or of consumer c, that leaves the others alone.
OthersStay(t) ==
    /\ \A u \in Threads \ {t} : pc'[u] = pc[u]
    /\ \A r \in Producers \ {t} :
         /\ arg'[r] = arg[r]
         /\ head'[r] = head[r] /\ ptail'[r] = ptail[r] /\ old'[r] = old[r]
         /\ i'[r] = i[r] /\ since'[r] = since[r]
    /\ \A d \in Consumers \ {t} :
         counter'[d] = counter[d] /\ ctr'[d] = ctr[d] /\ val'[d] = val[d]

\* A step that does not write the ring preserves what all the others know.
LEMMA QuietStep ==
    ASSUME RingInv, TypeOK', NEW t \in Threads, OthersStay(t),
           UNCHANGED <<q, tail, log>>, HintsBehind',
           t \in Producers => ProducerKnows(t)' /\ RoundsPaid(t)',
           t \in Consumers => ConsumerKnows(t)'
    PROVE  RingInv'
<1>1. tail' = tail /\ q' = q /\ log' = log /\ H' = H
    BY DEF H
<1>2. H \in Nat /\ tail \in Nat /\ tail <= tail /\ H <= H /\ tail <= H
    BY DEF RingInv, TypeOK, H, Occupancy
<1>3. ASSUME NEW r \in Producers
      PROVE  ProducerKnows(r)' /\ RoundsPaid(r)'
  <2>1. CASE r = t
    BY <2>1
  <2>2. CASE r # t
    <3>1. r \in Threads \ {t} /\ r \in Producers \ {t}
      BY <2>2 DEF Threads
    <3>2. /\ pc'[r] = pc[r] /\ head'[r] = head[r] /\ ptail'[r] = ptail[r]
          /\ old'[r] = old[r] /\ i'[r] = i[r] /\ since'[r] = since[r]
      BY <3>1 DEF OthersStay
    <3>3. QED
      BY <1>1, <1>2, <3>2, ProducerFrame DEF RingInv
  <2>3. QED
    BY <2>1, <2>2
<1>4. ASSUME NEW c \in Consumers
      PROVE  ConsumerKnows(c)'
  <2>1. CASE c = t
    BY <2>1
  <2>2. CASE c # t
    <3>1. c \in Threads \ {t} /\ c \in Consumers \ {t}
      BY <2>2 DEF Threads
    <3>2. /\ pc'[c] = pc[c] /\ counter'[c] = counter[c]
          /\ ctr'[c] = ctr[c] /\ val'[c] = val[c]
      BY <3>1 DEF OthersStay
    <3>3. QED
      BY <1>1, <1>2, <3>2, ConsumerFrame DEF RingInv
  <2>3. QED
    BY <2>1, <2>2
<1>5. Occupancy'
    BY <1>1 DEF RingInv, Occupancy
<1>6. EntriesGenuine'
    BY <1>1 DEF RingInv, EntriesGenuine, Slot
<1>7. NoHoles'
    BY <1>1 DEF RingInv, NoHoles, Slot
<1>8. QED
    BY <1>3, <1>4, <1>5, <1>6, <1>7 DEF RingInv

-----------------------------------------------------------------------------
(* The inductive invariant *)

LEMMA NextRingInv == RingInv /\ [Next]_vars => RingInv'
<1> SUFFICES ASSUME RingInv, [Next]_vars
             PROVE  RingInv'
    OBVIOUS
<1>0. /\ Occupancy /\ EntriesGenuine /\ NoHoles /\ HintsBehind
      /\ \A p \in Producers : ProducerKnows(p) /\ RoundsPaid(p)
      /\ \A c \in Consumers : ConsumerKnows(c)
    BY DEF RingInv
<1>t. /\ pc \in [Threads -> Locations]
      /\ arg \in [Producers -> Val]
      /\ head \in [Producers -> Nat] /\ ptail \in [Producers -> Nat]
      /\ old \in [Producers -> Entry] /\ i \in [Producers -> Nat]
      /\ since \in [Producers -> Nat]
      /\ counter \in [Consumers -> Nat] /\ ctr \in [Consumers -> Nat]
      /\ val \in [Consumers -> Val]
      /\ tail \in Nat /\ head_copy \in Nat /\ tail_copy \in Nat /\ Len(log) \in Nat
    BY DEF RingInv, TypeOK
<1>i. /\ TypeOK' /\ Producers \subseteq Threads /\ Consumers \subseteq Threads
      /\ \A p \in Producers : p \notin Consumers
    BY NextTyping, ThreadAssumption DEF RingInv, Threads
<1> USE DEF shared, plocal, clocal
<1>1. ASSUME NEW p \in Producers, NEW v \in Val, ReadHeadCopy(p, v)
      PROVE  RingInv'
  <2>1. OthersStay(p)
    BY <1>1, <1>t DEF ReadHeadCopy, Goto, OthersStay
  <2>2. UNCHANGED <<q, tail, log>>
    BY <1>1 DEF ReadHeadCopy
  <2>3. HintsBehind'
    BY <1>1, <1>0 DEF ReadHeadCopy, HintsBehind, H
  <2>4. ProducerKnows(p)'
    <3>1. /\ pc'[p] = "read_tail_copy" /\ head'[p] = head_copy
          /\ ptail'[p] = ptail[p] /\ since'[p] = tail /\ tail' = tail /\ H' = H
      BY <1>1, <1>t, <1>i DEF ReadHeadCopy, Goto, H
    <3>2. ptail[p] <= tail /\ head_copy <= H
      BY <1>0 DEF ProducerKnows, HintsBehind
    <3>3. QED
      BY <3>1, <3>2, <1>t DEF ProducerKnows
  <2>5. RoundsPaid(p)'
    BY <1>1, <1>0, <1>t DEF ReadHeadCopy, Goto, RoundsPaid, ProducerKnows, Rounds
  <2>6. QED
    BY <2>1, <2>2, <2>3, <2>4, <2>5, <1>i, QuietStep
<1>2. ASSUME NEW p \in Producers, ReadTailCopy(p)
      PROVE  RingInv'
  <2>1. OthersStay(p)
    BY <1>2, <1>t DEF ReadTailCopy, Goto, OthersStay
  <2>2. UNCHANGED <<q, tail, log>>
    BY <1>2 DEF ReadTailCopy
  <2>3. HintsBehind'
    BY <1>2, <1>0 DEF ReadTailCopy, HintsBehind, H
  <2>4. ProducerKnows(p)'
    <3>1. /\ pc[p] = "read_tail_copy" /\ pc'[p] = "read_val"
          /\ head'[p] = head[p] /\ ptail'[p] = tail_copy
          /\ since'[p] = since[p] /\ tail' = tail /\ H' = H
      BY <1>2, <1>t, <1>i DEF ReadTailCopy, Goto, H
    <3>2. head[p] <= H /\ since[p] <= tail /\ tail_copy <= tail
      BY <1>0, <3>1 DEF ProducerKnows, HintsBehind
    <3>3. QED
      BY <3>1, <3>2 DEF ProducerKnows
  <2>5. RoundsPaid(p)'
    <3>1. /\ pc[p] = "read_tail_copy" /\ pc'[p] = "read_val" /\ i'[p] = i[p]
      BY <1>2, <1>t, <1>i DEF ReadTailCopy, Goto
    <3>2. i[p] = 0
      BY <1>0, <3>1 DEF RoundsPaid
    <3>3. QED
      BY <3>1, <3>2 DEF RoundsPaid, Rounds
  <2>6. QED
    BY <2>1, <2>2, <2>3, <2>4, <2>5, <1>i, QuietStep
<1>3. ASSUME NEW p \in Producers, ReadVal(p)
      PROVE  RingInv'
  <2>1. OthersStay(p)
    BY <1>3, <1>t DEF ReadVal, Goto, OthersStay
  <2>2. UNCHANGED <<q, tail, log>>
    BY <1>3 DEF ReadVal
  <2>3. HintsBehind'
    BY <1>3, <1>0 DEF ReadVal, HintsBehind, H
  <2>4. ProducerKnows(p)'
    <3> DEFINE n == head[p] + 1
    <3>1. /\ pc[p] = "read_val" /\ pc'[p] = "read_ctr"
          /\ head'[p] = n /\ old'[p].val = q[Slot(n)].val
          /\ ptail'[p] = ptail[p] /\ since'[p] = since[p]
          /\ tail' = tail /\ q' = q /\ H' = H
      BY <1>3, <1>t, <1>i DEF ReadVal, Goto, H, Entry
    <3>2. head[p] <= H /\ ptail[p] <= tail /\ since[p] <= tail
      BY <1>0, <3>1 DEF ProducerKnows
    <3>3. 0 < n /\ n <= H + 1
      BY <3>2, <1>t DEF H
    <3>4. Slot(head[p])' = Slot(n)
      BY <3>1 DEF Slot
    <3>5. QED
      BY <3>1, <3>2, <3>3, <3>4 DEF ProducerKnows
  <2>5. RoundsPaid(p)'
    BY <1>3, <1>0, <1>t DEF ReadVal, Goto, RoundsPaid, ProducerKnows, Rounds
  <2>6. QED
    BY <2>1, <2>2, <2>3, <2>4, <2>5, <1>i, QuietStep
<1>4. ASSUME NEW p \in Producers, ReadCtr(p)
      PROVE  RingInv'
  <2>1. OthersStay(p)
    BY <1>4, <1>t DEF ReadCtr, Goto, OthersStay
  <2>2. UNCHANGED <<q, tail, log>>
    BY <1>4 DEF ReadCtr
  <2>3. HintsBehind'
    BY <1>4, <1>0 DEF ReadCtr, HintsBehind, H
  <2>4. ProducerKnows(p)'
    <3> DEFINE s == Slot(head[p])
               n == q[s].ctr
    <3>1. /\ pc[p] = "read_ctr" /\ old'[p] = [old[p] EXCEPT !.ctr = n]
          /\ ptail'[p] = ptail[p] /\ since'[p] = since[p]
          /\ tail' = tail /\ q' = q /\ H' = H
      BY <1>4, <1>t, <1>i DEF ReadCtr, H
    <3>2. /\ ptail[p] <= tail /\ since[p] <= tail
          /\ 0 < head[p] /\ head[p] <= H + 1
          /\ head[p] = H + 1 => q[s].val = old[p].val
      BY <1>0, <3>1 DEF ProducerKnows
    <3>3. s \in Slots /\ q[s] \in Entry /\ old[p] \in Entry
      BY <1>t, SlotType DEF RingInv, TypeOK
    <3>4. n \in Nat /\ n <= H /\ (n > 0 => Slot(n) = s)
      BY <1>0, <3>3 DEF EntriesGenuine, Entry
    <3>5. H \in Nat /\ head[p] \in Nat /\ ptail[p] \in Nat
      BY <1>t DEF H
    <3>6. CASE n >= head[p]
      <4>1. pc'[p] = "read_val" /\ head'[p] = head[p]
        BY <1>4, <1>t, <1>i, <3>4, <3>5, <3>6 DEF ReadCtr, Goto
      <4>2. head[p] <= H
        BY <3>4, <3>5, <3>6
      <4>3. QED
        BY <3>1, <3>2, <4>1, <4>2 DEF ProducerKnows
    <3>7. CASE n < head[p] /\ n > ptail[p]
      <4>1. pc'[p] = "read_tail" /\ head'[p] = head[p] - 1
        BY <1>4, <1>t, <1>i, <3>4, <3>5, <3>7 DEF ReadCtr, Goto
      <4>2. n + Size <= head[p]
        BY <3>4, <3>5, <3>7, SlotGap
      <4>3. ptail[p] + Size <= head[p] - 1 /\ head[p] - 1 <= H
        BY <3>2, <3>4, <3>5, <3>7, <4>2, SizeAssumption
      <4>4. QED
        BY <3>1, <3>2, <4>1, <4>3 DEF ProducerKnows
    <3>8. CASE n < head[p] /\ n <= ptail[p]
      <4>1. pc'[p] = "cas" /\ head'[p] = head[p]
        BY <1>4, <1>t, <1>i, <3>4, <3>5, <3>8 DEF ReadCtr, Goto
      <4>2. old'[p].ctr = n /\ old'[p].val = old[p].val
        BY <3>1, <3>3 DEF Entry
      <4>3. head[p] = H + 1 => q[s] = old'[p]
        BY <3>1, <3>2, <3>3 DEF Entry
      <4>4. Slot(head[p])' = s
        BY <4>1 DEF Slot
      <4>5. QED
        BY <3>1, <3>2, <3>8, <4>1, <4>2, <4>3, <4>4 DEF ProducerKnows
    <3>9. QED
      BY <3>4, <3>5, <3>6, <3>7, <3>8
  <2>5. RoundsPaid(p)'
    BY <1>4, <1>0, <1>t DEF ReadCtr, Goto, RoundsPaid, ProducerKnows, Rounds
  <2>6. QED
    BY <2>1, <2>2, <2>3, <2>4, <2>5, <1>i, QuietStep
<1>5. ASSUME NEW p \in Producers, WriteHeadCopy(p)
      PROVE  RingInv'
  <2>1. OthersStay(p)
    BY <1>5, <1>t DEF WriteHeadCopy, LeaveEnqueue, Goto, OthersStay
  <2>2. UNCHANGED <<q, tail, log>>
    BY <1>5 DEF WriteHeadCopy, LeaveEnqueue
  <2>3. HintsBehind'
    BY <1>5, <1>0, <1>t DEF WriteHeadCopy, LeaveEnqueue, HintsBehind, ProducerKnows, H
  <2>4. ProducerKnows(p)'
    BY <1>5, <1>0, <1>t DEF WriteHeadCopy, LeaveEnqueue, Goto, ProducerKnows, H, Slot
  <2>5. RoundsPaid(p)'
    BY <1>5, <1>0, <1>t DEF WriteHeadCopy, LeaveEnqueue, Goto, RoundsPaid, ProducerKnows, Rounds
  <2>6. QED
    BY <2>1, <2>2, <2>3, <2>4, <2>5, <1>i, QuietStep
<1>6. ASSUME NEW p \in Producers, ReadTail(p)
      PROVE  RingInv'
  <2>1. OthersStay(p)
    BY <1>6, <1>t DEF ReadTail, Goto, OthersStay
  <2>2. UNCHANGED <<q, tail, log>>
    BY <1>6 DEF ReadTail
  <2>3. HintsBehind'
    BY <1>6, <1>0 DEF ReadTail, HintsBehind, H
  <2>4. ProducerKnows(p)'
    <3>1. /\ pc[p] = "read_tail" /\ head'[p] = head[p] /\ since'[p] = since[p]
          /\ tail' = tail /\ H' = H
          /\ \/ pc'[p] = "refused" /\ ptail'[p] = ptail[p]
             \/ pc'[p] = "compare_tail_copy" /\ ptail'[p] = tail
      BY <1>6, <1>t, <1>i DEF ReadTail, Goto, H
    <3>2. head[p] <= H /\ ptail[p] <= tail /\ since[p] <= tail
      BY <1>0, <3>1 DEF ProducerKnows
    <3>3. QED
      BY <3>1, <3>2, <1>t DEF ProducerKnows
  <2>5. RoundsPaid(p)'
    <3>1. /\ pc[p] = "read_tail" /\ i'[p] = i[p] /\ since'[p] = since[p]
          /\ \/ pc'[p] = "refused"
             \/ pc'[p] = "compare_tail_copy" /\ ptail'[p] = tail /\ tail > ptail[p]
      BY <1>6, <1>t, <1>i DEF ReadTail, Goto
    <3>2. /\ since[p] <= tail /\ i[p] < Rounds
          /\ i[p] > 0 => ptail[p] + 1 >= since[p] + i[p]
      BY <1>0, <3>1 DEF ProducerKnows, RoundsPaid
    <3>3. tail > ptail[p] => tail >= since[p] + i[p]
      BY <3>2, <1>t
    <3>4. QED
      BY <3>1, <3>2, <3>3 DEF RoundsPaid
  <2>6. QED
    BY <2>1, <2>2, <2>3, <2>4, <2>5, <1>i, QuietStep
<1>7. ASSUME NEW p \in Producers, CompareTailCopy(p)
      PROVE  RingInv'
  <2>1. OthersStay(p)
    BY <1>7, <1>t DEF CompareTailCopy, NextRound, Goto, OthersStay
  <2>2. UNCHANGED <<q, tail, log>>
    BY <1>7 DEF CompareTailCopy, NextRound
  <2>3. HintsBehind'
    BY <1>7, <1>0 DEF CompareTailCopy, NextRound, HintsBehind, H
  <2>4. ProducerKnows(p)'
    <3>1. /\ pc[p] = "compare_tail_copy" /\ head'[p] = head[p] /\ ptail'[p] = ptail[p]
          /\ since'[p] = since[p] /\ tail' = tail /\ H' = H
          /\ pc'[p] \in {"read_val", "refused", "write_tail_copy"}
      BY <1>7, <1>t, <1>i DEF CompareTailCopy, NextRound, Goto, H
    <3>2. head[p] <= H /\ ptail[p] <= tail /\ since[p] <= tail
      BY <1>0, <3>1 DEF ProducerKnows
    <3>3. QED
      BY <3>1, <3>2 DEF ProducerKnows
  <2>5. RoundsPaid(p)'
    <3>1. /\ pc[p] = "compare_tail_copy" /\ ptail'[p] = ptail[p] /\ since'[p] = since[p]
          /\ \/ pc'[p] = "read_val" /\ i'[p] = i[p] + 1 /\ i[p] + 1 < Rounds
             \/ pc'[p] = "refused"
             \/ pc'[p] = "write_tail_copy" /\ i'[p] = i[p]
      BY <1>7, <1>t, <1>i DEF CompareTailCopy, NextRound, Goto
    <3>2. i[p] < Rounds /\ ptail[p] >= since[p] + i[p]
      BY <1>0, <3>1 DEF RoundsPaid
    <3>3. ptail[p] + 1 >= since[p] + (i[p] + 1)
      BY <3>2, <1>t
    <3>4. QED
      BY <3>1, <3>2, <3>3 DEF RoundsPaid
  <2>6. QED
    BY <2>1, <2>2, <2>3, <2>4, <2>5, <1>i, QuietStep
<1>8. ASSUME NEW p \in Producers, WriteTailCopy(p)
      PROVE  RingInv'
  <2>1. OthersStay(p)
    BY <1>8, <1>t DEF WriteTailCopy, NextRound, Goto, OthersStay
  <2>2. UNCHANGED <<q, tail, log>>
    BY <1>8 DEF WriteTailCopy, NextRound
  <2>3. HintsBehind'
    BY <1>8, <1>0, <1>t DEF WriteTailCopy, NextRound, HintsBehind, ProducerKnows, H
  <2>4. ProducerKnows(p)'
    <3>1. /\ pc[p] = "write_tail_copy" /\ head'[p] = head[p] /\ ptail'[p] = ptail[p]
          /\ since'[p] = since[p] /\ tail' = tail /\ H' = H
          /\ pc'[p] \in {"read_val", "refused", "write_tail_copy"}
      BY <1>8, <1>t, <1>i DEF WriteTailCopy, NextRound, Goto, H
    <3>2. head[p] <= H /\ ptail[p] <= tail /\ since[p] <= tail
      BY <1>0, <3>1 DEF ProducerKnows
    <3>3. QED
      BY <3>1, <3>2 DEF ProducerKnows
  <2>5. RoundsPaid(p)'
    <3>1. /\ pc[p] = "write_tail_copy" /\ ptail'[p] = ptail[p] /\ since'[p] = since[p]
          /\ \/ pc'[p] = "read_val" /\ i'[p] = i[p] + 1 /\ i[p] + 1 < Rounds
             \/ pc'[p] = "refused"
      BY <1>8, <1>t, <1>i DEF WriteTailCopy, NextRound, Goto
    <3>2. i[p] < Rounds /\ ptail[p] >= since[p] + i[p]
      BY <1>0, <3>1 DEF RoundsPaid
    <3>3. ptail[p] + 1 >= since[p] + (i[p] + 1)
      BY <3>2, <1>t
    <3>4. QED
      BY <3>1, <3>2, <3>3 DEF RoundsPaid
  <2>6. QED
    BY <2>1, <2>2, <2>3, <2>4, <2>5, <1>i, QuietStep
<1>9. ASSUME NEW p \in Producers, ReturnRefused(p)
      PROVE  RingInv'
  <2>1. OthersStay(p)
    BY <1>9, <1>t DEF ReturnRefused, LeaveEnqueue, Goto, OthersStay
  <2>2. UNCHANGED <<q, tail, log>>
    BY <1>9 DEF ReturnRefused, LeaveEnqueue
  <2>3. HintsBehind'
    BY <1>9, <1>0 DEF ReturnRefused, LeaveEnqueue, HintsBehind, H
  <2>4. ProducerKnows(p)'
    BY <1>9, <1>0, <1>t DEF ReturnRefused, LeaveEnqueue, Goto, ProducerKnows, H, Slot
  <2>5. RoundsPaid(p)'
    BY <1>9, <1>0, <1>t DEF ReturnRefused, LeaveEnqueue, Goto, RoundsPaid, ProducerKnows, Rounds
  <2>6. QED
    BY <2>1, <2>2, <2>3, <2>4, <2>5, <1>i, QuietStep
<1>10. ASSUME NEW c \in Consumers, ReadTailC(c)
      PROVE  RingInv'
  <2>1. OthersStay(c)
    BY <1>10, <1>t DEF ReadTailC, Goto, OthersStay
  <2>2. UNCHANGED <<q, tail, log>>
    BY <1>10 DEF ReadTailC
  <2>3. HintsBehind'
    BY <1>10, <1>0 DEF ReadTailC, HintsBehind, H
  <2>4. ConsumerKnows(c)'
    BY <1>10, <1>0, <1>t DEF ReadTailC, Goto, ConsumerKnows, H, Slot
  <2>5. QED
    BY <2>1, <2>2, <2>3, <2>4, <1>i, QuietStep
<1>11. ASSUME NEW c \in Consumers, ReadCtrC(c)
      PROVE  RingInv'
  <2>1. OthersStay(c)
    BY <1>11, <1>t DEF ReadCtrC, Goto, OthersStay
  <2>2. UNCHANGED <<q, tail, log>>
    BY <1>11 DEF ReadCtrC
  <2>3. HintsBehind'
    BY <1>11, <1>0 DEF ReadCtrC, HintsBehind, H
  <2>4. ConsumerKnows(c)'
    <3> DEFINE n == counter[c]
               m == q[Slot(n)].ctr
    <3>1. /\ pc[c] = "deq_ctr" /\ pc'[c] = "deq_val" /\ counter'[c] = n
          /\ ctr'[c] = m /\ tail' = tail /\ H' = H
      BY <1>11, <1>t, <1>i DEF ReadCtrC, Goto, H
    <3>2. 0 < n /\ n <= tail + 1
      BY <1>0, <3>1 DEF ConsumerKnows
    <3>3. Slot(n) \in Slots /\ m \in Nat /\ H \in Nat /\ n \in Nat
      BY <1>t, SlotType DEF RingInv, TypeOK, Entry, H
    <3>4. m <= H /\ (m > 0 => Slot(m) = Slot(n))
      BY <1>0, <3>3 DEF EntriesGenuine
    <3>5. m >= n => n <= H /\ Slot(m) = Slot(n)
      BY <3>2, <3>3, <3>4
    <3>6. Slot(counter[c])' = Slot(n) /\ Slot(ctr[c])' = Slot(m)
      BY <3>1 DEF Slot
    <3>7. QED
      BY <3>1, <3>2, <3>5, <3>6 DEF ConsumerKnows
  <2>5. QED
    BY <2>1, <2>2, <2>3, <2>4, <1>i, QuietStep
<1>12. ASSUME NEW c \in Consumers, ReadValC(c)
      PROVE  RingInv'
  <2>1. OthersStay(c)
    BY <1>12, <1>t DEF ReadValC, LeaveDequeue, Goto, OthersStay
  <2>2. UNCHANGED <<q, tail, log>>
    BY <1>12 DEF ReadValC, LeaveDequeue
  <2>3. HintsBehind'
    BY <1>12, <1>0 DEF ReadValC, LeaveDequeue, HintsBehind, H
  <2>4. ConsumerKnows(c)'
    <3> DEFINE n == counter[c]
               m == q[Slot(n)].ctr
    <3>1. pc[c] = "deq_val" /\ tail' = tail /\ H' = H /\ log' = log
      BY <1>12 DEF ReadValC, H
    <3>2. /\ 0 < n /\ n <= tail + 1
          /\ ctr[c] >= n => n <= H /\ Slot(ctr[c]) = Slot(n)
      BY <1>0, <3>1 DEF ConsumerKnows
    <3>3. CASE ctr[c] < n
      <4>1. pc'[c] = "idle"
        BY <1>12, <1>t, <1>i, <3>3 DEF ReadValC, LeaveDequeue, Goto
      <4>2. QED
        BY <4>1 DEF ConsumerKnows
    <3>4. CASE ctr[c] >= n
      <4>1. /\ pc'[c] = "deq_cas" /\ counter'[c] = n /\ ctr'[c] = ctr[c]
            /\ val'[c] = q[Slot(n)].val
        BY <1>12, <1>t, <1>i, <3>4 DEF ReadValC, LeaveDequeue, Goto
      <4>2. Slot(n) \in Slots /\ m \in Nat /\ H \in Nat /\ n \in Nat
        BY <1>t, SlotType DEF RingInv, TypeOK, Entry, H
      <4>3. ASSUME n = tail + 1
            PROVE  q[Slot(n)].val = log[n]
        <5>1. n \in 1 .. H
          BY <3>2, <3>4, <4>2
        <5>2. m >= n /\ m <= H /\ Slot(m) = Slot(n) /\ q[Slot(n)].val = log[m]
          BY <1>0, <3>2, <4>2, <5>1 DEF NoHoles, EntriesGenuine
        <5>3. ~(n < m)
          <6>1. n < m => n + Size <= m
            BY <4>2, <5>2, SlotGap
          <6>2. m <= tail + Size
            BY <1>0, <1>t, <4>2, <5>2, SizeAssumption DEF Occupancy
          <6>3. QED
            BY <4>2, <4>3, <6>1, <6>2, <1>t, SizeAssumption
        <5>4. m = n
          BY <4>2, <5>2, <5>3
        <5>5. QED
          BY <5>2, <5>4
      <4>4. Slot(counter[c])' = Slot(n) /\ Slot(ctr[c])' = Slot(ctr[c])
        BY <4>1 DEF Slot
      <4>5. QED
        BY <3>1, <3>2, <3>4, <4>1, <4>3, <4>4 DEF ConsumerKnows
    <3>5. QED
      BY <1>t, <3>3, <3>4
  <2>5. QED
    BY <2>1, <2>2, <2>3, <2>4, <1>i, QuietStep
<1>13. ASSUME NEW c \in Consumers, ReturnGot(c)
      PROVE  RingInv'
  <2>1. OthersStay(c)
    BY <1>13, <1>t DEF ReturnGot, LeaveDequeue, Goto, OthersStay
  <2>2. UNCHANGED <<q, tail, log>>
    BY <1>13 DEF ReturnGot, LeaveDequeue
  <2>3. HintsBehind'
    BY <1>13, <1>0 DEF ReturnGot, LeaveDequeue, HintsBehind, H
  <2>4. ConsumerKnows(c)'
    <3>1. pc'[c] = "idle"
      BY <1>13, <1>t, <1>i DEF ReturnGot, LeaveDequeue, Goto
    <3>2. QED
      BY <3>1 DEF ConsumerKnows
  <2>5. QED
    BY <2>1, <2>2, <2>3, <2>4, <1>i, QuietStep
<1>14. ASSUME NEW p \in Producers, CasEntry(p)
       PROVE  RingInv'
  <2> DEFINE s == Slot(head[p])
             e == [ctr |-> head[p], val |-> arg[p]]
  <2>1. /\ pc[p] = "cas" /\ head[p] \in Nat /\ ptail[p] \in Nat
        /\ old[p].ctr \in Nat
    BY <1>14, <1>t DEF CasEntry, Entry
  <2>2. /\ 0 < head[p] /\ head[p] <= H + 1 /\ H \in Nat
        /\ old[p].ctr < head[p] /\ old[p].ctr <= ptail[p] /\ ptail[p] <= tail
        /\ head[p] = H + 1 => q[s] = old[p]
    BY <1>0, <1>t, <2>1 DEF ProducerKnows, H
  <2>3. ASSUME q[s] # old[p]
        PROVE  RingInv'
    <3>1. head[p] <= H
      BY <2>1, <2>2, <2>3
    <3>2. /\ UNCHANGED <<q, tail, log, head_copy, tail_copy>>
          /\ Goto(p, "read_val")
          /\ UNCHANGED <<arg, head, ptail, old, i, since, counter, ctr, val>>
      BY <1>14, <2>3 DEF CasEntry
    <3>3. OthersStay(p)
      BY <1>t, <3>2 DEF Goto, OthersStay
    <3>4. HintsBehind'
      BY <1>0, <3>2 DEF HintsBehind, H
    <3>5. pc'[p] = "read_val"
      BY <1>t, <1>i, <3>2 DEF Goto
    <3>6. ProducerKnows(p)'
      BY <1>0, <3>1, <3>2, <3>5 DEF ProducerKnows, H
    <3>7. RoundsPaid(p)'
      BY <1>0, <2>1, <3>2, <3>5 DEF RoundsPaid
    <3>8. QED
      BY <3>2, <3>3, <3>4, <3>6, <3>7, <1>i, QuietStep
  <2>4. ASSUME q[s] = old[p]
        PROVE  RingInv'
    <3>1. /\ q' = [q EXCEPT ![s] = e]
          /\ log' = Append(log, arg[p])
          /\ Goto(p, "write_head_copy")
          /\ UNCHANGED <<tail, head_copy, tail_copy>>
          /\ UNCHANGED <<arg, head, ptail, old, i, since, counter, ctr, val>>
      BY <1>14, <2>4 DEF CasEntry
    <3>2. s \in Slots /\ e.ctr = head[p] /\ e.val = arg[p]
      BY <2>1, SlotType
    <3>3. /\ \A r \in Slots : q'[r] = IF r = s THEN e ELSE q[r]
          /\ \A r \in Slots : q[r].ctr \in Nat
      BY <3>1, <3>2 DEF RingInv, TypeOK, Entry
    <3>4. head[p] = H + 1
      <4>1. SUFFICES ASSUME head[p] <= H
                     PROVE  FALSE
        BY <2>1, <2>2
      <4>2. head[p] \in 1 .. H
        BY <2>1, <2>2, <4>1
      <4>3. q[s].ctr >= head[p]
        BY <1>0, <4>2 DEF NoHoles
      <4>4. QED
        BY <2>1, <2>2, <2>4, <4>3
    <3>5. /\ H' = H + 1
          /\ \A n \in 1 .. H : log'[n] = log[n]
          /\ log'[H + 1] = arg[p]
      BY <3>1, <1>t DEF H, RingInv, TypeOK
    <3>6. Occupancy'
      <4>1. tail <= H /\ H <= tail + Size
        BY <1>0 DEF Occupancy
      <4>2. H + 1 <= tail + Size
        <5>1. CASE H + 1 <= Size
          BY <5>1, <1>t, <2>2, SizeAssumption
        <5>2. CASE ~(H + 1 <= Size)
          <6> DEFINE n == H + 1 - Size
          <6>1. n \in 1 .. H /\ n \in Nat /\ n + Size = H + 1
            BY <5>2, <2>2, SizeAssumption
          <6>2. Slot(n) = s
            BY <3>4, <6>1, SlotLap
          <6>3. q[s].ctr >= n
            BY <1>0, <6>1, <6>2 DEF NoHoles
          <6>4. n <= tail
            BY <2>1, <2>2, <2>4, <6>1, <6>3, <1>t
          <6>5. QED
            BY <6>1, <6>4, <1>t, <2>2, SizeAssumption
        <5>3. QED
          BY <5>1, <5>2
      <4>3. QED
        BY <3>1, <3>5, <4>1, <4>2, <1>t, <2>2, SizeAssumption DEF Occupancy
    <3>7. EntriesGenuine'
      <4>1. ASSUME NEW r \in Slots
            PROVE  /\ q'[r].ctr <= H + 1
                   /\ q'[r].ctr > 0 => Slot(q'[r].ctr) = r /\ q'[r].val = log'[q'[r].ctr]
        <5>1. CASE r = s
          BY <5>1, <3>2, <3>3, <3>4, <3>5, <2>2
        <5>2. CASE r # s
          <6>1. q'[r] = q[r] /\ q[r].ctr \in Nat /\ q[r].ctr <= H
            BY <5>2, <3>3, <1>0 DEF EntriesGenuine
          <6>2. q[r].ctr > 0 => Slot(q[r].ctr) = r /\ q[r].val = log[q[r].ctr]
            BY <1>0 DEF EntriesGenuine
          <6>3. q[r].ctr > 0 => q[r].ctr \in 1 .. H
            BY <6>1, <2>2
          <6>4. QED
            BY <6>1, <6>2, <6>3, <3>5, <2>2
        <5>3. QED
          BY <5>1, <5>2
      <4>2. QED
        BY <4>1, <3>5 DEF EntriesGenuine, Slot
    <3>8. NoHoles'
      <4>1. ASSUME NEW n \in 1 .. H + 1
            PROVE  q'[Slot(n)].ctr >= n
        <5>1. Slot(n) \in Slots /\ n \in Nat
          BY SlotType, <2>2
        <5>2. CASE Slot(n) = s
          BY <5>1, <5>2, <3>2, <3>3, <3>4, <2>2
        <5>3. CASE Slot(n) # s
          <6>1. n # H + 1
            BY <5>3, <3>4
          <6>2. n \in 1 .. H
            BY <6>1, <2>2
          <6>3. q[Slot(n)].ctr >= n
            BY <6>2, <1>0 DEF NoHoles
          <6>4. QED
            BY <6>3, <5>1, <5>3, <3>3
        <5>4. QED
          BY <5>2, <5>3
      <4>2. QED
        BY <4>1, <3>5 DEF NoHoles, Slot
    <3>9. HintsBehind'
      BY <1>0, <1>t, <2>2, <3>1, <3>5 DEF HintsBehind
    <3>10. \A t \in Threads \ {p} : pc'[t] = pc[t]
      BY <3>1, <1>t DEF Goto
    <3>11. tail <= tail' /\ H <= H' /\ tail <= H
      BY <1>0, <1>t, <2>2, <3>1, <3>5 DEF Occupancy
    <3>12. ASSUME NEW r \in Producers
           PROVE  ProducerKnows(r)' /\ RoundsPaid(r)'
      <4>1. CASE r = p
        <5>1. pc'[p] = "write_head_copy"
          BY <3>1, <1>t, <1>i DEF Goto
        <5>2. /\ ptail'[p] = ptail[p] /\ since'[p] = since[p]
              /\ head'[p] = head[p] /\ head[p] <= H' /\ tail' = tail
          BY <3>1, <3>4, <3>5, <2>2
        <5>3. ptail[p] <= tail /\ since[p] <= tail
          BY <1>0 DEF ProducerKnows
        <5>4. QED
          BY <4>1, <5>1, <5>2, <5>3 DEF ProducerKnows, RoundsPaid
      <4>2. CASE r # p
        <5>1. pc'[r] = pc[r]
          BY <4>2, <3>10, <1>i
        <5>2. QED
          BY <5>1, <3>1, <3>5, <3>11, <1>0, <1>i, ProducerFrame DEF RingInv
      <4>3. QED
        BY <4>1, <4>2
    <3>13. ASSUME NEW c \in Consumers
           PROVE  ConsumerKnows(c)'
      <4>1. pc'[c] = pc[c]
        BY <3>10, <1>i
      <4>2. QED
        BY <4>1, <3>1, <3>5, <3>11, <1>0, <1>i, ConsumerFrame DEF RingInv
    <3>14. QED
      BY <3>6, <3>7, <3>8, <3>9, <3>12, <3>13, <1>i DEF RingInv
  <2>5. QED
    BY <2>3, <2>4
<1>15. ASSUME NEW c \in Consumers, CasTail(c)
       PROVE  RingInv'
  <2>1. pc[c] = "deq_cas" /\ counter[c] \in Nat /\ H \in Nat
    BY <1>15, <1>t DEF CasTail, H
  <2>2. /\ 0 < counter[c] /\ counter[c] <= tail + 1 /\ counter[c] <= H
        /\ Slot(ctr[c]) = Slot(counter[c])
        /\ counter[c] = tail + 1 => val[c] = log[counter[c]]
    BY <1>0, <2>1 DEF ConsumerKnows
  <2>3. CASE tail # counter[c] - 1
    <3>1. /\ UNCHANGED <<q, tail, log, head_copy, tail_copy>>
          /\ LeaveDequeue(c, "deq_tail")
          /\ UNCHANGED <<arg, head, ptail, old, i, since>>
      BY <1>15, <2>3 DEF CasTail
    <3>2. OthersStay(c)
      BY <1>t, <3>1 DEF Goto, LeaveDequeue, OthersStay
    <3>3. HintsBehind'
      BY <1>0, <3>1 DEF HintsBehind, H
    <3>4. pc'[c] = "deq_tail"
      BY <1>t, <1>i, <3>1 DEF Goto, LeaveDequeue
    <3>5. ConsumerKnows(c)'
      BY <3>4 DEF ConsumerKnows
    <3>6. QED
      BY <3>1, <3>2, <3>3, <3>5, <1>i, QuietStep
  <2>4. CASE tail = counter[c] - 1
    <3>1. /\ tail' = tail + 1 /\ counter[c] = tail + 1
          /\ Goto(c, "got")
          /\ UNCHANGED <<counter, ctr, val>>
          /\ UNCHANGED <<q, log, head_copy, tail_copy>>
          /\ UNCHANGED <<arg, head, ptail, old, i, since>>
      BY <1>15, <2>4, <2>1, <2>2, <1>t DEF CasTail
    <3>2. H' = H /\ q' = q
      BY <3>1 DEF H
    <3>3. Occupancy'
      BY <3>1, <3>2, <2>1, <2>2, <1>0, <1>t, SizeAssumption DEF Occupancy
    <3>4. EntriesGenuine' /\ NoHoles'
      BY <3>1, <3>2, <1>0 DEF EntriesGenuine, NoHoles, Slot
    <3>5. HintsBehind'
      BY <1>0, <1>t, <2>1, <3>1, <3>2 DEF HintsBehind
    <3>6. \A t \in Threads \ {c} : pc'[t] = pc[t]
      BY <3>1, <1>t DEF Goto
    <3>7. tail <= tail' /\ H <= H' /\ tail <= H
      BY <1>0, <1>t, <2>1, <3>1, <3>2 DEF Occupancy
    <3>8. ASSUME NEW r \in Producers
          PROVE  ProducerKnows(r)' /\ RoundsPaid(r)'
      <4>1. pc'[r] = pc[r]
        BY <3>6, <1>i
      <4>2. QED
        BY <4>1, <3>1, <3>2, <3>7, <1>0, <1>i, ProducerFrame DEF RingInv
    <3>9. ASSUME NEW d \in Consumers
          PROVE  ConsumerKnows(d)'
      <4>1. CASE d = c
        <5>1. pc'[c] = "got"
          BY <3>1, <1>t, <1>i DEF Goto
        <5>2. QED
          BY <4>1, <5>1, <3>1, <2>1, <2>2, <1>t DEF ConsumerKnows, Slot
      <4>2. CASE d # c
        <5>1. pc'[d] = pc[d]
          BY <4>2, <3>6, <1>i
        <5>2. QED
          BY <5>1, <3>1, <3>2, <3>7, <1>0, <1>i, ConsumerFrame DEF RingInv
      <4>3. QED
        BY <4>1, <4>2
    <3>10. QED
      BY <3>3, <3>4, <3>5, <3>8, <3>9, <1>i DEF RingInv
  <2>5. QED
    BY <2>3, <2>4
<1>16. CASE UNCHANGED vars
  BY <1>16, <1>i DEF vars, RingInv, Occupancy, EntriesGenuine, NoHoles, H,
     HintsBehind, ProducerKnows, RoundsPaid, ConsumerKnows, Slot
<1>17. QED
  BY <1>1, <1>2, <1>3, <1>4, <1>5, <1>6, <1>7, <1>8, <1>9, <1>10, <1>11,
     <1>12, <1>13, <1>14, <1>15, <1>16 DEF Next, Produce, Consume

LEMMA InitRingInv == Init => RingInv
<1> SUFFICES ASSUME Init
             PROVE  RingInv
    OBVIOUS
<1>1. TypeOK
    BY InitTyping
<1>2. H = 0 /\ tail = 0 /\ \A s \in Slots : q[s].ctr = 0
    BY DEF Init, H
<1>3. Occupancy /\ EntriesGenuine /\ HintsBehind
    BY <1>2, SizeAssumption DEF Init, Occupancy, EntriesGenuine, HintsBehind
<1>4. NoHoles
    BY <1>2 DEF NoHoles
<1>5. \A t \in Threads : pc[t] = "idle"
    BY DEF Init
<1>6. ASSUME NEW p \in Producers
      PROVE  ProducerKnows(p) /\ RoundsPaid(p)
    BY <1>2, <1>5 DEF Init, Threads, ProducerKnows, RoundsPaid
<1>7. ASSUME NEW c \in Consumers
      PROVE  ConsumerKnows(c)
    BY <1>5 DEF Threads, ConsumerKnows
<1>8. QED
    BY <1>1, <1>3, <1>4, <1>6, <1>7 DEF RingInv

-----------------------------------------------------------------------------
(* The theorems *)

\* The variables keep their types.
THEOREM Typing == Spec => []TypeOK
<1>1. TypeOK /\ [Next]_vars => TypeOK'
    BY NextTyping
<1>2. QED
    BY InitTyping, <1>1, PTL DEF Spec

\* The ring never overwrites an unconsumed entry, has no holes, holds what
\* was enqueued, and every thread inside subenqueue() or subdequeue() knows
\* what its next step relies on.
THEOREM RingInvariant == Spec => []RingInv
<1>1. RingInv /\ [Next]_vars => RingInv'
    BY NextRingInv
<1>2. QED
    BY InitRingInv, <1>1, PTL DEF Spec

\* A producer moves past an entry only when the entry has been produced, and
\* a compare-and-swap is lost only by a thread that is behind the ring.
LEMMA LoopSteps ==
    ASSUME RingInv, [Next]_vars
    PROVE  /\ \A p \in Producers :
                /\ head'[p] = head[p] + 1 => head[p] <= H
                /\ pc[p] = "cas" /\ pc'[p] = "read_val" => head[p] <= H
           /\ \A c \in Consumers :
                pc[c] = "deq_cas" /\ pc'[c] = "deq_tail" => counter[c] <= tail
<1>t. /\ pc \in [Threads -> Locations]
      /\ head \in [Producers -> Nat] /\ counter \in [Consumers -> Nat]
      /\ tail \in Nat /\ head_copy \in Nat /\ H \in Nat
      /\ Producers \subseteq Threads /\ Consumers \subseteq Threads
    BY DEF RingInv, TypeOK, H, Threads
<1> USE DEF Next, vars, shared, plocal, clocal, Produce, Consume,
        ReadHeadCopy, ReadTailCopy, ReadVal, ReadCtr, CasEntry,
        WriteHeadCopy, ReadTail, CompareTailCopy, WriteTailCopy,
        ReturnRefused, ReadTailC, ReadCtrC, ReadValC, CasTail, ReturnGot,
        NextRound, LeaveEnqueue, LeaveDequeue, Goto
<1>1. ASSUME NEW p \in Producers, head'[p] = head[p] + 1
      PROVE  head[p] <= H
  <2>0. \/ head' = head
        \/ \E r \in Producers :
             \/ pc[r] = "read_val" /\ head' = [head EXCEPT ![r] = head[r] + 1]
             \/ head' = [head EXCEPT ![r] = head_copy]
             \/ head' = [head EXCEPT ![r] = head[r] - 1]
             \/ head' = [head EXCEPT ![r] = 0]
    BY Zenon
  <2> HIDE DEF Next, NextRound, LeaveEnqueue, LeaveDequeue, Goto
  <2>1. \/ pc[p] = "read_val"
        \/ head'[p] = head_copy
        \/ head'[p] \in {0, head[p], head[p] - 1}
    BY <1>t, <2>0
  <2>2. head_copy <= H /\ (pc[p] = "read_val" => head[p] <= H)
    BY DEF RingInv, HintsBehind, ProducerKnows
  <2>3. QED
    BY <1>1, <1>t, <2>1, <2>2
<1>2. ASSUME NEW p \in Producers, pc[p] = "cas", pc'[p] = "read_val"
      PROVE  head[p] <= H
  <2>1. q[Slot(head[p])] # old[p]
    BY <1>2, <1>t
  <2>2. head[p] <= H + 1 /\ (head[p] = H + 1 => q[Slot(head[p])] = old[p])
    BY <1>2 DEF RingInv, ProducerKnows
  <2>3. QED
    BY <1>t, <2>1, <2>2
<1>3. ASSUME NEW c \in Consumers, pc[c] = "deq_cas", pc'[c] = "deq_tail"
      PROVE  counter[c] <= tail
  <2>1. tail # counter[c] - 1
    BY <1>3, <1>t
  <2>2. counter[c] <= tail + 1
    BY <1>3 DEF RingInv, ConsumerKnows
  <2>3. QED
    BY <1>t, <2>1, <2>2
<1>4. QED
    BY <1>1, <1>2, <1>3

\* A producer never leaves a hole: it gives an entry up for the next one only
\* when another producer has filled it.
THEOREM NoSkippedEntry == Spec => SkipsOnlyTaken
<1>1. RingInv /\ [Next]_vars =>
        [\A p \in Producers : head'[p] = head[p] + 1 => head[p] <= H]_vars
    BY LoopSteps
<1>2. QED
    BY RingInvariant, <1>1, PTL DEF Spec, SkipsOnlyTaken

\* A thread that loses a compare-and-swap loses it to another one's success.
THEOREM LossIsProgress == Spec => LostToAnother
<1>1. RingInv /\ [Next]_vars =>
        [/\ \A p \in Producers :
              pc[p] = "cas" /\ pc'[p] = "read_val" => head[p] <= H
         /\ \A c \in Consumers :
              pc[c] = "deq_cas" /\ pc'[c] = "deq_tail" => counter[c] <= tail]_vars
    BY LoopSteps
<1>2. QED
    BY RingInvariant, <1>1, PTL DEF Spec, LostToAnother

-----------------------------------------------------------------------------
(* The values in the ring, as a sequence *)

LEMMA ItemsLength ==
    ASSUME TypeOK, Occupancy
    PROVE  /\ Len(absItems) = H - tail
           /\ absItems = << >> <=> H = tail
<1>1. log \in Seq(Val) /\ H \in Nat /\ tail \in Nat /\ tail <= H
    BY DEF TypeOK, Occupancy, H
<1>2. \A n \in tail + 1 .. H : log[n] \in Val
    BY <1>1, ElementOfSeq DEF H
<1>3. /\ absItems \in Seq(Val)
      /\ Len(absItems) = IF tail + 1 <= H THEN H - (tail + 1) + 1 ELSE 0
    BY <1>1, <1>2, SubSeqProperties DEF absItems, H
<1>4. Len(absItems) = H - tail
    BY <1>1, <1>3
<1>5. absItems # << >> => Len(absItems) \in Nat \ {0}
    BY <1>3, EmptySeq
<1>6. absItems = << >> => Len(absItems) = 0
    BY EmptySeq
<1>7. QED
    BY <1>1, <1>4, <1>5, <1>6

LEMMA ItemsAppend ==
    ASSUME TypeOK, Occupancy, NEW v \in Val, log' = Append(log, v), tail' = tail
    PROVE  absItems' = Append(absItems, v)
<1>1. log \in Seq(Val) /\ H \in Nat /\ tail \in Nat /\ tail <= H
    BY DEF TypeOK, Occupancy, H
<1>2. /\ log' \in Seq(Val) /\ Len(log') = H + 1 /\ log'[H + 1] = v
      /\ \A n \in 1 .. H : log'[n] = log[n]
    BY <1>1, AppendProperties DEF H
<1>3. absItems' = SubSeq(log', tail + 1, H + 1)
    BY <1>2 DEF absItems
<1>4. SubSeq(log', tail + 1, H + 1) = SubSeq(log', tail + 1, H) \o <<v>>
    BY <1>1, <1>2, SubSeqRecursiveSecond
<1>5. SubSeq(log', tail + 1, H) = SubSeq(log, tail + 1, H)
    BY <1>1, <1>2 DEF H
<1>6. absItems \in Seq(Val)
    BY <1>1, SubSeqProperties, ElementOfSeq DEF absItems, H
<1>7. Append(absItems, v) = absItems \o <<v>>
    BY <1>6, AppendIsConcat
<1>8. QED
    BY <1>3, <1>4, <1>5, <1>7 DEF absItems, H

LEMMA ItemsTail ==
    ASSUME TypeOK, tail < H, log' = log, tail' = tail + 1
    PROVE  /\ Head(absItems) = log[tail + 1]
           /\ absItems' = Tail(absItems)
<1>1. log \in Seq(Val) /\ H \in Nat /\ tail \in Nat
    BY DEF TypeOK, H
<1>2. tail + 1 \in 1 .. Len(log) /\ Len(log) \in tail + 1 .. Len(log)
    BY <1>1 DEF H
<1>3. /\ Head(SubSeq(log, tail + 1, Len(log))) = log[tail + 1]
      /\ Tail(SubSeq(log, tail + 1, Len(log))) = SubSeq(log, tail + 1 + 1, Len(log))
    BY <1>1, <1>2, HeadTailOfSubSeq
<1>4. QED
    BY <1>3 DEF absItems

-----------------------------------------------------------------------------
(* A step of one thread, seen from the abstract queue *)

\* The abstract state changes at most for the thread that moves.
LEMMA AbstractStep ==
    ASSUME TypeOK, TypeOK', NEW t \in Threads, OthersStay(t)
    PROVE  /\ absStage' = [absStage EXCEPT ![t] = StageOf(t)']
           /\ absValue' = [absValue EXCEPT ![t] = ValueOf(t)']
           /\ absOk' = [absOk EXCEPT ![t] = pc'[t] \in {"write_head_copy", "got"}]
           /\ (pc'[t] \in {"write_head_copy", "got"}
                <=> pc[t] \in {"write_head_copy", "got"}) => absOk' = absOk
           /\ t \in Producers => since' = [since EXCEPT ![t] = since'[t]]
           /\ t \notin Producers => since' = since
<1>1. ASSUME NEW u \in Threads \ {t}
      PROVE  /\ StageOf(u)' = StageOf(u)
             /\ ValueOf(u)' = ValueOf(u)
             /\ pc'[u] = pc[u]
  <2>1. pc'[u] = pc[u]
    BY <1>1 DEF OthersStay
  <2>2. u \in Producers => arg'[u] = arg[u]
    BY <1>1 DEF OthersStay
  <2>3. u \in Consumers =>
          counter'[u] = counter[u] /\ ctr'[u] = ctr[u] /\ val'[u] = val[u]
    BY <1>1 DEF OthersStay
  <2>4. StageOf(u)' = StageOf(u)
    BY <2>1, <2>3 DEF StageOf, Decided
  <2>5. ValueOf(u)' = ValueOf(u)
    BY <2>1, <2>2, <2>3 DEF ValueOf, Threads
  <2>6. QED
    BY <2>1, <2>4, <2>5
<1>2. absStage' = [absStage EXCEPT ![t] = StageOf(t)']
    BY <1>1 DEF absStage
<1>3. absValue' = [absValue EXCEPT ![t] = ValueOf(t)']
    BY <1>1 DEF absValue
<1>4. absOk' = [absOk EXCEPT ![t] = pc'[t] \in {"write_head_copy", "got"}]
    BY <1>1 DEF absOk
<1>5. ASSUME pc'[t] \in {"write_head_copy", "got"}
               <=> pc[t] \in {"write_head_copy", "got"}
      PROVE  absOk' = absOk
  <2>1. ASSUME NEW u \in Threads
        PROVE  (pc'[u] \in {"write_head_copy", "got"})
                 = (pc[u] \in {"write_head_copy", "got"})
    <3>1. u # t => pc'[u] = pc[u]
      BY DEF OthersStay
    <3>2. pc'[u] \in {"write_head_copy", "got"}
            <=> pc[u] \in {"write_head_copy", "got"}
      BY <1>5, <3>1
    <3>3. QED
      BY <3>2, SMT
  <2>2. QED
    BY <2>1, Zenon DEF absOk
<1>6. /\ since \in [Producers -> Nat] /\ since' \in [Producers -> Nat]
      /\ \A r \in Producers \ {t} : since'[r] = since[r]
    BY DEF TypeOK, OthersStay
<1>7. t \in Producers => since' = [since EXCEPT ![t] = since'[t]]
    BY <1>6
<1>8. t \notin Producers => since' = since
    BY <1>6
<1>9. QED
    BY <1>2, <1>3, <1>4, <1>5, <1>7, <1>8

\* A step inside a call that neither decides it nor touches the ring's
\* contents is a stutter of the abstract queue.
LEMMA StutterStep ==
    ASSUME TypeOK, TypeOK', NEW t \in Threads, OthersStay(t),
           StageOf(t)' = StageOf(t), ValueOf(t)' = ValueOf(t),
           pc'[t] \in {"write_head_copy", "got"}
             <=> pc[t] \in {"write_head_copy", "got"},
           t \in Producers => since'[t] = since[t],
           log' = log, tail' = tail
    PROVE  UNCHANGED Fifo!vars
<1>1. /\ absStage' = [absStage EXCEPT ![t] = StageOf(t)']
      /\ absValue' = [absValue EXCEPT ![t] = ValueOf(t)']
      /\ absOk' = [absOk EXCEPT ![t] = pc'[t] \in {"write_head_copy", "got"}]
      /\ t \in Producers => since' = [since EXCEPT ![t] = since'[t]]
      /\ t \notin Producers => since' = since
    BY AbstractStep
<1>2. absStage' = absStage
    BY <1>1 DEF absStage
<1>3. absValue' = absValue
    BY <1>1 DEF absValue
<1>4. absOk' = absOk
    BY AbstractStep
<1>5. since' = since
    BY <1>1 DEF TypeOK
<1>6. absItems' = absItems
    BY DEF absItems
<1>7. QED
    BY <1>2, <1>3, <1>4, <1>5, <1>6 DEF Fifo!vars

-----------------------------------------------------------------------------
(* The steps of a producer *)

\* What every step is given: the invariant before and after it.
Around == RingInv /\ RingInv'

LEMMA ProducerTypes ==
    ASSUME Around, NEW p \in Producers
    PROVE  /\ TypeOK /\ TypeOK' /\ Occupancy /\ Occupancy' /\ NoHoles
           /\ ProducerKnows(p) /\ RoundsPaid(p)
           /\ p \in Threads /\ p \notin Consumers
           /\ pc \in [Threads -> Locations]
           /\ arg \in [Producers -> Val] /\ head \in [Producers -> Nat]
           /\ ptail \in [Producers -> Nat] /\ old \in [Producers -> Entry]
           /\ i \in [Producers -> Nat] /\ since \in [Producers -> Nat]
           /\ tail \in Nat /\ H \in Nat
<1>1. /\ TypeOK /\ TypeOK' /\ Occupancy /\ Occupancy' /\ NoHoles
      /\ ProducerKnows(p) /\ RoundsPaid(p)
    BY DEF Around, RingInv
<1>2. p \in Threads /\ p \notin Consumers
    BY ThreadAssumption DEF Threads
<1>3. /\ pc \in [Threads -> Locations]
      /\ arg \in [Producers -> Val] /\ head \in [Producers -> Nat]
      /\ ptail \in [Producers -> Nat] /\ old \in [Producers -> Entry]
      /\ i \in [Producers -> Nat] /\ since \in [Producers -> Nat]
      /\ tail \in Nat /\ H \in Nat
    BY <1>1 DEF TypeOK, H
<1>4. QED
    BY <1>1, <1>2, <1>3

LEMMA InvokeEnqueue ==
    ASSUME Around, NEW p \in Producers, NEW v \in Val, ReadHeadCopy(p, v)
    PROVE  Fifo!EnqInvoke(p, v)
<1> USE DEF shared, plocal, clocal
<1>t. /\ TypeOK /\ TypeOK' /\ p \in Threads /\ p \notin Consumers
      /\ pc \in [Threads -> Locations] /\ arg \in [Producers -> Val]
      /\ head \in [Producers -> Nat] /\ i \in [Producers -> Nat]
      /\ since \in [Producers -> Nat]
    BY ProducerTypes
<1>1. OthersStay(p)
    BY <1>t DEF ReadHeadCopy, Goto, OthersStay
<1>2. /\ pc[p] = "idle" /\ pc'[p] = "read_tail_copy" /\ arg'[p] = v
      /\ since'[p] = tail /\ log' = log /\ tail' = tail
    BY <1>t DEF ReadHeadCopy, Goto
<1>3. /\ absStage[p] = "idle" /\ StageOf(p)' = "called" /\ ValueOf(p)' = v
    BY <1>t, <1>2 DEF absStage, StageOf, Decided, ValueOf
<1>4. /\ absStage' = [absStage EXCEPT ![p] = "called"]
      /\ absValue' = [absValue EXCEPT ![p] = v]
      /\ absOk' = absOk
      /\ since' = [since EXCEPT ![p] = tail]
    BY <1>t, <1>1, <1>2, <1>3, AbstractStep
<1>5. absItems' = absItems
    BY <1>2 DEF absItems
<1>6. QED
    BY <1>2, <1>3, <1>4, <1>5 DEF Fifo!EnqInvoke

LEMMA CommitEnqueue ==
    ASSUME Around, NEW p \in Producers, CasEntry(p), pc'[p] = "write_head_copy"
    PROVE  Fifo!EnqCommit(p)
<1> USE DEF shared, plocal, clocal
<1>t. /\ TypeOK /\ TypeOK' /\ Occupancy /\ Occupancy'
      /\ p \in Threads /\ p \notin Consumers
      /\ pc \in [Threads -> Locations] /\ arg \in [Producers -> Val]
      /\ since \in [Producers -> Nat] /\ tail \in Nat /\ H \in Nat
    BY ProducerTypes
<1>1. OthersStay(p)
    BY <1>t DEF CasEntry, Goto, OthersStay
<1>2. /\ pc[p] = "cas" /\ log' = Append(log, arg[p]) /\ tail' = tail
      /\ arg' = arg /\ since' = since
    BY <1>t DEF CasEntry, Goto
<1>3. /\ StageOf(p) = "called" /\ StageOf(p)' = "decided"
      /\ ValueOf(p) = arg[p] /\ ValueOf(p)' = arg[p]
    BY <1>t, <1>2 DEF StageOf, Decided, ValueOf
<1>4. /\ absStage[p] = "called" /\ absValue[p] = arg[p]
    BY <1>t, <1>3 DEF absStage, absValue
<1>5. (pc'[p] \in {"write_head_copy", "got"}) = TRUE
    BY SMT
<1>6. /\ absStage' = [absStage EXCEPT ![p] = "decided"]
      /\ absValue' = [absValue EXCEPT ![p] = arg[p]]
      /\ absOk' = [absOk EXCEPT ![p] = TRUE]
    BY <1>t, <1>1, <1>3, <1>5, AbstractStep
<1>7. absValue' = absValue
    BY <1>4, <1>6 DEF absValue
<1>8. arg[p] \in Val /\ absItems' = Append(absItems, absValue[p])
    BY <1>t, <1>2, <1>4, ItemsAppend
<1>9. Len(absItems) < Size
  <2>1. H' = H + 1
    BY <1>2, <1>8 DEF H, TypeOK
  <2>2. H' <= tail' + Size
    BY <1>t DEF Occupancy
  <2>3. Len(absItems) = H - tail
    BY <1>t, ItemsLength
  <2>4. QED
    BY <1>t, <1>2, <2>1, <2>2, <2>3, SizeAssumption
<1>10. QED
    BY <1>2, <1>4, <1>6, <1>7, <1>8, <1>9 DEF Fifo!EnqCommit, Fifo!Decide

\* Refusing: the ring is full, or the rounds are paid for by removals.
LEMMA RefuseEnqueue ==
    ASSUME Around, NEW p \in Producers, pc'[p] = "refused",
           ReadTail(p) \/ CompareTailCopy(p) \/ WriteTailCopy(p)
    PROVE  Fifo!EnqRefuse(p)
<1> USE DEF shared, plocal, clocal
<1>t. /\ TypeOK /\ TypeOK' /\ Occupancy /\ ProducerKnows(p) /\ RoundsPaid(p)
      /\ p \in Threads /\ p \notin Consumers
      /\ pc \in [Threads -> Locations] /\ arg \in [Producers -> Val]
      /\ head \in [Producers -> Nat] /\ ptail \in [Producers -> Nat]
      /\ i \in [Producers -> Nat]
      /\ since \in [Producers -> Nat] /\ tail \in Nat /\ H \in Nat
    BY ProducerTypes
<1>1. OthersStay(p)
    BY <1>t DEF ReadTail, CompareTailCopy, WriteTailCopy, NextRound, Goto, OthersStay
<1>2. /\ pc[p] \in {"read_tail", "compare_tail_copy", "write_tail_copy"}
      /\ log' = log /\ tail' = tail /\ arg' = arg /\ since' = since
    BY DEF ReadTail, CompareTailCopy, WriteTailCopy
<1>3. /\ StageOf(p) = "called" /\ StageOf(p)' = "decided"
      /\ ValueOf(p) = arg[p] /\ ValueOf(p)' = arg[p]
    BY <1>t, <1>2 DEF StageOf, Decided, ValueOf
<1>4. /\ absStage[p] = "called" /\ absValue[p] = arg[p]
    BY <1>t, <1>3 DEF absStage, absValue
<1>5. (pc'[p] \in {"write_head_copy", "got"}) = FALSE
    BY SMT
<1>6. /\ absStage' = [absStage EXCEPT ![p] = "decided"]
      /\ absValue' = [absValue EXCEPT ![p] = arg[p]]
      /\ absOk' = [absOk EXCEPT ![p] = FALSE]
    BY <1>t, <1>1, <1>3, <1>5, AbstractStep
<1>7. absValue' = absValue
    BY <1>4, <1>6 DEF absValue
<1>8. absItems' = absItems
    BY <1>2 DEF absItems
<1>9. Len(absItems) = Size \/ tail >= since[p] + (Rounds - 1)
  <2>1. CASE ReadTail(p)
    <3>1. pc[p] = "read_tail" /\ tail <= ptail[p]
      BY <2>1, <1>t DEF ReadTail, Goto
    <3>2. ptail[p] <= tail /\ ptail[p] + Size <= head[p] /\ head[p] <= H
      BY <3>1, <1>t DEF ProducerKnows
    <3>3. H <= tail + Size /\ Len(absItems) = H - tail
      BY <1>t, ItemsLength DEF Occupancy
    <3>4. QED
      BY <1>t, <3>1, <3>2, <3>3, SizeAssumption
  <2>2. CASE CompareTailCopy(p) \/ WriteTailCopy(p)
    <3>1. /\ pc[p] \in {"compare_tail_copy", "write_tail_copy"}
          /\ ~ (i[p] + 1 < Rounds)
      BY <2>2, <1>t DEF CompareTailCopy, WriteTailCopy, NextRound, Goto
    <3>2. i[p] < Rounds /\ ptail[p] >= since[p] + i[p] /\ ptail[p] <= tail
      BY <3>1, <1>t DEF RoundsPaid, ProducerKnows
    <3>3. QED
      BY <1>t, <3>1, <3>2 DEF Rounds
  <2>3. QED
    BY <2>1, <2>2
<1>10. QED
    BY <1>2, <1>4, <1>6, <1>7, <1>8, <1>9 DEF Fifo!EnqRefuse, Fifo!Decide

LEMMA ReturnEnqueue ==
    ASSUME Around, NEW p \in Producers, WriteHeadCopy(p) \/ ReturnRefused(p)
    PROVE  Fifo!EnqReturn(p)
<1> USE DEF shared, plocal, clocal
<1>t. /\ TypeOK /\ TypeOK' /\ p \in Threads /\ p \notin Consumers
      /\ pc \in [Threads -> Locations] /\ arg \in [Producers -> Val]
      /\ head \in [Producers -> Nat] /\ ptail \in [Producers -> Nat]
      /\ old \in [Producers -> Entry] /\ i \in [Producers -> Nat]
      /\ since \in [Producers -> Nat]
    BY ProducerTypes
<1>1. OthersStay(p)
    BY <1>t DEF WriteHeadCopy, ReturnRefused, LeaveEnqueue, Goto, OthersStay
<1>2. /\ pc[p] \in {"write_head_copy", "refused"} /\ pc'[p] = "idle"
      /\ since'[p] = 0 /\ log' = log /\ tail' = tail
    BY <1>t DEF WriteHeadCopy, ReturnRefused, LeaveEnqueue, Goto
<1>3. /\ StageOf(p) = "decided" /\ StageOf(p)' = "idle" /\ ValueOf(p)' = Zero
    BY <1>t, <1>2 DEF StageOf, Decided, ValueOf
<1>4. absStage[p] = "decided"
    BY <1>t, <1>3 DEF absStage
<1>5. (pc'[p] \in {"write_head_copy", "got"}) = FALSE
    BY <1>2, SMT
<1>6. /\ absStage' = [absStage EXCEPT ![p] = "idle"]
      /\ absValue' = [absValue EXCEPT ![p] = Zero]
      /\ absOk' = [absOk EXCEPT ![p] = FALSE]
      /\ since' = [since EXCEPT ![p] = 0]
    BY <1>t, <1>1, <1>2, <1>3, <1>5, AbstractStep
<1>7. absItems' = absItems
    BY <1>2 DEF absItems
<1>8. QED
    BY <1>2, <1>4, <1>6, <1>7 DEF Fifo!EnqReturn

\* Every other step of a producer is internal.
LEMMA InternalEnqueue ==
    ASSUME Around, NEW p \in Producers,
           \/ ReadTailCopy(p) \/ ReadVal(p) \/ ReadCtr(p)
           \/ CasEntry(p) /\ pc'[p] # "write_head_copy"
           \/ /\ ReadTail(p) \/ CompareTailCopy(p) \/ WriteTailCopy(p)
              /\ pc'[p] # "refused"
    PROVE  UNCHANGED Fifo!vars
<1> USE DEF shared, plocal, clocal
<1>t. /\ TypeOK /\ TypeOK' /\ p \in Threads /\ p \notin Consumers
      /\ pc \in [Threads -> Locations] /\ head \in [Producers -> Nat]
      /\ ptail \in [Producers -> Nat] /\ old \in [Producers -> Entry]
      /\ i \in [Producers -> Nat]
    BY ProducerTypes
<1> DEFINE inside == {"read_tail_copy", "read_val", "read_ctr", "cas", "read_tail",
                      "compare_tail_copy", "write_tail_copy"}
<1>1. OthersStay(p)
    BY <1>t DEF ReadTailCopy, ReadVal, ReadCtr, CasEntry, ReadTail, CompareTailCopy,
                WriteTailCopy, NextRound, Goto, OthersStay
<1>2. /\ pc[p] \in inside /\ pc'[p] \in inside
      /\ log' = log /\ tail' = tail /\ arg' = arg /\ since' = since
    BY <1>t DEF ReadTailCopy, ReadVal, ReadCtr, CasEntry, ReadTail, CompareTailCopy,
                WriteTailCopy, NextRound, Goto
<1>3. StageOf(p)' = StageOf(p) /\ ValueOf(p)' = ValueOf(p)
    BY <1>t, <1>2 DEF StageOf, Decided, ValueOf
<1>4. QED
    BY <1>t, <1>1, <1>2, <1>3, StutterStep

-----------------------------------------------------------------------------
(* The steps of a consumer *)

LEMMA ConsumerTypes ==
    ASSUME Around, NEW c \in Consumers
    PROVE  /\ TypeOK /\ TypeOK' /\ Occupancy /\ NoHoles /\ ConsumerKnows(c)
           /\ c \in Threads /\ c \notin Producers
           /\ pc \in [Threads -> Locations]
           /\ counter \in [Consumers -> Nat] /\ ctr \in [Consumers -> Nat]
           /\ val \in [Consumers -> Val] /\ tail \in Nat /\ H \in Nat
<1>1. TypeOK /\ TypeOK' /\ Occupancy /\ NoHoles /\ ConsumerKnows(c)
    BY DEF Around, RingInv
<1>2. c \in Threads /\ c \notin Producers
    BY ThreadAssumption DEF Threads
<1>3. /\ pc \in [Threads -> Locations]
      /\ counter \in [Consumers -> Nat] /\ ctr \in [Consumers -> Nat]
      /\ val \in [Consumers -> Val] /\ tail \in Nat /\ H \in Nat
    BY <1>1 DEF TypeOK, H
<1>4. QED
    BY <1>1, <1>2, <1>3

LEMMA InvokeDequeue ==
    ASSUME Around, NEW c \in Consumers, ReadTailC(c), pc[c] = "idle"
    PROVE  Fifo!DeqInvoke(c)
<1> USE DEF shared, plocal, clocal
<1>t. /\ TypeOK /\ TypeOK' /\ c \in Threads /\ c \notin Producers
      /\ pc \in [Threads -> Locations] /\ counter \in [Consumers -> Nat]
    BY ConsumerTypes
<1>1. OthersStay(c)
    BY <1>t DEF ReadTailC, Goto, OthersStay
<1>2. pc'[c] = "deq_ctr" /\ log' = log /\ tail' = tail
    BY <1>t DEF ReadTailC, Goto
<1>3. /\ StageOf(c) = "idle" /\ StageOf(c)' = "called"
      /\ ValueOf(c) = Zero /\ ValueOf(c)' = Zero
    BY <1>t, <1>2 DEF StageOf, Decided, ValueOf
<1>4. absStage[c] = "idle" /\ absValue[c] = Zero
    BY <1>t, <1>3 DEF absStage, absValue
<1>5. /\ absStage' = [absStage EXCEPT ![c] = "called"]
      /\ absValue' = [absValue EXCEPT ![c] = Zero]
      /\ absOk' = absOk
      /\ since' = since
    BY <1>t, <1>1, <1>2, <1>3, AbstractStep
<1>6. absValue' = absValue
    BY <1>4, <1>5 DEF absValue
<1>7. absItems' = absItems
    BY <1>2 DEF absItems
<1>8. QED
    BY <1>2, <1>4, <1>5, <1>6, <1>7 DEF Fifo!DeqInvoke

LEMMA CommitDequeue ==
    ASSUME Around, NEW c \in Consumers, CasTail(c), pc'[c] = "got"
    PROVE  Fifo!DeqCommit(c)
<1> USE DEF shared, plocal, clocal
<1>t. /\ TypeOK /\ TypeOK' /\ Occupancy /\ ConsumerKnows(c)
      /\ c \in Threads /\ c \notin Producers
      /\ pc \in [Threads -> Locations]
      /\ counter \in [Consumers -> Nat] /\ ctr \in [Consumers -> Nat]
      /\ val \in [Consumers -> Val] /\ tail \in Nat /\ H \in Nat
    BY ConsumerTypes
<1>1. OthersStay(c)
    BY <1>t DEF CasTail, LeaveDequeue, Goto, OthersStay
<1>2. /\ pc[c] = "deq_cas" /\ tail = counter[c] - 1 /\ tail' = counter[c]
      /\ log' = log /\ val' = val
    BY <1>t DEF CasTail, LeaveDequeue, Goto
<1>3. counter[c] = tail + 1 /\ tail < H /\ val[c] = log[tail + 1]
    BY <1>t, <1>2 DEF ConsumerKnows
<1>4. /\ StageOf(c) = "called" /\ StageOf(c)' = "decided"
      /\ ValueOf(c)' = log[tail + 1]
    BY <1>t, <1>2, <1>3 DEF StageOf, Decided, ValueOf
<1>5. absStage[c] = "called"
    BY <1>t, <1>4 DEF absStage
<1>6. (pc'[c] \in {"write_head_copy", "got"}) = TRUE
    BY SMT
<1>7. /\ absStage' = [absStage EXCEPT ![c] = "decided"]
      /\ absValue' = [absValue EXCEPT ![c] = log[tail + 1]]
      /\ absOk' = [absOk EXCEPT ![c] = TRUE]
      /\ since' = since
    BY <1>t, <1>1, <1>4, <1>6, AbstractStep
<1>8. /\ Head(absItems) = log[tail + 1] /\ absItems' = Tail(absItems)
      /\ absItems # << >>
    BY <1>t, <1>2, <1>3, ItemsTail, ItemsLength
<1>9. QED
    BY <1>2, <1>3, <1>5, <1>7, <1>8 DEF Fifo!DeqCommit, Fifo!Decide

\* The ring is empty when a consumer reads a counter from an earlier lap.
LEMMA FindEmpty ==
    ASSUME Around, NEW c \in Consumers, ReadCtrC(c), ctr'[c] < counter[c]
    PROVE  Fifo!DeqEmpty(c)
<1> USE DEF shared, plocal, clocal
<1>t. /\ TypeOK /\ TypeOK' /\ Occupancy /\ NoHoles /\ ConsumerKnows(c)
      /\ c \in Threads /\ c \notin Producers
      /\ pc \in [Threads -> Locations]
      /\ counter \in [Consumers -> Nat] /\ ctr \in [Consumers -> Nat]
      /\ tail \in Nat /\ H \in Nat
    BY ConsumerTypes
<1>1. OthersStay(c)
    BY <1>t DEF ReadCtrC, Goto, OthersStay
<1>2. /\ pc[c] = "deq_ctr" /\ pc'[c] = "deq_val"
      /\ ctr'[c] = q[Slot(counter[c])].ctr /\ counter' = counter
      /\ log' = log /\ tail' = tail
    BY <1>t DEF ReadCtrC, Goto
<1>3. absItems = << >>
  <2>1. 0 < counter[c] /\ counter[c] <= tail + 1
    BY <1>t, <1>2 DEF ConsumerKnows
  <2>2. ~ (counter[c] <= H)
    <3>1. SUFFICES ASSUME counter[c] <= H
                   PROVE  FALSE
      OBVIOUS
    <3>2. q[Slot(counter[c])].ctr >= counter[c]
      BY <1>t, <2>1, <3>1 DEF NoHoles
    <3>3. q[Slot(counter[c])].ctr \in Nat
      BY <1>t, SlotType DEF TypeOK, Entry
    <3>4. QED
      BY <1>t, <1>2, <3>2, <3>3
  <2>3. H = tail
    BY <1>t, <2>1, <2>2 DEF Occupancy
  <2>4. QED
    BY <1>t, <2>3, ItemsLength
<1>4. /\ StageOf(c) = "called" /\ StageOf(c)' = "decided"
      /\ ValueOf(c) = Zero /\ ValueOf(c)' = Zero
    BY <1>t, <1>2 DEF StageOf, Decided, ValueOf
<1>5. absStage[c] = "called" /\ absValue[c] = Zero
    BY <1>t, <1>4 DEF absStage, absValue
<1>6. (pc'[c] \in {"write_head_copy", "got"}) = FALSE
    BY <1>2, SMT
<1>7. /\ absStage' = [absStage EXCEPT ![c] = "decided"]
      /\ absValue' = [absValue EXCEPT ![c] = Zero]
      /\ absOk' = [absOk EXCEPT ![c] = FALSE]
      /\ since' = since
    BY <1>t, <1>1, <1>4, <1>6, AbstractStep
<1>8. absValue' = absValue
    BY <1>5, <1>7 DEF absValue
<1>9. absItems' = absItems
    BY <1>2 DEF absItems
<1>10. QED
    BY <1>2, <1>3, <1>5, <1>7, <1>8, <1>9 DEF Fifo!DeqEmpty, Fifo!Decide

LEMMA ReturnDequeue ==
    ASSUME Around, NEW c \in Consumers,
           (ReadValC(c) /\ ctr[c] < counter[c]) \/ ReturnGot(c)
    PROVE  Fifo!DeqReturn(c)
<1> USE DEF shared, plocal, clocal
<1>t. /\ TypeOK /\ TypeOK' /\ c \in Threads /\ c \notin Producers
      /\ pc \in [Threads -> Locations]
      /\ counter \in [Consumers -> Nat] /\ ctr \in [Consumers -> Nat]
      /\ val \in [Consumers -> Val]
    BY ConsumerTypes
<1>1. OthersStay(c)
    BY <1>t DEF ReadValC, ReturnGot, LeaveDequeue, Goto, OthersStay
<1>2. /\ (pc[c] = "deq_val" /\ ctr[c] < counter[c]) \/ pc[c] = "got"
      /\ pc'[c] = "idle" /\ log' = log /\ tail' = tail
    BY <1>t DEF ReadValC, ReturnGot, LeaveDequeue, Goto
<1>3. /\ StageOf(c) = "decided" /\ StageOf(c)' = "idle" /\ ValueOf(c)' = Zero
    BY <1>t, <1>2 DEF StageOf, Decided, ValueOf
<1>4. absStage[c] = "decided"
    BY <1>t, <1>3 DEF absStage
<1>5. (pc'[c] \in {"write_head_copy", "got"}) = FALSE
    BY <1>2, SMT
<1>6. /\ absStage' = [absStage EXCEPT ![c] = "idle"]
      /\ absValue' = [absValue EXCEPT ![c] = Zero]
      /\ absOk' = [absOk EXCEPT ![c] = FALSE]
      /\ since' = since
    BY <1>t, <1>1, <1>3, <1>5, AbstractStep
<1>7. absItems' = absItems
    BY <1>2 DEF absItems
<1>8. QED
    BY <1>2, <1>4, <1>6, <1>7 DEF Fifo!DeqReturn

\* Every other step of a consumer is internal.
LEMMA InternalDequeue ==
    ASSUME Around, NEW c \in Consumers,
           \/ ReadTailC(c) /\ pc[c] # "idle"
           \/ ReadCtrC(c) /\ ~ (ctr'[c] < counter[c])
           \/ ReadValC(c) /\ ~ (ctr[c] < counter[c])
           \/ CasTail(c) /\ pc'[c] # "got"
    PROVE  UNCHANGED Fifo!vars
<1> USE DEF shared, plocal, clocal
<1>t. /\ TypeOK /\ TypeOK' /\ c \in Threads /\ c \notin Producers
      /\ pc \in [Threads -> Locations]
      /\ counter \in [Consumers -> Nat] /\ ctr \in [Consumers -> Nat]
      /\ val \in [Consumers -> Val]
    BY ConsumerTypes
<1>1. OthersStay(c)
    BY <1>t DEF ReadTailC, ReadCtrC, ReadValC, CasTail, LeaveDequeue, Goto, OthersStay
<1>2. log' = log /\ tail' = tail
    BY <1>t DEF ReadTailC, ReadCtrC, ReadValC, CasTail, Goto
<1>3. /\ \/ pc[c] \in {"deq_tail", "deq_ctr", "deq_cas"}
         \/ pc[c] = "deq_val" /\ ~ (ctr[c] < counter[c])
      /\ \/ pc'[c] \in {"deq_tail", "deq_ctr", "deq_cas"}
         \/ pc'[c] = "deq_val" /\ ~ (ctr'[c] < counter'[c])
    BY <1>t DEF ReadTailC, ReadCtrC, ReadValC, CasTail, LeaveDequeue, Goto
<1>4. StageOf(c)' = StageOf(c) /\ ValueOf(c)' = ValueOf(c)
    BY <1>t, <1>3 DEF StageOf, Decided, ValueOf
<1>5. QED
    BY <1>t, <1>1, <1>2, <1>3, <1>4, StutterStep

-----------------------------------------------------------------------------
(* Refinement *)

LEMMA InitRefines == Init => Fifo!Init
<1> SUFFICES ASSUME Init
             PROVE  Fifo!Init
    OBVIOUS
<1>1. absItems = << >>
    BY DEF Init, absItems
<1>2. absStage = [t \in Threads |-> "idle"]
    BY DEF Init, absStage, StageOf
<1>3. absValue = [t \in Threads |-> Zero]
    BY DEF Init, absValue, ValueOf
<1>4. absOk = [t \in Threads |-> FALSE]
  <2>1. ASSUME NEW t \in Threads
        PROVE  (pc[t] \in {"write_head_copy", "got"}) = FALSE
    <3>1. pc[t] = "idle"
      BY DEF Init
    <3>2. QED
      BY <3>1, SMT
  <2>2. QED
    BY <2>1, Zenon DEF absOk
<1>5. QED
    BY <1>1, <1>2, <1>3, <1>4 DEF Init, Fifo!Init, Fifo!Threads, Threads

LEMMA NextRefines == Around /\ [Next]_vars => [Fifo!Next]_(Fifo!vars)
<1> SUFFICES ASSUME Around, [Next]_vars
             PROVE  [Fifo!Next]_(Fifo!vars)
    OBVIOUS
<1>1. ASSUME NEW p \in Producers, NEW v \in Val, ReadHeadCopy(p, v)
      PROVE  Fifo!Next
    BY <1>1, InvokeEnqueue DEF Fifo!Next, Fifo!Enq
<1>2. ASSUME NEW p \in Producers, Produce(p)
      PROVE  Fifo!Next \/ UNCHANGED Fifo!vars
  <2>1. CASE CasEntry(p) /\ pc'[p] = "write_head_copy"
    BY <2>1, CommitEnqueue DEF Fifo!Next, Fifo!Enq
  <2>2. CASE /\ ReadTail(p) \/ CompareTailCopy(p) \/ WriteTailCopy(p)
             /\ pc'[p] = "refused"
    BY <2>2, RefuseEnqueue DEF Fifo!Next, Fifo!Enq
  <2>3. CASE WriteHeadCopy(p) \/ ReturnRefused(p)
    BY <2>3, ReturnEnqueue DEF Fifo!Next, Fifo!Enq
  <2>4. CASE \/ ReadTailCopy(p) \/ ReadVal(p) \/ ReadCtr(p)
             \/ CasEntry(p) /\ pc'[p] # "write_head_copy"
             \/ /\ ReadTail(p) \/ CompareTailCopy(p) \/ WriteTailCopy(p)
                /\ pc'[p] # "refused"
    BY <2>4, InternalEnqueue
  <2>5. QED
    BY <1>2, <2>1, <2>2, <2>3, <2>4 DEF Produce
<1>3. ASSUME NEW c \in Consumers, Consume(c)
      PROVE  Fifo!Next \/ UNCHANGED Fifo!vars
  <2>1. CASE ReadTailC(c) /\ pc[c] = "idle"
    BY <2>1, InvokeDequeue DEF Fifo!Next, Fifo!Deq
  <2>2. CASE ReadCtrC(c) /\ ctr'[c] < counter[c]
    BY <2>2, FindEmpty DEF Fifo!Next, Fifo!Deq
  <2>3. CASE CasTail(c) /\ pc'[c] = "got"
    BY <2>3, CommitDequeue DEF Fifo!Next, Fifo!Deq
  <2>4. CASE (ReadValC(c) /\ ctr[c] < counter[c]) \/ ReturnGot(c)
    BY <2>4, ReturnDequeue DEF Fifo!Next, Fifo!Deq
  <2>5. CASE \/ ReadTailC(c) /\ pc[c] # "idle"
             \/ ReadCtrC(c) /\ ~ (ctr'[c] < counter[c])
             \/ ReadValC(c) /\ ~ (ctr[c] < counter[c])
             \/ CasTail(c) /\ pc'[c] # "got"
    BY <2>5, InternalDequeue
  <2>6. QED
    BY <1>3, <2>1, <2>2, <2>3, <2>4, <2>5 DEF Consume
<1>4. CASE UNCHANGED vars
  <2>1. /\ absStage' = absStage /\ absValue' = absValue /\ absOk' = absOk
        /\ absItems' = absItems /\ tail' = tail /\ since' = since
    BY <1>4 DEF vars, shared, plocal, clocal, absStage, absValue, absOk, absItems,
                StageOf, ValueOf, Decided
  <2>2. QED
    BY <2>1 DEF Fifo!vars
<1>5. QED
    BY <1>1, <1>2, <1>3, <1>4 DEF Next

\* Every behaviour of the lock-free ring, whatever its size and whoever
\* shares it, is one of the first-in first-out queue whose calls each take
\* effect in one step: no value is lost, duplicated or reordered, and 0 means
\* an empty queue, a full one, or a producer overtaken in all its rounds.
THEOREM Refinement == Spec => ImplementsFifo
<1>1. RingInv /\ RingInv' /\ [Next]_vars => [Fifo!Next]_(Fifo!vars)
    BY NextRefines DEF Around
<1>2. QED
    BY InitRefines, RingInvariant, <1>1, PTL DEF Spec, ImplementsFifo, Fifo!Spec
=============================================================================
