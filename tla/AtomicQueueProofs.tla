--------------------------- MODULE AtomicQueueProofs ---------------------------
(***************************************************************************)
(* Theorems about AtomicQueue, for every number of threads, all sizes and  *)
(* every bound on the values that are sent: the locks and the chain of     *)
(* subqueues, by the invariant IInv; which subqueues are freed, by OInv,   *)
(* and that with a single consumer or a single producer none is used after *)
(* that; and what happens to the values, by VInv.  The theorems about      *)
(* freed subqueues assume that malloc() leaves a null pointer in q->freeq. *)
(***************************************************************************)
EXTENDS AtomicQueue, TLAPS

-----------------------------------------------------------------------------
(* The inductive invariant *)

\* Where a thread looks at a subqueue.
Looking == {"e_rcu_load", "e_rcu_store", "e_sub", "e_unlock", "e_unlock_full",
            "e_lock", "e_next", "e_grow", "e_set_enq", "e_register", "e_set_count"}
LookingC == {"d_sub", "d_freeq", "d_free_count", "d_free_safe", "d_free_scan",
             "d_free_lock", "d_free", "d_next", "d_check_freeq",
             "d_dequeue_count", "d_retire_safe", "d_retire_scan",
             "d_retire_lock", "d_set_deq", "d_register", "d_set_free_count",
             "d_advance"}

\* Where a consumer has seen that its subqueue has a successor.
Leaving == {"d_check_freeq", "d_dequeue_count", "d_retire_safe",
            "d_retire_scan", "d_retire_lock", "d_set_deq", "d_register",
            "d_set_free_count"}

\* Where a thread holds a count that has been registered.
Counted == {"d_free_safe", "d_free_scan", "d_retire_safe", "d_retire_scan",
            "e_set_count", "d_set_free_count"}

\* What a thread may conclude wherever it is: the chain only grows and counts
\* only rise, so others cannot make it false.
Local(t) ==
    /\ pc[t] \in Looking => t \in Producers /\ subq[t] \in 1 .. enq
    /\ pc[t] \in LookingC => t \in Consumers /\ subq[t] \in 1 .. last
    /\ pc[t] \in {"d_rcu_load", "d_rcu_store"} => t \in Consumers
    /\ pc[t] \in {"e_rcu_store", "d_rcu_store"} => num[t] \in 1 .. rcu_count
    /\ pc[t] \in Counted => num[t] < rcu_count
    /\ pc[t] \in Leaving => succ[t] = subq[t] + 1 /\ succ[t] <= last
    /\ pc[t] = "d_advance" => succ[t] \in {Null, subq[t] + 1} /\ succ[t] <= last
    /\ pc[t] \in {"d_free_scan", "d_retire_scan"} => slot[t] # 0
    /\ t \in Producers /\ pc[t] # "idle" => sent[t] # 0

\* What it may conclude because it holds the lock.
Held(t) ==
    /\ pc[t] = "e_grow" => subq[t] = last /\ last < MaxSub
    /\ pc[t] = "e_set_enq" => succ[t] = last /\ enq = last - 1
    /\ pc[t] \in {"e_set_enq", "e_register", "e_set_count"} => subq[t] = last - 1
    /\ pc[t] = "d_set_deq" => subq[t] = deq
    /\ pc[t] \in {"d_register", "d_set_free_count"} => subq[t] = deq - 1

\* Subqueues that were added or left without a count for it yet.
Unregistered == {"e_set_enq", "e_register", "d_register"}

\* Two registrations for each subqueue, and no count from the future.
Counts ==
    /\ rcu_count <= last + deq - 1
    /\ (\E t \in Threads : pc[t] \in Unregistered) => rcu_count <= last + deq - 2
    /\ \A k \in Subs : dequeue_count[k] < rcu_count /\ free_count[k] < rcu_count
    /\ rcu_cached < rcu_count

IInv ==
    /\ TypeOK
    /\ LockInv
    /\ \A t \in Threads : Local(t)
    /\ \A t \in Threads : Held(t)
    /\ ChainInv
    /\ Counts

-----------------------------------------------------------------------------
(* Frames *)

LEMMA ThreadFacts ==
    /\ N \in Nat /\ Threads = 1 .. N /\ Null \notin Threads
    /\ Producers \subseteq Threads /\ Consumers \subseteq Threads
    /\ Producers \cap Consumers = {}
BY ThreadAssumption DEF Threads, Null

LEMMA Bounds ==
    /\ MaxSub \in Nat \ {0} /\ MaxSend \in Nat
    /\ Unlocked \in Nat /\ Unlocked = 2 * MaxSub + 2
    /\ Null = 0 /\ Garbage = MaxSub + 1 /\ Subs = 1 .. MaxSub
BY SizeAssumption DEF Unlocked, Null, Garbage, Subs

LEMMA Labels ==
    /\ {"idle", "e_retry", "e_rcu_load", "e_rcu_store", "e_sub", "e_unlock",
        "e_unlock_full", "e_lock", "e_next", "e_grow", "e_set_enq", "e_register",
        "e_set_count"} \subseteq Locations
    /\ {"d_rcu_load", "d_rcu_store", "d_read_deq", "d_sub", "d_freeq",
        "d_free_count", "d_free_safe", "d_free_scan", "d_free_lock", "d_free",
        "d_next", "d_check_freeq", "d_dequeue_count", "d_retire_safe",
        "d_retire_scan", "d_retire_lock", "d_set_deq", "d_register",
        "d_set_free_count", "d_advance", "d_unlock"} \subseteq Locations
BY DEF Locations

LEMMA GotoFacts ==
    ASSUME TypeOK, NEW t \in Threads, NEW l \in Locations, Goto(t, l)
    PROVE  /\ pc' \in [Threads -> Locations] /\ pc'[t] = l
           /\ \A u \in Threads \ {t} : pc'[u] = pc[u]
BY DEF TypeOK, Goto

\* Assignments to a thread's local variables.
LEMMA SubqFacts ==
    ASSUME TypeOK, NEW t \in Threads, NEW x \in Subs \union {Null}, subq' = Set(subq, t, x)
    PROVE  /\ subq' \in [Threads -> Subs \union {Null}] /\ subq'[t] = x
           /\ \A u \in Threads \ {t} : subq'[u] = subq[u]
BY DEF TypeOK, Set

LEMMA SuccFacts ==
    ASSUME TypeOK, NEW t \in Threads, NEW x \in Subs \union {Null}, succ' = Set(succ, t, x)
    PROVE  /\ succ' \in [Threads -> Subs \union {Null}] /\ succ'[t] = x
           /\ \A u \in Threads \ {t} : succ'[u] = succ[u]
BY DEF TypeOK, Set

LEMMA NumFacts ==
    ASSUME TypeOK, NEW t \in Threads, NEW x \in 0 .. Unlocked - 1, num' = Set(num, t, x)
    PROVE  /\ num' \in [Threads -> 0 .. Unlocked - 1] /\ num'[t] = x
           /\ \A u \in Threads \ {t} : num'[u] = num[u]
BY DEF TypeOK, Set

LEMMA SlotFacts ==
    ASSUME TypeOK, NEW t \in Threads, NEW x \in 0 .. N + 1, slot' = Set(slot, t, x)
    PROVE  /\ slot' \in [Threads -> 0 .. N + 1] /\ slot'[t] = x
           /\ \A u \in Threads \ {t} : slot'[u] = slot[u]
BY DEF TypeOK, Set

LEMMA RcuUnlockFacts ==
    ASSUME TypeOK, NEW t \in Threads, rcu' = Set(rcu, t, Unlocked)
    PROVE  rcu' \in [Threads -> 1 .. Unlocked]
<1>1. Unlocked \in 1 .. Unlocked
    BY Bounds
<1>2. QED
    BY <1>1 DEF TypeOK, Set

\* The numbers a thread works with.
LEMMA Numbers ==
    ASSUME TypeOK, NEW t \in Threads
    PROVE  /\ enq \in 1 .. MaxSub /\ deq \in 1 .. MaxSub /\ last \in 1 .. MaxSub
           /\ rcu_count \in 1 .. Unlocked - 1 /\ rcu_cached \in 0 .. Unlocked - 1
           /\ subq[t] \in 0 .. MaxSub /\ succ[t] \in 0 .. MaxSub
           /\ num[t] \in 0 .. Unlocked - 1
           /\ slot[t] \in 0 .. N + 1
<1>1. Subs \union {Null} \subseteq 0 .. MaxSub /\ Subs = 1 .. MaxSub
    BY Bounds
<1>2. subq[t] \in Subs \union {Null} /\ succ[t] \in Subs \union {Null}
    BY DEF TypeOK
<1>3. num[t] \in 0 .. Unlocked - 1 /\ slot[t] \in 0 .. N + 1
    BY DEF TypeOK
<1>4. /\ enq \in Subs /\ deq \in Subs /\ last \in Subs
      /\ rcu_count \in 1 .. Unlocked - 1 /\ rcu_cached \in 0 .. Unlocked - 1
    BY DEF TypeOK
<1>5. QED
    BY <1>1, <1>2, <1>3, <1>4

\* A step leaves the other threads where they are.
Frame(t) ==
    \A u \in Threads \ {t} :
        /\ pc'[u] = pc[u] /\ subq'[u] = subq[u] /\ num'[u] = num[u]
        /\ succ'[u] = succ[u] /\ slot'[u] = slot[u]
        /\ u \in Producers => sent'[u] = sent[u]

LEMMA LocalFrame ==
    ASSUME TypeOK, TypeOK', NEW t \in Threads, NEW u \in Threads \ {t}, Local(u), Frame(t),
           last <= last', enq <= enq', rcu_count <= rcu_count'
    PROVE  Local(u)'
<1>1. /\ pc'[u] = pc[u] /\ subq'[u] = subq[u] /\ num'[u] = num[u]
      /\ succ'[u] = succ[u] /\ slot'[u] = slot[u]
      /\ u \in Producers => sent'[u] = sent[u]
    BY DEF Frame
<1>2. /\ last \in Nat /\ last' \in Nat /\ enq \in Nat /\ enq' \in Nat
      /\ rcu_count \in Nat /\ rcu_count' \in Nat /\ num[u] \in Nat
      /\ subq[u] \in Nat /\ succ[u] \in Nat
  <2>1. u \in Threads
    OBVIOUS
  <2>2. /\ last' \in Subs /\ enq' \in Subs /\ rcu_count' \in 1 .. Unlocked - 1
    BY DEF TypeOK
  <2>3. /\ last' \in Nat /\ enq' \in Nat /\ rcu_count' \in Nat
    BY <2>2, Bounds
  <2>4. last \in Nat /\ enq \in Nat /\ rcu_count \in Nat
    BY <2>1, Numbers
  <2>5. num[u] \in Nat /\ subq[u] \in Nat /\ succ[u] \in Nat
    BY <2>1, Numbers
  <2>6. QED
    BY <2>3, <2>4, <2>5
<1>3. QED
    BY <1>1, <1>2 DEF Local

\* A step outside the critical section that changes neither the chain nor the
\* counts: nothing but the thread's own conclusions has to be shown.
LEMMA QuietStep ==
    ASSUME IInv, TypeOK', NEW t \in Threads, Frame(t), Local(t)',
           pc[t] \notin Critical, pc'[t] \notin Critical,
           UNCHANGED <<enq, deq, lock, last, next, dequeue_count, free_count, rcu_count>>,
           rcu_cached' < rcu_count
    PROVE  IInv'
<1>1. \A u \in Threads \ {t} : Local(u)'
  <2> TAKE u \in Threads \ {t}
  <2>1. last <= last' /\ enq <= enq' /\ rcu_count <= rcu_count'
    BY Bounds DEF IInv, TypeOK
  <2>2. QED
    BY <2>1, LocalFrame DEF IInv
<1>2. \A u \in Threads : pc[u] \in Critical \/ pc'[u] \in Critical => pc'[u] = pc[u]
    BY DEF Frame
<1>3. LockInv'
    BY <1>2 DEF LockInv, IInv
<1>4. \A u \in Threads : Held(u)'
  <2> TAKE u \in Threads
  <2>1. CASE u = t
    BY <2>1 DEF Held, Critical
  <2>2. CASE u # t
    BY <2>2 DEF Held, Frame, IInv
  <2>3. QED
    BY <2>1, <2>2
<1>5. \A u \in Threads : pc'[u] \in Unregistered <=> pc[u] \in Unregistered
    BY <1>2 DEF Unregistered, Critical
<1>6. \A u \in Producers : pc'[u] = "e_set_enq" <=> pc[u] = "e_set_enq"
    BY <1>2, ThreadFacts DEF Critical
<1>7. ChainInv'
    BY <1>6 DEF ChainInv, IInv
<1>8. Counts'
    BY <1>5 DEF Counts, IInv
<1>9. QED
    BY <1>1, <1>3, <1>4, <1>7, <1>8 DEF IInv

-----------------------------------------------------------------------------
(* The steps outside the critical section *)

LEMMA KeepReadEnq ==
    ASSUME IInv, NEW p \in Producers, ReadEnq(p)
    PROVE  IInv'
<1> USE ThreadFacts, Bounds DEF IInv
<1>1. p \in Threads /\ Goto(p, "e_rcu_load") /\ pc[p] \in {"idle", "e_retry"}
    BY DEF ReadEnq, At
<1>2. /\ pc' \in [Threads -> Locations] /\ pc'[p] = "e_rcu_load"
      /\ \A u \in Threads \ {p} : pc'[u] = pc[u]
    BY <1>1, Labels, GotoFacts
<1>3. subq' \in [Threads -> Subs \union {Null}] /\ subq'[p] = enq
      /\ \A u \in Threads \ {p} : subq'[u] = subq[u]
  <2>1. subq' = Set(subq, p, enq) /\ enq \in Subs \union {Null} /\ p \in Threads
    BY <1>1 DEF ReadEnq, TypeOK
  <2>2. QED
    BY <2>1, SubqFacts
<1>4. /\ sent' \in [Producers -> 0 .. MaxSend] /\ sent'[p] # 0
      /\ \A u \in Producers \ {p} : sent'[u] = sent[u]
  <2>1. sent[p] \in 0 .. MaxSend /\ sent \in [Producers -> 0 .. MaxSend]
    BY DEF TypeOK
  <2>2. CASE pc[p] = "e_retry" /\ sent' = sent
    BY <1>1, <2>1, <2>2 DEF Local
  <2>3. CASE sent[p] < MaxSend /\ sent' = Set(sent, p, sent[p] + 1)
    <3>1. sent[p] + 1 \in 1 .. MaxSend
        BY <2>1, <2>3
    <3>2. QED
        BY <2>1, <2>3, <3>1 DEF Set
  <2>4. QED
    BY <2>2, <2>3 DEF ReadEnq, At
<1>5. TypeOK'
    BY <1>2, <1>3, <1>4 DEF ReadEnq, TypeOK, queue, subs, memory, rcuvars
<1>6. Frame(p)
    BY <1>2, <1>3, <1>4 DEF Frame, ReadEnq
<1>7. Local(p)'
    BY <1>2, <1>3, <1>4 DEF Local, Looking, LookingC, Counted, Leaving, ReadEnq, TypeOK, queue
<1>8. QED
    BY <1>1, <1>2, <1>5, <1>6, <1>7, QuietStep
       DEF ReadEnq, Critical, Counts, queue, subs, memory, rcuvars

LEMMA KeepRcuLoad ==
    ASSUME IInv, NEW t \in Threads, RcuLoad(t)
    PROVE  IInv'
<1> USE ThreadFacts, Bounds DEF IInv
<1> DEFINE l == IF t \in Producers THEN "e_rcu_store" ELSE "d_rcu_store"
<1>1. Goto(t, l) /\ pc[t] \in {"e_rcu_load", "d_rcu_load"} /\ l \in Locations
    BY Labels DEF RcuLoad, At
<1>2. /\ pc' \in [Threads -> Locations] /\ pc'[t] = l
      /\ \A u \in Threads \ {t} : pc'[u] = pc[u]
    BY <1>1, GotoFacts
<1>3. num' \in [Threads -> 0 .. Unlocked - 1] /\ num'[t] = rcu_count
      /\ \A u \in Threads \ {t} : num'[u] = num[u]
  <2>1. num' = Set(num, t, rcu_count) /\ rcu_count \in 0 .. Unlocked - 1
    BY DEF RcuLoad, TypeOK
  <2>2. QED
    BY <2>1, NumFacts
<1>5. TypeOK'
    BY <1>2, <1>3 DEF RcuLoad, TypeOK, queue, subs, memory, rcuvars, history
<1>6. Frame(t) /\ sent' = sent /\ (t \in Producers => sent[t] # 0)
    BY <1>1, <1>2, <1>3 DEF Frame, RcuLoad, history, Local
<1>7. Local(t)'
  <2>1. rcu_count \in 1 .. rcu_count
    BY DEF TypeOK
  <2>2. CASE t \in Producers
    <3>1. pc[t] \in Looking /\ subq[t] \in 1 .. enq
        BY <1>1, <2>2 DEF Looking, Local
    <3>2. subq' = subq /\ enq' = enq /\ rcu_count' = rcu_count /\ pc'[t] = "e_rcu_store"
        BY <1>2, <2>2 DEF RcuLoad, queue, rcuvars
    <3>3. QED
        BY <1>3, <1>6, <2>1, <2>2, <3>1, <3>2 DEF Local, Looking, LookingC, Counted, Leaving
  <2>3. CASE t \notin Producers
    <3>1. t \in Consumers /\ rcu_count' = rcu_count /\ pc'[t] = "d_rcu_store"
        BY <1>2, <2>3 DEF Threads, RcuLoad, rcuvars
    <3>2. QED
        BY <1>3, <1>6, <2>1, <3>1 DEF Local, Looking, LookingC, Counted, Leaving
  <2>4. QED
    BY <2>2, <2>3
<1>8. QED
    BY <1>1, <1>2, <1>5, <1>6, <1>7, QuietStep
       DEF RcuLoad, Critical, Counts, queue, subs, memory, rcuvars

LEMMA KeepRcuStore ==
    ASSUME IInv, NEW t \in Threads, RcuStore(t)
    PROVE  IInv'
<1> USE ThreadFacts, Bounds DEF IInv
<1> DEFINE l == IF t \in Producers THEN "e_sub" ELSE "d_read_deq"
<1>1. Goto(t, l) /\ pc[t] \in {"e_rcu_store", "d_rcu_store"} /\ l \in Locations
    BY Labels DEF RcuStore, At
<1>2. /\ pc' \in [Threads -> Locations] /\ pc'[t] = l
      /\ \A u \in Threads \ {t} : pc'[u] = pc[u]
    BY <1>1, GotoFacts
<1>3. num' \in [Threads -> 0 .. Unlocked - 1]
      /\ \A u \in Threads \ {t} : num'[u] = num[u]
  <2>1. num' = Set(num, t, 0) /\ 0 \in 0 .. Unlocked - 1
    BY DEF RcuStore
  <2>2. QED
    BY <2>1, NumFacts
<1>4. rcu' \in [Threads -> 1 .. Unlocked]
  <2>1. num[t] \in 1 .. Unlocked
    BY <1>1, Numbers DEF Local
  <2>2. QED
    BY <2>1 DEF RcuStore, Set, TypeOK
<1>5. since' \in [Producers -> Nat]
  <2>1. CASE t \in Producers
    <3>1. subq[t] \in Subs
        BY <1>1, <2>1, Numbers DEF Local, Looking
    <3>2. tail[subq[t]] \in Nat
        BY <3>1 DEF TypeOK
    <3>3. QED
        BY <2>1, <3>2 DEF RcuStore, Set, TypeOK
  <2>2. CASE t \notin Producers
    BY <2>2 DEF RcuStore, TypeOK
  <2>3. QED
    BY <2>1, <2>2
<1>6. TypeOK'
    BY <1>2, <1>3, <1>4, <1>5 DEF RcuStore, TypeOK, queue, subs, memory, history
<1>7. Frame(t) /\ sent' = sent /\ (t \in Producers => sent[t] # 0)
    BY <1>1, <1>2, <1>3 DEF Frame, RcuStore, history, Local
<1>8. Local(t)'
  <2>1. CASE t \in Producers
    <3>1. pc[t] \in Looking /\ subq[t] \in 1 .. enq
        BY <1>1, <2>1 DEF Looking, Local
    <3>2. subq' = subq /\ enq' = enq /\ pc'[t] = "e_sub"
        BY <1>2, <2>1 DEF RcuStore, queue
    <3>3. QED
        BY <1>7, <2>1, <3>1, <3>2 DEF Local, Looking, LookingC, Counted, Leaving
  <2>2. CASE t \notin Producers
    <3>1. pc'[t] = "d_read_deq"
        BY <1>2, <2>2
    <3>2. QED
        BY <2>2, <3>1 DEF Local, Looking, LookingC, Counted, Leaving
  <2>3. QED
    BY <2>1, <2>2
<1>9. QED
    BY <1>1, <1>2, <1>6, <1>7, <1>8, QuietStep
       DEF RcuStore, Critical, Counts, queue, subs, memory

LEMMA KeepSubEnqueue ==
    ASSUME IInv, NEW p \in Producers, SubEnqueue(p)
    PROVE  IInv'
<1> USE ThreadFacts, Bounds DEF IInv
<1>1. PICK l \in {"e_unlock", "e_unlock_full"} : Goto(p, l)
    BY DEF SubEnqueue
<1>2. /\ pc' \in [Threads -> Locations] /\ pc'[p] = l
      /\ \A u \in Threads \ {p} : pc'[u] = pc[u]
    BY <1>1, Labels, GotoFacts
<1>3. pc[p] = "e_sub" /\ subq[p] \in 1 .. enq
    BY DEF SubEnqueue, Deref, At, Local, Looking
<1>4. subq[p] \in Subs /\ sent[p] \in 0 .. MaxSend
    BY <1>3, Numbers DEF TypeOK
<1>5. Sending(p) \in Values /\ sent[p] # 0
    BY <1>3, <1>4 DEF Sending, Values, Local
<1>6. items' \in [Subs -> Seq(Values)]
  <2>1. items \in [Subs -> Seq(Values)]
    BY DEF TypeOK
  <2>2. items[subq[p]] \in Seq(Values)
    BY <1>4, <2>1
  <2>3. Append(items[subq[p]], Sending(p)) \in Seq(Values)
    BY <1>5, <2>2
  <2>4. CASE items' = [items EXCEPT ![subq[p]] = Append(items[subq[p]], Sending(p))]
    BY <1>4, <2>1, <2>3, <2>4
  <2>5. CASE items' = items
    BY <2>1, <2>5
  <2>6. QED
    BY <2>4, <2>5 DEF SubEnqueue
<1>7. since' \in [Producers -> Nat]
    BY DEF SubEnqueue, Set, TypeOK
<1>8. TypeOK'
    BY <1>2, <1>6, <1>7 DEF SubEnqueue, TypeOK, queue, memory, rcuvars, history
<1>9. Frame(p)
    BY <1>2 DEF Frame, SubEnqueue, history
<1>10. Local(p)'
  <2>1. subq' = subq /\ enq' = enq /\ sent' = sent
    BY DEF SubEnqueue, queue, history
  <2>2. QED
    BY <1>2, <1>3, <1>5, <2>1 DEF Local, Looking, LookingC, Counted, Leaving
<1>11. QED
    BY <1>2, <1>3, <1>8, <1>9, <1>10, QuietStep
       DEF SubEnqueue, Critical, Counts, queue, memory, rcuvars

LEMMA KeepEnqUnlock ==
    ASSUME IInv, NEW p \in Producers, EnqUnlock(p)
    PROVE  IInv'
<1> USE ThreadFacts, Bounds DEF IInv
<1>1. /\ pc[p] \in {"e_unlock", "e_unlock_full"}
      /\ \/ Goto(p, "idle") /\ subq' = Set(subq, p, Null)
         \/ Goto(p, "e_lock") /\ subq' = subq
    BY DEF EnqUnlock, At
<1>2. PICK l \in {"idle", "e_lock"} : Goto(p, l) /\ (l = "e_lock" => subq' = subq)
    BY <1>1
<1>3. /\ pc' \in [Threads -> Locations] /\ pc'[p] = l
      /\ \A u \in Threads \ {p} : pc'[u] = pc[u]
    BY <1>2, Labels, GotoFacts
<1>4. subq' \in [Threads -> Subs \union {Null}]
      /\ \A u \in Threads \ {p} : subq'[u] = subq[u]
  <2>1. CASE subq' = subq
    BY <2>1 DEF TypeOK
  <2>2. CASE subq' = Set(subq, p, Null)
    BY <2>2, SubqFacts
  <2>3. QED
    BY <1>1, <2>1, <2>2
<1>5. rcu' \in [Threads -> 1 .. Unlocked]
    BY RcuUnlockFacts DEF EnqUnlock
<1>6. TypeOK'
    BY <1>3, <1>4, <1>5 DEF EnqUnlock, TypeOK, queue, subs, memory, history
<1>7. Frame(p)
    BY <1>3, <1>4 DEF Frame, EnqUnlock, history
<1>8. Local(p)'
  <2>1. enq' = enq /\ sent' = sent /\ subq[p] \in 1 .. enq /\ sent[p] # 0
    BY <1>1 DEF EnqUnlock, queue, history, Local, Looking
  <2>2. QED
    BY <1>2, <1>3, <2>1 DEF Local, Looking, LookingC, Counted, Leaving
<1>9. QED
    BY <1>1, <1>2, <1>3, <1>6, <1>7, <1>8, QuietStep
       DEF EnqUnlock, Critical, Counts, queue, subs, memory

-----------------------------------------------------------------------------
(* dequeue() outside the critical section *)

LEMMA KeepDeqCall ==
    ASSUME IInv, NEW c \in Consumers, DeqCall(c)
    PROVE  IInv'
<1> USE ThreadFacts, Bounds DEF IInv
<1>1. c \in Threads /\ c \notin Producers /\ pc[c] = "idle"
    BY DEF DeqCall, Deref, At
<1>2. Goto(c, "d_rcu_load")
    BY DEF DeqCall
<1>3. /\ pc' \in [Threads -> Locations] /\ pc'[c] = "d_rcu_load"
      /\ \A u \in Threads \ {c} : pc'[u] = pc[u]
    BY <1>1, <1>2, Labels, GotoFacts
<1>4. TypeOK'
    BY <1>3 DEF DeqCall, TypeOK, queue, subs, memory, rcuvars, locals, history
<1>5. Frame(c)
    BY <1>1, <1>3 DEF Frame, DeqCall, locals, history
<1>6. Local(c)'
    BY <1>1, <1>3 DEF Local, Looking, LookingC, Counted, Leaving
<1>7. QED
    BY <1>1, <1>3, <1>4, <1>5, <1>6, QuietStep
       DEF DeqCall, Critical, Counts, queue, subs, memory, rcuvars

LEMMA KeepReadDeq ==
    ASSUME IInv, NEW c \in Consumers, ReadDeq(c)
    PROVE  IInv'
<1> USE ThreadFacts, Bounds DEF IInv
<1>1. c \in Threads /\ c \notin Producers /\ pc[c] = "d_read_deq"
    BY DEF ReadDeq, Deref, At
<1>2. Goto(c, "d_sub")
    BY DEF ReadDeq
<1>3. /\ pc' \in [Threads -> Locations] /\ pc'[c] = "d_sub"
      /\ \A u \in Threads \ {c} : pc'[u] = pc[u]
    BY <1>1, <1>2, Labels, GotoFacts
<1>4. subq' \in [Threads -> Subs \union {Null}] /\ subq'[c] = deq
      /\ \A u \in Threads \ {c} : subq'[u] = subq[u]
  <2>1. subq' = Set(subq, c, deq) /\ deq \in Subs \union {Null}
    BY DEF ReadDeq, TypeOK
  <2>2. QED
    BY <1>1, <2>1, SubqFacts
<1>5. enq <= last
    BY <1>1, Numbers DEF ChainInv
<1>6. TypeOK'
    BY <1>3, <1>4, <1>5 DEF ReadDeq, TypeOK, queue, subs, memory, rcuvars, locals, history
<1>7. Frame(c)
    BY <1>1, <1>3, <1>4, <1>5 DEF Frame, ReadDeq, locals, history
<1>8. Local(c)'
  <2>1. deq \in 1 .. last /\ last' = last
    BY <1>1, Numbers, <1>5 DEF ChainInv, ReadDeq, memory
  <2>2. QED
    BY <1>1, <1>3, <1>4, <1>5, <2>1 DEF Local, Looking, LookingC, Counted, Leaving
<1>9. QED
    BY <1>1, <1>3, <1>4, <1>5, <1>6, <1>7, <1>8, QuietStep
       DEF ReadDeq, Critical, Counts, queue, subs, memory, rcuvars

LEMMA KeepReadFreeq ==
    ASSUME IInv, NEW c \in Consumers, ReadFreeq(c)
    PROVE  IInv'
<1> USE ThreadFacts, Bounds DEF IInv
<1>1. c \in Threads /\ c \notin Producers /\ pc[c] = "d_freeq"
    BY DEF ReadFreeq, Deref, At
<1>2. PICK l \in {"d_free_count", "d_next"} : Goto(c, l)
    BY DEF ReadFreeq
<1>3. /\ pc' \in [Threads -> Locations] /\ pc'[c] = l
      /\ \A u \in Threads \ {c} : pc'[u] = pc[u]
    BY <1>1, <1>2, Labels, GotoFacts
<1>4. TypeOK'
    BY <1>3 DEF ReadFreeq, TypeOK, queue, subs, memory, rcuvars, locals, history
<1>5. Frame(c)
    BY <1>1, <1>3 DEF Frame, ReadFreeq, locals, history
<1>6. Local(c)'
  <2>1. pc[c] \in LookingC => subq[c] \in 1 .. last
    BY DEF Local
  <2>2. subq' = subq /\ last' = last /\ rcu_count' = rcu_count
    BY DEF ReadFreeq, locals, memory, rcuvars
  <2>3. QED
    BY <1>1, <1>3, <2>1, <2>2 DEF Local, Looking, LookingC, Counted, Leaving
<1>7. QED
    BY <1>1, <1>3, <1>4, <1>5, <1>6, QuietStep
       DEF ReadFreeq, Critical, Counts, queue, subs, memory, rcuvars

\* What a consumer knows of the subqueue it looks at.
AtSub(c) ==
    /\ subq[c] \in Subs /\ subq[c] \in 1 .. last
    /\ free_count[subq[c]] \in 0 .. Unlocked - 1 /\ free_count[subq[c]] < rcu_count
    /\ dequeue_count[subq[c]] \in 0 .. Unlocked - 1 /\ dequeue_count[subq[c]] < rcu_count
    /\ next[subq[c]] \in Subs \union {Null}
    /\ next[subq[c]] # Null => next[subq[c]] = subq[c] + 1 /\ next[subq[c]] <= last

LEMMA Looks ==
    ASSUME IInv, NEW c \in Consumers, pc[c] \in LookingC
    PROVE  AtSub(c)
<1> USE ThreadFacts, Bounds DEF IInv
<1>1. subq[c] \in 1 .. last /\ last \in 1 .. MaxSub
    BY Numbers DEF Local
<1>2. subq[c] \in Subs
    BY <1>1
<1>3. free_count[subq[c]] \in 0 .. Unlocked - 1 /\ dequeue_count[subq[c]] \in 0 .. Unlocked - 1
    BY <1>2 DEF TypeOK
<1>4. free_count[subq[c]] < rcu_count /\ dequeue_count[subq[c]] < rcu_count
    BY <1>2 DEF Counts
<1>5. next[subq[c]] = IF subq[c] < last THEN subq[c] + 1 ELSE Null
    BY <1>2 DEF ChainInv
<1>6. next[subq[c]] \in Subs \union {Null} /\ (next[subq[c]] # Null => next[subq[c]] = subq[c] + 1 /\ next[subq[c]] <= last)
    BY <1>1, <1>5
<1>7. QED
    BY <1>1, <1>2, <1>3, <1>4, <1>6 DEF AtSub

\* One round of the scan.
LEMMA ScanFacts ==
    ASSUME IInv, NEW c \in Threads, NEW yes \in Locations, NEW no \in Locations,
           pc[c] \notin {yes, no}, num[c] < rcu_count, slot[c] # 0, RcuScan(c, yes, no)
    PROVE  /\ pc' \in [Threads -> Locations] /\ pc'[c] \in {pc[c], yes, no}
           /\ \A u \in Threads \ {c} : pc'[u] = pc[u]
           /\ slot' \in [Threads -> 0 .. N + 1] /\ (pc'[c] = pc[c] => slot'[c] # 0)
           /\ \A u \in Threads \ {c} : slot'[u] = slot[u]
           /\ rcu_cached' \in 0 .. Unlocked - 1 /\ rcu_cached' < rcu_count
<1> USE ThreadFacts, Bounds DEF IInv
<1>1. /\ slot[c] \in 0 .. N + 1 /\ num[c] \in 0 .. Unlocked - 1
      /\ rcu_cached \in 0 .. Unlocked - 1 /\ rcu_cached < rcu_count
      /\ pc \in [Threads -> Locations]
    BY Numbers DEF Counts, TypeOK
<1>2. CASE Goto(c, no) /\ slot' = Set(slot, c, 0) /\ rcu_cached' = rcu_cached
    BY <1>1, <1>2, GotoFacts, SlotFacts
<1>3. CASE slot[c] <= N /\ slot' = Set(slot, c, slot[c] + 1) /\ UNCHANGED <<pc, rcu_cached>>
  <2>1. slot[c] + 1 \in 0 .. N + 1 /\ slot[c] + 1 # 0
    BY <1>1, <1>3
  <2>2. /\ slot' \in [Threads -> 0 .. N + 1] /\ slot'[c] # 0
        /\ \A u \in Threads \ {c} : slot'[u] = slot[u]
    BY <1>3, <2>1, SlotFacts
  <2>3. QED
    BY <1>1, <1>3, <2>2
<1>4. CASE Goto(c, yes) /\ slot' = Set(slot, c, 0) /\ rcu_cached' = num[c]
    BY <1>1, <1>4, GotoFacts, SlotFacts
<1>5. QED
    BY <1>2, <1>3, <1>4 DEF RcuScan

LEMMA KeepReadFreeCount ==
    ASSUME IInv, NEW c \in Consumers, ReadFreeCount(c)
    PROVE  IInv'
<1> USE ThreadFacts, Bounds DEF IInv
<1>1. c \in Threads /\ c \notin Producers /\ pc[c] = "d_free_count"
    BY DEF ReadFreeCount, Deref, At
<1>2. AtSub(c)
    BY <1>1, Looks DEF LookingC
<1>3. Goto(c, "d_free_safe")
    BY DEF ReadFreeCount
<1>4. /\ pc' \in [Threads -> Locations] /\ pc'[c] = "d_free_safe"
      /\ \A u \in Threads \ {c} : pc'[u] = pc[u]
    BY <1>1, <1>3, Labels, GotoFacts
<1>5. /\ num' \in [Threads -> 0 .. Unlocked - 1] /\ num'[c] = free_count[subq[c]]
      /\ \A u \in Threads \ {c} : num'[u] = num[u]
  <2>1. free_count[subq[c]] \in 0 .. Unlocked - 1
    BY <1>1, <1>2, <1>4 DEF AtSub
  <2>2. num' = Set(num, c, free_count[subq[c]])
    BY DEF ReadFreeCount
  <2>3. QED
    BY <1>1, <2>1, <2>2, NumFacts
<1>6. TypeOK'
    BY <1>1, <1>2, <1>4, <1>5 DEF ReadFreeCount, TypeOK, queue, subs, memory, rcuvars, locals, history
<1>7. Frame(c)
    BY <1>1, <1>2, <1>4, <1>5 DEF Frame, ReadFreeCount, locals, history
<1>8. Local(c)'
  <2>1. Local(c) /\ last' = last /\ rcu_count' = rcu_count
    BY <1>1 DEF ReadFreeCount, memory, rcuvars
  <2>2. QED
    BY <1>1, <1>2, <1>4, <1>5, <2>1 DEF AtSub, Local, Looking, LookingC, Counted, Leaving, ReadFreeCount, locals
<1>9. QED
    BY <1>1, <1>2, <1>4, <1>5, <1>6, <1>7, <1>8, QuietStep
       DEF ReadFreeCount, Critical, Counts, queue, subs, memory, rcuvars

LEMMA KeepReadDequeueCount ==
    ASSUME IInv, NEW c \in Consumers, ReadDequeueCount(c)
    PROVE  IInv'
<1> USE ThreadFacts, Bounds DEF IInv
<1>1. c \in Threads /\ c \notin Producers /\ pc[c] = "d_dequeue_count"
    BY DEF ReadDequeueCount, Deref, At
<1>2. AtSub(c)
    BY <1>1, Looks DEF LookingC
<1>3. Goto(c, "d_retire_safe")
    BY DEF ReadDequeueCount
<1>4. /\ pc' \in [Threads -> Locations] /\ pc'[c] = "d_retire_safe"
      /\ \A u \in Threads \ {c} : pc'[u] = pc[u]
    BY <1>1, <1>3, Labels, GotoFacts
<1>5. /\ num' \in [Threads -> 0 .. Unlocked - 1] /\ num'[c] = dequeue_count[subq[c]]
      /\ \A u \in Threads \ {c} : num'[u] = num[u]
  <2>1. dequeue_count[subq[c]] \in 0 .. Unlocked - 1
    BY <1>1, <1>2, <1>4 DEF AtSub
  <2>2. num' = Set(num, c, dequeue_count[subq[c]])
    BY DEF ReadDequeueCount
  <2>3. QED
    BY <1>1, <2>1, <2>2, NumFacts
<1>6. TypeOK'
    BY <1>1, <1>2, <1>4, <1>5 DEF ReadDequeueCount, TypeOK, queue, subs, memory, rcuvars, locals, history
<1>7. Frame(c)
    BY <1>1, <1>2, <1>4, <1>5 DEF Frame, ReadDequeueCount, locals, history
<1>8. Local(c)'
  <2>1. Local(c) /\ last' = last /\ rcu_count' = rcu_count
    BY <1>1 DEF ReadDequeueCount, memory, rcuvars
  <2>2. QED
    BY <1>1, <1>2, <1>4, <1>5, <2>1 DEF AtSub, Local, Looking, LookingC, Counted, Leaving, ReadDequeueCount, locals
<1>9. QED
    BY <1>1, <1>2, <1>4, <1>5, <1>6, <1>7, <1>8, QuietStep
       DEF ReadDequeueCount, Critical, Counts, queue, subs, memory, rcuvars

LEMMA KeepCheckFreeq ==
    ASSUME IInv, NEW c \in Consumers, CheckFreeq(c)
    PROVE  IInv'
<1> USE ThreadFacts, Bounds DEF IInv
<1>1. c \in Threads /\ c \notin Producers /\ pc[c] = "d_check_freeq"
    BY DEF CheckFreeq, Deref, At
<1>2. AtSub(c)
    BY <1>1, Looks DEF LookingC
<1>3. PICK l \in {"d_dequeue_count", "d_advance"} : Goto(c, l)
    BY DEF CheckFreeq, RcuSafe
<1>4. /\ pc' \in [Threads -> Locations] /\ pc'[c] = l
      /\ \A u \in Threads \ {c} : pc'[u] = pc[u]
    BY <1>1, <1>3, Labels, GotoFacts
<1>5. TypeOK'
    BY <1>1, <1>2, <1>4 DEF CheckFreeq, TypeOK, queue, subs, memory, rcuvars, locals, history
<1>6. Frame(c)
    BY <1>1, <1>2, <1>4 DEF Frame, CheckFreeq, locals, history
<1>7. Local(c)'
  <2>1. Local(c) /\ last' = last /\ rcu_count' = rcu_count
    BY <1>1 DEF CheckFreeq, memory, rcuvars
  <2>2. QED
    BY <1>1, <1>2, <1>4, <2>1 DEF AtSub, Local, Looking, LookingC, Counted, Leaving, CheckFreeq, locals
<1>8. QED
    BY <1>1, <1>2, <1>4, <1>5, <1>6, <1>7, QuietStep
       DEF CheckFreeq, Critical, Counts, queue, subs, memory, rcuvars

LEMMA KeepFreeSafe ==
    ASSUME IInv, NEW c \in Consumers, FreeSafe(c)
    PROVE  IInv'
<1> USE ThreadFacts, Bounds DEF IInv
<1>1. c \in Threads /\ c \notin Producers /\ pc[c] = "d_free_safe"
    BY DEF FreeSafe, Deref, At
<1>2. AtSub(c)
    BY <1>1, Looks DEF LookingC
<1>3. PICK l \in {"d_free_lock", "d_free_scan"} : Goto(c, l)
    BY DEF FreeSafe, RcuSafe
<1>4. /\ pc' \in [Threads -> Locations] /\ pc'[c] = l
      /\ \A u \in Threads \ {c} : pc'[u] = pc[u]
    BY <1>1, <1>3, Labels, GotoFacts
<1>5. slot' \in [Threads -> 0 .. N + 1] /\ (pc'[c] \in {"d_free_scan", "d_retire_scan"} => slot'[c] # 0)
      /\ \A u \in Threads \ {c} : slot'[u] = slot[u]
  <2>1. CASE slot' = slot /\ Goto(c, "d_free_lock")
    <3>1. pc'[c] = "d_free_lock"
        BY <1>1, <2>1, Labels, GotoFacts
    <3>2. slot \in [Threads -> 0 .. N + 1]
        BY DEF TypeOK
    <3>3. QED
        BY <2>1, <3>1, <3>2
  <2>2. CASE slot' = Set(slot, c, 1)
    BY <2>2, SlotFacts
  <2>3. QED
    BY <2>1, <2>2 DEF FreeSafe, RcuSafe
<1>6. TypeOK'
    BY <1>1, <1>2, <1>4, <1>5 DEF FreeSafe, TypeOK, queue, subs, memory, rcuvars, locals, history
<1>7. Frame(c)
    BY <1>1, <1>2, <1>4, <1>5 DEF Frame, FreeSafe, locals, history
<1>8. Local(c)'
  <2>1. Local(c) /\ last' = last /\ rcu_count' = rcu_count
    BY <1>1 DEF FreeSafe, memory, rcuvars
  <2>2. QED
    BY <1>1, <1>2, <1>4, <1>5, <2>1 DEF AtSub, Local, Looking, LookingC, Counted, Leaving, FreeSafe, locals
<1>9. QED
    BY <1>1, <1>2, <1>4, <1>5, <1>6, <1>7, <1>8, QuietStep
       DEF FreeSafe, Critical, Counts, queue, subs, memory, rcuvars

LEMMA KeepRetireSafe ==
    ASSUME IInv, NEW c \in Consumers, RetireSafe(c)
    PROVE  IInv'
<1> USE ThreadFacts, Bounds DEF IInv
<1>1. c \in Threads /\ c \notin Producers /\ pc[c] = "d_retire_safe"
    BY DEF RetireSafe, Deref, At
<1>2. AtSub(c)
    BY <1>1, Looks DEF LookingC
<1>3. PICK l \in {"d_retire_lock", "d_retire_scan"} : Goto(c, l)
    BY DEF RetireSafe, RcuSafe
<1>4. /\ pc' \in [Threads -> Locations] /\ pc'[c] = l
      /\ \A u \in Threads \ {c} : pc'[u] = pc[u]
    BY <1>1, <1>3, Labels, GotoFacts
<1>5. slot' \in [Threads -> 0 .. N + 1] /\ (pc'[c] \in {"d_free_scan", "d_retire_scan"} => slot'[c] # 0)
      /\ \A u \in Threads \ {c} : slot'[u] = slot[u]
  <2>1. CASE slot' = slot /\ Goto(c, "d_retire_lock")
    <3>1. pc'[c] = "d_retire_lock"
        BY <1>1, <2>1, Labels, GotoFacts
    <3>2. slot \in [Threads -> 0 .. N + 1]
        BY DEF TypeOK
    <3>3. QED
        BY <2>1, <3>1, <3>2
  <2>2. CASE slot' = Set(slot, c, 1)
    BY <2>2, SlotFacts
  <2>3. QED
    BY <2>1, <2>2 DEF RetireSafe, RcuSafe
<1>6. TypeOK'
    BY <1>1, <1>2, <1>4, <1>5 DEF RetireSafe, TypeOK, queue, subs, memory, rcuvars, locals, history
<1>7. Frame(c)
    BY <1>1, <1>2, <1>4, <1>5 DEF Frame, RetireSafe, locals, history
<1>8. Local(c)'
  <2>1. Local(c) /\ last' = last /\ rcu_count' = rcu_count
    BY <1>1 DEF RetireSafe, memory, rcuvars
  <2>2. QED
    BY <1>1, <1>2, <1>4, <1>5, <2>1 DEF AtSub, Local, Looking, LookingC, Counted, Leaving, RetireSafe, locals
<1>9. QED
    BY <1>1, <1>2, <1>4, <1>5, <1>6, <1>7, <1>8, QuietStep
       DEF RetireSafe, Critical, Counts, queue, subs, memory, rcuvars

LEMMA KeepFreeScan ==
    ASSUME IInv, NEW c \in Consumers, FreeScan(c)
    PROVE  IInv'
<1> USE ThreadFacts, Bounds DEF IInv
<1>1. c \in Threads /\ c \notin Producers /\ pc[c] = "d_free_scan"
    BY DEF FreeScan, At
<1>2. AtSub(c) /\ Local(c)
    BY <1>1, Looks DEF LookingC
<1>3. num[c] < rcu_count /\ slot[c] # 0 /\ RcuScan(c, "d_free_lock", "d_next")
    BY <1>1, <1>2 DEF Local, Counted, FreeScan
<1>4. /\ pc' \in [Threads -> Locations] /\ pc'[c] \in {pc[c], "d_free_lock", "d_next"}
      /\ \A u \in Threads \ {c} : pc'[u] = pc[u]
      /\ slot' \in [Threads -> 0 .. N + 1] /\ (pc'[c] = pc[c] => slot'[c] # 0)
      /\ \A u \in Threads \ {c} : slot'[u] = slot[u]
      /\ rcu_cached' \in 0 .. Unlocked - 1 /\ rcu_cached' < rcu_count
    BY <1>1, <1>3, Labels, ScanFacts
<1>5. TypeOK'
    BY <1>4 DEF FreeScan, TypeOK, queue, subs, memory, history
<1>6. Frame(c)
    BY <1>4 DEF Frame, FreeScan, history
<1>7. Local(c)'
  <2>1. last' = last /\ rcu_count' = rcu_count /\ subq' = subq /\ succ' = succ /\ num' = num
    BY DEF FreeScan, memory
  <2>2. QED
    BY <1>1, <1>2, <1>3, <1>4, <2>1 DEF AtSub, Local, Looking, LookingC, Counted, Leaving
<1>8. QED
    BY <1>1, <1>4, <1>5, <1>6, <1>7, QuietStep
       DEF FreeScan, Critical, Counts, queue, subs, memory

LEMMA KeepRetireScan ==
    ASSUME IInv, NEW c \in Consumers, RetireScan(c)
    PROVE  IInv'
<1> USE ThreadFacts, Bounds DEF IInv
<1>1. c \in Threads /\ c \notin Producers /\ pc[c] = "d_retire_scan"
    BY DEF RetireScan, At
<1>2. AtSub(c) /\ Local(c)
    BY <1>1, Looks DEF LookingC
<1>3. num[c] < rcu_count /\ slot[c] # 0 /\ RcuScan(c, "d_retire_lock", "d_advance")
    BY <1>1, <1>2 DEF Local, Counted, RetireScan
<1>4. /\ pc' \in [Threads -> Locations] /\ pc'[c] \in {pc[c], "d_retire_lock", "d_advance"}
      /\ \A u \in Threads \ {c} : pc'[u] = pc[u]
      /\ slot' \in [Threads -> 0 .. N + 1] /\ (pc'[c] = pc[c] => slot'[c] # 0)
      /\ \A u \in Threads \ {c} : slot'[u] = slot[u]
      /\ rcu_cached' \in 0 .. Unlocked - 1 /\ rcu_cached' < rcu_count
    BY <1>1, <1>3, Labels, ScanFacts
<1>5. TypeOK'
    BY <1>4 DEF RetireScan, TypeOK, queue, subs, memory, history
<1>6. Frame(c)
    BY <1>4 DEF Frame, RetireScan, history
<1>7. Local(c)'
  <2>1. last' = last /\ rcu_count' = rcu_count /\ subq' = subq /\ succ' = succ /\ num' = num
    BY DEF RetireScan, memory
  <2>2. QED
    BY <1>1, <1>2, <1>3, <1>4, <2>1 DEF AtSub, Local, Looking, LookingC, Counted, Leaving
<1>8. QED
    BY <1>1, <1>4, <1>5, <1>6, <1>7, QuietStep
       DEF RetireScan, Critical, Counts, queue, subs, memory

LEMMA KeepReadNext ==
    ASSUME IInv, NEW c \in Consumers, ReadNext(c)
    PROVE  IInv'
<1> USE ThreadFacts, Bounds DEF IInv
<1>1. c \in Threads /\ c \notin Producers /\ pc[c] = "d_next"
    BY DEF ReadNext, Deref, At
<1>2. AtSub(c)
    BY <1>1, Looks DEF LookingC
<1> DEFINE l == IF next[subq[c]] # Null THEN "d_check_freeq" ELSE "d_advance"
<1>3. Goto(c, l) /\ l \in {"d_check_freeq", "d_advance"}
    BY DEF ReadNext
<1>4. /\ pc' \in [Threads -> Locations] /\ pc'[c] = l
      /\ \A u \in Threads \ {c} : pc'[u] = pc[u]
    BY <1>1, <1>3, Labels, GotoFacts
<1>5. /\ succ' \in [Threads -> Subs \union {Null}] /\ succ'[c] = next[subq[c]]
      /\ \A u \in Threads \ {c} : succ'[u] = succ[u]
  <2>1. next[subq[c]] \in Subs \union {Null}
    BY <1>1, <1>2, <1>4 DEF AtSub
  <2>2. succ' = Set(succ, c, next[subq[c]])
    BY DEF ReadNext
  <2>3. QED
    BY <1>1, <2>1, <2>2, SuccFacts
<1>6. /\ num' \in [Threads -> 0 .. Unlocked - 1] /\ num'[c] = 0
      /\ \A u \in Threads \ {c} : num'[u] = num[u]
  <2>1. 0 \in 0 .. Unlocked - 1
    OBVIOUS
  <2>2. num' = Set(num, c, 0)
    BY DEF ReadNext
  <2>3. QED
    BY <1>1, <2>1, <2>2, NumFacts
<1>7. TypeOK'
    BY <1>1, <1>2, <1>4, <1>5, <1>6 DEF ReadNext, TypeOK, queue, subs, memory, rcuvars, locals, history
<1>8. Frame(c)
    BY <1>1, <1>2, <1>4, <1>5, <1>6 DEF Frame, ReadNext, locals, history
<1>9. Local(c)'
  <2>1. Local(c) /\ last' = last /\ rcu_count' = rcu_count
    BY <1>1 DEF ReadNext, memory, rcuvars
  <2>2. subq' = subq
    BY DEF ReadNext
  <2>3. last \in Nat /\ subq[c] \in Nat
    BY <1>1, Numbers
  <2>4. CASE next[subq[c]] = Null
    <3>1. pc'[c] = "d_advance" /\ succ'[c] = Null
        BY <1>4, <1>5, <2>4
    <3>2. QED
        BY <1>1, <1>2, <2>1, <2>2, <2>3, <3>1 DEF AtSub, Local, Looking, LookingC, Counted, Leaving
  <2>5. CASE next[subq[c]] # Null
    <3>1. pc'[c] = "d_check_freeq" /\ succ'[c] = subq[c] + 1 /\ succ'[c] <= last
        BY <1>2, <1>4, <1>5, <2>5 DEF AtSub
    <3>2. QED
        BY <1>1, <1>2, <2>1, <2>2, <3>1 DEF AtSub, Local, Looking, LookingC, Counted, Leaving
  <2>6. QED
    BY <2>4, <2>5
<1>10. QED
    BY <1>1, <1>2, <1>4, <1>5, <1>6, <1>7, <1>8, <1>9, QuietStep
       DEF ReadNext, Critical, Counts, queue, subs, memory, rcuvars

LEMMA KeepAdvance ==
    ASSUME IInv, NEW c \in Consumers, Advance(c)
    PROVE  IInv'
<1> USE ThreadFacts, Bounds DEF IInv
<1>1. c \in Threads /\ c \notin Producers /\ pc[c] = "d_advance"
    BY DEF Advance, Deref, At
<1>2. AtSub(c)
    BY <1>1, Looks DEF LookingC
<1> DEFINE l == IF succ[c] # Null THEN "d_sub" ELSE "d_unlock"
<1>3. Goto(c, l) /\ l \in {"d_sub", "d_unlock"}
    BY DEF Advance
<1>4. /\ pc' \in [Threads -> Locations] /\ pc'[c] = l
      /\ \A u \in Threads \ {c} : pc'[u] = pc[u]
    BY <1>1, <1>3, Labels, GotoFacts
<1>5. /\ subq' \in [Threads -> Subs \union {Null}] /\ subq'[c] = succ[c]
      /\ \A u \in Threads \ {c} : subq'[u] = subq[u]
  <2>1. succ[c] \in Subs \union {Null}
    BY <1>1, <1>2, <1>4 DEF TypeOK
  <2>2. subq' = Set(subq, c, succ[c])
    BY DEF Advance
  <2>3. QED
    BY <1>1, <2>1, <2>2, SubqFacts
<1>6. /\ succ' \in [Threads -> Subs \union {Null}] /\ succ'[c] = Null
      /\ \A u \in Threads \ {c} : succ'[u] = succ[u]
  <2>1. Null \in Subs \union {Null}
    OBVIOUS
  <2>2. succ' = Set(succ, c, Null)
    BY DEF Advance
  <2>3. QED
    BY <1>1, <2>1, <2>2, SuccFacts
<1>7. /\ num' \in [Threads -> 0 .. Unlocked - 1] /\ num'[c] = 0
      /\ \A u \in Threads \ {c} : num'[u] = num[u]
  <2>1. 0 \in 0 .. Unlocked - 1
    OBVIOUS
  <2>2. num' = Set(num, c, 0)
    BY DEF Advance
  <2>3. QED
    BY <1>1, <2>1, <2>2, NumFacts
<1>8. TypeOK'
    BY <1>1, <1>2, <1>4, <1>5, <1>6, <1>7 DEF Advance, TypeOK, queue, subs, memory, rcuvars, locals, history
<1>9. Frame(c)
    BY <1>1, <1>2, <1>4, <1>5, <1>6, <1>7 DEF Frame, Advance, locals, history
<1>10. Local(c)'
  <2>1. Local(c) /\ last' = last /\ rcu_count' = rcu_count
    BY <1>1 DEF Advance, memory, rcuvars
  <2>2. QED
    BY <1>1, <1>2, <1>4, <1>5, <1>6, <1>7, <2>1 DEF AtSub, Local, Looking, LookingC, Counted, Leaving, Advance, locals
<1>11. QED
    BY <1>1, <1>2, <1>4, <1>5, <1>6, <1>7, <1>8, <1>9, <1>10, QuietStep
       DEF Advance, Critical, Counts, queue, subs, memory, rcuvars

LEMMA KeepDeqUnlock ==
    ASSUME IInv, NEW c \in Consumers, DeqUnlock(c)
    PROVE  IInv'
<1> USE ThreadFacts, Bounds DEF IInv
<1>1. c \in Threads /\ c \notin Producers /\ pc[c] = "d_unlock"
    BY DEF DeqUnlock, Deref, At
<1>2. Goto(c, "idle")
    BY DEF DeqUnlock
<1>3. /\ pc' \in [Threads -> Locations] /\ pc'[c] = "idle"
      /\ \A u \in Threads \ {c} : pc'[u] = pc[u]
    BY <1>1, <1>2, Labels, GotoFacts
<1>4. /\ subq' \in [Threads -> Subs \union {Null}] /\ subq'[c] = Null
      /\ \A u \in Threads \ {c} : subq'[u] = subq[u]
  <2>1. Null \in Subs \union {Null}
    OBVIOUS
  <2>2. subq' = Set(subq, c, Null)
    BY DEF DeqUnlock
  <2>3. QED
    BY <1>1, <2>1, <2>2, SubqFacts
<1>5. rcu' \in [Threads -> 1 .. Unlocked]
    BY <1>1, <1>3, <1>4, RcuUnlockFacts DEF DeqUnlock
<1>6. TypeOK'
    BY <1>1, <1>3, <1>4, <1>5 DEF DeqUnlock, TypeOK, queue, subs, memory, rcuvars, locals, history
<1>7. Frame(c)
    BY <1>1, <1>3, <1>4, <1>5 DEF Frame, DeqUnlock, locals, history
<1>8. Local(c)'
  <2>1. Local(c) /\ last' = last /\ rcu_count' = rcu_count
    BY <1>1 DEF DeqUnlock, memory, rcuvars
  <2>2. QED
    BY <1>1, <1>3, <1>4, <1>5, <2>1 DEF AtSub, Local, Looking, LookingC, Counted, Leaving, DeqUnlock, locals
<1>9. QED
    BY <1>1, <1>3, <1>4, <1>5, <1>6, <1>7, <1>8, QuietStep
       DEF DeqUnlock, Critical, Counts, queue, subs, memory, rcuvars

LEMMA KeepSubDequeue ==
    ASSUME IInv, NEW c \in Consumers, SubDequeue(c)
    PROVE  IInv'
<1> USE ThreadFacts, Bounds DEF IInv
<1>1. c \in Threads /\ c \notin Producers /\ pc[c] = "d_sub"
    BY DEF SubDequeue, Deref, At
<1>2. AtSub(c)
    BY <1>1, Looks DEF LookingC
<1>3. PICK l \in {"d_unlock", "d_freeq"} : Goto(c, l)
    BY DEF SubDequeue, RcuSafe
<1>4. /\ pc' \in [Threads -> Locations] /\ pc'[c] = l
      /\ \A u \in Threads \ {c} : pc'[u] = pc[u]
    BY <1>1, <1>3, Labels, GotoFacts
<1>5. items' \in [Subs -> Seq(Values)]
  <2>1. items \in [Subs -> Seq(Values)] /\ subq[c] \in Subs
    BY <1>1, <1>2, <1>4 DEF AtSub, TypeOK
  <2>2. items[subq[c]] \in Seq(Values)
    BY <2>1
  <2>3. CASE items[subq[c]] # << >> /\ items' = [items EXCEPT ![subq[c]] = Tail(items[subq[c]])]
    <3>1. Tail(items[subq[c]]) \in Seq(Values)
        BY <2>2, <2>3
    <3>2. QED
        BY <2>1, <2>3, <3>1
  <2>4. CASE items' = items
    BY <2>1, <2>4
  <2>5. QED
    BY <2>3, <2>4 DEF SubDequeue
<1>6. got' \in [Consumers -> Seq(Values)]
  <2>1. items \in [Subs -> Seq(Values)] /\ subq[c] \in Subs /\ got \in [Consumers -> Seq(Values)]
    BY <1>1, <1>2, <1>4, <1>5 DEF AtSub, TypeOK
  <2>2. items[subq[c]] \in Seq(Values) /\ got[c] \in Seq(Values)
    BY <2>1
  <2>3. CASE items[subq[c]] # << >> /\ got' = [got EXCEPT ![c] = Append(got[c], Head(items[subq[c]]))]
    <3>1. Head(items[subq[c]]) \in Values
        BY <2>2, <2>3
    <3>2. Append(got[c], Head(items[subq[c]])) \in Seq(Values)
        BY <2>2, <3>1
    <3>3. QED
        BY <2>1, <2>3, <3>2
  <2>4. CASE got' = got
    BY <2>1, <2>4
  <2>5. QED
    BY <2>3, <2>4 DEF SubDequeue
<1>7. tail' \in [Subs -> Nat]
  <2>1. tail \in [Subs -> Nat] /\ subq[c] \in Subs
    BY <1>1, <1>2, <1>4, <1>5, <1>6 DEF AtSub, TypeOK
  <2>2. tail[subq[c]] + 1 \in Nat
    BY <2>1
  <2>3. tail' = tail \/ tail' = Set(tail, subq[c], tail[subq[c]] + 1)
    BY DEF SubDequeue
  <2>4. QED
    BY <2>1, <2>2, <2>3 DEF Set
<1>8. TypeOK'
    BY <1>1, <1>2, <1>4, <1>5, <1>6, <1>7 DEF SubDequeue, TypeOK, queue, subs, memory, rcuvars, locals, history
<1>9. Frame(c)
    BY <1>1, <1>2, <1>4, <1>5, <1>6, <1>7 DEF Frame, SubDequeue, locals, history
<1>10. Local(c)'
  <2>1. Local(c) /\ last' = last /\ rcu_count' = rcu_count
    BY <1>1 DEF SubDequeue, memory, rcuvars
  <2>2. QED
    BY <1>1, <1>2, <1>4, <1>5, <1>6, <1>7, <2>1 DEF AtSub, Local, Looking, LookingC, Counted, Leaving, SubDequeue, locals
<1>11. QED
    BY <1>1, <1>2, <1>4, <1>5, <1>6, <1>7, <1>8, <1>9, <1>10, QuietStep
       DEF SubDequeue, Critical, Counts, queue, subs, memory, rcuvars

\* A step that only stops the program.
LEMMA KeepFault ==
    ASSUME IInv, UNCHANGED <<queue, lock, subs, memory, rcuvars, pc, locals, history>>
    PROVE  IInv'
<1>1. /\ enq' = enq /\ deq' = deq /\ freeq' = freeq /\ lock' = lock /\ items' = items
      /\ tail' = tail /\ next' = next /\ dequeue_count' = dequeue_count
      /\ free_count' = free_count /\ last' = last /\ freed' = freed /\ rcu' = rcu
      /\ rcu_count' = rcu_count /\ rcu_cached' = rcu_cached /\ pc' = pc /\ subq' = subq
      /\ num' = num /\ succ' = succ /\ slot' = slot /\ since' = since /\ sent' = sent
      /\ got' = got
    BY DEF queue, subs, memory, rcuvars, locals, history
<1>2. TypeOK'
    BY <1>1 DEF IInv, TypeOK
<1>3. LockInv' /\ (\A t \in Threads : Local(t)') /\ (\A t \in Threads : Held(t)')
    BY <1>1 DEF IInv, LockInv, Local, Held
<1>4. ChainInv' /\ Counts'
    BY <1>1 DEF IInv, ChainInv, Counts
<1>5. QED
    BY <1>2, <1>3, <1>4 DEF IInv

-----------------------------------------------------------------------------
(* The critical section *)

\* Who holds the lock, or may take it, is alone in the critical section.
LEMMA Alone ==
    ASSUME IInv, NEW t \in Threads, lock \in {Null, t}
    PROVE  /\ \A u \in Threads \ {t} : pc[u] \notin Critical
           /\ (\E u \in Threads : pc[u] \in Unregistered) <=> pc[t] \in Unregistered
           /\ (\E p \in Producers : pc[p] = "e_set_enq") <=> t \in Producers /\ pc[t] = "e_set_enq"
<1> USE ThreadFacts DEF IInv
<1>1. \A u \in Threads \ {t} : pc[u] \notin Critical
    BY DEF LockInv
<1>2. QED
    BY <1>1 DEF Critical, Unregistered

LEMMA AloneAfter ==
    ASSUME IInv, NEW t \in Threads, lock \in {Null, t}, Frame(t)
    PROVE  /\ (\E u \in Threads : pc'[u] \in Unregistered) <=> pc'[t] \in Unregistered
           /\ (\E p \in Producers : pc'[p] = "e_set_enq") <=> t \in Producers /\ pc'[t] = "e_set_enq"
<1>1. \A u \in Threads \ {t} : pc'[u] \notin Critical
    BY Alone DEF Frame
<1>2. QED
    BY <1>1, ThreadFacts DEF Critical, Unregistered

LEMMA LockedStep ==
    ASSUME IInv, TypeOK', NEW t \in Threads, Frame(t), Local(t)', Held(t)',
           \/ lock \in {Null, t} /\ lock' = t /\ pc'[t] \in Critical
           \/ lock = t /\ lock' = Null /\ pc'[t] \notin Critical,
           ChainInv', Counts', last <= last', enq <= enq', rcu_count <= rcu_count'
    PROVE  IInv'
<1>1. \A u \in Threads \ {t} : pc'[u] \notin Critical
    BY Alone DEF Frame
<1>2. LockInv'
    BY <1>1, ThreadFacts DEF LockInv
<1>3. \A u \in Threads : Local(u)'
    BY LocalFrame DEF IInv
<1>4. \A u \in Threads : Held(u)'
    BY <1>1 DEF Held, Critical
<1>5. QED
    BY <1>2, <1>3, <1>4 DEF IInv

\* Who is inside the critical section holds the lock.
LEMMA Holds ==
    ASSUME IInv, NEW t \in Threads, pc[t] \in Critical
    PROVE  lock = t /\ lock \in {Null, t} /\ lock # Null
BY ThreadFacts DEF IInv, LockInv

LEMMA KeepEnqLock ==
    ASSUME IInv, NEW p \in Producers, EnqLock(p)
    PROVE  IInv'
<1> USE ThreadFacts, Bounds DEF IInv
<1>1. p \in Threads /\ pc[p] = "e_lock" /\ lock = Null /\ lock' = p /\ Goto(p, "e_next")
    BY DEF EnqLock, At
<1>2. /\ pc' \in [Threads -> Locations] /\ pc'[p] = "e_next"
      /\ \A u \in Threads \ {p} : pc'[u] = pc[u]
    BY <1>1, Labels, GotoFacts
<1>3. TypeOK'
    BY <1>1, <1>2 DEF EnqLock, TypeOK, queue, subs, memory, rcuvars, locals, history
<1>4. Frame(p)
    BY <1>2 DEF Frame, EnqLock, locals, history
<1>5. Local(p)' /\ Held(p)'
  <2>1. Local(p) /\ enq' = enq /\ subq' = subq /\ sent' = sent
    BY DEF EnqLock, queue, locals, history
  <2>2. QED
    BY <1>1, <1>2, <2>1 DEF Local, Held, Looking, LookingC, Counted, Leaving
<1>6. ChainInv' /\ Counts'
  <2>1. /\ (\E q \in Producers : pc[q] = "e_set_enq") <=> (\E q \in Producers : pc'[q] = "e_set_enq")
        /\ (\E u \in Threads : pc[u] \in Unregistered) <=> (\E u \in Threads : pc'[u] \in Unregistered)
    BY <1>1, <1>2, <1>4, Alone, AloneAfter DEF Unregistered
  <2>2. QED
    BY <2>1 DEF EnqLock, ChainInv, Counts, queue, subs, memory, rcuvars
<1>7. last <= last' /\ enq <= enq' /\ rcu_count <= rcu_count'
    BY <1>1, Numbers DEF EnqLock, queue, memory, rcuvars
<1>8. QED
    BY <1>1, <1>2, <1>3, <1>4, <1>5, <1>6, <1>7, LockedStep DEF Critical

LEMMA KeepFreeLock ==
    ASSUME IInv, NEW c \in Consumers, FreeLock(c)
    PROVE  IInv'
<1> USE ThreadFacts, Bounds DEF IInv
<1>1. /\ c \in Threads /\ c \notin Producers /\ pc[c] = "d_free_lock"
      /\ lock = Null /\ lock' = c /\ Goto(c, "d_free")
    BY DEF FreeLock, At
<1>2. /\ pc' \in [Threads -> Locations] /\ pc'[c] = "d_free"
      /\ \A u \in Threads \ {c} : pc'[u] = pc[u]
    BY <1>1, Labels, GotoFacts
<1>3. TypeOK'
    BY <1>1, <1>2 DEF FreeLock, TypeOK, queue, subs, memory, rcuvars, locals, history
<1>4. Frame(c)
    BY <1>2 DEF Frame, FreeLock, locals, history
<1>5. Local(c)' /\ Held(c)'
  <2>1. Local(c) /\ last' = last /\ subq' = subq
    BY DEF FreeLock, memory, locals
  <2>2. QED
    BY <1>1, <1>2, <2>1 DEF Local, Held, Looking, LookingC, Counted, Leaving
<1>6. ChainInv' /\ Counts'
  <2>1. /\ (\E q \in Producers : pc[q] = "e_set_enq") <=> (\E q \in Producers : pc'[q] = "e_set_enq")
        /\ (\E u \in Threads : pc[u] \in Unregistered) <=> (\E u \in Threads : pc'[u] \in Unregistered)
    BY <1>1, <1>2, <1>4, Alone, AloneAfter DEF Unregistered
  <2>2. QED
    BY <2>1 DEF FreeLock, ChainInv, Counts, queue, subs, memory, rcuvars
<1>7. last <= last' /\ enq <= enq' /\ rcu_count <= rcu_count'
    BY <1>1, Numbers DEF FreeLock, queue, memory, rcuvars
<1>8. QED
    BY <1>1, <1>2, <1>3, <1>4, <1>5, <1>6, <1>7, LockedStep DEF Critical

LEMMA KeepRetire ==
    ASSUME IInv, NEW c \in Consumers, Retire(c)
    PROVE  IInv'
<1> USE ThreadFacts, Bounds DEF IInv
<1>1. /\ c \in Threads /\ c \notin Producers /\ pc[c] = "d_retire_lock" /\ lock = Null
      /\ Local(c) /\ AtSub(c)
    BY Looks DEF Retire, At, LookingC
<1>2. PICK l \in {"d_set_deq", "d_advance"} :
        /\ Goto(c, l)
        /\ l = "d_set_deq" => deq = subq[c] /\ lock' = c /\ freeq' = subq[c]
        /\ l = "d_advance" => UNCHANGED <<lock, freeq>>
    BY DEF Retire
<1>3. /\ pc' \in [Threads -> Locations] /\ pc'[c] = l
      /\ \A u \in Threads \ {c} : pc'[u] = pc[u]
    BY <1>1, <1>2, Labels, GotoFacts
<1>4. freeq' \in Subs \union {Null, Garbage} /\ lock' \in Threads \union {Null}
    BY <1>1, <1>2 DEF TypeOK, AtSub
<1>5. TypeOK'
    BY <1>3, <1>4 DEF Retire, TypeOK, subs, memory, rcuvars, locals, history
<1>6. Frame(c)
    BY <1>3 DEF Frame, Retire, locals, history
<1>7. /\ UNCHANGED <<enq, deq, last, next, dequeue_count, free_count, rcu_count, rcu_cached>>
      /\ UNCHANGED <<subq, num, succ, slot>>
    BY DEF Retire, subs, memory, rcuvars, locals
<1>8. Local(c)'
  <2>1. last \in Nat /\ succ[c] = subq[c] + 1 /\ succ[c] <= last /\ subq[c] \in 1 .. last
    BY <1>1, Numbers DEF Local, Leaving, LookingC
  <2>2. QED
    BY <1>1, <1>2, <1>3, <1>7, <2>1 DEF Local, Looking, LookingC, Counted, Leaving
<1>9. CASE l = "d_advance"
    BY <1>1, <1>2, <1>3, <1>5, <1>6, <1>7, <1>8, <1>9, QuietStep DEF Critical, Counts
<1>10. CASE l = "d_set_deq"
  <2>1. Held(c)' /\ lock \in {Null, c} /\ pc'[c] \in Critical /\ lock' = c
    BY <1>1, <1>2, <1>3, <1>7, <1>10 DEF Held, Critical
  <2>2. /\ (\E q \in Producers : pc[q] = "e_set_enq") <=> (\E q \in Producers : pc'[q] = "e_set_enq")
        /\ (\E u \in Threads : pc[u] \in Unregistered) <=> (\E u \in Threads : pc'[u] \in Unregistered)
    BY <1>1, <1>3, <1>6, <1>10, Alone, AloneAfter DEF Unregistered
  <2>3. ChainInv' /\ Counts'
    BY <1>7, <2>2 DEF ChainInv, Counts
  <2>4. last <= last' /\ enq <= enq' /\ rcu_count <= rcu_count'
    BY <1>1, <1>7, Numbers
  <2>5. QED
    BY <1>1, <1>5, <1>6, <1>8, <2>1, <2>3, <2>4, LockedStep
<1>11. QED
    BY <1>9, <1>10

LEMMA KeepCheckNext ==
    ASSUME IInv, NEW p \in Producers, CheckNext(p)
    PROVE  IInv'
<1> USE ThreadFacts, Bounds DEF IInv
<1>1. /\ p \in Threads /\ pc[p] = "e_next" /\ lock = p
      /\ subq[p] \in 1 .. enq /\ sent[p] # 0
    BY Holds DEF CheckNext, Deref, At, Critical, Local, Looking
<1>2. UNCHANGED <<queue, subs, memory, rcuvars, num, succ, slot, since, history>>
    BY DEF CheckNext
<1>3. /\ UNCHANGED <<enq, deq, freeq, items, tail, next, dequeue_count, free_count>>
      /\ UNCHANGED <<last, freed, rcu, rcu_count, rcu_cached, num, succ, slot, since, sent, got>>
    BY <1>2 DEF queue, subs, memory, rcuvars, history
<1>4. /\ last \in 1 .. MaxSub /\ enq \in Nat /\ rcu_count \in Nat /\ enq <= last
      /\ subq[p] \in Subs /\ next[subq[p]] = IF subq[p] < last THEN subq[p] + 1 ELSE Null
  <2>1. last \in 1 .. MaxSub /\ enq \in Nat /\ rcu_count \in Nat
    BY <1>1, Numbers
  <2>2. enq <= last
    BY <2>1 DEF ChainInv
  <2>3. subq[p] \in Subs
    BY <1>1, <2>1, <2>2
  <2>4. QED
    BY <2>1, <2>2, <2>3 DEF ChainInv
<1>5. last <= last' /\ enq <= enq' /\ rcu_count <= rcu_count'
    BY <1>3, <1>4
<1>6. CASE lock' = Null /\ Goto(p, "e_retry") /\ subq' = Set(subq, p, Null)
  <2>1. /\ pc' \in [Threads -> Locations] /\ pc'[p] = "e_retry"
        /\ \A u \in Threads \ {p} : pc'[u] = pc[u]
    BY <1>1, <1>6, Labels, GotoFacts
  <2>2. /\ subq' \in [Threads -> Subs \union {Null}]
        /\ \A u \in Threads \ {p} : subq'[u] = subq[u]
    BY <1>1, <1>6, SubqFacts
  <2>3. TypeOK'
    BY <1>3, <1>6, <2>1, <2>2 DEF TypeOK
  <2>4. Frame(p)
    BY <1>3, <2>1, <2>2 DEF Frame
  <2>5. Local(p)' /\ Held(p)'
    BY <1>1, <1>3, <2>1 DEF Local, Held, Looking, LookingC, Counted, Leaving
  <2>6. /\ (\E q \in Producers : pc[q] = "e_set_enq") <=> (\E q \in Producers : pc'[q] = "e_set_enq")
        /\ (\E u \in Threads : pc[u] \in Unregistered) <=> (\E u \in Threads : pc'[u] \in Unregistered)
    BY <1>1, <2>1, <2>4, Alone, AloneAfter DEF Unregistered
  <2>7. ChainInv' /\ Counts'
    BY <1>3, <2>6 DEF ChainInv, Counts
  <2>8. QED
    BY <1>1, <1>5, <1>6, <2>1, <2>3, <2>4, <2>5, <2>7, LockedStep DEF Critical
<1>7. CASE next[subq[p]] = Null /\ subq[p] < MaxSub /\ Goto(p, "e_grow") /\ UNCHANGED <<lock, subq>>
  <2>1. /\ pc' \in [Threads -> Locations] /\ pc'[p] = "e_grow"
        /\ \A u \in Threads \ {p} : pc'[u] = pc[u]
    BY <1>1, <1>7, Labels, GotoFacts
  <2>2. TypeOK'
    BY <1>3, <1>7, <2>1 DEF TypeOK
  <2>3. Frame(p)
    BY <1>3, <1>7, <2>1 DEF Frame
  <2>4. subq[p] = last /\ last < MaxSub
    BY <1>1, <1>4, <1>7
  <2>5. Local(p)' /\ Held(p)'
    BY <1>1, <1>3, <1>7, <2>1, <2>4 DEF Local, Held, Looking, LookingC, Counted, Leaving
  <2>6. /\ (\E q \in Producers : pc[q] = "e_set_enq") <=> (\E q \in Producers : pc'[q] = "e_set_enq")
        /\ (\E u \in Threads : pc[u] \in Unregistered) <=> (\E u \in Threads : pc'[u] \in Unregistered)
    BY <1>1, <2>1, <2>3, Alone, AloneAfter DEF Unregistered
  <2>7. ChainInv' /\ Counts'
    BY <1>3, <2>6 DEF ChainInv, Counts
  <2>8. QED
    BY <1>1, <1>5, <1>7, <2>1, <2>2, <2>3, <2>5, <2>7, LockedStep DEF Critical
<1>8. CASE UNCHANGED <<lock, pc, subq>>
    BY <1>2, <1>8, KeepFault DEF locals
<1>9. QED
    BY <1>6, <1>7, <1>8 DEF CheckNext

LEMMA KeepGrow ==
    ASSUME IInv, NEW p \in Producers, Grow(p)
    PROVE  IInv'
<1> USE ThreadFacts, Bounds DEF IInv
<1>1. /\ p \in Threads /\ pc[p] = "e_grow" /\ lock = p /\ lock \in {Null, p}
      /\ subq[p] \in 1 .. enq /\ sent[p] # 0
      /\ subq[p] = last /\ last < MaxSub
    BY Holds DEF Grow, Deref, At, Critical, Local, Looking, Held
<1>2. last \in 1 .. MaxSub /\ enq \in 1 .. MaxSub /\ deq \in 1 .. MaxSub /\ rcu_count \in 1 .. Unlocked - 1
    BY <1>1, Numbers
<1>3. /\ last' = last + 1 /\ last' \in Subs /\ next' = Set(next, last, last')
      /\ succ' = Set(succ, p, last') /\ Goto(p, "e_set_enq")
    BY <1>1, <1>2 DEF Grow
<1>4. /\ UNCHANGED <<enq, deq, freeq, lock, items, tail, dequeue_count, free_count, freed>>
      /\ UNCHANGED <<rcu, rcu_count, rcu_cached, subq, num, slot, since, sent, got>>
    BY DEF Grow, queue, rcuvars, history
<1>5. /\ pc' \in [Threads -> Locations] /\ pc'[p] = "e_set_enq"
      /\ \A u \in Threads \ {p} : pc'[u] = pc[u]
    BY <1>1, <1>3, Labels, GotoFacts
<1>6. /\ succ' \in [Threads -> Subs \union {Null}] /\ succ'[p] = last'
      /\ \A u \in Threads \ {p} : succ'[u] = succ[u]
    BY <1>1, <1>3, SuccFacts
<1>7. next' \in [Subs -> Subs \union {Null}] /\ \A k \in Subs : next'[k] = IF k < last' THEN k + 1 ELSE Null
  <2>1. next \in [Subs -> Subs \union {Null}]
    BY DEF TypeOK
  <2>2. /\ next' \in [Subs -> Subs \union {Null}] /\ next'[last] = last'
        /\ \A k \in Subs \ {last} : next'[k] = next[k]
    BY <1>2, <1>3, <2>1 DEF Set
  <2>3. ASSUME NEW k \in Subs, k # last
        PROVE  next'[k] = IF k < last' THEN k + 1 ELSE Null
    <3>1. next'[k] = IF k < last THEN k + 1 ELSE Null
        BY <2>2, <2>3 DEF ChainInv
    <3>2. k < last' <=> k < last
        BY <1>2, <1>3, <2>3
    <3>3. QED
        BY <3>1, <3>2
  <2>4. next'[last] = IF last < last' THEN last + 1 ELSE Null
    BY <1>2, <1>3, <2>2
  <2>5. QED
    BY <2>2, <2>3, <2>4
<1>8. TypeOK'
    BY <1>3, <1>4, <1>5, <1>6, <1>7 DEF TypeOK
<1>9. Frame(p)
    BY <1>4, <1>5, <1>6 DEF Frame
<1>10. enq = last /\ rcu_count <= last + deq - 1
    BY <1>1, Alone DEF ChainInv, Counts
<1>11. Local(p)'
    BY <1>1, <1>4, <1>5 DEF Local, Looking, LookingC, Counted, Leaving
<1>12. Held(p)'
  <2>1. succ'[p] = last' /\ enq' = last' - 1 /\ subq'[p] = last' - 1
    BY <1>1, <1>2, <1>3, <1>4, <1>6, <1>10
  <2>2. QED
    BY <1>5, <2>1 DEF Held
<1>13. ChainInv'
  <2>1. enq' = last' - 1 /\ deq' <= enq'
    BY <1>2, <1>3, <1>4, <1>10 DEF ChainInv
  <2>2. QED
    BY <1>5, <1>7, <2>1 DEF ChainInv
<1>14. Counts'
  <2>1. rcu_count' <= last' + deq' - 2 /\ rcu_count' <= last' + deq' - 1
    BY <1>2, <1>3, <1>4, <1>10
  <2>2. QED
    BY <1>4, <2>1 DEF Counts
<1>15. last <= last' /\ enq <= enq' /\ rcu_count <= rcu_count'
    BY <1>2, <1>3, <1>4
<1>16. QED
    BY <1>1, <1>4, <1>5, <1>8, <1>9, <1>11, <1>12, <1>13, <1>14, <1>15, LockedStep DEF Critical

LEMMA KeepSetEnq ==
    ASSUME IInv, NEW p \in Producers, SetEnq(p)
    PROVE  IInv'
<1> USE ThreadFacts, Bounds DEF IInv
<1>1. /\ p \in Threads /\ pc[p] = "e_set_enq" /\ lock = p /\ lock \in {Null, p}
      /\ subq[p] \in 1 .. enq /\ sent[p] # 0
      /\ succ[p] = last /\ enq = last - 1 /\ subq[p] = last - 1
    BY Holds DEF SetEnq, At, Critical, Local, Looking, Held
<1>2. last \in 1 .. MaxSub /\ enq \in 1 .. MaxSub /\ deq \in 1 .. MaxSub /\ rcu_count \in 1 .. Unlocked - 1
    BY <1>1, Numbers
<1>3. enq' = last /\ succ' = Set(succ, p, Null) /\ Goto(p, "e_register")
    BY <1>1 DEF SetEnq
<1>4. /\ UNCHANGED <<deq, freeq, lock, items, tail, next, dequeue_count, free_count, last, freed>>
      /\ UNCHANGED <<rcu, rcu_count, rcu_cached, subq, num, slot, since, sent, got>>
    BY DEF SetEnq, subs, memory, rcuvars, history
<1>5. /\ pc' \in [Threads -> Locations] /\ pc'[p] = "e_register"
      /\ \A u \in Threads \ {p} : pc'[u] = pc[u]
    BY <1>1, <1>3, Labels, GotoFacts
<1>6. /\ succ' \in [Threads -> Subs \union {Null}]
      /\ \A u \in Threads \ {p} : succ'[u] = succ[u]
    BY <1>1, <1>3, SuccFacts
<1>7. TypeOK'
  <2>1. enq' \in Subs
    BY <1>2, <1>3
  <2>2. QED
    BY <1>4, <1>5, <1>6, <2>1 DEF TypeOK
<1>8. Frame(p)
    BY <1>4, <1>5, <1>6 DEF Frame
<1>9. Local(p)'
  <2>1. subq'[p] \in 1 .. enq' /\ sent'[p] # 0
    BY <1>1, <1>2, <1>3, <1>4
  <2>2. QED
    BY <1>5, <2>1 DEF Local, Looking, LookingC, Counted, Leaving
<1>10. Held(p)'
    BY <1>1, <1>4, <1>5 DEF Held
<1>11. ChainInv'
  <2>1. enq' = last' /\ deq' <= enq'
    BY <1>1, <1>2, <1>3, <1>4 DEF ChainInv
  <2>2. ~ \E q \in Producers : pc'[q] = "e_set_enq"
    BY <1>1, <1>5, <1>8, AloneAfter
  <2>3. QED
    BY <1>4, <2>1, <2>2 DEF ChainInv
<1>12. Counts'
  <2>1. rcu_count <= last + deq - 2
    BY <1>1 DEF Counts, Unregistered
  <2>2. rcu_count' <= last' + deq' - 2 /\ rcu_count' <= last' + deq' - 1
    BY <1>2, <1>4, <2>1
  <2>3. QED
    BY <1>4, <2>2 DEF Counts
<1>13. last <= last' /\ enq <= enq' /\ rcu_count <= rcu_count'
    BY <1>1, <1>2, <1>3, <1>4
<1>14. QED
    BY <1>1, <1>4, <1>5, <1>7, <1>8, <1>9, <1>10, <1>11, <1>12, <1>13, LockedStep DEF Critical

LEMMA KeepEnqRegister ==
    ASSUME IInv, NEW p \in Producers, EnqRegister(p)
    PROVE  IInv'
<1> USE ThreadFacts, Bounds DEF IInv
<1>1. /\ p \in Threads /\ pc[p] = "e_register" /\ lock = p /\ lock \in {Null, p}
      /\ subq[p] \in 1 .. enq /\ sent[p] # 0 /\ subq[p] = last - 1
    BY Holds DEF EnqRegister, At, Critical, Local, Looking, Held
<1>2. last \in 1 .. MaxSub /\ enq \in 1 .. MaxSub /\ deq \in 1 .. MaxSub /\ rcu_count \in 1 .. Unlocked - 1
    BY <1>1, Numbers
<1>3. num' = Set(num, p, rcu_count) /\ rcu_count' = rcu_count + 1 /\ Goto(p, "e_set_count")
    BY DEF EnqRegister, RcuRegister
<1>4. /\ UNCHANGED <<enq, deq, freeq, lock, items, tail, next, dequeue_count, free_count, last, freed>>
      /\ UNCHANGED <<rcu, rcu_cached, subq, succ, slot, since, sent, got>>
    BY DEF EnqRegister, queue, subs, memory, history
<1>5. /\ pc' \in [Threads -> Locations] /\ pc'[p] = "e_set_count"
      /\ \A u \in Threads \ {p} : pc'[u] = pc[u]
    BY <1>1, <1>3, Labels, GotoFacts
<1>6. /\ num' \in [Threads -> 0 .. Unlocked - 1] /\ num'[p] = rcu_count
      /\ \A u \in Threads \ {p} : num'[u] = num[u]
  <2>1. rcu_count \in 0 .. Unlocked - 1
    BY <1>2
  <2>2. QED
    BY <1>1, <1>3, <2>1, NumFacts
<1>7. rcu_count <= last + deq - 2
    BY <1>1 DEF Counts, Unregistered
<1>8. TypeOK'
  <2>1. rcu_count' \in 1 .. Unlocked - 1
    BY <1>2, <1>3, <1>7
  <2>2. QED
    BY <1>4, <1>5, <1>6, <2>1 DEF TypeOK
<1>9. Frame(p)
    BY <1>4, <1>5, <1>6 DEF Frame
<1>10. Local(p)'
  <2>1. subq'[p] \in 1 .. enq' /\ sent'[p] # 0 /\ num'[p] < rcu_count'
    BY <1>1, <1>2, <1>3, <1>4, <1>6
  <2>2. QED
    BY <1>5, <2>1 DEF Local, Looking, LookingC, Counted, Leaving
<1>11. Held(p)'
    BY <1>1, <1>4, <1>5 DEF Held
<1>12. ~ (\E u \in Threads : pc'[u] \in Unregistered) /\ ~ (\E q \in Producers : pc'[q] = "e_set_enq")
    BY <1>1, <1>5, <1>9, AloneAfter DEF Unregistered
<1>13. ChainInv'
  <2>1. ~ (\E q \in Producers : pc[q] = "e_set_enq")
    BY <1>1, Alone
  <2>2. QED
    BY <1>4, <1>12, <2>1 DEF ChainInv
<1>14. Counts'
  <2>1. rcu_count' <= last' + deq' - 1
    BY <1>2, <1>3, <1>4, <1>7
  <2>2. rcu_cached' < rcu_count'
    BY <1>1, <1>2, <1>3, <1>4, Numbers DEF Counts
  <2>3. ASSUME NEW k \in Subs
        PROVE  dequeue_count'[k] < rcu_count' /\ free_count'[k] < rcu_count'
    <3>1. dequeue_count[k] \in 0 .. Unlocked - 1 /\ free_count[k] \in 0 .. Unlocked - 1
        BY DEF TypeOK
    <3>2. dequeue_count[k] < rcu_count /\ free_count[k] < rcu_count
        BY DEF Counts
    <3>3. QED
        BY <1>2, <1>3, <1>4, <3>1, <3>2
  <2>4. QED
    BY <1>12, <2>1, <2>2, <2>3 DEF Counts
<1>15. last <= last' /\ enq <= enq' /\ rcu_count <= rcu_count'
    BY <1>2, <1>3, <1>4
<1>16. QED
    BY <1>1, <1>4, <1>5, <1>8, <1>9, <1>10, <1>11, <1>13, <1>14, <1>15, LockedStep DEF Critical

LEMMA KeepSetDequeueCount ==
    ASSUME IInv, NEW p \in Producers, SetDequeueCount(p)
    PROVE  IInv'
<1> USE ThreadFacts, Bounds DEF IInv
<1>1. /\ p \in Threads /\ pc[p] = "e_set_count" /\ lock = p /\ lock \in {Null, p}
      /\ subq[p] \in 1 .. enq /\ sent[p] # 0 /\ num[p] < rcu_count
    BY Holds DEF SetDequeueCount, Deref, At, Critical, Local, Looking, Counted
<1>2. /\ last \in 1 .. MaxSub /\ enq \in 1 .. MaxSub /\ deq \in 1 .. MaxSub
      /\ rcu_count \in 1 .. Unlocked - 1 /\ num[p] \in 0 .. Unlocked - 1 /\ subq[p] \in Subs
  <2>1. /\ last \in 1 .. MaxSub /\ enq \in 1 .. MaxSub /\ deq \in 1 .. MaxSub
        /\ rcu_count \in 1 .. Unlocked - 1 /\ num[p] \in 0 .. Unlocked - 1
    BY <1>1, Numbers
  <2>2. QED
    BY <1>1, <2>1
<1>3. /\ dequeue_count' = Set(dequeue_count, subq[p], num[p]) /\ lock' = Null
      /\ num' = Set(num, p, 0) /\ subq' = Set(subq, p, Null) /\ Goto(p, "e_retry")
    BY DEF SetDequeueCount
<1>4. /\ UNCHANGED <<enq, deq, freeq, items, tail, next, free_count, last, freed>>
      /\ UNCHANGED <<rcu, rcu_count, rcu_cached, succ, slot, since, sent, got>>
    BY DEF SetDequeueCount, queue, memory, rcuvars, history
<1>5. /\ pc' \in [Threads -> Locations] /\ pc'[p] = "e_retry"
      /\ \A u \in Threads \ {p} : pc'[u] = pc[u]
    BY <1>1, <1>3, Labels, GotoFacts
<1>6. /\ num' \in [Threads -> 0 .. Unlocked - 1]
      /\ \A u \in Threads \ {p} : num'[u] = num[u]
    BY <1>1, <1>3, NumFacts
<1>7. /\ subq' \in [Threads -> Subs \union {Null}]
      /\ \A u \in Threads \ {p} : subq'[u] = subq[u]
    BY <1>1, <1>3, SubqFacts
<1>8. /\ dequeue_count' \in [Subs -> 0 .. Unlocked - 1]
      /\ \A k \in Subs : dequeue_count'[k] < rcu_count
  <2>1. dequeue_count \in [Subs -> 0 .. Unlocked - 1]
    BY DEF TypeOK
  <2>2. /\ dequeue_count' \in [Subs -> 0 .. Unlocked - 1] /\ dequeue_count'[subq[p]] = num[p]
        /\ \A k \in Subs \ {subq[p]} : dequeue_count'[k] = dequeue_count[k]
    BY <1>2, <1>3, <2>1 DEF Set
  <2>3. QED
    BY <1>1, <2>2 DEF Counts
<1>9. TypeOK'
    BY <1>3, <1>4, <1>5, <1>6, <1>7, <1>8 DEF TypeOK
<1>10. Frame(p)
    BY <1>4, <1>5, <1>6, <1>7 DEF Frame
<1>11. Local(p)' /\ Held(p)'
    BY <1>1, <1>4, <1>5 DEF Local, Held, Looking, LookingC, Counted, Leaving
<1>12. /\ (\E q \in Producers : pc[q] = "e_set_enq") <=> (\E q \in Producers : pc'[q] = "e_set_enq")
       /\ ~ (\E u \in Threads : pc'[u] \in Unregistered)
    BY <1>1, <1>5, <1>10, Alone, AloneAfter DEF Unregistered
<1>13. ChainInv' /\ Counts'
    BY <1>4, <1>8, <1>12 DEF ChainInv, Counts
<1>14. last <= last' /\ enq <= enq' /\ rcu_count <= rcu_count'
    BY <1>2, <1>4
<1>15. QED
    BY <1>1, <1>3, <1>5, <1>9, <1>10, <1>11, <1>13, <1>14, LockedStep DEF Critical

LEMMA KeepFree ==
    ASSUME IInv, NEW c \in Consumers, Free(c)
    PROVE  IInv'
<1> USE ThreadFacts, Bounds DEF IInv
<1>1. /\ c \in Threads /\ c \notin Producers /\ pc[c] = "d_free" /\ lock = c /\ lock \in {Null, c}
      /\ subq[c] \in 1 .. last
    BY Holds DEF Free, At, Critical, Local, LookingC
<1>2. UNCHANGED <<enq, deq, subs, last, rcuvars, locals, history>>
    BY DEF Free
<1>3. CASE UNCHANGED <<freed, freeq, lock, pc>>
    BY <1>2, <1>3, KeepFault DEF queue, memory
<1>4. CASE /\ freeq # Garbage /\ freed' = freed \union ({freeq} \ {Null})
           /\ freeq' = Null /\ lock' = Null /\ Goto(c, "d_next")
  <2>1. /\ pc' \in [Threads -> Locations] /\ pc'[c] = "d_next"
        /\ \A u \in Threads \ {c} : pc'[u] = pc[u]
    BY <1>1, <1>4, Labels, GotoFacts
  <2>2. freed' \subseteq Subs
    BY <1>4 DEF TypeOK
  <2>3. /\ UNCHANGED <<enq, deq, items, tail, next, dequeue_count, free_count, last>>
        /\ UNCHANGED <<rcu, rcu_count, rcu_cached, subq, num, succ, slot, since, sent, got>>
    BY <1>2 DEF subs, rcuvars, locals, history
  <2>4. TypeOK'
    BY <1>4, <2>1, <2>2, <2>3 DEF TypeOK
  <2>5. Frame(c)
    BY <2>1, <2>3 DEF Frame
  <2>6. Local(c)' /\ Held(c)'
    BY <1>1, <2>1, <2>3 DEF Local, Held, Looking, LookingC, Counted, Leaving
  <2>7. /\ (\E q \in Producers : pc[q] = "e_set_enq") <=> (\E q \in Producers : pc'[q] = "e_set_enq")
        /\ (\E u \in Threads : pc[u] \in Unregistered) <=> (\E u \in Threads : pc'[u] \in Unregistered)
    BY <1>1, <2>1, <2>5, Alone, AloneAfter DEF Unregistered
  <2>8. ChainInv' /\ Counts'
    BY <2>3, <2>7 DEF ChainInv, Counts
  <2>9. last <= last' /\ enq <= enq' /\ rcu_count <= rcu_count'
    BY <1>1, <2>3, Numbers
  <2>10. QED
    BY <1>1, <1>4, <2>1, <2>4, <2>5, <2>6, <2>8, <2>9, LockedStep DEF Critical
<1>5. QED
    BY <1>3, <1>4 DEF Free

LEMMA KeepSetDeq ==
    ASSUME IInv, NEW c \in Consumers, SetDeq(c)
    PROVE  IInv'
<1> USE ThreadFacts, Bounds DEF IInv
<1>1. /\ c \in Threads /\ c \notin Producers /\ pc[c] = "d_set_deq" /\ lock = c /\ lock \in {Null, c}
      /\ subq[c] \in 1 .. last /\ subq[c] = deq
      /\ succ[c] = subq[c] + 1 /\ succ[c] <= last
    BY Holds DEF SetDeq, At, Critical, Local, LookingC, Leaving, Held
<1>2. last \in 1 .. MaxSub /\ enq \in 1 .. MaxSub /\ deq \in 1 .. MaxSub /\ rcu_count \in 1 .. Unlocked - 1
    BY <1>1, Numbers
<1>3. deq' = deq + 1 /\ deq' \in Subs /\ deq' <= last /\ Goto(c, "d_register")
    BY <1>1, <1>2 DEF SetDeq
<1>4. /\ UNCHANGED <<enq, freeq, lock, items, tail, next, dequeue_count, free_count, last, freed>>
      /\ UNCHANGED <<rcu, rcu_count, rcu_cached, subq, num, succ, slot, since, sent, got>>
    BY DEF SetDeq, subs, memory, rcuvars, locals, history
<1>5. /\ pc' \in [Threads -> Locations] /\ pc'[c] = "d_register"
      /\ \A u \in Threads \ {c} : pc'[u] = pc[u]
    BY <1>1, <1>3, Labels, GotoFacts
<1>6. TypeOK'
    BY <1>3, <1>4, <1>5 DEF TypeOK
<1>7. Frame(c)
    BY <1>4, <1>5 DEF Frame
<1>8. Local(c)'
    BY <1>1, <1>4, <1>5 DEF Local, Looking, LookingC, Counted, Leaving
<1>9. Held(c)'
  <2>1. subq'[c] = deq' - 1
    BY <1>1, <1>2, <1>3, <1>4
  <2>2. QED
    BY <1>5, <2>1 DEF Held
<1>10. ~ (\E q \in Producers : pc[q] = "e_set_enq") /\ ~ (\E q \in Producers : pc'[q] = "e_set_enq")
    BY <1>1, <1>7, Alone, AloneAfter
<1>11. ChainInv'
  <2>1. enq = last
    BY <1>10 DEF ChainInv
  <2>2. QED
    BY <1>3, <1>4, <1>10, <2>1 DEF ChainInv
<1>12. Counts'
  <2>1. rcu_count <= last + deq - 1
    BY DEF Counts
  <2>2. rcu_count' <= last' + deq' - 2 /\ rcu_count' <= last' + deq' - 1
    BY <1>2, <1>3, <1>4, <2>1
  <2>3. QED
    BY <1>4, <2>2 DEF Counts
<1>13. last <= last' /\ enq <= enq' /\ rcu_count <= rcu_count'
    BY <1>2, <1>4
<1>14. QED
    BY <1>1, <1>4, <1>5, <1>6, <1>7, <1>8, <1>9, <1>11, <1>12, <1>13, LockedStep DEF Critical

LEMMA KeepDeqRegister ==
    ASSUME IInv, NEW c \in Consumers, DeqRegister(c)
    PROVE  IInv'
<1> USE ThreadFacts, Bounds DEF IInv
<1>1. /\ c \in Threads /\ c \notin Producers /\ pc[c] = "d_register" /\ lock = c /\ lock \in {Null, c}
      /\ subq[c] \in 1 .. last /\ subq[c] = deq - 1
      /\ succ[c] = subq[c] + 1 /\ succ[c] <= last
    BY Holds DEF DeqRegister, At, Critical, Local, LookingC, Leaving, Held
<1>2. last \in 1 .. MaxSub /\ enq \in 1 .. MaxSub /\ deq \in 1 .. MaxSub /\ rcu_count \in 1 .. Unlocked - 1
    BY <1>1, Numbers
<1>3. num' = Set(num, c, rcu_count) /\ rcu_count' = rcu_count + 1 /\ Goto(c, "d_set_free_count")
    BY DEF DeqRegister, RcuRegister
<1>4. /\ UNCHANGED <<enq, deq, freeq, lock, items, tail, next, dequeue_count, free_count, last, freed>>
      /\ UNCHANGED <<rcu, rcu_cached, subq, succ, slot, since, sent, got>>
    BY DEF DeqRegister, queue, subs, memory, history
<1>5. /\ pc' \in [Threads -> Locations] /\ pc'[c] = "d_set_free_count"
      /\ \A u \in Threads \ {c} : pc'[u] = pc[u]
    BY <1>1, <1>3, Labels, GotoFacts
<1>6. /\ num' \in [Threads -> 0 .. Unlocked - 1] /\ num'[c] = rcu_count
      /\ \A u \in Threads \ {c} : num'[u] = num[u]
  <2>1. rcu_count \in 0 .. Unlocked - 1
    BY <1>2
  <2>2. QED
    BY <1>1, <1>3, <2>1, NumFacts
<1>7. rcu_count <= last + deq - 2
    BY <1>1 DEF Counts, Unregistered
<1>8. TypeOK'
  <2>1. rcu_count' \in 1 .. Unlocked - 1
    BY <1>2, <1>3, <1>7
  <2>2. QED
    BY <1>4, <1>5, <1>6, <2>1 DEF TypeOK
<1>9. Frame(c)
    BY <1>4, <1>5, <1>6 DEF Frame
<1>10. Local(c)'
  <2>1. num'[c] < rcu_count'
    BY <1>2, <1>3, <1>6
  <2>2. QED
    BY <1>1, <1>4, <1>5, <2>1 DEF Local, Looking, LookingC, Counted, Leaving
<1>11. Held(c)'
    BY <1>1, <1>4, <1>5 DEF Held
<1>12. ~ (\E u \in Threads : pc'[u] \in Unregistered) /\ ~ (\E q \in Producers : pc'[q] = "e_set_enq")
    BY <1>1, <1>5, <1>9, AloneAfter DEF Unregistered
<1>13. ChainInv'
  <2>1. ~ (\E q \in Producers : pc[q] = "e_set_enq")
    BY <1>1, Alone
  <2>2. QED
    BY <1>4, <1>12, <2>1 DEF ChainInv
<1>14. Counts'
  <2>1. rcu_count' <= last' + deq' - 1
    BY <1>2, <1>3, <1>4, <1>7
  <2>2. rcu_cached' < rcu_count'
    BY <1>1, <1>2, <1>3, <1>4, Numbers DEF Counts
  <2>3. ASSUME NEW k \in Subs
        PROVE  dequeue_count'[k] < rcu_count' /\ free_count'[k] < rcu_count'
    <3>1. dequeue_count[k] \in 0 .. Unlocked - 1 /\ free_count[k] \in 0 .. Unlocked - 1
        BY DEF TypeOK
    <3>2. dequeue_count[k] < rcu_count /\ free_count[k] < rcu_count
        BY DEF Counts
    <3>3. QED
        BY <1>2, <1>3, <1>4, <3>1, <3>2
  <2>4. QED
    BY <1>12, <2>1, <2>2, <2>3 DEF Counts
<1>15. last <= last' /\ enq <= enq' /\ rcu_count <= rcu_count'
    BY <1>2, <1>3, <1>4
<1>16. QED
    BY <1>1, <1>4, <1>5, <1>8, <1>9, <1>10, <1>11, <1>13, <1>14, <1>15, LockedStep DEF Critical

LEMMA KeepSetFreeCount ==
    ASSUME IInv, NEW c \in Consumers, SetFreeCount(c)
    PROVE  IInv'
<1> USE ThreadFacts, Bounds DEF IInv
<1>1. /\ c \in Threads /\ c \notin Producers /\ pc[c] = "d_set_free_count"
      /\ lock = c /\ lock \in {Null, c} /\ subq[c] \in 1 .. last /\ num[c] < rcu_count
      /\ succ[c] = subq[c] + 1 /\ succ[c] <= last
    BY Holds DEF SetFreeCount, Deref, At, Critical, Local, LookingC, Leaving, Counted
<1>2. /\ last \in 1 .. MaxSub /\ enq \in 1 .. MaxSub /\ deq \in 1 .. MaxSub
      /\ rcu_count \in 1 .. Unlocked - 1 /\ num[c] \in 0 .. Unlocked - 1 /\ subq[c] \in Subs
  <2>1. /\ last \in 1 .. MaxSub /\ enq \in 1 .. MaxSub /\ deq \in 1 .. MaxSub
        /\ rcu_count \in 1 .. Unlocked - 1 /\ num[c] \in 0 .. Unlocked - 1
    BY <1>1, Numbers
  <2>2. QED
    BY <1>1, <2>1
<1>3. /\ free_count' = Set(free_count, subq[c], num[c]) /\ lock' = Null /\ Goto(c, "d_advance")
    BY DEF SetFreeCount
<1>4. /\ UNCHANGED <<enq, deq, freeq, items, tail, next, dequeue_count, last, freed>>
      /\ UNCHANGED <<rcu, rcu_count, rcu_cached, subq, num, succ, slot, since, sent, got>>
    BY DEF SetFreeCount, queue, memory, rcuvars, locals, history
<1>5. /\ pc' \in [Threads -> Locations] /\ pc'[c] = "d_advance"
      /\ \A u \in Threads \ {c} : pc'[u] = pc[u]
    BY <1>1, <1>3, Labels, GotoFacts
<1>6. /\ free_count' \in [Subs -> 0 .. Unlocked - 1]
      /\ \A k \in Subs : free_count'[k] < rcu_count
  <2>1. free_count \in [Subs -> 0 .. Unlocked - 1]
    BY DEF TypeOK
  <2>2. /\ free_count' \in [Subs -> 0 .. Unlocked - 1] /\ free_count'[subq[c]] = num[c]
        /\ \A k \in Subs \ {subq[c]} : free_count'[k] = free_count[k]
    BY <1>2, <1>3, <2>1 DEF Set
  <2>3. QED
    BY <1>1, <2>2 DEF Counts
<1>7. TypeOK'
    BY <1>3, <1>4, <1>5, <1>6 DEF TypeOK
<1>8. Frame(c)
    BY <1>4, <1>5 DEF Frame
<1>9. Local(c)' /\ Held(c)'
    BY <1>1, <1>4, <1>5 DEF Local, Held, Looking, LookingC, Counted, Leaving
<1>10. /\ (\E q \in Producers : pc[q] = "e_set_enq") <=> (\E q \in Producers : pc'[q] = "e_set_enq")
       /\ ~ (\E u \in Threads : pc'[u] \in Unregistered)
    BY <1>1, <1>5, <1>8, Alone, AloneAfter DEF Unregistered
<1>11. ChainInv' /\ Counts'
    BY <1>4, <1>6, <1>10 DEF ChainInv, Counts
<1>12. last <= last' /\ enq <= enq' /\ rcu_count <= rcu_count'
    BY <1>2, <1>4
<1>13. QED
    BY <1>1, <1>3, <1>5, <1>7, <1>8, <1>9, <1>11, <1>12, LockedStep DEF Critical

-----------------------------------------------------------------------------
(* Theorems *)

LEMMA InitIInv ==
    ASSUME Init
    PROVE  IInv
<1> USE ThreadFacts, Bounds
<1>1. TypeOK
  <2>1. /\ 1 \in Subs /\ 0 \in 0 .. Unlocked - 1 /\ 1 \in 1 .. Unlocked - 1
        /\ Unlocked \in 1 .. Unlocked /\ 0 \in 0 .. N + 1 /\ 0 \in 0 .. MaxSend
        /\ "idle" \in Locations /\ << >> \in Seq(Values)
    BY Labels
  <2>2. freeq \in Subs \union {Null, Garbage}
    BY MallocAssumption DEF Init
  <2>3. QED
    BY <2>1, <2>2 DEF Init, TypeOK
<1>2. LockInv /\ (\A t \in Threads : Local(t)) /\ (\A t \in Threads : Held(t))
    BY DEF Init, LockInv, Local, Held, Critical, Looking, LookingC, Leaving, Counted
<1>3. ChainInv /\ Counts
    BY DEF Init, ChainInv, Counts, Unregistered
<1>4. QED
    BY <1>1, <1>2, <1>3 DEF IInv

LEMMA NextIInv ==
    ASSUME IInv, [Next]_vars
    PROVE  IInv'
<1> USE ThreadFacts
<1>1. ASSUME NEW t \in Threads, Step(t)
      PROVE  IInv'
  <2>1. CASE t \in Producers /\ EnqStep(t)
    BY <2>1, KeepReadEnq, KeepSubEnqueue, KeepEnqUnlock, KeepCheckNext, KeepGrow,
       KeepSetEnq, KeepEnqRegister, KeepSetDequeueCount DEF EnqStep
  <2>2. CASE t \in Consumers /\ DeqStep(t)
    BY <2>2, KeepDeqCall, KeepReadDeq, KeepSubDequeue, KeepReadFreeq,
       KeepReadFreeCount, KeepFreeSafe, KeepFreeScan, KeepFree, KeepReadNext,
       KeepCheckFreeq, KeepReadDequeueCount, KeepRetireSafe, KeepRetireScan,
       KeepSetDeq, KeepDeqRegister, KeepSetFreeCount, KeepAdvance, KeepDeqUnlock
       DEF DeqStep
  <2>3. CASE RcuLoad(t) \/ RcuStore(t)
    BY <2>3, KeepRcuLoad, KeepRcuStore
  <2>4. CASE TouchFreed(t)
    BY <2>4, KeepFault DEF TouchFreed
  <2>5. QED
    BY <1>1, <2>1, <2>2, <2>3, <2>4 DEF Step
<1>2. ASSUME NEW t \in Threads, LockStep(t)
      PROVE  IInv'
    BY <1>2, KeepEnqLock, KeepFreeLock, KeepRetire DEF LockStep
<1>3. CASE UNCHANGED vars
    BY <1>3, KeepFault DEF vars
<1>4. QED
    BY <1>1, <1>2, <1>3 DEF Next, Stopped

LEMMA Inductive == Spec => []IInv
<1>1. Init => IInv
    BY InitIInv
<1>2. IInv /\ [Next]_vars => IInv'
    BY NextIInv
<1>3. QED
    BY <1>1, <1>2, PTL DEF Spec

\* The variables keep their types for every number of threads and every bound:
\* in particular global_rcu_count stays below RCU_UNLOCKED, since a subqueue
\* is registered at most twice.
THEOREM Typing == Spec => []TypeOK
<1>1. IInv => TypeOK
    BY DEF IInv
<1>2. QED
    BY <1>1, Inductive, PTL

\* The lock's critical sections exclude one another.
THEOREM Locking == Spec => []LockInv
<1>1. IInv => LockInv
    BY DEF IInv
<1>2. QED
    BY <1>1, Inductive, PTL

\* The subqueues form one chain that only the holder of the lock extends.
THEOREM Chain == Spec => []ChainInv
<1>1. IInv => ChainInv
    BY DEF IInv
<1>2. QED
    BY <1>1, Inductive, PTL

\* The assertions of lines 407 and 199 never fail.
THEOREM Asserted == Spec => []Assertions
<1>1. ASSUME IInv, NEW p \in Producers, pc[p] = "e_next", next[subq[p]] # Null
      PROVE  subq[p] # enq
  <2>1. p \in Threads /\ subq[p] \in 1 .. enq /\ lock \in {Null, p}
    BY <1>1, ThreadFacts, Holds DEF IInv, Local, Looking, Critical
  <2>2. /\ last \in 1 .. MaxSub /\ enq \in 1 .. MaxSub
    BY <1>1, <2>1, Numbers DEF IInv
  <2>3. enq = last
    BY <1>1, <2>1, Alone DEF IInv, ChainInv
  <2>4. subq[p] \in Subs /\ (subq[p] < last => subq[p] # last)
    BY <2>1, <2>2, <2>3, Bounds
  <2>5. next[subq[p]] = IF subq[p] < last THEN subq[p] + 1 ELSE Null
    BY <1>1, <2>4 DEF IInv, ChainInv
  <2>6. QED
    BY <1>1, <2>3, <2>4, <2>5
<1>2. ASSUME IInv, NEW c \in Consumers, pc[c] \in {"d_free_safe", "d_retire_safe"}
      PROVE  num[c] < rcu_count
    BY <1>2, ThreadFacts DEF IInv, Local, Counted
<1>3. IInv => Assertions
    BY <1>1, <1>2 DEF Assertions
<1>4. QED
    BY <1>3, Inductive, PTL

-----------------------------------------------------------------------------
(* What happens to the old subqueues *)

\* The subqueue a consumer has just retired is the one that waits.
Retired(t) == pc[t] \in {"d_register", "d_set_free_count"} => freeq = deq - 1

OInv == IInv /\ OldInv /\ \A t \in Threads : Retired(t)

\* A step that is none of the three that move deq and freeq.
Others(t) ==
    \/ EnqStep(t) /\ t \in Producers
    \/ /\ t \in Consumers
       /\ \/ DeqCall(t) \/ ReadDeq(t) \/ SubDequeue(t) \/ ReadFreeq(t)
          \/ ReadFreeCount(t) \/ FreeSafe(t) \/ FreeScan(t) \/ ReadNext(t)
          \/ CheckFreeq(t) \/ ReadDequeueCount(t) \/ RetireSafe(t) \/ RetireScan(t)
          \/ DeqRegister(t) \/ SetFreeCount(t) \/ Advance(t) \/ DeqUnlock(t)
    \/ RcuLoad(t) \/ RcuStore(t) \/ TouchFreed(t)
    \/ t \in Producers /\ EnqLock(t)
    \/ t \in Consumers /\ FreeLock(t)

LEMMA Splits ==
    ASSUME NEW t \in Threads, Step(t) \/ LockStep(t)
    PROVE  \/ Others(t)
           \/ t \in Consumers /\ (Free(t) \/ Retire(t) \/ SetDeq(t))
BY DEF Step, LockStep, Others, DeqStep

\* What the other steps leave alone.
LEMMA OthersKeep ==
    ASSUME TypeOK, NEW t \in Threads, Others(t)
    PROVE  /\ UNCHANGED <<deq, freeq, freed>>
           /\ \A u \in Threads \ {t} : pc'[u] = pc[u]
           /\ pc'[t] = "d_set_deq" <=> pc[t] = "d_set_deq"
           /\ pc'[t] \in {"d_register", "d_set_free_count"}
                => pc[t] \in {"d_register", "d_set_free_count"}
<1> USE DEF Goto, At, Deref, queue, memory
<1>1. pc \in [Threads -> Locations]
    BY DEF TypeOK
<1>2. CASE ReadEnq(t)
    BY <1>1, <1>2 DEF ReadEnq
<1>3. CASE SubEnqueue(t)
    BY <1>1, <1>3 DEF SubEnqueue
<1>4. CASE EnqUnlock(t)
    BY <1>1, <1>4 DEF EnqUnlock
<1>5. CASE CheckNext(t)
    BY <1>1, <1>5 DEF CheckNext
<1>6. CASE Grow(t)
    BY <1>1, <1>6 DEF Grow
<1>7. CASE SetEnq(t)
    BY <1>1, <1>7 DEF SetEnq
<1>8. CASE EnqRegister(t)
    BY <1>1, <1>8 DEF EnqRegister
<1>9. CASE SetDequeueCount(t)
    BY <1>1, <1>9 DEF SetDequeueCount
<1>10. CASE DeqCall(t)
    BY <1>1, <1>10 DEF DeqCall
<1>11. CASE ReadDeq(t)
    BY <1>1, <1>11 DEF ReadDeq
<1>12. CASE SubDequeue(t)
    BY <1>1, <1>12 DEF SubDequeue
<1>13. CASE ReadFreeq(t)
    BY <1>1, <1>13 DEF ReadFreeq
<1>14. CASE ReadFreeCount(t)
    BY <1>1, <1>14 DEF ReadFreeCount
<1>15. CASE FreeSafe(t)
    BY <1>1, <1>15 DEF FreeSafe, RcuSafe
<1>16. CASE FreeScan(t)
    BY <1>1, <1>16 DEF FreeScan, RcuScan
<1>17. CASE ReadNext(t)
    BY <1>1, <1>17 DEF ReadNext
<1>18. CASE CheckFreeq(t)
    BY <1>1, <1>18 DEF CheckFreeq
<1>19. CASE ReadDequeueCount(t)
    BY <1>1, <1>19 DEF ReadDequeueCount
<1>20. CASE RetireSafe(t)
    BY <1>1, <1>20 DEF RetireSafe, RcuSafe
<1>21. CASE RetireScan(t)
    BY <1>1, <1>21 DEF RetireScan, RcuScan
<1>22. CASE DeqRegister(t)
    BY <1>1, <1>22 DEF DeqRegister
<1>23. CASE SetFreeCount(t)
    BY <1>1, <1>23 DEF SetFreeCount
<1>24. CASE Advance(t)
    BY <1>1, <1>24 DEF Advance
<1>25. CASE DeqUnlock(t)
    BY <1>1, <1>25 DEF DeqUnlock
<1>26. CASE EnqLock(t)
    BY <1>1, <1>26 DEF EnqLock
<1>27. CASE FreeLock(t)
    BY <1>1, <1>27 DEF FreeLock
<1>28. CASE RcuLoad(t)
    BY <1>1, <1>28 DEF RcuLoad
<1>29. CASE RcuStore(t)
    BY <1>1, <1>29 DEF RcuStore
<1>30. CASE TouchFreed(t)
    BY <1>1, <1>30 DEF TouchFreed
<1>31. QED
    BY <1>2, <1>3, <1>4, <1>5, <1>6, <1>7, <1>8, <1>9, <1>10, <1>11, <1>12, <1>13, <1>14, <1>15, <1>16, <1>17, <1>18, <1>19, <1>20, <1>21, <1>22, <1>23, <1>24, <1>25, <1>26, <1>27, <1>28, <1>29, <1>30 DEF Others, EnqStep

LEMMA KeepOld ==
    ASSUME MallocFreeq = {Null}, OInv, [Next]_vars
    PROVE  OInv'
<1> USE ThreadFacts, Bounds
<1>1. IInv /\ TypeOK /\ IInv'
    BY NextIInv DEF OInv, IInv
<1>2. ASSUME NEW t \in Threads, Others(t)
      PROVE  OldInv' /\ \A u \in Threads : Retired(u)'
  <2>1. UNCHANGED <<deq, freeq, freed>> /\ \A u \in Threads : pc'[u] = "d_set_deq" <=> pc[u] = "d_set_deq"
    BY <1>1, <1>2, OthersKeep
  <2>2. \A u \in Threads : pc'[u] \in {"d_register", "d_set_free_count"}
                               => pc[u] \in {"d_register", "d_set_free_count"}
    BY <1>1, <1>2, OthersKeep
  <2>3. OldInv'
    BY <2>1 DEF OldInv, OInv
  <2>4. QED
    BY <2>1, <2>2, <2>3 DEF Retired, OInv
<1>3. ASSUME NEW c \in Consumers, Free(c)
      PROVE  OldInv' /\ \A u \in Threads : Retired(u)'
  <2>1. c \in Threads /\ pc[c] = "d_free" /\ lock \in {Null, c}
    BY <1>1, <1>3, Holds DEF Free, At, Critical
  <2>2. \A u \in Threads \ {c} : pc[u] \notin Critical
    BY <1>1, <2>1, Alone
  <2>3. deq \in 1 .. MaxSub
    BY <1>1, <2>1, Numbers
  <2>4. freeq \in {Null, deq - 1} /\ freed = (1 .. deq - 1) \ {freeq}
    BY <2>1, <2>2 DEF OInv, OldInv, Critical
  <2>5. /\ freed' = freed \union ({freeq} \ {Null})
        /\ freeq' = Null /\ deq' = deq /\ Goto(c, "d_next")
    <3>1. freeq # Garbage
        BY <2>3, <2>4
    <3>2. QED
        BY <1>3, <3>1 DEF Free
  <2>6. pc'[c] = "d_next" /\ \A u \in Threads \ {c} : pc'[u] = pc[u]
    BY <1>1, <2>1, <2>5, Labels, GotoFacts
  <2>7. \A u \in Threads : pc'[u] \notin {"d_set_deq", "d_register", "d_set_free_count"}
    BY <2>2, <2>6 DEF Critical
  <2>8. freed' = (1 .. deq' - 1) \ {freeq'}
    BY <2>3, <2>4, <2>5
  <2>9. QED
    BY <2>5, <2>7, <2>8 DEF OldInv, Retired
<1>4. ASSUME NEW c \in Consumers, Retire(c)
      PROVE  OldInv' /\ \A u \in Threads : Retired(u)'
  <2>1. c \in Threads /\ pc[c] = "d_retire_lock" /\ lock = Null /\ lock \in {Null, c}
    BY <1>1, <1>4 DEF Retire, At
  <2>2. \A u \in Threads : pc[u] \notin Critical
    BY <1>1, <2>1, Alone DEF Critical
  <2>3. deq \in 1 .. MaxSub
    BY <1>1, <2>1, Numbers
  <2>4. freeq \in {Null, deq - 1} /\ freed = (1 .. deq - 1) \ {freeq}
    BY <2>2 DEF OInv, OldInv, Critical
  <2>5. deq' = deq /\ freed' = freed
    BY <1>4 DEF Retire, memory
  <2>6. CASE freeq = Null /\ deq = subq[c] /\ freeq' = subq[c] /\ Goto(c, "d_set_deq")
    <3>1. pc'[c] = "d_set_deq" /\ \A u \in Threads \ {c} : pc'[u] = pc[u]
        BY <1>1, <2>1, <2>6, Labels, GotoFacts
    <3>2. freeq' = deq' /\ freed' = 1 .. deq' - 1
        BY <2>3, <2>4, <2>5, <2>6
    <3>3. QED
        BY <2>2, <3>1, <3>2 DEF OldInv, Retired, Critical
  <2>7. CASE UNCHANGED freeq /\ Goto(c, "d_advance")
    <3>1. pc'[c] = "d_advance" /\ \A u \in Threads \ {c} : pc'[u] = pc[u]
        BY <1>1, <2>1, <2>7, Labels, GotoFacts
    <3>2. QED
        BY <2>2, <2>4, <2>5, <2>7, <3>1 DEF OldInv, Retired, Critical
  <2>8. QED
    BY <1>4, <2>6, <2>7 DEF Retire
<1>5. ASSUME NEW c \in Consumers, SetDeq(c)
      PROVE  OldInv' /\ \A u \in Threads : Retired(u)'
  <2>1. /\ c \in Threads /\ pc[c] = "d_set_deq" /\ lock \in {Null, c}
        /\ subq[c] = deq /\ succ[c] = subq[c] + 1
    BY <1>1, <1>5, Holds DEF SetDeq, At, Critical, IInv, Local, Held, Leaving
  <2>2. \A u \in Threads \ {c} : pc[u] \notin Critical
    BY <1>1, <2>1, Alone
  <2>3. deq \in 1 .. MaxSub
    BY <1>1, <2>1, Numbers
  <2>4. freeq = deq /\ freed = 1 .. deq - 1
    BY <2>1 DEF OInv, OldInv
  <2>5. deq' = deq + 1 /\ freeq' = freeq /\ freed' = freed /\ Goto(c, "d_register")
    BY <1>5, <2>1 DEF SetDeq, memory
  <2>6. pc'[c] = "d_register" /\ \A u \in Threads \ {c} : pc'[u] = pc[u]
    BY <1>1, <2>1, <2>5, Labels, GotoFacts
  <2>7. \A u \in Threads : pc'[u] # "d_set_deq"
    BY <2>2, <2>6 DEF Critical
  <2>8. freeq' = deq' - 1 /\ freed' = (1 .. deq' - 1) \ {freeq'}
    BY <2>3, <2>4, <2>5
  <2>9. QED
    BY <2>7, <2>8 DEF OldInv, Retired
<1>6. CASE UNCHANGED vars
  <2>1. freeq' = freeq /\ deq' = deq /\ freed' = freed /\ pc' = pc
    BY <1>6 DEF vars, queue, memory
  <2>2. OldInv'
    BY <2>1 DEF OInv, OldInv
  <2>3. \A t \in Threads : Retired(t)'
    BY <2>1 DEF OInv, Retired
  <2>4. QED
    BY <1>1, <2>2, <2>3 DEF OInv
<1>7. QED
    BY <1>1, <1>2, <1>3, <1>4, <1>5, <1>6, Splits DEF Next, Stopped, OInv

LEMMA InitOld ==
    ASSUME MallocFreeq = {Null}, Init
    PROVE  OInv
<1> USE ThreadFacts, Bounds
<1>1. IInv
    BY InitIInv
<1>2. OldInv
    BY DEF Init, OldInv
<1>3. QED
    BY <1>1, <1>2 DEF OInv, Retired, Init

\* Every subqueue the consumers have left is freed or waits in q->freeq: no
\* subqueue leaks, none is freed twice, whatever the number of threads.
THEOREM Old ==
    ASSUME MallocFreeq = {Null}
    PROVE  Spec => []OldInv
<1>1. Init => OInv
    BY InitOld
<1>2. OInv /\ [Next]_vars => OInv'
    BY KeepOld
<1>3. OInv => OldInv
    BY DEF OInv
<1>4. QED
    BY <1>1, <1>2, <1>3, PTL DEF Spec

-----------------------------------------------------------------------------
(* Who touches a freed subqueue *)

\* A step changes the pointers of no thread but its own.
LEMMA OthersStay ==
    ASSUME TypeOK, NEW t \in Threads, Step(t) \/ LockStep(t)
    PROVE  \A u \in Threads \ {t} : pc'[u] = pc[u] /\ subq'[u] = subq[u] /\ succ'[u] = succ[u]
<1> USE DEF Goto, Set, locals
<1>1. /\ pc \in [Threads -> Locations] /\ subq \in [Threads -> Subs \union {Null}]
      /\ succ \in [Threads -> Subs \union {Null}]
    BY DEF TypeOK
<1>2. CASE ReadEnq(t)
    BY <1>1, <1>2 DEF ReadEnq
<1>3. CASE SubEnqueue(t)
    BY <1>1, <1>3 DEF SubEnqueue
<1>4. CASE EnqUnlock(t)
    BY <1>1, <1>4 DEF EnqUnlock
<1>5. CASE CheckNext(t)
    BY <1>1, <1>5 DEF CheckNext
<1>6. CASE Grow(t)
    BY <1>1, <1>6 DEF Grow
<1>7. CASE SetEnq(t)
    BY <1>1, <1>7 DEF SetEnq
<1>8. CASE EnqRegister(t)
    BY <1>1, <1>8 DEF EnqRegister, RcuRegister
<1>9. CASE SetDequeueCount(t)
    BY <1>1, <1>9 DEF SetDequeueCount
<1>10. CASE DeqCall(t)
    BY <1>1, <1>10 DEF DeqCall
<1>11. CASE ReadDeq(t)
    BY <1>1, <1>11 DEF ReadDeq
<1>12. CASE SubDequeue(t)
    BY <1>1, <1>12 DEF SubDequeue
<1>13. CASE ReadFreeq(t)
    BY <1>1, <1>13 DEF ReadFreeq
<1>14. CASE ReadFreeCount(t)
    BY <1>1, <1>14 DEF ReadFreeCount
<1>15. CASE FreeSafe(t)
    BY <1>1, <1>15 DEF FreeSafe, RcuSafe
<1>16. CASE FreeScan(t)
    BY <1>1, <1>16 DEF FreeScan, RcuScan
<1>17. CASE Free(t)
    BY <1>1, <1>17 DEF Free
<1>18. CASE ReadNext(t)
    BY <1>1, <1>18 DEF ReadNext
<1>19. CASE CheckFreeq(t)
    BY <1>1, <1>19 DEF CheckFreeq
<1>20. CASE ReadDequeueCount(t)
    BY <1>1, <1>20 DEF ReadDequeueCount
<1>21. CASE RetireSafe(t)
    BY <1>1, <1>21 DEF RetireSafe, RcuSafe
<1>22. CASE RetireScan(t)
    BY <1>1, <1>22 DEF RetireScan, RcuScan
<1>23. CASE SetDeq(t)
    BY <1>1, <1>23 DEF SetDeq
<1>24. CASE DeqRegister(t)
    BY <1>1, <1>24 DEF DeqRegister, RcuRegister
<1>25. CASE SetFreeCount(t)
    BY <1>1, <1>25 DEF SetFreeCount
<1>26. CASE Advance(t)
    BY <1>1, <1>26 DEF Advance
<1>27. CASE DeqUnlock(t)
    BY <1>1, <1>27 DEF DeqUnlock
<1>28. CASE EnqLock(t)
    BY <1>1, <1>28 DEF EnqLock
<1>29. CASE FreeLock(t)
    BY <1>1, <1>29 DEF FreeLock
<1>30. CASE Retire(t)
    BY <1>1, <1>30 DEF Retire
<1>31. CASE RcuLoad(t)
    BY <1>1, <1>31 DEF RcuLoad
<1>32. CASE RcuStore(t)
    BY <1>1, <1>32 DEF RcuStore
<1>33. CASE TouchFreed(t)
    BY <1>1, <1>33 DEF TouchFreed
<1>34. QED
    BY <1>2, <1>3, <1>4, <1>5, <1>6, <1>7, <1>8, <1>9, <1>10, <1>11, <1>12, <1>13, <1>14, <1>15, <1>16, <1>17, <1>18, <1>19, <1>20, <1>21, <1>22, <1>23, <1>24, <1>25, <1>26, <1>27, <1>28, <1>29, <1>30, <1>31, <1>32, <1>33 DEF Step, LockStep, EnqStep, DeqStep

\* No other step reports the use of freed memory.
LEMMA Faults ==
    ASSUME NEW t \in Threads, Step(t) \/ LockStep(t)
    PROVE  TouchFreed(t) \/ fault' \in {fault, "max_size reached", "free of a pointer that is no subqueue"}
<1>1. CASE ReadEnq(t)
    BY <1>1 DEF ReadEnq
<1>2. CASE SubEnqueue(t)
    BY <1>2 DEF SubEnqueue
<1>3. CASE EnqUnlock(t)
    BY <1>3 DEF EnqUnlock
<1>4. CASE CheckNext(t)
    BY <1>4 DEF CheckNext
<1>5. CASE Grow(t)
    BY <1>5 DEF Grow
<1>6. CASE SetEnq(t)
    BY <1>6 DEF SetEnq
<1>7. CASE EnqRegister(t)
    BY <1>7 DEF EnqRegister, RcuRegister
<1>8. CASE SetDequeueCount(t)
    BY <1>8 DEF SetDequeueCount
<1>9. CASE DeqCall(t)
    BY <1>9 DEF DeqCall
<1>10. CASE ReadDeq(t)
    BY <1>10 DEF ReadDeq
<1>11. CASE SubDequeue(t)
    BY <1>11 DEF SubDequeue
<1>12. CASE ReadFreeq(t)
    BY <1>12 DEF ReadFreeq
<1>13. CASE ReadFreeCount(t)
    BY <1>13 DEF ReadFreeCount
<1>14. CASE FreeSafe(t)
    BY <1>14 DEF FreeSafe, RcuSafe
<1>15. CASE FreeScan(t)
    BY <1>15 DEF FreeScan, RcuScan
<1>16. CASE Free(t)
    BY <1>16 DEF Free
<1>17. CASE ReadNext(t)
    BY <1>17 DEF ReadNext
<1>18. CASE CheckFreeq(t)
    BY <1>18 DEF CheckFreeq
<1>19. CASE ReadDequeueCount(t)
    BY <1>19 DEF ReadDequeueCount
<1>20. CASE RetireSafe(t)
    BY <1>20 DEF RetireSafe, RcuSafe
<1>21. CASE RetireScan(t)
    BY <1>21 DEF RetireScan, RcuScan
<1>22. CASE SetDeq(t)
    BY <1>22 DEF SetDeq
<1>23. CASE DeqRegister(t)
    BY <1>23 DEF DeqRegister, RcuRegister
<1>24. CASE SetFreeCount(t)
    BY <1>24 DEF SetFreeCount
<1>25. CASE Advance(t)
    BY <1>25 DEF Advance
<1>26. CASE DeqUnlock(t)
    BY <1>26 DEF DeqUnlock
<1>27. CASE EnqLock(t)
    BY <1>27 DEF EnqLock
<1>28. CASE FreeLock(t)
    BY <1>28 DEF FreeLock
<1>29. CASE Retire(t)
    BY <1>29 DEF Retire
<1>30. CASE RcuLoad(t)
    BY <1>30 DEF RcuLoad
<1>31. CASE RcuStore(t)
    BY <1>31 DEF RcuStore
<1>32. CASE TouchFreed(t)
    BY <1>32 DEF TouchFreed
<1>33. QED
    BY <1>1, <1>2, <1>3, <1>4, <1>5, <1>6, <1>7, <1>8, <1>9, <1>10, <1>11, <1>12, <1>13, <1>14, <1>15, <1>16, <1>17, <1>18, <1>19, <1>20, <1>21, <1>22, <1>23, <1>24, <1>25, <1>26, <1>27, <1>28, <1>29, <1>30, <1>31, <1>32 DEF Step, LockStep, EnqStep, DeqStep

\* Freed subqueues are before deq.
LEMMA FreedBefore ==
    ASSUME OInv, NEW k \in Nat, deq <= k
    PROVE  k \notin freed
<1>1. deq \in Nat
    BY Bounds DEF OInv, IInv, TypeOK
<1>2. freed \subseteq 1 .. deq - 1
    BY DEF OInv, OldInv
<1>3. QED
    BY <1>1, <1>2

\* Where the only consumer is: never behind deq, but for the subqueue it has
\* just retired.
Ahead(c) ==
    /\ pc[c] \in LookingC \ {"d_register", "d_set_free_count", "d_advance"} => deq <= subq[c]
    /\ pc[c] = "d_advance" /\ succ[c] # Null => deq <= succ[c]

LEMMA ConsumerStep ==
    ASSUME OInv, OInv', NEW c \in Consumers, Ahead(c), DeqStep(c) \/ FreeLock(c) \/ Retire(c)
           \/ RcuLoad(c) \/ RcuStore(c) \/ TouchFreed(c)
    PROVE  Ahead(c)'
<1> USE ThreadFacts, Bounds DEF Ahead, Goto, Set, At, Deref
<1>1. /\ pc \in [Threads -> Locations] /\ subq \in [Threads -> Subs \union {Null}]
      /\ succ \in [Threads -> Subs \union {Null}] /\ c \in Threads /\ c \notin Producers
    BY DEF OInv, IInv, TypeOK
<1>2. deq \in Nat /\ subq[c] \in Nat /\ succ[c] \in Nat
    BY <1>1, Numbers DEF OInv, IInv
<1>3. /\ pc[c] \in Leaving => succ[c] = subq[c] + 1
      /\ pc[c] = "d_set_free_count" => subq[c] = deq - 1
    BY <1>1 DEF OInv, IInv, Local, Held
<1>4. pc[c] \in LookingC => AtSub(c)
    BY Looks DEF OInv
<1> USE DEF LookingC, Leaving, queue, locals
<1>5. CASE DeqCall(c)
    BY <1>1, <1>2, <1>3, <1>4, <1>5 DEF DeqCall, AtSub
<1>6. CASE ReadDeq(c)
    BY <1>1, <1>2, <1>3, <1>4, <1>6 DEF ReadDeq, AtSub
<1>7. CASE SubDequeue(c)
    BY <1>1, <1>2, <1>3, <1>4, <1>7 DEF SubDequeue, AtSub
<1>8. CASE ReadFreeq(c)
    BY <1>1, <1>2, <1>3, <1>4, <1>8 DEF ReadFreeq, AtSub
<1>9. CASE ReadFreeCount(c)
    BY <1>1, <1>2, <1>3, <1>4, <1>9 DEF ReadFreeCount, AtSub
<1>10. CASE FreeSafe(c)
    BY <1>1, <1>2, <1>3, <1>4, <1>10 DEF FreeSafe, RcuSafe, AtSub
<1>11. CASE FreeScan(c)
    BY <1>1, <1>2, <1>3, <1>4, <1>11 DEF FreeScan, RcuScan, AtSub
<1>12. CASE Free(c)
    BY <1>1, <1>2, <1>3, <1>4, <1>12 DEF Free, AtSub
<1>13. CASE ReadNext(c)
    BY <1>1, <1>2, <1>3, <1>4, <1>13 DEF ReadNext, AtSub
<1>14. CASE CheckFreeq(c)
    BY <1>1, <1>2, <1>3, <1>4, <1>14 DEF CheckFreeq, AtSub
<1>15. CASE ReadDequeueCount(c)
    BY <1>1, <1>2, <1>3, <1>4, <1>15 DEF ReadDequeueCount, AtSub
<1>16. CASE RetireSafe(c)
    BY <1>1, <1>2, <1>3, <1>4, <1>16 DEF RetireSafe, RcuSafe, AtSub
<1>17. CASE RetireScan(c)
    BY <1>1, <1>2, <1>3, <1>4, <1>17 DEF RetireScan, RcuScan, AtSub
<1>18. CASE SetDeq(c)
    BY <1>1, <1>2, <1>3, <1>4, <1>18 DEF SetDeq, AtSub
<1>19. CASE DeqRegister(c)
    BY <1>1, <1>2, <1>3, <1>4, <1>19 DEF DeqRegister, RcuRegister, AtSub
<1>20. CASE SetFreeCount(c)
    BY <1>1, <1>2, <1>3, <1>4, <1>20 DEF SetFreeCount, AtSub
<1>21. CASE Advance(c)
    BY <1>1, <1>2, <1>3, <1>4, <1>21 DEF Advance, AtSub
<1>22. CASE DeqUnlock(c)
    BY <1>1, <1>2, <1>3, <1>4, <1>22 DEF DeqUnlock, AtSub
<1>23. CASE FreeLock(c)
    BY <1>1, <1>2, <1>3, <1>4, <1>23 DEF FreeLock, AtSub
<1>24. CASE Retire(c)
    BY <1>1, <1>2, <1>3, <1>4, <1>24 DEF Retire, AtSub
<1>25. CASE RcuLoad(c)
    BY <1>1, <1>2, <1>3, <1>4, <1>25 DEF RcuLoad, AtSub
<1>26. CASE RcuStore(c)
    BY <1>1, <1>2, <1>3, <1>4, <1>26 DEF RcuStore, AtSub
<1>27. CASE TouchFreed(c)
    BY <1>1, <1>2, <1>3, <1>4, <1>27 DEF TouchFreed, AtSub
<1>28. QED
    BY <1>5, <1>6, <1>7, <1>8, <1>9, <1>10, <1>11, <1>12, <1>13, <1>14, <1>15, <1>16, <1>17, <1>18, <1>19, <1>20, <1>21, <1>22, <1>23, <1>24, <1>25, <1>26, <1>27 DEF DeqStep

LEMMA ConsumerSafe ==
    ASSUME MallocFreeq = {Null}, NEW c, Consumers = {c}
    PROVE  /\ Init => OInv /\ Ahead(c) /\ ConsumersSafe
           /\ OInv /\ Ahead(c) /\ ConsumersSafe /\ [Next]_vars => (OInv /\ Ahead(c) /\ ConsumersSafe)'
<1> USE ThreadFacts, Bounds
<1>1. c \in Consumers /\ c \in Threads /\ c \notin Producers
    OBVIOUS
<1>2. Init => OInv /\ Ahead(c) /\ ConsumersSafe
    BY <1>1, InitOld DEF Init, Ahead, ConsumersSafe, LookingC
<1>3. ASSUME OInv, Ahead(c), ConsumersSafe, [Next]_vars
      PROVE  OInv' /\ Ahead(c)' /\ ConsumersSafe'
  <2>1. OInv' /\ TypeOK /\ IInv
    BY <1>3, KeepOld DEF OInv, IInv
  <2>2. ASSUME NEW t \in Threads, Step(t) \/ LockStep(t)
        PROVE  Ahead(c)'
    <3>1. CASE t = c
        BY <1>1, <1>3, <2>1, <2>2, <3>1, ConsumerStep DEF Step, LockStep
    <3>2. CASE t # c
      <4>1. pc'[c] = pc[c] /\ subq'[c] = subq[c] /\ succ'[c] = succ[c]
        BY <1>1, <2>1, <2>2, <3>2, OthersStay
      <4>2. deq' = deq
        BY <1>1, <2>1, <2>2, <3>2, Splits, OthersKeep
      <4>3. QED
        BY <1>3, <4>1, <4>2 DEF Ahead
    <3>3. QED
        BY <3>1, <3>2
  <2>3. ASSUME NEW t \in Threads, TouchFreed(t)
        PROVE  t \in Producers
    <3>1. SUFFICES ASSUME t = c
                   PROVE  FALSE
        BY <1>1, <2>3 DEF Threads
    <3>2. pc[c] \in Derefs /\ subq[c] \in freed
        BY <2>3, <3>1 DEF TouchFreed
    <3>3. pc[c] \in {"d_sub", "d_free_count", "d_next", "d_dequeue_count", "d_set_free_count"}
        BY <1>1, <2>1, <3>2 DEF Derefs, IInv, Local, Looking
    <3>4. subq[c] \in Nat /\ deq \in Nat
        BY <1>1, <2>1, Numbers
    <3>5. CASE pc[c] = "d_set_free_count"
      <4>1. subq[c] = deq - 1 /\ freeq = deq - 1 /\ lock \in {Null, c}
        BY <1>1, <1>3, <2>1, <3>5, Holds DEF OInv, Retired, IInv, Held, Critical
      <4>2. ~ \E d \in Consumers : pc[d] = "d_set_deq"
        BY <3>5
      <4>3. freed = (1 .. deq - 1) \ {freeq}
        BY <1>3, <4>2 DEF OInv, OldInv
      <4>4. QED
        BY <3>2, <4>1, <4>3
    <3>6. CASE pc[c] # "d_set_free_count"
      <4>1. deq <= subq[c]
        BY <1>3, <3>3, <3>6 DEF Ahead, LookingC
      <4>2. QED
        BY <1>3, <3>2, <3>4, <4>1, FreedBefore
    <3>7. QED
        BY <3>5, <3>6
  <2>4. ASSUME NEW t \in Threads, Step(t) \/ LockStep(t)
        PROVE  ConsumersSafe'
    <3>1. CASE TouchFreed(t)
        BY <2>3, <3>1 DEF TouchFreed, ConsumersSafe
    <3>2. CASE fault' \in {fault, "max_size reached", "free of a pointer that is no subqueue"}
        BY <1>3, <3>2 DEF ConsumersSafe
    <3>3. QED
        BY <2>4, <3>1, <3>2, Faults
  <2>5. CASE UNCHANGED vars
    <3>1. pc' = pc /\ subq' = subq /\ succ' = succ /\ deq' = deq /\ fault' = fault
        BY <2>5 DEF vars, queue, locals
    <3>2. QED
        BY <1>3, <2>1, <3>1 DEF Ahead, ConsumersSafe
  <2>6. QED
    BY <1>3, <2>1, <2>2, <2>4, <2>5 DEF Next, Stopped
<1>4. QED
    BY <1>2, <1>3

\* A single consumer never touches a freed subqueue: it is the only one to
\* move deq, and it never goes back.
THEOREM ConsumerAlone ==
    ASSUME MallocFreeq = {Null}, NEW c, Consumers = {c}
    PROVE  Spec => []ConsumersSafe
<1> DEFINE I == OInv /\ Ahead(c) /\ ConsumersSafe
<1>1. Init => I
    BY ConsumerSafe
<1>2. I /\ [Next]_vars => I'
    BY ConsumerSafe
<1>3. I => ConsumersSafe
    OBVIOUS
<1>4. QED
    BY <1>1, <1>2, <1>3, PTL DEF Spec

\* Where the only producer is: at enq until it moves it, and never behind deq,
\* which waits for the lock meanwhile.
AtEnd(p) ==
    pc[p] \in Looking => /\ deq <= subq[p]
                         /\ pc[p] \notin {"e_register", "e_set_count"} => subq[p] = enq

LEMMA ProducerStep ==
    ASSUME OInv, NEW p \in Producers, AtEnd(p), EnqStep(p) \/ EnqLock(p)
           \/ RcuLoad(p) \/ RcuStore(p) \/ TouchFreed(p)
    PROVE  AtEnd(p)'
<1> USE ThreadFacts, Bounds DEF AtEnd, Goto, Set, At, Deref
<1>1. /\ pc \in [Threads -> Locations] /\ subq \in [Threads -> Subs \union {Null}]
      /\ p \in Threads /\ deq <= enq /\ pc[p] \notin {"d_rcu_load", "d_rcu_store"}
    BY DEF OInv, IInv, TypeOK, ChainInv, Local
<1> USE DEF Looking, queue, locals
<1>2. CASE ReadEnq(p)
    BY <1>1, <1>2 DEF ReadEnq
<1>3. CASE SubEnqueue(p)
    BY <1>1, <1>3 DEF SubEnqueue
<1>4. CASE EnqUnlock(p)
    BY <1>1, <1>4 DEF EnqUnlock
<1>5. CASE CheckNext(p)
    BY <1>1, <1>5 DEF CheckNext
<1>6. CASE Grow(p)
    BY <1>1, <1>6 DEF Grow
<1>7. CASE SetEnq(p)
    BY <1>1, <1>7 DEF SetEnq
<1>8. CASE EnqRegister(p)
    BY <1>1, <1>8 DEF EnqRegister, RcuRegister
<1>9. CASE SetDequeueCount(p)
    BY <1>1, <1>9 DEF SetDequeueCount
<1>10. CASE EnqLock(p)
    BY <1>1, <1>10 DEF EnqLock
<1>11. CASE RcuLoad(p)
    BY <1>1, <1>11 DEF RcuLoad
<1>12. CASE RcuStore(p)
    BY <1>1, <1>12 DEF RcuStore
<1>13. CASE TouchFreed(p)
    BY <1>1, <1>13 DEF TouchFreed
<1>14. QED
    BY <1>2, <1>3, <1>4, <1>5, <1>6, <1>7, <1>8, <1>9, <1>10, <1>11, <1>12, <1>13 DEF EnqStep

LEMMA ConsumersKeepEnq ==
    ASSUME NEW t \in Consumers, Step(t) \/ LockStep(t)
    PROVE  enq' = enq
<1> USE DEF queue
<1>1. CASE DeqCall(t)
    BY <1>1 DEF DeqCall
<1>2. CASE ReadDeq(t)
    BY <1>2 DEF ReadDeq
<1>3. CASE SubDequeue(t)
    BY <1>3 DEF SubDequeue
<1>4. CASE ReadFreeq(t)
    BY <1>4 DEF ReadFreeq
<1>5. CASE ReadFreeCount(t)
    BY <1>5 DEF ReadFreeCount
<1>6. CASE FreeSafe(t)
    BY <1>6 DEF FreeSafe, RcuSafe
<1>7. CASE FreeScan(t)
    BY <1>7 DEF FreeScan, RcuScan
<1>8. CASE Free(t)
    BY <1>8 DEF Free
<1>9. CASE ReadNext(t)
    BY <1>9 DEF ReadNext
<1>10. CASE CheckFreeq(t)
    BY <1>10 DEF CheckFreeq
<1>11. CASE ReadDequeueCount(t)
    BY <1>11 DEF ReadDequeueCount
<1>12. CASE RetireSafe(t)
    BY <1>12 DEF RetireSafe, RcuSafe
<1>13. CASE RetireScan(t)
    BY <1>13 DEF RetireScan, RcuScan
<1>14. CASE SetDeq(t)
    BY <1>14 DEF SetDeq
<1>15. CASE DeqRegister(t)
    BY <1>15 DEF DeqRegister, RcuRegister
<1>16. CASE SetFreeCount(t)
    BY <1>16 DEF SetFreeCount
<1>17. CASE Advance(t)
    BY <1>17 DEF Advance
<1>18. CASE DeqUnlock(t)
    BY <1>18 DEF DeqUnlock
<1>19. CASE FreeLock(t)
    BY <1>19 DEF FreeLock
<1>20. CASE Retire(t)
    BY <1>20 DEF Retire
<1>21. CASE RcuLoad(t)
    BY <1>21 DEF RcuLoad
<1>22. CASE RcuStore(t)
    BY <1>22 DEF RcuStore
<1>23. CASE TouchFreed(t)
    BY <1>23 DEF TouchFreed
<1>24. QED
    BY <1>1, <1>2, <1>3, <1>4, <1>5, <1>6, <1>7, <1>8, <1>9, <1>10, <1>11, <1>12, <1>13, <1>14, <1>15, <1>16, <1>17, <1>18, <1>19, <1>20, <1>21, <1>22, <1>23, ThreadFacts DEF Step, LockStep, DeqStep

LEMMA ProducerSafe ==
    ASSUME MallocFreeq = {Null}, NEW p, Producers = {p}
    PROVE  /\ Init => OInv /\ AtEnd(p) /\ ProducersSafe
           /\ OInv /\ AtEnd(p) /\ ProducersSafe /\ [Next]_vars => (OInv /\ AtEnd(p) /\ ProducersSafe)'
<1> USE ThreadFacts, Bounds
<1>1. p \in Producers /\ p \in Threads /\ p \notin Consumers
    OBVIOUS
<1>2. Init => OInv /\ AtEnd(p) /\ ProducersSafe
    BY <1>1, InitOld DEF Init, AtEnd, ProducersSafe, Looking
<1>3. ASSUME OInv, AtEnd(p), ProducersSafe, [Next]_vars
      PROVE  OInv' /\ AtEnd(p)' /\ ProducersSafe'
  <2>1. OInv' /\ TypeOK /\ IInv /\ IInv'
    BY <1>3, KeepOld DEF OInv, IInv
  <2>2. ASSUME NEW t \in Threads, Step(t) \/ LockStep(t)
        PROVE  AtEnd(p)'
    <3>1. CASE t = p
        BY <1>1, <1>3, <2>2, <3>1, ProducerStep DEF Step, LockStep
    <3>2. CASE t # p
      <4>1. pc'[p] = pc[p] /\ subq'[p] = subq[p] /\ t \in Consumers
        BY <1>1, <2>1, <2>2, <3>2, OthersStay DEF Threads
      <4>2. enq' = enq
        BY <1>1, <2>2, <3>2, <4>1, ConsumersKeepEnq
      <4>3. CASE SetDeq(t)
        <5>1. pc[t] = "d_set_deq" /\ lock \in {Null, t}
            BY <2>1, <4>1, <4>3, Holds DEF SetDeq, At, Critical
        <5>2. pc[p] \notin Critical
            BY <1>1, <2>1, <3>2, <5>1, Alone
        <5>3. pc[p] \in Looking => subq[p] = enq
            BY <1>3, <5>2 DEF AtEnd, Critical
        <5>4. deq' <= enq'
            BY <2>1 DEF IInv, ChainInv
        <5>5. QED
            BY <4>1, <4>2, <5>2, <5>3, <5>4 DEF AtEnd
      <4>4. CASE ~ SetDeq(t)
        <5>1. deq' = deq
            BY <2>1, <2>2, <4>4, Splits, OthersKeep DEF Free, Retire
        <5>2. QED
            BY <1>3, <4>1, <4>2, <5>1 DEF AtEnd
      <4>5. QED
        BY <4>3, <4>4
    <3>3. QED
        BY <3>1, <3>2
  <2>3. ASSUME NEW t \in Threads, TouchFreed(t)
        PROVE  t # p
    <3>1. SUFFICES ASSUME t = p
                   PROVE  FALSE
        OBVIOUS
    <3>2. pc[p] \in Derefs /\ subq[p] \in freed
        BY <2>3, <3>1 DEF TouchFreed
    <3>3. pc[p] \in Looking
        BY <1>1, <2>1, <3>2 DEF Derefs, IInv, Local, Looking, LookingC
    <3>4. deq <= subq[p] /\ subq[p] \in Nat
        BY <1>1, <1>3, <2>1, <3>3, Numbers DEF AtEnd
    <3>5. QED
        BY <1>3, <3>2, <3>4, FreedBefore
  <2>4. ASSUME NEW t \in Threads, Step(t) \/ LockStep(t)
        PROVE  ProducersSafe'
    <3>1. CASE TouchFreed(t)
        BY <2>3, <3>1 DEF TouchFreed, ProducersSafe
    <3>2. CASE fault' \in {fault, "max_size reached", "free of a pointer that is no subqueue"}
        BY <1>3, <3>2 DEF ProducersSafe
    <3>3. QED
        BY <2>4, <3>1, <3>2, Faults
  <2>5. CASE UNCHANGED vars
    <3>1. pc' = pc /\ subq' = subq /\ enq' = enq /\ deq' = deq /\ fault' = fault
        BY <2>5 DEF vars, queue, locals
    <3>2. QED
        BY <1>3, <2>1, <3>1 DEF AtEnd, ProducersSafe
  <2>6. QED
    BY <1>3, <2>1, <2>2, <2>4, <2>5 DEF Next, Stopped
<1>4. QED
    BY <1>2, <1>3

\* A single producer never touches a freed subqueue: it looks at enq, and
\* while it moves enq on it holds the lock that deq needs to follow.
THEOREM ProducerAlone ==
    ASSUME MallocFreeq = {Null}, NEW p, Producers = {p}
    PROVE  Spec => []ProducersSafe
<1> DEFINE I == OInv /\ AtEnd(p) /\ ProducersSafe
<1>1. Init => I
    BY ProducerSafe
<1>2. I /\ [Next]_vars => I'
    BY ProducerSafe
<1>3. I => ProducersSafe
    OBVIOUS
<1>4. QED
    BY <1>1, <1>2, <1>3, PTL DEF Spec

-----------------------------------------------------------------------------
(* Sequences *)

LEMMA RangeAppend ==
    ASSUME NEW S, NEW s \in Seq(S), NEW x \in S
    PROVE  Range(Append(s, x)) = Range(s) \union {x}
<1>1. /\ Append(s, x) \in Seq(S) /\ Len(Append(s, x)) = Len(s) + 1 /\ Len(s) \in Nat
      /\ DOMAIN Append(s, x) = 1 .. Len(s) + 1 /\ DOMAIN s = 1 .. Len(s)
    OBVIOUS
<1>2. \A n \in 1 .. Len(s) : Append(s, x)[n] = s[n]
    OBVIOUS
<1>3. Append(s, x)[Len(s) + 1] = x
    OBVIOUS
<1>4. QED
    BY <1>1, <1>2, <1>3 DEF Range

LEMMA HeadTail ==
    ASSUME NEW S, NEW s \in Seq(S), s # << >>
    PROVE  /\ Len(s) \in Nat /\ Len(s) >= 1 /\ DOMAIN s = 1 .. Len(s)
           /\ Tail(s) \in Seq(S) /\ DOMAIN Tail(s) = 1 .. Len(s) - 1
           /\ Head(s) = s[1] /\ Head(s) \in S
           /\ \A n \in 1 .. Len(s) - 1 : Tail(s)[n] = s[n + 1]
<1>1. /\ Len(s) \in Nat /\ Len(s) >= 1 /\ DOMAIN s = 1 .. Len(s)
      /\ Tail(s) \in Seq(S) /\ Len(Tail(s)) = Len(s) - 1 /\ DOMAIN Tail(s) = 1 .. Len(s) - 1
    OBVIOUS
<1>2. Head(s) = s[1] /\ Head(s) \in S
    BY <1>1
<1>3. \A n \in 1 .. Len(s) - 1 : Tail(s)[n] = s[n + 1]
    BY <1>1
<1>4. QED
    BY <1>1, <1>2, <1>3

LEMMA RangeHead ==
    ASSUME NEW S, NEW s \in Seq(S), s # << >>
    PROVE  Range(s) = {Head(s)} \union Range(Tail(s))
<1>1. /\ Len(s) \in Nat /\ Len(s) >= 1 /\ DOMAIN s = 1 .. Len(s)
      /\ Tail(s) \in Seq(S) /\ DOMAIN Tail(s) = 1 .. Len(s) - 1
    BY HeadTail
<1>2. Head(s) = s[1] /\ \A n \in 1 .. Len(s) - 1 : Tail(s)[n] = s[n + 1]
    BY HeadTail
<1>3. Range(s) \subseteq {Head(s)} \union Range(Tail(s))
  <2> SUFFICES ASSUME NEW n \in 1 .. Len(s)
               PROVE  s[n] \in {Head(s)} \union Range(Tail(s))
    BY <1>1 DEF Range
  <2>1. CASE n = 1
    BY <1>2, <2>1
  <2>2. CASE n # 1
    <3>1. n - 1 \in DOMAIN Tail(s) /\ Tail(s)[n - 1] = s[n]
        BY <1>1, <1>2, <2>2
    <3>2. QED
        BY <3>1 DEF Range
  <2>3. QED
    BY <2>1, <2>2
<1>4. {Head(s)} \union Range(Tail(s)) \subseteq Range(s)
  <2>1. Head(s) \in Range(s)
    BY <1>1, <1>2 DEF Range
  <2>2. ASSUME NEW n \in 1 .. Len(s) - 1
        PROVE  Tail(s)[n] \in Range(s)
    <3>1. n + 1 \in DOMAIN s /\ Tail(s)[n] = s[n + 1]
        BY <1>1, <1>2
    <3>2. QED
        BY <3>1 DEF Range
  <2>3. QED
    BY <1>1, <2>1, <2>2 DEF Range
<1>5. QED
    BY <1>3, <1>4

-----------------------------------------------------------------------------
(* The inductive invariant *)

\* The only values in the queue are those that were sent; the value of a call
\* is there if and only if the call has stored it.
Sent == Taken \union Waiting
Fresh(p) == \A n \in 1 .. MaxSend :
    <<p, n>> \in Sent => n <= sent[p] /\ (n = sent[p] => pc[p] \in {"idle", "e_unlock"})
Kept(p) == pc[p] = "e_unlock" => Sending(p) \in Sent

\* The three parts of AtMostOnce.
TakenOnce == \A c, d \in Consumers : \A m \in DOMAIN got[c], n \in DOMAIN got[d] :
    got[c][m] = got[d][n] => c = d /\ m = n
WaitsOnce == \A k, l \in Subs : \A m \in DOMAIN items[k], n \in DOMAIN items[l] :
    items[k][m] = items[l][n] => k = l /\ m = n
Apart == Taken \cap Waiting = {}

VInv ==
    /\ Stored
    /\ \A p \in Producers : Fresh(p) /\ Kept(p)
    /\ TakenOnce /\ WaitsOnce /\ Apart

\* What a step that moves no value does.
Moves(t) ==
    \/ t \in Producers /\ (ReadEnq(t) \/ SubEnqueue(t))
    \/ t \in Consumers /\ SubDequeue(t)

LEMMA StillStep ==
    ASSUME TypeOK, NEW t \in Threads, Step(t) \/ LockStep(t), ~ Moves(t)
    PROVE  /\ UNCHANGED <<items, got, sent>>
           /\ \A p \in Producers :
                \/ pc'[p] = pc[p]
                \/ pc[p] \notin {"idle", "e_unlock"} /\ pc'[p] \notin {"idle", "e_unlock"}
                \/ pc[p] = "e_unlock" /\ pc'[p] = "idle"
<1> USE ThreadFacts DEF Goto, At, Deref, subs, history
<1>1. pc \in [Threads -> Locations]
    BY DEF TypeOK
<1>2. CASE t \in Producers /\ EnqUnlock(t)
    BY <1>1, <1>2 DEF EnqUnlock
<1>3. CASE t \in Producers /\ CheckNext(t)
    BY <1>1, <1>3 DEF CheckNext
<1>4. CASE t \in Producers /\ Grow(t)
    BY <1>1, <1>4 DEF Grow
<1>5. CASE t \in Producers /\ SetEnq(t)
    BY <1>1, <1>5 DEF SetEnq
<1>6. CASE t \in Producers /\ EnqRegister(t)
    BY <1>1, <1>6 DEF EnqRegister
<1>7. CASE t \in Producers /\ SetDequeueCount(t)
    BY <1>1, <1>7 DEF SetDequeueCount
<1>8. CASE t \in Consumers /\ DeqCall(t)
    BY <1>1, <1>8 DEF DeqCall
<1>9. CASE t \in Consumers /\ ReadDeq(t)
    BY <1>1, <1>9 DEF ReadDeq
<1>10. CASE t \in Consumers /\ ReadFreeq(t)
    BY <1>1, <1>10 DEF ReadFreeq
<1>11. CASE t \in Consumers /\ ReadFreeCount(t)
    BY <1>1, <1>11 DEF ReadFreeCount
<1>12. CASE t \in Consumers /\ FreeSafe(t)
    BY <1>1, <1>12 DEF FreeSafe, RcuSafe
<1>13. CASE t \in Consumers /\ FreeScan(t)
    BY <1>1, <1>13 DEF FreeScan, RcuScan
<1>14. CASE t \in Consumers /\ Free(t)
    BY <1>1, <1>14 DEF Free
<1>15. CASE t \in Consumers /\ ReadNext(t)
    BY <1>1, <1>15 DEF ReadNext
<1>16. CASE t \in Consumers /\ CheckFreeq(t)
    BY <1>1, <1>16 DEF CheckFreeq
<1>17. CASE t \in Consumers /\ ReadDequeueCount(t)
    BY <1>1, <1>17 DEF ReadDequeueCount
<1>18. CASE t \in Consumers /\ RetireSafe(t)
    BY <1>1, <1>18 DEF RetireSafe, RcuSafe
<1>19. CASE t \in Consumers /\ RetireScan(t)
    BY <1>1, <1>19 DEF RetireScan, RcuScan
<1>20. CASE t \in Consumers /\ SetDeq(t)
    BY <1>1, <1>20 DEF SetDeq
<1>21. CASE t \in Consumers /\ DeqRegister(t)
    BY <1>1, <1>21 DEF DeqRegister
<1>22. CASE t \in Consumers /\ SetFreeCount(t)
    BY <1>1, <1>22 DEF SetFreeCount
<1>23. CASE t \in Consumers /\ Advance(t)
    BY <1>1, <1>23 DEF Advance
<1>24. CASE t \in Consumers /\ DeqUnlock(t)
    BY <1>1, <1>24 DEF DeqUnlock
<1>25. CASE t \in Producers /\ EnqLock(t)
    BY <1>1, <1>25 DEF EnqLock
<1>26. CASE t \in Consumers /\ FreeLock(t)
    BY <1>1, <1>26 DEF FreeLock
<1>27. CASE t \in Consumers /\ Retire(t)
    BY <1>1, <1>27 DEF Retire
<1>28. CASE RcuLoad(t)
    BY <1>1, <1>28 DEF RcuLoad
<1>29. CASE RcuStore(t)
    BY <1>1, <1>29 DEF RcuStore
<1>30. CASE TouchFreed(t)
    BY <1>1, <1>30 DEF TouchFreed
<1>31. QED
    BY <1>2, <1>3, <1>4, <1>5, <1>6, <1>7, <1>8, <1>9, <1>10, <1>11, <1>12, <1>13, <1>14, <1>15, <1>16, <1>17, <1>18, <1>19, <1>20, <1>21, <1>22, <1>23, <1>24, <1>25, <1>26, <1>27, <1>28, <1>29, <1>30 DEF Step, LockStep, EnqStep, DeqStep, Moves

LEMMA KeepStill ==
    ASSUME TypeOK, VInv, UNCHANGED <<items, got, sent>>,
           \A p \in Producers :
                \/ pc'[p] = pc[p]
                \/ pc[p] \notin {"idle", "e_unlock"} /\ pc'[p] \notin {"idle", "e_unlock"}
                \/ pc[p] = "e_unlock" /\ pc'[p] = "idle"
    PROVE  VInv'
<1>1. Taken' = Taken /\ Waiting' = Waiting /\ Sent' = Sent
    BY DEF Taken, Waiting, Sent
<1>2. TakenOnce' /\ WaitsOnce' /\ Apart'
    BY <1>1 DEF VInv, TakenOnce, WaitsOnce, Apart
<1>3. ASSUME NEW p \in Producers
      PROVE  Fresh(p)' /\ Kept(p)'
    BY <1>1 DEF VInv, Fresh, Kept, Sending
<1>4. Stored'
  <2> SUFFICES ASSUME NEW p \in Producers, NEW n \in 1 .. sent[p]
               PROVE  <<p, n>> \in Sent \/ (n = sent[p] /\ pc'[p] # "idle")
    BY <1>1 DEF Stored, Sent
  <2>1. <<p, n>> \in Sent \/ (n = sent[p] /\ pc[p] # "idle")
    BY DEF VInv, Stored, Sent
  <2>2. pc[p] = "e_unlock" => <<p, sent[p]>> \in Sent
    BY DEF VInv, Kept, Sending
  <2>3. QED
    BY <2>1, <2>2
<1>5. QED
    BY <1>2, <1>3, <1>4 DEF VInv

\* A call starts: its value is a new one.
LEMMA KeepCall ==
    ASSUME TypeOK, VInv, NEW p \in Producers, ReadEnq(p)
    PROVE  VInv'
<1> USE ThreadFacts, Bounds
<1>1. /\ p \in Threads /\ Goto(p, "e_rcu_load") /\ items' = items /\ got' = got
      /\ pc \in [Threads -> Locations] /\ sent \in [Producers -> 0 .. MaxSend]
    BY DEF ReadEnq, subs, TypeOK
<1>2. pc'[p] = "e_rcu_load" /\ \A q \in Producers \ {p} : pc'[q] = pc[q]
    BY <1>1, Labels, GotoFacts
<1>3. Taken' = Taken /\ Waiting' = Waiting /\ Sent' = Sent
    BY <1>1 DEF Taken, Waiting, Sent
<1>4. TakenOnce' /\ WaitsOnce' /\ Apart'
    BY <1>1, <1>3 DEF VInv, TakenOnce, WaitsOnce, Apart
<1>5. CASE pc[p] = "e_retry" /\ sent' = sent
    BY <1>1, <1>2, <1>5, KeepStill
<1>6. CASE pc[p] = "idle" /\ sent' = Set(sent, p, sent[p] + 1)
  <2>1. sent'[p] = sent[p] + 1 /\ \A q \in Producers \ {p} : sent'[q] = sent[q]
    BY <1>1, <1>6 DEF Set
  <2>2. ASSUME NEW q \in Producers
        PROVE  Fresh(q)' /\ Kept(q)'
    <3>1. CASE q = p
      <4>1. \A n \in 1 .. MaxSend : <<p, n>> \in Sent => n <= sent[p]
        BY DEF VInv, Fresh
      <4>2. sent[p] \in Nat
        BY <1>1
      <4>3. \A n \in 1 .. MaxSend : <<p, n>> \in Sent => n <= sent'[p] /\ n # sent'[p]
        BY <2>1, <4>1, <4>2
      <4>4. QED
        BY <1>2, <1>3, <3>1, <4>3 DEF Fresh, Kept
    <3>2. CASE q # p
        BY <1>2, <1>3, <2>1, <3>2 DEF VInv, Fresh, Kept, Sending
    <3>3. QED
        BY <3>1, <3>2
  <2>3. Stored'
    <3> SUFFICES ASSUME NEW q \in Producers, NEW n \in 1 .. sent'[q]
                 PROVE  <<q, n>> \in Sent \/ (n = sent'[q] /\ pc'[q] # "idle")
        BY <1>3 DEF Stored, Sent
    <3>1. CASE q = p
      <4>1. n \in 1 .. sent[p] \/ n = sent'[p]
        BY <1>1, <2>1, <3>1
      <4>2. n \in 1 .. sent[p] => <<p, n>> \in Sent
        BY <1>6 DEF VInv, Stored, Sent
      <4>3. QED
        BY <1>2, <3>1, <4>1, <4>2
    <3>2. CASE q # p
        BY <1>2, <2>1, <3>2 DEF VInv, Stored, Sent
    <3>3. QED
        BY <3>1, <3>2
  <2>4. QED
    BY <1>4, <2>2, <2>3 DEF VInv
<1>7. QED
    BY <1>5, <1>6 DEF ReadEnq, At

\* subenqueue() stores a value that is in no subqueue and was not handed out.
LEMMA KeepStore ==
    ASSUME IInv, VInv, NEW p \in Producers, SubEnqueue(p)
    PROVE  VInv'
<1> USE ThreadFacts, Bounds
<1> DEFINE k == subq[p]
           x == Sending(p)
<1>1. /\ p \in Threads /\ pc[p] = "e_sub" /\ got' = got /\ sent' = sent /\ TypeOK
      /\ pc \in [Threads -> Locations] /\ items \in [Subs -> Seq(Values)]
      /\ sent \in [Producers -> 0 .. MaxSend]
    BY DEF SubEnqueue, Deref, At, history, IInv, TypeOK
<1>2. k \in Subs /\ sent[p] \in 1 .. MaxSend /\ x \in Values
  <2>1. k \in 1 .. enq /\ enq \in 1 .. MaxSub /\ sent[p] # 0
    BY <1>1, Numbers DEF IInv, Local, Looking
  <2>2. QED
    BY <1>1, <2>1 DEF Sending, Values
<1>3. CASE items' = items /\ Goto(p, "e_unlock_full")
  <2>1. pc'[p] = "e_unlock_full" /\ \A q \in Producers \ {p} : pc'[q] = pc[q]
    BY <1>1, <1>3, Labels, GotoFacts
  <2>2. QED
    BY <1>1, <1>3, <2>1, KeepStill
<1>4. CASE items' = [items EXCEPT ![k] = Append(items[k], x)] /\ Goto(p, "e_unlock")
  <2>1. pc'[p] = "e_unlock" /\ \A q \in Producers \ {p} : pc'[q] = pc[q]
    BY <1>1, <1>4, Labels, GotoFacts
  <2>2. items[k] \in Seq(Values) /\ items'[k] = Append(items[k], x) /\ \A l \in Subs \ {k} : items'[l] = items[l]
    BY <1>1, <1>2, <1>4
  <2>3. x \notin Sent
    BY <1>1, <1>2 DEF VInv, Fresh, Sending
  <2>4. Range(items'[k]) = Range(items[k]) \union {x}
    BY <1>2, <2>2, RangeAppend
  <2>5. Taken' = Taken /\ Waiting' = Waiting \union {x} /\ Sent' = Sent \union {x}
    <3>1. Taken' = Taken
        BY <1>1 DEF Taken
    <3>2. Waiting' = Waiting \union {x}
      <4>1. \A y : y \in Waiting <=> \E l \in Subs : y \in Range(items[l])
        BY DEF Waiting
      <4>2. \A y : y \in Waiting' <=> \E l \in Subs : y \in Range(items'[l])
        BY DEF Waiting
      <4>3. \A l \in Subs \ {k} : Range(items'[l]) = Range(items[l])
        BY <2>2
      <4>4. \A y : y \in Waiting' <=> y \in Waiting \union {x}
        BY <1>2, <2>4, <4>1, <4>2, <4>3
      <4>5. QED
        BY <4>4
    <3>3. QED
        BY <3>1, <3>2 DEF Sent
  <2>6. TakenOnce' /\ Apart'
    BY <1>1, <2>3, <2>5 DEF VInv, TakenOnce, Apart, Sent
  <2>7. WaitsOnce'
    <3>1. ASSUME NEW l \in Subs, NEW n \in DOMAIN items'[l]
          PROVE  \/ n \in DOMAIN items[l] /\ items'[l][n] = items[l][n] /\ items'[l][n] # x
                 \/ l = k /\ n = Len(items[k]) + 1 /\ items'[l][n] = x
      <4>1. CASE l # k
        <5>1. n \in DOMAIN items[l] /\ items'[l][n] = items[l][n]
            BY <2>2, <4>1
        <5>2. items[l][n] \in Sent
            BY <5>1 DEF Sent, Waiting, Range
        <5>3. QED
            BY <2>3, <5>1, <5>2
      <4>2. CASE l = k
        <5>1. DOMAIN items'[k] = 1 .. Len(items[k]) + 1 /\ DOMAIN items[k] = 1 .. Len(items[k]) /\ Len(items[k]) \in Nat
            BY <1>2, <2>2
        <5>2. CASE n = Len(items[k]) + 1
            BY <1>2, <2>2, <4>2, <5>2
        <5>3. CASE n \in 1 .. Len(items[k])
          <6>1. items'[k][n] = items[k][n]
            BY <1>2, <2>2, <5>3
          <6>2. items[k][n] \in Sent
            BY <1>2, <5>1, <5>3 DEF Sent, Waiting, Range
          <6>3. QED
            BY <2>3, <4>2, <5>1, <5>3, <6>1, <6>2
        <5>4. QED
            BY <4>2, <5>1, <5>2, <5>3
      <4>3. QED
        BY <4>1, <4>2
    <3>2. SUFFICES ASSUME NEW i \in Subs, NEW l \in Subs, NEW m \in DOMAIN items'[i],
                          NEW n \in DOMAIN items'[l], items'[i][m] = items'[l][n]
                   PROVE  i = l /\ m = n
        BY DEF WaitsOnce
    <3>3. CASE items'[i][m] = x
        BY <3>1, <3>2, <3>3
    <3>4. CASE items'[i][m] # x
        BY <3>1, <3>2, <3>4 DEF VInv, WaitsOnce
    <3>5. QED
        BY <3>3, <3>4
  <2>8. ASSUME NEW q \in Producers
        PROVE  Fresh(q)' /\ Kept(q)'
    <3>1. CASE q = p
      <4>1. \A n \in 1 .. MaxSend : <<p, n>> \in Sent' => n <= sent[p]
        <5>1. \A n \in 1 .. MaxSend : <<p, n>> \in Sent => n <= sent[p]
            BY DEF VInv, Fresh
        <5>2. \A n \in 1 .. MaxSend : <<p, n>> = x => n <= sent[p]
            BY <1>2 DEF Sending
        <5>3. QED
            BY <2>5, <5>1, <5>2
      <4>2. QED
        BY <1>1, <2>1, <2>5, <3>1, <4>1 DEF Fresh, Kept, Sending
    <3>2. CASE q # p
      <4>1. \A n \in 1 .. MaxSend : <<q, n>> \in Sent' => <<q, n>> \in Sent
        BY <2>5, <3>2 DEF Sending
      <4>2. Fresh(q)'
        BY <1>1, <2>1, <3>2, <4>1 DEF VInv, Fresh
      <4>3. Kept(q)'
        BY <1>1, <2>1, <2>5, <3>2 DEF VInv, Kept, Sending
      <4>4. QED
        BY <4>2, <4>3
    <3>3. QED
        BY <3>1, <3>2
  <2>9. Stored'
    <3> SUFFICES ASSUME NEW q \in Producers, NEW n \in 1 .. sent[q]
                 PROVE  <<q, n>> \in Sent \union {x} \/ (n = sent[q] /\ pc'[q] # "idle")
        BY <1>1, <2>5 DEF Stored, Sent
    <3>1. <<q, n>> \in Sent \/ (n = sent[q] /\ pc[q] # "idle")
        BY DEF VInv, Stored, Sent
    <3>2. QED
        BY <2>1, <3>1
  <2>10. QED
    BY <2>6, <2>7, <2>8, <2>9 DEF VInv
<1>5. QED
    BY <1>3, <1>4 DEF SubEnqueue

\* subdequeue() hands the first value of a subqueue out.
LEMMA KeepTake ==
    ASSUME IInv, VInv, NEW c \in Consumers, SubDequeue(c)
    PROVE  VInv'
<1> USE ThreadFacts, Bounds
<1> DEFINE k == subq[c]
           x == Head(items[k])
<1>1. /\ c \in Threads /\ pc[c] = "d_sub" /\ sent' = sent /\ TypeOK
      /\ pc \in [Threads -> Locations] /\ items \in [Subs -> Seq(Values)]
      /\ got \in [Consumers -> Seq(Values)] /\ k \in Subs
  <2>1. c \in Threads /\ pc[c] = "d_sub" /\ sent' = sent
    BY DEF SubDequeue, Deref, At
  <2>2. QED
    BY <2>1, Looks DEF IInv, TypeOK, AtSub, LookingC
<1>2. \A q \in Producers : pc'[q] = pc[q]
    BY <1>1 DEF SubDequeue, Goto
<1>3. CASE UNCHANGED <<got, items>>
    BY <1>1, <1>2, <1>3, KeepStill
<1>4. CASE /\ items[k] # << >>
           /\ got' = [got EXCEPT ![c] = Append(got[c], x)]
           /\ items' = [items EXCEPT ![k] = Tail(items[k])]
  <2>1. items[k] \in Seq(Values) /\ items'[k] = Tail(items[k]) /\ \A l \in Subs \ {k} : items'[l] = items[l]
    BY <1>1, <1>4
  <2>2. got[c] \in Seq(Values) /\ got'[c] = Append(got[c], x) /\ \A d \in Consumers \ {c} : got'[d] = got[d]
    BY <1>1, <1>4
  <2>3. /\ Len(items[k]) \in Nat /\ Len(items[k]) >= 1 /\ DOMAIN items[k] = 1 .. Len(items[k])
        /\ DOMAIN items'[k] = 1 .. Len(items[k]) - 1 /\ x = items[k][1] /\ x \in Values
        /\ \A n \in 1 .. Len(items[k]) - 1 : items'[k][n] = items[k][n + 1]
    <3>1. items[k] \in Seq(Values) /\ items[k] # << >> /\ items'[k] = Tail(items[k])
        BY <1>4, <2>1
    <3>2. QED
        BY <3>1, HeadTail
  <2>4. x \in Waiting /\ x \notin Taken
    <3>1. 1 \in DOMAIN items[k]
        BY <2>3
    <3>2. x \in Waiting
        BY <1>1, <2>3, <3>1 DEF Waiting, Range
    <3>3. QED
        BY <3>2 DEF VInv, Apart
  <2>5. Taken' = Taken \union {x}
    <3>1. Range(got'[c]) = Range(got[c]) \union {x}
        BY <2>2, <2>3, RangeAppend
    <3>2. QED
        BY <2>2, <3>1 DEF Taken
  <2>6. Waiting = Waiting' \union {x}
    <3>1. Range(items[k]) = {x} \union Range(items'[k])
        BY <1>4, <2>1, RangeHead
    <3>2. QED
      <4>1. \A y : y \in Waiting <=> \E l \in Subs : y \in Range(items[l])
        BY DEF Waiting
      <4>2. \A y : y \in Waiting' <=> \E l \in Subs : y \in Range(items'[l])
        BY DEF Waiting
      <4>3. \A l \in Subs \ {k} : Range(items'[l]) = Range(items[l])
        BY <2>1
      <4>4. \A y : y \in Waiting <=> y \in Waiting' \union {x}
        BY <1>1, <3>1, <4>1, <4>2, <4>3
      <4>5. QED
        BY <4>4
  <2>7. Sent' = Sent
    BY <2>5, <2>6 DEF Sent
  <2>8. ASSUME NEW l \in Subs, NEW n \in DOMAIN items'[l]
        PROVE  \/ l # k /\ n \in DOMAIN items[l] /\ items'[l][n] = items[l][n]
               \/ l = k /\ n \in Nat /\ n >= 1 /\ n + 1 \in DOMAIN items[l] /\ items'[l][n] = items[l][n + 1]
    <3>1. CASE l # k
        BY <2>1, <2>8, <3>1
    <3>2. CASE l = k
      <4>1. n \in 1 .. Len(items[k]) - 1
        BY <2>3, <2>8, <3>2
      <4>2. n \in Nat /\ n >= 1 /\ n + 1 \in 1 .. Len(items[k])
        BY <2>3, <4>1
      <4>3. QED
        BY <2>3, <3>2, <4>1, <4>2
    <3>3. QED
        BY <3>1, <3>2
  <2>9. WaitsOnce'
    <3>1. SUFFICES ASSUME NEW i \in Subs, NEW l \in Subs, NEW m \in DOMAIN items'[i],
                          NEW n \in DOMAIN items'[l], items'[i][m] = items'[l][n]
                   PROVE  i = l /\ m = n
        BY DEF WaitsOnce
    <3>2. \A a, b \in Subs : \A s \in DOMAIN items[a], r \in DOMAIN items[b] :
            items[a][s] = items[b][r] => a = b /\ s = r
        BY DEF VInv, WaitsOnce
    <3>3. CASE i # k /\ l # k
        BY <2>8, <3>1, <3>2, <3>3
    <3>4. CASE i = k /\ l = k
      <4>1. m \in Nat /\ n \in Nat /\ m + 1 = n + 1
        BY <2>8, <3>1, <3>2, <3>4
      <4>2. QED
        BY <3>4, <4>1
    <3>5. CASE (i = k) # (l = k)
        BY <2>8, <3>1, <3>2, <3>5
    <3>6. QED
        BY <3>3, <3>4, <3>5
  <2>10. x \notin Waiting'
    <3>1. SUFFICES ASSUME NEW l \in Subs, NEW n \in DOMAIN items'[l], items'[l][n] = x
                   PROVE  FALSE
        BY DEF Waiting, Range
    <3>2. 1 \in DOMAIN items[k] /\ items[k][1] = x
        BY <2>3
    <3>3. \A b \in Subs : \A r \in DOMAIN items[b] : items[b][r] = x => b = k /\ r = 1
        BY <1>1, <3>2 DEF VInv, WaitsOnce
    <3>4. CASE l # k
        BY <2>8, <3>1, <3>3, <3>4
    <3>5. CASE l = k
      <4>1. n \in Nat /\ n >= 1 /\ n + 1 \in DOMAIN items[k] /\ items[k][n + 1] = x
        BY <2>8, <3>1, <3>5
      <4>2. n + 1 = 1
        BY <1>1, <3>3, <4>1
      <4>3. QED
        BY <4>1, <4>2
    <3>6. QED
        BY <3>4, <3>5
  <2>11. Apart'
    BY <2>5, <2>6, <2>10 DEF VInv, Apart
  <2>12. ASSUME NEW d \in Consumers, NEW n \in DOMAIN got'[d]
         PROVE  \/ n \in DOMAIN got[d] /\ got'[d][n] = got[d][n] /\ got'[d][n] # x
                \/ d = c /\ n = Len(got[c]) + 1 /\ got'[d][n] = x
    <3>1. CASE d # c
      <4>1. n \in DOMAIN got[d] /\ got'[d][n] = got[d][n]
        BY <2>2, <2>12, <3>1
      <4>2. got[d][n] \in Taken
        BY <4>1 DEF Taken, Range
      <4>3. QED
        BY <2>4, <4>1, <4>2
    <3>2. CASE d = c
      <4>1. DOMAIN got'[c] = 1 .. Len(got[c]) + 1 /\ DOMAIN got[c] = 1 .. Len(got[c]) /\ Len(got[c]) \in Nat
        BY <2>2, <2>3
      <4>2. CASE n = Len(got[c]) + 1
        BY <2>2, <2>3, <3>2, <4>2
      <4>3. CASE n \in 1 .. Len(got[c])
        <5>1. got'[c][n] = got[c][n]
            BY <2>2, <2>3, <4>3
        <5>2. got[c][n] \in Taken
            BY <4>1, <4>3 DEF Taken, Range
        <5>3. QED
            BY <2>4, <3>2, <4>1, <4>3, <5>1, <5>2
      <4>4. QED
        BY <2>12, <3>2, <4>1, <4>2, <4>3
    <3>3. QED
        BY <3>1, <3>2
  <2>13. TakenOnce'
    <3>1. SUFFICES ASSUME NEW d \in Consumers, NEW e \in Consumers, NEW m \in DOMAIN got'[d],
                          NEW n \in DOMAIN got'[e], got'[d][m] = got'[e][n]
                   PROVE  d = e /\ m = n
        BY DEF TakenOnce
    <3>2. CASE got'[d][m] = x
        BY <2>12, <3>1, <3>2
    <3>3. CASE got'[d][m] # x
        BY <2>12, <3>1, <3>3 DEF VInv, TakenOnce
    <3>4. QED
        BY <3>2, <3>3
  <2>14. Stored' /\ \A q \in Producers : Fresh(q)' /\ Kept(q)'
    BY <1>1, <1>2, <2>7 DEF VInv, Stored, Sent, Fresh, Kept, Sending
  <2>15. QED
    BY <2>9, <2>11, <2>13, <2>14 DEF VInv
<1>5. QED
    BY <1>3, <1>4 DEF SubDequeue

-----------------------------------------------------------------------------
(* Theorems *)

LEMMA ValuesInv == Spec => [](IInv /\ VInv)
<1> USE ThreadFacts, Bounds
<1>1. Init => IInv /\ VInv
  <2> SUFFICES ASSUME Init
               PROVE  IInv /\ VInv
    OBVIOUS
  <2>1. IInv
    BY InitIInv
  <2>2. (\A c \in Consumers : got[c] = << >>) /\ (\A k \in Subs : items[k] = << >>)
    BY DEF Init
  <2>3. Taken = {} /\ Waiting = {} /\ Sent = {}
    BY <2>2 DEF Taken, Waiting, Sent, Range
  <2>4. Stored /\ \A p \in Producers : Fresh(p) /\ Kept(p)
    BY <2>3 DEF Init, Stored, Fresh, Kept
  <2>5. TakenOnce /\ WaitsOnce /\ Apart
    BY <2>2, <2>3 DEF TakenOnce, WaitsOnce, Apart
  <2>6. QED
    BY <2>1, <2>4, <2>5 DEF VInv
<1>2. IInv /\ VInv /\ [Next]_vars => (IInv /\ VInv)'
  <2> SUFFICES ASSUME IInv, VInv, [Next]_vars
               PROVE  IInv' /\ VInv'
    OBVIOUS
  <2>1. IInv' /\ TypeOK
    BY NextIInv DEF IInv
  <2>2. ASSUME NEW t \in Threads, Step(t) \/ LockStep(t)
        PROVE  VInv'
    <3>1. CASE ~ Moves(t)
        BY <2>1, <2>2, <3>1, StillStep, KeepStill
    <3>2. CASE t \in Producers /\ ReadEnq(t)
        BY <2>1, <3>2, KeepCall
    <3>3. CASE t \in Producers /\ SubEnqueue(t)
        BY <3>3, KeepStore
    <3>4. CASE t \in Consumers /\ SubDequeue(t)
        BY <3>4, KeepTake
    <3>5. QED
        BY <3>1, <3>2, <3>3, <3>4 DEF Moves
  <2>3. CASE UNCHANGED vars
    <3>1. items' = items /\ got' = got /\ sent' = sent /\ pc' = pc
        BY <2>3 DEF vars, subs, history
    <3>2. QED
        BY <2>1, <3>1, KeepStill
  <2>4. QED
    BY <2>1, <2>2, <2>3 DEF Next, Stopped
<1>3. QED
    BY <1>1, <1>2, PTL DEF Spec

\* A value whose enqueue() has returned is in a subqueue or was handed out,
\* however the calls and the growth of the queue interleave.
THEOREM Storing == Spec => []Stored
<1>1. VInv => Stored
    BY DEF VInv
<1>2. QED
    BY <1>1, ValuesInv, PTL

\* No value is stored twice by the retries of enqueue() or handed out twice.
THEOREM Once == Spec => []AtMostOnce
<1>1. VInv => AtMostOnce
    BY DEF VInv, AtMostOnce, TakenOnce, WaitsOnce, Apart
<1>2. QED
    BY <1>1, ValuesInv, PTL
==============================================================================
