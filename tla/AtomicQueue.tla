------------------------------ MODULE AtomicQueue ------------------------------
(***************************************************************************)
(* The growing queue of atomic_queue.c: enqueue(), dequeue() and the RCU   *)
(* scheme that decides when an old subqueue may be left and freed.         *)
(*                                                                         *)
(* A subqueue is the queue that module SubQueue shows the ring to be       *)
(* (FifoQueue): each subenqueue() and subdequeue() takes effect in one     *)
(* step.  Around those calls every access to memory other threads write is *)
(* a step of its own, in the order of the source, with sequential          *)
(* consistency.  A critical section of the queue's lock starts with the    *)
(* step that takes the lock and its last write also gives the lock back.   *)
(*                                                                         *)
(* Subqueues are numbered in the order of their allocation and a number is *)
(* never used again; a thread that touches a freed subqueue, and a failed  *)
(* assertion, stop the program (variable fault).  A thread is the number   *)
(* of its slot in global_rcu[]; every thread has registered its slot.      *)
(***************************************************************************)
EXTENDS Naturals, Sequences

CONSTANTS N,                     \* number of threads
          Producers, Consumers,  \* a partition of 1 .. N
          InitialSize,           \* alloc_queue()'s initial_size
          MaxSub,                \* and its max_size: the MaxSub-th subqueue
                                 \* is the largest allowed
          MaxSend,               \* bound: values each producer sends
          MallocFreeq            \* what malloc() may leave in q->freeq

Threads == Producers \union Consumers

ASSUME ThreadAssumption ==
    N \in Nat /\ Threads = 1 .. N /\ Producers \cap Consumers = {}
ASSUME SizeAssumption ==
    InitialSize \in Nat \ {0} /\ MaxSub \in Nat \ {0} /\ MaxSend \in Nat

\* A subqueue is twice the size of the one before it.
SizeOf(k) == InitialSize * 2^(k - 1)

Subs == 1 .. MaxSub
Null == 0
Garbage == MaxSub + 1   \* a non-null pointer that is no subqueue
\* RCU_UNLOCKED is above every count: two rcu_register() calls per subqueue.
Unlocked == 2 * MaxSub + 2

ASSUME MallocAssumption == MallocFreeq \subseteq {Null, Garbage}

VARIABLES
    enq, deq, freeq,     \* the pointers of struct atomic_queue
    lock,                \* the thread that holds q->lock, or Null
    items,               \* items[k]: the values in subqueue k
    tail,                \* tail[k]: values consumed from subqueue k
    next,                \* next[k]: the successor of subqueue k, or Null
    dequeue_count,       \* dequeue_count[k]: rcu_dequeue_count
    free_count,          \* free_count[k]: rcu_free_count
    last,                \* number of subqueues allocated so far
    freed,               \* the set of freed subqueues
    rcu,                 \* rcu[t]: global_rcu[t]
    rcu_count,           \* global_rcu_count
    rcu_cached,          \* the static global_rcu_safe of rcu_safe()
    pc, subq,            \* where each thread is, the subqueue it looks at
    num,                 \* the counter it read or registered
    succ,                \* the successor it read or allocated
    slot,                \* its position in the scan of global_rcu[]
    since,               \* tail[subq] at the start of subenqueue()
    sent,                \* sent[p]: number of enqueue() calls p made
    got,                 \* history: got[c] is what c's dequeue() returned
    fault                \* "none", or what stopped the program

queue == <<enq, deq, freeq>>
subs == <<items, tail, next, dequeue_count, free_count>>
memory == <<last, freed>>
rcuvars == <<rcu, rcu_count, rcu_cached>>
locals == <<subq, num, succ, slot, since>>
history == <<sent, got>>
vars == <<queue, lock, subs, memory, rcuvars, pc, locals, history, fault>>

\* alloc_queue(): q->lock is taken to be zero; q->freeq is not initialised.
Init ==
    /\ enq = 1 /\ deq = 1 /\ freeq \in MallocFreeq
    /\ lock = Null
    /\ items = [k \in Subs |-> << >>]
    /\ tail = [k \in Subs |-> 0]
    /\ next = [k \in Subs |-> Null]
    /\ dequeue_count = [k \in Subs |-> 0]
    /\ free_count = [k \in Subs |-> 0]
    /\ last = 1 /\ freed = {}
    /\ rcu = [t \in Threads |-> Unlocked]
    /\ rcu_count = 1 /\ rcu_cached = 0
    /\ pc = [t \in Threads |-> "idle"]
    /\ subq = [t \in Threads |-> Null]
    /\ num = [t \in Threads |-> 0]
    /\ succ = [t \in Threads |-> Null]
    /\ slot = [t \in Threads |-> 0]
    /\ since = [p \in Producers |-> 0]
    /\ sent = [p \in Producers |-> 0]
    /\ got = [c \in Consumers |-> << >>]
    /\ fault = "none"

-----------------------------------------------------------------------------
(* Pieces of code *)

At(t, label) == fault = "none" /\ pc[t] = label
Goto(t, label) == pc' = [pc EXCEPT ![t] = label]
Set(f, t, x) == [f EXCEPT ![t] = x]

\* The value of producer p's current call.
Sending(p) == <<p, sent[p]>>

\* The steps that dereference the thread's subqueue pointer.
Derefs == {"e_sub", "e_next", "e_grow", "e_set_count",
           "d_sub", "d_free_count", "d_next", "d_dequeue_count",
           "d_set_free_count"}

\* A step that touches a freed subqueue.  What happens then is undefined.
TouchFreed(t) ==
    /\ fault = "none" /\ pc[t] \in Derefs /\ subq[t] \in freed
    /\ fault' = IF t \in Producers THEN "enqueue uses freed memory"
                                   ELSE "dequeue uses freed memory"
    /\ UNCHANGED <<queue, lock, subs, memory, rcuvars, pc, locals, history>>

Deref(t, label) == At(t, label) /\ subq[t] \notin freed

\* rcu_lock(): read global_rcu_count ...
RcuLoad(t) ==
    /\ fault = "none" /\ pc[t] \in {"e_rcu_load", "d_rcu_load"}
    /\ num' = Set(num, t, rcu_count)
    /\ Goto(t, IF t \in Producers THEN "e_rcu_store" ELSE "d_rcu_store")
    /\ UNCHANGED <<queue, lock, subs, memory, rcuvars, subq, succ, slot, since,
                   history, fault>>

\* ... and announce it in the thread's slot.
RcuStore(t) ==
    /\ fault = "none" /\ pc[t] \in {"e_rcu_store", "d_rcu_store"}
    /\ rcu' = Set(rcu, t, num[t])
    /\ num' = Set(num, t, 0)
    /\ IF t \in Producers
       THEN Goto(t, "e_sub") /\ since' = Set(since, t, tail[subq[t]])
       ELSE Goto(t, "d_read_deq") /\ UNCHANGED since
    /\ UNCHANGED <<queue, lock, subs, memory, rcu_count, rcu_cached, subq, succ,
                   slot, history, fault>>

\* rcu_register(): fetch and add.
RcuRegister(t) ==
    /\ num' = Set(num, t, rcu_count)
    /\ rcu_count' = rcu_count + 1

\* rcu_safe(num[t]) as far as the cached count: the thread goes on to yes,
\* or to scan the slots.
RcuSafe(t, yes, scan) ==
    \/ num[t] <= rcu_cached /\ Goto(t, yes) /\ UNCHANGED slot
    \/ num[t] > rcu_cached /\ Goto(t, scan) /\ slot' = Set(slot, t, 1)

\* One round of the loop of rcu_safe(), or what follows it.
RcuScan(t, yes, no) ==
    \/ /\ slot[t] <= N /\ rcu[slot[t]] <= num[t]
       /\ Goto(t, no)
       /\ slot' = Set(slot, t, 0)
       /\ UNCHANGED rcu_cached
    \/ /\ slot[t] <= N /\ rcu[slot[t]] > num[t]
       /\ slot' = Set(slot, t, slot[t] + 1)
       /\ UNCHANGED <<pc, rcu_cached>>
    \/ /\ slot[t] > N
       /\ rcu_cached' = num[t]
       /\ Goto(t, yes)
       /\ slot' = Set(slot, t, 0)

-----------------------------------------------------------------------------
(* Plausible bugs.  Each is a variant of the action it names, that the     *)
(* project's runs must tell from the real one; none is part of the         *)
(* specification.                                                          *)

\* SubEnqueue that drops the value when the subqueue is full.
DropWhenFull(p) ==
    /\ Deref(p, "e_sub")
    /\ LET k == subq[p] IN
         items' = IF Len(items[k]) = SizeOf(k) THEN items
                  ELSE [items EXCEPT ![k] = Append(@, Sending(p))]
    /\ Goto(p, "e_unlock")
    /\ since' = Set(since, p, 0)
    /\ UNCHANGED <<queue, lock, tail, next, dequeue_count, free_count, memory,
                   rcuvars, subq, num, succ, slot, history, fault>>

\* SubEnqueue that reports a full subqueue after it took the last entry.
StoreAndRefuse(p) ==
    /\ Deref(p, "e_sub")
    /\ LET k == subq[p] IN
         \/ /\ Len(items[k]) < SizeOf(k)
            /\ items' = [items EXCEPT ![k] = Append(@, Sending(p))]
            /\ Goto(p, IF Len(items'[k]) < SizeOf(k) THEN "e_unlock"
                                                     ELSE "e_unlock_full")
         \/ /\ Len(items[k]) = SizeOf(k)
            /\ Goto(p, "e_unlock_full")
            /\ UNCHANGED items
    /\ since' = Set(since, p, 0)
    /\ UNCHANGED <<queue, lock, tail, next, dequeue_count, free_count, memory,
                   rcuvars, subq, num, succ, slot, history, fault>>

\* CheckNext that grows the queue again.
GrowAgain(p) ==
    /\ Deref(p, "e_next") /\ last < MaxSub
    /\ Goto(p, "e_grow")
    /\ UNCHANGED <<queue, lock, subs, memory, rcuvars, locals, history, fault>>

\* Grow that gives the lock back before enq moves.
GrowAndUnlock(p) ==
    /\ Deref(p, "e_grow")
    /\ last' = last + 1
    /\ next' = Set(next, subq[p], last')
    /\ succ' = Set(succ, p, last')
    /\ lock' = Null
    /\ Goto(p, "e_set_enq")
    /\ UNCHANGED <<queue, items, tail, dequeue_count, free_count, freed,
                   rcuvars, subq, num, slot, since, history, fault>>

\* SetDequeueCount that keeps the lock.
KeepLock(p) ==
    /\ Deref(p, "e_set_count")
    /\ dequeue_count' = Set(dequeue_count, subq[p], num[p])
    /\ num' = Set(num, p, 0)
    /\ subq' = Set(subq, p, Null)
    /\ Goto(p, "e_retry")
    /\ UNCHANGED <<queue, lock, items, tail, next, free_count, memory, rcuvars,
                   succ, slot, since, history, fault>>

\* Retire without the second look at deq.
RetireAgain(c) ==
    /\ At(c, "d_retire_lock") /\ lock = Null
    /\ \/ /\ freeq = Null
          /\ lock' = c
          /\ freeq' = subq[c]
          /\ Goto(c, "d_set_deq")
       \/ /\ freeq # Null
          /\ Goto(c, "d_advance")
          /\ UNCHANGED <<lock, freeq>>
    /\ UNCHANGED <<enq, deq, subs, memory, rcuvars, locals, history, fault>>

\* Retire without the lock.
RetireUnlocked(c) ==
    /\ At(c, "d_retire_lock")
    /\ \/ /\ freeq = Null /\ deq = subq[c]
          /\ lock' = c
          /\ freeq' = subq[c]
          /\ Goto(c, "d_set_deq")
       \/ /\ freeq # Null \/ deq # subq[c]
          /\ Goto(c, "d_advance")
          /\ UNCHANGED <<lock, freeq>>
    /\ UNCHANGED <<enq, deq, subs, memory, rcuvars, locals, history, fault>>

\* SetDeq that does not move deq.
LeaveDeq(c) ==
    /\ At(c, "d_set_deq")
    /\ Goto(c, "d_register")
    /\ UNCHANGED <<queue, lock, subs, memory, rcuvars, locals, history, fault>>

\* SetFreeCount that keeps the lock.
KeepLockInDequeue(c) ==
    /\ Deref(c, "d_set_free_count")
    /\ free_count' = Set(free_count, subq[c], num[c])
    /\ Goto(c, "d_advance")
    /\ UNCHANGED <<queue, lock, items, tail, next, dequeue_count, memory, rcuvars,
                   locals, history, fault>>

\* DeqUnlock that clears the thread's slot, so that rcu_safe() takes it for
\* the end of the slots in use.
ClearSlot(c) ==
    /\ At(c, "d_unlock")
    /\ rcu' = Set(rcu, c, 0)
    /\ subq' = Set(subq, c, Null)
    /\ Goto(c, "idle")
    /\ UNCHANGED <<queue, lock, subs, memory, rcu_count, rcu_cached, num, succ,
                   slot, since, history, fault>>

-----------------------------------------------------------------------------
(* enqueue() and subenqueue() *)

\* Line 400: q->enq is read before rcu_lock() is called.
ReadEnq(p) ==
    /\ \/ At(p, "idle") /\ sent[p] < MaxSend /\ sent' = Set(sent, p, sent[p] + 1)
       \/ At(p, "e_retry") /\ UNCHANGED sent
    /\ subq' = Set(subq, p, enq)
    /\ Goto(p, "e_rcu_load")
    /\ UNCHANGED <<queue, lock, subs, memory, rcuvars, num, succ, slot, since,
                   got, fault>>

\* The body of subenqueue(): the value enters the subqueue, or the subqueue
\* is full, or consumers were busy in each of its four rounds.
SubEnqueue(p) ==
    /\ Deref(p, "e_sub")
    /\ LET k == subq[p] IN
         \/ /\ Len(items[k]) < SizeOf(k)
            /\ items' = [items EXCEPT ![k] = Append(@, Sending(p))]
            /\ Goto(p, "e_unlock")
         \/ /\ Len(items[k]) = SizeOf(k) \/ tail[k] >= since[p] + 3
            /\ Goto(p, "e_unlock_full")
            /\ UNCHANGED items
    /\ since' = Set(since, p, 0)
    /\ UNCHANGED <<queue, lock, tail, next, dequeue_count, free_count, memory,
                   rcuvars, subq, num, succ, slot, history, fault>>

\* rcu_unlock() of subenqueue().
EnqUnlock(p) ==
    /\ \/ At(p, "e_unlock") /\ Goto(p, "idle") /\ subq' = Set(subq, p, Null)
       \/ At(p, "e_unlock_full") /\ Goto(p, "e_lock") /\ UNCHANGED subq
    /\ rcu' = Set(rcu, p, Unlocked)
    /\ UNCHANGED <<queue, lock, subs, memory, rcu_count, rcu_cached, num, succ,
                   slot, since, history, fault>>

\* Line 404.
EnqLock(p) ==
    /\ At(p, "e_lock") /\ lock = Null
    /\ lock' = p
    /\ Goto(p, "e_next")
    /\ UNCHANGED <<queue, subs, memory, rcuvars, locals, history, fault>>

\* Lines 405-411: somebody else has grown the queue, or this thread must.
CheckNext(p) ==
    /\ Deref(p, "e_next")
    /\ LET k == subq[p] IN
         \/ /\ next[k] # Null
            /\ lock' = Null
            /\ Goto(p, "e_retry")
            /\ subq' = Set(subq, p, Null)
            /\ UNCHANGED fault
         \/ /\ next[k] = Null /\ k < MaxSub
            /\ Goto(p, "e_grow")
            /\ UNCHANGED <<lock, subq, fault>>
         \/ /\ next[k] = Null /\ k = MaxSub
            /\ fault' = "max_size reached"
            /\ UNCHANGED <<lock, pc, subq>>
    /\ UNCHANGED <<queue, subs, memory, rcuvars, num, succ, slot, since, history>>

\* Line 412: from here on consumers can see the new subqueue.
Grow(p) ==
    /\ Deref(p, "e_grow")
    /\ last' = last + 1
    /\ next' = Set(next, subq[p], last')
    /\ succ' = Set(succ, p, last')
    /\ Goto(p, "e_set_enq")
    /\ UNCHANGED <<queue, lock, items, tail, dequeue_count, free_count, freed,
                   rcuvars, subq, num, slot, since, history, fault>>

\* Line 413: from here on new calls use it.
SetEnq(p) ==
    /\ At(p, "e_set_enq")
    /\ enq' = succ[p]
    /\ succ' = Set(succ, p, Null)
    /\ Goto(p, "e_register")
    /\ UNCHANGED <<deq, freeq, lock, subs, memory, rcuvars, subq, num, slot,
                   since, history, fault>>

\* Line 415, in two steps.
EnqRegister(p) ==
    /\ At(p, "e_register")
    /\ RcuRegister(p)
    /\ Goto(p, "e_set_count")
    /\ UNCHANGED <<queue, lock, subs, memory, rcu, rcu_cached, subq, succ, slot,
                   since, history, fault>>

SetDequeueCount(p) ==
    /\ Deref(p, "e_set_count")
    /\ dequeue_count' = Set(dequeue_count, subq[p], num[p])
    /\ lock' = Null
    /\ num' = Set(num, p, 0)
    /\ subq' = Set(subq, p, Null)
    /\ Goto(p, "e_retry")
    /\ UNCHANGED <<queue, items, tail, next, free_count, memory, rcuvars, succ,
                   slot, since, history, fault>>

-----------------------------------------------------------------------------
(* dequeue() and subdequeue() *)

\* Line 298: a call starts.
DeqCall(c) ==
    /\ At(c, "idle")
    /\ Goto(c, "d_rcu_load")
    /\ UNCHANGED <<queue, lock, subs, memory, rcuvars, locals, history, fault>>

\* Line 299.
ReadDeq(c) ==
    /\ At(c, "d_read_deq")
    /\ subq' = Set(subq, c, deq)
    /\ Goto(c, "d_sub")
    /\ UNCHANGED <<queue, lock, subs, memory, rcuvars, num, succ, slot, since,
                   history, fault>>

\* Line 302.
SubDequeue(c) ==
    /\ Deref(c, "d_sub")
    /\ LET k == subq[c] IN
         \/ /\ items[k] # << >>
            /\ got' = [got EXCEPT ![c] = Append(@, Head(items[k]))]
            /\ items' = [items EXCEPT ![k] = Tail(@)]
            /\ tail' = Set(tail, k, tail[k] + 1)
            /\ Goto(c, "d_unlock")
         \/ /\ items[k] = << >>
            /\ Goto(c, "d_freeq")
            /\ UNCHANGED <<got, items, tail>>
    /\ UNCHANGED <<queue, lock, next, dequeue_count, free_count, memory, rcuvars,
                   locals, sent, fault>>

\* Line 308, the first condition.
ReadFreeq(c) ==
    /\ At(c, "d_freeq")
    /\ Goto(c, IF freeq # Null THEN "d_free_count" ELSE "d_next")
    /\ UNCHANGED <<queue, lock, subs, memory, rcuvars, locals, history, fault>>

\* Line 308, the second: the count is the one of the current subqueue.
ReadFreeCount(c) ==
    /\ Deref(c, "d_free_count")
    /\ num' = Set(num, c, free_count[subq[c]])
    /\ Goto(c, "d_free_safe")
    /\ UNCHANGED <<queue, lock, subs, memory, rcuvars, subq, succ, slot, since,
                   history, fault>>

FreeSafe(c) ==
    /\ At(c, "d_free_safe")
    /\ RcuSafe(c, "d_free_lock", "d_free_scan")
    /\ UNCHANGED <<queue, lock, subs, memory, rcuvars, subq, num, succ, since,
                   history, fault>>

FreeScan(c) ==
    /\ At(c, "d_free_scan")
    /\ RcuScan(c, "d_free_lock", "d_next")
    /\ UNCHANGED <<queue, lock, subs, memory, rcu, rcu_count, subq, num, succ,
                   since, history, fault>>

FreeLock(c) ==
    /\ At(c, "d_free_lock") /\ lock = Null
    /\ lock' = c
    /\ Goto(c, "d_free")
    /\ UNCHANGED <<queue, subs, memory, rcuvars, locals, history, fault>>

\* Lines 310-314.
Free(c) ==
    /\ At(c, "d_free")
    /\ \/ /\ freeq = Garbage
          /\ fault' = "free of a pointer that is no subqueue"
          /\ UNCHANGED <<freed, freeq, lock, pc>>
       \/ /\ freeq # Garbage
          /\ freed' = freed \union ({freeq} \ {Null})
          /\ freeq' = Null
          /\ lock' = Null
          /\ Goto(c, "d_next")
          /\ UNCHANGED fault
    /\ UNCHANGED <<enq, deq, subs, last, rcuvars, locals, history>>

\* Line 317, and the first condition of line 318.
ReadNext(c) ==
    /\ Deref(c, "d_next")
    /\ succ' = Set(succ, c, next[subq[c]])
    /\ num' = Set(num, c, 0)
    /\ Goto(c, IF next[subq[c]] # Null THEN "d_check_freeq" ELSE "d_advance")
    /\ UNCHANGED <<queue, lock, subs, memory, rcuvars, subq, slot, since, history,
                   fault>>

\* Line 318, the second.
CheckFreeq(c) ==
    /\ At(c, "d_check_freeq")
    /\ Goto(c, IF freeq = Null THEN "d_dequeue_count" ELSE "d_advance")
    /\ UNCHANGED <<queue, lock, subs, memory, rcuvars, locals, history, fault>>

\* Line 318, the third.
ReadDequeueCount(c) ==
    /\ Deref(c, "d_dequeue_count")
    /\ num' = Set(num, c, dequeue_count[subq[c]])
    /\ Goto(c, "d_retire_safe")
    /\ UNCHANGED <<queue, lock, subs, memory, rcuvars, subq, succ, slot, since,
                   history, fault>>

RetireSafe(c) ==
    /\ At(c, "d_retire_safe")
    /\ RcuSafe(c, "d_retire_lock", "d_retire_scan")
    /\ UNCHANGED <<queue, lock, subs, memory, rcuvars, subq, num, succ, since,
                   history, fault>>

RetireScan(c) ==
    /\ At(c, "d_retire_scan")
    /\ RcuScan(c, "d_retire_lock", "d_advance")
    /\ UNCHANGED <<queue, lock, subs, memory, rcu, rcu_count, subq, num, succ,
                   since, history, fault>>

\* Lines 319-321: the current subqueue becomes the old one ...
Retire(c) ==
    /\ At(c, "d_retire_lock") /\ lock = Null
    /\ \/ /\ freeq = Null /\ deq = subq[c]
          /\ lock' = c
          /\ freeq' = subq[c]
          /\ Goto(c, "d_set_deq")
       \/ /\ freeq # Null \/ deq # subq[c]
          /\ Goto(c, "d_advance")
          /\ UNCHANGED <<lock, freeq>>
    /\ UNCHANGED <<enq, deq, subs, memory, rcuvars, locals, history, fault>>

\* ... line 322, the next one takes its place ...
SetDeq(c) ==
    /\ At(c, "d_set_deq")
    /\ deq' = succ[c]
    /\ Goto(c, "d_register")
    /\ UNCHANGED <<enq, freeq, lock, subs, memory, rcuvars, locals, history, fault>>

\* ... and line 323, in two steps.
DeqRegister(c) ==
    /\ At(c, "d_register")
    /\ RcuRegister(c)
    /\ Goto(c, "d_set_free_count")
    /\ UNCHANGED <<queue, lock, subs, memory, rcu, rcu_cached, subq, succ, slot,
                   since, history, fault>>

SetFreeCount(c) ==
    /\ Deref(c, "d_set_free_count")
    /\ free_count' = Set(free_count, subq[c], num[c])
    /\ lock' = Null
    /\ Goto(c, "d_advance")
    /\ UNCHANGED <<queue, items, tail, next, dequeue_count, memory, rcuvars,
                   locals, history, fault>>

\* Lines 331-332.
Advance(c) ==
    /\ At(c, "d_advance")
    /\ subq' = Set(subq, c, succ[c])
    /\ succ' = Set(succ, c, Null)
    /\ num' = Set(num, c, 0)
    /\ Goto(c, IF succ[c] # Null THEN "d_sub" ELSE "d_unlock")
    /\ UNCHANGED <<queue, lock, subs, memory, rcuvars, slot, since, history, fault>>

\* rcu_unlock() and return.
DeqUnlock(c) ==
    /\ At(c, "d_unlock")
    /\ rcu' = Set(rcu, c, Unlocked)
    /\ subq' = Set(subq, c, Null)
    /\ Goto(c, "idle")
    /\ UNCHANGED <<queue, lock, subs, memory, rcu_count, rcu_cached, num, succ,
                   slot, since, history, fault>>

-----------------------------------------------------------------------------
EnqStep(p) ==
    \/ ReadEnq(p) \/ SubEnqueue(p) \/ EnqUnlock(p) \/ CheckNext(p) \/ Grow(p)
    \/ SetEnq(p) \/ EnqRegister(p) \/ SetDequeueCount(p)

DeqStep(c) ==
    \/ DeqCall(c) \/ ReadDeq(c) \/ SubDequeue(c) \/ ReadFreeq(c)
    \/ ReadFreeCount(c) \/ FreeSafe(c) \/ FreeScan(c) \/ Free(c) \/ ReadNext(c)
    \/ CheckFreeq(c) \/ ReadDequeueCount(c) \/ RetireSafe(c) \/ RetireScan(c)
    \/ SetDeq(c) \/ DeqRegister(c) \/ SetFreeCount(c) \/ Advance(c)
    \/ DeqUnlock(c)

\* The steps that take the lock.
LockStep(t) ==
    \/ t \in Producers /\ EnqLock(t)
    \/ t \in Consumers /\ (FreeLock(t) \/ Retire(t))

Step(t) ==
    \/ t \in Producers /\ EnqStep(t)
    \/ t \in Consumers /\ DeqStep(t)
    \/ RcuLoad(t) \/ RcuStore(t) \/ TouchFreed(t)

\* The program has stopped, or every producer has sent all its values and no
\* consumer calls: nothing more has to happen.
Stopped == fault # "none" /\ UNCHANGED vars

Next == (\E t \in Threads : Step(t) \/ LockStep(t)) \/ Stopped

Spec == Init /\ [][Next]_vars

\* Threads inside a call keep running.  The kernel hands a contended
\* priority-inheritance futex to a waiter (FUTEX_LOCK_PI), so nobody is
\* passed over for ever: strong fairness for the lock.
Fairness ==
    \A t \in Threads : /\ WF_vars(pc[t] # "idle" /\ Step(t))
                       /\ SF_vars(LockStep(t))

FairSpec == Spec /\ Fairness

-----------------------------------------------------------------------------
(* Correctness *)

Values == Producers \X (1 .. MaxSend)

Locations == {"idle", "e_retry", "e_rcu_load", "e_rcu_store", "e_sub",
              "e_unlock", "e_unlock_full", "e_lock", "e_next", "e_grow",
              "e_set_enq", "e_register", "e_set_count",
              "d_rcu_load", "d_rcu_store", "d_read_deq", "d_sub", "d_freeq",
              "d_free_count", "d_free_safe", "d_free_scan", "d_free_lock",
              "d_free", "d_next", "d_check_freeq", "d_dequeue_count",
              "d_retire_safe", "d_retire_scan", "d_retire_lock", "d_set_deq",
              "d_register", "d_set_free_count", "d_advance", "d_unlock"}

\* The variables keep their types.
TypeOK ==
    /\ enq \in Subs /\ deq \in Subs /\ freeq \in Subs \union {Null, Garbage}
    /\ lock \in Threads \union {Null}
    /\ items \in [Subs -> Seq(Values)]
    /\ tail \in [Subs -> Nat]
    /\ next \in [Subs -> Subs \union {Null}]
    /\ dequeue_count \in [Subs -> 0 .. Unlocked - 1]
    /\ free_count \in [Subs -> 0 .. Unlocked - 1]
    /\ last \in Subs /\ freed \subseteq Subs
    /\ rcu \in [Threads -> 1 .. Unlocked]
    /\ rcu_count \in 1 .. Unlocked - 1 /\ rcu_cached \in 0 .. Unlocked - 1
    /\ pc \in [Threads -> Locations]
    /\ subq \in [Threads -> Subs \union {Null}]
    /\ num \in [Threads -> 0 .. Unlocked - 1]
    /\ succ \in [Threads -> Subs \union {Null}]
    /\ slot \in [Threads -> 0 .. N + 1]
    /\ since \in [Producers -> Nat]
    /\ sent \in [Producers -> 0 .. MaxSend]
    /\ got \in [Consumers -> Seq(Values)]

\* The thread inside the critical section of q->lock is the one that holds it.
Critical == {"e_next", "e_grow", "e_set_enq", "e_register", "e_set_count",
             "d_free", "d_set_deq", "d_register", "d_set_free_count"}
LockInv == \A t \in Threads : pc[t] \in Critical <=> lock = t

\* The subqueues form one chain in the order of allocation that grows only at
\* its end: deq and enq are on it, deq never passes enq, and enq is the last
\* one except while the thread that grew the chain is about to move it.  This
\* is why a producer that finds the chain grown must not find enq unchanged
\* (line 407).
ChainInv ==
    /\ \A k \in Subs : next[k] = IF k < last THEN k + 1 ELSE Null
    /\ deq <= enq
    /\ \/ enq = last /\ ~ \E p \in Producers : pc[p] = "e_set_enq"
       \/ enq = last - 1 /\ \E p \in Producers : pc[p] = "e_set_enq"

\* Every subqueue the consumers have left is freed, or is the one waiting in
\* q->freeq; nothing else is freed.  So no subqueue leaks, none is freed
\* twice, and the chain from deq on stays allocated.
OldInv ==
    \/ /\ \E c \in Consumers : pc[c] = "d_set_deq"
       /\ freeq = deq /\ freed = 1 .. deq - 1
    \/ /\ ~ \E c \in Consumers : pc[c] = "d_set_deq"
       /\ freeq \in {Null, deq - 1}
       /\ freed = (1 .. deq - 1) \ {freeq}

\* The assertions of line 407 (who finds the chain grown also finds enq moved)
\* and of line 199 (a count passed to rcu_safe() has been registered).
Assertions ==
    /\ \A p \in Producers :
         pc[p] = "e_next" /\ next[subq[p]] # Null => subq[p] # enq
    /\ \A c \in Consumers :
         pc[c] \in {"d_free_safe", "d_retire_safe"} => num[c] < rcu_count

Range(s) == {s[n] : n \in DOMAIN s}
Taken == UNION {Range(got[c]) : c \in Consumers}
Waiting == UNION {Range(items[k]) : k \in Subs}

\* No value is handed out twice or stays in the queue after it was handed
\* out, and none is stored twice by the retries of enqueue().
AtMostOnce ==
    /\ \A c, d \in Consumers : \A m \in DOMAIN got[c], n \in DOMAIN got[d] :
         got[c][m] = got[d][n] => c = d /\ m = n
    /\ \A k, l \in Subs : \A m \in DOMAIN items[k], n \in DOMAIN items[l] :
         items[k][m] = items[l][n] => k = l /\ m = n
    /\ Taken \cap Waiting = {}

\* A value whose enqueue() has returned is in a subqueue or was handed out.
Stored ==
    \A p \in Producers : \A n \in 1 .. sent[p] :
        <<p, n>> \in Taken \union Waiting \/ (n = sent[p] /\ pc[p] # "idle")

\* If a producer enqueues A before B, a consumer never sees B before A.
InOrder ==
    \A c \in Consumers : \A m, n \in DOMAIN got[c] :
        m < n /\ got[c][m][1] = got[c][n][1] => got[c][m][2] < got[c][n][2]

\* No subqueue is freed with values inside it: they would be lost.
NothingLost == \A k \in freed : items[k] = << >>

\* No thread uses a subqueue after it was freed.
ProducersSafe == fault # "enqueue uses freed memory"
ConsumersSafe == fault # "dequeue uses freed memory"

\* Every call returns unless the program is stopped.
CallsReturn ==
    \A t \in Threads : pc[t] # "idle" ~> (pc[t] = "idle" \/ fault # "none")
=============================================================================
