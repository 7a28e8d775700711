------------------------------- MODULE SubQueue -------------------------------
(***************************************************************************)
(* One subqueue of atomic_queue.c: the ring buffer that _enqueue(),        *)
(* subenqueue() and subdequeue() share without a lock.  Every access to    *)
(* shared memory is a step of its own, so all interleavings of producers   *)
(* and consumers are behaviours of the model.  The two halves of an entry  *)
(* are read in two steps and written together by the 16-byte               *)
(* compare-and-swap.                                                       *)
(*                                                                         *)
(* A counter of the code is a natural number here: 2^64 operations on one  *)
(* subqueue do not happen.  The collision statistics are left out.         *)
(***************************************************************************)
EXTENDS Naturals, Sequences

CONSTANTS Producers, Consumers,
          Val,     \* the 64-bit values
          Zero,    \* the value of memory fresh from calloc()
          Size,    \* entries in the ring (a power of two in the code)
          MaxEnq   \* bound: no enqueue starts once this many have succeeded

ASSUME ThreadAssumption == Producers \cap Consumers = {}
ASSUME SizeAssumption == Size \in Nat \ {0}
ASSUME ZeroAssumption == Zero \in Val

Rounds == 4  \* "for (int i=0; i<4; i++)" of subenqueue()

VARIABLES
    q,          \* the ring: slot -> [ctr, val]
    tail,       \* number of the last entry consumed
    head_copy,  \* hint: number of the last entry produced
    tail_copy,  \* hint: a past value of tail, kept by the producers
    pc,         \* the next shared access of each thread
    arg,        \* producers: the value to enqueue
    head,       \* producers: the entry tried
    ptail,      \* producers: the local variable "tail"
    old,        \* producers: the entry as it was read
    i,          \* producers: the round of subenqueue()
    counter,    \* consumers: the entry tried
    ctr, val,   \* consumers: the entry as it was read
    log,        \* history: every value that entered the ring, in order
    since       \* history: tail at the start of a producer's call

shared == <<q, tail, head_copy, tail_copy>>
plocal == <<arg, head, ptail, old, i>>
clocal == <<counter, ctr, val>>
vars == <<shared, pc, plocal, clocal, log, since>>

Threads == Producers \union Consumers
Slots == 0 .. Size - 1
Slot(n) == n % Size   \* "n & q->mask"
Entry == [ctr : Nat, val : Val]

Goto(t, label) == pc' = [pc EXCEPT ![t] = label]

\* The locals of a call go out of scope: their values are forgotten, so that
\* they do not multiply the states.
LeaveEnqueue(p) ==
    /\ Goto(p, "idle")
    /\ arg' = [arg EXCEPT ![p] = Zero]
    /\ head' = [head EXCEPT ![p] = 0]
    /\ ptail' = [ptail EXCEPT ![p] = 0]
    /\ old' = [old EXCEPT ![p] = [ctr |-> 0, val |-> Zero]]
    /\ i' = [i EXCEPT ![p] = 0]
    /\ since' = [since EXCEPT ![p] = 0]

LeaveDequeue(c, label) ==
    /\ Goto(c, label)
    /\ counter' = [counter EXCEPT ![c] = 0]
    /\ ctr' = [ctr EXCEPT ![c] = 0]
    /\ val' = [val EXCEPT ![c] = Zero]

Init ==
    /\ q = [s \in Slots |-> [ctr |-> 0, val |-> Zero]]
    /\ tail = 0 /\ head_copy = 0 /\ tail_copy = 0
    /\ pc = [t \in Threads |-> "idle"]
    /\ arg = [p \in Producers |-> Zero]
    /\ head = [p \in Producers |-> 0]
    /\ ptail = [p \in Producers |-> 0]
    /\ old = [p \in Producers |-> [ctr |-> 0, val |-> Zero]]
    /\ i = [p \in Producers |-> 0]
    /\ counter = [c \in Consumers |-> 0]
    /\ ctr = [c \in Consumers |-> 0]
    /\ val = [c \in Consumers |-> Zero]
    /\ log = << >>
    /\ since = [p \in Producers |-> 0]

-----------------------------------------------------------------------------
(* Plausible bugs.  Each is a variant of the action or helper it names,    *)
(* that the project's runs must tell from the real one; none is part of    *)
(* the specification.                                                      *)

\* ReadCtr without the comparison with the tail.
NeverFull(p) ==
    /\ pc[p] = "read_ctr"
    /\ LET n == q[Slot(head[p])].ctr IN
         /\ old' = [old EXCEPT ![p].ctr = n]
         /\ Goto(p, IF n >= head[p] THEN "read_val" ELSE "cas")
    /\ UNCHANGED <<shared, arg, head, ptail, i, clocal, log, since>>

\* ReadCtr that does not step back when the ring looks full.
NoStepBack(p) ==
    /\ pc[p] = "read_ctr"
    /\ LET n == q[Slot(head[p])].ctr IN
         /\ old' = [old EXCEPT ![p].ctr = n]
         /\ Goto(p, IF n >= head[p] THEN "read_val"
                    ELSE IF n > ptail[p] THEN "read_tail" ELSE "cas")
    /\ UNCHANGED <<shared, arg, head, ptail, i, clocal, log, since>>

\* ReadVal that leaves the value of the compare-and-swap as it was.
UnreadValue(p) ==
    /\ pc[p] = "read_val"
    /\ head' = [head EXCEPT ![p] = @ + 1]
    /\ Goto(p, "read_ctr")
    /\ UNCHANGED <<shared, arg, ptail, old, i, clocal, log, since>>

\* NextRound of a loop that runs once.
SingleRound(p) ==
    /\ i' = [i EXCEPT ![p] = @ + 1]
    /\ Goto(p, "refused")

\* ReadValC that waits for a value when the ring is empty.
WaitForValue(c) ==
    /\ pc[c] = "deq_val"
    /\ val' = [val EXCEPT ![c] = q[Slot(counter[c])].val]
    /\ Goto(c, IF ctr[c] < counter[c] THEN "deq_tail" ELSE "deq_cas")
    /\ UNCHANGED <<shared, plocal, counter, ctr, log, since>>

\* CasTail as a plain store.
StoreTail(c) ==
    /\ pc[c] = "deq_cas"
    /\ tail' = counter[c]
    /\ Goto(c, "got")
    /\ UNCHANGED <<q, head_copy, tail_copy, plocal, clocal, log, since>>

-----------------------------------------------------------------------------
(* subenqueue() and _enqueue() *)

\* Line 366: the call starts by reading the hint for the head.
ReadHeadCopy(p, v) ==
    /\ pc[p] = "idle"
    /\ Len(log) < MaxEnq
    /\ arg' = [arg EXCEPT ![p] = v]
    /\ head' = [head EXCEPT ![p] = head_copy]
    /\ i' = [i EXCEPT ![p] = 0]
    /\ since' = [since EXCEPT ![p] = tail]
    /\ Goto(p, "read_tail_copy")
    /\ UNCHANGED <<shared, ptail, old, clocal, log>>

\* Line 367.
ReadTailCopy(p) ==
    /\ pc[p] = "read_tail_copy"
    /\ ptail' = [ptail EXCEPT ![p] = tail_copy]
    /\ Goto(p, "read_val")
    /\ UNCHANGED <<shared, arg, head, old, i, clocal, log, since>>

\* Lines 343-347: move on to the next entry and read its value.
ReadVal(p) ==
    /\ pc[p] = "read_val"
    /\ head' = [head EXCEPT ![p] = @ + 1]
    /\ old' = [old EXCEPT ![p].val = q[Slot(head[p] + 1)].val]
    /\ Goto(p, "read_ctr")
    /\ UNCHANGED <<shared, arg, ptail, i, clocal, log, since>>

\* Lines 349-358: read its counter.  The entry is taken already (retry),
\* not consumed yet as far as this producer knows (the ring looks full), or
\* free.
ReadCtr(p) ==
    /\ pc[p] = "read_ctr"
    /\ LET n == q[Slot(head[p])].ctr IN
         /\ old' = [old EXCEPT ![p].ctr = n]
         /\ \/ n >= head[p] /\ Goto(p, "read_val") /\ UNCHANGED head
            \/ /\ n < head[p] /\ n > ptail[p]
               /\ head' = [head EXCEPT ![p] = @ - 1]
               /\ Goto(p, "read_tail")
            \/ n < head[p] /\ n <= ptail[p] /\ Goto(p, "cas") /\ UNCHANGED head
    /\ UNCHANGED <<shared, arg, ptail, i, clocal, log, since>>

\* Line 359: the 16-byte compare-and-swap; when it fails the loop moves on.
CasEntry(p) ==
    /\ pc[p] = "cas"
    /\ \/ /\ q[Slot(head[p])] = old[p]
          /\ q' = [q EXCEPT ![Slot(head[p])] = [ctr |-> head[p], val |-> arg[p]]]
          /\ log' = Append(log, arg[p])
          /\ Goto(p, "write_head_copy")
       \/ /\ q[Slot(head[p])] # old[p]
          /\ Goto(p, "read_val")
          /\ UNCHANGED <<q, log>>
    /\ UNCHANGED <<tail, head_copy, tail_copy, plocal, clocal, since>>

\* Lines 389-391: publish the hint and return 1.
WriteHeadCopy(p) ==
    /\ pc[p] = "write_head_copy"
    /\ head_copy' = head[p]
    /\ LeaveEnqueue(p)
    /\ UNCHANGED <<q, tail, tail_copy, clocal, log>>

\* Lines 376-382: the ring looked full; read the true tail.
ReadTail(p) ==
    /\ pc[p] = "read_tail"
    /\ \/ /\ tail <= ptail[p]
          /\ Goto(p, "refused")
          /\ UNCHANGED ptail
       \/ /\ tail > ptail[p]
          /\ ptail' = [ptail EXCEPT ![p] = tail]
          /\ Goto(p, "compare_tail_copy")
    /\ UNCHANGED <<shared, arg, head, old, i, clocal, log, since>>

\* "continue" of the loop in subenqueue(): the next round, or line 394.
NextRound(p) ==
    /\ i' = [i EXCEPT ![p] = @ + 1]
    /\ Goto(p, IF i[p] + 1 < Rounds THEN "read_val" ELSE "refused")

\* Line 383: does the hint for the tail need an update?
CompareTailCopy(p) ==
    /\ pc[p] = "compare_tail_copy"
    /\ \/ ptail[p] > tail_copy /\ Goto(p, "write_tail_copy") /\ UNCHANGED i
       \/ ptail[p] <= tail_copy /\ NextRound(p)
    /\ UNCHANGED <<shared, arg, head, ptail, old, clocal, log, since>>

\* Line 384.
WriteTailCopy(p) ==
    /\ pc[p] = "write_tail_copy"
    /\ tail_copy' = ptail[p]
    /\ NextRound(p)
    /\ UNCHANGED <<q, tail, head_copy, arg, head, ptail, old, clocal, log, since>>

\* Lines 379-380 and 393-394: return 0.
ReturnRefused(p) ==
    /\ pc[p] = "refused"
    /\ LeaveEnqueue(p)
    /\ UNCHANGED <<shared, clocal, log>>

-----------------------------------------------------------------------------
(* subdequeue() *)

\* Line 280, for a new call or after a lost compare-and-swap.
ReadTailC(c) ==
    /\ pc[c] \in {"idle", "deq_tail"}
    /\ counter' = [counter EXCEPT ![c] = tail + 1]
    /\ Goto(c, "deq_ctr")
    /\ UNCHANGED <<shared, plocal, ctr, val, log, since>>

\* Lines 281-282.
ReadCtrC(c) ==
    /\ pc[c] = "deq_ctr"
    /\ ctr' = [ctr EXCEPT ![c] = q[Slot(counter[c])].ctr]
    /\ Goto(c, "deq_val")
    /\ UNCHANGED <<shared, plocal, counter, val, log, since>>

\* Lines 284-286: read the value, return 0 if the entry was not there yet.
ReadValC(c) ==
    /\ pc[c] = "deq_val"
    /\ \/ /\ ctr[c] < counter[c]
          /\ LeaveDequeue(c, "idle")
       \/ /\ ctr[c] >= counter[c]
          /\ val' = [val EXCEPT ![c] = q[Slot(counter[c])].val]
          /\ Goto(c, "deq_cas")
          /\ UNCHANGED <<counter, ctr>>
    /\ UNCHANGED <<shared, plocal, log, since>>

\* Line 287: advance the tail, or start again.
CasTail(c) ==
    /\ pc[c] = "deq_cas"
    /\ \/ /\ tail = counter[c] - 1
          /\ tail' = counter[c]
          /\ Goto(c, "got")
          /\ UNCHANGED clocal
       \/ /\ tail # counter[c] - 1
          /\ LeaveDequeue(c, "deq_tail")
          /\ UNCHANGED tail
    /\ UNCHANGED <<q, head_copy, tail_copy, plocal, log, since>>

\* Lines 291-292: hand the value over and return 1.
ReturnGot(c) ==
    /\ pc[c] = "got"
    /\ LeaveDequeue(c, "idle")
    /\ UNCHANGED <<shared, plocal, log, since>>

-----------------------------------------------------------------------------
\* The steps of a producer that is inside a call.
Produce(p) ==
    \/ ReadTailCopy(p) \/ ReadVal(p) \/ ReadCtr(p) \/ CasEntry(p)
    \/ WriteHeadCopy(p) \/ ReadTail(p) \/ CompareTailCopy(p)
    \/ WriteTailCopy(p) \/ ReturnRefused(p)

\* The steps of a consumer; an idle one may start a call.
Consume(c) ==
    \/ ReadTailC(c) \/ ReadCtrC(c) \/ ReadValC(c) \/ CasTail(c) \/ ReturnGot(c)

Next ==
    \/ \E p \in Producers : (\E v \in Val : ReadHeadCopy(p, v)) \/ Produce(p)
    \/ \E c \in Consumers : Consume(c)

Spec == Init /\ [][Next]_vars

\* Every thread that is inside a call keeps running; nobody has to call.
Fairness ==
    /\ \A p \in Producers : WF_vars(Produce(p))
    /\ \A c \in Consumers : WF_vars(pc[c] # "idle" /\ Consume(c))

FairSpec == Spec /\ Fairness

-----------------------------------------------------------------------------
(* Correctness *)

Locations == {"idle", "read_tail_copy", "read_val", "read_ctr", "cas",
              "write_head_copy", "read_tail", "compare_tail_copy",
              "write_tail_copy", "refused",
              "deq_tail", "deq_ctr", "deq_val", "deq_cas", "got"}

\* The variables keep their types: the one typing invariant of the module.
TypeOK ==
    /\ q \in [Slots -> Entry]
    /\ tail \in Nat /\ head_copy \in Nat /\ tail_copy \in Nat
    /\ pc \in [Threads -> Locations]
    /\ arg \in [Producers -> Val]
    /\ head \in [Producers -> Nat]
    /\ ptail \in [Producers -> Nat]
    /\ old \in [Producers -> Entry]
    /\ i \in [Producers -> Nat]
    /\ counter \in [Consumers -> Nat]
    /\ ctr \in [Consumers -> Nat]
    /\ val \in [Consumers -> Val]
    /\ log \in Seq(Val)
    /\ since \in [Producers -> Nat]

H == Len(log)  \* number of the last entry produced

\* The ring never overwrites an entry that was not consumed, and the
\* consumers never run ahead of the producers.
Occupancy == tail <= H /\ H <= tail + Size

\* An entry in the ring is numbered for its own slot and carries the value
\* that was enqueued under that number.
EntriesGenuine ==
    \A s \in Slots :
        LET n == q[s].ctr IN
          /\ n <= H
          /\ n > 0 => Slot(n) = s /\ q[s].val = log[n]

\* There are no holes: every number handed out is in its slot, or was and has
\* been overwritten by a later lap.
NoHoles == \A n \in 1 .. H : q[Slot(n)].ctr >= n

\* The hints, which are written without synchronisation and may go
\* backwards, never run ahead of what they stand for.
HintsBehind == head_copy <= H /\ tail_copy <= tail

\* What a producer knows at each point of its call.  Its view of the tail is
\* in the past (the assertion of line 377); it looks at most one entry past
\* the head; if that entry is still free, what it read of it is still true.
\* When the ring looks full it was, as far as the producer's view of the tail.
ProducerKnows(p) ==
    LET s == Slot(head[p]) IN
      /\ ptail[p] <= tail
      /\ since[p] <= tail
      /\ pc[p] \in {"read_tail_copy", "read_val", "read_tail",
                    "compare_tail_copy", "write_tail_copy",
                    "write_head_copy"} => head[p] <= H
      /\ pc[p] = "read_tail" => ptail[p] + Size <= head[p]
      /\ pc[p] = "read_ctr" =>
           /\ 0 < head[p] /\ head[p] <= H + 1
           /\ head[p] = H + 1 => q[s].val = old[p].val
      /\ pc[p] = "cas" =>
           /\ 0 < head[p] /\ head[p] <= H + 1
           /\ old[p].ctr < head[p] /\ old[p].ctr <= ptail[p]
           /\ head[p] = H + 1 => q[s] = old[p]

\* A producer works through its rounds one removal at a time: when it has
\* used i rounds, at least i - 1 values left the ring during its call.
RoundsPaid(p) ==
    /\ pc[p] = "read_tail_copy" => i[p] = 0
    /\ pc[p] \in {"read_val", "read_ctr", "cas", "read_tail"}
         => i[p] < Rounds /\ (i[p] > 0 => ptail[p] + 1 >= since[p] + i[p])
    /\ pc[p] \in {"compare_tail_copy", "write_tail_copy"}
         => i[p] < Rounds /\ ptail[p] >= since[p] + i[p]

\* What a consumer knows at each point of its call.
ConsumerKnows(c) ==
    LET n == counter[c] IN
      /\ pc[c] \in {"deq_ctr", "deq_val", "deq_cas"} => 0 < n /\ n <= tail + 1
      /\ pc[c] = "deq_val" /\ ctr[c] >= n => n <= H /\ Slot(ctr[c]) = Slot(n)
      /\ pc[c] = "deq_cas" =>
           /\ n <= H /\ Slot(ctr[c]) = Slot(n)
           /\ n = tail + 1 => val[c] = log[n]
      /\ pc[c] = "got" =>
           /\ 0 < n /\ n <= tail /\ Slot(ctr[c]) = Slot(n)
           /\ val[c] = log[n]

\* The inductive invariant.
RingInv ==
    /\ TypeOK
    /\ Occupancy
    /\ EntriesGenuine
    /\ NoHoles
    /\ HintsBehind
    /\ \A p \in Producers : ProducerKnows(p) /\ RoundsPaid(p)
    /\ \A c \in Consumers : ConsumerKnows(c)

\* A producer gives an entry up for the next one only when another producer
\* has filled it.  The value and the counter are read apart, so a
\* compare-and-swap can fail although no one won it: were that possible at
\* the head, the ring would get a hole nobody can dequeue across.
SkipsOnlyTaken ==
    [][\A p \in Producers : head'[p] = head[p] + 1 => head[p] <= H]_vars

\* A compare-and-swap is lost only to another thread's success: in every step
\* that sends a thread round its loop, that thread is behind the ring.
LostToAnother ==
    [][/\ \A p \in Producers :
            pc[p] = "cas" /\ pc'[p] = "read_val" => head[p] <= H
       /\ \A c \in Consumers :
            pc[c] = "deq_cas" /\ pc'[c] = "deq_tail" => counter[c] <= tail]_vars

-----------------------------------------------------------------------------
(* The ring as a queue that does each call in one step *)

\* The calls that have taken effect: a successful one with its
\* compare-and-swap; subdequeue() finds the ring empty when it reads the
\* counter of an entry not yet produced; subenqueue() is refused when it reads
\* the tail of a full ring or runs out of rounds.
Decided(t) ==
    \/ pc[t] \in {"write_head_copy", "refused", "got"}
    \/ t \in Consumers /\ pc[t] = "deq_val" /\ ctr[t] < counter[t]

StageOf(t) ==
    IF pc[t] = "idle" THEN "idle" ELSE IF Decided(t) THEN "decided" ELSE "called"

ValueOf(t) ==
    IF t \in Producers
    THEN IF pc[t] = "idle" THEN Zero ELSE arg[t]
    ELSE IF pc[t] = "got" THEN val[t] ELSE Zero

absItems == SubSeq(log, tail + 1, Len(log))
absStage == [t \in Threads |-> StageOf(t)]
absValue == [t \in Threads |-> ValueOf(t)]
absOk == [t \in Threads |-> pc[t] \in {"write_head_copy", "got"}]

Fifo == INSTANCE FifoQueue WITH
            items <- absItems, removed <- tail, stage <- absStage,
            value <- absValue, ok <- absOk,
            Capacity <- Size, Patience <- Rounds - 1

\* The lock-free ring implements the queue that does each call in one step:
\* nothing is lost, duplicated or reordered, 0 from subdequeue() means empty,
\* 0 from subenqueue() means full or a busy ring.
ImplementsFifo == Fifo!Spec

\* Every call returns.
CallsReturn == \A t \in Threads : pc[t] # "idle" ~> pc[t] = "idle"
=============================================================================
