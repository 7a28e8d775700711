---------------------------------- MODULE Rcu ----------------------------------
(***************************************************************************)
(* The RCU of atomic_queue.c by itself: threads that claim a slot of       *)
(* global_rcu[], announce their critical sections in it and exit, and the  *)
(* scan of rcu_safe().  AtomicQueue uses it with the slots claimed.        *)
(*                                                                         *)
(* mb() is only a compiler barrier: on x86 a store waits in the store      *)
(* buffer of its thread while later loads are executed, until an atomic    *)
(* operation or the processor's own pace lets it reach the memory.         *)
(*                                                                         *)
(* A local is 0 again when its function is done with it.                   *)
(***************************************************************************)
EXTENDS Integers, Sequences, FiniteSets

CONSTANTS RcuThreads,  \* the threads
          RcuSlots,    \* ARRAY_SIZE(global_rcu)
          MaxCount,    \* bound: rcu_register() is called so often
          BufferSize   \* bound: stores that wait in a thread's buffer

ASSUME RcuAssumption ==
    /\ RcuSlots \in Nat \ {0}
    /\ MaxCount \in Nat /\ BufferSize \in Nat \ {0}

\* RCU_UNLOCKED and RCU_UNUSED are above all counts.
UNLOCKED == MaxCount + 2
UNUSED == MaxCount + 3

VARIABLES
    global_rcu,        \* slot -> its counter
    global_rcu_count,
    global_rcu_safe,   \* the static variable of rcu_safe()
    local_rcu,         \* thread -> its slot, 0 for a null pointer
    buffer,            \* thread -> the stores to its slot that wait
    state,             \* thread -> where it is
    seat,              \* thread -> i of its loop over global_rcu[]
    seen,              \* thread -> the counter it has read, or the count
    asked,             \* thread -> the count it calls rcu_safe() with
    given,             \* history: the counts that rcu_register() has returned
    waits              \* history: count -> who is still in the critical section
                       \* it was in when rcu_register() returned that count

history == <<given, waits>>
rcu_vars == <<global_rcu, global_rcu_count, global_rcu_safe, local_rcu, buffer,
              state, seat, seen, asked, history>>

Seats == 1 .. RcuSlots
Tickets == 1 .. MaxCount

RcuInit ==
    /\ global_rcu = [i \in Seats |-> 0]
    /\ global_rcu_count = 1
    /\ global_rcu_safe = 0
    /\ local_rcu = [t \in RcuThreads |-> 0]
    /\ buffer = [t \in RcuThreads |-> << >>]
    /\ state = [t \in RcuThreads |-> "idle"]
    /\ seat = [t \in RcuThreads |-> 0]
    /\ seen = [t \in RcuThreads |-> 0]
    /\ asked = [t \in RcuThreads |-> 0]
    /\ given = {}
    /\ waits = [c \in Tickets |-> {}]

\* What a thread reads from slot i: its own stores are forwarded to it.
Read(t, i) ==
    IF i = local_rcu[t] /\ buffer[t] # << >> THEN buffer[t][Len(buffer[t])]
    ELSE global_rcu[i]

Goes(t, from, to) == state[t] = from /\ state' = [state EXCEPT ![t] = to]

-----------------------------------------------------------------------------
(* Plausible bugs.  Each is a variant of the definition it names, that the *)
(* project's runs must tell from the real one; none is part of the         *)
(* specification.                                                          *)

\* Claim that stores without comparing.
ClaimAnyway(t) ==
    /\ state[t] = "claim"
    /\ global_rcu' = [global_rcu EXCEPT ![seat[t]] = UNLOCKED]
    /\ local_rcu' = [local_rcu EXCEPT ![t] = seat[t]]
    /\ state' = [state EXCEPT ![t] = "idle"]
    /\ seat' = [seat EXCEPT ![t] = 0]
    /\ seen' = [seen EXCEPT ![t] = 0]
    /\ UNCHANGED <<global_rcu_count, global_rcu_safe, buffer, asked, history>>

\* rcu_register() with the count after the increment.
RegisterAfter(t) ==
    /\ state[t] \in {"idle", "section"} /\ local_rcu[t] # 0
    /\ buffer[t] = << >>
    /\ global_rcu_count <= MaxCount
    /\ global_rcu_count' = global_rcu_count + 1
    /\ given' = given \union {global_rcu_count + 1}
    /\ UNCHANGED <<global_rcu, global_rcu_safe, local_rcu, buffer, state, seat, seen,
                   asked, waits>>

\* Scan with the strict comparison.
ScanBelow(t) ==
    /\ state[t] = "scan" /\ seat[t] \in Seats
    /\ \/ /\ Read(t, seat[t]) >= asked[t]
          /\ seat' = [seat EXCEPT ![t] = @ + 1]
          /\ UNCHANGED <<state, asked>>
       \/ /\ Read(t, seat[t]) \in 1 .. asked[t] - 1
          /\ state' = [state EXCEPT ![t] = "section"]
          /\ seat' = [seat EXCEPT ![t] = 0]
          /\ asked' = [asked EXCEPT ![t] = 0]
    /\ UNCHANGED <<global_rcu, global_rcu_count, global_rcu_safe, local_rcu, buffer,
                   seen, history>>

-----------------------------------------------------------------------------
(* rcu_lock()                                                              *)

\* Lines 164-165, for a thread that is not registered ...
BeginRegister(t) ==
    /\ local_rcu[t] = 0
    /\ Goes(t, "idle", "find")
    /\ seat' = [seat EXCEPT ![t] = 1]
    /\ UNCHANGED <<global_rcu, global_rcu_count, global_rcu_safe, local_rcu, buffer,
                   seen, asked, history>>

\* ... the next round of its loop, unless the assertion in line 167 fails ...
NextSeat(t) ==
    \/ /\ seat[t] < RcuSlots
       /\ seat' = [seat EXCEPT ![t] = @ + 1]
       /\ state' = [state EXCEPT ![t] = "find"]
    \/ /\ seat[t] >= RcuSlots
       /\ state' = [state EXCEPT ![t] = "no_slot"]
       /\ UNCHANGED seat

\* ... lines 166-169 ...
Find(t) ==
    /\ state[t] = "find"
    /\ \/ /\ global_rcu[seat[t]] \notin {0, UNUSED}
          /\ NextSeat(t)
          /\ UNCHANGED seen
       \/ /\ global_rcu[seat[t]] \in {0, UNUSED}
          /\ seen' = [seen EXCEPT ![t] = global_rcu[seat[t]]]
          /\ state' = [state EXCEPT ![t] = "claim"]
          /\ UNCHANGED seat
    /\ UNCHANGED <<global_rcu, global_rcu_count, global_rcu_safe, local_rcu, buffer,
                   asked, history>>

\* ... and lines 170-174: after a failure the loop goes on.
Claim(t) ==
    /\ state[t] = "claim"
    /\ \/ /\ global_rcu[seat[t]] = seen[t]
          /\ global_rcu' = [global_rcu EXCEPT ![seat[t]] = UNLOCKED]
          /\ local_rcu' = [local_rcu EXCEPT ![t] = seat[t]]
          /\ state' = [state EXCEPT ![t] = "idle"]
          /\ seat' = [seat EXCEPT ![t] = 0]
       \/ /\ global_rcu[seat[t]] # seen[t]
          /\ NextSeat(t)
          /\ UNCHANGED <<global_rcu, local_rcu>>
    /\ seen' = [seen EXCEPT ![t] = 0]
    /\ UNCHANGED <<global_rcu_count, global_rcu_safe, buffer, asked, history>>

\* Line 180: the count is read ...
LoadCount(t) ==
    /\ local_rcu[t] # 0
    /\ Goes(t, "idle", "store")
    /\ seen' = [seen EXCEPT ![t] = global_rcu_count]
    /\ UNCHANGED <<global_rcu, global_rcu_count, global_rcu_safe, local_rcu, buffer,
                   seat, asked, history>>

Store(t, value) ==
    /\ Len(buffer[t]) < BufferSize
    /\ buffer' = [buffer EXCEPT ![t] = Append(@, value)]

\* ... and stored.
StoreCount(t) ==
    /\ Goes(t, "store", "section")
    /\ Store(t, seen[t])
    /\ UNCHANGED <<global_rcu, global_rcu_count, global_rcu_safe, local_rcu, seat,
                   seen, asked, history>>

\* The oldest store reaches the memory.
Drain(t) ==
    /\ buffer[t] # << >>
    /\ global_rcu' = [global_rcu EXCEPT ![local_rcu[t]] = Head(buffer[t])]
    /\ buffer' = [buffer EXCEPT ![t] = Tail(@)]
    /\ UNCHANGED <<global_rcu_count, global_rcu_safe, local_rcu, state, seat, seen,
                   asked, history>>

\* rcu_unlock(): the critical section is over, for all who wait for it.
Unlock(t) ==
    /\ Goes(t, "section", "idle")
    /\ Store(t, UNLOCKED)
    /\ waits' = [c \in Tickets |-> waits[c] \ {t}]
    /\ seen' = [seen EXCEPT ![t] = 0]
    /\ UNCHANGED <<global_rcu, global_rcu_count, global_rcu_safe, local_rcu, seat,
                   asked, given>>

-----------------------------------------------------------------------------
(* rcu_register() and rcu_safe()                                           *)

\* The threads whose critical section is announced in the memory.
Announced ==
    {t \in RcuThreads : /\ state[t] \in {"section", "scan", "safe"}
                        /\ buffer[t] = << >>}

\* An atomic operation waits for the buffer.
Register(t) ==
    /\ state[t] \in {"idle", "section"} /\ local_rcu[t] # 0
    /\ buffer[t] = << >>
    /\ global_rcu_count <= MaxCount
    /\ global_rcu_count' = global_rcu_count + 1
    /\ given' = given \union {global_rcu_count}
    /\ waits' = [waits EXCEPT ![global_rcu_count] = Announced]
    /\ UNCHANGED <<global_rcu, global_rcu_safe, local_rcu, buffer, state, seat, seen,
                   asked>>

\* Lines 199-202.  It is called in critical sections, by whichever thread, for
\* a count that was stored where that thread found it, or for the 0 that was
\* there before.
BeginSafe(t, count) ==
    /\ state[t] = "section" /\ count \in given \union {0}
    /\ asked' = [asked EXCEPT ![t] = count]
    /\ \/ /\ count >= global_rcu_count
          /\ state' = [state EXCEPT ![t] = "bad_count"]
          /\ UNCHANGED seat
       \/ /\ count < global_rcu_count /\ count <= global_rcu_safe
          /\ state' = [state EXCEPT ![t] = "safe"]
          /\ UNCHANGED seat
       \/ /\ count < global_rcu_count /\ count > global_rcu_safe
          /\ state' = [state EXCEPT ![t] = "scan"]
          /\ seat' = [seat EXCEPT ![t] = 1]
    /\ UNCHANGED <<global_rcu, global_rcu_count, global_rcu_safe, local_rcu, buffer,
                   seen, history>>

\* Lines 203-209.
Scan(t) ==
    /\ state[t] = "scan" /\ seat[t] \in Seats
    /\ \/ /\ Read(t, seat[t]) > asked[t]
          /\ seat' = [seat EXCEPT ![t] = @ + 1]
          /\ UNCHANGED <<state, asked>>
       \/ /\ Read(t, seat[t]) \in 1 .. asked[t]
          /\ state' = [state EXCEPT ![t] = "section"]
          /\ seat' = [seat EXCEPT ![t] = 0]
          /\ asked' = [asked EXCEPT ![t] = 0]
    /\ UNCHANGED <<global_rcu, global_rcu_count, global_rcu_safe, local_rcu, buffer,
                   seen, history>>

\* The first slot that was never claimed, or the end, lines 205-206 and 210.
ScanEnd(t) ==
    /\ seat[t] \in Seats => Read(t, seat[t]) = 0
    /\ Goes(t, "scan", "safe")
    /\ global_rcu_safe' = asked[t]
    /\ seat' = [seat EXCEPT ![t] = 0]
    /\ UNCHANGED <<global_rcu, global_rcu_count, local_rcu, buffer, seen,
                   asked, history>>

\* The caller frees what had the count.
Reclaim(t) ==
    /\ Goes(t, "safe", "section")
    /\ asked' = [asked EXCEPT ![t] = 0]
    /\ UNCHANGED <<global_rcu, global_rcu_count, global_rcu_safe, local_rcu, buffer,
                   seat, seen, history>>

\* A thread exits, with rcu_destroy() or, as long as no value is set for the
\* key of rcu_init(), without it.
Exit(t) ==
    /\ buffer[t] = << >>
    /\ Goes(t, "idle", "gone")
    /\ local_rcu[t] # 0
    /\ \/ global_rcu' = [global_rcu EXCEPT ![local_rcu[t]] = UNUSED]
       \/ UNCHANGED global_rcu
    /\ local_rcu' = [local_rcu EXCEPT ![t] = 0]
    /\ UNCHANGED <<global_rcu_count, global_rcu_safe, buffer, seat, seen, asked,
                   history>>

\* An assertion that fails ends the program, with all its threads.
Aborted == \E t \in RcuThreads : state[t] \in {"no_slot", "bad_count"}

RcuNext ==
    /\ ~ Aborted
    /\ \E t \in RcuThreads :
        \/ BeginRegister(t) \/ Find(t) \/ Claim(t)
        \/ LoadCount(t) \/ StoreCount(t) \/ Drain(t) \/ Unlock(t)
        \/ Register(t) \/ (\E count \in 0 .. MaxCount + 1 : BeginSafe(t, count))
        \/ Scan(t) \/ ScanEnd(t) \/ Reclaim(t) \/ Exit(t)

RcuSpec == RcuInit /\ [][RcuNext]_rcu_vars

-----------------------------------------------------------------------------
(* What makes it correct.                                                  *)

CounterValues == 0 .. UNUSED
States == {"idle", "find", "claim", "no_slot", "store", "section", "scan", "safe",
           "bad_count", "gone"}

\* Types of global_rcu[] and of each thread's view of it.
RcuTypeOK ==
    /\ global_rcu \in [Seats -> CounterValues]
    /\ global_rcu_count \in 1 .. MaxCount + 1
    /\ global_rcu_safe \in 0 .. MaxCount
    /\ local_rcu \in [RcuThreads -> 0 .. RcuSlots]
    /\ buffer \in [RcuThreads -> Seq(CounterValues)]
    /\ state \in [RcuThreads -> States]
    /\ seat \in [RcuThreads -> 0 .. RcuSlots + 1]
    /\ seen \in [RcuThreads -> CounterValues]
    /\ asked \in [RcuThreads -> 0 .. MaxCount]
    /\ given \subseteq Tickets
    /\ waits \in [Tickets -> SUBSET RcuThreads]

\* However the claims of several threads interleave, failed ones included, no
\* two threads share a slot, and no slot is claimed behind one that never was:
\* the scan of rcu_safe() may stop there.
SlotsInv ==
    /\ \A t, u \in RcuThreads :
          t # u /\ local_rcu[t] # 0 => local_rcu[t] # local_rcu[u]
    /\ \A i, j \in Seats : i < j /\ global_rcu[j] # 0 => global_rcu[i] # 0

\* The threads that have claimed a slot, once each.
Served == {t \in RcuThreads : local_rcu[t] # 0 \/ state[t] = "gone"}

\* The assertions of the RCU functions.  Those in lines 179 and 186, as the
\* thread itself sees the values, and the one in line 199, for every count that
\* was ever returned, never fail.  The one in line 167 fails only after as many
\* threads as there are slots have claimed one.
RcuAsserts ==
    \A t \in RcuThreads :
        /\ state[t] = "store" => Read(t, local_rcu[t]) = UNLOCKED
        /\ state[t] = "section" => Read(t, local_rcu[t]) <= global_rcu_count
        /\ state[t] # "bad_count"
        /\ state[t] = "no_slot" => Cardinality(Served) >= RcuSlots

\* What RCU promises: when rcu_safe() returns 1, by its scan or because a
\* later count is known to be safe, all critical sections that were announced
\* in the memory when rcu_register() returned the count are over.
GracePeriod ==
    \A t \in RcuThreads :
        state[t] = "safe" /\ asked[t] # 0 => waits[asked[t]] = {}
=============================================================================
