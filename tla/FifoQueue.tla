------------------------------ MODULE FifoQueue ------------------------------
(***************************************************************************)
(* What one subqueue of atomic_queue.c promises its callers, whatever the  *)
(* threads do inside it: a bounded first-in first-out queue shared by      *)
(* producers and consumers.  Each call takes effect at one instant between *)
(* its invocation and its return.                                          *)
(*                                                                         *)
(*   - subenqueue() returns 1 after appending its value, or 0;             *)
(*   - it returns 0 only if the queue was full at some instant of the call *)
(*     or if at least Patience values were removed during the call (the    *)
(*     code gives up after a fixed number of rounds);                      *)
(*   - subdequeue() returns 1 with the oldest value, or 0, and 0 only if   *)
(*     the queue was empty at some instant of the call.                    *)
(***************************************************************************)
EXTENDS Naturals, Sequences

CONSTANTS Producers, Consumers,
          Val,       \* the 64-bit values
          Zero,      \* the value of memory nobody wrote
          Capacity,  \* how many values the queue can hold
          Patience   \* removals after which a producer may be refused

VARIABLES items,    \* the values inside, oldest first
          removed,  \* how many values have left the queue
          stage,    \* stage[t]: where thread t is in its call
          value,    \* value[t]: what t enqueues, or what it dequeued
          ok,       \* ok[t]: the return value of t's finished call
          since     \* since[p]: the value of removed when p's call began

vars == <<items, removed, stage, value, ok, since>>

Threads == Producers \union Consumers

Init ==
    /\ items = << >>
    /\ removed = 0
    /\ stage = [t \in Threads |-> "idle"]
    /\ value = [t \in Threads |-> Zero]
    /\ ok = [t \in Threads |-> FALSE]
    /\ since = [p \in Producers |-> 0]

\* Thread t's call is decided, with the given answer.
Decide(t, answer) ==
    /\ stage[t] = "called"
    /\ stage' = [stage EXCEPT ![t] = "decided"]
    /\ ok' = [ok EXCEPT ![t] = answer]

-----------------------------------------------------------------------------
EnqInvoke(p, v) ==
    /\ stage[p] = "idle"
    /\ stage' = [stage EXCEPT ![p] = "called"]
    /\ value' = [value EXCEPT ![p] = v]
    /\ since' = [since EXCEPT ![p] = removed]
    /\ UNCHANGED <<items, removed, ok>>

EnqCommit(p) ==
    /\ Len(items) < Capacity
    /\ Decide(p, TRUE)
    /\ items' = Append(items, value[p])
    /\ UNCHANGED <<removed, value, since>>

EnqRefuse(p) ==
    /\ \/ Len(items) = Capacity
       \/ removed >= since[p] + Patience
    /\ Decide(p, FALSE)
    /\ UNCHANGED <<items, removed, value, since>>

EnqReturn(p) ==
    /\ stage[p] = "decided"
    /\ stage' = [stage EXCEPT ![p] = "idle"]
    /\ value' = [value EXCEPT ![p] = Zero]
    /\ ok' = [ok EXCEPT ![p] = FALSE]
    /\ since' = [since EXCEPT ![p] = 0]
    /\ UNCHANGED <<items, removed>>

DeqInvoke(c) ==
    /\ stage[c] = "idle"
    /\ stage' = [stage EXCEPT ![c] = "called"]
    /\ UNCHANGED <<items, removed, value, ok, since>>

DeqCommit(c) ==
    /\ items # << >>
    /\ Decide(c, TRUE)
    /\ value' = [value EXCEPT ![c] = Head(items)]
    /\ items' = Tail(items)
    /\ removed' = removed + 1
    /\ UNCHANGED since

DeqEmpty(c) ==
    /\ items = << >>
    /\ Decide(c, FALSE)
    /\ UNCHANGED <<items, removed, value, since>>

DeqReturn(c) ==
    /\ stage[c] = "decided"
    /\ stage' = [stage EXCEPT ![c] = "idle"]
    /\ value' = [value EXCEPT ![c] = Zero]
    /\ ok' = [ok EXCEPT ![c] = FALSE]
    /\ UNCHANGED <<items, removed, since>>

-----------------------------------------------------------------------------
Enq(p) ==
    \/ \E v \in Val : EnqInvoke(p, v)
    \/ EnqCommit(p)
    \/ EnqRefuse(p)
    \/ EnqReturn(p)

Deq(c) ==
    \/ DeqInvoke(c)
    \/ DeqCommit(c)
    \/ DeqEmpty(c)
    \/ DeqReturn(c)

Next == (\E p \in Producers : Enq(p)) \/ (\E c \in Consumers : Deq(c))

Spec == Init /\ [][Next]_vars
=============================================================================
