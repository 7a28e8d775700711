------------------------------- MODULE RcuProofs -------------------------------
(***************************************************************************)
(* Theorems about Rcu, for every set of threads, number of slots, bound on *)
(* the counts and length of the store buffers.                             *)
(***************************************************************************)
EXTENDS Rcu, FiniteSetTheorems, TLAPS

-----------------------------------------------------------------------------
(* The inductive invariant *)

Inside == {"section", "scan", "safe"}

\* What a thread may conclude about its slot and its count.
Knows(t) ==
    /\ state[t] \in {"find", "claim", "no_slot", "gone"} => local_rcu[t] = 0
    /\ state[t] \in Inside \union {"store"} =>
          local_rcu[t] # 0 /\ seen[t] \in 1 .. global_rcu_count
    /\ local_rcu[t] = 0 => buffer[t] = << >>
    /\ local_rcu[t] # 0 => global_rcu[local_rcu[t]] \in 1 .. UNLOCKED
    /\ \A k \in 1 .. Len(buffer[t]) : buffer[t][k] \in 1 .. UNLOCKED
    /\ local_rcu[t] # 0 /\ state[t] \in {"idle", "store"} =>
          Read(t, local_rcu[t]) = UNLOCKED
    /\ state[t] \in Inside => Read(t, local_rcu[t]) = seen[t]
    /\ state[t] = "scan" => asked[t] \in 1 .. global_rcu_count - 1
    /\ state[t] = "safe" => asked[t] \in 0 .. global_rcu_count - 1
    /\ state[t] # "bad_count"
    /\ state[t] = "scan" => seat[t] # 0

\* The slots a claiming thread has passed are taken for good.
Passed(t) ==
    /\ state[t] \in {"find", "claim"} =>
          /\ seat[t] \in Seats
          /\ \A i \in Seats : i < seat[t] => global_rcu[i] # 0
    /\ state[t] = "claim" =>
          /\ seen[t] \in {0, UNUSED}
          /\ seen[t] # 0 => global_rcu[seat[t]] # 0
    /\ state[t] = "no_slot" => \A i \in Seats : global_rcu[i] # 0

\* A thread that is waited for is still where it was, with its announcement in
\* the memory.
Waited ==
    \A c \in Tickets : \A u \in waits[c] :
        /\ c < global_rcu_count
        /\ state[u] \in Inside /\ buffer[u] = << >> /\ seen[u] <= c

\* A scan has not come past a slot it must stop at, and counts up to the one
\* that is remembered need no scan.
Scanned ==
    /\ global_rcu_safe < global_rcu_count
    /\ \A c \in Tickets : c <= global_rcu_safe => waits[c] = {}
    /\ \A t \in RcuThreads, c \in Tickets :
          state[t] = "scan" /\ c <= asked[t] =>
              \A u \in waits[c] : seat[t] <= local_rcu[u]

\* The slots that were ever claimed: each by a thread that claims no other.
Claimed == {i \in Seats : global_rcu[i] # 0}
Once ==
    /\ IsFiniteSet(Served)
    /\ Cardinality(Claimed) <= Cardinality(Served)

\* No count is returned before it is counted.
Given == given \subseteq 1 .. global_rcu_count - 1

RcuInv ==
    /\ RcuTypeOK
    /\ \A t \in RcuThreads : Knows(t)
    /\ \A t \in RcuThreads : Passed(t)
    /\ SlotsInv
    /\ Waited
    /\ Scanned
    /\ GracePeriod
    /\ Once
    /\ Given

-----------------------------------------------------------------------------
(* Frames: what a step of one thread leaves to the others *)

\* A thread keeps what it knows when its own variables and its slot are left
\* alone, no slot is given back to 0 and the count does not fall.
LEMMA Others ==
    ASSUME RcuTypeOK, RcuTypeOK', NEW u \in RcuThreads, Knows(u), Passed(u),
           state'[u] = state[u], local_rcu'[u] = local_rcu[u],
           buffer'[u] = buffer[u], seat'[u] = seat[u], seen'[u] = seen[u],
           asked'[u] = asked[u], global_rcu_count <= global_rcu_count',
           \A i \in Seats : global_rcu[i] # 0 => global_rcu'[i] # 0,
           local_rcu[u] # 0 => global_rcu'[local_rcu[u]] = global_rcu[local_rcu[u]]
    PROVE  Knows(u)' /\ Passed(u)'
<1>1. Knows(u)'
  <2>1. local_rcu[u] # 0 => Read(u, local_rcu[u])' = Read(u, local_rcu[u])
    BY DEF Read
  <2>2. /\ state'[u] = "scan" => asked'[u] \in 1 .. global_rcu_count' - 1
        /\ state'[u] = "safe" => asked'[u] \in 0 .. global_rcu_count' - 1
    BY DEF Knows, RcuTypeOK
  <2>3. state'[u] \in Inside \union {"store"} =>
            local_rcu'[u] # 0 /\ seen'[u] \in 1 .. global_rcu_count'
    BY DEF Knows, RcuTypeOK
  <2>4. local_rcu'[u] # 0 => global_rcu'[local_rcu'[u]] \in 1 .. UNLOCKED
    BY DEF Knows
  <2>5. QED
    BY <2>1, <2>2, <2>3, <2>4 DEF Knows
<1>2. Passed(u)'
    BY DEF Passed
<1>3. QED
    BY <1>1, <1>2

\* The values of the counters, in order.
LEMMA Constants ==
    /\ MaxCount \in Nat /\ RcuSlots \in Nat \ {0}
    /\ UNLOCKED \in Nat /\ UNUSED \in Nat
    /\ UNLOCKED = MaxCount + 2 /\ UNUSED = UNLOCKED + 1
BY RcuAssumption DEF UNLOCKED, UNUSED

LEMMA Succeeds == \A n \in Nat : n >= 1 => n = 1 \/ n > 1
OBVIOUS

\* A sequence without its first element ends as it did.
LEMMA TailEnds ==
    ASSUME NEW S, NEW s \in Seq(S), Len(s) > 1
    PROVE  Tail(s) # << >> /\ Tail(s)[Len(Tail(s))] = s[Len(s)]
<1>1. Len(Tail(s)) = Len(s) - 1 /\ Len(s) \in Nat
    OBVIOUS
<1>2. Tail(s) # << >>
  <2>1. \A n \in Nat : n > 1 => n - 1 # 0
    OBVIOUS
  <2>2. Len(Tail(s)) # 0
    BY <1>1, <2>1, Zenon
  <2>3. Len(<< >>) = 0
    OBVIOUS
  <2>4. QED
    BY <2>2, <2>3, Zenon
<1>3. Tail(s)[Len(s) - 1] = s[Len(s)]
    OBVIOUS
<1>4. QED
    BY <1>1, <1>2, <1>3

\* A thread with a slot reads in it what it has stored there last.
LEMMA OwnSlot ==
    ASSUME RcuTypeOK, NEW t \in RcuThreads, Knows(t), local_rcu[t] # 0
    PROVE  /\ local_rcu[t] \in Seats
           /\ global_rcu[local_rcu[t]] \in 1 .. UNLOCKED
           /\ Read(t, local_rcu[t]) \in 1 .. UNLOCKED
<1>1. local_rcu[t] \in Seats /\ global_rcu[local_rcu[t]] \in 1 .. UNLOCKED
    BY Constants DEF RcuTypeOK, Knows, Seats
<1>2. buffer[t] # << >> => Len(buffer[t]) \in 1 .. Len(buffer[t])
    BY DEF RcuTypeOK
<1>3. QED
    BY <1>1, <1>2 DEF Read, Knows

\* A step that leaves the critical sections that are waited for alone, and
\* the count, keeps the history right.
LEMMA Quiet ==
    ASSUME RcuTypeOK, RcuTypeOK', Waited, Scanned, GracePeriod, NEW t \in RcuThreads,
           state[t] \notin Inside, state'[t] \notin {"scan", "safe"},
           \A u \in RcuThreads \ {t} :
               /\ state'[u] = state[u] /\ buffer'[u] = buffer[u] /\ seen'[u] = seen[u]
               /\ seat'[u] = seat[u] /\ local_rcu'[u] = local_rcu[u],
           UNCHANGED <<global_rcu_count, global_rcu_safe, asked, waits>>
    PROVE  Waited' /\ Scanned' /\ GracePeriod'
<1>1. \A c \in Tickets : t \notin waits[c]
    BY DEF Waited
<1>2. \A c \in Tickets : waits[c] \subseteq RcuThreads \ {t}
    BY <1>1 DEF RcuTypeOK
<1>3. Waited'
    BY <1>2 DEF Waited
<1>4. Scanned'
  <2>1. ASSUME NEW v \in RcuThreads, NEW c \in Tickets, state'[v] = "scan", c <= asked[v],
               NEW u \in waits[c]
        PROVE  seat'[v] <= local_rcu'[u]
    <3>1. v # t /\ u \in RcuThreads \ {t}
        BY <2>1, <1>2 DEF Inside
    <3>2. QED
        BY <2>1, <3>1 DEF Scanned
  <2>2. QED
    BY <2>1 DEF Scanned
<1>5. GracePeriod'
    BY DEF GracePeriod, Inside
<1>6. QED
    BY <1>3, <1>4, <1>5

\* A step that claims no_slot and gives none back to 0 leaves the number.
LEMMA SameClaims ==
    ASSUME Once, \A u \in RcuThreads : local_rcu'[u] # 0 <=> local_rcu[u] # 0,
           \A u \in RcuThreads : state'[u] = "gone" <=> state[u] = "gone",
           \A i \in Seats : global_rcu'[i] # 0 <=> global_rcu[i] # 0
    PROVE  Once'
<1>1. Served' = Served /\ Claimed' = Claimed
    BY DEF Served, Claimed
<1>2. QED
    BY <1>1 DEF Once

LEMMA SeatsFinite == IsFiniteSet(Seats) /\ Cardinality(Seats) = RcuSlots
<1>1. IsFiniteSet(1 .. RcuSlots) /\ Cardinality(1 .. RcuSlots) = RcuSlots
    BY Constants, FS_Interval
<1>2. QED
    BY <1>1 DEF Seats

-----------------------------------------------------------------------------
(* The invariant holds initially and is kept by every action *)

LEMMA InitInvariant == RcuInit => RcuInv
<1> SUFFICES ASSUME RcuInit PROVE RcuInv
    OBVIOUS
<1> USE Constants DEF RcuInit
<1>1. RcuTypeOK
    BY DEF RcuTypeOK, CounterValues, States, Tickets
<1>2. ASSUME NEW t \in RcuThreads
      PROVE  Knows(t) /\ Passed(t)
  <2>1. state[t] = "idle" /\ local_rcu[t] = 0 /\ buffer[t] = << >>
    OBVIOUS
  <2>2. QED
    BY <2>1 DEF Knows, Passed, Inside
<1>3. SlotsInv /\ Waited /\ Scanned /\ GracePeriod
    BY DEF SlotsInv, Waited, Scanned, GracePeriod, Tickets, Seats
<1>4. Once
  <2>1. Served = {} /\ Claimed = {}
    BY DEF Served, Claimed
  <2>2. QED
    BY <2>1, FS_EmptySet DEF Once
<1>5. Given
    BY DEF Given
<1>6. QED
    BY <1>1, <1>2, <1>3, <1>4, <1>5 DEF RcuInv

\* The loop that looks for a slot.
LEMMA KeepBeginRegister ==
    ASSUME RcuInv, NEW t \in RcuThreads, BeginRegister(t)
    PROVE  RcuInv'
<1> USE Constants DEF BeginRegister, Goes, RcuInv, history
<1>1. RcuTypeOK'
    BY DEF RcuTypeOK, States
<1>2. \A u \in RcuThreads \ {t} : Knows(u)' /\ Passed(u)'
  <2> TAKE u \in RcuThreads \ {t}
  <2>1. global_rcu_count <= global_rcu_count' /\ state'[u] = state[u] /\ seat'[u] = seat[u]
    BY DEF RcuTypeOK
  <2>2. QED
    BY <1>1, <2>1, Others
<1>3. Knows(t)' /\ Passed(t)'
    BY DEF Knows, Passed, RcuTypeOK, Inside, Seats
<1>4. SlotsInv'
    BY DEF SlotsInv
<1>5. Waited' /\ Scanned' /\ GracePeriod'
    BY <1>1, Quiet DEF RcuTypeOK, Inside
<1>s. Once'
    BY SameClaims DEF RcuTypeOK
<1>g. Given'
    BY DEF Given
<1>6. QED
    BY <1>s, <1>g, <1>1, <1>2, <1>3, <1>4, <1>5

LEMMA KeepFind ==
    ASSUME RcuInv, NEW t \in RcuThreads, Find(t)
    PROVE  RcuInv'
<1> USE Constants DEF Find, RcuInv, history
<1>n. seat[t] \in Seats /\ global_rcu[seat[t]] \in CounterValues
    BY DEF Passed, RcuTypeOK
<1>c. \/ /\ global_rcu[seat[t]] \notin {0, UNUSED} /\ seat[t] < RcuSlots
         /\ seat' = [seat EXCEPT ![t] = @ + 1] /\ seen' = seen
         /\ state' = [state EXCEPT ![t] = "find"]
      \/ /\ global_rcu[seat[t]] \notin {0, UNUSED} /\ seat[t] >= RcuSlots
         /\ seat' = seat /\ seen' = seen
         /\ state' = [state EXCEPT ![t] = "no_slot"]
      \/ /\ global_rcu[seat[t]] \in {0, UNUSED}
         /\ seat' = seat /\ seen' = [seen EXCEPT ![t] = global_rcu[seat[t]]]
         /\ state' = [state EXCEPT ![t] = "claim"]
    BY DEF NextSeat
<1>1. RcuTypeOK'
  <2>1. seat[t] + 1 \in 0 .. RcuSlots + 1
    BY <1>n DEF Seats
  <2>2. state' \in [RcuThreads -> States]
    BY <1>c DEF RcuTypeOK, States
  <2>3. seen' \in [RcuThreads -> CounterValues]
    BY <1>c, <1>n DEF RcuTypeOK
  <2>4. seat' \in [RcuThreads -> 0 .. RcuSlots + 1]
    BY <1>c, <2>1 DEF RcuTypeOK
  <2>5. QED
    BY <2>2, <2>3, <2>4 DEF RcuTypeOK
<1>a. \A u \in RcuThreads \ {t} :
         state'[u] = state[u] /\ seat'[u] = seat[u] /\ seen'[u] = seen[u]
    BY <1>c DEF RcuTypeOK
<1>2. \A u \in RcuThreads \ {t} : Knows(u)' /\ Passed(u)'
  <2> TAKE u \in RcuThreads \ {t}
  <2>1. global_rcu_count <= global_rcu_count'
    BY DEF RcuTypeOK
  <2>2. QED
    BY <1>1, <1>a, <2>1, Others
<1>b. /\ state'[t] \in {"find", "claim", "no_slot"} /\ seat'[t] \in Seats
      /\ state'[t] = "find" => /\ global_rcu[seat[t]] # 0
                               /\ seat'[t] = seat[t] + 1
      /\ state'[t] = "claim" => /\ seen'[t] = global_rcu[seat[t]] /\ seat'[t] = seat[t]
                                /\ seen'[t] \in {0, UNUSED}
      /\ state'[t] = "no_slot" => global_rcu[seat[t]] # 0 /\ seat[t] = RcuSlots
    BY <1>c, <1>n DEF RcuTypeOK, Seats
<1>3. Knows(t)' /\ Passed(t)'
  <2>1. Knows(t)'
    BY <1>b DEF Knows, Inside
  <2>2. \A i \in Seats : i < seat[t] => global_rcu[i] # 0
    BY DEF Passed
  <2>3. Passed(t)'
    BY <1>b, <1>n, <2>2 DEF Passed, Seats
  <2>4. QED
    BY <2>1, <2>3
<1>4. SlotsInv'
    BY DEF SlotsInv
<1>5. Waited' /\ Scanned' /\ GracePeriod'
    BY <1>1, <1>a, <1>b, Quiet DEF Inside
<1>s. Once'
    BY <1>a, <1>b, SameClaims
<1>g. Given'
    BY DEF Given
<1>6. QED
    BY <1>s, <1>g, <1>1, <1>2, <1>3, <1>4, <1>5

\* A claim that succeeds takes a slot that no thread has: those are locked or
\* counted in.  One that fails finds the slot taken.
LEMMA KeepClaim ==
    ASSUME RcuInv, NEW t \in RcuThreads, Claim(t)
    PROVE  RcuInv'
<1> USE Constants DEF Claim, RcuInv, history
<1>n. seat[t] \in Seats
    BY DEF Passed
<1>d. \/ /\ global_rcu[seat[t]] = seen[t] /\ seat' = [seat EXCEPT ![t] = 0]
         /\ global_rcu' = [global_rcu EXCEPT ![seat[t]] = UNLOCKED]
         /\ local_rcu' = [local_rcu EXCEPT ![t] = seat[t]]
         /\ state' = [state EXCEPT ![t] = "idle"]
      \/ /\ global_rcu[seat[t]] # seen[t] /\ seat[t] < RcuSlots
         /\ seat' = [seat EXCEPT ![t] = @ + 1]
         /\ state' = [state EXCEPT ![t] = "find"]
         /\ global_rcu' = global_rcu /\ local_rcu' = local_rcu
      \/ /\ global_rcu[seat[t]] # seen[t] /\ seat[t] >= RcuSlots
         /\ seat' = seat
         /\ state' = [state EXCEPT ![t] = "no_slot"]
         /\ global_rcu' = global_rcu /\ local_rcu' = local_rcu
    BY DEF NextSeat
<1>1. RcuTypeOK'
  <2>2. state' \in [RcuThreads -> States]
    BY <1>d DEF RcuTypeOK, States
  <2>a. UNLOCKED \in CounterValues
    BY DEF CounterValues
  <2>3. global_rcu' \in [Seats -> CounterValues]
    BY <1>d, <2>a DEF RcuTypeOK
  <2>b. /\ seat[t] \in 0 .. RcuSlots /\ seat[t] + 1 \in 0 .. RcuSlots + 1
        /\ 0 \in 0 .. RcuSlots + 1
    BY <1>n DEF Seats
  <2>4. local_rcu' \in [RcuThreads -> 0 .. RcuSlots]
    BY <1>d, <2>b DEF RcuTypeOK
  <2>5. seat' \in [RcuThreads -> 0 .. RcuSlots + 1]
    BY <1>d, <2>b DEF RcuTypeOK
  <2>6. seen' \in [RcuThreads -> CounterValues]
    BY DEF RcuTypeOK, CounterValues
  <2>7. QED
    BY <2>2, <2>3, <2>4, <2>5, <2>6 DEF RcuTypeOK
<1>2. seat[t] \in Seats /\ seen[t] \in {0, UNUSED} /\ local_rcu[t] = 0
    BY DEF Passed, Knows
<1>a. \A i \in Seats : global_rcu[i] # 0 => global_rcu'[i] # 0
    BY <1>d, <1>2 DEF RcuTypeOK
<1>b. \A u \in RcuThreads \ {t} : local_rcu[u] # 0 =>
          /\ global_rcu'[local_rcu[u]] = global_rcu[local_rcu[u]]
          /\ global_rcu[seat[t]] = seen[t] => local_rcu[u] # seat[t]
  <2> SUFFICES ASSUME NEW u \in RcuThreads \ {t}, local_rcu[u] # 0
               PROVE  /\ global_rcu'[local_rcu[u]] = global_rcu[local_rcu[u]]
                      /\ global_rcu[seat[t]] = seen[t] => local_rcu[u] # seat[t]
    OBVIOUS
  <2>1. local_rcu[u] \in Seats /\ global_rcu[local_rcu[u]] \in 1 .. UNLOCKED
    BY OwnSlot
  <2>2. QED
    BY <1>d, <1>2, <2>1 DEF RcuTypeOK
<1>c. \A u \in RcuThreads \ {t} :
         /\ state'[u] = state[u] /\ seat'[u] = seat[u] /\ seen'[u] = seen[u]
         /\ local_rcu'[u] = local_rcu[u]
    BY <1>d DEF RcuTypeOK
<1>3. \A u \in RcuThreads \ {t} : Knows(u)' /\ Passed(u)'
  <2> TAKE u \in RcuThreads \ {t}
  <2>1. global_rcu_count <= global_rcu_count'
    BY DEF RcuTypeOK
  <2>2. QED
    BY <1>1, <1>a, <1>b, <1>c, <2>1, Others
<1>e. ASSUME global_rcu[seat[t]] = seen[t]
      PROVE  Knows(t)' /\ Passed(t)' /\ Once'
  <2>1. /\ state'[t] = "idle" /\ local_rcu'[t] = seat[t]
        /\ global_rcu' = [global_rcu EXCEPT ![seat[t]] = UNLOCKED]
        /\ local_rcu' = [local_rcu EXCEPT ![t] = seat[t]]
    BY <1>d, <1>e DEF RcuTypeOK
  <2>2. global_rcu'[seat[t]] = UNLOCKED /\ buffer[t] = << >>
    BY <1>2, <2>1 DEF RcuTypeOK, Knows
  <2>3. Knows(t)'
    BY <1>2, <2>1, <2>2 DEF Knows, Inside, Read
  <2>4. Passed(t)'
    BY <2>1 DEF Passed
  <2>5. t \notin Served
    BY <1>2 DEF Served
  <2>6. Served' = Served \union {t}
    BY <1>c, <1>2, <2>1 DEF Served, Seats
  <2>7. Claimed' \subseteq Claimed \union {seat[t]}
    BY <1>2, <2>1 DEF Claimed, RcuTypeOK
  <2>8. IsFiniteSet(Served) /\ IsFiniteSet(Claimed) /\ Cardinality(Claimed) <= Cardinality(Served)
    <3>1. IsFiniteSet(Claimed)
        BY SeatsFinite, FS_Subset DEF Claimed
    <3>2. QED
        BY <3>1 DEF Once
  <2>9. /\ IsFiniteSet(Served') /\ Cardinality(Served') = Cardinality(Served) + 1
    BY <2>5, <2>6, <2>8, FS_AddElement
  <2>10. Cardinality(Claimed') <= Cardinality(Claimed) + 1
    <3> DEFINE more == Claimed \union {seat[t]}
    <3>1. IsFiniteSet(more) /\ Cardinality(more) <= Cardinality(Claimed) + 1
      <4>1. Cardinality(Claimed) \in Nat
        BY <2>8, FS_CardinalityType
      <4>2. CASE seat[t] \in Claimed
        <5>1. more = Claimed
            BY <4>2
        <5>2. QED
          <6>1. Cardinality(more) = Cardinality(Claimed) /\ IsFiniteSet(more)
            BY <2>8, <5>1, Zenon
          <6>2. QED
            BY <4>1, <6>1
      <4>3. CASE seat[t] \notin Claimed
        <5>1. IsFiniteSet(more) /\ Cardinality(more) = Cardinality(Claimed) + 1
            BY <2>8, <4>3, FS_AddElement, Zenon
        <5>2. QED
            BY <4>1, <5>1
      <4>4. QED
        BY <4>2, <4>3
    <3>2. IsFiniteSet(Claimed') /\ Cardinality(Claimed') <= Cardinality(more)
        BY <3>1, <2>7, FS_Subset
    <3>3. Cardinality(Claimed') \in Nat /\ Cardinality(more) \in Nat /\ Cardinality(Claimed) \in Nat
        BY <2>8, <3>1, <3>2, FS_CardinalityType
    <3>4. QED
        BY <3>1, <3>2, <3>3
  <2>11. Once'
    <3>1. /\ Cardinality(Claimed) \in Nat /\ Cardinality(Served) \in Nat
        BY <2>8, FS_CardinalityType
    <3>2. Cardinality(Claimed') \in Nat
      <4>1. IsFiniteSet(Claimed')
        BY SeatsFinite, FS_Subset DEF Claimed
      <4>2. QED
        BY <4>1, FS_CardinalityType
    <3>3. QED
        BY <2>8, <2>9, <2>10, <3>1, <3>2 DEF Once
  <2>12. QED
    BY <2>3, <2>4, <2>11
<1>f. ASSUME global_rcu[seat[t]] # seen[t]
      PROVE  Knows(t)' /\ Passed(t)' /\ Once'
  <2>1. /\ state'[t] \in {"find", "no_slot"} /\ UNCHANGED <<global_rcu, local_rcu>>
        /\ state'[t] = "find" => seat[t] < RcuSlots /\ seat'[t] = seat[t] + 1
        /\ state'[t] = "no_slot" => seat[t] = RcuSlots
    BY <1>d, <1>f, <1>n DEF RcuTypeOK, Seats
  <2>2. Knows(t)'
    BY <1>2, <2>1 DEF Knows, Inside
  <2>3. global_rcu[seat[t]] # 0 /\ \A i \in Seats : i < seat[t] => global_rcu[i] # 0
    BY <1>2, <1>f DEF Passed
  <2>4. Passed(t)'
    BY <1>n, <2>1, <2>3 DEF Passed, Seats
  <2>5. Once'
    <3>1. \A u \in RcuThreads : state'[u] = "gone" <=> state[u] = "gone"
        BY <1>c, <2>1
    <3>2. QED
        BY <2>1, <3>1, SameClaims
  <2>6. QED
    BY <2>2, <2>4, <2>5
<1>5. Knows(t)' /\ Passed(t)' /\ Once'
    BY <1>e, <1>f
<1>g. Given'
    BY DEF Given
<1>6. SlotsInv'
  <2>1. \A u, v \in RcuThreads :
          u # v /\ local_rcu'[u] # 0 => local_rcu'[u] # local_rcu'[v]
    <3>1. CASE global_rcu[seat[t]] = seen[t]
      <4>1. local_rcu'[t] = seat[t] /\ \A u \in RcuThreads \ {t} :
                local_rcu'[u] = local_rcu[u] /\ local_rcu[u] # seat[t]
        BY <1>b, <1>c, <1>d, <1>2, <3>1 DEF RcuTypeOK, Seats
      <4>2. QED
        BY <4>1 DEF SlotsInv
    <3>2. CASE global_rcu[seat[t]] # seen[t]
      <4>1. local_rcu' = local_rcu
        BY <1>d, <3>2
      <4>2. QED
        BY <4>1 DEF SlotsInv
    <3>3. QED
        BY <3>1, <3>2
  <2>2. \A i, j \in Seats : i < j /\ global_rcu'[j] # 0 => global_rcu'[i] # 0
    BY <1>d, <1>2, <1>a DEF SlotsInv, RcuTypeOK, Passed
  <2>3. QED
    BY <2>1, <2>2 DEF SlotsInv
<1>7. Waited' /\ Scanned' /\ GracePeriod'
  <2>1. state'[t] \notin Inside /\ state[t] \notin Inside
    BY <1>d DEF RcuTypeOK, Inside
  <2>2. QED
    BY <1>1, <1>c, <2>1, Quiet DEF Inside
<1>8. QED
    BY <1>1, <1>3, <1>5, <1>g, <1>6, <1>7

\* Announcing a critical section.
LEMMA KeepLoadCount ==
    ASSUME RcuInv, NEW t \in RcuThreads, LoadCount(t)
    PROVE  RcuInv'
<1> USE Constants DEF LoadCount, Goes, RcuInv, history
<1>1. RcuTypeOK'
    BY DEF RcuTypeOK, States, CounterValues
<1>2. \A u \in RcuThreads \ {t} : Knows(u)' /\ Passed(u)'
    BY <1>1, Others DEF RcuTypeOK
<1>3. Knows(t)' /\ Passed(t)'
    BY DEF Knows, Passed, RcuTypeOK, Inside, Read
<1>4. SlotsInv'
    BY DEF SlotsInv
<1>5. Waited' /\ Scanned' /\ GracePeriod'
    BY <1>1, Quiet DEF RcuTypeOK, Inside
<1>s. Once'
    BY SameClaims DEF RcuTypeOK
<1>g. Given'
    BY DEF Given
<1>6. QED
    BY <1>s, <1>g, <1>1, <1>2, <1>3, <1>4, <1>5

LEMMA KeepStoreCount ==
    ASSUME RcuInv, NEW t \in RcuThreads, StoreCount(t)
    PROVE  RcuInv'
<1> USE Constants DEF StoreCount, Store, Goes, RcuInv, history
<1>1. RcuTypeOK'
    BY DEF RcuTypeOK, States, CounterValues
<1>c. \A u \in RcuThreads \ {t} : state'[u] = state[u] /\ buffer'[u] = buffer[u]
    BY DEF RcuTypeOK
<1>2. \A u \in RcuThreads \ {t} : Knows(u)' /\ Passed(u)'
  <2> TAKE u \in RcuThreads \ {t}
  <2>1. global_rcu_count <= global_rcu_count'
    BY DEF RcuTypeOK
  <2>2. QED
    BY <1>1, <1>c, <2>1, Others
<1>a. /\ seen[t] \in 1 .. UNLOCKED /\ local_rcu[t] # 0
      /\ Len(buffer'[t]) = Len(buffer[t]) + 1 /\ buffer'[t] # << >>
      /\ buffer'[t][Len(buffer'[t])] = seen[t]
      /\ \A k \in 1 .. Len(buffer[t]) : buffer'[t][k] = buffer[t][k]
  <2>1. local_rcu[t] # 0 /\ seen[t] \in 1 .. UNLOCKED
    BY DEF Knows, RcuTypeOK, Inside
  <2>2. buffer[t] \in Seq(CounterValues) /\ buffer'[t] = Append(buffer[t], seen[t])
    BY DEF RcuTypeOK
  <2>3. QED
    BY <2>1, <2>2
<1>3. Knows(t)' /\ Passed(t)'
  <2>1. Read(t, local_rcu[t])' = seen[t]
    BY <1>a DEF Read
  <2>2. \A k \in 1 .. Len(buffer'[t]) : buffer'[t][k] \in 1 .. UNLOCKED
    BY <1>a DEF Knows, RcuTypeOK
  <2>3. state'[t] = "section" /\ state[t] = "store"
    BY DEF RcuTypeOK
  <2>4. QED
    BY <1>a, <2>1, <2>2, <2>3 DEF Knows, Passed, Inside
<1>4. SlotsInv'
    BY DEF SlotsInv
<1>5. Waited' /\ Scanned' /\ GracePeriod'
    BY <1>1, Quiet DEF RcuTypeOK, Inside
<1>s. Once'
    BY SameClaims, <1>c DEF RcuTypeOK
<1>g. Given'
    BY DEF Given
<1>6. QED
    BY <1>s, <1>g, <1>1, <1>2, <1>3, <1>4, <1>5

\* A store that reaches the memory changes what others read of the slot, not
\* what its thread does; nobody who is waited for has one left.
LEMMA KeepDrain ==
    ASSUME RcuInv, NEW t \in RcuThreads, Drain(t)
    PROVE  RcuInv'
<1> USE Constants DEF Drain, RcuInv, history
<1>a. /\ local_rcu[t] \in Seats
      /\ Len(buffer[t]) \in Nat \ {0}
      /\ Head(buffer[t]) = buffer[t][1] /\ buffer[t][1] \in 1 .. UNLOCKED
      /\ Tail(buffer[t]) \in Seq(CounterValues)
      /\ Len(Tail(buffer[t])) = Len(buffer[t]) - 1
      /\ \A k \in 1 .. Len(buffer[t]) - 1 : Tail(buffer[t])[k] = buffer[t][k + 1]
  <2>1. buffer[t] \in Seq(CounterValues) /\ buffer[t] # << >>
    BY DEF RcuTypeOK
  <2>2. local_rcu[t] \in Seats
    BY OwnSlot DEF Knows
  <2>3. Len(buffer[t]) \in Nat \ {0}
    BY <2>1
  <2>4. QED
    BY <2>1, <2>2, <2>3 DEF Knows
<1>n. Len(buffer[t]) \in Nat /\ Len(buffer[t]) >= 1
    BY <1>a
<1>1. RcuTypeOK'
  <2>1. buffer[t][1] \in CounterValues
    BY <1>a DEF CounterValues
  <2>2. QED
    BY <1>a, <2>1 DEF RcuTypeOK
<1>b. \A i \in Seats : global_rcu[i] # 0 => global_rcu'[i] # 0
    BY <1>a DEF RcuTypeOK
<1>c. \A u \in RcuThreads \ {t} : buffer'[u] = buffer[u] /\
          (local_rcu[u] # 0 => global_rcu'[local_rcu[u]] = global_rcu[local_rcu[u]])
    BY <1>a DEF RcuTypeOK, SlotsInv, Seats
<1>2. \A u \in RcuThreads \ {t} : Knows(u)' /\ Passed(u)'
  <2> TAKE u \in RcuThreads \ {t}
  <2>1. global_rcu_count <= global_rcu_count'
    BY DEF RcuTypeOK
  <2>2. QED
    BY <1>1, <1>b, <1>c, <2>1, Others
<1>3. Knows(t)'
  <2>1. local_rcu[t] # 0
    BY <1>a DEF Seats
  <2>2. buffer'[t] = Tail(buffer[t]) /\ global_rcu'[local_rcu[t]] = buffer[t][1]
    BY <1>a DEF RcuTypeOK
  <2>3. \A k \in 1 .. Len(buffer'[t]) : buffer'[t][k] \in 1 .. UNLOCKED
    BY <1>a, <2>2 DEF Knows
  <2>4. Read(t, local_rcu[t])' = Read(t, local_rcu[t])
    <3>1. CASE Len(buffer[t]) = 1
        BY <1>a, <2>2, <3>1 DEF Read
    <3>2. CASE Len(buffer[t]) > 1
      <4>1. buffer[t] \in Seq(CounterValues)
        BY DEF RcuTypeOK
      <4>2. buffer'[t] # << >> /\ buffer'[t][Len(buffer'[t])] = buffer[t][Len(buffer[t])]
        BY <2>2, <3>2, <4>1, TailEnds
      <4>3. QED
        BY <4>2 DEF Read
    <3>3. Len(buffer[t]) = 1 \/ Len(buffer[t]) > 1
        BY <1>n, Succeeds
    <3>4. QED
        BY <3>1, <3>2, <3>3
  <2>5. QED
    BY <1>a, <2>1, <2>2, <2>3, <2>4 DEF Knows
<1>4. Passed(t)'
    BY <1>b DEF Passed
<1>5. SlotsInv'
  <2>1. \A i \in Seats : global_rcu'[i] # 0 => global_rcu[i] # 0
    <3>1. global_rcu[local_rcu[t]] # 0
        BY <1>a, OwnSlot DEF Seats
    <3>2. QED
        BY <1>a, <3>1 DEF RcuTypeOK
  <2>2. QED
    BY <1>b, <2>1 DEF SlotsInv
<1>6. Waited'
    BY <1>a DEF Waited, RcuTypeOK
<1>7. Scanned' /\ GracePeriod'
    BY DEF Scanned, GracePeriod
<1>s. Once'
  <2>1. \A i \in Seats : global_rcu'[i] # 0 <=> global_rcu[i] # 0
    <3>1. global_rcu[local_rcu[t]] # 0
        BY <1>a, OwnSlot DEF Seats
    <3>2. QED
        BY <1>a, <1>b, <3>1 DEF RcuTypeOK
  <2>2. QED
    BY <2>1, SameClaims
<1>g. Given'
    BY DEF Given
<1>8. QED
    BY <1>s, <1>g, <1>1, <1>2, <1>3, <1>4, <1>5, <1>6, <1>7

LEMMA KeepUnlock ==
    ASSUME RcuInv, NEW t \in RcuThreads, Unlock(t)
    PROVE  RcuInv'
<1> USE Constants DEF Unlock, Store, Goes, RcuInv, history
<1>1. RcuTypeOK'
    BY DEF RcuTypeOK, States, CounterValues
<1>c. \A u \in RcuThreads \ {t} : state'[u] = state[u] /\ buffer'[u] = buffer[u]
    BY DEF RcuTypeOK
<1>2. \A u \in RcuThreads \ {t} : Knows(u)' /\ Passed(u)'
  <2> TAKE u \in RcuThreads \ {t}
  <2>1. global_rcu_count <= global_rcu_count'
    BY DEF RcuTypeOK
  <2>2. QED
    BY <1>1, <1>c, <2>1, Others
<1>a. /\ local_rcu[t] # 0
      /\ Len(buffer'[t]) = Len(buffer[t]) + 1 /\ buffer'[t] # << >>
      /\ buffer'[t][Len(buffer'[t])] = UNLOCKED
      /\ \A k \in 1 .. Len(buffer[t]) : buffer'[t][k] = buffer[t][k]
  <2>1. local_rcu[t] # 0
    BY DEF Knows, RcuTypeOK, Inside
  <2>2. buffer[t] \in Seq(CounterValues) /\ buffer'[t] = Append(buffer[t], UNLOCKED)
    BY DEF RcuTypeOK
  <2>3. QED
    BY <2>1, <2>2
<1>3. Knows(t)' /\ Passed(t)'
  <2>1. Read(t, local_rcu[t])' = UNLOCKED
    BY <1>a DEF Read
  <2>2. \A k \in 1 .. Len(buffer'[t]) : buffer'[t][k] \in 1 .. UNLOCKED
    BY <1>a DEF Knows, RcuTypeOK
  <2>3. state'[t] = "idle"
    BY DEF RcuTypeOK
  <2>4. QED
    BY <1>a, <2>1, <2>2, <2>3 DEF Knows, Passed, Inside
<1>4. SlotsInv'
    BY DEF SlotsInv
<1>b. \A c \in Tickets : waits'[c] = waits[c] \ {t}
    OBVIOUS
<1>d. state'[t] = "idle"
    BY DEF RcuTypeOK
<1>5. Waited'
  <2>1. \A c \in Tickets : waits'[c] \subseteq RcuThreads \ {t}
    BY <1>b DEF RcuTypeOK
  <2>2. QED
    BY <1>b, <1>c, <2>1 DEF Waited
<1>6. Scanned'
    BY <1>b, <1>c, <1>d DEF Scanned
<1>7. GracePeriod'
  <2> SUFFICES ASSUME NEW v \in RcuThreads, state'[v] = "safe",
                      asked[v] # 0
               PROVE  waits'[asked[v]] = {}
    BY DEF GracePeriod
  <2>1. state[v] = "safe"
    BY <1>c, <1>d
  <2>2. asked[v] \in Tickets
    BY <2>1 DEF Knows, RcuTypeOK, Tickets
  <2>3. QED
    BY <1>b, <2>1, <2>2 DEF GracePeriod
<1>s. Once'
    BY SameClaims, <1>c, <1>d
<1>g. Given'
    BY DEF Given
<1>8. QED
    BY <1>s, <1>g, <1>1, <1>2, <1>3, <1>4, <1>5, <1>6, <1>7

\* Counting takes down who is announced: their counts are at most this one.
LEMMA KeepRegister ==
    ASSUME RcuInv, NEW t \in RcuThreads, Register(t)
    PROVE  RcuInv'
<1> USE Constants DEF Register, RcuInv, history
<1>1. RcuTypeOK'
  <2>1. Announced \in SUBSET RcuThreads
    BY DEF Announced
  <2>2. waits' \in [Tickets -> SUBSET RcuThreads]
    BY <2>1 DEF RcuTypeOK
  <2>3. global_rcu_count' \in 1 .. MaxCount + 1
    BY DEF RcuTypeOK
  <2>4. QED
    BY <2>2, <2>3 DEF RcuTypeOK
<1>2. \A u \in RcuThreads : Knows(u)' /\ Passed(u)'
  <2> TAKE u \in RcuThreads
  <2>1. global_rcu_count <= global_rcu_count'
    BY DEF RcuTypeOK
  <2>2. QED
    BY <1>1, <2>1, Others
<1>3. SlotsInv'
    BY DEF SlotsInv
<1>a. global_rcu_count \in Tickets /\ global_rcu_count' = global_rcu_count + 1
    BY DEF RcuTypeOK, Tickets
<1>b. /\ waits'[global_rcu_count] = Announced
      /\ \A c \in Tickets : c # global_rcu_count => waits'[c] = waits[c]
    BY <1>a DEF RcuTypeOK
<1>4. Waited'
  <2> SUFFICES ASSUME NEW c \in Tickets, NEW u \in waits'[c]
               PROVE  /\ c < global_rcu_count'
                      /\ state[u] \in Inside /\ buffer[u] = << >> /\ seen[u] <= c
    BY DEF Waited
  <2>1. CASE c = global_rcu_count
    <3>1. u \in Announced
        BY <1>b, <2>1
    <3>2. seen[u] \in 1 .. global_rcu_count
        BY <3>1 DEF Announced, Knows, Inside
    <3>3. QED
        BY <1>a, <2>1, <3>1, <3>2 DEF Announced, Inside, Tickets
  <2>2. CASE c # global_rcu_count
    <3>1. u \in waits[c]
        BY <1>b, <2>2
    <3>2. QED
        BY <1>a, <3>1 DEF Waited, Tickets
  <2>3. QED
    BY <2>1, <2>2
<1>5. Scanned'
  <2>1. \A c \in Tickets : c <= global_rcu_safe => waits'[c] = {}
    <3>1. \A c \in Tickets : c <= global_rcu_safe => c # global_rcu_count
        BY DEF Scanned, RcuTypeOK, Tickets
    <3>2. QED
        BY <1>b, <3>1 DEF Scanned
  <2>2. ASSUME NEW v \in RcuThreads, NEW c \in Tickets, state[v] = "scan", c <= asked[v]
        PROVE  \A u \in waits'[c] : seat[v] <= local_rcu[u]
    <3>1. asked[v] \in 1 .. global_rcu_count - 1
        BY <2>2 DEF Knows
    <3>2. c # global_rcu_count
        BY <1>a, <2>2, <3>1 DEF Tickets
    <3>3. QED
        BY <1>b, <2>2, <3>2 DEF Scanned
  <2>3. global_rcu_safe < global_rcu_count'
    BY <1>a DEF Scanned, RcuTypeOK
  <2>4. QED
    BY <2>1, <2>2, <2>3 DEF Scanned
<1>6. GracePeriod'
  <2> SUFFICES ASSUME NEW v \in RcuThreads, state[v] = "safe", asked[v] # 0
               PROVE  waits'[asked[v]] = {}
    BY DEF GracePeriod
  <2>1. asked[v] \in 1 .. global_rcu_count - 1
    BY DEF Knows, RcuTypeOK
  <2>2. asked[v] \in Tickets /\ asked[v] # global_rcu_count
    BY <1>a, <2>1 DEF Tickets
  <2>3. QED
    BY <1>b, <2>2 DEF GracePeriod
<1>s. Once'
    BY SameClaims
<1>g. Given'
    BY <1>a DEF Given, RcuTypeOK, Tickets
<1>7. QED
    BY <1>s, <1>g, <1>1, <1>2, <1>3, <1>4, <1>5, <1>6

\* A call of rcu_safe() begins before all slots, or the count is known safe.
LEMMA KeepBeginSafe ==
    ASSUME RcuInv, NEW t \in RcuThreads, NEW count \in 0 .. MaxCount + 1,
           BeginSafe(t, count)
    PROVE  RcuInv'
<1> USE Constants DEF BeginSafe, RcuInv, history
<1>c. count \in 0 .. global_rcu_count - 1
    BY DEF Given, RcuTypeOK
<1>a. /\ asked'[t] = count /\ state'[t] \in {"scan", "safe"}
      /\ state'[t] = "safe" => count <= global_rcu_safe
      /\ state'[t] = "scan" => seat'[t] = 1 /\ count # 0
      /\ \A u \in RcuThreads \ {t} :
            state'[u] = state[u] /\ seat'[u] = seat[u] /\ asked'[u] = asked[u]
    BY <1>c DEF RcuTypeOK
<1>1. RcuTypeOK'
  <2>1. asked' \in [RcuThreads -> 0 .. MaxCount]
    BY <1>c DEF RcuTypeOK
  <2>2. state' \in [RcuThreads -> States]
    BY <1>c DEF RcuTypeOK, States
  <2>3. seat' \in [RcuThreads -> 0 .. RcuSlots + 1]
    BY DEF RcuTypeOK
  <2>4. QED
    BY <2>1, <2>2, <2>3 DEF RcuTypeOK
<1>2. \A u \in RcuThreads \ {t} : Knows(u)' /\ Passed(u)'
  <2> TAKE u \in RcuThreads \ {t}
  <2>1. global_rcu_count <= global_rcu_count'
    BY DEF RcuTypeOK
  <2>2. QED
    BY <1>1, <1>a, <2>1, Others
<1>3. Knows(t)' /\ Passed(t)'
  <2>1. Read(t, local_rcu[t])' = Read(t, local_rcu[t])
    BY DEF Read
  <2>2. /\ state'[t] = "scan" => asked'[t] \in 1 .. global_rcu_count - 1
        /\ state'[t] = "safe" => asked'[t] \in 0 .. global_rcu_count - 1
    BY <1>a, <1>c DEF RcuTypeOK
  <2>3. QED
    BY <1>a, <2>1, <2>2 DEF Knows, Passed, Inside
<1>4. SlotsInv'
    BY DEF SlotsInv
<1>5. Waited'
    BY <1>a DEF Waited, RcuTypeOK, Inside
<1>6. Scanned'
  <2> SUFFICES ASSUME NEW v \in RcuThreads, NEW c \in Tickets, state'[v] = "scan",
                      c <= asked'[v], NEW u \in waits[c]
               PROVE  seat'[v] <= local_rcu[u]
    BY DEF Scanned
  <2>1. CASE v = t
    <3>1. u \in RcuThreads /\ local_rcu[u] \in Seats
        BY OwnSlot DEF Waited, RcuTypeOK, Knows
    <3>2. QED
        BY <1>a, <2>1, <3>1 DEF Seats
  <2>2. CASE v # t
    BY <1>a, <2>2 DEF Scanned
  <2>3. QED
    BY <2>1, <2>2
<1>7. GracePeriod'
  <2> SUFFICES ASSUME NEW v \in RcuThreads, state'[v] = "safe", asked'[v] # 0
               PROVE  waits[asked'[v]] = {}
    BY DEF GracePeriod
  <2>1. CASE v = t
    BY <1>a, <1>c, <2>1 DEF Scanned, RcuTypeOK, Tickets
  <2>2. CASE v # t
    BY <1>a, <2>2 DEF GracePeriod
  <2>3. QED
    BY <2>1, <2>2
<1>s. Once'
    BY SameClaims, <1>a
<1>g. Given'
    BY DEF Given
<1>8. QED
    BY <1>s, <1>g, <1>1, <1>2, <1>3, <1>4, <1>5, <1>6, <1>7

\* A thread that is waited for has announced a count that stops the scan.
LEMMA Stops ==
    ASSUME RcuInv, NEW t \in RcuThreads, state[t] = "scan",
           NEW c \in Tickets, c <= asked[t], NEW u \in waits[c]
    PROVE  /\ local_rcu[u] \in Seats /\ seat[t] <= local_rcu[u]
           /\ global_rcu[local_rcu[u]] # 0
           /\ Read(t, local_rcu[u]) \in 1 .. asked[t]
<1> USE Constants DEF RcuInv
<1>1. u \in RcuThreads /\ state[u] \in Inside /\ buffer[u] = << >> /\ seen[u] <= c
    BY DEF Waited, RcuTypeOK
<1>2. local_rcu[u] # 0 /\ seen[u] \in Nat \ {0} /\ Read(u, local_rcu[u]) = seen[u]
    BY <1>1 DEF Knows, Inside, RcuTypeOK
<1>3. local_rcu[u] \in Seats /\ global_rcu[local_rcu[u]] = seen[u]
    BY <1>1, <1>2, OwnSlot DEF Read
<1>4. Read(t, local_rcu[u]) = seen[u]
  <2>1. CASE t = u
    BY <1>2, <2>1
  <2>2. CASE t # u
    <3>1. local_rcu[u] # local_rcu[t]
        BY <1>1, <1>2, <2>2 DEF SlotsInv
    <3>2. QED
        BY <1>3, <3>1 DEF Read
  <2>3. QED
    BY <2>1, <2>2
<1>5. seen[u] \in 1 .. asked[t]
    BY <1>1, <1>2 DEF RcuTypeOK, Tickets
<1>6. seat[t] <= local_rcu[u]
    BY DEF Scanned
<1>7. QED
    BY <1>2, <1>3, <1>4, <1>5, <1>6

LEMMA KeepScan ==
    ASSUME RcuInv, NEW t \in RcuThreads, Scan(t)
    PROVE  RcuInv'
<1> USE Constants DEF Scan, RcuInv, history
<1>d. \/ /\ Read(t, seat[t]) > asked[t] /\ UNCHANGED <<state, asked>>
         /\ seat' = [seat EXCEPT ![t] = @ + 1]
      \/ /\ state' = [state EXCEPT ![t] = "section"]
         /\ seat' = [seat EXCEPT ![t] = 0] /\ asked' = [asked EXCEPT ![t] = 0]
    OBVIOUS
<1>a. \A u \in RcuThreads \ {t} :
         state'[u] = state[u] /\ seat'[u] = seat[u] /\ asked'[u] = asked[u]
    BY <1>d DEF RcuTypeOK
<1>b. /\ state'[t] \in {"scan", "section"} /\ state[t] = "scan"
      /\ state'[t] = "scan" => /\ asked' = asked /\ seat'[t] = seat[t] + 1
                               /\ Read(t, seat[t]) > asked[t]
    BY <1>d DEF RcuTypeOK
<1>1. RcuTypeOK'
  <2>a. /\ "section" \in States /\ seat[t] + 1 \in 0 .. RcuSlots + 1
        /\ 0 \in 0 .. RcuSlots + 1
    BY DEF States, Seats
  <2>1. state' \in [RcuThreads -> States]
    BY <1>d, <2>a DEF RcuTypeOK
  <2>2. seat' \in [RcuThreads -> 0 .. RcuSlots + 1]
    <3>1. seat \in [RcuThreads -> 0 .. RcuSlots + 1]
        BY DEF RcuTypeOK
    <3>2. QED
        BY <1>d, <2>a, <3>1
  <2>3. asked' \in [RcuThreads -> 0 .. MaxCount]
    <3>1. asked \in [RcuThreads -> 0 .. MaxCount] /\ 0 \in 0 .. MaxCount
        BY DEF RcuTypeOK
    <3>2. QED
        BY <1>d, <3>1
  <2>4. QED
    BY <2>1, <2>2, <2>3 DEF RcuTypeOK
<1>2. \A u \in RcuThreads \ {t} : Knows(u)' /\ Passed(u)'
  <2> TAKE u \in RcuThreads \ {t}
  <2>1. global_rcu_count <= global_rcu_count'
    BY DEF RcuTypeOK
  <2>2. QED
    BY <1>1, <1>a, <2>1, Others
<1>3. Knows(t)' /\ Passed(t)'
  <2>1. Read(t, local_rcu[t])' = Read(t, local_rcu[t])
    BY DEF Read
  <2>2. state'[t] = "scan" => seat'[t] # 0
    BY <1>b DEF RcuTypeOK, Seats
  <2>3. QED
    BY <1>b, <2>1, <2>2 DEF Knows, Passed, Inside
<1>4. SlotsInv'
    BY DEF SlotsInv
<1>5. Waited'
    BY <1>a, <1>b DEF Waited, RcuTypeOK, Inside
<1>6. Scanned'
  <2> SUFFICES ASSUME NEW v \in RcuThreads, NEW c \in Tickets, state'[v] = "scan",
                      c <= asked'[v], NEW u \in waits[c]
               PROVE  seat'[v] <= local_rcu[u]
    BY DEF Scanned
  <2>1. CASE v = t
    <3>1. Read(t, seat[t]) > asked[t] /\ seat'[t] = seat[t] + 1 /\ c <= asked[t]
        BY <1>b, <2>1
    <3>2. /\ local_rcu[u] \in Seats /\ seat[t] <= local_rcu[u]
          /\ Read(t, local_rcu[u]) \in 1 .. asked[t]
        BY <1>b, <3>1, Stops
    <3>3. seat[t] # local_rcu[u]
        BY <3>1, <3>2 DEF RcuTypeOK
    <3>4. QED
        BY <2>1, <3>1, <3>2, <3>3 DEF RcuTypeOK, Seats
  <2>2. CASE v # t
    BY <1>a, <2>2 DEF Scanned
  <2>3. QED
    BY <2>1, <2>2
<1>7. GracePeriod'
    BY <1>a, <1>b DEF GracePeriod
<1>s. Once'
    BY SameClaims, <1>a, <1>b
<1>g. Given'
    BY DEF Given
<1>8. QED
    BY <1>s, <1>g, <1>1, <1>2, <1>3, <1>4, <1>5, <1>6, <1>7

\* A scan that ends has nobody to wait for: it would have stopped there, and
\* no slot behind one that was never claimed is used.
LEMMA KeepScanEnd ==
    ASSUME RcuInv, NEW t \in RcuThreads, ScanEnd(t)
    PROVE  RcuInv'
<1> USE Constants DEF ScanEnd, Goes, RcuInv, history
<1>a. \A u \in RcuThreads \ {t} : state'[u] = state[u]
    BY DEF RcuTypeOK
<1>b. state'[t] = "safe" /\ state[t] = "scan"
    BY DEF RcuTypeOK
<1>c. asked[t] \in 1 .. global_rcu_count - 1
    BY <1>b DEF Knows
<1>d. ASSUME NEW c \in Tickets, c <= asked[t]
      PROVE  waits[c] = {}
  <2> SUFFICES ASSUME NEW u \in waits[c]
               PROVE  FALSE
    OBVIOUS
  <2>1. /\ local_rcu[u] \in Seats /\ seat[t] <= local_rcu[u]
        /\ global_rcu[local_rcu[u]] # 0
        /\ Read(t, local_rcu[u]) \in 1 .. asked[t]
    BY <1>b, <1>d, Stops
  <2>2. CASE seat[t] \in Seats
    <3>1. Read(t, seat[t]) = 0
        BY <2>2
    <3>2. seat[t] # local_rcu[u]
        BY <2>1, <3>1
    <3>3. global_rcu[seat[t]] # 0
        BY <2>1, <2>2, <3>2 DEF SlotsInv, Seats
    <3>4. seat[t] = local_rcu[t]
        BY <3>1, <3>3 DEF Read
    <3>5. local_rcu[t] # 0
        BY <2>2, <3>4 DEF Seats
    <3>6. Read(t, local_rcu[t]) \in 1 .. UNLOCKED
        BY <3>5, OwnSlot
    <3>7. QED
        BY <3>1, <3>4, <3>6
  <2>3. CASE seat[t] \notin Seats
    <3>1. seat[t] = 0
        BY <2>1, <2>3 DEF RcuTypeOK, Seats
    <3>2. QED
        BY <1>b, <3>1 DEF Knows
  <2>4. QED
    BY <2>2, <2>3
<1>1. RcuTypeOK'
    BY DEF RcuTypeOK, States
<1>2. \A u \in RcuThreads \ {t} : Knows(u)' /\ Passed(u)'
  <2> TAKE u \in RcuThreads \ {t}
  <2>1. global_rcu_count <= global_rcu_count'
    BY DEF RcuTypeOK
  <2>2. QED
    BY <1>1, <1>a, <2>1, Others
<1>3. Knows(t)' /\ Passed(t)'
  <2>1. Read(t, local_rcu[t])' = Read(t, local_rcu[t])
    BY DEF Read
  <2>2. QED
    BY <1>b, <1>c, <2>1 DEF Knows, Passed, Inside
<1>4. SlotsInv'
    BY DEF SlotsInv
<1>5. Waited'
    BY <1>a, <1>b DEF Waited, RcuTypeOK, Inside
<1>6. Scanned'
  <2>1. global_rcu_safe' < global_rcu_count
    BY <1>c DEF RcuTypeOK
  <2>2. \A c \in Tickets : c <= global_rcu_safe' => waits[c] = {}
    BY <1>d
  <2>3. ASSUME NEW v \in RcuThreads, NEW c \in Tickets, state'[v] = "scan", c <= asked[v]
        PROVE  \A u \in waits[c] : seat[v] <= local_rcu[u]
    BY <1>a, <1>b, <2>3 DEF Scanned
  <2>4. QED
    BY <2>1, <2>2, <2>3 DEF Scanned
<1>7. GracePeriod'
  <2>1. asked[t] \in Tickets
    BY <1>c DEF RcuTypeOK, Tickets
  <2>2. QED
    <3> SUFFICES ASSUME NEW v \in RcuThreads, state'[v] = "safe", asked[v] # 0
                 PROVE  waits[asked[v]] = {}
        BY DEF GracePeriod
    <3>1. CASE v = t
      <4>1. asked[t] <= asked[t]
        BY <1>c DEF RcuTypeOK
      <4>2. waits[asked[t]] = {}
        BY <1>d, <2>1, <4>1
      <4>3. QED
        BY <3>1, <4>2
    <3>2. CASE v # t
        BY <1>a, <3>2 DEF GracePeriod
    <3>3. QED
        BY <3>1, <3>2
<1>s. Once'
    BY SameClaims, <1>a, <1>b
<1>g. Given'
    BY DEF Given
<1>8. QED
    BY <1>s, <1>g, <1>1, <1>2, <1>3, <1>4, <1>5, <1>6, <1>7

LEMMA KeepReclaim ==
    ASSUME RcuInv, NEW t \in RcuThreads, Reclaim(t)
    PROVE  RcuInv'
<1> USE Constants DEF Reclaim, Goes, RcuInv, history
<1>a. \A u \in RcuThreads \ {t} : state'[u] = state[u]
    BY DEF RcuTypeOK
<1>b. state'[t] = "section" /\ state[t] = "safe"
    BY DEF RcuTypeOK
<1>1. RcuTypeOK'
    BY DEF RcuTypeOK, States
<1>2. \A u \in RcuThreads \ {t} : Knows(u)' /\ Passed(u)'
  <2> TAKE u \in RcuThreads \ {t}
  <2>1. global_rcu_count <= global_rcu_count'
    BY DEF RcuTypeOK
  <2>2. QED
    BY <1>1, <1>a, <2>1, Others
<1>3. Knows(t)' /\ Passed(t)'
  <2>1. Read(t, local_rcu[t])' = Read(t, local_rcu[t])
    BY DEF Read
  <2>2. QED
    BY <1>b, <2>1 DEF Knows, Passed, Inside
<1>4. SlotsInv'
    BY DEF SlotsInv
<1>5. Waited'
    BY <1>a, <1>b DEF Waited, RcuTypeOK, Inside
<1>6. Scanned' /\ GracePeriod'
    BY <1>a, <1>b DEF Scanned, GracePeriod
<1>s. Once'
    BY SameClaims, <1>a, <1>b
<1>g. Given'
    BY DEF Given
<1>7. QED
    BY <1>s, <1>g, <1>1, <1>2, <1>3, <1>4, <1>5, <1>6

\* Whether or not the slot is given back, no other thread has it.
LEMMA KeepExit ==
    ASSUME RcuInv, NEW t \in RcuThreads, Exit(t)
    PROVE  RcuInv'
<1> USE Constants DEF Exit, Goes, RcuInv, history
<1>a. \A u \in RcuThreads \ {t} : state'[u] = state[u] /\ local_rcu'[u] = local_rcu[u]
    BY DEF RcuTypeOK
<1>b. state'[t] = "gone" /\ state[t] = "idle" /\ local_rcu'[t] = 0
    BY DEF RcuTypeOK
<1>c. local_rcu[t] \in Seats /\ global_rcu[local_rcu[t]] # 0
    BY OwnSlot DEF RcuTypeOK
<1>d. global_rcu' = [global_rcu EXCEPT ![local_rcu[t]] = UNUSED] \/ global_rcu' = global_rcu
    OBVIOUS
<1>e. \A i \in Seats : global_rcu'[i] # 0 <=> global_rcu[i] # 0
    BY <1>c, <1>d DEF RcuTypeOK
<1>1. RcuTypeOK'
  <2>1. global_rcu' \in [Seats -> CounterValues]
    <3>1. UNUSED \in CounterValues
        BY DEF CounterValues
    <3>2. QED
        BY <1>d, <3>1 DEF RcuTypeOK
  <2>2. state' \in [RcuThreads -> States] /\ local_rcu' \in [RcuThreads -> 0 .. RcuSlots]
    BY DEF RcuTypeOK, States
  <2>3. QED
    BY <2>1, <2>2 DEF RcuTypeOK
<1>f. \A u \in RcuThreads \ {t} :
          local_rcu[u] # 0 => global_rcu'[local_rcu[u]] = global_rcu[local_rcu[u]]
  <2> SUFFICES ASSUME NEW u \in RcuThreads \ {t}, local_rcu[u] # 0
               PROVE  global_rcu'[local_rcu[u]] = global_rcu[local_rcu[u]]
    OBVIOUS
  <2>1. local_rcu[u] \in Seats /\ local_rcu[u] # local_rcu[t]
    BY <1>c, OwnSlot DEF SlotsInv
  <2>2. QED
    BY <1>c, <1>d, <2>1 DEF RcuTypeOK
<1>2. \A u \in RcuThreads \ {t} : Knows(u)' /\ Passed(u)'
  <2> TAKE u \in RcuThreads \ {t}
  <2>1. global_rcu_count <= global_rcu_count'
    BY DEF RcuTypeOK
  <2>2. QED
    BY <1>1, <1>a, <1>e, <1>f, <2>1, Others
<1>3. Knows(t)' /\ Passed(t)'
    BY <1>b DEF Knows, Passed, Inside
<1>4. SlotsInv'
  <2>1. \A u, v \in RcuThreads :
           u # v /\ local_rcu'[u] # 0 => local_rcu'[u] # local_rcu'[v]
    BY <1>a, <1>b DEF SlotsInv
  <2>2. QED
    BY <1>e, <2>1 DEF SlotsInv
<1>5. Waited' /\ Scanned' /\ GracePeriod'
    BY <1>1, <1>a, <1>b, Quiet DEF Inside
<1>s. Once'
  <2>1. Served' = Served
    BY <1>a, <1>b, <1>c DEF Served, Seats
  <2>2. Claimed' = Claimed
    BY <1>e DEF Claimed
  <2>3. QED
    BY <2>1, <2>2 DEF Once
<1>g. Given'
    BY DEF Given
<1>6. QED
    BY <1>s, <1>g, <1>1, <1>2, <1>3, <1>4, <1>5

-----------------------------------------------------------------------------
(* Theorems *)

LEMMA NextInvariant == RcuInv /\ [RcuNext]_rcu_vars => RcuInv'
<1> SUFFICES ASSUME RcuInv, [RcuNext]_rcu_vars
             PROVE  RcuInv'
    OBVIOUS
<1>1. CASE RcuNext
  <2> PICK t \in RcuThreads :
        \/ BeginRegister(t) \/ Find(t) \/ Claim(t)
        \/ LoadCount(t) \/ StoreCount(t) \/ Drain(t) \/ Unlock(t)
        \/ Register(t) \/ (\E count \in 0 .. MaxCount + 1 : BeginSafe(t, count))
        \/ Scan(t) \/ ScanEnd(t) \/ Reclaim(t) \/ Exit(t)
    BY <1>1 DEF RcuNext
  <2>1. CASE BeginRegister(t) \/ Find(t) \/ Claim(t)
    BY <2>1, KeepBeginRegister, KeepFind, KeepClaim
  <2>2. CASE LoadCount(t) \/ StoreCount(t) \/ Drain(t) \/ Unlock(t)
    BY <2>2, KeepLoadCount, KeepStoreCount, KeepDrain, KeepUnlock
  <2>3. CASE Register(t) \/ \E count \in 0 .. MaxCount + 1 : BeginSafe(t, count)
    BY <2>3, KeepRegister, KeepBeginSafe
  <2>4. CASE Scan(t) \/ ScanEnd(t) \/ Reclaim(t) \/ Exit(t)
    BY <2>4, KeepScan, KeepScanEnd, KeepReclaim, KeepExit
  <2>5. QED
    BY <2>1, <2>2, <2>3, <2>4
<1>2. CASE UNCHANGED rcu_vars
    BY <1>2 DEF rcu_vars, RcuInv, RcuTypeOK, Knows, Passed, Read, SlotsInv, Waited,
                Scanned, GracePeriod, Once, Served, Claimed, Given, history
<1>3. QED
    BY <1>1, <1>2

LEMMA Invariance == RcuSpec => []RcuInv
BY InitInvariant, NextInvariant, PTL DEF RcuSpec

\* global_rcu[], the store buffers and each thread's view keep their types.
THEOREM RcuTyping == RcuSpec => []RcuTypeOK
<1>1. RcuInv => RcuTypeOK
    BY DEF RcuInv
<1>2. QED
    BY <1>1, Invariance, PTL

\* However many threads race for however many slots, no two get the same one
\* and the slots are claimed without a gap (lines 166-175).
THEOREM Slots == RcuSpec => []SlotsInv
<1>1. RcuInv => SlotsInv
    BY DEF RcuInv
<1>2. QED
    BY <1>1, Invariance, PTL

\* The assertions in lines 179, 186 and 199 never fail, whatever waits in the
\* store buffers and whichever count that was returned is asked for; the one in
\* line 167 fails only after as many threads as there are slots have claimed one.
THEOREM Assertions == RcuSpec => []RcuAsserts
<1>1. RcuInv => RcuAsserts
  <2> SUFFICES ASSUME RcuInv, NEW t \in RcuThreads
               PROVE  /\ state[t] = "store" => Read(t, local_rcu[t]) = UNLOCKED
                      /\ state[t] = "section" => Read(t, local_rcu[t]) <= global_rcu_count
                      /\ state[t] # "bad_count"
                      /\ state[t] = "no_slot" => Cardinality(Served) >= RcuSlots
    BY DEF RcuAsserts
  <2>1. Knows(t) /\ Passed(t) /\ Once /\ global_rcu_count \in Nat
    BY Constants DEF RcuInv, RcuTypeOK
  <2>2. ASSUME state[t] = "no_slot"
        PROVE  Cardinality(Served) >= RcuSlots
    <3>1. Claimed = Seats
        BY <2>1, <2>2 DEF Passed, Claimed
    <3>2. Cardinality(Served) \in Nat
        BY <2>1, FS_CardinalityType DEF Once
    <3>3. RcuSlots <= Cardinality(Served)
        BY <2>1, <3>1, SeatsFinite DEF Once
    <3>4. QED
        BY <3>2, <3>3, Constants
  <2>3. QED
    BY <2>1, <2>2 DEF Knows, Inside
<1>2. QED
    BY <1>1, Invariance, PTL

\* With a slot for every thread, the assertion in line 167 does not fail either:
\* a thread that fails has not claimed one itself.
THEOREM EnoughSlots ==
    ASSUME IsFiniteSet(RcuThreads), Cardinality(RcuThreads) <= RcuSlots
    PROVE  RcuSpec => []~Aborted
<1>1. RcuInv => ~Aborted
  <2> SUFFICES ASSUME RcuInv, NEW t \in RcuThreads, state[t] \in {"no_slot", "bad_count"}
               PROVE  FALSE
    BY DEF Aborted
  <2>1. Knows(t) /\ Passed(t) /\ Once
    BY DEF RcuInv
  <2>2. state[t] = "no_slot" /\ local_rcu[t] = 0
    BY <2>1 DEF Knows
  <2>3. t \notin Served /\ Served \subseteq RcuThreads
    BY <2>2 DEF Served
  <2>4. Claimed = Seats
    BY <2>1, <2>2 DEF Passed, Claimed
  <2>5. /\ IsFiniteSet(Served) /\ Cardinality(Served) <= Cardinality(RcuThreads)
        /\ Cardinality(RcuThreads) = Cardinality(Served) => RcuThreads = Served
    BY <2>3, FS_Subset
  <2>6. Cardinality(Served) # Cardinality(RcuThreads)
    BY <2>3, <2>5
  <2>7. RcuSlots <= Cardinality(Served)
    BY <2>1, <2>4, SeatsFinite DEF Once
  <2>8. Cardinality(Served) \in Nat /\ Cardinality(RcuThreads) \in Nat
    BY <2>5, FS_CardinalityType
  <2>9. QED
    BY <2>5, <2>6, <2>7, <2>8, Constants
<1>2. QED
    BY <1>1, Invariance, PTL

\* When rcu_safe() returns 1, every critical section that was announced in the
\* memory when its count was taken is over.
THEOREM Grace == RcuSpec => []GracePeriod
<1>1. RcuInv => GracePeriod
    BY DEF RcuInv
<1>2. QED
    BY <1>1, Invariance, PTL
=============================================================================
