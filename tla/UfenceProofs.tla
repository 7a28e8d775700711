----------------------------- MODULE UfenceProofs -----------------------------
(***************************************************************************)
(* The properties of Ufence hold for any number of threads, any page and   *)
(* guard sizes, any hash function and any limit, with any number of        *)
(* faults.                                                                 *)
(*                                                                         *)
(* What TableInv says of the quiet allocator is not inductive: inside a    *)
(* call the tables disagree, in a way that the label of the lock's holder  *)
(* tells.  SlotsSettled, HashSettled and RegionsSettled are the three      *)
(* parts of TableInv with the exceptions the holder may be causing,        *)
(* Working says how far it is, and Live, Dead and Releasing say what must  *)
(* not be disturbed meanwhile: an object in use, an object freed less than *)
(* a minute ago, and an object whose free() still waits for the lock.      *)
(* Handler says what the signal handler may rely on if it got the lock.    *)
(* Without the lock it relies on nothing, and changes nothing but what is  *)
(* accessible.                                                             *)
(***************************************************************************)
EXTENDS Ufence, Induction

Freeing == {"f_lock", "f_used"}
Allocating == {"m_unhash", "m_forget", "m_unmap", "m_budget", "m_map", "m_hash",
               "m_p", "m_size", "m_flags", "m_shift", "m_frontpad", "m_return"}
Making == {"m_hash", "m_p", "m_size", "m_flags", "m_shift", "m_frontpad", "m_return"}
Handling == {"s_find", "s_match", "s_range", "s_flags", "s_open", "s_return"}

\* The slot to which the hash table leads from p.
Entry(p) == htable[Hash[p.r]]

\* Hash table and kernel agree with the slot l.
Settled(l) ==
    LET m == list[l] IN
    m.p # Null =>
      /\ l # 0 /\ Entry(m.p) = l
      /\ Start(m) = MaxAlign /\ kernel[m.p.r].len = Outer(m) /\ Outer(m) # 0
Between(t) == pc[t] \in {"m_forget", "m_size", "m_flags", "m_frontpad"}

SlotsSettled ==
    \A l \in Slots :
      /\ list[l].p # Null => list[l].p.r # 0
      /\ Settled(l) \/ \E t \in Threads : Between(t) /\ lslot[t] = l
HashSettled ==
    \A h \in DOMAIN htable : htable[h] # 0 =>
       LET p == list[htable[h]].p IN
         \/ p # Null /\ Hash[p.r] = h
         \/ \E t \in Threads : pc[t] = "m_p" /\ Hash[ptr[t].r] = h
RegionsSettled ==
    \A r \in Regions : kernel[r].len # 0 =>
       \/ \E l \in Slots : list[l].p.r = r
       \/ \E t \in Threads : pc[t] \in {"m_unmap", "m_hash", "m_p"} /\ ptr[t].r = r

\* The object at p has a slot, which is in use.
Used(p) ==
    /\ p.r # 0 /\ Entry(p) # 0
    /\ list[Entry(p)].p = p /\ "USED" \in list[Entry(p)].flags
    /\ Settled(Entry(p))

Live ==
    /\ live \subseteq [p : Pointer, size : 0 .. MaxAlloc, align : 1 .. MaxAlign]
    /\ \A x \in live :
         /\ Used(x.p) /\ list[Entry(x.p)].size = x.size
         /\ PagesOf(x.p.o, x.size) \subseteq kernel[x.p.r].open
    /\ \A x, y \in live : x.p.r = y.p.r => x = y
Dead ==
    /\ dead \subseteq [p : Pointer, size : 0 .. MaxAlloc]
    /\ \A x \in dead :
         /\ x.p.r # 0 /\ Entry(x.p) # 0 /\ Entry(x.p) \notin ripe
         /\ list[Entry(x.p)].p = x.p /\ list[Entry(x.p)].size = x.size
         /\ "USED" \notin list[Entry(x.p)].flags
         /\ Settled(Entry(x.p))

\* An object that is being made or given back is alone in its region.
Apart ==
    /\ \A x \in live, t \in Threads : pc[t] \in Freeing \union Making => x.p.r # ptr[t].r
    /\ \A t, u \in Threads :
         t # u /\ pc[t] \in Freeing /\ pc[u] \in Freeing \union Making => ptr[t].r # ptr[u].r

\* The new mapping of t.
Mapped(t) ==
    /\ ptr[t].r # 0 /\ ptr[t].o = MaxAlign /\ arg[t].size # 0
    /\ kernel[ptr[t].r].len = AlignUp(arg[t].size)
    /\ PagesOf(MaxAlign, AlignUp(arg[t].size)) \subseteq kernel[ptr[t].r].open
    /\ Entry(ptr[t]) = IF pc[t] = "m_hash" THEN 0 ELSE lslot[t]

\* How far malloc() is.
Working(t) ==
    LET m == list[lslot[t]] IN
    /\ pc[t] \in Allocating => lslot[t] # 0 /\ lslot[t] \in ripe
    /\ pc[t] \in Allocating \ {"m_shift", "m_frontpad", "m_return"} => "USED" \notin m.flags
    /\ pc[t] \in {"m_unhash", "m_forget"} => m.p # Null
    /\ pc[t] = "m_forget" => ptr[t].r = m.p.r
    /\ pc[t] \in {"m_forget", "m_unmap"} => ptr[t].r # 0 /\ Entry(ptr[t]) = 0
    /\ pc[t] \in {"m_unmap", "m_budget", "m_map", "m_hash", "m_p"} => m.p = Null
    /\ pc[t] \in Making => Mapped(t)
    /\ pc[t] \in {"m_size", "m_flags", "m_shift"} => m.p = ptr[t]
    /\ pc[t] \in {"m_frontpad", "m_return"} => m.p.r = ptr[t].r
    /\ pc[t] \in {"m_flags", "m_shift", "m_frontpad", "m_return"} =>
         m.size = arg[t].size /\ Outer(m) = AlignUp(arg[t].size)
    /\ pc[t] \in {"m_shift", "m_frontpad"} => m.flags = {"USED"}
    /\ pc[t] = "m_frontpad" => m.p.o = MaxAlign + m.pad
    /\ pc[t] = "m_return" => "USED" \in m.flags

\* What free() will find.
Releasing(t) ==
    /\ pc[t] \in Freeing => Used(ptr[t])
    /\ pc[t] = "f_protect" =>
         list[lslot[t]].p # Null /\ "USED" \notin list[lslot[t]].flags

\* What the handler has found.
Handler(t) ==
    /\ pc[t] \in Handling => ptr[t].r # 0
    /\ ret[t] = 1 => pc[t] = "s_return"
    /\ locked[t] =>
         /\ pc[t] \in Handling
         /\ pc[t] \in {"s_match", "s_range", "s_flags", "s_open"} => lslot[t] = Entry(ptr[t])
         /\ pc[t] \in {"s_range", "s_flags", "s_open"} => list[lslot[t]].p.r = ptr[t].r
         /\ pc[t] \in {"s_flags", "s_open"} => InRange(ptr[t], list[lslot[t]])
         /\ pc[t] = "s_return" =>
              /\ (\E x \in live \union dead : InRange(ptr[t], x)) => ret[t] = 1
              /\ ret[t] = 1 => Accessible(ptr[t])

Tables == SlotsSettled /\ HashSettled /\ RegionsSettled
Objects == Live /\ Dead /\ Apart
Calls == \A t \in Threads : Working(t) /\ Releasing(t) /\ Handler(t)

\* The inductive invariant.
IInv ==
    /\ Typed /\ LockInv
    /\ fault # "free of an unknown object"
    /\ fault = "none" => Tables /\ Objects /\ Calls

-----------------------------------------------------------------------------
(* Pages *)

LEMMA Division ==
    ASSUME NEW b \in Nat \ {0}, NEW a \in Nat
    PROVE  /\ a \div b \in Nat /\ a % b \in 0 .. b - 1
           /\ a = (a \div b) * b + (a % b)
OBVIOUS

LEMMA MultipleBelow ==
    ASSUME NEW b \in Nat \ {0}, NEW q \in Nat, NEW k \in Nat, q * b < (k + 1) * b
    PROVE  q <= k
<1> SUFFICES ASSUME q >= k + 1 PROVE FALSE
    OBVIOUS
<1>1. PICK d \in Nat : q = k + 1 + d
    <2>1. q - k - 1 \in Nat
        OBVIOUS
    <2> QED BY <2>1
<1>2. d * b >= 0
    OBVIOUS
<1>3. q * b = (k + 1) * b + d * b
    BY <1>1
<1> QED BY <1>2, <1>3

\* The sizes of the layout are numbers, and regions consist of whole pages.
LEMMA Layout ==
    /\ Page \in Nat \ {0} /\ Guard \in Nat \ {0} /\ MaxAlign \in Nat \ {0}
    /\ MaxAlloc \in Nat /\ Page <= Guard /\ Guard < MaxAlign
    /\ 0 \in Slots /\ Null \in Pointer
    /\ \E c \in Nat : MaxAlloc = c * Page
    /\ \E c \in Nat : 2 * MaxAlign = c * Page
<1> USE LayoutAssumption
<1>1. /\ Page \in Nat \ {0} /\ Guard \in Nat \ {0} /\ MaxAlign \in Nat \ {0}
      /\ MaxAlloc \in Nat /\ Guard < MaxAlign
    BY DEF MaxAlloc
<1>2. PICK g \in Nat : Guard = g * Page
    <2>1. Guard = (Guard \div Page) * Page /\ Guard \div Page \in Nat
        BY <1>1, Division
    <2> QED BY <2>1
<1>3. PICK m \in Nat : MaxAlign = m * Page
    <2>1. MaxAlign = (MaxAlign \div Page) * Page /\ MaxAlign \div Page \in Nat
        BY <1>1, Division
    <2> QED BY <2>1
<1>4. Page <= Guard
    <2>1. g >= 1
        BY <1>1, <1>2
    <2>2. PICK d \in Nat : g = d + 1
        <3>1. g - 1 \in Nat
            BY <2>1
        <3> QED BY <3>1
    <2>3. g * Page = d * Page + Page /\ d * Page >= 0
        BY <2>2, <1>1
    <2> QED BY <2>3, <1>2
<1>5. g <= m
    <2>1. g * Page < (m + 1) * Page
        <3>1. (m + 1) * Page = m * Page + Page
            BY <1>1
        <3> QED BY <3>1, <1>1, <1>2, <1>3
    <2> QED BY <2>1, <1>1, MultipleBelow
<1>6. MaxAlloc = (m - g) * Page /\ m - g \in Nat
    <2>1. (m - g) * Page = m * Page - g * Page
        BY <1>1, <1>5
    <2> QED BY <2>1, <1>2, <1>3, <1>5 DEF MaxAlloc
<1>7. 2 * MaxAlign = (2 * m) * Page
    BY <1>1, <1>3
<1>8. ListSize \in Nat \ {0}
    <2>1. 2 * Page \in Nat \ {0} /\ MemLimit \in Nat /\ MemLimit >= 2 * Page
        BY <1>1
    <2>2. ListSize \in Nat /\ MemLimit = ListSize * (2 * Page) + (MemLimit % (2 * Page))
          /\ MemLimit % (2 * Page) \in 0 .. 2 * Page - 1
        BY ONLY <2>1, Division DEF ListSize
    <2>3. ListSize # 0
        <3>1. SUFFICES ASSUME ListSize = 0 PROVE FALSE
            OBVIOUS
        <3>2. ListSize * (2 * Page) = 0
            BY ONLY <3>1, <1>1
        <3> QED BY ONLY <3>2, <2>1, <2>2
    <2> QED BY <2>2, <2>3
<1>9. 0 \in Slots
    BY <1>8 DEF Slots
<1>10. Null \in Pointer
    BY <1>1 DEF Null, Pointer
<1>11. \E c \in Nat : MaxAlloc = c * Page
    BY ONLY <1>6
<1>12. \E c \in Nat : 2 * MaxAlign = c * Page
    <2>1. 2 * m \in Nat
        OBVIOUS
    <2> QED BY ONLY <2>1, <1>7
<1> QED BY ONLY <1>1, <1>4, <1>9, <1>10, <1>11, <1>12

\* What ALIGN_UP() adds is less than a page, and it stays within MAX_ALLOC.
LEMMA Alignment ==
    ASSUME NEW n \in 0 .. MaxAlloc
    PROVE  /\ AlignUp(n) \in 0 .. MaxAlloc /\ AlignUp(n) - n \in 0 .. Page - 1
           /\ n # 0 => AlignUp(n) # 0
<1> DEFINE q == (n + Page - 1) \div Page
<1>1. /\ q \in Nat /\ AlignUp(n) = q * Page
      /\ q * Page <= n + Page - 1 /\ n + Page - 1 < q * Page + Page
    <2>1. n + Page - 1 \in Nat /\ Page \in Nat \ {0}
        BY Layout
    <2>2. /\ q \in Nat /\ (n + Page - 1) % Page \in 0 .. Page - 1
          /\ n + Page - 1 = q * Page + ((n + Page - 1) % Page)
        BY ONLY <2>1, Division
    <2>3. AlignUp(n) = q * Page
        BY DEF AlignUp
    <2> QED BY ONLY <2>1, <2>2, <2>3
<1> HIDE DEF q
<1>2. PICK c \in Nat : MaxAlloc = c * Page
    BY Layout
<1>3. q * Page < (c + 1) * Page
    <2>1. (c + 1) * Page = c * Page + Page
        BY Layout
    <2> QED BY <1>1, <1>2, <2>1, Layout
<1>4. q <= c
    BY <1>1, <1>3, MultipleBelow, Layout
<1>5. q * Page <= c * Page
    <2>1. PICK d \in Nat : c = q + d
        <3>1. c - q \in Nat
            BY <1>1, <1>4
        <3> QED BY <3>1, <1>1
    <2>2. c * Page = q * Page + d * Page /\ d * Page >= 0
        BY <1>1, <2>1, Layout
    <2> QED BY <1>1, <2>2, Layout
<1> QED BY <1>1, <1>2, <1>5, Layout

\* The page of an offset.
LEMMA PageOf ==
    ASSUME NEW a \in 0 .. 2 * MaxAlign - 1
    PROVE  /\ a \div Page \in Pages
           /\ (a \div Page) * Page <= a /\ a < (a \div Page + 1) * Page
<1> DEFINE k == a \div Page
           e == (2 * MaxAlign) \div Page
<1>1. /\ k \in Nat /\ k * Page <= a /\ a < k * Page + Page
    <2>1. a \in Nat /\ Page \in Nat \ {0}
        BY Layout
    <2>2. k \in Nat /\ a % Page \in 0 .. Page - 1 /\ a = k * Page + (a % Page)
        BY ONLY <2>1, Division
    <2> QED BY ONLY <2>1, <2>2
<1>2. /\ e \in Nat /\ 2 * MaxAlign < e * Page + Page
    <2>1. 2 * MaxAlign \in Nat /\ Page \in Nat \ {0}
        BY Layout
    <2>2. /\ e \in Nat /\ (2 * MaxAlign) % Page \in 0 .. Page - 1
          /\ 2 * MaxAlign = e * Page + ((2 * MaxAlign) % Page)
        BY ONLY <2>1, Division
    <2> QED BY ONLY <2>1, <2>2
<1>3. Pages = 0 .. e - 1
    BY DEF Pages
<1> HIDE DEF k, e
<1>4. PICK c \in Nat : 2 * MaxAlign = c * Page
    BY Layout
<1>5. /\ (e + 1) * Page = e * Page + Page /\ (k + 1) * Page = k * Page + Page
    BY <1>1, <1>2, Layout
<1>6. c <= e
    BY <1>2, <1>4, <1>5, MultipleBelow, Layout
<1>7. c # 0
    BY <1>4, Layout
<1>8. k <= c - 1
    <2>1. c - 1 \in Nat /\ (c - 1) + 1 = c
        BY <1>7
    <2>2. k * Page < ((c - 1) + 1) * Page
        BY <2>1, <1>1, <1>4, Layout
    <2>3. k <= c - 1
        BY ONLY <2>1, <2>2, <1>1, MultipleBelow, Layout
    <2> QED BY <2>3
<1>9. k \in Pages
    BY <1>1, <1>2, <1>3, <1>6, <1>8
<1>10. k * Page <= a /\ a < (k + 1) * Page
    BY <1>1, <1>5, Layout
<1> QED BY <1>9, <1>10 DEF k

\* A part of a range of addresses is on its pages.
LEMMA PagesWithin ==
    ASSUME NEW a \in Nat, NEW m \in Nat, NEW b \in Nat, NEW n \in Nat,
           a >= b, a + m <= b + n
    PROVE  PagesOf(a, m) \subseteq PagesOf(b, n)
<1> SUFFICES ASSUME NEW k \in Pages, k * Page < a + m, a < (k + 1) * Page
             PROVE  k * Page < b + n /\ b < (k + 1) * Page
    BY DEF PagesOf
<1>1. k * Page \in Int /\ (k + 1) * Page \in Int
    BY Layout DEF Pages
<1> QED BY <1>1

LEMMA PagesTyped == \A a, m : PagesOf(a, m) \subseteq Pages
BY DEF PagesOf

-----------------------------------------------------------------------------
(* Tables *)

LEMMA Regional ==
    /\ 0 \notin Regions /\ Nobody \notin Threads
    /\ Hash \in [Regions -> 0 .. HtableSize - 1]
BY RegionAssumption, LockAssumption

\* The region of a pointer that is not null has a slot of the hash table.
LEMMA HashTyped ==
    ASSUME Typed, NEW p \in Pointer, p.r # 0
    PROVE  /\ p.r \in Regions /\ Hash[p.r] \in 0 .. HtableSize - 1
           /\ Entry(p) \in Slots /\ p.o \in 0 .. 2 * MaxAlign - 1
<1>1. p.r \in Regions /\ p.o \in 0 .. 2 * MaxAlign - 1
    BY DEF Pointer
<1>2. Hash[p.r] \in 0 .. HtableSize - 1
    BY <1>1, Regional
<1> QED BY <1>1, <1>2 DEF Typed, Entry

LEMMA MappingTyped ==
    ASSUME Typed, NEW l \in Slots
    PROVE  /\ list[l] \in Mapping /\ list[l].p \in Pointer
           /\ list[l].size \in 0 .. MaxAlloc /\ list[l].pad \in 0 .. Page - 1
           /\ list[l].flags \subseteq Flags
           /\ list[l].p = Null <=> list[l].p.r = 0 /\ list[l].p.o = 0
<1>1. list[l] \in Mapping
    BY DEF Typed
<1>2. /\ list[l].p \in Pointer
      /\ list[l].size \in 0 .. MaxAlloc /\ list[l].pad \in 0 .. Page - 1
      /\ list[l].flags \subseteq Flags
    BY <1>1 DEF Mapping
<1>3. list[l].p = Null <=> list[l].p.r = 0 /\ list[l].p.o = 0
    BY <1>2 DEF Null, Pointer
<1> QED BY <1>1, <1>2, <1>3

\* Nobody but the holder of the lock is between two steps of a change.
LEMMA Alone ==
    ASSUME LockInv, Typed, NEW t \in Threads, pc[t] \in Updating
    PROVE  /\ lock = t
           /\ \A u \in Threads \ {t} : pc[u] \notin Updating /\ ~ locked[u]
BY DEF LockInv, Typed

LEMMA Labels ==
    /\ Allocating \subseteq Updating /\ Making \subseteq Allocating
    /\ Updating \subseteq Locations /\ Freeing \subseteq Locations
    /\ Handling \subseteq Locations /\ Handling \cap Updating = {}
    /\ Handling \cap Freeing = {} /\ Allocating \cap Freeing = {}
    /\ Handling \cap Allocating = {} /\ "idle" \in Locations
    /\ "idle" \notin Handling \union Allocating \union Freeing \union Updating
BY DEF Allocating, Making, Updating, Freeing, Handling, Locations

\* A step of t leaves the locals of the others alone.
Others(t) ==
    \A u \in Threads \ {t} :
      /\ pc'[u] = pc[u] /\ arg'[u] = arg[u] /\ ptr'[u] = ptr[u]
      /\ lslot'[u] = lslot[u] /\ locked'[u] = locked[u] /\ ret'[u] = ret[u]

LEMMA SettledKept ==
    ASSUME NEW l, Settled(l), list'[l] = list[l],
           list[l].p # Null =>
             /\ htable'[Hash[list[l].p.r]] = htable[Hash[list[l].p.r]]
             /\ kernel'[list[l].p.r].len = kernel[list[l].p.r].len
    PROVE  Settled(l)'
BY DEF Settled, Entry, Start, Outer

LEMMA UsedKept ==
    ASSUME NEW p, NEW q, q = p, Used(p), htable'[Hash[p.r]] = htable[Hash[p.r]],
           list'[Entry(p)] = list[Entry(p)], kernel'[p.r].len = kernel[p.r].len
    PROVE  Used(q)'
<1>1. Entry(q)' = Entry(p)
    BY DEF Entry
<1>2. list'[Entry(p)].p = p /\ p.r # 0 /\ Entry(p) # 0 /\ "USED" \in list'[Entry(p)].flags
    BY DEF Used
<1>3. Settled(Entry(p))
    BY DEF Used
<1>4. Settled(Entry(q))'
    BY <1>1, <1>2, <1>3 DEF Settled, Entry, Start, Outer
<1> QED BY <1>1, <1>2, <1>4 DEF Used

\* Whoever frees an object goes on finding it.
LEMMA ReleasingKept ==
    ASSUME NEW u \in Threads, Releasing(u), pc'[u] = pc[u], ptr'[u] = ptr[u],
           lslot'[u] = lslot[u],
           pc[u] \in Freeing =>
             /\ htable'[Hash[ptr[u].r]] = htable[Hash[ptr[u].r]]
             /\ list'[Entry(ptr[u])] = list[Entry(ptr[u])]
             /\ kernel'[ptr[u].r].len = kernel[ptr[u].r].len,
           pc[u] = "f_protect" => list'[lslot[u]] = list[lslot[u]]
    PROVE  Releasing(u)'
<1>1. CASE pc[u] \in Freeing
    <2>1. PICK p : p = ptr[u]
        OBVIOUS
    <2>2. Used(p)
        BY <1>1, <2>1 DEF Releasing
    <2>3. Used(p)'
        BY <1>1, <2>1, <2>2, UsedKept DEF Entry
    <2>4. Used(ptr[u])'
        BY <2>1, <2>3 DEF Used, Settled, Entry
    <2> QED BY <1>1, <2>4 DEF Releasing, Freeing
<1>2. CASE pc[u] \notin Freeing
    BY <1>2 DEF Releasing
<1> QED BY <1>1, <1>2

\* A step that changes neither the tables nor what lies where.
Keeps(t) ==
    /\ UNCHANGED <<list, htable>>
    /\ \A r \in Regions : kernel'[r].len = kernel[r].len
    /\ Others(t)
\* It may also open pages, and objects may be given back or their minute may
\* pass.
Looks(t) ==
    /\ Keeps(t)
    /\ \A r \in Regions : kernel[r].open \subseteq kernel'[r].open
    /\ live' \subseteq live
    /\ (dead' = dead /\ ripe' = ripe) \/ (dead' = {} /\ ripe \subseteq ripe')

\* Where the tables are not as they say.
Halfway == {"m_forget", "m_unmap", "m_hash", "m_p", "m_size", "m_flags", "m_frontpad"}

LEMMA KeepsTables ==
    ASSUME IInv, fault = "none", NEW t, Keeps(t), t \in Threads => pc[t] \notin Halfway
    PROVE  Tables'
<1> USE DEF Keeps, Others
<1>1. Tables
    BY DEF IInv
<1>2. Typed
    BY DEF IInv
<1>3. SlotsSettled'
    <2> SUFFICES ASSUME NEW l \in Slots
                 PROVE  /\ list'[l].p # Null => list'[l].p.r # 0
                        /\ Settled(l)' \/ \E u \in Threads : Between(u)' /\ lslot'[u] = l
        BY DEF SlotsSettled
    <2>1. list[l].p # Null => list[l].p.r # 0 /\ list[l].p.r \in Regions
        BY <1>1, <1>2, MappingTyped, HashTyped DEF Tables, SlotsSettled
    <2>2. CASE Settled(l)
        BY <2>1, <2>2, SettledKept
    <2>3. ASSUME NEW u \in Threads, Between(u), lslot[u] = l
          PROVE  Between(u)' /\ lslot'[u] = l
        BY <2>3 DEF Between, Halfway
    <2>4. Settled(l) \/ \E u \in Threads : Between(u) /\ lslot[u] = l
        BY <1>1 DEF Tables, SlotsSettled
    <2> QED BY <2>1, <2>2, <2>3, <2>4
<1>4. HashSettled'
    <2> SUFFICES ASSUME NEW h \in DOMAIN htable', htable'[h] # 0
                 PROVE  LET p == list'[htable'[h]].p IN
                          \/ p # Null /\ Hash[p.r] = h
                          \/ \E u \in Threads : pc'[u] = "m_p" /\ Hash[ptr'[u].r] = h
        BY DEF HashSettled
    <2>1. LET p == list[htable[h]].p IN
            \/ p # Null /\ Hash[p.r] = h
            \/ \E u \in Threads : pc[u] = "m_p" /\ Hash[ptr[u].r] = h
        BY <1>1 DEF Tables, HashSettled
    <2> QED BY <2>1 DEF Halfway
<1>5. RegionsSettled'
    <2> SUFFICES ASSUME NEW r \in Regions, kernel'[r].len # 0
                 PROVE  \/ \E l \in Slots : list'[l].p.r = r
                        \/ \E u \in Threads : pc'[u] \in {"m_unmap", "m_hash", "m_p"} /\ ptr'[u].r = r
        BY DEF RegionsSettled
    <2>1. \/ \E l \in Slots : list[l].p.r = r
          \/ \E u \in Threads : pc[u] \in {"m_unmap", "m_hash", "m_p"} /\ ptr[u].r = r
        BY <1>1 DEF Tables, RegionsSettled
    <2> QED BY <2>1 DEF Halfway
<1> QED BY <1>3, <1>4, <1>5 DEF Tables

LEMMA LooksObjects ==
    ASSUME IInv, fault = "none", NEW t, Looks(t)
    PROVE  Live' /\ Dead'
<1> USE DEF Looks, Keeps
<1>1. Live /\ Dead /\ Typed
    BY DEF IInv, Objects
<1>2. Live'
    <2>1. live' \subseteq [p : Pointer, size : 0 .. MaxAlloc, align : 1 .. MaxAlign]
        BY <1>1 DEF Live
    <2>2. ASSUME NEW x \in live'
          PROVE  /\ Used(x.p)' /\ list'[Entry(x.p)'].size = x.size
                 /\ PagesOf(x.p.o, x.size) \subseteq kernel'[x.p.r].open
        <3>1. /\ Used(x.p) /\ list[Entry(x.p)].size = x.size
              /\ PagesOf(x.p.o, x.size) \subseteq kernel[x.p.r].open /\ x.p \in Pointer
            BY <1>1 DEF Live
        <3>2. x.p.r \in Regions
            BY <1>1, <3>1, HashTyped DEF Used
        <3>3. Used(x.p)'
            BY <3>1, <3>2, UsedKept
        <3> QED BY <3>1, <3>2, <3>3 DEF Entry
    <2>3. \A x, y \in live' : x.p.r = y.p.r => x = y
        BY <1>1 DEF Live
    <2> QED BY <2>1, <2>2, <2>3 DEF Live
<1>3. Dead'
    <2>1. dead' \subseteq [p : Pointer, size : 0 .. MaxAlloc]
        BY <1>1 DEF Dead
    <2>2. ASSUME NEW x \in dead'
          PROVE  /\ x.p.r # 0 /\ Entry(x.p)' # 0 /\ Entry(x.p)' \notin ripe'
                 /\ list'[Entry(x.p)'].p = x.p /\ list'[Entry(x.p)'].size = x.size
                 /\ "USED" \notin list'[Entry(x.p)'].flags
                 /\ Settled(Entry(x.p))'
        <3>1. /\ x.p.r # 0 /\ Entry(x.p) # 0 /\ Entry(x.p) \notin ripe
              /\ list[Entry(x.p)].p = x.p /\ list[Entry(x.p)].size = x.size
              /\ "USED" \notin list[Entry(x.p)].flags
              /\ Settled(Entry(x.p)) /\ x \in dead /\ x.p \in Pointer
              /\ ripe' = ripe
            BY <1>1 DEF Dead
        <3>2. x.p.r \in Regions
            BY <1>1, <3>1, HashTyped
        <3>3. Entry(x.p)' = Entry(x.p)
            BY DEF Entry
        <3>4. Settled(Entry(x.p))'
            BY <3>1, <3>2, <3>3 DEF Settled, Entry, Start, Outer
        <3> QED BY <3>1, <3>3, <3>4
    <2> QED BY <2>1, <2>2 DEF Dead
<1> QED BY <1>2, <1>3

LEMMA LooksOthers ==
    ASSUME IInv, fault = "none", NEW t, Looks(t),
           NEW u \in Threads \ {t}
    PROVE  Working(u)' /\ Releasing(u)' /\ Handler(u)'
<1> USE DEF Looks, Keeps, Others
<1>1. Working(u) /\ Releasing(u) /\ Handler(u) /\ Typed
    BY DEF IInv, Calls
<1>2. Working(u)'
    <2>1. Mapped(u) /\ pc[u] \in Making => Mapped(u)'
        <3> SUFFICES ASSUME Mapped(u), pc[u] \in Making
                     PROVE  Mapped(u)'
            OBVIOUS
        <3>1. ptr[u].r \in Regions
            BY <1>1, HashTyped DEF Mapped, Typed
        <3> QED BY <3>1 DEF Mapped, Entry
    <2>2. ripe \subseteq ripe'
        OBVIOUS
    <2> QED BY <1>1, <2>1, <2>2 DEF Working, Outer, Entry
<1>3. Releasing(u)'
    <2>1. pc[u] \in Freeing => ptr[u].r \in Regions
        BY <1>1, HashTyped DEF Releasing, Used, Typed
    <2> QED BY <1>1, <2>1, ReleasingKept
<1>4. Handler(u)'
    <2>1. CASE ~ locked[u]
        BY <1>1, <2>1 DEF Handler
    <2>2. CASE locked[u]
        <3>1. ptr[u].r \in Regions
            BY <1>1, <2>2, HashTyped DEF Handler, Typed
        <3>2. Accessible(ptr[u]) => Accessible(ptr[u])'
            BY <3>1 DEF Accessible
        <3>3. \A x \in live' \union dead' : x \in live \union dead
            OBVIOUS
        <3>4. (\E x \in live \union dead : InRange(ptr[u], x))' =>
                \E x \in live \union dead : InRange(ptr[u], x)
            BY <3>3 DEF InRange
        <3>5. InRange(ptr[u], list[lslot[u]]) => InRange(ptr[u], list[lslot[u]])'
            BY DEF InRange
        <3> QED BY <1>1, <2>2, <3>2, <3>4, <3>5 DEF Handler, Entry
    <2> QED BY <2>1, <2>2
<1> QED BY <1>2, <1>3, <1>4

LEMMA ApartKept ==
    ASSUME Apart, NEW t \in Threads, Others(t), live' \subseteq live,
           pc'[t] \in Freeing => pc[t] \in Freeing /\ ptr'[t].r = ptr[t].r,
           pc'[t] \in Making => pc[t] \in Making /\ ptr'[t].r = ptr[t].r
    PROVE  Apart'
<1>1. ASSUME NEW x \in live', NEW u \in Threads, pc'[u] \in Freeing \union Making
      PROVE  x.p.r # ptr'[u].r
    BY <1>1 DEF Apart, Others
<1>2. ASSUME NEW u \in Threads, NEW w \in Threads, u # w, pc'[u] \in Freeing,
             pc'[w] \in Freeing \union Making
      PROVE  ptr'[u].r # ptr'[w].r
    BY <1>2 DEF Apart, Others
<1> QED BY <1>1, <1>2 DEF Apart

\* What is left to show of a step that only looks at the tables.
LEMMA LooksStep ==
    ASSUME IInv, fault = "none", NEW t \in Threads, Looks(t), pc[t] \notin Halfway,
           Typed', LockInv', fault' # "free of an unknown object", Apart',
           Working(t)', Releasing(t)', Handler(t)'
    PROVE  IInv'
<1>1. Tables' /\ Live' /\ Dead'
    BY KeepsTables, LooksObjects DEF Looks
<1>2. \A u \in Threads : Working(u)' /\ Releasing(u)' /\ Handler(u)'
    BY LooksOthers
<1> QED BY <1>1, <1>2 DEF IInv, Objects, Calls

-----------------------------------------------------------------------------
(* The end of a call *)

LEMMA LeaveTyped ==
    ASSUME Typed, NEW t \in Threads, Leave(t)
    PROVE  /\ pc' \in [Threads -> Locations]
           /\ arg' \in [Threads -> [size : 0 .. MaxAlloc, align : 1 .. MaxAlign]]
           /\ ptr' \in [Threads -> Pointer] /\ lslot' \in [Threads -> Slots]
           /\ flags' \in [Threads -> SUBSET Flags]
           /\ locked' \in [Threads -> BOOLEAN] /\ ret' \in [Threads -> {0, 1}]
           /\ Others(t) /\ pc'[t] = "idle" /\ ~ locked'[t] /\ ret'[t] = 0
<1>1. "idle" \in Locations /\ 0 \in 0 .. MaxAlloc /\ 1 \in 1 .. MaxAlign
      /\ Null \in Pointer /\ 0 \in Slots
    BY Layout, Labels
<1>2. [size |-> 0, align |-> 1] \in [size : 0 .. MaxAlloc, align : 1 .. MaxAlign]
    BY <1>1
<1>3. pc' \in [Threads -> Locations] /\ pc'[t] = "idle"
    BY <1>1 DEF Typed, Leave, Goto
<1>4. arg' \in [Threads -> [size : 0 .. MaxAlloc, align : 1 .. MaxAlign]]
    BY <1>2 DEF Typed, Leave
<1>5. ptr' \in [Threads -> Pointer] /\ lslot' \in [Threads -> Slots]
      /\ flags' \in [Threads -> SUBSET Flags]
    BY <1>1 DEF Typed, Leave
<1>6. locked' \in [Threads -> BOOLEAN] /\ ret' \in [Threads -> {0, 1}]
      /\ ~ locked'[t] /\ ret'[t] = 0
    BY DEF Typed, Leave
<1>7. Others(t)
    BY DEF Typed, Leave, Goto, Others
<1> QED BY <1>3, <1>4, <1>5, <1>6, <1>7

\* A call that has ended says nothing of the tables.
LEMMA LeaveLocal ==
    ASSUME NEW t \in Threads, pc'[t] = "idle", ~ locked'[t], ret'[t] = 0
    PROVE  Working(t)' /\ Releasing(t)' /\ Handler(t)'
BY DEF Working, Releasing, Handler, Allocating, Making, Freeing, Handling

\* "out:" gives the lock back.
LEMMA OutStep ==
    ASSUME IInv, fault = "none", NEW t \in Threads, pc[t] \in Updating \ Halfway,
           Out(t), UNCHANGED <<tables, time, kernel, live, fault>>
    PROVE  IInv'
<1>1. Typed /\ LockInv /\ Apart /\ Leave(t) /\ lock' = Nobody
    BY DEF IInv, Objects, Out
<1>2. Typed'
    <2>1. lock' \in Threads \union {Nobody}
        BY <1>1
    <2> QED BY <1>1, <2>1, LeaveTyped DEF Typed, tables, time
<1>3. LockInv'
    <2>1. /\ \A u \in Threads \ {t} : pc[u] \notin Updating /\ ~ locked[u]
        BY <1>1, Alone
    <2>2. \A u \in Threads : pc'[u] \notin Updating /\ ~ locked'[u]
        BY <1>1, <2>1, LeaveTyped, Labels DEF Others
    <2> QED BY <1>1, <2>2, Regional DEF LockInv
<1>4. Looks(t)
    BY <1>1, LeaveTyped DEF Looks, Keeps, tables, time
<1>5. Apart'
    <2>1. pc'[t] \notin Freeing /\ pc'[t] \notin Making
        BY <1>1, LeaveTyped, Labels
    <2> QED BY <1>1, <1>4, <2>1, ApartKept DEF Looks, Keeps
<1>6. Working(t)' /\ Releasing(t)' /\ Handler(t)'
    BY <1>1, LeaveTyped, LeaveLocal
<1> QED BY <1>2, <1>3, <1>4, <1>5, <1>6, LooksStep DEF IInv

-----------------------------------------------------------------------------
(* Steps of malloc() and free() that only look *)

LEMMA MallocStep ==
    ASSUME IInv, NEW t \in Threads, NEW size \in Sizes, NEW align \in Aligns,
           Malloc(t, size, align)
    PROVE  IInv'
<1> USE DEF Malloc, At, Goto, tables, time
<1>1. Typed /\ LockInv /\ Apart /\ fault = "none" /\ Handler(t)
    BY DEF IInv, Objects, Calls
<1>2. [size |-> size, align |-> align] \in [size : 0 .. MaxAlloc, align : 1 .. MaxAlign]
    BY InputAssumption
<1>3. "m_pick" \in Updating /\ "m_pick" \notin Allocating \union Freeing \union Making \union Handling
    BY DEF Updating, Allocating, Freeing, Making, Handling
<1>4. Typed'
    <2>1. arg' \in [Threads -> [size : 0 .. MaxAlloc, align : 1 .. MaxAlign]]
        BY <1>1, <1>2 DEF Typed
    <2>2. pc' \in [Threads -> Locations]
        BY <1>1, <1>3, Labels DEF Typed
    <2> QED BY <1>1, <2>1, <2>2 DEF Typed
<1>5. /\ Others(t) /\ pc'[t] = "m_pick" /\ pc[t] = "idle"
      /\ lock' = t /\ lock = Nobody /\ locked' = locked /\ ret' = ret
    BY <1>1 DEF Typed, Others
<1>6. ~ locked[t]
    BY <1>1, <1>5, Regional DEF LockInv
<1>7. LockInv'
    BY <1>1, <1>3, <1>5, <1>6, Regional DEF LockInv, Others
<1>8. Looks(t)
    BY <1>5 DEF Looks, Keeps
<1>9. Apart'
    BY <1>1, <1>3, <1>5, ApartKept
<1>10. Working(t)' /\ Releasing(t)' /\ Handler(t)'
    BY <1>1, <1>3, <1>5, <1>6, Labels DEF Working, Releasing, Handler, Handling
<1> QED BY <1>1, <1>4, <1>5, <1>7, <1>8, <1>9, <1>10, LooksStep DEF Halfway

LEMMA PickStep ==
    ASSUME IInv, NEW t \in Threads, Pick(t)
    PROVE  IInv'
<1>1. Typed /\ LockInv /\ Apart /\ fault = "none" /\ Handler(t) /\ pc[t] = "m_pick"
    BY DEF IInv, Objects, Calls, Pick, At
<1>2. "m_pick" \in Updating \ Halfway
    BY DEF Updating, Halfway
<1>3. CASE Out(t)
    BY <1>1, <1>2, <1>3, OutStep DEF Pick
<1>4. ASSUME NEW l \in Slots, l # 0, "USED" \notin list[l].flags, l \in ripe,
             lslot' = [lslot EXCEPT ![t] = l],
             Goto(t, IF list[l].p # Null THEN "m_unhash" ELSE "m_budget"),
             UNCHANGED <<lock, arg, ptr, flags, locked, ret>>
      PROVE  IInv'
    <2> USE DEF tables, time, Goto
    <2>0. UNCHANGED <<tables, time, kernel, live, faults, fault>>
        BY DEF Pick
    <2>1. /\ {"m_unhash", "m_budget"} \subseteq Allocating
          /\ {"m_unhash", "m_budget"} \cap (Freeing \union Making \union Handling) = {}
        BY DEF Allocating, Freeing, Making, Handling
    <2>2. /\ pc' \in [Threads -> Locations] /\ lslot' \in [Threads -> Slots]
          /\ pc'[t] \in {"m_unhash", "m_budget"} /\ lslot'[t] = l
          /\ pc'[t] = "m_unhash" <=> list[l].p # Null
        BY <1>1, <1>4, <2>1, Labels DEF Typed
    <2>3. Typed'
        BY <1>1, <1>4, <2>0, <2>2 DEF Typed
    <2>4. Others(t)
        BY <1>1, <1>4 DEF Others, Typed
    <2>5. LockInv'
        BY <1>1, <1>2, <1>4, <2>1, <2>2, <2>4, Labels DEF LockInv, Others
    <2>6. Looks(t)
        BY <1>4, <2>0, <2>4 DEF Looks, Keeps
    <2>7. Apart'
        BY <1>1, <2>0, <2>1, <2>2, <2>4, ApartKept
    <2>8. ~ locked[t]
        BY <1>1 DEF Handler, Handling
    <2>9. ret[t] # 1
        BY <1>1 DEF Handler
    <2>10. Working(t)'
        BY <1>4, <2>0, <2>1, <2>2 DEF Working
    <2>11. Releasing(t)' /\ Handler(t)'
        BY <1>4, <2>1, <2>2, <2>8, <2>9 DEF Releasing, Handler
    <2> QED BY <1>1, <1>2, <2>0, <2>3, <2>5, <2>6, <2>7, <2>10, <2>11, LooksStep
<1> QED BY <1>3, <1>4 DEF Pick

LEMMA BudgetStep ==
    ASSUME IInv, NEW t \in Threads, Budget(t)
    PROVE  IInv'
<1>1. /\ Typed /\ LockInv /\ Apart /\ fault = "none" /\ pc[t] = "m_budget"
      /\ Working(t) /\ Handler(t)
    BY DEF IInv, Objects, Calls, Budget, At
<1>2. /\ "m_budget" \in Updating \ Halfway /\ "m_map" \in Updating
      /\ {"m_budget", "m_map"} \subseteq Allocating
      /\ {"m_budget", "m_map"} \cap (Freeing \union Making \union Handling) = {}
    BY DEF Updating, Halfway, Allocating, Freeing, Making, Handling
<1>3. CASE Out(t)
    BY <1>1, <1>2, <1>3, OutStep DEF Budget
<1>4. CASE Goto(t, "m_map") /\ UNCHANGED <<lock, locals>>
    <2> USE DEF tables, time, locals, Goto
    <2>0. UNCHANGED <<tables, time, kernel, live, faults, fault, lock, locals>>
        BY <1>4 DEF Budget
    <2>1. pc' \in [Threads -> Locations] /\ pc'[t] = "m_map" /\ Others(t)
        BY <1>1, <1>2, <1>4, Labels DEF Typed, Others
    <2>2. Typed'
        BY <1>1, <2>0, <2>1 DEF Typed
    <2>3. LockInv'
        BY <1>1, <1>2, <2>0, <2>1 DEF LockInv, Others
    <2>4. Looks(t)
        BY <2>0, <2>1 DEF Looks, Keeps
    <2>5. Apart'
        BY <1>1, <1>2, <2>0, <2>1, ApartKept
    <2>6. Working(t)'
        BY <1>1, <1>2, <2>0, <2>1 DEF Working
    <2>7. Releasing(t)' /\ Handler(t)'
        BY <1>1, <1>2, <2>0, <2>1 DEF Releasing, Handler, Handling
    <2> QED BY <1>1, <1>2, <2>0, <2>2, <2>3, <2>4, <2>5, <2>6, <2>7, LooksStep
<1> QED BY <1>3, <1>4 DEF Budget

LEMMA FreeStep ==
    ASSUME IInv, NEW t \in Threads, NEW obj \in live, Free(t, obj)
    PROVE  IInv'
<1> USE DEF Free, At, Goto, tables, time
<1>1. /\ Typed /\ LockInv /\ Apart /\ Live /\ fault = "none" /\ pc[t] = "idle" /\ Handler(t)
    BY DEF IInv, Objects, Calls
<1>2. /\ "idle" \notin Halfway /\ "f_lock" \in Freeing /\ "f_lock" \in Locations
      /\ "f_lock" \notin Updating \union Allocating \union Making \union Handling
      /\ "idle" \notin Updating
    BY DEF Updating, Halfway, Allocating, Freeing, Making, Handling, Locations
<1>3. /\ obj.p \in Pointer /\ Used(obj.p)
    BY <1>1 DEF Live
<1>4. /\ pc' \in [Threads -> Locations] /\ ptr' \in [Threads -> Pointer]
      /\ pc'[t] = "f_lock" /\ ptr'[t] = obj.p /\ Others(t)
    BY <1>1, <1>2, <1>3 DEF Typed, Others
<1>5. Typed'
    BY <1>1, <1>4 DEF Typed
<1>6. LockInv'
    BY <1>1, <1>2, <1>4 DEF LockInv, Others
<1>7. Looks(t)
    BY <1>4 DEF Looks, Keeps
<1>8. Apart'
    <2>1. ASSUME NEW x \in live', NEW u \in Threads, pc'[u] \in Freeing \union Making
          PROVE  x.p.r # ptr'[u].r
        <3>1. CASE u = t
            BY <1>1, <1>4, <3>1 DEF Live
        <3>2. CASE u # t
            BY <1>1, <1>4, <2>1, <3>2 DEF Apart, Others
        <3> QED BY <3>1, <3>2
    <2>2. ASSUME NEW u \in Threads, NEW w \in Threads, u # w, pc'[u] \in Freeing,
                 pc'[w] \in Freeing \union Making
          PROVE  ptr'[u].r # ptr'[w].r
        BY <1>1, <1>2, <1>4, <2>2 DEF Apart, Others
    <2> QED BY <2>1, <2>2 DEF Apart
<1>9. Working(t)'
    BY <1>2, <1>4 DEF Working, Making, Allocating
<1>10. Releasing(t)'
    <2>1. Used(obj.p)'
        BY <1>3, UsedKept
    <2>2. Used(ptr[t])'
        BY <1>4, <2>1 DEF Used, Settled, Entry
    <2> QED BY <1>4, <2>2 DEF Releasing
<1>11. Handler(t)'
    BY <1>1, <1>2, <1>4 DEF Handler, Handling
<1> QED BY <1>1, <1>2, <1>5, <1>6, <1>7, <1>8, <1>9, <1>10, <1>11, LooksStep

LEMMA LockStep ==
    ASSUME IInv, NEW t \in Threads, Lock(t)
    PROVE  IInv'
<1> USE DEF Lock, At, Goto, tables, time, locals
<1>1. /\ Typed /\ LockInv /\ Apart /\ fault = "none" /\ pc[t] = "f_lock"
      /\ Handler(t) /\ Releasing(t)
    BY DEF IInv, Objects, Calls
<1>2. /\ "f_lock" \notin Halfway /\ {"f_lock", "f_used"} \subseteq Freeing
      /\ "f_used" \in Updating \ (Allocating \union Making \union Handling)
      /\ "f_lock" \notin Updating
    BY DEF Updating, Halfway, Allocating, Freeing, Making, Handling
<1>3. /\ pc' \in [Threads -> Locations] /\ pc'[t] = "f_used" /\ Others(t)
    BY <1>1, <1>2, Labels DEF Typed, Others
<1>4. Typed'
    BY <1>1, <1>3 DEF Typed
<1>5. ~ locked[t]
    BY <1>1 DEF Handler, Handling
<1>6. LockInv'
    BY <1>1, <1>2, <1>3, <1>5, Regional DEF LockInv, Others
<1>7. Looks(t)
    BY <1>3 DEF Looks, Keeps
<1>8. Apart'
    BY <1>1, <1>2, <1>3, ApartKept, Labels
<1>9. Working(t)'
    BY <1>2, <1>3 DEF Working, Making, Allocating
<1>10. Releasing(t)'
    <2>1. PICK p : p = ptr[t]
        OBVIOUS
    <2>2. Used(p)'
        BY <1>1, <1>2, <2>1, UsedKept DEF Releasing
    <2>3. Used(ptr[t])'
        BY <2>1, <2>2 DEF Used, Settled, Entry
    <2> QED BY <1>3, <2>3 DEF Releasing
<1>11. Handler(t)'
    BY <1>1, <1>2, <1>3 DEF Handler, Handling
<1> QED BY <1>1, <1>2, <1>4, <1>6, <1>7, <1>8, <1>9, <1>10, <1>11, LooksStep

-----------------------------------------------------------------------------
(* The signal handler *)

LEMMA FaultStep ==
    ASSUME IInv, NEW t \in Threads, NEW r \in Regions, NEW o \in Touched,
           Fault(t, [r |-> r, o |-> o])
    PROVE  IInv'
<1> USE DEF Fault, At, Goto, tables, time
<1> DEFINE a == [r |-> r, o |-> o]
<1>1. /\ Typed /\ LockInv /\ Apart /\ fault = "none" /\ pc[t] = "idle" /\ Handler(t)
    BY DEF IInv, Objects, Calls
<1>2. /\ "s_find" \in Handling /\ "s_find" \in Locations /\ "s_find" \notin Updating
      /\ "s_find" \notin Allocating \union Making \union Freeing \union {"f_protect"}
      /\ "idle" \notin Halfway \union Updating \union Handling
    BY DEF Updating, Halfway, Allocating, Freeing, Making, Handling, Locations
<1>3. a \in Pointer /\ a.r # 0
    BY InputAssumption, RegionAssumption DEF Pointer
<1>4. ~ locked[t] /\ ret[t] # 1
    BY <1>1, <1>2 DEF Handler
<1>5. /\ pc' \in [Threads -> Locations] /\ pc'[t] = "s_find"
      /\ ptr' \in [Threads -> Pointer] /\ ptr'[t].r # 0
    BY <1>1, <1>2, <1>3 DEF Typed
<1>6. /\ locked' \in [Threads -> BOOLEAN] /\ (locked'[t] <=> lock = Nobody)
      /\ lock' \in Threads \union {Nobody}
    BY <1>1 DEF Typed
<1>7. Others(t)
    BY <1>1 DEF Typed, Others
<1>8. Typed'
    BY <1>1, <1>5, <1>6 DEF Typed
<1>9. LockInv'
    <2>1. \A u \in Threads \ {t} : pc'[u] = pc[u] /\ locked'[u] = locked[u]
        BY <1>7 DEF Others
    <2>2. CASE lock = Nobody
        <3>1. lock' = t /\ locked'[t]
            BY <1>6, <2>2
        <3>2. \A u \in Threads : pc[u] \notin Updating /\ ~ locked[u]
            BY <1>1, <2>2, Regional DEF LockInv
        <3> QED BY <2>1, <3>1, <3>2 DEF LockInv
    <2>3. CASE lock # Nobody
        <3>1. lock' = lock /\ ~ locked'[t] /\ pc'[t] \notin Updating
            BY <1>2, <1>5, <1>6, <2>3
        <3>2. lock # t
            BY <1>1, <1>2, <1>4 DEF LockInv
        <3> QED BY <1>1, <2>1, <3>1, <3>2 DEF LockInv
    <2> QED BY <2>2, <2>3
<1>10. Looks(t)
    BY <1>7 DEF Looks, Keeps
<1>11. Apart'
    BY <1>1, <1>2, <1>5, <1>7, ApartKept
<1>12. Working(t)' /\ Releasing(t)'
    BY <1>2, <1>5 DEF Working, Releasing, Making
<1>13. Handler(t)'
    BY <1>2, <1>4, <1>5 DEF Handler
<1> QED BY <1>1, <1>2, <1>8, <1>9, <1>10, <1>11, <1>12, <1>13, LooksStep

\* What is left to show of a step inside the handler.
LEMMA HandlerStep ==
    ASSUME IInv, fault = "none", NEW t \in Threads, pc[t] \in Handling,
           pc'[t] \in Handling, Looks(t), Typed', live' = live,
           lock' = lock, locked' = locked, fault' # "free of an unknown object", Handler(t)'
    PROVE  IInv'
<1>1. LockInv /\ Apart
    BY DEF IInv, Objects
<1>2. /\ Handling \cap (Updating \union Halfway \union Allocating \union Making) = {}
      /\ Handling \cap (Freeing \union {"f_protect"}) = {}
    BY DEF Updating, Halfway, Allocating, Freeing, Making, Handling
<1>3. LockInv'
    BY <1>1, <1>2 DEF LockInv, Looks, Keeps, Others
<1>4. Apart'
    BY <1>1, <1>2, ApartKept DEF Looks, Keeps
<1>5. Working(t)' /\ Releasing(t)'
    BY <1>2 DEF Working, Releasing, Making, Allocating, Handling
<1> QED BY <1>2, <1>3, <1>4, <1>5, LooksStep

LEMMA FindStep ==
    ASSUME IInv, NEW t \in Threads, Find(t)
    PROVE  IInv'
<1> USE DEF Find, At, Goto, tables, time
<1>1. /\ Typed /\ fault = "none" /\ pc[t] = "s_find" /\ Handler(t)
    BY DEF IInv, Calls
<1>2. {"s_find", "s_match"} \subseteq Handling
    BY DEF Handling
<1>3. ptr[t] \in Pointer /\ ptr[t].r # 0
    BY <1>1, <1>2 DEF Typed, Handler
<1>4. htable[Hash[ptr[t].r]] \in Slots
    BY <1>1, <1>3, HashTyped DEF Entry
<1>5. /\ pc' \in [Threads -> Locations] /\ pc'[t] = "s_match"
      /\ lslot' \in [Threads -> Slots] /\ lslot'[t] = htable[Hash[ptr[t].r]] /\ Others(t)
    BY <1>1, <1>2, <1>4, Labels DEF Typed, Others
<1>6. Typed'
    BY <1>1, <1>5 DEF Typed
<1>7. Looks(t)
    BY <1>5 DEF Looks, Keeps
<1>8. Handler(t)'
    BY <1>1, <1>2, <1>5 DEF Handler, Entry
<1> QED BY <1>1, <1>2, <1>5, <1>6, <1>7, <1>8, HandlerStep

\* The hash of an address near an object leads to the object's slot.
LEMMA Near ==
    ASSUME Live, Dead, NEW a, NEW x \in live \union dead, InRange(a, x)
    PROVE  list[Entry(a)].p.r = a.r /\ InRange(a, list[Entry(a)])
<1>1. list[Entry(x.p)].p = x.p /\ list[Entry(x.p)].size = x.size
    BY DEF Live, Dead, Used
<1>2. Entry(a) = Entry(x.p) /\ a.r = x.p.r
    BY DEF Entry, InRange
<1> QED BY <1>1, <1>2 DEF InRange

LEMMA MatchStep ==
    ASSUME IInv, NEW t \in Threads, Match(t)
    PROVE  IInv'
<1> USE DEF Match, At, Goto, tables, time, locals
<1>1. /\ Typed /\ Live /\ Dead /\ fault = "none" /\ pc[t] = "s_match" /\ Handler(t)
    BY DEF IInv, Calls, Objects
<1>2. {"s_match", "s_range", "s_return"} \subseteq Handling
    BY DEF Handling
<1>3. /\ pc' \in [Threads -> Locations] /\ pc'[t] \in {"s_range", "s_return"} /\ Others(t)
      /\ pc'[t] = "s_range" <=> list[lslot[t]].p.r = ptr[t].r
    BY <1>1, <1>2, Labels DEF Typed, Others
<1>4. Typed'
    BY <1>1, <1>3 DEF Typed
<1>5. Looks(t)
    BY <1>3 DEF Looks, Keeps
<1>6. Handler(t)'
    <2>1. ret[t] # 1 /\ ptr[t].r # 0
        BY <1>1, <1>2 DEF Handler
    <2>2. ASSUME locked[t] PROVE lslot[t] = Entry(ptr[t])
        BY <1>1, <2>2 DEF Handler
    <2>3. ASSUME locked[t], pc'[t] = "s_return", NEW x \in live \union dead,
                 InRange(ptr[t], x)
          PROVE  FALSE
        BY <1>1, <1>3, <2>2, <2>3, Near
    <2>4. (\E x \in live \union dead : InRange(ptr[t], x))' <=>
             \E x \in live \union dead : InRange(ptr[t], x)
        BY DEF InRange
    <2> QED BY <1>2, <1>3, <2>1, <2>2, <2>3, <2>4 DEF Handler, Entry
<1> QED BY <1>1, <1>2, <1>3, <1>4, <1>5, <1>6, HandlerStep

LEMMA CheckRangeStep ==
    ASSUME IInv, NEW t \in Threads, CheckRange(t)
    PROVE  IInv'
<1> USE DEF CheckRange, At, Goto, tables, time
<1>1. /\ Typed /\ Live /\ Dead /\ fault = "none" /\ pc[t] = "s_range" /\ Handler(t)
    BY DEF IInv, Calls, Objects
<1>2. {"s_range", "s_flags", "s_return"} \subseteq Handling
    BY DEF Handling
<1>3. /\ pc' \in [Threads -> Locations] /\ pc'[t] \in {"s_flags", "s_return"} /\ Others(t)
      /\ pc'[t] = "s_flags" <=> InRange(ptr[t], list[lslot[t]])
    BY <1>1, <1>2, Labels DEF Typed, Others
<1>4. flags' \in [Threads -> SUBSET Flags]
    <2>1. list[lslot[t]].flags \in SUBSET Flags
        BY <1>1, MappingTyped DEF Typed
    <2> QED BY <1>1, <2>1 DEF Typed
<1>5. Typed'
    BY <1>1, <1>3, <1>4 DEF Typed
<1>6. Looks(t)
    BY <1>3 DEF Looks, Keeps
<1>7. Handler(t)'
    <2>1. ret[t] # 1 /\ ptr[t].r # 0
        BY <1>1, <1>2 DEF Handler
    <2>2. ASSUME locked[t] PROVE lslot[t] = Entry(ptr[t]) /\ list[lslot[t]].p.r = ptr[t].r
        BY <1>1, <2>2 DEF Handler
    <2>3. ASSUME locked[t], pc'[t] = "s_return", NEW x \in live \union dead,
                 InRange(ptr[t], x)
          PROVE  FALSE
        BY <1>1, <1>3, <2>2, <2>3, Near
    <2>4. (\E x \in live \union dead : InRange(ptr[t], x))' <=>
             \E x \in live \union dead : InRange(ptr[t], x)
        BY DEF InRange
    <2>5. InRange(ptr[t], list[lslot[t]])' <=> InRange(ptr[t], list[lslot[t]])
        BY DEF InRange
    <2> QED BY <1>2, <1>3, <2>1, <2>2, <2>3, <2>4, <2>5 DEF Handler, Entry
<1> QED BY <1>1, <1>2, <1>3, <1>5, <1>6, <1>7, HandlerStep

LEMMA WriteFlagsStep ==
    ASSUME IInv, NEW t \in Threads, WriteFlags(t)
    PROVE  IInv'
<1> USE DEF WriteFlags, At, Goto, tables, time, locals
<1>1. /\ Typed /\ LockInv /\ fault = "none" /\ pc[t] = "s_flags" /\ Handler(t)
    BY DEF IInv, Calls
<1>2. {"s_flags", "s_open"} \subseteq Handling /\ {"s_flags", "s_open"} \cap Updating = {}
    BY DEF Handling, Updating
<1>3. pc' \in [Threads -> Locations] /\ pc'[t] = "s_open" /\ Others(t)
    BY <1>1, <1>2, Labels DEF Typed, Others
<1>4. Typed'
    <2>1. PICK l \in Slots : l = lslot[t]
        BY <1>1 DEF Typed
    <2>2. list[l] \in Mapping /\ flags[t] \in SUBSET Flags
        BY <1>1, MappingTyped DEF Typed
    <2>3. [list[l] EXCEPT !.flags = flags[t]] \in Mapping
        BY <2>2 DEF Mapping
    <2>4. list' = [list EXCEPT ![l] = [list[l] EXCEPT !.flags = flags[t]]]
        BY <1>1, <2>1 DEF Typed
    <2>5. list' \in [Slots -> Mapping]
        BY <1>1, <2>3, <2>4 DEF Typed
    <2> QED BY <1>1, <1>3, <2>5 DEF Typed
<1>5. CASE fault' = "none"
    <2>1. list' = list
        <3>1. PICK l \in Slots : l = lslot[t]
            BY <1>1 DEF Typed
        <3>2. list[l] \in Mapping /\ flags[t] = list[l].flags
            BY <1>1, <1>5, <3>1, MappingTyped
        <3>3. [list[l] EXCEPT !.flags = flags[t]] = list[l]
            BY <3>2 DEF Mapping
        <3>4. list' = [list EXCEPT ![l] = [list[l] EXCEPT !.flags = flags[t]]]
            BY <1>1, <3>1 DEF Typed
        <3>5. \A k \in Slots : list'[k] = list[k]
            BY <1>1, <3>3, <3>4 DEF Typed
        <3> QED BY <1>1, <1>4, <3>5 DEF Typed
    <2>2. Looks(t)
        BY <1>3, <2>1 DEF Looks, Keeps
    <2>3. Handler(t)'
        <3>1. InRange(ptr[t], list[lslot[t]])' <=> InRange(ptr[t], list[lslot[t]])
            BY <2>1 DEF InRange
        <3> QED BY <1>1, <1>2, <1>3, <2>1, <3>1 DEF Handler, Entry
    <2> QED BY <1>1, <1>2, <1>3, <1>4, <1>5, <2>2, <2>3, HandlerStep
<1>6. CASE fault' # "none"
    <2>1. LockInv'
        BY <1>1, <1>2, <1>3 DEF LockInv, Others
    <2>2. fault' = "flags lost"
        BY <1>6
    <2> QED BY <1>4, <2>1, <2>2 DEF IInv
<1> QED BY <1>5, <1>6

\* An object and its padding fill the mapping.
LEMMA Extent ==
    ASSUME Typed, NEW l \in Slots, Start(list[l]) = MaxAlign
    PROVE  /\ list[l].p.o >= MaxAlign
           /\ list[l].p.o + list[l].size <= MaxAlign + Outer(list[l])
<1>1. list[l].p.o \in Nat /\ list[l].size \in Nat /\ list[l].pad \in Nat
    BY MappingTyped, Layout DEF Pointer
<1> QED BY <1>1, Layout DEF Start, Outer

LEMMA OpenStep ==
    ASSUME IInv, NEW t \in Threads, Open(t)
    PROVE  IInv'
<1> USE DEF Open, At, Goto, tables, time
<1>1. /\ Typed /\ LockInv /\ SlotsSettled /\ fault = "none" /\ pc[t] = "s_open" /\ Handler(t)
    BY DEF IInv, Calls, Tables
<1>2. {"s_open", "s_return"} \subseteq Handling
    BY DEF Handling
<1>3. /\ pc' \in [Threads -> Locations] /\ pc'[t] = "s_return" /\ Others(t)
      /\ ret' \in [Threads -> {0, 1}] /\ ret'[t] = 1
    BY <1>1, <1>2, Labels DEF Typed, Others
<1>4. PICK r \in Regions : r = ptr[t].r
    BY <1>1, <1>2, HashTyped DEF Handler, Typed
<1> DEFINE new == {ptr[t].o \div Page} \cap MappedPages(r)
<1>5. new \subseteq Pages
    BY PagesTyped DEF MappedPages
<1>6. kernel[r] \in [len : 0 .. MaxAlloc, open : SUBSET Pages]
    BY <1>1 DEF Typed
<1>7. kernel' = [kernel EXCEPT ![r] = [kernel[r] EXCEPT !.open = @ \union new]]
    BY <1>1, <1>4 DEF Typed
<1>8. kernel' \in [Regions -> [len : 0 .. MaxAlloc, open : SUBSET Pages]]
    <2> HIDE DEF new
    <2>1. kernel[r].open \union new \in SUBSET Pages
        BY <1>5, <1>6
    <2>2. [kernel[r] EXCEPT !.open = @ \union new] \in [len : 0 .. MaxAlloc, open : SUBSET Pages]
        BY <1>6, <2>1
    <2> QED BY <1>1, <1>7, <2>2 DEF Typed
<1>9. Typed'
    BY <1>1, <1>3, <1>8 DEF Typed
<1>10. Looks(t)
    BY <1>1, <1>3, <1>7 DEF Looks, Keeps, Typed
<1>11. ASSUME locked[t] PROVE ptr[t].o \div Page \in new
    <2> DEFINE l == lslot[t]
    <2>1. l \in Slots /\ list[l].p.r = r /\ l = Entry(ptr[t]) /\ InRange(ptr[t], list[l])
        BY <1>1, <1>4, <1>11 DEF Handler, Typed
    <2> HIDE DEF l
    <2>2. list[l].p # Null
        BY <2>1, Regional DEF Null
    <2>3. Settled(l)
        <3>1. \A u \in Threads : ~ Between(u)
            BY <1>1, <1>11 DEF LockInv, Between, Updating
        <3> QED BY <1>1, <2>1, <3>1 DEF SlotsSettled
    <2>4. Start(list[l]) = MaxAlign /\ kernel[r].len = Outer(list[l]) /\ kernel[r].len # 0
        BY <2>1, <2>2, <2>3 DEF Settled
    <2>5. /\ list[l].p.o >= MaxAlign
          /\ list[l].p.o + list[l].size <= MaxAlign + kernel[r].len
        BY <1>1, <2>1, <2>4, Extent
    <2>6. list[l].p.o - Guard < ptr[t].o /\ ptr[t].o < list[l].p.o + list[l].size + Guard
        BY <2>1 DEF InRange
    <2>7. ptr[t].o \in 0 .. 2 * MaxAlign - 1
        BY <1>1, <1>2, HashTyped DEF Handler, Typed
    <2>8. PICK k : k = ptr[t].o \div Page
        OBVIOUS
    <2>9. k \in Pages /\ k * Page <= ptr[t].o /\ ptr[t].o < (k + 1) * Page
        BY <2>7, <2>8, PageOf
    <2>10. k \in Nat /\ k * Page \in Nat /\ (k + 1) * Page \in Nat
        BY <2>9, Layout DEF Pages
    <2>11. list[l].p.o \in Nat /\ list[l].size \in Nat /\ kernel[r].len \in Nat
        BY <1>1, <1>6, <2>1, MappingTyped, Layout DEF Pointer
    <2>12. k * Page < MaxAlign - Guard + (kernel[r].len + 2 * Guard)
        BY <2>5, <2>6, <2>7, <2>9, <2>10, <2>11, Layout
    <2>13. MaxAlign - Guard < (k + 1) * Page
        BY <2>5, <2>6, <2>7, <2>9, <2>10, <2>11, Layout
    <2>14. k \in MappedPages(r)
        BY <2>4, <2>9, <2>12, <2>13 DEF MappedPages, PagesOf
    <2> QED BY <2>8, <2>14
<1>12. Handler(t)'
    <2>1. ASSUME locked[t] PROVE Accessible(ptr[t])'
        BY <1>1, <1>4, <1>7, <1>11, <2>1 DEF Accessible, Typed
    <2> QED BY <1>1, <1>2, <1>3, <2>1 DEF Handler
<1> QED BY <1>1, <1>2, <1>3, <1>9, <1>10, <1>12, HandlerStep

LEMMA ReturnHandlerStep ==
    ASSUME IInv, NEW t \in Threads, ReturnHandler(t)
    PROVE  IInv'
<1> USE DEF ReturnHandler, At, tables, time
<1>1. /\ Typed /\ LockInv /\ Apart /\ fault = "none" /\ pc[t] = "s_return" /\ Leave(t)
    BY DEF IInv, Objects
<1>2. "s_return" \notin Updating \union Halfway
    BY DEF Updating, Halfway
<1>3. Typed'
    <2>1. lock' \in Threads \union {Nobody}
        BY <1>1 DEF Typed
    <2> QED BY <1>1, <2>1, LeaveTyped DEF Typed
<1>4. LockInv'
    <2>1. /\ \A u \in Threads \ {t} : pc'[u] = pc[u] /\ locked'[u] = locked[u]
          /\ pc'[t] \notin Updating /\ ~ locked'[t]
        BY <1>1, LeaveTyped, Labels DEF Others
    <2>2. CASE locked[t]
        <3>1. lock' = Nobody /\ lock = t
            BY <1>1, <2>2 DEF LockInv
        <3>2. \A u \in Threads \ {t} : pc[u] \notin Updating /\ ~ locked[u]
            BY <1>1, <3>1 DEF LockInv
        <3> QED BY <2>1, <3>1, <3>2, Regional DEF LockInv
    <2>3. CASE ~ locked[t]
        <3>1. lock' = lock /\ lock # t
            BY <1>1, <1>2, <2>3 DEF LockInv
        <3> QED BY <1>1, <2>1, <3>1 DEF LockInv
    <2> QED BY <2>2, <2>3
<1>5. Looks(t)
    BY <1>1, LeaveTyped DEF Looks, Keeps
<1>6. Apart'
    <2>1. pc'[t] \notin Freeing /\ pc'[t] \notin Making
        BY <1>1, LeaveTyped, Labels
    <2> QED BY <1>1, <1>5, <2>1, ApartKept DEF Looks, Keeps
<1>7. Working(t)' /\ Releasing(t)' /\ Handler(t)'
    BY <1>1, LeaveTyped, LeaveLocal
<1> QED BY <1>1, <1>2, <1>3, <1>4, <1>5, <1>6, <1>7, LooksStep

LEMMA TickStep ==
    ASSUME IInv, Tick
    PROVE  IInv'
<1> USE DEF Tick, tables, locals
<1>1. /\ Typed /\ LockInv /\ Apart /\ fault = "none" /\ Calls
    BY DEF IInv, Objects
<1>2. Others(Nobody)
    BY DEF Others
<1>3. Looks(Nobody)
    BY <1>1, <1>2 DEF Looks, Keeps, Typed
<1>4. Tables' /\ Live' /\ Dead'
    BY <1>1, <1>3, KeepsTables, LooksObjects, Regional DEF Looks
<1>5. Calls'
    BY <1>1, <1>3, LooksOthers, Regional DEF Calls
<1>6. Typed' /\ LockInv' /\ Apart'
    BY <1>1 DEF Typed, LockInv, Apart
<1> QED BY <1>1, <1>4, <1>5, <1>6 DEF IInv, Objects

-----------------------------------------------------------------------------
(* Steps of malloc() and free() that change the tables *)

\* While t changes the tables, the others are outside of them.
LEMMA Bystanders ==
    ASSUME IInv, fault = "none", NEW t \in Threads, pc[t] \in Updating, Others(t),
           NEW u \in Threads \ {t},
           pc[u] \in Freeing =>
             /\ htable'[Hash[ptr[u].r]] = htable[Hash[ptr[u].r]]
             /\ list'[Entry(ptr[u])] = list[Entry(ptr[u])]
             /\ kernel'[ptr[u].r].len = kernel[ptr[u].r].len
    PROVE  Working(u)' /\ Releasing(u)' /\ Handler(u)'
<1>1. /\ Typed /\ LockInv /\ Working(u) /\ Releasing(u) /\ Handler(u)
    BY DEF IInv, Calls
<1>2. pc[u] \notin Updating /\ ~ locked[u]
    BY <1>1, Alone
<1>3. /\ pc'[u] = pc[u] /\ ptr'[u] = ptr[u] /\ lslot'[u] = lslot[u]
      /\ locked'[u] = locked[u] /\ ret'[u] = ret[u]
    BY DEF Others
<1>4. pc[u] \notin Allocating \union Making \union {"f_protect"}
    BY <1>2, Labels DEF Updating
<1>5. Working(u)'
    BY <1>3, <1>4 DEF Working, Allocating, Making
<1>6. Releasing(u)'
    BY <1>1, <1>3, <1>4, ReleasingKept
<1>7. Handler(u)'
    BY <1>1, <1>2, <1>3 DEF Handler
<1> QED BY <1>5, <1>6, <1>7

\* The slot that malloc() has picked holds no object.
LEMMA Vacant ==
    ASSUME IInv, fault = "none", NEW t \in Threads, pc[t] \in Allocating
    PROVE  /\ \A x \in live \union dead : Entry(x.p) \notin {0, lslot[t]}
           /\ \A u \in Threads : pc[u] \in Freeing => Entry(ptr[u]) \notin {0, lslot[t]}
<1>1. Live /\ Dead /\ Apart /\ Calls /\ Working(t)
    BY DEF IInv, Objects, Calls
<1>2. \/ "USED" \notin list[lslot[t]].flags
      \/ pc[t] \in Making /\ list[lslot[t]].p.r = ptr[t].r
    BY <1>1 DEF Working, Allocating, Making
<1>3. lslot[t] \in ripe
    BY <1>1 DEF Working
<1>4. ASSUME NEW x \in live PROVE Entry(x.p) \notin {0, lslot[t]}
    <2>1. Used(x.p)
        BY <1>1, <1>4 DEF Live
    <2>2. pc[t] \in Making => x.p.r # ptr[t].r
        BY <1>1, <1>4 DEF Apart
    <2> QED BY <1>2, <2>1, <2>2 DEF Used
<1>5. ASSUME NEW x \in dead PROVE Entry(x.p) \notin {0, lslot[t]}
    BY <1>1, <1>3, <1>5 DEF Dead
<1>6. ASSUME NEW u \in Threads, pc[u] \in Freeing PROVE Entry(ptr[u]) \notin {0, lslot[t]}
    <2>1. Used(ptr[u])
        BY <1>1, <1>6 DEF Calls, Releasing
    <2>2. u # t
        BY <1>6, Labels
    <2>3. pc[t] \in Making => ptr[u].r # ptr[t].r
        BY <1>1, <1>6, <2>2 DEF Apart
    <2> QED BY <1>2, <2>1, <2>3 DEF Used
<1> QED BY <1>4, <1>5, <1>6

LEMMA ListChanged ==
    ASSUME Typed, NEW l \in Slots, NEW m \in Mapping, list' = [list EXCEPT ![l] = m]
    PROVE  /\ list' \in [Slots -> Mapping] /\ list'[l] = m
           /\ \A k \in Slots : k # l => list'[k] = list[k]
BY DEF Typed

\* A step of malloc() touches its slot, and what no other slot needs.
Stores(t) ==
    /\ Others(t) /\ pc[t] \in Allocating /\ pc'[t] \in Allocating
    /\ UNCHANGED <<lock, lslot, locked, ret, ripe, dead, live, fault>>
    /\ \A k \in Slots : k # lslot[t] => list'[k] = list[k]
    /\ \A h \in DOMAIN htable : htable[h] \notin {0, lslot[t]} => htable'[h] = htable[h]
    /\ \A r \in Regions : htable[Hash[r]] \notin {0, lslot[t]} => kernel'[r] = kernel[r]

LEMMA StoresObjects ==
    ASSUME IInv, fault = "none", NEW t \in Threads, Stores(t)
    PROVE  /\ Live' /\ Dead'
           /\ \A u \in Threads \ {t} : Working(u)' /\ Releasing(u)' /\ Handler(u)'
<1> USE DEF Stores
<1>1. Typed /\ Live /\ Dead /\ Calls
    BY DEF IInv, Objects
<1>2. DOMAIN htable = 0 .. HtableSize - 1
    BY <1>1 DEF Typed
<1>3. ASSUME NEW p \in Pointer, p.r # 0, Entry(p) \notin {0, lslot[t]}
      PROVE  /\ Entry(p)' = Entry(p) /\ list'[Entry(p)] = list[Entry(p)]
             /\ kernel'[p.r] = kernel[p.r]
    BY <1>1, <1>2, <1>3, HashTyped DEF Entry
<1>4. Live'
    <2>1. live' \subseteq [p : Pointer, size : 0 .. MaxAlloc, align : 1 .. MaxAlign]
        BY <1>1 DEF Live
    <2>2. ASSUME NEW x \in live'
          PROVE  /\ Used(x.p)' /\ list'[Entry(x.p)'].size = x.size
                 /\ PagesOf(x.p.o, x.size) \subseteq kernel'[x.p.r].open
        <3>1. /\ Used(x.p) /\ list[Entry(x.p)].size = x.size /\ x.p \in Pointer
              /\ PagesOf(x.p.o, x.size) \subseteq kernel[x.p.r].open
            BY <1>1 DEF Live
        <3>2. /\ Entry(x.p)' = Entry(x.p) /\ list'[Entry(x.p)] = list[Entry(x.p)]
              /\ kernel'[x.p.r] = kernel[x.p.r]
            BY <1>3, <3>1, Vacant DEF Used
        <3>3. Used(x.p)'
            BY <3>1, <3>2, UsedKept DEF Entry
        <3> QED BY <3>1, <3>2, <3>3
    <2>3. \A x, y \in live' : x.p.r = y.p.r => x = y
        BY <1>1 DEF Live
    <2> QED BY <2>1, <2>2, <2>3 DEF Live
<1>5. Dead'
    <2>1. dead' \subseteq [p : Pointer, size : 0 .. MaxAlloc]
        BY <1>1 DEF Dead
    <2>2. ASSUME NEW x \in dead'
          PROVE  /\ x.p.r # 0 /\ Entry(x.p)' # 0 /\ Entry(x.p)' \notin ripe'
                 /\ list'[Entry(x.p)'].p = x.p /\ list'[Entry(x.p)'].size = x.size
                 /\ "USED" \notin list'[Entry(x.p)'].flags
                 /\ Settled(Entry(x.p))'
        <3>1. /\ x.p.r # 0 /\ Entry(x.p) # 0 /\ Entry(x.p) \notin ripe
              /\ list[Entry(x.p)].p = x.p /\ list[Entry(x.p)].size = x.size
              /\ "USED" \notin list[Entry(x.p)].flags
              /\ Settled(Entry(x.p)) /\ x.p \in Pointer
            BY <1>1 DEF Dead
        <3>2. /\ Entry(x.p)' = Entry(x.p) /\ list'[Entry(x.p)] = list[Entry(x.p)]
              /\ kernel'[x.p.r] = kernel[x.p.r]
            BY <1>3, <3>1, Vacant
        <3>3. Settled(Entry(x.p))'
            BY <3>1, <3>2 DEF Settled, Entry, Start, Outer
        <3> QED BY <3>1, <3>2, <3>3
    <2> QED BY <2>1, <2>2 DEF Dead
<1>6. ASSUME NEW u \in Threads \ {t}
      PROVE  Working(u)' /\ Releasing(u)' /\ Handler(u)'
    <2>1. ASSUME pc[u] \in Freeing
          PROVE  /\ htable'[Hash[ptr[u].r]] = htable[Hash[ptr[u].r]]
                 /\ list'[Entry(ptr[u])] = list[Entry(ptr[u])]
                 /\ kernel'[ptr[u].r].len = kernel[ptr[u].r].len
        <3>1. ptr[u] \in Pointer /\ ptr[u].r # 0
            BY <1>1, <2>1 DEF Calls, Releasing, Used, Typed
        <3>2. Entry(ptr[u]) \notin {0, lslot[t]}
            BY <2>1, Vacant
        <3>3. PICK p \in Pointer : p = ptr[u]
            BY <3>1
        <3>4. htable'[Hash[p.r]] = htable[Hash[p.r]]
            BY <1>3, <3>1, <3>2, <3>3 DEF Entry
        <3> QED BY <1>3, <3>1, <3>2, <3>3, <3>4
    <2> QED BY <2>1, Bystanders, Labels
<1> QED BY <1>4, <1>5, <1>6

\* The three parts of the tables, for one slot, one hash and one region.
SlotOK(l) ==
    /\ list[l].p # Null => list[l].p.r # 0
    /\ Settled(l) \/ \E t \in Threads : Between(t) /\ lslot[t] = l
HashOK(h) ==
    htable[h] # 0 =>
       LET p == list[htable[h]].p IN
         \/ p # Null /\ Hash[p.r] = h
         \/ \E t \in Threads : pc[t] = "m_p" /\ Hash[ptr[t].r] = h
RegionOK(r) ==
    kernel[r].len # 0 =>
       \/ \E l \in Slots : list[l].p.r = r
       \/ \E t \in Threads : pc[t] \in {"m_unmap", "m_hash", "m_p"} /\ ptr[t].r = r

\* What the tables say while t changes them.
LEMMA Holding ==
    ASSUME IInv, fault = "none", NEW t \in Threads, pc[t] \in Allocating
    PROVE  /\ \A l \in Slots : l # lslot[t] \/ ~ Between(t) => Settled(l)
           /\ \A h \in DOMAIN htable : htable[h] # 0 =>
                LET p == list[htable[h]].p IN
                  \/ p # Null /\ Hash[p.r] = h
                  \/ pc[t] = "m_p" /\ Hash[ptr[t].r] = h
           /\ \A r \in Regions : kernel[r].len # 0 =>
                \/ \E l \in Slots : list[l].p.r = r
                \/ pc[t] \in {"m_unmap", "m_hash", "m_p"} /\ ptr[t].r = r
<1>1. SlotsSettled /\ HashSettled /\ RegionsSettled /\ Typed /\ LockInv
    BY DEF IInv, Tables
<1>2. \A u \in Threads \ {t} : pc[u] \notin Updating
    BY <1>1, Alone, Labels
<1>3. \A u \in Threads \ {t} : ~ Between(u) /\ pc[u] \notin {"m_unmap", "m_hash", "m_p"}
    BY <1>2 DEF Between, Updating
<1>4. \A l \in Slots : l # lslot[t] \/ ~ Between(t) => Settled(l)
    BY <1>1, <1>3 DEF SlotsSettled
<1>5. ASSUME NEW h \in DOMAIN htable, htable[h] # 0
      PROVE  LET p == list[htable[h]].p IN
                  \/ p # Null /\ Hash[p.r] = h
                  \/ pc[t] = "m_p" /\ Hash[ptr[t].r] = h
    BY <1>1, <1>3, <1>5 DEF HashSettled
<1>6. ASSUME NEW r \in Regions, kernel[r].len # 0
      PROVE  \/ \E l \in Slots : list[l].p.r = r
             \/ pc[t] \in {"m_unmap", "m_hash", "m_p"} /\ ptr[t].r = r
    BY <1>1, <1>3, <1>6 DEF RegionsSettled
<1> QED BY <1>4, <1>5, <1>6

\* What is left to show of a step of malloc().
LEMMA StoresStep ==
    ASSUME IInv, fault = "none", NEW t \in Threads, Stores(t),
           Typed', Working(t)', Apart', SlotOK(lslot[t])',
           \A h \in DOMAIN htable : htable[h] \in {0, lslot[t]} => HashOK(h)',
           \A r \in Regions : RegionOK(r)'
    PROVE  IInv'
<1> USE DEF Stores
<1>1. /\ Typed /\ LockInv /\ SlotsSettled /\ Handler(t) /\ lslot[t] \in Slots
    BY DEF IInv, Tables, Calls, Typed
<1>2. DOMAIN htable = 0 .. HtableSize - 1 /\ DOMAIN htable' = 0 .. HtableSize - 1
    BY <1>1 DEF Typed
<1>3. /\ pc[t] \in Updating /\ pc'[t] \in Updating
      /\ pc[t] \notin Handling /\ pc'[t] \notin Handling
      /\ pc'[t] \notin Freeing /\ pc'[t] # "f_protect"
    BY Labels DEF Allocating
<1>4. ~ locked[t] /\ ret[t] # 1
    BY <1>1, <1>3 DEF Handler, Handling
<1>5. LockInv'
    BY <1>1, <1>3 DEF LockInv, Others
<1>6. Releasing(t)' /\ Handler(t)'
    BY <1>3, <1>4 DEF Releasing, Handler
<1>7. SlotsSettled'
    <2>1. ASSUME NEW l \in Slots, l # lslot[t]
          PROVE  SlotOK(l)'
        <3>1. Settled(l) /\ list'[l] = list[l]
            BY <2>1, Holding
        <3>2. list[l].p # Null => list[l].p.r # 0
            BY <1>1 DEF SlotsSettled
        <3>3. ASSUME list[l].p # Null
              PROVE  /\ htable'[Hash[list[l].p.r]] = htable[Hash[list[l].p.r]]
                     /\ kernel'[list[l].p.r].len = kernel[list[l].p.r].len
            <4>1. PICK p \in Pointer : p = list[l].p
                BY <1>1, MappingTyped
            <4>2. p.r # 0 /\ Entry(p) = l /\ l # 0
                BY <3>1, <3>2, <3>3, <4>1 DEF Settled, Entry
            <4>3. p.r \in Regions /\ Hash[p.r] \in DOMAIN htable
                BY <1>1, <1>2, <4>2, HashTyped
            <4>4. htable[Hash[p.r]] \notin {0, lslot[t]}
                BY <2>1, <4>2 DEF Entry
            <4>5. htable'[Hash[p.r]] = htable[Hash[p.r]] /\ kernel'[p.r] = kernel[p.r]
                BY <4>3, <4>4
            <4> QED BY <4>1, <4>5
        <3>4. Settled(l)'
            BY <3>1, <3>3, SettledKept
        <3> QED BY <3>1, <3>2, <3>4 DEF SlotOK
    <2>2. ASSUME NEW l \in Slots, l = lslot[t]
          PROVE  SlotOK(l)'
        <3>1. lslot'[t] = l
            BY <2>2
        <3> QED BY ONLY SlotOK(lslot[t])', <3>1 DEF SlotOK, Settled, Entry
    <2>3. \A l \in Slots : SlotOK(l)'
        BY ONLY <2>1, <2>2
    <2> QED BY <2>3 DEF SlotsSettled, SlotOK
<1>8. HashSettled'
    <2>1. ASSUME NEW h \in DOMAIN htable, htable[h] \notin {0, lslot[t]}
          PROVE  HashOK(h)'
        <3>1. htable'[h] = htable[h] /\ htable[h] \in Slots
            BY <1>1, <1>2, <2>1 DEF Typed
        <3>2. list'[htable[h]] = list[htable[h]]
            BY <2>1, <3>1
        <3>3. ~ (pc[t] = "m_p" /\ Hash[ptr[t].r] = h)
            <4>1. pc[t] = "m_p" => Entry(ptr[t]) = lslot[t]
                BY DEF IInv, Calls, Working, Mapped, Making
            <4> QED BY <2>1, <4>1 DEF Entry
        <3>4. list[htable[h]].p # Null /\ Hash[list[htable[h]].p.r] = h
            BY <2>1, <3>3, Holding
        <3> QED BY <3>1, <3>2, <3>4 DEF HashOK
    <2>2. \A h \in DOMAIN htable : HashOK(h)'
        BY <2>1
    <2> QED BY <1>2, <2>2 DEF HashSettled, HashOK
<1>9. RegionsSettled'
    BY DEF RegionsSettled, RegionOK
<1>10. Live' /\ Dead' /\ \A u \in Threads \ {t} : Working(u)' /\ Releasing(u)' /\ Handler(u)'
    BY StoresObjects
<1> QED BY <1>5, <1>6, <1>7, <1>8, <1>9, <1>10 DEF IInv, Tables, Objects, Calls

LEMMA UnhashStep ==
    ASSUME IInv, NEW t \in Threads, Unhash(t)
    PROVE  IInv'
<1> USE DEF Unhash, At, Goto, tables, time
<1>1. /\ Typed /\ Apart /\ SlotsSettled /\ fault = "none" /\ pc[t] = "m_unhash" /\ Working(t)
    BY DEF IInv, Tables, Objects, Calls
<1>2. {"m_unhash", "m_forget"} \subseteq Allocating \ Making
    BY DEF Allocating, Making
<1>3. PICK l \in Slots : l = lslot[t]
    BY <1>1 DEF Typed
<1>4. l # 0 /\ l \in ripe /\ "USED" \notin list[l].flags /\ list[l].p # Null
    BY <1>1, <1>2, <1>3 DEF Working
<1>5. PICK p \in Pointer : p = list[l].p
    BY <1>1, MappingTyped
<1>6. p.r # 0
    BY <1>1, <1>4, <1>5 DEF SlotsSettled
<1>7. p.r \in Regions /\ Hash[p.r] \in DOMAIN htable
    BY <1>1, <1>6, HashTyped DEF Typed
<1>8. Settled(l)
    BY <1>1, <1>2, <1>3, Holding DEF Between
<1>9. htable[Hash[p.r]] = l /\ Start(list[l]) = MaxAlign
    BY <1>4, <1>5, <1>8 DEF Settled, Entry
<1>10. /\ pc' \in [Threads -> Locations] /\ pc'[t] = "m_forget"
       /\ ptr' \in [Threads -> Pointer] /\ ptr'[t].r = p.r
       /\ htable' = [htable EXCEPT ![Hash[p.r]] = 0] /\ Others(t)
    <2>1. [r |-> p.r, o |-> MaxAlign] \in Pointer
        BY <1>7, Layout DEF Pointer
    <2>2. ptr' = [ptr EXCEPT ![t] = [r |-> p.r, o |-> MaxAlign]]
        BY <1>3, <1>5, <1>9
    <2>3. "m_forget" \in Locations
        BY <1>2, Labels
    <2> QED BY <1>1, <1>3, <1>5, <2>1, <2>2, <2>3 DEF Typed, Others
<1>11. Typed'
    BY <1>1, <1>7, <1>10, Layout DEF Typed
<1>12. Stores(t)
    BY <1>1, <1>2, <1>3, <1>9, <1>10 DEF Stores, Typed
<1>13. Working(t)'
    BY <1>1, <1>2, <1>3, <1>4, <1>5, <1>6, <1>7, <1>10 DEF Working, Entry, Typed
<1>14. Apart'
    <2>1. pc'[t] \notin Freeing \union Making
        BY <1>2, <1>10, Labels
    <2> QED BY <1>1, <1>10, <2>1, ApartKept
<1>15. SlotOK(l)'
    BY <1>3, <1>4, <1>5, <1>6, <1>10 DEF SlotOK, Between
<1>16. ASSUME NEW h \in DOMAIN htable, htable[h] \in {0, l} PROVE HashOK(h)'
    <2>1. CASE h = Hash[p.r]
        BY <1>1, <1>10, <2>1 DEF HashOK, Typed
    <2>2. CASE h # Hash[p.r]
        <3>1. htable[h] = 0
            BY <1>1, <1>2, <1>5, <1>16, <2>2, Holding
        <3>2. htable'[h] = 0
            BY <1>1, <1>10, <2>2, <3>1 DEF Typed
        <3> QED BY ONLY <3>2 DEF HashOK
    <2> QED BY ONLY <2>1, <2>2
<1>17. ASSUME NEW r \in Regions PROVE RegionOK(r)'
    <2> SUFFICES ASSUME kernel[r].len # 0 PROVE \E k \in Slots : list[k].p.r = r
        BY DEF RegionOK
    <2> HIDE DEF Unhash
    <2> QED BY <1>1, <1>2, Holding
<1>18. SlotOK(lslot[t])'
    BY <1>3, <1>15 DEF SlotOK, Settled, Entry
<1>19. \A h \in DOMAIN htable : htable[h] \in {0, lslot[t]} => HashOK(h)'
    BY <1>3, <1>16
<1> QED BY ONLY IInv, <1>1, <1>11, <1>12, <1>13, <1>14, <1>17, <1>18, <1>19, StoresStep

LEMMA ForgetStep ==
    ASSUME IInv, NEW t \in Threads, Forget(t)
    PROVE  IInv'
<1> USE DEF Forget, At, Goto, tables, time, locals
<1>1. /\ Typed /\ Apart /\ SlotsSettled /\ fault = "none" /\ pc[t] = "m_forget" /\ Working(t)
    BY DEF IInv, Tables, Objects, Calls
<1>2. {"m_forget", "m_unmap"} \subseteq Allocating \ Making
    BY DEF Allocating, Making
<1>3. PICK l \in Slots : l = lslot[t]
    BY <1>1 DEF Typed
<1>4. /\ l # 0 /\ l \in ripe /\ "USED" \notin list[l].flags /\ list[l].p # Null
      /\ ptr[t].r = list[l].p.r /\ ptr[t].r # 0 /\ Entry(ptr[t]) = 0
    BY <1>1, <1>2, <1>3 DEF Working
<1>5. list[l] \in Mapping
    BY <1>1, MappingTyped
<1>6. list' = [list EXCEPT ![l] = [list[l] EXCEPT !.p = Null]]
    BY <1>1, <1>3 DEF Typed
<1>7. /\ list' \in [Slots -> Mapping] /\ list'[l].p = Null /\ list'[l].flags = list[l].flags
      /\ \A k \in Slots : k # l => list'[k] = list[k]
    <2>1. PICK m : m = [list[l] EXCEPT !.p = Null]
        OBVIOUS
    <2>2. m \in Mapping /\ m.p = Null /\ m.flags = list[l].flags
        BY <1>5, <2>1, Layout DEF Mapping
    <2>3. list' = [list EXCEPT ![l] = m]
        BY <1>6, <2>1
    <2> QED BY ONLY <1>1, <1>3, <2>2, <2>3, ListChanged
<1>8. pc' \in [Threads -> Locations] /\ pc'[t] = "m_unmap" /\ Others(t)
    BY <1>1, <1>2, Labels DEF Typed, Others
<1>9. Typed'
    BY <1>1, <1>7, <1>8 DEF Typed
<1>10. Stores(t)
    BY <1>1, <1>2, <1>3, <1>7, <1>8 DEF Stores
<1>11. Working(t)'
    BY <1>2, <1>3, <1>4, <1>7, <1>8 DEF Working, Entry
<1>12. Apart'
    <2>1. pc'[t] \notin Freeing \union Making
        BY <1>2, <1>8, Labels
    <2> QED BY <1>1, <1>8, <2>1, ApartKept
<1>13. SlotOK(l)'
    BY <1>7 DEF SlotOK, Settled
<1>14. ASSUME NEW h \in DOMAIN htable, htable[h] \in {0, l} PROVE HashOK(h)'
    <2>1. htable[h] = 0
        <3> SUFFICES ASSUME htable[h] = l PROVE FALSE
            BY <1>14
        <3>1. Hash[list[l].p.r] = h
            BY <1>1, <1>2, <1>4, Holding
        <3> QED BY <1>4, <3>1 DEF Entry
    <2> QED BY <2>1 DEF HashOK
<1>15. ASSUME NEW r \in Regions PROVE RegionOK(r)'
    <2> SUFFICES ASSUME kernel[r].len # 0
                 PROVE  (\E k \in Slots : list'[k].p.r = r) \/ ptr[t].r = r
        BY <1>8 DEF RegionOK
    <2>1. PICK k \in Slots : list[k].p.r = r
        BY <1>1, <1>2, Holding
    <2> QED BY <1>4, <1>7, <2>1
<1>16. SlotOK(lslot[t])'
    BY <1>3, <1>13 DEF SlotOK, Settled, Entry
<1>17. \A h \in DOMAIN htable : htable[h] \in {0, lslot[t]} => HashOK(h)'
    BY <1>3, <1>14
<1> QED BY ONLY IInv, <1>1, <1>9, <1>10, <1>11, <1>12, <1>15, <1>16, <1>17, StoresStep

LEMMA UnmapStep ==
    ASSUME IInv, NEW t \in Threads, Unmap(t)
    PROVE  IInv'
<1> USE DEF Unmap, At, Goto, tables, time
<1>1. /\ Typed /\ Apart /\ SlotsSettled /\ fault = "none" /\ pc[t] = "m_unmap" /\ Working(t)
    BY DEF IInv, Tables, Objects, Calls
<1>2. {"m_unmap", "m_budget"} \subseteq Allocating \ Making
    BY DEF Allocating, Making
<1>3. PICK l \in Slots : l = lslot[t]
    BY <1>1 DEF Typed
<1>4. /\ l # 0 /\ l \in ripe /\ "USED" \notin list[l].flags /\ list[l].p = Null
      /\ ptr[t].r # 0 /\ Entry(ptr[t]) = 0
    BY <1>1, <1>2, <1>3 DEF Working
<1>5. PICK r \in Regions : r = ptr[t].r
    BY <1>1, <1>4, HashTyped DEF Typed
<1>6. /\ kernel' \in [Regions -> [len : 0 .. MaxAlloc, open : SUBSET Pages]]
      /\ kernel'[r].len = 0 /\ \A q \in Regions : q # r => kernel'[q] = kernel[q]
    <2>1. Unmapped \in [len : 0 .. MaxAlloc, open : SUBSET Pages] /\ Unmapped.len = 0
        BY Layout DEF Unmapped
    <2> QED BY <1>1, <1>5, <2>1 DEF Typed
<1>7. /\ pc' \in [Threads -> Locations] /\ pc'[t] = "m_budget" /\ Others(t)
      /\ ptr' \in [Threads -> Pointer]
    BY <1>1, <1>2, Labels, Layout DEF Typed, Others
<1>8. Typed'
    BY <1>1, <1>6, <1>7 DEF Typed
<1>9. Stores(t)
    <2>1. htable[Hash[r]] = 0
        BY <1>4, <1>5 DEF Entry
    <2> QED BY <1>1, <1>2, <1>3, <1>6, <1>7, <2>1 DEF Stores
<1>10. Working(t)'
    BY <1>2, <1>3, <1>4, <1>7 DEF Working
<1>11. Apart'
    <2>1. pc'[t] \notin Freeing \union Making
        BY <1>2, <1>7, Labels
    <2> QED BY <1>1, <1>7, <2>1, ApartKept
<1>12. SlotOK(l)'
    BY <1>4 DEF SlotOK, Settled
<1>13. ASSUME NEW h \in DOMAIN htable, htable[h] \in {0, l} PROVE HashOK(h)'
    BY <1>1, <1>2, <1>4, <1>13, Holding DEF HashOK
<1>14. ASSUME NEW q \in Regions PROVE RegionOK(q)'
    <2>1. CASE q = r
        BY <1>6, <2>1 DEF RegionOK
    <2>2. CASE q # r
        BY <1>1, <1>2, <1>5, <1>6, <2>2, Holding DEF RegionOK
    <2> QED BY <2>1, <2>2
<1>15. SlotOK(lslot[t])'
    BY <1>3, <1>12 DEF SlotOK, Settled, Entry
<1>16. \A h \in DOMAIN htable : htable[h] \in {0, lslot[t]} => HashOK(h)'
    BY <1>3, <1>13
<1> QED BY ONLY IInv, <1>1, <1>8, <1>9, <1>10, <1>11, <1>14, <1>15, <1>16, StoresStep

LEMMA MapStep ==
    ASSUME IInv, NEW t \in Threads, Map(t)
    PROVE  IInv'
<1>1. /\ Typed /\ LockInv /\ Live /\ Apart /\ Calls /\ fault = "none" /\ pc[t] = "m_map" /\ Working(t)
    BY DEF IInv, Tables, Objects, Calls, Map, At
<1>2. /\ {"m_map", "m_hash"} \subseteq Allocating /\ "m_hash" \in Making
      /\ "m_map" \in Updating \ (Halfway \union Making \union Freeing)
      /\ "m_hash" \notin Freeing
    BY DEF Allocating, Making, Updating, Halfway, Freeing
<1>3. PICK l \in Slots : l = lslot[t]
    BY <1>1 DEF Typed
<1>4. l # 0 /\ l \in ripe /\ "USED" \notin list[l].flags /\ list[l].p = Null
    BY <1>1, <1>2, <1>3 DEF Working
<1>5. CASE Out(t) /\ UNCHANGED <<kernel, fault>>
    BY <1>1, <1>2, <1>5, OutStep DEF Map, time
<1>6. CASE arg[t].size = 0 /\ fault' = "mmap failed"
             /\ UNCHANGED <<kernel, ptr, pc, lock, arg, lslot, flags, locked, ret>>
    <2>1. UNCHANGED <<tables, time, live, faults>>
        BY DEF Map
    <2>2. Typed' /\ LockInv'
        BY <1>1, <1>6, <2>1 DEF Typed, LockInv, tables, time
    <2> QED BY <1>6, <2>2 DEF IInv
<1>7. ASSUME NEW r \in Regions, htable[Hash[r]] = 0, arg[t].size # 0,
             UNCHANGED <<fault, lock, arg, lslot, flags, locked, ret>>,
             Goto(t, "m_hash"), ptr' = [ptr EXCEPT ![t] = [r |-> r, o |-> MaxAlign]],
             LET outer == AlignUp(arg[t].size) IN
               kernel' = [kernel EXCEPT ![r] =
                            [len |-> outer, open |-> PagesOf(MaxAlign, outer)]]
      PROVE  IInv'
    <2> USE DEF Goto, tables, time
    <2>1. UNCHANGED <<tables, time, live, faults>>
        BY DEF Map
    <2>2. PICK outer : outer = AlignUp(arg[t].size)
        OBVIOUS
    <2>3. outer \in 0 .. MaxAlloc
        BY <1>1, <2>2, Alignment DEF Typed
    <2>4. /\ kernel' \in [Regions -> [len : 0 .. MaxAlloc, open : SUBSET Pages]]
          /\ kernel'[r].len = outer /\ kernel'[r].open = PagesOf(MaxAlign, outer)
          /\ \A q \in Regions : q # r => kernel'[q] = kernel[q]
        <3>1. PICK open : open = PagesOf(MaxAlign, outer)
            OBVIOUS
        <3>2. open \in SUBSET Pages
            BY <3>1, PagesTyped
        <3>3. kernel' = [kernel EXCEPT ![r] = [len |-> outer, open |-> open]]
            BY <1>7, <2>2, <3>1
        <3> QED BY <1>1, <2>3, <3>1, <3>2, <3>3 DEF Typed
    <2>5. /\ pc' \in [Threads -> Locations] /\ pc'[t] = "m_hash" /\ Others(t)
          /\ ptr' \in [Threads -> Pointer] /\ ptr'[t].r = r /\ ptr'[t].o = MaxAlign
        <3>1. [r |-> r, o |-> MaxAlign] \in Pointer
            BY Layout DEF Pointer
        <3>2. "m_hash" \in Locations
            BY <1>2, Labels
        <3> QED BY <1>1, <1>7, <3>1, <3>2 DEF Typed, Others
    <2>6. Typed'
        BY <1>1, <1>7, <2>1, <2>4, <2>5 DEF Typed
    <2>7. Stores(t)
        BY <1>1, <1>2, <1>3, <1>7, <2>1, <2>4, <2>5 DEF Stores
    <2>8. Working(t)'
        <3>1. Mapped(t)'
            BY <1>7, <2>1, <2>2, <2>4, <2>5, Regional DEF Mapped, Entry
        <3> QED BY <1>2, <1>3, <1>4, <1>7, <2>1, <2>5, <3>1 DEF Working
    <2>9. Apart'
        <3>1. ASSUME NEW p, p.r = r PROVE Entry(p) = 0
            BY <1>7, <3>1 DEF Entry
        <3>2. ASSUME NEW x \in live', NEW u \in Threads, pc'[u] \in Freeing \union Making
              PROVE  x.p.r # ptr'[u].r
            <4>1. x \in live /\ Entry(x.p) # 0
                BY <1>1, <2>1, <3>2 DEF Live, Used
            <4>2. CASE u = t
                BY <2>5, <3>1, <4>1, <4>2
            <4>3. CASE u # t
                BY <1>1, <2>5, <3>2, <4>1, <4>3 DEF Apart, Others
            <4> QED BY <4>2, <4>3
        <3>3. ASSUME NEW u \in Threads, NEW w \in Threads, u # w, pc'[u] \in Freeing,
                     pc'[w] \in Freeing \union Making
              PROVE  ptr'[u].r # ptr'[w].r
            <4>1. u # t /\ pc[u] \in Freeing /\ ptr'[u] = ptr[u]
                BY <1>2, <2>5, <3>3 DEF Others
            <4>2. Entry(ptr[u]) # 0
                BY <1>1, <4>1 DEF Calls, Releasing, Used
            <4>3. CASE w = t
                BY <2>5, <3>1, <4>1, <4>2, <4>3
            <4>4. CASE w # t
                BY <1>1, <2>5, <3>3, <4>1, <4>4 DEF Apart, Others
            <4> QED BY <4>3, <4>4
        <3> QED BY <3>2, <3>3 DEF Apart
    <2>10. SlotOK(l)'
        BY <1>4, <2>1 DEF SlotOK, Settled
    <2>11. ASSUME NEW h \in DOMAIN htable, htable[h] \in {0, l} PROVE HashOK(h)'
        BY <1>1, <1>2, <1>4, <2>1, <2>11, Holding DEF HashOK
    <2>12. ASSUME NEW q \in Regions PROVE RegionOK(q)'
        <3>1. CASE q = r
            BY <2>5, <3>1 DEF RegionOK
        <3>2. CASE q # r
            BY <1>1, <1>2, <2>1, <2>4, <3>2, Holding DEF RegionOK
        <3> QED BY <3>1, <3>2
    <2>13. SlotOK(lslot[t])'
        BY <1>3, <1>7, <2>10 DEF SlotOK, Settled, Entry
    <2>14. \A h \in DOMAIN htable : htable[h] \in {0, lslot[t]} => HashOK(h)'
        BY <1>3, <2>11
    <2> QED BY ONLY IInv, <1>1, <2>6, <2>7, <2>8, <2>9, <2>12, <2>13, <2>14, StoresStep
<1>8. ASSUME NEW r \in Regions, htable[Hash[r]] = 0,
             UNCHANGED <<lock, arg, lslot, flags, locked, ret>>,
             IF arg[t].size = 0
               THEN fault' = "mmap failed" /\ UNCHANGED <<kernel, ptr, pc>>
               ELSE LET outer == AlignUp(arg[t].size) IN
                    /\ kernel[r].len = 0
                    /\ kernel' = [kernel EXCEPT ![r] =
                         [len |-> outer, open |-> PagesOf(MaxAlign, outer)]]
                    /\ ptr' = [ptr EXCEPT ![t] = [r |-> r, o |-> MaxAlign]]
                    /\ Goto(t, "m_hash")
                    /\ UNCHANGED fault
      PROVE  IInv'
    BY <1>6, <1>7, <1>8
<1> QED BY <1>5, <1>8 DEF Map

LEMMA EnterHashStep ==
    ASSUME IInv, NEW t \in Threads, EnterHash(t)
    PROVE  IInv'
<1> USE DEF EnterHash, At, Goto, tables, time, locals
<1>1. /\ Typed /\ Apart /\ fault = "none" /\ pc[t] = "m_hash" /\ Working(t)
    BY DEF IInv, Objects, Calls
<1>2. {"m_hash", "m_p"} \subseteq Making \ {"m_shift", "m_frontpad", "m_return"}
    BY DEF Making
<1>3. PICK l \in Slots : l = lslot[t]
    BY <1>1 DEF Typed
<1>4. /\ l # 0 /\ l \in ripe /\ "USED" \notin list[l].flags /\ list[l].p = Null /\ Mapped(t)
    BY <1>1, <1>2, <1>3, Labels DEF Working
<1>5. PICK g \in DOMAIN htable : g = Hash[ptr[t].r]
    BY <1>1, <1>4, HashTyped DEF Mapped, Typed
<1>6. htable[g] = 0
    BY <1>1, <1>4, <1>5 DEF Mapped, Entry
<1>7. htable' = [htable EXCEPT ![g] = l]
    BY <1>3, <1>5
<1>8. /\ htable' \in [0 .. HtableSize - 1 -> Slots] /\ htable'[g] = l
      /\ \A h \in DOMAIN htable : h # g => htable'[h] = htable[h]
    BY <1>1, <1>3, <1>5, <1>7 DEF Typed
<1>9. pc' \in [Threads -> Locations] /\ pc'[t] = "m_p" /\ Others(t)
    BY <1>1, <1>2, Labels DEF Typed, Others
<1>10. Typed'
    BY <1>1, <1>8, <1>9 DEF Typed
<1>11. Stores(t)
    BY <1>1, <1>2, <1>3, <1>6, <1>8, <1>9, Labels DEF Stores
<1>12. Working(t)'
    <2>1. Mapped(t)'
        BY <1>1, <1>3, <1>4, <1>5, <1>8, <1>9 DEF Mapped, Entry
    <2> QED BY <1>2, <1>3, <1>4, <1>9, <2>1 DEF Working
<1>13. Apart'
    BY <1>1, <1>2, <1>9, ApartKept, Labels
<1>14. SlotOK(l)'
    BY <1>4 DEF SlotOK, Settled
<1>15. ASSUME NEW h \in DOMAIN htable, htable[h] \in {0, l} PROVE HashOK(h)'
    <2>1. CASE h = g
        BY <1>5, <1>9, <2>1 DEF HashOK
    <2>2. CASE h # g
        BY <1>1, <1>2, <1>4, <1>8, <1>15, <2>2, Holding, Labels DEF HashOK
    <2> QED BY <2>1, <2>2
<1>16. \A r \in Regions : RegionOK(r)'
    BY <1>1, <1>2, <1>9, Holding, Labels DEF RegionOK
<1>17. SlotOK(lslot[t])'
    BY <1>3, <1>14 DEF SlotOK, Settled, Entry
<1>18. \A h \in DOMAIN htable : htable[h] \in {0, lslot[t]} => HashOK(h)'
    BY <1>3, <1>15
<1> QED BY ONLY IInv, <1>1, <1>10, <1>11, <1>12, <1>13, <1>16, <1>17, <1>18, StoresStep

LEMMA SetPStep ==
    ASSUME IInv, NEW t \in Threads, SetP(t)
    PROVE  IInv'
<1> USE DEF SetP, At, Goto, tables, time, locals
<1>1. /\ Typed /\ Apart /\ fault = "none" /\ pc[t] = "m_p" /\ Working(t)
    BY DEF IInv, Objects, Calls
<1>2. {"m_p", "m_size"} \subseteq Making \ {"m_shift", "m_frontpad", "m_return"}
    BY DEF Making
<1>3. PICK l \in Slots : l = lslot[t]
    BY <1>1 DEF Typed
<1>4. /\ l # 0 /\ l \in ripe /\ "USED" \notin list[l].flags /\ list[l].p = Null /\ Mapped(t)
    BY <1>1, <1>2, <1>3, Labels DEF Working
<1>5. ptr[t] \in Pointer /\ ptr[t].r # 0 /\ ptr[t] # Null
    BY <1>1, <1>4 DEF Mapped, Typed, Null
<1>6. /\ list' \in [Slots -> Mapping] /\ list'[l].p = ptr[t] /\ list'[l].flags = list[l].flags
      /\ \A k \in Slots : k # l => list'[k] = list[k]
    <2>1. PICK m : m = [list[l] EXCEPT !.p = ptr[t]]
        OBVIOUS
    <2>2. list[l] \in Mapping
        BY <1>1, MappingTyped
    <2>3. m \in Mapping /\ m.p = ptr[t] /\ m.flags = list[l].flags
        BY <1>5, <2>1, <2>2 DEF Mapping
    <2>4. list' = [list EXCEPT ![l] = m]
        BY <1>1, <1>3, <2>1 DEF Typed
    <2> QED BY ONLY <1>1, <1>3, <2>3, <2>4, ListChanged
<1>7. pc' \in [Threads -> Locations] /\ pc'[t] = "m_size" /\ Others(t)
    BY <1>1, <1>2, Labels DEF Typed, Others
<1>8. Typed'
    BY <1>1, <1>6, <1>7 DEF Typed
<1>9. Stores(t)
    BY <1>1, <1>2, <1>3, <1>6, <1>7, Labels DEF Stores
<1>10. Working(t)'
    <2>1. Mapped(t)'
        BY <1>1, <1>4, <1>7 DEF Mapped, Entry
    <2> QED BY <1>2, <1>3, <1>4, <1>6, <1>7, <2>1 DEF Working
<1>11. Apart'
    BY <1>1, <1>2, <1>7, ApartKept, Labels
<1>12. SlotOK(lslot[t])'
    BY <1>3, <1>5, <1>6, <1>7 DEF SlotOK, Between
<1>13. ASSUME NEW h \in DOMAIN htable, htable[h] \in {0, lslot[t]} PROVE HashOK(h)'
    BY <1>1, <1>2, <1>3, <1>4, <1>5, <1>6, <1>13, Holding, Labels DEF HashOK
<1>14. ASSUME NEW r \in Regions PROVE RegionOK(r)'
    <2> SUFFICES ASSUME kernel[r].len # 0
                 PROVE  \E k \in Slots : list'[k].p.r = r
        BY DEF RegionOK
    <2>1. CASE ptr[t].r = r
        BY <1>3, <1>6, <2>1
    <2>2. ASSUME NEW k \in Slots, list[k].p.r = r PROVE list'[k].p.r = r
        <3>1. r # 0 /\ list[l].p.r = 0
            BY <1>4, Regional DEF Null
        <3>2. k # l
            BY <2>2, <3>1
        <3>3. list'[k] = list[k]
            BY <1>6, <3>2
        <3> QED BY <2>2, <3>3
    <2> QED BY <1>1, <1>2, <2>1, <2>2, Holding, Labels
<1> QED BY ONLY IInv, <1>1, <1>8, <1>9, <1>10, <1>11, <1>12, <1>13, <1>14, StoresStep

\* The steps that fill in a slot whose region is in the tables.
LEMMA DescribeStep ==
    ASSUME IInv, fault = "none", NEW t \in Threads, NEW l \in Slots, l = lslot[t],
           pc[t] \in {"m_size", "m_flags", "m_shift", "m_frontpad"},
           NEW x \in {"m_flags", "m_shift", "m_frontpad", "m_return"}, Goto(t, x),
           NEW m \in Mapping, list' = [list EXCEPT ![l] = m],
           UNCHANGED <<lock, htable, mem_used, time, kernel, locals, live, fault>>,
           m.p.r = ptr[t].r, m.size = arg[t].size, Outer(m) = AlignUp(arg[t].size),
           x \in {"m_flags", "m_shift"} => m.p = ptr[t],
           x = "m_flags" => "USED" \notin m.flags,
           x \in {"m_shift", "m_frontpad"} => m.flags = {"USED"},
           x = "m_frontpad" => m.p.o = MaxAlign + m.pad,
           x = "m_return" => "USED" \in m.flags,
           x \in {"m_shift", "m_return"} => Start(m) = MaxAlign
    PROVE  IInv'
<1> USE DEF Goto, time, locals
<1>1. /\ Typed /\ Apart /\ Working(t)
    BY DEF IInv, Objects, Calls
<1>2. {"m_size", "m_flags", "m_shift", "m_frontpad", "m_return"} \subseteq Making
    BY DEF Making
<1>3. l # 0 /\ l \in ripe /\ Mapped(t) /\ list[l].p.r = ptr[t].r /\ m.p # Null
    BY <1>1, <1>2, Labels DEF Working, Mapped, Null
<1>4. /\ list' \in [Slots -> Mapping] /\ list'[l] = m
      /\ \A k \in Slots : k # l => list'[k] = list[k]
    BY <1>1, ListChanged
<1>5. pc' \in [Threads -> Locations] /\ pc'[t] = x /\ Others(t)
    BY <1>1, <1>2, Labels DEF Typed, Others
<1>6. Typed'
    BY <1>1, <1>4, <1>5 DEF Typed
<1>7. Stores(t)
    BY <1>1, <1>2, <1>4, <1>5, Labels DEF Stores
<1>8. Mapped(t)'
    BY <1>1, <1>3, <1>5 DEF Mapped, Entry
<1>9. Working(t)'
    BY <1>2, <1>3, <1>4, <1>5, <1>8 DEF Working, Outer
<1>10. Apart'
    BY <1>1, <1>2, <1>5, ApartKept, Labels
<1>11. SlotOK(lslot[t])'
    <2>1. m.p.r # 0 /\ lslot'[t] = l
        BY <1>3 DEF Mapped
    <2>2. CASE x \in {"m_flags", "m_frontpad"}
        BY <1>4, <1>5, <2>1, <2>2 DEF SlotOK, Between
    <2>3. CASE x \in {"m_shift", "m_return"}
        <3>1. htable'[Hash[m.p.r]] = l
            BY <1>3 DEF Mapped, Entry
        <3>2. kernel'[m.p.r].len = Outer(m) /\ Outer(m) # 0
            BY <1>1, <1>3, Alignment DEF Mapped, Typed
        <3>3. Settled(l)'
            BY <1>3, <1>4, <2>3, <3>1, <3>2 DEF Settled, Entry, Start, Outer
        <3> QED BY <1>4, <2>1, <3>3 DEF SlotOK, Settled, Entry
    <2> QED BY <2>2, <2>3
<1>12. ASSUME NEW h \in DOMAIN htable, htable[h] \in {0, lslot[t]} PROVE HashOK(h)'
    BY <1>1, <1>2, <1>3, <1>4, <1>12, Holding, Labels DEF HashOK
<1>13. ASSUME NEW r \in Regions PROVE RegionOK(r)'
    BY <1>1, <1>2, <1>3, <1>4, Holding, Labels DEF RegionOK
<1> QED BY ONLY IInv, fault = "none", <1>1, <1>6, <1>7, <1>9, <1>10, <1>11, <1>12, <1>13, StoresStep

LEMMA SetSizeStep ==
    ASSUME IInv, NEW t \in Threads, SetSize(t)
    PROVE  IInv'
<1>1. /\ Typed /\ fault = "none" /\ pc[t] = "m_size" /\ Working(t)
    BY DEF IInv, Calls, SetSize, At
<1>2. PICK l \in Slots : l = lslot[t]
    BY <1>1 DEF Typed
<1>3. list[l] \in Mapping /\ list[l].p = ptr[t] /\ "USED" \notin list[l].flags
    BY <1>1, <1>2, MappingTyped DEF Working, Allocating
<1>4. PICK size : size = arg[t].size
    OBVIOUS
<1>5. size \in 0 .. MaxAlloc /\ AlignUp(size) \in 0 .. MaxAlloc /\ AlignUp(size) - size \in 0 .. Page - 1
    BY <1>1, <1>4, Alignment DEF Typed
<1>6. PICK pad : pad = AlignUp(size) - size
    OBVIOUS
<1>7. PICK m : m = [list[l] EXCEPT !.size = size, !.pad = pad]
    OBVIOUS
<1>8. m \in Mapping /\ m.p = list[l].p /\ m.size = size /\ m.pad = pad /\ m.flags = list[l].flags
    BY <1>3, <1>5, <1>6, <1>7 DEF Mapping
<1>9. list' = [list EXCEPT ![l] = m]
    BY <1>1, <1>2, <1>4, <1>6, <1>7 DEF SetSize, Typed
<1>10. Outer(m) = AlignUp(size)
    BY <1>5, <1>6, <1>8, Layout DEF Outer
<1>11. m.p = ptr[t] /\ m.p.r = ptr[t].r /\ "USED" \notin m.flags
    BY <1>3, <1>8
<1>12. Goto(t, "m_flags") /\ UNCHANGED <<lock, htable, mem_used, time, kernel, locals, live, fault>>
    BY DEF SetSize
<1> QED BY ONLY IInv, <1>1, <1>2, <1>4, <1>8, <1>9, <1>10, <1>11, <1>12, DescribeStep

LEMMA SetFlagsStep ==
    ASSUME IInv, NEW t \in Threads, SetFlags(t)
    PROVE  IInv'
<1>1. /\ Typed /\ fault = "none" /\ pc[t] = "m_flags" /\ Working(t)
    BY DEF IInv, Calls, SetFlags, At
<1>2. PICK l \in Slots : l = lslot[t]
    BY <1>1 DEF Typed
<1>3. /\ list[l] \in Mapping /\ list[l].p = ptr[t] /\ ptr[t].o = MaxAlign
      /\ list[l].size = arg[t].size /\ Outer(list[l]) = AlignUp(arg[t].size)
    BY <1>1, <1>2, MappingTyped DEF Working, Mapped, Making
<1>4. PICK m : m = [list[l] EXCEPT !.flags = {"USED"}]
    OBVIOUS
<1>5. /\ m \in Mapping /\ m.p = list[l].p /\ m.size = list[l].size /\ m.pad = list[l].pad
      /\ m.flags = {"USED"}
    BY <1>3, <1>4 DEF Mapping, Flags
<1>6. list' = [list EXCEPT ![l] = m]
    BY <1>1, <1>2, <1>4 DEF SetFlags, Typed
<1>7. Outer(m) = AlignUp(arg[t].size) /\ Start(m) = MaxAlign
    BY <1>3, <1>5 DEF Outer, Start
<1>8. m.p = ptr[t] /\ m.p.r = ptr[t].r /\ m.size = arg[t].size
    BY <1>3, <1>5
<1>9. UNCHANGED <<lock, htable, mem_used, time, kernel, locals, live, fault>>
    BY DEF SetFlags
<1>10. PICK x \in {"m_shift", "m_return"} : Goto(t, x)
    BY DEF SetFlags
<1> QED BY ONLY IInv, <1>1, <1>2, <1>5, <1>6, <1>7, <1>8, <1>9, <1>10, DescribeStep

LEMMA ShiftStep ==
    ASSUME IInv, NEW t \in Threads, Shift(t)
    PROVE  IInv'
<1>1. /\ Typed /\ fault = "none" /\ pc[t] = "m_shift" /\ Working(t)
    BY DEF IInv, Calls, Shift, At
<1>2. PICK l \in Slots : l = lslot[t]
    BY <1>1 DEF Typed
<1>3. /\ list[l] \in Mapping /\ list[l].p = ptr[t] /\ ptr[t].o = MaxAlign
      /\ list[l].size = arg[t].size /\ Outer(list[l]) = AlignUp(arg[t].size)
      /\ list[l].flags = {"USED"} /\ list[l].pad \in 0 .. Page - 1 /\ ptr[t] \in Pointer
    BY <1>1, <1>2, MappingTyped DEF Working, Mapped, Making, Typed
<1>4. PICK o : o = MaxAlign + list[l].pad
    OBVIOUS
<1>5. o \in 0 .. 2 * MaxAlign - 1
    BY <1>3, <1>4, Layout
<1>6. PICK p : p = [list[l].p EXCEPT !.o = o]
    OBVIOUS
<1>7. p \in Pointer /\ p.r = ptr[t].r /\ p.o = o
    BY <1>3, <1>5, <1>6 DEF Pointer
<1>8. PICK m : m = [list[l] EXCEPT !.p = p]
    OBVIOUS
<1>9. /\ m \in Mapping /\ m.p = p /\ m.size = list[l].size /\ m.pad = list[l].pad
      /\ m.flags = {"USED"}
    BY <1>3, <1>7, <1>8 DEF Mapping
<1>10. list' = [list EXCEPT ![l] = m]
    BY <1>1, <1>2, <1>3, <1>4, <1>6, <1>8 DEF Shift, Typed
<1>11. Outer(m) = AlignUp(arg[t].size) /\ m.size = arg[t].size
    BY <1>3, <1>9 DEF Outer
<1>12. m.p.r = ptr[t].r /\ m.p.o = MaxAlign + m.pad
    BY <1>4, <1>7, <1>9
<1>13. UNCHANGED <<lock, htable, mem_used, time, kernel, locals, live, fault>> /\ Goto(t, "m_frontpad")
    BY DEF Shift
<1> QED BY ONLY IInv, <1>1, <1>2, <1>9, <1>10, <1>11, <1>12, <1>13, DescribeStep

LEMMA SetFrontpadStep ==
    ASSUME IInv, NEW t \in Threads, SetFrontpad(t)
    PROVE  IInv'
<1>1. /\ Typed /\ fault = "none" /\ pc[t] = "m_frontpad" /\ Working(t)
    BY DEF IInv, Calls, SetFrontpad, At
<1>2. PICK l \in Slots : l = lslot[t]
    BY <1>1 DEF Typed
<1>3. /\ list[l] \in Mapping /\ list[l].p.r = ptr[t].r /\ list[l].pad \in 0 .. Page - 1
      /\ list[l].size = arg[t].size /\ Outer(list[l]) = AlignUp(arg[t].size)
      /\ list[l].flags = {"USED"} /\ list[l].p.o = MaxAlign + list[l].pad
    BY <1>1, <1>2, MappingTyped DEF Working
<1>4. PICK m : m = [list[l] EXCEPT !.flags = {"USED", "FRONTPAD"}]
    OBVIOUS
<1>5. /\ m \in Mapping /\ m.p = list[l].p /\ m.size = list[l].size /\ m.pad = list[l].pad
      /\ m.flags = {"USED", "FRONTPAD"}
    BY <1>3, <1>4 DEF Mapping, Flags
<1>6. list' = [list EXCEPT ![l] = m]
    BY <1>1, <1>2, <1>3, <1>4 DEF SetFrontpad, Typed
<1>7. Outer(m) = AlignUp(arg[t].size) /\ m.size = arg[t].size /\ m.p.r = ptr[t].r
    BY <1>3, <1>5 DEF Outer
<1>8. Start(m) = MaxAlign /\ "USED" \in m.flags
    BY <1>3, <1>5, Layout DEF Start
<1>9. UNCHANGED <<lock, htable, mem_used, time, kernel, locals, live, fault>> /\ Goto(t, "m_return")
    BY DEF SetFrontpad
<1> QED BY ONLY IInv, <1>1, <1>2, <1>5, <1>6, <1>7, <1>8, <1>9, DescribeStep

LEMMA ReturnObjectStep ==
    ASSUME IInv, NEW t \in Threads, ReturnObject(t)
    PROVE  IInv'
<1> USE DEF ReturnObject, At, tables, time
<1>1. /\ Typed /\ LockInv /\ Live /\ Dead /\ Apart /\ Calls /\ SlotsSettled /\ fault = "none"
      /\ pc[t] = "m_return" /\ Working(t) /\ Leave(t) /\ lock' = Nobody
    BY DEF IInv, Tables, Objects, Calls, Out
<1>2. /\ "m_return" \in Making /\ "m_return" \in Allocating /\ "m_return" \in Updating
      /\ "m_return" \notin Halfway \union Freeing
    BY DEF Allocating, Making, Updating, Halfway, Freeing
<1>3. PICK l \in Slots : l = lslot[t]
    BY <1>1 DEF Typed
<1>4. PICK p \in Pointer : p = list[l].p
    BY <1>1, MappingTyped
<1>5. /\ l # 0 /\ "USED" \in list[l].flags /\ p.r = ptr[t].r /\ p.r # 0 /\ Entry(p) = l
      /\ list[l].size = arg[t].size /\ Outer(list[l]) = AlignUp(arg[t].size)
      /\ PagesOf(MaxAlign, AlignUp(arg[t].size)) \subseteq kernel[p.r].open
    BY <1>1, <1>2, <1>3, <1>4 DEF Working, Mapped, Entry
<1>6. Settled(l) /\ Start(list[l]) = MaxAlign
    <2>1. Settled(l)
        BY <1>1, <1>2, <1>3, Holding DEF Between
    <2> QED BY <1>4, <1>5, <2>1 DEF Settled, Null
<1>7. PICK x : x = [p |-> p, size |-> arg[t].size, align |-> arg[t].align]
    OBVIOUS
<1>8. live' = live \union {x}
    BY <1>3, <1>4, <1>7
<1>9. /\ x \in [p : Pointer, size : 0 .. MaxAlloc, align : 1 .. MaxAlign]
      /\ x.p = p /\ x.size = arg[t].size
    BY <1>1, <1>7 DEF Typed
<1>10. PagesOf(p.o, arg[t].size) \subseteq kernel[p.r].open
    <2>1. p.o >= MaxAlign /\ p.o + arg[t].size <= MaxAlign + AlignUp(arg[t].size)
        BY <1>1, <1>4, <1>5, <1>6, Extent
    <2>2. /\ arg[t].size \in 0 .. MaxAlloc /\ AlignUp(arg[t].size) \in 0 .. MaxAlloc
          /\ p.o \in Nat
        BY <1>1, Alignment, Layout DEF Typed, Pointer
    <2>3. /\ arg[t].size \in Nat /\ AlignUp(arg[t].size) \in Nat
          /\ p.o \in Nat /\ MaxAlign \in Nat
        BY <2>2, Layout
    <2>4. PagesOf(p.o, arg[t].size) \subseteq PagesOf(MaxAlign, AlignUp(arg[t].size))
        BY ONLY <2>1, <2>3, PagesWithin
    <2> QED BY <1>5, <2>4
<1>11. Live'
    <2>1. live' \subseteq [p : Pointer, size : 0 .. MaxAlloc, align : 1 .. MaxAlign]
        BY <1>1, <1>8, <1>9 DEF Live
    <2>2. ASSUME NEW y \in live'
          PROVE  /\ Used(y.p)' /\ list'[Entry(y.p)'].size = y.size
                 /\ PagesOf(y.p.o, y.size) \subseteq kernel'[y.p.r].open
        <3>1. /\ Used(y.p) /\ list[Entry(y.p)].size = y.size
              /\ PagesOf(y.p.o, y.size) \subseteq kernel[y.p.r].open
            <4>1. CASE y \in live
                BY <1>1, <4>1 DEF Live
            <4>2. CASE y = x
                BY <1>4, <1>5, <1>6, <1>9, <1>10, <4>2 DEF Used
            <4> QED BY <1>8, <4>1, <4>2
        <3>2. Used(y.p)'
            BY <3>1, UsedKept
        <3> QED BY <3>1, <3>2 DEF Entry
    <2>3. \A y, z \in live' : y.p.r = z.p.r => y = z
        <3>1. \A y \in live : y.p.r # x.p.r
            BY <1>1, <1>2, <1>5, <1>9 DEF Apart
        <3> QED BY <1>1, <1>8, <3>1 DEF Live
    <2> QED BY <2>1, <2>2, <2>3 DEF Live
<1>12. Others(t)
    BY <1>1, LeaveTyped
<1>13. Dead'
    BY <1>1 DEF Dead, Settled, Entry, Start, Outer
<1>14. Tables'
    BY <1>1, <1>2, <1>12, KeepsTables DEF Keeps
<1>15. Typed'
    <2>1. lock' \in Threads \union {Nobody}
        BY <1>1
    <2> QED BY <1>1, <2>1, LeaveTyped DEF Typed
<1>16. LockInv'
    <2>1. /\ \A u \in Threads \ {t} : pc[u] \notin Updating /\ ~ locked[u]
        BY <1>1, <1>2, Alone
    <2>2. \A u \in Threads : pc'[u] \notin Updating /\ ~ locked'[u]
        BY <1>1, <2>1, LeaveTyped, Labels DEF Others
    <2> QED BY <1>1, <2>2, Regional DEF LockInv
<1>17. Apart'
    <2>1. pc'[t] \notin Freeing \union Making
        BY <1>1, LeaveTyped, Labels
    <2>2. ASSUME NEW y \in live', NEW u \in Threads, pc'[u] \in Freeing \union Making
          PROVE  y.p.r # ptr'[u].r
        <3>1. u # t /\ pc[u] = pc'[u] /\ ptr'[u] = ptr[u]
            BY <1>12, <2>1, <2>2 DEF Others
        <3>2. pc[u] \in Freeing
            <4>1. pc[u] \notin Updating
                BY <1>1, <1>2, <3>1, Alone
            <4> QED BY <2>2, <3>1, <4>1, Labels
        <3>3. CASE y \in live
            BY <1>1, <3>1, <3>2, <3>3 DEF Apart
        <3>4. CASE y = x
            <4>1. ptr[u].r # ptr[t].r
                BY <1>1, <1>2, <3>1, <3>2 DEF Apart
            <4> QED BY <1>5, <1>9, <3>1, <3>4, <4>1
        <3> QED BY <1>8, <3>3, <3>4
    <2>3. ASSUME NEW u \in Threads, NEW w \in Threads, u # w, pc'[u] \in Freeing,
                 pc'[w] \in Freeing \union Making
          PROVE  ptr'[u].r # ptr'[w].r
        BY <1>1, <1>12, <2>1, <2>3 DEF Apart, Others
    <2> QED BY <2>2, <2>3 DEF Apart
<1>18. Working(t)' /\ Releasing(t)' /\ Handler(t)'
    BY <1>1, LeaveTyped, LeaveLocal
<1>19. \A u \in Threads \ {t} : Working(u)' /\ Releasing(u)' /\ Handler(u)'
    BY <1>1, <1>2, <1>12, Bystanders
<1> QED BY <1>1, <1>11, <1>13, <1>14, <1>15, <1>16, <1>17, <1>18, <1>19 DEF IInv, Objects, Calls

LEMMA ClearUsedStep ==
    ASSUME IInv, NEW t \in Threads, ClearUsed(t)
    PROVE  IInv'
<1> USE DEF ClearUsed, At, Goto, tables, time
<1>1. /\ Typed /\ LockInv /\ Live /\ Dead /\ Apart /\ Calls /\ fault = "none"
      /\ SlotsSettled /\ HashSettled /\ RegionsSettled
      /\ pc[t] = "f_used" /\ Handler(t) /\ Releasing(t)
    BY DEF IInv, Tables, Objects, Calls
<1>2. /\ {"f_used", "f_protect"} \subseteq Updating /\ "f_used" \in Freeing
      /\ "f_protect" \notin Freeing \union Making \union Allocating \union Handling
    BY DEF Allocating, Making, Updating, Freeing, Handling
<1>3. PICK p \in Pointer : p = ptr[t]
    BY <1>1 DEF Typed
<1>4. Used(p)
    BY <1>1, <1>2, <1>3 DEF Releasing
<1>5. PICK l \in Slots : l = Entry(p)
    BY <1>1, <1>4, HashTyped DEF Used
<1>6. /\ l # 0 /\ p.r # 0 /\ list[l].p = p /\ "USED" \in list[l].flags /\ Settled(l)
      /\ list[l] \in Mapping /\ list[l].size \in 0 .. MaxAlloc
    BY <1>1, <1>4, <1>5, MappingTyped DEF Used
<1>7. PICK m : m = [list[l] EXCEPT !.flags = @ \ {"USED"}]
    OBVIOUS
<1>8. /\ m \in Mapping /\ m.p = p /\ m.size = list[l].size /\ m.pad = list[l].pad
      /\ m.flags = list[l].flags \ {"USED"}
    BY <1>6, <1>7 DEF Mapping
<1>9. list' = [list EXCEPT ![l] = m] /\ fault' = "none" /\ ripe' = ripe \ {l}
    BY <1>1, <1>3, <1>5, <1>6, <1>7 DEF Typed, Entry
<1>10. /\ list' \in [Slots -> Mapping] /\ list'[l] = m
       /\ \A k \in Slots : k # l => list'[k] = list[k]
    BY ONLY <1>1, <1>5, <1>8, <1>9, ListChanged
<1>11. PICK x : x = [p |-> p, size |-> list[l].size]
    OBVIOUS
<1>12. /\ dead' = dead \union {x} /\ x.p = p /\ x.size = list[l].size
       /\ x \in [p : Pointer, size : 0 .. MaxAlloc]
    BY <1>3, <1>5, <1>6, <1>11 DEF Entry
<1>13. /\ pc' \in [Threads -> Locations] /\ pc'[t] = "f_protect"
       /\ lslot' \in [Threads -> Slots] /\ lslot'[t] = l /\ Others(t)
    BY <1>1, <1>2, <1>3, <1>5, Labels DEF Typed, Others, Entry
<1>14. UNCHANGED <<lock, htable, kernel, arg, ptr, flags, locked, ret, live>>
    OBVIOUS
<1> HIDE DEF ClearUsed, At, Goto, tables, time
<1> USE <1>14
<1>15. Typed'
    BY <1>1, <1>9, <1>10, <1>13 DEF Typed
<1>16. LockInv'
    BY <1>1, <1>2, <1>13 DEF LockInv, Others
<1>17. Settled(l)'
    <2>1. Start(m) = Start(list[l]) /\ Outer(m) = Outer(list[l])
        BY <1>6, <1>8 DEF Start, Outer
    <2>2. list'[l].p = list[l].p /\ Start(list[l])' = Start(list[l]) /\ Outer(list[l])' = Outer(list[l])
        BY <1>6, <1>8, <1>10, <2>1 DEF Start, Outer
    <2> QED BY <1>6, <2>2 DEF Settled, Entry
<1>18. ASSUME NEW k \in Slots PROVE SlotOK(k)'
    <2>1. list[k].p # Null => list[k].p.r # 0
        BY <1>1 DEF SlotsSettled
    <2>2. CASE k = l
        BY <1>6, <1>8, <1>10, <1>17, <2>2 DEF SlotOK, Settled, Entry
    <2>3. CASE k # l
        <3>1. \A u \in Threads : ~ Between(u)
            BY <1>1, <1>2, Alone DEF Between, Updating
        <3>2. Settled(k) /\ list'[k] = list[k]
            BY <1>1, <1>10, <2>3, <3>1 DEF SlotsSettled
        <3>3. Settled(k)'
            BY <3>2, SettledKept
        <3> QED BY <2>1, <3>2, <3>3 DEF SlotOK
    <2> QED BY <2>2, <2>3
<1>19. \A k \in Slots : list'[k].p = list[k].p
    BY <1>6, <1>8, <1>10
<1>20. Tables'
    <2>1. SlotsSettled'
        BY <1>18 DEF SlotsSettled, SlotOK
    <2>2. \A u \in Threads : pc[u] \notin {"m_p", "m_unmap", "m_hash"}
        BY <1>1, <1>2, Alone DEF Updating
    <2>3. HashSettled'
        <3> SUFFICES ASSUME NEW h \in DOMAIN htable, htable[h] # 0
                     PROVE  list'[htable[h]].p # Null /\ Hash[list'[htable[h]].p.r] = h
            BY DEF HashSettled
        <3>1. htable[h] \in Slots
            BY <1>1 DEF Typed
        <3> QED BY <1>1, <1>19, <2>2, <3>1 DEF HashSettled
    <2>4. RegionsSettled'
        <3> SUFFICES ASSUME NEW r \in Regions, kernel[r].len # 0
                     PROVE  \E k \in Slots : list'[k].p.r = r
            BY DEF RegionsSettled
        <3>1. PICK k \in Slots : list[k].p.r = r
            BY <1>1, <2>2 DEF RegionsSettled
        <3> QED BY <1>19, <3>1
    <2> QED BY <2>1, <2>3, <2>4 DEF Tables
<1>21. ASSUME NEW q, q.r # p.r, list[Entry(q)].p = q, Entry(q) \in Slots
       PROVE  Entry(q) # l /\ list'[Entry(q)] = list[Entry(q)]
    BY <1>6, <1>10, <1>21
<1>22. Live'
    <2>1. live' \subseteq [p : Pointer, size : 0 .. MaxAlloc, align : 1 .. MaxAlign]
        BY <1>1 DEF Live
    <2>2. ASSUME NEW y \in live'
          PROVE  /\ Used(y.p)' /\ list'[Entry(y.p)'].size = y.size
                 /\ PagesOf(y.p.o, y.size) \subseteq kernel'[y.p.r].open
        <3>1. /\ Used(y.p) /\ list[Entry(y.p)].size = y.size /\ y.p \in Pointer
              /\ PagesOf(y.p.o, y.size) \subseteq kernel[y.p.r].open
            BY <1>1 DEF Live
        <3>2. y.p.r # p.r
            BY <1>1, <1>2, <1>3 DEF Apart
        <3>3. Entry(y.p) \in Slots /\ list[Entry(y.p)].p = y.p
            BY <1>1, <3>1, HashTyped DEF Used
        <3>4. list'[Entry(y.p)] = list[Entry(y.p)]
            BY <1>21, <3>2, <3>3
        <3>5. Used(y.p)'
            BY <3>1, <3>4, UsedKept
        <3> QED BY <3>1, <3>4, <3>5 DEF Entry
    <2>3. \A y, z \in live' : y.p.r = z.p.r => y = z
        BY <1>1 DEF Live
    <2> QED BY <2>1, <2>2, <2>3 DEF Live
<1>23. Dead'
    <2>1. dead' \subseteq [p : Pointer, size : 0 .. MaxAlloc]
        BY <1>1, <1>12 DEF Dead
    <2>2. ASSUME NEW y \in dead'
          PROVE  /\ y.p.r # 0 /\ Entry(y.p)' # 0 /\ Entry(y.p)' \notin ripe'
                 /\ list'[Entry(y.p)'].p = y.p /\ list'[Entry(y.p)'].size = y.size
                 /\ "USED" \notin list'[Entry(y.p)'].flags
                 /\ Settled(Entry(y.p))'
        <3>1. Entry(y.p)' = Entry(y.p)
            BY DEF Entry
        <3>2. CASE y \in dead
            <4>1. /\ y.p.r # 0 /\ Entry(y.p) # 0 /\ Entry(y.p) \notin ripe
                  /\ list[Entry(y.p)].p = y.p /\ list[Entry(y.p)].size = y.size
                  /\ "USED" \notin list[Entry(y.p)].flags
                  /\ Settled(Entry(y.p)) /\ y.p \in Pointer
                BY <1>1, <3>2 DEF Dead
            <4>2. Entry(y.p) # l /\ Entry(y.p) \in Slots
                BY <1>1, <1>6, <4>1, HashTyped
            <4>3. list'[Entry(y.p)] = list[Entry(y.p)]
                BY <1>10, <4>2
            <4>4. PICK k \in Slots : k = Entry(y.p)
                BY <4>2
            <4>5. Settled(k)'
                BY <4>1, <4>3, <4>4, SettledKept
            <4>6. Settled(Entry(y.p))'
                BY <3>1, <4>4, <4>5 DEF Settled, Entry
            <4> QED BY <1>9, <3>1, <4>1, <4>3, <4>6
        <3>3. CASE y = x
            <4>1. Entry(y.p) = l
                BY <1>5, <1>12, <3>3
            <4>2. Settled(Entry(y.p))'
                BY <1>17, <3>1, <4>1 DEF Settled, Entry
            <4> QED BY <1>6, <1>8, <1>9, <1>10, <1>12, <3>1, <3>3, <4>1, <4>2
        <3> QED BY <1>12, <3>2, <3>3
    <2> QED BY <2>1, <2>2 DEF Dead
<1>24. Apart'
    BY <1>1, <1>2, <1>13, ApartKept
<1>25. Working(t)' /\ Releasing(t)' /\ Handler(t)'
    <2>1. list'[l].p # Null /\ "USED" \notin list'[l].flags
        <3>1. p # Null
            BY ONLY <1>6 DEF Null
        <3> QED BY ONLY <1>8, <1>10, <3>1
    <2>2. ~ locked[t] /\ ret[t] # 1
        BY <1>1, <1>2, Labels DEF Handler
    <2>3. ~ locked'[t] /\ ret'[t] # 1
        BY <2>2
    <2>4. Working(t)'
        BY <1>2, <1>13 DEF Working, Allocating, Making
    <2>5. Releasing(t)'
        BY <1>2, <1>13, <2>1 DEF Releasing
    <2>6. Handler(t)'
        BY <1>2, <1>13, <2>3 DEF Handler
    <2> QED BY <2>4, <2>5, <2>6
<1>26. ASSUME NEW u \in Threads \ {t} PROVE Working(u)' /\ Releasing(u)' /\ Handler(u)'
    <2>1. ASSUME pc[u] \in Freeing PROVE list'[Entry(ptr[u])] = list[Entry(ptr[u])]
        <3>1. PICK q \in Pointer : q = ptr[u]
            BY <1>1 DEF Typed
        <3>2. Used(q) /\ q.r # p.r
            BY <1>1, <1>2, <1>3, <2>1, <3>1 DEF Calls, Releasing, Apart
        <3>3. Entry(q) \in Slots /\ list[Entry(q)].p = q
            BY <1>1, <3>2, HashTyped DEF Used
        <3> QED BY <1>21, <3>1, <3>2, <3>3
    <2> QED BY <1>1, <1>2, <1>13, <2>1, Bystanders
<1> QED BY <1>9, <1>15, <1>16, <1>20, <1>22, <1>23, <1>24, <1>25, <1>26 DEF IInv, Objects, Calls

LEMMA ProtectStep ==
    ASSUME IInv, NEW t \in Threads, Protect(t)
    PROVE  IInv'
<1> USE DEF Protect, At, tables, time
<1>1. /\ Typed /\ LockInv /\ Live /\ Dead /\ Apart /\ SlotsSettled /\ fault = "none"
      /\ pc[t] = "f_protect" /\ Releasing(t) /\ Leave(t) /\ lock' = Nobody
    BY DEF IInv, Tables, Objects, Calls, Out
<1>2. "f_protect" \in Updating \ Halfway
    BY DEF Updating, Halfway
<1>3. PICK l \in Slots : l = lslot[t]
    BY <1>1 DEF Typed
<1>4. list[l].p # Null /\ list[l].p.r # 0 /\ "USED" \notin list[l].flags
    BY <1>1, <1>3 DEF Releasing, SlotsSettled
<1>5. PICK r \in Regions : r = list[l].p.r
    BY <1>1, <1>4, MappingTyped, HashTyped
<1>6. Settled(l)
    <2>1. \A u \in Threads : ~ Between(u)
        BY <1>1, <1>2, Alone DEF Between, Updating
    <2> QED BY <1>1, <2>1 DEF SlotsSettled
<1>7. /\ kernel' \in [Regions -> [len : 0 .. MaxAlloc, open : SUBSET Pages]]
      /\ \A q \in Regions : kernel'[q].len = kernel[q].len
      /\ \A q \in Regions : q # r => kernel'[q] = kernel[q]
    <2>1. PICK gone : gone = PagesOf(Start(list[l]), Outer(list[l]))
        OBVIOUS
    <2>2. kernel[r] \in [len : 0 .. MaxAlloc, open : SUBSET Pages]
        BY <1>1 DEF Typed
    <2>3. PICK k : k = [kernel[r] EXCEPT !.open = @ \ gone]
        OBVIOUS
    <2>4. k \in [len : 0 .. MaxAlloc, open : SUBSET Pages] /\ k.len = kernel[r].len
        BY <2>2, <2>3
    <2>5. kernel' = [kernel EXCEPT ![r] = k]
        BY <1>1, <1>3, <1>5, <2>1, <2>3 DEF Typed
    <2>6. kernel \in [Regions -> [len : 0 .. MaxAlloc, open : SUBSET Pages]]
        BY <1>1 DEF Typed
    <2> QED BY ONLY <1>5, <2>4, <2>5, <2>6
<1>8. UNCHANGED <<list, htable, mem_used, ripe, dead, live, fault>>
    OBVIOUS
<1> HIDE DEF Protect, At, tables, time
<1> USE <1>8
<1>9. Keeps(t)
    BY <1>1, <1>7, LeaveTyped DEF Keeps
<1>10. Tables'
    BY <1>1, <1>2, <1>9, KeepsTables
<1>11. Live'
    <2>1. live' \subseteq [p : Pointer, size : 0 .. MaxAlloc, align : 1 .. MaxAlign]
        BY <1>1 DEF Live
    <2>2. ASSUME NEW x \in live'
          PROVE  /\ Used(x.p)' /\ list'[Entry(x.p)'].size = x.size
                 /\ PagesOf(x.p.o, x.size) \subseteq kernel'[x.p.r].open
        <3>1. /\ Used(x.p) /\ list[Entry(x.p)].size = x.size /\ x.p \in Pointer
              /\ PagesOf(x.p.o, x.size) \subseteq kernel[x.p.r].open
            BY <1>1 DEF Live
        <3>2. x.p.r \in Regions
            BY <1>1, <3>1, HashTyped DEF Used
        <3>3. x.p.r # r
            <4> SUFFICES ASSUME x.p.r = r PROVE FALSE
                OBVIOUS
            <4>1. Entry(x.p) = l
                BY <1>4, <1>5, <1>6 DEF Settled, Entry
            <4> QED BY <1>4, <3>1, <4>1 DEF Used
        <3>4. kernel'[x.p.r] = kernel[x.p.r]
            BY <1>7, <3>2, <3>3
        <3>5. Used(x.p)'
            BY <3>1, <3>4, UsedKept
        <3> QED BY <3>1, <3>4, <3>5 DEF Entry
    <2>3. \A x, y \in live' : x.p.r = y.p.r => x = y
        BY <1>1 DEF Live
    <2> QED BY <2>1, <2>2, <2>3 DEF Live
<1>12. Dead'
    <2>1. dead' \subseteq [p : Pointer, size : 0 .. MaxAlloc]
        BY <1>1 DEF Dead
    <2>2. ASSUME NEW x \in dead'
          PROVE  /\ x.p.r # 0 /\ Entry(x.p)' # 0 /\ Entry(x.p)' \notin ripe'
                 /\ list'[Entry(x.p)'].p = x.p /\ list'[Entry(x.p)'].size = x.size
                 /\ "USED" \notin list'[Entry(x.p)'].flags
                 /\ Settled(Entry(x.p))'
        <3>1. /\ x.p.r # 0 /\ Entry(x.p) # 0 /\ Entry(x.p) \notin ripe
              /\ list[Entry(x.p)].p = x.p /\ list[Entry(x.p)].size = x.size
              /\ "USED" \notin list[Entry(x.p)].flags
              /\ Settled(Entry(x.p)) /\ x.p \in Pointer
            BY <1>1 DEF Dead
        <3>2. x.p.r \in Regions /\ kernel'[x.p.r].len = kernel[x.p.r].len
            BY <1>1, <1>7, <3>1, HashTyped
        <3>3. Entry(x.p)' = Entry(x.p)
            BY DEF Entry
        <3>4. Settled(Entry(x.p))'
            BY <3>1, <3>2, <3>3 DEF Settled, Entry, Start, Outer
        <3> QED BY <3>1, <3>3, <3>4
    <2> QED BY <2>1, <2>2 DEF Dead
<1>13. Typed'
    <2>1. lock' \in Threads \union {Nobody}
        BY <1>1
    <2> QED BY <1>1, <1>7, <2>1, LeaveTyped DEF Typed
<1>14. LockInv'
    <2>1. /\ \A u \in Threads \ {t} : pc[u] \notin Updating /\ ~ locked[u]
        BY <1>1, <1>2, Alone
    <2>2. \A u \in Threads : pc'[u] \notin Updating /\ ~ locked'[u]
        BY <1>1, <2>1, LeaveTyped, Labels DEF Others
    <2> QED BY <1>1, <2>2, Regional DEF LockInv
<1>15. Apart'
    <2>1. pc'[t] \notin Freeing /\ pc'[t] \notin Making
        BY <1>1, LeaveTyped, Labels
    <2> QED BY <1>1, <1>9, <2>1, ApartKept DEF Keeps
<1>16. Working(t)' /\ Releasing(t)' /\ Handler(t)'
    BY <1>1, LeaveTyped, LeaveLocal
<1>17. ASSUME NEW u \in Threads \ {t} PROVE Working(u)' /\ Releasing(u)' /\ Handler(u)'
    <2>1. ASSUME pc[u] \in Freeing PROVE kernel'[ptr[u].r].len = kernel[ptr[u].r].len
        <3>1. ptr[u] \in Pointer /\ ptr[u].r # 0
            BY <1>1, <2>1 DEF IInv, Calls, Releasing, Used, Typed
        <3> QED BY <1>1, <1>7, <3>1, HashTyped
    <2> QED BY <1>1, <1>2, <1>9, <2>1, Bystanders DEF Keeps
<1> QED BY <1>1, <1>10, <1>11, <1>12, <1>13, <1>14, <1>15, <1>16, <1>17 DEF IInv, Objects, Calls

-----------------------------------------------------------------------------
(* The inductive invariant *)

LEMMA Initial == Init => IInv
<1> SUFFICES ASSUME Init PROVE IInv
    OBVIOUS
<1> USE DEF Init
<1>1. Typed
    <2>1. Empty \in Mapping
        BY Layout DEF Empty, Mapping
    <2>2. Unmapped \in [len : 0 .. MaxAlloc, open : SUBSET Pages]
        BY Layout DEF Unmapped
    <2>3. [size |-> 0, align |-> 1] \in [size : 0 .. MaxAlloc, align : 1 .. MaxAlign]
        BY Layout
    <2>4. ripe \subseteq Slots /\ "idle" \in Locations /\ 0 \in Slots /\ Null \in Pointer
        BY Layout, Labels
    <2> QED BY <2>1, <2>2, <2>3, <2>4 DEF Typed
<1>2. LockInv
    BY Regional, Labels DEF LockInv
<1>3. \A t \in Threads : pc[t] = "idle" /\ ret[t] = 0 /\ ~ locked[t]
    OBVIOUS
<1>4. \A l \in Slots : list[l].p = Null
    BY DEF Empty
<1>5. Tables
    <2>1. SlotsSettled
        BY <1>4 DEF SlotsSettled, Settled
    <2>2. HashSettled
        BY DEF HashSettled
    <2>3. RegionsSettled
        BY DEF RegionsSettled, Unmapped
    <2> QED BY <2>1, <2>2, <2>3 DEF Tables
<1>6. Objects
    BY <1>3, Labels DEF Objects, Live, Dead, Apart
<1>7. Calls
    BY <1>3, Labels DEF Calls, Working, Releasing, Handler, Allocating, Making, Freeing, Handling
<1> QED BY <1>1, <1>2, <1>5, <1>6, <1>7 DEF IInv

LEMMA Inductive == IInv /\ [Next]_vars => IInv'
<1> SUFFICES ASSUME IInv, [Next]_vars PROVE IInv'
    OBVIOUS
<1>1. CASE UNCHANGED vars
    <2>1. UNCHANGED <<lock, list, htable, mem_used, ripe, dead, kernel, pc, arg, ptr, lslot,
                      flags, locked, ret, live, fault>>
        BY <1>1 DEF vars, tables, time, locals
    <2>2. Typed' <=> Typed
        BY <2>1 DEF Typed
    <2>3. LockInv' <=> LockInv
        BY <2>1 DEF LockInv
    <2>4. Tables' <=> Tables
        BY <2>1 DEF Tables, SlotsSettled, HashSettled, RegionsSettled, Settled, Between, Entry,
                    Start, Outer
    <2>5. Objects' <=> Objects
        BY <2>1 DEF Objects, Live, Dead, Apart, Used, Settled, Entry, Start, Outer
    <2>6. Calls' <=> Calls
        <3>1. \A t \in Threads : Working(t)' <=> Working(t)
            BY <2>1 DEF Working, Mapped, Entry, Outer
        <3>2. \A t \in Threads : Releasing(t)' <=> Releasing(t)
            BY <2>1 DEF Releasing, Used, Settled, Entry, Start, Outer
        <3>3. \A t \in Threads : Handler(t)' <=> Handler(t)
            BY <2>1 DEF Handler, Entry, InRange, Accessible
        <3> QED BY <3>1, <3>2, <3>3 DEF Calls
    <2> QED BY <2>1, <2>2, <2>3, <2>4, <2>5, <2>6 DEF IInv
<1>2. ASSUME NEW t \in Threads, NEW size \in Sizes, NEW align \in Aligns, Malloc(t, size, align)
      PROVE  IInv'
    BY <1>2, MallocStep
<1>3. ASSUME NEW t \in Threads, NEW obj \in live, Free(t, obj)
      PROVE  IInv'
    BY <1>3, FreeStep
<1>4. ASSUME NEW t \in Threads, NEW r \in Regions, NEW o \in Touched,
             Fault(t, [r |-> r, o |-> o])
      PROVE  IInv'
    BY <1>4, FaultStep
<1>5. ASSUME NEW t \in Threads, Lock(t) PROVE IInv'
    BY <1>5, LockStep
<1>6. ASSUME NEW t \in Threads, Step(t) PROVE IInv'
    BY <1>6, PickStep, UnhashStep, ForgetStep, UnmapStep, BudgetStep, MapStep, EnterHashStep,
       SetPStep, SetSizeStep, SetFlagsStep, ShiftStep, SetFrontpadStep, ReturnObjectStep,
       ClearUsedStep, ProtectStep, FindStep, MatchStep, CheckRangeStep, WriteFlagsStep,
       OpenStep, ReturnHandlerStep DEF Step
<1>7. CASE Tick
    BY <1>7, TickStep
<1>8. CASE Stopped
    BY <1>1, <1>8 DEF Stopped
<1> QED BY <1>1, <1>2, <1>3, <1>4, <1>5, <1>6, <1>7, <1>8 DEF Next

\* IInv holds initially, and every step of every thread preserves it.
THEOREM Invariance == Spec => []IInv
BY Initial, Inductive, PTL DEF Spec

-----------------------------------------------------------------------------
(* What follows from it *)

\* lock_pi() and unlock_pi() are paired: ufence_lock belongs to a thread if
\* and only if it is inside malloc() or free(), or in a handler that got it.
THEOREM Locking == Spec => []LockInv
<1>1. IInv => LockInv
    BY DEF IInv
<1> QED BY <1>1, Invariance, PTL

\* Between the calls the list, the hash table and the kernel agree, for every
\* hash function: a mapping and its hash entry appear and vanish together.
THEOREM TablesAgree == Spec => []TableInv
<1>1. IInv => TableInv
    <2> SUFFICES ASSUME IInv, Quiet PROVE TableInv
        BY DEF TableInv
    <2>1. /\ SlotsSettled /\ HashSettled /\ RegionsSettled /\ Typed
        BY DEF IInv, Tables, Quiet
    <2>2. \A t \in Threads : ~ Between(t) /\ pc[t] \notin {"m_p", "m_unmap", "m_hash"}
        BY DEF Quiet, Between, Updating
    <2>3. \A l \in Slots : Settled(l)
        BY <2>1, <2>2 DEF SlotsSettled
    <2>4. \A l \in Slots : LET m == list[l] IN
            m.p # Null =>
              /\ l # 0 /\ htable[Hash[m.p.r]] = l
              /\ Start(m) = MaxAlign /\ kernel[m.p.r].len = Outer(m)
        BY <2>3 DEF Settled, Entry
    <2>5. \A h \in DOMAIN htable : htable[h] # 0 =>
            LET p == list[htable[h]].p IN p # Null /\ Hash[p.r] = h
        BY <2>1, <2>2 DEF HashSettled
    <2>6. \A r \in Regions : kernel[r].len # 0 => \E l \in Slots : list[l].p.r = r
        BY <2>1, <2>2 DEF RegionsSettled
    <2> QED BY <2>4, <2>5, <2>6 DEF TableInv
<1> QED BY <1>1, Invariance, PTL

\* An object that malloc() has returned stays accessible and alone in its
\* region until it is given to free(), whoever else is inside the allocator.
THEOREM LiveStays == Spec => []LiveInv
<1>1. IInv => LiveInv
    <2> SUFFICES ASSUME IInv, fault = "none" PROVE LiveInv
        BY DEF LiveInv
    <2>1. Live /\ Dead /\ Typed
        BY DEF IInv, Objects
    <2>2. ASSUME NEW x \in live
          PROVE  /\ PagesOf(x.p.o, x.size) \subseteq kernel[x.p.r].open
                 /\ x.p.o >= MaxAlign
                 /\ x.p.o + x.size <= MaxAlign + kernel[x.p.r].len
        <3>1. PICK l : l = Entry(x.p)
            OBVIOUS
        <3>2. /\ Used(x.p) /\ list[l].p = x.p /\ list[l].size = x.size /\ x.p.r # 0
              /\ Settled(l) /\ x.p \in Pointer
              /\ PagesOf(x.p.o, x.size) \subseteq kernel[x.p.r].open
            BY <2>1, <3>1 DEF Live, Used
        <3>3. l \in Slots
            BY <2>1, <3>1, <3>2, HashTyped
        <3>4. list[l].p # Null
            BY <3>2 DEF Null
        <3>5. Start(list[l]) = MaxAlign /\ kernel[x.p.r].len = Outer(list[l])
            BY <3>2, <3>4 DEF Settled
        <3> QED BY <2>1, <3>2, <3>3, <3>5, Extent
    <2>3. ASSUME NEW x \in live, NEW y \in live \union dead, x.p.r = y.p.r
          PROVE  x = y
        <3>1. CASE y \in live
            BY <2>1, <2>3, <3>1 DEF Live
        <3>2. CASE y \in dead
            <4>1. Entry(x.p) = Entry(y.p)
                BY <2>3 DEF Entry
            <4> QED BY <2>1, <3>2, <4>1 DEF Live, Dead, Used
        <3> QED BY <3>1, <3>2
    <2> QED BY <2>2, <2>3 DEF LiveInv
<1> QED BY <1>1, Invariance, PTL

\* A handler that got the lock recognises every address in or near an object
\* in use or in quarantine, and makes accessible what it answers 1 for.
THEOREM HandlerRecognises == Spec => []Recognised
<1>1. IInv => Recognised
    BY DEF IInv, Calls, Handler, Recognised, At
<1> QED BY <1>1, Invariance, PTL

\* The assertion of free() never fails for a pointer that malloc() returned:
\* whatever happens until free() has the lock, the hash leads to its slot.
THEOREM FreeFinds == Spec => []FreeFindsObject
<1>1. IInv => FreeFindsObject
    BY DEF IInv, FreeFindsObject
<1> QED BY <1>1, Invariance, PTL

-----------------------------------------------------------------------------
(* The limit *)

\* What malloc() has mapped and not yet added to mem_used, what it may still
\* map, and what it is about to unmap.
Accounts ==
    /\ mem_used \in Nat
    /\ MemoryMapped <= MemLimit
    /\ (\A t \in Threads : pc[t] \notin Making) => mem_used = MemoryMapped
    /\ \A t \in Threads :
         /\ pc[t] \in Making => mem_used + AlignUp(arg[t].size) = MemoryMapped
         /\ pc[t] = "m_map" => mem_used + AlignUp(arg[t].size) <= MemLimit
         /\ pc[t] \in {"m_forget", "m_unmap"} => kernel[ptr[t].r].len = Outer(list[lslot[t]])

\* The lengths of the mappings, a function to sum up.
Mappings == [r \in Regions |-> kernel[r].len]

LEMMA MappedSum ==
    ASSUME Typed
    PROVE  /\ MemoryMapped = HmapSize + SumFunctionOnSet(Mappings, Regions)
           /\ MemoryMapped \in Nat
           /\ \A r \in Regions : HmapSize + kernel[r].len <= MemoryMapped
<1>1. IsFiniteSet(Regions) /\ HmapSize \in Nat
    BY RegionAssumption, LayoutAssumption
<1>2. \A r \in Regions : Mappings[r] \in Nat
    BY Layout DEF Typed, Mappings
<1>3. /\ SumFunctionOnSet(Mappings, Regions) \in Nat
      /\ \A r \in Regions : kernel[r].len <= SumFunctionOnSet(Mappings, Regions)
    <2>1. PICK f : f = Mappings
        OBVIOUS
    <2>2. \A r \in Regions : f[r] = kernel[r].len
        BY <2>1 DEF Mappings
    <2> QED BY <1>1, <1>2, <2>1, <2>2, SumOfNumbers
<1>4. MemoryMapped = HmapSize + SumFunctionOnSet(Mappings, Regions)
    BY DEF MemoryMapped, SumFunction, Mappings
<1> QED BY <1>1, <1>2, <1>3, <1>4 DEF Mappings

\* Mapping or unmapping one region changes the sum by its length.
LEMMA MappedChange ==
    ASSUME Typed, Typed', NEW r \in Regions,
           \A q \in Regions \ {r} : kernel'[q].len = kernel[q].len
    PROVE  MemoryMapped' = MemoryMapped - kernel[r].len + kernel'[r].len
<1>1. IsFiniteSet(Regions)
    BY RegionAssumption
<1>2. \A q \in Regions : Mappings[q] \in Int /\ Mappings'[q] \in Int
    BY Layout DEF Typed, Mappings
<1>3. /\ \A q \in Regions \ {r} : Mappings[q] = Mappings'[q]
      /\ Mappings[r] = kernel[r].len /\ Mappings'[r] = kernel'[r].len
    BY DEF Mappings
<1>4. PICK f, g : f = Mappings /\ g = Mappings'
    OBVIOUS
<1>5. SumFunctionOnSet(g, Regions) = SumFunctionOnSet(f, Regions) - f[r] + g[r]
    BY <1>1, <1>2, <1>3, <1>4, SumChange
<1>6. /\ MemoryMapped = HmapSize + SumFunctionOnSet(f, Regions)
      /\ MemoryMapped' = HmapSize + SumFunctionOnSet(g, Regions)
    BY <1>4 DEF MemoryMapped, SumFunction, Mappings
<1>7. SumFunctionOnSet(f, Regions) \in Int /\ HmapSize \in Int
    BY <1>1, <1>2, <1>4, SumType, LayoutAssumption
<1> QED BY <1>2, <1>3, <1>4, <1>5, <1>6, <1>7

\* Steps that neither map nor unmap.
LEMMA MappedKept ==
    ASSUME \A q \in Regions : kernel'[q].len = kernel[q].len
    PROVE  MemoryMapped' = MemoryMapped
<1>1. Mappings' = Mappings
    BY DEF Mappings
<1> QED BY <1>1 DEF MemoryMapped, SumFunction, Mappings

\* Those that change neither the lengths nor mem_used, nor what the holder of
\* the lock is at.
LEMMA AccountsKept ==
    ASSUME Accounts, mem_used' = mem_used, NEW t \in Threads, Others(t),
           \A q \in Regions : kernel'[q].len = kernel[q].len,
           pc'[t] \in Making <=> pc[t] \in Making,
           pc[t] \in Making => arg'[t] = arg[t],
           pc'[t] # "m_map", pc'[t] \notin {"m_forget", "m_unmap"},
           \A u \in Threads \ {t} : pc[u] \in {"m_forget", "m_unmap"} =>
             kernel'[ptr[u].r].len = kernel[ptr[u].r].len
             /\ Outer(list'[lslot[u]]) = Outer(list[lslot[u]])
    PROVE  Accounts'
<1>1. MemoryMapped' = MemoryMapped
    BY MappedKept
<1>2. (\A u \in Threads : pc'[u] \notin Making) => mem_used' = MemoryMapped'
    BY <1>1 DEF Accounts, Others
<1>3. ASSUME NEW u \in Threads
      PROVE  /\ pc'[u] \in Making => mem_used' + AlignUp(arg'[u].size) = MemoryMapped'
             /\ pc'[u] = "m_map" => mem_used' + AlignUp(arg'[u].size) <= MemLimit
             /\ pc'[u] \in {"m_forget", "m_unmap"} =>
                  kernel'[ptr'[u].r].len = Outer(list'[lslot'[u]])
    <2>1. CASE u = t
        BY <1>1, <2>1 DEF Accounts
    <2>2. CASE u # t
        BY <1>1, <2>2 DEF Accounts, Others
    <2> QED BY <2>1, <2>2
<1> QED BY <1>1, <1>2, <1>3 DEF Accounts, Outer

\* Steps that neither change the lengths nor mem_used, by whoever holds or
\* takes the lock.
LEMMA HolderKept ==
    ASSUME IInv, Accounts, mem_used' = mem_used, NEW t \in Threads, Others(t),
           \A q \in Regions : kernel'[q].len = kernel[q].len,
           pc[t] \in Updating \/ lock = Nobody,
           pc'[t] \in Making <=> pc[t] \in Making,
           pc[t] \in Making => arg'[t] = arg[t],
           pc'[t] # "m_map", pc'[t] \notin {"m_forget", "m_unmap"}
    PROVE  Accounts'
<1>1. \A u \in Threads \ {t} : pc[u] \notin Updating
    BY Alone, Regional DEF IInv, LockInv
<1>2. \A u \in Threads \ {t} : pc[u] \notin {"m_forget", "m_unmap"}
    BY <1>1 DEF Updating
<1> QED BY <1>2, AccountsKept

\* The same, by those without it.
LEMMA LookerKept ==
    ASSUME IInv, fault = "none", Accounts, mem_used' = mem_used, NEW t \in Threads, Others(t),
           \A q \in Regions : kernel'[q].len = kernel[q].len,
           \A l \in Slots : Outer(list'[l]) = Outer(list[l]),
           pc[t] \notin Updating, pc'[t] \notin Updating
    PROVE  Accounts'
<1>1. Typed /\ Calls
    BY DEF IInv
<1>2. ASSUME NEW u \in Threads \ {t}, pc[u] \in {"m_forget", "m_unmap"}
      PROVE  /\ kernel'[ptr[u].r].len = kernel[ptr[u].r].len
             /\ Outer(list'[lslot[u]]) = Outer(list[lslot[u]])
    <2>1. ptr[u] \in Pointer /\ lslot[u] \in Slots
        BY <1>1 DEF Typed
    <2>2. ptr[u].r # 0
        BY <1>1, <1>2 DEF Calls, Working
    <2> QED BY <1>1, <2>1, <2>2, HashTyped
<1>3. /\ pc'[t] \notin Making /\ pc[t] \notin Making /\ pc'[t] # "m_map"
      /\ pc'[t] \notin {"m_forget", "m_unmap"}
    BY Labels DEF Updating
<1> QED BY ONLY Accounts, mem_used' = mem_used, Others(t), t \in Threads,
          \A q \in Regions : kernel'[q].len = kernel[q].len, <1>2, <1>3, AccountsKept

LEMMA AccountsOut ==
    ASSUME IInv, Accounts, NEW t \in Threads, pc[t] \in Updating \ Making, Out(t),
           UNCHANGED <<mem_used, kernel>>
    PROVE  Accounts'
<1>1. Others(t) /\ pc'[t] = "idle"
    BY LeaveTyped DEF IInv, Out
<1>2. "idle" \notin Making
    BY DEF Making
<1> QED BY <1>1, <1>2, HolderKept

LEMMA MallocAccounts ==
    ASSUME IInv, Accounts, NEW t \in Threads, NEW size \in Sizes, NEW align \in Aligns,
           Malloc(t, size, align)
    PROVE  Accounts'
<1> USE DEF Malloc, At, Goto, tables
<1>1. Others(t) /\ pc'[t] = "m_pick" /\ pc[t] = "idle"
    BY DEF IInv, Typed, Others
<1>2. "idle" \notin Making /\ "m_pick" \notin Making
    BY DEF Making
<1> QED BY <1>1, <1>2, HolderKept

\* Pick() and Unhash() know that the slot they have found is settled.
LEMMA PickAccounts ==
    ASSUME IInv, Accounts, NEW t \in Threads, Pick(t)
    PROVE  Accounts'
<1> USE DEF tables
<1>1. pc[t] = "m_pick" /\ UNCHANGED <<mem_used, kernel>> /\ Typed
    BY DEF Pick, At, IInv
<1>2. "m_pick" \in Updating \ Making
    BY DEF Updating, Making
<1>3. CASE Out(t)
    BY <1>1, <1>2, <1>3, AccountsOut
<1>4. ASSUME NEW l \in Slots, lslot' = [lslot EXCEPT ![t] = l],
             Goto(t, IF list[l].p # Null THEN "m_unhash" ELSE "m_budget"),
             UNCHANGED <<lock, arg, ptr, flags, locked, ret>>
      PROVE  Accounts'
    <2>1. Others(t) /\ pc'[t] \in {"m_unhash", "m_budget"}
        BY <1>1, <1>4 DEF Typed, Others, Goto
    <2>2. {"m_unhash", "m_budget"} \cap Making = {}
        BY DEF Making
    <2> QED BY <1>1, <1>2, <2>1, <2>2, HolderKept
<1> QED BY <1>3, <1>4 DEF Pick

LEMMA UnhashAccounts ==
    ASSUME IInv, Accounts, NEW t \in Threads, Unhash(t)
    PROVE  Accounts'
<1> USE DEF Unhash, At, Goto
<1>1. /\ Typed /\ LockInv /\ SlotsSettled /\ fault = "none" /\ pc[t] = "m_unhash" /\ Working(t)
    BY DEF IInv, Tables, Calls
<1>2. "m_unhash" \in Updating /\ {"m_unhash", "m_forget"} \cap Making = {}
    BY DEF Updating, Making
<1>3. PICK l \in Slots : l = lslot[t]
    BY <1>1 DEF Typed
<1>4. list[l].p # Null
    BY <1>1, <1>3 DEF Working
<1>5. Settled(l)
    <2>1. \A u \in Threads : ~ Between(u)
        BY <1>1, <1>2, Alone DEF Between, Updating
    <2> QED BY <1>1, <2>1 DEF SlotsSettled
<1>6. kernel[list[l].p.r].len = Outer(list[l])
    BY <1>4, <1>5 DEF Settled
<1>7. /\ pc'[t] = "m_forget" /\ ptr'[t].r = list[l].p.r /\ lslot' = lslot /\ Others(t)
      /\ UNCHANGED <<list, mem_used, kernel, arg>>
    BY <1>1, <1>3 DEF Typed, Others
<1>8. MemoryMapped' = MemoryMapped
    BY <1>7, MappedKept
<1>9. \A u \in Threads \ {t} : pc[u] \notin Updating
    BY <1>1, <1>2, Alone
<1>10. \A u \in Threads : pc[u] \notin Making /\ pc'[u] \notin Making
    BY <1>1, <1>2, <1>7, <1>9, Labels DEF Others
<1>11. \A u \in Threads : u # t => pc'[u] # "m_map" /\ pc'[u] \notin {"m_forget", "m_unmap"}
    BY <1>7, <1>9 DEF Others, Updating
<1> HIDE DEF Unhash
<1>12. kernel'[ptr'[t].r].len = Outer(list'[lslot'[t]])
    BY <1>3, <1>6, <1>7
<1> QED BY <1>7, <1>8, <1>10, <1>11, <1>12 DEF Accounts

LEMMA ForgetAccounts ==
    ASSUME IInv, Accounts, NEW t \in Threads, Forget(t)
    PROVE  Accounts'
<1> USE DEF Forget, At, Goto, locals
<1>1. Typed /\ LockInv /\ fault = "none" /\ pc[t] = "m_forget"
    BY DEF IInv
<1>2. "m_forget" \in Updating /\ {"m_unmap", "m_forget"} \cap Making = {}
    BY DEF Updating, Making
<1>3. PICK l \in Slots : l = lslot[t]
    BY <1>1 DEF Typed
<1>4. Outer(list'[l]) = Outer(list[l])
    <2>1. list[l] \in Mapping /\ list' = [list EXCEPT ![l] = [list[l] EXCEPT !.p = Null]]
        BY <1>1, <1>3, MappingTyped DEF Typed
    <2> QED BY <1>1, <2>1 DEF Outer, Typed, Mapping
<1>5. /\ pc'[t] = "m_unmap" /\ Others(t)
      /\ UNCHANGED <<mem_used, kernel, arg, ptr, lslot>>
    BY <1>1 DEF Typed, Others
<1>6. MemoryMapped' = MemoryMapped
    BY <1>5, MappedKept
<1>7. \A u \in Threads \ {t} : pc[u] \notin Updating
    BY <1>1, <1>2, Alone
<1>8. \A u \in Threads : pc[u] \notin Making /\ pc'[u] \notin Making
    BY <1>1, <1>2, <1>5, <1>7, Labels DEF Others
<1>9. \A u \in Threads : u # t => pc'[u] # "m_map" /\ pc'[u] \notin {"m_forget", "m_unmap"}
    BY <1>5, <1>7 DEF Others, Updating
<1> HIDE DEF Forget
<1>10. kernel'[ptr'[t].r].len = Outer(list'[lslot'[t]])
    BY <1>1, <1>3, <1>4, <1>5 DEF Accounts
<1> QED BY <1>5, <1>6, <1>8, <1>9, <1>10 DEF Accounts

LEMMA UnmapAccounts ==
    ASSUME IInv, IInv', Accounts, NEW t \in Threads, Unmap(t)
    PROVE  Accounts'
<1> USE DEF Unmap, At, Goto
<1>1. Typed /\ Typed' /\ LockInv /\ fault = "none" /\ pc[t] = "m_unmap" /\ Working(t)
    BY DEF IInv, Calls
<1>2. "m_unmap" \in Updating /\ {"m_unmap", "m_budget"} \cap Making = {}
    BY DEF Updating, Making
<1>3. PICK r \in Regions : r = ptr[t].r
    BY <1>1, HashTyped DEF Typed, Working
<1>4. kernel[r].len = Outer(list[lslot[t]])
    BY <1>1, <1>3 DEF Accounts
<1>5. kernel'[r].len = 0 /\ \A q \in Regions \ {r} : kernel'[q].len = kernel[q].len
    BY <1>1, <1>3 DEF Typed, Unmapped
<1>6. /\ pc'[t] = "m_budget" /\ Others(t) /\ mem_used' = mem_used - kernel[r].len
    BY <1>1, <1>4 DEF Typed, Others
<1>7. MemoryMapped' = MemoryMapped - kernel[r].len
    <2>1. MemoryMapped' = MemoryMapped - kernel[r].len + kernel'[r].len
        BY <1>1, <1>5, MappedChange
    <2> QED BY <1>1, <1>5, <2>1, MappedSum, Layout DEF Typed
<1>8. \A u \in Threads \ {t} : pc[u] \notin Updating
    BY <1>1, <1>2, Alone
<1>9. \A u \in Threads : pc[u] \notin Making /\ pc'[u] \notin Making
    BY <1>1, <1>2, <1>6, <1>8, Labels DEF Others
<1>10. \A u \in Threads : pc'[u] # "m_map" /\ pc'[u] \notin {"m_forget", "m_unmap"}
    BY <1>6, <1>8 DEF Others, Updating
<1>11. mem_used' = MemoryMapped'
    BY <1>6, <1>7, <1>9 DEF Accounts
<1>12. MemoryMapped' <= MemLimit /\ mem_used' \in Nat
    <2>1. kernel[r].len \in Nat
        BY <1>1, Layout DEF Typed
    <2>2. MemoryMapped \in Nat /\ HmapSize + kernel[r].len <= MemoryMapped
        BY <1>1, MappedSum
    <2> QED BY <1>7, <1>11, <2>1, <2>2, LayoutAssumption DEF Accounts
<1> QED BY <1>9, <1>10, <1>11, <1>12 DEF Accounts

LEMMA BudgetAccounts ==
    ASSUME IInv, Accounts, NEW t \in Threads, Budget(t)
    PROVE  Accounts'
<1> USE DEF tables, locals
<1>1. /\ pc[t] = "m_budget" /\ UNCHANGED <<mem_used, kernel, list>> /\ Typed /\ LockInv
    BY DEF Budget, At, IInv
<1>2. "m_budget" \in Updating \ Making /\ "m_map" \notin Making
    BY DEF Updating, Making
<1>3. CASE Out(t)
    BY <1>1, <1>2, <1>3, AccountsOut
<1>4. CASE /\ mem_used + AlignUp(arg[t].size) <= MemLimit
           /\ Goto(t, "m_map") /\ UNCHANGED <<lock, locals>>
    <2>1. Others(t) /\ pc'[t] = "m_map" /\ arg' = arg
        BY <1>1, <1>4 DEF Typed, Others, Goto
    <2>2. MemoryMapped' = MemoryMapped
        BY <1>1, MappedKept
    <2>3. \A u \in Threads \ {t} : pc[u] \notin Updating
        BY <1>1, <1>2, Alone
    <2>4. \A u \in Threads : pc[u] \notin Making /\ pc'[u] \notin Making
        BY <1>1, <1>2, <2>1, <2>3, Labels DEF Others
    <2>5. \A u \in Threads : /\ pc'[u] = "m_map" => u = t
                             /\ pc'[u] \notin {"m_forget", "m_unmap"}
        BY <2>1, <2>3 DEF Others, Updating
    <2>6. mem_used' + AlignUp(arg'[t].size) <= MemLimit
        BY <1>1, <1>4, <2>1
    <2> QED BY <1>1, <2>2, <2>4, <2>5, <2>6 DEF Accounts, AlignUp
<1> QED BY <1>3, <1>4 DEF Budget

LEMMA MapAccounts ==
    ASSUME IInv, IInv', Accounts, NEW t \in Threads, Map(t)
    PROVE  Accounts'
<1> USE DEF tables
<1>1. /\ pc[t] = "m_map" /\ UNCHANGED <<mem_used, list>> /\ Typed /\ Typed' /\ LockInv
    BY DEF Map, At, IInv
<1>2. "m_map" \in Updating \ Making /\ "m_hash" \in Making
    BY DEF Updating, Making
<1>3. CASE Out(t) /\ UNCHANGED kernel
    BY <1>1, <1>2, <1>3, AccountsOut
<1>4. CASE UNCHANGED <<kernel, ptr, pc, arg, lslot>>
    <2>1. MemoryMapped' = MemoryMapped
        BY <1>4, MappedKept
    <2> QED BY <1>1, <1>4, <2>1 DEF Accounts, AlignUp, Outer
<1>5. ASSUME NEW r \in Regions, kernel[r].len = 0, UNCHANGED <<arg, lslot, locked, ret>>,
             Goto(t, "m_hash"), ptr' = [ptr EXCEPT ![t] = [r |-> r, o |-> MaxAlign]],
             LET outer == AlignUp(arg[t].size) IN
               kernel' = [kernel EXCEPT ![r] =
                            [len |-> outer, open |-> PagesOf(MaxAlign, outer)]]
      PROVE  Accounts'
    <2>1. Others(t) /\ pc'[t] = "m_hash"
        BY <1>1, <1>5 DEF Typed, Others, Goto
    <2>2. PICK outer : outer = AlignUp(arg[t].size)
        OBVIOUS
    <2>3. outer \in Nat
        BY <1>1, <2>2, Alignment, Layout DEF Typed
    <2>4. kernel'[r].len = outer /\ \A q \in Regions \ {r} : kernel'[q].len = kernel[q].len
        BY <1>1, <1>5, <2>2 DEF Typed
    <2>5. MemoryMapped' = MemoryMapped + outer
        <3>1. MemoryMapped' = MemoryMapped - kernel[r].len + kernel'[r].len
            BY <1>1, <2>4, MappedChange
        <3> QED BY <1>1, <1>5, <2>3, <2>4, <3>1, MappedSum
    <2>6. \A u \in Threads \ {t} : pc[u] \notin Updating
        BY <1>1, <1>2, Alone
    <2>7. \A u \in Threads : /\ pc[u] \notin Making /\ (pc'[u] \in Making => u = t)
                             /\ pc'[u] # "m_map" /\ pc'[u] \notin {"m_forget", "m_unmap"}
        BY <1>1, <1>2, <2>1, <2>6, Labels DEF Others, Updating
    <2>8. mem_used = MemoryMapped /\ mem_used + outer <= MemLimit
        BY <1>1, <2>2, <2>7 DEF Accounts
    <2>9. mem_used' + AlignUp(arg'[t].size) = MemoryMapped' /\ MemoryMapped' <= MemLimit
        BY <1>1, <1>5, <2>2, <2>5, <2>8
    <2> QED BY <1>1, <1>2, <2>1, <2>7, <2>9 DEF Accounts, AlignUp
<1> QED BY <1>3, <1>4, <1>5 DEF Map

\* The table is filled while the new mapping is not counted.
LEMMA MakingAccounts ==
    ASSUME IInv, Accounts, NEW t \in Threads,
           EnterHash(t) \/ SetP(t) \/ SetSize(t) \/ SetFlags(t) \/ Shift(t) \/ SetFrontpad(t)
    PROVE  Accounts'
<1> USE DEF At, Goto, locals
<1>1. /\ pc[t] \in {"m_hash", "m_p", "m_size", "m_flags", "m_shift", "m_frontpad"}
      /\ UNCHANGED <<mem_used, kernel, arg, ptr, lslot, locked, ret>>
      /\ \E l \in {"m_p", "m_size", "m_flags", "m_shift", "m_frontpad", "m_return"} :
           pc' = [pc EXCEPT ![t] = l]
    BY DEF EnterHash, SetP, SetSize, SetFlags, Shift, SetFrontpad
<1>2. /\ Others(t)
      /\ pc'[t] \in {"m_p", "m_size", "m_flags", "m_shift", "m_frontpad", "m_return"}
    BY <1>1 DEF IInv, Typed, Others
<1>3. pc[t] \in Making /\ pc[t] \in Updating /\ pc'[t] \in Making
    BY <1>1, <1>2 DEF Making, Updating
<1> QED BY <1>1, <1>2, <1>3, HolderKept

LEMMA ReturnObjectAccounts ==
    ASSUME IInv, Accounts, NEW t \in Threads, ReturnObject(t)
    PROVE  Accounts'
<1> USE DEF ReturnObject, At
<1>1. Typed /\ LockInv /\ pc[t] = "m_return" /\ Leave(t) /\ kernel' = kernel
    BY DEF IInv, Out
<1>2. "m_return" \in Updating /\ "m_return" \in Making /\ "idle" \notin Updating
    BY DEF Updating, Making
<1>3. Others(t) /\ pc'[t] = "idle"
    BY <1>1, LeaveTyped
<1>4. MemoryMapped' = MemoryMapped /\ mem_used' = MemoryMapped
    BY <1>1, <1>2, MappedKept DEF Accounts
<1>5. \A u \in Threads : pc'[u] \notin Updating
    BY <1>1, <1>2, <1>3, Alone DEF Others
<1>6. \A u \in Threads : /\ pc'[u] \notin Making /\ pc'[u] # "m_map"
                         /\ pc'[u] \notin {"m_forget", "m_unmap"}
    BY <1>5, Labels DEF Updating
<1>7. MemoryMapped \in Nat
    BY <1>1, MappedSum
<1> QED BY <1>4, <1>6, <1>7 DEF Accounts

LEMMA FreeAccounts ==
    ASSUME IInv, Accounts, NEW t \in Threads,
           (\E obj \in live : Free(t, obj)) \/ Lock(t) \/ ClearUsed(t) \/ Protect(t)
    PROVE  Accounts'
<1> USE DEF At, Goto, tables, locals
<1>1. Typed
    BY DEF IInv
<1>2. {"idle", "f_lock", "f_used", "f_protect"} \cap Making = {}
    BY DEF Making
<1>3. CASE \E obj \in live : Free(t, obj)
    <2>1. Others(t) /\ pc[t] = "idle" /\ pc'[t] = "f_lock" /\ fault = "none"
          /\ UNCHANGED <<mem_used, kernel, list>>
        BY <1>1, <1>3 DEF Typed, Others, Free
    <2>2. "idle" \notin Updating /\ "f_lock" \notin Updating
        BY DEF Updating
    <2> QED BY <2>1, <2>2, LookerKept
<1>4. CASE Lock(t)
    <2>1. Others(t) /\ pc[t] = "f_lock" /\ pc'[t] = "f_used" /\ lock = Nobody
          /\ UNCHANGED <<mem_used, kernel, arg>>
        BY <1>1, <1>4 DEF Typed, Others, Lock
    <2> QED BY <1>2, <2>1, HolderKept
<1>5. CASE ClearUsed(t)
    <2>1. Others(t) /\ pc[t] = "f_used" /\ pc'[t] = "f_protect"
          /\ UNCHANGED <<mem_used, kernel, arg>>
        BY <1>1, <1>5 DEF Typed, Others, ClearUsed
    <2>2. "f_used" \in Updating
        BY DEF Updating
    <2> QED BY <1>2, <2>1, <2>2, HolderKept
<1>6. CASE Protect(t)
    <2>1. pc[t] = "f_protect" /\ Leave(t) /\ mem_used' = mem_used
        BY <1>6 DEF Protect, Out
    <2>2. Others(t) /\ pc'[t] = "idle"
        BY <1>1, <2>1, LeaveTyped
    <2>3. \A q \in Regions : kernel'[q].len = kernel[q].len
        BY <1>1, <1>6 DEF Protect, Typed
    <2>4. "f_protect" \in Updating
        BY DEF Updating
    <2> QED BY <1>2, <2>1, <2>2, <2>3, <2>4, HolderKept
<1> QED BY <1>3, <1>4, <1>5, <1>6

LEMMA HandlerAccounts ==
    ASSUME IInv, Accounts, NEW t \in Threads,
           \/ \E r \in Regions, o \in Touched : Fault(t, [r |-> r, o |-> o])
           \/ Find(t) \/ Match(t) \/ CheckRange(t) \/ WriteFlags(t) \/ Open(t)
           \/ ReturnHandler(t)
    PROVE  Accounts'
<1> USE DEF At, Goto, tables, locals
<1>1. Typed
    BY DEF IInv
<1>2. /\ {"idle", "s_find", "s_match", "s_range", "s_flags", "s_open", "s_return"}
           \cap Updating = {}
    BY DEF Updating
<1>3. CASE \E r \in Regions, o \in Touched : Fault(t, [r |-> r, o |-> o])
    <2>1. PICK r \in Regions, o \in Touched : Fault(t, [r |-> r, o |-> o])
        BY <1>3
    <2>2. Others(t) /\ pc[t] = "idle" /\ pc'[t] = "s_find" /\ fault = "none"
          /\ UNCHANGED <<mem_used, kernel, list>>
        BY <1>1, <2>1 DEF Typed, Others, Fault
    <2> QED BY <1>2, <2>2, LookerKept
<1>4. CASE Find(t) \/ Match(t) \/ CheckRange(t)
    <2>1. Others(t) /\ pc[t] \in {"s_find", "s_match", "s_range"} /\ fault = "none"
          /\ pc'[t] \in {"s_match", "s_range", "s_flags", "s_return"}
          /\ UNCHANGED <<mem_used, kernel, list>>
        BY <1>1, <1>4 DEF Typed, Others, Find, Match, CheckRange
    <2> QED BY <1>2, <2>1, LookerKept
<1>5. CASE WriteFlags(t)
    <2>1. Others(t) /\ pc[t] = "s_flags" /\ pc'[t] = "s_open" /\ fault = "none"
          /\ UNCHANGED <<mem_used, kernel>>
        BY <1>1, <1>5 DEF Typed, Others, WriteFlags
    <2>2. \A l \in Slots : Outer(list'[l]) = Outer(list[l])
        BY <1>1, <1>5 DEF Typed, WriteFlags, Outer, Mapping
    <2> QED BY <1>2, <2>1, <2>2, LookerKept
<1>6. CASE Open(t)
    <2>1. Others(t) /\ pc[t] = "s_open" /\ pc'[t] = "s_return" /\ fault = "none"
          /\ UNCHANGED <<mem_used, list>>
        BY <1>1, <1>6 DEF Typed, Others, Open
    <2>2. \A q \in Regions : kernel'[q].len = kernel[q].len
        BY <1>1, <1>6 DEF Open, Typed
    <2> QED BY <1>2, <2>1, <2>2, LookerKept
<1>7. CASE ReturnHandler(t)
    <2>1. pc[t] = "s_return" /\ Leave(t) /\ fault = "none" /\ UNCHANGED <<mem_used, kernel, list>>
        BY <1>7 DEF ReturnHandler
    <2>2. Others(t) /\ pc'[t] = "idle"
        BY <1>1, <2>1, LeaveTyped
    <2> QED BY <1>2, <2>1, <2>2, LookerKept
<1> QED BY <1>3, <1>4, <1>5, <1>6, <1>7

LEMMA InitialAccounts == Init => Accounts
<1> SUFFICES ASSUME Init PROVE Accounts
    OBVIOUS
<1>1. Typed
    BY Initial DEF IInv
<1>2. SumFunctionOnSet(Mappings, Regions) = 0
    <2>1. \A r \in Regions : Mappings[r] = 0
        BY DEF Init, Unmapped, Mappings
    <2>2. PICK f : f = Mappings
        OBVIOUS
    <2> QED BY <2>1, <2>2, RegionAssumption, SumZero
<1>3. MemoryMapped = HmapSize /\ HmapSize \in 0 .. MemLimit
    BY <1>1, <1>2, MappedSum, LayoutAssumption
<1>4. \A t \in Threads : pc[t] = "idle"
    BY DEF Init
<1> QED BY <1>3, <1>4, Layout DEF Init, Accounts, Making

LEMMA InductiveAccounts == IInv /\ IInv' /\ Accounts /\ [Next]_vars => Accounts'
<1> SUFFICES ASSUME IInv, IInv', Accounts, [Next]_vars PROVE Accounts'
    OBVIOUS
<1>1. ASSUME UNCHANGED <<mem_used, list, kernel, pc, arg, ptr, lslot>> PROVE Accounts'
    <2>1. MemoryMapped' = MemoryMapped
        BY <1>1, MappedKept
    <2> QED BY <1>1, <2>1 DEF Accounts, AlignUp, Outer
<1>2. CASE UNCHANGED vars \/ Stopped \/ Tick
    BY <1>1, <1>2 DEF vars, tables, time, locals, Stopped, Tick
<1>3. ASSUME NEW t \in Threads, NEW size \in Sizes, NEW align \in Aligns, Malloc(t, size, align)
      PROVE  Accounts'
    BY <1>3, MallocAccounts
<1>4. ASSUME NEW t \in Threads, NEW obj \in live, Free(t, obj) PROVE Accounts'
    BY <1>4, FreeAccounts
<1>5. ASSUME NEW t \in Threads, NEW r \in Regions, NEW o \in Touched,
             Fault(t, [r |-> r, o |-> o])
      PROVE  Accounts'
    BY <1>5, HandlerAccounts
<1>6. ASSUME NEW t \in Threads, Lock(t) \/ Step(t) PROVE Accounts'
    BY <1>6, PickAccounts, UnhashAccounts, ForgetAccounts, UnmapAccounts, BudgetAccounts,
       MapAccounts, MakingAccounts, ReturnObjectAccounts, FreeAccounts, HandlerAccounts DEF Step
<1> QED BY <1>2, <1>3, <1>4, <1>5, <1>6 DEF Next

\* The memory mapped stays below the limit given to ufence_init(), also while
\* malloc() purges an old object to make room for a new one, and mem_used is
\* exact whenever nobody is changing the tables: whatever is added for an
\* object is what its purge will subtract.
THEOREM Limit == Spec => []LimitInv
<1>1. IInv /\ Accounts => LimitInv
    <2> SUFFICES ASSUME IInv, Accounts PROVE LimitInv
        OBVIOUS
    <2>1. TypeOK /\ MemoryMapped <= MemLimit
        BY DEF IInv, Accounts, TypeOK
    <2>2. Quiet => mem_used = MemoryMapped
        BY Labels DEF Quiet, Accounts
    <2> QED BY <2>1, <2>2 DEF LimitInv
<1>2. Spec => [](IInv /\ Accounts)
    <2>1. Init => IInv /\ Accounts
        BY Initial, InitialAccounts
    <2>2. IInv /\ Accounts /\ [Next]_vars => (IInv /\ Accounts)'
        BY Inductive, InductiveAccounts
    <2> QED BY <2>1, <2>2, PTL DEF Spec
<1> QED BY <1>1, <1>2, PTL
=============================================================================
