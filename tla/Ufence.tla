------------------------------- MODULE Ufence -------------------------------
(***************************************************************************)
(* The guard page allocator of ufence.c.  An object lives in a region of   *)
(* its own between two guards.  A list slot describes it, and a hash table *)
(* without collisions leads from any address of the region to the slot.    *)
(*                                                                         *)
(* Whatever malloc and free do happens under ufence_lock.  The signal      *)
(* handler takes the lock only if it is free and works without it          *)
(* otherwise, so every store it can see is a step of its own.              *)
(*                                                                         *)
(* A pointer is a region and an offset into it.  The time is abstracted to *)
(* whether a slot's last free is a minute old (the set ripe).  FL_FAULT,   *)
(* the backtraces and allocation times are only printed and left out.      *)
(***************************************************************************)
EXTENDS Integers, FiniteSets, Functions

CONSTANTS Threads,
          Nobody,      \* owner of a free lock
          Regions,     \* the numbers of the regions tried, 0 excluded
          Hash,        \* region -> slot of the hash table: lothash()
          Page, Guard, MaxAlign,  \* PAGE_SIZE, GUARD_SIZE, MAX_ALIGN
          MemLimit, HmapSize,     \* the limit and what it loses to the tables
          Sizes, Aligns,          \* the sizes and alignments asked for
          Touched,     \* offsets at which stray accesses happen
          MaxFaults    \* bound: number of segmentation faults

MaxAlloc == MaxAlign - Guard

\* lines 200-205; the limit itself is within its bounds.
ListSize == MemLimit \div (2 * Page)
HtableSize == MemLimit \div (Page \div 2)

ASSUME LayoutAssumption ==
    /\ Page \in Nat \ {0} /\ Page % 2 = 0
    /\ Guard \in Nat \ {0} /\ Guard % Page = 0
    /\ MaxAlign \in Nat /\ MaxAlign % Page = 0 /\ MaxAlign > Guard
    /\ MemLimit \in Nat /\ MemLimit >= 2 * Page
    /\ HmapSize \in 0 .. MemLimit
ASSUME RegionAssumption ==
    /\ Regions \subseteq Nat \ {0} /\ IsFiniteSet(Regions)
    /\ Hash \in [Regions -> 0 .. HtableSize - 1]
ASSUME InputAssumption ==
    /\ Sizes \subseteq 0 .. MaxAlloc /\ Aligns \subseteq 1 .. MaxAlign
    /\ Touched \subseteq 0 .. 2 * MaxAlign - 1
ASSUME LockAssumption == Nobody \notin Threads

Slots == 0 .. ListSize - 1
Null == [r |-> 0, o |-> 0]
Pointer == [r : Regions \union {0}, o : 0 .. 2 * MaxAlign - 1]
Flags == {"USED", "FRONTPAD"}
Mapping == [p : Pointer, size : 0 .. MaxAlloc, pad : 0 .. Page - 1,
            flags : SUBSET Flags]
Pages == 0 .. (2 * MaxAlign) \div Page - 1

VARIABLES
    lock,        \* ufence_lock
    list,        \* the list slots
    htable,      \* the hash table
    mem_used,
    ripe,        \* the slots whose free_time is at least 60 seconds ago
    kernel,      \* region -> [len: of the object, open: accessible pages]
    pc,
    arg,         \* malloc: [size, align] of the call
    ptr,         \* malloc: the new mapping; free, handler: the argument p
    lslot,       \* the local variable of this name
    flags,       \* handler: m->flags as it was read
    locked, ret, \* handler: the local variables of these names
    live,        \* history: the objects handed out and not freed
    dead,        \* history: the objects freed less than 60 seconds ago
    faults,      \* number of segmentation faults so far
    fault        \* "none", or what stopped the program

tables == <<list, htable, mem_used>>
time == <<ripe, dead>>
locals == <<arg, ptr, lslot, flags, locked, ret>>
vars == <<lock, tables, time, kernel, pc, locals, live, faults, fault>>

Unmapped == [len |-> 0, open |-> {}]
Empty == [p |-> Null, size |-> 0, pad |-> 0, flags |-> {}]

\* ufence_init().  Every free_time is 0: that is less than a minute ago if
\* the machine has just been started.
Init ==
    /\ lock = Nobody
    /\ list = [l \in Slots |-> Empty]
    /\ htable = [h \in 0 .. HtableSize - 1 |-> 0]
    /\ mem_used = HmapSize
    /\ ripe \in {{}, Slots}
    /\ kernel = [r \in Regions |-> Unmapped]
    /\ pc = [t \in Threads |-> "idle"]
    /\ arg = [t \in Threads |-> [size |-> 0, align |-> 1]]
    /\ ptr = [t \in Threads |-> Null]
    /\ lslot = [t \in Threads |-> 0]
    /\ flags = [t \in Threads |-> {}]
    /\ locked = [t \in Threads |-> FALSE]
    /\ ret = [t \in Threads |-> 0]
    /\ live = {} /\ dead = {}
    /\ faults = 0 /\ fault = "none"

-----------------------------------------------------------------------------
(* Pieces of code *)

At(t, label) == fault = "none" /\ pc[t] = label
Goto(t, label) == pc' = [pc EXCEPT ![t] = label]

\* The end of a call: its locals go out of scope.
Leave(t) ==
    /\ Goto(t, "idle")
    /\ arg' = [arg EXCEPT ![t] = [size |-> 0, align |-> 1]]
    /\ ptr' = [ptr EXCEPT ![t] = Null]
    /\ lslot' = [lslot EXCEPT ![t] = 0]
    /\ flags' = [flags EXCEPT ![t] = {}]
    /\ locked' = [locked EXCEPT ![t] = FALSE]
    /\ ret' = [ret EXCEPT ![t] = 0]

\* "out: unlock_pi(&ufence_lock); return NULL"
Out(t) == lock' = Nobody /\ Leave(t)

AlignUp(n) == ((n + Page - 1) \div Page) * Page
Outer(m) == m.size + m.pad
Start(m) == IF "FRONTPAD" \in m.flags THEN m.p.o - m.pad ELSE m.p.o
PagesOf(start, len) ==
    {k \in Pages : k * Page < start + len /\ start < (k + 1) * Page}
Accessible(a) == a.o \div Page \in kernel[a.r].open
\* The pages of the object in region r and of its guards.
MappedPages(r) ==
    IF kernel[r].len = 0 THEN {}
    ELSE PagesOf(MaxAlign - Guard, kernel[r].len + 2 * Guard)
\* Line 405, for the slot as it is at this moment.
InRange(a, m) ==
    a.r = m.p.r /\ m.p.o - Guard < a.o /\ a.o < m.p.o + m.size + Guard

-----------------------------------------------------------------------------
(* Plausible bugs.  Each is a variant of the action it names, that the     *)
(* project's runs must tell from the real one; none is part of the         *)
(* specification.                                                          *)

\* Pick that takes a slot in use.
PickUsed(t) ==
    /\ At(t, "m_pick")
    /\ \E l \in Slots :
         \/ (l = 0 \/ l \notin ripe) /\ Out(t)
         \/ /\ l # 0 /\ l \in ripe
            /\ lslot' = [lslot EXCEPT ![t] = l]
            /\ Goto(t, IF list[l].p # Null THEN "m_unhash" ELSE "m_budget")
            /\ UNCHANGED <<lock, arg, ptr, flags, locked, ret>>
    /\ UNCHANGED <<tables, time, kernel, live, faults, fault>>

\* Pick that takes a slot in quarantine.
PickAtOnce(t) ==
    /\ At(t, "m_pick")
    /\ \E l \in Slots :
         \/ (l = 0 \/ "USED" \in list[l].flags) /\ Out(t)
         \/ /\ l # 0 /\ "USED" \notin list[l].flags
            /\ lslot' = [lslot EXCEPT ![t] = l]
            /\ Goto(t, IF list[l].p # Null THEN "m_unhash" ELSE "m_budget")
            /\ UNCHANGED <<lock, arg, ptr, flags, locked, ret>>
    /\ UNCHANGED <<tables, time, kernel, live, faults, fault>>

\* Unhash that leaves the entry in the hash table.
KeepHash(t) ==
    /\ At(t, "m_unhash")
    /\ LET m == list[lslot[t]] IN
         ptr' = [ptr EXCEPT ![t] = [r |-> m.p.r, o |-> Start(m)]]
    /\ Goto(t, "m_forget")
    /\ UNCHANGED <<lock, tables, time, kernel, arg, lslot, flags, locked, ret,
                   live, faults, fault>>

\* Budget that does not count the new object.
IgnoreSize(t) ==
    /\ At(t, "m_budget")
    /\ \/ /\ mem_used <= MemLimit
          /\ Goto(t, "m_map")
          /\ UNCHANGED <<lock, locals>>
       \/ Out(t)
    /\ UNCHANGED <<tables, time, kernel, live, faults, fault>>

\* Budget that returns with the lock held.
ReturnLocked(t) ==
    /\ At(t, "m_budget")
    /\ \/ /\ mem_used + AlignUp(arg[t].size) <= MemLimit
          /\ Goto(t, "m_map")
          /\ UNCHANGED locals
       \/ Leave(t)
    /\ UNCHANGED <<lock, tables, time, kernel, live, faults, fault>>

\* ReturnObject that returns the start of the mapping.
ReturnStart(t) ==
    /\ At(t, "m_return")
    /\ mem_used' = mem_used + AlignUp(arg[t].size)
    /\ live' = live \union {[p |-> ptr[t], size |-> arg[t].size,
                             align |-> arg[t].align]}
    /\ Out(t)
    /\ UNCHANGED <<list, htable, time, kernel, faults, fault>>

-----------------------------------------------------------------------------
(* ufence_malloc() and ufence_memalign() *)

\* The call, up to line 261.  If the lock is taken, NULL is returned at once.
Malloc(t, size, align) ==
    /\ At(t, "idle") /\ lock = Nobody
    /\ lock' = t
    /\ arg' = [arg EXCEPT ![t] = [size |-> size, align |-> align]]
    /\ Goto(t, "m_pick")
    /\ UNCHANGED <<tables, time, kernel, ptr, lslot, flags, locked, ret, live,
                   faults, fault>>

\* Lines 264-270: a random slot, unless it is in use or in quarantine.
Pick(t) ==
    /\ At(t, "m_pick")
    /\ \E l \in Slots :
         \/ /\ l = 0 \/ "USED" \in list[l].flags \/ l \notin ripe
            /\ Out(t)
         \/ /\ l # 0 /\ "USED" \notin list[l].flags /\ l \in ripe
            /\ lslot' = [lslot EXCEPT ![t] = l]
            /\ Goto(t, IF list[l].p # Null THEN "m_unhash" ELSE "m_budget")
            /\ UNCHANGED <<lock, arg, ptr, flags, locked, ret>>
    /\ UNCHANGED <<tables, time, kernel, live, faults, fault>>

\* Lines 272-277.
Unhash(t) ==
    /\ At(t, "m_unhash")
    /\ LET m == list[lslot[t]] IN
         /\ ptr' = [ptr EXCEPT ![t] = [r |-> m.p.r, o |-> Start(m)]]
         /\ htable' = [htable EXCEPT ![Hash[m.p.r]] = 0]
    /\ Goto(t, "m_forget")
    /\ UNCHANGED <<lock, list, mem_used, time, kernel, arg, lslot, flags, locked,
                   ret, live, faults, fault>>

\* Line 278.
Forget(t) ==
    /\ At(t, "m_forget")
    /\ list' = [list EXCEPT ![lslot[t]].p = Null]
    /\ Goto(t, "m_unmap")
    /\ UNCHANGED <<lock, htable, mem_used, time, kernel, locals, live, faults, fault>>

\* Lines 279-280.
Unmap(t) ==
    /\ At(t, "m_unmap")
    /\ kernel' = [kernel EXCEPT ![ptr[t].r] = Unmapped]
    /\ mem_used' = mem_used - Outer(list[lslot[t]])
    /\ ptr' = [ptr EXCEPT ![t] = Null]
    /\ Goto(t, "m_budget")
    /\ UNCHANGED <<lock, list, htable, time, arg, lslot, flags, locked, ret, live,
                   faults, fault>>

\* Lines 283-286: the random number is 0 at best; it may always be too large.
Budget(t) ==
    /\ At(t, "m_budget")
    /\ \/ /\ mem_used + AlignUp(arg[t].size) <= MemLimit
          /\ Goto(t, "m_map")
          /\ UNCHANGED <<lock, locals>>
       \/ Out(t)
    /\ UNCHANGED <<tables, time, kernel, live, faults, fault>>

\* Lines 287-304: map a region whose hash slot is free, or fail ten times.
\* The mapping of an empty object fails with an assertion (line 157).
Map(t) ==
    /\ At(t, "m_map")
    /\ \/ \E r \in Regions :
            /\ htable[Hash[r]] = 0
            /\ IF arg[t].size = 0
               THEN fault' = "mmap failed" /\ UNCHANGED <<kernel, ptr, pc>>
               ELSE LET outer == AlignUp(arg[t].size) IN
                    /\ kernel[r].len = 0
                    /\ kernel' = [kernel EXCEPT ![r] =
                         [len |-> outer, open |-> PagesOf(MaxAlign, outer)]]
                    /\ ptr' = [ptr EXCEPT ![t] = [r |-> r, o |-> MaxAlign]]
                    /\ Goto(t, "m_hash")
                    /\ UNCHANGED fault
            /\ UNCHANGED <<lock, arg, lslot, flags, locked, ret>>
       \/ Out(t) /\ UNCHANGED <<kernel, fault>>
    /\ UNCHANGED <<tables, time, live, faults>>

\* Line 305.
EnterHash(t) ==
    /\ At(t, "m_hash")
    /\ htable' = [htable EXCEPT ![Hash[ptr[t].r]] = lslot[t]]
    /\ Goto(t, "m_p")
    /\ UNCHANGED <<lock, list, mem_used, time, kernel, locals, live, faults, fault>>

\* Line 308.
SetP(t) ==
    /\ At(t, "m_p")
    /\ list' = [list EXCEPT ![lslot[t]].p = ptr[t]]
    /\ Goto(t, "m_size")
    /\ UNCHANGED <<lock, htable, mem_used, time, kernel, locals, live, faults, fault>>

\* Lines 309-310.
SetSize(t) ==
    /\ At(t, "m_size")
    /\ list' = [list EXCEPT
         ![lslot[t]].size = arg[t].size,
         ![lslot[t]].pad = AlignUp(arg[t].size) - arg[t].size]
    /\ Goto(t, "m_flags")
    /\ UNCHANGED <<lock, htable, mem_used, time, kernel, locals, live, faults, fault>>

\* Lines 311-312: whatever the caller asked for, the object may be moved.
SetFlags(t) ==
    /\ At(t, "m_flags")
    /\ list' = [list EXCEPT ![lslot[t]].flags = {"USED"}]
    /\ \/ Goto(t, "m_return")
       \/ list[lslot[t]].pad > 0 /\ Goto(t, "m_shift")
    /\ UNCHANGED <<lock, htable, mem_used, time, kernel, locals, live, faults, fault>>

\* Lines 313-314, the second in the next step.
Shift(t) ==
    /\ At(t, "m_shift")
    /\ list' = [list EXCEPT ![lslot[t]].p.o = @ + list[lslot[t]].pad]
    /\ Goto(t, "m_frontpad")
    /\ UNCHANGED <<lock, htable, mem_used, time, kernel, locals, live, faults, fault>>

SetFrontpad(t) ==
    /\ At(t, "m_frontpad")
    /\ list' = [list EXCEPT ![lslot[t]].flags = @ \union {"FRONTPAD"}]
    /\ Goto(t, "m_return")
    /\ UNCHANGED <<lock, htable, mem_used, time, kernel, locals, live, faults, fault>>

\* Lines 317-323.
ReturnObject(t) ==
    /\ At(t, "m_return")
    /\ mem_used' = mem_used + AlignUp(arg[t].size)
    /\ live' = live \union {[p |-> list[lslot[t]].p, size |-> arg[t].size,
                             align |-> arg[t].align]}
    /\ Out(t)
    /\ UNCHANGED <<list, htable, time, kernel, faults, fault>>

-----------------------------------------------------------------------------
(* ufence_free() *)

\* The call: from here on the caller does not use the object any more.
Free(t, obj) ==
    /\ At(t, "idle")
    /\ live' = live \ {obj}
    /\ ptr' = [ptr EXCEPT ![t] = obj.p]
    /\ Goto(t, "f_lock")
    /\ UNCHANGED <<lock, tables, time, kernel, arg, lslot, flags, locked, ret,
                   faults, fault>>

\* Line 328.
Lock(t) ==
    /\ At(t, "f_lock") /\ lock = Nobody
    /\ lock' = t
    /\ Goto(t, "f_used")
    /\ UNCHANGED <<tables, time, kernel, locals, live, faults, fault>>

\* Lines 329-336.
ClearUsed(t) ==
    /\ At(t, "f_used")
    /\ LET l == htable[Hash[ptr[t].r]]
           m == list[l]
       IN /\ lslot' = [lslot EXCEPT ![t] = l]
          /\ ripe' = ripe \ {l}
          /\ list' = [list EXCEPT ![l].flags = @ \ {"USED"}]
          /\ dead' = dead \union {[p |-> ptr[t], size |-> m.size]}
          /\ fault' = IF ptr[t] = m.p THEN "none" ELSE "free of an unknown object"
    /\ Goto(t, "f_protect")
    /\ UNCHANGED <<lock, htable, mem_used, kernel, arg, ptr, flags, locked, ret,
                   live, faults>>

\* Lines 337-341.
Protect(t) ==
    /\ At(t, "f_protect")
    /\ LET m == list[lslot[t]] IN
         kernel' = [kernel EXCEPT ![m.p.r].open = @ \ PagesOf(Start(m), Outer(m))]
    /\ Out(t)
    /\ UNCHANGED <<tables, time, live, faults, fault>>

-----------------------------------------------------------------------------
(* ufence_segfault() *)

\* A stray access; the handler takes the lock if it can (line 372).
Fault(t, a) ==
    /\ At(t, "idle") /\ faults < MaxFaults /\ ~ Accessible(a)
    /\ faults' = faults + 1
    /\ ptr' = [ptr EXCEPT ![t] = a]
    /\ locked' = [locked EXCEPT ![t] = (lock = Nobody)]
    /\ lock' = IF lock = Nobody THEN t ELSE lock
    /\ Goto(t, "s_find")
    /\ UNCHANGED <<tables, time, kernel, arg, lslot, flags, ret, live, fault>>

\* Lines 375-377.
Find(t) ==
    /\ At(t, "s_find")
    /\ lslot' = [lslot EXCEPT ![t] = htable[Hash[ptr[t].r]]]
    /\ Goto(t, "s_match")
    /\ UNCHANGED <<lock, tables, time, kernel, arg, ptr, flags, locked, ret, live,
                   faults, fault>>

\* Line 378.
Match(t) ==
    /\ At(t, "s_match")
    /\ Goto(t, IF list[lslot[t]].p.r = ptr[t].r THEN "s_range" ELSE "s_return")
    /\ UNCHANGED <<lock, tables, time, kernel, locals, live, faults, fault>>

\* Line 405, and the first half of line 407.
CheckRange(t) ==
    /\ At(t, "s_range")
    /\ \/ /\ InRange(ptr[t], list[lslot[t]])
          /\ flags' = [flags EXCEPT ![t] = list[lslot[t]].flags]
          /\ Goto(t, "s_flags")
       \/ /\ ~ InRange(ptr[t], list[lslot[t]])
          /\ Goto(t, "s_return")
          /\ UNCHANGED flags
    /\ UNCHANGED <<lock, tables, time, kernel, arg, ptr, lslot, locked, ret, live,
                   faults, fault>>

\* The second half: m->flags |= FL_FAULT is no atomic instruction.  If the
\* other flags changed in between they are lost; the model ends there.
WriteFlags(t) ==
    /\ At(t, "s_flags")
    /\ fault' = IF flags[t] = list[lslot[t]].flags THEN "none" ELSE "flags lost"
    /\ list' = [list EXCEPT ![lslot[t]].flags = flags[t]]
    /\ Goto(t, "s_open")
    /\ UNCHANGED <<lock, htable, mem_used, time, kernel, locals, live, faults>>

\* Lines 408-410; mprotect() fails on what is no longer mapped.
Open(t) ==
    /\ At(t, "s_open")
    /\ kernel' = [kernel EXCEPT ![ptr[t].r].open =
         @ \union ({ptr[t].o \div Page} \cap MappedPages(ptr[t].r))]
    /\ ret' = [ret EXCEPT ![t] = 1]
    /\ Goto(t, "s_return")
    /\ UNCHANGED <<lock, tables, time, arg, ptr, lslot, flags, locked, live,
                   faults, fault>>

\* Lines 413-415.
ReturnHandler(t) ==
    /\ At(t, "s_return")
    /\ lock' = IF locked[t] THEN Nobody ELSE lock
    /\ Leave(t)
    /\ UNCHANGED <<tables, time, kernel, live, faults, fault>>

-----------------------------------------------------------------------------
\* A minute passes.
Tick ==
    /\ fault = "none" /\ ripe # Slots
    /\ ripe' = Slots
    /\ dead' = {}
    /\ UNCHANGED <<lock, tables, kernel, pc, locals, live, faults, fault>>

\* The steps of a thread that is inside a call, but for taking the lock.
Step(t) ==
    \/ Pick(t) \/ Unhash(t) \/ Forget(t) \/ Unmap(t) \/ Budget(t) \/ Map(t)
    \/ EnterHash(t) \/ SetP(t) \/ SetSize(t) \/ SetFlags(t) \/ Shift(t)
    \/ SetFrontpad(t) \/ ReturnObject(t)
    \/ ClearUsed(t) \/ Protect(t)
    \/ Find(t) \/ Match(t) \/ CheckRange(t) \/ WriteFlags(t) \/ Open(t)
    \/ ReturnHandler(t)

\* Failed assertions abort the program.
Stopped == fault # "none" /\ UNCHANGED vars

Next ==
    \/ \E t \in Threads :
         \/ \E size \in Sizes, align \in Aligns : Malloc(t, size, align)
         \/ \E obj \in live : Free(t, obj)
         \/ \E r \in Regions, o \in Touched : Fault(t, [r |-> r, o |-> o])
         \/ Lock(t) \/ Step(t)
    \/ Tick \/ Stopped

Spec == Init /\ [][Next]_vars

-----------------------------------------------------------------------------
(* Correctness *)

Updating == {"m_pick", "m_unhash", "m_forget", "m_unmap", "m_budget", "m_map",
             "m_hash", "m_p", "m_size", "m_flags", "m_shift", "m_frontpad",
             "m_return", "f_used", "f_protect"}
Locations == Updating \union {"idle", "f_lock", "s_find", "s_match", "s_range",
                              "s_flags", "s_open", "s_return"}

\* The types of the variables.
Typed ==
    /\ lock \in Threads \union {Nobody}
    /\ list \in [Slots -> Mapping]
    /\ htable \in [0 .. HtableSize - 1 -> Slots]
    /\ ripe \subseteq Slots
    /\ kernel \in [Regions -> [len : 0 .. MaxAlloc, open : SUBSET Pages]]
    /\ pc \in [Threads -> Locations]
    /\ arg \in [Threads -> [size : 0 .. MaxAlloc, align : 1 .. MaxAlign]]
    /\ ptr \in [Threads -> Pointer]
    /\ lslot \in [Threads -> Slots]
    /\ flags \in [Threads -> SUBSET Flags]
    /\ locked \in [Threads -> BOOLEAN]
    /\ ret \in [Threads -> {0, 1}]
TypeOK == Typed /\ mem_used \in Nat

\* The lock belongs to the thread that changes the tables, or to a handler
\* that got it: no way out of a call keeps the lock or gives away another's.
LockInv ==
    \A t \in Threads : lock = t <=> pc[t] \in Updating \/ locked[t]

\* Nobody is changing the tables.
Quiet == fault = "none" /\ \A t \in Threads : pc[t] \notin Updating

\* List, hash table and kernel agree whenever nobody is changing them: every
\* mapping has one slot, the hash of any address of its region leads to that
\* slot, and no entry of the hash table leads anywhere else.  In particular
\* a purged mapping takes its hash entry along (line 277).
TableInv ==
    Quiet =>
      /\ \A l \in Slots : LET m == list[l] IN
           m.p # Null =>
             /\ l # 0 /\ htable[Hash[m.p.r]] = l
             /\ Start(m) = MaxAlign /\ kernel[m.p.r].len = Outer(m)
      /\ \A h \in DOMAIN htable : htable[h] # 0 =>
           LET p == list[htable[h]].p IN p # Null /\ Hash[p.r] = h
      /\ \A r \in Regions : kernel[r].len # 0 => \E l \in Slots : list[l].p.r = r

\* The memory mapped never exceeds the limit given to ufence_init(), not even
\* inside a call, and mem_used is exact between the calls.  All variables keep
\* their types.
MemoryMapped == HmapSize + SumFunction([r \in Regions |-> kernel[r].len])
LimitInv ==
    /\ TypeOK
    /\ MemoryMapped <= MemLimit
    /\ Quiet => mem_used = MemoryMapped

\* An object that was handed out and not freed stays mapped and accessible,
\* alone in its region, whatever other threads and handlers do.
LiveInv ==
    fault = "none" =>
      /\ \A obj \in live :
           /\ PagesOf(obj.p.o, obj.size) \subseteq kernel[obj.p.r].open
           /\ obj.p.o >= MaxAlign
           /\ obj.p.o + obj.size <= MaxAlign + kernel[obj.p.r].len
      /\ \A x \in live, y \in live \union dead : x.p.r = y.p.r => x = y

\* A handler that got the lock answers 1 for every address up to GUARD_SIZE
\* away from an object in use or freed less than a minute ago, and then the
\* page is accessible; it never answers 1 for memory that is not ufence's.
Recognised ==
    \A t \in Threads :
      At(t, "s_return") /\ locked[t] =>
        /\ (\E obj \in live \union dead : InRange(ptr[t], obj)) => ret[t] = 1
        /\ ret[t] = 1 => Accessible(ptr[t])

\* The assertion of ufence_free(): the hash of a pointer that was handed out
\* leads to the slot that holds this very pointer.
FreeFindsObject == fault # "free of an unknown object"

\* ufence_memalign() returns aligned objects: "randomly get aligned to the
\* beginning or end of the allocation, with the obvious exception of
\* memalign" (lines 16-17).
MemalignAligned == \A obj \in live : obj.p.o % obj.align = 0
=============================================================================
