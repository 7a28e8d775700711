# joernblog: models, checks and proofs

The repository is a collection of small C programs, each with an article that
explains it. Two of them are concurrent systems: the queue of `atomic_queue.c`
and the guard page allocator of `ufence.c`. The others are sequential
algorithms: a prefix code, a CRC, a histogram and two error correcting codes.
This directory holds TLA+ models of all of them, TLC configurations that check
them on small instances, and TLAPS proofs that hold for every number of threads,
every size and every input of each of them.

## 1. Inventory

| Component (source) | State | Operations | What is hard | What makes it correct |
|---|---|---|---|---|
| subqueue ring (`atomic_queue.c:34-87, 244-293, 337-395`) | entries of 16 bytes (counter, value), `tail`, the hints `head_copy` and `tail_copy` | `subenqueue()` with `_enqueue()`, `subdequeue()` | no locks; the two halves of an entry are read apart; the hints are old and may go backwards; four rounds, then the call gives up | each call is one step of a bounded FIFO queue |
| growing queue (`atomic_queue.c:93-98, 235-335, 397-420`) | pointers `enq`, `deq`, `freeq`; a chain of subqueues; a lock | `enqueue()`, `dequeue()`, growth, retiring and freeing old subqueues | publication of a new subqueue in several stores; unlocked reads of pointers and counts; reclamation | no value lost, doubled or reordered; no use after free; no leak |
| RCU (`atomic_queue.c:149-217`) | `global_rcu[]`, `global_rcu_count`, the cached safe count, each thread's slot | `rcu_lock()` with the claim of a slot, `rcu_unlock()`, `rcu_register()`, `rcu_safe()`, `rcu_destroy()` | the slots are scanned one by one while threads come and go; a compiler barrier only; one cached answer for all | slots are claimed without gaps, and reused; a count is safe once every section announced before it has ended |
| lock (`atomic_queue.c:100-146`, `ufence.c:87-134`) | the futex word | `lock_pi()`, `trylock_pi()`, `unlock_pi()` | waiting, hand-over | mutual exclusion, no thread waits for ever |
| ufence (`ufence.c`) | list slots, hash table, `mem_used`, the kernel's mappings | `ufence_malloc()`, `ufence_memalign()`, `ufence_free()`, `ufence_segfault()` | the signal handler works without the lock if it must; quarantine; a hard limit | tables and kernel agree, objects in use are usable, freed ones recognisable |
| engel coding (`engel_coding.c`) | 256 symbols with bit lengths, extents | sort, first guess, repay debt, use credit | loops that overshoot in both directions; indices that may be -1 | it terminates with a complete prefix code |
| crc64 (`crc64.c`) | up to eight registers, the rest of the message | `crc64_clmul()`, `crc64_pclmul()` | tails, alignment, thresholds; 13 constants | every byte enters once, with the power of x of its place; the tail fits its buffer |
| SECDED (`ldpc.c:335-515`) | words with eight check bits | `secded_encode()`, `secded_decode()`, `secded_repair()` | which syndromes may be repaired | one flipped bit is repaired, two are reported, three never pass for none |
| alpha code (`ldpc.c:107-417`) | 512 bits with 64 check bits | `alpha_repair()` with `chip_repair()` and the recursive search | searches that flip bits and take them back; hashes that are only rounded inverses | any error of one chip and up to three bits are repaired; nothing is called repaired that is no code word; what fails is undone |
| histogram (`histogram.c`) | counters, two chunk buffers per level | `vhist16()` to `vhist256()` | data-dependent filling of buffers; padding at every level; 16 bit counters, added four at a time | equal to counting bytes; no store past a buffer |
| libp (`libp/`) | none | names for vector intrinsics | none | - |

How they interact. `enqueue()` and `dequeue()` call `subenqueue()` and
`subdequeue()` on the subqueues they find; both run inside RCU critical
sections; whoever grows the queue, retires or frees a subqueue holds `q->lock`
and asks `rcu_safe()` first. In ufence, malloc and free exclude each other by
`ufence_lock`; the signal handler runs in any thread at any time, takes the lock
only if it is free, and shares the list, the hash table and the kernel's
mappings with whoever holds it. The algorithms do not interact with anything.

Every behaviour that is hard to test is a hazard in `PROJECT.json`, at the line
where it bites, with the properties that watch it.

## 2. Modules

| Module | Models | Role |
|---|---|---|
| `FifoQueue` | the promise of one subqueue | abstract specification: each call is invoked, takes effect in one step, returns |
| `SubQueue` | `subenqueue()`, `_enqueue()`, `subdequeue()` | one step per access to shared memory; implements `FifoQueue` |
| `MCSubQueue` | - | thread symmetry for the runs |
| `SubQueueProofs` | - | typing, the inductive invariant and its consequences; the ring implements `FifoQueue`, proved |
| `AtomicQueue` | `enqueue()`, `dequeue()`, growth and reclamation | built on what `FifoQueue` promises of a subqueue |
| `MCAtomicQueue` | - | instances for the runs |
| `AtomicQueueProofs` | - | typing, locking, the chain and the assertions; retiring and freeing; no use after free with one consumer or one producer; no value lost or doubled, proved |
| `Rcu` | the RCU of `atomic_queue.c` by itself | claims of slots, exits, failing assertions and store buffers |
| `RcuProofs` | - | slots, assertions and the grace period, proved |
| `Ufence` | the allocator and its signal handler | one step per store the unlocked handler can see |
| `MCUfence` | - | a small hash function and thread symmetry |
| `UfenceProofs` | - | locking, the tables, the limit, live objects, the handler and `free()`, proved |
| `Induction` | - | finite sums, induction by a least counterexample and the parity of words, proved |
| `EngelCoding` | `huffe_bitlength_v2()` and all it calls | one step per symbol sorted, lengthened or shortened |
| `EngelProofs` | - | the sort, the extents and the complete code, proved |
| `BitSets` | the word operations the next four share | a word is the set of its one bits |
| `Crc64` | `crc64_clmul()`, `crc64_pclmul()` | one step per stage or round of a loop |
| `Secded` | the SECDED code of `ldpc.c` | one step per word |
| `AlphaCode` | the alpha code of `ldpc.c` | one step per round, bit tried or call ended of a search |
| `ChipsApart` | - | what the columns of the alpha code must be so that no chip is taken for another, as assumptions TLC evaluates |
| `CodeProofs` | - | the CRC: every byte once, the tails; what SECDED repairs and notices; what alpha repairs, undoes and reports, proved |
| `Histogram` | `vhist16()` to `vhist256()` | one step per vector, call or return |
| `MCHistogram` | - | messages for the runs |
| `HistogramProofs` | - | what the histogram counts and where it stores, proved |
| `Programs` | one of the programs that share nothing | composes `EngelCoding`, `Crc64`, `Histogram`, `Secded`, `AlphaCode` and `Rcu` |
| `MCPrograms` | - | the inputs of the other programs |

Composition. `SubQueue` is shown to implement `FifoQueue` by checking and by
proof. `AtomicQueue` then uses a subqueue as a FIFO queue whose operations are
single steps (`SubEnqueue`, `SubDequeue`), with exactly the liberty `FifoQueue`
leaves: a producer is refused when the subqueue is full or when three values
were removed during its call.

### SubQueue

The state is that of `struct subqueue`: `q` (the entries), `tail`,
`head_copy`, `tail_copy`, and the locals of the two calls. A producer's label in
`pc` names the next shared access: `read_tail_copy` (line 367), `read_val` and
`read_ctr` (the two loads of an entry, 347 and 349), `cas` (359),
`write_head_copy` (389), `read_tail` (376), `compare_tail_copy` (383),
`write_tail_copy` (384), `refused` (379, 394). A consumer reads the tail
(`ReadTailC`, 280), the counter (`ReadCtrC`, 282), the value (`ReadValC`, 284)
and moves the tail (`CasTail`, 287). A local is forgotten when its call returns.
`log` and `since` are history: all values that entered the ring, in order, and
the tail at the start of a call. Counters are natural numbers, since 2^64
operations on one subqueue do not happen. The collision statistics are left
out: nothing reads them.

### AtomicQueue

Subqueues are numbers in the order of allocation; subqueue `k` has size
`InitialSize * 2^(k-1)`. `enq`, `deq`, `freeq`, `lock` are the fields of
`struct atomic_queue`, `next`, `dequeue_count`, `free_count` those of a
subqueue, `rcu`, `rcu_count`, `rcu_cached` the globals of the RCU scheme.
Producers pass through the labels `e_...`, consumers through `d_...`; each
action quotes its lines. A critical section of `q->lock` starts with the step
that takes the lock and its last write gives it back. A thread that follows a
pointer to a freed subqueue, a failed assertion and the free of a pointer that
was never set end the behaviour in the variable `fault`.

Memory is sequentially consistent here and every thread has its slot of
`global_rcu[]`; `Rcu` models both as they are. On x86 `mb()` (line 181) is only
a compiler barrier, so the real announcement of a critical section may become
visible later than in the model: what the model shows to fail fails on the real
machine too; what it shows to hold of reclamation holds under this assumption.

### Rcu

`global_rcu`, `global_rcu_count`, `global_rcu_safe` and `local_rcu` are the
program's. A thread claims a slot with `BeginRegister`, `Find` (the load in the
loop of lines 166-169) and `Claim` (the compare-and-swap, which may fail); both
go on to the next slot with `NextSeat`, which contains the assertion of line 167.
The thread announces a section with `LoadCount` and `StoreCount`, and leaves it
with `Unlock`. `Register` is `rcu_register()`; `given` are the counts it has
returned, of which `rcu_safe()` is called with any, by any thread, since they are
found in subqueues, or with the 0 a subqueue has before. `BeginSafe`, `Scan` and
`ScanEnd` are `rcu_safe()`: the assertion of line 199 and the cached answer first,
then one slot per step. An assertion that fails (`no_slot`, `bad_count`) ends the
program with all its threads (`Aborted`). Stores to the own slot go to the
`buffer` of the thread, whose loads see them at once; `Drain` lets the oldest
reach the memory, and locked instructions wait for an empty buffer. `rcu_init()`
makes a key whose destructor is to call `rcu_destroy()`, but no value is ever set
for the key, so the destructor does not run and the slot stays taken; `Exit` has
both outcomes. Locals are forgotten when their function is done with them.
`waits[c]` is history: the threads that were inside a critical section, with their
announcement in the memory, when `rcu_register()` returned `c`, and still are.

### Ufence

`list`, `htable`, `mem_used`, `lock` are the program's own; `kernel` says for
each 16 MiB region how long the object mapped there is and which pages are
accessible. Steps `m_...` follow `_ufence_hmap_alloc()`, `f_...`
`ufence_free()`, `s_...` `ufence_segfault()`. The random choices (slot, region,
shift, back-off) are nondeterministic. `lothash()` is a constant function of the
region: all the code needs of it is that every address of a region has the same
slot. Ten failed attempts to find a region (lines 287-299), including those the
kernel refuses, are one step that returns NULL. A call that finds the lock taken
(`trylock_pi()`, line 261) or asks for more than `MAX_ALLOC` returns NULL and
changes nothing: no step. Time is the set `ripe` of slots freed at least a
minute ago. `m->flags |= FL_FAULT` (407) is a load and a store; the flag itself,
the backtraces and the time of allocation are only printed and left out.

### EngelCoding

`temp`, `extents`, `debt` and `bitlen` are the program's. The steps are the
iterations of its loops: `SortSym` inserts one symbol, `Guess` is
`create_initial_bitlen()` with `calc_debt()` and the making of the extents,
`Longer` and `Shorter` are the two halves of the loop of `adjust_bitlen()`,
`Repay...` and `Retake...` the loops of `adjust_bitlen_naive()`, whose `for`
position is the variable `at`. The comparison in line 181 is made once per
length, not once per symbol: hence the two labels `retake` and `retaking`. The
cost in `temp[]` is recomputed with every length and is an operator here.
`slen` is the length of the input, the sum of the histogram. The alphabet (256),
`MAX_BITS` (12) and the factor 108 are constants.

### BitSets

A word is the set of the numbers of its one bits. `Xor`, `Shifted`, `Rotl`, the
parity `Odd` and `Product`, the carry-less multiplication `clmul()`, are what
the sequential programs do with words. No recursion: `Product` is a parity per
bit.

### Crc64

All operations are linear, so a register is not a value but what it stands for:
a set of terms `<<i, e>>`, byte `i` of the message times `x^(8e)`, that `Xor`
adds up. How far a fold moves a register is *computed from the constants of the
source* (`Mu8`, `WideMu4`, ...): the operator `Moves` finds the bytes by which a
pair moves a register, modulo the polynomial, and the assumption
`FoldAssumption`, which TLC evaluates, says that each pair moves it as far as
its loop consumes; `BarrettAssumption` checks the constants of the last
reduction bit by bit. The stages are
those of the two functions, in their order: first loads with the hand-made
alignment (lines 38-69), the loop over 128 bytes, the reductions 8 -> 4 -> 2 ->
1 with their thresholds, the tail in a 48 byte buffer, the last multiplications
and the Barrett reduction. Only the contents of the bytes are left out.

### Histogram

`frames` is the call stack, one record per running function: its source, its
position, its two buffers. `CountVector` counts the 64 bytes of a vector the way
the code does, with the two byte permutations and the bit gathering of
`bitpermute_popcnt16()` and `bitpermute_popcnt32()`, whose tables are those of
the source, and the carry-save adders of `FA()`. `DivideVector` splits a vector
into the two buffers; `CallLower` and `CallUpper` count a full chunk with the
function for half as many symbols. Every function pads its own last vector with
zeros and takes them back. `LaneAdd` is the `+` of two vectors of u16 counters: it
adds lanes of 64 bits, so that a counter that overflows carries into the next of
its four (`CarryInto`). `vhist16()` counts with 32 bits and narrows its sums, so
that nothing carries there. `Chunk` (12 KiB) and `CounterLimit` (2^16) are
constants.

### Secded and AlphaCode

Both codes are linear, so the state is the set of the bits that differ from the
encoded data. In `Secded` a step repairs one word (`Decode`); `Verdict` is
`secded_decode()`, `BitTable` its table.

In `AlphaCode`, `ChipRepair` is the 36 cases of `chip_repair()` (four rotations
of the check bits and of eight words), `ParityRepair` the check bits alone,
`Attempt` the choice of the next search by the syndrome's weight, in the order of
lines 391-414. `search` is the call stack of `alpha_repair_recursive()`, one
record per running call with its arguments and locals: `Round` is the head of its
while loop, `TryBit` flips one bit of the for loop and calls with a smaller
budget, `LowerThreshold` ends the for loop, `RepairOneBit` and `RepairTwoBits` are
the two ends of the recursion, where a step is the whole call. `CallReturns` is
what the callers do with the answer: success goes through all of them, a failure
is undone by the next one (`CallFails`). `Product`, `AlphaMask`, `AlphaIm` and
`AlphaBit` are the tables of the source and `HashOf`/`Kept` the multiplication by
which `map_one()` recognises a column. `ChipsApart` models no code: it states
about those tables what the proofs need.

### Programs

The six programs above share no state. `Programs` runs one of them while the
others remain in a first state; so one run of TLC checks them all, and `Ends` is
about each of them.

## 3. What is checked

`expect: violation` runs are section 6.

| Run | Instance | Question | Properties |
|---|---|---|---|
| `ring_entries` | 2 producers, 1 consumer, ring of 2, 3 successful enqueues, 2 values, symmetric | is the ring consistent at every instant, and each call one step of a FIFO queue? | `RingInv` (the invariant of the proof, which contains `TypeOK` and the assertion of line 288), `SkipsOnlyTaken` (an action property: an entry is given up only when it was filled), `ImplementsFifo` (refinement) |
| `ring_calls` | 2 producers, 2 consumers, ring of 1, 2 enqueues | what if consumers race; do calls return? | `LostToAnother` (a compare-and-swap is lost only to another's success), `CallsReturn` |
| `queue_grow` | 2 producers with 2 values each, 1 consumer, sizes 1, 2, 4 | do growth and retiring keep the chain, is every value kept? | `TypeOK`, `ChainInv`, `Assertions` (lines 199, 407), `Stored`, `ConsumersSafe` |
| `queue_retire` | 1 producer with 3 values, 2 consumers, sizes 1, 2, 4 | is every old subqueue retired and freed once? | `LockInv`, `OldInv`, `AtMostOnce`, `ProducersSafe` |
| `queue_live` | 1 producer with 13 values, 1 consumer, sizes 4 and 8, `freeq` as `malloc()` left it | does every call return? | `CallsReturn` |
| `ufence` | 2 threads, 3 regions (two of them share a hash slot), 2 list slots, sizes 0, 1 and 2 pages, memory for one large or two small objects, 1 fault | do tables, kernel and limit agree, whatever the handler does? | `LockInv`, `TableInv`, `LimitInv` (which contains `TypeOK`), `LiveInv`, `Recognised`, `FreeFindsObject` |
| `programs` | see below | does each program keep its promises, and does it end? | engel: `Sorted`, `ExtentInv`, `CompleteCode`, `OnlyAloneUndefined`; crc64: `TailFits`, `EachByteOnce`; histogram: `StoresFit`, `Counted`; SECDED: `Repaired`, `NeverSilent`; alpha: `ChipRepaired`, `AlphaRepairs`, `AlphaUndone`, `AlphaConsistent`; RCU: `SlotsInv`, `RcuAsserts` (lines 167, 179, 186, 199), `GracePeriod`; all but RCU: `Ends` |

The inputs of `programs`: all 3125 histograms of 5 symbols over the counts 0, 1,
9, 40, 41, with at most 4 bits and factor 3; 31 lengths around each threshold of
the CRC with four alignments, both functions; messages of 1, 64 and 150
bytes for the counting and dividing functions with chunks of 128 bytes and counters
that wrap at 512, of 255 equal bytes for three of them, and of 510 and 520 for
`vhist16()` and `vhist64()`; every single flipped bit of a word, pairs with a bit
of each kind and triples, beside another word; in the alpha code each whole chip,
three bits of each, single bits, pairs and triples, and sets of 4, 5, 6 and 11
bits; RCU with three threads, two slots, two counts and store buffers of one.

Why the bounds are enough to be interesting:

* A ring of 2 and three enqueues go through the ring more than once, so an entry
  is overwritten on a later lap while another producer holds what it read of
  the lap before. Two values make a torn entry visible. A ring of 1 is where
  full and empty meet. To lose all its four rounds a producer needs four
  enqueues of others, which the bounds exclude: the refusal after the last round
  is covered by the theorem `Refinement`, and the runs tell a loop of fewer
  rounds from the real one.
* The queue is given room for two growths, so that a subqueue is retired while
  another waits in `freeq`, and the count of the wrong subqueue can be read.
  In `queue_live` the subqueues are large enough for a refusal by removals and
  the last growth runs into the `max_size` assertion.
* `queue_grow` has only one consumer and `queue_retire` only one producer:
  there `ConsumersSafe` and `ProducersSafe` hold, and the violation runs show
  that they do not with two. The runs go on exploring beside the failing
  behaviours: a fault stops only the behaviour it occurs in.
* In `ufence` the budget is met exactly by two small objects or one large one, a
  slot is reused after its minute, a region is reused with another slot, and a
  fault can hit the lower guard, an object and the upper guard at any step of
  another thread's malloc or free. One fault at a time is enough: handlers
  only write back what they read, open pages, and never wait for each other; `UfenceProofs` holds for any
  number.
* Five symbols over the counts 0, 1, 9, 40, 41 reach every branch of the prefix
  code: two counts share a rank, so the insertion sort has work; the first guess
  has debt, credit and neither; the fallback is entered, overshoots, and passes
  over the lengths more than once. The bound on `NSym` that the code's 256
  symbols and 4096 code words satisfy is an assumption, without which the
  fallback would not end.
* The lengths of the CRC lie on, before and after each threshold, with and
  without the skip of the alignment, and long enough for each loop to go round.
  The longer the message, the same the loop: a round of the loop adds the same
  terms each time.
* Messages of 150 and more equal bytes overflow a chunk of 128 bytes in one buffer;
  messages that go through the symbols in turn fill both buffers at different
  rates. 255 bytes are all that leaves a counter of 512 room for the padding of
  four functions (`HasRoom`); of 510 zeros the padding, and of 520 the message
  itself makes the counter wrap, without consequence in `vhist16()` and with a
  carry in `vhist64()`, which the run executes and `Counted` leaves out.
* In SECDED all single flips and enough pairs for each kind of bit are tried;
  the code is linear and words are independent, but for `err` and the sum, for
  which a second word is there. In the alpha code the inputs reach the
  repair of a chip and of check bits alone, searches five calls deep, with even and odd
  budgets; six bits that the last attempt finds, six that are
  taken for four others (a repair, but the wrong one: what `AlphaConsistent` is
  careful about), and eleven that three searches look for in vain. `CodeProofs`
  proves all but `AlphaRepairs` for every damage.
* With three threads, two slots and two counts in RCU a claim fails, a slot
  changes hands, a scan runs beside a claim, and the cached answer is older or
  newer than the one a thread asks for. A third thread for two slots is what it
  takes for a claim that fails to find the last slot taken, and for the assertion
  of line 167 to fail, with slots given back and slots that leak. `RcuProofs`
  proves the three properties for all bounds.

Each property is paired in `PROJECT.json` with a plausible bug (the sections
"Plausible bugs" of the modules) that TLC must catch with that very property.

### Fairness

`SubQueue`: weak fairness for every thread inside a call; no thread has to call.
That is what a preemptive scheduler gives. `AtomicQueue`: the same, and strong
fairness for taking `q->lock`, because `lock_pi()` waits in the kernel
(`FUTEX_LOCK_PI`), which hands a contended lock to a waiter; without it a thread
could starve while others take and give back the lock. `CallsReturn` then says
that neither the retry loops, nor growth, nor the locks taken inside RCU critical
sections ever keep a call from returning, given that the number of enqueues is
bounded: the ring's loops are lock-free, not wait-free (`LostToAnother` is the
reason they terminate, and holds without any fairness). `Programs`: weak
fairness of the next step of the sequential programs (`Sequential`), which
nothing keeps from running; none of RCU, which promises no progress. `Ufence` has
no liveness property: `LockInv` says that no way out of a call keeps the lock,
and a caller whom `trylock_pi()` refuses gets NULL at once.

## 4. What is proved

TLC checks small instances; the theorems hold for all values of the constants
that satisfy the named assumptions. Each invariant below is a conjunction of
named parts, was first checked by TLC on an instance like those of section 3, and
is inductive.

### The ring (`SubQueueProofs`)

For any finite or infinite sets of producers and consumers that are disjoint
(`ThreadAssumption`), any ring size above 0 (the code uses powers of two, the
proofs do not need it), any set of values that contains `Zero`, and any bound
on the enqueues:

| Theorem | Statement |
|---|---|
| `Typing` | `Spec => []TypeOK` |
| `RingInvariant` | `Spec => []RingInv` |
| `NoSkippedEntry` | `Spec => SkipsOnlyTaken` |
| `LossIsProgress` | `Spec => LostToAnother` |
| `Refinement` | `Spec => ImplementsFifo` |

The argument. What a caller wants to know (`ImplementsFifo`) is not inductive:
it depends on what each thread has read and how old that is. `RingInv` says so,
in five parts.

1. `Occupancy`: `tail <= H <= tail + Size`, with `H` the number of values that
   ever entered.
2. `EntriesGenuine`: an entry is numbered for its slot, with a number handed
   out, and holds the value enqueued under that number.
3. `NoHoles`: every number handed out is in its slot, or a later one is.
4. `HintsBehind`: `head_copy` and `tail_copy`, however old, never run ahead.
5. `ProducerKnows`, `RoundsPaid`, `ConsumerKnows`: what a thread may conclude
   at each label. A producer is never more than one entry past the head; if
   the entry it looks at is still free, both halves it read of it are still
   there. This is the heart of the matter: the value and the counter are read
   in two loads, and `NoHoles` with `SlotGap` (two numbers of one slot are a
   lap apart) is why no lap can fit between them unnoticed. A consumer before
   its compare-and-swap has read the right value if nobody has moved the tail;
   otherwise the compare-and-swap fails. After it, the counter it has read is
   one of its slot: the assertion of line 288.

`NextRingInv` takes the fifteen actions one by one. `ProducerFrame`,
`ConsumerFrame` and `QuietStep` say once what a step of one thread leaves to the
others. `Refinement` maps the ring to `FifoQueue`: the values inside are
`SubSeq(log, tail + 1, Len(log))`; a call has taken effect after its successful
compare-and-swap; a dequeue finds the queue empty at the step that reads the
counter of an earlier lap; a refusal takes effect where the true tail is read or
the last round ends. One lemma per abstract action (`CommitEnqueue`,
`RefuseEnqueue`, `FindEmpty`, ...) shows that the concrete step is that action,
`InternalEnqueue` and `InternalDequeue` that all others stutter.

### The growing queue (`AtomicQueueProofs`)

For any number of threads, all sizes and any bound on the values:

| Theorem | Statement |
|---|---|
| `Typing` | `Spec => []TypeOK` |
| `Locking` | `Spec => []LockInv` |
| `Chain` | `Spec => []ChainInv` |
| `Asserted` | `Spec => []Assertions` (lines 199 and 407) |

`IInv` strengthens these by what a thread may conclude at each label. `Local`
holds what nobody else can make false, because the chain only grows and counts
only rise: a subqueue a thread looks at is in the chain, the successor it has
read is the next one. `Held` holds what is true because the thread has the lock:
who grows the queue stands at its end. `Counts` is the argument why the RCU
count does not reach `RCU_UNLOCKED`: at most two registrations belong to each
subqueue, and while a growth or a retirement has not registered yet, one is
still to come. The assertion of `rcu_safe()` follows from it, since no count in
a subqueue is from the future.

### The growing queue: memory

Assuming that `malloc()` leaves null in `q->freeq` (`MallocFreeq = {Null}`;
otherwise the queue fails, see section 6):

| Theorem | Statement |
|---|---|
| `Old` | `Spec => []OldInv`: what the consumers have left is freed, once, or waits in `freeq` |
| `ConsumerAlone` | with a single consumer `Spec => []ConsumersSafe` |
| `ProducerAlone` | with a single producer `Spec => []ProducersSafe` |

`OInv` adds to `IInv` that the subqueue just retired is the one in `freeq`. A
single consumer is the only one to free, and only looks at `deq` or what lies
ahead (`Ahead`). A single producer only looks at `enq`, which no consumer frees
before it has moved on (`AtEnd`). The conditions are necessary: the runs
`queue_freed_consumer` and `queue_freed_producer` are the counterexamples with
two.

### The growing queue: values

| Theorem | Statement |
|---|---|
| `Storing` | `Spec => []Stored`: what a returned `enqueue()` was given is in a subqueue or was handed out |
| `Once` | `Spec => []AtMostOnce` |

`VInv`: the value of a call is in a subqueue or handed out only if the call has
stored it, as its label tells (`Fresh`), it is there once the call has stored it
and still holds the lock (`Kept`), and `AtMostOnce` in three parts: nothing is
handed out twice (`TakenOnce`) or waits twice (`WaitsOnce`), and what waits was
not handed out (`Apart`). The order of the values
is not proved since it does not hold (`queue_order`), and a stored value may be
out of reach (`queue_loss`).

### RCU (`RcuProofs`)

For any set of threads, any number of slots and counts, any buffer size:

| Theorem | Statement |
|---|---|
| `RcuTyping` | `RcuSpec => []RcuTypeOK` |
| `Slots` | `RcuSpec => []SlotsInv` |
| `Assertions` | `RcuSpec => []RcuAsserts`: lines 179, 186 and 199 never fail; line 167 only after as many threads have claimed a slot as there are slots |
| `EnoughSlots` | with no more threads than slots `RcuSpec => []~Aborted`: no assertion fails |
| `Grace` | `RcuSpec => []GracePeriod` |

`RcuInv`: `Knows` ties a thread's label to its slot through its store buffer (it
reads its own announcement, the memory may not have it yet). `Passed` says that
the slots a claiming thread has passed are taken for good, which is why slots
have no gaps; so a thread that has passed them all (`no_slot`) has seen each of
them claimed by a thread that still holds it or has gone, which with `Once` is a
counting argument. `Waited`: who is waited for has its announcement in the memory,
with a number not above the count. `Scanned` is the heart: a scan has not passed
the slot of anyone who must be waited for, *for the count it asks for and all
before it*, and nobody is waited for below the cached count. That is why the
single cache for all threads is sound although it may go backwards.

### The allocator (`UfenceProofs`)

For any number of threads, any page, guard and region size the code's layout
allows (`LayoutAssumption`), any hash function (`RegionAssumption`), any limit and
any number of faults at offsets inside a region (`InputAssumption`):

| Theorem | Statement |
|---|---|
| `Invariance` | `Spec => []IInv` |
| `Locking` | `Spec => []LockInv` |
| `TablesAgree` | `Spec => []TableInv` |
| `LiveStays` | `Spec => []LiveInv` |
| `HandlerRecognises` | `Spec => []Recognised` |
| `FreeFinds` | `Spec => []FreeFindsObject` (the assertion of line 336) |
| `Limit` | `Spec => []LimitInv` (for any finite set of regions) |

`TableInv` speaks of the quiet allocator and is not inductive: inside a call the
list, the hash table and the kernel disagree. `SlotsSettled`, `HashSettled` and
`RegionsSettled` are its three parts with exactly the exceptions that the label
of the lock's holder explains, and `Working` says how far that call is. `Live`,
`Dead` and `Releasing` say what must not be disturbed meanwhile: an object in
use, one in quarantine, one whose `free()` still waits for the lock. The lemma
`Vacant` is the heart: the slot malloc has picked holds none of these, because it
was not in use, its quarantine is over, and what is being made has a region of
its own (`Apart`). `Handler` says what a handler may rely on if it got the lock;
without the lock nothing is claimed, since the handler then changes nothing but
what is accessible, unless it loses flags, where the behaviour ends. The
arithmetic of pages (`Alignment`, `PageOf`, `PagesWithin`) is proved from the
definition of division.

`LimitInv` compares `mem_used` with a sum over all regions. `Accounts` makes it
inductive: what malloc has mapped and not yet counted, that it maps only what
still fits, and that a purge subtracts the very length of the mapping it is about
to give back. Each step changes the mapping of one region, so the lemma
`SumChange` of `Induction` moves the sum by that length.

### Data of any size (`Induction`)

The sequential programs are about data of any size. The library's induction
theorems cannot be used, since they have an operator as a parameter, but their
content is first-order: a nonempty set of numbers has a least element
(`LeastNumber`), a nonempty set of finite sets one that contains no other
(`LeastSet`). So each lemma names the set of those sizes for which it holds and
shows that it contains 0 and every successor (`Numbers`), or the empty set and
every extension by an element (`FiniteSubsets`). Sums are those of the module
`Functions`; that they exist (`SumExists`), take one summand after another
(`SumStep`), change by one summand (`SumChange`) and may be renamed
(`SumRenamed`) follows from the definition of its fold. The parity of an
exclusive or (`SumOdd`) and the number of its ones (`XorCardinality`) are what
the proofs about words have in common.

### The prefix code (`EngelProofs`)

For any alphabet with at least two symbols and at most one per code word
(`SizeAssumption`; the code has 256 and 4096), any factor `Share`, and all counts
below 2^16 (`InputAssumption`):

| Theorem | Statement |
|---|---|
| `Inductive` | `Spec => []EngelInv` |
| `EngelTyped` | `Spec => []TypeOK` |
| `Sorts` | `Spec => []Sorted` |
| `ExtentsHold` | `Spec => []ExtentInv` |
| `EndsComplete` | `Spec => []CompleteCode` |
| `UndefinedAlone` | `Spec => []OnlyAloneUndefined` |

`debt` is what the symbols' code words take beyond the `2^MaxBits` there are;
`CompleteCode` is that it is 0 at the end, with no length above the bound. The
invariant has to know why the loops do not overshoot for good. Three facts carry
it. `CodeOf`: the debt is the sum of `Slots` of the lengths minus `MaxSlots`, and
the extents tell the places of each length. `Repaying`: when the naive loop
begins, lengthening any symbol frees at least twice the debt, since
`adjust_bitlen()` has tried everything that would free less; so its first step
overshoots, and the debt is a credit from then on. `Retakeable`: from that
step on, the longest length in use is the only one that is short enough to be
retaken; `Slots` of it divides every term of the sum, hence the credit
(`SumIn`), so shortening never steps over 0. The access before the array
(section 6) needs a credit with a single symbol left, which is `Alone`.

### The CRC (`CodeProofs`)

For messages of any length at any alignment:

| Theorem | Statement |
|---|---|
| `CrcTyped` | `CrcSpec => []CrcTypeOK` |
| `RestFits` | `CrcSpec => []TailFits` |
| `EveryByteOnce` | `CrcSpec => []EachByteOnce` |

`CrcInv` says what the registers hold: with `c` registers of `w` bytes, register
`k` holds every `c`-th block of what was read, each byte times the power of x of
its distance to the end of that register's last block. The registers are told
apart by the exponent, which is below `w` modulo `c * w`; that folds keep it so is
why each constant must move a register by exactly what its loop consumes. The
constants enter by `FoldAssumption` and `BarrettAssumption` only, closed formulas
that TLC evaluates on each run. `Limits` are the thresholds: what may be left of
the message at each stage.

### The SECDED code (`CodeProofs`)

For any number of words and any flipped bits:

| Theorem | Statement |
|---|---|
| `SecdedInductive` | `SecdedSpec => []SecdedInv` |
| `SecdedTyped` | `SecdedSpec => []SecdedTypeOK` |
| `Repairs` | `SecdedSpec => []Repaired` |
| `Noticed` | `SecdedSpec => []NeverSilent` |

The syndrome is linear (`SyndromeLinear`), because the parity of an exclusive or
is the exclusive or of the parities (`SumOdd`). `TableAssumption` and
`PlacesAssumption`, closed formulas about the masks and `bit_table` that TLC
evaluates, say that the syndrome of each of the 72 bits is odd and that the table
names that bit again. So one flipped bit is found; two have an even syndrome,
which is not empty since no two bits have the same; three have an odd one.
`SecdedInv` sums this up over the words done so far.

### The alpha code (`CodeProofs`)

For every set of flipped bits among the 576, any number of them:

| Theorem | Statement |
|---|---|
| `AlphaTyped` | `AlphaSpec => []AlphaTypeOK` |
| `AlphaUndoes` | `AlphaSpec => []AlphaUndone`: a search that fails leaves the data as it found them |
| `AlphaSound` | `AlphaSpec => []AlphaConsistent`: data reported as repaired have an empty syndrome, and no more bits were changed than reported |
| `ChipsRepaired` | `AlphaSpec => []ChipRepaired`: any error within one chip is repaired and counted |

`AlphaUndone` speaks of the data between the searches, so the invariant has to
say what they are inside one. `Trail(h)`: `h[k]` are the data that call `k` of
`search` began with; `h[1]` is the damage, the last one is `wrong`, and from each
to the next the bit in the caller's frame is flipped. `Calls` adds that call `k`
has the first budget less `k - 1`. So a call that fails gives its caller
`Flip(h[k+1], bit) = h[k]` (`CallFailed`), and one that succeeds by flipping at
most as many bits as its budget has, together with the `k - 1` of its callers,
changed no more than the first budget, which is what `alpha_repair()` returns
(`Succeeded`). That a repair empties the syndrome follows from linearity
(`Flipping`) and from what each end of the recursion is sure of (`Answers`): a
single bit is believed only if the column it is mapped to equals the syndrome.

`ChipsRepaired` needs the tables. Rotations, products and so `ChipError` are
linear (`ChipErrorXor`), and what holds of the 16 errors of one bit holds of all
errors of a chip by induction over the set of bits: the right case finds the error
(`ErrorFound`), whatever a case finds has the syndrome it was found for
(`FoundError`), and two cases never find an error for the same syndrome
(`NoCommonSyndrome`). The last is an independence of columns, which for each pair
of chips is shown by 16 tests: sets of check bits that meet one column of the
first chip in an odd number, and all other columns of both in an even number
(`Tested`). Elimination finds the tests (`With`), and `TurnedError` reduces the
pairs to those with the first chip in the rotation 0. So all 65535 errors of each
chip, those `chip_corrupt()` goes through one by one (line 421), are covered.

The constants enter by closed formulas that TLC evaluates on each `programs`
run: `TablesAssumption` (the two tables describe one code, with 576 different
columns), `ChipAssumption` (the cases are the chips; each error of one bit is
found), `TurnAssumption` (the code is the same in each rotation) and
`ApartAssumption` (the tests exist). `AlphaAssumption` says only that the flipped
bits are bits of the data.

### The histogram (`HistogramProofs`)

For any message, any chunk size that is a multiple of 64 (`ChunkAssumption`: the
code has 12 KiB), and counters of any width (`LimitAssumption`; the code has
16 bits). `HistInputAssumption` gives each function only symbols it is made for,
as `test()` does.

| Theorem | Statement |
|---|---|
| `HistInvariant` | `HistSpec => []HistInv` |
| `HistTyped` | `HistSpec => []HistTypeOK`, also where counters overflow and carry |
| `StoresInside` | `HistSpec => []StoresFit` |
| `Counts` | `HistSpec => []Counted`: equal to `hgram_scalar()` for all messages with `HasRoom`, and for all of `vhist16()` |

`Work(f, t)` is what a running function `f` still owes to counter `t` of its own:
the symbols of the class of `t` in the rest of its message (`Ahead`, which takes
the padding off symbol 0), and what it has read and not yet handed on (`Held`).
That is `2 * acc + ones` or `4 * acc + 2 * twos + ones` for the functions that
count, and the two buffers for those that divide. The class of `t` is the
bytes whose low bits are `t`, since the functions for fewer symbols look at the
low bits only. `HistInv` says that at most four functions run, each called by the
next and only the outermost at `hgram[0]` (`Stack`); that whatever is left of a
chunk fits into both buffers, wherever its bytes will go (`DivideOK`), which is
`StoresFit`; and, if the counters have room for the message and the padding
(`HasRoom`), that for each symbol the counter and what all running functions owe
to it (`Total`) add up to its occurrences in the message (`Balanced`). At the
return nothing is owed, which is `Counted`.

The balance must be exact, since a counter that overflows changes its neighbour
and no equation modulo `CounterLimit` survives that. `Covered` adds that whatever
functions return, what they padded has been counted before it is subtracted. So
what is in the counters and what is owed stays below the limit with the padding of
all that run (`Ample`), the counters of the innermost function are `Calm`, its
sums `Light`, and `LaneAdd` of two such vectors carries nowhere (`LaneExact`).
`vhist16()` needs no room: its sums have 32 bits until they are narrowed, and its
balance is modulo `CounterLimit` (`Slack`). That the others need room is a fact of
the code (section 6).

Each kind of step keeps the balance for a reason of its own, with a lemma each:
a function goes on (`GoesOn`), calls another one that takes over one buffer
(`Descended`), or leaves (`Left`). Below these are the lemmas about words: what
the bit gathering makes of a vector has, at the places of symbol `t`, as many
ones as the vector has symbols `t` (`Vector16`, `Vector32`), and the two ternary
functions of `FA()` are the sum and the carry of three bits (`FullAdder`), so that
`Step16` and `Step32` lose no one. `SourcesAssumption`, `TernaryAssumption` and
`UpperAssumption` are closed formulas about the source's tables that TLC evaluates.

### Only model-checked

* `CallsReturn` and `Ends`: liveness is out of the prover's reach.
* `AlphaRepairs`, for two and three flips in different chips: that a search
  finds them, and before it does not find something else, depends on how each
  pair of the 576 columns overlaps. One flip is an error of a chip and proved.

## 5. What is not modelled, and why

* Within the queue: statistics. `rcu_init()` and `rcu_destroy()` are marked TODO
  in the source: the key of `rcu_init()` never gets a value, so as built
  `rcu_destroy()` does not run (section 6). A critical section whose announcement is still
  in a store buffer when a count is taken is *not* waited for by `rcu_safe()`:
  `Rcu` has those behaviours and `GracePeriod` does not cover them; `AtomicQueue`
  has no store buffers.
* The futex lock (`lock_pi()`, `trylock_pi()`, `unlock_pi()`) is a lock that is
  free or owned, with the hand-over of a priority-inheritance futex as fairness.
  The system calls behind it are the kernel's.
* Within ufence: `ufence_init()` is the initial state; kernels older than 4.17
  that ignore `MAP_FIXED_NOREPLACE` (lines 300-304, which end in the same state
  as a failed attempt); what a program does after a lost update of the flags.
  The handler without the lock can write back flags that malloc or free has just
  changed (line 407). The comment at lines 367-371 accepts that; the model
  contains the step and ends there (`fault = "flags lost"`), so everything else
  `ufence` shows holds up to that step.
* The values the carry-less multiplications of `crc64.c` compute (only where each
  byte ends up), the generation of the alpha code's constants, the random
  generator and the drivers in the `main()` functions, which only choose inputs
  and measure time. `libp` only renames vector intrinsics.

## 6. Findings

Each is a run whose property quotes the repository and is violated.

* `queue_order`, `InOrder`: `dequeue()` finds the old subqueue empty, then reads
  `next`. A producer that fills the old subqueue and grows the queue in between
  makes the consumer go on to the new subqueue and return the newer value first.
  `atomic_queue.md:88-89` says "If a producer enqueues A before B, a consumer
  will never see B before A".
* `queue_loss`, `NothingLost`: `enqueue()` publishes `next` (412) before
  `rcu_dequeue_count` (415). A consumer in between reads the count as 0, for
  which `rcu_safe()` is always true, and retires a subqueue that has been filled
  since it looked (`atomic_queue.md:62-64`).
* `queue_freed_consumer`, `ConsumersSafe`: line 308 consults the count of the
  current subqueue, not of the one in `freeq`; for a new subqueue it is 0.
* `queue_freed_producer`, `ProducersSafe`: line 400 reads `enq` before
  `rcu_lock()`, and line 405 uses the subqueue after `rcu_unlock()`; nobody
  waits for such a producer (`atomic_queue.md:66-67`).
* `ufence_memalign`, `MemalignAligned`: `_ufence_hmap_alloc()` ignores its
  parameter `frontpad` (312) and moves memalign objects off their alignment,
  against the comment at `ufence.c:16-17`.

Observed while modelling, without a run of their own: `alloc_queue()` leaves
`freeq` and `lock` as `malloc()` returned them (`atomic_queue.c:264`);
`ufence_malloc(0)` aborts in `guard_alloc()` (`ufence.c:156`);
`huffe_bitlength_v2()` for an input that repeats one symbol three times or more
changes `extents[-1]` (`engel_coding.c:271`), since there is credit and no
symbol that could be shortened: `OutOfBounds` in `EngelCoding`, where
`OnlyAloneUndefined` says that no other input gets there. And two more:

* `rcu_init()` makes a key with the destructor `rcu_destroy()`
  (`atomic_queue.c:229`), but no thread sets a value for it, and a destructor is
  called only for a value that is not null. A thread that exits keeps its slot,
  against the comment at `atomic_queue.c:151-152`, "Exiting threads allow reuse by
  setting the counter to RCU_UNUSED"; after 2^20 threads the assertion of line 167
  ends the program. `Rcu` contains both, the exit that gives the slot back and the
  one that does not; the last part of `RcuAsserts` is what remains true.
* The additions of `histogram.c:170, 181-185, 212, 223-226` are of 64-bit lanes. A
  message of 65535 zeros is padded with one more; counter 0 overflows into counter
  1 before `hgram[0] -= padding` takes it back, so `vhist32()` leaves 1 in
  `hgram[1]`, where `hgram_scalar()` has 0. `test()` would call that a mismatch
  (540), but its buffer of 32768 bytes (533) is too short to meet it. `Histogram`
  does the same with its smaller counters; `HasRoom` is where `Counted` excludes it.

## 7. Plan

Done: all modules of section 2.

* A store buffer in `AtomicQueue` itself, and slots that are claimed while the
  queue is used: `Rcu` has both, the composition has too many states for TLC.
* The futex word and the kernel's waiters, as a module of their own that
  implements the lock `AtomicQueue` and `Ufence` use.

## 8. Running

    tlc -workers 2 -config ring_calls.cfg MCSubQueue.tla
    tlapm SubQueueProofs.tla

`PROJECT.json` lists every run with its module and configuration.
