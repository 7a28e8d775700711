----------------------------- MODULE EngelCoding -----------------------------
(***************************************************************************)
(* Bit lengths of a prefix code no longer than MaxBits, engel_coding.c.    *)
(* The symbols are sorted by their count and get a first guess of a length *)
(* each.  The guess uses too many of the 2^MaxBits code words (debt > 0)   *)
(* or too few (debt < 0): symbols are made longer and shorter by one bit,  *)
(* one at a time, until every code word is used.                           *)
(*                                                                         *)
(* The program is sequential, one step for each symbol it handles.  temp[] *)
(* is its array of the same name; the cost in it, always hgram << bitlen,  *)
(* is an operator.  One extent for each length says which consecutive      *)
(* entries of temp[] have that length.                                     *)
(***************************************************************************)
EXTENDS Integers, FiniteSets, FiniteSetsExt

CONSTANTS NSym,      \* number of symbols: 256 in the code
          MaxBits,   \* MAX_BITS: 12 in the code
          Share,     \* 108 in the code
          Counts     \* the counts the inputs are made of

ASSUME SizeAssumption ==
    /\ MaxBits \in Nat \ {0, 1}
    /\ NSym \in 2 .. 2^MaxBits
ASSUME InputAssumption == Share \in Nat /\ \A c \in Counts : c \in Nat /\ c < 65536

MaxSlots == 2^MaxBits
Absent == MaxBits + 1        \* WEIGHT_ABSENT
Symbols == 0 .. NSym - 1
Lengths == 0 .. Absent

\* The code words a symbol of bitlen takes; an absent symbol takes none.
Slots(bitlen) == MaxSlots \div 2^bitlen

VARIABLES
    hgram,     \* symbol -> its count, the input
    temp,      \* position -> [hgram, bitlen, sym]
    sym,       \* the next symbol to sort
    debt,
    extents,   \* bitlen -> [ofs, len]; ofs means nothing if len = 0
    at,        \* the bitlen that adjust_bitlen_naive() is at
    bitlen,    \* the result
    pc

vars == <<hgram, temp, sym, debt, extents, at, bitlen, pc>>

\* The length of the input.
Slen == SumFunction(hgram)

\* The first guess's boundary between one bit and two is the input's length
\* times 1518500250 / 2^32, split at 2^16 to remain within TLC's integers.
Boundary == (Slen * 23170 + (Slen * 31130) \div 65536) \div 65536

\* engel_coding() is called for an input with such counts.
Start(input) ==
    /\ hgram = input
    /\ temp = [i \in Symbols |-> [hgram |-> 0, bitlen |-> 0, sym |-> 0]]
    /\ sym = 0
    /\ debt = 0
    /\ extents = [b \in Lengths |-> [ofs |-> 0, len |-> 0]]
    /\ at = 0
    /\ bitlen = [s \in Symbols |-> 0]
    /\ pc = "sort"

Init == \E input \in [Symbols -> Counts] : Start(input)

-----------------------------------------------------------------------------
(* Plausible bugs.  Each is a variant of the definition it names, that the *)
(* project's runs must tell from the real one; none is part of the         *)
(* specification.                                                          *)

\* IsPlace of a sort by rank alone.
RankOnly(pos, base, last) == pos = last

\* AddFirst that forgets that the extent now begins earlier.
GrowBehind(e, ofs) ==
    IF e.len > 0 THEN [e EXCEPT !.len = @ + 1] ELSE [ofs |-> ofs, len |-> 1]

\* Lengthenable without the bound on the overshoot.
AnyOvershoot == {b \in 1 .. MaxBits - 1 : extents[b].len > 0}

\* Shortenable that never overshoots, and excludes an exact fit with it.
NoOvershoot == {b \in 2 .. MaxBits : extents[b].len > 0 /\ Slots(b) < -debt}

\* RetakeEnter without the comparison.
EnterAnyway ==
    /\ pc = "retake"
    /\ pc' = "retaking"
    /\ UNCHANGED <<hgram, temp, sym, debt, extents, at, bitlen>>

-----------------------------------------------------------------------------
(* Sorting: by rank first, then by insertion within the rank.              *)

HighestBit(x) == IF x = 0 THEN 0 ELSE Max({b \in 1 .. 16 : 2^(b - 1) <= x})

Rank(count) ==
    IF count < 8 THEN count
    ELSE LET highbit == HighestBit(count) - 3
         IN  highbit * 8 + (count \div 2^(highbit - 1)) - 8

\* Where the entries of a rank begin.
RankBase(rank) == Cardinality({s \in Symbols : Rank(hgram[s]) < rank})

\* cur of the rank when sym is its next symbol.
RankCur(rank) ==
    RankBase(rank) + Cardinality({s \in 0 .. sym - 1 : Rank(hgram[s]) = rank})

\* Where the insertion of sym among the entries before last stops.
IsPlace(pos, base, last) ==
    /\ \A q \in pos .. last - 1 : hgram[sym] < temp[q].hgram
    /\ pos > base => hgram[sym] >= temp[pos - 1].hgram

SortSym ==
    /\ pc = "sort"
    /\ \E base \in {RankBase(Rank(hgram[sym]))}, last \in {RankCur(Rank(hgram[sym]))} :
          \E pos \in base .. last :
             /\ IsPlace(pos, base, last)
             /\ temp' = [i \in Symbols |->
                    IF i = pos
                    THEN [temp[i] EXCEPT !.hgram = hgram[sym], !.sym = sym]
                    ELSE IF i \in pos + 1 .. last THEN temp[i - 1] ELSE temp[i]]
    /\ sym' = sym + 1
    /\ pc' = IF sym' = NSym THEN "guess" ELSE "sort"
    /\ UNCHANGED <<hgram, debt, extents, at, bitlen>>

-----------------------------------------------------------------------------
(* The first guess.                                                        *)

\* The count from which a symbol gets length b.
LowBound(b) ==
    IF b < MaxBits THEN Boundary \div 2^(b - 1)
    ELSE IF b = MaxBits THEN 1 ELSE 0

\* Lengths are tried one after the other until the boundary is down to one.
Tried(b) == b \in {1, Absent} \/ LowBound(b - 1) > 1

\* temp[] is sorted, so the boundary never has to go up again.
FirstBitlen(count) ==
    Min({b \in 1 .. Absent : Tried(b) /\ count >= LowBound(b)})

SlotsUsed(t) == SumFunction([i \in Symbols |-> Slots(t[i].bitlen)])

ExtentsOf(t) == [b \in Lengths |->
    [ofs |-> Cardinality({i \in Symbols : t[i].bitlen > b}),
     len |-> Cardinality({i \in Symbols : t[i].bitlen = b})]]

\* The most frequent symbol is so rare that coding gains nothing.
Refuse ==
    /\ pc = "guess"
    /\ temp[NSym - 1].hgram * Share < Slen
    /\ pc' = "refused"
    /\ UNCHANGED <<hgram, temp, sym, debt, extents, at, bitlen>>

Guess ==
    /\ pc = "guess"
    /\ temp[NSym - 1].hgram * Share >= Slen
    /\ temp' = [i \in Symbols |->
                  [temp[i] EXCEPT !.bitlen = FirstBitlen(temp[i].hgram)]]
    /\ debt' = SlotsUsed(temp') - MaxSlots
    /\ extents' = ExtentsOf(temp')
    /\ pc' = IF debt' = 0 THEN "output" ELSE "adjust"
    /\ UNCHANGED <<hgram, sym, at, bitlen>>

-----------------------------------------------------------------------------
(* Making one symbol longer or shorter.                                    *)

AddLast(e, ofs) ==
    IF e.len > 0 THEN [e EXCEPT !.len = @ + 1] ELSE [ofs |-> ofs, len |-> 1]
AddFirst(e, ofs) ==
    IF e.len > 0 THEN [ofs |-> e.ofs - 1, len |-> e.len + 1]
    ELSE [ofs |-> ofs, len |-> 1]

\* The entry that each of the two would move.
Foremost(b) == extents[b].ofs
Hindmost(b) == extents[b].ofs + extents[b].len - 1

Lengthen(b) ==
    /\ extents' = [extents EXCEPT
                     ![b] = [ofs |-> @.ofs + 1, len |-> @.len - 1],
                     ![b + 1] = AddLast(@, Foremost(b))]
    /\ temp' = [temp EXCEPT ![Foremost(b)].bitlen = @ + 1]
    /\ debt' = debt - Slots(b + 1)
    /\ UNCHANGED <<hgram, sym, bitlen>>

Shorten(b) ==
    /\ extents' = [extents EXCEPT
                     ![b].len = @ - 1,
                     ![b - 1] = AddFirst(@, Hindmost(b))]
    /\ temp' = [temp EXCEPT ![Hindmost(b)].bitlen = @ - 1]
    /\ debt' = debt + Slots(b)
    /\ UNCHANGED <<hgram, sym, bitlen>>

-----------------------------------------------------------------------------
(* adjust_bitlen(): the cheapest symbol is made longer while there is      *)
(* debt, the dearest one shorter while there is credit.                    *)

Cost(i) == temp[i].hgram * 2^temp[i].bitlen

Lengthenable == {b \in 1 .. MaxBits - 1 :
                   extents[b].len > 0 /\ Slots(b + 1) < 2 * debt}
Shortenable == {b \in 2 .. MaxBits :
                  extents[b].len > 0 /\ Slots(b) < 2 * (-debt)}

\* Of two that cost the same the longer one is taken.
Cheapest == Max({b \in Lengthenable :
                   \A c \in Lengthenable : Cost(Foremost(b)) <= Cost(Foremost(c))})
Dearest == Max({b \in Shortenable :
                  \A c \in Shortenable : Cost(Hindmost(b)) >= Cost(Hindmost(c))})

Longer ==
    /\ pc = "adjust" /\ debt > 0
    /\ Lengthenable # {}
    /\ Lengthen(Cheapest)
    /\ pc' = IF debt' = 0 THEN "output" ELSE "adjust"
    /\ UNCHANGED at

Shorter ==
    /\ pc = "adjust" /\ debt < 0
    /\ Shortenable # {}
    /\ Shorten(Dearest)
    /\ pc' = IF debt' = 0 THEN "output" ELSE "adjust"
    /\ UNCHANGED at

GiveUp ==
    /\ pc = "adjust" /\ debt > 0
    /\ Lengthenable = {} /\ extents[MaxBits - 1].len = 0
    /\ at' = MaxBits - 1
    /\ pc' = "repay"
    /\ UNCHANGED <<hgram, temp, sym, debt, extents, bitlen>>

\* best_len is still -1, and extents[-1] is changed: anything may follow.
OutOfBounds ==
    /\ pc = "adjust"
    /\ debt < 0 => Shortenable = {}
    /\ debt > 0 => Lengthenable = {} /\ extents[MaxBits - 1].len > 0
    /\ pc' = "undefined"
    /\ UNCHANGED <<hgram, temp, sym, debt, extents, at, bitlen>>

-----------------------------------------------------------------------------
(* adjust_bitlen_naive(): repay from the long lengths up, then retake what *)
(* was repaid too much from the short lengths down.                        *)

Repay ==
    /\ pc = "repay"
    /\ extents[at].len > 0
    /\ Lengthen(at)
    /\ pc' = IF debt' > 0 THEN "repay"
             ELSE IF debt' = 0 THEN "output" ELSE "retake"
    /\ at' = IF debt' > 0 THEN at ELSE 1

RepayNext ==
    /\ pc = "repay"
    /\ extents[at].len = 0
    /\ at' = IF at = 1 THEN MaxBits - 1 ELSE at - 1
    /\ UNCHANGED <<hgram, temp, sym, debt, extents, bitlen, pc>>

RetakeNext == at' = IF at = MaxBits THEN 1 ELSE at + 1

\* The change is compared with the debt once for each length only.
RetakeEnter ==
    /\ pc = "retake"
    /\ Slots(at) <= -debt
    /\ pc' = "retaking"
    /\ UNCHANGED <<hgram, temp, sym, debt, extents, at, bitlen>>

RetakeSkip ==
    /\ pc = "retake"
    /\ Slots(at) > -debt
    /\ RetakeNext
    /\ UNCHANGED <<hgram, temp, sym, debt, extents, bitlen, pc>>

Retake ==
    /\ pc = "retaking"
    /\ extents[at].len > 0
    /\ Shorten(at)
    /\ pc' = IF debt' >= 0 THEN "output" ELSE "retaking"
    /\ UNCHANGED at

RetakeLeave ==
    /\ pc = "retaking"
    /\ extents[at].len = 0
    /\ RetakeNext
    /\ pc' = "retake"
    /\ UNCHANGED <<hgram, temp, sym, debt, extents, bitlen>>

-----------------------------------------------------------------------------
Output ==
    /\ pc = "output"
    /\ bitlen' = [s \in Symbols |->
                    temp[CHOOSE i \in Symbols : temp[i].sym = s].bitlen]
    /\ pc' = "done"
    /\ UNCHANGED <<hgram, temp, sym, debt, extents, at>>

Next ==
    \/ SortSym
    \/ Refuse
    \/ Guess
    \/ Longer
    \/ Shorter
    \/ GiveUp
    \/ OutOfBounds
    \/ Repay
    \/ RepayNext
    \/ RetakeEnter
    \/ RetakeSkip
    \/ Retake
    \/ RetakeLeave
    \/ Output

Spec == Init /\ [][Next]_vars

-----------------------------------------------------------------------------
(* What makes it correct.                                                  *)

\* Types of engel_coding.c's state.
TypeOK ==
    /\ hgram \in [Symbols -> Counts]
    /\ temp \in [Symbols -> [hgram : Counts \union {0}, bitlen : Lengths,
                             sym : Symbols]]
    /\ sym \in 0 .. NSym
    /\ debt \in -MaxSlots .. NSym * MaxSlots
    /\ extents \in [Lengths -> [ofs : 0 .. NSym, len : 0 .. NSym]]
    /\ at \in 0 .. MaxBits
    /\ bitlen \in [Symbols -> Lengths]
    /\ pc \in {"sort", "guess", "adjust", "repay", "retake", "retaking",
               "output", "done", "refused", "undefined"}

\* The ranks of sort_syms() respect the counts: once every symbol is placed,
\* temp[] lists each of them once, rarer symbols first, equally frequent ones
\* in the order of their numbers.
Sorted ==
    pc # "sort" =>
        /\ \A i \in Symbols : temp[i].hgram = hgram[temp[i].sym]
        /\ \A i, j \in Symbols : i < j =>
              \/ temp[i].hgram < temp[j].hgram
              \/ temp[i].hgram = temp[j].hgram /\ temp[i].sym < temp[j].sym

Adjusting == {"adjust", "repay", "retake", "retaking"}

\* The extents of adjust_bitlen() remain what they stand for although each
\* move only touches the ends of two of them: extent b covers exactly the
\* entries of length b, and lengths never grow along temp[].
ExtentInv ==
    pc \in Adjusting =>
        /\ \A b \in Lengths :
              {i \in Symbols : temp[i].bitlen = b} =
              extents[b].ofs .. extents[b].ofs + extents[b].len - 1
        /\ \A i, j \in Symbols : i < j => temp[i].bitlen >= temp[j].bitlen

\* When the code words are all accounted for the program stops with a complete
\* prefix code, whichever of the loops of adjust_bitlen() and
\* adjust_bitlen_naive() ends it: the 2^MaxBits code words are shared out to
\* the last one, every symbol that occurs has some, and a more frequent symbol
\* has no longer code.  A symbol that does not occur takes code words only from
\* inputs of fewer than three symbols, for which the boundary of
\* create_initial_bitlen() is rounded to zero.
CompleteCode ==
    pc = "done" =>
        /\ SumFunction([s \in Symbols |-> Slots(bitlen[s])]) = MaxSlots
        /\ \A s \in Symbols : hgram[s] > 0 => bitlen[s] \in 1 .. MaxBits
        /\ Slen > 2 => \A s \in Symbols : hgram[s] = 0 => bitlen[s] = Absent
        /\ \A s, t \in Symbols : hgram[s] < hgram[t] => bitlen[s] >= bitlen[t]

\* adjust_bitlen() finds a symbol to change whenever it needs one, except in
\* an input that repeats a single symbol: no other has a code to be shortened.
OnlyAloneUndefined ==
    pc = "undefined" => Cardinality({s \in Symbols : hgram[s] > 0}) = 1

Ended == pc \in {"done", "refused", "undefined"}
=============================================================================
