------------------------------- MODULE Histogram -------------------------------
(***************************************************************************)
(* histogram.c: how often each byte occurs in a message, with vectors of   *)
(* 64 bytes.                                                               *)
(*                                                                         *)
(* vhist16() and vhist32() count: each byte of a vector becomes a one bit  *)
(* at the symbol's place of a word, and the words are added up bit by bit  *)
(* with full adders; only the carries are counted.  The other functions    *)
(* divide: one bit of the symbol decides which of two buffers a byte goes  *)
(* to, and the function for half as many symbols is called for each        *)
(* buffer.  Whatever is missing to the last vector is filled with zeros,   *)
(* which are counted and subtracted again.                                 *)
(*                                                                         *)
(* A step is one vector, one call or one return.                           *)
(***************************************************************************)
EXTENDS BitSets, Sequences

CONSTANTS Chunk,         \* size of the buffers: 12 * 1024 in the code
          CounterLimit,  \* a u16 wraps: 65536 in the code
          HistInputs     \* calls [fn, src] of a function for a message

ASSUME ChunkAssumption == Chunk \in Nat \ {0} /\ Chunk % 64 = 0
ASSUME LimitAssumption == CounterLimit \in Nat \ {0}

VARIABLES
    call,     \* the call of the program, an element of HistInputs
    counts,   \* hgram
    frames,   \* the functions that run: the innermost is the first
    calls     \* "call", "run" or "return"

hist_vars == <<call, counts, frames, calls>>

Bytes == 0 .. 255
BitsOfByte == 0 .. 7
Zeros(k) == [i \in 1 .. k |-> 0]

-----------------------------------------------------------------------------
(* Counting the one bits of a vector of 512 bits, given by their positions *)

\* Byte k of the result of a byte permutation is byte table[k + 1].
EvenOdd16 == <<
    \h00, \h02, \h04, \h06, \h08, \h0a, \h0c, \h0e, \h10, \h12, \h14, \h16, \h18, \h1a, \h1c, \h1e,
    \h20, \h22, \h24, \h26, \h28, \h2a, \h2c, \h2e, \h30, \h32, \h34, \h36, \h38, \h3a, \h3c, \h3e,
    \h01, \h03, \h05, \h07, \h09, \h0b, \h0d, \h0f, \h11, \h13, \h15, \h17, \h19, \h1b, \h1d, \h1f,
    \h21, \h23, \h25, \h27, \h29, \h2b, \h2d, \h2f, \h31, \h33, \h35, \h37, \h39, \h3b, \h3d, \h3f >>
Gather16 == <<
    \h00, \h08, \h10, \h18, \h01, \h09, \h11, \h19, \h02, \h0a, \h12, \h1a, \h03, \h0b, \h13, \h1b,
    \h04, \h0c, \h14, \h1c, \h05, \h0d, \h15, \h1d, \h06, \h0e, \h16, \h1e, \h07, \h0f, \h17, \h1f,
    \h20, \h28, \h30, \h38, \h21, \h29, \h31, \h39, \h22, \h2a, \h32, \h3a, \h23, \h2b, \h33, \h3b,
    \h24, \h2c, \h34, \h3c, \h25, \h2d, \h35, \h3d, \h26, \h2e, \h36, \h3e, \h27, \h2f, \h37, \h3f >>
ByRow32 == <<
    \h00, \h08, \h10, \h18, \h20, \h28, \h30, \h38, \h01, \h09, \h11, \h19, \h21, \h29, \h31, \h39,
    \h02, \h0a, \h12, \h1a, \h22, \h2a, \h32, \h3a, \h03, \h0b, \h13, \h1b, \h23, \h2b, \h33, \h3b,
    \h04, \h0c, \h14, \h1c, \h24, \h2c, \h34, \h3c, \h05, \h0d, \h15, \h1d, \h25, \h2d, \h35, \h3d,
    \h06, \h0e, \h16, \h1e, \h26, \h2e, \h36, \h3e, \h07, \h0f, \h17, \h1f, \h27, \h2f, \h37, \h3f >>
Gather32 == <<
    \h00, \h20, \h01, \h21, \h02, \h22, \h03, \h23, \h04, \h24, \h05, \h25, \h06, \h26, \h07, \h27,
    \h08, \h28, \h09, \h29, \h0a, \h2a, \h0b, \h2b, \h0c, \h2c, \h0d, \h2d, \h0e, \h2e, \h0f, \h2f,
    \h10, \h30, \h11, \h31, \h12, \h32, \h13, \h33, \h14, \h34, \h15, \h35, \h16, \h36, \h17, \h37,
    \h18, \h38, \h19, \h39, \h1a, \h3a, \h1b, \h3b, \h1c, \h3c, \h1d, \h3d, \h1e, \h3e, \h1f, \h3f >>

\* The affine transformation of the constant 0x8040201008040201 turns around
\* each group of eight bytes: bit k of byte i was bit i of byte 7 - k.
SourceBit(byte, k, permute1, permute2) ==
    LET b == permute2[byte + 1]
    IN  8 * permute1[8 * (b \div 8) + 7 - k + 1] + (b % 8)

\* The bits that a counter made of so many bytes counts in the end.
Sources(counter, bytes, permute1, permute2) ==
    {SourceBit(byte, k, permute1, permute2) :
        byte \in bytes * counter .. bytes * counter + bytes - 1, k \in BitsOfByte}
Sources16 == [s \in 0 .. 15 |-> Sources(s, 4, EvenOdd16, Gather16)]
Sources32 == [s \in 0 .. 31 |-> Sources(s, 2, ByRow32, Gather32)]

Popcnt16(v) == [s \in 0 .. 15 |-> Cardinality(v \intersect Sources16[s])]
Popcnt32(v) == [s \in 0 .. 31 |-> Cardinality(v \intersect Sources32[s])]

\* These bits are those that OneBits puts there.
ASSUME SourcesAssumption ==
    /\ \A s \in 0 .. 15 : Sources16[s] = {8 * 2 * w + s : w \in 0 .. 64 \div 2 - 1}
    /\ \A s \in 0 .. 31 : Sources32[s] = {8 * 4 * w + s : w \in 0 .. 64 \div 4 - 1}

\* A ternary logic instruction: table[4a + 2b + c], its bits as a set.
Ternary(table, a, b, c) ==
    LET of(p) == (IF p \in a THEN 4 ELSE 0) + (IF p \in b THEN 2 ELSE 0)
                 + (IF p \in c THEN 1 ELSE 0)
    IN  {p \in a \union b \union c : of(p) \in table}

\* FAHigh with the table of a majority, but of the new sum.
Majority(h, newl, x) == Ternary(Bits(\he8), h, newl, x)

\* FA(): the sum of h, l and x, and the carry computed from that sum.
FALow(h, l, x) == Ternary(Bits(\h96), l, h, x)
FAHigh(h, newl, x) == Ternary(Bits(\hb2), h, newl, x)

\* The tables as sets.
ASSUME TernaryAssumption == Bits(\h96) = {1, 2, 4, 7} /\ Bits(\hb2) = {1, 4, 5, 7}

\* + of two __m512i adds lanes of 64 bits, each of four counters of a u16: a
\* counter that overflows carries into the next one of its lane, and so on
\* through counters that are full.
CarryInto(s, a, b) ==
    \E j \in 4 * (s \div 4) .. s - 1 :
        /\ a[j] + b[j] >= CounterLimit
        /\ \A k \in j + 1 .. s - 1 : a[k] + b[k] >= CounterLimit - 1
LaneAdd(a, b) ==
    [s \in 0 .. 31 |->
        (a[s] + b[s] + IF CarryInto(s, a, b) THEN 1 ELSE 0) % CounterLimit]

\* One bits at the symbols of every width-th byte, from byte j on.
OneBits(raw, width, j) ==
    {8 * width * w + (raw[width * w + j + 1] % (8 * width)) : w \in 0 .. 64 \div width - 1}

-----------------------------------------------------------------------------
(* The functions that divide.                                              *)

Bit(b, k) == (b \div 2^k) % 2 = 1

\* The bytes whose highest bit is set after a shift; those with a bit of mask.
MovedMask(shift) == {b \in Bytes : Bit(b * 2^shift, 7)}
Tested(k) == {b \in Bytes : Bit(b, k)}

Vhist64 == [callee |-> "__vhist32", half |-> 32, upper |-> MovedMask(2)]
Vhist64t == [callee |-> "__vhist32", half |-> 32, upper |-> Tested(5)]
Vhist128 == [callee |-> "vhist64", half |-> 64, upper |-> MovedMask(1)]
Vhist128t == [callee |-> "vhist64", half |-> 64, upper |-> Tested(6)]
Vhist256 == [callee |-> "vhist128", half |-> 128, upper |-> MovedMask(0)]

Counters == {"vhist16", "vhist32", "__vhist32"}
Dividers == {"vhist64", "vhist64t", "vhist128", "vhist128t", "vhist256"}
Divider(fn) == CASE fn = "vhist64" -> Vhist64
                 [] fn = "vhist64t" -> Vhist64t
                 [] fn = "vhist128" -> Vhist128
                 [] fn = "vhist128t" -> Vhist128t
                 [] fn = "vhist256" -> Vhist256

\* The bit that is tested is the highest of the function's symbols.
ASSUME UpperAssumption ==
    \A fn \in Dividers : \A b \in Bytes :
        b % (2 * Divider(fn).half)
          = (b % Divider(fn).half) + IF b \in Divider(fn).upper THEN Divider(fn).half ELSE 0

\* The counters a caller gets zeroed, 32 by each store.
Zeroed(fn) ==
    LET stores == CASE fn \in {"vhist64", "vhist64t"} -> {0, 32}
                    [] fn \in {"vhist128", "vhist128t"} -> {0, 32, 64, 96}
                    [] fn = "vhist256" -> {0, 32, 64, 96, 128, 160, 192, 224}
                    [] OTHER -> {}
    IN  UNION {k .. k + 31 : k \in stores}

-----------------------------------------------------------------------------
(* The functions of the library and the symbols each is made for: test()   *)
(* gives them no others.                                                   *)

Symbols64 == {"vhist64", "vhist64t"}
SymbolsOf(fn) == CASE fn = "vhist16" -> 0 .. 15
                   [] fn = "vhist32" -> 0 .. 31
                   [] fn \in Symbols64 -> 0 .. 63
                   [] fn \in {"vhist128", "vhist128t"} -> 0 .. 127
                   [] fn = "vhist256" -> Bytes

ASSUME HistInputAssumption ==
    \A input \in HistInputs :
        /\ input.fn \in (Counters \union Dividers) \ {"__vhist32"}
        /\ input.src \in Seq(SymbolsOf(input.fn))

-----------------------------------------------------------------------------
(* Frames.  base is where hgram begins for the function, left the length   *)
(* that remains for a last, incomplete vector.                             *)

Counting(fn, src, base) ==
    [fn |-> fn, src |-> src, base |-> base, at |-> 0, padding |-> 0,
     acc |-> [s \in 0 .. IF fn = "vhist16" THEN 15 ELSE 31 |-> 0], b0 |-> {}, b1 |-> {}]

Dividing(fn, src, base) ==
    [fn |-> fn, src |-> src, base |-> base, at |-> 0, padding |-> 0,
     left |-> Len(src) % 64, fake_end |-> 0, buf0 |-> << >>, buf1 |-> << >>,
     phase |-> "outer"]

Enters(fn, src, base) ==
    IF fn \in Dividers THEN Dividing(fn, src, base) ELSE Counting(fn, src, base)

Running(fns) == calls = "run" /\ frames # << >> /\ Head(frames).fn \in fns
Becomes(frame) == frames' = <<frame>> \o Tail(frames)

\* BeginChunk one vector too long.
LongChunk ==
    /\ Running(Dividers)
    /\ \E f \in {Head(frames)} : \E end \in {Len(f.src) - (Len(f.src) % 64)} :
         /\ f.phase = "outer" /\ f.at < end
         /\ Becomes([f EXCEPT !.phase = "inner",
                              !.fake_end = IF f.at + Chunk + 64 > end THEN end
                                           ELSE f.at + Chunk + 64])
    /\ UNCHANGED <<call, counts, calls>>

\* Returning from a function, having subtracted what was counted too much.
Leave(f, newcounts) ==
    /\ counts' = [newcounts EXCEPT ![f.base] = (@ - f.padding) % CounterLimit]
    /\ frames' = Tail(frames)
    /\ UNCHANGED <<call, calls>>

-----------------------------------------------------------------------------
(* The functions that count.                                               *)

\* The next 64 bytes, or what there is with zeros behind it.
NextVector(f) == SubSeq(f.src, f.at + 1, f.at + 64)
MaskedVector(f) ==
    SubSeq(f.src, f.at + 1, Len(f.src)) \o Zeros(64 - (Len(f.src) - f.at))

\* One vector with two symbols in each word, or with four.  The counters of
\* vhist16() have 32 bits: no message of int slen bytes makes one overflow.
Add16(f, raw, next) ==
    \E x0 \in {OneBits(raw, 2, 0)}, x1 \in {OneBits(raw, 2, 1)} :
    \E sum \in {FALow(x1, f.b0, x0)} :
    \E count \in {Popcnt16(FAHigh(x1, sum, x0))} :
        Becomes([next EXCEPT !.b0 = sum,
                             !.acc = [s \in 0 .. 15 |-> f.acc[s] + count[s]]])

Add32(f, raw, next) ==
    \E x0 \in {OneBits(raw, 4, 0)}, x1 \in {OneBits(raw, 4, 1)},
       x2 \in {OneBits(raw, 4, 2)}, x3 \in {OneBits(raw, 4, 3)} :
    \E sum1 \in {FALow(x1, f.b0, x0)} : \E carry1 \in {FAHigh(x1, sum1, x0)} :
    \E sum2 \in {FALow(x3, sum1, x2)} : \E carry2 \in {FAHigh(x3, sum2, x2)} :
    \E sum3 \in {FALow(carry2, f.b1, carry1)} :
    \E count \in {Popcnt32(FAHigh(carry2, sum3, carry1))} :
        Becomes([next EXCEPT !.b0 = sum2, !.b1 = sum3,
                             !.acc = LaneAdd(f.acc, count)])

Add(f, raw, next) ==
    \/ f.fn = "vhist16" /\ Add16(f, raw, next)
    \/ f.fn # "vhist16" /\ Add32(f, raw, next)

CountVector ==
    /\ Running(Counters)
    /\ \E f \in {Head(frames)} :
         /\ Len(f.src) - f.at >= 64
         /\ \E raw \in {NextVector(f)} : Add(f, raw, [f EXCEPT !.at = f.at + 64])
    /\ UNCHANGED <<call, counts, calls>>

CountTail ==
    /\ Running(Counters)
    /\ \E f \in {Head(frames)} :
         /\ Len(f.src) - f.at \in 1 .. 63
         /\ \E raw \in {MaskedVector(f)} :
              Add(f, raw, [f EXCEPT !.at = Len(f.src),
                                    !.padding = 64 - (Len(f.src) - f.at)])
    /\ UNCHANGED <<call, counts, calls>>

\* What the carries, the twos and the ones add up to.
Sums32(f) ==
    LET pairs == LaneAdd(LaneAdd(f.acc, f.acc), Popcnt32(f.b1))
    IN  LaneAdd(LaneAdd(pairs, pairs), Popcnt32(f.b0))

\* Lines 132-145: the counters of 32 bits are narrowed and stored.
Return16 ==
    /\ Running({"vhist16"})
    /\ \E f \in {Head(frames)} : \E ones \in {Popcnt16(f.b0)} :
         /\ f.at = Len(f.src)
         /\ Leave(f, [s \in Bytes |->
                        IF s < 16 THEN (2 * f.acc[s] + ones[s]) % CounterLimit
                        ELSE counts[s]])

\* Lines 181-187: __vhist32() adds to the counters, vector to vector ...
Return32Add ==
    /\ Running({"__vhist32"})
    /\ \E f \in {Head(frames)} : \E sums \in {Sums32(f)} :
       \E added \in {LaneAdd([s \in 0 .. 31 |-> counts[f.base + s]], sums)} :
         /\ f.at = Len(f.src)
         /\ Leave(f, [s \in Bytes |-> IF s - f.base \in 0 .. 31 THEN added[s - f.base]
                                       ELSE counts[s]])

\* ... and lines 223-229: vhist32() sets them.
Return32 ==
    /\ Running({"vhist32"})
    /\ \E f \in {Head(frames)} : \E sums \in {Sums32(f)} :
         /\ f.at = Len(f.src)
         /\ Leave(f, [s \in Bytes |-> IF s < 32 THEN sums[s] ELSE counts[s]])

-----------------------------------------------------------------------------
(* The loops of the functions that divide, the same in all five.           *)

\* src + (slen & -64)
End(f) == Len(f.src) - (Len(f.src) % 64)

\* The bytes of a vector that are kept, in their order.
Compress(raw, kept) ==
    LET some[k \in 0 .. Len(raw)] ==
            IF k = 0 THEN << >>
            ELSE IF raw[k] \in kept THEN Append(some[k - 1], raw[k])
            ELSE some[k - 1]
    IN  some[Len(raw)]

\* compress_write_kgpr() for each buffer: it stores a whole vector, of which
\* the bytes of the buffer come first.
Divide(f, raw, next) ==
    \E upper \in {Divider(f.fn).upper} :
        Becomes([next EXCEPT
                   !.buf0 = f.buf0 \o Compress(raw, Bytes \ upper),
                   !.buf1 = f.buf1 \o Compress(raw, upper),
                   !.at = f.at + 64])

\* Lines 248-251.
BeginChunk ==
    /\ Running(Dividers)
    /\ \E f \in {Head(frames)} :
         /\ f.phase = "outer" /\ f.at < End(f)
         /\ Becomes([f EXCEPT !.phase = "inner",
                              !.fake_end = IF f.at + Chunk > End(f) THEN End(f)
                                           ELSE f.at + Chunk])
    /\ UNCHANGED <<call, counts, calls>>

\* Lines 252-263.
DivideVector ==
    /\ Running(Dividers)
    /\ \E f \in {Head(frames)} :
         /\ f.phase = "inner" /\ f.at < f.fake_end
         /\ \E raw \in {NextVector(f)} : Divide(f, raw, f)
    /\ UNCHANGED <<call, counts, calls>>

\* Lines 267-273, and 255-262 again.
DivideTail ==
    /\ Running(Dividers)
    /\ \E f \in {Head(frames)} :
         /\ f.phase = "outer" /\ f.at >= End(f) /\ f.left > 0
         /\ \E raw \in {MaskedVector(f)} :
              Divide(f, raw, [f EXCEPT !.phase = "inner", !.left = 0,
                                       !.padding = 64 - f.left, !.fake_end = End(f)])
    /\ UNCHANGED <<call, counts, calls>>

\* Line 264 ...
CallLower ==
    /\ Running(Dividers)
    /\ Head(frames).phase = "inner" /\ Head(frames).at >= Head(frames).fake_end
    /\ LET f == Head(frames) IN
         frames' = <<Enters(Divider(f.fn).callee, f.buf0, f.base),
                     [f EXCEPT !.buf0 = << >>, !.phase = "upper"]>> \o Tail(frames)
    /\ UNCHANGED <<call, counts, calls>>

\* ... and line 265.
CallUpper ==
    /\ Running(Dividers)
    /\ Head(frames).phase = "upper"
    /\ LET f == Head(frames) IN
         frames' = <<Enters(Divider(f.fn).callee, f.buf1, f.base + Divider(f.fn).half),
                     [f EXCEPT !.buf1 = << >>, !.phase = "outer"]>> \o Tail(frames)
    /\ UNCHANGED <<call, counts, calls>>

ReturnDivided ==
    /\ Running(Dividers)
    /\ Head(frames).phase = "outer"
    /\ Head(frames).at >= End(Head(frames)) /\ Head(frames).left = 0
    /\ Leave(Head(frames), counts)

-----------------------------------------------------------------------------
\* The wrappers that zero the counters.
Call ==
    /\ calls = "call"
    /\ counts' = [s \in Bytes |-> IF s \in Zeroed(call.fn) THEN 0 ELSE counts[s]]
    /\ frames' = <<Enters(call.fn, call.src, 0)>>
    /\ calls' = "run"
    /\ UNCHANGED call

Finish ==
    /\ calls = "run" /\ frames = << >>
    /\ calls' = "return"
    /\ UNCHANGED <<call, counts, frames>>

\* The counters of the caller have not been initialised.
Unset == 3 % CounterLimit

HistCall(input) ==
    /\ call = input
    /\ counts = [s \in Bytes |-> Unset]
    /\ frames = << >>
    /\ calls = "call"

HistInit == \E input \in HistInputs : HistCall(input)

HistNext ==
    \/ Call \/ CountVector \/ CountTail \/ Return16 \/ Return32Add
    \/ Return32
    \/ BeginChunk \/ DivideVector \/ DivideTail \/ CallLower \/ CallUpper
    \/ ReturnDivided \/ Finish

HistSpec == HistInit /\ [][HistNext]_hist_vars

-----------------------------------------------------------------------------
(* What makes it correct.                                                  *)

\* hgram_scalar(), the reference of histogram.c's own test.
Scalar(src) ==
    [s \in Bytes |-> Cardinality({i \in DOMAIN src : src[i] = s}) % CounterLimit]

\* Types of histogram.c's counters and frames.
HistTypeOK ==
    /\ call.fn \in Counters \union Dividers /\ call.src \in Seq(Bytes)
    /\ counts \in [Bytes -> 0 .. CounterLimit - 1]
    /\ calls \in {"call", "run", "return"}
    /\ \A i \in DOMAIN frames :
         /\ frames[i].src \in Seq(Bytes)
         /\ frames[i].base \in Bytes
         /\ frames[i].padding \in 0 .. 63

\* The two buffers of __vhist64() and the others are filled at a rate that
\* depends on the data, but each store of a whole vector ends inside its
\* buffer.
StoresFit ==
    frames # << >> =>
        LET f == Head(frames)
            stores == \/ f.phase = "inner" /\ f.at < f.fake_end
                      \/ f.phase = "outer" /\ f.at >= End(f) /\ f.left > 0
        IN  f.fn \in Dividers /\ stores =>
                Len(f.buf0) + 64 <= Chunk /\ Len(f.buf1) + 64 <= Chunk

\* No u16 can overflow, even with what the at most four functions that run
\* at a time pad.  Only the sums of vhist16() cannot carry: they are narrowed.
HasRoom(input) == input.fn = "vhist16" \/ Len(input.src) + 4 * 64 < CounterLimit

\* The counters are those of hgram_scalar(), although every function on the
\* way pads its own last vector; counters of other symbols are not touched.
Counted ==
    calls = "return" /\ HasRoom(call) =>
        \A s \in Bytes :
            counts[s] = IF s \in SymbolsOf(call.fn) THEN Scalar(call.src)[s] ELSE Unset

HistEnded == calls = "return"
=============================================================================
