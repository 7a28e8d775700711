------------------------------ MODULE MCHistogram ------------------------------
(* Messages for histogram.c.                                               *)
EXTENDS Histogram

\* The bytes of a message are equal, or all of the function's symbols in turn.
Message(length, symbols, step, first) ==
    [i \in 1 .. length |-> (step * i + first) % symbols]

\* Less than a vector, whole vectors, more than one chunk of 128 bytes, all
\* that there is room for, and more than a counter holds of one symbol.
MCHistInputs ==
    {[fn |-> f, src |-> Message(l, Cardinality(SymbolsOf(f)), m, 255)] :
        f \in (Counters \union Dividers) \ {"__vhist32"},
        l \in {1, 64, 150}, m \in {0, 67}}
    \union {[fn |-> f, src |-> Message(255, 16, 0, 0)] :
        f \in {"vhist32", "vhist64t", "vhist128"}}
    \union {[fn |-> f, src |-> Message(l, 16, 0, 0)] :
        f \in {"vhist16", "vhist64"}, l \in {510, 520}}
=============================================================================
