----------------------------- MODULE MCAdmission -----------------------------
(* An instance of Admission for TLC.                                         *)
EXTENDS Admission

Header(n, t, r) == [name |-> n, total |-> t, range |-> r]

Numerals == 0..(MaxU64 + 1) \cup {None}

Ranges ==
    [unit : {"bytes", "items"}, start : Numerals, end : 0..1, of : {1}] \cup {None}

\* Every name of at most five characters, and every form of the other headers.
MCPeers ==
    {Header(n, 1, None) : n \in SeqOf(Chars, 5)}
        \cup {Header(n, t, r) : n \in {<<"x">>, <<Wide>>, None}, t \in Numerals, r \in Ranges}

\* file_name of a path: no slash, and neither of the two dot names.
MCSends ==
    {[name |-> n, size |-> s, resume |-> r] :
        n \in SeqOf(Chars \ {"/"}, 3) \ {<<>>, <<Dot>>, <<Dot, Dot>>},
        s \in 0..MaxU64, r \in 0..MaxU64}
=============================================================================
