--------------------------- MODULE MCPageOrder ---------------------------
(* Four kinds of documents: three units anywhere on a small grid, with     *)
(* lines two apart; three units with headers and footers among them; six   *)
(* nodes with up to two relations and four with up to three, the wrong     *)
(* ones among them; and four headings.                                     *)
EXTENDS PageOrder

At(column, top, left, rtl, level) ==
    [phase |-> 1, column |-> column, top |-> top, left |-> left, rtl |-> rtl,
     priority |-> 1, level |-> level]

Grid(columns, lefts) ==
    [1..3 -> {At(c, t, l, r, 0) : c \in columns, t \in 0..2, l \in lefts, r \in BOOLEAN}]

Spread == [units : Grid({0}, {0, 1}) \cup Grid({0, 1}, {0}), relations : {<< >>}]

Phased == [units : {[i \in 1..3 |-> [At(0, t[i], 0, FALSE, 0) EXCEPT !.phase = p[i]]] :
                       p \in [1..3 -> 0..2], t \in [1..3 -> 0..1]},
           relations : {<< >>}]

Column(n) == [i \in 1..n |-> At(0, 2 * i, 0, FALSE, 0)]

Upto(k, S) == UNION {[1..i -> S] : i \in 0..k}

Links(n) == {r \in (1..n) \X (1..n) : r[1] # r[2]}

RelatedDocuments ==
    [units : {Column(6)}, relations : Upto(2, Links(6))]
    \cup [units : {Column(4)}, relations : Upto(3, Links(4))]
    \cup [units : {Column(3)}, relations : Upto(2, {<<1, 2>>, <<2, 2>>, <<1, 9>>, <<9, 1>>})]

HeadingDocuments ==
    [units : {[i \in 1..4 |-> At(0, 2 * i, 0, FALSE, l[i])] : l \in [1..4 -> 0..3]},
     relations : {<< >>, <<<<4, 2>>>>}]

MCDocuments == Spread \cup Phased \cup RelatedDocuments \cup HeadingDocuments

(* Pages of three rows with four to six blocks, or of four with four or    *)
(* five: in each row one on the left, one on the right, one on both sides, *)
(* or one across the page.                                                 *)
Block(role, top, left, width) == [role |-> role, top |-> top, left |-> left, width |-> width]

Rows(top) ==
    LET sides == {"", "P", "H", "T"}
    IN  {SelectSeq(<<Block(l, top, 2, 2), Block(r, top, 11, 2)>>, LAMBDA b : b.role # "") :
            l \in sides \ {"T"}, r \in sides}
        \cup {<<Block(r, top, 2, 13)>> : r \in {"P", "H"}}

Sized(S, most) == {p \in S : Len(p.nodes) \in 4..most}

SmallPages == Sized({[nodes |-> a \o b \o c, unfinished |-> u] :
                        a \in Rows(0), b \in Rows(6), c \in Rows(12), u \in BOOLEAN}, 6)

MCPages == Sized({[nodes |-> a \o b \o c \o d, unfinished |-> u] :
                     a \in Rows(0), b \in Rows(6), c \in Rows(12), d \in Rows(18), u \in BOOLEAN}, 5)
=============================================================================
