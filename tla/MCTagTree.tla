----------------------------- MODULE MCTagTree -----------------------------
(* The documents and pages of MCPageOrder, carried on to their             *)
(* tags; texts of up to five nodes that mix headings with paragraphs,      *)
(* lists, tables and diagrams; and tables of up to four cells that declare *)
(* columns, spans, headers and sections.  In a text the cells of a page    *)
(* come by rows, and an item is continued before the next one begins.      *)
EXTENDS MCPageOrder, TableGrid

Piece(role, level, group) ==
    [role |-> role, level |-> level, group |-> group, of |-> None, page |-> 1, row |-> 0, cell |-> PlainCell]

P == {Piece("P", 0, None)}
Part == {Piece("P", 0, 1)}
Heading(levels_) == {Piece("H", l, None) : l \in levels_}
Item(levels_, groups) == {Piece("LI", l, g) : l \in levels_, g \in groups}
Continued == {[Piece("LI", 1, 1) EXCEPT !.of = 1]}
Label(groups) == {Piece("Label", 0, g) : g \in groups}
Artifact == {Piece("Artifact", 0, None)}
Whole(groups) == {Piece("Table", 0, g) : g \in groups}
Cell(groups, pages, rows) ==
    {[Piece("TD", 0, g) EXCEPT !.page = p, !.row = r] : g \in groups, p \in pages, r \in rows}

GridCell(rows, heads, cols, across, down, hints) ==
    {[c EXCEPT !.cell = d] : c \in Cell({<<1>>}, {1}, rows),
                             d \in [head : heads, col : cols, across : across, down : down, hint : hints]}

Joins(n) == n.role = "LI" /\ n.of # None

(* A continuation is bound to the item that was last begun.                *)
Bound(t) == [i \in DOMAIN t |->
                IF ~Joins(t[i]) THEN t[i]
                ELSE LET items == {j \in 1..(i - 1) : t[j].role = "LI" /\ ~Joins(t[j])}
                     IN  [t[i] EXCEPT !.of = IF items = {} THEN i ELSE Max(items)]]

Of(n, S) == {Bound(t) : t \in {u \in [1..n -> S] : ByRows(u)}}

G == <<1>>
GFragment == <<1, 2>>

MCTexts == {
    Of(4, P \cup Part \cup Heading({1, 2}) \cup Item({1, 2}, {1}) \cup Continued \cup Artifact
          \cup Cell({G}, {1}, {0, 1}) \cup Label({1})),
    Of(5, Item({1, 2, 3}, {1}) \cup Item({1}, {2}) \cup Continued),
    Of(3, Item({1, 2}, {None, 1, 2})),
    Of(5, Whole({G}) \cup Cell({G, GFragment}, {1}, {0}) \cup P),
    Of(4, Cell({G}, {1, 2, 3}, {0, 1})),
    Of(4, Label({1, 2}) \cup Heading({1}) \cup P \cup Artifact),
    Of(3, GridCell({0, 1, 2}, {FALSE}, {None, 1, 2}, {1, 2}, {1, 2}, {"none"})),
    Of(4, GridCell({0, 1}, {FALSE}, {None, 1, 2}, {1}, {1, 2}, {"none"})),
    Of(3, GridCell({0, 1, 2}, BOOLEAN, {None}, {1}, {1}, {"none", "head", "body", "foot"})),
    Of(4, GridCell({0, 1, 2}, BOOLEAN, {None}, {1}, {1}, {"none", "foot"}))}
=============================================================================
