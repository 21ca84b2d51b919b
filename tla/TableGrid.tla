----------------------------- MODULE TableGrid -----------------------------
(***************************************************************************)
(* modules/tag-builder, after its loop: the finished tables are gone over  *)
(* by passes.  Fragments of one cell are merged, rows are given to head,   *)
(* body and foot, every cell finds its place in a grid and gaps are filled *)
(* (table-grid.js), and rows are given to their sections once more.  A     *)
(* table whose declarations contradict each other is left for a review.    *)
(*                                                                         *)
(* Left out: bounds of the grid, rows in capitals (taken for headers), the *)
(* splitting of texts, Headers attributes, repeated headers, demotion.     *)
(***************************************************************************)
EXTENDS TagTree

(* For each Table tag [rows, width, review]; a row is [number, section,    *)
(* cells], with section "none" directly in the Table; a cell is [nodes,    *)
(* head, col, across, down, hint], with no nodes if it fills a gap.        *)
(* Columns are counted from 1.                                             *)
VARIABLE tables

(* The passes follow each other in the course of one function.             *)
Pass(from, to) ==
    /\ step = from /\ step' = to
    /\ UNCHANGED <<doc, line, rank, waiting, ready, result, stack, outline, pageVars, tagVars>>

Tables == {i \in DOMAIN tags : tags[i].type = "Table"}
ChildrenOf(i) == Sorted({j \in DOMAIN tags : tags[j].parent = i}, LAMBDA j, k : j < k)

CellOf(i) == LET c == text[tags[i].node].cell
             IN  [nodes |-> <<tags[i].node>>, head |-> c.head, col |-> c.col,
                  across |-> c.across, down |-> c.down, hint |-> c.hint]

-----------------------------------------------------------------------------
(* mergeDeclaredCellFragments: cells of a row that declare the same are    *)
(* one cell if their lines are aligned.                                    *)
Declares(cell) == [cell EXCEPT !.nodes = << >>]

Fragments(cells) ==
    {d \in {Declares(c) : c \in Range(cells)} :
        d.col # None /\ Cardinality({k \in DOMAIN cells : Declares(cells[k]) = d}) > 1}

Joined(cells, aligned) ==
    FoldLeft(LAMBDA joined, c :
                 LET same == {k \in DOMAIN joined : Declares(joined[k]) = Declares(c)}
                 IN  IF Declares(c) \notin aligned \/ same = {} THEN Append(joined, c)
                     ELSE [joined EXCEPT ![Min(same)].nodes = @ \o c.nodes],
             << >>, cells)

ReadRow(i, aligned) ==
    LET cells == [k \in DOMAIN ChildrenOf(i) |-> CellOf(ChildrenOf(i)[k])]
    IN  [number |-> tags[i].name, section |-> "none", cells |-> Joined(cells, aligned)]

MergeFragments ==
    /\ Pass("tagging", "fragments") /\ next = Len(text) /\ Tables # {}
    /\ \E aligned \in SUBSET UNION {Fragments([k \in DOMAIN ChildrenOf(i) |-> CellOf(ChildrenOf(i)[k])]) :
                                       i \in {j \in DOMAIN tags : tags[j].type = "TR"}} :
           tables' = [t \in Tables |->
                         [rows |-> [k \in DOMAIN ChildrenOf(t) |-> ReadRow(ChildrenOf(t)[k], aligned)],
                          width |-> 0, review |-> FALSE]]

-----------------------------------------------------------------------------
(* normalizeTableSections.                                                 *)
Substantive(row) == SelectSeq(row.cells, LAMBDA c : c.nodes # << >>)

HeaderLike(row) ==
    LET cells == Substantive(row)
        heads == SelectSeq(cells, LAMBDA c : c.head)
    IN  cells # << >> /\ \/ heads = cells
                         \/ row.number < 2 /\ 4 * Len(heads) >= 3 * Len(cells)

BodyLike(row) == ~HeaderLike(row) /\ \E c \in Range(Substantive(row)) : ~c.head

Explicit(row) ==
    LET hints == {c.hint : c \in Range(row.cells)} \ {"none"}
    IN  CASE "foot" \in hints -> "foot"
          [] "head" \in hints /\ hints \cap {"body", "foot"} = {} -> "head"
          [] hints = {"body"} -> "body"
          [] OTHER -> IF row.section = "none" THEN "body" ELSE row.section

(* The first column of every row is a header: no row is.                   *)
RowHeaderPattern(rows) ==
    /\ Len(rows) >= 2
    /\ \A r \in Range(rows) :
           Len(r.cells) >= 2 /\ \A k \in DOMAIN r.cells : r.cells[k].head <=> k = 1

(* Headers above the first row of data are the head.                       *)
Assigned(rows) ==
    LET body == {i \in DOMAIN rows : BodyLike(rows[i])}
        leads(i) == /\ body # {} /\ i < Min(body) /\ ~RowHeaderPattern(rows)
                    /\ \A j \in 1..i : /\ Explicit(rows[j]) # "foot"
                                       /\ HeaderLike(rows[j]) \/ Explicit(rows[j]) = "head"
    IN  [i \in DOMAIN rows |-> IF leads(i) THEN "head" ELSE Explicit(rows[i])]

(* partitionTableSections: a leading head and a trailing foot.             *)
Partition(keys) ==
    LET inHead(i) == \A j \in 1..i : keys[j] = "head"
        inFoot(i) == \A j \in i..Len(keys) : keys[j] = "foot"
    IN  [i \in DOMAIN keys |-> IF inHead(i) THEN "head" ELSE IF inFoot(i) THEN "foot" ELSE "body"]

(* A head without a body is not wrapped.                                   *)
Sectioned(rows) ==
    LET keys == Partition(Assigned(rows))
        wrapped(key) == IF key = "head" /\ "body" \notin Range(keys) THEN "none" ELSE key
    IN  [i \in DOMAIN rows |->
            [rows[i] EXCEPT !.section = wrapped(keys[i]),
                            !.cells = [k \in DOMAIN @ |-> [@[k] EXCEPT !.hint = keys[i]]]]]

AssignSections ==
    /\ Pass("fragments", "sections")
    /\ tables' = [t \in DOMAIN tables |-> [tables[t] EXCEPT !.rows = Sectioned(@)]]

-----------------------------------------------------------------------------
(* Mutant: the rows below are not reserved.                                *)
RectangleInRow(i, cell, start) == {i} \X (start..(start + cell.across - 1))

(* planTableGrid: the slots <<row, column>> a cell covers from its column. *)
Rectangle(i, cell, start) == (i..(i + cell.down - 1)) \X (start..(start + cell.across - 1))

Entries(rows) == FlattenSeq([i \in DOMAIN rows |-> [k \in DOMAIN rows[i].cells |-> <<i, k>>]])

(* A span that crosses a missing row.                                      *)
SpansGap(rows) ==
    \E i \in DOMAIN rows : \E cell \in Range(rows[i].cells) : \E below \in 1..(cell.down - 1) :
        i + below <= Len(rows) /\ rows[i + below].number # rows[i].number + below

Reserve(grid, e, cell, start) ==
    [grid EXCEPT !.slots = @ \cup Rectangle(e[1], cell, start), !.start[e] = start]

(* Declared columns come first, ...                                        *)
Reserved(rows) ==
    FoldLeft(LAMBDA grid, e :
                 LET cell == rows[e[1]].cells[e[2]]
                 IN  IF cell.col = None THEN grid
                     ELSE IF Rectangle(e[1], cell, cell.col) \cap grid.slots # {}
                          THEN [grid EXCEPT !.conflict = TRUE]
                          ELSE Reserve(grid, e, cell, cell.col),
             [slots |-> {}, start |-> [e \in Range(Entries(rows)) |-> None], conflict |-> SpansGap(rows),
              cursor |-> [i \in DOMAIN rows |-> 1]],
             Entries(rows))

(* ... and every other cell takes the first place that is free, after the  *)
(* cell before it.                                                         *)
PlanGrid(rows) ==
    FoldLeft(LAMBDA grid, e :
                 LET cell == rows[e[1]].cells[e[2]]
                     cursor == grid.cursor[e[1]]
                     free == {c \in cursor..Max({cursor} \cup {s[2] + 1 : s \in grid.slots}) :
                                 Rectangle(e[1], cell, c) \cap grid.slots = {}}
                     start == IF cell.col = None THEN Min(free) ELSE cell.col
                     placed == IF cell.col = None THEN Reserve(grid, e, cell, start) ELSE grid
                 IN  [placed EXCEPT !.cursor[e[1]] = start + cell.across],
             Reserved(rows), Entries(rows))

(* normalizeTableNode: placeholders fill what no cell covers, and rows are *)
(* added below for the spans that reach beyond the last one.               *)
Placeholder(section, col) ==
    [nodes |-> << >>, head |-> FALSE, col |-> col, across |-> 1, down |-> 1,
     hint |-> IF section = "none" THEN "body" ELSE section]

Completed(rows, grid) ==
    LET width == Max({1} \cup {s[2] : s \in grid.slots})
        height == Max({Len(rows)} \cup {s[1] : s \in grid.slots})
        last == rows[Len(rows)]
        fillers(i, section) == {Placeholder(section, c) : c \in {d \in 1..width : <<i, d>> \notin grid.slots}}
        placed(i) == {[rows[i].cells[k] EXCEPT !.col = grid.start[<<i, k>>]] : k \in DOMAIN rows[i].cells}
        byColumn(cells) == Sorted(cells, LAMBDA a, b : a.col < b.col)
    IN  [width |-> width, review |-> FALSE,
         rows |-> [i \in 1..height |->
                      IF i <= Len(rows)
                      THEN [rows[i] EXCEPT !.cells = byColumn(placed(i) \cup fillers(i, rows[i].section))]
                      ELSE [number |-> last.number + i - Len(rows), section |-> last.section,
                            cells |-> byColumn(fillers(i, last.section))]]]

NormalizeRegularity ==
    /\ Pass("sections", "grid")
    /\ tables' = [t \in DOMAIN tables |->
                     LET rows == tables[t].rows
                     IN  CASE rows = << >> -> tables[t]
                           [] rows # << >> /\ Reserved(rows).conflict -> [tables[t] EXCEPT !.review = TRUE]
                           [] OTHER -> Completed(rows, PlanGrid(rows))]

-----------------------------------------------------------------------------
(* normalizeTableSections again, and flattenRedundantTableBodySections; a  *)
(* table under review stays as it is.                                      *)
Flattened(rows) ==
    IF \A r \in Range(rows) : r.section = "body" THEN [i \in DOMAIN rows |-> [rows[i] EXCEPT !.section = "none"]]
    ELSE rows

FinishTables ==
    /\ Pass("grid", "finished")
    /\ tables' = [t \in DOMAIN tables |->
                     IF tables[t].review THEN tables[t]
                     ELSE [tables[t] EXCEPT !.rows = Flattened(Sectioned(@))]]

GridInit == TagInit /\ tables = << >>

GridNext == \/ TagNext /\ UNCHANGED tables
            \/ MergeFragments \/ AssignSections \/ NormalizeRegularity \/ FinishTables

GridSpec == GridInit /\ [][GridNext]_<<pipelineVars, tagVars, tables>>

-----------------------------------------------------------------------------
(* A finished table is a full rectangle: each of its places is covered by  *)
(* exactly one cell, cells are where they were declared and in the row     *)
(* they were tagged in, none is lost, and a head has a body below it.  A   *)
(* table is left for a review only if two declared cells overlap or one    *)
(* spans a missing row.                                                    *)
TablesAreTiled ==
    step = "finished" => \A t \in DOMAIN tables :
        LET rows == tables[t].rows
            cells == Range(Entries(rows))
            Cell(e) == rows[e[1]].cells[e[2]]
            Meet(e, f) == /\ e[1] < f[1] + Cell(f).down /\ f[1] < e[1] + Cell(e).down
                          /\ Cell(e).col < Cell(f).col + Cell(f).across
                          /\ Cell(f).col < Cell(e).col + Cell(e).across
            Covers(e, r, c) == /\ e[1] <= r /\ r < e[1] + Cell(e).down
                               /\ Cell(e).col <= c /\ c < Cell(e).col + Cell(e).across
            tagged == {i \in DOMAIN tags : tags[i].type = "TD" /\ tags[tags[i].parent].parent = t}
        IN  IF tables[t].review
            THEN \/ SpansGap(rows)
                 \/ \E e, f \in cells : e # f /\ None \notin {Cell(e).col, Cell(f).col} /\ Meet(e, f)
            ELSE /\ \A r \in DOMAIN rows : \A c \in 1..tables[t].width :
                        Cardinality({e \in cells : Covers(e, r, c)}) = 1
                 /\ \A e \in cells : /\ e[1] + Cell(e).down - 1 <= Len(rows)
                                      /\ Cell(e).col + Cell(e).across - 1 <= tables[t].width
                 /\ \A i \in tagged :
                        LET own == {e \in cells : tags[i].node \in Range(Cell(e).nodes)}
                        IN  /\ Cardinality(own) = 1
                            /\ \A e \in own : /\ rows[e[1]].number = tags[tags[i].parent].name
                                              /\ CellOf(i).col \in {None, Cell(e).col}
                 /\ (\E r \in Range(rows) : r.section = "head") => \E r \in Range(rows) : r.section = "body"
=============================================================================
