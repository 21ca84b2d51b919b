-------------------------- MODULE TableGridProofs --------------------------
(***************************************************************************)
(* Proofs about TableGrid, for every text that is tagged.  A table has     *)
(* rows and a row has cells (FillsIn), so the pass that reads them finds   *)
(* each cell in one place (Gathered), however the fragments of a row are   *)
(* joined, and the passes over sections move none (SamePlaces).  A grid    *)
(* under way covers just the places of the cells that have their column,   *)
(* each once (Laid): a declared cell that cannot be laid is a Clash, and   *)
(* for any other there is a free place (FirstFree).  The table that is     *)
(* made of the grid is therefore a full rectangle (Tiles) that has lost    *)
(* no cell (Settled), which is TablesAreTiled.  Passes that fold over a    *)
(* sequence are proved by induction over its beginnings.                   *)
(***************************************************************************)
EXTENDS TagTreeProofs

(* A table has rows, and a row has cells.                                  *)
FillsIn(ts) == \A i \in DOMAIN ts : /\ PointsIn(ts, ts[i].parent, "Table") => ts[i].type = "TR"
                                    /\ PointsIn(ts, ts[i].parent, "TR") => ts[i].type = "TD"

LEMMA FillsStay ==
  ASSUME TagsOK, FillsIn(tags), NEW p, NEW new, Hangs(p, new),
         Points(p, "Table") => new[1].type = "TR", Points(p, "TR") => new[1].type = "TD",
         \A k \in 1..(Len(new) - 1) : /\ new[k].type = "Table" => new[k + 1].type = "TR"
                                      /\ new[k].type = "TR" => new[k + 1].type = "TD"
  PROVE  FillsIn(tags')
<1>1. /\ Len(tags) \in Nat /\ DOMAIN tags = 1..Len(tags) /\ Len(new) \in Nat
      /\ DOMAIN tags' = 1..(Len(tags) + Len(new)) /\ p \in 0..Len(tags)
      /\ \A i \in DOMAIN tags : i \in DOMAIN tags' /\ tags'[i] = tags[i]
      /\ \A i \in DOMAIN tags' : i \notin DOMAIN tags =>
            /\ i - Len(tags) \in 1..Len(new) /\ tags'[i] = new[i - Len(tags)] /\ i > Len(tags)
            /\ tags'[i].parent = IF i = Len(tags) + 1 THEN p ELSE i - 1
  BY HungAre
<1> SUFFICES ASSUME NEW i \in DOMAIN tags'
             PROVE  /\ PointsIn(tags', tags'[i].parent, "Table") => tags'[i].type = "TR"
                    /\ PointsIn(tags', tags'[i].parent, "TR") => tags'[i].type = "TD"
  BY DEF FillsIn
<1>2. CASE i \in DOMAIN tags
  <2>1. tags[i] \in TagSet /\ tags[i].parent < i
    BY <1>2 DEF TagsOK
  <2>2. tags[i].parent \in Nat
    BY <2>1 DEF TagSet
  <2>3. tags[i].parent \in DOMAIN tags' => tags[i].parent \in DOMAIN tags
    BY <1>1, <1>2, <2>1, <2>2
  <2>4. tags'[i] = tags[i]
    BY <1>1, <1>2
  <2>5. ASSUME NEW type, PointsIn(tags', tags[i].parent, type) PROVE PointsIn(tags, tags[i].parent, type)
    BY <1>1, <2>3, <2>5 DEF PointsIn
  <2> QED
    BY <1>2, <2>4, <2>5 DEF FillsIn
<1>3. CASE i = Len(tags) + 1
  <2>1. i \notin DOMAIN tags /\ i - Len(tags) = 1
    BY <1>1, <1>3
  <2>2. tags'[i] = new[1] /\ tags'[i].parent = p
    BY <1>1, <1>3, <2>1
  <2>3. p \in DOMAIN tags' /\ p \notin DOMAIN tags => FALSE
    <3> SUFFICES ASSUME p \in DOMAIN tags' PROVE p \in DOMAIN tags
      OBVIOUS
    <3> QED
      BY <1>1
  <2>4. ASSUME NEW type, PointsIn(tags', p, type) PROVE Points(p, type)
    BY <1>1, <2>3, <2>4 DEF Points, PointsIn
  <2> QED
    BY <2>2, <2>4
<1>4. CASE i \notin DOMAIN tags /\ i # Len(tags) + 1
  <2> DEFINE k == i - Len(tags) - 1
  <2>1. /\ k \in 1..(Len(new) - 1) /\ i - Len(tags) = k + 1 /\ i - 1 \in DOMAIN tags' /\ i - 1 \notin DOMAIN tags
        /\ (i - 1) - Len(tags) = k
    BY <1>1, <1>4
  <2>2. tags'[i] = new[k + 1] /\ tags'[i].parent = i - 1 /\ tags'[i - 1] = new[k]
    BY <1>1, <1>4, <2>1
  <2> HIDE DEF k
  <2> QED
    BY <2>1, <2>2 DEF PointsIn
<1> QED
  BY <1>1, <1>2, <1>3, <1>4

(* What is added anywhere but in a table and is neither a table nor a row. *)
LEMMA FillsOne ==
  ASSUME TagsOK, FillsIn(tags), NEW p, NEW a, Hangs(p, <<a>>),
         Points(p, "Table") => a.type = "TR", Points(p, "TR") => a.type = "TD"
  PROVE  FillsIn(tags')
<1> DEFINE new == <<a>>
<1>1. Hangs(p, new) /\ new[1] = a /\ Len(new) = 1
  OBVIOUS
<1>2. \A k \in 1..(Len(new) - 1) : FALSE
  BY <1>1
<1> HIDE DEF new
<1> QED
  BY <1>1, <1>2, FillsStay

LEMMA FillsTwo ==
  ASSUME TagsOK, FillsIn(tags), NEW p, NEW a, NEW b, Hangs(p, <<a, b>>),
         Points(p, "Table") => a.type = "TR", Points(p, "TR") => a.type = "TD",
         a.type = "Table" => b.type = "TR", a.type = "TR" => b.type = "TD"
  PROVE  FillsIn(tags')
<1> DEFINE new == <<a, b>>
<1>1. Hangs(p, new) /\ new[1] = a /\ new[2] = b /\ Len(new) = 2
  OBVIOUS
<1>2. \A k \in 1..(Len(new) - 1) : k = 1 /\ k + 1 = 2
  BY <1>1
<1> HIDE DEF new
<1>3. \A k \in 1..(Len(new) - 1) : /\ new[k].type = "Table" => new[k + 1].type = "TR"
                                   /\ new[k].type = "TR" => new[k + 1].type = "TD"
  BY <1>1, <1>2
<1> QED
  BY <1>1, <1>3, FillsStay

(* The container of what is added is a section or the document.            *)
LEMMA PointsToOne == ASSUME NEW p, NEW type, p = None \/ Points(p, type), TagsOK, type \notin {"Table", "TR"}
                     PROVE ~Points(p, "Table") /\ ~Points(p, "TR")
<1>1. ~(None \in DOMAIN tags)
  BY DEF TagsOK, None
<1> QED
  BY <1>1 DEF Points, PointsIn

LEMMA StepFills ==
  ASSUME TagInv, FillsIn(tags), TagStep, step' = "tagging"
  PROVE  FillsIn(tags')
<1>1. Tidy /\ TextOK(text) /\ TagsOK /\ PointersOK /\ TablesOK /\ RowsOK /\ SectionsOK /\ ListsOK
  BY DEF TagInv, Tidy, PointersOK
<1>2. ~Points(Container, "Table") /\ ~Points(Container, "TR")
  <2>1. Container = None \/ Points(Container, "Sect")
    BY <1>1, ContainerIs
  <2> QED
    BY <1>1, <2>1, PointsToOne
<1>3. CASE SkipArtifact
  BY <1>3 DEF SkipArtifact
<1>4. CASE TagLabel
  <2>1. CASE Points(diagram.tag, "Sect") /\ Hangs(diagram.tag, <<Leaf("P", diagram.tag)>>)
    <3>1. ~Points(diagram.tag, "Table") /\ ~Points(diagram.tag, "TR")
      BY <2>1, <1>1, PointsToOne
    <3> QED
      BY <1>1, <2>1, <3>1, FillsOne
  <2>2. CASE Hangs(Container, <<Tag("Sect", Container, None, None), Leaf("P", Len(tags) + 1)>>)
    <3>1. Tag("Sect", Container, None, None).type = "Sect"
      BY TagType
    <3> QED
      BY <1>1, <1>2, <2>2, <3>1, FillsTwo
  <2> QED
    BY <1>1, <1>4, <2>1, <2>2, LabelHangs
<1>5. CASE TagHeading
  <2> DEFINE level == levels[This.level]
  <2>1. PICK kept \in 0..Len(sections) :
          LET parent == IF kept = 0 THEN None ELSE sections[kept].tag
          IN  Hangs(parent, <<Tag("Sect", parent, None, None), Leaf("H", Len(tags) + 1)>>)
    BY <1>1, <1>5, HeadingHangs
  <2> DEFINE parent == IF kept = 0 THEN None ELSE sections[kept].tag
  <2>2. parent = None \/ Points(parent, "Sect")
    <3>1. kept # 0 => kept \in DOMAIN sections
      BY <1>1 DEF SectionsOK
    <3> QED
      BY <1>1, <3>1 DEF SectionsOK
  <2>3. Hangs(parent, <<Tag("Sect", parent, None, None), Leaf("H", Len(tags) + 1)>>)
    BY <2>1
  <2> HIDE DEF parent
  <2>4. ~Points(parent, "Table") /\ ~Points(parent, "TR")
    <3>1. 0 \notin DOMAIN tags
      BY <1>1 DEF TagsOK
    <3> QED
      BY <2>2, <3>1 DEF Points, PointsIn, None
  <2>5. Tag("Sect", parent, None, None).type = "Sect"
    BY TagType
  <2> QED
    BY <1>1, <2>3, <2>4, <2>5, FillsTwo
<1>6. CASE ContinueItem
  <2>1. PICK p \in Nat : Points(p, "LI") /\ Hangs(p, <<Leaf("P", p)>>)
    BY <1>1, <1>6, ContinueHangs
  <2>2. ~Points(p, "Table") /\ ~Points(p, "TR")
    BY <1>1, <2>1, PointsToOne
  <2> QED
    BY <1>1, <2>1, <2>2, FillsOne
<1>7. CASE TagItem
  <2>0. \A k \in DOMAIN lists : Points(lists[k].tag, "L") /\ Points(lists[k].last, "LI")
    BY <1>1 DEF ListsOK
  <2>1. CASE Hangs(Container, <<Tag("L", Container, None, None), Leaf("LI", Len(tags) + 1)>>)
    <3>1. Tag("L", Container, None, None).type = "L"
      BY TagType
    <3> QED
      BY <1>1, <1>2, <2>1, <3>1, FillsTwo
  <2>2. CASE lists # << >> /\ LET top == lists[Len(lists)]
                              IN  Hangs(top.last, <<Tag("L", top.last, None, None), Leaf("LI", Len(tags) + 1)>>)
    <3> DEFINE p == lists[Len(lists)].last
    <3>1. Hangs(p, <<Tag("L", p, None, None), Leaf("LI", Len(tags) + 1)>>)
      BY <2>2
    <3>2. Len(lists) \in DOMAIN lists
      BY <1>1, <2>2 DEF ListsOK
    <3>3. Points(p, "LI")
      BY <2>0, <3>2
    <3> HIDE DEF p
    <3>4. ~Points(p, "Table") /\ ~Points(p, "TR")
      BY <1>1, <3>3, PointsToOne
    <3>5. Tag("L", p, None, None).type = "L"
      BY TagType
    <3> QED
      BY <1>1, <3>1, <3>4, <3>5, FillsTwo
  <2>3. CASE \E k \in DOMAIN lists : Hangs(lists[k].tag, <<Leaf("LI", lists[k].tag)>>)
    <3>1. PICK k \in DOMAIN lists : Hangs(lists[k].tag, <<Leaf("LI", lists[k].tag)>>)
      BY <2>3
    <3>2. ~Points(lists[k].tag, "Table") /\ ~Points(lists[k].tag, "TR")
      BY <1>1, <2>0, PointsToOne
    <3> QED
      BY <1>1, <3>1, <3>2, FillsOne
  <2> QED
    BY <1>1, <1>7, <2>1, <2>2, <2>3, ItemHangs
<1>8. CASE TagTable
  <2>1. Hangs(Container, <<Tag("Table", Container, next + 1, FreshName(This.group))>>)
    BY <1>1, <1>8, TableHangs
  <2> DEFINE a == Tag("Table", Container, next + 1, FreshName(This.group))
  <2>2. Hangs(Container, <<a>>)
    BY <2>1
  <2> HIDE DEF a
  <2> QED
    BY <1>1, <1>2, <2>2, FillsOne
<1>9. CASE TagCell
  <2>1. CASE Hangs(Container, <<Tag("Table", Container, None, FreshName(This.group)),
                                Tag("TR", Len(tags) + 1, None, This.row), Leaf("TD", Len(tags) + 2)>>)
    <3> DEFINE a == Tag("Table", Container, None, FreshName(This.group))
               b == Tag("TR", Len(tags) + 1, None, This.row)
               c == Leaf("TD", Len(tags) + 2)
    <3>1. Hangs(Container, <<a, b, c>>) /\ a.type = "Table" /\ b.type = "TR" /\ c.type = "TD"
      BY <2>1, TagType, LeafType
    <3> HIDE DEF a, b, c
    <3> DEFINE new == <<a, b, c>>
    <3>2. Hangs(Container, new) /\ new[1] = a /\ new[2] = b /\ new[3] = c /\ Len(new) = 3
      BY <3>1
    <3>3. \A k \in 1..(Len(new) - 1) : (k = 1 /\ k + 1 = 2) \/ (k = 2 /\ k + 1 = 3)
      BY <3>2
    <3> HIDE DEF new
    <3>4. \A k \in 1..(Len(new) - 1) : /\ new[k].type = "Table" => new[k + 1].type = "TR"
                                       /\ new[k].type = "TR" => new[k + 1].type = "TD"
      BY <3>1, <3>2, <3>3
    <3> QED
      BY <1>1, <1>2, <3>2, <3>4, FillsStay
  <2>2. CASE \E k \in DOMAIN table.rows : Hangs(table.rows[k].tag, <<Leaf("TD", table.rows[k].tag)>>)
    <3>1. PICK k \in DOMAIN table.rows : Hangs(table.rows[k].tag, <<Leaf("TD", table.rows[k].tag)>>)
      BY <2>2
    <3>2. Points(table.rows[k].tag, "TR")
      BY <1>1 DEF PointersOK, OpenTableOK
    <3> DEFINE p == table.rows[k].tag
               a == Leaf("TD", p)
    <3>3. ~Points(p, "Table") /\ a.type = "TD" /\ Hangs(p, <<a>>)
      BY <3>1, <3>2, LeafType DEF Points, PointsIn
    <3> HIDE DEF p, a
    <3> QED
      BY <1>1, <3>3, FillsOne
  <2>3. CASE table.tag # None /\ \E offset \in Int :
               Hangs(table.tag, <<Tag("TR", table.tag, None, This.row + offset), Leaf("TD", Len(tags) + 1)>>)
    <3>1. PICK offset \in Int :
             Hangs(table.tag, <<Tag("TR", table.tag, None, This.row + offset), Leaf("TD", Len(tags) + 1)>>)
      BY <2>3
    <3> DEFINE p == table.tag
               a == Tag("TR", p, None, This.row + offset)
               b == Leaf("TD", Len(tags) + 1)
    <3>2. Points(p, "Table")
      BY <1>1, <2>3 DEF PointersOK, OpenTableOK
    <3>3. ~Points(p, "TR") /\ a.type = "TR" /\ b.type = "TD" /\ Hangs(p, <<a, b>>)
      BY <3>1, <3>2, TagType, LeafType DEF Points, PointsIn
    <3> HIDE DEF p, a, b
    <3> QED
      BY <1>1, <3>3, FillsTwo
  <2> QED
    BY <1>1, <1>9, <2>1, <2>2, <2>3, CellHangs
<1>10. CASE TagParagraph
  <2>1. CASE Hangs(Container, <<Leaf("P", Container)>>)
    BY <1>1, <1>2, <2>1, FillsOne
  <2>2. CASE \E p \in Nat : Points(p, "P") /\ Hangs(p, <<Leaf("Span", p)>>)
    <3>1. PICK p \in Nat : Points(p, "P") /\ Hangs(p, <<Leaf("Span", p)>>)
      BY <2>2
    <3>2. ~Points(p, "Table") /\ ~Points(p, "TR")
      BY <1>1, <3>1, PointsToOne
    <3> QED
      BY <1>1, <3>1, <3>2, FillsOne
  <2> QED
    BY <1>1, <1>10, <2>1, <2>2, ParagraphHangs
<1> QED
  BY <1>3, <1>4, <1>5, <1>6, <1>7, <1>8, <1>9, <1>10 DEF TagStep

LEMMA FunctionIsSequence ==
  ASSUME NEW S, NEW n \in Nat, NEW s \in [1..n -> S]
  PROVE  s \in Seq(S) /\ Len(s) = n /\ DOMAIN s = 1..n
OBVIOUS

LEMMA SequenceIs ==
  ASSUME NEW S, NEW s \in Seq(S)
  PROVE  Len(s) \in Nat /\ DOMAIN s = 1..Len(s) /\ \A i \in DOMAIN s : s[i] \in S
OBVIOUS

(* The children of a tag.                                                  *)
ChildTags(i) == {j \in DOMAIN tags : tags[j].parent = i}

LEMMA ChildrenAre ==
  ASSUME TagsOK, NEW i
  PROVE  /\ ChildrenOf(i) \in Seq(ChildTags(i))
         /\ \A j \in ChildTags(i) : \E k \in DOMAIN ChildrenOf(i) : ChildrenOf(i)[k] = j
         /\ \A k, l \in DOMAIN ChildrenOf(i) : ChildrenOf(i)[k] = ChildrenOf(i)[l] => k = l
<1> DEFINE S == ChildTags(i)
           N == Cardinality(S)
           Pre(j, k) == j < k
           s == Sorted(S, Pre)
<1>1. /\ Len(tags) \in Nat /\ DOMAIN tags = 1..Len(tags) /\ S \subseteq 1..Len(tags)
      /\ IsFiniteSet(S) /\ S \subseteq Int
  <2>1. Len(tags) \in Nat /\ DOMAIN tags = 1..Len(tags) /\ S \subseteq 1..Len(tags)
    BY DEF TagsOK, ChildTags
  <2>2. IsFiniteSet(1..Len(tags))
    BY <2>1, PlacesAreFinite
  <2>3. IsFiniteSet(S)
    BY <2>1, <2>2, FS_Subset
  <2> QED
    BY <2>1, <2>3
<1>2. N \in Nat /\ OrdersSet(Less, S)
  <2> HIDE DEF S
  <2> QED
    BY <1>1, FS_CardinalityType, LessOrders
<1>3. ASSUME NEW x \in S PROVE {y \in S : Pre(y, x)} = Earlier(Less, S, x)
  BY <1>1 DEF Earlier, Less
<1>4. ASSUME NEW k \in 1..N PROVE s[k] \in S /\ Count(Less, S, s[k]) = k - 1
  <2>1. \E x \in S : Count(Less, S, x) = k - 1
    <3> HIDE DEF S
    <3> QED
      BY <1>2, EveryCountIsTaken
  <2>2. \A x \in S : Cardinality({y \in S : Pre(y, x)}) = Count(Less, S, x)
    BY <1>3 DEF Count
  <2>3. s[k] = CHOOSE x \in S : Cardinality({y \in S : Pre(y, x)}) = k - 1
    BY DEF Sorted
  <2>4. \E x \in S : Cardinality({y \in S : Pre(y, x)}) = k - 1
    BY <2>1, <2>2
  <2>5. s[k] \in S /\ Cardinality({y \in S : Pre(y, s[k])}) = k - 1
    <3> HIDE DEF s, S
    <3> QED
      BY <2>3, <2>4
  <2> QED
    BY <2>2, <2>5, ZenonT(40)
<1>5. s \in [1..N -> S]
  BY <1>4 DEF Sorted
<1>6. s = ChildrenOf(i)
  BY DEF ChildrenOf, ChildTags
<1> HIDE DEF s
<1>7. InOrder(s, Less, S)
  <2> HIDE DEF S
  <2> QED
    BY <1>2, <1>4, <1>5, Counting
<1> HIDE DEF S, N
<1>8. s \in Seq(S) /\ DOMAIN s = 1..N
  BY <1>2, <1>5, FunctionIsSequence
<1> QED
  BY <1>6, <1>7, <1>8 DEF InOrder, S, N

-----------------------------------------------------------------------------
(* The cells and rows of a table.                                          *)
CellHints == {"none", "head", "body", "foot"}
CellSet == [nodes : Seq(Nat), head : BOOLEAN, col : Nat, across : Nat \ {0}, down : Nat \ {0}, hint : CellHints]
TableRow == [number : Int, section : CellHints, cells : Seq(CellSet)]

Places(rows) == {e \in Nat \X Nat : e[1] \in DOMAIN rows /\ e[2] \in DOMAIN rows[e[1]].cells}
CellAt(rows, e) == rows[e[1]].cells[e[2]]

LEMMA PlacesAre ==
  ASSUME NEW rows \in Seq(TableRow)
  PROVE  /\ Len(rows) \in Nat /\ DOMAIN rows = 1..Len(rows)
         /\ \A i \in DOMAIN rows : /\ rows[i] \in TableRow /\ rows[i].cells \in Seq(CellSet)
                                   /\ \A k \in DOMAIN rows[i].cells : <<i, k>> \in Places(rows)
         /\ \A e \in Places(rows) : /\ e[1] \in DOMAIN rows /\ e[2] \in DOMAIN rows[e[1]].cells
                                    /\ e[1] \in Nat \ {0} /\ e[2] \in Nat \ {0} /\ e = <<e[1], e[2]>>
                                    /\ CellAt(rows, e) \in CellSet
<1>1. Len(rows) \in Nat /\ DOMAIN rows = 1..Len(rows) /\ \A i \in DOMAIN rows : rows[i] \in TableRow
  OBVIOUS
<1>2. \A i \in DOMAIN rows : rows[i].cells \in Seq(CellSet)
  BY <1>1 DEF TableRow
<1>3. \A i \in DOMAIN rows : /\ Len(rows[i].cells) \in Nat /\ DOMAIN rows[i].cells = 1..Len(rows[i].cells)
                             /\ \A k \in DOMAIN rows[i].cells : rows[i].cells[k] \in CellSet
  <2> TAKE i \in DOMAIN rows
  <2> DEFINE s == rows[i].cells
             C == CellSet
  <2>1. s \in Seq(C)
    BY <1>2
  <2> HIDE DEF s, C
  <2>2. Len(s) \in Nat /\ DOMAIN s = 1..Len(s) /\ \A k \in DOMAIN s : s[k] \in C
    BY <2>1, SequenceIs
  <2> QED
    BY <2>2 DEF s, C
<1>4. \A i \in DOMAIN rows : \A k \in DOMAIN rows[i].cells : <<i, k>> \in Places(rows)
  BY <1>1, <1>3 DEF Places
<1>5. \A e \in Places(rows) : /\ e[1] \in DOMAIN rows /\ e[2] \in DOMAIN rows[e[1]].cells
                              /\ e[1] \in Nat \ {0} /\ e[2] \in Nat \ {0} /\ e = <<e[1], e[2]>>
  BY <1>1, <1>3 DEF Places
<1> QED
  BY <1>1, <1>2, <1>3, <1>4, <1>5 DEF CellAt

LEMMA FlatIs ==
  ASSUME NEW s
  PROVE  FlattenSeq(s) = IF Len(s) = 0 THEN s
                         ELSE (CHOOSE f : f = [i \in 1..Len(s) |-> IF i = 1 THEN s[i] ELSE f[i - 1] \o s[i]])[Len(s)]
BY DEF FlattenSeq

(* Every place of a cell is an entry, once.                                *)
LEMMA EntriesAre ==
  ASSUME NEW rows \in Seq(TableRow)
  PROVE  /\ Entries(rows) \in Seq(Places(rows))
         /\ \A e \in Places(rows) : \E q \in DOMAIN Entries(rows) : Entries(rows)[q] = e
         /\ \A q, r \in DOMAIN Entries(rows) : Entries(rows)[q] = Entries(rows)[r] => q = r
<1> DEFINE n == Len(rows)
           P == Places(rows)
           seqs == [i \in DOMAIN rows |-> [k \in DOMAIN rows[i].cells |-> <<i, k>>]]
           Step(f) == [i \in 1..Len(seqs) |-> IF i = 1 THEN seqs[i] ELSE f[i - 1] \o seqs[i]]
           flat == CHOOSE f : f = Step(f)
<1>1. n \in Nat /\ DOMAIN rows = 1..n
  BY PlacesAre
<1>2. /\ \A i \in 1..n : /\ seqs[i] \in Seq(P) /\ \A k \in DOMAIN seqs[i] : seqs[i][k] = <<i, k>>
                         /\ DOMAIN seqs[i] = DOMAIN rows[i].cells
  <2> SUFFICES ASSUME NEW i \in 1..n
               PROVE  /\ seqs[i] \in Seq(P) /\ \A k \in DOMAIN seqs[i] : seqs[i][k] = <<i, k>>
                      /\ DOMAIN seqs[i] = DOMAIN rows[i].cells
    OBVIOUS
  <2>1. rows[i].cells \in Seq(CellSet) /\ \A k \in DOMAIN rows[i].cells : <<i, k>> \in P
    BY <1>1, PlacesAre
  <2>2. Len(rows[i].cells) \in Nat /\ DOMAIN rows[i].cells = 1..Len(rows[i].cells)
    BY <2>1
  <2>3. seqs[i] \in [1..Len(rows[i].cells) -> P]
    BY <1>1, <2>1, <2>2
  <2>4. seqs[i] \in Seq(P)
    <3> HIDE DEF seqs, P
    <3> QED
      BY <2>2, <2>3, FunctionIsSequence
  <2> QED
    BY <1>1, <2>4
<1>3. DOMAIN seqs = 1..n /\ Len(seqs) = n
  <2>1. DOMAIN seqs = 1..n
    BY <1>1
  <2>2. seqs \in [1..n -> Seq(P)]
    BY <1>1, <1>2, <2>1
  <2> HIDE DEF seqs, P
  <2> QED
    BY <1>1, <2>1, <2>2, FunctionIsSequence
<1>4. Entries(rows) = IF n = 0 THEN seqs ELSE flat[n]
  <2>1. Entries(rows) = FlattenSeq(seqs)
    BY DEF Entries
  <2> HIDE DEF seqs
  <2>2. FlattenSeq(seqs) = IF Len(seqs) = 0 THEN seqs ELSE flat[Len(seqs)]
    BY FlatIs
  <2> HIDE DEF flat, n
  <2> QED
    BY <1>3, <2>1, <2>2
<1> HIDE DEF seqs
<1>5. CASE n = 0
  <2>1. Entries(rows) = seqs /\ seqs = << >>
    <3>1. DOMAIN seqs = {}
      BY <1>1, <1>3, <1>5
    <3> QED
      BY <1>4, <1>5, <3>1, <1>1 DEF seqs
  <2>2. P = {}
    <3> SUFFICES ASSUME NEW e \in P PROVE FALSE
      OBVIOUS
    <3>1. e[1] \in 1..n
      BY <1>1, PlacesAre
    <3> QED
      BY <1>5, <3>1
  <2> QED
    BY <2>1, <2>2
<1>6. CASE n # 0
  <2>1. \E f : f = Step(f)
    <3> DEFINE X == 1..n
               Y == Seq(P)
               m == [i \in X |-> i]
               before == [i \in X |-> IF i = 1 THEN 1 ELSE i - 1]
               base == [i \in X |-> seqs[i]]
               then == [z \in X \X Y |-> z[2] \o seqs[z[1]]]
    <3>1. m \in [X -> 0..n] /\ before \in [X -> X] /\ base \in [X -> Y]
      BY <1>1, <1>2, <1>6
    <3>2. then \in [X \X Y -> Y]
      <4>1. \A i \in X, y \in Y : y \o seqs[i] \in Y
        <5> HIDE DEF P
        <5> QED
          BY <1>2
      <4> QED
        BY <4>1
    <3>3. \A i \in X \ {1} : m[before[i]] < m[i]
      BY <1>1
    <3> DEFINE stop == {1}
    <3>4. Grounded(X, Y, n, m, before, stop, base, then)
      <4> HIDE DEF X, Y, m, before, base, then
      <4> QED
        BY <1>1, <3>1, <3>2, <3>3 DEF Grounded
    <3> HIDE DEF X, Y, m, before, base, then, stop
    <3>5. PICK f \in [X -> Y] : \A i \in X : f[i] = IF i \in stop THEN base[i] ELSE then[<<i, f[before[i]]>>]
      BY <3>4, Recursion
    <3>6. \A i \in 1..n : f[i] = IF i = 1 THEN seqs[i] ELSE f[i - 1] \o seqs[i]
      <4> SUFFICES ASSUME NEW i \in 1..n PROVE f[i] = IF i = 1 THEN seqs[i] ELSE f[i - 1] \o seqs[i]
        OBVIOUS
      <4>1. CASE i = 1
        BY <3>5, <4>1 DEF X, base, stop
      <4>2. CASE i # 1
        <5>1. i \in X /\ before[i] = i - 1 /\ i - 1 \in X
          BY <1>1, <4>2 DEF X, before
        <5>2. f[i - 1] \in Y
          BY <3>5, <5>1
        <5>3. f[i] = then[<<i, f[i - 1]>>]
          BY <3>5, <4>2, <5>1 DEF stop
        <5>4. then[<<i, f[i - 1]>>] = f[i - 1] \o seqs[i]
          BY <5>1, <5>2 DEF then
        <5> QED
          BY <4>2, <5>3, <5>4
      <4> QED
        BY <4>1, <4>2
    <3>7. f = [i \in 1..n |-> f[i]]
      BY <3>5 DEF X
    <3>8. f = Step(f)
      BY <1>3, <3>6, <3>7
    <3> QED
      BY <3>8
  <2>2. flat = Step(flat)
    <3> HIDE DEF Step
    <3> QED
      BY <2>1
  <2> HIDE DEF flat
  <2>3. \A i \in 1..n : flat[i] = IF i = 1 THEN seqs[i] ELSE flat[i - 1] \o seqs[i]
    BY <1>3, <2>2
  <2> DEFINE Good(i) == /\ flat[i] \in Seq(P)
                        /\ \A q \in DOMAIN flat[i] : flat[i][q][1] \in 1..i
                        /\ \A e \in P : e[1] \in 1..i => \E q \in DOMAIN flat[i] : flat[i][q] = e
                        /\ \A q, r \in DOMAIN flat[i] : flat[i][q] = flat[i][r] => q = r
             S == {i \in Nat : i + 1 <= n => Good(i + 1)}
  <2>4. 0 \in S
    <3>1. flat[1] = seqs[1] /\ 1 \in 1..n
      BY <1>1, <1>6, <2>3
    <3>2. \A e \in P : e[1] = 1 => e[2] \in DOMAIN seqs[1] /\ e = <<1, e[2]>>
      BY <1>2, <3>1, PlacesAre
    <3>3. 1..1 = {1} /\ 0 + 1 = 1
      OBVIOUS
    <3>4. /\ \A q \in DOMAIN seqs[1] : seqs[1][q][1] = 1
          /\ \A e \in P : e[1] = 1 => \E q \in DOMAIN seqs[1] : seqs[1][q] = e
          /\ \A q, r \in DOMAIN seqs[1] : seqs[1][q] = seqs[1][r] => q = r
          /\ seqs[1] \in Seq(P)
      <4> DEFINE s == seqs[1]
      <4>1. s \in Seq(P) /\ \A k \in DOMAIN s : s[k] = <<1, k>>
        BY <1>2, <3>1
      <4>2. \A e \in P : e[1] = 1 => e[2] \in DOMAIN s /\ e = <<1, e[2]>>
        BY <3>2
      <4> HIDE DEF s, P
      <4>3. \A e \in P : e[1] = 1 => s[e[2]] = e
        BY <4>1, <4>2
      <4> QED
        BY <4>1, <4>2, <4>3 DEF s
    <3> HIDE DEF P
    <3> QED
      BY <3>1, <3>3, <3>4
  <2>5. ASSUME NEW i \in Nat, i \in S PROVE i + 1 \in S
    <3> SUFFICES ASSUME i + 2 <= n PROVE Good(i + 2)
      OBVIOUS
    <3>1. i + 1 \in 1..n /\ i + 2 \in 1..n /\ i + 2 # 1 /\ (i + 2) - 1 = i + 1
      BY <1>1
    <3> DEFINE s == flat[i + 1]
               t == seqs[i + 2]
               u == flat[i + 2]
               k == i + 2
    <3>2. Good(i + 1)
      BY <2>5, <3>1
    <3>3. u = s \o t
      BY <2>3, <3>1
    <3>4. s \in Seq(P) /\ t \in Seq(P) /\ \A j \in DOMAIN t : t[j] = <<k, j>>
      BY <1>2, <3>1, <3>2
    <3>5. \A e \in P : e[1] = k => e[2] \in DOMAIN t /\ e = <<k, e[2]>>
      BY <1>2, <3>1, PlacesAre
    <3>6. /\ \A q \in DOMAIN s : s[q][1] \in 1..(i + 1)
          /\ \A e \in P : e[1] \in 1..(i + 1) => \E q \in DOMAIN s : s[q] = e
          /\ \A q, r \in DOMAIN s : s[q] = s[r] => q = r
      BY <3>2
    <3>7. k \in Nat /\ 1..k = (1..(i + 1)) \cup {k} /\ k \notin 1..(i + 1)
      OBVIOUS
    <3> HIDE DEF Good, P, s, t, u, k, flat, S
    <3>8. /\ Len(s) \in Nat /\ DOMAIN s = 1..Len(s) /\ Len(t) \in Nat /\ DOMAIN t = 1..Len(t)
          /\ u \in Seq(P) /\ DOMAIN u = 1..(Len(s) + Len(t))
          /\ \A q \in DOMAIN s : q \in DOMAIN u /\ u[q] = s[q]
          /\ \A q \in DOMAIN t : Len(s) + q \in DOMAIN u /\ u[Len(s) + q] = t[q]
      BY <3>3, <3>4, SMTT(30)
    <3>9. \A q \in DOMAIN u : q \in DOMAIN s \/ (q \notin DOMAIN s /\ q - Len(s) \in DOMAIN t /\ u[q] = <<k, q - Len(s)>>)
      <4> SUFFICES ASSUME NEW q \in DOMAIN u, q \notin DOMAIN s PROVE q - Len(s) \in DOMAIN t /\ u[q] = <<k, q - Len(s)>>
        OBVIOUS
      <4>1. q - Len(s) \in DOMAIN t /\ Len(s) + (q - Len(s)) = q
        BY <3>8
      <4> QED
        BY <3>4, <3>8, <4>1
    <3>10. \A q \in DOMAIN u : u[q][1] \in 1..k
      BY <3>6, <3>7, <3>8, <3>9
    <3>11. ASSUME NEW e \in P, e[1] \in 1..k PROVE \E q \in DOMAIN u : u[q] = e
      <4>1. CASE e[1] \in 1..(i + 1)
        BY <3>6, <3>8, <4>1
      <4>2. CASE e[1] = k
        <5>1. e[2] \in DOMAIN t /\ e = <<k, e[2]>>
          BY <3>5, <4>2
        <5>2. t[e[2]] = e
          BY <3>4, <5>1
        <5> QED
          BY <3>8, <5>1, <5>2
      <4> QED
        BY <3>7, <3>11, <4>1, <4>2
    <3>12. ASSUME NEW q \in DOMAIN u, NEW r \in DOMAIN u, u[q] = u[r] PROVE q = r
      <4>1. CASE q \in DOMAIN s /\ r \in DOMAIN s
        BY <3>6, <3>8, <3>12, <4>1
      <4>2. CASE q \notin DOMAIN s /\ r \notin DOMAIN s
        <5>1. q - Len(s) = r - Len(s)
          BY <3>9, <3>12, <4>2
        <5> QED
          BY <3>8, <5>1
      <4>3. ASSUME NEW x \in DOMAIN u, NEW y \in DOMAIN u, x \in DOMAIN s, y \notin DOMAIN s PROVE u[x] # u[y]
        <5>1. u[x][1] \in 1..(i + 1) /\ u[y][1] = k
          BY <3>6, <3>8, <3>9, <4>3
        <5> QED
          BY <3>7, <5>1
      <4> QED
        BY <3>12, <4>1, <4>2, <4>3
    <3> QED
      BY <3>8, <3>10, <3>11, <3>12 DEF Good, u, k
  <2>6. \A i \in Nat : i \in S
    <3> HIDE DEF S
    <3> QED
      BY <2>4, <2>5, Induction
  <2>7. Good(n)
    <3>1. n - 1 \in Nat /\ (n - 1) + 1 = n
      BY <1>1, <1>6
    <3> HIDE DEF Good
    <3> QED
      BY <1>1, <2>6, <3>1
  <2>8. \A e \in P : e[1] \in 1..n
    BY <1>1, PlacesAre
  <2> QED
    BY <1>4, <1>6, <2>7, <2>8
<1> QED
  BY <1>5, <1>6

LEMMA RangeOfJoined ==
  ASSUME NEW S, NEW s \in Seq(S), NEW x \in S
  PROVE  s \o <<x>> \in Seq(S) /\ Range(s \o <<x>>) = Range(s) \cup {x}
<1>1. s \o <<x>> = Append(s, x) /\ s \o <<x>> \in Seq(S)
  OBVIOUS
<1>2. Len(s) \in Nat /\ DOMAIN s = 1..Len(s)
  OBVIOUS
<1>3. /\ DOMAIN Append(s, x) = 1..(Len(s) + 1) /\ Append(s, x)[Len(s) + 1] = x
      /\ \A k \in 1..Len(s) : Append(s, x)[k] = s[k]
  BY <1>2
<1> DEFINE t == Append(s, x)
<1>4. 1..(Len(s) + 1) = (1..Len(s)) \cup {Len(s) + 1}
  BY <1>2
<1>5. DOMAIN t = (DOMAIN s) \cup {Len(s) + 1} /\ t[Len(s) + 1] = x /\ \A k \in DOMAIN s : t[k] = s[k]
  BY <1>2, <1>3, <1>4
<1> HIDE DEF t
<1>6. Range(t) = Range(s) \cup {x}
  <2>1. \A y \in Range(t) : y \in Range(s) \cup {x}
    BY <1>5 DEF Range
  <2>2. \A y \in Range(s) \cup {x} : y \in Range(t)
    BY <1>5 DEF Range
  <2> QED
    BY <2>1, <2>2
<1> QED
  BY <1>1, <1>6 DEF t

(* The first cells of a row, joined: each of their nodes is in one cell,   *)
(* with the column it declared, and nothing else is.                       *)
JoinsTo(joined, cells, node, q) ==
  /\ \A m \in DOMAIN joined : \A y \in Range(joined[m].nodes) :
        \E k \in 1..q : y = node[k] /\ joined[m].col = cells[k].col
  /\ \A k \in 1..q : \E m \in DOMAIN joined : node[k] \in Range(joined[m].nodes)
  /\ \A l, m \in DOMAIN joined : l # m => Range(joined[l].nodes) \cap Range(joined[m].nodes) = {}

JoinOf(joined, c, aligned) ==
  LET same == {k \in DOMAIN joined : Declares(joined[k]) = Declares(c)}
  IN  IF Declares(c) \notin aligned \/ same = {} THEN Append(joined, c)
      ELSE [joined EXCEPT ![Min(same)].nodes = @ \o c.nodes]

(* One node in each cell, that is in no other.                             *)
Single(cells, node) ==
  /\ \A k \in DOMAIN cells : node[k] \in Nat /\ cells[k].nodes = <<node[k]>>
  /\ \A k, l \in DOMAIN cells : node[k] = node[l] => k = l

LEMMA JoinIs ==
  ASSUME NEW joined \in Seq(CellSet), NEW c \in CellSet, NEW aligned
  PROVE  /\ JoinOf(joined, c, aligned) \in Seq(CellSet)
         /\ \/ JoinOf(joined, c, aligned) = Append(joined, c)
            \/ \E m \in DOMAIN joined :
                  /\ Declares(joined[m]) = Declares(c)
                  /\ JoinOf(joined, c, aligned) = [joined EXCEPT ![m] = [joined[m] EXCEPT !.nodes = @ \o c.nodes]]
<1> DEFINE same == {k \in DOMAIN joined : Declares(joined[k]) = Declares(c)}
           J == JoinOf(joined, c, aligned)
<1>1. CASE Declares(c) \notin aligned \/ same = {}
  <2>1. J = Append(joined, c)
    BY <1>1 DEF JoinOf
  <2> DEFINE C == CellSet
  <2>2. joined \in Seq(C) /\ c \in C
    OBVIOUS
  <2> HIDE DEF C
  <2>3. Append(joined, c) \in Seq(C)
    BY <2>2
  <2> QED
    BY <2>1, <2>3 DEF C
<1>2. CASE ~(Declares(c) \notin aligned \/ same = {})
  <2> DEFINE m == Min(same)
             more == [joined[m] EXCEPT !.nodes = @ \o c.nodes]
  <2>1. J = [joined EXCEPT ![m].nodes = @ \o c.nodes]
    BY <1>2 DEF JoinOf
  <2>2. Len(joined) \in Nat /\ DOMAIN joined = 1..Len(joined) /\ \A k \in DOMAIN joined : joined[k] \in CellSet
    BY SequenceIs
  <2>3. m \in same
    <3>1. same \subseteq 1..Len(joined) /\ same # {}
      BY <1>2, <2>2
    <3>2. IsFiniteSet(1..Len(joined))
      BY <2>2, PlacesAreFinite
    <3>3. IsFiniteSet(same) /\ same \subseteq Int
      BY <3>1, <3>2, FS_Subset
    <3> HIDE DEF same
    <3> QED
      BY <3>1, <3>3, Lowest
  <2>4. m \in DOMAIN joined /\ Declares(joined[m]) = Declares(c)
    BY <2>3
  <2>5. J = [joined EXCEPT ![m] = more]
    BY <2>1
  <2>6. more \in CellSet
    <3>1. joined[m] \in CellSet
      BY <2>2, <2>4
    <3>2. joined[m].nodes \o c.nodes \in Seq(Nat)
      BY <3>1 DEF CellSet
    <3> HIDE DEF m
    <3> QED
      BY <3>1, <3>2 DEF CellSet
  <2>7. J \in Seq(CellSet)
    <3> DEFINE C == CellSet
    <3>1. J \in [1..Len(joined) -> C]
      BY <2>2, <2>4, <2>5, <2>6
    <3> HIDE DEF C, J
    <3>2. J \in Seq(C)
      BY <2>2, <3>1, FunctionIsSequence
    <3> QED
      BY <3>2 DEF C
  <2> QED
    BY <2>4, <2>5, <2>7
<1> QED
  BY <1>1, <1>2

LEMMA DeclaredAlike ==
  ASSUME NEW c \in CellSet, NEW d \in CellSet, Declares(c) = Declares(d)
  PROVE  c.col = d.col
<1>1. Declares(c).col = c.col /\ Declares(d).col = d.col
  BY DEF Declares, CellSet
<1> QED
  BY <1>1

LEMMA JoinKeeps ==
  ASSUME NEW cells \in Seq(CellSet), NEW node, Single(cells, node), NEW aligned,
         NEW joined \in Seq(CellSet), NEW q \in Nat, q + 1 \in DOMAIN cells, JoinsTo(joined, cells, node, q)
  PROVE  JoinsTo(JoinOf(joined, cells[q + 1], aligned), cells, node, q + 1)
<1> DEFINE c == cells[q + 1]
           x == node[q + 1]
           J == JoinOf(joined, c, aligned)
           n == Len(joined)
<1>1. c \in CellSet /\ c.nodes = <<x>> /\ x \in Nat /\ Range(c.nodes) = {x}
  <2>1. c \in CellSet /\ c.nodes = <<x>> /\ x \in Nat
    BY SequenceIs DEF Single
  <2>2. DOMAIN <<x>> = {1} /\ <<x>>[1] = x
    OBVIOUS
  <2> QED
    BY <2>1, <2>2 DEF Range
<1>2. /\ Len(cells) \in Nat /\ DOMAIN cells = 1..Len(cells)
      /\ n \in Nat /\ DOMAIN joined = 1..n /\ \A m \in DOMAIN joined : joined[m] \in CellSet
  BY SequenceIs
<1>3. \A k \in 1..q : k \in DOMAIN cells /\ node[k] # x
  <2> TAKE k \in 1..q
  <2>1. k \in DOMAIN cells /\ k # q + 1
    BY <1>2
  <2> QED
    BY <2>1 DEF Single
<1>4. q + 1 \in 1..(q + 1) /\ 1..(q + 1) = (1..q) \cup {q + 1}
  OBVIOUS
<1>5. \A m \in DOMAIN joined : x \notin Range(joined[m].nodes)
  <2> SUFFICES ASSUME NEW m \in DOMAIN joined, NEW y \in Range(joined[m].nodes) PROVE y # x
    OBVIOUS
  <2>1. PICK k \in 1..q : y = node[k] /\ joined[m].col = cells[k].col
    BY DEF JoinsTo
  <2> QED
    BY <1>3, <2>1
<1>6. \A m \in DOMAIN joined : joined[m].nodes \in Seq(Nat)
  BY <1>2 DEF CellSet
<1> HIDE DEF c, x
<1>7. CASE J = Append(joined, c)
  <2>1. /\ DOMAIN J = (DOMAIN joined) \cup {n + 1} /\ J[n + 1] = c /\ n + 1 \notin DOMAIN joined
        /\ \A m \in DOMAIN joined : J[m] = joined[m]
    <3> DEFINE C == CellSet
    <3>1. joined \in Seq(C) /\ c \in C
      BY <1>1
    <3> HIDE DEF C, J
    <3>2. /\ DOMAIN J = 1..(n + 1) /\ J[n + 1] = c /\ \A m \in 1..n : J[m] = joined[m]
      BY <1>2, <1>7, <3>1
    <3> QED
      BY <1>2, <3>2
  <2> HIDE DEF J, n
  <2>2. \A m \in DOMAIN J : \A y \in Range(J[m].nodes) :
            \E k \in 1..(q + 1) : y = node[k] /\ J[m].col = cells[k].col
    <3> SUFFICES ASSUME NEW m \in DOMAIN J, NEW y \in Range(J[m].nodes)
                 PROVE  \E k \in 1..(q + 1) : y = node[k] /\ J[m].col = cells[k].col
      OBVIOUS
    <3>1. CASE m = n + 1
      BY <1>1, <1>4, <2>1, <3>1 DEF c, x
    <3>2. CASE m \in DOMAIN joined
      <4>1. J[m] = joined[m] /\ y \in Range(joined[m].nodes)
        BY <2>1, <3>2
      <4>2. PICK k \in 1..q : y = node[k] /\ joined[m].col = cells[k].col
        BY <3>2, <4>1, ZenonT(40) DEF JoinsTo
      <4> QED
        BY <1>4, <4>1, <4>2
    <3> QED
      BY <2>1, <3>1, <3>2
  <2>3. \A k \in 1..(q + 1) : \E m \in DOMAIN J : node[k] \in Range(J[m].nodes)
    <3> SUFFICES ASSUME NEW k \in 1..(q + 1) PROVE \E m \in DOMAIN J : node[k] \in Range(J[m].nodes)
      OBVIOUS
    <3>1. CASE k = q + 1
      BY <1>1, <2>1, <3>1 DEF x
    <3>2. CASE k \in 1..q
      BY <2>1, <3>2 DEF JoinsTo
    <3> QED
      BY <1>4, <3>1, <3>2
  <2>4. \A l, m \in DOMAIN J : l # m => Range(J[l].nodes) \cap Range(J[m].nodes) = {}
    <3> SUFFICES ASSUME NEW l \in DOMAIN J, NEW m \in DOMAIN J, l # m, NEW y, y \in Range(J[l].nodes), y \in Range(J[m].nodes)
                 PROVE  FALSE
      OBVIOUS
    <3>1. CASE l \in DOMAIN joined /\ m \in DOMAIN joined
      BY <2>1, <3>1 DEF JoinsTo
    <3>2. CASE l = n + 1
      BY <1>1, <1>5, <2>1, <3>2
    <3>3. CASE m = n + 1
      BY <1>1, <1>5, <2>1, <3>3
    <3> QED
      BY <2>1, <3>1, <3>2, <3>3
  <2> QED
    BY <2>2, <2>3, <2>4 DEF JoinsTo, J, c
<1>8. ASSUME NEW at \in DOMAIN joined, Declares(joined[at]) = Declares(c),
             J = [joined EXCEPT ![at] = [joined[at] EXCEPT !.nodes = @ \o c.nodes]]
      PROVE  JoinsTo(J, cells, node, q + 1)
  <2> DEFINE more == [joined[at] EXCEPT !.nodes = @ \o c.nodes]
  <2>1. /\ more.col = joined[at].col /\ Range(more.nodes) = Range(joined[at].nodes) \cup {x}
    <3>1. joined[at] \in CellSet
      BY <1>2
    <3>2. more.col = joined[at].col /\ more.nodes = joined[at].nodes \o c.nodes
      BY <3>1 DEF CellSet
    <3> HIDE DEF more
    <3>3. more.nodes = joined[at].nodes \o <<x>>
      BY <1>1, <3>2
    <3>4. joined[at].nodes \in Seq(Nat) /\ x \in Nat
      BY <1>1, <1>6
    <3>5. Range(joined[at].nodes \o <<x>>) = Range(joined[at].nodes) \cup {x}
      <4> DEFINE s == joined[at].nodes
                 N == Nat
      <4>1. s \in Seq(N) /\ x \in N
        BY <3>4
      <4> HIDE DEF s, N
      <4>2. Range(s \o <<x>>) = Range(s) \cup {x}
        BY <4>1, RangeOfJoined
      <4> QED
        BY <4>2 DEF s
    <3> QED
      BY <3>2, <3>3, <3>5
  <2>2. joined[at].col = c.col
    BY <1>1, <1>2, <1>8, DeclaredAlike
  <2>3. DOMAIN J = DOMAIN joined /\ J[at] = more /\ \A m \in DOMAIN joined : m # at => J[m] = joined[m]
    BY <1>2, <1>8
  <2> HIDE DEF J, n, more
  <2>4. \A m \in DOMAIN J : \A y \in Range(J[m].nodes) :
            \E k \in 1..(q + 1) : y = node[k] /\ J[m].col = cells[k].col
    <3> SUFFICES ASSUME NEW m \in DOMAIN J, NEW y \in Range(J[m].nodes)
                 PROVE  \E k \in 1..(q + 1) : y = node[k] /\ J[m].col = cells[k].col
      OBVIOUS
    <3>1. J[m].col = joined[m].col
      BY <2>1, <2>3
    <3>2. CASE y \in Range(joined[m].nodes)
      <4>1. PICK k \in 1..q : y = node[k] /\ joined[m].col = cells[k].col
        BY <2>3, <3>2 DEF JoinsTo
      <4> QED
        BY <1>4, <3>1, <4>1
    <3>3. CASE y \notin Range(joined[m].nodes)
      <4>1. m = at /\ y = x
        BY <2>1, <2>3, <3>3
      <4> QED
        BY <1>4, <2>2, <3>1, <4>1 DEF c, x
    <3> QED
      BY <3>2, <3>3
  <2>5. \A m \in DOMAIN joined : Range(joined[m].nodes) \subseteq Range(J[m].nodes)
    BY <2>1, <2>3
  <2>6. \A k \in 1..(q + 1) : \E m \in DOMAIN J : node[k] \in Range(J[m].nodes)
    <3> SUFFICES ASSUME NEW k \in 1..(q + 1) PROVE \E m \in DOMAIN J : node[k] \in Range(J[m].nodes)
      OBVIOUS
    <3>1. CASE k = q + 1
      BY <2>1, <2>3, <3>1 DEF x
    <3>2. CASE k \in 1..q
      <4>1. PICK m \in DOMAIN joined : node[k] \in Range(joined[m].nodes)
        BY <3>2 DEF JoinsTo
      <4> QED
        BY <2>3, <2>5, <4>1
    <3> QED
      BY <1>4, <3>1, <3>2
  <2>7. \A l, m \in DOMAIN J : l # m => Range(J[l].nodes) \cap Range(J[m].nodes) = {}
    <3> SUFFICES ASSUME NEW l \in DOMAIN J, NEW m \in DOMAIN J, l # m, NEW y, y \in Range(J[l].nodes), y \in Range(J[m].nodes)
                 PROVE  FALSE
      OBVIOUS
    <3>1. l \in DOMAIN joined /\ m \in DOMAIN joined
      BY <2>3
    <3>2. Range(joined[l].nodes) \cap Range(joined[m].nodes) = {}
      BY <3>1 DEF JoinsTo
    <3>3. CASE l = at
      BY <1>5, <2>1, <2>3, <3>1, <3>2, <3>3
    <3>4. CASE m = at
      BY <1>5, <2>1, <2>3, <3>1, <3>2, <3>4
    <3>5. CASE l # at /\ m # at
      BY <2>3, <3>1, <3>2, <3>5
    <3> QED
      BY <3>3, <3>4, <3>5
  <2> QED
    BY <2>4, <2>6, <2>7 DEF JoinsTo
<1> QED
  BY <1>1, <1>7, <1>8, JoinIs DEF c

(* The last of the first elements that a fold has gone through.            *)
LEMMA FoldingStep ==
  ASSUME NEW n \in Nat, NEW Y, NEW f \in [SUBSET (1..n) -> Y], NEW T \in SUBSET (1..n), T # {}
  PROVE  Max(T) \in 1..n /\ T \ {Max(T)} \in SUBSET (1..n) /\ f[T \ {Max(T)}] \in Y
<1>1. T \subseteq 1..n /\ T \ {Max(T)} \in SUBSET (1..n)
  OBVIOUS
<1>2. IsFiniteSet(T) /\ T \subseteq Int
  <2>1. IsFiniteSet(1..n)
    BY PlacesAreFinite
  <2>2. IsFiniteSet(T)
    BY <1>1, <2>1, FS_Subset
  <2>3. T \subseteq Int
    BY <1>1
  <2> QED
    BY <2>2, <2>3
<1>3. Max(T) \in T
  BY <1>2, Greatest
<1> QED
  BY <1>1, <1>3

LEMMA JoinedAre ==
  ASSUME NEW cells \in Seq(CellSet), NEW node, Single(cells, node), NEW aligned
  PROVE  Joined(cells, aligned) \in Seq(CellSet) /\ JoinsTo(Joined(cells, aligned), cells, node, Len(cells))
<1> DEFINE n == Len(cells)
           Y == Seq(CellSet)
           Iter(f) == [T \in SUBSET (1..n) |->
                          IF T = {} THEN << >> ELSE JoinOf(f[T \ {Max(T)}], cells[Max(T)], aligned)]
           it == CHOOSE f : f = Iter(f)
<1>1. n \in Nat /\ DOMAIN cells = 1..n /\ \A i \in 1..n : cells[i] \in CellSet
  BY SequenceIs
<1>2. Joined(cells, aligned) = it[1..n]
  BY <1>1 DEF Joined, FoldLeft, MapThenFoldSet, JoinOf
<1>3. \A joined \in Y, i \in 1..n : JoinOf(joined, cells[i], aligned) \in Y
  BY <1>1, JoinIs
<1>4. << >> \in Y
  OBVIOUS
<1>5. \E f : f = Iter(f)
  <2> DEFINE then == [z \in (1..n) \X Y |-> JoinOf(z[2], cells[z[1]], aligned)]
             empty == << >>
  <2>1. then \in [(1..n) \X Y -> Y] /\ empty \in Y
    BY <1>3, <1>4
  <2>2. PICK f \in [SUBSET (1..n) -> Y] : FoldsTo(f, n, empty, then)
    <3> HIDE DEF then, empty, Y, n
    <3> QED
      BY <1>1, <2>1, Folding DEF n
  <2>3. ASSUME NEW T \in SUBSET (1..n), T # {}
        PROVE  then[<<Max(T), f[T \ {Max(T)}]>>] = JoinOf(f[T \ {Max(T)}], cells[Max(T)], aligned)
    <3>1. Max(T) \in 1..n /\ f[T \ {Max(T)}] \in Y
      <4> HIDE DEF Y, n
      <4> QED
        BY <1>1, <2>3, FoldingStep DEF n
    <3> HIDE DEF Y, n
    <3> QED
      BY <3>1
  <2>4. f = Iter(f)
    <3>1. f = [T \in SUBSET (1..n) |-> f[T]]
      <4> HIDE DEF Y
      <4> QED
        BY <2>2
    <3>2. \A T \in SUBSET (1..n) : f[T] = IF T = {} THEN << >> ELSE JoinOf(f[T \ {Max(T)}], cells[Max(T)], aligned)
      <4> HIDE DEF then, Y, n
      <4> QED
        BY <2>2, <2>3 DEF FoldsTo, empty
    <3> HIDE DEF Y
    <3> QED
      BY <3>1, <3>2
  <2> QED
    BY <2>4
<1>6. it = Iter(it)
  <2> HIDE DEF Iter
  <2> QED
    BY <1>5
<1> HIDE DEF it
<1>7. it[{}] = << >>
  BY <1>6
<1>8. ASSUME NEW k \in 1..n PROVE it[1..k] = JoinOf(it[1..(k - 1)], cells[k], aligned)
  <2>1. /\ Max(1..k) = k /\ (1..k) \ {k} = 1..(k - 1)
        /\ 1..k \in SUBSET (1..n) /\ 1..k # {}
    BY <1>1, Beginnings
  <2>2. it[1..k] = JoinOf(it[(1..k) \ {Max(1..k)}], cells[Max(1..k)], aligned)
    BY <1>6, <2>1
  <2> QED
    BY <2>1, <2>2
<1> DEFINE S == {k \in Nat : k <= n => it[1..k] \in Y /\ JoinsTo(it[1..k], cells, node, k)}
<1>9. 0 \in S
  <2>1. 1..0 = {} /\ DOMAIN << >> = {}
    OBVIOUS
  <2> QED
    BY <1>4, <1>7, <2>1 DEF JoinsTo
<1>10. ASSUME NEW k \in Nat, k \in S PROVE k + 1 \in S
  <2> SUFFICES ASSUME k + 1 <= n PROVE it[1..(k + 1)] \in Y /\ JoinsTo(it[1..(k + 1)], cells, node, k + 1)
    OBVIOUS
  <2>1. k + 1 \in 1..n /\ (k + 1) - 1 = k /\ k <= n
    BY <1>1
  <2>2. it[1..k] \in Y /\ JoinsTo(it[1..k], cells, node, k)
    BY <1>10, <2>1
  <2>3. it[1..(k + 1)] = JoinOf(it[1..k], cells[k + 1], aligned)
    BY <1>8, <2>1
  <2> DEFINE joined == it[1..k]
  <2>4. joined \in Seq(CellSet) /\ JoinsTo(joined, cells, node, k) /\ k + 1 \in DOMAIN cells
    BY <1>1, <2>1, <2>2
  <2> HIDE DEF joined
  <2>5. JoinsTo(JoinOf(joined, cells[k + 1], aligned), cells, node, k + 1)
    BY <2>4, JoinKeeps
  <2>6. JoinOf(joined, cells[k + 1], aligned) \in Y
    BY <1>3, <2>1, <2>4
  <2> HIDE DEF Y
  <2> QED
    BY <2>3, <2>5, <2>6 DEF joined
<1>11. \A k \in Nat : k \in S
  <2> HIDE DEF S
  <2> QED
    BY <1>9, <1>10, Induction
<1>12. it[1..n] \in Y /\ JoinsTo(it[1..n], cells, node, n)
  <2> HIDE DEF Y, n
  <2>1. n <= n
    BY <1>1
  <2> QED
    BY <1>1, <1>11, <2>1
<1> QED
  BY <1>2, <1>12

(* A cell as it was tagged.                                                *)
LEMMA CellIs ==
  ASSUME TextOK(text), TagsOK, NEW c \in DOMAIN tags, tags[c].type = "TD"
  PROVE  /\ CellOf(c) \in CellSet /\ tags[c].node \in Nat /\ tags[c].node # None
         /\ CellOf(c).nodes = <<tags[c].node>>
<1> DEFINE n == tags[c].node
<1>1. n # None /\ n \in 1..next /\ next \in 0..Len(text) /\ Len(text) \in Nat /\ DOMAIN text = 1..Len(text)
  <2>1. "TD" \notin Groupings
    BY DEF Groupings
  <2>2. Len(text) \in Nat /\ DOMAIN text = 1..Len(text)
    BY PiecesOfAText
  <2> QED
    BY <2>1, <2>2 DEF TagsOK
<1>2. n \in Nat /\ n \in DOMAIN text
  BY <1>1
<1>3. text[n].cell \in [head : BOOLEAN, col : Nat, across : Nat \ {0}, down : Nat \ {0},
                        hint : {"none", "head", "body", "foot"}]
  BY <1>2, PiecesOfAText DEF PieceOK
<1>4. <<n>> \in Seq(Nat)
  BY <1>2
<1> HIDE DEF n
<1>5. CellOf(c) \in CellSet
  BY <1>3, <1>4 DEF CellOf, CellSet, CellHints, n
<1>6. CellOf(c).nodes = <<n>>
  BY DEF CellOf, n
<1> QED
  BY <1>1, <1>2, <1>5, <1>6 DEF n

(* What is read from the children of a row: their nodes, in cells that     *)
(* have the columns they declared.                                         *)
ReadFrom(i, cells) ==
  /\ cells \in Seq(CellSet)
  /\ \A m \in DOMAIN cells : \A y \in Range(cells[m].nodes) : \E c \in ChildTags(i) : y = tags[c].node
  /\ \A c \in ChildTags(i) : \E m \in DOMAIN cells : tags[c].node \in Range(cells[m].nodes) /\ cells[m].col = CellOf(c).col
  /\ \A l, m \in DOMAIN cells : l # m => Range(cells[l].nodes) \cap Range(cells[m].nodes) = {}

LEMMA RowIsRead ==
  ASSUME TextOK(text), TagsOK, FillsIn(tags), NEW i \in DOMAIN tags, tags[i].type = "TR", NEW aligned
  PROVE  ReadFrom(i, Joined([k \in DOMAIN ChildrenOf(i) |-> CellOf(ChildrenOf(i)[k])], aligned))
<1> DEFINE kids == ChildrenOf(i)
           cells == [k \in DOMAIN kids |-> CellOf(kids[k])]
           node == [k \in DOMAIN kids |-> tags[kids[k]].node]
           J == Joined(cells, aligned)
           n == Len(kids)
<1>1. /\ kids \in Seq(ChildTags(i)) /\ \A j \in ChildTags(i) : \E k \in DOMAIN kids : kids[k] = j
      /\ \A k, l \in DOMAIN kids : kids[k] = kids[l] => k = l
  BY ChildrenAre
<1>2. \A c \in ChildTags(i) : c \in DOMAIN tags /\ tags[c].type = "TD"
  BY DEF FillsIn, ChildTags, PointsIn
<1>3. n \in Nat /\ DOMAIN kids = 1..n /\ \A k \in DOMAIN kids : kids[k] \in ChildTags(i)
  <2> DEFINE S == ChildTags(i)
  <2>1. kids \in Seq(S)
    BY <1>1
  <2> HIDE DEF S, kids
  <2> QED
    BY <2>1 DEF S
<1> HIDE DEF kids
<1>4. /\ \A k \in DOMAIN kids : CellOf(kids[k]) \in CellSet /\ node[k] \in Nat /\ node[k] # None
                                /\ CellOf(kids[k]).nodes = <<node[k]>>
  BY <1>2, <1>3, CellIs
<1>5. cells \in Seq(CellSet) /\ DOMAIN cells = 1..n /\ Len(cells) = n
  <2>1. cells \in [1..n -> CellSet]
    BY <1>3, <1>4
  <2> HIDE DEF cells, n
  <2> QED
    BY <1>3, <2>1, FunctionIsSequence
<1>6. \A b, c \in ChildTags(i) : tags[b].node = tags[c].node => b = c
  <2> SUFFICES ASSUME NEW b \in ChildTags(i), NEW c \in ChildTags(i), tags[b].node = tags[c].node, b # c PROVE FALSE
    OBVIOUS
  <2>1. b \in DOMAIN tags /\ c \in DOMAIN tags /\ tags[b].node # None /\ tags[b].node \in Nat /\ tags[c].node # None
    BY <1>2, CellIs
  <2>2. b < c \/ c < b
    BY <2>1 DEF TagsOK
  <2> QED
    BY <2>1, <2>2 DEF TagsOK
<1>7. Single(cells, node)
  <2>1. \A k \in DOMAIN cells : node[k] \in Nat /\ cells[k].nodes = <<node[k]>>
    BY <1>3, <1>4, <1>5
  <2>2. \A k, l \in DOMAIN cells : node[k] = node[l] => k = l
    BY <1>1, <1>3, <1>5, <1>6
  <2> HIDE DEF cells, node
  <2> QED
    BY <2>1, <2>2 DEF Single
<1>8. \A k \in 1..n : node[k] = tags[kids[k]].node /\ cells[k].col = CellOf(kids[k]).col /\ kids[k] \in ChildTags(i)
  BY <1>3
<1> HIDE DEF cells, node, n
<1>9. J \in Seq(CellSet) /\ JoinsTo(J, cells, node, n)
  BY <1>5, <1>7, JoinedAre
<1> HIDE DEF J
<1>10. \A m \in DOMAIN J : \A y \in Range(J[m].nodes) : \E c \in ChildTags(i) : y = tags[c].node
  <2> SUFFICES ASSUME NEW m \in DOMAIN J, NEW y \in Range(J[m].nodes) PROVE \E c \in ChildTags(i) : y = tags[c].node
    OBVIOUS
  <2>1. PICK k \in 1..n : y = node[k]
    BY <1>9 DEF JoinsTo
  <2> QED
    BY <1>8, <2>1
<1>11. ASSUME NEW c \in ChildTags(i)
       PROVE  \E m \in DOMAIN J : tags[c].node \in Range(J[m].nodes) /\ J[m].col = CellOf(c).col
  <2>1. PICK k \in 1..n : kids[k] = c
    BY <1>1, <1>3
  <2>2. PICK m \in DOMAIN J : node[k] \in Range(J[m].nodes)
    BY <1>9 DEF JoinsTo
  <2>3. PICK l \in 1..n : node[k] = node[l] /\ J[m].col = cells[l].col
    BY <1>9, <2>2 DEF JoinsTo
  <2>4. kids[l] = c
    BY <1>6, <1>8, <2>1, <2>3
  <2> QED
    BY <1>8, <2>1, <2>2, <2>3, <2>4
<1>12. \A l, m \in DOMAIN J : l # m => Range(J[l].nodes) \cap Range(J[m].nodes) = {}
  BY <1>9 DEF JoinsTo
<1> QED
  BY <1>9, <1>10, <1>11, <1>12 DEF ReadFrom, J, cells, kids

-----------------------------------------------------------------------------
(* The rows of a table hold the cells that were tagged in it: each in one  *)
(* place, in its row and with the column it declared.                      *)
TaggedIn(t) == {i \in DOMAIN tags : tags[i].type = "TD" /\ tags[tags[i].parent].parent = t}
NodesAt(rows, e) == Range(CellAt(rows, e).nodes)

Gathered(t, rows) ==
  /\ rows \in Seq(TableRow)
  /\ \A e, f \in Places(rows) : e # f => NodesAt(rows, e) \cap NodesAt(rows, f) = {}
  /\ \A d \in TaggedIn(t) : \E e \in Places(rows) :
        /\ tags[d].node \in NodesAt(rows, e) /\ rows[e[1]].number = tags[tags[d].parent].name
        /\ CellAt(rows, e).col = CellOf(d).col

LEMMA TableIsRead ==
  ASSUME TagInv, FillsIn(tags), NEW t \in DOMAIN tags, tags[t].type = "Table", NEW aligned
  PROVE  Gathered(t, [k \in DOMAIN ChildrenOf(t) |-> ReadRow(ChildrenOf(t)[k], aligned)])
<1> DEFINE kids == ChildrenOf(t)
           rows == [k \in DOMAIN kids |-> ReadRow(kids[k], aligned)]
           n == Len(kids)
<1>1. TextOK(text) /\ TagsOK /\ TablesOK
  BY DEF TagInv, Tidy
<1>2. /\ kids \in Seq(ChildTags(t)) /\ \A j \in ChildTags(t) : \E k \in DOMAIN kids : kids[k] = j
      /\ \A k, l \in DOMAIN kids : kids[k] = kids[l] => k = l
  BY <1>1, ChildrenAre
<1>3. n \in Nat /\ DOMAIN kids = 1..n /\ \A k \in DOMAIN kids : kids[k] \in ChildTags(t)
  <2> DEFINE S == ChildTags(t)
  <2>1. kids \in Seq(S)
    BY <1>2
  <2> HIDE DEF S, kids
  <2> QED
    BY <2>1 DEF S
<1> HIDE DEF kids
<1>4. \A i \in ChildTags(t) : i \in DOMAIN tags /\ tags[i].type = "TR" /\ tags[i].name \in Int
  BY <1>1 DEF FillsIn, ChildTags, PointsIn, TablesOK
<1>5. \A k \in 1..n : /\ rows[k].number = tags[kids[k]].name /\ rows[k] \in TableRow
                      /\ ReadFrom(kids[k], rows[k].cells)
  <2> TAKE k \in 1..n
  <2> DEFINE i == kids[k]
             cells == Joined([j \in DOMAIN ChildrenOf(i) |-> CellOf(ChildrenOf(i)[j])], aligned)
  <2>1. i \in DOMAIN tags /\ tags[i].type = "TR" /\ tags[i].name \in Int
    BY <1>3, <1>4
  <2>2. ReadRow(i, aligned) = [number |-> tags[i].name, section |-> "none", cells |-> cells]
    BY DEF ReadRow
  <2> HIDE DEF i
  <2>3. ReadFrom(i, cells)
    BY <1>1, <2>1, RowIsRead
  <2>4. cells \in Seq(CellSet)
    BY <2>3 DEF ReadFrom
  <2> HIDE DEF cells
  <2>5. ReadRow(i, aligned) \in TableRow /\ ReadRow(i, aligned).number = tags[i].name /\ ReadRow(i, aligned).cells = cells
    BY <2>1, <2>2, <2>4 DEF TableRow, CellHints
  <2>6. rows[k] = ReadRow(i, aligned)
    BY <1>3 DEF i
  <2> HIDE DEF rows
  <2> QED
    BY <2>3, <2>5, <2>6 DEF i
<1>6. rows \in Seq(TableRow)
  <2>1. rows \in [1..n -> TableRow]
    BY <1>3, <1>5
  <2> HIDE DEF rows, n
  <2> QED
    BY <1>3, <2>1, FunctionIsSequence
<1>7. DOMAIN rows = 1..n
  BY <1>3
<1> HIDE DEF rows, n
<1>8. \A e \in Places(rows) : /\ e[1] \in 1..n /\ e[2] \in DOMAIN rows[e[1]].cells /\ e = <<e[1], e[2]>>
                              /\ CellAt(rows, e) = rows[e[1]].cells[e[2]]
  BY <1>6, <1>7, PlacesAre DEF CellAt
<1>13. \A e \in Places(rows) : /\ e[1] \in 1..n /\ ReadFrom(kids[e[1]], rows[e[1]].cells) /\ e[2] \in DOMAIN rows[e[1]].cells
                               /\ NodesAt(rows, e) = Range(rows[e[1]].cells[e[2]].nodes)
  BY <1>5, <1>8 DEF NodesAt
<1>9. ASSUME NEW e \in Places(rows), NEW y \in NodesAt(rows, e)
      PROVE  \E c \in ChildTags(kids[e[1]]) : y = tags[c].node
  <2> DEFINE cells == rows[e[1]].cells
             m == e[2]
             i == kids[e[1]]
  <2>1. ReadFrom(i, cells) /\ m \in DOMAIN cells /\ y \in Range(cells[m].nodes)
    BY <1>13
  <2> HIDE DEF cells, m, i
  <2>2. \E c \in ChildTags(i) : y = tags[c].node
    BY <2>1 DEF ReadFrom
  <2> QED
    BY <2>2 DEF i
<1>10. \A b, c \in DOMAIN tags : tags[b].type = "TD" /\ tags[c].type = "TD" /\ tags[b].node = tags[c].node => b = c
  <2> SUFFICES ASSUME NEW b \in DOMAIN tags, NEW c \in DOMAIN tags, tags[b].type = "TD", tags[c].type = "TD",
                      tags[b].node = tags[c].node, b # c PROVE FALSE
    OBVIOUS
  <2>1. tags[b].node # None /\ tags[b].node \in Nat /\ tags[c].node # None
    BY <1>1, CellIs
  <2>2. b < c \/ c < b
    BY <1>1 DEF TagsOK
  <2> QED
    BY <1>1, <2>1, <2>2 DEF TagsOK
<1>11. ASSUME NEW e \in Places(rows), NEW f \in Places(rows), e # f
       PROVE  NodesAt(rows, e) \cap NodesAt(rows, f) = {}
  <2> SUFFICES ASSUME NEW y \in NodesAt(rows, e), y \in NodesAt(rows, f) PROVE FALSE
    OBVIOUS
  <2>1. CASE e[1] = f[1]
    <3>1. e[2] # f[2]
      BY <1>8, <1>11, <2>1
    <3> DEFINE cells == rows[e[1]].cells
               l == e[2]
               m == f[2]
    <3>2. ReadFrom(kids[e[1]], cells) /\ l \in DOMAIN cells /\ m \in DOMAIN cells /\ l # m
      BY <1>13, <2>1, <3>1
    <3>3. y \in Range(cells[l].nodes) /\ y \in Range(cells[m].nodes)
      BY <1>13, <2>1
    <3> HIDE DEF cells, l, m
    <3>4. Range(cells[l].nodes) \cap Range(cells[m].nodes) = {}
      BY <3>2 DEF ReadFrom
    <3> QED
      BY <3>3, <3>4
  <2>2. CASE e[1] # f[1]
    <3>1. PICK b \in ChildTags(kids[e[1]]) : y = tags[b].node
      BY <1>9
    <3>2. PICK c \in ChildTags(kids[f[1]]) : y = tags[c].node
      BY <1>9
    <3>3. kids[e[1]] \in ChildTags(t) /\ kids[f[1]] \in ChildTags(t)
      BY <1>3, <1>8
    <3>4. tags[kids[e[1]]].type = "TR" /\ kids[e[1]] \in DOMAIN tags /\ tags[kids[f[1]]].type = "TR" /\ kids[f[1]] \in DOMAIN tags
      BY <1>4, <3>3
    <3>5. tags[b].type = "TD" /\ tags[c].type = "TD" /\ b \in DOMAIN tags /\ c \in DOMAIN tags
      BY <3>4 DEF ChildTags, FillsIn, PointsIn
    <3>6. b = c
      BY <1>10, <3>1, <3>2, <3>5
    <3>7. kids[e[1]] = kids[f[1]]
      BY <3>6 DEF ChildTags
    <3> QED
      BY <1>2, <1>3, <1>8, <2>2, <3>7
  <2> QED
    BY <2>1, <2>2
<1>12. ASSUME NEW d \in TaggedIn(t)
       PROVE  \E e \in Places(rows) : /\ tags[d].node \in NodesAt(rows, e)
                                      /\ rows[e[1]].number = tags[tags[d].parent].name
                                      /\ CellAt(rows, e).col = CellOf(d).col
  <2> DEFINE i == tags[d].parent
  <2>1. d \in ChildTags(i) /\ i \in ChildTags(t)
    <3>1. d \in DOMAIN tags /\ tags[d].type = "TD" /\ tags[i].parent = t
      BY DEF TaggedIn
    <3>2. i \in DOMAIN tags
      BY <1>1, <3>1 DEF TablesOK, Points, PointsIn
    <3> QED
      BY <3>1, <3>2 DEF ChildTags
  <2> HIDE DEF i
  <2>2. PICK k \in 1..n : kids[k] = i
    BY <1>2, <1>3, <2>1
  <2>3. PICK m \in DOMAIN rows[k].cells : tags[d].node \in Range(rows[k].cells[m].nodes) /\ rows[k].cells[m].col = CellOf(d).col
    BY <1>5, <2>1, <2>2 DEF ReadFrom
  <2>4. <<k, m>> \in Places(rows)
    BY <1>6, <1>7, PlacesAre
  <2>5. CellAt(rows, <<k, m>>) = rows[k].cells[m] /\ rows[<<k, m>>[1]].number = tags[i].name
    BY <1>5, <2>2 DEF CellAt
  <2> QED
    BY <2>3, <2>4, <2>5 DEF NodesAt, i
<1> QED
  BY <1>6, <1>11, <1>12 DEF Gathered, rows, kids

(* Passes that change the sections of the rows and the hints of the cells. *)
SameCells(cells, new) ==
  /\ new \in Seq(CellSet) /\ DOMAIN new = DOMAIN cells
  /\ \A k \in DOMAIN cells : /\ new[k].nodes = cells[k].nodes /\ new[k].col = cells[k].col
                             /\ new[k].across = cells[k].across /\ new[k].down = cells[k].down

SamePlaces(rows, new) ==
  /\ new \in Seq(TableRow) /\ DOMAIN new = DOMAIN rows
  /\ \A i \in DOMAIN rows : new[i].number = rows[i].number /\ SameCells(rows[i].cells, new[i].cells)

LEMMA PlacesStay ==
  ASSUME NEW rows \in Seq(TableRow), NEW new, SamePlaces(rows, new)
  PROVE  /\ Places(new) = Places(rows)
         /\ \A e \in Places(rows) : /\ new[e[1]].number = rows[e[1]].number
                                    /\ NodesAt(new, e) = NodesAt(rows, e)
                                    /\ CellAt(new, e).col = CellAt(rows, e).col
                                    /\ CellAt(new, e).across = CellAt(rows, e).across
                                    /\ CellAt(new, e).down = CellAt(rows, e).down
<1>1. DOMAIN new = DOMAIN rows /\ \A i \in DOMAIN rows : DOMAIN new[i].cells = DOMAIN rows[i].cells
  BY DEF SamePlaces, SameCells
<1>2. Places(new) = Places(rows)
  BY <1>1 DEF Places
<1>3. \A e \in Places(rows) : e[1] \in DOMAIN rows /\ e[2] \in DOMAIN rows[e[1]].cells
  BY DEF Places
<1>4. \A e \in Places(rows) : new[e[1]].number = rows[e[1]].number /\ SameCells(rows[e[1]].cells, new[e[1]].cells)
  BY <1>3 DEF SamePlaces
<1>5. ASSUME NEW e \in Places(rows)
      PROVE  /\ CellAt(new, e).nodes = CellAt(rows, e).nodes
             /\ CellAt(new, e).col = CellAt(rows, e).col
             /\ CellAt(new, e).across = CellAt(rows, e).across
             /\ CellAt(new, e).down = CellAt(rows, e).down
  BY <1>3, <1>4 DEF CellAt, SameCells
<1> QED
  BY <1>2, <1>4, <1>5 DEF NodesAt

LEMMA GatheredStays ==
  ASSUME NEW t, NEW rows, Gathered(t, rows), NEW new, SamePlaces(rows, new)
  PROVE  Gathered(t, new)
<1>1. rows \in Seq(TableRow) /\ new \in Seq(TableRow)
  BY DEF Gathered, SamePlaces
<1>2. /\ Places(new) = Places(rows)
      /\ \A e \in Places(rows) : /\ new[e[1]].number = rows[e[1]].number
                                 /\ NodesAt(new, e) = NodesAt(rows, e)
                                 /\ CellAt(new, e).col = CellAt(rows, e).col
  BY <1>1, PlacesStay
<1>3. \A e, f \in Places(new) : e # f => NodesAt(new, e) \cap NodesAt(new, f) = {}
  BY <1>2 DEF Gathered
<1>4. ASSUME NEW d \in TaggedIn(t)
      PROVE  \E e \in Places(new) :
                /\ tags[d].node \in NodesAt(new, e) /\ new[e[1]].number = tags[tags[d].parent].name
                /\ CellAt(new, e).col = CellOf(d).col
  <2>1. PICK e \in Places(rows) :
                /\ tags[d].node \in NodesAt(rows, e) /\ rows[e[1]].number = tags[tags[d].parent].name
                /\ CellAt(rows, e).col = CellOf(d).col
    BY DEF Gathered
  <2> QED
    BY <1>2, <2>1
<1> QED
  BY <1>1, <1>3, <1>4 DEF Gathered

Sections == {"head", "foot", "body"}

LEMMA SectionedIs ==
  ASSUME NEW rows \in Seq(TableRow)
  PROVE  /\ SamePlaces(rows, Sectioned(rows))
         /\ (\E i \in DOMAIN rows : Sectioned(rows)[i].section = "head") => \E i \in DOMAIN rows : Sectioned(rows)[i].section = "body"
<1> DEFINE keys == Partition(Assigned(rows))
           wrapped(key) == IF key = "head" /\ "body" \notin Range(keys) THEN "none" ELSE key
           new == Sectioned(rows)
           cells(i) == [k \in DOMAIN rows[i].cells |-> [rows[i].cells[k] EXCEPT !.hint = keys[i]]]
<1>1. Len(rows) \in Nat /\ DOMAIN rows = 1..Len(rows) /\ \A i \in DOMAIN rows : rows[i] \in TableRow
  BY PlacesAre
<1>2. DOMAIN Assigned(rows) = DOMAIN rows
  BY DEF Assigned
<1>3. DOMAIN keys = DOMAIN rows /\ \A i \in DOMAIN rows : keys[i] \in Sections
  BY <1>2 DEF Partition, Sections
<1>4. new = [i \in DOMAIN rows |-> [rows[i] EXCEPT !.section = wrapped(keys[i]), !.cells = cells(i)]]
  BY DEF Sectioned
<1> HIDE DEF keys
<1>5. \A i \in DOMAIN rows : wrapped(keys[i]) \in CellHints /\ keys[i] \in CellHints
  BY <1>3 DEF Sections, CellHints
<1>6. ASSUME NEW i \in DOMAIN rows PROVE SameCells(rows[i].cells, cells(i))
  <2> DEFINE old == rows[i].cells
             C == CellSet
             c == cells(i)
  <2>1. old \in Seq(C)
    BY <1>1 DEF TableRow
  <2>2. Len(old) \in Nat /\ DOMAIN old = 1..Len(old) /\ \A k \in DOMAIN old : old[k] \in C
    <3> HIDE DEF old, C
    <3> QED
      BY <2>1, SequenceIs
  <2>3. \A k \in DOMAIN old : c[k] = [old[k] EXCEPT !.hint = keys[i]]
    OBVIOUS
  <2>4. \A k \in DOMAIN old : /\ c[k] \in C /\ c[k].nodes = old[k].nodes /\ c[k].col = old[k].col
                              /\ c[k].across = old[k].across /\ c[k].down = old[k].down
    <3> HIDE DEF old, c
    <3> QED
      BY <1>5, <2>2, <2>3, ZenonT(40) DEF CellSet
  <2>5. DOMAIN c = DOMAIN old
    OBVIOUS
  <2>6. c \in [1..Len(old) -> C]
    <3>1. c = [k \in DOMAIN old |-> c[k]]
      OBVIOUS
    <3> HIDE DEF c, old, C
    <3> QED
      BY <2>2, <2>4, <3>1
  <2> HIDE DEF c, old, C
  <2>7. c \in Seq(C)
    BY <2>2, <2>6, FunctionIsSequence
  <2> QED
    BY <2>4, <2>5, <2>7 DEF SameCells, c, old, C
<1>7. ASSUME NEW i \in DOMAIN rows
      PROVE  /\ new[i] \in TableRow /\ new[i].number = rows[i].number /\ new[i].cells = cells(i)
             /\ new[i].section = wrapped(keys[i])
  <2> DEFINE c == cells(i)
             w == wrapped(keys[i])
  <2>1. c \in Seq(CellSet) /\ w \in CellHints /\ rows[i] \in TableRow
    BY <1>1, <1>5, <1>6 DEF SameCells
  <2>2. new[i] = [rows[i] EXCEPT !.section = w, !.cells = c]
    BY <1>4, ZenonT(40)
  <2> HIDE DEF c, w, new
  <2>3. new[i] \in TableRow /\ new[i].number = rows[i].number /\ new[i].cells = c /\ new[i].section = w
    BY <2>1, <2>2 DEF TableRow
  <2> QED
    BY <2>3 DEF c, w
<1>8. DOMAIN new = DOMAIN rows
  BY <1>4, ZenonT(40)
<1>9. new \in Seq(TableRow)
  <2>1. new = [i \in DOMAIN rows |-> new[i]]
    BY <1>4, ZenonT(40)
  <2> HIDE DEF new
  <2>2. new \in [1..Len(rows) -> TableRow]
    BY <1>1, <1>7, <2>1
  <2> QED
    BY <1>1, <2>2, FunctionIsSequence
<1> HIDE DEF new
<1>10. SamePlaces(rows, new)
  BY <1>6, <1>7, <1>8, <1>9 DEF SamePlaces
<1>11. ASSUME NEW i \in DOMAIN rows, new[i].section = "head"
       PROVE  \E j \in DOMAIN rows : new[j].section = "body"
  <2>1. wrapped(keys[i]) = "head"
    BY <1>7, <1>11
  <2>2. "body" \in Range(keys)
    BY <2>1
  <2>3. PICK j \in DOMAIN rows : keys[j] = "body"
    BY <1>3, <2>2 DEF Range
  <2>4. wrapped(keys[j]) = "body"
    BY <2>3
  <2> QED
    BY <1>7, <2>4
<1> QED
  BY <1>10, <1>11 DEF new

LEMMA FlattenedIs ==
  ASSUME NEW rows \in Seq(TableRow)
  PROVE  /\ SamePlaces(rows, Flattened(rows))
         /\ Flattened(rows) = rows \/ \A i \in DOMAIN rows : Flattened(rows)[i].section = "none"
<1> DEFINE new == [i \in DOMAIN rows |-> [rows[i] EXCEPT !.section = "none"]]
<1>1. Len(rows) \in Nat /\ DOMAIN rows = 1..Len(rows) /\ \A i \in DOMAIN rows : rows[i] \in TableRow /\ rows[i].cells \in Seq(CellSet)
  BY PlacesAre
<1>2. \A i \in DOMAIN rows : SameCells(rows[i].cells, rows[i].cells)
  BY <1>1 DEF SameCells
<1>3. \A i \in DOMAIN rows : /\ new[i] \in TableRow /\ new[i].number = rows[i].number /\ new[i].cells = rows[i].cells
                             /\ new[i].section = "none"
  BY <1>1 DEF TableRow, CellHints
<1>4. new \in Seq(TableRow)
  <2>1. new = [i \in DOMAIN rows |-> new[i]]
    OBVIOUS
  <2> HIDE DEF new
  <2>2. new \in [1..Len(rows) -> TableRow]
    BY <1>1, <1>3, <2>1
  <2> QED
    BY <1>1, <2>2, FunctionIsSequence
<1>5. SamePlaces(rows, rows)
  BY <1>2 DEF SamePlaces
<1>6. SamePlaces(rows, new)
  BY <1>2, <1>3, <1>4 DEF SamePlaces
<1> QED
  BY <1>3, <1>5, <1>6 DEF Flattened

(* The places that the cell at e covers from column c.                     *)
Area(rows, e, c) == Rectangle(e[1], CellAt(rows, e), c)
Slots == (Nat \ {0}) \X (Nat \ {0})

LEMMA AreaIs ==
  ASSUME NEW rows \in Seq(TableRow), NEW e \in Places(rows), NEW c \in Nat \ {0}
  PROVE  /\ IsFiniteSet(Area(rows, e, c)) /\ Area(rows, e, c) \subseteq Slots /\ <<e[1], c>> \in Area(rows, e, c)
         /\ \A r, d \in Nat : <<r, d>> \in Area(rows, e, c) <=> /\ e[1] <= r /\ r < e[1] + CellAt(rows, e).down
                                                                /\ c <= d /\ d < c + CellAt(rows, e).across
<1> DEFINE down == CellAt(rows, e).down
           across == CellAt(rows, e).across
           i == e[1]
<1>1. i \in Nat \ {0} /\ down \in Nat \ {0} /\ across \in Nat \ {0}
  BY PlacesAre DEF CellSet
<1>2. Area(rows, e, c) = (i..(i + down - 1)) \X (c..(c + across - 1))
  BY DEF Area, Rectangle
<1> HIDE DEF down, across, i
<1>3. i + down - 1 \in Nat /\ c + across - 1 \in Nat /\ i \in Int /\ c \in Int /\ i + down - 1 \in Int /\ c + across - 1 \in Int
  BY <1>1
<1>4. IsFiniteSet(i..(i + down - 1)) /\ IsFiniteSet(c..(c + across - 1))
  BY <1>3, FS_Interval
<1>5. IsFiniteSet(Area(rows, e, c))
  BY <1>2, <1>4, FS_Product, ZenonT(40)
<1>6. Area(rows, e, c) \subseteq Slots
  BY <1>1, <1>2 DEF Slots
<1>7. \A r, d \in Nat : <<r, d>> \in Area(rows, e, c) <=> /\ i <= r /\ r < i + down /\ c <= d /\ d < c + across
  BY <1>1, <1>2
<1>8. <<i, c>> \in Area(rows, e, c)
  BY <1>1, <1>7
<1> QED
  BY <1>5, <1>6, <1>7, <1>8 DEF i, down, across

-----------------------------------------------------------------------------
(* A grid under way: the covered places are those of the cells that have   *)
(* their column, and no two of these cells overlap.                        *)
GridSet(rows) == [slots : SUBSET Slots, start : [Places(rows) -> Nat], conflict : BOOLEAN,
                  cursor : [DOMAIN rows -> Nat \ {0}]]

Laid(rows, g) ==
  /\ g \in GridSet(rows) /\ IsFiniteSet(g.slots)
  /\ \A s \in g.slots : \E e \in Places(rows) : g.start[e] # None /\ s \in Area(rows, e, g.start[e])
  /\ \A e \in Places(rows) : g.start[e] # None => /\ Area(rows, e, g.start[e]) \subseteq g.slots
                                                 /\ CellAt(rows, e).col \in {None, g.start[e]}
  /\ \A e, f \in Places(rows) : e # f /\ g.start[e] # None /\ g.start[f] # None =>
        Area(rows, e, g.start[e]) \cap Area(rows, f, g.start[f]) = {}

LEMMA GridIs ==
  ASSUME NEW rows, NEW g \in GridSet(rows)
  PROVE  /\ g.slots \in SUBSET Slots /\ g.start \in [Places(rows) -> Nat] /\ g.conflict \in BOOLEAN
         /\ g.cursor \in [DOMAIN rows -> Nat \ {0}]
BY DEF GridSet

(* One more cell.                                                          *)
LEMMA ReserveIs ==
  ASSUME NEW rows \in Seq(TableRow), NEW g \in GridSet(rows), NEW e \in Places(rows), NEW c \in Nat \ {0}
  PROVE  /\ Reserve(g, e, CellAt(rows, e), c) \in GridSet(rows)
         /\ Reserve(g, e, CellAt(rows, e), c).slots = g.slots \cup Area(rows, e, c)
         /\ Reserve(g, e, CellAt(rows, e), c).conflict = g.conflict
         /\ Reserve(g, e, CellAt(rows, e), c).start = [g.start EXCEPT ![e] = c]
<1> DEFINE h == Reserve(g, e, CellAt(rows, e), c)
           A == Area(rows, e, c)
           P == Places(rows)
<1>1. h = [g EXCEPT !.slots = @ \cup A, !.start[e] = c]
  BY DEF Reserve, Area
<1>2. A \subseteq Slots
  BY AreaIs
<1> HIDE DEF h, A
<1>3. /\ g.slots \in SUBSET Slots /\ g.start \in [P -> Nat] /\ g.conflict \in BOOLEAN
      /\ g.cursor \in [DOMAIN rows -> Nat \ {0}]
  BY GridIs
<1> DEFINE D == DOMAIN rows
           N == Nat
           M == Nat \ {0}
           start == [g.start EXCEPT ![e] = c]
<1>4. start \in [P -> N]
  BY <1>3
<1>5. h = [g EXCEPT !.slots = g.slots \cup A, !.start = start]
  BY <1>1
<1> HIDE DEF start, P, D, N, M
<1>6. g \in [slots : SUBSET Slots, start : [P -> N], conflict : BOOLEAN, cursor : [D -> M]]
  BY DEF GridSet, P, D, N, M
<1>7. /\ h \in [slots : SUBSET Slots, start : [P -> N], conflict : BOOLEAN, cursor : [D -> M]]
      /\ h.slots = g.slots \cup A /\ h.conflict = g.conflict
      /\ h.cursor = g.cursor /\ h.start = start
  BY <1>2, <1>3, <1>4, <1>5, <1>6
<1>8. h \in GridSet(rows)
  BY <1>7 DEF GridSet, P, D, N, M
<1> QED
  BY <1>7, <1>8 DEF start, A, h

LEMMA Lay ==
  ASSUME NEW rows \in Seq(TableRow), NEW g, Laid(rows, g), NEW e \in Places(rows), g.start[e] = None,
         NEW c \in Nat \ {0}, CellAt(rows, e).col \in {None, c}, Area(rows, e, c) \cap g.slots = {}
  PROVE  Laid(rows, Reserve(g, e, CellAt(rows, e), c))
<1> DEFINE h == Reserve(g, e, CellAt(rows, e), c)
           A == Area(rows, e, c)
           P == Places(rows)
<1>1. g \in GridSet(rows) /\ IsFiniteSet(g.slots)
  BY DEF Laid
<1>2. /\ h \in GridSet(rows) /\ h.slots = g.slots \cup A /\ h.start = [g.start EXCEPT ![e] = c]
  BY <1>1, ReserveIs
<1>3. IsFiniteSet(A)
  BY AreaIs
<1> HIDE DEF h
<1>4. \A f \in P : h.start[f] = IF f = e THEN c ELSE g.start[f]
  BY <1>1, <1>2, GridIs
<1>5. c # None
  BY DEF None
<1>6. IsFiniteSet(h.slots)
  <2> DEFINE old == g.slots
  <2>1. IsFiniteSet(old) /\ IsFiniteSet(A) /\ h.slots = old \cup A
    BY <1>1, <1>2, <1>3
  <2> HIDE DEF A, old
  <2>2. IsFiniteSet(old \cup A)
    BY <2>1, FS_Union
  <2> QED
    BY <2>1, <2>2
<1>7. ASSUME NEW s \in h.slots PROVE \E f \in P : h.start[f] # None /\ s \in Area(rows, f, h.start[f])
  <2>1. CASE s \in A
    BY <1>4, <1>5, <2>1
  <2>2. CASE s \in g.slots
    <3>1. PICK f \in P : g.start[f] # None /\ s \in Area(rows, f, g.start[f])
      BY <2>2 DEF Laid
    <3>2. f # e /\ h.start[f] = g.start[f]
      BY <1>4, <3>1
    <3> QED
      BY <3>1, <3>2
  <2> QED
    BY <1>2, <2>1, <2>2
<1>8. ASSUME NEW f \in P, h.start[f] # None
      PROVE  Area(rows, f, h.start[f]) \subseteq h.slots /\ CellAt(rows, f).col \in {None, h.start[f]}
  <2>1. CASE f = e
    BY <1>2, <1>4, <2>1
  <2>2. CASE f # e
    <3>1. h.start[f] = g.start[f] /\ g.start[f] # None
      BY <1>4, <1>8, <2>2
    <3>2. Area(rows, f, g.start[f]) \subseteq g.slots /\ CellAt(rows, f).col \in {None, g.start[f]}
      BY <3>1 DEF Laid
    <3> QED
      BY <1>2, <3>1, <3>2
  <2> QED
    BY <2>1, <2>2
<1>9. ASSUME NEW f \in P, NEW f2 \in P, f # f2, h.start[f] # None, h.start[f2] # None
      PROVE  Area(rows, f, h.start[f]) \cap Area(rows, f2, h.start[f2]) = {}
  <2>1. CASE f = e
    <3>1. h.start[f2] = g.start[f2] /\ h.start[f] = c
      BY <1>4, <1>9, <2>1
    <3>2. Area(rows, f2, g.start[f2]) \subseteq g.slots
      BY <1>9, <3>1 DEF Laid
    <3> QED
      BY <2>1, <3>1, <3>2
  <2>2. CASE f2 = e
    <3>1. h.start[f] = g.start[f] /\ h.start[f2] = c
      BY <1>4, <1>9, <2>2
    <3>2. Area(rows, f, g.start[f]) \subseteq g.slots
      BY <1>9, <3>1 DEF Laid
    <3> QED
      BY <2>2, <3>1, <3>2
  <2>3. CASE f # e /\ f2 # e
    <3>1. h.start[f] = g.start[f] /\ h.start[f2] = g.start[f2]
      BY <1>4, <2>3
    <3> QED
      BY <1>9, <3>1 DEF Laid
  <2> QED
    BY <2>1, <2>2, <2>3
<1>10. Laid(rows, h)
  BY <1>2, <1>6, <1>7, <1>8, <1>9 DEF Laid
<1> QED
  BY <1>10 DEF h

(* Declared columns: the grid after the first entries, which holds those   *)
(* that declare a column unless there is a conflict.                       *)
Declaring(rows, g, e) ==
  LET cell == rows[e[1]].cells[e[2]]
  IN  IF cell.col = None THEN g
      ELSE IF Rectangle(e[1], cell, cell.col) \cap g.slots # {} THEN [g EXCEPT !.conflict = TRUE]
      ELSE Reserve(g, e, cell, cell.col)

EmptyGrid(rows) ==
  [slots |-> {}, start |-> [e \in Range(Entries(rows)) |-> None], conflict |-> SpansGap(rows),
   cursor |-> [i \in DOMAIN rows |-> 1]]

Clash(rows) ==
  \E e, f \in Places(rows) : /\ e # f /\ CellAt(rows, e).col # None /\ CellAt(rows, f).col # None
                             /\ Area(rows, e, CellAt(rows, e).col) \cap Area(rows, f, CellAt(rows, f).col) # {}

ReservedTo(rows, g, q) ==
  /\ Laid(rows, g)
  /\ \A e \in Places(rows) : g.start[e] # None => CellAt(rows, e).col # None /\ \E p \in 1..q : Entries(rows)[p] = e
  /\ \A p \in 1..q : ~g.conflict /\ CellAt(rows, Entries(rows)[p]).col # None => g.start[Entries(rows)[p]] # None
  /\ g.conflict => SpansGap(rows) \/ Clash(rows)

LEMMA EntryIs ==
  ASSUME NEW rows \in Seq(TableRow)
  PROVE  /\ Len(Entries(rows)) \in Nat /\ DOMAIN Entries(rows) = 1..Len(Entries(rows))
         /\ \A p \in 1..Len(Entries(rows)) : Entries(rows)[p] \in Places(rows)
         /\ Range(Entries(rows)) = Places(rows)
<1> DEFINE E == Entries(rows)
           P == Places(rows)
<1>1. E \in Seq(P) /\ \A e \in P : \E q \in DOMAIN E : E[q] = e
  BY EntriesAre
<1> HIDE DEF E, P
<1>2. Len(E) \in Nat /\ DOMAIN E = 1..Len(E) /\ \A p \in DOMAIN E : E[p] \in P
  BY <1>1, SequenceIs
<1>3. Range(E) = P
  BY <1>1, <1>2 DEF Range
<1> QED
  BY <1>2, <1>3 DEF E, P

LEMMA ConflictIs ==
  ASSUME NEW rows \in Seq(TableRow), NEW g \in GridSet(rows)
  PROVE  LET h == [g EXCEPT !.conflict = TRUE]
         IN  /\ h \in GridSet(rows) /\ h.slots = g.slots /\ h.conflict = TRUE
             /\ h.cursor = g.cursor /\ h.start = g.start
<1> DEFINE P == Places(rows)
           D == DOMAIN rows
           N == Nat
           M == Nat \ {0}
           h == [g EXCEPT !.conflict = TRUE]
<1>1. g \in [slots : SUBSET Slots, start : [P -> N], conflict : BOOLEAN, cursor : [D -> M]]
  BY DEF GridSet
<1> HIDE DEF P, D, N, M
<1>2. h \in [slots : SUBSET Slots, start : [P -> N], conflict : BOOLEAN, cursor : [D -> M]]
  BY <1>1
<1>3. h.slots = g.slots /\ h.conflict = TRUE /\ h.cursor = g.cursor /\ h.start = g.start
  BY <1>1
<1> QED
  BY <1>2, <1>3 DEF GridSet, P, D, N, M

LEMMA DeclaringIs ==
  ASSUME NEW rows \in Seq(TableRow), NEW e \in Places(rows), NEW g \in GridSet(rows)
  PROVE  /\ Declaring(rows, g, e) \in GridSet(rows) /\ CellAt(rows, e).col \in Nat
         /\ Declaring(rows, g, e) = IF CellAt(rows, e).col = None THEN g
                                    ELSE IF Area(rows, e, CellAt(rows, e).col) \cap g.slots # {} THEN [g EXCEPT !.conflict = TRUE]
                                    ELSE Reserve(g, e, CellAt(rows, e), CellAt(rows, e).col)
<1> DEFINE col == CellAt(rows, e).col
<1>1. col \in Nat
  BY PlacesAre DEF CellSet
<1>2. Declaring(rows, g, e) = IF col = None THEN g
                              ELSE IF Area(rows, e, col) \cap g.slots # {} THEN [g EXCEPT !.conflict = TRUE]
                              ELSE Reserve(g, e, CellAt(rows, e), col)
  BY DEF Declaring, Area, CellAt
<1> HIDE DEF col
<1>3. col # None => col \in Nat \ {0}
  BY <1>1 DEF None
<1>4. [g EXCEPT !.conflict = TRUE] \in GridSet(rows)
  BY ConflictIs
<1>5. col # None => Reserve(g, e, CellAt(rows, e), col) \in GridSet(rows)
  BY <1>3, ReserveIs
<1>6. Declaring(rows, g, e) \in GridSet(rows)
  BY <1>2, <1>4, <1>5
<1> QED
  BY <1>1, <1>2, <1>6 DEF col

LEMMA DeclaringKeeps ==
  ASSUME NEW rows \in Seq(TableRow), NEW q \in Nat, q + 1 <= Len(Entries(rows)), NEW g, ReservedTo(rows, g, q)
  PROVE  ReservedTo(rows, Declaring(rows, g, Entries(rows)[q + 1]), q + 1)
<1> DEFINE E == Entries(rows)
           P == Places(rows)
           e == E[q + 1]
           col == CellAt(rows, e).col
           h == Declaring(rows, g, e)
<1>0. q + 1 <= Len(E)
  OBVIOUS
<1>1. /\ Len(E) \in Nat /\ q + 1 \in 1..Len(E) /\ \A p \in 1..(q + 1) : p \in 1..Len(E) /\ E[p] \in P
      /\ \A p \in 1..q : p \in 1..(q + 1) /\ E[p] # e
  <2>1. Len(E) \in Nat /\ DOMAIN E = 1..Len(E) /\ \A p \in 1..Len(E) : E[p] \in P
    BY EntryIs
  <2>2. \A p, r \in DOMAIN E : E[p] = E[r] => p = r
    BY EntriesAre
  <2> HIDE DEF E, P
  <2>3. \A p \in 1..(q + 1) : p \in 1..Len(E)
    BY <1>0, <2>1
  <2>4. \A p \in 1..q : p \in 1..(q + 1) /\ p # q + 1
    OBVIOUS
  <2>5. q + 1 \in 1..Len(E) /\ q + 1 \in 1..(q + 1)
    BY <1>0, <2>1
  <2> QED
    BY <2>1, <2>2, <2>3, <2>4, <2>5
<1>2. e \in P /\ \A p \in 1..(q + 1) : p \in 1..q \/ p = q + 1
  BY <1>1
<1>3. g \in GridSet(rows)
  BY DEF ReservedTo, Laid
<1>4. h \in GridSet(rows) /\ col \in Nat
      /\ h = IF col = None THEN g
             ELSE IF Area(rows, e, col) \cap g.slots # {} THEN [g EXCEPT !.conflict = TRUE]
             ELSE Reserve(g, e, CellAt(rows, e), col)
  BY <1>2, <1>3, DeclaringIs
<1> HIDE DEF e, h, col
<1>5. /\ Laid(rows, g)
      /\ \A f \in P : g.start[f] # None => CellAt(rows, f).col # None /\ \E p \in 1..q : E[p] = f
      /\ \A p \in 1..q : ~g.conflict /\ CellAt(rows, E[p]).col # None => g.start[E[p]] # None
      /\ g.conflict => SpansGap(rows) \/ Clash(rows)
  BY DEF ReservedTo
<1> HIDE DEF E, P
<1>6. \A f \in P : g.start[f] # None => f # e
  BY <1>1, <1>5
<1>7. ASSUME col = None PROVE ReservedTo(rows, h, q + 1)
  <2>1. h = g
    BY <1>4, <1>7
  <2>2. \A f \in P : h.start[f] # None => CellAt(rows, f).col # None /\ \E p \in 1..(q + 1) : E[p] = f
    BY <1>1, <1>5, <2>1
  <2>3. \A p \in 1..(q + 1) : ~h.conflict /\ CellAt(rows, E[p]).col # None => h.start[E[p]] # None
    BY <1>2, <1>5, <1>7, <2>1 DEF col, e
  <2> QED
    BY <1>5, <2>1, <2>2, <2>3 DEF ReservedTo, E, P
<1>8. ASSUME col # None /\ Area(rows, e, col) \cap g.slots # {} PROVE ReservedTo(rows, h, q + 1)
  <2>1. h = [g EXCEPT !.conflict = TRUE]
    BY <1>4, <1>8
  <2>2. h \in GridSet(rows) /\ h.slots = g.slots /\ h.conflict = TRUE /\ h.start = g.start
    BY <1>3, <2>1, ConflictIs
  <2>3. Laid(rows, h)
    <3> DEFINE slots == h.slots
               start == h.start
    <3>1. slots = g.slots /\ start = g.start
      BY <2>2
    <3> HIDE DEF slots, start
    <3>2. /\ IsFiniteSet(slots)
          /\ \A s \in slots : \E f \in Places(rows) : start[f] # None /\ s \in Area(rows, f, start[f])
          /\ \A f \in Places(rows) : start[f] # None => /\ Area(rows, f, start[f]) \subseteq slots
                                                       /\ CellAt(rows, f).col \in {None, start[f]}
          /\ \A f, f2 \in Places(rows) : f # f2 /\ start[f] # None /\ start[f2] # None =>
               Area(rows, f, start[f]) \cap Area(rows, f2, start[f2]) = {}
      BY <1>5, <3>1 DEF Laid
    <3> QED
      BY <2>2, <3>2 DEF Laid, slots, start
  <2>4. \A f \in P : h.start[f] # None => CellAt(rows, f).col # None /\ \E p \in 1..(q + 1) : E[p] = f
    BY <1>1, <1>5, <2>2
  <2>5. PICK s \in g.slots : s \in Area(rows, e, col)
    BY <1>8
  <2>6. PICK f \in P : g.start[f] # None /\ s \in Area(rows, f, g.start[f])
    BY <1>5 DEF Laid, P
  <2>7. CellAt(rows, f).col # None /\ CellAt(rows, f).col = g.start[f] /\ f # e
    <3>1. CellAt(rows, f).col \in {None, g.start[f]}
      BY <1>5, <2>6 DEF Laid, P
    <3> QED
      BY <1>5, <1>6, <2>6, <3>1
  <2>8. Clash(rows)
    BY <1>2, <1>8, <2>5, <2>6, <2>7 DEF Clash, P, col
  <2> QED
    BY <2>2, <2>3, <2>4, <2>8 DEF ReservedTo, E, P
<1>9. ASSUME col # None /\ Area(rows, e, col) \cap g.slots = {} PROVE ReservedTo(rows, h, q + 1)
  <2>1. h = Reserve(g, e, CellAt(rows, e), col) /\ col \in Nat \ {0}
    BY <1>4, <1>9 DEF None
  <2>2. g.start[e] = None
    BY <1>2, <1>6
  <2>3. Laid(rows, h)
    BY <1>2, <1>5, <1>9, <2>1, <2>2, Lay DEF P, col
  <2>4. h.conflict = g.conflict /\ h.start = [g.start EXCEPT ![e] = col]
    <3>1. e \in Places(rows)
      BY <1>2 DEF P
    <3> DEFINE k == Reserve(g, e, CellAt(rows, e), col)
    <3>2. k.conflict = g.conflict /\ k.start = [g.start EXCEPT ![e] = col]
      BY <1>3, <2>1, <3>1, ReserveIs
    <3> HIDE DEF k
    <3>3. h = k
      BY <2>1 DEF k
    <3> QED
      BY <3>2, <3>3
  <2>5. \A f \in P : h.start[f] = IF f = e THEN col ELSE g.start[f]
    BY <1>3, <2>4, GridIs DEF P
  <2>6. \A f \in P : h.start[f] # None => CellAt(rows, f).col # None /\ \E p \in 1..(q + 1) : E[p] = f
    <3> SUFFICES ASSUME NEW f \in P, h.start[f] # None
                 PROVE  CellAt(rows, f).col # None /\ \E p \in 1..(q + 1) : E[p] = f
      OBVIOUS
    <3>1. CASE f = e
      <4>1. q + 1 \in 1..(q + 1)
        OBVIOUS
      <4> QED
        BY <1>9, <3>1, <4>1 DEF e, col
    <3>2. CASE f # e
      BY <1>1, <1>5, <2>5, <3>2
    <3> QED
      BY <3>1, <3>2
  <2>7. \A p \in 1..(q + 1) : ~h.conflict /\ CellAt(rows, E[p]).col # None => h.start[E[p]] # None
    <3> SUFFICES ASSUME NEW p \in 1..(q + 1), ~h.conflict, CellAt(rows, E[p]).col # None PROVE h.start[E[p]] # None
      OBVIOUS
    <3>1. CASE p = q + 1
      BY <1>2, <1>9, <2>5, <3>1 DEF e
    <3>2. CASE p # q + 1
      <4>1. p \in 1..q
        BY <1>2, <3>2
      <4> QED
        BY <1>1, <1>5, <2>4, <2>5, <4>1
    <3> QED
      BY <3>1, <3>2
  <2> QED
    BY <1>5, <2>3, <2>4, <2>6, <2>7 DEF ReservedTo, E, P
<1>10. ReservedTo(rows, h, q + 1)
  BY <1>7, <1>8, <1>9
<1> QED
  BY <1>10 DEF h, e, E

LEMMA EmptyGridIs ==
  ASSUME NEW rows \in Seq(TableRow)
  PROVE  EmptyGrid(rows) \in GridSet(rows) /\ ReservedTo(rows, EmptyGrid(rows), 0)
<1> DEFINE P == Places(rows)
           D == DOMAIN rows
           N == Nat
           M == Nat \ {0}
           g == EmptyGrid(rows)
           start == [e \in P |-> None]
           cursor == [i \in D |-> 1]
           gap == SpansGap(rows)
<1>1. start \in [P -> N] /\ cursor \in [D -> M] /\ gap \in BOOLEAN
  BY DEF None, SpansGap
<1>2. g = [slots |-> {}, start |-> start, conflict |-> gap, cursor |-> cursor]
  BY EntryIs DEF EmptyGrid
<1>3. \A e \in P : start[e] = None
  OBVIOUS
<1> HIDE DEF P, D, N, M, start, cursor, gap, g
<1>4. g \in [slots : SUBSET Slots, start : [P -> N], conflict : BOOLEAN, cursor : [D -> M]]
  BY <1>1, <1>2
<1>5. g.slots = {} /\ g.start = start /\ g.conflict = gap
  BY <1>2
<1>6. g \in GridSet(rows)
  BY <1>4 DEF GridSet, P, D, N, M
<1>7. IsFiniteSet(g.slots)
  BY <1>5, FS_EmptySet
<1>8. \A e \in P : g.start[e] = None
  BY <1>3, <1>5
<1>9. Laid(rows, g)
  BY <1>5, <1>6, <1>7, <1>8 DEF Laid, P
<1>10. 1..0 = {}
  OBVIOUS
<1>11. ReservedTo(rows, g, 0)
  BY <1>5, <1>8, <1>9, <1>10 DEF ReservedTo, P, gap
<1> QED
  BY <1>6, <1>11 DEF g

LEMMA ReservedIs ==
  ASSUME NEW rows \in Seq(TableRow)
  PROVE  ReservedTo(rows, Reserved(rows), Len(Entries(rows)))
<1> DEFINE E == Entries(rows)
           n == Len(E)
           Y == GridSet(rows)
           empty == EmptyGrid(rows)
           Iter(f) == [T \in SUBSET (1..n) |->
                          IF T = {} THEN empty ELSE Declaring(rows, f[T \ {Max(T)}], E[Max(T)])]
           it == CHOOSE f : f = Iter(f)
<1>1. n \in Nat /\ DOMAIN E = 1..n /\ \A i \in 1..n : E[i] \in Places(rows)
  BY EntryIs
<1>2. Reserved(rows) = it[1..n]
  BY <1>1 DEF Reserved, FoldLeft, MapThenFoldSet, Declaring, EmptyGrid
<1>3. \A g \in Y, i \in 1..n : Declaring(rows, g, E[i]) \in Y
  BY <1>1, DeclaringIs
<1>4. empty \in Y
  BY EmptyGridIs
<1> HIDE DEF empty
<1>5. \E f : f = Iter(f)
  <2> DEFINE then == [z \in (1..n) \X Y |-> Declaring(rows, z[2], E[z[1]])]
  <2>1. then \in [(1..n) \X Y -> Y]
    BY <1>3
  <2>2. PICK f \in [SUBSET (1..n) -> Y] : FoldsTo(f, n, empty, then)
    <3> HIDE DEF then, Y, n
    <3> QED
      BY <1>1, <1>4, <2>1, Folding DEF n
  <2>3. ASSUME NEW T \in SUBSET (1..n), T # {}
        PROVE  then[<<Max(T), f[T \ {Max(T)}]>>] = Declaring(rows, f[T \ {Max(T)}], E[Max(T)])
    <3>1. Max(T) \in 1..n /\ f[T \ {Max(T)}] \in Y
      <4> HIDE DEF Y, n
      <4> QED
        BY <1>1, <2>3, FoldingStep DEF n
    <3> HIDE DEF Y, n
    <3> QED
      BY <3>1
  <2>4. f = Iter(f)
    <3>1. f = [T \in SUBSET (1..n) |-> f[T]]
      <4> HIDE DEF Y
      <4> QED
        BY <2>2
    <3>2. \A T \in SUBSET (1..n) : f[T] = IF T = {} THEN empty ELSE Declaring(rows, f[T \ {Max(T)}], E[Max(T)])
      <4> HIDE DEF then, Y, n
      <4> QED
        BY <2>2, <2>3 DEF FoldsTo
    <3> HIDE DEF Y
    <3> QED
      BY <3>1, <3>2
  <2> QED
    BY <2>4
<1>6. it = Iter(it)
  <2> HIDE DEF Iter
  <2> QED
    BY <1>5
<1> HIDE DEF it
<1>7. it[{}] = empty
  BY <1>6
<1>8. ASSUME NEW k \in 1..n PROVE it[1..k] = Declaring(rows, it[1..(k - 1)], E[k])
  <2>1. /\ Max(1..k) = k /\ (1..k) \ {k} = 1..(k - 1)
        /\ 1..k \in SUBSET (1..n) /\ 1..k # {}
    BY <1>1, Beginnings
  <2>2. it[1..k] = Declaring(rows, it[(1..k) \ {Max(1..k)}], E[Max(1..k)])
    BY <1>6, <2>1
  <2> QED
    BY <2>1, <2>2
<1> DEFINE S == {k \in Nat : k <= n => ReservedTo(rows, it[1..k], k)}
<1>9. 0 \in S
  <2>1. 1..0 = {}
    OBVIOUS
  <2>2. ReservedTo(rows, empty, 0)
    BY EmptyGridIs DEF empty
  <2> QED
    BY <1>7, <2>1, <2>2
<1>10. ASSUME NEW k \in Nat, k \in S PROVE k + 1 \in S
  <2> SUFFICES ASSUME k + 1 <= n PROVE ReservedTo(rows, it[1..(k + 1)], k + 1)
    OBVIOUS
  <2>1. k + 1 \in 1..n /\ (k + 1) - 1 = k /\ k <= n
    BY <1>1
  <2> DEFINE g == it[1..k]
  <2>2. ReservedTo(rows, g, k)
    BY <1>10, <2>1
  <2>3. it[1..(k + 1)] = Declaring(rows, g, E[k + 1])
    BY <1>8, <2>1
  <2> HIDE DEF g
  <2>4. ReservedTo(rows, Declaring(rows, g, E[k + 1]), k + 1)
    BY <2>2, DeclaringKeeps
  <2> QED
    BY <2>3, <2>4
<1>11. \A k \in Nat : k \in S
  <2> HIDE DEF S
  <2> QED
    BY <1>9, <1>10, Induction
<1>12. ReservedTo(rows, it[1..n], n)
  <2> HIDE DEF n
  <2>1. n <= n
    BY <1>1
  <2> QED
    BY <1>1, <1>11, <2>1
<1> QED
  BY <1>2, <1>12

(* The first place that is free for a cell, after the one before it.       *)
LastTried(g, i) == Max({g.cursor[i]} \cup {s[2] + 1 : s \in g.slots})
Free(rows, g, e) == {c \in g.cursor[e[1]]..LastTried(g, e[1]) : Area(rows, e, c) \cap g.slots = {}}

LEMMA FirstFree ==
  ASSUME NEW rows \in Seq(TableRow), NEW g \in GridSet(rows), IsFiniteSet(g.slots), NEW e \in Places(rows)
  PROVE  Min(Free(rows, g, e)) \in Nat \ {0} /\ Area(rows, e, Min(Free(rows, g, e))) \cap g.slots = {}
<1> DEFINE i == e[1]
           cursor == g.cursor[i]
           slots == g.slots
           after == [s \in slots |-> s[2] + 1]
           Ends == {s[2] + 1 : s \in slots}
           B == {cursor} \cup Ends
           m == Max(B)
           free == Free(rows, g, e)
<1>1. cursor \in Nat \ {0} /\ slots \subseteq Slots
  <2>1. i \in DOMAIN rows
    BY DEF Places
  <2> QED
    BY <2>1, GridIs
<1>2. \A s \in slots : s[1] \in Nat /\ s[2] \in Nat /\ s = <<s[1], s[2]>>
  BY <1>1 DEF Slots
<1>3. IsFiniteSet(Ends)
  <2>1. \A x \in Ends : \E s \in slots : after[s] = x
    OBVIOUS
  <2>2. after \in [slots -> Ends]
    OBVIOUS
  <2> HIDE DEF after, Ends, slots
  <2>3. IsFiniteSet(slots)
    BY DEF slots
  <2>4. after \in Surjection(slots, Ends)
    BY <2>1, <2>2 DEF Surjection
  <2> QED
    BY <2>3, <2>4, FS_Surjection
<1>4. IsFiniteSet(B) /\ B \subseteq Int /\ B # {}
  <2>1. Ends \subseteq Int
    BY <1>2
  <2> HIDE DEF cursor, Ends
  <2>2. IsFiniteSet({cursor})
    BY FS_Singleton
  <2>3. IsFiniteSet({cursor} \cup Ends)
    BY <1>3, <2>2, FS_Union
  <2> QED
    BY <1>1, <2>1, <2>3
<1>5. m \in B /\ \A y \in B : y <= m
  <2> HIDE DEF B
  <2> QED
    BY <1>4, Greatest
<1>6. m \in Nat \ {0} /\ cursor <= m /\ \A s \in slots : s[2] < m
  <2>1. \A y \in B : y \in Nat \ {0}
    BY <1>1, <1>2
  <2>2. cursor \in B /\ \A s \in slots : s[2] + 1 \in B
    OBVIOUS
  <2> HIDE DEF B, m, cursor, slots
  <2>3. m \in Nat \ {0} /\ cursor <= m
    BY <1>5, <2>1, <2>2
  <2>4. ASSUME NEW s \in slots PROVE s[2] < m
    <3>1. s[2] + 1 <= m
      BY <1>5, <2>2
    <3> QED
      BY <1>2, <2>3, <3>1
  <2> QED
    BY <2>3, <2>4
<1>7. free = {c \in cursor..m : Area(rows, e, c) \cap slots = {}}
  BY DEF Free, LastTried
<1> HIDE DEF m, cursor, free
<1>8. Area(rows, e, m) \cap slots = {}
  <2> SUFFICES ASSUME NEW s \in slots, s \in Area(rows, e, m) PROVE FALSE
    OBVIOUS
  <2>1. m <= s[2]
    <3>1. s[1] \in Nat /\ s[2] \in Nat /\ <<s[1], s[2]>> \in Area(rows, e, m)
      BY <1>2
    <3> DEFINE r == s[1]
               d == s[2]
    <3> HIDE DEF r, d
    <3>2. r \in Nat /\ d \in Nat /\ <<r, d>> \in Area(rows, e, m)
      BY <3>1 DEF r, d
    <3>3. m <= d
      BY <1>6, <3>2, AreaIs
    <3> QED
      BY <3>3 DEF d
  <2> QED
    BY <1>2, <1>6, <2>1
<1>9. m \in free
  BY <1>1, <1>6, <1>7, <1>8
<1>10. IsFiniteSet(free) /\ free \subseteq Int
  <2>1. IsFiniteSet(cursor..m)
    BY <1>1, <1>6, FS_Interval
  <2>2. free \subseteq cursor..m
    BY <1>7
  <2>3. IsFiniteSet(free)
    BY <2>1, <2>2, FS_Subset
  <2> QED
    BY <1>1, <1>6, <2>2, <2>3
<1>11. Min(free) \in free
  BY <1>9, <1>10, Lowest
<1>12. Min(free) \in Nat \ {0} /\ Area(rows, e, Min(free)) \cap slots = {}
  BY <1>1, <1>6, <1>7, <1>11
<1> QED
  BY <1>12 DEF free

-----------------------------------------------------------------------------
(* Every other cell: the grid after the first entries has them all.        *)
Advance(g, i, c) == [g EXCEPT !.cursor[i] = c]

Placing(rows, g, e) ==
  LET cell == rows[e[1]].cells[e[2]]
      cursor == g.cursor[e[1]]
      free == {c \in cursor..Max({cursor} \cup {s[2] + 1 : s \in g.slots}) :
                  Rectangle(e[1], cell, c) \cap g.slots = {}}
      start == IF cell.col = None THEN Min(free) ELSE cell.col
      placed == IF cell.col = None THEN Reserve(g, e, cell, start) ELSE g
  IN  [placed EXCEPT !.cursor[e[1]] = start + cell.across]

LEMMA AdvanceIs ==
  ASSUME NEW rows \in Seq(TableRow), NEW g \in GridSet(rows), NEW i \in DOMAIN rows, NEW c \in Nat \ {0}
  PROVE  /\ Advance(g, i, c) \in GridSet(rows) /\ Advance(g, i, c).slots = g.slots
         /\ Advance(g, i, c).conflict = g.conflict /\ Advance(g, i, c).start = g.start
<1> DEFINE P == Places(rows)
           D == DOMAIN rows
           N == Nat
           M == Nat \ {0}
           h == Advance(g, i, c)
           cursor == [g.cursor EXCEPT ![i] = c]
<1>1. g \in [slots : SUBSET Slots, start : [P -> N], conflict : BOOLEAN, cursor : [D -> M]]
  BY DEF GridSet
<1>2. cursor \in [D -> M]
  BY GridIs
<1>3. h = [g EXCEPT !.cursor = cursor]
  BY DEF Advance
<1> HIDE DEF P, D, N, M, h, cursor
<1>4. /\ h \in [slots : SUBSET Slots, start : [P -> N], conflict : BOOLEAN, cursor : [D -> M]]
      /\ h.slots = g.slots /\ h.conflict = g.conflict /\ h.start = g.start
  BY <1>1, <1>2, <1>3
<1> QED
  BY <1>4 DEF GridSet, P, D, N, M, h

LEMMA PlacingIs ==
  ASSUME NEW rows \in Seq(TableRow), NEW g \in GridSet(rows), IsFiniteSet(g.slots), NEW e \in Places(rows)
  PROVE  \E c \in Nat \ {0}, d \in Nat \ {0} :
            /\ CellAt(rows, e).col \in {None, c}
            /\ CellAt(rows, e).col = None => Area(rows, e, c) \cap g.slots = {}
            /\ Placing(rows, g, e) = Advance(IF CellAt(rows, e).col = None THEN Reserve(g, e, CellAt(rows, e), c) ELSE g,
                                             e[1], d)
<1> DEFINE col == CellAt(rows, e).col
           across == CellAt(rows, e).across
           free == Free(rows, g, e)
           c == IF col = None THEN Min(free) ELSE col
           placed == IF col = None THEN Reserve(g, e, CellAt(rows, e), c) ELSE g
<1>1. Placing(rows, g, e) = Advance(placed, e[1], c + across)
  BY DEF Placing, Advance, Free, LastTried, Area, CellAt
<1>2. col \in Nat /\ across \in Nat \ {0}
  BY PlacesAre DEF CellSet
<1>3. Min(free) \in Nat \ {0} /\ Area(rows, e, Min(free)) \cap g.slots = {}
  BY FirstFree
<1> HIDE DEF free, col, across
<1>4. c \in Nat \ {0} /\ col \in {None, c} /\ (col = None => Area(rows, e, c) \cap g.slots = {})
  BY <1>2, <1>3 DEF None
<1> HIDE DEF c
<1>5. c + across \in Nat \ {0}
  BY <1>2, <1>4
<1> QED
  BY <1>1, <1>4, <1>5 DEF col

PlannedTo(rows, g, q) ==
  /\ Laid(rows, g)
  /\ \A e \in Places(rows) : CellAt(rows, e).col # None => g.start[e] # None
  /\ \A p \in 1..q : g.start[Entries(rows)[p]] # None
  /\ \A p \in (q + 1)..Len(Entries(rows)) : CellAt(rows, Entries(rows)[p]).col = None => g.start[Entries(rows)[p]] = None

Grids(rows) == {g \in GridSet(rows) : IsFiniteSet(g.slots)}

LEMMA PlacingTyped ==
  ASSUME NEW rows \in Seq(TableRow), NEW g \in Grids(rows), NEW e \in Places(rows)
  PROVE  Placing(rows, g, e) \in Grids(rows)
<1>1. g \in GridSet(rows) /\ IsFiniteSet(g.slots) /\ e[1] \in DOMAIN rows
  BY DEF Grids, Places
<1>2. PICK c \in Nat \ {0}, d \in Nat \ {0} :
         Placing(rows, g, e) = Advance(IF CellAt(rows, e).col = None THEN Reserve(g, e, CellAt(rows, e), c) ELSE g, e[1], d)
  BY <1>1, PlacingIs
<1> DEFINE k == Reserve(g, e, CellAt(rows, e), c)
           A == Area(rows, e, c)
           old == g.slots
<1>3. k \in GridSet(rows) /\ k.slots = old \cup A
  <2>1. g \in GridSet(rows) /\ e \in Places(rows) /\ c \in Nat \ {0}
    BY <1>1
  <2>2. /\ Reserve(g, e, CellAt(rows, e), c) \in GridSet(rows)
        /\ Reserve(g, e, CellAt(rows, e), c).slots = g.slots \cup Area(rows, e, c)
        /\ Reserve(g, e, CellAt(rows, e), c).conflict = g.conflict
        /\ Reserve(g, e, CellAt(rows, e), c).start = [g.start EXCEPT ![e] = c]
    BY <2>1, ReserveIs
  <2> QED
    BY <2>2
<1>4. IsFiniteSet(A)
  BY AreaIs
<1>5. IsFiniteSet(old \cup A)
  <2> HIDE DEF A
  <2>1. IsFiniteSet(old)
    BY <1>1
  <2> HIDE DEF old
  <2> QED
    BY <1>4, <2>1, FS_Union
<1> HIDE DEF A, old, k
<1>6. k \in GridSet(rows) /\ IsFiniteSet(k.slots)
  BY <1>3, <1>5
<1> DEFINE p == IF CellAt(rows, e).col = None THEN k ELSE g
<1>7. p \in GridSet(rows) /\ IsFiniteSet(p.slots)
  BY <1>1, <1>6
<1> HIDE DEF p
<1>8. Advance(p, e[1], d) \in GridSet(rows) /\ Advance(p, e[1], d).slots = p.slots
  BY <1>1, <1>7, AdvanceIs
<1>9. Placing(rows, g, e) = Advance(p, e[1], d)
  BY <1>2 DEF p, k
<1> QED
  BY <1>7, <1>8, <1>9 DEF Grids

LEMMA AdvanceKeeps ==
  ASSUME NEW rows \in Seq(TableRow), NEW g, Laid(rows, g), NEW i \in DOMAIN rows, NEW c \in Nat \ {0}
  PROVE  Laid(rows, Advance(g, i, c)) /\ Advance(g, i, c).start = g.start
<1> DEFINE h == Advance(g, i, c)
           slots == h.slots
           start == h.start
<1>1. g \in GridSet(rows)
  BY DEF Laid
<1>2. h \in GridSet(rows) /\ slots = g.slots /\ start = g.start
  BY <1>1, AdvanceIs
<1> HIDE DEF slots, start, h
<1>3. /\ IsFiniteSet(slots)
      /\ \A s \in slots : \E f \in Places(rows) : start[f] # None /\ s \in Area(rows, f, start[f])
      /\ \A f \in Places(rows) : start[f] # None => /\ Area(rows, f, start[f]) \subseteq slots
                                                   /\ CellAt(rows, f).col \in {None, start[f]}
      /\ \A f, f2 \in Places(rows) : f # f2 /\ start[f] # None /\ start[f2] # None =>
           Area(rows, f, start[f]) \cap Area(rows, f2, start[f2]) = {}
  BY <1>2 DEF Laid
<1>4. Laid(rows, h)
  BY <1>2, <1>3 DEF Laid, slots, start
<1> QED
  BY <1>2, <1>4 DEF start, h

LEMMA PlacingKeeps ==
  ASSUME NEW rows \in Seq(TableRow), NEW q \in Nat, q + 1 <= Len(Entries(rows)), NEW g, PlannedTo(rows, g, q)
  PROVE  PlannedTo(rows, Placing(rows, g, Entries(rows)[q + 1]), q + 1)
<1> DEFINE E == Entries(rows)
           P == Places(rows)
           n == Len(E)
           e == E[q + 1]
           col == CellAt(rows, e).col
           h == Placing(rows, g, e)
<1>0. q + 1 <= n
  OBVIOUS
<1>1. /\ n \in Nat /\ q + 1 \in 1..n /\ \A p \in 1..n : E[p] \in P
      /\ \A p, r \in 1..n : E[p] = E[r] => p = r
  <2>1. n \in Nat /\ DOMAIN E = 1..n /\ \A p \in 1..n : E[p] \in P
    BY EntryIs
  <2>2. \A p, r \in DOMAIN E : E[p] = E[r] => p = r
    BY EntriesAre
  <2> HIDE DEF E, P, n
  <2>3. q + 1 \in 1..n
    BY <1>0, <2>1
  <2> QED
    BY <2>1, <2>2, <2>3
<1>2. e \in P
  BY <1>1
<1>3. /\ Laid(rows, g)
      /\ \A f \in P : CellAt(rows, f).col # None => g.start[f] # None
      /\ \A p \in 1..q : g.start[E[p]] # None
      /\ \A p \in (q + 1)..n : CellAt(rows, E[p]).col = None => g.start[E[p]] = None
  BY DEF PlannedTo
<1>4. g \in GridSet(rows) /\ IsFiniteSet(g.slots)
  BY DEF PlannedTo, Laid
<1> HIDE DEF h, n, e, E
<1>5. PICK c \in Nat \ {0}, d \in Nat \ {0} :
         /\ col \in {None, c}
         /\ col = None => Area(rows, e, c) \cap g.slots = {}
         /\ h = Advance(IF col = None THEN Reserve(g, e, CellAt(rows, e), c) ELSE g, e[1], d)
  BY <1>2, <1>4, PlacingIs DEF h
<1> DEFINE k == IF col = None THEN Reserve(g, e, CellAt(rows, e), c) ELSE g
<1> HIDE DEF P, col
<1>6. /\ Laid(rows, k) /\ k.start[e] # None
      /\ \A f \in P : f # e => k.start[f] = g.start[f]
  <2>1. CASE col = None
    <3>1. e \in Places(rows) /\ k = Reserve(g, e, CellAt(rows, e), c)
      BY <1>2, <2>1 DEF P
    <3>2. g.start[e] = None
      <4>1. q + 1 \in (q + 1)..n
        BY <1>1
      <4> QED
        BY <1>3, <2>1, <4>1 DEF e, col
    <3>3. CellAt(rows, e).col \in {None, c} /\ Area(rows, e, c) \cap g.slots = {}
      BY <1>5, <2>1 DEF col
    <3> DEFINE r == Reserve(g, e, CellAt(rows, e), c)
    <3>4. Laid(rows, r)
      BY <1>3, <3>1, <3>2, <3>3, Lay
    <3>5. /\ r \in GridSet(rows)
          /\ r.slots = g.slots \cup Area(rows, e, c)
          /\ r.conflict = g.conflict
          /\ r.start = [g.start EXCEPT ![e] = c]
      BY <1>4, <3>1, ReserveIs
    <3> HIDE DEF r
    <3>6. \A f \in P : r.start[f] = IF f = e THEN c ELSE g.start[f]
      BY <1>4, <3>5, GridIs DEF P
    <3>7. k = r
      BY <3>1 DEF r
    <3> QED
      BY <1>2, <3>4, <3>6, <3>7 DEF None
  <2>2. CASE col # None
    <3>1. k = g
      BY <2>2
    <3>2. g.start[e] # None
      BY <1>2, <1>3, <2>2 DEF col
    <3> QED
      BY <1>3, <3>1, <3>2
  <2> QED
    BY <2>1, <2>2
<1>7. e[1] \in DOMAIN rows
  BY <1>2 DEF P, Places
<1>8. h = Advance(k, e[1], d)
  BY <1>5
<1> HIDE DEF k
<1>9. Laid(rows, h) /\ h.start = k.start
  BY <1>6, <1>7, <1>8, AdvanceKeeps
<1>10. h.start[e] # None /\ \A f \in P : f # e => h.start[f] = g.start[f]
  BY <1>6, <1>9
<1>11. \A f \in P : CellAt(rows, f).col # None => h.start[f] # None
  BY <1>3, <1>10
<1>12. \A p \in 1..(q + 1) : h.start[E[p]] # None
  <2> SUFFICES ASSUME NEW p \in 1..(q + 1) PROVE h.start[E[p]] # None
    OBVIOUS
  <2>1. CASE E[p] = e
    BY <1>10, <2>1
  <2>2. CASE E[p] # e
    <3>1. p \in 1..q /\ p \in 1..n
      BY <1>1, <2>2 DEF e
    <3> QED
      BY <1>1, <1>3, <1>10, <2>2, <3>1
  <2> QED
    BY <2>1, <2>2
<1>13. \A p \in ((q + 1) + 1)..n : CellAt(rows, E[p]).col = None => h.start[E[p]] = None
  <2> SUFFICES ASSUME NEW p \in ((q + 1) + 1)..n, CellAt(rows, E[p]).col = None PROVE h.start[E[p]] = None
    OBVIOUS
  <2>1. p \in 1..n /\ p \in (q + 1)..n /\ p # q + 1
    BY <1>1
  <2>2. E[p] # e /\ E[p] \in P
    BY <1>1, <2>1 DEF e
  <2> QED
    BY <1>3, <1>10, <2>1, <2>2
<1>14. PlannedTo(rows, h, q + 1)
  BY <1>9, <1>11, <1>12, <1>13 DEF PlannedTo, E, P, n
<1> QED
  BY <1>14 DEF h, e, E

LEMMA PlanIs ==
  ASSUME NEW rows \in Seq(TableRow), ~Reserved(rows).conflict
  PROVE  PlannedTo(rows, PlanGrid(rows), Len(Entries(rows)))
<1> DEFINE E == Entries(rows)
           n == Len(E)
           Y == Grids(rows)
           empty == Reserved(rows)
           Iter(f) == [T \in SUBSET (1..n) |->
                          IF T = {} THEN empty ELSE Placing(rows, f[T \ {Max(T)}], E[Max(T)])]
           it == CHOOSE f : f = Iter(f)
<1>1. n \in Nat /\ DOMAIN E = 1..n /\ \A i \in 1..n : E[i] \in Places(rows)
  BY EntryIs
<1>2. PlanGrid(rows) = it[1..n]
  BY <1>1 DEF PlanGrid, FoldLeft, MapThenFoldSet, Placing
<1>3. \A g \in Y, i \in 1..n : Placing(rows, g, E[i]) \in Y
  BY <1>1, PlacingTyped
<1>4. empty \in Y /\ ReservedTo(rows, empty, n) /\ ~empty.conflict
  <2>1. ReservedTo(rows, empty, n)
    BY ReservedIs
  <2> QED
    BY <2>1 DEF ReservedTo, Laid, Grids
<1> HIDE DEF empty
<1>5. \E f : f = Iter(f)
  <2> DEFINE then == [z \in (1..n) \X Y |-> Placing(rows, z[2], E[z[1]])]
  <2>1. then \in [(1..n) \X Y -> Y]
    BY <1>3
  <2>2. PICK f \in [SUBSET (1..n) -> Y] : FoldsTo(f, n, empty, then)
    <3> HIDE DEF then, Y, n
    <3> QED
      BY <1>1, <1>4, <2>1, Folding DEF n
  <2>3. ASSUME NEW T \in SUBSET (1..n), T # {}
        PROVE  then[<<Max(T), f[T \ {Max(T)}]>>] = Placing(rows, f[T \ {Max(T)}], E[Max(T)])
    <3>1. Max(T) \in 1..n /\ f[T \ {Max(T)}] \in Y
      <4> HIDE DEF Y, n
      <4> QED
        BY <1>1, <2>3, FoldingStep DEF n
    <3> HIDE DEF Y, n
    <3> QED
      BY <3>1
  <2>4. f = Iter(f)
    <3>1. f = [T \in SUBSET (1..n) |-> f[T]]
      <4> HIDE DEF Y
      <4> QED
        BY <2>2
    <3>2. \A T \in SUBSET (1..n) : f[T] = IF T = {} THEN empty ELSE Placing(rows, f[T \ {Max(T)}], E[Max(T)])
      <4> HIDE DEF then, Y, n
      <4> QED
        BY <2>2, <2>3 DEF FoldsTo
    <3> HIDE DEF Y
    <3> QED
      BY <3>1, <3>2
  <2> QED
    BY <2>4
<1>6. it = Iter(it)
  <2> HIDE DEF Iter
  <2> QED
    BY <1>5
<1> HIDE DEF it
<1>7. it[{}] = empty
  BY <1>6
<1>8. ASSUME NEW k \in 1..n PROVE it[1..k] = Placing(rows, it[1..(k - 1)], E[k])
  <2>1. /\ Max(1..k) = k /\ (1..k) \ {k} = 1..(k - 1)
        /\ 1..k \in SUBSET (1..n) /\ 1..k # {}
    BY <1>1, Beginnings
  <2>2. it[1..k] = Placing(rows, it[(1..k) \ {Max(1..k)}], E[Max(1..k)])
    BY <1>6, <2>1
  <2> QED
    BY <2>1, <2>2
<1> DEFINE S == {k \in Nat : k <= n => PlannedTo(rows, it[1..k], k)}
<1>9. 0 \in S
  <2>1. 1..0 = {} /\ 0 + 1 = 1
    OBVIOUS
  <2> DEFINE P == Places(rows)
  <2>2. /\ Laid(rows, empty)
        /\ \A e \in P : empty.start[e] # None => CellAt(rows, e).col # None
        /\ \A p \in 1..n : CellAt(rows, E[p]).col # None => empty.start[E[p]] # None
    BY <1>4 DEF ReservedTo
  <2>3. \A e \in P : \E p \in DOMAIN E : E[p] = e
    BY EntriesAre
  <2> HIDE DEF P, E, n
  <2>4. \A e \in P : CellAt(rows, e).col # None => empty.start[e] # None
    BY <1>1, <2>2, <2>3
  <2>5. \A p \in 1..n : CellAt(rows, E[p]).col = None => empty.start[E[p]] = None
    BY <1>1, <2>2 DEF P
  <2>6. PlannedTo(rows, empty, 0)
    BY <2>1, <2>2, <2>4, <2>5 DEF PlannedTo, P, E, n
  <2> QED
    BY <1>7, <2>1, <2>6
<1>10. ASSUME NEW k \in Nat, k \in S PROVE k + 1 \in S
  <2> SUFFICES ASSUME k + 1 <= n PROVE PlannedTo(rows, it[1..(k + 1)], k + 1)
    OBVIOUS
  <2>1. k + 1 \in 1..n /\ (k + 1) - 1 = k /\ k <= n
    BY <1>1
  <2> DEFINE g == it[1..k]
  <2>2. PlannedTo(rows, g, k)
    BY <1>10, <2>1
  <2>3. it[1..(k + 1)] = Placing(rows, g, E[k + 1])
    BY <1>8, <2>1
  <2> HIDE DEF g
  <2>4. PlannedTo(rows, Placing(rows, g, E[k + 1]), k + 1)
    BY <2>2, PlacingKeeps
  <2> QED
    BY <2>3, <2>4
<1>11. \A k \in Nat : k \in S
  <2> HIDE DEF S
  <2> QED
    BY <1>9, <1>10, Induction
<1>12. PlannedTo(rows, it[1..n], n)
  <2> HIDE DEF n
  <2>1. n <= n
    BY <1>1
  <2> QED
    BY <1>1, <1>11, <2>1
<1> QED
  BY <1>2, <1>12

(* The cells of a row by their columns.                                    *)
ByColumn(cells) == Sorted(cells, LAMBDA a, b : a.col < b.col)
Rightward(S) == {p \in S \X S : p[1].col < p[2].col}

LEMMA ByColumnIs ==
  ASSUME NEW S, IsFiniteSet(S), S \subseteq CellSet, \A x, y \in S : x.col = y.col => x = y
  PROVE  /\ ByColumn(S) \in Seq(CellSet)
         /\ \A k \in DOMAIN ByColumn(S) : ByColumn(S)[k] \in S
         /\ \A x \in S : \E k \in DOMAIN ByColumn(S) : ByColumn(S)[k] = x
         /\ \A k, l \in DOMAIN ByColumn(S) : ByColumn(S)[k] = ByColumn(S)[l] => k = l
<1> DEFINE N == Cardinality(S)
           R == Rightward(S)
           Pre(a, b) == a.col < b.col
           s == Sorted(S, Pre)
<1>1. \A x \in S : x.col \in Nat
  BY DEF CellSet
<1>2. \A x, y \in S : <<x, y>> \in R <=> x.col < y.col
  BY DEF Rightward
<1>3. N \in Nat /\ OrdersSet(R, S)
  <2>1. N \in Nat
    BY FS_CardinalityType
  <2> HIDE DEF R
  <2> QED
    BY <1>1, <1>2, <2>1 DEF OrdersSet
<1>4. ASSUME NEW x \in S PROVE {y \in S : Pre(y, x)} = Earlier(R, S, x)
  <2> HIDE DEF R
  <2> QED
    BY <1>2 DEF Earlier
<1> HIDE DEF R
<1>5. ASSUME NEW k \in 1..N PROVE s[k] \in S /\ Count(R, S, s[k]) = k - 1
  <2>1. \E x \in S : Count(R, S, x) = k - 1
    BY <1>3, EveryCountIsTaken
  <2>2. \A x \in S : Cardinality({y \in S : Pre(y, x)}) = Count(R, S, x)
    BY <1>4 DEF Count
  <2>3. s[k] = CHOOSE x \in S : Cardinality({y \in S : Pre(y, x)}) = k - 1
    BY DEF Sorted
  <2>4. \E x \in S : Cardinality({y \in S : Pre(y, x)}) = k - 1
    BY <2>1, <2>2
  <2>5. s[k] \in S /\ Cardinality({y \in S : Pre(y, s[k])}) = k - 1
    <3> HIDE DEF s
    <3> QED
      BY <2>3, <2>4
  <2> QED
    BY <2>2, <2>5, ZenonT(40)
<1>6. s \in [1..N -> S]
  BY <1>5 DEF Sorted
<1>7. s = ByColumn(S)
  BY DEF ByColumn
<1> HIDE DEF s
<1>8. InOrder(s, R, S)
  BY <1>3, <1>5, <1>6, Counting
<1> DEFINE C == CellSet
<1>9. s \in [1..N -> C]
  <2>1. S \subseteq C
    OBVIOUS
  <2> HIDE DEF C, N
  <2> QED
    BY <1>6, <2>1
<1>10. s \in Seq(C) /\ DOMAIN s = 1..N
  <2> HIDE DEF C, N
  <2> QED
    BY <1>3, <1>9, FunctionIsSequence DEF N
<1> HIDE DEF N
<1>11. \A k \in DOMAIN s : s[k] \in S
  BY <1>6, <1>10
<1> QED
  BY <1>7, <1>8, <1>10, <1>11 DEF InOrder, N

-----------------------------------------------------------------------------
(* A grid that holds every cell of the rows, and the table made of it.     *)
Planned(rows, g) == Laid(rows, g) /\ \A e \in Places(rows) : g.start[e] # None

WidthOf(g) == Max({1} \cup {s[2] : s \in g.slots})
HeightOf(rows, g) == Max({Len(rows)} \cup {s[1] : s \in g.slots})
FillersOf(g, i, section) == {Placeholder(section, c) : c \in {d \in 1..WidthOf(g) : <<i, d>> \notin g.slots}}
PlacedOf(rows, g, i) == {[rows[i].cells[k] EXCEPT !.col = g.start[<<i, k>>]] : k \in DOMAIN rows[i].cells}

LEMMA CompletedIs ==
  ASSUME NEW rows, NEW g
  PROVE  Completed(rows, g) =
           [width |-> WidthOf(g), review |-> FALSE,
            rows |-> [i \in 1..HeightOf(rows, g) |->
                         IF i <= Len(rows)
                         THEN [rows[i] EXCEPT !.cells = ByColumn(PlacedOf(rows, g, i) \cup FillersOf(g, i, rows[i].section))]
                         ELSE [number |-> rows[Len(rows)].number + i - Len(rows), section |-> rows[Len(rows)].section,
                               cells |-> ByColumn(FillersOf(g, i, rows[Len(rows)].section))]]]
BY DEF Completed, WidthOf, HeightOf, FillersOf, PlacedOf, ByColumn

LEMMA PlannedIs ==
  ASSUME NEW rows \in Seq(TableRow), ~Reserved(rows).conflict
  PROVE  Planned(rows, PlanGrid(rows))
<1> DEFINE E == Entries(rows)
           n == Len(E)
           P == Places(rows)
           g == PlanGrid(rows)
<1>1. PlannedTo(rows, g, n)
  BY PlanIs
<1>2. \A e \in P : \E q \in DOMAIN E : E[q] = e
  BY EntriesAre
<1>3. DOMAIN E = 1..n
  BY EntryIs
<1>4. Laid(rows, g) /\ \A p \in 1..n : g.start[E[p]] # None
  BY <1>1 DEF PlannedTo
<1> HIDE DEF E, n, P, g
<1>5. \A e \in P : g.start[e] # None
  BY <1>2, <1>3, <1>4
<1> QED
  BY <1>4, <1>5 DEF Planned, P, g

(* The size of a table.                                                    *)
LEMMA SizeIs ==
  ASSUME NEW rows \in Seq(TableRow), rows # << >>, NEW g, Laid(rows, g)
  PROVE  /\ WidthOf(g) \in Nat \ {0} /\ HeightOf(rows, g) \in Nat \ {0} /\ Len(rows) \in 1..HeightOf(rows, g)
         /\ \A s \in g.slots : s[1] \in 1..HeightOf(rows, g) /\ s[2] \in 1..WidthOf(g)
<1> DEFINE slots == g.slots
           n == Len(rows)
           down == [s \in slots |-> s[1]]
           right == [s \in slots |-> s[2]]
           Downs == {s[1] : s \in slots}
           Rights == {s[2] : s \in slots}
           W == {1} \cup Rights
           H == {n} \cup Downs
<1>1. slots \subseteq Slots /\ IsFiniteSet(slots)
  BY GridIs DEF Laid
<1>2. \A s \in slots : s[1] \in Nat \ {0} /\ s[2] \in Nat \ {0}
  BY <1>1 DEF Slots
<1>3. n \in Nat \ {0}
  BY PlacesAre
<1> HIDE DEF slots, n
<1>4. IsFiniteSet(Downs) /\ IsFiniteSet(Rights)
  <2>1. down \in Surjection(slots, Downs) /\ right \in Surjection(slots, Rights)
    BY DEF Surjection
  <2> HIDE DEF down, right, Downs, Rights
  <2> QED
    BY <1>1, <2>1, FS_Surjection
<1>5. IsFiniteSet(W) /\ IsFiniteSet(H)
  <2>1. IsFiniteSet({1}) /\ IsFiniteSet({n})
    BY FS_Singleton
  <2> HIDE DEF Downs, Rights
  <2>2. IsFiniteSet({1} \cup Rights)
    BY <1>4, <2>1, FS_Union
  <2>3. IsFiniteSet({n} \cup Downs)
    BY <1>4, <2>1, FS_Union
  <2> QED
    BY <2>2, <2>3
<1>6. /\ W \subseteq Int /\ W # {} /\ H \subseteq Int /\ H # {} /\ W \subseteq Nat \ {0} /\ H \subseteq Nat \ {0}
      /\ 1 \in W /\ n \in H /\ \A s \in slots : s[1] \in H /\ s[2] \in W
  BY <1>2, <1>3
<1> HIDE DEF W, H
<1>7. Max(W) \in W /\ Max(H) \in H /\ (\A y \in W : y <= Max(W)) /\ (\A y \in H : y <= Max(H))
  BY <1>5, <1>6, Greatest
<1>8. WidthOf(g) = Max(W) /\ HeightOf(rows, g) = Max(H)
  BY DEF WidthOf, HeightOf, W, H, slots, n
<1> DEFINE w == Max(W)
           h == Max(H)
<1>9. w \in Nat \ {0} /\ h \in Nat \ {0} /\ n <= h /\ \A s \in slots : s[1] <= h /\ s[2] <= w
  BY <1>6, <1>7
<1> HIDE DEF w, h
<1>10. n \in 1..h /\ \A s \in slots : s[1] \in 1..h /\ s[2] \in 1..w
  BY <1>2, <1>3, <1>9
<1> QED
  BY <1>8, <1>9, <1>10 DEF w, h, n, slots

Moved(rows, g, f) == [CellAt(rows, f) EXCEPT !.col = g.start[f]]

LEMMA MovedIs ==
  ASSUME NEW rows \in Seq(TableRow), NEW g, Planned(rows, g), NEW f \in Places(rows)
  PROVE  /\ Moved(rows, g, f) \in CellSet /\ Moved(rows, g, f).col = g.start[f] /\ g.start[f] \in Nat \ {0}
         /\ Moved(rows, g, f).nodes = CellAt(rows, f).nodes
         /\ Moved(rows, g, f).across = CellAt(rows, f).across
         /\ Moved(rows, g, f).down = CellAt(rows, f).down
<1> DEFINE c == g.start[f]
           old == CellAt(rows, f)
<1>1. c \in Nat \ {0}
  BY GridIs DEF Planned, Laid, None
<1>2. old \in CellSet
  BY PlacesAre
<1>3. Moved(rows, g, f) = [old EXCEPT !.col = c]
  BY DEF Moved
<1> HIDE DEF c, old
<1>4. /\ Moved(rows, g, f) \in CellSet /\ Moved(rows, g, f).col = c
      /\ Moved(rows, g, f).nodes = old.nodes /\ Moved(rows, g, f).across = old.across /\ Moved(rows, g, f).down = old.down
  BY <1>1, <1>2, <1>3 DEF CellSet
<1> QED
  BY <1>1, <1>4 DEF c, old

FromCell(rows, g, i, x) == \E f \in Places(rows) : f[1] = i /\ x = Moved(rows, g, f)
Fills(x, c) == x.col = c /\ x.across = 1 /\ x.down = 1 /\ x.nodes = << >>
FromGap(g, i, x) == \E c \in 1..WidthOf(g) : <<i, c>> \notin g.slots /\ Fills(x, c)

LEMMA FillersAre ==
  ASSUME NEW g, WidthOf(g) \in Nat, NEW i, NEW section \in CellHints
  PROVE  /\ IsFiniteSet(FillersOf(g, i, section)) /\ FillersOf(g, i, section) \subseteq CellSet
         /\ \A x \in FillersOf(g, i, section) : FromGap(g, i, x)
         /\ \A x, y \in FillersOf(g, i, section) : x.col = y.col => x = y
         /\ \A c \in 1..WidthOf(g) : <<i, c>> \notin g.slots => \E x \in FillersOf(g, i, section) : Fills(x, c)
<1> DEFINE w == WidthOf(g)
           D == {d \in 1..w : <<i, d>> \notin g.slots}
           F == FillersOf(g, i, section)
           fill == [d \in D |-> Placeholder(section, d)]
<1>1. F = {fill[d] : d \in D}
  BY DEF FillersOf
<1> HIDE DEF w
<1>2. w \in Nat
  BY DEF w
<1>3. ASSUME NEW d \in D PROVE fill[d] \in CellSet /\ Fills(fill[d], d)
  <2>1. d \in Nat \ {0}
    BY <1>2
  <2> DEFINE given == IF section = "none" THEN "body" ELSE section
             none == << >>
  <2>2. given \in CellHints /\ none \in Seq(Nat)
    BY DEF CellHints
  <2>3. fill[d] = [nodes |-> none, head |-> FALSE, col |-> d, across |-> 1, down |-> 1, hint |-> given]
    BY DEF Placeholder
  <2> HIDE DEF given, none
  <2>4. fill[d] \in CellSet
    <3> HIDE DEF fill
    <3> QED
      BY <2>1, <2>2, <2>3 DEF CellSet
  <2>5. Fills(fill[d], d)
    <3> HIDE DEF fill
    <3> QED
      BY <2>3 DEF Fills, none
  <2> QED
    BY <2>4, <2>5
<1>4. IsFiniteSet(D)
  <2>1. IsFiniteSet(1..w)
    BY <1>2, PlacesAreFinite
  <2>2. D \subseteq 1..w
    OBVIOUS
  <2> QED
    BY <2>1, <2>2, FS_Subset
<1>5. \A d \in D : d \in 1..w /\ <<i, d>> \notin g.slots
  OBVIOUS
<1>6. \A d \in 1..w : <<i, d>> \notin g.slots => d \in D
  OBVIOUS
<1>7. DOMAIN fill = D
  OBVIOUS
<1> HIDE DEF D, fill
<1>8. IsFiniteSet(F)
  <2>1. fill \in Surjection(D, F)
    <3>1. fill = [d \in D |-> fill[d]]
      BY <1>7 DEF fill
    <3> HIDE DEF F
    <3>2. fill \in [D -> F]
      BY <1>1, <3>1
    <3> QED
      BY <1>1, <3>2 DEF Surjection
  <2> HIDE DEF F
  <2> QED
    BY <1>4, <2>1, FS_Surjection
<1> HIDE DEF F
<1>9. F \subseteq CellSet
  BY <1>1, <1>3
<1>10. \A x \in F : FromGap(g, i, x)
  BY <1>1, <1>3, <1>5 DEF FromGap, w
<1>11. \A x, y \in F : x.col = y.col => x = y
  <2> SUFFICES ASSUME NEW x \in F, NEW y \in F, x.col = y.col PROVE x = y
    OBVIOUS
  <2>1. PICK d \in D : x = fill[d]
    BY <1>1
  <2>2. PICK e \in D : y = fill[e]
    BY <1>1
  <2> QED
    BY <1>3, <2>1, <2>2 DEF Fills
<1>12. \A c \in 1..w : <<i, c>> \notin g.slots => \E x \in F : Fills(x, c)
  BY <1>1, <1>3, <1>6
<1> QED
  BY <1>8, <1>9, <1>10, <1>11, <1>12 DEF F, w

LEMMA PlacedAre ==
  ASSUME NEW rows \in Seq(TableRow), NEW g, Planned(rows, g), NEW i \in DOMAIN rows
  PROVE  /\ IsFiniteSet(PlacedOf(rows, g, i)) /\ PlacedOf(rows, g, i) \subseteq CellSet
         /\ \A x \in PlacedOf(rows, g, i) : FromCell(rows, g, i, x) /\ <<i, x.col>> \in g.slots
         /\ \A x, y \in PlacedOf(rows, g, i) : x.col = y.col => x = y
         /\ \A f \in Places(rows) : f[1] = i => Moved(rows, g, f) \in PlacedOf(rows, g, i)
<1> DEFINE cells == rows[i].cells
           K == DOMAIN cells
           move == [k \in K |-> Moved(rows, g, <<i, k>>)]
           P == PlacedOf(rows, g, i)
<1>1. Len(cells) \in Nat /\ K = 1..Len(cells) /\ \A k \in K : <<i, k>> \in Places(rows)
  <2> DEFINE C == CellSet
  <2>1. cells \in Seq(C) /\ \A k \in K : <<i, k>> \in Places(rows)
    BY PlacesAre
  <2> HIDE DEF cells, C
  <2> QED
    BY <2>1, SequenceIs
<1>2. \A k \in K : <<i, k>>[1] = i /\ <<i, k>>[2] = k /\ CellAt(rows, <<i, k>>) = cells[k]
  BY DEF CellAt
<1>3. P = {move[k] : k \in K}
  <2> DEFINE shift == [k \in K |-> [cells[k] EXCEPT !.col = g.start[<<i, k>>]]]
  <2>1. P = {shift[k] : k \in K}
    BY DEF PlacedOf
  <2>2. \A k \in K : shift[k] = move[k]
    BY <1>2 DEF Moved
  <2> HIDE DEF shift, move, K, P
  <2> QED
    BY <2>1, <2>2
<1>4. \A k \in K : move[k] = Moved(rows, g, <<i, k>>)
  OBVIOUS
<1>5. \A f \in Places(rows) : f[1] = i => f[2] \in K /\ f = <<i, f[2]>>
  BY PlacesAre
<1>6. IsFiniteSet(P)
  <2>1. IsFiniteSet(K)
    <3> HIDE DEF K
    <3> QED
      BY <1>1, PlacesAreFinite
  <2>2. move = [k \in K |-> move[k]]
    OBVIOUS
  <2> HIDE DEF K, move, P
  <2>3. move \in [K -> P]
    BY <1>3, <2>2
  <2>4. move \in Surjection(K, P)
    BY <1>3, <2>3 DEF Surjection
  <2> QED
    BY <2>1, <2>4, FS_Surjection
<1> HIDE DEF K, move, P
<1>7. \A x \in P : \E k \in K : x = Moved(rows, g, <<i, k>>)
  BY <1>3, <1>4
<1>8. P \subseteq CellSet
  <2> SUFFICES ASSUME NEW x \in P PROVE x \in CellSet
    OBVIOUS
  <2>1. PICK k \in K : x = Moved(rows, g, <<i, k>>)
    BY <1>7
  <2> DEFINE f == <<i, k>>
  <2>2. f \in Places(rows) /\ x = Moved(rows, g, f)
    BY <1>1, <2>1
  <2> HIDE DEF f
  <2>3. Moved(rows, g, f) \in CellSet
    BY <2>2, MovedIs
  <2> QED
    BY <2>2, <2>3
<1>9. ASSUME NEW k \in K
      PROVE  /\ <<i, k>> \in Places(rows) /\ g.start[<<i, k>>] \in Nat \ {0} /\ Moved(rows, g, <<i, k>>).col = g.start[<<i, k>>]
             /\ <<i, g.start[<<i, k>>]>> \in Area(rows, <<i, k>>, g.start[<<i, k>>])
             /\ Area(rows, <<i, k>>, g.start[<<i, k>>]) \subseteq g.slots
  <2> DEFINE f == <<i, k>>
             c == g.start[f]
  <2>1. f \in Places(rows) /\ f[1] = i
    BY <1>1
  <2> HIDE DEF f
  <2>2. c \in Nat \ {0} /\ Moved(rows, g, f).col = c
    BY <2>1, MovedIs
  <2>3. c # None /\ Area(rows, f, c) \subseteq g.slots
    BY <2>1, <2>2 DEF Planned, Laid
  <2> HIDE DEF c
  <2>4. <<f[1], c>> \in Area(rows, f, c)
    BY <2>1, <2>2, AreaIs
  <2> QED
    BY <2>1, <2>2, <2>3, <2>4 DEF f, c
<1>10. ASSUME NEW x \in P PROVE FromCell(rows, g, i, x) /\ <<i, x.col>> \in g.slots
  <2>1. PICK k \in K : x = Moved(rows, g, <<i, k>>)
    BY <1>7
  <2> QED
    BY <1>2, <1>9, <2>1 DEF FromCell
<1>11. ASSUME NEW x \in P, NEW y \in P, x.col = y.col PROVE x = y
  <2>1. PICK k \in K : x = Moved(rows, g, <<i, k>>)
    BY <1>7
  <2>2. PICK l \in K : y = Moved(rows, g, <<i, l>>)
    BY <1>7
  <2> DEFINE e == <<i, k>>
             f == <<i, l>>
             c == g.start[e]
  <2>3. /\ e \in Places(rows) /\ f \in Places(rows) /\ g.start[e] # None /\ g.start[f] = c /\ c # None
        /\ <<i, c>> \in Area(rows, e, g.start[e]) /\ <<i, c>> \in Area(rows, f, g.start[f])
    BY <1>9, <1>11, <2>1, <2>2 DEF None
  <2> HIDE DEF e, f, c
  <2>4. e = f
    BY <2>3 DEF Planned, Laid
  <2> QED
    BY <2>1, <2>2, <2>4 DEF e, f
<1>12. \A f \in Places(rows) : f[1] = i => Moved(rows, g, f) \in P
  BY <1>3, <1>4, <1>5
<1> QED
  BY <1>6, <1>8, <1>10, <1>11, <1>12 DEF P

(* The cells of a row of the completed table.                              *)
CellsFor(rows, g, i) ==
  IF i <= Len(rows) THEN PlacedOf(rows, g, i) \cup FillersOf(g, i, rows[i].section)
  ELSE FillersOf(g, i, rows[Len(rows)].section)

Filled(rows, g, i, cells) ==
  /\ cells \in Seq(CellSet)
  /\ \A k \in DOMAIN cells : FromCell(rows, g, i, cells[k]) \/ FromGap(g, i, cells[k])
  /\ \A f \in Places(rows) : f[1] = i => \E k \in DOMAIN cells : cells[k] = Moved(rows, g, f)
  /\ \A c \in 1..WidthOf(g) : <<i, c>> \notin g.slots => \E k \in DOMAIN cells : Fills(cells[k], c)
  /\ \A k, l \in DOMAIN cells : cells[k].col = cells[l].col => k = l

LEMMA RowIsFilled ==
  ASSUME NEW rows \in Seq(TableRow), rows # << >>, NEW g, Planned(rows, g), NEW i \in 1..HeightOf(rows, g)
  PROVE  Filled(rows, g, i, ByColumn(CellsFor(rows, g, i)))
<1> DEFINE n == Len(rows)
           S == CellsFor(rows, g, i)
           section == IF i <= n THEN rows[i].section ELSE rows[n].section
           F == FillersOf(g, i, section)
           P == PlacedOf(rows, g, i)
           s == ByColumn(S)
<1>1. /\ n \in Nat /\ DOMAIN rows = 1..n /\ n \in 1..n /\ i \in Nat \ {0} /\ WidthOf(g) \in Nat
      /\ (i <= n => i \in DOMAIN rows) /\ \A j \in DOMAIN rows : rows[j].section \in CellHints
  <2>1. n \in Nat /\ DOMAIN rows = 1..n /\ \A j \in DOMAIN rows : rows[j] \in TableRow
    BY PlacesAre
  <2>2. HeightOf(rows, g) \in Nat \ {0} /\ n \in 1..HeightOf(rows, g) /\ WidthOf(g) \in Nat
    BY SizeIs DEF Planned
  <2>3. \A j \in DOMAIN rows : rows[j].section \in CellHints
    BY <2>1 DEF TableRow
  <2> HIDE DEF n
  <2> QED
    BY <2>1, <2>2, <2>3
<1>2. section \in CellHints
  BY <1>1
<1>3. S = IF i <= n THEN P \cup F ELSE F
  BY DEF CellsFor
<1> HIDE DEF section, S
<1>4. /\ IsFiniteSet(F) /\ F \subseteq CellSet
      /\ \A x \in F : FromGap(g, i, x)
      /\ \A x, y \in F : x.col = y.col => x = y
      /\ \A c \in 1..WidthOf(g) : <<i, c>> \notin g.slots => \E x \in F : Fills(x, c)
  BY <1>1, <1>2, FillersAre
<1>5. ASSUME i <= n
      PROVE  /\ IsFiniteSet(P) /\ P \subseteq CellSet
             /\ \A x \in P : FromCell(rows, g, i, x) /\ <<i, x.col>> \in g.slots
             /\ \A x, y \in P : x.col = y.col => x = y
             /\ \A f \in Places(rows) : f[1] = i => Moved(rows, g, f) \in P
  BY <1>1, <1>5, PlacedAre
<1> HIDE DEF F, P
<1>6. /\ IsFiniteSet(S) /\ S \subseteq CellSet
      /\ \A x \in S : FromCell(rows, g, i, x) \/ FromGap(g, i, x)
      /\ \A x, y \in S : x.col = y.col => x = y
      /\ \A f \in Places(rows) : f[1] = i => Moved(rows, g, f) \in S
      /\ \A c \in 1..WidthOf(g) : <<i, c>> \notin g.slots => \E x \in S : Fills(x, c)
  <2>1. CASE i <= n
    <3>1. S = P \cup F
      BY <1>3, <2>1
    <3>2. IsFiniteSet(P \cup F)
      BY <1>4, <1>5, <2>1, FS_Union
    <3>3. ASSUME NEW x \in P, NEW y \in F PROVE x.col # y.col
      <4>1. PICK c \in 1..WidthOf(g) : <<i, c>> \notin g.slots /\ Fills(y, c)
        BY <1>4 DEF FromGap
      <4>2. y.col = c /\ <<i, x.col>> \in g.slots
        BY <1>5, <2>1, <4>1 DEF Fills
      <4> QED
        BY <4>1, <4>2
    <3>4. \A x, y \in S : x.col = y.col => x = y
      BY <1>4, <1>5, <2>1, <3>1, <3>3
    <3>5. S \subseteq CellSet /\ IsFiniteSet(S)
      BY <1>4, <1>5, <2>1, <3>1, <3>2
    <3>6. /\ \A x \in S : FromCell(rows, g, i, x) \/ FromGap(g, i, x)
          /\ \A f \in Places(rows) : f[1] = i => Moved(rows, g, f) \in S
          /\ \A c \in 1..WidthOf(g) : <<i, c>> \notin g.slots => \E x \in S : Fills(x, c)
      BY <1>4, <1>5, <2>1, <3>1
    <3> QED
      BY <3>4, <3>5, <3>6
  <2>2. CASE ~(i <= n)
    <3>1. S = F
      BY <1>3, <2>2
    <3>2. \A f \in Places(rows) : f[1] # i
      <4>1. \A f \in Places(rows) : f[1] \in DOMAIN rows
        BY PlacesAre
      <4> QED
        BY <1>1, <2>2, <4>1
    <3> QED
      BY <1>4, <3>1, <3>2
  <2> QED
    BY <2>1, <2>2
<1>7. /\ s \in Seq(CellSet)
      /\ \A k \in DOMAIN s : s[k] \in S
      /\ \A x \in S : \E k \in DOMAIN s : s[k] = x
      /\ \A k, l \in DOMAIN s : s[k] = s[l] => k = l
  BY <1>6, ByColumnIs
<1> HIDE DEF s
<1>8. \A k \in DOMAIN s : FromCell(rows, g, i, s[k]) \/ FromGap(g, i, s[k])
  BY <1>6, <1>7
<1>9. \A f \in Places(rows) : f[1] = i => \E k \in DOMAIN s : s[k] = Moved(rows, g, f)
  BY <1>6, <1>7
<1>10. \A c \in 1..WidthOf(g) : <<i, c>> \notin g.slots => \E k \in DOMAIN s : Fills(s[k], c)
  BY <1>6, <1>7
<1>11. \A k, l \in DOMAIN s : s[k].col = s[l].col => k = l
  BY <1>6, <1>7
<1>12. Filled(rows, g, i, s)
  BY <1>7, <1>8, <1>9, <1>10, <1>11 DEF Filled
<1> QED
  BY <1>12 DEF s, S

(* The completed table.                                                    *)
Complete(rows, g, new) ==
  /\ new \in Seq(TableRow) /\ DOMAIN new = 1..HeightOf(rows, g)
  /\ \A i \in DOMAIN rows : new[i].number = rows[i].number
  /\ \A i \in DOMAIN new : Filled(rows, g, i, new[i].cells)

LEMMA TableIsComplete ==
  ASSUME NEW rows \in Seq(TableRow), rows # << >>, NEW g, Planned(rows, g)
  PROVE  /\ Complete(rows, g, Completed(rows, g).rows)
         /\ Completed(rows, g).width = WidthOf(g) /\ Completed(rows, g).review = FALSE
         /\ Completed(rows, g) = [rows |-> Completed(rows, g).rows, width |-> Completed(rows, g).width,
                                  review |-> Completed(rows, g).review]
<1> DEFINE n == Len(rows)
           h == HeightOf(rows, g)
           w == WidthOf(g)
           row(i) == IF i <= n
                     THEN [rows[i] EXCEPT !.cells = ByColumn(PlacedOf(rows, g, i) \cup FillersOf(g, i, rows[i].section))]
                     ELSE [number |-> rows[n].number + i - n, section |-> rows[n].section,
                           cells |-> ByColumn(FillersOf(g, i, rows[n].section))]
           new == [i \in 1..h |-> row(i)]
<1>1. Completed(rows, g) = [width |-> w, review |-> FALSE, rows |-> new]
  BY CompletedIs
<1>2. n \in Nat /\ DOMAIN rows = 1..n /\ \A j \in DOMAIN rows : rows[j] \in TableRow
  BY PlacesAre
<1>3. h \in Nat \ {0} /\ n \in 1..h
  BY SizeIs DEF Planned
<1>4. \A j \in DOMAIN rows : rows[j].section \in CellHints /\ rows[j].number \in Int
  BY <1>2 DEF TableRow
<1>5. ASSUME NEW i \in 1..h
      PROVE  /\ new[i] \in TableRow /\ new[i].cells = ByColumn(CellsFor(rows, g, i))
             /\ (i <= n => new[i].number = rows[i].number)
  <2> DEFINE cells == ByColumn(CellsFor(rows, g, i))
  <2>1. Filled(rows, g, i, cells)
    BY RowIsFilled
  <2>2. cells \in Seq(CellSet)
    BY <2>1 DEF Filled
  <2>3. new[i] = row(i)
    OBVIOUS
  <2>4. CASE i <= n
    <3>1. i \in DOMAIN rows
      <4> HIDE DEF h, n
      <4> QED
        BY <1>2, <1>3, <2>4
    <3>2. cells = ByColumn(PlacedOf(rows, g, i) \cup FillersOf(g, i, rows[i].section))
      BY <2>4 DEF CellsFor
    <3> HIDE DEF cells
    <3>3. new[i] = [rows[i] EXCEPT !.cells = cells]
      BY <2>3, <2>4, <3>2
    <3>4. rows[i] \in TableRow
      BY <1>2, <3>1
    <3> HIDE DEF new
    <3>5. new[i] \in TableRow /\ new[i].cells = cells /\ new[i].number = rows[i].number
      BY <2>2, <3>3, <3>4 DEF TableRow
    <3> QED
      BY <3>5 DEF cells
  <2>5. CASE ~(i <= n)
    <3>1. n \in DOMAIN rows
      <4> HIDE DEF h, n
      <4> QED
        BY <1>2, <1>3
    <3>2. cells = ByColumn(FillersOf(g, i, rows[n].section))
      BY <2>5 DEF CellsFor
    <3> DEFINE number == rows[n].number + i - n
               section == rows[n].section
    <3>3. number \in Int /\ section \in CellHints
      <4>1. rows[n].number \in Int /\ rows[n].section \in CellHints
        BY <1>4, <3>1
      <4> HIDE DEF h, n
      <4> QED
        BY <1>2, <1>3, <4>1
    <3> HIDE DEF cells
    <3>4. new[i] = [number |-> number, section |-> section, cells |-> cells]
      BY <2>3, <2>5, <3>2
    <3> HIDE DEF new, number, section
    <3>5. new[i] \in TableRow /\ new[i].cells = cells
      BY <2>2, <3>3, <3>4 DEF TableRow
    <3> QED
      BY <2>5, <3>5 DEF cells
  <2> QED
    BY <2>4, <2>5
<1>6. DOMAIN new = 1..h
  OBVIOUS
<1>7. new = [i \in 1..h |-> new[i]]
  OBVIOUS
<1> HIDE DEF new, n, h
<1>8. new \in Seq(TableRow)
  <2>1. new \in [1..h -> TableRow]
    BY <1>5, <1>7
  <2> QED
    BY <1>3, <2>1, FunctionIsSequence
<1>9. \A i \in DOMAIN rows : new[i].number = rows[i].number
  BY <1>2, <1>3, <1>5
<1>10. \A i \in DOMAIN new : Filled(rows, g, i, new[i].cells)
  BY <1>5, <1>6, RowIsFilled DEF h
<1>11. Complete(rows, g, new)
  BY <1>6, <1>8, <1>9, <1>10 DEF Complete, h
<1>12. Completed(rows, g).rows = new /\ Completed(rows, g).width = w /\ Completed(rows, g).review = FALSE
  BY <1>1
<1> QED
  BY <1>1, <1>11, <1>12

(* A full rectangle, and cells that are where they were declared.          *)
AreaAt(rows, e) == Area(rows, e, CellAt(rows, e).col)

Tiles(rows, width) ==
  /\ rows \in Seq(TableRow) /\ width \in Nat
  /\ \A e \in Places(rows) : /\ CellAt(rows, e).col \in Nat \ {0}
                             /\ e[1] + CellAt(rows, e).down - 1 <= Len(rows)
                             /\ CellAt(rows, e).col + CellAt(rows, e).across - 1 <= width
  /\ \A e, f \in Places(rows) : e # f => AreaAt(rows, e) \cap AreaAt(rows, f) = {}
  /\ \A r \in DOMAIN rows, c \in 1..width : \E e \in Places(rows) : <<r, c>> \in AreaAt(rows, e)

Settled(t, rows) ==
  /\ rows \in Seq(TableRow)
  /\ \A e, f \in Places(rows) : e # f => NodesAt(rows, e) \cap NodesAt(rows, f) = {}
  /\ \A d \in TaggedIn(t) : \E e \in Places(rows) :
        /\ tags[d].node \in NodesAt(rows, e) /\ rows[e[1]].number = tags[tags[d].parent].name
        /\ CellOf(d).col \in {None, CellAt(rows, e).col}

(* A cell of the completed table is one of the cells there were, or fills  *)
(* a place that none of them covers.                                       *)
CameFrom(rows, g, new, e, f) ==
  /\ f \in Places(rows) /\ f[1] = e[1] /\ CellAt(new, e) = Moved(rows, g, f)
  /\ AreaAt(new, e) = Area(rows, f, g.start[f])

FillsPlace(g, new, e) ==
  /\ CellAt(new, e).col \in 1..WidthOf(g) /\ <<e[1], CellAt(new, e).col>> \notin g.slots
  /\ Fills(CellAt(new, e), CellAt(new, e).col) /\ AreaAt(new, e) = {<<e[1], CellAt(new, e).col>>}

LEMMA OriginsAre ==
  ASSUME NEW rows \in Seq(TableRow), rows # << >>, NEW g, Planned(rows, g), NEW new, Complete(rows, g, new)
  PROVE  /\ \A e \in Places(new) : FillsPlace(g, new, e) \/ \E f \in Places(rows) : CameFrom(rows, g, new, e, f)
         /\ \A f \in Places(rows) : \E e \in Places(new) : CameFrom(rows, g, new, e, f)
         /\ \A r \in DOMAIN new, c \in 1..WidthOf(g) : <<r, c>> \notin g.slots =>
               \E e \in Places(new) : e[1] = r /\ FillsPlace(g, new, e) /\ CellAt(new, e).col = c
         /\ \A d, e \in Places(new) : d[1] = e[1] /\ CellAt(new, d).col = CellAt(new, e).col => d = e
<1>1. new \in Seq(TableRow) /\ DOMAIN new = 1..HeightOf(rows, g) /\ \A i \in DOMAIN new : Filled(rows, g, i, new[i].cells)
  BY DEF Complete
<1>2. \A e \in Places(new) : /\ e[1] \in DOMAIN new /\ e[2] \in DOMAIN new[e[1]].cells /\ e = <<e[1], e[2]>>
                             /\ e[1] \in Nat \ {0}
  BY <1>1, PlacesAre
<1>3. \A i \in DOMAIN new : \A k \in DOMAIN new[i].cells :
         <<i, k>> \in Places(new) /\ <<i, k>>[1] = i /\ CellAt(new, <<i, k>>) = new[i].cells[k]
  BY <1>1, PlacesAre, ZenonT(40) DEF CellAt
<1>4. WidthOf(g) \in Nat /\ HeightOf(rows, g) \in Nat /\ \A f \in Places(rows) : f[1] \in 1..HeightOf(rows, g)
  <2>1. WidthOf(g) \in Nat /\ HeightOf(rows, g) \in Nat /\ Len(rows) \in 1..HeightOf(rows, g)
    BY SizeIs DEF Planned
  <2>2. Len(rows) \in Nat /\ \A f \in Places(rows) : f[1] \in 1..Len(rows)
    BY PlacesAre
  <2> DEFINE n == Len(rows)
             h == HeightOf(rows, g)
  <2> HIDE DEF n, h
  <2>3. \A i \in 1..n : i \in 1..h
    BY <2>1, <2>2 DEF n, h
  <2> QED
    BY <2>1, <2>2, <2>3 DEF n, h
<1>5. ASSUME NEW e \in Places(new), NEW f \in Places(rows), f[1] = e[1], CellAt(new, e) = Moved(rows, g, f)
      PROVE  CameFrom(rows, g, new, e, f)
  <2>1. /\ Moved(rows, g, f).col = g.start[f] /\ Moved(rows, g, f).across = CellAt(rows, f).across
        /\ Moved(rows, g, f).down = CellAt(rows, f).down
    BY MovedIs
  <2>2. AreaAt(new, e) = Area(rows, f, g.start[f])
    BY <1>5, <2>1 DEF AreaAt, Area, Rectangle
  <2> QED
    BY <1>5, <2>2 DEF CameFrom
<1>6. ASSUME NEW e \in Places(new), NEW c \in 1..WidthOf(g), <<e[1], c>> \notin g.slots, Fills(CellAt(new, e), c)
      PROVE  FillsPlace(g, new, e) /\ CellAt(new, e).col = c
  <2> DEFINE i == e[1]
             x == CellAt(new, e)
  <2>1. x.col = c /\ x.across = 1 /\ x.down = 1
    BY <1>6 DEF Fills
  <2>2. i \in Nat /\ c \in Nat
    BY <1>2, <1>4
  <2>3. AreaAt(new, e) = (i..(i + x.down - 1)) \X (x.col..(x.col + x.across - 1))
    BY DEF AreaAt, Area, Rectangle
  <2> HIDE DEF i, x
  <2>4. i..(i + x.down - 1) = {i} /\ x.col..(x.col + x.across - 1) = {c}
    BY <2>1, <2>2
  <2>5. AreaAt(new, e) = {<<i, c>>}
    BY <2>3, <2>4
  <2> QED
    BY <1>6, <2>1, <2>5 DEF FillsPlace, i, x
<1>7. ASSUME NEW e \in Places(new)
      PROVE  FillsPlace(g, new, e) \/ \E f \in Places(rows) : CameFrom(rows, g, new, e, f)
  <2> DEFINE i == e[1]
             cells == new[i].cells
             k == e[2]
  <2>1. Filled(rows, g, i, cells) /\ k \in DOMAIN cells /\ CellAt(new, e) = cells[k]
    BY <1>1, <1>2 DEF CellAt
  <2> HIDE DEF i, cells, k
  <2>2. FromCell(rows, g, i, cells[k]) \/ FromGap(g, i, cells[k])
    BY <2>1 DEF Filled
  <2>3. CASE FromCell(rows, g, i, cells[k])
    <3>1. PICK f \in Places(rows) : f[1] = i /\ cells[k] = Moved(rows, g, f)
      BY <2>3 DEF FromCell
    <3> QED
      BY <1>5, <2>1, <3>1 DEF i
  <2>4. CASE FromGap(g, i, cells[k])
    <3>1. PICK c \in 1..WidthOf(g) : <<i, c>> \notin g.slots /\ Fills(cells[k], c)
      BY <2>4 DEF FromGap
    <3> QED
      BY <1>6, <2>1, <3>1 DEF i
  <2> QED
    BY <2>2, <2>3, <2>4
<1>8. ASSUME NEW f \in Places(rows) PROVE \E e \in Places(new) : CameFrom(rows, g, new, e, f)
  <2> DEFINE i == f[1]
             cells == new[i].cells
  <2>1. i \in DOMAIN new /\ Filled(rows, g, i, cells)
    BY <1>1, <1>4
  <2> HIDE DEF cells
  <2>2. PICK k \in DOMAIN cells : cells[k] = Moved(rows, g, f)
    BY <2>1 DEF Filled
  <2>3. <<i, k>> \in Places(new) /\ <<i, k>>[1] = i /\ CellAt(new, <<i, k>>) = cells[k]
    BY <1>3, <2>1, <2>2 DEF cells
  <2> DEFINE e == <<i, k>>
  <2>4. e \in Places(new) /\ f[1] = e[1] /\ CellAt(new, e) = Moved(rows, g, f)
    BY <2>2, <2>3
  <2> HIDE DEF e
  <2> QED
    BY <1>5, <2>4
<1>9. ASSUME NEW r \in DOMAIN new, NEW c \in 1..WidthOf(g), <<r, c>> \notin g.slots
      PROVE  \E e \in Places(new) : e[1] = r /\ FillsPlace(g, new, e) /\ CellAt(new, e).col = c
  <2> DEFINE cells == new[r].cells
  <2>1. Filled(rows, g, r, cells)
    BY <1>1
  <2> HIDE DEF cells
  <2>2. PICK k \in DOMAIN cells : Fills(cells[k], c)
    BY <1>9, <2>1 DEF Filled
  <2>3. <<r, k>> \in Places(new) /\ <<r, k>>[1] = r /\ CellAt(new, <<r, k>>) = cells[k]
    BY <1>3, <2>2 DEF cells
  <2> DEFINE e == <<r, k>>
  <2>4. e \in Places(new) /\ e[1] = r /\ Fills(CellAt(new, e), c) /\ <<e[1], c>> \notin g.slots
    BY <1>9, <2>2, <2>3
  <2> HIDE DEF e
  <2> QED
    BY <1>6, <2>4
<1>10. ASSUME NEW d \in Places(new), NEW e \in Places(new), d[1] = e[1], CellAt(new, d).col = CellAt(new, e).col
       PROVE  d = e
  <2> DEFINE cells == new[d[1]].cells
             k == d[2]
             l == e[2]
  <2>1. /\ Filled(rows, g, d[1], cells) /\ k \in DOMAIN cells /\ l \in DOMAIN cells
        /\ CellAt(new, d) = cells[k] /\ CellAt(new, e) = cells[l]
    BY <1>1, <1>2, <1>10 DEF CellAt
  <2>2. d = <<d[1], k>> /\ e = <<d[1], l>>
    BY <1>2, <1>10
  <2> HIDE DEF cells, k, l
  <2>3. k = l
    BY <1>10, <2>1 DEF Filled
  <2> QED
    BY <2>2, <2>3
<1> QED
  BY <1>7, <1>8, <1>9, <1>10

LEMMA CompleteTiles ==
  ASSUME NEW rows \in Seq(TableRow), rows # << >>, NEW g, Planned(rows, g), NEW new, Complete(rows, g, new)
  PROVE  Tiles(new, WidthOf(g))
<1> DEFINE w == WidthOf(g)
           h == HeightOf(rows, g)
<1>1. /\ \A e \in Places(new) : FillsPlace(g, new, e) \/ \E f \in Places(rows) : CameFrom(rows, g, new, e, f)
      /\ \A f \in Places(rows) : \E e \in Places(new) : CameFrom(rows, g, new, e, f)
      /\ \A r \in DOMAIN new, c \in 1..w : <<r, c>> \notin g.slots =>
            \E e \in Places(new) : e[1] = r /\ FillsPlace(g, new, e) /\ CellAt(new, e).col = c
      /\ \A d, e \in Places(new) : d[1] = e[1] /\ CellAt(new, d).col = CellAt(new, e).col => d = e
  BY OriginsAre
<1>2. new \in Seq(TableRow) /\ DOMAIN new = 1..h /\ Len(new) = h /\ w \in Nat \ {0} /\ h \in Nat \ {0}
  <2>1. h \in Nat \ {0} /\ w \in Nat \ {0}
    BY SizeIs DEF Planned
  <2>2. new \in Seq(TableRow) /\ DOMAIN new = 1..h
    BY DEF Complete
  <2>3. Len(new) \in Nat /\ DOMAIN new = 1..Len(new)
    BY <2>2, PlacesAre
  <2> HIDE DEF h
  <2>4. Len(new) = h
    BY <2>1, <2>2, <2>3
  <2> QED
    BY <2>1, <2>2, <2>4
<1>3. /\ \A e \in Places(new) : /\ e[1] \in DOMAIN new /\ e[1] \in Nat \ {0} /\ CellAt(new, e).down \in Nat \ {0}
                                /\ CellAt(new, e).across \in Nat \ {0}
  BY <1>2, PlacesAre DEF CellSet
<1>4. \A s \in g.slots : s[1] \in 1..h /\ s[2] \in 1..w /\ s = <<s[1], s[2]>>
  <2>1. \A s \in g.slots : s[1] \in 1..h /\ s[2] \in 1..w
    BY SizeIs DEF Planned
  <2>2. g.slots \subseteq Slots
    BY GridIs DEF Planned, Laid
  <2> QED
    BY <2>1, <2>2 DEF Slots
<1>5. /\ \A s \in g.slots : \E f \in Places(rows) : s \in Area(rows, f, g.start[f])
      /\ \A f \in Places(rows) : Area(rows, f, g.start[f]) \subseteq g.slots /\ g.start[f] \in Nat \ {0}
      /\ \A e, f \in Places(rows) : e # f => Area(rows, e, g.start[e]) \cap Area(rows, f, g.start[f]) = {}
  <2>1. \A f \in Places(rows) : g.start[f] # None /\ g.start[f] \in Nat \ {0}
    BY MovedIs DEF Planned
  <2> QED
    BY <2>1 DEF Planned, Laid
<1> HIDE DEF w, h
<1>6. ASSUME NEW e \in Places(new)
      PROVE  /\ CellAt(new, e).col \in Nat \ {0} /\ e[1] + CellAt(new, e).down - 1 <= h
             /\ CellAt(new, e).col + CellAt(new, e).across - 1 <= w
  <2> DEFINE i == e[1]
             col == CellAt(new, e).col
             down == CellAt(new, e).down
             across == CellAt(new, e).across
  <2>1. i \in Nat \ {0} /\ i \in 1..h /\ down \in Nat \ {0} /\ across \in Nat \ {0}
    BY <1>2, <1>3
  <2>2. CASE FillsPlace(g, new, e)
    <3>1. col \in 1..w /\ across = 1 /\ down = 1
      BY <2>2 DEF FillsPlace, Fills, w
    <3> HIDE DEF i, col, down, across
    <3> QED
      BY <1>2, <2>1, <3>1 DEF i, col, down, across
  <2>3. CASE \E f \in Places(rows) : CameFrom(rows, g, new, e, f)
    <3>1. PICK f \in Places(rows) : CameFrom(rows, g, new, e, f)
      BY <2>3
    <3>2. col = g.start[f] /\ f[1] = i /\ CellAt(rows, f).down = down /\ CellAt(rows, f).across = across
      BY <3>1, MovedIs DEF CameFrom
    <3> DEFINE r == i + down - 1
               d == col + across - 1
               s == <<r, d>>
    <3>3. col \in Nat \ {0}
      BY <1>5, <3>2
    <3> HIDE DEF i, col, down, across
    <3>4. r \in Nat /\ d \in Nat /\ i <= r /\ r < i + down /\ col <= d /\ d < col + across
      BY <2>1, <3>3
    <3> HIDE DEF r, d
    <3>5. <<r, d>> \in Area(rows, f, col)
      BY <3>2, <3>3, <3>4, AreaIs
    <3>6. s \in g.slots
      BY <1>5, <3>2, <3>5
    <3>7. s[1] \in 1..h /\ s[2] \in 1..w
      BY <1>4, <3>6
    <3>8. r <= h /\ d <= w
      BY <1>2, <3>4, <3>7
    <3> QED
      BY <3>3, <3>8 DEF r, d, i, col, down, across
  <2> QED
    BY <1>1, <2>2, <2>3
<1>7. ASSUME NEW d \in Places(new), NEW e \in Places(new), d # e
      PROVE  AreaAt(new, d) \cap AreaAt(new, e) = {}
  <2>1. ASSUME NEW f \in Places(rows), NEW x \in Places(new), NEW y \in Places(new),
               CameFrom(rows, g, new, x, f), FillsPlace(g, new, y)
        PROVE  AreaAt(new, x) \cap AreaAt(new, y) = {}
    <3>1. AreaAt(new, x) \subseteq g.slots
      BY <1>5, <2>1 DEF CameFrom
    <3> QED
      BY <2>1, <3>1 DEF FillsPlace
  <2>2. CASE FillsPlace(g, new, d) /\ FillsPlace(g, new, e)
    <3>1. d[1] # e[1] \/ CellAt(new, d).col # CellAt(new, e).col
      BY <1>1, <1>7
    <3> QED
      BY <2>2, <3>1 DEF FillsPlace
  <2>3. CASE FillsPlace(g, new, d) /\ \E f \in Places(rows) : CameFrom(rows, g, new, e, f)
    BY <2>1, <2>3
  <2>4. CASE FillsPlace(g, new, e) /\ \E f \in Places(rows) : CameFrom(rows, g, new, d, f)
    BY <2>1, <2>4
  <2>5. CASE (\E f \in Places(rows) : CameFrom(rows, g, new, d, f)) /\ \E f \in Places(rows) : CameFrom(rows, g, new, e, f)
    <3>1. PICK f \in Places(rows) : CameFrom(rows, g, new, d, f)
      BY <2>5
    <3>2. PICK k \in Places(rows) : CameFrom(rows, g, new, e, k)
      BY <2>5
    <3>3. f # k
      <4> SUFFICES ASSUME f = k PROVE FALSE
        OBVIOUS
      <4>1. d[1] = e[1] /\ CellAt(new, d) = CellAt(new, e)
        BY <3>1, <3>2 DEF CameFrom
      <4> QED
        BY <1>1, <1>7, <4>1
    <3> QED
      BY <1>5, <3>1, <3>2, <3>3 DEF CameFrom
  <2> QED
    BY <1>1, <2>2, <2>3, <2>4, <2>5
<1>8. ASSUME NEW r \in DOMAIN new, NEW c \in 1..w
      PROVE  \E e \in Places(new) : <<r, c>> \in AreaAt(new, e)
  <2>1. CASE <<r, c>> \in g.slots
    <3>1. PICK f \in Places(rows) : <<r, c>> \in Area(rows, f, g.start[f])
      BY <1>5, <2>1
    <3>2. PICK e \in Places(new) : CameFrom(rows, g, new, e, f)
      BY <1>1
    <3> QED
      BY <3>1, <3>2 DEF CameFrom
  <2>2. CASE <<r, c>> \notin g.slots
    <3>1. PICK e \in Places(new) : e[1] = r /\ FillsPlace(g, new, e) /\ CellAt(new, e).col = c
      BY <1>1, <2>2
    <3> QED
      BY <3>1 DEF FillsPlace
  <2> QED
    BY <2>1, <2>2
<1>9. Tiles(new, w)
  BY <1>2, <1>6, <1>7, <1>8 DEF Tiles
<1> QED
  BY <1>9 DEF w

LEMMA CompleteSettles ==
  ASSUME NEW t, NEW rows, Gathered(t, rows), rows # << >>, NEW g, Planned(rows, g), NEW new, Complete(rows, g, new)
  PROVE  Settled(t, new)
<1>1. rows \in Seq(TableRow)
  BY DEF Gathered
<1>2. /\ \A e \in Places(new) : FillsPlace(g, new, e) \/ \E f \in Places(rows) : CameFrom(rows, g, new, e, f)
      /\ \A f \in Places(rows) : \E e \in Places(new) : CameFrom(rows, g, new, e, f)
      /\ \A d, e \in Places(new) : d[1] = e[1] /\ CellAt(new, d).col = CellAt(new, e).col => d = e
  BY <1>1, OriginsAre
<1>3. ASSUME NEW e \in Places(new), NEW f \in Places(rows), CameFrom(rows, g, new, e, f)
      PROVE  /\ NodesAt(new, e) = NodesAt(rows, f) /\ CellAt(new, e).col = g.start[f]
             /\ new[e[1]].number = rows[f[1]].number
  <2>1. CellAt(new, e) = Moved(rows, g, f) /\ e[1] = f[1]
    BY <1>3 DEF CameFrom
  <2>2. Moved(rows, g, f).nodes = CellAt(rows, f).nodes /\ Moved(rows, g, f).col = g.start[f]
    BY <1>1, MovedIs
  <2>3. f[1] \in DOMAIN rows
    BY <1>1, PlacesAre
  <2>4. new[f[1]].number = rows[f[1]].number
    BY <2>3 DEF Complete
  <2> QED
    BY <2>1, <2>2, <2>4 DEF NodesAt
<1>4. \A e \in Places(new) : FillsPlace(g, new, e) => NodesAt(new, e) = {}
  <2>1. Range(<< >>) = {}
    BY DEF Range
  <2> QED
    BY <2>1 DEF FillsPlace, Fills, NodesAt
<1>5. ASSUME NEW d \in Places(new), NEW e \in Places(new), d # e
      PROVE  NodesAt(new, d) \cap NodesAt(new, e) = {}
  <2>1. CASE FillsPlace(g, new, d) \/ FillsPlace(g, new, e)
    BY <1>4, <2>1
  <2>2. CASE (\E f \in Places(rows) : CameFrom(rows, g, new, d, f)) /\ \E f \in Places(rows) : CameFrom(rows, g, new, e, f)
    <3>1. PICK f \in Places(rows) : CameFrom(rows, g, new, d, f)
      BY <2>2
    <3>2. PICK k \in Places(rows) : CameFrom(rows, g, new, e, k)
      BY <2>2
    <3>3. f # k
      <4> SUFFICES ASSUME f = k PROVE FALSE
        OBVIOUS
      <4>1. d[1] = e[1] /\ CellAt(new, d) = CellAt(new, e)
        BY <3>1, <3>2 DEF CameFrom
      <4> QED
        BY <1>2, <1>5, <4>1
    <3>4. NodesAt(rows, f) \cap NodesAt(rows, k) = {}
      BY <3>3 DEF Gathered
    <3> QED
      BY <1>3, <3>1, <3>2, <3>4
  <2> QED
    BY <1>2, <2>1, <2>2
<1>6. ASSUME NEW d \in TaggedIn(t)
      PROVE  \E e \in Places(new) :
                /\ tags[d].node \in NodesAt(new, e) /\ new[e[1]].number = tags[tags[d].parent].name
                /\ CellOf(d).col \in {None, CellAt(new, e).col}
  <2>1. PICK f \in Places(rows) : /\ tags[d].node \in NodesAt(rows, f)
                                  /\ rows[f[1]].number = tags[tags[d].parent].name
                                  /\ CellAt(rows, f).col = CellOf(d).col
    BY DEF Gathered
  <2>2. PICK e \in Places(new) : CameFrom(rows, g, new, e, f)
    BY <1>2
  <2>3. CellAt(rows, f).col \in {None, g.start[f]}
    BY DEF Planned, Laid
  <2> QED
    BY <1>3, <2>1, <2>2, <2>3
<1>7. new \in Seq(TableRow)
  BY DEF Complete
<1> QED
  BY <1>5, <1>6, <1>7 DEF Settled

(* Sections do not move a cell.                                            *)
LEMMA TilesStay ==
  ASSUME NEW rows, NEW width, Tiles(rows, width), NEW new, SamePlaces(rows, new)
  PROVE  Tiles(new, width)
<1>1. rows \in Seq(TableRow) /\ new \in Seq(TableRow) /\ DOMAIN new = DOMAIN rows
  BY DEF Tiles, SamePlaces
<1>2. /\ Places(new) = Places(rows)
      /\ \A e \in Places(rows) : /\ CellAt(new, e).col = CellAt(rows, e).col
                                 /\ CellAt(new, e).across = CellAt(rows, e).across
                                 /\ CellAt(new, e).down = CellAt(rows, e).down
  BY <1>1, PlacesStay
<1>3. \A e \in Places(rows) : AreaAt(new, e) = AreaAt(rows, e)
  BY <1>2 DEF AreaAt, Area, Rectangle
<1>4. Len(new) = Len(rows)
  <2>1. Len(rows) \in Nat /\ DOMAIN rows = 1..Len(rows) /\ Len(new) \in Nat /\ DOMAIN new = 1..Len(new)
    BY <1>1, PlacesAre
  <2> QED
    BY <1>1, <2>1
<1>5. \A e \in Places(new) : /\ CellAt(new, e).col \in Nat \ {0}
                             /\ e[1] + CellAt(new, e).down - 1 <= Len(new)
                             /\ CellAt(new, e).col + CellAt(new, e).across - 1 <= width
  BY <1>2, <1>4 DEF Tiles
<1>6. \A e, f \in Places(new) : e # f => AreaAt(new, e) \cap AreaAt(new, f) = {}
  BY <1>2, <1>3 DEF Tiles
<1>7. \A r \in DOMAIN new, c \in 1..width : \E e \in Places(new) : <<r, c>> \in AreaAt(new, e)
  BY <1>1, <1>2, <1>3 DEF Tiles
<1>8. width \in Nat
  BY DEF Tiles
<1> QED
  BY <1>1, <1>5, <1>6, <1>7, <1>8 DEF Tiles

LEMMA SettledStays ==
  ASSUME NEW t, NEW rows, Settled(t, rows), NEW new, SamePlaces(rows, new)
  PROVE  Settled(t, new)
<1>1. rows \in Seq(TableRow) /\ new \in Seq(TableRow)
  BY DEF Settled, SamePlaces
<1>2. /\ Places(new) = Places(rows)
      /\ \A e \in Places(rows) : /\ new[e[1]].number = rows[e[1]].number
                                 /\ NodesAt(new, e) = NodesAt(rows, e)
                                 /\ CellAt(new, e).col = CellAt(rows, e).col
  BY <1>1, PlacesStay
<1>3. \A e, f \in Places(new) : e # f => NodesAt(new, e) \cap NodesAt(new, f) = {}
  BY <1>2 DEF Settled
<1>4. ASSUME NEW d \in TaggedIn(t)
      PROVE  \E e \in Places(new) :
                /\ tags[d].node \in NodesAt(new, e) /\ new[e[1]].number = tags[tags[d].parent].name
                /\ CellOf(d).col \in {None, CellAt(new, e).col}
  <2>1. PICK e \in Places(rows) :
                /\ tags[d].node \in NodesAt(rows, e) /\ rows[e[1]].number = tags[tags[d].parent].name
                /\ CellOf(d).col \in {None, CellAt(rows, e).col}
    BY DEF Settled
  <2> QED
    BY <1>2, <2>1
<1> QED
  BY <1>1, <1>3, <1>4 DEF Settled

(* The tables, pass by pass.                                               *)
TableSet == [rows : Seq(TableRow), width : Nat, review : BOOLEAN]

GatheredTable(t, T) == T \in TableSet /\ T.width = 0 /\ ~T.review /\ Gathered(t, T.rows)

Gridded(t, T) == /\ T \in TableSet
                 /\ T.review => SpansGap(T.rows) \/ Clash(T.rows)
                 /\ ~T.review => Tiles(T.rows, T.width) /\ Settled(t, T.rows)

Headed(rows) ==
  (\E i \in DOMAIN rows : rows[i].section = "head") => \E i \in DOMAIN rows : rows[i].section = "body"

TablesInv ==
  /\ step \in Written => FillsIn(tags)
  /\ step \in {"fragments", "sections"} => \A t \in DOMAIN tables : \A T \in {tables[t]} : GatheredTable(t, T)
  /\ step \in {"grid", "finished"} => \A t \in DOMAIN tables : \A T \in {tables[t]} : Gridded(t, T)
  /\ step = "finished" => \A t \in DOMAIN tables : \A T \in {tables[t]} : ~T.review => Headed(T.rows)

LEMMA RowsChange ==
  ASSUME NEW T \in TableSet, NEW new \in Seq(TableRow)
  PROVE  /\ [T EXCEPT !.rows = new] \in TableSet /\ [T EXCEPT !.rows = new].rows = new
         /\ [T EXCEPT !.rows = new].width = T.width /\ [T EXCEPT !.rows = new].review = T.review
<1> DEFINE R == Seq(TableRow)
           N == Nat
           U == [T EXCEPT !.rows = new]
<1>1. T \in [rows : R, width : N, review : BOOLEAN] /\ new \in R
  BY DEF TableSet
<1> HIDE DEF R, N
<1>2. U \in [rows : R, width : N, review : BOOLEAN] /\ U.rows = new /\ U.width = T.width /\ U.review = T.review
  BY <1>1
<1> QED
  BY <1>2 DEF TableSet, R, N

LEMMA ReviewIs ==
  ASSUME NEW T \in TableSet
  PROVE  /\ [T EXCEPT !.review = TRUE] \in TableSet /\ [T EXCEPT !.review = TRUE].rows = T.rows
         /\ [T EXCEPT !.review = TRUE].review = TRUE
<1> DEFINE R == Seq(TableRow)
           N == Nat
           U == [T EXCEPT !.review = TRUE]
<1>1. T \in [rows : R, width : N, review : BOOLEAN]
  BY DEF TableSet
<1> HIDE DEF R, N
<1>2. U \in [rows : R, width : N, review : BOOLEAN] /\ U.rows = T.rows /\ U.review = TRUE
  BY <1>1
<1> QED
  BY <1>2 DEF TableSet, R, N

(* What is in the rows is not about the state but for the tags.            *)
LEMMA TablesStay ==
  ASSUME UNCHANGED <<text, tags>>, NEW t, NEW T
  PROVE  /\ GatheredTable(t, T)' <=> GatheredTable(t, T)
         /\ Gridded(t, T)' <=> Gridded(t, T)
<1>1. TaggedIn(t)' = TaggedIn(t)
  BY DEF TaggedIn
<1>2. \A d : CellOf(d)' = CellOf(d)
  BY DEF CellOf
<1>3. \A rows : Gathered(t, rows)' <=> Gathered(t, rows)
  BY <1>1, <1>2 DEF Gathered
<1>4. \A rows : Settled(t, rows)' <=> Settled(t, rows)
  BY <1>1, <1>2 DEF Settled
<1>5. GatheredTable(t, T)' <=> GatheredTable(t, T)
  BY <1>3 DEF GatheredTable
<1>6. Gridded(t, T)' <=> Gridded(t, T)
  BY <1>4 DEF Gridded
<1> QED
  BY <1>5, <1>6

Tabling == {"fragments", "sections", "grid", "finished"}

LEMMA StepsToTables ==
  ASSUME [GridNext]_allVars
  PROVE  /\ step' \in Tabling => \/ MergeFragments /\ step' = "fragments"
                                 \/ AssignSections /\ step' = "sections"
                                 \/ NormalizeRegularity /\ step' = "grid"
                                 \/ FinishTables /\ step' = "finished"
                                 \/ UNCHANGED <<step, tagVars, tables>>
<1>1. CASE UNCHANGED allVars
  BY <1>1 DEF allVars, pipelineVars, readingVars
<1>2. CASE MergeFragments \/ AssignSections \/ NormalizeRegularity \/ FinishTables
  BY <1>2 DEF MergeFragments, AssignSections, NormalizeRegularity, FinishTables, Pass
<1>3. CASE PageNext /\ UNCHANGED tagVars
  <2>1. step' \in Untagged
    BY <1>3 DEF PageNext, AnalyzePage, InferDocument, MergeParagraphs, MergeFails, Merge, Order, Next,
                AssignLines, Sort, Fill, Place, Finish, Nest, Write, OrderFails, Recover,
                Untagged, OnPage, Sorting
  <2> QED
    BY <2>1 DEF Untagged, OnPage, Sorting, Tabling
<1>4. CASE BeginTagging
  <2>1. step' = "tagging"
    BY <1>4 DEF BeginTagging
  <2> QED
    BY <2>1 DEF Tabling
<1>5. CASE TagStep
  <2>1. step' \in {"tagging", "review"}
    BY <1>5, TagStepReads
  <2> QED
    BY <2>1 DEF Tabling
<1> QED
  BY <1>1, <1>2, <1>3, <1>4, <1>5 DEF GridNext, TagNext, TagStep

LEMMA TablesInvStarts == GridInit => TablesInv
<1> SUFFICES ASSUME GridInit PROVE TablesInv
  OBVIOUS
<1>1. NothingTagged /\ tables = << >>
  BY DEF GridInit, TagInit
<1>2. tags = << >>
  BY <1>1 DEF NothingTagged
<1>3. FillsIn(tags)
  BY <1>2 DEF FillsIn
<1>4. DOMAIN tables = {}
  BY <1>1
<1> QED
  BY <1>3, <1>4 DEF TablesInv

LEMMA FillsAreKept ==
  ASSUME TextInv, TablesInv, [GridNext]_allVars
  PROVE  (step \in Written => FillsIn(tags))'
<1> SUFFICES ASSUME step' \in Written PROVE FillsIn(tags')
  OBVIOUS
<1>1. CASE BeginTagging
  <2>1. step \in {"ordered", "fallback"} /\ UNCHANGED tags
    BY <1>1 DEF BeginTagging
  <2>2. tags' = << >>
    BY <2>1 DEF TextInv, NothingTagged, Untagged, Sorting
  <2> QED
    BY <2>2 DEF FillsIn
<1>2. CASE TagStep
  <2>1. step = "tagging" /\ step' = "tagging"
    BY <1>2, TagStepReads DEF Written
  <2>2. TagInv /\ FillsIn(tags)
    BY <2>1 DEF TextInv, TablesInv, Written
  <2> QED
    BY <1>2, <2>1, <2>2, StepFills
<1>3. CASE UNCHANGED tagVars /\ (step' \in Written => step \in Written)
  <2>1. FillsIn(tags) /\ tags' = tags
    BY <1>3 DEF TablesInv, tagVars
  <2> QED
    BY <2>1
<1> QED
  BY <1>1, <1>2, <1>3, StepsOfTagging

(* The passes, on one table.                                               *)
LEMMA FragmentsAreRead ==
  ASSUME TagInv, FillsIn(tags), NEW t \in Tables, NEW aligned
  PROVE  GatheredTable(t, [rows |-> [k \in DOMAIN ChildrenOf(t) |-> ReadRow(ChildrenOf(t)[k], aligned)], width |-> 0, review |-> FALSE])
<1> DEFINE rows == [k \in DOMAIN ChildrenOf(t) |-> ReadRow(ChildrenOf(t)[k], aligned)]
           T == [rows |-> rows, width |-> 0, review |-> FALSE]
<1>1. Gathered(t, rows)
  BY TableIsRead DEF Tables
<1>2. rows \in Seq(TableRow)
  BY <1>1 DEF Gathered
<1> HIDE DEF rows
<1>3. T \in TableSet /\ T.width = 0 /\ T.review = FALSE /\ T.rows = rows
  BY <1>2 DEF TableSet
<1> HIDE DEF T
<1>4. GatheredTable(t, T)
  BY <1>1, <1>3 DEF GatheredTable
<1> QED
  BY <1>4 DEF T, rows

LEMMA SectionsAreRead ==
  ASSUME NEW t, NEW T, GatheredTable(t, T)
  PROVE  GatheredTable(t, [T EXCEPT !.rows = Sectioned(T.rows)])
<1> DEFINE new == Sectioned(T.rows)
           U == [T EXCEPT !.rows = new]
<1>1. T \in TableSet /\ Gathered(t, T.rows) /\ T.rows \in Seq(TableRow)
  BY DEF GatheredTable, Gathered
<1>2. Gathered(t, new)
  BY <1>1, SectionedIs, GatheredStays
<1>3. new \in Seq(TableRow)
  BY <1>2 DEF Gathered
<1> HIDE DEF new
<1>4. U \in TableSet /\ U.rows = new /\ U.width = T.width /\ U.review = T.review
  BY <1>1, <1>3, RowsChange
<1> HIDE DEF U
<1>5. GatheredTable(t, U)
  BY <1>2, <1>4 DEF GatheredTable
<1> QED
  BY <1>5 DEF U, new

LEMMA EmptyTable ==
  ASSUME NEW t, NEW rows, Gathered(t, rows), rows = << >>
  PROVE  Tiles(rows, 0) /\ Settled(t, rows)
<1>1. Places(rows) = {} /\ DOMAIN rows = {}
  BY DEF Places
<1>2. rows \in Seq(TableRow)
  BY DEF Gathered
<1>3. Tiles(rows, 0)
  BY <1>1, <1>2 DEF Tiles
<1>4. Settled(t, rows)
  BY <1>1, <1>2 DEF Gathered, Settled
<1> QED
  BY <1>3, <1>4

LEMMA GridIsMade ==
  ASSUME NEW t, NEW T, GatheredTable(t, T)
  PROVE  Gridded(t, CASE T.rows = << >> -> T
                      [] T.rows # << >> /\ Reserved(T.rows).conflict -> [T EXCEPT !.review = TRUE]
                      [] OTHER -> Completed(T.rows, PlanGrid(T.rows)))
<1> DEFINE rows == T.rows
           g == PlanGrid(rows)
           C == Completed(rows, g)
           R == [T EXCEPT !.review = TRUE]
           U == CASE rows = << >> -> T
                  [] rows # << >> /\ Reserved(rows).conflict -> R
                  [] OTHER -> C
<1>1. T \in TableSet /\ T.width = 0 /\ ~T.review /\ Gathered(t, rows) /\ rows \in Seq(TableRow)
  BY DEF GatheredTable, Gathered
<1>2. CASE rows = << >>
  <2>1. U = T
    BY <1>2
  <2>2. Tiles(rows, 0) /\ Settled(t, rows)
    BY <1>1, <1>2, EmptyTable
  <2>3. Gridded(t, T)
    BY <1>1, <2>2 DEF Gridded
  <2> HIDE DEF U
  <2> QED
    BY <2>1, <2>3 DEF U
<1>3. CASE rows # << >> /\ Reserved(rows).conflict
  <2>1. U = R
    BY <1>3
  <2>2. R \in TableSet /\ R.rows = rows /\ R.review
    BY <1>1, ReviewIs
  <2>3. SpansGap(rows) \/ Clash(rows)
    BY <1>1, <1>3, ReservedIs DEF ReservedTo
  <2> HIDE DEF R
  <2>4. Gridded(t, R)
    BY <2>2, <2>3 DEF Gridded
  <2> HIDE DEF U
  <2> QED
    BY <2>1, <2>4 DEF U, R
<1>4. CASE rows # << >> /\ ~Reserved(rows).conflict
  <2>1. U = C
    BY <1>4
  <2>2. Planned(rows, g)
    BY <1>1, <1>4, PlannedIs
  <2> DEFINE new == C.rows
             w == C.width
  <2>3. Complete(rows, g, new) /\ w = WidthOf(g) /\ C.review = FALSE /\ C = [rows |-> new, width |-> w, review |-> C.review]
    <3> HIDE DEF g, rows
    <3> QED
      BY <1>1, <1>4, <2>2, TableIsComplete DEF rows
  <2>4. Tiles(new, w) /\ Settled(t, new)
    <3> HIDE DEF g, new, w
    <3> QED
      BY <1>1, <1>4, <2>2, <2>3, CompleteTiles, CompleteSettles
  <2>5. new \in Seq(TableRow) /\ w \in Nat
    BY <2>4 DEF Tiles
  <2> HIDE DEF C, U
  <2>6. C \in TableSet
    <3> DEFINE s == Seq(TableRow)
               v == C.review
    <3>1. new \in s /\ w \in Nat /\ v \in BOOLEAN /\ C = [rows |-> new, width |-> w, review |-> v]
      BY <2>3, <2>5
    <3> HIDE DEF s, new, w, v
    <3>2. C \in [rows : s, width : Nat, review : BOOLEAN]
      BY <3>1
    <3> QED
      BY <3>2 DEF TableSet, s
  <2>7. Gridded(t, C)
    BY <2>3, <2>4, <2>6 DEF Gridded
  <2> QED
    BY <2>1, <2>7 DEF U, C, g
<1> QED
  BY <1>2, <1>3, <1>4

LEMMA TableIsFinished ==
  ASSUME NEW t, NEW T, Gridded(t, T), ~T.review
  PROVE  /\ Gridded(t, [T EXCEPT !.rows = Flattened(Sectioned(T.rows))])
         /\ Headed([T EXCEPT !.rows = Flattened(Sectioned(T.rows))].rows)
<1> DEFINE rows == T.rows
           mid == Sectioned(rows)
           new == Flattened(mid)
           U == [T EXCEPT !.rows = new]
<1>1. T \in TableSet /\ rows \in Seq(TableRow) /\ Tiles(rows, T.width) /\ Settled(t, rows)
  BY DEF Gridded, Tiles
<1>2. SamePlaces(rows, mid) /\ Headed(mid)
  <2>1. DOMAIN mid = DOMAIN rows
    BY <1>1, SectionedIs DEF SamePlaces
  <2> QED
    BY <1>1, <2>1, SectionedIs DEF Headed
<1>3. mid \in Seq(TableRow)
  BY <1>2 DEF SamePlaces
<1> HIDE DEF mid
<1>4. SamePlaces(mid, new) /\ Headed(new)
  <2>1. SamePlaces(mid, new) /\ (new = mid \/ \A i \in DOMAIN mid : new[i].section = "none")
    BY <1>3, FlattenedIs
  <2>2. DOMAIN new = DOMAIN mid
    BY <2>1 DEF SamePlaces
  <2> QED
    BY <1>2, <2>1, <2>2 DEF Headed
<1>5. Tiles(new, T.width) /\ Settled(t, new) /\ new \in Seq(TableRow)
  BY <1>1, <1>2, <1>4, TilesStay, SettledStays DEF SamePlaces
<1> HIDE DEF new
<1>6. U \in TableSet /\ U.rows = new /\ U.width = T.width /\ U.review = T.review
  <2>1. T \in TableSet /\ new \in Seq(TableRow)
    BY <1>1, <1>5
  <2> QED
    BY <2>1, RowsChange
<1> HIDE DEF U
<1>7. Gridded(t, U) /\ Headed(U.rows)
  BY <1>4, <1>5, <1>6 DEF Gridded
<1> QED
  BY <1>7 DEF U, new, mid

LEMMA TablesInvIsKept ==
  ASSUME TextInv, TablesInv, [GridNext]_allVars
  PROVE  TablesInv'
<1>1. (step \in Written => FillsIn(tags))'
  BY FillsAreKept
<1>2. CASE step' \notin Tabling
  BY <1>1, <1>2 DEF TablesInv, Tabling
<1>3. CASE MergeFragments /\ step' = "fragments"
  <2>1. step = "tagging" /\ UNCHANGED tagVars
    BY <1>3 DEF MergeFragments, Pass
  <2>2. TagInv /\ FillsIn(tags) /\ UNCHANGED <<text, tags>>
    BY <2>1 DEF TextInv, TablesInv, Written, tagVars
  <2>3. PICK aligned : tables' = [t \in Tables |->
                         [rows |-> [k \in DOMAIN ChildrenOf(t) |-> ReadRow(ChildrenOf(t)[k], aligned)],
                          width |-> 0, review |-> FALSE]]
    BY <1>3 DEF MergeFragments
  <2>4. ASSUME NEW t \in DOMAIN tables', NEW T \in {tables'[t]} PROVE GatheredTable(t, T)'
    <3>1. t \in Tables /\ T = [rows |-> [k \in DOMAIN ChildrenOf(t) |-> ReadRow(ChildrenOf(t)[k], aligned)],
                               width |-> 0, review |-> FALSE]
      BY <2>3, <2>4
    <3>2. GatheredTable(t, T)
      BY <2>2, <3>1, FragmentsAreRead
    <3> QED
      BY <2>2, <3>2, TablesStay
  <2> QED
    BY <1>1, <1>3, <2>4 DEF TablesInv
<1>4. CASE AssignSections /\ step' = "sections"
  <2>1. step = "fragments" /\ UNCHANGED tagVars
    BY <1>4 DEF AssignSections, Pass
  <2>2. UNCHANGED <<text, tags>>
    BY <2>1 DEF tagVars
  <2>3. tables' = [t \in DOMAIN tables |-> [tables[t] EXCEPT !.rows = Sectioned(tables[t].rows)]]
    BY <1>4 DEF AssignSections
  <2>4. ASSUME NEW t \in DOMAIN tables', NEW T \in {tables'[t]} PROVE GatheredTable(t, T)'
    <3>1. t \in DOMAIN tables /\ T = [tables[t] EXCEPT !.rows = Sectioned(tables[t].rows)]
      BY <2>3, <2>4
    <3>2. GatheredTable(t, tables[t])
      BY <2>1, <3>1 DEF TablesInv
    <3>3. GatheredTable(t, T)
      BY <3>1, <3>2, SectionsAreRead
    <3> QED
      BY <2>2, <3>3, TablesStay
  <2> QED
    BY <1>1, <1>4, <2>4 DEF TablesInv
<1>5. CASE NormalizeRegularity /\ step' = "grid"
  <2>1. step = "sections" /\ UNCHANGED tagVars
    BY <1>5 DEF NormalizeRegularity, Pass
  <2>2. UNCHANGED <<text, tags>>
    BY <2>1 DEF tagVars
  <2>3. tables' = [t \in DOMAIN tables |->
                     CASE tables[t].rows = << >> -> tables[t]
                       [] tables[t].rows # << >> /\ Reserved(tables[t].rows).conflict -> [tables[t] EXCEPT !.review = TRUE]
                       [] OTHER -> Completed(tables[t].rows, PlanGrid(tables[t].rows))]
    BY <1>5 DEF NormalizeRegularity
  <2>4. ASSUME NEW t \in DOMAIN tables', NEW T \in {tables'[t]} PROVE Gridded(t, T)'
    <3>1. t \in DOMAIN tables
          /\ T = CASE tables[t].rows = << >> -> tables[t]
                   [] tables[t].rows # << >> /\ Reserved(tables[t].rows).conflict -> [tables[t] EXCEPT !.review = TRUE]
                   [] OTHER -> Completed(tables[t].rows, PlanGrid(tables[t].rows))
      BY <2>3, <2>4
    <3>2. GatheredTable(t, tables[t])
      BY <2>1, <3>1 DEF TablesInv
    <3>3. Gridded(t, T)
      BY <3>1, <3>2, GridIsMade
    <3> QED
      BY <2>2, <3>3, TablesStay
  <2> QED
    BY <1>1, <1>5, <2>4 DEF TablesInv
<1>6. CASE FinishTables /\ step' = "finished"
  <2>1. step = "grid" /\ UNCHANGED tagVars
    BY <1>6 DEF FinishTables, Pass
  <2>2. UNCHANGED <<text, tags>>
    BY <2>1 DEF tagVars
  <2>3. tables' = [t \in DOMAIN tables |->
                     IF tables[t].review THEN tables[t]
                     ELSE [tables[t] EXCEPT !.rows = Flattened(Sectioned(tables[t].rows))]]
    BY <1>6 DEF FinishTables
  <2>4. ASSUME NEW t \in DOMAIN tables', NEW T \in {tables'[t]}
        PROVE  Gridded(t, T)' /\ (~T.review => Headed(T.rows))
    <3>1. t \in DOMAIN tables
          /\ T = IF tables[t].review THEN tables[t]
                 ELSE [tables[t] EXCEPT !.rows = Flattened(Sectioned(tables[t].rows))]
      BY <2>3, <2>4
    <3>2. Gridded(t, tables[t])
      BY <2>1, <3>1 DEF TablesInv
    <3>3. Gridded(t, T) /\ (~T.review => Headed(T.rows))
      <4>1. CASE tables[t].review
        BY <3>1, <3>2, <4>1
      <4>2. CASE ~tables[t].review
        BY <3>1, <3>2, <4>2, TableIsFinished
      <4> QED
        BY <4>1, <4>2
    <3> QED
      BY <2>2, <3>3, TablesStay
  <2> QED
    BY <1>1, <1>6, <2>4 DEF TablesInv
<1>7. CASE UNCHANGED <<step, tagVars, tables>>
  <2>1. UNCHANGED <<text, tags>> /\ step' = step /\ tables' = tables
    BY <1>7 DEF tagVars
  <2>2. \A t, T : (GatheredTable(t, T)' <=> GatheredTable(t, T)) /\ (Gridded(t, T)' <=> Gridded(t, T))
    BY <2>1, TablesStay
  <2> QED
    BY <1>1, <2>1, <2>2 DEF TablesInv
<1> QED
  BY <1>2, <1>3, <1>4, <1>5, <1>6, <1>7, StepsToTables

(* What a finished table is.                                               *)
OneCellEach(rows, width) ==
  LET cells == Range(Entries(rows))
      Cell(e) == rows[e[1]].cells[e[2]]
      Covers(e, r, c) == /\ e[1] <= r /\ r < e[1] + Cell(e).down
                         /\ Cell(e).col <= c /\ c < Cell(e).col + Cell(e).across
  IN  /\ \A r \in DOMAIN rows : \A c \in 1..width : Cardinality({e \in cells : Covers(e, r, c)}) = 1
      /\ \A e \in cells : /\ e[1] + Cell(e).down - 1 <= Len(rows)
                          /\ Cell(e).col + Cell(e).across - 1 <= width

LEMMA TilingCovers ==
  ASSUME NEW rows, NEW width, Tiles(rows, width)
  PROVE  OneCellEach(rows, width)
<1> DEFINE cells == Range(Entries(rows))
           Covers(e, r, c) == /\ e[1] <= r /\ r < e[1] + CellAt(rows, e).down
                              /\ CellAt(rows, e).col <= c /\ c < CellAt(rows, e).col + CellAt(rows, e).across
<1>1. rows \in Seq(TableRow) /\ width \in Nat
  BY DEF Tiles
<1>2. cells = Places(rows) /\ Len(rows) \in Nat /\ DOMAIN rows = 1..Len(rows)
  BY <1>1, EntryIs, PlacesAre
<1> HIDE DEF cells
<1>3. ASSUME NEW r \in DOMAIN rows, NEW c \in 1..width
      PROVE  Cardinality({e \in cells : Covers(e, r, c)}) = 1
  <2>1. r \in Nat /\ c \in Nat
    BY <1>1, <1>2
  <2>2. ASSUME NEW e \in cells PROVE Covers(e, r, c) <=> <<r, c>> \in AreaAt(rows, e)
    <3> DEFINE col == CellAt(rows, e).col
    <3>1. e \in Places(rows) /\ col \in Nat \ {0}
      BY <1>2 DEF Tiles
    <3> HIDE DEF col
    <3>2. <<r, c>> \in Area(rows, e, col) <=> /\ e[1] <= r /\ r < e[1] + CellAt(rows, e).down
                                              /\ col <= c /\ c < col + CellAt(rows, e).across
      BY <1>1, <2>1, <3>1, AreaIs
    <3> QED
      BY <3>2 DEF AreaAt, col
  <2> HIDE DEF Covers
  <2>3. PICK d \in cells : <<r, c>> \in AreaAt(rows, d)
    BY <1>2 DEF Tiles
  <2>4. \A e \in cells : <<r, c>> \in AreaAt(rows, e) => e = d
    BY <1>2, <2>3 DEF Tiles
  <2>5. {e \in cells : Covers(e, r, c)} = {d}
    BY <2>2, <2>3, <2>4
  <2> QED
    BY <2>5, FS_Singleton
<1>4. \A e \in cells : /\ e[1] + CellAt(rows, e).down - 1 <= Len(rows)
                       /\ CellAt(rows, e).col + CellAt(rows, e).across - 1 <= width
  BY <1>2, SMTT(30) DEF Tiles
<1> QED
  BY <1>3, <1>4 DEF OneCellEach, CellAt, cells

Overlap(rows) ==
  LET cells == Range(Entries(rows))
      Cell(e) == rows[e[1]].cells[e[2]]
      Meet(e, f) == /\ e[1] < f[1] + Cell(f).down /\ f[1] < e[1] + Cell(e).down
                    /\ Cell(e).col < Cell(f).col + Cell(f).across
                    /\ Cell(f).col < Cell(e).col + Cell(e).across
  IN  \E e, f \in cells : e # f /\ None \notin {Cell(e).col, Cell(f).col} /\ Meet(e, f)

LEMMA ClashOverlaps ==
  ASSUME NEW rows \in Seq(TableRow), Clash(rows)
  PROVE  Overlap(rows)
<1>1. PICK e \in Places(rows), f \in Places(rows) :
         /\ e # f /\ CellAt(rows, e).col # None /\ CellAt(rows, f).col # None
         /\ Area(rows, e, CellAt(rows, e).col) \cap Area(rows, f, CellAt(rows, f).col) # {}
  BY DEF Clash
<1> DEFINE c == CellAt(rows, e).col
           d == CellAt(rows, f).col
           i == e[1]
           j == f[1]
           ed == CellAt(rows, e).down
           fd == CellAt(rows, f).down
           ea == CellAt(rows, e).across
           fa == CellAt(rows, f).across
<1>2. /\ c \in Nat \ {0} /\ d \in Nat \ {0} /\ i \in Nat /\ j \in Nat /\ ed \in Nat /\ fd \in Nat /\ ea \in Nat /\ fa \in Nat
  BY <1>1, PlacesAre DEF CellSet, None
<1>3. PICK s : s \in Area(rows, e, c) /\ s \in Area(rows, f, d)
  BY <1>1
<1> HIDE DEF c, d
<1>4. s \in Slots
  BY <1>2, <1>3, AreaIs
<1>5. PICK r \in Nat, k \in Nat : s = <<r, k>>
  BY <1>4 DEF Slots
<1>6. i <= r /\ r < i + ed /\ c <= k /\ k < c + ea
  BY <1>2, <1>3, <1>5, AreaIs
<1>7. j <= r /\ r < j + fd /\ d <= k /\ k < d + fa
  BY <1>2, <1>3, <1>5, AreaIs
<1>8. i < j + fd /\ j < i + ed /\ c < d + fa /\ d < c + ea
  <2> HIDE DEF i, j, ed, fd, ea, fa
  <2> QED
    BY <1>2, <1>6, <1>7
<1>9. e \in Range(Entries(rows)) /\ f \in Range(Entries(rows))
  BY EntryIs
<1>10. e # f /\ None \notin {c, d}
  BY <1>1 DEF c, d
<1> QED
  BY <1>8, <1>9, <1>10, ZenonT(40) DEF Overlap, CellAt, c, d

EachKept(t, rows) ==
  LET cells == Range(Entries(rows))
      Cell(e) == rows[e[1]].cells[e[2]]
      tagged == {i \in DOMAIN tags : tags[i].type = "TD" /\ tags[tags[i].parent].parent = t}
  IN  \A i \in tagged :
         LET own == {e \in cells : tags[i].node \in Range(Cell(e).nodes)}
         IN  /\ Cardinality(own) = 1
             /\ \A e \in own : /\ rows[e[1]].number = tags[tags[i].parent].name
                               /\ CellOf(i).col \in {None, Cell(e).col}

LEMMA SettledKeeps ==
  ASSUME NEW t, NEW rows, Settled(t, rows)
  PROVE  EachKept(t, rows)
<1> DEFINE cells == Range(Entries(rows))
<1>1. rows \in Seq(TableRow)
  BY DEF Settled
<1>2. cells = Places(rows)
  BY <1>1, EntryIs
<1> HIDE DEF cells
<1>3. ASSUME NEW i \in TaggedIn(t)
      PROVE  LET own == {e \in cells : tags[i].node \in NodesAt(rows, e)}
             IN  /\ Cardinality(own) = 1
                 /\ \A e \in own : /\ rows[e[1]].number = tags[tags[i].parent].name
                                   /\ CellOf(i).col \in {None, CellAt(rows, e).col}
  <2> DEFINE own == {e \in cells : tags[i].node \in NodesAt(rows, e)}
  <2>1. PICK d \in cells : /\ tags[i].node \in NodesAt(rows, d) /\ rows[d[1]].number = tags[tags[i].parent].name
                           /\ CellOf(i).col \in {None, CellAt(rows, d).col}
    BY <1>2 DEF Settled
  <2>2. \A e \in cells : tags[i].node \in NodesAt(rows, e) => e = d
    BY <1>2, <2>1 DEF Settled
  <2>3. own = {d}
    BY <2>1, <2>2
  <2> HIDE DEF own
  <2>4. Cardinality(own) = 1
    BY <2>3, FS_Singleton
  <2>5. \A e \in own : /\ rows[e[1]].number = tags[tags[i].parent].name
                       /\ CellOf(i).col \in {None, CellAt(rows, e).col}
    BY <2>1, <2>3
  <2> QED
    BY <2>4, <2>5 DEF own
<1> QED
  BY <1>3 DEF EachKept, TaggedIn, NodesAt, CellAt, cells

(* TablesAreTiled, of every table of every text and every page.            *)
THEOREM TablesTile == GridSpec => []TablesAreTiled
<1>1. TextInv /\ TablesInv => TablesAreTiled
  <2> SUFFICES ASSUME TablesInv, step = "finished", NEW t \in DOMAIN tables
               PROVE  IF tables[t].review THEN SpansGap(tables[t].rows) \/ Overlap(tables[t].rows)
                      ELSE /\ OneCellEach(tables[t].rows, tables[t].width) /\ EachKept(t, tables[t].rows)
                           /\ (\E r \in Range(tables[t].rows) : r.section = "head")
                                 => \E r \in Range(tables[t].rows) : r.section = "body"
    BY ZenonT(40) DEF TablesAreTiled, Overlap, OneCellEach, EachKept
  <2> DEFINE T == tables[t]
  <2>1. Gridded(t, T) /\ (~T.review => Headed(T.rows))
    BY DEF TablesInv
  <2> HIDE DEF T
  <2>2. CASE T.review
    <3>1. T.rows \in Seq(TableRow) /\ (SpansGap(T.rows) \/ Clash(T.rows))
      BY <2>1, <2>2 DEF Gridded, TableSet
    <3>2. SpansGap(T.rows) \/ Overlap(T.rows)
      BY <3>1, ClashOverlaps
    <3> QED
      BY <2>2, <3>2 DEF T
  <2>3. CASE ~T.review
    <3>1. Tiles(T.rows, T.width) /\ Settled(t, T.rows) /\ Headed(T.rows)
      BY <2>1, <2>3 DEF Gridded
    <3>2. OneCellEach(T.rows, T.width) /\ EachKept(t, T.rows)
      BY <3>1, TilingCovers, SettledKeeps
    <3>3. (\E r \in Range(T.rows) : r.section = "head") => \E r \in Range(T.rows) : r.section = "body"
      BY <3>1 DEF Headed, Range
    <3> QED
      BY <2>3, <3>2, <3>3 DEF T
  <2> QED
    BY <2>2, <2>3, SMTT(30)
<1>2. GridInit => TablesInv
  BY TablesInvStarts
<1>3. TextInv /\ TablesInv /\ [GridNext]_allVars => TablesInv'
  BY TablesInvIsKept
<1> QED
  BY <1>1, <1>2, <1>3, TextInvHolds, PTL DEF GridSpec, allVars
=============================================================================
