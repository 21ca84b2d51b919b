------------------------------ MODULE TagTree ------------------------------
(***************************************************************************)
(* modules/tag-builder: the nodes of a document, in their reading order    *)
(* (PageOrder), are nested into the tags of the PDF.  Headings open and    *)
(* close sections, items open and close lists inside lists, cells find     *)
(* their row and their table, labels their diagram, and a paragraph that   *)
(* was cut in two is put together again; what is ambiguous is refused.     *)
(*                                                                         *)
(* Left out: the options that are off by default (Title, Caption, section  *)
(* promotion, Layout), what goes into one tag (spans, markers, texts), and *)
(* the passes that work inside a finished table.                           *)
(***************************************************************************)
EXTENDS PageOrder

CONSTANT Texts   \* sets of documents that were ordered otherwise

(* A text is a sequence of nodes [role, level, group, of, page, row, cell]:*)
(* the level of a heading or an item; the group of a paragraph, an item, a *)
(* table or a diagram; the item this one continues, by its place in the    *)
(* text, or None; the page and the row of a cell, and what it declares of  *)
(* itself (TableGrid).  The group of a table is a sequence, so that one    *)
(* table can have the name of a fragment of another.                       *)
VARIABLES text,
          levels,    \* detectedToNormalized
          next,      \* how many nodes have been read
          tags,      \* [type, parent, node, name], parent None under the Document
          sections,  \* sectionStack: [level, tag]
          lists,     \* listStack: [level, tag, last, group]; << >> without activeList
          table,     \* activeTable and the state of its rows
          diagram    \* activeDiagram

tagVars == <<text, levels, next, tags, sections, lists, table, diagram>>
pipelineVars == <<readingVars, pageVars>>

NoTable == [tag |-> None, group |-> << >>, page |-> None, offset |-> 0, many |-> FALSE, rows |-> << >>]
NoDiagram == [group |-> None, parent |-> None, tag |-> None]

(* A text as the stages before leave it: the cells a table has on one page *)
(* come by rows (makeTableUnit sorts them), and an item is continued       *)
(* before the next one begins (makeListUnit sorts by item).                *)
PieceOK(n) ==
    /\ n.role \in {"Artifact", "H", "P", "Label", "LI", "Table", "TD"}
    /\ {n.level, n.page, n.row} \subseteq Int /\ n.of \in Nat
    /\ n.role = "LI" => n.level >= 1
    /\ n.role \in {"Table", "TD"} => n.group \in Seq(Int)
    /\ n.role = "TD" => n.page >= 1
    /\ n.cell \in [head : BOOLEAN, col : Nat, across : Nat \ {0}, down : Nat \ {0},
                   hint : {"none", "head", "body", "foot"}]

ByRows(t) == \A j \in DOMAIN t : \A i \in 1..(j - 1) :
    t[i].role = "TD" /\ t[j].role = "TD" /\ t[i].group = t[j].group /\ t[i].page = t[j].page
        => t[i].row <= t[j].row

ContinuedAtOnce(t) == \A j \in DOMAIN t : t[j].role = "LI" /\ t[j].of # None =>
    \A i \in (t[j].of + 1)..(j - 1) : ~(t[i].role = "LI" /\ t[i].of = None)

TextOK(t) == /\ t \in Seq(Range(t)) /\ \A n \in Range(t) : PieceOK(n)
             /\ ByRows(t) /\ ContinuedAtOnce(t)

ASSUME TagTreeAssumption == \A documents \in Texts : \A t \in documents : TextOK(t)

NothingTagged == /\ next = 0 /\ tags = << >> /\ sections = << >> /\ lists = << >>
                 /\ table = NoTable /\ diagram = NoDiagram

-----------------------------------------------------------------------------
(* buildHeadingNormalization: a level keeps the rank it was given when it  *)
(* was first met.                                                          *)
AtLeastOne(level) == IF level < 1 THEN 1 ELSE level

(* Mutant: the level below is not looked at.                               *)
InferredDeeper(level, known) ==
    LET above == {l \in DOMAIN known : l < level}
    IN  IF above = {} THEN 1 ELSE known[Max(above)] + 1

(* inferNormalizedHeadingLevel.                                            *)
Inferred(level, known) ==
    LET above == {l \in DOMAIN known : l < level}
        below == {l \in DOMAIN known : l > level}
        deeper == known[Max(above)] + 1
    IN  CASE above # {} /\ below # {} -> Min({deeper, known[Min(below)]})
          [] above # {} /\ below = {} -> deeper
          [] above = {} /\ below # {} -> AtLeastOne(known[Min(below)] - 1)
          [] OTHER -> 1

Normalization(nodes) ==
    FoldLeft(LAMBDA known, n :
                 IF n.role # "H" \/ n.level \in DOMAIN known THEN known
                 ELSE [l \in DOMAIN known \cup {n.level} |->
                          IF l = n.level THEN Inferred(l, known) ELSE known[l]],
             << >>, nodes)

-----------------------------------------------------------------------------
(* A cell may be a header (TH), and may declare its column, the columns    *)
(* and rows it spans and its section.                                      *)
PlainCell == [head |-> FALSE, col |-> None, across |-> 1, down |-> 1, hint |-> "none"]

(* What the ordered document says of a unit: a table is one cell.          *)
NodeOf(n) ==
    LET u == Unit(n)
        role == CASE u.phase # 1 -> "Artifact"
                  [] u.phase = 1 /\ u.level > 0 -> "H"
                  [] u.phase = 1 /\ u.level = 0 /\ u.priority = 3 -> "TD"
                  [] OTHER -> "P"
    IN  [role |-> role, level |-> u.level, of |-> None, page |-> 1, row |-> 0, cell |-> PlainCell,
         group |-> IF role = "TD" THEN <<n>>
                   ELSE IF role = "P" /\ page # NoPage THEN Paragraph[n] ELSE None]

BeginTagging ==
    /\ step \in {"ordered", "fallback"}
    /\ text' = [i \in DOMAIN result |-> NodeOf(result[i])]
    /\ levels' = Normalization(text')
    /\ step' = "tagging"
    /\ UNCHANGED <<doc, line, rank, waiting, ready, result, stack, outline, pageVars,
                   next, tags, sections, lists, table, diagram>>

(* The pipeline as far as the order, or a document that is only tagged.    *)
TagInit == \/ PageInit /\ text = << >> /\ levels = << >> /\ NothingTagged
           \/ /\ page = NoPage /\ doc = NoDocument /\ step = "tagging" /\ NothingInferred
              /\ \E documents \in Texts : text \in documents
              /\ levels = Normalization(text) /\ NothingTagged

This == text[next + 1]

Reads(role) == /\ step = "tagging" /\ next < Len(text) /\ This.role = role
               /\ next' = next + 1
               /\ UNCHANGED <<text, levels, doc, line, rank, waiting, ready, result, stack, outline, pageVars>>

Continue == UNCHANGED step

(* An error that asks for a review: nothing is written.                    *)
Refuse == step' = "review" /\ UNCHANGED <<tags, sections, lists, table, diagram>>

Tag(type, parent, node, name) == [type |-> type, parent |-> parent, node |-> node, name |-> name]
Leaf(type, parent) == Tag(type, parent, next + 1, None)

(* Mutant: what comes between two cells does not end their table.          *)
KeepsTable == UNCHANGED table

EndsTable == table' = NoTable
EndsLists == lists' = << >>
EndsDiagram == diagram' = NoDiagram

Container == IF sections = << >> THEN None ELSE sections[Len(sections)].tag

-----------------------------------------------------------------------------
(* Artifacts interrupt nothing.                                            *)
SkipArtifact == Reads("Artifact") /\ Continue /\ UNCHANGED <<tags, sections, lists, table, diagram>>

(* A label of a diagram goes into the section of its diagram.              *)
TagLabel ==
    /\ Reads("Label") /\ Continue
    /\ IF diagram.tag # None /\ diagram.group = This.group /\ diagram.parent = Container
       THEN tags' = Append(tags, Leaf("P", diagram.tag)) /\ UNCHANGED diagram
       ELSE /\ tags' = tags \o <<Tag("Sect", Container, None, None), Leaf("P", Len(tags) + 1)>>
            /\ diagram' = [group |-> This.group, parent |-> Container, tag |-> Len(tags) + 1]
    /\ EndsLists /\ EndsTable
    /\ UNCHANGED sections

(* A heading closes the sections that are not above it.                    *)
TagHeading ==
    /\ Reads("H") /\ Continue
    /\ LET level == levels[This.level]
           above == SubSeq(sections, 1, Max({0} \cup {i \in DOMAIN sections : sections[i].level < level}))
           parent == IF above = << >> THEN None ELSE above[Len(above)].tag
       IN  /\ tags' = tags \o <<Tag("Sect", parent, None, None), Leaf("H", Len(tags) + 1)>>
           /\ sections' = Append(above, [level |-> level, tag |-> Len(tags) + 1])
    /\ EndsLists /\ EndsTable /\ EndsDiagram

(* A further paragraph of an item goes into the body of that item.         *)
ContinueItem ==
    /\ Reads("LI") /\ This.of # None
    /\ LET items == {i \in DOMAIN tags : tags[i].type = "LI" /\ tags[i].node = This.of}
       IN  IF items = {} \/ lists = << >> THEN Refuse
           ELSE /\ Continue
                /\ tags' = Append(tags, Leaf("P", CHOOSE i \in items : TRUE))
                /\ EndsDiagram
                /\ UNCHANGED <<sections, lists, table>>

(* An item of another group at the first level begins a new list; one a    *)
(* level deeper begins a list in the body of the item before.              *)
StartsList == \/ lists = << >>
              \/ This.level = 1 /\ None \notin {This.group, lists[1].group} /\ This.group # lists[1].group

TagItem ==
    /\ Reads("LI") /\ This.of = None
    /\ LET started == IF StartsList THEN Append(tags, Tag("L", Container, None, None)) ELSE tags
           open == IF StartsList
                   THEN <<[level |-> 1, tag |-> Len(started), last |-> None, group |-> This.group]>>
                   ELSE SubSeq(lists, 1, Max({1} \cup {i \in DOMAIN lists : lists[i].level <= This.level}))
           top == open[Len(open)]
           nests == This.level > top.level
           nested == IF nests THEN Append(started, Tag("L", top.last, None, None)) ELSE started
           list == IF nests THEN Len(nested) ELSE top.tag
           outer == IF nests THEN open ELSE SubSeq(open, 1, Len(open) - 1)
       IN  IF nests /\ (top.last = None \/ This.level # top.level + 1) THEN Refuse
           ELSE /\ Continue
                /\ tags' = Append(nested, Leaf("LI", list))
                /\ lists' = Append(outer, [level |-> This.level, tag |-> list,
                                           last |-> Len(nested) + 1, group |-> top.group])
                /\ EndsTable /\ EndsDiagram
                /\ UNCHANGED sections

-----------------------------------------------------------------------------
TableNodes == {i \in DOMAIN text : text[i].role \in {"Table", "TD"}}
Emitted == {t.name : t \in {u \in Range(tags) : u.type = "Table"}}

(* Mutant: a fragment may take the name of a table that is still to come.  *)
FreshUnreserved(group) ==
    IF group \notin Emitted THEN group
    ELSE Append(group, CHOOSE k \in 2..(Len(text) + 2) :
                          /\ Append(group, k) \notin Emitted
                          /\ \A j \in 2..(k - 1) : Append(group, j) \in Emitted)

(* newTable: the second fragment of a table and later ones get a number    *)
(* of their own.                                                           *)
FreshName(group) ==
    LET taken == Emitted \cup {text[i].group : i \in TableNodes}
    IN  IF group \notin Emitted THEN group
        ELSE Append(group, CHOOSE k \in 2..(2 * Len(text) + 2) :
                              /\ Append(group, k) \notin taken
                              /\ \A j \in 2..(k - 1) : Append(group, j) \in taken)

NewTable(tag, group) == [NoTable EXCEPT !.tag = tag, !.group = group]

TagTable ==
    /\ Reads("Table") /\ Continue
    /\ tags' = Append(tags, Tag("Table", Container, next + 1, FreshName(This.group)))
    /\ table' = NewTable(Len(tags) + 1, This.group)
    /\ EndsLists /\ EndsDiagram
    /\ UNCHANGED sections

(* appendTableCell: the rows of a further page that begin again are        *)
(* counted on from the last one.                                           *)
TagCell ==
    /\ Reads("TD")
    /\ LET begins == table.tag = None \/ table.group # This.group
           begun == IF begins THEN Append(tags, Tag("Table", Container, None, FreshName(This.group))) ELSE tags
           t == IF begins THEN NewTable(Len(begun), This.group) ELSE table
           turned == t.page # This.page
           numbers == {r.number : r \in Range(t.rows)}
           offset == IF ~turned THEN t.offset
                     ELSE IF t.rows # << >> /\ This.row <= Max(numbers) THEN Max(numbers) + 1 - This.row ELSE 0
           many == t.many \/ (turned /\ t.rows # << >>)
           number == This.row + offset
           same == {r \in Range(t.rows) : r.page = This.page /\ r.row = This.row}
           row == [page |-> This.page, row |-> This.row, number |-> number, tag |-> Len(begun) + 1]
           now == [t EXCEPT !.page = This.page, !.offset = offset, !.many = many]
           goesBack == \/ t.page # None /\ This.page < t.page
                       \/ same = {} /\ many /\ \E n \in numbers : n >= number
       IN  IF goesBack THEN Refuse
           ELSE
              /\ Continue
              /\ IF same # {}
                 THEN /\ tags' = Append(begun, Leaf("TD", (CHOOSE r \in same : TRUE).tag))
                      /\ table' = now
                 ELSE /\ tags' = begun \o <<Tag("TR", t.tag, None, number), Leaf("TD", Len(begun) + 1)>>
                      /\ table' = [now EXCEPT !.rows = Append(t.rows, row)]
              /\ EndsLists /\ EndsDiagram
              /\ UNCHANGED sections

-----------------------------------------------------------------------------
FirstOfGroup(n) == IF text[n].role = "P" /\ text[n].group # None
                   THEN Min({m \in 1..n : text[m].role = "P" /\ text[m].group = text[n].group})
                   ELSE n

(* A paragraph that was begun is continued, in the container where it      *)
(* began.                                                                  *)
TagParagraph ==
    /\ Reads("P")
    /\ LET first == FirstOfGroup(next + 1)
           begun == CHOOSE i \in DOMAIN tags : tags[i].node = first
       IN  IF first # next + 1 /\ tags[begun].parent # Container THEN Refuse
           ELSE /\ Continue
                /\ tags' = Append(tags, IF first = next + 1 THEN Leaf("P", Container) ELSE Leaf("Span", begun))
                /\ EndsLists /\ EndsTable /\ EndsDiagram
                /\ UNCHANGED sections

TagNext == \/ PageNext /\ UNCHANGED tagVars
           \/ BeginTagging
           \/ SkipArtifact \/ TagLabel \/ TagHeading \/ ContinueItem \/ TagItem
           \/ TagTable \/ TagCell \/ TagParagraph

TagSpec == TagInit /\ [][TagNext]_<<pipelineVars, tagVars>>

-----------------------------------------------------------------------------
Tagged == step = "tagging" /\ next = Len(text)

(* A tag is read before what is in it, and that before its next sibling.   *)
Walk == LET First(S) == IF S = {} THEN None ELSE Min(S)
            from[i \in 0..Len(tags)] ==
                IF i = None THEN << >>
                ELSE (IF tags[i].node = None THEN << >> ELSE <<tags[i].node>>)
                     \o from[First({j \in DOMAIN tags : tags[j].parent = i})]
                     \o from[First({j \in (i + 1)..Len(tags) : tags[j].parent = tags[i].parent})]
        IN  from[First({j \in DOMAIN tags : tags[j].parent = None})]

(* Whoever reads the tags from the first to the last reads every node that *)
(* is no artifact once, in the reading order, except that the parts of a   *)
(* paragraph are read where the paragraph begins.                          *)
TagsFollowReading ==
    Tagged =>
        Walk = Sorted({n \in DOMAIN text : text[n].role # "Artifact"}, LAMBDA m, n :
                          \/ FirstOfGroup(m) < FirstOfGroup(n)
                          \/ FirstOfGroup(m) = FirstOfGroup(n) /\ m < n)

(* The section a heading opens lies only in sections of headings that the  *)
(* outline has above it too, and in all of those when no two levels were   *)
(* given one rank: renumbering never puts a heading under another.         *)
SectionsFollowOutline ==
    Tagged /\ outline # << >> =>
        LET heads == {i \in DOMAIN tags : tags[i].type = "H"}
            Head1(section) == CHOOSE i \in heads : tags[i].parent = section
            tagAbove[i \in heads] ==
                LET parent == tags[tags[i].parent].parent
                IN  IF parent = None THEN {} ELSE {tags[Head1(parent)].node} \cup tagAbove[Head1(parent)]
            above[n \in DOMAIN outline] ==
                IF outline[n] = None THEN {} ELSE {outline[n]} \cup above[outline[n]]
        IN  \A i \in heads :
                tags[i].node \in DOMAIN outline =>
                    /\ tagAbove[i] \subseteq above[tags[i].node]
                    /\ IsInjective(levels) => tagAbove[i] = above[tags[i].node]

(* However a table is cut into fragments and continued on other pages, the *)
(* names of the tables differ, the name of a table is that of a fragment   *)
(* of it and of no other, and the rows of a fragment are counted upwards.  *)
TablesKeepTheirNames ==
    Tagged =>
        LET tables == {i \in DOMAIN tags : tags[i].type = "Table"}
            rows == {i \in DOMAIN tags : tags[i].type = "TR"}
            cells == {i \in DOMAIN tags : tags[i].type = "TD"}
            groups == {text[n].group : n \in TableNodes}
            NameAbove(cell) == tags[tags[tags[cell].parent].parent].name
        IN  /\ \A i, j \in tables : tags[i].name = tags[j].name => i = j
            /\ groups \subseteq {tags[i].name : i \in tables}
            /\ \A i \in cells : NameAbove(i) \in groups => NameAbove(i) = text[tags[i].node].group
            /\ \A i, j \in rows : i < j /\ tags[i].parent = tags[j].parent => tags[i].name < tags[j].name
=============================================================================
