------------------------------ MODULE PageOrder ------------------------------
(***************************************************************************)
(* One page from its layout to its reading order: layout-analyzer finds    *)
(* the columns, semantic-engine infers regions and relations between       *)
(* nodes, paragraph-merger joins lines and rebinds the relations, and      *)
(* reading-order (ReadingOrder) sorts under them; accessibility-stage-     *)
(* plan.js decides what happens when a module fails.                       *)
(*                                                                         *)
(* A node is a line of text (P), a heading of one line (H) or a whole      *)
(* table (T), all of one height and font.  Left out: footnotes, captions,  *)
(* lists, forms, detached footers, rotated text, columns found from long   *)
(* prose lines, and relations between pages.                               *)
(***************************************************************************)
EXTENDS ReadingOrder

CONSTANTS Pages,       \* [nodes |-> <<[role, top, left, width], ...>>, unfinished |-> BOOLEAN]
          PageWidth,   \* in horizontal units of 36 points
          LineHeight,  \* the height of every node, in vertical units of 3 points
          RowHeight    \* of the merger's rows: 6 points

(* Nodes have boxes of numbers, and none stands above the one before it.   *)
PageOK(p) == /\ p.nodes \in Seq([role : {"H", "P", "T"}, top : Int, left : Int, width : Nat \ {0}])
             /\ \A m, n \in DOMAIN p.nodes : m < n => p.nodes[m].top <= p.nodes[n].top

ASSUME PageOrderAssumption ==
    /\ {PageWidth, LineHeight, RowHeight} \subseteq Nat \ {0}
    /\ LineHeight >= RowHeight
    /\ \A p \in Pages : PageOK(p)

VARIABLES page,       \* its nodes are numbered from top to bottom, left to right
          split,      \* four times columnSplitX, None on a page of one column
          hint,       \* columnHint
          region,     \* regionId
          relations,  \* the relations semantic-engine wrote
          lead        \* the node each node was merged into

pageVars == <<page, split, hint, region, relations, lead>>

Lines == DOMAIN page.nodes
Node(n) == page.nodes[n]
Is(role) == {n \in Lines : Node(n).role = role}
Top(n) == Node(n).top
Bottom(n) == Top(n) + LineHeight
Left(n) == Node(n).left
Right(n) == Left(n) + Node(n).width
Middle(n) == Left(n) + Right(n)

NoPage == [nodes |-> << >>, unfinished |-> FALSE]

NothingInferred == /\ split = None /\ hint = << >> /\ region = << >>
                   /\ relations = {} /\ lead = << >>
                   /\ line = << >> /\ rank = << >> /\ waiting = << >> /\ ready = << >>
                   /\ result = << >> /\ stack = << >> /\ outline = << >>

NoDocument == [units |-> << >>, relations |-> << >>]

(* The pipeline starts on a page, or the reading-order module is run alone *)
(* on a document that was written otherwise.                               *)
PageInit == /\ \/ page \in Pages /\ step = "page" /\ doc = NoDocument
               \/ page = NoPage /\ step = "lines" /\ doc \in Documents
            /\ NothingInferred

-----------------------------------------------------------------------------
(* detectColumns: the largest gap between the middles of the blocks, tables*)
(* excepted, is the gutter, if it is wide and has two blocks on each side. *)
Blocks == Sorted(Lines \ Is("T"), LAMBDA m, n :
              \/ Middle(m) < Middle(n)
              \/ Middle(m) = Middle(n) /\ m < n)

TwiceMedian(s) == LET sorted == SortSeq(s, <)
                      k == Len(s) \div 2
                  IN  IF Len(s) % 2 = 0 THEN sorted[k] + sorted[k + 1] ELSE 2 * sorted[k + 1]

Gutter ==
    LET blocks == Blocks
        gap == [i \in 1..(Len(blocks) - 1) |-> Middle(blocks[i + 1]) - Middle(blocks[i])]
        wide(g) == /\ 50 * g >= 16 * PageWidth
                   /\ 10 * g >= 19 * TwiceMedian([i \in DOMAIN blocks |-> Node(blocks[i]).width])
        largest == CHOOSE i \in DOMAIN gap : /\ \A j \in DOMAIN gap : gap[j] <= gap[i]
                                             /\ \A j \in 1..(i - 1) : gap[j] < gap[i]
    IN  IF Len(blocks) >= 4 /\ wide(gap[largest]) /\ largest >= 2 /\ Len(blocks) - largest >= 2
        THEN Middle(blocks[largest]) + Middle(blocks[largest + 1]) ELSE None

AnalyzePage == /\ step = "page"
               /\ split' = Gutter
               /\ hint' = [n \in Lines |-> IF split' = None \/ 2 * Middle(n) < split' THEN 0 ELSE 1]
               /\ step' = "layout"
               /\ UNCHANGED <<page, region, relations, lead, doc, line, rank, waiting, ready,
                              result, stack, outline>>

-----------------------------------------------------------------------------
Within(n, h) == Left(n) >= Left(h) /\ Right(n) <= Right(h)

(* contextOrderRelations: a heading over nodes of two columns comes after  *)
(* what is above it and before what is below it.                           *)
ContextRelations ==
    UNION {LET below == {n \in Lines : Top(n) >= Bottom(h) /\ Within(n, h)}
               above == {n \in Lines : Bottom(n) <= Top(h) /\ Within(n, h)}
           IN  IF Cardinality({hint[n] : n \in below}) < 2 THEN {}
               ELSE (above \X {h}) \cup ({h} \X below)
           : h \in Is("H")}

(* enrichDocumentRelations: a heading precedes the node that follows it in *)
(* its column.                                                             *)
HeadingRelations == {<<n, n + 1>> : n \in {h \in Is("H") : h + 1 \in Lines /\ hint[h] = hint[h + 1]}}

(* inferRegionsAndAnchors: on a page with text in both columns, what       *)
(* crosses the gutter cuts it into bands.                                  *)
TextInBothColumns == Cardinality({hint[n] : n \in Is("P")}) > 1

Spans == {n \in Lines \ Is("T") :
             /\ TextInBothColumns
             /\ \/ Node(n).role = "H" /\ 100 * Node(n).width >= 62 * PageWidth
                \/ 4 * Left(n) < split /\ 4 * Right(n) > split}

RegionOf(n) == IF n \in Spans THEN <<"span", n>>
               ELSE <<"band", Cardinality({s \in Spans : Bottom(s) <= Top(n)}), hint[n]>>

BandRelations ==
    LET spans == Sorted(Spans, <)
        Starts(b, n) == b > 0 => Top(n) >= Bottom(spans[b])
        Ends(b, n) == b < Len(spans) => Bottom(n) <= Top(spans[b + 1])
        band(b) == {n \in Lines \ Spans : Starts(b, n) /\ Ends(b, n)}
    IN  UNION {({spans[b]} \X band(b)) \cup (band(b - 1) \X {spans[b]}) : b \in DOMAIN spans}

(* refineSequenceBoundaries: an unfinished line is continued by the next   *)
(* one of its column when that is close below it.                          *)
Continues(m, n) ==
    /\ page.unfinished /\ m < n /\ {m, n} \subseteq Is("P")
    /\ hint[m] = hint[n] /\ \A k \in (m + 1)..(n - 1) : hint[k] # hint[n]
    /\ Left(m) = Left(n) /\ Top(n) >= Bottom(m) /\ 100 * (Top(n) - Bottom(m)) <= 55 * LineHeight

Continuations == {r \in Lines \X Lines : Continues(r[1], r[2])}

InferDocument ==
    /\ step = "layout"
    /\ region' = [n \in Lines |-> RegionOf(n)]
    /\ relations' = ContextRelations \cup HeadingRelations \cup BandRelations \cup Continuations
    /\ step' = "semantic"
    /\ UNCHANGED <<page, split, hint, lead, doc, line, rank, waiting, ready, result, stack, outline>>

-----------------------------------------------------------------------------
(* textStructureMerge: the lines of text are read row by row, from left to *)
(* right, and each is joined to the one before unless something separates  *)
(* them.                                                                   *)
Row(n) == Top(n) \div RowHeight

RowBefore(m, n) ==
    \/ Row(m) < Row(n)
    \/ Row(m) = Row(n) /\ (Left(m) < Left(n) \/ (Left(m) = Left(n) /\ m < n))

RowByRow == Sorted(Is("P"), RowBefore)

MedianGap == LET text == RowByRow
                 gaps == {i \in 2..Len(text) : Top(text[i]) > Bottom(text[i - 1])}
                 at == Sorted(gaps, <)
                 sorted == SortSeq([k \in DOMAIN at |-> Top(text[at[k]]) - Bottom(text[at[k] - 1])], <)
             IN  IF gaps = {} THEN LineHeight ELSE sorted[Len(sorted) \div 2 + 1]

(* detectBodyMargin: where most lines begin.                               *)
BodyMargin == LET text == RowByRow
                  Uses(i) == Cardinality({n \in Is("P") : Left(n) = Left(text[i])})
                  i == CHOOSE i \in DOMAIN text :
                           /\ \A j \in DOMAIN text : Uses(j) <= Uses(i)
                           /\ \A j \in 1..(i - 1) : Uses(j) < Uses(i)
              IN  Left(text[i])

(* The paragraphGroupId of a line: the line its chain of continuations     *)
(* begins with.                                                            *)
Paragraph[n \in Lines] ==
    LET before == {m \in Lines : Continues(m, n)}
    IN  IF before # {} THEN Paragraph[CHOOSE m \in before : TRUE]
        ELSE IF \E m \in Lines : Continues(n, m) THEN n ELSE None

(* Mutant: the merger does not look at the regions.                        *)
ColumnBoundary(m, n) ==
    \/ hint[m] # hint[n]
    \/ None \notin {Paragraph[m], Paragraph[n]} /\ Paragraph[m] # Paragraph[n]

(* protectedBoundary.                                                      *)
ProtectedBoundary(m, n) ==
    \/ hint[m] # hint[n]
    \/ region[m] # region[n]
    \/ None \notin {Paragraph[m], Paragraph[n]} /\ Paragraph[m] # Paragraph[n]

Intervenes(x, m, n) == Top(x) > Top(m) /\ Top(x) <= Top(n) /\ hint[x] = hint[n]

(* A gap of more than 2.2 medians; two labels of one row 64 points apart;  *)
(* an indented line after a line at the margin that ended a sentence.      *)
Separated(m, n, median, margin) ==
    IF Row(m) = Row(n) THEN Left(n) - Right(m) >= 2
    ELSE \/ 10 * (Top(n) - Bottom(m)) > 22 * median
         \/ ~page.unfinished /\ Left(n) > margin /\ Left(m) = margin

Leads == LET text == RowByRow
             median == MedianGap
             margin == BodyMargin
             lead_[i \in DOMAIN text] ==
                 IF \/ i = 1
                    \/ ProtectedBoundary(text[i - 1], text[i])
                    \/ \E x \in Lines \ Is("P") : Intervenes(x, text[i - 1], text[i])
                    \/ Separated(text[i - 1], text[i], median, margin)
                 THEN text[i] ELSE lead_[i - 1]
         IN  [n \in Lines |-> IF n \in Is("P") THEN lead_[CHOOSE i \in DOMAIN text : text[i] = n] ELSE n]

Smallest(S) == CHOOSE x \in S : \A y \in S : x <= y

UnitOf(leads, n) ==
    LET members == {m \in Lines : leads[m] = n}
        role == Node(n).role
    IN  [phase |-> 1, column |-> hint[n], rtl |-> FALSE,
         top |-> Smallest({Top(m) : m \in members}), left |-> Smallest({Left(m) : m \in members}),
         priority |-> CASE role = "H" -> 0 [] role = "P" -> 2 [] role = "T" -> 3,
         level |-> IF role # "H" THEN 0 ELSE IF 2 * Node(n).width > PageWidth THEN 1 ELSE 2]

(* preserveSemanticIdentities: relations are rebound to what their ends    *)
(* became; one within a paragraph is dropped.                              *)
Rebound(leads) == {r \in {<<leads[q[1]], leads[q[2]]>> : q \in relations} : r[1] # r[2]}

(* The code keeps the order in which relations were found; it decides      *)
(* nothing, as the heap goes by the rank of the nodes alone.               *)
PairBefore(q, r) == q[1] < r[1] \/ (q[1] = r[1] /\ q[2] < r[2])

(* The merged document is written; or the merger failed, and the unmerged  *)
(* one is copied in its place.                                             *)
Merge(leads) == /\ step = "semantic"
                /\ lead' = leads
                /\ doc' = [units |-> [n \in Range(leads) |-> UnitOf(leads, n)],
                           relations |-> Sorted(Rebound(leads), PairBefore)]
                /\ step' = "lines"
                /\ UNCHANGED <<page, split, hint, region, relations, line, rank, waiting, ready,
                               result, stack, outline>>

MergeParagraphs == Merge(Leads)
MergeFails == Merge([n \in Lines |-> n])

-----------------------------------------------------------------------------
(* The reading-order module fails for a reason of its own.                 *)
OrderFails == /\ step = "lines"
              /\ step' = "broken"
              /\ UNCHANGED <<pageVars, doc, line, rank, waiting, ready, result, stack, outline>>

(* Mutant: only a conflict is taken for the authors' doing.                *)
InConflict == step = "conflict" /\ doc.relations # << >>

Constrained == doc.relations # << >>

(* sortSemanticNodesForReadingOrder.                                       *)
FallbackBefore(m, n) ==
    LET u == Unit(m) v == Unit(n)
    IN  \/ u.column < v.column
        \/ u.column = v.column /\ (u.top < v.top \/ (u.top = v.top /\ (u.left < v.left \/ (u.left = v.left /\ m < n))))

(* A failed stage ends the job, or falls back to geometry when there are   *)
(* no constraints to discard.                                              *)
Recover == /\ step \in {"invalid", "conflict", "broken"}
           /\ IF Constrained THEN /\ step' = "failed" /\ UNCHANGED result
              ELSE /\ step' = "fallback" /\ result' = Sorted(Nodes, FallbackBefore)
           /\ UNCHANGED <<pageVars, doc, line, rank, waiting, ready, stack, outline>>

Order == Next /\ UNCHANGED pageVars

PageNext == \/ AnalyzePage \/ InferDocument \/ MergeParagraphs \/ MergeFails
            \/ Order \/ OrderFails \/ Recover

PageSpec == PageInit /\ [][PageNext]_<<readingVars, pageVars>>

-----------------------------------------------------------------------------
(* A page with text in both columns can always be ordered: what is joined  *)
(* into one paragraph never has to come both before and after something    *)
(* else.                                                                   *)
TwoColumnsAreOrderable == page # NoPage /\ step = "conflict" => ~TextInBothColumns

(* Whatever the merger joined and whichever way the order was found, it    *)
(* obeys every relation that was read from the page.                       *)
RelationsAreObeyed ==
    step \in {"ordered", "fallback"} /\ page # NoPage =>
        \A r \in relations :
            LET a == lead[r[1]] b == lead[r[2]]
            IN  a = b \/ \E i, j \in DOMAIN result : i < j /\ result[i] = a /\ result[j] = b

(* No paragraph is joined through a heading that spans it: one with lines  *)
(* of the paragraph above and below it.                                    *)
NoMergeThroughHeadings ==
    page # NoPage /\ step = "lines" =>
        \A h \in Is("H") : \A m, n \in Is("P") :
            lead[m] = lead[n] => ~(Bottom(m) <= Top(h) /\ Bottom(h) <= Top(n) /\ Within(m, h) /\ Within(n, h))
=============================================================================
