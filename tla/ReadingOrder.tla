---------------------------- MODULE ReadingOrder ----------------------------
(***************************************************************************)
(* modules/reading-order: the nodes of a page are put into a geometric     *)
(* order (index.js: lines are anchored, then a comparator sorts), authored *)
(* precedence is applied to it (constraints.js: a topological sort whose   *)
(* ready nodes wait in a heap keyed by their geometric rank), and the      *)
(* headings of the result are nested into an outline.                      *)
(*                                                                         *)
(* A document is one page.  A list or a table is one unit whose nodes stay *)
(* together; here a unit is one node.  A column is a hint of the layout    *)
(* stage; the bands index.js forms when there is none are left out.        *)
(***************************************************************************)
EXTENDS Integers, Sequences, FiniteSets, SequencesExt

CONSTANTS Documents,  \* the documents that may be read
          Epsilon     \* lineGroupEpsilon

(* A document: units[n] = [phase, column, top, left, rtl, priority, level] *)
(* of node n, level 0 for a node that is no heading, as headers and footers*)
(* (phases 0 and 2) are; and relations, a sequence of pairs <<from, to>>.  *)
DocumentOK(d) ==
    /\ IsFiniteSet(DOMAIN d.units) /\ DOMAIN d.units \subseteq Int
    /\ \A n \in DOMAIN d.units :
          LET u == d.units[n]
          IN  /\ {u.phase, u.column, u.top, u.left, u.priority} \subseteq Int
              /\ u.level \in Nat /\ (u.phase # 1 => u.level = 0)
    /\ d.relations \in Seq(Int \X Int)

ASSUME ReadingOrderAssumption == Epsilon \in Nat \ {0} /\ \A d \in Documents : DocumentOK(d)

VARIABLES doc, step,
          line,     \* the line of each node, by the top of its anchor
          rank,     \* the geometric order: a sequence of nodes
          waiting,  \* indegree: how many predecessors are not placed yet
          ready,    \* the heap, as an array
          result,   \* the order so far
          stack,    \* the headings that are open, by their places in result
          outline   \* the parent of each heading, None at the top

readingVars == <<doc, step, line, rank, waiting, ready, result, stack, outline>>

None == 0

(* The elements of a set in the order of op.                               *)
Sorted(S, op(_, _)) ==
    [i \in 1..Cardinality(S) |-> CHOOSE x \in S : Cardinality({y \in S : op(y, x)}) = i - 1]

Nodes == DOMAIN doc.units
Unit(n) == doc.units[n]

Init == /\ doc \in Documents /\ step = "lines"
        /\ line = << >> /\ rank = << >> /\ waiting = << >> /\ ready = << >>
        /\ result = << >> /\ stack = << >> /\ outline = << >>

-----------------------------------------------------------------------------
(* assignStableLines: the units of one phase and column by top; a unit     *)
(* that is Epsilon below the anchor of its line starts the next line.      *)
Peers(n) == {m \in Nodes : Unit(m).phase = Unit(n).phase /\ Unit(m).column = Unit(n).column}

Anchor(n) ==
    LET tops == {Unit(m).top : m \in Peers(n)}
        above(t) == {s \in tops : s < t}
        anchor[t \in tops] ==
            IF above(t) = {} \/ t - anchor[Max(above(t))] >= Epsilon THEN t ELSE anchor[Max(above(t))]
    IN  anchor[Unit(n).top]

AssignLines == /\ step = "lines"
               /\ line' = [n \in Nodes |-> Anchor(n)]
               /\ step' = "sort"
               /\ UNCHANGED <<doc, rank, waiting, ready, result, stack, outline>>

(* Mutant: two units share a line when they are near each other.           *)
NearEachOther(m, n) == Unit(m).top - Unit(n).top \in (1 - Epsilon)..(Epsilon - 1)

SameLine(m, n) == line[m] = line[n]

LineIsRtl(n) == \A m \in Peers(n) : SameLine(m, n) => Unit(m).rtl
PageIsRtl == \A n \in Nodes : Unit(n).phase = 1 => Unit(n).rtl

Directed(rtl, a, b) == IF rtl THEN b < a ELSE a < b

(* compareUnits.                                                           *)
Before(m, n) ==
    LET u == Unit(m)
        v == Unit(n)
    IN  \/ u.phase < v.phase
        \/ u.phase = v.phase /\ u.column # v.column /\ Directed(PageIsRtl, u.column, v.column)
        \/ /\ u.phase = v.phase /\ u.column = v.column
           /\ IF ~SameLine(m, n) THEN u.top < v.top
              ELSE \/ u.left # v.left /\ Directed(LineIsRtl(m), u.left, v.left)
                   \/ u.left = v.left /\ u.priority < v.priority
                   \/ u.left = v.left /\ u.priority = v.priority /\ m < n

-----------------------------------------------------------------------------
(* applyPrecedence.                                                        *)
Related == Range(doc.relations)
Invalid == \E r \in Related : r[1] \notin Nodes \/ r[2] \notin Nodes \/ r[1] = r[2]

RankOf(n) == CHOOSE i \in DOMAIN rank : rank[i] = n

(* push: larger parents move down to make place for the node.              *)
Pushed(heap, n) ==
    LET last == Len(heap) + 1
        up[i \in 1..last] ==
            IF i = 1 \/ RankOf(heap[i \div 2]) <= RankOf(n) THEN [Append(heap, n) EXCEPT ![i] = n]
            ELSE [up[i \div 2] EXCEPT ![i] = heap[i \div 2]]
    IN  up[last]

(* Mutant: the left child is taken without a look at the right one.        *)
LeftChild(h, i) == 2 * i

(* The smaller child.                                                      *)
Child(h, i) == IF 2 * i + 1 <= Len(h) /\ RankOf(h[2 * i + 1]) < RankOf(h[2 * i])
               THEN 2 * i + 1 ELSE 2 * i

(* pop: the last node takes the place of the first, and smaller children   *)
(* move up to make place for it.                                           *)
Popped(heap) ==
    LET tail == heap[Len(heap)]
        rest == SubSeq(heap, 1, Len(heap) - 1)
        down[i \in DOMAIN rest] ==
            IF 2 * i > Len(rest) \/ RankOf(tail) <= RankOf(rest[Child(rest, i)]) THEN [rest EXCEPT ![i] = tail]
            ELSE [down[Child(rest, i)] EXCEPT ![i] = rest[Child(rest, i)]]
    IN  IF rest = << >> THEN << >> ELSE down[1]

(* The nodes at some places of a sequence are pushed one after another.    *)
PushedAt(heap, nodes, places) ==
    LET pushed[i \in 0..Len(nodes)] ==
            IF i = 0 THEN heap
            ELSE IF i \in places THEN Pushed(pushed[i - 1], nodes[i]) ELSE pushed[i - 1]
    IN  pushed[Len(nodes)]

(* buildPageUnits and the sort; then the checks, the indegrees and the     *)
(* heap of applyPrecedence, which counts a repeated relation once.         *)
Sort == /\ step = "sort"
        /\ rank' = Sorted(Nodes, Before)
        /\ step' = IF Invalid THEN "invalid" ELSE "filling"
        /\ UNCHANGED <<doc, line, waiting, ready, result, stack, outline>>

Indegree(n) == Cardinality({m \in Nodes : <<m, n>> \in Related})

Fill == /\ step = "filling"
        /\ waiting' = [n \in Nodes |-> Indegree(n)]
        /\ ready' = PushedAt(<< >>, rank, {i \in DOMAIN rank : Indegree(rank[i]) = 0})
        /\ step' = "placing"
        /\ UNCHANGED <<doc, line, rank, result, stack, outline>>

Targets == [i \in DOMAIN doc.relations |-> doc.relations[i][2]]

(* The first node is placed, and its successors are visited in the order   *)
(* in which their relations were first read.                               *)
Place == /\ step = "placing" /\ ready # << >>
         /\ LET n == ready[1]
                left == [m \in Nodes |-> waiting[m] - (IF <<n, m>> \in Related THEN 1 ELSE 0)]
                new == {i \in DOMAIN doc.relations :
                          /\ doc.relations[i][1] = n /\ left[Targets[i]] = 0
                          /\ \A j \in 1..(i - 1) : doc.relations[j] # doc.relations[i]}
            IN  /\ result' = Append(result, n)
                /\ waiting' = left
                /\ ready' = PushedAt(Popped(ready), Targets, new)
         /\ UNCHANGED <<doc, step, line, rank, stack, outline>>

(* The queue is empty: a node that was never ready lies behind a cycle.    *)
Finish == /\ step = "placing" /\ ready = << >>
          /\ step' = IF Len(result) # Cardinality(Nodes) THEN "conflict" ELSE "nesting"
          /\ UNCHANGED <<doc, line, rank, waiting, ready, result, stack, outline>>

-----------------------------------------------------------------------------
(* constrainedNodes.filter: where the headings stand in the order.         *)
Level(i) == Unit(result[i]).level
HeadingsAt == {i \in 1..Len(result) : Level(i) \in 1..6}

(* Mutant: a heading of the same level stays open.                         *)
ClosesDeeper(open, n) == Level(open) > Level(n)

Closes(open, n) == Level(open) >= Level(n)

(* The heading read last is always on top of the stack.                    *)
Unread == {n \in HeadingsAt : stack # << >> => n > Last(stack)}

(* The next heading closes those that are not above it, and goes under the *)
(* last one that is left.                                                  *)
Nest == /\ step = "nesting"
        /\ \E n \in Unread, kept \in 0..Len(stack) :
              /\ \A m \in Unread : n <= m
              /\ \A i \in (kept + 1)..Len(stack) : Closes(stack[i], n)
              /\ kept > 0 => ~Closes(stack[kept], n)
              /\ outline' = [m \in DOMAIN outline \cup {n} |->
                                IF m # n THEN outline[m]
                                ELSE IF kept = 0 THEN None ELSE stack[kept]]
              /\ stack' = Append(SubSeq(stack, 1, kept), n)
        /\ UNCHANGED <<doc, step, line, rank, waiting, ready, result>>

Write == /\ step = "nesting" /\ Unread = {}
         /\ step' = "ordered"
         /\ UNCHANGED <<doc, line, rank, waiting, ready, result, stack, outline>>

Next == AssignLines \/ Sort \/ Fill \/ Place \/ Finish \/ Nest \/ Write

Spec == Init /\ [][Next]_readingVars

-----------------------------------------------------------------------------
(* The comparator is a strict total order on the units of every page, so   *)
(* that the sort has one result whatever order the nodes arrive in: lines  *)
(* that are closer than Epsilon to each other cannot chain.                *)
ComparatorIsAnOrder ==
    step = "sort" =>
        LET before == {p \in Nodes \X Nodes : Before(p[1], p[2])}
        IN  \A m, n \in Nodes :
                /\ ~(<<m, n>> \in before /\ <<n, m>> \in before)
                /\ m # n => <<m, n>> \in before \/ <<n, m>> \in before
                /\ <<m, n>> \in before => \A p \in Nodes : <<n, p>> \in before => <<m, p>> \in before

Precede(S) == \A n \in S : \E m \in S : <<m, n>> \in Related

(* The order that is reached is a permutation that obeys every relation,   *)
(* and geometry decides whatever the relations leave open: a node that     *)
(* comes after one of a larger rank had to wait, behind that one or a node *)
(* placed since.  And only a cycle of relations is refused as a conflict.  *)
LeastExtension ==
    /\ step \in {"nesting", "ordered"} =>
         LET related == Related
             at == [n \in Nodes |-> RankOf(n)]
         IN  /\ Range(result) = Nodes /\ Len(result) = Cardinality(Nodes)
             /\ \A i, j \in DOMAIN result :
                   /\ <<result[i], result[j]>> \in related => i < j
                   /\ i < j /\ at[result[j]] < at[result[i]] =>
                        \E k \in i..(j - 1) : <<result[k], result[j]>> \in related
    /\ step = "conflict" => \E S \in SUBSET Nodes : S # {} /\ Precede(S)

(* A heading is nested under the nearest heading before it that is of a    *)
(* higher rank, or under none, in the order that is finally read.          *)
OutlineNests ==
    step = "ordered" =>
        outline = [n \in HeadingsAt |->
                     LET higher == {m \in HeadingsAt : m < n /\ Level(m) < Level(n)}
                     IN  IF higher = {} THEN None ELSE CHOOSE m \in higher : \A k \in higher : k <= m]
=============================================================================
