--------------------------- MODULE TagTreeProofs ---------------------------
(***************************************************************************)
(* Proofs about TagTree, for every text that the pipeline or Texts may     *)
(* give (TextOK).  What a step adds hangs from a tag that is there         *)
(* (Hangs); the stacks of the loop point at tags of their kind             *)
(* (PointersOK), and the tables and rows that were written fit the pieces  *)
(* that were read (TablesOK, RowsOK).  TagInv is kept by every step that   *)
(* does not refuse, and implies the names of the tables (NamesAreKept).    *)
(* HeadInv says under which headings the sections were opened: the nearest *)
(* before of a lesser rank, which are those of the outline                 *)
(* (SectionsFollowTheOutline).  ReadInv says that the tags are in preorder *)
(* but for the later parts of paragraphs, and that whatever the loop may   *)
(* still add to is open; so a walk of them is the reading                  *)
(* (TagsFollowTheReading).                                                 *)
(***************************************************************************)
EXTENDS ReadingOrderProofs

(* The steps before there is a text, and those in which it is tagged.      *)
Untagged == OnPage \cup Sorting \cup {"broken", "fallback", "failed"}
Written == {"tagging", "fragments", "sections", "grid", "finished"}

allVars == <<pipelineVars, tagVars, tables>>

TagStep == \/ SkipArtifact \/ TagLabel \/ TagHeading \/ ContinueItem \/ TagItem
           \/ TagTable \/ TagCell \/ TagParagraph

LEMMA StepsOfTagging ==
  ASSUME [GridNext]_allVars
  PROVE  \/ BeginTagging
         \/ TagStep
         \/ /\ UNCHANGED tagVars /\ (step' \in Written => step \in Written)
            /\ (step' \in Untagged => step \in Untagged)
<1>1. CASE UNCHANGED allVars
  BY <1>1 DEF allVars, pipelineVars, readingVars
<1>2. CASE MergeFragments \/ AssignSections \/ NormalizeRegularity \/ FinishTables
  BY <1>2 DEF MergeFragments, AssignSections, NormalizeRegularity, FinishTables, Pass, Written, Untagged,
              OnPage, Sorting
<1>3. CASE PageNext /\ UNCHANGED tagVars
  <2>1. step \in Untagged /\ step' \in Untagged /\ step' \notin Written
    BY <1>3 DEF PageNext, AnalyzePage, InferDocument, MergeParagraphs, MergeFails, Merge, Order, Next,
                AssignLines, Sort, Fill, Place, Finish, Nest, Write, OrderFails, Recover,
                Untagged, Written, OnPage, Sorting
  <2> QED
    BY <1>3, <2>1
<1> QED
  BY <1>1, <1>2, <1>3 DEF GridNext, TagNext, TagStep

(* A step of the loop, that is not a refusal.                              *)
LEMMA TagStepReads ==
  ASSUME TagStep
  PROVE  /\ step = "tagging" /\ step' \in {"tagging", "review"}
         /\ next < Len(text) /\ next' = next + 1
         /\ UNCHANGED <<text, levels, doc, result, stack, outline, pageVars>>
<1>1. /\ step = "tagging" /\ next < Len(text) /\ next' = next + 1
      /\ UNCHANGED <<text, levels, doc, result, stack, outline, pageVars>>
  BY ZenonT(40) DEF TagStep, SkipArtifact, TagLabel, TagHeading, ContinueItem, TagItem, TagTable, TagCell,
         TagParagraph, Reads
<1>2. step' \in {"tagging", "review"}
  BY <1>1, ZenonT(40) DEF TagStep, SkipArtifact, TagLabel, TagHeading, ContinueItem, TagItem, TagTable, TagCell,
              TagParagraph, Continue, Refuse
<1> QED
  BY <1>1, <1>2, SMTT(30)

-----------------------------------------------------------------------------
(* The document and the order it is tagged in.                             *)
ResultInv == /\ DocumentOK(doc)
             /\ step \in {"ordered", "fallback"} => result \in Seq(Nodes)

LEMMA FallbackLists ==
  ASSUME DocumentOK(doc)
  PROVE  Sorted(Nodes, FallbackBefore) \in Seq(Nodes)
<1> DEFINE S == Nodes
           R == {p \in Nodes \X Nodes : FallbackBefore(p[1], p[2])}
           N == Cardinality(S)
           s == Sorted(Nodes, FallbackBefore)
<1>1. OrdersSet(R, S)
  <2>1. IsFiniteSet(S)
    BY DEF DocumentOK, Nodes
  <2>2. \A x, y \in Nodes : <<x, y>> \in R <=> FallbackBefore(x, y)
    OBVIOUS
  <2>3. \A x \in Nodes : x \in Int /\ Unit(x).column \in Int /\ Unit(x).top \in Int /\ Unit(x).left \in Int
    BY DEF DocumentOK, Nodes, Unit
  <2>4. \A x, y \in Nodes : /\ ~(FallbackBefore(x, y) /\ FallbackBefore(y, x))
                            /\ x # y => FallbackBefore(x, y) \/ FallbackBefore(y, x)
    BY <2>3 DEF FallbackBefore
  <2>5. \A x, y, z \in Nodes : FallbackBefore(x, y) /\ FallbackBefore(y, z) => FallbackBefore(x, z)
    BY <2>3 DEF FallbackBefore
  <2> HIDE DEF R
  <2> QED
    BY <2>1, <2>2, <2>4, <2>5 DEF OrdersSet
<1>2. ASSUME NEW x \in S PROVE Cardinality({y \in S : FallbackBefore(y, x)}) = Count(R, S, x)
  <2>1. {y \in S : FallbackBefore(y, x)} = Earlier(R, S, x)
    BY DEF Earlier
  <2> QED
    BY <2>1 DEF Count
<1>3. ASSUME NEW i \in 1..N PROVE s[i] \in S
  <2>1. \E x \in S : Count(R, S, x) = i - 1
    <3> HIDE DEF S, R
    <3> QED
      BY <1>1, EveryCountIsTaken
  <2>2. \E x \in S : Cardinality({y \in S : FallbackBefore(y, x)}) = i - 1
    BY <1>2, <2>1
  <2>3. s[i] = CHOOSE x \in S : Cardinality({y \in S : FallbackBefore(y, x)}) = i - 1
    BY DEF Sorted
  <2> QED
    <3> HIDE DEF s, S
    <3> QED
      BY <2>2, <2>3
<1>4. N \in Nat
  BY <1>1, FS_CardinalityType DEF OrdersSet
<1>5. s \in [1..N -> S]
  BY <1>3 DEF Sorted
<1> HIDE DEF s, S, N
<1>6. s \in Seq(S)
  BY <1>4, <1>5
<1> QED
  BY <1>6 DEF s, S

LEMMA ResultInvIsKept ==
  ASSUME PageInv, SortInv, ResultInv, [GridNext]_allVars
  PROVE  ResultInv'
<1>1. ASSUME UNCHANGED doc PROVE (DocumentOK(doc)' <=> DocumentOK(doc)) /\ Nodes' = Nodes
  BY <1>1 DEF DocumentOK, Nodes
<1>2. CASE UNCHANGED allVars
  BY <1>1, <1>2 DEF allVars, pipelineVars, readingVars, ResultInv
<1>3. CASE MergeFragments \/ AssignSections \/ NormalizeRegularity \/ FinishTables \/ BeginTagging \/ TagStep
  <2>1. doc' = doc /\ step' \notin {"ordered", "fallback"}
    BY <1>3, TagStepReads DEF MergeFragments, AssignSections, NormalizeRegularity, FinishTables, Pass, BeginTagging
  <2> QED
    BY <1>1, <2>1 DEF ResultInv
<1>4. CASE MergeParagraphs \/ MergeFails
  <2>1. DocumentOK(doc)' /\ step' = "lines"
    BY <1>4, MergesAreDocuments DEF MergeParagraphs, MergeFails, Merge
  <2> QED
    BY <2>1 DEF ResultInv
<1>5. CASE AnalyzePage \/ InferDocument \/ OrderFails
  <2>1. doc' = doc /\ step' \notin {"ordered", "fallback"}
    BY <1>5 DEF AnalyzePage, InferDocument, OrderFails
  <2> QED
    BY <1>1, <2>1 DEF ResultInv
<1>6. CASE Order
  <2>1. doc' = doc /\ step' # "fallback"
    BY <1>6 DEF Order, Next, AssignLines, Sort, Fill, Place, Finish, Nest, Write
  <2>2. step' = "ordered" => Write
    BY <1>6 DEF Order, Next, AssignLines, Sort, Fill, Place, Finish, Nest
  <2>3. Write => result' = result /\ result \in Seq(Nodes)
    BY DEF Write, SortInv, PlacedOK
  <2> QED
    BY <1>1, <2>1, <2>2, <2>3 DEF ResultInv
<1>7. CASE Recover
  <2>1. doc' = doc /\ step' \in {"failed", "fallback"}
        /\ (step' = "fallback" => result' = Sorted(Nodes, FallbackBefore))
    BY <1>7 DEF Recover
  <2> QED
    BY <1>1, <2>1, FallbackLists DEF ResultInv
<1> QED
  BY <1>2, <1>3, <1>4, <1>5, <1>6, <1>7 DEF GridNext, TagNext, PageNext, TagStep

(* The pipeline's invariants, while the text is tagged and afterwards.     *)
LEMMA PipelineIsKept ==
  ASSUME PageInv, SortInv, [GridNext]_allVars
  PROVE  PageInv' /\ SortInv'
<1>1. CASE [PageNext]_<<readingVars, pageVars>>
  BY <1>1, PageInvIsKept, SortInvIsKept
<1>2. CASE MergeFragments \/ AssignSections \/ NormalizeRegularity \/ FinishTables \/ BeginTagging \/ TagStep
  <2>1. /\ step' \notin OnPage \cup Sorting \cup {"fallback"} /\ step \notin OnPage
        /\ UNCHANGED <<doc, page, split, hint, region, relations, lead>>
    BY <1>2, TagStepReads DEF MergeFragments, AssignSections, NormalizeRegularity, FinishTables, Pass, BeginTagging,
                      pageVars, OnPage, Sorting
  <2>2. Rebinds' <=> Rebinds
    BY <2>1 DEF Rebinds, Related
  <2>3. (page # NoPage)' <=> page # NoPage
    BY <2>1 DEF NoPage
  <2>4. PageInv'
    BY <2>1, <2>2, <2>3 DEF PageInv, OnPage
  <2>5. SortInv'
    BY <2>1 DEF SortInv, Sorting, OnPage
  <2> QED
    BY <2>4, <2>5
<1> QED
  BY <1>1, <1>2 DEF GridNext, TagNext, TagStep, allVars, pipelineVars

LEMMA PipelineBegins == GridInit => PageInv /\ SortInv /\ ResultInv
<1> SUFFICES ASSUME TagInit PROVE PageInv /\ SortInv /\ ResultInv
  BY DEF GridInit
<1>1. DocumentOK(NoDocument)
  <2>1. NoDocument.units = << >> /\ NoDocument.relations = << >>
    BY DEF NoDocument
  <2>2. DOMAIN << >> = {} /\ << >> \in Seq(Int \X Int)
    OBVIOUS
  <2> QED
    BY <2>1, <2>2, FS_EmptySet DEF DocumentOK
<1>2. CASE PageInit
  <2>1. PageInv /\ SortInv
    BY <1>2, PipelineStarts
  <2>2. ResultInv
    BY <1>1, <1>2, ReadingOrderAssumption DEF PageInit, ResultInv
  <2> QED
    BY <2>1, <2>2
<1>3. CASE page = NoPage /\ doc = NoDocument /\ step = "tagging"
  BY <1>1, <1>3 DEF PageInv, SortInv, ResultInv, OnPage, Sorting
<1> QED
  BY <1>2, <1>3 DEF TagInit

-----------------------------------------------------------------------------
(* The text.                                                               *)
LEMMA PiecesOfAText ==
  ASSUME NEW t, TextOK(t)
  PROVE  /\ Len(t) \in Nat /\ DOMAIN t = 1..Len(t)
         /\ \A i \in DOMAIN t : PieceOK(t[i])
BY DEF TextOK, Range

(* What the pipeline orders is a text.                                     *)
LEMMA OrderedText ==
  ASSUME DocumentOK(doc), result \in Seq(Nodes), NEW t, t = [i \in DOMAIN result |-> NodeOf(result[i])]
  PROVE  /\ TextOK(t)
         /\ \A i \in DOMAIN result :
               /\ t[i].role = "H" <=> Unit(result[i]).level # 0
               /\ t[i].level = Unit(result[i]).level /\ t[i].level \in Nat
<1>1. Len(result) \in Nat /\ DOMAIN result = 1..Len(result) /\ \A i \in DOMAIN result : result[i] \in Nodes
  OBVIOUS
<1>2. \A n \in Nodes : n \in Int /\ Unit(n).level \in Nat /\ (Unit(n).phase # 1 => Unit(n).level = 0)
  BY DEF DocumentOK, Nodes, Unit
<1>3. DOMAIN t = 1..Len(result) /\ \A i \in DOMAIN t : t[i] = NodeOf(result[i])
  BY <1>1
<1>4. ASSUME NEW n \in Nodes
      PROVE  /\ PieceOK(NodeOf(n)) /\ NodeOf(n).level = Unit(n).level
             /\ NodeOf(n).role \in {"Artifact", "H", "P", "TD"} /\ NodeOf(n).row = 0
             /\ NodeOf(n).role = "H" <=> Unit(n).level # 0
  <2> DEFINE u == Unit(n)
             role == CASE u.phase # 1 -> "Artifact"
                       [] u.phase = 1 /\ u.level > 0 -> "H"
                       [] u.phase = 1 /\ u.level = 0 /\ u.priority = 3 -> "TD"
                       [] OTHER -> "P"
  <2>1. role \in {"Artifact", "H", "P", "TD"} /\ (role = "H" <=> u.level # 0)
    BY <1>2
  <2>2. /\ NodeOf(n).role = role /\ NodeOf(n).level = u.level /\ NodeOf(n).of = None
        /\ NodeOf(n).page = 1 /\ NodeOf(n).row = 0 /\ NodeOf(n).cell = PlainCell
        /\ role = "TD" => NodeOf(n).group = <<n>>
    BY DEF NodeOf
  <2>3. <<n>> \in Seq(Int)
    BY <1>2
  <2>4. PlainCell \in [head : BOOLEAN, col : Nat, across : Nat \ {0}, down : Nat \ {0},
                       hint : {"none", "head", "body", "foot"}]
    BY DEF PlainCell, None
  <2>5. u.level \in Int
    BY <1>2
  <2> HIDE DEF role, u
  <2>6. PieceOK(NodeOf(n))
    <3>1. NodeOf(n).cell \in [head : BOOLEAN, col : Nat, across : Nat \ {0}, down : Nat \ {0},
                               hint : {"none", "head", "body", "foot"}]
      BY <2>2, <2>4
    <3>2. {NodeOf(n).level, NodeOf(n).page, NodeOf(n).row} \subseteq Int /\ NodeOf(n).of \in Nat
      BY <2>2, <2>5 DEF None
    <3>3. /\ NodeOf(n).role \in {"Artifact", "H", "P", "Label", "LI", "Table", "TD"}
          /\ NodeOf(n).role # "LI"
          /\ NodeOf(n).role \in {"Table", "TD"} => NodeOf(n).group \in Seq(Int)
      BY <2>1, <2>2, <2>3
    <3>4. NodeOf(n).page >= 1
      BY <2>2
    <3> QED
      BY <3>1, <3>2, <3>3, <3>4 DEF PieceOK
  <2> QED
    BY <2>1, <2>2, <2>6 DEF u
<1>5. \A i \in DOMAIN t : PieceOK(t[i]) /\ t[i].role # "LI" /\ t[i].row = 0
  BY <1>1, <1>3, <1>4
<1>6. t \in Seq(Range(t))
  BY <1>1, <1>3 DEF Range
<1>7. ByRows(t)
  <2>1. \A j \in DOMAIN t : \A i \in 1..(j - 1) : i \in DOMAIN t
    BY <1>1, <1>3
  <2> QED
    BY <1>5, <2>1 DEF ByRows
<1>8. ContinuedAtOnce(t)
  BY <1>5 DEF ContinuedAtOnce
<1>9. TextOK(t)
  BY <1>5, <1>6, <1>7, <1>8 DEF TextOK, Range
<1> QED
  BY <1>1, <1>2, <1>3, <1>4, <1>9

(* A finite set of numbers has a smallest one.                             *)
LEMMA Lowest ==
  ASSUME NEW S, IsFiniteSet(S), S \subseteq Int, S # {}
  PROVE  Min(S) \in S /\ \A y \in S : Min(S) <= y
BY LowestOf DEF Min

(* A fold over a sequence has its results in a set that the step keeps.    *)
FoldsTo(f, n, base, then) ==
    \A T \in SUBSET (1..n) : f[T] = IF T = {} THEN base ELSE then[<<Max(T), f[T \ {Max(T)}]>>]

LEMMA Folding ==
  ASSUME NEW n \in Nat, NEW Y, NEW base \in Y, NEW then \in [(1..n) \X Y -> Y]
  PROVE  \E f \in [SUBSET (1..n) -> Y] : FoldsTo(f, n, base, then)
<1> DEFINE X == SUBSET (1..n)
           m == [T \in X |-> Cardinality(T)]
           before == [T \in X |-> T \ {Max(T)}]
           start == [T \in X |-> base]
           next_ == [z \in X \X Y |-> IF z[1] = {} THEN base ELSE then[<<Max(z[1]), z[2]>>]]
<1>1. IsFiniteSet(1..n) /\ Cardinality(1..n) = n
  BY PlacesAreFinite
<1>2. ASSUME NEW T \in X
      PROVE  /\ Cardinality(T) \in 0..n /\ before[T] \in X
             /\ T # {} => Max(T) \in T /\ Cardinality(T \ {Max(T)}) < Cardinality(T)
  <2>0. T \subseteq 1..n
    OBVIOUS
  <2>1. IsFiniteSet(T) /\ Cardinality(T) \in Nat /\ Cardinality(T) <= n
    <3>1. IsFiniteSet(T) /\ Cardinality(T) <= Cardinality(1..n)
      BY <1>1, <2>0, FS_Subset
    <3> QED
      BY <1>1, <3>1, FS_CardinalityType
  <2>2. T \subseteq Int
    OBVIOUS
  <2>3. CASE T # {}
    <3>1. Max(T) \in T
      BY <2>1, <2>2, <2>3, Greatest
    <3>2. Cardinality(T \ {Max(T)}) = Cardinality(T) - 1
      BY <2>1, <3>1, FS_RemoveElement
    <3>3. T \ {Max(T)} \in X
      BY <2>0
    <3> QED
      BY <2>1, <3>1, <3>2, <3>3
  <2>4. CASE T = {}
    BY <2>1, <2>4
  <2> QED
    BY <2>3, <2>4
<1>3. m \in [X -> 0..n] /\ before \in [X -> X] /\ start \in [X -> Y]
  BY <1>2
<1>4. next_ \in [X \X Y -> Y]
  <2> SUFFICES ASSUME NEW T \in X, NEW y \in Y, T # {} PROVE then[<<Max(T), y>>] \in Y
    OBVIOUS
  <2>1. Max(T) \in 1..n
    BY <1>2
  <2> QED
    BY <2>1
<1>5. \A T \in X \ {{}} : m[before[T]] < m[T]
  BY <1>2, <1>3
<1>6. Grounded(X, Y, n, m, before, {{}}, start, next_)
  <2> HIDE DEF X, m, before, start, next_
  <2> QED
    BY <1>3, <1>4, <1>5 DEF Grounded
<1>7. PICK f \in [X -> Y] : \A T \in X : f[T] = IF T \in {{}} THEN start[T] ELSE next_[<<T, f[before[T]]>>]
  <2> DEFINE base_ == {{}}
  <2>1. Grounded(X, Y, n, m, before, base_, start, next_)
    BY <1>6
  <2> HIDE DEF X, m, before, start, next_, base_
  <2>2. \E f \in [X -> Y] : \A T \in X : f[T] = IF T \in base_ THEN start[T] ELSE next_[<<T, f[before[T]]>>]
    BY <2>1, Recursion
  <2> QED
    BY <2>2 DEF base_
<1>8. ASSUME NEW T \in X PROVE f[T] = IF T = {} THEN base ELSE then[<<Max(T), f[T \ {Max(T)}]>>]
  <2>1. CASE T = {}
    BY <1>7, <2>1
  <2>2. CASE T # {}
    <3>1. before[T] = T \ {Max(T)} /\ before[T] \in X /\ f[before[T]] \in Y
      BY <1>2
    <3>2. f[T] = next_[<<T, f[before[T]]>>]
      BY <1>7, <2>2
    <3>3. next_[<<T, f[before[T]]>>] = then[<<Max(T), f[before[T]]>>]
      BY <2>2, <3>1
    <3> QED
      BY <2>2, <3>1, <3>2, <3>3
  <2> QED
    BY <2>1, <2>2
<1> QED
  BY <1>8 DEF FoldsTo

(* The beginnings of a sequence, which a fold goes through.                *)
LEMMA Beginnings ==
  ASSUME NEW n \in Nat, NEW k \in 1..n
  PROVE  /\ Max(1..k) = k /\ (1..k) \ {k} = 1..(k - 1)
         /\ 1..k \in SUBSET (1..n) /\ 1..k # {} /\ 1..(k - 1) \in SUBSET (1..n)
<1>1. IsFiniteSet(1..k) /\ 1..k \subseteq Int /\ 1..k # {}
  BY PlacesAreFinite
<1>2. Max(1..k) \in 1..k /\ \A y \in 1..k : y <= Max(1..k)
  BY <1>1, Greatest
<1>3. k \in 1..k
  OBVIOUS
<1>4. Max(1..k) = k
  BY <1>2, <1>3
<1> QED
  BY <1>1, <1>4

-----------------------------------------------------------------------------
(* The levels.                                                             *)
HeadLevels(t, n) == {t[i].level : i \in {j \in 1..n : t[j].role = "H"}}

(* The ranks keep the order of the levels.                                 *)
Ranks == {f \in UNION {[L -> Nat \ {0}] : L \in SUBSET Int} :
             IsFiniteSet(DOMAIN f) /\ \A l, m \in DOMAIN f : l < m => f[l] <= f[m]}

LEMMA InferredFits ==
  ASSUME NEW known \in Ranks, NEW level \in Int, level \notin DOMAIN known
  PROVE  /\ Inferred(level, known) \in Nat \ {0}
         /\ \A l \in DOMAIN known : /\ l < level => known[l] <= Inferred(level, known)
                                    /\ level < l => Inferred(level, known) <= known[l]
<1> DEFINE above == {l \in DOMAIN known : l < level}
           below == {l \in DOMAIN known : l > level}
           a == known[Max(above)]
           b == known[Min(below)]
           r == Inferred(level, known)
<1>1. /\ DOMAIN known \subseteq Int /\ IsFiniteSet(DOMAIN known) /\ \A l \in DOMAIN known : known[l] \in Nat \ {0}
      /\ \A l, m \in DOMAIN known : l < m => known[l] <= known[m]
  <2>1. PICK L \in SUBSET Int : known \in [L -> Nat \ {0}]
    BY DEF Ranks
  <2>2. DOMAIN known = L
    BY <2>1
  <2> QED
    BY <2>1, <2>2 DEF Ranks
<1>2. IsFiniteSet(above) /\ IsFiniteSet(below)
  BY <1>1, FS_Subset
<1>3. above # {} => Max(above) \in above /\ \A y \in above : y <= Max(above)
  <2>1. above \subseteq Int
    BY <1>1
  <2> HIDE DEF above
  <2> QED
    BY <1>2, <2>1, Greatest
<1>4. below # {} => Min(below) \in below /\ \A y \in below : Min(below) <= y
  <2>1. below \subseteq Int
    BY <1>1
  <2> HIDE DEF below
  <2> QED
    BY <1>2, <2>1, Lowest
<1>5. above # {} => a \in Nat \ {0} /\ \A l \in DOMAIN known : l < level => known[l] <= a
  <2> SUFFICES ASSUME above # {} PROVE a \in Nat \ {0} /\ \A l \in DOMAIN known : l < level => known[l] <= a
    OBVIOUS
  <2>1. Max(above) \in DOMAIN known /\ \A y \in above : y < Max(above) \/ y = Max(above)
    BY <1>1, <1>3, SMTT(30)
  <2>2. \A l \in DOMAIN known : l < level => l \in above
    OBVIOUS
  <2> HIDE DEF above
  <2> QED
    BY <1>1, <2>1, <2>2
<1>6. below # {} => b \in Nat \ {0} /\ \A l \in DOMAIN known : level < l => b <= known[l]
  <2> SUFFICES ASSUME below # {} PROVE b \in Nat \ {0} /\ \A l \in DOMAIN known : level < l => b <= known[l]
    OBVIOUS
  <2>1. Min(below) \in DOMAIN known /\ \A y \in below : Min(below) < y \/ y = Min(below)
    BY <1>1, <1>4
  <2>2. \A l \in DOMAIN known : level < l => l \in below
    BY <1>1
  <2> HIDE DEF below
  <2> QED
    BY <1>1, <2>1, <2>2
<1>7. above # {} /\ below # {} => a <= b
  BY <1>1, <1>3, <1>4
<1>8. r = CASE above # {} /\ below # {} -> Min({a + 1, b})
            [] above # {} /\ below = {} -> a + 1
            [] above = {} /\ below # {} -> AtLeastOne(b - 1)
            [] OTHER -> 1
  BY DEF Inferred
<1>9. \A l \in DOMAIN known : (l < level => above # {}) /\ (level < l => below # {})
  BY <1>1
<1> HIDE DEF above, below, a, b, r
<1>10. CASE above # {} /\ below # {}
  <2>1. r = Min({a + 1, b})
    BY <1>8, <1>10
  <2>2. a + 1 \in Int /\ b \in Int
    BY <1>5, <1>6, <1>10
  <2>3. Min({a + 1, b}) = IF a + 1 <= b THEN a + 1 ELSE b
    BY <2>2 DEF Min
  <2> QED
    BY <1>5, <1>6, <1>7, <1>10, <1>1, <2>1, <2>3 DEF r
<1>11. CASE above # {} /\ below = {}
  <2>1. r = a + 1
    BY <1>8, <1>11
  <2> QED
    BY <1>5, <1>9, <1>11, <1>1, <2>1 DEF r
<1>12. CASE above = {} /\ below # {}
  <2>1. r = AtLeastOne(b - 1)
    BY <1>8, <1>12
  <2>2. r \in Nat \ {0} /\ r <= b
    BY <1>6, <1>12, <2>1 DEF AtLeastOne
  <2> QED
    BY <1>1, <1>6, <1>9, <1>12, <2>2 DEF r
<1>13. CASE above = {} /\ below = {}
  <2>1. r = 1
    BY <1>8, <1>13
  <2> QED
    BY <1>9, <1>13, <2>1 DEF r
<1> QED
  BY <1>10, <1>11, <1>12, <1>13

(* The levels that are found, and their ranks.                             *)
LEMMA Normalized ==
  ASSUME NEW t, TextOK(t)
  PROVE  Normalization(t) \in Ranks /\ DOMAIN Normalization(t) = HeadLevels(t, Len(t))
<1> DEFINE n == Len(t)
           Step(known, p) == IF p.role # "H" \/ p.level \in DOMAIN known THEN known
                             ELSE [l \in DOMAIN known \cup {p.level} |->
                                      IF l = p.level THEN Inferred(l, known) ELSE known[l]]
           Iter(f) == [T \in SUBSET (1..n) |->
                          IF T = {} THEN << >> ELSE Step(f[T \ {Max(T)}], t[Max(T)])]
           it == CHOOSE f : f = Iter(f)
<1>1. n \in Nat /\ DOMAIN t = 1..n /\ \A i \in 1..n : t[i].level \in Int
  BY PiecesOfAText DEF PieceOK
<1>2. Normalization(t) = it[1..n]
  BY <1>1 DEF Normalization, FoldLeft, MapThenFoldSet
<1>3. ASSUME NEW known \in Ranks, NEW i \in 1..n
      PROVE  /\ Step(known, t[i]) \in Ranks
             /\ DOMAIN Step(known, t[i]) = DOMAIN known \cup (IF t[i].role = "H" THEN {t[i].level} ELSE {})
  <2>1. CASE t[i].role # "H" \/ t[i].level \in DOMAIN known
    BY <2>1
  <2>2. CASE t[i].role = "H" /\ t[i].level \notin DOMAIN known
    <3> DEFINE l == t[i].level
               r == Inferred(l, known)
               k == [m \in DOMAIN known \cup {l} |-> IF m = l THEN Inferred(m, known) ELSE known[m]]
    <3>1. Step(known, t[i]) = k
      BY <2>2
    <3>2. DOMAIN k = DOMAIN known \cup {l} /\ k[l] = r /\ \A m \in DOMAIN known : k[m] = known[m]
      <4>1. l \notin DOMAIN known
        BY <2>2
      <4> HIDE DEF l
      <4> QED
        BY <4>1
    <3>3. k = [m \in DOMAIN k |-> k[m]]
      OBVIOUS
    <3> HIDE DEF k
    <3>4. /\ DOMAIN known \subseteq Int /\ IsFiniteSet(DOMAIN known) /\ \A m \in DOMAIN known : known[m] \in Nat \ {0}
          /\ \A x, y \in DOMAIN known : x < y => known[x] <= known[y]
      <4>1. PICK L \in SUBSET Int : known \in [L -> Nat \ {0}]
        BY DEF Ranks
      <4>2. DOMAIN known = L
        BY <4>1
      <4> QED
        BY <4>1, <4>2 DEF Ranks
    <3>5. l \in Int /\ l \notin DOMAIN known
      BY <1>1, <2>2
    <3> HIDE DEF l
    <3>6. /\ r \in Nat \ {0}
          /\ \A m \in DOMAIN known : (m < l => known[m] <= r) /\ (l < m => r <= known[m])
      BY <3>5, InferredFits
    <3> HIDE DEF r
    <3>7. IsFiniteSet(DOMAIN k)
      BY <3>2, <3>4, FS_AddElement
    <3>8. k \in [DOMAIN k -> Nat \ {0}] /\ DOMAIN k \in SUBSET Int
      BY <3>2, <3>3, <3>4, <3>5, <3>6
    <3>9. \A x, y \in DOMAIN k : x < y => k[x] <= k[y]
      BY <3>2, <3>4, <3>5, <3>6
    <3> QED
      BY <2>2, <3>1, <3>2, <3>7, <3>8, <3>9, ZenonT(40) DEF Ranks, l
  <2> QED
    BY <2>1, <2>2
<1> HIDE DEF Step
<1>4. << >> \in Ranks /\ DOMAIN << >> = {}
  <2>1. << >> \in [{} -> Nat \ {0}] /\ DOMAIN << >> = {}
    OBVIOUS
  <2> QED
    BY <2>1, FS_EmptySet DEF Ranks
<1>5. \E f : f = Iter(f)
  <2> DEFINE then == [z \in (1..n) \X Ranks |-> Step(z[2], t[z[1]])]
  <2>1. then \in [(1..n) \X Ranks -> Ranks]
    BY <1>3
  <2>2. PICK f \in [SUBSET (1..n) -> Ranks] : \A T \in SUBSET (1..n) :
            f[T] = IF T = {} THEN << >> ELSE then[<<Max(T), f[T \ {Max(T)}]>>]
    <3> DEFINE empty == << >>
               R == Ranks
    <3>1. n \in Nat /\ empty \in R /\ then \in [(1..n) \X R -> R]
      BY <1>1, <1>4, <2>1
    <3> HIDE DEF then, n, empty, R
    <3>2. \E f \in [SUBSET (1..n) -> R] : FoldsTo(f, n, empty, then)
      BY <3>1, Folding
    <3> QED
      BY <3>2 DEF empty, R, FoldsTo
  <2>3. ASSUME NEW T \in SUBSET (1..n), T # {} PROVE then[<<Max(T), f[T \ {Max(T)}]>>] = Step(f[T \ {Max(T)}], t[Max(T)])
    <3>0. T \subseteq 1..n
      OBVIOUS
    <3>1. IsFiniteSet(T) /\ T \subseteq Int
      BY <1>1, <3>0, PlacesAreFinite, FS_Subset
    <3>2. Max(T) \in 1..n /\ f[T \ {Max(T)}] \in Ranks
      BY <2>3, <3>1, Greatest
    <3> QED
      BY <3>2
  <2>4. f = Iter(f)
    <3> HIDE DEF then
    <3> QED
      BY <2>2, <2>3
  <2> QED
    BY <2>4
<1>6. it = Iter(it)
  <2> HIDE DEF Iter
  <2> QED
    BY <1>5
<1> HIDE DEF it
<1>7. it[{}] = << >>
  BY <1>6
<1>8. ASSUME NEW k \in 1..n PROVE it[1..k] = Step(it[1..(k - 1)], t[k])
  <2>1. /\ Max(1..k) = k /\ (1..k) \ {k} = 1..(k - 1)
        /\ 1..k \in SUBSET (1..n) /\ 1..k # {}
    BY <1>1, Beginnings
  <2>2. it[1..k] = Step(it[(1..k) \ {Max(1..k)}], t[Max(1..k)])
    BY <1>6, <2>1
  <2> QED
    BY <2>1, <2>2
<1> DEFINE S == {k \in Nat : k <= n => it[1..k] \in Ranks /\ DOMAIN it[1..k] = HeadLevels(t, k)}
<1>9. 0 \in S
  <2>1. 1..0 = {}
    OBVIOUS
  <2> QED
    BY <1>4, <1>7, <2>1 DEF HeadLevels
<1>10. ASSUME NEW k \in Nat, k \in S PROVE k + 1 \in S
  <2> SUFFICES ASSUME k + 1 <= n PROVE it[1..(k + 1)] \in Ranks /\ DOMAIN it[1..(k + 1)] = HeadLevels(t, k + 1)
    OBVIOUS
  <2>1. k + 1 \in 1..n /\ (k + 1) - 1 = k /\ k <= n
    BY <1>1
  <2>2. it[1..k] \in Ranks /\ DOMAIN it[1..k] = HeadLevels(t, k)
    BY <1>10, <2>1
  <2>3. it[1..(k + 1)] = Step(it[1..k], t[k + 1])
    BY <1>8, <2>1
  <2>4. HeadLevels(t, k + 1) = HeadLevels(t, k) \cup (IF t[k + 1].role = "H" THEN {t[k + 1].level} ELSE {})
    <3>1. 1..(k + 1) = (1..k) \cup {k + 1}
      OBVIOUS
    <3> QED
      BY <3>1 DEF HeadLevels
  <2> QED
    BY <1>3, <2>1, <2>2, <2>3, <2>4, ZenonT(40)
<1>11. \A k \in Nat : k \in S
  <2> HIDE DEF S
  <2> QED
    BY <1>9, <1>10, Induction
<1> QED
  BY <1>1, <1>2, <1>11

-----------------------------------------------------------------------------
(* The tags and what the loop keeps of them.                               *)
Groupings == {"Sect", "L", "TR", "Table"}

TagSet == [type : Groupings \cup {"H", "P", "Span", "LI", "TD"}, parent : Nat, node : Nat, name : Int \cup Seq(Int)]

(* The type a node is tagged with.                                         *)
LeafFits(n, type) ==
    CASE text[n].role = "H" -> type = "H"
      [] text[n].role = "P" -> type = IF FirstOfGroup(n) = n THEN "P" ELSE "Span"
      [] text[n].role = "Label" -> type = "P"
      [] text[n].role = "LI" -> type = IF text[n].of = None THEN "LI" ELSE "P"
      [] text[n].role = "Table" -> type = "Table"
      [] text[n].role = "TD" -> type = "TD"
      [] OTHER -> FALSE

TagsOK ==
  /\ next \in 0..Len(text) /\ tags \in Seq(TagSet)
  /\ \A i \in DOMAIN tags : tags[i].parent < i
  /\ \A i \in DOMAIN tags : IF tags[i].node = None THEN tags[i].type \in Groupings
                            ELSE tags[i].node \in 1..next /\ LeafFits(tags[i].node, tags[i].type)
  /\ \A i, j \in DOMAIN tags : i < j /\ tags[i].node # None /\ tags[j].node # None => tags[i].node < tags[j].node
  /\ \A n \in 1..next : text[n].role # "Artifact" => \E i \in DOMAIN tags : tags[i].node = n

PointsIn(ts, p, type) == p \in DOMAIN ts /\ ts[p].type = type
Points(p, type) == PointsIn(tags, p, type)

ListSet == [level : Nat, tag : Nat, last : Nat, group : {text[n].group : n \in DOMAIN text}]
RowSet == [page : Int, row : Int, number : Int, tag : Nat]

SectionsOK == /\ sections \in Seq([level : Int, tag : Nat])
              /\ \A k \in DOMAIN sections : Points(sections[k].tag, "Sect")

ListsOK == /\ lists \in Seq(ListSet)
           /\ \A k \in DOMAIN lists : lists[k].level = k /\ Points(lists[k].tag, "L") /\ Points(lists[k].last, "LI")

OpenTableOK ==
  /\ table \in [tag : Nat, group : Seq(Int), page : Int, offset : Int, many : BOOLEAN, rows : Seq(RowSet)]
  /\ IF table.tag = None THEN table = NoTable ELSE Points(table.tag, "Table")
  /\ \A k \in DOMAIN table.rows : Points(table.rows[k].tag, "TR")

DiagramOK == diagram.tag \in Nat /\ (diagram.tag # None => Points(diagram.tag, "Sect"))

PointersOK == SectionsOK /\ ListsOK /\ OpenTableOK /\ DiagramOK

Tidy == /\ TextOK(text) /\ levels \in Ranks /\ DOMAIN levels = HeadLevels(text, Len(text))
        /\ TagsOK /\ PointersOK

(* What a step adds: a chain of tags below p, the last of them for the     *)
(* node that is read.                                                      *)
Hangs(p, new) ==
  /\ p \in 0..Len(tags) /\ new \in Seq(TagSet) /\ Len(new) \in 1..3
  /\ tags' = tags \o new
  /\ tags' \in Seq(TagSet) /\ Len(tags') = Len(tags) + Len(new)
  /\ \A i \in DOMAIN tags : tags'[i] = tags[i]
  /\ \A k \in 1..Len(new) : tags'[Len(tags) + k] = new[k]
  /\ \A k \in 1..Len(new) : new[k].parent = IF k = 1 THEN p ELSE Len(tags) + k - 1
  /\ \A k \in 1..Len(new) : IF k < Len(new) THEN new[k].node = None /\ new[k].type \in Groupings
                            ELSE new[k].node = next + 1 /\ LeafFits(next + 1, new[k].type)

LEMMA Hung ==
  ASSUME tags \in Seq(TagSet), NEW new \in Seq(TagSet), tags' = tags \o new
  PROVE  /\ tags' \in Seq(TagSet) /\ Len(tags') = Len(tags) + Len(new)
         /\ \A i \in DOMAIN tags : tags'[i] = tags[i]
         /\ \A k \in 1..Len(new) : tags'[Len(tags) + k] = new[k]
<1> DEFINE S == TagSet
<1>1. tags \in Seq(S) /\ new \in Seq(S)
  OBVIOUS
<1> HIDE DEF S
<1>2. tags \o new \in Seq(S) /\ Len(tags \o new) = Len(tags) + Len(new)
  BY <1>1
<1>3. Len(tags) \in Nat /\ DOMAIN tags = 1..Len(tags) /\ Len(new) \in Nat
  BY <1>1
<1>4. \A i \in 1..(Len(tags) + Len(new)) :
         (tags \o new)[i] = IF i <= Len(tags) THEN tags[i] ELSE new[i - Len(tags)]
  BY <1>1
<1> QED
  BY <1>2, <1>3, <1>4 DEF S

LEMMA HungOne ==
  ASSUME TagsOK, NEW p \in 0..Len(tags), NEW a \in TagSet, tags' = Append(tags, a),
         a.parent = p, a.node = next + 1, LeafFits(next + 1, a.type)
  PROVE  Hangs(p, <<a>>)
<1>1. tags \in Seq(TagSet) /\ <<a>> \in Seq(TagSet) /\ Len(<<a>>) = 1 /\ <<a>>[1] = a
  BY DEF TagsOK
<1>2. tags' = tags \o <<a>>
  <2> DEFINE S == TagSet
  <2>1. tags \in Seq(S) /\ a \in S
    BY <1>1
  <2> HIDE DEF S
  <2>2. Append(tags, a) = tags \o <<a>>
    BY <2>1
  <2> QED
    BY <2>2
<1>3. /\ tags' \in Seq(TagSet) /\ Len(tags') = Len(tags) + 1
      /\ \A i \in DOMAIN tags : tags'[i] = tags[i]
      /\ \A k \in 1..Len(<<a>>) : tags'[Len(tags) + k] = <<a>>[k]
  BY <1>1, <1>2, Hung
<1>4. \A k \in 1..Len(<<a>>) : k = 1
  BY <1>1
<1> QED
  BY <1>1, <1>2, <1>3, <1>4 DEF Hangs

LEMMA HungTwo ==
  ASSUME TagsOK, NEW p \in 0..Len(tags), NEW a \in TagSet, NEW b \in TagSet, tags' = tags \o <<a, b>>,
         a.parent = p, a.node = None, a.type \in Groupings,
         b.parent = Len(tags) + 1, b.node = next + 1, LeafFits(next + 1, b.type)
  PROVE  Hangs(p, <<a, b>>)
<1>1. tags \in Seq(TagSet) /\ <<a, b>> \in Seq(TagSet) /\ Len(<<a, b>>) = 2 /\ <<a, b>>[1] = a /\ <<a, b>>[2] = b
  BY DEF TagsOK
<1>2. /\ tags' \in Seq(TagSet) /\ Len(tags') = Len(tags) + 2
      /\ \A i \in DOMAIN tags : tags'[i] = tags[i]
      /\ \A k \in 1..Len(<<a, b>>) : tags'[Len(tags) + k] = <<a, b>>[k]
  BY <1>1, Hung
<1>3. \A k \in 1..Len(<<a, b>>) : k = 1 \/ k = 2
  BY <1>1
<1>4. Len(tags) \in Nat /\ Len(tags) + 2 - 1 = Len(tags) + 1
  BY <1>1
<1> QED
  BY <1>1, <1>2, <1>3, <1>4 DEF Hangs

LEMMA HungThree ==
  ASSUME TagsOK, NEW p \in 0..Len(tags), NEW a \in TagSet, NEW b \in TagSet, NEW c \in TagSet,
         tags' = tags \o <<a, b, c>>,
         a.parent = p, a.node = None, a.type \in Groupings,
         b.parent = Len(tags) + 1, b.node = None, b.type \in Groupings,
         c.parent = Len(tags) + 2, c.node = next + 1, LeafFits(next + 1, c.type)
  PROVE  Hangs(p, <<a, b, c>>)
<1>1. /\ tags \in Seq(TagSet) /\ <<a, b, c>> \in Seq(TagSet) /\ Len(<<a, b, c>>) = 3
      /\ <<a, b, c>>[1] = a /\ <<a, b, c>>[2] = b /\ <<a, b, c>>[3] = c
  BY DEF TagsOK
<1>2. /\ tags' \in Seq(TagSet) /\ Len(tags') = Len(tags) + 3
      /\ \A i \in DOMAIN tags : tags'[i] = tags[i]
      /\ \A k \in 1..Len(<<a, b, c>>) : tags'[Len(tags) + k] = <<a, b, c>>[k]
  BY <1>1, Hung
<1>3. \A k \in 1..Len(<<a, b, c>>) : k = 1 \/ k = 2 \/ k = 3
  BY <1>1
<1>4. Len(tags) \in Nat /\ Len(tags) + 2 - 1 = Len(tags) + 1 /\ Len(tags) + 3 - 1 = Len(tags) + 2
  BY <1>1
<1>5. \A k \in 1..Len(<<a, b, c>>) : <<a, b, c>>[k].parent = IF k = 1 THEN p ELSE Len(tags) + k - 1
  BY <1>1, <1>3, <1>4
<1>6. \A k \in 1..Len(<<a, b, c>>) : IF k < Len(<<a, b, c>>) THEN <<a, b, c>>[k].node = None /\ <<a, b, c>>[k].type \in Groupings
                            ELSE <<a, b, c>>[k].node = next + 1 /\ LeafFits(next + 1, <<a, b, c>>[k].type)
  <2> DEFINE s == <<a, b, c>>
             fits == LeafFits(next + 1, c.type)
  <2>1. Len(s) = 3 /\ s[1] = a /\ s[2] = b /\ s[3] = c /\ \A k \in 1..Len(s) : k = 1 \/ k = 2 \/ k = 3
    BY <1>1, <1>3
  <2>2. fits
    OBVIOUS
  <2> HIDE DEF s, fits
  <2>3. ASSUME NEW k \in 1..Len(s), k < Len(s) PROVE s[k].node = None /\ s[k].type \in Groupings
    BY <2>1, <2>3
  <2>4. ASSUME NEW k \in 1..Len(s), ~(k < Len(s)) PROVE s[k].node = next + 1 /\ s[k] = c
    BY <2>1, <2>4
  <2> QED
    BY <2>2, <2>3, <2>4 DEF s, fits
<1>7. p \in 0..Len(tags) /\ Len(<<a, b, c>>) \in 1..3
  BY <1>1
<1> QED
  BY <1>1, <1>2, <1>5, <1>6, <1>7 DEF Hangs

LEMMA GreatestAtMost ==
  ASSUME NEW n \in Nat, NEW S \in SUBSET (0..n), S # {}
  PROVE  Max(S) \in S /\ \A y \in S : y <= Max(S)
<1>1. IsFiniteSet(0..n)
  BY FS_Interval
<1>2. S \subseteq 0..n /\ S \subseteq Int
  OBVIOUS
<1>3. IsFiniteSet(S)
  BY <1>1, <1>2, FS_Subset
<1> QED
  BY <1>2, <1>3, Greatest

LEMMA FirstIs ==
  ASSUME TextOK(text), NEW n \in DOMAIN text
  PROVE  /\ FirstOfGroup(n) \in 1..n /\ FirstOfGroup(FirstOfGroup(n)) = FirstOfGroup(n)
         /\ text[n].role = "P" => text[FirstOfGroup(n)].role = "P"
         /\ FirstOfGroup(n) # n => /\ text[FirstOfGroup(n)].role = "P"
                                   /\ text[n].role = "P" /\ text[n].group # None
                                   /\ text[FirstOfGroup(n)].group = text[n].group
<1>1. DOMAIN text = 1..Len(text) /\ Len(text) \in Nat /\ n \in Nat
  BY PiecesOfAText
<1>2. CASE ~(text[n].role = "P" /\ text[n].group # None)
  <2>1. FirstOfGroup(n) = n
    BY <1>2 DEF FirstOfGroup
  <2> QED
    BY <1>1, <2>1
<1>3. CASE text[n].role = "P" /\ text[n].group # None
  <2> DEFINE S == {m \in 1..n : text[m].role = "P" /\ text[m].group = text[n].group}
             f == Min(S)
  <2>1. n \in S /\ S \subseteq 1..n /\ S \subseteq Int
    BY <1>1, <1>3
  <2>2. IsFiniteSet(S)
    BY <2>1, <1>1, PlacesAreFinite, FS_Subset
  <2>3. f \in S /\ \A y \in S : f <= y
    <3> HIDE DEF S
    <3> QED
      BY <2>1, <2>2, Lowest
  <2>4. FirstOfGroup(n) = f
    BY <1>3 DEF FirstOfGroup
  <2>5. f \in 1..n /\ text[f].role = "P" /\ text[f].group = text[n].group
    BY <2>3
  <2>6. FirstOfGroup(f) = f
    <3> DEFINE R == {m \in 1..f : text[m].role = "P" /\ text[m].group = text[f].group}
    <3>1. FirstOfGroup(f) = Min(R)
      BY <1>3, <2>5 DEF FirstOfGroup
    <3>2. R \subseteq S /\ f \in R
      <4> HIDE DEF f
      <4>1. f \in 1..f /\ \A m \in 1..f : m \in 1..n
        BY <1>1, <2>5
      <4> QED
        BY <2>5, <4>1
    <3>3. IsFiniteSet(R) /\ R \subseteq Int /\ R # {}
      BY <2>1, <2>2, <3>2, FS_Subset
    <3>4. Min(R) \in R /\ Min(R) <= f
      <4> HIDE DEF R, f
      <4> QED
        BY <3>2, <3>3, Lowest, ZenonT(40)
    <3>5. f <= Min(R)
      BY <2>3, <3>2, <3>4, ZenonT(40)
    <3>6. f \in Int /\ Min(R) \in Int
      BY <2>5, <3>3, <3>4
    <3> HIDE DEF R, f
    <3> QED
      BY <3>1, <3>4, <3>5, <3>6
  <2> HIDE DEF f
  <2> QED
    BY <1>3, <2>4, <2>5, <2>6
<1> QED
  BY <1>2, <1>3

LEMMA ContainerIs ==
  ASSUME TagsOK, PointersOK
  PROVE  /\ Container \in 0..Len(tags) /\ Container \in Nat
         /\ Container = None \/ Points(Container, "Sect")
<1>1. Len(tags) \in Nat /\ DOMAIN tags = 1..Len(tags)
  BY DEF TagsOK
<1>2. CASE sections = << >>
  BY <1>1, <1>2 DEF Container, None
<1>3. CASE sections # << >>
  <2>1. Len(sections) \in DOMAIN sections
    BY <1>3 DEF PointersOK, SectionsOK, ListsOK, OpenTableOK, DiagramOK
  <2>2. Points(sections[Len(sections)].tag, "Sect")
    BY <2>1 DEF PointersOK, SectionsOK, ListsOK, OpenTableOK, DiagramOK
  <2>3. Container = sections[Len(sections)].tag
    BY <1>3 DEF Container
  <2> QED
    BY <1>1, <2>2, <2>3 DEF Points, PointsIn
<1> QED
  BY <1>2, <1>3

LEMMA TagIsTag ==
  ASSUME NEW type \in Groupings \cup {"H", "P", "Span", "LI", "TD"}, NEW p \in Nat, NEW n \in Nat, NEW name \in Int \cup Seq(Int)
  PROVE  /\ Tag(type, p, n, name) \in TagSet
         /\ Tag(type, p, n, name).type = type /\ Tag(type, p, n, name).parent = p
         /\ Tag(type, p, n, name).node = n /\ Tag(type, p, n, name).name = name
BY DEF Tag, TagSet

LEMMA LeafIsTag ==
  ASSUME TagsOK, NEW type \in {"H", "P", "Span", "LI", "TD"}, NEW p \in Nat
  PROVE  /\ Leaf(type, p) \in TagSet
         /\ Leaf(type, p).type = type /\ Leaf(type, p).parent = p
         /\ Leaf(type, p).node = next + 1 /\ Leaf(type, p).name = None
<1>1. next + 1 \in Nat /\ None \in Int \cup Seq(Int)
  BY DEF TagsOK, None
<1>2. type \in Groupings \cup {"H", "P", "Span", "LI", "TD"}
  OBVIOUS
<1> QED
  BY <1>1, <1>2, TagIsTag DEF Leaf

LEMMA GroupIsTag ==
  ASSUME NEW type \in Groupings, NEW p \in Nat
  PROVE  /\ Tag(type, p, None, None) \in TagSet
         /\ Tag(type, p, None, None).type = type /\ Tag(type, p, None, None).parent = p
         /\ Tag(type, p, None, None).node = None
<1>1. None \in Int \cup Seq(Int) /\ None \in Nat
  BY DEF None
<1> QED
  BY <1>1, TagIsTag

LEMMA ThisIs ==
  ASSUME TextOK(text), TagsOK, next < Len(text)
  PROVE  /\ next + 1 \in DOMAIN text /\ next + 1 \in Nat /\ PieceOK(This)
         /\ Len(tags) \in Nat /\ DOMAIN tags = 1..Len(tags)
<1>1. next + 1 \in DOMAIN text
  BY PiecesOfAText DEF TagsOK
<1> QED
  BY <1>1, PiecesOfAText DEF This, TagsOK

-----------------------------------------------------------------------------
LEMMA LabelHangs ==
  ASSUME Tidy, TagLabel
  PROVE  \/ /\ Points(diagram.tag, "Sect") /\ Hangs(diagram.tag, <<Leaf("P", diagram.tag)>>)
            /\ diagram.parent = Container /\ UNCHANGED diagram
         \/ /\ Hangs(Container, <<Tag("Sect", Container, None, None), Leaf("P", Len(tags) + 1)>>)
            /\ diagram' = [group |-> This.group, parent |-> Container, tag |-> Len(tags) + 1]
<1>1. This.role = "Label" /\ next < Len(text) /\ TextOK(text) /\ TagsOK /\ PointersOK
  BY DEF TagLabel, Reads, Tidy
<1>2. LeafFits(next + 1, "P")
  BY <1>1 DEF LeafFits, This
<1>3. CASE diagram.tag # None /\ diagram.group = This.group /\ diagram.parent = Container
  <2>1. Points(diagram.tag, "Sect") /\ diagram.tag \in Nat
    BY <1>1, <1>3 DEF PointersOK, SectionsOK, ListsOK, OpenTableOK, DiagramOK
  <2>2. diagram.tag \in 0..Len(tags)
    BY <1>1, <2>1, ThisIs DEF Points, PointsIn
  <2>3. tags' = Append(tags, Leaf("P", diagram.tag)) /\ UNCHANGED diagram
    BY <1>3 DEF TagLabel
  <2>4. Hangs(diagram.tag, <<Leaf("P", diagram.tag)>>)
    BY <1>1, <1>2, <2>1, <2>2, <2>3, LeafIsTag, HungOne
  <2> QED
    BY <1>3, <2>1, <2>3, <2>4
<1>4. CASE ~(diagram.tag # None /\ diagram.group = This.group /\ diagram.parent = Container)
  <2>1. tags' = tags \o <<Tag("Sect", Container, None, None), Leaf("P", Len(tags) + 1)>>
        /\ diagram' = [group |-> This.group, parent |-> Container, tag |-> Len(tags) + 1]
    BY <1>4 DEF TagLabel
  <2>2. Container \in 0..Len(tags) /\ Container \in Nat
    BY <1>1, ContainerIs
  <2>3. Len(tags) + 1 \in Nat
    BY <1>1, ThisIs
  <2>4. "Sect" \in Groupings
    BY DEF Groupings
  <2>5. Hangs(Container, <<Tag("Sect", Container, None, None), Leaf("P", Len(tags) + 1)>>)
    <3> DEFINE a == Tag("Sect", Container, None, None)
               b == Leaf("P", Len(tags) + 1)
    <3>1. a \in TagSet /\ a.type \in Groupings /\ a.parent = Container /\ a.node = None
      BY <2>2, <2>4, GroupIsTag
    <3>2. b \in TagSet /\ b.parent = Len(tags) + 1 /\ b.node = next + 1 /\ LeafFits(next + 1, b.type)
      BY <1>1, <1>2, <2>3, LeafIsTag
    <3>3. tags' = tags \o <<a, b>>
      BY <2>1
    <3> HIDE DEF a, b
    <3>4. Hangs(Container, <<a, b>>)
      BY <1>1, <2>2, <3>1, <3>2, <3>3, HungTwo
    <3> QED
      BY <3>4 DEF a, b
  <2> QED
    BY <2>1, <2>5
<1> QED
  BY <1>3, <1>4

LEMMA HeadingHangs ==
  ASSUME Tidy, TagHeading
  PROVE  LET level == levels[This.level]
         IN  \E kept \in 0..Len(sections) :
                LET parent == IF kept = 0 THEN None ELSE sections[kept].tag
                IN  /\ \A i \in (kept + 1)..Len(sections) : sections[i].level >= level
                    /\ kept > 0 => sections[kept].level < level
                    /\ level \in Nat \ {0}
                    /\ Hangs(parent, <<Tag("Sect", parent, None, None), Leaf("H", Len(tags) + 1)>>)
                    /\ sections' = Append(SubSeq(sections, 1, kept), [level |-> level, tag |-> Len(tags) + 1])
<1> DEFINE level == levels[This.level]
           S == {0} \cup {i \in DOMAIN sections : sections[i].level < level}
           kept == Max(S)
           parent == IF kept = 0 THEN None ELSE sections[kept].tag
           above == SubSeq(sections, 1, kept)
<1>1. This.role = "H" /\ next < Len(text) /\ TextOK(text) /\ TagsOK /\ PointersOK
  BY DEF TagHeading, Reads, Tidy
<1>2. LeafFits(next + 1, "H")
  BY <1>1 DEF LeafFits, This
<1>3. level \in Nat \ {0}
  <2>1. next + 1 \in 1..Len(text) /\ text[next + 1].role = "H"
    BY <1>1, ThisIs, PiecesOfAText DEF This
  <2>2. This.level \in DOMAIN levels
    BY <2>1 DEF Tidy, HeadLevels, This
  <2>3. \A l \in DOMAIN levels : levels[l] \in Nat \ {0}
    <3>1. PICK L \in SUBSET Int : levels \in [L -> Nat \ {0}]
      BY DEF Ranks, Tidy
    <3>2. DOMAIN levels = L
      BY <3>1
    <3> QED
      BY <3>1, <3>2
  <2> QED
    BY <2>2, <2>3
<1>4. sections \in Seq([level : Int, tag : Nat]) /\ Len(sections) \in Nat /\ DOMAIN sections = 1..Len(sections)
  BY <1>1 DEF PointersOK, SectionsOK, ListsOK, OpenTableOK, DiagramOK
<1>5. kept \in S /\ \A y \in S : y <= kept
  <2>1. S \in SUBSET (0..Len(sections)) /\ S # {}
    BY <1>4
  <2> HIDE DEF S
  <2> QED
    BY <1>4, <2>1, GreatestAtMost
<1>6. kept \in 0..Len(sections) /\ (kept > 0 => kept \in DOMAIN sections /\ sections[kept].level < level)
  BY <1>4, <1>5
<1>7. ASSUME NEW i \in (kept + 1)..Len(sections) PROVE sections[i].level >= level
  <2>1. i \in DOMAIN sections /\ ~(i <= kept)
    BY <1>4, <1>6
  <2>2. i \notin S
    <3> HIDE DEF kept
    <3> QED
      BY <1>5, <2>1
  <2>3. sections[i].level \in Int
    <3> DEFINE X == [level : Int, tag : Nat]
    <3>1. sections \in Seq(X)
      BY <1>4
    <3> HIDE DEF X
    <3>2. sections[i] \in X
      BY <2>1, <3>1
    <3> QED
      BY <3>2 DEF X
  <2>4. ~(sections[i].level < level)
    BY <2>1, <2>2
  <2> HIDE DEF level
  <2> QED
    BY <1>3, <2>3, <2>4
<1> HIDE DEF S, level, kept
<1>8. above \in Seq([level : Int, tag : Nat]) /\ Len(above) = kept /\ \A i \in 1..kept : above[i] = sections[i]
  <2> DEFINE X == [level : Int, tag : Nat]
  <2>1. sections \in Seq(X) /\ kept \in Nat /\ kept <= Len(sections)
    BY <1>4, <1>6
  <2> HIDE DEF X
  <2>2. SubSeq(sections, 1, kept) \in Seq(X)
    BY <2>1
  <2>3. Len(SubSeq(sections, 1, kept)) = kept /\ \A i \in 1..kept : SubSeq(sections, 1, kept)[i] = sections[i]
    BY <2>1
  <2> QED
    BY <2>2, <2>3 DEF X
<1>9. (IF above = << >> THEN None ELSE above[Len(above)].tag) = parent
  <2>1. above = << >> <=> kept = 0
    BY <1>8, <1>6, SMTT(30)
  <2> QED
    BY <1>6, <1>8, <2>1
<1>10. /\ tags' = tags \o <<Tag("Sect", parent, None, None), Leaf("H", Len(tags) + 1)>>
       /\ sections' = Append(above, [level |-> level, tag |-> Len(tags) + 1])
  BY <1>9, ZenonT(40) DEF TagHeading, level, kept, S
<1>11. parent \in 0..Len(tags) /\ parent \in Nat
  <2>1. kept > 0 => Points(sections[kept].tag, "Sect")
    BY <1>1, <1>6 DEF PointersOK, SectionsOK, ListsOK, OpenTableOK, DiagramOK
  <2> QED
    BY <1>1, <1>6, <2>1, ThisIs DEF Points, PointsIn, None
<1>12. Hangs(parent, <<Tag("Sect", parent, None, None), Leaf("H", Len(tags) + 1)>>)
  <2>1. Len(tags) + 1 \in Nat
    BY <1>1, ThisIs
  <2>2. "Sect" \in Groupings
    BY DEF Groupings
  <2> HIDE DEF parent
  <2> DEFINE a == Tag("Sect", parent, None, None)
             b == Leaf("H", Len(tags) + 1)
  <2>3. a \in TagSet /\ a.type \in Groupings /\ a.parent = parent /\ a.node = None
    BY <1>11, <2>2, GroupIsTag
  <2>4. b \in TagSet /\ b.parent = Len(tags) + 1 /\ b.node = next + 1 /\ LeafFits(next + 1, b.type)
    BY <1>1, <1>2, <2>1, LeafIsTag
  <2>5. tags' = tags \o <<a, b>>
    BY <1>10
  <2> HIDE DEF a, b
  <2>6. Hangs(parent, <<a, b>>)
    BY <1>1, <1>11, <2>3, <2>4, <2>5, HungTwo
  <2> QED
    BY <2>6 DEF a, b
<1> QED
  BY <1>3, <1>6, <1>7, <1>10, <1>12 DEF level

LEMMA ContinueHangs ==
  ASSUME Tidy, ContinueItem, step' = "tagging"
  PROVE  /\ lists # << >> /\ UNCHANGED <<sections, lists, table>> /\ diagram' = NoDiagram
         /\ \E p \in Nat : Points(p, "LI") /\ tags[p].node = This.of /\ Hangs(p, <<Leaf("P", p)>>)
<1> DEFINE items == {i \in DOMAIN tags : tags[i].type = "LI" /\ tags[i].node = This.of}
           p == CHOOSE i \in items : TRUE
<1>1. This.role = "LI" /\ This.of # None /\ next < Len(text) /\ TextOK(text) /\ TagsOK /\ PointersOK /\ step = "tagging"
  BY DEF ContinueItem, Reads, Tidy
<1>2. LeafFits(next + 1, "P")
  BY <1>1 DEF LeafFits, This
<1>3. items # {} /\ lists # << >> /\ tags' = Append(tags, Leaf("P", p))
      /\ UNCHANGED <<sections, lists, table>> /\ diagram' = NoDiagram
  BY DEF ContinueItem, Refuse, EndsDiagram
<1>4. p \in items
  BY <1>3
<1> HIDE DEF p
<1>5. Points(p, "LI") /\ p \in Nat /\ p \in 0..Len(tags) /\ tags[p].node = This.of
  BY <1>1, <1>4, ThisIs DEF Points, PointsIn
<1>6. Hangs(p, <<Leaf("P", p)>>)
  BY <1>1, <1>2, <1>3, <1>5, LeafIsTag, HungOne
<1> QED
  BY <1>3, <1>5, <1>6

LEMMA ItemHangs ==
  ASSUME Tidy, TagItem, step' = "tagging"
  PROVE  \/ /\ StartsList
            /\ Hangs(Container, <<Tag("L", Container, None, None), Leaf("LI", Len(tags) + 1)>>)
            /\ lists' = <<[level |-> 1, tag |-> Len(tags) + 1, last |-> Len(tags) + 2, group |-> This.group]>>
         \/ /\ ~StartsList /\ lists # << >>
            /\ LET top == lists[Len(lists)]
               IN  /\ Hangs(top.last, <<Tag("L", top.last, None, None), Leaf("LI", Len(tags) + 1)>>)
                   /\ lists' = Append(lists, [level |-> Len(lists) + 1, tag |-> Len(tags) + 1,
                                              last |-> Len(tags) + 2, group |-> top.group])
         \/ /\ ~StartsList
            /\ \E k \in DOMAIN lists :
                  /\ Hangs(lists[k].tag, <<Leaf("LI", lists[k].tag)>>)
                  /\ lists' = Append(SubSeq(lists, 1, k - 1),
                                     [level |-> k, tag |-> lists[k].tag, last |-> Len(tags) + 1, group |-> lists[k].group])
<1>1. /\ This.role = "LI" /\ This.of = None /\ next < Len(text) /\ TextOK(text) /\ TagsOK /\ PointersOK
      /\ step = "tagging"
  BY ZenonT(40) DEF TagItem, Reads, Tidy
<1>2. LeafFits(next + 1, "LI")
  BY <1>1 DEF LeafFits, This
<1>3. This.level \in Int /\ This.level >= 1
  BY <1>1, ThisIs DEF PieceOK
<1>4. Len(tags) \in Nat /\ DOMAIN tags = 1..Len(tags) /\ tags \in Seq(TagSet)
  BY <1>1, ThisIs DEF TagsOK
<1>5. Len(lists) \in Nat /\ DOMAIN lists = 1..Len(lists) /\ lists \in Seq(ListSet)
      /\ \A k \in DOMAIN lists : /\ lists[k].level = k /\ Points(lists[k].tag, "L") /\ Points(lists[k].last, "LI")
                                 /\ lists[k].tag \in Nat /\ lists[k].last \in Nat
  <2>1. lists \in Seq(ListSet) /\ \A k \in DOMAIN lists : lists[k].level = k /\ Points(lists[k].tag, "L") /\ Points(lists[k].last, "LI")
    BY <1>1 DEF PointersOK, SectionsOK, ListsOK, OpenTableOK, DiagramOK
  <2>2. \A k \in DOMAIN lists : lists[k].tag \in Nat /\ lists[k].last \in Nat
    BY <1>4, <2>1 DEF Points, PointsIn
  <2> DEFINE X == ListSet
  <2>3. lists \in Seq(X)
    BY <2>1
  <2> HIDE DEF X
  <2>4. Len(lists) \in Nat /\ DOMAIN lists = 1..Len(lists)
    BY <2>3, SMTT(30)
  <2> QED
    BY <2>1, <2>2, <2>4
<1> DEFINE started == IF StartsList THEN Append(tags, Tag("L", Container, None, None)) ELSE tags
           open == IF StartsList
                   THEN <<[level |-> 1, tag |-> Len(started), last |-> None, group |-> This.group]>>
                   ELSE SubSeq(lists, 1, Max({1} \cup {i \in DOMAIN lists : lists[i].level <= This.level}))
           top == open[Len(open)]
           nests == This.level > top.level
           nested == IF nests THEN Append(started, Tag("L", top.last, None, None)) ELSE started
           list == IF nests THEN Len(nested) ELSE top.tag
           outer == IF nests THEN open ELSE SubSeq(open, 1, Len(open) - 1)
<1>6. ~(nests /\ (top.last = None \/ This.level # top.level + 1))
  BY <1>1, ZenonT(40) DEF TagItem, Refuse
<1>7. /\ tags' = Append(nested, Leaf("LI", list))
      /\ lists' = Append(outer, [level |-> This.level, tag |-> list, last |-> Len(nested) + 1, group |-> top.group])
  <2>1. IF nests /\ (top.last = None \/ This.level # top.level + 1) THEN Refuse
        ELSE /\ tags' = Append(nested, Leaf("LI", list))
             /\ lists' = Append(outer, [level |-> This.level, tag |-> list, last |-> Len(nested) + 1, group |-> top.group])
    BY ZenonT(40) DEF TagItem
  <2> QED
    BY <1>6, <2>1, ZenonT(40)
<1> HIDE DEF nests, nested, list, outer, started, open
<1>8. "L" \in Groupings
  BY DEF Groupings
<1>9. ASSUME NEW p \in Nat, NEW q \in Nat, p \in 0..Len(tags), q = Len(tags) + 1,
             tags' = Append(Append(tags, Tag("L", p, None, None)), Leaf("LI", q))
      PROVE  Hangs(p, <<Tag("L", p, None, None), Leaf("LI", q)>>)
  <2> DEFINE a == Tag("L", p, None, None)
             b == Leaf("LI", q)
  <2>1. a \in TagSet /\ a.type \in Groupings /\ a.parent = p /\ a.node = None
    BY <1>8, GroupIsTag
  <2>2. b \in TagSet /\ b.parent = Len(tags) + 1 /\ b.node = next + 1 /\ LeafFits(next + 1, b.type)
    BY <1>1, <1>2, <1>4, <1>9, LeafIsTag
  <2> HIDE DEF a, b
  <2>3. tags' = tags \o <<a, b>>
    <3> DEFINE S == TagSet
    <3>1. tags \in Seq(S) /\ a \in S /\ b \in S
      BY <1>4, <2>1, <2>2
    <3> HIDE DEF S
    <3>2. Append(Append(tags, a), b) = tags \o <<a, b>>
      BY <3>1
    <3> QED
      BY <1>9, <3>2 DEF a, b
  <2>4. Hangs(p, <<a, b>>)
    BY <1>1, <1>9, <2>1, <2>2, <2>3, HungTwo
  <2> QED
    BY <2>4 DEF a, b
<1>10. CASE StartsList
  <2>1. started = Append(tags, Tag("L", Container, None, None))
    BY <1>10 DEF started
  <2>2. Container \in 0..Len(tags) /\ Container \in Nat
    BY <1>1, ContainerIs
  <2>3. Len(started) = Len(tags) + 1
    <3> DEFINE a == Tag("L", Container, None, None)
               S == TagSet
    <3>1. a \in S /\ tags \in Seq(S)
      BY <1>4, <1>8, <2>2, GroupIsTag
    <3> HIDE DEF a, S
    <3>2. Len(Append(tags, a)) = Len(tags) + 1
      BY <3>1
    <3> QED
      BY <2>1, <3>2 DEF a
  <2>4. open = <<[level |-> 1, tag |-> Len(started), last |-> None, group |-> This.group]>>
    BY <1>10 DEF open
  <2>5. Len(open) = 1 /\ top = [level |-> 1, tag |-> Len(started), last |-> None, group |-> This.group]
    BY <2>4
  <2>6. ~nests
    BY <1>6, <2>5 DEF nests
  <2>7. This.level = 1
    BY <1>3, <2>5, <2>6 DEF nests
  <2>8. nested = started /\ list = Len(tags) + 1 /\ outer = << >>
    BY <2>3, <2>4, <2>5, <2>6 DEF nested, list, outer
  <2>9. tags' = Append(Append(tags, Tag("L", Container, None, None)), Leaf("LI", Len(tags) + 1))
    BY <1>7, <2>1, <2>8
  <2>10. lists' = <<[level |-> 1, tag |-> Len(tags) + 1, last |-> Len(tags) + 2, group |-> This.group]>>
    <3>1. Len(nested) + 1 = Len(tags) + 2
      BY <1>4, <2>3, <2>8
    <3> QED
      BY <1>7, <2>5, <2>7, <2>8, <3>1
  <2>11. Len(tags) + 1 \in Nat
    BY <1>4
  <2> QED
    BY <1>9, <1>10, <2>2, <2>9, <2>10, <2>11
<1>11. CASE ~StartsList
  <2> DEFINE S == {1} \cup {i \in DOMAIN lists : lists[i].level <= This.level}
             k == Max(S)
  <2>1. lists # << >> /\ Len(lists) >= 1
    BY <1>5, <1>11 DEF StartsList
  <2>2. S \in SUBSET (0..Len(lists)) /\ S # {}
    BY <1>5, <2>1
  <2>3. k \in S /\ \A y \in S : y <= k
    <3> HIDE DEF S
    <3> QED
      BY <1>5, <2>2, GreatestAtMost
  <2>4. k \in DOMAIN lists /\ lists[k].level = k
    BY <1>5, <2>1, <2>3
  <2>5. k <= This.level
    BY <1>3, <1>5, <2>3, <2>4
  <2>6. started = tags /\ open = SubSeq(lists, 1, k)
    BY <1>11 DEF started, open
  <2>7. This.level > k => k = Len(lists)
    <3> SUFFICES ASSUME This.level > k, k # Len(lists) PROVE FALSE
      OBVIOUS
    <3>1. k + 1 \in DOMAIN lists /\ lists[k + 1].level = k + 1 /\ k \in Nat
      BY <1>5, <2>4
    <3>2. k + 1 \in S
      BY <1>3, <3>1
    <3> HIDE DEF S, k
    <3> QED
      BY <2>3, <3>1, <3>2
  <2> HIDE DEF S, k
  <2>8. /\ Len(open) = k /\ top = lists[k] /\ Len(open) - 1 = k - 1
        /\ (k = Len(lists) => open = lists) /\ SubSeq(open, 1, k - 1) = SubSeq(lists, 1, k - 1)
    <3> DEFINE X == ListSet
    <3>1. lists \in Seq(X) /\ k \in 1..Len(lists)
      BY <1>5, <2>4
    <3> HIDE DEF X
    <3>2. /\ Len(SubSeq(lists, 1, k)) = k /\ SubSeq(lists, 1, k) \in Seq(X)
          /\ \A i \in 1..k : SubSeq(lists, 1, k)[i] = lists[i]
      BY <3>1
    <3>3. k = Len(lists) => SubSeq(lists, 1, k) = lists
      BY <3>1, <3>2
    <3>4. SubSeq(SubSeq(lists, 1, k), 1, k - 1) = SubSeq(lists, 1, k - 1)
      BY <3>1, <3>2
    <3>5. k \in 1..k
      BY <3>1
    <3> QED
      BY <2>6, <3>2, <3>3, <3>4, <3>5
  <2>9. nests <=> This.level > k
    BY <2>4, <2>8 DEF nests
  <2>10. CASE nests
    <3>1. k = Len(lists) /\ This.level = k + 1 /\ open = lists /\ top = lists[Len(lists)]
      BY <1>6, <2>4, <2>7, <2>8, <2>9, <2>10
    <3>2. nested = Append(tags, Tag("L", top.last, None, None)) /\ outer = lists /\ list = Len(nested)
      BY <2>6, <2>10, <3>1 DEF nested, list, outer
    <3>3. top.last \in Nat /\ top.last \in 0..Len(tags)
      BY <1>4, <1>5, <2>4, <2>8 DEF Points, PointsIn
    <3>4. Len(nested) = Len(tags) + 1
      <4> DEFINE a == Tag("L", top.last, None, None)
                 T == TagSet
      <4>1. a \in T /\ tags \in Seq(T)
        BY <1>4, <1>8, <3>3, GroupIsTag
      <4> HIDE DEF a, T
      <4>2. Len(Append(tags, a)) = Len(tags) + 1
        BY <4>1
      <4> QED
        BY <3>2, <4>2 DEF a
    <3>5. tags' = Append(Append(tags, Tag("L", top.last, None, None)), Leaf("LI", Len(tags) + 1))
      BY <1>7, <3>2, <3>4
    <3>6. Len(tags) + 1 \in Nat /\ Len(nested) + 1 = Len(tags) + 2
      BY <1>4, <3>4
    <3>7. Hangs(top.last, <<Tag("L", top.last, None, None), Leaf("LI", Len(tags) + 1)>>)
      BY <1>9, <3>3, <3>5, <3>6
    <3>8. lists' = Append(lists, [level |-> Len(lists) + 1, tag |-> Len(tags) + 1,
                                  last |-> Len(tags) + 2, group |-> top.group])
      BY <1>7, <3>1, <3>2, <3>4, <3>6
    <3> HIDE DEF top
    <3> QED
      BY <1>11, <2>1, <3>1, <3>7, <3>8
  <2>11. CASE ~nests
    <3>1. This.level = k
      BY <1>3, <2>4, <2>5, <2>9, <2>11, <1>5
    <3>2. nested = tags /\ outer = SubSeq(lists, 1, k - 1) /\ list = lists[k].tag
      BY <2>6, <2>8, <2>11 DEF nested, list, outer
    <3>3. lists[k].tag \in Nat /\ lists[k].tag \in 0..Len(tags)
      BY <1>4, <1>5, <2>4 DEF Points, PointsIn
    <3>4. tags' = Append(tags, Leaf("LI", lists[k].tag))
      BY <1>7, <3>2
    <3>5. Hangs(lists[k].tag, <<Leaf("LI", lists[k].tag)>>)
      BY <1>1, <1>2, <3>3, <3>4, LeafIsTag, HungOne, SMTT(30)
    <3>6. lists' = Append(SubSeq(lists, 1, k - 1),
                          [level |-> k, tag |-> lists[k].tag, last |-> Len(tags) + 1, group |-> lists[k].group])
      BY <1>7, <2>8, <3>1, <3>2
    <3> QED
      BY <1>11, <2>4, <3>5, <3>6
  <2> QED
    BY <2>10, <2>11
<1> QED
  BY <1>10, <1>11, ZenonT(40)

LEMMA ParagraphHangs ==
  ASSUME Tidy, TagParagraph, step' = "tagging"
  PROVE  \/ /\ FirstOfGroup(next + 1) = next + 1
            /\ Hangs(Container, <<Leaf("P", Container)>>)
         \/ /\ FirstOfGroup(next + 1) # next + 1
            /\ \E p \in Nat : /\ Points(p, "P") /\ tags[p].node = FirstOfGroup(next + 1) /\ tags[p].parent = Container
                              /\ Hangs(p, <<Leaf("Span", p)>>)
<1>1. /\ This.role = "P" /\ next < Len(text) /\ TextOK(text) /\ TagsOK /\ PointersOK /\ step = "tagging"
  BY DEF TagParagraph, Reads, Tidy
<1> DEFINE first == FirstOfGroup(next + 1)
           begun == CHOOSE i \in DOMAIN tags : tags[i].node = first
<1>2. ~(first # next + 1 /\ tags[begun].parent # Container)
  BY <1>1 DEF TagParagraph, Refuse
<1>3. tags' = Append(tags, IF first = next + 1 THEN Leaf("P", Container) ELSE Leaf("Span", begun))
  <2>1. IF first # next + 1 /\ tags[begun].parent # Container THEN Refuse
        ELSE tags' = Append(tags, IF first = next + 1 THEN Leaf("P", Container) ELSE Leaf("Span", begun))
    BY DEF TagParagraph
  <2> QED
    BY <1>2, <2>1
<1>4. CASE first = next + 1
  <2>1. LeafFits(next + 1, "P")
    BY <1>1, <1>4 DEF LeafFits, This
  <2>2. tags' = Append(tags, Leaf("P", Container))
    BY <1>3, <1>4
  <2>3. Hangs(Container, <<Leaf("P", Container)>>)
    BY <1>1, <2>1, <2>2, ContainerIs, LeafIsTag, HungOne
  <2> QED
    BY <1>4, <2>3
<1>5. CASE first # next + 1
  <2>1. LeafFits(next + 1, "Span")
    BY <1>1, <1>5 DEF LeafFits, This
  <2>2. first \in 1..(next + 1) /\ FirstOfGroup(first) = first /\ text[first].role = "P"
    BY <1>1, ThisIs, FirstIs DEF This
  <2>3. first \in 1..next
    BY <1>1, <1>5, <2>2 DEF TagsOK
  <2>4. \E i \in DOMAIN tags : tags[i].node = first
    BY <1>1, <2>2, <2>3 DEF TagsOK
  <2>5. begun \in DOMAIN tags /\ tags[begun].node = first
    BY <2>4
  <2>6. tags' = Append(tags, Leaf("Span", begun)) /\ tags[begun].parent = Container
    BY <1>2, <1>3, <1>5
  <2> HIDE DEF begun, first
  <2>7. tags[begun].node # None
    BY <2>3, <2>5 DEF None
  <2>8. tags[begun].type = "P"
    <3>1. LeafFits(first, tags[begun].type)
      BY <1>1, <2>5, <2>7 DEF TagsOK
    <3> QED
      BY <2>2, <3>1 DEF LeafFits
  <2>9. begun \in Nat /\ begun \in 0..Len(tags)
    BY <1>1, <2>5, ThisIs
  <2>10. Hangs(begun, <<Leaf("Span", begun)>>)
    BY <1>1, <2>1, <2>6, <2>9, LeafIsTag, HungOne
  <2> QED
    BY <1>5, <2>5, <2>6, <2>8, <2>9, <2>10 DEF Points, PointsIn, first
<1> QED
  BY <1>4, <1>5

-----------------------------------------------------------------------------
(* The names of tables.                                                    *)
GroupsOfTables == {text[n].group : n \in TableNodes}

LEMMA TableNodesAre ==
  ASSUME TextOK(text)
  PROVE  /\ IsFiniteSet(TableNodes) /\ TableNodes \subseteq DOMAIN text
         /\ IsFiniteSet(GroupsOfTables) /\ Cardinality(GroupsOfTables) <= Len(text)
         /\ \A n \in TableNodes : text[n].group \in Seq(Int)
<1>1. DOMAIN text = 1..Len(text) /\ Len(text) \in Nat /\ IsFiniteSet(1..Len(text)) /\ Cardinality(1..Len(text)) = Len(text)
  BY PiecesOfAText, PlacesAreFinite
<1>2. TableNodes \subseteq 1..Len(text)
  BY <1>1 DEF TableNodes
<1>3. IsFiniteSet(TableNodes) /\ Cardinality(TableNodes) <= Len(text)
  <2> DEFINE S == 1..Len(text)
  <2>1. IsFiniteSet(S) /\ Cardinality(S) = Len(text) /\ TableNodes \subseteq S
    BY <1>1, <1>2
  <2> HIDE DEF S
  <2>2. IsFiniteSet(TableNodes) /\ Cardinality(TableNodes) <= Cardinality(S)
    BY <2>1, FS_Subset
  <2> QED
    BY <2>1, <2>2
<1> DEFINE f == [n \in TableNodes |-> text[n].group]
<1>4. f \in Surjection(TableNodes, GroupsOfTables)
  BY DEF Surjection, GroupsOfTables
<1>5. IsFiniteSet(GroupsOfTables) /\ Cardinality(GroupsOfTables) <= Cardinality(TableNodes)
  <2> HIDE DEF f
  <2> QED
    BY <1>3, <1>4, FS_Surjection
<1>6. Cardinality(TableNodes) \in Nat /\ Cardinality(GroupsOfTables) \in Nat
  BY <1>3, <1>5, FS_CardinalityType
<1>7. \A n \in TableNodes : text[n].group \in Seq(Int)
  <2> TAKE n \in TableNodes
  <2>1. n \in DOMAIN text /\ text[n].role \in {"Table", "TD"}
    BY DEF TableNodes
  <2>2. PieceOK(text[n])
    BY <2>1, PiecesOfAText
  <2> QED
    BY <2>1, <2>2 DEF PieceOK
<1> QED
  BY <1>1, <1>2, <1>3, <1>5, <1>6, <1>7

LEMMA FreshIs ==
  ASSUME TextOK(text), NEW g \in Seq(Int), IsFiniteSet(Emitted), Cardinality(Emitted) <= Len(text)
  PROVE  /\ FreshName(g) \in Seq(Int) /\ FreshName(g) \notin Emitted
         /\ FreshName(g) = g \/ FreshName(g) \notin GroupsOfTables
         /\ g \in Emitted \cup {FreshName(g)}
<1> DEFINE taken == Emitted \cup GroupsOfTables
           N == 2 * Len(text) + 2
           f == [k \in 2..N |-> Append(g, k)]
           free(k) == Append(g, k) \notin taken /\ \A j \in 2..(k - 1) : Append(g, j) \in taken
           first == CHOOSE k \in 2..N : free(k)
<1>1. Len(text) \in Nat /\ N \in Nat
  BY PiecesOfAText
<1>2. IsFiniteSet(taken) /\ Cardinality(taken) <= 2 * Len(text) /\ Cardinality(taken) \in Nat
  <2>1. IsFiniteSet(GroupsOfTables) /\ Cardinality(GroupsOfTables) <= Len(text)
    BY TableNodesAre
  <2>2. IsFiniteSet(taken) /\ Cardinality(taken) = Cardinality(Emitted) + Cardinality(GroupsOfTables)
                                                    - Cardinality(Emitted \cap GroupsOfTables)
    BY <2>1, FS_Union
  <2>3. IsFiniteSet(Emitted \cap GroupsOfTables)
    <3>1. Emitted \cap GroupsOfTables \subseteq Emitted
      OBVIOUS
    <3> QED
      BY <3>1, FS_Subset
  <2>4. /\ Cardinality(Emitted) \in Nat /\ Cardinality(GroupsOfTables) \in Nat
        /\ Cardinality(Emitted \cap GroupsOfTables) \in Nat /\ Cardinality(taken) \in Nat
    BY <2>1, <2>2, <2>3, FS_CardinalityType
  <2> HIDE DEF taken
  <2> QED
    BY <1>1, <2>1, <2>2, <2>4, SMTT(30)
<1>3. IsFiniteSet(2..N) /\ Cardinality(2..N) = 2 * Len(text) + 1
  BY <1>1, FS_Interval
<1>4. \A j, k \in 2..N : Append(g, j) = Append(g, k) => j = k
  <2> TAKE j, k \in 2..N
  <2>1. j \in Int /\ k \in Int
    OBVIOUS
  <2>2. Append(g, j)[Len(g) + 1] = j /\ Append(g, k)[Len(g) + 1] = k
    BY <2>1
  <2> QED
    BY <2>2
<1>5. \E k \in 2..N : f[k] \notin taken
  <2> SUFFICES ASSUME \A k \in 2..N : f[k] \in taken PROVE FALSE
    OBVIOUS
  <2>1. f \in [2..N -> taken]
    OBVIOUS
  <2>2. Cardinality(taken) < Cardinality(2..N)
    BY <1>1, <1>2, <1>3
  <2>3. \E j, k \in 2..N : j # k /\ f[j] = f[k]
    <3> DEFINE S == 2..N
    <3>1. f \in [S -> taken] /\ IsFiniteSet(S) /\ Cardinality(taken) < Cardinality(S)
      BY <1>3, <2>1, <2>2
    <3> HIDE DEF S, f, taken
    <3>2. \E j, k \in S : j # k /\ f[j] = f[k]
      BY <1>2, <3>1, FS_PigeonHole
    <3> QED
      BY <3>2 DEF S
  <2> QED
    BY <1>4, <2>3
<1>6. \E k \in 2..N : free(k)
  <2> DEFINE S == {k \in 2..N : f[k] \notin taken}
  <2>1. IsFiniteSet(S) /\ S \subseteq Int /\ S # {}
    <3> DEFINE M == 2..N
    <3>1. S \subseteq M /\ M \subseteq Int /\ IsFiniteSet(M)
      BY <1>3
    <3>2. S # {}
      BY <1>5
    <3> HIDE DEF S, M
    <3>3. IsFiniteSet(S)
      BY <3>1, FS_Subset
    <3> QED
      BY <3>1, <3>2, <3>3
  <2>2. PICK k \in S : \A y \in S : k <= y
    <3> HIDE DEF S
    <3> QED
      BY <2>1, LowestOf
  <2>3. ASSUME NEW j \in 2..(k - 1) PROVE Append(g, j) \in taken
    <3>1. j \in 2..N /\ ~(k <= j)
      BY <1>1, <2>2
    <3>2. j \notin S
      <4> HIDE DEF S
      <4> QED
        BY <2>2, <3>1
    <3> QED
      BY <3>1, <3>2
  <2>4. k \in 2..N /\ Append(g, k) \notin taken
    BY <2>2
  <2> QED
    BY <2>3, <2>4
<1>7. first \in 2..N /\ free(first)
  <2> HIDE DEF free
  <2> QED
    BY <1>6
<1>8. FreshName(g) = IF g \notin Emitted THEN g ELSE Append(g, first)
  BY DEF FreshName, GroupsOfTables
<1>9. first \in Int /\ Append(g, first) \notin taken
  BY <1>1, <1>7
<1> HIDE DEF first
<1>10. Append(g, first) \in Seq(Int)
  BY <1>9
<1> QED
  BY <1>8, <1>9, <1>10

(* The name of a table fits a group of cells: it is no other group's.      *)
NameFits(name, group) == name = group \/ name \notin GroupsOfTables

TablesOK ==
  /\ IsFiniteSet(Emitted) /\ Cardinality(Emitted) <= next
  /\ \A i, j \in DOMAIN tags : tags[i].type = "Table" /\ tags[j].type = "Table" /\ tags[i].name = tags[j].name => i = j
  /\ \A n \in TableNodes : n <= next => text[n].group \in Emitted
  /\ \A i \in DOMAIN tags : tags[i].type = "TR" => Points(tags[i].parent, "Table") /\ tags[i].name \in Int
  /\ \A i, j \in DOMAIN tags : tags[i].type = "TR" /\ tags[j].type = "TR" /\ tags[i].parent = tags[j].parent /\ i < j
                                  => tags[i].name < tags[j].name
  /\ \A i \in DOMAIN tags : tags[i].type = "TD" =>
        Points(tags[i].parent, "TR") /\ NameFits(tags[tags[tags[i].parent].parent].name, text[tags[i].node].group)

(* The rows of the table that is open: unless they were taken from several *)
(* pages, their numbers are those of the cells they began with.            *)
RowRead(r) == \E n \in 1..next : /\ text[n].role = "TD" /\ text[n].group = table.group
                                 /\ text[n].page = r.page /\ text[n].row = r.row

RowsOK ==
  /\ table.tag # None => NameFits(tags[table.tag].name, table.group) /\ table.group \in Emitted
  /\ \A k \in DOMAIN table.rows : LET r == table.rows[k]
                                  IN  tags[r.tag].parent = table.tag /\ tags[r.tag].name = r.number
  /\ \A i \in DOMAIN tags : tags[i].type = "TR" /\ tags[i].parent = table.tag =>
        \E k \in DOMAIN table.rows : table.rows[k].tag = i
  /\ ~table.many => /\ table.offset = 0
                    /\ \A k \in DOMAIN table.rows : LET r == table.rows[k]
                          IN  r.page = table.page /\ r.number = r.row /\ RowRead(r)

LEMMA TableHangs ==
  ASSUME Tidy, TablesOK, TagTable
  PROVE  /\ Hangs(Container, <<Tag("Table", Container, next + 1, FreshName(This.group))>>)
         /\ table' = NewTable(Len(tags) + 1, This.group)
<1>1. /\ This.role = "Table" /\ next < Len(text) /\ TextOK(text) /\ TagsOK /\ PointersOK
  BY DEF TagTable, Reads, Tidy
<1>2. LeafFits(next + 1, "Table")
  BY <1>1 DEF LeafFits, This
<1>3. This.group \in Seq(Int)
  BY <1>1, ThisIs DEF PieceOK
<1>4. FreshName(This.group) \in Int \cup Seq(Int)
  <2>1. Cardinality(Emitted) <= Len(text)
    <3>1. Cardinality(Emitted) \in Nat /\ next \in Nat /\ Len(text) \in Nat
      BY <1>1, FS_CardinalityType, PiecesOfAText DEF TablesOK, TagsOK
    <3> QED
      BY <1>1, <3>1 DEF TablesOK
  <2> QED
    BY <1>1, <1>3, <2>1, FreshIs DEF TablesOK
<1> DEFINE a == Tag("Table", Container, next + 1, FreshName(This.group))
<1>5. a \in TagSet /\ a.type = "Table" /\ a.parent = Container /\ a.node = next + 1
  <2>1. "Table" \in Groupings \cup {"H", "P", "Span", "LI", "TD"}
    BY DEF Groupings
  <2>2. Container \in Nat /\ next + 1 \in Nat
    BY <1>1, ContainerIs, ThisIs
  <2>3. /\ a.type = "Table" /\ a.parent = Container /\ a.node = next + 1
        /\ a = [type |-> "Table", parent |-> Container, node |-> next + 1, name |-> FreshName(This.group)]
    BY DEF Tag
  <2>4. a \in TagSet
    BY <1>4, <2>1, <2>2, <2>3 DEF TagSet
  <2> QED
    BY <2>3, <2>4
<1>6. tags' = Append(tags, a) /\ table' = NewTable(Len(tags) + 1, This.group)
  BY DEF TagTable
<1> HIDE DEF a
<1>7. Hangs(Container, <<a>>)
  BY <1>1, <1>2, <1>5, <1>6, ContainerIs, HungOne
<1> QED
  BY <1>6, <1>7 DEF a

LEMMA RowNumbers ==
  ASSUME NEW rows \in Seq(RowSet), rows # << >>
  PROVE  Max({r.number : r \in Range(rows)}) \in Int
<1> DEFINE S == {r.number : r \in Range(rows)}
           f == [k \in DOMAIN rows |-> rows[k].number]
           D == DOMAIN rows
<1>1. Len(rows) \in Nat /\ D = 1..Len(rows) /\ 1 \in D /\ \A k \in D : rows[k] \in RowSet
  OBVIOUS
<1>2. \A k \in D : rows[k].number \in Int
  BY <1>1 DEF RowSet
<1>3. S \subseteq Int /\ S # {}
  BY <1>1, <1>2 DEF Range
<1>4. f \in Surjection(D, S)
  BY DEF Surjection, Range
<1>5. IsFiniteSet(D)
  BY <1>1, PlacesAreFinite
<1> HIDE DEF S, f, D
<1>6. IsFiniteSet(S)
  BY <1>4, <1>5, FS_Surjection
<1>7. Max(S) \in S
  BY <1>3, <1>6, Greatest
<1> QED
  BY <1>3, <1>7 DEF S

LEMMA ThreeMore ==
  ASSUME NEW S, NEW s \in Seq(S), NEW a \in S, NEW b \in S, NEW c \in S
  PROVE  Append(s, a) \o <<b, c>> = s \o <<a, b, c>>
<1> DEFINE p == Append(s, a)
           u == <<b, c>>
           v == <<a, b, c>>
           n == Len(s)
<1>1. n \in Nat /\ p \in Seq(S) /\ Len(p) = n + 1 /\ p[n + 1] = a /\ \A i \in 1..n : p[i] = s[i]
  OBVIOUS
<1>2. u \in Seq(S) /\ Len(u) = 2 /\ u[1] = b /\ u[2] = c
  OBVIOUS
<1>3. v \in Seq(S) /\ Len(v) = 3 /\ v[1] = a /\ v[2] = b /\ v[3] = c
  OBVIOUS
<1>4. s \in Seq(S) /\ Len(s) = n
  OBVIOUS
<1> HIDE DEF p, u, v, n
<1>5. /\ p \o u \in Seq(S) /\ Len(p \o u) = n + 3
      /\ \A i \in 1..(n + 3) : (p \o u)[i] = IF i <= n + 1 THEN p[i] ELSE u[i - (n + 1)]
  <2>1. /\ p \o u \in Seq(S) /\ Len(p \o u) = Len(p) + Len(u)
        /\ \A i \in 1..(Len(p) + Len(u)) : (p \o u)[i] = IF i <= Len(p) THEN p[i] ELSE u[i - Len(p)]
    BY <1>1, <1>2, ConcatProperties
  <2>2. Len(p) = n + 1 /\ Len(p) + Len(u) = n + 3
    BY <1>1, <1>2
  <2> QED
    BY <2>1, <2>2
<1>6. /\ s \o v \in Seq(S) /\ Len(s \o v) = n + 3
      /\ \A i \in 1..(n + 3) : (s \o v)[i] = IF i <= n THEN s[i] ELSE v[i - n]
  <2>1. /\ s \o v \in Seq(S) /\ Len(s \o v) = Len(s) + Len(v)
        /\ \A i \in 1..(Len(s) + Len(v)) : (s \o v)[i] = IF i <= Len(s) THEN s[i] ELSE v[i - Len(s)]
    BY <1>3, <1>4, ConcatProperties
  <2> QED
    BY <1>3, <1>4, <2>1
<1>7. ASSUME NEW i \in 1..(n + 3) PROVE (p \o u)[i] = (s \o v)[i]
  <2>1. i \in 1..n \/ i = n + 1 \/ i = n + 2 \/ i = n + 3
    BY <1>1
  <2>2. (n + 1) - n = 1 /\ (n + 2) - n = 2 /\ (n + 3) - n = 3 /\ (n + 2) - (n + 1) = 1 /\ (n + 3) - (n + 1) = 2
    BY <1>1
  <2>3. ~(n + 1 <= n) /\ ~(n + 2 <= n) /\ ~(n + 3 <= n) /\ ~(n + 2 <= n + 1) /\ ~(n + 3 <= n + 1)
    BY <1>1
  <2>4. CASE i \in 1..n
    <3>1. i <= n /\ i <= n + 1
      BY <1>1, <2>4
    <3>2. (p \o u)[i] = p[i] /\ (s \o v)[i] = s[i]
      BY <1>5, <1>6, <3>1
    <3> QED
      BY <1>1, <2>4, <3>2
  <2>5. CASE i = n + 1
    BY <1>1, <1>2, <1>3, <1>5, <1>6, <2>2, <2>3, <2>5
  <2>6. CASE i = n + 2
    BY <1>1, <1>2, <1>3, <1>5, <1>6, <2>2, <2>3, <2>6
  <2>7. CASE i = n + 3
    BY <1>1, <1>2, <1>3, <1>5, <1>6, <2>2, <2>3, <2>7
  <2> QED
    BY <2>1, <2>4, <2>5, <2>6, <2>7
<1>8. p \o u = s \o v
  BY <1>5, <1>6, <1>7, SeqEqual
<1> QED
  BY <1>8 DEF p, u, v

(* The open table after a cell.                                            *)
TableNow(page_, offset, many, rows) ==
    [tag |-> table.tag, group |-> table.group, page |-> page_, offset |-> offset, many |-> many, rows |-> rows]

LEMMA CellHangs ==
  ASSUME Tidy, TablesOK, RowsOK, TagCell, step' = "tagging"
  PROVE
   \/ /\ table.tag = None \/ table.group # This.group
      /\ Hangs(Container, <<Tag("Table", Container, None, FreshName(This.group)),
                            Tag("TR", Len(tags) + 1, None, This.row), Leaf("TD", Len(tags) + 2)>>)
      /\ table' = [tag |-> Len(tags) + 1, group |-> This.group, page |-> This.page, offset |-> 0, many |-> FALSE,
                   rows |-> <<[page |-> This.page, row |-> This.row, number |-> This.row, tag |-> Len(tags) + 2]>>]
   \/ /\ table.tag # None /\ table.group = This.group
      /\ \E offset \in Int, many \in BOOLEAN, k \in DOMAIN table.rows :
            /\ table.page = None \/ table.page <= This.page
            /\ table.rows[k].page = This.page /\ table.rows[k].row = This.row
            /\ ~many => ~table.many /\ offset = 0 /\ table.page = This.page
            /\ Hangs(table.rows[k].tag, <<Leaf("TD", table.rows[k].tag)>>)
            /\ table' = TableNow(This.page, offset, many, table.rows)
   \/ /\ table.tag # None /\ table.group = This.group
      /\ \E offset \in Int, many \in BOOLEAN :
            /\ table.page = None \/ table.page <= This.page
            /\ \A k \in DOMAIN table.rows : ~(table.rows[k].page = This.page /\ table.rows[k].row = This.row)
            /\ ~many => ~table.many /\ offset = 0 /\ (table.page = This.page \/ table.rows = << >>)
            /\ \A k \in DOMAIN table.rows : table.rows[k].number < This.row + offset
            /\ Hangs(table.tag, <<Tag("TR", table.tag, None, This.row + offset), Leaf("TD", Len(tags) + 1)>>)
            /\ table' = TableNow(This.page, offset, many,
                                 Append(table.rows, [page |-> This.page, row |-> This.row,
                                                     number |-> This.row + offset, tag |-> Len(tags) + 1]))
<1>1. /\ This.role = "TD" /\ next < Len(text) /\ TextOK(text) /\ TagsOK /\ PointersOK /\ step = "tagging"
  BY ZenonT(40) DEF TagCell, Reads, Tidy
<1>2. LeafFits(next + 1, "TD")
  BY <1>1 DEF LeafFits, This
<1>3. This.group \in Seq(Int) /\ This.page \in Int /\ This.row \in Int
  BY <1>1, ThisIs DEF PieceOK
<1>4. /\ Len(tags) \in Nat /\ DOMAIN tags = 1..Len(tags) /\ tags \in Seq(TagSet)
      /\ Container \in 0..Len(tags) /\ Container \in Nat
  BY <1>1, ThisIs, ContainerIs DEF TagsOK
<1>5. /\ table.tag \in Nat /\ table.rows \in Seq(RowSet) /\ table.page \in Int /\ table.offset \in Int /\ table.many \in BOOLEAN
      /\ table = [tag |-> table.tag, group |-> table.group, page |-> table.page, offset |-> table.offset,
                  many |-> table.many, rows |-> table.rows]
      /\ table.tag = None => table = NoTable
      /\ table.tag # None => Points(table.tag, "Table")
      /\ \A k \in DOMAIN table.rows : Points(table.rows[k].tag, "TR")
  BY <1>1 DEF PointersOK, SectionsOK, ListsOK, OpenTableOK, DiagramOK
<1>6. "TR" \in Groupings /\ "Table" \in Groupings
  BY DEF Groupings
<1> DEFINE begins == table.tag = None \/ table.group # This.group
           begun == IF begins THEN Append(tags, Tag("Table", Container, None, FreshName(This.group))) ELSE tags
           t == IF begins THEN NewTable(Len(begun), This.group) ELSE table
           turned == t.page # This.page
           numbers == {r.number : r \in Range(t.rows)}
           offset == IF ~turned THEN t.offset
                     ELSE IF t.rows # << >> /\ This.row <= Max(numbers) THEN Max(numbers) + 1 - This.row ELSE 0
           many == t.many \/ (turned /\ t.rows # << >>)
           number == This.row + offset
           same == {r \in Range(t.rows) : r.page = This.page /\ r.row = This.row}
           row == [page |-> This.page, row |-> This.row, number |-> number, tag |-> Len(begun) + 1]
           now == [t EXCEPT !.page = This.page, !.offset = offset, !.many = many]
           goesBack == \/ t.page # None /\ This.page < t.page
                       \/ same = {} /\ many /\ \E n \in numbers : n >= number
<1>7. /\ ~goesBack
      /\ IF same # {}
         THEN /\ tags' = Append(begun, Leaf("TD", (CHOOSE r \in same : TRUE).tag))
              /\ table' = now
         ELSE /\ tags' = begun \o <<Tag("TR", t.tag, None, number), Leaf("TD", Len(begun) + 1)>>
              /\ table' = [now EXCEPT !.rows = Append(t.rows, row)]
  <2>1. IF goesBack THEN Refuse
        ELSE IF same # {}
             THEN /\ tags' = Append(begun, Leaf("TD", (CHOOSE r \in same : TRUE).tag))
                  /\ table' = now
             ELSE /\ tags' = begun \o <<Tag("TR", t.tag, None, number), Leaf("TD", Len(begun) + 1)>>
                  /\ table' = [now EXCEPT !.rows = Append(t.rows, row)]
    BY ZenonT(40) DEF TagCell
  <2>2. ~Refuse
    BY <1>1 DEF Refuse
  <2> HIDE DEF goesBack, same, now, row, begun, number, t
  <2> QED
    BY <2>1, <2>2, SMTT(30)
<1> HIDE DEF begun, t, turned, numbers, offset, many, number, same, row, now, goesBack
<1>8. CASE begins
  <2> DEFINE a == Tag("Table", Container, None, FreshName(This.group))
             b == Tag("TR", Len(tags) + 1, None, This.row)
             c == Leaf("TD", Len(tags) + 2)
  <2>1. FreshName(This.group) \in Seq(Int)
    <3>1. Cardinality(Emitted) <= Len(text)
      <4>1. Cardinality(Emitted) \in Nat /\ next \in Nat /\ Len(text) \in Nat
        BY <1>1, FS_CardinalityType, PiecesOfAText DEF TablesOK, TagsOK
      <4> QED
        BY <1>1, <4>1 DEF TablesOK
    <3> QED
      BY <1>1, <1>3, <3>1, FreshIs DEF TablesOK
  <2>2. a \in TagSet /\ a.type \in Groupings /\ a.parent = Container /\ a.node = None
    <3>1. a = [type |-> "Table", parent |-> Container, node |-> None, name |-> FreshName(This.group)]
      BY DEF Tag
    <3>2. None \in Nat
      BY DEF None
    <3>3. a \in TagSet
      BY <1>4, <1>6, <2>1, <3>1, <3>2 DEF TagSet
    <3> QED
      BY <1>6, <3>1, <3>3
  <2>3. b \in TagSet /\ b.type \in Groupings /\ b.parent = Len(tags) + 1 /\ b.node = None
    <3>1. b = [type |-> "TR", parent |-> Len(tags) + 1, node |-> None, name |-> This.row]
      BY DEF Tag
    <3>2. None \in Nat
      BY DEF None
    <3>3. b \in TagSet
      BY <1>3, <1>4, <1>6, <3>1, <3>2 DEF TagSet
    <3> QED
      BY <1>6, <3>1, <3>3
  <2>4. c \in TagSet /\ c.parent = Len(tags) + 2 /\ c.node = next + 1 /\ LeafFits(next + 1, c.type)
    <3>1. Len(tags) + 2 \in Nat
      BY <1>4
    <3> QED
      BY <1>1, <1>2, <3>1, LeafIsTag
  <2>5. begun = Append(tags, a) /\ Len(begun) = Len(tags) + 1
    <3>1. begun = Append(tags, a)
      BY <1>8 DEF begun
    <3> DEFINE S == TagSet
    <3>2. tags \in Seq(S) /\ a \in S
      BY <1>4, <2>2
    <3> HIDE DEF a, S
    <3> QED
      BY <3>1, <3>2
  <2>6. /\ t = [tag |-> Len(tags) + 1, group |-> This.group, page |-> None, offset |-> 0, many |-> FALSE, rows |-> << >>]
    BY <1>8, <2>5 DEF t, NewTable, NoTable
  <2>7. Range(t.rows) = {}
    BY <2>6 DEF Range
  <2>8. same = {} /\ offset = 0 /\ many = FALSE /\ number = This.row
    <3>1. same = {} /\ offset = 0 /\ many = FALSE
      BY <2>6, <2>7 DEF same, offset, many
    <3> QED
      BY <1>3, <3>1 DEF number
  <2>9. tags' = tags \o <<a, b, c>>
    <3>1. tags' = Append(tags, a) \o <<b, c>>
      <4>1. tags' = begun \o <<Tag("TR", t.tag, None, number), Leaf("TD", Len(begun) + 1)>>
        BY <1>7, <2>8
      <4>2. t.tag = Len(tags) + 1 /\ Len(begun) + 1 = Len(tags) + 2
        BY <1>4, <2>5, <2>6
      <4> QED
        BY <2>5, <2>8, <4>1, <4>2
    <3> DEFINE S == TagSet
    <3>2. tags \in Seq(S) /\ a \in S /\ b \in S /\ c \in S
      BY <1>4, <2>2, <2>3, <2>4
    <3> HIDE DEF S, a, b, c
    <3>3. Append(tags, a) \o <<b, c>> = tags \o <<a, b, c>>
      BY <3>2, ThreeMore, SMTT(30)
    <3> QED
      BY <3>1, <3>3
  <2>10. table' = [tag |-> Len(tags) + 1, group |-> This.group, page |-> This.page, offset |-> 0, many |-> FALSE,
                   rows |-> <<[page |-> This.page, row |-> This.row, number |-> This.row, tag |-> Len(tags) + 2]>>]
    <3>1. row = [page |-> This.page, row |-> This.row, number |-> This.row, tag |-> Len(tags) + 2]
      BY <1>4, <2>5, <2>8 DEF row
    <3>2. table' = [now EXCEPT !.rows = Append(t.rows, row)]
      BY <1>7, <2>8
    <3>3. now = [tag |-> Len(tags) + 1, group |-> This.group, page |-> This.page, offset |-> 0, many |-> FALSE, rows |-> << >>]
      <4>1. now = [t EXCEPT !.page = This.page, !.offset = 0, !.many = FALSE]
        BY <2>8 DEF now
      <4> QED
        BY <2>6, <4>1
    <3>4. Append(t.rows, row) = <<row>>
      BY <2>6
    <3> QED
      BY <3>1, <3>2, <3>3, <3>4
  <2> HIDE DEF a, b, c
  <2>11. Hangs(Container, <<a, b, c>>)
    BY <1>1, <1>4, <2>2, <2>3, <2>4, <2>9, HungThree
  <2> QED
    BY <1>8, <2>10, <2>11 DEF a, b, c
<1>9. CASE ~begins
  <2>1. t = table /\ begun = tags /\ table.tag # None /\ table.group = This.group
    BY <1>9 DEF t, begun
  <2>2. offset \in Int
    <3>1. t.rows # << >> => Max(numbers) \in Int
      BY <1>5, <2>1, RowNumbers DEF numbers
    <3> HIDE DEF numbers
    <3> QED
      BY <1>3, <1>5, <2>1, <3>1 DEF offset
  <2>3. many \in BOOLEAN /\ (~many => ~table.many /\ offset = 0 /\ (table.page = This.page \/ table.rows = << >>))
    BY <1>5, <2>1 DEF many, offset, turned, RowsOK
  <2>4. Points(table.tag, "Table") /\ table.tag \in 0..Len(tags)
    BY <1>4, <1>5, <2>1 DEF Points, PointsIn
  <2>7. now = TableNow(This.page, offset, many, table.rows)
    <3>1. now = [table EXCEPT !.page = This.page, !.offset = offset, !.many = many]
      BY <2>1 DEF now
    <3> QED
      BY <1>5, <3>1 DEF TableNow
  <2>8. table.page = None \/ table.page <= This.page
    <3>1. ~(table.page # None /\ This.page < table.page)
      BY <1>7, <2>1 DEF goesBack
    <3> QED
      BY <1>3, <1>5, <3>1
  <2>5. CASE same # {}
    <3> DEFINE r == CHOOSE r \in same : TRUE
    <3>1. r \in same
      BY <2>5
    <3>2. PICK k \in DOMAIN table.rows : table.rows[k] = r
      BY <2>1, <3>1 DEF same, Range
    <3>8. table.rows[k].page = This.page /\ table.rows[k].row = This.row
      BY <3>1, <3>2 DEF same
    <3>3. tags' = Append(tags, Leaf("TD", table.rows[k].tag)) /\ table' = now
      BY <1>7, <2>1, <2>5, <3>2
    <3>4. table.rows[k].tag \in Nat /\ table.rows[k].tag \in 0..Len(tags)
      BY <1>4, <1>5 DEF Points, PointsIn
    <3>5. Hangs(table.rows[k].tag, <<Leaf("TD", table.rows[k].tag)>>)
      BY <1>1, <1>2, <3>3, <3>4, LeafIsTag, HungOne
    <3>6. table' = TableNow(This.page, offset, many, table.rows)
      BY <2>7, <3>3
    <3>7. table.rows # << >>
      OBVIOUS
    <3> QED
      BY <2>1, <2>2, <2>3, <2>8, <3>5, <3>6, <3>7, <3>8
  <2>6. CASE same = {}
    <3> DEFINE a == Tag("TR", table.tag, None, number)
               b == Leaf("TD", Len(tags) + 1)
    <3>1. tags' = tags \o <<a, b>> /\ table' = [now EXCEPT !.rows = Append(t.rows, row)]
      BY <1>7, <2>1, <2>6
    <3>2. number = This.row + offset /\ number \in Int
      BY <1>3, <2>2 DEF number
    <3>3. a \in TagSet /\ a.type \in Groupings /\ a.parent = table.tag /\ a.node = None
      <4>1. a = [type |-> "TR", parent |-> table.tag, node |-> None, name |-> number]
        BY DEF Tag
      <4>2. None \in Nat
        BY DEF None
      <4>3. a \in TagSet
        BY <1>5, <1>6, <3>2, <4>1, <4>2 DEF TagSet
      <4> QED
        BY <1>6, <4>1, <4>3
    <3>4. b \in TagSet /\ b.parent = Len(tags) + 1 /\ b.node = next + 1 /\ LeafFits(next + 1, b.type)
      <4>1. Len(tags) + 1 \in Nat
        BY <1>4
      <4> QED
        BY <1>1, <1>2, <4>1, LeafIsTag
    <3>5. Hangs(table.tag, <<a, b>>)
      <4> HIDE DEF a, b
      <4> QED
        BY <1>1, <2>4, <3>1, <3>3, <3>4, HungTwo
    <3>6. \A k \in DOMAIN table.rows : table.rows[k].number < number
      <4> TAKE k \in DOMAIN table.rows
      <4> DEFINE r == table.rows[k]
      <4>1. r \in Range(t.rows) /\ r.number \in numbers /\ r \in RowSet
        BY <1>5, <2>1 DEF Range, numbers
      <4>2. r.page \in Int /\ r.row \in Int /\ r.number \in Int
        BY <4>1 DEF RowSet
      <4>3. ~(r.page = This.page /\ r.row = This.row)
        BY <2>6, <4>1 DEF same
      <4>4. CASE many
        <5>1. ~(r.number >= number)
          BY <1>7, <2>6, <4>1, <4>4 DEF goesBack
        <5> QED
          BY <3>2, <4>2, <5>1
      <4>5. CASE ~many
        <5>1. table.page = This.page /\ offset = 0 /\ number = This.row
          BY <1>3, <2>3, <3>2, <4>5
        <5>2. r.page = table.page /\ r.number = r.row /\ RowRead(r)
          BY <2>3, <4>5 DEF RowsOK
        <5>3. PICK n \in 1..next : /\ text[n].role = "TD" /\ text[n].group = table.group
                                   /\ text[n].page = r.page /\ text[n].row = r.row
          BY <5>2 DEF RowRead
        <5>4. next + 1 \in DOMAIN text /\ n \in 1..(next + 1 - 1)
          BY <1>1, ThisIs DEF TagsOK
        <5>5. r.row <= This.row
          <6>1. ByRows(text)
            BY <1>1 DEF TextOK
          <6>2. /\ text[next + 1].role = "TD" /\ text[n].group = text[next + 1].group
                /\ text[n].page = text[next + 1].page
            BY <1>1, <2>1, <5>1, <5>2, <5>3 DEF This
          <6>3. PICK j \in DOMAIN text : j = next + 1
            BY <5>4
          <6>4. n \in 1..(j - 1)
            <7>1. next \in Nat
              BY <1>1 DEF TagsOK
            <7> QED
              BY <6>3, <7>1
          <6>5. text[n].role = "TD"
            BY <5>3
          <6>6. text[j].role = "TD" /\ text[n].group = text[j].group /\ text[n].page = text[j].page
            BY <6>2, <6>3
          <6>7. text[n].row <= text[j].row
            BY <6>1, <6>4, <6>5, <6>6 DEF ByRows
          <6> QED
            BY <5>3, <6>3, <6>7 DEF This
        <5> QED
          BY <1>3, <4>2, <4>3, <5>1, <5>2, <5>5
      <4> QED
        BY <4>4, <4>5
    <3>7. table' = TableNow(This.page, offset, many,
                            Append(table.rows, [page |-> This.page, row |-> This.row,
                                                number |-> This.row + offset, tag |-> Len(tags) + 1]))
      <4>1. row = [page |-> This.page, row |-> This.row, number |-> This.row + offset, tag |-> Len(tags) + 1]
        BY <2>1, <3>2 DEF row
      <4>2. table' = [now EXCEPT !.rows = Append(table.rows, row)]
        BY <2>1, <3>1
      <4> DEFINE more == Append(table.rows, row)
      <4>3. table' = [now EXCEPT !.rows = more]
        BY <4>2
      <4> HIDE DEF more
      <4>4. table' = TableNow(This.page, offset, many, more)
        BY <2>7, <4>3 DEF TableNow
      <4> QED
        BY <4>1, <4>4 DEF more
    <3>8. \A k \in DOMAIN table.rows : ~(table.rows[k].page = This.page /\ table.rows[k].row = This.row)
      BY <2>1, <2>6 DEF same, Range
    <3> QED
      BY <2>1, <2>2, <2>3, <2>8, <3>2, <3>5, <3>6, <3>7, <3>8
  <2> QED
    BY <2>5, <2>6
<1> QED
  BY <1>8, <1>9, SMTT(30)

(* The tags after a step.                                                  *)
LEMMA HungAre ==
  ASSUME TagsOK, NEW p, NEW new, Hangs(p, new)
  PROVE  /\ Len(tags) \in Nat /\ DOMAIN tags = 1..Len(tags) /\ Len(new) \in Nat /\ DOMAIN new = 1..Len(new)
         /\ DOMAIN tags' = 1..(Len(tags) + Len(new)) /\ p \in 0..Len(tags)
         /\ Len(new) >= 1 /\ \A k \in 1..Len(new) : new[k] \in TagSet
         /\ \A i \in DOMAIN tags : i \in DOMAIN tags' /\ tags'[i] = tags[i]
         /\ \A i \in DOMAIN tags' : i \notin DOMAIN tags =>
                 /\ i - Len(tags) \in 1..Len(new) /\ tags'[i] = new[i - Len(tags)] /\ i > Len(tags)
                 /\ tags'[i].parent = IF i = Len(tags) + 1 THEN p ELSE i - 1
                 /\ IF i < Len(tags) + Len(new) THEN tags'[i].node = None /\ tags'[i].type \in Groupings
                    ELSE i = Len(tags) + Len(new) /\ tags'[i].node = next + 1 /\ LeafFits(next + 1, tags'[i].type)
<1>1. Len(tags) \in Nat /\ DOMAIN tags = 1..Len(tags)
  BY DEF TagsOK
<1>2. new \in Seq(TagSet) /\ tags' \in Seq(TagSet) /\ Len(tags') = Len(tags) + Len(new) /\ p \in 0..Len(tags) /\ Len(new) \in 1..3
  BY DEF Hangs
<1>3. Len(new) \in Nat /\ DOMAIN new = 1..Len(new) /\ DOMAIN tags' = 1..(Len(tags) + Len(new))
      /\ \A k \in 1..Len(new) : new[k] \in TagSet
  BY <1>2
<1>4. \A i \in DOMAIN tags : i \in DOMAIN tags' /\ tags'[i] = tags[i]
  BY <1>1, <1>3 DEF Hangs
<1>5. ASSUME NEW i \in DOMAIN tags', i \notin DOMAIN tags
      PROVE  /\ i - Len(tags) \in 1..Len(new) /\ tags'[i] = new[i - Len(tags)] /\ i > Len(tags)
             /\ tags'[i].parent = IF i = Len(tags) + 1 THEN p ELSE i - 1
             /\ IF i < Len(tags) + Len(new) THEN tags'[i].node = None /\ tags'[i].type \in Groupings
                ELSE i = Len(tags) + Len(new) /\ tags'[i].node = next + 1 /\ LeafFits(next + 1, tags'[i].type)
  <2>1. PICK k \in 1..Len(new) : i = Len(tags) + k /\ k = i - Len(tags) /\ k \in Nat
    <3>1. i \in Int /\ i > Len(tags) /\ i <= Len(tags) + Len(new)
      BY <1>1, <1>3, <1>5
    <3>2. i - Len(tags) \in 1..Len(new) /\ i = Len(tags) + (i - Len(tags)) /\ i - Len(tags) \in Nat
      BY <1>1, <1>3, <3>1
    <3> QED
      BY <3>2
  <2>2. tags'[i] = new[k]
    BY <2>1 DEF Hangs
  <2>3. tags'[i].parent = IF i = Len(tags) + 1 THEN p ELSE i - 1
    <3>1. new[k].parent = IF k = 1 THEN p ELSE Len(tags) + k - 1
      BY DEF Hangs
    <3> QED
      BY <1>1, <2>1, <2>2, <3>1
  <2>4. IF k < Len(new) THEN new[k].node = None /\ new[k].type \in Groupings
        ELSE new[k].node = next + 1 /\ LeafFits(next + 1, new[k].type)
    BY DEF Hangs
  <2>5. i > Len(tags) /\ (i < Len(tags) + Len(new) <=> k < Len(new)) /\ (~(k < Len(new)) => i = Len(tags) + Len(new))
    BY <1>1, <1>3, <2>1
  <2> QED
    BY <2>1, <2>2, <2>3, <2>4, <2>5
<1> QED
  BY <1>1, <1>2, <1>3, <1>4, <1>5

LEMMA HangKeepsTags ==
  ASSUME TagsOK, NEW p, NEW new, Hangs(p, new), UNCHANGED text, next' = next + 1, next < Len(text)
  PROVE  TagsOK'
<1>1. /\ Len(tags) \in Nat /\ DOMAIN tags = 1..Len(tags) /\ Len(new) \in Nat /\ DOMAIN new = 1..Len(new)
      /\ DOMAIN tags' = 1..(Len(tags) + Len(new)) /\ p \in 0..Len(tags) /\ Len(new) >= 1
  BY HungAre
<1>2. \A i \in DOMAIN tags : i \in DOMAIN tags' /\ tags'[i] = tags[i]
  BY HungAre
<1>3. \A i \in DOMAIN tags' : i \notin DOMAIN tags =>
                 /\ tags'[i].parent = IF i = Len(tags) + 1 THEN p ELSE i - 1
                 /\ IF i < Len(tags) + Len(new) THEN tags'[i].node = None /\ tags'[i].type \in Groupings
                    ELSE i = Len(tags) + Len(new) /\ tags'[i].node = next + 1 /\ LeafFits(next + 1, tags'[i].type)
  BY HungAre
<1>4. \A n, type : LeafFits(n, type)' <=> LeafFits(n, type)
  BY DEF LeafFits, FirstOfGroup
<1>5. next \in Nat /\ Len(text) \in Nat /\ next + 1 \in 0..Len(text)
  <2>1. next \in 0..Len(text)
    BY DEF TagsOK
  <2>2. Len(text) \in Nat
    BY <2>1
  <2> QED
    BY <2>1, <2>2
<1>6. /\ \A i \in DOMAIN tags : tags[i].parent < i
      /\ \A i \in DOMAIN tags : IF tags[i].node = None THEN tags[i].type \in Groupings
                                ELSE tags[i].node \in 1..next /\ LeafFits(tags[i].node, tags[i].type)
      /\ \A i, j \in DOMAIN tags : i < j /\ tags[i].node # None /\ tags[j].node # None => tags[i].node < tags[j].node
      /\ \A n \in 1..next : text[n].role # "Artifact" => \E i \in DOMAIN tags : tags[i].node = n
  BY DEF TagsOK
<1>7. next' \in 0..Len(text') /\ tags' \in Seq(TagSet)
  BY <1>5 DEF Hangs
<1>8. ASSUME NEW i \in DOMAIN tags' PROVE tags'[i].parent < i
  <2>1. CASE i \in DOMAIN tags
    BY <1>2, <1>6, <2>1
  <2>2. CASE i \notin DOMAIN tags
    BY <1>1, <1>3, <2>2
  <2> QED
    BY <2>1, <2>2
<1>9. ASSUME NEW i \in DOMAIN tags'
      PROVE  IF tags'[i].node = None THEN tags'[i].type \in Groupings
             ELSE tags'[i].node \in 1..next' /\ LeafFits(tags'[i].node, tags'[i].type)
  <2>1. CASE i \in DOMAIN tags
    <3>1. IF tags[i].node = None THEN tags[i].type \in Groupings
          ELSE tags[i].node \in 1..next /\ LeafFits(tags[i].node, tags[i].type)
      BY <1>6, <2>1
    <3>2. tags'[i] = tags[i]
      BY <1>2, <2>1
    <3>3. 1..next \subseteq 1..next'
      BY <1>5
    <3> QED
      BY <1>4, <3>1, <3>2, <3>3
  <2>2. CASE i \notin DOMAIN tags
    <3>1. IF i < Len(tags) + Len(new) THEN tags'[i].node = None /\ tags'[i].type \in Groupings
          ELSE i = Len(tags) + Len(new) /\ tags'[i].node = next + 1 /\ LeafFits(next + 1, tags'[i].type)
      BY <1>3, <2>2
    <3>2. next + 1 \in 1..next' /\ next + 1 # None
      BY <1>5 DEF None
    <3> QED
      BY <1>4, <3>1, <3>2
  <2> QED
    BY <2>1, <2>2
<1>10. ASSUME NEW i \in DOMAIN tags', NEW j \in DOMAIN tags', i < j, tags'[i].node # None, tags'[j].node # None
       PROVE  tags'[i].node < tags'[j].node
  <2>1. CASE j \in DOMAIN tags
    <3>1. i \in DOMAIN tags
      BY <1>1, <1>10, <2>1
    <3> QED
      BY <1>2, <1>6, <1>10, <2>1, <3>1
  <2>2. CASE j \notin DOMAIN tags
    <3>1. j = Len(tags) + Len(new) /\ tags'[j].node = next + 1
      BY <1>3, <1>10, <2>2
    <3>2. i \in DOMAIN tags
      BY <1>1, <1>3, <1>10, <3>1
    <3>3. tags'[i].node \in 1..next
      BY <1>2, <1>6, <1>10, <3>2
    <3> QED
      BY <1>5, <3>1, <3>3
  <2> QED
    BY <2>1, <2>2
<1>11. ASSUME NEW n \in 1..next', text'[n].role # "Artifact" PROVE \E i \in DOMAIN tags' : tags'[i].node = n
  <2>1. CASE n \in 1..next
    BY <1>2, <1>6, <1>11, <2>1
  <2>2. CASE n = next + 1
    <3>1. Len(tags) + Len(new) \in DOMAIN tags' /\ Len(tags) + Len(new) \notin DOMAIN tags
      BY <1>1
    <3>2. tags'[Len(tags) + Len(new)].node = next + 1
      BY <1>1, <1>3, <3>1
    <3> QED
      BY <2>2, <3>1, <3>2
  <2> QED
    BY <1>5, <2>1, <2>2
<1>12. \A i \in DOMAIN tags' : IF tags'[i].node = None THEN tags'[i].type \in Groupings
                                ELSE tags'[i].node \in 1..next' /\ LeafFits(tags'[i].node, tags'[i].type)
  BY <1>9
<1> QED
  BY <1>4, <1>7, <1>8, <1>12, <1>10, <1>11 DEF TagsOK

(* Nothing that is pointed at changes.                                     *)
LEMMA PointsKeep ==
  ASSUME TagsOK, NEW p, NEW new, Hangs(p, new), NEW q, NEW type, Points(q, type)
  PROVE  Points(q, type)'
BY HungAre DEF Points, PointsIn

LEMMA SkipKeepsTags ==
  ASSUME TagsOK, UNCHANGED <<text, tags>>, next' = next + 1, next < Len(text), This.role = "Artifact"
  PROVE  TagsOK'
<1>1. next \in 0..Len(text) /\ Len(text) \in Nat /\ next \in Nat
  <2>1. next \in 0..Len(text)
    BY DEF TagsOK
  <2> QED
    BY <2>1
<1>2. next' \in 0..Len(text)
  BY <1>1
<1>3. \A n, type : LeafFits(n, type)' <=> LeafFits(n, type)
  BY DEF LeafFits, FirstOfGroup
<1>4. 1..next \subseteq 1..next' /\ \A n \in 1..next' : n \in 1..next \/ n = next + 1
  BY <1>1
<1>5. \A i \in DOMAIN tags : IF tags[i].node = None THEN tags[i].type \in Groupings
                             ELSE tags[i].node \in 1..next' /\ LeafFits(tags[i].node, tags[i].type)'
  BY <1>3, <1>4 DEF TagsOK
<1>6. \A n \in 1..next' : text[n].role # "Artifact" => \E i \in DOMAIN tags : tags[i].node = n
  BY <1>4 DEF TagsOK, This
<1>7. /\ tags \in Seq(TagSet)
      /\ \A i \in DOMAIN tags : tags[i].parent < i
      /\ \A i, j \in DOMAIN tags : i < j /\ tags[i].node # None /\ tags[j].node # None => tags[i].node < tags[j].node
  BY DEF TagsOK
<1> QED
  BY <1>2, <1>5, <1>6, <1>7 DEF TagsOK

-----------------------------------------------------------------------------
(* What is added keeps the names of the tables.                            *)
LEMMA HangKeepsTables ==
  ASSUME TextOK(text), TagsOK, TablesOK, NEW p, NEW new, Hangs(p, new),
         UNCHANGED text, next' = next + 1, next < Len(text),
         \A k \in DOMAIN new : new[k].type = "Table" => k = 1 /\ new[k].name \notin Emitted,
         \A k \in DOMAIN new : new[k].type = "TR" =>
             /\ PointsIn(tags', new[k].parent, "Table") /\ new[k].name \in Int
             /\ \A j \in DOMAIN new : new[j].type = "TR" => j = k
             /\ \A i \in DOMAIN tags : tags[i].type = "TR" /\ tags[i].parent = new[k].parent => tags[i].name < new[k].name,
         \A k \in DOMAIN new : new[k].type = "TD" =>
             /\ PointsIn(tags', new[k].parent, "TR") /\ NameFits(tags'[tags'[new[k].parent].parent].name, This.group),
         This.role \in {"Table", "TD"} => This.group \in Emitted \/ \E k \in DOMAIN new : new[k].type = "Table" /\ This.group = new[k].name
  PROVE  TablesOK'
<1>1. /\ Len(tags) \in Nat /\ DOMAIN tags = 1..Len(tags) /\ Len(new) \in Nat /\ DOMAIN new = 1..Len(new)
      /\ DOMAIN tags' = 1..(Len(tags) + Len(new)) /\ Len(new) >= 1
  BY HungAre
<1>2. \A i \in DOMAIN tags : i \in DOMAIN tags' /\ tags'[i] = tags[i]
  BY HungAre
<1>3. \A i \in DOMAIN tags' : i \notin DOMAIN tags =>
          i - Len(tags) \in DOMAIN new /\ tags'[i] = new[i - Len(tags)] /\ i > Len(tags) /\ i \in Int
  BY <1>1, HungAre, SMTT(30)
<1>4. \A k \in DOMAIN new : Len(tags) + k \in DOMAIN tags' /\ tags'[Len(tags) + k] = new[k]
  BY <1>1 DEF Hangs
<1>5. next \in Nat /\ next + 1 \in DOMAIN text
  BY ThisIs DEF TagsOK
<1>6. TableNodes' = TableNodes /\ GroupsOfTables' = GroupsOfTables /\ TableNodes \subseteq DOMAIN text
  BY DEF TableNodes, GroupsOfTables
<1> DEFINE First == {new[k].name : k \in {j \in DOMAIN new : new[j].type = "Table"}}
<1>7. Emitted' = Emitted \cup First
  <2>1. \A x : x \in Emitted <=> \E i \in DOMAIN tags : tags[i].type = "Table" /\ tags[i].name = x
    BY DEF Emitted, Range
  <2>2. \A x : x \in Emitted' <=> \E i \in DOMAIN tags' : tags'[i].type = "Table" /\ tags'[i].name = x
    BY DEF Emitted, Range
  <2>3. \A x : x \in First <=> \E k \in DOMAIN new : new[k].type = "Table" /\ new[k].name = x
    OBVIOUS
  <2> HIDE DEF First
  <2>4. ASSUME NEW x \in Emitted' PROVE x \in Emitted \cup First
    BY <1>2, <1>3, <2>1, <2>2, <2>3
  <2>5. ASSUME NEW x \in Emitted \cup First PROVE x \in Emitted'
    BY <1>2, <1>4, <2>1, <2>2, <2>3
  <2> QED
    BY <2>4, <2>5
<1>8. IsFiniteSet(Emitted') /\ Cardinality(Emitted') <= next'
  <2>1. IsFiniteSet(Emitted) /\ Cardinality(Emitted) <= next
    BY DEF TablesOK
  <2>2. First \subseteq {new[1].name}
    OBVIOUS
  <2> HIDE DEF First
  <2>3. First = {} \/ First = {new[1].name}
    BY <2>2
  <2> DEFINE x == new[1].name
  <2>4. Emitted' = Emitted \/ Emitted' = Emitted \cup {new[1].name}
    BY <1>7, <2>3
  <2>5. IsFiniteSet(Emitted') /\ Cardinality(Emitted') <= Cardinality(Emitted) + 1
    <3>1. Cardinality(Emitted) \in Nat
      BY <2>1, FS_CardinalityType
    <3>2. Emitted' = Emitted \/ Emitted' = Emitted \cup {x}
      BY <2>4
    <3> HIDE DEF x
    <3>3. /\ IsFiniteSet(Emitted \cup {x})
          /\ Cardinality(Emitted \cup {x}) = IF x \in Emitted THEN Cardinality(Emitted) ELSE Cardinality(Emitted) + 1
      BY <2>1, FS_AddElement
    <3>4. CASE Emitted' = Emitted
      <4>1. IsFiniteSet(Emitted') /\ Cardinality(Emitted') = Cardinality(Emitted)
        BY <2>1, <3>4
      <4> QED
        BY <3>1, <4>1
    <3>5. CASE Emitted' = Emitted \cup {x}
      <4>1. IsFiniteSet(Emitted') /\ Cardinality(Emitted') = Cardinality(Emitted \cup {x})
        BY <3>3, <3>5
      <4> QED
        BY <3>1, <3>3, <4>1
    <3> QED
      BY <3>2, <3>4, <3>5
  <2>6. Cardinality(Emitted') \in Nat /\ Cardinality(Emitted) \in Nat
    BY <2>1, <2>5, FS_CardinalityType
  <2> QED
    BY <1>5, <2>1, <2>5, <2>6
<1>9. ASSUME NEW i \in DOMAIN tags', NEW j \in DOMAIN tags',
             tags'[i].type = "Table", tags'[j].type = "Table", tags'[i].name = tags'[j].name
      PROVE  i = j
  <2>1. \A k \in DOMAIN tags : tags[k].type = "Table" => tags[k].name \in Emitted
    BY DEF Emitted, Range
  <2>2. \A k \in DOMAIN tags' : k \notin DOMAIN tags /\ tags'[k].type = "Table" => k = Len(tags) + 1 /\ tags'[k].name \notin Emitted
    BY <1>1, <1>3
  <2>3. CASE i \in DOMAIN tags /\ j \in DOMAIN tags
    BY <1>2, <1>9, <2>3 DEF TablesOK
  <2> QED
    BY <1>2, <1>9, <2>1, <2>2, <2>3
<1>10. ASSUME NEW n \in TableNodes', n <= next' PROVE text'[n].group \in Emitted'
  <2>1. n \in Nat
    BY <1>6, PiecesOfAText
  <2>2. CASE n <= next
    <3>1. text[n].group \in Emitted
      BY <1>6, <2>2 DEF TablesOK
    <3> QED
      BY <1>7, <3>1
  <2>3. CASE n = next + 1
    <3>1. This.role \in {"Table", "TD"} /\ This.group = text[n].group
      BY <1>6, <2>3 DEF TableNodes, This
    <3> QED
      BY <1>7, <3>1
  <2> QED
    BY <1>5, <1>10, <2>1, <2>2, <2>3
<1>11. ASSUME NEW i \in DOMAIN tags', tags'[i].type = "TR" PROVE PointsIn(tags', tags'[i].parent, "Table") /\ tags'[i].name \in Int
  <2>1. CASE i \in DOMAIN tags
    <3>1. Points(tags[i].parent, "Table") /\ tags[i].name \in Int
      BY <1>2, <1>11, <2>1 DEF TablesOK
    <3>2. tags'[i] = tags[i]
      BY <1>2, <2>1
    <3>3. PointsIn(tags', tags[i].parent, "Table")
      BY <1>2, <3>1, <3>2 DEF Points, PointsIn
    <3> QED
      BY <3>1, <3>2, <3>3 DEF Points, PointsIn
  <2>2. CASE i \notin DOMAIN tags
    BY <1>3, <1>11, <2>2
  <2> QED
    BY <2>1, <2>2
<1>12. ASSUME NEW i \in DOMAIN tags', NEW j \in DOMAIN tags', tags'[i].type = "TR", tags'[j].type = "TR",
              tags'[i].parent = tags'[j].parent, i < j
       PROVE  tags'[i].name < tags'[j].name
  <2>1. CASE j \in DOMAIN tags
    <3>1. i \in DOMAIN tags
      BY <1>1, <1>12, <2>1
    <3> QED
      BY <1>2, <1>12, <2>1, <3>1 DEF TablesOK
  <2>2. CASE j \notin DOMAIN tags
    <3>1. j - Len(tags) \in DOMAIN new /\ tags'[j] = new[j - Len(tags)]
      BY <1>3, <2>2
    <3>2. i \in DOMAIN tags
      <4> SUFFICES ASSUME i \notin DOMAIN tags PROVE FALSE
        OBVIOUS
      <4>1. i - Len(tags) \in DOMAIN new /\ tags'[i] = new[i - Len(tags)]
        BY <1>3
      <4>2. i - Len(tags) = j - Len(tags)
        BY <1>12, <3>1, <4>1
      <4> QED
        BY <1>1, <1>12, <4>2
    <3> QED
      BY <1>2, <1>12, <3>1, <3>2
  <2> QED
    BY <2>1, <2>2
<1>13. ASSUME NEW i \in DOMAIN tags', tags'[i].type = "TD"
       PROVE  PointsIn(tags', tags'[i].parent, "TR") /\ NameFits(tags'[tags'[tags'[i].parent].parent].name, text'[tags'[i].node].group)
  <2>0. \A name, group : NameFits(name, group)' <=> NameFits(name, group)
    BY <1>6 DEF NameFits
  <2>1. CASE i \in DOMAIN tags
    <3> DEFINE r == tags[i].parent
               t == tags[r].parent
    <3>1. Points(r, "TR") /\ NameFits(tags[t].name, text[tags[i].node].group)
      BY <1>2, <1>13, <2>1 DEF TablesOK
    <3>2. Points(t, "Table")
      BY <3>1 DEF Points, PointsIn, TablesOK
    <3>3. tags'[i] = tags[i] /\ tags'[r] = tags[r] /\ tags'[t] = tags[t] /\ r \in DOMAIN tags'
      BY <1>2, <2>1, <3>1, <3>2 DEF Points, PointsIn
    <3>4. PointsIn(tags', tags'[i].parent, "TR")
      BY <3>1, <3>3 DEF Points, PointsIn
    <3>5. tags'[tags'[tags'[i].parent].parent] = tags[t] /\ text'[tags'[i].node] = text[tags[i].node]
      BY <3>3
    <3> HIDE DEF r, t
    <3> QED
      BY <2>0, <3>1, <3>4, <3>5 DEF NameFits
  <2>2. CASE i \notin DOMAIN tags
    <3>1. i - Len(tags) \in DOMAIN new /\ tags'[i] = new[i - Len(tags)]
      BY <1>3, <2>2
    <3>2. tags'[i].node = next + 1
      <4>1. IF i < Len(tags) + Len(new) THEN tags'[i].node = None /\ tags'[i].type \in Groupings
            ELSE i = Len(tags) + Len(new) /\ tags'[i].node = next + 1 /\ LeafFits(next + 1, tags'[i].type)
        BY <2>2, HungAre
      <4> QED
        BY <1>13, <4>1 DEF Groupings
    <3>3. /\ PointsIn(tags', tags'[i].parent, "TR") /\ NameFits(tags'[tags'[tags'[i].parent].parent].name, This.group)
      BY <1>13, <3>1
    <3>4. text'[tags'[i].node].group = This.group
      BY <3>2 DEF This
    <3> QED
      BY <2>0, <3>3, <3>4 DEF NameFits
  <2> QED
    BY <2>1, <2>2
<1>14. \A name, group : NameFits(name, group)' <=> NameFits(name, group)
  BY <1>6 DEF NameFits
<1> QED
  BY <1>8, <1>9, <1>10, <1>11, <1>12, <1>13, <1>14 DEF TablesOK, Points

LEMMA SectionsStay ==
  ASSUME TagsOK, SectionsOK, NEW p, NEW new, Hangs(p, new), UNCHANGED sections
  PROVE  SectionsOK'
BY PointsKeep DEF SectionsOK

LEMMA ListsStay ==
  ASSUME TagsOK, ListsOK, NEW p, NEW new, Hangs(p, new), UNCHANGED text, UNCHANGED lists \/ lists' = << >>
  PROVE  ListsOK'
<1>1. CASE UNCHANGED lists
  <2>1. ListSet' = ListSet
    BY DEF ListSet
  <2> QED
    BY <1>1, <2>1, PointsKeep DEF ListsOK
<1>2. CASE lists' = << >>
  BY <1>2 DEF ListsOK
<1> QED
  BY <1>1, <1>2

LEMMA NoTableIs == NoTable \in [tag : Nat, group : Seq(Int), page : Int, offset : Int, many : BOOLEAN, rows : Seq(RowSet)]
<1>1. << >> \in Seq(Int) /\ << >> \in Seq(RowSet) /\ None \in Nat /\ None \in Int
  BY DEF None
<1> QED
  BY <1>1 DEF NoTable

LEMMA TableStays ==
  ASSUME TagsOK, OpenTableOK, NEW p, NEW new, Hangs(p, new), UNCHANGED table \/ table' = NoTable
  PROVE  OpenTableOK'
<1>1. CASE UNCHANGED table
  BY <1>1, PointsKeep DEF OpenTableOK
<1>2. CASE table' = NoTable
  <2>1. table'.tag = None /\ DOMAIN table'.rows = {}
    BY <1>2 DEF NoTable
  <2> QED
    BY <1>2, <2>1, NoTableIs DEF OpenTableOK
<1> QED
  BY <1>1, <1>2

LEMMA DiagramStays ==
  ASSUME TagsOK, DiagramOK, NEW p, NEW new, Hangs(p, new), UNCHANGED diagram \/ diagram' = NoDiagram
  PROVE  DiagramOK'
<1>1. CASE UNCHANGED diagram
  BY <1>1, PointsKeep DEF DiagramOK
<1>2. CASE diagram' = NoDiagram
  BY <1>2 DEF DiagramOK, NoDiagram, None
<1> QED
  BY <1>1, <1>2

LEMMA QuietKeepsTables ==
  ASSUME TextOK(text), TagsOK, TablesOK, NEW p, NEW new, Hangs(p, new),
         UNCHANGED text, next' = next + 1, next < Len(text),
         \A k \in DOMAIN new : new[k].type \notin {"Table", "TR", "TD"}
  PROVE  TablesOK'
<1>1. Len(new) \in DOMAIN new
  BY HungAre
<1>2. LeafFits(next + 1, new[Len(new)].type)
  BY <1>1 DEF Hangs
<1>3. This.role \notin {"Table", "TD"}
  BY <1>1, <1>2 DEF LeafFits, This
<1>4. \A k \in DOMAIN new : new[k].type # "Table" /\ new[k].type # "TR" /\ new[k].type # "TD"
  OBVIOUS
<1> QED
  BY <1>3, <1>4, HangKeepsTables

LEMMA QuietKeepsRows ==
  ASSUME TagsOK, OpenTableOK, TablesOK, RowsOK, NEW p, NEW new, Hangs(p, new), UNCHANGED text, next' = next + 1,
         \A k \in DOMAIN new : new[k].type # "TR",
         UNCHANGED table
  PROVE  RowsOK'
<1>1. /\ \A i \in DOMAIN tags : i \in DOMAIN tags' /\ tags'[i] = tags[i]
      /\ \A i \in DOMAIN tags' : i \notin DOMAIN tags => i - Len(tags) \in DOMAIN new /\ tags'[i] = new[i - Len(tags)]
  BY HungAre
<1>2. \A name, group : NameFits(name, group)' <=> NameFits(name, group)
  BY DEF NameFits, GroupsOfTables, TableNodes
<1>3. Emitted \subseteq Emitted'
  <2>1. \A x : x \in Emitted <=> \E i \in DOMAIN tags : tags[i].type = "Table" /\ tags[i].name = x
    BY DEF Emitted, Range
  <2>2. \A x : x \in Emitted' <=> \E i \in DOMAIN tags' : tags'[i].type = "Table" /\ tags'[i].name = x
    BY DEF Emitted, Range
  <2> QED
    BY <1>1, <2>1, <2>2
<1>4. table.tag # None => table.tag \in DOMAIN tags
  BY DEF OpenTableOK, Points, PointsIn
<1>5. table.tag # None => NameFits(tags'[table.tag].name, table.group) /\ table.group \in Emitted'
  BY <1>1, <1>3, <1>4 DEF RowsOK
<1>6. \A k \in DOMAIN table.rows : table.rows[k].tag \in DOMAIN tags
  BY DEF OpenTableOK, Points, PointsIn
<1>7. \A k \in DOMAIN table.rows : tags'[table.rows[k].tag].parent = table.tag /\ tags'[table.rows[k].tag].name = table.rows[k].number
  BY <1>1, <1>6 DEF RowsOK
<1>8. \A i \in DOMAIN tags' : tags'[i].type = "TR" /\ tags'[i].parent = table.tag =>
          \E k \in DOMAIN table.rows : table.rows[k].tag = i
  BY <1>1 DEF RowsOK
<1>9. \A r : RowRead(r) => RowRead(r)'
  <2>1. 1..next \subseteq 1..next'
    BY DEF TagsOK
  <2> QED
    BY <2>1 DEF RowRead
<1>10. ~table.many => /\ table.offset = 0
                      /\ \A k \in DOMAIN table.rows : LET r == table.rows[k]
                            IN  r.page = table.page /\ r.number = r.row /\ RowRead(r)'
  BY <1>9 DEF RowsOK
<1> QED
  BY <1>2, <1>5, <1>7, <1>8, <1>10 DEF RowsOK

(* No table is open.                                                       *)
LEMMA ClosedKeepsRows ==
  ASSUME TagsOK', TablesOK', table' = NoTable
  PROVE  RowsOK'
<1>1. /\ table'.tag = None /\ DOMAIN table'.rows = {} /\ table'.offset = 0
  BY DEF NoTable
<1>2. \A i \in DOMAIN tags' : tags'[i].type = "TR" => tags'[i].parent \in DOMAIN tags'
  BY DEF TablesOK, Points, PointsIn
<1>3. None \notin DOMAIN tags'
  BY DEF TagsOK, None
<1> QED
  BY <1>1, <1>2, <1>3 DEF RowsOK

TagInv == Tidy /\ TablesOK /\ RowsOK

LEMMA PairOf ==
  ASSUME NEW a, NEW b
  PROVE  DOMAIN <<a, b>> = {1, 2} /\ <<a, b>>[1] = a /\ <<a, b>>[2] = b /\ Len(<<a, b>>) = 2
OBVIOUS

LEMMA ThreeOf ==
  ASSUME NEW a, NEW b, NEW c
  PROVE  /\ DOMAIN <<a, b, c>> = {1, 2, 3} /\ <<a, b, c>>[1] = a /\ <<a, b, c>>[2] = b /\ <<a, b, c>>[3] = c
         /\ Len(<<a, b, c>>) = 3
OBVIOUS

LEMMA LeafType == ASSUME NEW type, NEW p PROVE Leaf(type, p).type = type /\ Leaf(type, p).parent = p
BY DEF Leaf, Tag

LEMMA TagType == ASSUME NEW type, NEW p, NEW n, NEW name
                 PROVE Tag(type, p, n, name).type = type /\ Tag(type, p, n, name).parent = p /\ Tag(type, p, n, name).name = name
                       /\ Tag(type, p, n, name).node = n
BY DEF Tag

(* What is the same for all that is added.                                 *)
LEMMA HangKeeps ==
  ASSUME TagInv, NEW p, NEW new, Hangs(p, new), TagStep,
         \A k \in DOMAIN new : new[k].type \notin {"Table", "TR", "TD"},
         SectionsOK', ListsOK', DiagramOK', UNCHANGED table \/ table' = NoTable
  PROVE  TagInv'
<1>1. UNCHANGED <<text, levels>> /\ next' = next + 1 /\ next < Len(text)
  BY TagStepReads
<1>2. TextOK(text) /\ TagsOK /\ PointersOK /\ TablesOK /\ RowsOK
  BY DEF TagInv, Tidy
<1>3. TagsOK'
  BY <1>1, <1>2, HangKeepsTags
<1>4. TablesOK'
  BY <1>1, <1>2, QuietKeepsTables
<1>5. OpenTableOK'
  BY <1>2, TableStays DEF PointersOK
<1>6. RowsOK'
  <2>1. CASE UNCHANGED table
    BY <1>1, <1>2, <2>1, QuietKeepsRows DEF PointersOK
  <2>2. CASE table' = NoTable
    BY <1>3, <1>4, <2>2, ClosedKeepsRows
  <2> QED
    BY <2>1, <2>2
<1>7. /\ TextOK(text)' /\ (levels \in Ranks)' /\ (DOMAIN levels = HeadLevels(text, Len(text)))'
  BY <1>1 DEF TagInv, Tidy
<1> QED
  BY <1>3, <1>4, <1>5, <1>6, <1>7 DEF TagInv, Tidy, PointersOK

LEMMA SkipKeeps ==
  ASSUME TagInv, SkipArtifact
  PROVE  TagInv'
<1>1. /\ UNCHANGED <<text, levels, tags, sections, lists, table, diagram>> /\ next' = next + 1 /\ next < Len(text)
      /\ This.role = "Artifact"
  BY DEF SkipArtifact, Reads
<1>2. TextOK(text) /\ TagsOK /\ PointersOK /\ TablesOK /\ RowsOK
  BY DEF TagInv, Tidy
<1>3. TagsOK'
  BY <1>1, <1>2, SkipKeepsTags
<1>4. PointersOK'
  <2>1. ListSet' = ListSet
    BY <1>1 DEF ListSet
  <2> QED
    BY <1>1, <1>2, <2>1 DEF PointersOK, SectionsOK, ListsOK, OpenTableOK, DiagramOK, Points
<1>5. next \in Nat /\ next' \in Nat
  BY <1>1, <1>2, ThisIs DEF TagsOK
<1>6. /\ Emitted' = Emitted /\ TableNodes' = TableNodes
      /\ \A name, group : NameFits(name, group)' <=> NameFits(name, group)
  BY <1>1 DEF Emitted, NameFits, GroupsOfTables, TableNodes
<1>7. TablesOK'
  <2>1. Cardinality(Emitted) \in Nat
    BY <1>2, FS_CardinalityType DEF TablesOK
  <2>2. IsFiniteSet(Emitted') /\ Cardinality(Emitted') <= next'
    BY <1>1, <1>2, <1>5, <1>6, <2>1 DEF TablesOK
  <2>3. \A n \in TableNodes' : n <= next' => text'[n].group \in Emitted'
    <3> TAKE n \in TableNodes'
    <3>1. n \in TableNodes /\ n # next + 1 /\ n \in Nat
      <4>1. text[next + 1].role = "Artifact"
        BY <1>1 DEF This
      <4>2. n \in TableNodes /\ text[n].role \in {"Table", "TD"}
        BY <1>6 DEF TableNodes
      <4>3. n \in DOMAIN text
        BY <4>2 DEF TableNodes
      <4> QED
        BY <1>2, <4>1, <4>2, <4>3, PiecesOfAText
    <3>2. n <= next' => n <= next
      BY <1>1, <1>5, <3>1
    <3>3. n <= next => text[n].group \in Emitted
      BY <1>2, <3>1 DEF TablesOK
    <3> QED
      BY <1>1, <1>6, <3>2, <3>3
  <2>4. /\ \A i, j \in DOMAIN tags : tags[i].type = "Table" /\ tags[j].type = "Table" /\ tags[i].name = tags[j].name => i = j
        /\ \A i \in DOMAIN tags : tags[i].type = "TR" => Points(tags[i].parent, "Table") /\ tags[i].name \in Int
        /\ \A i, j \in DOMAIN tags : tags[i].type = "TR" /\ tags[j].type = "TR" /\ tags[i].parent = tags[j].parent /\ i < j
                                        => tags[i].name < tags[j].name
        /\ \A i \in DOMAIN tags : tags[i].type = "TD" =>
              Points(tags[i].parent, "TR") /\ NameFits(tags[tags[tags[i].parent].parent].name, text[tags[i].node].group)
    BY <1>2 DEF TablesOK
  <2> QED
    BY <1>1, <1>6, <2>2, <2>3, <2>4 DEF TablesOK, Points
<1>8. RowsOK'
  <2>1. \A r : RowRead(r) => RowRead(r)'
    <3>1. 1..next \subseteq 1..next'
      BY <1>1, <1>5
    <3> QED
      BY <1>1, <3>1 DEF RowRead
  <2>2. ~table.many => /\ table.offset = 0
                       /\ \A k \in DOMAIN table.rows : LET r == table.rows[k]
                             IN  r.page = table.page /\ r.number = r.row /\ RowRead(r)'
    BY <1>1, <1>2, <2>1 DEF RowsOK
  <2> QED
    BY <1>1, <1>2, <1>6, <2>2 DEF RowsOK
<1> QED
  BY <1>1, <1>2, <1>3, <1>4, <1>7, <1>8 DEF TagInv, Tidy

LEMMA LabelKeeps ==
  ASSUME TagInv, TagLabel
  PROVE  TagInv'
<1>1. Tidy /\ TagsOK /\ SectionsOK /\ ListsOK /\ OpenTableOK /\ DiagramOK /\ TagStep
  BY DEF TagInv, Tidy, PointersOK, TagStep
<1>2. UNCHANGED <<sections, text>> /\ lists' = << >> /\ table' = NoTable
  BY DEF TagLabel, EndsLists, EndsTable, Reads
<1>3. CASE Hangs(diagram.tag, <<Leaf("P", diagram.tag)>>) /\ UNCHANGED diagram
  <2> DEFINE new == <<Leaf("P", diagram.tag)>>
  <2>1. \A k \in DOMAIN new : new[k].type \notin {"Table", "TR", "TD"}
    BY LeafType
  <2>2. Hangs(diagram.tag, new)
    BY <1>3
  <2> HIDE DEF new
  <2> QED
    BY <1>1, <1>2, <1>3, <2>1, <2>2, SectionsStay, ListsStay, DiagramStays, HangKeeps
<1>4. CASE /\ Hangs(Container, <<Tag("Sect", Container, None, None), Leaf("P", Len(tags) + 1)>>)
           /\ diagram' = [group |-> This.group, parent |-> Container, tag |-> Len(tags) + 1]
  <2> DEFINE a == Tag("Sect", Container, None, None)
             b == Leaf("P", Len(tags) + 1)
             new == <<a, b>>
  <2>1. \A k \in DOMAIN new : new[k].type \notin {"Table", "TR", "TD"}
    <3>1. a.type = "Sect" /\ b.type = "P"
      BY LeafType, TagType
    <3> HIDE DEF a, b
    <3> QED
      BY <3>1
  <2>2. Hangs(Container, new) /\ new[1] = a
    BY <1>4
  <2>3. a.type = "Sect"
    BY TagType
  <2> HIDE DEF new, a
  <2>4. PointsIn(tags', Len(tags) + 1, "Sect") /\ Len(tags) + 1 \in Nat
    <3>1. /\ Len(tags) \in Nat /\ Len(new) \in Nat /\ DOMAIN new = 1..Len(new) /\ Len(new) >= 1
          /\ DOMAIN tags' = 1..(Len(tags) + Len(new))
      BY <1>1, <2>2, HungAre
    <3>2. tags'[Len(tags) + 1] = new[1]
      BY <2>2, <3>1 DEF Hangs
    <3> QED
      BY <2>2, <2>3, <3>1, <3>2 DEF PointsIn
  <2>5. DiagramOK'
    BY <1>4, <2>4 DEF DiagramOK, Points
  <2> QED
    BY <1>1, <1>2, <2>1, <2>2, <2>5, SectionsStay, ListsStay, HangKeeps
<1> QED
  BY <1>1, <1>3, <1>4, LabelHangs

LEMMA HeadingKeeps ==
  ASSUME TagInv, TagHeading
  PROVE  TagInv'
<1>1. Tidy /\ TagsOK /\ SectionsOK /\ ListsOK /\ OpenTableOK /\ DiagramOK /\ TagStep
  BY SMTT(30) DEF TagInv, Tidy, PointersOK, TagStep
<1>2. UNCHANGED text /\ lists' = << >> /\ table' = NoTable /\ diagram' = NoDiagram
  BY DEF TagHeading, EndsLists, EndsTable, EndsDiagram, Reads
<1> DEFINE level == levels[This.level]
<1>3. PICK kept \in 0..Len(sections) :
         LET parent == IF kept = 0 THEN None ELSE sections[kept].tag
         IN  /\ level \in Nat \ {0}
             /\ Hangs(parent, <<Tag("Sect", parent, None, None), Leaf("H", Len(tags) + 1)>>)
             /\ sections' = Append(SubSeq(sections, 1, kept), [level |-> level, tag |-> Len(tags) + 1])
  BY <1>1, HeadingHangs
<1> DEFINE parent == IF kept = 0 THEN None ELSE sections[kept].tag
           a == Tag("Sect", parent, None, None)
           b == Leaf("H", Len(tags) + 1)
           new == <<a, b>>
<1>4. \A k \in DOMAIN new : new[k].type \notin {"Table", "TR", "TD"}
  <2>1. a.type = "Sect" /\ b.type = "H"
    BY LeafType, TagType
  <2> HIDE DEF a, b
  <2> QED
    BY <2>1
<1>5. Hangs(parent, new) /\ new[1] = a
  BY <1>3
<1>6. a.type = "Sect"
  BY TagType
<1>7. level \in Int /\ sections' = Append(SubSeq(sections, 1, kept), [level |-> level, tag |-> Len(tags) + 1])
  BY <1>3
<1> HIDE DEF new, a, parent, level
<1>8. PointsIn(tags', Len(tags) + 1, "Sect") /\ Len(tags) + 1 \in Nat
  <2>1. /\ Len(tags) \in Nat /\ Len(new) \in Nat /\ DOMAIN new = 1..Len(new) /\ Len(new) >= 1
        /\ DOMAIN tags' = 1..(Len(tags) + Len(new))
    BY <1>1, <1>5, HungAre
  <2>2. tags'[Len(tags) + 1] = new[1]
    BY <1>5, <2>1 DEF Hangs
  <2> QED
    BY <1>5, <1>6, <2>1, <2>2 DEF PointsIn
<1>9. SectionsOK'
  <2> DEFINE X == [level : Int, tag : Nat]
             last == [level |-> level, tag |-> Len(tags) + 1]
             above == SubSeq(sections, 1, kept)
  <2>1. sections \in Seq(X) /\ last \in X
    BY <1>1, <1>7, <1>8 DEF SectionsOK
  <2>2. kept \in Nat /\ kept <= Len(sections)
    <3>1. Len(sections) \in Nat
      BY <2>1
    <3> QED
      BY <3>1
  <2>3. last.tag = Len(tags) + 1
    OBVIOUS
  <2> HIDE DEF X, last
  <2>4. above \in Seq(X) /\ Len(above) = kept /\ \A k \in 1..kept : above[k] = sections[k]
    BY <2>1, <2>2
  <2> HIDE DEF above
  <2>5. /\ Append(above, last) \in Seq(X) /\ DOMAIN Append(above, last) = 1..(kept + 1)
        /\ Append(above, last)[kept + 1] = last /\ \A k \in 1..kept : Append(above, last)[k] = above[k]
    BY <2>1, <2>2, <2>4
  <2>6. sections' = Append(above, last)
    BY <1>7 DEF above, last
  <2>7. \A k \in 1..kept : PointsIn(tags', sections[k].tag, "Sect")
    <3> TAKE k \in 1..kept
    <3>1. k \in DOMAIN sections
      BY <2>1, <2>2
    <3> QED
      BY <1>1, <1>5, <3>1, PointsKeep DEF SectionsOK, Points
  <2>8. \A k \in 1..(kept + 1) : k \in 1..kept \/ k = kept + 1
    BY <2>2
  <2>9. \A k \in DOMAIN sections' : PointsIn(tags', sections'[k].tag, "Sect")
    BY <1>8, <2>3, <2>4, <2>5, <2>6, <2>7, <2>8
  <2> QED
    BY <2>5, <2>6, <2>9 DEF SectionsOK, X, Points
<1> QED
  BY <1>1, <1>2, <1>4, <1>5, <1>9, ListsStay, DiagramStays, HangKeeps

LEMMA ContinueKeeps ==
  ASSUME TagInv, ContinueItem, step' = "tagging"
  PROVE  TagInv'
<1>1. Tidy /\ TagsOK /\ SectionsOK /\ ListsOK /\ OpenTableOK /\ DiagramOK /\ TagStep /\ UNCHANGED text
  BY DEF TagInv, Tidy, PointersOK, TagStep, ContinueItem, Reads
<1>2. PICK p \in Nat : Hangs(p, <<Leaf("P", p)>>)
  BY <1>1, ContinueHangs
<1>3. UNCHANGED <<sections, lists, table>> /\ diagram' = NoDiagram
  BY <1>1, ContinueHangs
<1> DEFINE new == <<Leaf("P", p)>>
<1>4. \A k \in DOMAIN new : new[k].type \notin {"Table", "TR", "TD"}
  BY LeafType
<1>5. Hangs(p, new)
  BY <1>2
<1> HIDE DEF new
<1> QED
  BY <1>1, <1>3, <1>4, <1>5, SectionsStay, ListsStay, DiagramStays, HangKeeps

LEMMA ParagraphKeeps ==
  ASSUME TagInv, TagParagraph, step' = "tagging"
  PROVE  TagInv'
<1>1. Tidy /\ TagsOK /\ SectionsOK /\ ListsOK /\ OpenTableOK /\ DiagramOK /\ TagStep /\ UNCHANGED text /\ step = "tagging"
  BY DEF TagInv, Tidy, PointersOK, TagStep, TagParagraph, Reads
<1>2. UNCHANGED sections /\ lists' = << >> /\ table' = NoTable /\ diagram' = NoDiagram
  BY <1>1 DEF TagParagraph, Refuse, EndsLists, EndsTable, EndsDiagram
<1>3. \E type \in {"P", "Span"} : \E p : Hangs(p, <<Leaf(type, p)>>)
  BY <1>1, ParagraphHangs
<1>4. PICK type \in {"P", "Span"} : \E p : Hangs(p, <<Leaf(type, p)>>)
  BY <1>3
<1>5. PICK p : Hangs(p, <<Leaf(type, p)>>)
  BY <1>4
<1> DEFINE new == <<Leaf(type, p)>>
<1>6. \A k \in DOMAIN new : new[k].type \notin {"Table", "TR", "TD"}
  BY LeafType
<1>7. Hangs(p, new)
  BY <1>5
<1> HIDE DEF new
<1> QED
  BY <1>1, <1>2, <1>6, <1>7, SectionsStay, ListsStay, DiagramStays, HangKeeps

LEMMA ListsGrow ==
  ASSUME TagsOK, ListsOK, NEW p, NEW new, Hangs(p, new), UNCHANGED text,
         NEW kept \in 0..Len(lists), NEW rec \in ListSet, rec.level = kept + 1,
         PointsIn(tags', rec.tag, "L"), PointsIn(tags', rec.last, "LI"),
         lists' = Append(SubSeq(lists, 1, kept), rec)
  PROVE  ListsOK'
<1> DEFINE X == ListSet
           above == SubSeq(lists, 1, kept)
<1>1. lists \in Seq(X) /\ rec \in X /\ ListSet' = X
  BY DEF ListsOK, ListSet
<1> HIDE DEF X
<1>2. kept \in Nat /\ kept <= Len(lists) /\ Len(lists) \in Nat
  BY <1>1
<1>3. above \in Seq(X) /\ Len(above) = kept /\ \A k \in 1..kept : above[k] = lists[k]
  BY <1>1, <1>2
<1>4. lists' = Append(above, rec)
  OBVIOUS
<1> HIDE DEF above
<1>5. /\ Append(above, rec) \in Seq(X) /\ DOMAIN Append(above, rec) = 1..(kept + 1)
      /\ Append(above, rec)[kept + 1] = rec /\ \A k \in 1..kept : Append(above, rec)[k] = above[k]
  BY <1>1, <1>2, <1>3
<1>6. \A k \in 1..kept : lists[k].level = k /\ PointsIn(tags', lists[k].tag, "L") /\ PointsIn(tags', lists[k].last, "LI")
  <2> TAKE k \in 1..kept
  <2>1. k \in DOMAIN lists
    BY <1>1, <1>2
  <2> QED
    BY <2>1, PointsKeep DEF ListsOK, Points
<1>7. \A k \in 1..(kept + 1) : k \in 1..kept \/ k = kept + 1
  BY <1>2
<1>8. \A k \in DOMAIN lists' : lists'[k].level = k /\ PointsIn(tags', lists'[k].tag, "L") /\ PointsIn(tags', lists'[k].last, "LI")
  BY <1>3, <1>4, <1>5, <1>6, <1>7
<1> QED
  BY <1>1, <1>4, <1>5, <1>8 DEF ListsOK, Points

LEMMA ItemKeeps ==
  ASSUME TagInv, TagItem, step' = "tagging"
  PROVE  TagInv'
<1>1. /\ Tidy /\ TextOK(text) /\ TagsOK /\ SectionsOK /\ ListsOK /\ OpenTableOK /\ DiagramOK /\ TagStep /\ UNCHANGED text
      /\ step = "tagging" /\ next < Len(text)
  BY ZenonT(40) DEF TagInv, Tidy, PointersOK, TagStep, TagItem, Reads
<1>2. UNCHANGED sections /\ table' = NoTable /\ diagram' = NoDiagram
  BY <1>1, ZenonT(40) DEF TagItem, Refuse, EndsTable, EndsDiagram
<1>3. This.group \in {text[n].group : n \in DOMAIN text}
  BY <1>1, ThisIs DEF This
<1>4. Len(lists) \in Nat /\ DOMAIN lists = 1..Len(lists) /\ \A k \in DOMAIN lists : lists[k] \in ListSet
  <2> DEFINE X == ListSet
  <2>1. lists \in Seq(X)
    BY <1>1 DEF ListsOK
  <2> HIDE DEF X
  <2>2. Len(lists) \in Nat /\ DOMAIN lists = 1..Len(lists) /\ \A k \in DOMAIN lists : lists[k] \in X
    BY <2>1
  <2> QED
    BY <2>2 DEF X
<1>5. Len(tags) \in Nat
  BY <1>1, ThisIs
<1>6. ASSUME NEW p, NEW q, NEW kept \in 0..Len(lists), NEW group \in {text[n].group : n \in DOMAIN text},
             Hangs(p, <<Tag("L", p, None, None), Leaf("LI", q)>>),
             lists' = Append(SubSeq(lists, 1, kept), [level |-> kept + 1, tag |-> Len(tags) + 1,
                                                      last |-> Len(tags) + 2, group |-> group])
      PROVE  TagInv'
  <2> DEFINE a == Tag("L", p, None, None)
             b == Leaf("LI", q)
             new == <<a, b>>
             rec == [level |-> kept + 1, tag |-> Len(tags) + 1, last |-> Len(tags) + 2, group |-> group]
  <2>1. a.type = "L" /\ b.type = "LI"
    BY LeafType, TagType
  <2>2. Hangs(p, new) /\ new[1] = a /\ new[2] = b /\ Len(new) = 2 /\ DOMAIN new = {1, 2}
    BY <1>6
  <2>3. \A k \in DOMAIN new : new[k].type \notin {"Table", "TR", "TD"}
    <3> HIDE DEF a, b, new
    <3> QED
      BY <2>1, <2>2
  <2>4. /\ rec \in ListSet /\ rec.level = kept + 1 /\ rec.tag = Len(tags) + 1 /\ rec.last = Len(tags) + 2
    BY <1>4, <1>5 DEF ListSet
  <2>5. lists' = Append(SubSeq(lists, 1, kept), rec)
    BY <1>6
  <2> HIDE DEF a, b, new, rec
  <2>6. PointsIn(tags', Len(tags) + 1, "L") /\ PointsIn(tags', Len(tags) + 2, "LI")
    <3>1. DOMAIN tags' = 1..(Len(tags) + 2)
      BY <1>1, <2>2, HungAre, ZenonT(40)
    <3>2. tags'[Len(tags) + 1] = a /\ tags'[Len(tags) + 2] = b
      BY <2>2 DEF Hangs
    <3> QED
      BY <1>5, <2>1, <3>1, <3>2 DEF PointsIn
  <2>7. ListsOK'
    BY <1>1, <2>2, <2>4, <2>5, <2>6, ListsGrow
  <2> QED
    BY <1>1, <1>2, <2>2, <2>3, <2>7, SectionsStay, DiagramStays, HangKeeps
<1>7. CASE /\ Hangs(Container, <<Tag("L", Container, None, None), Leaf("LI", Len(tags) + 1)>>)
           /\ lists' = <<[level |-> 1, tag |-> Len(tags) + 1, last |-> Len(tags) + 2, group |-> This.group]>>
  <2> DEFINE rec == [level |-> 0 + 1, tag |-> Len(tags) + 1, last |-> Len(tags) + 2, group |-> This.group]
  <2>1. lists' = <<rec>>
    BY <1>7
  <2> HIDE DEF rec
  <2>2. SubSeq(lists, 1, 0) = << >> /\ Append(<< >>, rec) = <<rec>>
    <3> DEFINE X == ListSet
    <3>1. lists \in Seq(X)
      BY <1>1 DEF ListsOK
    <3> HIDE DEF X
    <3> QED
      BY <3>1
  <2>3. lists' = Append(SubSeq(lists, 1, 0), rec) /\ 0 \in 0..Len(lists)
    BY <1>4, <2>1, <2>2
  <2> QED
    BY <1>3, <1>6, <1>7, <2>3 DEF rec
<1>8. CASE /\ lists # << >>
           /\ LET top == lists[Len(lists)]
              IN  /\ Hangs(top.last, <<Tag("L", top.last, None, None), Leaf("LI", Len(tags) + 1)>>)
                  /\ lists' = Append(lists, [level |-> Len(lists) + 1, tag |-> Len(tags) + 1,
                                             last |-> Len(tags) + 2, group |-> top.group])
  <2> DEFINE top == lists[Len(lists)]
             rec == [level |-> Len(lists) + 1, tag |-> Len(tags) + 1, last |-> Len(tags) + 2, group |-> top.group]
  <2>1. SubSeq(lists, 1, Len(lists)) = lists
    <3> DEFINE X == ListSet
    <3>1. lists \in Seq(X)
      BY <1>1 DEF ListsOK
    <3> HIDE DEF X
    <3> QED
      BY <3>1
  <2>2. Len(lists) \in DOMAIN lists
    BY <1>4, <1>8
  <2>3. top.group \in {text[n].group : n \in DOMAIN text}
    BY <1>4, <2>2 DEF ListSet
  <2>4. Len(lists) \in 0..Len(lists)
    BY <1>4
  <2>5. /\ Hangs(top.last, <<Tag("L", top.last, None, None), Leaf("LI", Len(tags) + 1)>>)
        /\ lists' = Append(SubSeq(lists, 1, Len(lists)), rec)
    BY <1>8, <2>1
  <2> HIDE DEF top
  <2> QED
    BY <1>6, <2>3, <2>4, <2>5
<1>9. CASE \E k \in DOMAIN lists :
                  /\ Hangs(lists[k].tag, <<Leaf("LI", lists[k].tag)>>)
                  /\ lists' = Append(SubSeq(lists, 1, k - 1),
                                     [level |-> k, tag |-> lists[k].tag, last |-> Len(tags) + 1, group |-> lists[k].group])
  <2>1. PICK k \in DOMAIN lists :
                  /\ Hangs(lists[k].tag, <<Leaf("LI", lists[k].tag)>>)
                  /\ lists' = Append(SubSeq(lists, 1, k - 1),
                                     [level |-> k, tag |-> lists[k].tag, last |-> Len(tags) + 1, group |-> lists[k].group])
    BY <1>9
  <2> DEFINE p == lists[k].tag
             b == Leaf("LI", p)
             new == <<b>>
             rec == [level |-> k, tag |-> p, last |-> Len(tags) + 1, group |-> lists[k].group]
  <2>2. b.type = "LI"
    BY LeafType
  <2>3. Hangs(p, new) /\ new[1] = b /\ Len(new) = 1 /\ DOMAIN new = {1}
    BY <2>1
  <2>4. \A j \in DOMAIN new : new[j].type \notin {"Table", "TR", "TD"}
    <3> HIDE DEF b, new
    <3> QED
      BY <2>2, <2>3
  <2>5. rec \in ListSet /\ rec.level = k /\ rec.tag = p /\ rec.last = Len(tags) + 1
    BY <1>4, <1>5 DEF ListSet
  <2>6. lists' = Append(SubSeq(lists, 1, k - 1), rec)
    BY <2>1
  <2>7. Points(p, "L")
    BY <1>1 DEF ListsOK
  <2> HIDE DEF b, new, rec, p
  <2>8. PointsIn(tags', p, "L")
    BY <1>1, <2>3, <2>7, PointsKeep DEF Points
  <2>9. PointsIn(tags', Len(tags) + 1, "LI")
    <3>1. DOMAIN tags' = 1..(Len(tags) + 1)
      BY <1>1, <2>3, HungAre
    <3>2. tags'[Len(tags) + 1] = b
      BY <2>3 DEF Hangs
    <3> QED
      BY <1>5, <2>2, <3>1, <3>2 DEF PointsIn
  <2>10. k - 1 \in 0..Len(lists) /\ k = (k - 1) + 1
    BY <1>4
  <2> DEFINE kept == k - 1
  <2>11. kept \in 0..Len(lists) /\ rec.level = kept + 1 /\ lists' = Append(SubSeq(lists, 1, kept), rec)
    BY <2>5, <2>6, <2>10
  <2> HIDE DEF kept
  <2>12. ListsOK'
    BY <1>1, <2>3, <2>5, <2>8, <2>9, <2>11, ListsGrow
  <2> QED
    BY <1>1, <1>2, <2>3, <2>4, <2>12, SectionsStay, DiagramStays, HangKeeps
<1> QED
  BY <1>1, <1>7, <1>8, <1>9, ItemHangs, ZenonT(40)

LEMMA EmittedGrows ==
  ASSUME TagsOK, NEW p, NEW new, Hangs(p, new)
  PROVE  Emitted \subseteq Emitted' /\ \A i \in DOMAIN tags' : tags'[i].type = "Table" => tags'[i].name \in Emitted'
<1>1. \A x : x \in Emitted <=> \E i \in DOMAIN tags : tags[i].type = "Table" /\ tags[i].name = x
  BY DEF Emitted, Range
<1>2. \A x : x \in Emitted' <=> \E i \in DOMAIN tags' : tags'[i].type = "Table" /\ tags'[i].name = x
  BY DEF Emitted, Range
<1>3. \A i \in DOMAIN tags : i \in DOMAIN tags' /\ tags'[i] = tags[i]
  BY HungAre
<1> QED
  BY <1>1, <1>2, <1>3

(* The name a new table would get.                                         *)
LEMMA FreshHere ==
  ASSUME TagInv, next < Len(text), This.role \in {"Table", "TD"}
  PROVE  /\ FreshName(This.group) \in Seq(Int) /\ FreshName(This.group) \notin Emitted
         /\ NameFits(FreshName(This.group), This.group)
         /\ This.group \in Emitted \cup {FreshName(This.group)} /\ This.group \in Seq(Int)
<1>1. TextOK(text) /\ TagsOK /\ TablesOK
  BY DEF TagInv, Tidy
<1>2. This.group \in Seq(Int)
  BY <1>1, ThisIs DEF PieceOK
<1>3. IsFiniteSet(Emitted) /\ Cardinality(Emitted) <= Len(text)
  <2>1. Cardinality(Emitted) \in Nat /\ next \in Nat /\ Len(text) \in Nat /\ Cardinality(Emitted) <= next
    BY <1>1, FS_CardinalityType, PiecesOfAText DEF TablesOK, TagsOK
  <2> QED
    BY <1>1, <2>1 DEF TablesOK
<1>4. /\ FreshName(This.group) \in Seq(Int) /\ FreshName(This.group) \notin Emitted
      /\ FreshName(This.group) = This.group \/ FreshName(This.group) \notin GroupsOfTables
      /\ This.group \in Emitted \cup {FreshName(This.group)}
  BY <1>1, <1>2, <1>3, FreshIs
<1> QED
  BY <1>2, <1>4 DEF NameFits

LEMMA NamesFitAlike == ASSUME UNCHANGED text PROVE \A name, group : NameFits(name, group)' <=> NameFits(name, group)
BY DEF NameFits, GroupsOfTables, TableNodes

LEMMA TableKeeps ==
  ASSUME TagInv, TagTable
  PROVE  TagInv'
<1>1. /\ Tidy /\ TextOK(text) /\ TagsOK /\ SectionsOK /\ ListsOK /\ OpenTableOK /\ DiagramOK /\ TagStep /\ TablesOK
      /\ UNCHANGED <<text, levels>> /\ next' = next + 1 /\ next < Len(text) /\ This.role = "Table"
  BY DEF TagInv, Tidy, PointersOK, TagStep, TagTable, Reads
<1>2. UNCHANGED sections /\ lists' = << >> /\ diagram' = NoDiagram
  BY DEF TagTable, EndsLists, EndsDiagram
<1> DEFINE name == FreshName(This.group)
           a == Tag("Table", Container, next + 1, name)
           new == <<a>>
<1>3. Hangs(Container, new) /\ table' = NewTable(Len(tags) + 1, This.group) /\ new[1] = a /\ DOMAIN new = {1} /\ Len(new) = 1
  BY <1>1, TableHangs
<1>4. a.type = "Table" /\ a.name = name
  BY TagType
<1>5. /\ name \in Seq(Int) /\ name \notin Emitted /\ NameFits(name, This.group)
      /\ This.group \in Emitted \cup {name} /\ This.group \in Seq(Int)
  BY <1>1, FreshHere
<1>6. Len(tags) \in Nat /\ DOMAIN tags = 1..Len(tags) /\ Len(tags) + 1 \in Nat
  BY <1>1, ThisIs
<1> HIDE DEF new, a, name
<1>7. /\ DOMAIN tags' = 1..(Len(tags) + 1) /\ tags'[Len(tags) + 1] = a
      /\ \A i \in DOMAIN tags : tags'[i] = tags[i]
      /\ \A i \in DOMAIN tags' : i \in DOMAIN tags \/ i = Len(tags) + 1
  <2>1. DOMAIN tags' = 1..(Len(tags) + 1) /\ \A i \in DOMAIN tags : tags'[i] = tags[i]
    BY <1>1, <1>3, HungAre
  <2>2. tags'[Len(tags) + 1] = a
    BY <1>3 DEF Hangs
  <2> QED
    BY <1>6, <2>1, <2>2
<1>8. TagsOK'
  BY <1>1, <1>3, HangKeepsTags
<1>9. TablesOK'
  <2>1. \A k \in DOMAIN new : new[k].type = "Table" => k = 1 /\ new[k].name \notin Emitted
    BY <1>3, <1>4, <1>5
  <2>2. \A k \in DOMAIN new : new[k].type # "TR" /\ new[k].type # "TD"
    BY <1>3, <1>4
  <2>3. This.group \in Emitted \/ \E k \in DOMAIN new : new[k].type = "Table" /\ This.group = new[k].name
    BY <1>3, <1>4, <1>5
  <2> QED
    BY <1>1, <1>3, <2>1, <2>2, <2>3, HangKeepsTables
<1>10. /\ table' = [tag |-> Len(tags) + 1, group |-> This.group, page |-> None, offset |-> 0, many |-> FALSE, rows |-> << >>]
       /\ table'.tag = Len(tags) + 1 /\ table'.group = This.group /\ table'.rows = << >> /\ table'.tag # None
       /\ table'.offset = 0 /\ DOMAIN table'.rows = {}
  <2> DEFINE p == Len(tags) + 1
             group == This.group
  <2>1. table' = NewTable(p, group) /\ p # 0
    BY <1>3, <1>6
  <2> HIDE DEF p, group
  <2>2. table' = [[tag |-> None, group |-> << >>, page |-> None, offset |-> 0, many |-> FALSE, rows |-> << >>]
                      EXCEPT !.tag = p, !.group = group]
    BY <2>1 DEF NewTable, NoTable
  <2>3. table' = [tag |-> p, group |-> group, page |-> None, offset |-> 0, many |-> FALSE, rows |-> << >>]
    BY <2>2
  <2>4. /\ table'.tag = p /\ table'.group = group /\ table'.rows = << >> /\ table'.tag # None
        /\ table'.offset = 0 /\ DOMAIN table'.rows = {}
    BY <2>1, <2>3 DEF None
  <2> QED
    BY <2>3, <2>4 DEF p, group
<1>11. OpenTableOK'
  <2>1. << >> \in Seq(RowSet) /\ None \in Int
    BY DEF None
  <2>2. PointsIn(tags', Len(tags) + 1, "Table")
    BY <1>4, <1>6, <1>7 DEF PointsIn
  <2> QED
    BY <1>5, <1>6, <1>10, <2>1, <2>2 DEF OpenTableOK, Points
<1>12. RowsOK'
  <2>1. This.group \in Emitted'
    <3>1. name \in Emitted'
      BY <1>1, <1>3, <1>4, <1>6, <1>7, EmittedGrows
    <3> QED
      BY <1>1, <1>3, <1>5, <3>1, EmittedGrows
  <2>2. NameFits(tags'[table'.tag].name, table'.group)
    BY <1>4, <1>5, <1>7, <1>10
  <2>3. ~ \E i \in DOMAIN tags' : tags'[i].type = "TR" /\ tags'[i].parent = table'.tag
    <3> SUFFICES ASSUME NEW i \in DOMAIN tags', tags'[i].type = "TR", tags'[i].parent = table'.tag PROVE FALSE
      OBVIOUS
    <3>1. i \in DOMAIN tags /\ tags[i].parent = Len(tags) + 1
      BY <1>4, <1>7, <1>10
    <3>2. tags[i].parent < i
      BY <1>1, <3>1 DEF TagsOK
    <3> QED
      BY <1>6, <3>1, <3>2
  <2> QED
    BY <1>1, <1>10, <2>1, <2>2, <2>3, NamesFitAlike DEF RowsOK
<1>13. SectionsOK' /\ ListsOK' /\ DiagramOK'
  BY <1>1, <1>2, <1>3, SectionsStay, ListsStay, DiagramStays
<1>14. /\ TextOK(text)' /\ (levels \in Ranks)' /\ (DOMAIN levels = HeadLevels(text, Len(text)))'
  BY <1>1 DEF TagInv, Tidy
<1> QED
  BY <1>8, <1>9, <1>11, <1>12, <1>13, <1>14 DEF TagInv, Tidy, PointersOK

-----------------------------------------------------------------------------
(* The three ways of a cell.                                               *)
LEMMA FirstCellKeeps ==
  ASSUME TagInv, TagStep, next < Len(text), This.role = "TD", UNCHANGED sections, lists' = << >>, diagram' = NoDiagram,
         Hangs(Container, <<Tag("Table", Container, None, FreshName(This.group)),
                            Tag("TR", Len(tags) + 1, None, This.row), Leaf("TD", Len(tags) + 2)>>),
         table' = [tag |-> Len(tags) + 1, group |-> This.group, page |-> This.page, offset |-> 0, many |-> FALSE,
                   rows |-> <<[page |-> This.page, row |-> This.row, number |-> This.row, tag |-> Len(tags) + 2]>>]
  PROVE  TagInv'
<1>1. /\ TextOK(text) /\ TagsOK /\ SectionsOK /\ ListsOK /\ OpenTableOK /\ DiagramOK /\ TablesOK
      /\ UNCHANGED <<text, levels>> /\ next' = next + 1
  BY TagStepReads DEF TagInv, Tidy, PointersOK
<1> DEFINE name == FreshName(This.group)
           a == Tag("Table", Container, None, name)
           b == Tag("TR", Len(tags) + 1, None, This.row)
           c == Leaf("TD", Len(tags) + 2)
           new == <<a, b, c>>
           row == [page |-> This.page, row |-> This.row, number |-> This.row, tag |-> Len(tags) + 2]
<1>2. Hangs(Container, new) /\ new[1] = a /\ new[2] = b /\ new[3] = c /\ DOMAIN new = {1, 2, 3} /\ Len(new) = 3
  BY ThreeOf
<1>3. /\ a.type = "Table" /\ a.name = name /\ b.type = "TR" /\ b.parent = Len(tags) + 1 /\ b.name = This.row
      /\ c.type = "TD" /\ c.parent = Len(tags) + 2
  BY TagType, LeafType
<1>4. /\ name \in Seq(Int) /\ name \notin Emitted /\ NameFits(name, This.group)
      /\ This.group \in Emitted \cup {name} /\ This.group \in Seq(Int)
  BY <1>1, FreshHere
<1>5. Len(tags) \in Nat /\ DOMAIN tags = 1..Len(tags) /\ This.page \in Int /\ This.row \in Int /\ next + 1 \in DOMAIN text
  BY <1>1, ThisIs DEF PieceOK
<1>6. row \in RowSet /\ row.tag = Len(tags) + 2 /\ row.number = This.row /\ row.page = This.page /\ row.row = This.row
  BY <1>5 DEF RowSet
<1>7. table' = [tag |-> Len(tags) + 1, group |-> This.group, page |-> This.page, offset |-> 0, many |-> FALSE,
                rows |-> <<row>>]
  OBVIOUS
<1> HIDE DEF new, a, b, c, name, row
<1>8. /\ DOMAIN tags' = 1..(Len(tags) + 3)
      /\ tags'[Len(tags) + 1] = a /\ tags'[Len(tags) + 2] = b /\ tags'[Len(tags) + 3] = c
      /\ \A i \in DOMAIN tags : tags'[i] = tags[i]
      /\ \A i \in DOMAIN tags' : i \in DOMAIN tags \/ i = Len(tags) + 1 \/ i = Len(tags) + 2 \/ i = Len(tags) + 3
  <2>1. DOMAIN tags' = 1..(Len(tags) + 3) /\ \A i \in DOMAIN tags : tags'[i] = tags[i]
    BY <1>1, <1>2, HungAre, ZenonT(40)
  <2>2. tags'[Len(tags) + 1] = a /\ tags'[Len(tags) + 2] = b /\ tags'[Len(tags) + 3] = c
    BY <1>2 DEF Hangs
  <2> QED
    BY <1>5, <2>1, <2>2, SMTT(30)
<1>9. PointsIn(tags', Len(tags) + 1, "Table") /\ PointsIn(tags', Len(tags) + 2, "TR")
  BY <1>3, <1>5, <1>8 DEF PointsIn
<1>10. \A i \in DOMAIN tags : tags[i].parent < i /\ i <= Len(tags) /\ tags[i].parent # Len(tags) + 1
  BY <1>1, <1>5 DEF TagsOK
<1>11. TagsOK'
  BY <1>1, <1>2, HangKeepsTags
<1>12. TablesOK'
  <2>1. \A k \in DOMAIN new : new[k].type = "Table" => k = 1 /\ new[k].name \notin Emitted
    BY <1>2, <1>3, <1>4
  <2>2. \A k \in DOMAIN new : new[k].type = "TR" =>
             /\ PointsIn(tags', new[k].parent, "Table") /\ new[k].name \in Int
             /\ \A j \in DOMAIN new : new[j].type = "TR" => j = k
             /\ \A i \in DOMAIN tags : tags[i].type = "TR" /\ tags[i].parent = new[k].parent => tags[i].name < new[k].name
    <3>1. \A k \in DOMAIN new : new[k].type = "TR" => k = 2
      BY <1>2, <1>3
    <3>2. PointsIn(tags', new[2].parent, "Table") /\ new[2].name \in Int /\ new[2].parent = Len(tags) + 1
      BY <1>2, <1>3, <1>5, <1>9
    <3>3. \A i \in DOMAIN tags : tags[i].parent # new[2].parent
      BY <1>10, <3>2
    <3> QED
      BY <3>1, <3>2, <3>3
  <2>3. \A k \in DOMAIN new : new[k].type = "TD" =>
             /\ PointsIn(tags', new[k].parent, "TR") /\ NameFits(tags'[tags'[new[k].parent].parent].name, This.group)
    <3>1. \A k \in DOMAIN new : new[k].type = "TD" => k = 3
      BY <1>2, <1>3
    <3>2. new[3].parent = Len(tags) + 2 /\ tags'[Len(tags) + 2].parent = Len(tags) + 1 /\ tags'[Len(tags) + 1].name = name
      BY <1>2, <1>3, <1>8
    <3> QED
      BY <1>4, <1>9, <3>1, <3>2
  <2>4. This.group \in Emitted \/ \E k \in DOMAIN new : new[k].type = "Table" /\ This.group = new[k].name
    BY <1>2, <1>3, <1>4
  <2> QED
    BY <1>1, <1>2, <2>1, <2>2, <2>3, <2>4, HangKeepsTables
<1>13. /\ table'.tag = Len(tags) + 1 /\ table'.group = This.group /\ table'.rows = <<row>> /\ table'.tag # None
       /\ table'.offset = 0 /\ table'.page = This.page /\ DOMAIN table'.rows = {1} /\ table'.rows[1] = row
  BY <1>5, <1>7 DEF None
<1>14. OpenTableOK'
  <2>1. <<row>> \in Seq(RowSet)
    BY <1>6
  <2>2. table' \in [tag : Nat, group : Seq(Int), page : Int, offset : Int, many : BOOLEAN, rows : Seq(RowSet)]
    BY <1>4, <1>5, <1>7, <2>1
  <2>3. \A k \in DOMAIN table'.rows : PointsIn(tags', table'.rows[k].tag, "TR")
    BY <1>6, <1>9, <1>13
  <2> QED
    BY <1>9, <1>13, <2>2, <2>3 DEF OpenTableOK, Points
<1>15. RowsOK'
  <2>1. This.group \in Emitted'
    <3>1. name \in Emitted'
      BY <1>1, <1>2, <1>3, <1>8, <1>9, EmittedGrows DEF PointsIn
    <3> QED
      BY <1>1, <1>2, <1>4, <3>1, EmittedGrows
  <2>2. NameFits(tags'[table'.tag].name, table'.group)
    BY <1>3, <1>4, <1>8, <1>13
  <2>3. \A i \in DOMAIN tags' : tags'[i].type = "TR" /\ tags'[i].parent = table'.tag => i = Len(tags) + 2
    BY <1>3, <1>8, <1>10, <1>13
  <2>4. tags'[row.tag].parent = table'.tag /\ tags'[row.tag].name = row.number
    BY <1>3, <1>6, <1>8, <1>13
  <2>5. \E n \in 1..next' : /\ text'[n].role = "TD" /\ text'[n].group = table'.group
                           /\ text'[n].page = row.page /\ text'[n].row = row.row
    <3>1. next + 1 \in 1..next'
      BY <1>1, <1>5 DEF TagsOK
    <3>2. /\ text'[next + 1].role = "TD" /\ text'[next + 1].group = table'.group
          /\ text'[next + 1].page = row.page /\ text'[next + 1].row = row.row
      BY <1>1, <1>6, <1>13 DEF This
    <3> QED
      BY <3>1, <3>2
  <2>6. \A k \in DOMAIN table'.rows : table'.rows[k] = row
    BY <1>13
  <2>7. /\ \A k \in DOMAIN table'.rows : tags'[table'.rows[k].tag].parent = table'.tag
                                            /\ tags'[table'.rows[k].tag].name = table'.rows[k].number
        /\ \A i \in DOMAIN tags' : tags'[i].type = "TR" /\ tags'[i].parent = table'.tag =>
             \E k \in DOMAIN table'.rows : table'.rows[k].tag = i
    BY <1>6, <1>13, <2>3, <2>4
  <2>8. \A k \in DOMAIN table'.rows : /\ table'.rows[k].page = table'.page /\ table'.rows[k].number = table'.rows[k].row
          /\ \E n \in 1..next' : /\ text'[n].role = "TD" /\ text'[n].group = table'.group
                                 /\ text'[n].page = table'.rows[k].page /\ text'[n].row = table'.rows[k].row
    BY <1>6, <1>13, <2>5, <2>6
  <2> QED
    BY <1>1, <1>13, <2>1, <2>2, <2>7, <2>8, NamesFitAlike DEF RowsOK, RowRead
<1>16. SectionsOK' /\ ListsOK' /\ DiagramOK'
  BY <1>1, <1>2, SectionsStay, ListsStay, DiagramStays
<1>17. /\ TextOK(text)' /\ (levels \in Ranks)' /\ (DOMAIN levels = HeadLevels(text, Len(text)))'
  BY <1>1 DEF TagInv, Tidy
<1> QED
  BY <1>11, <1>12, <1>14, <1>15, <1>16, <1>17 DEF TagInv, Tidy, PointersOK

(* What a cell of the open table leaves of it.                             *)
LEMMA OpenStays ==
  ASSUME TagInv, NEW p, NEW new, Hangs(p, new), table.tag # None, table.group = This.group, next < Len(text),
         This.role = "TD", UNCHANGED text, next' = next + 1
  PROVE  /\ PointsIn(tags', table.tag, "Table") /\ tags'[table.tag] = tags[table.tag]
         /\ \A k \in DOMAIN table.rows :
               /\ table.rows[k].tag \in DOMAIN tags /\ PointsIn(tags', table.rows[k].tag, "TR")
               /\ tags'[table.rows[k].tag] = tags[table.rows[k].tag]
               /\ tags'[table.rows[k].tag].parent = table.tag /\ tags'[table.rows[k].tag].name = table.rows[k].number
         /\ table.group \in Emitted' /\ NameFits(tags'[table.tag].name, table.group)
         /\ NameFits(tags[table.tag].name, This.group) /\ This.group \in Emitted
         /\ table.tag \in Nat /\ table.group \in Seq(Int) /\ table.rows \in Seq(RowSet)
         /\ This.page \in Int /\ This.row \in Int /\ next + 1 \in DOMAIN text
         /\ \A n \in 1..next : n \in 1..next' /\ text'[n] = text[n]
         /\ next + 1 \in 1..next' /\ text'[next + 1] = This
<1>1. TextOK(text) /\ TagsOK /\ OpenTableOK /\ TablesOK /\ RowsOK
  BY DEF TagInv, Tidy, PointersOK
<1>2. Points(table.tag, "Table") /\ \A k \in DOMAIN table.rows : Points(table.rows[k].tag, "TR")
  BY <1>1 DEF OpenTableOK
<1>3. \A i \in DOMAIN tags : i \in DOMAIN tags' /\ tags'[i] = tags[i]
  BY <1>1, HungAre
<1>4. /\ PointsIn(tags', table.tag, "Table") /\ tags'[table.tag] = tags[table.tag]
      /\ \A k \in DOMAIN table.rows :
            /\ table.rows[k].tag \in DOMAIN tags /\ PointsIn(tags', table.rows[k].tag, "TR")
            /\ tags'[table.rows[k].tag] = tags[table.rows[k].tag]
  BY <1>2, <1>3 DEF Points, PointsIn
<1>5. \A k \in DOMAIN table.rows : tags[table.rows[k].tag].parent = table.tag /\ tags[table.rows[k].tag].name = table.rows[k].number
  BY <1>1 DEF RowsOK
<1>6. NameFits(tags[table.tag].name, table.group) /\ table.group \in Emitted
  BY <1>1 DEF RowsOK
<1>7. table.group \in Emitted'
  BY <1>1, <1>6, EmittedGrows
<1>8. NameFits(tags'[table.tag].name, table.group)
  BY <1>4, <1>6
<1>9. table.tag \in Nat /\ table.group \in Seq(Int) /\ table.rows \in Seq(RowSet)
  BY <1>1 DEF OpenTableOK
<1>10. This.page \in Int /\ This.row \in Int /\ next + 1 \in DOMAIN text
  BY <1>1, ThisIs DEF PieceOK
<1>11. next \in Nat
  BY <1>1 DEF TagsOK
<1>12. /\ \A n \in 1..next : n \in 1..next' /\ text'[n] = text[n]
       /\ next + 1 \in 1..next' /\ text'[next + 1] = This
  BY <1>11 DEF This
<1> QED
  BY <1>4, <1>5, <1>6, <1>7, <1>8, <1>9, <1>10, <1>12

(* A further cell of a row.                                                *)
LEMMA SameRowKeeps ==
  ASSUME TagInv, TagStep, next < Len(text), This.role = "TD", UNCHANGED sections, lists' = << >>, diagram' = NoDiagram,
         table.tag # None, table.group = This.group,
         NEW offset \in Int, NEW many \in BOOLEAN, NEW at \in DOMAIN table.rows,
         ~many => ~table.many /\ offset = 0 /\ table.page = This.page,
         Hangs(table.rows[at].tag, <<Leaf("TD", table.rows[at].tag)>>),
         table' = TableNow(This.page, offset, many, table.rows)
  PROVE  TagInv'
<1>1. /\ TextOK(text) /\ TagsOK /\ SectionsOK /\ ListsOK /\ OpenTableOK /\ DiagramOK /\ TablesOK /\ RowsOK
      /\ UNCHANGED <<text, levels>> /\ next' = next + 1
  BY TagStepReads DEF TagInv, Tidy, PointersOK
<1> DEFINE p == table.rows[at].tag
           c == Leaf("TD", p)
           new == <<c>>
<1>2. Hangs(p, new) /\ new[1] = c /\ DOMAIN new = {1} /\ Len(new) = 1
  OBVIOUS
<1>3. c.type = "TD" /\ c.parent = p
  BY LeafType
<1> HIDE DEF new, c
<1>4. /\ PointsIn(tags', table.tag, "Table") /\ tags'[table.tag] = tags[table.tag]
      /\ \A k \in DOMAIN table.rows :
            /\ table.rows[k].tag \in DOMAIN tags /\ PointsIn(tags', table.rows[k].tag, "TR")
            /\ tags'[table.rows[k].tag] = tags[table.rows[k].tag]
            /\ tags'[table.rows[k].tag].parent = table.tag /\ tags'[table.rows[k].tag].name = table.rows[k].number
      /\ table.group \in Emitted' /\ NameFits(tags'[table.tag].name, table.group)
      /\ NameFits(tags[table.tag].name, This.group) /\ This.group \in Emitted
      /\ table.tag \in Nat /\ table.group \in Seq(Int) /\ table.rows \in Seq(RowSet) /\ This.page \in Int
      /\ \A n \in 1..next : n \in 1..next' /\ text'[n] = text[n]
  BY <1>1, <1>2, OpenStays
<1>5. /\ table'.tag = table.tag /\ table'.group = table.group /\ table'.page = This.page /\ table'.offset = offset
      /\ table'.many = many /\ table'.rows = table.rows
      /\ table' \in [tag : Nat, group : Seq(Int), page : Int, offset : Int, many : BOOLEAN, rows : Seq(RowSet)]
  BY <1>4 DEF TableNow
<1>6. TagsOK'
  BY <1>1, <1>2, HangKeepsTags
<1>7. TablesOK'
  <2>1. \A k \in DOMAIN new : new[k].type = "TD" /\ new[k].parent = p
    BY <1>2, <1>3
  <2>2. PointsIn(tags', p, "TR") /\ NameFits(tags'[tags'[p].parent].name, This.group)
    BY <1>4
  <2>3. \A k \in DOMAIN new : new[k].type = "TD" =>
             /\ PointsIn(tags', new[k].parent, "TR") /\ NameFits(tags'[tags'[new[k].parent].parent].name, This.group)
    BY <2>1, <2>2
  <2> HIDE DEF p
  <2> QED
    BY <1>1, <1>2, <1>4, <2>1, <2>3, HangKeepsTables
<1>8. OpenTableOK'
  BY <1>4, <1>5, SMTT(30) DEF OpenTableOK, Points
<1>9. RowsOK'
  <2>1. ASSUME NEW i \in DOMAIN tags', tags'[i].type = "TR", tags'[i].parent = table.tag
        PROVE  \E k \in DOMAIN table.rows : table.rows[k].tag = i
    <3>1. i \in DOMAIN tags
      <4>1. i \notin DOMAIN tags => i - Len(tags) \in 1..Len(new) /\ tags'[i] = new[i - Len(tags)]
        BY <1>1, <1>2, HungAre
      <4> QED
        BY <1>2, <1>3, <2>1, <4>1
    <3>2. tags'[i] = tags[i]
      BY <1>1, <1>2, <3>1, HungAre
    <3> QED
      BY <1>1, <2>1, <3>1, <3>2 DEF RowsOK
  <2>2. ASSUME ~many
        PROVE  /\ offset = 0
               /\ \A k \in DOMAIN table.rows :
                     /\ table.rows[k].page = This.page /\ table.rows[k].number = table.rows[k].row
                     /\ \E n \in 1..next' : /\ text'[n].role = "TD" /\ text'[n].group = table.group
                                            /\ text'[n].page = table.rows[k].page /\ text'[n].row = table.rows[k].row
    <3>0. ASSUME NEW pg, NEW rw, \E n \in 1..next : /\ text[n].role = "TD" /\ text[n].group = table.group
                                                     /\ text[n].page = pg /\ text[n].row = rw
          PROVE  \E n \in 1..next' : /\ text'[n].role = "TD" /\ text'[n].group = table.group
                                     /\ text'[n].page = pg /\ text'[n].row = rw
      <4>1. PICK n \in 1..next : text[n].role = "TD" /\ text[n].group = table.group /\ text[n].page = pg /\ text[n].row = rw
        BY <3>0
      <4>2. n \in 1..next' /\ text'[n] = text[n]
        BY <1>4
      <4> QED
        BY <4>1, <4>2
    <3>1. ~table.many /\ table.page = This.page /\ offset = 0
      BY <2>2
    <3>2. \A k \in DOMAIN table.rows :
             /\ table.rows[k].page = table.page /\ table.rows[k].number = table.rows[k].row
             /\ \E n \in 1..next : /\ text[n].role = "TD" /\ text[n].group = table.group
                                   /\ text[n].page = table.rows[k].page /\ text[n].row = table.rows[k].row
      BY <1>1, <3>1 DEF RowsOK, RowRead
    <3> QED
      <4>1. ASSUME NEW k \in DOMAIN table.rows
            PROVE  \E n \in 1..next' : /\ text'[n].role = "TD" /\ text'[n].group = table.group
                                       /\ text'[n].page = table.rows[k].page /\ text'[n].row = table.rows[k].row
        <5> DEFINE pg == table.rows[k].page
                   rw == table.rows[k].row
        <5>1. \E n \in 1..next : text[n].role = "TD" /\ text[n].group = table.group /\ text[n].page = pg /\ text[n].row = rw
          BY <3>2
        <5> HIDE DEF pg, rw
        <5>2. \E n \in 1..next' : /\ text'[n].role = "TD" /\ text'[n].group = table.group
                                  /\ text'[n].page = pg /\ text'[n].row = rw
          BY <3>0, <5>1
        <5> QED
          BY <5>2 DEF pg, rw
      <4> QED
        BY <3>1, <3>2, <4>1
  <2> QED
    BY <1>1, <1>4, <1>5, <2>1, <2>2, NamesFitAlike DEF RowsOK, RowRead
<1>10. SectionsOK' /\ ListsOK' /\ DiagramOK'
  BY <1>1, <1>2, SectionsStay, ListsStay, DiagramStays
<1>11. /\ TextOK(text)' /\ (levels \in Ranks)' /\ (DOMAIN levels = HeadLevels(text, Len(text)))'
  BY <1>1 DEF TagInv, Tidy
<1> QED
  BY <1>6, <1>7, <1>8, <1>9, <1>10, <1>11 DEF TagInv, Tidy, PointersOK

(* The first cell of a row.                                                *)
LEMMA NewRowKeeps ==
  ASSUME TagInv, TagStep, next < Len(text), This.role = "TD", UNCHANGED sections, lists' = << >>, diagram' = NoDiagram,
         table.tag # None, table.group = This.group,
         NEW offset \in Int, NEW many \in BOOLEAN,
         ~many => ~table.many /\ offset = 0 /\ (table.page = This.page \/ table.rows = << >>),
         \A k \in DOMAIN table.rows : table.rows[k].number < This.row + offset,
         Hangs(table.tag, <<Tag("TR", table.tag, None, This.row + offset), Leaf("TD", Len(tags) + 1)>>),
         table' = TableNow(This.page, offset, many,
                           Append(table.rows, [page |-> This.page, row |-> This.row,
                                               number |-> This.row + offset, tag |-> Len(tags) + 1]))
  PROVE  TagInv'
<1>1. /\ TextOK(text) /\ TagsOK /\ SectionsOK /\ ListsOK /\ OpenTableOK /\ DiagramOK /\ TablesOK /\ RowsOK
      /\ UNCHANGED <<text, levels>> /\ next' = next + 1
  BY TagStepReads DEF TagInv, Tidy, PointersOK
<1> DEFINE number == This.row + offset
           b == Tag("TR", table.tag, None, number)
           c == Leaf("TD", Len(tags) + 1)
           new == <<b, c>>
           row == [page |-> This.page, row |-> This.row, number |-> number, tag |-> Len(tags) + 1]
           rows == Append(table.rows, row)
           m == Len(table.rows)
<1>2. Hangs(table.tag, new) /\ new[1] = b /\ new[2] = c /\ DOMAIN new = {1, 2} /\ Len(new) = 2
  BY PairOf
<1>3. b.type = "TR" /\ b.parent = table.tag /\ b.name = number /\ c.type = "TD" /\ c.parent = Len(tags) + 1
  BY TagType, LeafType
<1>4. table' = TableNow(This.page, offset, many, rows)
  OBVIOUS
<1>5. Len(tags) \in Nat /\ DOMAIN tags = 1..Len(tags)
  BY <1>1, ThisIs
<1> HIDE DEF new, b, c
<1>6. /\ PointsIn(tags', table.tag, "Table") /\ tags'[table.tag] = tags[table.tag]
      /\ \A k \in DOMAIN table.rows :
            /\ table.rows[k].tag \in DOMAIN tags /\ PointsIn(tags', table.rows[k].tag, "TR")
            /\ tags'[table.rows[k].tag] = tags[table.rows[k].tag]
            /\ tags'[table.rows[k].tag].parent = table.tag /\ tags'[table.rows[k].tag].name = table.rows[k].number
      /\ table.group \in Emitted' /\ NameFits(tags'[table.tag].name, table.group)
      /\ NameFits(tags[table.tag].name, This.group) /\ This.group \in Emitted
      /\ table.tag \in Nat /\ table.group \in Seq(Int) /\ table.rows \in Seq(RowSet)
      /\ This.page \in Int /\ This.row \in Int
      /\ \A n \in 1..next : n \in 1..next' /\ text'[n] = text[n]
      /\ next + 1 \in 1..next' /\ text'[next + 1] = This
  BY <1>1, <1>2, OpenStays
<1>7. number \in Int
  BY <1>6
<1>8. /\ row \in RowSet /\ row.tag = Len(tags) + 1 /\ row.number = number /\ row.page = This.page /\ row.row = This.row
  BY <1>5, <1>6, <1>7 DEF RowSet
<1>9. /\ DOMAIN tags' = 1..(Len(tags) + 2)
      /\ tags'[Len(tags) + 1] = b /\ tags'[Len(tags) + 2] = c
      /\ \A i \in DOMAIN tags : tags'[i] = tags[i]
      /\ \A i \in DOMAIN tags' : i \in DOMAIN tags \/ i = Len(tags) + 1 \/ i = Len(tags) + 2
  <2>1. DOMAIN tags' = 1..(Len(tags) + 2) /\ \A i \in DOMAIN tags : tags'[i] = tags[i]
    <3>1. TagsOK /\ Hangs(table.tag, new) /\ Len(new) = 2
      BY <1>1, <1>2
    <3>2. DOMAIN tags' = 1..(Len(tags) + Len(new)) /\ \A i \in DOMAIN tags : tags'[i] = tags[i]
      BY <3>1, HungAre
    <3> QED
      BY <3>1, <3>2
  <2>2. tags'[Len(tags) + 1] = b /\ tags'[Len(tags) + 2] = c
    BY <1>2 DEF Hangs
  <2> QED
    BY <1>5, <2>1, <2>2
<1>10. PointsIn(tags', Len(tags) + 1, "TR")
  BY <1>3, <1>5, <1>9 DEF PointsIn
<1>11. /\ rows \in Seq(RowSet) /\ DOMAIN rows = 1..(m + 1) /\ rows[m + 1] = row /\ m \in Nat
       /\ DOMAIN table.rows = 1..m /\ \A k \in DOMAIN table.rows : rows[k] = table.rows[k]
  <2> DEFINE S == RowSet
  <2>1. table.rows \in Seq(S) /\ row \in S
    BY <1>6, <1>8
  <2> HIDE DEF S, row
  <2>2. rows \in Seq(S) /\ DOMAIN rows = 1..(m + 1) /\ rows[m + 1] = row /\ m \in Nat
       /\ DOMAIN table.rows = 1..m /\ \A k \in DOMAIN table.rows : rows[k] = table.rows[k]
    BY <2>1
  <2> QED
    BY <2>2 DEF S
<1> HIDE DEF row, rows, number, m
<1>12. /\ table'.tag = table.tag /\ table'.group = table.group /\ table'.page = This.page /\ table'.offset = offset
       /\ table'.many = many /\ table'.rows = rows
       /\ table' \in [tag : Nat, group : Seq(Int), page : Int, offset : Int, many : BOOLEAN, rows : Seq(RowSet)]
  BY <1>4, <1>6, <1>11, SMTT(30) DEF TableNow
<1>13. \A k \in DOMAIN rows : (k \in DOMAIN table.rows /\ rows[k] = table.rows[k]) \/ (k = m + 1 /\ rows[k] = row)
  BY <1>11
<1>14. TagsOK'
  BY <1>1, <1>2, HangKeepsTags
<1>15. TablesOK'
  <2>1. \A k \in DOMAIN new : (k = 1 /\ new[k] = b) \/ (k = 2 /\ new[k] = c)
    BY <1>2
  <2>2. \A i \in DOMAIN tags : tags[i].type = "TR" /\ tags[i].parent = table.tag => tags[i].name < number
    <3> TAKE i \in DOMAIN tags
    <3> HAVE tags[i].type = "TR" /\ tags[i].parent = table.tag
    <3>1. PICK k \in DOMAIN table.rows : table.rows[k].tag = i
      BY <1>1 DEF RowsOK
    <3>2. tags[i].name = table.rows[k].number
      BY <1>6, <3>1
    <3> QED
      BY <3>2 DEF number
  <2>3. \A k \in DOMAIN new : new[k].type = "TR" =>
             /\ PointsIn(tags', new[k].parent, "Table") /\ new[k].name \in Int
             /\ \A j \in DOMAIN new : new[j].type = "TR" => j = k
             /\ \A i \in DOMAIN tags : tags[i].type = "TR" /\ tags[i].parent = new[k].parent => tags[i].name < new[k].name
    <3>1. \A k \in DOMAIN new : new[k].type = "TR" => k = 1 /\ new[k] = b
      BY <1>3, <2>1
    <3> QED
      BY <1>3, <1>6, <1>7, <2>2, <3>1
  <2>4. \A k \in DOMAIN new : new[k].type = "TD" =>
             /\ PointsIn(tags', new[k].parent, "TR") /\ NameFits(tags'[tags'[new[k].parent].parent].name, This.group)
    <3>1. \A k \in DOMAIN new : new[k].type = "TD" => new[k] = c
      BY <1>3, <2>1
    <3>2. tags'[c.parent].parent = table.tag
      BY <1>3, <1>9
    <3> QED
      BY <1>3, <1>6, <1>10, <3>1, <3>2
  <2>5. \A k \in DOMAIN new : new[k].type # "Table"
    BY <1>3, <2>1
  <2> QED
    BY <1>1, <1>2, <1>6, <2>3, <2>4, <2>5, HangKeepsTables, ZenonT(40)
<1>16. OpenTableOK'
  <2>1. \A k \in DOMAIN rows : PointsIn(tags', rows[k].tag, "TR")
    BY <1>6, <1>8, <1>10, <1>13
  <2> QED
    BY <1>6, <1>12, <2>1, SMTT(30) DEF OpenTableOK, Points
<1>17. RowsOK'
  <2>1. ASSUME NEW i \in DOMAIN tags', tags'[i].type = "TR", tags'[i].parent = table.tag
        PROVE  \E k \in DOMAIN rows : rows[k].tag = i
    <3>1. CASE i \in DOMAIN tags
      <4>1. PICK k \in DOMAIN table.rows : table.rows[k].tag = i
        BY <1>1, <1>9, <2>1, <3>1 DEF RowsOK
      <4>2. k \in DOMAIN rows /\ rows[k] = table.rows[k]
        BY <1>11
      <4> QED
        BY <4>1, <4>2
    <3>2. CASE i = Len(tags) + 1
      <4>1. m + 1 \in DOMAIN rows /\ rows[m + 1] = row
        BY <1>11
      <4> QED
        BY <1>8, <3>2, <4>1
    <3>3. CASE i = Len(tags) + 2
      BY <1>3, <1>9, <2>1, <3>3
    <3> QED
      BY <1>9, <3>1, <3>2, <3>3
  <2>2. ASSUME ~many
        PROVE  /\ offset = 0
               /\ \A k \in DOMAIN rows :
                     /\ rows[k].page = This.page /\ rows[k].number = rows[k].row
                     /\ \E n \in 1..next' : /\ text'[n].role = "TD" /\ text'[n].group = table.group
                                            /\ text'[n].page = rows[k].page /\ text'[n].row = rows[k].row
    <3>0. ASSUME NEW pg, NEW rw, \E n \in 1..next : /\ text[n].role = "TD" /\ text[n].group = table.group
                                                     /\ text[n].page = pg /\ text[n].row = rw
          PROVE  \E n \in 1..next' : /\ text'[n].role = "TD" /\ text'[n].group = table.group
                                     /\ text'[n].page = pg /\ text'[n].row = rw
      <4>1. PICK n \in 1..next : text[n].role = "TD" /\ text[n].group = table.group /\ text[n].page = pg /\ text[n].row = rw
        BY <3>0
      <4>2. n \in 1..next' /\ text'[n] = text[n]
        BY <1>6
      <4> QED
        BY <4>1, <4>2
    <3>1. ~table.many /\ (table.page = This.page \/ table.rows = << >>) /\ offset = 0
      BY <2>2
    <3>2. \A k \in DOMAIN table.rows :
             /\ table.rows[k].page = table.page /\ table.rows[k].number = table.rows[k].row
             /\ \E n \in 1..next : /\ text[n].role = "TD" /\ text[n].group = table.group
                                   /\ text[n].page = table.rows[k].page /\ text[n].row = table.rows[k].row
      BY <1>1, <3>1 DEF RowsOK, RowRead
    <3>3. \A k \in DOMAIN table.rows : table.page = This.page
      BY <3>1
    <3>4. \A k \in DOMAIN table.rows :
             /\ table.rows[k].page = This.page /\ table.rows[k].number = table.rows[k].row
             /\ \E n \in 1..next' : /\ text'[n].role = "TD" /\ text'[n].group = table.group
                                    /\ text'[n].page = table.rows[k].page /\ text'[n].row = table.rows[k].row
      <4>1. ASSUME NEW k \in DOMAIN table.rows
            PROVE  \E n \in 1..next' : /\ text'[n].role = "TD" /\ text'[n].group = table.group
                                       /\ text'[n].page = table.rows[k].page /\ text'[n].row = table.rows[k].row
        <5> DEFINE pg == table.rows[k].page
                   rw == table.rows[k].row
        <5>1. \E n \in 1..next : text[n].role = "TD" /\ text[n].group = table.group /\ text[n].page = pg /\ text[n].row = rw
          BY <3>2
        <5> HIDE DEF pg, rw
        <5>2. \E n \in 1..next' : /\ text'[n].role = "TD" /\ text'[n].group = table.group
                                  /\ text'[n].page = pg /\ text'[n].row = rw
          BY <3>0, <5>1
        <5> QED
          BY <5>2 DEF pg, rw
      <4> QED
        BY <3>2, <3>3, <4>1
    <3>5. /\ row.page = This.page /\ row.number = row.row
          /\ \E n \in 1..next' : /\ text'[n].role = "TD" /\ text'[n].group = table.group
                                 /\ text'[n].page = row.page /\ text'[n].row = row.row
      <4>1. row.page = This.page /\ row.row = This.row /\ row.number = number
        BY <1>8
      <4>2. number = This.row
        BY <1>6, <3>1 DEF number
      <4>3. next + 1 \in 1..next' /\ text'[next + 1] = This
        BY <1>6
      <4>4. /\ text'[next + 1].role = "TD" /\ text'[next + 1].group = table.group
            /\ text'[next + 1].page = row.page /\ text'[next + 1].row = row.row
        BY <4>1, <4>3
      <4> QED
        BY <4>1, <4>2, <4>3, <4>4
    <3> QED
      BY <1>13, <3>1, <3>4, <3>5
  <2>3. \A k \in DOMAIN rows : tags'[rows[k].tag].parent = table.tag /\ tags'[rows[k].tag].name = rows[k].number
    BY <1>3, <1>6, <1>8, <1>9, <1>13, ZenonT(40)
  <2> QED
    <3>1. NameFits(tags[table.tag].name, table.group)' /\ table'.group \in Emitted'
      BY <1>1, <1>6, <1>12, NamesFitAlike, SMTT(30)
    <3>2. /\ \A k \in DOMAIN table'.rows : /\ tags'[table'.rows[k].tag].parent = table'.tag
                                            /\ tags'[table'.rows[k].tag].name = table'.rows[k].number
          /\ \A i \in DOMAIN tags' : tags'[i].type = "TR" /\ tags'[i].parent = table'.tag =>
                  \E k \in DOMAIN table'.rows : table'.rows[k].tag = i
      BY <1>12, <2>1, <2>3, ZenonT(40)
    <3>3. ~table'.many =>
            /\ table'.offset = 0
            /\ \A k \in DOMAIN table'.rows :
                     /\ table'.rows[k].page = table'.page /\ table'.rows[k].number = table'.rows[k].row
                     /\ \E n \in 1..next' : /\ text'[n].role = "TD" /\ text'[n].group = table'.group
                                            /\ text'[n].page = table'.rows[k].page /\ text'[n].row = table'.rows[k].row
      <4> SUFFICES ASSUME ~table'.many
                   PROVE  /\ table'.offset = 0
                          /\ \A k \in DOMAIN table'.rows :
                                /\ table'.rows[k].page = table'.page /\ table'.rows[k].number = table'.rows[k].row
                                /\ \E n \in 1..next' : /\ text'[n].role = "TD" /\ text'[n].group = table'.group
                                                       /\ text'[n].page = table'.rows[k].page
                                                       /\ text'[n].row = table'.rows[k].row
        OBVIOUS
      <4>1. ~many /\ table'.offset = offset /\ table'.group = table.group /\ table'.page = This.page /\ table'.rows = rows
        BY <1>12
      <4> HIDE DEF rows
      <4>2. ASSUME NEW k \in DOMAIN rows
            PROVE  /\ rows[k].page = table'.page /\ rows[k].number = rows[k].row
                   /\ \E n \in 1..next' : /\ text'[n].role = "TD" /\ text'[n].group = table'.group
                                          /\ text'[n].page = rows[k].page /\ text'[n].row = rows[k].row
        <5>1. /\ rows[k].page = This.page /\ rows[k].number = rows[k].row
              /\ \E n \in 1..next' : /\ text'[n].role = "TD" /\ text'[n].group = table.group
                                     /\ text'[n].page = rows[k].page /\ text'[n].row = rows[k].row
          BY <2>2, <4>1
        <5> QED
          BY <4>1, <5>1
      <4>3. offset = 0
        BY <2>2, <4>1
      <4> QED
        BY <4>1, <4>2, <4>3
    <3> QED
      BY <3>1, <3>2, <3>3, ZenonT(40) DEF RowsOK, RowRead
<1>18. SectionsOK' /\ ListsOK' /\ DiagramOK'
  BY <1>1, <1>2, SectionsStay, ListsStay, DiagramStays
<1>19. /\ TextOK(text)' /\ (levels \in Ranks)' /\ (DOMAIN levels = HeadLevels(text, Len(text)))'
  BY <1>1 DEF TagInv, Tidy
<1> QED
  BY <1>14, <1>15, <1>16, <1>17, <1>18, <1>19 DEF TagInv, Tidy, PointersOK

LEMMA CellKeeps ==
  ASSUME TagInv, TagCell, step' = "tagging"
  PROVE  TagInv'
<1>1. Tidy /\ TablesOK /\ RowsOK /\ TagStep /\ next < Len(text) /\ This.role = "TD"
  BY ZenonT(40) DEF TagInv, TagStep, TagCell, Reads
<1>2. UNCHANGED sections /\ lists' = << >> /\ diagram' = NoDiagram
  BY ZenonT(40) DEF TagCell, Refuse, EndsLists, EndsDiagram
<1> QED
  BY <1>1, <1>2, CellHangs, FirstCellKeeps, SameRowKeeps, NewRowKeeps, ZenonT(40)

(* Every step of the tagging keeps the invariant.                          *)
LEMMA StepKeeps ==
  ASSUME TagInv, TagStep, step' = "tagging"
  PROVE  TagInv'
BY SkipKeeps, LabelKeeps, HeadingKeeps, ContinueKeeps, ItemKeeps, TableKeeps, CellKeeps, ParagraphKeeps DEF TagStep

LEMMA TagStarts == TextOK(text) /\ NothingTagged /\ levels = Normalization(text) => TagInv
<1> SUFFICES ASSUME TextOK(text), NothingTagged, levels = Normalization(text) PROVE TagInv
  OBVIOUS
<1>1. next = 0 /\ tags = << >> /\ sections = << >> /\ lists = << >> /\ table = NoTable /\ diagram = NoDiagram
  BY DEF NothingTagged
<1>2. levels \in Ranks /\ DOMAIN levels = HeadLevels(text, Len(text))
  BY Normalized
<1>3. Len(text) \in Nat /\ DOMAIN text = 1..Len(text)
  BY PiecesOfAText
<1>4. DOMAIN tags = {} /\ DOMAIN sections = {} /\ DOMAIN lists = {}
  BY <1>1
<1>5. TagsOK
  <2>1. << >> \in Seq(TagSet) /\ 0 \in 0..Len(text) /\ 1..0 = {}
    BY <1>3
  <2> QED
    BY <1>1, <1>4, <2>1 DEF TagsOK
<1>6. SectionsOK /\ ListsOK
  <2>1. << >> \in Seq([level : Int, tag : Nat]) /\ << >> \in Seq(ListSet)
    OBVIOUS
  <2> QED
    BY <1>1, <1>4, <2>1 DEF SectionsOK, ListsOK
<1>7. OpenTableOK /\ DiagramOK
  <2>1. table.tag = None /\ DOMAIN table.rows = {} /\ diagram.tag = None /\ diagram.tag \in Nat
    BY <1>1 DEF NoTable, NoDiagram, None
  <2> QED
    BY <1>1, <2>1, NoTableIs DEF OpenTableOK, DiagramOK
<1>8. TablesOK
  <2>1. Emitted = {}
    BY <1>4 DEF Emitted, Range
  <2>2. IsFiniteSet(Emitted) /\ Cardinality(Emitted) = 0
    BY <2>1, FS_EmptySet
  <2>3. \A n \in TableNodes : ~(n <= 0)
    BY <1>3 DEF TableNodes
  <2> QED
    BY <1>1, <1>4, <2>2, <2>3 DEF TablesOK
<1>9. RowsOK
  <2>1. table.tag = None /\ DOMAIN table.rows = {} /\ table.offset = 0
    BY <1>1 DEF NoTable
  <2> QED
    BY <1>4, <2>1 DEF RowsOK
<1> QED
  BY <1>2, <1>5, <1>6, <1>7, <1>8, <1>9 DEF TagInv, Tidy, PointersOK

LEMMA TagStartsNext == (TextOK(text) /\ NothingTagged /\ levels = Normalization(text) => TagInv)'
BY TagStarts, PTL

(* Nothing is tagged before there is a text, and from then on the tags are *)
(* those of what was read.                                                 *)
TextInv == /\ step \in Untagged => NothingTagged
           /\ step \in Written => TagInv

LEMMA TextInvStarts == GridInit => TextInv
<1> SUFFICES ASSUME TagInit PROVE TextInv
  BY DEF GridInit
<1>1. NothingTagged
  BY DEF TagInit
<1>2. CASE PageInit
  BY <1>1, <1>2 DEF PageInit, TextInv, Written
<1>3. CASE /\ \E documents \in Texts : text \in documents
           /\ levels = Normalization(text)
  BY <1>1, <1>3, TagTreeAssumption, TagStarts DEF TextInv
<1> QED
  BY <1>2, <1>3 DEF TagInit

LEMMA TextInvIsKept ==
  ASSUME ResultInv, TextInv, [GridNext]_allVars
  PROVE  TextInv'
<1>1. CASE BeginTagging
  <2>1. NothingTagged'
    <3>1. step \in Untagged
      BY <1>1 DEF BeginTagging, Untagged, Sorting, OnPage
    <3>2. UNCHANGED <<next, tags, sections, lists, table, diagram>>
      BY <1>1 DEF BeginTagging
    <3> QED
      BY <3>1, <3>2 DEF TextInv, NothingTagged
  <2>2. /\ DocumentOK(doc) /\ result \in Seq(Nodes) /\ text' = [i \in DOMAIN result |-> NodeOf(result[i])]
        /\ levels' = Normalization(text') /\ step' = "tagging"
    BY <1>1 DEF BeginTagging, ResultInv
  <2>3. TextOK(text')
    BY <2>2, OrderedText
  <2>4. TagInv'
    BY <2>1, <2>2, <2>3, TagStartsNext
  <2> QED
    BY <2>2, <2>4 DEF TextInv, Untagged, OnPage, Sorting
<1>2. CASE TagStep
  <2>1. step = "tagging" /\ step' \in {"tagging", "review"}
    BY <1>2, TagStepReads
  <2>2. CASE step' = "tagging"
    <3>1. TagInv
      BY <2>1 DEF TextInv, Written
    <3>2. TagInv'
      BY <1>2, <2>2, <3>1, StepKeeps
    <3> QED
      BY <2>2, <3>2 DEF TextInv, Untagged, OnPage, Sorting
  <2>3. CASE step' = "review"
    BY <2>3 DEF TextInv, Untagged, Written, OnPage, Sorting
  <2> QED
    BY <2>1, <2>2, <2>3
<1>3. CASE UNCHANGED tagVars /\ (step' \in Written => step \in Written) /\ (step' \in Untagged => step \in Untagged)
  <2>1. TagInv => TagInv'
    <3> SUFFICES ASSUME TagInv PROVE TagInv'
      OBVIOUS
    <3>1. UNCHANGED <<text, levels, next, tags, sections, lists, table, diagram>>
      BY <1>3 DEF tagVars
    <3>0. \A n, type : LeafFits(n, type)' <=> LeafFits(n, type)
      BY <3>1 DEF LeafFits, FirstOfGroup
    <3>2. TagsOK' /\ SectionsOK' /\ OpenTableOK' /\ DiagramOK'
      <4>1. TagsOK'
        BY <3>0, <3>1 DEF TagInv, Tidy, TagsOK
      <4>2. SectionsOK' /\ DiagramOK'
        BY <3>1 DEF TagInv, Tidy, PointersOK, SectionsOK, DiagramOK, Points
      <4>3. OpenTableOK'
        BY <3>1 DEF TagInv, Tidy, PointersOK, OpenTableOK, Points
      <4> QED
        BY <4>1, <4>2, <4>3
    <3>3. ListsOK'
      BY <3>1 DEF TagInv, Tidy, PointersOK, ListsOK, Points, ListSet
    <3>4. /\ Emitted' = Emitted /\ TableNodes' = TableNodes /\ \A q, type : Points(q, type)' <=> Points(q, type)
          /\ \A name, group : NameFits(name, group)' <=> NameFits(name, group)
          /\ \A r : RowRead(r)' <=> RowRead(r)
      BY <3>1 DEF Emitted, TableNodes, NameFits, GroupsOfTables, RowRead, Points
    <3>5. TablesOK' /\ RowsOK'
      BY <3>1, <3>4 DEF TagInv, TablesOK, RowsOK
    <3>6. TextOK(text)' /\ (levels \in Ranks)' /\ (DOMAIN levels = HeadLevels(text, Len(text)))'
      BY <3>1 DEF TagInv, Tidy
    <3> QED
      BY <3>2, <3>3, <3>5, <3>6 DEF TagInv, Tidy, PointersOK
  <2>2. NothingTagged => NothingTagged'
    BY <1>3 DEF tagVars, NothingTagged
  <2> QED
    BY <1>3, <2>1, <2>2 DEF TextInv
<1> QED
  BY <1>1, <1>2, <1>3, StepsOfTagging

LEMMA TextInvHolds == GridSpec => [](PageInv /\ SortInv /\ ResultInv /\ TextInv)
<1>1. GridInit => PageInv /\ SortInv /\ ResultInv /\ TextInv
  BY PipelineBegins, TextInvStarts
<1>2. PageInv /\ SortInv /\ ResultInv /\ TextInv /\ [GridNext]_allVars => (PageInv /\ SortInv /\ ResultInv /\ TextInv)'
  BY PipelineIsKept, ResultInvIsKept, TextInvIsKept
<1> QED
  BY <1>1, <1>2, PTL DEF GridSpec, allVars

LEMMA NamesFollow ==
  ASSUME TagInv, next = Len(text)
  PROVE  LET tables_ == {i \in DOMAIN tags : tags[i].type = "Table"}
             rows == {i \in DOMAIN tags : tags[i].type = "TR"}
             cells == {i \in DOMAIN tags : tags[i].type = "TD"}
             groups == {text[n].group : n \in TableNodes}
             NameAbove(cell) == tags[tags[tags[cell].parent].parent].name
         IN  /\ \A i, j \in tables_ : tags[i].name = tags[j].name => i = j
             /\ groups \subseteq {tags[i].name : i \in tables_}
             /\ \A i \in cells : NameAbove(i) \in groups => NameAbove(i) = text[tags[i].node].group
             /\ \A i, j \in rows : i < j /\ tags[i].parent = tags[j].parent => tags[i].name < tags[j].name
<1>1. TextOK(text) /\ TablesOK
  BY DEF TagInv, Tidy
<1>2. \A n \in TableNodes : n <= next
  BY <1>1, PiecesOfAText DEF TableNodes
<1>3. \A n \in TableNodes : text[n].group \in Emitted
  BY <1>1, <1>2 DEF TablesOK
<1>4. Emitted \subseteq {tags[i].name : i \in {j \in DOMAIN tags : tags[j].type = "Table"}}
  BY DEF Emitted, Range
<1>5. \A i \in DOMAIN tags : tags[i].type = "TD" =>
         NameFits(tags[tags[tags[i].parent].parent].name, text[tags[i].node].group)
  BY <1>1 DEF TablesOK
<1>6. \A i, j \in DOMAIN tags : tags[i].type = "Table" /\ tags[j].type = "Table" /\ tags[i].name = tags[j].name => i = j
  BY <1>1 DEF TablesOK
<1>7. \A i, j \in DOMAIN tags : tags[i].type = "TR" /\ tags[j].type = "TR" /\ tags[i].parent = tags[j].parent /\ i < j
                                  => tags[i].name < tags[j].name
  BY <1>1 DEF TablesOK
<1> QED
  BY <1>3, <1>4, <1>5, <1>6, <1>7 DEF NameFits, GroupsOfTables

(* TablesKeepTheirNames, of every text.                                    *)
THEOREM NamesAreKept == GridSpec => []TablesKeepTheirNames
<1>1. TextInv => TablesKeepTheirNames
  <2> SUFFICES ASSUME TextInv, Tagged PROVE TablesKeepTheirNames
    BY DEF TablesKeepTheirNames
  <2>1. TagInv /\ next = Len(text)
    BY DEF TextInv, Tagged, Written
  <2> QED
    BY <2>1, NamesFollow DEF TablesKeepTheirNames
<1> QED
  BY <1>1, TextInvHolds, PTL

-----------------------------------------------------------------------------
(* Sections: the headings among the nodes, and the rank each was given.    *)
Rank(n) == levels[text[n].level]
HeadsTo(n) == {m \in 1..n : text[m].role = "H"}
NodeBelow(section) == tags[section + 1].node

(* A heading stands in a section of its own, under that of the nearest     *)
(* heading before it of a smaller rank.                                    *)
UnderIn(ts, t, ls, n, p) ==
    LET heads == {m \in 1..(n - 1) : t[m].role = "H"}
        below == ts[p + 1].node
    IN  IF p = None THEN \A m \in heads : ls[t[m].level] >= ls[t[n].level]
        ELSE /\ PointsIn(ts, p + 1, "H") /\ below < n /\ ls[t[below].level] < ls[t[n].level]
             /\ \A m \in heads : m > below => ls[t[m].level] >= ls[t[n].level]

HeadingsOK ==
    \A i \in DOMAIN tags : tags[i].type = "H" =>
        i - 1 \in DOMAIN tags /\ tags[i].parent = i - 1 /\ UnderIn(tags, text, levels, tags[i].node, tags[i - 1].parent)

(* The sections that are open stand in their order, and each heading that  *)
(* was read is open or behind one that is, of no lower rank.               *)
StackedOK ==
    /\ \A k \in DOMAIN sections : /\ Points(sections[k].tag + 1, "H")
                                  /\ sections[k].level = Rank(NodeBelow(sections[k].tag))
    /\ \A j, k \in DOMAIN sections : j < k => sections[j].tag < sections[k].tag
    /\ \A m \in HeadsTo(next) : \E k \in DOMAIN sections :
           m <= NodeBelow(sections[k].tag) /\ sections[k].level <= Rank(m)

HeadInv == HeadingsOK /\ StackedOK

LEMMA RanksOfHeadings ==
  ASSUME TextOK(text), levels \in Ranks, DOMAIN levels = HeadLevels(text, Len(text))
  PROVE  \A n \in HeadsTo(Len(text)) : text[n].level \in DOMAIN levels /\ text[n].level \in Int /\ Rank(n) \in Nat \ {0}
<1>1. \A n \in HeadsTo(Len(text)) : text[n].level \in DOMAIN levels
  BY DEF HeadsTo, HeadLevels
<1>2. DOMAIN levels \subseteq Int /\ \A l \in DOMAIN levels : levels[l] \in Nat \ {0}
  BY DEF Ranks
<1> QED
  BY <1>1, <1>2 DEF Rank

LEMMA RanksRise ==
  ASSUME TextOK(text), levels \in Ranks, DOMAIN levels = HeadLevels(text, Len(text)),
         NEW m \in HeadsTo(Len(text)), NEW n \in HeadsTo(Len(text)), Rank(m) < Rank(n)
  PROVE  text[m].level < text[n].level
<1>1. /\ text[m].level \in DOMAIN levels /\ text[m].level \in Int /\ Rank(m) \in Int
      /\ text[n].level \in DOMAIN levels /\ text[n].level \in Int /\ Rank(n) \in Int
  BY RanksOfHeadings
<1>2. text[n].level < text[m].level => Rank(n) <= Rank(m)
  BY <1>1 DEF Ranks, Rank
<1>3. text[n].level # text[m].level
  BY <1>1 DEF Rank
<1> QED
  BY <1>1, <1>2, <1>3

(* The tag of a heading is that of a node that was read, in its order.     *)
LEMMA HeadTags ==
  ASSUME TextOK(text), TagsOK, NEW i, Points(i, "H")
  PROVE  /\ tags[i].node \in HeadsTo(next) /\ tags[i].node \in HeadsTo(Len(text)) /\ tags[i].node \in Nat
         /\ tags[i].node # None
         /\ \A j : Points(j, "H") /\ i < j => tags[i].node < tags[j].node
<1>1. i \in DOMAIN tags /\ tags[i].type = "H" /\ tags[i].type \notin Groupings
  BY DEF Points, PointsIn, Groupings
<1>2. tags[i].node # None /\ tags[i].node \in 1..next /\ LeafFits(tags[i].node, "H")
  BY <1>1 DEF TagsOK
<1>3. text[tags[i].node].role = "H"
  BY <1>2 DEF LeafFits
<1>4. next \in Nat /\ Len(text) \in Nat /\ next <= Len(text)
  BY PiecesOfAText DEF TagsOK
<1>5. \A j : Points(j, "H") => j \in DOMAIN tags /\ tags[j].node # None
  BY DEF Points, PointsIn, Groupings, TagsOK
<1>6. \A j : Points(j, "H") /\ i < j => tags[i].node < tags[j].node
  BY <1>1, <1>2, <1>5 DEF TagsOK
<1> QED
  BY <1>2, <1>3, <1>4, <1>6 DEF HeadsTo

(* What every step of the loop does, whatever the kind of its node.        *)
LEMMA StepHangs ==
  ASSUME TagInv, TagStep, step' = "tagging"
  PROVE  /\ UNCHANGED <<text, levels>> /\ next' = next + 1 /\ next < Len(text)
         /\ TextOK(text) /\ TagsOK /\ PointersOK /\ next + 1 \in DOMAIN text
         /\ This.role = "H" => TagHeading
         /\ This.role # "H" => UNCHANGED sections
         /\ This.role = "Artifact" => UNCHANGED tags
         /\ This.role # "Artifact" => \E p, new : Hangs(p, new)
<1>1. Tidy /\ TablesOK /\ RowsOK
  BY DEF TagInv
<1>2. TextOK(text) /\ TagsOK /\ PointersOK
  BY <1>1 DEF Tidy
<1>3. UNCHANGED <<text, levels>> /\ next' = next + 1 /\ next < Len(text)
  BY TagStepReads
<1>4. next + 1 \in DOMAIN text
  BY <1>2, <1>3, ThisIs
<1>5. CASE SkipArtifact
  BY <1>2, <1>3, <1>4, <1>5 DEF SkipArtifact, Reads
<1>6. CASE TagLabel
  BY <1>1, <1>2, <1>3, <1>4, <1>6, LabelHangs, SMTT(30) DEF TagLabel, Reads
<1>7. CASE TagHeading
  BY <1>1, <1>2, <1>3, <1>4, <1>7, HeadingHangs DEF TagHeading, Reads
<1>8. CASE ContinueItem
  BY <1>1, <1>2, <1>3, <1>4, <1>8, ContinueHangs DEF ContinueItem, Reads
<1>9. CASE TagItem
  <2>1. UNCHANGED sections /\ This.role = "LI"
    BY <1>9, ZenonT(40) DEF TagItem, Reads, Refuse
  <2>2. \E p, new : Hangs(p, new)
    BY <1>1, <1>9, ItemHangs
  <2> QED
    BY <1>2, <1>3, <1>4, <2>1, <2>2, SMTT(30)
<1>10. CASE TagTable
  <2>1. UNCHANGED sections /\ This.role = "Table"
    BY <1>10 DEF TagTable, Reads
  <2>2. \E p, new : Hangs(p, new)
    BY <1>1, <1>10, TableHangs
  <2> QED
    BY <1>2, <1>3, <1>4, <2>1, <2>2
<1>11. CASE TagCell
  <2>1. UNCHANGED sections /\ This.role = "TD"
    BY <1>11, ZenonT(40) DEF TagCell, Reads, Refuse
  <2>2. \E p, new : Hangs(p, new)
    BY <1>1, <1>11, CellHangs
  <2> QED
    BY <1>2, <1>3, <1>4, <2>1, <2>2, SMTT(30)
<1>12. CASE TagParagraph
  <2>1. UNCHANGED sections /\ This.role = "P"
    BY <1>12 DEF TagParagraph, Reads, Refuse
  <2>2. \E p, new : Hangs(p, new)
    BY <1>1, <1>12, ParagraphHangs
  <2> QED
    BY <1>2, <1>3, <1>4, <2>1, <2>2
<1> QED
  BY <1>5, <1>6, <1>7, <1>8, <1>9, <1>10, <1>11, <1>12 DEF TagStep

(* Where a heading was put stays right when more is tagged.                *)
LEMMA UnderStays ==
  ASSUME NEW ts, NEW us, NEW t, NEW ls, NEW n, NEW p, UnderIn(ts, t, ls, n, p),
         \A i \in DOMAIN ts : i \in DOMAIN us /\ us[i] = ts[i]
  PROVE  UnderIn(us, t, ls, n, p)
<1>1. p # None => PointsIn(us, p + 1, "H") /\ us[p + 1] = ts[p + 1]
  BY DEF UnderIn, PointsIn
<1> QED
  BY <1>1 DEF UnderIn

(* What is no heading leaves the sections as they are.                     *)
LEMMA OthersKeepHeads ==
  ASSUME TagInv, HeadInv, TagStep, step' = "tagging", This.role # "H"
  PROVE  HeadInv'
<1>1. /\ UNCHANGED <<text, levels, sections>> /\ next' = next + 1 /\ next < Len(text)
      /\ TextOK(text) /\ TagsOK /\ PointersOK /\ next + 1 \in DOMAIN text
  BY StepHangs
<1>2. /\ Len(tags) \in Nat /\ DOMAIN tags = 1..Len(tags)
      /\ \A i \in DOMAIN tags : i \in DOMAIN tags' /\ tags'[i] = tags[i]
      /\ \A i \in DOMAIN tags' : tags'[i].type = "H" => i \in DOMAIN tags
  <2>1. Len(tags) \in Nat /\ DOMAIN tags = 1..Len(tags)
    BY <1>1, ThisIs
  <2>2. CASE This.role = "Artifact"
    BY <2>1, <2>2, StepHangs
  <2>3. CASE This.role # "Artifact"
    <3>1. PICK p, new : Hangs(p, new)
      BY <2>3, StepHangs
    <3>2. \A i \in DOMAIN tags : i \in DOMAIN tags' /\ tags'[i] = tags[i]
      BY <1>1, <3>1, HungAre
    <3>3. ~LeafFits(next + 1, "H")
      BY DEF LeafFits, This
    <3>4. ASSUME NEW i \in DOMAIN tags', tags'[i].type = "H", i \notin DOMAIN tags PROVE FALSE
      <4>1. IF i < Len(tags) + Len(new) THEN tags'[i].node = None /\ tags'[i].type \in Groupings
            ELSE i = Len(tags) + Len(new) /\ tags'[i].node = next + 1 /\ LeafFits(next + 1, tags'[i].type)
        BY <1>1, <3>1, <3>4, HungAre
      <4> QED
        BY <3>3, <3>4, <4>1 DEF Groupings
    <3> QED
      BY <2>1, <3>2, <3>4
  <2> QED
    BY <2>2, <2>3
<1>3. HeadingsOK'
  <2>1. ASSUME NEW i \in DOMAIN tags', tags'[i].type = "H"
        PROVE  /\ i - 1 \in DOMAIN tags' /\ tags'[i].parent = i - 1
               /\ UnderIn(tags', text, levels, tags'[i].node, tags'[i - 1].parent)
    <3>1. i \in DOMAIN tags /\ tags'[i] = tags[i]
      BY <1>2, <2>1
    <3>2. /\ i - 1 \in DOMAIN tags /\ tags[i].parent = i - 1
          /\ UnderIn(tags, text, levels, tags[i].node, tags[i - 1].parent)
      BY <2>1, <3>1 DEF HeadInv, HeadingsOK
    <3>3. i - 1 \in DOMAIN tags' /\ tags'[i - 1] = tags[i - 1]
      BY <1>2, <3>2
    <3>4. UnderIn(tags', text, levels, tags[i].node, tags[i - 1].parent)
      BY <1>2, <3>2, UnderStays
    <3> QED
      BY <3>1, <3>2, <3>3, <3>4
  <2> QED
    BY <1>1, <2>1 DEF HeadingsOK
<1>4. StackedOK'
  <2>1. \A k \in DOMAIN sections : /\ Points(sections[k].tag + 1, "H")' /\ NodeBelow(sections[k].tag)' = NodeBelow(sections[k].tag)
    BY <1>1, <1>2 DEF HeadInv, StackedOK, Points, PointsIn, NodeBelow
  <2>2. HeadsTo(next') = HeadsTo(next)
    <3>1. next \in Nat /\ next' = next + 1 /\ text[next + 1].role # "H"
      BY <1>1 DEF This, TagsOK
    <3>2. 1..next' = (1..next) \cup {next + 1}
      BY <3>1
    <3> QED
      BY <3>1, <3>2 DEF HeadsTo
  <2>3. HeadsTo(next)' = HeadsTo(next)
    BY <1>1, <2>2 DEF HeadsTo
  <2>4. \A m : Rank(m)' = Rank(m)
    BY <1>1 DEF Rank
  <2>5. \A k \in DOMAIN sections : Points(sections[k].tag + 1, "H")' /\ sections[k].level = Rank(NodeBelow(sections[k].tag))'
    BY <1>1, <2>1 DEF HeadInv, StackedOK, Rank
  <2>6. \A m \in HeadsTo(next) : \E k \in DOMAIN sections :
           m <= NodeBelow(sections[k].tag)' /\ sections[k].level <= Rank(m)'
    <3> TAKE m \in HeadsTo(next)
    <3>1. PICK k \in DOMAIN sections : m <= NodeBelow(sections[k].tag) /\ sections[k].level <= Rank(m)
      BY DEF HeadInv, StackedOK
    <3> QED
      BY <2>1, <2>4, <3>1
  <2>7. \A j, k \in DOMAIN sections : j < k => sections[j].tag < sections[k].tag
    BY DEF HeadInv, StackedOK
  <2> QED
    BY <1>1, <2>3, <2>5, <2>6, <2>7 DEF StackedOK, NodeBelow
<1> QED
  BY <1>3, <1>4 DEF HeadInv

(* The sections in which a heading is put are those of the headings before *)
(* it that are above it, the last of them that of the nearest one.         *)
LEMMA PutUnder ==
  ASSUME TextOK(text), levels \in Ranks, DOMAIN levels = HeadLevels(text, Len(text)), TagsOK, SectionsOK, StackedOK,
         next < Len(text), This.role = "H", NEW kept \in 0..Len(sections),
         \A k \in (kept + 1)..Len(sections) : sections[k].level >= levels[This.level],
         kept > 0 => sections[kept].level < levels[This.level]
  PROVE  UnderIn(tags, text, levels, next + 1, IF kept = 0 THEN None ELSE sections[kept].tag)
<1> DEFINE r == levels[This.level]
           heads == {m \in 1..((next + 1) - 1) : text[m].role = "H"}
<1>1. next \in Nat /\ Len(text) \in Nat /\ next + 1 \in HeadsTo(Len(text)) /\ Rank(next + 1) = r
  BY PiecesOfAText DEF TagsOK, HeadsTo, Rank, This
<1>2. heads = HeadsTo(next) /\ heads \subseteq HeadsTo(Len(text))
  BY <1>1 DEF HeadsTo
<1>3. r \in Int /\ \A m \in heads : Rank(m) \in Int /\ m \in Int
  BY <1>1, <1>2, RanksOfHeadings DEF HeadsTo
<1>4. /\ Len(sections) \in Nat /\ DOMAIN sections = 1..Len(sections)
      /\ \A k \in DOMAIN sections : sections[k].level \in Int /\ sections[k].tag \in Nat /\ Points(sections[k].tag + 1, "H")
  <2> DEFINE X == [level : Int, tag : Nat]
  <2>1. sections \in Seq(X)
    BY DEF SectionsOK
  <2> HIDE DEF X
  <2>2. Len(sections) \in Nat /\ DOMAIN sections = 1..Len(sections) /\ \A k \in DOMAIN sections : sections[k] \in X
    BY <2>1
  <2> QED
    BY <2>2 DEF X, StackedOK
<1>5. ASSUME NEW m \in heads, NEW k \in DOMAIN sections, k > kept, sections[k].level <= Rank(m) PROVE Rank(m) >= r
  <2>1. sections[k].level >= r /\ sections[k].level \in Int
    BY <1>4, <1>5
  <2> QED
    BY <2>1, <1>3, <1>5, SMTT(30)
<1>6. \A m \in heads : \E k \in DOMAIN sections : m <= NodeBelow(sections[k].tag) /\ sections[k].level <= Rank(m)
  BY <1>2 DEF StackedOK
<1>7. CASE kept = 0
  <2>1. \A m \in heads : Rank(m) >= r
    BY <1>4, <1>5, <1>6, <1>7
  <2> HIDE DEF r
  <2> QED
    BY <1>1, <1>7, <2>1 DEF UnderIn, Rank
<1>8. CASE kept > 0
  <2> DEFINE p == sections[kept].tag
             below == NodeBelow(p)
  <2>1. kept \in DOMAIN sections /\ p \in Nat /\ Points(p + 1, "H") /\ sections[kept].level = Rank(below)
    BY <1>4, <1>8 DEF StackedOK
  <2>2. below \in HeadsTo(next) /\ below \in Int /\ below < next + 1 /\ Rank(below) < r
    BY <1>1, <1>8, <2>1, HeadTags, SMTT(30) DEF NodeBelow, HeadsTo
  <2>3. p # None
    BY <2>1 DEF SectionsOK, Points, PointsIn, TagsOK, None
  <2>4. \A m \in heads : m > below => Rank(m) >= r
    <3> SUFFICES ASSUME NEW m \in heads, m > below PROVE Rank(m) >= r
      OBVIOUS
    <3>1. PICK k \in DOMAIN sections : m <= NodeBelow(sections[k].tag) /\ sections[k].level <= Rank(m)
      BY <1>6
    <3>2. NodeBelow(sections[k].tag) \in Int /\ below < NodeBelow(sections[k].tag)
      BY <1>3, <1>4, <2>2, <3>1, HeadTags, SMTT(30) DEF NodeBelow
    <3>3. ~(k < kept)
      <4> SUFFICES ASSUME k < kept PROVE FALSE
        OBVIOUS
      <4>1. sections[k].tag < p
        BY <2>1 DEF StackedOK
      <4>2. sections[k].tag + 1 < p + 1
        BY <1>4, <2>1, <4>1, SMTT(30)
      <4>3. NodeBelow(sections[k].tag) < below
        BY <1>4, <2>1, <4>2, HeadTags DEF NodeBelow
      <4> QED
        BY <2>2, <3>2, <4>3
    <3>4. k # kept
      BY <2>2, <3>2
    <3>5. k > kept
      BY <1>4, <3>3, <3>4
    <3> QED
      BY <1>5, <3>1, <3>5
  <2> DEFINE q == IF kept = 0 THEN None ELSE sections[kept].tag
  <2>5. q = p
    BY <1>8
  <2>6. UnderIn(tags, text, levels, next + 1, p)
    <3>1. below = tags[p + 1].node /\ PointsIn(tags, p + 1, "H")
      BY <2>1 DEF NodeBelow, Points
    <3>2. levels[text[next + 1].level] = r /\ levels[text[below].level] = Rank(below)
      BY DEF This, Rank
    <3>3. \A m \in heads : m > below => levels[text[m].level] >= r
      BY <2>4 DEF Rank
    <3> HIDE DEF p, below, r
    <3> QED
      BY <2>2, <2>3, <3>1, <3>2, <3>3 DEF UnderIn
  <2> QED
    BY <2>5, <2>6
<1> QED
  BY <1>1, <1>7, <1>8

LEMMA HeadingKeepsHeads ==
  ASSUME TagInv, HeadInv, TagHeading
  PROVE  HeadInv'
<1> DEFINE level == levels[This.level]
<1>1. Tidy /\ TextOK(text) /\ TagsOK /\ SectionsOK /\ levels \in Ranks /\ DOMAIN levels = HeadLevels(text, Len(text))
  BY SMTT(30) DEF TagInv, Tidy, PointersOK
<1>2. step = "tagging" /\ next < Len(text) /\ next' = next + 1 /\ This.role = "H" /\ UNCHANGED <<text, levels>>
  BY DEF TagHeading, Reads
<1>3. PICK kept \in 0..Len(sections) :
         LET parent == IF kept = 0 THEN None ELSE sections[kept].tag
         IN  /\ \A i \in (kept + 1)..Len(sections) : sections[i].level >= level
             /\ kept > 0 => sections[kept].level < level
             /\ level \in Nat \ {0}
             /\ Hangs(parent, <<Tag("Sect", parent, None, None), Leaf("H", Len(tags) + 1)>>)
             /\ sections' = Append(SubSeq(sections, 1, kept), [level |-> level, tag |-> Len(tags) + 1])
  BY <1>1, HeadingHangs
<1> DEFINE parent == IF kept = 0 THEN None ELSE sections[kept].tag
           a == Tag("Sect", parent, None, None)
           b == Leaf("H", Len(tags) + 1)
           new == <<a, b>>
           rec == [level |-> level, tag |-> Len(tags) + 1]
           n == Len(tags)
<1>4. UnderIn(tags, text, levels, next + 1, parent)
  BY <1>1, <1>2, <1>3, PutUnder DEF HeadInv
<1>5. /\ n \in Nat /\ DOMAIN tags = 1..n /\ DOMAIN tags' = 1..(n + 2)
      /\ \A i \in DOMAIN tags : i \in DOMAIN tags' /\ tags'[i] = tags[i]
      /\ tags'[n + 1] = a /\ tags'[n + 2] = b
  <2>1. Hangs(parent, new) /\ Len(new) = 2 /\ new[1] = a /\ new[2] = b
    BY <1>3, PairOf
  <2> HIDE DEF a, b, new, parent
  <2>2. /\ Len(tags) \in Nat /\ DOMAIN tags = 1..Len(tags) /\ DOMAIN tags' = 1..(Len(tags) + Len(new))
        /\ \A i \in DOMAIN tags : i \in DOMAIN tags' /\ tags'[i] = tags[i]
    BY <1>1, <2>1, HungAre
  <2>3. \A k \in 1..Len(new) : tags'[Len(tags) + k] = new[k]
    BY <2>1 DEF Hangs
  <2> QED
    BY <2>1, <2>2, <2>3
<1>6. /\ a.type = "Sect" /\ a.parent = parent /\ b.type = "H" /\ b.parent = n + 1 /\ b.node = next + 1
  BY DEF Tag, Leaf
<1> HIDE DEF a, b, new
<1>7. UnderIn(tags', text, levels, next + 1, parent)
  BY <1>4, <1>5, UnderStays
<1>8. HeadingsOK'
  <2>1. ASSUME NEW i \in DOMAIN tags', tags'[i].type = "H"
        PROVE  /\ i - 1 \in DOMAIN tags' /\ tags'[i].parent = i - 1
               /\ UnderIn(tags', text, levels, tags'[i].node, tags'[i - 1].parent)
    <3>1. CASE i \in DOMAIN tags
      <4>1. /\ i - 1 \in DOMAIN tags /\ tags[i].parent = i - 1 /\ tags'[i] = tags[i]
            /\ UnderIn(tags, text, levels, tags[i].node, tags[i - 1].parent)
        BY <1>5, <2>1, <3>1 DEF HeadInv, HeadingsOK
      <4>2. UnderIn(tags', text, levels, tags[i].node, tags[i - 1].parent)
        BY <1>5, <4>1, UnderStays
      <4> QED
        BY <1>5, <4>1, <4>2
    <3>2. CASE i = n + 2
      BY <1>5, <1>6, <1>7, <3>2
    <3>3. i # n + 1
      BY <1>5, <1>6, <2>1
    <3> QED
      BY <1>5, <3>1, <3>2, <3>3
  <2> QED
    BY <1>2, <2>1 DEF HeadingsOK
<1>9. /\ Len(sections) \in Nat /\ DOMAIN sections' = 1..(kept + 1) /\ sections'[kept + 1] = rec
      /\ \A k \in 1..kept : k \in DOMAIN sections /\ sections'[k] = sections[k]
      /\ \A k \in DOMAIN sections : sections[k].tag \in Nat
  <2> DEFINE X == [level : Int, tag : Nat]
  <2>1. sections \in Seq(X) /\ rec \in X /\ sections' = Append(SubSeq(sections, 1, kept), rec)
    BY <1>1, <1>3, <1>5, SMTT(30) DEF SectionsOK
  <2>2. \A s \in X : s.tag \in Nat
    OBVIOUS
  <2> HIDE DEF X, rec
  <2>3. Len(sections) \in Nat /\ DOMAIN sections = 1..Len(sections) /\ \A k \in DOMAIN sections : sections[k] \in X
    BY <2>1
  <2>4. kept \in Nat /\ kept <= Len(sections)
    BY <2>3
  <2> DEFINE above == SubSeq(sections, 1, kept)
  <2>5. above \in Seq(X) /\ Len(above) = kept /\ \A k \in 1..kept : above[k] = sections[k]
    BY <2>1, <2>4
  <2> HIDE DEF above
  <2>6. /\ DOMAIN Append(above, rec) = 1..(kept + 1) /\ Append(above, rec)[kept + 1] = rec
        /\ \A k \in 1..kept : Append(above, rec)[k] = above[k]
    BY <2>1, <2>4, <2>5
  <2>7. sections' = Append(above, rec)
    BY <2>1 DEF above
  <2> QED
    BY <2>2, <2>3, <2>4, <2>5, <2>6, <2>7
<1>10. StackedOK'
  <2>1. \A m : Rank(m)' = Rank(m)
    BY <1>2 DEF Rank
  <2>2. rec.level = level /\ rec.tag = n + 1 /\ level = Rank(next + 1)
    BY <1>5 DEF Rank, This
  <2>3. tags'[rec.tag + 1].node = next + 1 /\ PointsIn(tags', rec.tag + 1, "H")
    <3>1. rec.tag + 1 = n + 2 /\ n + 2 \in DOMAIN tags'
      BY <1>5, <2>2
    <3> QED
      BY <1>5, <1>6, <3>1 DEF PointsIn
  <2>4. \A k \in 1..kept : /\ PointsIn(tags', sections[k].tag + 1, "H")
                           /\ tags'[sections[k].tag + 1].node = NodeBelow(sections[k].tag)
                           /\ sections[k].level = Rank(NodeBelow(sections[k].tag))
                           /\ sections[k].tag < n + 1
    <3> SUFFICES ASSUME NEW k \in 1..kept
                 PROVE  /\ PointsIn(tags', sections[k].tag + 1, "H")
                        /\ tags'[sections[k].tag + 1].node = NodeBelow(sections[k].tag)
                        /\ sections[k].level = Rank(NodeBelow(sections[k].tag))
                        /\ sections[k].tag < n + 1
      OBVIOUS
    <3>1. Points(sections[k].tag + 1, "H") /\ sections[k].level = Rank(NodeBelow(sections[k].tag))
      BY <1>9 DEF HeadInv, StackedOK
    <3>2. sections[k].tag + 1 \in DOMAIN tags /\ sections[k].tag \in Nat
      BY <1>9, <3>1 DEF Points, PointsIn
    <3> QED
      BY <1>5, <3>1, <3>2, SMTT(30) DEF Points, PointsIn, NodeBelow
  <2> HIDE DEF rec
  <2>5. \A k \in DOMAIN sections' : /\ PointsIn(tags', sections'[k].tag + 1, "H")
                                    /\ sections'[k].level = Rank(tags'[sections'[k].tag + 1].node)
    <3> SUFFICES ASSUME NEW k \in 1..(kept + 1)
                 PROVE  /\ PointsIn(tags', sections'[k].tag + 1, "H")
                        /\ sections'[k].level = Rank(tags'[sections'[k].tag + 1].node)
      BY <1>9
    <3>1. CASE k = kept + 1
      BY <1>9, <2>2, <2>3, <3>1
    <3>2. CASE k \in 1..kept
      BY <1>9, <2>4, <3>2
    <3> QED
      BY <3>1, <3>2
  <2>6. \A j, k \in DOMAIN sections' : j < k => sections'[j].tag < sections'[k].tag
    <3> SUFFICES ASSUME NEW j \in 1..(kept + 1), NEW k \in 1..(kept + 1), j < k PROVE sections'[j].tag < sections'[k].tag
      BY <1>9
    <3>1. j \in 1..kept
      OBVIOUS
    <3>2. CASE k = kept + 1
      BY <1>9, <2>2, <2>4, <3>1, <3>2
    <3>3. CASE k \in 1..kept
      BY <1>9, <3>1, <3>3 DEF HeadInv, StackedOK
    <3> QED
      BY <3>2, <3>3
  <2>7. ASSUME NEW m \in 1..(next + 1), text[m].role = "H"
        PROVE  \E k \in DOMAIN sections' : m <= tags'[sections'[k].tag + 1].node /\ sections'[k].level <= Rank(m)
    <3>0. /\ kept + 1 \in DOMAIN sections' /\ next \in Nat /\ m \in Int /\ level \in Int /\ m \in HeadsTo(Len(text))
          /\ tags'[sections'[kept + 1].tag + 1].node = next + 1 /\ sections'[kept + 1].level = level
      <4>1. next \in Nat /\ Len(text) \in Nat
        BY <1>1, PiecesOfAText DEF TagsOK
      <4>2. m \in Int /\ m \in HeadsTo(Len(text))
        BY <1>2, <2>7, <4>1 DEF HeadsTo
      <4>3. kept + 1 \in DOMAIN sections' /\ sections'[kept + 1] = rec /\ level \in Int
        BY <1>3, <1>9
      <4> QED
        BY <2>2, <2>3, <4>1, <4>2, <4>3
    <3>00. Rank(m) \in Int
      BY <1>1, <3>0, RanksOfHeadings
    <3>1. CASE m = next + 1
      <4>1. m <= next + 1 /\ level <= Rank(m)
        BY <3>0, <3>1, <2>2
      <4> QED
        BY <3>0, <4>1
    <3>2. CASE m # next + 1
      <4>1. m \in HeadsTo(next)
        BY <3>0, <3>2, <2>7 DEF HeadsTo
      <4>2. PICK k \in DOMAIN sections : m <= NodeBelow(sections[k].tag) /\ sections[k].level <= Rank(m)
        BY <4>1 DEF HeadInv, StackedOK
      <4>3. CASE k \in 1..kept
        <5>1. k \in DOMAIN sections' /\ sections'[k] = sections[k] /\ tags'[sections[k].tag + 1].node = NodeBelow(sections[k].tag)
          BY <1>9, <2>4, <4>3, SMTT(30)
        <5> QED
          BY <4>2, <5>1
      <4>4. CASE k \notin 1..kept
        <5>1. k \in (kept + 1)..Len(sections)
          BY <1>1, <1>9, <4>4, SMTT(30) DEF SectionsOK
        <5>2. sections[k].level >= level
          BY <1>3, <5>1
        <5>3. sections[k].level \in Int
          <6>1. NodeBelow(sections[k].tag) \in HeadsTo(Len(text)) /\ sections[k].level = Rank(NodeBelow(sections[k].tag))
            BY <1>1, HeadTags DEF NodeBelow, HeadInv, StackedOK
          <6> QED
            BY <1>1, <6>1, RanksOfHeadings
        <5>4. level <= Rank(m) /\ m <= next + 1
          BY <3>0, <3>00, <4>2, <5>2, <5>3, SMTT(30)
        <5> QED
          BY <3>0, <5>4
      <4> QED
        BY <4>3, <4>4
    <3> QED
      BY <3>1, <3>2
  <2> QED
    BY <1>2, <2>1, <2>5, <2>6, <2>7 DEF StackedOK, HeadsTo, NodeBelow, Points, Rank
<1> QED
  BY <1>8, <1>10 DEF HeadInv

LEMMA StepKeepsHeads ==
  ASSUME TagInv, HeadInv, TagStep, step' = "tagging"
  PROVE  HeadInv'
BY StepHangs, HeadingKeepsHeads, OthersKeepHeads

-----------------------------------------------------------------------------
(* What stands in a row, each with a key, and goes under the nearest       *)
(* before it of a smaller key, or under none (stop).                       *)
Nested(X, at, key, stop, before) ==
  /\ at \in [X -> Nat] /\ key \in [X -> Int] /\ before \in [X -> X]
  /\ \A x, y \in X : at[x] = at[y] => x = y
  /\ \A x \in X : IF x \in stop THEN \A y \in X : at[y] < at[x] => key[y] >= key[x]
                  ELSE /\ at[before[x]] < at[x] /\ key[before[x]] < key[x]
                       /\ \A y \in X : at[before[x]] < at[y] /\ at[y] < at[x] => key[y] >= key[x]

(* What it lies in: those before it whose keys are smaller than every one  *)
(* that comes in between, and than its own.                                *)
Around(X, at, key, x) ==
  {at[y] : y \in {z \in X : at[z] < at[x] /\ \A w \in X : at[z] < at[w] /\ at[w] <= at[x] => key[z] < key[w]}}

Enclosing(X, at, stop, before, f) == [x \in X |-> IF x \in stop THEN {} ELSE {at[before[x]]} \cup f[before[x]]]

LEMMA EnclosingExists ==
  ASSUME NEW X, NEW at, NEW key, NEW stop, NEW before, Nested(X, at, key, stop, before),
         NEW bound \in Nat, \A x \in X : at[x] <= bound
  PROVE  \E f : f = Enclosing(X, at, stop, before, f)
<1> DEFINE Y == SUBSET Nat
           base == [x \in X |-> {}]
           then == [z \in X \X Y |-> {at[before[z[1]]]} \cup z[2]]
<1>1. at \in [X -> 0..bound] /\ before \in [X -> X]
  BY DEF Nested
<1>2. base \in [X -> Y]
  OBVIOUS
<1>3. then \in [X \X Y -> Y]
  BY <1>1
<1>4. \A x \in X \ stop : at[before[x]] < at[x]
  BY DEF Nested
<1>5. \A x \in X, s \in Y : then[<<x, s>>] = {at[before[x]]} \cup s
  OBVIOUS
<1> HIDE DEF Y, base, then
<1>6. Grounded(X, Y, bound, at, before, stop, base, then)
  BY <1>1, <1>2, <1>3, <1>4 DEF Grounded
<1>7. PICK f \in [X -> Y] : \A x \in X : f[x] = IF x \in stop THEN base[x] ELSE then[<<x, f[before[x]]>>]
  BY <1>6, Recursion
<1>8. \A x \in X : f[x] = IF x \in stop THEN {} ELSE {at[before[x]]} \cup f[before[x]]
  BY <1>1, <1>5, <1>7 DEF base
<1>9. f = [x \in X |-> IF x \in stop THEN {} ELSE {at[before[x]]} \cup f[before[x]]]
  BY <1>7, <1>8
<1> QED
  BY <1>9 DEF Enclosing

(* One step up: those around x are the one before it and those around that *)
LEMMA AroundTheNearest ==
  ASSUME NEW X, NEW at, NEW key, NEW stop, NEW before, Nested(X, at, key, stop, before), NEW x \in X
  PROVE  Around(X, at, key, x) = IF x \in stop THEN {} ELSE {at[before[x]]} \cup Around(X, at, key, before[x])
<1> DEFINE In(z, y) == at[z] < at[y] /\ \A w \in X : at[z] < at[w] /\ at[w] <= at[y] => key[z] < key[w]
<1>1. /\ \A y \in X : at[y] \in Nat /\ key[y] \in Int /\ before[y] \in X
      /\ \A y, z \in X : at[y] = at[z] => y = z
  BY DEF Nested
<1>2. CASE x \in stop
  <2>1. \A z \in X : at[z] < at[x] => key[z] >= key[x]
    BY <1>2 DEF Nested
  <2>2. \A z \in X : ~In(z, x)
    <3> SUFFICES ASSUME NEW z \in X, In(z, x) PROVE FALSE
      OBVIOUS
    <3>1. at[z] < at[x] /\ key[z] < key[x]
      BY <1>1
    <3> QED
      BY <1>1, <2>1, <3>1
  <2> QED
    BY <1>2, <2>2 DEF Around
<1>3. CASE x \notin stop
  <2> DEFINE p == before[x]
  <2>1. /\ p \in X /\ at[p] < at[x] /\ key[p] < key[x]
        /\ \A y \in X : at[p] < at[y] /\ at[y] < at[x] => key[y] >= key[x]
    BY <1>3 DEF Nested
  <2> HIDE DEF p
  <2>2. \A w \in X : at[p] < at[w] /\ at[w] <= at[x] => key[p] < key[w] /\ key[x] <= key[w]
    <3> SUFFICES ASSUME NEW w \in X, at[p] < at[w], at[w] <= at[x] PROVE key[p] < key[w] /\ key[x] <= key[w]
      OBVIOUS
    <3>1. at[w] < at[x] \/ w = x
      BY <1>1
    <3> QED
      BY <1>1, <2>1, <3>1
  <2>3. In(p, x)
    BY <2>1, <2>2
  <2>4. ASSUME NEW z \in X, In(z, p) PROVE In(z, x)
    <3>1. at[z] < at[x] /\ key[z] < key[p]
      BY <1>1, <2>1, <2>4
    <3>2. \A w \in X : at[z] < at[w] /\ at[w] <= at[x] => key[z] < key[w]
      <4> SUFFICES ASSUME NEW w \in X, at[z] < at[w], at[w] <= at[x] PROVE key[z] < key[w]
        OBVIOUS
      <4>1. CASE at[w] <= at[p]
        BY <2>4, <4>1
      <4>2. CASE at[p] < at[w]
        BY <1>1, <2>1, <2>2, <3>1, <4>2
      <4> QED
        BY <1>1, <2>1, <4>1, <4>2
    <3> QED
      BY <3>1, <3>2
  <2>5. ASSUME NEW z \in X, In(z, x), z # p PROVE In(z, p)
    <3>1. key[z] < key[x]
      BY <1>1, <2>5
    <3>2. ~(at[p] < at[z])
      <4> SUFFICES ASSUME at[p] < at[z] PROVE FALSE
        OBVIOUS
      <4>1. key[x] <= key[z]
        BY <1>1, <2>2, <2>5
      <4> QED
        BY <1>1, <3>1, <4>1
    <3>3. at[z] < at[p]
      BY <1>1, <2>1, <2>5, <3>2
    <3>4. \A w \in X : at[w] <= at[p] => at[w] <= at[x]
      BY <1>1, <2>1
    <3> QED
      BY <2>5, <3>3, <3>4
  <2>6. Around(X, at, key, x) = {at[y] : y \in {z \in X : In(z, x)}}
    BY DEF Around
  <2>7. Around(X, at, key, p) = {at[y] : y \in {z \in X : In(z, p)}}
    BY DEF Around
  <2>8. {z \in X : In(z, x)} = {p} \cup {z \in X : In(z, p)}
    <3> HIDE DEF In
    <3> QED
      BY <2>1, <2>3, <2>4, <2>5
  <2> HIDE DEF In
  <2> QED
    BY <1>3, <2>6, <2>7, <2>8 DEF p
<1> QED
  BY <1>2, <1>3

LEMMA NestedIn ==
  ASSUME NEW X, NEW at, NEW key, NEW stop, NEW before, Nested(X, at, key, stop, before),
         NEW f, f = Enclosing(X, at, stop, before, f)
  PROVE  \A x \in X : f[x] = Around(X, at, key, x)
<1> SUFFICES ASSUME \E x \in X : f[x] # Around(X, at, key, x) PROVE FALSE
  OBVIOUS
<1> DEFINE T == {at[x] : x \in {y \in X : f[y] # Around(X, at, key, y)}}
<1>1. T \subseteq Nat /\ T # {}
  BY DEF Nested
<1>2. PICK t \in T : \A u \in T : t <= u
  BY <1>1, LeastElement
<1>3. PICK x \in X : f[x] # Around(X, at, key, x) /\ \A y \in X : f[y] # Around(X, at, key, y) => at[x] <= at[y]
  BY <1>2
<1>4. f[x] = IF x \in stop THEN {} ELSE {at[before[x]]} \cup f[before[x]]
  <2>1. \A g : Enclosing(X, at, stop, before, g)[x] = IF x \in stop THEN {} ELSE {at[before[x]]} \cup g[before[x]]
    BY DEF Enclosing
  <2>2. Enclosing(X, at, stop, before, f)[x] = IF x \in stop THEN {} ELSE {at[before[x]]} \cup f[before[x]]
    BY <2>1
  <2> QED
    BY <2>2
<1>5. x \notin stop => f[before[x]] = Around(X, at, key, before[x])
  <2>1. x \notin stop => before[x] \in X /\ at[before[x]] \in Nat /\ at[x] \in Nat /\ at[before[x]] < at[x]
    BY DEF Nested
  <2> QED
    BY <1>3, <2>1
<1> QED
  BY <1>3, <1>4, <1>5, AroundTheNearest

-----------------------------------------------------------------------------
(* The tags of the headings, and how one lies in the section of another.   *)
HeadingTags == {i \in DOMAIN tags : tags[i].type = "H"}
NodesOfHeadings == [i \in HeadingTags |-> tags[i].node]
RanksOfTags == [i \in HeadingTags |-> Rank(tags[i].node)]
Outermost == {i \in HeadingTags : tags[tags[i].parent].parent = None}
TagAround == [i \in HeadingTags |-> IF i \in Outermost THEN i ELSE tags[tags[i].parent].parent + 1]

LEMMA TagsOfHeadings ==
  ASSUME TagInv, HeadInv, next = Len(text)
  PROVE  /\ Nested(HeadingTags, NodesOfHeadings, RanksOfTags, Outermost, TagAround)
         /\ \A i \in HeadingTags : tags[i].node \in HeadsTo(Len(text)) /\ tags[i].node \in Nat
         /\ \A i \in HeadingTags \ Outermost :
               TagAround[i] = CHOOSE j \in HeadingTags : tags[j].parent = tags[tags[i].parent].parent
         /\ \A n \in HeadsTo(Len(text)) : \E i \in HeadingTags : tags[i].node = n
<1>1. TextOK(text) /\ TagsOK /\ levels \in Ranks /\ DOMAIN levels = HeadLevels(text, Len(text))
  BY DEF TagInv, Tidy
<1>2. \A i \in HeadingTags : Points(i, "H") /\ i \in Int
  BY <1>1, PiecesOfAText DEF HeadingTags, Points, PointsIn, TagsOK
<1>3. /\ \A i \in HeadingTags : tags[i].node \in HeadsTo(Len(text)) /\ tags[i].node \in Nat
      /\ \A i, j \in HeadingTags : i < j => tags[i].node < tags[j].node
  BY <1>1, <1>2, HeadTags
<1>4. \A i \in HeadingTags : Rank(tags[i].node) \in Int
  BY <1>1, <1>3, RanksOfHeadings
<1>5. \A i \in HeadingTags : tags[i].parent = i - 1 /\ UnderIn(tags, text, levels, tags[i].node, tags[i - 1].parent)
  BY DEF HeadInv, HeadingsOK, HeadingTags
<1>6. \A i \in HeadingTags : i \in Outermost <=> tags[i - 1].parent = None
  BY <1>5 DEF Outermost
<1>7. ASSUME NEW i \in HeadingTags, i \notin Outermost
      PROVE  LET p == tags[i - 1].parent
             IN  TagAround[i] = p + 1 /\ p + 1 \in HeadingTags /\ tags[p + 1].parent = p /\ p \in Int
  <2> DEFINE p == tags[i - 1].parent
  <2>1. p # None /\ PointsIn(tags, p + 1, "H")
    BY <1>5, <1>6, <1>7 DEF UnderIn
  <2>2. p + 1 \in HeadingTags
    BY <2>1 DEF PointsIn, HeadingTags
  <2>3. p \in Nat
    <3>1. i - 1 \in DOMAIN tags
      BY <1>7 DEF HeadInv, HeadingsOK, HeadingTags
    <3>2. tags[i - 1] \in TagSet
      BY <1>1, <3>1 DEF TagsOK
    <3> QED
      BY <3>2 DEF TagSet
  <2>4. tags[p + 1].parent = p
    BY <1>5, <2>2, <2>3
  <2>5. TagAround[i] = p + 1
    BY <1>5, <1>7 DEF TagAround
  <2> QED
    BY <2>2, <2>3, <2>4, <2>5
<1>8. \A i \in HeadingTags \ Outermost :
         TagAround[i] = CHOOSE j \in HeadingTags : tags[j].parent = tags[tags[i].parent].parent
  <2> SUFFICES ASSUME NEW i \in HeadingTags, i \notin Outermost
               PROVE  TagAround[i] = CHOOSE j \in HeadingTags : tags[j].parent = tags[tags[i].parent].parent
    OBVIOUS
  <2> DEFINE p == tags[i - 1].parent
  <2>1. TagAround[i] = p + 1 /\ p + 1 \in HeadingTags /\ tags[p + 1].parent = p /\ p \in Int
    BY <1>7
  <2>2. tags[tags[i].parent].parent = p
    BY <1>5
  <2> HIDE DEF p
  <2>3. \A j \in HeadingTags : tags[j].parent = p => j = p + 1
    BY <1>2, <1>5, <2>1
  <2> QED
    BY <2>1, <2>2, <2>3
<1>9. \A n \in HeadsTo(Len(text)) : \E i \in HeadingTags : tags[i].node = n
  <2> SUFFICES ASSUME NEW n \in HeadsTo(Len(text)) PROVE \E i \in HeadingTags : tags[i].node = n
    OBVIOUS
  <2>1. n \in 1..next /\ text[n].role = "H" /\ n # None
    BY DEF HeadsTo, None
  <2>2. PICK i \in DOMAIN tags : tags[i].node = n
    BY <1>1, <2>1 DEF TagsOK
  <2>3. LeafFits(n, tags[i].type)
    BY <1>1, <2>1, <2>2 DEF TagsOK
  <2> QED
    BY <2>1, <2>2, <2>3 DEF LeafFits, HeadingTags
<1>10. Nested(HeadingTags, NodesOfHeadings, RanksOfTags, Outermost, TagAround)
  <2>1. NodesOfHeadings \in [HeadingTags -> Nat] /\ RanksOfTags \in [HeadingTags -> Int]
    BY <1>3, <1>4 DEF NodesOfHeadings, RanksOfTags
  <2>2. TagAround \in [HeadingTags -> HeadingTags]
    BY <1>7 DEF TagAround
  <2>3. \A x, y \in HeadingTags : NodesOfHeadings[x] = NodesOfHeadings[y] => x = y
    <3>1. \A x, y \in HeadingTags : x < y \/ y < x \/ x = y
      BY <1>2
    <3> QED
      BY <1>3, <3>1 DEF NodesOfHeadings
  <2>4. ASSUME NEW x \in HeadingTags
        PROVE IF x \in Outermost THEN \A y \in HeadingTags : NodesOfHeadings[y] < NodesOfHeadings[x] => RanksOfTags[y] >= RanksOfTags[x]
              ELSE /\ NodesOfHeadings[TagAround[x]] < NodesOfHeadings[x] /\ RanksOfTags[TagAround[x]] < RanksOfTags[x]
                   /\ \A y \in HeadingTags : NodesOfHeadings[TagAround[x]] < NodesOfHeadings[y] /\ NodesOfHeadings[y] < NodesOfHeadings[x]
                         => RanksOfTags[y] >= RanksOfTags[x]
    <3> DEFINE n == tags[x].node
               p == tags[x - 1].parent
               earlier == {m \in 1..(n - 1) : text[m].role = "H"}
    <3>1. UnderIn(tags, text, levels, n, p) /\ n \in Nat
      BY <1>3, <1>5
    <3>2. \A y \in HeadingTags : tags[y].node < n => tags[y].node \in earlier
      BY <1>3, <3>1 DEF HeadsTo
    <3>3. \A y \in HeadingTags : NodesOfHeadings[y] = tags[y].node /\ RanksOfTags[y] = Rank(tags[y].node)
      BY DEF NodesOfHeadings, RanksOfTags
    <3>4. CASE x \in Outermost
      <4>1. \A m \in earlier : levels[text[m].level] >= levels[text[n].level]
        BY <1>6, <3>1, <3>4 DEF UnderIn
      <4> HIDE DEF n, p, earlier
      <4> QED
        BY <3>2, <3>3, <3>4, <4>1, SMTT(30) DEF Rank, n
    <3>5. CASE x \notin Outermost
      <4> DEFINE below == tags[p + 1].node
      <4>1. /\ below < n /\ levels[text[below].level] < levels[text[n].level]
            /\ \A m \in earlier : m > below => levels[text[m].level] >= levels[text[n].level]
        BY <1>6, <3>1, <3>5 DEF UnderIn
      <4>2. TagAround[x] = p + 1 /\ p + 1 \in HeadingTags
        BY <1>7, <3>5
      <4> HIDE DEF n, p, earlier
      <4>3. NodesOfHeadings[TagAround[x]] = below /\ RanksOfTags[TagAround[x]] = levels[text[below].level]
        BY <3>3, <4>2 DEF Rank
      <4>4. below \in Nat
        BY <1>3, <4>2
      <4>5. ASSUME NEW y \in HeadingTags, below < tags[y].node, tags[y].node < n
            PROVE  Rank(tags[y].node) >= Rank(n)
        <5>1. tags[y].node \in earlier /\ tags[y].node > below
          BY <1>3, <3>2, <4>4, <4>5
        <5> QED
          BY <4>1, <5>1 DEF Rank
      <4> HIDE DEF below
      <4> QED
        BY <3>3, <3>5, <4>1, <4>3, <4>5, SMTT(30) DEF Rank, n
    <3> QED
      BY <3>4, <3>5
  <2> QED
    BY <2>1, <2>2, <2>3, <2>4 DEF Nested
<1> QED
  BY <1>3, <1>8, <1>9, <1>10

-----------------------------------------------------------------------------
(* The headings of the outline, and how one lies under another.            *)
AtTop == {n \in HeadingsAt : outline[n] = None}
PlacesOfOutline == [n \in HeadingsAt |-> n]
LevelsOfOutline == [n \in HeadingsAt |-> Level(n)]
OutlineAround == [n \in HeadingsAt |-> IF n \in AtTop THEN n ELSE outline[n]]

LEMMA HeadingsOfOutline ==
  ASSUME outline = [n \in HeadingsAt |-> Nearest(Higher(n))], result \in Seq(Nodes)
  PROVE  Nested(HeadingsAt, PlacesOfOutline, LevelsOfOutline, AtTop, OutlineAround)
<1>1. Len(result) \in Nat /\ \A n \in HeadingsAt : n \in Nat /\ n # None /\ n <= Len(result) /\ Level(n) \in Int
  BY LevelsAreNumbers DEF HeadingsAt, None
<1>2. ASSUME NEW n \in HeadingsAt
      PROVE  IF Higher(n) = {} THEN outline[n] = None
             ELSE outline[n] \in Higher(n) /\ outline[n] # None /\ \A k \in Higher(n) : k <= outline[n]
  <2>1. outline[n] = Nearest(Higher(n))
    OBVIOUS
  <2>2. CASE Higher(n) = {}
    BY <2>1, <2>2 DEF Nearest
  <2>3. CASE Higher(n) # {}
    <3>1. Higher(n) \subseteq 0..Len(result)
      BY <1>1 DEF Higher
    <3>2. \E m \in Higher(n) : \A k \in Higher(n) : k <= m
      <4> DEFINE S == Higher(n)
      <4>1. S \in SUBSET (0..Len(result)) /\ S # {}
        BY <2>3, <3>1
      <4> HIDE DEF S
      <4>2. Max(S) \in S /\ \A y \in S : y <= Max(S)
        BY <1>1, <4>1, GreatestAtMost
      <4> QED
        BY <4>2 DEF S
    <3>3. Nearest(Higher(n)) = CHOOSE m \in Higher(n) : \A k \in Higher(n) : k <= m
      BY <2>3 DEF Nearest
    <3>4. outline[n] \in Higher(n) /\ \A k \in Higher(n) : k <= outline[n]
      BY <2>1, <3>2, <3>3
    <3>5. outline[n] # None
      BY <1>1, <3>4 DEF Higher
    <3> QED
      BY <2>3, <3>4, <3>5
  <2> QED
    BY <2>2, <2>3
<1>3. \A n \in HeadingsAt : n \in AtTop <=> Higher(n) = {}
  BY <1>2 DEF AtTop
<1>4. \A n \in HeadingsAt \ AtTop : OutlineAround[n] = outline[n] /\ outline[n] \in Higher(n) /\ \A k \in Higher(n) : k <= outline[n]
  BY <1>2, <1>3 DEF OutlineAround
<1>5. PlacesOfOutline \in [HeadingsAt -> Nat] /\ LevelsOfOutline \in [HeadingsAt -> Int] /\ OutlineAround \in [HeadingsAt -> HeadingsAt]
  BY <1>1, <1>4 DEF PlacesOfOutline, LevelsOfOutline, OutlineAround, Higher
<1>6. ASSUME NEW x \in HeadingsAt
      PROVE IF x \in AtTop THEN \A y \in HeadingsAt : PlacesOfOutline[y] < PlacesOfOutline[x] => LevelsOfOutline[y] >= LevelsOfOutline[x]
            ELSE /\ PlacesOfOutline[OutlineAround[x]] < PlacesOfOutline[x] /\ LevelsOfOutline[OutlineAround[x]] < LevelsOfOutline[x]
                 /\ \A y \in HeadingsAt : PlacesOfOutline[OutlineAround[x]] < PlacesOfOutline[y] /\ PlacesOfOutline[y] < PlacesOfOutline[x]
                       => LevelsOfOutline[y] >= LevelsOfOutline[x]
  <2>1. \A y \in HeadingsAt : PlacesOfOutline[y] = y /\ LevelsOfOutline[y] = Level(y)
    BY DEF PlacesOfOutline, LevelsOfOutline
  <2>2. \A y \in HeadingsAt : y < x /\ ~(Level(y) >= Level(x)) => y \in Higher(x)
    BY <1>1 DEF Higher
  <2>3. CASE x \in AtTop
    BY <1>3, <2>1, <2>2, <2>3
  <2>4. CASE x \notin AtTop
    <3> DEFINE p == OutlineAround[x]
    <3>1. p \in HeadingsAt /\ p < x /\ Level(p) < Level(x) /\ \A k \in Higher(x) : k <= p
      BY <1>4, <2>4 DEF Higher
    <3> HIDE DEF p
    <3>2. \A y \in HeadingsAt : p < y /\ y < x => Level(y) >= Level(x)
      <4> SUFFICES ASSUME NEW y \in HeadingsAt, p < y, y < x, ~(Level(y) >= Level(x)) PROVE FALSE
        OBVIOUS
      <4>1. y <= p
        BY <2>2, <3>1
      <4> QED
        BY <1>1, <3>1, <4>1
    <3> QED
      BY <2>1, <2>4, <3>1, <3>2 DEF p
  <2> QED
    BY <2>3, <2>4
<1>7. \A x, y \in HeadingsAt : PlacesOfOutline[x] = PlacesOfOutline[y] => x = y
  BY DEF PlacesOfOutline
<1> QED
  BY <1>5, <1>6, <1>7 DEF Nested

-----------------------------------------------------------------------------
(* The outline was made of the text that is tagged.                        *)
Outlined ==
  /\ result \in Seq(Nodes) /\ outline = [n \in HeadingsAt |-> Nearest(Higher(n))]
  /\ DOMAIN text = DOMAIN result
  /\ \A i \in DOMAIN result : /\ text[i].role = "H" <=> Level(i) # 0
                              /\ text[i].level = Level(i) /\ Level(i) \in Nat

(* The headings of the outline are those that are of the first six levels. *)
LEMMA HeadingsOfText ==
  ASSUME Outlined, TextOK(text)
  PROVE  /\ HeadingsAt = {n \in HeadsTo(Len(text)) : text[n].level <= 6}
         /\ \A n \in HeadsTo(Len(text)) : text[n].level \in Nat /\ n \in Nat
         /\ \A n \in HeadingsAt : Level(n) = text[n].level
<1>1. /\ Len(result) \in Nat /\ DOMAIN result = 1..Len(result) /\ Len(text) \in Nat /\ DOMAIN text = 1..Len(text)
      /\ DOMAIN text = DOMAIN result
  BY PiecesOfAText DEF Outlined
<1>2. Len(text) = Len(result)
  <2> DEFINE a == Len(text)
             b == Len(result)
  <2>1. a \in Nat /\ b \in Nat /\ 1..a = 1..b
    BY <1>1, ZenonT(40)
  <2> HIDE DEF a, b
  <2>2. ~(a < b) /\ ~(b < a)
    BY <2>1
  <2>3. a = b
    BY <2>1, <2>2
  <2> QED
    BY <2>3 DEF a, b
<1>3. HeadsTo(Len(text)) = {n \in 1..Len(result) : Level(n) # 0}
  BY <1>1, <1>2 DEF HeadsTo, Outlined
<1>4. \A n \in 1..Len(result) : text[n].level = Level(n) /\ Level(n) \in Nat
  BY <1>1 DEF Outlined
<1>5. \A n \in 1..Len(result) : Level(n) \in 1..6 <=> Level(n) # 0 /\ text[n].level <= 6
  BY <1>4
<1> QED
  BY <1>3, <1>4, <1>5 DEF HeadingsAt

(* What a heading lies in among the tags it lies in in the outline.        *)
LEMMA AroundAgree ==
  ASSUME TagInv, HeadInv, next = Len(text), Outlined,
         NEW i \in HeadingTags, tags[i].node \in HeadingsAt
  PROVE  LET inTags == Around(HeadingTags, NodesOfHeadings, RanksOfTags, i)
             inOutline == Around(HeadingsAt, PlacesOfOutline, LevelsOfOutline, tags[i].node)
         IN  inTags \subseteq inOutline /\ (IsInjective(levels) => inTags = inOutline)
<1> DEFINE n == tags[i].node
           H == HeadsTo(Len(text))
           InTags(m) == m < n /\ \A k \in H : m < k /\ k <= n => Rank(m) < Rank(k)
           InOutline(m) == m < n /\ \A k \in HeadingsAt : m < k /\ k <= n => Level(m) < Level(k)
<1>1. TextOK(text) /\ levels \in Ranks /\ DOMAIN levels = HeadLevels(text, Len(text))
  BY DEF TagInv, Tidy
<1>2. /\ \A j \in HeadingTags : tags[j].node \in H /\ tags[j].node \in Nat
      /\ \A m \in H : \E j \in HeadingTags : tags[j].node = m
  BY TagsOfHeadings
<1>3. /\ HeadingsAt = {m \in H : text[m].level <= 6}
      /\ \A m \in H : text[m].level \in Nat /\ m \in Nat
      /\ \A m \in HeadingsAt : Level(m) = text[m].level
  BY <1>1, HeadingsOfText
<1>4. \A m \in H : text[m].level \in DOMAIN levels /\ Rank(m) \in Nat
  BY <1>1, RanksOfHeadings
<1>5. \A l, m \in H : Rank(l) < Rank(m) => text[l].level < text[m].level
  BY <1>1, RanksRise
<1>6. Around(HeadingTags, NodesOfHeadings, RanksOfTags, i) = {m \in H : InTags(m)}
  <2>1. \A j \in HeadingTags : NodesOfHeadings[j] = tags[j].node /\ RanksOfTags[j] = Rank(tags[j].node)
    BY DEF NodesOfHeadings, RanksOfTags
  <2> HIDE DEF H, n
  <2>2. \A z \in HeadingTags :
           (NodesOfHeadings[z] < NodesOfHeadings[i] /\ \A w \in HeadingTags :
               NodesOfHeadings[z] < NodesOfHeadings[w] /\ NodesOfHeadings[w] <= NodesOfHeadings[i] => RanksOfTags[z] < RanksOfTags[w])
           <=> InTags(tags[z].node)
    BY <1>2, <2>1 DEF n
  <2> HIDE DEF InTags
  <2>3. Around(HeadingTags, NodesOfHeadings, RanksOfTags, i) = {tags[y].node : y \in {z \in HeadingTags : InTags(tags[z].node)}}
    BY <2>1, <2>2 DEF Around
  <2> QED
    BY <1>2, <2>3
<1>7. Around(HeadingsAt, PlacesOfOutline, LevelsOfOutline, n) = {m \in HeadingsAt : InOutline(m)}
  <2>1. \A j \in HeadingsAt : PlacesOfOutline[j] = j /\ LevelsOfOutline[j] = Level(j)
    BY DEF PlacesOfOutline, LevelsOfOutline
  <2>2. n \in HeadingsAt
    OBVIOUS
  <2> HIDE DEF n
  <2> QED
    BY <2>1, <2>2 DEF Around
<1>8. n \in H /\ n \in HeadingsAt /\ n \in Nat
  BY <1>2
<1> HIDE DEF H, n
<1>9. ASSUME NEW m \in H, InTags(m) PROVE m \in HeadingsAt /\ InOutline(m)
  <2>1. m < n /\ Rank(m) < Rank(n)
    BY <1>3, <1>8, <1>9
  <2>2. text[m].level < text[n].level /\ text[n].level <= 6
    BY <1>3, <1>5, <1>8, <2>1
  <2>3. m \in HeadingsAt
    BY <1>3, <1>8, <2>2
  <2>4. \A k \in HeadingsAt : m < k /\ k <= n => Level(m) < Level(k)
    BY <1>3, <1>5, <1>9, <2>3
  <2> QED
    BY <2>1, <2>3, <2>4
<1>10. ASSUME IsInjective(levels), NEW m \in HeadingsAt, InOutline(m) PROVE m \in H /\ InTags(m)
  <2>1. m \in H /\ m < n
    BY <1>3, <1>10
  <2>2. ASSUME NEW k \in H, m < k, k <= n PROVE Rank(m) < Rank(k)
    <3>1. text[m].level < text[k].level
      <4>1. CASE k \in HeadingsAt
        BY <1>3, <1>10, <2>2, <4>1
      <4>2. CASE k \notin HeadingsAt
        BY <1>3, <2>1, <2>2, <4>2
      <4> QED
        BY <4>1, <4>2
    <3>2. Rank(m) # Rank(k)
      <4>1. text[m].level # text[k].level
        BY <1>3, <2>1, <3>1
      <4> QED
        BY <1>4, <1>10, <2>1, <2>2, <4>1 DEF IsInjective, Rank
    <3>3. ~(Rank(k) < Rank(m))
      BY <1>3, <1>5, <2>1, <2>2, <3>1, SMTT(30)
    <3> QED
      BY <1>4, <2>1, <2>2, <3>2, <3>3
  <2> QED
    BY <2>1, <2>2
<1> HIDE DEF InTags, InOutline
<1> QED
  BY <1>6, <1>7, <1>9, <1>10 DEF n

LEMMA SectionsFollow ==
  ASSUME TagInv, HeadInv, next = Len(text), Outlined
  PROVE  LET heads == {i \in DOMAIN tags : tags[i].type = "H"}
             Head1(section) == CHOOSE i \in heads : tags[i].parent = section
             tagAbove[i \in heads] ==
                 LET parent == tags[tags[i].parent].parent
                 IN  IF parent = None THEN {} ELSE {tags[Head1(parent)].node} \cup tagAbove[Head1(parent)]
             above[n \in DOMAIN outline] ==
                 IF outline[n] = None THEN {} ELSE {outline[n]} \cup above[outline[n]]
         IN  \A i \in heads :
                 tags[i].node \in DOMAIN outline =>
                     /\ tagAbove[i] \subseteq above[tags[i].node]
                     /\ IsInjective(levels) => tagAbove[i] = above[tags[i].node]
<1> DEFINE Head1(section) == CHOOSE i \in HeadingTags : tags[i].parent = section
           TaggedBy(g) == [i \in HeadingTags |->
                            LET parent == tags[tags[i].parent].parent
                            IN  IF parent = None THEN {} ELSE {tags[Head1(parent)].node} \cup g[Head1(parent)]]
           Listed(g) == [n \in DOMAIN outline |-> IF outline[n] = None THEN {} ELSE {outline[n]} \cup g[outline[n]]]
           tagAbove == CHOOSE g : g = TaggedBy(g)
           above == CHOOSE g : g = Listed(g)
<1>1. /\ Nested(HeadingTags, NodesOfHeadings, RanksOfTags, Outermost, TagAround)
      /\ \A i \in HeadingTags : tags[i].node \in HeadsTo(Len(text)) /\ tags[i].node \in Nat
      /\ \A i \in HeadingTags \ Outermost :
            TagAround[i] = CHOOSE j \in HeadingTags : tags[j].parent = tags[tags[i].parent].parent
  BY TagsOfHeadings
<1>2. Nested(HeadingsAt, PlacesOfOutline, LevelsOfOutline, AtTop, OutlineAround) /\ DOMAIN outline = HeadingsAt
  BY HeadingsOfOutline DEF Outlined
<1>3. Len(text) \in Nat /\ TextOK(text) /\ result \in Seq(Nodes) /\ Len(result) \in Nat
  BY PiecesOfAText DEF TagInv, Tidy, Outlined
<1>4. \A g : TaggedBy(g) = Enclosing(HeadingTags, NodesOfHeadings, Outermost, TagAround, g)
  <2> TAKE g
  <2>1. ASSUME NEW i \in HeadingTags
        PROVE  TaggedBy(g)[i] = IF i \in Outermost THEN {} ELSE {NodesOfHeadings[TagAround[i]]} \cup g[TagAround[i]]
    <3>1. CASE i \in Outermost
      BY <3>1 DEF Outermost
    <3>2. CASE i \notin Outermost
      <4> DEFINE p == tags[tags[i].parent].parent
      <4>1. TagAround[i] = Head1(p) /\ p # None
        BY <1>1, <3>2 DEF Outermost
      <4>2. TagAround[i] \in HeadingTags
        BY <1>1 DEF Nested
      <4>3. NodesOfHeadings[TagAround[i]] = tags[Head1(p)].node
        BY <4>1, <4>2 DEF NodesOfHeadings
      <4>4. TaggedBy(g)[i] = IF p = None THEN {} ELSE {tags[Head1(p)].node} \cup g[Head1(p)]
        OBVIOUS
      <4> HIDE DEF Head1, p, TaggedBy
      <4> QED
        BY <3>2, <4>1, <4>3, <4>4
    <3> QED
      BY <3>1, <3>2
  <2>2. DOMAIN TaggedBy(g) = HeadingTags /\ TaggedBy(g) = [i \in HeadingTags |-> TaggedBy(g)[i]]
    OBVIOUS
  <2> HIDE DEF TaggedBy, Head1
  <2> QED
    BY <2>1, <2>2 DEF Enclosing
<1>5. \A g : Listed(g) = Enclosing(HeadingsAt, PlacesOfOutline, AtTop, OutlineAround, g)
  <2> TAKE g
  <2>1. ASSUME NEW n \in HeadingsAt
        PROVE  Listed(g)[n] = IF n \in AtTop THEN {} ELSE {PlacesOfOutline[OutlineAround[n]]} \cup g[OutlineAround[n]]
    <3>1. Listed(g)[n] = IF outline[n] = None THEN {} ELSE {outline[n]} \cup g[outline[n]]
      BY <1>2
    <3>2. n \in AtTop <=> outline[n] = None
      BY DEF AtTop
    <3>3. n \notin AtTop => OutlineAround[n] = outline[n]
      BY DEF OutlineAround
    <3>4. OutlineAround[n] \in HeadingsAt
      BY <1>2 DEF Nested
    <3>5. PlacesOfOutline[OutlineAround[n]] = OutlineAround[n]
      BY <3>4 DEF PlacesOfOutline
    <3> HIDE DEF Listed
    <3> QED
      BY <3>1, <3>2, <3>3, <3>5
  <2>2. Listed(g) = [n \in HeadingsAt |-> Listed(g)[n]]
    BY <1>2
  <2> HIDE DEF Listed
  <2> QED
    BY <2>1, <2>2 DEF Enclosing
<1>6. tagAbove = TaggedBy(tagAbove)
  <2>1. \A i \in HeadingTags : NodesOfHeadings[i] <= Len(text)
    BY <1>1, <1>3 DEF HeadsTo, NodesOfHeadings
  <2>2. \E g : g = Enclosing(HeadingTags, NodesOfHeadings, Outermost, TagAround, g)
    BY <1>1, <1>3, <2>1, EnclosingExists
  <2>3. \E g : g = TaggedBy(g)
    <3> HIDE DEF TaggedBy
    <3> QED
      BY <1>4, <2>2
  <2> HIDE DEF TaggedBy
  <2> QED
    BY <2>3
<1>7. above = Listed(above)
  <2>1. \A n \in HeadingsAt : PlacesOfOutline[n] <= Len(result)
    BY <1>3 DEF HeadingsAt, PlacesOfOutline
  <2>2. \E g : g = Enclosing(HeadingsAt, PlacesOfOutline, AtTop, OutlineAround, g)
    BY <1>2, <1>3, <2>1, EnclosingExists
  <2>3. \E g : g = Listed(g)
    <3> HIDE DEF Listed
    <3> QED
      BY <1>5, <2>2
  <2> HIDE DEF Listed
  <2> QED
    BY <2>3
<1> HIDE DEF tagAbove, above, TaggedBy, Listed
<1>8. \A i \in HeadingTags : tagAbove[i] = Around(HeadingTags, NodesOfHeadings, RanksOfTags, i)
  <2>1. tagAbove = Enclosing(HeadingTags, NodesOfHeadings, Outermost, TagAround, tagAbove)
    BY <1>4, <1>6
  <2> QED
    BY <1>1, <2>1, NestedIn
<1>9. \A n \in HeadingsAt : above[n] = Around(HeadingsAt, PlacesOfOutline, LevelsOfOutline, n)
  <2>1. above = Enclosing(HeadingsAt, PlacesOfOutline, AtTop, OutlineAround, above)
    BY <1>5, <1>7
  <2> QED
    BY <1>2, <2>1, NestedIn
<1>10. \A i \in HeadingTags : tags[i].node \in DOMAIN outline =>
          /\ tagAbove[i] \subseteq above[tags[i].node]
          /\ IsInjective(levels) => tagAbove[i] = above[tags[i].node]
  <2> SUFFICES ASSUME NEW i \in HeadingTags, tags[i].node \in HeadingsAt
               PROVE  /\ tagAbove[i] \subseteq above[tags[i].node]
                      /\ IsInjective(levels) => tagAbove[i] = above[tags[i].node]
    BY <1>2
  <2>1. tagAbove[i] = Around(HeadingTags, NodesOfHeadings, RanksOfTags, i)
    BY <1>8
  <2>2. above[tags[i].node] = Around(HeadingsAt, PlacesOfOutline, LevelsOfOutline, tags[i].node)
    BY <1>9
  <2> QED
    BY <2>1, <2>2, AroundAgree
<1> QED
  BY <1>10, ZenonT(40) DEF HeadingTags, tagAbove, above, TaggedBy, Listed

(* Before the headings are nested there is no outline, and if the nesting  *)
(* is not reached there never is one; the text that is tagged then is that *)
(* of the result.                                                          *)
NotNested == Untagged \ {"nesting", "ordered"}

OutlineInv == /\ step \in NotNested => outline = << >>
              /\ step = "tagging" => HeadInv /\ (outline = << >> \/ Outlined)

LEMMA OutlineInvStarts == GridInit => OutlineInv
<1> SUFFICES ASSUME TagInit PROVE OutlineInv
  BY DEF GridInit
<1>1. outline = << >>
  BY DEF TagInit, PageInit, NothingInferred
<1>2. CASE PageInit
  BY <1>1, <1>2 DEF PageInit, OutlineInv
<1>3. CASE \E documents \in Texts : text \in documents
  <2>1. TextOK(text) /\ NothingTagged
    BY <1>3, TagTreeAssumption DEF TagInit
  <2>2. next = 0 /\ DOMAIN tags = {} /\ DOMAIN sections = {}
    BY <2>1 DEF NothingTagged
  <2>3. HeadInv
    BY <2>2 DEF HeadInv, HeadingsOK, StackedOK, HeadsTo
  <2> QED
    BY <1>1, <2>3 DEF OutlineInv
<1> QED
  BY <1>2, <1>3 DEF TagInit

(* Which steps lead to the tagging, and which to what precedes the outline *)
LEMMA StepsToTagging ==
  ASSUME [GridNext]_allVars
  PROVE  /\ step' = "tagging" => BeginTagging \/ TagStep \/ UNCHANGED <<step, doc, result, outline, tagVars>>
         /\ step' \in NotNested => \/ step \in NotNested /\ UNCHANGED outline
                                   \/ step = "placing" /\ UNCHANGED outline
<1>1. CASE UNCHANGED allVars
  BY <1>1 DEF allVars, pipelineVars, readingVars
<1>2. CASE MergeFragments \/ AssignSections \/ NormalizeRegularity \/ FinishTables
  <2>1. step' \in {"fragments", "sections", "grid", "finished"}
    BY <1>2 DEF MergeFragments, AssignSections, NormalizeRegularity, FinishTables, Pass
  <2> QED
    BY <2>1 DEF NotNested, Untagged, OnPage, Sorting
<1>3. CASE AnalyzePage \/ InferDocument \/ MergeParagraphs \/ MergeFails \/ OrderFails
  <2>1. step \in {"page", "layout", "semantic", "lines"} /\ step' \in {"layout", "semantic", "lines", "broken"} /\ UNCHANGED outline
    BY <1>3 DEF AnalyzePage, InferDocument, MergeParagraphs, MergeFails, Merge, OrderFails
  <2> QED
    BY <2>1 DEF NotNested, Untagged, OnPage, Sorting
<1>4. CASE Recover
  <2>1. step \in {"invalid", "conflict", "broken"} /\ step' \in {"failed", "fallback"} /\ UNCHANGED outline
    BY <1>4 DEF Recover
  <2> QED
    BY <2>1 DEF NotNested, Untagged, OnPage, Sorting
<1>5. CASE Order
  <2>1. CASE AssignLines \/ Sort \/ Fill \/ Place
    <3>1. step \in {"lines", "sort", "filling", "placing"} /\ step' # "tagging" /\ UNCHANGED outline
      BY <2>1 DEF AssignLines, Sort, Fill, Place
    <3> QED
      BY <3>1 DEF NotNested, Untagged, OnPage, Sorting
  <2>2. CASE Finish
    BY <2>2 DEF Finish
  <2>3. CASE Nest \/ Write
    <3>1. step' \in {"nesting", "ordered"}
      BY <2>3 DEF Nest, Write
    <3> QED
      BY <3>1 DEF NotNested
  <2> QED
    BY <1>5, <2>1, <2>2, <2>3 DEF Order, Next
<1>6. CASE BeginTagging
  <2>1. step' = "tagging"
    BY <1>6 DEF BeginTagging
  <2> QED
    BY <1>6, <2>1 DEF NotNested, Untagged, OnPage, Sorting
<1>7. CASE TagStep
  <2>1. step' \in {"tagging", "review"}
    BY <1>7, TagStepReads
  <2> QED
    BY <1>7, <2>1 DEF NotNested, Untagged, OnPage, Sorting
<1> QED
  BY <1>1, <1>2, <1>3, <1>4, <1>5, <1>6, <1>7 DEF GridNext, TagNext, PageNext, TagStep

(* The text that is made of the result has its headings.                   *)
LEMMA OutlinedByTheResult ==
  ASSUME ResultInv, NestInv, step = "ordered", BeginTagging
  PROVE  Outlined'
<1>1. /\ DocumentOK(doc) /\ result \in Seq(Nodes) /\ UNCHANGED <<doc, result, outline>>
      /\ text' = [i \in DOMAIN result |-> NodeOf(result[i])]
  BY DEF ResultInv, BeginTagging
<1>2. \A i \in DOMAIN result : /\ text'[i].role = "H" <=> Unit(result[i]).level # 0
                               /\ text'[i].level = Unit(result[i]).level /\ text'[i].level \in Nat
  BY <1>1, OrderedText
<1>3. outline = [n \in HeadingsAt |-> Nearest(Higher(n))]
  BY NestedIs DEF NestInv
<1>4. HeadingsAt' = HeadingsAt /\ Nodes' = Nodes /\ \A i : Level(i)' = Unit(result[i]).level /\ Higher(i)' = Higher(i)
  BY <1>1 DEF HeadingsAt, Nodes, Level, Unit, Higher
<1>5. DOMAIN text' = DOMAIN result
  BY <1>1
<1>6. (outline = [n \in HeadingsAt |-> Nearest(Higher(n))])'
  BY <1>1, <1>3, <1>4
<1>7. \A i \in DOMAIN result' : /\ text'[i].role = "H" <=> Level(i)' # 0
                                /\ text'[i].level = Level(i)' /\ Level(i)' \in Nat
  <2> TAKE i \in DOMAIN result'
  <2>1. i \in DOMAIN result /\ Level(i)' = Unit(result[i]).level
    BY <1>1, <1>4
  <2> QED
    BY <1>2, <2>1
<1> QED
  BY <1>1, <1>4, <1>5, <1>6, <1>7 DEF Outlined

LEMMA OutlinedStays ==
  ASSUME Outlined, UNCHANGED <<doc, result, outline, text>>
  PROVE  Outlined'
<1>1. HeadingsAt' = HeadingsAt /\ Nodes' = Nodes /\ \A i : Level(i)' = Level(i) /\ Higher(i)' = Higher(i)
  BY DEF HeadingsAt, Nodes, Level, Unit, Higher
<1>2. (outline = [n \in HeadingsAt |-> Nearest(Higher(n))])'
  BY <1>1 DEF Outlined
<1>3. \A i \in DOMAIN result' : /\ text'[i].role = "H" <=> Level(i)' # 0
                                /\ text'[i].level = Level(i)' /\ Level(i)' \in Nat
  BY <1>1 DEF Outlined
<1> QED
  BY <1>1, <1>2, <1>3 DEF Outlined

LEMMA NothingTaggedHeads == NothingTagged => HeadInv
<1> SUFFICES ASSUME NothingTagged PROVE HeadInv
  OBVIOUS
<1>1. next = 0 /\ DOMAIN tags = {} /\ DOMAIN sections = {}
  BY DEF NothingTagged
<1> QED
  BY <1>1 DEF HeadInv, HeadingsOK, StackedOK, HeadsTo

LEMMA OutlineInvIsKept ==
  ASSUME ResultInv, NestInv, TextInv, OutlineInv, [GridNext]_allVars
  PROVE  OutlineInv'
<1>1. ASSUME step' \in NotNested PROVE outline' = << >>
  <2>1. step = "placing" => step \in NotNested
    BY DEF NotNested, Untagged, Sorting
  <2> QED
    BY <1>1, <2>1, StepsToTagging DEF OutlineInv
<1>2. ASSUME step' = "tagging" PROVE HeadInv' /\ (outline' = << >> \/ Outlined')
  <2>1. CASE BeginTagging
    <3>1. step \in {"ordered", "fallback"} /\ UNCHANGED <<outline, next, tags, sections, lists, table, diagram>>
      BY <2>1 DEF BeginTagging
    <3>2. NothingTagged'
      BY <3>1 DEF TextInv, NothingTagged, Untagged, Sorting
    <3>3. HeadInv'
      BY <3>2, NothingTaggedHeads, PTL
    <3>4. step = "fallback" => outline' = << >>
      BY <3>1 DEF OutlineInv, NotNested, Untagged
    <3> QED
      BY <2>1, <3>1, <3>3, <3>4, OutlinedByTheResult
  <2>2. CASE TagStep
    <3>1. step = "tagging" /\ UNCHANGED <<doc, result, outline, text>>
      BY <2>2, TagStepReads
    <3>2. TagInv /\ HeadInv
      BY <3>1 DEF TextInv, OutlineInv, Written
    <3>3. HeadInv'
      BY <1>2, <2>2, <3>2, StepKeepsHeads
    <3> QED
      BY <3>1, <3>3, OutlinedStays DEF OutlineInv
  <2>3. CASE UNCHANGED <<step, doc, result, outline, tagVars>>
    <3>1. step = "tagging" /\ UNCHANGED <<text, levels, next, tags, sections>>
      BY <1>2, <2>3 DEF tagVars
    <3>2. HeadInv'
      <4>1. HeadingsOK'
        BY <3>1 DEF OutlineInv, HeadInv, HeadingsOK
      <4>2. StackedOK'
        BY <3>1 DEF OutlineInv, HeadInv, StackedOK, Points, Rank, NodeBelow, HeadsTo
      <4> QED
        BY <4>1, <4>2 DEF HeadInv
    <3> QED
      BY <2>3, <3>1, <3>2, OutlinedStays DEF OutlineInv
  <2> QED
    BY <1>2, <2>1, <2>2, <2>3, StepsToTagging
<1> QED
  BY <1>1, <1>2 DEF OutlineInv

(* SectionsFollowOutline, of every text and every page.                    *)
THEOREM SectionsFollowTheOutline == GridSpec => []SectionsFollowOutline
<1>1. PageInv /\ SortInv /\ ResultInv /\ TextInv /\ OutlineInv /\ NestInv => SectionsFollowOutline
  <2> SUFFICES ASSUME TextInv, OutlineInv, Tagged, outline # << >> PROVE SectionsFollowOutline
    BY ZenonT(40) DEF SectionsFollowOutline
  <2>1. TagInv /\ HeadInv /\ Outlined /\ next = Len(text)
    BY DEF TextInv, OutlineInv, Tagged, Written
  <2> QED
    BY <2>1, SectionsFollow, ZenonT(40) DEF SectionsFollowOutline
<1>2. GridInit => NestInv /\ OutlineInv
  BY StartHasNoOutline, OutlineInvStarts
<1>3. ResultInv /\ NestInv /\ TextInv /\ OutlineInv /\ [GridNext]_allVars => (NestInv /\ OutlineInv)'
  BY NestInvIsKept, OutlineInvIsKept DEF allVars
<1> QED
  BY <1>1, <1>2, <1>3, TextInvHolds, PTL DEF GridSpec, allVars

-----------------------------------------------------------------------------
(* The order in which the tags are read.  A tag is open when what was      *)
(* tagged after it is in it: what hangs from it next comes after all that. *)
OpenIn(ts, p) == \A j \in DOMAIN ts : ts[j].type # "Span" /\ j > p => ts[j].parent >= p
Open(p) == OpenIn(tags, p)

(* The tags but the later parts of paragraphs are in preorder: one lies in *)
(* an earlier one or in what that lies in.                                 *)
PreorderIn(ts) == \A j, k \in DOMAIN ts :
    ts[j].type # "Span" /\ ts[k].type # "Span" /\ j < k => ts[k].parent <= ts[j].parent \/ ts[k].parent >= j

(* Parts are in the paragraph they continue, and nothing else is.          *)
Holders == {"Sect", "L", "LI", "Table", "TR"}
KindsIn(ts) ==
    \A i \in DOMAIN ts : IF ts[i].type = "Span"
                         THEN /\ PointsIn(ts, ts[i].parent, "P")
                              /\ ts[ts[i].parent].node = FirstOfGroup(ts[i].node)
                         ELSE ts[i].parent = None \/ \E type \in Holders : PointsIn(ts, ts[i].parent, type)

LEMMA StaysOpen ==
  ASSUME TagsOK, NEW p, NEW new, Hangs(p, new), NEW q \in Int, Open(q), q <= p
  PROVE  OpenIn(tags', q)
<1> SUFFICES ASSUME NEW j \in DOMAIN tags', tags'[j].type # "Span", j > q PROVE tags'[j].parent >= q
  BY DEF OpenIn
<1>1. CASE j \in DOMAIN tags
  BY <1>1, HungAre DEF Open, OpenIn
<1>2. CASE j \notin DOMAIN tags
  <2>1. /\ Len(tags) \in Nat /\ p \in 0..Len(tags) /\ j \in 1..(Len(tags) + Len(new)) /\ j > Len(tags) /\ Len(new) \in Nat
        /\ tags'[j].parent = IF j = Len(tags) + 1 THEN p ELSE j - 1
    BY <1>2, HungAre
  <2>2. j \in Int /\ Len(tags) \in Int /\ p \in Int /\ p <= Len(tags) /\ j > Len(tags)
    BY <2>1
  <2>3. CASE j = Len(tags) + 1
    BY <2>1, <2>3
  <2>4. CASE j # Len(tags) + 1
    <3>1. tags'[j].parent = j - 1
      BY <2>1, <2>4
    <3> QED
      BY <2>2, <3>1
  <2> QED
    BY <2>3, <2>4
<1> QED
  BY <1>1, <1>2

LEMMA NewIsOpen ==
  ASSUME TagsOK, NEW p, NEW new, Hangs(p, new), NEW q \in Int, q > Len(tags)
  PROVE  OpenIn(tags', q)
<1> SUFFICES ASSUME NEW j \in DOMAIN tags', j > q PROVE tags'[j].parent >= q
  BY DEF OpenIn
<1>1. Len(tags) \in Nat /\ DOMAIN tags = 1..Len(tags) /\ DOMAIN tags' = 1..(Len(tags) + Len(new)) /\ Len(new) \in Nat
  BY HungAre
<1>2. j \notin DOMAIN tags
  BY <1>1
<1>3. tags'[j].parent = IF j = Len(tags) + 1 THEN p ELSE j - 1
  BY <1>2, HungAre
<1> QED
  BY <1>1, <1>3

LEMMA PreorderStays ==
  ASSUME TagsOK, PreorderIn(tags), NEW p, NEW new, Hangs(p, new), p = None \/ Open(p)
  PROVE  PreorderIn(tags')
<1> SUFFICES ASSUME NEW j \in DOMAIN tags', NEW k \in DOMAIN tags', tags'[j].type # "Span", tags'[k].type # "Span", j < k
             PROVE  tags'[k].parent <= tags'[j].parent \/ tags'[k].parent >= j
  BY DEF PreorderIn
<1>1. /\ Len(tags) \in Nat /\ DOMAIN tags = 1..Len(tags) /\ DOMAIN tags' = 1..(Len(tags) + Len(new)) /\ Len(new) \in Nat
      /\ p \in 0..Len(tags) /\ \A i \in DOMAIN tags : tags'[i] = tags[i]
  BY HungAre
<1>2. CASE k \in DOMAIN tags
  <2>1. j \in DOMAIN tags
    BY <1>1, <1>2
  <2> QED
    BY <1>1, <1>2, <2>1 DEF PreorderIn
<1>3. CASE k \notin DOMAIN tags
  <2>1. tags'[k].parent = (IF k = Len(tags) + 1 THEN p ELSE k - 1) /\ k > Len(tags)
    BY <1>3, HungAre
  <2>2. CASE k # Len(tags) + 1
    BY <1>1, <2>1, <2>2
  <2>3. CASE k = Len(tags) + 1
    <3>1. tags'[k].parent = p /\ j \in DOMAIN tags /\ tags'[j] = tags[j]
      BY <1>1, <2>1, <2>3
    <3>2. tags[j] \in TagSet
      BY <3>1 DEF TagsOK
    <3>2a. tags[j].parent \in Nat
      BY <3>2 DEF TagSet
    <3>3. CASE p = None
      BY <3>1, <3>2a, <3>3 DEF None
    <3>4. CASE Open(p)
      <4>1. j > p => tags[j].parent >= p
        BY <3>1, <3>4 DEF Open, OpenIn
      <4> QED
        BY <1>1, <3>1, <3>2a, <4>1
    <3> QED
      BY <3>3, <3>4
  <2> QED
    BY <2>2, <2>3
<1> QED
  BY <1>2, <1>3

(* A part of a paragraph disturbs nothing.                                 *)
LEMMA PartsDisturbNothing ==
  ASSUME TagsOK, NEW p, NEW a, Hangs(p, <<a>>), a.type = "Span"
  PROVE  /\ PreorderIn(tags) => PreorderIn(tags')
         /\ \A q : Open(q) => OpenIn(tags', q)
<1>1. \A j \in DOMAIN tags' : tags'[j].type # "Span" => j \in DOMAIN tags /\ tags'[j] = tags[j]
  <2> TAKE j \in DOMAIN tags'
  <2>1. CASE j \in DOMAIN tags
    BY <2>1, HungAre
  <2>2. CASE j \notin DOMAIN tags
    <3>1. j - Len(tags) \in 1..Len(<<a>>) /\ tags'[j] = <<a>>[j - Len(tags)]
      BY <2>2, HungAre
    <3>2. Len(<<a>>) = 1 /\ <<a>>[1] = a
      OBVIOUS
    <3>3. j - Len(tags) = 1
      BY <3>1, <3>2
    <3> QED
      BY <3>1, <3>2, <3>3
  <2> QED
    BY <2>1, <2>2
<1> QED
  BY <1>1 DEF PreorderIn, Open, OpenIn

LEMMA KindsStay ==
  ASSUME TagsOK, KindsIn(tags), UNCHANGED text, NEW p, NEW new, Hangs(p, new),
         \A k \in 1..Len(new) : new[k].type # "Span",
         \A k \in 1..(Len(new) - 1) : new[k].type \in Holders,
         p = None \/ \E type \in Holders : Points(p, type)
  PROVE  KindsIn(tags)'
<1>1. /\ Len(tags) \in Nat /\ DOMAIN tags = 1..Len(tags) /\ DOMAIN tags' = 1..(Len(tags) + Len(new)) /\ Len(new) \in Nat
      /\ p \in 0..Len(tags) /\ \A i \in DOMAIN tags : i \in DOMAIN tags' /\ tags'[i] = tags[i]
  BY HungAre
<1>2. \A n : FirstOfGroup(n)' = FirstOfGroup(n)
  BY DEF FirstOfGroup
<1>3. \A q, type : PointsIn(tags, q, type) => PointsIn(tags', q, type) /\ tags'[q] = tags[q]
  BY <1>1 DEF PointsIn
<1>4. ASSUME NEW i \in DOMAIN tags'
      PROVE  IF tags'[i].type = "Span"
             THEN PointsIn(tags', tags'[i].parent, "P") /\ tags'[tags'[i].parent].node = FirstOfGroup(tags'[i].node)
             ELSE tags'[i].parent = None \/ \E type \in Holders : PointsIn(tags', tags'[i].parent, type)
  <2>1. CASE i \in DOMAIN tags
    <3>1. tags'[i] = tags[i]
      BY <1>1, <2>1
    <3>2. CASE tags[i].type = "Span"
      BY <1>3, <2>1, <3>1, <3>2 DEF KindsIn
    <3>3. CASE tags[i].type # "Span"
      BY <1>3, <2>1, <3>1, <3>3 DEF KindsIn
    <3> QED
      BY <3>2, <3>3
  <2>2. CASE i \notin DOMAIN tags
    <3>1. /\ i - Len(tags) \in 1..Len(new) /\ tags'[i] = new[i - Len(tags)]
          /\ tags'[i].parent = IF i = Len(tags) + 1 THEN p ELSE i - 1
      BY <2>2, HungAre
    <3>2. tags'[i].type # "Span"
      BY <3>1
    <3>3. CASE i = Len(tags) + 1
      BY <1>3, <3>1, <3>2, <3>3 DEF Points
    <3>4. CASE i # Len(tags) + 1
      <4>1. i - 1 - Len(tags) \in 1..(Len(new) - 1) /\ i - 1 \in DOMAIN tags' /\ i - 1 \notin DOMAIN tags
        BY <1>1, <3>1, <3>4, SMTT(30)
      <4>2. tags'[i - 1] = new[i - 1 - Len(tags)]
        BY <4>1, HungAre
      <4>3. tags'[i - 1].type \in Holders
        BY <4>1, <4>2
      <4> QED
        BY <3>1, <3>2, <3>4, <4>1, <4>3 DEF PointsIn
    <3> QED
      BY <3>3, <3>4
  <2> QED
    BY <2>1, <2>2
<1> QED
  BY <1>2, <1>4 DEF KindsIn

(* An open tag inside every section that is open.                          *)
InnermostIn(ts, ss, q) == OpenIn(ts, q) /\ \A k \in DOMAIN ss : ss[k].tag < q
Innermost(q) == InnermostIn(tags, sections, q)

(* The lists are nested, and the last item of the innermost is the last    *)
(* item of all.                                                            *)
ListsRead ==
  /\ \A k \in DOMAIN lists : Innermost(lists[k].tag) /\ Innermost(lists[k].last) /\ lists[k].tag < lists[k].last
  /\ \A j, k \in DOMAIN lists : j < k => lists[j].last < lists[k].tag
  /\ lists # << >> => \A i \in DOMAIN tags : tags[i].type = "LI" => i <= lists[Len(lists)].last

(* The rows of a table were read by pages and, on a page, by rows.         *)
RowsRead ==
  /\ \A k \in DOMAIN table.rows : /\ RowRead(table.rows[k]) /\ table.rows[k].page <= table.page
                                  /\ table.tag < table.rows[k].tag
  /\ \A j, k \in DOMAIN table.rows : j < k =>
        \/ table.rows[j].page < table.rows[k].page
        \/ table.rows[j].page = table.rows[k].page /\ table.rows[j].row < table.rows[k].row
  /\ table.rows # << >> => Open(table.rows[Len(table.rows)].tag)

(* Whatever the loop may still add to is open, and only one of the lists,  *)
(* the table and the diagram is.                                           *)
ReadInv ==
  /\ PreorderIn(tags) /\ KindsIn(tags)
  /\ \A k \in DOMAIN sections : Open(sections[k].tag)
  /\ lists # << >> => table.tag = None /\ diagram.tag = None
  /\ table.tag # None => diagram.tag = None
  /\ diagram.tag # None => Innermost(diagram.tag)
  /\ table.tag # None => Innermost(table.tag)
  /\ ListsRead /\ RowsRead

LEMMA ContainerIsOpen ==
  ASSUME TagInv, StackedOK, ReadInv
  PROVE  /\ Container \in Nat /\ Container <= Len(tags)
         /\ Container = None \/ (Open(Container) /\ Points(Container, "Sect"))
         /\ \A k \in DOMAIN sections : sections[k].tag \in Nat /\ sections[k].tag <= Container
         /\ \A q \in DOMAIN tags : Innermost(q) => Container < q
<1>1. TagsOK /\ PointersOK /\ SectionsOK
  BY DEF TagInv, Tidy, PointersOK
<1>2. Container \in Nat /\ Container <= Len(tags) /\ (Container = None \/ Points(Container, "Sect"))
      /\ Len(tags) \in Nat /\ DOMAIN tags = 1..Len(tags)
  <2>1. Len(tags) \in Nat /\ DOMAIN tags = 1..Len(tags)
    BY <1>1 DEF TagsOK
  <2> QED
    BY <1>1, <2>1, ContainerIs
<1>3. CASE sections = << >>
  <2>1. Container = None /\ None = 0 /\ DOMAIN sections = {}
    BY <1>3 DEF Container, None
  <2> QED
    BY <1>2, <2>1
<1>4. CASE sections # << >>
  <2> DEFINE last == Len(sections)
  <2>1. last \in DOMAIN sections /\ DOMAIN sections = 1..last /\ \A k \in DOMAIN sections : sections[k].tag \in Nat
    <3> DEFINE X == [level : Int, tag : Nat]
    <3>1. sections \in Seq(X) /\ \A s \in X : s.tag \in Nat
      BY <1>1 DEF SectionsOK
    <3> HIDE DEF X
    <3> QED
      BY <1>4, <3>1
  <2>2. Container = sections[last].tag
    BY <1>4 DEF Container
  <2>3. ASSUME NEW k \in DOMAIN sections PROVE sections[k].tag \in Nat /\ sections[k].tag <= Container
    <3>1. CASE k = last
      BY <2>1, <2>2, <3>1
    <3>2. CASE k < last
      BY <2>1, <2>2, <3>2 DEF StackedOK
    <3> QED
      BY <2>1, <3>1, <3>2
  <2>4. Open(Container)
    BY <2>1, <2>2 DEF ReadInv
  <2>5. \A q \in DOMAIN tags : Innermost(q) => Container < q
    BY <2>1, <2>2 DEF Innermost, InnermostIn
  <2> QED
    BY <1>2, <2>3, <2>4, <2>5
<1> QED
  BY <1>3, <1>4

(* What hangs from an open tag no further out than the container keeps the *)
(* tags in their order, and what is open outside of it open.               *)
LEMMA ReadOn ==
  ASSUME TagInv, StackedOK, ReadInv, UNCHANGED <<text, sections>>, NEW p, NEW new, Hangs(p, new),
         \A k \in DOMAIN new : new[k].type # "Span",
         \A k \in DOMAIN new : k < Len(new) => new[k].type \in Holders,
         p = None \/ (Open(p) /\ \E type \in Holders : Points(p, type)), Container <= p
  PROVE  /\ PreorderIn(tags') /\ KindsIn(tags)'
         /\ \A k \in DOMAIN sections' : OpenIn(tags', sections'[k].tag)
         /\ \A q \in Nat : Open(q) /\ q <= p => OpenIn(tags', q)
         /\ \A q \in Nat : Innermost(q) /\ q <= p => InnermostIn(tags', sections', q)
         /\ \A q \in Nat : q > Len(tags) => InnermostIn(tags', sections', q)
<1>1. TagsOK
  BY DEF TagInv, Tidy
<1>2. /\ p \in 0..Len(tags) /\ Len(tags) \in Nat /\ Len(new) \in Nat /\ DOMAIN new = 1..Len(new) /\ DOMAIN tags = 1..Len(tags)
  BY <1>1, HungAre
<1>3. Container \in Nat /\ Container <= Len(tags) /\ \A k \in DOMAIN sections : sections[k].tag \in Nat /\ sections[k].tag <= Container
  BY ContainerIsOpen
<1>4. p = None => \A q \in Nat : q <= p => q = 0
  BY <1>2 DEF None
<1>5. PreorderIn(tags')
  BY <1>1, PreorderStays DEF ReadInv
<1>6. KindsIn(tags)'
  <2>1. \A k \in 1..(Len(new) - 1) : new[k].type \in Holders
    BY <1>2
  <2>2. KindsIn(tags) /\ \A k \in 1..Len(new) : new[k].type # "Span"
    BY <1>2 DEF ReadInv
  <2> QED
    BY <1>1, <2>1, <2>2, KindsStay
<1>7. ASSUME NEW q \in Nat, Open(q), q <= p PROVE OpenIn(tags', q)
  <2>1. q \in Int
    OBVIOUS
  <2> QED
    BY <1>1, <1>7, <2>1, StaysOpen
<1>8. \A k \in DOMAIN sections' : OpenIn(tags', sections'[k].tag)
  <2>1. \A k \in DOMAIN sections : sections[k].tag <= p /\ Open(sections[k].tag)
    BY <1>2, <1>3 DEF ReadInv
  <2> QED
    BY <1>3, <1>7, <2>1
<1>9. ASSUME NEW q \in Nat, Innermost(q), q <= p PROVE InnermostIn(tags', sections', q)
  BY <1>7, <1>9 DEF Innermost, InnermostIn, Open
<1>10. ASSUME NEW q \in Nat, q > Len(tags) PROVE InnermostIn(tags', sections', q)
  <2>1. q \in Int
    OBVIOUS
  <2>2. OpenIn(tags', q)
    BY <1>1, <1>10, <2>1, NewIsOpen
  <2>3. \A k \in DOMAIN sections' : sections'[k].tag < q
    BY <1>2, <1>3, <1>10
  <2> QED
    BY <2>2, <2>3 DEF InnermostIn
<1> QED
  BY <1>5, <1>6, <1>7, <1>8, <1>9, <1>10

(* Nothing is open but the sections.                                       *)
LEMMA ReadClosed ==
  ASSUME PreorderIn(tags'), KindsIn(tags)', \A k \in DOMAIN sections' : OpenIn(tags', sections'[k].tag),
         lists' = << >>, table' = NoTable, diagram'.tag = None \/ InnermostIn(tags', sections', diagram'.tag)
  PROVE  ReadInv'
<1>1. DOMAIN lists' = {}
  OBVIOUS
<1>2. table'.tag = None /\ table'.rows = << >> /\ DOMAIN table'.rows = {}
  BY DEF NoTable
<1>3. ListsRead'
  BY <1>1 DEF ListsRead
<1>4. RowsRead'
  BY <1>2 DEF RowsRead
<1>5. (PreorderIn(tags))' /\ (\A k \in DOMAIN sections : Open(sections[k].tag))'
  BY DEF Open
<1>6. (diagram.tag # None => Innermost(diagram.tag))'
  BY DEF Innermost
<1> QED
  BY <1>2, <1>3, <1>4, <1>5, <1>6 DEF ReadInv

(* An artifact.                                                            *)
LEMMA SkipReads ==
  ASSUME TagInv, ReadInv, SkipArtifact
  PROVE  ReadInv'
<1>1. UNCHANGED <<text, tags, sections, lists, table, diagram>> /\ next' = next + 1
  BY DEF SkipArtifact, Reads
<1>2. next \in Nat
  BY DEF TagInv, Tidy, TagsOK
<1>3. 1..next \subseteq 1..next'
  BY <1>1, <1>2
<1>4. (PreorderIn(tags))' /\ (KindsIn(tags))'
  <2>1. \A n : FirstOfGroup(n)' = FirstOfGroup(n)
    BY <1>1 DEF FirstOfGroup
  <2>2. KindsIn(tags)' <=> KindsIn(tags)
    BY <1>1, <2>1 DEF KindsIn
  <2> QED
    BY <1>1, <2>2 DEF ReadInv
<1>5. ListsRead'
  BY <1>1 DEF ReadInv, ListsRead, Innermost
<1>6. RowsRead'
  <2>1. ASSUME NEW r, RowRead(r)
        PROVE  \E n \in 1..next' : /\ text[n].role = "TD" /\ text[n].group = table.group
                                   /\ text[n].page = r.page /\ text[n].row = r.row
    BY <1>3, <2>1 DEF RowRead
  <2>2. ASSUME NEW k \in DOMAIN table.rows
        PROVE  /\ \E n \in 1..next' : /\ text[n].role = "TD" /\ text[n].group = table.group
                                      /\ text[n].page = table.rows[k].page /\ text[n].row = table.rows[k].row
               /\ table.rows[k].page <= table.page /\ table.tag < table.rows[k].tag
    BY <2>1 DEF ReadInv, RowsRead
  <2>3. /\ \A j, k \in DOMAIN table.rows : j < k =>
              \/ table.rows[j].page < table.rows[k].page
              \/ table.rows[j].page = table.rows[k].page /\ table.rows[j].row < table.rows[k].row
        /\ table.rows # << >> => OpenIn(tags, table.rows[Len(table.rows)].tag)
    BY DEF ReadInv, RowsRead, Open
  <2> QED
    BY <1>1, <2>2, <2>3 DEF RowsRead, RowRead, Open
<1>7. /\ (\A k \in DOMAIN sections : Open(sections[k].tag))'
      /\ (diagram.tag # None => Innermost(diagram.tag))' /\ (table.tag # None => Innermost(table.tag))'
  BY <1>1 DEF ReadInv, Open, Innermost
<1> QED
  BY <1>1, <1>4, <1>5, <1>6, <1>7 DEF ReadInv

LEMMA OneOf == ASSUME NEW a PROVE DOMAIN <<a>> = {1} /\ <<a>>[1] = a /\ Len(<<a>>) = 1
OBVIOUS

(* One tag that is no part of a paragraph.                                 *)
LEMMA ReadOne ==
  ASSUME TagInv, StackedOK, ReadInv, UNCHANGED <<text, sections>>, NEW p, NEW a, Hangs(p, <<a>>), a.type # "Span",
         p = None \/ (Open(p) /\ \E type \in Holders : Points(p, type)), Container <= p
  PROVE  /\ PreorderIn(tags') /\ KindsIn(tags)'
         /\ \A k \in DOMAIN sections' : OpenIn(tags', sections'[k].tag)
         /\ \A q \in Nat : Open(q) /\ q <= p => OpenIn(tags', q)
         /\ \A q \in Nat : Innermost(q) /\ q <= p => InnermostIn(tags', sections', q)
         /\ \A q \in Nat : q > Len(tags) => InnermostIn(tags', sections', q)
<1> DEFINE new == <<a>>
<1>1. Hangs(p, new) /\ (\A k \in DOMAIN new : new[k].type # "Span")
      /\ (\A k \in DOMAIN new : k < Len(new) => new[k].type \in Holders)
  BY OneOf
<1> HIDE DEF new
<1> QED
  BY <1>1, ReadOn

(* A tag and a tag in it.                                                  *)
LEMMA ReadTwo ==
  ASSUME TagInv, StackedOK, ReadInv, UNCHANGED <<text, sections>>, NEW p, NEW a, NEW b, Hangs(p, <<a, b>>),
         a.type \in Holders, b.type # "Span",
         p = None \/ (Open(p) /\ \E type \in Holders : Points(p, type)), Container <= p
  PROVE  /\ PreorderIn(tags') /\ KindsIn(tags)'
         /\ \A k \in DOMAIN sections' : OpenIn(tags', sections'[k].tag)
         /\ \A q \in Nat : Open(q) /\ q <= p => OpenIn(tags', q)
         /\ \A q \in Nat : Innermost(q) /\ q <= p => InnermostIn(tags', sections', q)
         /\ \A q \in Nat : q > Len(tags) => InnermostIn(tags', sections', q)
<1> DEFINE new == <<a, b>>
<1>1. a.type # "Span"
  BY DEF Holders
<1>2. Hangs(p, new) /\ (\A k \in DOMAIN new : new[k].type # "Span")
      /\ (\A k \in DOMAIN new : k < Len(new) => new[k].type \in Holders)
  BY <1>1, PairOf
<1> HIDE DEF new
<1> QED
  BY <1>2, ReadOn

(* The container is a place to add to.                                     *)
LEMMA ContainerHolds ==
  ASSUME TagInv, StackedOK, ReadInv
  PROVE  Container = None \/ (Open(Container) /\ \E type \in Holders : Points(Container, type))
<1>1. "Sect" \in Holders
  BY DEF Holders
<1> QED
  BY <1>1, ContainerIsOpen

(* A label.                                                                *)
LEMMA LabelReads ==
  ASSUME TagInv, StackedOK, ReadInv, TagLabel
  PROVE  ReadInv'
<1>1. Tidy /\ UNCHANGED <<text, sections>> /\ lists' = << >> /\ table' = NoTable
  BY DEF TagInv, TagLabel, EndsLists, EndsTable, Reads
<1>2. Container \in Nat /\ Container <= Len(tags) /\ Len(tags) \in Nat /\ DOMAIN tags = 1..Len(tags)
      /\ \A q \in DOMAIN tags : Innermost(q) => Container < q
  BY ContainerIsOpen DEF TagInv, Tidy, TagsOK
<1>3. "Sect" \in Holders
  BY DEF Holders
<1>4. CASE Points(diagram.tag, "Sect") /\ Hangs(diagram.tag, <<Leaf("P", diagram.tag)>>) /\ UNCHANGED diagram
  <2>1. Leaf("P", diagram.tag).type # "Span"
    BY LeafType
  <2>2. diagram.tag \in DOMAIN tags /\ diagram.tag # None /\ diagram.tag \in Nat /\ diagram.tag <= diagram.tag
    BY <1>2, <1>4 DEF Points, PointsIn, None
  <2>3. Innermost(diagram.tag)
    BY <2>2 DEF ReadInv
  <2>4. Open(diagram.tag) /\ Container <= diagram.tag
    BY <1>2, <2>2, <2>3 DEF Innermost, InnermostIn, Open
  <2> HIDE DEF Innermost
  <2>5. /\ PreorderIn(tags') /\ KindsIn(tags)' /\ \A k \in DOMAIN sections' : OpenIn(tags', sections'[k].tag)
        /\ InnermostIn(tags', sections', diagram.tag)
    BY <1>1, <1>3, <1>4, <2>1, <2>2, <2>3, <2>4, ReadOne
  <2> QED
    BY <1>1, <1>4, <2>5, ReadClosed
<1>5. CASE /\ Hangs(Container, <<Tag("Sect", Container, None, None), Leaf("P", Len(tags) + 1)>>)
           /\ diagram' = [group |-> This.group, parent |-> Container, tag |-> Len(tags) + 1]
  <2> DEFINE a == Tag("Sect", Container, None, None)
             b == Leaf("P", Len(tags) + 1)
  <2>1. a.type \in Holders /\ b.type # "Span"
    BY <1>3, LeafType, TagType
  <2>2. Hangs(Container, <<a, b>>)
    BY <1>5
  <2> HIDE DEF a, b
  <2>3. /\ PreorderIn(tags') /\ KindsIn(tags)' /\ \A k \in DOMAIN sections' : OpenIn(tags', sections'[k].tag)
        /\ \A q \in Nat : q > Len(tags) => InnermostIn(tags', sections', q)
    BY <1>1, <1>2, <2>1, <2>2, ContainerHolds, ReadTwo
  <2>4. diagram'.tag = Len(tags) + 1 /\ Len(tags) + 1 \in Nat /\ Len(tags) + 1 > Len(tags)
    BY <1>2, <1>5
  <2> QED
    BY <1>1, <2>3, <2>4, ReadClosed
<1> QED
  BY <1>1, <1>4, <1>5, LabelHangs

(* A paragraph or a further part of one.                                   *)
LEMMA ParagraphReads ==
  ASSUME TagInv, StackedOK, ReadInv, TagParagraph, step' = "tagging"
  PROVE  ReadInv'
<1>1. Tidy /\ TagsOK /\ UNCHANGED <<text, sections>> /\ lists' = << >> /\ table' = NoTable /\ diagram'.tag = None
  <2>1. step = "tagging" /\ UNCHANGED text
    BY DEF TagParagraph, Reads
  <2>2. UNCHANGED sections /\ lists' = << >> /\ table' = NoTable /\ diagram' = NoDiagram
    BY DEF TagParagraph, Refuse, EndsLists, EndsTable, EndsDiagram
  <2> QED
    BY <2>1, <2>2 DEF TagInv, Tidy, NoDiagram
<1>2. Container \in Nat /\ Container <= Container
  BY ContainerIsOpen
<1>3. CASE Hangs(Container, <<Leaf("P", Container)>>)
  <2>1. Leaf("P", Container).type # "Span"
    BY LeafType
  <2>2. /\ PreorderIn(tags') /\ KindsIn(tags)' /\ \A k \in DOMAIN sections' : OpenIn(tags', sections'[k].tag)
    BY <1>1, <1>2, <1>3, <2>1, ContainerHolds, ReadOne
  <2> QED
    BY <1>1, <2>2, ReadClosed
<1>4. CASE \E p \in Nat : /\ Points(p, "P") /\ tags[p].node = FirstOfGroup(next + 1)
                          /\ Hangs(p, <<Leaf("Span", p)>>)
  <2>1. PICK p \in Nat : Points(p, "P") /\ tags[p].node = FirstOfGroup(next + 1) /\ Hangs(p, <<Leaf("Span", p)>>)
    BY <1>4
  <2> DEFINE a == Leaf("Span", p)
  <2>2. a.type = "Span" /\ a.node = next + 1 /\ a.parent = p
    BY LeafType DEF Leaf, Tag
  <2>3. Hangs(p, <<a>>)
    BY <2>1
  <2> HIDE DEF a
  <2>4. PreorderIn(tags')
    BY <1>1, <2>2, <2>3, PartsDisturbNothing DEF ReadInv
  <2>5. \A k \in DOMAIN sections' : OpenIn(tags', sections'[k].tag)
    BY <1>1, <2>2, <2>3, PartsDisturbNothing DEF ReadInv
  <2>6. KindsIn(tags)'
    <3>1. \A n : FirstOfGroup(n)' = FirstOfGroup(n)
      BY <1>1 DEF FirstOfGroup
    <3>2. \A q, type : PointsIn(tags, q, type) => PointsIn(tags', q, type) /\ tags'[q] = tags[q]
      BY <1>1, <2>3, HungAre DEF PointsIn
    <3>3. ASSUME NEW i \in DOMAIN tags'
          PROVE  IF tags'[i].type = "Span"
                 THEN PointsIn(tags', tags'[i].parent, "P") /\ tags'[tags'[i].parent].node = FirstOfGroup(tags'[i].node)
                 ELSE tags'[i].parent = None \/ \E type \in Holders : PointsIn(tags', tags'[i].parent, type)
      <4>1. CASE i \in DOMAIN tags
        <5>1. tags'[i] = tags[i]
          BY <1>1, <2>3, <4>1, HungAre
        <5>2. CASE tags[i].type = "Span"
          BY <3>2, <4>1, <5>1, <5>2 DEF ReadInv, KindsIn
        <5>3. CASE tags[i].type # "Span"
          BY <3>2, <4>1, <5>1, <5>3 DEF ReadInv, KindsIn
        <5> QED
          BY <5>2, <5>3
      <4>2. CASE i \notin DOMAIN tags
        <5>1. i - Len(tags) \in 1..Len(<<a>>) /\ tags'[i] = <<a>>[i - Len(tags)]
          BY <1>1, <2>3, <4>2, HungAre
        <5>2. tags'[i] = a
          BY <5>1, OneOf
        <5> QED
          BY <2>1, <2>2, <3>2, <5>2 DEF Points
      <4> QED
        BY <4>1, <4>2
    <3> QED
      BY <3>1, <3>3 DEF KindsIn
  <2> QED
    BY <1>1, <2>4, <2>5, <2>6, ReadClosed
<1> QED
  BY <1>1, <1>3, <1>4, ParagraphHangs

(* A heading.                                                              *)
LEMMA HeadingReads ==
  ASSUME TagInv, StackedOK, ReadInv, TagHeading
  PROVE  ReadInv'
<1> DEFINE level == levels[This.level]
<1>1. Tidy /\ TagsOK /\ SectionsOK /\ UNCHANGED text /\ lists' = << >> /\ table' = NoTable /\ diagram'.tag = None
  <2>1. UNCHANGED text /\ lists' = << >> /\ table' = NoTable /\ diagram' = NoDiagram
    BY DEF TagHeading, Reads, EndsLists, EndsTable, EndsDiagram
  <2> QED
    BY <2>1, SMTT(30) DEF TagInv, Tidy, PointersOK, NoDiagram
<1>2. PICK kept \in 0..Len(sections) :
         LET parent == IF kept = 0 THEN None ELSE sections[kept].tag
         IN  /\ \A i \in (kept + 1)..Len(sections) : sections[i].level >= level
             /\ kept > 0 => sections[kept].level < level
             /\ level \in Nat \ {0}
             /\ Hangs(parent, <<Tag("Sect", parent, None, None), Leaf("H", Len(tags) + 1)>>)
             /\ sections' = Append(SubSeq(sections, 1, kept), [level |-> level, tag |-> Len(tags) + 1])
  BY <1>1, HeadingHangs
<1> DEFINE parent == IF kept = 0 THEN None ELSE sections[kept].tag
           a == Tag("Sect", parent, None, None)
           b == Leaf("H", Len(tags) + 1)
           new == <<a, b>>
           rec == [level |-> level, tag |-> Len(tags) + 1]
<1>3. Hangs(parent, new) /\ Len(new) = 2 /\ DOMAIN new = {1, 2} /\ new[1] = a /\ new[2] = b
  BY <1>2, PairOf
<1>4. a.type \in Holders /\ b.type # "Span" /\ a.type # "Span"
  <2>1. a.type = "Sect" /\ b.type = "H"
    BY LeafType, TagType
  <2> QED
    BY <2>1 DEF Holders
<1>5. Len(tags) \in Nat /\ DOMAIN tags = 1..Len(tags) /\ rec.tag = Len(tags) + 1
  BY <1>1 DEF TagsOK
<1>6. /\ Len(sections) \in Nat /\ DOMAIN sections = 1..Len(sections) /\ DOMAIN sections' = 1..(kept + 1)
      /\ sections'[kept + 1] = rec /\ kept \in Nat
      /\ \A k \in 1..kept : k \in DOMAIN sections /\ sections'[k] = sections[k]
      /\ \A k \in DOMAIN sections : sections[k].tag \in Nat
  <2> DEFINE X == [level : Int, tag : Nat]
  <2>1. sections \in Seq(X) /\ rec \in X /\ sections' = Append(SubSeq(sections, 1, kept), rec)
    BY <1>1, <1>2, <1>5 DEF SectionsOK
  <2>2. \A s \in X : s.tag \in Nat
    OBVIOUS
  <2> HIDE DEF X, rec
  <2>3. Len(sections) \in Nat /\ DOMAIN sections = 1..Len(sections) /\ \A k \in DOMAIN sections : sections[k] \in X
    BY <2>1
  <2>4. kept \in Nat /\ kept <= Len(sections)
    BY <2>3
  <2> DEFINE above == SubSeq(sections, 1, kept)
  <2>5. above \in Seq(X) /\ Len(above) = kept /\ \A k \in 1..kept : above[k] = sections[k]
    BY <2>1, <2>4
  <2> HIDE DEF above
  <2>6. /\ DOMAIN Append(above, rec) = 1..(kept + 1) /\ Append(above, rec)[kept + 1] = rec
        /\ \A k \in 1..kept : Append(above, rec)[k] = above[k]
    BY <2>1, <2>4, <2>5
  <2>7. sections' = Append(above, rec)
    BY <2>1 DEF above
  <2> QED
    BY <2>2, <2>3, <2>4, <2>5, <2>6, <2>7
<1> HIDE DEF a, b, new, rec
<1>7. parent = None \/ (Open(parent) /\ \E type \in Holders : Points(parent, type))
  <2>1. CASE kept # 0
    <3>1. kept \in DOMAIN sections /\ parent = sections[kept].tag
      BY <1>6, <2>1
    <3>2. Open(parent) /\ Points(parent, "Sect")
      BY <1>1, <3>1 DEF ReadInv, SectionsOK
    <3> QED
      BY <3>2 DEF Holders
  <2> QED
    BY <2>1
<1>8. PreorderIn(tags')
  <2>1. parent = None \/ Open(parent)
    BY <1>7
  <2> HIDE DEF parent
  <2> QED
    BY <1>1, <1>3, <2>1, PreorderStays DEF ReadInv
<1>9. KindsIn(tags)'
  <2>1. /\ \A k \in 1..Len(new) : new[k].type # "Span"
        /\ \A k \in 1..(Len(new) - 1) : new[k].type \in Holders
    BY <1>3, <1>4
  <2>2. parent = None \/ \E type \in Holders : Points(parent, type)
    BY <1>7
  <2> HIDE DEF parent
  <2> QED
    BY <1>1, <1>3, <2>1, <2>2, KindsStay DEF ReadInv
<1>10. \A k \in DOMAIN sections' : OpenIn(tags', sections'[k].tag)
  <2> SUFFICES ASSUME NEW k \in 1..(kept + 1) PROVE OpenIn(tags', sections'[k].tag)
    BY <1>6
  <2>1. CASE k = kept + 1
    <3> DEFINE q == Len(tags) + 1
    <3>1. q \in Int /\ q > Len(tags) /\ sections'[k].tag = q
      BY <1>5, <1>6, <2>1
    <3> HIDE DEF q, parent
    <3> QED
      BY <1>1, <1>3, <3>1, NewIsOpen
  <2>2. CASE k # kept + 1
    <3>1. k \in 1..kept /\ kept # 0 /\ kept \in DOMAIN sections /\ k \in DOMAIN sections
      BY <1>6, <2>2
    <3> DEFINE q == sections[k].tag
    <3>2. q \in Int /\ sections'[k].tag = q /\ Open(q)
      BY <1>6, <3>1 DEF ReadInv
    <3>3. q <= parent
      <4>1. k = kept \/ k < kept
        BY <3>1
      <4>2. k < kept => sections[k].tag < sections[kept].tag
        BY <3>1 DEF StackedOK
      <4>3. sections[kept].tag \in Nat
        BY <1>6, <3>1
      <4> QED
        BY <3>1, <3>2, <4>1, <4>2, <4>3
    <3> HIDE DEF q, parent
    <3> QED
      BY <1>1, <1>3, <3>2, <3>3, StaysOpen
  <2> QED
    BY <2>1, <2>2
<1> QED
  BY <1>1, <1>8, <1>9, <1>10, ReadClosed

(* Only the table is open, besides the sections.                           *)
LEMMA ReadTable ==
  ASSUME PreorderIn(tags'), KindsIn(tags)', \A k \in DOMAIN sections' : OpenIn(tags', sections'[k].tag),
         lists' = << >>, diagram'.tag = None, InnermostIn(tags', sections', table'.tag), RowsRead'
  PROVE  ReadInv'
<1>1. DOMAIN lists' = {}
  OBVIOUS
<1>2. ListsRead'
  BY <1>1 DEF ListsRead
<1>3. (PreorderIn(tags))' /\ (\A k \in DOMAIN sections : Open(sections[k].tag))'
  BY DEF Open
<1>4. (table.tag # None => Innermost(table.tag))'
  BY DEF Innermost
<1> QED
  BY <1>2, <1>3, <1>4 DEF ReadInv

(* A table that is one piece.                                              *)
LEMMA TableReads ==
  ASSUME TagInv, StackedOK, ReadInv, TagTable
  PROVE  ReadInv'
<1> DEFINE a == Tag("Table", Container, next + 1, FreshName(This.group))
<1>1. Tidy /\ TablesOK /\ UNCHANGED <<text, sections>> /\ lists' = << >> /\ diagram'.tag = None
  BY DEF TagInv, TagTable, Reads, EndsLists, EndsDiagram, NoDiagram
<1>2. Hangs(Container, <<a>>) /\ table' = NewTable(Len(tags) + 1, This.group)
  BY <1>1, TableHangs
<1>3. a.type # "Span"
  BY TagType
<1> HIDE DEF a
<1>4. Container \in Nat /\ Container <= Container /\ Len(tags) + 1 \in Nat /\ Len(tags) + 1 > Len(tags)
  BY ContainerIsOpen DEF TagInv, Tidy, TagsOK
<1>5. table'.tag = Len(tags) + 1 /\ table'.rows = << >> /\ DOMAIN table'.rows = {}
  BY <1>2 DEF NewTable, NoTable
<1>6. /\ PreorderIn(tags') /\ KindsIn(tags)' /\ \A k \in DOMAIN sections' : OpenIn(tags', sections'[k].tag)
      /\ \A q \in Nat : q > Len(tags) => InnermostIn(tags', sections', q)
  BY <1>1, <1>2, <1>3, <1>4, ContainerHolds, ReadOne
<1>7. RowsRead'
  BY <1>5 DEF RowsRead
<1> QED
  BY <1>1, <1>4, <1>5, <1>6, <1>7, ReadTable

LEMMA ListsAre ==
  ASSUME ListsOK
  PROVE  /\ Len(lists) \in Nat /\ DOMAIN lists = 1..Len(lists)
         /\ \A k \in DOMAIN lists : lists[k] \in ListSet /\ lists[k].tag \in Nat /\ lists[k].last \in Nat
<1> DEFINE X == ListSet
<1>1. lists \in Seq(X) /\ \A l \in X : l.tag \in Nat /\ l.last \in Nat
  BY DEF ListsOK, ListSet
<1> HIDE DEF X
<1>2. Len(lists) \in Nat /\ DOMAIN lists = 1..Len(lists) /\ \A k \in DOMAIN lists : lists[k] \in X
  BY <1>1
<1> QED
  BY <1>1, <1>2 DEF X

(* What stands in a list ends before the last item of the innermost.       *)
LEMMA LastItem ==
  ASSUME ListsOK, ListsRead, NEW k \in DOMAIN lists
  PROVE  lists[k].tag < lists[Len(lists)].last /\ lists[k].last <= lists[Len(lists)].last
<1> DEFINE n == Len(lists)
<1>1. n \in DOMAIN lists /\ k <= n /\ k \in Nat /\ n \in Nat
  BY ListsAre
<1>2. /\ lists[k].tag \in Nat /\ lists[k].last \in Nat /\ lists[n].last \in Nat /\ lists[n].tag \in Nat
      /\ lists[k].tag < lists[k].last /\ lists[n].tag < lists[n].last
  BY <1>1, ListsAre DEF ListsRead
<1>3. k < n => lists[k].last < lists[n].tag
  BY <1>1 DEF ListsRead
<1>4. k = n \/ k < n
  BY <1>1
<1> QED
  BY <1>2, <1>3, <1>4, SMTT(30)

(* A further paragraph of an item.                                         *)
LEMMA ContinueReads ==
  ASSUME TagInv, StackedOK, ReadInv, ContinueItem, step' = "tagging"
  PROVE  ReadInv'
<1>1. Tidy /\ TagsOK /\ ListsOK /\ OpenTableOK /\ TextOK(text) /\ next < Len(text)
      /\ UNCHANGED text /\ This.role = "LI" /\ This.of # None
  BY DEF TagInv, Tidy, PointersOK, ContinueItem, Reads
<1>2. lists # << >> /\ UNCHANGED <<sections, lists, table>> /\ diagram' = NoDiagram
      /\ \E q \in Nat : Points(q, "LI") /\ tags[q].node = This.of /\ Hangs(q, <<Leaf("P", q)>>)
  BY <1>1, ContinueHangs
<1>3. PICK p \in Nat : Points(p, "LI") /\ tags[p].node = This.of /\ Hangs(p, <<Leaf("P", p)>>)
  BY <1>2
<1>4. /\ Len(lists) \in DOMAIN lists /\ lists[Len(lists)].last \in Nat /\ Points(lists[Len(lists)].last, "LI")
      /\ \A k \in DOMAIN lists : lists[k].tag \in Nat /\ lists[k].last \in Nat
  BY <1>1, <1>2, ListsAre DEF ListsOK
<1>5. ListsRead /\ RowsRead
  BY DEF ReadInv
<1> DEFINE last == lists[Len(lists)].last
<1>6. p = last
  <2>1. p <= last /\ p \in DOMAIN tags /\ last \in DOMAIN tags /\ tags[p].type = "LI" /\ tags[last].type = "LI"
    BY <1>2, <1>3, <1>4, <1>5 DEF ListsRead, Points, PointsIn
  <2>2. next + 1 \in DOMAIN text /\ next \in Nat /\ This.of \in Nat
    BY <1>1, ThisIs DEF TagsOK, PieceOK
  <2>3. tags[last].node # None /\ tags[last].node \in 1..next /\ LeafFits(tags[last].node, "LI")
    <3>1. "LI" \notin Groupings
      BY SMTT(30) DEF Groupings
    <3> QED
      BY <1>1, <2>1, <3>1, SMTT(30) DEF TagsOK
  <2>4. text[tags[last].node].role = "LI" /\ text[tags[last].node].of = None
    BY <2>3 DEF LeafFits
  <2>5. ~(p < last)
    <3> SUFFICES ASSUME p < last PROVE FALSE
      OBVIOUS
    <3>1. This.of < tags[last].node
      BY <1>1, <1>3, <2>1, <2>3 DEF TagsOK
    <3> DEFINE m == tags[last].node
               j == next + 1
    <3>2. m \in (text[j].of + 1)..(j - 1)
      BY <2>2, <2>3, <3>1 DEF This
    <3>3. text[j].role = "LI" /\ text[j].of # None /\ j \in DOMAIN text
      BY <1>1, <2>2 DEF This
    <3>4. ContinuedAtOnce(text)
      BY <1>1 DEF TextOK
    <3> HIDE DEF j
    <3>5. ~(text[m].role = "LI" /\ text[m].of = None)
      BY <3>2, <3>3, <3>4 DEF ContinuedAtOnce
    <3> QED
      BY <2>4, <3>5
  <2>6. last \in Nat
    BY <1>4
  <2> QED
    BY <2>1, <2>5, <2>6
<1> DEFINE a == Leaf("P", p)
<1>7. a.type = "P" /\ Hangs(p, <<a>>) /\ "LI" \in Holders
  BY <1>3, LeafType DEF Holders
<1> HIDE DEF a, last
<1>8. Innermost(p) /\ p \in DOMAIN tags
  BY <1>3, <1>4, <1>5, <1>6 DEF ListsRead, last, Points, PointsIn
<1>9. Open(p) /\ Container <= p
  <2>1. Container < p /\ Container \in Nat
    BY <1>8, ContainerIsOpen
  <2> QED
    BY <1>8, <2>1 DEF Innermost, InnermostIn, Open
<1>10. /\ PreorderIn(tags') /\ KindsIn(tags)' /\ \A k \in DOMAIN sections' : OpenIn(tags', sections'[k].tag)
       /\ \A q \in Nat : Innermost(q) /\ q <= p => InnermostIn(tags', sections', q)
  <2>1. \E type \in Holders : Points(p, type)
    BY <1>3, <1>7
  <2>2. a.type # "Span"
    BY <1>7
  <2> HIDE DEF Innermost
  <2> QED
    BY <1>1, <1>2, <1>7, <1>9, <2>1, <2>2, ReadOne
<1>11. ListsRead'
  <2>1. ASSUME NEW k \in DOMAIN lists
        PROVE  InnermostIn(tags', sections', lists[k].tag) /\ InnermostIn(tags', sections', lists[k].last)
    <3>1. lists[k].tag < last /\ lists[k].last <= last /\ Innermost(lists[k].tag) /\ Innermost(lists[k].last)
      BY <1>1, <1>5, LastItem DEF ListsRead, last
    <3>2. lists[k].tag \in Nat /\ lists[k].last \in Nat /\ lists[k].tag <= p /\ lists[k].last <= p
      BY <1>4, <1>6, <3>1
    <3> HIDE DEF Innermost
    <3> QED
      BY <1>10, <3>1, <3>2
  <2>2. ASSUME NEW i \in DOMAIN tags', tags'[i].type = "LI" PROVE i <= last
    <3>1. i \in DOMAIN tags /\ tags'[i] = tags[i]
      <4>1. CASE i \in DOMAIN tags
        BY <1>1, <1>7, <4>1, HungAre
      <4>2. CASE i \notin DOMAIN tags
        <5>1. i - Len(tags) \in 1..Len(<<a>>) /\ tags'[i] = <<a>>[i - Len(tags)]
          BY <1>1, <1>7, <4>2, HungAre
        <5>2. tags'[i] = a
          BY <5>1, OneOf
        <5> QED
          BY <1>7, <2>2, <5>2
      <4> QED
        BY <4>1, <4>2
    <3> QED
      BY <1>2, <1>5, <2>2, <3>1 DEF ListsRead, last
  <2> QED
    BY <1>2, <1>5, <2>1, <2>2 DEF ListsRead, Innermost, last
<1>12. table.tag = None /\ table' = table /\ DOMAIN table.rows = {} /\ table.rows = << >>
  <2>1. table.tag = None
    BY <1>2 DEF ReadInv
  <2>2. table = NoTable
    BY <1>1, <2>1 DEF OpenTableOK
  <2> QED
    BY <1>2, <2>1, <2>2 DEF NoTable
<1>13. RowsRead'
  BY <1>12 DEF RowsRead
<1>14. diagram'.tag = None
  BY <1>2 DEF NoDiagram
<1>15. (PreorderIn(tags))' /\ (\A k \in DOMAIN sections : Open(sections[k].tag))'
  BY <1>10 DEF Open
<1> QED
  BY <1>10, <1>11, <1>12, <1>13, <1>14, <1>15 DEF ReadInv

(* The lists after an item.                                                *)
LEMMA ListsReadOn ==
  ASSUME ListsOK, ListsRead, NEW kept \in 0..Len(lists), NEW rec \in ListSet,
         lists' = Append(SubSeq(lists, 1, kept), rec),
         \A k \in 1..kept : /\ InnermostIn(tags', sections', lists[k].tag) /\ InnermostIn(tags', sections', lists[k].last)
                            /\ lists[k].last < rec.tag,
         InnermostIn(tags', sections', rec.tag), InnermostIn(tags', sections', rec.last), rec.tag < rec.last,
         \A i \in DOMAIN tags' : i <= rec.last
  PROVE  ListsRead' /\ lists' # << >>
<1> DEFINE X == ListSet
           above == SubSeq(lists, 1, kept)
<1>1. lists \in Seq(X) /\ rec \in X
  BY DEF ListsOK
<1> HIDE DEF X
<1>2. kept \in Nat /\ kept <= Len(lists) /\ Len(lists) \in Nat
  BY <1>1
<1>3. above \in Seq(X) /\ Len(above) = kept /\ \A k \in 1..kept : above[k] = lists[k] /\ k \in DOMAIN lists
  BY <1>1, <1>2
<1>4. lists' = Append(above, rec)
  OBVIOUS
<1> HIDE DEF above
<1>5. /\ Len(lists') = kept + 1 /\ DOMAIN lists' = 1..(kept + 1) /\ lists'[kept + 1] = rec
      /\ \A k \in 1..kept : lists'[k] = lists[k] /\ k \in DOMAIN lists
  BY <1>1, <1>2, <1>3, <1>4
<1>6. \A k \in DOMAIN lists' : k = kept + 1 \/ k \in 1..kept
  BY <1>2, <1>5
<1>7. \A k \in DOMAIN lists' : /\ InnermostIn(tags', sections', lists'[k].tag) /\ InnermostIn(tags', sections', lists'[k].last)
                               /\ lists'[k].tag < lists'[k].last
  BY <1>5, <1>6 DEF ListsRead
<1>8. ASSUME NEW j \in DOMAIN lists', NEW k \in DOMAIN lists', j < k PROVE lists'[j].last < lists'[k].tag
  <2>1. j \in 1..kept
    BY <1>2, <1>5, <1>8
  <2> QED
    BY <1>5, <1>6, <1>8, <2>1 DEF ListsRead
<1>9. lists' # << >>
  BY <1>2, <1>5
<1> QED
  BY <1>5, <1>7, <1>8, <1>9 DEF ListsRead, Innermost

(* Only lists are open, besides the sections.                              *)
LEMMA ReadLists ==
  ASSUME PreorderIn(tags'), KindsIn(tags)', \A k \in DOMAIN sections' : OpenIn(tags', sections'[k].tag),
         ListsRead', table' = NoTable, diagram'.tag = None
  PROVE  ReadInv'
<1>1. table'.tag = None /\ table'.rows = << >> /\ DOMAIN table'.rows = {}
  BY DEF NoTable
<1>2. RowsRead'
  BY <1>1 DEF RowsRead
<1>3. (PreorderIn(tags))' /\ (\A k \in DOMAIN sections : Open(sections[k].tag))'
  BY DEF Open
<1> QED
  BY <1>1, <1>2, <1>3 DEF ReadInv

(* An item.                                                                *)
LEMMA ItemReads ==
  ASSUME TagInv, StackedOK, ReadInv, TagItem, step' = "tagging"
  PROVE  ReadInv'
<1>1. /\ Tidy /\ TextOK(text) /\ TagsOK /\ ListsOK /\ ListsRead /\ UNCHANGED text
      /\ step = "tagging" /\ next < Len(text)
  BY ZenonT(40) DEF TagInv, Tidy, PointersOK, TagItem, Reads, ReadInv
<1>2. UNCHANGED sections /\ table' = NoTable /\ diagram'.tag = None
  <2>1. UNCHANGED sections /\ table' = NoTable /\ diagram' = NoDiagram
    BY <1>1, ZenonT(40) DEF TagItem, Refuse, EndsTable, EndsDiagram
  <2> QED
    BY <2>1, SMTT(30) DEF NoDiagram
<1>3. This.group \in {text[n].group : n \in DOMAIN text}
  BY <1>1, ThisIs DEF This
<1>4. /\ Len(lists) \in Nat /\ DOMAIN lists = 1..Len(lists)
      /\ \A k \in DOMAIN lists : lists[k] \in ListSet /\ lists[k].tag \in Nat /\ lists[k].last \in Nat
  BY <1>1, ListsAre
<1>5. Len(tags) \in Nat /\ DOMAIN tags = 1..Len(tags)
  BY <1>1, ThisIs
<1>6. "L" \in Holders /\ "LI" \in Holders
  BY DEF Holders
<1>7. /\ Container \in Nat /\ Container <= Container /\ \A q \in DOMAIN tags : Innermost(q) => Container < q
  BY ContainerIsOpen
<1>8. \A k \in DOMAIN lists : /\ lists[k].tag \in DOMAIN tags /\ lists[k].last \in DOMAIN tags
                              /\ Points(lists[k].tag, "L") /\ Points(lists[k].last, "LI")
                              /\ Innermost(lists[k].tag) /\ Innermost(lists[k].last)
  BY <1>1 DEF ListsOK, Points, PointsIn, ListsRead
<1>9. ASSUME NEW p \in Nat, NEW q, NEW kept \in 0..Len(lists), NEW group \in {text[n].group : n \in DOMAIN text},
             p = None \/ (Open(p) /\ \E type \in Holders : Points(p, type)), Container <= p,
             \A k \in 1..kept : lists[k].tag <= p /\ lists[k].last <= p,
             Hangs(p, <<Tag("L", p, None, None), Leaf("LI", q)>>),
             lists' = Append(SubSeq(lists, 1, kept), [level |-> kept + 1, tag |-> Len(tags) + 1,
                                                      last |-> Len(tags) + 2, group |-> group])
      PROVE  ReadInv'
  <2> DEFINE a == Tag("L", p, None, None)
             b == Leaf("LI", q)
             rec == [level |-> kept + 1, tag |-> Len(tags) + 1, last |-> Len(tags) + 2, group |-> group]
  <2>1. a.type \in Holders /\ b.type # "Span"
    BY <1>6, LeafType, TagType
  <2>2. Hangs(p, <<a, b>>) /\ Len(<<a, b>>) = 2
    BY <1>9
  <2>3. rec \in ListSet /\ rec.tag = Len(tags) + 1 /\ rec.last = Len(tags) + 2
    BY <1>4, <1>5 DEF ListSet
  <2>4. lists' = Append(SubSeq(lists, 1, kept), rec)
    BY <1>9
  <2> HIDE DEF a, b, rec, Innermost
  <2>5. /\ PreorderIn(tags') /\ KindsIn(tags)' /\ \A k \in DOMAIN sections' : OpenIn(tags', sections'[k].tag)
        /\ \A r \in Nat : Innermost(r) /\ r <= p => InnermostIn(tags', sections', r)
        /\ \A r \in Nat : r > Len(tags) => InnermostIn(tags', sections', r)
    BY <1>1, <1>2, <1>9, <2>1, <2>2, ReadTwo
  <2>6. ASSUME NEW k \in 1..kept
        PROVE  /\ InnermostIn(tags', sections', lists[k].tag) /\ InnermostIn(tags', sections', lists[k].last)
               /\ lists[k].last < rec.tag
    <3>1. k \in DOMAIN lists
      BY <1>4
    <3>2. /\ lists[k].tag \in Nat /\ lists[k].last \in Nat /\ lists[k].tag <= p /\ lists[k].last <= p
          /\ Innermost(lists[k].tag) /\ Innermost(lists[k].last) /\ lists[k].last \in DOMAIN tags
      BY <1>4, <1>8, <1>9, <3>1
    <3>3. InnermostIn(tags', sections', lists[k].tag) /\ InnermostIn(tags', sections', lists[k].last)
      BY <2>5, <3>2
    <3>4. lists[k].last < rec.tag
      BY <1>5, <2>3, <3>2
    <3> QED
      BY <3>3, <3>4
  <2>7. /\ InnermostIn(tags', sections', rec.tag) /\ InnermostIn(tags', sections', rec.last) /\ rec.tag < rec.last
    <3>1. rec.tag \in Nat /\ rec.last \in Nat /\ rec.tag > Len(tags) /\ rec.last > Len(tags) /\ rec.tag < rec.last
      BY <1>5, <2>3
    <3> QED
      BY <2>5, <3>1
  <2>8. \A i \in DOMAIN tags' : i <= rec.last
    <3> DEFINE new == <<a, b>>
    <3>1. Hangs(p, new) /\ Len(new) = 2
      BY <2>2
    <3> HIDE DEF new
    <3>2. DOMAIN tags' = 1..(Len(tags) + Len(new))
      BY <1>1, <3>1, HungAre
    <3> QED
      BY <1>5, <2>3, <3>1, <3>2
  <2>9. ListsRead'
    BY <1>1, <2>3, <2>4, <2>6, <2>7, <2>8, ListsReadOn
  <2> QED
    BY <1>2, <2>5, <2>9, ReadLists
<1>10. CASE /\ Hangs(Container, <<Tag("L", Container, None, None), Leaf("LI", Len(tags) + 1)>>)
            /\ lists' = <<[level |-> 1, tag |-> Len(tags) + 1, last |-> Len(tags) + 2, group |-> This.group]>>
  <2> DEFINE rec == [level |-> 0 + 1, tag |-> Len(tags) + 1, last |-> Len(tags) + 2, group |-> This.group]
  <2>1. lists' = <<rec>>
    BY <1>10
  <2> HIDE DEF rec
  <2>2. SubSeq(lists, 1, 0) = << >> /\ Append(<< >>, rec) = <<rec>>
    <3> DEFINE X == ListSet
    <3>1. lists \in Seq(X)
      BY <1>1 DEF ListsOK
    <3> HIDE DEF X
    <3> QED
      BY <3>1
  <2>3. lists' = Append(SubSeq(lists, 1, 0), rec) /\ 0 \in 0..Len(lists) /\ 1..0 = {}
    BY <1>4, <2>1, <2>2
  <2> DEFINE none == 0
  <2>4. \A k \in 1..none : lists[k].tag <= Container /\ lists[k].last <= Container
    BY <2>3
  <2> QED
    BY <1>3, <1>7, <1>9, <1>10, <2>3, <2>4, ContainerHolds DEF rec
<1>11. CASE /\ lists # << >>
            /\ LET top == lists[Len(lists)]
               IN  /\ Hangs(top.last, <<Tag("L", top.last, None, None), Leaf("LI", Len(tags) + 1)>>)
                   /\ lists' = Append(lists, [level |-> Len(lists) + 1, tag |-> Len(tags) + 1,
                                              last |-> Len(tags) + 2, group |-> top.group])
  <2> DEFINE top == lists[Len(lists)]
             rec == [level |-> Len(lists) + 1, tag |-> Len(tags) + 1, last |-> Len(tags) + 2, group |-> top.group]
  <2>1. SubSeq(lists, 1, Len(lists)) = lists
    <3> DEFINE X == ListSet
    <3>1. lists \in Seq(X)
      BY <1>1 DEF ListsOK
    <3> HIDE DEF X
    <3> QED
      BY <3>1
  <2>2. Len(lists) \in DOMAIN lists /\ Len(lists) \in 0..Len(lists)
    BY <1>4, <1>11
  <2>3. top.group \in {text[n].group : n \in DOMAIN text}
    BY <1>4, <2>2 DEF ListSet
  <2>4. /\ Hangs(top.last, <<Tag("L", top.last, None, None), Leaf("LI", Len(tags) + 1)>>)
        /\ lists' = Append(SubSeq(lists, 1, Len(lists)), rec)
    BY <1>11, <2>1
  <2>5. /\ top.last \in Nat /\ Points(top.last, "LI") /\ Innermost(top.last) /\ top.last \in DOMAIN tags
    BY <1>4, <1>8, <2>2
  <2>6. Open(top.last) /\ Container <= top.last
    <3>1. Container < top.last
      BY <1>7, <2>5
    <3> HIDE DEF top
    <3> QED
      BY <1>7, <2>5, <3>1 DEF Innermost, InnermostIn, Open
  <2>7. \A k \in 1..Len(lists) : lists[k].tag <= top.last /\ lists[k].last <= top.last
    <3> TAKE k \in 1..Len(lists)
    <3>1. lists[k].tag < top.last /\ lists[k].last <= top.last /\ lists[k].tag \in Nat
      BY <1>1, <1>4, LastItem
    <3> HIDE DEF top
    <3> QED
      BY <2>5, <3>1
  <2>8. top.last = None \/ (Open(top.last) /\ \E type \in Holders : Points(top.last, type))
    BY <1>6, <2>5, <2>6
  <2> DEFINE all == Len(lists)
  <2>9. /\ all \in 0..Len(lists) /\ lists' = Append(SubSeq(lists, 1, all), [level |-> all + 1, tag |-> Len(tags) + 1,
                                                      last |-> Len(tags) + 2, group |-> top.group])
        /\ \A k \in 1..all : lists[k].tag <= top.last /\ lists[k].last <= top.last
    BY <2>2, <2>4, <2>7
  <2> HIDE DEF top, all
  <2> QED
    BY <1>9, <2>3, <2>4, <2>5, <2>6, <2>8, <2>9
<1>12. ASSUME NEW k \in DOMAIN lists,
              Hangs(lists[k].tag, <<Leaf("LI", lists[k].tag)>>),
              lists' = Append(SubSeq(lists, 1, k - 1),
                              [level |-> k, tag |-> lists[k].tag, last |-> Len(tags) + 1, group |-> lists[k].group])
       PROVE  ReadInv'
  <2> DEFINE p == lists[k].tag
             b == Leaf("LI", p)
             rec == [level |-> k, tag |-> p, last |-> Len(tags) + 1, group |-> lists[k].group]
             kept == k - 1
  <2>1. b.type # "Span" /\ Hangs(p, <<b>>) /\ Len(<<b>>) = 1
    BY <1>12, LeafType
  <2>2. /\ rec \in ListSet /\ rec.tag = p /\ rec.last = Len(tags) + 1 /\ kept \in 0..Len(lists)
        /\ lists' = Append(SubSeq(lists, 1, kept), rec) /\ p \in Nat
    BY <1>4, <1>5, <1>12 DEF ListSet
  <2>3. p \in DOMAIN tags /\ Points(p, "L") /\ Innermost(p)
    BY <1>8
  <2>4. \A j \in 1..kept : j \in DOMAIN lists /\ j < k
    BY <1>4
  <2>5. \A j \in 1..kept : lists[j].last < p
    BY <1>1, <2>4 DEF ListsRead
  <2> HIDE DEF p, b, rec, kept
  <2>6. Open(p) /\ Container <= p
    <3>1. Container < p
      BY <1>7, <2>3
    <3> QED
      BY <1>7, <2>2, <2>3, <3>1 DEF Innermost, InnermostIn, Open
  <2> HIDE DEF Innermost
  <2>7. /\ PreorderIn(tags') /\ KindsIn(tags)' /\ \A j \in DOMAIN sections' : OpenIn(tags', sections'[j].tag)
        /\ \A r \in Nat : Innermost(r) /\ r <= p => InnermostIn(tags', sections', r)
        /\ \A r \in Nat : r > Len(tags) => InnermostIn(tags', sections', r)
    BY <1>1, <1>2, <1>6, <2>1, <2>3, <2>6, ReadOne
  <2>8. ASSUME NEW j \in 1..kept
        PROVE  /\ InnermostIn(tags', sections', lists[j].tag) /\ InnermostIn(tags', sections', lists[j].last)
               /\ lists[j].last < rec.tag
    <3>1. /\ lists[j].tag \in Nat /\ lists[j].last \in Nat /\ lists[j].last < p /\ lists[j].tag < lists[j].last
          /\ Innermost(lists[j].tag) /\ Innermost(lists[j].last)
      BY <1>1, <1>4, <1>8, <2>4, <2>5 DEF ListsRead
    <3>2. lists[j].tag <= p /\ lists[j].last <= p
      BY <2>2, <3>1, SMTT(30)
    <3> QED
      BY <2>2, <2>7, <3>1, <3>2
  <2>9. /\ InnermostIn(tags', sections', rec.tag) /\ InnermostIn(tags', sections', rec.last) /\ rec.tag < rec.last
    <3>1. rec.last \in Nat /\ rec.last > Len(tags) /\ rec.tag < rec.last /\ rec.tag = p /\ p <= p
      BY <1>5, <2>2, <2>3
    <3> QED
      BY <2>2, <2>3, <2>7, <3>1
  <2>10. \A i \in DOMAIN tags' : i <= rec.last
    <3>1. DOMAIN tags' = 1..(Len(tags) + 1)
      BY <1>1, <2>1, HungAre
    <3> QED
      BY <1>5, <2>2, <3>1
  <2>11. ListsRead'
    BY <1>1, <2>2, <2>8, <2>9, <2>10, ListsReadOn
  <2> QED
    BY <1>2, <2>7, <2>11, ReadLists
<1> QED
  BY <1>1, <1>10, <1>11, <1>12, ItemHangs, ZenonT(40)

LEMMA RowsAre ==
  ASSUME OpenTableOK
  PROVE  /\ Len(table.rows) \in Nat /\ DOMAIN table.rows = 1..Len(table.rows) /\ table.tag \in Nat /\ table.page \in Int
         /\ table.rows \in Seq(RowSet)
         /\ \A k \in DOMAIN table.rows :
               /\ table.rows[k].page \in Int /\ table.rows[k].row \in Int /\ table.rows[k].tag \in Nat
               /\ Points(table.rows[k].tag, "TR")
<1> DEFINE X == RowSet
<1>1. /\ table.rows \in Seq(X) /\ table.tag \in Nat /\ table.page \in Int
      /\ \A k \in DOMAIN table.rows : Points(table.rows[k].tag, "TR")
  BY DEF OpenTableOK
<1>2. \A r \in X : r.page \in Int /\ r.row \in Int /\ r.tag \in Nat
  BY DEF RowSet
<1> HIDE DEF X
<1>3. Len(table.rows) \in Nat /\ DOMAIN table.rows = 1..Len(table.rows) /\ \A k \in DOMAIN table.rows : table.rows[k] \in X
  BY <1>1
<1> QED
  BY <1>1, <1>2, <1>3 DEF X

(* A cell that does not go back comes at the last row or after it.         *)
LEMMA RowsBefore ==
  ASSUME TextOK(text), TagsOK, OpenTableOK, RowsRead, next < Len(text), This.role = "TD", table.group = This.group,
         table.page = None \/ table.page <= This.page,
         NEW k \in DOMAIN table.rows
  PROVE  /\ table.rows[k].page <= This.page
         /\ table.rows[k].page = This.page => table.rows[k].row <= This.row
<1> DEFINE r == table.rows[k]
<1>1. /\ r.page \in Int /\ r.row \in Int /\ table.page \in Int
  BY RowsAre
<1>2. RowRead(r) /\ r.page <= table.page
  BY DEF RowsRead
<1>3. next + 1 \in DOMAIN text /\ next \in Nat /\ PieceOK(This) /\ This.page \in Int
  BY ThisIs DEF TagsOK, PieceOK
<1>4. PICK n \in 1..next : /\ text[n].role = "TD" /\ text[n].group = table.group
                           /\ text[n].page = r.page /\ text[n].row = r.row
  BY <1>2 DEF RowRead
<1>5. r.page >= 1
  <2>1. n \in DOMAIN text
    BY <1>3, PiecesOfAText
  <2>2. PieceOK(text[n])
    BY <2>1, PiecesOfAText
  <2> QED
    BY <1>4, <2>2 DEF PieceOK
<1> HIDE DEF r
<1>6. r.page <= This.page
  BY <1>1, <1>2, <1>3, <1>5 DEF None
<1>7. ASSUME r.page = This.page PROVE r.row <= This.row
  <2>1. PICK j \in DOMAIN text : j = next + 1
    BY <1>3
  <2>2. n \in 1..(j - 1)
    BY <1>3, <2>1
  <2>3. /\ text[n].role = "TD" /\ text[j].role = "TD" /\ text[n].group = text[j].group /\ text[n].page = text[j].page
    BY <1>4, <1>7, <2>1 DEF This
  <2>4. ByRows(text)
    BY DEF TextOK
  <2>5. text[n].row <= text[j].row
    BY <2>2, <2>3, <2>4 DEF ByRows
  <2> QED
    BY <1>4, <2>1, <2>5 DEF This
<1> QED
  BY <1>6, <1>7 DEF r

(* A cell that begins a table.                                             *)
LEMMA FirstCellReads ==
  ASSUME TagInv, StackedOK, ReadInv, next < Len(text), This.role = "TD", UNCHANGED <<text, sections>>, next' = next + 1,
         lists' = << >>, diagram'.tag = None, NEW name,
         Hangs(Container, <<Tag("Table", Container, None, name),
                            Tag("TR", Len(tags) + 1, None, This.row), Leaf("TD", Len(tags) + 2)>>),
         table' = [tag |-> Len(tags) + 1, group |-> This.group, page |-> This.page, offset |-> 0, many |-> FALSE,
                   rows |-> <<[page |-> This.page, row |-> This.row, number |-> This.row, tag |-> Len(tags) + 2]>>]
  PROVE  ReadInv'
<1> DEFINE a == Tag("Table", Container, None, name)
           b == Tag("TR", Len(tags) + 1, None, This.row)
           c == Leaf("TD", Len(tags) + 2)
           row == [page |-> This.page, row |-> This.row, number |-> This.row, tag |-> Len(tags) + 2]
           new == <<a, b, c>>
<1>1. TextOK(text) /\ TagsOK
  BY DEF TagInv, Tidy
<1>2. next + 1 \in DOMAIN text /\ next \in Nat /\ This.page \in Int /\ This.row \in Int /\ Len(tags) \in Nat
  BY <1>1, ThisIs, SMTT(30) DEF TagsOK, PieceOK
<1>3. a.type \in Holders /\ b.type \in Holders /\ a.type # "Span" /\ b.type # "Span" /\ c.type # "Span"
  <2>1. a.type = "Table" /\ b.type = "TR" /\ c.type = "TD"
    BY LeafType, TagType
  <2> QED
    BY <2>1 DEF Holders
<1>4. Hangs(Container, new) /\ Len(new) = 3 /\ DOMAIN new = {1, 2, 3} /\ new[1] = a /\ new[2] = b /\ new[3] = c
  BY ThreeOf
<1>5. /\ table'.tag = Len(tags) + 1 /\ table'.group = This.group /\ table'.page = This.page
      /\ table'.rows = <<row>> /\ row.page = This.page /\ row.row = This.row /\ row.tag = Len(tags) + 2
  OBVIOUS
<1> HIDE DEF a, b, c, new, row
<1>6. /\ \A k \in DOMAIN new : new[k].type # "Span"
      /\ \A k \in DOMAIN new : k < Len(new) => new[k].type \in Holders
  BY <1>3, <1>4
<1>7. Container \in Nat /\ Container <= Container
  BY ContainerIsOpen
<1>8. /\ PreorderIn(tags') /\ KindsIn(tags)' /\ \A k \in DOMAIN sections' : OpenIn(tags', sections'[k].tag)
      /\ \A q \in Nat : q > Len(tags) => InnermostIn(tags', sections', q)
  BY <1>4, <1>6, <1>7, ContainerHolds, ReadOn
<1>9. /\ Len(table'.rows) = 1 /\ DOMAIN table'.rows = {1} /\ table'.rows[1] = row
  BY <1>5
<1>10. /\ Len(tags) + 1 \in Nat /\ Len(tags) + 2 \in Nat /\ Len(tags) + 1 > Len(tags) /\ Len(tags) + 2 > Len(tags)
       /\ Len(tags) + 1 < Len(tags) + 2
  BY <1>2, SMTT(30)
<1>11. InnermostIn(tags', sections', table'.tag) /\ OpenIn(tags', row.tag)
  BY <1>5, <1>8, <1>10 DEF InnermostIn
<1>12. \E n \in 1..next' : /\ text'[n].role = "TD" /\ text'[n].group = table'.group
                           /\ text'[n].page = row.page /\ text'[n].row = row.row
  <2>1. next + 1 \in 1..next' /\ text'[next + 1] = This
    BY <1>2 DEF This
  <2> QED
    BY <1>5, <2>1
<1>13. row.page <= table'.page /\ table'.tag < row.tag
  BY <1>2, <1>5, <1>10
<1>14. RowsRead'
  BY <1>9, <1>11, <1>12, <1>13 DEF RowsRead, RowRead, Open
<1> QED
  BY <1>8, <1>11, <1>14, ReadTable

(* A further cell of the last row.                                         *)
LEMMA SameRowReads ==
  ASSUME TagInv, StackedOK, ReadInv, next < Len(text), This.role = "TD", UNCHANGED <<text, sections>>, next' = next + 1,
         lists' = << >>, diagram'.tag = None, table.tag # None, table.group = This.group,
         table.page = None \/ table.page <= This.page,
         NEW offset, NEW many, NEW at \in DOMAIN table.rows,
         table.rows[at].page = This.page, table.rows[at].row = This.row,
         Hangs(table.rows[at].tag, <<Leaf("TD", table.rows[at].tag)>>),
         table' = TableNow(This.page, offset, many, table.rows)
  PROVE  ReadInv'
<1>1. TextOK(text) /\ TagsOK /\ OpenTableOK /\ RowsRead /\ Innermost(table.tag)
  BY DEF TagInv, Tidy, PointersOK, ReadInv
<1> DEFINE last == Len(table.rows)
<1>2. /\ last \in DOMAIN table.rows /\ last \in Nat /\ at \in Nat /\ at <= last /\ table.tag \in Nat
      /\ \A k \in DOMAIN table.rows : table.rows[k].page \in Int /\ table.rows[k].row \in Int /\ table.rows[k].tag \in Nat
                                      /\ Points(table.rows[k].tag, "TR")
  BY <1>1, RowsAre, SMTT(30)
<1>3. at = last
  <2>1. /\ table.rows[last].page <= This.page
        /\ table.rows[last].page = This.page => table.rows[last].row <= This.row
    BY <1>1, <1>2, RowsBefore
  <2>2. at < last => \/ table.rows[at].page < table.rows[last].page
                     \/ table.rows[at].page = table.rows[last].page /\ table.rows[at].row < table.rows[last].row
    BY <1>1, <1>2 DEF RowsRead
  <2>3. ~(at < last)
    <3> HIDE DEF last
    <3> QED
      BY <1>2, <2>1, <2>2, SMTT(30)
  <2> QED
    BY <1>2, <2>3
<1> DEFINE p == table.rows[at].tag
           a == Leaf("TD", p)
<1>4. Open(p) /\ Points(p, "TR") /\ p \in Nat /\ table.tag < p
  BY <1>1, <1>2, <1>3 DEF RowsRead
<1>5. Hangs(p, <<a>>) /\ a.type # "Span"
  BY LeafType
<1>6. Container \in Nat /\ Container < table.tag
  <2>1. Points(table.tag, "Table") /\ table.tag \in DOMAIN tags
    BY <1>1 DEF OpenTableOK, Points, PointsIn
  <2> QED
    BY <1>1, <2>1, ContainerIsOpen
<1> HIDE DEF p, a, Innermost
<1>7. Container <= p /\ table.tag <= p /\ "TR" \in Holders /\ p <= p
  BY <1>2, <1>4, <1>6 DEF Holders
<1>8. /\ PreorderIn(tags') /\ KindsIn(tags)' /\ \A k \in DOMAIN sections' : OpenIn(tags', sections'[k].tag)
      /\ InnermostIn(tags', sections', table.tag) /\ OpenIn(tags', p)
  BY <1>1, <1>2, <1>4, <1>5, <1>7, ReadOne
<1>9. table'.tag = table.tag /\ table'.group = table.group /\ table'.page = This.page /\ table'.rows = table.rows
  BY DEF TableNow
<1>10. next \in Nat /\ \A n \in 1..next : n \in 1..next'
  BY <1>1 DEF TagsOK
<1>11. ASSUME NEW k \in DOMAIN table.rows
       PROVE  /\ \E n \in 1..next' : /\ text[n].role = "TD" /\ text[n].group = table.group
                                     /\ text[n].page = table.rows[k].page /\ text[n].row = table.rows[k].row
              /\ table.rows[k].page <= This.page /\ table.tag < table.rows[k].tag
  <2>1. RowRead(table.rows[k]) /\ table.tag < table.rows[k].tag
    BY <1>1 DEF RowsRead
  <2>2. table.rows[k].page <= This.page
    BY <1>1, RowsBefore
  <2> QED
    BY <1>10, <2>1, <2>2 DEF RowRead
<1>12. /\ \A j, k \in DOMAIN table.rows : j < k =>
             \/ table.rows[j].page < table.rows[k].page
             \/ table.rows[j].page = table.rows[k].page /\ table.rows[j].row < table.rows[k].row
       /\ OpenIn(tags', table.rows[Len(table.rows)].tag)
  BY <1>1, <1>3, <1>8 DEF RowsRead, p
<1>13. RowsRead'
  BY <1>9, <1>11, <1>12 DEF RowsRead, RowRead, Open
<1> QED
  BY <1>8, <1>9, <1>13, ReadTable

(* A cell that begins a row.                                               *)
LEMMA NewRowReads ==
  ASSUME TagInv, StackedOK, ReadInv, next < Len(text), This.role = "TD", UNCHANGED <<text, sections>>, next' = next + 1,
         lists' = << >>, diagram'.tag = None, table.tag # None, table.group = This.group,
         table.page = None \/ table.page <= This.page,
         \A k \in DOMAIN table.rows : ~(table.rows[k].page = This.page /\ table.rows[k].row = This.row),
         NEW offset \in Int, NEW many,
         Hangs(table.tag, <<Tag("TR", table.tag, None, This.row + offset), Leaf("TD", Len(tags) + 1)>>),
         table' = TableNow(This.page, offset, many,
                           Append(table.rows, [page |-> This.page, row |-> This.row,
                                               number |-> This.row + offset, tag |-> Len(tags) + 1]))
  PROVE  ReadInv'
<1>1. TextOK(text) /\ TagsOK /\ OpenTableOK /\ RowsRead /\ Innermost(table.tag)
  BY DEF TagInv, Tidy, PointersOK, ReadInv
<1> DEFINE p == table.tag
           a == Tag("TR", table.tag, None, This.row + offset)
           b == Leaf("TD", Len(tags) + 1)
           row == [page |-> This.page, row |-> This.row, number |-> This.row + offset, tag |-> Len(tags) + 1]
           n == Len(table.rows)
           more == Append(table.rows, row)
<1>2. next + 1 \in DOMAIN text /\ next \in Nat /\ This.page \in Int /\ This.row \in Int /\ Len(tags) \in Nat
      /\ DOMAIN tags = 1..Len(tags)
  BY <1>1, ThisIs DEF TagsOK, PieceOK
<1>3. /\ n \in Nat /\ DOMAIN table.rows = 1..n /\ p \in Nat
      /\ \A k \in DOMAIN table.rows : table.rows[k].page \in Int /\ table.rows[k].row \in Int
  BY <1>1, RowsAre
<1>4. Points(p, "Table") /\ p \in DOMAIN tags
  BY <1>1 DEF OpenTableOK, Points, PointsIn
<1>5. Container \in Nat /\ Container <= p /\ p <= p
  <2>1. Container \in Nat /\ Container < p
    BY <1>1, <1>4, ContainerIsOpen
  <2> QED
    BY <1>3, <2>1
<1>6. Open(p)
  BY <1>1 DEF Innermost, InnermostIn, Open
<1>7. a.type \in Holders /\ b.type # "Span" /\ "Table" \in Holders
  <2>1. a.type = "TR" /\ b.type = "TD"
    BY LeafType, TagType
  <2> QED
    BY <2>1 DEF Holders
<1>8. Hangs(p, <<a, b>>)
  OBVIOUS
<1>9. row \in RowSet /\ row.page = This.page /\ row.row = This.row /\ row.tag = Len(tags) + 1
  BY <1>2, SMTT(30) DEF RowSet
<1>10. /\ Len(more) = n + 1 /\ DOMAIN more = 1..(n + 1) /\ more[n + 1] = row
       /\ \A k \in 1..n : k \in DOMAIN table.rows /\ more[k] = table.rows[k]
  <2> DEFINE X == RowSet
  <2>1. table.rows \in Seq(X) /\ row \in X
    BY <1>1, <1>9, RowsAre
  <2> HIDE DEF X, row
  <2> QED
    BY <2>1, SMTT(30)
<1>11. table'.tag = p /\ table'.group = table.group /\ table'.page = This.page /\ table'.rows = more
  BY DEF TableNow
<1> HIDE DEF p, a, b, row, n, more, Innermost
<1>12. Innermost(p)
  BY <1>1 DEF p
<1>13. /\ PreorderIn(tags') /\ KindsIn(tags)' /\ \A k \in DOMAIN sections' : OpenIn(tags', sections'[k].tag)
       /\ InnermostIn(tags', sections', p)
       /\ \A q \in Nat : q > Len(tags) => InnermostIn(tags', sections', q)
  BY <1>3, <1>4, <1>5, <1>6, <1>7, <1>8, <1>12, ReadTwo
<1>14. OpenIn(tags', row.tag) /\ p < row.tag
  <2>1. Len(tags) + 1 \in Nat /\ Len(tags) + 1 > Len(tags) /\ p < Len(tags) + 1
    BY <1>2, <1>4, SMTT(30)
  <2> QED
    BY <1>9, <1>13, <2>1 DEF InnermostIn
<1>15. \A m \in 1..next : m \in 1..next'
  BY <1>2
<1>16. ASSUME NEW k \in DOMAIN table.rows
       PROVE  /\ \E m \in 1..next' : /\ text[m].role = "TD" /\ text[m].group = table.group
                                     /\ text[m].page = table.rows[k].page /\ text[m].row = table.rows[k].row
              /\ table.rows[k].page <= This.page /\ p < table.rows[k].tag
              /\ table.rows[k].page = This.page => table.rows[k].row < This.row
  <2>1. RowRead(table.rows[k]) /\ p < table.rows[k].tag
    BY <1>1 DEF RowsRead, p
  <2>2. table.rows[k].page <= This.page /\ (table.rows[k].page = This.page => table.rows[k].row <= This.row)
    BY <1>1, RowsBefore
  <2>3. table.rows[k].page = This.page => table.rows[k].row < This.row
    BY <1>2, <1>3, <2>2, SMTT(30)
  <2> QED
    BY <1>15, <2>1, <2>2, <2>3 DEF RowRead
<1>17. \E m \in 1..next' : /\ text[m].role = "TD" /\ text[m].group = table.group
                           /\ text[m].page = row.page /\ text[m].row = row.row
  <2>1. next + 1 \in 1..next' /\ text[next + 1] = This
    BY <1>2 DEF This
  <2> QED
    BY <1>9, <2>1
<1>18. \A k \in DOMAIN more : k = n + 1 \/ k \in 1..n
  BY <1>3, <1>10
<1>19. \A k \in DOMAIN more : /\ \E m \in 1..next' : /\ text[m].role = "TD" /\ text[m].group = table.group
                                                     /\ text[m].page = more[k].page /\ text[m].row = more[k].row
                              /\ more[k].page <= This.page /\ p < more[k].tag
  <2>1. row.page <= This.page
    BY <1>2, <1>9
  <2> QED
    BY <1>10, <1>14, <1>16, <1>17, <1>18, <2>1, SMTT(30)
<1>20. ASSUME NEW j \in DOMAIN more, NEW k \in DOMAIN more, j < k
       PROVE  \/ more[j].page < more[k].page
              \/ more[j].page = more[k].page /\ more[j].row < more[k].row
  <2>1. j \in 1..n
    BY <1>3, <1>10, <1>20
  <2>2. CASE k = n + 1
    <3>1. table.rows[j].page <= This.page /\ (table.rows[j].page = This.page => table.rows[j].row < This.row)
      BY <1>10, <1>16, <2>1
    <3>2. table.rows[j].page \in Int
      BY <1>3, <2>1
    <3> QED
      BY <1>2, <1>9, <1>10, <2>1, <2>2, <3>1, <3>2, SMTT(30)
  <2>3. CASE k \in 1..n
    <3>1. more[j] = table.rows[j] /\ more[k] = table.rows[k] /\ j \in DOMAIN table.rows /\ k \in DOMAIN table.rows
      BY <1>10, <2>1, <2>3
    <3> QED
      BY <1>1, <1>20, <3>1 DEF RowsRead
  <2> QED
    BY <1>18, <2>2, <2>3
<1>21. OpenIn(tags', more[Len(more)].tag)
  BY <1>10, <1>14, SMTT(30)
<1>22. RowsRead'
  <2>1. (\A k \in DOMAIN table.rows : /\ RowRead(table.rows[k]) /\ table.rows[k].page <= table.page
                                       /\ table.tag < table.rows[k].tag)'
    BY <1>11, <1>19 DEF RowRead
  <2>2. (\A j, k \in DOMAIN table.rows : j < k =>
            \/ table.rows[j].page < table.rows[k].page
            \/ table.rows[j].page = table.rows[k].page /\ table.rows[j].row < table.rows[k].row)'
    BY <1>11, <1>20
  <2>3. (table.rows # << >> => Open(table.rows[Len(table.rows)].tag))'
    BY <1>11, <1>21 DEF Open
  <2> QED
    BY <2>1, <2>2, <2>3 DEF RowsRead
<1> QED
  BY <1>11, <1>13, <1>22, ReadTable

LEMMA CellReads ==
  ASSUME TagInv, StackedOK, ReadInv, TagCell, step' = "tagging"
  PROVE  ReadInv'
<1>1. Tidy /\ TablesOK /\ RowsOK /\ next < Len(text) /\ This.role = "TD" /\ UNCHANGED text /\ next' = next + 1
  BY ZenonT(40) DEF TagInv, TagCell, Reads
<1>2. UNCHANGED sections /\ lists' = << >> /\ diagram' = NoDiagram
  BY ZenonT(40) DEF TagCell, Refuse, EndsLists, EndsDiagram
<1>3. diagram'.tag = None
  BY <1>2 DEF NoDiagram
<1> QED
  BY <1>1, <1>2, <1>3, CellHangs, FirstCellReads, SameRowReads, NewRowReads, ZenonT(40)

(* Every step keeps the tags in the order of the reading.                  *)
LEMMA StepReads ==
  ASSUME TagInv, StackedOK, ReadInv, TagStep, step' = "tagging"
  PROVE  ReadInv'
BY SkipReads, LabelReads, HeadingReads, ContinueReads, ItemReads, TableReads, CellReads, ParagraphReads DEF TagStep

LEMMA NothingTaggedReads == NothingTagged => ReadInv
<1> SUFFICES ASSUME NothingTagged PROVE ReadInv
  OBVIOUS
<1>1. /\ DOMAIN tags = {} /\ DOMAIN sections = {} /\ DOMAIN lists = {} /\ lists = << >>
      /\ table.tag = None /\ table.rows = << >> /\ DOMAIN table.rows = {} /\ diagram.tag = None
  BY DEF NothingTagged, NoTable, NoDiagram
<1> QED
  BY <1>1 DEF ReadInv, PreorderIn, KindsIn, ListsRead, RowsRead

-----------------------------------------------------------------------------
(* Sequences that rise in an order.                                        *)
Rising(s, R) == \A i, j \in DOMAIN s : i < j => <<s[i], s[j]>> \in R

(* Only one lists a set in its order.                                      *)
LEMMA ListedOnce ==
  ASSUME NEW R, NEW S, OrdersSet(R, S), NEW s, InOrder(s, R, S),
         NEW t \in Seq(S), Rising(t, R), \A x \in S : \E i \in DOMAIN t : t[i] = x
  PROVE  s = t
<1> DEFINE m == Cardinality(S)
           n == Len(t)
<1>1. m \in Nat /\ s \in [1..m -> S]
  BY CountsGrow DEF InOrder
<1>2. n \in Nat /\ DOMAIN t = 1..n /\ t \in [1..n -> S]
  OBVIOUS
<1>3. \A x, y \in S : ~(<<x, y>> \in R /\ <<y, x>> \in R)
  BY ZenonT(40) DEF OrdersSet
<1>4. /\ \A i, j \in 1..m : (s[i] = s[j] => i = j) /\ (i < j => <<s[i], s[j]>> \in R)
      /\ \A x \in S : \E i \in 1..m : s[i] = x
  BY DEF InOrder
<1>5. /\ \A i, j \in 1..n : i < j => <<t[i], t[j]>> \in R
      /\ \A x \in S : \E i \in 1..n : t[i] = x
  BY <1>2 DEF Rising
<1> HIDE DEF m, n
<1>6. \A i, j \in 1..n : t[i] = t[j] => i = j
  <2> SUFFICES ASSUME NEW i \in 1..n, NEW j \in 1..n, t[i] = t[j], i # j PROVE FALSE
    OBVIOUS
  <2>1. i < j \/ j < i
    BY <1>2
  <2>2. <<t[i], t[i]>> \in R /\ t[i] \in S
    BY <1>2, <1>5, <2>1
  <2> QED
    BY <1>3, <2>2
<1>7. \A i \in 1..m : i \in 1..n => s[i] = t[i]
  <2> DEFINE T == {i \in 1..m : i \in 1..n /\ s[i] # t[i]}
  <2> SUFFICES ASSUME T # {} PROVE FALSE
    OBVIOUS
  <2>1. T \subseteq Nat
    BY <1>1
  <2>2. PICK i \in T : \A k \in T : i <= k
    BY <2>1, LeastElement
  <2>3. i \in 1..m /\ i \in 1..n /\ s[i] # t[i] /\ i \in Int
    OBVIOUS
  <2>4. \A k \in 1..m : k \in 1..n /\ k < i => s[k] = t[k]
    <3> TAKE k \in 1..m
    <3>1. k \in Int
      OBVIOUS
    <3> QED
      BY <2>2, <2>3, <3>1
  <2>5. s[i] \in S /\ t[i] \in S
    BY <1>1, <1>2, <2>3
  <2>6. PICK j \in 1..n : t[j] = s[i]
    BY <1>5, <2>5
  <2>7. PICK k \in 1..m : s[k] = t[i]
    BY <1>4, <2>5
  <2> HIDE DEF T
  <2>8. ~(j < i)
    <3> SUFFICES ASSUME j < i PROVE FALSE
      OBVIOUS
    <3>1. j \in 1..m
      BY <1>1, <1>2, <2>3
    <3>2. s[j] = s[i]
      BY <2>4, <2>6, <3>1
    <3>3. j = i
      BY <1>4, <2>3, <3>1, <3>2
    <3> QED
      BY <2>3, <3>3
  <2>9. ~(k < i)
    <3> SUFFICES ASSUME k < i PROVE FALSE
      OBVIOUS
    <3>1. k \in 1..n
      BY <1>1, <1>2, <2>3
    <3>2. t[k] = t[i]
      BY <2>4, <2>7, <3>1
    <3>3. k = i
      BY <1>6, <2>3, <3>1, <3>2
    <3> QED
      BY <2>3, <3>3
  <2>10. j # i /\ k # i
    BY <2>3, <2>6, <2>7
  <2>11. i < j /\ i < k
    BY <1>1, <1>2, <2>3, <2>8, <2>9, <2>10
  <2>12. <<t[i], s[i]>> \in R /\ <<s[i], t[i]>> \in R
    BY <1>4, <1>5, <2>3, <2>6, <2>7, <2>11
  <2> QED
    BY <1>3, <2>5, <2>12
<1>8. m = n
  <2>1. ~(m < n)
    <3> SUFFICES ASSUME m < n PROVE FALSE
      OBVIOUS
    <3>1. m + 1 \in 1..n /\ t[m + 1] \in S
      BY <1>1, <1>2
    <3>2. PICK k \in 1..m : s[k] = t[m + 1]
      BY <1>4, <3>1
    <3>3. k \in 1..n /\ k # m + 1
      BY <1>1, <1>2
    <3> QED
      BY <1>6, <1>7, <3>1, <3>2, <3>3
  <2>2. ~(n < m)
    <3> SUFFICES ASSUME n < m PROVE FALSE
      OBVIOUS
    <3>1. n + 1 \in 1..m /\ s[n + 1] \in S
      BY <1>1, <1>2
    <3>2. PICK k \in 1..n : t[k] = s[n + 1]
      BY <1>5, <3>1
    <3>3. k \in 1..m /\ k # n + 1
      BY <1>1, <1>2
    <3> QED
      BY <1>4, <1>7, <3>1, <3>2, <3>3
  <2> QED
    BY <1>1, <1>2, <2>1, <2>2
<1> QED
  BY <1>1, <1>2, <1>7, <1>8

LEMMA JoinedIs ==
  ASSUME NEW S, NEW s \in Seq(S), NEW t \in Seq(S)
  PROVE  /\ s \o t \in Seq(S) /\ DOMAIN (s \o t) = 1..(Len(s) + Len(t)) /\ Len(s) \in Nat /\ Len(t) \in Nat
         /\ \A i \in DOMAIN s : i \in DOMAIN (s \o t) /\ (s \o t)[i] = s[i]
         /\ \A i \in DOMAIN t : Len(s) + i \in DOMAIN (s \o t) /\ (s \o t)[Len(s) + i] = t[i]
         /\ \A i \in DOMAIN (s \o t) : \/ i \in DOMAIN s /\ (s \o t)[i] = s[i]
                                       \/ i > Len(s) /\ i - Len(s) \in DOMAIN t /\ (s \o t)[i] = t[i - Len(s)]
<1>1. /\ s \o t \in Seq(S) /\ Len(s \o t) = Len(s) + Len(t) /\ Len(s) \in Nat /\ Len(t) \in Nat
      /\ DOMAIN s = 1..Len(s) /\ DOMAIN t = 1..Len(t) /\ DOMAIN (s \o t) = 1..Len(s \o t)
      /\ \A i \in 1..(Len(s) + Len(t)) : (s \o t)[i] = IF i <= Len(s) THEN s[i] ELSE t[i - Len(s)]
  BY ConcatProperties
<1> DEFINE u == s \o t
<1> HIDE DEF u
<1>2. ASSUME NEW i \in 1..(Len(s) + Len(t))
      PROVE  \/ i \in DOMAIN s /\ u[i] = s[i]
             \/ i > Len(s) /\ i - Len(s) \in DOMAIN t /\ u[i] = t[i - Len(s)]
  BY <1>1 DEF u
<1>3. ASSUME NEW i \in 1..Len(t) PROVE Len(s) + i \in 1..(Len(s) + Len(t)) /\ u[Len(s) + i] = t[i]
  <2>1. Len(s) + i \in 1..(Len(s) + Len(t)) /\ ~(Len(s) + i <= Len(s)) /\ (Len(s) + i) - Len(s) = i
    BY <1>1
  <2> QED
    BY <1>1, <2>1 DEF u
<1>4. ASSUME NEW i \in 1..Len(s) PROVE i \in 1..(Len(s) + Len(t)) /\ u[i] = s[i]
  BY <1>1 DEF u
<1> QED
  BY <1>1, <1>2, <1>3, <1>4 DEF u

(* One that rises after another.                                           *)
LEMMA RisingOn ==
  ASSUME NEW S, NEW R, NEW s \in Seq(S), NEW t \in Seq(S), Rising(s, R), Rising(t, R),
         \A i \in DOMAIN s, j \in DOMAIN t : <<s[i], t[j]>> \in R
  PROVE  Rising(s \o t, R)
<1> DEFINE u == s \o t
<1>1. /\ DOMAIN u = 1..(Len(s) + Len(t)) /\ Len(s) \in Nat /\ DOMAIN s = 1..Len(s)
      /\ \A i \in DOMAIN u : \/ i \in DOMAIN s /\ u[i] = s[i]
                             \/ i > Len(s) /\ i - Len(s) \in DOMAIN t /\ u[i] = t[i - Len(s)]
  BY JoinedIs
<1>2. Len(t) \in Nat
  OBVIOUS
<1> HIDE DEF u
<1>3. ASSUME NEW i \in DOMAIN u, NEW j \in DOMAIN u, i < j PROVE <<u[i], u[j]>> \in R
  <2>1. i \in Int /\ j \in Int
    BY <1>1, <1>2
  <2>2. CASE j \in DOMAIN s /\ u[j] = s[j]
    <3>1. i \in DOMAIN s /\ ~(i > Len(s))
      BY <1>1, <1>3, <2>1, <2>2
    <3> QED
      BY <1>1, <1>3, <2>2, <3>1 DEF Rising
  <2>3. CASE j > Len(s) /\ j - Len(s) \in DOMAIN t /\ u[j] = t[j - Len(s)]
    <3>1. CASE i \in DOMAIN s /\ u[i] = s[i]
      BY <2>3, <3>1
    <3>2. CASE i > Len(s) /\ i - Len(s) \in DOMAIN t /\ u[i] = t[i - Len(s)]
      <4>1. i - Len(s) < j - Len(s)
        BY <1>1, <1>3, <2>1
      <4> QED
        BY <2>3, <3>2, <4>1 DEF Rising
    <3> QED
      BY <1>1, <3>1, <3>2
  <2> QED
    BY <1>1, <2>2, <2>3
<1> QED
  BY <1>3 DEF Rising, u

-----------------------------------------------------------------------------
(* A walk: of each place there is what is its own, what is read on from    *)
(* its first child, and what is read on from its next sibling; 0 is none,  *)
(* and children and siblings come later.                                   *)
Onward(n, own, child, sibling) ==
  /\ n \in Nat /\ own \in [1..n -> Seq(Nat)] /\ child \in [1..n -> 0..n] /\ sibling \in [1..n -> 0..n]
  /\ \A i \in 1..n : (child[i] = 0 \/ child[i] > i) /\ (sibling[i] = 0 \/ sibling[i] > i)

ReadOnFrom(n, own, child, sibling, f) ==
  [i \in 0..n |-> IF i = 0 THEN << >> ELSE own[i] \o f[child[i]] \o f[sibling[i]]]

LEMMA WalkExists ==
  ASSUME NEW n, NEW own, NEW child, NEW sibling, Onward(n, own, child, sibling)
  PROVE  \E f : f = ReadOnFrom(n, own, child, sibling, f)
<1> DEFINE Y == Seq(Nat)
           Then(f, i) == IF i = 0 THEN << >> ELSE own[i] \o f[child[i]] \o f[sibling[i]]
           S == {k \in Nat : \E f \in [0..n -> Y] : \A i \in 0..n : i = 0 \/ n - i < k => f[i] = Then(f, i)}
<1>1. /\ n \in Nat /\ own \in [1..n -> Y] /\ child \in [1..n -> 0..n] /\ sibling \in [1..n -> 0..n]
      /\ \A i \in 1..n : (child[i] = 0 \/ child[i] > i) /\ (sibling[i] = 0 \/ sibling[i] > i)
  BY DEF Onward
<1>2. << >> \in Y /\ \A s, t \in Y : s \o t \in Y
  OBVIOUS
<1>3. \A f \in [0..n -> Y], i \in 0..n : Then(f, i) \in Y
  <2> TAKE f \in [0..n -> Y], i \in 0..n
  <2>1. i # 0 => i \in 1..n
    BY <1>1
  <2> HIDE DEF Y
  <2>2. i # 0 => own[i] \in Y /\ f[child[i]] \in Y /\ f[sibling[i]] \in Y
    BY <1>1, <2>1
  <2>3. i # 0 => own[i] \o f[child[i]] \in Y
    BY <1>2, <2>2
  <2>4. i # 0 => own[i] \o f[child[i]] \o f[sibling[i]] \in Y
    BY <1>2, <2>2, <2>3
  <2> QED
    BY <1>2, <2>4
<1> HIDE DEF Y
<1>4. ASSUME NEW f, NEW g, NEW i \in 1..n, f[child[i]] = g[child[i]], f[sibling[i]] = g[sibling[i]]
      PROVE  Then(f, i) = Then(g, i)
  BY <1>4
<1>5. \A f : Then(f, 0) = << >>
  OBVIOUS
<1> HIDE DEF Then
<1>6. 0 \in S
  <2> DEFINE f == [i \in 0..n |-> << >>]
  <2>1. f \in [0..n -> Y] /\ \A i \in 0..n : i = 0 \/ n - i < 0 => f[i] = Then(f, i)
    <3>1. f \in [0..n -> Y] /\ \A i \in 0..n : f[i] = << >>
      BY <1>2
    <3>2. \A i \in 0..n : ~(n - i < 0)
      BY <1>1
    <3> HIDE DEF f
    <3> QED
      BY <1>5, <3>1, <3>2
  <2> QED
    BY <2>1
<1>7. ASSUME NEW k \in Nat, k \in S PROVE k + 1 \in S
  <2>1. PICK f \in [0..n -> Y] : \A i \in 0..n : i = 0 \/ n - i < k => f[i] = Then(f, i)
    BY <1>7
  <2> DEFINE at == n - k
  <2>2. at \in Int /\ k + 1 \in Nat
    BY <1>1
  <2>3. CASE at < 1
    <3>1. \A i \in 0..n : i = 0 \/ n - i < k
      BY <1>1, <2>3
    <3> QED
      BY <2>1, <2>2, <3>1
  <2>4. CASE at >= 1
    <3>1. at \in 1..n /\ at \in 0..n /\ at # 0
      BY <1>1, <2>4
    <3> DEFINE g == [f EXCEPT ![at] = Then(f, at)]
    <3>2. g \in [0..n -> Y] /\ g[at] = Then(f, at) /\ \A i \in 0..n : i # at => g[i] = f[i]
      BY <1>3, <3>1
    <3> HIDE DEF g
    <3>3. ASSUME NEW i \in 1..n, i >= at PROVE Then(g, i) = Then(f, i)
      <4>1. child[i] \in 0..n /\ child[i] # at /\ sibling[i] \in 0..n /\ sibling[i] # at
        BY <1>1, <3>1, <3>3, SMTT(30)
      <4> HIDE DEF at
      <4> QED
        BY <1>4, <3>2, <4>1
    <3>4. ASSUME NEW i \in 0..n, i = 0 \/ n - i < k + 1 PROVE g[i] = Then(g, i)
      <4>1. CASE i = 0
        BY <1>5, <2>1, <3>1, <3>2, <4>1
      <4>2. CASE i = at
        BY <3>1, <3>2, <3>3, <4>2
      <4>3. CASE i # 0 /\ i # at
        <5>1. i \in 1..n /\ i >= at /\ n - i < k
          BY <1>1, <3>1, <3>4, <4>3
        <5> QED
          BY <2>1, <3>2, <3>3, <4>3, <5>1
      <4> QED
        BY <4>1, <4>2, <4>3
    <3> QED
      BY <2>2, <3>2, <3>4
  <2> QED
    BY <2>2, <2>3, <2>4
<1> HIDE DEF S
<1>8. n + 1 \in S
  BY <1>1, <1>6, <1>7, Induction
<1>9. PICK f \in [0..n -> Y] : \A i \in 0..n : i = 0 \/ n - i < n + 1 => f[i] = Then(f, i)
  BY <1>8 DEF S
<1>10. \A i \in 0..n : f[i] = Then(f, i)
  BY <1>1, <1>9
<1>11. f = [i \in 0..n |-> Then(f, i)]
  BY <1>10
<1> QED
  BY <1>11 DEF ReadOnFrom, Then

(* What is read on from a place.                                           *)
ReadsOn(n, own, child, sibling, f) ==
  f[0] = << >> /\ \A i \in 1..n : f[i] = own[i] \o f[child[i]] \o f[sibling[i]]

LEMMA WalkAt ==
  ASSUME NEW n \in Nat, NEW own, NEW child, NEW sibling, NEW f, f = ReadOnFrom(n, own, child, sibling, f)
  PROVE  ReadsOn(n, own, child, sibling, f)
<1> DEFINE g == ReadOnFrom(n, own, child, sibling, f)
<1>1. \A i \in 0..n : g[i] = IF i = 0 THEN << >> ELSE own[i] \o f[child[i]] \o f[sibling[i]]
  BY DEF ReadOnFrom
<1>2. f = g
  OBVIOUS
<1> HIDE DEF g
<1>3. 0 \in 0..n /\ \A i \in 1..n : i \in 0..n /\ i # 0
  OBVIOUS
<1>4. f[0] = << >>
  BY <1>1, <1>2, <1>3
<1>5. ASSUME NEW i \in 1..n PROVE f[i] = own[i] \o f[child[i]] \o f[sibling[i]]
  <2>1. g[i] = own[i] \o f[child[i]] \o f[sibling[i]]
    BY <1>1, <1>3
  <2> QED
    BY <1>2, <2>1
<1> QED
  BY <1>4, <1>5 DEF ReadsOn

(* Whatever is in one sequence is in another.                              *)
AllIn(s, t) == \A i \in DOMAIN s : \E j \in DOMAIN t : t[j] = s[i]

LEMMA JoinedHolds ==
  ASSUME NEW S, NEW s \in Seq(S), NEW t \in Seq(S)
  PROVE  AllIn(s, s \o t) /\ AllIn(t, s \o t)
<1> DEFINE u == s \o t
<1>1. /\ \A i \in DOMAIN s : i \in DOMAIN u /\ u[i] = s[i]
      /\ \A i \in DOMAIN t : Len(s) + i \in DOMAIN u /\ u[Len(s) + i] = t[i]
  BY JoinedIs
<1> HIDE DEF u
<1> QED
  BY <1>1 DEF u, AllIn

(* The first child, the next sibling and the first place of all.           *)
Linked(n, parent, child, sibling, root) ==
  /\ parent \in [1..n -> 0..n] /\ root \in 0..n /\ \A i \in 1..n : parent[i] < i
  /\ \A i, j \in 1..n : i < j /\ parent[i] = parent[j] => sibling[i] \in 1..j /\ parent[sibling[i]] = parent[i]
  /\ \A i, j \in 1..n : parent[j] = i => child[i] \in 1..j /\ parent[child[i]] = i
  /\ \A j \in 1..n : parent[j] = 0 => root \in 1..j /\ parent[root] = 0

(* All of it: what is read from a place is read from the siblings before   *)
(* it and from the place it is in, so that nothing is left out.            *)
LEMMA WalkReadsAll ==
  ASSUME NEW n, NEW own, NEW child, NEW sibling, Onward(n, own, child, sibling),
         NEW f, ReadsOn(n, own, child, sibling, f), \A i \in 0..n : f[i] \in Seq(Nat),
         NEW parent, NEW root, Linked(n, parent, child, sibling, root)
  PROVE  \A i \in 1..n : AllIn(own[i], f[root])
<1>0. /\ parent \in [1..n -> 0..n] /\ root \in 0..n /\ \A i \in 1..n : parent[i] < i
      /\ \A i, j \in 1..n : i < j /\ parent[i] = parent[j] => sibling[i] \in 1..j /\ parent[sibling[i]] = parent[i]
      /\ \A i, j \in 1..n : parent[j] = i => child[i] \in 1..j /\ parent[child[i]] = i
      /\ \A j \in 1..n : parent[j] = 0 => root \in 1..j /\ parent[root] = 0
  BY DEF Linked
<1>1. /\ n \in Nat /\ own \in [1..n -> Seq(Nat)] /\ child \in [1..n -> 0..n] /\ sibling \in [1..n -> 0..n]
      /\ \A i \in 1..n : (child[i] = 0 \/ child[i] > i) /\ (sibling[i] = 0 \/ sibling[i] > i)
  BY DEF Onward
<1>1a. \A i \in 1..n : f[i] = own[i] \o f[child[i]] \o f[sibling[i]]
  BY DEF ReadsOn
<1>2. ASSUME NEW i \in 1..n PROVE AllIn(own[i], f[i]) /\ AllIn(f[child[i]], f[i]) /\ AllIn(f[sibling[i]], f[i])
  <2> DEFINE S == Nat
             a == own[i]
             b == f[child[i]]
             c == f[sibling[i]]
             ab == a \o b
             abc == ab \o c
  <2>1. a \in Seq(S) /\ child[i] \in 0..n /\ sibling[i] \in 0..n
    BY <1>1
  <2>2. b \in Seq(S) /\ c \in Seq(S)
    BY <2>1
  <2>3. f[i] = abc
    BY <1>1a
  <2> HIDE DEF a, b, c, S
  <2>4. ab \in Seq(S)
    BY <2>1, <2>2, JoinedIs
  <2>5. AllIn(a, ab) /\ AllIn(b, ab)
    BY <2>1, <2>2, JoinedHolds
  <2> HIDE DEF ab
  <2>6. AllIn(ab, abc) /\ AllIn(c, abc)
    BY <2>2, <2>4, JoinedHolds
  <2> HIDE DEF abc
  <2>7. AllIn(a, abc) /\ AllIn(b, abc) /\ AllIn(c, abc)
    BY <2>5, <2>6 DEF AllIn
  <2> QED
    BY <2>3, <2>7 DEF a, b, c
<1>3. \A s : AllIn(s, s)
  BY DEF AllIn
<1>4. \A s, t, u : AllIn(s, t) /\ AllIn(t, u) => AllIn(s, u)
  BY DEF AllIn
<1>5. \A i, j \in 1..n : parent[i] = parent[j] /\ i <= j => AllIn(f[j], f[i])
  <2> DEFINE S == {k \in Nat : \A i, j \in 1..n : parent[i] = parent[j] /\ i <= j /\ j - i < k => AllIn(f[j], f[i])}
  <2>1. 0 \in S
    <3>1. \A i, j \in 1..n : i <= j => ~(j - i < 0)
      OBVIOUS
    <3> QED
      BY <3>1
  <2>2. ASSUME NEW k \in Nat, k \in S PROVE k + 1 \in S
    <3> SUFFICES ASSUME NEW i \in 1..n, NEW j \in 1..n, parent[i] = parent[j], i <= j, j - i < k + 1 PROVE AllIn(f[j], f[i])
      OBVIOUS
    <3>1. CASE i = j
      BY <1>3, <3>1
    <3>2. CASE i # j
      <4> DEFINE s == sibling[i]
      <4>1. i < j
        BY <3>2
      <4>2. s \in 1..j /\ parent[s] = parent[i] /\ s # 0
        BY <1>0, <4>1
      <4>3. s > i /\ s \in 1..n
        BY <1>1, <4>2
      <4> HIDE DEF s
      <4>4. s <= j /\ j - s < k
        BY <4>2, <4>3
      <4>5. AllIn(f[j], f[s])
        BY <2>2, <4>2, <4>3, <4>4
      <4> QED
        BY <1>2, <1>4, <4>5 DEF s
    <3> QED
      BY <3>1, <3>2
  <2> HIDE DEF S
  <2>3. n + 1 \in S
    BY <1>1, <2>1, <2>2, Induction
  <2>4. \A i, j \in 1..n : i <= j => j - i < n + 1
    BY <1>1
  <2> QED
    BY <2>3, <2>4 DEF S
<1>6. \A j \in 1..n : AllIn(f[j], f[root])
  <2> DEFINE T == {j \in 1..n : ~AllIn(f[j], f[root])}
  <2> SUFFICES ASSUME T # {} PROVE FALSE
    OBVIOUS
  <2>1. T \subseteq Nat
    OBVIOUS
  <2>2. PICK j \in T : \A k \in T : j <= k
    BY <2>1, LeastElement
  <2>3. j \in 1..n /\ ~AllIn(f[j], f[root]) /\ \A k \in 1..n : k < j => AllIn(f[k], f[root])
    <3>1. j \in Int /\ \A k \in 1..n : k < j => k \notin T
      BY <2>2
    <3> QED
      BY <3>1
  <2> HIDE DEF T
  <2>4. CASE parent[j] = 0
    <3>1. root \in 1..j /\ parent[root] = 0
      BY <1>0, <2>3, <2>4
    <3>2. root \in 1..n /\ root <= j
      <4>1. root \in 1..j /\ j \in 1..n
        BY <2>3, <3>1
      <4> QED
        BY <1>1, <4>1
    <3> QED
      BY <1>5, <2>3, <2>4, <3>1, <3>2
  <2>5. CASE parent[j] # 0
    <3> DEFINE p == parent[j]
    <3>1. p \in 1..n /\ p < j
      BY <1>0, <1>1, <2>3, <2>5
    <3>2. child[p] \in 1..j /\ parent[child[p]] = p
      BY <1>0, <2>3, <3>1
    <3> DEFINE c == child[p]
    <3> HIDE DEF c
    <3>3. c \in 1..n /\ c <= j
      <4>1. c \in 1..j
        BY <3>2 DEF c
      <4> QED
        BY <1>1, <2>3, <4>1
    <3>4. AllIn(f[j], f[child[p]])
      BY <1>5, <2>3, <3>2, <3>3 DEF c
    <3>5. AllIn(f[child[p]], f[p]) /\ AllIn(f[p], f[root])
      BY <1>2, <2>3, <3>1
    <3> QED
      BY <1>4, <2>3, <3>4, <3>5
  <2> QED
    BY <2>4, <2>5
<1>7. \A i \in 1..n : AllIn(own[i], f[root])
  BY <1>2, <1>4, <1>6
<1> QED
  BY <1>7

-----------------------------------------------------------------------------
(* A tree in preorder, but for its parts, that are behind what they are a  *)
(* part of: the walk reads each place where it is, and a part where that   *)
(* is.                                                                     *)
PlaceIn(parent, part, i) == IF i \in part THEN parent[i] ELSE i

ReadBefore(parent, part, j, k) ==
  \/ PlaceIn(parent, part, j) < PlaceIn(parent, part, k)
  \/ PlaceIn(parent, part, j) = PlaceIn(parent, part, k) /\ j < k

Planted(n, parent, part, child, sibling) ==
  /\ parent \in [1..n -> 0..n] /\ part \subseteq 1..n
  /\ \A i \in 1..n : parent[i] < i /\ parent[i] \notin part
  /\ \A i, j \in 1..n : parent[i] = parent[j] => (i \in part <=> j \in part)
  /\ \A i, j \in (1..n) \ part : i < j => parent[j] <= parent[i] \/ parent[j] >= i
  /\ \A i \in 1..n : /\ child[i] # 0 => parent[child[i]] = i
                     /\ sibling[i] # 0 => parent[sibling[i]] = parent[i]

(* What is read from a place on.                                           *)
Reached(n, parent, part, i, j) ==
  IF i \in part THEN j \in part /\ parent[j] = parent[i] /\ j >= i
  ELSE /\ PlaceIn(parent, part, j) >= i
       /\ \A c \in (1..n) \ part : c > i /\ parent[c] < parent[i] => PlaceIn(parent, part, j) < c

LEMMA ReachedOn ==
  ASSUME NEW n, NEW own, NEW child, NEW sibling, Onward(n, own, child, sibling),
         NEW parent, NEW part, Planted(n, parent, part, child, sibling), NEW i \in 1..n
  PROVE  /\ Reached(n, parent, part, i, i)
         /\ \A j \in 1..n : child[i] # 0 /\ Reached(n, parent, part, child[i], j) =>
               Reached(n, parent, part, i, j) /\ ReadBefore(parent, part, i, j)
         /\ \A j \in 1..n : sibling[i] # 0 /\ Reached(n, parent, part, sibling[i], j) =>
               Reached(n, parent, part, i, j) /\ ReadBefore(parent, part, i, j)
         /\ \A j, k \in 1..n : /\ child[i] # 0 /\ sibling[i] # 0
                               /\ Reached(n, parent, part, child[i], j) /\ Reached(n, parent, part, sibling[i], k)
               => ReadBefore(parent, part, j, k)
<1> DEFINE P(j) == PlaceIn(parent, part, j)
           c == child[i]
           s == sibling[i]
<1>1. /\ n \in Nat /\ parent \in [1..n -> 0..n] /\ part \subseteq 1..n
      /\ \A j \in 1..n : parent[j] < j /\ parent[j] \notin part
      /\ \A j, k \in 1..n : parent[j] = parent[k] => (j \in part <=> k \in part)
      /\ \A j, k \in (1..n) \ part : j < k => parent[k] <= parent[j] \/ parent[k] >= j
  BY DEF Onward, Planted
<1>2. /\ c # 0 => c \in 1..n /\ c > i /\ parent[c] = i
      /\ s # 0 => s \in 1..n /\ s > i /\ parent[s] = parent[i]
  <2>1. /\ n \in Nat /\ child \in [1..n -> 0..n] /\ sibling \in [1..n -> 0..n]
        /\ (child[i] = 0 \/ child[i] > i) /\ (sibling[i] = 0 \/ sibling[i] > i)
    BY DEF Onward
  <2>2. /\ child[i] # 0 => parent[child[i]] = i
        /\ sibling[i] # 0 => parent[sibling[i]] = parent[i]
    BY DEF Planted
  <2>3. child[i] \in 0..n /\ sibling[i] \in 0..n
    BY <2>1
  <2>4. \A k \in 0..n : k # 0 => k \in 1..n
    BY <2>1
  <2> QED
    BY <2>1, <2>2, <2>3, <2>4
<1>3. \A j \in 1..n : P(j) = (IF j \in part THEN parent[j] ELSE j) /\ P(j) \in Nat /\ parent[j] \in Nat
  BY <1>1 DEF PlaceIn
<1> HIDE DEF P, c, s
<1>4. Reached(n, parent, part, i, i)
  <2>1. CASE i \in part
    BY <2>1 DEF Reached
  <2>2. CASE i \notin part
    BY <1>3, <2>2 DEF Reached, P
  <2> QED
    BY <2>1, <2>2
<1>5. c # 0 => i \notin part
  BY <1>1, <1>2
<1>6. s # 0 => (s \in part <=> i \in part)
  BY <1>1, <1>2
<1>7. ASSUME c # 0, c \notin part, NEW d \in (1..n) \ part, d > i, parent[d] <= parent[i] PROVE d > c
  <2>1. c \in 1..n /\ c > i /\ parent[c] = i /\ parent[i] < i /\ parent[i] \in Nat /\ parent[d] \in Nat
    BY <1>1, <1>2, <1>3, <1>7
  <2>2. d < c => parent[c] <= parent[d] \/ parent[c] >= d
    BY <1>1, <1>7, <2>1
  <2>3. d # c
    BY <1>7, <2>1
  <2> QED
    BY <1>7, <2>1, <2>2, <2>3
<1>8. ASSUME s # 0, s \notin part, NEW d \in (1..n) \ part, d > i, parent[d] < parent[i] PROVE d > s
  <2>1. s \in 1..n /\ s > i /\ parent[s] = parent[i] /\ parent[i] < i /\ parent[i] \in Nat /\ parent[d] \in Nat
    BY <1>1, <1>2, <1>3, <1>8
  <2>2. d < s => parent[s] <= parent[d] \/ parent[s] >= d
    BY <1>1, <1>8, <2>1
  <2>3. d # s
    BY <1>8, <2>1
  <2> QED
    BY <1>8, <2>1, <2>2, <2>3
<1>9. ASSUME NEW j \in 1..n, c # 0, Reached(n, parent, part, c, j)
      PROVE  Reached(n, parent, part, i, j) /\ ReadBefore(parent, part, i, j)
  <2>1. i \notin part /\ P(i) = i /\ c > i /\ parent[c] = i /\ c \in 1..n /\ parent[i] < i
    BY <1>1, <1>2, <1>3, <1>5, <1>9
  <2>2. CASE c \in part
    <3>1. P(j) = i /\ j > i
      BY <1>3, <1>9, <2>1, <2>2 DEF Reached
    <3> QED
      BY <2>1, <3>1 DEF Reached, ReadBefore, P
  <2>3. CASE c \notin part
    <3>1. P(j) >= c /\ \A d \in (1..n) \ part : d > c /\ parent[d] < i => P(j) < d
      BY <1>9, <2>1, <2>3 DEF Reached, P
    <3>2. P(j) >= i /\ i < P(j)
      BY <1>3, <2>1, <3>1
    <3>3. \A d \in (1..n) \ part : d > i /\ parent[d] < parent[i] => P(j) < d
      <4> SUFFICES ASSUME NEW d \in (1..n) \ part, d > i, parent[d] < parent[i] PROVE P(j) < d
        OBVIOUS
      <4>1. parent[d] \in Nat /\ parent[i] \in Nat
        BY <1>3
      <4>2. parent[d] <= parent[i] /\ parent[d] < i
        BY <2>1, <4>1
      <4>3. d > c
        BY <1>7, <1>9, <2>3, <4>2
      <4> QED
        BY <3>1, <4>2, <4>3
    <3> QED
      BY <2>1, <3>2, <3>3 DEF Reached, ReadBefore, P
  <2> QED
    BY <2>2, <2>3
<1>10. ASSUME NEW j \in 1..n, s # 0, Reached(n, parent, part, s, j)
       PROVE  Reached(n, parent, part, i, j) /\ ReadBefore(parent, part, i, j)
  <2>1. s > i /\ parent[s] = parent[i] /\ s \in 1..n
    BY <1>2, <1>10
  <2>2. CASE i \in part
    <3>1. j \in part /\ parent[j] = parent[i] /\ j >= s
      BY <1>6, <1>10, <2>1, <2>2 DEF Reached
    <3>2. P(j) = P(i) /\ j > i
      BY <1>3, <2>1, <2>2, <3>1
    <3> QED
      BY <2>2, <3>1, <3>2 DEF Reached, ReadBefore, P
  <2>3. CASE i \notin part
    <3>1. P(j) >= s /\ \A d \in (1..n) \ part : d > s /\ parent[d] < parent[i] => P(j) < d
      BY <1>6, <1>10, <2>1, <2>3 DEF Reached, P
    <3>2. P(j) >= i /\ i < P(j) /\ P(i) = i
      BY <1>3, <2>1, <2>3, <3>1
    <3>3. \A d \in (1..n) \ part : d > i /\ parent[d] < parent[i] => P(j) < d
      BY <1>6, <1>8, <1>10, <2>3, <3>1
    <3> QED
      BY <2>3, <3>2, <3>3 DEF Reached, ReadBefore, P
  <2> QED
    BY <2>2, <2>3
<1>11. ASSUME NEW j \in 1..n, NEW k \in 1..n, c # 0, s # 0, Reached(n, parent, part, c, j), Reached(n, parent, part, s, k)
       PROVE  ReadBefore(parent, part, j, k)
  <2>1. /\ i \notin part /\ s \notin part /\ c > i /\ parent[c] = i /\ c \in 1..n /\ parent[i] < i
        /\ s > i /\ parent[s] = parent[i] /\ s \in 1..n
    BY <1>1, <1>2, <1>5, <1>6, <1>11
  <2>2. P(k) >= s
    BY <1>11, <2>1 DEF Reached, P
  <2>3. P(j) < s
    <3>1. CASE c \in part
      <4>1. P(j) = i
        BY <1>3, <1>11, <2>1, <3>1 DEF Reached
      <4> QED
        BY <2>1, <4>1
    <3>2. CASE c \notin part
      <4>1. \A d \in (1..n) \ part : d > c /\ parent[d] < i => P(j) < d
        BY <1>11, <2>1, <3>2 DEF Reached, P
      <4>2. parent[s] <= parent[i]
        BY <1>3, <2>1
      <4>3. s > c
        BY <1>7, <1>11, <2>1, <3>2, <4>2
      <4> QED
        BY <2>1, <4>1, <4>3
    <3> QED
      BY <3>1, <3>2
  <2>4. P(j) < P(k)
    BY <1>3, <2>1, <2>2, <2>3
  <2> QED
    BY <2>4 DEF ReadBefore, P
<1> QED
  BY <1>4, <1>9, <1>10, <1>11 DEF c, s

(* So the walk rises in every order that has what is read before before.   *)
ReadsRising(n, parent, part, node, R, f, i) ==
  /\ f[i] \in Seq(Nat) /\ Rising(f[i], R)
  /\ \A k \in DOMAIN f[i] : \E j \in 1..n : f[i][k] = node[j] /\ node[j] # 0 /\ Reached(n, parent, part, i, j)

LEMMA WalkRises ==
  ASSUME NEW n, NEW own, NEW child, NEW sibling, Onward(n, own, child, sibling),
         NEW f, ReadsOn(n, own, child, sibling, f),
         NEW parent, NEW part, Planted(n, parent, part, child, sibling),
         NEW node \in [1..n -> Nat], \A i \in 1..n : own[i] = IF node[i] = 0 THEN << >> ELSE <<node[i]>>,
         NEW R, \A j, k \in 1..n : node[j] # 0 /\ node[k] # 0 /\ ReadBefore(parent, part, j, k) => <<node[j], node[k]>> \in R
  PROVE  f[0] = << >> /\ \A i \in 1..n : ReadsRising(n, parent, part, node, R, f, i)
<1> DEFINE X == Nat
           Good(i) == ReadsRising(n, parent, part, node, R, f, i)
           S == {k \in Nat : \A i \in 1..n : n - i < k => Good(i)}
           Away(i, j) == Reached(n, parent, part, i, j)
<1>1. /\ n \in Nat /\ own \in [1..n -> Seq(Nat)] /\ child \in [1..n -> 0..n] /\ sibling \in [1..n -> 0..n]
      /\ \A i \in 1..n : (child[i] = 0 \/ child[i] > i) /\ (sibling[i] = 0 \/ sibling[i] > i)
  BY DEF Onward
<1>2. f[0] = << >> /\ \A i \in 1..n : f[i] = own[i] \o f[child[i]] \o f[sibling[i]]
  BY DEF ReadsOn
<1>3. ASSUME NEW i \in 1..n, child[i] # 0 => Good(child[i]), sibling[i] # 0 => Good(sibling[i])
      PROVE  Good(i)
  <2> DEFINE a == own[i]
             b == f[child[i]]
             c == f[sibling[i]]
             Of(s, e, k) == \E j \in 1..n : s[k] = node[j] /\ node[j] # 0 /\ e # 0 /\ Away(e, j)
  <2>1. << >> \in Seq(X) /\ DOMAIN << >> = {} /\ Rising(<< >>, R)
    BY DEF Rising
  <2>2. a \in Seq(X) /\ Rising(a, R) /\ \A k \in DOMAIN a : a[k] = node[i] /\ node[i] # 0
    <3>1. CASE node[i] = 0
      BY <2>1, <3>1
    <3>2. CASE node[i] # 0
      <4>1. a = <<node[i]>> /\ node[i] \in X
        BY <3>2
      <4>2. DOMAIN a = {1} /\ a[1] = node[i] /\ a \in Seq(X)
        BY <4>1
      <4> HIDE DEF a
      <4>3. Rising(a, R)
        BY <4>2 DEF Rising
      <4> QED
        BY <3>2, <4>2, <4>3
    <3> QED
      BY <3>1, <3>2
  <2>3. child[i] \in 0..n /\ sibling[i] \in 0..n
    BY <1>1
  <2>4. b \in Seq(X) /\ Rising(b, R) /\ \A k \in DOMAIN b : Of(b, child[i], k)
    <3>1. CASE child[i] = 0
      BY <1>2, <2>1, <3>1
    <3>2. CASE child[i] # 0
      BY <1>3, <3>2 DEF ReadsRising
    <3> QED
      BY <3>1, <3>2
  <2>5. c \in Seq(X) /\ Rising(c, R) /\ \A k \in DOMAIN c : Of(c, sibling[i], k)
    <3>1. CASE sibling[i] = 0
      BY <1>2, <2>1, <3>1
    <3>2. CASE sibling[i] # 0
      BY <1>3, <3>2 DEF ReadsRising
    <3> QED
      BY <3>1, <3>2
  <2>6. f[i] = (a \o b) \o c
    BY <1>2
  <2>7. /\ Away(i, i)
        /\ \A j \in 1..n : child[i] # 0 /\ Away(child[i], j) => Away(i, j) /\ ReadBefore(parent, part, i, j)
        /\ \A j \in 1..n : sibling[i] # 0 /\ Away(sibling[i], j) => Away(i, j) /\ ReadBefore(parent, part, i, j)
        /\ \A j, k \in 1..n : child[i] # 0 /\ sibling[i] # 0 /\ Away(child[i], j) /\ Away(sibling[i], k)
               => ReadBefore(parent, part, j, k)
    BY ReachedOn
  <2> DEFINE ab == a \o b
             abc == ab \o c
  <2> HIDE DEF a, b, c, X, Away
  <2>8. ab \in Seq(X) /\ Rising(ab, R)
    <3>1. \A k \in DOMAIN a, l \in DOMAIN b : <<a[k], b[l]>> \in R
      BY <2>2, <2>4, <2>7
    <3> QED
      BY <2>2, <2>4, <3>1, JoinedIs, RisingOn
  <2>9. \A k \in DOMAIN ab : (ab[k] = node[i] /\ node[i] # 0) \/ Of(ab, child[i], k)
    <3>1. \A k \in DOMAIN ab : \/ k \in DOMAIN a /\ ab[k] = a[k]
                               \/ k > Len(a) /\ k - Len(a) \in DOMAIN b /\ ab[k] = b[k - Len(a)]
      BY <2>2, <2>4, JoinedIs
    <3> HIDE DEF ab
    <3> QED
      BY <2>2, <2>4, <3>1
  <2> HIDE DEF ab
  <2>10. abc \in Seq(X) /\ Rising(abc, R)
    <3>1. \A k \in DOMAIN ab, l \in DOMAIN c : <<ab[k], c[l]>> \in R
      BY <2>5, <2>7, <2>9
    <3> QED
      BY <2>5, <2>8, <3>1, JoinedIs, RisingOn
  <2>11. \A k \in DOMAIN abc : (abc[k] = node[i] /\ node[i] # 0) \/ Of(abc, child[i], k) \/ Of(abc, sibling[i], k)
    <3>1. \A k \in DOMAIN abc : \/ k \in DOMAIN ab /\ abc[k] = ab[k]
                                \/ k > Len(ab) /\ k - Len(ab) \in DOMAIN c /\ abc[k] = c[k - Len(ab)]
      BY <2>5, <2>8, JoinedIs
    <3> HIDE DEF abc
    <3> QED
      BY <2>5, <2>9, <3>1
  <2>12. \A k \in DOMAIN abc : \E j \in 1..n : abc[k] = node[j] /\ node[j] # 0 /\ Away(i, j)
    <3> HIDE DEF abc
    <3> QED
      BY <2>7, <2>11
  <2>13. f[i] = abc
    BY <2>6 DEF ab
  <2> HIDE DEF abc
  <2> QED
    BY <2>10, <2>12, <2>13 DEF ReadsRising, X, Away
<1> HIDE DEF Good
<1>4. 0 \in S
  <2>1. \A i \in 1..n : ~(n - i < 0)
    BY <1>1
  <2> QED
    BY <2>1
<1>5. ASSUME NEW k \in Nat, k \in S PROVE k + 1 \in S
  <2> SUFFICES ASSUME NEW i \in 1..n, n - i < k + 1 PROVE Good(i)
    OBVIOUS
  <2>1. child[i] \in 0..n /\ sibling[i] \in 0..n /\ (child[i] = 0 \/ child[i] > i) /\ (sibling[i] = 0 \/ sibling[i] > i)
    BY <1>1
  <2>2. \A e \in 0..n : e > i => e \in 1..n /\ n - e < k
    BY <1>1
  <2>3. child[i] # 0 => Good(child[i])
    BY <1>5, <2>1, <2>2
  <2>4. sibling[i] # 0 => Good(sibling[i])
    BY <1>5, <2>1, <2>2
  <2> QED
    BY <1>3, <2>3, <2>4
<1> HIDE DEF S
<1>6. n + 1 \in S
  BY <1>1, <1>4, <1>5, Induction
<1>7. \A i \in 1..n : n - i < n + 1
  BY <1>1
<1> QED
  BY <1>2, <1>6, <1>7 DEF S, Good

-----------------------------------------------------------------------------
(* The tags are such a tree.                                               *)
FirstIn(S) == IF S = {} THEN None ELSE Min(S)

Parts == {i \in DOMAIN tags : tags[i].type = "Span"}
ParentOf == [i \in 1..Len(tags) |-> tags[i].parent]
NodeOfTag == [i \in 1..Len(tags) |-> tags[i].node]
OwnNodes == [i \in 1..Len(tags) |-> IF tags[i].node = None THEN << >> ELSE <<tags[i].node>>]
FirstChild == [i \in 1..Len(tags) |-> FirstIn({j \in DOMAIN tags : tags[j].parent = i})]
NextSibling == [i \in 1..Len(tags) |-> FirstIn({j \in (i + 1)..Len(tags) : tags[j].parent = tags[i].parent})]
FirstTag == FirstIn({j \in DOMAIN tags : tags[j].parent = None})

NodesRead == {n \in DOMAIN text : text[n].role # "Artifact"}
ReadPairs == {p \in Nat \X Nat : \/ FirstOfGroup(p[1]) < FirstOfGroup(p[2])
                                 \/ FirstOfGroup(p[1]) = FirstOfGroup(p[2]) /\ p[1] < p[2]}

LEMMA FirstInIs ==
  ASSUME NEW n \in Nat, NEW S \in SUBSET (1..n)
  PROVE  /\ FirstIn(S) \in 0..n
         /\ FirstIn(S) # 0 => FirstIn(S) \in S
         /\ \A j \in S : FirstIn(S) \in 1..j /\ FirstIn(S) \in S
<1>1. CASE S = {}
  BY <1>1 DEF FirstIn, None
<1>2. CASE S # {}
  <2>1. IsFiniteSet(S) /\ S \subseteq Int
    <3>1. IsFiniteSet(1..n) /\ S \subseteq 1..n
      BY PlacesAreFinite
    <3>2. IsFiniteSet(S)
      BY <3>1, FS_Subset
    <3> QED
      BY <3>1, <3>2
  <2>2. Min(S) \in S /\ \A j \in S : Min(S) <= j
    BY <1>2, <2>1, Lowest
  <2>3. FirstIn(S) = Min(S)
    BY <1>2 DEF FirstIn
  <2> DEFINE m == FirstIn(S)
  <2>4. m \in S /\ \A j \in S : m <= j
    BY <2>2, <2>3
  <2> HIDE DEF m
  <2>5. m \in 1..n /\ \A j \in S : j \in 1..n
    BY <2>4
  <2>6. \A j \in S : m \in 1..j
    BY <2>4, <2>5
  <2> QED
    BY <2>4, <2>5, <2>6 DEF m
<1> QED
  BY <1>1, <1>2

LEMMA TagsArePlanted ==
  ASSUME TagsOK, PreorderIn(tags), KindsIn(tags)
  PROVE  /\ Len(tags) \in Nat /\ DOMAIN tags = 1..Len(tags)
         /\ Onward(Len(tags), OwnNodes, FirstChild, NextSibling)
         /\ Planted(Len(tags), ParentOf, Parts, FirstChild, NextSibling)
         /\ Linked(Len(tags), ParentOf, FirstChild, NextSibling, FirstTag)
<1> DEFINE n == Len(tags)
           kids(i) == {j \in DOMAIN tags : tags[j].parent = i}
           after(i) == {j \in (i + 1)..Len(tags) : tags[j].parent = tags[i].parent}
<1>1. n \in Nat /\ DOMAIN tags = 1..n
  BY DEF TagsOK
<1>2. \A i \in 1..n : tags[i].parent \in 0..n /\ tags[i].parent < i /\ tags[i].node \in Nat
  <2> TAKE i \in 1..n
  <2>1. tags[i] \in TagSet /\ tags[i].parent < i
    BY <1>1 DEF TagsOK
  <2>2. tags[i].parent \in Nat /\ tags[i].node \in Nat
    BY <2>1 DEF TagSet
  <2> QED
    BY <1>1, <2>1, <2>2
<1>3. /\ \A i \in 1..n : ParentOf[i] = tags[i].parent /\ FirstChild[i] = FirstIn(kids(i)) /\ NextSibling[i] = FirstIn(after(i))
      /\ FirstTag = FirstIn(kids(0))
  BY DEF ParentOf, FirstChild, NextSibling, FirstTag, None
<1>4. ASSUME NEW i \in Nat
      PROVE  /\ FirstIn(kids(i)) \in 0..n
             /\ FirstIn(kids(i)) # 0 => FirstIn(kids(i)) \in 1..n /\ tags[FirstIn(kids(i))].parent = i
             /\ \A j \in 1..n : tags[j].parent = i => FirstIn(kids(i)) \in 1..j /\ tags[FirstIn(kids(i))].parent = i
  <2> DEFINE K == kids(i)
  <2>1. K \in SUBSET (1..n) /\ \A j \in 1..n : j \in K <=> tags[j].parent = i
    BY <1>1
  <2> HIDE DEF K, n
  <2>2. /\ FirstIn(K) \in 0..n
        /\ FirstIn(K) # 0 => FirstIn(K) \in K
        /\ \A j \in K : FirstIn(K) \in 1..j /\ FirstIn(K) \in K
    BY <1>1, <2>1, FirstInIs
  <2> QED
    BY <2>1, <2>2 DEF K, n
<1>5. ASSUME NEW i \in 1..n
      PROVE  /\ FirstIn(after(i)) \in 0..n
             /\ FirstIn(after(i)) # 0 => FirstIn(after(i)) \in 1..n /\ FirstIn(after(i)) > i /\ tags[FirstIn(after(i))].parent = tags[i].parent
             /\ \A j \in 1..n : i < j /\ tags[i].parent = tags[j].parent =>
                   FirstIn(after(i)) \in 1..j /\ tags[FirstIn(after(i))].parent = tags[i].parent
  <2> DEFINE K == after(i)
  <2>1. K \in SUBSET (1..n) /\ \A j \in 1..n : j \in K <=> i < j /\ tags[j].parent = tags[i].parent
    BY <1>1
  <2> HIDE DEF K, n
  <2>2. /\ FirstIn(K) \in 0..n
        /\ FirstIn(K) # 0 => FirstIn(K) \in K
        /\ \A j \in K : FirstIn(K) \in 1..j /\ FirstIn(K) \in K
    BY <1>1, <2>1, FirstInIs
  <2> QED
    BY <2>1, <2>2 DEF K, n
<1> HIDE DEF n, kids, after
<1>6. ASSUME NEW i \in 1..n PROVE FirstChild[i] = 0 \/ FirstChild[i] > i
  <2> DEFINE c == FirstChild[i]
  <2>1. i \in Nat
    BY <1>1
  <2>2. c \in 0..n /\ (c # 0 => c \in 1..n /\ tags[c].parent = i)
    BY <1>3, <1>4, <2>1
  <2> HIDE DEF c
  <2> QED
    BY <1>1, <1>2, <2>2 DEF c
<1>7. Onward(n, OwnNodes, FirstChild, NextSibling)
  <2>1. OwnNodes \in [1..n -> Seq(Nat)]
    <3>1. \A i \in 1..n : (IF tags[i].node = None THEN << >> ELSE <<tags[i].node>>) \in Seq(Nat)
      <4> TAKE i \in 1..n
      <4>1. tags[i].node \in Nat
        BY <1>2
      <4> QED
        BY <4>1
    <3> QED
      BY <3>1 DEF OwnNodes, n
  <2>2. \A i \in 1..n : FirstChild[i] \in 0..n /\ NextSibling[i] \in 0..n /\ (NextSibling[i] = 0 \/ NextSibling[i] > i)
    <3> TAKE i \in 1..n
    <3>1. i \in Nat
      BY <1>1
    <3> QED
      BY <1>3, <1>4, <1>5, <3>1
  <2>3. FirstChild \in [1..n -> 0..n] /\ NextSibling \in [1..n -> 0..n]
    BY <2>2 DEF FirstChild, NextSibling, n
  <2> QED
    BY <1>1, <1>6, <2>1, <2>2, <2>3 DEF Onward
<1>8. \A i \in 1..n : i \in Parts <=> tags[i].type = "Span"
  BY <1>1 DEF Parts
<1>9. ASSUME NEW i \in 1..n
      PROVE  IF i \in Parts THEN PointsIn(tags, tags[i].parent, "P")
             ELSE tags[i].parent = 0 \/ \E type \in Holders : PointsIn(tags, tags[i].parent, type)
  BY <1>1, <1>8 DEF KindsIn, None
<1>10. \A i \in 1..n : tags[i].parent \notin Parts
  BY <1>1, <1>9 DEF Parts, PointsIn, Holders
<1>11. \A i, j \in 1..n : tags[i].parent = tags[j].parent => (i \in Parts <=> j \in Parts)
  <2> SUFFICES ASSUME NEW i \in 1..n, NEW j \in 1..n, tags[i].parent = tags[j].parent, i \in Parts, j \notin Parts PROVE FALSE
    OBVIOUS
  <2>1. PointsIn(tags, tags[i].parent, "P")
    BY <1>9
  <2>2. tags[j].parent = 0 \/ \E type \in Holders : PointsIn(tags, tags[j].parent, type)
    BY <1>9
  <2> QED
    BY <1>1, <2>1, <2>2 DEF PointsIn, Holders
<1>12. \A i, j \in (1..n) \ Parts : i < j => tags[j].parent <= tags[i].parent \/ tags[j].parent >= i
  BY <1>1, <1>8 DEF PreorderIn
<1>13. \A i \in 1..n : /\ FirstChild[i] # 0 => FirstChild[i] \in 1..n /\ tags[FirstChild[i]].parent = i
                       /\ NextSibling[i] # 0 => NextSibling[i] \in 1..n /\ tags[NextSibling[i]].parent = tags[i].parent
  <2> TAKE i \in 1..n
  <2>1. i \in Nat
    BY <1>1
  <2> QED
    BY <1>3, <1>4, <1>5, <2>1
<1>14. ParentOf \in [1..n -> 0..n] /\ Parts \subseteq 1..n
  BY <1>1, <1>2 DEF ParentOf, Parts, n
<1>15. Planted(n, ParentOf, Parts, FirstChild, NextSibling)
  BY <1>2, <1>3, <1>10, <1>11, <1>12, <1>13, <1>14 DEF Planted
<1>16. FirstTag \in 0..n /\ \A j \in 1..n : ParentOf[j] = 0 => FirstTag \in 1..j /\ ParentOf[FirstTag] = 0
  <2>1. FirstTag \in 0..n /\ \A j \in 1..n : tags[j].parent = 0 => FirstTag \in 1..j /\ tags[FirstTag].parent = 0
    BY <1>3, <1>4
  <2>2. \A j \in 1..n : \A k \in 1..j : k \in 1..n
    BY <1>1
  <2> QED
    BY <1>3, <2>1, <2>2
<1>17. \A i, j \in 1..n : ParentOf[j] = i => FirstChild[i] \in 1..j /\ ParentOf[FirstChild[i]] = i
  <2> TAKE i \in 1..n, j \in 1..n
  <2>1. i \in Nat /\ \A k \in 1..j : k \in 1..n
    BY <1>1
  <2> QED
    BY <1>3, <1>4, <2>1
<1>18. \A i, j \in 1..n : i < j /\ ParentOf[i] = ParentOf[j] => NextSibling[i] \in 1..j /\ ParentOf[NextSibling[i]] = ParentOf[i]
  <2> TAKE i \in 1..n, j \in 1..n
  <2>1. \A k \in 1..j : k \in 1..n
    BY <1>1
  <2> QED
    BY <1>3, <1>5, <2>1
<1>19. Linked(n, ParentOf, FirstChild, NextSibling, FirstTag)
  BY <1>2, <1>3, <1>14, <1>16, <1>17, <1>18 DEF Linked
<1> QED
  BY <1>1, <1>7, <1>15, <1>19 DEF n

(* What is read before comes before in the reading order.                  *)
LEMMA NodesInOrder ==
  ASSUME TextOK(text), TagsOK, KindsIn(tags)
  PROVE  /\ \A i \in DOMAIN tags : tags[i].node # 0 => tags[i].node \in NodesRead
         /\ \A j, k \in DOMAIN tags : tags[j].node # 0 /\ tags[k].node # 0 /\ ReadBefore(ParentOf, Parts, j, k)
               => <<tags[j].node, tags[k].node>> \in ReadPairs
<1> DEFINE P(i) == PlaceIn(ParentOf, Parts, i)
<1>1. /\ Len(tags) \in Nat /\ DOMAIN tags = 1..Len(tags) /\ next \in 0..Len(text)
      /\ Len(text) \in Nat /\ DOMAIN text = 1..Len(text)
  BY PiecesOfAText DEF TagsOK
<1>2. \A i \in DOMAIN tags : tags[i].node # 0 => /\ tags[i].node \in DOMAIN text /\ tags[i].node \in Nat
                                                 /\ LeafFits(tags[i].node, tags[i].type)
  BY <1>1 DEF TagsOK, None
<1>3. ASSUME NEW i \in DOMAIN tags, tags[i].node # 0 PROVE tags[i].node \in NodesRead
  BY <1>2, <1>3 DEF NodesRead, LeafFits
<1>4. ASSUME NEW i \in DOMAIN tags, tags[i].node # 0
      PROVE  P(i) \in DOMAIN tags /\ tags[P(i)].node # 0 /\ FirstOfGroup(tags[i].node) = tags[P(i)].node
  <2>1. CASE i \in Parts
    <3>1. tags[i].type = "Span" /\ P(i) = tags[i].parent
      BY <1>1, <2>1 DEF Parts, PlaceIn, ParentOf
    <3>2. PointsIn(tags, tags[i].parent, "P") /\ tags[tags[i].parent].node = FirstOfGroup(tags[i].node)
      BY <3>1 DEF KindsIn
    <3>3. tags[tags[i].parent].node # None
      BY <3>2 DEF PointsIn, TagsOK, Groupings
    <3> QED
      BY <3>1, <3>2, <3>3 DEF PointsIn, None
  <2>2. CASE i \notin Parts
    <3>1. tags[i].type # "Span" /\ P(i) = i
      BY <2>2 DEF Parts, PlaceIn
    <3>2. FirstOfGroup(tags[i].node) = tags[i].node
      <4> DEFINE m == tags[i].node
      <4>1. m \in DOMAIN text /\ LeafFits(m, tags[i].type)
        BY <1>2, <1>4
      <4>2. FirstOfGroup(m) # m => text[m].role = "P"
        BY <4>1, FirstIs
      <4> HIDE DEF m
      <4>3. text[m].role = "P" => FirstOfGroup(m) = m
        BY <3>1, <4>1 DEF LeafFits
      <4> QED
        BY <4>2, <4>3 DEF m
    <3> QED
      BY <1>4, <3>1, <3>2
  <2> QED
    BY <2>1, <2>2
<1>5. \A i, j \in DOMAIN tags : i < j /\ tags[i].node # 0 /\ tags[j].node # 0 => tags[i].node < tags[j].node
  BY DEF TagsOK, None
<1>6. ASSUME NEW j \in DOMAIN tags, NEW k \in DOMAIN tags, tags[j].node # 0, tags[k].node # 0, ReadBefore(ParentOf, Parts, j, k)
      PROVE  <<tags[j].node, tags[k].node>> \in ReadPairs
  <2> DEFINE a == tags[j].node
             b == tags[k].node
  <2>1. a \in Nat /\ b \in Nat
    BY <1>2, <1>6
  <2>2. P(j) < P(k) \/ (P(j) = P(k) /\ j < k)
    BY <1>6 DEF ReadBefore
  <2>3. /\ P(j) \in DOMAIN tags /\ tags[P(j)].node # 0 /\ FirstOfGroup(a) = tags[P(j)].node
        /\ P(k) \in DOMAIN tags /\ tags[P(k)].node # 0 /\ FirstOfGroup(b) = tags[P(k)].node
    BY <1>4, <1>6
  <2>4. FirstOfGroup(a) < FirstOfGroup(b) \/ (FirstOfGroup(a) = FirstOfGroup(b) /\ a < b)
    <3> HIDE DEF P
    <3> QED
      BY <1>5, <1>6, <2>2, <2>3
  <2> HIDE DEF a, b
  <2>5. <<a, b>> \in Nat \X Nat /\ <<a, b>>[1] = a /\ <<a, b>>[2] = b
    BY <2>1
  <2>6. <<a, b>> \in ReadPairs
    BY <2>4, <2>5 DEF ReadPairs
  <2> QED
    BY <2>6 DEF a, b
<1> QED
  BY <1>3, <1>6

(* The reading order lists the nodes that are read.                        *)
LEMMA ReadingIsListed ==
  ASSUME TextOK(text)
  PROVE  /\ OrdersSet(ReadPairs, NodesRead)
         /\ InOrder(Sorted(NodesRead, LAMBDA m, n : \/ FirstOfGroup(m) < FirstOfGroup(n)
                                                    \/ FirstOfGroup(m) = FirstOfGroup(n) /\ m < n),
                    ReadPairs, NodesRead)
<1> DEFINE S == NodesRead
           Pre(m, n) == \/ FirstOfGroup(m) < FirstOfGroup(n)
                        \/ FirstOfGroup(m) = FirstOfGroup(n) /\ m < n
           N == Cardinality(S)
           s == Sorted(S, Pre)
<1>1. OrdersSet(ReadPairs, S)
  <2>1. Len(text) \in Nat /\ DOMAIN text = 1..Len(text)
    BY PiecesOfAText
  <2>2. S \subseteq 1..Len(text)
    BY <2>1 DEF NodesRead
  <2>3. IsFiniteSet(S)
    <3>1. IsFiniteSet(1..Len(text))
      BY <2>1, PlacesAreFinite
    <3> QED
      BY <2>2, <3>1, FS_Subset
  <2>4. \A x \in S : x \in Nat /\ FirstOfGroup(x) \in Nat
    <3> TAKE x \in S
    <3>1. x \in DOMAIN text /\ x \in Nat
      BY <2>1, <2>2
    <3>2. FirstOfGroup(x) \in 1..x
      BY <3>1, FirstIs
    <3> QED
      BY <3>1, <3>2
  <2>5. \A x, y \in S : <<x, y>> \in ReadPairs <=> Pre(x, y)
    BY <2>4 DEF ReadPairs
  <2> HIDE DEF S
  <2>6. /\ \A x, y \in S : ~(Pre(x, y) /\ Pre(y, x))
        /\ \A x, y \in S : x # y => Pre(x, y) \/ Pre(y, x)
        /\ \A x, y, z \in S : Pre(x, y) /\ Pre(y, z) => Pre(x, z)
    BY <2>4
  <2> HIDE DEF Pre
  <2> QED
    BY <2>3, <2>5, <2>6 DEF OrdersSet
<1>2. ASSUME NEW x \in S PROVE Cardinality({y \in S : Pre(y, x)}) = Count(ReadPairs, S, x)
  <2>1. \A y \in S : y \in Nat /\ x \in Nat
    <3>1. DOMAIN text \subseteq Nat
      BY PiecesOfAText
    <3> QED
      BY <3>1 DEF NodesRead
  <2>2. {y \in S : Pre(y, x)} = Earlier(ReadPairs, S, x)
    BY <2>1 DEF Earlier, ReadPairs
  <2> QED
    BY <2>2 DEF Count
<1>3. ASSUME NEW i \in 1..N PROVE s[i] \in S /\ Count(ReadPairs, S, s[i]) = i - 1
  <2>1. \E x \in S : Count(ReadPairs, S, x) = i - 1
    BY <1>1, EveryCountIsTaken
  <2>2. \E x \in S : Cardinality({y \in S : Pre(y, x)}) = i - 1
    BY <1>2, <2>1
  <2>3. s[i] = CHOOSE x \in S : Cardinality({y \in S : Pre(y, x)}) = i - 1
    BY DEF Sorted
  <2>4. s[i] \in S /\ Cardinality({y \in S : Pre(y, s[i])}) = i - 1
    <3> HIDE DEF s
    <3> QED
      BY <2>2, <2>3
  <2> QED
    BY <1>2, <2>4, ZenonT(40)
<1>4. s \in [1..N -> S]
  BY <1>3 DEF Sorted
<1>5. InOrder(s, ReadPairs, S)
  <2> HIDE DEF s
  <2> QED
    BY <1>1, <1>3, <1>4, Counting, ZenonT(40) DEF s
<1> QED
  BY <1>1, <1>5, ZenonT(40)

LEMMA WalkFollows ==
  ASSUME TagInv, ReadInv, next = Len(text)
  PROVE  Walk = Sorted(NodesRead, LAMBDA m, n : \/ FirstOfGroup(m) < FirstOfGroup(n)
                                                \/ FirstOfGroup(m) = FirstOfGroup(n) /\ m < n)
<1> DEFINE First(T) == IF T = {} THEN None ELSE Min(T)
           Steps(g) == [i \in 0..Len(tags) |->
                          IF i = None THEN << >>
                          ELSE (IF tags[i].node = None THEN << >> ELSE <<tags[i].node>>)
                               \o g[First({j \in DOMAIN tags : tags[j].parent = i})]
                               \o g[First({j \in (i + 1)..Len(tags) : tags[j].parent = tags[i].parent})]]
           from == CHOOSE g : g = Steps(g)
           t == from[First({j \in DOMAIN tags : tags[j].parent = None})]
           n == Len(tags)
<1>1. TextOK(text) /\ TagsOK /\ PreorderIn(tags) /\ KindsIn(tags)
  BY DEF TagInv, Tidy, ReadInv
<1>2. /\ n \in Nat /\ DOMAIN tags = 1..n
      /\ Onward(n, OwnNodes, FirstChild, NextSibling) /\ Planted(n, ParentOf, Parts, FirstChild, NextSibling)
      /\ Linked(n, ParentOf, FirstChild, NextSibling, FirstTag)
  BY <1>1, TagsArePlanted
<1>3. \A g : Steps(g) = ReadOnFrom(n, OwnNodes, FirstChild, NextSibling, g)
  <2> TAKE g
  <2>1. ASSUME NEW i \in 0..n
        PROVE  Steps(g)[i] = IF i = 0 THEN << >> ELSE OwnNodes[i] \o g[FirstChild[i]] \o g[NextSibling[i]]
    <3>1. CASE i = 0
      BY <1>2, <3>1 DEF None
    <3>2. CASE i # 0
      <4> DEFINE kids == {j \in DOMAIN tags : tags[j].parent = i}
                 after == {j \in (i + 1)..Len(tags) : tags[j].parent = tags[i].parent}
                 own == IF tags[i].node = None THEN << >> ELSE <<tags[i].node>>
      <4>1. i \in 1..Len(tags) /\ i # None
        BY <1>2, <3>2 DEF None
      <4>2. OwnNodes[i] = own /\ FirstChild[i] = FirstIn(kids) /\ NextSibling[i] = FirstIn(after)
        BY <4>1 DEF OwnNodes, FirstChild, NextSibling
      <4>3. FirstIn(kids) = First(kids) /\ FirstIn(after) = First(after)
        BY SMTT(30) DEF FirstIn
      <4>4. Steps(g)[i] = own \o g[First(kids)] \o g[First(after)]
        BY <4>1
      <4> HIDE DEF kids, after, own, Steps, First
      <4> QED
        BY <3>2, <4>2, <4>3, <4>4
    <3> QED
      BY <3>1, <3>2
  <2>2. Steps(g) = [i \in 0..n |-> Steps(g)[i]]
    OBVIOUS
  <2> HIDE DEF Steps, n
  <2> QED
    BY <2>1, <2>2 DEF ReadOnFrom
<1>4. from = Steps(from)
  <2>1. \E g : g = ReadOnFrom(n, OwnNodes, FirstChild, NextSibling, g)
    BY <1>2, WalkExists
  <2>2. \E g : g = Steps(g)
    <3> HIDE DEF Steps
    <3> QED
      BY <1>3, <2>1
  <2> HIDE DEF Steps
  <2> QED
    BY <2>2
<1>5. t = from[FirstTag]
  <2>1. FirstTag = First({j \in DOMAIN tags : tags[j].parent = None})
    BY DEF FirstTag, FirstIn
  <2> HIDE DEF from, First
  <2> QED
    BY <2>1
<1>6. Walk = t
  BY DEF Walk
<1> HIDE DEF from, t, Steps, n, First
<1>7. from = ReadOnFrom(n, OwnNodes, FirstChild, NextSibling, from)
  BY <1>3, <1>4
<1>8. ReadsOn(n, OwnNodes, FirstChild, NextSibling, from)
  BY <1>2, <1>7, WalkAt
<1>9. /\ \A i \in 1..n : NodeOfTag[i] = tags[i].node /\ OwnNodes[i] = (IF NodeOfTag[i] = 0 THEN << >> ELSE <<NodeOfTag[i]>>)
      /\ NodeOfTag \in [1..n -> Nat]
  <2>1. \A i \in 1..n : tags[i] \in TagSet
    BY <1>1, <1>2 DEF TagsOK
  <2>2. \A i \in 1..n : tags[i].node \in Nat
    BY <2>1 DEF TagSet
  <2> QED
    BY <2>2 DEF NodeOfTag, OwnNodes, None, n
<1>10. /\ \A i \in 1..n : tags[i].node # 0 => tags[i].node \in NodesRead
       /\ \A j, k \in 1..n : tags[j].node # 0 /\ tags[k].node # 0 /\ ReadBefore(ParentOf, Parts, j, k)
             => <<tags[j].node, tags[k].node>> \in ReadPairs
  BY <1>1, <1>2, NodesInOrder
<1>11. from[0] = << >> /\ \A i \in 1..n : ReadsRising(n, ParentOf, Parts, NodeOfTag, ReadPairs, from, i)
  <2>1. \A j, k \in 1..n : NodeOfTag[j] # 0 /\ NodeOfTag[k] # 0 /\ ReadBefore(ParentOf, Parts, j, k)
             => <<NodeOfTag[j], NodeOfTag[k]>> \in ReadPairs
    BY <1>9, <1>10
  <2>2. NodeOfTag \in [1..n -> Nat] /\ \A i \in 1..n : OwnNodes[i] = IF NodeOfTag[i] = 0 THEN << >> ELSE <<NodeOfTag[i]>>
    BY <1>9
  <2>3. Onward(n, OwnNodes, FirstChild, NextSibling) /\ Planted(n, ParentOf, Parts, FirstChild, NextSibling)
    BY <1>2
  <2> QED
    BY <1>8, <2>1, <2>2, <2>3, WalkRises
<1>12. \A i \in 0..n : /\ from[i] \in Seq(Nat) /\ Rising(from[i], ReadPairs)
                       /\ \A k \in DOMAIN from[i] : from[i][k] \in NodesRead
  <2> TAKE i \in 0..n
  <2>1. CASE i = 0
    <3>1. << >> \in Seq(Nat) /\ DOMAIN << >> = {} /\ Rising(<< >>, ReadPairs)
      BY DEF Rising
    <3> QED
      BY <1>11, <2>1, <3>1
  <2>2. CASE i # 0
    <3>1. i \in 1..n
      BY <1>2, <2>2
    <3> QED
      BY <1>9, <1>10, <1>11, <3>1, ZenonT(40) DEF ReadsRising
  <2> QED
    BY <2>1, <2>2
<1>13. FirstTag \in 0..n /\ \A i \in 1..n : AllIn(OwnNodes[i], from[FirstTag])
  <2>1. \A i \in 0..n : from[i] \in Seq(Nat)
    BY <1>12
  <2>2. Onward(n, OwnNodes, FirstChild, NextSibling) /\ Linked(n, ParentOf, FirstChild, NextSibling, FirstTag)
    BY <1>2
  <2>3. \A i \in 1..n : AllIn(OwnNodes[i], from[FirstTag])
    BY <1>8, <2>1, <2>2, WalkReadsAll
  <2> QED
    BY <2>2, <2>3 DEF Linked
<1>14. t \in Seq(Nat) /\ Rising(t, ReadPairs) /\ \A k \in DOMAIN t : t[k] \in NodesRead
  BY <1>5, <1>12, <1>13
<1>15. t \in Seq(NodesRead)
  <2>1. Len(t) \in Nat /\ DOMAIN t = 1..Len(t) /\ t = [k \in 1..Len(t) |-> t[k]]
    BY <1>14
  <2> QED
    BY <1>14, <2>1
<1>16. ASSUME NEW x \in NodesRead PROVE \E k \in DOMAIN t : t[k] = x
  <2>1. x \in 1..next /\ text[x].role # "Artifact" /\ x # 0
    BY <1>1, PiecesOfAText DEF NodesRead
  <2>2. PICK i \in 1..n : tags[i].node = x
    BY <1>1, <1>2, <2>1 DEF TagsOK
  <2>3. OwnNodes[i] = <<x>>
    BY <1>9, <2>1, <2>2
  <2>4. 1 \in DOMAIN OwnNodes[i] /\ OwnNodes[i][1] = x
    BY <2>3
  <2> QED
    BY <1>5, <1>13, <2>4 DEF AllIn
<1>17. OrdersSet(ReadPairs, NodesRead)
  BY <1>1, ReadingIsListed, ZenonT(40)
<1> DEFINE s == Sorted(NodesRead, LAMBDA m, k : \/ FirstOfGroup(m) < FirstOfGroup(k)
                                                \/ FirstOfGroup(m) = FirstOfGroup(k) /\ m < k)
<1>18. InOrder(s, ReadPairs, NodesRead)
  BY <1>1, ReadingIsListed, ZenonT(40)
<1> HIDE DEF s
<1>19. s = t
  BY <1>14, <1>15, <1>16, <1>17, <1>18, ListedOnce
<1> QED
  BY <1>6, <1>19, ZenonT(40) DEF s

(* While a text is tagged, its tags are in preorder and what the loop may  *)
(* still add to is open.                                                   *)
ReadingInv == step = "tagging" => ReadInv

LEMMA ReadingInvStarts == GridInit => ReadingInv
<1> SUFFICES ASSUME GridInit, step = "tagging" PROVE ReadInv
  BY DEF ReadingInv
<1>1. NothingTagged
  BY DEF GridInit, TagInit
<1> QED
  BY <1>1, NothingTaggedReads

LEMMA ReadingInvIsKept ==
  ASSUME TextInv, OutlineInv, ReadingInv, [GridNext]_allVars
  PROVE  ReadingInv'
<1> SUFFICES ASSUME step' = "tagging" PROVE ReadInv'
  BY DEF ReadingInv
<1>1. CASE BeginTagging
  <2>1. step \in {"ordered", "fallback"} /\ UNCHANGED <<next, tags, sections, lists, table, diagram>>
    BY <1>1 DEF BeginTagging
  <2>2. NothingTagged'
    BY <2>1 DEF TextInv, NothingTagged, Untagged, Sorting
  <2> QED
    BY <2>2, NothingTaggedReads, PTL
<1>2. CASE TagStep
  <2>1. step = "tagging"
    BY <1>2, TagStepReads
  <2>2. TagInv /\ StackedOK /\ ReadInv
    BY <2>1 DEF TextInv, OutlineInv, HeadInv, ReadingInv, Written
  <2> QED
    BY <1>2, <2>2, StepReads
<1>3. CASE UNCHANGED <<step, doc, result, outline, tagVars>>
  <2>1. ReadInv /\ UNCHANGED tagVars
    BY <1>3 DEF ReadingInv, tagVars
  <2>2. UNCHANGED <<text, next, tags, sections, lists, table, diagram>>
    BY <2>1 DEF tagVars
  <2>3. (PreorderIn(tags) /\ KindsIn(tags))'
    BY <2>1, <2>2 DEF ReadInv, KindsIn, FirstOfGroup
  <2>4. ListsRead' /\ RowsRead'
    BY <2>1, <2>2 DEF ReadInv, ListsRead, RowsRead, RowRead, Innermost, Open
  <2> QED
    BY <2>1, <2>2, <2>3, <2>4 DEF ReadInv, Innermost, Open
<1> QED
  BY <1>1, <1>2, <1>3, StepsToTagging

(* TagsFollowReading, of every text and every page.                        *)
THEOREM TagsFollowTheReading == GridSpec => []TagsFollowReading
<1>1. TextInv /\ ReadingInv => TagsFollowReading
  <2> SUFFICES ASSUME TextInv, ReadingInv, Tagged PROVE TagsFollowReading
    BY ZenonT(40) DEF TagsFollowReading
  <2>1. TagInv /\ ReadInv /\ next = Len(text)
    BY DEF TextInv, ReadingInv, Tagged, Written
  <2> QED
    BY <2>1, WalkFollows, ZenonT(40) DEF TagsFollowReading, NodesRead
<1>2. GridInit => NestInv /\ OutlineInv /\ ReadingInv
  BY StartHasNoOutline, OutlineInvStarts, ReadingInvStarts
<1>3. ResultInv /\ NestInv /\ TextInv /\ OutlineInv /\ ReadingInv /\ [GridNext]_allVars => (NestInv /\ OutlineInv /\ ReadingInv)'
  BY NestInvIsKept, OutlineInvIsKept, ReadingInvIsKept DEF allVars
<1> QED
  BY <1>1, <1>2, <1>3, TextInvHolds, PTL DEF GridSpec, allVars
=============================================================================
