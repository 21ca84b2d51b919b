SPECIFICATION GridSpec
CONSTANTS
  Documents <- MCDocuments
  Epsilon = 2
  Pages <- MCPages
  PageWidth = 17
  LineHeight = 4
  RowHeight = 2
  Texts <- MCTexts
INVARIANT ComparatorIsAnOrder
INVARIANT LeastExtension
INVARIANT OutlineNests
INVARIANT TwoColumnsAreOrderable
INVARIANT RelationsAreObeyed
INVARIANT TagsFollowReading
INVARIANT SectionsFollowOutline
INVARIANT TablesKeepTheirNames
INVARIANT TablesAreTiled
CHECK_DEADLOCK FALSE
