SPECIFICATION PageSpec
CONSTANTS
  Documents = {}
  Epsilon = 2
  Pages <- SmallPages
  PageWidth = 17
  LineHeight = 4
  RowHeight = 2
INVARIANT NoMergeThroughHeadings
CHECK_DEADLOCK FALSE
