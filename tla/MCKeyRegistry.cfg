SPECIFICATION Spec
CONSTANTS
  Key = {k1, k2}
  Caller = {c1, c2, c3}
  Torn = Torn
SYMMETRY Symmetric
INVARIANT TypeOK
INVARIANT AnswersSurvive
INVARIANT QuietFileAgrees
PROPERTY DiskNeverGoesBack
