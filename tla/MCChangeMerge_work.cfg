SPECIFICATION Spec
CONSTANTS
  c1 = c1
  c2 = c2
  n1 = n1
  n2 = n2
  x = x
  y = y
  Old = Old
  New = New
  Initial = Old
  Untouched = Untouched
  NoTx = NoTx
  Changes <- MCChanges
  Nodes <- MCNodes
  Props <- MCProps
  Values <- MCValues
  ValuesOf <- OwnValue
  Editable <- MCEditable
  MergeUnsettled = FALSE
  GiveUpAll = FALSE
  MaxFirst = 4
  MaxSecond = 2
  MaxVersions <- MCVersions
  MaxMerges = 2
SYMMETRY Alike
CHECK_DEADLOCK FALSE
INVARIANTS TypeOK WorkKept HoldsPrefix
PROPERTIES MainMovesForward AsPromised
