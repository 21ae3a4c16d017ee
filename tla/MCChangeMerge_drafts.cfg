SPECIFICATION Spec
CONSTANTS
  c1 = c1
  c2 = c2
  n1 = n1
  n2 = n2
  x = x
  y = y
  Old = Old
  New = New
  Initial = Old
  Untouched = Untouched
  NoTx = NoTx
  Changes <- MCChanges
  Nodes <- MCNodes
  Props <- MCProps
  Values <- MCValues
  ValuesOf <- OwnValue
  Editable <- MCEditable
  MergeUnsettled = FALSE
  GiveUpAll = TRUE
  MaxFirst = 3
  MaxSecond = 3
  MaxVersions <- MCVersions
  MaxMerges = 3
SYMMETRY Alike
CHECK_DEADLOCK FALSE
INVARIANT DraftsStand
