CONSTANTS
  t1 = t1
  r1 = r1
  r2 = r2
  i0 = i0
  i1 = i1
  a = a
  f = f
  g = g
  p1 = p1
  p2 = p2
  Absent = Absent
  Texts <- MCTexts
  Reasons <- MCReasons
  Indices <- MCIndices
  Ids <- MCIds
  Names <- MCNames
  Pieces <- MCPieces
  MaxDeltas = 4
SPECIFICATION Spec
SYMMETRY MCSymmetry
INVARIANTS
  TypeOK
CHECK_DEADLOCK FALSE
