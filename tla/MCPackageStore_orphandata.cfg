CONSTANTS
  a = a
  a2 = a2
  b = b
  x = x
  A = A
  B = B
  cap = cap
  Development = Development
  None = None
  Package = {a, a2, b}
  Revision = {A, B}
  Owner = {x, Development}
  Capability = {cap}
  Session = {s1}
  d1 = d1
  d2 = d2
  d3 = d3
  Dir = {d1, d2, d3}
  NoDir = NoDir
  Faults = {}
  Digest <- MCDigest
  Signer <- MCSigner
  Declares <- MCDeclares
  UsesData <- MCUsesData
SYMMETRY Interchangeable
SPECIFICATION Spec
INVARIANTS
  RecordCoversData
CHECK_DEADLOCK FALSE
