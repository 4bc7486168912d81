SPECIFICATION Spec
CONSTANTS
  o1 = o1
  o2 = o2
  f1 = f1
  a1 = a1
  p1 = p1
  Original = Original
  Pack = Pack
  Torn = Torn
  Contents <- AllContents
  New = New
  Types <- OneType
  PackTypes <- OneType
  Proposals <- OneProposal
  Operators <- TwoOperators
  Profiles <- NoProfile
  Agents <- NoAgent
  MaxCrashes = 0
SYMMETRY Requests
INVARIANTS
  RejectedNotInForce
CHECK_DEADLOCK FALSE
