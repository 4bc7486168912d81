SPECIFICATION Spec
CONSTANTS
  o1 = o1
  o2 = o2
  f1 = f1
  a1 = a1
  p1 = p1
  Original = Original
  Pack = Pack
  Torn = Torn
  Contents <- AllContents
  New = New
  Types <- TwoTypes
  PackTypes <- OneType
  Proposals <- OneProposal
  Operators <- OneOperator
  Profiles <- OneProfile
  Agents <- OneAgent
  MaxCrashes = 1
INVARIANTS
  BaselineIsApproved
  FileIsGoverned
  SequentialIsSafe
  LoadsAreApproved
  RejectionIsFinal
CHECK_DEADLOCK FALSE
