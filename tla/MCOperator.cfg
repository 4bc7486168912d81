SPECIFICATION Spec
CONSTANTS
  s1 = s1
  s2 = s2
  c1 = c1
  a1 = a1
  p0 = p0
  p1 = p1
  q1 = q1
  k0 = k0
  k1 = k1
  d1 = d1
  Core = core
  DefaultId = k0
  ServerThreads <- TwoServerThreads
  Commands <- OneCommand
  Agents <- OneAgent
  Packs <- TwoPacks
  Proofs <- OneProof
  Shipped <- OnePack
  SpecOrder <- TwoSpecs
  PackAgents <- Deltas
  KeyIds <- TwoKeys
  Pipelines <- OneDocument
  FormatOrder <- TwoFormats
  Histories <- NewAndUsed
  MaxRequests <- Bounds
  MaxBusy = 2
  MaxDeaths = 1
SYMMETRY Symmetric
INVARIANTS ReadyWasTested PromotionKept GrantsStand ActiveInForce KeysStand PipelinesStand
CHECK_DEADLOCK FALSE
