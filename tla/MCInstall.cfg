SPECIFICATION Spec
CONSTANTS
  server = server
  tools = tools
  redaction = redaction
  pipeline = pipeline
  Procs <- TwoProcs
  Server = server
  Governance <- GovernanceCircuits
  Entity <- EntityCircuits
  Commands <- Tools
  OldKeys <- AnyInstance
  MaxCommands = 2
  MaxFaults = 1
INVARIANTS
  PairsMatch
  
  
  ManifestsCurrent
  TranscriptStands
PROPERTIES
  KeysKept
CHECK_DEADLOCK FALSE
