SPECIFICATION FairSpec
CONSTANTS
  c1 = c1
  c2 = c2
  d1 = d1
  d2 = d2
  r1 = r1
  Populations <- MCPopulations
  SessionKeys = {k1}
  ExecutionKeys = {k1, k2}
  SignalKeys = {k1}
  Bodies = {1, 2}
  MaxClaims = 3
  MaxStreams = 4
  MaxBreaks = 2
CHECK_DEADLOCK FALSE
INVARIANTS
  PipelineInv
  OncePerKey
  NoSilentGap
PROPERTIES
  SignalsInForce
  MessagesSettle
  ReadersCatchUp
