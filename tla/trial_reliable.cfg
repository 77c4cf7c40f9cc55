CONSTANTS
  a = a
  b = b
  c = c
  d = d
  Node <- ThreeNodes
  Trial = {t1, t2}
  Proposal = {p1, p2}
  NoProposal = NoProposal
  MinConsensus = 60
  Targets <- AllOthers
  Listeners = {a}
  Outcomes <- Verdicts
  Contested = {t1}
  MaxRuns = 1
  MaxHistory = 2
  Duplicates = FALSE
SPECIFICATION ReliableSpec
INVARIANTS EvidenceIsReal
PROPERTIES ImplementsLedger UnanimityIsAccepted
CHECK_DEADLOCK FALSE
