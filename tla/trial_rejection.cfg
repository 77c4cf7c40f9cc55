CONSTANTS
  a = a
  b = b
  c = c
  d = d
  Node <- FourNodes
  Trial = {t1}
  Proposal = {p1}
  NoProposal = NoProposal
  MinConsensus = 60
  Targets <- AllOthers
  Listeners = {a}
  Outcomes <- Verdicts
  Contested = {t1}
  MaxRuns = 1
  MaxHistory = 2
  Duplicates = TRUE
SPECIFICATION Spec
INVARIANTS RejectionRetires
