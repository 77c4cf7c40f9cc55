CONSTANTS
  a = a
  b = b
  c = c
  d = d
  Node <- FourNodes
  Trial = {t1}
  Proposal = {p1}
  NoProposal = NoProposal
  MinConsensus = 60
  Targets <- AllOthers
  Listeners = {a}
  Outcomes <- Verdicts
  Contested = {t1}
  MaxRuns = 2
  MaxHistory = 1
  Duplicates = TRUE
SPECIFICATION Spec
SYMMETRY PermutedPeers
INVARIANTS TypeOK OneBallotPerNode AcceptanceIsBacked
PROPERTIES VotingIsTerminal
