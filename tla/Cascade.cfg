SPECIFICATION Spec
CONSTANTS
  Issues = {1, 2}
  PRs = {8, 9}
  Texts <- MCTexts
  Priority <- MCPriority
  Parent <- MCParent
  Mentions <- MCMentions
  PMs = {1}
  Scaffolds = {1}
  Passes = {w1, w2}
  MaxRounds = 2
  PageSize = 2
  MaxExtras = 1
SYMMETRY Symmetry
INVARIANTS PassComplete ParentsSettled
PROPERTIES UnblocksAsGate
CHECK_DEADLOCK FALSE
