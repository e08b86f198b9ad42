\* Two workers of either script: two drafts each, a token limit that the
\* second feedback exceeds.
\* No symmetry, for the liveness.  The run is over in the end.
SPECIFICATION FairSpec
CONSTANTS
  Workers = {w1, w2}
  Scripts = {"blocks", "whole"}
  MaxTokens = 1
  MaxIters = 3
  MaxSketches = 2
  Blocks = 2
  NoSketch = NoSketch
  Torn = Torn
INVARIANTS
  ResultFilesVerified
  NoSuccessMissed
  ProvedIsShown
  BlocksAddUp
PROPERTIES
  QuietAfterEnd
  RunEndsUnlessLost
CHECK_DEADLOCK FALSE
