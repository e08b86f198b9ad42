\* The worker's own clock and the parent's wait.
SPECIFICATION FairSpec
CONSTANTS
  Workers = {w1, w2}
  Scripts = {"blocks", "whole"}
  MaxTokens = 0
  MaxIters = 2
  MaxSketches = 1
  Blocks = 1
  NoSketch = NoSketch
  Torn = Torn
PROPERTIES
  RunEnds
CHECK_DEADLOCK FALSE
