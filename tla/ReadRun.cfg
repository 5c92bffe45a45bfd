SPECIFICATION PFairSpec
CONSTANTS
  Key = {ka, kb, kc}
  Burst = 2
  Bound = 3
  Limit = 6
  Written = {ka}
  Skews <- MCSkews
  Margin = 2
  Grain = 2
INVARIANT EachKeyOnce
INVARIANT HonestHits
INVARIANT PairsAreSound
INVARIANT FarFirstIsTrue
PROPERTY Terminates
CHECK_DEADLOCK FALSE
