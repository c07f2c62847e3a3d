\* A report against two activations.
CONSTANTS
  player = player
  cache = cache
  config = config
  saves = saves
  Cache = {cache}
  Place = {player, cache, config, saves}
  Home = {player, cache, config}
  Root = {player, saves}
  Own <- MCOwn
  MaxRuns = 2
  MaxReconciles = 0
  MaxPowerLosses = 0
  MaxLinks = 0
SPECIFICATION Spec
PROPERTIES
  FailureIsTold
