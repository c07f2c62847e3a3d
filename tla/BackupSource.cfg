\* Three activations against failing commands, kills, a power loss and a further
\* start of the reconcile unit.
CONSTANTS
  player = player
  cache = cache
  config = config
  saves = saves
  Cache = {cache}
  Place = {player, cache, config, saves}
  Home = {player, cache, config}
  Root = {player, saves}
  Own <- MCOwn
  MaxRuns = 3
  MaxReconciles = 1
  MaxPowerLosses = 1
  MaxLinks = 1
SPECIFICATION Spec
INVARIANTS
  FreshSource
  RootsAreKept
  NothingLeft
  OkMeansStored
