CONSTANTS
  Requests = {r1, r2}
  Kinds = {"settings", "remove", "favorite", "list"}
  Lifetime = 1
  DiskFails = TRUE
  Ends = {"stop", "crash"}
  Earlier = {"other"}
  Nothing = Nothing
SPECIFICATION Spec
SYMMETRY Symmetry
INVARIANTS NoReplay FavoritesKept ToldTheTruth
PROPERTY OthersKept
