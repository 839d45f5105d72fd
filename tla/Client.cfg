\* One page on one attempt: four moves it did not make (fewer beside the larger
\* parts), one answer lost or reload, one visit elsewhere; two files and two
\* edits, two hints.
SPECIFICATION Spec
CONSTANTS
  MaxMoves = 4
  Beside <- Few
  MaxLost = 1
  MaxVisits = 1
  Paths = {"main.tf", "run.sh"}
  MaxEdits = 2
  Ladder = 2
INVARIANT OneTerminal
INVARIANT SavedIsSaved
INVARIANT CostIsAskedFor
PROPERTY WaitsEnd
CHECK_DEADLOCK FALSE
