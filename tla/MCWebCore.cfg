\* Two controls and three calls; three effects over two signals; two projects and two
\* navigations; three edits of a filter; a dialog with a picker; one of each control.
CONSTANTS
  None = None
  Parts = {"data", "signals", "shell", "filters", "overlays", "widgets"}
  Controls = {1, 2} Scopes = {1} MaxCalls = 3
  sig1 = sig1 sig2 = sig2 e1 = e1 e2 = e2 e3 = e3
  Sources = {sig1, sig2} Effects = {e1, e2, e3} Values = {0, 1, 2, 3}
  Derive <- Derived Reads <- Read Writes <- Written Batched = {e1}
  MaxPasses = 4 MaxSets = 2
  Projects = {1, 2} Slugs = {"k"} Screens <- OneEmpty Tasks <- InSecond Mine = {8, 9}
  Users = {"member"} MaxMoves = 2 MaxOpen = 1 MaxChanges = 1
  Queries = {"", "a", "b"} Blank = "" Hits <- HitsOf
  Keys <- Bound RowHeight = 2 Overscan = 1 MaxRows = 5 MaxHeight = 5 Firsts <- MonthsOf Week = 3 MaxAsked = 3
SPECIFICATION FairSpec
INVARIANTS TypeOK WritesTrue InFlightExact UpToDate ShellFollows FilterTrue ControlsTrue
PROPERTIES OwnSteps AllSettle
CHECK_DEADLOCK FALSE
