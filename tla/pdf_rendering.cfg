SPECIFICATION ViewerSpec
CONSTANTS
  PageCount = 4
  VisiblePages <- MCVisiblePages
  VisibleThumbs = {1}
  BrokenPages = {4}
  LargePages = {2}
  PreRenderExtra = FALSE
  CacheSize = 2
  MaxEvents = 2
  PageTotal = 3
  Queries = {"a", "b"}
  MatchesIn <- MCMatchesIn
  LayerPages = {2}
  MaxFinds = 3
  MaxTasks = 3
  MaxTries = 2
  MaxLooks = 2
  PropertyPages = {1, 2}
  MaxOpens = 3
  MaxEdits = 1
  LatePanels = {"outline"}
  PrintPages = 2
  MaxPrints = 2
  ScriptPages = 2
  MaxDocuments = 2
  MaxTurns = 3
INVARIANTS
  RenderingIsSound
  FindIsSound
  CountIsTheRank
  DialogsAreSound
  PrintingIsSound
  ScriptingIsSound
PROPERTIES
  VisiblePagesAreDrawn
  WaitsEnd
\* What the reader does is bounded: at last, nothing is left to do.
CHECK_DEADLOCK FALSE
