SPECIFICATION ViewerSpec
CONSTANTS
  LastPage = 2
  Dests = {1}
  DestPage <- MCDestPage
  KnownRefs = {1}
  StoredPlaces <- MCStoredPlaces
  Fingerprints = {"x", "y"}
  Threshold = 1
  MaxVisits = 5
  PagesCount = 3
  Scrolls = {"VERTICAL", "WRAPPED", "PAGE"}
  Editors = {"INK", "STAMP"}
  MaxChoices = 3
  SidebarPages = 2
  SidebarDocs = 2
  TreeSets = {{"OUTLINE"}, {"ATTACHMENTS"}, {"LAYERS"}}
  FileNames = {"f"}
  Layers = {1, 2}
  MaxClicks = 2
  MaxOpens = 3
  MaxEdits = 2
  LatePanels = {"outline"}
INVARIANTS
  HistoryIsSound
  ModesAreSound
  SidebarIsSound
  OpeningIsSound
PROPERTIES
  EditsLeaveWithASave
  LinksLeaveAWayBack
  LastEditorWins
\* What the reader does is bounded: at last, nothing is left to do.
CHECK_DEADLOCK FALSE
