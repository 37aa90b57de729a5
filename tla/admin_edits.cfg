SPECIFICATION Spec
CONSTANTS
  BlockIds = {banner, b2}
  TileIds = {c1}
  BannerId = banner
  TileTexts = {"title"}
  Texts = {homepage_banner, other}
  Blank = Blank
  HomepageBanner = homepage_banner
  Unused = Unused
  Gone = Gone
  NoPage = NoPage
  Admins = {a1, a2}
  Visitors = {v1}
SYMMETRY AdminSymmetry
INVARIANTS
  RowInv
PROPERTIES
  BlocksKeepTheirReference
  DestroyedStays
  EditsOfOthersSurvive
\* Ids are not used again: when every row was deleted, nothing is left to do.
CHECK_DEADLOCK FALSE
