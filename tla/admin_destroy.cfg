SPECIFICATION Spec
CONSTANTS
  BlockIds = {banner}
  TileIds = {c1}
  BannerId = banner
  TileTexts = {"title"}
  Texts = {homepage_banner}
  Blank = Blank
  HomepageBanner = homepage_banner
  Unused = Unused
  Gone = Gone
  NoPage = NoPage
  Admins = {a1}
  Visitors = {v1}
PROPERTIES
  BlocksArePermanent
