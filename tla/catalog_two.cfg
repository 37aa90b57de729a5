SPECIFICATION Spec
CONSTANTS
  Persons <- MCPersons
  Guest = Guest
  AdminUids <- MCAdminUids
  Ips <- MCIps
  RoseIps <- MCRoseIps
  IrishIps <- MCIrishIps
  alice = alice
  admin = admin
  outside = outside
  rose = rose
  irish = irish
  both = both
  NoDoc = NoDoc
  NoAsk = NoAsk
  NoAnswer = NoAnswer
  Requests = {t1, t2}
  Ids = {i1}
  Docs <- MCDocs
  Visitors <- MCThreeVisitors
  MaxReindex = 1
SYMMETRY RequestSymmetry
INVARIANTS
  ThumbnailTellsWhereItLeads
  DownloadsOnlyWithPage
