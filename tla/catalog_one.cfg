SPECIFICATION FairSpec
CONSTANTS
  Persons <- MCPersons
  Guest = Guest
  AdminUids <- MCAdminUids
  Ips <- MCIps
  RoseIps <- MCRoseIps
  IrishIps <- MCIrishIps
  alice = alice
  admin = admin
  outside = outside
  rose = rose
  irish = irish
  both = both
  NoDoc = NoDoc
  NoAsk = NoAsk
  NoAnswer = NoAnswer
  Requests = {t1}
  Ids = {i1}
  Docs <- MCDocs
  Visitors <- MCVisitors
  MaxReindex = 2
INVARIANTS
  RequestInv
  PageExactlyForReaders
  LoginHelps
PROPERTIES
  ImplementsPromise
  EveryRequestIsAnswered
