SPECIFICATION Spec
CONSTANTS
  alice = alice
  outside = outside
  open = open
  member = member
  other = other
  broken = broken
  Guest = Guest
  Persons = {alice}
  AdminUids = {}
  Ips = {outside}
  RoseIps = {}
  IrishIps = {}
  Address = outside
  Tabs = {t1, t2}
  Pages = {member, other}
  Doc <- MCDoc
SYMMETRY Alike
INVARIANTS
  TypeOK
  SessionSettles
PROPERTIES
  RefusedPageIsReached
