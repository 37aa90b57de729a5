SPECIFICATION FairSpec
CONSTANTS
  alice = alice
  outside = outside
  open = open
  member = member
  other = other
  broken = broken
  Guest = Guest
  Persons = {alice}
  AdminUids = {}
  Ips = {outside}
  RoseIps = {}
  IrishIps = {}
  Address = outside
  Tabs = {t1}
  Pages = {member, broken, open}
  Doc <- MCDoc
PROPERTIES
  NoEndlessRedirects
