SPECIFICATION Spec
CONSTANTS
  Threads = {t1, t2, t3}
  Persons = {p1, p2}
  NoUid = NoUid
  Names = {n1, n2}
  Works = {w1, w2}
  MaxLogins = 4
SYMMETRY Symmetry
INVARIANTS
  RowInv
  OneRowUnlessOverlapped
  BookmarksFollowThePerson
  PopulatedByShibboleth
  DuplicatesStayFew
\* The bound on callbacks lets a behaviour end.
CHECK_DEADLOCK FALSE
