SPECIFICATION Spec
CONSTANTS
  Threads = {t1, t2}
  Persons = {p1}
  NoUid = NoUid
  Names = {n1}
  Works = {w1}
  MaxLogins = 2
INVARIANTS
  OneRowPerPerson
\* The bound on callbacks lets a behaviour end.
CHECK_DEADLOCK FALSE
