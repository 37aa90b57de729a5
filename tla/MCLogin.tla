------------------------------ MODULE MCLogin ------------------------------
(***************************************************************************)
(* Instances of LoginSession for TLC: a person, and pages of works that    *)
(* anyone, that those signed in, and that nobody gets to see.              *)
(***************************************************************************)
EXTENDS LoginSession, TLC

CONSTANTS alice, outside, open, member, other, broken

Work(visibility) ==
  [visibility |-> visibility,
   read_groups |-> CurateReadGroups(visibility),
   discover_groups |-> {}, download_groups |-> {},
   discover_users |-> {}, read_users |-> {}, download_users |-> {},
   in_search_model |-> TRUE, renders |-> TRUE]

WorkOf(page) ==
  CASE page = open -> Work("open")
    [] page = member -> Work("authenticated")
    [] page = other -> Work("authenticated")
    [] page = broken -> [Work("authenticated") EXCEPT !.renders = FALSE]

MCDoc == [page \in Pages |-> WorkOf(page)]
\* The pages of a configuration with this symmetry are all of one kind.
Alike == Permutations(Tabs) \cup Permutations(Pages)
=============================================================================
