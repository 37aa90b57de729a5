----------------------------- MODULE MCCatalog -----------------------------
(***************************************************************************)
(* Instances of CatalogAccess for TLC: two people of whom one is an        *)
(* administrator, the four ways an address can lie in the reading-room     *)
(* lists (the lists of config/reading_room_ips.yml overlap in one), and    *)
(* one document of every visibility as Curate indexes it, besides a work   *)
(* whose page fails, a file set, and a work read by a named person.        *)
(***************************************************************************)
EXTENDS CatalogProperties, TLC

CONSTANTS alice, admin, outside, rose, irish, both

MCPersons == {alice, admin}
MCAdminUids == {admin}
MCIps == {outside, rose, irish, both}
MCRoseIps == {rose, both}
MCIrishIps == {irish, both}

CurateWork(visibility) ==
  [visibility |-> visibility,
   read_groups |-> CurateReadGroups(visibility),
   discover_groups |-> {}, download_groups |-> {},
   discover_users |-> {}, read_users |-> {}, download_users |-> {},
   in_search_model |-> TRUE, renders |-> TRUE]

BrokenPage == [CurateWork("authenticated") EXCEPT !.renders = FALSE]
FileSet == [CurateWork("open") EXCEPT !.in_search_model = FALSE]
NamedReader == [CurateWork("rose_high") EXCEPT !.read_users = {alice}]

MCDocs == {CurateWork(v) : v \in Visibilities} \cup {BrokenPage, FileSet, NamedReader}
MCFewDocs == {CurateWork(v) : v \in {"open", "emory_low", "restricted"}} \cup {BrokenPage}

MCVisitors == Visitor
MCThreeVisitors ==
  {[user |-> Guest, ip |-> outside], [user |-> Guest, ip |-> rose],
   [user |-> alice, ip |-> outside]}
MCTwoVisitors ==
  {[user |-> Guest, ip |-> outside], [user |-> alice, ip |-> outside]}

RequestSymmetry == Permutations(Requests)
============================================================================
