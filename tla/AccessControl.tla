--------------------------- MODULE AccessControl ---------------------------
(***************************************************************************)
(* Who may see what.  Lux decides it four times over, each time in other   *)
(* terms: Ability compares the groups of the visitor with the groups of    *)
(* the document; the thumbnail presenter, the viewer configuration and     *)
(* render404 read the document's visibility.  This module states the four  *)
(* deciders, and no state.                                                 *)
(*                                                                         *)
(* A visitor is the signed-in person (or Guest) and the address that       *)
(* ApplicationController#user_ip found.  A document is the part of a Solr  *)
(* record that the deciders tell apart.                                    *)
(***************************************************************************)
EXTENDS FiniteSets

CONSTANTS
  Persons,    \* uids of the people who can sign in
  Guest,      \* current_user is nil
  AdminUids,  \* config/emory/groups/admins.yml
  Ips,        \* addresses of visitors
  RoseIps,    \* config/reading_room_ips.yml: rose_reading_room_ip_list
  IrishIps    \* and irish_partner_reading_room_ip_list; they may overlap

ASSUME PeopleAssumption ==
  /\ Guest \notin Persons
  /\ AdminUids \subseteq Persons

ASSUME AddressAssumption == RoseIps \subseteq Ips /\ IrishIps \subseteq Ips

Visibilities == {"open", "authenticated", "emory_low", "low_res",
                 "rose_high", "irish_partner", "restricted"}

Groups == {"public", "low_res", "registered", "emory_low",
           "rose_high", "irish_partner", "admin"}

\* Every visitor the program can meet.
Visitor == [user : Persons \cup {Guest}, ip : Ips]

(***************************************************************************)
(* The Solr document.  renders is FALSE when the record's metadata makes   *)
(* the show page raise a NameError: a NoMethodError on nil while a         *)
(* citation or a breadcrumb is formatted.                                  *)
(***************************************************************************)
Document ==
  [visibility      : Visibilities,
   discover_groups : SUBSET Groups,
   read_groups     : SUBSET Groups,
   download_groups : SUBSET Groups,
   discover_users  : SUBSET Persons,
   read_users      : SUBSET Persons,
   download_users  : SUBSET Persons,
   in_search_model : BOOLEAN,
   renders         : BOOLEAN]

(***************************************************************************)
(* The read group that Curate, which writes the index, gives a work of a   *)
(* visibility; the fixtures of spec/support/solr_documents show it.        *)
(***************************************************************************)
CurateReadGroups(visibility) ==
  CASE visibility = "open"          -> {"public"}
    [] visibility = "authenticated" -> {"registered"}
    [] visibility = "restricted"    -> {}
    [] OTHER                        -> {visibility}

CurateIndexed(doc) ==
  /\ doc.read_groups = CurateReadGroups(doc.visibility)
  /\ doc.discover_groups = {} /\ doc.download_groups = {}
  /\ doc.discover_users = {} /\ doc.read_users = {} /\ doc.download_users = {}

----------------------------------------------------------------------------
(***************************************************************************)
(* Ability: the visitor's groups against the document's groups.            *)
(***************************************************************************)
SignedIn(visitor) == visitor.user # Guest

default_user_groups == {"public", "low_res"}

\* Mutant: the guest user of Ability#guest_user is taken for a registered one.
user_groups_of_anyone(visitor) ==
  default_user_groups
    \cup {"registered", "emory_low"}
    \cup {g \in {"rose_high"}     : visitor.ip \in RoseIps}
    \cup {g \in {"irish_partner"} : visitor.ip \in IrishIps}
    \cup {g \in {"admin"}         : visitor.user \in AdminUids}

user_groups(visitor) ==
  default_user_groups
    \cup {g \in {"registered", "emory_low"} : SignedIn(visitor)}
    \cup {g \in {"rose_high"}     : visitor.ip \in RoseIps}
    \cup {g \in {"irish_partner"} : visitor.ip \in IrishIps}
    \cup {g \in {"admin"}         : visitor.user \in AdminUids}

download_groups(doc) == doc.download_groups
read_groups(doc)     == download_groups(doc) \cup doc.read_groups
discover_groups(doc) == read_groups(doc) \cup doc.discover_groups

download_users(doc) == doc.download_users
read_users(doc)     == download_users(doc) \cup doc.read_users
discover_users(doc) == read_users(doc) \cup doc.discover_users

test_download(visitor, doc) ==
  \/ user_groups(visitor) \cap download_groups(doc) # {}
  \/ visitor.user \in download_users(doc)

test_read(visitor, doc) ==
  \/ user_groups(visitor) \cap read_groups(doc) # {}
  \/ visitor.user \in read_users(doc)

test_discover(visitor, doc) ==
  \/ user_groups(visitor) \cap discover_groups(doc) # {}
  \/ visitor.user \in discover_users(doc)

----------------------------------------------------------------------------
(***************************************************************************)
(* The deciders that read the visibility.                                  *)
(***************************************************************************)

\* Mutant: reading-room works are taken for works that a login opens.
RefusalByLogin(visibility) ==
  CASE visibility \in {"emory_low", "authenticated", "rose_high"} -> "login"
    [] visibility \in {"irish_partner", "restricted"} -> "reading_room"
    [] OTHER -> "not_found"

\* CatalogController#render404: what a visitor who is refused is told.
Refusal(visibility) ==
  CASE visibility \in {"emory_low", "authenticated"} -> "login"
    [] visibility \in {"rose_high", "irish_partner", "restricted"} -> "reading_room"
    [] OTHER -> "not_found"

\* Mutant: user_signed_in? is not asked for authenticated works.
uv_config_for_all(visitor, visibility) ==
  CASE visibility \in {"open", "authenticated"} -> "liberal"
    [] visibility = "emory_low" /\ SignedIn(visitor) -> "liberal_low"
    [] OTHER -> "conservative"

\* ApplicationController#uv_config: what the image viewer offers.
uv_config(visitor, visibility) ==
  CASE visibility = "open" -> "liberal"
    [] visibility = "authenticated" /\ SignedIn(visitor) -> "liberal"
    [] visibility = "emory_low" /\ SignedIn(visitor) -> "liberal_low"
    [] OTHER -> "conservative"

\* Mutant: rose_high visitors are shown irish_partner thumbnails too.
thumbnail_image_any_room(visitor, doc) ==
  CASE doc.visibility \in {"open", "low_res"} -> "thumbnail"
    [] doc.visibility \in {"emory_low", "authenticated"} ->
         IF SignedIn(visitor) THEN "thumbnail" ELSE "login_required"
    [] doc.visibility \in {"rose_high", "irish_partner"} ->
         IF "rose_high" \in user_groups(visitor)
           THEN "thumbnail" ELSE "reading_room_only"
    [] OTHER -> "default_thumbnail"

\* ThumbnailPresenter#thumbnail_image_url: the picture beside a search result.
thumbnail_image(visitor, doc) ==
  CASE doc.visibility \in {"open", "low_res"} -> "thumbnail"
    [] doc.visibility \in {"emory_low", "authenticated"} ->
         IF SignedIn(visitor) THEN "thumbnail" ELSE "login_required"
    [] doc.visibility \in {"rose_high", "irish_partner"} ->
         IF doc.visibility \in user_groups(visitor)
           THEN "thumbnail" ELSE "reading_room_only"
    [] OTHER -> "default_thumbnail"

\* The fq that CatalogController adds to every search.
InSearchResults(doc) == doc.in_search_model /\ doc.visibility # "restricted"
============================================================================
