--------------------------- MODULE Administration ---------------------------
(***************************************************************************)
(* The two tables that administrators edit, and the home page that reads   *)
(* them.  Both controllers are Administrate's; the dashboards say which    *)
(* attributes a form may send, the models which ones must not be blank.    *)
(* An update reads the row, and later writes the attributes in which the   *)
(* form differs from what it read; there is no lock on the row.            *)
(*                                                                         *)
(* Requests of anybody else are denied before they read or write anything  *)
(* (admin/application_controller.rb), and are left out.                    *)
(***************************************************************************)
EXTENDS Naturals, FiniteSets

CONSTANTS
  BlockIds, TileIds,  \* ids of content blocks and of explore collections
  BannerId,           \* the block that the migration adds
  TileTexts,          \* the texts of a collection that are looked at
  Texts,              \* what can be typed
  Blank,              \* nothing typed; a box not ticked
  HomepageBanner,     \* the reference of the banner
  Unused, Gone,       \* the id of no row yet; of a row that was deleted
  NoPage,             \* a visitor has no page yet
  Admins, Visitors    \* threads with a request of either

ASSUME AdministrationAssumption ==
  /\ BannerId \in BlockIds /\ BlockIds \cap TileIds = {}
  /\ TileTexts \subseteq {"title", "banner_path", "collection_path", "description"}
  /\ HomepageBanner \in Texts /\ Blank \notin Texts

Ids == BlockIds \cup TileIds
Values == Texts \cup {Blank}

\* Tables, permit lists and validations.
Columns(id) ==
  IF id \in BlockIds THEN {"reference", "value"} ELSE TileTexts \cup {"active"}
\* Mutant of permitted_attributes: all attributes of the form, as in the gem.
permitted_form_attributes(id) == Columns(id)
permitted_attributes(id) == IF id \in BlockIds THEN {"value"} ELSE Columns(id)
Required(id) == IF id \in BlockIds THEN {"reference"} ELSE TileTexts

Row(id) == [Columns(id) -> Values]
Stored(id) == Row(id) \cup {Unused, Gone}
Valid(id, row) == \A a \in Required(id) : row[a] # Blank

ASSUME SentinelAssumption ==
  /\ \A id \in Ids : Unused \notin Row(id) /\ Gone \notin Row(id)
  /\ Unused # Gone /\ NoPage \notin Values

VARIABLES
  rows,     \* what is stored under every id
  request,  \* what each administrator's thread is doing
  page      \* the home page of each visitor

vars == <<rows, request, page>>

Idle == [pc |-> "idle"]
Live(id) == rows[id] \notin {Unused, Gone}

Update == UNION {[pc : {"update"}, id : {id}, loaded : Row(id), sent : Row(id)] : id \in Ids}
Destroy == [pc : {"destroy"}, id : Ids]
Tile == [TileTexts \cup {"active"} -> Values]
Page == [tiles : UNION {[S -> Tile] : S \in SUBSET TileIds}, banner : Values \cup {NoPage}]

TypeOK ==
  /\ rows \in [Ids -> UNION {Stored(id) : id \in Ids}]
  /\ \A id \in Ids : rows[id] \in Stored(id)
  /\ request \in [Admins -> Update \cup Destroy \cup {Idle}]
  /\ page \in [Visitors -> Page \cup {NoPage}]

NewBanner ==
  [c \in {"reference", "value"} |-> IF c = "reference" THEN HomepageBanner ELSE Blank]

\* The migration has added the banner; collections may be there already.
Init ==
  /\ \E tiles \in [TileIds -> {Unused} \cup {row \in Tile : \A c \in TileTexts : row[c] # Blank}] :
       rows = [id \in Ids |-> IF id \in TileIds THEN tiles[id]
                              ELSE IF id = BannerId THEN NewBanner ELSE Unused]
  /\ request = [t \in Admins |-> Idle]
  /\ page = [v \in Visitors |-> NoPage]

----------------------------------------------------------------------------
\* What a form makes of a row: only permitted attributes are taken from it.
Assigned(id, row, sent) ==
  [c \in Columns(id) |-> IF c \in permitted_attributes(id) THEN sent[c] ELSE row[c]]

\* create: a row that is not valid is not saved, and the form shown again.
Create(t, id, sent) ==
  LET row == Assigned(id, [c \in Columns(id) |-> Blank], sent) IN
  /\ request[t] = Idle
  /\ rows[id] = Unused
  /\ Valid(id, row)
  /\ rows' = [rows EXCEPT ![id] = row]
  /\ UNCHANGED <<request, page>>

\* update and destroy begin with find; an id without a row is not found.
FindForUpdate(t, id, sent) ==
  /\ request[t] = Idle
  /\ Live(id)
  /\ request' = [request EXCEPT ![t] =
       [pc |-> "update", id |-> id, loaded |-> rows[id], sent |-> sent]]
  /\ UNCHANGED <<rows, page>>

FindForDestroy(t, id) ==
  /\ request[t] = Idle
  /\ Live(id)
  /\ request' = [request EXCEPT ![t] = [pc |-> "destroy", id |-> id]]
  /\ UNCHANGED <<rows, page>>

\* Mutants of Written: all attributes are written, changed or not; the row is
\* written although it is gone.
WrittenInFull(id, loaded, sent) ==
  IF Live(id) THEN Assigned(id, loaded, sent) ELSE rows[id]
WrittenAnyway(id, loaded, sent) == Assigned(id, loaded, sent)

\* The UPDATE: the attributes that differ from the loaded ones, in the row as
\* it is by now; a row that is gone is not touched.
Written(id, loaded, sent) ==
  LET new == Assigned(id, loaded, sent) IN
  IF Live(id)
  THEN [c \in Columns(id) |-> IF new[c] # loaded[c] THEN new[c] ELSE rows[id][c]]
  ELSE rows[id]

\* Mutant of SaveUpdate: the row is saved without validation.
SaveUnvalidated(t) ==
  LET r == request[t] IN
  /\ r.pc = "update"
  /\ rows' = [rows EXCEPT ![r.id] = Written(r.id, r.loaded, r.sent)]
  /\ request' = [request EXCEPT ![t] = Idle]
  /\ UNCHANGED page

\* The validations are asked of the loaded row with the form's attributes.
SaveUpdate(t) ==
  LET r == request[t] IN
  /\ r.pc = "update"
  /\ \/ /\ Valid(r.id, Assigned(r.id, r.loaded, r.sent))
        /\ rows' = [rows EXCEPT ![r.id] = Written(r.id, r.loaded, r.sent)]
     \/ /\ ~ Valid(r.id, Assigned(r.id, r.loaded, r.sent))
        /\ UNCHANGED rows
  /\ request' = [request EXCEPT ![t] = Idle]
  /\ UNCHANGED page

\* valid_action? hides the button for content blocks; the route and the action
\* are there for both.
Delete(t) ==
  /\ request[t].pc = "destroy"
  /\ rows' = [rows EXCEPT ![request[t].id] = Gone]
  /\ request' = [request EXCEPT ![t] = Idle]
  /\ UNCHANGED page

\* The thread or its connection is lost between its two statements.
Fail(t) ==
  /\ request[t] # Idle
  /\ request' = [request EXCEPT ![t] = Idle]
  /\ UNCHANGED <<rows, page>>

----------------------------------------------------------------------------
ActiveTiles == {id \in TileIds : Live(id) /\ rows[id]["active"] # Blank}
Featured == 3

\* Three of the active collections, or all when there are fewer.
Sampled ==
  {S \in SUBSET ActiveTiles :
     \/ Cardinality(S) = Featured
     \/ Cardinality(S) < Featured /\ S = ActiveTiles}

\* The page is rendered before the layout around it.
ExploreCollections(v) ==
  /\ \E S \in Sampled :
       page' = [page EXCEPT ![v] = [tiles |-> [id \in S |-> rows[id]], banner |-> NoPage]]
  /\ UNCHANGED <<rows, request>>

\* homepage_banner: the block of that reference, or a blank one.
Banners ==
  LET found == {id \in BlockIds : Live(id) /\ rows[id]["reference"] = HomepageBanner} IN
  IF found = {} THEN {Blank} ELSE {rows[id]["value"] : id \in found}

HeaderNavbar(v) ==
  /\ page[v] # NoPage /\ page[v].banner = NoPage
  /\ \E value \in Banners : page' = [page EXCEPT ![v].banner = value]
  /\ UNCHANGED <<rows, request>>

Next ==
  \/ \E t \in Admins :
       \/ SaveUpdate(t) \/ Delete(t) \/ Fail(t)
       \/ \E id \in Ids :
            \/ FindForDestroy(t, id)
            \/ \E sent \in Row(id) : Create(t, id, sent) \/ FindForUpdate(t, id, sent)
  \/ \E v \in Visitors : ExploreCollections(v) \/ HeaderNavbar(v)

Spec == Init /\ [][Next]_vars

----------------------------------------------------------------------------
(***************************************************************************)
(* A home page never shows half a collection: what is stored is valid,     *)
(* although the validations were asked of what was loaded and not of what  *)
(* the UPDATE makes of the row, and two administrators may change          *)
(* different attributes of it.                                             *)
(***************************************************************************)
RowsValid == \A id \in Ids : Live(id) => Valid(id, rows[id])

TilesComplete ==
  \A v \in Visitors : page[v] # NoPage =>
    \A id \in DOMAIN page[v].tiles : \A c \in TileTexts \cup {"active"} :
         page[v].tiles[id][c] # Blank

\* The invariant that carries the proofs.
RowInv == TypeOK /\ RowsValid /\ TilesComplete

(***************************************************************************)
(* Content blocks come from migrations: no form adds or renames one, so    *)
(* the lookup by reference finds one banner at most                        *)
(* (content_block_dashboard.rb, permitted_attributes).                     *)
(***************************************************************************)
BlocksKeepTheirReference ==
  [][\A id \in BlockIds : Live(id)' =>
       Live(id) /\ rows'[id]["reference"] = rows[id]["reference"]]_vars

(***************************************************************************)
(* An update that was on its way when the row was deleted does not bring   *)
(* it back, although its administrator is told that it succeeded.          *)
(***************************************************************************)
DestroyedStays == [][\A id \in Ids : rows[id] = Gone => rows'[id] = Gone]_vars

(***************************************************************************)
(* Two administrators who edit different attributes of a row do not undo   *)
(* each other, once both have loaded it: an attribute changes only to what *)
(* a form says that differs from the row its thread loaded.                *)
(***************************************************************************)
EditsOfOthersSurvive ==
  [][\A id \in Ids : Live(id) /\ Live(id)' => \A c \in Columns(id) :
       rows'[id][c] # rows[id][c] =>
         \E t \in Admins :
           /\ request[t].pc = "update" /\ request[t].id = id
           /\ request[t].sent[c] # request[t].loaded[c]
           /\ rows'[id][c] = request[t].sent[c]]_vars

(***************************************************************************)
(* spec/controllers/admin/content_blocks_controller_spec.rb:105-108: to an *)
(* administrator, destroying a content block "is not permitted".           *)
(***************************************************************************)
BlocksArePermanent == [][\A id \in BlockIds : Live(id) => Live(id)']_vars
============================================================================
