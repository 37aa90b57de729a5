------------------------ MODULE Administration_proofs ------------------------
(***************************************************************************)
(* The safety properties of Administration, for any number of              *)
(* administrators, visitors, blocks, collections and texts.                *)
(*                                                                         *)
(* What is stored stays valid because a merge takes each attribute either  *)
(* from a form that was validated or from a row that was valid.            *)
(***************************************************************************)
EXTENDS Administration, TLAPS

LEMMA ColumnsTyped ==
  ASSUME NEW id \in Ids
  PROVE  /\ permitted_attributes(id) \subseteq Columns(id)
         /\ Required(id) \subseteq Columns(id)
         /\ id \in TileIds => Row(id) = Tile /\ Required(id) = TileTexts
         /\ id \in BlockIds => Columns(id) = {"reference", "value"}
BY AdministrationAssumption
   DEF Ids, Columns, permitted_attributes, Required, Row, Tile

LEMMA LiveTyped ==
  ASSUME TypeOK, NEW id \in Ids
  PROVE  /\ rows[id] \in Stored(id)
         /\ Live(id) => rows[id] \in Row(id)
BY DEF TypeOK, Live, Stored

LEMMA UpdateTyped ==
  ASSUME TypeOK, NEW t \in Admins, request[t].pc = "update"
  PROVE  /\ request[t].id \in Ids
         /\ request[t].loaded \in Row(request[t].id)
         /\ request[t].sent \in Row(request[t].id)
<1>1. request[t] \in Update \cup Destroy \cup {Idle}
  BY DEF TypeOK
<1>2. request[t] \in Update
  BY <1>1 DEF Destroy, Idle
<1> QED BY <1>2 DEF Update

LEMMA DestroyTyped ==
  ASSUME TypeOK, NEW t \in Admins, request[t].pc = "destroy"
  PROVE  request[t].id \in Ids
<1>1. request[t] \in Update \cup Destroy \cup {Idle}
  BY DEF TypeOK
<1>2. request[t] \in Destroy
  BY <1>1 DEF Update, Idle
<1> QED BY <1>2 DEF Destroy

\* What the UPDATE makes of a live row.
LEMMA WrittenTyped ==
  ASSUME TypeOK, NEW id \in Ids, NEW loaded \in Row(id), NEW sent \in Row(id)
  PROVE  /\ Assigned(id, loaded, sent) \in Row(id)
         /\ Written(id, loaded, sent) \in Stored(id)
         /\ Live(id) => Written(id, loaded, sent) \in Row(id)
         /\ ~ Live(id) => Written(id, loaded, sent) = rows[id]
         /\ Live(id) => \A c \in Columns(id) :
              \/ Written(id, loaded, sent)[c] = rows[id][c]
              \/ /\ c \in permitted_attributes(id)
                 /\ Written(id, loaded, sent)[c] = sent[c]
                 /\ sent[c] # loaded[c]
                 /\ sent[c] = Assigned(id, loaded, sent)[c]
<1>1. Assigned(id, loaded, sent) \in Row(id)
  BY DEF Assigned, Row
<1>2. CASE Live(id)
  <2>1. rows[id] \in Row(id)
    BY <1>2, LiveTyped
  <2>2. Written(id, loaded, sent) =
          [c \in Columns(id) |-> IF Assigned(id, loaded, sent)[c] # loaded[c]
             THEN Assigned(id, loaded, sent)[c] ELSE rows[id][c]]
    BY <1>2 DEF Written
  <2>3. Written(id, loaded, sent) \in Row(id)
    BY <1>1, <2>1, <2>2 DEF Row
  <2>4. ASSUME NEW c \in Columns(id)
        PROVE  \/ Written(id, loaded, sent)[c] = rows[id][c]
               \/ /\ c \in permitted_attributes(id)
                  /\ Written(id, loaded, sent)[c] = sent[c]
                  /\ sent[c] # loaded[c]
                  /\ sent[c] = Assigned(id, loaded, sent)[c]
    BY <2>2 DEF Assigned
  <2> QED BY <1>1, <1>2, <2>3, <2>4 DEF Stored
<1>3. CASE ~ Live(id)
  BY <1>1, <1>3, LiveTyped DEF Written
<1> QED BY <1>2, <1>3

----------------------------------------------------------------------------
\* Storing a row that is of its table's type, under one id.
LEMMA StoreTyped ==
  ASSUME TypeOK, NEW id \in Ids, NEW row \in Stored(id),
         rows' = [rows EXCEPT ![id] = row]
  PROVE  /\ rows' \in [Ids -> UNION {Stored(i) : i \in Ids}]
         /\ \A i \in Ids : rows'[i] = IF i = id THEN row ELSE rows[i]
         /\ \A i \in Ids : rows'[i] \in Stored(i)
<1>1. \A i \in Ids : rows'[i] = IF i = id THEN row ELSE rows[i]
  BY DEF TypeOK
<1>2. \A i \in Ids : rows'[i] \in Stored(i)
  BY <1>1 DEF TypeOK
<1>3. rows' \in [Ids -> UNION {Stored(i) : i \in Ids}]
  <2>1. row \in UNION {Stored(i) : i \in Ids}
    OBVIOUS
  <2> QED BY <2>1 DEF TypeOK
<1> QED BY <1>1, <1>2, <1>3

LEMMA SentRowIsNew ==
  ASSUME NEW id \in Ids, NEW sent \in Row(id)
  PROVE  Assigned(id, [c \in Columns(id) |-> Blank], sent) \in Row(id)
BY DEF Assigned, Row, Values

\* Typing and validity of the rows, for the steps that store something.
LEMMA CreateKeeps ==
  ASSUME RowInv, NEW t \in Admins, NEW id \in Ids, NEW sent \in Row(id),
         Create(t, id, sent)
  PROVE  RowInv'
<1> DEFINE row == Assigned(id, [c \in Columns(id) |-> Blank], sent)
<1>1. row \in Row(id) /\ Valid(id, row) /\ rows' = [rows EXCEPT ![id] = row]
  BY SentRowIsNew DEF Create
<1> HIDE DEF row
<1>2. row \in Stored(id)
  BY <1>1 DEF Stored
<1>3. TypeOK
  BY DEF RowInv
<1>4. /\ rows' \in [Ids -> UNION {Stored(i) : i \in Ids}]
      /\ \A i \in Ids : rows'[i] = IF i = id THEN row ELSE rows[i]
      /\ \A i \in Ids : rows'[i] \in Stored(i)
  BY <1>1, <1>2, <1>3, StoreTyped
<1>5. TypeOK'
  BY <1>3, <1>4 DEF Create, TypeOK
<1>6. RowsValid'
  BY <1>1, <1>4 DEF RowInv, RowsValid, Live, Valid
<1>7. TilesComplete'
  BY DEF RowInv, Create, TilesComplete
<1> QED BY <1>5, <1>6, <1>7 DEF RowInv

LEMMA SaveUpdateKeeps ==
  ASSUME RowInv, NEW t \in Admins, SaveUpdate(t)
  PROVE  RowInv'
<1> DEFINE id == request[t].id
           loaded == request[t].loaded
           sent == request[t].sent
<1>1. TypeOK /\ request[t].pc = "update"
  BY DEF RowInv, SaveUpdate
<1>2. id \in Ids /\ loaded \in Row(id) /\ sent \in Row(id)
  BY <1>1, UpdateTyped
<1>3. request' = [request EXCEPT ![t] = Idle] /\ page' = page
  BY DEF SaveUpdate
<1>4. request' \in [Admins -> Update \cup Destroy \cup {Idle}]
  BY <1>1, <1>3 DEF TypeOK
<1>5. TilesComplete'
  BY <1>3 DEF RowInv, TilesComplete
<1>6. CASE rows' = rows
  BY <1>1, <1>3, <1>4, <1>5, <1>6 DEF RowInv, TypeOK, RowsValid, Live
<1>7. CASE /\ Valid(id, Assigned(id, loaded, sent))
           /\ rows' = [rows EXCEPT ![id] = Written(id, loaded, sent)]
  <2> DEFINE row == Written(id, loaded, sent)
             new == Assigned(id, loaded, sent)
  <2>1. /\ row \in Stored(id)
        /\ ~ Live(id) => row = rows[id]
        /\ Live(id) => \A c \in Columns(id) : row[c] = rows[id][c] \/ row[c] = new[c]
    BY <1>1, <1>2, WrittenTyped
  <2>2. Valid(id, new) /\ rows' = [rows EXCEPT ![id] = row]
    BY <1>7
  <2> HIDE DEF row, new, id
  <2>3. /\ rows' \in [Ids -> UNION {Stored(i) : i \in Ids}]
        /\ \A i \in Ids : rows'[i] = IF i = id THEN row ELSE rows[i]
        /\ \A i \in Ids : rows'[i] \in Stored(i)
    BY <1>1, <1>2, <2>1, <2>2, StoreTyped
  <2>4. TypeOK'
    BY <1>1, <1>3, <1>4, <2>3 DEF TypeOK
  <2>5. Live(id) => Valid(id, row)
    BY <1>2, <2>1, <2>2, ColumnsTyped DEF RowInv, RowsValid, Valid
  <2>6. RowsValid'
    BY <2>1, <2>3, <2>5 DEF RowInv, RowsValid, Live, Valid
  <2> QED BY <1>5, <2>4, <2>6 DEF RowInv
<1> QED BY <1>6, <1>7 DEF SaveUpdate

LEMMA DeleteKeeps ==
  ASSUME RowInv, NEW t \in Admins, Delete(t)
  PROVE  RowInv'
<1> DEFINE id == request[t].id
<1>1. TypeOK /\ request[t].pc = "destroy"
  BY DEF RowInv, Delete
<1>2. id \in Ids
  BY <1>1, DestroyTyped
<1>3. rows' = [rows EXCEPT ![id] = Gone] /\ Gone \in Stored(id)
  BY DEF Delete, Stored
<1> HIDE DEF id
<1>4. /\ rows' \in [Ids -> UNION {Stored(i) : i \in Ids}]
      /\ \A i \in Ids : rows'[i] = IF i = id THEN Gone ELSE rows[i]
      /\ \A i \in Ids : rows'[i] \in Stored(i)
  BY <1>1, <1>2, <1>3, StoreTyped
<1>5. TypeOK'
  BY <1>1, <1>4 DEF Delete, TypeOK
<1>6. RowsValid'
  BY <1>4 DEF RowInv, RowsValid, Live, Valid
<1>7. TilesComplete'
  BY DEF RowInv, Delete, TilesComplete
<1> QED BY <1>5, <1>6, <1>7 DEF RowInv

LEMMA RequestsKeep ==
  ASSUME RowInv, NEW t \in Admins, NEW r \in Update \cup Destroy \cup {Idle},
         request' = [request EXCEPT ![t] = r], UNCHANGED <<rows, page>>
  PROVE  RowInv'
BY DEF RowInv, TypeOK, RowsValid, TilesComplete, Live

\* A page shows what was stored, and of that only what is active.
LEMMA ExploreCollectionsKeeps ==
  ASSUME RowInv, NEW v \in Visitors, ExploreCollections(v)
  PROVE  RowInv'
<1>1. PICK S \in Sampled :
        page' = [page EXCEPT ![v] = [tiles |-> [id \in S |-> rows[id]], banner |-> NoPage]]
  BY DEF ExploreCollections
<1> DEFINE shown == [tiles |-> [id \in S |-> rows[id]], banner |-> NoPage]
<1>2. S \subseteq ActiveTiles
  BY DEF Sampled
<1>3. \A id \in S : /\ id \in TileIds /\ id \in Ids /\ Live(id)
                    /\ rows[id] \in Tile /\ rows[id]["active"] # Blank
                    /\ \A c \in TileTexts : rows[id][c] # Blank
  BY <1>2, ColumnsTyped, LiveTyped DEF ActiveTiles, Ids, RowInv, RowsValid, Valid
<1>4. [id \in S |-> rows[id]] \in [S -> Tile] /\ S \in SUBSET TileIds
  BY <1>3
<1>5. shown \in Page
  BY <1>4 DEF Page
<1>6. shown # NoPage => \A id \in DOMAIN shown.tiles : \A c \in TileTexts \cup {"active"} :
        shown.tiles[id][c] # Blank
  BY <1>3
<1>7. page' = [page EXCEPT ![v] = shown]
  BY <1>1
<1> HIDE DEF shown
<1>8. TypeOK'
  BY <1>5, <1>7 DEF RowInv, TypeOK, ExploreCollections
<1>9. TilesComplete'
  BY <1>6, <1>7 DEF RowInv, TypeOK, TilesComplete
<1>10. RowsValid'
  BY DEF RowInv, RowsValid, Live, ExploreCollections
<1> QED BY <1>8, <1>9, <1>10 DEF RowInv

LEMMA HeaderNavbarKeeps ==
  ASSUME RowInv, NEW v \in Visitors, HeaderNavbar(v)
  PROVE  RowInv'
<1>1. PICK value \in Banners : page' = [page EXCEPT ![v].banner = value]
  BY DEF HeaderNavbar
<1>2. value \in Values
  BY <1>1, ColumnsTyped, LiveTyped DEF Banners, Values, Row, Ids, RowInv
<1>3. page[v] \in Page /\ page[v] # NoPage
  BY DEF RowInv, TypeOK, HeaderNavbar
<1> DEFINE shown == [page[v] EXCEPT !.banner = value]
<1>4. shown \in Page /\ shown.tiles = page[v].tiles
  BY <1>2, <1>3 DEF Page
<1>5. page' = [page EXCEPT ![v] = shown]
  BY <1>1
<1> HIDE DEF shown
<1>6. TypeOK'
  BY <1>4, <1>5 DEF RowInv, TypeOK, HeaderNavbar
<1>7. TilesComplete'
  BY <1>3, <1>4, <1>5 DEF RowInv, TypeOK, TilesComplete
<1>8. RowsValid'
  BY DEF RowInv, RowsValid, Live, HeaderNavbar
<1> QED BY <1>6, <1>7, <1>8 DEF RowInv

LEMMA RowStep ==
  ASSUME RowInv, [Next]_vars
  PROVE  RowInv'
<1>1. CASE UNCHANGED vars
  BY <1>1 DEF RowInv, TypeOK, RowsValid, TilesComplete, Live, vars
<1>2. ASSUME NEW t \in Admins, NEW id \in Ids, FindForDestroy(t, id)
      PROVE  RowInv'
  <2>1. [pc |-> "destroy", id |-> id] \in Destroy
    BY DEF Destroy
  <2> QED BY <1>2, <2>1, RequestsKeep DEF FindForDestroy
<1>3. ASSUME NEW t \in Admins, NEW id \in Ids, NEW sent \in Row(id),
             FindForUpdate(t, id, sent)
      PROVE  RowInv'
  <2>1. rows[id] \in Row(id)
    BY <1>3, LiveTyped DEF FindForUpdate, RowInv
  <2>2. [pc |-> "update", id |-> id, loaded |-> rows[id], sent |-> sent] \in Update
    BY <2>1 DEF Update
  <2> QED BY <1>3, <2>2, RequestsKeep DEF FindForUpdate
<1>4. ASSUME NEW t \in Admins, Fail(t)
      PROVE  RowInv'
  BY <1>4, RequestsKeep DEF Fail
<1> QED
  BY <1>1, <1>2, <1>3, <1>4, CreateKeeps, SaveUpdateKeeps, DeleteKeeps,
     ExploreCollectionsKeeps, HeaderNavbarKeeps DEF Next

LEMMA RowInit == Init => RowInv
<1> SUFFICES ASSUME Init PROVE RowInv
  OBVIOUS
<1>1. PICK tiles \in [TileIds -> {Unused} \cup {row \in Tile : \A c \in TileTexts : row[c] # Blank}] :
        rows = [id \in Ids |-> IF id \in TileIds THEN tiles[id]
                               ELSE IF id = BannerId THEN NewBanner ELSE Unused]
  BY DEF Init
<1>2. NewBanner \in Row(BannerId) /\ Valid(BannerId, NewBanner)
  BY AdministrationAssumption DEF NewBanner, Row, Columns, Values, Valid, Required
<1>3. ASSUME NEW id \in Ids
      PROVE  rows[id] \in Stored(id) /\ (Live(id) => Valid(id, rows[id]))
  <2>1. CASE id \in TileIds
    <3>1. rows[id] = tiles[id]
      BY <1>1, <2>1
    <3>2. \/ tiles[id] = Unused
          \/ tiles[id] \in Row(id) /\ Valid(id, tiles[id])
      <4>1. Row(id) = Tile /\ Required(id) = TileTexts
        BY <2>1, ColumnsTyped
      <4>2. tiles[id] \in {Unused} \cup {row \in Tile : \A c \in TileTexts : row[c] # Blank}
        BY <2>1
      <4>3. \/ tiles[id] = Unused
            \/ tiles[id] \in Tile /\ \A c \in TileTexts : tiles[id][c] # Blank
        BY <4>2
      <4> QED BY <4>1, <4>3 DEF Valid
    <3> QED BY <3>1, <3>2 DEF Stored, Live
  <2>2. CASE id \notin TileIds
    BY <1>1, <1>2, <2>2 DEF Stored, Live
  <2> QED BY <2>1, <2>2
<1>4. rows \in [Ids -> UNION {Stored(i) : i \in Ids}]
  BY <1>1, <1>3
<1> QED BY <1>3, <1>4 DEF Init, RowInv, TypeOK, RowsValid, TilesComplete

(***************************************************************************)
(* Every state is well typed; whatever updates overlap, every row that is  *)
(* stored passes the validations of its model, and every home page shows   *)
(* active and complete collections only (explore_collection.rb,            *)
(* content_block.rb, explore_collections_presenter.rb).                    *)
(***************************************************************************)
THEOREM RowInvariant == Spec => []RowInv
BY RowInit, RowStep, PTL DEF Spec

LEMMA Typing == Spec => []TypeOK
<1>1. RowInv => TypeOK
  BY DEF RowInv
<1> QED BY <1>1, RowInvariant, PTL

----------------------------------------------------------------------------
\* What a step makes of one row, of whichever action.
LEMMA RowChange ==
  ASSUME TypeOK, [Next]_vars, NEW id \in Ids
  PROVE  \/ rows'[id] = rows[id]
         \/ rows'[id] = Gone
         \/ /\ rows[id] = Unused
            /\ \E sent \in Row(id) :
                 LET row == Assigned(id, [c \in Columns(id) |-> Blank], sent) IN
                 rows'[id] = row /\ Valid(id, row)
         \/ /\ Live(id)
            /\ \E t \in Admins :
                 /\ request[t].pc = "update" /\ request[t].id = id
                 /\ rows'[id] = Written(id, request[t].loaded, request[t].sent)
<1>1. CASE UNCHANGED rows
  BY <1>1
<1>2. ASSUME NEW t \in Admins, NEW i \in Ids, NEW sent \in Row(i), Create(t, i, sent)
      PROVE  \/ rows'[id] = rows[id]
             \/ /\ rows[id] = Unused
                /\ \E s \in Row(id) :
                     LET row == Assigned(id, [c \in Columns(id) |-> Blank], s) IN
                     rows'[id] = row /\ Valid(id, row)
  BY <1>2 DEF Create, TypeOK
<1>3. ASSUME NEW t \in Admins, SaveUpdate(t)
      PROVE  \/ rows'[id] = rows[id]
             \/ /\ Live(id)
                /\ request[t].pc = "update" /\ request[t].id = id
                /\ rows'[id] = Written(id, request[t].loaded, request[t].sent)
  <2>1. CASE rows' = [rows EXCEPT ![request[t].id] =
                        Written(request[t].id, request[t].loaded, request[t].sent)]
    <3>1. CASE request[t].id # id
      BY <2>1, <3>1 DEF TypeOK
    <3>2. CASE request[t].id = id
      <4>1. rows'[id] = Written(id, request[t].loaded, request[t].sent)
        BY <2>1, <3>2 DEF TypeOK
      <4>2. ~ Live(id) => rows'[id] = rows[id]
        BY <4>1 DEF Written
      <4> QED BY <1>3, <3>2, <4>1, <4>2 DEF SaveUpdate
    <3> QED BY <3>1, <3>2
  <2> QED BY <1>3, <2>1 DEF SaveUpdate
<1>4. ASSUME NEW t \in Admins, Delete(t)
      PROVE  rows'[id] = rows[id] \/ rows'[id] = Gone
  BY <1>4 DEF Delete, TypeOK
<1> QED
  BY <1>1, <1>2, <1>3, <1>4
  DEF Next, vars, FindForDestroy, FindForUpdate, Fail, ExploreCollections, HeaderNavbar

\* No form adds or renames a content block: its reference is not permitted,
\* and a block without one is not valid.
THEOREM BlocksAreOfMigrations == Spec => BlocksKeepTheirReference
<1>1. ASSUME TypeOK, [Next]_vars, NEW id \in BlockIds, Live(id)'
      PROVE  Live(id) /\ rows'[id]["reference"] = rows[id]["reference"]
  <2>1. /\ id \in Ids
        /\ Columns(id) = {"reference", "value"}
        /\ permitted_attributes(id) = {"value"}
        /\ Required(id) = {"reference"}
    BY DEF Ids, Columns, permitted_attributes, Required
  <2>2. CASE rows'[id] = rows[id]
    BY <1>1, <2>2 DEF Live
  <2>3. ~ \E sent \in Row(id) : Valid(id, Assigned(id, [c \in Columns(id) |-> Blank], sent))
    BY <2>1 DEF Valid, Assigned
  <2>4. ASSUME NEW t \in Admins, Live(id),
               request[t].pc = "update", request[t].id = id,
               rows'[id] = Written(id, request[t].loaded, request[t].sent)
        PROVE  rows'[id]["reference"] = rows[id]["reference"]
    <3>1. request[t].loaded \in Row(id) /\ request[t].sent \in Row(id)
      BY <1>1, <2>4, UpdateTyped
    <3>2. "reference" \in Columns(id) /\ "reference" \notin permitted_attributes(id)
      BY <2>1
    <3> QED BY <1>1, <2>1, <2>4, <3>1, <3>2, WrittenTyped
  <2> QED BY <1>1, <2>1, <2>2, <2>3, <2>4, RowChange DEF Live
<1>2. TypeOK /\ [Next]_vars =>
        [\A id \in BlockIds : Live(id)' =>
           Live(id) /\ rows'[id]["reference"] = rows[id]["reference"]]_vars
  BY <1>1
<1> QED BY <1>2, Typing, PTL DEF Spec, BlocksKeepTheirReference

\* An UPDATE does not bring a deleted row back.
THEOREM GoneIsGone == Spec => DestroyedStays
<1>1. TypeOK /\ [Next]_vars =>
        [\A id \in Ids : rows[id] = Gone => rows'[id] = Gone]_vars
  BY RowChange, SentinelAssumption DEF Live
<1> QED BY <1>1, Typing, PTL DEF Spec, DestroyedStays

\* An update writes no attribute but those its administrator changed.
THEOREM EditsSurvive == Spec => EditsOfOthersSurvive
<1>1. ASSUME TypeOK, [Next]_vars, NEW id \in Ids, Live(id), Live(id)',
             NEW c \in Columns(id), rows'[id][c] # rows[id][c]
      PROVE  \E t \in Admins :
               /\ request[t].pc = "update" /\ request[t].id = id
               /\ request[t].sent[c] # request[t].loaded[c]
               /\ rows'[id][c] = request[t].sent[c]
  <2>1. PICK t \in Admins :
          /\ request[t].pc = "update" /\ request[t].id = id
          /\ rows'[id] = Written(id, request[t].loaded, request[t].sent)
    BY <1>1, RowChange DEF Live
  <2>2. request[t].loaded \in Row(id) /\ request[t].sent \in Row(id)
    BY <1>1, <2>1, UpdateTyped
  <2>3. \/ rows'[id][c] = rows[id][c]
        \/ rows'[id][c] = request[t].sent[c] /\ request[t].sent[c] # request[t].loaded[c]
    BY <1>1, <2>1, <2>2, WrittenTyped
  <2> QED BY <1>1, <2>1, <2>3
<1>2. TypeOK /\ [Next]_vars =>
        [\A id \in Ids : Live(id) /\ Live(id)' => \A c \in Columns(id) :
           rows'[id][c] # rows[id][c] =>
             \E t \in Admins :
               /\ request[t].pc = "update" /\ request[t].id = id
               /\ request[t].sent[c] # request[t].loaded[c]
               /\ rows'[id][c] = request[t].sent[c]]_vars
  BY <1>1
<1> QED BY <1>2, Typing, PTL DEF Spec, EditsOfOthersSurvive
============================================================================
