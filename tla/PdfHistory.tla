------------------------------ MODULE PdfHistory ------------------------------
(***************************************************************************)
(* PDFHistory and PDFLinkService of the viewer of PDF                      *)
(* (public/pdfjs/web/viewer.mjs): what the viewer writes to the history of *)
(* the browser as the reader follows links, scrolls, types a hash, goes    *)
(* back and forward, reloads, and opens another document.                  *)
(*                                                                         *)
(* The browser is the entries of this page, oldest first; a traversal      *)
(* moves the present entry and fires popstate in one step, hashchange in a *)
(* later one, before the next traversal.  An action is a handler with the  *)
(* microtasks it leaves, so that _popStateInProgress, which a microtask    *)
(* ends, is a parameter.                                                   *)
(*                                                                         *)
(* A document with an open action goes to no destination of its own:       *)
(* viewOnLoad is 0, the views of before are restored, and the push of      *)
(* _initializePdfHistory is for -1.                                        *)
(***************************************************************************)
EXTENDS Integers, Sequences

CONSTANTS
  LastPage,        \* pages of a document
  Dests,           \* destinations that links lead to, numbers
  DestPage,        \* the page of each
  KnownRefs,       \* those whose page reference is cached from the start
  Fingerprints,    \* documents
  StoredPlaces,    \* places of each that another visit may have left in ViewHistory
  Threshold,       \* POSITION_UPDATED_THRESHOLD
  MaxVisits        \* bound: how often the reader does something

Places == {place \in (1..LastPage) \X (1..LastPage) : place[2] \in {place[1], place[1] + 1}}
NoHash == <<"none", 0>>
NotLoaded == "none"            \* a state that is null, or no document yet

ASSUME HistoryAssumption ==
  /\ LastPage \in Nat \ {0} /\ Threshold \in Nat /\ MaxVisits \in Nat
  /\ Dests \subseteq Nat \ {0} /\ DestPage \in [Dests -> 1..LastPage]
  /\ KnownRefs \subseteq Dests /\ NotLoaded \notin Fingerprints
  /\ StoredPlaces \in [Fingerprints -> SUBSET Places]

\* A destination: dest is 0 when null and -1 when undefined, page and first
\* are 0 when null or undefined.
NoDestination == [dest |-> 0, hash |-> NoHash, page |-> 0, first |-> 0, temporary |-> FALSE]
Position(place) == [dest |-> -1, hash |-> <<"at", place>>, page |-> place[2],
                    first |-> place[1], temporary |-> FALSE]
PageOf(hash) == IF hash[1] = "page" THEN hash[2] ELSE 0

VARIABLES hist,    \* the history, the browser and the reader, see HistoryFields
          visits,  \* what the reader did, counted
          kept     \* history: entries there were at the last traversal, until
                   \* the reader does something else, a link resolves late,
                   \* hashchange takes longer than HASH_CHANGE_TIMEOUT, or the
                   \* first view of the document is set again

histVars == <<hist, visits, kept>>

Hashes == {NoHash} \cup {<<"page", n>> : n \in 1..LastPage}
            \cup {<<"at", place>> : place \in Places}
            \cup {<<kind, d>> : kind \in {"name", "explicit"}, d \in Dests}
Destinations == [dest : Dests \cup {0, -1}, hash : Hashes, page : 0..LastPage,
                 first : 0..LastPage, temporary : BOOLEAN]
Entries == [fingerprint : Fingerprints \cup {NotLoaded}, uid : Nat,
            destination : Destinations, url : Hashes]

HistoryFields ==
  [initialized : BOOLEAN, fingerprint : Fingerprints \cup {NotLoaded}, uid : Nat, maxUid : Nat,
   destination : Destinations, position : Destinations, updates : Nat, timeout : BOOLEAN,
   blocks : Int, waits : Nat, currentHash : Hashes,
   entries : Seq(Entries), cur : Nat \ {0}, hashEvents : Nat, asked : {-1, 0, 1},
   place : Places, moved : BOOLEAN, known : SUBSET Dests,
   resolving : SUBSET (Dests \X BOOLEAN), again : [Hashes -> Nat], reloaded : BOOLEAN,
   mixed : BOOLEAN]

\* A window that has just loaded the page.
NewWindow(entries, cur, reloaded) ==
  [initialized |-> FALSE, fingerprint |-> NotLoaded, uid |-> 0, maxUid |-> 0,
   destination |-> NoDestination, position |-> NoDestination, updates |-> 0, timeout |-> FALSE,
   blocks |-> 0, waits |-> 0, currentHash |-> NoHash,
   entries |-> entries, cur |-> cur, hashEvents |-> 0, asked |-> 0,
   place |-> <<1, 1>>, moved |-> FALSE, known |-> KnownRefs, resolving |-> {},
   again |-> [hash \in Hashes |-> 0], reloaded |-> reloaded, mixed |-> FALSE]

StatelessEntry(url) == [fingerprint |-> NotLoaded, uid |-> 0, destination |-> NoDestination, url |-> url]

HistoryInit ==
  /\ \E url \in {NoHash, <<"page", LastPage>>} : hist = NewWindow(<<StatelessEntry(url)>>, 1, FALSE)
  /\ visits = 0 /\ kept = 0

---------------------------------------------------------------------------
\* PDFHistory

Here(h) == h.entries[h.cur]

IsValidState(h, state, checkReload) ==
  /\ state.fingerprint # NotLoaded
  /\ state.fingerprint = h.fingerprint \/ (checkReload /\ h.reloaded)
  /\ state.destination # NoDestination

UpdateInternalState(h, destination, uid) ==
  [h EXCEPT !.timeout = FALSE, !.destination = destination, !.uid = uid,
            !.maxUid = IF uid > @ THEN uid ELSE @, !.updates = 0]

PushOrReplaceState(h, destination, forceReplace) ==
  LET replaces == forceReplace \/ h.destination = NoDestination
      uid == IF replaces THEN h.uid ELSE h.uid + 1
      entry == [fingerprint |-> h.fingerprint, uid |-> uid,
                destination |-> destination, url |-> Here(h).url]
  IN  UpdateInternalState(
        [h EXCEPT !.entries = IF replaces THEN [@ EXCEPT ![h.cur] = entry]
                              ELSE Append(SubSeq(@, 1, h.cur), entry),
                  !.cur = IF replaces THEN @ ELSE @ + 1], destination, uid)

\* Mutant: a position within the pages of the destination is pushed as well.
TryPushAny(h, temporary) ==
  LET position == [h.position EXCEPT !.temporary = temporary]
      old == h.destination
  IN  IF h.position = NoDestination THEN h
      ELSE IF old = NoDestination THEN PushOrReplaceState(h, position, FALSE)
      ELSE IF old.temporary THEN PushOrReplaceState(h, position, TRUE)
      ELSE IF old.hash = position.hash \/ (old.page = 0 /\ h.updates <= Threshold) THEN h
      ELSE PushOrReplaceState(h, position, FALSE)

\* The position is worth an entry when the reader has left the pages of the
\* destination; a position that an entry holds already takes its place.
TryPushCurrentPosition(h, temporary) ==
  LET position == [h.position EXCEPT !.temporary = temporary]
      old == h.destination
      inside == old.page \in position.first .. position.page
  IN  IF h.position = NoDestination THEN h
      ELSE IF old = NoDestination THEN PushOrReplaceState(h, position, FALSE)
      ELSE IF old.temporary THEN PushOrReplaceState(h, position, TRUE)
      ELSE IF \/ old.hash = position.hash
              \/ (old.page = 0 /\ h.updates <= Threshold)
              \/ (inside /\ (old.dest # -1 \/ old.first = 0))
        THEN h
      ELSE PushOrReplaceState(h, position, inside)

\* Mutant: the present position is not kept before the link is followed.
KeepNoPosition(h, inProgress) == h

PushCurrentPosition(h, inProgress) ==
  IF h.initialized /\ ~inProgress THEN TryPushCurrentPosition(h, FALSE) ELSE h

IsSame(old, hash, d) == old # NoDestination /\ (old.hash = hash \/ old.dest = d)

Push(h, hash, d, inProgress) ==
  LET same == IsSame(h.destination, hash, d) IN
  IF ~h.initialized \/ (same /\ h.destination.page # 0) \/ (inProgress /\ ~same) THEN h
  ELSE PushOrReplaceState(h, [dest |-> d, hash |-> hash, page |-> DestPage[d],
                              first |-> 0, temporary |-> FALSE], same)

PushPage(h, n) ==
  IF ~h.initialized \/ h.destination.page = n THEN h
  ELSE PushOrReplaceState(h, [dest |-> 0, hash |-> <<"page", n>>, page |-> n,
                              first |-> 0, temporary |-> FALSE], FALSE)

---------------------------------------------------------------------------
\* PDFLinkService

\* A place that is shown already fires no scroll event.
ScrollIntoPlace(h, place) == [h EXCEPT !.place = place, !.moved = @ \/ h.place # place]

ScrollPageIntoView(h, n) == ScrollIntoPlace(h, <<n, n>>)

\* The last part of goToDestination, once the page of the destination is known.
Arrive(h, d, named, inProgress) ==
  LET g == PushCurrentPosition(h, inProgress)
  IN  ScrollPageIntoView(Push(g, <<IF named THEN "name" ELSE "explicit", d>>, d, inProgress),
                         DestPage[d])

\* getDestination for a name, getPageIndex for a reference: both ask the worker.
GoToDestination(h, d, named, inProgress) ==
  IF named \/ d \notin h.known THEN [h EXCEPT !.resolving = @ \cup {<<d, named>>}]
  ELSE Arrive(h, d, named, inProgress)

SetHash(h, hash, inProgress) ==
  CASE hash[1] = "page" -> ScrollPageIntoView(h, hash[2])
    [] hash[1] = "at" -> ScrollIntoPlace(h, hash[2])
    [] hash[1] = "none" -> h
    [] OTHER -> GoToDestination(h, hash[2], hash[1] = "name", inProgress)

---------------------------------------------------------------------------
\* Opening a document, and popstate

PageHide(h) ==
  IF h.destination = NoDestination \/ h.destination.temporary
    THEN TryPushCurrentPosition(h, FALSE) ELSE h

ResetHistory(h) ==
  [(IF h.initialized THEN PageHide(h) ELSE h)
     EXCEPT !.initialized = FALSE, !.timeout = FALSE, !.resolving = {}]

FromHash(hash) == [dest |-> -1, hash |-> hash, page |-> PageOf(hash),
                   first |-> 0, temporary |-> FALSE]

\* setInitialView: load will set the same view again when the pages are there.
SetFirstView(h, hash) ==
  IF hash = NoHash THEN h ELSE SetHash([h EXCEPT !.again[hash] = @ + 1], hash, FALSE)

\* initialize, and setInitialView with the bookmark that it finds: the entry
\* that a reload or another visit left, or the hash that the window came with;
\* without one, with the view that is stored.
Initialize(h0, fingerprint, stored) ==
  LET url == Here(h0).url
      fresh == h0.fingerprint = NotLoaded
      h == [h0 EXCEPT !.initialized = TRUE, !.fingerprint = fingerprint, !.blocks = 0,
                      !.mixed = @ \/ \E i \in 1..Len(h0.entries) :
                        h0.entries[i].fingerprint \notin {NotLoaded, fingerprint},
                      !.currentHash = url, !.updates = 0, !.uid = 0, !.maxUid = 0, !.moved = TRUE,
                      !.place = <<1, 1>>, !.destination = NoDestination, !.position = NoDestination]
      state == Here(h0)
      destination == [state.destination EXCEPT !.temporary = FALSE,
                        !.page = IF state.destination.dest > 0 THEN 0 ELSE @]
      bookmark == IF destination.dest > 0 THEN <<"explicit", destination.dest>>
                  ELSE destination.hash
      reInitialized == ~fresh /\ h0.fingerprint # fingerprint
      start == IF url = NoHash \/ reInitialized THEN NoDestination ELSE FromHash(url)
  IN  IF IsValidState(h, state, TRUE)
        THEN SetFirstView(UpdateInternalState(h, destination, state.uid), bookmark)
      ELSE SetFirstView(PushOrReplaceState(h, start, TRUE),
                          IF fresh /\ url # NoHash THEN url ELSE stored)

\* The state that the present entry has, after a traversal or a typed hash.
PopState(h0) ==
  LET state == Here(h0)
      changed == h0.currentHash # state.url
      h == [h0 EXCEPT !.currentHash = state.url]
      destination == [state.destination EXCEPT !.temporary = FALSE]
      at == [UpdateInternalState(h, destination, state.uid)
               EXCEPT !.blocks = IF changed THEN @ + 1 ELSE @,
                      !.waits = IF changed THEN @ + 1 ELSE @]
  IN  IF ~h.initialized THEN h0
      ELSE IF state.fingerprint = NotLoaded
        THEN PushOrReplaceState([h EXCEPT !.uid = @ + 1], FromHash(state.url), TRUE)
      ELSE IF ~IsValidState(h, state, FALSE) THEN h
      ELSE IF destination.dest > 0 THEN GoToDestination(at, destination.dest, FALSE, TRUE)
      ELSE SetHash(at, destination.hash, TRUE)

---------------------------------------------------------------------------
\* The reader

Visit == visits < MaxVisits /\ visits' = visits + 1

LoadInHistory(fingerprint, stored) ==
  /\ Visit /\ ~hist.initialized /\ kept' = 0
  /\ hist' = Initialize(hist, fingerprint, stored)

CloseInHistory == /\ hist.initialized /\ Visit /\ kept' = 0
                 /\ hist' = ResetHistory(hist)

Reload == /\ hist.initialized /\ Visit /\ kept' = 0
          /\ LET h == PageHide(hist) IN hist' = [NewWindow(h.entries, h.cur, TRUE) EXCEPT !.mixed = h.mixed]

FollowLink(d, named) ==
  /\ hist.initialized /\ Visit /\ kept' = 0
  /\ hist' = GoToDestination(hist, d, named, FALSE)

\* linkService.goToPage: a thumbnail, or a page of the outline.
GoToPageNumber(n) ==
  /\ hist.initialized /\ Visit /\ kept' = 0
  /\ LET h == PushCurrentPosition(hist, FALSE) IN hist' = ScrollPageIntoView(PushPage(h, n), n)

ScrollTo(place) ==
  /\ hist.initialized /\ place # hist.place /\ Visit /\ kept' = 0
  /\ hist' = [hist EXCEPT !.place = place, !.moved = TRUE]

\* A hash typed into the address: an entry of its own, without a state.  It is
\* typed while a document is open and after its first position is recorded, a
\* second after the document is shown: popState takes an entry without a state
\* for a new one, and passes over an entry without a destination.
TypeHash(n) ==
  /\ hist.initialized /\ Visit /\ kept' = 0
  /\ hist.destination # NoDestination
  /\ hist.hashEvents = 0 /\ Here(hist).url # <<"page", n>>
  /\ hist' = PopState([hist EXCEPT
                         !.entries = Append(SubSeq(@, 1, hist.cur), StatelessEntry(<<"page", n>>)),
                         !.cur = @ + 1, !.hashEvents = @ + 1])

\* A traversal arrives within its step, unless it asks the worker for the page of
\* its destination; and it moves on with hashchange when a wait that another
\* document has left over ends with it (initialize resets _blockHashChange).
FoundAtOnce(h, state) ==
  /\ IsValidState(h, state, FALSE)
  /\ state.destination.dest > 0 => state.destination.dest \in h.known
  /\ state.url # Here(h).url => h.blocks >= 0

\* The buttons of the browser, or an order of back() or forward().
Traverse(step) ==
  LET there == hist.cur + step IN
  /\ IF hist.asked = step THEN UNCHANGED visits ELSE Visit
  /\ there \in 1..Len(hist.entries) /\ hist.hashEvents = 0
  /\ kept' = IF FoundAtOnce(hist, hist.entries[there]) THEN Len(hist.entries) ELSE 0
  /\ hist' = PopState([hist EXCEPT !.cur = there, !.asked = 0,
                         !.hashEvents = IF hist.entries[there].url # Here(hist).url THEN @ + 1 ELSE @])

\* The named actions GoBack and GoForward of a document.
Back ==
  /\ hist.initialized /\ Visit /\ hist.asked = 0 /\ UNCHANGED kept
  /\ hist' = [hist EXCEPT !.asked =
                IF IsValidState(hist, Here(hist), FALSE) /\ Here(hist).uid > 0 THEN -1 ELSE 0]

Forward ==
  /\ hist.initialized /\ Visit /\ hist.asked = 0 /\ UNCHANGED kept
  /\ hist' = [hist EXCEPT !.asked =
                IF IsValidState(hist, Here(hist), FALSE) /\ Here(hist).uid < hist.maxUid THEN 1 ELSE 0]

\* history.forward() at the last entry.
NothingThere ==
  /\ hist.asked # 0 /\ hist.cur + hist.asked \notin 1..Len(hist.entries)
  /\ hist' = [hist EXCEPT !.asked = 0] /\ UNCHANGED <<visits, kept>>

---------------------------------------------------------------------------
\* What the browser and the worker answer

UpdateViewarea ==
  LET counts == hist.destination # NoDestination /\ hist.destination.page = 0 IN
  /\ hist.moved
  /\ hist' = [hist EXCEPT !.moved = FALSE,
       !.position = IF hist.initialized THEN Position(hist.place) ELSE @,
       !.timeout = hist.initialized,
       !.updates = IF counts /\ @ <= Threshold THEN @ + 1 ELSE @]
  /\ UNCHANGED <<visits, kept>>

UpdateViewareaTimeout ==
  /\ hist.timeout /\ UNCHANGED <<visits, kept>>
  /\ hist' = [TryPushCurrentPosition(hist, TRUE) EXCEPT !.timeout = FALSE]

ResolveDestination(d, named) ==
  /\ <<d, named>> \in hist.resolving /\ UNCHANGED visits /\ kept' = 0
  /\ hist' = Arrive([hist EXCEPT !.resolving = @ \ {<<d, named>>}, !.known = @ \cup {d}],
                    d, named, FALSE)

\* The pages are there, or FORCE_PAGES_LOADED_TIMEOUT is over, and the pages are
\* not all of a size: the first view is set again, wherever the reader is by then,
\* and whatever document is open.
FirstViewAgain ==
  \E hash \in Hashes \ {NoHash} :
    /\ hist.initialized /\ hist.again[hash] > 0 /\ UNCHANGED visits /\ kept' = 0
    /\ hist' = SetHash([hist EXCEPT !.again[hash] = @ - 1], hash, FALSE)

\* The application handles hashchange before those who wait for it do.
HashChange ==
  LET h == [hist EXCEPT !.hashEvents = @ - 1, !.blocks = @ - hist.waits, !.waits = 0] IN
  /\ hist.hashEvents > 0 /\ UNCHANGED <<visits, kept>>
  /\ hist' = IF hist.initialized /\ hist.blocks <= 0 THEN SetHash(h, Here(hist).url, FALSE) ELSE h

HashTimeout ==
  /\ hist.waits > 0 /\ UNCHANGED visits /\ kept' = 0
  /\ hist' = [hist EXCEPT !.waits = @ - 1, !.blocks = @ - 1]

HistoryWorks ==
  \/ UpdateViewarea \/ UpdateViewareaTimeout \/ FirstViewAgain \/ HashChange \/ HashTimeout \/ NothingThere
  \/ hist.asked # 0 /\ Traverse(hist.asked)
  \/ \E d \in Dests, named \in BOOLEAN : ResolveDestination(d, named)

HistoryNext ==
  \/ \E f \in Fingerprints :
       \E stored \in {NoHash} \cup {<<"at", place>> : place \in StoredPlaces[f]} : LoadInHistory(f, stored)
  \/ CloseInHistory \/ Reload \/ Back \/ Forward
  \/ \E d \in Dests, named \in BOOLEAN : FollowLink(d, named)
  \/ \E n \in 1..LastPage : GoToPageNumber(n) \/ TypeHash(n)
  \/ \E place \in Places : ScrollTo(place)
  \/ \E step \in {-1, 1} : Traverse(step)
  \/ HistoryWorks

HistorySpec == HistoryInit /\ [][HistoryNext]_histVars

---------------------------------------------------------------------------
HistoryTypeOK == hist \in HistoryFields /\ visits \in 0..MaxVisits /\ kept \in Nat

Own(i) == hist.entries[i].fingerprint \in {hist.fingerprint} \ {NotLoaded}

\* As long as the window has shown one document only, back() is asked for only
\* where the entry before is one of this page: the button of a document never
\* leaves the viewer.
BackStaysInViewer == ~hist.mixed /\ hist.asked = -1 => hist.cur > 1

\* What the history believes to be the present entry is the present entry.
InternalStateIsTheEntry ==
  hist.initialized /\ IsValidState(hist, Here(hist), FALSE) =>
    /\ hist.uid = Here(hist).uid
    /\ hist.destination.hash = Here(hist).destination.hash

\* A link or a page gone to leaves a way back: the entry before the new one
\* leads to the pages that were last seen.  A destination whose page is not
\* known, as of a hash or after a reload, keeps its entry, and an entry of
\* another document, gone back to, is not one to come back to.
LinksLeaveAWayBack ==
  [][hist'.cur > hist.cur /\ hist'.entries # hist.entries
     /\ IsValidState(hist, Here(hist), FALSE)
     /\ hist'.destination.dest # -1 /\ hist.position # NoDestination
     /\ hist.destination.page # 0 =>
       hist'.entries[hist'.cur - 1].destination.page
         \in hist.position.first .. hist.position.page]_histVars

\* As long as the window has shown one document only, the numbers of its entries
\* increase: after any reloads, typed hashes and traversals.
UidsIncrease ==
  ~hist.mixed => \A i, j \in 1..Len(hist.entries) :
    Own(i) /\ Own(j) /\ i < j => hist.entries[i].uid < hist.entries[j].uid

\* Going back takes no entry away: the reader can go forward again, however
\* long the position that is arrived at is looked at.  The exceptions are those
\* of kept: what moves the view after the traversal, and is not the reader, has
\* the new position pushed, and the entries that were ahead are gone.
TraversalKeepsEntries == Len(hist.entries) >= kept

\* Back and forward stay in the viewer and lose nothing, and the history knows
\* which entry it is at, whatever was typed, reloaded and traversed.
HistoryIsSound ==
  /\ HistoryTypeOK /\ BackStaysInViewer /\ InternalStateIsTheEntry
  /\ UidsIncrease /\ TraversalKeepsEntries
=============================================================================
