------------------------------- MODULE PdfFind -------------------------------
(***************************************************************************)
(* Searching a document in the viewer of PDF (public/pdfjs/web/viewer.mjs):*)
(* PDFFindController, the find bar, and the TextHighlighter of each page   *)
(* that has a text layer.  The text of the pages arrives one page after    *)
(* the other while the reader types, asks for the next match, changes an   *)
(* option, closes the bar or scrolls.                                      *)
(*                                                                         *)
(* The page runs in one thread: an action is one callback with the         *)
(* microtasks it leaves, such as the calculateMatch of each page whose     *)
(* text is there.  When a document is closed, its text requests are        *)
(* destroyed by build/pdf.mjs before another document can be opened.       *)
(***************************************************************************)
EXTENDS Integers, Sequences, Steps

CONSTANTS
  PageTotal,     \* pagesCount; pages are numbered from 0 here
  Queries,       \* what the reader looks for, besides nothing at all
  MatchesIn,     \* matches of a query, with and without case, in each page
  LayerPages,    \* the pages that may have a text layer
  MaxFinds       \* bound: how often the reader does something

PageIdx == 0 .. PageTotal - 1
NoIndex == -1                    \* null, an index that is not there, a hole
NoQuery == "nothing"          \* the empty string
NoState == [query |-> "none", caseSensitive |-> FALSE,
            highlightAll |-> FALSE, findPrevious |-> FALSE]
EmptyBar == [query |-> NoQuery, caseSensitive |-> FALSE, highlightAll |-> FALSE]
NoLayer == {<<-1, FALSE>>}

ASSUME FindAssumption ==
  /\ PageTotal \in Nat \ {0} /\ MaxFinds \in Nat /\ LayerPages \subseteq PageIdx
  /\ {NoQuery, "none"} \cap Queries = {}
  /\ MatchesIn \in [Queries \X BOOLEAN -> [PageIdx -> Nat]]

VARIABLES find,    \* the controller, the bar and the text layers, see FindFields
          finds    \* what the reader did, counted

findVars == <<find, finds>>

Indices == Nat \cup {NoIndex}
PageIndices == PageIdx \cup {NoIndex}
Matches == [PageIdx -> Indices]
FindStates == [query : Queries \cup {NoQuery, "none"}, caseSensitive : BOOLEAN,
               highlightAll : BOOLEAN, findPrevious : BOOLEAN]
BarFields == [query : Queries \cup {NoQuery}, caseSensitive : BOOLEAN, highlightAll : BOOLEAN]
MatchPlaces == [page : PageIndices, match : Indices]
Offsets == [page : PageIndices, match : Indices, wrapped : BOOLEAN]
Asks == {"", "again", "highlightallchange", "casesensitivitychange", "close"}
Messages == {"", "pending", "found", "wrapped", "notFound"}
Layers == [LayerPages -> SUBSET (Indices \X BOOLEAN)]

\* A text layer is the set of matches it shows; the selected one is marked.
FindFields ==
  [document : BOOLEAN, state : FindStates, highlightMatches : BOOLEAN,
   scrollMatches : BOOLEAN, dirtyMatch : BOOLEAN, timeout : BOOLEAN,
   pageMatches : Matches, total : Nat, selected : MatchPlaces, offset : Offsets,
   pagesToSearch : Int, resume : PageIndices, callbacks : [PageIdx -> Nat],
   waiting : Seq(Asks), extracting : BOOLEAN, extracted : 0..PageTotal,
   failed : SUBSET PageIdx, opened : BOOLEAN, status : Messages, count : Nat \X Nat,
   layers : Layers, page : PageIdx, turned : BOOLEAN, undrawn : BOOLEAN, fields : BarFields]

\* A step done n times, each on what the one before left, as in Then: after[k] is
\* what k of them leave.
Repeat(c, n, Step(_, _)) ==
  LET after[k \in 0 .. n] ==
        IF k = 0 THEN c ELSE CHOOSE d \in {Step(e, k - 1) : e \in {after[k - 1]}} : TRUE
  IN  after

ResetFind(c) ==
  [document |-> FALSE, state |-> NoState, highlightMatches |-> FALSE,
   scrollMatches |-> FALSE, dirtyMatch |-> FALSE, timeout |-> FALSE,
   pageMatches |-> [i \in PageIdx |-> NoIndex], total |-> 0,
   selected |-> [page |-> NoIndex, match |-> NoIndex],
   offset |-> [page |-> NoIndex, match |-> NoIndex, wrapped |-> FALSE],
   pagesToSearch |-> 0, resume |-> NoIndex, callbacks |-> [i \in PageIdx |-> 0],
   waiting |-> <<>>, extracting |-> FALSE, extracted |-> 0, failed |-> {},
   opened |-> c.opened, status |-> "", count |-> <<0, 0>>,
   layers |-> [i \in LayerPages |-> NoLayer], page |-> 0, turned |-> FALSE,
   undrawn |-> FALSE, fields |-> c.fields]

FindInit == find = ResetFind([opened |-> FALSE, fields |-> EmptyBar]) /\ finds = 0

\* The matches of the present query in the text that a page gave.
Match(c, i) ==
  IF i \in c.failed THEN 0 ELSE MatchesIn[<<c.state.query, c.state.caseSensitive>>][i]

Computed(c, i) == IF c.pageMatches[i] = NoIndex THEN 0 ELSE c.pageMatches[i]

\* What TextHighlighter draws in the layer of a page.
Rendered(c, i) ==
  LET sel == IF c.selected.page = i THEN c.selected.match ELSE NoIndex
      drawn == IF c.state.highlightAll THEN 0 .. Computed(c, i) - 1 ELSE {sel} \ {NoIndex}
  IN  IF c.highlightMatches /\ Computed(c, i) > 0
        THEN {<<k, k = sel>> : k \in drawn} ELSE {}

\* The layer that draws the selected match scrolls to it, once.
ScrollMatchIntoView(c, drawn) ==
  [c EXCEPT !.scrollMatches = @ /\ ~\E i \in drawn : \E m \in Rendered(c, i) : m[2]]

UpdateMatches(c, pages) ==
  LET shown == {i \in pages \cap LayerPages : c.layers[i] # NoLayer} IN
  [ScrollMatchIntoView(c, shown) EXCEPT
     !.layers = [i \in LayerPages |-> IF i \in shown THEN Rendered(c, i) ELSE @[i]]]

UpdatePage(c, i) ==
  UpdateMatches(IF c.scrollMatches /\ c.selected.page = i THEN [c EXCEPT !.page = i] ELSE c, {i})

UpdateAllPages(c) == [UpdateMatches(c, PageIdx) EXCEPT !.undrawn = FALSE]

\* The matches before each page.
MatchesBefore(pageMatches) ==
  Repeat(0, PageTotal, LAMBDA n, i : IF pageMatches[i] = NoIndex THEN n ELSE n + pageMatches[i])

RequestMatchesCount(c) ==
  LET current == IF c.selected.match = NoIndex THEN 0
                 ELSE MatchesBefore(c.pageMatches)[c.selected.page] + c.selected.match + 1
  IN  IF current < 1 \/ current > c.total THEN <<0, 0>> ELSE <<current, c.total>>

\* What the find bar shows: the message, and the rank in the number of matches.
ShowInBar(c, status, count) == [c EXCEPT !.status = status, !.count = count]

UpdateResultsCount(c) == ShowInBar(c, c.status, RequestMatchesCount(c))
UpdateUIState(c, status) == ShowInBar(c, status, RequestMatchesCount(c))

UpdateMatch(c, found) ==
  LET status == IF ~found THEN "notFound"
                ELSE IF c.offset.wrapped THEN "wrapped" ELSE "found"
      place == [page |-> c.offset.page, match |-> c.offset.match]
      Select(d) == [d EXCEPT !.offset.wrapped = FALSE, !.selected = IF found THEN place ELSE @]
      Leave(d) == IF c.selected.page \notin {NoIndex, d.selected.page}
                    THEN UpdatePage(d, c.selected.page) ELSE d
      Show(d) == IF d.selected.page = NoIndex THEN d
                 ELSE UpdatePage([d EXCEPT !.scrollMatches = TRUE], d.selected.page)
  IN  Then(Then(Select(c), Leave), LAMBDA d : Then(UpdateUIState(d, status), Show))

\* Mutant: each page counts as two of the pages that are left to search.
AdvanceTwice(c) ==
  LET next == c.offset.page + (IF c.state.findPrevious THEN -1 ELSE 1)
      outside == next \notin PageIdx
  IN  [c EXCEPT !.pagesToSearch = @ - 2,
                !.offset = [page |-> IF ~outside THEN next
                                     ELSE IF c.state.findPrevious THEN PageTotal - 1 ELSE 0,
                            match |-> NoIndex, wrapped |-> c.offset.wrapped \/ outside]]

AdvanceOffsetPage(c) ==
  LET next == c.offset.page + (IF c.state.findPrevious THEN -1 ELSE 1)
      outside == next \notin PageIdx
  IN  [c EXCEPT !.pagesToSearch = @ - 1,
                !.offset = [page |-> IF ~outside THEN next
                                     ELSE IF c.state.findPrevious THEN PageTotal - 1 ELSE 0,
                            match |-> NoIndex, wrapped |-> c.offset.wrapped \/ outside]]

\* The loop over pages: those without a match are passed, until a page has one, has
\* no text yet, or all of them have been seen.
NextPageMatch(c) ==
  LET ahead == Repeat(c, PageTotal + 1, LAMBDA d, k : AdvanceOffsetPage(d))
      Seen(d, k) == k > 0 /\ d.offset.wrapped /\ d.pagesToSearch < 0
      Stops(k) == Seen(ahead[k], k) \/ c.pageMatches[ahead[k].offset.page] # 0
      last == CHOOSE k \in 0 .. PageTotal + 1 : Stops(k) /\ \A j \in 0 .. k - 1 : ~Stops(j)
      Stop(d, k) ==
        LET n == c.pageMatches[d.offset.page] IN
        IF Seen(d, k) THEN UpdateMatch(d, FALSE)
        ELSE IF n = NoIndex THEN [d EXCEPT !.resume = d.offset.page]
        ELSE UpdateMatch([d EXCEPT !.offset.match = IF d.state.findPrevious THEN n - 1 ELSE 0], TRUE)
  IN  Then(last, LAMBDA k : Then(ahead[k], LAMBDA d : Stop(d, k)))

\* The first part of nextMatch, for a query that is not the one before.
ForgetMatches(c) ==
  UpdateAllPages(
    [c EXCEPT !.dirtyMatch = FALSE, !.selected = [page |-> NoIndex, match |-> NoIndex],
              !.offset = [page |-> c.page, match |-> NoIndex, wrapped |-> FALSE],
              !.resume = NoIndex, !.pageMatches = [i \in PageIdx |-> NoIndex], !.total = 0])

\* Mutant: each search attaches its callbacks.
AwaitTextAgain(c) == [c EXCEPT !.callbacks = [i \in PageIdx |-> @[i] + 1]]

\* pendingFindMatches: a page that has a callback gets no other.
AwaitText(c) == [c EXCEPT !.callbacks = [i \in PageIdx |-> IF @[i] > 0 THEN @[i] ELSE 1]]

\* A page index of 0 is no index to the test of _resumePageIdx: a search that
\* waits for the first page is not known to wait.
Resuming(c) == c.resume \notin {NoIndex, 0}

Prepared(c) == IF c.dirtyMatch THEN AwaitText(ForgetMatches(c)) ELSE c

\* The next match of the page, or else one of another page.
SearchFrom(c) ==
  LET step == IF c.state.findPrevious THEN -1 ELSE 1 IN
  IF c.offset.match = NoIndex THEN NextPageMatch(c)
  ELSE IF c.offset.match + step \in 0 .. c.pageMatches[c.offset.page] - 1
    THEN UpdateMatch([c EXCEPT !.offset.match = @ + step], TRUE)
  ELSE Then(AdvanceOffsetPage(c), NextPageMatch)

NextMatch(c) ==
  Then(Prepared([c EXCEPT !.highlightMatches = TRUE]), LAMBDA d :
    IF d.state.query = NoQuery THEN UpdateUIState(d, "found")
    ELSE IF Resuming(d) THEN d
    ELSE Then([d EXCEPT !.pagesToSearch = PageTotal, !.turned = FALSE], SearchFrom))

\* Mutant: only a page that has matches takes up the search again.
ResumeOnMatches(c, i) ==
  LET n == Match(c, i)
      Draw(d) == IF d.state.highlightAll THEN UpdatePage(d, i) ELSE d
      Count(d) == UpdateResultsCount([d EXCEPT !.total = @ + n])
      Resume(d) == IF d.resume = i THEN NextPageMatch([d EXCEPT !.resume = NoIndex]) ELSE d
      set == [c EXCEPT !.pageMatches[i] = n]
  IN  IF c.state.query = NoQuery THEN c
      ELSE IF n = 0 THEN Draw(set) ELSE Then(Then(Draw(set), Resume), Count)

CalculateMatch(c, i) ==
  LET n == Match(c, i)
      Draw(d) == IF d.state.highlightAll THEN UpdatePage(d, i) ELSE d
      Resume(d) == IF d.resume = i THEN NextPageMatch([d EXCEPT !.resume = NoIndex]) ELSE d
      Count(d) == IF n > 0 THEN UpdateResultsCount([d EXCEPT !.total = @ + n]) ELSE d
  IN  IF c.state.query = NoQuery THEN c
      ELSE Then(Then(Draw([c EXCEPT !.pageMatches[i] = n]), Resume), Count)

\* The promise of a page resolves: its callbacks run.
RunCallbacks(c, i) ==
  Repeat(c, c.callbacks[i],
    LAMBDA d, k : CalculateMatch([d EXCEPT !.callbacks[i] = @ - 1], i))[c.callbacks[i]]

\* Microtasks: the pages whose text is there answer in their order.
Settle(c) == Repeat(c, c.extracted, RunCallbacks)[c.extracted]

\* What waits for _firstPageCapability: the rest of onFind and of onFindBarClose.
OnFindReady(c0, type) ==
  LET c == [c0 EXCEPT !.extracting = TRUE]
      now == [c EXCEPT !.timeout = FALSE]
  IN  IF type = "" THEN [c EXCEPT !.timeout = TRUE]
      ELSE IF c.dirtyMatch THEN NextMatch(now)
      ELSE IF type = "again"
        THEN IF ~c.highlightMatches /\ c.state.highlightAll
               THEN Then(NextMatch(now), UpdateAllPages) ELSE NextMatch(now)
      ELSE IF type = "highlightallchange"
        THEN Then(IF c.timeout THEN NextMatch(now) ELSE [now EXCEPT !.highlightMatches = TRUE],
                  UpdateAllPages)
      ELSE NextMatch(now)

OnCloseReady(c) ==
  LET stopped == [c EXCEPT !.timeout = FALSE,
                           !.resume = IF Resuming(c) THEN NoIndex ELSE @,
                           !.dirtyMatch = @ \/ Resuming(c)]
  IN  Then([UpdateUIState(stopped, "found") EXCEPT !.highlightMatches = FALSE], UpdateAllPages)

Callback(c, type) == IF type = "close" THEN OnCloseReady(c) ELSE OnFindReady(c, type)

AllReady(c, types) ==
  Repeat(c, Len(types), LAMBDA d, k : Callback(d, types[k + 1]))[Len(types)]

FindReady(c, type) ==
  IF c.document THEN Then(Callback(c, type), Settle) ELSE [c EXCEPT !.waiting = Append(@, type)]

ShouldDirtyMatch(c, state, type, pageVisible) ==
  \/ state.query # c.state.query
  \/ type = "again" /\ c.selected.page \notin {NoIndex, c.page} /\ ~pageVisible
  \/ type \notin {"again", "highlightallchange"}

\* What the fields of the bar ask for.
Asked(c, previous) ==
  [query |-> c.fields.query, caseSensitive |-> c.fields.caseSensitive,
   highlightAll |-> c.fields.highlightAll, findPrevious |-> previous]

OnFind(c, type, previous, pageVisible) ==
  LET state == Asked(c, previous)
      d == [c EXCEPT !.dirtyMatch = \/ @ \/ c.state = NoState
                                    \/ ShouldDirtyMatch(c, state, type, pageVisible),
                     !.state = state,
                     !.turned = @ \/ (Resuming(c) /\ previous # c.state.findPrevious)]
  IN  Then(IF type = "highlightallchange" THEN d ELSE UpdateUIState(d, "pending"),
           LAMBDA e : FindReady(e, type))

---------------------------------------------------------------------------
\* The find bar and the keys.  The fields keep their values when the bar closes
\* and when the document does.

FindCounted == finds < MaxFinds /\ finds' = finds + 1

FindInput(q) ==
  /\ FindCounted /\ find.opened
  /\ find' = OnFind([find EXCEPT !.fields.query = q], "", FALSE, TRUE)

\* Enter, the two buttons, and the keys that work while the bar is closed.
FindAgain(previous, pageVisible) ==
  /\ FindCounted
  /\ find.opened \/ find.state # NoState
  /\ find' = OnFind(find, "again", previous, pageVisible)

HighlightAllChange ==
  /\ FindCounted /\ find.opened
  /\ find' = OnFind([find EXCEPT !.fields.highlightAll = ~@], "highlightallchange", FALSE, TRUE)

CaseSensitivityChange ==
  /\ FindCounted /\ find.opened
  /\ find' = OnFind([find EXCEPT !.fields.caseSensitive = ~@], "casesensitivitychange", FALSE, TRUE)

OpenFindBar == /\ ~find.opened /\ find' = [find EXCEPT !.opened = TRUE] /\ UNCHANGED finds

CloseFindBar == /\ find.opened /\ FindCounted
         /\ find' = FindReady([find EXCEPT !.opened = FALSE], "close")

\* The reader scrolls or goes to another page.
FindGoToPage(i) == /\ FindCounted /\ find.document /\ i # find.page
               /\ find' = [find EXCEPT !.page = i]

---------------------------------------------------------------------------
\* What the document and the browser do.

FindInDocument ==
  /\ ~find.document /\ UNCHANGED finds
  /\ find' = Then(AllReady([find EXCEPT !.document = TRUE, !.waiting = <<>>], find.waiting), Settle)

LeaveDocument == /\ find.document /\ FindCounted /\ find' = ResetFind(find)

\* A search that finds its matches at hand turns the highlights on without drawing
\* the layers again, and only a search by button or key is followed by that.
Undrawn(c) == ~c.dirtyMatch /\ ~c.highlightMatches /\ c.state.highlightAll

FindTimeout ==
  /\ find.timeout /\ UNCHANGED finds
  /\ find' = Then([NextMatch(find) EXCEPT !.timeout = FALSE, !.undrawn = @ \/ Undrawn(find)],
                  Settle)

\* The text of the next page arrives, or cannot be had and counts as empty.
ExtractText(fails) ==
  LET i == find.extracted IN
  /\ find.document /\ find.extracting /\ i < PageTotal /\ UNCHANGED finds
  /\ find' = RunCallbacks([find EXCEPT !.extracted = i + 1,
                                       !.failed = IF fails THEN @ \cup {i} ELSE @], i)

\* TextHighlighter.enable and disable, as pages are drawn and reset.
EnableHighlighter(i) ==
  /\ find.document /\ find.layers[i] = NoLayer /\ UNCHANGED finds
  /\ find' = UpdateMatches([find EXCEPT !.layers[i] = {}], {i})

DisableHighlighter(i) ==
  /\ find.layers[i] # NoLayer /\ UNCHANGED finds
  /\ find' = [find EXCEPT !.layers[i] = NoLayer]

FindWorks == FindTimeout \/ \E fails \in BOOLEAN : ExtractText(fails)

FindNext ==
  \/ \E q \in Queries \cup {NoQuery} : FindInput(q)
  \/ \E previous, pageVisible \in BOOLEAN : FindAgain(previous, pageVisible)
  \/ HighlightAllChange \/ CaseSensitivityChange
  \/ OpenFindBar \/ CloseFindBar \/ FindInDocument \/ LeaveDocument
  \/ \E i \in PageIdx : FindGoToPage(i)
  \/ \E i \in LayerPages : EnableHighlighter(i) \/ DisableHighlighter(i)
  \/ FindWorks

FindSpec == FindInit /\ [][FindNext]_findVars
FindFairSpec == FindSpec /\ WF_findVars(FindWorks)

---------------------------------------------------------------------------
FindTypeOK == find \in FindFields /\ finds \in 0..MaxFinds

Searching == find.document /\ ~find.dirtyMatch /\ find.state.query \notin {"none", NoQuery}

\* Once a search has begun, each page waits for its text or has the matches of
\* the present query, once, and the total is their sum: the answers of a page
\* to an earlier query, to an option since changed, or twice, are never kept.
MatchesAreOfThePresentQuery ==
  Searching =>
    /\ \A i \in PageIdx : find.pageMatches[i] = IF find.callbacks[i] > 0 THEN NoIndex ELSE Match(find, i)
    /\ find.total = MatchesBefore(find.pageMatches)[PageTotal]

\* The selected match exists, so that drawing it finds it; also while the next
\* query is typed and pages already answer to that one.
SelectionExists ==
  find.selected.page # NoIndex =>
    find.selected.match \in 0 .. find.pageMatches[find.selected.page] - 1

\* A search that is over shows the rank of the selected match and the number
\* of matches, and a match is selected when there is one; only a document
\* without a match, searched to the end, is said to have none.  Left out is a
\* search that the reader turned round while it waited for a page: the pages left
\* to search are counted on, and it may end before it comes to the matches.
CountIsTheRank ==
  Searching /\ ~find.turned /\ find.resume = NoIndex /\ (\A i \in PageIdx : find.callbacks[i] = 0) =>
    /\ find.count = RequestMatchesCount(find)
    /\ find.total > 0 <=> find.count[1] > 0
    /\ find.status = "notFound" => find.total = 0

\* While no search is under way, each text layer shows the matches that the
\* controller holds, whether it was there before them or came later.  Left out is
\* a search that was begun, closed and typed again before the document was there.
LayersShowTheMatches ==
  ~find.dirtyMatch /\ ~find.undrawn /\ find.resume = NoIndex =>
    \A i \in LayerPages : find.layers[i] \in {NoLayer, Rendered(find, i)}

\* However the reader types, turns, closes and scrolls while the text of the pages
\* arrives, what the controller holds and what the pages show agree.
FindIsSound ==
  /\ FindTypeOK /\ MatchesAreOfThePresentQuery /\ SelectionExists /\ LayersShowTheMatches

\* The bar says that a search of the document is under way.
SearchIsPending == find.document /\ find.status = "pending"
=============================================================================
