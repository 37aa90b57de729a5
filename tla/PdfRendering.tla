---------------------------- MODULE PdfRendering ----------------------------
(***************************************************************************)
(* How the viewer of PDF works (public/pdfjs/web/viewer.mjs) draws pages   *)
(* and thumbnails.  One view is drawn at a time, in the order that         *)
(* PDFRenderingQueue gives: what is visible, what lies between, what the   *)
(* reader scrolls to next, and then thumbnails.  A view that lost its      *)
(* priority pauses at its next chunk, a view that was reset cancels its    *)
(* task, and pages that have not been drawn for long give up their canvas. *)
(*                                                                         *)
(* The page runs in one thread; an action is what runs until the next      *)
(* await or callback.  Loading a page and drawing belong to build/pdf.mjs. *)
(* The handler of a cancelled task runs before anything that is queued     *)
(* later, so it is part of the step that cancels.                          *)
(***************************************************************************)
EXTENDS Integers, FiniteSets

CONSTANTS
  PageCount,       \* pages of the document
  VisiblePages,    \* the sets of pages that a scroll position can show
  VisibleThumbs,   \* the thumbnails that the sidebar shows
  BrokenPages,     \* the pages that getPage fails for, each time
  LargePages,      \* those whose canvas may reach maxCanvasPixels
  PreRenderExtra,  \* in spreads, two pages are rendered ahead
  CacheSize,       \* DEFAULT_CACHE_SIZE
  MaxEvents        \* bound: how often the reader does something

Pages == 1..PageCount

ASSUME RenderingAssumption ==
  /\ PageCount \in Nat \ {0} /\ CacheSize \in Nat \ {0} /\ MaxEvents \in Nat
  /\ VisiblePages \subseteq SUBSET Pages /\ VisibleThumbs \subseteq Pages
  /\ BrokenPages \subseteq Pages \ {1} /\ LargePages \subseteq Pages
  /\ PreRenderExtra \in BOOLEAN

Page(p) == <<"page", p>>
Thumbnail(p) == <<"thumbnail", p>>
Views == {"page", "thumbnail"} \X Pages
NoView == <<"none", 0>>

VARIABLES
  view,       \* PDFPageView and PDFThumbnailView: the fields below
  buffer,     \* PDFPageViewBuffer: pages that were drawn, numbered from the
              \* one used last; 0 for the others
  size,       \* and how many it may hold
  highest,    \* highestPriorityPage
  loading,    \* views that forceRendering waits for: ensurePdfPageLoaded
  done,       \* views whose draw() is over, and its finally still to run
  idle,       \* idleTimeout is set
  printing,   \* a print service exists
  thumbs,     \* isThumbnailViewEnabled
  visible,    \* the pages at the scroll position
  down,       \* scroll.down
  scaling,    \* #scaleTimeoutId is set: a zoom is to be drawn later
  css,        \* history: pages that the last zoom left to a CSS transform
  events      \* what the reader did, counted

vars == <<view, buffer, size, highest, loading, done, idle, printing, thumbs,
          visible, down, scaling, css, events>>

\* canvas: none, one of the present scale and rotation, or an older one.
Fields ==
  [state : {"INITIAL", "RUNNING", "PAUSED", "FINISHED"}, pdfPage : BOOLEAN,
   renderTask : BOOLEAN, resume : BOOLEAN, canvas : {"none", "current", "stale"}]

TypeOK ==
  /\ view \in [Views -> Fields]
  /\ buffer \in [Pages -> Nat] /\ size \in Nat
  /\ highest \in Views \cup {NoView}
  /\ loading \subseteq Views /\ done \subseteq Views
  /\ idle \in BOOLEAN /\ printing \in BOOLEAN /\ thumbs \in BOOLEAN
  /\ visible \in SUBSET Pages /\ down \in BOOLEAN
  /\ scaling \in BOOLEAN /\ css \subseteq Pages /\ events \in 0..MaxEvents

\* setDocument: a view for every page, and the first page has arrived.
Init ==
  /\ view = [v \in Views |->
       [state |-> "INITIAL", pdfPage |-> v[2] = 1, renderTask |-> FALSE,
        resume |-> FALSE, canvas |-> "none"]]
  /\ buffer = [p \in Pages |-> 0] /\ size = CacheSize
  /\ highest = NoView
  /\ loading = {} /\ done = {}
  /\ idle = FALSE /\ printing = FALSE /\ thumbs = FALSE
  /\ visible = {} /\ down = TRUE
  /\ scaling = FALSE /\ css = {} /\ events = 0

----------------------------------------------------------------------------
(* Views: PDFPageView and PDFThumbnailView                                 *)

Finished(w, v) == w[v].state = "FINISHED"

\* cancelRendering; a cancelled task takes the canvas it was painting with it.
CancelRendering(f) ==
  [f EXCEPT !.renderTask = FALSE, !.resume = FALSE,
            !.canvas = IF f.renderTask THEN "none" ELSE f.canvas]

\* reset; a zoom keeps the old picture until the new one is there.
ResetKeepingCanvas(f) == [CancelRendering(f) EXCEPT !.state = "INITIAL"]
Reset(f) == [CancelRendering(f) EXCEPT !.state = "INITIAL", !.canvas = "none"]

\* setPdfPage: only the first answer counts.
SetPdfPage(f) == IF f.pdfPage THEN f ELSE [Reset(f) EXCEPT !.pdfPage = TRUE]

\* The pictures do not fit any more after a zoom or a rotation.
Outdated(f) == IF f.canvas = "current" THEN [f EXCEPT !.canvas = "stale"] ELSE f

\* update with a drawingDelay: what is being painted is given up.
Postponed(f, onlyCss) ==
  IF f.state # "FINISHED" /\ ~ onlyCss
  THEN [CancelRendering(f) EXCEPT !.state = "FINISHED"]
  ELSE f

\* update: with a canvas, a zoom may be put off, or left to CSS altogether.
Update(f, delayed, onlyCss) ==
  LET o == Outdated(f) IN
  IF f.canvas = "none" THEN ResetKeepingCanvas(o)
  ELSE IF delayed THEN Postponed(o, onlyCss)
  ELSE IF onlyCss THEN o
  ELSE ResetKeepingCanvas(o)

\* setImage: an untouched thumbnail may be made of a page's canvas.
Fitting(w, p) ==
  w[Thumbnail(p)].state = "INITIAL" /\ w[Page(p)].canvas # "none"
SetImages(w, S) ==
  [v \in Views |-> IF v[1] = "thumbnail" /\ v[2] \in S
                   THEN [SetPdfPage(w[v]) EXCEPT !.state = "FINISHED"] ELSE w[v]]

\* The views whose task was cancelled: their draw() is over as well.
CancelledIn(w) == {v \in Views : view[v].renderTask /\ ~ w[v].renderTask}

----------------------------------------------------------------------------
(* PDFPageViewBuffer                                                       *)

Holds(b) == {p \in Pages : b[p] > 0}
\* The pages that the buffer gives up are destroyed.
DestroyViews(w, S) ==
  [v \in Views |-> IF v[1] = "page" /\ v[2] \in S THEN Reset(w[v]) ELSE w[v]]

\* What is left of a buffer that may hold n pages: the oldest are destroyed.
Newest(b, n) == [p \in Pages |-> IF b[p] > n THEN 0 ELSE b[p]]

\* The pages of held in their order, but those of keep are used now.
AsNewAs(b, keep, o, p) ==
  IF (o \in keep) = (p \in keep) THEN b[o] <= b[p] ELSE o \in keep
Renewed(b, held, keep) ==
  [p \in Pages |->
     IF p \in held THEN Cardinality({o \in held : AsNewAs(b, keep, o, p)}) ELSE 0]

\* push: a page drawn again becomes the newest.
PushView(b, p) == Renewed(b, Holds(b) \cup {p}, {p})

\* resize: the visible pages become the newest.
Resize(b, n, keep) == Newest(Renewed(b, Holds(b), keep), n)

----------------------------------------------------------------------------
(* PDFRenderingQueue                                                       *)

FirstOf(S) == CHOOSE p \in S : \A q \in S : p <= q
LastOf(S) == CHOOSE p \in S : \A q \in S : p >= q

\* #getScrollAhead: at an end of the document there is one way to go.
ScrollAhead(S, dn) == IF FirstOf(S) = 1 THEN TRUE ELSE LastOf(S) # PageCount /\ dn

\* getHighestPriority, of the views of a kind: those of S come in the order of
\* their visibility, which is not told apart; then the holes, then the next.
Waiting(w, kind, S) == {p \in S : ~ Finished(w, <<kind, p>>)}
Holes(S) == (FirstOf(S)..LastOf(S)) \ S
Nearest(S, ahead) == IF ahead THEN {FirstOf(S)} ELSE {LastOf(S)}
Beyond(S, ahead, n) == IF ahead THEN LastOf(S) + n ELSE FirstOf(S) - n

GetHighestPriority(w, kind, S, dn, extra) ==
  IF S = {} THEN {}
  ELSE LET ahead == ScrollAhead(S, dn)
           holes == Waiting(w, kind, Holes(S))
           next == Waiting(w, kind, {Beyond(S, ahead, n) : n \in 1..(IF extra THEN 2 ELSE 1)} \cap Pages)
       IN {kind} \X (IF Waiting(w, kind, S) # {} THEN Waiting(w, kind, S)
                     ELSE IF holes # {} THEN Nearest(holes, ahead)
                     ELSE IF next # {} THEN Nearest(next, ahead)
                     ELSE {})

\* Mutant of RenderHighestPriority: the timer is not taken back.
RenderWithTimerOn(w, l, S, dn, on, pr) ==
  LET wanted == GetHighestPriority(w, "page", S, dn, PreRenderExtra) IN
  IF wanted = {}
  THEN loading' = l /\ idle' = ~ pr
  ELSE (\E v \in wanted : loading' = l \cup {v}) /\ UNCHANGED idle
\* renderHighestPriority, with the views w and the loads l there are by now.
\* Pages come first; when nothing is left, the timer of cleanup is set.
RenderHighestPriority(w, l, S, dn, on, pr) ==
  LET pages == GetHighestPriority(w, "page", S, dn, PreRenderExtra)
      small == IF on THEN GetHighestPriority(w, "thumbnail", VisibleThumbs, TRUE, FALSE) ELSE {}
      wanted == IF pages # {} THEN pages ELSE small IN
  IF wanted = {}
  THEN loading' = l /\ idle' = ~ pr
  ELSE /\ \E v \in wanted : loading' = l \cup {v}
       /\ idle' = FALSE

\* PDFViewer.update: the buffer is resized for what is visible, and what is
\* wanted most is rendered; without visible pages nothing happens.
UpdateViewer(w, S, dn) ==
  IF S = {}
  THEN /\ view' = w
       /\ UNCHANGED <<buffer, size, loading, idle>>
  ELSE LET n == 2 * Cardinality(S) + 1
           max == IF n > CacheSize THEN n ELSE CacheSize
           b == Resize(buffer, max, S)
           kept == DestroyViews(w, Holds(buffer) \ Holds(b)) IN
       /\ view' = kept
       /\ buffer' = b /\ size' = max
       /\ RenderHighestPriority(kept, loading, S, dn, thumbs, printing)

----------------------------------------------------------------------------
(* What the thread does, one step after another                            *)

PauseTask(f) == [f EXCEPT !.state = "PAUSED", !.resume = TRUE]

\* Mutant of Finally: then instead of finally, so not when draw() throws.
ThenOnly(v) == IF view[v].pdfPage THEN {v} ELSE {}
\* renderView goes on when draw() is over, however it ended.
Finally(v) == {v}

Running(f) == [f EXCEPT !.state = "RUNNING", !.renderTask = TRUE]

\* draw() of a thumbnail.
DrawThumbnail(w, v) ==
  /\ view' = [w EXCEPT ![v] = Running(@)]
  /\ UNCHANGED <<buffer, done>>

\* draw() of a page: a canvas for the present viewport, and pagerender puts the
\* page into the buffer, which may give up another one.
DrawPage(w, v) ==
  LET drawn == [w EXCEPT ![v] = [Running(@) EXCEPT !.canvas = "current"]]
      b == PushView(buffer, v[2])
      held == Cardinality(Holds(b))
      kept == IF held > size THEN Newest(b, held - 1) ELSE b IN
  /\ buffer' = kept
  /\ view' = DestroyViews(drawn, Holds(b) \ Holds(kept))
  /\ done' = done \cup CancelledIn(view')

\* Without its page, draw() throws.
DrawNothing(w, v) ==
  /\ view' = [w EXCEPT ![v].state = "FINISHED"]
  /\ done' = done \cup Finally(v)
  /\ UNCHANGED buffer

\* renderView, by the state the view is in by now.
RenderView(w, v) ==
  \/ /\ w[v].state = "FINISHED"
     /\ view' = w
     /\ UNCHANGED <<highest, done, buffer>>
  \/ /\ w[v].state = "PAUSED"
     /\ w[v].resume
     /\ highest' = v
     /\ view' = [w EXCEPT ![v].state = "RUNNING"]
     /\ UNCHANGED <<done, buffer>>
  \/ /\ w[v].state = "RUNNING"
     /\ highest' = v
     /\ view' = w
     /\ UNCHANGED <<done, buffer>>
  \/ /\ w[v].state = "INITIAL"
     /\ highest' = v
     /\ \/ ~ w[v].pdfPage /\ DrawNothing(w, v)
        \/ w[v].pdfPage /\ v[1] = "page" /\ DrawPage(w, v)
        \/ w[v].pdfPage /\ v[1] = "thumbnail" /\ DrawThumbnail(w, v)

\* ensurePdfPageLoaded is over, and its view is rendered whether its page is
\* there or not, and whether anybody still looks at it or not.
EnsurePdfPageLoaded(v) ==
  /\ v \in loading
  /\ loading' = loading \ {v}
  /\ RenderView(IF v[2] \in BrokenPages THEN view ELSE [view EXCEPT ![v] = SetPdfPage(@)], v)
  /\ UNCHANGED <<size, idle, printing, thumbs, visible, down, scaling, css, events>>

\* The pages left are fetched while the first ones are being looked at.
GetPage(p) ==
  /\ p \notin BrokenPages
  /\ ~ view[Page(p)].pdfPage
  /\ view' = [view EXCEPT ![Page(p)] = SetPdfPage(@)]
  /\ UNCHANGED <<buffer, size, highest, loading, done, idle, printing, thumbs,
                 visible, down, scaling, css, events>>

\* renderContinueCallback: only the highest priority goes on.
Pause(v) ==
  /\ view[v].state = "RUNNING" /\ view[v].renderTask
  /\ highest # v
  /\ view' = [view EXCEPT ![v] = PauseTask(@)]
  /\ UNCHANGED <<buffer, size, highest, loading, done, idle, printing, thumbs,
                 visible, down, scaling, css, events>>

\* onPageRendered: the thumbnails that are shown take the picture.
OnPageRendered(w, S) ==
  IF thumbs THEN SetImages(w, {p \in S : Fitting(w, p)}) ELSE w

\* #finishRenderTask, with an error or without.
FinishRenderTask(v) ==
  /\ view[v].state = "RUNNING" /\ view[v].renderTask
  /\ view' = OnPageRendered([view EXCEPT ![v].state = "FINISHED", ![v].renderTask = FALSE],
                            IF v[1] = "page" THEN {v[2]} ELSE {})
  /\ done' = done \cup Finally(v)
  /\ UNCHANGED <<buffer, size, highest, loading, idle, printing, thumbs,
                 visible, down, scaling, css, events>>

\* The finally of draw(): what is wanted now is rendered next.
DrawIsOver(v) ==
  /\ v \in done
  /\ done' = done \ {v}
  /\ RenderHighestPriority(view, loading, visible, down, thumbs, printing)
  /\ UNCHANGED <<view, buffer, size, highest, printing, thumbs,
                 visible, down, scaling, css, events>>

\* onIdle, that is cleanup: whatever is not finished starts anew.
Cleanup ==
  /\ idle
  /\ idle' = FALSE
  /\ view' = [v \in Views |-> IF Finished(view, v) THEN view[v] ELSE Reset(view[v])]
  /\ done' = done \cup CancelledIn(view')
  /\ UNCHANGED <<buffer, size, highest, loading, printing, thumbs,
                 visible, down, scaling, css, events>>

----------------------------------------------------------------------------
(* What the reader does                                                    *)

Event == events < MaxEvents /\ events' = events + 1

\* The way that scrolling there is, as watchScroll tells it.
Towards(S, dn) ==
  visible # {} /\ S # {} =>
    /\ FirstOf(S) > FirstOf(visible) => dn
    /\ FirstOf(S) < FirstOf(visible) => ~ dn

Scroll(S, dn) ==
  /\ Event
  /\ Towards(S, dn)
  /\ visible' = S /\ down' = dn
  /\ UpdateViewer(view, S, dn)
  /\ done' = done \cup CancelledIn(view')
  /\ UNCHANGED <<highest, printing, thumbs, scaling, css>>

\* refresh: every page is updated; those of C are too large to be drawn so.
TooLarge == {p \in LargePages : view[Page(p)].canvas # "none"}
Refresh(delayed, C) ==
  LET w == [v \in Views |-> IF v[1] = "page" THEN Update(view[v], delayed, v[2] \in C)
                            ELSE view[v]] IN
  IF delayed THEN w ELSE OnPageRendered(w, C)

\* #setScaleUpdatePages, and onScaleChanging.  A change of layers refreshes
\* the pages in the same way, without a delay.
Zoom(S, delayed, C) ==
  /\ Event
  /\ visible' = S
  /\ css' = C
  /\ scaling' = delayed
  /\ UpdateViewer(Refresh(delayed, C), S, down)
  /\ done' = done \cup CancelledIn(view')
  /\ UNCHANGED <<highest, printing, thumbs, down>>

\* The delay is over.
ScaleTimeout(C) ==
  /\ scaling
  /\ scaling' = FALSE
  /\ css' = C
  /\ UpdateViewer(Refresh(FALSE, C), visible, down)
  /\ done' = done \cup CancelledIn(view')
  /\ UNCHANGED <<highest, printing, thumbs, visible, down, events>>

\* pagesRotation, and onRotationChanging, which resets the thumbnails.
Rotate(C) ==
  /\ Event
  /\ css' = C
  /\ scaling' = FALSE
  /\ view' = [v \in Views |-> IF v[1] = "page" THEN Refresh(FALSE, C)[v] ELSE Reset(view[v])]
  /\ done' = done \cup CancelledIn(view')
  /\ RenderHighestPriority(view', loading, visible, down, thumbs, printing)
  /\ UNCHANGED <<buffer, size, highest, printing, thumbs, visible, down>>

\* open and close of the sidebar, with its thumbnails in front.
Sidebar ==
  /\ Event
  /\ thumbs' = ~ thumbs
  /\ view' = IF thumbs THEN view
             ELSE SetImages(view, {p \in Holds(buffer) : Finished(view, Page(p)) /\ Fitting(view, p)})
  /\ done' = done \cup CancelledIn(view')
  /\ RenderHighestPriority(view', loading, visible, down, ~ thumbs, printing)
  /\ UNCHANGED <<buffer, size, highest, printing, visible, down, scaling, css>>

\* beforePrint waits for all pages (pageViewsReady); afterPrint.
PrintStarts ==
  /\ Event
  /\ ~ printing
  /\ \A p \in Pages : view[Page(p)].pdfPage
  /\ printing' = TRUE
  /\ RenderHighestPriority(view, loading, visible, down, thumbs, TRUE)
  /\ UNCHANGED <<view, buffer, size, highest, done, thumbs, visible, down, scaling, css>>

PrintEnds ==
  /\ printing
  /\ printing' = FALSE
  /\ RenderHighestPriority(view, loading, visible, down, thumbs, FALSE)
  /\ UNCHANGED <<view, buffer, size, highest, done, thumbs, visible, down, scaling, css, events>>

\* ensurePdfPageLoaded of a page that is there has nothing to wait for: its
\* renderView runs before any other event, message or timer.
Ready == {v \in loading : view[v].pdfPage}

ViewCallback == \E v \in Views : EnsurePdfPageLoaded(v) \/ DrawIsOver(v)

Task ==
  \/ \E v \in Views : Pause(v) \/ FinishRenderTask(v)
  \/ \E p \in Pages : GetPage(p)
  \/ \E C \in SUBSET TooLarge : ScaleTimeout(C)
  \/ Cleanup \/ PrintEnds

Reader ==
  \/ \E S \in VisiblePages, dn \in BOOLEAN : Scroll(S, dn)
  \/ \E S \in VisiblePages, delayed \in BOOLEAN, C \in SUBSET TooLarge : Zoom(S, delayed, C)
  \/ \E C \in SUBSET TooLarge : Rotate(C)
  \/ Sidebar \/ PrintStarts

Next == ViewCallback \/ (Ready = {} /\ (Task \/ Reader))

Spec == Init /\ [][Next]_vars

\* The browser runs what is queued, loading a page ends, and so does painting
\* one that is let go on; the timer of a zoom fires.
RenderingWorks ==
  \/ ViewCallback
  \/ Ready = {} /\ \E v \in Views : Pause(v) \/ FinishRenderTask(v)
  \/ Ready = {} /\ \E C \in SUBSET TooLarge : ScaleTimeout(C)

FairSpec == Spec /\ WF_vars(RenderingWorks)

----------------------------------------------------------------------------
(***************************************************************************)
(* A view's state tells what its task does: a running or paused view has   *)
(* one, others do not, and a paused one can be resumed, also after zooms,  *)
(* resets and evictions in between (viewer.mjs:7814: renderView calls      *)
(* resume unasked).                                                        *)
(***************************************************************************)
TasksMatchStates ==
  \A v \in Views :
    /\ view[v].renderTask <=> view[v].state \in {"RUNNING", "PAUSED"}
    /\ view[v].state = "PAUSED" => view[v].resume /\ highest # v

(***************************************************************************)
(* Canvases are what takes memory: only pages in the buffer have one, and  *)
(* the buffer holds no more than it may.                                   *)
(***************************************************************************)
CanvasesAreBuffered ==
  /\ Cardinality(Holds(buffer)) <= size
  /\ {buffer[p] : p \in Holds(buffer)} = 1..Cardinality(Holds(buffer))
  /\ \A p \in Pages : view[Page(p)].canvas # "none" => p \in Holds(buffer)

(***************************************************************************)
(* A finished page shows the document as it is zoomed and rotated now,     *)
(* unless its zoom is to be drawn shortly or is left to CSS.  One without  *)
(* any picture waits for such a timer, or cannot be loaded.                *)
(***************************************************************************)
FinishedPagesAreCurrent ==
  \A p \in Pages : LET f == view[Page(p)] IN
    f.state = "FINISHED" /\ ~ scaling =>
      \/ f.canvas = "current"
      \/ f.canvas = "stale" /\ p \in css
      \/ ~ f.pdfPage

(***************************************************************************)
(* The timer that cleans up is set only when nothing is wanted any more:   *)
(* it does not interrupt the drawing of what the reader sees, nor a print. *)
(***************************************************************************)
CleanupDisturbsNobody ==
  idle => ~ printing /\ \A p \in visible : view[Page(p)].state \notin {"RUNNING", "PAUSED"}

(***************************************************************************)
(* States, tasks, canvases and the buffer fit each other, whatever zooms,  *)
(* resets, evictions and late answers interleave.                          *)
(***************************************************************************)
RenderingIsSound ==
  /\ TypeOK /\ TasksMatchStates /\ CanvasesAreBuffered
  /\ FinishedPagesAreCurrent /\ CleanupDisturbsNobody

(***************************************************************************)
(* What stays in view is drawn in the end, whatever was being drawn, was   *)
(* cancelled or evicted before.                                            *)
(***************************************************************************)
Shown(p) == Finished(view, Page(p)) /\ ~ scaling
VisiblePagesAreDrawn == \A p \in Pages : <>[](p \in visible) => <>[]Shown(p)
============================================================================
