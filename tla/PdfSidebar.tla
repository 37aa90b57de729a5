------------------------------ MODULE PdfSidebar ------------------------------
(***************************************************************************)
(* The sidebar of the viewer of PDF (public/pdfjs/web/viewer.mjs):         *)
(* PDFSidebar and the trees of outline, attachments and layers.  What a    *)
(* document has arrives late and in any order; the sidebar offers only the *)
(* trees that have something to show, and its view is stored by document.  *)
(*                                                                         *)
(* An action is one task of the page with its microtasks.  A document has  *)
(* a number and is opened once; 0 stands for none.  The next is opened     *)
(* when the worker of the one before has ended.                            *)
(***************************************************************************)
EXTENDS Integers, FiniteSetsExt

CONSTANTS SidebarPages, \* pages of a document
          SidebarDocs,  \* bound: documents opened
          TreeSets,     \* what trees a page may have containers for
          FileNames,    \* names of attachments
          Layers,       \* layers of a document; to show one hides the others
          MaxClicks     \* bound: what the reader does

Trees == {"OUTLINE", "ATTACHMENTS", "LAYERS"}
SidebarViews == {"NONE", "THUMBS"} \cup Trees

ASSUME SidebarAssumption ==
  /\ SidebarPages \in Nat \ {0} /\ SidebarDocs \in Nat \ {0} /\ MaxClicks \in Nat
  /\ TreeSets \subseteq SUBSET Trees /\ IsFiniteSet(FileNames) /\ IsFiniteSet(Layers)

SidebarPageSet == 1..SidebarPages
Numbers == 0..SidebarDocs

VARIABLES side,   \* see SideFields
          clicks  \* counted up to MaxClicks

sidebarVars == <<side, clicks>>

\* What the worker or a timeout answers, of some document.
Questions == {"initial", "again", "rendered", "pages", "hash", "reset"} \cup Trees

\* trees are the trees the page has viewers for.  initialSet and sidebarSet are isInitialViewSet of the application and of the
\* sidebar; told is the view of the last sidebarviewchanged, currentButton tells
\* whether the current item of the outline can be looked for.  loaded is what
\* the outline knows of the pages, early whether the pages of the next document
\* count as loaded before they are.  items are the pages with an outline item,
\* capability is what the button waits for, hash the table from page to item of a
\* document that is made ("making") or there; queue are attachments of annotations
\* that wait for the tree, waits the documents whose empty tree is told late.
\* config is what the pages show of the layers and boxes what the tree says.
SideFields ==
  [trees : TreeSets, opened : Numbers, document : Numbers, closing : Numbers,
   asked : SUBSET (Questions \X Numbers),
   isOpen : BOOLEAN, active : SidebarViews \ {"NONE"}, initialSet : BOOLEAN,
   sidebarSet : BOOLEAN, eventSent : BOOLEAN, told : SidebarViews,
   stored : [Numbers -> {"UNKNOWN"} \cup SidebarViews], disabled : SUBSET Trees,
   currentButton : BOOLEAN, page : SidebarPageSet, loaded : BOOLEAN, early : BOOLEAN,
   treeOf : [Trees -> Numbers], items : SUBSET SidebarPageSet,
   capability : {"none", "pending", "settled"}, hash : {"none", "making", "there"},
   hashOf : Numbers, item : 0..SidebarPages, files : SUBSET FileNames, queue : SUBSET FileNames,
   rendered : BOOLEAN, pendingEvent : BOOLEAN, waits : SUBSET Numbers,
   config : SUBSET Layers, boxes : SUBSET Layers, late : BOOLEAN]

SidebarInit ==
  /\ \E trees \in TreeSets : \E before \in [1..SidebarDocs -> {"UNKNOWN", "NONE"} \cup trees] :
       side = [trees |-> trees, opened |-> 0, document |-> 0, closing |-> 0, asked |-> {}, isOpen |-> FALSE,
               active |-> "THUMBS", initialSet |-> FALSE, sidebarSet |-> FALSE,
               eventSent |-> FALSE, told |-> "NONE",
               stored |-> [d \in Numbers |-> IF d = 0 THEN "UNKNOWN" ELSE before[d]], disabled |-> {},
               currentButton |-> FALSE, page |-> 1, loaded |-> FALSE, early |-> FALSE,
               treeOf |-> [t \in Trees |-> 0], items |-> {}, capability |-> "none",
               hash |-> "none", hashOf |-> 0, item |-> 0, files |-> {}, queue |-> {},
               rendered |-> FALSE, pendingEvent |-> FALSE, waits |-> {},
               config |-> {}, boxes |-> {}, late |-> FALSE]
  /\ clicks = 0

---------------------------------------------------------------------------
\* PDFSidebar

VisibleView(s) == IF s.isOpen THEN s.active ELSE "NONE"

\* #dispatchEvent, and onSidebarViewChanged of the application.
DispatchView(s) ==
  [s EXCEPT !.told = VisibleView(s), !.eventSent = @ \/ s.sidebarSet,
            !.stored[s.document] =
              IF s.initialSet /\ s.document # 0 THEN VisibleView(s) ELSE @]

OpenSide(s) == IF s.isOpen THEN s ELSE DispatchView([s EXCEPT !.isOpen = TRUE])
CloseSide(s) == IF s.isOpen THEN DispatchView([s EXCEPT !.isOpen = FALSE]) ELSE s

SwitchView(s, view, forceOpen) ==
  LET t == [s EXCEPT !.active = view]
  IN  IF view = "NONE" THEN CloseSide(s)
      ELSE IF view \in s.disabled THEN s
      ELSE IF forceOpen /\ ~s.isOpen THEN OpenSide(t)
      ELSE IF view # s.active THEN DispatchView(t) ELSE t

\* setInitialView, once per document.
SetView(s, view) ==
  IF s.sidebarSet THEN s
  ELSE LET t == [s EXCEPT !.sidebarSet = TRUE]
       IN  IF view \in {"NONE", "UNKNOWN"} THEN DispatchView(t)
           ELSE LET u == SwitchView(t, view, TRUE)
                IN  IF u.eventSent THEN u ELSE DispatchView(u)

\* reset of the sidebar.
ResetSide(s) ==
  [SwitchView([s EXCEPT !.sidebarSet = FALSE, !.eventSent = FALSE], "THUMBS", FALSE)
     EXCEPT !.disabled = {}, !.currentButton = FALSE]

\* onTreeLoaded: a view that turns out to be empty is left.
TreeLoaded(s, tree, count) ==
  LET t == [s EXCEPT !.disabled = IF count > 0 THEN @ \ {tree} ELSE @ \cup {tree}]
  IN  IF count = 0 /\ s.active = tree THEN SwitchView(t, "THUMBS", FALSE) ELSE t

---------------------------------------------------------------------------
\* PDFOutlineViewer

\* The capability of the current item is resolved, and the sidebar hears of it.
SettleCurrentItem(s, enabled) ==
  IF s.capability # "pending" THEN s
  ELSE [s EXCEPT !.capability = "settled",
                 !.currentButton = IF s.sidebarSet THEN enabled ELSE @]

\* _dispatchEvent; the button hears of a promise that is settled at once as well.
OutlineLoaded(s) ==
  LET t == TreeLoaded([s EXCEPT !.capability = "pending"], "OUTLINE", Cardinality(s.items))
  IN  IF s.items = {} THEN SettleCurrentItem(t, FALSE)
      ELSE IF s.loaded THEN SettleCurrentItem(t, TRUE) ELSE t

ResetOutline(s) ==
  [SettleCurrentItem(s, FALSE) EXCEPT !.treeOf["OUTLINE"] = 0, !.items = {}, !.item = 0,
     !.hash = "none", !.hashOf = 0, !.page = 1, !.loaded = FALSE, !.capability = "none"]

\* The item of the present page, or of the last page before it that has one.
ShowCurrentItem(s) ==
  LET before == {p \in s.items : p <= s.page}
  IN  IF s.items = {} THEN s
      ELSE [s EXCEPT !.item = IF s.told = "OUTLINE" /\ before # {} THEN Max(before) ELSE 0]

---------------------------------------------------------------------------
\* PDFAttachmentViewer

ResetFiles(s) ==
  [s EXCEPT !.treeOf["ATTACHMENTS"] = 0, !.files = {}, !.queue = {},
            !.rendered = FALSE, !.pendingEvent = FALSE]

\* Mutant: what was to be told late is told although the tree is filled.
FilesLoadedAtOnce(s) ==
  IF s.files = {} /\ ~s.pendingEvent
    THEN [s EXCEPT !.rendered = TRUE, !.pendingEvent = TRUE, !.waits = @ \cup {s.document}]
  ELSE TreeLoaded([s EXCEPT !.rendered = TRUE], "ATTACHMENTS", Cardinality(s.files))

\* _dispatchEvent: annotations may still bring an attachment to an empty tree.
FilesLoaded(s) ==
  IF s.files = {} /\ ~s.pendingEvent
    THEN [s EXCEPT !.rendered = TRUE, !.pendingEvent = TRUE, !.waits = @ \cup {s.document}]
  ELSE TreeLoaded([s EXCEPT !.rendered = TRUE, !.pendingEvent = FALSE],
                  "ATTACHMENTS", Cardinality(s.files))

\* #appendAttachment, once the tree is there: of one annotation, or of those
\* that came before the tree, each of which fills it as the first one does.
AppendFiles(s, names) ==
  IF names \subseteq s.files THEN s
  ELSE FilesLoaded([s EXCEPT !.files = @ \cup names])

---------------------------------------------------------------------------
\* PDFLayerViewer

ResetLayers(s) == [s EXCEPT !.treeOf["LAYERS"] = 0, !.boxes = {}]

RenderLayers(s) == TreeLoaded([s EXCEPT !.boxes = s.config], "LAYERS", Cardinality(Layers))

\* optionalContentConfigPromise, and #updateLayers with its promise.
ShowLayers(s, config) ==
  [s EXCEPT !.config = config, !.boxes = IF s.treeOf["LAYERS"] = 0 THEN @ ELSE config]

---------------------------------------------------------------------------
\* Documents

LoadTasks == {"initial", "rendered", "pages"}

LoadDocument ==
  LET d == side.opened + 1 IN
  /\ side.document = 0 /\ side.closing = 0 /\ d <= SidebarDocs /\ UNCHANGED clicks
  /\ side' = [side EXCEPT !.opened = d, !.document = d, !.page = 1, !.loaded = side.early,
                          !.asked = @ \cup (LoadTasks \X {d})]

ResetTrees(s) == ResetLayers(ResetFiles(ResetOutline(ResetSide(s))))

UnloadDocument ==
  /\ side.document # 0 /\ UNCHANGED clicks
  /\ side' = ResetTrees([side EXCEPT !.closing = side.document, !.document = 0,
                                     !.initialSet = FALSE, !.early = FALSE])

\* The worker answers no more; timeouts go on.
WorkerEnds ==
  /\ side.closing # 0 /\ UNCHANGED clicks
  /\ side' = [side EXCEPT !.closing = 0,
                !.asked = {a \in @ : a[2] # side.closing \/ a[1] = "again"}]

Answered(a) == [side EXCEPT !.asked = @ \ {a}]

\* The first view comes from what was stored, or else from the document; it
\* counts for whatever document is open by then.
InitialView ==
  \E d \in Numbers, mode \in {"UNKNOWN"} \cup side.trees :
    LET s == Answered(<<"initial", d>>)
        view == IF s.stored[d] # "UNKNOWN" THEN s.stored[d] ELSE mode
    IN  /\ <<"initial", d>> \in side.asked /\ UNCHANGED clicks
        /\ side' = SetView([s EXCEPT !.initialSet = TRUE, !.late = @ \/ d # s.document,
                                     !.asked = @ \cup {<<"again", d>>}], view)

\* The view is set again when the pages have different sizes, after a timeout.
InitialViewAgain ==
  \E d \in Numbers, equal \in BOOLEAN :
    LET s == Answered(<<"again", d>>)
    IN  /\ <<"again", d>> \in side.asked /\ UNCHANGED clicks
        /\ side' = IF equal \/ s.document = 0 THEN s
                   ELSE SetView([s EXCEPT !.initialSet = TRUE, !.late = @ \/ d # s.document], "NONE")

\* All pages are there, or failed; those of a document that was closed meanwhile
\* resolve the capability of the next.
PagesLoaded ==
  \E d \in Numbers :
    LET s == Answered(<<"pages", d>>)
    IN  /\ <<"pages", d>> \in side.asked /\ UNCHANGED clicks
        /\ side' = IF d = s.document THEN SettleCurrentItem([s EXCEPT !.loaded = TRUE], TRUE)
                   ELSE [s EXCEPT !.early = TRUE]

OnePageDrawn ==
  \E d \in Numbers :
    /\ <<"rendered", d>> \in side.asked /\ UNCHANGED clicks
    /\ side' = [Answered(<<"rendered", d>>) EXCEPT !.asked = @ \cup (side.trees \X {d})]

Fill(s, tree, d) == IF d = s.document THEN [s EXCEPT !.treeOf[tree] = d] ELSE s

OutlineAnswered ==
  \E d \in Numbers, items \in SUBSET SidebarPageSet :
    LET s == Fill(Answered(<<"OUTLINE", d>>), "OUTLINE", d)
    IN  /\ <<"OUTLINE", d>> \in side.asked /\ UNCHANGED clicks
        /\ side' = IF s.treeOf["OUTLINE"] # d THEN s ELSE OutlineLoaded([s EXCEPT !.items = items])

\* The attachments of annotations that came before follow.
AttachmentsAnswered ==
  \E d \in Numbers, files \in SUBSET FileNames :
    LET s == Fill(Answered(<<"ATTACHMENTS", d>>), "ATTACHMENTS", d)
    IN  /\ <<"ATTACHMENTS", d>> \in side.asked /\ UNCHANGED clicks
        /\ side' = IF s.treeOf["ATTACHMENTS"] # d THEN s
                   ELSE AppendFiles(FilesLoaded([s EXCEPT !.files = files, !.queue = {}]), s.queue)

LayersAnswered ==
  \E d \in Numbers, config \in {{}, Layers} :
    LET s == Fill(Answered(<<"LAYERS", d>>), "LAYERS", d)
    IN  /\ <<"LAYERS", d>> \in side.asked /\ UNCHANGED clicks
        /\ side' = IF s.treeOf["LAYERS"] # d THEN s ELSE RenderLayers([s EXCEPT !.config = config])

\* An annotation with an attachment is drawn.
FileAnnotation ==
  \E name \in FileNames \ side.queue :
    /\ side.document # 0 /\ "ATTACHMENTS" \in side.trees /\ UNCHANGED clicks
    /\ side' = IF side.rendered THEN AppendFiles(side, {name})
               ELSE [side EXCEPT !.queue = @ \cup {name}]

\* Annotations are drawn, or it took too long: an empty tree is told, unless
\* it is not empty by now.
EmptyTreeTold ==
  \E waiting \in {side.waits} \cup {{d} : d \in side.waits} :
    /\ waiting # {} /\ UNCHANGED clicks
    /\ side' = LET s == [side EXCEPT !.waits = @ \ waiting, !.pendingEvent = FALSE]
               IN  IF side.pendingEvent THEN TreeLoaded(s, "ATTACHMENTS", 0) ELSE s

---------------------------------------------------------------------------
\* The reader

Clicked == clicks < MaxClicks /\ clicks' = clicks + 1

ToggleSide == Clicked /\ side' = IF side.isOpen THEN CloseSide(side) ELSE OpenSide(side)

\* A button of the sidebar, or the pagemode of a link, which opens it.
ChooseView ==
  \E view \in {"NONE", "THUMBS"} \cup side.trees, forceOpen \in BOOLEAN :
    /\ view = "NONE" => forceOpen
    /\ Clicked /\ side' = SwitchView(side, view, forceOpen)

GoToPage ==
  \E page \in SidebarPageSet \ {side.page} :
    /\ side.document # 0 /\ Clicked
    /\ side' = [side EXCEPT !.page = page]

\* _getPageNumberToDestHash has waited for the destinations of a document.
HashMade(s) ==
  IF s.hashOf # s.document THEN s
  ELSE ShowCurrentItem([s EXCEPT !.hash = "there"])

\* The button of the current item.
CurrentOutlineItem ==
  /\ side.currentButton /\ Clicked
  /\ side' = CASE side.hash = "there" -> ShowCurrentItem(side)
               [] side.hash = "making" -> side
               [] OTHER -> [side EXCEPT !.hash = "making", !.hashOf = side.document,
                                        !.asked = @ \cup {<<"hash", side.document>>}]

HashAnswered ==
  \E d \in Numbers :
    /\ <<"hash", d>> \in side.asked /\ UNCHANGED clicks
    /\ side' = IF d = side.document THEN HashMade(Answered(<<"hash", d>>))
               ELSE Answered(<<"hash", d>>)

\* A link of the outline marks its item at once; the page follows.
ClickItem ==
  \E page \in side.items : Clicked /\ side' = [side EXCEPT !.item = page]

\* A box of the tree, or a link of the document that sets the layers; without
\* the tree nothing here looks at them.
ClickLayer ==
  \E config \in {{l} : l \in Layers} \cup {{}} :
    /\ side.document # 0 /\ "LAYERS" \in side.trees /\ config # side.config /\ Clicked
    /\ side' = ShowLayers(side, config)

\* resetlayers asks for the layers as they were.
ResetLayersAsked ==
  /\ side.treeOf["LAYERS"] # 0 /\ Clicked
  /\ side' = [side EXCEPT !.asked = @ \cup {<<"reset", side.document>>}]

ResetLayersAnswered ==
  \E d \in Numbers, config \in {{}, Layers} :
    LET s == Answered(<<"reset", d>>)
    IN  /\ <<"reset", d>> \in side.asked /\ UNCHANGED clicks
        /\ side' = IF d # s.document THEN s ELSE RenderLayers(ShowLayers(s, config))

SidebarNext ==
  \/ LoadDocument \/ UnloadDocument \/ WorkerEnds
  \/ InitialView \/ InitialViewAgain \/ PagesLoaded \/ OnePageDrawn
  \/ OutlineAnswered \/ AttachmentsAnswered \/ LayersAnswered
  \/ FileAnnotation \/ EmptyTreeTold
  \/ ToggleSide \/ ChooseView \/ GoToPage \/ CurrentOutlineItem \/ HashAnswered
  \/ ClickItem \/ ClickLayer \/ ResetLayersAsked \/ ResetLayersAnswered

SidebarSpec == SidebarInit /\ [][SidebarNext]_sidebarVars

---------------------------------------------------------------------------
SidebarTypeOK == side \in SideFields /\ clicks \in 0..MaxClicks

\* The sidebar never shows a tree whose button is disabled, whatever was stored
\* and however late the document tells that it has none.
ActiveViewHasATree == side.active \notin side.disabled

\* What the queue of the thumbnails and the outline were told is what shows, and
\* for a document whose first view is set it is stored.  Left out are first
\* views that came when their document was closed already.
TheViewIsStored ==
  /\ side.told = VisibleView(side)
  /\ side.sidebarSet /\ side.document # 0 /\ ~side.late =>
       side.stored[side.document] = VisibleView(side)

\* A tree that is there has its button if and only if something is in it; only
\* that of the attachments may be told later.
ButtonsFitTheTrees ==
  \A t \in {u \in Trees : side.treeOf[u] # 0} :
    \/ t = "ATTACHMENTS" /\ side.pendingEvent
    \/ (t \in side.disabled) = (CASE t = "OUTLINE" -> side.items = {}
                                  [] t = "ATTACHMENTS" -> side.files = {}
                                  [] OTHER -> Layers = {})

\* Whoever looks for the current item finds an outline, and all pages.  Left out
\* are pages that count as loaded since those of the document before failed.
CurrentItemCanBeFound ==
  side.currentButton =>
    side.items # {} /\ (side.early \/ <<"pages", side.document>> \notin side.asked)

\* Trees are of the document that is open, and so is the item that is marked.
TreesOfTheDocument ==
  /\ \A t \in Trees : side.treeOf[t] \in {0, side.document}
  /\ side.hashOf \in {0, side.document}
  /\ side.item # 0 => side.item \in side.items

\* The boxes of the tree say what the pages show.
BoxesShowTheLayers == side.treeOf["LAYERS"] # 0 => side.boxes = side.config

\* The sidebar shows, stores and offers what the document that is open has, in
\* whichever order the answers of the worker, the first view and clicks come.
SidebarIsSound ==
  /\ SidebarTypeOK /\ ActiveViewHasATree /\ TheViewIsStored /\ ButtonsFitTheTrees
  /\ CurrentItemCanBeFound /\ TreesOfTheDocument /\ BoxesShowTheLayers

=============================================================================
