------------------------------ MODULE PdfModes ------------------------------
(***************************************************************************)
(* The modes of the viewer of PDF (public/pdfjs/web/viewer.mjs): scrolling *)
(* and spreads (PDFViewer), the editor mode, the cursor tool               *)
(* (PDFCursorTools) and the presentation (PDFPresentationMode), which puts *)
(* modes of its own in place of the reader's and has to put those back.    *)
(*                                                                         *)
(* An action is one task of the page.  The browser enters and leaves full  *)
(* screen when it likes and fires fullscreenchange as it does; timeouts of *)
(* 0 ms run in the order they were set.                                    *)
(***************************************************************************)
EXTENDS Integers, Sequences, FiniteSets, SequencesExt

CONSTANTS PagesCount,   \* pages of a document
          Scrolls,      \* scroll modes the reader chooses from
          Editors,      \* editor modes other than NONE
          MaxChoices    \* bound: choices of the reader

ASSUME ModesAssumption ==
  /\ PagesCount \in Nat \ {0} /\ MaxChoices \in Nat
  /\ "VERTICAL" \in Scrolls /\ Scrolls \subseteq {"VERTICAL", "HORIZONTAL", "WRAPPED", "PAGE"}
  /\ Editors \cap {"NONE", "null", "enter", "exit", "passed"} = {}

VARIABLES modes,   \* see ModesFields
          choices  \* choices of the reader, counted

modesVars == <<modes, choices>>

PageNumbers == 1..PagesCount
Spreads == 0..2           \* NONE, ODD and EVEN
EditorModes == Editors \cup {"NONE"}
Views == [scroll : Scrolls \cup {"PAGE"}, spread : Spreads, scale : {"auto", "page-fit"}]
Switches == [mode : Editors, ids : SUBSET PageNumbers]
FirstView == [scroll |-> "VERTICAL", spread |-> 0, scale |-> "auto"]

\* What a timeout is for: a presentation, or the switch to an editor mode.
Timeouts == [run : {"enter", "exit"}, page : PageNumbers] \cup [run : Editors, latest : BOOLEAN]

NoArgs == [view |-> FirstView, spreads |-> FALSE, page |-> 1, editor |-> "null"]

\* What a presentation puts back, and what the cursor tools know of the modes.
States == {"NORMAL", "CHANGING", "FULLSCREEN"}
Tools == {"SELECT", "HAND"}
Args == [view : Views, spreads : BOOLEAN, page : PageNumbers, editor : EditorModes \cup {"null"}]
Cursors == [active : Tools, prev : Tools \cup {"null"}, editor : EditorModes, state : States]

\* laid are the pages in the viewer element; stored is what ViewHistory keeps;
\* chosen and tool are what the reader chose last, asked is the editor mode that
\* was set last, by the reader or by a presentation, or passed when that was the
\* mode of the moment and a switch to another went on waiting, hurried whether the
\* reader chose while a change was under way, rearmed whether a page was drawn
\* while the switch of the editor was due.
ModesFields ==
  [document : {"none", "loading", "shown"}, view : Views, page : PageNumbers,
   laid : SUBSET PageNumbers, editor : EditorModes, switch : SUBSET Switches,
   timeouts : Seq(Timeouts), full : {"no", "asked", "yes"}, listening : BOOLEAN,
   state : States, args : Args, cursor : Cursors,
   stored : Scrolls \cup {"PAGE"}, chosen : Views, tool : Tools,
   asked : EditorModes \cup {"passed"}, hurried : BOOLEAN, rearmed : BOOLEAN]

FirstModes ==
  [document |-> "shown", view |-> FirstView, page |-> 1, laid |-> PageNumbers,
   editor |-> "NONE", switch |-> {}, timeouts |-> <<>>, full |-> "no",
   listening |-> FALSE, state |-> "NORMAL", args |-> NoArgs,
   cursor |-> [active |-> "SELECT", prev |-> "null", editor |-> "NONE", state |-> "NORMAL"],
   stored |-> "VERTICAL", chosen |-> FirstView, tool |-> "SELECT",
   asked |-> "NONE", hurried |-> FALSE, rearmed |-> FALSE]

ModesInit == modes = FirstModes /\ choices = 0

---------------------------------------------------------------------------
\* PDFCursorTools

DisableActive(c) ==
  [c EXCEPT !.prev = IF @ = "null" THEN c.active ELSE @, !.active = "SELECT"]

EnableActive(c) ==
  IF c.prev # "null" /\ c.editor = "NONE" /\ c.state = "NORMAL"
    THEN [c EXCEPT !.active = c.prev, !.prev = "null"] ELSE c

EditorModeChanged(c, mode) ==
  LET k == [c EXCEPT !.editor = mode]
  IN  IF mode = "NONE" THEN EnableActive(k) ELSE DisableActive(k)

PresentationModeChanged(c, state) ==
  LET k == [c EXCEPT !.state = state]
  IN  CASE state = "NORMAL" -> EnableActive(k)
        [] state = "FULLSCREEN" -> DisableActive(k)
        [] OTHER -> k

\* The reset of the secondary toolbar when a document closes.
ResetCursor(c) ==
  IF c.prev = "null" THEN c ELSE EnableActive([c EXCEPT !.editor = "NONE", !.state = "NORMAL"])

---------------------------------------------------------------------------
\* PDFViewer

\* The pages of the spread of page p.
SpreadOf(p, spread) ==
  LET parity == spread - 1
  IN  PageNumbers \cap (IF spread = 0 THEN {p} ELSE IF p % 2 # parity THEN {p, p + 1} ELSE {p - 1, p})

\* #ensurePageViewVisible, or all pages by _updateSpreadMode.
Lay(m) ==
  [m EXCEPT !.laid = IF m.view.scroll = "PAGE" THEN SpreadOf(m.page, m.view.spread)
                     ELSE PageNumbers]

\* What is laid changes into and out of the PAGE mode alone.
UpdateScrollMode(m, previous) ==
  IF m.view.scroll = "PAGE" \/ previous = "PAGE" THEN Lay(m) ELSE m

\* onViewerModesChanged: what is set in a presentation is not stored.
Stored(m, scroll) ==
  IF m.document # "shown" \/ m.state = "FULLSCREEN" THEN m ELSE [m EXCEPT !.stored = scroll]

SetScroll(m, scroll) ==
  IF m.view.scroll = scroll THEN m
  ELSE LET n == Stored([m EXCEPT !.view.scroll = scroll], scroll)
       IN  IF m.document = "none" THEN n ELSE UpdateScrollMode(n, m.view.scroll)

SetSpread(m, spread) ==
  IF m.view.spread = spread THEN m
  ELSE LET n == [m EXCEPT !.view.spread = spread]
       IN  IF m.document = "none" THEN n ELSE Lay(n)

SetScale(m, scale) ==
  IF m.document = "none" THEN m ELSE [m EXCEPT !.view.scale = scale]

SetPage(m, page) ==
  IF m.document = "none" THEN m
  ELSE LET n == [m EXCEPT !.page = page]
       IN  IF n.view.scroll = "PAGE" THEN Lay(n) ELSE n

\* _getPageAdvance.  row are the pages that show in full width, in the WRAPPED
\* mode those in line with the page, which are as high as it and so in order.
PageAdvance(m, row, previous) ==
  LET p == m.page
      run == {q \in PageNumbers : \A r \in (IF q < p THEN q..p ELSE p..q) : r \in row}
      first == p % 2 # m.view.spread - 1   \* the page is the first of its spread
  IN  IF m.view.scroll = "WRAPPED"
        THEN Cardinality({p} \cup {q \in run : IF previous THEN q <= p ELSE q >= p})
      ELSE IF m.view.scroll = "HORIZONTAL" \/ m.view.spread = 0 \/ first = previous THEN 1
      ELSE IF (IF previous THEN p - 1 ELSE p + 1) \in row THEN 2 ELSE 1

NextOf(m, row) == LET n == m.page + PageAdvance(m, row, FALSE)
                  IN  IF n > PagesCount THEN PagesCount ELSE n

PreviousOf(m, row) == LET n == m.page - PageAdvance(m, row, TRUE)
                      IN  IF n < 1 THEN 1 ELSE n

---------------------------------------------------------------------------
\* The editor mode

\* #cleanupSwitchAnnotationEditorMode knows the timeout that was set last.
\* Mutant: the timeout of the other mode is not cleared.
CleanupKeepsTimeout(m) == [m EXCEPT !.switch = {}]

Clearable(timeouts) == {i \in DOMAIN timeouts : timeouts[i].run \in Editors /\ timeouts[i].latest}

CleanupSwitch(m) ==
  LET due == Clearable(m.timeouts)
  IN  [m EXCEPT !.switch = {},
                !.timeouts = IF due = {} THEN @ ELSE RemoveAt(@, CHOOSE i \in due : TRUE)]

UpdateEditor(m, mode) ==
  [CleanupSwitch(m) EXCEPT !.editor = mode, !.cursor = EditorModeChanged(@, mode)]

\* ids are the visible pages with annotations that can be edited: they are
\* drawn without those first.  To set the present mode does nothing: a switch
\* that waits is not called off.
SetEditor(m, mode, ids) ==
  IF m.editor = mode THEN [m EXCEPT !.asked = IF m.switch = {} THEN mode ELSE "passed"]
  ELSE IF m.editor = "NONE" /\ ids # {}
    THEN [CleanupSwitch(m) EXCEPT !.switch = {[mode |-> mode, ids |-> ids]}, !.asked = mode]
  ELSE [UpdateEditor(m, mode) EXCEPT !.asked = mode]

---------------------------------------------------------------------------
\* PDFPresentationMode

NotifyState(m, state) ==
  [m EXCEPT !.state = state, !.cursor = PresentationModeChanged(@, state)]

Enter(m) == [NotifyState(m, "FULLSCREEN") EXCEPT
              !.timeouts = Append(@, [run |-> "enter", page |-> m.page])]

Exit(m) == [m EXCEPT !.timeouts = Append(@, [run |-> "exit", page |-> m.page])]

\* The timeout of #enter; the scale is the last to be set before the editor.
Entered(m) ==
  LET a == m.args
      scrolled == SetScroll(m, "PAGE")
      spread == IF a.spreads THEN SetSpread(scrolled, 0) ELSE scrolled
      viewed == SetScale(SetPage(spread, a.page), "page-fit")
  IN  IF a.editor = "null" \/ m.document = "none" THEN viewed ELSE SetEditor(viewed, "NONE", {})

\* Mutant: the spreads are not put back.
ExitedNoSpreads(m, page, ids) ==
  LET a == m.args
      left == [NotifyState(m, "NORMAL") EXCEPT !.listening = FALSE]
      viewed == SetPage(SetScale(SetScroll(left, a.view.scroll), a.view.scale), page)
      edited == IF a.editor = "null" THEN viewed ELSE SetEditor(viewed, a.editor, ids)
  IN  [edited EXCEPT !.args = NoArgs]

\* The timeout of #exit.  Setting the editor mode of no document fails before
\* the arguments are given up.
Exited(m, page, ids) ==
  LET a == m.args
      left == [NotifyState(m, "NORMAL") EXCEPT !.listening = FALSE]
      scrolled == SetScroll(left, a.view.scroll)
      spread == IF a.spreads THEN SetSpread(scrolled, a.view.spread) ELSE scrolled
      viewed == SetPage(SetScale(spread, a.view.scale), page)
  IN  IF a.editor # "null" /\ m.document = "none" THEN viewed
      ELSE IF a.editor = "null" THEN [viewed EXCEPT !.args = NoArgs]
      ELSE [SetEditor(viewed, a.editor, ids) EXCEPT !.args = NoArgs]

---------------------------------------------------------------------------
\* The reader.  The toolbars do not show in full screen.

\* A change is under way: the reader who goes on choosing is in a hurry.
UnderWay(m) ==
  m.document = "loading" \/ m.state # "NORMAL" \/ m.timeouts # <<>>

Chosen(m) == [m EXCEPT !.hurried = @ \/ UnderWay(m)]
Chooses == modes.full # "yes" /\ modes.document # "none" /\ choices < MaxChoices /\ choices' = choices + 1

ChooseScroll ==
  \E scroll \in Scrolls \ {modes.view.scroll} :
    /\ Chooses
    /\ modes' = [SetScroll(Chosen(modes), scroll) EXCEPT !.chosen.scroll = scroll]

\* The buttons of the spreads are disabled in the HORIZONTAL mode.
ChooseSpread ==
  \E spread \in Spreads \ {modes.view.spread} :
    /\ Chooses /\ modes.view.scroll # "HORIZONTAL"
    /\ modes' = [SetSpread(Chosen(modes), spread) EXCEPT !.chosen.spread = spread]

ChooseScale ==
  \E scale \in {"auto", "page-fit"} \ {modes.view.scale} :
    /\ Chooses /\ modes.state # "FULLSCREEN"
    /\ modes' = [SetScale(Chosen(modes), scale) EXCEPT !.chosen.scale = scale]

\* switchTool: nothing is switched while the tools are disabled.
ChooseTool ==
  \E tool \in Tools \ {modes.cursor.active} :
    /\ Chooses /\ modes.cursor.prev = "null"
    /\ modes' = [modes EXCEPT !.cursor.active = tool, !.tool = tool]

\* The button of the present mode leaves it.
ChooseEditor ==
  \E mode \in EditorModes \ {modes.editor}, ids \in SUBSET PageNumbers :
    /\ Chooses /\ modes.document = "shown" /\ ids \subseteq modes.laid
    /\ modes' = SetEditor(Chosen(modes), mode, ids)

NextPage ==
  \E row \in SUBSET modes.laid :
    /\ modes.document # "none" /\ modes.page < PagesCount /\ UNCHANGED choices
    /\ modes' = SetPage(modes, NextOf(modes, row))

PreviousPage ==
  \E row \in SUBSET modes.laid :
    /\ modes.document # "none" /\ modes.page > 1 /\ UNCHANGED choices
    /\ modes' = SetPage(modes, PreviousOf(modes, row))

CloseInViewer ==
  /\ modes.document = "shown" /\ modes.state # "FULLSCREEN" /\ Chooses
  /\ modes' = [CleanupSwitch(Chosen(modes)) EXCEPT
       !.document = "none", !.view = FirstView, !.page = 1, !.laid = {}, !.stored = "VERTICAL",
       !.chosen = FirstView, !.asked = modes.editor, !.cursor = ResetCursor(@)]

---------------------------------------------------------------------------
\* The page and the browser

OpenInViewer ==
  /\ modes.document = "none" /\ UNCHANGED choices
  /\ modes' = Lay([modes EXCEPT !.document = "loading"])

\* A page is drawn: the editor mode that is still the viewer's is told.
DocumentShown ==
  /\ modes.document = "loading" /\ UNCHANGED choices
  /\ modes' = [modes EXCEPT !.document = "shown", !.cursor = EditorModeChanged(@, modes.editor)]

SetTimeout(timeouts, mode) ==
  Append([i \in DOMAIN timeouts |->
            IF timeouts[i].run \in {"enter", "exit"} THEN timeouts[i]
            ELSE [timeouts[i] EXCEPT !.latest = FALSE]], [run |-> mode, latest |-> TRUE])

\* A page that is drawn once the switch is due sets another timeout.
EditedPageRendered ==
  \E s \in modes.switch, p \in PageNumbers :
    LET left == s.ids \ {p} IN
    /\ p \in s.ids \/ (s.ids = {} /\ p = modes.page /\ Len(modes.timeouts) < 2)
    /\ UNCHANGED choices
    /\ modes' =
         IF left # {} THEN [modes EXCEPT !.switch = {[s EXCEPT !.ids = left]}]
         ELSE [modes EXCEPT !.switch = {[s EXCEPT !.ids = {}]}, !.rearmed = @ \/ (s.ids = {}),
                 !.timeouts = SetTimeout(modes.timeouts, s.mode)]

Timeout ==
  /\ modes.timeouts # <<>> /\ UNCHANGED choices
  /\ LET t == Head(modes.timeouts)
         m == [modes EXCEPT !.timeouts = Tail(@)]
     IN  \/ t.run = "enter" /\ modes' = Entered(m)
         \/ /\ t.run = "exit"
            /\ \E ids \in {{}, {t.page}} : modes' = Exited(m, t.page, ids)
         \/ t.run \in Editors /\ modes' = UpdateEditor(m, t.run)

\* request; equal tells whether the spreads may stay.
Request ==
  \E equal \in BOOLEAN :
    /\ modes.state = "NORMAL" /\ modes.document # "none" /\ modes.full = "no" /\ Chooses
    /\ equal => modes.view.spread # 0
    /\ modes' = [NotifyState(Chosen(modes), "CHANGING") EXCEPT
         !.full = "asked", !.listening = TRUE,
         !.args = [view |-> modes.view, spreads |-> modes.view.spread # 0 /\ ~equal,
                   page |-> modes.page, editor |-> modes.editor]]

Refused ==
  /\ modes.full = "asked" /\ UNCHANGED choices
  /\ modes' = [NotifyState(modes, "NORMAL") EXCEPT !.full = "no", !.listening = FALSE]

FullscreenEntered ==
  /\ modes.full = "asked" /\ UNCHANGED choices
  /\ modes' = LET m == [modes EXCEPT !.full = "yes"] IN IF m.listening THEN Enter(m) ELSE m

FullscreenLeft ==
  /\ modes.full = "yes" /\ UNCHANGED choices
  /\ modes' = LET m == [modes EXCEPT !.full = "no"] IN IF m.listening THEN Exit(m) ELSE m

ModesNext ==
  \/ ChooseScroll \/ ChooseSpread \/ ChooseScale \/ ChooseTool \/ ChooseEditor
  \/ NextPage \/ PreviousPage \/ CloseInViewer \/ OpenInViewer \/ DocumentShown
  \/ EditedPageRendered \/ Request \/ Refused \/ FullscreenEntered
  \/ FullscreenLeft \/ Timeout

ModesSpec == ModesInit /\ [][ModesNext]_modesVars

---------------------------------------------------------------------------
ModesTypeOK == modes \in ModesFields /\ choices \in 0..MaxChoices

\* Whichever way a presentation ends, it ends for the viewer too, and the
\* reader finds the modes of before, unless the reader chose in between.
ModesComeBack ==
  modes.full = "no" /\ modes.timeouts = <<>> =>
    modes.state = "NORMAL" /\ (~modes.hurried => modes.view = modes.chosen)

\* What is kept for the next visit is what the reader chose, never the mode of
\* a presentation.
PresentationIsNotStored ==
  ~modes.hurried /\ modes.document = "shown" => modes.stored = modes.chosen.scroll

\* The cursor tools are disabled exactly while something is edited or shown,
\* and then the tool of before is back.
ToolComesBack ==
  LET c == modes.cursor
  IN  IF modes.document = "shown" /\ (modes.editor # "NONE" \/ modes.state = "FULLSCREEN")
        THEN c.active = "SELECT" /\ c.prev = modes.tool
      ELSE modes.state = "NORMAL" /\ modes.document = "shown" => c.active = modes.tool /\ c.prev = "null"

\* The editor mode that is entered is the one that was set last, however many
\* switches were begun and wait for their pages.  The exception: a presentation
\* that sets NONE in time to find that mode still there is passed over, and the
\* switch that waits, to whatever was asked for before, is made in full screen.
LastEditorWins ==
  [][modes'.editor # modes.editor /\ ~modes'.rearmed =>
         \/ modes'.editor = modes'.asked
         \/ modes'.asked = "passed" /\ \E s \in modes.switch : s.mode = modes'.editor]_modesVars

\* Out of the PAGE mode all pages are in the viewer, in it those of one spread.
PagesAreLaid ==
  modes.document # "none" =>
    modes.laid = IF modes.view.scroll = "PAGE" THEN SpreadOf(modes.page, modes.view.spread)
                 ELSE PageNumbers

\* Turning the page gets ahead, and passes over no page but those that show
\* next to the present one.
PagesAreTurned ==
  modes.document # "none" =>
    \A row \in SUBSET modes.laid :
      LET beside == IF modes.view.scroll = "WRAPPED" THEN row ELSE SpreadOf(modes.page, modes.view.spread)
          Passed(n) == {q \in PageNumbers : (modes.page < q /\ q < n) \/ (n < q /\ q < modes.page)}
      IN  /\ modes.page < PagesCount => /\ NextOf(modes, row) > modes.page
                                       /\ Passed(NextOf(modes, row)) \subseteq beside
          /\ modes.page > 1 => /\ PreviousOf(modes, row) < modes.page
                               /\ Passed(PreviousOf(modes, row)) \subseteq beside

\* Presentations, editors and tools, which change each other's modes, leave the
\* pages and the modes that the reader chose, whatever overlapped.
ModesAreSound ==
  /\ ModesTypeOK /\ ModesComeBack /\ PresentationIsNotStored
  /\ ToolComesBack /\ PagesAreLaid /\ PagesAreTurned
=============================================================================
