---------------------------- MODULE PdfScripting ----------------------------
(***************************************************************************)
(* The scripts of a document in the viewer of PDF                          *)
(* (public/pdfjs/web/viewer.mjs): PDFScriptingManager makes a sandbox for  *)
(* a document, tells it of the document and of its pages and destroys it,  *)
(* GenericScripting hands the events over in timeouts.                     *)
(*                                                                         *)
(* An action is one task of the page with its microtasks.  A document and  *)
(* its sandbox have the same number; 0 stands for none.  The application   *)
(* opens the next document once the one before is closed.                  *)
(***************************************************************************)
EXTENDS Integers, Sequences, FiniteSets

CONSTANTS ScriptPages,  \* pages of a document
          MaxDocuments, \* bound: documents opened
          MaxTurns      \* bound: how often the page changes or is drawn anew

ASSUME ScriptingAssumption ==
  ScriptPages \in Nat \ {0} /\ MaxDocuments \in Nat \ {0} /\ MaxTurns \in Nat

ScriptedPages == 1..ScriptPages
Documents == 0..MaxDocuments
Events == {<<"Open", 0>>, <<"WillClose", 0>>} \cup ({"PageOpen", "PageClose"} \X ScriptedPages)

VARIABLES script,  \* see ScriptFields
          turns    \* counted up to MaxTurns

scriptVars == <<script, turns>>

\* open is the document of PDFViewer, closing whether close waits; document,
\* scripting, closeCapability and destroyCapability are fields of the manager.
\* stage is what its setDocument waits for, destroying what #destroyScripting
\* waits for.  asked are the pages whose actions are asked for, leaving those
\* whose PageClose waits for them, and last the page of the last PageClose.
\* events are the timeouts, alive the sandboxes, begun and shown what those
\* were told: PageOpen less PageClose.  odd marks two races, see below.
ScriptFields ==
  [opened : Documents, open : Documents, closing : BOOLEAN, document : Documents,
   scripting : Documents, ready : BOOLEAN,
   stage : {"unset", "actions", "properties", "sandbox", "done", "none"},
   destroying : {"no", "race", "nuke"}, closeCapability : {"none", "pending", "resolved"},
   destroyCapability : {"none", "pending", "resolved"},
   page : ScriptedPages, drawn : SUBSET ScriptedPages, pageOpenPending : SUBSET ScriptedPages,
   visited : [ScriptedPages -> {"no", "asked", "told", "null"}],
   asked : SUBSET ScriptedPages, leaving : SUBSET ScriptedPages, last : 0..ScriptPages,
   events : Seq([to : Documents, event : Events]), alive : SUBSET Documents,
   begun : BOOLEAN, shown : [ScriptedPages -> Int], odd : BOOLEAN]

ScriptingInit ==
  /\ script = [opened |-> 0, open |-> 0, closing |-> FALSE, document |-> 0,
               scripting |-> 0, ready |-> FALSE, stage |-> "none", destroying |-> "no",
               closeCapability |-> "none", destroyCapability |-> "none",
               page |-> 1, drawn |-> {}, pageOpenPending |-> {},
               visited |-> [p \in ScriptedPages |-> "no"], asked |-> {}, leaving |-> {}, last |-> 0,
               events |-> <<>>, alive |-> {}, begun |-> FALSE,
               shown |-> [p \in ScriptedPages |-> 0], odd |-> FALSE]
  /\ turns = 0

---------------------------------------------------------------------------
\* The events of the sandbox

\* #scripting?.dispatchEventInSandbox
Tell(s, name, page) ==
  IF s.scripting = 0 THEN s
  ELSE [s EXCEPT !.events = Append(@, [to |-> s.scripting, event |-> <<name, page>>])]

\* #dispatchPageOpen.  A page whose actions are asked for is not asked again,
\* not even when it is left and opened anew before they arrive.
DispatchPageOpen(s, page) ==
  IF s.closeCapability = "none" THEN s
  ELSE IF page \notin s.drawn THEN [s EXCEPT !.pageOpenPending = @ \cup {page}]
  ELSE LET t == [s EXCEPT !.pageOpenPending = @ \ {page}, !.odd = @ \/ (page \in s.asked)]
       IN  IF s.visited[page] = "no"
             THEN [t EXCEPT !.visited[page] = "asked", !.asked = @ \cup {page}]
             ELSE Tell([t EXCEPT !.visited[page] = "told"], "PageOpen", page)

\* Mutant: a page is closed although it was never opened.
CanClosePending(s, page) == s.closeCapability # "none"

CanClose(s, page) ==
  /\ s.closeCapability # "none" /\ page \notin s.pageOpenPending
  /\ s.visited[page] \notin {"no", "null"}

\* #dispatchPageClose for the page that is left.
DispatchPageClose(s, page) ==
  IF ~CanClose(s, page) THEN s
  ELSE LET t == [s EXCEPT !.visited[page] = "null"]
       IN  IF page \in s.asked THEN [t EXCEPT !.leaving = @ \cup {page}]
           ELSE Tell(t, "PageClose", page)

---------------------------------------------------------------------------
\* #destroyScripting

\* What comes after destroySandbox.
Nuked(s) ==
  [s EXCEPT !.alive = @ \ {s.scripting}, !.scripting = 0, !.destroying = "no",
            !.pageOpenPending = {}, !.visited = [p \in ScriptedPages |-> "no"],
            !.destroyCapability = "resolved", !.begun = FALSE, !.shown = [p \in ScriptedPages |-> 0]]

Nuke(s) ==
  LET t == [s EXCEPT !.closeCapability = "none", !.document = 0]
  IN  IF s.ready THEN Nuked(t) ELSE [t EXCEPT !.destroying = "nuke"]

Destroy(s) ==
  IF s.scripting = 0
    THEN [s EXCEPT !.document = 0, !.destroyCapability = IF @ = "none" THEN @ ELSE "resolved"]
  ELSE IF s.closeCapability = "pending" THEN [s EXCEPT !.destroying = "race"]
  ELSE Nuke(s)

\* The end of the handler of pagesdestroy.
WillClose(s) ==
  LET t == [Tell(s, "WillClose", 0) EXCEPT
              !.last = 0, !.closeCapability = IF @ = "none" THEN @ ELSE "resolved"]
  IN  IF t.destroying = "race" THEN Nuke(t) ELSE t

---------------------------------------------------------------------------
\* setDocument of the manager

\* createSandbox is through, and the document and its page are told of.  A
\* document that is closed meanwhile leaves a closeCapability behind.
Created(s) ==
  LET t == [s EXCEPT !.alive = @ \cup {s.scripting}]
      u == IF s.destroying = "nuke" THEN Nuked(t) ELSE t
      v == [Tell(u, "Open", 0) EXCEPT
              !.stage = "done", !.closeCapability = "pending", !.odd = @ \/ (u.scripting = 0)]
  IN  DispatchPageOpen(v, v.page)

\* A page is drawn for the first time.
SetScriptedDocument ==
  /\ script.stage = "unset" /\ script.drawn # {} /\ UNCHANGED turns
  /\ script' = [script EXCEPT !.document = script.open, !.stage = "actions"]

ActionsAnswered ==
  \E scripted \in BOOLEAN :
    /\ script.stage = "actions" /\ UNCHANGED turns
    /\ script' =
         IF ~scripted THEN Destroy([script EXCEPT !.stage = "none"])
         ELSE IF script.document = 0 THEN [script EXCEPT !.stage = "none"]
         ELSE [script EXCEPT !.scripting = script.document, !.ready = FALSE,
                             !.destroyCapability = "pending", !.stage = "properties"]

ScriptPropertiesAnswered ==
  /\ script.stage = "properties" /\ UNCHANGED turns
  /\ script' = IF script.document = 0 THEN [script EXCEPT !.stage = "none"]
               ELSE IF script.ready THEN Created(script)
               ELSE [script EXCEPT !.stage = "sandbox"]

PropertiesFail ==
  /\ script.stage = "properties" /\ UNCHANGED turns
  /\ script' = Destroy([script EXCEPT !.stage = "none"])

\* The module of the sandbox is there: _ready.
SandboxReady ==
  /\ script.scripting # 0 /\ ~script.ready /\ UNCHANGED turns
  /\ script' = LET s == [script EXCEPT !.ready = TRUE]
               IN  IF s.stage = "sandbox" THEN Created(s)
                   ELSE IF s.destroying = "nuke" THEN Nuked(s) ELSE s

\* The actions of a page arrive: PageOpen, and PageClose if it is left again.
PageActionsAnswered ==
  \E page \in script.asked :
    LET s == [script EXCEPT !.asked = @ \ {page}, !.leaving = @ \ {page},
                            !.visited[page] = IF @ = "asked" THEN "told" ELSE @]
        t == IF s.document = 0 THEN s ELSE Tell(s, "PageOpen", page)
        u == IF s.document # 0 /\ (page \in script.leaving \/ page = s.last)
               THEN Tell(t, "PageClose", page) ELSE t
    IN  /\ UNCHANGED turns
        /\ script' = IF page = s.last THEN WillClose(u) ELSE u

\* A timeout of dispatchEventInSandbox; a sandbox that is gone hears nothing.
SandboxEvent ==
  /\ script.events # <<>> /\ (script.ready \/ script.scripting = 0) /\ UNCHANGED turns
  /\ LET e == Head(script.events).event
         s == [script EXCEPT !.events = Tail(@)]
     IN  script' = IF Head(script.events).to \notin script.alive THEN s
                   ELSE CASE e[1] = "Open" -> [s EXCEPT !.begun = TRUE]
                          [] e[1] = "PageOpen" -> [s EXCEPT !.shown[e[2]] = @ + 1]
                          [] e[1] = "PageClose" -> [s EXCEPT !.shown[e[2]] = @ - 1]
                          [] OTHER -> s

RaceTimeout ==
  /\ script.destroying = "race" /\ UNCHANGED turns
  /\ script' = Nuke(script)

---------------------------------------------------------------------------
\* The viewer

Turned == turns < MaxTurns /\ turns' = turns + 1

OpenDocument ==
  /\ script.open = 0 /\ ~script.closing /\ script.opened < MaxDocuments /\ UNCHANGED turns
  /\ script' = [script EXCEPT !.opened = @ + 1, !.open = script.opened + 1, !.stage = "unset"]

TurnPage ==
  \E page \in ScriptedPages \ {script.page} :
    /\ script.open # 0 /\ Turned
    /\ script' = LET s == [script EXCEPT !.page = page]
                 IN  IF s.scripting = 0 THEN s
                     ELSE DispatchPageOpen(DispatchPageClose(s, script.page), page)

PageRendered ==
  \E page \in ScriptedPages \ script.drawn :
    /\ script.open # 0 /\ UNCHANGED turns
    /\ script' = LET s == [script EXCEPT !.drawn = @ \cup {page}]
                 IN  IF s.scripting = 0 \/ page \notin s.pageOpenPending \/ page # s.page THEN s
                     ELSE DispatchPageOpen(s, page)

\* The page is evicted or drawn anew.
PageReset ==
  \E page \in script.drawn :
    /\ Turned
    /\ script' = [script EXCEPT !.drawn = @ \ {page}]

ResetView(s) == [s EXCEPT !.open = 0, !.page = 1, !.drawn = {}]

\* pagesdestroy while #scripting is there: PageClose for the page that shows.
PagesDestroy(s) ==
  IF s.scripting = 0 THEN s
  ELSE IF ~CanClose(s, s.page) THEN WillClose(s)
  ELSE IF s.page \in s.asked THEN [s EXCEPT !.last = s.page, !.visited[s.page] = "null"]
  ELSE WillClose(DispatchPageClose(s, s.page))

\* PDFViewer.setDocument(null) in close.
CloseDocument ==
  /\ script.open # 0 /\ UNCHANGED turns
  /\ script' = LET s == ResetView([PagesDestroy(script) EXCEPT !.closing = TRUE])
               IN  IF s.document = 0 \/ s.destroying # "no" THEN s ELSE Destroy(s)

\* close has waited for destroyPromise and for the worker: it answers no more.
CloseEnds ==
  /\ script.closing /\ script.destroyCapability # "pending" /\ UNCHANGED turns
  /\ script' = [script EXCEPT !.closing = FALSE, !.asked = {}, !.leaving = {}, !.last = 0,
                              !.stage = "none"]

ScriptingWorks ==
  \/ ActionsAnswered \/ ScriptPropertiesAnswered \/ SandboxReady \/ SandboxEvent \/ RaceTimeout \/ CloseEnds

ScriptingNext ==
  \/ OpenDocument \/ TurnPage \/ PageRendered \/ PageReset \/ CloseDocument
  \/ SetScriptedDocument \/ PropertiesFail \/ PageActionsAnswered
  \/ ScriptingWorks

ScriptingSpec == ScriptingInit /\ [][ScriptingNext]_scriptVars
ScriptingFairSpec == ScriptingSpec /\ WF_scriptVars(ScriptingWorks)

---------------------------------------------------------------------------
ScriptingTypeOK == script \in ScriptFields /\ turns \in 0..MaxTurns

\* A script hears that a page is opened and closed in turn, and of no page before
\* it hears of the document.  Two races are left out: a page that is left and
\* opened again before its actions arrive is opened twice, and a document that is
\* closed while its sandbox is made leaves a closeCapability to the next.
PagesOpenAndClose ==
  ~script.odd => \A p \in ScriptedPages :
    script.shown[p] \in {0, 1} /\ (script.shown[p] = 1 => script.begun)

\* When nothing is under way the script knows the page that shows, and no other.
ScriptsKnowThePage ==
  (~script.odd /\ script.stage = "done" /\ script.scripting # 0 /\ script.open # 0
     /\ script.events = <<>> /\ script.asked = {}) =>
       {p \in ScriptedPages : script.shown[p] = 1} = {script.page} \ script.pageOpenPending

\* There is one sandbox at most, and it is that of the manager.
OneSandbox == script.alive \subseteq {script.scripting} \ {0}

\* The script of the document, and no other, knows what is open and what shows,
\* however pages and documents change while it answers.
ScriptingIsSound ==
  ScriptingTypeOK /\ PagesOpenAndClose /\ ScriptsKnowThePage /\ OneSandbox

\* close waits for the script to let go.
ScriptIsWaitedFor == script.closing
=============================================================================
