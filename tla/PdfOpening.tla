------------------------------ MODULE PdfOpening ------------------------------
(***************************************************************************)
(* Opening, closing and saving documents in the viewer of PDF              *)
(* (public/pdfjs/web/viewer.mjs, PDFViewerApplication): open waits for     *)
(* close, close for a save and for the worker, and what a document has to  *)
(* say arrives in any order, also while the next one is on its way.        *)
(*                                                                         *)
(* An action is one task of the page with its microtasks.  A document has  *)
(* the number of the call of open that loads it; 0 stands for none.        *)
(* Scripts are not asked before a save.                                    *)
(* Requests to a document that was destroyed are answered until the worker *)
(* has ended, or never.                                                    *)
(***************************************************************************)
EXTENDS Integers, FiniteSets

CONSTANTS LatePanels, \* those that wait for a page to be rendered, such as the
                      \* outline, the attachments and the layers
          MaxOpens,   \* bound: calls of open
          MaxEdits    \* bound: how often the reader edits or saves

ASSUME OpeningAssumption ==
  LatePanels \cap {"labels", "info", "rendered"} = {} /\ MaxOpens \in Nat \ {0} /\ MaxEdits \in Nat

Opens == 0..MaxOpens
Panels == LatePanels \cup {"labels", "info"}
Kinds == Panels \cup {"rendered"}

\* saveDocument, getData, and getData after a saveDocument that failed.
Saves == {"save", "download", "instead"}

VARIABLES app,    \* PDFViewerApplication, see AppFields; file and told are the
                \* file that was saved and the script that was told last
          edits   \* edits and saves, counted

openingVars == <<app, edits>>

AppFields ==
  [opens : Opens, overlapped : BOOLEAN, task : Opens, loading : SUBSET Opens,
   alive : SUBSET Opens, closing : SUBSET [open : Opens, task : Opens],
   url : Opens, document : Opens,
   stored : SUBSET Opens, modified : SUBSET Opens,  \* by their annotation storages
   storageModified : BOOLEAN, saveInProgress : BOOLEAN,
   saves : SUBSET [document : Opens, open : Opens, kind : Saves],
   file : [document : Opens, name : Opens, edited : BOOLEAN],
   panels : [Panels -> Opens], answers : SUBSET (Kinds \X Opens),
   scripts : SUBSET Opens, told : Opens \X Opens]

NoFile == [document |-> 0, name |-> 0, edited |-> FALSE]
NoPanels == [p \in Panels |-> 0]

OpeningInit ==
  /\ app = [opens |-> 0, overlapped |-> FALSE, task |-> 0, loading |-> {}, alive |-> {},
            closing |-> {}, url |-> 0, document |-> 0, stored |-> {}, modified |-> {},
            storageModified |-> FALSE, saveInProgress |-> FALSE, saves |-> {}, file |-> NoFile, panels |-> NoPanels,
            answers |-> {}, scripts |-> {}, told |-> <<0, 0>>]
  /\ edits = 0

---------------------------------------------------------------------------
\* The steps of open and close.  open is the call that goes on after close.

\* Opens that wait for close, which waits for a save or for the worker.
WaitingOpens(c) == ({s.open : s \in c.saves} \cup {k.open : k \in c.closing}) \ {0}

StartTask(c, open) ==
  [c EXCEPT !.url = open, !.task = open, !.loading = @ \cup {open}, !.alive = @ \cup {open}]

\* The annotation storage of a document counts as saved from now on.
ResetModified(c, d) ==
  IF d \in c.modified THEN [c EXCEPT !.modified = @ \ {d}, !.storageModified = FALSE] ELSE c

\* The part of close after the save; a task that is gone makes it fail.
CloseTask(c, open) ==
  IF c.task = 0 THEN c
  ELSE [ResetModified(c, c.task) EXCEPT
                 !.closing = @ \cup {[open |-> open, task |-> c.task]},
                 !.loading = @ \ {c.task}, !.task = 0, !.document = 0, !.url = 0,
                 !.saveInProgress = FALSE, !.panels = NoPanels]

\* saveDocument is asked for; a save that is under way is not waited for.
StartSave(c, open) ==
  [c EXCEPT !.saveInProgress = TRUE,
            !.saves = @ \cup {[document |-> c.document, open |-> open, kind |-> "save"]}]

\* Mutant: only the reader saves.
CloseUnsaved(c, open) == CloseTask(c, open)

Close(c, open) ==
  IF c.document \in c.stored /\ c.storageModified /\ ~c.saveInProgress
    THEN StartSave(c, open) ELSE CloseTask(c, open)

Open ==
  LET open == app.opens + 1
      c == [app EXCEPT !.opens = open, !.overlapped = @ \/ WaitingOpens(app) # {}]
  IN  /\ app.opens < MaxOpens /\ UNCHANGED edits
      /\ app' = IF app.task = 0 THEN StartTask(c, open) ELSE Close(c, open)

\* The worker has ended: nothing of its document comes any more.
Destroyed ==
  \E k \in app.closing :
    /\ app' = StartTask([app EXCEPT !.closing = @ \ {k}, !.alive = @ \ {k.task},
                           !.answers = {a \in @ : a[2] # k.task},
                           !.saves = {s \in @ : s.document # k.task \/ s.open # 0}], k.open)
    /\ UNCHANGED edits

---------------------------------------------------------------------------
\* Loading

\* load: nothing asks whether the task is still the present one.
Load ==
  \E d \in app.loading :
    /\ app' = [app EXCEPT !.loading = @ \ {d}, !.document = d, !.panels.labels = 0,
                 !.answers = @ \cup {<<kind, d>> : kind \in {"rendered", "labels", "info"}}]
    /\ UNCHANGED edits

\* The error is reported when the task is the present one; the task stays.
LoadingError ==
  \E d \in app.loading :
    /\ app' = [app EXCEPT !.loading = @ \ {d}]
    /\ UNCHANGED edits

\* onePageRendered: the panels that waited for it are asked for.
OnePageRendered ==
  \E a \in app.answers :
    /\ a[1] = "rendered"
    /\ app' = [app EXCEPT !.answers = (@ \ {a}) \cup
                 {<<kind, a[2]>> : kind \in LatePanels}]
    /\ UNCHANGED edits

\* Scripts that wait for the metadata go on, unless their document is gone.
TellScripts(c) ==
  [c EXCEPT !.scripts = {},
            !.told = IF c.document \in c.scripts THEN <<c.document, c.panels.info>> ELSE @]

\* Mutant: what arrives late is shown.
ShowAny(c, panel, d) ==
  LET shown == [c EXCEPT !.panels[panel] = d]
  IN  IF panel = "info" THEN TellScripts(shown) ELSE shown

\* What all of them check first: is the document still the one that is open?
Show(c, panel, d) ==
  LET shown == [c EXCEPT !.panels[panel] = d]
  IN  IF d # c.document THEN c
      ELSE IF panel = "info" THEN TellScripts(shown) ELSE shown

PanelAnswered ==
  \E a \in app.answers :
    /\ a[1] \in Panels
    /\ app' = Show([app EXCEPT !.answers = @ \ {a}], a[1], a[2])
    /\ UNCHANGED edits

\* _scriptingDocProperties, once per document.
ScriptingDocProperties ==
  LET d == app.document IN
  /\ d # 0 /\ d \notin app.scripts /\ app.told[1] # d /\ UNCHANGED edits
  /\ app' = IF app.panels.info # 0
              THEN [app EXCEPT !.told = <<d, app.panels.info>>]
              ELSE [app EXCEPT !.scripts = @ \cup {d}]

---------------------------------------------------------------------------
\* Editing and saving

Counted == edits < MaxEdits /\ edits' = edits + 1

Edit == /\ app.document \notin {0} \cup app.modified /\ Counted
        /\ app' = [app EXCEPT !.stored = @ \cup {app.document},
                              !.modified = @ \cup {app.document}, !.storageModified = TRUE]

\* afterPrint: what was printed counts as saved.
EditsPrinted ==
  app.document \in app.modified /\ app' = ResetModified(app, app.document) /\ UNCHANGED edits

\* downloadOrSave: a document without edits is downloaded as it came.
DownloadOrSave ==
  LET d == app.document IN
  /\ d # 0 /\ Counted
  /\ app' = IF d \notin app.stored
              THEN [app EXCEPT !.saves = @ \cup {[document |-> d, open |-> 0, kind |-> "download"]}]
            ELSE IF app.saveInProgress THEN app ELSE StartSave(app, 0)

\* The end of save or download, and of the call that waits for it.  What is
\* saved gets the name and the address of now.
SaveEnds(c, s, d) ==
  LET ended == [c EXCEPT !.saveInProgress = @ /\ s.kind = "download",
                         !.file = [document |-> d, name |-> c.url, edited |-> s.kind = "save"]]
  IN  IF s.open = 0 THEN ended ELSE CloseTask(ended, s.open)

SaveAnswered ==
  \E s \in app.saves :
    LET c == [app EXCEPT !.saves = @ \ {s}] IN
    /\ app' = SaveEnds(IF s.kind = "save" THEN ResetModified(c, s.document) ELSE c, s, s.document)
    /\ UNCHANGED edits

\* Saving fails: the document that is open is asked for as it came, if any.
SaveFails ==
  \E s \in app.saves :
    LET c == ResetModified([app EXCEPT !.saves = @ \ {s}], s.document)
        instead == [document |-> app.document, open |-> s.open, kind |-> "instead"]
    IN  /\ s.kind = "save" /\ UNCHANGED edits
        /\ app' = IF app.document = 0 THEN SaveEnds(c, instead, app.url)
                  ELSE [c EXCEPT !.saves = @ \cup {instead}]

\* getData fails: what is at the address is downloaded.
DownloadFails ==
  \E s \in app.saves :
    /\ s.kind # "save" /\ UNCHANGED edits
    /\ app' = SaveEnds([app EXCEPT !.saves = @ \ {s}], s, app.url)

OpeningWorks == OnePageRendered \/ PanelAnswered

OpeningNext ==
  \/ Open \/ Destroyed \/ Load \/ LoadingError \/ ScriptingDocProperties
  \/ Edit \/ EditsPrinted \/ DownloadOrSave \/ SaveAnswered \/ SaveFails \/ DownloadFails
  \/ OpeningWorks

OpeningSpec == OpeningInit /\ [][OpeningNext]_openingVars
OpeningFairSpec == OpeningSpec /\ WF_openingVars(OpeningWorks)

---------------------------------------------------------------------------
OpeningTypeOK == app \in AppFields /\ edits \in 0..MaxEdits

\* As long as no two calls of open overlapped, the document that shows is that
\* of the present task and under its name, and no other is kept alive.
OneDocument ==
  ~app.overlapped =>
    /\ app.document \in {0, app.task} /\ app.url = app.task
    /\ app.alive \subseteq {app.task} \cup {k.task : k \in app.closing}

\* The panels are empty or of the document that is open: what arrives after
\* close, while the worker ends, is thrown away.
PanelsOfTheDocument ==
  ~app.overlapped => \A p \in Panels : app.panels[p] \in {0, app.document}

\* A file is never saved under the name of another document.  It has none when
\* the data arrive after close.
SavedUnderItsName ==
  ~app.overlapped => app.file.name \in {0, app.file.document}

\* A document that counts as modified is left only while it is being saved, or
\* when that just ended.  Edits during a save and edits that were printed count
\* as saved.
EditsLeaveWithASave ==
  [][app.document \in app.modified /\ app'.document # app.document /\ ~app'.overlapped =>
         \E s \in app.saves : s.document = app.document /\ s.kind # "download"]_openingVars

\* A script is told about its own document, also when it had to wait.
ScriptsGetTheirDocument == ~app.overlapped => app.told[1] = app.told[2]

\* As long as no two calls of open overlap, document, name, panels and scripts are
\* of one file, however late the answers and the saves of the one before come.
OpeningIsSound ==
  /\ OpeningTypeOK /\ OneDocument /\ PanelsOfTheDocument
  /\ SavedUnderItsName /\ ScriptsGetTheirDocument

\* Some panel is not yet of the document that shows, which may be since calls of
\* open overlapped.
PanelsLag == app.document # 0 /\ \E p \in Panels : app.panels[p] # app.document
=============================================================================
