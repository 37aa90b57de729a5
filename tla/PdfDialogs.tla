------------------------------ MODULE PdfDialogs ------------------------------
(***************************************************************************)
(* The dialogs of the viewer of PDF (public/pdfjs/web/viewer.mjs):         *)
(* OverlayManager, which lets one of them be open, PasswordPrompt, which   *)
(* asks for the password of a document that is being loaded, and           *)
(* PDFDocumentProperties, which collects what it shows from the worker.    *)
(*                                                                         *)
(* An action is one task of the page with its microtasks.  The close event *)
(* of a dialog is a task of its own, after the dialog is closed; it may    *)
(* come before or after what the worker answers.  Documents are opened one *)
(* at a time: what a worker sends until it has terminated still comes in,  *)
(* and the next document is opened after that.  The texts that the         *)
(* properties are put into are there when a document is: they are fetched  *)
(* as the page loads, and l10n answers in microtasks.                      *)
(***************************************************************************)
EXTENDS Integers, Sequences, FiniteSets

CONSTANTS
  MaxTasks,      \* bound: documents opened, each by a loading task
  MaxTries,      \* bound: how often a document asks for its password
  MaxLooks,      \* bound: how often the properties are looked at
  PropertyPages  \* the page numbers that are current in turn

ASSUME DialogsAssumption ==
  /\ MaxTasks \in Nat \ {0} /\ MaxTries \in Nat /\ MaxLooks \in Nat
  /\ PropertyPages \subseteq Nat \ {0} /\ 1 \in PropertyPages

Dialogs == {"password", "properties"}
\* What is collected, or shown: the document that the title, the number of pages
\* and the rest are of, the page the page size is of, the document that the file
\* size is of.  All are 0 when undefined, and shown as "-".
NoFields == [document |-> 0, page |-> 0, size |-> 0]
PropertyFields == [document : 0..MaxTasks, page : PropertyPages \cup {0}, size : 0..MaxTasks]

\* What the calls of open wait for: a document, the metadata and a page of it, or
\* the length of its file.
Requests == [stage : {"data", "page", "length"}, page : PropertyPages \cup {0}]
WaitingForData == [stage |-> "data", page |-> 0]
WaitingForLength == [stage |-> "length", page |-> 0]

VARIABLES dialogs  \* see DialogsFields

\* length is what the worker has said of the length of the file of the last
\* document: nothing yet, the one that the metadata had, or another.

DialogsFields ==
  [active : Dialogs \cup {"none"}, shown : SUBSET Dialogs, closeEvents : Nat,
   capability : {"none", "pending", "resolved"}, callback : 0..MaxTasks,
   asks : Seq(1..MaxTasks), task : 0..MaxTasks, tasks : 0..MaxTasks,
   status : {"none", "loading", "asked", "checking", "ready", "failed"}, tries : 0..MaxTries,
   destroying : BOOLEAN,
   document : 0..MaxTasks, page : PropertyPages, fieldData : PropertyFields, fields : PropertyFields,
   awaited : SUBSET Requests, length : {"awaited", "known", "other"}, looks : 0..MaxLooks]

DialogsInit ==
  dialogs = [active |-> "none", shown |-> {}, closeEvents |-> 0, capability |-> "none",
             callback |-> 0, asks |-> <<>>, task |-> 0, tasks |-> 0, status |-> "none",
             tries |-> 0, destroying |-> FALSE, document |-> 0, page |-> 1,
             fieldData |-> NoFields, fields |-> NoFields, awaited |-> {}, length |-> "awaited", looks |-> 0]

---------------------------------------------------------------------------
\* OverlayManager

\* dialog.close() queues the close event; only the password prompt listens.
CloseOverlay(c, dialog) ==
  [c EXCEPT !.active = "none", !.shown = @ \ {dialog},
            !.closeEvents = IF dialog = "password" THEN @ + 1 ELSE @]

\* The password prompt can force the other to close; the properties cannot.
OpenOverlay(c, dialog) ==
  LET free == IF dialog = "password" /\ c.active = "properties"
                THEN CloseOverlay(c, c.active) ELSE c
  IN  IF free.active # "none" THEN c
      ELSE [free EXCEPT !.active = dialog, !.shown = @ \cup {dialog}]

---------------------------------------------------------------------------
\* PasswordPrompt, and what the loading task makes of its answer

ClosePrompt(c) == IF c.active = "password" THEN CloseOverlay(c, "password") ELSE c

\* updateCallback of a task: a password is checked, an error ends the loading.
UpdateCallback(c, task, answer) ==
  IF task = c.task /\ c.status = "asked"
    THEN [c EXCEPT !.status = IF answer = "password" THEN "checking" ELSE "failed"] ELSE c

InvokeCallback(c, answer) ==
  IF c.callback = 0 THEN c
  ELSE [UpdateCallback(ClosePrompt(c), c.callback, answer) EXCEPT !.callback = 0]

\* setUpdateCallback and open, by each of asks in turn, once the prompt before
\* it is over: when the prompt is there already, as it is for all but the first,
\* open fails and resolves its new capability.
PromptAll(c, asks) ==
  IF asks = <<>> THEN c
  ELSE [OpenOverlay(c, "password") EXCEPT
          !.callback = asks[Len(asks)],
          !.capability = IF c.active = "password" \/ Len(asks) > 1 THEN "resolved" ELSE "pending"]
Prompt(c, task) == PromptAll(c, <<task>>)

\* The answer is given, and capability resolved.
PromptAnswered(c) ==
  [InvokeCallback(c, "cancelled") EXCEPT !.capability = "resolved", !.asks = <<>>]

Cancel(c) == PromptAll(PromptAnswered(c), c.asks)

\* onPassword of the present task.
OnPassword(c) ==
  IF c.capability = "pending" THEN [c EXCEPT !.asks = Append(@, c.task)] ELSE Prompt(c, c.task)

---------------------------------------------------------------------------
\* PDFDocumentProperties

UpdateFields(c) ==
  IF c.fieldData # NoFields /\ c.active # "properties" THEN c ELSE [c EXCEPT !.fields = c.fieldData]

\* setDocument(null): what open waits for is not called off.
ResetProperties(c) ==
  IF c.document = 0 THEN c
  ELSE UpdateFields([c EXCEPT !.document = 0, !.fieldData = NoFields, !.page = 1])

\* open, once the data are available: they are asked for, unless they are
\* those of this page already.
Collect(c) ==
  IF c.fieldData # NoFields /\ c.fieldData.page = c.page THEN UpdateFields(c)
  ELSE [c EXCEPT !.awaited = @ \cup {[stage |-> "page", page |-> c.page]}]

SetDocument(c, document) ==
  LET set == [ResetProperties(c) EXCEPT !.document = document, !.awaited = @ \ {WaitingForData}]
  IN  IF WaitingForData \in c.awaited THEN Collect(set) ELSE set

\* Mutant: the length goes into what was collected when it was asked for.
FillInLate(c) ==
  UpdateFields([c EXCEPT !.fieldData = [document |-> c.tasks, page |-> c.page, size |-> c.tasks]])

\* The last part of open: the length that the worker of the last document has
\* told goes into whatever is collected now, whether that is open or not.
FillInSize(c) == UpdateFields([c EXCEPT !.fieldData.size = c.tasks])

\* getDownloadInfo, which may have its answer.
AskForLength(c) ==
  CASE c.length = "awaited" -> [c EXCEPT !.awaited = @ \cup {WaitingForLength}]
    [] c.length = "known" -> c
    [] OTHER -> FillInSize(c)

---------------------------------------------------------------------------
\* The reader.  A modal dialog leaves nothing else to click.

SubmitPassword ==
  /\ "password" \in dialogs.shown /\ dialogs' = InvokeCallback(dialogs, "password")

CancelButton == /\ "password" \in dialogs.shown /\ dialogs' = ClosePrompt(dialogs)

\* The Escape key: the cancel event of the dialog, then the dialog closes.
Escape ==
  \E dialog \in dialogs.shown : dialogs' = CloseOverlay(dialogs, dialog)

OpenProperties ==
  LET opened == OpenOverlay([dialogs EXCEPT !.looks = @ + 1], "properties") IN
  /\ dialogs.shown = {} /\ dialogs.looks < MaxLooks
  /\ dialogs' = IF dialogs.document # 0 THEN Collect(opened)
                ELSE [opened EXCEPT !.awaited = @ \cup {WaitingForData}]

CloseProperties ==
  /\ "properties" \in dialogs.shown /\ dialogs' = CloseOverlay(dialogs, "properties")

PageChanging(page) ==
  /\ dialogs.shown = {} /\ dialogs.document # 0 /\ page # dialogs.page
  /\ dialogs' = [dialogs EXCEPT !.page = page]

\* PDFViewerApplication.open: a file is dropped, or chosen with the button.
\* The worker of the document before has terminated, and answers no more.
StartLoading(c) ==
  [c EXCEPT !.task = c.tasks + 1, !.tasks = @ + 1, !.status = "loading", !.tries = 0,
            !.destroying = FALSE, !.awaited = @ \cap {WaitingForData}, !.length = "awaited"]

OpenFile ==
  /\ ~dialogs.destroying /\ dialogs.tasks < MaxTasks
  /\ dialogs' = IF dialogs.task = 0 THEN StartLoading(dialogs)
                ELSE ClosePrompt([ResetProperties(dialogs) EXCEPT
                       !.task = 0, !.status = "none", !.destroying = TRUE])

---------------------------------------------------------------------------
\* The browser and the worker

CloseEvent ==
  /\ dialogs.closeEvents > 0
  /\ dialogs' = Cancel([dialogs EXCEPT !.closeEvents = @ - 1])

TaskDestroyed == dialogs.destroying /\ dialogs' = StartLoading(dialogs)

PasswordNeeded ==
  /\ dialogs.status \in {"loading", "checking"} /\ dialogs.tries < MaxTries
  /\ dialogs' = OnPassword([dialogs EXCEPT !.status = "asked", !.tries = @ + 1])

DocumentLoaded ==
  /\ dialogs.status \in {"loading", "checking"}
  /\ dialogs' = SetDocument([dialogs EXCEPT !.status = "ready"], dialogs.task)

LoadingFails == /\ dialogs.status \in {"loading", "checking"}
                /\ dialogs' = [dialogs EXCEPT !.status = "failed"]

\* The metadata and the page, then the texts; of a document that is closed the
\* number of its pages is no more to be had, and open fails.
PropertiesAnswered ==
  \E a \in dialogs.awaited :
    LET answered == [dialogs EXCEPT !.awaited = @ \ {a}] IN
    /\ a.stage = "page"
    /\ dialogs' =
         IF dialogs.document = 0 THEN answered
         ELSE AskForLength(UpdateFields([answered EXCEPT !.fieldData =
                [document |-> dialogs.document, page |-> a.page, size |-> dialogs.document]]))

\* The whole file is there: all who wait for its length go on.
DataLoaded(length) ==
  LET loaded == [dialogs EXCEPT !.awaited = @ \ {WaitingForLength}, !.length = length] IN
  /\ dialogs.task # 0 \/ dialogs.destroying
  /\ dialogs.length = "awaited" /\ length \in {"known", "other"}
  /\ dialogs' = IF WaitingForLength \in dialogs.awaited /\ length = "other"
                  THEN FillInSize(loaded) ELSE loaded

DialogsWork == CloseEvent \/ TaskDestroyed

DialogsNext ==
  \/ SubmitPassword \/ CancelButton \/ Escape \/ OpenProperties \/ CloseProperties \/ OpenFile
  \/ \E page \in PropertyPages : PageChanging(page)
  \/ PasswordNeeded \/ DocumentLoaded \/ LoadingFails \/ PropertiesAnswered
  \/ \E length \in {"known", "other"} : DataLoaded(length)
  \/ DialogsWork

DialogsSpec == DialogsInit /\ [][DialogsNext]_dialogs
DialogsFairSpec == DialogsSpec /\ WF_dialogs(DialogsWork)

---------------------------------------------------------------------------
DialogsTypeOK == dialogs \in DialogsFields

\* What the manager takes for the active dialog is the one dialog that shows:
\* none can be blocked by a dialog that is not there, or hide one that is.
OverlayIsTheDialog ==
  dialogs.shown = IF dialogs.active = "none" THEN {} ELSE {dialogs.active}

\* A prompt that shows has somebody to give the password to: the present task
\* whenever that waits for its password and no ask is still held back.
PromptHasAnAsker ==
  "password" \in dialogs.shown =>
    /\ dialogs.callback # 0
    /\ dialogs.status = "asked" /\ dialogs.asks = <<>> => dialogs.callback = dialogs.task

\* The properties that show, or are kept to be shown, are all those of the
\* document that is open.  One thing can be left of a document that is not: its
\* file size, alone, when its length came after it was closed.
SizeAlone(f) == f.document = 0 /\ f.page = 0
PropertiesOfTheDocument ==
  \A f \in {dialogs.fields, dialogs.fieldData} :
    SizeAlone(f) \/ (f.document = dialogs.document /\ f.size = dialogs.document)

\* The dialogs do not get in each other's way: one shows at a time, a prompt has
\* an asker, and the properties that show are those of the document, but for a
\* file size that came late.
DialogsAreSound ==
  DialogsTypeOK /\ OverlayIsTheDialog /\ PromptHasAnAsker /\ PropertiesOfTheDocument

\* A document asks for its password, and no prompt shows.
AskIsUnheard == dialogs.status = "asked" /\ "password" \notin dialogs.shown
=============================================================================
