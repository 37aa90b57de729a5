----------------------------- MODULE PdfPrinting -----------------------------
(***************************************************************************)
(* Printing from the viewer of PDF (public/pdfjs/web/viewer.mjs):          *)
(* window.print and PDFPrintService, beforePrint and afterPrint of         *)
(* PDFViewerApplication, and the WillPrint and DidPrint of                 *)
(* PDFScriptingManager.  A job draws the pages one after the other into    *)
(* images and then has the browser print them; it can be called off at any *)
(* time, and the next one may start while it still waits for an answer.    *)
(*                                                                         *)
(* An action is one task of the page with its microtasks.  A job and its   *)
(* service have the number of the call of window.print.                    *)
(***************************************************************************)
EXTENDS Integers, Sequences

CONSTANTS PrintPages,  \* pages of the document
          MaxPrints    \* bound: calls of window.print

ASSUME PrintingAssumption == PrintPages \in Nat \ {0} /\ MaxPrints \in Nat \ {0}

Calls == 1..MaxPrints
Services == 0..MaxPrints
Images == Calls \X (1..PrintPages)

VARIABLE print    \* see PrintFields

\* scripting: the document has scripts and their sandbox is there.  service and
\* appService are activeService and PDFViewerApplication.printService, jobs what
\* renderPages and performPrint of a service wait for.  will tells how far
\* dispatchWillPrint is, queued the calls in which it waits, capability whose
\* #willPrintCapability is, heard the events the sandbox has still to answer and
\* answered those it has.
\* closeEvents are the dialogs whose close event is to come; printed is what
\* the browser printed last and crowded whether two calls waited for the scripts
\* at once: both go on, the second takes the capability of the first.
PrintFields ==
  [calls : Services, scripting : BOOLEAN, service : Services, appService : Services,
   queuePrinting : BOOLEAN,
   jobs : SUBSET [service : Calls, page : 0..PrintPages, at : {"page", "image", "print", "end"}],
   container : Seq(Images), dialog : BOOLEAN, closeEvents : Seq(Calls),
   will : [Calls -> {"none", "queued", "asked", "done"}], capability : Services,
   queued : Seq(Calls), heard : Seq(Calls), answered : SUBSET Calls, did : SUBSET Calls,
   promise : Services, printed : Seq(Images), crowded : BOOLEAN]

PrintingInit ==
  \E scripting \in BOOLEAN :
    print = [calls |-> 0, scripting |-> scripting, service |-> 0, appService |-> 0,
             queuePrinting |-> FALSE, jobs |-> {}, container |-> <<>>, dialog |-> FALSE,
             closeEvents |-> <<>>, will |-> [c \in Calls |-> "none"], capability |-> 0,
             queued |-> <<>>, heard |-> <<>>, answered |-> {}, did |-> {}, promise |-> 0,
             printed |-> <<>>, crowded |-> FALSE]

---------------------------------------------------------------------------
\* PDFScriptingManager

\* dispatchWillPrint waits for the WillPrint before it; otherwise WillPrint is
\* told, and the capability is the one of this call from now on.
DispatchWillPrint(p, c) ==
  IF ~p.scripting THEN [p EXCEPT !.will[c] = "done"]
  ELSE IF p.capability # 0
    THEN [p EXCEPT !.will[c] = "queued", !.queued = Append(@, c), !.crowded = @ \/ p.queued # <<>>]
  ELSE [p EXCEPT !.will[c] = "asked", !.capability = c, !.heard = Append(@, c)]

\* The capability is resolved: those that waited for it go on, in order, and
\* that of the last is kept.
ResolveCapability(p) ==
  [p EXCEPT !.will = [c \in Calls |-> CASE c = p.capability -> "done"
                                        [] @[c] = "queued" -> "asked"
                                        [] OTHER -> @[c]],
            !.capability = IF p.queued = <<>> THEN 0 ELSE p.queued[Len(p.queued)],
            !.heard = @ \o p.queued, !.queued = <<>>]

WillPrintFinished ==
  /\ print.heard # <<>>
  /\ print' = LET p == [print EXCEPT !.heard = Tail(@), !.answered = @ \cup {Head(print.heard)}]
              IN  IF p.capability = 0 THEN p ELSE ResolveCapability(p)

\* #destroyScripting rejects the capability, and so those that wait for it.
DestroyScripting ==
  /\ print.scripting
  /\ print' = [print EXCEPT !.scripting = FALSE, !.heard = <<>>, !.queued = <<>>,
                 !.capability = 0, !.will = [c \in Calls |->
                    IF c = print.capability \/ @[c] = "queued" THEN "done" ELSE @[c]]]

\* dispatchDidPrint, once the promise of beforePrint is settled.
DidPrint ==
  \E c \in print.did :
    /\ print.will[c] = "done"
    /\ print' = [print EXCEPT !.did = @ \ {c}]

---------------------------------------------------------------------------
\* beforePrint, afterPrint, destroy and abort

ForceRendering(p) == [p EXCEPT !.queuePrinting = p.appService # 0]

\* The scripts are told before anything is looked at; ready is pageViewsReady.
BeforePrint(p, c, ready) ==
  LET q == [DispatchWillPrint(p, c) EXCEPT !.promise = c]
  IN  IF p.appService # 0 \/ ~ready THEN q
      ELSE ForceRendering([q EXCEPT !.service = c, !.appService = c])

AfterPrint(p) ==
  ForceRendering([p EXCEPT !.did = @ \cup ({p.promise} \ {0}), !.promise = 0, !.appService = 0])

\* Its dialog is closed, which fires the close event of the dialog.
DestroyService(p) ==
  [p EXCEPT !.service = 0, !.container = <<>>, !.dialog = FALSE,
            !.closeEvents = IF p.dialog THEN Append(@, p.service) ELSE @]

AbortJob(p) ==
  IF p.service = 0 THEN p
  ELSE AfterPrint(DestroyService(p))

---------------------------------------------------------------------------
\* window.print and what the service does

WindowPrint ==
  \E ready \in BOOLEAN :
    LET c == print.calls + 1
        p == BeforePrint([print EXCEPT !.calls = c], c, ready)
    IN  /\ print.service = 0 /\ print.calls < MaxPrints
        /\ print' = IF p.service = 0 THEN p
                    ELSE [p EXCEPT !.dialog = TRUE,
                            !.jobs = @ \cup {[service |-> c, page |-> 0, at |-> "page"]}]

WithoutJob(j) == [print EXCEPT !.jobs = @ \ {j}]
Continue(p, j, at) == [p EXCEPT !.jobs = @ \cup {[j EXCEPT !.at = at]}]

\* Mutant: the image is shown even if the job was called off.
UseAnyRenderedPage(p, j) ==
  Continue([p EXCEPT !.container = Append(@, <<j.service, j.page + 1>>)], j, "image")

UseRenderedPage(p, j) ==
  IF p.service # j.service THEN p
  ELSE Continue([p EXCEPT !.container = Append(@, <<j.service, j.page + 1>>)], j, "image")

\* renderPage waits for the page and for the scripts.
PageDrawn ==
  \E j \in print.jobs :
    /\ j.at = "page" /\ print.will[j.service] = "done"
    /\ print' = UseRenderedPage(WithoutJob(j), j)

\* renderNextPage, or performPrint after the last page.
RenderNextPage(p, j) ==
  IF p.service # j.service THEN p
  ELSE LET next == [j EXCEPT !.page = @ + 1]
       IN  Continue(p, next, IF next.page < PrintPages THEN "page" ELSE "print")

ImageLoaded ==
  \E j \in print.jobs :
    /\ j.at = "image"
    /\ print' = RenderNextPage(WithoutJob(j), j)

\* The timeout of performPrint.
BrowserPrints ==
  \E j \in print.jobs :
    /\ j.at = "print"
    /\ print' = IF print.service # j.service THEN WithoutJob(j)
                ELSE Continue([WithoutJob(j) EXCEPT !.printed = print.container], j, "end")

\* What renderPages ends with, also after an error.
Finish(p, j) == IF p.service = j.service THEN AbortJob(p) ELSE p

Printed ==
  \E j \in print.jobs :
    /\ j.at = "end"
    /\ print' = Finish(WithoutJob(j), j)

\* The page cannot be had or drawn, or its image does not load.
PageFails ==
  \E j \in print.jobs :
    /\ j.at = "image" \/ (j.at = "page" /\ print.will[j.service] = "done")
    /\ print' = Finish(WithoutJob(j), j)

PrintCancel ==
  /\ print.dialog
  /\ print' = AbortJob(print)

\* Escape closes the dialog; its close event calls the job off.
EscapeDialog ==
  /\ print.dialog
  /\ print' = [print EXCEPT !.dialog = FALSE, !.closeEvents = Append(@, print.service)]

\* The close event calls off whatever job is active by then.
DialogClosed ==
  /\ print.closeEvents # <<>>
  /\ print' = AbortJob([print EXCEPT !.closeEvents = Tail(@)])

PrintingWorks ==
  \/ WillPrintFinished \/ PageDrawn \/ ImageLoaded \/ BrowserPrints \/ Printed \/ DidPrint

PrintingNext ==
  \/ WindowPrint \/ PageFails \/ PrintCancel \/ EscapeDialog \/ DialogClosed
  \/ DestroyScripting
  \/ PrintingWorks

PrintingSpec == PrintingInit /\ [][PrintingNext]_print
PrintingFairSpec == PrintingSpec /\ WF_print(PrintingWorks)

---------------------------------------------------------------------------
PrintingTypeOK == print \in PrintFields

\* What the browser prints are the pages of one job, all of them and in order,
\* also when the job before it was called off while it drew a page.
PrintedIsTheDocument ==
  print.printed # <<>> =>
    \E c \in Calls : print.printed = [i \in 1..PrintPages |-> <<c, i>>]

\* The service, the application, the rendering queue and the dialog agree on
\* whether something is printed.
PrintingIsOneThing ==
  /\ print.appService = print.service
  /\ print.queuePrinting = (print.service # 0)
  /\ print.dialog => print.service # 0
  /\ print.service # 0 => print.dialog \/ print.closeEvents # <<>>

\* A page is drawn when the scripts have prepared the document for this job, and
\* not for one before it, also when that was called off while they did.
ScriptsPrepareThePrint ==
  print.scripting /\ ~print.crowded =>
    \A j \in print.jobs : j.at # "page" => j.service \in print.answered

\* Each print is one document, prepared by its scripts, and is all that is printed,
\* whenever the job before it was called off.
PrintingIsSound ==
  PrintingTypeOK /\ PrintedIsTheDocument /\ PrintingIsOneThing /\ ScriptsPrepareThePrint

\* A job is under way.
PrintIsUnderWay == print.service # 0
=============================================================================
