--------------------------- MODULE MCPdfRendering ---------------------------
(***************************************************************************)
(* The parts of the viewer that wait for the worker, the scripts or a      *)
(* timer, for TLC: drawing, searching, the dialogs, opening, printing and  *)
(* the scripts of documents.  They share no state here: a behaviour is one *)
(* of the part that subject names, and the others keep their first state,  *)
(* so that the states of this module are the sum of those of the parts,    *)
(* and a property of a part is checked against all behaviours of the part. *)
(***************************************************************************)
EXTENDS PdfRendering, PdfFind, PdfDialogs, PdfOpening, PdfPrinting, PdfScripting

VARIABLE subject

\* Scroll positions that show one page, and two with a hole between them, as
\* wrapped scrolling may do.
MCVisiblePages == {{1}, {2, 4}}

\* "a" is on the first page, but once when the case is minded, and twice on the
\* last; "b" is on the page between.
MCMatchesIn == [x \in {"a", "b"} \X BOOLEAN |-> [i \in PageIdx |->
  CASE x[1] = "a" /\ i = 0 -> IF x[2] THEN 0 ELSE 1
    [] x[1] = "a" /\ i = 2 -> 2
    [] x[1] = "b" /\ i = 1 -> 1
    [] OTHER -> 0]]

viewerVars == <<subject, vars, findVars, dialogs, openingVars, print, scriptVars>>

ViewerInit ==
  /\ subject \in {"rendering", "find", "dialogs", "opening", "printing", "scripting"}
  /\ Init /\ FindInit /\ DialogsInit /\ OpeningInit /\ PrintingInit /\ ScriptingInit
  /\ subject # "printing" => print.scripting

OnlyRendering ==
  /\ subject = "rendering"
  /\ UNCHANGED <<subject, findVars, dialogs, openingVars, print, scriptVars>>

OnlyFind ==
  subject = "find" /\ UNCHANGED <<subject, vars, dialogs, openingVars, print, scriptVars>>

OnlyDialogs ==
  subject = "dialogs" /\ UNCHANGED <<subject, vars, findVars, openingVars, print, scriptVars>>

OnlyOpening ==
  subject = "opening" /\ UNCHANGED <<subject, vars, findVars, dialogs, print, scriptVars>>

OnlyPrinting ==
  subject = "printing" /\ UNCHANGED <<subject, vars, findVars, dialogs, openingVars, scriptVars>>

OnlyScripting ==
  subject = "scripting" /\ UNCHANGED <<subject, vars, findVars, dialogs, openingVars, print>>

ViewerNext ==
  \/ OnlyRendering /\ Next
  \/ OnlyFind /\ FindNext
  \/ OnlyDialogs /\ DialogsNext
  \/ OnlyOpening /\ OpeningNext
  \/ OnlyPrinting /\ PrintingNext
  \/ OnlyScripting /\ ScriptingNext

Works ==
  \/ OnlyRendering /\ RenderingWorks
  \/ OnlyFind /\ FindWorks
  \/ OnlyDialogs /\ DialogsWork
  \/ OnlyOpening /\ OpeningWorks
  \/ OnlyPrinting /\ PrintingWorks
  \/ OnlyScripting /\ ScriptingWorks

\* The fairness of the part, since subject stays.
ViewerSpec == ViewerInit /\ [][ViewerNext]_viewerVars /\ WF_viewerVars(Works)

----------------------------------------------------------------------------
(***************************************************************************)
(* Nobody waits for ever, whatever is begun anew or called off meanwhile.  *)
(* A search ends when the text of the pages is there; a document that asks *)
(* for its password is prompted for; panels come to be those of the        *)
(* document that shows, also after two calls of open overlapped; a print   *)
(* comes to an end; and so does close, which waits a second for a script   *)
(* that does not let go.                                                   *)
(***************************************************************************)
Waits ==
  \/ subject = "find" /\ SearchIsPending
  \/ subject = "dialogs" /\ AskIsUnheard
  \/ subject = "opening" /\ PanelsLag
  \/ subject = "printing" /\ PrintIsUnderWay
  \/ subject = "scripting" /\ ScriptIsWaitedFor
WaitsEnd == []<>~ Waits
=============================================================================
