----------------------------- MODULE MCPdfViewer -----------------------------
(***************************************************************************)
(* The parts of the viewer that follow the reader, for TLC: the history of *)
(* the window, the modes, the sidebar, and opening and saving.  They share *)
(* no state here: a behaviour is one of the part that subject names, and   *)
(* the others keep a state of theirs, so that the states of this module    *)
(* are the sum of those of the parts: their first one, or, for the modes,  *)
(* the one in which the document is closed again.                          *)
(***************************************************************************)
EXTENDS PdfHistory, PdfModes, PdfSidebar, PdfOpening

VARIABLE subject

MCDestPage == [d \in Dests |-> d + 1]
MCStoredPlaces == [f \in Fingerprints |-> IF f = "x" THEN {<<2, 2>>} ELSE {}]

viewerVars == <<subject, histVars, modesVars, sidebarVars, openingVars>>

ViewerInit ==
  /\ subject \in {"history", "modes", "sidebar", "opening"}
  /\ HistoryInit /\ SidebarInit /\ OpeningInit
  /\ IF subject = "modes" THEN ModesInit
     ELSE modes = [FirstModes EXCEPT !.document = "none", !.laid = {}] /\ choices = 1
  /\ subject # "history" => Here(hist).url = NoHash
  /\ subject # "sidebar" => /\ side.trees = CHOOSE trees \in TreeSets : TRUE
                            /\ \A d \in Numbers : side.stored[d] = "UNKNOWN"

OnlyHistory ==
  subject = "history" /\ UNCHANGED <<subject, modesVars, sidebarVars, openingVars>>

OnlyModes ==
  subject = "modes" /\ UNCHANGED <<subject, histVars, sidebarVars, openingVars>>

OnlySidebar ==
  subject = "sidebar" /\ UNCHANGED <<subject, histVars, modesVars, openingVars>>

OnlyOpening ==
  subject = "opening" /\ UNCHANGED <<subject, histVars, modesVars, sidebarVars>>

ViewerNext ==
  \/ OnlyHistory /\ HistoryNext
  \/ OnlyModes /\ ModesNext
  \/ OnlySidebar /\ SidebarNext
  \/ OnlyOpening /\ OpeningNext

ViewerSpec == ViewerInit /\ [][ViewerNext]_viewerVars
=============================================================================
