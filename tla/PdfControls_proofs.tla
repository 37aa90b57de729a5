------------------------ MODULE PdfControls_proofs -------------------------
(***************************************************************************)
(* What the reader works the viewer with, for every value of the           *)
(* constants: dialogs (PdfDialogs), sidebar (PdfSidebar) and modes         *)
(* (PdfModes).                                                             *)
(*                                                                         *)
(* The parts of the invariants are stated of any record of fields, so that *)
(* each operator of the code has a lemma of its own.                       *)
(***************************************************************************)
EXTENDS PdfDialogs, PdfSidebar, PdfModes, SequenceTheorems, FiniteSetTheorems,
        WellFoundedInduction, TLAPS

----------------------------------------------------------------------------
(* Dialogs                                                                 *)

\* What is active shows, and nothing else.
Overlaid(c) == c.shown = IF c.active = "none" THEN {} ELSE {c.active}

\* Asks are held back only while a prompt is not over, the last of them is that
\* of the task that waits for its password; a prompt that shows has a callback.
\* What is opened when a task is destroyed is counted already.
Asked(c) ==
  /\ c.status # "none" => c.task # 0
  /\ c.asks # <<>> => c.capability = "pending"
  /\ c.asks # <<>> /\ c.status = "asked" => c.asks[Len(c.asks)] = c.task
  /\ c.active = "password" =>
       /\ c.callback # 0
       /\ c.status = "asked" /\ c.asks = <<>> => c.callback = c.task
  /\ c.destroying => c.tasks < MaxTasks

\* The document that is open is that of the last loading task; without one there
\* is nothing to show, but for a size.
OfDocument(document, f) ==
  SizeAlone(f) \/ (document # 0 /\ f.document = document /\ f.size = document)

Collected(c) ==
  /\ OfDocument(c.document, c.fields) /\ OfDocument(c.document, c.fieldData)
  /\ c.document # 0 => c.document = c.task
  /\ c.task # 0 => c.task = c.tasks
  /\ c.destroying => c.task = 0

\* Records that agree on the overlays, the prompt, the loading task, the
\* properties.
SameOverlay(c, d) ==
  d.active = c.active /\ d.shown = c.shown /\ d.closeEvents = c.closeEvents
SamePrompt(c, d) ==
  d.capability = c.capability /\ d.callback = c.callback /\ d.asks = c.asks
SameTask(c, d) ==
  /\ d.task = c.task /\ d.tasks = c.tasks /\ d.status = c.status /\ d.tries = c.tries
  /\ d.destroying = c.destroying
SameProperties(c, d) ==
  /\ d.document = c.document /\ d.page = c.page /\ d.fieldData = c.fieldData
  /\ d.fields = c.fields /\ d.awaited = c.awaited /\ d.length = c.length /\ d.looks = c.looks

LEMMA DialogsFieldTypes ==
  ASSUME NEW c \in DialogsFields
  PROVE  /\ c.active \in Dialogs \cup {"none"} /\ c.shown \in SUBSET Dialogs
         /\ c.closeEvents \in Nat /\ c.capability \in {"none", "pending", "resolved"}
         /\ c.callback \in 0..MaxTasks /\ c.asks \in Seq(1..MaxTasks)
         /\ c.task \in 0..MaxTasks /\ c.tasks \in 0..MaxTasks
         /\ c.status \in {"none", "loading", "asked", "checking", "ready", "failed"}
         /\ c.tries \in 0..MaxTries /\ c.destroying \in BOOLEAN
         /\ c.document \in 0..MaxTasks /\ c.page \in PropertyPages
         /\ c.fieldData \in PropertyFields /\ c.fields \in PropertyFields
         /\ c.awaited \in SUBSET Requests /\ c.length \in {"awaited", "known", "other"}
         /\ c.looks \in 0..MaxLooks
BY DEF DialogsFields

----------------------------------------------------------------------------
(* OverlayManager and the prompt                                           *)

LEMMA CloseOverlayFacts ==
  ASSUME NEW c \in DialogsFields, NEW dialog \in Dialogs, c.shown \subseteq {dialog}
  PROVE  LET d == CloseOverlay(c, dialog) IN
         /\ d \in DialogsFields /\ d.active = "none" /\ d.shown = {}
         /\ SamePrompt(c, d) /\ SameTask(c, d) /\ SameProperties(c, d)
<1> DEFINE d == CloseOverlay(c, dialog)
           n == IF dialog = "password" THEN c.closeEvents + 1 ELSE c.closeEvents
           s == c.shown \ {dialog}
<1>1. d = [c EXCEPT !.active = "none", !.shown = s, !.closeEvents = n]
  BY DEF CloseOverlay
<1>2. n \in Nat /\ s = {}
  BY DialogsFieldTypes
<1> HIDE DEF n, s, d
<1>3. d \in DialogsFields
  BY <1>1, <1>2 DEF DialogsFields
<1>4. d.active = "none" /\ d.shown = {} /\ SamePrompt(c, d) /\ SameTask(c, d) /\ SameProperties(c, d)
  BY <1>1, <1>2 DEF DialogsFields, SamePrompt, SameTask, SameProperties
<1> QED BY <1>3, <1>4 DEF d

LEMMA OpenOverlayFacts ==
  ASSUME NEW c \in DialogsFields, Overlaid(c), NEW dialog \in Dialogs
  PROVE  LET d == OpenOverlay(c, dialog) IN
         /\ d \in DialogsFields /\ Overlaid(d)
         /\ d.active = IF dialog = "password" \/ c.active = "none" THEN dialog ELSE c.active
         /\ SamePrompt(c, d) /\ SameTask(c, d) /\ SameProperties(c, d)
<1> DEFINE forced == dialog = "password" /\ c.active = "properties"
           free == IF forced THEN CloseOverlay(c, c.active) ELSE c
           d == OpenOverlay(c, dialog)
<1>0. c.active \in Dialogs \cup {"none"} /\ c.shown \in SUBSET Dialogs
  BY DialogsFieldTypes
<1>1. /\ free \in DialogsFields /\ Overlaid(free)
      /\ free.active = IF forced THEN "none" ELSE c.active
      /\ SamePrompt(c, free) /\ SameTask(c, free) /\ SameProperties(c, free)
  <2>1. CASE forced
    <3>1. c.active \in Dialogs /\ c.shown \subseteq {c.active}
      BY <1>0, <2>1 DEF Overlaid, Dialogs
    <3>2. free = CloseOverlay(c, c.active)
      BY <2>1
    <3> QED BY <2>1, <3>1, <3>2, CloseOverlayFacts DEF Overlaid
  <2>2. CASE ~ forced
    BY <2>2 DEF SamePrompt, SameTask, SameProperties
  <2> QED BY <2>1, <2>2
<1>2. d = IF free.active # "none" THEN c
          ELSE [free EXCEPT !.active = dialog, !.shown = free.shown \cup {dialog}]
  BY DEF OpenOverlay
<1> HIDE DEF free, d
<1>3. CASE free.active # "none"
  <2>1. d = c /\ ~ forced /\ c.active # "none"
    BY <1>1, <1>2, <1>3
  <2>2. dialog = "password" => c.active = "password"
    BY <1>0, <2>1 DEF Dialogs
  <2>3. /\ d \in DialogsFields /\ Overlaid(d)
        /\ d.active = IF dialog = "password" \/ c.active = "none" THEN dialog ELSE c.active
        /\ SamePrompt(c, d) /\ SameTask(c, d) /\ SameProperties(c, d)
    BY <2>1, <2>2 DEF SamePrompt, SameTask, SameProperties
  <2> QED BY <2>3 DEF d
<1>4. CASE free.active = "none"
  <2>1. free.shown = {}
    BY <1>1, <1>4 DEF Overlaid
  <2>2. d = [free EXCEPT !.active = dialog, !.shown = {dialog}]
    BY <1>2, <1>4, <2>1
  <2>3. d \in DialogsFields
    BY <1>1, <2>2 DEF DialogsFields
  <2>4. /\ d.active = dialog /\ d.shown = {dialog}
        /\ SamePrompt(free, d) /\ SameTask(free, d) /\ SameProperties(free, d)
    BY <1>1, <2>2 DEF DialogsFields, SamePrompt, SameTask, SameProperties
  <2>5. dialog = "password" \/ c.active = "none"
    BY <1>1, <1>4
  <2>6. /\ d \in DialogsFields /\ Overlaid(d)
        /\ d.active = IF dialog = "password" \/ c.active = "none" THEN dialog ELSE c.active
    BY <2>3, <2>4, <2>5 DEF Overlaid, Dialogs
  <2>7. SamePrompt(c, d) /\ SameTask(c, d) /\ SameProperties(c, d)
    BY <1>1, <2>4 DEF SamePrompt, SameTask, SameProperties
  <2> QED BY <2>6, <2>7 DEF d
<1> QED BY <1>3, <1>4

LEMMA ClosePromptFacts ==
  ASSUME NEW c \in DialogsFields, Overlaid(c)
  PROVE  LET d == ClosePrompt(c) IN
         /\ d \in DialogsFields /\ Overlaid(d) /\ d.active # "password"
         /\ SamePrompt(c, d) /\ SameTask(c, d) /\ SameProperties(c, d)
<1>1. CASE c.active = "password"
  <2>1. c.shown \subseteq {"password"} /\ "password" \in Dialogs
    BY <1>1 DEF Overlaid, Dialogs
  <2>2. ClosePrompt(c) = CloseOverlay(c, "password")
    BY <1>1 DEF ClosePrompt
  <2> DEFINE d == CloseOverlay(c, "password")
  <2>3. /\ d \in DialogsFields /\ d.active = "none" /\ d.shown = {}
        /\ SamePrompt(c, d) /\ SameTask(c, d) /\ SameProperties(c, d)
    BY <2>1, CloseOverlayFacts
  <2> HIDE DEF d
  <2>4. Overlaid(d) /\ d.active # "password"
    BY <2>3 DEF Overlaid
  <2> QED BY <2>2, <2>3, <2>4 DEF d
<1>2. CASE c.active # "password"
  BY <1>2 DEF ClosePrompt, SamePrompt, SameTask, SameProperties
<1> QED BY <1>1, <1>2

LEMMA InvokeCallbackFacts ==
  ASSUME NEW c \in DialogsFields, Overlaid(c), NEW answer
  PROVE  LET d == InvokeCallback(c, answer) IN
         /\ d \in DialogsFields /\ Overlaid(d)
         /\ c.callback = 0 => d = c
         /\ c.callback # 0 => d.active # "password"
         /\ d.callback = 0 /\ d.capability = c.capability /\ d.asks = c.asks
         /\ d.status = c.status \/ (c.task = c.callback /\ d.status \in {"checking", "failed"})
         /\ d.task = c.task /\ d.tasks = c.tasks /\ d.tries = c.tries
         /\ d.destroying = c.destroying
         /\ SameProperties(c, d)
<1>1. CASE c.callback = 0
  BY <1>1 DEF InvokeCallback, SameProperties
<1>2. CASE c.callback # 0
  <2> DEFINE p == ClosePrompt(c)
             u == UpdateCallback(p, c.callback, answer)
             st == IF answer = "password" THEN "checking" ELSE "failed"
             d == InvokeCallback(c, answer)
  <2>1. /\ p \in DialogsFields /\ Overlaid(p) /\ p.active # "password"
        /\ SamePrompt(c, p) /\ SameTask(c, p) /\ SameProperties(c, p)
    BY ClosePromptFacts
  <2>2. u = IF c.callback = p.task /\ p.status = "asked" THEN [p EXCEPT !.status = st] ELSE p
    BY DEF UpdateCallback
  <2>3. d = [u EXCEPT !.callback = 0]
    BY <1>2 DEF InvokeCallback
  <2>4. st \in {"checking", "failed"}
    OBVIOUS
  <2> HIDE DEF p, u, st, d
  <2>5. /\ u \in DialogsFields /\ u.active = p.active /\ u.shown = p.shown
        /\ SamePrompt(p, u) /\ SameProperties(p, u)
        /\ u.status = p.status \/ (c.callback = p.task /\ u.status \in {"checking", "failed"})
        /\ u.task = p.task /\ u.tasks = p.tasks /\ u.tries = p.tries
        /\ u.destroying = p.destroying
    <3>1. CASE u = p
      BY <2>1, <3>1 DEF SamePrompt, SameProperties
    <3>2. CASE c.callback = p.task /\ u = [p EXCEPT !.status = st]
      BY <2>1, <2>4, <3>2 DEF DialogsFields, SamePrompt, SameProperties
    <3> QED BY <2>2, <3>1, <3>2
  <2>6. /\ d \in DialogsFields /\ d.active = u.active /\ d.shown = u.shown /\ d.callback = 0
        /\ d.capability = u.capability /\ d.asks = u.asks /\ d.status = u.status
        /\ d.task = u.task /\ d.tasks = u.tasks /\ d.tries = u.tries
        /\ d.destroying = u.destroying /\ SameProperties(u, d)
    <3>1. 0 \in 0..MaxTasks
      BY DialogsAssumption
    <3> QED BY <2>3, <2>5, <3>1 DEF DialogsFields, SameProperties
  <2>7. Overlaid(d) /\ d.active # "password"
    BY <2>1, <2>5, <2>6 DEF Overlaid
  <2>8. /\ d.capability = c.capability /\ d.asks = c.asks
        /\ d.status = c.status \/ (c.task = c.callback /\ d.status \in {"checking", "failed"})
        /\ d.task = c.task /\ d.tasks = c.tasks /\ d.tries = c.tries
        /\ d.destroying = c.destroying
        /\ SameProperties(c, d)
    BY <2>1, <2>5, <2>6 DEF SamePrompt, SameTask, SameProperties
  <2> QED BY <1>2, <2>6, <2>7, <2>8 DEF d
<1> QED BY <1>1, <1>2

\* The last of those who ask has the prompt.
LEMMA PromptAllFacts ==
  ASSUME NEW c \in DialogsFields, Overlaid(c), NEW asks \in Seq(1..MaxTasks), asks # <<>>
  PROVE  LET d == PromptAll(c, asks) IN
         /\ d \in DialogsFields /\ Overlaid(d) /\ d.active = "password"
         /\ d.callback = asks[Len(asks)] /\ d.callback # 0
         /\ d.asks = c.asks /\ SameTask(c, d) /\ SameProperties(c, d)
<1> DEFINE o == OpenOverlay(c, "password")
           cap == IF c.active = "password" \/ Len(asks) > 1 THEN "resolved" ELSE "pending"
           last == asks[Len(asks)]
           d == PromptAll(c, asks)
<1>1. /\ o \in DialogsFields /\ Overlaid(o) /\ o.active = "password"
      /\ SamePrompt(c, o) /\ SameTask(c, o) /\ SameProperties(c, o)
  <2>1. "password" \in Dialogs
    BY DEF Dialogs
  <2> QED BY <2>1, OpenOverlayFacts
<1>2. d = [o EXCEPT !.callback = last, !.capability = cap]
  BY DEF PromptAll
<1>3. last \in 1..MaxTasks /\ cap \in {"resolved", "pending"}
  <2>1. Len(asks) \in Nat /\ Len(asks) # 0
    BY EmptySeq, LenProperties
  <2>2. Len(asks) \in 1..Len(asks)
    BY <2>1
  <2>3. last \in 1..MaxTasks
    BY <2>2, ElementOfSeq
  <2> QED BY <2>3
<1>4. last \in 0..MaxTasks /\ last # 0
  <2> HIDE DEF last
  <2> QED BY <1>3, DialogsAssumption
<1> HIDE DEF o, cap, d, last
<1>5. d \in DialogsFields
  BY <1>1, <1>2, <1>3, <1>4 DEF DialogsFields
<1>6. /\ d.active = o.active /\ d.shown = o.shown /\ d.callback = last /\ d.asks = o.asks
      /\ SameTask(o, d) /\ SameProperties(o, d)
  BY <1>1, <1>2 DEF DialogsFields, SameTask, SameProperties
<1>7. Overlaid(d) /\ d.active = "password" /\ d.asks = c.asks
  BY <1>1, <1>6 DEF Overlaid, SamePrompt
<1>8. SameTask(c, d) /\ SameProperties(c, d)
  BY <1>1, <1>6 DEF SameTask, SameProperties
<1> QED BY <1>4, <1>5, <1>6, <1>7, <1>8 DEF d, last

----------------------------------------------------------------------------
(* PDFDocumentProperties                                                   *)

LEMMA UpdateFieldsFacts ==
  ASSUME NEW c \in DialogsFields
  PROVE  LET d == UpdateFields(c) IN
         /\ d \in DialogsFields /\ SameOverlay(c, d) /\ SamePrompt(c, d) /\ SameTask(c, d)
         /\ d.document = c.document /\ d.page = c.page /\ d.fieldData = c.fieldData
         /\ d.awaited = c.awaited /\ d.length = c.length /\ d.looks = c.looks
         /\ d.fields = c.fieldData \/ (c.fieldData # NoFields /\ d.fields = c.fields)
<1> DEFINE d == UpdateFields(c)
<1>1. CASE c.fieldData # NoFields /\ c.active # "properties"
  BY <1>1 DEF UpdateFields, SameOverlay, SamePrompt, SameTask
<1>2. CASE ~ (c.fieldData # NoFields /\ c.active # "properties")
  <2>1. d = [c EXCEPT !.fields = c.fieldData] /\ c.fieldData \in PropertyFields
    BY <1>2, DialogsFieldTypes DEF UpdateFields
  <2> HIDE DEF d
  <2>2. d \in DialogsFields
    BY <2>1 DEF DialogsFields
  <2>3. /\ SameOverlay(c, d) /\ SamePrompt(c, d) /\ SameTask(c, d)
        /\ d.document = c.document /\ d.page = c.page /\ d.fieldData = c.fieldData
        /\ d.awaited = c.awaited /\ d.length = c.length /\ d.looks = c.looks
        /\ d.fields = c.fieldData
    BY <2>1 DEF DialogsFields, SameOverlay, SamePrompt, SameTask
  <2> QED BY <2>2, <2>3 DEF d
<1> QED BY <1>1, <1>2

LEMMA ResetPropertiesFacts ==
  ASSUME NEW c \in DialogsFields, Collected(c)
  PROVE  LET d == ResetProperties(c) IN
         /\ d \in DialogsFields /\ SameOverlay(c, d) /\ SamePrompt(c, d) /\ SameTask(c, d)
         /\ d.document = 0 /\ SizeAlone(d.fields) /\ SizeAlone(d.fieldData)
         /\ d.awaited = c.awaited /\ d.length = c.length /\ d.looks = c.looks
<1> DEFINE d == ResetProperties(c)
<1>1. CASE c.document = 0
  BY <1>1 DEF ResetProperties, Collected, OfDocument, SameOverlay, SamePrompt, SameTask
<1>2. CASE c.document # 0
  <2> DEFINE e == [c EXCEPT !.document = 0, !.fieldData = NoFields, !.page = 1]
  <2>1. d = UpdateFields(e)
    BY <1>2 DEF ResetProperties
  <2>2. /\ 0 \in 0..MaxTasks /\ NoFields \in PropertyFields /\ 1 \in PropertyPages
        /\ SizeAlone(NoFields)
    BY DialogsAssumption DEF NoFields, PropertyFields, SizeAlone
  <2>3. e \in DialogsFields
    BY <2>2 DEF DialogsFields
  <2>4. /\ SameOverlay(c, e) /\ SamePrompt(c, e) /\ SameTask(c, e)
        /\ e.document = 0 /\ e.fieldData = NoFields
        /\ e.awaited = c.awaited /\ e.length = c.length /\ e.looks = c.looks
    BY DEF DialogsFields, SameOverlay, SamePrompt, SameTask
  <2> HIDE DEF e, d
  <2>5. /\ d \in DialogsFields /\ SameOverlay(e, d) /\ SamePrompt(e, d) /\ SameTask(e, d)
        /\ d.document = e.document /\ d.fieldData = e.fieldData /\ d.fields = NoFields
        /\ d.awaited = e.awaited /\ d.length = e.length /\ d.looks = e.looks
    BY <2>1, <2>3, <2>4, UpdateFieldsFacts
  <2>6. SameOverlay(c, d) /\ SamePrompt(c, d) /\ SameTask(c, d)
    BY <2>4, <2>5 DEF SameOverlay, SamePrompt, SameTask
  <2> QED BY <2>2, <2>4, <2>5, <2>6 DEF d
<1> QED BY <1>1, <1>2

\* What is collected is what a document that is open has.
LEMMA CollectFacts ==
  ASSUME NEW c \in DialogsFields, Collected(c), c.document # 0
  PROVE  LET d == Collect(c) IN
         /\ d \in DialogsFields /\ Collected(d)
         /\ SameOverlay(c, d) /\ SamePrompt(c, d) /\ SameTask(c, d)
<1> DEFINE d == Collect(c)
<1>1. CASE c.fieldData # NoFields /\ c.fieldData.page = c.page
  <2>1. d = UpdateFields(c)
    BY <1>1 DEF Collect
  <2> HIDE DEF d
  <2>2. /\ d \in DialogsFields /\ SameOverlay(c, d) /\ SamePrompt(c, d) /\ SameTask(c, d)
        /\ d.document = c.document /\ d.page = c.page /\ d.fieldData = c.fieldData
        /\ d.fields = c.fieldData \/ (c.fieldData # NoFields /\ d.fields = c.fields)
    BY <2>1, UpdateFieldsFacts
  <2>3. Collected(d)
    BY <2>2 DEF Collected, SameTask
  <2> QED BY <2>2, <2>3 DEF d
<1>2. CASE ~ (c.fieldData # NoFields /\ c.fieldData.page = c.page)
  <2> DEFINE w == c.awaited \cup {[stage |-> "page", page |-> c.page]}
  <2>1. d = [c EXCEPT !.awaited = w]
    BY <1>2 DEF Collect
  <2>2. w \in SUBSET Requests
    BY DialogsFieldTypes DEF Requests
  <2> HIDE DEF w, d
  <2>3. d \in DialogsFields
    BY <2>1, <2>2 DEF DialogsFields
  <2>4. /\ SameOverlay(c, d) /\ SamePrompt(c, d) /\ SameTask(c, d)
        /\ d.document = c.document /\ d.fieldData = c.fieldData /\ d.fields = c.fields
    BY <2>1 DEF DialogsFields, SameOverlay, SamePrompt, SameTask
  <2>5. Collected(d)
    BY <2>4 DEF Collected, SameTask
  <2> QED BY <2>3, <2>4, <2>5 DEF d
<1> QED BY <1>1, <1>2

LEMMA SetDocumentFacts ==
  ASSUME NEW c \in DialogsFields, Collected(c), NEW document \in 1..MaxTasks, document = c.task
  PROVE  LET d == SetDocument(c, document) IN
         /\ d \in DialogsFields /\ Collected(d)
         /\ SameOverlay(c, d) /\ SamePrompt(c, d) /\ SameTask(c, d)
<1> DEFINE r == ResetProperties(c)
           w == r.awaited \ {WaitingForData}
           s == [r EXCEPT !.document = document, !.awaited = w]
           d == SetDocument(c, document)
<1>1. /\ r \in DialogsFields /\ SameOverlay(c, r) /\ SamePrompt(c, r) /\ SameTask(c, r)
      /\ SizeAlone(r.fields) /\ SizeAlone(r.fieldData)
  BY ResetPropertiesFacts
<1>2. document \in 0..MaxTasks /\ document # 0
  BY DialogsAssumption
<1>3. d = Collect(s) \/ d = s
  BY DEF SetDocument
<1> HIDE DEF r, d
<1>4. /\ s \in DialogsFields /\ s.document = document
      /\ SizeAlone(s.fields) /\ SizeAlone(s.fieldData)
      /\ SameOverlay(c, s) /\ SamePrompt(c, s) /\ SameTask(c, s)
  <2>0. w \in SUBSET Requests
    BY <1>1, DialogsFieldTypes
  <2> HIDE DEF w
  <2>1. s \in DialogsFields
    BY <1>1, <1>2, <2>0 DEF DialogsFields
  <2>2. /\ s.document = document /\ s.fields = r.fields /\ s.fieldData = r.fieldData
        /\ SameOverlay(r, s) /\ SamePrompt(r, s) /\ SameTask(r, s)
    BY <1>1 DEF DialogsFields, SameOverlay, SamePrompt, SameTask
  <2> HIDE DEF s
  <2> QED BY <1>1, <2>1, <2>2 DEF SameOverlay, SamePrompt, SameTask
<1> HIDE DEF s
<1>5. Collected(s)
  BY <1>2, <1>4 DEF Collected, OfDocument, SameTask
<1>6. CASE d = s
  BY <1>4, <1>5, <1>6 DEF d
<1>7. CASE d = Collect(s)
  <2>1. /\ d \in DialogsFields /\ Collected(d)
        /\ SameOverlay(s, d) /\ SamePrompt(s, d) /\ SameTask(s, d)
    BY <1>2, <1>4, <1>5, <1>7, CollectFacts
  <2>2. SameOverlay(c, d) /\ SamePrompt(c, d) /\ SameTask(c, d)
    BY <1>4, <2>1 DEF SameOverlay, SamePrompt, SameTask
  <2> QED BY <2>1, <2>2 DEF d
<1> QED BY <1>3, <1>6, <1>7

\* A length that is filled in is that of the document that is open, or else it
\* stays alone.
LEMMA FillInSizeFacts ==
  ASSUME NEW c \in DialogsFields, Collected(c)
  PROVE  LET d == FillInSize(c) IN
         /\ d \in DialogsFields /\ Collected(d)
         /\ SameOverlay(c, d) /\ SamePrompt(c, d) /\ SameTask(c, d)
<1> DEFINE f == [c.fieldData EXCEPT !.size = c.tasks]
           e == [c EXCEPT !.fieldData = f]
           d == FillInSize(c)
<1>1. d = UpdateFields(e)
  BY DEF FillInSize
<1>2. f \in PropertyFields /\ OfDocument(c.document, f)
  <2>1. c.fieldData \in PropertyFields /\ c.tasks \in 0..MaxTasks
    BY DialogsFieldTypes
  <2>2. f \in PropertyFields
    BY <2>1 DEF PropertyFields
  <2>3. /\ f.document = c.fieldData.document /\ f.page = c.fieldData.page
        /\ f.size = c.tasks
    BY <2>1 DEF PropertyFields
  <2> QED BY <2>2, <2>3 DEF Collected, OfDocument, SizeAlone
<1> HIDE DEF f
<1>3. e \in DialogsFields
  BY <1>2 DEF DialogsFields
<1>4. /\ SameOverlay(c, e) /\ SamePrompt(c, e) /\ SameTask(c, e)
      /\ e.document = c.document /\ e.fieldData = f /\ e.fields = c.fields
  BY DEF DialogsFields, SameOverlay, SamePrompt, SameTask
<1> HIDE DEF e
<1>5. /\ d \in DialogsFields /\ SameOverlay(e, d) /\ SamePrompt(e, d) /\ SameTask(e, d)
      /\ d.document = e.document /\ d.fieldData = e.fieldData
      /\ d.fields = e.fieldData \/ d.fields = e.fields
  BY <1>1, <1>3, UpdateFieldsFacts
<1> HIDE DEF d
<1>6. SameOverlay(c, d) /\ SamePrompt(c, d) /\ SameTask(c, d)
  BY <1>4, <1>5 DEF SameOverlay, SamePrompt, SameTask
<1>7. Collected(d)
  BY <1>2, <1>4, <1>5, <1>6 DEF Collected, SameTask
<1> QED BY <1>5, <1>6, <1>7 DEF d

LEMMA AskForLengthFacts ==
  ASSUME NEW c \in DialogsFields, Collected(c)
  PROVE  LET d == AskForLength(c) IN
         /\ d \in DialogsFields /\ Collected(d)
         /\ SameOverlay(c, d) /\ SamePrompt(c, d) /\ SameTask(c, d)
<1> DEFINE w == c.awaited \cup {WaitingForLength}
           d == AskForLength(c)
<1>1. d = [c EXCEPT !.awaited = w] \/ d = c \/ d = FillInSize(c)
  BY DialogsFieldTypes DEF AskForLength
<1>2. w \in SUBSET Requests
  BY DialogsFieldTypes DEF WaitingForLength, Requests
<1> HIDE DEF d, w
<1>3. CASE d = [c EXCEPT !.awaited = w]
  <2>1. d \in DialogsFields
    BY <1>2, <1>3 DEF DialogsFields
  <2>2. /\ SameOverlay(c, d) /\ SamePrompt(c, d) /\ SameTask(c, d)
        /\ d.document = c.document /\ d.fieldData = c.fieldData /\ d.fields = c.fields
    BY <1>3 DEF DialogsFields, SameOverlay, SamePrompt, SameTask
  <2>3. Collected(d)
    BY <2>2 DEF Collected, SameTask
  <2> QED BY <2>1, <2>2, <2>3 DEF d
<1>4. CASE d = c
  BY <1>4 DEF d, SameOverlay, SamePrompt, SameTask
<1>5. CASE d = FillInSize(c)
  BY <1>5, FillInSizeFacts DEF d
<1> QED BY <1>1, <1>3, <1>4, <1>5

----------------------------------------------------------------------------
(* Every action keeps the invariant                                        *)

GoodDialogs(c) == c \in DialogsFields /\ Overlaid(c) /\ Asked(c) /\ Collected(c)

\* The overlay is closed or opened, and the rest stays.
LEMMA SubmitPasswordKeepsInv ==
  ASSUME GoodDialogs(dialogs), SubmitPassword
  PROVE  GoodDialogs(dialogs')
<1> DEFINE c == dialogs
           d == dialogs'
<1>1. d = InvokeCallback(c, "password") /\ "password" \in c.shown
  BY DEF SubmitPassword
<1>2. c.callback # 0
  BY <1>1 DEF GoodDialogs, Overlaid, Asked
<1> USE DEF GoodDialogs
<1> HIDE DEF c, d
<1>3. c \in DialogsFields /\ Overlaid(c) /\ Asked(c) /\ Collected(c)
  BY DEF c
<1>4. /\ d \in DialogsFields /\ Overlaid(d) /\ d.active # "password"
      /\ d.capability = c.capability /\ d.asks = c.asks
      /\ d.status = c.status \/ (c.task = c.callback /\ d.status \in {"checking", "failed"})
      /\ d.task = c.task /\ d.tasks = c.tasks /\ d.destroying = c.destroying
      /\ SameProperties(c, d)
  BY <1>1, <1>2, <1>3, InvokeCallbackFacts
<1>5. Asked(d)
  BY <1>2, <1>3, <1>4 DEF Asked
<1>6. Collected(d)
  BY <1>3, <1>4 DEF Collected, SameProperties
<1> QED BY <1>4, <1>5, <1>6 DEF d

\* Closing the prompt, or any dialog that shows, leaves the rest as it was.
LEMMA ClosingKeepsInv ==
  ASSUME NEW c, GoodDialogs(c), NEW d \in DialogsFields, Overlaid(d), d.active # "password",
         SamePrompt(c, d), SameTask(c, d), SameProperties(c, d)
  PROVE  GoodDialogs(d)
<1>1. Asked(d)
  BY DEF GoodDialogs, Asked, SamePrompt, SameTask
<1>2. Collected(d)
  BY DEF GoodDialogs, Collected, SameProperties, SameTask
<1> QED BY <1>1, <1>2 DEF GoodDialogs

LEMMA EscapeKeepsInv ==
  ASSUME NEW c, GoodDialogs(c), NEW dialog \in c.shown
  PROVE  GoodDialogs(CloseOverlay(c, dialog))
<1> DEFINE d == CloseOverlay(c, dialog)
<1>1. c \in DialogsFields /\ dialog \in Dialogs /\ c.shown \subseteq {dialog}
  BY DialogsFieldTypes DEF GoodDialogs, Overlaid
<1>2. /\ d \in DialogsFields /\ d.active = "none" /\ d.shown = {}
      /\ SamePrompt(c, d) /\ SameTask(c, d) /\ SameProperties(c, d)
  BY <1>1, CloseOverlayFacts
<1> HIDE DEF d
<1>3. Overlaid(d)
  BY <1>2 DEF Overlaid
<1>4. GoodDialogs(d)
  BY <1>2, <1>3, ClosingKeepsInv
<1> QED BY <1>4 DEF d

LEMMA CancelButtonKeepsInv ==
  ASSUME NEW c, GoodDialogs(c)
  PROVE  GoodDialogs(ClosePrompt(c))
<1> DEFINE d == ClosePrompt(c)
<1>1. /\ d \in DialogsFields /\ Overlaid(d) /\ d.active # "password"
      /\ SamePrompt(c, d) /\ SameTask(c, d) /\ SameProperties(c, d)
  BY ClosePromptFacts DEF GoodDialogs
<1> HIDE DEF d
<1>2. GoodDialogs(d)
  BY <1>1, ClosingKeepsInv
<1> QED BY <1>2 DEF d

LEMMA OpenPropertiesKeepsInv ==
  ASSUME GoodDialogs(dialogs), OpenProperties
  PROVE  GoodDialogs(dialogs')
<1> DEFINE c == dialogs
           d == dialogs'
           a == [c EXCEPT !.looks = c.looks + 1]
           o == OpenOverlay(a, "properties")
           w == o.awaited \cup {WaitingForData}
<1>1. /\ c.shown = {} /\ c.looks < MaxLooks
      /\ d = IF c.document # 0 THEN Collect(o) ELSE [o EXCEPT !.awaited = w]
  BY DEF OpenProperties
<1>2. c \in DialogsFields /\ Overlaid(c) /\ Asked(c) /\ Collected(c)
  BY DEF GoodDialogs
<1> HIDE DEF c, d
<1>3. /\ a \in DialogsFields /\ SameOverlay(c, a) /\ SamePrompt(c, a) /\ SameTask(c, a)
      /\ a.document = c.document /\ a.fieldData = c.fieldData /\ a.fields = c.fields
      /\ a.awaited = c.awaited
  <2>1. c.looks + 1 \in 0..MaxLooks
    BY <1>1, <1>2, DialogsFieldTypes, DialogsAssumption
  <2> QED BY <1>2, <2>1 DEF DialogsFields, SameOverlay, SamePrompt, SameTask
<1> HIDE DEF a
<1>4. Overlaid(a) /\ Asked(a) /\ Collected(a) /\ a.active = "none"
  <2>1. c.active = "none"
    BY <1>1, <1>2 DEF Overlaid
  <2> QED BY <1>2, <1>3, <2>1 DEF Overlaid, Asked, Collected, SameOverlay, SamePrompt, SameTask
<1>5. /\ o \in DialogsFields /\ Overlaid(o) /\ o.active = "properties"
      /\ SamePrompt(a, o) /\ SameTask(a, o) /\ SameProperties(a, o)
  <2>1. "properties" \in Dialogs /\ "properties" # "password"
    BY DEF Dialogs
  <2> QED BY <1>3, <1>4, <2>1, OpenOverlayFacts
<1> HIDE DEF o
<1>6. Asked(o) /\ Collected(o) /\ o.document = c.document
  BY <1>3, <1>4, <1>5 DEF Asked, Collected, SamePrompt, SameTask, SameProperties
<1>7. CASE c.document # 0
  <2>1. /\ d \in DialogsFields /\ Collected(d)
        /\ SameOverlay(o, d) /\ SamePrompt(o, d) /\ SameTask(o, d)
    BY <1>1, <1>5, <1>6, <1>7, CollectFacts
  <2>2. Overlaid(d) /\ Asked(d)
    BY <1>5, <1>6, <2>1 DEF Overlaid, Asked, SameOverlay, SamePrompt, SameTask
  <2> QED BY <2>1, <2>2 DEF GoodDialogs, d
<1>8. CASE c.document = 0
  <2>1. d = [o EXCEPT !.awaited = w]
    BY <1>1, <1>8
  <2>2. w \in SUBSET Requests
    BY <1>5, DialogsFieldTypes DEF WaitingForData, Requests
  <2> HIDE DEF w
  <2>4. d \in DialogsFields
    BY <1>5, <2>1, <2>2 DEF DialogsFields
  <2>5. /\ SameOverlay(o, d) /\ SamePrompt(o, d) /\ SameTask(o, d)
        /\ d.document = o.document /\ d.fieldData = o.fieldData /\ d.fields = o.fields
    BY <1>5, <2>1 DEF DialogsFields, SameOverlay, SamePrompt, SameTask
  <2>6. Overlaid(d) /\ Asked(d)
    BY <1>5, <1>6, <2>5 DEF Overlaid, Asked, SameOverlay, SamePrompt, SameTask
  <2>7. Collected(d)
    BY <1>6, <2>5 DEF Collected, SameTask
  <2> QED BY <2>4, <2>6, <2>7 DEF GoodDialogs, d
<1> QED BY <1>7, <1>8

LEMMA PageChangingKeepsInv ==
  ASSUME NEW c, GoodDialogs(c), NEW page \in PropertyPages
  PROVE  GoodDialogs([c EXCEPT !.page = page])
<1> DEFINE d == [c EXCEPT !.page = page]
<1>1. d \in DialogsFields
  BY DEF GoodDialogs, DialogsFields
<1>2. /\ SameOverlay(c, d) /\ SamePrompt(c, d) /\ SameTask(c, d) /\ d.awaited = c.awaited
      /\ d.document = c.document /\ d.fieldData = c.fieldData /\ d.fields = c.fields
  BY DEF GoodDialogs, DialogsFields, SameOverlay, SamePrompt, SameTask
<1> HIDE DEF d
<1>3. Overlaid(d) /\ Asked(d) /\ Collected(d)
  BY <1>2 DEF GoodDialogs, Overlaid, Asked, Collected, SameOverlay, SamePrompt, SameTask
<1>4. GoodDialogs(d)
  BY <1>1, <1>3 DEF GoodDialogs
<1> QED BY <1>4 DEF d

\* A task begins where none asks for its password.
LEMMA StartLoadingKeepsInv ==
  ASSUME NEW c, GoodDialogs(c), c.tasks < MaxTasks, c.document = 0
  PROVE  GoodDialogs(StartLoading(c))
<1> DEFINE n == c.tasks + 1
           w == c.awaited \cap {WaitingForData}
           d == [c EXCEPT !.task = n, !.tasks = n, !.status = "loading", !.tries = 0,
                          !.destroying = FALSE, !.awaited = w, !.length = "awaited"]
<1>0. c \in DialogsFields /\ Overlaid(c) /\ Asked(c) /\ Collected(c)
  BY DEF GoodDialogs
<1>1. n \in 0..MaxTasks /\ n # 0 /\ 0 \in 0..MaxTries /\ w \in SUBSET Requests
  BY <1>0, DialogsFieldTypes, DialogsAssumption
<1>2. StartLoading(c) = d
  BY DEF StartLoading
<1> HIDE DEF n, w
<1>3. d \in DialogsFields
  BY <1>0, <1>1, ZenonT(60) DEF DialogsFields
<1>4. /\ SameOverlay(c, d) /\ SamePrompt(c, d)
      /\ d.document = c.document /\ d.fieldData = c.fieldData /\ d.fields = c.fields
      /\ d.task = n /\ d.tasks = n /\ d.status = "loading" /\ d.destroying = FALSE
  BY <1>0 DEF DialogsFields, SameOverlay, SamePrompt
<1> HIDE DEF d
<1>5. Overlaid(d) /\ Asked(d) /\ Collected(d)
  BY <1>0, <1>1, <1>4 DEF Overlaid, Asked, Collected, SameOverlay, SamePrompt
<1> QED BY <1>2, <1>3, <1>5 DEF GoodDialogs

LEMMA OpenFileKeepsInv ==
  ASSUME GoodDialogs(dialogs), OpenFile
  PROVE  GoodDialogs(dialogs')
<1> DEFINE c == dialogs
           r == ResetProperties(c)
           e == [r EXCEPT !.task = 0, !.status = "none", !.destroying = TRUE]
<1>1. /\ c.tasks < MaxTasks
      /\ dialogs' = IF c.task = 0 THEN StartLoading(c) ELSE ClosePrompt(e)
  BY DEF OpenFile
<1>2. c \in DialogsFields /\ Overlaid(c) /\ Asked(c) /\ Collected(c)
  BY DEF GoodDialogs
<1>3. CASE c.task = 0
  <2>1. c.document = 0
    BY <1>2, <1>3 DEF Collected
  <2> QED BY <1>1, <1>3, <2>1, StartLoadingKeepsInv
<1>4. CASE c.task # 0
  <2> HIDE DEF c
  <2>1. /\ r \in DialogsFields /\ SameOverlay(c, r) /\ SamePrompt(c, r) /\ SameTask(c, r)
        /\ r.document = 0 /\ SizeAlone(r.fields) /\ SizeAlone(r.fieldData)
    BY <1>2, ResetPropertiesFacts
  <2> HIDE DEF r
  <2>2. 0 \in 0..MaxTasks
    BY DialogsAssumption
  <2>3. r \in DialogsFields
    BY <2>1
  <2>4. e \in DialogsFields
    BY <2>2, <2>3 DEF DialogsFields
  <2>5. /\ SameOverlay(r, e) /\ SamePrompt(r, e) /\ SameProperties(r, e)
        /\ e.task = 0 /\ e.status = "none" /\ e.tasks = r.tasks
    BY <2>3 DEF DialogsFields, SameOverlay, SamePrompt, SameProperties
  <2> HIDE DEF e
  <2> DEFINE d == ClosePrompt(e)
  <2>6. Overlaid(e)
    BY <1>2, <2>1, <2>5 DEF Overlaid, SameOverlay
  <2>7. /\ d \in DialogsFields /\ Overlaid(d) /\ d.active # "password"
        /\ SamePrompt(e, d) /\ SameTask(e, d) /\ SameProperties(e, d)
    BY <2>4, <2>6, ClosePromptFacts
  <2>8. dialogs' = d
    BY <1>1, <1>4 DEF c
  <2> HIDE DEF d
  <2>9. d.tasks < MaxTasks
    BY <1>1, <2>1, <2>5, <2>7 DEF SameTask
  <2>10. Asked(d)
    BY <1>2, <2>1, <2>5, <2>7, <2>9 DEF Asked, SamePrompt, SameTask
  <2>11. Collected(d)
    BY <2>1, <2>5, <2>7 DEF Collected, OfDocument, SameProperties, SameTask
  <2> QED BY <2>7, <2>8, <2>10, <2>11 DEF GoodDialogs
<1> QED BY <1>3, <1>4

\* Those who waited have their turn, and the last of them has the prompt.
LEMMA CloseEventKeepsInv ==
  ASSUME GoodDialogs(dialogs), CloseEvent
  PROVE  GoodDialogs(dialogs')
<1> DEFINE b == dialogs
           n == b.closeEvents - 1
           c == [b EXCEPT !.closeEvents = n]
           i == InvokeCallback(c, "cancelled")
           a == [i EXCEPT !.capability = "resolved", !.asks = <<>>]
           d == PromptAll(a, c.asks)
<1>1. b.closeEvents > 0 /\ dialogs' = d
  BY DEF CloseEvent, Cancel, PromptAnswered
<1>2. b \in DialogsFields /\ Overlaid(b) /\ Asked(b) /\ Collected(b)
  BY DEF GoodDialogs
<1> HIDE DEF b, d
<1>3. n \in Nat
  BY <1>1, <1>2, DialogsFieldTypes
<1> HIDE DEF n
<1>4. /\ c \in DialogsFields /\ c.active = b.active /\ c.shown = b.shown
      /\ SamePrompt(b, c) /\ SameTask(b, c) /\ SameProperties(b, c)
  <2>1. c \in DialogsFields
    BY <1>2, <1>3 DEF DialogsFields
  <2> QED BY <1>2, <2>1 DEF DialogsFields, SamePrompt, SameTask, SameProperties
<1> HIDE DEF c
<1>5. Overlaid(c) /\ Asked(c) /\ Collected(c)
  BY <1>2, <1>4 DEF Overlaid, Asked, Collected, SamePrompt, SameTask, SameProperties
<1>6. /\ i \in DialogsFields /\ Overlaid(i)
      /\ c.callback = 0 => i = c
      /\ c.callback # 0 => i.active # "password"
      /\ i.callback = 0 /\ i.asks = c.asks
      /\ i.status = c.status \/ (c.task = c.callback /\ i.status \in {"checking", "failed"})
      /\ i.task = c.task /\ i.tasks = c.tasks /\ i.destroying = c.destroying
      /\ SameProperties(c, i)
  BY <1>4, <1>5, InvokeCallbackFacts
<1>7. i.active # "password"
  BY <1>5, <1>6 DEF Asked
<1> HIDE DEF i
<1>8. /\ a \in DialogsFields /\ a.active = i.active /\ a.shown = i.shown /\ a.asks = <<>>
      /\ a.status = i.status /\ SameTask(i, a) /\ SameProperties(i, a)
  <2> DEFINE none == <<>>
  <2>1. i \in DialogsFields /\ none \in Seq(1..MaxTasks)
    BY <1>6
  <2>2. a = [i EXCEPT !.capability = "resolved", !.asks = none]
    OBVIOUS
  <2> HIDE DEF none, a
  <2>3. a \in DialogsFields
    BY <2>1, <2>2 DEF DialogsFields
  <2>4. /\ a.active = i.active /\ a.shown = i.shown /\ a.asks = none
        /\ a.status = i.status /\ SameTask(i, a) /\ SameProperties(i, a)
    BY <2>1, <2>2 DEF DialogsFields, SameTask, SameProperties
  <2> QED BY <2>3, <2>4 DEF none, a
<1> HIDE DEF a
<1>9. Overlaid(a) /\ a.active # "password" /\ Collected(a)
  <2>1. Collected(i)
    BY <1>5, <1>6 DEF Collected, SameProperties
  <2> QED BY <1>6, <1>7, <1>8, <2>1 DEF Overlaid, Collected, SameProperties, SameTask
<1>10. /\ a.status # "none" => a.task # 0
       /\ a.destroying => a.tasks < MaxTasks
  BY <1>4, <1>5, <1>6, <1>8, DialogsFieldTypes DEF Asked, SameTask
<1>11. CASE c.asks = <<>>
  <2>1. d = a
    BY <1>11 DEF PromptAll, d
  <2>2. Asked(a)
    BY <1>8, <1>9, <1>10 DEF Asked
  <2> QED BY <1>1, <1>8, <1>9, <2>1, <2>2 DEF GoodDialogs
<1>12. CASE c.asks # <<>>
  <2>1. /\ d \in DialogsFields /\ Overlaid(d) /\ d.active = "password"
        /\ d.callback = c.asks[Len(c.asks)] /\ d.callback # 0
        /\ d.asks = a.asks /\ SameTask(a, d) /\ SameProperties(a, d)
    <3>1. c.asks \in Seq(1..MaxTasks)
      BY <1>4, DialogsFieldTypes
    <3> QED BY <1>8, <1>9, <1>12, <3>1, PromptAllFacts DEF d
  <2>2. d.status = "asked" => d.callback = d.task
    BY <1>5, <1>6, <1>8, <1>12, <2>1 DEF Asked, SameTask
  <2>3. Asked(d)
    BY <1>8, <1>10, <2>1, <2>2 DEF Asked, SameTask
  <2>4. Collected(d)
    BY <1>9, <2>1 DEF Collected, SameProperties, SameTask
  <2> QED BY <1>1, <2>1, <2>3, <2>4 DEF GoodDialogs
<1> QED BY <1>11, <1>12

LEMMA PasswordNeededKeepsInv ==
  ASSUME GoodDialogs(dialogs), PasswordNeeded
  PROVE  GoodDialogs(dialogs')
<1> DEFINE b == dialogs
           n == b.tries + 1
           c == [b EXCEPT !.status = "asked", !.tries = n]
           more == Append(c.asks, c.task)
           d == dialogs'
<1>1. /\ b.status \in {"loading", "checking"} /\ b.tries < MaxTries
      /\ d = IF c.capability = "pending" THEN [c EXCEPT !.asks = more]
             ELSE PromptAll(c, <<c.task>>)
  BY DEF PasswordNeeded, OnPassword, Prompt
<1>2. b \in DialogsFields /\ Overlaid(b) /\ Asked(b) /\ Collected(b)
  BY DEF GoodDialogs
<1> HIDE DEF b, d
<1>3. n \in 0..MaxTries
  BY <1>1, <1>2, DialogsFieldTypes, DialogsAssumption
<1> HIDE DEF n
<1>4. /\ c \in DialogsFields /\ c.active = b.active /\ c.shown = b.shown /\ c.status = "asked"
      /\ c.task = b.task /\ c.tasks = b.tasks /\ c.destroying = b.destroying
      /\ SamePrompt(b, c) /\ SameProperties(b, c)
  <2>1. c \in DialogsFields
    BY <1>2, <1>3 DEF DialogsFields
  <2> QED BY <1>2, <2>1 DEF DialogsFields, SamePrompt, SameProperties
<1> HIDE DEF c
<1>5. Overlaid(c) /\ Collected(c) /\ c.task \in 1..MaxTasks
  <2>1. c.task # 0 /\ c.task \in 0..MaxTasks
    BY <1>1, <1>2, <1>4, DialogsFieldTypes DEF Asked
  <2>2. Overlaid(c) /\ Collected(c)
    BY <1>2, <1>4 DEF Overlaid, Collected, SameProperties
  <2> QED BY <2>1, <2>2, DialogsAssumption
<1>6. c.asks \in Seq(1..MaxTasks)
  BY <1>4, DialogsFieldTypes
<1>7. c.task # 0 /\ (c.destroying => c.tasks < MaxTasks)
  BY <1>2, <1>4, <1>5 DEF Asked
<1>8. CASE c.capability = "pending"
  <2>1. /\ more \in Seq(1..MaxTasks) /\ more # <<>> /\ more[Len(more)] = c.task
    <3>1. /\ more \in Seq(1..MaxTasks) /\ Len(more) = Len(c.asks) + 1
          /\ more[Len(c.asks) + 1] = c.task
      BY <1>5, <1>6, AppendProperties
    <3>2. Len(<<>>) = 0 /\ Len(c.asks) \in Nat
      BY <1>6, LenProperties
    <3> QED BY <3>1, <3>2
  <2>2. d = [c EXCEPT !.asks = more]
    BY <1>1, <1>8
  <2> HIDE DEF more
  <2>3. d \in DialogsFields
    BY <1>4, <2>1, <2>2 DEF DialogsFields
  <2>4. /\ SameOverlay(c, d) /\ SameTask(c, d) /\ SameProperties(c, d)
        /\ d.asks = more /\ d.capability = c.capability /\ d.callback = c.callback
    BY <1>4, <2>2 DEF DialogsFields, SameOverlay, SameTask, SameProperties
  <2>5. Overlaid(d) /\ Collected(d)
    BY <1>5, <2>4 DEF Overlaid, Collected, SameOverlay, SameProperties, SameTask
  <2>6. c.active = "password" => c.callback # 0
    BY <1>2, <1>4 DEF Asked, SamePrompt
  <2>7. Asked(d)
    BY <1>4, <1>7, <1>8, <2>1, <2>4, <2>6 DEF Asked, SameOverlay, SameTask
  <2> QED BY <2>3, <2>5, <2>7 DEF GoodDialogs, d
<1>9. CASE c.capability # "pending"
  <2> DEFINE one == <<c.task>>
  <2>1. one \in Seq(1..MaxTasks) /\ one # <<>> /\ one[Len(one)] = c.task
    BY <1>5
  <2>2. d = PromptAll(c, one)
    BY <1>1, <1>9
  <2> HIDE DEF one
  <2>3. /\ d \in DialogsFields /\ Overlaid(d) /\ d.active = "password"
        /\ d.callback = c.task /\ d.callback # 0
        /\ d.asks = c.asks /\ SameTask(c, d) /\ SameProperties(c, d)
    BY <1>4, <1>5, <2>1, <2>2, PromptAllFacts
  <2>4. c.asks = <<>>
    BY <1>2, <1>4, <1>9 DEF Asked, SamePrompt
  <2>5. Asked(d)
    BY <1>7, <2>3, <2>4 DEF Asked, SameTask
  <2>6. Collected(d)
    BY <1>5, <2>3 DEF Collected, SameProperties, SameTask
  <2> QED BY <2>3, <2>5, <2>6 DEF GoodDialogs, d
<1> QED BY <1>8, <1>9

\* The loading task ends, one way or the other.
LEMMA LoadingEnds ==
  ASSUME NEW b, GoodDialogs(b), b.status \in {"loading", "checking"}, NEW st \in {"ready", "failed"}
  PROVE  LET c == [b EXCEPT !.status = st] IN
         GoodDialogs(c) /\ c.task = b.task /\ c.task \in 1..MaxTasks
<1> DEFINE c == [b EXCEPT !.status = st]
<1>1. b \in DialogsFields /\ Overlaid(b) /\ Asked(b) /\ Collected(b)
  BY DEF GoodDialogs
<1>2. c \in DialogsFields
  BY <1>1 DEF DialogsFields
<1>3. /\ SameOverlay(b, c) /\ SamePrompt(b, c) /\ SameProperties(b, c)
      /\ c.status = st /\ c.task = b.task /\ c.tasks = b.tasks
      /\ c.destroying = b.destroying
  BY <1>1 DEF DialogsFields, SameOverlay, SamePrompt, SameProperties
<1> HIDE DEF c
<1>4. b.task \in 0..MaxTasks /\ b.task # 0
  BY <1>1, DialogsFieldTypes DEF Asked
<1>5. Overlaid(c) /\ Asked(c) /\ Collected(c)
  BY <1>1, <1>3, <1>4 DEF Overlaid, Asked, Collected, SameOverlay, SamePrompt, SameProperties
<1>6. GoodDialogs(c) /\ c.task = b.task /\ c.task \in 1..MaxTasks
  BY <1>2, <1>3, <1>4, <1>5, DialogsAssumption DEF GoodDialogs
<1> QED BY <1>6 DEF c

LEMMA DocumentLoadedKeepsInv ==
  ASSUME GoodDialogs(dialogs), DocumentLoaded
  PROVE  GoodDialogs(dialogs')
<1> DEFINE c == [dialogs EXCEPT !.status = "ready"]
           d == SetDocument(c, c.task)
<1>1. GoodDialogs(c) /\ c.task = dialogs.task /\ c.task \in 1..MaxTasks
  BY LoadingEnds DEF DocumentLoaded
<1>2. dialogs' = SetDocument(c, dialogs.task)
  BY DEF DocumentLoaded
<1> HIDE DEF c
<1>3. /\ d \in DialogsFields /\ Collected(d)
      /\ SameOverlay(c, d) /\ SamePrompt(c, d) /\ SameTask(c, d)
  BY <1>1, SetDocumentFacts DEF GoodDialogs
<1>4. dialogs' = d
  BY <1>1, <1>2
<1> HIDE DEF d
<1>5. Overlaid(d) /\ Asked(d)
  BY <1>1, <1>3 DEF GoodDialogs, Overlaid, Asked, SameOverlay, SamePrompt, SameTask
<1> QED BY <1>3, <1>4, <1>5 DEF GoodDialogs

\* A record with the overlays, the prompt and the task of a good one, and with
\* what the document that is open has.
LEMMA SameRestIsGood ==
  ASSUME NEW c, GoodDialogs(c), NEW d \in DialogsFields, Collected(d),
         SameOverlay(c, d), SamePrompt(c, d), SameTask(c, d)
  PROVE  GoodDialogs(d)
BY DEF GoodDialogs, Overlaid, Asked, SameOverlay, SamePrompt, SameTask

LEMMA PropertiesAnsweredKeepsInv ==
  ASSUME GoodDialogs(dialogs), PropertiesAnswered
  PROVE  GoodDialogs(dialogs')
<1> DEFINE c == dialogs
<1>1. PICK a \in c.awaited :
        dialogs' = IF c.document = 0 THEN [c EXCEPT !.awaited = c.awaited \ {a}]
                   ELSE AskForLength(UpdateFields([c EXCEPT !.awaited = c.awaited \ {a},
                          !.fieldData = [document |-> c.document, page |-> a.page, size |-> c.document]]))
  BY DEF PropertiesAnswered
<1> DEFINE w == c.awaited \ {a}
           b == [c EXCEPT !.awaited = w]
           data == [document |-> c.document, page |-> a.page, size |-> c.document]
           e == [c EXCEPT !.awaited = w, !.fieldData = data]
           u == UpdateFields(e)
<1>2. c \in DialogsFields /\ Collected(c)
  BY DEF GoodDialogs
<1>3. w \in SUBSET Requests /\ data \in PropertyFields
      /\ (c.document # 0 => OfDocument(c.document, data))
  <2>1. a \in Requests /\ c.document \in 0..MaxTasks
    BY <1>2, DialogsFieldTypes
  <2> QED BY <1>2, <2>1, DialogsFieldTypes DEF Requests, PropertyFields, OfDocument
<1> HIDE DEF c, w, data
<1>4. CASE c.document = 0
  <2>1. dialogs' = b
    BY <1>1, <1>4 DEF w
  <2>2. b \in DialogsFields
    BY <1>2, <1>3 DEF DialogsFields
  <2>3. /\ SameOverlay(c, b) /\ SamePrompt(c, b) /\ SameTask(c, b)
        /\ b.document = c.document /\ b.fieldData = c.fieldData /\ b.fields = c.fields
    BY <1>2 DEF DialogsFields, SameOverlay, SamePrompt, SameTask
  <2> HIDE DEF b
  <2>4. Collected(b)
    BY <1>2, <2>3 DEF Collected, SameTask
  <2> QED BY <2>1, <2>2, <2>3, <2>4, SameRestIsGood DEF c
<1>5. CASE c.document # 0
  <2>1. dialogs' = AskForLength(u)
    BY <1>1, <1>5 DEF w, data
  <2>2. e \in DialogsFields
    BY <1>2, <1>3 DEF DialogsFields
  <2>3. /\ SameOverlay(c, e) /\ SamePrompt(c, e) /\ SameTask(c, e)
        /\ e.document = c.document /\ e.fieldData = data /\ e.fields = c.fields
    BY <1>2 DEF DialogsFields, SameOverlay, SamePrompt, SameTask
  <2> HIDE DEF e
  <2>4. /\ u \in DialogsFields /\ SameOverlay(e, u) /\ SamePrompt(e, u) /\ SameTask(e, u)
        /\ u.document = e.document /\ u.fieldData = e.fieldData
        /\ u.fields = e.fieldData \/ u.fields = e.fields
    BY <2>2, UpdateFieldsFacts
  <2> HIDE DEF u
  <2>5. SameOverlay(c, u) /\ SamePrompt(c, u) /\ SameTask(c, u)
    BY <2>3, <2>4 DEF SameOverlay, SamePrompt, SameTask
  <2>6. Collected(u)
    BY <1>2, <1>3, <1>5, <2>3, <2>4, <2>5 DEF Collected, SameTask
  <2>7. GoodDialogs(u)
    BY <2>4, <2>5, <2>6, SameRestIsGood DEF c
  <2> DEFINE d == AskForLength(u)
  <2>8. /\ d \in DialogsFields /\ Collected(d)
        /\ SameOverlay(u, d) /\ SamePrompt(u, d) /\ SameTask(u, d)
    BY <2>4, <2>6, AskForLengthFacts
  <2> HIDE DEF d
  <2> QED BY <2>1, <2>7, <2>8, SameRestIsGood DEF d
<1> QED BY <1>4, <1>5

LEMMA DataLoadedKeepsInv ==
  ASSUME GoodDialogs(dialogs), NEW length \in {"known", "other"}, DataLoaded(length)
  PROVE  GoodDialogs(dialogs')
<1> DEFINE c == dialogs
           w == c.awaited \ {WaitingForLength}
           e == [c EXCEPT !.awaited = w, !.length = length]
           d == FillInSize(e)
<1>1. dialogs' = d \/ dialogs' = e
  BY DEF DataLoaded
<1>2. c \in DialogsFields /\ Collected(c) /\ w \in SUBSET Requests
  BY DialogsFieldTypes DEF GoodDialogs
<1> HIDE DEF c, w
<1>3. e \in DialogsFields
  BY <1>2 DEF DialogsFields
<1>4. /\ SameOverlay(c, e) /\ SamePrompt(c, e) /\ SameTask(c, e)
      /\ e.document = c.document /\ e.fieldData = c.fieldData /\ e.fields = c.fields
  BY <1>2 DEF DialogsFields, SameOverlay, SamePrompt, SameTask
<1> HIDE DEF e
<1>5. Collected(e)
  BY <1>2, <1>4 DEF Collected, SameTask
<1>6. GoodDialogs(e)
  BY <1>3, <1>4, <1>5, SameRestIsGood DEF c
<1>7. /\ d \in DialogsFields /\ Collected(d)
      /\ SameOverlay(e, d) /\ SamePrompt(e, d) /\ SameTask(e, d)
  BY <1>3, <1>5, FillInSizeFacts
<1> HIDE DEF d
<1>8. GoodDialogs(d)
  BY <1>6, <1>7, SameRestIsGood
<1> QED BY <1>1, <1>6, <1>8

----------------------------------------------------------------------------
(* The theorems                                                            *)

LEMMA DialogsStart == DialogsInit => GoodDialogs(dialogs)
<1> SUFFICES ASSUME DialogsInit PROVE GoodDialogs(dialogs)
  OBVIOUS
<1>1. /\ 0 \in 0..MaxTasks /\ 0 \in 0..MaxTries /\ 0 \in 0..MaxLooks /\ <<>> \in Seq(1..MaxTasks)
      /\ NoFields \in PropertyFields /\ 1 \in PropertyPages
  BY DialogsAssumption DEF NoFields, PropertyFields
<1>2. dialogs \in DialogsFields
  BY <1>1 DEF DialogsInit, DialogsFields
<1>3. Overlaid(dialogs) /\ Asked(dialogs) /\ Collected(dialogs)
  BY DEF DialogsInit, Overlaid, Asked, Collected, OfDocument, SizeAlone, NoFields
<1> QED BY <1>2, <1>3 DEF GoodDialogs

LEMMA DialogsStep == GoodDialogs(dialogs) /\ [DialogsNext]_dialogs => GoodDialogs(dialogs)'
<1> SUFFICES ASSUME GoodDialogs(dialogs), [DialogsNext]_dialogs PROVE GoodDialogs(dialogs')
  OBVIOUS
<1>1. CASE SubmitPassword
  BY <1>1, SubmitPasswordKeepsInv
<1>2. CASE CancelButton
  BY <1>2, CancelButtonKeepsInv DEF CancelButton
<1>3. CASE Escape
  BY <1>3, EscapeKeepsInv DEF Escape
<1>4. CASE OpenProperties
  BY <1>4, OpenPropertiesKeepsInv
<1>5. CASE CloseProperties
  BY <1>5, EscapeKeepsInv DEF CloseProperties
<1>6. CASE OpenFile
  BY <1>6, OpenFileKeepsInv
<1>7. CASE \E page \in PropertyPages : PageChanging(page)
  BY <1>7, PageChangingKeepsInv DEF PageChanging
<1>8. CASE PasswordNeeded
  BY <1>8, PasswordNeededKeepsInv
<1>9. CASE DocumentLoaded
  BY <1>9, DocumentLoadedKeepsInv
<1>10. CASE LoadingFails
  BY <1>10, LoadingEnds DEF LoadingFails
<1>11. CASE PropertiesAnswered
  BY <1>11, PropertiesAnsweredKeepsInv
<1>12. CASE CloseEvent
  BY <1>12, CloseEventKeepsInv
<1>13. CASE TaskDestroyed
  <2>1. dialogs.destroying /\ dialogs' = StartLoading(dialogs)
    BY <1>13 DEF TaskDestroyed
  <2>2. dialogs.tasks < MaxTasks /\ dialogs.document = 0
    BY <2>1 DEF GoodDialogs, Asked, Collected
  <2> QED BY <2>1, <2>2, StartLoadingKeepsInv
<1>14. CASE \E length \in {"known", "other"} : DataLoaded(length)
  BY <1>14, DataLoadedKeepsInv
<1>15. CASE UNCHANGED dialogs
  BY <1>15
<1> QED BY <1>1, <1>2, <1>3, <1>4, <1>5, <1>6, <1>7, <1>8, <1>9, <1>10, <1>11, <1>12,
           <1>13, <1>14, <1>15 DEF DialogsNext, DialogsWork

LEMMA GoodDialogsAreSound == GoodDialogs(dialogs) => DialogsAreSound
<1> SUFFICES ASSUME GoodDialogs(dialogs) PROVE DialogsAreSound
  OBVIOUS
<1>1. DialogsTypeOK
  BY DEF GoodDialogs, DialogsTypeOK
<1>2. OverlayIsTheDialog
  BY DEF GoodDialogs, Overlaid, OverlayIsTheDialog
<1>3. PromptHasAnAsker
  BY DEF GoodDialogs, Overlaid, Asked, PromptHasAnAsker
<1>4. PropertiesOfTheDocument
  BY DEF GoodDialogs, Collected, OfDocument, PropertiesOfTheDocument
<1> QED BY <1>1, <1>2, <1>3, <1>4 DEF DialogsAreSound

(***************************************************************************)
(* One dialog shows at a time, a prompt has an asker, and the properties   *)
(* that show are those of the document that is open, but for the size of   *)
(* the file of a closed one, alone, however many documents ask for their   *)
(* password and in whatever order close events, answers and lengths arrive *)
(* (viewer.mjs, OverlayManager, PasswordPrompt and PDFDocumentProperties). *)
(***************************************************************************)
THEOREM DialogsCorrect == DialogsSpec => []DialogsAreSound
BY DialogsStart, DialogsStep, GoodDialogsAreSound, PTL DEF DialogsSpec

----------------------------------------------------------------------------
(* The sidebar                                                             *)

\* What shows has its button, was told, and is stored once the first view is set.
Shown(s) ==
  /\ s.active \notin s.disabled
  /\ s.told = VisibleView(s)
  /\ s.eventSent => s.sidebarSet
  /\ s.sidebarSet /\ ~s.late =>
       s.initialSet /\ s.document # 0 /\ s.stored[s.document] = VisibleView(s)

\* Trees are of the document, and have their buttons.
Rooted(s) == \A t \in Trees : s.treeOf[t] \in {0, s.document}

OutlineFits(s) == s.treeOf["OUTLINE"] # 0 => ("OUTLINE" \in s.disabled <=> s.items = {})

FilesFit(s) ==
  /\ s.treeOf["ATTACHMENTS"] # 0 =>
       s.pendingEvent \/ ("ATTACHMENTS" \in s.disabled <=> s.files = {})
  /\ s.pendingEvent => s.files = {}

LayersFit(s) ==
  s.treeOf["LAYERS"] # 0 => ("LAYERS" \in s.disabled <=> Layers = {}) /\ s.boxes = s.config

\* The outline has items only of the document, and its button is on only when
\* there are items and pages to find.
Itemized(s) ==
  /\ s.document = 0 => s.items = {}
  /\ s.hashOf \in {0, s.document}
  /\ s.item # 0 => s.item \in s.items

PagesThere(s) == s.early \/ <<"pages", s.document>> \notin s.asked

Enabled(s) ==
  /\ s.capability = "pending" => s.items # {}
  /\ s.currentButton => s.items # {} /\ s.sidebarSet
  /\ s.loaded \/ s.currentButton => PagesThere(s)

\* What the worker is asked is asked for a document that was opened, and the
\* outline once.
Requested(s) ==
  /\ s.document <= s.opened
  /\ \A a \in s.asked :
       /\ a[2] <= s.opened
       /\ a[1] \notin {"hash", "reset"} => a[2] # 0
       /\ a[1] = "OUTLINE" => <<"rendered", a[2]>> \notin s.asked
       /\ a[1] \in {"OUTLINE", "rendered"} /\ a[2] = s.document => s.items = {}

GoodSide(s) ==
  /\ s \in SideFields /\ Shown(s) /\ Rooted(s) /\ OutlineFits(s) /\ FilesFit(s)
  /\ LayersFit(s) /\ Itemized(s) /\ Enabled(s) /\ Requested(s)

----------------------------------------------------------------------------
(* Which fields an operator leaves as they were                            *)

SameDocument(c, d) ==
  /\ d.opened = c.opened /\ d.document = c.document /\ d.asked = c.asked
  /\ d.loaded = c.loaded /\ d.early = c.early
  /\ d.late = c.late /\ d.initialSet = c.initialSet
SameView(c, d) ==
  /\ d.isOpen = c.isOpen /\ d.active = c.active /\ d.eventSent = c.eventSent
  /\ d.told = c.told /\ d.stored = c.stored
SameItems(c, d) ==
  d.items = c.items /\ d.hashOf = c.hashOf /\ d.item = c.item
SameButton(c, d) ==
  d.capability = c.capability /\ d.currentButton = c.currentButton
SameTrees(c, d) ==
  /\ d.treeOf = c.treeOf /\ d.files = c.files /\ d.pendingEvent = c.pendingEvent
  /\ d.config = c.config /\ d.boxes = c.boxes
Frame(c, d) == SameDocument(c, d) /\ SameItems(c, d) /\ SameTrees(c, d)
Rest(c, d) == Frame(c, d) /\ SameButton(c, d) /\ d.sidebarSet = c.sidebarSet

\* The view of d was told, and stored for its document.
Dispatched(c, d) ==
  /\ d.told = VisibleView(d)
  /\ d.eventSent <=> c.eventSent \/ c.sidebarSet
  /\ d.initialSet /\ d.document # 0 => d.stored[d.document] = VisibleView(d)

LEMMA SideTypes ==
  ASSUME NEW c \in SideFields
  PROVE  /\ c.trees \in TreeSets /\ c.opened \in Numbers /\ c.document \in Numbers
         /\ c.closing \in Numbers /\ c.asked \in SUBSET (Questions \X Numbers)
         /\ c.isOpen \in BOOLEAN /\ c.active \in SidebarViews \ {"NONE"}
         /\ c.initialSet \in BOOLEAN /\ c.sidebarSet \in BOOLEAN /\ c.eventSent \in BOOLEAN
         /\ c.told \in SidebarViews /\ c.stored \in [Numbers -> {"UNKNOWN"} \cup SidebarViews]
         /\ c.disabled \in SUBSET Trees /\ c.currentButton \in BOOLEAN
         /\ c.page \in SidebarPageSet /\ c.loaded \in BOOLEAN /\ c.early \in BOOLEAN
         /\ c.treeOf \in [Trees -> Numbers] /\ c.items \in SUBSET SidebarPageSet
         /\ c.capability \in {"none", "pending", "settled"}
         /\ c.hash \in {"none", "making", "there"} /\ c.hashOf \in Numbers
         /\ c.item \in 0..SidebarPages /\ c.files \in SUBSET FileNames
         /\ c.queue \in SUBSET FileNames /\ c.rendered \in BOOLEAN
         /\ c.pendingEvent \in BOOLEAN /\ c.waits \in SUBSET Numbers
         /\ c.config \in SUBSET Layers /\ c.boxes \in SUBSET Layers /\ c.late \in BOOLEAN
BY DEF SideFields

LEMMA TreeNames ==
  /\ "OUTLINE" \in Trees /\ "ATTACHMENTS" \in Trees /\ "LAYERS" \in Trees
  /\ Trees \subseteq SidebarViews \ {"NONE"} /\ "THUMBS" \in SidebarViews \ {"NONE"}
  /\ "NONE" \in SidebarViews /\ "THUMBS" \notin Trees
  /\ 0 \in Numbers
BY SidebarAssumption DEF Trees, SidebarViews, Numbers

----------------------------------------------------------------------------
(* PDFSidebar                                                              *)

LEMMA ToldFields ==
  ASSUME NEW c \in SideFields, NEW v \in SidebarViews, NEW sent \in BOOLEAN,
         NEW kept \in [Numbers -> {"UNKNOWN"} \cup SidebarViews]
  PROVE  [c EXCEPT !.told = v, !.eventSent = sent, !.stored = kept] \in SideFields
BY ZenonT(100) DEF SideFields

LEMMA OpenFields ==
  ASSUME NEW c \in SideFields
  PROVE  [c EXCEPT !.isOpen = TRUE] \in SideFields /\ [c EXCEPT !.isOpen = FALSE] \in SideFields
<1>1. [c EXCEPT !.isOpen = TRUE] \in SideFields
  BY ZenonT(60) DEF SideFields
<1>2. [c EXCEPT !.isOpen = FALSE] \in SideFields
  BY ZenonT(60) DEF SideFields
<1> QED BY <1>1, <1>2

LEMMA DispatchViewFacts ==
  ASSUME NEW c \in SideFields
  PROVE  LET d == DispatchView(c) IN
         /\ d \in SideFields /\ Rest(c, d) /\ d.disabled = c.disabled
         /\ d.isOpen = c.isOpen /\ d.active = c.active /\ Dispatched(c, d)
<1> DEFINE d == DispatchView(c)
           v == VisibleView(c)
           sent == c.eventSent \/ c.sidebarSet
           here == IF c.initialSet /\ c.document # 0 THEN v ELSE c.stored[c.document]
           kept == [c.stored EXCEPT ![c.document] = here]
<1>1. d = [c EXCEPT !.told = v, !.eventSent = sent, !.stored = kept]
  BY DEF DispatchView
<1>2. v \in SidebarViews /\ sent \in BOOLEAN
  BY SideTypes, TreeNames DEF VisibleView
<1> HIDE DEF v, sent
<1>3. /\ kept \in [Numbers -> {"UNKNOWN"} \cup SidebarViews]
      /\ c.initialSet /\ c.document # 0 => kept[c.document] = v
  <2>1. c.document \in Numbers /\ c.stored \in [Numbers -> {"UNKNOWN"} \cup SidebarViews]
    BY SideTypes
  <2>2. here \in {"UNKNOWN"} \cup SidebarViews
    BY <1>2, <2>1
  <2>3. c.initialSet /\ c.document # 0 => here = v
    OBVIOUS
  <2> HIDE DEF here
  <2>4. kept \in [Numbers -> {"UNKNOWN"} \cup SidebarViews] /\ kept[c.document] = here
    BY <2>1, <2>2
  <2> HIDE DEF kept
  <2> QED BY <2>3, <2>4
<1> HIDE DEF here, kept, d
<1>4. d \in SideFields
  <2>1. kept \in [Numbers -> {"UNKNOWN"} \cup SidebarViews]
    BY <1>3
  <2> QED BY <1>1, <1>2, <2>1, ToldFields
<1>5. Rest(c, d)
  BY <1>1 DEF SideFields, Rest, Frame, SameDocument, SameItems, SameTrees, SameButton
<1>6. /\ d.disabled = c.disabled /\ d.isOpen = c.isOpen /\ d.active = c.active
      /\ d.told = v /\ d.eventSent = sent /\ d.stored = kept
      /\ d.initialSet = c.initialSet /\ d.document = c.document
  BY <1>1 DEF SideFields
<1>7. VisibleView(d) = v
  BY <1>6 DEF VisibleView, v
<1>8. Dispatched(c, d)
  BY <1>3, <1>6, <1>7 DEF Dispatched, sent
<1> QED BY <1>4, <1>5, <1>6, <1>8 DEF d

\* A view is switched with an event, or nothing is.
LEMMA SwitchViewFacts ==
  ASSUME NEW c \in SideFields, NEW view \in SidebarViews, NEW forceOpen \in BOOLEAN
  PROVE  LET d == SwitchView(c, view, forceOpen) IN
         /\ d \in SideFields /\ Rest(c, d) /\ d.disabled = c.disabled
         /\ SameView(c, d) \/ Dispatched(c, d)
         /\ d.active = c.active \/ (d.active = view /\ view \notin c.disabled)
         /\ view = "THUMBS" => d.active = "THUMBS"
<1> DEFINE d == SwitchView(c, view, forceOpen)
           t == [c EXCEPT !.active = view]
           o == [t EXCEPT !.isOpen = TRUE]
           k == [c EXCEPT !.isOpen = FALSE]
<1>1. d = IF view = "NONE" THEN (IF c.isOpen THEN DispatchView(k) ELSE c)
          ELSE IF view \in c.disabled THEN c
          ELSE IF forceOpen /\ ~c.isOpen THEN OpenSide(t)
          ELSE IF view # c.active THEN DispatchView(t) ELSE t
  BY DEF SwitchView, CloseSide
<1> HIDE DEF d
<1>2. CASE d = c /\ (view = "NONE" \/ view \in c.disabled)
  <2>1. view # "THUMBS"
    BY <1>2, SideTypes, TreeNames
  <2>2. Rest(c, c) /\ SameView(c, c)
    BY DEF Rest, Frame, SameDocument, SameItems, SameTrees, SameButton, SameView
  <2> QED BY <1>2, <2>1, <2>2 DEF d
<1>3. CASE view = "NONE" /\ d = DispatchView(k)
  <2>0. k \in SideFields
    BY OpenFields
  <2>1. /\ k.active = c.active /\ k.disabled = c.disabled
        /\ k.eventSent = c.eventSent /\ k.sidebarSet = c.sidebarSet
    BY DEF SideFields
  <2>2. Rest(c, k)
    BY DEF SideFields, Rest, Frame, SameDocument, SameItems, SameTrees, SameButton
  <2> HIDE DEF k
  <2>3. /\ d \in SideFields /\ Rest(k, d) /\ d.disabled = k.disabled
        /\ d.active = k.active /\ Dispatched(k, d)
    BY <1>3, <2>0, DispatchViewFacts
  <2>4. Rest(c, d) /\ Dispatched(c, d)
    BY <2>1, <2>2, <2>3
       DEF Rest, Frame, SameDocument, SameItems, SameTrees, SameButton, Dispatched
  <2> QED BY <1>3, <2>1, <2>3, <2>4 DEF d
<1>4. CASE view # "NONE" /\ view \notin c.disabled
  <2>1. /\ t \in SideFields /\ t.active = view /\ t.disabled = c.disabled /\ t.isOpen = c.isOpen
        /\ t.eventSent = c.eventSent /\ t.sidebarSet = c.sidebarSet
        /\ t.told = c.told /\ t.stored = c.stored
    BY <1>4 DEF SideFields
  <2>2. Rest(c, t)
    BY DEF SideFields, Rest, Frame, SameDocument, SameItems, SameTrees, SameButton
  <2> HIDE DEF t
  <2>3. CASE d = t /\ view = c.active
    <3>1. SameView(c, d)
      BY <2>1, <2>3 DEF SameView
    <3> QED BY <1>4, <2>1, <2>2, <2>3, <3>1 DEF d
  <2>4. CASE d = DispatchView(t)
    <3>1. /\ d \in SideFields /\ Rest(t, d) /\ d.disabled = t.disabled
          /\ d.active = t.active /\ Dispatched(t, d)
      BY <2>1, <2>4, DispatchViewFacts
    <3>2. Rest(c, d) /\ Dispatched(c, d)
      BY <2>1, <2>2, <3>1
         DEF Rest, Frame, SameDocument, SameItems, SameTrees, SameButton, Dispatched
    <3> QED BY <1>4, <2>1, <3>1, <3>2 DEF d
  <2>5. CASE ~ c.isOpen /\ d = OpenSide(t)
    <3>1. d = DispatchView(o)
      BY <2>1, <2>5 DEF OpenSide
    <3>0. t \in SideFields
      BY <2>1
    <3>6. o \in SideFields
      BY <3>0, OpenFields
    <3>2. /\ o.active = t.active /\ o.disabled = t.disabled
          /\ o.eventSent = t.eventSent /\ o.sidebarSet = t.sidebarSet
      BY <3>0 DEF SideFields
    <3>3. Rest(t, o)
      BY <3>0 DEF SideFields, Rest, Frame, SameDocument, SameItems, SameTrees, SameButton
    <3> HIDE DEF o
    <3>4. /\ d \in SideFields /\ Rest(o, d) /\ d.disabled = o.disabled
          /\ d.active = o.active /\ Dispatched(o, d)
      BY <3>1, <3>6, DispatchViewFacts
    <3>5. Rest(c, d) /\ Dispatched(c, d)
      BY <2>1, <2>2, <3>2, <3>3, <3>4
         DEF Rest, Frame, SameDocument, SameItems, SameTrees, SameButton, Dispatched
    <3> QED BY <1>4, <2>1, <3>2, <3>4, <3>5 DEF d
  <2>6. \/ d = t /\ view = c.active
        \/ d = DispatchView(t)
        \/ ~ c.isOpen /\ d = OpenSide(t)
    BY <1>1, <1>4
  <2> QED BY <2>3, <2>4, <2>5, <2>6
<1>5. \/ d = c /\ (view = "NONE" \/ view \in c.disabled)
      \/ view = "NONE" /\ d = DispatchView(k)
      \/ view # "NONE" /\ view \notin c.disabled
  BY <1>1
<1> QED BY <1>2, <1>3, <1>4, <1>5

\* What has been told and stored remains so.
LEMMA StaysShown ==
  ASSUME NEW c \in SideFields, Shown(c), NEW d \in SideFields, SameDocument(c, d),
         d.sidebarSet = c.sidebarSet, SameView(c, d) \/ Dispatched(c, d),
         d.active \notin d.disabled
  PROVE  Shown(d)
<1>1. CASE SameView(c, d)
  BY <1>1 DEF Shown, SameDocument, SameView, VisibleView
<1>2. CASE Dispatched(c, d)
  BY <1>2 DEF Shown, SameDocument, Dispatched
<1> QED BY <1>1, <1>2

\* The first view is told at last.
LEMMA SetViewFacts ==
  ASSUME NEW c \in SideFields, Shown(c), c.initialSet, ~c.late => c.document # 0,
         NEW view \in {"UNKNOWN"} \cup SidebarViews
  PROVE  LET d == SetView(c, view) IN
         /\ d \in SideFields /\ Shown(d) /\ Frame(c, d) /\ SameButton(c, d)
         /\ d.sidebarSet /\ d.disabled = c.disabled
<1> DEFINE d == SetView(c, view)
           t == [c EXCEPT !.sidebarSet = TRUE]
           u == SwitchView(t, view, TRUE)
<1>1. CASE c.sidebarSet
  BY <1>1 DEF SetView, Frame, SameDocument, SameItems, SameTrees, SameButton
<1>2. CASE ~ c.sidebarSet
  <2>1. d = IF view \in {"NONE", "UNKNOWN"} THEN DispatchView(t)
            ELSE IF u.eventSent THEN u ELSE DispatchView(u)
    BY <1>2 DEF SetView
  <2>2. /\ t \in SideFields /\ t.sidebarSet /\ ~ t.eventSent /\ t.disabled = c.disabled
        /\ t.active = c.active
    BY <1>2, ZenonT(60) DEF SideFields, Shown
  <2>3. Frame(c, t) /\ SameButton(c, t)
    BY DEF SideFields, Frame, SameDocument, SameItems, SameTrees, SameButton
  <2> HIDE DEF t, u, d
  <2>4. /\ d \in SideFields /\ Rest(t, d) /\ d.disabled = t.disabled
        /\ Dispatched(t, d) /\ d.active \notin d.disabled
    <3>1. CASE d = DispatchView(t)
      BY <2>2, <3>1, DispatchViewFacts DEF Shown
    <3>2. CASE view \in SidebarViews /\ d = u /\ u.eventSent
      <4>1. /\ u \in SideFields /\ Rest(t, u) /\ u.disabled = t.disabled
            /\ SameView(t, u) \/ Dispatched(t, u)
            /\ u.active = t.active \/ (u.active = view /\ view \notin t.disabled)
        BY <2>2, <3>2, SwitchViewFacts DEF u
      <4> QED BY <2>2, <3>2, <4>1 DEF SameView, Shown
    <3>3. CASE view \in SidebarViews /\ d = DispatchView(u) /\ ~ u.eventSent
      <4>1. /\ u \in SideFields /\ Rest(t, u) /\ u.disabled = t.disabled
            /\ u.active = t.active \/ (u.active = view /\ view \notin t.disabled)
        BY <2>2, <3>3, SwitchViewFacts DEF u
      <4>2. /\ d \in SideFields /\ Rest(u, d) /\ d.disabled = u.disabled
            /\ d.active = u.active /\ Dispatched(u, d)
        BY <3>3, <4>1, DispatchViewFacts
      <4>3. Rest(t, d)
        BY <4>1, <4>2 DEF Rest, Frame, SameDocument, SameItems, SameTrees, SameButton
      <4>4. Dispatched(t, d)
        BY <2>2, <4>1, <4>2 DEF Rest, Dispatched
      <4> QED BY <2>2, <4>1, <4>2, <4>3, <4>4 DEF Shown
    <3> QED BY <2>1, <3>1, <3>2, <3>3
  <2>5. Frame(c, d) /\ SameButton(c, d) /\ d.sidebarSet
    BY <2>2, <2>3, <2>4 DEF Rest, Frame, SameDocument, SameItems, SameTrees, SameButton
  <2>6. Shown(d)
    BY <2>4, <2>5, <2>2 DEF Shown, Dispatched, Frame, SameDocument
  <2> QED BY <2>2, <2>4, <2>5, <2>6 DEF d
<1> QED BY <1>1, <1>2

\* The button of a tree tells whether there is something in it.
LEMMA TreeLoadedFacts ==
  ASSUME NEW c \in SideFields, Shown(c), NEW tree \in Trees, NEW count \in Nat
  PROVE  LET d == TreeLoaded(c, tree, count) IN
         /\ d \in SideFields /\ Shown(d) /\ Rest(c, d)
         /\ d.disabled = IF count > 0 THEN c.disabled \ {tree} ELSE c.disabled \cup {tree}
<1> DEFINE d == TreeLoaded(c, tree, count)
           off == IF count > 0 THEN c.disabled \ {tree} ELSE c.disabled \cup {tree}
           t == [c EXCEPT !.disabled = off]
<1>1. d = IF count = 0 /\ c.active = tree THEN SwitchView(t, "THUMBS", FALSE) ELSE t
  BY DEF TreeLoaded
<1>2. off \in SUBSET Trees
  BY SideTypes
<1>3. "THUMBS" \notin off /\ (~(count = 0 /\ c.active = tree) => c.active \notin off)
  BY <1>2, TreeNames DEF Shown
<1> HIDE DEF off
<1>4. t \in SideFields /\ t.disabled = off /\ SameView(c, t)
  BY <1>2 DEF SideFields, SameView
<1>5. Rest(c, t)
  BY DEF SideFields, Rest, Frame, SameDocument, SameItems, SameTrees, SameButton
<1> HIDE DEF t, d
<1>6. CASE ~(count = 0 /\ c.active = tree)
  <2>1. d = t /\ d.active \notin d.disabled
    BY <1>1, <1>3, <1>4, <1>6 DEF SameView
  <2>2. Shown(d)
    BY <1>4, <1>5, <2>1, StaysShown DEF Rest, Frame
  <2> QED BY <1>4, <1>5, <2>1, <2>2 DEF d, off
<1>7. CASE count = 0 /\ c.active = tree
  <2>1. /\ d \in SideFields /\ Rest(t, d) /\ d.disabled = t.disabled
        /\ SameView(t, d) \/ Dispatched(t, d)
        /\ d.active = "THUMBS"
    BY <1>1, <1>4, <1>7, TreeNames, SwitchViewFacts
  <2>2. Rest(c, d) /\ d.disabled = off /\ d.active = "THUMBS"
    BY <1>4, <1>5, <2>1 DEF Rest, Frame, SameDocument, SameItems, SameTrees, SameButton
  <2>3. SameView(c, d) \/ Dispatched(c, d)
    BY <1>4, <1>5, <2>1 DEF SameView, Dispatched, Rest
  <2>4. Shown(d)
    BY <1>3, <2>1, <2>2, <2>3, StaysShown DEF Rest, Frame
  <2> QED BY <2>1, <2>2, <2>4 DEF d, off
<1> QED BY <1>6, <1>7
----------------------------------------------------------------------------
(* PDFOutlineViewer                                                        *)

LEMMA SettleFacts ==
  ASSUME NEW c \in SideFields, NEW enabled \in BOOLEAN
  PROVE  LET d == SettleCurrentItem(c, enabled) IN
         /\ d \in SideFields /\ Frame(c, d) /\ SameView(c, d)
         /\ d.sidebarSet = c.sidebarSet /\ d.disabled = c.disabled
         /\ d.capability # "pending"
         /\ c.capability # "pending" => SameButton(c, d)
         /\ c.capability = "pending" =>
              (d.currentButton <=> IF c.sidebarSet THEN enabled ELSE c.currentButton)
<1> DEFINE d == SettleCurrentItem(c, enabled)
           b == IF c.sidebarSet THEN enabled ELSE c.currentButton
<1>1. CASE c.capability # "pending"
  BY <1>1 DEF SettleCurrentItem, Frame, SameDocument, SameItems, SameTrees, SameView, SameButton
<1>2. CASE c.capability = "pending"
  <2>1. d = [c EXCEPT !.capability = "settled", !.currentButton = b]
    BY <1>2 DEF SettleCurrentItem
  <2>2. b \in BOOLEAN
    BY SideTypes
  <2>3. d \in SideFields
    <3> HIDE DEF b, d
    <3> QED BY <2>1, <2>2, ZenonT(60) DEF SideFields
  <2>4. /\ Frame(c, d) /\ SameView(c, d) /\ d.sidebarSet = c.sidebarSet
        /\ d.disabled = c.disabled /\ d.capability = "settled"
    <3> HIDE DEF b, d
    <3> QED BY <2>1 DEF SideFields, Frame, SameDocument, SameItems, SameTrees, SameView
  <2>5. d.currentButton = b
    <3> HIDE DEF b, d
    <3> QED BY <2>1 DEF SideFields
  <2>6. d.currentButton <=> b
    <3> HIDE DEF b, d
    <3> QED BY <2>5
  <2> HIDE DEF d
  <2> QED BY <1>2, <2>3, <2>4, <2>6 DEF d
<1> QED BY <1>1, <1>2

LEMMA SettleKeepsGood ==
  ASSUME NEW c, GoodSide(c), NEW enabled \in BOOLEAN, enabled => c.loaded
  PROVE  GoodSide(SettleCurrentItem(c, enabled))
<1> DEFINE d == SettleCurrentItem(c, enabled)
<1>1. /\ d \in SideFields /\ Frame(c, d) /\ SameView(c, d)
      /\ d.sidebarSet = c.sidebarSet /\ d.disabled = c.disabled
      /\ d.capability # "pending"
      /\ c.capability # "pending" => SameButton(c, d)
      /\ c.capability = "pending" =>
           (d.currentButton <=> IF c.sidebarSet THEN enabled ELSE c.currentButton)
  BY SettleFacts DEF GoodSide
<1> HIDE DEF d
<1>2. Shown(d)
  BY <1>1, StaysShown DEF GoodSide, Shown, Frame, SameView
<1>3. Rooted(d) /\ OutlineFits(d) /\ FilesFit(d) /\ LayersFit(d)
  BY <1>1 DEF GoodSide, Rooted, OutlineFits, FilesFit, LayersFit,
              Frame, SameDocument, SameItems, SameTrees
<1>4. Itemized(d) /\ Requested(d)
  BY <1>1 DEF GoodSide, Itemized, Requested, Frame, SameDocument, SameItems
<1>5. d.currentButton => c.currentButton \/ (c.capability = "pending" /\ c.sidebarSet /\ c.loaded)
  BY <1>1 DEF SameButton
<1>6. d.items = c.items /\ d.loaded = c.loaded /\ (PagesThere(d) <=> PagesThere(c))
  BY <1>1 DEF Frame, SameDocument, SameItems, PagesThere
<1>7. Enabled(d)
  BY <1>1, <1>5, <1>6 DEF GoodSide, Enabled
<1>8. GoodSide(d)
  BY <1>1, <1>2, <1>3, <1>4, <1>7 DEF GoodSide
<1> QED BY <1>8 DEF d

\* The button of the outline, and that of its current item, once it is there.
LEMMA OutlineLoadedKeepsGood ==
  ASSUME NEW c \in SideFields, Shown(c), Rooted(c), FilesFit(c), LayersFit(c), Itemized(c),
         Requested(c), c.currentButton => c.sidebarSet,
         c.loaded \/ c.currentButton => PagesThere(c)
  PROVE  GoodSide(OutlineLoaded(c))
<1> DEFINE d == OutlineLoaded(c)
           p == [c EXCEPT !.capability = "pending"]
           n == Cardinality(c.items)
           t == TreeLoaded(p, "OUTLINE", n)
<1>1. n \in Nat /\ (n > 0 <=> c.items # {})
  <2>1. c.items \subseteq 1..SidebarPages /\ SidebarPages \in Nat
    BY SideTypes, SidebarAssumption DEF SidebarPageSet
  <2>2. IsFiniteSet(c.items)
    <3>1. IsFiniteSet(1..SidebarPages)
      BY <2>1, FS_Interval
    <3> QED BY <2>1, <3>1, FS_Subset
  <2>3. n \in Nat /\ (n = 0 <=> c.items = {})
    BY <2>2, FS_CardinalityType, FS_EmptySet
  <2> HIDE DEF n
  <2> QED BY <2>3
<1>2. d = IF c.items = {} THEN SettleCurrentItem(t, FALSE)
          ELSE IF c.loaded THEN SettleCurrentItem(t, TRUE) ELSE t
  BY DEF OutlineLoaded
<1> HIDE DEF n, d
<1>3. p \in SideFields /\ SameView(c, p) /\ p.sidebarSet = c.sidebarSet /\ p.disabled = c.disabled
  BY DEF SideFields, SameView
<1>4. Frame(c, p) /\ p.capability = "pending" /\ p.currentButton = c.currentButton
  BY DEF SideFields, Frame, SameDocument, SameItems, SameTrees
<1> HIDE DEF p
<1>5. Shown(p)
  BY <1>3, <1>4, StaysShown DEF Frame, SameView, Shown
<1>6. /\ t \in SideFields /\ Shown(t) /\ Rest(p, t)
      /\ t.disabled = IF n > 0 THEN p.disabled \ {"OUTLINE"} ELSE p.disabled \cup {"OUTLINE"}
  BY <1>1, <1>3, <1>5, TreeNames, TreeLoadedFacts
<1> HIDE DEF t
<1>7. /\ Frame(c, t) /\ t.capability = "pending" /\ t.currentButton = c.currentButton
      /\ t.sidebarSet = c.sidebarSet
  BY <1>3, <1>4, <1>6 DEF Rest, Frame, SameDocument, SameItems, SameTrees, SameButton
<1>8. /\ Rooted(t) /\ Itemized(t) /\ Requested(t) /\ t.items = c.items /\ t.loaded = c.loaded
      /\ PagesThere(t) <=> PagesThere(c)
  BY <1>7 DEF Rooted, Itemized, Requested, PagesThere, Frame, SameDocument, SameItems, SameTrees
<1>9. OutlineFits(t) /\ FilesFit(t) /\ LayersFit(t)
  <2>1. /\ "OUTLINE" \in t.disabled <=> c.items = {}
        /\ "ATTACHMENTS" \in t.disabled <=> "ATTACHMENTS" \in c.disabled
        /\ "LAYERS" \in t.disabled <=> "LAYERS" \in c.disabled
    BY <1>1, <1>3, <1>6
  <2> QED BY <1>7, <1>8, <2>1 DEF OutlineFits, FilesFit, LayersFit, Frame, SameTrees
<1>10. CASE c.items = {} \/ c.loaded
  <2> DEFINE yes == c.items # {}
  <2>1. d = SettleCurrentItem(t, yes)
    <3>1. CASE c.items = {}
      <4>1. yes = FALSE
        BY <3>1
      <4> QED BY <1>2, <3>1, <4>1
    <3>2. CASE c.items # {}
      <4>1. yes = TRUE
        BY <3>2
      <4> QED BY <1>2, <1>10, <3>2, <4>1
    <3> QED BY <3>1, <3>2
  <2>2. yes \in BOOLEAN /\ (yes <=> c.items # {})
    OBVIOUS
  <2> HIDE DEF yes
  <2>3. /\ d \in SideFields /\ Frame(t, d) /\ SameView(t, d)
        /\ d.sidebarSet = t.sidebarSet /\ d.disabled = t.disabled
        /\ d.capability # "pending"
        /\ d.currentButton <=> IF t.sidebarSet THEN yes ELSE t.currentButton
    BY <1>6, <1>7, <2>1, <2>2, SettleFacts
  <2>4. Shown(d)
    BY <1>6, <2>3, StaysShown DEF Shown, Frame, SameView
  <2>5. Rooted(d) /\ OutlineFits(d) /\ FilesFit(d) /\ LayersFit(d)
    BY <1>8, <1>9, <2>3 DEF Rooted, OutlineFits, FilesFit, LayersFit,
                            Frame, SameDocument, SameItems, SameTrees
  <2>6. Itemized(d) /\ Requested(d)
    BY <1>8, <2>3 DEF Itemized, Requested, Frame, SameDocument, SameItems
  <2>7. d.items = c.items /\ d.loaded = c.loaded /\ (PagesThere(d) <=> PagesThere(c))
    BY <1>8, <2>3 DEF Frame, SameDocument, SameItems, PagesThere
  <2>8. d.currentButton => c.items # {} /\ c.sidebarSet
    BY <1>7, <2>2, <2>3
  <2>9. Enabled(d)
    BY <1>7, <1>10, <2>3, <2>7, <2>8 DEF Enabled
  <2> QED BY <2>3, <2>4, <2>5, <2>6, <2>9 DEF GoodSide, d
<1>11. CASE ~ (c.items = {} \/ c.loaded)
  <2>1. d = t
    BY <1>2, <1>11
  <2>2. Enabled(t)
    BY <1>7, <1>8, <1>11 DEF Enabled
  <2> QED BY <1>6, <1>8, <1>9, <2>1, <2>2 DEF GoodSide, d
<1> QED BY <1>10, <1>11

\* Any item of the outline may be marked; nothing else looks at hash and page.
LEMMA MarkingKeepsGood ==
  ASSUME NEW c, GoodSide(c), NEW d \in SideFields, SameDocument(c, d), SameView(c, d),
         SameTrees(c, d), SameButton(c, d), d.sidebarSet = c.sidebarSet,
         d.disabled = c.disabled, d.items = c.items, d.hashOf \in {0, c.document},
         d.item # 0 => d.item \in c.items
  PROVE  GoodSide(d)
<1>1. Shown(d)
  BY StaysShown DEF GoodSide, Shown, SameView
<1>2. Rooted(d) /\ OutlineFits(d) /\ FilesFit(d) /\ LayersFit(d)
  BY DEF GoodSide, Rooted, OutlineFits, FilesFit, LayersFit, SameDocument, SameTrees
<1>3. Itemized(d) /\ Enabled(d) /\ Requested(d)
  BY DEF GoodSide, Itemized, Enabled, PagesThere, Requested, SameDocument, SameButton
<1> QED BY <1>1, <1>2, <1>3 DEF GoodSide

\* A set of numbers has a least one.
LEMMA LeastOf ==
  ASSUME NEW S \in SUBSET Nat, S # {}
  PROVE  \E m \in S : \A q \in S : m <= q
<1> DEFINE R == {ss \in Nat \X Nat : ss[1] < ss[2]}
<1>1. IsWellFoundedOn(R, Nat)
  BY NatLessThanWellFounded DEF OpToRel
<1>2. PICK m \in S : \A y \in S : ~ (<<y, m>> \in R)
  <2> HIDE DEF R
  <2> QED BY <1>1, WFMin
<1>3. ASSUME NEW q \in S PROVE m <= q
  <2>1. ~ (q < m) /\ q \in Nat /\ m \in Nat
    BY <1>2
  <2> QED BY <2>1
<1> QED BY <1>3

LEMMA MaxIsThere ==
  ASSUME NEW S \in SUBSET SidebarPageSet, S # {}
  PROVE  Max(S) \in S
<1> DEFINE T == {SidebarPages - x : x \in S}
<1>1. SidebarPages \in Nat /\ SidebarPageSet = 1..SidebarPages
  BY SidebarAssumption DEF SidebarPageSet
<1>2. T \in SUBSET Nat /\ T # {}
  <2>1. \A x \in S : x \in 1..SidebarPages /\ SidebarPages - x \in Nat
    BY <1>1
  <2> QED BY <2>1
<1>3. PICK m \in T : \A q \in T : m <= q
  <2> HIDE DEF T
  <2> QED BY <1>2, LeastOf
<1>4. PICK x \in S : m = SidebarPages - x
  BY <1>3
<1>5. ASSUME NEW y \in S PROVE x >= y
  <2>1. m <= SidebarPages - y
    BY <1>3
  <2>2. x \in 1..SidebarPages /\ y \in 1..SidebarPages
    BY <1>1
  <2> HIDE DEF T
  <2> QED BY <1>1, <1>4, <2>1, <2>2
<1> QED BY <1>4, <1>5 DEF Max

LEMMA ShowCurrentItemKeepsGood ==
  ASSUME NEW c, GoodSide(c)
  PROVE  GoodSide(ShowCurrentItem(c))
<1> DEFINE before == {p \in c.items : p <= c.page}
           i == IF c.told = "OUTLINE" /\ before # {} THEN Max(before) ELSE 0
           d == [c EXCEPT !.item = i]
<1>0. c \in SideFields
  BY DEF GoodSide
<1>1. i \in 0..SidebarPages /\ (i # 0 => i \in c.items)
  <2>1. /\ before \in SUBSET SidebarPageSet /\ before \subseteq c.items
        /\ SidebarPages \in Nat /\ SidebarPageSet = 1..SidebarPages
    BY <1>0, SideTypes, SidebarAssumption DEF SidebarPageSet
  <2> HIDE DEF before
  <2>2. before # {} => Max(before) \in before
    BY <2>1, MaxIsThere
  <2>3. CASE c.told = "OUTLINE" /\ before # {}
    <3>1. i = Max(before) /\ i \in before
      BY <2>2, <2>3
    <3> HIDE DEF i
    <3> QED BY <2>1, <3>1
  <2>4. CASE ~ (c.told = "OUTLINE" /\ before # {})
    BY <2>1, <2>4
  <2> QED BY <2>3, <2>4
<1>2. ShowCurrentItem(c) = IF c.items = {} THEN c ELSE d
  BY DEF ShowCurrentItem
<1> HIDE DEF i, before
<1>3. d \in SideFields
  BY <1>0, <1>1 DEF SideFields
<1>4. /\ SameDocument(c, d) /\ SameView(c, d) /\ SameTrees(c, d) /\ SameButton(c, d)
      /\ d.sidebarSet = c.sidebarSet /\ d.disabled = c.disabled /\ d.items = c.items
      /\ d.hashOf = c.hashOf /\ d.item = i
  BY <1>0 DEF SideFields, SameDocument, SameView, SameTrees, SameButton
<1> HIDE DEF d
<1>5. d.hashOf \in {0, c.document}
  BY <1>4 DEF GoodSide, Itemized
<1>6. GoodSide(d)
  BY <1>1, <1>3, <1>4, <1>5, MarkingKeepsGood
<1> QED BY <1>2, <1>6

----------------------------------------------------------------------------
(* PDFAttachmentViewer and PDFLayerViewer                                  *)

LEMMA FilesLoadedKeepsGood ==
  ASSUME NEW c \in SideFields, Shown(c), Rooted(c), OutlineFits(c), LayersFit(c),
         Itemized(c), Enabled(c), Requested(c)
  PROVE  LET d == FilesLoaded(c) IN GoodSide(d) /\ d.files = c.files
<1> DEFINE d == FilesLoaded(c)
           w == c.waits \cup {c.document}
           p == [c EXCEPT !.rendered = TRUE, !.pendingEvent = TRUE, !.waits = w]
           t == [c EXCEPT !.rendered = TRUE, !.pendingEvent = FALSE]
           n == Cardinality(c.files)
<1>1. n \in Nat /\ (n > 0 <=> c.files # {})
  <2>1. c.files \subseteq FileNames /\ IsFiniteSet(FileNames)
    BY SideTypes, SidebarAssumption
  <2>2. IsFiniteSet(c.files)
    BY <2>1, FS_Subset
  <2>3. n \in Nat /\ (n = 0 <=> c.files = {})
    BY <2>2, FS_CardinalityType, FS_EmptySet
  <2> HIDE DEF n
  <2> QED BY <2>3
<1>2. d = IF c.files = {} /\ ~c.pendingEvent THEN p ELSE TreeLoaded(t, "ATTACHMENTS", n)
  BY DEF FilesLoaded
<1>3. w \in SUBSET Numbers
  BY SideTypes
<1> HIDE DEF n, w, d
<1>4. CASE c.files = {} /\ ~c.pendingEvent
  <2>1. p \in SideFields
    BY <1>3, ZenonT(60) DEF SideFields
  <2>2. /\ SameDocument(c, p) /\ SameView(c, p) /\ SameItems(c, p) /\ SameButton(c, p)
        /\ p.sidebarSet = c.sidebarSet /\ p.disabled = c.disabled
        /\ p.treeOf = c.treeOf /\ p.files = c.files /\ p.pendingEvent = TRUE
        /\ p.config = c.config /\ p.boxes = c.boxes
    BY DEF SideFields, SameDocument, SameView, SameItems, SameButton
  <2> HIDE DEF p
  <2>3. Shown(p)
    BY <2>1, <2>2, StaysShown DEF Shown, SameView
  <2>4. Rooted(p) /\ OutlineFits(p) /\ FilesFit(p) /\ LayersFit(p)
    BY <1>4, <2>2 DEF Rooted, OutlineFits, FilesFit, LayersFit, SameDocument, SameItems
  <2>5. Itemized(p) /\ Enabled(p) /\ Requested(p)
    BY <2>2 DEF Itemized, Enabled, PagesThere, Requested, SameDocument, SameItems, SameButton
  <2>6. d = p
    BY <1>2, <1>4
  <2> QED BY <2>1, <2>2, <2>3, <2>4, <2>5, <2>6 DEF GoodSide, d
<1>5. CASE ~ (c.files = {} /\ ~c.pendingEvent)
  <2>1. t \in SideFields
    BY ZenonT(60) DEF SideFields
  <2>2. /\ SameDocument(c, t) /\ SameView(c, t) /\ SameItems(c, t) /\ SameButton(c, t)
        /\ t.sidebarSet = c.sidebarSet /\ t.disabled = c.disabled
        /\ t.treeOf = c.treeOf /\ t.files = c.files /\ t.pendingEvent = FALSE
        /\ t.config = c.config /\ t.boxes = c.boxes
    BY DEF SideFields, SameDocument, SameView, SameItems, SameButton
  <2> HIDE DEF t
  <2>3. Shown(t)
    BY <2>1, <2>2, StaysShown DEF Shown, SameView
  <2>4. /\ d \in SideFields /\ Shown(d) /\ Rest(t, d)
        /\ d.disabled = IF n > 0 THEN t.disabled \ {"ATTACHMENTS"}
                        ELSE t.disabled \cup {"ATTACHMENTS"}
    BY <1>1, <1>2, <1>5, <2>1, <2>3, TreeNames, TreeLoadedFacts
  <2>5. /\ "ATTACHMENTS" \in d.disabled <=> c.files = {}
        /\ "OUTLINE" \in d.disabled <=> "OUTLINE" \in c.disabled
        /\ "LAYERS" \in d.disabled <=> "LAYERS" \in c.disabled
    BY <1>1, <2>2, <2>4
  <2>6. /\ SameDocument(c, d) /\ SameItems(c, d) /\ SameButton(c, d)
        /\ d.sidebarSet = c.sidebarSet
        /\ d.treeOf = c.treeOf /\ d.files = c.files /\ d.pendingEvent = FALSE
        /\ d.config = c.config /\ d.boxes = c.boxes
    BY <2>2, <2>4 DEF Rest, Frame, SameDocument, SameItems, SameButton, SameTrees
  <2>7. Rooted(d) /\ OutlineFits(d) /\ FilesFit(d) /\ LayersFit(d)
    BY <2>5, <2>6 DEF Rooted, OutlineFits, FilesFit, LayersFit, SameDocument, SameItems
  <2>8. Itemized(d) /\ Enabled(d) /\ Requested(d)
    BY <2>6 DEF Itemized, Enabled, PagesThere, Requested, SameDocument, SameItems, SameButton
  <2> QED BY <2>4, <2>6, <2>7, <2>8 DEF GoodSide, d
<1> QED BY <1>4, <1>5

\* The files of c are replaced: what stands of GoodSide without the attachments.
LEMMA OtherFiles ==
  ASSUME NEW c \in SideFields, Shown(c), Rooted(c), OutlineFits(c), LayersFit(c),
         Itemized(c), Enabled(c), Requested(c),
         NEW files \in SUBSET FileNames, NEW queue \in SUBSET FileNames
  PROVE  LET d == [c EXCEPT !.files = files, !.queue = queue] IN
         /\ d \in SideFields /\ Shown(d) /\ Rooted(d) /\ OutlineFits(d) /\ LayersFit(d)
         /\ Itemized(d) /\ Enabled(d) /\ Requested(d) /\ d.queue = queue
<1> DEFINE d == [c EXCEPT !.files = files, !.queue = queue]
<1>1. d \in SideFields /\ d.queue = queue
  BY ZenonT(60) DEF SideFields
<1>2. /\ SameDocument(c, d) /\ SameView(c, d) /\ SameItems(c, d) /\ SameButton(c, d)
      /\ d.sidebarSet = c.sidebarSet /\ d.disabled = c.disabled
      /\ d.treeOf = c.treeOf /\ d.config = c.config /\ d.boxes = c.boxes
  BY DEF SideFields, SameDocument, SameView, SameItems, SameButton
<1> HIDE DEF d
<1>3. Shown(d)
  BY <1>1, <1>2, StaysShown DEF Shown, SameView
<1>4. Rooted(d) /\ OutlineFits(d) /\ LayersFit(d)
  BY <1>2 DEF Rooted, OutlineFits, LayersFit, SameDocument, SameItems
<1>5. Itemized(d) /\ Enabled(d) /\ Requested(d)
  BY <1>2 DEF Itemized, Enabled, PagesThere, Requested, SameDocument, SameItems, SameButton
<1> QED BY <1>1, <1>3, <1>4, <1>5 DEF d

LEMMA AppendFilesKeepsGood ==
  ASSUME NEW c, GoodSide(c), NEW names \in SUBSET FileNames
  PROVE  GoodSide(AppendFiles(c, names))
<1>1. CASE names \subseteq c.files
  BY <1>1 DEF AppendFiles
<1>2. CASE ~ (names \subseteq c.files)
  <2> DEFINE f == c.files \cup names
             q == c.queue
             e == [c EXCEPT !.files = f, !.queue = q]
  <2>0. c \in SideFields
    BY DEF GoodSide
  <2>1. f \in SUBSET FileNames /\ q \in SUBSET FileNames
    BY <2>0, SideTypes
  <2>2. AppendFiles(c, names) = FilesLoaded(e)
    <3>1. [c EXCEPT !.files = f] = e
      BY <2>0 DEF SideFields
    <3> QED BY <1>2, <3>1 DEF AppendFiles
  <2> HIDE DEF f, q
  <2>3. /\ e \in SideFields /\ Shown(e) /\ Rooted(e) /\ OutlineFits(e) /\ LayersFit(e)
        /\ Itemized(e) /\ Enabled(e) /\ Requested(e)
    BY <2>0, <2>1, OtherFiles DEF GoodSide
  <2> HIDE DEF e
  <2> QED BY <2>2, <2>3, FilesLoadedKeepsGood
<1> QED BY <1>1, <1>2

LEMMA RenderLayersKeepsGood ==
  ASSUME NEW c \in SideFields, Shown(c), Rooted(c), OutlineFits(c), FilesFit(c),
         Itemized(c), Enabled(c), Requested(c)
  PROVE  GoodSide(RenderLayers(c))
<1> DEFINE d == RenderLayers(c)
           t == [c EXCEPT !.boxes = c.config]
           n == Cardinality(Layers)
<1>1. n \in Nat /\ (n > 0 <=> Layers # {})
  <2>1. n \in Nat /\ (n = 0 <=> Layers = {})
    BY SidebarAssumption, FS_CardinalityType, FS_EmptySet
  <2> HIDE DEF n
  <2> QED BY <2>1
<1>2. d = TreeLoaded(t, "LAYERS", n)
  BY DEF RenderLayers
<1> HIDE DEF n, d
<1>3. t \in SideFields
  BY SideTypes DEF SideFields
<1>4. /\ SameDocument(c, t) /\ SameView(c, t) /\ SameItems(c, t) /\ SameButton(c, t)
      /\ t.sidebarSet = c.sidebarSet /\ t.disabled = c.disabled
      /\ t.treeOf = c.treeOf /\ t.files = c.files /\ t.pendingEvent = c.pendingEvent
      /\ t.config = c.config /\ t.boxes = c.config
  BY DEF SideFields, SameDocument, SameView, SameItems, SameButton
<1> HIDE DEF t
<1>5. Shown(t)
  BY <1>3, <1>4, StaysShown DEF Shown, SameView
<1>6. /\ d \in SideFields /\ Shown(d) /\ Rest(t, d)
      /\ d.disabled = IF n > 0 THEN t.disabled \ {"LAYERS"} ELSE t.disabled \cup {"LAYERS"}
  BY <1>1, <1>2, <1>3, <1>5, TreeNames, TreeLoadedFacts
<1>7. /\ "LAYERS" \in d.disabled <=> Layers = {}
      /\ "OUTLINE" \in d.disabled <=> "OUTLINE" \in c.disabled
      /\ "ATTACHMENTS" \in d.disabled <=> "ATTACHMENTS" \in c.disabled
  BY <1>1, <1>4, <1>6
<1>8. /\ SameDocument(c, d) /\ SameItems(c, d) /\ SameButton(c, d)
      /\ d.sidebarSet = c.sidebarSet
      /\ d.treeOf = c.treeOf /\ d.files = c.files /\ d.pendingEvent = c.pendingEvent
      /\ d.config = c.config /\ d.boxes = c.config
  BY <1>4, <1>6 DEF Rest, Frame, SameDocument, SameItems, SameButton, SameTrees
<1>9. Rooted(d) /\ OutlineFits(d) /\ FilesFit(d) /\ LayersFit(d)
  BY <1>7, <1>8 DEF Rooted, OutlineFits, FilesFit, LayersFit, SameDocument, SameItems
<1>10. Itemized(d) /\ Enabled(d) /\ Requested(d)
  BY <1>8 DEF Itemized, Enabled, PagesThere, Requested, SameDocument, SameItems, SameButton
<1>11. GoodSide(d)
  BY <1>6, <1>9, <1>10 DEF GoodSide
<1> QED BY <1>11 DEF d

LEMMA ShowLayersKeepsGood ==
  ASSUME NEW c, GoodSide(c), NEW config \in SUBSET Layers
  PROVE  GoodSide(ShowLayers(c, config))
<1> DEFINE d == ShowLayers(c, config)
           b == IF c.treeOf["LAYERS"] = 0 THEN c.boxes ELSE config
<1>0. c \in SideFields
  BY DEF GoodSide
<1>1. d = [c EXCEPT !.config = config, !.boxes = b] /\ b \in SUBSET Layers
  BY <1>0, SideTypes DEF ShowLayers
<1>2. c.treeOf["LAYERS"] # 0 => b = config
  OBVIOUS
<1> HIDE DEF b, d
<1>3. d \in SideFields
  BY <1>0, <1>1, ZenonT(60) DEF SideFields
<1>4. /\ SameDocument(c, d) /\ SameView(c, d) /\ SameItems(c, d) /\ SameButton(c, d)
      /\ d.sidebarSet = c.sidebarSet /\ d.disabled = c.disabled
      /\ d.treeOf = c.treeOf /\ d.files = c.files /\ d.pendingEvent = c.pendingEvent
      /\ d.config = config /\ d.boxes = b
  BY <1>0, <1>1 DEF SideFields, SameDocument, SameView, SameItems, SameButton
<1>5. Shown(d)
  BY <1>0, <1>3, <1>4, StaysShown DEF GoodSide, Shown, SameView
<1>6. Rooted(d) /\ OutlineFits(d) /\ FilesFit(d) /\ LayersFit(d)
  BY <1>2, <1>4 DEF GoodSide, Rooted, OutlineFits, FilesFit, LayersFit, SameDocument, SameItems
<1>7. Itemized(d) /\ Enabled(d) /\ Requested(d)
  BY <1>4 DEF GoodSide, Itemized, Enabled, PagesThere, Requested, SameDocument, SameItems, SameButton
<1>8. GoodSide(d)
  BY <1>3, <1>5, <1>6, <1>7 DEF GoodSide
<1> QED BY <1>8 DEF d

----------------------------------------------------------------------------
(* The trees are reset                                                     *)

LEMMA ClosedFields ==
  ASSUME NEW c \in SideFields, NEW was \in Numbers, NEW none \in Numbers
  PROVE  [c EXCEPT !.closing = was, !.document = none, !.initialSet = FALSE, !.early = FALSE]
           \in SideFields
<1> DEFINE a == [c EXCEPT !.closing = was, !.document = none]
           b == [a EXCEPT !.initialSet = FALSE, !.early = FALSE]
<1>1. a \in SideFields
  BY ZenonT(60) DEF SideFields
<1>2. b \in SideFields
  <2> HIDE DEF a
  <2> QED BY <1>1, ZenonT(150) DEF SideFields
<1>3. [c EXCEPT !.closing = was, !.document = none, !.initialSet = FALSE, !.early = FALSE] = b
  OBVIOUS
<1> QED BY <1>2, <1>3

LEMMA NoOutlineFields ==
  ASSUME NEW c \in SideFields, NEW tr \in [Trees -> Numbers], NEW none \in Numbers,
         NEW item \in 0..SidebarPages, NEW page \in SidebarPageSet
  PROVE  [c EXCEPT !.treeOf = tr, !.items = {}, !.item = item, !.hash = "none", !.hashOf = none,
                   !.page = page, !.loaded = FALSE, !.capability = "none"] \in SideFields
<1> DEFINE a == [c EXCEPT !.treeOf = tr, !.items = {}]
           b == [a EXCEPT !.item = item, !.hash = "none"]
           d == [b EXCEPT !.hashOf = none, !.page = page]
           e == [d EXCEPT !.loaded = FALSE, !.capability = "none"]
<1>1. a \in SideFields
  BY ZenonT(60) DEF SideFields
<1>2. b \in SideFields
  <2> HIDE DEF a
  <2> QED BY <1>1, ZenonT(150) DEF SideFields
<1>3. d \in SideFields
  <2> HIDE DEF b
  <2> QED BY <1>2, ZenonT(150) DEF SideFields
<1>4. e \in SideFields
  <2> HIDE DEF d
  <2> QED BY <1>3, ZenonT(150) DEF SideFields
<1>5. [c EXCEPT !.treeOf = tr, !.items = {}, !.item = item, !.hash = "none", !.hashOf = none,
                !.page = page, !.loaded = FALSE, !.capability = "none"] = e
  OBVIOUS
<1> QED BY <1>4, <1>5

LEMMA NoFilesFields ==
  ASSUME NEW c \in SideFields, NEW tr \in [Trees -> Numbers]
  PROVE  [c EXCEPT !.treeOf = tr, !.files = {}, !.queue = {}, !.rendered = FALSE,
                   !.pendingEvent = FALSE] \in SideFields
<1> DEFINE a == [c EXCEPT !.treeOf = tr, !.files = {}]
           b == [a EXCEPT !.queue = {}, !.rendered = FALSE]
           d == [b EXCEPT !.pendingEvent = FALSE]
<1>1. a \in SideFields
  BY ZenonT(60) DEF SideFields
<1>2. b \in SideFields
  <2> HIDE DEF a
  <2> QED BY <1>1, ZenonT(150) DEF SideFields
<1>3. d \in SideFields
  <2> HIDE DEF b
  <2> QED BY <1>2, ZenonT(150) DEF SideFields
<1>4. [c EXCEPT !.treeOf = tr, !.files = {}, !.queue = {}, !.rendered = FALSE,
                !.pendingEvent = FALSE] = d
  OBVIOUS
<1> QED BY <1>3, <1>4

\* The types of what is reset.
LEMMA ResetTypes ==
  ASSUME NEW c \in SideFields
  PROVE  /\ [c EXCEPT !.sidebarSet = FALSE, !.eventSent = FALSE] \in SideFields
         /\ [c EXCEPT !.disabled = {}, !.currentButton = FALSE] \in SideFields
         /\ \A tr \in [Trees -> Numbers] :
              /\ [c EXCEPT !.treeOf = tr, !.items = {}, !.item = 0, !.hash = "none",
                           !.hashOf = 0, !.page = 1, !.loaded = FALSE, !.capability = "none"]
                   \in SideFields
              /\ [c EXCEPT !.treeOf = tr, !.boxes = {}] \in SideFields
<1>1. [c EXCEPT !.sidebarSet = FALSE, !.eventSent = FALSE] \in SideFields
  BY ZenonT(60) DEF SideFields
<1>2. [c EXCEPT !.disabled = {}, !.currentButton = FALSE] \in SideFields
  BY ZenonT(60) DEF SideFields
<1>3. ASSUME NEW tr \in [Trees -> Numbers]
      PROVE  [c EXCEPT !.treeOf = tr, !.items = {}, !.item = 0, !.hash = "none",
                       !.hashOf = 0, !.page = 1, !.loaded = FALSE, !.capability = "none"]
               \in SideFields
  <2>1. 0 \in Numbers /\ 0 \in 0..SidebarPages /\ 1 \in SidebarPageSet
    BY TreeNames, SidebarAssumption DEF SidebarPageSet
  <2> QED BY <2>1, NoOutlineFields
<1>4. ASSUME NEW tr \in [Trees -> Numbers]
      PROVE  [c EXCEPT !.treeOf = tr, !.boxes = {}] \in SideFields
  BY ZenonT(60) DEF SideFields
<1> QED BY <1>1, <1>2, <1>3, <1>4

LEMMA ResetSideFacts ==
  ASSUME NEW c \in SideFields, c.told = VisibleView(c)
  PROVE  LET d == ResetSide(c) IN
         /\ d \in SideFields /\ Frame(c, d) /\ d.capability = c.capability
         /\ d.told = VisibleView(d) /\ d.disabled = {}
         /\ ~d.sidebarSet /\ ~d.eventSent /\ ~d.currentButton
<1> DEFINE d == ResetSide(c)
           b == [c EXCEPT !.sidebarSet = FALSE, !.eventSent = FALSE]
           t == SwitchView(b, "THUMBS", FALSE)
<1>1. d = [t EXCEPT !.disabled = {}, !.currentButton = FALSE]
  BY DEF ResetSide
<1>0. b \in SideFields
  BY ResetTypes, Zenon
<1>2. /\ b \in SideFields /\ Frame(c, b) /\ b.capability = c.capability
      /\ ~b.sidebarSet /\ ~b.eventSent
      /\ b.told = c.told /\ b.isOpen = c.isOpen /\ b.active = c.active
  BY <1>0 DEF SideFields, Frame, SameDocument, SameItems, SameTrees
<1> HIDE DEF b, d
<1>3. t \in SideFields /\ Rest(b, t) /\ (SameView(b, t) \/ Dispatched(b, t))
  BY <1>2, TreeNames, SwitchViewFacts
<1> HIDE DEF t
<1>4. t.told = VisibleView(t) /\ ~t.eventSent /\ ~t.sidebarSet
  BY <1>2, <1>3 DEF SameView, Dispatched, VisibleView, Rest
<1>5. d \in SideFields
  BY <1>1, <1>3, ResetTypes, Zenon
<1>6. /\ Frame(t, d) /\ SameView(t, d) /\ d.capability = t.capability
      /\ d.sidebarSet = t.sidebarSet /\ d.disabled = {} /\ ~d.currentButton
  BY <1>1, <1>3 DEF SideFields, Frame, SameDocument, SameItems, SameTrees, SameView
<1>7. Frame(c, d) /\ d.capability = c.capability
  BY <1>2, <1>3, <1>6 DEF Rest, Frame, SameDocument, SameItems, SameTrees, SameButton
<1>8. d.told = VisibleView(d) /\ ~d.eventSent /\ ~d.sidebarSet
  BY <1>4, <1>6 DEF SameView, VisibleView
<1> QED BY <1>5, <1>6, <1>7, <1>8 DEF d

LEMMA ResetOutlineFacts ==
  ASSUME NEW c \in SideFields, ~c.sidebarSet, ~c.currentButton
  PROVE  LET d == ResetOutline(c) IN
         /\ d \in SideFields /\ SameView(c, d) /\ d.disabled = c.disabled
         /\ d.opened = c.opened /\ d.document = c.document /\ d.asked = c.asked
         /\ d.items = {} /\ d.item = 0 /\ d.hashOf = 0 /\ ~d.loaded /\ d.capability = "none"
         /\ ~d.currentButton /\ ~d.sidebarSet
         /\ d.treeOf = [c.treeOf EXCEPT !["OUTLINE"] = 0]
<1> DEFINE d == ResetOutline(c)
           s == SettleCurrentItem(c, FALSE)
           tr == [s.treeOf EXCEPT !["OUTLINE"] = 0]
<1>1. d = [s EXCEPT !.treeOf = tr, !.items = {}, !.item = 0, !.hash = "none", !.hashOf = 0,
                    !.page = 1, !.loaded = FALSE, !.capability = "none"]
  BY DEF ResetOutline
<1>2. /\ s \in SideFields /\ Frame(c, s) /\ SameView(c, s)
      /\ s.sidebarSet = c.sidebarSet /\ s.disabled = c.disabled /\ ~s.currentButton
  <2> DEFINE no == FALSE
  <2>1. no \in BOOLEAN /\ ~no
    OBVIOUS
  <2>2. s = SettleCurrentItem(c, no)
    OBVIOUS
  <2> HIDE DEF s, no
  <2> QED BY <2>1, <2>2, SettleFacts DEF SameButton
<1> HIDE DEF s, d
<1>3. tr \in [Trees -> Numbers]
  BY <1>2, SideTypes, TreeNames
<1>4. tr = [c.treeOf EXCEPT !["OUTLINE"] = 0]
  BY <1>2, Zenon DEF Frame, SameTrees
<1> HIDE DEF tr
<1>5. d \in SideFields
  BY <1>1, <1>2, <1>3, ResetTypes, Zenon
<1>6. /\ SameView(s, d) /\ d.disabled = s.disabled
      /\ d.opened = s.opened /\ d.document = s.document /\ d.asked = s.asked
      /\ d.items = {} /\ d.item = 0 /\ d.hashOf = 0 /\ ~d.loaded /\ d.capability = "none"
      /\ d.currentButton = s.currentButton /\ d.sidebarSet = s.sidebarSet /\ d.treeOf = tr
  BY <1>1, <1>2 DEF SideFields, SameView
<1>7. SameView(c, d)
  BY <1>2, <1>6 DEF SameView
<1> QED BY <1>2, <1>4, <1>5, <1>6, <1>7 DEF d, Frame, SameDocument

LEMMA UnloadDocumentKeepsGood ==
  ASSUME GoodSide(side), UnloadDocument
  PROVE  GoodSide(side')
<1> DEFINE c == [side EXCEPT !.closing = side.document, !.document = 0,
                             !.initialSet = FALSE, !.early = FALSE]
           r == ResetSide(c)
           o == ResetOutline(r)
           f == ResetFiles(o)
           d == ResetLayers(f)
<1>1. side' = d
  BY DEF UnloadDocument, ResetTrees
<1>2. /\ c \in SideFields /\ c.told = side.told /\ c.isOpen = side.isOpen
      /\ c.active = side.active /\ c.opened = side.opened /\ c.document = 0
      /\ c.asked = side.asked
  <2> DEFINE was == side.document
             b == [side EXCEPT !.closing = was, !.document = 0, !.initialSet = FALSE,
                               !.early = FALSE]
  <2>1. side \in SideFields /\ was \in Numbers /\ 0 \in Numbers
    BY SideTypes, TreeNames DEF GoodSide
  <2>2. c = b
    OBVIOUS
  <2> HIDE DEF was, c
  <2>3. b \in SideFields
    BY <2>1, ClosedFields
  <2>4. /\ b.told = side.told /\ b.isOpen = side.isOpen
        /\ b.active = side.active /\ b.opened = side.opened /\ b.document = 0
        /\ b.asked = side.asked
    BY <2>1 DEF SideFields
  <2> QED BY <2>2, <2>3, <2>4
<1> HIDE DEF c, d
<1>3. /\ r \in SideFields /\ Frame(c, r) /\ r.told = VisibleView(r) /\ r.disabled = {}
      /\ ~r.sidebarSet /\ ~r.eventSent /\ ~r.currentButton
  BY <1>2, ResetSideFacts DEF GoodSide, Shown, VisibleView
<1> HIDE DEF r
<1>4. /\ o \in SideFields /\ SameView(r, o) /\ o.disabled = {}
      /\ o.opened = r.opened /\ o.document = r.document /\ o.asked = r.asked
      /\ o.items = {} /\ o.item = 0 /\ o.hashOf = 0 /\ ~o.loaded /\ o.capability = "none"
      /\ ~o.currentButton /\ ~o.sidebarSet
      /\ o.treeOf = [r.treeOf EXCEPT !["OUTLINE"] = 0]
  BY <1>3, ResetOutlineFacts
<1> HIDE DEF o
<1> DEFINE ft == [o.treeOf EXCEPT !["ATTACHMENTS"] = 0]
           dt == [f.treeOf EXCEPT !["LAYERS"] = 0]
<1>5. /\ f = [o EXCEPT !.treeOf = ft, !.files = {}, !.queue = {}, !.rendered = FALSE,
                       !.pendingEvent = FALSE]
      /\ d = [f EXCEPT !.treeOf = dt, !.boxes = {}]
  BY DEF ResetFiles, ResetLayers, d
<1> HIDE DEF f
<1>6. ft \in [Trees -> Numbers] /\ \A t \in Trees : t # "LAYERS" => ft[t] = 0
  <2>1. r.treeOf \in [Trees -> Numbers] /\ o.treeOf \in [Trees -> Numbers]
    BY <1>3, <1>4, SideTypes
  <2> QED BY <1>4, <2>1, TreeNames DEF Trees
<1> HIDE DEF ft
<1>7. /\ f \in SideFields /\ f.treeOf = ft /\ SameView(o, f) /\ f.disabled = {}
      /\ f.opened = o.opened /\ f.document = o.document /\ f.asked = o.asked
      /\ f.items = {} /\ f.item = 0 /\ f.hashOf = 0 /\ ~f.loaded /\ f.capability = "none"
      /\ ~f.currentButton /\ ~f.sidebarSet /\ f.pendingEvent = FALSE
  <2>1. o \in SideFields
    BY <1>4
  <2>2. f \in SideFields
    BY <1>5, <1>6, <2>1, NoFilesFields
  <2>3. /\ f.treeOf = ft /\ SameView(o, f) /\ f.disabled = o.disabled
        /\ f.opened = o.opened /\ f.document = o.document /\ f.asked = o.asked
        /\ f.items = o.items /\ f.item = o.item /\ f.hashOf = o.hashOf /\ f.loaded = o.loaded
        /\ f.capability = o.capability /\ f.currentButton = o.currentButton
        /\ f.sidebarSet = o.sidebarSet /\ f.pendingEvent = FALSE
    BY <1>5, <2>1 DEF SideFields, SameView
  <2> QED BY <1>4, <2>2, <2>3
<1>8. dt \in [Trees -> Numbers] /\ \A t \in Trees : dt[t] = 0
  BY <1>6, <1>7, TreeNames
<1> HIDE DEF dt
<1>9. /\ d \in SideFields /\ d.treeOf = dt /\ SameView(f, d) /\ d.disabled = {}
      /\ d.opened = f.opened /\ d.document = f.document /\ d.asked = f.asked
      /\ d.items = {} /\ d.item = 0 /\ d.hashOf = 0 /\ ~d.loaded /\ d.capability = "none"
      /\ ~d.currentButton /\ ~d.sidebarSet /\ d.pendingEvent = FALSE
  <2>1. f \in SideFields
    BY <1>7, Zenon
  <2>2. d \in SideFields
    BY <1>5, <1>8, <2>1, ResetTypes, Zenon
  <2>3. /\ d.treeOf = dt /\ SameView(f, d) /\ d.disabled = f.disabled
        /\ d.opened = f.opened /\ d.document = f.document /\ d.asked = f.asked
        /\ d.items = f.items /\ d.item = f.item /\ d.hashOf = f.hashOf /\ d.loaded = f.loaded
        /\ d.capability = f.capability /\ d.currentButton = f.currentButton
        /\ d.sidebarSet = f.sidebarSet /\ d.pendingEvent = f.pendingEvent
    BY <1>5, <2>1 DEF SideFields, SameView
  <2> QED BY <1>7, <2>2, <2>3
<1>10. Shown(d)
  BY <1>3, <1>4, <1>7, <1>9 DEF Shown, SameView, VisibleView
<1>11. Rooted(d) /\ OutlineFits(d) /\ FilesFit(d) /\ LayersFit(d)
  BY <1>8, <1>9, TreeNames DEF Rooted, OutlineFits, FilesFit, LayersFit
<1>12. Itemized(d) /\ Enabled(d)
  BY <1>9 DEF Itemized, Enabled
<1>13. Requested(d)
  <2>1. d.document = 0 /\ d.opened = side.opened /\ d.asked = side.asked
    BY <1>2, <1>3, <1>4, <1>7, <1>9 DEF Frame, SameDocument
  <2>2. 0 <= side.opened
    BY SideTypes, SidebarAssumption DEF GoodSide, Numbers
  <2> QED BY <1>9, <2>1, <2>2 DEF GoodSide, Requested
<1> QED BY <1>1, <1>9, <1>10, <1>11, <1>12, <1>13 DEF GoodSide

----------------------------------------------------------------------------
(* Every action keeps the invariant                                        *)

\* What is asked changes: some is answered, or asked for in its turn.
LEMMA AskingKeepsGood ==
  ASSUME NEW c, GoodSide(c), NEW asked \in SUBSET (Questions \X Numbers),
         \A a \in asked \ c.asked :
           /\ a[2] <= c.opened /\ a[1] \notin {"pages", "rendered"}
           /\ a[1] \notin {"hash", "reset"} => a[2] # 0
           /\ a[1] = "OUTLINE" => /\ <<"rendered", a[2]>> \notin asked
                                  /\ a[2] = c.document => c.items = {}
  PROVE  LET d == [c EXCEPT !.asked = asked] IN
         /\ GoodSide(d) /\ d.asked = asked /\ d.document = c.document /\ d.stored = c.stored
         /\ d.opened = c.opened /\ d.items = c.items /\ d.initialSet = c.initialSet
         /\ d.late = c.late /\ d.trees = c.trees
<1> DEFINE d == [c EXCEPT !.asked = asked]
<1>0. c \in SideFields
  BY DEF GoodSide
<1>1. d \in SideFields
  BY <1>0 DEF SideFields
<1>2. /\ SameView(c, d) /\ SameItems(c, d) /\ SameButton(c, d) /\ SameTrees(c, d)
      /\ d.sidebarSet = c.sidebarSet /\ d.disabled = c.disabled
      /\ d.opened = c.opened /\ d.document = c.document /\ d.asked = asked
      /\ d.loaded = c.loaded /\ d.early = c.early /\ d.late = c.late
      /\ d.initialSet = c.initialSet /\ d.trees = c.trees
  BY <1>0 DEF SideFields, SameView, SameItems, SameButton, SameTrees
<1> HIDE DEF d
<1>3. Shown(d)
  BY <1>2 DEF GoodSide, Shown, SameView, VisibleView
<1>4. Rooted(d) /\ OutlineFits(d) /\ FilesFit(d) /\ LayersFit(d) /\ Itemized(d)
  BY <1>2 DEF GoodSide, Rooted, OutlineFits, FilesFit, LayersFit, Itemized, SameItems, SameTrees
<1>5. PagesThere(c) => PagesThere(d)
  <2>1. <<"pages", c.document>>[1] = "pages"
    OBVIOUS
  <2> QED BY <1>2, <2>1 DEF PagesThere
<1>6. Enabled(d)
  BY <1>2, <1>5 DEF GoodSide, Enabled, SameItems, SameButton
<1>7. Requested(d)
  <2>1. d.document <= d.opened /\ d.items = c.items
    BY <1>2 DEF GoodSide, Requested, SameItems
  <2>2. ASSUME NEW a \in asked
        PROVE  /\ a[2] <= c.opened
               /\ a[1] \notin {"hash", "reset"} => a[2] # 0
               /\ a[1] = "OUTLINE" => <<"rendered", a[2]>> \notin asked
               /\ a[1] \in {"OUTLINE", "rendered"} /\ a[2] = c.document => c.items = {}
    <3>1. CASE a \in c.asked
      <4>1. <<"rendered", a[2]>>[1] = "rendered"
        OBVIOUS
      <4> QED BY <3>1, <4>1 DEF GoodSide, Requested
    <3>2. CASE a \notin c.asked
      BY <3>2
    <3> QED BY <3>1, <3>2
  <2> QED BY <1>2, <2>1, <2>2 DEF Requested
<1>8. GoodSide(d)
  BY <1>1, <1>3, <1>4, <1>6, <1>7 DEF GoodSide
<1>9. d.stored = c.stored /\ d.items = c.items
  BY <1>2 DEF SameView, SameItems
<1> QED BY <1>2, <1>8, <1>9 DEF d

LEMMA AnsweredFacts ==
  ASSUME GoodSide(side), NEW a
  PROVE  LET s == Answered(a) IN
         /\ GoodSide(s) /\ s.asked = side.asked \ {a} /\ s.document = side.document
         /\ s.opened = side.opened /\ s.items = side.items /\ s.initialSet = side.initialSet
         /\ s.late = side.late /\ s.trees = side.trees /\ s.stored = side.stored
<1> DEFINE q == side.asked \ {a}
           s == Answered(a)
<1>1. q \in SUBSET (Questions \X Numbers) /\ q \ side.asked = {}
  BY SideTypes DEF GoodSide
<1>2. s = [side EXCEPT !.asked = q]
  BY DEF Answered
<1> HIDE DEF q
<1>3. /\ GoodSide(s) /\ s.asked = q /\ s.document = side.document /\ s.stored = side.stored
      /\ s.opened = side.opened /\ s.items = side.items /\ s.initialSet = side.initialSet
      /\ s.late = side.late /\ s.trees = side.trees
  BY <1>1, <1>2, AskingKeepsGood
<1> HIDE DEF s
<1> QED BY <1>3 DEF q, s

\* A document is opened with nothing of the one before it.
LEMMA LoadDocumentKeepsGood ==
  ASSUME GoodSide(side), LoadDocument
  PROVE  GoodSide(side')
<1> DEFINE n == side.opened + 1
           tasks == LoadTasks \X {n}
           q == side.asked \cup tasks
           l == side.early
           d == [side EXCEPT !.opened = n, !.document = n, !.page = 1, !.loaded = l,
                             !.asked = q]
           e == [side EXCEPT !.opened = n, !.document = n]
           f == [e EXCEPT !.page = 1, !.loaded = l]
<1>1. side.document = 0 /\ n <= SidebarDocs /\ side' = d
  BY DEF LoadDocument
<1>2. side \in SideFields
  BY DEF GoodSide
<1>3. /\ side.opened \in Nat /\ n \in Numbers /\ n # 0 /\ 1 \in SidebarPageSet /\ l \in BOOLEAN
      /\ SidebarDocs \in Nat
  BY <1>1, <1>2, SideTypes, SidebarAssumption DEF Numbers, SidebarPageSet
<1>4. /\ q \in SUBSET (Questions \X Numbers)
      /\ \A a \in tasks : a[2] = n /\ a[1] \in LoadTasks
  <2>1. side.asked \in SUBSET (Questions \X Numbers)
    BY <1>2, SideTypes
  <2>2. LoadTasks \subseteq Questions
    BY DEF LoadTasks, Questions
  <2> HIDE DEF n
  <2>3. tasks \subseteq Questions \X Numbers
    BY <1>3, <2>2
  <2>4. \A a \in tasks : a[2] = n /\ a[1] \in LoadTasks
    OBVIOUS
  <2> QED BY <2>1, <2>3, <2>4
<1> HIDE DEF l
<1>5. d \in SideFields
  <2> HIDE DEF n, q
  <2>1. e \in SideFields
    BY <1>2, <1>3, ZenonT(60) DEF SideFields
  <2>2. f \in SideFields
    <3> HIDE DEF e
    <3> QED BY <1>3, <2>1, ZenonT(60) DEF SideFields
  <2>3. [f EXCEPT !.asked = q] \in SideFields
    <3> HIDE DEF f
    <3> QED BY <1>4, <2>2 DEF SideFields
  <2>4. d = [f EXCEPT !.asked = q]
    OBVIOUS
  <2> QED BY <2>3, <2>4
<1>6. /\ SameView(side, d) /\ SameItems(side, d) /\ SameButton(side, d) /\ SameTrees(side, d)
      /\ d.sidebarSet = side.sidebarSet /\ d.disabled = side.disabled
      /\ d.opened = n /\ d.document = n /\ d.asked = q
      /\ d.loaded = l /\ d.early = side.early /\ d.late = side.late
      /\ d.initialSet = side.initialSet
  <2> HIDE DEF n, q
  <2> QED BY <1>2 DEF SideFields, SameView, SameItems, SameButton, SameTrees
<1> HIDE DEF d
<1>7. side.items = {} /\ ~side.currentButton
  BY <1>1 DEF GoodSide, Itemized, Enabled
<1>8. Shown(d)
  <2>1. side.sidebarSet => side.late
    BY <1>1 DEF GoodSide, Shown
  <2> QED BY <1>6, <2>1 DEF GoodSide, Shown, SameView, VisibleView
<1>9. /\ Rooted(d) /\ OutlineFits(d) /\ FilesFit(d) /\ LayersFit(d) /\ Itemized(d)
  <2>1. \A t \in Trees : side.treeOf[t] = 0
    BY <1>1 DEF GoodSide, Rooted
  <2>2. side.hashOf = 0
    BY <1>1 DEF GoodSide, Itemized
  <2> QED BY <1>6, <1>7, <2>1, <2>2, TreeNames
          DEF GoodSide, Rooted, OutlineFits, FilesFit, LayersFit, Itemized, SameItems, SameTrees
<1>10. Enabled(d)
  BY <1>6, <1>7 DEF GoodSide, Enabled, PagesThere, SameItems, SameButton, l
<1>11. Requested(d)
  <2>1. \A a \in side.asked : a[2] <= side.opened /\ a[2] \in Nat
    <3>1. \A a \in side.asked : a[2] \in Numbers
      BY <1>2, SideTypes
    <3>2. Numbers \subseteq Nat
      BY SidebarAssumption DEF Numbers
    <3> QED BY <3>1, <3>2 DEF GoodSide, Requested
  <2>2. \A a \in side.asked : a[2] # n /\ a[2] <= n
    BY <1>3, <2>1
  <2>3. "OUTLINE" \notin LoadTasks /\ LoadTasks \cap {"hash", "reset"} = {}
    BY DEF LoadTasks
  <2>4. d.document <= d.opened /\ d.items = {}
    BY <1>3, <1>6, <1>7 DEF SameItems
  <2>5. ASSUME NEW a \in q
        PROVE  /\ a[2] <= n
               /\ a[1] \notin {"hash", "reset"} => a[2] # 0
               /\ a[1] = "OUTLINE" => <<"rendered", a[2]>> \notin q
    <3>1. CASE a \in side.asked
      <4>1. a[1] = "OUTLINE" => <<"rendered", a[2]>> \notin side.asked
        BY <3>1 DEF GoodSide, Requested
      <4>2. <<"rendered", a[2]>> \notin tasks
        BY <1>4, <2>2, <3>1
      <4> QED BY <2>2, <3>1, <4>1, <4>2 DEF GoodSide, Requested
    <3>2. CASE a \in tasks
      BY <1>3, <1>4, <2>3, <3>2
    <3> QED BY <3>1, <3>2
  <2> QED BY <1>6, <2>4, <2>5 DEF Requested
<1> QED BY <1>1, <1>5, <1>8, <1>9, <1>10, <1>11 DEF GoodSide

LEMMA WorkerEndsKeepsGood ==
  ASSUME GoodSide(side), WorkerEnds
  PROVE  GoodSide(side')
<1> DEFINE q == {a \in side.asked : a[2] # side.closing \/ a[1] = "again"}
           b == [side EXCEPT !.asked = q]
           d == [b EXCEPT !.closing = 0]
<1>1. side' = d
  BY DEF WorkerEnds, GoodSide, SideFields
<1>2. q \in SUBSET (Questions \X Numbers) /\ q \ side.asked = {}
  BY SideTypes DEF GoodSide
<1> HIDE DEF q
<1>3. GoodSide(b)
  BY <1>2, AskingKeepsGood
<1> HIDE DEF b
<1>4. b \in SideFields
  BY <1>3 DEF GoodSide
<1>5. d \in SideFields
  BY <1>4, TreeNames DEF SideFields
<1>6. /\ SameDocument(b, d) /\ SameView(b, d) /\ SameTrees(b, d) /\ SameButton(b, d)
      /\ d.sidebarSet = b.sidebarSet /\ d.disabled = b.disabled
      /\ d.items = b.items /\ d.hashOf = b.hashOf /\ d.item = b.item
  BY <1>4 DEF SideFields, SameDocument, SameView, SameTrees, SameButton
<1> HIDE DEF d
<1>7. d.hashOf \in {0, b.document} /\ (d.item # 0 => d.item \in b.items)
  BY <1>3, <1>6 DEF GoodSide, Itemized
<1>8. GoodSide(d)
  BY <1>3, <1>5, <1>6, <1>7, MarkingKeepsGood
<1> QED BY <1>1, <1>8

\* The view alone changes.
LEMMA ViewKeepsGood ==
  ASSUME NEW c, GoodSide(c), NEW d \in SideFields, Rest(c, d), d.disabled = c.disabled,
         SameView(c, d) \/ Dispatched(c, d), d.active \notin d.disabled
  PROVE  GoodSide(d)
<1>1. Shown(d)
  BY StaysShown DEF GoodSide, Rest, Frame
<1>2. Rooted(d) /\ OutlineFits(d) /\ FilesFit(d) /\ LayersFit(d)
  BY DEF GoodSide, Rooted, OutlineFits, FilesFit, LayersFit,
         Rest, Frame, SameDocument, SameItems, SameTrees
<1>3. Itemized(d) /\ Enabled(d) /\ Requested(d)
  BY DEF GoodSide, Itemized, Enabled, PagesThere, Requested,
         Rest, Frame, SameDocument, SameItems, SameButton
<1> QED BY <1>1, <1>2, <1>3 DEF GoodSide

LEMMA ChooseViewKeepsGood ==
  ASSUME GoodSide(side), ChooseView
  PROVE  GoodSide(side')
<1>1. PICK view \in {"NONE", "THUMBS"} \cup side.trees, forceOpen \in BOOLEAN :
        side' = SwitchView(side, view, forceOpen)
  BY DEF ChooseView
<1>2. side \in SideFields /\ side.trees \subseteq Trees
  BY SideTypes, SidebarAssumption DEF GoodSide
<1>3. view \in SidebarViews
  BY <1>2, TreeNames
<1> DEFINE d == SwitchView(side, view, forceOpen)
<1>4. /\ d \in SideFields /\ Rest(side, d) /\ d.disabled = side.disabled
      /\ SameView(side, d) \/ Dispatched(side, d)
      /\ d.active = side.active \/ (d.active = view /\ view \notin side.disabled)
  BY <1>2, <1>3, SwitchViewFacts
<1> HIDE DEF d
<1>5. d.active \notin d.disabled
  BY <1>4 DEF GoodSide, Shown
<1>6. GoodSide(d)
  BY <1>4, <1>5, ViewKeepsGood
<1> QED BY <1>1, <1>6 DEF d

LEMMA ToggleSideKeepsGood ==
  ASSUME GoodSide(side), ToggleSide
  PROVE  GoodSide(side')
<1> DEFINE b == ~side.isOpen
           t == [side EXCEPT !.isOpen = b]
           d == DispatchView(t)
<1>0. side \in SideFields /\ b \in BOOLEAN
  BY SideTypes DEF GoodSide
<1>1. side' = d
  <2>1. CASE side.isOpen
    <3>1. b = FALSE
      BY <2>1
    <3> QED BY <2>1, <3>1 DEF ToggleSide, CloseSide
  <2>2. CASE ~side.isOpen
    <3>1. b = TRUE
      BY <2>2
    <3> QED BY <2>2, <3>1 DEF ToggleSide, OpenSide
  <2> QED BY <2>1, <2>2
<1> HIDE DEF b
<1>2. t \in SideFields
  BY <1>0 DEF SideFields
<1>3. /\ Rest(side, t) /\ t.disabled = side.disabled /\ t.active = side.active
      /\ t.eventSent = side.eventSent /\ t.sidebarSet = side.sidebarSet
  BY <1>0 DEF SideFields, Rest, Frame, SameDocument, SameItems, SameTrees, SameButton
<1> HIDE DEF t
<1>4. /\ d \in SideFields /\ Rest(t, d) /\ d.disabled = t.disabled
      /\ d.active = t.active /\ Dispatched(t, d)
  BY <1>2, DispatchViewFacts
<1> HIDE DEF d
<1>5. Rest(side, d) /\ Dispatched(side, d)
  BY <1>3, <1>4 DEF Rest, Frame, SameDocument, SameItems, SameTrees, SameButton, Dispatched
<1>6. d.active \notin d.disabled /\ d.disabled = side.disabled
  BY <1>3, <1>4 DEF GoodSide, Shown
<1>7. GoodSide(d)
  BY <1>4, <1>5, <1>6, ViewKeepsGood
<1> QED BY <1>1, <1>7

\* The first view counts for the document that is open, or comes too late.
LEMMA FirstViewKeepsGood ==
  ASSUME NEW c, GoodSide(c), NEW late \in BOOLEAN, c.late => late, ~late => c.document # 0,
         NEW view \in {"UNKNOWN"} \cup SidebarViews
  PROVE  GoodSide(SetView([c EXCEPT !.initialSet = TRUE, !.late = late], view))
<1> DEFINE e == [c EXCEPT !.initialSet = TRUE, !.late = late]
           d == SetView(e, view)
<1>0. c \in SideFields
  BY DEF GoodSide
<1>1. e \in SideFields
  BY <1>0, ZenonT(60) DEF SideFields
<1>2. /\ SameView(c, e) /\ SameItems(c, e) /\ SameButton(c, e) /\ SameTrees(c, e)
      /\ e.sidebarSet = c.sidebarSet /\ e.disabled = c.disabled
      /\ e.opened = c.opened /\ e.document = c.document /\ e.asked = c.asked
      /\ e.loaded = c.loaded /\ e.early = c.early /\ e.late = late /\ e.initialSet
  BY <1>0 DEF SideFields, SameView, SameItems, SameButton, SameTrees
<1> HIDE DEF e
<1>3. Shown(e)
  BY <1>2 DEF GoodSide, Shown, SameView, VisibleView
<1>4. /\ d \in SideFields /\ Shown(d) /\ Frame(e, d) /\ SameButton(e, d)
      /\ d.sidebarSet /\ d.disabled = e.disabled
  BY <1>1, <1>2, <1>3, SetViewFacts
<1> HIDE DEF d
<1>5. /\ SameItems(c, d) /\ SameButton(c, d) /\ SameTrees(c, d) /\ d.disabled = c.disabled
      /\ d.opened = c.opened /\ d.document = c.document /\ d.asked = c.asked
      /\ d.loaded = c.loaded /\ d.early = c.early
  BY <1>2, <1>4 DEF Frame, SameDocument, SameItems, SameTrees, SameButton
<1>6. Rooted(d) /\ OutlineFits(d) /\ FilesFit(d) /\ LayersFit(d)
  BY <1>5 DEF GoodSide, Rooted, OutlineFits, FilesFit, LayersFit, SameItems, SameTrees
<1>7. Itemized(d) /\ Enabled(d) /\ Requested(d)
  BY <1>4, <1>5 DEF GoodSide, Itemized, Enabled, PagesThere, Requested, SameItems, SameButton
<1>8. GoodSide(d)
  BY <1>4, <1>6, <1>7 DEF GoodSide
<1> QED BY <1>8 DEF d, e

LEMMA InitialViewKeepsGood ==
  ASSUME GoodSide(side), InitialView
  PROVE  GoodSide(side')
<1>1. PICK d \in Numbers, mode \in {"UNKNOWN"} \cup side.trees :
        /\ <<"initial", d>> \in side.asked
        /\ side' = LET s == Answered(<<"initial", d>>)
                       view == IF s.stored[d] # "UNKNOWN" THEN s.stored[d] ELSE mode
                   IN  SetView([s EXCEPT !.initialSet = TRUE, !.late = s.late \/ d # s.document,
                                  !.asked = s.asked \cup {<<"again", d>>}], view)
  BY DEF InitialView
<1> DEFINE s == Answered(<<"initial", d>>)
           view == IF s.stored[d] # "UNKNOWN" THEN s.stored[d] ELSE mode
           late == s.late \/ d # s.document
           q == s.asked \cup {<<"again", d>>}
           a == [s EXCEPT !.asked = q]
           e == [s EXCEPT !.initialSet = TRUE, !.late = late, !.asked = q]
           f == [a EXCEPT !.initialSet = TRUE, !.late = late]
<1>2. /\ GoodSide(s) /\ s.asked = side.asked \ {<<"initial", d>>} /\ s.document = side.document
      /\ s.opened = side.opened /\ s.late = side.late
  BY AnsweredFacts
<1>3. side' = SetView(e, view)
  BY <1>1
<1> HIDE DEF s
<1>4. s \in SideFields /\ side \in SideFields /\ s.late \in BOOLEAN
  BY <1>2, SideTypes DEF GoodSide
<1>5. view \in {"UNKNOWN"} \cup SidebarViews
  <2>1. side.trees \subseteq SidebarViews
    BY <1>4, SideTypes, SidebarAssumption, TreeNames
  <2>2. s.stored \in [Numbers -> {"UNKNOWN"} \cup SidebarViews]
    BY <1>4, SideTypes
  <2> QED BY <2>1, <2>2
<1> HIDE DEF view
<1>6. d # 0 /\ d <= s.opened
  <2>1. <<"initial", d>>[1] = "initial" /\ <<"initial", d>>[2] = d
    OBVIOUS
  <2>2. \A x \in side.asked :
          x[2] <= side.opened /\ (x[1] \notin {"hash", "reset"} => x[2] # 0)
    BY DEF GoodSide, Requested
  <2> QED BY <1>1, <1>2, <2>1, <2>2
<1>7. q \in SUBSET (Questions \X Numbers)
  <2>1. "again" \in Questions /\ s.asked \in SUBSET (Questions \X Numbers)
    BY <1>4, SideTypes DEF Questions
  <2> QED BY <2>1
<1>8. \A x \in q \ s.asked : x[1] = "again" /\ x[2] = d
  OBVIOUS
<1>9. late \in BOOLEAN /\ (s.late => late) /\ (~late => d = s.document)
  BY <1>4
<1> HIDE DEF q, late
<1>10. GoodSide(a) /\ a.document = s.document /\ a.late = s.late
  BY <1>2, <1>6, <1>7, <1>8, AskingKeepsGood
<1>11. e = f
  BY <1>4 DEF SideFields
<1> HIDE DEF a, e
<1>12. GoodSide(SetView(f, view))
  BY <1>5, <1>6, <1>9, <1>10, FirstViewKeepsGood
<1> HIDE DEF f
<1> QED BY <1>3, <1>11, <1>12

LEMMA InitialViewAgainKeepsGood ==
  ASSUME GoodSide(side), InitialViewAgain
  PROVE  GoodSide(side')
<1>1. PICK d \in Numbers, equal \in BOOLEAN :
        side' = LET s == Answered(<<"again", d>>)
                IN  IF equal \/ s.document = 0 THEN s
                    ELSE SetView([s EXCEPT !.initialSet = TRUE,
                                           !.late = s.late \/ d # s.document], "NONE")
  BY DEF InitialViewAgain
<1> DEFINE s == Answered(<<"again", d>>)
           late == s.late \/ d # s.document
           e == [s EXCEPT !.initialSet = TRUE, !.late = late]
<1>2. GoodSide(s)
  BY AnsweredFacts
<1>3. side' = IF equal \/ s.document = 0 THEN s ELSE SetView(e, "NONE")
  BY <1>1
<1> HIDE DEF s
<1>4. late \in BOOLEAN /\ (s.late => late)
  BY <1>2, SideTypes DEF GoodSide
<1>5. CASE equal \/ s.document = 0
  BY <1>2, <1>3, <1>5
<1>6. CASE s.document # 0
  <2> HIDE DEF late
  <2>1. "NONE" \in {"UNKNOWN"} \cup SidebarViews
    BY TreeNames
  <2>2. GoodSide(SetView(e, "NONE"))
    BY <1>2, <1>4, <1>6, <2>1, FirstViewKeepsGood
  <2> HIDE DEF e
  <2> QED BY <1>2, <1>3, <2>2
<1> QED BY <1>5, <1>6

LEMMA PagesLoadedKeepsGood ==
  ASSUME GoodSide(side), PagesLoaded
  PROVE  GoodSide(side')
<1>1. PICK d \in Numbers :
        side' = LET s == Answered(<<"pages", d>>)
                IN  IF d = s.document THEN SettleCurrentItem([s EXCEPT !.loaded = TRUE], TRUE)
                    ELSE [s EXCEPT !.early = TRUE]
  BY DEF PagesLoaded
<1> DEFINE s == Answered(<<"pages", d>>)
           l == [s EXCEPT !.loaded = TRUE]
           e == [s EXCEPT !.early = TRUE]
<1>2. GoodSide(s) /\ s.asked = side.asked \ {<<"pages", d>>}
  BY AnsweredFacts
<1>3. side' = IF d = s.document THEN SettleCurrentItem(l, TRUE) ELSE e
  BY <1>1
<1> HIDE DEF s
<1>4. s \in SideFields
  BY <1>2 DEF GoodSide
<1>5. CASE d = s.document
  <2>1. l \in SideFields
    BY <1>4, ZenonT(60) DEF SideFields
  <2>2. /\ SameView(s, l) /\ SameItems(s, l) /\ SameButton(s, l) /\ SameTrees(s, l)
        /\ l.sidebarSet = s.sidebarSet /\ l.disabled = s.disabled
        /\ l.opened = s.opened /\ l.document = s.document /\ l.asked = s.asked
        /\ l.loaded /\ l.early = s.early /\ l.late = s.late /\ l.initialSet = s.initialSet
    BY <1>4 DEF SideFields, SameView, SameItems, SameButton, SameTrees
  <2> HIDE DEF l
  <2>3. Shown(l)
    BY <1>2, <2>2 DEF GoodSide, Shown, SameView, VisibleView
  <2>4. /\ Rooted(l) /\ OutlineFits(l) /\ FilesFit(l) /\ LayersFit(l) /\ Itemized(l)
        /\ Requested(l)
    BY <1>2, <2>2 DEF GoodSide, Rooted, OutlineFits, FilesFit, LayersFit, Itemized, Requested,
                      SameItems, SameTrees
  <2>5. PagesThere(l)
    BY <1>2, <1>5, <2>2 DEF PagesThere
  <2>6. Enabled(l)
    BY <1>2, <2>2, <2>5 DEF GoodSide, Enabled, SameItems, SameButton
  <2>7. GoodSide(l)
    BY <2>1, <2>3, <2>4, <2>6 DEF GoodSide
  <2> DEFINE yes == TRUE
  <2>8. yes \in BOOLEAN /\ (yes => l.loaded)
    BY <2>2
  <2>9. side' = SettleCurrentItem(l, yes)
    BY <1>3, <1>5
  <2> HIDE DEF yes
  <2> QED BY <2>7, <2>8, <2>9, SettleKeepsGood
<1>6. CASE d # s.document
  <2>1. e \in SideFields
    BY <1>4, ZenonT(60) DEF SideFields
  <2>2. /\ SameView(s, e) /\ SameItems(s, e) /\ SameButton(s, e) /\ SameTrees(s, e)
        /\ e.sidebarSet = s.sidebarSet /\ e.disabled = s.disabled
        /\ e.opened = s.opened /\ e.document = s.document /\ e.asked = s.asked
        /\ e.early /\ e.late = s.late /\ e.initialSet = s.initialSet
    BY <1>4 DEF SideFields, SameView, SameItems, SameButton, SameTrees
  <2> HIDE DEF e
  <2>3. Shown(e)
    BY <1>2, <2>2 DEF GoodSide, Shown, SameView, VisibleView
  <2>4. /\ Rooted(e) /\ OutlineFits(e) /\ FilesFit(e) /\ LayersFit(e) /\ Itemized(e)
        /\ Requested(e)
    BY <1>2, <2>2 DEF GoodSide, Rooted, OutlineFits, FilesFit, LayersFit, Itemized, Requested,
                      SameItems, SameTrees
  <2>5. Enabled(e)
    BY <1>2, <2>2 DEF GoodSide, Enabled, PagesThere, SameItems, SameButton
  <2> QED BY <1>3, <1>6, <2>1, <2>3, <2>4, <2>5 DEF GoodSide
<1> QED BY <1>5, <1>6

LEMMA OnePageDrawnKeepsGood ==
  ASSUME GoodSide(side), OnePageDrawn
  PROVE  GoodSide(side')
<1>1. PICK d \in Numbers :
        /\ <<"rendered", d>> \in side.asked
        /\ side' = [Answered(<<"rendered", d>>) EXCEPT
                      !.asked = (Answered(<<"rendered", d>>)).asked \cup (side.trees \X {d})]
  BY DEF OnePageDrawn
<1> DEFINE s == Answered(<<"rendered", d>>)
           new == side.trees \X {d}
           q == s.asked \cup new
           e == [s EXCEPT !.asked = q]
<1>2. /\ GoodSide(s) /\ s.asked = side.asked \ {<<"rendered", d>>} /\ s.document = side.document
      /\ s.opened = side.opened /\ s.items = side.items
  BY AnsweredFacts
<1>3. side' = e
  BY <1>1
<1> HIDE DEF s
<1>4. side \in SideFields /\ side.trees \subseteq Trees /\ Trees \subseteq Questions
  BY SideTypes, SidebarAssumption DEF GoodSide, Questions
<1>5. d # 0 /\ d <= s.opened /\ (d = s.document => s.items = {})
  <2>1. <<"rendered", d>>[1] = "rendered" /\ <<"rendered", d>>[2] = d
    OBVIOUS
  <2>2. \A x \in side.asked :
          /\ x[2] <= side.opened /\ (x[1] \notin {"hash", "reset"} => x[2] # 0)
          /\ x[1] = "rendered" /\ x[2] = side.document => side.items = {}
    BY DEF GoodSide, Requested
  <2> QED BY <1>1, <1>2, <2>1, <2>2
<1>6. \A x \in new : x[1] \in Trees /\ x[2] = d
  BY <1>4
<1>7. q \in SUBSET (Questions \X Numbers)
  <2>1. s.asked \in SUBSET (Questions \X Numbers)
    BY <1>2, SideTypes DEF GoodSide
  <2>2. new \subseteq Questions \X Numbers
    BY <1>4
  <2> HIDE DEF new
  <2> QED BY <2>1, <2>2
<1>8. <<"rendered", d>> \notin q
  <2>1. <<"rendered", d>>[1] = "rendered" /\ "rendered" \notin Trees
    BY DEF Trees
  <2> HIDE DEF new
  <2> QED BY <1>2, <1>6, <2>1
<1>9. ASSUME NEW x \in q \ s.asked
      PROVE  /\ x[2] <= s.opened /\ x[1] \notin {"pages", "rendered"}
             /\ x[1] \notin {"hash", "reset"} => x[2] # 0
             /\ x[1] = "OUTLINE" => /\ <<"rendered", x[2]>> \notin q
                                    /\ x[2] = s.document => s.items = {}
  <2>1. x[1] \in Trees /\ x[2] = d
    <3> HIDE DEF new
    <3> QED BY <1>6
  <2>2. x[1] \notin {"pages", "rendered"}
    BY <2>1 DEF Trees
  <2> HIDE DEF q
  <2> QED BY <1>5, <1>8, <2>1, <2>2
<1> HIDE DEF q
<1>10. GoodSide(e)
  BY <1>2, <1>7, <1>9, AskingKeepsGood
<1> QED BY <1>3, <1>10

\* A tree is taken for that of the document, unless that is another by now.
LEMMA FillFacts ==
  ASSUME NEW c, GoodSide(c), NEW d \in Numbers, d # 0, NEW tree \in Trees
  PROVE  LET e == Fill(c, tree, d) IN
         \/ e = c /\ e.treeOf[tree] # d
         \/ /\ d = c.document /\ e \in SideFields /\ e.treeOf[tree] = d
            /\ Shown(e) /\ Rooted(e) /\ Itemized(e) /\ Enabled(e) /\ Requested(e)
            /\ e.document = c.document /\ e.asked = c.asked /\ e.opened = c.opened
            /\ e.items = c.items
            /\ tree # "OUTLINE" => OutlineFits(e)
            /\ tree # "ATTACHMENTS" => FilesFit(e)
            /\ tree # "LAYERS" => LayersFit(e)
<1> DEFINE e == Fill(c, tree, d)
           tr == [c.treeOf EXCEPT ![tree] = d]
<1>0. c \in SideFields
  BY DEF GoodSide
<1>1. CASE d # c.document
  <2>1. e = c /\ c.treeOf[tree] \in {0, c.document}
    BY <1>1 DEF Fill, GoodSide, Rooted
  <2> QED BY <1>1, <2>1
<1>2. CASE d = c.document
  <2>1. e = [c EXCEPT !.treeOf = tr]
    BY <1>2 DEF Fill
  <2>2. /\ tr \in [Trees -> Numbers] /\ tr[tree] = d
        /\ \A t \in Trees : t # tree => tr[t] = c.treeOf[t]
    BY <1>0, SideTypes
  <2> HIDE DEF tr, e
  <2>3. e \in SideFields
    BY <1>0, <2>1, <2>2 DEF SideFields
  <2>4. /\ SameDocument(c, e) /\ SameView(c, e) /\ SameItems(c, e) /\ SameButton(c, e)
        /\ e.sidebarSet = c.sidebarSet /\ e.disabled = c.disabled /\ e.treeOf = tr
        /\ e.files = c.files /\ e.pendingEvent = c.pendingEvent
        /\ e.config = c.config /\ e.boxes = c.boxes
    BY <1>0, <2>1 DEF SideFields, SameDocument, SameView, SameItems, SameButton
  <2>5. Shown(e)
    BY <1>0, <2>3, <2>4, StaysShown DEF GoodSide, Shown, SameView
  <2>6. Rooted(e)
    BY <1>2, <2>2, <2>4 DEF GoodSide, Rooted, SameDocument
  <2>7. Itemized(e) /\ Enabled(e) /\ Requested(e)
    BY <2>4 DEF GoodSide, Itemized, Enabled, PagesThere, Requested, SameDocument, SameItems, SameButton
  <2>8. /\ tree # "OUTLINE" => OutlineFits(e)
        /\ tree # "ATTACHMENTS" => FilesFit(e)
        /\ tree # "LAYERS" => LayersFit(e)
    BY <2>2, <2>4, TreeNames DEF GoodSide, OutlineFits, FilesFit, LayersFit, SameItems
  <2>9. e.document = c.document /\ e.asked = c.asked /\ e.opened = c.opened /\ e.items = c.items
    BY <2>4 DEF SameDocument, SameItems
  <2> QED BY <1>2, <2>2, <2>3, <2>4, <2>5, <2>6, <2>7, <2>8, <2>9 DEF e
<1> QED BY <1>1, <1>2

\* Whoever is asked is asked of a document.
LEMMA AskedOf ==
  ASSUME GoodSide(side), NEW d \in Numbers, NEW question, <<question, d>> \in side.asked,
         question \notin {"hash", "reset"}
  PROVE  d # 0
<1>1. <<question, d>>[1] = question /\ <<question, d>>[2] = d
  OBVIOUS
<1>2. \A x \in side.asked : x[1] \notin {"hash", "reset"} => x[2] # 0
  BY DEF GoodSide, Requested
<1> QED BY <1>1, <1>2

LEMMA OutlineAnsweredKeepsGood ==
  ASSUME GoodSide(side), OutlineAnswered
  PROVE  GoodSide(side')
<1>1. PICK d \in Numbers, items \in SUBSET SidebarPageSet :
        /\ <<"OUTLINE", d>> \in side.asked
        /\ side' = LET s == Fill(Answered(<<"OUTLINE", d>>), "OUTLINE", d)
                   IN  IF s.treeOf["OUTLINE"] # d THEN s
                       ELSE OutlineLoaded([s EXCEPT !.items = items])
  BY DEF OutlineAnswered
<1> DEFINE a == Answered(<<"OUTLINE", d>>)
           s == Fill(a, "OUTLINE", d)
           e == [s EXCEPT !.items = items]
<1>2. /\ GoodSide(a) /\ a.asked = side.asked \ {<<"OUTLINE", d>>} /\ a.document = side.document
      /\ a.items = side.items
  BY AnsweredFacts
<1>3. side' = IF s.treeOf["OUTLINE"] # d THEN s ELSE OutlineLoaded(e)
  BY <1>1
<1>4. d # 0 /\ "OUTLINE" \in Trees
  BY <1>1, AskedOf, TreeNames
<1> HIDE DEF a
<1>5. \/ s = a /\ s.treeOf["OUTLINE"] # d
      \/ /\ d = a.document /\ s \in SideFields /\ s.treeOf["OUTLINE"] = d
         /\ Shown(s) /\ Rooted(s) /\ Itemized(s) /\ Enabled(s) /\ Requested(s)
         /\ s.document = a.document /\ s.asked = a.asked /\ s.items = a.items
         /\ FilesFit(s) /\ LayersFit(s)
  BY <1>2, <1>4, FillFacts
<1> HIDE DEF s
<1>6. CASE s = a /\ s.treeOf["OUTLINE"] # d
  BY <1>2, <1>3, <1>6
<1>7. CASE ~ (s = a /\ s.treeOf["OUTLINE"] # d)
  <2>1. /\ s \in SideFields /\ s.treeOf["OUTLINE"] = d /\ s.document = d
        /\ Shown(s) /\ Rooted(s) /\ Itemized(s) /\ Enabled(s) /\ Requested(s)
        /\ s.asked = a.asked /\ s.items = a.items /\ FilesFit(s) /\ LayersFit(s)
    BY <1>5, <1>7
  <2>2. e \in SideFields
    BY <2>1 DEF SideFields
  <2>3. /\ SameDocument(s, e) /\ SameView(s, e) /\ SameTrees(s, e) /\ SameButton(s, e)
        /\ e.sidebarSet = s.sidebarSet /\ e.disabled = s.disabled
        /\ e.hashOf = s.hashOf /\ e.item = s.item /\ e.items = items
    BY <2>1 DEF SideFields, SameDocument, SameView, SameTrees, SameButton
  <2> HIDE DEF e
  <2>4. s.items = {} /\ \A x \in s.asked : x[1] \in {"OUTLINE", "rendered"} => x[2] # d
    <3>1. <<"OUTLINE", d>>[1] = "OUTLINE" /\ <<"OUTLINE", d>>[2] = d
      OBVIOUS
    <3>2. d = side.document
      BY <1>2, <1>5, <1>7
    <3>3. side.items = {} /\ <<"rendered", d>> \notin side.asked
      BY <1>1, <3>1, <3>2 DEF GoodSide, Requested
    <3>4. side.asked \in SUBSET (Questions \X Numbers)
      BY SideTypes DEF GoodSide
    <3>5. ASSUME NEW x \in s.asked, x[1] \in {"OUTLINE", "rendered"}, x[2] = d
          PROVE  FALSE
      <4>1. x \in side.asked /\ x # <<"OUTLINE", d>>
        BY <1>2, <2>1
      <4>2. x = <<x[1], x[2]>>
        BY <3>4, <4>1
      <4> QED BY <3>3, <3>5, <4>1, <4>2
    <3> QED BY <1>2, <2>1, <3>3, <3>5
  <2>5. Shown(e)
    BY <2>1, <2>2, <2>3, StaysShown DEF Shown, SameView
  <2>6. Rooted(e) /\ FilesFit(e) /\ LayersFit(e)
    BY <2>1, <2>3 DEF Rooted, FilesFit, LayersFit, SameDocument, SameTrees
  <2>7. Itemized(e)
    BY <1>4, <2>1, <2>3, <2>4 DEF Itemized, SameDocument
  <2>8. Requested(e)
    BY <2>1, <2>3, <2>4 DEF Requested, SameDocument
  <2>9. (e.currentButton => e.sidebarSet) /\ (e.loaded \/ e.currentButton => PagesThere(e))
    BY <2>1, <2>3 DEF Enabled, PagesThere, SameDocument, SameButton
  <2>10. side' = OutlineLoaded(e)
    BY <1>3, <2>1
  <2> QED BY <2>2, <2>5, <2>6, <2>7, <2>8, <2>9, <2>10, OutlineLoadedKeepsGood
<1> QED BY <1>6, <1>7

LEMMA AttachmentsAnsweredKeepsGood ==
  ASSUME GoodSide(side), AttachmentsAnswered
  PROVE  GoodSide(side')
<1>1. PICK d \in Numbers, files \in SUBSET FileNames :
        /\ <<"ATTACHMENTS", d>> \in side.asked
        /\ side' = LET s == Fill(Answered(<<"ATTACHMENTS", d>>), "ATTACHMENTS", d)
                   IN  IF s.treeOf["ATTACHMENTS"] # d THEN s
                       ELSE AppendFiles(FilesLoaded([s EXCEPT !.files = files, !.queue = {}]),
                                        s.queue)
  BY DEF AttachmentsAnswered
<1> DEFINE a == Answered(<<"ATTACHMENTS", d>>)
           s == Fill(a, "ATTACHMENTS", d)
           none == {}
           e == [s EXCEPT !.files = files, !.queue = none]
           f == FilesLoaded(e)
<1>2. GoodSide(a)
  BY AnsweredFacts
<1>3. side' = IF s.treeOf["ATTACHMENTS"] # d THEN s ELSE AppendFiles(f, s.queue)
  BY <1>1
<1>4. d # 0 /\ "ATTACHMENTS" \in Trees
  BY <1>1, AskedOf, TreeNames
<1> HIDE DEF a
<1>5. \/ s = a /\ s.treeOf["ATTACHMENTS"] # d
      \/ /\ s \in SideFields /\ s.treeOf["ATTACHMENTS"] = d
         /\ Shown(s) /\ Rooted(s) /\ Itemized(s) /\ Enabled(s) /\ Requested(s)
         /\ OutlineFits(s) /\ LayersFit(s)
  BY <1>2, <1>4, FillFacts
<1> HIDE DEF s
<1>6. CASE s = a /\ s.treeOf["ATTACHMENTS"] # d
  BY <1>2, <1>3, <1>6
<1>7. CASE ~ (s = a /\ s.treeOf["ATTACHMENTS"] # d)
  <2>1. /\ s \in SideFields /\ s.treeOf["ATTACHMENTS"] = d
        /\ Shown(s) /\ Rooted(s) /\ Itemized(s) /\ Enabled(s) /\ Requested(s)
        /\ OutlineFits(s) /\ LayersFit(s)
    BY <1>5, <1>7
  <2>2. none \in SUBSET FileNames /\ s.queue \in SUBSET FileNames
    BY <2>1, SideTypes
  <2> HIDE DEF none
  <2>3. /\ e \in SideFields /\ Shown(e) /\ Rooted(e) /\ OutlineFits(e) /\ LayersFit(e)
        /\ Itemized(e) /\ Enabled(e) /\ Requested(e)
    BY <2>1, <2>2, OtherFiles
  <2> HIDE DEF e
  <2>4. GoodSide(f)
    BY <2>3, FilesLoadedKeepsGood
  <2> HIDE DEF f
  <2>5. side' = AppendFiles(f, s.queue)
    BY <1>3, <2>1
  <2> QED BY <2>2, <2>4, <2>5, AppendFilesKeepsGood
<1> QED BY <1>6, <1>7

LEMMA LayersAnsweredKeepsGood ==
  ASSUME GoodSide(side), LayersAnswered
  PROVE  GoodSide(side')
<1>1. PICK d \in Numbers, config \in {{}, Layers} :
        /\ <<"LAYERS", d>> \in side.asked
        /\ side' = LET s == Fill(Answered(<<"LAYERS", d>>), "LAYERS", d)
                   IN  IF s.treeOf["LAYERS"] # d THEN s
                       ELSE RenderLayers([s EXCEPT !.config = config])
  BY DEF LayersAnswered
<1> DEFINE a == Answered(<<"LAYERS", d>>)
           s == Fill(a, "LAYERS", d)
           e == [s EXCEPT !.config = config]
<1>2. GoodSide(a) /\ config \in SUBSET Layers
  BY AnsweredFacts
<1>3. side' = IF s.treeOf["LAYERS"] # d THEN s ELSE RenderLayers(e)
  BY <1>1
<1>4. d # 0 /\ "LAYERS" \in Trees
  BY <1>1, AskedOf, TreeNames
<1> HIDE DEF a
<1>5. \/ s = a /\ s.treeOf["LAYERS"] # d
      \/ /\ s \in SideFields /\ s.treeOf["LAYERS"] = d
         /\ Shown(s) /\ Rooted(s) /\ Itemized(s) /\ Enabled(s) /\ Requested(s)
         /\ OutlineFits(s) /\ FilesFit(s)
  BY <1>2, <1>4, FillFacts
<1> HIDE DEF s
<1>6. CASE s = a /\ s.treeOf["LAYERS"] # d
  BY <1>2, <1>3, <1>6
<1>7. CASE ~ (s = a /\ s.treeOf["LAYERS"] # d)
  <2>1. /\ s \in SideFields /\ s.treeOf["LAYERS"] = d
        /\ Shown(s) /\ Rooted(s) /\ Itemized(s) /\ Enabled(s) /\ Requested(s)
        /\ OutlineFits(s) /\ FilesFit(s)
    BY <1>5, <1>7
  <2>2. e \in SideFields
    BY <1>2, <2>1 DEF SideFields
  <2>3. /\ SameDocument(s, e) /\ SameView(s, e) /\ SameItems(s, e) /\ SameButton(s, e)
        /\ e.sidebarSet = s.sidebarSet /\ e.disabled = s.disabled /\ e.treeOf = s.treeOf
        /\ e.files = s.files /\ e.pendingEvent = s.pendingEvent
    BY <2>1 DEF SideFields, SameDocument, SameView, SameItems, SameButton
  <2> HIDE DEF e
  <2>4. Shown(e)
    BY <2>1, <2>2, <2>3, StaysShown DEF Shown, SameView
  <2>5. Rooted(e) /\ OutlineFits(e) /\ FilesFit(e)
    BY <2>1, <2>3 DEF Rooted, OutlineFits, FilesFit, SameDocument, SameItems
  <2>6. Itemized(e) /\ Enabled(e) /\ Requested(e)
    BY <2>1, <2>3 DEF Itemized, Enabled, PagesThere, Requested, SameDocument, SameItems, SameButton
  <2>7. side' = RenderLayers(e)
    BY <1>3, <2>1
  <2> QED BY <2>2, <2>4, <2>5, <2>6, <2>7, RenderLayersKeepsGood
<1> QED BY <1>6, <1>7

LEMMA FileAnnotationKeepsGood ==
  ASSUME GoodSide(side), FileAnnotation
  PROVE  GoodSide(side')
<1>1. PICK name \in FileNames :
        side' = IF side.rendered THEN AppendFiles(side, {name})
                ELSE [side EXCEPT !.queue = side.queue \cup {name}]
  BY DEF FileAnnotation
<1> DEFINE q == side.queue \cup {name}
           d == [side EXCEPT !.queue = q]
<1>2. side \in SideFields /\ q \in SUBSET FileNames /\ {name} \in SUBSET FileNames
  BY SideTypes DEF GoodSide
<1> HIDE DEF q
<1>3. d \in SideFields
  BY <1>2 DEF SideFields
<1>4. /\ SameDocument(side, d) /\ SameView(side, d) /\ SameTrees(side, d) /\ SameButton(side, d)
      /\ d.sidebarSet = side.sidebarSet /\ d.disabled = side.disabled
      /\ d.items = side.items /\ d.hashOf = side.hashOf /\ d.item = side.item
  BY <1>2 DEF SideFields, SameDocument, SameView, SameTrees, SameButton
<1> HIDE DEF d
<1>5. d.hashOf \in {0, side.document} /\ (d.item # 0 => d.item \in side.items)
  BY <1>4 DEF GoodSide, Itemized
<1>6. GoodSide(d)
  BY <1>3, <1>4, <1>5, MarkingKeepsGood
<1>7. CASE side.rendered
  BY <1>1, <1>2, <1>7, AppendFilesKeepsGood
<1>8. CASE ~side.rendered
  BY <1>1, <1>6, <1>8 DEF d, q
<1> QED BY <1>7, <1>8

\* A tree that is told late is empty.
LEMMA EmptyTreeToldKeepsGood ==
  ASSUME GoodSide(side), EmptyTreeTold
  PROVE  GoodSide(side')
<1>1. PICK waiting :
        side' = LET s == [side EXCEPT !.waits = side.waits \ waiting, !.pendingEvent = FALSE]
                IN  IF side.pendingEvent THEN TreeLoaded(s, "ATTACHMENTS", 0) ELSE s
  BY DEF EmptyTreeTold
<1> DEFINE w == side.waits \ waiting
           s == [side EXCEPT !.waits = w, !.pendingEvent = FALSE]
           d == TreeLoaded(s, "ATTACHMENTS", 0)
<1>2. side \in SideFields /\ w \in SUBSET Numbers
  BY SideTypes DEF GoodSide
<1>3. side' = IF side.pendingEvent THEN d ELSE s
  BY <1>1
<1> HIDE DEF w
<1>4. s \in SideFields
  BY <1>2, ZenonT(60) DEF SideFields
<1>5. /\ SameDocument(side, s) /\ SameView(side, s) /\ SameItems(side, s) /\ SameButton(side, s)
      /\ s.sidebarSet = side.sidebarSet /\ s.disabled = side.disabled
      /\ s.treeOf = side.treeOf /\ s.files = side.files /\ s.pendingEvent = FALSE
      /\ s.config = side.config /\ s.boxes = side.boxes
  BY <1>2 DEF SideFields, SameDocument, SameView, SameItems, SameButton
<1> HIDE DEF s
<1>6. Shown(s)
  BY <1>2, <1>4, <1>5, StaysShown DEF GoodSide, Shown, SameView
<1>7. Rooted(s) /\ OutlineFits(s) /\ LayersFit(s)
  BY <1>5 DEF GoodSide, Rooted, OutlineFits, LayersFit, SameDocument, SameItems
<1>8. Itemized(s) /\ Enabled(s) /\ Requested(s)
  BY <1>5 DEF GoodSide, Itemized, Enabled, PagesThere, Requested, SameDocument, SameItems, SameButton
<1>9. CASE ~side.pendingEvent
  <2>1. FilesFit(s)
    BY <1>5, <1>9 DEF GoodSide, FilesFit
  <2> QED BY <1>3, <1>4, <1>6, <1>7, <1>8, <1>9, <2>1 DEF GoodSide
<1>10. CASE side.pendingEvent
  <2>1. /\ d \in SideFields /\ Shown(d) /\ Rest(s, d)
        /\ d.disabled = s.disabled \cup {"ATTACHMENTS"}
    <3> DEFINE no == 0
    <3>1. no \in Nat /\ ~(no > 0)
      OBVIOUS
    <3>2. d = TreeLoaded(s, "ATTACHMENTS", no)
      OBVIOUS
    <3> HIDE DEF no, d
    <3> QED BY <1>4, <1>6, <3>1, <3>2, TreeNames, TreeLoadedFacts
  <2> HIDE DEF d
  <2>2. /\ "ATTACHMENTS" \in d.disabled
        /\ "OUTLINE" \in d.disabled <=> "OUTLINE" \in s.disabled
        /\ "LAYERS" \in d.disabled <=> "LAYERS" \in s.disabled
    BY <2>1
  <2>3. d.files = {}
    BY <1>5, <1>10, <2>1 DEF GoodSide, FilesFit, Rest, Frame, SameTrees
  <2>4. Rooted(d) /\ OutlineFits(d) /\ FilesFit(d) /\ LayersFit(d)
    BY <1>5, <1>7, <2>1, <2>2, <2>3 DEF Rooted, OutlineFits, FilesFit, LayersFit,
       Rest, Frame, SameDocument, SameItems, SameTrees
  <2>5. Itemized(d) /\ Enabled(d) /\ Requested(d)
    BY <1>8, <2>1 DEF Itemized, Enabled, PagesThere, Requested,
       Rest, Frame, SameDocument, SameItems, SameButton
  <2> QED BY <1>3, <1>10, <2>1, <2>4, <2>5 DEF GoodSide
<1> QED BY <1>9, <1>10


LEMMA GoToPageKeepsGood ==
  ASSUME GoodSide(side), GoToPage
  PROVE  GoodSide(side')
<1>1. PICK page \in SidebarPageSet : side' = [side EXCEPT !.page = page]
  BY DEF GoToPage
<1> DEFINE d == [side EXCEPT !.page = page]
<1>2. side \in SideFields
  BY DEF GoodSide
<1>3. d \in SideFields
  BY <1>2 DEF SideFields
<1>4. /\ SameDocument(side, d) /\ SameView(side, d) /\ SameTrees(side, d) /\ SameButton(side, d)
      /\ d.sidebarSet = side.sidebarSet /\ d.disabled = side.disabled
      /\ d.items = side.items /\ d.hashOf = side.hashOf /\ d.item = side.item
  BY <1>2 DEF SideFields, SameDocument, SameView, SameTrees, SameButton
<1> HIDE DEF d
<1>5. d.hashOf \in {0, side.document} /\ (d.item # 0 => d.item \in side.items)
  BY <1>4 DEF GoodSide, Itemized
<1>6. GoodSide(d)
  BY <1>3, <1>4, <1>5, MarkingKeepsGood
<1> QED BY <1>1, <1>6 DEF d

\* The table is of the document that is open.
LEMMA HashKeepsGood ==
  ASSUME NEW c, GoodSide(c), NEW hash \in {"making", "there"}, NEW of \in {c.hashOf, c.document}
  PROVE  GoodSide([c EXCEPT !.hash = hash, !.hashOf = of])
<1> DEFINE d == [c EXCEPT !.hash = hash, !.hashOf = of]
<1>1. c \in SideFields
  BY DEF GoodSide
<1>2. of \in Numbers /\ hash \in {"none", "making", "there"}
  BY <1>1, SideTypes
<1>3. d \in SideFields
  BY <1>1, <1>2, ZenonT(60) DEF SideFields
<1>4. /\ SameDocument(c, d) /\ SameView(c, d) /\ SameTrees(c, d) /\ SameButton(c, d)
      /\ d.sidebarSet = c.sidebarSet /\ d.disabled = c.disabled
      /\ d.items = c.items /\ d.hashOf = of /\ d.item = c.item
  BY <1>1 DEF SideFields, SameDocument, SameView, SameTrees, SameButton
<1> HIDE DEF d
<1>5. d.hashOf \in {0, c.document} /\ (d.item # 0 => d.item \in c.items)
  BY <1>4 DEF GoodSide, Itemized
<1>6. GoodSide(d)
  BY <1>3, <1>4, <1>5, MarkingKeepsGood
<1> QED BY <1>6 DEF d

\* The table of the outline, and the layers as they were, are asked for at any time.
LEMMA AskingOnceMoreKeepsGood ==
  ASSUME NEW c, GoodSide(c), NEW question \in {"hash", "reset"}
  PROVE  GoodSide([c EXCEPT !.asked = c.asked \cup {<<question, c.document>>}])
<1> DEFINE q == c.asked \cup {<<question, c.document>>}
<1>1. /\ c.asked \in SUBSET (Questions \X Numbers) /\ c.document \in Numbers
      /\ c.document <= c.opened
  BY SideTypes DEF GoodSide, Requested
<1>2. q \in SUBSET (Questions \X Numbers)
  BY <1>1 DEF Questions
<1>3. ASSUME NEW a \in q \ c.asked
      PROVE  a[2] = c.document /\ a[1] \in {"hash", "reset"}
  OBVIOUS
<1> HIDE DEF q
<1>4. GoodSide([c EXCEPT !.asked = q])
  BY <1>1, <1>2, <1>3, AskingKeepsGood
<1> QED BY <1>4 DEF q

LEMMA CurrentOutlineItemKeepsGood ==
  ASSUME GoodSide(side), CurrentOutlineItem
  PROVE  GoodSide(side')
<1> DEFINE q == side.asked \cup {<<"hash", side.document>>}
           doc == side.document
           a == [side EXCEPT !.asked = q]
           d == [side EXCEPT !.hash = "making", !.hashOf = doc, !.asked = q]
<1>1. side' = CASE side.hash = "there" -> ShowCurrentItem(side)
               [] side.hash = "making" -> side
               [] OTHER -> d
  BY DEF CurrentOutlineItem
<1>2. GoodSide(a)
  BY AskingOnceMoreKeepsGood
<1>3. a.document = doc
  <2> HIDE DEF q
  <2> QED BY DEF GoodSide, SideFields
<1>4. d = [a EXCEPT !.hash = "making", !.hashOf = doc]
  <2> HIDE DEF q, doc
  <2> QED BY Zenon DEF GoodSide, SideFields
<1> HIDE DEF a, d, doc
<1>5. GoodSide(d)
  BY <1>2, <1>3, <1>4, HashKeepsGood, Zenon
<1>6. CASE side.hash = "there"
  BY <1>1, <1>6, ShowCurrentItemKeepsGood
<1>7. CASE side.hash = "making"
  BY <1>1, <1>7
<1>8. CASE side.hash \notin {"there", "making"}
  BY <1>1, <1>5, <1>8
<1> QED BY <1>6, <1>7, <1>8

LEMMA HashAnsweredKeepsGood ==
  ASSUME GoodSide(side), HashAnswered
  PROVE  GoodSide(side')
<1>1. PICK d \in Numbers :
        side' = IF d = side.document THEN HashMade(Answered(<<"hash", d>>))
                ELSE Answered(<<"hash", d>>)
  BY DEF HashAnswered
<1> DEFINE a == Answered(<<"hash", d>>)
           of == a.hashOf
           m == [a EXCEPT !.hash = "there"]
           n == [a EXCEPT !.hash = "there", !.hashOf = of]
<1>2. GoodSide(a)
  BY AnsweredFacts
<1>3. side' \in {a, HashMade(a)}
  BY <1>1
<1> HIDE DEF a
<1>4. HashMade(a) \in {a, ShowCurrentItem(m)}
  BY DEF HashMade
<1>5. m = n
  BY <1>2, Zenon DEF GoodSide, SideFields
<1>6. GoodSide(n)
  BY <1>2, HashKeepsGood, Zenon
<1> HIDE DEF m, n
<1>7. GoodSide(ShowCurrentItem(m))
  BY <1>5, <1>6, ShowCurrentItemKeepsGood
<1> QED BY <1>2, <1>3, <1>4, <1>7

LEMMA ClickItemKeepsGood ==
  ASSUME GoodSide(side), ClickItem
  PROVE  GoodSide(side')
<1>1. PICK page \in side.items : side' = [side EXCEPT !.item = page]
  BY DEF ClickItem
<1> DEFINE d == [side EXCEPT !.item = page]
<1>2. side \in SideFields
  BY DEF GoodSide
<1>3. page \in 0..SidebarPages
  BY <1>2, SideTypes, SidebarAssumption DEF SidebarPageSet
<1>4. d \in SideFields
  BY <1>2, <1>3 DEF SideFields
<1>5. /\ SameDocument(side, d) /\ SameView(side, d) /\ SameTrees(side, d) /\ SameButton(side, d)
      /\ d.sidebarSet = side.sidebarSet /\ d.disabled = side.disabled
      /\ d.items = side.items /\ d.hashOf = side.hashOf /\ d.item = page
  BY <1>2 DEF SideFields, SameDocument, SameView, SameTrees, SameButton
<1> HIDE DEF d
<1>6. d.hashOf \in {0, side.document} /\ (d.item # 0 => d.item \in side.items)
  BY <1>5 DEF GoodSide, Itemized
<1>7. GoodSide(d)
  BY <1>4, <1>5, <1>6, MarkingKeepsGood
<1> QED BY <1>1, <1>7 DEF d

LEMMA ClickLayerKeepsGood ==
  ASSUME GoodSide(side), ClickLayer
  PROVE  GoodSide(side')
<1>1. PICK config \in {{l} : l \in Layers} \cup {{}} : side' = ShowLayers(side, config)
  BY DEF ClickLayer
<1>2. config \in SUBSET Layers
  OBVIOUS
<1> QED BY <1>1, <1>2, ShowLayersKeepsGood

LEMMA ResetLayersAskedKeepsGood ==
  ASSUME GoodSide(side), ResetLayersAsked
  PROVE  GoodSide(side')
BY AskingOnceMoreKeepsGood DEF ResetLayersAsked

LEMMA ResetLayersAnsweredKeepsGood ==
  ASSUME GoodSide(side), ResetLayersAnswered
  PROVE  GoodSide(side')
<1>1. PICK d \in Numbers, config \in {{}, Layers} :
        side' = LET s == Answered(<<"reset", d>>)
                IN  IF d # s.document THEN s ELSE RenderLayers(ShowLayers(s, config))
  BY DEF ResetLayersAnswered
<1> DEFINE s == Answered(<<"reset", d>>)
           t == ShowLayers(s, config)
<1>2. GoodSide(s)
  BY AnsweredFacts
<1>3. side' \in {s, RenderLayers(t)}
  BY <1>1
<1> HIDE DEF s
<1>4. config \in SUBSET Layers
  OBVIOUS
<1>5. GoodSide(t)
  BY <1>2, <1>4, ShowLayersKeepsGood
<1> HIDE DEF t
<1>6. GoodSide(RenderLayers(t))
  BY <1>5, RenderLayersKeepsGood DEF GoodSide
<1> QED BY <1>2, <1>3, <1>6

----------------------------------------------------------------------------
(* The theorem                                                             *)

LEMMA SidebarInitIsGood ==
  ASSUME SidebarInit
  PROVE  GoodSide(side) /\ clicks \in 0..MaxClicks
<1>0. PICK trees \in TreeSets :
        \E before \in [1..SidebarDocs -> {"UNKNOWN", "NONE"} \cup trees] :
          side = [trees |-> trees, opened |-> 0, document |-> 0, closing |-> 0, asked |-> {},
               isOpen |-> FALSE,
               active |-> "THUMBS", initialSet |-> FALSE, sidebarSet |-> FALSE,
               eventSent |-> FALSE, told |-> "NONE",
               stored |-> [d \in Numbers |-> IF d = 0 THEN "UNKNOWN" ELSE before[d]], disabled |-> {},
               currentButton |-> FALSE, page |-> 1, loaded |-> FALSE, early |-> FALSE,
               treeOf |-> [t \in Trees |-> 0], items |-> {}, capability |-> "none",
               hash |-> "none", hashOf |-> 0, item |-> 0, files |-> {}, queue |-> {},
               rendered |-> FALSE, pendingEvent |-> FALSE, waits |-> {},
               config |-> {}, boxes |-> {}, late |-> FALSE]
  BY DEF SidebarInit
<1>1. PICK before \in [1..SidebarDocs -> {"UNKNOWN", "NONE"} \cup trees] :
        side = [trees |-> trees, opened |-> 0, document |-> 0, closing |-> 0, asked |-> {},
               isOpen |-> FALSE,
               active |-> "THUMBS", initialSet |-> FALSE, sidebarSet |-> FALSE,
               eventSent |-> FALSE, told |-> "NONE",
               stored |-> [d \in Numbers |-> IF d = 0 THEN "UNKNOWN" ELSE before[d]], disabled |-> {},
               currentButton |-> FALSE, page |-> 1, loaded |-> FALSE, early |-> FALSE,
               treeOf |-> [t \in Trees |-> 0], items |-> {}, capability |-> "none",
               hash |-> "none", hashOf |-> 0, item |-> 0, files |-> {}, queue |-> {},
               rendered |-> FALSE, pendingEvent |-> FALSE, waits |-> {},
               config |-> {}, boxes |-> {}, late |-> FALSE]
  BY <1>0
<1> DEFINE stored == [d \in Numbers |-> IF d = 0 THEN "UNKNOWN" ELSE before[d]]
           treeOf == [t \in Trees |-> 0]
<1>2. stored \in [Numbers -> {"UNKNOWN"} \cup SidebarViews]
  <2>1. trees \subseteq SidebarViews
    BY SidebarAssumption, TreeNames
  <2>2. \A d \in Numbers : d # 0 => d \in 1..SidebarDocs
    BY SidebarAssumption DEF Numbers
  <2> QED BY <2>1, <2>2, TreeNames
<1>3. treeOf \in [Trees -> Numbers] /\ \A t \in Trees : treeOf[t] = 0
  BY TreeNames
<1>4. /\ 1 \in SidebarPageSet /\ 0 \in 0..SidebarPages /\ 0 \in Numbers /\ 0 \in 0..MaxClicks
      /\ "THUMBS" \in SidebarViews \ {"NONE"} /\ "NONE" \in SidebarViews
  BY SidebarAssumption, TreeNames DEF SidebarPageSet
<1> HIDE DEF stored, treeOf
<1>5. side \in SideFields
  BY <1>1, <1>2, <1>3, <1>4 DEF SideFields, stored, treeOf
<1>6. /\ ~side.isOpen /\ side.told = "NONE" /\ side.active = "THUMBS" /\ side.disabled = {}
      /\ ~side.eventSent /\ ~side.sidebarSet /\ ~side.currentButton /\ ~side.loaded
      /\ side.capability = "none" /\ side.treeOf = treeOf /\ side.asked = {}
      /\ side.items = {} /\ side.hashOf = 0 /\ side.item = 0 /\ ~side.pendingEvent
      /\ side.document = 0 /\ side.opened = 0
  BY <1>1 DEF treeOf
<1>7. Shown(side)
  BY <1>6 DEF Shown, VisibleView
<1>8. Rooted(side) /\ OutlineFits(side) /\ FilesFit(side) /\ LayersFit(side)
  BY <1>3, <1>6, TreeNames DEF Rooted, OutlineFits, FilesFit, LayersFit
<1>9. Itemized(side) /\ Enabled(side) /\ Requested(side)
  BY <1>6 DEF Itemized, Enabled, Requested
<1>10. clicks \in 0..MaxClicks
  BY <1>4 DEF SidebarInit
<1> QED BY <1>5, <1>7, <1>8, <1>9, <1>10 DEF GoodSide

LEMMA SidebarStepKeepsGood ==
  ASSUME GoodSide(side), clicks \in 0..MaxClicks, [SidebarNext]_sidebarVars
  PROVE  GoodSide(side') /\ clicks' \in 0..MaxClicks
<1>1. GoodSide(side')
  <2>1. CASE UNCHANGED sidebarVars
    BY <2>1 DEF sidebarVars
  <2>2. CASE LoadDocument \/ UnloadDocument \/ WorkerEnds
    BY <2>2, LoadDocumentKeepsGood, UnloadDocumentKeepsGood, WorkerEndsKeepsGood
  <2>3. CASE InitialView \/ InitialViewAgain \/ PagesLoaded \/ OnePageDrawn
    BY <2>3, InitialViewKeepsGood, InitialViewAgainKeepsGood, PagesLoadedKeepsGood,
       OnePageDrawnKeepsGood
  <2>4. CASE OutlineAnswered \/ AttachmentsAnswered \/ LayersAnswered
    BY <2>4, OutlineAnsweredKeepsGood, AttachmentsAnsweredKeepsGood, LayersAnsweredKeepsGood
  <2>5. CASE FileAnnotation \/ EmptyTreeTold
    BY <2>5, FileAnnotationKeepsGood, EmptyTreeToldKeepsGood
  <2>6. CASE ToggleSide \/ ChooseView \/ GoToPage
    BY <2>6, ToggleSideKeepsGood, ChooseViewKeepsGood, GoToPageKeepsGood
  <2>7. CASE CurrentOutlineItem \/ HashAnswered \/ ClickItem
    BY <2>7, CurrentOutlineItemKeepsGood, HashAnsweredKeepsGood, ClickItemKeepsGood
  <2>8. CASE ClickLayer \/ ResetLayersAsked \/ ResetLayersAnswered
    BY <2>8, ClickLayerKeepsGood, ResetLayersAskedKeepsGood, ResetLayersAnsweredKeepsGood
  <2> QED BY <2>1, <2>2, <2>3, <2>4, <2>5, <2>6, <2>7, <2>8 DEF SidebarNext
<1>2. clicks' \in 0..MaxClicks
  <2>1. clicks' = clicks \/ Clicked
    BY DEF SidebarNext, sidebarVars, LoadDocument, UnloadDocument, WorkerEnds, InitialView,
       InitialViewAgain, PagesLoaded, OnePageDrawn, OutlineAnswered, AttachmentsAnswered,
       LayersAnswered, FileAnnotation, EmptyTreeTold, ToggleSide, ChooseView, GoToPage,
       CurrentOutlineItem, HashAnswered, ClickItem, ClickLayer, ResetLayersAsked,
       ResetLayersAnswered
  <2>2. Clicked => clicks' = clicks + 1 /\ clicks < MaxClicks
    BY DEF Clicked
  <2> QED BY <2>1, <2>2, SidebarAssumption
<1> QED BY <1>1, <1>2

LEMMA GoodSideIsSound ==
  ASSUME GoodSide(side), clicks \in 0..MaxClicks
  PROVE  SidebarIsSound
<1>1. SidebarTypeOK /\ ActiveViewHasATree
  BY DEF GoodSide, Shown, SidebarTypeOK, ActiveViewHasATree
<1>2. TheViewIsStored
  BY DEF GoodSide, Shown, TheViewIsStored
<1>3. ButtonsFitTheTrees
  <2>1. ASSUME NEW t \in Trees, side.treeOf[t] # 0
        PROVE  \/ t = "ATTACHMENTS" /\ side.pendingEvent
               \/ (t \in side.disabled) = (CASE t = "OUTLINE" -> side.items = {}
                                             [] t = "ATTACHMENTS" -> side.files = {}
                                             [] OTHER -> Layers = {})
    <3>1. CASE t = "OUTLINE"
      <4>1. "OUTLINE" \in side.disabled <=> side.items = {}
        BY <2>1, <3>1 DEF GoodSide, OutlineFits
      <4> QED BY <3>1, <4>1
    <3>2. CASE t = "ATTACHMENTS" /\ ~side.pendingEvent
      <4>1. "ATTACHMENTS" \in side.disabled <=> side.files = {}
        BY <2>1, <3>2 DEF GoodSide, FilesFit
      <4> QED BY <3>2, <4>1
    <3>3. CASE t = "LAYERS"
      <4>1. "LAYERS" \in side.disabled <=> Layers = {}
        BY <2>1, <3>3 DEF GoodSide, LayersFit
      <4> QED BY <3>3, <4>1
    <3>4. CASE t = "ATTACHMENTS" /\ side.pendingEvent
      BY <3>4
    <3> QED BY <3>1, <3>2, <3>3, <3>4 DEF Trees
  <2> QED BY <2>1 DEF ButtonsFitTheTrees
<1>4. CurrentItemCanBeFound
  BY DEF GoodSide, Enabled, PagesThere, CurrentItemCanBeFound
<1>5. TreesOfTheDocument
  BY DEF GoodSide, Rooted, Itemized, TreesOfTheDocument
<1>6. BoxesShowTheLayers
  BY DEF GoodSide, LayersFit, BoxesShowTheLayers
<1> QED BY <1>1, <1>2, <1>3, <1>4, <1>5, <1>6 DEF SidebarIsSound

\* The sidebar shows, stores and offers what the document that is open has, for
\* any number of pages, documents, files and layers.
THEOREM SidebarCorrect == SidebarSpec => []SidebarIsSound
<1> DEFINE I == GoodSide(side) /\ clicks \in 0..MaxClicks
<1>1. SidebarInit => I
  BY SidebarInitIsGood
<1>2. I /\ [SidebarNext]_sidebarVars => I'
  BY SidebarStepKeepsGood DEF GoodSide
<1>3. I => SidebarIsSound
  BY GoodSideIsSound
<1> QED BY <1>1, <1>2, <1>3, PTL DEF SidebarSpec

----------------------------------------------------------------------------
(* The modes of the viewer                                                 *)

\* Of a presentation one timeout to enter and one to leave are due, in turn.
InTurn(timeouts) ==
  \A i, j \in DOMAIN timeouts :
    i < j /\ timeouts[i].run \in {"enter", "exit"} /\ timeouts[j].run \in {"enter", "exit"} =>
      timeouts[i].run = "enter" /\ timeouts[j].run = "exit"

Due(timeouts, run) == \E i \in DOMAIN timeouts : timeouts[i].run = run

\* The states of the viewer follow those of the browser, the last of them late.
Presented(m) ==
  /\ InTurn(m.timeouts)
  /\ m.listening <=> m.state # "NORMAL"
  /\ m.full = "asked" <=> m.state = "CHANGING"
  /\ m.full = "yes" => m.state = "FULLSCREEN"
  /\ Due(m.timeouts, "exit") <=> m.full = "no" /\ m.state = "FULLSCREEN"
  /\ Due(m.timeouts, "enter") => m.state = "FULLSCREEN"

\* What the presentation shows, and what it will put back.
Entering(m) == m.state = "FULLSCREEN" /\ ~Due(m.timeouts, "enter")
ShownView(m) ==
  IF Entering(m)
    THEN [scroll |-> "PAGE", scale |-> "page-fit",
          spread |-> IF m.args.spreads THEN 0 ELSE m.chosen.spread]
  ELSE m.chosen

PutBack(m) ==
  ~m.hurried =>
    /\ m.stored = m.chosen.scroll
    /\ m.state # "NORMAL" => m.document = "shown" /\ m.args.view = m.chosen
    /\ m.view = ShownView(m)

\* The tools are those of the editor mode and of the state that the cursor knows.
Handy(c, tool) ==
  /\ IF c.prev = "null" THEN c.active = tool ELSE c.active = "SELECT" /\ c.prev = tool
  /\ c.editor # "NONE" \/ c.state = "FULLSCREEN" => c.prev # "null"
  /\ c.editor = "NONE" /\ c.state = "NORMAL" => c.prev = "null"

Handed(m) ==
  /\ Handy(m.cursor, m.tool)
  /\ m.document = "shown" => m.cursor.editor = m.editor
  /\ m.cursor.state = m.state \/ (m.state = "CHANGING" /\ m.cursor.state = "NORMAL")

\* All switches wait for the mode that was asked for last, unless that was passed
\* over; a timeout is that of a switch that waits.
Switched(m) ==
  /\ m.asked # "passed" => \A s \in m.switch : s.mode = m.asked
  /\ ~m.rearmed =>
       \A i \in DOMAIN m.timeouts : m.timeouts[i].run \in Editors =>
         /\ m.timeouts[i].latest /\ m.switch # {}
         /\ \A s \in m.switch : s.ids = {} /\ s.mode = m.timeouts[i].run
         /\ \A j \in DOMAIN m.timeouts : m.timeouts[j].run \in Editors => j = i

Laid(m) ==
  m.document # "none" =>
    m.laid = IF m.view.scroll = "PAGE" THEN SpreadOf(m.page, m.view.spread) ELSE PageNumbers

GoodModes(m) ==
  m \in ModesFields /\ Presented(m) /\ PutBack(m) /\ Handed(m) /\ Switched(m) /\ Laid(m)

LEMMA ModesTypes ==
  ASSUME NEW m \in ModesFields
  PROVE  /\ m.document \in {"none", "loading", "shown"} /\ m.view \in Views
         /\ m.page \in PageNumbers /\ m.laid \in SUBSET PageNumbers
         /\ m.editor \in EditorModes /\ m.switch \in SUBSET Switches
         /\ m.timeouts \in Seq(Timeouts) /\ m.full \in {"no", "asked", "yes"}
         /\ m.listening \in BOOLEAN /\ m.state \in States /\ m.args \in Args
         /\ m.cursor \in Cursors /\ m.stored \in Scrolls \cup {"PAGE"} /\ m.chosen \in Views
         /\ m.tool \in Tools /\ m.asked \in EditorModes \cup {"passed"} /\ m.hurried \in BOOLEAN
         /\ m.rearmed \in BOOLEAN
BY DEF ModesFields

\* What a timeout is for is known from run.
LEMMA TimeoutTypes ==
  ASSUME NEW t \in Timeouts
  PROVE  /\ t.run \in {"enter", "exit"} => t.page \in PageNumbers
         /\ t.run \in {"enter", "exit"} \/ t.run \in Editors
         /\ t.run \in Editors =>
              /\ t.latest \in BOOLEAN /\ t.run \notin {"enter", "exit"}
              /\ t = [run |-> t.run, latest |-> t.latest]
BY ModesAssumption DEF Timeouts

----------------------------------------------------------------------------
(* The timeouts that are due                                               *)

\* u are the timeouts of t without the k-th.
Thinned(t, u, k) ==
  /\ u \in Seq(Timeouts) /\ Len(u) = Len(t) - 1
  /\ \A i \in 1..Len(u) : u[i] = IF i < k THEN t[i] ELSE t[i + 1]

LEMMA TailThins ==
  ASSUME NEW t \in Seq(Timeouts), t # <<>>
  PROVE  Thinned(t, Tail(t), 1) /\ 1 \in 1..Len(t) /\ Head(t) = t[1] /\ Head(t) \in Timeouts
<1>1. Len(t) \in Nat /\ Len(t) # 0
  BY EmptySeq, LenProperties
<1>2. /\ Head(t) \in Timeouts /\ Tail(t) \in Seq(Timeouts) /\ Len(Tail(t)) = Len(t) - 1
      /\ \A i \in 1..Len(Tail(t)) : Tail(t)[i] = t[i + 1]
  BY HeadTailProperties
<1>3. Head(t) = t[1]
  OBVIOUS
<1>4. \A i \in 1..Len(Tail(t)) : ~(i < 1)
  BY <1>1, <1>2
<1> QED BY <1>1, <1>2, <1>3, <1>4 DEF Thinned

LEMMA RemoveThins ==
  ASSUME NEW t \in Seq(Timeouts), NEW k \in 1..Len(t)
  PROVE  Thinned(t, RemoveAt(t, k), k)
<1> DEFINE a == SubSeq(t, 1, k - 1)
           b == SubSeq(t, k + 1, Len(t))
           n == Len(t)
<1>1. n \in Nat /\ k \in Int /\ 1 <= k /\ k <= n /\ \A i \in 1..n : t[i] \in Timeouts
  BY ElementOfSeq, LenProperties
<1>2. /\ a \in Seq(Timeouts) /\ Len(a) = k - 1
      /\ \A i \in 1..(k - 1) : a[i] = t[i]
  <2>1. \A i \in 1..(k - 1) : t[i] \in Timeouts
    BY <1>1
  <2>2. /\ a \in Seq(Timeouts) /\ Len(a) = IF 1 <= k - 1 THEN (k - 1) - 1 + 1 ELSE 0
        /\ \A i \in 1..((k - 1) - 1 + 1) : a[i] = t[1 + i - 1]
    BY <1>1, <2>1, SubSeqProperties
  <2> HIDE DEF a
  <2>3. Len(a) = k - 1 /\ (k - 1) - 1 + 1 = k - 1
    BY <1>1, <2>2
  <2>4. \A i \in 1..(k - 1) : 1 + i - 1 = i
    BY <1>1
  <2> QED BY <2>2, <2>3, <2>4
<1>3. /\ b \in Seq(Timeouts) /\ Len(b) = n - k
      /\ \A i \in 1..(n - k) : b[i] = t[k + i]
  <2>1. \A i \in (k + 1)..n : t[i] \in Timeouts
    BY <1>1
  <2>2. /\ b \in Seq(Timeouts) /\ Len(b) = IF k + 1 <= n THEN n - (k + 1) + 1 ELSE 0
        /\ \A i \in 1..(n - (k + 1) + 1) : b[i] = t[(k + 1) + i - 1]
    BY <1>1, <2>1, SubSeqProperties
  <2> HIDE DEF b
  <2>3. Len(b) = n - k /\ n - (k + 1) + 1 = n - k
    BY <1>1, <2>2
  <2>4. \A i \in 1..(n - k) : (k + 1) + i - 1 = k + i
    BY <1>1
  <2> QED BY <2>2, <2>3, <2>4
<1> DEFINE u == a \o b
<1>4. RemoveAt(t, k) = u
  BY DEF RemoveAt
<1> HIDE DEF a, b
<1>5. /\ u \in Seq(Timeouts) /\ Len(u) = Len(a) + Len(b)
      /\ \A i \in 1..(Len(a) + Len(b)) : u[i] = IF i <= Len(a) THEN a[i] ELSE b[i - Len(a)]
  BY <1>2, <1>3, ConcatProperties
<1> HIDE DEF u
<1>6. Len(u) = n - 1
  BY <1>1, <1>2, <1>3, <1>5
<1>7. ASSUME NEW i \in 1..Len(u)
      PROVE  u[i] = IF i < k THEN t[i] ELSE t[i + 1]
  <2>1. u[i] = IF i <= k - 1 THEN a[i] ELSE b[i - (k - 1)]
    BY <1>2, <1>5
  <2>2. CASE i < k
    <3>1. i <= k - 1 /\ i \in 1..(k - 1)
      BY <1>1, <2>2
    <3> QED BY <1>2, <2>1, <2>2, <3>1
  <2>3. CASE ~(i < k)
    <3>1. ~(i <= k - 1) /\ i - (k - 1) \in 1..(n - k) /\ k + (i - (k - 1)) = i + 1
      BY <1>1, <1>6, <2>3
    <3> QED BY <1>3, <2>1, <2>3, <3>1
  <2> QED BY <2>2, <2>3
<1> QED BY <1>4, <1>5, <1>6, <1>7 DEF Thinned, n

\* The timeouts that remain are due in the order they were.
LEMMA ThinnedFacts ==
  ASSUME NEW t \in Seq(Timeouts), NEW k \in 1..Len(t), NEW u, Thinned(t, u, k)
  PROVE  /\ InTurn(t) => InTurn(u)
         /\ \A run : Due(u, run) => Due(t, run)
         /\ \A run : Due(t, run) /\ t[k].run # run => Due(u, run)
         /\ \A i \in DOMAIN u :
              \E g \in DOMAIN t :
                /\ u[i] = t[g] /\ g # k
                /\ \A j \in DOMAIN u : j # i => \E h \in DOMAIN t : u[j] = t[h] /\ h # g
<1> DEFINE g(i) == IF i < k THEN i ELSE i + 1
<1>1. /\ Len(t) \in Nat /\ k \in Nat /\ Len(u) = Len(t) - 1
      /\ DOMAIN t = 1..Len(t) /\ DOMAIN u = 1..Len(u)
  BY LenProperties DEF Thinned
<1>2. \A i \in DOMAIN u : g(i) \in DOMAIN t /\ u[i] = t[g(i)] /\ g(i) # k
  BY <1>1 DEF Thinned
<1>3. \A i, j \in DOMAIN u : (i < j => g(i) < g(j)) /\ (i # j => g(i) # g(j))
  BY <1>1
<1>4. \A h \in DOMAIN t : h # k => \E i \in DOMAIN u : g(i) = h
  <2>1. ASSUME NEW h \in DOMAIN t, h # k
        PROVE  \E i \in DOMAIN u : g(i) = h
    <3>1. CASE h < k
      <4>1. h \in DOMAIN u /\ g(h) = h
        BY <1>1, <3>1
      <4> QED BY <4>1
    <3>2. CASE h > k
      <4>1. h - 1 \in DOMAIN u /\ g(h - 1) = h
        BY <1>1, <3>2
      <4> QED BY <4>1
    <3> QED BY <1>1, <2>1, <3>1, <3>2
  <2> QED BY <2>1
<1> HIDE DEF g
<1>5. InTurn(t) => InTurn(u)
  BY <1>2, <1>3 DEF InTurn
<1>6. ASSUME NEW run, Due(u, run)
      PROVE  Due(t, run)
  BY <1>2, <1>6 DEF Due
<1>7. ASSUME NEW run, Due(t, run), t[k].run # run
      PROVE  Due(u, run)
  <2>1. PICK h \in DOMAIN t : t[h].run = run
    BY <1>7 DEF Due
  <2>2. PICK i \in DOMAIN u : g(i) = h
    BY <1>4, <1>7, <2>1
  <2> QED BY <1>2, <2>1, <2>2 DEF Due
<1>8. ASSUME NEW i \in DOMAIN u
      PROVE  \E e \in DOMAIN t :
                /\ u[i] = t[e] /\ e # k
                /\ \A j \in DOMAIN u : j # i => \E h \in DOMAIN t : u[j] = t[h] /\ h # e
  <2>1. \A j \in DOMAIN u : j # i => g(j) \in DOMAIN t /\ u[j] = t[g(j)] /\ g(j) # g(i)
    BY <1>2, <1>3
  <2>2. g(i) \in DOMAIN t /\ u[i] = t[g(i)] /\ g(i) # k
    BY <1>2
  <2> QED BY <2>1, <2>2
<1> QED BY <1>5, <1>6, <1>7, <1>8

\* A timeout of the presentation is set when none that comes after it is due.
LEMMA AppendFacts ==
  ASSUME NEW t \in Seq(Timeouts), NEW e \in Timeouts
  PROVE  LET u == Append(t, e) IN
         /\ u \in Seq(Timeouts) /\ DOMAIN u = 1..(Len(t) + 1) /\ DOMAIN t = 1..Len(t)
         /\ u[Len(t) + 1] = e /\ \A i \in DOMAIN t : u[i] = t[i]
         /\ \A run : Due(u, run) <=> Due(t, run) \/ e.run = run
         /\ InTurn(t) /\ e.run \in Editors => InTurn(u)
         /\ InTurn(t) /\ e.run = "enter" /\ ~Due(t, "enter") /\ ~Due(t, "exit") => InTurn(u)
         /\ InTurn(t) /\ e.run = "exit" /\ ~Due(t, "exit") => InTurn(u)
<1> DEFINE u == Append(t, e)
           n == Len(t)
<1>1. /\ u \in Seq(Timeouts) /\ Len(u) = n + 1 /\ u[n + 1] = e
      /\ \A i \in 1..n : u[i] = t[i]
      /\ n \in Nat /\ DOMAIN t = 1..n
  BY AppendProperties, LenProperties
<1>2. DOMAIN u = 1..(n + 1)
  BY <1>1, LenProperties
<1> HIDE DEF u, n
<1>3. \A i \in DOMAIN u : i \in DOMAIN t \/ i = n + 1
  BY <1>1, <1>2
<1>4. \A i \in DOMAIN t : i \in DOMAIN u /\ u[i] = t[i] /\ i < n + 1
  BY <1>1, <1>2
<1>5. n + 1 \in DOMAIN u
  BY <1>1, <1>2
<1>6. ASSUME NEW run
      PROVE  Due(u, run) <=> Due(t, run) \/ e.run = run
  BY <1>1, <1>3, <1>4, <1>5 DEF Due
<1>7. ASSUME InTurn(t),
             \/ e.run \in Editors
             \/ e.run = "enter" /\ ~Due(t, "enter") /\ ~Due(t, "exit")
             \/ e.run = "exit" /\ ~Due(t, "exit")
      PROVE  InTurn(u)
  <2>1. ASSUME NEW i \in DOMAIN u, NEW j \in DOMAIN u, i < j,
               u[i].run \in {"enter", "exit"}, u[j].run \in {"enter", "exit"}
        PROVE  u[i].run = "enter" /\ u[j].run = "exit"
    <3>1. i \in DOMAIN t
      BY <1>1, <1>2, <2>1
    <3>2. CASE j \in DOMAIN t
      BY <1>4, <1>7, <2>1, <3>1, <3>2 DEF InTurn
    <3>3. CASE j = n + 1
      <4>1. e.run \notin Editors
        BY <1>1, <2>1, <3>3, ModesAssumption
      <4> QED BY <1>1, <1>4, <1>7, <2>1, <3>1, <3>3, <4>1 DEF Due
    <3> QED BY <1>3, <3>2, <3>3
  <2> QED BY <2>1 DEF InTurn
<1> QED BY <1>1, <1>2, <1>4, <1>6, <1>7 DEF u, n

\* Only the timeout that was set last can be taken back.
LEMMA SetTimeoutFacts ==
  ASSUME NEW t \in Seq(Timeouts), NEW mode \in Editors
  PROVE  LET u == SetTimeout(t, mode) IN
         /\ u \in Seq(Timeouts) /\ (InTurn(t) => InTurn(u))
         /\ \A run \in {"enter", "exit"} : Due(u, run) <=> Due(t, run)
         /\ (\A i \in DOMAIN t : t[i].run \notin Editors) =>
              \A i \in DOMAIN u : u[i].run \in Editors =>
                /\ u[i].run = mode /\ u[i].latest
                /\ \A j \in DOMAIN u : u[j].run \in Editors => j = i
<1> DEFINE marked == [i \in DOMAIN t |->
             IF t[i].run \in {"enter", "exit"} THEN t[i] ELSE [t[i] EXCEPT !.latest = FALSE]]
           e == [run |-> mode, latest |-> TRUE]
           u == SetTimeout(t, mode)
<1>1. Len(t) \in Nat /\ DOMAIN t = 1..Len(t) /\ \A i \in 1..Len(t) : t[i] \in Timeouts
  BY LenProperties, ElementOfSeq
<1>2. \A i \in DOMAIN t : marked[i] \in Timeouts /\ marked[i].run = t[i].run
  <2>1. ASSUME NEW i \in DOMAIN t
        PROVE  marked[i] \in Timeouts /\ marked[i].run = t[i].run
    <3>1. CASE t[i].run \in {"enter", "exit"}
      BY <1>1, <3>1
    <3>2. CASE t[i].run \notin {"enter", "exit"}
      <4>1. t[i].run \in Editors /\ t[i] = [run |-> t[i].run, latest |-> t[i].latest]
        BY <1>1, <3>2, TimeoutTypes
      <4>2. marked[i] = [t[i] EXCEPT !.latest = FALSE]
        BY <3>2
      <4> DEFINE r == t[i].run
      <4>3. marked[i] = [run |-> r, latest |-> FALSE]
        BY <4>1, <4>2
      <4>4. r \in Editors
        BY <4>1
      <4> HIDE DEF r, marked
      <4>5. marked[i] \in Timeouts /\ marked[i].run = r
        BY <4>3, <4>4 DEF Timeouts
      <4> QED BY <4>5 DEF r
    <3> QED BY <3>1, <3>2
  <2> QED BY <2>1
<1>3. DOMAIN marked = 1..Len(t)
  BY <1>1
<1>4. u = Append(marked, e)
  BY DEF SetTimeout
<1> HIDE DEF marked, u
<1>5. marked \in Seq(Timeouts) /\ Len(marked) = Len(t)
  <2>1. marked = [i \in 1..Len(t) |-> marked[i]]
    BY <1>1, <1>3 DEF marked
  <2>2. \A i \in 1..Len(t) : marked[i] \in Timeouts
    BY <1>1, <1>2
  <2> QED BY <1>1, <2>1, <2>2, IsASeq, LenProperties, <1>3
<1>6. e \in Timeouts /\ e.run = mode /\ e.latest
  BY DEF Timeouts
<1> HIDE DEF e
<1>7. /\ u \in Seq(Timeouts) /\ DOMAIN u = 1..(Len(t) + 1)
      /\ u[Len(t) + 1] = e /\ \A i \in DOMAIN marked : u[i] = marked[i]
      /\ \A run : Due(u, run) <=> Due(marked, run) \/ e.run = run
      /\ InTurn(marked) /\ e.run \in Editors => InTurn(u)
  BY <1>4, <1>5, <1>6, AppendFacts
<1>8. InTurn(t) => InTurn(u)
  <2>1. InTurn(t) => InTurn(marked)
    BY <1>1, <1>2, <1>3 DEF InTurn
  <2> QED BY <1>6, <1>7, <2>1
<1>9. ASSUME NEW run \in {"enter", "exit"}
      PROVE  Due(u, run) <=> Due(t, run)
  <2>1. e.run # run
    BY <1>6, ModesAssumption
  <2>2. Due(marked, run) <=> Due(t, run)
    BY <1>1, <1>2, <1>3 DEF Due
  <2> QED BY <1>7, <2>1, <2>2
<1>10. ASSUME \A i \in DOMAIN t : t[i].run \notin Editors
       PROVE  \A i \in DOMAIN u : u[i].run \in Editors =>
                /\ u[i].run = mode /\ u[i].latest
                /\ \A j \in DOMAIN u : u[j].run \in Editors => j = i
  <2>1. \A i \in DOMAIN u : u[i].run \in Editors => i = Len(t) + 1
    <3>1. \A i \in DOMAIN u : i = Len(t) + 1 \/ i \in DOMAIN t
      BY <1>1, <1>7
    <3> QED BY <1>1, <1>2, <1>3, <1>7, <1>10, <3>1
  <2> QED BY <1>6, <1>7, <2>1
<1> QED BY <1>7, <1>8, <1>9, <1>10 DEF u

----------------------------------------------------------------------------
(* PDFCursorTools                                                          *)

LEMMA CursorTypes ==
  ASSUME NEW c \in Cursors
  PROVE  /\ c.active \in Tools /\ c.prev \in Tools \cup {"null"}
         /\ c.editor \in EditorModes /\ c.state \in States
         /\ c.prev # "null" => c.prev \in Tools
         /\ "SELECT" \in Tools /\ "null" \notin Tools /\ "NONE" \in EditorModes
BY DEF Cursors, Tools, EditorModes

\* Disabled, the tools keep the one of the reader; enabled, they have it again.
LEMMA DisableFacts ==
  ASSUME NEW c \in Cursors, NEW tool, IF c.prev = "null" THEN c.active = tool
                                      ELSE c.active = "SELECT" /\ c.prev = tool
  PROVE  LET d == DisableActive(c) IN
         /\ d \in Cursors /\ d.prev = tool /\ d.prev # "null" /\ d.active = "SELECT"
         /\ d.editor = c.editor /\ d.state = c.state
<1> DEFINE p == IF c.prev = "null" THEN c.active ELSE c.prev
           d == DisableActive(c)
<1>1. d = [c EXCEPT !.prev = p, !.active = "SELECT"]
  BY DEF DisableActive
<1>2. p \in Tools /\ p = tool /\ "SELECT" \in Tools /\ p # "null"
  BY CursorTypes
<1> HIDE DEF p, d
<1>3. d \in Cursors /\ d.prev = p /\ d.active = "SELECT" /\ d.editor = c.editor /\ d.state = c.state
  BY <1>1, <1>2 DEF Cursors
<1> QED BY <1>2, <1>3 DEF d

LEMMA EnableFacts ==
  ASSUME NEW c \in Cursors, NEW tool, IF c.prev = "null" THEN c.active = tool
                                      ELSE c.active = "SELECT" /\ c.prev = tool
  PROVE  LET d == EnableActive(c) IN
         /\ d \in Cursors /\ d.editor = c.editor /\ d.state = c.state
         /\ IF d.prev = "null" THEN d.active = tool ELSE d.active = "SELECT" /\ d.prev = tool
         /\ IF c.editor = "NONE" /\ c.state = "NORMAL" THEN d.prev = "null" ELSE d = c
<1> DEFINE d == EnableActive(c)
           p == c.prev
           e == [c EXCEPT !.active = p, !.prev = "null"]
<1>1. d = IF c.prev # "null" /\ c.editor = "NONE" /\ c.state = "NORMAL" THEN e ELSE c
  BY DEF EnableActive
<1>2. CASE d = c /\ ~(c.prev # "null" /\ c.editor = "NONE" /\ c.state = "NORMAL")
  BY <1>2
<1>3. CASE d = e /\ c.prev # "null" /\ c.editor = "NONE" /\ c.state = "NORMAL"
  <2>1. p \in Tools /\ p = tool
    BY <1>3, CursorTypes
  <2> HIDE DEF p
  <2>2. e \in Cursors /\ e.active = p /\ e.prev = "null" /\ e.editor = c.editor /\ e.state = c.state
    BY <2>1 DEF Cursors
  <2> HIDE DEF e, d
  <2> QED BY <1>3, <2>1, <2>2 DEF d
<1> QED BY <1>1, <1>2, <1>3

LEMMA EditorModeChangedFacts ==
  ASSUME NEW c \in Cursors, NEW tool, Handy(c, tool), NEW mode \in EditorModes
  PROVE  LET d == EditorModeChanged(c, mode) IN
         d \in Cursors /\ Handy(d, tool) /\ d.editor = mode /\ d.state = c.state
<1> DEFINE k == [c EXCEPT !.editor = mode]
           d == EditorModeChanged(c, mode)
<1>1. k \in Cursors /\ k.active = c.active /\ k.prev = c.prev /\ k.editor = mode /\ k.state = c.state
  BY DEF Cursors
<1>2. d = IF mode = "NONE" THEN EnableActive(k) ELSE DisableActive(k)
  BY DEF EditorModeChanged
<1> HIDE DEF k, d
<1>3. IF k.prev = "null" THEN k.active = tool ELSE k.active = "SELECT" /\ k.prev = tool
  BY <1>1 DEF Handy
<1>4. CASE mode = "NONE"
  <2>1. /\ d \in Cursors /\ d.editor = k.editor /\ d.state = k.state
        /\ IF d.prev = "null" THEN d.active = tool ELSE d.active = "SELECT" /\ d.prev = tool
        /\ IF k.editor = "NONE" /\ k.state = "NORMAL" THEN d.prev = "null" ELSE d = k
    BY <1>1, <1>2, <1>3, <1>4, EnableFacts
  <2> QED BY <1>1, <1>4, <2>1 DEF Handy, d
<1>5. CASE mode # "NONE"
  <2>1. /\ d \in Cursors /\ d.prev = tool /\ d.prev # "null" /\ d.active = "SELECT"
        /\ d.editor = k.editor /\ d.state = k.state
    BY <1>1, <1>2, <1>3, <1>5, DisableFacts
  <2> QED BY <1>1, <1>5, <2>1 DEF Handy, d
<1> QED BY <1>4, <1>5

LEMMA PresentationModeChangedFacts ==
  ASSUME NEW c \in Cursors, NEW tool, Handy(c, tool), NEW state \in States
  PROVE  LET d == PresentationModeChanged(c, state) IN
         d \in Cursors /\ Handy(d, tool) /\ d.editor = c.editor /\ d.state = state
<1> DEFINE k == [c EXCEPT !.state = state]
           d == PresentationModeChanged(c, state)
<1>1. k \in Cursors /\ k.active = c.active /\ k.prev = c.prev /\ k.editor = c.editor /\ k.state = state
  BY DEF Cursors
<1>2. d = CASE state = "NORMAL" -> EnableActive(k)
            [] state = "FULLSCREEN" -> DisableActive(k)
            [] OTHER -> k
  BY DEF PresentationModeChanged
<1> HIDE DEF k, d
<1>3. IF k.prev = "null" THEN k.active = tool ELSE k.active = "SELECT" /\ k.prev = tool
  BY <1>1 DEF Handy
<1>4. CASE state = "NORMAL"
  <2>1. /\ d \in Cursors /\ d.editor = k.editor /\ d.state = k.state
        /\ IF d.prev = "null" THEN d.active = tool ELSE d.active = "SELECT" /\ d.prev = tool
        /\ IF k.editor = "NONE" /\ k.state = "NORMAL" THEN d.prev = "null" ELSE d = k
    BY <1>1, <1>2, <1>3, <1>4, EnableFacts
  <2> QED BY <1>1, <1>4, <2>1 DEF Handy, d
<1>5. CASE state = "FULLSCREEN"
  <2>1. /\ d \in Cursors /\ d.prev = tool /\ d.prev # "null" /\ d.active = "SELECT"
        /\ d.editor = k.editor /\ d.state = k.state
    BY <1>1, <1>2, <1>3, <1>5, DisableFacts
  <2> QED BY <1>1, <1>5, <2>1 DEF Handy, d
<1>6. CASE state = "CHANGING"
  BY <1>1, <1>2, <1>3, <1>6 DEF Handy, d
<1> QED BY <1>4, <1>5, <1>6 DEF States

LEMMA ResetCursorFacts ==
  ASSUME NEW c \in Cursors, NEW tool, Handy(c, tool)
  PROVE  LET d == ResetCursor(c) IN
         d \in Cursors /\ Handy(d, tool) /\ d.state \in {c.state, "NORMAL"}
<1> DEFINE k == [c EXCEPT !.editor = "NONE", !.state = "NORMAL"]
           d == ResetCursor(c)
<1>1. CASE c.prev = "null"
  BY <1>1 DEF ResetCursor
<1>2. CASE c.prev # "null"
  <2>1. "NONE" \in EditorModes /\ "NORMAL" \in States
    BY DEF EditorModes, States
  <2>2. /\ k \in Cursors /\ k.active = c.active /\ k.prev = c.prev
        /\ k.editor = "NONE" /\ k.state = "NORMAL"
    BY <2>1 DEF Cursors
  <2>3. d = EnableActive(k)
    BY <1>2 DEF ResetCursor
  <2> HIDE DEF k, d
  <2>4. /\ d \in Cursors /\ d.editor = k.editor /\ d.state = k.state
        /\ IF d.prev = "null" THEN d.active = tool ELSE d.active = "SELECT" /\ d.prev = tool
        /\ IF k.editor = "NONE" /\ k.state = "NORMAL" THEN d.prev = "null" ELSE d = k
    BY <1>2, <2>2, <2>3, EnableFacts DEF Handy
  <2> QED BY <2>2, <2>4 DEF Handy, d
<1> QED BY <1>1, <1>2

----------------------------------------------------------------------------
(* Turning the page                                                        *)

\* The pages between p and the page that the button leads to.
Between(p, n) == {q \in PageNumbers : (p < q /\ q < n) \/ (n < q /\ q < p)}

\* The numbers from a up to b are b - a + 1 in number.
LEMMA CountUp ==
  ASSUME NEW a \in Int, NEW b \in Int, a <= b
  PROVE  Cardinality(a..b) = b - a + 1
BY FS_Interval

\* The pages from which all up to p are in the row.
InLine(p, row) == {q \in PageNumbers : \A r \in (IF q < p THEN q..p ELSE p..q) : r \in row}

\* In line, the pages that show next to the present one are a run from k to l.
LEMMA RunOf ==
  ASSUME NEW p \in PageNumbers, NEW row \in SUBSET PageNumbers,
         NEW run, run = InLine(p, row)
  PROVE  /\ \E k \in PageNumbers : /\ {p} \cup {q \in run : q <= p} = k..p /\ k <= p
                                   /\ \A q \in k..p : q # p => q \in row
         /\ \E l \in PageNumbers : /\ {p} \cup {q \in run : q >= p} = p..l /\ l >= p
                                   /\ \A q \in p..l : q # p => q \in row
<1>0. PagesCount \in Nat /\ PageNumbers = 1..PagesCount /\ p \in 1..PagesCount
  BY ModesAssumption DEF PageNumbers
<1> USE DEF InLine
<1>1. \A q \in run : q \in 1..PagesCount /\ q \in row /\ p \in row
  <2>1. ASSUME NEW q \in run
        PROVE  q \in 1..PagesCount /\ q \in row /\ p \in row
    <3>1. q \in 1..PagesCount /\ \A r \in (IF q < p THEN q..p ELSE p..q) : r \in row
      BY <1>0
    <3>2. q \in (IF q < p THEN q..p ELSE p..q) /\ p \in (IF q < p THEN q..p ELSE p..q)
      BY <1>0, <3>1
    <3> QED BY <3>1, <3>2
  <2> QED BY <2>1
<1>2. \A q \in run : \A r \in PageNumbers : (q <= r /\ r <= p) \/ (p <= r /\ r <= q) => r \in run
  <2>1. ASSUME NEW q \in run, NEW r \in PageNumbers, (q <= r /\ r <= p) \/ (p <= r /\ r <= q)
        PROVE  r \in run
    <3>1. q \in 1..PagesCount /\ \A s \in (IF q < p THEN q..p ELSE p..q) : s \in row
      BY <1>0
    <3>2. \A s \in (IF r < p THEN r..p ELSE p..r) : s \in (IF q < p THEN q..p ELSE p..q)
      BY <1>0, <2>1, <3>1
    <3> QED BY <3>1, <3>2
  <2> QED BY <2>1
<1>3. \E k \in PageNumbers : /\ {p} \cup {q \in run : q <= p} = k..p /\ k <= p
                             /\ \A q \in k..p : q # p => q \in row
  <2> DEFINE S == {p} \cup {q \in run : q <= p}
  <2>1. S \in SUBSET Nat /\ S # {} /\ S \subseteq PageNumbers
    BY <1>0, <1>1
  <2>2. PICK k \in S : \A q \in S : k <= q
    BY <2>1, LeastOf
  <2>3. k \in PageNumbers /\ k <= p
    BY <1>0, <2>1, <2>2
  <2>4. S = k..p
    <3>1. ASSUME NEW q \in S PROVE q \in k..p
      BY <1>0, <2>1, <2>2
    <3>2. ASSUME NEW q \in k..p PROVE q \in S
      <4>1. CASE q = p
        BY <4>1
      <4>2. CASE q # p
        <5>1. k # p /\ k \in run /\ q \in PageNumbers
          BY <1>0, <2>2, <2>3, <4>2
        <5> QED BY <1>0, <1>2, <5>1
      <4> QED BY <4>1, <4>2
    <3> QED BY <3>1, <3>2
  <2>5. \A q \in k..p : q # p => q \in row
    BY <1>1, <2>4
  <2> QED BY <2>3, <2>4, <2>5
<1>4. \E l \in PageNumbers : /\ {p} \cup {q \in run : q >= p} = p..l /\ l >= p
                             /\ \A q \in p..l : q # p => q \in row
  <2> DEFINE S == {p} \cup {q \in run : q >= p}
             T == {PagesCount - x : x \in S}
  <2>1. \A x \in S : x \in 1..PagesCount
    BY <1>0, <1>1
  <2>2. T \in SUBSET Nat /\ T # {}
    <3>1. \A x \in S : PagesCount - x \in Nat
      BY <1>0, <2>1
    <3>2. p \in S
      OBVIOUS
    <3> HIDE DEF S
    <3> QED BY <3>1, <3>2
  <2>3. PICK m \in T : \A y \in T : m <= y
    <3> HIDE DEF T
    <3> QED BY <2>2, LeastOf
  <2>4. PICK l \in S : m = PagesCount - l
    BY <2>3
  <2>5. \A x \in S : x <= l
    <3>1. ASSUME NEW x \in S PROVE x <= l
      <4>1. PagesCount - x \in T
        OBVIOUS
      <4>2. PagesCount - l <= PagesCount - x
        BY <2>3, <2>4, <4>1
      <4>3. x \in 1..PagesCount /\ l \in 1..PagesCount
        BY <2>1
      <4> QED BY <1>0, <4>2, <4>3
    <3> QED BY <3>1
  <2>6. l \in PageNumbers /\ l >= p
    BY <1>0, <2>1, <2>5
  <2>7. S = p..l
    <3>1. ASSUME NEW q \in S PROVE q \in p..l
      BY <1>0, <2>1, <2>5
    <3>2. ASSUME NEW q \in p..l PROVE q \in S
      <4>1. CASE q = p
        BY <4>1
      <4>2. CASE q # p
        <5>1. l # p /\ l \in run /\ q \in PageNumbers
          BY <1>0, <2>4, <2>6, <4>2
        <5> QED BY <1>0, <1>2, <5>1
      <4> QED BY <4>1, <4>2
    <3> QED BY <3>1, <3>2
  <2>8. \A q \in p..l : q # p => q \in row
    BY <1>1, <2>7
  <2> QED BY <2>6, <2>7, <2>8
<1> QED BY <1>3, <1>4

\* In line, as many pages are turned as show next to the present one.
LEMMA InLineFacts ==
  ASSUME NEW p \in PageNumbers, NEW row \in SUBSET PageNumbers, NEW a, NEW b, NEW run, run = InLine(p, row),
         a = Cardinality({p} \cup {q \in run : q >= p}),
         b = Cardinality({p} \cup {q \in run : q <= p})
  PROVE  /\ a \in Nat \ {0} /\ Between(p, p + a) \subseteq row
         /\ b \in Nat \ {0} /\ Between(p, p - b) \subseteq row
<1>0. PagesCount \in Nat /\ PageNumbers = 1..PagesCount /\ p \in 1..PagesCount
  BY ModesAssumption DEF PageNumbers
<1>1. /\ \E k \in PageNumbers : /\ {p} \cup {q \in run : q <= p} = k..p /\ k <= p
                                /\ \A q \in k..p : q # p => q \in row
      /\ \E l \in PageNumbers : /\ {p} \cup {q \in run : q >= p} = p..l /\ l >= p
                                /\ \A q \in p..l : q # p => q \in row
  BY RunOf
<1>2. PICK k \in PageNumbers : /\ {p} \cup {q \in run : q <= p} = k..p /\ k <= p
                               /\ \A q \in k..p : q # p => q \in row
  BY <1>1
<1>3. PICK l \in PageNumbers : /\ {p} \cup {q \in run : q >= p} = p..l /\ l >= p
                               /\ \A q \in p..l : q # p => q \in row
  BY <1>1
<1>4. k \in Int /\ l \in Int /\ p \in Int /\ k <= p /\ p <= l
  BY <1>0, <1>2, <1>3
<1>5. a = Cardinality(p..l) /\ b = Cardinality(k..p)
  BY <1>2, <1>3
<1>6. a = l - p + 1 /\ b = p - k + 1
  BY <1>4, <1>5, CountUp
<1>7. ASSUME NEW q \in Between(p, p + a) PROVE q \in row
  <2>1. q \in Int /\ p < q /\ q < p + a
    BY <1>0, <1>4, <1>6 DEF Between
  <2>2. q \in p..l /\ q # p
    BY <1>4, <1>6, <2>1
  <2> QED BY <1>3, <2>2
<1>8. ASSUME NEW q \in Between(p, p - b) PROVE q \in row
  <2>1. q \in Int /\ p - b < q /\ q < p
    BY <1>0, <1>4, <1>6 DEF Between
  <2>2. q \in k..p /\ q # p
    BY <1>4, <1>6, <2>1
  <2> QED BY <1>2, <2>2
<1>9. a \in Nat \ {0} /\ b \in Nat \ {0}
  BY <1>4, <1>6
<1> QED BY <1>7, <1>8, <1>9

\* A step onwards is at least one, and passes over no page that does not show.
LEMMA AdvanceFacts ==
  ASSUME NEW m \in ModesFields, NEW row \in SUBSET PageNumbers
  PROVE  LET a == PageAdvance(m, row, FALSE)
             b == PageAdvance(m, row, TRUE)
             beside == IF m.view.scroll = "WRAPPED" THEN row
                       ELSE SpreadOf(m.page, m.view.spread)
         IN  /\ a \in Nat \ {0} /\ Between(m.page, m.page + a) \subseteq beside
             /\ b \in Nat \ {0} /\ Between(m.page, m.page - b) \subseteq beside
<1> DEFINE p == m.page
           spread == m.view.spread
           run == {q \in PageNumbers : \A r \in (IF q < p THEN q..p ELSE p..q) : r \in row}
           first == p % 2 # spread - 1
           a == PageAdvance(m, row, FALSE)
           b == PageAdvance(m, row, TRUE)
           beside == IF m.view.scroll = "WRAPPED" THEN row ELSE SpreadOf(p, spread)
<1>0. PagesCount \in Nat /\ PageNumbers = 1..PagesCount /\ p \in 1..PagesCount /\ p \in PageNumbers
  BY ModesAssumption, ModesTypes DEF PageNumbers
<1>1. CASE m.view.scroll = "WRAPPED"
  <2>1. /\ a = Cardinality({p} \cup {q \in run : q >= p})
        /\ b = Cardinality({p} \cup {q \in run : q <= p})
        /\ beside = row
    BY <1>1 DEF PageAdvance
  <2> HIDE DEF a, b, beside, p
  <2>2. run = InLine(p, row)
    BY DEF InLine
  <2> HIDE DEF run
  <2>3. /\ a \in Nat \ {0} /\ Between(p, p + a) \subseteq row
        /\ b \in Nat \ {0} /\ Between(p, p - b) \subseteq row
    BY <1>0, <2>1, <2>2, InLineFacts
  <2>4. Between(p, p + a) \subseteq beside /\ Between(p, p - b) \subseteq beside
    BY <2>1, <2>3
  <2> QED BY <2>3, <2>4 DEF a, b, beside, p
<1>2. CASE m.view.scroll # "WRAPPED"
  <2>1. beside = SpreadOf(p, spread)
    BY <1>2
  <2>2. a = 1 \/ (a = 2 /\ first /\ spread # 0)
    BY <1>2 DEF PageAdvance
  <2>3. b = 1 \/ (b = 2 /\ ~first /\ spread # 0)
    BY <1>2 DEF PageAdvance
  <2>4. spread # 0 => SpreadOf(p, spread) = PageNumbers \cap (IF first THEN {p, p + 1} ELSE {p - 1, p})
    BY DEF SpreadOf
  <2> HIDE DEF a, b, beside, first, spread, p
  <2>5. a \in Nat \ {0} /\ b \in Nat \ {0}
    BY <2>2, <2>3
  <2>6. Between(p, p + a) \subseteq beside
    <3>1. CASE a = 1
      BY <1>0, <3>1 DEF Between
    <3>2. CASE a = 2 /\ first /\ spread # 0
      <4>1. \A q \in Between(p, p + a) : q = p + 1 /\ q \in PageNumbers
        BY <1>0, <3>2 DEF Between
      <4> QED BY <2>1, <2>4, <3>2, <4>1
    <3> QED BY <2>2, <3>1, <3>2
  <2>7. Between(p, p - b) \subseteq beside
    <3>1. CASE b = 1
      BY <1>0, <3>1 DEF Between
    <3>2. CASE b = 2 /\ ~first /\ spread # 0
      <4>1. \A q \in Between(p, p - b) : q = p - 1 /\ q \in PageNumbers
        BY <1>0, <3>2 DEF Between
      <4> QED BY <2>1, <2>4, <3>2, <4>1
    <3> QED BY <2>3, <3>1, <3>2
  <2> QED BY <2>5, <2>6, <2>7 DEF a, b, beside, first, spread, p
<1> QED BY <1>1, <1>2

----------------------------------------------------------------------------
(* PDFViewer                                                               *)

\* What an operation leaves alone.
KeptPages(m, d) ==
  d.document = m.document /\ d.view = m.view /\ d.page = m.page /\ d.laid = m.laid /\ d.stored = m.stored
KeptShow(m, d) ==
  d.full = m.full /\ d.listening = m.listening /\ d.state = m.state /\ d.args = m.args
KeptEditor(m, d) ==
  /\ d.editor = m.editor /\ d.switch = m.switch /\ d.timeouts = m.timeouts
  /\ d.cursor = m.cursor /\ d.asked = m.asked
KeptChoices(m, d) == d.chosen = m.chosen /\ d.tool = m.tool /\ d.hurried = m.hurried

\* An operation on the pages of the viewer keeps what is not theirs.
Moved(m, d) ==
  /\ d \in ModesFields /\ d.document = m.document /\ d.rearmed = m.rearmed
  /\ KeptShow(m, d) /\ KeptEditor(m, d) /\ KeptChoices(m, d)

LEMMA ViewTypes ==
  ASSUME NEW v \in Views
  PROVE  v.scroll \in Scrolls \cup {"PAGE"} /\ v.spread \in Spreads /\ v.scale \in {"auto", "page-fit"}
BY DEF Views

LEMMA ViewsEqual ==
  ASSUME NEW v \in Views, NEW w \in Views,
         v.scroll = w.scroll, v.spread = w.spread, v.scale = w.scale
  PROVE  v = w
BY DEF Views

LEMMA WithViewFacts ==
  ASSUME NEW m \in ModesFields, NEW v \in Views
  PROVE  LET d == [m EXCEPT !.view = v] IN
         Moved(m, d) /\ d.view = v /\ d.page = m.page /\ d.laid = m.laid /\ d.stored = m.stored
<1> DEFINE d == [m EXCEPT !.view = v]
<1>1. d \in ModesFields /\ d.view = v /\ d.document = m.document
  BY DEF ModesFields
<1>2. d.page = m.page /\ d.laid = m.laid /\ d.stored = m.stored /\ d.rearmed = m.rearmed
  BY DEF ModesFields
<1>3. KeptShow(m, d) /\ KeptEditor(m, d) /\ KeptChoices(m, d)
  BY DEF ModesFields, KeptShow, KeptEditor, KeptChoices
<1> HIDE DEF d
<1> QED BY <1>1, <1>2, <1>3 DEF Moved, d

LEMMA SpreadOfTypes ==
  ASSUME NEW p, NEW spread
  PROVE  SpreadOf(p, spread) \in SUBSET PageNumbers
BY DEF SpreadOf

LEMMA LayFacts ==
  ASSUME NEW m \in ModesFields
  PROVE  LET d == Lay(m) IN
         /\ Moved(m, d) /\ Laid(d)
         /\ d.view = m.view /\ d.page = m.page /\ d.stored = m.stored
<1> DEFINE l == IF m.view.scroll = "PAGE" THEN SpreadOf(m.page, m.view.spread) ELSE PageNumbers
           d == Lay(m)
<1>1. d = [m EXCEPT !.laid = l] /\ l \in SUBSET PageNumbers
  BY SpreadOfTypes DEF Lay
<1> HIDE DEF l, d
<1>2. d \in ModesFields /\ d.laid = l /\ d.document = m.document
  BY <1>1 DEF ModesFields
<1>3. d.view = m.view /\ d.page = m.page /\ d.stored = m.stored /\ d.rearmed = m.rearmed
  BY <1>1 DEF ModesFields
<1>4. KeptShow(m, d) /\ KeptEditor(m, d) /\ KeptChoices(m, d)
  BY <1>1 DEF ModesFields, KeptShow, KeptEditor, KeptChoices
<1>5. Laid(d)
  BY <1>2, <1>3 DEF Laid, l
<1> QED BY <1>2, <1>3, <1>4, <1>5 DEF Moved, d

LEMMA MovedTwice ==
  ASSUME NEW m, NEW n, NEW d, Moved(m, n), Moved(n, d)
  PROVE  Moved(m, d)
BY DEF Moved, KeptShow, KeptEditor, KeptChoices

\* Whatever the mode that is set, the pages of it are laid.
LEMMA SetScrollFacts ==
  ASSUME NEW m \in ModesFields, Laid(m), NEW scroll \in Scrolls \cup {"PAGE"}
  PROVE  LET d == SetScroll(m, scroll) IN
         /\ Moved(m, d) /\ Laid(d) /\ d.page = m.page
         /\ d.view.scroll = scroll /\ d.view.spread = m.view.spread /\ d.view.scale = m.view.scale
         /\ d.stored = IF m.view.scroll = scroll \/ m.document # "shown" \/ m.state = "FULLSCREEN"
                         THEN m.stored ELSE scroll
<1> DEFINE v == [m.view EXCEPT !.scroll = scroll]
           a == [m EXCEPT !.view = v]
           n == Stored(a, scroll)
           d == SetScroll(m, scroll)
<1>0. m.view \in Views
  BY ModesTypes
<1>1. /\ v \in Views /\ v.scroll = scroll
      /\ v.spread = m.view.spread /\ v.scale = m.view.scale
  BY <1>0 DEF Views
<1>2. d = IF m.view.scroll = scroll THEN m
          ELSE IF m.document = "none" THEN n ELSE UpdateScrollMode(n, m.view.scroll)
  BY DEF SetScroll
<1> HIDE DEF v, d
<1>3. Moved(m, a) /\ a.view = v /\ a.page = m.page /\ a.laid = m.laid /\ a.stored = m.stored
  BY <1>1, WithViewFacts
<1> HIDE DEF a
<1>4. /\ Moved(a, n) /\ n.view = a.view /\ n.page = a.page /\ n.laid = a.laid
      /\ n.stored = IF m.document # "shown" \/ m.state = "FULLSCREEN" THEN m.stored ELSE scroll
  <2>0. a \in ModesFields /\ a.document = m.document /\ a.state = m.state
    BY <1>3 DEF Moved, KeptShow
  <2>1. CASE a.document # "shown" \/ a.state = "FULLSCREEN"
    <3>1. n = a
      BY <2>1 DEF Stored
    <3> HIDE DEF n
    <3> QED BY <1>3, <2>0, <2>1, <3>1 DEF Moved, KeptShow, KeptEditor, KeptChoices
  <2>2. CASE ~(a.document # "shown" \/ a.state = "FULLSCREEN")
    <3>1. n = [a EXCEPT !.stored = scroll]
      BY <2>2 DEF Stored
    <3> HIDE DEF n
    <3>2. n \in ModesFields /\ n.stored = scroll /\ n.document = a.document /\ n.rearmed = a.rearmed
      BY <2>0, <3>1 DEF ModesFields
    <3>3. n.view = a.view /\ n.page = a.page /\ n.laid = a.laid
      BY <2>0, <3>1 DEF ModesFields
    <3>4. KeptShow(a, n) /\ KeptEditor(a, n) /\ KeptChoices(a, n)
      BY <2>0, <3>1 DEF ModesFields, KeptShow, KeptEditor, KeptChoices
    <3> QED BY <2>0, <2>2, <3>2, <3>3, <3>4 DEF Moved
  <2> QED BY <2>1, <2>2
<1> HIDE DEF n
<1>5. Moved(m, n) /\ n \in ModesFields /\ n.document = m.document
  <2>1. Moved(m, n)
    BY <1>3, <1>4, MovedTwice
  <2> QED BY <2>1 DEF Moved
<1>6. CASE m.view.scroll = scroll
  <2>1. d = m
    BY <1>2, <1>6
  <2> QED BY <1>6, <2>1 DEF d, Moved, KeptShow, KeptEditor, KeptChoices
<1>7. CASE m.view.scroll # scroll /\ m.document = "none"
  <2>1. d = n
    BY <1>2, <1>7
  <2> QED BY <1>1, <1>3, <1>4, <1>5, <1>7, <2>1 DEF d, Laid
<1>8. CASE m.view.scroll # scroll /\ m.document # "none" /\ scroll # "PAGE" /\ m.view.scroll # "PAGE"
  <2>1. d = n
    BY <1>1, <1>2, <1>3, <1>4, <1>8 DEF UpdateScrollMode
  <2>2. Laid(d)
    BY <1>1, <1>3, <1>4, <1>5, <1>8, <2>1 DEF Laid
  <2> QED BY <1>1, <1>3, <1>4, <1>5, <1>8, <2>1, <2>2 DEF d
<1>9. CASE m.view.scroll # scroll /\ m.document # "none" /\ (scroll = "PAGE" \/ m.view.scroll = "PAGE")
  <2>1. d = Lay(n)
    BY <1>1, <1>2, <1>3, <1>4, <1>9 DEF UpdateScrollMode
  <2>2. Moved(n, d) /\ Laid(d) /\ d.view = n.view /\ d.page = n.page /\ d.stored = n.stored
    BY <1>5, <2>1, LayFacts
  <2>3. Moved(m, d)
    BY <1>5, <2>2, MovedTwice
  <2> QED BY <1>1, <1>3, <1>4, <1>9, <2>2, <2>3 DEF d
<1> QED BY <1>6, <1>7, <1>8, <1>9

LEMMA SetSpreadFacts ==
  ASSUME NEW m \in ModesFields, Laid(m), NEW spread \in Spreads
  PROVE  LET d == SetSpread(m, spread) IN
         /\ Moved(m, d) /\ Laid(d) /\ d.page = m.page /\ d.stored = m.stored
         /\ d.view.spread = spread /\ d.view.scroll = m.view.scroll /\ d.view.scale = m.view.scale
<1> DEFINE v == [m.view EXCEPT !.spread = spread]
           n == [m EXCEPT !.view = v]
           d == SetSpread(m, spread)
<1>1. v \in Views /\ v.spread = spread /\ v.scroll = m.view.scroll /\ v.scale = m.view.scale
  BY ModesTypes DEF Views
<1>2. d = IF m.view.spread = spread THEN m ELSE IF m.document = "none" THEN n ELSE Lay(n)
  BY DEF SetSpread
<1> HIDE DEF v, d
<1>3. Moved(m, n) /\ n.view = v /\ n.page = m.page /\ n.laid = m.laid /\ n.stored = m.stored
  BY <1>1, WithViewFacts
<1> HIDE DEF n
<1>4. n \in ModesFields /\ n.document = m.document
  BY <1>3 DEF Moved
<1>5. CASE m.view.spread = spread
  <2>1. d = m
    BY <1>2, <1>5
  <2> QED BY <1>5, <2>1 DEF d, Moved, KeptShow, KeptEditor, KeptChoices
<1>6. CASE m.view.spread # spread /\ m.document = "none"
  <2>1. d = n
    BY <1>2, <1>6
  <2> QED BY <1>1, <1>3, <1>4, <1>6, <2>1 DEF d, Laid
<1>7. CASE m.view.spread # spread /\ m.document # "none"
  <2>1. d = Lay(n)
    BY <1>2, <1>7
  <2>2. Moved(n, d) /\ Laid(d) /\ d.view = n.view /\ d.page = n.page /\ d.stored = n.stored
    BY <1>4, <2>1, LayFacts
  <2>3. Moved(m, d)
    BY <1>3, <2>2, MovedTwice
  <2> QED BY <1>1, <1>3, <2>2, <2>3 DEF d
<1> QED BY <1>5, <1>6, <1>7

LEMMA SetScaleFacts ==
  ASSUME NEW m \in ModesFields, Laid(m), NEW scale \in {"auto", "page-fit"}
  PROVE  LET d == SetScale(m, scale) IN
         /\ Moved(m, d) /\ Laid(d) /\ d.page = m.page /\ d.stored = m.stored
         /\ d.view.spread = m.view.spread /\ d.view.scroll = m.view.scroll
         /\ m.document # "none" => d.view.scale = scale
<1> DEFINE v == [m.view EXCEPT !.scale = scale]
           n == [m EXCEPT !.view = v]
           d == SetScale(m, scale)
<1>1. v \in Views /\ v.scale = scale /\ v.scroll = m.view.scroll /\ v.spread = m.view.spread
  BY ModesTypes DEF Views
<1>2. d = IF m.document = "none" THEN m ELSE n
  BY DEF SetScale
<1> HIDE DEF v, d
<1>3. Moved(m, n) /\ n.view = v /\ n.page = m.page /\ n.laid = m.laid /\ n.stored = m.stored
  BY <1>1, WithViewFacts
<1> HIDE DEF n
<1>4. n \in ModesFields /\ n.document = m.document
  BY <1>3 DEF Moved
<1>5. CASE m.document = "none"
  BY <1>2, <1>5 DEF d, Moved, KeptShow, KeptEditor, KeptChoices
<1>6. CASE m.document # "none"
  <2>1. d = n
    BY <1>2, <1>6
  <2>2. Laid(d)
    BY <1>1, <1>3, <1>4, <2>1 DEF Laid
  <2> QED BY <1>1, <1>3, <2>1, <2>2 DEF d
<1> QED BY <1>5, <1>6

LEMMA SetPageFacts ==
  ASSUME NEW m \in ModesFields, Laid(m), NEW page \in PageNumbers
  PROVE  LET d == SetPage(m, page) IN
         Moved(m, d) /\ Laid(d) /\ d.view = m.view /\ d.stored = m.stored
<1> DEFINE n == [m EXCEPT !.page = page]
           d == SetPage(m, page)
<1>1. d = IF m.document = "none" THEN m ELSE IF n.view.scroll = "PAGE" THEN Lay(n) ELSE n
  BY DEF SetPage
<1>2. n \in ModesFields /\ n.page = page /\ n.document = m.document
  BY DEF ModesFields
<1>3. n.view = m.view /\ n.laid = m.laid /\ n.stored = m.stored /\ n.rearmed = m.rearmed
  BY DEF ModesFields
<1>4. KeptShow(m, n) /\ KeptEditor(m, n) /\ KeptChoices(m, n)
  BY DEF ModesFields, KeptShow, KeptEditor, KeptChoices
<1> HIDE DEF n, d
<1>5. Moved(m, n)
  BY <1>2, <1>3, <1>4 DEF Moved
<1>6. CASE m.document = "none"
  BY <1>1, <1>6 DEF d, Moved, KeptShow, KeptEditor, KeptChoices
<1>7. CASE m.document # "none" /\ n.view.scroll # "PAGE"
  <2>1. d = n
    BY <1>1, <1>7
  <2>2. Laid(d)
    BY <1>2, <1>3, <1>7, <2>1 DEF Laid
  <2> QED BY <1>3, <1>5, <2>1, <2>2 DEF d
<1>8. CASE m.document # "none" /\ n.view.scroll = "PAGE"
  <2>1. d = Lay(n)
    BY <1>1, <1>8
  <2>2. Moved(n, d) /\ Laid(d) /\ d.view = n.view /\ d.page = n.page /\ d.stored = n.stored
    BY <1>2, <2>1, LayFacts
  <2>3. Moved(m, d)
    BY <1>5, <2>2, MovedTwice
  <2> QED BY <1>3, <2>2, <2>3 DEF d
<1> QED BY <1>6, <1>7, <1>8

----------------------------------------------------------------------------
(* The editor mode                                                         *)

NoneDue(m) == \A i \in DOMAIN m.timeouts : m.timeouts[i].run \notin Editors

\* A switch of the editor mode leaves the pages and the presentation alone.
Edited(m, d) ==
  /\ d \in ModesFields /\ d.rearmed = m.rearmed
  /\ KeptPages(m, d) /\ KeptShow(m, d) /\ KeptChoices(m, d)
  /\ InTurn(m.timeouts) => InTurn(d.timeouts)
  /\ \A run \in {"enter", "exit"} : Due(d.timeouts, run) <=> Due(m.timeouts, run)

\* Unless it was set again, the timeout that is cleared is the only one.
LEMMA CleanupSwitchFacts ==
  ASSUME NEW m \in ModesFields, Switched(m)
  PROVE  LET d == CleanupSwitch(m) IN
         /\ Edited(m, d) /\ d.switch = {} /\ (d.rearmed \/ NoneDue(d))
         /\ d.editor = m.editor /\ d.cursor = m.cursor /\ d.asked = m.asked
<1> DEFINE t == m.timeouts
           due == Clearable(m.timeouts)
           k == CHOOSE i \in due : TRUE
           u == IF due = {} THEN t ELSE RemoveAt(t, k)
           d == CleanupSwitch(m)
<1>1. d = [m EXCEPT !.switch = {}, !.timeouts = u]
  BY DEF CleanupSwitch
<1>2. t \in Seq(Timeouts)
  BY ModesTypes
<1>3. /\ u \in Seq(Timeouts) /\ (InTurn(t) => InTurn(u))
      /\ \A run \in {"enter", "exit"} : Due(u, run) <=> Due(t, run)
      /\ ~m.rearmed => \A i \in DOMAIN u : u[i].run \notin Editors
  <2>0. \A i \in DOMAIN t : t[i].run \in Editors /\ t[i].latest => i \in due
    BY DEF Clearable
  <2>1. CASE due = {}
    <3>1. u = t
      BY <2>1
    <3>2. ~m.rearmed => \A i \in DOMAIN t : t[i].run \notin Editors
      BY <2>0, <2>1 DEF Switched
    <3> HIDE DEF u, t
    <3> QED BY <1>2, <3>1, <3>2
  <2>2. CASE due # {}
    <3>1. k \in due /\ u = RemoveAt(t, k)
      BY <2>2
    <3>2. k \in DOMAIN t /\ t[k].run \in Editors
      BY <3>1 DEF Clearable
    <3> HIDE DEF k, due, u
    <3>3. k \in 1..Len(t)
      BY <1>2, <3>2, LenProperties
    <3>4. Thinned(t, u, k)
      <4> HIDE DEF t
      <4> QED BY <1>2, <3>1, <3>3, RemoveThins
    <3>5. /\ InTurn(t) => InTurn(u)
          /\ \A run : Due(u, run) => Due(t, run)
          /\ \A run : Due(t, run) /\ t[k].run # run => Due(u, run)
          /\ \A i \in DOMAIN u : \E g \in DOMAIN t : u[i] = t[g] /\ g # k
      <4> HIDE DEF t
      <4> QED BY <1>2, <3>3, <3>4, ThinnedFacts
    <3>6. t[k].run \notin {"enter", "exit"}
      BY <3>2, ModesAssumption
    <3>7. ~m.rearmed => \A i \in DOMAIN u : u[i].run \notin Editors
      BY <3>2, <3>5 DEF Switched
    <3>8. u \in Seq(Timeouts)
      BY <3>4 DEF Thinned
    <3> QED BY <3>5, <3>6, <3>7, <3>8
  <2> QED BY <2>1, <2>2
<1> HIDE DEF u, d, due
<1>4. d \in ModesFields
  BY <1>1, <1>3, ZenonT(60) DEF ModesFields
<1>5. d.switch = {} /\ d.timeouts = u /\ d.rearmed = m.rearmed
  BY <1>1 DEF ModesFields
<1>6. d.editor = m.editor /\ d.cursor = m.cursor /\ d.asked = m.asked
  BY <1>1 DEF ModesFields
<1>7. KeptPages(m, d) /\ KeptShow(m, d) /\ KeptChoices(m, d)
  BY <1>1 DEF ModesFields, KeptPages, KeptShow, KeptChoices
<1>8. d.rearmed \/ NoneDue(d)
  BY <1>3, <1>5 DEF NoneDue
<1> QED BY <1>3, <1>4, <1>5, <1>6, <1>7, <1>8 DEF Edited, t, d

LEMMA UpdateEditorFacts ==
  ASSUME NEW m \in ModesFields, Switched(m), Handed(m), NEW mode \in EditorModes
  PROVE  LET d == UpdateEditor(m, mode) IN
         /\ Edited(m, d) /\ d.switch = {} /\ (d.rearmed \/ NoneDue(d))
         /\ d.editor = mode /\ Handed(d) /\ d.asked = m.asked
<1> DEFINE n == CleanupSwitch(m)
           c == EditorModeChanged(n.cursor, mode)
           d == UpdateEditor(m, mode)
<1>1. /\ Edited(m, n) /\ n.switch = {} /\ (n.rearmed \/ NoneDue(n))
      /\ n.editor = m.editor /\ n.cursor = m.cursor /\ n.asked = m.asked
  BY CleanupSwitchFacts
<1>2. d = [n EXCEPT !.editor = mode, !.cursor = c]
  BY DEF UpdateEditor
<1> HIDE DEF n, c, d
<1>3. n \in ModesFields
  BY <1>1 DEF Edited
<1>4. m.cursor \in Cursors
  BY ModesTypes
<1>5. c \in Cursors /\ Handy(c, m.tool) /\ c.editor = mode /\ c.state = m.cursor.state
  BY <1>1, <1>4, EditorModeChangedFacts DEF Handed, c
<1>6. d \in ModesFields
  BY <1>2, <1>3, <1>5, ZenonT(60) DEF ModesFields
<1>7. d.editor = mode /\ d.cursor = c /\ d.switch = n.switch /\ d.timeouts = n.timeouts
  BY <1>2, <1>3 DEF ModesFields
<1>8. d.asked = n.asked /\ d.rearmed = n.rearmed
  BY <1>2, <1>3 DEF ModesFields
<1>9. KeptPages(n, d) /\ KeptShow(n, d) /\ KeptChoices(n, d)
  BY <1>2, <1>3 DEF ModesFields, KeptPages, KeptShow, KeptChoices
<1>10. KeptPages(m, d) /\ KeptShow(m, d) /\ KeptChoices(m, d)
  BY <1>1, <1>9 DEF Edited, KeptPages, KeptShow, KeptChoices
<1>11. Edited(m, d)
  BY <1>1, <1>6, <1>7, <1>8, <1>10 DEF Edited
<1>12. Handed(d)
  BY <1>5, <1>7, <1>10 DEF Handed, KeptShow, KeptChoices
<1>13. d.rearmed \/ NoneDue(d)
  BY <1>1, <1>7, <1>8 DEF NoneDue
<1> QED BY <1>1, <1>7, <1>8, <1>11, <1>12, <1>13 DEF d

\* After the switches of before are taken back, any mode may be asked for.
LEMMA AskFacts ==
  ASSUME NEW m \in ModesFields, m.rearmed \/ NoneDue(m), Handed(m),
         NEW d \in ModesFields, KeptPages(m, d), KeptShow(m, d), KeptChoices(m, d),
         d.timeouts = m.timeouts, d.rearmed = m.rearmed, d.editor = m.editor, d.cursor = m.cursor,
         \A s \in d.switch : s.mode = d.asked
  PROVE  Edited(m, d) /\ Handed(d) /\ Switched(d)
<1>1. Edited(m, d)
  BY DEF Edited
<1>2. Handed(d)
  BY DEF Handed, KeptPages, KeptShow, KeptChoices
<1>3. Switched(d)
  BY DEF Switched, NoneDue
<1> QED BY <1>1, <1>2, <1>3

LEMMA EditedTwice ==
  ASSUME NEW m, NEW n, NEW d, Edited(m, n), Edited(n, d)
  PROVE  Edited(m, d)
BY DEF Edited, KeptPages, KeptShow, KeptChoices

\* The mode of the editor changes to the one that is asked for, or later.
LEMMA SetEditorFacts ==
  ASSUME NEW m \in ModesFields, Switched(m), Handed(m),
         NEW mode \in EditorModes, NEW ids \in SUBSET PageNumbers
  PROVE  LET d == SetEditor(m, mode, ids) IN
         /\ Edited(m, d) /\ Handed(d) /\ Switched(d)
         /\ d.editor = m.editor \/ d.editor = d.asked
<1> DEFINE d == SetEditor(m, mode, ids)
<1>1. CASE m.editor = mode
  <2> DEFINE q == IF m.switch = {} THEN mode ELSE "passed"
  <2>1. d = [m EXCEPT !.asked = q]
    BY <1>1 DEF SetEditor
  <2>2. q \in EditorModes \cup {"passed"} /\ (q # "passed" => m.switch = {})
    BY ModesAssumption DEF EditorModes
  <2> HIDE DEF d, q
  <2>3. d \in ModesFields
    BY <2>1, <2>2, ZenonT(60) DEF ModesFields
  <2>4. d.asked = q /\ d.switch = m.switch /\ d.timeouts = m.timeouts /\ d.rearmed = m.rearmed
    BY <2>1 DEF ModesFields
  <2>5. d.editor = m.editor /\ d.cursor = m.cursor
    BY <2>1 DEF ModesFields
  <2>6. KeptPages(m, d) /\ KeptShow(m, d) /\ KeptChoices(m, d)
    BY <2>1 DEF ModesFields, KeptPages, KeptShow, KeptChoices
  <2>7. Edited(m, d)
    BY <2>3, <2>4, <2>6 DEF Edited
  <2>8. Handed(d)
    BY <2>5, <2>6 DEF Handed, KeptPages, KeptShow, KeptChoices
  <2>9. Switched(d)
    BY <2>2, <2>4 DEF Switched
  <2> QED BY <2>5, <2>7, <2>8, <2>9 DEF d
<1>2. CASE m.editor # mode /\ m.editor = "NONE" /\ ids # {}
  <2> DEFINE n == CleanupSwitch(m)
             s == [mode |-> mode, ids |-> ids]
  <2>1. d = [n EXCEPT !.switch = {s}, !.asked = mode]
    BY <1>2 DEF SetEditor
  <2>2. /\ Edited(m, n) /\ n.switch = {} /\ (n.rearmed \/ NoneDue(n))
        /\ n.editor = m.editor /\ n.cursor = m.cursor /\ n.asked = m.asked
    BY CleanupSwitchFacts
  <2>3. s \in Switches /\ s.mode = mode
    BY <1>2 DEF Switches, EditorModes
  <2> HIDE DEF n, s, d
  <2>4. n \in ModesFields /\ Handed(n)
    BY <2>2 DEF Edited, Handed, KeptPages, KeptShow, KeptChoices
  <2>5. {s} \in SUBSET Switches /\ \A r \in {s} : r.mode = mode
    BY <2>3
  <2>6. d \in ModesFields
    BY <2>1, <2>4, <2>5, ZenonT(60) DEF ModesFields
  <2>7. d.switch = {s} /\ d.asked = mode /\ d.timeouts = n.timeouts /\ d.rearmed = n.rearmed
    BY <2>1, <2>4 DEF ModesFields
  <2>8. d.editor = n.editor /\ d.cursor = n.cursor
    BY <2>1, <2>4 DEF ModesFields
  <2>9. KeptPages(n, d) /\ KeptShow(n, d) /\ KeptChoices(n, d)
    BY <2>1, <2>4 DEF ModesFields, KeptPages, KeptShow, KeptChoices
  <2>10. Edited(n, d) /\ Handed(d) /\ Switched(d) /\ d.editor = n.editor
    BY <2>2, <2>4, <2>5, <2>6, <2>7, <2>8, <2>9, AskFacts
  <2>11. Edited(m, d)
    BY <2>2, <2>10, EditedTwice
  <2> QED BY <2>2, <2>10, <2>11 DEF d
<1>3. CASE m.editor # mode /\ ~(m.editor = "NONE" /\ ids # {})
  <2> DEFINE n == UpdateEditor(m, mode)
  <2>1. d = [n EXCEPT !.asked = mode]
    BY <1>3 DEF SetEditor
  <2>2. /\ Edited(m, n) /\ n.switch = {} /\ (n.rearmed \/ NoneDue(n))
        /\ n.editor = mode /\ Handed(n) /\ n.asked = m.asked
    BY UpdateEditorFacts
  <2> HIDE DEF n, d
  <2>3. n \in ModesFields
    BY <2>2 DEF Edited
  <2>4. d \in ModesFields /\ d.asked = mode /\ d.switch = {} /\ d.timeouts = n.timeouts
    BY <2>1, <2>2, <2>3 DEF ModesFields
  <2>5. d.editor = n.editor /\ d.cursor = n.cursor /\ d.rearmed = n.rearmed
    BY <2>1, <2>3 DEF ModesFields
  <2>6. KeptPages(n, d) /\ KeptShow(n, d) /\ KeptChoices(n, d)
    BY <2>1, <2>3 DEF ModesFields, KeptPages, KeptShow, KeptChoices
  <2>7. Edited(n, d) /\ Handed(d) /\ Switched(d)
    BY <2>2, <2>3, <2>4, <2>5, <2>6, AskFacts
  <2>8. Edited(m, d)
    BY <2>2, <2>7, EditedTwice
  <2> QED BY <2>2, <2>4, <2>7, <2>8, <2>5 DEF d
<1> QED BY <1>1, <1>2, <1>3

----------------------------------------------------------------------------
(* What each step keeps                                                    *)

\* An editor mode that a step enters is the one that was asked for last.
Wins(m, d) ==
  \/ d.editor = m.editor \/ d.rearmed \/ d.editor = d.asked
  \/ d.asked = "passed" /\ \E s \in m.switch : s.mode = d.editor

LEMMA MovedKeeps ==
  ASSUME NEW m, NEW d, Moved(m, d)
  PROVE  /\ Presented(m) => Presented(d)
         /\ Handed(m) => Handed(d)
         /\ Switched(m) => Switched(d)
<1>1. Presented(m) => Presented(d)
  BY DEF Moved, KeptShow, KeptEditor, Presented
<1>2. Handed(m) => Handed(d)
  BY DEF Moved, KeptShow, KeptEditor, KeptChoices, Handed
<1>3. Switched(m) => Switched(d)
  BY DEF Moved, KeptEditor, Switched
<1> QED BY <1>1, <1>2, <1>3

LEMMA EditedKeeps ==
  ASSUME NEW m, NEW d, Edited(m, d)
  PROVE  /\ Presented(m) => Presented(d)
         /\ PutBack(m) => PutBack(d)
         /\ Laid(m) => Laid(d)
<1>1. Presented(m) => Presented(d)
  BY DEF Edited, KeptShow, Presented
<1>2. PutBack(m) => PutBack(d)
  BY DEF Edited, KeptPages, KeptShow, KeptChoices, PutBack, ShownView, Entering
<1>3. Laid(m) => Laid(d)
  BY DEF Edited, KeptPages, Laid
<1> QED BY <1>1, <1>2, <1>3

\* The reader who chooses while a change is under way is in a hurry.
LEMMA ChosenFacts ==
  ASSUME NEW m, GoodModes(m)
  PROVE  LET c == Chosen(m) IN
         /\ GoodModes(c) /\ c.hurried = (m.hurried \/ UnderWay(m)) /\ c.rearmed = m.rearmed
         /\ KeptPages(m, c) /\ KeptShow(m, c) /\ KeptEditor(m, c)
         /\ c.chosen = m.chosen /\ c.tool = m.tool
<1> DEFINE h == m.hurried \/ UnderWay(m)
           c == Chosen(m)
<1>1. c = [m EXCEPT !.hurried = h] /\ h \in BOOLEAN
  BY DEF Chosen
<1>2. m \in ModesFields
  BY DEF GoodModes
<1> HIDE DEF h, c
<1>3. c \in ModesFields /\ c.hurried = h /\ c.rearmed = m.rearmed
  BY <1>1, <1>2 DEF ModesFields
<1>4. KeptPages(m, c) /\ KeptShow(m, c) /\ KeptEditor(m, c)
  BY <1>1, <1>2 DEF ModesFields, KeptPages, KeptShow, KeptEditor
<1>5. c.chosen = m.chosen /\ c.tool = m.tool
  BY <1>1, <1>2 DEF ModesFields
<1>6. Presented(c)
  BY <1>4 DEF GoodModes, KeptShow, KeptEditor, Presented
<1>7. PutBack(c)
  BY <1>3, <1>4, <1>5 DEF GoodModes, KeptPages, KeptShow, KeptEditor, PutBack, ShownView, Entering, h
<1>8. Handed(c)
  BY <1>4, <1>5 DEF GoodModes, KeptPages, KeptShow, KeptEditor, Handed
<1>9. Switched(c)
  BY <1>3, <1>4 DEF GoodModes, KeptEditor, Switched
<1>10. Laid(c)
  BY <1>4 DEF GoodModes, KeptPages, Laid
<1> QED BY <1>3, <1>4, <1>5, <1>6, <1>7, <1>8, <1>9, <1>10 DEF GoodModes, h, c

\* A view that the reader chooses, and that the viewer has then.
LEMMA ChooseKeeps ==
  ASSUME NEW m, GoodModes(m), m.document # "none",
         NEW n, Moved(Chosen(m), n), Laid(n), NEW w \in Views,
         m.view = m.chosen => n.view = w,
         ~UnderWay(m) /\ m.stored = m.chosen.scroll => n.stored = w.scroll
  PROVE  LET d == [n EXCEPT !.chosen = w] IN GoodModes(d) /\ Wins(m, d)
<1> DEFINE c == Chosen(m)
           d == [n EXCEPT !.chosen = w]
<1>1. /\ GoodModes(c) /\ c.hurried = (m.hurried \/ UnderWay(m)) /\ c.rearmed = m.rearmed
      /\ KeptPages(m, c) /\ KeptShow(m, c) /\ KeptEditor(m, c)
      /\ c.chosen = m.chosen /\ c.tool = m.tool
  BY ChosenFacts
<1>2. Moved(c, n)
  OBVIOUS
<1> HIDE DEF c
<1>3. n \in ModesFields /\ Presented(n) /\ Handed(n) /\ Switched(n)
  BY <1>1, <1>2, MovedKeeps DEF GoodModes, Moved
<1>4. d \in ModesFields /\ d.chosen = w /\ d.hurried = n.hurried /\ d.rearmed = n.rearmed
  BY <1>3 DEF ModesFields
<1>5. KeptPages(n, d) /\ KeptShow(n, d) /\ KeptEditor(n, d) /\ d.tool = n.tool
  BY <1>3 DEF ModesFields, KeptPages, KeptShow, KeptEditor
<1> HIDE DEF d
<1>6. Presented(d)
  BY <1>3, <1>5 DEF KeptShow, KeptEditor, Presented
<1>7. Handed(d)
  BY <1>3, <1>5 DEF KeptPages, KeptShow, KeptEditor, Handed
<1>8. Switched(d)
  BY <1>3, <1>4, <1>5 DEF KeptEditor, Switched
<1>9. Laid(d)
  BY <1>5 DEF KeptPages, Laid
<1>10. PutBack(d)
  <2>1. SUFFICES ASSUME ~d.hurried PROVE PutBack(d)
    BY DEF PutBack
  <2>2. ~m.hurried /\ ~UnderWay(m)
    BY <1>1, <1>2, <1>4, <2>1 DEF Moved, KeptChoices
  <2>3. m.state = "NORMAL" /\ m.view = m.chosen /\ m.stored = m.chosen.scroll
    BY <2>2 DEF GoodModes, PutBack, ShownView, Entering, UnderWay
  <2>4. d.state = "NORMAL" /\ d.view = w /\ d.stored = w.scroll
    BY <1>1, <1>2, <1>5, <2>2, <2>3 DEF Moved, KeptShow, KeptPages
  <2> QED BY <1>4, <2>4 DEF PutBack, ShownView, Entering
<1>11. d.editor = m.editor
  BY <1>1, <1>2, <1>5 DEF Moved, KeptEditor
<1> QED BY <1>4, <1>6, <1>7, <1>8, <1>9, <1>10, <1>11 DEF GoodModes, Wins, d

LEMMA ChooseScrollKeeps ==
  ASSUME GoodModes(modes), ChooseScroll
  PROVE  GoodModes(modes') /\ Wins(modes, modes')
<1> DEFINE m == modes
           c == Chosen(m)
<1>1. PICK scroll \in Scrolls \ {m.view.scroll} :
        /\ m.document # "none"
        /\ modes' = [SetScroll(c, scroll) EXCEPT !.chosen.scroll = scroll]
  BY DEF ChooseScroll, Chooses
<1> DEFINE n == SetScroll(c, scroll)
           w == [m.chosen EXCEPT !.scroll = scroll]
<1>2. /\ GoodModes(c) /\ KeptPages(m, c) /\ KeptShow(m, c) /\ c.chosen = m.chosen
  BY ChosenFacts
<1>3. c \in ModesFields /\ Laid(c) /\ m \in ModesFields
  BY <1>2 DEF GoodModes
<1> HIDE DEF c
<1>4. /\ Moved(c, n) /\ Laid(n) /\ n.page = c.page
      /\ n.view.scroll = scroll /\ n.view.spread = c.view.spread /\ n.view.scale = c.view.scale
      /\ n.stored = IF c.view.scroll = scroll \/ c.document # "shown" \/ c.state = "FULLSCREEN"
                      THEN c.stored ELSE scroll
  BY <1>3, SetScrollFacts
<1> HIDE DEF n
<1>5. n.chosen = m.chosen /\ n \in ModesFields
  BY <1>2, <1>4 DEF Moved, KeptChoices
<1>6. modes' = [n EXCEPT !.chosen = w]
  BY <1>1, <1>5 DEF n
<1>7. /\ w \in Views /\ w.scroll = scroll /\ w.spread = m.chosen.spread /\ w.scale = m.chosen.scale
  BY <1>3, ModesTypes DEF Views
<1> HIDE DEF w
<1>8. m.view = m.chosen => n.view = w
  <2>1. n.view \in Views
    BY <1>5, ModesTypes
  <2> QED BY <1>2, <1>4, <1>7, <2>1, ViewsEqual DEF KeptPages
<1>9. ~UnderWay(m) /\ m.stored = m.chosen.scroll => n.stored = w.scroll
  <2>1. m.document \in {"none", "loading", "shown"}
    BY <1>3, ModesTypes
  <2> QED BY <1>1, <1>2, <1>4, <1>7, <2>1 DEF UnderWay, KeptPages, KeptShow
<1> HIDE DEF m
<1>10. GoodModes(m)
  BY DEF m
<1>11. Moved(Chosen(m), n)
  BY <1>4 DEF c
<1> DEFINE d == [n EXCEPT !.chosen = w]
<1>12. GoodModes(d) /\ Wins(m, d)
  BY <1>1, <1>4, <1>7, <1>8, <1>9, <1>10, <1>11, ChooseKeeps
<1> QED BY <1>6, <1>12 DEF m

LEMMA ChooseSpreadKeeps ==
  ASSUME GoodModes(modes), ChooseSpread
  PROVE  GoodModes(modes') /\ Wins(modes, modes')
<1> DEFINE m == modes
           c == Chosen(m)
<1>1. PICK spread \in Spreads \ {m.view.spread} :
        /\ m.document # "none"
        /\ modes' = [SetSpread(c, spread) EXCEPT !.chosen.spread = spread]
  BY DEF ChooseSpread, Chooses
<1> DEFINE n == SetSpread(c, spread)
           w == [m.chosen EXCEPT !.spread = spread]
<1>2. /\ GoodModes(c) /\ KeptPages(m, c) /\ KeptShow(m, c) /\ c.chosen = m.chosen
  BY ChosenFacts
<1>3. c \in ModesFields /\ Laid(c) /\ m \in ModesFields
  BY <1>2 DEF GoodModes
<1> HIDE DEF c
<1>4. /\ Moved(c, n) /\ Laid(n) /\ n.page = c.page /\ n.stored = c.stored
      /\ n.view.spread = spread /\ n.view.scroll = c.view.scroll /\ n.view.scale = c.view.scale
  BY <1>3, SetSpreadFacts
<1> HIDE DEF n
<1>5. n.chosen = m.chosen /\ n \in ModesFields
  BY <1>2, <1>4 DEF Moved, KeptChoices
<1>6. modes' = [n EXCEPT !.chosen = w]
  BY <1>1, <1>5 DEF n
<1>7. /\ w \in Views /\ w.spread = spread /\ w.scroll = m.chosen.scroll /\ w.scale = m.chosen.scale
  BY <1>3, ModesTypes DEF Views
<1> HIDE DEF w
<1>8. m.view = m.chosen => n.view = w
  <2>1. n.view \in Views
    BY <1>5, ModesTypes
  <2> QED BY <1>2, <1>4, <1>7, <2>1, ViewsEqual DEF KeptPages
<1>9. ~UnderWay(m) /\ m.stored = m.chosen.scroll => n.stored = w.scroll
  BY <1>2, <1>4, <1>7 DEF KeptPages
<1> HIDE DEF m
<1>10. GoodModes(m)
  BY DEF m
<1>11. Moved(Chosen(m), n)
  BY <1>4 DEF c
<1> DEFINE d == [n EXCEPT !.chosen = w]
<1>12. GoodModes(d) /\ Wins(m, d)
  BY <1>1, <1>4, <1>7, <1>8, <1>9, <1>10, <1>11, ChooseKeeps
<1> QED BY <1>6, <1>12 DEF m

LEMMA ChooseScaleKeeps ==
  ASSUME GoodModes(modes), ChooseScale
  PROVE  GoodModes(modes') /\ Wins(modes, modes')
<1> DEFINE m == modes
           c == Chosen(m)
<1>1. PICK scale \in {"auto", "page-fit"} \ {m.view.scale} :
        /\ m.document # "none"
        /\ modes' = [SetScale(c, scale) EXCEPT !.chosen.scale = scale]
  BY DEF ChooseScale, Chooses
<1> DEFINE n == SetScale(c, scale)
           w == [m.chosen EXCEPT !.scale = scale]
<1>2. /\ GoodModes(c) /\ KeptPages(m, c) /\ KeptShow(m, c) /\ c.chosen = m.chosen
  BY ChosenFacts
<1>3. c \in ModesFields /\ Laid(c) /\ m \in ModesFields
  BY <1>2 DEF GoodModes
<1> HIDE DEF c
<1>4. /\ Moved(c, n) /\ Laid(n) /\ n.page = c.page /\ n.stored = c.stored
      /\ n.view.spread = c.view.spread /\ n.view.scroll = c.view.scroll
      /\ c.document # "none" => n.view.scale = scale
  BY <1>3, SetScaleFacts
<1> HIDE DEF n
<1>5. n.chosen = m.chosen /\ n \in ModesFields
  BY <1>2, <1>4 DEF Moved, KeptChoices
<1>6. modes' = [n EXCEPT !.chosen = w]
  BY <1>1, <1>5 DEF n
<1>7. /\ w \in Views /\ w.scale = scale /\ w.scroll = m.chosen.scroll /\ w.spread = m.chosen.spread
  BY <1>3, ModesTypes DEF Views
<1> HIDE DEF w
<1>8. m.view = m.chosen => n.view = w
  <2>1. n.view \in Views
    BY <1>5, ModesTypes
  <2> QED BY <1>1, <1>2, <1>4, <1>7, <2>1, ViewsEqual DEF KeptPages
<1>9. ~UnderWay(m) /\ m.stored = m.chosen.scroll => n.stored = w.scroll
  BY <1>2, <1>4, <1>7 DEF KeptPages
<1> HIDE DEF m
<1>10. GoodModes(m)
  BY DEF m
<1>11. Moved(Chosen(m), n)
  BY <1>4 DEF c
<1> DEFINE d == [n EXCEPT !.chosen = w]
<1>12. GoodModes(d) /\ Wins(m, d)
  BY <1>1, <1>4, <1>7, <1>8, <1>9, <1>10, <1>11, ChooseKeeps
<1> QED BY <1>6, <1>12 DEF m

LEMMA ChooseToolKeeps ==
  ASSUME GoodModes(modes), ChooseTool
  PROVE  GoodModes(modes') /\ Wins(modes, modes')
<1> DEFINE m == modes
           d == modes'
<1>1. PICK tool \in Tools :
        m.cursor.prev = "null" /\ d = [m EXCEPT !.cursor.active = tool, !.tool = tool]
  BY DEF ChooseTool
<1> DEFINE k == [m.cursor EXCEPT !.active = tool]
<1>2. m \in ModesFields /\ m.cursor \in Cursors
  BY ModesTypes DEF GoodModes
<1>3. d = [m EXCEPT !.cursor = k, !.tool = tool]
  BY <1>1
<1>4. /\ k \in Cursors /\ k.active = tool /\ k.prev = m.cursor.prev
      /\ k.editor = m.cursor.editor /\ k.state = m.cursor.state
  BY <1>2 DEF Cursors
<1> HIDE DEF d, k
<1>5. d \in ModesFields
  BY <1>2, <1>3, <1>4, ZenonT(60) DEF ModesFields
<1>6. d.cursor = k /\ d.tool = tool /\ d.chosen = m.chosen /\ d.hurried = m.hurried
  BY <1>2, <1>3 DEF ModesFields
<1>7. KeptPages(m, d) /\ KeptShow(m, d) /\ d.timeouts = m.timeouts
  BY <1>2, <1>3 DEF ModesFields, KeptPages, KeptShow
<1>8. d.editor = m.editor /\ d.switch = m.switch /\ d.asked = m.asked /\ d.rearmed = m.rearmed
  BY <1>2, <1>3 DEF ModesFields
<1> HIDE DEF m
<1>9. GoodModes(m)
  BY DEF m
<1>10. Presented(d)
  BY <1>7, <1>9 DEF GoodModes, Presented, KeptShow
<1>11. PutBack(d)
  BY <1>6, <1>7, <1>9 DEF GoodModes, PutBack, ShownView, Entering, KeptShow, KeptPages
<1>12. Handed(d)
  BY <1>1, <1>4, <1>6, <1>7, <1>8, <1>9 DEF GoodModes, Handed, Handy, KeptShow, KeptPages
<1>13. Switched(d)
  BY <1>7, <1>8, <1>9 DEF GoodModes, Switched
<1>14. Laid(d)
  BY <1>7, <1>9 DEF GoodModes, Laid, KeptPages
<1> QED BY <1>5, <1>8, <1>10, <1>11, <1>12, <1>13, <1>14 DEF GoodModes, Wins, m, d

LEMMA ChooseEditorKeeps ==
  ASSUME GoodModes(modes), ChooseEditor
  PROVE  GoodModes(modes') /\ Wins(modes, modes')
<1> DEFINE m == modes
           c == Chosen(m)
           d == modes'
<1>1. PICK mode \in EditorModes, ids \in SUBSET PageNumbers : d = SetEditor(c, mode, ids)
  BY DEF ChooseEditor
<1>2. GoodModes(c) /\ c.rearmed = m.rearmed /\ KeptEditor(m, c)
  BY ChosenFacts
<1> HIDE DEF c, d, m
<1>3. c \in ModesFields /\ Handed(c) /\ Switched(c)
  BY <1>2 DEF GoodModes
<1>4. Edited(c, d) /\ Handed(d) /\ Switched(d) /\ (d.editor = c.editor \/ d.editor = d.asked)
  BY <1>1, <1>3, SetEditorFacts
<1>5. Presented(d) /\ PutBack(d) /\ Laid(d) /\ d \in ModesFields
  BY <1>2, <1>4, EditedKeeps DEF GoodModes, Edited
<1> QED BY <1>2, <1>4, <1>5 DEF GoodModes, Wins, KeptEditor, m, d

\* The page that a button leads to is one of the document.
LEMMA TurnFacts ==
  ASSUME NEW m \in ModesFields, NEW row \in SUBSET m.laid
  PROVE  LET n == NextOf(m, row)
             l == PreviousOf(m, row)
             beside == IF m.view.scroll = "WRAPPED" THEN row
                       ELSE SpreadOf(m.page, m.view.spread)
         IN  /\ n \in PageNumbers /\ l \in PageNumbers
             /\ m.page < PagesCount => n > m.page
             /\ m.page > 1 => l < m.page
             /\ Between(m.page, n) \subseteq beside /\ Between(m.page, l) \subseteq beside
<1> DEFINE p == m.page
           a == PageAdvance(m, row, FALSE)
           b == PageAdvance(m, row, TRUE)
           n == NextOf(m, row)
           l == PreviousOf(m, row)
           beside == IF m.view.scroll = "WRAPPED" THEN row ELSE SpreadOf(m.page, m.view.spread)
<1>1. row \in SUBSET PageNumbers
  BY ModesTypes
<1>2. /\ a \in Nat \ {0} /\ Between(p, p + a) \subseteq beside
      /\ b \in Nat \ {0} /\ Between(p, p - b) \subseteq beside
  BY <1>1, AdvanceFacts
<1>3. /\ PagesCount \in Nat \ {0} /\ PageNumbers = 1..PagesCount /\ p \in 1..PagesCount
  BY ModesAssumption, ModesTypes DEF PageNumbers
<1>4. /\ n = IF p + a > PagesCount THEN PagesCount ELSE p + a
      /\ l = IF p - b < 1 THEN 1 ELSE p - b
  BY DEF NextOf, PreviousOf
<1> HIDE DEF p, a, b, n, l, beside
<1>5. n \in PageNumbers /\ l \in PageNumbers /\ n <= p + a /\ n >= p /\ l >= p - b /\ l <= p
  BY <1>2, <1>3, <1>4
<1>6. p < PagesCount => n > p
  BY <1>2, <1>3, <1>4
<1>7. p > 1 => l < p
  BY <1>2, <1>3, <1>4
<1>8. Between(p, n) \subseteq Between(p, p + a)
  BY <1>2, <1>3, <1>5 DEF Between
<1>9. Between(p, l) \subseteq Between(p, p - b)
  BY <1>2, <1>3, <1>5 DEF Between
<1> QED BY <1>2, <1>5, <1>6, <1>7, <1>8, <1>9 DEF p, n, l, beside

LEMMA SetPageKeeps ==
  ASSUME NEW m, GoodModes(m), NEW page \in PageNumbers
  PROVE  LET d == SetPage(m, page) IN GoodModes(d) /\ Wins(m, d)
<1> DEFINE d == SetPage(m, page)
<1>1. Moved(m, d) /\ Laid(d) /\ d.view = m.view /\ d.stored = m.stored
  BY SetPageFacts DEF GoodModes
<1> HIDE DEF d
<1>2. d \in ModesFields /\ Presented(d) /\ Handed(d) /\ Switched(d)
  BY <1>1, MovedKeeps DEF GoodModes, Moved
<1>3. PutBack(d)
  BY <1>1 DEF GoodModes, PutBack, ShownView, Entering, Moved, KeptShow, KeptEditor, KeptChoices
<1>4. d.editor = m.editor
  BY <1>1 DEF Moved, KeptEditor
<1> QED BY <1>1, <1>2, <1>3, <1>4 DEF GoodModes, Wins, d

LEMMA TurnKeeps ==
  ASSUME GoodModes(modes), NextPage \/ PreviousPage
  PROVE  GoodModes(modes') /\ Wins(modes, modes')
<1>1. modes \in ModesFields
  BY DEF GoodModes
<1>2. \E page \in PageNumbers : modes' = SetPage(modes, page)
  BY <1>1, TurnFacts DEF NextPage, PreviousPage
<1> QED BY <1>2, SetPageKeeps

\* The toolbar of a document that is closed gives the tools back.
LEMMA CloseKeeps ==
  ASSUME GoodModes(modes), CloseInViewer
  PROVE  GoodModes(modes') /\ Wins(modes, modes')
<1> DEFINE m == modes
           c == Chosen(m)
           n == CleanupSwitch(c)
           k == ResetCursor(n.cursor)
           d == modes'
           e == m.editor
           f == FirstView
           d1 == [n EXCEPT !.document = "none", !.page = 1]
           d2 == [d1 EXCEPT !.laid = {}, !.stored = "VERTICAL"]
           d3 == [d2 EXCEPT !.view = f, !.chosen = f]
           d4 == [d3 EXCEPT !.asked = e, !.cursor = k]
<1>1. /\ m.state # "FULLSCREEN"
      /\ d = [n EXCEPT !.document = "none", !.view = f, !.page = 1, !.laid = {},
                !.stored = "VERTICAL", !.chosen = f, !.asked = e, !.cursor = k]
  BY DEF CloseInViewer
<1>2. /\ GoodModes(c) /\ c.hurried = (m.hurried \/ UnderWay(m)) /\ c.rearmed = m.rearmed
      /\ KeptShow(m, c) /\ KeptEditor(m, c) /\ c.tool = m.tool
  BY ChosenFacts
<1>3. c \in ModesFields /\ Switched(c) /\ m \in ModesFields
  BY <1>2 DEF GoodModes
<1> HIDE DEF c
<1>4. /\ Edited(c, n) /\ n.switch = {} /\ (n.rearmed \/ NoneDue(n))
      /\ n.editor = c.editor /\ n.cursor = c.cursor
  BY <1>3, CleanupSwitchFacts
<1> HIDE DEF n
<1>5. n \in ModesFields /\ n.cursor \in Cursors /\ e \in EditorModes /\ f \in Views /\ f.scroll = "VERTICAL"
  <2>1. n \in ModesFields
    BY <1>4 DEF Edited
  <2>2. f \in Views /\ f.scroll = "VERTICAL"
    BY ModesAssumption DEF FirstView, Views, Spreads
  <2> QED BY <1>3, <2>1, <2>2, ModesTypes
<1>6. k \in Cursors /\ Handy(k, n.tool) /\ k.state \in {n.cursor.state, "NORMAL"}
  <2>1. Handy(n.cursor, n.tool)
    BY <1>2, <1>4 DEF GoodModes, Handed, Edited, KeptChoices
  <2> QED BY <1>5, <2>1, ResetCursorFacts
<1>7. 1 \in PageNumbers /\ "VERTICAL" \in Scrolls \cup {"PAGE"} /\ {} \in SUBSET PageNumbers
  BY ModesAssumption DEF PageNumbers
<1> HIDE DEF k, f, e
<1>8. d = d4
  BY <1>1, <1>5, Zenon DEF ModesFields
<1> HIDE DEF d
<1>9. d1 \in ModesFields /\ d1.document = "none" /\ d1.page = 1
  BY <1>5, <1>7, ZenonT(60) DEF ModesFields
<1>10. /\ d1.full = n.full /\ d1.listening = n.listening /\ d1.state = n.state
       /\ d1.timeouts = n.timeouts /\ d1.hurried = n.hurried
  BY <1>5 DEF ModesFields
<1>11. /\ d1.switch = n.switch /\ d1.rearmed = n.rearmed /\ d1.editor = n.editor
       /\ d1.tool = n.tool
  BY <1>5 DEF ModesFields
<1> HIDE DEF d1
<1>12. d2 \in ModesFields
  BY <1>7, <1>9, ZenonT(60) DEF ModesFields
<1>13. /\ d2.full = n.full /\ d2.listening = n.listening /\ d2.state = n.state
       /\ d2.timeouts = n.timeouts /\ d2.hurried = n.hurried
  BY <1>9, <1>10 DEF ModesFields
<1>14. /\ d2.switch = n.switch /\ d2.rearmed = n.rearmed /\ d2.editor = n.editor
       /\ d2.tool = n.tool /\ d2.document = "none" /\ d2.stored = "VERTICAL"
  BY <1>9, <1>11 DEF ModesFields
<1> HIDE DEF d2
<1>15. d3 \in ModesFields
  BY <1>5, <1>12, ZenonT(60) DEF ModesFields
<1>16. /\ d3.full = n.full /\ d3.listening = n.listening /\ d3.state = n.state
       /\ d3.timeouts = n.timeouts /\ d3.hurried = n.hurried
  BY <1>12, <1>13 DEF ModesFields
<1>17. /\ d3.switch = n.switch /\ d3.rearmed = n.rearmed /\ d3.editor = n.editor
       /\ d3.tool = n.tool /\ d3.document = "none" /\ d3.stored = "VERTICAL"
       /\ d3.view = f /\ d3.chosen = f
  BY <1>12, <1>14 DEF ModesFields
<1> HIDE DEF d3
<1>18. d4 \in ModesFields
  BY <1>5, <1>6, <1>15, ZenonT(60) DEF ModesFields
<1>19. /\ d4.full = n.full /\ d4.listening = n.listening /\ d4.state = n.state
       /\ d4.timeouts = n.timeouts /\ d4.hurried = n.hurried
  BY <1>15, <1>16 DEF ModesFields
<1>20. /\ d4.switch = n.switch /\ d4.rearmed = n.rearmed /\ d4.editor = n.editor
       /\ d4.tool = n.tool /\ d4.document = "none" /\ d4.stored = "VERTICAL"
       /\ d4.view = f /\ d4.chosen = f /\ d4.asked = e /\ d4.cursor = k
  BY <1>15, <1>17 DEF ModesFields
<1> HIDE DEF d4
<1>21. Presented(n)
  BY <1>2, <1>4, EditedKeeps DEF GoodModes
<1>22. Presented(d)
  BY <1>8, <1>19, <1>21 DEF Presented
<1>23. n.state = m.state /\ (n.hurried <=> m.hurried \/ UnderWay(m)) /\ n.editor = m.editor
  BY <1>2, <1>4 DEF Edited, KeptShow, KeptChoices, KeptEditor
<1>24. PutBack(d)
  <2>1. SUFFICES ASSUME ~d.hurried PROVE PutBack(d)
    BY DEF PutBack
  <2>2. d.state = "NORMAL"
    BY <1>8, <1>19, <1>23, <2>1 DEF UnderWay
  <2> QED BY <1>5, <1>8, <1>20, <2>2 DEF PutBack, ShownView, Entering
<1>25. Handed(d)
  <2>1. m.state \in States
    BY <1>3, ModesTypes
  <2>2. n.cursor.state = m.state \/ (m.state = "CHANGING" /\ n.cursor.state = "NORMAL")
    BY <1>2, <1>4 DEF GoodModes, Handed, KeptShow
  <2>3. k.state = m.state \/ (m.state = "CHANGING" /\ k.state = "NORMAL")
    BY <1>1, <1>6, <2>1, <2>2 DEF States
  <2> QED BY <1>6, <1>8, <1>19, <1>20, <1>23, <2>3 DEF Handed
<1>26. Switched(d)
  BY <1>4, <1>8, <1>19, <1>20 DEF Switched, NoneDue
<1>27. Laid(d)
  BY <1>8, <1>20 DEF Laid
<1>28. Wins(m, d)
  BY <1>8, <1>20, <1>23 DEF Wins
<1> QED BY <1>8, <1>18, <1>22, <1>24, <1>25, <1>26, <1>27, <1>28 DEF GoodModes, m, d

LEMMA OpenKeeps ==
  ASSUME GoodModes(modes), OpenInViewer
  PROVE  GoodModes(modes') /\ Wins(modes, modes')
<1> DEFINE m == modes
           n == [m EXCEPT !.document = "loading"]
           d == modes'
<1>1. m.document = "none" /\ d = Lay(n)
  BY DEF OpenInViewer
<1>2. m \in ModesFields
  BY DEF GoodModes
<1>3. n \in ModesFields /\ n.document = "loading" /\ n.rearmed = m.rearmed
  BY <1>2 DEF ModesFields
<1>4. KeptShow(m, n) /\ KeptEditor(m, n) /\ KeptChoices(m, n)
  BY <1>2 DEF ModesFields, KeptShow, KeptEditor, KeptChoices
<1>5. n.view = m.view /\ n.stored = m.stored
  BY <1>2 DEF ModesFields
<1> HIDE DEF n, d, m
<1>6. GoodModes(m)
  BY DEF m
<1>7. Moved(n, d) /\ Laid(d) /\ d.view = n.view /\ d.stored = n.stored
  BY <1>1, <1>3, LayFacts
<1>8. Presented(n)
  BY <1>4, <1>6 DEF GoodModes, Presented, KeptShow, KeptEditor
<1>9. Handed(n)
  BY <1>3, <1>4, <1>6 DEF GoodModes, Handed, KeptShow, KeptEditor, KeptChoices
<1>10. Switched(n)
  BY <1>3, <1>4, <1>6 DEF GoodModes, Switched, KeptEditor
<1>11. PutBack(d)
  <2>1. SUFFICES ASSUME ~d.hurried PROVE PutBack(d)
    BY DEF PutBack
  <2>2. /\ d.state = m.state /\ ~m.hurried /\ d.chosen = m.chosen
        /\ d.view = m.view /\ d.stored = m.stored
    BY <1>4, <1>5, <1>7, <2>1 DEF Moved, KeptShow, KeptChoices
  <2>3. m.state = "NORMAL" /\ m.view = m.chosen /\ m.stored = m.chosen.scroll
    BY <1>1, <1>6, <2>2 DEF GoodModes, PutBack, ShownView, Entering
  <2> QED BY <2>2, <2>3 DEF PutBack, ShownView, Entering
<1>12. d \in ModesFields /\ d.editor = m.editor
  BY <1>4, <1>7 DEF Moved, KeptEditor
<1> QED BY <1>7, <1>8, <1>9, <1>10, <1>11, <1>12, MovedKeeps DEF GoodModes, Wins, m, d

LEMMA DocumentShownKeeps ==
  ASSUME GoodModes(modes), DocumentShown
  PROVE  GoodModes(modes') /\ Wins(modes, modes')
<1> DEFINE m == modes
           k == EditorModeChanged(m.cursor, m.editor)
           d == modes'
<1>1. m.document = "loading" /\ d = [m EXCEPT !.document = "shown", !.cursor = k]
  BY DEF DocumentShown
<1>2. m \in ModesFields /\ m.cursor \in Cursors /\ m.editor \in EditorModes
  BY ModesTypes DEF GoodModes
<1>3. k \in Cursors /\ Handy(k, m.tool) /\ k.editor = m.editor /\ k.state = m.cursor.state
  BY <1>2, EditorModeChangedFacts DEF GoodModes, Handed
<1> HIDE DEF k, d
<1>4. d \in ModesFields /\ d.document = "shown" /\ d.cursor = k
  BY <1>1, <1>2, <1>3, ZenonT(60) DEF ModesFields
<1>5. KeptShow(m, d) /\ KeptChoices(m, d)
  BY <1>1, <1>2 DEF ModesFields, KeptShow, KeptChoices
<1>6. /\ d.timeouts = m.timeouts /\ d.switch = m.switch /\ d.editor = m.editor
      /\ d.asked = m.asked /\ d.rearmed = m.rearmed
  BY <1>1, <1>2 DEF ModesFields
<1>7. d.view = m.view /\ d.page = m.page /\ d.laid = m.laid /\ d.stored = m.stored
  BY <1>1, <1>2 DEF ModesFields
<1> HIDE DEF m
<1>8. GoodModes(m)
  BY DEF m
<1>9. Presented(d)
  BY <1>5, <1>6, <1>8 DEF GoodModes, Presented, KeptShow
<1>10. PutBack(d)
  BY <1>4, <1>5, <1>6, <1>7, <1>8 DEF GoodModes, PutBack, ShownView, Entering, KeptShow, KeptChoices
<1>11. Handed(d)
  BY <1>3, <1>4, <1>5, <1>6, <1>8 DEF GoodModes, Handed, KeptShow, KeptChoices
<1>12. Switched(d)
  BY <1>6, <1>8 DEF GoodModes, Switched
<1>13. Laid(d)
  BY <1>1, <1>7, <1>8 DEF GoodModes, Laid
<1> QED BY <1>4, <1>6, <1>9, <1>10, <1>11, <1>12, <1>13 DEF GoodModes, Wins, m, d

\* What hangs on the timeouts and the switch of the editor alone.
LEMMA SwitchKeeps ==
  ASSUME NEW m, GoodModes(m), NEW d \in ModesFields,
         KeptPages(m, d), KeptShow(m, d), KeptChoices(m, d),
         d.editor = m.editor, d.cursor = m.cursor,
         InTurn(d.timeouts),
         \A run \in {"enter", "exit"} : Due(d.timeouts, run) <=> Due(m.timeouts, run)
  PROVE  Presented(d) /\ PutBack(d) /\ Handed(d) /\ Laid(d) /\ Wins(m, d)
<1>1. Presented(d)
  BY DEF GoodModes, Presented, KeptShow
<1>2. PutBack(d)
  BY DEF GoodModes, PutBack, ShownView, Entering, KeptShow, KeptChoices, KeptPages
<1>3. Handed(d)
  BY DEF GoodModes, Handed, KeptShow, KeptChoices, KeptPages
<1>4. Laid(d)
  BY DEF GoodModes, Laid, KeptPages
<1> QED BY <1>1, <1>2, <1>3, <1>4 DEF Wins

LEMMA EditedPageRenderedKeeps ==
  ASSUME GoodModes(modes), EditedPageRendered
  PROVE  GoodModes(modes') /\ Wins(modes, modes')
<1> DEFINE m == modes
           d == modes'
<1>1. PICK s \in m.switch, p \in PageNumbers :
        d = IF s.ids \ {p} # {} THEN [m EXCEPT !.switch = {[s EXCEPT !.ids = s.ids \ {p}]}]
            ELSE [m EXCEPT !.switch = {[s EXCEPT !.ids = {}]}, !.rearmed = @ \/ (s.ids = {}),
                    !.timeouts = SetTimeout(m.timeouts, s.mode)]
  BY DEF EditedPageRendered
<1> DEFINE left == s.ids \ {p}
           r == [s EXCEPT !.ids = left]
           u == SetTimeout(m.timeouts, s.mode)
           h == m.rearmed \/ s.ids = {}
<1>2. m \in ModesFields /\ s \in Switches /\ m.timeouts \in Seq(Timeouts) /\ m.rearmed \in BOOLEAN
  BY ModesTypes DEF GoodModes
<1>3. s.mode \in Editors /\ s.ids \in SUBSET PageNumbers
  BY <1>2 DEF Switches
<1>4. r \in Switches /\ r.mode = s.mode /\ r.ids = left
  BY <1>2, <1>3 DEF Switches
<1>5. /\ u \in Seq(Timeouts) /\ (InTurn(m.timeouts) => InTurn(u))
      /\ \A run \in {"enter", "exit"} : Due(u, run) <=> Due(m.timeouts, run)
      /\ (\A i \in DOMAIN m.timeouts : m.timeouts[i].run \notin Editors) =>
            \A i \in DOMAIN u : u[i].run \in Editors =>
              /\ u[i].run = s.mode /\ u[i].latest
              /\ \A j \in DOMAIN u : u[j].run \in Editors => j = i
  BY <1>2, <1>3, SetTimeoutFacts
<1>6. d = IF left # {} THEN [m EXCEPT !.switch = {r}]
          ELSE [m EXCEPT !.switch = {r}, !.rearmed = h, !.timeouts = u]
  BY <1>1
<1>7. h \in BOOLEAN
  BY <1>2
<1>8. m.asked # "passed" => s.mode = m.asked
  BY DEF GoodModes, Switched
<1> HIDE DEF r, u, h, left
<1>9. CASE left # {}
  <2>1. d = [m EXCEPT !.switch = {r}]
    BY <1>6, <1>9
  <2> HIDE DEF d
  <2>2. d \in ModesFields /\ d.switch = {r} /\ d.timeouts = m.timeouts /\ d.rearmed = m.rearmed
    BY <1>2, <1>4, <2>1 DEF ModesFields
  <2>3. d.editor = m.editor /\ d.cursor = m.cursor /\ d.asked = m.asked
    BY <1>2, <2>1 DEF ModesFields
  <2>4. KeptPages(m, d) /\ KeptShow(m, d) /\ KeptChoices(m, d)
    BY <1>2, <2>1 DEF ModesFields, KeptPages, KeptShow, KeptChoices
  <2> HIDE DEF m
  <2>5. GoodModes(m)
    BY DEF m
  <2>6. Presented(d) /\ PutBack(d) /\ Handed(d) /\ Laid(d) /\ Wins(m, d)
    BY <2>2, <2>3, <2>4, <2>5, SwitchKeeps DEF GoodModes, Presented
  <2>7. ~m.rearmed => NoneDue(m)
    <3>1. s.ids # {}
      BY <1>9 DEF left
    <3> QED BY <2>5, <3>1 DEF GoodModes, Switched, NoneDue, m
  <2>8. Switched(d)
    BY <1>4, <1>8, <2>2, <2>3, <2>7 DEF Switched, NoneDue
  <2> QED BY <2>2, <2>6, <2>8 DEF GoodModes, m, d
<1>10. CASE left = {}
  <2> DEFINE n == [m EXCEPT !.switch = {r}, !.rearmed = h]
  <2>1. d = [m EXCEPT !.switch = {r}, !.rearmed = h, !.timeouts = u]
    BY <1>6, <1>10
  <2>2. d = [n EXCEPT !.timeouts = u]
    BY <2>1
  <2> HIDE DEF d
  <2>3. n \in ModesFields
    BY <1>2, <1>4, <1>7, ZenonT(60) DEF ModesFields
  <2>4. d \in ModesFields
    <3> HIDE DEF n
    <3> QED BY <1>5, <2>2, <2>3 DEF ModesFields
  <2>5. d.switch = {r} /\ d.timeouts = u /\ d.rearmed = h
    BY <1>2, <2>1 DEF ModesFields
  <2>6. d.editor = m.editor /\ d.cursor = m.cursor /\ d.asked = m.asked
    BY <1>2, <2>1 DEF ModesFields
  <2>7. KeptPages(m, d) /\ KeptShow(m, d) /\ KeptChoices(m, d)
    BY <1>2, <2>1 DEF ModesFields, KeptPages, KeptShow, KeptChoices
  <2> HIDE DEF m, n
  <2>8. GoodModes(m)
    BY DEF m
  <2>9. Presented(d) /\ PutBack(d) /\ Handed(d) /\ Laid(d) /\ Wins(m, d)
    BY <1>5, <2>4, <2>5, <2>6, <2>7, <2>8, SwitchKeeps DEF GoodModes, Presented
  <2>10. Switched(d)
    <3>1. d.switch = {r} /\ r.mode = s.mode /\ r.ids = {} /\ (d.asked # "passed" => s.mode = d.asked)
      BY <1>4, <1>8, <1>10, <2>5, <2>6 DEF m
    <3>2. ~d.rearmed => \A i \in DOMAIN m.timeouts : m.timeouts[i].run \notin Editors
      BY <2>5, <2>8 DEF GoodModes, Switched, h, m
    <3> QED BY <1>5, <2>5, <3>1, <3>2 DEF Switched, m
  <2> QED BY <2>4, <2>9, <2>10 DEF GoodModes, m, d
<1> QED BY <1>9, <1>10

----------------------------------------------------------------------------
(* PDFPresentationMode                                                     *)

LEMMA NotifyStateFacts ==
  ASSUME NEW m \in ModesFields, Handed(m), NEW state \in States
  PROVE  LET d == NotifyState(m, state) IN
         /\ d \in ModesFields /\ Handed(d) /\ d.state = state
         /\ d.full = m.full /\ d.listening = m.listening /\ d.args = m.args
         /\ d.timeouts = m.timeouts /\ d.switch = m.switch /\ d.editor = m.editor
         /\ d.asked = m.asked /\ d.rearmed = m.rearmed
         /\ KeptPages(m, d) /\ KeptChoices(m, d)
<1> DEFINE k == PresentationModeChanged(m.cursor, state)
           d == NotifyState(m, state)
<1>1. d = [m EXCEPT !.state = state, !.cursor = k]
  BY DEF NotifyState
<1>2. k \in Cursors /\ Handy(k, m.tool) /\ k.editor = m.cursor.editor /\ k.state = state
  BY ModesTypes, PresentationModeChangedFacts DEF Handed
<1> HIDE DEF k, d
<1>3. d \in ModesFields
  BY <1>1, <1>2, ZenonT(60) DEF ModesFields
<1>4. d.state = state /\ d.cursor = k
  BY <1>1 DEF ModesFields
<1>5. d.full = m.full /\ d.listening = m.listening /\ d.args = m.args
  BY <1>1 DEF ModesFields
<1>6. /\ d.timeouts = m.timeouts /\ d.switch = m.switch /\ d.editor = m.editor
      /\ d.asked = m.asked /\ d.rearmed = m.rearmed
  BY <1>1 DEF ModesFields
<1>7. KeptPages(m, d) /\ KeptChoices(m, d)
  BY <1>1 DEF ModesFields, KeptPages, KeptChoices
<1>8. Handed(d)
  BY <1>2, <1>4, <1>6, <1>7 DEF Handed, KeptPages, KeptChoices
<1> QED BY <1>3, <1>4, <1>5, <1>6, <1>7, <1>8 DEF d

\* A presentation keeps what is before it: the modes, to put them back.
LEMMA RequestKeeps ==
  ASSUME GoodModes(modes), Request
  PROVE  GoodModes(modes') /\ Wins(modes, modes')
<1> DEFINE m == modes
           c == Chosen(m)
           n == NotifyState(c, "CHANGING")
           d == modes'
<1>1. PICK equal \in BOOLEAN :
        /\ m.state = "NORMAL" /\ m.document # "none" /\ m.full = "no"
        /\ d = [n EXCEPT !.full = "asked", !.listening = TRUE,
                 !.args = [view |-> m.view, spreads |-> m.view.spread # 0 /\ ~equal,
                           page |-> m.page, editor |-> m.editor]]
  BY DEF Request
<1> DEFINE a == [view |-> m.view, spreads |-> m.view.spread # 0 /\ ~equal,
                 page |-> m.page, editor |-> m.editor]
<1>2. /\ GoodModes(c) /\ c.hurried = (m.hurried \/ UnderWay(m)) /\ c.rearmed = m.rearmed
      /\ KeptPages(m, c) /\ KeptShow(m, c) /\ KeptEditor(m, c)
      /\ c.chosen = m.chosen /\ c.tool = m.tool
  BY ChosenFacts
<1>3. c \in ModesFields /\ Handed(c) /\ Switched(c) /\ m \in ModesFields
  BY <1>2 DEF GoodModes
<1> HIDE DEF c
<1>4. /\ n \in ModesFields /\ Handed(n) /\ n.state = "CHANGING"
      /\ n.full = c.full /\ n.listening = c.listening /\ n.args = c.args
      /\ n.timeouts = c.timeouts /\ n.switch = c.switch /\ n.editor = c.editor
      /\ n.asked = c.asked /\ n.rearmed = c.rearmed
      /\ KeptPages(c, n) /\ KeptChoices(c, n)
  BY <1>3, NotifyStateFacts DEF States
<1>5. a \in Args /\ a.view = m.view
  <2>1. /\ m.view \in Views /\ m.page \in PageNumbers /\ m.editor \in EditorModes
        /\ (m.view.spread # 0 /\ ~equal) \in BOOLEAN
    BY <1>3, ModesTypes
  <2> QED BY <2>1 DEF Args
<1> HIDE DEF n, a
<1> DEFINE e == [n EXCEPT !.full = "asked", !.listening = TRUE]
<1>6. d = [e EXCEPT !.args = a]
  BY <1>1 DEF a
<1>7. e \in ModesFields
  BY <1>4, ZenonT(60) DEF ModesFields
<1> HIDE DEF d
<1>8. d \in ModesFields
  <2> HIDE DEF e
  <2> QED BY <1>5, <1>6, <1>7 DEF ModesFields
<1>9. d.full = "asked" /\ d.listening = TRUE /\ d.args = a /\ d.state = n.state
  BY <1>4, <1>6 DEF ModesFields
<1>10. KeptPages(n, d) /\ KeptEditor(n, d) /\ KeptChoices(n, d) /\ d.rearmed = n.rearmed
  BY <1>4, <1>6 DEF ModesFields, KeptPages, KeptEditor, KeptChoices
<1> HIDE DEF e
<1>11. Presented(d)
  <2>1. /\ InTurn(m.timeouts) /\ ~Due(m.timeouts, "exit") /\ ~Due(m.timeouts, "enter")
    BY <1>1 DEF GoodModes, Presented
  <2>2. d.timeouts = m.timeouts
    BY <1>2, <1>4, <1>10 DEF KeptEditor
  <2> QED BY <1>4, <1>9, <2>1, <2>2 DEF Presented
<1>12. PutBack(d)
  <2>1. SUFFICES ASSUME ~d.hurried PROVE PutBack(d)
    BY DEF PutBack
  <2>2. ~m.hurried /\ ~UnderWay(m) /\ d.chosen = m.chosen
    BY <1>2, <1>4, <1>10, <2>1 DEF KeptChoices
  <2>3. m.view = m.chosen /\ m.stored = m.chosen.scroll
    BY <1>1, <2>2 DEF GoodModes, PutBack, ShownView, Entering
  <2>4. m.document = "shown"
    BY <1>1, <1>3, <2>2, ModesTypes DEF UnderWay
  <2>5. d.document = m.document /\ d.view = m.view /\ d.stored = m.stored
    BY <1>2, <1>4, <1>10 DEF KeptPages
  <2> QED BY <1>4, <1>5, <1>9, <2>2, <2>3, <2>4, <2>5 DEF PutBack, ShownView, Entering
<1>13. Handed(d)
  BY <1>4, <1>9, <1>10 DEF Handed, KeptPages, KeptEditor, KeptChoices
<1>14. Switched(d)
  BY <1>3, <1>4, <1>10 DEF Switched, KeptEditor
<1>15. Laid(d)
  BY <1>2, <1>4, <1>10 DEF GoodModes, Laid, KeptPages
<1>16. Wins(m, d)
  BY <1>2, <1>4, <1>10 DEF Wins, KeptEditor
<1> QED BY <1>8, <1>11, <1>12, <1>13, <1>14, <1>15, <1>16 DEF GoodModes, m, d

LEMMA RefusedKeeps ==
  ASSUME GoodModes(modes), Refused
  PROVE  GoodModes(modes') /\ Wins(modes, modes')
<1> DEFINE m == modes
           n == NotifyState(m, "NORMAL")
           d == modes'
<1>1. m.full = "asked" /\ d = [n EXCEPT !.full = "no", !.listening = FALSE]
  BY DEF Refused
<1>2. m \in ModesFields /\ Handed(m)
  BY DEF GoodModes
<1>3. /\ n \in ModesFields /\ Handed(n) /\ n.state = "NORMAL"
      /\ n.full = m.full /\ n.listening = m.listening /\ n.args = m.args
      /\ n.timeouts = m.timeouts /\ n.switch = m.switch /\ n.editor = m.editor
      /\ n.asked = m.asked /\ n.rearmed = m.rearmed
      /\ KeptPages(m, n) /\ KeptChoices(m, n)
  BY <1>2, NotifyStateFacts DEF States
<1> HIDE DEF n, d
<1>4. d \in ModesFields
  BY <1>1, <1>3, ZenonT(60) DEF ModesFields
<1>5. d.full = "no" /\ d.listening = FALSE /\ d.state = n.state
  BY <1>1, <1>3 DEF ModesFields
<1>6. KeptPages(n, d) /\ KeptEditor(n, d) /\ KeptChoices(n, d) /\ d.rearmed = n.rearmed
  BY <1>1, <1>3 DEF ModesFields, KeptPages, KeptEditor, KeptChoices
<1> HIDE DEF m
<1>7. GoodModes(m)
  BY DEF m
<1>8. Presented(d)
  <2>1. InTurn(m.timeouts) /\ ~Due(m.timeouts, "exit") /\ ~Due(m.timeouts, "enter")
    BY <1>1, <1>7 DEF GoodModes, Presented
  <2>2. d.timeouts = m.timeouts
    BY <1>3, <1>6 DEF KeptEditor
  <2> QED BY <1>3, <1>5, <2>1, <2>2 DEF Presented
<1>9. PutBack(d)
  <2>1. m.state = "CHANGING"
    BY <1>1, <1>7 DEF GoodModes, Presented
  <2>2. ~m.hurried => m.view = m.chosen /\ m.stored = m.chosen.scroll
    BY <1>7, <2>1 DEF GoodModes, PutBack, ShownView, Entering
  <2> QED BY <1>3, <1>5, <1>6, <2>2 DEF PutBack, ShownView, Entering, KeptPages, KeptChoices
<1>10. Handed(d)
  BY <1>3, <1>5, <1>6 DEF Handed, KeptPages, KeptEditor, KeptChoices
<1>11. Switched(d)
  BY <1>3, <1>6, <1>7 DEF GoodModes, Switched, KeptEditor
<1>12. Laid(d)
  BY <1>3, <1>6, <1>7 DEF GoodModes, Laid, KeptPages
<1>13. Wins(m, d)
  BY <1>3, <1>6 DEF Wins, KeptEditor
<1> QED BY <1>4, <1>8, <1>9, <1>10, <1>11, <1>12, <1>13 DEF GoodModes, m, d

\* A timeout of the presentation that is set last.
LastSet(m, run) ==
  [m EXCEPT !.timeouts = Append(m.timeouts, [run |-> run, page |-> m.page])]

SetsLast(m, d, run) ==
  /\ d \in ModesFields /\ Handed(d) /\ Switched(d) /\ d.rearmed = m.rearmed
  /\ KeptPages(m, d) /\ KeptShow(m, d) /\ KeptChoices(m, d)
  /\ d.editor = m.editor
  /\ \A r : Due(d.timeouts, r) <=> Due(m.timeouts, r) \/ run = r
  /\ InTurn(m.timeouts) /\ ~Due(m.timeouts, "exit") /\ (run = "enter" => ~Due(m.timeouts, "enter")) =>
       InTurn(d.timeouts)

LEMMA LastSetFacts ==
  ASSUME NEW n \in ModesFields, Handed(n), Switched(n), NEW run \in {"enter", "exit"}
  PROVE  SetsLast(n, LastSet(n, run), run)
<1> DEFINE d == LastSet(n, run)
<1> DEFINE e == [run |-> run, page |-> n.page]
           t == n.timeouts
           u == Append(t, e)
<1>1. t \in Seq(Timeouts) /\ n.page \in PageNumbers
  BY ModesTypes
<1>2. e \in Timeouts /\ e.run = run
  BY <1>1 DEF Timeouts
<1> HIDE DEF e, t
<1>3. /\ u \in Seq(Timeouts) /\ DOMAIN u = 1..(Len(t) + 1) /\ DOMAIN t = 1..Len(t)
      /\ u[Len(t) + 1] = e /\ \A i \in DOMAIN t : u[i] = t[i]
      /\ \A r : Due(u, r) <=> Due(t, r) \/ e.run = r
      /\ InTurn(t) /\ e.run = "enter" /\ ~Due(t, "enter") /\ ~Due(t, "exit") => InTurn(u)
      /\ InTurn(t) /\ e.run = "exit" /\ ~Due(t, "exit") => InTurn(u)
  BY <1>1, <1>2, AppendFacts
<1>4. d = [n EXCEPT !.timeouts = u]
  BY DEF e, t, LastSet
<1> HIDE DEF u, d
<1>5. d \in ModesFields /\ d.timeouts = u /\ d.rearmed = n.rearmed
  BY <1>3, <1>4 DEF ModesFields
<1>6. d.editor = n.editor /\ d.switch = n.switch /\ d.cursor = n.cursor /\ d.asked = n.asked
  BY <1>4 DEF ModesFields
<1>7. KeptPages(n, d) /\ KeptShow(n, d) /\ KeptChoices(n, d)
  BY <1>4 DEF ModesFields, KeptPages, KeptShow, KeptChoices
<1>8. Handed(d)
  BY <1>6, <1>7 DEF Handed, KeptPages, KeptShow, KeptChoices
<1>9. \A i \in DOMAIN u : u[i].run \in Editors => i \in DOMAIN t
  <2>1. run \notin Editors
    BY ModesAssumption
  <2>2. \A i \in DOMAIN u : i \in DOMAIN t \/ i = Len(t) + 1
    BY <1>1, <1>3, LenProperties
  <2> QED BY <1>2, <1>3, <2>1, <2>2
<1>10. Switched(d)
  BY <1>3, <1>5, <1>6, <1>9 DEF Switched, t
<1> QED BY <1>2, <1>3, <1>5, <1>6, <1>7, <1>8, <1>10 DEF SetsLast, t, d

LEMMA FullscreenEnteredKeeps ==
  ASSUME GoodModes(modes), FullscreenEntered
  PROVE  GoodModes(modes') /\ Wins(modes, modes')
<1> DEFINE m == modes
           a == [m EXCEPT !.full = "yes"]
           n == NotifyState(a, "FULLSCREEN")
           d == modes'
<1>1. m.full = "asked" /\ d = IF a.listening THEN Enter(a) ELSE a
  BY DEF FullscreenEntered
<1>2. m \in ModesFields
  BY DEF GoodModes
<1>3. a \in ModesFields /\ a.full = "yes" /\ a.rearmed = m.rearmed
  BY <1>2 DEF ModesFields
<1>4. a.listening = m.listening /\ a.state = m.state /\ a.args = m.args
  BY <1>2 DEF ModesFields
<1>5. KeptPages(m, a) /\ KeptEditor(m, a) /\ KeptChoices(m, a)
  BY <1>2 DEF ModesFields, KeptPages, KeptEditor, KeptChoices
<1> HIDE DEF a, m
<1>6. GoodModes(m)
  BY DEF m
<1>7. Handed(a) /\ Switched(a)
  BY <1>3, <1>4, <1>5, <1>6 DEF GoodModes, Handed, Switched, KeptPages, KeptEditor, KeptChoices
<1>8. m.state = "CHANGING" /\ m.listening
  BY <1>1, <1>6 DEF GoodModes, Presented
<1>9. d = [n EXCEPT !.timeouts = Append(n.timeouts, [run |-> "enter", page |-> n.page])]
  <2>1. d = [n EXCEPT !.timeouts = Append(@, [run |-> "enter", page |-> a.page])]
    BY <1>1, <1>4, <1>8 DEF Enter
  <2>2. n.page = a.page
    BY <1>3, <1>7, NotifyStateFacts DEF States, KeptPages
  <2> QED BY <2>1, <2>2
<1>10. /\ n \in ModesFields /\ Handed(n) /\ n.state = "FULLSCREEN"
       /\ n.full = a.full /\ n.listening = a.listening /\ n.args = a.args
       /\ n.timeouts = a.timeouts /\ n.switch = a.switch /\ n.editor = a.editor
       /\ n.asked = a.asked /\ n.rearmed = a.rearmed
       /\ KeptPages(a, n) /\ KeptChoices(a, n)
  BY <1>3, <1>7, NotifyStateFacts DEF States
<1> HIDE DEF n, d
<1>11. Switched(n)
  BY <1>7, <1>10 DEF Switched
<1>12. /\ d \in ModesFields /\ Handed(d) /\ Switched(d) /\ d.rearmed = n.rearmed
       /\ KeptPages(n, d) /\ KeptShow(n, d) /\ KeptChoices(n, d)
       /\ d.editor = n.editor
       /\ \A r : Due(d.timeouts, r) <=> Due(n.timeouts, r) \/ "enter" = r
       /\ InTurn(n.timeouts) /\ ~Due(n.timeouts, "exit") /\ ~Due(n.timeouts, "enter") =>
            InTurn(d.timeouts)
  <2>1. d = LastSet(n, "enter")
    BY <1>9 DEF LastSet
  <2>2. SetsLast(n, d, "enter")
    BY <1>10, <1>11, <2>1, LastSetFacts
  <2> QED BY <2>2 DEF SetsLast
<1>13. /\ n.timeouts = m.timeouts /\ InTurn(m.timeouts)
       /\ ~Due(m.timeouts, "exit") /\ ~Due(m.timeouts, "enter")
  BY <1>1, <1>5, <1>6, <1>8, <1>10 DEF GoodModes, Presented, KeptEditor
<1>14. Presented(d)
  BY <1>3, <1>4, <1>8, <1>10, <1>12, <1>13 DEF Presented, KeptShow
<1>15. PutBack(d)
  <2>1. SUFFICES ASSUME ~d.hurried PROVE PutBack(d)
    BY DEF PutBack
  <2>2. ~m.hurried /\ d.chosen = m.chosen
    BY <1>5, <1>10, <1>12, <2>1 DEF KeptChoices
  <2>3. /\ m.view = m.chosen /\ m.stored = m.chosen.scroll
        /\ m.document = "shown" /\ m.args.view = m.chosen
    BY <1>6, <1>8, <2>2 DEF GoodModes, PutBack, ShownView, Entering
  <2>4. /\ d.document = m.document /\ d.view = m.view /\ d.stored = m.stored /\ d.args = m.args
    BY <1>4, <1>5, <1>10, <1>12 DEF KeptPages, KeptShow
  <2>5. ~Entering(d)
    BY <1>12 DEF Entering
  <2> QED BY <2>2, <2>3, <2>4, <2>5 DEF PutBack, ShownView
<1>16. Laid(d)
  BY <1>5, <1>6, <1>10, <1>12 DEF GoodModes, Laid, KeptPages
<1>17. d.editor = m.editor
  BY <1>5, <1>10, <1>12 DEF KeptEditor
<1> QED BY <1>12, <1>14, <1>15, <1>16, <1>17 DEF GoodModes, Wins, m, d

LEMMA FullscreenLeftKeeps ==
  ASSUME GoodModes(modes), FullscreenLeft
  PROVE  GoodModes(modes') /\ Wins(modes, modes')
<1> DEFINE m == modes
           a == [m EXCEPT !.full = "no"]
           d == modes'
<1>1. m.full = "yes" /\ d = IF a.listening THEN Exit(a) ELSE a
  BY DEF FullscreenLeft
<1>2. m \in ModesFields
  BY DEF GoodModes
<1>3. a \in ModesFields /\ a.full = "no" /\ a.rearmed = m.rearmed
  BY <1>2 DEF ModesFields
<1>4. a.listening = m.listening /\ a.state = m.state /\ a.args = m.args
  BY <1>2 DEF ModesFields
<1>5. KeptPages(m, a) /\ KeptEditor(m, a) /\ KeptChoices(m, a)
  BY <1>2 DEF ModesFields, KeptPages, KeptEditor, KeptChoices
<1> HIDE DEF a, m
<1>6. GoodModes(m)
  BY DEF m
<1>7. Handed(a) /\ Switched(a)
  BY <1>3, <1>4, <1>5, <1>6 DEF GoodModes, Handed, Switched, KeptPages, KeptEditor, KeptChoices
<1>8. m.state = "FULLSCREEN" /\ m.listening
  BY <1>1, <1>6 DEF GoodModes, Presented
<1>9. d = [a EXCEPT !.timeouts = Append(a.timeouts, [run |-> "exit", page |-> a.page])]
  BY <1>1, <1>4, <1>8 DEF Exit
<1> HIDE DEF d
<1>10. /\ d \in ModesFields /\ Handed(d) /\ Switched(d) /\ d.rearmed = a.rearmed
       /\ KeptPages(a, d) /\ KeptShow(a, d) /\ KeptChoices(a, d)
       /\ d.editor = a.editor
       /\ \A r : Due(d.timeouts, r) <=> Due(a.timeouts, r) \/ "exit" = r
       /\ InTurn(a.timeouts) /\ ~Due(a.timeouts, "exit") => InTurn(d.timeouts)
  <2>1. d = LastSet(a, "exit")
    BY <1>9 DEF LastSet
  <2>2. SetsLast(a, d, "exit")
    BY <1>3, <1>7, <2>1, LastSetFacts
  <2> QED BY <2>2 DEF SetsLast
<1>11. a.timeouts = m.timeouts /\ InTurn(m.timeouts) /\ ~Due(m.timeouts, "exit")
  BY <1>1, <1>5, <1>6 DEF GoodModes, Presented, KeptEditor
<1>12. Presented(d)
  BY <1>3, <1>4, <1>8, <1>10, <1>11 DEF Presented, KeptShow
<1>13. PutBack(d)
  <2>1. Due(d.timeouts, "enter") <=> Due(m.timeouts, "enter")
    BY <1>10, <1>11
  <2> QED BY <1>4, <1>5, <1>6, <1>10, <2>1
           DEF GoodModes, PutBack, ShownView, Entering, KeptPages, KeptShow, KeptChoices
<1>14. Laid(d)
  BY <1>5, <1>6, <1>10 DEF GoodModes, Laid, KeptPages
<1>15. d.editor = m.editor
  BY <1>5, <1>10 DEF KeptEditor
<1> QED BY <1>10, <1>12, <1>13, <1>14, <1>15 DEF GoodModes, Wins, m, d

\* There is a switch to the mode, which is what was asked for, unless passed over.
Waited(m, mode) ==
  (\E s \in m.switch : s.mode = mode) /\ (m.asked # "passed" => mode = m.asked)

\* The timeout that runs is due no more.
LEMMA HeadFacts ==
  ASSUME NEW m, GoodModes(m), m.timeouts # <<>>
  PROVE  LET d == [m EXCEPT !.timeouts = Tail(@)]
             t == Head(m.timeouts)
         IN  /\ d \in ModesFields /\ Handed(d) /\ Switched(d) /\ Laid(d) /\ d.rearmed = m.rearmed
             /\ KeptPages(m, d) /\ KeptShow(m, d) /\ KeptChoices(m, d)
             /\ d.editor = m.editor /\ d.asked = m.asked
             /\ InTurn(d.timeouts) /\ t \in Timeouts /\ Due(m.timeouts, t.run)
             /\ \A run : run # t.run => (Due(d.timeouts, run) <=> Due(m.timeouts, run))
             /\ t.run = "enter" => ~Due(d.timeouts, "enter")
             /\ t.run = "exit" => ~Due(d.timeouts, "exit") /\ ~Due(m.timeouts, "enter")
             /\ t.run \in Editors /\ ~m.rearmed => Waited(m, t.run)
<1> DEFINE s == m.timeouts
           u == Tail(s)
           t == Head(s)
           d == [m EXCEPT !.timeouts = Tail(@)]
<1>1. m \in ModesFields /\ s \in Seq(Timeouts)
  BY ModesTypes DEF GoodModes
<1>2. Thinned(s, u, 1) /\ 1 \in 1..Len(s) /\ t = s[1] /\ t \in Timeouts
  BY <1>1, TailThins
<1>3. d = [m EXCEPT !.timeouts = u] /\ InTurn(s)
  BY DEF GoodModes, Presented
<1> HIDE DEF s, u, t, d
<1>4. /\ InTurn(s) => InTurn(u)
      /\ \A run : Due(u, run) => Due(s, run)
      /\ \A run : Due(s, run) /\ s[1].run # run => Due(u, run)
      /\ \A i \in DOMAIN u :
           \E g \in DOMAIN s :
             /\ u[i] = s[g] /\ g # 1
             /\ \A j \in DOMAIN u : j # i => \E h \in DOMAIN s : u[j] = s[h] /\ h # g
  BY <1>1, <1>2, ThinnedFacts
<1>5. u \in Seq(Timeouts) /\ 1 \in DOMAIN s /\ DOMAIN s = 1..Len(s) /\ Len(s) \in Nat
  BY <1>1, <1>2, LenProperties DEF Thinned
<1>6. d \in ModesFields /\ d.timeouts = u /\ d.rearmed = m.rearmed
  BY <1>1, <1>3, <1>5 DEF ModesFields
<1>7. d.editor = m.editor /\ d.asked = m.asked /\ d.switch = m.switch /\ d.cursor = m.cursor
  BY <1>1, <1>3 DEF ModesFields
<1>8. KeptPages(m, d) /\ KeptShow(m, d) /\ KeptChoices(m, d)
  BY <1>1, <1>3 DEF ModesFields, KeptPages, KeptShow, KeptChoices
<1>9. Handed(d) /\ Laid(d)
  BY <1>7, <1>8 DEF GoodModes, Handed, Laid, KeptPages, KeptShow, KeptChoices
<1>10. \A run \in {"enter", "exit"} : t.run = run => ~Due(u, run)
  <2>1. \A g \in DOMAIN s : g # 1 => 1 < g
    BY <1>5
  <2> QED BY <1>2, <1>3, <1>4, <1>5, <2>1 DEF InTurn, Due
<1>11. t.run = "exit" => ~Due(s, "enter")
  <2>1. \A g \in DOMAIN s : g # 1 => 1 < g
    BY <1>5
  <2> QED BY <1>2, <1>3, <1>5, <2>1 DEF InTurn, Due
<1>12. Due(s, t.run)
  BY <1>2, <1>5 DEF Due
<1>13. ~m.rearmed /\ t.run \in Editors => Waited(m, t.run)
  BY <1>2, <1>5 DEF GoodModes, Switched, Waited, s
<1>14. Switched(d)
  <2>1. d.asked # "passed" => \A e \in d.switch : e.mode = d.asked
    BY <1>7 DEF GoodModes, Switched
  <2>2. ASSUME ~d.rearmed, NEW i \in DOMAIN u, u[i].run \in Editors
        PROVE  /\ u[i].latest /\ d.switch # {}
               /\ \A e \in d.switch : e.ids = {} /\ e.mode = u[i].run
               /\ \A j \in DOMAIN u : u[j].run \in Editors => j = i
    <3>1. PICK g \in DOMAIN s :
            /\ u[i] = s[g] /\ g # 1
            /\ \A j \in DOMAIN u : j # i => \E h \in DOMAIN s : u[j] = s[h] /\ h # g
      BY <1>4
    <3>2. /\ s[g].latest /\ m.switch # {}
          /\ \A e \in m.switch : e.ids = {} /\ e.mode = s[g].run
          /\ \A h \in DOMAIN s : s[h].run \in Editors => h = g
      BY <1>6, <2>2, <3>1 DEF GoodModes, Switched, s
    <3> QED BY <1>7, <3>1, <3>2
  <2> QED BY <1>6, <2>1, <2>2 DEF Switched
<1> QED BY <1>2, <1>3, <1>4, <1>6, <1>7, <1>8, <1>9, <1>10, <1>11, <1>12, <1>13, <1>14
    DEF s, t, d

\* The presentation shows single pages, whatever modes it was entered from.
LEMMA EnteredKeeps ==
  ASSUME NEW m, GoodModes(m), m.timeouts # <<>>, Head(m.timeouts).run = "enter"
  PROVE  LET d == Entered([m EXCEPT !.timeouts = Tail(@)]) IN GoodModes(d) /\ Wins(m, d)
<1> DEFINE b == [m EXCEPT !.timeouts = Tail(@)]
           a == b.args
           scrolled == SetScroll(b, "PAGE")
           spread == IF a.spreads THEN SetSpread(scrolled, 0) ELSE scrolled
           paged == SetPage(spread, a.page)
           viewed == SetScale(paged, "page-fit")
           d == Entered(b)
<1>1. /\ b \in ModesFields /\ Handed(b) /\ Switched(b) /\ Laid(b) /\ b.rearmed = m.rearmed
      /\ KeptPages(m, b) /\ KeptShow(m, b) /\ KeptChoices(m, b)
      /\ b.editor = m.editor /\ b.asked = m.asked
      /\ InTurn(b.timeouts) /\ Due(m.timeouts, "enter") /\ ~Due(b.timeouts, "enter")
      /\ (Due(b.timeouts, "exit") <=> Due(m.timeouts, "exit"))
  BY HeadFacts
<1>2. d = IF a.editor = "null" \/ b.document = "none" THEN viewed ELSE SetEditor(viewed, "NONE", {})
  BY DEF Entered
<1>3. a \in Args /\ a.page \in PageNumbers /\ a = m.args
  BY <1>1, ModesTypes DEF Args, KeptShow
<1> HIDE DEF a, b, d
<1>4. m.state = "FULLSCREEN" /\ b.state = "FULLSCREEN"
  BY <1>1 DEF GoodModes, Presented, KeptShow
<1>5. /\ Moved(b, scrolled) /\ Laid(scrolled) /\ scrolled.stored = b.stored
      /\ scrolled.view.scroll = "PAGE" /\ scrolled.view.spread = b.view.spread
  BY <1>1, <1>4, SetScrollFacts
<1> HIDE DEF scrolled
<1>6. /\ Moved(b, spread) /\ Laid(spread) /\ spread.stored = b.stored
      /\ spread.view.scroll = "PAGE"
      /\ spread.view.spread = IF a.spreads THEN 0 ELSE b.view.spread
  <2>1. CASE a.spreads
    <3> DEFINE e == SetSpread(scrolled, 0)
    <3>1. spread = e
      BY <2>1
    <3>2. /\ Moved(scrolled, e) /\ Laid(e) /\ e.stored = scrolled.stored
          /\ e.view.spread = 0 /\ e.view.scroll = scrolled.view.scroll
      BY <1>5, SetSpreadFacts DEF Moved, Spreads
    <3> HIDE DEF e, spread
    <3>3. Moved(b, e)
      BY <1>5, <3>2, MovedTwice
    <3> QED BY <1>5, <2>1, <3>1, <3>2, <3>3
  <2>2. CASE ~a.spreads
    <3>1. spread = scrolled
      BY <2>2
    <3> HIDE DEF spread
    <3> QED BY <1>5, <2>2, <3>1
  <2> QED BY <2>1, <2>2
<1> HIDE DEF spread
<1>7. /\ Moved(b, paged) /\ Laid(paged) /\ paged.stored = b.stored /\ paged.view = spread.view
  <2>1. Moved(spread, paged) /\ Laid(paged) /\ paged.view = spread.view /\ paged.stored = spread.stored
    BY <1>3, <1>6, SetPageFacts DEF Moved
  <2>2. Moved(b, paged)
    BY <1>6, <2>1, MovedTwice
  <2> QED BY <1>6, <2>1, <2>2
<1> HIDE DEF paged
<1>8. /\ Moved(b, viewed) /\ Laid(viewed) /\ viewed.stored = b.stored
      /\ viewed.view.scroll = "PAGE" /\ viewed.view.spread = spread.view.spread
      /\ b.document # "none" => viewed.view.scale = "page-fit"
  <2>1. /\ Moved(paged, viewed) /\ Laid(viewed) /\ viewed.stored = paged.stored
        /\ viewed.view.spread = paged.view.spread /\ viewed.view.scroll = paged.view.scroll
        /\ paged.document # "none" => viewed.view.scale = "page-fit"
    BY <1>7, SetScaleFacts DEF Moved
  <2>2. Moved(b, viewed)
    BY <1>7, <2>1, MovedTwice
  <2> QED BY <1>6, <1>7, <2>1, <2>2 DEF Moved
<1> HIDE DEF viewed
<1>9. Presented(b)
  BY <1>1, <1>4 DEF GoodModes, Presented, KeptShow
<1>10. /\ viewed \in ModesFields /\ Presented(viewed) /\ Handed(viewed) /\ Switched(viewed)
  BY <1>1, <1>8, <1>9, MovedKeeps DEF Moved
<1>11. PutBack(viewed)
  <2>1. SUFFICES ASSUME ~viewed.hurried PROVE PutBack(viewed)
    BY DEF PutBack
  <2>2. ~m.hurried /\ viewed.chosen = m.chosen
    BY <1>1, <1>8, <2>1 DEF Moved, KeptChoices
  <2>3. /\ m.stored = m.chosen.scroll /\ m.document = "shown" /\ m.args.view = m.chosen
        /\ m.view = m.chosen
    BY <1>1, <1>4, <2>2 DEF GoodModes, PutBack, ShownView, Entering
  <2>4. /\ viewed.stored = m.stored /\ viewed.document = "shown" /\ viewed.args = m.args
        /\ viewed.state = "FULLSCREEN" /\ b.document = "shown"
    BY <1>1, <1>4, <1>8, <2>3 DEF Moved, KeptPages, KeptShow
  <2>5. Entering(viewed)
    BY <1>1, <1>8, <2>4 DEF Entering, Moved, KeptEditor
  <2> DEFINE w == [scroll |-> "PAGE", scale |-> "page-fit",
                   spread |-> IF viewed.args.spreads THEN 0 ELSE viewed.chosen.spread]
  <2>6. viewed.view = w
    <3>1. viewed.view \in Views /\ viewed.chosen \in Views
      BY <1>10, ModesTypes
    <3>2. w \in Views
      BY <3>1 DEF Views, Spreads
    <3>3. /\ viewed.view.spread = IF viewed.args.spreads THEN 0 ELSE viewed.chosen.spread
      BY <1>1, <1>3, <1>6, <1>8, <2>2, <2>3, <2>4 DEF KeptPages
    <3>4. viewed.view.scroll = w.scroll /\ viewed.view.scale = w.scale /\ viewed.view.spread = w.spread
      BY <1>8, <2>4, <3>3
    <3> HIDE DEF w
    <3> QED BY <3>1, <3>2, <3>4, ViewsEqual
  <2> QED BY <2>2, <2>3, <2>4, <2>5, <2>6 DEF PutBack, ShownView
<1>12. viewed.editor = m.editor /\ viewed.rearmed = m.rearmed
  BY <1>1, <1>8 DEF Moved, KeptEditor
<1>13. CASE d = viewed
  BY <1>8, <1>10, <1>11, <1>12, <1>13 DEF GoodModes, Wins, d, b
<1>14. CASE d = SetEditor(viewed, "NONE", {})
  <2>1. Edited(viewed, d) /\ Handed(d) /\ Switched(d) /\ (d.editor = viewed.editor \/ d.editor = d.asked)
    <3>1. "NONE" \in EditorModes /\ {} \in SUBSET PageNumbers
      BY DEF EditorModes
    <3> QED BY <1>10, <1>14, <3>1, SetEditorFacts
  <2>2. Presented(d) /\ PutBack(d) /\ Laid(d) /\ d \in ModesFields
    BY <1>8, <1>10, <1>11, <2>1, EditedKeeps DEF Edited
  <2> QED BY <1>12, <2>1, <2>2 DEF GoodModes, Wins, d, b
<1> QED BY <1>2, <1>13, <1>14

\* What was set aside is put back, whatever became of the document.
LEMMA ExitedKeeps ==
  ASSUME NEW m, GoodModes(m), m.timeouts # <<>>, Head(m.timeouts).run = "exit",
         NEW page \in PageNumbers, NEW ids \in SUBSET PageNumbers
  PROVE  LET d == Exited([m EXCEPT !.timeouts = Tail(@)], page, ids)
         IN  GoodModes(d) /\ Wins(m, d)
<1> DEFINE b == [m EXCEPT !.timeouts = Tail(@)]
           a == b.args
           normal == NotifyState(b, "NORMAL")
           left == [normal EXCEPT !.listening = FALSE]
           scrolled == SetScroll(left, a.view.scroll)
           spread == IF a.spreads THEN SetSpread(scrolled, a.view.spread) ELSE scrolled
           scaled == SetScale(spread, a.view.scale)
           viewed == SetPage(scaled, page)
           edited == SetEditor(viewed, a.editor, ids)
           d == Exited(b, page, ids)
<1>1. /\ b \in ModesFields /\ Handed(b) /\ Switched(b) /\ Laid(b) /\ b.rearmed = m.rearmed
      /\ KeptPages(m, b) /\ KeptShow(m, b) /\ KeptChoices(m, b)
      /\ b.editor = m.editor /\ b.asked = m.asked
      /\ InTurn(b.timeouts) /\ Due(m.timeouts, "exit") /\ ~Due(b.timeouts, "exit")
      /\ ~Due(m.timeouts, "enter") /\ ~Due(b.timeouts, "enter")
  BY HeadFacts
<1>2. \/ d = viewed
      \/ d = [viewed EXCEPT !.args = NoArgs]
      \/ d = [edited EXCEPT !.args = NoArgs] /\ a.editor # "null"
  BY DEF Exited
<1>3. /\ a \in Args /\ a = m.args /\ a.view \in Views /\ a.editor \in EditorModes \cup {"null"}
      /\ a.view.scroll \in Scrolls \cup {"PAGE"} /\ a.view.spread \in Spreads
      /\ a.view.scale \in {"auto", "page-fit"}
  <2>1. a \in Args /\ a = m.args
    BY <1>1, ModesTypes DEF KeptShow
  <2>2. a.view \in Views /\ a.editor \in EditorModes \cup {"null"}
    BY <2>1 DEF Args
  <2> QED BY <2>1, <2>2, ViewTypes
<1> HIDE DEF a, b, d
<1>4. m.state = "FULLSCREEN" /\ b.state = "FULLSCREEN" /\ m.full = "no"
  BY <1>1 DEF GoodModes, Presented, KeptShow
<1>5. /\ normal \in ModesFields /\ Handed(normal) /\ normal.state = "NORMAL"
      /\ normal.full = b.full /\ normal.listening = b.listening /\ normal.args = b.args
      /\ normal.timeouts = b.timeouts /\ normal.switch = b.switch /\ normal.editor = b.editor
      /\ normal.asked = b.asked /\ normal.rearmed = b.rearmed
      /\ KeptPages(b, normal) /\ KeptChoices(b, normal)
  BY <1>1, NotifyStateFacts DEF States
<1> HIDE DEF normal
<1>6. /\ left \in ModesFields /\ left.listening = FALSE /\ left.rearmed = normal.rearmed
      /\ left.full = normal.full /\ left.state = normal.state /\ left.args = normal.args
  BY <1>5 DEF ModesFields
<1>7. KeptPages(normal, left) /\ KeptEditor(normal, left) /\ KeptChoices(normal, left)
  BY <1>5 DEF ModesFields, KeptPages, KeptEditor, KeptChoices
<1> HIDE DEF left
<1>8. Handed(left)
  BY <1>5, <1>6, <1>7 DEF Handed, KeptPages, KeptEditor, KeptChoices
<1>9. Switched(left)
  BY <1>1, <1>5, <1>6, <1>7 DEF Switched, KeptEditor
<1>10. Laid(left)
  BY <1>1, <1>5, <1>7 DEF Laid, KeptPages
<1>11. left.timeouts = b.timeouts /\ left.full = "no"
  BY <1>1, <1>4, <1>5, <1>6, <1>7 DEF KeptEditor, KeptShow
<1>12. Presented(left)
  BY <1>1, <1>5, <1>6, <1>11 DEF Presented
<1>13. /\ Moved(left, scrolled) /\ Laid(scrolled) /\ scrolled.view.scroll = a.view.scroll
       /\ scrolled.view.spread = left.view.spread
       /\ scrolled.stored = IF left.view.scroll = a.view.scroll \/ left.document # "shown"
                                 \/ left.state = "FULLSCREEN"
                              THEN left.stored ELSE a.view.scroll
  BY <1>3, <1>6, <1>10, SetScrollFacts
<1> HIDE DEF scrolled
<1>14. /\ Moved(left, spread) /\ Laid(spread) /\ spread.stored = scrolled.stored
       /\ spread.view.scroll = a.view.scroll
       /\ spread.view.spread = IF a.spreads THEN a.view.spread ELSE left.view.spread
  <2>1. CASE a.spreads
    <3> DEFINE e == SetSpread(scrolled, a.view.spread)
    <3>1. spread = e
      BY <2>1
    <3>2. /\ Moved(scrolled, e) /\ Laid(e) /\ e.stored = scrolled.stored
          /\ e.view.spread = a.view.spread /\ e.view.scroll = scrolled.view.scroll
      BY <1>3, <1>13, SetSpreadFacts DEF Moved
    <3> HIDE DEF e, spread
    <3>3. Moved(left, e)
      BY <1>13, <3>2, MovedTwice
    <3> QED BY <1>13, <2>1, <3>1, <3>2, <3>3
  <2>2. CASE ~a.spreads
    <3>1. spread = scrolled
      BY <2>2
    <3> HIDE DEF spread
    <3> QED BY <1>13, <2>2, <3>1
  <2> QED BY <2>1, <2>2
<1> HIDE DEF spread
<1>15. /\ Moved(left, scaled) /\ Laid(scaled) /\ scaled.stored = scrolled.stored
       /\ scaled.view.scroll = a.view.scroll /\ scaled.view.spread = spread.view.spread
       /\ left.document # "none" => scaled.view.scale = a.view.scale
  <2>1. /\ Moved(spread, scaled) /\ Laid(scaled) /\ scaled.stored = spread.stored
        /\ scaled.view.spread = spread.view.spread /\ scaled.view.scroll = spread.view.scroll
        /\ spread.document # "none" => scaled.view.scale = a.view.scale
    BY <1>3, <1>14, SetScaleFacts DEF Moved
  <2>2. Moved(left, scaled)
    BY <1>14, <2>1, MovedTwice
  <2> QED BY <1>14, <2>1, <2>2 DEF Moved
<1> HIDE DEF scaled
<1>16. /\ Moved(left, viewed) /\ Laid(viewed) /\ viewed.stored = scrolled.stored
       /\ viewed.view = scaled.view
  <2>1. Moved(scaled, viewed) /\ Laid(viewed) /\ viewed.view = scaled.view /\ viewed.stored = scaled.stored
    BY <1>15, SetPageFacts DEF Moved
  <2>2. Moved(left, viewed)
    BY <1>15, <2>1, MovedTwice
  <2> QED BY <1>15, <2>1, <2>2
<1> HIDE DEF viewed
<1>17. /\ viewed \in ModesFields /\ Presented(viewed) /\ Handed(viewed) /\ Switched(viewed)
       /\ viewed.state = "NORMAL"
  BY <1>5, <1>6, <1>8, <1>9, <1>12, <1>16, MovedKeeps DEF Moved, KeptShow
<1>18. PutBack(viewed)
  <2>1. SUFFICES ASSUME ~viewed.hurried PROVE PutBack(viewed)
    BY DEF PutBack
  <2>2. ~m.hurried /\ viewed.chosen = m.chosen
    BY <1>1, <1>5, <1>7, <1>16, <2>1 DEF Moved, KeptChoices
  <2>3. Entering(m)
    BY <1>1, <1>4 DEF Entering
  <2>4. /\ m.stored = m.chosen.scroll /\ m.document = "shown" /\ a.view = m.chosen
        /\ m.view.spread = IF a.spreads THEN 0 ELSE m.chosen.spread
    BY <1>3, <1>4, <2>2, <2>3 DEF GoodModes, PutBack, ShownView
  <2>5. left.document = m.document /\ left.view = m.view /\ left.stored = m.stored
    BY <1>1, <1>5, <1>7 DEF KeptPages
  <2>6. viewed.stored = m.chosen.scroll
    BY <1>5, <1>6, <1>13, <1>16, <2>4, <2>5
  <2>7. viewed.view = m.chosen
    <3>1. viewed.view \in Views /\ a.view \in Views
      BY <1>3, <1>17, ModesTypes
    <3>2. /\ viewed.view.scroll = a.view.scroll /\ viewed.view.spread = a.view.spread
          /\ viewed.view.scale = a.view.scale
      BY <1>14, <1>15, <1>16, <2>4, <2>5
    <3> QED BY <2>4, <3>1, <3>2, ViewsEqual
  <2> QED BY <1>17, <2>2, <2>6, <2>7 DEF PutBack, ShownView, Entering
<1>19. viewed.editor = m.editor /\ viewed.rearmed = m.rearmed
  BY <1>1, <1>5, <1>6, <1>7, <1>16 DEF Moved, KeptEditor
<1>20. GoodModes(viewed) /\ Wins(m, viewed)
  BY <1>16, <1>17, <1>18, <1>19 DEF GoodModes, Wins
<1>21. ASSUME a.editor # "null"
       PROVE  GoodModes(edited) /\ Wins(m, edited) /\ edited.state = "NORMAL"
  <2>1. /\ Edited(viewed, edited) /\ Handed(edited) /\ Switched(edited)
        /\ edited.editor = viewed.editor \/ edited.editor = edited.asked
    BY <1>3, <1>17, <1>21, SetEditorFacts
  <2> HIDE DEF edited
  <2>2. Presented(edited) /\ PutBack(edited) /\ Laid(edited)
    BY <1>16, <1>17, <1>18, <2>1, EditedKeeps
  <2>3. edited \in ModesFields /\ edited.state = "NORMAL"
    BY <1>17, <2>1 DEF Edited, KeptShow
  <2> QED BY <1>19, <2>1, <2>2, <2>3 DEF GoodModes, Wins
<1> HIDE DEF edited
<1>22. ASSUME NEW n, GoodModes(n), Wins(m, n), n.state = "NORMAL"
       PROVE  LET e == [n EXCEPT !.args = NoArgs] IN GoodModes(e) /\ Wins(m, e)
  <2> DEFINE no == NoArgs
             e == [n EXCEPT !.args = no]
  <2>1. no \in Args
    BY ModesAssumption DEF NoArgs, Args, FirstView, Views, Spreads, PageNumbers
  <2>2. n \in ModesFields
    BY <1>22 DEF GoodModes
  <2> HIDE DEF no
  <2>3. /\ e \in ModesFields /\ e.state = n.state /\ e.full = n.full /\ e.listening = n.listening
        /\ e.rearmed = n.rearmed
    BY <2>1, <2>2 DEF ModesFields
  <2>4. KeptPages(n, e) /\ KeptEditor(n, e) /\ KeptChoices(n, e)
    BY <2>2 DEF ModesFields, KeptPages, KeptEditor, KeptChoices
  <2> HIDE DEF e
  <2>5. Presented(e)
    BY <1>22, <2>3, <2>4 DEF GoodModes, Presented, KeptEditor
  <2>6. PutBack(e)
    BY <1>22, <2>3, <2>4 DEF GoodModes, PutBack, ShownView, Entering, KeptPages, KeptChoices
  <2>7. Handed(e)
    BY <1>22, <2>3, <2>4 DEF GoodModes, Handed, KeptPages, KeptEditor, KeptChoices
  <2>8. Switched(e)
    BY <1>22, <2>3, <2>4 DEF GoodModes, Switched, KeptEditor
  <2>9. Laid(e)
    BY <1>22, <2>4 DEF GoodModes, Laid, KeptPages
  <2>10. Wins(m, e)
    BY <1>22, <2>3, <2>4 DEF Wins, KeptEditor
  <2> QED BY <2>3, <2>5, <2>6, <2>7, <2>8, <2>9, <2>10 DEF GoodModes, e, no
<1> QED BY <1>2, <1>17, <1>20, <1>21, <1>22 DEF d, b

LEMMA TimeoutKeeps ==
  ASSUME GoodModes(modes), Timeout
  PROVE  GoodModes(modes') /\ Wins(modes, modes')
<1> DEFINE m == modes
           t == Head(m.timeouts)
           b == [m EXCEPT !.timeouts = Tail(@)]
           d == modes'
<1>1. /\ m.timeouts # <<>>
      /\ \/ t.run = "enter" /\ d = Entered(b)
         \/ t.run = "exit" /\ \E ids \in {{}, {t.page}} : d = Exited(b, t.page, ids)
         \/ t.run \in Editors /\ d = UpdateEditor(b, t.run)
  BY DEF Timeout
<1> HIDE DEF m
<1>2. GoodModes(m)
  BY DEF m
<1>3. CASE t.run = "enter" /\ d = Entered(b)
  BY <1>1, <1>2, <1>3, EnteredKeeps DEF m
<1>4. CASE t.run = "exit" /\ \E ids \in {{}, {t.page}} : d = Exited(b, t.page, ids)
  <2>1. t.page \in PageNumbers
    BY <1>1, <1>2, <1>4, HeadFacts, TimeoutTypes
  <2>2. PICK ids \in SUBSET PageNumbers : d = Exited(b, t.page, ids)
    BY <1>4, <2>1
  <2> DEFINE p == t.page
  <2>3. p \in PageNumbers /\ d = Exited(b, p, ids)
    BY <2>1, <2>2
  <2> HIDE DEF p
  <2> QED BY <1>1, <1>2, <1>4, <2>3, ExitedKeeps DEF m
<1>5. CASE t.run \in Editors /\ d = UpdateEditor(b, t.run)
  <2>1. /\ b \in ModesFields /\ Handed(b) /\ Switched(b) /\ Laid(b) /\ b.rearmed = m.rearmed
        /\ KeptPages(m, b) /\ KeptShow(m, b) /\ KeptChoices(m, b)
        /\ b.editor = m.editor /\ b.asked = m.asked /\ InTurn(b.timeouts)
        /\ \A run : run # t.run => (Due(b.timeouts, run) <=> Due(m.timeouts, run))
        /\ ~m.rearmed => Waited(m, t.run)
    BY <1>1, <1>2, <1>5, HeadFacts
  <2> DEFINE run == t.run
  <2>2. run \in EditorModes /\ d = UpdateEditor(b, run)
    BY <1>5 DEF EditorModes
  <2>3. \A r \in {"enter", "exit"} : Due(b.timeouts, r) <=> Due(m.timeouts, r)
    BY <1>5, <2>1, ModesAssumption
  <2>4. ~m.rearmed => Waited(m, run)
    BY <2>1
  <2> HIDE DEF run, b, d
  <2>5. /\ Edited(b, d) /\ d.switch = {} /\ (d.rearmed \/ NoneDue(d))
        /\ d.editor = run /\ Handed(d) /\ d.asked = b.asked
    BY <2>1, <2>2, UpdateEditorFacts
  <2>6. Presented(b)
    BY <1>2, <2>1, <2>3 DEF GoodModes, Presented, KeptShow
  <2>7. PutBack(b)
    BY <1>2, <2>1, <2>3 DEF GoodModes, PutBack, ShownView, Entering, KeptPages, KeptShow, KeptChoices
  <2>8. Presented(d) /\ PutBack(d) /\ Laid(d) /\ d \in ModesFields
    BY <2>1, <2>5, <2>6, <2>7, EditedKeeps DEF Edited
  <2>9. Switched(d)
    BY <2>5 DEF Switched, NoneDue
  <2>10. Wins(m, d)
    BY <2>1, <2>4, <2>5 DEF Wins, Waited, Edited
  <2> QED BY <2>5, <2>8, <2>9, <2>10 DEF GoodModes, m, d
<1> QED BY <1>1, <1>3, <1>4, <1>5

----------------------------------------------------------------------------
(* The theorems                                                            *)

GoodAll == GoodModes(modes) /\ choices \in 0..MaxChoices

LEMMA GoodAtFirst ==
  ASSUME ModesInit
  PROVE  GoodAll
<1> DEFINE f == FirstView
           no == NoArgs
           c == [active |-> "SELECT", prev |-> "null", editor |-> "NONE", state |-> "NORMAL"]
<1>1. f \in Views /\ f.scroll = "VERTICAL"
  BY ModesAssumption DEF FirstView, Views, Spreads
<1>2. no \in Args
  BY ModesAssumption DEF NoArgs, Args, FirstView, Views, Spreads, PageNumbers
<1>3. c \in Cursors /\ Handy(c, "SELECT") /\ c.editor = "NONE" /\ c.state = "NORMAL"
  BY DEF Cursors, Tools, EditorModes, States, Handy
<1>4. 1 \in PageNumbers /\ "VERTICAL" \in Scrolls
  BY ModesAssumption DEF PageNumbers
<1>5. modes = [document |-> "shown", view |-> f, page |-> 1, laid |-> PageNumbers,
               editor |-> "NONE", switch |-> {}, timeouts |-> <<>>, full |-> "no",
               listening |-> FALSE, state |-> "NORMAL", args |-> no, cursor |-> c,
               stored |-> "VERTICAL", chosen |-> f, tool |-> "SELECT",
               asked |-> "NONE", hurried |-> FALSE, rearmed |-> FALSE]
  BY DEF ModesInit, FirstModes
<1> HIDE DEF f, no, c
<1>6. <<>> \in Seq(Timeouts) /\ "NONE" \in EditorModes /\ "SELECT" \in Tools /\ "NORMAL" \in States
  BY DEF EditorModes, Tools, States
<1>7. modes \in ModesFields
  BY <1>1, <1>2, <1>3, <1>4, <1>5, <1>6, ZenonT(60) DEF ModesFields
<1>8. ~Due(<<>>, "enter") /\ ~Due(<<>>, "exit") /\ InTurn(<<>>)
  BY DEF Due, InTurn
<1>9. Presented(modes)
  BY <1>5, <1>8 DEF Presented
<1>10. PutBack(modes)
  BY <1>1, <1>5 DEF PutBack, ShownView, Entering
<1>11. Handed(modes)
  BY <1>3, <1>5 DEF Handed
<1>12. Switched(modes)
  BY <1>5 DEF Switched
<1>13. Laid(modes)
  BY <1>1, <1>5 DEF Laid
<1>14. choices \in 0..MaxChoices
  BY ModesAssumption DEF ModesInit
<1> QED BY <1>7, <1>9, <1>10, <1>11, <1>12, <1>13, <1>14 DEF GoodAll, GoodModes

LEMMA StepKeeps ==
  ASSUME GoodAll, [ModesNext]_modesVars
  PROVE  GoodAll' /\ Wins(modes, modes')
<1>1. CASE UNCHANGED modesVars
  BY <1>1 DEF modesVars, GoodAll, GoodModes, Wins, Presented, PutBack, ShownView, Entering,
              Handed, Switched, Laid
<1>2. CASE ModesNext
  <2>1. GoodModes(modes') /\ Wins(modes, modes')
    BY <1>2, ChooseScrollKeeps, ChooseSpreadKeeps, ChooseScaleKeeps, ChooseToolKeeps,
       ChooseEditorKeeps, TurnKeeps, CloseKeeps, OpenKeeps, DocumentShownKeeps,
       EditedPageRenderedKeeps, RequestKeeps, RefusedKeeps, FullscreenEnteredKeeps,
       FullscreenLeftKeeps, TimeoutKeeps, ZenonT(60) DEF GoodAll, ModesNext
  <2>2. Chooses \/ UNCHANGED choices
    BY <1>2 DEF ModesNext, ChooseScroll, ChooseSpread, ChooseScale, ChooseTool, ChooseEditor,
       NextPage, PreviousPage, CloseInViewer, OpenInViewer, DocumentShown,
       EditedPageRendered, Request, Refused, FullscreenEntered, FullscreenLeft, Timeout
  <2>3. choices' \in 0..MaxChoices
    BY <2>2, ModesAssumption DEF Chooses, GoodAll
  <2> QED BY <2>1, <2>3 DEF GoodAll
<1> QED BY <1>1, <1>2

LEMMA GoodModesAreSound ==
  ASSUME GoodAll
  PROVE  ModesAreSound
<1> DEFINE m == modes
<1>1. GoodModes(m) /\ m \in ModesFields
  BY DEF GoodAll, GoodModes
<1>2. ModesTypeOK
  BY <1>1 DEF GoodAll, ModesTypeOK
<1>3. ModesComeBack
  <2>1. SUFFICES ASSUME m.full = "no", m.timeouts = <<>>
                 PROVE  m.state = "NORMAL" /\ (~m.hurried => m.view = m.chosen)
    BY DEF ModesComeBack
  <2>2. ~Due(<<>>, "exit")
    BY DEF Due
  <2>3. m.state = "NORMAL"
    BY <1>1, <2>1, <2>2, ModesTypes DEF GoodModes, Presented, States
  <2> QED BY <1>1, <2>3 DEF GoodModes, PutBack, ShownView, Entering
<1>4. PresentationIsNotStored
  BY <1>1 DEF GoodModes, PutBack, PresentationIsNotStored
<1>5. ToolComesBack
  <2>1. m.state \in States
    BY <1>1, ModesTypes
  <2> QED BY <1>1, <2>1 DEF GoodModes, Handed, Handy, ToolComesBack, States
<1>6. PagesAreLaid
  BY <1>1 DEF GoodModes, Laid, PagesAreLaid
<1>7. PagesAreTurned
  <2>1. ASSUME NEW row \in SUBSET m.laid
        PROVE  LET n == NextOf(m, row)
                   l == PreviousOf(m, row)
                   beside == IF m.view.scroll = "WRAPPED" THEN row
                             ELSE SpreadOf(m.page, m.view.spread)
               IN  /\ m.page < PagesCount => n > m.page
                   /\ m.page > 1 => l < m.page
                   /\ Between(m.page, n) \subseteq beside /\ Between(m.page, l) \subseteq beside
    BY <1>1, TurnFacts
  <2> QED BY <2>1 DEF PagesAreTurned, Between
<1> QED BY <1>2, <1>3, <1>4, <1>5, <1>6, <1>7 DEF ModesAreSound

\* Whichever way presentations, editors and tools overlap, the reader gets back
\* the modes of before, and pages are laid and turned as the modes say.
THEOREM ModesCorrect == ModesSpec => []ModesAreSound
<1>1. ModesInit => GoodAll
  BY GoodAtFirst
<1>2. GoodAll /\ [ModesNext]_modesVars => GoodAll'
  BY StepKeeps
<1>3. GoodAll => ModesAreSound
  BY GoodModesAreSound
<1> QED BY <1>1, <1>2, <1>3, PTL DEF ModesSpec

\* The editor mode that is entered is the one that was set last, unless that was
\* passed over because it was the present one.
THEOREM EditorsCorrect == ModesSpec => LastEditorWins
<1>1. ModesInit => GoodAll
  BY GoodAtFirst
<1>2. GoodAll /\ [ModesNext]_modesVars =>
        GoodAll' /\ [modes'.editor # modes.editor /\ ~modes'.rearmed =>
                       \/ modes'.editor = modes'.asked
                       \/ /\ modes'.asked = "passed"
                          /\ \E s \in modes.switch : s.mode = modes'.editor]_modesVars
  BY StepKeeps DEF Wins
<1> QED BY <1>1, <1>2, PTL DEF ModesSpec, LastEditorWins
============================================================================
