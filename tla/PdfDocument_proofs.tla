------------------------ MODULE PdfDocument_proofs -------------------------
(***************************************************************************)
(* What the application does with a document as a whole, for every value   *)
(* of the constants: opening, closing and saving (PdfOpening), printing    *)
(* (PdfPrinting), and its scripts (PdfScripting).                          *)
(*                                                                         *)
(* The parts of the invariants are stated of any record of AppFields,      *)
(* PrintFields or ScriptFields, so that each operator of the code has a    *)
(* lemma of its own.                                                       *)
(***************************************************************************)
EXTENDS PdfOpening, PdfPrinting, PdfScripting, SequenceTheorems, TLAPS

----------------------------------------------------------------------------
(* Opening and saving.  Alone says what holds while no two calls of open   *)
(* overlap: one call waits at most, and what is kept of a document that is *)
(* being closed waits with it.                                             *)

\* One call of open waits at most, for a save or for the worker.
OneWaits(c) ==
  /\ \A k \in c.closing : k.open # 0 /\ c.task = 0 /\ c.closing = {k}
  /\ \A s \in c.saves : s.open # 0 =>
       /\ c.closing = {} /\ s.kind # "download"
       /\ \A t \in c.saves : t.open # 0 => t = s

\* What is there belongs to the present task or to the one being closed.
OneIsPresent(c) ==
  /\ c.document \in {0, c.task} /\ c.url = c.task /\ c.loading \subseteq {c.task} \ {0}
  /\ 0 \notin c.alive /\ c.alive \subseteq {c.task} \cup {k.task : k \in c.closing}

SavesBelong(c) ==
  \A s \in c.saves : /\ s.document # 0
                     /\ s.document = c.task \/ \E k \in c.closing : s.document = k.task

\* The marks of the edits are those of the present document.
MarksBelong(c) ==
  /\ 0 \notin c.stored
  /\ \A d \in c.modified : d # 0 /\ d = c.task /\ d \in c.stored /\ c.storageModified

\* What stands for saveInProgress.
SaveGoesOn(c) ==
  c.saveInProgress => \E s \in c.saves : s.kind # "download" /\ s.document = c.task

\* What shows is of the present document.
ShowsOne(c) ==
  /\ \A p \in Panels : c.panels[p] \in {0, c.document}
  /\ c.file.name \in {0, c.file.document}
  /\ c.told[1] = c.told[2]

Settled(c) ==
  OneWaits(c) /\ OneIsPresent(c) /\ SavesBelong(c) /\ MarksBelong(c) /\ ShowsOne(c)

Alone(c) == Settled(c) /\ SaveGoesOn(c)

\* The invariant that carries the proofs.
OpeningInv == OpeningTypeOK /\ (~app.overlapped => Alone(app))

----------------------------------------------------------------------------
(***************************************************************************)
(* Types                                                                   *)
(***************************************************************************)
LEMMA StartTaskTyped ==
  ASSUME NEW c \in AppFields, NEW open \in Opens
  PROVE  StartTask(c, open) \in AppFields
BY ZenonT(60) DEF StartTask, AppFields

LEMMA ResetModifiedTyped ==
  ASSUME NEW c \in AppFields, NEW d
  PROVE  ResetModified(c, d) \in AppFields
BY ZenonT(60) DEF ResetModified, AppFields

LEMMA NoPanelsTyped == NoPanels \in [Panels -> Opens]
BY OpeningAssumption DEF NoPanels, Opens

LEMMA CloseTaskTyped ==
  ASSUME NEW c \in AppFields, NEW open \in Opens
  PROVE  CloseTask(c, open) \in AppFields
<1> DEFINE r == ResetModified(c, c.task)
<1>1. r \in AppFields BY ResetModifiedTyped
<1>2. c.task \in Opens /\ 0 \in Opens BY OpeningAssumption DEF AppFields, Opens
<1> HIDE DEF r
<1> DEFINE closing == r.closing \cup {[open |-> open, task |-> c.task]}
           loading == r.loading \ {c.task}
<1>3. closing \in SUBSET [open : Opens, task : Opens] /\ loading \in SUBSET Opens
  BY <1>1, <1>2 DEF AppFields
<1> HIDE DEF closing, loading
<1>4. [r EXCEPT !.closing = closing, !.loading = loading, !.task = 0, !.document = 0,
                !.url = 0, !.saveInProgress = FALSE, !.panels = NoPanels] \in AppFields
  BY ZenonT(60), <1>1, <1>2, <1>3, NoPanelsTyped DEF AppFields
<1> QED BY <1>4 DEF CloseTask, r, closing, loading

LEMMA StartSaveTyped ==
  ASSUME NEW c \in AppFields, NEW open \in Opens
  PROVE  StartSave(c, open) \in AppFields
<1> DEFINE saves == c.saves \cup {[document |-> c.document, open |-> open, kind |-> "save"]}
<1>1. saves \in SUBSET [document : Opens, open : Opens, kind : Saves]
  BY DEF AppFields, Saves
<1> HIDE DEF saves
<1>2. [c EXCEPT !.saveInProgress = TRUE, !.saves = saves] \in AppFields
  BY <1>1 DEF AppFields
<1> QED BY <1>2 DEF StartSave, saves

LEMMA ShowTyped ==
  ASSUME NEW c \in AppFields, NEW panel \in Panels, NEW d \in Opens
  PROVE  Show(c, panel, d) \in AppFields
<1> DEFINE shown == [c EXCEPT !.panels[panel] = d]
<1>1. shown \in AppFields BY DEF AppFields
<1>2. shown.panels["info"] \in Opens /\ shown.document \in Opens
  BY <1>1 DEF AppFields, Panels
<1> HIDE DEF shown
<1>3. TellScripts(shown) \in AppFields BY ZenonT(60), <1>1, <1>2 DEF TellScripts, AppFields
<1> QED BY <1>1, <1>3 DEF Show, shown

LEMMA SaveEndsTyped ==
  ASSUME NEW c \in AppFields, NEW d \in Opens,
         NEW s \in [document : Opens, open : Opens, kind : Saves]
  PROVE  SaveEnds(c, s, d) \in AppFields
<1> DEFINE ended == [c EXCEPT !.saveInProgress = @ /\ s.kind = "download",
                       !.file = [document |-> d, name |-> c.url, edited |-> s.kind = "save"]]
<1>1. ended \in AppFields
  <2>1. (c.saveInProgress /\ s.kind = "download") \in BOOLEAN /\ (s.kind = "save") \in BOOLEAN
    OBVIOUS
  <2>2. c.url \in Opens BY DEF AppFields
  <2> QED BY ZenonT(60), <2>1, <2>2 DEF AppFields
<1> HIDE DEF ended
<1>2. CloseTask(ended, s.open) \in AppFields BY <1>1, CloseTaskTyped
<1> QED BY <1>1, <1>2 DEF SaveEnds, ended
----------------------------------------------------------------------------
(***************************************************************************)
(* What each operator leaves of Alone                                      *)
(***************************************************************************)
LEMMA ResetModifiedSettled ==
  ASSUME NEW c \in AppFields, NEW d, Settled(c)
  PROVE  LET r == ResetModified(c, d) IN
           /\ Settled(r) /\ (SaveGoesOn(c) => SaveGoesOn(r)) /\ d \notin r.modified
           /\ r.task = c.task /\ r.document = c.document /\ r.saves = c.saves
           /\ r.closing = c.closing /\ r.overlapped = c.overlapped
<1> DEFINE r == ResetModified(c, d)
<1>1. CASE d \notin c.modified BY <1>1 DEF ResetModified
<1>2. CASE d \in c.modified
  <2>1. r = [c EXCEPT !.modified = @ \ {d}, !.storageModified = FALSE]
    BY <1>2 DEF ResetModified
  <2> HIDE DEF r
  <2>2. /\ r.modified = {} /\ r.saveInProgress = c.saveInProgress /\ r.saves = c.saves
        /\ r.task = c.task /\ r.document = c.document /\ r.url = c.url
        /\ r.loading = c.loading /\ r.alive = c.alive /\ r.closing = c.closing
        /\ r.panels = c.panels /\ r.file = c.file /\ r.told = c.told
        /\ r.overlapped = c.overlapped /\ r.stored = c.stored
    BY <1>2, <2>1 DEF AppFields, Alone, Settled, MarksBelong
  <2>3. OneWaits(r) BY <2>2 DEF Alone, Settled, OneWaits
  <2>4. OneIsPresent(r) /\ SavesBelong(r)
    BY <2>2 DEF Alone, Settled, OneIsPresent, SavesBelong
  <2>5. MarksBelong(r) /\ ShowsOne(r) BY <2>2 DEF Settled, MarksBelong, ShowsOne
  <2>6. SaveGoesOn(c) => SaveGoesOn(r) BY <2>2 DEF SaveGoesOn
  <2> QED BY <2>2, <2>3, <2>4, <2>5, <2>6 DEF Alone, Settled, r
<1> QED BY <1>1, <1>2

LEMMA StartTaskAlone ==
  ASSUME NEW c \in AppFields, NEW open \in Opens \ {0}, Alone(c), c.task = 0, c.closing = {}
  PROVE  Alone(StartTask(c, open))
<1> DEFINE t == StartTask(c, open)
<1>1. /\ t.task = open /\ t.url = open /\ t.loading = c.loading \cup {open}
      /\ t.alive = c.alive \cup {open} /\ t.closing = {} /\ t.saves = c.saves
      /\ t.document = c.document /\ t.modified = c.modified
      /\ t.saveInProgress = c.saveInProgress /\ t.panels = c.panels /\ t.file = c.file
      /\ t.told = c.told /\ t.stored = c.stored
  BY DEF StartTask, AppFields
<1>2. /\ c.document = 0 /\ c.loading = {} /\ c.alive = {} /\ c.modified = {}
      /\ c.saves = {} /\ ~c.saveInProgress
  BY DEF Alone, Settled, OneIsPresent, MarksBelong, SavesBelong, SaveGoesOn
<1> HIDE DEF t
<1>3. OneWaits(t) /\ OneIsPresent(t) /\ SavesBelong(t)
  BY <1>1, <1>2 DEF OneWaits, OneIsPresent, SavesBelong
<1>4. MarksBelong(t) /\ ShowsOne(t) /\ SaveGoesOn(t) BY <1>1, <1>2 DEF Alone, Settled, MarksBelong, SaveGoesOn, ShowsOne
<1> QED BY <1>3, <1>4 DEF Alone, Settled, t

LEMMA CloseTaskAlone ==
  ASSUME NEW c \in AppFields, NEW open \in Opens \ {0}, Alone(c),
         c.closing = {}, \A s \in c.saves : s.open = 0
  PROVE  Alone(CloseTask(c, open))
<1>1. CASE c.task = 0 BY <1>1 DEF CloseTask
<1>2. CASE c.task # 0
  <2> DEFINE r == ResetModified(c, c.task)
             k == [open |-> open, task |-> c.task]
             d == CloseTask(c, open)
  <2>1. /\ r \in AppFields /\ Alone(r) /\ c.task \notin r.modified
        /\ r.task = c.task /\ r.saves = c.saves /\ r.closing = {}
    BY ResetModifiedTyped, ResetModifiedSettled DEF Alone
  <2>2. r.modified = {} /\ r.loading \subseteq {c.task}
    BY <2>1 DEF Alone, Settled, MarksBelong, OneIsPresent
  <2>3. d = [r EXCEPT !.closing = @ \cup {k}, !.loading = @ \ {c.task}, !.task = 0,
               !.document = 0, !.url = 0, !.saveInProgress = FALSE, !.panels = NoPanels]
    BY <1>2 DEF CloseTask
  <2> HIDE DEF r, d
  <2>4. /\ d.closing = {k} /\ d.loading = {} /\ d.task = 0 /\ d.document = 0 /\ d.url = 0
        /\ ~d.saveInProgress /\ d.panels = NoPanels /\ d.saves = c.saves
        /\ d.modified = {} /\ d.alive = r.alive /\ d.file = r.file /\ d.told = r.told
        /\ d.stored = r.stored
    BY <2>1, <2>2, <2>3 DEF AppFields
  <2>5. OneWaits(d) BY <2>4 DEF OneWaits
  <2>6. OneIsPresent(d) BY <2>1, <2>4 DEF Alone, Settled, OneIsPresent
  <2>7. SavesBelong(d) BY <2>4 DEF Alone, Settled, SavesBelong
  <2>8. MarksBelong(d) /\ SaveGoesOn(d) BY <2>1, <2>4 DEF Alone, Settled, MarksBelong, SaveGoesOn
  <2>9. ShowsOne(d) BY <2>1, <2>4 DEF Alone, Settled, ShowsOne, NoPanels
  <2> QED BY <2>5, <2>6, <2>7, <2>8, <2>9 DEF Alone, Settled, d
<1> QED BY <1>1, <1>2

\* A save of the present document begins, for the reader or for a call of open.
LEMMA StartSaveAlone ==
  ASSUME NEW c \in AppFields, NEW open \in Opens, Alone(c), c.document # 0,
         open # 0 => c.closing = {} /\ \A s \in c.saves : s.open = 0
  PROVE  Alone(StartSave(c, open))
<1> DEFINE n == [document |-> c.document, open |-> open, kind |-> "save"]
           d == StartSave(c, open)
<1>1. /\ d.saves = c.saves \cup {n} /\ d.saveInProgress
      /\ d.task = c.task /\ d.document = c.document /\ d.url = c.url
      /\ d.loading = c.loading /\ d.alive = c.alive /\ d.closing = c.closing
      /\ d.stored = c.stored /\ d.modified = c.modified
      /\ d.storageModified = c.storageModified
      /\ d.panels = c.panels /\ d.file = c.file /\ d.told = c.told
  BY DEF StartSave, AppFields
<1>2. n.document = c.task /\ n.document # 0 /\ n.open = open /\ n.kind = "save"
  BY DEF Alone, Settled, OneIsPresent
<1> HIDE DEF n, d
<1>3. OneWaits(d) BY <1>1, <1>2 DEF Alone, Settled, OneWaits
<1>4. OneIsPresent(d) BY <1>1 DEF Alone, Settled, OneIsPresent
<1>5. SavesBelong(d) BY <1>1, <1>2 DEF Alone, Settled, SavesBelong
<1>6. MarksBelong(d) /\ SaveGoesOn(d) BY <1>1, <1>2 DEF Alone, Settled, MarksBelong, SaveGoesOn
<1>7. ShowsOne(d) BY <1>1 DEF Alone, Settled, ShowsOne
<1> QED BY <1>3, <1>4, <1>5, <1>6, <1>7 DEF Alone, Settled, d

\* Closing itself, when no call of open waits.
LEMMA CloseAlone ==
  ASSUME NEW c \in AppFields, NEW open \in Opens \ {0}, Alone(c),
         c.closing = {}, c.task # 0, \A s \in c.saves : s.open = 0
  PROVE  Alone(Close(c, open))
<1>1. CASE c.document \in c.stored /\ c.storageModified /\ ~c.saveInProgress
  <2> DEFINE d == StartSave(c, open)
  <2>1. c.document # 0 BY <1>1 DEF Alone, Settled, MarksBelong
  <2>2. Alone(d) BY <2>1, StartSaveAlone
  <2> QED BY <1>1, <2>2 DEF Close
<1>2. CASE ~(c.document \in c.stored /\ c.storageModified /\ ~c.saveInProgress)
  BY <1>2, CloseTaskAlone DEF Close
<1> QED BY <1>1, <1>2

LEMMA ShowAlone ==
  ASSUME NEW c \in AppFields, NEW panel \in Panels, NEW d \in Opens, Alone(c)
  PROVE  Alone(Show(c, panel, d))
<1> DEFINE shown == [c EXCEPT !.panels[panel] = d]
           told == TellScripts(shown)
           e == Show(c, panel, d)
<1> SUFFICES ASSUME d = c.document PROVE Alone(e)
  BY DEF Show
<1>1. /\ shown \in AppFields /\ shown.document = c.document /\ shown.told = c.told
      /\ \A p \in Panels : shown.panels[p] = IF p = panel THEN d ELSE c.panels[p]
      /\ shown.task = c.task /\ shown.url = c.url /\ shown.loading = c.loading
      /\ shown.alive = c.alive /\ shown.closing = c.closing /\ shown.saves = c.saves
      /\ shown.stored = c.stored /\ shown.modified = c.modified /\ shown.file = c.file
      /\ shown.storageModified = c.storageModified
      /\ shown.saveInProgress = c.saveInProgress
  BY DEF AppFields
<1>2. Alone(shown)
  <2>1. OneWaits(shown) BY <1>1 DEF Alone, Settled, OneWaits
  <2>2. OneIsPresent(shown) /\ SavesBelong(shown)
    BY <1>1 DEF Alone, Settled, OneIsPresent, SavesBelong
  <2>3. MarksBelong(shown) /\ SaveGoesOn(shown) BY <1>1 DEF Alone, Settled, MarksBelong, SaveGoesOn
  <2>4. ShowsOne(shown) BY <1>1 DEF Alone, Settled, ShowsOne
  <2> QED BY <2>1, <2>2, <2>3, <2>4 DEF Alone, Settled
<1>3. CASE panel # "info" BY <1>2, <1>3 DEF Show
<1>4. CASE panel = "info"
  <2>1. shown.panels["info"] = shown.document BY <1>1, <1>4
  <2> HIDE DEF shown
  <2>2. /\ told.document = shown.document /\ told.panels = shown.panels
        /\ told.task = shown.task /\ told.url = shown.url /\ told.loading = shown.loading
        /\ told.alive = shown.alive /\ told.closing = shown.closing
        /\ told.saves = shown.saves /\ told.stored = shown.stored
        /\ told.modified = shown.modified /\ told.file = shown.file
        /\ told.storageModified = shown.storageModified
        /\ told.saveInProgress = shown.saveInProgress
        /\ told.told \in {shown.told, <<shown.document, shown.document>>}
    BY <1>1, <2>1 DEF TellScripts, AppFields
  <2> HIDE DEF told
  <2>3. OneWaits(told) BY <1>2, <2>2 DEF Alone, Settled, OneWaits
  <2>4. OneIsPresent(told) /\ SavesBelong(told)
    BY <1>2, <2>2 DEF Alone, Settled, OneIsPresent, SavesBelong
  <2>5. MarksBelong(told) /\ SaveGoesOn(told) BY <1>2, <2>2 DEF Alone, Settled, MarksBelong, SaveGoesOn
  <2>6. ShowsOne(told) BY <1>2, <2>2 DEF Alone, Settled, ShowsOne
  <2> QED BY <1>4, <2>3, <2>4, <2>5, <2>6 DEF Show, Alone, Settled, told, shown
<1> QED BY <1>3, <1>4

\* A save s that is no longer among those under way ends, with the call of open
\* that waited for it.
LEMMA SaveEndsAlone ==
  ASSUME NEW c \in AppFields, NEW d \in Opens, Settled(c),
         NEW s \in [document : Opens, open : Opens, kind : Saves],
         c.url \in {0, d}, s.kind = "download" => SaveGoesOn(c),
         s.open # 0 => c.closing = {} /\ \A t \in c.saves : t.open = 0
  PROVE  Alone(SaveEnds(c, s, d))
<1> DEFINE ended == [c EXCEPT !.saveInProgress = @ /\ s.kind = "download",
                       !.file = [document |-> d, name |-> c.url, edited |-> s.kind = "save"]]
<1>1. ended \in AppFields
  <2>1. (c.saveInProgress /\ s.kind = "download") \in BOOLEAN /\ (s.kind = "save") \in BOOLEAN
    OBVIOUS
  <2>2. c.url \in Opens BY DEF AppFields
  <2> QED BY ZenonT(60), <2>1, <2>2 DEF AppFields
<1>2. /\ ended.task = c.task /\ ended.document = c.document /\ ended.url = c.url
      /\ ended.loading = c.loading /\ ended.alive = c.alive /\ ended.closing = c.closing
      /\ ended.saves = c.saves /\ ended.stored = c.stored /\ ended.modified = c.modified
      /\ ended.storageModified = c.storageModified /\ ended.panels = c.panels
      /\ ended.told = c.told
      /\ ended.saveInProgress = (c.saveInProgress /\ s.kind = "download")
      /\ ended.file.document = d /\ ended.file.name = c.url
  BY DEF AppFields
<1> HIDE DEF ended
<1>3. Alone(ended)
  <2>1. OneWaits(ended) BY <1>2 DEF Settled, OneWaits
  <2>2. OneIsPresent(ended) /\ SavesBelong(ended)
    BY <1>2 DEF Settled, OneIsPresent, SavesBelong
  <2>3. MarksBelong(ended) BY <1>2 DEF Settled, MarksBelong
  <2>4. SaveGoesOn(ended) BY <1>2 DEF SaveGoesOn
  <2>5. ShowsOne(ended) BY <1>2 DEF Settled, ShowsOne
  <2> QED BY <2>1, <2>2, <2>3, <2>4, <2>5 DEF Alone, Settled
<1>4. CASE s.open = 0 BY <1>3, <1>4 DEF SaveEnds, ended
<1>5. CASE s.open # 0
  <2>1. Alone(CloseTask(ended, s.open)) BY <1>1, <1>2, <1>3, <1>5, CloseTaskAlone
  <2> QED BY <1>5, <2>1 DEF SaveEnds, ended
<1> QED BY <1>4, <1>5

\* A save is taken off those under way.
LEMMA WithoutSave ==
  ASSUME NEW c \in AppFields, Alone(c), NEW s \in c.saves
  PROVE  LET d == [c EXCEPT !.saves = @ \ {s}] IN
           /\ d \in AppFields /\ Settled(d)
           /\ s \in [document : Opens, open : Opens, kind : Saves]
           /\ s.kind = "download" => SaveGoesOn(d)
           /\ s.open # 0 => d.closing = {} /\ \A t \in d.saves : t.open = 0
           /\ d.url \in {0, s.document} /\ s.document # 0
           /\ d.document \in {0, d.task} /\ d.url = d.task
           /\ d.overlapped = c.overlapped /\ d.document = c.document
<1> DEFINE d == [c EXCEPT !.saves = @ \ {s}]
<1>1. d \in AppFields /\ s \in [document : Opens, open : Opens, kind : Saves]
  BY DEF AppFields
<1>2. /\ d.saves = c.saves \ {s} /\ d.task = c.task /\ d.document = c.document
      /\ d.url = c.url /\ d.loading = c.loading /\ d.alive = c.alive
      /\ d.closing = c.closing /\ d.stored = c.stored /\ d.modified = c.modified
      /\ d.storageModified = c.storageModified /\ d.saveInProgress = c.saveInProgress
      /\ d.panels = c.panels /\ d.file = c.file /\ d.told = c.told
      /\ d.overlapped = c.overlapped
  BY DEF AppFields
<1> HIDE DEF d
<1>3. OneWaits(d) BY <1>2 DEF Alone, Settled, OneWaits
<1>4. OneIsPresent(d) /\ SavesBelong(d) BY <1>2 DEF Alone, Settled, OneIsPresent, SavesBelong
<1>5. MarksBelong(d) /\ ShowsOne(d) BY <1>2 DEF Alone, Settled, MarksBelong, ShowsOne
<1>6. s.kind = "download" => SaveGoesOn(d) BY <1>2 DEF Alone, SaveGoesOn
<1>7. s.open # 0 => d.closing = {} /\ \A t \in d.saves : t.open = 0
  BY <1>2 DEF Alone, Settled, OneWaits
<1>8. d.url \in {0, s.document} /\ s.document # 0
  BY <1>2 DEF Alone, Settled, OneWaits, OneIsPresent, SavesBelong
<1>9. d.document \in {0, d.task} /\ d.url = d.task BY <1>4 DEF OneIsPresent
<1> QED BY <1>1, <1>2, <1>3, <1>4, <1>5, <1>6, <1>7, <1>8, <1>9 DEF Settled, d

LEMMA SaveIsThere == [document |-> 0, open |-> 0, kind |-> "save"] \in [document : Opens, open : Opens, kind : Saves]
BY OpeningAssumption DEF Opens, Saves

LEMMA PanelIsThere == "info" \in Panels /\ 0 \in Opens
BY OpeningAssumption DEF Panels, Opens

\* No operator of the code touches the mark that calls of open overlapped.
LEMMA OverlappedStays ==
  ASSUME NEW c \in AppFields, NEW open \in Opens, NEW panel \in Panels, NEW d \in Opens,
         NEW s \in [document : Opens, open : Opens, kind : Saves]
  PROVE  /\ StartTask(c, open).overlapped = c.overlapped
         /\ ResetModified(c, d).overlapped = c.overlapped
         /\ CloseTask(c, open).overlapped = c.overlapped
         /\ StartSave(c, open).overlapped = c.overlapped
         /\ Close(c, open).overlapped = c.overlapped
         /\ Show(c, panel, d).overlapped = c.overlapped
         /\ SaveEnds(c, s, d).overlapped = c.overlapped
<1>1. StartTask(c, open).overlapped = c.overlapped BY DEF StartTask, AppFields
<1>2. StartSave(c, open).overlapped = c.overlapped BY DEF StartSave, AppFields
<1>3. ASSUME NEW x \in AppFields, NEW e
      PROVE  ResetModified(x, e).overlapped = x.overlapped
  BY DEF ResetModified, AppFields
<1>4. ASSUME NEW x \in AppFields, NEW o \in Opens
      PROVE  CloseTask(x, o).overlapped = x.overlapped
  <2>1. ResetModified(x, x.task) \in AppFields BY ResetModifiedTyped
  <2>2. ResetModified(x, x.task).overlapped = x.overlapped BY <1>3
  <2> QED BY <2>1, <2>2 DEF CloseTask, AppFields
<1>5. Close(c, open).overlapped = c.overlapped BY <1>2, <1>4 DEF Close
<1>6. Show(c, panel, d).overlapped = c.overlapped
  <2> DEFINE shown == [c EXCEPT !.panels[panel] = d]
  <2>1. shown \in AppFields /\ shown.overlapped = c.overlapped BY DEF AppFields
  <2> HIDE DEF shown
  <2>2. TellScripts(shown).overlapped = c.overlapped BY <2>1 DEF TellScripts, AppFields
  <2> QED BY <2>1, <2>2 DEF Show, shown
<1>7. SaveEnds(c, s, d).overlapped = c.overlapped
  <2> DEFINE ended == [c EXCEPT !.saveInProgress = @ /\ s.kind = "download",
                         !.file = [document |-> d, name |-> c.url, edited |-> s.kind = "save"]]
  <2>1. ended \in AppFields /\ ended.overlapped = c.overlapped
    <3>1. (c.saveInProgress /\ s.kind = "download") \in BOOLEAN /\ (s.kind = "save") \in BOOLEAN
      OBVIOUS
    <3>2. c.url \in Opens BY DEF AppFields
    <3> QED BY ZenonT(60), <3>1, <3>2 DEF AppFields
  <2> HIDE DEF ended
  <2>2. CloseTask(ended, s.open).overlapped = c.overlapped BY <1>4, <2>1
  <2> QED BY <2>1, <2>2 DEF SaveEnds, ended
<1> QED BY <1>1, <1>2, <1>3, <1>4, <1>5, <1>6, <1>7

----------------------------------------------------------------------------
(***************************************************************************)
(* What each action leaves of the invariant                                *)
(***************************************************************************)
LEMMA OpenSafe ==
  ASSUME OpeningInv, Open
  PROVE  OpeningInv' /\ (~app'.overlapped => ~app.overlapped)
<1> DEFINE open == app.opens + 1
           c == [app EXCEPT !.opens = open, !.overlapped = @ \/ WaitingOpens(app) # {}]
<1>1. app \in AppFields /\ edits \in 0..MaxEdits BY DEF OpeningInv, OpeningTypeOK
<1>2. open \in Opens \ {0} BY <1>1, OpeningAssumption DEF Open, Opens, AppFields
<1>3. app' = IF app.task = 0 THEN StartTask(c, open) ELSE Close(c, open) BY DEF Open
<1>4. c \in AppFields
  <2>1. (app.overlapped \/ WaitingOpens(app) # {}) \in BOOLEAN OBVIOUS
  <2> QED BY <1>1, <1>2, <2>1 DEF AppFields
<1>5. /\ c.overlapped = (app.overlapped \/ WaitingOpens(app) # {})
      /\ c.task = app.task /\ c.document = app.document /\ c.url = app.url
      /\ c.loading = app.loading /\ c.alive = app.alive /\ c.closing = app.closing
      /\ c.saves = app.saves /\ c.stored = app.stored /\ c.modified = app.modified
      /\ c.storageModified = app.storageModified /\ c.saveInProgress = app.saveInProgress
      /\ c.panels = app.panels /\ c.file = app.file /\ c.told = app.told
  BY <1>1 DEF AppFields
<1> HIDE DEF open, c
<1>6. app' \in AppFields /\ app'.overlapped = c.overlapped
  <2>1. Close(c, open) \in AppFields BY <1>2, <1>4, StartSaveTyped, CloseTaskTyped DEF Close
  <2>2. StartTask(c, open) \in AppFields BY <1>2, <1>4, StartTaskTyped
  <2>3. StartTask(c, open).overlapped = c.overlapped BY <1>4, <1>2 DEF StartTask, AppFields
  <2>4. Close(c, open).overlapped = c.overlapped
    BY <1>2, <1>4, OverlappedStays, PanelIsThere, SaveIsThere
  <2> QED BY <1>3, <2>1, <2>2, <2>3, <2>4
<1>7. ASSUME ~app'.overlapped PROVE Alone(app')
  <2>1. ~app.overlapped /\ WaitingOpens(app) = {} BY <1>5, <1>6, <1>7
  <2>2. Alone(app) BY <2>1 DEF OpeningInv
  <2>3. app.closing = {} /\ \A s \in app.saves : s.open = 0
    BY <2>1, <2>2 DEF WaitingOpens, Alone, Settled, OneWaits
  <2>4. Alone(c)
    <3>1. OneWaits(c) BY <1>5, <2>2 DEF Alone, Settled, OneWaits
    <3>2. OneIsPresent(c) /\ SavesBelong(c)
      BY <1>5, <2>2 DEF Alone, Settled, OneIsPresent, SavesBelong
    <3>3. MarksBelong(c) /\ SaveGoesOn(c) BY <1>5, <2>2 DEF Alone, Settled, MarksBelong, SaveGoesOn
    <3>4. ShowsOne(c) BY <1>5, <2>2 DEF Alone, Settled, ShowsOne
    <3> QED BY <3>1, <3>2, <3>3, <3>4 DEF Alone, Settled
  <2>5. c.closing = {} /\ \A s \in c.saves : s.open = 0 BY <1>5, <2>3
  <2>6. CASE app.task = 0
    <3>1. Alone(StartTask(c, open)) BY <1>2, <1>4, <1>5, <2>4, <2>5, <2>6, StartTaskAlone
    <3> QED BY <1>3, <2>6, <3>1
  <2>7. CASE app.task # 0
    <3>1. Alone(Close(c, open)) BY <1>2, <1>4, <1>5, <2>4, <2>5, <2>7, CloseAlone
    <3> QED BY <1>3, <2>7, <3>1
  <2> QED BY <2>6, <2>7
<1> QED BY <1>1, <1>5, <1>6, <1>7 DEF OpeningInv, OpeningTypeOK, Open

LEMMA DestroyedSafe ==
  ASSUME OpeningInv, Destroyed
  PROVE  OpeningInv'
<1>1. app \in AppFields /\ edits \in 0..MaxEdits BY DEF OpeningInv, OpeningTypeOK
<1>2. PICK k \in app.closing :
        app' = StartTask([app EXCEPT !.closing = @ \ {k}, !.alive = @ \ {k.task},
                            !.answers = {a \in @ : a[2] # k.task},
                            !.saves = {s \in @ : s.document # k.task \/ s.open # 0}], k.open)
  BY DEF Destroyed
<1>3. k \in [open : Opens, task : Opens] BY <1>1 DEF AppFields
<1> DEFINE c == [app EXCEPT !.closing = @ \ {k}, !.alive = @ \ {k.task},
                   !.answers = {a \in @ : a[2] # k.task},
                   !.saves = {s \in @ : s.document # k.task \/ s.open # 0}]
<1>4. c \in AppFields BY ZenonT(60), <1>1 DEF AppFields
<1>5. /\ c.closing = app.closing \ {k} /\ c.alive = app.alive \ {k.task}
      /\ c.saves = {s \in app.saves : s.document # k.task \/ s.open # 0}
      /\ c.task = app.task /\ c.document = app.document /\ c.url = app.url
      /\ c.loading = app.loading /\ c.overlapped = app.overlapped
      /\ c.stored = app.stored /\ c.modified = app.modified
      /\ c.storageModified = app.storageModified /\ c.saveInProgress = app.saveInProgress
      /\ c.panels = app.panels /\ c.file = app.file /\ c.told = app.told
  BY <1>1 DEF AppFields
<1>6. app' = StartTask(c, k.open) BY <1>2
<1> HIDE DEF c
<1>7. app' \in AppFields /\ app'.overlapped = app.overlapped
  <2>1. StartTask(c, k.open).overlapped = c.overlapped BY <1>3, <1>4 DEF StartTask, AppFields
  <2> QED BY <1>3, <1>4, <1>5, <1>6, <2>1, StartTaskTyped
<1>8. ASSUME ~app'.overlapped PROVE Alone(app')
  <2>1. Alone(app) BY <1>7, <1>8 DEF OpeningInv
  <2>2. k.open # 0 /\ app.task = 0 /\ app.closing = {k} BY <2>1 DEF Alone, Settled, OneWaits
  <2>3. c.closing = {} /\ c.task = 0 BY <1>5, <2>2
  <2>4. \A s \in app.saves : s.open = 0 BY <2>1, <2>2 DEF Alone, Settled, OneWaits
  <2>5. c.saves = {} BY <1>5, <2>1, <2>2, <2>4 DEF Alone, Settled, SavesBelong
  <2>6. Alone(c)
    <3>1. OneWaits(c) /\ SavesBelong(c) BY <2>3, <2>5 DEF OneWaits, SavesBelong
    <3>2. OneIsPresent(c) BY <1>5, <2>1, <2>2 DEF Alone, Settled, OneIsPresent
    <3>3. MarksBelong(c) BY <1>5, <2>1 DEF Alone, Settled, MarksBelong
    <3>4. ~app.saveInProgress
      BY <2>1, <2>2 DEF Alone, Settled, SaveGoesOn, SavesBelong
    <3>5. SaveGoesOn(c) BY <1>5, <3>4 DEF SaveGoesOn
    <3>6. ShowsOne(c) BY <1>5, <2>1 DEF Alone, Settled, ShowsOne
    <3> QED BY <3>1, <3>2, <3>3, <3>5, <3>6 DEF Alone, Settled
  <2>7. Alone(StartTask(c, k.open)) BY <1>3, <1>4, <2>2, <2>3, <2>6, StartTaskAlone
  <2> QED BY <1>6, <2>7
<1>9. edits' = edits BY DEF Destroyed
<1> QED BY SMTT(40), <1>1, <1>7, <1>8, <1>9 DEF OpeningInv, OpeningTypeOK

LEMMA LoadSafe ==
  ASSUME OpeningInv, Load
  PROVE  OpeningInv' /\ (~app'.overlapped => ~app.overlapped)
<1>1. app \in AppFields /\ edits \in 0..MaxEdits BY DEF OpeningInv, OpeningTypeOK
<1>2. PICK d \in app.loading :
        app' = [app EXCEPT !.loading = @ \ {d}, !.document = d, !.panels.labels = 0,
                  !.answers = @ \cup {<<kind, d>> : kind \in {"rendered", "labels", "info"}}]
  BY DEF Load
<1>3. d \in Opens BY <1>1 DEF AppFields
<1> DEFINE answers == app.answers \cup {<<kind, d>> : kind \in {"rendered", "labels", "info"}}
           panels == [app.panels EXCEPT !["labels"] = 0]
<1>4. answers \in SUBSET (Kinds \X Opens)
  BY <1>1, <1>3 DEF AppFields, Kinds, Panels
<1>5. panels \in [Panels -> Opens] /\ \A p \in Panels : panels[p] \in {0, app.panels[p]}
  BY <1>1, PanelIsThere DEF AppFields
<1>6. app' = [app EXCEPT !.loading = @ \ {d}, !.document = d, !.panels = panels,
                !.answers = answers]
  BY <1>1, <1>2 DEF AppFields
<1> HIDE DEF answers, panels
<1>7. app' \in AppFields BY <1>1, <1>3, <1>4, <1>5, <1>6 DEF AppFields
<1>8. /\ app'.loading = app.loading \ {d} /\ app'.document = d /\ app'.panels = panels
      /\ app'.task = app.task /\ app'.url = app.url /\ app'.alive = app.alive
      /\ app'.closing = app.closing /\ app'.saves = app.saves /\ app'.stored = app.stored
      /\ app'.modified = app.modified /\ app'.storageModified = app.storageModified
      /\ app'.saveInProgress = app.saveInProgress /\ app'.file = app.file
      /\ app'.told = app.told /\ app'.overlapped = app.overlapped
  BY <1>1, <1>6 DEF AppFields
<1>9. ASSUME ~app'.overlapped PROVE Alone(app')
  <2>1. Alone(app) BY <1>8, <1>9 DEF OpeningInv
  <2>2. d = app.task /\ app.document \in {0, d} BY <2>1 DEF Alone, Settled, OneIsPresent
  <2>3. OneWaits(app') BY <1>8, <2>1 DEF Alone, Settled, OneWaits
  <2>4. OneIsPresent(app') /\ SavesBelong(app')
    BY <1>8, <2>1, <2>2 DEF Alone, Settled, OneIsPresent, SavesBelong
  <2>5. MarksBelong(app') /\ SaveGoesOn(app')
    BY <1>8, <2>1 DEF Alone, Settled, MarksBelong, SaveGoesOn
  <2>6. ShowsOne(app') BY <1>5, <1>8, <2>1, <2>2 DEF Alone, Settled, ShowsOne
  <2> QED BY <2>3, <2>4, <2>5, <2>6 DEF Alone, Settled
<1>10. edits' = edits BY DEF Load
<1> QED BY <1>1, <1>7, <1>8, <1>9, <1>10 DEF OpeningInv, OpeningTypeOK

\* Whatever leaves the fields that Alone speaks of leaves Alone.
LEMMA SameAlone ==
  ASSUME NEW c, NEW d, Alone(c), d.loading \subseteq c.loading,
         d.document = c.document, d.panels = c.panels, d.task = c.task, d.url = c.url,
         d.alive = c.alive, d.closing = c.closing, d.saves = c.saves, d.stored = c.stored,
         d.modified = c.modified, d.storageModified = c.storageModified,
         d.saveInProgress = c.saveInProgress, d.file = c.file, d.told[1] = d.told[2]
  PROVE  Alone(d)
<1>1. OneWaits(d) /\ SavesBelong(d) BY DEF Alone, Settled, OneWaits, SavesBelong
<1>2. OneIsPresent(d) BY DEF Alone, Settled, OneIsPresent
<1>3. MarksBelong(d) /\ SaveGoesOn(d) BY DEF Alone, Settled, MarksBelong, SaveGoesOn
<1>4. ShowsOne(d) BY DEF Alone, Settled, ShowsOne
<1> QED BY <1>1, <1>2, <1>3, <1>4 DEF Alone, Settled

LEMMA LoadingErrorSafe ==
  ASSUME OpeningInv, LoadingError
  PROVE  OpeningInv'
<1>1. app \in AppFields /\ edits \in 0..MaxEdits BY DEF OpeningInv, OpeningTypeOK
<1>2. PICK d \in app.loading : app' = [app EXCEPT !.loading = @ \ {d}] BY DEF LoadingError
<1>3. /\ app' \in AppFields /\ app'.loading \subseteq app.loading
      /\ app'.document = app.document /\ app'.panels = app.panels /\ app'.task = app.task
      /\ app'.url = app.url /\ app'.alive = app.alive /\ app'.closing = app.closing
      /\ app'.saves = app.saves /\ app'.stored = app.stored /\ app'.modified = app.modified
      /\ app'.storageModified = app.storageModified
      /\ app'.saveInProgress = app.saveInProgress /\ app'.file = app.file
      /\ app'.told = app.told /\ app'.overlapped = app.overlapped
  BY <1>1, <1>2 DEF AppFields
<1>4. ~app'.overlapped => Alone(app')
  BY <1>3, SameAlone DEF OpeningInv, Alone, Settled, ShowsOne
<1>5. edits' = edits BY DEF LoadingError
<1> QED BY <1>1, <1>3, <1>4, <1>5 DEF OpeningInv, OpeningTypeOK

LEMMA OnePageRenderedSafe ==
  ASSUME OpeningInv, OnePageRendered
  PROVE  OpeningInv'
<1>1. app \in AppFields /\ edits \in 0..MaxEdits BY DEF OpeningInv, OpeningTypeOK
<1>2. PICK a \in app.answers :
        app' = [app EXCEPT !.answers = (@ \ {a}) \cup {<<kind, a[2]>> : kind \in LatePanels}]
  BY DEF OnePageRendered
<1> DEFINE answers == (app.answers \ {a}) \cup {<<kind, a[2]>> : kind \in LatePanels}
<1>3. a \in Kinds \X Opens BY <1>1 DEF AppFields
<1>4. answers \in SUBSET (Kinds \X Opens) BY <1>1, <1>3 DEF AppFields, Kinds, Panels
<1>5. app' = [app EXCEPT !.answers = answers] BY <1>2
<1> HIDE DEF answers
<1>6. /\ app' \in AppFields /\ app'.loading = app.loading
      /\ app'.document = app.document /\ app'.panels = app.panels /\ app'.task = app.task
      /\ app'.url = app.url /\ app'.alive = app.alive /\ app'.closing = app.closing
      /\ app'.saves = app.saves /\ app'.stored = app.stored /\ app'.modified = app.modified
      /\ app'.storageModified = app.storageModified
      /\ app'.saveInProgress = app.saveInProgress /\ app'.file = app.file
      /\ app'.told = app.told /\ app'.overlapped = app.overlapped
  BY <1>1, <1>4, <1>5 DEF AppFields
<1>7. ~app'.overlapped => Alone(app')
  BY <1>6, SameAlone DEF OpeningInv, Alone, Settled, ShowsOne
<1>8. edits' = edits BY DEF OnePageRendered
<1> QED BY <1>1, <1>6, <1>7, <1>8 DEF OpeningInv, OpeningTypeOK

LEMMA PanelAnsweredSafe ==
  ASSUME OpeningInv, PanelAnswered
  PROVE  OpeningInv'
<1>1. app \in AppFields /\ edits \in 0..MaxEdits BY DEF OpeningInv, OpeningTypeOK
<1>2. PICK a \in app.answers :
        a[1] \in Panels /\ app' = Show([app EXCEPT !.answers = @ \ {a}], a[1], a[2])
  BY DEF PanelAnswered
<1> DEFINE c == [app EXCEPT !.answers = @ \ {a}]
<1>3. a[2] \in Opens BY <1>1 DEF AppFields
<1>4. /\ c \in AppFields /\ c.loading = app.loading
      /\ c.document = app.document /\ c.panels = app.panels /\ c.task = app.task
      /\ c.url = app.url /\ c.alive = app.alive /\ c.closing = app.closing
      /\ c.saves = app.saves /\ c.stored = app.stored /\ c.modified = app.modified
      /\ c.storageModified = app.storageModified
      /\ c.saveInProgress = app.saveInProgress /\ c.file = app.file
      /\ c.told = app.told /\ c.overlapped = app.overlapped
  BY <1>1 DEF AppFields
<1>5. app' = Show(c, a[1], a[2]) BY <1>2
<1> HIDE DEF c
<1>6. app' \in AppFields BY <1>2, <1>3, <1>4, <1>5, ShowTyped
<1>7. app'.overlapped = app.overlapped
  <2>1. Show(c, a[1], a[2]).overlapped = c.overlapped
    BY ZenonT(60), <1>2, <1>3, <1>4, OverlappedStays, SaveIsThere
  <2> QED BY <1>4, <1>5, <2>1
<1>8. ASSUME ~app'.overlapped PROVE Alone(app')
  <2>1. Alone(app) BY <1>7, <1>8 DEF OpeningInv
  <2>2. Alone(c) BY <1>4, <2>1, SameAlone DEF Alone, Settled, ShowsOne
  <2> QED BY <1>2, <1>3, <1>4, <1>5, <2>2, ShowAlone
<1>9. edits' = edits BY DEF PanelAnswered
<1> QED BY <1>1, <1>6, <1>8, <1>9 DEF OpeningInv, OpeningTypeOK

LEMMA ScriptingDocPropertiesSafe ==
  ASSUME OpeningInv, ScriptingDocProperties
  PROVE  OpeningInv'
<1>1. app \in AppFields /\ edits \in 0..MaxEdits BY DEF OpeningInv, OpeningTypeOK
<1> DEFINE d == app.document
<1>2. d # 0 /\ d \in Opens /\ app.panels["info"] \in Opens /\ edits' = edits
  BY <1>1, PanelIsThere DEF ScriptingDocProperties, AppFields
<1>3. CASE app.panels.info # 0
  <2>1. app' = [app EXCEPT !.told = <<d, app.panels.info>>]
    BY <1>3 DEF ScriptingDocProperties
  <2>2. app' \in AppFields BY <1>1, <1>2, <2>1 DEF AppFields
  <2>3. /\ app'.loading = app.loading
        /\ app'.document = app.document /\ app'.panels = app.panels /\ app'.task = app.task
        /\ app'.url = app.url /\ app'.alive = app.alive /\ app'.closing = app.closing
        /\ app'.saves = app.saves /\ app'.stored = app.stored
        /\ app'.modified = app.modified /\ app'.storageModified = app.storageModified
        /\ app'.saveInProgress = app.saveInProgress /\ app'.file = app.file
        /\ app'.told = <<d, app.panels.info>> /\ app'.overlapped = app.overlapped
    BY <1>1, <2>1 DEF AppFields
  <2>4. ASSUME ~app'.overlapped PROVE Alone(app')
    <3>1. Alone(app) BY <2>3, <2>4 DEF OpeningInv
    <3>2. app.panels.info = d
      BY <1>3, <3>1, PanelIsThere DEF Alone, Settled, ShowsOne
    <3> QED BY <2>3, <3>1, <3>2, SameAlone
  <2> QED BY <1>1, <1>2, <2>2, <2>4 DEF OpeningInv, OpeningTypeOK
<1>4. CASE app.panels.info = 0
  <2>1. app' = [app EXCEPT !.scripts = @ \cup {d}]
    BY <1>4 DEF ScriptingDocProperties
  <2>2. /\ app' \in AppFields /\ app'.loading = app.loading
        /\ app'.document = app.document /\ app'.panels = app.panels /\ app'.task = app.task
        /\ app'.url = app.url /\ app'.alive = app.alive /\ app'.closing = app.closing
        /\ app'.saves = app.saves /\ app'.stored = app.stored
        /\ app'.modified = app.modified /\ app'.storageModified = app.storageModified
        /\ app'.saveInProgress = app.saveInProgress /\ app'.file = app.file
        /\ app'.told = app.told /\ app'.overlapped = app.overlapped
    BY <1>1, <1>2, <2>1 DEF AppFields
  <2>3. ~app'.overlapped => Alone(app')
    BY <2>2, SameAlone DEF OpeningInv, Alone, Settled, ShowsOne
  <2> QED BY <1>1, <1>2, <2>2, <2>3 DEF OpeningInv, OpeningTypeOK
<1> QED BY <1>3, <1>4

LEMMA CountedTyped ==
  ASSUME edits \in 0..MaxEdits, Counted
  PROVE  edits' \in 0..MaxEdits
BY OpeningAssumption DEF Counted

LEMMA EditSafe ==
  ASSUME OpeningInv, Edit
  PROVE  OpeningInv'
<1>1. app \in AppFields /\ edits' \in 0..MaxEdits
  BY CountedTyped DEF OpeningInv, OpeningTypeOK, Edit
<1>2. app.document # 0 /\ app.document \in Opens BY <1>1 DEF Edit, AppFields
<1>3. app' = [app EXCEPT !.stored = @ \cup {app.document},
                !.modified = @ \cup {app.document}, !.storageModified = TRUE]
  BY DEF Edit
<1>4. /\ app' \in AppFields /\ app'.loading = app.loading
      /\ app'.document = app.document /\ app'.panels = app.panels /\ app'.task = app.task
      /\ app'.url = app.url /\ app'.alive = app.alive /\ app'.closing = app.closing
      /\ app'.saves = app.saves /\ app'.stored = app.stored \cup {app.document}
      /\ app'.modified = app.modified \cup {app.document} /\ app'.storageModified
      /\ app'.saveInProgress = app.saveInProgress /\ app'.file = app.file
      /\ app'.told = app.told /\ app'.overlapped = app.overlapped
  BY ZenonT(60), <1>1, <1>2, <1>3 DEF AppFields
<1>5. ASSUME ~app'.overlapped PROVE Alone(app')
  <2>1. Alone(app) BY <1>4, <1>5 DEF OpeningInv
  <2>2. app.document = app.task BY <1>2, <2>1 DEF Alone, Settled, OneIsPresent
  <2>3. OneWaits(app') /\ SavesBelong(app')
    BY <1>4, <2>1 DEF Alone, Settled, OneWaits, SavesBelong
  <2>4. OneIsPresent(app') BY <1>4, <2>1 DEF Alone, Settled, OneIsPresent
  <2>5. MarksBelong(app') BY <1>2, <1>4, <2>1, <2>2 DEF Alone, Settled, MarksBelong
  <2>6. SaveGoesOn(app') /\ ShowsOne(app')
    BY <1>4, <2>1 DEF Alone, Settled, SaveGoesOn, ShowsOne
  <2> QED BY <2>3, <2>4, <2>5, <2>6 DEF Alone, Settled
<1> QED BY <1>1, <1>4, <1>5 DEF OpeningInv, OpeningTypeOK

LEMMA EditsPrintedSafe ==
  ASSUME OpeningInv, EditsPrinted
  PROVE  OpeningInv'
<1>1. app \in AppFields /\ edits \in 0..MaxEdits BY DEF OpeningInv, OpeningTypeOK
<1>2. app' = ResetModified(app, app.document) /\ edits' = edits BY DEF EditsPrinted
<1>3. app' \in AppFields BY <1>1, <1>2, ResetModifiedTyped
<1>4. app'.overlapped = app.overlapped BY <1>1, <1>2 DEF ResetModified, AppFields
<1>5. ASSUME ~app'.overlapped PROVE Alone(app')
  <2>1. Alone(app) BY <1>4, <1>5 DEF OpeningInv
  <2> QED BY <1>1, <1>2, <2>1, ResetModifiedSettled DEF Alone
<1> QED BY <1>1, <1>2, <1>3, <1>5 DEF OpeningInv, OpeningTypeOK

LEMMA DownloadOrSaveSafe ==
  ASSUME OpeningInv, DownloadOrSave
  PROVE  OpeningInv'
<1> DEFINE d == app.document
           n == [document |-> d, open |-> 0, kind |-> "download"]
<1>1. app \in AppFields /\ edits' \in 0..MaxEdits
  BY CountedTyped DEF OpeningInv, OpeningTypeOK, DownloadOrSave
<1>2. d # 0 /\ d \in Opens /\ 0 \in Opens BY <1>1, PanelIsThere DEF DownloadOrSave, AppFields
<1>3. CASE d \notin app.stored
  <2>1. app' = [app EXCEPT !.saves = @ \cup {n}] BY <1>3 DEF DownloadOrSave
  <2>2. n \in [document : Opens, open : Opens, kind : Saves] BY <1>2 DEF Saves
  <2>3. n.document = d /\ n.open = 0 /\ n.kind = "download" OBVIOUS
  <2> HIDE DEF n
  <2>4. /\ app' \in AppFields /\ app'.loading = app.loading
        /\ app'.document = app.document /\ app'.panels = app.panels /\ app'.task = app.task
        /\ app'.url = app.url /\ app'.alive = app.alive /\ app'.closing = app.closing
        /\ app'.saves = app.saves \cup {n} /\ app'.stored = app.stored
        /\ app'.modified = app.modified /\ app'.storageModified = app.storageModified
        /\ app'.saveInProgress = app.saveInProgress /\ app'.file = app.file
        /\ app'.told = app.told /\ app'.overlapped = app.overlapped
    BY <1>1, <2>1, <2>2 DEF AppFields
  <2>5. ASSUME ~app'.overlapped PROVE Alone(app')
    <3>1. Alone(app) BY <2>4, <2>5 DEF OpeningInv
    <3>2. d = app.task BY <1>2, <3>1 DEF Alone, Settled, OneIsPresent
    <3>3. OneWaits(app') BY <2>3, <2>4, <3>1 DEF Alone, Settled, OneWaits
    <3>4. OneIsPresent(app') BY <2>4, <3>1 DEF Alone, Settled, OneIsPresent
    <3>5. SavesBelong(app') BY <1>2, <2>3, <2>4, <3>1, <3>2 DEF Alone, Settled, SavesBelong
    <3>6. MarksBelong(app') /\ SaveGoesOn(app')
      BY <2>4, <3>1 DEF Alone, Settled, MarksBelong, SaveGoesOn
    <3>7. ShowsOne(app') BY <2>4, <3>1 DEF Alone, Settled, ShowsOne
    <3> QED BY <3>3, <3>4, <3>5, <3>6, <3>7 DEF Alone, Settled
  <2> QED BY <1>1, <2>4, <2>5 DEF OpeningInv, OpeningTypeOK
<1>4. CASE d \in app.stored /\ app.saveInProgress
  <2>1. app' = app BY <1>4 DEF DownloadOrSave
  <2> QED BY <1>1, <2>1 DEF OpeningInv, OpeningTypeOK
<1>5. CASE d \in app.stored /\ ~app.saveInProgress
  <2>1. app' = StartSave(app, 0) BY <1>5 DEF DownloadOrSave
  <2>2. app' \in AppFields BY <1>1, <1>2, <2>1, StartSaveTyped
  <2>3. app'.overlapped = app.overlapped BY <1>1, <2>1 DEF StartSave, AppFields
  <2>4. ASSUME ~app'.overlapped PROVE Alone(app')
    BY <1>1, <1>2, <2>1, <2>3, <2>4, StartSaveAlone DEF OpeningInv
  <2> QED BY <1>1, <2>2, <2>4 DEF OpeningInv, OpeningTypeOK
<1> QED BY <1>3, <1>4, <1>5

LEMMA SaveAnsweredSafe ==
  ASSUME OpeningInv, SaveAnswered
  PROVE  OpeningInv' /\ (~app'.overlapped => ~app.overlapped)
<1>1. app \in AppFields /\ edits \in 0..MaxEdits BY DEF OpeningInv, OpeningTypeOK
<1>2. PICK s \in app.saves :
        app' = LET c == [app EXCEPT !.saves = @ \ {s}]
               IN  SaveEnds(IF s.kind = "save" THEN ResetModified(c, s.document) ELSE c,
                            s, s.document)
  BY DEF SaveAnswered
<1> DEFINE c == [app EXCEPT !.saves = @ \ {s}]
           r == IF s.kind = "save" THEN ResetModified(c, s.document) ELSE c
<1>3. s \in [document : Opens, open : Opens, kind : Saves] /\ s.document \in Opens
  BY <1>1 DEF AppFields
<1>4. c \in AppFields /\ c.overlapped = app.overlapped BY <1>1 DEF AppFields
<1>5. app' = SaveEnds(r, s, s.document) BY <1>2
<1>6. ~app.overlapped =>
        /\ Settled(c) /\ (s.kind = "download" => SaveGoesOn(c))
        /\ s.open # 0 => c.closing = {} /\ \A t \in c.saves : t.open = 0
        /\ c.url \in {0, s.document} /\ c.url = c.task
  BY <1>1, WithoutSave DEF OpeningInv
<1> HIDE DEF c
<1>7. r \in AppFields /\ r.overlapped = app.overlapped
  <2>1. ResetModified(c, s.document) \in AppFields BY <1>4, ResetModifiedTyped
  <2>2. ResetModified(c, s.document).overlapped = c.overlapped
    BY <1>4 DEF ResetModified, AppFields
  <2> QED BY <1>4, <2>1, <2>2
<1>8. ~app.overlapped =>
        /\ Settled(r) /\ (s.kind = "download" => SaveGoesOn(r))
        /\ s.open # 0 => r.closing = {} /\ \A t \in r.saves : t.open = 0
        /\ r.url \in {0, s.document}
  <2> SUFFICES ASSUME ~app.overlapped, s.kind = "save"
               PROVE  /\ Settled(r)
                      /\ s.open # 0 => r.closing = {} /\ \A t \in r.saves : t.open = 0
                      /\ r.url \in {0, s.document}
    BY <1>6
  <2>1. /\ Settled(r) /\ r.task = c.task /\ r.saves = c.saves /\ r.closing = c.closing
    BY <1>4, <1>6, ResetModifiedSettled
  <2>2. r.url = c.url BY <1>6, <2>1 DEF Settled, OneIsPresent
  <2> QED BY <1>6, <2>1, <2>2
<1> HIDE DEF r
<1>9. app' \in AppFields BY <1>3, <1>5, <1>7, SaveEndsTyped
<1>10. app'.overlapped = app.overlapped
  <2>1. SaveEnds(r, s, s.document).overlapped = r.overlapped
    BY <1>3, <1>7, OverlappedStays, PanelIsThere
  <2> QED BY <1>5, <1>7, <2>1
<1>11. ~app'.overlapped => Alone(app') BY <1>3, <1>5, <1>7, <1>8, <1>10, SaveEndsAlone
<1>12. edits' = edits BY DEF SaveAnswered
<1> QED BY <1>1, <1>9, <1>10, <1>11, <1>12 DEF OpeningInv, OpeningTypeOK

LEMMA SaveFailsSafe ==
  ASSUME OpeningInv, SaveFails
  PROVE  OpeningInv' /\ (~app'.overlapped => ~app.overlapped)
<1>1. app \in AppFields /\ edits \in 0..MaxEdits BY DEF OpeningInv, OpeningTypeOK
<1>2. PICK s \in app.saves :
        app' = LET c == ResetModified([app EXCEPT !.saves = @ \ {s}], s.document)
                   instead == [document |-> app.document, open |-> s.open, kind |-> "instead"]
               IN  IF app.document = 0 THEN SaveEnds(c, instead, app.url)
                   ELSE [c EXCEPT !.saves = @ \cup {instead}]
  BY DEF SaveFails
<1> DEFINE b == [app EXCEPT !.saves = @ \ {s}]
           c == ResetModified(b, s.document)
           instead == [document |-> app.document, open |-> s.open, kind |-> "instead"]
<1>3. s \in [document : Opens, open : Opens, kind : Saves] /\ s.open \in Opens
  BY <1>1 DEF AppFields
<1>4. /\ b \in AppFields /\ b.overlapped = app.overlapped /\ b.url = app.url
      /\ b.document = app.document
  BY <1>1 DEF AppFields
<1>5. /\ instead \in [document : Opens, open : Opens, kind : Saves] /\ app.url \in Opens
      /\ instead.document = app.document /\ instead.open = s.open
      /\ instead.kind = "instead"
  BY <1>1, <1>3 DEF AppFields, Saves
<1>6. app' = IF app.document = 0 THEN SaveEnds(c, instead, app.url)
             ELSE [c EXCEPT !.saves = @ \cup {instead}]
  BY <1>2
<1>7. ~app.overlapped =>
        /\ Settled(b) /\ b.url = b.task
        /\ s.open # 0 => b.closing = {} /\ \A t \in b.saves : t.open = 0
  BY <1>1, WithoutSave DEF OpeningInv
<1> HIDE DEF b, instead
<1>8. c \in AppFields /\ c.overlapped = app.overlapped
  <2>1. c \in AppFields BY <1>4, ResetModifiedTyped
  <2>2. c.overlapped = b.overlapped BY <1>4 DEF ResetModified, AppFields
  <2> QED BY <1>4, <2>1, <2>2
<1>9. ~app.overlapped =>
        /\ Settled(c) /\ c.url = app.url /\ c.document = app.document
        /\ s.open # 0 => c.closing = {} /\ \A t \in c.saves : t.open = 0
  <2> SUFFICES ASSUME ~app.overlapped
               PROVE  /\ Settled(c) /\ c.url = app.url /\ c.document = app.document
                      /\ s.open # 0 => c.closing = {} /\ \A t \in c.saves : t.open = 0
    OBVIOUS
  <2>1. /\ Settled(c) /\ c.task = b.task /\ c.document = b.document
        /\ c.saves = b.saves /\ c.closing = b.closing
    BY <1>4, <1>7, ResetModifiedSettled
  <2>2. c.url = c.task BY <2>1 DEF Settled, OneIsPresent
  <2> QED BY <1>4, <1>7, <2>1, <2>2
<1> HIDE DEF c
<1>10. CASE app.document = 0
  <2>1. app' = SaveEnds(c, instead, app.url) BY <1>6, <1>10
  <2>2. app' \in AppFields BY <1>5, <1>8, <2>1, SaveEndsTyped
  <2>3. app'.overlapped = app.overlapped
    <3>1. SaveEnds(c, instead, app.url).overlapped = c.overlapped
      BY <1>3, <1>5, <1>8, OverlappedStays, PanelIsThere
    <3> QED BY <1>8, <2>1, <3>1
  <2>4. ~app'.overlapped => Alone(app')
    BY <1>5, <1>8, <1>9, <2>1, <2>3, SaveEndsAlone
  <2>5. edits' = edits BY DEF SaveFails
  <2> QED BY <1>1, <2>2, <2>3, <2>4, <2>5 DEF OpeningInv, OpeningTypeOK
<1>11. CASE app.document # 0
  <2>1. app' = [c EXCEPT !.saves = @ \cup {instead}] BY <1>6, <1>11
  <2>2. /\ app' \in AppFields /\ app'.loading = c.loading
        /\ app'.document = c.document /\ app'.panels = c.panels /\ app'.task = c.task
        /\ app'.url = c.url /\ app'.alive = c.alive /\ app'.closing = c.closing
        /\ app'.saves = c.saves \cup {instead} /\ app'.stored = c.stored
        /\ app'.modified = c.modified /\ app'.storageModified = c.storageModified
        /\ app'.saveInProgress = c.saveInProgress /\ app'.file = c.file
        /\ app'.told = c.told /\ app'.overlapped = c.overlapped
    BY <1>5, <1>8, <2>1 DEF AppFields
  <2>3. ASSUME ~app'.overlapped PROVE Alone(app')
    <3>1. Settled(c) BY <1>8, <1>9, <2>2, <2>3
    <3>2. instead.document = c.task /\ instead.document # 0
      BY <1>5, <1>8, <1>9, <1>11, <2>2, <2>3 DEF Settled, OneIsPresent
    <3>3. instead.open # 0 => c.closing = {} /\ \A t \in c.saves : t.open = 0
      BY <1>5, <1>8, <1>9, <2>2, <2>3
    <3>4. OneWaits(app') BY <1>5, <2>2, <3>1, <3>3 DEF Settled, OneWaits
    <3>5. OneIsPresent(app') BY <2>2, <3>1 DEF Settled, OneIsPresent
    <3>6. SavesBelong(app') BY <2>2, <3>1, <3>2 DEF Settled, SavesBelong
    <3>7. MarksBelong(app') BY <2>2, <3>1 DEF Settled, MarksBelong
    <3>8. SaveGoesOn(app') BY <1>5, <2>2, <3>2 DEF SaveGoesOn
    <3>9. ShowsOne(app') BY <2>2, <3>1 DEF Settled, ShowsOne
    <3> QED BY <3>4, <3>5, <3>6, <3>7, <3>8, <3>9 DEF Alone, Settled
  <2>4. edits' = edits BY DEF SaveFails
  <2> QED BY <1>1, <1>8, <2>2, <2>3, <2>4 DEF OpeningInv, OpeningTypeOK
<1> QED BY <1>10, <1>11

LEMMA DownloadFailsSafe ==
  ASSUME OpeningInv, DownloadFails
  PROVE  OpeningInv' /\ (~app'.overlapped => ~app.overlapped)
<1>1. app \in AppFields /\ edits \in 0..MaxEdits BY DEF OpeningInv, OpeningTypeOK
<1>2. PICK s \in app.saves : app' = SaveEnds([app EXCEPT !.saves = @ \ {s}], s, app.url)
  BY DEF DownloadFails
<1> DEFINE c == [app EXCEPT !.saves = @ \ {s}]
<1>3. /\ c \in AppFields /\ c.overlapped = app.overlapped /\ c.url = app.url
      /\ s \in [document : Opens, open : Opens, kind : Saves] /\ app.url \in Opens
  BY <1>1 DEF AppFields
<1>4. app' = SaveEnds(c, s, app.url) BY <1>2
<1>5. ~app.overlapped =>
        /\ Settled(c) /\ (s.kind = "download" => SaveGoesOn(c))
        /\ s.open # 0 => c.closing = {} /\ \A t \in c.saves : t.open = 0
  BY <1>1, WithoutSave DEF OpeningInv
<1> HIDE DEF c
<1>6. app' \in AppFields BY <1>3, <1>4, SaveEndsTyped
<1>7. app'.overlapped = app.overlapped
  <2>1. SaveEnds(c, s, app.url).overlapped = c.overlapped
    BY <1>3, OverlappedStays, PanelIsThere
  <2> QED BY <1>3, <1>4, <2>1
<1>8. ~app'.overlapped => Alone(app') BY <1>3, <1>4, <1>5, <1>7, SaveEndsAlone
<1>9. edits' = edits BY DEF DownloadFails
<1> QED BY <1>1, <1>6, <1>7, <1>8, <1>9 DEF OpeningInv, OpeningTypeOK

----------------------------------------------------------------------------
(***************************************************************************)
(* The theorems                                                            *)
(***************************************************************************)
LEMMA OpeningInitSafe == OpeningInit => OpeningInv
<1> SUFFICES ASSUME OpeningInit PROVE OpeningInv OBVIOUS
<1>1. 0 \in Opens /\ edits \in 0..MaxEdits
  BY OpeningAssumption DEF Opens, OpeningInit
<1>2. app \in AppFields
  <2>1. NoFile \in [document : Opens, name : Opens, edited : BOOLEAN]
    BY <1>1 DEF NoFile
  <2> QED BY <1>1, <2>1, NoPanelsTyped DEF OpeningInit, AppFields
<1>3. Alone(app)
  BY DEF OpeningInit, Alone, Settled, OneWaits, OneIsPresent, SavesBelong, MarksBelong,
         SaveGoesOn, ShowsOne, NoFile, NoPanels
<1> QED BY <1>1, <1>2, <1>3 DEF OpeningInv, OpeningTypeOK

LEMMA OpeningStepSafe == OpeningInv /\ [OpeningNext]_openingVars => OpeningInv'
<1> SUFFICES ASSUME OpeningInv, [OpeningNext]_openingVars PROVE OpeningInv'
  OBVIOUS
<1>1. CASE Open BY <1>1, OpenSafe
<1>2. CASE Destroyed BY <1>2, DestroyedSafe
<1>3. CASE Load BY <1>3, LoadSafe
<1>4. CASE LoadingError BY <1>4, LoadingErrorSafe
<1>5. CASE ScriptingDocProperties BY <1>5, ScriptingDocPropertiesSafe
<1>6. CASE Edit BY <1>6, EditSafe
<1>7. CASE EditsPrinted BY <1>7, EditsPrintedSafe
<1>8. CASE DownloadOrSave BY <1>8, DownloadOrSaveSafe
<1>9. CASE SaveAnswered BY <1>9, SaveAnsweredSafe
<1>10. CASE SaveFails BY <1>10, SaveFailsSafe
<1>11. CASE DownloadFails BY <1>11, DownloadFailsSafe
<1>12. CASE OnePageRendered BY <1>12, OnePageRenderedSafe
<1>13. CASE PanelAnswered BY <1>13, PanelAnsweredSafe
<1>14. CASE UNCHANGED openingVars
  BY <1>14 DEF openingVars, OpeningInv, OpeningTypeOK, Alone, Settled, OneWaits,
     OneIsPresent, SavesBelong, MarksBelong, SaveGoesOn, ShowsOne
<1> QED
  BY <1>1, <1>2, <1>3, <1>4, <1>5, <1>6, <1>7, <1>8, <1>9, <1>10, <1>11, <1>12, <1>13, <1>14
  DEF OpeningNext, OpeningWorks

LEMMA OpeningInvHolds == OpeningSpec => []OpeningInv
<1>1. OpeningInit => OpeningInv BY OpeningInitSafe
<1>2. OpeningInv /\ [OpeningNext]_openingVars => OpeningInv' BY OpeningStepSafe
<1> QED BY <1>1, <1>2, PTL DEF OpeningSpec

\* As long as no two calls of open overlap, the document, its name, its panels
\* and what its scripts are told are of one file (PDFViewerApplication.open,
\* close, load and save of viewer.mjs).
THEOREM OpeningSound == OpeningSpec => []OpeningIsSound
<1>1. OpeningInv => OpeningIsSound
  BY DEF OpeningInv, Alone, Settled, OneIsPresent, ShowsOne, OpeningIsSound, OneDocument,
         PanelsOfTheDocument, SavedUnderItsName, ScriptsGetTheirDocument
<1> QED BY <1>1, OpeningInvHolds, PTL

----------------------------------------------------------------------------
(***************************************************************************)
(* Leaving a document whose edits are marked                               *)
(***************************************************************************)
SavedWhenLeft ==
  app.document \in app.modified /\ app'.document # app.document /\ ~app'.overlapped =>
    \E s \in app.saves : s.document = app.document /\ s.kind # "download"

\* The end of a save that nobody waited for leaves the document.
LEMMA SaveEndsKeeps ==
  ASSUME NEW c \in AppFields, NEW d \in Opens,
         NEW s \in [document : Opens, open : Opens, kind : Saves], s.open = 0
  PROVE  SaveEnds(c, s, d).document = c.document
BY DEF SaveEnds, AppFields

\* A save that somebody waits for is one of the present document.
LEMMA AwaitedSave ==
  ASSUME NEW c, Alone(c), c.document \in c.modified, NEW s \in c.saves, s.open # 0
  PROVE  s.document = c.document /\ s.kind # "download"
BY DEF Alone, Settled, OneWaits, SavesBelong, MarksBelong

LEMMA OpenLeaves ==
  ASSUME OpeningInv, Open
  PROVE  SavedWhenLeft
<1> DEFINE open == app.opens + 1
           c == [app EXCEPT !.opens = open, !.overlapped = @ \/ WaitingOpens(app) # {}]
<1>1. SUFFICES ASSUME app.document \in app.modified, app'.document # app.document,
                      ~app'.overlapped
               PROVE  \E s \in app.saves : s.document = app.document /\ s.kind # "download"
  BY DEF SavedWhenLeft
<1>2. Alone(app) /\ app \in AppFields BY <1>1, OpenSafe DEF OpeningInv, OpeningTypeOK
<1>3. app' = IF app.task = 0 THEN StartTask(c, open) ELSE Close(c, open) BY DEF Open
<1>4. /\ app.document = app.task /\ app.document # 0 /\ app.document \in app.stored
      /\ app.storageModified
  BY <1>1, <1>2 DEF Alone, Settled, MarksBelong
<1>5. c \in AppFields
  <2>1. (app.overlapped \/ WaitingOpens(app) # {}) \in BOOLEAN OBVIOUS
  <2>2. open \in Opens BY <1>2, OpeningAssumption DEF Open, Opens, AppFields
  <2> QED BY <1>2, <2>1, <2>2 DEF AppFields
<1>6. /\ c.document = app.document /\ c.stored = app.stored
      /\ c.storageModified = app.storageModified /\ c.saveInProgress = app.saveInProgress
  BY <1>2 DEF AppFields
<1> HIDE DEF c
<1>7. app' = Close(c, open) BY <1>3, <1>4
<1>8. StartSave(c, open).document = c.document BY <1>5 DEF StartSave, AppFields
<1>9. app.saveInProgress BY <1>1, <1>4, <1>6, <1>7, <1>8 DEF Close
<1> QED BY <1>2, <1>4, <1>9 DEF Alone, SaveGoesOn

LEMMA LoadLeaves ==
  ASSUME OpeningInv, Load
  PROVE  SavedWhenLeft
<1>1. SUFFICES ASSUME app.document \in app.modified, ~app'.overlapped
               PROVE  app'.document = app.document
  BY DEF SavedWhenLeft
<1>2. Alone(app) /\ app \in AppFields BY <1>1, LoadSafe DEF OpeningInv, OpeningTypeOK
<1>3. app.document = app.task /\ app.loading \subseteq {app.task}
  BY <1>1, <1>2 DEF Alone, Settled, MarksBelong, OneIsPresent
<1> QED BY <1>2, <1>3 DEF Load, AppFields

LEMMA SaveAnsweredLeaves ==
  ASSUME OpeningInv, SaveAnswered
  PROVE  SavedWhenLeft
<1>1. SUFFICES ASSUME app.document \in app.modified, app'.document # app.document,
                      ~app'.overlapped
               PROVE  \E s \in app.saves : s.document = app.document /\ s.kind # "download"
  BY DEF SavedWhenLeft
<1>2. Alone(app) /\ app \in AppFields BY <1>1, SaveAnsweredSafe DEF OpeningInv, OpeningTypeOK
<1>3. PICK s \in app.saves :
        app' = LET c == [app EXCEPT !.saves = @ \ {s}]
               IN  SaveEnds(IF s.kind = "save" THEN ResetModified(c, s.document) ELSE c,
                            s, s.document)
  BY DEF SaveAnswered
<1> DEFINE c == [app EXCEPT !.saves = @ \ {s}]
           r == IF s.kind = "save" THEN ResetModified(c, s.document) ELSE c
<1>4. /\ s \in [document : Opens, open : Opens, kind : Saves] /\ s.document \in Opens
      /\ c \in AppFields /\ c.document = app.document
  BY <1>2 DEF AppFields
<1> HIDE DEF c
<1>5. r \in AppFields /\ r.document = app.document
  <2>1. ResetModified(c, s.document) \in AppFields BY <1>4, ResetModifiedTyped
  <2>2. ResetModified(c, s.document).document = c.document
    BY <1>4 DEF ResetModified, AppFields
  <2> QED BY <1>4, <2>1, <2>2
<1>6. app' = SaveEnds(r, s, s.document) BY <1>3 DEF c
<1> HIDE DEF r
<1>7. s.open # 0 BY <1>1, <1>4, <1>5, <1>6, SaveEndsKeeps
<1> QED BY <1>1, <1>2, <1>7, AwaitedSave

LEMMA SaveFailsLeaves ==
  ASSUME OpeningInv, SaveFails
  PROVE  SavedWhenLeft
<1>1. SUFFICES ASSUME app.document \in app.modified, ~app'.overlapped
               PROVE  app'.document = app.document
  BY DEF SavedWhenLeft
<1>2. Alone(app) /\ app \in AppFields BY <1>1, SaveFailsSafe DEF OpeningInv, OpeningTypeOK
<1>3. app.document # 0 BY <1>1, <1>2 DEF Alone, Settled, MarksBelong
<1>4. PICK s \in app.saves :
        app' = LET c == ResetModified([app EXCEPT !.saves = @ \ {s}], s.document)
                   instead == [document |-> app.document, open |-> s.open, kind |-> "instead"]
               IN  [c EXCEPT !.saves = @ \cup {instead}]
  BY <1>3 DEF SaveFails
<1> DEFINE b == [app EXCEPT !.saves = @ \ {s}]
           c == ResetModified(b, s.document)
<1>5. b \in AppFields /\ b.document = app.document BY <1>2 DEF AppFields
<1> HIDE DEF b
<1>6. c \in AppFields BY <1>5, ResetModifiedTyped
<1>7. c.document = app.document BY <1>5 DEF ResetModified, AppFields
<1>8. app' = [c EXCEPT !.saves = @ \cup {[document |-> app.document, open |-> s.open,
                                           kind |-> "instead"]}]
  BY <1>4 DEF b
<1> HIDE DEF c
<1> QED BY <1>6, <1>7, <1>8 DEF AppFields

LEMMA DownloadFailsLeaves ==
  ASSUME OpeningInv, DownloadFails
  PROVE  SavedWhenLeft
<1>1. SUFFICES ASSUME app.document \in app.modified, app'.document # app.document,
                      ~app'.overlapped
               PROVE  \E s \in app.saves : s.document = app.document /\ s.kind # "download"
  BY DEF SavedWhenLeft
<1>2. Alone(app) /\ app \in AppFields BY <1>1, DownloadFailsSafe DEF OpeningInv, OpeningTypeOK
<1>3. PICK s \in app.saves : app' = SaveEnds([app EXCEPT !.saves = @ \ {s}], s, app.url)
  BY DEF DownloadFails
<1> DEFINE c == [app EXCEPT !.saves = @ \ {s}]
<1>4. /\ s \in [document : Opens, open : Opens, kind : Saves] /\ app.url \in Opens
      /\ c \in AppFields /\ c.document = app.document
  BY SMTT(40), <1>2 DEF AppFields
<1>5. app' = SaveEnds(c, s, app.url) BY <1>3
<1> HIDE DEF c
<1>6. s.open # 0 BY <1>1, <1>4, <1>5, SaveEndsKeeps
<1> QED BY <1>1, <1>2, <1>6, AwaitedSave

\* All other actions leave the document that is open.
LEMMA DocumentStays ==
  ASSUME app \in AppFields,
         \/ Destroyed \/ LoadingError \/ ScriptingDocProperties \/ Edit \/ EditsPrinted
         \/ DownloadOrSave \/ OnePageRendered \/ PanelAnswered
  PROVE  app'.document = app.document
<1>1. CASE Destroyed
  <2>1. PICK k \in app.closing :
          app' = StartTask([app EXCEPT !.closing = @ \ {k}, !.alive = @ \ {k.task},
                              !.answers = {a \in @ : a[2] # k.task},
                              !.saves = {s \in @ : s.document # k.task \/ s.open # 0}], k.open)
    BY <1>1 DEF Destroyed
  <2> QED BY <2>1 DEF StartTask, AppFields
<1>2. CASE LoadingError \/ OnePageRendered
  BY <1>2 DEF LoadingError, OnePageRendered, AppFields
<1>3. CASE ScriptingDocProperties BY <1>3 DEF ScriptingDocProperties, AppFields
<1>4. CASE Edit BY <1>4 DEF Edit, AppFields
<1>5. CASE EditsPrinted BY <1>5 DEF EditsPrinted, ResetModified, AppFields
<1>6. CASE DownloadOrSave BY <1>6 DEF DownloadOrSave, StartSave, AppFields
<1>7. CASE PanelAnswered
  <2>1. PICK a \in app.answers :
          a[1] \in Panels /\ app' = Show([app EXCEPT !.answers = @ \ {a}], a[1], a[2])
    BY <1>7 DEF PanelAnswered
  <2> QED BY <2>1 DEF Show, TellScripts, AppFields
<1> QED BY <1>1, <1>2, <1>3, <1>4, <1>5, <1>6, <1>7

\* A document whose edits are marked is left only by way of a save: close saves
\* it first, or is called while it is being saved (PDFViewerApplication.close and
\* save of viewer.mjs).
THEOREM EditsAreSaved == OpeningSpec => EditsLeaveWithASave
<1>1. OpeningInv /\ [OpeningNext]_openingVars => [SavedWhenLeft]_openingVars
  <2> SUFFICES ASSUME OpeningInv, OpeningNext PROVE SavedWhenLeft OBVIOUS
  <2>1. app \in AppFields BY DEF OpeningInv, OpeningTypeOK
  <2>2. CASE Open BY <2>2, OpenLeaves
  <2>3. CASE Load BY <2>3, LoadLeaves
  <2>4. CASE SaveAnswered BY <2>4, SaveAnsweredLeaves
  <2>5. CASE SaveFails BY <2>5, SaveFailsLeaves
  <2>6. CASE DownloadFails BY <2>6, DownloadFailsLeaves
  <2>7. CASE \/ Destroyed \/ LoadingError \/ ScriptingDocProperties \/ Edit \/ EditsPrinted
             \/ DownloadOrSave \/ OnePageRendered \/ PanelAnswered
    BY <2>1, <2>7, DocumentStays DEF SavedWhenLeft
  <2> QED BY <2>2, <2>3, <2>4, <2>5, <2>6, <2>7 DEF OpeningNext, OpeningWorks
<1> QED BY <1>1, OpeningInvHolds, PTL DEF OpeningSpec, EditsLeaveWithASave, SavedWhenLeft

----------------------------------------------------------------------------
(* Printing                                                                *)

\* The images of the first n pages for call c.
Upto(c, n) == [i \in 1..n |-> <<c, i>>]

\* Each job is of a call that was made, the service has one at most, and the
\* job of the present service knows how many images are in the container.
PagesOf(j) ==
  CASE j.at = "page" -> j.page
    [] j.at = "image" -> j.page + 1
    [] OTHER -> PrintPages

JobsBelong(p) ==
  /\ p.service <= p.calls
  /\ \A j \in p.jobs :
       /\ j.service <= p.calls
       /\ IF j.at \in {"page", "image"} THEN j.page < PrintPages ELSE j.page = PrintPages
       /\ j.service = p.service => p.container = Upto(j.service, PagesOf(j))
       /\ j.at # "page" => p.will[j.service] = "done"
       /\ \A k \in p.jobs : j.service = k.service => j = k
  /\ p.service = 0 => p.container = <<>>

Agree(p) ==
  /\ p.appService = p.service
  /\ p.queuePrinting <=> p.service # 0
  /\ p.dialog => p.service # 0

OneThing(p) ==
  /\ Agree(p)
  /\ p.service # 0 => p.dialog \/ p.closeEvents # <<>>

Whole(p) ==
  p.printed # <<>> => \E c \in Calls : p.printed = Upto(c, PrintPages)

\* The scripts hear of one call at a time, the one of the capability.
InTurn(p) ==
  p.scripting /\ ~p.crowded =>
    /\ p.heard = IF p.capability = 0 THEN <<>> ELSE <<p.capability>>
    /\ p.capability = 0 => p.queued = <<>>
    /\ p.queued # <<>> => \E c \in Calls : p.queued = <<c>>
    /\ \A c \in Calls : /\ p.will[c] = "asked" <=> c = p.capability
                        /\ p.will[c] = "queued" <=> p.queued = <<c>>
                        /\ p.will[c] = "done" => c \in p.answered
                        /\ c > p.calls => p.will[c] = "none"

Sound(p) == p \in PrintFields /\ JobsBelong(p) /\ OneThing(p) /\ Whole(p) /\ InTurn(p)

\* The invariant that carries the proof.
PrintingInv == Sound(print)

---------------------------------------------------------------------------
LEMMA UptoNone == ASSUME NEW c PROVE Upto(c, 0) = <<>>
BY DEF Upto

LEMMA UptoNext ==
  ASSUME NEW c, NEW n \in Nat
  PROVE  Append(Upto(c, n), <<c, n + 1>>) = Upto(c, n + 1)
<1>1. Upto(c, n) \in Seq({<<c, i>> : i \in 1..n}) /\ Len(Upto(c, n)) = n
  BY DEF Upto
<1> QED BY <1>1 DEF Upto

LEMMA UptoSome ==
  ASSUME NEW c, NEW n \in Nat \ {0}
  PROVE  Upto(c, n) # <<>>
<1>1. 1 \in DOMAIN Upto(c, n)
  BY DEF Upto
<1> QED BY <1>1

---------------------------------------------------------------------------
(***************************************************************************)
(* The first state and the scripts                                         *)
(***************************************************************************)
LEMMA InitSound == PrintingInit => PrintingInv
<1> SUFFICES ASSUME PrintingInit PROVE PrintingInv
  OBVIOUS
<1> USE PrintingAssumption
<1>1. print \in PrintFields
  BY DEF PrintingInit, PrintFields, Calls, Services, Images
<1>2. JobsBelong(print)
  BY DEF PrintingInit, JobsBelong
<1>3. OneThing(print)
  BY DEF PrintingInit, OneThing, Agree
<1>4. Whole(print)
  BY DEF PrintingInit, Whole
<1>5. InTurn(print)
  <2>1. /\ print.heard = <<>> /\ print.capability = 0 /\ print.queued = <<>>
        /\ print.will = [c \in Calls |-> "none"]
    BY DEF PrintingInit
  <2>2. \A c \in Calls : print.will[c] = "none" /\ c # 0 /\ <<>> # <<c>>
    BY <2>1 DEF Calls
  <2> QED BY <2>1, <2>2 DEF InTurn
<1> QED BY <1>1, <1>2, <1>3, <1>4, <1>5 DEF PrintingInv, Sound

LEMMA FieldTypes ==
  ASSUME NEW p \in PrintFields
  PROVE  /\ p.calls \in Services /\ p.service \in Services /\ p.capability \in Services
         /\ p.appService \in Services /\ p.promise \in Services
         /\ p.scripting \in BOOLEAN /\ p.crowded \in BOOLEAN
         /\ p.queuePrinting \in BOOLEAN /\ p.dialog \in BOOLEAN
         /\ p.queued \in Seq(Calls) /\ p.heard \in Seq(Calls) /\ p.closeEvents \in Seq(Calls)
         /\ p.answered \in SUBSET Calls /\ p.did \in SUBSET Calls
         /\ p.container \in Seq(Images) /\ p.printed \in Seq(Images)
         /\ p.will \in [Calls -> {"none", "queued", "asked", "done"}]
         /\ p.jobs \subseteq [service : Calls, page : 0..PrintPages, at : {"page", "image", "print", "end"}]
BY DEF PrintFields

LEMMA Numbers ==
  /\ MaxPrints \in Nat /\ PrintPages \in Nat /\ PrintPages > 0
  /\ \A n : n \in Services <=> n \in Nat /\ n <= MaxPrints
  /\ \A n : n \in Calls <=> n \in Nat /\ n # 0 /\ n <= MaxPrints
BY PrintingAssumption DEF Calls, Services

\* Part of each handler: only what the scripts are told changes.
LEMMA DispatchWillPrintTyped ==
  ASSUME NEW p \in PrintFields, NEW c \in Calls
  PROVE  DispatchWillPrint(p, c) \in PrintFields
<1>1. \A w \in {"queued", "asked", "done"} :
        [p.will EXCEPT ![c] = w] \in [Calls -> {"none", "queued", "asked", "done"}]
  BY FieldTypes
<1>2. Append(p.queued, c) \in Seq(Calls) /\ Append(p.heard, c) \in Seq(Calls) /\ c \in Services
  BY FieldTypes, Numbers
<1>3. (p.crowded \/ p.queued # <<>>) \in BOOLEAN
  OBVIOUS
<1>4. CASE ~p.scripting
  <2>1. [p EXCEPT !.will[c] = "done"] \in PrintFields
    BY <1>1 DEF PrintFields
  <2> QED BY <2>1, <1>4 DEF DispatchWillPrint
<1>5. CASE p.scripting /\ p.capability # 0
  <2>1. [p EXCEPT !.will[c] = "queued", !.queued = Append(@, c), !.crowded = @ \/ p.queued # <<>>] \in PrintFields
    BY <1>1, <1>2, <1>3 DEF PrintFields
  <2> QED BY <2>1, <1>5 DEF DispatchWillPrint
<1>6. CASE p.scripting /\ p.capability = 0
  <2>1. [p EXCEPT !.will[c] = "asked", !.capability = c, !.heard = Append(@, c)] \in PrintFields
    BY <1>1, <1>2 DEF PrintFields
  <2> QED BY <2>1, <1>6 DEF DispatchWillPrint
<1> QED BY <1>4, <1>5, <1>6

LEMMA DispatchWillPrintLeaves ==
  ASSUME NEW p \in PrintFields, NEW c \in Calls
  PROVE  LET q == DispatchWillPrint(p, c)
         IN  /\ q.service = p.service /\ q.appService = p.appService /\ q.jobs = p.jobs
             /\ q.calls = p.calls /\ q.container = p.container /\ q.queuePrinting = p.queuePrinting
             /\ q.dialog = p.dialog /\ q.closeEvents = p.closeEvents /\ q.printed = p.printed
             /\ q.scripting = p.scripting /\ q.answered = p.answered
             /\ \A d \in Calls \ {c} : q.will[d] = p.will[d]
BY DEF DispatchWillPrint, PrintFields

LEMMA DispatchWillPrintInTurn ==
  ASSUME NEW p \in PrintFields, NEW c \in Calls, c <= p.calls, InTurn(p),
         p.scripting /\ ~p.crowded => p.will[c] = "none"
  PROVE  InTurn(DispatchWillPrint(p, c))
<1> DEFINE q == DispatchWillPrint(p, c)
<1> SUFFICES ASSUME q.scripting, ~q.crowded PROVE InTurn(q)
  BY DEF InTurn
<1>1. p.scripting
  BY DispatchWillPrintLeaves
<1>2. ~p.crowded /\ (p.capability # 0 => p.queued = <<>>)
  BY <1>1 DEF DispatchWillPrint, PrintFields
<1>3. c # 0 /\ \A d : <<d>> # <<>>
  BY Numbers
<1>4. CASE p.capability = 0
  <2>1. /\ q.will = [p.will EXCEPT ![c] = "asked"] /\ q.capability = c
        /\ q.heard = Append(p.heard, c) /\ q.queued = p.queued /\ q.answered = p.answered
    BY <1>1, <1>4 DEF DispatchWillPrint, PrintFields
  <2>2. p.heard = <<>> /\ p.queued = <<>>
    BY <1>1, <1>2, <1>4 DEF InTurn
  <2>3. q.heard = <<c>> /\ q.queued = <<>>
    BY <2>1, <2>2
  <2>4. \A d \in Calls : p.will[d] # "asked" /\ p.will[d] # "queued"
                           /\ (p.will[d] = "done" => d \in p.answered)
                           /\ (d > p.calls => p.will[d] = "none")
    BY <1>1, <1>2, <1>3, <1>4, <2>2, Numbers DEF InTurn
  <2>5. \A d \in Calls : q.will[d] = IF d = c THEN "asked" ELSE p.will[d]
    BY <2>1, FieldTypes
  <2>6. q.calls = p.calls /\ \A d \in Calls : d > p.calls => d # c
    BY DispatchWillPrintLeaves, FieldTypes, Numbers
  <2> QED BY <2>1, <2>3, <2>4, <2>5, <2>6, <1>3 DEF InTurn
<1>5. CASE p.capability # 0
  <2>1. /\ q.will = [p.will EXCEPT ![c] = "queued"] /\ q.capability = p.capability
        /\ q.heard = p.heard /\ q.queued = Append(p.queued, c) /\ q.answered = p.answered
    BY <1>1, <1>5 DEF DispatchWillPrint, PrintFields
  <2>2. p.queued = <<>> /\ p.heard = <<p.capability>>
    BY <1>1, <1>2, <1>5 DEF InTurn
  <2>3. q.queued = <<c>>
    BY <2>1, <2>2
  <2>4. \A d \in Calls : /\ p.will[d] = "asked" <=> d = p.capability
                         /\ p.will[d] # "queued"
                         /\ p.will[d] = "done" => d \in p.answered
                         /\ d > p.calls => p.will[d] = "none"
    BY <1>1, <1>2, <1>3, <2>2 DEF InTurn
  <2>5. \A d \in Calls : q.will[d] = IF d = c THEN "queued" ELSE p.will[d]
    BY <2>1, FieldTypes
  <2>6. c # p.capability /\ c <= p.calls /\ \A d : <<c>> = <<d>> <=> d = c
    BY <1>1, <1>2, <2>4
  <2>7. q.calls = p.calls /\ \A d \in Calls : d > p.calls => d # c
    BY DispatchWillPrintLeaves, FieldTypes, Numbers
  <2> QED BY <2>1, <2>2, <2>3, <2>4, <2>5, <2>6, <2>7, <1>3, <1>5 DEF InTurn
<1> QED BY <1>4, <1>5

\* The capability is resolved.
LEMMA ResolveTyped ==
  ASSUME NEW p \in PrintFields
  PROVE  ResolveCapability(p) \in PrintFields
<1> DEFINE w == [c \in Calls |-> CASE c = p.capability -> "done"
                                   [] p.will[c] = "queued" -> "asked"
                                   [] OTHER -> p.will[c]]
           last == IF p.queued = <<>> THEN 0 ELSE p.queued[Len(p.queued)]
<1>1. w \in [Calls -> {"none", "queued", "asked", "done"}]
  BY FieldTypes
<1>2. last \in Services
  <2>1. p.queued \in Seq(Calls)
    BY FieldTypes
  <2>2. p.queued # <<>> => p.queued[Len(p.queued)] \in Calls
    BY <2>1
  <2> QED BY <2>2, Numbers
<1>3. p.heard \o p.queued \in Seq(Calls) /\ <<>> \in Seq(Calls)
  BY FieldTypes
<1>4. ResolveCapability(p) = [p EXCEPT !.will = w, !.capability = last,
                                       !.heard = p.heard \o p.queued, !.queued = <<>>]
  BY DEF ResolveCapability
<1> HIDE DEF w, last
<1> QED BY ZenonT(60), <1>1, <1>2, <1>3, <1>4 DEF PrintFields

LEMMA ResolveLeaves ==
  ASSUME NEW p \in PrintFields
  PROVE  LET q == ResolveCapability(p)
         IN  /\ q.service = p.service /\ q.appService = p.appService /\ q.jobs = p.jobs
             /\ q.calls = p.calls /\ q.container = p.container /\ q.queuePrinting = p.queuePrinting
             /\ q.dialog = p.dialog /\ q.closeEvents = p.closeEvents /\ q.printed = p.printed
             /\ q.scripting = p.scripting /\ q.answered = p.answered /\ q.crowded = p.crowded
             /\ q.heard = p.heard \o p.queued /\ q.queued = <<>>
             /\ q.capability = IF p.queued = <<>> THEN 0 ELSE p.queued[Len(p.queued)]
             /\ \A c \in Calls : q.will[c] = CASE c = p.capability -> "done"
                                               [] p.will[c] = "queued" -> "asked"
                                               [] OTHER -> p.will[c]
BY DEF ResolveCapability, PrintFields

LEMMA WillPrintFinishedSound == PrintingInv /\ WillPrintFinished => PrintingInv'
<1> SUFFICES ASSUME PrintingInv, WillPrintFinished PROVE PrintingInv'
  OBVIOUS
<1> DEFINE p == [print EXCEPT !.heard = Tail(@), !.answered = @ \cup {Head(print.heard)}]
<1>0. print \in PrintFields /\ JobsBelong(print) /\ OneThing(print) /\ Whole(print) /\ InTurn(print)
  BY DEF PrintingInv, Sound
<1>1. print.heard \in Seq(Calls) /\ print.heard # <<>> /\ Head(print.heard) \in Calls
      /\ Tail(print.heard) \in Seq(Calls)
  BY <1>0, FieldTypes DEF WillPrintFinished
<1>2. p \in PrintFields
  BY <1>0, <1>1 DEF PrintFields
<1>3. /\ p.service = print.service /\ p.appService = print.appService /\ p.jobs = print.jobs
      /\ p.calls = print.calls /\ p.container = print.container
      /\ p.queuePrinting = print.queuePrinting /\ p.dialog = print.dialog
      /\ p.closeEvents = print.closeEvents /\ p.printed = print.printed
      /\ p.scripting = print.scripting /\ p.crowded = print.crowded
      /\ p.will = print.will /\ p.capability = print.capability /\ p.queued = print.queued
      /\ p.heard = Tail(print.heard) /\ p.answered = print.answered \cup {Head(print.heard)}
  BY <1>0 DEF PrintFields
<1>4. print' = IF p.capability = 0 THEN p ELSE ResolveCapability(p)
  BY DEF WillPrintFinished
<1> HIDE DEF p
<1>5. CASE p.capability = 0
  <2>1. InTurn(p)
    BY <1>0, <1>1, <1>3, <1>5 DEF InTurn
  <2>2. JobsBelong(p) /\ OneThing(p) /\ Whole(p)
    BY <1>0, <1>3 DEF JobsBelong, OneThing, Agree, Whole
  <2> QED BY <1>2, <1>4, <1>5, <2>1, <2>2 DEF PrintingInv, Sound
<1>6. CASE p.capability # 0
  <2> DEFINE q == ResolveCapability(p)
  <2>1. q \in PrintFields
    BY <1>2, ResolveTyped
  <2>2. /\ q.service = print.service /\ q.appService = print.appService /\ q.jobs = print.jobs
        /\ q.calls = print.calls /\ q.container = print.container
        /\ q.queuePrinting = print.queuePrinting /\ q.dialog = print.dialog
        /\ q.closeEvents = print.closeEvents /\ q.printed = print.printed
        /\ q.scripting = print.scripting /\ q.answered = p.answered /\ q.crowded = print.crowded
        /\ q.heard = p.heard \o p.queued /\ q.queued = <<>>
        /\ q.capability = IF p.queued = <<>> THEN 0 ELSE p.queued[Len(p.queued)]
        /\ \A c \in Calls : q.will[c] = CASE c = p.capability -> "done"
                                          [] p.will[c] = "queued" -> "asked"
                                          [] OTHER -> p.will[c]
    BY <1>2, <1>3, ResolveLeaves
  <2> HIDE DEF q
  <2>3. OneThing(q) /\ Whole(q)
    BY <1>0, <2>2 DEF OneThing, Agree, Whole
  <2>4. \A c \in Calls : print.will[c] = "done" => q.will[c] = "done"
    BY <1>3, <2>2
  <2>5. \A j \in print.jobs : j.service \in Calls
    BY <1>0, FieldTypes
  <2>6. JobsBelong(q)
    BY <1>0, <2>2, <2>4, <2>5 DEF JobsBelong
  <2>7. InTurn(q)
    <3> SUFFICES ASSUME print.scripting, ~print.crowded PROVE InTurn(q)
      BY <2>2 DEF InTurn
    <3>1. /\ print.heard = <<print.capability>> /\ print.capability \in Calls
          /\ p.heard = <<>> /\ p.answered = print.answered \cup {print.capability}
      <4>1. print.heard = <<print.capability>> /\ print.capability \in Calls
        BY <1>0, <1>3, <1>6, FieldTypes, Numbers DEF InTurn
      <4>2. Head(print.heard) = print.capability /\ Tail(print.heard) = <<>>
        BY <4>1
      <4> QED BY <4>1, <4>2, <1>3
    <3>2. \A c \in Calls : /\ print.will[c] = "asked" <=> c = print.capability
                           /\ print.will[c] = "queued" <=> print.queued = <<c>>
                           /\ print.will[c] = "done" => c \in print.answered
                           /\ c > print.calls => print.will[c] = "none"
      BY <1>0 DEF InTurn
    <3>3. CASE print.queued = <<>>
      <4>1. q.heard = <<>> /\ q.capability = 0 /\ \A c : <<c>> # <<>>
        BY <2>2, <1>3, <3>1, <3>3
      <4>2. \A c \in Calls : c # 0 /\ print.will[c] # "queued"
        BY <3>2, <3>3, <4>1, Numbers
      <4> QED BY <4>1, <4>2, <3>1, <3>2, <2>2, <1>3 DEF InTurn
    <3>4. CASE print.queued # <<>>
      <4>1. PICK d \in Calls : print.queued = <<d>>
        BY <1>0, <3>4 DEF InTurn
      <4>2. q.heard = <<d>> /\ q.capability = d /\ d # 0 /\ \A c : <<c>> # <<>>
        BY <2>2, <1>3, <3>1, <4>1, Numbers
      <4>3. \A c \in Calls : print.will[c] = "queued" <=> c = d
        BY <3>2, <4>1
      <4>4. \A c \in Calls : q.will[c] = CASE c = print.capability -> "done"
                                           [] c = d -> "asked"
                                           [] OTHER -> print.will[c]
        BY <2>2, <1>3, <4>3
      <4>5. d # print.capability
        BY <3>2, <4>3
      <4> QED BY <4>2, <4>3, <4>4, <4>5, <3>1, <3>2, <2>2, <1>3 DEF InTurn
    <3> QED BY <3>3, <3>4
  <2>8. print' = q
    BY <1>4, <1>6 DEF q
  <2> QED BY <2>1, <2>3, <2>6, <2>7, <2>8 DEF PrintingInv, Sound
<1> QED BY <1>5, <1>6

LEMMA DestroyScriptingSound == PrintingInv /\ DestroyScripting => PrintingInv'
<1> SUFFICES ASSUME PrintingInv, DestroyScripting PROVE PrintingInv'
  OBVIOUS
<1>0. print \in PrintFields /\ JobsBelong(print) /\ OneThing(print) /\ Whole(print)
  BY DEF PrintingInv, Sound
<1> DEFINE w == [c \in Calls |-> IF c = print.capability \/ print.will[c] = "queued"
                                   THEN "done" ELSE print.will[c]]
<1>1. w \in [Calls -> {"none", "queued", "asked", "done"}]
  BY <1>0, FieldTypes
<1>2. \A j \in print.jobs : j.service \in Calls
  BY <1>0, FieldTypes
<1>3. \A c \in Calls : print.will[c] = "done" => w[c] = "done"
  OBVIOUS
<1>4. print' = [print EXCEPT !.scripting = FALSE, !.heard = <<>>, !.queued = <<>>,
                             !.capability = 0, !.will = w]
  BY DEF DestroyScripting
<1> HIDE DEF w
<1>5. print' \in PrintFields
  <2>1. <<>> \in Seq(Calls) /\ 0 \in Services
    BY Numbers
  <2> QED BY <1>0, <1>1, <1>4, <2>1 DEF PrintFields
<1>6. /\ print'.service = print.service /\ print'.appService = print.appService
      /\ print'.jobs = print.jobs /\ print'.calls = print.calls
      /\ print'.container = print.container /\ print'.queuePrinting = print.queuePrinting
      /\ print'.dialog = print.dialog /\ print'.closeEvents = print.closeEvents
      /\ print'.printed = print.printed /\ ~print'.scripting /\ print'.will = w
  BY <1>0, <1>4 DEF PrintFields
<1>7. JobsBelong(print')
  BY <1>0, <1>2, <1>3, <1>6 DEF JobsBelong
<1>8. OneThing(print') /\ Whole(print') /\ InTurn(print')
  BY <1>0, <1>6 DEF OneThing, Agree, Whole, InTurn
<1> QED BY <1>5, <1>7, <1>8 DEF PrintingInv, Sound

\* What is not of the scripts leaves their turns alone.
LEMMA DidPrintSound == PrintingInv /\ DidPrint => PrintingInv'
<1> SUFFICES ASSUME PrintingInv, NEW c \in print.did, print' = [print EXCEPT !.did = @ \ {c}]
             PROVE  PrintingInv'
  BY DEF DidPrint
<1>1. print \in PrintFields
  BY DEF PrintingInv, Sound
<1>2. print' \in PrintFields
  BY <1>1 DEF PrintFields
<1>3. JobsBelong(print') /\ OneThing(print') /\ Whole(print') /\ InTurn(print')
  BY <1>1 DEF PrintFields, PrintingInv, Sound, JobsBelong, OneThing, Agree, Whole, InTurn
<1> QED BY <1>2, <1>3 DEF PrintingInv, Sound

---------------------------------------------------------------------------
(***************************************************************************)
(* What begins and ends a job                                              *)
(***************************************************************************)
LEMMA AbortJobSound ==
  ASSUME NEW p \in PrintFields, JobsBelong(p), Agree(p), Whole(p), InTurn(p)
  PROVE  Sound(AbortJob(p))
<1> DEFINE q == AbortJob(p)
           events == IF p.dialog THEN Append(p.closeEvents, p.service) ELSE p.closeEvents
           did == p.did \cup ({p.promise} \ {0})
<1>1. CASE p.service = 0
  BY <1>1 DEF AbortJob, Sound, OneThing
<1>2. CASE p.service # 0
  <2>1. events \in Seq(Calls) /\ did \in SUBSET Calls /\ <<>> \in Seq(Images) /\ 0 \in Services
    <3>1. p.service \in Calls /\ p.closeEvents \in Seq(Calls)
      BY <1>2, FieldTypes, Numbers
    <3>2. Append(p.closeEvents, p.service) \in Seq(Calls)
      BY <3>1
    <3>3. did \in SUBSET Calls /\ 0 \in Services
      BY FieldTypes, Numbers
    <3> QED BY <3>1, <3>2, <3>3
  <2>2. q = [p EXCEPT !.service = 0, !.container = <<>>, !.dialog = FALSE,
                      !.closeEvents = events, !.did = did, !.promise = 0, !.appService = 0,
                      !.queuePrinting = FALSE]
    BY <1>2 DEF AbortJob, AfterPrint, DestroyService, ForceRendering, PrintFields, Agree
  <2> HIDE DEF q, events, did
  <2>3. q \in PrintFields
    BY <2>1, <2>2 DEF PrintFields
  <2>4. /\ q.service = 0 /\ q.appService = 0 /\ ~q.queuePrinting /\ ~q.dialog
        /\ q.container = <<>> /\ q.calls = p.calls /\ q.jobs = p.jobs /\ q.will = p.will
        /\ q.printed = p.printed /\ q.scripting = p.scripting /\ q.crowded = p.crowded
        /\ q.heard = p.heard /\ q.capability = p.capability /\ q.queued = p.queued
        /\ q.answered = p.answered
    BY <2>2 DEF PrintFields
  <2>5. JobsBelong(q)
    <3>1. \A j \in p.jobs : j.service # 0
      BY FieldTypes, Numbers
    <3>2. p.calls \in Nat
      BY FieldTypes, Numbers
    <3> QED BY <2>4, <3>1, <3>2 DEF JobsBelong
  <2>6. OneThing(q) /\ Whole(q) /\ InTurn(q)
    BY <2>4 DEF OneThing, Agree, Whole, InTurn
  <2> QED BY <2>3, <2>5, <2>6 DEF Sound, q
<1> QED BY <1>1, <1>2

LEMMA WindowPrintSound == PrintingInv /\ WindowPrint => PrintingInv'
<1> SUFFICES ASSUME PrintingInv, WindowPrint PROVE PrintingInv'
  OBVIOUS
<1>0. /\ print \in PrintFields /\ JobsBelong(print) /\ OneThing(print) /\ Whole(print)
      /\ InTurn(print)
  BY DEF PrintingInv, Sound
<1> DEFINE c == print.calls + 1
           r == [print EXCEPT !.calls = c]
           d == DispatchWillPrint(r, c)
           q == [d EXCEPT !.promise = c]
<1>1. print.service = 0 /\ print.calls < MaxPrints
  BY DEF WindowPrint
<1>2. c \in Calls /\ c \in Services /\ c # 0 /\ print.calls \in Nat
  <2>1. print.calls \in Services
    BY <1>0, FieldTypes
  <2>2. print.calls \in Nat
    BY <2>1, Numbers
  <2>3. c \in Nat /\ c # 0 /\ c <= MaxPrints
    BY <1>1, <2>2, Numbers
  <2> QED BY <2>2, <2>3, Numbers
<1>3. r \in PrintFields
  BY <1>0, <1>2 DEF PrintFields
<1>4. /\ r.service = 0 /\ r.appService = 0 /\ r.jobs = print.jobs /\ r.calls = c
      /\ r.container = <<>> /\ ~r.queuePrinting /\ ~r.dialog
      /\ r.closeEvents = print.closeEvents /\ r.printed = print.printed
      /\ r.will = print.will /\ r.crowded = print.crowded /\ r.scripting = print.scripting
  BY <1>0, <1>1 DEF PrintFields, OneThing, Agree, JobsBelong
<1>5. InTurn(r)
  <2>1. /\ r.heard = print.heard /\ r.queued = print.queued
        /\ r.capability = print.capability /\ r.answered = print.answered
    BY <1>0 DEF PrintFields
  <2>2. \A e \in Calls : e > r.calls => e > print.calls
    BY <1>2, <1>4, Numbers
  <2> QED BY <1>0, <1>4, <2>1, <2>2 DEF InTurn
<1>6. r.scripting /\ ~r.crowded => r.will[c] = "none"
  BY <1>0, <1>2, <1>4 DEF InTurn
<1> HIDE DEF r
<1>7. d \in PrintFields /\ InTurn(d)
  BY <1>2, <1>3, <1>4, <1>5, <1>6, DispatchWillPrintTyped, DispatchWillPrintInTurn
<1>8. /\ d.service = 0 /\ d.appService = 0 /\ d.jobs = print.jobs /\ d.calls = c
      /\ d.container = <<>> /\ ~d.queuePrinting /\ ~d.dialog
      /\ d.closeEvents = print.closeEvents /\ d.printed = print.printed
      /\ \A e \in Calls \ {c} : d.will[e] = print.will[e]
  BY <1>2, <1>3, <1>4, DispatchWillPrintLeaves
<1> HIDE DEF d
<1>9. \A j \in print.jobs : j.service \in Calls /\ j.service <= print.calls
  BY <1>0, FieldTypes DEF JobsBelong
<1>10. JobsBelong(d)
  <2>1. \A j \in print.jobs : j.service # c /\ j.service # 0 /\ j.service <= c
    BY <1>2, <1>9, Numbers
  <2>2. \A j \in print.jobs : d.will[j.service] = print.will[j.service]
    BY <1>8, <1>9, <2>1
  <2>3. 0 <= c
    BY <1>2
  <2> HIDE DEF c
  <2> QED BY <1>0, <1>8, <2>1, <2>2, <2>3 DEF JobsBelong
<1> DEFINE job == [service |-> c, page |-> 0, at |-> "page"]
           z == [d EXCEPT !.promise = c, !.service = c, !.appService = c, !.queuePrinting = TRUE,
                          !.dialog = TRUE, !.jobs = @ \cup {job}]
<1>11. print' = q \/ print' = z
  <2>1. PICK ready \in BOOLEAN :
          print' = IF BeforePrint(r, c, ready).service = 0 THEN BeforePrint(r, c, ready)
                   ELSE [BeforePrint(r, c, ready) EXCEPT !.dialog = TRUE, !.jobs = @ \cup {job}]
    BY DEF WindowPrint, r
  <2>2. q.appService = 0 /\ q.service = 0
    BY <1>7, <1>8 DEF PrintFields
  <2>3. CASE ~ready
    <3>1. BeforePrint(r, c, ready) = q
      BY <2>3 DEF BeforePrint, d
    <3> QED BY <2>1, <2>2, <3>1
  <2>4. CASE ready
    <3>1. BeforePrint(r, c, ready) = ForceRendering([q EXCEPT !.service = c, !.appService = c])
      BY <2>2, <2>4, <1>4 DEF BeforePrint, d
    <3>2. @ = [d EXCEPT !.promise = c, !.service = c, !.appService = c, !.queuePrinting = TRUE]
      BY <1>2, <1>7 DEF ForceRendering, PrintFields
    <3> DEFINE b == [d EXCEPT !.promise = c, !.service = c, !.appService = c, !.queuePrinting = TRUE]
    <3>3. b.service = c
      BY <1>7 DEF PrintFields
    <3>4. BeforePrint(r, c, ready) = b
      BY <3>1, <3>2
    <3>5. [b EXCEPT !.dialog = TRUE, !.jobs = @ \cup {job}] = z
      BY <1>7 DEF PrintFields
    <3> HIDE DEF b, z, job
    <3>6. print' = [b EXCEPT !.dialog = TRUE, !.jobs = @ \cup {job}]
      BY <2>1, <3>3, <3>4, <1>2
    <3> QED BY <3>5, <3>6
  <2> QED BY <2>3, <2>4
<1>12. CASE print' = q
  <2>1. q \in PrintFields
    BY <1>2, <1>7 DEF PrintFields
  <2>2. /\ JobsBelong(q) /\ OneThing(q) /\ Whole(q) /\ InTurn(q)
    BY <1>0, <1>7, <1>8, <1>10 DEF PrintFields, JobsBelong, OneThing, Agree, Whole, InTurn
  <2> QED BY <1>12, <2>1, <2>2 DEF PrintingInv, Sound
<1>13. CASE print' = z
  <2>1. job \in [service : Calls, page : 0..PrintPages, at : {"page", "image", "print", "end"}]
    BY <1>2, Numbers
  <2> HIDE DEF job
  <2>2. z \in PrintFields
    BY <1>2, <1>7, <2>1 DEF PrintFields
  <2>3. /\ z.service = c /\ z.appService = c /\ z.queuePrinting /\ z.dialog
        /\ z.jobs = print.jobs \cup {job} /\ z.calls = c /\ z.container = <<>>
        /\ z.printed = print.printed /\ z.will = d.will /\ z.scripting = d.scripting
        /\ z.crowded = d.crowded /\ z.heard = d.heard /\ z.queued = d.queued
        /\ z.capability = d.capability /\ z.answered = d.answered
    BY <1>7, <1>8 DEF PrintFields
  <2> HIDE DEF z
  <2>4. OneThing(z) /\ Whole(z) /\ InTurn(z)
    BY <1>0, <1>2, <1>7, <1>8, <2>3 DEF OneThing, Agree, Whole, InTurn
  <2>5. job.service = c /\ job.page = 0 /\ job.at = "page" /\ Upto(c, PagesOf(job)) = <<>>
    BY UptoNone DEF job, PagesOf
  <2>6. \A j \in print.jobs : j.service # c
    BY <1>2, <1>9, Numbers
  <2>7. JobsBelong(z)
    <3> SUFFICES ASSUME NEW j \in z.jobs
                 PROVE  /\ j.service <= c
                        /\ IF j.at \in {"page", "image"} THEN j.page < PrintPages ELSE j.page = PrintPages
                        /\ j.service = c => z.container = Upto(j.service, PagesOf(j))
                        /\ j.at # "page" => z.will[j.service] = "done"
                        /\ \A k \in z.jobs : j.service = k.service => j = k
      BY <1>2, <2>3 DEF JobsBelong
    <3>1. CASE j = job
      BY <1>2, <2>3, <2>5, <2>6, <3>1, Numbers
    <3>2. CASE j \in print.jobs
      <4>1. j.service <= c /\ j.service # c /\ \A k \in z.jobs : j.service = k.service => j = k
        BY <1>0, <1>2, <1>9, <2>3, <2>5, <2>6, <3>2, Numbers DEF JobsBelong
      <4>2. d.will[j.service] = print.will[j.service]
        BY <1>8, <1>9, <2>6, <3>2
      <4> QED BY <1>0, <2>3, <3>2, <4>1, <4>2 DEF JobsBelong
    <3> QED BY <2>3, <3>1, <3>2
  <2> QED BY <1>13, <2>2, <2>4, <2>7 DEF PrintingInv, Sound
<1> QED BY <1>11, <1>12, <1>13

---------------------------------------------------------------------------
(***************************************************************************)
(* What a job does                                                         *)
(***************************************************************************)
\* A job that goes on, or one that comes to nothing.
LEMMA WithoutJobSound ==
  ASSUME NEW p, Sound(p), NEW j \in p.jobs
  PROVE  Sound([p EXCEPT !.jobs = @ \ {j}])
<1> DEFINE q == [p EXCEPT !.jobs = @ \ {j}]
<1>0. p \in PrintFields /\ JobsBelong(p) /\ OneThing(p) /\ Whole(p) /\ InTurn(p)
  BY DEF Sound
<1>1. q \in PrintFields
  BY <1>0 DEF PrintFields
<1>2. /\ q.service = p.service /\ q.appService = p.appService
      /\ q.queuePrinting = p.queuePrinting /\ q.dialog = p.dialog
      /\ q.closeEvents = p.closeEvents
      /\ q.container = p.container /\ q.calls = p.calls /\ q.jobs = p.jobs \ {j} /\ q.will = p.will
      /\ q.printed = p.printed /\ q.scripting = p.scripting /\ q.crowded = p.crowded
      /\ q.heard = p.heard /\ q.capability = p.capability /\ q.queued = p.queued
      /\ q.answered = p.answered
  BY <1>0 DEF PrintFields
<1> HIDE DEF q
<1>3. JobsBelong(q)
  BY <1>0, <1>2 DEF JobsBelong
<1>4. OneThing(q) /\ Whole(q) /\ InTurn(q)
  BY <1>0, <1>2 DEF OneThing, Agree, Whole, InTurn
<1> QED BY <1>1, <1>3, <1>4 DEF Sound, q

\* The job j of the present service becomes k, with the images that k needs.
Advances(p, j, k, images, printed, q) ==
  /\ Sound(p) /\ j \in p.jobs /\ j.service = k.service /\ j.service = p.service
  /\ k \in [service : Calls, page : 0..PrintPages, at : {"page", "image", "print", "end"}]
  /\ images \in Seq(Images) /\ printed \in Seq(Images)
  /\ IF k.at \in {"page", "image"} THEN k.page < PrintPages ELSE k.page = PrintPages
  /\ p.will[j.service] = "done"
  /\ images = Upto(k.service, PagesOf(k))
  /\ printed = p.printed \/ printed = Upto(k.service, PrintPages)
  /\ q = [p EXCEPT !.jobs = (@ \ {j}) \cup {k}, !.container = images, !.printed = printed]

LEMMA StepSound ==
  ASSUME NEW p, NEW j, NEW k, NEW images, NEW printed, NEW q, Advances(p, j, k, images, printed, q)
  PROVE  Sound(q)
<1> USE DEF Advances
<1>0. p \in PrintFields /\ JobsBelong(p) /\ OneThing(p) /\ Whole(p) /\ InTurn(p)
  BY DEF Sound
<1>1. q \in PrintFields
  BY <1>0 DEF PrintFields
<1>2. /\ q.service = p.service /\ q.appService = p.appService
      /\ q.queuePrinting = p.queuePrinting /\ q.dialog = p.dialog
      /\ q.closeEvents = p.closeEvents /\ q.container = images /\ q.calls = p.calls
      /\ q.jobs = (p.jobs \ {j}) \cup {k} /\ q.will = p.will
      /\ q.printed = printed /\ q.scripting = p.scripting /\ q.crowded = p.crowded
      /\ q.heard = p.heard /\ q.capability = p.capability /\ q.queued = p.queued
      /\ q.answered = p.answered
  BY <1>0 DEF PrintFields
<1>3. \A i \in p.jobs \ {j} : i.service # k.service /\ i.service # q.service
  BY <1>0, <1>2 DEF JobsBelong
<1>4. JobsBelong(q)
  <2>1. q.service <= q.calls /\ k.service <= q.calls /\ (q.service = 0 => FALSE)
    <3>1. q.service <= q.calls
      BY <1>0, <1>2 DEF JobsBelong
    <3>2. k.service # 0
      BY Numbers
    <3> QED BY <1>2, <3>1, <3>2
  <2>2. \A i \in p.jobs \ {j} :
          /\ i.service <= q.calls
          /\ IF i.at \in {"page", "image"} THEN i.page < PrintPages ELSE i.page = PrintPages
          /\ i.at # "page" => q.will[i.service] = "done"
          /\ \A h \in p.jobs \ {j} : i.service = h.service => i = h
    BY <1>0, <1>2 DEF JobsBelong
  <2>3. SUFFICES ASSUME NEW i \in q.jobs
                 PROVE  /\ i.service <= q.calls
                        /\ IF i.at \in {"page", "image"} THEN i.page < PrintPages ELSE i.page = PrintPages
                        /\ i.service = q.service => q.container = Upto(i.service, PagesOf(i))
                        /\ i.at # "page" => q.will[i.service] = "done"
                        /\ \A h \in q.jobs : i.service = h.service => i = h
    BY <2>1 DEF JobsBelong
  <2>4. CASE i = k
    BY <1>2, <1>3, <2>1, <2>4
  <2>5. CASE i \in p.jobs \ {j}
    BY <1>2, <1>3, <2>2, <2>5
  <2> QED BY <1>2, <2>4, <2>5
<1>5. OneThing(q) /\ InTurn(q)
  BY <1>0, <1>2 DEF OneThing, Agree, InTurn
<1>6. Whole(q)
  <2>1. k.service \in Calls
    OBVIOUS
  <2>2. CASE printed = p.printed
    BY <1>0, <1>2, <2>2 DEF Whole
  <2>3. CASE printed = Upto(k.service, PrintPages)
    BY <1>2, <2>1, <2>3 DEF Whole
  <2> QED BY <2>2, <2>3
<1> QED BY <1>1, <1>4, <1>5, <1>6 DEF Sound

LEMMA JobTypes ==
  ASSUME PrintingInv, NEW j \in print.jobs
  PROVE  /\ j \in [service : Calls, page : 0..PrintPages, at : {"page", "image", "print", "end"}]
         /\ j.service \in Calls /\ j.page \in Nat
         /\ IF j.at \in {"page", "image"} THEN j.page < PrintPages ELSE j.page = PrintPages
         /\ j.service = print.service => print.container = Upto(j.service, PagesOf(j))
         /\ j.at # "page" => print.will[j.service] = "done"
         /\ print \in PrintFields
BY FieldTypes, Numbers DEF PrintingInv, Sound, JobsBelong

LEMMA PageDrawnSound == PrintingInv /\ PageDrawn => PrintingInv'
<1> SUFFICES ASSUME PrintingInv, NEW j \in print.jobs, j.at = "page",
                    print.will[j.service] = "done", print' = UseRenderedPage(WithoutJob(j), j)
             PROVE  PrintingInv'
  BY DEF PageDrawn
<1>1. Sound(WithoutJob(j))
  BY WithoutJobSound DEF PrintingInv, WithoutJob
<1>2. print \in PrintFields /\ WithoutJob(j).service = print.service
  BY JobTypes DEF WithoutJob, PrintFields
<1>3. CASE print.service # j.service
  BY <1>1, <1>2, <1>3 DEF UseRenderedPage, PrintingInv
<1>4. CASE print.service = j.service
  <2> DEFINE k == [j EXCEPT !.at = "image"]
             images == Append(print.container, <<j.service, j.page + 1>>)
  <2>1. print' = [print EXCEPT !.jobs = (@ \ {j}) \cup {k}, !.container = images, !.printed = print.printed]
    BY <1>2, <1>4 DEF UseRenderedPage, Continue, WithoutJob, PrintFields
  <2>2. /\ k \in [service : Calls, page : 0..PrintPages, at : {"page", "image", "print", "end"}]
        /\ k.service = j.service /\ k.page = j.page /\ k.at = "image" /\ j.page < PrintPages
    BY JobTypes
  <2>3. print.container = Upto(j.service, j.page)
    BY <1>4, JobTypes DEF PagesOf
  <2>4. images = Upto(k.service, PagesOf(k))
    BY <2>2, <2>3, UptoNext, JobTypes DEF PagesOf
  <2>5. images \in Seq(Images)
    <3>1. <<j.service, j.page + 1>> \in Images
      BY JobTypes, <2>2, Numbers DEF Images
    <3> QED BY <3>1, FieldTypes, <1>2
  <2>6. print.printed \in Seq(Images)
    BY FieldTypes, <1>2
  <2> HIDE DEF k, images
  <2>7. Sound(print) /\ k.at \in {"page", "image"} /\ k.page < PrintPages
    BY <2>2 DEF PrintingInv
  <2>8. Advances(print, j, k, images, print.printed, print')
    BY <1>4, <2>1, <2>2, <2>4, <2>5, <2>6, <2>7 DEF Advances
  <2>9. Sound(print')
    BY <2>8, StepSound
  <2> QED BY <2>9 DEF PrintingInv
<1> QED BY <1>3, <1>4

LEMMA ImageLoadedSound == PrintingInv /\ ImageLoaded => PrintingInv'
<1> SUFFICES ASSUME PrintingInv, NEW j \in print.jobs, j.at = "image",
                    print' = RenderNextPage(WithoutJob(j), j)
             PROVE  PrintingInv'
  BY DEF ImageLoaded
<1>1. Sound(WithoutJob(j))
  BY WithoutJobSound DEF PrintingInv, WithoutJob
<1>2. print \in PrintFields /\ WithoutJob(j).service = print.service
  BY JobTypes DEF WithoutJob, PrintFields
<1>3. CASE print.service # j.service
  BY <1>1, <1>2, <1>3 DEF RenderNextPage, PrintingInv
<1>4. CASE print.service = j.service
  <2> DEFINE n == j.page + 1
             k == [j EXCEPT !.page = n, !.at = IF n < PrintPages THEN "page" ELSE "print"]
  <2>1. j.page \in Nat /\ j.page < PrintPages /\ j.at = "image"
    BY JobTypes
  <2>2. /\ k \in [service : Calls, page : 0..PrintPages, at : {"page", "image", "print", "end"}]
        /\ k.service = j.service /\ k.page = n
        /\ k.at = IF n < PrintPages THEN "page" ELSE "print"
    <3>1. n \in 0..PrintPages
      BY <2>1, Numbers
    <3> QED BY <2>1, <3>1, JobTypes
  <2>3. print' = [print EXCEPT !.jobs = (@ \ {j}) \cup {k}, !.container = print.container, !.printed = print.printed]
    BY <1>2, <1>4, JobTypes DEF RenderNextPage, Continue, WithoutJob, PrintFields
  <2>4. print.container = Upto(k.service, PagesOf(k))
    BY <1>4, <2>1, <2>2, JobTypes, Numbers DEF PagesOf
  <2>5. print.container \in Seq(Images) /\ print.printed \in Seq(Images)
    BY <1>2, FieldTypes
  <2>6. IF k.at \in {"page", "image"} THEN k.page < PrintPages ELSE k.page = PrintPages
    BY <2>1, <2>2, Numbers
  <2>7. print.will[j.service] = "done"
    BY JobTypes
  <2> HIDE DEF k
  <2>8. Sound(print)
    BY DEF PrintingInv
  <2>9. Advances(print, j, k, print.container, print.printed, print')
    BY <1>4, <2>2, <2>3, <2>4, <2>5, <2>6, <2>7, <2>8 DEF Advances
  <2>10. Sound(print')
    BY <2>9, StepSound
  <2> QED BY <2>10 DEF PrintingInv
<1> QED BY <1>3, <1>4

LEMMA BrowserPrintsSound == PrintingInv /\ BrowserPrints => PrintingInv'
<1> SUFFICES ASSUME PrintingInv, NEW j \in print.jobs, j.at = "print",
                    print' = IF print.service # j.service THEN WithoutJob(j)
                             ELSE Continue([WithoutJob(j) EXCEPT !.printed = print.container], j, "end")
             PROVE  PrintingInv'
  BY DEF BrowserPrints
<1>1. Sound(WithoutJob(j))
  BY WithoutJobSound DEF PrintingInv, WithoutJob
<1>2. print \in PrintFields
  BY JobTypes
<1>3. CASE print.service # j.service
  BY <1>1, <1>3 DEF PrintingInv
<1>4. CASE print.service = j.service
  <2> DEFINE k == [j EXCEPT !.at = "end"]
  <2>1. /\ k \in [service : Calls, page : 0..PrintPages, at : {"page", "image", "print", "end"}]
        /\ k.service = j.service /\ k.page = j.page /\ k.at = "end" /\ j.page = PrintPages
        /\ print.will[j.service] = "done"
    BY JobTypes
  <2>2. print' = [print EXCEPT !.jobs = (@ \ {j}) \cup {k}, !.container = print.container, !.printed = print.container]
    BY <1>2, <1>4 DEF Continue, WithoutJob, PrintFields
  <2>3. print.container = Upto(k.service, PagesOf(k)) /\ PagesOf(k) = PrintPages
    BY <1>4, <2>1, JobTypes DEF PagesOf
  <2>4. print.container \in Seq(Images)
    BY <1>2, FieldTypes
  <2> HIDE DEF k
  <2>5. Sound(print) /\ k.at \notin {"page", "image"} /\ k.page = PrintPages
    BY <2>1 DEF PrintingInv
  <2>6. print.container = Upto(k.service, PrintPages)
    BY <2>3
  <2>7. Advances(print, j, k, print.container, print.container, print')
    BY <1>4, <2>1, <2>2, <2>3, <2>4, <2>5, <2>6 DEF Advances
  <2>8. Sound(print')
    BY <2>7, StepSound
  <2> QED BY <2>8 DEF PrintingInv
<1> QED BY <1>3, <1>4

LEMMA FinishSound ==
  ASSUME PrintingInv, NEW j \in print.jobs, print' = Finish(WithoutJob(j), j)
  PROVE  PrintingInv'
<1>1. Sound(WithoutJob(j))
  BY WithoutJobSound DEF PrintingInv, WithoutJob
<1>2. Sound(AbortJob(WithoutJob(j)))
  BY <1>1, AbortJobSound DEF Sound, OneThing
<1> QED BY <1>1, <1>2 DEF Finish, PrintingInv

---------------------------------------------------------------------------
(***************************************************************************)
(* The dialog                                                              *)
(***************************************************************************)
LEMMA EscapeDialogSound == PrintingInv /\ EscapeDialog => PrintingInv'
<1> SUFFICES ASSUME PrintingInv, EscapeDialog PROVE PrintingInv'
  OBVIOUS
<1> DEFINE events == Append(print.closeEvents, print.service)
<1>0. /\ print \in PrintFields /\ JobsBelong(print) /\ OneThing(print) /\ Whole(print)
      /\ InTurn(print) /\ print.dialog
  BY DEF PrintingInv, Sound, EscapeDialog
<1>1. print.service \in Calls /\ print.closeEvents \in Seq(Calls)
  BY <1>0, FieldTypes, Numbers DEF OneThing, Agree
<1>2. events \in Seq(Calls) /\ events # <<>>
  BY <1>1
<1>3. print' = [print EXCEPT !.dialog = FALSE, !.closeEvents = events]
  BY DEF EscapeDialog
<1> HIDE DEF events
<1>4. print' \in PrintFields
  BY <1>0, <1>2, <1>3 DEF PrintFields
<1>5. JobsBelong(print') /\ OneThing(print') /\ Whole(print') /\ InTurn(print')
  BY <1>0, <1>2, <1>3 DEF PrintFields, JobsBelong, OneThing, Agree, Whole, InTurn
<1> QED BY <1>4, <1>5 DEF PrintingInv, Sound

LEMMA DialogClosedSound == PrintingInv /\ DialogClosed => PrintingInv'
<1> SUFFICES ASSUME PrintingInv, DialogClosed PROVE PrintingInv'
  OBVIOUS
<1> DEFINE p == [print EXCEPT !.closeEvents = Tail(@)]
<1>0. /\ print \in PrintFields /\ JobsBelong(print) /\ OneThing(print) /\ Whole(print)
      /\ InTurn(print) /\ print.closeEvents # <<>>
  BY DEF PrintingInv, Sound, DialogClosed
<1>1. Tail(print.closeEvents) \in Seq(Calls)
  BY <1>0, FieldTypes
<1>2. p \in PrintFields
  BY <1>0, <1>1 DEF PrintFields
<1>3. JobsBelong(p) /\ Agree(p) /\ Whole(p) /\ InTurn(p)
  BY <1>0 DEF PrintFields, JobsBelong, OneThing, Agree, Whole, InTurn
<1>4. print' = AbortJob(p)
  BY DEF DialogClosed
<1> HIDE DEF p
<1> QED BY <1>2, <1>3, <1>4, AbortJobSound DEF PrintingInv

LEMMA PrintCancelSound == PrintingInv /\ PrintCancel => PrintingInv'
BY AbortJobSound DEF PrintCancel, PrintingInv, Sound, OneThing

---------------------------------------------------------------------------
LEMMA PrintingStep == PrintingInv /\ [PrintingNext]_print => PrintingInv'
<1> SUFFICES ASSUME PrintingInv, [PrintingNext]_print PROVE PrintingInv'
  OBVIOUS
<1>1. CASE WindowPrint
  BY <1>1, WindowPrintSound
<1>2. CASE PageFails \/ Printed
  BY <1>2, FinishSound DEF PageFails, Printed
<1>3. CASE PrintCancel
  BY <1>3, PrintCancelSound
<1>4. CASE EscapeDialog
  BY <1>4, EscapeDialogSound
<1>5. CASE DialogClosed
  BY <1>5, DialogClosedSound
<1>6. CASE DestroyScripting
  BY <1>6, DestroyScriptingSound
<1>7. CASE WillPrintFinished
  BY <1>7, WillPrintFinishedSound
<1>8. CASE PageDrawn
  BY <1>8, PageDrawnSound
<1>9. CASE ImageLoaded
  BY <1>9, ImageLoadedSound
<1>10. CASE BrowserPrints
  BY <1>10, BrowserPrintsSound
<1>11. CASE DidPrint
  BY <1>11, DidPrintSound
<1>12. CASE UNCHANGED print
  BY <1>12 DEF PrintingInv
<1> QED BY <1>1, <1>2, <1>3, <1>4, <1>5, <1>6, <1>7, <1>8, <1>9, <1>10, <1>11, <1>12
        DEF PrintingNext, PrintingWorks

LEMMA InvIsSound == PrintingInv => PrintingIsSound
<1> SUFFICES ASSUME PrintingInv PROVE PrintingIsSound
  OBVIOUS
<1>1. PrintingTypeOK
  BY DEF PrintingInv, Sound, PrintingTypeOK
<1>2. PrintedIsTheDocument
  BY DEF PrintingInv, Sound, Whole, Upto, PrintedIsTheDocument
<1>3. PrintingIsOneThing
  <2>1. print.queuePrinting \in BOOLEAN /\ (print.service # 0) \in BOOLEAN
    BY <1>1, FieldTypes DEF PrintingTypeOK
  <2>2. print.queuePrinting <=> print.service # 0
    BY DEF PrintingInv, Sound, OneThing, Agree
  <2>3. print.queuePrinting = (print.service # 0)
    BY <2>1, <2>2, Zenon
  <2> QED BY <2>3 DEF PrintingInv, Sound, OneThing, Agree, PrintingIsOneThing
<1>4. ScriptsPrepareThePrint
  BY JobTypes DEF PrintingInv, Sound, JobsBelong, InTurn, ScriptsPrepareThePrint
<1> QED BY <1>1, <1>2, <1>3, <1>4 DEF PrintingIsSound

\* What is printed is one document, whole and in order, prepared by its scripts
\* for this job, and service, application, queue and dialog agree on whether a
\* job is under way (PDFPrintService, window.print, beforePrint, afterPrint and
\* PDFScriptingManager of viewer.mjs).
THEOREM PrintingSound == PrintingSpec => []PrintingIsSound
<1>1. PrintingInit => PrintingInv
  BY InitSound
<1>2. PrintingInv /\ [PrintingNext]_print => PrintingInv'
  BY PrintingStep
<1>3. PrintingInv => PrintingIsSound
  BY InvIsSound
<1> QED BY <1>1, <1>2, <1>3, PTL DEF PrintingSpec

----------------------------------------------------------------------------
(***************************************************************************)
(* The scripts of documents                                                *)
(***************************************************************************)
OpenOf(d) == [to |-> d, event |-> <<"Open", 0>>]
PageOpenOf(d, p) == [to |-> d, event |-> <<"PageOpen", p>>]
PageCloseOf(d, p) == [to |-> d, event |-> <<"PageClose", p>>]

\* What the event e makes of whether the script of d believes that p is open.
Moves(e, d, p, a, b) ==
  IF e = PageOpenOf(d, p) THEN a = 0 /\ b = 1
  ELSE IF e = PageCloseOf(d, p) THEN a = 1 /\ b = 0
  ELSE b = a

\* The events of q open and close p in turn, and lead from a to b.
Runs(q, d, p, a, b) ==
  \E l \in [0..Len(q) -> {0, 1}] :
    /\ l[0] = a /\ l[Len(q)] = b
    /\ \A i \in 1..Len(q) : Moves(q[i], d, p, l[i - 1], l[i])

\* Whose the document and the sandbox are, also after the two races.
Base(s) ==
  /\ s.open \in {0, s.opened} /\ s.document \in {0, s.opened} /\ s.scripting \in {0, s.opened}
  /\ s.alive \subseteq {s.scripting} \ {0}
  /\ s.open # 0 => ~s.closing
  /\ s.open = 0 => s.drawn = {}
  /\ s.open = 0 /\ ~s.closing => s.document = 0 /\ s.scripting = 0
  /\ s.scripting # 0 <=> s.destroyCapability = "pending"
  /\ s.destroying # "no" => s.scripting # 0
  /\ s.stage \in {"unset", "actions"} => s.scripting = 0
  /\ s.stage \in {"properties", "sandbox"} /\ s.document # 0 => s.scripting # 0
  /\ \A i \in DOMAIN s.events : s.events[i].to <= s.opened

\* What a document that closes waits for.
Parting(s) == s.closing /\ s.document # 0 => s.destroying = "race"

Ending(s) ==
  /\ s.destroying = "nuke" => ~s.ready /\ s.document = 0
  /\ s.stage = "sandbox" =>
       ~s.ready /\ s.scripting # 0 /\ (s.document # 0 \/ s.destroying = "nuke")

\* The sandbox was told of the document, until it is destroyed.
On(s) == s.closeCapability # "none"

Fresh(s) ==
  \A i \in DOMAIN s.events : s.events[i].to = s.opened => s.events[i].event[1] = "WillClose"

Session(s) == ~s.odd =>
  /\ s.alive = IF On(s) THEN {s.scripting} ELSE {}
  /\ On(s) => s.scripting # 0 /\ s.document = s.scripting /\ s.ready /\ s.stage = "done"
  /\ s.stage = "done" /\ s.scripting # 0 => On(s)
  /\ ~On(s) =>
       /\ s.pageOpenPending = {} /\ ~s.begun
       /\ \A p \in ScriptedPages : s.visited[p] = "no" /\ s.shown[p] = 0
  /\ s.leaving \subseteq s.asked
  /\ s.asked # {} => s.stage = "done" /\ (On(s) \/ s.closing)
  /\ s.destroying = "race" => s.closing /\ On(s)
  /\ s.stage \in {"unset", "actions", "properties", "sandbox"} => Fresh(s)

\* The page whose actions close still waits for.
Awaited(s) == ~s.odd /\ s.last # 0 => s.closing /\ s.last \in s.asked

\* The script hears of the document before it hears of a page.
Begins(s) ==
  /\ s.begun \/ \E j \in DOMAIN s.events : s.events[j] = OpenOf(s.scripting)
  /\ \A i \in DOMAIN s.events :
       s.events[i].to = s.scripting /\ s.events[i].event[1] = "PageOpen" =>
          s.begun \/ \E j \in DOMAIN s.events : j < i /\ s.events[j] = OpenOf(s.scripting)
  /\ \A p \in ScriptedPages : s.shown[p] = 1 => s.begun

\* It hears of each page in turn, and ends with what the manager has noted of it.
Noted(s, p) == IF s.visited[p] = "told" THEN 1 ELSE 0
Alternates(s) ==
  \A p \in ScriptedPages : Runs(s.events, s.scripting, p, s.shown[p], Noted(s, p))

Heard(s) == Begins(s) /\ Alternates(s)

Left(s, p) == s.visited[p] \in {"no", "null"}

Visits(s) == \A p \in ScriptedPages :
  /\ p \in s.asked =>
       /\ s.visited[p] \in {"asked", "null"}
       /\ s.visited[p] = "null" <=> p \in s.leaving \/ p = s.last
  /\ s.visited[p] = "asked" => p \in s.asked
  /\ p \in s.pageOpenPending => Left(s, p)

\* The page that shows, and no other, has been visited and not left.
Faces(s) ==
  /\ \A p \in ScriptedPages : s.open = 0 \/ p # s.page => Left(s, p)
  /\ s.open # 0 => s.page \in s.pageOpenPending \/ ~Left(s, s.page)

Talks(s) == ~s.odd /\ On(s) => Heard(s) /\ Visits(s) /\ Faces(s)

GoodScript(s) ==
  s \in ScriptFields /\ Base(s) /\ Parting(s) /\ Ending(s) /\ Session(s) /\ Awaited(s) /\ Talks(s)


\* What a message to a sandbox is.
Messages == [to : Documents, event : Events]

LEMMA ScriptTypes ==
  ASSUME NEW s \in ScriptFields
  PROVE  /\ s.opened \in Documents /\ s.open \in Documents /\ s.closing \in BOOLEAN
         /\ s.document \in Documents /\ s.scripting \in Documents /\ s.ready \in BOOLEAN
         /\ s.stage \in {"unset", "actions", "properties", "sandbox", "done", "none"}
         /\ s.destroying \in {"no", "race", "nuke"}
         /\ s.closeCapability \in {"none", "pending", "resolved"}
         /\ s.destroyCapability \in {"none", "pending", "resolved"}
         /\ s.page \in ScriptedPages /\ s.drawn \in SUBSET ScriptedPages
         /\ s.pageOpenPending \in SUBSET ScriptedPages
         /\ s.visited \in [ScriptedPages -> {"no", "asked", "told", "null"}]
         /\ s.asked \in SUBSET ScriptedPages /\ s.leaving \in SUBSET ScriptedPages
         /\ s.last \in 0..ScriptPages /\ s.events \in Seq(Messages)
         /\ s.alive \in SUBSET Documents /\ s.begun \in BOOLEAN
         /\ s.shown \in [ScriptedPages -> Int] /\ s.odd \in BOOLEAN
BY DEF ScriptFields, Messages

LEMMA ScriptNumbers ==
  /\ 0 \in Documents /\ 0 \in 0..ScriptPages /\ 1 \in ScriptedPages
  /\ \A d \in Documents : d \in Nat
  /\ \A p \in ScriptedPages : p \in 0..ScriptPages /\ p # 0
BY ScriptingAssumption DEF Documents, ScriptedPages

LEMMA ScriptEvents ==
  ASSUME NEW d \in Documents, NEW p \in ScriptedPages
  PROVE  /\ OpenOf(d) \in Messages /\ PageOpenOf(d, p) \in Messages
         /\ PageCloseOf(d, p) \in Messages
         /\ [to |-> d, event |-> <<"WillClose", 0>>] \in Messages
BY DEF OpenOf, PageOpenOf, PageCloseOf, Messages, Events

\* An event that is not of the page moves nothing.
LEMMA MovesNothing ==
  ASSUME NEW e, NEW d, NEW p, NEW a,
         e.to # d \/ e.event[1] \in {"Open", "WillClose"} \/ e.event[2] # p
  PROVE  Moves(e, d, p, a, a)
BY DEF Moves, PageOpenOf, PageCloseOf

LEMMA RunsFirst ==
  ASSUME NEW q \in Seq(Messages), q # <<>>, NEW d, NEW p, NEW a, NEW b, Runs(q, d, p, a, b)
  PROVE  \E c \in {0, 1} : Moves(Head(q), d, p, a, c) /\ Runs(Tail(q), d, p, c, b)
<1> DEFINE t == Tail(q)
           n == Len(q)
<1>1. /\ n \in Nat /\ n # 0 /\ Head(q) = q[1] /\ Len(t) = n - 1
      /\ \A i \in 1..Len(t) : t[i] = q[i + 1]
  BY HeadTailProperties, EmptySeq, LenProperties
<1>2. PICK l \in [0..n -> {0, 1}] :
           /\ l[0] = a /\ l[n] = b
           /\ \A i \in 1..n : Moves(q[i], d, p, l[i - 1], l[i])
  BY DEF Runs
<1> HIDE DEF t, n
<1> DEFINE m == [i \in 0..Len(t) |-> l[i + 1]]
<1>3. m \in [0..Len(t) -> {0, 1}] /\ m[0] = l[1] /\ m[Len(t)] = b
  BY <1>1, <1>2
<1>4. ASSUME NEW i \in 1..Len(t)
      PROVE  Moves(t[i], d, p, m[i - 1], m[i])
  <2>1. i + 1 \in 1..n /\ (i + 1) - 1 = i /\ (i - 1) + 1 = i
    BY <1>1
  <2>2. m[i - 1] = l[i] /\ m[i] = l[i + 1] /\ t[i] = q[i + 1]
    BY <1>1, <2>1
  <2>3. Moves(q[i + 1], d, p, l[(i + 1) - 1], l[i + 1])
    BY <1>2, <2>1
  <2> QED BY <2>1, <2>2, <2>3
<1>5. Moves(q[1], d, p, l[0], l[1]) /\ l[1] \in {0, 1}
  <2>1. 1 \in 1..n /\ 1 - 1 = 0 /\ 1 \in 0..n
    BY <1>1
  <2> QED BY <1>2, <2>1
<1> HIDE DEF m
<1>6. Runs(t, d, p, l[1], b)
  BY <1>3, <1>4 DEF Runs
<1> QED BY <1>1, <1>2, <1>5, <1>6 DEF t

LEMMA RunsOn ==
  ASSUME NEW q \in Seq(Messages), NEW e \in Messages, NEW d, NEW p, NEW a, NEW b,
         NEW c \in {0, 1}, Runs(q, d, p, a, b), Moves(e, d, p, b, c)
  PROVE  Runs(Append(q, e), d, p, a, c)
<1> DEFINE u == Append(q, e)
           n == Len(q)
<1>1. n \in Nat /\ Len(u) = n + 1 /\ u[n + 1] = e /\ \A i \in 1..n : u[i] = q[i]
  BY AppendProperties, LenProperties
<1>2. PICK l \in [0..n -> {0, 1}] :
           /\ l[0] = a /\ l[n] = b
           /\ \A i \in 1..n : Moves(q[i], d, p, l[i - 1], l[i])
  BY DEF Runs
<1> HIDE DEF u, n
<1> DEFINE m == [i \in 0..(n + 1) |-> IF i = n + 1 THEN c ELSE l[i]]
<1>3. /\ m \in [0..(n + 1) -> {0, 1}] /\ m[0] = a /\ m[n + 1] = c /\ m[n] = b
      /\ \A i \in 0..n : m[i] = l[i]
  BY <1>1, <1>2
<1> HIDE DEF m
<1>4. ASSUME NEW i \in 1..(n + 1)
      PROVE  Moves(u[i], d, p, m[i - 1], m[i])
  <2>1. CASE i = n + 1
    <3>1. m[i - 1] = b /\ m[i] = c /\ u[i] = e
      BY <1>1, <1>3, <2>1
    <3> QED BY <3>1
  <2>2. CASE i # n + 1
    <3>1. i \in 1..n /\ i \in 0..n /\ i - 1 \in 0..n
      BY <1>1, <2>2
    <3>2. m[i - 1] = l[i - 1] /\ m[i] = l[i] /\ u[i] = q[i]
      BY <1>1, <1>3, <3>1
    <3>3. Moves(q[i], d, p, l[i - 1], l[i])
      BY <1>2, <3>1
    <3> QED BY <3>2, <3>3
  <2> QED BY <2>1, <2>2
<1>5. Runs(u, d, p, a, c)
  BY <1>1, <1>3, <1>4 DEF Runs
<1> QED BY <1>5 DEF u

LEMMA RunsNowhere ==
  ASSUME NEW q \in Seq(Messages), NEW d, NEW p,
         \A i \in DOMAIN q : q[i].to = d => q[i].event[1] = "WillClose"
  PROVE  Runs(q, d, p, 0, 0)
<1> DEFINE m == [i \in 0..Len(q) |-> 0]
           n == Len(q)
<1>1. n \in Nat /\ DOMAIN q = 1..n
  BY LenProperties
<1>2. m \in [0..n -> {0, 1}] /\ m[0] = 0 /\ m[n] = 0 /\ \A i \in 1..n : m[i - 1] = 0 /\ m[i] = 0
  BY <1>1
<1> HIDE DEF m
<1>3. \A i \in 1..n : Moves(q[i], d, p, m[i - 1], m[i])
  <2>1. ASSUME NEW i \in 1..n
        PROVE  Moves(q[i], d, p, 0, 0)
    <3>1. q[i].to # d \/ q[i].event[1] \in {"Open", "WillClose"}
      BY <1>1
    <3> QED BY <3>1, MovesNothing
  <2> QED BY <1>2, <2>1
<1> QED BY <1>2, <1>3 DEF Runs, n

\* What is known of the script is between 0 and 1.
LEMMA RunsBetween ==
  ASSUME NEW q \in Seq(Messages), NEW d, NEW p, NEW a, NEW b, Runs(q, d, p, a, b)
  PROVE  a \in {0, 1} /\ b \in {0, 1} /\ (q = <<>> => a = b)
<1>1. Len(q) \in Nat /\ (q = <<>> => Len(q) = 0)
  BY EmptySeq, LenProperties
<1>2. PICK l \in [0..Len(q) -> {0, 1}] : l[0] = a /\ l[Len(q)] = b
  BY DEF Runs
<1>3. 0 \in 0..Len(q) /\ Len(q) \in 0..Len(q)
  BY <1>1
<1> QED BY <1>1, <1>2, <1>3

----------------------------------------------------------------------------
(* The events that pages send                                              *)

\* What the dispatch of an event leaves alone.
Beside(s, t) ==
  /\ t.opened = s.opened /\ t.open = s.open /\ t.closing = s.closing /\ t.document = s.document
  /\ t.scripting = s.scripting /\ t.ready = s.ready /\ t.stage = s.stage
  /\ t.destroying = s.destroying /\ t.destroyCapability = s.destroyCapability
  /\ t.closeCapability = s.closeCapability
  /\ t.page = s.page /\ t.drawn = s.drawn /\ t.alive = s.alive
  /\ t.begun = s.begun /\ t.shown = s.shown

\* What the pages have noted.
Alike(s, t) ==
  /\ t.visited = s.visited /\ t.asked = s.asked /\ t.leaving = s.leaving
  /\ t.pageOpenPending = s.pageOpenPending /\ t.odd = s.odd

\* The event e was handed over, if there is a sandbox.
Sent(s, t, e) == t.events = IF s.scripting = 0 THEN s.events ELSE Append(s.events, e)

LEMMA TellFacts ==
  ASSUME NEW s \in ScriptFields, NEW name, NEW page, <<name, page>> \in Events
  PROVE  LET t == Tell(s, name, page) IN
         /\ t \in ScriptFields /\ Beside(s, t) /\ Alike(s, t) /\ t.last = s.last
         /\ Sent(s, t, [to |-> s.scripting, event |-> <<name, page>>])
<1> DEFINE t == Tell(s, name, page)
           e == [to |-> s.scripting, event |-> <<name, page>>]
<1>1. CASE s.scripting = 0
  BY <1>1 DEF Tell, Beside, Alike, Sent
<1>2. CASE s.scripting # 0
  <2>1. e \in Messages /\ s.events \in Seq(Messages)
    BY ScriptTypes DEF Messages
  <2>2. Append(s.events, e) \in Seq(Messages)
    BY <2>1, AppendProperties
  <2>3. t = [s EXCEPT !.events = Append(s.events, e)]
    BY <1>2 DEF Tell
  <2> HIDE DEF t, e
  <2> DEFINE q == Append(s.events, e)
  <2>4. q \in Seq(Messages) /\ t = [s EXCEPT !.events = q]
    BY <2>2, <2>3
  <2>5. Seq(Messages) = Seq([to : Documents, event : Events])
    BY DEF Messages
  <2> HIDE DEF q
  <2>6. t \in ScriptFields
    BY <2>4, <2>5 DEF ScriptFields
  <2>7. Beside(s, t) /\ Alike(s, t) /\ t.last = s.last /\ t.events = q
    BY <2>4 DEF ScriptFields, Beside, Alike
  <2> QED BY <1>2, <2>6, <2>7 DEF t, e, q, Sent
<1> QED BY <1>1, <1>2

\* What a message of its own makes of the events.
LEMMA SentKeeps ==
  ASSUME NEW s \in ScriptFields, NEW t \in ScriptFields, Beside(s, t),
         NEW e \in Messages, e.to = s.scripting, Sent(s, t, e)
  PROVE  /\ Base(s) => Base(t)
         /\ Ending(s) => Ending(t)
         /\ Parting(s) => Parting(t)
         /\ Fresh(s) /\ e.event[1] = "WillClose" => Fresh(t)
<1>1. /\ s.opened \in Nat /\ s.scripting \in Nat /\ s.events \in Seq(Messages)
  BY ScriptTypes, ScriptNumbers
<1>2. Base(s) => s.scripting \in {0, s.opened}
  BY DEF Base
<1> DEFINE q == s.events
<1>3. \A i \in DOMAIN t.events : t.events[i] = e \/ (i \in DOMAIN q /\ t.events[i] = q[i])
  <2>1. CASE s.scripting = 0
    BY <2>1 DEF Sent
  <2>2. CASE s.scripting # 0
    <3>1. t.events = Append(q, e) /\ t.events \in Seq(Messages)
      BY <2>2, ScriptTypes DEF Sent
    <3>2. /\ Len(q) \in Nat /\ DOMAIN q = 1..Len(q) /\ Len(t.events) = Len(q) + 1
          /\ DOMAIN t.events = 1..(Len(q) + 1)
          /\ \A i \in 1..Len(q) : t.events[i] = q[i]
          /\ t.events[Len(q) + 1] = e
      BY <1>1, <3>1, AppendProperties, LenProperties
    <3> QED BY <3>2
  <2> QED BY <2>1, <2>2
<1>4. Base(s) => Base(t)
  <2> SUFFICES ASSUME Base(s) PROVE Base(t)
    OBVIOUS
  <2>1. \A i \in DOMAIN t.events : t.events[i].to <= t.opened
    <3>1. s.scripting <= s.opened
      BY <1>1, <1>2
    <3>2. \A i \in DOMAIN q : q[i].to <= s.opened
      BY DEF Base
    <3>3. t.opened = s.opened
      BY DEF Beside
    <3> QED BY <1>3, <3>1, <3>2, <3>3
  <2> QED BY <2>1 DEF Base, Beside
<1>5. (Ending(s) => Ending(t)) /\ (Parting(s) => Parting(t))
  BY DEF Ending, Parting, Beside
<1>6. Fresh(s) /\ e.event[1] = "WillClose" => Fresh(t)
  <2>1. t.opened = s.opened
    BY DEF Beside
  <2> QED BY <1>3, <2>1 DEF Fresh
<1> QED BY <1>4, <1>5, <1>6

\* Without a message, what lies beside the dispatch is all that counts.
LEMMA BesideKeeps ==
  ASSUME NEW s \in ScriptFields, NEW t \in ScriptFields, Beside(s, t), t.events = s.events
  PROVE  /\ Base(s) => Base(t)
         /\ Ending(s) => Ending(t)
         /\ Parting(s) => Parting(t)
         /\ Fresh(s) => Fresh(t)
BY DEF Beside, Base, Ending, Parting, Fresh

\* A session goes on while pages are opened and closed in it.
LEMMA SessionGoesOn ==
  ASSUME NEW s \in ScriptFields, NEW t \in ScriptFields, Beside(s, t), Session(s),
         \/ On(s)
         \/ /\ t.asked = s.asked /\ t.visited = s.visited
            /\ t.pageOpenPending = s.pageOpenPending /\ (Fresh(s) => Fresh(t)),
         s.odd => t.odd,
         s.leaving \subseteq s.asked => t.leaving \subseteq t.asked
  PROVE  Session(t)
<1> SUFFICES ASSUME ~t.odd PROVE Session(t)
  BY DEF Session
<1>1. ~s.odd
  OBVIOUS
<1>2. On(t) <=> On(s)
  BY DEF On, Beside
<1>3. CASE On(s)
  BY <1>1, <1>2, <1>3 DEF Session, Beside
<1>4. CASE ~On(s)
  BY <1>1, <1>2, <1>4 DEF Session, Beside
<1> QED BY <1>3, <1>4

\* The messages of a page are of the kind that is handed over.
LEMMA PageEvents ==
  ASSUME NEW p \in ScriptedPages, NEW s \in ScriptFields
  PROVE  /\ <<"PageOpen", p>> \in Events /\ <<"PageClose", p>> \in Events
         /\ <<"WillClose", 0>> \in Events /\ <<"Open", 0>> \in Events
         /\ PageOpenOf(s.scripting, p) \in Messages /\ PageCloseOf(s.scripting, p) \in Messages
         /\ [to |-> s.scripting, event |-> <<"WillClose", 0>>] \in Messages
         /\ OpenOf(s.scripting) \in Messages
BY ScriptTypes, ScriptEvents DEF Events

\* The three ways to open a page.
OpensPage(s, t, page) ==
  \/ t = s /\ ~On(s)
  \/ /\ On(s) /\ t.pageOpenPending = s.pageOpenPending \cup {page}
     /\ t.events = s.events /\ t.visited = s.visited /\ t.asked = s.asked /\ t.odd = s.odd
  \/ /\ On(s) /\ t.pageOpenPending = s.pageOpenPending \ {page}
     /\ t.odd <=> s.odd \/ page \in s.asked
     /\ \/ /\ s.visited[page] = "no" /\ t.events = s.events
           /\ t.visited = [s.visited EXCEPT ![page] = "asked"] /\ t.asked = s.asked \cup {page}
        \/ /\ s.visited[page] # "no" /\ t.asked = s.asked
           /\ t.visited = [s.visited EXCEPT ![page] = "told"]
           /\ Sent(s, t, PageOpenOf(s.scripting, page))

LEMMA OpenFacts ==
  ASSUME NEW s \in ScriptFields, NEW page \in ScriptedPages
  PROVE  LET t == DispatchPageOpen(s, page) IN
         /\ t \in ScriptFields /\ Beside(s, t) /\ OpensPage(s, t, page)
         /\ t.last = s.last /\ t.leaving = s.leaving
<1> DEFINE t == DispatchPageOpen(s, page)
<1>1. CASE ~On(s)
  BY <1>1 DEF On, DispatchPageOpen, Beside, OpensPage
<1>2. CASE On(s) /\ page \notin s.drawn
  <2> DEFINE A == s.pageOpenPending \cup {page}
  <2>1. A \in SUBSET ScriptedPages
    BY ScriptTypes
  <2>2. t = [s EXCEPT !.pageOpenPending = A]
    BY <1>2 DEF On, DispatchPageOpen
  <2> HIDE DEF t, A
  <2>3. t \in ScriptFields
    BY <2>1, <2>2 DEF ScriptFields
  <2>4. /\ Beside(s, t) /\ t.last = s.last /\ t.leaving = s.leaving /\ t.pageOpenPending = A
        /\ t.events = s.events /\ t.visited = s.visited /\ t.asked = s.asked /\ t.odd = s.odd
    BY <2>2 DEF ScriptFields, Beside
  <2> QED BY <1>2, <2>3, <2>4 DEF A, t, OpensPage
<1>3. CASE On(s) /\ page \in s.drawn
  <2> DEFINE A == s.pageOpenPending \ {page}
             o == s.odd \/ (page \in s.asked)
             u == [s EXCEPT !.pageOpenPending = A, !.odd = o]
  <2>1. A \in SUBSET ScriptedPages /\ o \in BOOLEAN
    BY ScriptTypes
  <2> HIDE DEF A, o
  <2>2. u \in ScriptFields
    BY <2>1, ZenonT(60) DEF ScriptFields
  <2>3. /\ Beside(s, u) /\ u.last = s.last /\ u.leaving = s.leaving /\ u.pageOpenPending = A
        /\ u.events = s.events /\ u.visited = s.visited /\ u.asked = s.asked /\ u.odd = o
    BY DEF ScriptFields, Beside
  <2>4. t = IF s.visited[page] = "no"
              THEN [u EXCEPT !.visited[page] = "asked", !.asked = @ \cup {page}]
            ELSE Tell([u EXCEPT !.visited[page] = "told"], "PageOpen", page)
    BY <1>3 DEF On, DispatchPageOpen, A, o
  <2> HIDE DEF u, t
  <2>5. CASE s.visited[page] = "no"
    <3> DEFINE v == [s.visited EXCEPT ![page] = "asked"]
               B == s.asked \cup {page}
    <3>1. v \in [ScriptedPages -> {"no", "asked", "told", "null"}] /\ B \in SUBSET ScriptedPages
      BY ScriptTypes
    <3>2. t = [u EXCEPT !.visited = v, !.asked = B]
      BY <2>2, <2>3, <2>4, <2>5 DEF ScriptFields
    <3> HIDE DEF v, B
    <3>3. t \in ScriptFields
      BY <2>2, <3>1, <3>2, ZenonT(60) DEF ScriptFields
    <3>4. /\ Beside(u, t) /\ t.last = u.last /\ t.leaving = u.leaving /\ t.visited = v
          /\ t.pageOpenPending = u.pageOpenPending /\ t.asked = B /\ t.events = u.events
          /\ t.odd = u.odd
      BY <2>2, <3>2 DEF ScriptFields, Beside
    <3>5. Beside(s, t)
      BY <2>3, <3>4 DEF Beside
    <3> QED BY <1>3, <2>3, <2>5, <3>3, <3>4, <3>5 DEF t, v, B, A, o, OpensPage
  <2>6. CASE s.visited[page] # "no"
    <3> DEFINE v == [s.visited EXCEPT ![page] = "told"]
               w == [u EXCEPT !.visited = v]
    <3>1. v \in [ScriptedPages -> {"no", "asked", "told", "null"}]
      BY ScriptTypes
    <3>2. t = Tell(w, "PageOpen", page)
      BY <2>2, <2>3, <2>4, <2>6 DEF ScriptFields
    <3> HIDE DEF v
    <3>3. w \in ScriptFields
      BY <2>2, <3>1 DEF ScriptFields
    <3>4. /\ Beside(u, w) /\ w.last = u.last /\ w.leaving = u.leaving /\ w.visited = v
          /\ w.pageOpenPending = u.pageOpenPending /\ w.asked = u.asked /\ w.events = u.events
          /\ w.odd = u.odd
      BY <2>2 DEF ScriptFields, Beside
    <3> HIDE DEF w
    <3>5. /\ t \in ScriptFields /\ Beside(w, t) /\ Alike(w, t) /\ t.last = w.last
          /\ Sent(w, t, [to |-> w.scripting, event |-> <<"PageOpen", page>>])
      BY <3>2, <3>3, PageEvents, TellFacts
    <3>6. Beside(s, t)
      BY <2>3, <3>4, <3>5 DEF Beside
    <3>7. w.scripting = s.scripting
      BY <2>3, <3>4 DEF Beside
    <3>8. Sent(s, t, PageOpenOf(s.scripting, page))
      BY <2>3, <3>4, <3>5, <3>7 DEF Sent, PageOpenOf
    <3>9. /\ t.visited = v /\ t.asked = s.asked /\ t.pageOpenPending = A /\ t.odd = o
          /\ t.last = s.last /\ t.leaving = s.leaving
      BY <2>3, <3>4, <3>5 DEF Alike
    <3> QED BY <1>3, <2>6, <3>5, <3>6, <3>8, <3>9 DEF t, v, A, o, OpensPage
  <2> QED BY <2>5, <2>6
<1> QED BY <1>1, <1>2, <1>3

\* The ways to close one.
Closes(s, t, page) ==
  \/ t = s /\ ~CanClose(s, page)
  \/ /\ CanClose(s, page) /\ t.visited = [s.visited EXCEPT ![page] = "null"]
     /\ \/ page \in s.asked /\ t.leaving = s.leaving \cup {page} /\ t.events = s.events
        \/ /\ page \notin s.asked /\ t.leaving = s.leaving
           /\ Sent(s, t, PageCloseOf(s.scripting, page))

LEMMA CloseFacts ==
  ASSUME NEW s \in ScriptFields, NEW page \in ScriptedPages
  PROVE  LET t == DispatchPageClose(s, page) IN
         /\ t \in ScriptFields /\ Beside(s, t) /\ Closes(s, t, page)
         /\ t.last = s.last /\ t.asked = s.asked /\ t.pageOpenPending = s.pageOpenPending
         /\ t.odd = s.odd
<1> DEFINE t == DispatchPageClose(s, page)
<1>1. CASE ~CanClose(s, page)
  BY <1>1 DEF DispatchPageClose, Beside, Closes
<1>2. CASE CanClose(s, page)
  <2> DEFINE v == [s.visited EXCEPT ![page] = "null"]
             u == [s EXCEPT !.visited = v]
  <2>1. v \in [ScriptedPages -> {"no", "asked", "told", "null"}]
    BY ScriptTypes
  <2>2. t = IF page \in s.asked THEN [u EXCEPT !.leaving = @ \cup {page}]
            ELSE Tell(u, "PageClose", page)
    BY <1>2 DEF DispatchPageClose, ScriptFields
  <2> HIDE DEF v, t
  <2>3. u \in ScriptFields
    BY <2>1 DEF ScriptFields
  <2>4. /\ Beside(s, u) /\ u.last = s.last /\ u.leaving = s.leaving /\ u.visited = v
        /\ u.pageOpenPending = s.pageOpenPending /\ u.asked = s.asked /\ u.events = s.events
        /\ u.odd = s.odd
    BY DEF ScriptFields, Beside
  <2> HIDE DEF u
  <2>5. CASE page \in s.asked
    <3> DEFINE B == s.leaving \cup {page}
    <3>1. B \in SUBSET ScriptedPages
      BY ScriptTypes
    <3>2. t = [u EXCEPT !.leaving = B]
      BY <2>2, <2>4, <2>5, <2>3 DEF ScriptFields
    <3> HIDE DEF B
    <3>3. t \in ScriptFields
      BY <2>3, <3>1, <3>2 DEF ScriptFields
    <3>4. /\ Beside(u, t) /\ t.last = u.last /\ t.leaving = B /\ t.visited = u.visited
          /\ t.pageOpenPending = u.pageOpenPending /\ t.asked = u.asked /\ t.events = u.events
          /\ t.odd = u.odd
      BY <2>3, <3>2 DEF ScriptFields, Beside
    <3>5. Beside(s, t)
      BY <2>4, <3>4 DEF Beside
    <3> QED BY <1>2, <2>4, <2>5, <3>3, <3>4, <3>5 DEF t, v, B, Closes
  <2>6. CASE page \notin s.asked
    <3>1. /\ t \in ScriptFields /\ Beside(u, t) /\ Alike(u, t) /\ t.last = u.last
          /\ Sent(u, t, [to |-> u.scripting, event |-> <<"PageClose", page>>])
      BY <2>2, <2>3, <2>6, PageEvents, TellFacts
    <3>2. Beside(s, t) /\ u.scripting = s.scripting
      BY <2>4, <3>1 DEF Beside
    <3>3. Sent(s, t, PageCloseOf(s.scripting, page))
      BY <2>4, <3>1, <3>2 DEF Sent, PageCloseOf
    <3>4. /\ t.visited = v /\ t.asked = s.asked /\ t.pageOpenPending = s.pageOpenPending
          /\ t.last = s.last /\ t.leaving = s.leaving /\ t.odd = s.odd
      BY <2>4, <3>1 DEF Alike
    <3> QED BY <1>2, <2>6, <3>1, <3>2, <3>3, <3>4 DEF t, v, Closes
  <2> QED BY <2>5, <2>6
<1> QED BY <1>1, <1>2

----------------------------------------------------------------------------
(* What the script hears                                                   *)

\* Where an event is that was handed over.
LEMMA SentLast ==
  ASSUME NEW s \in ScriptFields, NEW t \in ScriptFields, NEW e \in Messages,
         s.scripting # 0, Sent(s, t, e)
  PROVE  /\ t.events = Append(s.events, e)
         /\ \A i \in DOMAIN s.events : i \in DOMAIN t.events /\ t.events[i] = s.events[i]
         /\ \E n \in DOMAIN t.events :
              /\ t.events[n] = e
              /\ \A i \in DOMAIN s.events : i < n
              /\ \A i \in DOMAIN t.events : i = n \/ i \in DOMAIN s.events
<1> DEFINE q == s.events
           n == Len(q) + 1
<1>1. t.events = Append(q, e) /\ q \in Seq(Messages) /\ t.events \in Seq(Messages)
  BY ScriptTypes DEF Sent
<1>2. /\ Len(q) \in Nat /\ DOMAIN q = 1..Len(q) /\ Len(t.events) = n
      /\ DOMAIN t.events = 1..n /\ t.events[n] = e
      /\ \A i \in 1..Len(q) : t.events[i] = q[i]
  BY <1>1, AppendProperties, LenProperties
<1>3. /\ n \in DOMAIN t.events /\ \A i \in DOMAIN q : i < n /\ i \in DOMAIN t.events
      /\ \A i \in DOMAIN t.events : i = n \/ i \in DOMAIN q
  BY <1>2
<1> QED BY <1>1, <1>2, <1>3

LEMMA BeginsOn ==
  ASSUME NEW s \in ScriptFields, NEW t \in ScriptFields, Beside(s, t), NEW e \in Messages,
         s.scripting # 0, Sent(s, t, e), Begins(s)
  PROVE  Begins(t)
<1>1. t.begun = s.begun /\ t.shown = s.shown /\ t.scripting = s.scripting
  BY DEF Beside
<1> DEFINE o == OpenOf(s.scripting)
<1>2. /\ \A i \in DOMAIN s.events : i \in DOMAIN t.events /\ t.events[i] = s.events[i]
      /\ \E n \in DOMAIN t.events :
           /\ t.events[n] = e
           /\ \A i \in DOMAIN s.events : i < n
           /\ \A i \in DOMAIN t.events : i = n \/ i \in DOMAIN s.events
  BY SentLast
<1>3. PICK n \in DOMAIN t.events :
           /\ t.events[n] = e
           /\ \A i \in DOMAIN s.events : i < n
           /\ \A i \in DOMAIN t.events : i = n \/ i \in DOMAIN s.events
  BY <1>2
<1> HIDE DEF o
<1>4. CASE s.begun
  BY <1>1, <1>4 DEF Begins
<1>5. CASE ~s.begun
  <2>1. PICK j \in DOMAIN s.events : s.events[j] = o
    BY <1>5 DEF Begins, o
  <2>2. \E k \in DOMAIN t.events : t.events[k] = o
    BY <1>2, <2>1
  <2>3. ASSUME NEW i \in DOMAIN t.events,
               t.events[i].to = s.scripting, t.events[i].event[1] = "PageOpen"
        PROVE  \E k \in DOMAIN t.events : k < i /\ t.events[k] = o
    <3>1. CASE i = n
      BY <1>2, <1>3, <2>1, <3>1
    <3>2. CASE i # n
      <4>1. i \in DOMAIN s.events /\ t.events[i] = s.events[i]
        BY <1>2, <1>3, <3>2
      <4>2. PICK k \in DOMAIN s.events : k < i /\ s.events[k] = o
        BY <1>5, <2>3, <4>1 DEF Begins, o
      <4> QED BY <1>2, <4>2
    <3> QED BY <3>1, <3>2
  <2>4. \A p \in ScriptedPages : t.shown[p] = 1 => t.begun
    BY <1>1 DEF Begins
  <2> QED BY <1>1, <2>2, <2>3, <2>4 DEF Begins, o
<1> QED BY <1>4, <1>5

LEMMA SameBegins ==
  ASSUME NEW s, NEW t, Beside(s, t), t.events = s.events, Begins(s)
  PROVE  Begins(t)
BY DEF Begins, Beside

\* A message moves the page it is of, and no other.
LEMMA AlternatesOn ==
  ASSUME NEW s \in ScriptFields, NEW t \in ScriptFields, Beside(s, t), NEW e \in Messages,
         s.scripting # 0, Sent(s, t, e), Alternates(s),
         \A p \in ScriptedPages : Moves(e, s.scripting, p, Noted(s, p), Noted(t, p))
  PROVE  Alternates(t)
<1>1. t.shown = s.shown /\ t.scripting = s.scripting /\ t.events = Append(s.events, e)
  BY SentLast DEF Beside
<1>2. s.events \in Seq(Messages)
  BY ScriptTypes
<1>3. ASSUME NEW p \in ScriptedPages
      PROVE  Runs(t.events, t.scripting, p, t.shown[p], Noted(t, p))
  <2>1. Runs(s.events, s.scripting, p, s.shown[p], Noted(s, p))
    BY DEF Alternates
  <2>2. Noted(t, p) \in {0, 1}
    BY DEF Noted
  <2>3. Moves(e, s.scripting, p, Noted(s, p), Noted(t, p))
    OBVIOUS
  <2>4. Runs(Append(s.events, e), s.scripting, p, s.shown[p], Noted(t, p))
    BY <1>2, <2>1, <2>2, <2>3, RunsOn
  <2> QED BY <1>1, <2>4
<1> QED BY <1>3 DEF Alternates

LEMMA SameAlternates ==
  ASSUME NEW s, NEW t, Beside(s, t), t.events = s.events, Alternates(s),
         \A p \in ScriptedPages : Noted(t, p) = Noted(s, p)
  PROVE  Alternates(t)
<1>1. t.shown = s.shown /\ t.scripting = s.scripting
  BY DEF Beside
<1>2. ASSUME NEW p \in ScriptedPages
      PROVE  Runs(t.events, t.scripting, p, t.shown[p], Noted(t, p))
  BY <1>1 DEF Alternates
<1> QED BY <1>2 DEF Alternates

\* The page that is left is told to be closed, or it will be.
LEMMA CloseLeaves ==
  ASSUME NEW s \in ScriptFields, NEW page \in ScriptedPages, On(s), s.scripting # 0,
         s.last = 0, Heard(s), Visits(s),
         \A p \in ScriptedPages : p # page => Left(s, p)
  PROVE  LET t == DispatchPageClose(s, page) IN
         /\ t \in ScriptFields /\ Heard(t) /\ Visits(t)
         /\ \A p \in ScriptedPages : Left(t, p)
<1> DEFINE t == DispatchPageClose(s, page)
<1>1. /\ t \in ScriptFields /\ Beside(s, t) /\ Closes(s, t, page)
      /\ t.last = s.last /\ t.asked = s.asked /\ t.pageOpenPending = s.pageOpenPending
  BY CloseFacts
<1> HIDE DEF t
<1>2. s.visited \in [ScriptedPages -> {"no", "asked", "told", "null"}]
  BY ScriptTypes
<1>3. CASE t = s /\ ~CanClose(s, page)
  <2>1. Left(s, page)
    BY <1>3 DEF CanClose, On, Visits, Left
  <2> QED BY <1>1, <1>3, <2>1 DEF t
<1>4. CASE CanClose(s, page) /\ t.visited = [s.visited EXCEPT ![page] = "null"]
  <2>1. /\ \A p \in ScriptedPages : t.visited[p] = IF p = page THEN "null" ELSE s.visited[p]
        /\ page \notin s.pageOpenPending /\ ~Left(s, page)
    BY <1>2, <1>4 DEF CanClose, Left
  <2>2. \A p \in ScriptedPages : Left(t, p)
    BY <2>1 DEF Left
  <2>3. CASE page \in s.asked /\ t.leaving = s.leaving \cup {page} /\ t.events = s.events
    <3>1. s.visited[page] = "asked"
      BY <2>1, <2>3 DEF Visits, Left
    <3>2. \A p \in ScriptedPages : Noted(t, p) = Noted(s, p)
      BY <2>1, <3>1 DEF Noted
    <3>3. Heard(t)
      BY <1>1, <2>3, <3>2, SameBegins, SameAlternates DEF Heard
    <3>4. page # 0
      BY ScriptNumbers
    <3>5. Visits(t)
      BY <1>1, <2>1, <2>2, <2>3, <3>1, <3>4 DEF Visits, Left
    <3> QED BY <1>1, <2>2, <3>3, <3>5 DEF t
  <2>4. CASE page \notin s.asked /\ t.leaving = s.leaving
               /\ Sent(s, t, PageCloseOf(s.scripting, page))
    <3> DEFINE e == PageCloseOf(s.scripting, page)
    <3>1. s.visited[page] = "told"
      BY <1>2, <2>1, <2>4 DEF Visits, Left
    <3>2. e \in Messages
      BY PageEvents
    <3>3. \A p \in ScriptedPages : Moves(e, s.scripting, p, Noted(s, p), Noted(t, p))
      BY <2>1, <3>1 DEF Moves, PageCloseOf, PageOpenOf, Noted
    <3> HIDE DEF e
    <3>4. Sent(s, t, e)
      BY <2>4 DEF e
    <3>5. Heard(t)
      BY <1>1, <3>2, <3>3, <3>4, BeginsOn, AlternatesOn DEF Heard
    <3>6. Visits(t)
      BY <1>1, <2>1, <2>2, <2>4 DEF Visits, Left
    <3> QED BY <1>1, <2>2, <3>5, <3>6 DEF t
  <2> QED BY <1>1, <1>4, <2>3, <2>4 DEF Closes
<1> QED BY <1>1, <1>3, <1>4 DEF Closes

\* The page that shows is opened, or it will be once it is drawn.
LEMMA OpenFaces ==
  ASSUME NEW s \in ScriptFields, NEW page \in ScriptedPages, On(s), s.scripting # 0,
         s.last = 0, Heard(s), Visits(s), s.page = page, s.open # 0, s.leaving \subseteq s.asked,
         \A p \in ScriptedPages : Left(s, p)
  PROVE  LET t == DispatchPageOpen(s, page) IN
         ~t.odd => Heard(t) /\ Visits(t) /\ Faces(t)
<1> DEFINE t == DispatchPageOpen(s, page)
<1>1. /\ t \in ScriptFields /\ Beside(s, t) /\ OpensPage(s, t, page)
      /\ t.last = s.last /\ t.leaving = s.leaving
  BY OpenFacts
<1> HIDE DEF t
<1> SUFFICES ASSUME ~t.odd PROVE Heard(t) /\ Visits(t) /\ Faces(t)
  BY DEF t
<1>2. s.visited \in [ScriptedPages -> {"no", "asked", "told", "null"}]
  BY ScriptTypes
<1>3. t.page = page /\ t.open = s.open
  BY <1>1 DEF Beside
<1>4. CASE /\ t.pageOpenPending = s.pageOpenPending \cup {page}
           /\ t.events = s.events /\ t.visited = s.visited /\ t.asked = s.asked
  <2>1. \A p \in ScriptedPages : Noted(t, p) = Noted(s, p)
    BY <1>4 DEF Noted
  <2>2. Heard(t)
    BY <1>1, <1>4, <2>1, SameBegins, SameAlternates DEF Heard
  <2>3. Visits(t)
    BY <1>1, <1>4 DEF Visits, Left
  <2>4. Faces(t)
    BY <1>3, <1>4 DEF Faces, Left
  <2> QED BY <2>2, <2>3, <2>4
<1>5. CASE /\ t.pageOpenPending = s.pageOpenPending \ {page} /\ (t.odd <=> s.odd \/ page \in s.asked)
           /\ s.visited[page] = "no" /\ t.events = s.events
           /\ t.visited = [s.visited EXCEPT ![page] = "asked"] /\ t.asked = s.asked \cup {page}
  <2>1. \A p \in ScriptedPages : t.visited[p] = IF p = page THEN "asked" ELSE s.visited[p]
    BY <1>2, <1>5
  <2>2. \A p \in ScriptedPages : Noted(t, p) = Noted(s, p)
    BY <1>5, <2>1 DEF Noted
  <2>3. Heard(t)
    BY <1>1, <1>5, <2>2, SameBegins, SameAlternates DEF Heard
  <2>4. page # 0 /\ page \notin s.asked
    BY <1>5, ScriptNumbers
  <2>6. page \notin s.leaving
    BY <2>4
  <2>7. Visits(t)
    BY <1>1, <1>5, <2>1, <2>4, <2>6 DEF Visits, Left
  <2>8. Faces(t)
    BY <1>3, <1>5, <2>1 DEF Faces, Left
  <2> QED BY <2>3, <2>7, <2>8
<1>6. CASE /\ t.pageOpenPending = s.pageOpenPending \ {page} /\ (t.odd <=> s.odd \/ page \in s.asked)
           /\ s.visited[page] # "no" /\ t.asked = s.asked
           /\ t.visited = [s.visited EXCEPT ![page] = "told"]
           /\ Sent(s, t, PageOpenOf(s.scripting, page))
  <2> DEFINE e == PageOpenOf(s.scripting, page)
  <2>1. \A p \in ScriptedPages : t.visited[p] = IF p = page THEN "told" ELSE s.visited[p]
    BY <1>2, <1>6
  <2>2. e \in Messages /\ page \notin s.asked /\ Left(s, page)
    BY <1>6, PageEvents
  <2>3. \A p \in ScriptedPages : Moves(e, s.scripting, p, Noted(s, p), Noted(t, p))
    BY <2>1, <2>2 DEF Moves, PageCloseOf, PageOpenOf, Noted, Left
  <2> HIDE DEF e
  <2>4. Sent(s, t, e)
    BY <1>6 DEF e
  <2>5. Heard(t)
    BY <1>1, <2>2, <2>3, <2>4, BeginsOn, AlternatesOn DEF Heard
  <2>6. Visits(t)
    BY <1>1, <1>6, <2>1, <2>2 DEF Visits, Left
  <2>7. Faces(t)
    BY <1>3, <1>6, <2>1 DEF Faces, Left
  <2> QED BY <2>5, <2>6, <2>7
<1> QED BY <1>1, <1>4, <1>5, <1>6 DEF OpensPage

----------------------------------------------------------------------------
(* The end of a sandbox                                                    *)

LEMMA NukedFacts ==
  ASSUME NEW s \in ScriptFields
  PROVE  LET n == Nuked(s) IN
         /\ n \in ScriptFields
         /\ n.opened = s.opened /\ n.open = s.open /\ n.closing = s.closing
         /\ n.document = s.document /\ n.ready = s.ready /\ n.stage = s.stage
         /\ n.closeCapability = s.closeCapability /\ n.page = s.page /\ n.drawn = s.drawn
         /\ n.asked = s.asked /\ n.leaving = s.leaving /\ n.last = s.last
         /\ n.events = s.events /\ n.odd = s.odd
         /\ n.scripting = 0 /\ n.destroying = "no" /\ n.destroyCapability = "resolved"
         /\ n.alive = s.alive \ {s.scripting} /\ n.pageOpenPending = {} /\ ~n.begun
         /\ \A p \in ScriptedPages : n.visited[p] = "no" /\ n.shown[p] = 0
<1> DEFINE n == Nuked(s)
           A == s.alive \ {s.scripting}
           v == [p \in ScriptedPages |-> "no"]
           z == [p \in ScriptedPages |-> 0]
           n1 == [s EXCEPT !.alive = A, !.scripting = 0]
           n2 == [n1 EXCEPT !.destroying = "no", !.pageOpenPending = {}]
           n3 == [n2 EXCEPT !.visited = v, !.destroyCapability = "resolved"]
           n4 == [n3 EXCEPT !.begun = FALSE, !.shown = z]
<1>1. /\ A \in SUBSET Documents /\ v \in [ScriptedPages -> {"no", "asked", "told", "null"}]
      /\ z \in [ScriptedPages -> Int] /\ 0 \in Documents
      /\ {} \in SUBSET ScriptedPages /\ FALSE \in BOOLEAN
  BY ScriptTypes, ScriptNumbers
<1>2. n = [s EXCEPT !.alive = A, !.scripting = 0, !.destroying = "no",
                    !.pageOpenPending = {}, !.visited = v, !.destroyCapability = "resolved",
                    !.begun = FALSE, !.shown = z]
  BY DEF Nuked, ScriptFields
<1>3. \A p \in ScriptedPages : v[p] = "no" /\ z[p] = 0
  OBVIOUS
<1> HIDE DEF n, A, v, z
<1>4. n1 \in ScriptFields
  BY <1>1, ZenonT(60) DEF ScriptFields
<1>5. n2 \in ScriptFields
  <2> HIDE DEF n1
  <2> QED BY <1>1, <1>4, ZenonT(60) DEF ScriptFields
<1>6. n3 \in ScriptFields
  <2> HIDE DEF n2
  <2> QED BY <1>1, <1>5, ZenonT(60) DEF ScriptFields
<1>7. n4 \in ScriptFields
  <2> HIDE DEF n3
  <2> QED BY <1>1, <1>6, ZenonT(60) DEF ScriptFields
<1>8. n = n4
  BY <1>2 DEF ScriptFields
<1>9. /\ n.opened = s.opened /\ n.open = s.open /\ n.closing = s.closing
      /\ n.document = s.document /\ n.ready = s.ready /\ n.stage = s.stage
      /\ n.closeCapability = s.closeCapability /\ n.page = s.page /\ n.drawn = s.drawn
      /\ n.asked = s.asked /\ n.leaving = s.leaving /\ n.last = s.last
      /\ n.events = s.events /\ n.odd = s.odd
      /\ n.scripting = 0 /\ n.destroying = "no" /\ n.destroyCapability = "resolved"
      /\ n.alive = A /\ n.pageOpenPending = {} /\ ~n.begun
      /\ n.visited = v /\ n.shown = z
  BY <1>2 DEF ScriptFields
<1> QED BY <1>3, <1>7, <1>8, <1>9 DEF n, A

LEMMA NukedBase ==
  ASSUME NEW s \in ScriptFields, Base(s), s.document = 0
  PROVE  Base(Nuked(s)) /\ Parting(Nuked(s))
<1> DEFINE n == Nuked(s)
<1>1. /\ n.opened = s.opened /\ n.open = s.open /\ n.closing = s.closing
      /\ n.document = 0 /\ n.stage = s.stage /\ n.drawn = s.drawn /\ n.events = s.events
      /\ n.scripting = 0 /\ n.destroying = "no" /\ n.destroyCapability = "resolved"
      /\ n.alive = s.alive \ {s.scripting}
  BY NukedFacts
<1> HIDE DEF n
<1>2. n.alive = {}
  BY <1>1 DEF Base
<1>3. Base(n) /\ Parting(n)
  BY <1>1, <1>2 DEF Base, Parting
<1> QED BY <1>3 DEF n

\* After it the next session may begin.
LEMMA NukedSession ==
  ASSUME NEW s \in ScriptFields, Base(s),
         ~s.odd =>
           /\ ~On(s) /\ s.leaving \subseteq s.asked
           /\ s.asked # {} => s.stage = "done" /\ s.closing
           /\ s.stage \in {"unset", "actions", "properties", "sandbox"} => Fresh(s)
  PROVE  Session(Nuked(s)) /\ (~s.odd => ~On(Nuked(s)))
<1> DEFINE n == Nuked(s)
<1>1. /\ n.opened = s.opened /\ n.closing = s.closing /\ n.stage = s.stage
      /\ n.closeCapability = s.closeCapability
      /\ n.asked = s.asked /\ n.leaving = s.leaving /\ n.events = s.events /\ n.odd = s.odd
      /\ n.scripting = 0 /\ n.destroying = "no"
      /\ n.alive = s.alive \ {s.scripting} /\ n.pageOpenPending = {} /\ ~n.begun
      /\ \A p \in ScriptedPages : n.visited[p] = "no" /\ n.shown[p] = 0
  BY NukedFacts
<1> HIDE DEF n
<1>2. n.alive = {}
  BY <1>1 DEF Base
<1>3. On(n) <=> On(s)
  BY <1>1 DEF On
<1>4. Fresh(s) => Fresh(n)
  BY <1>1 DEF Fresh
<1>5. Session(n)
  BY <1>1, <1>2, <1>3, <1>4 DEF Session
<1> QED BY <1>1, <1>3, <1>5 DEF n

\* destroySandbox, or the wait for the sandbox that is to be destroyed.
LEMMA NukeSound ==
  ASSUME NEW s \in ScriptFields, Base(s), Ending(s), Session(s), s.scripting # 0,
         ~s.odd => s.closing \/ ~On(s)
  PROVE  LET t == Nuke(s) IN
         /\ t \in ScriptFields /\ Base(t) /\ Parting(t) /\ Ending(t) /\ Session(t)
         /\ ~On(t) /\ t.last = s.last /\ t.asked = s.asked /\ t.closing = s.closing
         /\ t.odd = s.odd
<1> DEFINE t == Nuke(s)
           u == [s EXCEPT !.closeCapability = "none", !.document = 0]
           w == [u EXCEPT !.destroying = "nuke"]
<1>1. u \in ScriptFields
  BY ScriptNumbers, ZenonT(60) DEF ScriptFields
<1>2. /\ u.opened = s.opened /\ u.open = s.open /\ u.closing = s.closing
      /\ u.document = 0 /\ u.scripting = s.scripting /\ u.ready = s.ready /\ u.stage = s.stage
      /\ u.destroying = s.destroying /\ u.destroyCapability = s.destroyCapability
      /\ u.closeCapability = "none" /\ u.page = s.page /\ u.drawn = s.drawn
      /\ u.alive = s.alive /\ u.asked = s.asked /\ u.leaving = s.leaving /\ u.last = s.last
      /\ u.events = s.events /\ u.odd = s.odd /\ u.begun = s.begun /\ u.shown = s.shown
      /\ u.visited = s.visited /\ u.pageOpenPending = s.pageOpenPending
  BY DEF ScriptFields
<1>3. t = IF s.ready THEN Nuked(u) ELSE w
  BY <1>2 DEF Nuke
<1> HIDE DEF u, t
<1>4. Base(u) /\ ~On(u)
  BY <1>2 DEF Base, On
<1>5. ~s.odd =>
        /\ s.leaving \subseteq s.asked
        /\ s.asked # {} => s.stage = "done" /\ s.closing
        /\ s.stage \in {"unset", "actions", "properties", "sandbox"} => Fresh(u)
  BY <1>2 DEF Session, Fresh
<1>6. CASE s.ready
  <2>1. t = Nuked(u)
    BY <1>3, <1>6
  <2>2. Base(t) /\ Parting(t) /\ Session(t)
    BY <1>1, <1>2, <1>4, <1>5, <2>1, NukedBase, NukedSession
  <2>3. /\ t \in ScriptFields /\ t.closeCapability = "none" /\ t.destroying = "no"
        /\ t.stage = s.stage /\ t.last = s.last /\ t.asked = s.asked /\ t.closing = s.closing
        /\ t.odd = s.odd
    BY <1>1, <1>2, <2>1, NukedFacts
  <2>4. Ending(t)
    BY <1>6, <2>3 DEF Ending
  <2> QED BY <2>2, <2>3, <2>4 DEF t, On
<1>7. CASE ~s.ready
  <2>1. t = w
    BY <1>3, <1>7
  <2>2. w \in ScriptFields
    BY <1>1 DEF ScriptFields
  <2>3. /\ w.opened = u.opened /\ w.open = u.open /\ w.closing = u.closing
        /\ w.document = 0 /\ w.scripting = u.scripting /\ w.ready = u.ready /\ w.stage = u.stage
        /\ w.destroying = "nuke" /\ w.destroyCapability = u.destroyCapability
        /\ w.closeCapability = "none" /\ w.page = u.page /\ w.drawn = u.drawn
        /\ w.alive = u.alive /\ w.asked = u.asked /\ w.leaving = u.leaving /\ w.last = u.last
        /\ w.events = u.events /\ w.odd = u.odd /\ w.begun = u.begun /\ w.shown = u.shown
        /\ w.visited = u.visited /\ w.pageOpenPending = u.pageOpenPending
    BY <1>1, <1>2 DEF ScriptFields
  <2> HIDE DEF w
  <2>4. Base(w) /\ Parting(w) /\ ~On(w)
    BY <1>2, <1>4, <2>3 DEF Base, Parting, On
  <2>5. Ending(w)
    BY <1>2, <1>7, <2>3 DEF Ending
  <2>6. Session(w)
    <3> SUFFICES ASSUME ~s.odd PROVE Session(w)
      BY <1>2, <2>3 DEF Session
    <3>1. ~On(s)
      BY <1>7 DEF Session
    <3>2. Fresh(u) => Fresh(w)
      BY <2>3 DEF Fresh
    <3>3. s.asked = {}
      BY <3>1 DEF Session
    <3>4. /\ s.alive = {} /\ s.stage # "done" /\ s.pageOpenPending = {} /\ ~s.begun
          /\ \A p \in ScriptedPages : s.visited[p] = "no" /\ s.shown[p] = 0
      BY <3>1 DEF Session
    <3> QED BY <1>2, <1>5, <2>3, <2>4, <3>2, <3>3, <3>4 DEF Session
  <2> QED BY <1>2, <2>1, <2>2, <2>3, <2>4, <2>5, <2>6 DEF t
<1> QED BY <1>6, <1>7

\* What the script hears does not depend on what waits for the sandbox.
LEMMA SameTalks ==
  ASSUME NEW s, NEW t, Talks(s),
         t.odd = s.odd, On(t) <=> On(s), t.begun = s.begun, t.events = s.events,
         t.scripting = s.scripting, t.shown = s.shown, t.visited = s.visited,
         t.asked = s.asked, t.leaving = s.leaving, t.last = s.last,
         t.pageOpenPending = s.pageOpenPending, t.open = s.open, t.page = s.page
  PROVE  Talks(t)
<1>1. SUFFICES ASSUME ~t.odd, On(t) PROVE Heard(t) /\ Visits(t) /\ Faces(t)
  BY DEF Talks
<1>2. Heard(s) /\ Visits(s) /\ Faces(s)
  BY <1>1 DEF Talks
<1>3. Begins(t)
  BY <1>2 DEF Heard, Begins
<1>4. Alternates(t)
  BY <1>2 DEF Heard, Alternates, Noted
<1>5. Visits(t)
  BY <1>2 DEF Visits, Left
<1>6. Faces(t)
  BY <1>2 DEF Faces, Left
<1> QED BY <1>3, <1>4, <1>5, <1>6 DEF Heard

LEMMA DestroySound ==
  ASSUME NEW s \in ScriptFields, Base(s), Ending(s), Session(s), Awaited(s), Talks(s),
         s.stage # "sandbox" \/ (s.destroying = "no" /\ s.document # 0),
         ~s.odd => s.closing \/ ~On(s)
  PROVE  GoodScript(Destroy(s))
<1> DEFINE t == Destroy(s)
<1>1. CASE s.scripting = 0
  <2> DEFINE c == IF s.destroyCapability = "none" THEN "none" ELSE "resolved"
  <2>1. c \in {"none", "pending", "resolved"} /\ 0 \in Documents
    BY ScriptNumbers
  <2>2. t = [s EXCEPT !.document = 0, !.destroyCapability = c]
    BY <1>1 DEF Destroy, ScriptFields
  <2>3. c # "pending"
    OBVIOUS
  <2> HIDE DEF t, c
  <2>4. t \in ScriptFields
    BY <2>1, <2>2, ZenonT(60) DEF ScriptFields
  <2>5. /\ t.opened = s.opened /\ t.open = s.open /\ t.closing = s.closing
        /\ t.document = 0 /\ t.scripting = s.scripting /\ t.ready = s.ready /\ t.stage = s.stage
        /\ t.destroying = s.destroying /\ t.destroyCapability = c
        /\ t.closeCapability = s.closeCapability /\ t.page = s.page /\ t.drawn = s.drawn
        /\ t.alive = s.alive /\ t.asked = s.asked /\ t.leaving = s.leaving /\ t.last = s.last
        /\ t.events = s.events /\ t.odd = s.odd /\ t.begun = s.begun /\ t.shown = s.shown
        /\ t.visited = s.visited /\ t.pageOpenPending = s.pageOpenPending
    BY <2>2 DEF ScriptFields
  <2>6. Base(t) /\ Parting(t)
    BY <1>1, <2>3, <2>5 DEF Base, Parting
  <2>7. Ending(t)
    BY <1>1, <2>5 DEF Ending
  <2>8. On(t) <=> On(s)
    BY <2>5 DEF On
  <2>9. Session(t)
    BY <1>1, <2>5, <2>8 DEF Session, Fresh
  <2>10. Awaited(t)
    BY <2>5 DEF Awaited
  <2>11. Talks(t)
    BY <2>5, <2>8, SameTalks
  <2> QED BY <2>4, <2>6, <2>7, <2>9, <2>10, <2>11 DEF GoodScript, t
<1>2. CASE s.scripting # 0 /\ s.closeCapability = "pending"
  <2>1. t = [s EXCEPT !.destroying = "race"]
    BY <1>2 DEF Destroy
  <2> HIDE DEF t
  <2>2. t \in ScriptFields
    BY <2>1 DEF ScriptFields
  <2>3. /\ t.opened = s.opened /\ t.open = s.open /\ t.closing = s.closing
        /\ t.document = s.document /\ t.scripting = s.scripting /\ t.ready = s.ready
        /\ t.stage = s.stage
        /\ t.destroying = "race" /\ t.destroyCapability = s.destroyCapability
        /\ t.closeCapability = s.closeCapability /\ t.page = s.page /\ t.drawn = s.drawn
        /\ t.alive = s.alive /\ t.asked = s.asked /\ t.leaving = s.leaving /\ t.last = s.last
        /\ t.events = s.events /\ t.odd = s.odd /\ t.begun = s.begun /\ t.shown = s.shown
        /\ t.visited = s.visited /\ t.pageOpenPending = s.pageOpenPending
    BY <2>1 DEF ScriptFields
  <2>4. Base(t) /\ Parting(t)
    BY <1>2, <2>3 DEF Base, Parting
  <2>5. Ending(t)
    BY <2>3 DEF Ending
  <2>6. (On(t) <=> On(s)) /\ On(s)
    BY <1>2, <2>3 DEF On
  <2>7. Session(t)
    BY <2>3, <2>6 DEF Session, Fresh
  <2>8. Awaited(t)
    BY <2>3 DEF Awaited
  <2>9. Talks(t)
    BY <2>3, <2>6, SameTalks
  <2> QED BY <2>2, <2>4, <2>5, <2>7, <2>8, <2>9 DEF GoodScript, t
<1>3. CASE s.scripting # 0 /\ s.closeCapability # "pending"
  <2>1. t = Nuke(s)
    BY <1>3 DEF Destroy
  <2> HIDE DEF t
  <2>2. /\ t \in ScriptFields /\ Base(t) /\ Parting(t) /\ Ending(t) /\ Session(t)
        /\ ~On(t) /\ t.last = s.last /\ t.asked = s.asked /\ t.closing = s.closing
        /\ t.odd = s.odd
    BY <1>3, <2>1, NukeSound
  <2>3. Awaited(t) /\ Talks(t)
    BY <2>2 DEF Awaited, Talks
  <2> QED BY <2>2, <2>3 DEF GoodScript, t
<1> QED BY <1>1, <1>2, <1>3

----------------------------------------------------------------------------
(* The end of a document, and its beginning                                *)

\* The message WillClose and the closeCapability that is resolved.
LEMMA WillCloseSent ==
  ASSUME NEW s \in ScriptFields, Base(s), Parting(s), Ending(s), Session(s),
         ~s.odd /\ On(s) => Heard(s) /\ Visits(s),
         ~s.odd /\ On(s) => s.last \notin s.asked
  PROVE  LET u == [Tell(s, "WillClose", 0) EXCEPT
                     !.last = 0, !.closeCapability = IF @ = "none" THEN @ ELSE "resolved"] IN
         /\ u \in ScriptFields /\ Base(u) /\ Parting(u) /\ Ending(u) /\ Session(u)
         /\ (On(u) <=> On(s)) /\ u.last = 0 /\ Alike(s, u)
         /\ u.destroying = s.destroying /\ u.scripting = s.scripting /\ u.closing = s.closing
         /\ u.document = s.document /\ u.stage = s.stage
         /\ u.open = s.open /\ u.page = s.page /\ u.drawn = s.drawn
         /\ ~u.odd /\ On(u) => Heard(u) /\ Visits(u)
<1> DEFINE t == Tell(s, "WillClose", 0)
           c == IF t.closeCapability = "none" THEN "none" ELSE "resolved"
           u == [t EXCEPT !.last = 0, !.closeCapability = c]
           e == [to |-> s.scripting, event |-> <<"WillClose", 0>>]
<1>1. e \in Messages /\ <<"WillClose", 0>> \in Events /\ 0 \in 0..ScriptPages
  BY PageEvents, ScriptNumbers
<1>2. /\ t \in ScriptFields /\ Beside(s, t) /\ Alike(s, t) /\ t.last = s.last /\ Sent(s, t, e)
  BY <1>1, TellFacts
<1>3. [Tell(s, "WillClose", 0) EXCEPT
         !.last = 0, !.closeCapability = IF @ = "none" THEN @ ELSE "resolved"] = u
  BY <1>2 DEF ScriptFields
<1> HIDE DEF t
<1>4. c \in {"none", "pending", "resolved"} /\ (c = "none" <=> s.closeCapability = "none")
  BY <1>2 DEF Beside
<1>5. e.to = s.scripting /\ e.event[1] = "WillClose"
  OBVIOUS
<1> HIDE DEF c, e
<1>6. u \in ScriptFields
  BY <1>1, <1>2, <1>4, ZenonT(60) DEF ScriptFields
<1>7. /\ u.opened = t.opened /\ u.open = t.open /\ u.closing = t.closing
      /\ u.document = t.document /\ u.scripting = t.scripting /\ u.ready = t.ready
      /\ u.stage = t.stage
      /\ u.destroying = t.destroying /\ u.destroyCapability = t.destroyCapability
      /\ u.closeCapability = c /\ u.page = t.page /\ u.drawn = t.drawn
      /\ u.alive = t.alive /\ u.asked = t.asked /\ u.leaving = t.leaving /\ u.last = 0
      /\ u.events = t.events /\ u.odd = t.odd /\ u.begun = t.begun /\ u.shown = t.shown
      /\ u.visited = t.visited /\ u.pageOpenPending = t.pageOpenPending
  BY <1>2 DEF ScriptFields
<1> HIDE DEF u
<1>8. Base(t) /\ Parting(t) /\ Ending(t) /\ (Fresh(s) => Fresh(t))
  BY <1>1, <1>2, <1>5, SentKeeps
<1>9. Session(t)
  BY <1>2, <1>8, SessionGoesOn DEF Alike
<1>10. (On(u) <=> On(t)) /\ (On(t) <=> On(s))
  BY <1>2, <1>4, <1>7 DEF On, Beside
<1>11. Base(u) /\ Parting(u) /\ Ending(u)
  BY <1>7, <1>8 DEF Base, Parting, Ending
<1>12. Session(u)
  BY <1>7, <1>9, <1>10 DEF Session, Fresh
<1>13. ASSUME ~u.odd, On(u)
       PROVE  Heard(u) /\ Visits(u)
  <2>1. ~s.odd /\ On(s) /\ Heard(s) /\ Visits(s) /\ s.last \notin s.asked
    BY <1>2, <1>7, <1>10, <1>13 DEF Alike
  <2>2. s.scripting # 0
    BY <2>1 DEF Session
  <2>3. \A p \in ScriptedPages : Noted(t, p) = Noted(s, p)
    BY <1>2 DEF Noted, Alike
  <2>4. \A p \in ScriptedPages : Moves(e, s.scripting, p, Noted(s, p), Noted(t, p))
    BY <1>5, <2>3, MovesNothing
  <2>5. Begins(t) /\ Alternates(t)
    BY <1>1, <1>2, <2>1, <2>2, <2>4, BeginsOn, AlternatesOn DEF Heard
  <2>6. Begins(u)
    BY <1>7, <2>5 DEF Begins
  <2>7. Alternates(u)
    BY <1>7, <2>5 DEF Alternates, Noted
  <2>8. Visits(u)
    BY <1>2, <1>7, <2>1, ScriptNumbers DEF Visits, Left, Alike
  <2> QED BY <2>6, <2>7, <2>8 DEF Heard
<1>14. Alike(s, u)
  BY <1>2, <1>7 DEF Alike
<1>15. /\ u.destroying = s.destroying /\ u.scripting = s.scripting /\ u.closing = s.closing
       /\ u.document = s.document /\ u.stage = s.stage
       /\ u.open = s.open /\ u.page = s.page /\ u.drawn = s.drawn
  BY <1>2, <1>7 DEF Beside
<1> QED BY <1>3, <1>6, <1>7, <1>10, <1>11, <1>12, <1>13, <1>14, <1>15

\* The end of pagesdestroy, also while no document shows.
LEMMA WillCloseSound ==
  ASSUME NEW s \in ScriptFields, Base(s), Parting(s), Ending(s), Session(s),
         ~s.odd /\ On(s) => Heard(s) /\ Visits(s),
         ~s.odd /\ On(s) => s.last \notin s.asked
  PROVE  LET t == WillClose(s) IN
         /\ t \in ScriptFields /\ Base(t) /\ Parting(t) /\ Ending(t) /\ Session(t) /\ t.last = 0
         /\ t.closing = s.closing /\ t.odd = s.odd /\ (On(t) => On(s))
         /\ ~t.odd /\ On(t) =>
              /\ Heard(t) /\ Visits(t) /\ t.open = s.open /\ t.page = s.page
              /\ t.visited = s.visited /\ t.pageOpenPending = s.pageOpenPending
<1> DEFINE t == WillClose(s)
           u == [Tell(s, "WillClose", 0) EXCEPT
                   !.last = 0, !.closeCapability = IF @ = "none" THEN @ ELSE "resolved"]
<1>1. /\ u \in ScriptFields /\ Base(u) /\ Parting(u) /\ Ending(u) /\ Session(u)
      /\ (On(u) <=> On(s)) /\ u.last = 0 /\ Alike(s, u)
      /\ u.destroying = s.destroying /\ u.scripting = s.scripting /\ u.closing = s.closing
      /\ u.open = s.open /\ u.page = s.page
      /\ ~u.odd /\ On(u) => Heard(u) /\ Visits(u)
  BY WillCloseSent
<1>2. t = IF u.destroying = "race" THEN Nuke(u) ELSE u
  BY DEF WillClose
<1> HIDE DEF t, u
<1>3. CASE u.destroying = "race"
  <2>1. u.scripting # 0 /\ (~u.odd => u.closing)
    BY <1>1, <1>3 DEF Base, Session
  <2> QED BY <1>1, <1>2, <1>3, <2>1, NukeSound DEF t, Alike
<1>4. CASE u.destroying # "race"
  BY <1>1, <1>2, <1>4 DEF t, Alike
<1> QED BY <1>3, <1>4

\* The sandbox is made.
LEMMA CreatedSound ==
  ASSUME NEW s \in ScriptFields, Base(s), Parting(s), Session(s), Awaited(s), s.ready,
         s.stage \in {"properties", "sandbox"}, s.scripting # 0,
         s.document # 0 \/ s.destroying = "nuke", s.destroying = "nuke" => s.document = 0
  PROVE  GoodScript(Created(s))
<1> DEFINE A == s.alive \cup {s.scripting}
           t == [s EXCEPT !.alive = A]
           u == IF s.destroying = "nuke" THEN Nuked(t) ELSE t
           w == Tell(u, "Open", 0)
           o == w.odd \/ (u.scripting = 0)
           v1 == [w EXCEPT !.stage = "done", !.closeCapability = "pending"]
           v == [w EXCEPT !.stage = "done", !.closeCapability = "pending",
                          !.odd = @ \/ (u.scripting = 0)]
           d == DispatchPageOpen(v, v.page)
<1>1. Created(s) = d
  BY DEF Created
<1>2. A \in SUBSET Documents
  BY ScriptTypes
<1> HIDE DEF A, d
<1>3. t \in ScriptFields
  BY <1>2 DEF ScriptFields
<1>4. /\ t.opened = s.opened /\ t.open = s.open /\ t.closing = s.closing
      /\ t.document = s.document /\ t.scripting = s.scripting /\ t.ready = s.ready
      /\ t.stage = s.stage
      /\ t.destroying = s.destroying /\ t.destroyCapability = s.destroyCapability
      /\ t.closeCapability = s.closeCapability /\ t.page = s.page /\ t.drawn = s.drawn
      /\ t.alive = A /\ t.asked = s.asked /\ t.leaving = s.leaving /\ t.last = s.last
      /\ t.events = s.events /\ t.odd = s.odd /\ t.begun = s.begun /\ t.shown = s.shown
      /\ t.visited = s.visited /\ t.pageOpenPending = s.pageOpenPending
  BY DEF ScriptFields
<1> HIDE DEF t
<1>5. Base(t) /\ Parting(t)
  <2>1. t.alive \subseteq {t.scripting} \ {0}
    BY <1>4 DEF A, Base
  <2> QED BY <1>4, <2>1 DEF Base, Parting
<1>6. /\ u \in ScriptFields /\ Base(u) /\ Parting(u)
      /\ u.destroying # "nuke" /\ u.ready /\ u.odd = s.odd /\ u.stage = s.stage
      /\ u.scripting # 0 => u = t
  <2>1. CASE s.destroying = "nuke"
    <3>1. u = Nuked(t)
      BY <2>1
    <3>2. t.document = 0
      BY <1>4, <2>1
    <3> HIDE DEF u
    <3>3. u \in ScriptFields /\ Base(u) /\ Parting(u)
      BY <1>3, <1>5, <3>1, <3>2, NukedFacts, NukedBase
    <3>4. /\ u.destroying = "no" /\ u.ready = t.ready /\ u.odd = t.odd /\ u.stage = t.stage
          /\ u.scripting = 0
      BY <1>3, <3>1, NukedFacts
    <3> QED BY <1>4, <3>3, <3>4
  <2>2. CASE s.destroying # "nuke"
    BY <1>3, <1>4, <1>5, <2>2
  <2> QED BY <2>1, <2>2
<1> HIDE DEF u
<1> DEFINE e == [to |-> u.scripting, event |-> <<"Open", 0>>]
<1>7. e \in Messages /\ <<"Open", 0>> \in Events /\ e.to = u.scripting /\ e = OpenOf(u.scripting)
  BY <1>6, PageEvents, ScriptNumbers DEF OpenOf
<1> HIDE DEF e
<1>8. /\ w \in ScriptFields /\ Beside(u, w) /\ Alike(u, w) /\ w.last = u.last /\ Sent(u, w, e)
  BY <1>6, <1>7, TellFacts DEF e
<1>9. Base(w) /\ Parting(w)
  BY <1>6, <1>7, <1>8, SentKeeps
<1> HIDE DEF w
<1>10. v1 \in ScriptFields
  BY <1>8, ZenonT(60) DEF ScriptFields
<1>11. v = [v1 EXCEPT !.odd = o]
  BY <1>8 DEF ScriptFields
<1>12. o \in BOOLEAN /\ (o <=> s.odd \/ u.scripting = 0)
  BY <1>6, <1>8, ScriptTypes DEF Alike
<1> HIDE DEF o, v, v1
<1>13. v \in ScriptFields
  BY <1>10, <1>11, <1>12 DEF ScriptFields
<1>14. v1.stage = "done" /\ v1.closeCapability = "pending"
       /\ v1.opened = w.opened /\ v1.open = w.open /\ v1.closing = w.closing
       /\ v1.document = w.document /\ v1.scripting = w.scripting /\ v1.ready = w.ready
       /\ v1.destroying = w.destroying /\ v1.destroyCapability = w.destroyCapability
       /\ v1.page = w.page /\ v1.drawn = w.drawn
       /\ v1.alive = w.alive /\ v1.asked = w.asked /\ v1.leaving = w.leaving /\ v1.last = w.last
       /\ v1.events = w.events /\ v1.begun = w.begun /\ v1.shown = w.shown
       /\ v1.visited = w.visited /\ v1.pageOpenPending = w.pageOpenPending
  BY <1>8 DEF ScriptFields, v1
<1>15. v.stage = "done" /\ v.closeCapability = "pending" /\ v.odd = o
       /\ v.opened = w.opened /\ v.open = w.open /\ v.closing = w.closing
       /\ v.document = w.document /\ v.scripting = w.scripting /\ v.ready = w.ready
       /\ v.destroying = w.destroying /\ v.destroyCapability = w.destroyCapability
       /\ v.page = w.page /\ v.drawn = w.drawn
       /\ v.alive = w.alive /\ v.asked = w.asked /\ v.leaving = w.leaving /\ v.last = w.last
       /\ v.events = w.events /\ v.begun = w.begun /\ v.shown = w.shown
       /\ v.visited = w.visited /\ v.pageOpenPending = w.pageOpenPending
  BY <1>10, <1>11, <1>14 DEF ScriptFields
<1>16. Base(v) /\ Parting(v) /\ On(v)
  BY <1>9, <1>15 DEF Base, Parting, On
<1>17. Ending(v)
  BY <1>6, <1>8, <1>15 DEF Ending, Beside
<1>18. v.page \in ScriptedPages
  BY <1>13, ScriptTypes
<1>19. /\ d \in ScriptFields /\ Beside(v, d) /\ OpensPage(v, d, v.page)
       /\ d.last = v.last /\ d.leaving = v.leaving
  BY <1>13, <1>18, OpenFacts DEF d
<1>20. Base(d) /\ Parting(d) /\ Ending(d)
  <2>1. CASE d.events = v.events
    BY <1>13, <1>16, <1>17, <1>19, <2>1, BesideKeeps
  <2>2. CASE Sent(v, d, PageOpenOf(v.scripting, v.page))
    <3>1. /\ PageOpenOf(v.scripting, v.page) \in Messages
          /\ PageOpenOf(v.scripting, v.page).to = v.scripting
      BY <1>13, <1>18, PageEvents DEF PageOpenOf
    <3> QED BY <1>13, <1>16, <1>17, <1>19, <2>2, <3>1, SentKeeps
  <2> QED BY <1>19, <2>1, <2>2 DEF OpensPage
<1>21. CASE o
  <2>1. d.odd
    BY <1>15, <1>16, <1>19, <1>21 DEF OpensPage
  <2> QED BY <1>1, <1>19, <1>20, <2>1 DEF GoodScript, Session, Awaited, Talks
<1>22. CASE ~o
  <2>1. ~s.odd /\ u = t /\ u.scripting # 0
    BY <1>6, <1>12, <1>22
  <2>2. ~On(s)
    BY <2>1 DEF Session
  <2>3. /\ s.asked = {} /\ s.leaving = {} /\ s.alive = {} /\ s.pageOpenPending = {} /\ ~s.begun
        /\ \A p \in ScriptedPages : s.visited[p] = "no" /\ s.shown[p] = 0
        /\ s.destroying # "race" /\ Fresh(s)
    BY <2>1, <2>2 DEF Session
  <2>4. s.last = 0
    BY <2>1, <2>3 DEF Awaited
  <2>5. s.destroying # "nuke" /\ s.document # 0 /\ s.document = s.scripting
    <3>1. CASE s.destroying = "nuke"
      <4>1. u = Nuked(t) /\ Nuked(t).scripting = 0
        BY <1>3, <3>1, NukedFacts DEF u
      <4> QED BY <2>1, <4>1
    <3> QED BY <3>1 DEF Base
  <2>6. s.open # 0
    BY <2>3, <2>5 DEF Base, Parting
  <2>7. /\ v.scripting = s.scripting /\ v.document = s.document /\ v.ready /\ v.alive = A
        /\ v.asked = {} /\ v.leaving = {} /\ v.last = 0 /\ v.pageOpenPending = {} /\ ~v.begun
        /\ v.visited = s.visited /\ v.shown = s.shown /\ v.open = s.open /\ ~v.odd
        /\ v.destroying = s.destroying
    BY <1>4, <1>6, <1>8, <1>15, <1>22, <2>1, <2>3, <2>4 DEF Beside, Alike
  <2>8. A = {s.scripting}
    BY <2>3 DEF A
  <2>9. Session(v)
    BY <1>15, <1>16, <2>3, <2>5, <2>7, <2>8 DEF Session
  <2>10. s.events \in Seq(Messages) /\ w.events = Append(s.events, e) /\ s.scripting = s.opened
    <3>1. w.events = Append(u.events, e)
      BY <2>1, <1>8 DEF Sent
    <3> QED BY <1>4, <2>1, <3>1, ScriptTypes DEF Base
  <2>11. \A i \in DOMAIN s.events : s.events[i].to = s.scripting => s.events[i].event[1] = "WillClose"
    BY <2>3, <2>10 DEF Fresh
  <2>12. e = OpenOf(s.scripting) /\ e.to = s.scripting /\ e.event[1] = "Open"
    BY <1>4, <1>7, <2>1 DEF OpenOf
  <2>13. Alternates(v)
    <3>1. ASSUME NEW p \in ScriptedPages
          PROVE  Runs(v.events, v.scripting, p, v.shown[p], Noted(v, p))
      <4>1. Runs(s.events, s.scripting, p, 0, 0)
        BY <2>10, <2>11, RunsNowhere
      <4>2. Moves(e, s.scripting, p, 0, 0)
        BY <2>12, MovesNothing
      <4>3. Runs(Append(s.events, e), s.scripting, p, 0, 0)
        BY <1>7, <2>10, <4>1, <4>2, RunsOn
      <4>4. v.shown[p] = 0 /\ Noted(v, p) = 0
        BY <2>3, <2>7 DEF Noted
      <4> QED BY <1>15, <2>7, <2>10, <4>3, <4>4
    <3> QED BY <3>1 DEF Alternates
  <2>14. Begins(v)
    <3>1. PICK n \in DOMAIN w.events :
             /\ w.events[n] = e
             /\ \A i \in DOMAIN w.events : i = n \/ i \in DOMAIN u.events
      BY <1>6, <1>7, <1>8, <2>1, SentLast
    <3>2. \A i \in DOMAIN u.events : i \in DOMAIN w.events /\ w.events[i] = u.events[i]
      BY <1>6, <1>7, <1>8, <2>1, SentLast
    <3>3. u.events = s.events
      BY <1>4, <2>1
    <3>4. \A i \in DOMAIN w.events :
            w.events[i].to = s.scripting => w.events[i].event[1] # "PageOpen"
      BY <2>11, <2>12, <3>1, <3>2, <3>3
    <3>5. \A p \in ScriptedPages : v.shown[p] # 1
      BY <2>3, <2>7
    <3> QED BY <1>15, <2>7, <2>12, <3>1, <3>4, <3>5 DEF Begins
  <2>15. Visits(v) /\ \A p \in ScriptedPages : Left(v, p)
    BY <2>3, <2>7 DEF Visits, Left
  <2>16. ~d.odd => Heard(d) /\ Visits(d) /\ Faces(d)
    BY <1>13, <1>16, <1>18, <2>1, <2>6, <2>7, <2>13, <2>14, <2>15, OpenFaces, <1>4
    DEF Heard, d
  <2>17. Session(d)
    <3>1. v.odd => d.odd
      BY <2>7
    <3>2. d.leaving \subseteq d.asked
      BY <1>19, <2>7
    <3> HIDE DEF d
    <3>3. d \in ScriptFields /\ Beside(v, d) /\ On(v)
      BY <1>16, <1>19
    <3>4. On(v) \/ (d.asked = v.asked /\ d.visited = v.visited
                       /\ d.pageOpenPending = v.pageOpenPending /\ (Fresh(v) => Fresh(d)))
      BY <3>3
    <3>5. v.leaving \subseteq v.asked => d.leaving \subseteq d.asked
      BY <3>2
    <3> QED BY <1>13, <2>9, <3>1, <3>3, <3>4, <3>5, SessionGoesOn
  <2>18. Awaited(d)
    BY <1>19, <2>7 DEF Awaited
  <2> QED BY <1>1, <1>19, <1>20, <2>16, <2>17, <2>18 DEF GoodScript, Talks
<1> QED BY <1>21, <1>22

----------------------------------------------------------------------------
(* setDocument of the manager                                              *)

\* Records that differ in what the manager waits for only.
Besides(s, t) ==
  /\ t.opened = s.opened /\ t.open = s.open /\ t.closing = s.closing
  /\ t.destroying = s.destroying /\ t.destroyCapability = s.destroyCapability
  /\ t.closeCapability = s.closeCapability /\ t.page = s.page /\ t.drawn = s.drawn
  /\ t.alive = s.alive /\ t.asked = s.asked /\ t.leaving = s.leaving /\ t.last = s.last
  /\ t.events = s.events /\ t.odd = s.odd /\ t.begun = s.begun /\ t.shown = s.shown
  /\ t.visited = s.visited /\ t.pageOpenPending = s.pageOpenPending

LEMMA BesidesTalks ==
  ASSUME NEW s, NEW t, Talks(s), Besides(s, t), t.scripting = s.scripting
  PROVE  Talks(t)
<1>1. On(t) <=> On(s)
  BY DEF Besides, On
<1> QED BY <1>1, SameTalks DEF Besides

\* What setDocument waited for failed, or there is no document any more.
LEMMA StageEnds ==
  ASSUME NEW s \in ScriptFields, GoodScript(s), s.stage \in {"actions", "properties"}
  PROVE  LET t == [s EXCEPT !.stage = "none"] IN
         /\ GoodScript(t) /\ t.stage = "none" /\ (~t.odd => ~On(t))
<1> DEFINE t == [s EXCEPT !.stage = "none"]
<1>1. /\ t \in ScriptFields /\ t.stage = "none" /\ Besides(s, t) /\ t.ready = s.ready
      /\ t.document = s.document /\ t.scripting = s.scripting
  BY DEF ScriptFields, Besides
<1> HIDE DEF t
<1>2. Base(s) /\ Parting(s) /\ Ending(s) /\ Session(s) /\ Awaited(s) /\ Talks(s)
  BY DEF GoodScript
<1>3. Base(t) /\ Parting(t) /\ Ending(t)
  BY <1>1, <1>2 DEF Base, Parting, Ending, Besides
<1>4. On(t) <=> On(s)
  BY <1>1 DEF On, Besides
<1>5. Session(t) /\ (~t.odd => ~On(t))
  BY <1>1, <1>2, <1>4 DEF Session, Besides
<1>6. Awaited(t)
  BY <1>1, <1>2 DEF Awaited, Besides
<1>7. Talks(t)
  BY <1>1, <1>2, BesidesTalks
<1> QED BY <1>1, <1>3, <1>5, <1>6, <1>7 DEF GoodScript, t

LEMMA ActionsAnsweredKeeps ==
  ASSUME GoodScript(script), ActionsAnswered
  PROVE  GoodScript(script')
<1> DEFINE s == script
           n == [s EXCEPT !.stage = "none"]
           t == script'
<1>1. /\ s \in ScriptFields /\ Base(s) /\ Parting(s) /\ Ending(s) /\ Session(s)
      /\ Awaited(s) /\ Talks(s)
  BY DEF GoodScript
<1>2. s.stage = "actions" /\ s.scripting = 0
  BY <1>1 DEF ActionsAnswered, Base
<1>3. GoodScript(n) /\ n.stage = "none" /\ (~n.odd => ~On(n))
  BY <1>1, <1>2, StageEnds
<1>4. CASE t = Destroy(n)
  <2> HIDE DEF n
  <2>1. GoodScript(Destroy(n))
    BY <1>3, DestroySound DEF GoodScript
  <2> QED BY <1>4, <2>1
<1>5. CASE s.document = 0 /\ t = n
  BY <1>3, <1>5
<1>6. CASE s.document # 0 /\ t = [s EXCEPT !.scripting = s.document, !.ready = FALSE,
                                           !.destroyCapability = "pending", !.stage = "properties"]
  <2> DEFINE d1 == [s EXCEPT !.scripting = s.document, !.ready = FALSE]
             d2 == [d1 EXCEPT !.destroyCapability = "pending", !.stage = "properties"]
  <2> HIDE DEF t
  <2>1. d1 \in ScriptFields
    BY <1>1, ScriptTypes, ZenonT(60) DEF ScriptFields
  <2>2. d2 \in ScriptFields
    <3> HIDE DEF d1
    <3> QED BY <2>1, ZenonT(60) DEF ScriptFields
  <2>3. t = d2
    BY <1>1, <1>6 DEF ScriptFields
  <2>4. /\ t.opened = s.opened /\ t.open = s.open /\ t.closing = s.closing
        /\ t.document = s.document /\ t.scripting = s.document /\ ~t.ready
        /\ t.stage = "properties"
        /\ t.destroying = s.destroying /\ t.destroyCapability = "pending"
        /\ t.closeCapability = s.closeCapability /\ t.page = s.page /\ t.drawn = s.drawn
        /\ t.alive = s.alive /\ t.asked = s.asked /\ t.leaving = s.leaving /\ t.last = s.last
        /\ t.events = s.events /\ t.odd = s.odd /\ t.begun = s.begun /\ t.shown = s.shown
        /\ t.visited = s.visited /\ t.pageOpenPending = s.pageOpenPending
    BY <1>1, <1>6 DEF ScriptFields
  <2> HIDE DEF s
  <2>5. s.alive = {} /\ s.destroying = "no" /\ s.document # 0
    BY <1>1, <1>2, <1>6 DEF Base
  <2>6. s.open # 0
    BY <1>1, <2>5 DEF Base, Parting
  <2>7. Base(t) /\ Parting(t) /\ Ending(t)
    BY <1>1, <2>4, <2>5, <2>6 DEF Base, Parting, Ending
  <2>8. (On(t) <=> On(s)) /\ (~s.odd => ~On(s))
    BY <1>1, <1>2, <2>4 DEF On, Session
  <2>9. Session(t)
    BY <1>1, <1>2, <2>4, <2>8 DEF Session, Fresh
  <2>10. Awaited(t) /\ Talks(t)
    BY <1>1, <2>4, <2>8 DEF Awaited, Talks
  <2> QED BY <2>2, <2>3, <2>7, <2>9, <2>10 DEF GoodScript, t, s
<1> QED BY <1>4, <1>5, <1>6 DEF ActionsAnswered

LEMMA SetScriptedDocumentKeeps ==
  ASSUME GoodScript(script), SetScriptedDocument
  PROVE  GoodScript(script')
<1> DEFINE s == script
           t == script'
<1>1. /\ s \in ScriptFields /\ Base(s) /\ Parting(s) /\ Ending(s) /\ Session(s)
      /\ Awaited(s) /\ Talks(s)
  BY DEF GoodScript
<1>2. /\ s.stage = "unset" /\ s.drawn # {} /\ s.open \in Documents
      /\ t = [s EXCEPT !.document = s.open, !.stage = "actions"]
  BY <1>1, ScriptTypes DEF SetScriptedDocument
<1> HIDE DEF t
<1>3. t \in ScriptFields
  BY <1>1, <1>2, ZenonT(60) DEF ScriptFields
<1>4. Besides(s, t) /\ t.ready = s.ready /\ t.document = s.open /\ t.scripting = s.scripting
      /\ t.stage = "actions"
  BY <1>1, <1>2 DEF ScriptFields, Besides
<1> HIDE DEF s
<1>5. s.open # 0 /\ ~s.closing
  BY <1>1, <1>2 DEF Base
<1>6. Base(t) /\ Parting(t) /\ Ending(t)
  BY <1>1, <1>2, <1>4, <1>5 DEF Base, Parting, Ending, Besides
<1>7. (On(t) <=> On(s)) /\ (~s.odd => ~On(s))
  BY <1>1, <1>2, <1>4 DEF On, Session, Besides
<1>8. Session(t)
  BY <1>1, <1>2, <1>4, <1>7 DEF Session, Fresh, Besides
<1>9. Awaited(t) /\ Talks(t)
  BY <1>1, <1>4, <1>7 DEF Awaited, Talks, Besides
<1> QED BY <1>3, <1>6, <1>8, <1>9 DEF GoodScript, t

LEMMA ScriptPropertiesAnsweredKeeps ==
  ASSUME GoodScript(script), ScriptPropertiesAnswered
  PROVE  GoodScript(script')
<1> DEFINE s == script
           t == script'
<1>1. /\ s \in ScriptFields /\ Base(s) /\ Parting(s) /\ Ending(s) /\ Session(s)
      /\ Awaited(s) /\ Talks(s)
  BY DEF GoodScript
<1>2. s.stage = "properties"
  BY DEF ScriptPropertiesAnswered
<1>3. CASE t = [s EXCEPT !.stage = "none"]
  BY <1>1, <1>2, <1>3, StageEnds
<1>4. CASE s.document # 0 /\ s.ready /\ t = Created(s)
  <2>1. s.scripting # 0 /\ (s.destroying = "nuke" => s.document = 0)
    BY <1>1, <1>2, <1>4 DEF Base, Ending
  <2>2. GoodScript(Created(s))
    BY <1>1, <1>2, <1>4, <2>1, CreatedSound
  <2> QED BY <1>4, <2>2
<1>5. CASE s.document # 0 /\ ~s.ready /\ t = [s EXCEPT !.stage = "sandbox"]
  <2> HIDE DEF t
  <2>1. /\ t \in ScriptFields /\ t.stage = "sandbox" /\ Besides(s, t) /\ t.ready = s.ready
        /\ t.document = s.document /\ t.scripting = s.scripting
    BY <1>1, <1>5 DEF ScriptFields, Besides
  <2> HIDE DEF s
  <2>2. Base(t) /\ Parting(t) /\ Ending(t)
    BY <1>1, <1>2, <1>5, <2>1 DEF Base, Parting, Ending, Besides
  <2>3. On(t) <=> On(s)
    BY <2>1 DEF On, Besides
  <2>4. Session(t)
    BY <1>1, <1>2, <2>1, <2>3 DEF Session, Fresh, Besides
  <2>5. Awaited(t)
    BY <1>1, <2>1 DEF Awaited, Besides
  <2>6. Talks(t)
    BY <1>1, <2>1, BesidesTalks
  <2> QED BY <2>1, <2>2, <2>4, <2>5, <2>6 DEF GoodScript, t
<1> QED BY <1>3, <1>4, <1>5 DEF ScriptPropertiesAnswered

LEMMA PropertiesFailKeeps ==
  ASSUME GoodScript(script), PropertiesFail
  PROVE  GoodScript(script')
<1> DEFINE n == [script EXCEPT !.stage = "none"]
<1>1. GoodScript(n) /\ n.stage = "none" /\ (~n.odd => ~On(n))
  BY StageEnds DEF GoodScript, PropertiesFail
<1>2. script' = Destroy(n)
  BY DEF PropertiesFail
<1> HIDE DEF n
<1>3. GoodScript(Destroy(n))
  BY <1>1, DestroySound DEF GoodScript
<1> QED BY <1>2, <1>3

LEMMA SandboxReadyKeeps ==
  ASSUME GoodScript(script), SandboxReady
  PROVE  GoodScript(script')
<1> DEFINE s == script
           t == [s EXCEPT !.ready = TRUE]
<1>1. /\ s \in ScriptFields /\ Base(s) /\ Parting(s) /\ Ending(s) /\ Session(s)
      /\ Awaited(s) /\ Talks(s)
  BY DEF GoodScript
<1>2. s.scripting # 0 /\ ~s.ready
  BY DEF SandboxReady
<1>3. script' = IF t.stage = "sandbox" THEN Created(t)
                ELSE IF t.destroying = "nuke" THEN Nuked(t) ELSE t
  BY DEF SandboxReady
<1>4. /\ t \in ScriptFields /\ Besides(s, t) /\ t.ready /\ t.stage = s.stage
      /\ t.document = s.document /\ t.scripting = s.scripting
  BY <1>1 DEF ScriptFields, Besides
<1> HIDE DEF s, t
<1>5. Base(t) /\ Parting(t)
  BY <1>1, <1>4 DEF Base, Parting, Besides
<1>6. (On(t) <=> On(s)) /\ (~s.odd => ~On(s))
  BY <1>1, <1>2, <1>4 DEF On, Session, Besides
<1>7. Session(t)
  BY <1>1, <1>4, <1>6 DEF Session, Fresh, Besides
<1>8. Awaited(t) /\ Talks(t)
  BY <1>1, <1>4, <1>6 DEF Awaited, Talks, Besides
<1>9. CASE t.stage = "sandbox"
  <2>1. /\ t.scripting # 0 /\ (t.document # 0 \/ t.destroying = "nuke")
        /\ (t.destroying = "nuke" => t.document = 0)
    BY <1>1, <1>4, <1>9 DEF Ending, Besides
  <2>2. GoodScript(Created(t))
    BY <1>4, <1>5, <1>7, <1>8, <1>9, <2>1, CreatedSound
  <2> QED BY <1>3, <1>9, <2>2
<1>10. CASE t.stage # "sandbox" /\ t.destroying = "nuke"
  <2> DEFINE n == Nuked(t)
  <2>1. t.document = 0
    BY <1>1, <1>4, <1>10 DEF Ending, Besides
  <2>2. Base(n) /\ Parting(n)
    BY <1>4, <1>5, <2>1, NukedBase
  <2>3. ~t.odd =>
          /\ ~On(t) /\ t.leaving \subseteq t.asked
          /\ t.asked # {} => t.stage = "done" /\ t.closing
          /\ t.stage \in {"unset", "actions", "properties", "sandbox"} => Fresh(t)
    BY <1>4, <1>6, <1>7 DEF Session, Besides
  <2>4. Session(n) /\ (~t.odd => ~On(n))
    BY <1>4, <1>5, <2>3, NukedSession
  <2>5. /\ n \in ScriptFields /\ n.odd = t.odd /\ n.closing = t.closing /\ n.last = t.last
        /\ n.asked = t.asked /\ n.destroying = "no" /\ n.stage = t.stage
    BY <1>4, NukedFacts
  <2> HIDE DEF n
  <2>6. Ending(n) /\ Awaited(n) /\ Talks(n)
    BY <1>8, <1>10, <2>4, <2>5 DEF Ending, Awaited, Talks
  <2> QED BY <1>3, <1>10, <2>2, <2>4, <2>5, <2>6 DEF GoodScript, n
<1>11. CASE t.stage # "sandbox" /\ t.destroying # "nuke"
  <2>1. Ending(t)
    BY <1>11 DEF Ending
  <2> QED BY <1>3, <1>4, <1>5, <1>7, <1>8, <1>11, <2>1 DEF GoodScript
<1> QED BY <1>9, <1>10, <1>11

----------------------------------------------------------------------------
(* The events of the sandbox                                               *)

\* The tail of the events, without the first.
LEMMA TailOfEvents ==
  ASSUME NEW q \in Seq(Messages), q # <<>>
  PROVE  /\ Tail(q) \in Seq(Messages) /\ Head(q) \in Messages
         /\ 1 \in DOMAIN q /\ Head(q) = q[1]
         /\ \A i \in DOMAIN Tail(q) : i + 1 \in DOMAIN q /\ Tail(q)[i] = q[i + 1]
         /\ \A j \in DOMAIN q : j = 1 \/ (j - 1 \in DOMAIN Tail(q) /\ Tail(q)[j - 1] = q[j])
         /\ DOMAIN q \subseteq Nat \ {0} /\ DOMAIN Tail(q) \subseteq Nat \ {0}
<1>1. /\ Len(q) \in Nat /\ Len(q) # 0 /\ DOMAIN q = 1..Len(q) /\ Head(q) = q[1]
      /\ Tail(q) \in Seq(Messages) /\ Head(q) \in Messages /\ Len(Tail(q)) = Len(q) - 1
      /\ \A i \in 1..Len(Tail(q)) : Tail(q)[i] = q[i + 1]
  BY HeadTailProperties, EmptySeq, LenProperties
<1>2. DOMAIN Tail(q) = 1..(Len(q) - 1)
  BY <1>1, LenProperties
<1> QED BY <1>1, <1>2

\* The order in which the script hears is kept when it has heard the first event.
LEMMA TailBegins ==
  ASSUME NEW s, NEW t, s.events \in Seq(Messages), s.events # <<>>, t.events = Tail(s.events),
         t.scripting = s.scripting, Begins(s),
         t.begun \/ (t.begun = s.begun /\ Head(s.events) # OpenOf(s.scripting)),
         \A p \in ScriptedPages : t.shown[p] = 1 => t.begun
  PROVE  Begins(t)
<1> DEFINE q == s.events
           u == t.events
           o == OpenOf(s.scripting)
<1>1. CASE t.begun
  BY <1>1 DEF Begins
<1>2. CASE ~t.begun
  <2>1. ~s.begun /\ q[1] # o
    BY <1>2, TailOfEvents
  <2>2. /\ \A i \in DOMAIN u : i \in Nat /\ i # 0 /\ i + 1 \in DOMAIN q /\ u[i] = q[i + 1]
        /\ \A j \in DOMAIN q : j \in Nat /\ (j = 1 \/ (j - 1 \in DOMAIN u /\ u[j - 1] = q[j]))
    BY TailOfEvents
  <2> HIDE DEF q, u, o
  <2>3. PICK j \in DOMAIN q : q[j] = o
    BY <2>1 DEF Begins, q, o
  <2>4. \E i \in DOMAIN u : u[i] = o
    BY <2>1, <2>2, <2>3
  <2>5. ASSUME NEW i \in DOMAIN u, u[i].to = s.scripting, u[i].event[1] = "PageOpen"
        PROVE  \E k \in DOMAIN u : k < i /\ u[k] = o
    <3>1. i + 1 \in DOMAIN q /\ q[i + 1].to = s.scripting /\ q[i + 1].event[1] = "PageOpen"
      BY <2>2, <2>5
    <3>2. PICK k \in DOMAIN q : k < i + 1 /\ q[k] = o
      BY <2>1, <3>1 DEF Begins, q, o
    <3>3. k # 1
      BY <2>1, <3>2
    <3>4. k - 1 \in DOMAIN u /\ u[k - 1] = o /\ k - 1 < i
      BY <2>2, <3>2, <3>3
    <3> QED BY <3>4
  <2> QED BY <2>4, <2>5 DEF Begins, u, o
<1> QED BY <1>1, <1>2

\* An event that is heard, with what it makes of the page it is of.
LEMMA TailAlternates ==
  ASSUME NEW s, NEW t, s.events \in Seq(Messages), s.events # <<>>, t.events = Tail(s.events),
         t.scripting = s.scripting, t.visited = s.visited, Alternates(s),
         \A p \in ScriptedPages : \A c \in {0, 1} :
           Moves(Head(s.events), s.scripting, p, s.shown[p], c) => t.shown[p] = c
  PROVE  Alternates(t)
<1>1. ASSUME NEW p \in ScriptedPages
      PROVE  Runs(t.events, t.scripting, p, t.shown[p], Noted(t, p))
  <2>1. Runs(s.events, s.scripting, p, s.shown[p], Noted(s, p))
    BY DEF Alternates
  <2>2. PICK c \in {0, 1} :
           /\ Moves(Head(s.events), s.scripting, p, s.shown[p], c)
           /\ Runs(Tail(s.events), s.scripting, p, c, Noted(s, p))
    BY <2>1, RunsFirst
  <2>3. t.shown[p] = c
    BY <2>2
  <2>4. Noted(t, p) = Noted(s, p)
    BY DEF Noted
  <2> QED BY <2>2, <2>3, <2>4
<1> QED BY <1>1 DEF Alternates

\* What the sandbox keeps when it hears an event.
Hears(s, t) ==
  /\ t.opened = s.opened /\ t.open = s.open /\ t.closing = s.closing /\ t.document = s.document
  /\ t.scripting = s.scripting /\ t.ready = s.ready /\ t.stage = s.stage
  /\ t.destroying = s.destroying /\ t.destroyCapability = s.destroyCapability
  /\ t.closeCapability = s.closeCapability /\ t.page = s.page /\ t.drawn = s.drawn
  /\ t.alive = s.alive /\ t.asked = s.asked /\ t.leaving = s.leaving /\ t.last = s.last
  /\ t.odd = s.odd /\ t.visited = s.visited /\ t.pageOpenPending = s.pageOpenPending
  /\ t.events = Tail(s.events)

LEMMA HearsKeeps ==
  ASSUME NEW s \in ScriptFields, NEW t \in ScriptFields, GoodScript(s), Hears(s, t),
         s.events # <<>>, ~s.odd /\ ~On(s) => t.begun = s.begun /\ t.shown = s.shown,
         ~s.odd /\ On(s) => Heard(t)
  PROVE  GoodScript(t)
<1>1. /\ Base(s) /\ Parting(s) /\ Ending(s) /\ Session(s) /\ Awaited(s) /\ Talks(s)
      /\ s.events \in Seq(Messages)
  BY ScriptTypes DEF GoodScript
<1>2. \A i \in DOMAIN t.events : i + 1 \in DOMAIN s.events /\ t.events[i] = s.events[i + 1]
  BY <1>1, TailOfEvents DEF Hears
<1>3. Base(t) /\ Parting(t) /\ Ending(t)
  <2>1. \A i \in DOMAIN t.events : t.events[i].to <= t.opened
    BY <1>1, <1>2 DEF Base, Hears
  <2> QED BY <1>1, <2>1 DEF Base, Parting, Ending, Hears
<1>4. On(t) <=> On(s)
  BY DEF On, Hears
<1>5. Fresh(s) => Fresh(t)
  BY <1>2 DEF Fresh, Hears
<1>6. Session(t)
  <2> SUFFICES ASSUME ~s.odd PROVE Session(t)
    BY DEF Session, Hears
  <2>1. CASE On(s)
    BY <1>1, <1>4, <1>5, <2>1 DEF Session, Hears
  <2>2. CASE ~On(s)
    BY <1>1, <1>4, <1>5, <2>2 DEF Session, Hears
  <2> QED BY <2>1, <2>2
<1>7. Awaited(t)
  BY <1>1 DEF Awaited, Hears
<1>8. Talks(t)
  <2> SUFFICES ASSUME ~s.odd, On(s) PROVE Visits(t) /\ Faces(t)
    BY <1>4 DEF Talks, Hears
  <2> QED BY <1>1 DEF Talks, Visits, Faces, Left, Hears
<1> QED BY <1>3, <1>6, <1>7, <1>8 DEF GoodScript

LEMMA SandboxEventKeeps ==
  ASSUME GoodScript(script), SandboxEvent
  PROVE  GoodScript(script')
<1> DEFINE s == script
           q == s.events
           m == Head(q)
           e == m.event
           n == [s EXCEPT !.events = Tail(q)]
           t == script'
<1>1. /\ s \in ScriptFields /\ Base(s) /\ Session(s) /\ Talks(s) /\ q \in Seq(Messages) /\ q # <<>>
      /\ s.shown \in [ScriptedPages -> Int]
  BY ScriptTypes DEF GoodScript, SandboxEvent
<1>2. /\ t = IF m.to \notin s.alive THEN n
             ELSE CASE e[1] = "Open" -> [n EXCEPT !.begun = TRUE]
                    [] e[1] = "PageOpen" -> [n EXCEPT !.shown[e[2]] = @ + 1]
                    [] e[1] = "PageClose" -> [n EXCEPT !.shown[e[2]] = @ - 1]
                    [] OTHER -> n
  BY <1>1 DEF SandboxEvent, ScriptFields
<1>3. m \in Messages /\ Tail(q) \in Seq(Messages) /\ 1 \in DOMAIN q /\ m = q[1]
  BY <1>1, TailOfEvents
<1>4. n \in ScriptFields
  <2>1. Tail(q) \in Seq([to : Documents, event : Events])
    BY <1>3 DEF Messages
  <2> QED BY <1>1, <2>1 DEF ScriptFields
<1>5. Hears(s, n) /\ n.begun = s.begun /\ n.shown = s.shown
  BY <1>1 DEF ScriptFields, Hears
<1>6. /\ m.to \in Documents /\ m = [to |-> m.to, event |-> e]
      /\ \/ e = <<"Open", 0>>
         \/ e = <<"WillClose", 0>>
         \/ \E p \in ScriptedPages : e = <<"PageOpen", p>>
         \/ \E p \in ScriptedPages : e = <<"PageClose", p>>
  BY <1>3 DEF Messages, Events
<1>7. ~s.odd => s.alive = IF On(s) THEN {s.scripting} ELSE {}
  BY <1>1 DEF Session
<1> HIDE DEF n, m, e, t, q, s
<1>8. ASSUME t = n, m.to \notin s.alive \/ e = <<"WillClose", 0>>
      PROVE  GoodScript(t)
  <2>1. ASSUME ~s.odd, On(s)
        PROVE  Heard(n)
    <3>1. Begins(s) /\ Alternates(s)
      BY <1>1, <2>1 DEF Talks, Heard
    <3>2. m.to # s.scripting \/ e[1] = "WillClose"
      BY <1>7, <1>8, <2>1
    <3>3. m # OpenOf(s.scripting)
      BY <3>2 DEF OpenOf, e
    <3>4. \A p \in ScriptedPages : n.shown[p] = 1 => n.begun
      BY <1>5, <3>1 DEF Begins
    <3>5. Begins(n)
      BY <1>1, <1>5, <3>1, <3>3, <3>4, TailBegins DEF Hears, m, q
    <3>6. \A p \in ScriptedPages : \A c : Moves(m, s.scripting, p, s.shown[p], c) => n.shown[p] = c
      BY <1>5, <3>2 DEF Moves, PageOpenOf, PageCloseOf, e
    <3>7. Alternates(n)
      BY <1>1, <1>5, <3>1, <3>6, TailAlternates DEF Hears, m, q
    <3> QED BY <3>5, <3>7 DEF Heard
  <2>2. s \in ScriptFields /\ s.events # <<>> /\ GoodScript(s)
    BY <1>1 DEF q, s
  <2> QED BY <1>4, <1>5, <1>8, <2>1, <2>2, HearsKeeps
<1>9. ASSUME t = [n EXCEPT !.begun = TRUE], m.to \in s.alive, e = <<"Open", 0>>
      PROVE  GoodScript(t)
  <2>1. /\ t \in ScriptFields /\ Hears(s, t) /\ t.begun /\ t.shown = s.shown
    BY <1>4, <1>5, <1>9 DEF ScriptFields, Hears
  <2>2. ASSUME ~s.odd, On(s)
        PROVE  Heard(t)
    <3>1. Begins(s) /\ Alternates(s)
      BY <1>1, <2>2 DEF Talks, Heard
    <3>2. Begins(t)
      BY <1>1, <2>1, <3>1, TailBegins DEF Hears, q
    <3>3. \A p \in ScriptedPages : \A c : Moves(m, s.scripting, p, s.shown[p], c) => t.shown[p] = c
      BY <1>9, <2>1 DEF Moves, PageOpenOf, PageCloseOf, e
    <3>4. Alternates(t)
      BY <1>1, <2>1, <3>1, <3>3, TailAlternates DEF Hears, m, q
    <3> QED BY <3>2, <3>4 DEF Heard
  <2>3. s \in ScriptFields /\ s.events # <<>> /\ GoodScript(s)
    BY <1>1 DEF q, s
  <2>4. ~s.odd => On(s)
    BY <1>7, <1>9
  <2> QED BY <2>1, <2>2, <2>3, <2>4, HearsKeeps
<1>10. ASSUME NEW p \in ScriptedPages, m.to \in s.alive,
              \/ e = <<"PageOpen", p>> /\ t = [n EXCEPT !.shown[p] = @ + 1]
              \/ e = <<"PageClose", p>> /\ t = [n EXCEPT !.shown[p] = @ - 1]
       PROVE  GoodScript(t)
  <2> DEFINE i == IF e[1] = "PageOpen" THEN 1 ELSE -1
             sh == [s.shown EXCEPT ![p] = @ + i]
  <2>1. i \in Int /\ sh \in [ScriptedPages -> Int]
    BY <1>1 DEF s
  <2>2. t = [n EXCEPT !.shown = sh]
    BY <1>4, <1>5, <1>10 DEF ScriptFields
  <2>3. \A r \in ScriptedPages : sh[r] = IF r = p THEN s.shown[r] + i ELSE s.shown[r]
    BY <1>1 DEF s
  <2> HIDE DEF sh
  <2>4. /\ t \in ScriptFields /\ Hears(s, t) /\ t.begun = s.begun /\ t.shown = sh
    BY <1>4, <1>5, <2>1, <2>2 DEF ScriptFields, Hears
  <2>5. ASSUME ~s.odd, On(s)
        PROVE  Heard(t)
    <3>1. Begins(s) /\ Alternates(s) /\ m.to = s.scripting
      BY <1>1, <1>7, <1>10, <2>5 DEF Talks, Heard
    <3>2. m # OpenOf(s.scripting)
      BY <1>10 DEF OpenOf, e
    <3>3. /\ \A c : Moves(m, s.scripting, p, s.shown[p], c) => sh[p] = c
          /\ \A r \in ScriptedPages : \A c :
               r # p /\ Moves(m, s.scripting, r, s.shown[r], c) => sh[r] = c
      <4>1. CASE e = <<"PageOpen", p>>
        <5>1. m = PageOpenOf(s.scripting, p) /\ i = 1
          BY <1>6, <3>1, <4>1 DEF PageOpenOf
        <5>2. \A r \in ScriptedPages : r # p => m # PageOpenOf(s.scripting, r)
          BY <4>1 DEF PageOpenOf, e
        <5>3. \A r : m # PageCloseOf(s.scripting, r)
          BY <4>1 DEF PageCloseOf, e
        <5> QED BY <2>3, <5>1, <5>2, <5>3 DEF Moves
      <4>2. CASE e = <<"PageClose", p>>
        <5>1. m = PageCloseOf(s.scripting, p) /\ i = -1
          BY <1>6, <3>1, <4>2 DEF PageCloseOf
        <5>2. \A r \in ScriptedPages : r # p => m # PageCloseOf(s.scripting, r)
          BY <4>2 DEF PageCloseOf, e
        <5>3. \A r : m # PageOpenOf(s.scripting, r)
          BY <4>2 DEF PageOpenOf, e
        <5> QED BY <2>3, <5>1, <5>2, <5>3 DEF Moves
      <4> QED BY <1>10, <4>1, <4>2
    <3>4. Alternates(t)
      <4>1. \A r \in ScriptedPages : \A c \in {0, 1} :
              Moves(m, s.scripting, r, s.shown[r], c) => t.shown[r] = c
        BY <2>4, <3>3
      <4> QED BY <1>1, <2>4, <3>1, <4>1, TailAlternates DEF Hears, m, q
    <3>5. \A r \in ScriptedPages : t.shown[r] = 1 => t.begun
      <4>1. CASE e = <<"PageOpen", p>>
        <5>1. q[1].to = s.scripting /\ q[1].event[1] = "PageOpen"
          BY <1>3, <3>1, <4>1 DEF e
        <5>2. s.begun
          <6>1. s.begun \/ \E j \in DOMAIN q : j < 1 /\ q[j] = OpenOf(s.scripting)
            BY <1>3, <3>1, <5>1 DEF Begins, q
          <6>2. DOMAIN q \subseteq Nat \ {0}
            BY <1>1, TailOfEvents
          <6> QED BY <6>1, <6>2
        <5> QED BY <2>4, <5>2
      <4>2. CASE e = <<"PageClose", p>>
        <5>1. Runs(q, s.scripting, p, s.shown[p], Noted(s, p))
          BY <3>1 DEF Alternates, q
        <5>2. s.shown[p] \in {0, 1} /\ i = -1
          BY <1>1, <4>2, <5>1, RunsBetween
        <5>3. t.shown[p] # 1
          BY <2>3, <2>4, <5>2
        <5> QED BY <2>3, <2>4, <3>1, <5>3 DEF Begins
      <4> QED BY <1>10, <4>1, <4>2
    <3>6. Begins(t)
      BY <1>1, <2>4, <3>1, <3>2, <3>5, TailBegins DEF Hears, m, q
    <3> QED BY <3>4, <3>6 DEF Heard
  <2>6. s \in ScriptFields /\ s.events # <<>> /\ GoodScript(s)
    BY <1>1 DEF q, s
  <2>7. ~s.odd => On(s)
    BY <1>7, <1>10
  <2> QED BY <2>4, <2>5, <2>6, <2>7, HearsKeeps
<1>11. CASE m.to \notin s.alive \/ e = <<"WillClose", 0>>
  <2>1. t = n
    BY <1>2, <1>11
  <2> QED BY <1>8, <1>11, <2>1 DEF t
<1>12. CASE m.to \in s.alive /\ e = <<"Open", 0>>
  <2>1. t = [n EXCEPT !.begun = TRUE]
    BY <1>2, <1>12
  <2> QED BY <1>9, <1>12, <2>1 DEF t
<1>13. CASE m.to \in s.alive /\ \E p \in ScriptedPages : e \in {<<"PageOpen", p>>, <<"PageClose", p>>}
  <2>1. PICK p \in ScriptedPages : e \in {<<"PageOpen", p>>, <<"PageClose", p>>}
    BY <1>13
  <2>2. \/ e = <<"PageOpen", p>> /\ t = [n EXCEPT !.shown[p] = @ + 1]
        \/ e = <<"PageClose", p>> /\ t = [n EXCEPT !.shown[p] = @ - 1]
    BY <1>2, <1>13, <2>1
  <2> QED BY <1>10, <1>13, <2>1, <2>2 DEF t
<1> QED BY <1>6, <1>11, <1>12, <1>13

LEMMA RaceTimeoutKeeps ==
  ASSUME GoodScript(script), RaceTimeout
  PROVE  GoodScript(script')
<1> DEFINE s == script
           t == Nuke(s)
<1>1. /\ s \in ScriptFields /\ Base(s) /\ Ending(s) /\ Session(s) /\ Awaited(s)
      /\ s.destroying = "race" /\ script' = t
  BY DEF GoodScript, RaceTimeout
<1>2. s.scripting # 0 /\ (~s.odd => s.closing)
  BY <1>1 DEF Base, Session
<1>3. /\ t \in ScriptFields /\ Base(t) /\ Parting(t) /\ Ending(t) /\ Session(t)
      /\ ~On(t) /\ t.last = s.last /\ t.asked = s.asked /\ t.closing = s.closing
      /\ t.odd = s.odd
  BY <1>1, <1>2, NukeSound
<1> HIDE DEF t
<1>4. Awaited(t) /\ Talks(t)
  BY <1>1, <1>3 DEF Awaited, Talks
<1> QED BY <1>1, <1>3, <1>4 DEF GoodScript

----------------------------------------------------------------------------
(* The actions of a page                                                   *)

\* The page is opened, and closed if it is not the one that shows any more.
LEMMA PageActionsAnsweredKeeps ==
  ASSUME GoodScript(script), PageActionsAnswered
  PROVE  GoodScript(script')
<1> DEFINE c == script
<1>1. /\ c \in ScriptFields /\ Base(c) /\ Parting(c) /\ Ending(c) /\ Session(c)
      /\ Awaited(c) /\ Talks(c)
  BY DEF GoodScript
<1>2. PICK page \in c.asked :
        LET s == [c EXCEPT !.asked = @ \ {page}, !.leaving = @ \ {page},
                           !.visited[page] = IF @ = "asked" THEN "told" ELSE @]
            t == IF s.document = 0 THEN s ELSE Tell(s, "PageOpen", page)
            u == IF s.document # 0 /\ (page \in c.leaving \/ page = s.last)
                   THEN Tell(t, "PageClose", page) ELSE t
        IN  script' = IF page = s.last THEN WillClose(u) ELSE u
  BY DEF PageActionsAnswered
<1> DEFINE A == c.asked \ {page}
           B == c.leaving \ {page}
           v == [c.visited EXCEPT ![page] = IF @ = "asked" THEN "told" ELSE @]
           s1 == [c EXCEPT !.asked = A, !.leaving = B]
           s == [c EXCEPT !.asked = A, !.leaving = B, !.visited = v]
           back == page \in c.leaving \/ page = c.last
           t == IF c.document = 0 THEN s ELSE Tell(s, "PageOpen", page)
           u == IF c.document # 0 /\ back THEN Tell(t, "PageClose", page) ELSE t
<1>3. page \in ScriptedPages /\ c.visited \in [ScriptedPages -> {"no", "asked", "told", "null"}]
  BY <1>1, <1>2, ScriptTypes
<1>4. /\ A \in SUBSET ScriptedPages /\ B \in SUBSET ScriptedPages
      /\ v \in [ScriptedPages -> {"no", "asked", "told", "null"}]
  BY <1>1, <1>3, ScriptTypes
<1>5. \A p \in ScriptedPages :
        v[p] = IF p = page /\ c.visited[p] = "asked" THEN "told" ELSE c.visited[p]
  BY <1>3
<1>6. /\ [c EXCEPT !.asked = @ \ {page}, !.leaving = @ \ {page},
                   !.visited[page] = IF @ = "asked" THEN "told" ELSE @] = s
      /\ s.document = c.document /\ s.last = c.last
  BY <1>1 DEF ScriptFields
<1>7. script' = IF page = c.last THEN WillClose(u) ELSE u
  BY <1>2, <1>6
<1> HIDE <1>2
<1> HIDE DEF A, B, v
<1>8. s \in ScriptFields
  <2>1. s1 \in ScriptFields
    BY <1>1, <1>4, ZenonT(60) DEF ScriptFields
  <2>2. s = [s1 EXCEPT !.visited = v]
    BY <1>1 DEF ScriptFields
  <2> HIDE DEF s1, s
  <2> QED BY <1>4, <2>1, <2>2 DEF ScriptFields
<1>9. /\ Beside(c, s) /\ s.last = c.last /\ s.events = c.events /\ s.odd = c.odd
      /\ s.asked = A /\ s.leaving = B /\ s.visited = v
      /\ s.pageOpenPending = c.pageOpenPending
  BY <1>1 DEF ScriptFields, Beside
<1> HIDE DEF s, back
<1>10. Base(s) /\ Parting(s) /\ Ending(s) /\ (Fresh(c) => Fresh(s))
  BY <1>1, <1>8, <1>9, BesideKeeps
<1>11. /\ <<"PageOpen", page>> \in Events /\ <<"PageClose", page>> \in Events
       /\ PageOpenOf(c.scripting, page) \in Messages /\ PageCloseOf(c.scripting, page) \in Messages
       /\ PageOpenOf(c.scripting, page).to = c.scripting
       /\ PageCloseOf(c.scripting, page).to = c.scripting
  BY <1>1, <1>3, PageEvents DEF PageOpenOf, PageCloseOf
<1>12. /\ t \in ScriptFields /\ Beside(s, t) /\ Alike(s, t) /\ t.last = s.last
       /\ IF c.document = 0 THEN t.events = s.events
          ELSE Sent(s, t, PageOpenOf(c.scripting, page))
  <2>1. CASE c.document = 0
    BY <1>8, <2>1 DEF Beside, Alike
  <2>2. CASE c.document # 0
    <3>1. t = Tell(s, "PageOpen", page)
      BY <2>2
    <3>2. s.scripting = c.scripting
      BY <1>9 DEF Beside
    <3> HIDE DEF t
    <3> QED BY <1>8, <1>11, <2>2, <3>1, <3>2, TellFacts DEF PageOpenOf
  <2> QED BY <2>1, <2>2
<1> HIDE DEF t
<1>13. /\ u \in ScriptFields /\ Beside(t, u) /\ Alike(t, u) /\ u.last = t.last
       /\ IF c.document # 0 /\ back THEN Sent(t, u, PageCloseOf(c.scripting, page))
          ELSE u = t
  <2>1. CASE ~(c.document # 0 /\ back)
    <3>1. u = t
      BY <2>1
    <3> HIDE DEF u
    <3> QED BY <1>12, <2>1, <3>1 DEF Beside, Alike
  <2>2. CASE c.document # 0 /\ back
    <3>1. u = Tell(t, "PageClose", page)
      BY <2>2
    <3>2. t.scripting = c.scripting
      BY <1>9, <1>12 DEF Beside
    <3> HIDE DEF u
    <3> QED BY <1>11, <1>12, <2>2, <3>1, <3>2, TellFacts DEF PageCloseOf
  <2> QED BY <2>1, <2>2
<1> HIDE DEF u
<1>14. t.scripting = c.scripting /\ s.scripting = c.scripting
  BY <1>9, <1>12 DEF Beside
<1>15. Base(t) /\ Parting(t) /\ Ending(t)
  BY <1>8, <1>10, <1>11, <1>12, <1>14, BesideKeeps, SentKeeps
<1>16. Base(u) /\ Parting(u) /\ Ending(u)
  <2>1. CASE u = t
    BY <1>15, <2>1
  <2>2. CASE Sent(t, u, PageCloseOf(c.scripting, page))
    BY <1>11, <1>12, <1>13, <1>14, <1>15, <2>2, SentKeeps
  <2> QED BY <1>13, <2>1, <2>2
<1>17. Beside(c, u)
  BY <1>9, <1>12, <1>13 DEF Beside
<1>18. /\ u.last = c.last /\ u.asked = A /\ u.leaving = B /\ u.visited = v /\ u.odd = c.odd
       /\ u.pageOpenPending = c.pageOpenPending
  BY <1>9, <1>12, <1>13 DEF Alike
<1>19. (On(u) <=> On(c)) /\ u.closing = c.closing /\ u.open = c.open /\ u.page = c.page
  BY <1>17 DEF On, Beside
<1>20. ~c.odd => c.leaving \subseteq c.asked /\ c.stage = "done" /\ (On(c) <=> c.document # 0)
  <2> SUFFICES ASSUME ~c.odd
               PROVE  c.leaving \subseteq c.asked /\ c.stage = "done" /\ (On(c) <=> c.document # 0)
    OBVIOUS
  <2>1. c.leaving \subseteq c.asked /\ c.stage = "done" /\ (On(c) \/ c.closing)
    BY <1>1 DEF Session
  <2>2. On(c) => c.document # 0
    BY <1>1 DEF Session
  <2>3. c.document # 0 => On(c)
    BY <1>1, <2>1 DEF Session, Parting, Base
  <2> QED BY <2>1, <2>2, <2>3
<1>21. Session(u)
  <2>1. CASE c.odd
    BY <1>18, <2>1 DEF Session
  <2>2. CASE ~c.odd /\ On(c)
    <3>1. u.leaving \subseteq u.asked
      BY <1>18, <1>20, <2>2 DEF A, B
    <3> QED BY <1>1, <1>13, <1>17, <1>18, <2>2, <3>1, SessionGoesOn
  <2>3. CASE ~c.odd /\ ~On(c)
    <3>1. /\ \A p \in ScriptedPages : v[p] = "no"
          /\ c.pageOpenPending = {} /\ ~c.begun /\ \A p \in ScriptedPages : c.shown[p] = 0
      BY <1>1, <1>5, <2>3 DEF Session
    <3>2. /\ c.alive = {} /\ c.scripting = 0 /\ c.destroying # "race" /\ c.stage = "done" /\ c.closing
      BY <1>1, <1>20, <2>3 DEF Session
    <3>3. B \subseteq A
      BY <1>20, <2>3 DEF A, B
    <3> QED BY <1>17, <1>18, <1>19, <2>3, <3>1, <3>2, <3>3 DEF Session, Beside
  <2> QED BY <2>1, <2>2, <2>3
<1>22. ASSUME ~c.odd, On(c)
       PROVE  /\ Heard(u) /\ Visits(u)
              /\ \A p \in ScriptedPages : Left(u, p) <=> Left(c, p)
  <2>1. Begins(c) /\ Alternates(c) /\ Visits(c) /\ c.document # 0
    BY <1>1, <1>20, <1>22 DEF Talks, Heard
  <2>2. c.scripting # 0 /\ c.leaving \subseteq c.asked
    BY <1>1, <1>20, <1>22 DEF Session
  <2>3. /\ c.visited[page] \in {"asked", "null"}
        /\ c.visited[page] = "null" <=> back
    BY <1>3, <2>1 DEF Visits, back
  <2>4. \A p \in ScriptedPages : Left(u, p) <=> Left(c, p)
    BY <1>5, <1>18 DEF Left
  <2>5. Beside(c, t) /\ Sent(c, t, PageOpenOf(c.scripting, page))
    BY <1>9, <1>12, <1>14, <2>1 DEF Beside, Sent
  <2>6. Begins(t)
    BY <1>1, <1>11, <1>12, <2>1, <2>2, <2>5, BeginsOn
  <2>7. Begins(u)
    <3>1. CASE u = t
      BY <2>6, <3>1
    <3>2. CASE Sent(t, u, PageCloseOf(c.scripting, page))
      BY <1>11, <1>12, <1>13, <1>14, <2>2, <2>6, <3>2, BeginsOn
    <3> QED BY <1>13, <3>1, <3>2
  <2>8. Visits(u)
    <3>1. \A p \in ScriptedPages : u.visited[p] = "asked" => p \in u.asked
      BY <1>5, <1>18, <2>1 DEF Visits, A
    <3>2. \A p \in ScriptedPages : p \in u.pageOpenPending => Left(u, p)
      BY <1>18, <2>1, <2>4 DEF Visits
    <3>3. \A p \in ScriptedPages : p \in u.asked =>
            /\ u.visited[p] \in {"asked", "null"}
            /\ u.visited[p] = "null" <=> p \in u.leaving \/ p = u.last
      BY <1>5, <1>18, <2>1 DEF Visits, A, B
    <3> QED BY <3>1, <3>2, <3>3 DEF Visits
  <2>9. Alternates(u)
    <3>1. t.events = Append(c.events, PageOpenOf(c.scripting, page)) /\ c.events \in Seq(Messages)
          /\ t.events \in Seq(Messages)
      BY <1>1, <1>11, <1>12, <2>2, <2>5, SentLast, ScriptTypes
    <3>2. u.shown = c.shown /\ u.scripting = c.scripting
      BY <1>17 DEF Beside
    <3>3. ASSUME NEW p \in ScriptedPages
          PROVE  Runs(u.events, u.scripting, p, u.shown[p], Noted(u, p))
      <4>1. Runs(c.events, c.scripting, p, c.shown[p], Noted(c, p))
        BY <2>1 DEF Alternates
      <4> DEFINE mid == IF p = page THEN 1 ELSE Noted(c, p)
      <4>2. mid \in {0, 1} /\ (p = page => Noted(c, p) = 0)
        BY <2>3 DEF Noted
      <4>3. Moves(PageOpenOf(c.scripting, page), c.scripting, p, Noted(c, p), mid)
        BY <4>2 DEF Moves, PageOpenOf, PageCloseOf
      <4> HIDE DEF mid
      <4>4. Runs(t.events, c.scripting, p, c.shown[p], mid)
        BY <1>11, <3>1, <4>1, <4>2, <4>3, RunsOn
      <4>5. CASE back
        <5>1. Noted(u, p) = Noted(c, p)
          BY <1>5, <1>18, <2>3, <4>5 DEF Noted
        <5>2. Moves(PageCloseOf(c.scripting, page), c.scripting, p, mid, Noted(u, p))
          BY <4>2, <5>1 DEF Moves, PageOpenOf, PageCloseOf, mid
        <5>3. Noted(u, p) \in {0, 1}
          BY DEF Noted
        <5>4. u.events = Append(t.events, PageCloseOf(c.scripting, page))
          BY <1>13, <1>14, <2>1, <2>2, <4>5 DEF Sent
        <5>5. Runs(u.events, c.scripting, p, c.shown[p], Noted(u, p))
          BY <1>11, <3>1, <4>4, <5>2, <5>3, <5>4, RunsOn
        <5> QED BY <3>2, <5>5
      <4>6. CASE ~back
        <5>1. Noted(u, p) = mid
          BY <1>5, <1>18, <2>3, <4>6 DEF Noted, mid
        <5>2. u.events = t.events
          BY <1>13, <4>6
        <5> QED BY <3>2, <4>4, <5>1, <5>2
      <4> QED BY <4>5, <4>6
    <3> QED BY <3>3 DEF Alternates
  <2> QED BY <2>4, <2>7, <2>8, <2>9 DEF Heard
<1>23. ~c.odd /\ On(c) => Faces(u)
  <2> SUFFICES ASSUME ~c.odd, On(c) PROVE Faces(u)
    OBVIOUS
  <2>1. Faces(c) /\ c.page \in ScriptedPages
    BY <1>1, ScriptTypes DEF Talks
  <2> QED BY <1>18, <1>19, <1>22, <2>1 DEF Faces
<1>24. CASE page = c.last
  <2> DEFINE w == WillClose(u)
  <2>1. u.last \notin u.asked
    BY <1>18, <1>24 DEF A
  <2>2. /\ w \in ScriptFields /\ Base(w) /\ Parting(w) /\ Ending(w) /\ Session(w) /\ w.last = 0
        /\ w.odd = u.odd /\ (On(w) => On(u))
        /\ ~w.odd /\ On(w) =>
             /\ Heard(w) /\ Visits(w) /\ w.open = u.open /\ w.page = u.page
             /\ w.visited = u.visited /\ w.pageOpenPending = u.pageOpenPending
    BY <1>13, <1>16, <1>18, <1>19, <1>21, <1>22, <2>1, WillCloseSound
  <2> HIDE DEF w
  <2>4. ~w.odd /\ On(w) => Faces(w)
    BY <1>18, <1>19, <1>23, <2>2 DEF Faces, Left
  <2>5. Awaited(w) /\ Talks(w)
    BY <2>2, <2>4 DEF Awaited, Talks
  <2> QED BY <1>7, <1>24, <2>2, <2>5 DEF GoodScript, w
<1>25. CASE page # c.last
  <2>1. Awaited(u)
    BY <1>1, <1>18, <1>19, <1>25 DEF Awaited, A
  <2>2. Talks(u)
    BY <1>18, <1>19, <1>22, <1>23 DEF Talks
  <2> QED BY <1>7, <1>13, <1>16, <1>21, <1>25, <2>1, <2>2 DEF GoodScript
<1> QED BY <1>24, <1>25

----------------------------------------------------------------------------
(* The viewer                                                              *)

LEMMA OpenDocumentKeeps ==
  ASSUME GoodScript(script), OpenDocument
  PROVE  GoodScript(script')
<1> DEFINE s == script
           n == s.opened + 1
           t1 == [s EXCEPT !.opened = n, !.open = n]
           t == script'
<1>1. /\ s \in ScriptFields /\ Base(s) /\ Parting(s) /\ Ending(s) /\ Session(s)
      /\ Awaited(s) /\ Talks(s)
  BY DEF GoodScript
<1>2. /\ s.open = 0 /\ ~s.closing /\ s.opened < MaxDocuments
      /\ t = [s EXCEPT !.opened = n, !.open = n, !.stage = "unset"]
  BY <1>1 DEF OpenDocument, ScriptFields
<1>3. n \in Documents /\ s.opened \in Nat /\ n # 0 /\ n > s.opened
  BY <1>1, <1>2, ScriptTypes, ScriptingAssumption DEF Documents
<1> HIDE DEF n, t
<1>4. t1 \in ScriptFields
  BY <1>1, <1>3, ZenonT(60) DEF ScriptFields
<1>5. t = [t1 EXCEPT !.stage = "unset"]
  BY <1>1, <1>2 DEF ScriptFields
<1>6. t \in ScriptFields
  <2> HIDE DEF t1
  <2> QED BY <1>4, <1>5 DEF ScriptFields
<1>7. /\ t.opened = n /\ t.open = n /\ t.closing = s.closing
      /\ t.document = s.document /\ t.scripting = s.scripting /\ t.ready = s.ready
      /\ t.stage = "unset"
      /\ t.destroying = s.destroying /\ t.destroyCapability = s.destroyCapability
      /\ t.closeCapability = s.closeCapability /\ t.page = s.page /\ t.drawn = s.drawn
      /\ t.alive = s.alive /\ t.asked = s.asked /\ t.leaving = s.leaving /\ t.last = s.last
      /\ t.events = s.events /\ t.odd = s.odd /\ t.begun = s.begun /\ t.shown = s.shown
      /\ t.visited = s.visited /\ t.pageOpenPending = s.pageOpenPending
  BY <1>1, <1>2 DEF ScriptFields
<1> HIDE DEF s
<1>8. s.document = 0 /\ s.scripting = 0
  BY <1>1, <1>2 DEF Base
<1>9. \A i \in DOMAIN s.events : s.events[i] \in Messages /\ s.events[i].to \in Nat
  <2>1. s.events \in Seq(Messages)
    BY <1>1, ScriptTypes
  <2>2. \A i \in DOMAIN s.events : s.events[i] \in Messages
    BY <2>1, ElementOfSeq, LenProperties
  <2> QED BY <2>2, ScriptNumbers DEF Messages
<1>10. \A i \in DOMAIN t.events : t.events[i].to <= t.opened /\ t.events[i].to # t.opened
  <2>1. \A i \in DOMAIN s.events : s.events[i].to <= s.opened
    BY <1>1 DEF Base
  <2>2. \A k \in Nat : k <= s.opened => k <= n /\ k # n
    BY <1>3, ScriptNumbers
  <2>3. t.opened = n /\ t.events = s.events
    BY <1>7
  <2> HIDE DEF n
  <2> QED BY <1>9, <2>1, <2>2, <2>3
<1>11. Base(t) /\ Parting(t) /\ Ending(t)
  BY <1>1, <1>2, <1>3, <1>7, <1>8, <1>10 DEF Base, Parting, Ending
<1>12. (On(t) <=> On(s)) /\ (~s.odd => ~On(s))
  BY <1>1, <1>7, <1>8 DEF On, Session
<1>13. Session(t)
  BY <1>1, <1>2, <1>7, <1>8, <1>10, <1>12 DEF Session, Fresh
<1>14. Awaited(t) /\ Talks(t)
  BY <1>1, <1>7, <1>12 DEF Awaited, Talks
<1> QED BY <1>6, <1>11, <1>13, <1>14 DEF GoodScript, t

\* DispatchPageOpen of the page that shows, once the others are left.
LEMMA DispatchSound ==
  ASSUME NEW s \in ScriptFields, Base(s), Parting(s), Ending(s), Session(s), Awaited(s),
         s.open # 0,
         ~s.odd /\ On(s) =>
           Heard(s) /\ Visits(s) /\ \A p \in ScriptedPages : Left(s, p)
  PROVE  GoodScript(DispatchPageOpen(s, s.page))
<1> DEFINE t == DispatchPageOpen(s, s.page)
<1>1. s.page \in ScriptedPages
  BY ScriptTypes
<1>2. /\ t \in ScriptFields /\ Beside(s, t) /\ OpensPage(s, t, s.page)
      /\ t.last = s.last /\ t.leaving = s.leaving
  BY <1>1, OpenFacts
<1> HIDE DEF t
<1>3. Base(t) /\ Parting(t) /\ Ending(t)
  <2>1. CASE t.events = s.events
    BY <1>2, <2>1, BesideKeeps
  <2>2. CASE Sent(s, t, PageOpenOf(s.scripting, s.page))
    <3>1. /\ PageOpenOf(s.scripting, s.page) \in Messages
          /\ PageOpenOf(s.scripting, s.page).to = s.scripting
      BY <1>1, PageEvents DEF PageOpenOf
    <3> QED BY <1>2, <2>2, <3>1, SentKeeps
  <2> QED BY <1>2, <2>1, <2>2 DEF OpensPage
<1>4. s.odd => t.odd
  BY <1>2 DEF OpensPage
<1>5. On(t) <=> On(s)
  BY <1>2 DEF On, Beside
<1>6. Session(t)
  <2>1. CASE ~On(s)
    <3>1. t = s
      BY <1>2, <2>1 DEF OpensPage
    <3> QED BY <3>1
  <2>2. CASE On(s)
    <3>1. s.leaving \subseteq s.asked => t.leaving \subseteq t.asked
      BY <1>2 DEF OpensPage
    <3> QED BY <1>2, <1>4, <2>2, <3>1, SessionGoesOn
  <2> QED BY <2>1, <2>2
<1>7. ~s.odd => s.last = 0
  BY DEF Awaited, Base
<1>8. Awaited(t)
  BY <1>2, <1>4, <1>7 DEF Awaited
<1>9. Talks(t)
  <2> SUFFICES ASSUME ~t.odd, On(t) PROVE Heard(t) /\ Visits(t) /\ Faces(t)
    BY DEF Talks
  <2>1. ~s.odd /\ On(s) /\ s.last = 0
    BY <1>4, <1>5, <1>7
  <2>2. s.scripting # 0 /\ s.leaving \subseteq s.asked
    BY <2>1 DEF Session
  <2> QED BY <1>1, <2>1, <2>2, OpenFaces DEF t
<1> QED BY <1>2, <1>3, <1>6, <1>8, <1>9 DEF GoodScript, t

\* DispatchPageClose of a page leaves the rest of the invariant as it was.
LEMMA LeavingSound ==
  ASSUME NEW s \in ScriptFields, NEW page \in ScriptedPages,
         Base(s), Parting(s), Ending(s), Session(s)
  PROVE  LET t == DispatchPageClose(s, page) IN
         /\ t \in ScriptFields /\ Base(t) /\ Parting(t) /\ Ending(t) /\ Session(t)
         /\ Beside(s, t) /\ t.odd = s.odd /\ t.last = s.last /\ t.asked = s.asked
<1> DEFINE t == DispatchPageClose(s, page)
<1>1. /\ t \in ScriptFields /\ Beside(s, t) /\ Closes(s, t, page)
      /\ t.last = s.last /\ t.asked = s.asked /\ t.pageOpenPending = s.pageOpenPending
      /\ t.odd = s.odd
  BY CloseFacts
<1> HIDE DEF t
<1>2. Base(t) /\ Parting(t) /\ Ending(t)
  <2>1. CASE t.events = s.events
    BY <1>1, <2>1, BesideKeeps
  <2>2. CASE Sent(s, t, PageCloseOf(s.scripting, page))
    <3>1. /\ PageCloseOf(s.scripting, page) \in Messages
          /\ PageCloseOf(s.scripting, page).to = s.scripting
      BY PageEvents DEF PageCloseOf
    <3> QED BY <1>1, <2>2, <3>1, SentKeeps
  <2> QED BY <1>1, <2>1, <2>2 DEF Closes
<1>3. Session(t)
  <2>1. CASE t = s
    BY <2>1
  <2>2. CASE CanClose(s, page)
    <3>1. On(s)
      BY <2>2 DEF CanClose, On
    <3>2. s.leaving \subseteq s.asked => t.leaving \subseteq t.asked
      BY <1>1 DEF Closes
    <3> QED BY <1>1, <3>1, <3>2, SessionGoesOn
  <2> QED BY <1>1, <2>1, <2>2 DEF Closes
<1> QED BY <1>1, <1>2, <1>3 DEF t

\* All fields but the page that shows and the pages that are drawn.
SameSession(s, t) ==
  /\ t.opened = s.opened /\ t.closing = s.closing /\ t.document = s.document
  /\ t.scripting = s.scripting /\ t.ready = s.ready /\ t.stage = s.stage
  /\ t.destroying = s.destroying /\ t.destroyCapability = s.destroyCapability
  /\ t.closeCapability = s.closeCapability
  /\ t.alive = s.alive /\ t.asked = s.asked /\ t.leaving = s.leaving /\ t.last = s.last
  /\ t.events = s.events /\ t.odd = s.odd /\ t.begun = s.begun /\ t.shown = s.shown
  /\ t.visited = s.visited /\ t.pageOpenPending = s.pageOpenPending /\ t.open = s.open

LEMMA SameSessionKeeps ==
  ASSUME NEW s, NEW t, SameSession(s, t), Base(s), Parting(s), Ending(s), Session(s), Awaited(s),
         s.open # 0
  PROVE  /\ Base(t) /\ Parting(t) /\ Ending(t) /\ Session(t) /\ Awaited(t)
         /\ (On(t) <=> On(s)) /\ (Heard(s) => Heard(t)) /\ (Visits(s) => Visits(t))
         /\ \A p : Left(t, p) <=> Left(s, p)
<1>1. On(t) <=> On(s)
  BY DEF On, SameSession
<1>2. Base(t) /\ Parting(t) /\ Ending(t)
  BY DEF Base, Parting, Ending, SameSession
<1>3. Session(t)
  BY <1>1 DEF Session, Fresh, SameSession
<1>4. Awaited(t)
  BY DEF Awaited, SameSession
<1>5. Heard(s) => Heard(t)
  <2>1. Begins(s) => Begins(t)
    BY DEF Begins, SameSession
  <2>2. Alternates(s) => Alternates(t)
    BY DEF Alternates, Noted, SameSession
  <2> QED BY <2>1, <2>2 DEF Heard
<1>6. (Visits(s) => Visits(t)) /\ \A p : Left(t, p) <=> Left(s, p)
  BY DEF Visits, Left, SameSession
<1> QED BY <1>1, <1>2, <1>3, <1>4, <1>5, <1>6

LEMMA TurnPageKeeps ==
  ASSUME GoodScript(script), TurnPage
  PROVE  GoodScript(script')
<1> DEFINE c == script
<1>1. /\ c \in ScriptFields /\ Base(c) /\ Parting(c) /\ Ending(c) /\ Session(c)
      /\ Awaited(c) /\ Talks(c) /\ c.page \in ScriptedPages /\ c.open # 0
  BY ScriptTypes DEF GoodScript, TurnPage
<1>2. PICK page \in ScriptedPages \ {c.page} :
        script' = LET s == [c EXCEPT !.page = page]
                  IN  IF s.scripting = 0 THEN s
                      ELSE DispatchPageOpen(DispatchPageClose(s, c.page), page)
  BY DEF TurnPage
<1> DEFINE s == [c EXCEPT !.page = page]
           t == DispatchPageClose(s, c.page)
<1>3. s \in ScriptFields /\ SameSession(c, s) /\ s.page = page /\ s.open # 0 /\ s.drawn = c.drawn
  BY <1>1 DEF ScriptFields, SameSession
<1> HIDE DEF s
<1>4. /\ Base(s) /\ Parting(s) /\ Ending(s) /\ Session(s) /\ Awaited(s)
      /\ (On(s) <=> On(c)) /\ (Heard(c) => Heard(s)) /\ (Visits(c) => Visits(s))
      /\ \A p : Left(s, p) <=> Left(c, p)
  BY <1>1, <1>3, SameSessionKeeps
<1>5. script' = IF s.scripting = 0 THEN s ELSE DispatchPageOpen(t, page)
  BY <1>2 DEF s
<1>6. CASE s.scripting = 0
  <2>1. Talks(s)
    BY <1>4, <1>6 DEF Talks, Session
  <2> QED BY <1>3, <1>4, <1>5, <1>6, <2>1 DEF GoodScript
<1>7. CASE s.scripting # 0
  <2>1. /\ t \in ScriptFields /\ Base(t) /\ Parting(t) /\ Ending(t) /\ Session(t)
        /\ Beside(s, t) /\ t.odd = s.odd /\ t.last = s.last /\ t.asked = s.asked
    BY <1>1, <1>3, <1>4, LeavingSound
  <2>2. ~s.odd /\ On(s) => Heard(t) /\ Visits(t) /\ \A p \in ScriptedPages : Left(t, p)
    <3> SUFFICES ASSUME ~s.odd, On(s)
                 PROVE  Heard(t) /\ Visits(t) /\ \A p \in ScriptedPages : Left(t, p)
      OBVIOUS
    <3>1. Heard(c) /\ Visits(c) /\ Faces(c)
      BY <1>1, <1>3, <1>4 DEF Talks, SameSession
    <3>2. \A p \in ScriptedPages : p # c.page => Left(s, p)
      BY <1>4, <3>1 DEF Faces
    <3>3. s.last = 0
      BY <1>3, <1>4 DEF Awaited, Base
    <3> QED BY <1>1, <1>3, <1>4, <1>7, <3>1, <3>2, <3>3, CloseLeaves
  <2> HIDE DEF t
  <2>3. (On(t) <=> On(s)) /\ t.page = page /\ t.open # 0 /\ t.closing = s.closing
    BY <1>3, <2>1 DEF Beside, On
  <2>4. Awaited(t)
    BY <1>4, <2>1, <2>3 DEF Awaited
  <2>5. GoodScript(DispatchPageOpen(t, t.page))
    BY <2>1, <2>2, <2>3, <2>4, DispatchSound
  <2> QED BY <1>5, <1>7, <2>3, <2>5
<1> QED BY <1>6, <1>7

LEMMA PageRenderedKeeps ==
  ASSUME GoodScript(script), PageRendered
  PROVE  GoodScript(script')
<1> DEFINE c == script
<1>1. /\ c \in ScriptFields /\ Base(c) /\ Parting(c) /\ Ending(c) /\ Session(c)
      /\ Awaited(c) /\ Talks(c) /\ c.page \in ScriptedPages /\ c.open # 0
  BY ScriptTypes DEF GoodScript, PageRendered
<1>2. PICK page \in ScriptedPages \ c.drawn :
        script' = LET s == [c EXCEPT !.drawn = @ \cup {page}]
                  IN  IF s.scripting = 0 \/ page \notin s.pageOpenPending \/ page # s.page THEN s
                      ELSE DispatchPageOpen(s, page)
  BY DEF PageRendered
<1> DEFINE D == c.drawn \cup {page}
           s == [c EXCEPT !.drawn = D]
<1>3. D \in SUBSET ScriptedPages
  BY <1>1, ScriptTypes
<1>4. script' = IF s.scripting = 0 \/ page \notin s.pageOpenPending \/ page # s.page THEN s
                ELSE DispatchPageOpen(s, page)
  BY <1>1, <1>2 DEF ScriptFields
<1> HIDE DEF D
<1>5. s \in ScriptFields /\ SameSession(c, s) /\ s.page = c.page /\ s.open # 0
  BY <1>1, <1>3 DEF ScriptFields, SameSession
<1> HIDE DEF s
<1>6. /\ Base(s) /\ Parting(s) /\ Ending(s) /\ Session(s) /\ Awaited(s)
      /\ (On(s) <=> On(c)) /\ (Heard(c) => Heard(s)) /\ (Visits(c) => Visits(s))
      /\ \A p : Left(s, p) <=> Left(c, p)
  BY <1>1, <1>5, SameSessionKeeps
<1>7. CASE script' = s
  <2>1. Talks(s)
    BY <1>1, <1>5, SameTalks, <1>6 DEF SameSession
  <2> QED BY <1>5, <1>6, <1>7, <2>1 DEF GoodScript
<1>8. CASE page \in s.pageOpenPending /\ page = s.page /\ script' = DispatchPageOpen(s, page)
  <2>1. ASSUME ~s.odd, On(s)
        PROVE  Heard(s) /\ Visits(s) /\ \A p \in ScriptedPages : Left(s, p)
    <3>1. Heard(c) /\ Visits(c) /\ Faces(c)
      BY <1>1, <1>5, <1>6, <2>1 DEF Talks, SameSession
    <3>2. \A p \in ScriptedPages : p # page => Left(s, p)
      BY <1>5, <1>6, <1>8, <3>1 DEF Faces
    <3>3. Left(s, page)
      BY <1>6, <1>8, <3>1 DEF Visits
    <3> QED BY <1>6, <3>1, <3>2, <3>3
  <2>2. GoodScript(DispatchPageOpen(s, s.page))
    BY <1>5, <1>6, <2>1, DispatchSound
  <2> QED BY <1>8, <2>2
<1> QED BY <1>4, <1>7, <1>8

LEMMA PageResetKeeps ==
  ASSUME GoodScript(script), PageReset
  PROVE  GoodScript(script')
<1> DEFINE c == script
<1>1. /\ c \in ScriptFields /\ Base(c) /\ Parting(c) /\ Ending(c) /\ Session(c)
      /\ Awaited(c) /\ Talks(c)
  BY DEF GoodScript
<1>2. PICK page \in c.drawn : script' = [c EXCEPT !.drawn = @ \ {page}]
  BY DEF PageReset
<1> DEFINE D == c.drawn \ {page}
           s == [c EXCEPT !.drawn = D]
<1>3. D \in SUBSET ScriptedPages /\ c.open # 0
  BY <1>1, <1>2, ScriptTypes DEF Base
<1>4. script' = s
  BY <1>1, <1>2 DEF ScriptFields
<1> HIDE DEF D
<1>5. s \in ScriptFields /\ SameSession(c, s) /\ s.page = c.page
  BY <1>1, <1>3 DEF ScriptFields, SameSession
<1> HIDE DEF s
<1>6. Base(s) /\ Parting(s) /\ Ending(s) /\ Session(s) /\ Awaited(s) /\ (On(s) <=> On(c))
  BY <1>1, <1>3, <1>5, SameSessionKeeps
<1>7. Talks(s)
  BY <1>1, <1>5, <1>6, SameTalks DEF SameSession
<1> QED BY <1>4, <1>5, <1>6, <1>7 DEF GoodScript

\* pagesdestroy leaves no page that the script believes is open, or waits for
\* the actions of one.
LEMMA PagesDestroySound ==
  ASSUME NEW c \in ScriptFields, GoodScript(c), c.open # 0
  PROVE  LET t == PagesDestroy(c) IN
         /\ t \in ScriptFields /\ Base(t) /\ Ending(t) /\ Session(t)
         /\ ~t.odd /\ t.last # 0 => t.last \in t.asked
         /\ ~t.odd /\ On(t) =>
              Heard(t) /\ Visits(t) /\ \A p \in ScriptedPages : Left(t, p)
<1> DEFINE t == PagesDestroy(c)
<1>1. /\ c \in ScriptFields /\ Base(c) /\ Parting(c) /\ Ending(c) /\ Session(c)
      /\ Awaited(c) /\ Talks(c) /\ c.page \in ScriptedPages
      /\ c.visited \in [ScriptedPages -> {"no", "asked", "told", "null"}]
  BY ScriptTypes DEF GoodScript
<1>2. ~c.odd => c.last = 0
  BY <1>1 DEF Awaited, Base
<1>3. ~c.odd /\ On(c) =>
        /\ Heard(c) /\ Visits(c) /\ c.scripting # 0 /\ c.last \notin c.asked
        /\ \A p \in ScriptedPages : p # c.page => Left(c, p)
  <2> SUFFICES ASSUME ~c.odd, On(c)
               PROVE  /\ Heard(c) /\ Visits(c) /\ c.scripting # 0 /\ c.last \notin c.asked
                      /\ \A p \in ScriptedPages : p # c.page => Left(c, p)
    OBVIOUS
  <2>1. Heard(c) /\ Visits(c) /\ Faces(c) /\ c.scripting # 0
    BY <1>1 DEF Talks, Session
  <2>2. c.last \notin c.asked
    <3>1. c.asked \subseteq ScriptedPages
      BY ScriptTypes
    <3> QED BY <1>2, <3>1, ScriptNumbers
  <2> QED BY <2>1, <2>2 DEF Faces
<1>4. CASE c.scripting = 0
  <2>1. t = c
    BY <1>4 DEF PagesDestroy
  <2>2. ~c.odd => ~On(c)
    BY <1>1, <1>4 DEF Session
  <2> HIDE DEF t
  <2> QED BY <1>1, <1>2, <2>1, <2>2 DEF t
<1>5. CASE c.scripting # 0 /\ ~CanClose(c, c.page)
  <2>1. t = WillClose(c)
    BY <1>5 DEF PagesDestroy
  <2>2. ~c.odd /\ On(c) => \A p \in ScriptedPages : Left(c, p)
    BY <1>1, <1>3, <1>5 DEF CanClose, On, Visits, Left
  <2> HIDE DEF t
  <2>3. /\ t \in ScriptFields /\ Base(t) /\ Parting(t) /\ Ending(t) /\ Session(t) /\ t.last = 0
        /\ t.closing = c.closing /\ t.odd = c.odd /\ (On(t) => On(c))
        /\ ~t.odd /\ On(t) =>
              /\ Heard(t) /\ Visits(t) /\ t.open = c.open /\ t.page = c.page
              /\ t.visited = c.visited /\ t.pageOpenPending = c.pageOpenPending
    BY <1>1, <1>3, <2>1, WillCloseSound
  <2>4. ~t.odd /\ On(t) => \A p \in ScriptedPages : Left(t, p)
    BY <2>2, <2>3 DEF Left
  <2> QED BY <2>3, <2>4 DEF t
<1>6. CASE c.scripting # 0 /\ CanClose(c, c.page) /\ c.page \in c.asked
  <2> DEFINE v == [c.visited EXCEPT ![c.page] = "null"]
  <2>1. t = [c EXCEPT !.last = c.page, !.visited = v]
    BY <1>1, <1>6 DEF PagesDestroy, ScriptFields
  <2>2. v \in [ScriptedPages -> {"no", "asked", "told", "null"}] /\ c.page \in 0..ScriptPages
        /\ c.page # 0
    BY <1>1, ScriptNumbers
  <2>3. \A p \in ScriptedPages : v[p] = IF p = c.page THEN "null" ELSE c.visited[p]
    BY <1>1
  <2> HIDE DEF v, t
  <2>4. t \in ScriptFields
    BY <2>1, <2>2, ZenonT(60) DEF ScriptFields
  <2>5. /\ Beside(c, t) /\ t.events = c.events /\ t.last = c.page /\ t.visited = v
        /\ t.asked = c.asked /\ t.leaving = c.leaving /\ t.odd = c.odd
        /\ t.pageOpenPending = c.pageOpenPending
    BY <2>1 DEF ScriptFields, Beside
  <2>6. Base(t) /\ Ending(t)
    BY <1>1, <2>4, <2>5, BesideKeeps
  <2>7. On(c) /\ (On(t) <=> On(c))
    BY <1>6, <2>5 DEF CanClose, On, Beside
  <2>8. Session(t)
    BY <1>1, <2>4, <2>5, <2>7, SessionGoesOn
  <2>9. ASSUME ~c.odd
        PROVE  Heard(t) /\ Visits(t) /\ \A p \in ScriptedPages : Left(t, p)
    <3>1. /\ Heard(c) /\ Visits(c) /\ c.scripting # 0 /\ c.last = 0
          /\ \A p \in ScriptedPages : p # c.page => Left(c, p)
      BY <1>2, <1>3, <2>7, <2>9
    <3>2. c.visited[c.page] = "asked" /\ c.page \notin c.pageOpenPending
      BY <1>1, <1>6, <3>1 DEF CanClose, Visits
    <3>3. \A p \in ScriptedPages : Left(t, p)
      BY <2>3, <2>5, <3>1 DEF Left
    <3>4. \A p \in ScriptedPages : Noted(t, p) = Noted(c, p)
      BY <2>3, <2>5, <3>2 DEF Noted
    <3>5. Begins(t) /\ Alternates(t)
      BY <2>5, <3>1, <3>4, SameBegins, SameAlternates DEF Heard
    <3>6. Visits(t)
      <4>1. \A p \in ScriptedPages : p # 0
        BY ScriptNumbers
      <4>2. \A p \in ScriptedPages : p # c.page => t.visited[p] = c.visited[p]
        BY <2>3, <2>5
      <4>3. \A p \in ScriptedPages : p \in t.asked =>
               /\ t.visited[p] \in {"asked", "null"}
               /\ t.visited[p] = "null" <=> p \in t.leaving \/ p = t.last
        BY <2>3, <2>5, <3>1, <4>1, <4>2 DEF Visits
      <4>4. \A p \in ScriptedPages : t.visited[p] = "asked" => p \in t.asked
        BY <2>3, <2>5, <3>1, <4>2 DEF Visits
      <4> QED BY <3>3, <4>3, <4>4 DEF Visits
    <3> QED BY <3>3, <3>5, <3>6 DEF Heard
  <2> QED BY <1>6, <2>4, <2>5, <2>6, <2>8, <2>9 DEF t
<1>7. CASE c.scripting # 0 /\ CanClose(c, c.page) /\ c.page \notin c.asked
  <2> DEFINE d == DispatchPageClose(c, c.page)
  <2>1. t = WillClose(d)
    BY <1>7 DEF PagesDestroy
  <2>2. /\ d \in ScriptFields /\ Base(d) /\ Parting(d) /\ Ending(d) /\ Session(d)
        /\ Beside(c, d) /\ d.odd = c.odd /\ d.last = c.last /\ d.asked = c.asked
    BY <1>1, LeavingSound
  <2>3. ~c.odd /\ On(c) => Heard(d) /\ Visits(d) /\ \A p \in ScriptedPages : Left(d, p)
    BY <1>1, <1>2, <1>3, CloseLeaves
  <2> HIDE DEF t, d
  <2>4. On(d) <=> On(c)
    BY <2>2 DEF On, Beside
  <2>5. ~d.odd /\ On(d) => d.last \notin d.asked
    BY <1>3, <2>2, <2>4
  <2>6. /\ t \in ScriptFields /\ Base(t) /\ Parting(t) /\ Ending(t) /\ Session(t) /\ t.last = 0
        /\ t.closing = d.closing /\ t.odd = d.odd /\ (On(t) => On(d))
        /\ ~t.odd /\ On(t) =>
              /\ Heard(t) /\ Visits(t) /\ t.open = d.open /\ t.page = d.page
              /\ t.visited = d.visited /\ t.pageOpenPending = d.pageOpenPending
    BY <2>1, <2>2, <2>3, <2>4, <2>5, WillCloseSound
  <2>7. ~t.odd /\ On(t) => \A p \in ScriptedPages : Left(t, p)
    BY <2>2, <2>3, <2>4, <2>6 DEF Left
  <2> QED BY <2>6, <2>7 DEF t
<1> QED BY <1>4, <1>5, <1>6, <1>7

LEMMA CloseDocumentKeeps ==
  ASSUME GoodScript(script), CloseDocument
  PROVE  GoodScript(script')
<1> DEFINE c == script
           d == PagesDestroy(c)
           r1 == [d EXCEPT !.closing = TRUE, !.open = 0]
           r2 == [r1 EXCEPT !.page = 1, !.drawn = {}]
           r == ResetView([d EXCEPT !.closing = TRUE])
<1>1. c \in ScriptFields /\ c.open # 0
  BY DEF GoodScript, CloseDocument
<1>2. /\ d \in ScriptFields /\ Base(d) /\ Ending(d) /\ Session(d)
      /\ ~d.odd /\ d.last # 0 => d.last \in d.asked
      /\ ~d.odd /\ On(d) =>
           Heard(d) /\ Visits(d) /\ \A p \in ScriptedPages : Left(d, p)
  BY <1>1, PagesDestroySound
<1>3. script' = IF r.document = 0 \/ r.destroying # "no" THEN r ELSE Destroy(r)
  BY DEF CloseDocument
<1> HIDE DEF c, d
<1>4. r = r2
  BY <1>2 DEF ResetView, ScriptFields
<1>5. r1 \in ScriptFields
  BY <1>2, ScriptNumbers, ZenonT(60) DEF ScriptFields
<1>6. r2 \in ScriptFields
  <2>1. {} \in SUBSET ScriptedPages
    OBVIOUS
  <2> HIDE DEF r1
  <2> QED BY <1>5, <2>1, ScriptNumbers, ZenonT(60) DEF ScriptFields
<1>7. /\ r.opened = d.opened /\ r.open = 0 /\ r.closing
      /\ r.document = d.document /\ r.scripting = d.scripting /\ r.ready = d.ready
      /\ r.stage = d.stage
      /\ r.destroying = d.destroying /\ r.destroyCapability = d.destroyCapability
      /\ r.closeCapability = d.closeCapability /\ r.page = 1 /\ r.drawn = {}
      /\ r.alive = d.alive /\ r.asked = d.asked /\ r.leaving = d.leaving /\ r.last = d.last
      /\ r.events = d.events /\ r.odd = d.odd /\ r.begun = d.begun /\ r.shown = d.shown
      /\ r.visited = d.visited /\ r.pageOpenPending = d.pageOpenPending
  BY <1>2 DEF ScriptFields, ResetView
<1>8. r \in ScriptFields
  BY <1>4, <1>6
<1> HIDE DEF r
<1>9. Base(r) /\ Ending(r)
  BY <1>2, <1>7 DEF Base, Ending
<1>10. On(r) <=> On(d)
  BY <1>7 DEF On
<1>11. Session(r)
  BY <1>2, <1>7, <1>10 DEF Session, Fresh
<1>12. Awaited(r)
  BY <1>2, <1>7 DEF Awaited
<1>13. Talks(r)
  <2> SUFFICES ASSUME ~r.odd, On(r) PROVE Heard(r) /\ Visits(r) /\ Faces(r)
    BY DEF Talks
  <2>1. Heard(d) /\ Visits(d) /\ \A p \in ScriptedPages : Left(d, p)
    BY <1>2, <1>7, <1>10
  <2>2. Begins(r)
    BY <1>7, <2>1 DEF Heard, Begins
  <2>3. Alternates(r)
    BY <1>7, <2>1 DEF Heard, Alternates, Noted
  <2>4. Visits(r)
    BY <1>7, <2>1 DEF Visits, Left
  <2>5. Faces(r)
    BY <1>7, <2>1 DEF Faces, Left
  <2> QED BY <2>2, <2>3, <2>4, <2>5 DEF Heard
<1>14. CASE r.document = 0
  <2>1. Parting(r)
    BY <1>14 DEF Parting
  <2> QED BY <1>3, <1>8, <1>9, <1>11, <1>12, <1>13, <1>14, <2>1 DEF GoodScript
<1>15. CASE r.document # 0 /\ r.destroying # "no"
  <2>1. r.destroying = "race"
    BY <1>8, <1>9, <1>15, ScriptTypes DEF Ending
  <2>2. Parting(r)
    BY <2>1 DEF Parting
  <2> QED BY <1>3, <1>8, <1>9, <1>11, <1>12, <1>13, <1>15, <2>2 DEF GoodScript
<1>16. CASE r.document # 0 /\ r.destroying = "no"
  <2>1. GoodScript(Destroy(r))
    BY <1>7, <1>8, <1>9, <1>11, <1>12, <1>13, <1>16, DestroySound
  <2> QED BY <1>3, <1>16, <2>1
<1> QED BY <1>14, <1>15, <1>16

LEMMA CloseEndsKeeps ==
  ASSUME GoodScript(script), CloseEnds
  PROVE  GoodScript(script')
<1> DEFINE s == script
           t1 == [s EXCEPT !.closing = FALSE, !.asked = {}]
           t2 == [t1 EXCEPT !.leaving = {}, !.last = 0]
           t == script'
<1>1. /\ s \in ScriptFields /\ Base(s) /\ Parting(s) /\ Ending(s) /\ Session(s)
      /\ Awaited(s) /\ Talks(s)
  BY DEF GoodScript
<1>2. /\ s.closing /\ s.destroyCapability # "pending"
      /\ t = [s EXCEPT !.closing = FALSE, !.asked = {}, !.leaving = {}, !.last = 0,
                       !.stage = "none"]
  BY DEF CloseEnds
<1> HIDE DEF t
<1>3. {} \in SUBSET ScriptedPages /\ 0 \in 0..ScriptPages
  BY ScriptNumbers
<1>4. t1 \in ScriptFields
  BY <1>1, <1>3, ZenonT(60) DEF ScriptFields
<1>5. t2 \in ScriptFields
  <2> HIDE DEF t1
  <2> QED BY <1>3, <1>4, ZenonT(60) DEF ScriptFields
<1>6. t = [t2 EXCEPT !.stage = "none"]
  BY <1>1, <1>2 DEF ScriptFields
<1>7. t \in ScriptFields
  <2> HIDE DEF t2
  <2> QED BY <1>5, <1>6 DEF ScriptFields
<1>8. /\ t.opened = s.opened /\ t.open = s.open /\ ~t.closing
      /\ t.document = s.document /\ t.scripting = s.scripting /\ t.ready = s.ready
      /\ t.stage = "none"
      /\ t.destroying = s.destroying /\ t.destroyCapability = s.destroyCapability
      /\ t.closeCapability = s.closeCapability /\ t.page = s.page /\ t.drawn = s.drawn
      /\ t.alive = s.alive /\ t.asked = {} /\ t.leaving = {} /\ t.last = 0
      /\ t.events = s.events /\ t.odd = s.odd /\ t.begun = s.begun /\ t.shown = s.shown
      /\ t.visited = s.visited /\ t.pageOpenPending = s.pageOpenPending
  BY <1>1, <1>2 DEF ScriptFields
<1> HIDE DEF s
<1>9. s.scripting = 0 /\ s.document = 0 /\ s.destroying = "no"
  BY <1>1, <1>2, ScriptTypes DEF Base, Parting
<1>10. Base(t) /\ Parting(t) /\ Ending(t)
  BY <1>1, <1>2, <1>8, <1>9 DEF Base, Parting, Ending
<1>11. (On(t) <=> On(s)) /\ (~s.odd => ~On(s))
  BY <1>1, <1>8, <1>9 DEF On, Session
<1>12. Session(t)
  BY <1>1, <1>8, <1>9, <1>11 DEF Session
<1>13. Awaited(t) /\ Talks(t)
  BY <1>8, <1>11 DEF Awaited, Talks
<1> QED BY <1>7, <1>10, <1>12, <1>13 DEF GoodScript, t

----------------------------------------------------------------------------
(* The theorem                                                             *)

LEMMA GoodScriptSound ==
  ASSUME GoodScript(script), turns \in 0..MaxTurns
  PROVE  ScriptingIsSound
<1> DEFINE s == script
<1>1. /\ s \in ScriptFields /\ Base(s) /\ Session(s) /\ Talks(s)
      /\ s.shown \in [ScriptedPages -> Int]
  BY ScriptTypes DEF GoodScript
<1>2. ScriptingTypeOK
  BY <1>1 DEF ScriptingTypeOK
<1>3. ASSUME ~s.odd, On(s), NEW p \in ScriptedPages
      PROVE  /\ s.shown[p] \in {0, 1} /\ (s.shown[p] = 1 => s.begun)
             /\ s.events = <<>> => s.shown[p] = Noted(s, p)
  <2>1. Begins(s) /\ Alternates(s)
    BY <1>1, <1>3 DEF Talks, Heard
  <2>2. Runs(s.events, s.scripting, p, s.shown[p], Noted(s, p)) /\ s.events \in Seq(Messages)
    BY <1>1, <2>1, ScriptTypes DEF Alternates
  <2> QED BY <2>1, <2>2, RunsBetween DEF Begins
<1>4. PagesOpenAndClose
  <2> SUFFICES ASSUME ~s.odd, NEW p \in ScriptedPages
               PROVE  s.shown[p] \in {0, 1} /\ (s.shown[p] = 1 => s.begun)
    BY DEF PagesOpenAndClose
  <2>1. CASE On(s)
    BY <1>3, <2>1
  <2>2. CASE ~On(s)
    BY <1>1, <2>2 DEF Session
  <2> QED BY <2>1, <2>2
<1>5. ScriptsKnowThePage
  <2> SUFFICES ASSUME ~s.odd, s.stage = "done", s.scripting # 0, s.open # 0,
                      s.events = <<>>, s.asked = {}
               PROVE  {p \in ScriptedPages : s.shown[p] = 1} = {s.page} \ s.pageOpenPending
    BY DEF ScriptsKnowThePage
  <2>1. On(s)
    BY <1>1 DEF Session
  <2>2. Visits(s) /\ Faces(s) /\ s.page \in ScriptedPages
        /\ s.visited \in [ScriptedPages -> {"no", "asked", "told", "null"}]
    BY <1>1, <2>1, ScriptTypes DEF Talks
  <2>3. \A p \in ScriptedPages : s.shown[p] = 1 <=> s.visited[p] = "told"
    BY <1>3, <2>1 DEF Noted
  <2>4. \A p \in ScriptedPages : s.visited[p] = "told" <=> ~Left(s, p)
    BY <2>2 DEF Visits, Left
  <2>5. \A p \in ScriptedPages : ~Left(s, p) <=> p = s.page /\ p \notin s.pageOpenPending
    BY <2>2 DEF Visits, Faces
  <2> QED BY <2>2, <2>3, <2>4, <2>5
<1>6. OneSandbox
  BY <1>1 DEF OneSandbox, Base
<1> QED BY <1>2, <1>4, <1>5, <1>6 DEF ScriptingIsSound

\* The script of the document, and no other, is told of its pages in turn, and
\* knows which of them shows (PDFScriptingManager), however pages and documents
\* change while the worker and the sandbox answer.
THEOREM ScriptingCorrect == ScriptingSpec => []ScriptingIsSound
<1> DEFINE Good == GoodScript(script) /\ turns \in 0..MaxTurns
<1>1. ScriptingInit => Good
  <2> SUFFICES ASSUME ScriptingInit PROVE Good
    OBVIOUS
  <2> DEFINE s == script
             v == [p \in ScriptedPages |-> "no"]
             z == [p \in ScriptedPages |-> 0]
             e == <<>>
  <2>1. /\ v \in [ScriptedPages -> {"no", "asked", "told", "null"}]
        /\ z \in [ScriptedPages -> Int] /\ e \in Seq([to : Documents, event : Events])
        /\ DOMAIN e = {} /\ \A p \in ScriptedPages : v[p] = "no" /\ z[p] = 0
    OBVIOUS
  <2> HIDE DEF v, z, e
  <2>2. s = [opened |-> 0, open |-> 0, closing |-> FALSE, document |-> 0,
             scripting |-> 0, ready |-> FALSE, stage |-> "none", destroying |-> "no",
             closeCapability |-> "none", destroyCapability |-> "none",
             page |-> 1, drawn |-> {}, pageOpenPending |-> {},
             visited |-> v, asked |-> {}, leaving |-> {}, last |-> 0,
             events |-> e, alive |-> {}, begun |-> FALSE,
             shown |-> z, odd |-> FALSE]
    BY DEF ScriptingInit, v, z, e
  <2>3. s \in ScriptFields
    BY <2>1, <2>2, ScriptNumbers DEF ScriptFields
  <2>4. /\ s.opened = 0 /\ s.open = 0 /\ ~s.closing /\ s.document = 0 /\ s.scripting = 0
        /\ s.stage = "none" /\ s.destroying = "no" /\ s.closeCapability = "none"
        /\ s.destroyCapability = "none" /\ s.drawn = {} /\ s.pageOpenPending = {}
        /\ s.visited = v /\ s.asked = {} /\ s.leaving = {} /\ s.last = 0 /\ s.events = e
        /\ s.alive = {} /\ ~s.begun /\ s.shown = z
    BY <2>2
  <2> HIDE DEF s
  <2>5. Base(s) /\ Parting(s) /\ Ending(s) /\ ~On(s)
    BY <2>1, <2>4 DEF Base, Parting, Ending, On
  <2>6. Session(s) /\ Awaited(s) /\ Talks(s)
    BY <2>1, <2>4, <2>5 DEF Session, Awaited, Talks
  <2>7. turns \in 0..MaxTurns
    BY ScriptingAssumption DEF ScriptingInit
  <2> QED BY <2>3, <2>5, <2>6, <2>7 DEF GoodScript, s
<1>2. Good /\ [ScriptingNext]_scriptVars => Good'
  <2> SUFFICES ASSUME Good, [ScriptingNext]_scriptVars PROVE Good'
    OBVIOUS
  <2>1. CASE UNCHANGED scriptVars
    BY <2>1 DEF scriptVars
  <2>2. ASSUME ScriptingNext PROVE turns' \in 0..MaxTurns
    <3>1. CASE TurnPage \/ PageReset
      <4>1. Turned
        BY <3>1 DEF TurnPage, PageReset
      <4> QED BY <4>1, ScriptingAssumption DEF Turned
    <3>2. CASE OpenDocument \/ PageRendered \/ CloseDocument
      BY <3>2 DEF OpenDocument, PageRendered, CloseDocument
    <3>3. CASE SetScriptedDocument \/ PropertiesFail \/ PageActionsAnswered
      BY <3>3 DEF SetScriptedDocument, PropertiesFail, PageActionsAnswered
    <3>4. CASE ScriptingWorks
      BY <3>4 DEF ScriptingWorks, ActionsAnswered, ScriptPropertiesAnswered, SandboxReady,
                  SandboxEvent, RaceTimeout, CloseEnds
    <3> QED BY <2>2, <3>1, <3>2, <3>3, <3>4 DEF ScriptingNext
  <2>3. ASSUME ScriptingNext PROVE GoodScript(script')
    <3>1. CASE OpenDocument \/ TurnPage \/ PageRendered \/ PageReset \/ CloseDocument
      BY <3>1, OpenDocumentKeeps, TurnPageKeeps, PageRenderedKeeps, PageResetKeeps,
         CloseDocumentKeeps
    <3>2. CASE SetScriptedDocument \/ PropertiesFail \/ PageActionsAnswered
      BY <3>2, SetScriptedDocumentKeeps, PropertiesFailKeeps, PageActionsAnsweredKeeps
    <3>3. CASE ActionsAnswered \/ ScriptPropertiesAnswered \/ SandboxReady
      BY <3>3, ActionsAnsweredKeeps, ScriptPropertiesAnsweredKeeps, SandboxReadyKeeps
    <3>4. CASE SandboxEvent \/ RaceTimeout \/ CloseEnds
      BY <3>4, SandboxEventKeeps, RaceTimeoutKeeps, CloseEndsKeeps
    <3> QED BY <2>3, <3>1, <3>2, <3>3, <3>4 DEF ScriptingNext, ScriptingWorks
  <2> QED BY <2>1, <2>2, <2>3
<1>3. Good => ScriptingIsSound
  BY GoodScriptSound
<1> QED BY <1>1, <1>2, <1>3, PTL DEF ScriptingSpec

============================================================================
