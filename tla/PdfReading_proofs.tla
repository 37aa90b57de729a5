------------------------- MODULE PdfReading_proofs -------------------------
(***************************************************************************)
(* What a reader who moves through a document relies on: that the pages he *)
(* sees get drawn (PdfRendering), that the entries of the window lead back *)
(* to where he was (PdfHistory), and that a search ends on the match it    *)
(* should and counts them right (PdfFind), for every document, every set   *)
(* of destinations, every distribution of the matches over the pages and   *)
(* every bound.  TLC checks the same on documents of a few pages.          *)
(***************************************************************************)
EXTENDS PdfRendering, PdfHistory, PdfFind, FiniteSetTheorems, SequenceTheorems, WellFoundedInduction, TLAPS

----------------------------------------------------------------------------
(* The inductive invariant                                                 *)

Busy == {"RUNNING", "PAUSED"}

\* A view by itself: its state tells of its task, only a page that is there is
\* drawn, and a page that is drawn has a canvas.
Sane(v, f) ==
  /\ f.renderTask <=> f.state \in Busy
  /\ f.state = "PAUSED" => f.resume
  /\ f.state \in Busy => f.pdfPage
  /\ v[1] = "page" =>
       /\ f.state \in Busy => f.canvas # "none"
       /\ f.canvas # "none" => f.pdfPage

\* What a page shows, by the timer of a zoom and what that zoom left to CSS.
Current(f, late, css_) ==
  ~ late =>
    /\ f.canvas = "stale" => f.state = "INITIAL" \/ css_
    /\ f.canvas = "none" /\ f.state = "FINISHED" => ~ f.pdfPage

\* A page that is waited for is not finished meanwhile.
Settled(v, f, hi, b, late, cs, l) ==
  /\ Sane(v, f)
  /\ f.state = "PAUSED" => hi # v
  /\ v[1] = "page" =>
       /\ f.canvas # "none" => v[2] \in Holds(b)
       /\ Current(f, late, v[2] \in cs)
       /\ v \in l => f.state # "FINISHED"

\* The numbers in the buffer are 1, 2, ... without a gap.
Numbered(b, n) ==
  /\ b \in [Pages -> Nat]
  /\ Cardinality(Holds(b)) <= n
  /\ {b[p] : p \in Holds(b)} = 1..Cardinality(Holds(b))

Quiet(w, l, S, on, pr) ==
  on => ~ pr /\ \A p \in S : w[Page(p)].state \notin Busy /\ Page(p) \notin l

Inv ==
  /\ TypeOK
  /\ size >= CacheSize /\ Numbered(buffer, size)
  /\ \A v \in Views : Settled(v, view[v], highest, buffer, scaling, css, loading)
  /\ Quiet(view, loading, visible, idle, printing)
----------------------------------------------------------------------------
(* Sets of pages                                                           *)

\* A set of numbers has a least one.
LEMMA Least ==
  ASSUME NEW S \in SUBSET Nat, S # {}
  PROVE  \E m \in S : \A q \in S : m <= q
<1> DEFINE R == {ss \in Nat \X Nat : ss[1] < ss[2]}
<1>1. IsWellFoundedOn(R, Nat)
  BY NatLessThanWellFounded DEF OpToRel
<1>2. PICK m \in S : \A y \in S : ~ (<<y, m>> \in R)
  <2> HIDE DEF R
  <2> QED BY <1>1, WFMin
<1>3. \A q \in S : ~ (q < m)
  BY <1>2
<1> QED BY <1>3

\* The pages are finitely many, and so are those of any set of them.
LEMMA PagesAreFinite ==
  ASSUME NEW S \in SUBSET Pages
  PROVE  /\ IsFiniteSet(S) /\ Cardinality(S) \in Nat
         /\ Cardinality(S) <= PageCount
<1>1. IsFiniteSet(Pages) /\ Cardinality(Pages) = PageCount
  BY RenderingAssumption, FS_Interval DEF Pages
<1> QED BY <1>1, FS_Subset, FS_CardinalityType

\* FirstOf and LastOf of some pages are among them.
LEMMA FirstAndLast ==
  ASSUME NEW S \in SUBSET Pages, S # {}
  PROVE  FirstOf(S) \in S /\ LastOf(S) \in S
<1> S \subseteq Nat /\ PageCount \in Nat
  BY RenderingAssumption DEF Pages
<1>1. \E m \in S : \A q \in S : m <= q
  BY Least
<1>2. \E m \in S : \A q \in S : m >= q
  <2> DEFINE back == {PageCount - p : p \in S}
  <2>1. back \in SUBSET Nat /\ back # {}
    <3>1. \A p \in S : PageCount - p \in Nat
      BY RenderingAssumption DEF Pages
    <3> QED BY <3>1
  <2>2. PICK n \in back : \A k \in back : n <= k
    <3> HIDE DEF back
    <3> QED BY <2>1, Least
  <2>3. PICK m \in S : n = PageCount - m
    BY <2>2
  <2>4. ASSUME NEW q \in S PROVE m >= q
    BY <2>2, <2>3
  <2> QED BY <2>4
<1> QED BY <1>1, <1>2 DEF FirstOf, LastOf

----------------------------------------------------------------------------
(* PDFPageViewBuffer                                                       *)

\* Numbers that differ and are at most n number no more than n pages.
LEMMA NumbersAreInjective ==
  ASSUME NEW b \in [Pages -> Nat],
         {b[p] : p \in Holds(b)} = 1..Cardinality(Holds(b)),
         NEW o \in Holds(b), NEW p \in Holds(b), b[o] = b[p]
  PROVE  o = p
<1> DEFINE H == Holds(b)
           n == Cardinality(H)
           f == [q \in H |-> b[q]]
<1>1. H \in SUBSET Pages
  BY DEF Holds
<1>2. IsFiniteSet(H) /\ n \in Nat
  BY <1>1, PagesAreFinite
<1>3. Cardinality(1..n) = n
  BY <1>2, FS_Interval
<1>4. f \in Surjection(H, 1..n)
  BY DEF Surjection
<1>5. f \in Injection(H, 1..n)
  <2> HIDE DEF H, n, f
  <2> QED BY <1>2, <1>3, <1>4, FS_SurjSameCardinalityImpliesInj DEF n
<1> QED BY <1>5 DEF Injection, IsInjective

\* Pages used again are numbered anew, and without a gap.
LEMMA RenewedIsNumbered ==
  ASSUME NEW b \in [Pages -> Nat], NEW held \in SUBSET Pages, NEW keep \in SUBSET Pages,
         \A o, p \in held \ keep : b[o] = b[p] => o = p,
         \A o, p \in held \cap keep : b[o] = b[p] => o = p
  PROVE  LET r == Renewed(b, held, keep) IN
         /\ r \in [Pages -> Nat] /\ Holds(r) = held
         /\ {r[p] : p \in Holds(r)} = 1..Cardinality(held)
<1> DEFINE r == Renewed(b, held, keep)
           Upto(p) == {o \in held : AsNewAs(b, keep, o, p)}
           n == Cardinality(held)
           f == [p \in held |-> Cardinality(Upto(p))]
<1>1. IsFiniteSet(held) /\ n \in Nat
  BY PagesAreFinite
<1>2. ASSUME NEW p \in held
      PROVE  /\ IsFiniteSet(Upto(p)) /\ p \in Upto(p)
             /\ Cardinality(Upto(p)) \in 1..n
  <2>1. p \in Upto(p)
    BY DEF AsNewAs
  <2>2. Upto(p) \in SUBSET held /\ Upto(p) # {}
    BY <2>1
  <2>3. IsFiniteSet(Upto(p)) /\ Cardinality(Upto(p)) <= n
    <3> HIDE DEF Upto, n
    <3> QED BY <1>1, <2>2, FS_Subset DEF n
  <2>4. Cardinality(Upto(p)) \in Nat /\ Cardinality(Upto(p)) # 0
    <3> HIDE DEF Upto
    <3> QED BY <2>2, <2>3, FS_CardinalityType, FS_EmptySet
  <2> HIDE DEF Upto, n
  <2> QED BY <2>1, <2>3, <2>4, <1>1
<1>3. ASSUME NEW o \in held, NEW p \in held, o # p
      PROVE  Cardinality(Upto(o)) # Cardinality(Upto(p))
  <2>1. ASSUME NEW x \in held, NEW y \in held, x # y, AsNewAs(b, keep, x, y)
        PROVE  Cardinality(Upto(x)) # Cardinality(Upto(y))
    <3>1. ~ AsNewAs(b, keep, y, x)
      BY <2>1 DEF AsNewAs
    <3>2. ASSUME NEW z \in Upto(x) PROVE z \in Upto(y)
      BY <2>1, <3>2 DEF AsNewAs
    <3>3. Upto(x) \in SUBSET Upto(y) /\ y \in Upto(y) /\ y \notin Upto(x)
      BY <3>1, <3>2, <1>2
    <3>4. IsFiniteSet(Upto(y))
      BY <1>2
    <3> HIDE DEF Upto
    <3> QED BY <3>3, <3>4, FS_Subset
  <2>2. AsNewAs(b, keep, o, p) \/ AsNewAs(b, keep, p, o)
    BY DEF AsNewAs
  <2> HIDE DEF Upto
  <2> QED BY <1>3, <2>1, <2>2
<1>4. f \in Injection(held, 1..n)
  <2> HIDE DEF Upto, n
  <2> QED BY <1>2, <1>3 DEF Injection, IsInjective
<1>5. f \in Surjection(held, 1..n)
  <2>1. IsFiniteSet(1..n) /\ Cardinality(1..n) = n
    BY <1>1, FS_Interval
  <2> HIDE DEF f
  <2>2. Cardinality(held) = Cardinality(1..n)
    BY <2>1
  <2> HIDE DEF n
  <2> QED BY <1>4, <2>1, <2>2, FS_Injection
<1>6. \A p \in held : r[p] = f[p]
  BY DEF Renewed
<1>7. \A p \in Pages \ held : r[p] = 0
  BY DEF Renewed
<1>8. \A p \in held : f[p] \in 1..n
  BY <1>4 DEF Injection
<1>9. r \in [Pages -> Nat]
  <2>1. \A p \in Pages : r[p] \in Nat
    <3> HIDE DEF r, f, n
    <3> QED BY <1>6, <1>7, <1>8, <1>1
  <2>2. r = [p \in Pages |-> r[p]]
    BY DEF Renewed
  <2> HIDE DEF r
  <2> QED BY <2>1, <2>2
<1>10. Holds(r) = held
  <2> HIDE DEF r, f, n
  <2> QED BY <1>6, <1>7, <1>8, <1>1 DEF Holds
<1>11. {r[p] : p \in held} = 1..n
  <2> HIDE DEF r, f, n
  <2> QED BY <1>5, <1>6, <1>8 DEF Surjection
<1> QED BY <1>9, <1>10, <1>11

\* What newest leaves is numbered, and no more than n.
LEMMA NewestIsNumbered ==
  ASSUME NEW b \in [Pages -> Nat], NEW n \in Nat,
         {b[p] : p \in Holds(b)} = 1..Cardinality(Holds(b))
  PROVE  /\ Numbered(Newest(b, n), n)
         /\ Holds(Newest(b, n)) = {p \in Holds(b) : b[p] <= n}
<1> DEFINE c == Newest(b, n)
           H == Holds(b)
           m == Cardinality(H)
           K == {p \in H : b[p] <= n}
           k == IF m <= n THEN m ELSE n
           f == [p \in K |-> b[p]]
<1>1. H \in SUBSET Pages /\ K \in SUBSET Pages
  BY DEF Holds
<1>2. m \in Nat /\ k \in Nat /\ k <= n
  BY <1>1, PagesAreFinite
<1>3. c \in [Pages -> Nat] /\ \A p \in Pages : c[p] = IF b[p] > n THEN 0 ELSE b[p]
  BY DEF Newest
<1>4. Holds(c) = K
  BY <1>3, <1>1 DEF Holds
<1>5. {b[p] : p \in K} = 1..k
  <2>1. ASSUME NEW i \in 1..k PROVE i \in {b[p] : p \in K}
    <3>1. i \in 1..m /\ i <= n
      BY <1>2
    <3>2. PICK p \in H : b[p] = i
      BY <3>1
    <3> QED BY <3>1, <3>2
  <2>2. ASSUME NEW p \in K PROVE b[p] \in 1..k
    <3>1. b[p] \in 1..m /\ b[p] <= n
      OBVIOUS
    <3> QED BY <3>1, <1>2
  <2> HIDE DEF K, k
  <2> QED BY <2>1, <2>2
<1>6. f \in Bijection(K, 1..k)
  <2>1. f \in Surjection(K, 1..k)
    BY ZenonT(40), <1>5 DEF Surjection
  <2>2. f \in Injection(K, 1..k)
    <3>1. \A x, y \in K : b[x] = b[y] => x = y
      BY NumbersAreInjective
    <3> QED BY <1>5, <3>1 DEF Injection, IsInjective
  <2> QED BY <2>1, <2>2 DEF Bijection
<1>7. Cardinality(K) = k
  <2>1. IsFiniteSet(K) /\ ExistsBijection(K, 1..k)
    <3> HIDE DEF K, k, f
    <3> QED BY <1>1, <1>6, PagesAreFinite DEF ExistsBijection
  <2> HIDE DEF K, k
  <2>2. Cardinality(1..k) = k
    BY <1>2, FS_Interval
  <2> QED BY <2>1, <2>2, FS_Bijection
<1>8. {c[p] : p \in K} = 1..k
  <2>1. \A p \in K : c[p] = b[p]
    BY <1>3, <1>1
  <2> HIDE DEF c, k
  <2> QED BY <1>5, <2>1
<1>9. Numbered(c, n)
  <2> HIDE DEF c, k
  <2> QED BY <1>2, <1>3, <1>4, <1>7, <1>8 DEF Numbered
<1> QED BY <1>4, <1>9

\* The page that is drawn is the newest, and another one may go for it.
LEMMA PushIsNumbered ==
  ASSUME NEW b, NEW n \in Nat, n >= 1, Numbered(b, n), NEW p \in Pages
  PROVE  LET c == PushView(b, p)
             held == Cardinality(Holds(c))
             left == IF held > n THEN Newest(c, held - 1) ELSE c
         IN /\ Numbered(left, n)
            /\ p \in Holds(left)
            /\ Holds(c) = Holds(b) \cup {p} /\ Holds(left) \subseteq Holds(c)
<1> DEFINE H == Holds(b) \cup {p}
           c == PushView(b, p)
           held == Cardinality(Holds(c))
           left == IF held > n THEN Newest(c, held - 1) ELSE c
<1>1. b \in [Pages -> Nat] /\ Holds(b) \in SUBSET Pages /\ H \in SUBSET Pages
  BY DEF Numbered, Holds
<1>2. c \in [Pages -> Nat] /\ Holds(c) = H /\ {c[q] : q \in Holds(c)} = 1..Cardinality(H)
  <2>1. \A x, y \in H \ {p} : b[x] = b[y] => x = y
    BY <1>1, NumbersAreInjective DEF Numbered
  <2>2. \A x, y \in H \cap {p} : b[x] = b[y] => x = y
    OBVIOUS
  <2>3. {p} \in SUBSET Pages
    OBVIOUS
  <2> QED BY <1>1, <2>1, <2>2, <2>3, RenewedIsNumbered DEF PushView
<1>3. held \in Nat /\ held <= n + 1
  <2>1. IsFiniteSet(Holds(b)) /\ Cardinality(Holds(b)) \in Nat /\ Cardinality(Holds(b)) <= n
    BY <1>1, PagesAreFinite DEF Numbered
  <2>2. Cardinality(H) = IF p \in Holds(b) THEN Cardinality(Holds(b))
                         ELSE Cardinality(Holds(b)) + 1
    BY <2>1, FS_AddElement
  <2> HIDE DEF c, H
  <2>3. held = Cardinality(H)
    BY <1>2
  <2> HIDE DEF held
  <2> QED BY <2>1, <2>2, <2>3
<1>4. c[p] = 1
  <2>1. {o \in H : AsNewAs(b, {p}, o, p)} = {p}
    BY <1>1 DEF AsNewAs
  <2>2. c[p] = Cardinality({o \in H : AsNewAs(b, {p}, o, p)})
    BY DEF PushView, Renewed
  <2> QED BY <2>1, <2>2, FS_Singleton
<1>5. CASE held > n
  <2>1. /\ Numbered(Newest(c, held - 1), held - 1)
        /\ Holds(Newest(c, held - 1)) = {q \in Holds(c) : c[q] <= held - 1}
    <3>1. held - 1 \in Nat
      BY <1>3, <1>5
    <3> HIDE DEF c
    <3> QED BY <1>2, <3>1, NewestIsNumbered
  <2>2. p \in Holds(Newest(c, held - 1))
    <3> HIDE DEF c, held
    <3> QED BY <1>2, <1>3, <1>4, <1>5, <2>1
  <2>3. Numbered(Newest(c, held - 1), n)
    <3>1. Cardinality(Holds(Newest(c, held - 1))) \in Nat
      <4>1. Holds(Newest(c, held - 1)) \in SUBSET Pages
        BY DEF Holds
      <4> HIDE DEF c, held
      <4> QED BY <4>1, PagesAreFinite
    <3> HIDE DEF c, held
    <3> QED BY <2>1, <3>1, <1>3 DEF Numbered
  <2>4. left = Newest(c, held - 1)
    <3> HIDE DEF c, held
    <3> QED BY <1>5
  <2>5. Numbered(left, n) /\ p \in Holds(left) /\ Holds(left) \subseteq Holds(c)
    <3> HIDE DEF c, held, left
    <3> QED BY <2>1, <2>2, <2>3, <2>4
  <2> QED BY <1>2, <2>5
<1>6. CASE ~ (held > n)
  <2>1. left = c
    <3> HIDE DEF c, held
    <3> QED BY <1>6
  <2>2. Numbered(c, n)
    <3> HIDE DEF c, H
    <3>1. held <= n
      <4> HIDE DEF held
      <4> QED BY <1>3, <1>6
    <3>2. {c[q] : q \in Holds(c)} = 1..held
      BY <1>2
    <3> QED BY <1>2, <3>1, <3>2 DEF Numbered
  <2>3. Numbered(left, n) /\ p \in Holds(left) /\ Holds(left) \subseteq Holds(c)
    <3> HIDE DEF c, left
    <3> QED BY <1>2, <2>1, <2>2
  <2> QED BY <1>2, <2>3
<1> QED BY <1>5, <1>6

\* A buffer of another size is numbered, and holds no page more.
LEMMA ResizeIsNumbered ==
  ASSUME NEW b, NEW m, Numbered(b, m), NEW n \in Nat, NEW keep \in SUBSET Pages
  PROVE  /\ Numbered(Resize(b, n, keep), n)
         /\ Holds(Resize(b, n, keep)) \subseteq Holds(b)
<1> DEFINE c == Renewed(b, Holds(b), keep)
<1>1. b \in [Pages -> Nat] /\ Holds(b) \in SUBSET Pages
  BY DEF Numbered, Holds
<1>2. \A x, y \in Holds(b) : b[x] = b[y] => x = y
  BY <1>1, NumbersAreInjective DEF Numbered
<1>3. c \in [Pages -> Nat] /\ Holds(c) = Holds(b) /\ {c[q] : q \in Holds(c)} = 1..Cardinality(Holds(b))
  <2> DEFINE H == Holds(b)
  <2>1. H \in SUBSET Pages
    BY <1>1
  <2>2. \A x, y \in H \ keep : b[x] = b[y] => x = y
    BY <1>2
  <2>3. \A x, y \in H \cap keep : b[x] = b[y] => x = y
    BY <1>2
  <2> HIDE DEF H
  <2>4. /\ Renewed(b, H, keep) \in [Pages -> Nat] /\ Holds(Renewed(b, H, keep)) = H
        /\ {Renewed(b, H, keep)[q] : q \in Holds(Renewed(b, H, keep))} = 1..Cardinality(H)
    BY <1>1, <2>1, <2>2, <2>3, RenewedIsNumbered
  <2> QED BY <2>4 DEF H
<1>4. Numbered(Newest(c, n), n) /\ Holds(Newest(c, n)) \subseteq Holds(b)
  <2> HIDE DEF c
  <2> QED BY <1>3, NewestIsNumbered
<1> QED BY <1>4 DEF Resize

----------------------------------------------------------------------------
(* One view                                                                *)

\* A view is a page or a thumbnail of a page.
LEMMA KindsOfViews ==
  /\ \A v \in Views : v = <<v[1], v[2]>> /\ v[1] \in {"page", "thumbnail"} /\ v[2] \in Pages
  /\ \A p \in Pages : Page(p) \in Views /\ Page(p)[1] = "page" /\ Page(p)[2] = p
  /\ \A p \in Pages : Thumbnail(p) \in Views /\ Thumbnail(p)[1] = "thumbnail"
                      /\ Thumbnail(p)[2] = p
BY DEF Views, Page, Thumbnail

\* What the operations on a view leave of it.
LEMMA ResetFacts ==
  ASSUME NEW f \in Fields
  PROVE  /\ Reset(f) \in Fields /\ Reset(f).state = "INITIAL" /\ ~ Reset(f).renderTask
         /\ Reset(f).canvas = "none" /\ Reset(f).pdfPage = f.pdfPage
         /\ ResetKeepingCanvas(f) \in Fields /\ ResetKeepingCanvas(f).state = "INITIAL"
         /\ ~ ResetKeepingCanvas(f).renderTask
         /\ ResetKeepingCanvas(f).canvas \in {"none", f.canvas}
         /\ ResetKeepingCanvas(f).pdfPage = f.pdfPage
BY DEF Reset, ResetKeepingCanvas, CancelRendering, Fields

LEMMA SetPdfPageFacts ==
  ASSUME NEW f \in Fields
  PROVE  /\ SetPdfPage(f) \in Fields /\ SetPdfPage(f).pdfPage
         /\ f.pdfPage => SetPdfPage(f) = f
         /\ ~ f.pdfPage => /\ SetPdfPage(f).state = "INITIAL" /\ ~ SetPdfPage(f).renderTask
                           /\ SetPdfPage(f).canvas = "none"
<1>1. CASE f.pdfPage
  BY <1>1 DEF SetPdfPage
<1>2. CASE ~ f.pdfPage
  <2> DEFINE r == Reset(f)
  <2>1. r \in Fields /\ r.state = "INITIAL" /\ ~ r.renderTask /\ r.canvas = "none"
    BY ResetFacts
  <2>2. SetPdfPage(f) = [r EXCEPT !.pdfPage = TRUE]
    BY <1>2 DEF SetPdfPage
  <2> HIDE DEF r
  <2> QED BY <1>2, <2>1, <2>2 DEF Fields
<1> QED BY <1>1, <1>2

LEMMA UpdateFacts ==
  ASSUME NEW f \in Fields, NEW delayed \in BOOLEAN, NEW onlyCss \in BOOLEAN,
         f.renderTask <=> f.state \in Busy
  PROVE  LET g == Update(f, delayed, onlyCss) IN
         /\ g \in Fields /\ g.pdfPage = f.pdfPage
         /\ g.renderTask <=> g.state \in Busy
         /\ g.state \in Busy => g.state = f.state /\ g.resume = f.resume
                                /\ f.canvas # "none" /\ g.canvas = "stale"
         /\ g.canvas # "none" => f.canvas # "none"
         /\ g.state = "FINISHED" /\ f.state # "FINISHED" => f.canvas # "none" /\ delayed
         /\ ~ delayed => \/ g.state = "INITIAL"
                         \/ g.canvas = "stale" /\ onlyCss
<1> DEFINE o == Outdated(f)
           g == Update(f, delayed, onlyCss)
<1>1. /\ o \in Fields /\ o.pdfPage = f.pdfPage /\ o.renderTask = f.renderTask
      /\ o.state = f.state /\ o.resume = f.resume
      /\ o.canvas = IF f.canvas = "none" THEN "none" ELSE "stale"
  BY DEF Outdated, Fields
<1>2. CASE f.canvas = "none"
  <2>1. g = ResetKeepingCanvas(o)
    BY <1>2 DEF Update
  <2> HIDE DEF o, g
  <2>2. /\ g \in Fields /\ g.state = "INITIAL" /\ ~ g.renderTask
        /\ g.canvas = "none" /\ g.pdfPage = f.pdfPage
    BY <1>1, <1>2, <2>1, ResetFacts
  <2> USE DEF g
  <2> QED BY <1>2, <2>2 DEF Busy
<1>3. CASE f.canvas # "none" /\ delayed
  <2>1. g = Postponed(o, onlyCss)
    BY <1>3 DEF Update
  <2>2. CASE o.state # "FINISHED" /\ ~ onlyCss
    <3>1. g = [CancelRendering(o) EXCEPT !.state = "FINISHED"]
      BY <2>1, <2>2 DEF Postponed
    <3> HIDE DEF o, g
    <3>2. /\ g \in Fields /\ g.state = "FINISHED" /\ ~ g.renderTask
          /\ g.pdfPage = f.pdfPage
      BY <1>1, <3>1 DEF CancelRendering, Fields
    <3> USE DEF g
    <3> QED BY <1>3, <3>2 DEF Busy
  <2>3. CASE ~ (o.state # "FINISHED" /\ ~ onlyCss)
    <3>1. g = o
      BY <2>1, <2>3 DEF Postponed
    <3> HIDE DEF o, g
    <3>2. /\ g \in Fields /\ g.pdfPage = f.pdfPage /\ g.renderTask = f.renderTask
          /\ g.state = f.state /\ g.resume = f.resume /\ g.canvas = "stale"
      BY <1>1, <1>3, <3>1
    <3> USE DEF g
    <3> QED BY <1>3, <3>2 DEF Busy
  <2> QED BY <2>2, <2>3
<1>4. CASE f.canvas # "none" /\ ~ delayed /\ onlyCss
  <2>1. g = o
    BY <1>4 DEF Update
  <2> HIDE DEF o, g
  <2>2. /\ g \in Fields /\ g.pdfPage = f.pdfPage /\ g.renderTask = f.renderTask
        /\ g.state = f.state /\ g.resume = f.resume /\ g.canvas = "stale"
    BY <1>1, <1>4, <2>1
  <2> USE DEF g
  <2> QED BY <1>4, <2>2 DEF Busy
<1>5. CASE f.canvas # "none" /\ ~ delayed /\ ~ onlyCss
  <2>1. g = ResetKeepingCanvas(o)
    BY <1>5 DEF Update
  <2> HIDE DEF o, g
  <2>2. /\ g \in Fields /\ g.state = "INITIAL" /\ ~ g.renderTask /\ g.pdfPage = f.pdfPage
    BY <1>1, <2>1, ResetFacts
  <2> USE DEF g
  <2> QED BY <1>5, <2>2 DEF Busy
<1> QED BY <1>2, <1>3, <1>4, <1>5

\* A view that starts anew is settled, whatever else there is.
LEMMA ResetIsSettled ==
  ASSUME NEW v, NEW f \in Fields, NEW hi, NEW b, NEW late, NEW cs, NEW l
  PROVE  Settled(v, Reset(f), hi, b, late, cs, l)
<1> DEFINE g == Reset(f)
<1>1. g.state = "INITIAL" /\ ~ g.renderTask /\ g.canvas = "none"
  BY ResetFacts
<1> HIDE DEF g
<1>2. Settled(v, g, hi, b, late, cs, l)
  BY <1>1 DEF Settled, Sane, Current, Busy
<1> QED BY <1>2 DEF g

LEMMA SetPdfPageIsSettled ==
  ASSUME NEW v, NEW f \in Fields, NEW hi, NEW b, NEW late, NEW cs, NEW l,
         Settled(v, f, hi, b, late, cs, l)
  PROVE  Settled(v, SetPdfPage(f), hi, b, late, cs, l)
<1> DEFINE g == SetPdfPage(f)
<1>1. CASE f.pdfPage
  BY <1>1, SetPdfPageFacts
<1>2. CASE ~ f.pdfPage
  <2>1. g.state = "INITIAL" /\ ~ g.renderTask /\ g.canvas = "none"
    BY <1>2, SetPdfPageFacts
  <2> HIDE DEF g
  <2>2. Settled(v, g, hi, b, late, cs, l)
    BY <2>1 DEF Settled, Sane, Current, Busy
  <2> QED BY <2>2 DEF g
<1> QED BY <1>1, <1>2

\* Pictures are only given to thumbnails that are not drawn.
LEMMA ImagesAreSettled ==
  ASSUME NEW w \in [Views -> Fields], NEW S \in SUBSET Pages,
         \A p \in S : w[Thumbnail(p)].state = "INITIAL",
         NEW hi, NEW b, NEW late, NEW cs, NEW l,
         \A v \in Views : Settled(v, w[v], hi, b, late, cs, l)
  PROVE  /\ SetImages(w, S) \in [Views -> Fields]
         /\ \A v \in Views : Settled(v, SetImages(w, S)[v], hi, b, late, cs, l)
         /\ \A v \in Views : v[1] = "page" => SetImages(w, S)[v] = w[v]
<1> DEFINE New(v) == [SetPdfPage(w[v]) EXCEPT !.state = "FINISHED"]
           z == SetImages(w, S)
<1>1. \A v \in Views : z[v] = IF v[1] = "thumbnail" /\ v[2] \in S THEN New(v) ELSE w[v]
  BY DEF SetImages
<1>2. z = [v \in Views |-> z[v]]
  BY DEF SetImages
<1>3. ASSUME NEW v \in Views, v[1] = "thumbnail", v[2] \in S
      PROVE  New(v) \in Fields /\ Settled(v, New(v), hi, b, late, cs, l)
  <2> DEFINE g == SetPdfPage(w[v])
  <2>1. w[v].state = "INITIAL"
    BY <1>3, KindsOfViews DEF Thumbnail
  <2>2. w[v] \in Fields /\ ~ w[v].renderTask
    <3>1. w[v] \in Fields /\ Settled(v, w[v], hi, b, late, cs, l)
      OBVIOUS
    <3> QED BY <2>1, <3>1 DEF Settled, Sane, Busy
  <2>3. g \in Fields /\ ~ g.renderTask
    BY <2>2, SetPdfPageFacts
  <2> HIDE DEF g
  <2> DEFINE h == [g EXCEPT !.state = "FINISHED"]
  <2>4. h \in Fields /\ ~ h.renderTask /\ h.state = "FINISHED"
    BY <2>3 DEF Fields
  <2> HIDE DEF h
  <2>5. h \in Fields /\ Settled(v, h, hi, b, late, cs, l)
    BY <1>3, <2>4 DEF Settled, Sane, Busy
  <2> QED BY <2>5 DEF h, g
<1> HIDE DEF New, z
<1>4. \A v \in Views : z[v] \in Fields
  BY <1>1, <1>3
<1>5. z \in [Views -> Fields]
  BY <1>2, <1>4
<1>6. \A v \in Views : Settled(v, z[v], hi, b, late, cs, l)
  BY <1>1, <1>3
<1>7. \A v \in Views : v[1] = "page" => z[v] = w[v]
  BY <1>1
<1> QED BY <1>5, <1>6, <1>7 DEF z

----------------------------------------------------------------------------
(* PDFRenderingQueue                                                       *)

\* What is wanted most is a view of its kind that is not finished; when
\* nothing is wanted, everything that is visible is finished.
LEMMA WantedAreUnfinished ==
  ASSUME NEW w, NEW kind \in {"page", "thumbnail"}, NEW S \in SUBSET Pages,
         NEW dn, NEW extra \in BOOLEAN
  PROVE  LET wanted == GetHighestPriority(w, kind, S, dn, extra) IN
         /\ \A v \in wanted : v \in Views /\ v[1] = kind /\ ~ Finished(w, v)
         /\ wanted = {} => \A p \in S : Finished(w, <<kind, p>>)
<1> DEFINE wanted == GetHighestPriority(w, kind, S, dn, extra)
           ahead == ScrollAhead(S, dn)
           holes == Waiting(w, kind, Holes(S))
           next == Waiting(w, kind, {Beyond(S, ahead, n) : n \in 1..(IF extra THEN 2 ELSE 1)} \cap Pages)
           seen == Waiting(w, kind, S)
           chosen == IF seen # {} THEN seen
                     ELSE IF holes # {} THEN Nearest(holes, ahead)
                     ELSE IF next # {} THEN Nearest(next, ahead)
                     ELSE {}
<1>1. CASE S = {}
  BY <1>1 DEF GetHighestPriority
<1>2. CASE S # {}
  <2>1. wanted = {kind} \X chosen
    BY <1>2 DEF GetHighestPriority
  <2>2. \A p \in seen : p \in Pages /\ ~ Finished(w, <<kind, p>>)
    BY DEF Waiting
  <2>3. \A p \in next : p \in Pages /\ ~ Finished(w, <<kind, p>>)
    BY DEF Waiting
  <2>4. \A p \in holes : p \in Pages /\ ~ Finished(w, <<kind, p>>)
    <3>1. FirstOf(S) \in Pages /\ LastOf(S) \in Pages
      BY <1>2, FirstAndLast
    <3>2. Holes(S) \in SUBSET Pages
      BY <3>1, RenderingAssumption DEF Holes, Pages
    <3> QED BY <3>2 DEF Waiting
  <2>5. \A p \in chosen : p \in Pages /\ ~ Finished(w, <<kind, p>>)
    <3> HIDE DEF seen, holes, next, ahead
    <3>1. holes # {} => Nearest(holes, ahead) \subseteq holes
      BY <2>4, FirstAndLast DEF Nearest
    <3>2. next # {} => Nearest(next, ahead) \subseteq next
      BY <2>3, FirstAndLast DEF Nearest
    <3> QED BY <2>2, <2>3, <2>4, <3>1, <3>2
  <2>6. \A v \in wanted : v \in Views /\ v[1] = kind /\ ~ Finished(w, v)
    <3> HIDE DEF wanted, chosen
    <3>1. ASSUME NEW v \in wanted PROVE v \in Views /\ v[1] = kind /\ ~ Finished(w, v)
      <4>1. PICK p \in chosen : v = <<kind, p>>
        BY <2>1
      <4> QED BY <4>1, <2>5 DEF Views
    <3> QED BY <3>1
  <2>7. wanted = {} => \A p \in S : Finished(w, <<kind, p>>)
    <3>1. ASSUME NEW p \in seen PROVE <<kind, p>> \in wanted
      <4> HIDE DEF wanted, seen
      <4>1. chosen = seen
        BY <3>1
      <4> HIDE DEF chosen
      <4> QED BY <2>1, <4>1
    <3> QED BY <3>1 DEF Waiting
  <2> QED BY <2>6, <2>7
<1> QED BY <1>1, <1>2

\* renderHighestPriority waits for nothing finished, and sets the timer only
\* when the visible pages are finished and nothing is printed.
LEMMA RenderFacts ==
  ASSUME NEW w, NEW l \in SUBSET Views, NEW S \in SUBSET Pages, NEW dn,
         NEW on \in BOOLEAN, NEW pr \in BOOLEAN,
         RenderHighestPriority(w, l, S, dn, on, pr)
  PROVE  /\ loading' \in SUBSET Views /\ idle' \in BOOLEAN
         /\ \A v \in loading' : v \in l \/ ~ Finished(w, v)
         /\ idle' => /\ ~ pr /\ loading' = l
                     /\ \A p \in S : Finished(w, Page(p))
<1> DEFINE pages == GetHighestPriority(w, "page", S, dn, PreRenderExtra)
           small == IF on THEN GetHighestPriority(w, "thumbnail", VisibleThumbs, TRUE, FALSE) ELSE {}
           wanted == IF pages # {} THEN pages ELSE small
<1>1. /\ \A v \in pages : v \in Views /\ ~ Finished(w, v)
      /\ pages = {} => \A p \in S : Finished(w, <<"page", p>>)
  <2>1. PreRenderExtra \in BOOLEAN
    BY RenderingAssumption
  <2> QED BY <2>1, WantedAreUnfinished
<1>2. \A v \in small : v \in Views /\ ~ Finished(w, v)
  <2>1. VisibleThumbs \in SUBSET Pages
    BY RenderingAssumption
  <2>2. \A v \in GetHighestPriority(w, "thumbnail", VisibleThumbs, TRUE, FALSE) :
          v \in Views /\ ~ Finished(w, v)
    BY <2>1, WantedAreUnfinished
  <2> QED BY <2>2
<1>3. IF wanted = {} THEN loading' = l /\ idle' = ~ pr
      ELSE (\E v \in wanted : loading' = l \cup {v}) /\ idle' = FALSE
  BY DEF RenderHighestPriority
<1> HIDE DEF pages, small
<1>4. CASE wanted = {}
  BY <1>1, <1>3, <1>4 DEF Page
<1>5. CASE wanted # {}
  <2>1. PICK v \in wanted : loading' = l \cup {v}
    BY <1>3, <1>5
  <2>2. v \in Views /\ ~ Finished(w, v)
    BY <1>1, <1>2
  <2> QED BY <1>3, <1>5, <2>1, <2>2
<1> QED BY <1>4, <1>5

\* PDFViewer.update of views that are settled leaves them so.
LEMMA UpdateViewerFacts ==
  ASSUME TypeOK, size >= CacheSize, Numbered(buffer, size), idle => ~ printing,
         NEW w \in [Views -> Fields], NEW S \in SUBSET Pages, NEW dn,
         NEW hi, NEW late, NEW cs,
         \A v \in Views : Settled(v, w[v], hi, buffer, late, cs, loading),
         UpdateViewer(w, S, dn)
  PROVE  /\ view' \in [Views -> Fields]
         /\ size' \in Nat /\ size' >= CacheSize /\ Numbered(buffer', size')
         /\ loading' \in SUBSET Views /\ idle' \in BOOLEAN
         /\ \A v \in Views : Settled(v, view'[v], hi, buffer', late, cs, loading')
         /\ Quiet(view', loading', S, idle', printing)
<1> USE DEF TypeOK
<1>1. CASE S = {}
  <2>1. view' = w /\ buffer' = buffer /\ size' = size /\ loading' = loading /\ idle' = idle
    BY <1>1 DEF UpdateViewer
  <2>2. Quiet(view', loading', S, idle', printing)
    BY <1>1, <2>1 DEF Quiet
  <2> QED BY <2>1, <2>2
<1>2. CASE S # {}
  <2> DEFINE n == 2 * Cardinality(S) + 1
             max == IF n > CacheSize THEN n ELSE CacheSize
             b == Resize(buffer, max, S)
             gone == Holds(buffer) \ Holds(b)
             left == DestroyViews(w, gone)
  <2>1. /\ view' = left /\ buffer' = b /\ size' = max
        /\ RenderHighestPriority(left, loading, S, dn, thumbs, printing)
    BY <1>2 DEF UpdateViewer
  <2>2. max \in Nat /\ max >= CacheSize
    <3>1. Cardinality(S) \in Nat /\ CacheSize \in Nat
      BY PagesAreFinite, RenderingAssumption
    <3> QED BY <3>1
  <2>3. Numbered(b, max) /\ Holds(b) \subseteq Holds(buffer)
    <3> HIDE DEF max
    <3> QED BY <2>2, ResizeIsNumbered
  <2> HIDE DEF max, b
  <2>4. \A v \in Views : left[v] = IF v[1] = "page" /\ v[2] \in gone THEN Reset(w[v]) ELSE w[v]
    BY DEF DestroyViews
  <2>5. left \in [Views -> Fields]
    <3>1. \A v \in Views : left[v] \in Fields
      BY <2>4, ResetFacts
    <3>2. left = [v \in Views |-> left[v]]
      BY DEF DestroyViews
    <3> HIDE DEF left
    <3> QED BY <3>1, <3>2
  <2> HIDE DEF left
  <2>6. \A v \in Views : Settled(v, left[v], hi, b, late, cs, loading)
    <3> TAKE v \in Views
    <3>1. CASE v[1] = "page" /\ v[2] \in gone
      BY <3>1, <2>4, ResetIsSettled
    <3>2. CASE ~ (v[1] = "page" /\ v[2] \in gone)
      <4>1. left[v] = w[v] /\ Settled(v, w[v], hi, buffer, late, cs, loading)
        BY <3>2, <2>4
      <4>2. v[1] = "page" => (v[2] \in Holds(buffer) => v[2] \in Holds(b))
        BY <3>2
      <4> QED BY <4>1, <4>2 DEF Settled
    <3> QED BY <3>1, <3>2
  <2>7. /\ loading' \in SUBSET Views /\ idle' \in BOOLEAN
        /\ \A v \in loading' : v \in loading \/ ~ Finished(left, v)
        /\ idle' => /\ ~ printing /\ loading' = loading
                    /\ \A p \in S : Finished(left, Page(p))
    BY <2>1, RenderFacts
  <2>8. \A v \in Views : Settled(v, left[v], hi, b, late, cs, loading')
    BY <2>6, <2>7 DEF Settled, Finished
  <2>9. Quiet(left, loading', S, idle', printing)
    BY <2>6, <2>7, KindsOfViews DEF Quiet, Settled, Finished, Busy
  <2> QED BY <2>1, <2>2, <2>3, <2>5, <2>7, <2>8, <2>9
<1> QED BY <1>1, <1>2

----------------------------------------------------------------------------
(* What the thread does                                                    *)

\* A step that leaves the buffer, the timers of zooms and what is loading keeps
\* the invariant when the views stay settled.
LEMMA RenderViewFacts ==
  ASSUME TypeOK, size >= CacheSize, Numbered(buffer, size),
         NEW w \in [Views -> Fields], NEW v \in Views, NEW l \in SUBSET Views, v \notin l,
         \A u \in Views : Settled(u, w[u], highest, buffer, scaling, css, l),
         RenderView(w, v)
  PROVE  /\ view' \in [Views -> Fields] /\ highest' \in Views \cup {NoView}
         /\ done' \in SUBSET Views /\ Numbered(buffer', size)
         /\ \A u \in Views : Settled(u, view'[u], highest', buffer', scaling, css, l)
         /\ \A u \in Views : u # v /\ view'[u].state \in Busy => w[u].state \in Busy
<1> USE DEF TypeOK
<1>0. w[v] \in Fields /\ Settled(v, w[v], highest, buffer, scaling, css, l)
  OBVIOUS
<1>1. CASE w[v].state = "FINISHED" /\ view' = w /\ UNCHANGED <<highest, done, buffer>>
  BY <1>1
<1>2. CASE /\ w[v].state = "PAUSED" /\ highest' = v
           /\ view' = [w EXCEPT ![v].state = "RUNNING"] /\ UNCHANGED <<done, buffer>>
  <2> DEFINE g == [w[v] EXCEPT !.state = "RUNNING"]
  <2>1. g \in Fields /\ Settled(v, g, v, buffer, scaling, css, l)
    <3>1. /\ g \in Fields /\ g.state = "RUNNING" /\ g.renderTask = w[v].renderTask
          /\ g.pdfPage = w[v].pdfPage /\ g.canvas = w[v].canvas
      BY <1>0 DEF Fields
    <3> HIDE DEF g
    <3> QED BY <3>1, <1>0, <1>2 DEF Settled, Sane, Current, Busy
  <2>2. \A u \in Views : view'[u] = IF u = v THEN g ELSE w[u]
    BY <1>2
  <2>3. view' \in [Views -> Fields]
    BY <1>2, <2>1
  <2> HIDE DEF g
  <2>4. \A u \in Views : u # v => Settled(u, w[u], v, buffer, scaling, css, l)
    BY DEF Settled
  <2> QED BY <1>2, <2>1, <2>2, <2>3, <2>4
<1>3. CASE w[v].state = "RUNNING" /\ highest' = v /\ view' = w /\ UNCHANGED <<done, buffer>>
  <2>1. \A u \in Views : Settled(u, w[u], v, buffer, scaling, css, l)
    BY <1>3 DEF Settled
  <2> QED BY <1>3, <2>1
<1>4. CASE w[v].state = "INITIAL" /\ highest' = v /\ ~ w[v].pdfPage /\ DrawNothing(w, v)
  <2> DEFINE g == [w[v] EXCEPT !.state = "FINISHED"]
  <2>1. g \in Fields /\ Settled(v, g, v, buffer, scaling, css, l)
    <3>1. /\ g \in Fields /\ g.state = "FINISHED" /\ g.renderTask = w[v].renderTask
          /\ g.pdfPage = w[v].pdfPage /\ g.canvas = w[v].canvas
      BY <1>0 DEF Fields
    <3> HIDE DEF g
    <3> QED BY <3>1, <1>0, <1>4 DEF Settled, Sane, Current, Busy
  <2>2. view' = [w EXCEPT ![v] = g] /\ done' = done \cup {v} /\ buffer' = buffer
    BY <1>4 DEF DrawNothing, Finally
  <2>3. view' \in [Views -> Fields] /\ \A u \in Views : view'[u] = IF u = v THEN g ELSE w[u]
    BY <2>1, <2>2
  <2> HIDE DEF g
  <2>4. \A u \in Views : u # v => Settled(u, w[u], v, buffer, scaling, css, l)
    <3>1. \A u \in Views : Settled(u, w[u], highest, buffer, scaling, css, l)
      OBVIOUS
    <3> QED BY <3>1 DEF Settled
  <2> QED BY <1>4, <2>1, <2>2, <2>3, <2>4
<1>5. CASE /\ w[v].state = "INITIAL" /\ highest' = v /\ w[v].pdfPage /\ v[1] = "page"
           /\ DrawPage(w, v)
  <2> DEFINE g == [Running(w[v]) EXCEPT !.canvas = "current"]
             drawn == [w EXCEPT ![v] = g]
             b == PushView(buffer, v[2])
             held == Cardinality(Holds(b))
             left == IF held > size THEN Newest(b, held - 1) ELSE b
             gone == Holds(b) \ Holds(left)
  <2>1. buffer' = left /\ view' = DestroyViews(drawn, gone) /\ done' = done \cup CancelledIn(view')
    BY <1>5 DEF DrawPage
  <2>2. v[2] \in Pages
    BY KindsOfViews
  <2>3. /\ Numbered(left, size) /\ v[2] \in Holds(left)
        /\ Holds(b) = Holds(buffer) \cup {v[2]} /\ Holds(left) \subseteq Holds(b)
    <3>1. size \in Nat /\ size >= 1
      BY RenderingAssumption
    <3> QED BY <2>2, <3>1, PushIsNumbered
  <2> HIDE DEF b, left
  <2>4. g \in Fields /\ Settled(v, g, v, left, scaling, css, l)
    <3>1. /\ g \in Fields /\ g.state = "RUNNING" /\ g.renderTask
          /\ g.pdfPage = w[v].pdfPage /\ g.canvas = "current"
      BY <1>0 DEF Fields, Running
    <3> HIDE DEF g
    <3> QED BY <3>1, <1>0, <1>5, <2>3 DEF Settled, Sane, Current, Busy
  <2>5. \A u \in Views : drawn[u] = IF u = v THEN g ELSE w[u]
    OBVIOUS
  <2>6. \A u \in Views : view'[u] = IF u[1] = "page" /\ u[2] \in gone THEN Reset(drawn[u]) ELSE drawn[u]
    BY <2>1 DEF DestroyViews
  <2> HIDE DEF g, drawn
  <2>7. \A u \in Views : drawn[u] \in Fields
    BY <2>4, <2>5
  <2>8. view' \in [Views -> Fields]
    <3>1. \A u \in Views : view'[u] \in Fields
      BY <2>6, <2>7, ResetFacts
    <3>2. view' = [u \in Views |-> view'[u]]
      BY <2>1 DEF DestroyViews
    <3> QED BY <3>1, <3>2
  <2>9. v[2] \notin gone
    BY <2>3
  <2>10. ASSUME NEW u \in Views
         PROVE  /\ Settled(u, view'[u], v, left, scaling, css, l)
                /\ u # v /\ view'[u].state \in Busy => w[u].state \in Busy
    <3>1. CASE u[1] = "page" /\ u[2] \in gone
      <4>1. view'[u] = Reset(drawn[u]) /\ view'[u].state = "INITIAL"
        BY <3>1, <2>6, <2>7, ResetFacts
      <4> QED BY <4>1, <2>7, ResetIsSettled DEF Busy
    <3>2. CASE ~ (u[1] = "page" /\ u[2] \in gone) /\ u # v
      <4>1. view'[u] = w[u] /\ Settled(u, w[u], highest, buffer, scaling, css, l)
        BY <3>2, <2>5, <2>6
      <4>2. u[1] = "page" => (u[2] \in Holds(buffer) => u[2] \in Holds(left))
        BY <3>2, <2>3
      <4> QED BY <3>2, <4>1, <4>2 DEF Settled
    <3>3. CASE u = v
      <4>1. view'[u] = g
        BY <3>3, <2>5, <2>6, <2>9
      <4> QED BY <3>3, <4>1, <2>4
    <3> QED BY <3>1, <3>2, <3>3
  <2>11. done' \in SUBSET Views
    BY <2>1 DEF CancelledIn
  <2>12. \A u \in Views : /\ Settled(u, view'[u], highest', buffer', scaling, css, l)
                          /\ u # v /\ view'[u].state \in Busy => w[u].state \in Busy
    BY <1>5, <2>1, <2>10
  <2> QED BY <1>5, <2>1, <2>3, <2>8, <2>11, <2>12
<1>6. CASE /\ w[v].state = "INITIAL" /\ highest' = v /\ w[v].pdfPage /\ v[1] = "thumbnail"
           /\ DrawThumbnail(w, v)
  <2> DEFINE g == Running(w[v])
  <2>1. g \in Fields /\ Settled(v, g, v, buffer, scaling, css, l)
    <3>1. /\ g \in Fields /\ g.state = "RUNNING" /\ g.renderTask /\ g.pdfPage = w[v].pdfPage
      BY <1>0 DEF Fields, Running
    <3> HIDE DEF g
    <3> QED BY <3>1, <1>0, <1>6 DEF Settled, Sane, Busy
  <2>2. view' = [w EXCEPT ![v] = g] /\ UNCHANGED <<buffer, done>>
    BY <1>6 DEF DrawThumbnail
  <2>3. view' \in [Views -> Fields] /\ \A u \in Views : view'[u] = IF u = v THEN g ELSE w[u]
    BY <2>1, <2>2
  <2> HIDE DEF g
  <2>4. \A u \in Views : u # v => Settled(u, w[u], v, buffer, scaling, css, l)
    <3>1. \A u \in Views : Settled(u, w[u], highest, buffer, scaling, css, l)
      OBVIOUS
    <3> QED BY <3>1 DEF Settled
  <2> QED BY <1>6, <2>1, <2>2, <2>3, <2>4
<1>7. v[1] \in {"page", "thumbnail"}
  BY KindsOfViews
<1> QED BY <1>1, <1>2, <1>3, <1>4, <1>5, <1>6, <1>7 DEF RenderView

LEMMA EnsurePdfPageLoadedKeepsInv ==
  ASSUME Inv, NEW v \in Views, EnsurePdfPageLoaded(v)
  PROVE  Inv'
<1> USE DEF Inv
<1> DEFINE w == IF v[2] \in BrokenPages THEN view ELSE [view EXCEPT ![v] = SetPdfPage(@)]
           l == loading \ {v}
<1>1. /\ v \in loading /\ loading' = l /\ RenderView(w, v)
      /\ UNCHANGED <<size, idle, printing, thumbs, visible, down, scaling, css, events>>
  BY DEF EnsurePdfPageLoaded
<1>2. w \in [Views -> Fields] /\ \A u \in Views : w[u] \in {view[u], SetPdfPage(view[u])}
                              /\ (u # v => w[u] = view[u])
  BY SetPdfPageFacts DEF TypeOK
<1>3. \A u \in Views : Settled(u, view[u], highest, buffer, scaling, css, l)
  BY DEF Settled
<1> HIDE DEF w
<1>4. ASSUME NEW u \in Views
      PROVE  Settled(u, w[u], highest, buffer, scaling, css, l)
  <2>1. view[u] \in Fields
    BY DEF TypeOK
  <2> QED BY <1>2, <1>3, <2>1, SetPdfPageIsSettled
<1>5. l \in SUBSET Views /\ v \notin l
  BY DEF TypeOK
<1> HIDE DEF l
<1>6. /\ view' \in [Views -> Fields] /\ highest' \in Views \cup {NoView}
      /\ done' \in SUBSET Views /\ Numbered(buffer', size)
      /\ \A u \in Views : Settled(u, view'[u], highest', buffer', scaling, css, l)
      /\ \A u \in Views : u # v /\ view'[u].state \in Busy => w[u].state \in Busy
  BY <1>1, <1>2, <1>4, <1>5, RenderViewFacts
<1>7. TypeOK'
  <2>1. buffer' \in [Pages -> Nat]
    BY <1>6 DEF Numbered
  <2> QED BY <1>1, <1>5, <1>6, <2>1 DEF TypeOK
<1>8. size' >= CacheSize /\ Numbered(buffer', size')
  BY <1>1, <1>6
<1>9. \A u \in Views : Settled(u, view'[u], highest', buffer', scaling', css', loading')
  BY <1>1, <1>6
<1>10. Quiet(view', loading', visible', idle', printing')
  <2>1. ASSUME idle, NEW p \in visible
        PROVE  view'[Page(p)].state \notin Busy /\ Page(p) \notin l
    <3>1. Page(p) \in Views
      BY KindsOfViews DEF TypeOK
    <3>2. view[Page(p)].state \notin Busy /\ Page(p) \notin loading
      BY <2>1 DEF Quiet
    <3>3. Page(p) # v
      BY <1>1, <3>2
    <3> QED BY <1>2, <1>6, <3>1, <3>2, <3>3 DEF l
  <2> QED BY <1>1, <2>1 DEF Quiet
<1> QED BY <1>7, <1>8, <1>9, <1>10

LEMMA GetPageKeepsInv ==
  ASSUME Inv, NEW p \in Pages, GetPage(p)
  PROVE  Inv'
<1> USE DEF Inv
<1> DEFINE v == Page(p)
           g == SetPdfPage(view[v])
<1>1. v \in Views /\ view[v] \in Fields /\ ~ view[v].pdfPage
  BY KindsOfViews DEF TypeOK, GetPage
<1>2. g \in Fields /\ g.state = "INITIAL" /\ Settled(v, g, highest, buffer, scaling, css, loading)
  <2> HIDE DEF v
  <2> QED BY <1>1, SetPdfPageFacts, SetPdfPageIsSettled
<1>3. /\ view' = [view EXCEPT ![v] = g]
      /\ UNCHANGED <<buffer, size, highest, loading, done, idle, printing, thumbs,
                     visible, down, scaling, css, events>>
  BY DEF GetPage
<1> HIDE DEF v, g
<1>4. /\ view' \in [Views -> Fields]
      /\ \A u \in Views : view'[u] = IF u = v THEN g ELSE view[u]
  BY <1>1, <1>2, <1>3 DEF TypeOK
<1>5. TypeOK'
  BY <1>3, <1>4 DEF TypeOK
<1>6. \A u \in Views : Settled(u, view'[u], highest', buffer', scaling', css', loading')
  BY <1>2, <1>3, <1>4
<1>7. Quiet(view', loading', visible', idle', printing')
  <2>1. ASSUME idle, NEW q \in visible
        PROVE  view'[Page(q)].state \notin Busy /\ Page(q) \notin loading
    <3>1. Page(q) \in Views
      BY KindsOfViews DEF TypeOK
    <3>2. view[Page(q)].state \notin Busy /\ Page(q) \notin loading
      BY <2>1 DEF Quiet
    <3> QED BY <1>2, <1>4, <3>1, <3>2 DEF Busy
  <2> QED BY <1>3, <2>1 DEF Quiet
<1> QED BY <1>3, <1>5, <1>6, <1>7

LEMMA PauseKeepsInv ==
  ASSUME Inv, NEW v \in Views, Pause(v)
  PROVE  Inv'
<1> USE DEF Inv
<1> DEFINE g == PauseTask(view[v])
<1>1. /\ view[v] \in Fields /\ view[v].state = "RUNNING" /\ view[v].renderTask /\ highest # v
      /\ Settled(v, view[v], highest, buffer, scaling, css, loading)
  BY DEF TypeOK, Pause
<1>2. g \in Fields /\ Settled(v, g, highest, buffer, scaling, css, loading)
  <2>1. /\ g \in Fields /\ g.state = "PAUSED" /\ g.resume /\ g.renderTask
        /\ g.pdfPage = view[v].pdfPage /\ g.canvas = view[v].canvas
    BY <1>1 DEF PauseTask, Fields
  <2> HIDE DEF g
  <2> QED BY <2>1, <1>1 DEF Settled, Sane, Current, Busy
<1>3. /\ view' = [view EXCEPT ![v] = g]
      /\ UNCHANGED <<buffer, size, highest, loading, done, idle, printing, thumbs,
                     visible, down, scaling, css, events>>
  BY DEF Pause
<1> HIDE DEF g
<1>4. /\ view' \in [Views -> Fields]
      /\ \A u \in Views : view'[u] = IF u = v THEN g ELSE view[u]
  BY <1>1, <1>2, <1>3 DEF TypeOK
<1>5. TypeOK'
  BY <1>3, <1>4 DEF TypeOK
<1>6. \A u \in Views : Settled(u, view'[u], highest', buffer', scaling', css', loading')
  BY <1>2, <1>3, <1>4
<1>7. Quiet(view', loading', visible', idle', printing')
  <2>1. ASSUME idle, NEW q \in visible
        PROVE  view'[Page(q)].state \notin Busy /\ Page(q) \notin loading
    <3>1. Page(q) \in Views
      BY KindsOfViews DEF TypeOK
    <3>2. view[Page(q)].state \notin Busy /\ Page(q) \notin loading
      BY <2>1 DEF Quiet
    <3> QED BY <1>1, <1>4, <3>1, <3>2 DEF Busy
  <2> QED BY <1>3, <2>1 DEF Quiet
<1> QED BY <1>3, <1>5, <1>6, <1>7

\* Some pages are drawn, or reset, or change their pictures, and what is wanted
\* now is rendered: the invariant is kept when the views are settled.
LEMMA RenderingKeepsInv ==
  ASSUME Inv, view' \in [Views -> Fields], UNCHANGED <<buffer, size, highest>>,
         done' \in SUBSET Views, thumbs' \in BOOLEAN, printing' \in BOOLEAN,
         visible' \in SUBSET Pages, down' \in BOOLEAN, scaling' \in BOOLEAN,
         css' \subseteq Pages, events' \in 0..MaxEvents,
         \A v \in Views : Settled(v, view'[v], highest, buffer, scaling', css', loading),
         RenderHighestPriority(view', loading, visible', down', thumbs', printing')
  PROVE  Inv'
<1> USE DEF Inv
<1>1. /\ loading' \in SUBSET Views /\ idle' \in BOOLEAN
      /\ \A v \in loading' : v \in loading \/ ~ Finished(view', v)
      /\ idle' => /\ ~ printing' /\ loading' = loading
                  /\ \A p \in visible' : Finished(view', Page(p))
  <2> DEFINE w == view'
             S == visible'
             dn == down'
             on == thumbs'
             pr == printing'
  <2>1. RenderHighestPriority(w, loading, S, dn, on, pr)
    OBVIOUS
  <2>2. loading \in SUBSET Views /\ S \in SUBSET Pages /\ on \in BOOLEAN /\ pr \in BOOLEAN
    BY DEF TypeOK
  <2> HIDE DEF w, S, dn, on, pr
  <2>3. /\ loading' \in SUBSET Views /\ idle' \in BOOLEAN
        /\ \A v \in loading' : v \in loading \/ ~ Finished(w, v)
        /\ idle' => /\ ~ pr /\ loading' = loading
                    /\ \A p \in S : Finished(w, Page(p))
    BY <2>1, <2>2, RenderFacts
  <2> QED BY <2>3 DEF w, S, pr
<1>2. \A v \in Views : Settled(v, view'[v], highest', buffer', scaling', css', loading')
  BY <1>1 DEF Settled, Finished
<1>3. Quiet(view', loading', visible', idle', printing')
  <2>1. ASSUME idle', NEW p \in visible'
        PROVE  view'[Page(p)].state \notin Busy /\ Page(p) \notin loading'
    <3>1. Page(p) \in Views /\ Page(p)[1] = "page"
      BY KindsOfViews
    <3>2. view'[Page(p)].state = "FINISHED"
      BY <1>1, <2>1 DEF Finished
    <3> QED BY <1>2, <3>1, <3>2 DEF Settled, Busy
  <2> QED BY <1>1, <2>1 DEF Quiet
<1>4. TypeOK'
  BY <1>1 DEF TypeOK
<1> QED BY <1>2, <1>3, <1>4

LEMMA FinishRenderTaskKeepsInv ==
  ASSUME Inv, Ready = {}, NEW v \in Views, FinishRenderTask(v)
  PROVE  Inv'
<1> USE DEF Inv
<1> DEFINE g == [view[v] EXCEPT !.state = "FINISHED", !.renderTask = FALSE]
           w == [view EXCEPT ![v] = g]
           S == IF v[1] = "page" THEN {v[2]} ELSE {}
           T == {p \in S : Fitting(w, p)}
<1>1. /\ view[v] \in Fields /\ view[v].state = "RUNNING" /\ view[v].renderTask
      /\ Settled(v, view[v], highest, buffer, scaling, css, loading)
  BY DEF TypeOK, FinishRenderTask
<1>2. v \notin loading
  <2>1. view[v].pdfPage
    BY <1>1 DEF Settled, Sane, Busy
  <2> QED BY <2>1 DEF Ready
<1>3. g \in Fields /\ g.state = "FINISHED" /\ Settled(v, g, highest, buffer, scaling, css, loading)
  <2>1. /\ g \in Fields /\ g.state = "FINISHED" /\ ~ g.renderTask
        /\ g.pdfPage = view[v].pdfPage /\ g.canvas = view[v].canvas
    BY <1>1 DEF Fields
  <2> HIDE DEF g
  <2> QED BY <2>1, <1>1, <1>2 DEF Settled, Sane, Current, Busy
<1>4. /\ view' = OnPageRendered(w, S)
      /\ done' = done \cup {v}
      /\ UNCHANGED <<buffer, size, highest, loading, idle, printing, thumbs,
                     visible, down, scaling, css, events>>
  <2>1. [view EXCEPT ![v].state = "FINISHED", ![v].renderTask = FALSE] = w
    BY DEF TypeOK
  <2> QED BY <2>1 DEF FinishRenderTask, Finally
<1> HIDE DEF g
<1>5. /\ w \in [Views -> Fields]
      /\ \A u \in Views : w[u] = IF u = v THEN g ELSE view[u]
  BY <1>1, <1>3 DEF TypeOK
<1> HIDE DEF w
<1>6. \A u \in Views : Settled(u, w[u], highest, buffer, scaling, css, loading)
  BY <1>3, <1>5
<1>7. T \in SUBSET Pages /\ \A p \in T : w[Thumbnail(p)].state = "INITIAL"
  BY KindsOfViews DEF Fitting
<1>8. view' = w \/ view' = SetImages(w, T)
  BY <1>4 DEF OnPageRendered
<1> HIDE DEF T
<1>9. /\ view' \in [Views -> Fields]
      /\ \A u \in Views : Settled(u, view'[u], highest, buffer, scaling, css, loading)
      /\ \A u \in Views : u[1] = "page" => view'[u] = w[u]
  <2>1. w \in [Views -> Fields]
    BY <1>5
  <2>2. /\ SetImages(w, T) \in [Views -> Fields]
        /\ \A u \in Views : Settled(u, SetImages(w, T)[u], highest, buffer, scaling, css, loading)
        /\ \A u \in Views : u[1] = "page" => SetImages(w, T)[u] = w[u]
    BY <2>1, <1>6, <1>7, ImagesAreSettled
  <2> QED BY <2>1, <2>2, <1>6, <1>8
<1>10. TypeOK'
  BY <1>4, <1>9 DEF TypeOK
<1>11. Quiet(view', loading', visible', idle', printing')
  <2>1. ASSUME idle, NEW q \in visible
        PROVE  view'[Page(q)].state \notin Busy /\ Page(q) \notin loading
    <3>1. Page(q) \in Views /\ Page(q)[1] = "page"
      BY KindsOfViews DEF TypeOK
    <3>2. view[Page(q)].state \notin Busy /\ Page(q) \notin loading
      BY <2>1 DEF Quiet
    <3> QED BY <1>3, <1>5, <1>9, <3>1, <3>2 DEF Busy
  <2> QED BY <1>4, <2>1 DEF Quiet
<1> QED BY <1>4, <1>9, <1>10, <1>11

LEMMA DrawIsOverKeepsInv ==
  ASSUME Inv, NEW v \in Views, DrawIsOver(v)
  PROVE  Inv'
<1>1. /\ done' = done \ {v}
      /\ RenderHighestPriority(view, loading, visible, down, thumbs, printing)
      /\ UNCHANGED <<view, buffer, size, highest, printing, thumbs,
                     visible, down, scaling, css, events>>
  BY DEF DrawIsOver
<1> QED BY <1>1, RenderingKeepsInv DEF Inv, TypeOK

LEMMA PrintStartsKeepsInv ==
  ASSUME Inv, PrintStarts
  PROVE  Inv'
<1>1. /\ printing' = TRUE /\ events < MaxEvents /\ events' = events + 1
      /\ RenderHighestPriority(view, loading, visible, down, thumbs, TRUE)
      /\ UNCHANGED <<view, buffer, size, highest, done, thumbs, visible, down, scaling, css>>
  BY DEF PrintStarts, Event
<1>2. events' \in 0..MaxEvents
  BY <1>1, RenderingAssumption DEF Inv, TypeOK
<1> QED BY <1>1, <1>2, RenderingKeepsInv DEF Inv, TypeOK

LEMMA PrintEndsKeepsInv ==
  ASSUME Inv, PrintEnds
  PROVE  Inv'
<1>1. /\ printing' = FALSE
      /\ RenderHighestPriority(view, loading, visible, down, thumbs, FALSE)
      /\ UNCHANGED <<view, buffer, size, highest, done, thumbs, visible, down, scaling, css, events>>
  BY DEF PrintEnds
<1> QED BY <1>1, RenderingKeepsInv DEF Inv, TypeOK

LEMMA CleanupKeepsInv ==
  ASSUME Inv, Cleanup
  PROVE  Inv'
<1> USE DEF Inv
<1>1. /\ idle' = FALSE
      /\ view' = [v \in Views |-> IF Finished(view, v) THEN view[v] ELSE Reset(view[v])]
      /\ done' \in SUBSET Views
      /\ UNCHANGED <<buffer, size, highest, loading, printing, thumbs,
                     visible, down, scaling, css, events>>
  BY DEF Cleanup, CancelledIn, TypeOK
<1>2. \A v \in Views : view[v] \in Fields
  BY DEF TypeOK
<1>3. view' \in [Views -> Fields]
  BY <1>1, <1>2, ResetFacts
<1>4. \A v \in Views : view'[v] = view[v] \/ view'[v] = Reset(view[v])
  BY <1>1
<1>5. \A v \in Views : Settled(v, view'[v], highest', buffer', scaling', css', loading')
  BY <1>1, <1>2, <1>4, ResetIsSettled
<1>6. Quiet(view', loading', visible', idle', printing')
  BY <1>1 DEF Quiet
<1>7. TypeOK'
  BY <1>1, <1>3 DEF TypeOK
<1> QED BY <1>1, <1>5, <1>6, <1>7

----------------------------------------------------------------------------
(* What the reader does                                                    *)

LEMMA ScrollKeepsInv ==
  ASSUME Inv, NEW S \in VisiblePages, NEW dn \in BOOLEAN, Scroll(S, dn)
  PROVE  Inv'
<1> USE DEF Inv
<1>1. /\ events < MaxEvents /\ events' = events + 1
      /\ visible' = S /\ down' = dn
      /\ UpdateViewer(view, S, dn)
      /\ done' = done \cup CancelledIn(view')
      /\ UNCHANGED <<highest, printing, thumbs, scaling, css>>
  BY DEF Scroll, Event
<1>2. S \in SUBSET Pages /\ events' \in 0..MaxEvents /\ done' \in SUBSET Views
  BY <1>1, RenderingAssumption DEF TypeOK, CancelledIn
<1>3. /\ view' \in [Views -> Fields]
      /\ size' \in Nat /\ size' >= CacheSize /\ Numbered(buffer', size')
      /\ loading' \in SUBSET Views /\ idle' \in BOOLEAN
      /\ \A v \in Views : Settled(v, view'[v], highest, buffer', scaling, css, loading')
      /\ Quiet(view', loading', S, idle', printing)
  <2>1. idle => ~ printing
    BY DEF Quiet
  <2>2. view \in [Views -> Fields]
    BY DEF TypeOK
  <2> QED BY <1>1, <1>2, <2>1, <2>2, UpdateViewerFacts
<1>4. TypeOK'
  BY <1>1, <1>2, <1>3 DEF TypeOK, Numbered
<1> QED BY <1>1, <1>3, <1>4

\* refresh: the pages of C keep the picture they have for now.
LEMMA RefreshIsSettled ==
  ASSUME Inv, Ready = {}, NEW delayed \in BOOLEAN, NEW C \in SUBSET TooLarge
  PROVE  /\ Refresh(delayed, C) \in [Views -> Fields]
         /\ \A v \in Views :
              Settled(v, Refresh(delayed, C)[v], highest, buffer, delayed, C, loading)
<1> USE DEF Inv
<1> DEFINE Upd(v) == Update(view[v], delayed, v[2] \in C)
           w == [v \in Views |-> IF v[1] = "page" THEN Upd(v) ELSE view[v]]
           T == {p \in C : Fitting(w, p)}
<1>1. ASSUME NEW v \in Views
      PROVE  w[v] \in Fields /\ Settled(v, w[v], highest, buffer, delayed, C, loading)
  <2>1. view[v] \in Fields /\ Settled(v, view[v], highest, buffer, scaling, css, loading)
    BY DEF TypeOK
  <2>2. CASE v[1] # "page"
    BY <2>1, <2>2 DEF Settled
  <2>3. CASE v[1] = "page"
    <3> DEFINE g == Upd(v)
               f == view[v]
               onlyCss == v[2] \in C
    <3>1. w[v] = g
      BY <2>3
    <3>2. /\ g \in Fields /\ g.pdfPage = f.pdfPage
          /\ g.renderTask <=> g.state \in Busy
          /\ g.state \in Busy => g.state = f.state /\ g.resume = f.resume
                                 /\ f.canvas # "none" /\ g.canvas = "stale"
          /\ g.canvas # "none" => f.canvas # "none"
          /\ g.state = "FINISHED" /\ f.state # "FINISHED" => f.canvas # "none" /\ delayed
          /\ ~ delayed => \/ g.state = "INITIAL"
                          \/ g.canvas = "stale" /\ onlyCss
      <4>1. f \in Fields /\ (f.renderTask <=> f.state \in Busy) /\ onlyCss \in BOOLEAN
        BY <2>1 DEF Settled, Sane
      <4>2. g = Update(f, delayed, onlyCss)
        OBVIOUS
      <4> HIDE DEF f, g, onlyCss
      <4> QED BY <4>1, <4>2, UpdateFacts
    <3>3. v \in loading => ~ f.pdfPage
      BY DEF Ready
    <3>4. Settled(v, f, highest, buffer, scaling, css, loading)
      BY <2>1
    <3> HIDE DEF g, f, w
    <3>5. Sane(v, g)
      BY <2>3, <3>2, <3>4 DEF Settled, Sane, Busy
    <3>6. Current(g, delayed, onlyCss)
      BY <3>2 DEF Current
    <3>7. g.state = "PAUSED" => highest # v
      BY <3>2, <3>4 DEF Settled, Busy
    <3>8. v \in loading => g.state # "FINISHED"
      BY <2>3, <3>2, <3>3, <3>4 DEF Settled, Sane
    <3>9. g.canvas # "none" => v[2] \in Holds(buffer)
      BY <2>3, <3>2, <3>4 DEF Settled
    <3> QED BY <3>1, <3>2, <3>5, <3>6, <3>7, <3>8, <3>9 DEF Settled
  <2> QED BY <2>2, <2>3
<1>2. w \in [Views -> Fields]
  <2> HIDE DEF Upd
  <2> QED BY <1>1
<1>3. Refresh(delayed, C) = IF delayed THEN w ELSE OnPageRendered(w, C)
  BY DEF Refresh
<1> HIDE DEF w
<1>4. T \in SUBSET Pages /\ \A p \in T : w[Thumbnail(p)].state = "INITIAL"
  BY RenderingAssumption DEF Fitting, TooLarge
<1>5. Refresh(delayed, C) = w \/ Refresh(delayed, C) = SetImages(w, T)
  BY <1>3 DEF OnPageRendered
<1> HIDE DEF T
<1> QED BY <1>1, <1>2, <1>4, <1>5, ImagesAreSettled

LEMMA ZoomKeepsInv ==
  ASSUME Inv, Ready = {}, NEW S \in VisiblePages, NEW delayed \in BOOLEAN,
         NEW C \in SUBSET TooLarge, Zoom(S, delayed, C)
  PROVE  Inv'
<1> USE DEF Inv
<1> DEFINE w == Refresh(delayed, C)
<1>1. /\ events < MaxEvents /\ events' = events + 1
      /\ visible' = S /\ css' = C /\ scaling' = delayed
      /\ UpdateViewer(w, S, down)
      /\ done' = done \cup CancelledIn(view')
      /\ UNCHANGED <<highest, printing, thumbs, down>>
  BY DEF Zoom, Event
<1>2. /\ S \in SUBSET Pages /\ C \subseteq Pages /\ events' \in 0..MaxEvents
      /\ done' \in SUBSET Views
  BY <1>1, RenderingAssumption DEF TypeOK, CancelledIn, TooLarge
<1>3. /\ w \in [Views -> Fields]
      /\ \A v \in Views : Settled(v, w[v], highest, buffer, delayed, C, loading)
  BY RefreshIsSettled
<1>4. idle => ~ printing
  BY DEF Quiet
<1> HIDE DEF w
<1>5. /\ view' \in [Views -> Fields]
      /\ size' \in Nat /\ size' >= CacheSize /\ Numbered(buffer', size')
      /\ loading' \in SUBSET Views /\ idle' \in BOOLEAN
      /\ \A v \in Views : Settled(v, view'[v], highest, buffer', delayed, C, loading')
      /\ Quiet(view', loading', S, idle', printing)
  BY <1>1, <1>2, <1>3, <1>4, UpdateViewerFacts
<1>6. TypeOK'
  BY <1>1, <1>2, <1>5 DEF TypeOK, Numbered
<1> QED BY <1>1, <1>5, <1>6

LEMMA ScaleTimeoutKeepsInv ==
  ASSUME Inv, Ready = {}, NEW C \in SUBSET TooLarge, ScaleTimeout(C)
  PROVE  Inv'
<1> USE DEF Inv
<1> DEFINE w == Refresh(FALSE, C)
<1>1. /\ scaling' = FALSE /\ css' = C
      /\ UpdateViewer(w, visible, down)
      /\ done' = done \cup CancelledIn(view')
      /\ UNCHANGED <<highest, printing, thumbs, visible, down, events>>
  BY DEF ScaleTimeout
<1>2. visible \in SUBSET Pages /\ C \subseteq Pages /\ done' \in SUBSET Views
  BY <1>1, RenderingAssumption DEF TypeOK, CancelledIn, TooLarge
<1>3. /\ w \in [Views -> Fields]
      /\ \A v \in Views : Settled(v, w[v], highest, buffer, FALSE, C, loading)
  BY RefreshIsSettled
<1>4. idle => ~ printing
  BY DEF Quiet
<1> HIDE DEF w
<1>5. /\ view' \in [Views -> Fields]
      /\ size' \in Nat /\ size' >= CacheSize /\ Numbered(buffer', size')
      /\ loading' \in SUBSET Views /\ idle' \in BOOLEAN
      /\ \A v \in Views : Settled(v, view'[v], highest, buffer', FALSE, C, loading')
      /\ Quiet(view', loading', visible, idle', printing)
  BY <1>1, <1>2, <1>3, <1>4, UpdateViewerFacts
<1>6. TypeOK'
  BY <1>1, <1>2, <1>5 DEF TypeOK, Numbered
<1> QED BY <1>1, <1>5, <1>6

LEMMA RotateKeepsInv ==
  ASSUME Inv, Ready = {}, NEW C \in SUBSET TooLarge, Rotate(C)
  PROVE  Inv'
<1> DEFINE w == Refresh(FALSE, C)
<1>1. /\ events < MaxEvents /\ events' = events + 1
      /\ css' = C /\ scaling' = FALSE
      /\ view' = [v \in Views |-> IF v[1] = "page" THEN w[v] ELSE Reset(view[v])]
      /\ done' = done \cup CancelledIn(view')
      /\ RenderHighestPriority(view', loading, visible, down, thumbs, printing)
      /\ UNCHANGED <<buffer, size, highest, printing, thumbs, visible, down>>
  BY DEF Rotate, Event
<1>2. C \subseteq Pages /\ events' \in 0..MaxEvents /\ done' \in SUBSET Views
  <2>1. C \subseteq Pages
    BY RenderingAssumption DEF TooLarge
  <2>2. events' \in 0..MaxEvents
    BY <1>1, RenderingAssumption DEF Inv, TypeOK
  <2>3. done' \in SUBSET Views
    <3>1. done \in SUBSET Views /\ CancelledIn(view') \in SUBSET Views
      BY DEF Inv, TypeOK, CancelledIn
    <3> QED BY <1>1, <3>1
  <2> QED BY <2>1, <2>2, <2>3
<1>3. /\ w \in [Views -> Fields]
      /\ \A v \in Views : Settled(v, w[v], highest, buffer, FALSE, C, loading)
  BY RefreshIsSettled
<1> HIDE DEF w
<1>4. ASSUME NEW v \in Views
      PROVE  view'[v] \in Fields /\ Settled(v, view'[v], highest, buffer, FALSE, C, loading)
  <2>1. view[v] \in Fields
    BY DEF Inv, TypeOK
  <2>2. view'[v] = IF v[1] = "page" THEN w[v] ELSE Reset(view[v])
    BY <1>1
  <2>3. CASE v[1] = "page"
    BY <1>3, <2>2, <2>3
  <2>4. CASE v[1] # "page"
    <3>1. view'[v] = Reset(view[v])
      BY <2>2, <2>4
    <3>2. /\ view'[v] \in Fields /\ view'[v].state = "INITIAL"
          /\ ~ view'[v].renderTask /\ view'[v].canvas = "none"
      BY <2>1, <3>1, ResetFacts
    <3> QED BY <2>4, <3>2 DEF Settled, Sane, Busy
  <2> QED BY <2>3, <2>4
<1>5. view' \in [Views -> Fields]
  BY <1>1, <1>4
<1> QED BY <1>1, <1>2, <1>4, <1>5, RenderingKeepsInv DEF Inv, TypeOK

LEMMA SidebarKeepsInv ==
  ASSUME Inv, Sidebar
  PROVE  Inv'
<1> DEFINE T == {p \in Holds(buffer) : Finished(view, Page(p)) /\ Fitting(view, p)}
<1>1. /\ events < MaxEvents /\ events' = events + 1
      /\ thumbs' = ~ thumbs
      /\ view' = IF thumbs THEN view ELSE SetImages(view, T)
      /\ done' = done \cup CancelledIn(view')
      /\ RenderHighestPriority(view', loading, visible, down, ~ thumbs, printing)
      /\ UNCHANGED <<buffer, size, highest, printing, visible, down, scaling, css>>
  BY DEF Sidebar, Event
<1>2. events' \in 0..MaxEvents /\ done' \in SUBSET Views
  BY <1>1, RenderingAssumption DEF Inv, TypeOK, CancelledIn
<1>3. T \in SUBSET Pages /\ \A p \in T : view[Thumbnail(p)].state = "INITIAL"
  BY DEF Fitting, Holds
<1>4. view \in [Views -> Fields]
      /\ \A v \in Views : Settled(v, view[v], highest, buffer, scaling, css, loading)
  BY DEF Inv, TypeOK
<1> HIDE DEF T
<1>5. view' \in [Views -> Fields]
      /\ \A v \in Views : Settled(v, view'[v], highest, buffer, scaling, css, loading)
  BY <1>1, <1>3, <1>4, ImagesAreSettled
<1> QED BY <1>1, <1>2, <1>5, RenderingKeepsInv DEF Inv, TypeOK

----------------------------------------------------------------------------
(* The theorems                                                            *)

LEMMA InitIsSettled == Init => Inv
<1> SUFFICES ASSUME Init PROVE Inv
  OBVIOUS
<1> USE DEF Init
<1>1. \A v \in Views :
        /\ view[v] \in Fields /\ view[v].state = "INITIAL" /\ ~ view[v].renderTask
        /\ view[v].canvas = "none"
  BY KindsOfViews DEF Fields
<1>2. TypeOK
  <2>1. view \in [Views -> Fields]
    BY <1>1
  <2>2. buffer \in [Pages -> Nat] /\ size \in Nat /\ events \in 0..MaxEvents
    BY RenderingAssumption
  <2> QED BY <2>1, <2>2 DEF TypeOK
<1>3. Numbered(buffer, size)
  <2>1. Holds(buffer) = {}
    BY DEF Holds
  <2>2. {buffer[p] : p \in Holds(buffer)} = {} /\ 1..0 = {}
    BY <2>1
  <2>3. Cardinality(Holds(buffer)) = 0
    BY <2>1, FS_EmptySet
  <2>4. buffer \in [Pages -> Nat] /\ size >= 0
    BY <1>2, RenderingAssumption DEF TypeOK
  <2> HIDE DEF Init
  <2> QED BY <2>2, <2>3, <2>4 DEF Numbered
<1>4. \A v \in Views : Settled(v, view[v], highest, buffer, scaling, css, loading)
  BY <1>1 DEF Settled, Sane, Current, Busy
<1> QED BY <1>2, <1>3, <1>4, RenderingAssumption DEF Inv, Quiet

LEMMA StepKeepsInv == Inv /\ [Next]_vars => Inv'
<1> SUFFICES ASSUME Inv, [Next]_vars PROVE Inv'
  OBVIOUS
<1>1. CASE ViewCallback
  BY <1>1, EnsurePdfPageLoadedKeepsInv, DrawIsOverKeepsInv DEF ViewCallback
<1>2. CASE Ready = {} /\ Task
  <2>1. CASE \E v \in Views : Pause(v) \/ FinishRenderTask(v)
    BY <1>2, <2>1, PauseKeepsInv, FinishRenderTaskKeepsInv
  <2>2. CASE \E p \in Pages : GetPage(p)
    BY <2>2, GetPageKeepsInv
  <2>3. CASE \E C \in SUBSET TooLarge : ScaleTimeout(C)
    BY <1>2, <2>3, ScaleTimeoutKeepsInv
  <2> QED BY <1>2, <2>1, <2>2, <2>3, CleanupKeepsInv, PrintEndsKeepsInv DEF Task
<1>3. CASE Ready = {} /\ Reader
  <2>1. CASE \E S \in VisiblePages, dn \in BOOLEAN : Scroll(S, dn)
    BY <2>1, ScrollKeepsInv
  <2>2. CASE \E S \in VisiblePages, delayed \in BOOLEAN, C \in SUBSET TooLarge :
               Zoom(S, delayed, C)
    BY <1>3, <2>2, ZoomKeepsInv
  <2>3. CASE \E C \in SUBSET TooLarge : Rotate(C)
    BY <1>3, <2>3, RotateKeepsInv
  <2> QED BY <1>3, <2>1, <2>2, <2>3, SidebarKeepsInv, PrintStartsKeepsInv DEF Reader
<1>4. CASE UNCHANGED vars
  BY <1>4 DEF vars, Inv, TypeOK
<1> QED BY <1>1, <1>2, <1>3, <1>4 DEF Next

LEMMA InvIsSound == Inv => RenderingIsSound
<1> SUFFICES ASSUME Inv PROVE RenderingIsSound
  OBVIOUS
<1> USE DEF Inv
<1>1. TasksMatchStates
  BY DEF TasksMatchStates, Settled, Sane, Busy
<1>2. CanvasesAreBuffered
  BY KindsOfViews DEF CanvasesAreBuffered, Numbered, Settled
<1>3. FinishedPagesAreCurrent
  <2> SUFFICES ASSUME NEW p \in Pages, view[Page(p)].state = "FINISHED", ~ scaling
               PROVE  \/ view[Page(p)].canvas = "current"
                      \/ view[Page(p)].canvas = "stale" /\ p \in css
                      \/ ~ view[Page(p)].pdfPage
    BY DEF FinishedPagesAreCurrent
  <2>1. Page(p) \in Views /\ Page(p)[1] = "page" /\ Page(p)[2] = p
    BY KindsOfViews
  <2>2. view[Page(p)] \in Fields
    BY <2>1 DEF TypeOK
  <2>3. view[Page(p)].canvas \in {"none", "current", "stale"}
    BY <2>2 DEF Fields
  <2>4. Current(view[Page(p)], scaling, p \in css)
    BY <2>1 DEF Settled
  <2> QED BY <2>3, <2>4 DEF Current
<1>4. CleanupDisturbsNobody
  BY DEF CleanupDisturbsNobody, Quiet, Busy
<1> QED BY <1>1, <1>2, <1>3, <1>4 DEF RenderingIsSound

(***************************************************************************)
(* Drawing keeps its types: no view that is waited for, drawn or buffered  *)
(* is one the document does not have (viewer.mjs:7753).                    *)
(***************************************************************************)
THEOREM RenderingTypeCorrect == Spec => []TypeOK
<1>1. Inv => TypeOK
  BY DEF Inv
<1> QED BY <1>1, InitIsSettled, StepKeepsInv, PTL DEF Spec

(***************************************************************************)
(* States, tasks, canvases and the buffer fit each other, whatever zooms,  *)
(* resets, evictions and late answers interleave, and the timer of cleanup *)
(* disturbs nobody (viewer.mjs:7753, 10359, 10634, 10906, 11907).          *)
(***************************************************************************)
THEOREM RenderingCorrect == Spec => []RenderingIsSound
BY InitIsSettled, StepKeepsInv, InvIsSound, PTL DEF Spec

----------------------------------------------------------------------------
(***************************************************************************)
(* The history and the links                                               *)
(***************************************************************************)
\* What is written to entries: where a link, a page gone to, a hash that was
\* typed or a position leads.
Lasting ==
  {d \in Destinations :
     \/ /\ d.dest \in Dests /\ d.hash \in {<<"name", d.dest>>, <<"explicit", d.dest>>}
        /\ d.page = DestPage[d.dest] /\ d.first = 0 /\ ~d.temporary
     \/ /\ d.dest \in {0, -1} /\ d.page # 0 /\ d.hash = <<"page", d.page>>
        /\ d.first = 0 /\ ~d.temporary
     \/ /\ d.dest = -1 /\ <<d.first, d.page>> \in Places
        /\ d.hash = <<"at", <<d.first, d.page>>>>}

Urls == {NoHash} \cup {<<"page", n>> : n \in 1..LastPage}

Written(e) ==
  /\ e.destination \in Lasting \cup {NoDestination} /\ e.url \in Urls
  /\ e.fingerprint = NotLoaded => e.destination = NoDestination /\ e.uid = 0

Arranged(h) ==
  /\ h.cur \in 1..Len(h.entries)
  /\ \A i \in 1..Len(h.entries) :
       /\ Written(h.entries[i])
       /\ Len(h.entries) # 1 \/ h.initialized => h.entries[i].fingerprint # NotLoaded
  /\ h.initialized => h.fingerprint # NotLoaded /\ h.currentHash = Here(h).url
  /\ h.resolving # {} => h.initialized
  /\ h.timeout => h.initialized
  /\ h.position \in {NoDestination} \cup {Position(p) : p \in Places}

\* The internal destination d is that of an entry, but for the mark temporary and
\* a page that initialize has set to null.
Likens(d, e) ==
  /\ d.dest = e.dest /\ d.hash = e.hash /\ d.first = e.first
  /\ d.page = e.page \/ (d.page = 0 /\ e.dest > 0)

Agrees(h) ==
  /\ h.destination = NoDestination \/ \E e \in Lasting : Likens(h.destination, e)
  /\ h.initialized /\ IsValidState(h, Here(h), FALSE) =>
       /\ h.uid = Here(h).uid /\ h.destination # NoDestination
       /\ Likens(h.destination, Here(h).destination)

\* The entries of a window that has shown one document: the first has the number
\* 0, and only a first one that is alone may lead nowhere.
OneWindow(h) ==
  /\ h.entries[1].uid = 0
  /\ \A i, j \in 1..Len(h.entries) :
       /\ h.entries[i].fingerprint # NotLoaded /\ h.entries[j].fingerprint # NotLoaded =>
            h.entries[i].fingerprint = h.entries[j].fingerprint
       /\ i < j => h.entries[i].uid < h.entries[j].uid
  /\ \A i \in 1..Len(h.entries) :
       /\ h.fingerprint # NotLoaded => h.entries[i].fingerprint \in {NotLoaded, h.fingerprint}
       /\ Len(h.entries) # 1 => h.entries[i].destination # NoDestination
  /\ h.initialized =>
       /\ h.uid = Here(h).uid /\ Here(h).fingerprint = h.fingerprint
       /\ h.destination = NoDestination <=> Here(h).destination = NoDestination

GoodHistory(h) ==
  h \in HistoryFields /\ Arranged(h) /\ Agrees(h) /\ (~h.mixed => OneWindow(h))

\* The pages that a destination shows.
Seen(d) == <<IF d.first = 0 THEN d.page ELSE d.first, d.page>>

\* The reader looks at the destination of the present entry, and nothing that is
\* under way leads away from it.
AtRest(h) ==
  /\ h.destination \in Lasting /\ ~h.destination.temporary /\ h.place = Seen(h.destination)
  /\ h.timeout => h.position = Position(h.place)
  /\ h.hashEvents > 0 => h.blocks > 0

Calm(h, k) == k > 0 => Len(h.entries) >= k /\ (h.initialized => AtRest(h))

InOrder(h, k) ==
  /\ GoodHistory(h) /\ k \in Nat /\ h.hashEvents \in {0, 1}
  /\ ~h.mixed /\ h.asked = -1 => h.cur > 1
  /\ Calm(h, k)

HistoryInv == InOrder(hist, kept) /\ visits \in 0..MaxVisits

LEMMA LastingCases ==
  ASSUME NEW d \in Lasting
  PROVE  /\ d \in Destinations /\ d # NoDestination /\ d.page \in 1..LastPage
         /\ d.page # 0
         /\ d.first = 0 \/ <<d.first, d.page>> \in Places
         /\ d.dest > 0 <=> d.dest \in Dests
<1>1. d \in Destinations /\ d.page \in 0..LastPage
  BY DEF Lasting, Destinations
<1>2. \/ d.dest \in Dests /\ d.page = DestPage[d.dest] /\ d.first = 0
      \/ d.dest \in {0, -1} /\ d.page # 0 /\ d.hash = <<"page", d.page>> /\ d.first = 0
      \/ d.dest = -1 /\ <<d.first, d.page>> \in Places /\ d.hash = <<"at", <<d.first, d.page>>>>
  BY DEF Lasting
<1>3. d.page \in 1..LastPage
  <2>1. CASE d.dest \in Dests /\ d.page = DestPage[d.dest]
    BY <2>1, HistoryAssumption
  <2>2. CASE d.page # 0
    BY <1>1, <2>2, HistoryAssumption
  <2>3. CASE <<d.first, d.page>> \in Places
    BY <2>3 DEF Places
  <2> QED BY <1>2, <2>1, <2>2, <2>3
<1>4. d.page # 0
  BY <1>3, HistoryAssumption
<1>5. d # NoDestination
  BY <1>4 DEF NoDestination
<1>6. d.dest > 0 <=> d.dest \in Dests
  <2>1. \A n \in Dests : n \in Nat /\ n # 0
    BY HistoryAssumption
  <2>2. CASE d.dest \in Dests
    BY <2>1, <2>2
  <2>3. CASE d.dest = 0 \/ d.dest = -1
    BY <2>1, <2>3
  <2> QED BY <1>2, <2>2, <2>3
<1>7. d.first = 0 \/ <<d.first, d.page>> \in Places
  BY <1>2
<1> QED BY <1>1, <1>3, <1>4, <1>5, <1>6, <1>7

LEMMA LinksLast ==
  /\ \A d \in Dests : \A kind \in {"name", "explicit"} :
       [dest |-> d, hash |-> <<kind, d>>, page |-> DestPage[d], first |-> 0, temporary |-> FALSE]
         \in Lasting
  /\ \A x \in {0, -1} : \A n \in 1..LastPage :
       [dest |-> x, hash |-> <<"page", n>>, page |-> n, first |-> 0, temporary |-> FALSE] \in Lasting
  /\ \A p \in Places : \A t \in BOOLEAN :
       [dest |-> -1, hash |-> <<"at", p>>, page |-> p[2], first |-> p[1], temporary |-> t] \in Lasting
<1>1. ASSUME NEW d \in Dests, NEW kind \in {"name", "explicit"}
      PROVE  [dest |-> d, hash |-> <<kind, d>>, page |-> DestPage[d], first |-> 0,
              temporary |-> FALSE] \in Lasting
  <2>1. <<kind, d>> \in Hashes
    BY DEF Hashes
  <2>2. DestPage[d] \in 0..LastPage /\ 0 \in 0..LastPage
    BY HistoryAssumption
  <2> QED BY <2>1, <2>2 DEF Lasting, Destinations
<1>2. ASSUME NEW x \in {0, -1}, NEW n \in 1..LastPage
      PROVE  [dest |-> x, hash |-> <<"page", n>>, page |-> n, first |-> 0, temporary |-> FALSE]
               \in Lasting
  <2>1. <<"page", n>> \in Hashes
    BY DEF Hashes
  <2>2. n \in 0..LastPage /\ 0 \in 0..LastPage /\ n # 0
    BY HistoryAssumption
  <2> QED BY <2>1, <2>2 DEF Lasting, Destinations
<1>3. ASSUME NEW p \in Places, NEW t \in BOOLEAN
      PROVE  [dest |-> -1, hash |-> <<"at", p>>, page |-> p[2], first |-> p[1], temporary |-> t]
               \in Lasting
  <2>1. <<"at", p>> \in Hashes
    BY DEF Hashes
  <2>2. p = <<p[1], p[2]>> /\ p[1] \in 0..LastPage /\ p[2] \in 0..LastPage
    BY HistoryAssumption DEF Places
  <2> QED BY <2>1, <2>2 DEF Lasting, Destinations
<1> QED BY <1>1, <1>2, <1>3

\* What is written at the end, behind the present entry, and in its place.
LEMMA AppendedEntries ==
  ASSUME NEW S, NEW s \in Seq(S), NEW c \in 1..Len(s), NEW e \in S
  PROVE  LET t == Append(SubSeq(s, 1, c), e)
         IN  /\ t \in Seq(S) /\ Len(t) = c + 1 /\ t[c + 1] = e
             /\ \A i \in 1..c : t[i] = s[i]
<1> DEFINE u == SubSeq(s, 1, c)
           t == Append(u, e)
<1>1. Len(s) \in Nat
  BY LenProperties
<1>2. u \in Seq(S) /\ Len(u) = c /\ \A i \in 1..c : u[i] = s[i]
  BY <1>1, SubSeqProperties
<1> HIDE DEF u
<1>3. t \in Seq(S) /\ Len(t) = Len(u) + 1 /\ t[Len(u) + 1] = e /\ \A i \in 1..Len(u) : t[i] = u[i]
  BY <1>2, AppendProperties
<1> QED BY <1>2, <1>3 DEF u

LEMMA ReplacedEntry ==
  ASSUME NEW S, NEW s \in Seq(S), NEW c \in 1..Len(s), NEW e \in S
  PROVE  LET t == [s EXCEPT ![c] = e]
         IN  /\ t \in Seq(S) /\ Len(t) = Len(s) /\ t[c] = e
             /\ \A i \in 1..Len(s) : i # c => t[i] = s[i]
BY ExceptSeq, LenProperties

LEMMA UpdateInternalStateIs ==
  ASSUME NEW h \in HistoryFields, NEW d \in Destinations, NEW u \in Nat
  PROVE  LET g == UpdateInternalState(h, d, u)
         IN  /\ g \in HistoryFields
             /\ ~g.timeout /\ g.destination = d /\ g.uid = u /\ g.updates = 0
             /\ g.initialized = h.initialized /\ g.fingerprint = h.fingerprint
             /\ g.position = h.position /\ g.blocks = h.blocks /\ g.waits = h.waits
             /\ g.currentHash = h.currentHash /\ g.entries = h.entries /\ g.cur = h.cur
             /\ g.hashEvents = h.hashEvents /\ g.asked = h.asked /\ g.place = h.place
             /\ g.moved = h.moved /\ g.known = h.known /\ g.resolving = h.resolving
             /\ g.reloaded = h.reloaded /\ g.mixed = h.mixed
<1> DEFINE m == IF u > h.maxUid THEN u ELSE h.maxUid
           h1 == [h EXCEPT !.timeout = FALSE]
           h2 == [h1 EXCEPT !.destination = d]
           h3 == [h2 EXCEPT !.uid = u]
           h4 == [h3 EXCEPT !.maxUid = m]
           h5 == [h4 EXCEPT !.updates = 0]
<1>1. m \in Nat
  BY DEF HistoryFields
<1> HIDE DEF m
<1>2. h1 \in HistoryFields BY DEF HistoryFields
<1> HIDE DEF h1
<1>3. h2 \in HistoryFields BY <1>2 DEF HistoryFields
<1> HIDE DEF h2
<1>4. h3 \in HistoryFields BY <1>3 DEF HistoryFields
<1> HIDE DEF h3
<1>5. h4 \in HistoryFields BY <1>1, <1>4 DEF HistoryFields
<1> HIDE DEF h4
<1>6. h5 \in HistoryFields BY <1>5 DEF HistoryFields
<1>7. h5 = UpdateInternalState(h, d, u)
  BY DEF UpdateInternalState, HistoryFields, h1, h2, h3, h4, h5, m
<1> QED BY <1>6, <1>7 DEF UpdateInternalState, HistoryFields

----------------------------------------------------------------------------
(* What is written to the history                                          *)

LEMMA HistoryTypes ==
  ASSUME NEW h \in HistoryFields
  PROVE  /\ h.initialized \in BOOLEAN /\ h.fingerprint \in Fingerprints \cup {NotLoaded}
         /\ h.uid \in Nat /\ h.maxUid \in Nat /\ h.destination \in Destinations
         /\ h.position \in Destinations /\ h.updates \in Nat /\ h.timeout \in BOOLEAN
         /\ h.blocks \in Int /\ h.waits \in Nat /\ h.entries \in Seq(Entries)
         /\ h.cur \in Nat \ {0} /\ h.hashEvents \in Nat /\ h.place \in Places
         /\ h.known \in SUBSET Dests /\ h.asked \in {-1, 0, 1} /\ h.mixed \in BOOLEAN
         /\ h.again \in [Hashes -> Nat] /\ Len(h.entries) \in Nat
         /\ \A i \in 1..Len(h.entries) :
              /\ h.entries[i] \in Entries /\ h.entries[i].uid \in Nat
              /\ h.entries[i].destination \in Destinations /\ h.entries[i].url \in Hashes
<1>1. h.entries \in Seq(Entries)
  BY DEF HistoryFields
<1>2. Len(h.entries) \in Nat /\ \A i \in 1..Len(h.entries) : h.entries[i] \in Entries
  BY <1>1, LenProperties, ElementOfSeq
<1>3. \A i \in 1..Len(h.entries) :
              /\ h.entries[i] \in Entries /\ h.entries[i].uid \in Nat
              /\ h.entries[i].destination \in Destinations /\ h.entries[i].url \in Hashes
  BY <1>2 DEF Entries
<1> QED BY <1>2, <1>3 DEF HistoryFields

\* All but the entries, what is known of the present one, and the timer.
StaysPut(h, g) ==
  /\ g.initialized = h.initialized /\ g.fingerprint = h.fingerprint /\ g.mixed = h.mixed
  /\ g.position = h.position /\ g.place = h.place /\ g.moved = h.moved
  /\ g.blocks = h.blocks /\ g.waits = h.waits /\ g.hashEvents = h.hashEvents
  /\ g.currentHash = h.currentHash /\ g.asked = h.asked /\ g.known = h.known
  /\ g.resolving = h.resolving /\ g.reloaded = h.reloaded

\* g is h with the entry of g, in the place of that of h or behind it.
Wrote(h, g, replaces) ==
  /\ g.fingerprint = h.fingerprint /\ g.mixed = h.mixed /\ g.position = h.position
  /\ g.uid = IF replaces THEN h.uid ELSE h.uid + 1
  /\ g.cur = IF replaces THEN h.cur ELSE h.cur + 1
  /\ Len(g.entries) = IF replaces THEN Len(h.entries) ELSE h.cur + 1
  /\ Here(g).fingerprint = g.fingerprint /\ Here(g).uid = g.uid
  /\ Here(g).destination = g.destination
  /\ \A i \in 1..Len(g.entries) : i # g.cur => i \in 1..Len(h.entries) /\ g.entries[i] = h.entries[i]

LEMMA PushOrReplaceStateIs ==
  ASSUME NEW h \in HistoryFields, h.cur \in 1..Len(h.entries),
         NEW d \in Destinations, NEW force \in BOOLEAN
  PROVE  LET g == PushOrReplaceState(h, d, force)
         IN  /\ g \in HistoryFields /\ StaysPut(h, g)
             /\ Wrote(h, g, force \/ h.destination = NoDestination)
             /\ ~g.timeout /\ g.destination = d /\ g.updates = 0 /\ Here(g).url = Here(h).url
<1> DEFINE r == force \/ h.destination = NoDestination
           u == IF r THEN h.uid ELSE h.uid + 1
           e == [fingerprint |-> h.fingerprint, uid |-> u, destination |-> d, url |-> Here(h).url]
           E == IF r THEN [h.entries EXCEPT ![h.cur] = e] ELSE Append(SubSeq(h.entries, 1, h.cur), e)
           c == IF r THEN h.cur ELSE h.cur + 1
           h1 == [h EXCEPT !.entries = E]
           h2 == [h1 EXCEPT !.cur = c]
           g == UpdateInternalState(h2, d, u)
<1>1. u \in Nat /\ c \in Nat \ {0} /\ h.cur \in Nat /\ h.entries \in Seq(Entries)
  BY HistoryTypes
<1>2. e \in Entries
  BY <1>1, HistoryTypes DEF Entries, Here
<1>3. /\ E \in Seq(Entries) /\ Len(E) = IF r THEN Len(h.entries) ELSE h.cur + 1
      /\ E[c] = e /\ c \in 1..Len(E)
      /\ \A i \in 1..Len(E) : i # c => i \in 1..Len(h.entries) /\ E[i] = h.entries[i]
  <2> HIDE DEF e, u
  <2>1. CASE r
    BY <1>1, <1>2, <2>1, ReplacedEntry
  <2>2. CASE ~r
    <3> DEFINE t == Append(SubSeq(h.entries, 1, h.cur), e)
    <3>1. /\ t \in Seq(Entries) /\ Len(t) = h.cur + 1 /\ t[h.cur + 1] = e
          /\ \A i \in 1..h.cur : t[i] = h.entries[i]
      BY <1>1, <1>2, AppendedEntries
    <3>2. E = t /\ c = h.cur + 1 BY <2>2
    <3>3. Len(h.entries) \in Nat BY HistoryTypes
    <3> HIDE DEF t, E, c
    <3>4. \A i \in 1..(h.cur + 1) : i # h.cur + 1 => i \in 1..h.cur /\ i \in 1..Len(h.entries)
      BY <1>1, <3>3
    <3> QED BY <1>1, <2>2, <3>1, <3>2, <3>4
  <2> QED BY <2>1, <2>2
<1>4. e.fingerprint = h.fingerprint /\ e.uid = u /\ e.destination = d /\ e.url = Here(h).url
  OBVIOUS
<1>5. u = (IF r THEN h.uid ELSE h.uid + 1) /\ c = (IF r THEN h.cur ELSE h.cur + 1)
  OBVIOUS
<1>6. g = PushOrReplaceState(h, d, force)
  <2>1. h2 = [h EXCEPT !.entries = IF r THEN [@ EXCEPT ![h.cur] = e]
                                   ELSE Append(SubSeq(@, 1, h.cur), e),
                       !.cur = IF r THEN @ ELSE @ + 1]
    <3> HIDE DEF e, r
    <3> QED BY DEF HistoryFields
  <2> HIDE DEF h2
  <2> QED BY <2>1 DEF PushOrReplaceState
<1> HIDE DEF u, e, E, c, r
<1>7. h1 \in HistoryFields BY <1>3 DEF HistoryFields
<1>8. h2 \in HistoryFields BY <1>1, <1>7 DEF HistoryFields
<1>9. h2.entries = E /\ h2.cur = c /\ StaysPut(h, h2) BY DEF HistoryFields, StaysPut
<1> HIDE DEF h2
<1>10. /\ g \in HistoryFields /\ ~g.timeout /\ g.destination = d /\ g.uid = u /\ g.updates = 0
       /\ g.entries = E /\ g.cur = c /\ StaysPut(h, g)
  <2>1. /\ g \in HistoryFields /\ ~g.timeout /\ g.destination = d /\ g.uid = u /\ g.updates = 0
        /\ g.entries = h2.entries /\ g.cur = h2.cur
    BY <1>1, <1>8, UpdateInternalStateIs
  <2>2. StaysPut(h2, g)
    BY <1>1, <1>8, UpdateInternalStateIs DEF StaysPut
  <2> QED BY <1>9, <2>1, <2>2 DEF StaysPut
<1> HIDE DEF g
<1>11. Here(g) = e
  BY <1>3, <1>10 DEF Here
<1>12. Wrote(h, g, r)
  BY <1>3, <1>4, <1>5, <1>10, <1>11 DEF Wrote, StaysPut
<1> QED BY <1>4, <1>6, <1>10, <1>11, <1>12 DEF r

LEMMA DestinationsOfEntries ==
  ASSUME NEW h, GoodHistory(h), NEW i \in 1..Len(h.entries)
  PROVE  h.entries[i].destination = NoDestination \/ h.entries[i].destination \in Lasting
BY DEF GoodHistory, Arranged, Written

LEMMA LikensItself ==
  ASSUME NEW d PROVE Likens(d, d)
BY DEF Likens

\* An entry that is written where the reader is keeps the history in order.
LEMMA WroteKeeps ==
  ASSUME NEW h, NEW g \in HistoryFields, GoodHistory(h), h.initialized, g.initialized,
         NEW replaces \in BOOLEAN, Wrote(h, g, replaces),
         h.destination = NoDestination => replaces,
         g.destination \in Lasting, Here(g).url \in Urls, g.currentHash = Here(g).url
  PROVE  GoodHistory(g)
<1> DEFINE n == Len(h.entries)
           m == Len(g.entries)
<1>1. /\ n \in Nat /\ m \in Nat /\ h.cur \in 1..n /\ g.cur \in 1..m /\ h.uid \in Nat /\ g.uid \in Nat
      /\ h \in HistoryFields /\ h.fingerprint # NotLoaded /\ h.fingerprint \in Fingerprints
      /\ m = IF replaces THEN n ELSE h.cur + 1
  <2>1. /\ h \in HistoryFields /\ n \in Nat /\ m \in Nat /\ h.uid \in Nat /\ g.uid \in Nat
        /\ h.fingerprint \in Fingerprints \cup {NotLoaded} /\ h.cur \in 1..n
        /\ h.fingerprint # NotLoaded
    BY HistoryTypes DEF GoodHistory, Arranged
  <2> QED BY <2>1 DEF Wrote
<1>2. /\ g.entries[g.cur].destination = g.destination /\ g.entries[g.cur].uid = g.uid
      /\ g.entries[g.cur].fingerprint = h.fingerprint /\ g.entries[g.cur].url \in Urls
      /\ g.fingerprint = h.fingerprint /\ g.position = h.position /\ g.mixed = h.mixed
      /\ \A i \in 1..m : i # g.cur => i \in 1..n /\ g.entries[i] = h.entries[i]
  BY DEF Wrote, Here
<1>3. g.destination # NoDestination /\ g.destination \in Destinations
  BY LastingCases
<1>4. Arranged(g)
  <2>1. ASSUME NEW i \in 1..m
        PROVE  Written(g.entries[i]) /\ g.entries[i].fingerprint # NotLoaded
    <3>1. CASE i = g.cur BY <1>1, <1>2, <3>1 DEF Written
    <3>2. CASE i # g.cur BY <1>2, <3>2 DEF GoodHistory, Arranged
    <3> QED BY <3>1, <3>2
  <2> QED BY <1>1, <1>2, <2>1 DEF GoodHistory, Arranged, Here
<1>5. Agrees(g)
  BY <1>2, <1>3, LikensItself DEF Agrees, Here
<1>6. ASSUME ~g.mixed
      PROVE  OneWindow(g)
  <2>1. OneWindow(h)
    BY <1>2, <1>6 DEF GoodHistory
  <2>2. /\ h.uid = h.entries[h.cur].uid /\ h.entries[h.cur].fingerprint = h.fingerprint
        /\ h.destination = NoDestination <=> h.entries[h.cur].destination = NoDestination
    BY <2>1 DEF OneWindow, Here
  <2>3. /\ g.cur = IF replaces THEN h.cur ELSE h.cur + 1
        /\ g.uid = IF replaces THEN h.uid ELSE h.uid + 1
    BY DEF Wrote
  <2>4. /\ h.entries[1].uid = 0
        /\ \A i \in 1..n : h.entries[i].uid \in Nat
        /\ \A i, j \in 1..n : i < j => h.entries[i].uid < h.entries[j].uid
        /\ \A i \in 1..n : h.entries[i].fingerprint = h.fingerprint
    <3>1. \A i \in 1..n : h.entries[i].fingerprint # NotLoaded
      BY DEF GoodHistory, Arranged
    <3>2. \A i \in 1..n : h.entries[i].uid \in Nat
      BY <1>1, HistoryTypes
    <3> QED BY <1>1, <2>1, <3>1, <3>2 DEF OneWindow
  <2>5. g.entries[1].uid = 0
    <3>1. CASE g.cur = 1
      BY <1>1, <1>2, <2>2, <2>3, <2>4, <3>1
    <3>2. CASE g.cur # 1
      BY <1>1, <1>2, <2>4, <3>2
    <3> QED BY <3>1, <3>2
  <2>6. ASSUME NEW i \in 1..m, NEW j \in 1..m, i < j
        PROVE  g.entries[i].uid < g.entries[j].uid
    <3>1. CASE i = g.cur
      <4>1. replaces /\ j \in 1..n /\ g.entries[j] = h.entries[j] /\ i = h.cur
        BY <1>1, <1>2, <2>3, <2>6, <3>1
      <4> QED BY <1>2, <2>2, <2>3, <2>4, <2>6, <3>1, <4>1
    <3>2. CASE j = g.cur
      <4>1. i \in 1..n /\ g.entries[i] = h.entries[i]
        BY <1>2, <2>6, <3>2
      <4>2. i = h.cur \/ i < h.cur
        BY <1>1, <2>3, <2>6, <3>2
      <4>3. h.entries[i].uid \in Nat /\ (h.entries[i].uid < h.uid \/ (i = h.cur /\ ~replaces))
        BY <1>1, <2>2, <2>3, <2>4, <2>6, <3>2, <4>1, <4>2
      <4> QED BY <1>1, <1>2, <2>2, <2>3, <3>2, <4>1, <4>3
    <3>3. CASE i # g.cur /\ j # g.cur
      BY <1>2, <2>4, <2>6, <3>3
    <3> QED BY <3>1, <3>2, <3>3
  <2>7. ASSUME NEW i \in 1..m
        PROVE  /\ g.entries[i].fingerprint = g.fingerprint
               /\ m # 1 => g.entries[i].destination # NoDestination
    <3>1. CASE i = g.cur
      BY <1>2, <1>3, <3>1
    <3>2. CASE i # g.cur
      <4>1. i \in 1..n /\ g.entries[i] = h.entries[i]
        BY <1>2, <3>2
      <4>2. n # 1 => h.entries[i].destination # NoDestination
        BY <2>1, <4>1 DEF OneWindow
      <4>3. n = 1 => i = h.cur /\ ~replaces
        BY <1>1, <2>3, <3>2, <4>1
      <4> QED BY <1>2, <2>2, <2>4, <4>1, <4>2, <4>3
    <3> QED BY <3>1, <3>2
  <2> HIDE DEF m, n
  <2>8. /\ g.uid = Here(g).uid /\ Here(g).fingerprint = g.fingerprint
        /\ g.destination = NoDestination <=> Here(g).destination = NoDestination
    BY <1>2 DEF Here
  <2> QED BY <2>5, <2>6, <2>7, <2>8 DEF OneWindow, m
<1> QED BY <1>4, <1>5, <1>6 DEF GoodHistory

\* What the invariant reads, but for the marks of what is under way.
SameHistory(h, g) ==
  /\ g.initialized = h.initialized /\ g.fingerprint = h.fingerprint /\ g.mixed = h.mixed
  /\ g.uid = h.uid /\ g.destination = h.destination
  /\ g.entries = h.entries /\ g.cur = h.cur /\ g.currentHash = h.currentHash

LEMMA SameHistoryKeeps ==
  ASSUME NEW h, NEW g \in HistoryFields, GoodHistory(h), SameHistory(h, g),
         g.resolving # {} \/ g.timeout => g.initialized,
         g.position = h.position \/ \E p \in Places : g.position = Position(p)
  PROVE  GoodHistory(g)
<1>1. Here(g) = Here(h)
  BY DEF SameHistory, Here
<1>2. Arranged(g)
  BY <1>1 DEF GoodHistory, Arranged, SameHistory
<1>3. Agrees(g)
  BY <1>1 DEF GoodHistory, Agrees, SameHistory, IsValidState
<1>4. ~g.mixed => OneWindow(g)
  BY <1>1 DEF GoodHistory, OneWindow, SameHistory
<1> QED BY <1>2, <1>3, <1>4 DEF GoodHistory

LEMMA PositionIsLasting ==
  ASSUME NEW h, GoodHistory(h), h.position # NoDestination, NEW t \in BOOLEAN
  PROVE  LET p == [h.position EXCEPT !.temporary = t]
         IN  /\ p \in Lasting /\ p.dest = -1 /\ p.page = h.position.page /\ p.first = h.position.first
             /\ p.hash = h.position.hash /\ h.position.hash = <<"at", <<p.first, p.page>>>>
             /\ p.page \in p.first .. p.page /\ p.temporary = t /\ p # NoDestination
             /\ p.first \in 1..LastPage /\ <<p.first, p.page>> \in Places
             /\ h.position = Position(<<p.first, p.page>>)
<1> DEFINE p == [h.position EXCEPT !.temporary = t]
<1>1. PICK q \in Places : h.position = Position(q)
  BY DEF GoodHistory, Arranged
<1>3. q = <<q[1], q[2]>> /\ q[1] \in 1..LastPage /\ q[2] \in {q[1], q[1] + 1}
  BY DEF Places
<1>4. p = [dest |-> -1, hash |-> <<"at", q>>, page |-> q[2], first |-> q[1], temporary |-> t]
  BY <1>1 DEF Position
<1>2. p \in Lasting
  BY <1>4, LinksLast
<1>5. /\ h.position.page = q[2] /\ h.position.first = q[1] /\ h.position.hash = <<"at", q>>
  BY <1>1 DEF Position
<1>6. q[2] \in q[1] .. q[2]
  BY <1>3, HistoryAssumption
<1> HIDE DEF p
<1>7. p # NoDestination
  BY <1>4 DEF NoDestination
<1> QED BY <1>1, <1>2, <1>3, <1>4, <1>5, <1>6, <1>7 DEF p

\* What a push of the destination d leaves.
Leads(h, g, d, replaces) ==
  /\ GoodHistory(g) /\ StaysPut(h, g) /\ Wrote(h, g, replaces)
  /\ g.destination = d /\ ~g.timeout /\ g.updates = 0

LEMMA PushOrReplaceStateKeeps ==
  ASSUME NEW h, GoodHistory(h), h.initialized, NEW d \in Lasting, NEW force \in BOOLEAN
  PROVE  Leads(h, PushOrReplaceState(h, d, force), d, force \/ h.destination = NoDestination)
<1> DEFINE g == PushOrReplaceState(h, d, force)
           r == force \/ h.destination = NoDestination
<1>1. h \in HistoryFields /\ h.cur \in 1..Len(h.entries) /\ Here(h).url = h.currentHash
  BY DEF GoodHistory, Arranged
<1>2. Here(h).url \in Urls
  BY <1>1 DEF GoodHistory, Arranged, Written, Here
<1>3. d \in Destinations
  BY LastingCases
<1>4. /\ g \in HistoryFields /\ StaysPut(h, g) /\ Wrote(h, g, r)
      /\ ~g.timeout /\ g.destination = d /\ g.updates = 0 /\ Here(g).url = Here(h).url
  BY <1>1, <1>3, PushOrReplaceStateIs
<1> HIDE DEF g
<1>5. g.initialized /\ g.currentHash = Here(g).url
  BY <1>1, <1>4 DEF StaysPut
<1>6. r \in BOOLEAN /\ (h.destination = NoDestination => r)
  OBVIOUS
<1> HIDE DEF r
<1>7. GoodHistory(g)
  BY <1>2, <1>4, <1>5, <1>6, WroteKeeps
<1> QED BY <1>4, <1>7 DEF Leads, g, r

LEMMA StaysPutItself ==
  ASSUME NEW h PROVE StaysPut(h, h)
BY DEF StaysPut

LEMMA TryPushKeeps ==
  ASSUME NEW h, GoodHistory(h), h.initialized, NEW t \in BOOLEAN
  PROVE  LET g == TryPushCurrentPosition(h, t)
         IN  \/ g = h
             \/ /\ h.position # NoDestination
                /\ \E r \in BOOLEAN : Leads(h, g, [h.position EXCEPT !.temporary = t], r)
<1> DEFINE p == [h.position EXCEPT !.temporary = t]
           g == TryPushCurrentPosition(h, t)
<1>1. CASE h.position = NoDestination
  BY <1>1 DEF TryPushCurrentPosition
<1>2. CASE h.position # NoDestination
  <2>1. p \in Lasting
    BY <1>2, PositionIsLasting
  <2>2. g = h \/ \E force \in BOOLEAN : g = PushOrReplaceState(h, p, force)
    <3> DEFINE inside == h.destination.page \in p.first .. p.page
    <3>1. inside \in BOOLEAN
      OBVIOUS
    <3>2. \/ g = h \/ g = PushOrReplaceState(h, p, FALSE) \/ g = PushOrReplaceState(h, p, TRUE)
          \/ g = PushOrReplaceState(h, p, inside)
      BY <1>2, Zenon DEF TryPushCurrentPosition
    <3> QED BY <3>1, <3>2
  <2>3. ASSUME NEW force \in BOOLEAN
        PROVE  Leads(h, PushOrReplaceState(h, p, force), p, force \/ h.destination = NoDestination)
    BY <2>1, PushOrReplaceStateKeeps
  <2> QED BY <1>2, <2>2, <2>3
<1> QED BY <1>1, <1>2

LEMMA PushCurrentPositionKeeps ==
  ASSUME NEW h, GoodHistory(h), h.initialized, NEW inProgress \in BOOLEAN
  PROVE  LET g == PushCurrentPosition(h, inProgress)
         IN  /\ GoodHistory(g) /\ StaysPut(h, g) /\ g.initialized
             /\ g = h \/ \E r \in BOOLEAN : /\ Leads(h, g, [h.position EXCEPT !.temporary = FALSE], r)
                                           /\ h.position # NoDestination
             /\ inProgress => g = h
<1> DEFINE g == PushCurrentPosition(h, inProgress)
<1>1. CASE g = h
  BY <1>1, StaysPutItself
<1>2. CASE g # h
  <2>1. ~inProgress /\ g = TryPushCurrentPosition(h, FALSE)
    BY <1>2 DEF PushCurrentPosition
  <2>2. PICK r \in BOOLEAN : /\ Leads(h, g, [h.position EXCEPT !.temporary = FALSE], r)
                             /\ h.position # NoDestination
    BY <1>2, <2>1, TryPushKeeps
  <2> QED BY <2>1, <2>2 DEF Leads, StaysPut
<1> QED BY <1>1, <1>2

\* The destination of a link.
LinkTo(d, named) ==
  [dest |-> d, hash |-> <<IF named THEN "name" ELSE "explicit", d>>, page |-> DestPage[d],
   first |-> 0, temporary |-> FALSE]

LEMMA PushKeeps ==
  ASSUME NEW h, GoodHistory(h), h.initialized, NEW d \in Dests, NEW named \in BOOLEAN,
         NEW inProgress \in BOOLEAN
  PROVE  LET g == Push(h, <<IF named THEN "name" ELSE "explicit", d>>, d, inProgress)
         IN  \/ g = h
             \/ Leads(h, g, LinkTo(d, named), \/ IsSame(h.destination, LinkTo(d, named).hash, d)
                                              \/ h.destination = NoDestination)
<1> DEFINE l == LinkTo(d, named)
           s == IsSame(h.destination, l.hash, d)
           g == Push(h, l.hash, d, inProgress)
<1>1. l.hash = <<IF named THEN "name" ELSE "explicit", d>> /\ l \in Lasting
  BY LinksLast DEF LinkTo
<1>2. g = h \/ g = PushOrReplaceState(h, l, s)
  BY DEF Push, LinkTo
<1>3. s \in BOOLEAN
  BY DEF IsSame
<1>4. Leads(h, PushOrReplaceState(h, l, s), l, s \/ h.destination = NoDestination)
  <2> HIDE DEF l, s
  <2> QED BY <1>1, <1>3, PushOrReplaceStateKeeps
<1> QED BY <1>1, <1>2, <1>4

LEMMA PushPageKeeps ==
  ASSUME NEW h, GoodHistory(h), h.initialized, NEW n \in 1..LastPage
  PROVE  LET g == PushPage(h, n)
         IN  \/ g = h
             \/ Leads(h, g, [dest |-> 0, hash |-> <<"page", n>>, page |-> n, first |-> 0,
                             temporary |-> FALSE], h.destination = NoDestination)
<1> DEFINE l == [dest |-> 0, hash |-> <<"page", n>>, page |-> n, first |-> 0, temporary |-> FALSE]
<1>1. l \in Lasting
  BY LinksLast
<1>2. PushPage(h, n) = h \/ PushPage(h, n) = PushOrReplaceState(h, l, FALSE)
  BY DEF PushPage
<1> HIDE DEF l
<1>3. Leads(h, PushOrReplaceState(h, l, FALSE), l, FALSE \/ h.destination = NoDestination)
  BY <1>1, PushOrReplaceStateKeeps
<1>4. (FALSE \/ h.destination = NoDestination) = (h.destination = NoDestination)
  OBVIOUS
<1> QED BY <1>2, <1>3, <1>4 DEF l

----------------------------------------------------------------------------
(* Links                                                                   *)

\* What a step of the viewer keeps of the window.
Carries(h, g) ==
  /\ GoodHistory(g) /\ g.initialized = h.initialized /\ g.asked = h.asked /\ g.mixed = h.mixed
  /\ g.hashEvents = h.hashEvents /\ g.cur >= h.cur

LEMMA GoodTypes ==
  ASSUME NEW h, GoodHistory(h)
  PROVE  /\ h \in HistoryFields /\ h.cur \in Nat /\ h.cur \in 1..Len(h.entries)
         /\ Len(h.entries) \in Nat /\ h.initialized \in BOOLEAN /\ h.mixed \in BOOLEAN
         /\ h.place \in Places /\ h.uid \in Nat
BY HistoryTypes DEF GoodHistory, Arranged

LEMMA LeadsCarries ==
  ASSUME NEW h, NEW g, NEW d, NEW r \in BOOLEAN, GoodHistory(h), Leads(h, g, d, r)
  PROVE  Carries(h, g)
<1>1. h.cur \in Nat
  BY GoodTypes
<1> QED BY <1>1 DEF Leads, Wrote, StaysPut, Carries

LEMMA CarriesOn ==
  /\ \A h : GoodHistory(h) => Carries(h, h)
  /\ \A h, g, f : GoodHistory(h) /\ Carries(h, g) /\ Carries(g, f) => Carries(h, f)
<1>1. ASSUME NEW h, GoodHistory(h) PROVE Carries(h, h)
  BY <1>1, GoodTypes DEF Carries
<1>2. ASSUME NEW h, NEW g, NEW f, GoodHistory(h), Carries(h, g), Carries(g, f)
      PROVE  Carries(h, f)
  <2>1. h.cur \in Nat /\ g.cur \in Nat /\ f.cur \in Nat
    BY <1>2, GoodTypes DEF Carries
  <2> QED BY <1>2, <2>1 DEF Carries
<1> QED BY <1>1, <1>2

LEMMA SameCarries ==
  ASSUME NEW h, NEW g \in HistoryFields, GoodHistory(h), SameHistory(h, g), g.asked = h.asked,
         g.hashEvents = h.hashEvents, g.resolving # {} \/ g.timeout => g.initialized,
         g.position = h.position \/ \E p \in Places : g.position = Position(p)
  PROVE  Carries(h, g)
<1>1. h.cur \in Nat
  BY GoodTypes
<1> QED BY <1>1, SameHistoryKeeps DEF Carries, SameHistory

LEMMA ScrollIntoPlaceIs ==
  ASSUME NEW h \in HistoryFields, NEW place \in Places
  PROVE  LET g == ScrollIntoPlace(h, place)
         IN  /\ g \in HistoryFields /\ StaysPut([h EXCEPT !.place = g.place, !.moved = g.moved], g)
             /\ SameHistory(h, g) /\ g.place = place /\ g.timeout = h.timeout /\ g.updates = h.updates
             /\ g.position = h.position /\ g.resolving = h.resolving /\ g.asked = h.asked
             /\ g.hashEvents = h.hashEvents /\ g.blocks = h.blocks /\ g.waits = h.waits
             /\ g.known = h.known
<1> DEFINE h1 == [h EXCEPT !.place = place]
           m == h.moved \/ h.place # place
           h2 == [h1 EXCEPT !.moved = m]
<1>1. m \in BOOLEAN /\ h1 \in HistoryFields
  BY DEF HistoryFields
<1> HIDE DEF m
<1>2. h2 = [h EXCEPT !.place = place, !.moved = m]
  BY DEF HistoryFields
<1>3. h2 = ScrollIntoPlace(h, place)
  BY <1>2 DEF ScrollIntoPlace, m
<1>4. h2 \in HistoryFields
  <2> HIDE DEF h1
  <2> QED BY <1>1, ZenonT(40) DEF HistoryFields
<1>5. /\ StaysPut([h EXCEPT !.place = h2.place, !.moved = h2.moved], h2)
      /\ SameHistory(h, h2) /\ h2.place = place /\ h2.timeout = h.timeout /\ h2.updates = h.updates
      /\ h2.position = h.position /\ h2.resolving = h.resolving /\ h2.asked = h.asked
      /\ h2.hashEvents = h.hashEvents /\ h2.blocks = h.blocks /\ h2.waits = h.waits
      /\ h2.known = h.known
  BY DEF HistoryFields, StaysPut, SameHistory
<1> HIDE DEF h2
<1> QED BY <1>3, <1>4, <1>5

LEMMA PagesArePlaces ==
  \A n \in 1..LastPage : <<n, n>> \in Places
BY DEF Places

LEMMA ScrollCarries ==
  ASSUME NEW h, GoodHistory(h), NEW place \in Places
  PROVE  Carries(h, ScrollIntoPlace(h, place)) /\ SameHistory(h, ScrollIntoPlace(h, place))
<1> DEFINE g == ScrollIntoPlace(h, place)
<1>1. /\ g \in HistoryFields /\ SameHistory(h, g) /\ g.position = h.position
      /\ g.resolving = h.resolving /\ g.timeout = h.timeout /\ g.asked = h.asked
      /\ g.hashEvents = h.hashEvents
  BY GoodTypes, ScrollIntoPlaceIs
<1> HIDE DEF g
<1>2. g.resolving # {} \/ g.timeout => g.initialized
  BY <1>1 DEF GoodHistory, Arranged, SameHistory
<1>3. Carries(h, g)
  BY <1>1, <1>2, SameCarries
<1> QED BY <1>1, <1>3 DEF g

LEMMA ArriveCarries ==
  ASSUME NEW h, GoodHistory(h), h.initialized, NEW d \in Dests, NEW named \in BOOLEAN,
         NEW inProgress \in BOOLEAN
  PROVE  Carries(h, Arrive(h, d, named, inProgress))
<1> DEFINE g == PushCurrentPosition(h, inProgress)
           f == Push(g, <<IF named THEN "name" ELSE "explicit", d>>, d, inProgress)
           e == ScrollPageIntoView(f, DestPage[d])
<1>1. Carries(h, g) /\ g.initialized
  <2>1. /\ GoodHistory(g) /\ g.initialized
        /\ g = h \/ \E r \in BOOLEAN : Leads(h, g, [h.position EXCEPT !.temporary = FALSE], r)
    BY PushCurrentPositionKeeps
  <2> HIDE DEF g
  <2> QED BY <2>1, LeadsCarries, CarriesOn
<1>2. GoodHistory(g)
  BY <1>1 DEF Carries
<1> HIDE DEF g
<1>3. Carries(g, f)
  BY <1>1, <1>2, PushKeeps, LeadsCarries, CarriesOn
<1>4. GoodHistory(f)
  BY <1>3 DEF Carries
<1> HIDE DEF f
<1>5. Carries(f, e)
  <2>1. <<DestPage[d], DestPage[d]>> \in Places
    BY PagesArePlaces, HistoryAssumption
  <2> QED BY <1>4, <2>1, ScrollCarries DEF ScrollPageIntoView
<1>6. e = Arrive(h, d, named, inProgress)
  BY DEF Arrive, e, f, g
<1> HIDE DEF e
<1> QED BY <1>1, <1>2, <1>3, <1>5, <1>6, CarriesOn

LEMMA GoToDestinationCarries ==
  ASSUME NEW h, GoodHistory(h), h.initialized, NEW d \in Dests, NEW named \in BOOLEAN,
         NEW inProgress \in BOOLEAN
  PROVE  Carries(h, GoToDestination(h, d, named, inProgress))
<1> DEFINE g == [h EXCEPT !.resolving = @ \cup {<<d, named>>}]
<1>1. h \in HistoryFields
  BY DEF GoodHistory
<1>2. /\ g \in HistoryFields /\ SameHistory(h, g) /\ g.position = h.position /\ g.asked = h.asked
      /\ g.hashEvents = h.hashEvents
  <2>1. h.resolving \cup {<<d, named>>} \in SUBSET (Dests \X BOOLEAN)
    BY <1>1 DEF HistoryFields
  <2> QED BY <1>1, <2>1 DEF HistoryFields, SameHistory
<1> HIDE DEF g
<1>3. Carries(h, g)
  BY <1>2, SameCarries DEF SameHistory
<1> QED BY <1>3, ArriveCarries DEF GoToDestination, g

\* The hash of the address, or of a destination that is no link.
LEMMA SetHashIs ==
  ASSUME NEW h, NEW inProgress \in BOOLEAN
  PROVE  /\ SetHash(h, NoHash, inProgress) = h
         /\ \A n \in 1..LastPage :
              SetHash(h, <<"page", n>>, inProgress) = ScrollIntoPlace(h, <<n, n>>)
         /\ \A p \in Places : SetHash(h, <<"at", p>>, inProgress) = ScrollIntoPlace(h, p)
         /\ \A d \in Dests :
              /\ SetHash(h, <<"explicit", d>>, inProgress) = GoToDestination(h, d, FALSE, inProgress)
              /\ SetHash(h, <<"name", d>>, inProgress) = GoToDestination(h, d, TRUE, inProgress)
<1>1. SetHash(h, NoHash, inProgress) = h
  BY DEF SetHash, NoHash
<1>2. ASSUME NEW n \in 1..LastPage
      PROVE  SetHash(h, <<"page", n>>, inProgress) = ScrollIntoPlace(h, <<n, n>>)
  BY DEF SetHash, ScrollPageIntoView
<1>3. ASSUME NEW p \in Places
      PROVE  SetHash(h, <<"at", p>>, inProgress) = ScrollIntoPlace(h, p)
  BY DEF SetHash
<1>4. ASSUME NEW d \in Dests
      PROVE  SetHash(h, <<"explicit", d>>, inProgress) = GoToDestination(h, d, FALSE, inProgress)
  <2>1. ("explicit" = "name") = FALSE
    OBVIOUS
  <2> QED BY <2>1 DEF SetHash
<1>5. ASSUME NEW d \in Dests
      PROVE  SetHash(h, <<"name", d>>, inProgress) = GoToDestination(h, d, TRUE, inProgress)
  BY DEF SetHash
<1> QED BY <1>1, <1>2, <1>3, <1>4, <1>5

LEMMA SetHashCarries ==
  ASSUME NEW h, GoodHistory(h), NEW url \in Urls, NEW inProgress \in BOOLEAN
  PROVE  Carries(h, SetHash(h, url, inProgress)) /\ SameHistory(h, SetHash(h, url, inProgress))
<1>1. CASE url = NoHash
  <2>1. SetHash(h, url, inProgress) = h
    BY <1>1, SetHashIs
  <2> QED BY <2>1, CarriesOn DEF SameHistory
<1>2. CASE \E n \in 1..LastPage : url = <<"page", n>>
  <2>1. PICK n \in 1..LastPage : url = <<"page", n>>
    BY <1>2
  <2>2. SetHash(h, url, inProgress) = ScrollIntoPlace(h, <<n, n>>)
    BY <2>1, SetHashIs
  <2> QED BY <2>2, ScrollCarries, PagesArePlaces
<1> QED BY <1>1, <1>2 DEF Urls

\* A view that is set scrolls to a place, or goes to a destination.
LEMMA HashCases ==
  ASSUME NEW h, NEW hash \in Hashes \ {NoHash}
  PROVE  \/ \E place \in Places : SetHash(h, hash, FALSE) = ScrollIntoPlace(h, place)
         \/ \E d \in Dests, named \in BOOLEAN :
              SetHash(h, hash, FALSE) = GoToDestination(h, d, named, FALSE)
<1> DEFINE AllPages == {<<"page", n>> : n \in 1..LastPage}
           AllPlaces == {<<"at", place>> : place \in Places}
           AllLinks == {<<kind, d>> : kind \in {"name", "explicit"}, d \in Dests}
<1>1. CASE hash \in AllPages
  <2>1. PICK n \in 1..LastPage : hash = <<"page", n>>
    BY <1>1
  <2>2. SetHash(h, hash, FALSE) = ScrollIntoPlace(h, <<n, n>>)
    BY <2>1, SetHashIs
  <2>3. <<n, n>> \in Places
    BY PagesArePlaces
  <2> QED BY <2>2, <2>3, Zenon
<1>2. CASE hash \in AllPlaces
  <2>1. PICK place \in Places : hash = <<"at", place>>
    BY <1>2
  <2>2. SetHash(h, hash, FALSE) = ScrollIntoPlace(h, place)
    BY <2>1, SetHashIs
  <2> QED BY <2>2, Zenon
<1>3. CASE hash \in AllLinks
  <2>1. PICK kind \in {"name", "explicit"}, d \in Dests : hash = <<kind, d>>
    BY <1>3
  <2>2. CASE kind = "name"
    <3>1. SetHash(h, hash, FALSE) = GoToDestination(h, d, TRUE, FALSE)
      BY <2>1, <2>2, SetHashIs
    <3> QED BY <3>1, Zenon
  <2>3. CASE kind = "explicit"
    <3>1. SetHash(h, hash, FALSE) = GoToDestination(h, d, FALSE, FALSE)
      BY <2>1, <2>3, SetHashIs
    <3> QED BY <3>1, Zenon
  <2> QED BY <2>1, <2>2, <2>3
<1>4. hash \in AllPages \/ hash \in AllPlaces \/ hash \in AllLinks
  BY DEF Hashes
<1> HIDE DEF AllPages, AllPlaces, AllLinks
<1> QED BY <1>1, <1>2, <1>3, <1>4

LEMMA ViewCarries ==
  ASSUME NEW h, GoodHistory(h), h.initialized, NEW hash \in Hashes \ {NoHash}
  PROVE  Carries(h, SetHash(h, hash, FALSE))
BY HashCases, ScrollCarries, GoToDestinationCarries

\* The views that are to be set again are nothing that the invariant reads.
LEMMA AgainCarries ==
  ASSUME NEW h, GoodHistory(h), NEW hash \in Hashes, NEW n \in Nat
  PROVE  LET g == [h EXCEPT !.again[hash] = n]
         IN  Carries(h, g) /\ SameHistory(h, g) /\ g.position = h.position
<1> DEFINE again == [h.again EXCEPT ![hash] = n]
           g == [h EXCEPT !.again = again]
<1>1. h \in HistoryFields /\ h.again \in [Hashes -> Nat]
  BY HistoryTypes DEF GoodHistory
<1>2. again \in [Hashes -> Nat]
  BY <1>1
<1>3. g = [h EXCEPT !.again[hash] = n]
  BY <1>1
<1> HIDE DEF again
<1>4. g \in HistoryFields
  BY <1>1, <1>2 DEF HistoryFields
<1>5. /\ SameHistory(h, g) /\ g.position = h.position /\ g.asked = h.asked
      /\ g.hashEvents = h.hashEvents /\ g.resolving = h.resolving /\ g.timeout = h.timeout
  BY <1>1 DEF HistoryFields, SameHistory
<1> HIDE DEF g
<1>6. g.resolving # {} \/ g.timeout => g.initialized
  BY <1>5 DEF GoodHistory, Arranged, SameHistory
<1>7. Carries(h, g)
  BY <1>4, <1>5, <1>6, SameCarries
<1> QED BY <1>3, <1>5, <1>7

LEMMA SetFirstViewIs ==
  ASSUME NEW h, GoodHistory(h), NEW hash \in Hashes
  PROVE  \E g : /\ Carries(h, g) /\ SameHistory(h, g) /\ g.position = h.position
               /\ SetFirstView(h, hash) = SetHash(g, hash, FALSE)
<1>1. CASE hash = NoHash
  <2>1. SetFirstView(h, hash) = SetHash(h, hash, FALSE)
    BY <1>1, SetHashIs DEF SetFirstView
  <2>2. Carries(h, h) /\ SameHistory(h, h)
    BY CarriesOn DEF SameHistory
  <2> QED BY <2>1, <2>2
<1>2. CASE hash # NoHash
  <2> DEFINE n == h.again[hash] + 1
             g == [h EXCEPT !.again[hash] = n]
  <2>1. n \in Nat
    BY HistoryTypes DEF GoodHistory
  <2>2. SetFirstView(h, hash) = SetHash(g, hash, FALSE)
    BY <1>2 DEF SetFirstView
  <2> HIDE DEF n
  <2>3. Carries(h, g) /\ SameHistory(h, g) /\ g.position = h.position
    BY <2>1, AgainCarries
  <2> QED BY <2>2, <2>3
<1> QED BY <1>1, <1>2

\* The hash of a destination that is written in an entry.
LEMMA SetLastingHash ==
  ASSUME NEW h, NEW e \in Lasting, e.dest \notin Dests, NEW inProgress \in BOOLEAN
  PROVE  SetHash(h, e.hash, inProgress) = ScrollIntoPlace(h, Seen(e)) /\ Seen(e) \in Places
<1>1. \/ e.page \in 1..LastPage /\ e.hash = <<"page", e.page>> /\ e.first = 0
      \/ <<e.first, e.page>> \in Places /\ e.hash = <<"at", <<e.first, e.page>>>> /\ e.first # 0
  <2>1. e.page \in 1..LastPage
    BY LastingCases
  <2>2. \/ e.hash = <<"page", e.page>> /\ e.first = 0
        \/ <<e.first, e.page>> \in Places /\ e.hash = <<"at", <<e.first, e.page>>>>
    BY DEF Lasting
  <2>3. <<e.first, e.page>> \in Places => e.first # 0
    BY HistoryAssumption DEF Places
  <2> QED BY <2>1, <2>2, <2>3
<1>2. CASE e.page \in 1..LastPage /\ e.hash = <<"page", e.page>> /\ e.first = 0
  <2>1. Seen(e) = <<e.page, e.page>>
    BY <1>2 DEF Seen
  <2>2. SetHash(h, <<"page", e.page>>, inProgress) = ScrollIntoPlace(h, <<e.page, e.page>>)
    BY <1>2, SetHashIs
  <2> QED BY <1>2, <2>1, <2>2, PagesArePlaces
<1>3. CASE <<e.first, e.page>> \in Places /\ e.hash = <<"at", <<e.first, e.page>>>> /\ e.first # 0
  <2>1. Seen(e) = <<e.first, e.page>>
    BY <1>3 DEF Seen
  <2>2. SetHash(h, <<"at", <<e.first, e.page>>>>, inProgress)
          = ScrollIntoPlace(h, <<e.first, e.page>>)
    BY <1>3, SetHashIs
  <2> QED BY <1>3, <2>1, <2>2
<1> QED BY <1>1, <1>2, <1>3

----------------------------------------------------------------------------
(* What the reader does with a document                                    *)

LEMMA CarriesInOrder ==
  ASSUME NEW h, NEW k, NEW g, InOrder(h, k), Carries(h, g)
  PROVE  InOrder(g, 0)
<1>1. h.cur \in Nat /\ g.cur \in Nat
  BY GoodTypes DEF InOrder, Carries
<1> QED BY <1>1 DEF InOrder, Carries, Calm

LEMMA ScrollToKeeps ==
  ASSUME InOrder(hist, kept), NEW place \in Places, ScrollTo(place)
  PROVE  InOrder(hist', kept')
<1>1. hist \in HistoryFields /\ GoodHistory(hist) /\ hist.initialized
  BY DEF InOrder, GoodHistory, ScrollTo
<1> DEFINE g == [hist EXCEPT !.place = place, !.moved = TRUE]
<1>2. hist' = g /\ kept' = 0
  BY DEF ScrollTo
<1>3. /\ g \in HistoryFields /\ SameHistory(hist, g) /\ g.position = hist.position
      /\ g.asked = hist.asked /\ g.hashEvents = hist.hashEvents /\ g.initialized
  BY <1>1, ZenonT(60) DEF HistoryFields, SameHistory
<1> HIDE DEF g
<1>4. Carries(hist, g)
  BY <1>1, <1>3, SameCarries
<1> QED BY <1>2, <1>4, CarriesInOrder

LEMMA FollowLinkKeeps ==
  ASSUME InOrder(hist, kept), NEW d \in Dests, NEW named \in BOOLEAN, FollowLink(d, named)
  PROVE  InOrder(hist', kept')
<1>1. Carries(hist, GoToDestination(hist, d, named, FALSE))
  BY GoToDestinationCarries DEF InOrder, FollowLink
<1> QED BY <1>1, CarriesInOrder DEF FollowLink

LEMMA PushPageCarries ==
  ASSUME NEW h, GoodHistory(h), h.initialized, NEW n \in 1..LastPage
  PROVE  Carries(h, PushPage(h, n))
<1> DEFINE g == PushPage(h, n)
<1>1. g = h \/ \E d : \E r \in BOOLEAN : Leads(h, g, d, r)
  <2>1. (h.destination = NoDestination) \in BOOLEAN
    OBVIOUS
  <2> QED BY <2>1, PushPageKeeps
<1> HIDE DEF g
<1>2. Carries(h, g)
  BY <1>1, LeadsCarries, CarriesOn
<1> QED BY <1>2 DEF g

LEMMA GoToPageNumberKeeps ==
  ASSUME InOrder(hist, kept), NEW n \in 1..LastPage, GoToPageNumber(n)
  PROVE  InOrder(hist', kept')
<1> DEFINE g == PushCurrentPosition(hist, FALSE)
           f == PushPage(g, n)
<1>1. hist.initialized /\ GoodHistory(hist) /\ hist' = ScrollPageIntoView(f, n) /\ kept' = 0
  BY DEF InOrder, GoToPageNumber
<1>2. GoodHistory(g) /\ g.initialized /\ Carries(hist, g)
  <2>1. /\ GoodHistory(g) /\ g.initialized
        /\ g = hist \/ \E r \in BOOLEAN : Leads(hist, g, [hist.position EXCEPT !.temporary = FALSE], r)
    BY <1>1, PushCurrentPositionKeeps
  <2> HIDE DEF g
  <2> QED BY <1>1, <2>1, LeadsCarries, CarriesOn
<1>3. Carries(g, f)
  <2> HIDE DEF g
  <2> QED BY <1>2, PushPageCarries
<1> HIDE DEF f, g
<1>4. GoodHistory(f)
  BY <1>3 DEF Carries
<1>5. Carries(f, ScrollPageIntoView(f, n))
  BY <1>4, ScrollCarries, PagesArePlaces DEF ScrollPageIntoView
<1>6. Carries(hist, ScrollPageIntoView(f, n))
  BY <1>1, <1>2, <1>3, <1>5, CarriesOn
<1> QED BY <1>1, <1>6, CarriesInOrder

LEMMA PageHideCarries ==
  ASSUME NEW h, GoodHistory(h), h.initialized
  PROVE  Carries(h, PageHide(h))
<1> DEFINE g == TryPushCurrentPosition(h, FALSE)
<1>1. g = h \/ \E r \in BOOLEAN : Leads(h, g, [h.position EXCEPT !.temporary = FALSE], r)
  BY TryPushKeeps
<1>2. PageHide(h) \in {g, h}
  BY DEF PageHide
<1> HIDE DEF g
<1>3. Carries(h, g)
  BY <1>1, LeadsCarries, CarriesOn
<1> QED BY <1>2, <1>3, CarriesOn

LEMMA CloseInHistoryKeeps ==
  ASSUME InOrder(hist, kept), CloseInHistory
  PROVE  InOrder(hist', kept')
<1> DEFINE h == PageHide(hist)
           h1 == [h EXCEPT !.initialized = FALSE]
           h2 == [h1 EXCEPT !.timeout = FALSE]
           g == [h2 EXCEPT !.resolving = {}]
<1>1. Carries(hist, h) /\ GoodHistory(h)
  BY PageHideCarries DEF InOrder, CloseInHistory, Carries
<1>2. kept' = 0 /\ hist' = [h EXCEPT !.initialized = FALSE, !.timeout = FALSE, !.resolving = {}]
  BY DEF CloseInHistory, ResetHistory
<1> HIDE DEF h
<1>3. h \in HistoryFields
  BY <1>1 DEF GoodHistory
<1>4. h1 \in HistoryFields BY <1>3 DEF HistoryFields
<1>5. h2 \in HistoryFields BY <1>4 DEF HistoryFields
<1>6. g \in HistoryFields BY <1>5 DEF HistoryFields
<1>7. /\ ~g.initialized /\ ~g.timeout /\ g.resolving = {} /\ g.entries = h.entries /\ g.cur = h.cur
      /\ g.fingerprint = h.fingerprint /\ g.position = h.position /\ g.destination = h.destination
      /\ g.mixed = h.mixed /\ g.asked = h.asked /\ g.hashEvents = h.hashEvents
  BY <1>3 DEF HistoryFields
<1>8. hist' = g
  BY <1>2, <1>3 DEF HistoryFields
<1> HIDE DEF g
<1>9. Arranged(g) /\ Agrees(g)
  BY <1>1, <1>7 DEF GoodHistory, Arranged, Agrees
<1>10. ~g.mixed => OneWindow(g)
  BY <1>1, <1>7 DEF GoodHistory, OneWindow
<1>11. GoodHistory(g)
  BY <1>6, <1>9, <1>10 DEF GoodHistory
<1>12. InOrder(h, 0)
  BY <1>1, CarriesInOrder
<1> QED BY <1>2, <1>7, <1>8, <1>11, <1>12 DEF InOrder, Calm

LEMMA NewWindowTypes ==
  ASSUME NEW entries \in Seq(Entries), NEW cur \in 1..Len(entries), NEW reloaded \in BOOLEAN
  PROVE  NewWindow(entries, cur, reloaded) \in HistoryFields
<1>1. NoDestination \in Destinations /\ NoHash \in Hashes /\ <<1, 1>> \in Places /\ 1 \in 1..LastPage
  BY HistoryAssumption DEF NoDestination, Destinations, Hashes, NoHash, Places
<1>2. cur \in Nat \ {0} /\ KnownRefs \in SUBSET Dests
  BY LenProperties, HistoryAssumption
<1> QED BY <1>1, <1>2 DEF NewWindow, HistoryFields

\* A window that has just loaded the page, with the entries of the one before.
LEMMA NewWindowIsGood ==
  ASSUME NEW entries \in Seq(Entries), NEW cur \in 1..Len(entries), NEW reloaded \in BOOLEAN,
         NEW mixed \in BOOLEAN,
         \A i \in 1..Len(entries) :
           /\ Written(entries[i])
           /\ Len(entries) # 1 => entries[i].fingerprint # NotLoaded,
         ~mixed =>
           /\ entries[1].uid = 0
           /\ \A i, j \in 1..Len(entries) :
                /\ entries[i].fingerprint # NotLoaded /\ entries[j].fingerprint # NotLoaded =>
                     entries[i].fingerprint = entries[j].fingerprint
                /\ i < j => entries[i].uid < entries[j].uid
           /\ \A i \in 1..Len(entries) :
                Len(entries) # 1 => entries[i].destination # NoDestination
  PROVE  InOrder([NewWindow(entries, cur, reloaded) EXCEPT !.mixed = mixed], 0)
<1> DEFINE w == NewWindow(entries, cur, reloaded)
           g == [w EXCEPT !.mixed = mixed]
<1>3. w \in HistoryFields
  BY NewWindowTypes
<1>4. /\ w.entries = entries /\ w.cur = cur /\ ~w.initialized /\ w.fingerprint = NotLoaded
      /\ w.position = NoDestination /\ w.destination = NoDestination /\ ~w.timeout
      /\ w.resolving = {} /\ w.asked = 0 /\ w.hashEvents = 0
  BY DEF NewWindow
<1> HIDE DEF w
<1>5. g \in HistoryFields
  BY <1>3 DEF HistoryFields
<1>6. /\ g.entries = entries /\ g.cur = cur /\ ~g.initialized /\ g.fingerprint = NotLoaded
      /\ g.position = NoDestination /\ g.destination = NoDestination /\ ~g.timeout
      /\ g.resolving = {} /\ g.asked = 0 /\ g.hashEvents = 0 /\ g.mixed = mixed
  BY <1>3, <1>4 DEF HistoryFields
<1> HIDE DEF g
<1>7. Arranged(g) /\ Agrees(g)
  BY <1>6 DEF Arranged, Agrees
<1>8. ~g.mixed => OneWindow(g)
  BY <1>6 DEF OneWindow
<1>9. InOrder(g, 0)
  BY <1>5, <1>6, <1>7, <1>8 DEF InOrder, GoodHistory, Calm
<1> QED BY <1>9 DEF g, w

LEMMA ReloadKeeps ==
  ASSUME InOrder(hist, kept), Reload
  PROVE  InOrder(hist', kept')
<1> DEFINE h == PageHide(hist)
<1>1. Carries(hist, h) /\ GoodHistory(h)
  BY PageHideCarries DEF InOrder, Reload, Carries
<1>2. kept' = 0 /\ hist' = [NewWindow(h.entries, h.cur, TRUE) EXCEPT !.mixed = h.mixed]
  BY DEF Reload
<1> HIDE DEF h
<1>3. h.entries \in Seq(Entries) /\ h.cur \in 1..Len(h.entries) /\ h.mixed \in BOOLEAN
  BY <1>1, GoodTypes, HistoryTypes
<1>4. \A i \in 1..Len(h.entries) :
           /\ Written(h.entries[i])
           /\ Len(h.entries) # 1 => h.entries[i].fingerprint # NotLoaded
  BY <1>1 DEF GoodHistory, Arranged
<1>5. ~h.mixed =>
           /\ h.entries[1].uid = 0
           /\ \A i, j \in 1..Len(h.entries) :
                /\ h.entries[i].fingerprint # NotLoaded /\ h.entries[j].fingerprint # NotLoaded =>
                     h.entries[i].fingerprint = h.entries[j].fingerprint
                /\ i < j => h.entries[i].uid < h.entries[j].uid
           /\ \A i \in 1..Len(h.entries) :
                Len(h.entries) # 1 => h.entries[i].destination # NoDestination
  BY <1>1 DEF GoodHistory, OneWindow
<1> QED BY <1>2, <1>3, <1>4, <1>5, NewWindowIsGood

LEMMA HistoryInitIsGood ==
  ASSUME HistoryInit
  PROVE  InOrder(hist, kept)
<1>1. PICK url \in {NoHash, <<"page", LastPage>>} :
           hist = NewWindow(<<StatelessEntry(url)>>, 1, FALSE)
  BY DEF HistoryInit
<1> DEFINE e == StatelessEntry(url)
           s == <<e>>
           w == NewWindow(s, 1, FALSE)
<1>2. url \in Urls /\ url \in Hashes
  BY HistoryAssumption DEF Urls, Hashes, NoHash
<1>3. e \in Entries /\ Written(e) /\ e.uid = 0
  <2>1. NoDestination \in Destinations
    BY HistoryAssumption DEF NoDestination, Destinations, Hashes, NoHash
  <2> QED BY <1>2, <2>1 DEF StatelessEntry, Entries, Written
<1> HIDE DEF e
<1>4. s \in Seq(Entries) /\ Len(s) = 1 /\ s[1] = e
  BY <1>3
<1>5. /\ 1 \in 1..Len(s) /\ \A i \in 1..Len(s) : i = 1
  BY <1>4
<1> HIDE DEF s
<1>6. InOrder([w EXCEPT !.mixed = FALSE], 0)
  <2>1. /\ \A i \in 1..Len(s) : /\ Written(s[i])
                                /\ Len(s) # 1 => s[i].fingerprint # NotLoaded
        /\ s[1].uid = 0
        /\ \A i, j \in 1..Len(s) :
                /\ s[i].fingerprint # NotLoaded /\ s[j].fingerprint # NotLoaded =>
                     s[i].fingerprint = s[j].fingerprint
                /\ i < j => s[i].uid < s[j].uid
        /\ \A i \in 1..Len(s) : Len(s) # 1 => s[i].destination # NoDestination
    BY <1>3, <1>4, <1>5
  <2> QED BY <1>4, <1>5, <2>1, NewWindowIsGood
<1>7. [w EXCEPT !.mixed = FALSE] = w
  <2>1. w \in HistoryFields /\ w.mixed = FALSE
    BY <1>4, <1>5, NewWindowTypes DEF NewWindow
  <2> HIDE DEF w
  <2> QED BY <2>1 DEF HistoryFields
<1>8. hist = w /\ kept = 0
  BY <1>1 DEF HistoryInit, s, e
<1> QED BY <1>6, <1>7, <1>8

----------------------------------------------------------------------------
(* Opening a document                                                      *)

\* The history that initialize finds, with the fields that it sets.
Fresh0(h0, f) ==
  [h0 EXCEPT !.initialized = TRUE, !.fingerprint = f, !.blocks = 0,
             !.mixed = @ \/ \E i \in 1..Len(h0.entries) :
                        h0.entries[i].fingerprint \notin {NotLoaded, f},
             !.currentHash = Here(h0).url, !.updates = 0, !.uid = 0, !.maxUid = 0, !.moved = TRUE,
             !.place = <<1, 1>>, !.destination = NoDestination, !.position = NoDestination]

LEMMA Fresh0Is ==
  ASSUME NEW h0, GoodHistory(h0), NEW f \in Fingerprints
  PROVE  LET h == Fresh0(h0, f)
         IN  /\ h \in HistoryFields /\ h.initialized /\ h.fingerprint = f /\ h.uid = 0
             /\ h.mixed = (h0.mixed \/ \E i \in 1..Len(h0.entries) :
                                         h0.entries[i].fingerprint \notin {NotLoaded, f})
             /\ h.currentHash = Here(h0).url /\ h.destination = NoDestination
             /\ h.position = NoDestination /\ h.entries = h0.entries /\ h.cur = h0.cur
             /\ h.asked = h0.asked /\ h.hashEvents = h0.hashEvents /\ h.reloaded = h0.reloaded
             /\ h.timeout = h0.timeout /\ h.resolving = h0.resolving
<1> DEFINE m == h0.mixed \/ \E i \in 1..Len(h0.entries) :
                              h0.entries[i].fingerprint \notin {NotLoaded, f}
           u == Here(h0).url
           a == [h0 EXCEPT !.initialized = TRUE]
           b == [a EXCEPT !.fingerprint = f]
           c == [b EXCEPT !.blocks = 0]
           d == [c EXCEPT !.mixed = m]
           e == [d EXCEPT !.currentHash = u]
           a1 == [e EXCEPT !.updates = 0]
           b1 == [a1 EXCEPT !.uid = 0]
           c1 == [b1 EXCEPT !.maxUid = 0]
           d1 == [c1 EXCEPT !.moved = TRUE]
           p1 == [d1 EXCEPT !.place = <<1, 1>>]
           e1 == [p1 EXCEPT !.destination = NoDestination]
           h == [e1 EXCEPT !.position = NoDestination]
<1>1. /\ m \in BOOLEAN /\ u \in Hashes /\ NoDestination \in Destinations /\ h0 \in HistoryFields
      /\ <<1, 1>> \in Places
  <2>1. u \in Hashes /\ h0 \in HistoryFields
    BY GoodTypes, HistoryTypes DEF Here
  <2>2. NoDestination \in Destinations
    BY HistoryAssumption DEF NoDestination, Destinations, Hashes, NoHash
  <2>3. <<1, 1>> \in Places
    BY PagesArePlaces, HistoryAssumption
  <2> QED BY <2>1, <2>2, <2>3
<1>2. Fresh0(h0, f) = [h0 EXCEPT !.initialized = TRUE, !.fingerprint = f, !.blocks = 0,
             !.mixed = m, !.currentHash = u, !.updates = 0, !.uid = 0, !.maxUid = 0, !.moved = TRUE,
             !.place = <<1, 1>>, !.destination = NoDestination, !.position = NoDestination]
  BY DEF Fresh0
<1> HIDE DEF m, u
<1>3. Fresh0(h0, f) = h
  BY <1>1, <1>2 DEF HistoryFields
<1>4. /\ h.initialized /\ h.fingerprint = f /\ h.uid = 0 /\ h.mixed = m
      /\ h.currentHash = u /\ h.destination = NoDestination
      /\ h.position = NoDestination /\ h.entries = h0.entries /\ h.cur = h0.cur
      /\ h.asked = h0.asked /\ h.hashEvents = h0.hashEvents /\ h.reloaded = h0.reloaded
      /\ h.timeout = h0.timeout /\ h.resolving = h0.resolving
  BY <1>1 DEF HistoryFields
<1> HIDE DEF b, c, d, e, a1, b1, c1, d1, p1, e1, h
<1>5. a \in HistoryFields BY <1>1 DEF HistoryFields
<1> HIDE DEF a
<1>6. b \in HistoryFields BY <1>5, ZenonT(60) DEF HistoryFields, b
<1>7. c \in HistoryFields BY <1>6, SMTT(60) DEF HistoryFields, c
<1>8. d \in HistoryFields BY <1>1, <1>7 DEF HistoryFields, d
<1>9. e \in HistoryFields BY <1>1, <1>8 DEF HistoryFields, e
<1>10. a1 \in HistoryFields BY <1>9 DEF HistoryFields, a1
<1>11. b1 \in HistoryFields BY <1>10 DEF HistoryFields, b1
<1>12. c1 \in HistoryFields BY <1>11 DEF HistoryFields, c1
<1>13. d1 \in HistoryFields BY <1>12 DEF HistoryFields, d1
<1>14. p1 \in HistoryFields BY <1>1, <1>13 DEF HistoryFields, p1
<1>15. e1 \in HistoryFields BY <1>1, <1>14 DEF HistoryFields, e1
<1>16. h \in HistoryFields BY <1>1, <1>15 DEF HistoryFields, h
<1> QED BY <1>3, <1>4, <1>16 DEF m, u

\* The marks that are removed leave a destination what it is.
LEMMA LikensLasting ==
  ASSUME NEW e \in Lasting, NEW d, Likens(d, e)
  PROVE  d # NoDestination
<1>1. e.page # 0
  BY LastingCases
<1>2. e.dest > 0 => d.dest # 0
  BY DEF Likens
<1>3. d.page # 0 \/ d.dest # 0
  BY <1>1, <1>2 DEF Likens
<1> QED BY <1>3 DEF NoDestination

LEMMA UnmarkedDestination ==
  ASSUME NEW e \in Lasting
  PROVE  /\ [e EXCEPT !.temporary = FALSE] \in Lasting
         /\ LET d == [e EXCEPT !.temporary = FALSE, !.page = IF e.dest > 0 THEN 0 ELSE @]
            IN  /\ d \in Destinations /\ Likens(d, e) /\ d.dest = e.dest /\ d.hash = e.hash
                /\ d.first = e.first
<1> DEFINE q == IF e.dest > 0 THEN 0 ELSE e.page
           c == [e EXCEPT !.temporary = FALSE]
           d == [e EXCEPT !.temporary = FALSE, !.page = IF e.dest > 0 THEN 0 ELSE @]
<1>1. e \in Destinations
  BY DEF Lasting
<1>2. /\ c \in Destinations /\ ~c.temporary /\ c.dest = e.dest /\ c.hash = e.hash /\ c.page = e.page
      /\ c.first = e.first
  BY <1>1 DEF Destinations
<1>3. c \in Lasting
  <2> HIDE DEF c
  <2> QED BY <1>2 DEF Lasting
<1>4. q \in 0..LastPage
  BY <1>1, HistoryAssumption DEF Destinations
<1>5. d = [c EXCEPT !.page = q]
  BY <1>1 DEF Destinations
<1> HIDE DEF d, c, q
<1>6. /\ d \in Destinations /\ d.dest = e.dest /\ d.hash = e.hash /\ d.first = e.first
      /\ d.page = q
  BY <1>2, <1>4, <1>5 DEF Destinations
<1>7. Likens(d, e)
  BY <1>6 DEF Likens, q
<1> QED BY <1>3, <1>6, <1>7 DEF d, c

LEMMA FromHashLasts ==
  ASSUME NEW n \in 1..LastPage
  PROVE  FromHash(<<"page", n>>) \in Lasting /\ FromHash(<<"page", n>>) # NoDestination
<1>1. FromHash(<<"page", n>>) =
        [dest |-> -1, hash |-> <<"page", n>>, page |-> n, first |-> 0, temporary |-> FALSE]
  BY DEF FromHash, PageOf
<1>2. FromHash(<<"page", n>>) \in Lasting
  BY <1>1, LinksLast
<1> QED BY <1>2, LastingCases

\* The destination of an entry that initialize has made its own stays where it is.
LEMMA GoToDestinationStays ==
  ASSUME NEW h, GoodHistory(h), h.initialized, h.position = NoDestination,
         h.destination # NoDestination, NEW d \in Dests, h.destination.dest = d
  PROVE  GoToDestination(h, d, FALSE, FALSE).cur = h.cur
<1> DEFINE g == [h EXCEPT !.resolving = @ \cup {<<d, FALSE>>}]
           l == <<"explicit", d>>
           f == Push(h, l, d, FALSE)
           e == ScrollIntoPlace(f, <<DestPage[d], DestPage[d]>>)
<1>1. g.cur = h.cur
  BY DEF GoodHistory, HistoryFields
<1>2. Arrive(h, d, FALSE, FALSE) = e
  <2>1. TryPushCurrentPosition(h, FALSE) = h
    BY DEF TryPushCurrentPosition
  <2>2. PushCurrentPosition(h, FALSE) = h
    BY <2>1 DEF PushCurrentPosition
  <2> QED BY <2>2 DEF Arrive, ScrollPageIntoView
<1>3. f.cur = h.cur /\ GoodHistory(f)
  <2>1. f = h \/ Leads(h, f, LinkTo(d, FALSE), \/ IsSame(h.destination, LinkTo(d, FALSE).hash, d)
                                               \/ h.destination = NoDestination)
    BY PushKeeps
  <2>2. IsSame(h.destination, LinkTo(d, FALSE).hash, d)
    BY DEF IsSame
  <2> HIDE DEF f
  <2> QED BY <2>1, <2>2 DEF Leads, Wrote
<1> HIDE DEF f
<1>4. e.cur = f.cur
  <2>1. <<DestPage[d], DestPage[d]>> \in Places
    BY PagesArePlaces, HistoryAssumption
  <2> QED BY <1>3, <2>1, ScrollCarries DEF SameHistory
<1> HIDE DEF e
<1>5. GoToDestination(h, d, FALSE, FALSE) \in {g, e}
  BY <1>2 DEF GoToDestination
<1> QED BY <1>1, <1>3, <1>4, <1>5

LEMMA InitializeKeeps ==
  ASSUME NEW h0, NEW k, InOrder(h0, k), ~h0.initialized, NEW f \in Fingerprints,
         NEW stored \in {NoHash} \cup {<<"at", place>> : place \in Places}
  PROVE  InOrder(Initialize(h0, f, stored), 0) /\ Initialize(h0, f, stored).cur = h0.cur
<1> DEFINE h == Fresh0(h0, f)
           state == Here(h0)
           destination == [state.destination EXCEPT !.temporary = FALSE,
                             !.page = IF state.destination.dest > 0 THEN 0 ELSE @]
           bookmark == IF destination.dest > 0 THEN <<"explicit", destination.dest>>
                       ELSE destination.hash
           fresh == h0.fingerprint = NotLoaded
           start == IF state.url = NoHash \/ (~fresh /\ h0.fingerprint # f) THEN NoDestination
                    ELSE FromHash(state.url)
           found == UpdateInternalState(h, destination, state.uid)
           made == PushOrReplaceState(h, start, TRUE)
           first == IF fresh /\ state.url # NoHash THEN state.url ELSE stored
<1>1. Initialize(h0, f, stored) = IF IsValidState(h, state, TRUE) THEN SetFirstView(found, bookmark)
                                  ELSE SetFirstView(made, first)
  BY DEF Initialize, Fresh0
<1>2. GoodHistory(h0) /\ h0 \in HistoryFields /\ h0.cur \in 1..Len(h0.entries) /\ h0.cur \in Nat
  BY GoodTypes DEF InOrder
<1>3. /\ state = h0.entries[h0.cur] /\ Written(state) /\ state.uid \in Nat /\ state.url \in Urls
      /\ state.destination \in Lasting \cup {NoDestination}
  BY <1>2, HistoryTypes DEF Here, GoodHistory, Arranged, Written
<1> HIDE DEF state
<1>4. /\ h \in HistoryFields /\ h.initialized /\ h.fingerprint = f /\ h.uid = 0
      /\ h.mixed = (h0.mixed \/ \E i \in 1..Len(h0.entries) :
                                  h0.entries[i].fingerprint \notin {NotLoaded, f})
      /\ h.currentHash = state.url /\ h.destination = NoDestination
      /\ h.position = NoDestination /\ h.entries = h0.entries /\ h.cur = h0.cur
      /\ h.asked = h0.asked /\ h.hashEvents = h0.hashEvents /\ h.reloaded = h0.reloaded
  BY <1>2, Fresh0Is DEF state
<1> HIDE DEF h
<1>5. f # NotLoaded
  BY HistoryAssumption
<1>6. ~h.mixed => OneWindow(h0) /\ \A i \in 1..Len(h0.entries) :
                                       h0.entries[i].fingerprint \in {NotLoaded, f}
  BY <1>2, <1>4 DEF GoodHistory
<1>7. \A i \in 1..Len(h0.entries) :
        /\ Written(h0.entries[i])
        /\ Len(h0.entries) # 1 => h0.entries[i].fingerprint # NotLoaded
  BY <1>2 DEF GoodHistory, Arranged
<1>8. ASSUME NEW g, GoodHistory(g), Carries(g, Initialize(h0, f, stored)), g.mixed = h.mixed,
             g.asked = h.asked, g.hashEvents = h.hashEvents, g.cur = h.cur,
             Initialize(h0, f, stored).cur = g.cur
      PROVE  InOrder(Initialize(h0, f, stored), 0) /\ Initialize(h0, f, stored).cur = h0.cur
  <2>1. ~g.mixed => ~h0.mixed
    BY <1>4, <1>8
  <2>2. InOrder(g, 0)
    BY <1>4, <1>8, <2>1 DEF InOrder, Calm
  <2> QED BY <1>4, <1>8, <2>2, CarriesInOrder
<1>9. CASE IsValidState(h, state, TRUE)
  <2>1. state.fingerprint # NotLoaded /\ state.destination # NoDestination /\ state.destination \in Lasting
    BY <1>3, <1>9 DEF IsValidState
  <2>2. /\ destination \in Destinations /\ Likens(destination, state.destination)
        /\ destination.dest = state.destination.dest /\ destination.hash = state.destination.hash
        /\ destination # NoDestination
    BY <2>1, UnmarkedDestination, LikensLasting
  <2> HIDE DEF destination
  <2>3. /\ found \in HistoryFields /\ StaysPut(h, found) /\ ~found.timeout
        /\ found.destination = destination /\ found.uid = state.uid
        /\ found.entries = h.entries /\ found.cur = h.cur
    <3>1. /\ found \in HistoryFields /\ ~found.timeout /\ found.destination = destination
          /\ found.uid = state.uid /\ found.entries = h.entries /\ found.cur = h.cur
      BY <1>3, <1>4, <2>2, UpdateInternalStateIs
    <3>2. StaysPut(h, found)
      <4>1. found.initialized = h.initialized /\ found.fingerprint = h.fingerprint
        <5>1. h \in HistoryFields /\ state.uid \in Nat /\ destination \in Destinations
          BY <1>3, <1>4, <2>2
        <5> QED BY <5>1, UpdateInternalStateIs, Zenon
      <4>4. found.position = h.position /\ found.blocks = h.blocks /\ found.waits = h.waits
        BY <1>3, <1>4, <2>2, UpdateInternalStateIs
      <4>2. /\ found.currentHash = h.currentHash /\ found.hashEvents = h.hashEvents
            /\ found.asked = h.asked /\ found.place = h.place /\ found.moved = h.moved
        BY <1>3, <1>4, <2>2, UpdateInternalStateIs
      <4>3. /\ found.known = h.known /\ found.resolving = h.resolving
            /\ found.reloaded = h.reloaded /\ found.mixed = h.mixed
        BY <1>3, <1>4, <2>2, UpdateInternalStateIs
      <4> HIDE DEF found
      <4> QED BY <4>1, <4>2, <4>3, <4>4 DEF StaysPut
    <3> QED BY <3>1, <3>2
  <2> HIDE DEF found
  <2>4. /\ found.initialized /\ found.fingerprint = f /\ found.currentHash = state.url
        /\ found.position = NoDestination /\ found.mixed = h.mixed /\ Here(found) = state
        /\ found.asked = h.asked /\ found.hashEvents = h.hashEvents
        /\ found.entries = h0.entries /\ found.cur = h0.cur
    BY <1>3, <1>4, <2>3 DEF StaysPut, Here
  <2>5. Arranged(found)
    <3>1. ASSUME NEW i \in 1..Len(h0.entries) PROVE h0.entries[i].fingerprint # NotLoaded
      <4>1. CASE Len(h0.entries) = 1
        <5>1. i = h0.cur
          BY <1>2, <4>1
        <5> QED BY <1>3, <2>1, <5>1
      <4> QED BY <1>7, <4>1
    <3> QED BY <1>2, <1>5, <1>7, <2>3, <2>4, <3>1 DEF Arranged
  <2>6. Agrees(found)
    BY <2>1, <2>2, <2>3, <2>4 DEF Agrees
  <2>7. ASSUME ~found.mixed PROVE OneWindow(found)
    <3>1. OneWindow(h0) /\ \A i \in 1..Len(h0.entries) :
                                       h0.entries[i].fingerprint \in {NotLoaded, f}
      BY <1>6, <2>4, <2>7
    <3>2. state.fingerprint = f
      BY <1>2, <1>3, <2>1, <3>1
    <3> QED BY <2>1, <2>2, <2>3, <2>4, <3>1, <3>2 DEF OneWindow
  <2>8. GoodHistory(found)
    BY <2>3, <2>5, <2>6, <2>7 DEF GoodHistory
  <2>9. ASSUME NEW g, GoodHistory(g), SameHistory(found, g), g.position = found.position
        PROVE  Carries(g, SetHash(g, bookmark, FALSE)) /\ SetHash(g, bookmark, FALSE).cur = g.cur
    <3>0. /\ g.initialized /\ g.position = NoDestination /\ g.destination = destination
          /\ g.destination # NoDestination
      BY <2>2, <2>3, <2>4, <2>9 DEF SameHistory
    <3>1. CASE destination.dest > 0
      <4>1. destination.dest \in Dests
        BY <2>1, <2>2, <3>1 DEF Lasting
      <4>2. SetHash(g, bookmark, FALSE) = GoToDestination(g, destination.dest, FALSE, FALSE)
        BY <3>1, <4>1, SetHashIs
      <4>3. GoToDestination(g, destination.dest, FALSE, FALSE).cur = g.cur
        BY <2>9, <3>0, <4>1, GoToDestinationStays
      <4>4. Carries(g, GoToDestination(g, destination.dest, FALSE, FALSE))
        BY <2>9, <3>0, <4>1, GoToDestinationCarries
      <4> QED BY <4>2, <4>3, <4>4
    <3>2. CASE ~(destination.dest > 0)
      <4>1. state.destination.dest \notin Dests
        BY <2>1, <2>2, <3>2, LastingCases
      <4>2. bookmark = state.destination.hash
        BY <2>2, <3>2
      <4> HIDE DEF bookmark
      <4>3. /\ SetHash(g, state.destination.hash, FALSE)
                 = ScrollIntoPlace(g, Seen(state.destination))
            /\ Seen(state.destination) \in Places
        BY <2>1, <4>1, SetLastingHash
      <4>4. SetHash(g, bookmark, FALSE) = ScrollIntoPlace(g, Seen(state.destination))
        BY <4>2, <4>3
      <4>5. /\ Carries(g, ScrollIntoPlace(g, Seen(state.destination)))
            /\ SameHistory(g, ScrollIntoPlace(g, Seen(state.destination)))
        BY <2>9, <4>3, ScrollCarries
      <4> QED BY <4>4, <4>5 DEF SameHistory
    <3> QED BY <3>1, <3>2
  <2>10. bookmark \in Hashes
    <3>1. destination.dest > 0 => destination.dest \in Dests
      BY <2>1, <2>2 DEF Lasting
    <3>2. destination.hash \in Hashes
      BY <2>2 DEF Destinations
    <3> QED BY <3>1, <3>2 DEF Hashes
  <2>11. Initialize(h0, f, stored) = SetFirstView(found, bookmark)
    BY <1>1, <1>9
  <2> HIDE DEF bookmark
  <2>12. PICK g : /\ Carries(found, g) /\ SameHistory(found, g) /\ g.position = found.position
                  /\ SetFirstView(found, bookmark) = SetHash(g, bookmark, FALSE)
    BY <2>8, <2>10, SetFirstViewIs
  <2>13. GoodHistory(g)
    BY <2>12 DEF Carries
  <2>14. Carries(g, Initialize(h0, f, stored)) /\ Initialize(h0, f, stored).cur = g.cur
    BY <2>9, <2>11, <2>12, <2>13
  <2>15. g.mixed = h.mixed /\ g.asked = h.asked /\ g.hashEvents = h.hashEvents /\ g.cur = h.cur
    BY <1>4, <2>4, <2>12 DEF Carries, SameHistory
  <2> QED BY <1>8, <2>13, <2>14, <2>15
<1>10. CASE ~IsValidState(h, state, TRUE)
  <2>1. start \in Lasting \cup {NoDestination} /\ start \in Destinations
    <3>1. NoDestination \in Destinations
      BY HistoryAssumption DEF NoDestination, Destinations, Hashes, NoHash
    <3>2. start = NoDestination \/ start \in Lasting
      BY <1>3, FromHashLasts DEF Urls
    <3> HIDE DEF start
    <3> QED BY <3>1, <3>2, LastingCases
  <2> HIDE DEF start
  <2>2. /\ made \in HistoryFields /\ StaysPut(h, made) /\ Wrote(h, made, TRUE) /\ ~made.timeout
        /\ made.destination = start /\ Here(made).url = Here(h).url
    <3>1. h.cur \in 1..Len(h.entries)
      BY <1>2, <1>4
    <3>2. (TRUE \/ h.destination = NoDestination) = TRUE
      OBVIOUS
    <3> QED BY <1>4, <2>1, <3>1, <3>2, PushOrReplaceStateIs
  <2> HIDE DEF made
  <2>3. Here(h).url = state.url
    BY <1>3, <1>4 DEF Here
  <2>4. /\ made.initialized /\ made.fingerprint = f /\ made.currentHash = state.url
        /\ made.position = NoDestination /\ made.mixed = h.mixed /\ Here(made).url = state.url
        /\ made.asked = h.asked /\ made.hashEvents = h.hashEvents
        /\ made.uid = 0 /\ made.cur = h0.cur /\ Len(made.entries) = Len(h0.entries)
        /\ Here(made).fingerprint = f /\ Here(made).uid = 0 /\ Here(made).destination = start
        /\ \A i \in 1..Len(h0.entries) : i # h0.cur => made.entries[i] = h0.entries[i]
    BY <1>4, <2>2, <2>3 DEF StaysPut, Wrote
  <2>5. Arranged(made)
    <3>1. ASSUME NEW i \in 1..Len(h0.entries)
          PROVE  Written(made.entries[i]) /\ made.entries[i].fingerprint # NotLoaded
      <4>1. CASE i = h0.cur
        <5>1. made.entries[i] = Here(made)
          BY <2>4, <4>1 DEF Here
        <5>2. /\ made.entries[i].destination = start /\ made.entries[i].url = state.url
              /\ made.entries[i].fingerprint = f
          BY <2>4, <5>1
        <5> QED BY <1>3, <1>5, <2>1, <5>2 DEF Written
      <4>2. CASE i # h0.cur
        <5>1. Len(h0.entries) = 1 => i = h0.cur
          BY <1>2
        <5> QED BY <1>7, <2>4, <4>2, <5>1
      <4> QED BY <4>1, <4>2
    <3> QED BY <1>2, <1>5, <2>2, <2>4, <3>1 DEF Arranged
  <2>6. Agrees(made)
    BY <1>5, <2>1, <2>2, <2>4, LikensItself, LastingCases DEF Agrees, IsValidState
  <2>7. ASSUME ~made.mixed PROVE OneWindow(made)
    <3>1. OneWindow(h0) /\ \A i \in 1..Len(h0.entries) :
                                       h0.entries[i].fingerprint \in {NotLoaded, f}
      BY <1>6, <2>4, <2>7
    <3>2. Len(h0.entries) = 1
      <4>1. CASE Len(h0.entries) # 1
        <5>1. state.fingerprint = f /\ state.destination # NoDestination
          BY <1>2, <1>3, <1>7, <3>1, <4>1 DEF OneWindow
        <5> QED BY <1>4, <1>5, <1>10, <5>1 DEF IsValidState
      <4> QED BY <4>1
    <3>3. h0.cur = 1 /\ made.entries[1] = Here(made)
      BY <1>2, <2>4, <3>2 DEF Here
    <3>4. \A i \in 1..Len(made.entries) : i = 1
      BY <2>4, <3>2
    <3>5. 1 \in 1..Len(made.entries) /\ ~(1 < 1) /\ Len(made.entries) = 1
      BY <2>4, <3>2
    <3> QED BY <2>2, <2>4, <3>3, <3>4, <3>5 DEF OneWindow
  <2>8. GoodHistory(made)
    BY <2>2, <2>5, <2>6, <2>7 DEF GoodHistory
  <2>9. first \in Hashes /\ (first \in Urls \/ \E place \in Places : first = <<"at", place>>)
    <3>1. first \in Urls \/ \E place \in Places : first = <<"at", place>>
      BY <1>3 DEF Urls
    <3> HIDE DEF first
    <3> QED BY <3>1 DEF Urls, Hashes
  <2>10. ASSUME NEW g, GoodHistory(g)
         PROVE  Carries(g, SetHash(g, first, FALSE)) /\ SetHash(g, first, FALSE).cur = g.cur
    <3> HIDE DEF first
    <3>1. CASE first \in Urls
      BY <2>10, <3>1, SetHashCarries DEF SameHistory
    <3>2. CASE \E place \in Places : first = <<"at", place>>
      <4>1. PICK place \in Places : first = <<"at", place>>
        BY <3>2
      <4>2. SetHash(g, first, FALSE) = ScrollIntoPlace(g, place)
        BY <4>1, SetHashIs
      <4>3. Carries(g, ScrollIntoPlace(g, place)) /\ SameHistory(g, ScrollIntoPlace(g, place))
        BY <2>10, ScrollCarries
      <4> QED BY <4>2, <4>3 DEF SameHistory
    <3> QED BY <2>9, <3>1, <3>2
  <2>11. Initialize(h0, f, stored) = SetFirstView(made, first)
    BY <1>1, <1>10
  <2> HIDE DEF first
  <2>12. PICK g : /\ Carries(made, g) /\ SameHistory(made, g) /\ g.position = made.position
                  /\ SetFirstView(made, first) = SetHash(g, first, FALSE)
    BY <2>8, <2>9, SetFirstViewIs
  <2>13. GoodHistory(g)
    BY <2>12 DEF Carries
  <2>14. Carries(g, Initialize(h0, f, stored)) /\ Initialize(h0, f, stored).cur = g.cur
    BY <2>10, <2>11, <2>12, <2>13
  <2>15. g.mixed = h.mixed /\ g.asked = h.asked /\ g.hashEvents = h.hashEvents /\ g.cur = h.cur
    BY <1>4, <2>4, <2>12 DEF Carries, SameHistory
  <2> QED BY <1>8, <2>13, <2>14, <2>15
<1> QED BY <1>9, <1>10

\* The views that another visit may have left.
Stored(f) == {NoHash} \cup {<<"at", place>> : place \in StoredPlaces[f]}

LEMMA LoadInHistoryKeeps ==
  ASSUME InOrder(hist, kept), NEW f \in Fingerprints, NEW stored \in Stored(f),
         LoadInHistory(f, stored)
  PROVE  InOrder(hist', kept') /\ hist'.cur = hist.cur
<1>1. stored \in {NoHash} \cup {<<"at", place>> : place \in Places}
  BY HistoryAssumption DEF Stored
<1> QED BY <1>1, InitializeKeeps DEF LoadInHistory

\* The step sets a view that g, which is h but for the views to be set, is without.
SetsView(h, g) ==
  /\ Carries(h, g) /\ SameHistory(h, g) /\ g.position = h.position
  /\ \E hash \in Hashes \ {NoHash} : hist' = SetHash(g, hash, FALSE)

LEMMA FirstViewAgainIs ==
  ASSUME GoodHistory(hist), FirstViewAgain
  PROVE  kept' = 0 /\ hist.initialized /\ \E g : SetsView(hist, g)
<1>1. PICK hash \in Hashes \ {NoHash} :
        /\ hist.initialized /\ hist.again[hash] > 0 /\ kept' = 0
        /\ hist' = SetHash([hist EXCEPT !.again[hash] = @ - 1], hash, FALSE)
  BY DEF FirstViewAgain
<1> DEFINE n == hist.again[hash] - 1
           g == [hist EXCEPT !.again[hash] = n]
<1>2. n \in Nat
  <2>1. hist.again[hash] \in Nat
    BY HistoryTypes DEF GoodHistory
  <2> QED BY <1>1, <2>1
<1>3. hist' = SetHash(g, hash, FALSE)
  BY <1>1
<1> HIDE DEF n
<1>4. Carries(hist, g) /\ SameHistory(hist, g) /\ g.position = hist.position
  BY <1>2, AgainCarries
<1> HIDE DEF g
<1>5. SetsView(hist, g)
  BY <1>3, <1>4, Zenon DEF SetsView
<1> QED BY <1>1, <1>5, Zenon

LEMMA FirstViewAgainKeeps ==
  ASSUME InOrder(hist, kept), FirstViewAgain
  PROVE  InOrder(hist', kept')
<1>1. GoodHistory(hist)
  BY DEF InOrder
<1>2. PICK g : SetsView(hist, g)
  BY <1>1, FirstViewAgainIs
<1>3. kept' = 0 /\ hist.initialized
  BY <1>1, FirstViewAgainIs
<1>4. PICK hash \in Hashes \ {NoHash} : hist' = SetHash(g, hash, FALSE)
  BY <1>2 DEF SetsView
<1>5. Carries(hist, g) /\ GoodHistory(g) /\ g.initialized
  BY <1>2, <1>3 DEF SetsView, Carries
<1>6. Carries(g, hist')
  BY <1>4, <1>5, ViewCarries
<1>7. Carries(hist, hist')
  BY <1>1, <1>5, <1>6, CarriesOn
<1> QED BY <1>3, <1>7, CarriesInOrder

----------------------------------------------------------------------------
(* Traversals                                                              *)

\* A typed hash: the entry that the browser writes, and what popState sets before
\* it writes its own in the place.
Typed(h, url) ==
  [h EXCEPT !.entries = Append(SubSeq(h.entries, 1, h.cur), StatelessEntry(url)),
            !.cur = h.cur + 1, !.hashEvents = h.hashEvents + 1]

Renumbered(t, url) == [[t EXCEPT !.currentHash = url] EXCEPT !.uid = @ + 1]

LEMMA PopStateOfStateless ==
  ASSUME NEW h \in HistoryFields, h.initialized, Here(h).fingerprint = NotLoaded
  PROVE  PopState(h) = PushOrReplaceState(Renumbered(h, Here(h).url), FromHash(Here(h).url), TRUE)
<1> DEFINE g == [h EXCEPT !.currentHash = Here(h).url]
<1>1. g.initialized = h.initialized
  BY DEF HistoryFields
<1>2. PopState(h) = PushOrReplaceState([g EXCEPT !.uid = @ + 1], FromHash(Here(h).url), TRUE)
  <2> HIDE DEF g
  <2>1. PopState(h) = PushOrReplaceState([[h EXCEPT !.currentHash = Here(h).url] EXCEPT !.uid = @ + 1],
                                         FromHash(Here(h).url), TRUE)
    BY <1>1, Zenon DEF PopState, g
  <2> QED BY <2>1 DEF g
<1> QED BY <1>2 DEF Renumbered

LEMMA TypedIs ==
  ASSUME NEW h \in HistoryFields, h.cur \in 1..Len(h.entries), NEW url \in Hashes
  PROVE  LET t == Typed(h, url)
             g == Renumbered(t, url)
         IN  /\ t \in HistoryFields /\ t.initialized = h.initialized /\ Here(t) = StatelessEntry(url)
             /\ g \in HistoryFields /\ Here(g) = StatelessEntry(url)
             /\ g.initialized = h.initialized /\ g.fingerprint = h.fingerprint /\ g.mixed = h.mixed
             /\ g.position = h.position /\ g.asked = h.asked /\ g.currentHash = url
             /\ g.uid = h.uid + 1 /\ g.cur = h.cur + 1 /\ g.hashEvents = h.hashEvents + 1
             /\ Len(g.entries) = h.cur + 1
             /\ \A i \in 1..h.cur : g.entries[i] = h.entries[i]
<1> DEFINE e == StatelessEntry(url)
           E == Append(SubSeq(h.entries, 1, h.cur), e)
           a == [h EXCEPT !.entries = E]
           b == [a EXCEPT !.cur = h.cur + 1]
           t == [b EXCEPT !.hashEvents = h.hashEvents + 1]
           c == [t EXCEPT !.currentHash = url]
           g == [c EXCEPT !.uid = h.uid + 1]
<1>1. e \in Entries
  <2>1. NoDestination \in Destinations
    BY HistoryAssumption DEF NoDestination, Destinations, Hashes, NoHash
  <2> QED BY <2>1 DEF StatelessEntry, Entries
<1> HIDE DEF e
<1>2. /\ E \in Seq(Entries) /\ Len(E) = h.cur + 1 /\ E[h.cur + 1] = e
      /\ \A i \in 1..h.cur : E[i] = h.entries[i]
  BY <1>1, HistoryTypes, AppendedEntries
<1> HIDE DEF E
<1>3. h.cur + 1 \in Nat \ {0} /\ h.hashEvents + 1 \in Nat /\ h.uid + 1 \in Nat
  BY HistoryTypes
<1>4. t.initialized = h.initialized /\ t.entries = E /\ t.cur = h.cur + 1
  BY DEF HistoryFields
<1>5. /\ g.initialized = h.initialized /\ g.fingerprint = h.fingerprint /\ g.mixed = h.mixed
      /\ g.position = h.position /\ g.asked = h.asked /\ g.currentHash = url
      /\ g.uid = h.uid + 1 /\ g.cur = h.cur + 1 /\ g.hashEvents = h.hashEvents + 1
      /\ g.entries = E /\ c.uid = h.uid
  BY DEF HistoryFields
<1>6. t = Typed(h, url)
  BY DEF Typed, HistoryFields, E, e
<1>7. a \in HistoryFields BY <1>2 DEF HistoryFields
<1> HIDE DEF a
<1>8. b \in HistoryFields BY <1>3, <1>7 DEF HistoryFields
<1> HIDE DEF b
<1>9. t \in HistoryFields BY <1>3, <1>8 DEF HistoryFields
<1> HIDE DEF t
<1>10. c \in HistoryFields BY <1>9 DEF HistoryFields
<1>11. c = [t EXCEPT !.currentHash = url]
  OBVIOUS
<1> HIDE DEF c
<1>12. g \in HistoryFields BY <1>3, <1>10 DEF HistoryFields
<1>13. g = Renumbered(t, url)
  BY <1>5, <1>11 DEF Renumbered
<1> HIDE DEF g
<1>14. Here(t) = e /\ Here(g) = e
  BY <1>2, <1>4, <1>5 DEF Here
<1> QED BY <1>2, <1>4, <1>5, <1>6, <1>9, <1>12, <1>13, <1>14 DEF e

LEMMA TypeHashKeeps ==
  ASSUME InOrder(hist, kept), NEW n \in 1..LastPage, TypeHash(n)
  PROVE  InOrder(hist', kept') /\ hist'.destination.dest = -1
<1> DEFINE url == <<"page", n>>
           t == Typed(hist, url)
           h == Renumbered(t, url)
           d == FromHash(url)
           g == PushOrReplaceState(h, d, TRUE)
<1>1. /\ GoodHistory(hist) /\ hist \in HistoryFields /\ hist.uid \in Nat
      /\ hist.cur \in Nat /\ hist.cur \in 1..Len(hist.entries)
  BY GoodTypes DEF InOrder
<1>2. /\ hist.initialized /\ hist.destination # NoDestination /\ hist.hashEvents = 0 /\ kept' = 0
      /\ hist' = PopState(t)
  BY DEF TypeHash, Typed
<1>3. url \in Urls /\ url \in Hashes
  BY DEF Urls, Hashes
<1>4. d \in Lasting /\ d \in Destinations /\ d.dest = -1
  <2>1. d.dest = -1
    BY DEF FromHash
  <2> HIDE DEF d
  <2>2. d \in Lasting
    BY FromHashLasts DEF d
  <2> QED BY <2>1, <2>2, LastingCases
<1> HIDE DEF url
<1>5. /\ t \in HistoryFields /\ t.initialized = hist.initialized /\ Here(t) = StatelessEntry(url)
      /\ h \in HistoryFields /\ Here(h) = StatelessEntry(url)
      /\ h.initialized = hist.initialized /\ h.fingerprint = hist.fingerprint
      /\ h.mixed = hist.mixed /\ h.position = hist.position /\ h.asked = hist.asked
      /\ h.currentHash = url /\ h.uid = hist.uid + 1 /\ h.cur = hist.cur + 1
      /\ h.hashEvents = hist.hashEvents + 1 /\ Len(h.entries) = hist.cur + 1
      /\ \A i \in 1..hist.cur : h.entries[i] = hist.entries[i]
  <2>1. hist \in HistoryFields /\ hist.cur \in 1..Len(hist.entries) /\ url \in Hashes
    BY <1>1, <1>3
  <2> QED BY <2>1, TypedIs, Zenon
<1> HIDE DEF t
<1>6. hist' = g
  <2>1. StatelessEntry(url).url = url /\ StatelessEntry(url).fingerprint = NotLoaded
    BY DEF StatelessEntry
  <2>2. t.initialized
    BY <1>2, <1>5
  <2>3. PopState(t) = g
    BY <1>5, <2>1, <2>2, PopStateOfStateless
  <2> QED BY <1>2, <2>3
<1> HIDE DEF h, d
<1>7. /\ g \in HistoryFields /\ StaysPut(h, g) /\ Wrote(h, g, TRUE) /\ g.destination = d
      /\ Here(g).url = url
  <2>1. h.cur \in 1..Len(h.entries)
    BY <1>1, <1>5
  <2>2. (TRUE \/ h.destination = NoDestination) = TRUE
    OBVIOUS
  <2>3. Here(h).url = url
    BY <1>5 DEF StatelessEntry
  <2>4. h \in HistoryFields
    BY <1>5
  <2> QED BY <1>4, <2>1, <2>2, <2>3, <2>4, PushOrReplaceStateIs
<1> HIDE DEF g
<1>8. /\ g.cur = hist.cur + 1 /\ g.mixed = hist.mixed /\ g.asked = hist.asked /\ g.hashEvents = 1
      /\ g.initialized /\ g.currentHash = url /\ g.uid = hist.uid + 1
      /\ Len(g.entries) = hist.cur + 1 /\ g.fingerprint = hist.fingerprint
      /\ g.position = hist.position
      /\ \A i \in 1..(hist.cur + 1) : i # hist.cur + 1 => g.entries[i] = h.entries[i]
  BY <1>2, <1>5, <1>7 DEF StaysPut, Wrote
<1>9. Wrote(hist, g, FALSE)
  <2>1. \A i \in 1..(hist.cur + 1) : i # hist.cur + 1 =>
          i \in 1..hist.cur /\ i \in 1..Len(hist.entries)
    BY <1>1
  <2>2. /\ Here(g).fingerprint = g.fingerprint /\ Here(g).uid = g.uid
        /\ Here(g).destination = g.destination
    BY <1>7 DEF Wrote
  <2> QED BY <1>5, <1>8, <2>1, <2>2 DEF Wrote
<1>10. GoodHistory(g)
  BY <1>1, <1>2, <1>3, <1>4, <1>7, <1>8, <1>9, WroteKeeps
<1>11. hist.asked = -1 /\ ~hist.mixed => g.cur > 1
  BY <1>1, <1>8
<1> QED BY <1>2, <1>4, <1>6, <1>7, <1>8, <1>10, <1>11 DEF InOrder, Calm

\* What a traversal that finds an entry of the document makes of the history.
At(h0, there, pending) ==
  LET state == h0.entries[there]
      changed == h0.currentHash # state.url
      h == [h0 EXCEPT !.cur = there, !.asked = 0, !.hashEvents = pending, !.currentHash = state.url]
  IN  [UpdateInternalState(h, [state.destination EXCEPT !.temporary = FALSE], state.uid)
         EXCEPT !.blocks = IF changed THEN @ + 1 ELSE @, !.waits = IF changed THEN @ + 1 ELSE @]

\* The history after the traversal itself, and once _updateInternalState is done.
Moved(h0, there, pending) ==
  [h0 EXCEPT !.cur = there, !.asked = 0, !.hashEvents = pending]

Heard(h0, there, pending) ==
  [Moved(h0, there, pending) EXCEPT !.currentHash = h0.entries[there].url]

Goes(h0, g, there, pending) ==
  /\ g.cur = there /\ g.asked = 0 /\ g.hashEvents = pending
  /\ g.entries = h0.entries /\ g.initialized = h0.initialized
  /\ g.fingerprint = h0.fingerprint /\ g.mixed = h0.mixed
  /\ g.position = h0.position /\ g.destination = h0.destination
  /\ g.uid = h0.uid /\ g.resolving = h0.resolving /\ g.timeout = h0.timeout
  /\ g.blocks = h0.blocks /\ g.known = h0.known /\ g.waits = h0.waits

LEMMA MovedIs ==
  ASSUME NEW h0 \in HistoryFields, NEW there \in 1..Len(h0.entries), NEW pending \in {0, 1}
  PROVE  /\ Moved(h0, there, pending) \in HistoryFields
         /\ Moved(h0, there, pending).currentHash = h0.currentHash
         /\ Goes(h0, Moved(h0, there, pending), there, pending)
         /\ Heard(h0, there, pending) \in HistoryFields
         /\ Goes(h0, Heard(h0, there, pending), there, pending)
<1> DEFINE url == h0.entries[there].url
           a == [h0 EXCEPT !.cur = there]
           b == [a EXCEPT !.asked = 0]
           m == [b EXCEPT !.hashEvents = pending]
           h == [m EXCEPT !.currentHash = url]
<1>1. there \in Nat \ {0} /\ pending \in Nat /\ 0 \in {-1, 0, 1} /\ url \in Hashes
  BY HistoryTypes
<1> HIDE DEF url
<1>2. m = Moved(h0, there, pending)
  BY DEF Moved, HistoryFields
<1>4. m.currentHash = h0.currentHash
  BY DEF HistoryFields
<1>5. Goes(h0, m, there, pending) /\ Goes(h0, h, there, pending)
  BY DEF HistoryFields, Goes
<1>6. a \in HistoryFields BY <1>1 DEF HistoryFields
<1> HIDE DEF a
<1>7. b \in HistoryFields BY <1>1, <1>6 DEF HistoryFields
<1> HIDE DEF b
<1>8. m \in HistoryFields BY <1>1, <1>7 DEF HistoryFields
<1> HIDE DEF m
<1>9. h \in HistoryFields BY <1>1, <1>8 DEF HistoryFields
<1> HIDE DEF h
<1>10. h = Heard(h0, there, pending) BY <1>2 DEF h, Heard, url
<1> QED BY <1>2, <1>4, <1>5, <1>8, <1>9, <1>10

Reaches(h0, g, there, pending) ==
  LET state == h0.entries[there]
  IN  /\ g.cur = there /\ g.asked = 0 /\ g.hashEvents = pending
      /\ g.entries = h0.entries /\ g.initialized = h0.initialized
      /\ g.fingerprint = h0.fingerprint /\ g.mixed = h0.mixed
      /\ g.position = h0.position /\ g.resolving = h0.resolving /\ g.known = h0.known
      /\ g.uid = state.uid /\ g.currentHash = state.url /\ ~g.timeout
      /\ g.destination = [state.destination EXCEPT !.temporary = FALSE]
      /\ g.blocks = IF h0.currentHash # state.url THEN h0.blocks + 1 ELSE h0.blocks

LEMMA AtIs ==
  ASSUME NEW h0 \in HistoryFields, NEW there \in 1..Len(h0.entries), NEW pending \in {0, 1},
         h0.entries[there].destination \in Lasting
  PROVE  At(h0, there, pending) \in HistoryFields /\ Reaches(h0, At(h0, there, pending), there, pending)
<1>0. Heard(h0, there, pending) \in HistoryFields
  BY MovedIs
<1>12. Heard(h0, there, pending).currentHash = h0.entries[there].url
  BY DEF Heard, Moved, HistoryFields
<1>13. Goes(h0, Heard(h0, there, pending), there, pending)
  BY MovedIs
<1>14. Heard(h0, there, pending) =
              [h0 EXCEPT !.cur = there, !.asked = 0, !.hashEvents = pending,
                         !.currentHash = h0.entries[there].url]
  BY DEF Heard, Moved, HistoryFields
<1> DEFINE state == h0.entries[there]
           d == [state.destination EXCEPT !.temporary = FALSE]
           h == Heard(h0, there, pending)
           u == UpdateInternalState(h, d, state.uid)
           b == IF h0.currentHash # state.url THEN u.blocks + 1 ELSE u.blocks
           w == IF h0.currentHash # state.url THEN u.waits + 1 ELSE u.waits
           u1 == [u EXCEPT !.blocks = b]
           g == [u1 EXCEPT !.waits = w]
<1>1. state.uid \in Nat /\ state.url \in Hashes
  BY HistoryTypes
<1>2. d \in Destinations
  BY UnmarkedDestination, LastingCases
<1>3. /\ h \in HistoryFields /\ h.cur = there /\ h.asked = 0 /\ h.hashEvents = pending
      /\ h.entries = h0.entries /\ h.initialized = h0.initialized /\ h.currentHash = state.url
      /\ h.fingerprint = h0.fingerprint /\ h.mixed = h0.mixed /\ h.blocks = h0.blocks
      /\ h.position = h0.position /\ h.resolving = h0.resolving /\ h.known = h0.known
  <2>1. h \in HistoryFields /\ Goes(h0, h, there, pending) /\ h.currentHash = state.url
    BY <1>0, <1>12, <1>13
  <2> HIDE DEF h, state
  <2> QED BY <2>1, Zenon DEF Goes
<1> HIDE DEF h, d, state
<1>4. /\ u \in HistoryFields /\ ~u.timeout /\ u.destination = d /\ u.uid = state.uid
      /\ u.initialized = h.initialized /\ u.fingerprint = h.fingerprint /\ u.position = h.position
      /\ u.blocks = h.blocks /\ u.currentHash = h.currentHash /\ u.entries = h.entries
      /\ u.cur = h.cur /\ u.hashEvents = h.hashEvents /\ u.asked = h.asked /\ u.known = h.known
      /\ u.resolving = h.resolving /\ u.mixed = h.mixed
  <2>1. h \in HistoryFields /\ d \in Destinations /\ state.uid \in Nat
    BY <1>1, <1>2, <1>3
  <2> QED BY <2>1, UpdateInternalStateIs, SMTT(30)
<1>5. g = At(h0, there, pending)
  <2>1. At(h0, there, pending) =
          [u EXCEPT !.blocks = IF h0.currentHash # state.url THEN @ + 1 ELSE @,
                    !.waits = IF h0.currentHash # state.url THEN @ + 1 ELSE @]
    <3> HIDE DEF u
    <3>1. u = UpdateInternalState([h0 EXCEPT !.cur = there, !.asked = 0, !.hashEvents = pending,
                                             !.currentHash = h0.entries[there].url], d, state.uid)
      BY <1>14 DEF u, h
    <3> QED BY <3>1, Zenon DEF At, d, state
  <2> HIDE DEF u
  <2> QED BY <1>4, <2>1 DEF HistoryFields
<1> HIDE DEF u
<1>6. b \in Int /\ w \in Nat /\ b = IF h0.currentHash # state.url THEN h0.blocks + 1 ELSE h0.blocks
  <2>1. u.blocks \in Int /\ u.waits \in Nat
    BY <1>4, HistoryTypes
  <2> QED BY <1>3, <1>4, <2>1
<1> HIDE DEF b, w
<1>7. u1 \in HistoryFields BY <1>4, <1>6, ZenonT(40) DEF HistoryFields
<1>8. g \in HistoryFields
  <2> HIDE DEF u1
  <2> QED BY <1>6, <1>7 DEF HistoryFields
<1>9. /\ g.cur = u.cur /\ g.asked = u.asked /\ g.hashEvents = u.hashEvents
      /\ g.entries = u.entries /\ g.initialized = u.initialized
      /\ g.fingerprint = u.fingerprint /\ g.mixed = u.mixed
      /\ g.position = u.position /\ g.resolving = u.resolving /\ g.known = u.known
      /\ g.uid = u.uid /\ g.currentHash = u.currentHash /\ g.timeout = u.timeout
      /\ g.destination = u.destination /\ g.blocks = b
  BY <1>4 DEF HistoryFields
<1> HIDE DEF g
<1>10. /\ g.initialized = h0.initialized /\ g.fingerprint = h0.fingerprint /\ g.mixed = h0.mixed
       /\ g.position = h0.position /\ g.resolving = h0.resolving /\ g.known = h0.known
  BY <1>3, <1>4, <1>9, Zenon
<1>11. /\ g.cur = there /\ g.asked = 0 /\ g.hashEvents = pending /\ g.entries = h0.entries
       /\ g.uid = state.uid /\ g.currentHash = state.url /\ ~g.timeout /\ g.destination = d
       /\ g.blocks = b
  BY <1>3, <1>4, <1>9
<1>15. Reaches(h0, g, there, pending)
  BY <1>6, <1>10, <1>11 DEF Reaches, state, d
<1> QED BY <1>5, <1>8, <1>15

LEMMA PopStateCases ==
  ASSUME NEW m, m.initialized, [m EXCEPT !.currentHash = Here(m).url].initialized
  PROVE  LET state == Here(m)
             h == [m EXCEPT !.currentHash = state.url]
             d == [state.destination EXCEPT !.temporary = FALSE]
             at == [UpdateInternalState(h, d, state.uid)
                      EXCEPT !.blocks = IF m.currentHash # state.url THEN @ + 1 ELSE @,
                             !.waits = IF m.currentHash # state.url THEN @ + 1 ELSE @]
         IN  PopState(m) =
               IF state.fingerprint = NotLoaded
                 THEN PushOrReplaceState([h EXCEPT !.uid = @ + 1], FromHash(state.url), TRUE)
               ELSE IF ~IsValidState(h, state, FALSE) THEN h
               ELSE IF d.dest > 0 THEN GoToDestination(at, d.dest, FALSE, TRUE)
               ELSE SetHash(at, d.hash, TRUE)
BY Zenon DEF PopState

LEMMA PopStateIs ==
  ASSUME NEW h0 \in HistoryFields, NEW there \in 1..Len(h0.entries), NEW pending \in {0, 1},
         h0.initialized, h0.entries[there].fingerprint # NotLoaded, Written(h0.entries[there])
  PROVE  LET state == h0.entries[there]
             at == At(h0, there, pending)
             g == PopState(Moved(h0, there, pending))
         IN  IF IsValidState(h0, state, FALSE)
               THEN /\ state.destination \in Lasting
                    /\ g = IF state.destination.dest > 0
                             THEN GoToDestination(at, state.destination.dest, FALSE, TRUE)
                           ELSE SetHash(at, state.destination.hash, TRUE)
             ELSE g = Heard(h0, there, pending)
<1> DEFINE state == h0.entries[there]
           m == Moved(h0, there, pending)
           h == [m EXCEPT !.currentHash = state.url]
           d == [state.destination EXCEPT !.temporary = FALSE]
           at == [UpdateInternalState(h, d, state.uid)
                    EXCEPT !.blocks = IF m.currentHash # state.url THEN @ + 1 ELSE @,
                           !.waits = IF m.currentHash # state.url THEN @ + 1 ELSE @]
<1>1. /\ m \in HistoryFields /\ m.currentHash = h0.currentHash /\ Goes(h0, m, there, pending)
      /\ Goes(h0, h, there, pending)
  BY MovedIs DEF Heard
<1>2. h = Heard(h0, there, pending)
  BY DEF Heard
<1>3. Here(m) = state /\ m.initialized /\ h.initialized /\ h.fingerprint = h0.fingerprint
  BY <1>1 DEF Goes, Here
<1>4. at = At(h0, there, pending)
  <2>1. h = [h0 EXCEPT !.cur = there, !.asked = 0, !.hashEvents = pending, !.currentHash = state.url]
    BY DEF Moved, HistoryFields
  <2>2. at = [UpdateInternalState(h, d, state.uid)
                EXCEPT !.blocks = IF h0.currentHash # state.url THEN @ + 1 ELSE @,
                       !.waits = IF h0.currentHash # state.url THEN @ + 1 ELSE @]
    <3> HIDE DEF h, d, m
    <3> QED BY <1>1
  <2> HIDE DEF h, at
  <2> QED BY <2>1, <2>2, Zenon DEF At, d, state
<1>5. IsValidState(h, state, FALSE) <=> IsValidState(h0, state, FALSE)
  BY <1>3 DEF IsValidState
<1>6. d.dest = state.destination.dest /\ d.hash = state.destination.hash
  <2>1. state.destination \in Destinations
    BY HistoryTypes, SMTT(30)
  <2> HIDE DEF state
  <2> QED BY <2>1 DEF Destinations
<1>7. PopState(m) = IF state.fingerprint = NotLoaded
                      THEN PushOrReplaceState([h EXCEPT !.uid = @ + 1], FromHash(state.url), TRUE)
                    ELSE IF ~IsValidState(h, state, FALSE) THEN h
                    ELSE IF d.dest > 0 THEN GoToDestination(at, d.dest, FALSE, TRUE)
                    ELSE SetHash(at, d.hash, TRUE)
  <2>1. [m EXCEPT !.currentHash = Here(m).url].initialized
    BY <1>3
  <2> HIDE DEF m, state
  <2> QED BY <1>3, <2>1, PopStateCases, Zenon
<1>8. IsValidState(h0, state, FALSE) => state.destination \in Lasting
  BY DEF IsValidState, Written
<1> HIDE DEF h, at, d, m
<1>9. state.fingerprint # NotLoaded
  OBVIOUS
<1> HIDE DEF state
<1>10. CASE IsValidState(h0, state, FALSE)
  BY <1>4, <1>5, <1>6, <1>7, <1>8, <1>9, <1>10, Zenon DEF state, m
<1>11. CASE ~IsValidState(h0, state, FALSE)
  BY <1>2, <1>5, <1>7, <1>9, <1>11, Zenon DEF state, m
<1> QED BY <1>10, <1>11

LEMMA AtIsGood ==
  ASSUME NEW h0, GoodHistory(h0), h0.initialized, NEW there \in 1..Len(h0.entries),
         NEW pending \in {0, 1}, IsValidState(h0, h0.entries[there], FALSE)
  PROVE  GoodHistory(At(h0, there, pending))
<1> DEFINE state == h0.entries[there]
           d == [state.destination EXCEPT !.temporary = FALSE]
           g == At(h0, there, pending)
<1>1. h0 \in HistoryFields /\ Written(state)
  BY DEF GoodHistory, Arranged
<1>2. /\ state.fingerprint # NotLoaded /\ state.fingerprint = h0.fingerprint
      /\ state.destination # NoDestination /\ state.destination \in Lasting
  BY <1>1 DEF IsValidState, Written
<1>3. /\ g \in HistoryFields /\ g.cur = there
      /\ g.entries = h0.entries /\ g.initialized = h0.initialized
      /\ g.fingerprint = h0.fingerprint /\ g.mixed = h0.mixed
      /\ g.position = h0.position /\ g.resolving = h0.resolving
      /\ g.uid = state.uid /\ g.currentHash = state.url /\ ~g.timeout /\ g.destination = d
  <2>1. h0 \in HistoryFields /\ h0.entries[there].destination \in Lasting
    BY <1>1, <1>2
  <2>2. g \in HistoryFields /\ Reaches(h0, g, there, pending)
    BY <2>1, AtIs
  <2> HIDE DEF g
  <2> QED BY <2>2 DEF Reaches
<1> HIDE DEF g
<1>4. Here(g) = state
  BY <1>3 DEF Here
<1>5. d \in Lasting /\ d # NoDestination
  BY <1>2, UnmarkedDestination, LastingCases
<1>6. Likens(d, state.destination)
  <2>1. state.destination \in Destinations
    BY <1>2, LastingCases
  <2> HIDE DEF state
  <2> QED BY <2>1 DEF Likens, Destinations
<1> HIDE DEF d, state
<1>7. Arranged(g)
  BY <1>3, <1>4 DEF GoodHistory, Arranged
<1>8. Agrees(g)
  BY <1>3, <1>4, <1>5, <1>6, LikensItself DEF Agrees
<1>9. ~g.mixed => OneWindow(g)
  BY <1>2, <1>3, <1>4, <1>5 DEF GoodHistory, OneWindow
<1>10. GoodHistory(g)
  BY <1>3, <1>7, <1>8, <1>9 DEF GoodHistory
<1> QED BY <1>10 DEF g

\* A traversal to a destination that the history has made its own arrives at once.
LEMMA ArriveAgain ==
  ASSUME NEW h, NEW d, NEW named \in BOOLEAN, h.destination # NoDestination,
         h.destination.dest = d, h.destination.page # 0
  PROVE  Arrive(h, d, named, TRUE) = ScrollIntoPlace(h, <<DestPage[d], DestPage[d]>>)
<1>1. PushCurrentPosition(h, TRUE) = h
  BY DEF PushCurrentPosition
<1>2. Push(h, <<IF named THEN "name" ELSE "explicit", d>>, d, TRUE) = h
  BY DEF Push, IsSame
<1> QED BY <1>1, <1>2, Zenon DEF Arrive, ScrollPageIntoView

\* A traversal lets the reader look at the destination that it leads to.
LEMMA Arrives ==
  ASSUME NEW h0, GoodHistory(h0), h0.initialized, NEW there \in 1..Len(h0.entries),
         NEW pending \in {0, 1}, FoundAtOnce(h0, h0.entries[there]), h0.hashEvents = 0,
         pending = 1 => h0.entries[there].url # Here(h0).url
  PROVE  LET g == PopState(Moved(h0, there, pending))
         IN  g.entries = h0.entries /\ AtRest(g)
<1> DEFINE state == h0.entries[there]
           e == state.destination
           d == [e EXCEPT !.temporary = FALSE]
           at == At(h0, there, pending)
           g == PopState(Moved(h0, there, pending))
           f == ScrollIntoPlace(at, Seen(d))
<1>1. /\ h0 \in HistoryFields /\ h0.currentHash = Here(h0).url /\ Written(state)
      /\ state.fingerprint # NotLoaded
  BY DEF GoodHistory, Arranged
<1>2. /\ IsValidState(h0, state, FALSE)
      /\ e.dest > 0 => e.dest \in h0.known
      /\ state.url # Here(h0).url => h0.blocks >= 0
  BY DEF FoundAtOnce
<1>3. /\ e \in Lasting
      /\ g = IF e.dest > 0 THEN GoToDestination(at, e.dest, FALSE, TRUE)
             ELSE SetHash(at, e.hash, TRUE)
  <2>1. IsValidState(h0, h0.entries[there], FALSE)
    BY <1>2
  <2> QED BY <1>1, <2>1, PopStateIs
<1> HIDE DEF g
<1>4. at \in HistoryFields /\ Reaches(h0, at, there, pending)
  BY <1>1, <1>3, AtIs
<1>5. /\ at.destination = d /\ at.known = h0.known /\ ~at.timeout /\ at.entries = h0.entries
      /\ at.hashEvents = pending
      /\ at.blocks = IF h0.currentHash # state.url THEN h0.blocks + 1 ELSE h0.blocks
  BY <1>4 DEF Reaches
<1> HIDE DEF at, state
<1>6. /\ d \in Lasting /\ d # NoDestination /\ d.dest = e.dest /\ d.hash = e.hash
      /\ d.page = e.page /\ d.first = e.first /\ ~d.temporary /\ d.page # 0
  <2>1. e \in Destinations
    BY <1>3, LastingCases
  <2>2. d \in Lasting
    BY <1>3, UnmarkedDestination
  <2>3. d # NoDestination /\ d.page # 0
    BY <2>2, LastingCases
  <2> HIDE DEF e
  <2>4. d.dest = e.dest /\ d.hash = e.hash /\ d.page = e.page /\ d.first = e.first /\ ~d.temporary
    BY <2>1 DEF Destinations
  <2> QED BY <2>2, <2>3, <2>4
<1>7. Seen(d) = Seen(e)
  BY <1>6 DEF Seen
<1> HIDE DEF d, e
<1>8. g = f /\ Seen(d) \in Places
  <2>1. CASE e.dest > 0
    <3>1. e.dest \in Dests /\ e.dest \in at.known
      BY <1>2, <1>3, <1>5, <2>1, LastingCases
    <3>2. GoToDestination(at, e.dest, FALSE, TRUE) = Arrive(at, e.dest, FALSE, TRUE)
      BY <3>1 DEF GoToDestination
    <3>3. Arrive(at, e.dest, FALSE, TRUE)
            = ScrollIntoPlace(at, <<DestPage[e.dest], DestPage[e.dest]>>)
      BY <1>5, <1>6, ArriveAgain
    <3>4. e.page = DestPage[e.dest] /\ e.first = 0
      <4>1. 0 \notin Dests /\ -1 \notin Dests
        BY HistoryAssumption
      <4> QED BY <1>3, <3>1, <4>1 DEF Lasting
    <3>5. Seen(e) = <<DestPage[e.dest], DestPage[e.dest]>>
      BY <3>4 DEF Seen
    <3>6. Seen(e) \in Places
      BY <3>1, <3>5, PagesArePlaces, HistoryAssumption
    <3> QED BY <1>3, <1>7, <2>1, <3>2, <3>3, <3>5, <3>6
  <2>2. CASE ~(e.dest > 0)
    <3>1. e.dest \notin Dests
      BY <1>3, <2>2, LastingCases
    <3>2. SetHash(at, e.hash, TRUE) = ScrollIntoPlace(at, Seen(e)) /\ Seen(e) \in Places
      BY <1>3, <3>1, SetLastingHash
    <3> QED BY <1>3, <1>7, <2>2, <3>2
  <2> QED BY <2>1, <2>2
<1>9. /\ f.place = Seen(d) /\ f.timeout = at.timeout /\ f.destination = at.destination
      /\ f.hashEvents = at.hashEvents /\ f.blocks = at.blocks /\ f.entries = at.entries
  BY <1>4, <1>8, ScrollIntoPlaceIs DEF SameHistory
<1> HIDE DEF f
<1>10. f.hashEvents > 0 => f.blocks > 0
  <2>1. h0.blocks \in Int
    BY <1>1, HistoryTypes
  <2>2. CASE pending = 1
    BY <1>1, <1>2, <1>5, <1>9, <2>1, <2>2 DEF state
  <2>3. CASE pending = 0
    BY <1>5, <1>9, <2>3
  <2> QED BY <2>2, <2>3
<1>11. AtRest(f)
  BY <1>5, <1>6, <1>9, <1>10 DEF AtRest
<1> QED BY <1>5, <1>8, <1>9, <1>11 DEF g

LEMMA PopStateWhenClosed ==
  ASSUME NEW h \in HistoryFields, ~h.initialized
  PROVE  PopState(h) = h
<1>1. ~[h EXCEPT !.currentHash = Here(h).url].initialized
  BY DEF HistoryFields
<1> QED BY <1>1, Zenon DEF PopState

\* What a traversal is, in terms of Moved.
LEMMA TraverseIs ==
  ASSUME GoodHistory(hist), NEW step \in {-1, 1}, Traverse(step)
  PROVE  LET there == hist.cur + step
             state == hist.entries[there]
             pending == IF state.url # Here(hist).url THEN 1 ELSE 0
         IN  /\ there \in 1..Len(hist.entries) /\ hist.hashEvents = 0 /\ Len(hist.entries) # 1
             /\ kept' = IF FoundAtOnce(hist, state) THEN Len(hist.entries) ELSE 0
             /\ hist' = PopState(Moved(hist, there, pending)) /\ pending \in {0, 1}
<1> DEFINE there == hist.cur + step
           state == hist.entries[there]
           pending == IF state.url # Here(hist).url THEN 1 ELSE 0
           m == Moved(hist, there, pending)
<1>1. hist \in HistoryFields /\ Len(hist.entries) \in Nat /\ hist.cur \in Nat
      /\ hist.cur \in 1..Len(hist.entries)
  BY GoodTypes
<1>2. /\ there \in 1..Len(hist.entries) /\ hist.hashEvents = 0
      /\ kept' = IF FoundAtOnce(hist, state) THEN Len(hist.entries) ELSE 0
  BY DEF Traverse
<1>3. hist' = PopState(m)
  <2>1. [hist EXCEPT !.cur = there, !.asked = 0,
                     !.hashEvents = IF state.url # Here(hist).url THEN @ + 1 ELSE @] = m
    <3>1. (IF state.url # Here(hist).url THEN hist.hashEvents + 1 ELSE hist.hashEvents) = pending
      BY <1>2
    <3> HIDE DEF pending, state, there
    <3> QED BY <1>1, <3>1, Zenon DEF Moved
  <2> QED BY <2>1 DEF Traverse
<1>4. pending \in {0, 1}
  OBVIOUS
<1>5. Len(hist.entries) # 1
  <2>1. Len(hist.entries) = 1 => hist.cur = 1 /\ there = 1
    BY <1>1, <1>2
  <2>2. there # hist.cur
    BY <1>1
  <2> HIDE DEF there
  <2> QED BY <2>1, <2>2
<1> QED BY <1>2, <1>3, <1>4, <1>5

LEMMA TraverseKeeps ==
  ASSUME InOrder(hist, kept), NEW step \in {-1, 1}, Traverse(step)
  PROVE  InOrder(hist', kept')
<1> DEFINE there == hist.cur + step
           state == hist.entries[there]
           pending == IF state.url # Here(hist).url THEN 1 ELSE 0
           m == Moved(hist, there, pending)
<1>1. GoodHistory(hist) /\ hist \in HistoryFields /\ Len(hist.entries) \in Nat /\ hist.cur \in Nat
      /\ hist.cur \in 1..Len(hist.entries)
  BY GoodTypes DEF InOrder
<1>2. /\ there \in 1..Len(hist.entries) /\ hist.hashEvents = 0
      /\ kept' = IF FoundAtOnce(hist, state) THEN Len(hist.entries) ELSE 0
      /\ hist' = PopState(m) /\ Len(hist.entries) # 1
  BY <1>1, TraverseIs
<1>3. hist' = PopState(m)
  BY <1>2
<1>4. pending \in {0, 1} /\ (pending = 1 => state.url # Here(hist).url)
  OBVIOUS
<1>5. Len(hist.entries) # 1
  BY <1>2
<1>6. Written(state) /\ state.fingerprint # NotLoaded
  BY <1>1, <1>2, <1>5 DEF GoodHistory, Arranged
<1> HIDE DEF there, pending
<1>7. /\ m \in HistoryFields /\ Goes(hist, m, there, pending) /\ m.currentHash = hist.currentHash
      /\ Heard(hist, there, pending) \in HistoryFields
      /\ Goes(hist, Heard(hist, there, pending), there, pending)
  BY <1>1, <1>2, <1>4, MovedIs
<1>8. CASE ~hist.initialized
  <2>1. hist' = m
    <3>1. ~m.initialized
      BY <1>7, <1>8 DEF Goes
    <3> HIDE DEF m
    <3> QED BY <1>3, <1>7, <3>1, PopStateWhenClosed
  <2> HIDE DEF m
  <2>2. /\ m.cur = there /\ m.asked = 0 /\ m.hashEvents = pending
        /\ m.entries = hist.entries /\ ~m.initialized
        /\ m.fingerprint = hist.fingerprint /\ m.mixed = hist.mixed
        /\ m.position = hist.position /\ m.destination = hist.destination
        /\ m.uid = hist.uid /\ m.resolving = hist.resolving /\ m.timeout = hist.timeout
    BY <1>7, <1>8 DEF Goes
  <2>3. Arranged(m) /\ Agrees(m)
    BY <1>1, <1>2, <1>8, <2>2 DEF GoodHistory, Arranged, Agrees
  <2>4. ~m.mixed => OneWindow(m)
    BY <1>1, <1>8, <2>2 DEF GoodHistory, OneWindow
  <2>5. GoodHistory(m)
    BY <1>7, <2>3, <2>4 DEF GoodHistory
  <2>6. Calm(m, kept') /\ kept' \in Nat
    BY <1>1, <1>2, <2>2 DEF Calm
  <2> QED BY <1>4, <2>1, <2>2, <2>5, <2>6 DEF InOrder
<1>9. CASE hist.initialized /\ ~IsValidState(hist, state, FALSE)
  <2> DEFINE g == Heard(hist, there, pending)
  <2>1. hist' = g
    BY <1>1, <1>2, <1>3, <1>4, <1>6, <1>9, PopStateIs
  <2>2. g.currentHash = state.url
    BY <1>1 DEF Heard, Moved, HistoryFields
  <2> HIDE DEF g
  <2>3. /\ g.cur = there /\ g.asked = 0 /\ g.hashEvents = pending
        /\ g.entries = hist.entries /\ g.initialized
        /\ g.fingerprint = hist.fingerprint /\ g.mixed = hist.mixed
        /\ g.position = hist.position /\ g.destination = hist.destination
        /\ g.uid = hist.uid /\ g.resolving = hist.resolving /\ g.timeout = hist.timeout
    BY <1>7, <1>9 DEF Goes, g
  <2>4. Here(g) = state
    BY <2>3 DEF Here
  <2>5. Arranged(g)
    BY <1>1, <1>2, <1>9, <2>2, <2>3, <2>4 DEF GoodHistory, Arranged
  <2>6. ~IsValidState(g, Here(g), FALSE)
    BY <1>9, <2>3, <2>4 DEF IsValidState
  <2>7. Agrees(g)
    BY <1>1, <2>3, <2>6 DEF GoodHistory, Agrees
  <2>8. hist.mixed
    <3>1. ASSUME ~hist.mixed PROVE FALSE
      <4>1. /\ state.fingerprint \in {NotLoaded, hist.fingerprint}
            /\ state.destination # NoDestination
        BY <1>1, <1>2, <1>5, <1>9, <3>1 DEF GoodHistory, Arranged, OneWindow
      <4> QED BY <1>6, <1>9, <4>1 DEF IsValidState
    <3> QED BY <3>1
  <2>9. kept' = 0
    BY <1>2, <1>9 DEF FoundAtOnce
  <2>10. GoodHistory(g)
    BY <1>7, <2>3, <2>5, <2>7, <2>8 DEF GoodHistory, g
  <2> QED BY <1>4, <2>1, <2>3, <2>9, <2>10 DEF InOrder, Calm
<1>10. CASE hist.initialized /\ IsValidState(hist, state, FALSE)
  <2> DEFINE at == At(hist, there, pending)
             e == state.destination
  <2>1. /\ e \in Lasting
        /\ hist' = IF e.dest > 0 THEN GoToDestination(at, e.dest, FALSE, TRUE)
                   ELSE SetHash(at, e.hash, TRUE)
    BY <1>1, <1>2, <1>3, <1>4, <1>6, <1>10, PopStateIs
  <2>2. GoodHistory(at)
    BY <1>1, <1>2, <1>4, <1>10, AtIsGood
  <2>3. Reaches(hist, at, there, pending)
    BY <1>1, <1>2, <1>4, <2>1, AtIs
  <2> HIDE DEF at
  <2>4. at.asked = 0 /\ at.hashEvents = pending /\ at.initialized
    BY <1>10, <2>3 DEF Reaches
  <2>5. Carries(at, hist')
    <3>1. CASE e.dest > 0
      <4>1. e.dest \in Dests
        BY <2>1, <3>1, LastingCases
      <4> QED BY <2>1, <2>2, <2>4, <3>1, <4>1, GoToDestinationCarries
    <3>2. CASE ~(e.dest > 0)
      <4>1. e.dest \notin Dests
        BY <2>1, <3>2, LastingCases
      <4>2. SetHash(at, e.hash, TRUE) = ScrollIntoPlace(at, Seen(e)) /\ Seen(e) \in Places
        BY <2>1, <4>1, SetLastingHash
      <4> QED BY <2>1, <2>2, <3>2, <4>2, ScrollCarries
    <3> QED BY <3>1, <3>2
  <2>6. InOrder(at, 0)
    BY <1>4, <2>2, <2>4 DEF InOrder, Calm
  <2>7. InOrder(hist', 0)
    BY <2>5, <2>6, CarriesInOrder
  <2>8. CASE FoundAtOnce(hist, state)
    <3>1. hist'.entries = hist.entries /\ AtRest(hist')
      BY <1>1, <1>2, <1>3, <1>4, <1>10, <2>8, Arrives
    <3>2. kept' = Len(hist.entries)
      BY <1>2, <2>8
    <3> QED BY <1>1, <2>7, <3>1, <3>2 DEF InOrder, Calm
  <2>9. CASE ~FoundAtOnce(hist, state)
    <3>1. kept' = 0
      BY <1>2, <2>9
    <3> QED BY <2>7, <3>1
  <2> QED BY <2>8, <2>9
<1> QED BY <1>8, <1>9, <1>10

----------------------------------------------------------------------------
(* What the viewer and the worker do                                       *)

\* An order to go back or forward that the history takes or is done with.
LEMMA AskedKeeps ==
  ASSUME InOrder(hist, kept), NEW asked \in {-1, 0, 1},
         asked = -1 => /\ hist.initialized
                       /\ IsValidState(hist, Here(hist), FALSE) /\ Here(hist).uid > 0
  PROVE  InOrder([hist EXCEPT !.asked = asked], kept)
<1> DEFINE g == [hist EXCEPT !.asked = asked]
<1>1. hist \in HistoryFields /\ GoodHistory(hist) /\ hist.cur \in Nat /\ hist.cur \in 1..Len(hist.entries)
  BY GoodTypes DEF InOrder
<1>2. g \in HistoryFields
  BY <1>1 DEF HistoryFields
<1>3. /\ g.asked = asked /\ g.hashEvents = hist.hashEvents /\ g.place = hist.place
      /\ g.timeout = hist.timeout /\ g.position = hist.position /\ g.blocks = hist.blocks
      /\ g.resolving = hist.resolving /\ SameHistory(hist, g)
  BY <1>1 DEF HistoryFields, SameHistory
<1> HIDE DEF g
<1>4. GoodHistory(g)
  <2>1. g.resolving # {} \/ g.timeout => g.initialized
    BY <1>1, <1>3 DEF GoodHistory, Arranged, SameHistory
  <2> QED BY <1>1, <1>2, <1>3, <2>1, SameHistoryKeeps
<1>5. Calm(g, kept)
  BY <1>3 DEF InOrder, Calm, AtRest, SameHistory
<1>6. ASSUME ~g.mixed, g.asked = -1 PROVE g.cur > 1
  <2>1. OneWindow(hist) /\ Here(hist).uid > 0
    BY <1>1, <1>3, <1>6 DEF GoodHistory, SameHistory
  <2>2. hist.cur # 1
    BY <2>1 DEF OneWindow, Here
  <2> QED BY <1>1, <1>3, <2>2 DEF SameHistory
<1> QED BY <1>3, <1>4, <1>5, <1>6 DEF InOrder, g

LEMMA BackForwardKeep ==
  ASSUME InOrder(hist, kept), Back \/ Forward \/ NothingThere
  PROVE  InOrder(hist', kept')
<1>1. CASE Back
  <2> DEFINE asked == IF IsValidState(hist, Here(hist), FALSE) /\ Here(hist).uid > 0 THEN -1 ELSE 0
  <2>1. hist' = [hist EXCEPT !.asked = asked] /\ kept' = kept /\ hist.initialized
    BY <1>1 DEF Back
  <2>2. /\ asked \in {-1, 0, 1}
        /\ asked = -1 => IsValidState(hist, Here(hist), FALSE) /\ Here(hist).uid > 0
    <3>1. CASE IsValidState(hist, Here(hist), FALSE) /\ Here(hist).uid > 0
      <4>1. asked = -1
        BY <3>1, Zenon
      <4> HIDE DEF asked
      <4> QED BY <3>1, <4>1
    <3>2. CASE ~(IsValidState(hist, Here(hist), FALSE) /\ Here(hist).uid > 0)
      <4>1. asked = 0
        BY <3>2, Zenon
      <4> HIDE DEF asked
      <4> QED BY <4>1
    <3> QED BY <3>1, <3>2
  <2> HIDE DEF asked
  <2> QED BY <2>1, <2>2, AskedKeeps
<1>2. CASE Forward
  <2> DEFINE asked == IF IsValidState(hist, Here(hist), FALSE) /\ Here(hist).uid < hist.maxUid
                        THEN 1 ELSE 0
  <2>1. hist' = [hist EXCEPT !.asked = asked] /\ kept' = kept
    BY <1>2 DEF Forward
  <2>2. asked \in {-1, 0, 1} /\ asked # -1
    OBVIOUS
  <2> HIDE DEF asked
  <2> QED BY <2>1, <2>2, AskedKeeps
<1>3. CASE NothingThere
  BY <1>3, AskedKeeps DEF NothingThere
<1> QED BY <1>1, <1>2, <1>3

LEMMA PositionTypes ==
  ASSUME NEW p \in Places
  PROVE  Position(p) \in Destinations
BY LinksLast, LastingCases DEF Position

LEMMA UpdateViewareaKeeps ==
  ASSUME InOrder(hist, kept), UpdateViewarea
  PROVE  InOrder(hist', kept')
<1> DEFINE position == IF hist.initialized THEN Position(hist.place) ELSE hist.position
           counts == hist.destination # NoDestination /\ hist.destination.page = 0
           updates == IF counts /\ hist.updates <= Threshold THEN hist.updates + 1 ELSE hist.updates
           a == [hist EXCEPT !.moved = FALSE]
           b == [a EXCEPT !.position = position]
           c == [b EXCEPT !.timeout = hist.initialized]
           g == [c EXCEPT !.updates = updates]
<1>1. /\ hist \in HistoryFields /\ GoodHistory(hist) /\ hist.place \in Places
      /\ hist.initialized \in BOOLEAN
  BY GoodTypes DEF InOrder
<1>2. hist' = g /\ kept' = kept
  BY <1>1 DEF UpdateViewarea, HistoryFields
<1>3. position \in Destinations /\ updates \in Nat
  <2>1. hist.position \in Destinations /\ hist.updates \in Nat
    BY <1>1, HistoryTypes
  <2> QED BY <1>1, <2>1, PositionTypes
<1>4. position = hist.position \/ \E p \in Places : position = Position(p)
  BY <1>1
<1>5. hist.initialized => position = Position(hist.place)
  OBVIOUS
<1> HIDE DEF position, updates
<1>6. /\ g.asked = hist.asked /\ g.hashEvents = hist.hashEvents /\ g.place = hist.place
      /\ g.timeout = hist.initialized /\ g.position = position /\ g.blocks = hist.blocks
      /\ g.resolving = hist.resolving /\ SameHistory(hist, g)
  BY <1>1 DEF HistoryFields, SameHistory
<1>7. a \in HistoryFields BY <1>1 DEF HistoryFields
<1> HIDE DEF a
<1>8. b \in HistoryFields BY <1>3, <1>7 DEF HistoryFields
<1> HIDE DEF b
<1>9. c \in HistoryFields BY <1>1, <1>8 DEF HistoryFields
<1> HIDE DEF c
<1>10. g \in HistoryFields BY <1>3, <1>9 DEF HistoryFields
<1> HIDE DEF g
<1>11. GoodHistory(g)
  <2>1. g.resolving # {} \/ g.timeout => g.initialized
    BY <1>1, <1>6 DEF GoodHistory, Arranged, SameHistory
  <2> QED BY <1>1, <1>4, <1>6, <1>10, <2>1, SameHistoryKeeps
<1>12. Calm(g, kept)
  BY <1>5, <1>6 DEF InOrder, Calm, AtRest, SameHistory
<1> QED BY <1>2, <1>6, <1>11, <1>12 DEF InOrder, SameHistory

\* The position of a reader who looks at the destination of the entry is not
\* worth an entry.
LEMMA SettledWritesNothing ==
  ASSUME NEW h, AtRest(h), h.position = Position(h.place), NEW t \in BOOLEAN
  PROVE  TryPushCurrentPosition(h, t) = h
<1> DEFINE old == h.destination
           p == [h.position EXCEPT !.temporary = t]
<1>1. old \in Lasting /\ ~old.temporary /\ h.place = Seen(old)
  BY DEF AtRest
<1>2. old # NoDestination /\ old.page \in 1..LastPage
  BY <1>1, LastingCases
<1>3. /\ p.hash = <<"at", h.place>> /\ p.page = h.place[2] /\ p.first = h.place[1]
  BY DEF Position
<1>4. h.place[2] = old.page /\ h.place[1] = IF old.first = 0 THEN old.page ELSE old.first
  BY <1>1 DEF Seen
<1>5. \/ old.hash = p.hash
      \/ old.page \in p.first .. p.page /\ old.first = 0
  <2>1. CASE old.first = 0
    BY <1>2, <1>3, <1>4, <2>1
  <2>2. CASE old.first # 0
    <3>1. old.hash = <<"at", <<old.first, old.page>>>>
      BY <1>1, <2>2 DEF Lasting
    <3> QED BY <1>1, <1>3, <2>2, <3>1 DEF Seen
  <2> QED BY <2>1, <2>2
<1> HIDE DEF old, p
<1>6. h.destination = old /\ p = [h.position EXCEPT !.temporary = t]
  BY DEF old, p
<1> QED BY <1>1, <1>2, <1>5, <1>6, Zenon DEF TryPushCurrentPosition

LEMMA UpdateViewareaTimeoutKeeps ==
  ASSUME InOrder(hist, kept), UpdateViewareaTimeout
  PROVE  InOrder(hist', kept')
<1> DEFINE f == TryPushCurrentPosition(hist, TRUE)
           g == [f EXCEPT !.timeout = FALSE]
<1>1. hist' = g /\ kept' = kept /\ hist.timeout /\ GoodHistory(hist) /\ hist.initialized
  BY DEF UpdateViewareaTimeout, InOrder, GoodHistory, Arranged
<1>2. Carries(hist, f)
  <2>1. f = hist \/ \E r \in BOOLEAN : Leads(hist, f, [hist.position EXCEPT !.temporary = TRUE], r)
    BY <1>1, TryPushKeeps
  <2> HIDE DEF f
  <2> QED BY <1>1, <2>1, LeadsCarries, CarriesOn
<1>3. kept > 0 => f = hist
  BY <1>1, SettledWritesNothing DEF InOrder, Calm, AtRest
<1> HIDE DEF f
<1>4. f \in HistoryFields /\ GoodHistory(f)
  BY <1>2 DEF Carries, GoodHistory
<1>5. g \in HistoryFields
  BY <1>4 DEF HistoryFields
<1>6. /\ g.asked = f.asked /\ g.hashEvents = f.hashEvents /\ g.place = f.place
      /\ ~g.timeout /\ g.position = f.position /\ g.blocks = f.blocks
      /\ g.resolving = f.resolving /\ SameHistory(f, g)
  BY <1>4 DEF HistoryFields, SameHistory
<1> HIDE DEF g
<1>7. Carries(f, g)
  <2>1. g.resolving # {} \/ g.timeout => g.initialized
    BY <1>4, <1>6 DEF GoodHistory, Arranged, SameHistory
  <2> QED BY <1>4, <1>5, <1>6, <2>1, SameCarries
<1>8. InOrder(g, 0)
  <2>1. Carries(hist, g)
    BY <1>1, <1>2, <1>7, CarriesOn
  <2> QED BY <2>1, CarriesInOrder
<1>9. kept \in Nat
  BY DEF InOrder
<1>10. CASE kept > 0
  <2>1. Calm(g, kept)
    BY <1>3, <1>6, <1>10 DEF InOrder, Calm, AtRest, SameHistory
  <2> QED BY <1>1, <1>8, <1>9, <2>1 DEF InOrder
<1>11. CASE kept = 0
  BY <1>1, <1>8, <1>11
<1> QED BY <1>9, <1>10, <1>11

LEMMA ResolvedIs ==
  ASSUME GoodHistory(hist), NEW d \in Dests, NEW named \in BOOLEAN, ResolveDestination(d, named)
  PROVE  LET g == [hist EXCEPT !.resolving = @ \ {<<d, named>>}, !.known = @ \cup {d}]
         IN  Carries(hist, g) /\ SameHistory(hist, g) /\ g.position = hist.position /\ g.initialized
<1> DEFINE resolving == hist.resolving \ {<<d, named>>}
           known == hist.known \cup {d}
           a == [hist EXCEPT !.resolving = resolving]
           g == [a EXCEPT !.known = known]
<1>1. /\ hist \in HistoryFields /\ hist.initialized
  BY DEF GoodHistory, Arranged, ResolveDestination
<1>2. g = [hist EXCEPT !.resolving = @ \ {<<d, named>>}, !.known = @ \cup {d}]
  BY <1>1 DEF HistoryFields
<1>3. resolving \in SUBSET (Dests \X BOOLEAN) /\ known \in SUBSET Dests
  BY <1>1 DEF HistoryFields
<1> HIDE DEF resolving, known
<1>4. /\ g.asked = hist.asked /\ g.hashEvents = hist.hashEvents /\ g.position = hist.position
      /\ g.timeout = hist.timeout /\ SameHistory(hist, g)
  BY <1>1 DEF HistoryFields, SameHistory
<1>5. a \in HistoryFields BY <1>1, <1>3 DEF HistoryFields
<1> HIDE DEF a
<1>6. g \in HistoryFields BY <1>3, <1>5 DEF HistoryFields
<1> HIDE DEF g
<1>7. Carries(hist, g) /\ g.initialized
  BY <1>1, <1>4, <1>6, SameCarries DEF SameHistory
<1> QED BY <1>2, <1>4, <1>7

LEMMA ResolveDestinationKeeps ==
  ASSUME InOrder(hist, kept), NEW d \in Dests, NEW named \in BOOLEAN, ResolveDestination(d, named)
  PROVE  InOrder(hist', kept')
<1> DEFINE g == [hist EXCEPT !.resolving = @ \ {<<d, named>>}, !.known = @ \cup {d}]
<1>1. GoodHistory(hist) /\ kept' = 0 /\ hist' = Arrive(g, d, named, FALSE)
  BY DEF InOrder, ResolveDestination
<1>2. Carries(hist, g) /\ g.initialized
  BY <1>1, ResolvedIs
<1> HIDE DEF g
<1>3. Carries(g, hist')
  <2>1. GoodHistory(g)
    BY <1>2 DEF Carries
  <2> QED BY <1>1, <1>2, <2>1, ArriveCarries, Zenon
<1>4. Carries(hist, hist')
  BY <1>1, <1>2, <1>3, CarriesOn
<1> QED BY <1>1, <1>4, CarriesInOrder

\* The fields that hashchange and its timeout set.
Blocked(h, pending, blocks, waits) ==
  [h EXCEPT !.hashEvents = pending, !.blocks = blocks, !.waits = waits]

LEMMA BlocksKeep ==
  ASSUME NEW h, GoodHistory(h), NEW pending \in Nat, NEW blocks \in Int, NEW waits \in Nat
  PROVE  LET g == Blocked(h, pending, blocks, waits)
         IN  /\ GoodHistory(g) /\ SameHistory(h, g) /\ g.hashEvents = pending /\ g.blocks = blocks
             /\ g.asked = h.asked /\ g.place = h.place /\ g.timeout = h.timeout
             /\ g.position = h.position
<1> DEFINE a == [h EXCEPT !.hashEvents = pending]
           b == [a EXCEPT !.blocks = blocks]
           g == [b EXCEPT !.waits = waits]
<1>1. h \in HistoryFields
  BY DEF GoodHistory
<1>2. g = Blocked(h, pending, blocks, waits)
  BY <1>1 DEF Blocked, HistoryFields
<1>3. /\ g.asked = h.asked /\ g.hashEvents = pending /\ g.position = h.position
      /\ g.timeout = h.timeout /\ g.blocks = blocks /\ g.place = h.place
      /\ g.resolving = h.resolving /\ SameHistory(h, g)
  BY <1>1 DEF HistoryFields, SameHistory
<1>4. a \in HistoryFields BY <1>1 DEF HistoryFields
<1> HIDE DEF a
<1>5. b \in HistoryFields BY <1>4 DEF HistoryFields
<1> HIDE DEF b
<1>6. g \in HistoryFields BY <1>5 DEF HistoryFields
<1> HIDE DEF g
<1>7. GoodHistory(g)
  <2>1. g.resolving # {} \/ g.timeout => g.initialized
    BY <1>3 DEF GoodHistory, Arranged, SameHistory
  <2> QED BY <1>3, <1>6, <2>1, SameHistoryKeeps
<1> QED BY <1>2, <1>3, <1>7

LEMMA HashChangeKeeps ==
  ASSUME InOrder(hist, kept), HashChange
  PROVE  InOrder(hist', kept') /\ hist'.cur = hist.cur
<1> DEFINE pending == hist.hashEvents - 1
           blocks == hist.blocks - hist.waits
           h == Blocked(hist, pending, blocks, 0)
<1>1. /\ GoodHistory(hist) /\ hist \in HistoryFields /\ hist.hashEvents \in {0, 1}
      /\ hist.blocks \in Int /\ hist.waits \in Nat /\ kept \in Nat
  BY HistoryTypes DEF InOrder, GoodHistory
<1>2. /\ hist.hashEvents > 0 /\ kept' = kept
      /\ hist' = IF hist.initialized /\ hist.blocks <= 0 THEN SetHash(h, Here(hist).url, FALSE) ELSE h
  <2>1. h = [hist EXCEPT !.hashEvents = @ - 1, !.blocks = @ - hist.waits, !.waits = 0]
    BY <1>1 DEF Blocked, HistoryFields
  <2> QED BY <2>1 DEF HashChange
<1>3. hist.hashEvents = 1 /\ pending = 0
  BY <1>1, <1>2
<1>4. /\ GoodHistory(h) /\ SameHistory(hist, h) /\ h.hashEvents = 0
      /\ h.asked = hist.asked /\ h.place = hist.place /\ h.timeout = hist.timeout
      /\ h.position = hist.position
  <2>1. pending \in Nat /\ blocks \in Int /\ 0 \in Nat
    BY <1>1, <1>3
  <2> HIDE DEF pending, blocks
  <2> QED BY <1>1, <1>3, <2>1, BlocksKeep
<1> HIDE DEF h
<1>5. InOrder(h, kept)
  BY <1>1, <1>4 DEF InOrder, Calm, AtRest, SameHistory
<1>6. CASE hist.initialized /\ hist.blocks <= 0
  <2>1. kept = 0
    BY <1>1, <1>2, <1>6 DEF InOrder, Calm, AtRest
  <2>2. Here(hist).url \in Urls
    BY <1>1 DEF GoodHistory, Arranged, Written, Here
  <2>3. Carries(h, hist') /\ SameHistory(h, hist')
    BY <1>2, <1>4, <1>6, <2>2, SetHashCarries
  <2>4. InOrder(hist', 0)
    BY <1>5, <2>3, CarriesInOrder
  <2> QED BY <1>2, <1>4, <2>1, <2>3, <2>4 DEF SameHistory
<1>7. CASE ~(hist.initialized /\ hist.blocks <= 0)
  BY <1>2, <1>4, <1>5, <1>7 DEF SameHistory
<1> QED BY <1>6, <1>7

LEMMA HashTimeoutKeeps ==
  ASSUME InOrder(hist, kept), HashTimeout
  PROVE  InOrder(hist', kept')
<1> DEFINE blocks == hist.blocks - 1
           waits == hist.waits - 1
           h == Blocked(hist, hist.hashEvents, blocks, waits)
<1>1. /\ GoodHistory(hist) /\ hist \in HistoryFields /\ hist.hashEvents \in Nat
      /\ hist.blocks \in Int /\ hist.waits \in Nat
  BY HistoryTypes DEF InOrder, GoodHistory
<1>2. hist.waits > 0 /\ kept' = 0 /\ hist' = [hist EXCEPT !.waits = @ - 1, !.blocks = @ - 1]
  BY DEF HashTimeout
<1>3. hist' = h
  BY <1>1, <1>2 DEF Blocked, HistoryFields
<1>4. blocks \in Int /\ waits \in Nat
  BY <1>1, <1>2
<1> HIDE DEF blocks, waits
<1>5. /\ GoodHistory(h) /\ SameHistory(hist, h) /\ h.hashEvents = hist.hashEvents
      /\ h.asked = hist.asked
  BY <1>1, <1>4, BlocksKeep
<1> HIDE DEF h
<1> QED BY <1>2, <1>3, <1>5 DEF InOrder, Calm, SameHistory

----------------------------------------------------------------------------
(* The theorem                                                             *)

LEMMA HistoryStep ==
  ASSUME InOrder(hist, kept), HistoryNext
  PROVE  InOrder(hist', kept')
<1>1. CASE \E f \in Fingerprints : \E stored \in Stored(f) : LoadInHistory(f, stored)
  BY <1>1, LoadInHistoryKeeps
<1>2. CASE CloseInHistory \/ Reload
  BY <1>2, CloseInHistoryKeeps, ReloadKeeps
<1>3. CASE Back \/ Forward \/ NothingThere
  BY <1>3, BackForwardKeep
<1>4. CASE \E d \in Dests, named \in BOOLEAN : FollowLink(d, named)
  BY <1>4, FollowLinkKeeps
<1>5. CASE \E n \in 1..LastPage : GoToPageNumber(n) \/ TypeHash(n)
  BY <1>5, GoToPageNumberKeeps, TypeHashKeeps
<1>6. CASE \E place \in Places : ScrollTo(place)
  BY <1>6, ScrollToKeeps
<1>7. CASE \E step \in {-1, 1} : Traverse(step)
  BY <1>7, TraverseKeeps
<1>8. CASE hist.asked # 0 /\ Traverse(hist.asked)
  <2>1. hist.asked \in {-1, 1}
    BY <1>8, HistoryTypes DEF InOrder, GoodHistory
  <2> QED BY <1>8, <2>1, TraverseKeeps
<1>9. CASE UpdateViewarea \/ UpdateViewareaTimeout \/ FirstViewAgain
  BY <1>9, UpdateViewareaKeeps, UpdateViewareaTimeoutKeeps, FirstViewAgainKeeps
<1>10. CASE HashChange \/ HashTimeout
  BY <1>10, HashChangeKeeps, HashTimeoutKeeps
<1>11. CASE \E d \in Dests, named \in BOOLEAN : ResolveDestination(d, named)
  BY <1>11, ResolveDestinationKeeps
<1> QED
  BY <1>1, <1>2, <1>3, <1>4, <1>5, <1>6, <1>7, <1>8, <1>9, <1>10, <1>11
     DEF HistoryNext, HistoryWorks, Stored

\* The visits of the reader stay within the bound.
LEMMA VisitsStayBounded ==
  ASSUME visits \in 0..MaxVisits, [HistoryNext]_histVars
  PROVE  visits' \in 0..MaxVisits
<1>1. MaxVisits \in Nat
  BY HistoryAssumption
<1>2. Visit \/ visits' = visits
  BY DEF HistoryNext, HistoryWorks, histVars, LoadInHistory, CloseInHistory, Reload, Back, Forward,
         NothingThere, FollowLink, GoToPageNumber, TypeHash, ScrollTo, Traverse, UpdateViewarea,
         UpdateViewareaTimeout, FirstViewAgain, HashChange, HashTimeout, ResolveDestination
<1> QED BY <1>1, <1>2 DEF Visit

LEMMA HistoryInvHolds == HistorySpec => []HistoryInv
<1>1. HistoryInit => HistoryInv
  <2>1. HistoryInit => visits \in 0..MaxVisits
    BY HistoryAssumption DEF HistoryInit
  <2> QED BY <2>1, HistoryInitIsGood DEF HistoryInv
<1>2. HistoryInv /\ [HistoryNext]_histVars => HistoryInv'
  <2> SUFFICES ASSUME HistoryInv, [HistoryNext]_histVars PROVE HistoryInv'
    OBVIOUS
  <2>1. InOrder(hist', kept')
    <3>1. CASE HistoryNext
      BY <3>1, HistoryStep DEF HistoryInv
    <3>2. CASE UNCHANGED histVars
      <4>1. hist' = hist /\ kept' = kept
        BY <3>2 DEF histVars
      <4> QED BY <4>1 DEF HistoryInv
    <3> QED BY <3>1, <3>2
  <2>2. visits' \in 0..MaxVisits
    BY VisitsStayBounded DEF HistoryInv
  <2> QED BY <2>1, <2>2 DEF HistoryInv
<1> QED BY <1>1, <1>2, PTL DEF HistorySpec

\* The history of the viewer (class PDFHistory) knows the entry that it is at, its
\* entries are numbered in order, back() never leaves the viewer while the window
\* has shown one document, and a traversal that finds its destination at once
\* loses no entry, for any documents, destinations, pages and number of visits.
THEOREM HistoryCorrect == HistorySpec => []HistoryIsSound
<1>1. HistoryInv => HistoryIsSound
  <2> SUFFICES ASSUME HistoryInv PROVE HistoryIsSound
    OBVIOUS
  <2>1. /\ hist \in HistoryFields /\ visits \in 0..MaxVisits /\ kept \in Nat
        /\ GoodHistory(hist) /\ Calm(hist, kept)
        /\ ~hist.mixed /\ hist.asked = -1 => hist.cur > 1
    BY DEF HistoryInv, InOrder, GoodHistory
  <2>2. HistoryTypeOK /\ BackStaysInViewer
    BY <2>1 DEF HistoryTypeOK, BackStaysInViewer
  <2>3. InternalStateIsTheEntry
    BY <2>1 DEF InternalStateIsTheEntry, GoodHistory, Agrees, Likens
  <2>4. UidsIncrease
    BY <2>1 DEF UidsIncrease, GoodHistory, OneWindow
  <2>5. TraversalKeepsEntries
    <3>1. Len(hist.entries) \in Nat
      BY <2>1, HistoryTypes
    <3> QED BY <2>1, <3>1 DEF TraversalKeepsEntries, Calm
  <2> QED BY <2>2, <2>3, <2>4, <2>5 DEF HistoryIsSound
<1> QED BY <1>1, HistoryInvHolds, PTL

----------------------------------------------------------------------------
(* A way back                                                              *)

\* The pages that were last seen, and a step that leads back to them.
LastSeen(h) == h.position.first .. h.position.page

LeadsBack(h, g) == g.cur > h.cur /\ g.destination.dest # -1 =>
                     g.entries[g.cur - 1].destination.page \in LastSeen(h)

LEMMA PositionLeadsBack ==
  ASSUME NEW h, GoodHistory(h), h.initialized, IsValidState(h, Here(h), FALSE),
         h.position # NoDestination, h.destination.page # 0
  PROVE  LET g == PushCurrentPosition(h, FALSE)
         IN  /\ GoodHistory(g) /\ g.initialized
             /\ Here(g).destination.page \in LastSeen(h)
             /\ g.destination # NoDestination
             /\ g = h \/ g.destination = [h.position EXCEPT !.temporary = FALSE]
<1> DEFINE p == [h.position EXCEPT !.temporary = FALSE]
           old == h.destination
           e == Here(h).destination
           g == PushCurrentPosition(h, FALSE)
           inside == old.page \in p.first .. p.page
<1>1. /\ p.dest = -1 /\ p.page = h.position.page /\ p.first = h.position.first
      /\ p.hash = <<"at", <<p.first, p.page>>>> /\ p.page \in p.first .. p.page
      /\ p # NoDestination
  BY PositionIsLasting
<1>2. old # NoDestination
  BY DEF NoDestination
<1>3. e \in Lasting /\ Likens(old, e)
  <2>1. Likens(old, e)
    BY DEF GoodHistory, Agrees
  <2>2. e # NoDestination
    BY DEF IsValidState
  <2>3. Here(h) = h.entries[h.cur] /\ h.cur \in 1..Len(h.entries)
    BY DEF Here, GoodHistory, Arranged
  <2>4. e \in Lasting \cup {NoDestination}
    BY <2>3 DEF GoodHistory, Arranged, Written
  <2> QED BY <2>1, <2>2, <2>4
<1>4. e.page = old.page /\ e.hash = old.hash
  BY <1>3 DEF Likens
<1>5. g = TryPushCurrentPosition(h, FALSE)
  BY DEF PushCurrentPosition
<1>6. /\ GoodHistory(g) /\ g.initialized
      /\ g = h \/ \E r \in BOOLEAN : Leads(h, g, p, r)
  BY PushCurrentPositionKeeps
<1> HIDE DEF e, g, p
<1>7. CASE g # h
  <2>1. PICK r \in BOOLEAN : Leads(h, g, p, r)
    BY <1>6, <1>7
  <2>2. Here(g).destination = p /\ g.destination = p
    BY <2>1 DEF Leads, Wrote
  <2> QED BY <1>1, <1>6, <2>2 DEF g, p, LastSeen
<1>8. CASE g = h
  <2>1. \/ old.hash = p.hash \/ inside
        \/ g = PushOrReplaceState(h, p, TRUE) \/ g = PushOrReplaceState(h, p, inside)
    BY <1>2, <1>5, Zenon DEF TryPushCurrentPosition, p
  <2>2. CASE old.hash = p.hash
    <3>1. e.first = p.first /\ e.page = p.page
      BY <1>1, <1>3, <1>4, <2>2 DEF Lasting
    <3> QED BY <1>1, <1>2, <1>6, <1>8, <3>1 DEF e, g, LastSeen
  <2>3. CASE inside
    BY <1>1, <1>2, <1>4, <1>6, <1>8, <2>3 DEF e, g, LastSeen
  <2>4. ASSUME NEW force \in BOOLEAN, g = PushOrReplaceState(h, p, force)
        PROVE  e = p
    <3>1. p \in Lasting
      BY PositionIsLasting DEF p
    <3>2. Leads(h, g, p, force \/ h.destination = NoDestination)
      BY <2>4, <3>1, PushOrReplaceStateKeeps
    <3> QED BY <1>8, <3>2 DEF Leads, Wrote, e
  <2>5. CASE g = PushOrReplaceState(h, p, TRUE) \/ g = PushOrReplaceState(h, p, inside)
    <3>1. inside \in BOOLEAN
      OBVIOUS
    <3>2. e = p
      BY <2>4, <2>5, <3>1
    <3> QED BY <1>1, <1>2, <1>6, <1>8, <3>2 DEF e, g, LastSeen
  <2> QED BY <2>1, <2>2, <2>3, <2>5
<1> QED BY <1>7, <1>8 DEF g, p

\* What is pushed behind an entry that leads back leads back.
LEMMA PushLeadsBack ==
  ASSUME NEW h, GoodHistory(h), h.initialized, h.position # NoDestination,
         NEW g, GoodHistory(g), Here(g).destination.page \in LastSeen(h),
         g = h \/ g.destination = [h.position EXCEPT !.temporary = FALSE],
         NEW f, NEW l, NEW r \in BOOLEAN, f = g \/ Leads(g, f, l, r), r => g = h
  PROVE  LeadsBack(h, f)
<1>1. h.cur \in Nat /\ g.cur \in Nat /\ g.cur \in 1..Len(g.entries)
  BY GoodTypes
<1>2. g = h \/ g.destination.dest = -1
  BY PositionIsLasting
<1>3. CASE f = g
  BY <1>1, <1>2, <1>3 DEF LeadsBack
<1>4. CASE Leads(g, f, l, r) /\ r
  BY <1>1, <1>4 DEF Leads, Wrote, LeadsBack
<1>5. CASE Leads(g, f, l, r) /\ ~r
  <2>1. /\ f.cur = g.cur + 1 /\ Len(f.entries) = g.cur + 1
        /\ \A i \in 1..Len(f.entries) : i # f.cur => f.entries[i] = g.entries[i]
    BY <1>5 DEF Leads, Wrote
  <2>2. f.entries[g.cur] = g.entries[g.cur] /\ f.cur - 1 = g.cur
    BY <1>1, <2>1
  <2> QED BY <2>2 DEF LeadsBack, Here
<1> QED BY <1>3, <1>4, <1>5

LEMMA ScrollLeadsBack ==
  ASSUME NEW h, NEW f, GoodHistory(f), LeadsBack(h, f), NEW place \in Places
  PROVE  LeadsBack(h, ScrollIntoPlace(f, place))
BY ScrollCarries DEF LeadsBack, SameHistory

LEMMA ArriveLeadsBack ==
  ASSUME NEW h, GoodHistory(h), h.initialized, IsValidState(h, Here(h), FALSE),
         h.position # NoDestination, h.destination.page # 0,
         NEW d \in Dests, NEW named \in BOOLEAN
  PROVE  LeadsBack(h, Arrive(h, d, named, FALSE))
<1> DEFINE g == PushCurrentPosition(h, FALSE)
           l == LinkTo(d, named)
           f == Push(g, l.hash, d, FALSE)
           r == IsSame(g.destination, l.hash, d) \/ g.destination = NoDestination
<1>1. /\ GoodHistory(g) /\ g.initialized /\ Here(g).destination.page \in LastSeen(h)
      /\ g.destination # NoDestination
      /\ g = h \/ g.destination = [h.position EXCEPT !.temporary = FALSE]
  BY PositionLeadsBack
<1> HIDE DEF g
<1>2. l.hash = <<IF named THEN "name" ELSE "explicit", d>>
  BY DEF LinkTo
<1>3. f = g \/ Leads(g, f, l, r)
  BY <1>1, <1>2, PushKeeps
<1>4. r => g = h
  <2>1. ASSUME g.destination = [h.position EXCEPT !.temporary = FALSE]
        PROVE  ~r
    <3>1. /\ g.destination.dest = -1
          /\ g.destination.hash = <<"at", <<h.position.first, h.position.page>>>>
      <4> DEFINE p == [h.position EXCEPT !.temporary = FALSE]
      <4>1. /\ p.dest = -1 /\ p.page = h.position.page /\ p.first = h.position.first
            /\ p.hash = h.position.hash /\ h.position.hash = <<"at", <<p.first, p.page>>>>
        BY PositionIsLasting
      <4> HIDE DEF p
      <4> QED BY <2>1, <4>1 DEF p
    <3>2. -1 \notin Dests
      BY HistoryAssumption
    <3>3. l.hash # g.destination.hash /\ d # g.destination.dest
      BY <1>2, <3>1, <3>2
    <3> HIDE DEF l
    <3> QED BY <1>1, <3>3 DEF IsSame
  <2> QED BY <1>1, <2>1
<1>5. r \in BOOLEAN
  BY DEF IsSame
<1>6. Arrive(h, d, named, FALSE) = ScrollIntoPlace(f, <<DestPage[d], DestPage[d]>>)
  BY <1>2 DEF Arrive, ScrollPageIntoView, g
<1> HIDE DEF f, r, l
<1>7. LeadsBack(h, f)
  BY <1>1, <1>3, <1>4, <1>5, PushLeadsBack
<1>8. GoodHistory(f)
  BY <1>1, <1>3 DEF Leads
<1>9. <<DestPage[d], DestPage[d]>> \in Places
  BY PagesArePlaces, HistoryAssumption
<1> QED BY <1>6, <1>7, <1>8, <1>9, ScrollLeadsBack

LEMMA LinkLeadsBack ==
  ASSUME NEW h, GoodHistory(h), h.initialized, IsValidState(h, Here(h), FALSE),
         h.position # NoDestination, h.destination.page # 0,
         NEW d \in Dests, NEW named \in BOOLEAN
  PROVE  LeadsBack(h, GoToDestination(h, d, named, FALSE))
<1>1. CASE named \/ d \notin h.known
  <2> DEFINE g == [h EXCEPT !.resolving = @ \cup {<<d, named>>}]
  <2>1. GoToDestination(h, d, named, FALSE) = g
    BY <1>1 DEF GoToDestination
  <2>2. g.cur = h.cur /\ h.cur \in Nat
    BY GoodTypes DEF HistoryFields
  <2> HIDE DEF g
  <2>3. ~(g.cur > h.cur)
    BY <2>2
  <2> QED BY <2>1, <2>3 DEF LeadsBack
<1>2. CASE ~(named \/ d \notin h.known)
  <2>1. GoToDestination(h, d, named, FALSE) = Arrive(h, d, named, FALSE)
    BY <1>2 DEF GoToDestination
  <2> QED BY <2>1, ArriveLeadsBack
<1> QED BY <1>1, <1>2

LEMMA PageLeadsBack ==
  ASSUME NEW h, GoodHistory(h), h.initialized, IsValidState(h, Here(h), FALSE),
         h.position # NoDestination, h.destination.page # 0, NEW n \in 1..LastPage
  PROVE  LeadsBack(h, ScrollPageIntoView(PushPage(PushCurrentPosition(h, FALSE), n), n))
<1> DEFINE g == PushCurrentPosition(h, FALSE)
           l == [dest |-> 0, hash |-> <<"page", n>>, page |-> n, first |-> 0, temporary |-> FALSE]
           f == PushPage(g, n)
<1>1. /\ GoodHistory(g) /\ g.initialized /\ Here(g).destination.page \in LastSeen(h)
      /\ g.destination # NoDestination
      /\ g = h \/ g.destination = [h.position EXCEPT !.temporary = FALSE]
  BY PositionLeadsBack
<1> HIDE DEF g
<1>2. f = g \/ Leads(g, f, l, FALSE)
  <2>1. f = g \/ Leads(g, f, l, g.destination = NoDestination)
    BY <1>1, PushPageKeeps
  <2>2. (g.destination = NoDestination) = FALSE
    BY <1>1
  <2> QED BY <2>1, <2>2
<1> HIDE DEF f, l
<1>3. LeadsBack(h, f)
  BY <1>1, <1>2, PushLeadsBack
<1>4. GoodHistory(f)
  BY <1>1, <1>2 DEF Leads
<1> QED BY <1>3, <1>4, ScrollLeadsBack, PagesArePlaces DEF ScrollPageIntoView, f, g

LEMMA PageHideStays ==
  ASSUME NEW h, GoodHistory(h), h.initialized, h.destination # NoDestination
  PROVE  PageHide(h).cur = h.cur
<1>1. CASE h.destination.temporary /\ h.position # NoDestination
  <2> DEFINE p == [h.position EXCEPT !.temporary = FALSE]
  <2>1. PageHide(h) = PushOrReplaceState(h, p, TRUE)
    BY <1>1 DEF PageHide, TryPushCurrentPosition
  <2>2. p \in Lasting
    BY <1>1, PositionIsLasting
  <2> HIDE DEF p
  <2>3. Leads(h, PushOrReplaceState(h, p, TRUE), p, TRUE)
    <3>1. (TRUE \/ h.destination = NoDestination) = TRUE
      OBVIOUS
    <3> QED BY <2>2, <3>1, PushOrReplaceStateKeeps
  <2> QED BY <2>1, <2>3 DEF Leads, Wrote
<1>2. CASE ~(h.destination.temporary /\ h.position # NoDestination)
  <2>1. PageHide(h) = h
    BY <1>2 DEF PageHide, TryPushCurrentPosition
  <2> QED BY <2>1
<1> QED BY <1>1, <1>2

\* A traversal writes no entry.
LEMMA TraversalWritesNothing ==
  ASSUME NEW h0, GoodHistory(h0), h0.initialized, NEW there \in 1..Len(h0.entries),
         NEW pending \in {0, 1}, h0.entries[there].fingerprint # NotLoaded
  PROVE  PopState(Moved(h0, there, pending)).entries = h0.entries
<1> DEFINE state == h0.entries[there]
           e == state.destination
           at == At(h0, there, pending)
           g == PopState(Moved(h0, there, pending))
<1>1. h0 \in HistoryFields /\ Written(state)
  BY DEF GoodHistory, Arranged
<1>2. CASE ~IsValidState(h0, state, FALSE)
  <2>1. g = Heard(h0, there, pending)
    BY <1>1, <1>2, PopStateIs
  <2>2. Goes(h0, Heard(h0, there, pending), there, pending)
    BY <1>1, MovedIs
  <2> QED BY <2>1, <2>2 DEF Goes
<1>3. CASE IsValidState(h0, state, FALSE)
  <2>1. /\ e \in Lasting
        /\ g = IF e.dest > 0 THEN GoToDestination(at, e.dest, FALSE, TRUE)
               ELSE SetHash(at, e.hash, TRUE)
    BY <1>1, <1>3, PopStateIs
  <2>2. at \in HistoryFields /\ Reaches(h0, at, there, pending)
    BY <1>1, <2>1, AtIs
  <2>3. GoodHistory(at)
    BY <1>3, AtIsGood
  <2> HIDE DEF at, g
  <2>4. at.entries = h0.entries /\ at.destination = [e EXCEPT !.temporary = FALSE]
    BY <2>2 DEF Reaches
  <2> HIDE DEF e, state
  <2>5. /\ at.destination # NoDestination /\ at.destination.page # 0
        /\ at.destination.dest = e.dest
    <3>1. e \in Destinations
      BY <2>1, LastingCases
    <3>2. [e EXCEPT !.temporary = FALSE].dest = e.dest
      BY <3>1 DEF Destinations
    <3>3. [e EXCEPT !.temporary = FALSE] \in Lasting
      BY <2>1, UnmarkedDestination
    <3> QED BY <2>4, <3>2, <3>3, LastingCases
  <2>6. CASE e.dest > 0
    <3> DEFINE w == [at EXCEPT !.resolving = @ \cup {<<e.dest, FALSE>>}]
    <3>1. e.dest \in Dests
      BY <2>1, <2>6, LastingCases
    <3>2. w.entries = at.entries
      BY <2>2 DEF HistoryFields
    <3>3. Arrive(at, e.dest, FALSE, TRUE) = ScrollIntoPlace(at, <<DestPage[e.dest], DestPage[e.dest]>>)
      BY <2>5, ArriveAgain
    <3>4. <<DestPage[e.dest], DestPage[e.dest]>> \in Places
      BY <3>1, PagesArePlaces, HistoryAssumption
    <3>5. ScrollIntoPlace(at, <<DestPage[e.dest], DestPage[e.dest]>>).entries = at.entries
      BY <2>3, <3>4, ScrollCarries DEF SameHistory
    <3>6. g \in {w, Arrive(at, e.dest, FALSE, TRUE)}
      BY <2>1, <2>6 DEF GoToDestination
    <3> HIDE DEF w
    <3> QED BY <2>4, <3>2, <3>3, <3>5, <3>6 DEF g
  <2>7. CASE ~(e.dest > 0)
    <3>1. e.dest \notin Dests
      BY <2>1, <2>7, LastingCases
    <3>2. SetHash(at, e.hash, TRUE) = ScrollIntoPlace(at, Seen(e)) /\ Seen(e) \in Places
      BY <2>1, <3>1, SetLastingHash
    <3>3. ScrollIntoPlace(at, Seen(e)).entries = at.entries
      BY <2>3, <3>2, ScrollCarries DEF SameHistory
    <3> QED BY <2>1, <2>4, <2>7, <3>2, <3>3 DEF g
  <2> QED BY <2>6, <2>7
<1> QED BY <1>2, <1>3

\* Links, pages gone to and destinations that the worker has found lead back; what
\* else a step writes is in the place of the present entry, or is no link.
LEMMA StepLeadsBack ==
  ASSUME InOrder(hist, kept), HistoryNext, hist'.cur > hist.cur, hist'.entries # hist.entries,
         IsValidState(hist, Here(hist), FALSE), hist'.destination.dest # -1,
         hist.position # NoDestination, hist.destination.page # 0
  PROVE  hist'.entries[hist'.cur - 1].destination.page \in LastSeen(hist)
<1>1. /\ GoodHistory(hist) /\ hist \in HistoryFields /\ hist.cur \in Nat
      /\ hist.cur \in 1..Len(hist.entries) /\ hist.destination # NoDestination
  BY GoodTypes DEF InOrder, NoDestination
<1>2. ASSUME NEW f \in Fingerprints, NEW stored \in Stored(f), LoadInHistory(f, stored)
      PROVE  FALSE
  BY <1>1, <1>2, LoadInHistoryKeeps
<1>3. ASSUME CloseInHistory \/ Reload PROVE FALSE
  <2> DEFINE h == PageHide(hist)
  <2>1. hist.initialized /\ h.cur = hist.cur /\ h \in HistoryFields
    <3>1. hist.initialized
      BY <1>3 DEF CloseInHistory, Reload
    <3>2. GoodHistory(h)
      BY <1>1, <3>1, PageHideCarries DEF Carries
    <3> QED BY <1>1, <3>1, <3>2, PageHideStays DEF GoodHistory
  <2> HIDE DEF h
  <2>2. CASE CloseInHistory
    <3>1. hist' = [h EXCEPT !.initialized = FALSE, !.timeout = FALSE, !.resolving = {}]
      BY <2>1, <2>2 DEF CloseInHistory, ResetHistory, h
    <3>2. hist'.cur = h.cur
      BY <2>1, <3>1 DEF HistoryFields
    <3> QED BY <1>1, <2>1, <3>2
  <2>3. CASE Reload
    <3>1. hist' = [NewWindow(h.entries, h.cur, TRUE) EXCEPT !.mixed = h.mixed]
      BY <2>3 DEF Reload, h
    <3>2. hist'.cur = h.cur
      BY <3>1 DEF NewWindow
    <3> QED BY <1>1, <2>1, <3>2
  <2> QED BY <1>3, <2>2, <2>3
<1>4. ASSUME Back \/ Forward \/ NothingThere PROVE FALSE
  BY <1>1, <1>4 DEF Back, Forward, NothingThere, HistoryFields
<1>5. ASSUME NEW d \in Dests, NEW named \in BOOLEAN, FollowLink(d, named)
      PROVE  LeadsBack(hist, hist')
  BY <1>1, <1>5, LinkLeadsBack DEF FollowLink
<1>6. ASSUME NEW n \in 1..LastPage, GoToPageNumber(n)
      PROVE  LeadsBack(hist, hist')
  BY <1>1, <1>6, PageLeadsBack DEF GoToPageNumber
<1>7. ASSUME NEW n \in 1..LastPage, TypeHash(n) PROVE FALSE
  BY <1>7, TypeHashKeeps
<1>8. ASSUME NEW place \in Places, ScrollTo(place) PROVE FALSE
  BY <1>1, <1>8 DEF ScrollTo, HistoryFields
<1>9. ASSUME NEW step \in {-1, 1}, Traverse(step) PROVE FALSE
  <2> DEFINE there == hist.cur + step
             state == hist.entries[there]
             pending == IF state.url # Here(hist).url THEN 1 ELSE 0
             m == Moved(hist, there, pending)
  <2>1. hist' = PopState(m) /\ there \in 1..Len(hist.entries) /\ pending \in {0, 1}
    BY <1>1, <1>9, TraverseIs
  <2>2. Len(hist.entries) # 1
    BY <1>1, <1>9, TraverseIs
  <2>3. state.fingerprint # NotLoaded
    BY <1>1, <2>1, <2>2 DEF GoodHistory, Arranged
  <2> HIDE DEF there, pending
  <2>4. m \in HistoryFields /\ Goes(hist, m, there, pending)
    BY <1>1, <2>1, MovedIs
  <2>5. CASE ~hist.initialized
    <3>1. ~m.initialized /\ m.entries = hist.entries
      BY <2>4, <2>5 DEF Goes
    <3> HIDE DEF m
    <3>2. hist' = m
      BY <2>1, <2>4, <3>1, PopStateWhenClosed
    <3> QED BY <3>1, <3>2
  <2>6. CASE hist.initialized
    <3>1. hist'.entries = hist.entries
      BY <1>1, <2>1, <2>3, <2>6, TraversalWritesNothing
    <3> QED BY <3>1
  <2> QED BY <1>1, <2>5, <2>6
<1>10. ASSUME UpdateViewarea PROVE FALSE
  BY <1>1, <1>10 DEF UpdateViewarea, HistoryFields
<1>11. ASSUME UpdateViewareaTimeout PROVE FALSE
  <2> DEFINE f == TryPushCurrentPosition(hist, TRUE)
             p == [hist.position EXCEPT !.temporary = TRUE]
  <2>1. hist.initialized /\ hist' = [f EXCEPT !.timeout = FALSE]
    BY <1>1, <1>11 DEF UpdateViewareaTimeout, GoodHistory, Arranged
  <2>2. f = hist \/ \E r \in BOOLEAN : Leads(hist, f, p, r)
    BY <1>1, <2>1, TryPushKeeps
  <2>3. p.dest = -1
    BY <1>1, PositionIsLasting
  <2> HIDE DEF f, p
  <2>4. f \in HistoryFields
    BY <1>1, <2>2 DEF Leads, GoodHistory
  <2>5. hist'.cur = f.cur /\ hist'.destination = f.destination
    BY <2>1, <2>4 DEF HistoryFields
  <2>6. CASE f = hist
    BY <1>1, <2>5, <2>6
  <2>7. CASE \E r \in BOOLEAN : Leads(hist, f, p, r)
    BY <2>3, <2>5, <2>7 DEF Leads
  <2> QED BY <2>2, <2>6, <2>7
<1>12. ASSUME HashChange PROVE FALSE
  BY <1>1, <1>12, HashChangeKeeps
<1>13. ASSUME HashTimeout PROVE FALSE
  BY <1>1, <1>13 DEF HashTimeout, HistoryFields
<1>14. ASSUME NEW d \in Dests, NEW named \in BOOLEAN, ResolveDestination(d, named)
       PROVE  LeadsBack(hist, hist')
  <2> DEFINE g == [hist EXCEPT !.resolving = @ \ {<<d, named>>}, !.known = @ \cup {d}]
  <2>1. hist' = Arrive(g, d, named, FALSE)
    BY <1>14 DEF ResolveDestination
  <2>2. Carries(hist, g) /\ SameHistory(hist, g) /\ g.position = hist.position /\ g.initialized
    BY <1>1, <1>14, ResolvedIs
  <2> HIDE DEF g
  <2>3. Here(g) = Here(hist) /\ GoodHistory(g)
    BY <2>2 DEF Here, SameHistory, Carries
  <2>4. IsValidState(g, Here(g), FALSE) /\ g.position # NoDestination /\ g.destination.page # 0
    BY <2>2, <2>3 DEF IsValidState, SameHistory
  <2>5. LeadsBack(g, hist')
    BY <2>1, <2>2, <2>3, <2>4, ArriveLeadsBack
  <2> QED BY <2>2, <2>5 DEF LeadsBack, LastSeen, SameHistory
<1>15. ASSUME hist.asked # 0, Traverse(hist.asked) PROVE FALSE
  <2>1. hist.asked \in {-1, 1}
    BY <1>1, <1>15, HistoryTypes
  <2> QED BY <1>9, <1>15, <2>1
<1>16. ASSUME FirstViewAgain PROVE LeadsBack(hist, hist')
  <2>1. PICK g : SetsView(hist, g)
    BY <1>1, <1>16, FirstViewAgainIs
  <2>2. hist.initialized
    BY <1>1, <1>16, FirstViewAgainIs
  <2>3. /\ Here(g) = Here(hist) /\ GoodHistory(g) /\ g.initialized /\ g.cur = hist.cur
        /\ SameHistory(hist, g) /\ g.position = hist.position
    BY <2>1, <2>2 DEF SetsView, Here, SameHistory, Carries
  <2>4. IsValidState(g, Here(g), FALSE) /\ g.position # NoDestination /\ g.destination.page # 0
    BY <2>3 DEF IsValidState, SameHistory
  <2>5. CASE \E place \in Places : hist' = ScrollIntoPlace(g, place)
    <3>1. hist'.cur = hist.cur
      BY <2>3, <2>5, ScrollCarries DEF SameHistory
    <3> QED BY <1>1, <3>1
  <2>6. CASE \E d \in Dests, named \in BOOLEAN : hist' = GoToDestination(g, d, named, FALSE)
    <3>1. LeadsBack(g, hist')
      BY <2>3, <2>4, <2>6, LinkLeadsBack
    <3> QED BY <2>3, <3>1 DEF LeadsBack, LastSeen
  <2>7. PICK hash \in Hashes \ {NoHash} : hist' = SetHash(g, hash, FALSE)
    BY <2>1 DEF SetsView
  <2> QED BY <2>5, <2>6, <2>7, HashCases
<1>17. LeadsBack(hist, hist')
  BY <1>2, <1>3, <1>4, <1>5, <1>6, <1>7, <1>8, <1>9, <1>10, <1>11, <1>12, <1>13, <1>14, <1>15, <1>16
     DEF HistoryNext, HistoryWorks, Stored
<1> QED BY <1>17 DEF LeadsBack

\* A link that is followed leaves a way back to the pages that were last seen (the
\* method pushCurrentPosition before push), for any documents and destinations.
THEOREM WayBackCorrect == HistorySpec => LinksLeaveAWayBack
<1> DEFINE Step == hist'.cur > hist.cur /\ hist'.entries # hist.entries
                   /\ IsValidState(hist, Here(hist), FALSE)
                   /\ hist'.destination.dest # -1 /\ hist.position # NoDestination
                   /\ hist.destination.page # 0 =>
                     hist'.entries[hist'.cur - 1].destination.page
                       \in hist.position.first .. hist.position.page
<1>1. HistoryInv /\ [HistoryNext]_histVars => [Step]_histVars
  <2> SUFFICES ASSUME HistoryInv, HistoryNext PROVE Step
    OBVIOUS
  <2> QED BY StepLeadsBack DEF HistoryInv, LastSeen
<1> QED BY <1>1, HistoryInvHolds, PTL DEF HistorySpec, LinksLeaveAWayBack


----------------------------------------------------------------------------
(* Steps that are done again and again                                     *)

\* A set of numbers that holds 0, and with a number the next one, holds them all.
LEMMA Climb ==
  ASSUME NEW n \in Nat, NEW G, 0 \in G, \A k \in 0 .. n - 1 : k \in G => k + 1 \in G
  PROVE  \A k \in 0 .. n : k \in G
<1> DEFINE bad == {k \in 0 .. n : k \notin G}
<1> SUFFICES bad = {}
  OBVIOUS
<1> SUFFICES ASSUME bad # {} PROVE FALSE
  OBVIOUS
<1>1. bad \in SUBSET Nat
  OBVIOUS
<1>2. PICK m \in bad : \A q \in bad : m <= q
  <2> HIDE DEF bad
  <2> QED BY <1>1, Least
<1>3. m # 0 /\ m \in 0 .. n /\ m \notin G
  BY <1>2
<1>4. m - 1 \notin bad /\ m - 1 \in 0 .. n - 1
  BY <1>2, <1>3
<1> QED BY <1>3, <1>4

\* g is what a function F of the number of a step and of what is there makes of c.
Runs(n, S, c, F, g) ==
  /\ g \in [0 .. n -> S]
  /\ g = [k \in 0 .. n |-> IF k = 0 THEN c ELSE F[<<k - 1, g[k - 1]>>]]

\* A step that stays in a set can be done any number of times.
LEMMA Iteration ==
  ASSUME NEW n \in Nat, NEW S, NEW c \in S, NEW F \in [(0 .. n - 1) \X S -> S]
  PROVE  \E g : Runs(n, S, c, F, g)
<1> DEFINE Does(m, g) == g[0] = c /\ \A k \in 0 .. m - 1 : g[k + 1] = F[<<k, g[k]>>]
           G == {m \in 0 .. n : \E g \in [0 .. m -> S] : Does(m, g)}
<1>1. 0 \in G
  <2> [k \in 0 .. 0 |-> c] \in [0 .. 0 -> S] /\ Does(0, [k \in 0 .. 0 |-> c])
    OBVIOUS
  <2> HIDE DEF Does
  <2> QED OBVIOUS
<1>2. ASSUME NEW m \in 0 .. n - 1, m \in G
      PROVE  m + 1 \in G
  <2>1. PICK g \in [0 .. m -> S] : Does(m, g)
    BY <1>2
  <2> DEFINE h == [k \in 0 .. m + 1 |-> IF k <= m THEN g[k] ELSE F[<<m, g[m]>>]]
  <2>2. h \in [0 .. m + 1 -> S]
    <3>1. g[m] \in S /\ <<m, g[m]>> \in (0 .. n - 1) \X S
      OBVIOUS
    <3>2. F[<<m, g[m]>>] \in S
      BY <3>1
    <3> QED BY <3>2
  <2>3. h[0] = c
    BY <2>1
  <2>4. ASSUME NEW k \in 0 .. m PROVE h[k + 1] = F[<<k, h[k]>>]
    <3>1. h[k] = g[k] /\ k + 1 \in 0 .. m + 1
      OBVIOUS
    <3>2. CASE k = m
      <4>1. h[k + 1] = F[<<m, g[m]>>]
        BY <3>1, <3>2
      <4> QED BY <4>1, <3>1, <3>2
    <3>3. CASE k # m
      <4>1. k \in 0 .. m - 1 /\ h[k + 1] = g[k + 1]
        BY <3>1, <3>3
      <4> QED BY <4>1, <3>1, <2>1
    <3> QED BY <3>2, <3>3
  <2>5. Does(m + 1, h)
    <3> HIDE DEF h
    <3> QED BY <2>3, <2>4
  <2> HIDE DEF h, Does
  <2> QED BY <2>2, <2>5
<1> HIDE DEF G
<1>3. \A k \in 0 .. n : k \in G
  BY <1>1, <1>2, Climb
<1>4. n \in G
  BY <1>3
<1> HIDE DEF Does
<1>7. PICK g \in [0 .. n -> S] : Does(n, g)
  BY <1>4 DEF G
<1> USE DEF Does
<1> DEFINE h == [k \in 0 .. n |-> IF k = 0 THEN c ELSE F[<<k - 1, g[k - 1]>>]]
<1>5. ASSUME NEW k \in 0 .. n PROVE g[k] = h[k]
  <2>1. CASE k = 0
    BY <2>1, <1>7
  <2>2. CASE k # 0
    <3>1. k - 1 \in 0 .. n - 1 /\ (k - 1) + 1 = k
      BY <2>2
    <3> QED BY <3>1, <2>2, <1>7
  <2> QED BY <2>1, <2>2
<1>6. g = h
  BY <1>5
<1> HIDE DEF h
<1>8. g = [k \in 0 .. n |-> IF k = 0 THEN c ELSE F[<<k - 1, g[k - 1]>>]]
  BY <1>6 DEF h
<1> QED BY <1>8 DEF Runs


----------------------------------------------------------------------------
(* The matches of the pages, added up                                      *)

Value(pm, i) == IF pm[i] = NoIndex THEN 0 ELSE pm[i]

LEMMA Single == \A x : (CHOOSE d \in {x} : TRUE) = x
OBVIOUS

\* MatchesBefore is a sum, page by page.
LEMMA SumOfPages ==
  ASSUME NEW pm \in Matches
  PROVE  /\ MatchesBefore(pm) \in [0 .. PageTotal -> Nat]
         /\ MatchesBefore(pm)[0] = 0
         /\ \A i \in PageIdx : MatchesBefore(pm)[i + 1] = MatchesBefore(pm)[i] + Value(pm, i)
<1> USE FindAssumption DEF PageIdx
<1> DEFINE Step(e, k) == IF pm[k] = NoIndex THEN e ELSE e + pm[k]
           F == [x \in (0 .. PageTotal - 1) \X Nat |-> x[2] + Value(pm, x[1])]
           Def(f) == f = [k \in 0 .. PageTotal |-> IF k = 0 THEN 0 ELSE Step(f[k - 1], k - 1)]
           Raw(f) == f = [k \in 0 .. PageTotal |-> IF k = 0 THEN 0
                       ELSE CHOOSE d \in {Step(e, k - 1) : e \in {f[k - 1]}} : TRUE]
<1>1. \A i \in PageIdx : Value(pm, i) \in Nat
  BY DEF Matches, Indices, Value, NoIndex
<1>2. F \in [(0 .. PageTotal - 1) \X Nat -> Nat]
  <2> HIDE DEF Value
  <2> QED BY <1>1
<1>3. PICK g : Runs(PageTotal, Nat, 0, F, g)
  <2>1. PageTotal \in Nat /\ 0 \in Nat
    OBVIOUS
  <2> HIDE DEF F
  <2> QED BY <2>1, <1>2, Iteration
<1>4. Def(g)
  <2>1. ASSUME NEW k \in 0 .. PageTotal, k # 0
        PROVE  Step(g[k - 1], k - 1) = F[<<k - 1, g[k - 1]>>]
    <3>1. k - 1 \in 0 .. PageTotal - 1 /\ g[k - 1] \in Nat
      <4> HIDE DEF F
      <4>1. g \in [0 .. PageTotal -> Nat]
        BY <1>3 DEF Runs
      <4> QED BY <2>1, <4>1
    <3> QED BY <3>1 DEF Value, Matches, Indices
  <2> HIDE DEF F, Step
  <2> QED BY <2>1, <1>3 DEF Runs
<1>5. \A f : Raw(f) <=> Def(f)
  <2>1. \A f, k : (CHOOSE d \in {Step(e, k - 1) : e \in {f[k - 1]}} : TRUE) = Step(f[k - 1], k - 1)
    <3> HIDE DEF Step
    <3> QED OBVIOUS
  <2> HIDE DEF Step
  <2> QED BY <2>1, Zenon
<1>6. MatchesBefore(pm) = CHOOSE f : Raw(f)
  BY DEF MatchesBefore, Repeat
<1> DEFINE s == MatchesBefore(pm)
<1>7. Def(s)
  <2> HIDE DEF Def, Raw, s
  <2> QED BY <1>4, <1>5, <1>6, Zenon DEF s
<1> HIDE DEF s, F, Raw
<1>8. s[0] = 0
  BY <1>7
<1>9. ASSUME NEW i \in PageIdx PROVE s[i + 1] = IF pm[i] = NoIndex THEN s[i] ELSE s[i] + pm[i]
  BY <1>7
<1>10. \A k \in 0 .. PageTotal : s[k] \in Nat
  <2> DEFINE G == {k \in 0 .. PageTotal : s[k] \in Nat}
  <2>1. 0 \in G /\ \A k \in 0 .. PageTotal - 1 : k \in G => k + 1 \in G
    <3> HIDE DEF Def
    <3> QED BY <1>8, <1>9 DEF Matches, Indices
  <2> HIDE DEF G
  <2>2. \A k \in 0 .. PageTotal : k \in G
    BY <2>1, Climb
  <2> QED BY <2>2 DEF G
<1>11. s \in [0 .. PageTotal -> Nat]
  <2>1. s = [k \in 0 .. PageTotal |-> s[k]]
    BY <1>7
  <2> HIDE DEF Def
  <2> QED BY <2>1, <1>10
<1> HIDE DEF Def
<1>12. \A i \in PageIdx : s[i + 1] = s[i] + Value(pm, i)
  BY <1>9, <1>11 DEF Value
<1> QED BY <1>8, <1>11, <1>12 DEF s

\* The sum does not fall from page to page.
LEMMA SumGrows ==
  ASSUME NEW pm \in Matches, NEW j \in 0 .. PageTotal
  PROVE  \A k \in 0 .. PageTotal : j <= k => MatchesBefore(pm)[j] <= MatchesBefore(pm)[k]
<1> USE FindAssumption DEF PageIdx
<1> DEFINE s == MatchesBefore(pm)
           G == {k \in 0 .. PageTotal : j <= k => s[j] <= s[k]}
<1>1. s \in [0 .. PageTotal -> Nat] /\ \A i \in PageIdx : s[i + 1] = s[i] + Value(pm, i)
  BY SumOfPages
<1>2. \A i \in PageIdx : Value(pm, i) \in Nat
  BY DEF Value, Matches, Indices
<1> HIDE DEF s
<1>3. 0 \in G
  BY <1>1
<1>4. ASSUME NEW k \in 0 .. PageTotal - 1, k \in G PROVE k + 1 \in G
  <2>1. s[k + 1] = s[k] + Value(pm, k) /\ Value(pm, k) \in Nat /\ s[k] \in Nat /\ s[j] \in Nat
    BY <1>1, <1>2
  <2>2. j <= k + 1 => s[j] <= s[k + 1]
    BY <2>1, <1>4
  <2> QED BY <2>2
<1> HIDE DEF G
<1>5. \A k \in 0 .. PageTotal : k \in G
  BY <1>3, <1>4, Climb
<1> QED BY <1>5 DEF G, s

\* A page has no more matches than there are in all.
LEMMA SumHolds ==
  ASSUME NEW pm \in Matches, NEW i \in PageIdx
  PROVE  MatchesBefore(pm)[i] + Value(pm, i) <= MatchesBefore(pm)[PageTotal]
<1> USE FindAssumption DEF PageIdx
<1>1. MatchesBefore(pm)[i + 1] <= MatchesBefore(pm)[PageTotal]
  BY SumGrows
<1> QED BY <1>1, SumOfPages

\* Pages that have nothing add nothing.
LEMMA SumOfNone ==
  ASSUME NEW pm \in Matches, \A i \in PageIdx : pm[i] \in {0, NoIndex}
  PROVE  MatchesBefore(pm)[PageTotal] = 0
<1> USE FindAssumption DEF PageIdx
<1> DEFINE s == MatchesBefore(pm)
           G == {k \in 0 .. PageTotal : s[k] = 0}
<1>1. s[0] = 0 /\ \A i \in PageIdx : s[i + 1] = s[i] + Value(pm, i)
  BY SumOfPages
<1>2. \A i \in PageIdx : Value(pm, i) = 0
  BY DEF Value, NoIndex
<1> HIDE DEF s
<1>3. 0 \in G /\ \A k \in 0 .. PageTotal - 1 : k \in G => k + 1 \in G
  BY <1>1, <1>2
<1> HIDE DEF G
<1>4. \A k \in 0 .. PageTotal : k \in G
  BY <1>3, Climb
<1> QED BY <1>4 DEF G, s

\* The answer of a page that had none adds its matches to the sum.
LEMMA SumOfAnswer ==
  ASSUME NEW pm \in Matches, NEW i \in PageIdx, pm[i] = NoIndex, NEW n \in Nat
  PROVE  /\ [pm EXCEPT ![i] = n] \in Matches
         /\ MatchesBefore([pm EXCEPT ![i] = n])[PageTotal] = MatchesBefore(pm)[PageTotal] + n
         /\ n = 0 => \A k \in 0 .. PageTotal :
                        MatchesBefore([pm EXCEPT ![i] = n])[k] = MatchesBefore(pm)[k]
<1> USE FindAssumption DEF PageIdx
<1> DEFINE qm == [pm EXCEPT ![i] = n]
           s == MatchesBefore(pm)
           t == MatchesBefore(qm)
           G == {k \in 0 .. PageTotal : t[k] = s[k] + (IF k > i THEN n ELSE 0)}
<1>1. qm \in Matches
  BY DEF Matches, Indices
<1>2. /\ s \in [0 .. PageTotal -> Nat] /\ s[0] = 0
      /\ \A k \in PageIdx : s[k + 1] = s[k] + Value(pm, k)
  BY SumOfPages
<1>3. /\ t \in [0 .. PageTotal -> Nat] /\ t[0] = 0
      /\ \A k \in PageIdx : t[k + 1] = t[k] + Value(qm, k)
  <2> HIDE DEF qm
  <2> QED BY <1>1, SumOfPages
<1>4. \A k \in PageIdx : Value(pm, k) \in Nat /\ Value(qm, k) = IF k = i THEN n ELSE Value(pm, k)
  BY DEF Value, Matches, Indices, NoIndex
<1>5. Value(pm, i) = 0
  BY DEF Value
<1> HIDE DEF s, t, qm
<1>6. 0 \in G
  BY <1>2, <1>3
<1>7. ASSUME NEW k \in 0 .. PageTotal - 1, k \in G PROVE k + 1 \in G
  <2>1. s[k + 1] = s[k] + Value(pm, k) /\ t[k + 1] = t[k] + Value(qm, k) /\ s[k] \in Nat /\ t[k] \in Nat
    BY <1>2, <1>3
  <2>2. t[k + 1] = s[k + 1] + (IF k + 1 > i THEN n ELSE 0)
    BY <2>1, <1>4, <1>5, <1>7
  <2> QED BY <2>2
<1> HIDE DEF G
<1>8. \A k \in 0 .. PageTotal : k \in G
  BY <1>6, <1>7, Climb
<1>9. \A k \in 0 .. PageTotal : t[k] = s[k] + (IF k > i THEN n ELSE 0)
  BY <1>8 DEF G
<1>10. t[PageTotal] = s[PageTotal] + n
  BY <1>9
<1>11. n = 0 => \A k \in 0 .. PageTotal : t[k] = s[k]
  <2> SUFFICES ASSUME n = 0, NEW k \in 0 .. PageTotal PROVE t[k] = s[k]
    OBVIOUS
  <2>1. t[k] = s[k] + (IF k > i THEN n ELSE 0) /\ s[k] \in Nat
    BY <1>9, <1>2
  <2> QED BY <2>1
<1> QED BY <1>1, <1>10, <1>11 DEF s, t, qm

----------------------------------------------------------------------------
(* What each step leaves alone                                             *)

\* What was asked for, and what there is to search.
SameRequest(c, d) ==
  /\ d.document = c.document /\ d.state = c.state /\ d.dirtyMatch = c.dirtyMatch
  /\ d.timeout = c.timeout /\ d.extracting = c.extracting /\ d.extracted = c.extracted
  /\ d.failed = c.failed /\ d.opened = c.opened /\ d.waiting = c.waiting /\ d.fields = c.fields

SameMatches(c, d) ==
  d.pageMatches = c.pageMatches /\ d.total = c.total /\ d.callbacks = c.callbacks

SamePlace(c, d) ==
  /\ d.offset = c.offset /\ d.selected = c.selected
  /\ d.pagesToSearch = c.pagesToSearch /\ d.resume = c.resume

SameMarks(c, d) ==
  /\ d.highlightMatches = c.highlightMatches /\ d.turned = c.turned

SameBar(c, d) == d.status = c.status /\ d.count = c.count

\* The layers of some pages are drawn again, those that are there.
Redrawn(c, d, pages) ==
  \A i \in LayerPages :
    d.layers[i] = IF i \in pages /\ c.layers[i] # NoLayer THEN Rendered(c, i) ELSE c.layers[i]

LEMMA FieldTypes ==
  ASSUME NEW c \in FindFields
  PROVE  /\ c.pageMatches \in Matches /\ c.total \in Nat /\ c.pagesToSearch \in Int
         /\ c.selected \in MatchPlaces /\ c.selected.page \in PageIndices /\ c.selected.match \in Indices
         /\ c.offset \in Offsets /\ c.offset.page \in PageIndices /\ c.offset.match \in Indices
         /\ c.offset.wrapped \in BOOLEAN /\ c.resume \in PageIndices
         /\ c.callbacks \in [PageIdx -> Nat] /\ c.extracted \in 0 .. PageTotal
         /\ c.failed \in SUBSET PageIdx /\ c.layers \in Layers /\ c.page \in PageIdx
         /\ c.state \in FindStates /\ c.fields \in BarFields /\ c.waiting \in Seq(Asks)
<1>1. c.pageMatches \in Matches /\ c.total \in Nat /\ c.pagesToSearch \in Int /\ c.resume \in PageIndices
  BY DEF FindFields
<1>2. c.selected \in MatchPlaces /\ c.offset \in Offsets
  BY DEF FindFields
<1>3. /\ c.callbacks \in [PageIdx -> Nat] /\ c.extracted \in 0 .. PageTotal
      /\ c.failed \in SUBSET PageIdx /\ c.layers \in Layers /\ c.page \in PageIdx
  BY DEF FindFields
<1>4. c.state \in FindStates /\ c.fields \in BarFields /\ c.waiting \in Seq(Asks)
  BY DEF FindFields
<1>5. c.selected.page \in PageIndices /\ c.selected.match \in Indices
  BY <1>2 DEF MatchPlaces
<1>6. c.offset.page \in PageIndices /\ c.offset.match \in Indices /\ c.offset.wrapped \in BOOLEAN
  BY <1>2 DEF Offsets
<1> QED BY <1>1, <1>2, <1>3, <1>4, <1>5, <1>6

LEMMA TypeOfRendered ==
  ASSUME NEW c \in FindFields, NEW i \in PageIdx
  PROVE  Rendered(c, i) \in SUBSET (Indices \X BOOLEAN)
<1>1. c.selected.match \in Indices /\ Computed(c, i) \in Nat
  BY FieldTypes DEF Computed, Matches, Indices, NoIndex
<1> DEFINE sel == IF c.selected.page = i THEN c.selected.match ELSE NoIndex
           drawn == IF c.state.highlightAll THEN 0 .. Computed(c, i) - 1 ELSE {sel} \ {NoIndex}
<1>2. drawn \subseteq Indices
  BY <1>1 DEF Indices, NoIndex
<1> HIDE DEF drawn
<1>3. {<<k, k = sel>> : k \in drawn} \in SUBSET (Indices \X BOOLEAN)
  <2>1. \A k : (k = sel) \in BOOLEAN
    OBVIOUS
  <2>2. \A k \in drawn : <<k, k = sel>> \in Indices \X BOOLEAN
    BY <1>2, <2>1
  <2> HIDE DEF sel
  <2> QED BY <2>2, Zenon
<1>4. Rendered(c, i) = IF c.highlightMatches /\ Computed(c, i) > 0 THEN {<<k, k = sel>> : k \in drawn} ELSE {}
  BY DEF Rendered, drawn
<1> QED BY <1>3, <1>4

LEMMA RenderedSame ==
  ASSUME NEW c, NEW d, NEW i, d.state = c.state, d.highlightMatches = c.highlightMatches,
         d.selected = c.selected, d.pageMatches = c.pageMatches
  PROVE  Rendered(d, i) = Rendered(c, i)
BY DEF Rendered, Computed

LEMMA UpdateMatchesFields ==
  ASSUME NEW c \in FindFields, NEW pages \in SUBSET PageIdx, NEW d, d = UpdateMatches(c, pages)
  PROVE  /\ d \in FindFields
         /\ SameRequest(c, d) /\ SameMatches(c, d) /\ SamePlace(c, d) /\ SameMarks(c, d) /\ SameBar(c, d)
         /\ d.page = c.page /\ d.undrawn = c.undrawn
         /\ Redrawn(c, d, pages)
<1> DEFINE shown == {i \in pages \cap LayerPages : c.layers[i] # NoLayer}
           e == ScrollMatchIntoView(c, shown)
           layers == [i \in LayerPages |-> IF i \in shown THEN Rendered(c, i) ELSE c.layers[i]]
<1> USE FindAssumption
<1>1. e = [c EXCEPT !.scrollMatches = e.scrollMatches] /\ e.scrollMatches \in BOOLEAN
  <2> DEFINE b == ~\E i \in shown : \E m \in Rendered(c, i) : m[2]
  <2>1. b \in BOOLEAN
    OBVIOUS
  <2> HIDE DEF b
  <2>2. e = [c EXCEPT !.scrollMatches = c.scrollMatches /\ b]
    BY DEF ScrollMatchIntoView, b
  <2>3. (c.scrollMatches /\ b) \in BOOLEAN
    <3>1. c.scrollMatches \in BOOLEAN
      BY DEF FindFields
    <3> QED BY <2>1, <3>1
  <2> HIDE DEF e
  <2> QED BY <2>2, <2>3 DEF FindFields
<1>2. layers \in Layers
  <2>1. \A i \in LayerPages : Rendered(c, i) \in SUBSET (Indices \X BOOLEAN)
    BY TypeOfRendered
  <2>2. c.layers \in [LayerPages -> SUBSET (Indices \X BOOLEAN)]
    BY FieldTypes DEF Layers
  <2> HIDE DEF shown
  <2> QED BY <2>1, <2>2 DEF Layers
<1>3. d = [e EXCEPT !.layers = layers]
  <2>1. e.layers = c.layers
    <3> HIDE DEF e
    <3> QED BY <1>1 DEF FindFields
  <2> QED BY <2>1 DEF UpdateMatches
<1>4. e \in FindFields
  <2> HIDE DEF e
  <2> QED BY ZenonT(60), <1>1 DEF FindFields
<1>5. d \in FindFields /\ d.layers = layers
  <2> HIDE DEF e, layers
  <2> QED BY ZenonT(60), <1>2, <1>3, <1>4 DEF FindFields
<1>6. Redrawn(c, d, pages)
  BY <1>5 DEF Redrawn
<1>7. SameRequest(c, d)
  <2> HIDE DEF e, layers
  <2> QED BY SMTT(60), <1>1, <1>3, <1>4 DEF FindFields, SameRequest
<1>8. SameMatches(c, d) /\ SamePlace(c, d) /\ SameMarks(c, d) /\ SameBar(c, d) /\ d.page = c.page /\ d.undrawn = c.undrawn
  <2> HIDE DEF e, layers
  <2> QED BY SMTT(60), <1>1, <1>3, <1>4 DEF FindFields, SameMatches, SamePlace, SameMarks, SameBar
<1> QED BY <1>5, <1>6, <1>7, <1>8

LEMMA UpdatePageFields ==
  ASSUME NEW c \in FindFields, NEW i \in PageIdx, NEW d, d = UpdatePage(c, i)
  PROVE  /\ d \in FindFields
         /\ SameRequest(c, d) /\ SameMatches(c, d) /\ SamePlace(c, d) /\ SameMarks(c, d) /\ SameBar(c, d)
         /\ d.undrawn = c.undrawn
         /\ Redrawn(c, d, {i})
<1> DEFINE e == IF c.scrollMatches /\ c.selected.page = i THEN [c EXCEPT !.page = i] ELSE c
<1>1. /\ e \in FindFields /\ e.undrawn = c.undrawn
      /\ SameRequest(c, e) /\ SameMatches(c, e) /\ SamePlace(c, e) /\ SameMarks(c, e) /\ SameBar(c, e)
  <2> DEFINE f == [c EXCEPT !.page = i]
  <2>1. f \in FindFields /\ f.undrawn = c.undrawn
    BY DEF FindFields
  <2>2. SameRequest(c, f) /\ SameMatches(c, f) /\ SamePlace(c, f) /\ SameMarks(c, f) /\ SameBar(c, f)
    BY DEF FindFields, SameRequest, SameMatches, SamePlace, SameMarks, SameBar
  <2>3. SameRequest(c, c) /\ SameMatches(c, c) /\ SamePlace(c, c) /\ SameMarks(c, c) /\ SameBar(c, c)
    BY DEF SameRequest, SameMatches, SamePlace, SameMarks, SameBar
  <2>4. e = f \/ e = c
    OBVIOUS
  <2> HIDE DEF e, f
  <2> QED BY <2>1, <2>2, <2>3, <2>4
<1>2. e.layers = c.layers
  BY DEF FindFields
<1>3. d = UpdateMatches(e, {i})
  BY DEF UpdatePage
<1> HIDE DEF e
<1>4. /\ d \in FindFields
      /\ SameRequest(e, d) /\ SameMatches(e, d) /\ SamePlace(e, d) /\ SameMarks(e, d) /\ SameBar(e, d)
      /\ d.undrawn = e.undrawn
      /\ Redrawn(e, d, {i})
  BY <1>1, <1>3, UpdateMatchesFields
<1>5. \A k : Rendered(e, k) = Rendered(c, k)
  BY <1>1, RenderedSame DEF SameRequest, SameMatches, SamePlace, SameMarks
<1>6. Redrawn(c, d, {i})
  BY <1>2, <1>4, <1>5 DEF Redrawn
<1> QED BY <1>1, <1>4, <1>6 DEF SameRequest, SameMatches, SamePlace, SameMarks, SameBar

LEMMA UpdateAllPagesFields ==
  ASSUME NEW c \in FindFields, NEW d, d = UpdateAllPages(c)
  PROVE  /\ d \in FindFields
         /\ SameRequest(c, d) /\ SameMatches(c, d) /\ SamePlace(c, d) /\ SameMarks(c, d) /\ SameBar(c, d)
         /\ ~d.undrawn /\ d.page = c.page
         /\ Redrawn(c, d, PageIdx)
<1> DEFINE e == UpdateMatches(c, PageIdx)
<1>1. /\ e \in FindFields /\ e.page = c.page
      /\ SameRequest(c, e) /\ SameMatches(c, e) /\ SamePlace(c, e) /\ SameMarks(c, e) /\ SameBar(c, e)
      /\ Redrawn(c, e, PageIdx)
  BY UpdateMatchesFields
<1>2. d = [e EXCEPT !.undrawn = FALSE]
  BY DEF UpdateAllPages
<1> HIDE DEF e
<1>3. d \in FindFields /\ ~d.undrawn /\ d.layers = e.layers /\ d.page = c.page
  BY ZenonT(60), <1>1, <1>2 DEF FindFields
<1>4. SameRequest(e, d) /\ SameMatches(e, d) /\ SamePlace(e, d) /\ SameMarks(e, d) /\ SameBar(e, d)
  BY <1>1, <1>2 DEF FindFields, SameRequest, SameMatches, SamePlace, SameMarks, SameBar
<1>5. Redrawn(c, d, PageIdx)
  BY <1>1, <1>3 DEF Redrawn
<1> QED BY <1>1, <1>3, <1>4, <1>5 DEF SameRequest, SameMatches, SamePlace, SameMarks, SameBar

\* A place that exists, so that the match has a rank.
Exists(c) ==
  IF c.selected.page = NoIndex THEN c.selected.match = NoIndex
  ELSE c.selected.match \in 0 .. c.pageMatches[c.selected.page] - 1

LEMMA TypeOfCount ==
  ASSUME NEW c \in FindFields, Exists(c)
  PROVE  RequestMatchesCount(c) \in Nat \X Nat
<1> USE FindAssumption
<1>1. /\ c.pageMatches \in Matches /\ c.total \in Nat
      /\ c.selected.page \in PageIndices /\ c.selected.match \in Indices
  BY FieldTypes
<1>2. MatchesBefore(c.pageMatches) \in [0 .. PageTotal -> Nat]
  BY <1>1, SumOfPages
<1>3. c.selected.match # NoIndex => c.selected.page \in PageIdx /\ c.selected.match \in Nat
  BY <1>1 DEF Exists, PageIndices, Indices
<1>4. c.selected.match # NoIndex => MatchesBefore(c.pageMatches)[c.selected.page] \in Nat
  BY <1>2, <1>3 DEF PageIdx
<1> QED BY <1>1, <1>3, <1>4 DEF RequestMatchesCount

LEMMA CountSame ==
  ASSUME NEW c, NEW d, d.selected = c.selected, d.pageMatches = c.pageMatches, d.total = c.total
  PROVE  RequestMatchesCount(d) = RequestMatchesCount(c)
BY DEF RequestMatchesCount

LEMMA UpdateUIStateFields ==
  ASSUME NEW c \in FindFields, Exists(c), NEW status \in Messages, NEW d, d = UpdateUIState(c, status)
  PROVE  /\ d \in FindFields
         /\ SameRequest(c, d) /\ SameMatches(c, d) /\ SamePlace(c, d) /\ SameMarks(c, d)
         /\ d.page = c.page /\ d.undrawn = c.undrawn /\ d.layers = c.layers
         /\ d.status = status /\ d.count = RequestMatchesCount(c)
<1> DEFINE count == RequestMatchesCount(c)
<1>1. count \in Nat \X Nat
  BY TypeOfCount
<1>2. d = [c EXCEPT !.status = status, !.count = count]
  BY DEF UpdateUIState, ShowInBar
<1> HIDE DEF count
<1> DEFINE e == [c EXCEPT !.status = status]
<1>3. e \in FindFields
  BY DEF FindFields
<1>4. d = [e EXCEPT !.count = count]
  BY <1>2
<1>5. d \in FindFields
  <2> HIDE DEF e
  <2> QED BY ZenonT(60), <1>1, <1>3, <1>4 DEF FindFields
<1>6. d.status = status /\ d.count = count /\ d.page = c.page /\ d.undrawn = c.undrawn /\ d.layers = c.layers
  BY <1>2 DEF FindFields
<1>7. SameRequest(c, d) /\ SameMatches(c, d) /\ SamePlace(c, d) /\ SameMarks(c, d)
  BY <1>2 DEF FindFields, SameRequest, SameMatches, SamePlace, SameMarks
<1> QED BY <1>5, <1>6, <1>7 DEF count

----------------------------------------------------------------------------
(* The search                                                              *)

\* The layers show what is held, but for that of the selected match.
DrawnBut(c) ==
  \A i \in LayerPages : i # c.selected.page => c.layers[i] \in {NoLayer, Rendered(c, i)}

AllDrawn(c) == \A i \in LayerPages : c.layers[i] \in {NoLayer, Rendered(c, i)}

\* The offset is at a match.
AtMatch(c) ==
  c.offset.page \in PageIdx /\ c.offset.match \in 0 .. c.pageMatches[c.offset.page] - 1

\* What a search that ends leaves.
Ended(c, d, found) ==
  /\ SameRequest(c, d) /\ SameMatches(c, d) /\ SameMarks(c, d) /\ d.undrawn = c.undrawn
  /\ d.pagesToSearch = c.pagesToSearch /\ d.resume = c.resume
  /\ d.offset.page = c.offset.page /\ d.offset.match = c.offset.match
  /\ IF found THEN d.selected.page = c.offset.page /\ d.selected.match = c.offset.match
     ELSE d.selected = c.selected
  /\ d.count = RequestMatchesCount(d)
  /\ found => d.status # "notFound"

LEMMA RenderedElsewhere ==
  ASSUME NEW c, NEW d, NEW i, d.state = c.state, d.highlightMatches = c.highlightMatches,
         d.pageMatches = c.pageMatches, i # c.selected.page, i # d.selected.page
  PROVE  Rendered(d, i) = Rendered(c, i)
<1> DEFINE Plain(x) == IF x.highlightMatches /\ Computed(x, i) > 0
                         THEN {<<k, k = NoIndex>> :
                                 k \in IF x.state.highlightAll THEN 0 .. Computed(x, i) - 1 ELSE {NoIndex} \ {NoIndex}}
                         ELSE {}
<1>1. \A x : i # x.selected.page => Rendered(x, i) = Plain(x)
  BY Zenon DEF Rendered
<1>2. Computed(c, i) = Computed(d, i)
  BY DEF Computed
<1>3. Plain(c) = Plain(d)
  BY <1>2
<1> HIDE DEF Plain
<1> QED BY <1>1, <1>3

LEMMA UpdateMatchFields ==
  ASSUME NEW c \in FindFields, Exists(c), NEW found \in BOOLEAN, found => AtMatch(c),
         NEW d, d = UpdateMatch(c, found)
  PROVE  /\ d \in FindFields /\ Exists(d) /\ Ended(c, d, found)
         /\ DrawnBut(c) => AllDrawn(d)
         /\ \A i \in LayerPages : c.layers[i] = NoLayer => d.layers[i] = NoLayer
<1> USE FindAssumption
<1> DEFINE status == IF ~found THEN "notFound"
                     ELSE IF c.offset.wrapped THEN "wrapped" ELSE "found"
           place == [page |-> c.offset.page, match |-> c.offset.match]
           Select(x) == [x EXCEPT !.offset.wrapped = FALSE, !.selected = IF found THEN place ELSE @]
           Leave(x) == IF c.selected.page \notin {NoIndex, x.selected.page}
                         THEN UpdatePage(x, c.selected.page) ELSE x
           Show(x) == IF x.selected.page = NoIndex THEN x
                      ELSE UpdatePage([x EXCEPT !.scrollMatches = TRUE], x.selected.page)
           e == Select(c)
           f == Leave(e)
           g == UpdateUIState(f, status)
<1>1. d = Show(g)
  <2>1. \A x : /\ (CHOOSE y \in {Select(z) : z \in {x}} : TRUE) = Select(x)
               /\ (CHOOSE y \in {Leave(z) : z \in {x}} : TRUE) = Leave(x)
               /\ (CHOOSE y \in {Show(z) : z \in {x}} : TRUE) = Show(x)
    <3> HIDE DEF Select, Leave, Show
    <3> QED OBVIOUS
  <2>2. \A x : (CHOOSE y \in {CHOOSE w \in {Show(u) : u \in {UpdateUIState(z, status)}} : TRUE : z \in {x}} : TRUE)
                 = Show(UpdateUIState(x, status))
    <3> HIDE DEF Select, Leave, Show, status
    <3> QED BY <2>1
  <2>3. d = CHOOSE y \in {CHOOSE w \in {Show(u) : u \in {UpdateUIState(z, status)}} : TRUE :
                            z \in {CHOOSE v \in {Leave(t) : t \in {Select(c)}} : TRUE}} : TRUE
    BY ZenonT(40) DEF UpdateMatch, Then
  <2> HIDE DEF Select, Leave, Show, status
  <2> QED BY <2>1, <2>2, <2>3
<1> HIDE DEF Select, Leave, Show
<1>2. /\ e \in FindFields /\ e.selected = IF found THEN place ELSE c.selected
      /\ e.offset.page = c.offset.page /\ e.offset.match = c.offset.match
  <2>1. place \in MatchPlaces
    BY FieldTypes DEF MatchPlaces
  <2>2. [c.offset EXCEPT !.wrapped = FALSE] \in Offsets
    BY FieldTypes DEF Offsets
  <2>3. c.selected \in MatchPlaces
    BY FieldTypes
  <2> DEFINE x == [c EXCEPT !.offset = [c.offset EXCEPT !.wrapped = FALSE]]
             sel == IF found THEN place ELSE c.selected
  <2>4. x \in FindFields
    BY <2>2 DEF FindFields
  <2>5. sel \in MatchPlaces
    BY <2>1, <2>3
  <2>6. e = [x EXCEPT !.selected = sel]
    BY DEF Select, FindFields
  <2>7. x.offset = [c.offset EXCEPT !.wrapped = FALSE]
    BY DEF FindFields
  <2> HIDE DEF x, sel
  <2>8. e \in FindFields /\ e.selected = sel /\ e.offset = [c.offset EXCEPT !.wrapped = FALSE]
    BY ZenonT(60), <2>4, <2>5, <2>6, <2>7 DEF FindFields
  <2>9. e.offset.page = c.offset.page /\ e.offset.match = c.offset.match
    BY <2>8, FieldTypes DEF Offsets
  <2> QED BY <2>8, <2>9 DEF sel
<1>3. /\ SameRequest(c, e) /\ SameMatches(c, e) /\ SameMarks(c, e) /\ e.undrawn = c.undrawn
      /\ e.pagesToSearch = c.pagesToSearch /\ e.resume = c.resume /\ e.layers = c.layers
  BY DEF Select, FindFields, SameRequest, SameMatches, SameMarks
<1> HIDE DEF e
<1>4. Exists(e) /\ e.selected.page \in PageIndices /\ c.selected.page \in PageIndices
  <2>1. c.selected.page \in PageIndices /\ e.selected.page \in PageIndices
    BY <1>2, FieldTypes
  <2>2. CASE found
    <3>1. e.selected.page = c.offset.page /\ e.selected.match = c.offset.match /\ e.pageMatches = c.pageMatches
      BY <1>2, <1>3, <2>2 DEF SameMatches
    <3>2. c.offset.page # NoIndex
      BY <2>2 DEF AtMatch, PageIdx, NoIndex
    <3> QED BY <2>1, <2>2, <3>1, <3>2 DEF Exists, AtMatch
  <2>3. CASE ~found
    <3>1. e.selected = c.selected /\ e.pageMatches = c.pageMatches
      BY <1>2, <1>3, <2>3 DEF SameMatches
    <3> QED BY <2>1, <3>1 DEF Exists
  <2> QED BY <2>2, <2>3
<1>5. /\ f \in FindFields
      /\ SameRequest(e, f) /\ SameMatches(e, f) /\ SamePlace(e, f) /\ SameMarks(e, f) /\ f.undrawn = e.undrawn
      /\ IF c.selected.page \notin {NoIndex, e.selected.page}
           THEN Redrawn(e, f, {c.selected.page}) ELSE f.layers = e.layers
  <2>1. CASE c.selected.page \notin {NoIndex, e.selected.page}
    <3>1. f = UpdatePage(e, c.selected.page) /\ c.selected.page \in PageIdx
      BY <1>4, <2>1 DEF Leave, PageIndices
    <3> HIDE DEF f
    <3> QED BY <1>2, <2>1, <3>1, UpdatePageFields
  <2>2. CASE ~ (c.selected.page \notin {NoIndex, e.selected.page})
    <3>1. f = e
      BY <2>2 DEF Leave
    <3> HIDE DEF f
    <3> QED BY <1>2, <2>2, <3>1 DEF SameRequest, SameMatches, SamePlace, SameMarks
  <2> QED BY <2>1, <2>2
<1> HIDE DEF f
<1>6. Exists(f)
  BY <1>4, <1>5 DEF Exists, SamePlace, SameMatches
<1>7. /\ g \in FindFields
      /\ SameRequest(f, g) /\ SameMatches(f, g) /\ SamePlace(f, g) /\ SameMarks(f, g)
      /\ g.undrawn = f.undrawn /\ g.layers = f.layers
      /\ g.status = status /\ g.count = RequestMatchesCount(f)
  <2>1. status \in Messages
    BY DEF Messages
  <2> HIDE DEF status
  <2> QED BY <1>5, <1>6, <2>1, UpdateUIStateFields
<1> HIDE DEF g, status
<1>8. /\ d \in FindFields
      /\ SameRequest(g, d) /\ SameMatches(g, d) /\ SamePlace(g, d) /\ SameMarks(g, d) /\ SameBar(g, d)
      /\ d.undrawn = g.undrawn
      /\ IF g.selected.page # NoIndex THEN Redrawn(g, d, {g.selected.page}) ELSE d.layers = g.layers
  <2>1. CASE g.selected.page # NoIndex
    <3> DEFINE h == [g EXCEPT !.scrollMatches = TRUE]
    <3>1. g.selected.page \in PageIdx
      BY <1>7, <2>1, FieldTypes DEF PageIndices
    <3>2. h \in FindFields /\ h.layers = g.layers /\ h.undrawn = g.undrawn
      BY <1>7 DEF FindFields
    <3>3. SameRequest(g, h) /\ SameMatches(g, h) /\ SamePlace(g, h) /\ SameMarks(g, h) /\ SameBar(g, h)
      BY <1>7 DEF FindFields, SameRequest, SameMatches, SamePlace, SameMarks, SameBar
    <3>4. d = UpdatePage(h, g.selected.page)
      BY <1>1, <2>1 DEF Show
    <3> HIDE DEF h
    <3>5. /\ d \in FindFields
          /\ SameRequest(h, d) /\ SameMatches(h, d) /\ SamePlace(h, d) /\ SameMarks(h, d) /\ SameBar(h, d)
          /\ d.undrawn = h.undrawn /\ Redrawn(h, d, {g.selected.page})
      BY <3>1, <3>2, <3>4, UpdatePageFields
    <3>6. \A k : Rendered(h, k) = Rendered(g, k)
      BY <3>3, RenderedSame DEF SameRequest, SameMatches, SamePlace, SameMarks
    <3>7. Redrawn(g, d, {g.selected.page})
      BY <3>2, <3>5, <3>6 DEF Redrawn
    <3> QED BY <2>1, <3>2, <3>3, <3>5, <3>7 DEF SameRequest, SameMatches, SamePlace, SameMarks, SameBar
  <2>2. CASE g.selected.page = NoIndex
    <3>1. d = g
      BY <1>1, <2>2 DEF Show
    <3> QED BY <1>7, <2>2, <3>1 DEF SameRequest, SameMatches, SamePlace, SameMarks, SameBar
  <2> QED BY <2>1, <2>2
<1>9. SameRequest(c, d) /\ SameMatches(c, d) /\ SameMarks(c, d) /\ d.undrawn = c.undrawn
  BY <1>3, <1>5, <1>7, <1>8 DEF SameRequest, SameMatches, SameMarks
<1>10. /\ d.selected = e.selected /\ d.pagesToSearch = c.pagesToSearch /\ d.resume = c.resume
       /\ d.offset = e.offset /\ d.status = status /\ d.count = RequestMatchesCount(d)
  <2>1. f.selected = d.selected /\ f.pageMatches = d.pageMatches /\ f.total = d.total
    BY <1>7, <1>8 DEF SamePlace, SameMatches
  <2>2. RequestMatchesCount(f) = RequestMatchesCount(d)
    BY <2>1, CountSame
  <2> QED BY <1>3, <1>5, <1>7, <1>8, <2>2 DEF SamePlace, SameBar
<1>11. Ended(c, d, found)
  <2>1. found => status # "notFound"
    BY DEF status
  <2> QED BY <1>2, <1>9, <1>10, <2>1 DEF Ended
<1>12. Exists(d)
  BY <1>4, <1>3, <1>9, <1>10 DEF Exists, SameMatches
<1>13. \A i \in LayerPages : c.layers[i] = NoLayer => d.layers[i] = NoLayer
  BY <1>3, <1>5, <1>7, <1>8 DEF Redrawn
<1>14. ASSUME DrawnBut(c), NEW i \in LayerPages PROVE d.layers[i] \in {NoLayer, Rendered(d, i)}
  <2>1. Rendered(f, i) = Rendered(d, i) /\ Rendered(e, i) = Rendered(d, i) /\ Rendered(g, i) = Rendered(d, i)
    BY <1>5, <1>7, <1>8, RenderedSame DEF SameRequest, SameMatches, SamePlace, SameMarks
  <2>2. d.selected = g.selected
    BY <1>8 DEF SamePlace
  <2>3. CASE i = d.selected.page
    <3>1. d.layers[i] = IF g.layers[i] # NoLayer THEN Rendered(g, i) ELSE g.layers[i]
      <4>1. g.selected.page # NoIndex
        BY <2>2, <2>3 DEF PageIdx, NoIndex
      <4> QED BY <1>8, <2>2, <2>3, <4>1 DEF Redrawn
    <3> QED BY <3>1, <2>1
  <2>4. CASE i # d.selected.page
    <3>1. d.layers[i] = f.layers[i]
      BY <1>7, <1>8, <2>2, <2>4 DEF Redrawn
    <3>2. CASE i = c.selected.page
      <4>1. c.selected.page \notin {NoIndex, e.selected.page}
        BY <1>10, <2>4, <3>2 DEF PageIdx, NoIndex
      <4>2. f.layers[i] = IF e.layers[i] # NoLayer THEN Rendered(e, i) ELSE e.layers[i]
        BY <1>5, <3>2, <4>1 DEF Redrawn
      <4> QED BY <3>1, <4>2, <2>1
    <3>3. CASE i # c.selected.page
      <4>1. f.layers[i] = c.layers[i]
        BY <1>3, <1>5, <3>3 DEF Redrawn
      <4>2. Rendered(d, i) = Rendered(c, i)
        BY <1>9, <2>4, <3>3, RenderedElsewhere DEF SameRequest, SameMatches, SameMarks
      <4> QED BY <1>14, <3>1, <3>3, <4>1, <4>2 DEF DrawnBut
    <3> QED BY <3>2, <3>3
  <2> QED BY <2>3, <2>4
<1>15. DrawnBut(c) => AllDrawn(d)
  BY <1>14 DEF AllDrawn
<1> QED BY <1>8, <1>11, <1>12, <1>13, <1>15

\* A step to the next page to search, which is the first one after the last.
Advanced(c, d) ==
  /\ SameRequest(c, d) /\ SameMatches(c, d) /\ SameMarks(c, d) /\ SameBar(c, d)
  /\ d.selected = c.selected /\ d.resume = c.resume /\ d.layers = c.layers
  /\ d.undrawn = c.undrawn

LEMMA AdvanceFields ==
  ASSUME NEW c \in FindFields, NEW d, d = AdvanceOffsetPage(c)
  PROVE  /\ d \in FindFields /\ Advanced(c, d)
         /\ d.pagesToSearch = c.pagesToSearch - 1
         /\ d.offset.page \in PageIdx /\ d.offset.match = NoIndex
         /\ LET next == c.offset.page + (IF c.state.findPrevious THEN -1 ELSE 1) IN
            IF next \in PageIdx THEN d.offset.page = next /\ d.offset.wrapped = c.offset.wrapped
            ELSE /\ d.offset.page = IF c.state.findPrevious THEN PageTotal - 1 ELSE 0
                 /\ d.offset.wrapped
<1> USE FindAssumption
<1> DEFINE next == c.offset.page + (IF c.state.findPrevious THEN -1 ELSE 1)
           page == IF next \in PageIdx THEN next
                   ELSE IF c.state.findPrevious THEN PageTotal - 1 ELSE 0
           wrapped == c.offset.wrapped \/ next \notin PageIdx
           offset == [page |-> page, match |-> NoIndex, wrapped |-> wrapped]
           e == [c EXCEPT !.pagesToSearch = c.pagesToSearch - 1]
<1>1. page \in PageIdx
  BY DEF PageIdx
<1>2. wrapped \in BOOLEAN /\ (next \in PageIdx => wrapped = c.offset.wrapped) /\ (next \notin PageIdx => wrapped)
  <2>1. c.offset.wrapped \in BOOLEAN
    BY FieldTypes
  <2> HIDE DEF next
  <2> QED BY <2>1
<1>3. d = [e EXCEPT !.offset = offset]
  BY DEF AdvanceOffsetPage, FindFields
<1>4. e \in FindFields /\ Advanced(c, e)
  <2>0. c.pagesToSearch - 1 \in Int
    BY FieldTypes
  <2>1. e \in FindFields
    BY <2>0 DEF FindFields
  <2>2. Advanced(c, e)
    BY DEF FindFields, Advanced, SameRequest, SameMatches, SameMarks, SameBar
  <2> QED BY <2>1, <2>2
<1>5. e.pagesToSearch = c.pagesToSearch - 1
  BY DEF FindFields
<1> HIDE DEF e, page, wrapped
<1>6. offset \in Offsets
  BY <1>1, <1>2 DEF Offsets, PageIndices, Indices
<1> HIDE DEF offset
<1>7. d \in FindFields /\ d.offset = offset /\ d.pagesToSearch = c.pagesToSearch - 1
  BY ZenonT(60), <1>3, <1>4, <1>5, <1>6 DEF FindFields
<1>8. Advanced(e, d)
  BY <1>3, <1>4 DEF FindFields, Advanced, SameRequest, SameMatches, SameMarks, SameBar
<1>9. Advanced(c, d)
  BY <1>4, <1>8 DEF Advanced, SameRequest, SameMatches, SameMarks, SameBar
<1>10. d.offset.page = page /\ d.offset.match = NoIndex /\ d.offset.wrapped = wrapped
  BY <1>7 DEF offset
<1>11. IF next \in PageIdx THEN d.offset.page = next /\ d.offset.wrapped = c.offset.wrapped
       ELSE /\ d.offset.page = IF c.state.findPrevious THEN PageTotal - 1 ELSE 0
            /\ d.offset.wrapped
  BY <1>2, <1>10 DEF page
<1> QED BY <1>1, <1>7, <1>9, <1>10, <1>11

\* The walk through the pages that NextPageMatch looks at.
Walk(c) == Repeat(c, PageTotal + 1, LAMBDA d, k : AdvanceOffsetPage(d))

LEMMA WalkSteps ==
  ASSUME NEW c \in FindFields
  PROVE  /\ Walk(c) \in [0 .. PageTotal + 1 -> FindFields] /\ Walk(c)[0] = c
         /\ \A k \in 0 .. PageTotal : Walk(c)[k + 1] = AdvanceOffsetPage(Walk(c)[k])
<1> USE FindAssumption
<1> DEFINE n == PageTotal + 1
           F == [x \in (0 .. n - 1) \X FindFields |-> AdvanceOffsetPage(x[2])]
           Def(f) == f = [k \in 0 .. n |-> IF k = 0 THEN c ELSE AdvanceOffsetPage(f[k - 1])]
           Raw(f) == f = [k \in 0 .. n |-> IF k = 0 THEN c
                       ELSE CHOOSE d \in {AdvanceOffsetPage(e) : e \in {f[k - 1]}} : TRUE]
<1>1. n \in Nat /\ F \in [(0 .. n - 1) \X FindFields -> FindFields]
  <2>1. \A x \in FindFields : AdvanceOffsetPage(x) \in FindFields
    BY AdvanceFields
  <2> QED BY <2>1
<1>2. PICK g : Runs(n, FindFields, c, F, g)
  <2> HIDE DEF F, n
  <2> QED BY <1>1, Iteration
<1> HIDE DEF n
<1>3. Def(g)
  <2>1. g \in [0 .. n -> FindFields]
    <3> HIDE DEF F
    <3> QED BY <1>2 DEF Runs
  <2>2. ASSUME NEW k \in 0 .. n, k # 0
        PROVE  AdvanceOffsetPage(g[k - 1]) = F[<<k - 1, g[k - 1]>>]
    <3>1. k - 1 \in 0 .. n - 1 /\ g[k - 1] \in FindFields
      BY <1>1, <2>1, <2>2
    <3> QED BY <3>1
  <2> HIDE DEF F
  <2> QED BY <2>2, <1>2 DEF Runs
<1>4. \A f : Raw(f) <=> Def(f)
  <2>1. \A f, k : (CHOOSE d \in {AdvanceOffsetPage(e) : e \in {f[k - 1]}} : TRUE) = AdvanceOffsetPage(f[k - 1])
    OBVIOUS
  <2> QED BY <2>1, Zenon
<1>5. Walk(c) = CHOOSE f : Raw(f)
  BY DEF Walk, Repeat, n
<1> DEFINE s == Walk(c)
<1>6. Def(s)
  <2> HIDE DEF Def, Raw, s
  <2> QED BY <1>3, <1>4, <1>5, Zenon DEF s
<1> HIDE DEF s, F, Raw
<1>7. s[0] = c
  BY <1>1, <1>6
<1>8. ASSUME NEW k \in 0 .. PageTotal PROVE s[k + 1] = AdvanceOffsetPage(s[k])
  <2>1. k + 1 \in 0 .. n /\ k + 1 # 0 /\ (k + 1) - 1 = k
    BY DEF n
  <2> QED BY <1>6, <2>1
<1>9. \A k \in 0 .. n : s[k] \in FindFields
  <2> DEFINE G == {k \in 0 .. n : s[k] \in FindFields}
  <2>1. 0 \in G
    BY <1>1, <1>7
  <2>2. \A k \in 0 .. n - 1 : k \in G => k + 1 \in G
    <3> HIDE DEF Def
    <3> QED BY <1>8, AdvanceFields DEF n
  <2> HIDE DEF G
  <2>3. \A k \in 0 .. n : k \in G
    BY <1>1, <2>1, <2>2, Climb
  <2> QED BY <2>3 DEF G
<1>10. s = [k \in 0 .. n |-> s[k]]
  BY <1>6
<1> HIDE DEF Def
<1>11. s \in [0 .. n -> FindFields]
  BY <1>9, <1>10
<1> QED BY <1>7, <1>8, <1>11 DEF s, n

\* How far the walk has come after k pages.
OnTheWay(c, d, k) ==
  /\ Advanced(c, d) /\ d.pagesToSearch = c.pagesToSearch - k /\ d.offset.page \in PageIdx
  /\ d.offset.match = NoIndex
  /\ d.offset.wrapped \/ d.offset.page = c.offset.page + (IF c.state.findPrevious THEN -k ELSE k)

LEMMA WalkGoes ==
  ASSUME NEW c \in FindFields, c.offset.page \in PageIdx, c.offset.match = NoIndex
  PROVE  \A k \in 0 .. PageTotal + 1 : OnTheWay(c, Walk(c)[k], k)
<1> USE FindAssumption
<1> DEFINE s == Walk(c)
           n == PageTotal + 1
           G == {k \in 0 .. n : OnTheWay(c, s[k], k)}
<1>1. /\ s \in [0 .. n -> FindFields] /\ s[0] = c
      /\ \A k \in 0 .. PageTotal : s[k + 1] = AdvanceOffsetPage(s[k])
  BY WalkSteps
<1> HIDE DEF s
<1>2. 0 \in G
  <2>1. Advanced(c, c)
    BY DEF Advanced, SameRequest, SameMatches, SameMarks, SameBar
  <2>2. c.pagesToSearch \in Int /\ c.offset.page \in Int
    BY FieldTypes DEF PageIdx
  <2> QED BY <1>1, <2>1, <2>2 DEF OnTheWay
<1>3. ASSUME NEW k \in 0 .. n - 1, k \in G PROVE k + 1 \in G
  <2> DEFINE d == s[k]
             e == s[k + 1]
  <2>1. k \in 0 .. PageTotal /\ d \in FindFields /\ OnTheWay(c, d, k) /\ e = AdvanceOffsetPage(d)
    BY <1>1, <1>3
  <2> DEFINE next == d.offset.page + (IF d.state.findPrevious THEN -1 ELSE 1)
  <2> HIDE DEF d, e
  <2>2. /\ Advanced(d, e) /\ e.pagesToSearch = d.pagesToSearch - 1
        /\ e.offset.page \in PageIdx /\ e.offset.match = NoIndex
        /\ IF next \in PageIdx THEN e.offset.page = next /\ e.offset.wrapped = d.offset.wrapped
           ELSE e.offset.wrapped
    BY <2>1, AdvanceFields
  <2>3. Advanced(c, e) /\ d.state = c.state
    BY <2>1, <2>2 DEF OnTheWay, Advanced, SameRequest, SameMatches, SameMarks, SameBar
  <2>4. e.pagesToSearch = c.pagesToSearch - (k + 1)
    BY SMTT(60), <2>1, <2>2, FieldTypes DEF OnTheWay
  <2>5. e.offset.wrapped \/ e.offset.page = c.offset.page + (IF c.state.findPrevious THEN -(k + 1) ELSE k + 1)
    BY <2>1, <2>2, <2>3 DEF OnTheWay, PageIdx
  <2>6. OnTheWay(c, e, k + 1)
    BY <2>2, <2>3, <2>4, <2>5 DEF OnTheWay
  <2> QED BY <2>6 DEF e
<1>5. n \in Nat
  OBVIOUS
<1> HIDE DEF G, n
<1>4. \A k \in 0 .. n : k \in G
  BY <1>2, <1>3, <1>5, Climb
<1> QED BY <1>4 DEF G, s, n

\* How many pages there are from a page to the one where the search is.
Dist(c, q) ==
  LET n == IF c.state.findPrevious THEN q - c.offset.page ELSE c.offset.page - q
  IN  IF n > 0 THEN n ELSE n + PageTotal

\* The pages that the search has passed have no matches.
Passed(c) == \A q \in PageIdx : Dist(c, q) < PageTotal - c.pagesToSearch => c.pageMatches[q] = 0

LEMMA DistBounds ==
  ASSUME NEW c, NEW q \in PageIdx, c.offset.page \in PageIdx
  PROVE  Dist(c, q) \in 1 .. PageTotal
BY FindAssumption DEF Dist, PageIdx

LEMMA AdvancePasses ==
  ASSUME NEW c \in FindFields, c.offset.page \in PageIdx, Passed(c), c.pageMatches[c.offset.page] = 0,
         NEW d, d = AdvanceOffsetPage(c)
  PROVE  Passed(d)
<1> USE FindAssumption
<1> DEFINE next == c.offset.page + (IF c.state.findPrevious THEN -1 ELSE 1)
<1>1. /\ Advanced(c, d) /\ d.pagesToSearch = c.pagesToSearch - 1
      /\ d.offset.page = IF next \in PageIdx THEN next
                         ELSE IF c.state.findPrevious THEN PageTotal - 1 ELSE 0
  BY AdvanceFields
<1>2. d.state = c.state /\ d.pageMatches = c.pageMatches
  BY <1>1 DEF Advanced, SameRequest, SameMatches
<1>3. c.pagesToSearch \in Int
  BY FieldTypes
<1> SUFFICES ASSUME NEW q \in PageIdx, Dist(d, q) < PageTotal - d.pagesToSearch, q # c.offset.page
             PROVE  Dist(c, q) < PageTotal - c.pagesToSearch
  BY <1>2 DEF Passed
<1>4. Dist(d, q) = Dist(c, q) + 1
  <2> DEFINE p == c.offset.page
             r == d.offset.page
  <2>1. p \in 0 .. PageTotal - 1 /\ q \in 0 .. PageTotal - 1 /\ p # q /\ PageTotal \in Nat
    BY DEF PageIdx
  <2>2. CASE c.state.findPrevious
    <3>1. r = IF p - 1 \in 0 .. PageTotal - 1 THEN p - 1 ELSE PageTotal - 1
      BY <1>1, <2>2 DEF PageIdx
    <3>2. Dist(c, q) = IF q - p > 0 THEN q - p ELSE q - p + PageTotal
      BY <2>2 DEF Dist
    <3>3. Dist(d, q) = IF q - r > 0 THEN q - r ELSE q - r + PageTotal
      BY <1>2, <2>2 DEF Dist
    <3> HIDE DEF p, r
    <3> QED BY <2>1, <3>1, <3>2, <3>3
  <2>3. CASE ~c.state.findPrevious
    <3>1. r = IF p + 1 \in 0 .. PageTotal - 1 THEN p + 1 ELSE 0
      BY <1>1, <2>3 DEF PageIdx
    <3>2. Dist(c, q) = IF p - q > 0 THEN p - q ELSE p - q + PageTotal
      BY <2>3 DEF Dist
    <3>3. Dist(d, q) = IF r - q > 0 THEN r - q ELSE r - q + PageTotal
      BY <1>2, <2>3 DEF Dist
    <3> HIDE DEF p, r
    <3> QED BY <2>1, <3>1, <3>2, <3>3
  <2> QED BY <2>2, <2>3
<1>5. Dist(c, q) \in 1 .. PageTotal
  BY DistBounds
<1> QED BY <1>1, <1>3, <1>4, <1>5

\* What a search comes to: it waits for a page, or it is at its end.
Waits(c, d) ==
  /\ d.resume = d.offset.page /\ d.offset.match = NoIndex /\ d.pageMatches[d.resume] = NoIndex
  /\ Passed(c) => Passed(d)
  /\ DrawnBut(c) => DrawnBut(d)

Ends(c, d) ==
  /\ d.resume = NoIndex
  /\ d.offset.match # NoIndex => d.pageMatches[d.offset.page] # NoIndex
  /\ d.count = RequestMatchesCount(d)
  /\ \/ d.selected.page # NoIndex /\ d.status # "notFound"
     \/ Passed(c) => \A i \in PageIdx : d.pageMatches[i] = 0
  /\ DrawnBut(c) => AllDrawn(d)

Searched(c, d) ==
  /\ d \in FindFields /\ Exists(d)
  /\ SameRequest(c, d) /\ SameMatches(c, d) /\ SameMarks(c, d) /\ d.undrawn = c.undrawn
  /\ d.pagesToSearch <= c.pagesToSearch /\ d.offset.page \in PageIdx
  /\ \A i \in LayerPages : c.layers[i] = NoLayer => d.layers[i] = NoLayer
  /\ Waits(c, d) \/ Ends(c, d)

LEMMA NextPageMatchFields ==
  ASSUME NEW c \in FindFields, Exists(c), c.offset.page \in PageIdx, c.offset.match = NoIndex,
         c.pagesToSearch <= PageTotal,
         c.resume # NoIndex => c.resume = c.offset.page /\ c.pageMatches[c.resume] = NoIndex,
         NEW d, d = NextPageMatch(c)
  PROVE  Searched(c, d)
<1> USE FindAssumption
<1> DEFINE ahead == Walk(c)
           Lapped(e, k) == k > 0 /\ e.offset.wrapped /\ e.pagesToSearch < 0
           Stops(k) == Lapped(ahead[k], k) \/ c.pageMatches[ahead[k].offset.page] # 0
           Earliest(k) == Stops(k) /\ \A j \in 0 .. k - 1 : ~Stops(j)
           last == CHOOSE k \in 0 .. PageTotal + 1 : Earliest(k)
           Stop(e, k) ==
             LET n == c.pageMatches[e.offset.page] IN
             IF Lapped(e, k) THEN UpdateMatch(e, FALSE)
             ELSE IF n = NoIndex THEN [e EXCEPT !.resume = e.offset.page]
             ELSE UpdateMatch([e EXCEPT !.offset.match = IF e.state.findPrevious THEN n - 1 ELSE 0], TRUE)
           e == ahead[last]
<1>1. d = Stop(e, last)
  <2>1. \A k, y : (CHOOSE x \in {Stop(w, k) : w \in {y}} : TRUE) = Stop(y, k)
    <3> HIDE DEF Stop
    <3> QED OBVIOUS
  <2>2. \A l : (CHOOSE x \in {CHOOSE y \in {Stop(w, k) : w \in {ahead[k]}} : TRUE : k \in {l}} : TRUE) = Stop(ahead[l], l)
    <3> HIDE DEF Stop
    <3> QED BY SMTT(60), <2>1
  <2>3. d = CHOOSE x \in {CHOOSE y \in {Stop(w, k) : w \in {ahead[k]}} : TRUE : k \in {last}} : TRUE
    BY ZenonT(40) DEF NextPageMatch, Then, Walk
  <2> HIDE DEF Stop, last, ahead
  <2> QED BY <2>2, <2>3
<1>2. /\ ahead \in [0 .. PageTotal + 1 -> FindFields] /\ ahead[0] = c
      /\ \A k \in 0 .. PageTotal : ahead[k + 1] = AdvanceOffsetPage(ahead[k])
  BY WalkSteps
<1>3. \A k \in 0 .. PageTotal + 1 : OnTheWay(c, ahead[k], k)
  BY WalkGoes
<1> HIDE DEF ahead
<1>4. Stops(PageTotal + 1)
  <2>1. OnTheWay(c, ahead[PageTotal + 1], PageTotal + 1)
    BY <1>3
  <2>2. ahead[PageTotal + 1].pagesToSearch < 0
    BY <2>1, FieldTypes DEF OnTheWay
  <2>3. ahead[PageTotal + 1].offset.wrapped
    BY <2>1 DEF OnTheWay, PageIdx
  <2> QED BY <2>2, <2>3
<1> HIDE DEF Stops
<1>5. last \in 0 .. PageTotal + 1 /\ Earliest(last)
  <2> DEFINE S == {k \in 0 .. PageTotal + 1 : Stops(k)}
  <2>1. S \in SUBSET Nat /\ S # {}
    BY <1>4
  <2>2. PICK m \in S : \A q \in S : m <= q
    <3> HIDE DEF S
    <3> QED BY <2>1, Least
  <2>3. m \in 0 .. PageTotal + 1 /\ Stops(m)
    BY <2>2
  <2>4. \A j \in 0 .. m - 1 : ~Stops(j)
    BY <2>2, <2>3
  <2>5. Earliest(m)
    BY <2>3, <2>4
  <2> HIDE DEF Earliest
  <2> QED BY <2>3, <2>5
<1> HIDE DEF last
<1>6. e \in FindFields /\ OnTheWay(c, e, last)
  BY <1>2, <1>3, <1>5
<1>7. Advanced(c, e) /\ e.pagesToSearch = c.pagesToSearch - last /\ e.offset.page \in PageIdx
      /\ e.offset.match = NoIndex
  BY <1>6 DEF OnTheWay
<1>8. Passed(c) => Passed(e)
  <2> SUFFICES ASSUME Passed(c) PROVE Passed(e)
    OBVIOUS
  <2> DEFINE G == {k \in 0 .. last : Passed(ahead[k])}
  <2>3. last \in Nat
    BY <1>5
  <2>1. 0 \in G
    BY <1>2, <1>5
  <2>2. ASSUME NEW k \in 0 .. last - 1, k \in G PROVE k + 1 \in G
    <3>1. k \in 0 .. PageTotal /\ k \in 0 .. PageTotal + 1
      BY <1>5
    <3>2. ahead[k] \in FindFields /\ OnTheWay(c, ahead[k], k) /\ ahead[k + 1] = AdvanceOffsetPage(ahead[k])
      BY <1>2, <1>3, <3>1
    <3>3. ~Stops(k)
      BY <1>5
    <3>4. ahead[k].offset.page \in PageIdx /\ ahead[k].pageMatches = c.pageMatches
      BY <3>2 DEF OnTheWay, Advanced, SameMatches
    <3>5. ahead[k].pageMatches[ahead[k].offset.page] = 0
      BY <3>3, <3>4 DEF Stops
    <3>6. Passed(ahead[k + 1])
      BY <2>2, <3>2, <3>4, <3>5, AdvancePasses
    <3> QED BY <2>3, <3>6
  <2> HIDE DEF G
  <2>4. \A k \in 0 .. last : k \in G
    BY <2>1, <2>2, <2>3, Climb
  <2> QED BY <2>3, <2>4 DEF G
<1>9. DrawnBut(c) => DrawnBut(e)
  <2>1. \A i : Rendered(e, i) = Rendered(c, i)
    BY <1>7, RenderedSame DEF Advanced, SameRequest, SameMatches, SameMarks
  <2> QED BY <1>7, <2>1 DEF DrawnBut, Advanced
<1>10. Exists(e)
  BY <1>7 DEF Exists, Advanced, SameMatches
<1>11. e.pagesToSearch <= c.pagesToSearch /\ c.pagesToSearch \in Int /\ e.pagesToSearch \in Int
  BY <1>5, <1>6, <1>7, FieldTypes
<1>12. c.resume # NoIndex => last = 0 /\ e = c
  <2> SUFFICES ASSUME c.resume # NoIndex PROVE last = 0 /\ e = c
    OBVIOUS
  <2>1. Stops(0)
    BY <1>2 DEF Stops, NoIndex
  <2>2. last = 0
    BY <1>5, <2>1
  <2> QED BY <1>2, <2>2
<1> HIDE DEF e
<1>13. CASE Lapped(e, last)
  <2>1. d = UpdateMatch(e, FALSE)
    BY <1>1, <1>13
  <2>2. /\ d \in FindFields /\ Exists(d) /\ Ended(e, d, FALSE)
        /\ DrawnBut(e) => AllDrawn(d)
        /\ \A i \in LayerPages : e.layers[i] = NoLayer => d.layers[i] = NoLayer
    BY <1>6, <1>10, <2>1, UpdateMatchFields
  <2>3. Passed(c) => \A i \in PageIdx : d.pageMatches[i] = 0
    <3>1. \A i \in PageIdx : Dist(e, i) \in 1 .. PageTotal
      BY <1>7, DistBounds
    <3>2. e.pagesToSearch < 0
      BY <1>13
    <3>3. \A i \in PageIdx : Dist(e, i) < PageTotal - e.pagesToSearch
      BY <1>11, <3>1, <3>2
    <3>4. d.pageMatches = e.pageMatches
      BY <2>2 DEF Ended, SameMatches
    <3> QED BY <1>8, <3>3, <3>4 DEF Passed
  <2>4. d.resume = NoIndex
    BY <1>7, <1>12, <1>13, <2>2 DEF Ended, Advanced
  <2>5. d.offset.match = NoIndex /\ d.offset.page = e.offset.page /\ d.pagesToSearch = e.pagesToSearch
    BY <1>7, <2>2 DEF Ended
  <2>6. Ends(c, d)
    BY <1>9, <2>2, <2>3, <2>4, <2>5 DEF Ends, Ended
  <2>7. SameRequest(c, d) /\ SameMatches(c, d) /\ SameMarks(c, d) /\ d.undrawn = c.undrawn
    BY <1>7, <2>2 DEF Advanced, Ended, SameRequest, SameMatches, SameMarks
  <2>8. \A i \in LayerPages : c.layers[i] = NoLayer => d.layers[i] = NoLayer
    BY <1>7, <2>2 DEF Advanced
  <2> QED BY <1>7, <1>11, <2>2, <2>5, <2>6, <2>7, <2>8 DEF Searched
<1>14. CASE ~Lapped(e, last) /\ c.pageMatches[e.offset.page] = NoIndex
  <2>1. d = [e EXCEPT !.resume = e.offset.page]
    BY <1>1, <1>14
  <2>2. e.offset.page \in PageIndices
    BY <1>7 DEF PageIndices
  <2>3. d \in FindFields /\ d.resume = e.offset.page /\ d.offset = e.offset /\ d.selected = e.selected
        /\ d.pagesToSearch = e.pagesToSearch /\ d.undrawn = e.undrawn /\ d.layers = e.layers
    BY ZenonT(60), <1>6, <2>1, <2>2 DEF FindFields
  <2>4. SameRequest(e, d) /\ SameMatches(e, d) /\ SameMarks(e, d)
    BY <1>6, <2>1 DEF FindFields, SameRequest, SameMatches, SameMarks
  <2>5. SameRequest(c, d) /\ SameMatches(c, d) /\ SameMarks(c, d) /\ d.undrawn = c.undrawn
    BY <1>7, <2>3, <2>4 DEF Advanced, SameRequest, SameMatches, SameMarks
  <2>6. Passed(e) => Passed(d)
    BY <2>3, <2>4 DEF Passed, Dist, SameRequest, SameMatches
  <2>7. DrawnBut(e) => DrawnBut(d)
    <3>1. \A i : Rendered(d, i) = Rendered(e, i)
      BY <2>3, <2>4, RenderedSame DEF SameRequest, SameMatches, SameMarks
    <3> QED BY <2>3, <3>1 DEF DrawnBut
  <2>8. d.pageMatches[d.resume] = NoIndex
    BY <1>14, <2>3, <2>5 DEF SameMatches
  <2>9. Waits(c, d)
    BY <1>7, <1>8, <1>9, <2>3, <2>6, <2>7, <2>8 DEF Waits
  <2>10. Exists(d)
    BY <1>10, <2>3, <2>4 DEF Exists, SameMatches
  <2>11. \A i \in LayerPages : c.layers[i] = NoLayer => d.layers[i] = NoLayer
    BY <1>7, <2>3 DEF Advanced
  <2> QED BY <1>7, <1>11, <2>3, <2>5, <2>9, <2>10, <2>11 DEF Searched
<1>15. CASE ~Lapped(e, last) /\ c.pageMatches[e.offset.page] # NoIndex
  <2> DEFINE n == c.pageMatches[e.offset.page]
             m == IF e.state.findPrevious THEN n - 1 ELSE 0
             f == [e EXCEPT !.offset = [e.offset EXCEPT !.match = m]]
  <2>1. n # 0
    <3>1. Stops(last)
      BY <1>5
    <3> QED BY <1>15, <3>1 DEF Stops, e
  <2>2. n \in Nat /\ m \in 0 .. n - 1
    <3>1. n \in Indices
      BY <1>7, FieldTypes DEF Matches
    <3>2. n \in Nat
      BY <1>15, <3>1 DEF Indices
    <3> HIDE DEF n
    <3> QED BY <2>1, <3>2
  <2>3. d = UpdateMatch(f, TRUE)
    BY <1>1, <1>15
  <2> HIDE DEF m
  <2>4. [e.offset EXCEPT !.match = m] \in Offsets
    <3>1. e.offset \in Offsets /\ m \in Indices
      BY <1>6, <2>2, FieldTypes DEF Indices
    <3> QED BY <3>1 DEF Offsets
  <2>5. f \in FindFields /\ f.offset = [e.offset EXCEPT !.match = m]
    <3> HIDE DEF n
    <3> QED BY <1>6, <2>4 DEF FindFields
  <2>6. f.offset.page = e.offset.page /\ f.offset.match = m
    <3>1. e.offset \in Offsets
      BY <1>6, FieldTypes
    <3> HIDE DEF f
    <3> QED BY <2>5, <3>1 DEF Offsets
  <2>7. Advanced(e, f) /\ f.pagesToSearch = e.pagesToSearch
    BY <1>6 DEF FindFields, Advanced, SameRequest, SameMatches, SameMarks, SameBar
  <2> HIDE DEF f
  <2>8. Advanced(c, f)
    BY <1>7, <2>7 DEF Advanced, SameRequest, SameMatches, SameMarks, SameBar
  <2>9. AtMatch(f)
    BY <1>7, <2>2, <2>6, <2>8 DEF AtMatch, Advanced, SameMatches
  <2>10. Exists(f)
    BY <1>10, <2>7 DEF Exists, Advanced, SameMatches
  <2>11. DrawnBut(c) => DrawnBut(f)
    <3>1. \A i : Rendered(f, i) = Rendered(c, i)
      BY <2>8, RenderedSame DEF Advanced, SameRequest, SameMatches, SameMarks
    <3> QED BY <2>8, <3>1 DEF DrawnBut, Advanced
  <2>12. /\ d \in FindFields /\ Exists(d) /\ Ended(f, d, TRUE)
         /\ DrawnBut(f) => AllDrawn(d)
         /\ \A i \in LayerPages : f.layers[i] = NoLayer => d.layers[i] = NoLayer
    BY <2>3, <2>5, <2>9, <2>10, UpdateMatchFields
  <2>13. SameRequest(c, d) /\ SameMatches(c, d) /\ SameMarks(c, d) /\ d.undrawn = c.undrawn
    BY <2>8, <2>12 DEF Advanced, Ended, SameRequest, SameMatches, SameMarks
  <2>14. \A i \in LayerPages : c.layers[i] = NoLayer => d.layers[i] = NoLayer
    BY <2>8, <2>12 DEF Advanced
  <2>15. /\ d.offset.page = e.offset.page /\ d.offset.match = m /\ d.pagesToSearch = e.pagesToSearch
         /\ d.selected.page = e.offset.page
    BY <2>6, <2>7, <2>12 DEF Ended
  <2>16. d.resume = NoIndex
    <3>1. c.resume = NoIndex
      <4> SUFFICES ASSUME c.resume # NoIndex PROVE FALSE
        OBVIOUS
      <4>1. e = c
        BY <1>12
      <4> QED BY <1>15, <4>1
    <3> QED BY <2>8, <2>12, <3>1 DEF Ended, Advanced
  <2>17. d.pageMatches[d.offset.page] # NoIndex
    BY <1>15, <2>13, <2>15 DEF SameMatches
  <2>18. d.selected.page # NoIndex /\ d.status # "notFound" /\ d.count = RequestMatchesCount(d)
    BY <1>7, <2>12, <2>15 DEF Ended, PageIdx, NoIndex
  <2>19. Ends(c, d)
    BY <2>11, <2>12, <2>16, <2>17, <2>18 DEF Ends
  <2> QED BY <1>7, <1>11, <2>12, <2>13, <2>14, <2>15, <2>19 DEF Searched
<1> QED BY <1>13, <1>14, <1>15

----------------------------------------------------------------------------
(* The inductive invariant                                                 *)

\* A query has been asked for, and its search has begun.
Live(c) == ~c.dirtyMatch /\ c.state # NoState

Placed(c) ==
  /\ c.pagesToSearch <= PageTotal
  /\ c.resume # NoIndex =>
       /\ c.offset.page = c.resume /\ c.offset.match = NoIndex
       /\ c.pageMatches[c.resume] = NoIndex
  /\ c.offset.match # NoIndex =>
       c.offset.page # NoIndex /\ c.pageMatches[c.offset.page] # NoIndex
  /\ Exists(c)
  /\ Live(c) => c.offset.page # NoIndex

\* A page waits for its text once, and has no matches while it does.
Awaited(c) ==
  \A i \in PageIdx : c.callbacks[i] \in {0, 1} /\ (c.callbacks[i] = 1 => c.pageMatches[i] = NoIndex)

AsFields(c) ==
  /\ c.state.query = "none" => c.state = NoState
  /\ c.state # NoState => /\ c.state.query = c.fields.query
                          /\ c.state.caseSensitive = c.fields.caseSensitive
                          /\ c.state.highlightAll = c.fields.highlightAll

\* Nothing is searched.
Blank(c) ==
  /\ ~c.timeout /\ c.resume = NoIndex
  /\ \A i \in PageIdx : c.callbacks[i] = 0 /\ c.pageMatches[i] = NoIndex
  /\ c.selected.page = NoIndex

Away(c) ==
  /\ c.state = NoState =>
       /\ Blank(c) /\ ~c.dirtyMatch
       /\ \A k \in 1 .. Len(c.waiting) : c.waiting[k] = "close"
  /\ ~c.document =>
       /\ Blank(c) /\ c.extracted = 0 /\ (c.state = NoState \/ c.dirtyMatch)
       /\ \A i \in LayerPages : c.layers[i] = NoLayer

Content(c) ==
  Live(c) =>
    IF c.state.query = NoQuery THEN \A i \in PageIdx : c.pageMatches[i] = NoIndex
    ELSE /\ \A i \in PageIdx : c.pageMatches[i] = IF c.callbacks[i] > 0 THEN NoIndex ELSE Match(c, i)
         /\ c.total = MatchesBefore(c.pageMatches)[PageTotal]

\* The pages whose text is still to come are waited for.
Pending(c) == Live(c) => \A i \in PageIdx : i >= c.extracted => c.callbacks[i] = 1

\* While the search waits for a page, the last match may not be marked yet.
Drawn(c) ==
  ~c.dirtyMatch /\ ~c.undrawn => DrawnBut(c) /\ (c.resume = NoIndex => AllDrawn(c))

Over(c) ==
  /\ c.count = RequestMatchesCount(c)
  /\ ~c.turned => \/ c.selected.page # NoIndex /\ c.status # "notFound"
                  \/ \A i \in PageIdx : c.pageMatches[i] = 0

Outcome(c) ==
  Live(c) /\ c.state.query # NoQuery =>
    IF c.resume = NoIndex THEN Over(c) ELSE ~c.turned => Passed(c)

Good(c) ==
  /\ c \in FindFields /\ Placed(c) /\ Awaited(c) /\ AsFields(c) /\ Away(c)
  /\ Content(c) /\ Pending(c) /\ Drawn(c) /\ Outcome(c)

\* No page whose text is there waits for it.
Rest(c) == \A i \in PageIdx : i < c.extracted => c.callbacks[i] = 0

FindInv == Good(find) /\ Rest(find) /\ finds \in 0 .. MaxFinds

----------------------------------------------------------------------------
(* A page answers                                                          *)

LEMMA TypeOfMatch ==
  ASSUME NEW c \in FindFields, AsFields(c), c.state # NoState, c.state.query # NoQuery, NEW i \in PageIdx
  PROVE  Match(c, i) \in Nat
<1> USE FindAssumption
<1>1. c.state \in FindStates
  BY FieldTypes
<1>2. c.state.query \in Queries /\ c.state.caseSensitive \in BOOLEAN
  BY <1>1 DEF FindStates, AsFields
<1>3. MatchesIn[<<c.state.query, c.state.caseSensitive>>] \in [PageIdx -> Nat]
  BY <1>2
<1> QED BY <1>3 DEF Match

LEMMA MatchSame ==
  ASSUME NEW c, NEW d, NEW i, d.state = c.state, i \in d.failed <=> i \in c.failed
  PROVE  Match(d, i) = Match(c, i)
BY DEF Match

\* The matches of a page that had none change what that page shows, if all
\* matches are highlighted.
LEMMA AnswerDrawn ==
  ASSUME NEW c \in FindFields, NEW e, NEW i \in PageIdx, Exists(c), c.pageMatches[i] = NoIndex, NEW n \in Nat,
         e.pageMatches = [c.pageMatches EXCEPT ![i] = n], e.state = c.state,
         e.highlightMatches = c.highlightMatches, e.selected = c.selected
  PROVE  /\ c.selected.page # i
         /\ \A k \in PageIdx : k # i \/ ~c.state.highlightAll => Rendered(e, k) = Rendered(c, k)
<1>1. c.pageMatches \in Matches /\ e.pageMatches \in Matches
  BY FieldTypes DEF Matches, Indices
<1>2. c.selected.page # i
  BY FieldTypes DEF Exists, Indices, NoIndex, PageIdx
<1>3. ASSUME NEW k \in PageIdx, k # i PROVE Rendered(e, k) = Rendered(c, k)
  <2>1. e.pageMatches[k] = c.pageMatches[k]
    BY <1>1, <1>3 DEF Matches
  <2>2. Computed(e, k) = Computed(c, k)
    BY <2>1 DEF Computed
  <2> QED BY <2>2 DEF Rendered
<1>4. ASSUME ~c.state.highlightAll PROVE Rendered(e, i) = Rendered(c, i)
  <2>1. \A x : x.selected.page # i /\ ~x.state.highlightAll => Rendered(x, i) = {}
    <3> TAKE x
    <3> HAVE x.selected.page # i /\ ~x.state.highlightAll
    <3>1. {<<k, k = NoIndex>> : k \in {NoIndex} \ {NoIndex}} = {}
      OBVIOUS
    <3> QED BY <3>1 DEF Rendered
  <2> QED BY <1>2, <1>4, <2>1
<1> QED BY <1>2, <1>3, <1>4

LEMMA Answer ==
  ASSUME NEW c, Good(c), NEW i \in PageIdx, c.callbacks[i] = 1, i < c.extracted,
         NEW d, d = CalculateMatch([c EXCEPT !.callbacks[i] = @ - 1], i)
  PROVE  /\ Good(d) /\ SameRequest(c, d) /\ SameMarks(c, d)
         /\ d.callbacks = [c.callbacks EXCEPT ![i] = 0]
<1> USE FindAssumption
<1> DEFINE b == [c EXCEPT !.callbacks[i] = @ - 1]
<1>1. c \in FindFields /\ c.pageMatches[i] = NoIndex /\ Exists(c)
  BY DEF Good, Awaited, Placed
<1>2. c.state # NoState /\ c.document
  BY DEF Good, Away, Blank
<1>3. /\ b \in FindFields /\ SameRequest(c, b) /\ SamePlace(c, b) /\ SameMarks(c, b) /\ SameBar(c, b)
      /\ b.pageMatches = c.pageMatches /\ b.total = c.total /\ b.layers = c.layers /\ b.undrawn = c.undrawn
      /\ b.callbacks = [c.callbacks EXCEPT ![i] = 0]
  <2>1. b = [c EXCEPT !.callbacks = [c.callbacks EXCEPT ![i] = 0]]
    BY <1>1 DEF FindFields
  <2>2. [c.callbacks EXCEPT ![i] = 0] \in [PageIdx -> Nat]
    BY <1>1, FieldTypes
  <2> HIDE DEF b
  <2>3. b \in FindFields /\ b.callbacks = [c.callbacks EXCEPT ![i] = 0]
    BY <1>1, <2>1, <2>2 DEF FindFields
  <2>4. /\ SameRequest(c, b) /\ SamePlace(c, b) /\ SameMarks(c, b) /\ SameBar(c, b)
        /\ b.pageMatches = c.pageMatches /\ b.total = c.total /\ b.layers = c.layers /\ b.undrawn = c.undrawn
    BY <1>1, <2>1 DEF FindFields, SameRequest, SamePlace, SameMarks, SameBar
  <2> QED BY <2>3, <2>4
<1>4. d = CalculateMatch(b, i)
  OBVIOUS
<1> HIDE DEF b
<1>5. \A k \in PageIdx : b.callbacks[k] = IF k = i THEN 0 ELSE c.callbacks[k]
  BY <1>1, <1>3, FieldTypes
<1>6. CASE c.state.query = NoQuery
  <2>1. d = b
    BY <1>3, <1>4, <1>6 DEF CalculateMatch, SameRequest
  <2>2. Placed(d) /\ Awaited(d) /\ AsFields(d) /\ Away(d)
    <3>1. Placed(d)
      BY <1>3, <2>1 DEF Good, Placed, Exists, Live, SamePlace, SameRequest
    <3>2. Awaited(d)
      BY <1>3, <1>5, <2>1 DEF Good, Awaited
    <3>3. AsFields(d)
      BY <1>3, <2>1 DEF Good, AsFields, SameRequest
    <3>4. Away(d)
      BY <1>2, <1>3, <2>1 DEF Away, SameRequest
    <3> QED BY <3>1, <3>2, <3>3, <3>4
  <2>3. Content(d) /\ Pending(d) /\ Drawn(d) /\ Outcome(d)
    <3>1. Content(d)
      BY ZenonT(60), <1>3, <1>6, <2>1 DEF Good, Content, Live, SameRequest
    <3>2. Pending(d)
      <4>1. \A k \in PageIdx : k >= c.extracted => k # i
        <5>1. c.extracted \in Nat /\ i \in Nat
          BY <1>1, FieldTypes DEF PageIdx
        <5> QED BY <5>1 DEF PageIdx
      <4> QED BY <1>3, <1>5, <2>1, <4>1 DEF Good, Pending, Live, SameRequest
    <3>3. Drawn(d)
      <4>1. \A k : Rendered(b, k) = Rendered(c, k)
        BY <1>3, RenderedSame DEF SameRequest, SamePlace, SameMarks
      <4> QED BY ZenonT(60), <1>3, <2>1, <4>1 DEF Good, Drawn, DrawnBut, AllDrawn, SameRequest, SamePlace
    <3>4. Outcome(d)
      BY <1>3, <1>6, <2>1 DEF Outcome, SameRequest
    <3> QED BY <3>1, <3>2, <3>3, <3>4
  <2> QED BY <1>3, <2>1, <2>2, <2>3 DEF Good
<1>7. CASE c.state.query # NoQuery
  <2> DEFINE n == Match(b, i)
             Draw(x) == IF x.state.highlightAll THEN UpdatePage(x, i) ELSE x
             Resume(x) == IF x.resume = i THEN NextPageMatch([x EXCEPT !.resume = NoIndex]) ELSE x
             Count(x) == IF n > 0 THEN UpdateResultsCount([x EXCEPT !.total = @ + n]) ELSE x
             set == [b EXCEPT !.pageMatches = [b.pageMatches EXCEPT ![i] = n]]
             drawn == Draw(set)
             resumed == Resume(drawn)
  <2>1. d = Count(resumed)
    <3>1. \A x : /\ (CHOOSE y \in {Draw(z) : z \in {x}} : TRUE) = Draw(x)
                 /\ (CHOOSE y \in {Resume(z) : z \in {x}} : TRUE) = Resume(x)
                 /\ (CHOOSE y \in {Count(z) : z \in {x}} : TRUE) = Count(x)
      <4> HIDE DEF Draw, Resume, Count
      <4> QED OBVIOUS
    <3>2. b.state.query # NoQuery
      BY <1>3, <1>7 DEF SameRequest
    <3> DEFINE raw == CHOOSE y \in {Count(z) : z \in
                 {CHOOSE v \in {Resume(u) : u \in {Draw([b EXCEPT !.pageMatches[i] = n])}} : TRUE}} : TRUE
    <3>5. CalculateMatch(b, i) = IF b.state.query = NoQuery THEN b ELSE raw
      BY Zenon DEF CalculateMatch, Then
    <3> HIDE DEF raw
    <3>3. d = raw
      BY <1>4, <3>2, <3>5
    <3> USE DEF raw
    <3>4. set = [b EXCEPT !.pageMatches[i] = n]
      BY <1>3 DEF FindFields
    <3> HIDE DEF Draw, Resume, Count, set
    <3> QED BY <3>1, <3>3, <3>4
  <2>2. n \in Nat /\ n = Match(c, i)
    BY <1>1, <1>2, <1>3, <1>7, TypeOfMatch, MatchSame DEF Good, SameRequest
  <2> HIDE DEF n
  <2> DEFINE qm == [c.pageMatches EXCEPT ![i] = n]
  <2>3. qm \in Matches /\ \A k \in PageIdx : qm[k] = IF k = i THEN n ELSE c.pageMatches[k]
    BY <1>1, <2>2, FieldTypes DEF Matches, Indices
  <2>4. set = [b EXCEPT !.pageMatches = qm]
    BY <1>3
  <2> HIDE DEF qm, set
  <2>5. /\ set \in FindFields /\ SameRequest(c, set) /\ SamePlace(c, set) /\ SameMarks(c, set) /\ SameBar(c, set)
        /\ set.pageMatches = qm /\ set.total = c.total
        /\ set.layers = c.layers /\ set.undrawn = c.undrawn /\ set.callbacks = b.callbacks
    <3>1. set \in FindFields /\ set.pageMatches = qm
      BY <1>3, <2>3, <2>4 DEF FindFields
    <3>2. /\ SameRequest(b, set) /\ SamePlace(b, set) /\ SameMarks(b, set) /\ SameBar(b, set)
          /\ set.total = b.total /\ set.layers = b.layers /\ set.undrawn = b.undrawn /\ set.callbacks = b.callbacks
      BY <1>3, <2>4 DEF FindFields, SameRequest, SamePlace, SameMarks, SameBar
    <3> QED BY <1>3, <3>1, <3>2 DEF SameRequest, SamePlace, SameMarks, SameBar
  <2>6. /\ drawn \in FindFields /\ SameRequest(c, drawn) /\ SamePlace(c, drawn) /\ SameMarks(c, drawn)
        /\ SameBar(c, drawn) /\ drawn.pageMatches = qm /\ drawn.total = c.total
        /\ drawn.undrawn = c.undrawn /\ drawn.callbacks = b.callbacks
        /\ IF c.state.highlightAll THEN Redrawn(set, drawn, {i}) ELSE drawn.layers = c.layers
    <3>1. CASE c.state.highlightAll
      <4>1. drawn = UpdatePage(set, i)
        BY <2>5, <3>1 DEF SameRequest
      <4> HIDE DEF drawn
      <4>2. /\ drawn \in FindFields /\ SameRequest(set, drawn) /\ SameMatches(set, drawn) /\ SamePlace(set, drawn)
            /\ SameMarks(set, drawn) /\ SameBar(set, drawn) /\ drawn.undrawn = set.undrawn /\ Redrawn(set, drawn, {i})
        BY <2>5, <4>1, UpdatePageFields
      <4> QED BY <2>5, <3>1, <4>2 DEF SameRequest, SameMatches, SamePlace, SameMarks, SameBar
    <3>2. CASE ~c.state.highlightAll
      <4>1. drawn = set
        BY <2>5, <3>2 DEF SameRequest
      <4> QED BY <2>5, <3>2, <4>1
    <3> QED BY <3>1, <3>2
  <2> HIDE DEF drawn
  <2>7. Exists(drawn) /\ c.selected.page # i
    <3>1. c.selected.page # i
      BY <1>1, FieldTypes DEF Exists, Indices, NoIndex, PageIdx
    <3>2. c.selected.page = NoIndex \/ c.selected.page \in PageIdx
      BY <1>1, FieldTypes DEF PageIndices
    <3> QED BY <1>1, <2>3, <2>6, <3>1, <3>2 DEF Exists, SamePlace
  <2>8. DrawnBut(c) => DrawnBut(drawn) /\ (AllDrawn(c) => AllDrawn(drawn))
    <3>1. \A k \in PageIdx : Rendered(set, k) = Rendered(drawn, k)
      BY <2>5, <2>6, RenderedSame DEF SameRequest, SamePlace, SameMarks
    <3>2. \A k \in PageIdx : k # i \/ ~c.state.highlightAll => Rendered(drawn, k) = Rendered(c, k)
      <4>1. drawn.pageMatches = [c.pageMatches EXCEPT ![i] = n]
        BY <2>6 DEF qm
      <4> QED BY <1>1, <2>2, <2>6, <4>1, AnswerDrawn DEF SameRequest, SamePlace, SameMarks
    <3>3. \A k \in LayerPages : k \in PageIdx
      OBVIOUS
    <3>4. ASSUME NEW k \in LayerPages, c.layers[k] \in {NoLayer, Rendered(c, k)}
          PROVE  drawn.layers[k] \in {NoLayer, Rendered(drawn, k)}
      <4>1. CASE c.state.highlightAll /\ k = i
        BY <2>5, <2>6, <3>1, <3>3, <4>1 DEF Redrawn
      <4>2. CASE c.state.highlightAll /\ k # i
        <5>1. drawn.layers[k] = c.layers[k]
          BY <2>5, <2>6, <4>2 DEF Redrawn
        <5> QED BY <3>2, <3>3, <3>4, <4>2, <5>1
      <4>3. CASE ~c.state.highlightAll
        BY <2>6, <3>2, <3>3, <3>4, <4>3
      <4> QED BY <4>1, <4>2, <4>3
    <3> QED BY <2>6, <3>4 DEF DrawnBut, AllDrawn, SamePlace
  <2>9. Passed(c) => Passed(drawn)
    <3>1. \A q : Dist(drawn, q) = Dist(c, q)
      BY <2>6 DEF Dist, SamePlace, SameRequest
    <3> QED BY <1>1, <2>3, <2>6, <3>1 DEF Passed, SamePlace, NoIndex
  <2>10. /\ resumed \in FindFields /\ Exists(resumed) /\ SameRequest(c, resumed) /\ SameMarks(c, resumed)
         /\ resumed.pageMatches = qm /\ resumed.total = c.total /\ resumed.callbacks = b.callbacks
         /\ resumed.undrawn = c.undrawn
         /\ Placed(resumed)
         /\ IF c.resume = i THEN Waits(drawn, resumed) \/ Ends(drawn, resumed) ELSE resumed = drawn
    <3>1. CASE c.resume = i
      <4> DEFINE x == [drawn EXCEPT !.resume = NoIndex]
      <4>1. resumed = NextPageMatch(x)
        BY <2>6, <3>1 DEF SamePlace
      <4>2. /\ x \in FindFields /\ SameRequest(drawn, x) /\ SameMatches(drawn, x) /\ SameMarks(drawn, x)
            /\ x.undrawn = drawn.undrawn /\ x.layers = drawn.layers
            /\ x.selected = drawn.selected /\ x.offset = drawn.offset /\ x.pagesToSearch = drawn.pagesToSearch
            /\ x.resume = NoIndex
        <5>1. NoIndex \in PageIndices
          BY DEF PageIndices
        <5>2. x \in FindFields /\ x.resume = NoIndex
          BY <2>6, <5>1 DEF FindFields
        <5> QED BY <2>6, <5>2 DEF FindFields, SameRequest, SameMatches, SameMarks
      <4> HIDE DEF x, resumed
      <4>3. Exists(x)
        BY <2>7, <4>2 DEF Exists, SameMatches
      <4>4. x.offset.page \in PageIdx /\ x.offset.match = NoIndex /\ x.pagesToSearch <= PageTotal
        <5>1. c.resume # NoIndex
          BY <3>1 DEF PageIdx, NoIndex
        <5> QED BY <2>6, <3>1, <4>2, <5>1 DEF Good, Placed, SamePlace
      <4>5. Searched(x, resumed)
        BY <4>1, <4>2, <4>3, <4>4, NextPageMatchFields
      <4>6. Waits(x, resumed) => Waits(drawn, resumed)
        <5>1. Passed(drawn) => Passed(x)
          BY <4>2 DEF Passed, Dist, SameRequest, SameMatches
        <5>2. DrawnBut(drawn) => DrawnBut(x)
          BY <4>2, RenderedSame DEF DrawnBut, SameRequest, SameMatches, SameMarks
        <5> QED BY <5>1, <5>2 DEF Waits
      <4>7. Ends(x, resumed) => Ends(drawn, resumed)
        <5>1. Passed(drawn) => Passed(x)
          BY <4>2 DEF Passed, Dist, SameRequest, SameMatches
        <5>2. DrawnBut(drawn) => DrawnBut(x)
          BY <4>2, RenderedSame DEF DrawnBut, SameRequest, SameMatches, SameMarks
        <5> QED BY <5>1, <5>2 DEF Ends
      <4>8. Placed(resumed)
        <5>1. resumed.pagesToSearch <= PageTotal
          <6>1. resumed.pagesToSearch \in Int /\ x.pagesToSearch \in Int
            BY <4>2, <4>5, FieldTypes DEF Searched
          <6> QED BY <4>4, <4>5, <6>1 DEF Searched
        <5>2. resumed.offset.page # NoIndex
          BY <4>5 DEF Searched, PageIdx, NoIndex
        <5>3. Waits(x, resumed) => resumed.offset.page = resumed.resume /\ resumed.offset.match = NoIndex
                                     /\ resumed.pageMatches[resumed.resume] = NoIndex
          BY DEF Waits
        <5>4. Ends(x, resumed) => resumed.resume = NoIndex /\
                (resumed.offset.match # NoIndex => resumed.pageMatches[resumed.offset.page] # NoIndex)
          BY DEF Ends
        <5> QED BY <4>5, <5>1, <5>2, <5>3, <5>4 DEF Placed, Searched
      <4> QED BY <2>6, <3>1, <4>2, <4>5, <4>6, <4>7, <4>8 DEF Searched, SameRequest, SameMatches, SameMarks
    <3>2. CASE c.resume # i
      <4>1. resumed = drawn
        BY <2>6, <3>2 DEF SamePlace
      <4>2. Placed(drawn)
        <5>1. c.resume = NoIndex \/ c.resume \in PageIdx
          BY <1>1, FieldTypes DEF PageIndices
        <5>2. c.resume # NoIndex => qm[c.resume] = NoIndex
          BY <2>3, <3>2, <5>1 DEF Good, Placed
        <5>3. c.offset.page \in PageIdx => (c.pageMatches[c.offset.page] # NoIndex => qm[c.offset.page] # NoIndex)
          BY <2>2, <2>3 DEF NoIndex
        <5>4. c.offset.page = NoIndex \/ c.offset.page \in PageIdx
          BY <1>1, FieldTypes DEF PageIndices
        <5> QED BY <2>6, <2>7, <5>2, <5>3, <5>4 DEF Good, Placed, SamePlace, SameRequest, Live
      <4> QED BY <2>6, <2>7, <3>2, <4>1, <4>2
    <3> QED BY <3>1, <3>2
  <2> HIDE DEF resumed
  <2>11. RequestMatchesCount(resumed) \in Nat \X Nat
    BY <2>10, TypeOfCount
  <2>12. /\ d \in FindFields /\ d.pageMatches = qm /\ d.total = c.total + n /\ d.callbacks = b.callbacks
         /\ SameRequest(c, d) /\ SameMarks(c, d) /\ SamePlace(resumed, d) /\ d.undrawn = c.undrawn
         /\ d.layers = resumed.layers /\ d.status = resumed.status
         /\ IF n > 0 THEN d.count = RequestMatchesCount(d) ELSE d = resumed
    <3>0. c.total \in Nat
      BY <1>1, FieldTypes
    <3>1. CASE n > 0
      <4> DEFINE x == [resumed EXCEPT !.total = c.total + n]
                 count == RequestMatchesCount(x)
      <4>1. d = UpdateResultsCount(x)
        BY <2>1, <2>10, <3>1
      <4>2. /\ x \in FindFields /\ x.total = c.total + n /\ Exists(x)
            /\ SameRequest(resumed, x) /\ SamePlace(resumed, x) /\ SameMarks(resumed, x) /\ SameBar(resumed, x)
            /\ x.pageMatches = resumed.pageMatches /\ x.layers = resumed.layers /\ x.undrawn = resumed.undrawn
            /\ x.callbacks = resumed.callbacks
        <5>1. c.total + n \in Nat
          BY <2>2, <3>0
        <5>2. x \in FindFields /\ x.total = c.total + n
          BY <2>10, <5>1 DEF FindFields
        <5>3. /\ SameRequest(resumed, x) /\ SamePlace(resumed, x) /\ SameMarks(resumed, x) /\ SameBar(resumed, x)
              /\ x.pageMatches = resumed.pageMatches /\ x.layers = resumed.layers /\ x.undrawn = resumed.undrawn
              /\ x.callbacks = resumed.callbacks
          BY <2>10 DEF FindFields, SameRequest, SamePlace, SameMarks, SameBar
        <5> QED BY <2>10, <5>2, <5>3 DEF Exists, SamePlace
      <4> HIDE DEF x
      <4>3. x.status \in Messages
        BY <4>2 DEF FindFields
      <4>4. d = UpdateUIState(x, x.status)
        BY <4>1 DEF UpdateResultsCount, UpdateUIState
      <4>5. /\ d \in FindFields
            /\ SameRequest(x, d) /\ SameMatches(x, d) /\ SamePlace(x, d) /\ SameMarks(x, d)
            /\ d.undrawn = x.undrawn /\ d.layers = x.layers
            /\ d.status = x.status /\ d.count = RequestMatchesCount(x)
        BY <4>2, <4>3, <4>4, UpdateUIStateFields
      <4>6. RequestMatchesCount(x) = RequestMatchesCount(d)
        BY <4>5, CountSame DEF SamePlace, SameMatches
      <4> QED BY <2>10, <3>1, <4>2, <4>5, <4>6 DEF SameRequest, SameMatches, SamePlace, SameMarks, SameBar
    <3>2. CASE n = 0
      <4>1. d = resumed
        BY <2>1, <3>2
      <4> QED BY <2>10, <3>0, <3>2, <4>1 DEF SamePlace
    <3> QED BY <2>2, <3>1, <3>2
  <2>13. Placed(d)
    BY <2>10, <2>12 DEF Placed, Exists, Live, SamePlace, SameRequest
  <2>14. Awaited(d)
    <3>1. ASSUME NEW k \in PageIdx
          PROVE  d.callbacks[k] \in {0, 1} /\ (d.callbacks[k] = 1 => d.pageMatches[k] = NoIndex)
      <4>1. c.callbacks[k] \in {0, 1} /\ (c.callbacks[k] = 1 => c.pageMatches[k] = NoIndex)
        BY DEF Good, Awaited
      <4>2. d.callbacks[k] = IF k = i THEN 0 ELSE c.callbacks[k]
        BY <1>5, <2>12
      <4>3. d.pageMatches[k] = IF k = i THEN n ELSE c.pageMatches[k]
        BY <2>3, <2>12
      <4> QED BY <4>1, <4>2, <4>3
    <3> QED BY <3>1 DEF Awaited
  <2>15. AsFields(d) /\ Away(d)
    <3>1. AsFields(d)
      BY <2>12 DEF Good, AsFields, SameRequest
    <3>2. Away(d)
      BY <1>2, <2>12 DEF Away, SameRequest
    <3> QED BY <3>1, <3>2
  <2>16. Content(d)
    <3> SUFFICES ASSUME Live(c)
                 PROVE  /\ \A k \in PageIdx : d.pageMatches[k] = IF d.callbacks[k] > 0 THEN NoIndex ELSE Match(d, k)
                        /\ d.total = MatchesBefore(d.pageMatches)[PageTotal]
      BY <1>7, <2>12 DEF Content, Live, SameRequest
    <3>1. /\ \A k \in PageIdx : c.pageMatches[k] = IF c.callbacks[k] > 0 THEN NoIndex ELSE Match(c, k)
          /\ c.total = MatchesBefore(c.pageMatches)[PageTotal]
      BY <1>7 DEF Good, Content
    <3>2. \A k : Match(d, k) = Match(c, k)
      BY <2>12, MatchSame DEF SameRequest
    <3>3. \A k \in PageIdx : d.pageMatches[k] = IF d.callbacks[k] > 0 THEN NoIndex ELSE Match(d, k)
      <4> TAKE k \in PageIdx
      <4>2. d.callbacks[k] = IF k = i THEN 0 ELSE c.callbacks[k]
        BY <1>5, <2>12
      <4>3. d.pageMatches[k] = IF k = i THEN n ELSE c.pageMatches[k]
        BY <2>3, <2>12
      <4>4. Match(d, k) = Match(c, k)
        BY <3>2
      <4> QED BY <2>2, <3>1, <4>2, <4>3, <4>4
    <3>4. MatchesBefore(qm)[PageTotal] = MatchesBefore(c.pageMatches)[PageTotal] + n
      BY SMTT(60), <1>1, <2>2, FieldTypes, SumOfAnswer DEF qm
    <3> QED BY <2>12, <3>1, <3>3, <3>4
  <2>17. Pending(d)
    <3>1. \A k \in PageIdx : k >= c.extracted => k # i
      <4>1. c.extracted \in Nat /\ i \in Nat
        BY <1>1, FieldTypes DEF PageIdx
      <4> QED BY <4>1 DEF PageIdx
    <3> QED BY <1>3, <1>5, <2>12, <3>1 DEF Good, Pending, Live, SameRequest
  <2>18. Drawn(d)
    <3> SUFFICES ASSUME ~c.dirtyMatch, ~c.undrawn
                 PROVE  DrawnBut(d) /\ (d.resume = NoIndex => AllDrawn(d))
      BY <2>12 DEF Drawn, SameRequest
    <3>1. DrawnBut(c) /\ (c.resume = NoIndex => AllDrawn(c))
      BY DEF Good, Drawn
    <3>2. DrawnBut(resumed) /\ (resumed.resume = NoIndex => AllDrawn(resumed))
      <4>1. CASE c.resume # i
        BY <2>6, <2>8, <2>10, <3>1, <4>1 DEF SamePlace
      <4>2. CASE c.resume = i /\ Waits(drawn, resumed)
        <5>1. resumed.resume # NoIndex
          <6>1. resumed.resume = resumed.offset.page
            BY <4>2 DEF Waits
          <6>2. resumed.resume # NoIndex \/ resumed.offset.page = NoIndex
            BY <6>1
          <6>3. Live(resumed)
            BY <1>2, <2>10 DEF Live, SameRequest
          <6> QED BY <2>10, <6>1, <6>3 DEF Placed
        <5> QED BY <2>8, <3>1, <4>2, <5>1 DEF Waits
      <4>3. CASE c.resume = i /\ Ends(drawn, resumed)
        BY <2>8, <3>1, <4>3 DEF Ends, AllDrawn, DrawnBut
      <4> QED BY <2>10, <4>1, <4>2, <4>3
    <3>3. \A k : Rendered(d, k) = Rendered(resumed, k)
      BY <2>10, <2>12, RenderedSame DEF SameRequest, SamePlace, SameMarks
    <3> QED BY <2>12, <3>2, <3>3 DEF DrawnBut, AllDrawn, SamePlace
  <2>19. Outcome(d)
    <3> SUFFICES ASSUME Live(c)
                 PROVE  IF d.resume = NoIndex THEN Over(d) ELSE ~d.turned => Passed(d)
      BY <1>7, <2>12 DEF Outcome, Live, SameRequest
    <3>1. IF c.resume = NoIndex THEN Over(c) ELSE ~c.turned => Passed(c)
      BY <1>7 DEF Good, Outcome
    <3>2. Passed(resumed) => Passed(d)
      BY <2>10, <2>12 DEF Passed, Dist, SamePlace, SameRequest
    <3>3. n = 0 => \A x, y : x.selected = y.selected /\ x.pageMatches = c.pageMatches /\ y.pageMatches = qm
                               /\ x.total = y.total /\ x.selected.page \in PageIndices /\ Exists(x)
                                 => RequestMatchesCount(x) = RequestMatchesCount(y)
      <4>1. n = 0 => \A k \in 0 .. PageTotal : MatchesBefore(qm)[k] = MatchesBefore(c.pageMatches)[k]
        <5>1. c.pageMatches \in Matches /\ c.pageMatches[i] = NoIndex
          BY <1>1, FieldTypes
        <5> DEFINE pm == c.pageMatches
        <5>2. pm \in Matches /\ pm[i] = NoIndex
          BY <5>1
        <5> HIDE DEF pm
        <5>3. n = 0 => \A k \in 0 .. PageTotal : MatchesBefore([pm EXCEPT ![i] = n])[k] = MatchesBefore(pm)[k]
          BY <2>2, <5>2, SumOfAnswer
        <5> QED BY <5>3 DEF pm, qm
      <4>2. \A x : Exists(x) /\ x.selected.match # NoIndex => x.selected.page # NoIndex
        BY DEF Exists
      <4>3. PageIndices = PageIdx \cup {NoIndex} /\ \A k \in PageIdx : k \in 0 .. PageTotal
        BY DEF PageIndices, PageIdx
      <4> QED BY <4>1, <4>2, <4>3 DEF RequestMatchesCount
    <3>4. CASE c.resume # i
      <4>1. resumed = drawn /\ d.resume = c.resume /\ d.selected = c.selected /\ d.offset = c.offset
            /\ d.pagesToSearch = c.pagesToSearch /\ d.status = c.status
        BY <2>6, <2>10, <2>12, <3>4 DEF SamePlace, SameBar
      <4>2. CASE d.resume # NoIndex
        BY <2>9, <2>10, <2>12, <3>1, <3>2, <4>1, <4>2 DEF SameMarks
      <4>3. CASE d.resume = NoIndex
        <5>1. Over(c)
          BY <3>1, <4>1, <4>3
        <5>2. d.count = RequestMatchesCount(d)
          <6>1. CASE n > 0
            BY <2>12, <6>1
          <6>2. CASE n = 0
            <7>1. d.count = c.count /\ d.total = c.total
              BY <2>6, <2>10, <2>12, <4>1, <6>2 DEF SameBar
            <7>2. RequestMatchesCount(c) = RequestMatchesCount(d)
              BY <1>1, <2>12, <3>3, <4>1, <6>2, <7>1, FieldTypes
            <7> QED BY <5>1, <7>1, <7>2 DEF Over
          <6> QED BY <2>2, <6>1, <6>2
        <5>3. ~d.turned => d.selected.page # NoIndex /\ d.status # "notFound"
          BY <1>1, <2>12, <4>1, <5>1 DEF Over, SameMarks, NoIndex
        <5> QED BY <4>3, <5>2, <5>3 DEF Over
      <4> QED BY <4>2, <4>3
    <3>5. CASE c.resume = i /\ Waits(drawn, resumed)
      <4>1. d.resume # NoIndex
        <5>1. Live(resumed)
          BY <2>10 DEF Live, SameRequest
        <5>2. resumed.resume = resumed.offset.page
          BY <3>5 DEF Waits
        <5> QED BY <2>10, <2>12, <5>1, <5>2 DEF Placed, SamePlace
      <4>2. c.resume # NoIndex
        BY <3>5 DEF PageIdx, NoIndex
      <4> QED BY <2>9, <2>12, <3>1, <3>2, <3>5, <4>1, <4>2 DEF Waits, SameMarks
    <3>6. CASE c.resume = i /\ Ends(drawn, resumed)
      <4>1. d.resume = NoIndex
        BY <2>12, <3>6 DEF Ends, SamePlace
      <4>2. d.count = RequestMatchesCount(d)
        BY <2>2, <2>12, <3>6 DEF Ends
      <4>3. c.resume # NoIndex
        BY <3>6 DEF PageIdx, NoIndex
      <4>4. ~c.turned => \/ resumed.selected.page # NoIndex /\ resumed.status # "notFound"
                         \/ \A k \in PageIdx : resumed.pageMatches[k] = 0
        BY <2>9, <3>1, <3>6, <4>3 DEF Ends
      <4>5. ~d.turned => \/ d.selected.page # NoIndex /\ d.status # "notFound"
                         \/ \A k \in PageIdx : d.pageMatches[k] = 0
        BY <2>10, <2>12, <4>4 DEF SamePlace, SameMarks
      <4> QED BY <4>1, <4>2, <4>5 DEF Over
    <3> QED BY <2>10, <3>4, <3>5, <3>6
  <2>20. Good(d)
    BY <2>12, <2>13, <2>14, <2>15, <2>16, <2>17, <2>18, <2>19 DEF Good
  <2> QED BY <1>3, <2>12, <2>20
<1> QED BY <1>6, <1>7

\* What a page that has its text has done, once it has answered.
LEMMA PageAnswers ==
  ASSUME NEW c, Good(c), NEW i \in PageIdx, i < c.extracted, NEW d, d = RunCallbacks(c, i)
  PROVE  /\ Good(d) /\ SameRequest(c, d) /\ SameMarks(c, d)
         /\ d.callbacks = [c.callbacks EXCEPT ![i] = 0]
<1> DEFINE Do(x) == CalculateMatch([x EXCEPT !.callbacks[i] = @ - 1], i)
           n == c.callbacks[i]
           Def(f) == f = [k \in 0 .. n |-> IF k = 0 THEN c ELSE Do(f[k - 1])]
           Raw(f) == f = [k \in 0 .. n |-> IF k = 0 THEN c
                       ELSE CHOOSE x \in {Do(y) : y \in {f[k - 1]}} : TRUE]
<1>1. c \in FindFields /\ n \in {0, 1}
  BY DEF Good, Awaited
<1>2. \A f : Raw(f) <=> Def(f)
  <2> HIDE DEF Do
  <2>1. \A f, k : (CHOOSE x \in {Do(y) : y \in {f[k - 1]}} : TRUE) = Do(f[k - 1])
    OBVIOUS
  <2> QED BY <2>1, Zenon
<1>3. d = (CHOOSE f : Raw(f))[n]
  BY DEF RunCallbacks, Repeat
<1> DEFINE g == [k \in 0 .. n |-> IF k = 0 THEN c ELSE Do(c)]
<1>4. Def(g)
  <2> HIDE DEF Do, n
  <2> QED BY <1>1
<1> DEFINE s == CHOOSE f : Raw(f)
<1>5. Def(s)
  <2> HIDE DEF Def, Raw
  <2> QED BY <1>2, <1>4
<1>6. d = s[n]
  BY <1>3
<1> HIDE DEF s, Raw, g
<1>7. CASE n = 0
  <2>1. d = c
    <3> HIDE DEF n, Do
    <3> QED BY <1>5, <1>6, <1>7
  <2>2. c.callbacks = [c.callbacks EXCEPT ![i] = 0]
    BY <1>1, <1>7, FieldTypes
  <2> QED BY <2>1, <2>2 DEF SameRequest, SameMarks
<1>8. CASE n = 1
  <2>1. d = Do(c)
    <3> HIDE DEF n, Do
    <3>1. s[0] = c
      BY <1>5, <1>8
    <3> QED BY <1>5, <1>6, <1>8, <3>1
  <2>2. d = CalculateMatch([c EXCEPT !.callbacks[i] = @ - 1], i)
    BY <2>1
  <2> QED BY <1>8, <2>2, Answer
<1> QED BY <1>1, <1>7, <1>8

\* A state that c comes to while pages answer.
Reached(c) == {d \in FindFields : Good(d) /\ SameRequest(c, d) /\ SameMarks(c, d)}

\* Once the pages have answered, none whose text is there is waited for.
LEMMA AllAnswer ==
  ASSUME NEW c, Good(c), NEW d, d = Settle(c)
  PROVE  Good(d) /\ Rest(d) /\ SameRequest(c, d) /\ SameMarks(c, d)
<1> USE FindAssumption
<1> DEFINE n == c.extracted
           S == Reached(c)
           F == [x \in (0 .. n - 1) \X S |-> RunCallbacks(x[2], x[1])]
           Def(f) == f = [k \in 0 .. n |-> IF k = 0 THEN c ELSE RunCallbacks(f[k - 1], k - 1)]
           Raw(f) == f = [k \in 0 .. n |-> IF k = 0 THEN c
                       ELSE CHOOSE x \in {RunCallbacks(y, k - 1) : y \in {f[k - 1]}} : TRUE]
<1>0. c \in FindFields /\ n \in 0 .. PageTotal
  BY FieldTypes DEF Good
<1>1. ASSUME NEW k \in 0 .. n - 1, NEW x \in S
      PROVE  RunCallbacks(x, k) \in S /\ RunCallbacks(x, k).callbacks = [x.callbacks EXCEPT ![k] = 0]
  <2>1. k \in PageIdx /\ k < x.extracted /\ Good(x)
    BY <1>0, <1>1 DEF PageIdx, Reached, SameRequest
  <2>2. \A y : y = RunCallbacks(x, k) => /\ Good(y) /\ SameRequest(x, y) /\ SameMarks(x, y)
                                         /\ y.callbacks = [x.callbacks EXCEPT ![k] = 0]
    BY <2>1, PageAnswers
  <2> QED BY <1>1, <2>2 DEF Reached, Good, SameRequest, SameMarks
<1>2. c \in S /\ F \in [(0 .. n - 1) \X S -> S]
  <2>1. c \in S
    BY <1>0 DEF Reached, SameRequest, SameMarks
  <2> HIDE DEF S
  <2> QED BY <1>1, <2>1
<1> HIDE DEF n, S
<1>3. PICK g : Runs(n, S, c, F, g)
  <2> HIDE DEF F
  <2>1. n \in Nat
    BY <1>0
  <2> QED BY <1>2, <2>1, Iteration
<1>4. Def(g)
  <2>1. g \in [0 .. n -> S]
    <3> HIDE DEF F
    <3> QED BY <1>3 DEF Runs
  <2>2. ASSUME NEW k \in 0 .. n, k # 0
        PROVE  RunCallbacks(g[k - 1], k - 1) = F[<<k - 1, g[k - 1]>>]
    <3>1. k - 1 \in 0 .. n - 1 /\ g[k - 1] \in S
      BY <1>0, <2>1, <2>2
    <3> QED BY <3>1
  <2> HIDE DEF F
  <2> QED BY <2>2, <1>3 DEF Runs
<1>5. \A f : Raw(f) <=> Def(f)
  <2>1. \A f, k : (CHOOSE x \in {RunCallbacks(y, k - 1) : y \in {f[k - 1]}} : TRUE) = RunCallbacks(f[k - 1], k - 1)
    OBVIOUS
  <2> QED BY <2>1, Zenon
<1>6. d = (CHOOSE f : Raw(f))[n]
  BY DEF Settle, Repeat, n
<1> DEFINE s == CHOOSE f : Raw(f)
<1>7. Def(s) /\ d = s[n]
  <2>1. Def(s)
    <3> HIDE DEF Def, Raw
    <3> QED BY <1>4, <1>5
  <2> QED BY <1>6, <2>1
<1> HIDE DEF s, F, Raw
<1>8. s[0] = c /\ \A k \in 0 .. n - 1 : s[k + 1] = RunCallbacks(s[k], k)
  <2>1. s[0] = c
    BY <1>0, <1>7
  <2>2. ASSUME NEW k \in 0 .. n - 1 PROVE s[k + 1] = RunCallbacks(s[k], k)
    <3>1. k + 1 \in 0 .. n /\ k + 1 # 0 /\ (k + 1) - 1 = k
      BY <1>0
    <3> QED BY <1>7, <3>1
  <2> QED BY <2>1, <2>2
<1> HIDE DEF Def
<1> DEFINE G == {m \in 0 .. n : s[m] \in S /\ \A k \in 0 .. m - 1 : s[m].callbacks[k] = 0}
<1>9. 0 \in G
  BY <1>0, <1>2, <1>8
<1>10. ASSUME NEW m \in 0 .. n - 1, m \in G PROVE m + 1 \in G
  <2>1. s[m] \in S /\ (\A k \in 0 .. m - 1 : s[m].callbacks[k] = 0) /\ s[m + 1] = RunCallbacks(s[m], m)
    BY <1>8, <1>10
  <2>2. s[m + 1] \in S /\ s[m + 1].callbacks = [s[m].callbacks EXCEPT ![m] = 0]
    BY <1>1, <2>1
  <2>3. s[m].callbacks \in [PageIdx -> Nat]
    BY <2>1, FieldTypes DEF S, Reached
  <2>4. \A k \in 0 .. m : s[m + 1].callbacks[k] = 0
    <3>1. \A k \in 0 .. m : k \in PageIdx /\ (k = m \/ k \in 0 .. m - 1)
      BY <1>0 DEF PageIdx
    <3> QED BY <2>1, <2>2, <2>3, <3>1
  <2>5. m + 1 \in 0 .. n /\ (m + 1) - 1 = m
    BY <1>0
  <2> QED BY <2>2, <2>4, <2>5
<1> HIDE DEF G
<1>11. \A m \in 0 .. n : m \in G
  <2>1. n \in Nat
    BY <1>0
  <2> QED BY <1>9, <1>10, <2>1, Climb
<1>12. d \in S /\ \A k \in 0 .. n - 1 : d.callbacks[k] = 0
  <2>1. n \in G
    BY <1>0, <1>11
  <2> QED BY <1>7, <2>1 DEF G
<1>13. Good(d) /\ SameRequest(c, d) /\ SameMarks(c, d)
  BY <1>12 DEF S, Reached
<1>14. Rest(d)
  <2>1. d.extracted = n
    BY <1>13 DEF SameRequest, n
  <2> QED BY <1>0, <1>12, <2>1 DEF Rest, PageIdx
<1> QED BY <1>13, <1>14

----------------------------------------------------------------------------
(* The next match                                                          *)

\* What is asked for, but for the mark that it is not the search of before.
SameTask(c, d) ==
  /\ d.document = c.document /\ d.state = c.state /\ d.timeout = c.timeout
  /\ d.extracting = c.extracting /\ d.extracted = c.extracted /\ d.failed = c.failed
  /\ d.opened = c.opened /\ d.waiting = c.waiting /\ d.fields = c.fields

NoLayersKept(c, d) == \A i \in LayerPages : c.layers[i] = NoLayer => d.layers[i] = NoLayer

\* A new search starts with nothing.
LEMMA ForgetFields ==
  ASSUME NEW c \in FindFields, Awaited(c), NEW d, d = AwaitText(ForgetMatches(c))
  PROVE  /\ d \in FindFields /\ SameTask(c, d) /\ SameMarks(c, d) /\ SameBar(c, d)
         /\ ~d.dirtyMatch /\ ~d.undrawn /\ d.resume = NoIndex /\ d.total = 0
         /\ d.selected.page = NoIndex /\ d.selected.match = NoIndex
         /\ d.offset.page \in PageIdx /\ d.offset.match = NoIndex
         /\ d.pagesToSearch = c.pagesToSearch
         /\ \A i \in PageIdx : d.pageMatches[i] = NoIndex /\ d.callbacks[i] = 1
         /\ AllDrawn(d) /\ NoLayersKept(c, d)
<1> USE FindAssumption
<1> DEFINE selected == [page |-> NoIndex, match |-> NoIndex]
           offset == [page |-> c.page, match |-> NoIndex, wrapped |-> FALSE]
           none == [i \in PageIdx |-> NoIndex]
           e == [c EXCEPT !.dirtyMatch = FALSE, !.selected = selected, !.offset = offset,
                          !.resume = NoIndex, !.pageMatches = none, !.total = 0]
           f == UpdateAllPages(e)
           callbacks == [i \in PageIdx |-> IF f.callbacks[i] > 0 THEN f.callbacks[i] ELSE 1]
<1>1. selected \in MatchPlaces /\ offset \in Offsets /\ none \in Matches /\ NoIndex \in PageIndices
  <2>1. c.page \in PageIdx
    BY FieldTypes
  <2> QED BY <2>1 DEF MatchPlaces, Offsets, Matches, Indices, PageIndices
<1>2. selected.page = NoIndex /\ selected.match = NoIndex /\ offset.page = c.page /\ offset.match = NoIndex
      /\ \A i \in PageIdx : none[i] = NoIndex
  OBVIOUS
<1>3. d = [f EXCEPT !.callbacks = callbacks]
  BY DEF AwaitText, ForgetMatches
<1> HIDE DEF selected, offset, none
<1>4. /\ e \in FindFields /\ SameTask(c, e) /\ SameMarks(c, e) /\ SameBar(c, e)
      /\ ~e.dirtyMatch /\ e.resume = NoIndex /\ e.total = 0 /\ e.selected = selected
      /\ e.offset = offset /\ e.pageMatches = none /\ e.pagesToSearch = c.pagesToSearch
      /\ e.callbacks = c.callbacks /\ e.layers = c.layers
  <2>1. e \in FindFields
    <3>1. [c EXCEPT !.dirtyMatch = FALSE, !.selected = selected, !.offset = offset] \in FindFields
      BY ZenonT(60), <1>1 DEF FindFields
    <3> DEFINE u == [c EXCEPT !.dirtyMatch = FALSE, !.selected = selected, !.offset = offset]
    <3>2. e = [u EXCEPT !.resume = NoIndex, !.pageMatches = none, !.total = 0]
      BY DEF FindFields
    <3> HIDE DEF e, u
    <3>3. u \in FindFields
      BY <3>1 DEF u
    <3> QED BY ZenonT(60), <1>1, <3>2, <3>3 DEF FindFields
  <2>2. /\ ~e.dirtyMatch /\ e.resume = NoIndex /\ e.total = 0 /\ e.selected = selected
        /\ e.offset = offset /\ e.pageMatches = none /\ e.pagesToSearch = c.pagesToSearch
        /\ e.callbacks = c.callbacks /\ e.layers = c.layers
    BY DEF FindFields
  <2>3. SameTask(c, e) /\ SameMarks(c, e) /\ SameBar(c, e)
    BY DEF FindFields, SameTask, SameMarks, SameBar
  <2> QED BY <2>1, <2>2, <2>3
<1> HIDE DEF e
<1>5. /\ f \in FindFields
      /\ SameRequest(e, f) /\ SameMatches(e, f) /\ SamePlace(e, f) /\ SameMarks(e, f) /\ SameBar(e, f)
      /\ ~f.undrawn /\ Redrawn(e, f, PageIdx)
  BY <1>4, UpdateAllPagesFields
<1> HIDE DEF f
<1>6. callbacks \in [PageIdx -> Nat] /\ \A i \in PageIdx : callbacks[i] = 1
  <2>1. \A i \in PageIdx : f.callbacks[i] \in {0, 1}
    BY <1>4, <1>5 DEF Awaited, SameMatches
  <2> QED BY <2>1
<1> HIDE DEF callbacks
<1>7. /\ d \in FindFields /\ d.callbacks = callbacks /\ d.layers = f.layers /\ ~d.undrawn
      /\ SameRequest(f, d) /\ SamePlace(f, d) /\ SameMarks(f, d) /\ SameBar(f, d)
      /\ d.pageMatches = f.pageMatches /\ d.total = f.total
  <2>1. d \in FindFields /\ d.callbacks = callbacks
    BY ZenonT(60), <1>3, <1>5, <1>6 DEF FindFields
  <2>2. /\ d.layers = f.layers /\ ~d.undrawn
        /\ SameRequest(f, d) /\ SamePlace(f, d) /\ SameMarks(f, d) /\ SameBar(f, d)
        /\ d.pageMatches = f.pageMatches /\ d.total = f.total
    BY <1>3, <1>5 DEF FindFields, SameRequest, SamePlace, SameMarks, SameBar
  <2> QED BY <2>1, <2>2
<1>8. SameTask(c, d) /\ SameMarks(c, d) /\ SameBar(c, d)
  BY <1>4, <1>5, <1>7 DEF SameTask, SameRequest, SameMarks, SameBar
<1>9. /\ ~d.dirtyMatch /\ ~d.undrawn /\ d.resume = NoIndex /\ d.total = 0
      /\ d.selected = selected /\ d.offset = offset /\ d.pagesToSearch = c.pagesToSearch
      /\ d.pageMatches = none
  BY <1>4, <1>5, <1>7 DEF SameRequest, SamePlace, SameMatches
<1>10. AllDrawn(d) /\ NoLayersKept(c, d)
  <2>1. \A i \in LayerPages : i \in PageIdx
    OBVIOUS
  <2>2. \A i : Rendered(d, i) = Rendered(e, i)
    BY <1>5, <1>7, RenderedSame DEF SameRequest, SamePlace, SameMarks, SameMatches
  <2> QED BY <1>4, <1>5, <1>7, <2>1, <2>2 DEF AllDrawn, NoLayersKept, Redrawn
<1>11. c.page \in PageIdx
  BY FieldTypes
<1> QED BY <1>2, <1>6, <1>7, <1>8, <1>9, <1>10, <1>11

\* The search for the match after the selected one.
Search(c) ==
  IF c.offset.match = NoIndex THEN NextPageMatch(c)
  ELSE IF c.offset.match + (IF c.state.findPrevious THEN -1 ELSE 1) \in 0 .. c.pageMatches[c.offset.page] - 1
    THEN UpdateMatch([c EXCEPT !.offset.match = @ + (IF c.state.findPrevious THEN -1 ELSE 1)], TRUE)
  ELSE NextPageMatch(AdvanceOffsetPage(c))

LEMMA SearchFields ==
  ASSUME NEW c \in FindFields, Placed(c), c.offset.page \in PageIdx, c.pagesToSearch = PageTotal,
         NEW d, d = Search(c)
  PROVE  Searched(c, d) /\ Passed(c)
<1> USE FindAssumption
<1>1. \A x : x.offset.page \in PageIdx /\ x.pagesToSearch \in {PageTotal, PageTotal - 1} => Passed(x)
  <2>1. \A x, q : x.offset.page \in PageIdx /\ q \in PageIdx => Dist(x, q) \in 1 .. PageTotal
    BY DistBounds
  <2> QED BY <2>1 DEF Passed
<1>2. Passed(c)
  BY <1>1
<1>3. CASE c.offset.match = NoIndex
  <2>1. d = NextPageMatch(c)
    BY <1>3 DEF Search
  <2>2. c.pagesToSearch <= PageTotal
    OBVIOUS
  <2>3. Searched(c, d)
    BY <1>3, <2>1, <2>2, NextPageMatchFields DEF Placed
  <2> QED BY <1>2, <2>3
<1> DEFINE step == IF c.state.findPrevious THEN -1 ELSE 1
<1>4. CASE c.offset.match # NoIndex /\ c.offset.match + step \in 0 .. c.pageMatches[c.offset.page] - 1
  <2> DEFINE offset == [c.offset EXCEPT !.match = c.offset.match + step]
             e == [c EXCEPT !.offset = offset]
  <2>1. d = UpdateMatch(e, TRUE)
    <3>1. e = [c EXCEPT !.offset.match = @ + step]
      BY DEF FindFields
    <3> QED BY <1>4, <3>1 DEF Search
  <2>2. offset \in Offsets /\ offset.page = c.offset.page /\ offset.match = c.offset.match + step
    <3>1. c.offset \in Offsets /\ c.offset.match + step \in Indices
      BY <1>4, FieldTypes DEF Indices
    <3> QED BY <3>1 DEF Offsets
  <2> HIDE DEF offset
  <2>3. e \in FindFields /\ e.offset = offset
    BY <2>2 DEF FindFields
  <2>4. /\ SameRequest(c, e) /\ SameMatches(c, e) /\ SameMarks(c, e) /\ e.undrawn = c.undrawn
        /\ e.selected = c.selected /\ e.resume = c.resume /\ e.layers = c.layers
        /\ e.pagesToSearch = c.pagesToSearch
    BY DEF FindFields, SameRequest, SameMatches, SameMarks
  <2> HIDE DEF e
  <2>5. Exists(e) /\ AtMatch(e)
    BY <1>4, <2>2, <2>3, <2>4 DEF Placed, Exists, AtMatch, SameMatches
  <2>6. /\ d \in FindFields /\ Exists(d) /\ Ended(e, d, TRUE)
        /\ DrawnBut(e) => AllDrawn(d)
        /\ \A i \in LayerPages : e.layers[i] = NoLayer => d.layers[i] = NoLayer
    BY <2>1, <2>3, <2>5, UpdateMatchFields
  <2>7. DrawnBut(c) => DrawnBut(e)
    BY <2>4, RenderedSame DEF DrawnBut, SameRequest, SameMatches, SameMarks
  <2>8. Ends(c, d)
    <3>1. d.resume = NoIndex
      BY <1>4, <2>4, <2>6 DEF Ended, Placed
    <3>2. d.pageMatches[d.offset.page] # NoIndex
      BY <1>4, <2>2, <2>3, <2>4, <2>6 DEF Ended, Placed, SameMatches
    <3>3. d.selected.page # NoIndex
      BY <2>2, <2>3, <2>6 DEF Ended, PageIdx, NoIndex
    <3> QED BY <2>6, <2>7, <3>1, <3>2, <3>3 DEF Ends, Ended
  <2>9. d.pagesToSearch <= c.pagesToSearch /\ d.offset.page \in PageIdx
    BY <2>2, <2>3, <2>4, <2>6 DEF Ended
  <2>10. Searched(c, d)
    BY <2>4, <2>6, <2>8, <2>9 DEF Searched, Ended, SameRequest, SameMatches, SameMarks
  <2> QED BY <1>2, <2>10
<1>5. CASE c.offset.match # NoIndex /\ c.offset.match + step \notin 0 .. c.pageMatches[c.offset.page] - 1
  <2> DEFINE e == AdvanceOffsetPage(c)
  <2>1. d = NextPageMatch(e)
    BY <1>5 DEF Search
  <2>2. /\ e \in FindFields /\ Advanced(c, e) /\ e.pagesToSearch = c.pagesToSearch - 1
        /\ e.offset.page \in PageIdx /\ e.offset.match = NoIndex
    BY AdvanceFields
  <2> HIDE DEF e
  <2>3. Exists(e) /\ e.resume = NoIndex /\ e.pagesToSearch <= PageTotal /\ Passed(e)
    <3>1. Exists(e) /\ e.resume = NoIndex
      BY <1>5, <2>2 DEF Advanced, Placed, Exists, SameMatches
    <3> QED BY <1>1, <2>2, <3>1
  <2>4. Searched(e, d)
    BY <2>1, <2>2, <2>3, NextPageMatchFields
  <2>5. DrawnBut(c) => DrawnBut(e)
    BY <2>2, RenderedSame DEF Advanced, DrawnBut, SameRequest, SameMatches, SameMarks
  <2>6. Waits(c, d) \/ Ends(c, d)
    BY <2>3, <2>4, <2>5 DEF Searched, Waits, Ends
  <2>7. d.pagesToSearch <= c.pagesToSearch
    <3>1. d.pagesToSearch \in Int /\ c.pagesToSearch \in Int
      BY <2>4, FieldTypes DEF Searched
    <3> QED BY <2>2, <2>4, <3>1 DEF Searched
  <2>8. Searched(c, d)
    BY <2>2, <2>4, <2>6, <2>7 DEF Searched, Advanced, SameRequest, SameMatches, SameMarks
  <2> QED BY <1>2, <2>8
<1> QED BY <1>3, <1>4, <1>5

\* What is held is the beginning or the middle of a search, whatever is shown.
Sound(c) ==
  c \in FindFields /\ Placed(c) /\ Awaited(c) /\ AsFields(c) /\ Content(c) /\ Pending(c)

Highlighted(c) == [c EXCEPT !.highlightMatches = TRUE]

LEMMA HighlightedFields ==
  ASSUME NEW c \in FindFields, NEW d, d = Highlighted(c)
  PROVE  /\ d \in FindFields /\ SameRequest(c, d) /\ SameMatches(c, d) /\ SamePlace(c, d) /\ SameBar(c, d)
         /\ d.layers = c.layers /\ d.page = c.page /\ d.undrawn = c.undrawn
         /\ d.highlightMatches /\ d.turned = c.turned
<1>1. d \in FindFields /\ d.highlightMatches
  BY DEF Highlighted, FindFields
<1>2. SameRequest(c, d) /\ SameMatches(c, d) /\ SamePlace(c, d) /\ SameBar(c, d)
  BY DEF Highlighted, FindFields, SameRequest, SameMatches, SamePlace, SameBar
<1>3. d.layers = c.layers /\ d.page = c.page /\ d.undrawn = c.undrawn /\ d.turned = c.turned
  BY DEF Highlighted, FindFields
<1> QED BY <1>1, <1>2, <1>3

\* What a search is for, and what there is to search.
SameAsk(c, d) ==
  /\ d.state = c.state /\ d.fields = c.fields /\ d.failed = c.failed /\ d.extracted = c.extracted
  /\ d.dirtyMatch = c.dirtyMatch

\* Soundness reads neither the marks nor the bar nor the layers.
LEMMA SoundKept ==
  ASSUME NEW c, Sound(c), NEW d \in FindFields, SameAsk(c, d),
         SameMatches(c, d), d.pagesToSearch <= PageTotal, d.selected = c.selected,
         d.offset = c.offset, d.resume = c.resume
  PROVE  Sound(d)
<1>1. Placed(d)
  BY DEF Sound, Placed, Exists, Live, SameAsk, SameMatches
<1>2. Awaited(d) /\ AsFields(d)
  BY DEF Sound, Awaited, AsFields, SameAsk, SameMatches
<1>3. Content(d)
  <2>1. \A i : Match(d, i) = Match(c, i)
    BY DEF Match, SameAsk
  <2> QED BY <2>1 DEF Sound, Content, Live, SameAsk, SameMatches
<1>4. Pending(d)
  BY DEF Sound, Pending, Live, SameAsk, SameMatches
<1> QED BY <1>1, <1>2, <1>3, <1>4 DEF Sound

LEMMA SoundSame ==
  ASSUME NEW c, Sound(c), NEW d \in FindFields, SameTask(c, d), d.dirtyMatch = c.dirtyMatch,
         SameMatches(c, d), d.pagesToSearch <= PageTotal, d.selected = c.selected,
         d.offset = c.offset, d.resume = c.resume
  PROVE  Sound(d)
<1>1. SameAsk(c, d)
  BY DEF SameTask, SameAsk
<1> QED BY <1>1, SoundKept

LEMMA PreparedFields ==
  ASSUME NEW c, Sound(c), c.state # NoState, NEW d, d = Prepared(Highlighted(c))
  PROVE  /\ Sound(d) /\ SameTask(c, d) /\ ~d.dirtyMatch /\ d.highlightMatches /\ d.turned = c.turned
         /\ NoLayersKept(c, d)
         /\ IF c.dirtyMatch THEN d.resume = NoIndex /\ ~d.undrawn /\ AllDrawn(d)
            ELSE d = Highlighted(c) /\ d.undrawn = c.undrawn
<1> USE FindAssumption
<1> DEFINE h == Highlighted(c)
<1>1. /\ h \in FindFields /\ SameRequest(c, h) /\ SameMatches(c, h) /\ SamePlace(c, h) /\ SameBar(c, h)
      /\ h.layers = c.layers /\ h.page = c.page /\ h.undrawn = c.undrawn
      /\ h.highlightMatches /\ h.turned = c.turned
  BY HighlightedFields DEF Sound
<1> HIDE DEF h
<1>2. SameTask(c, h)
  BY <1>1 DEF SameTask, SameRequest
<1>3. d = Prepared(h)
  BY DEF h
<1>4. CASE ~c.dirtyMatch
  <2>1. d = h /\ ~h.dirtyMatch
    BY <1>1, <1>3, <1>4 DEF Prepared, SameRequest
  <2>2. h.pagesToSearch <= PageTotal
    BY <1>1 DEF Sound, Placed, SamePlace
  <2>3. Sound(h)
    BY <1>1, <1>2, <2>2, SoundSame DEF SameRequest, SamePlace
  <2> QED BY <1>1, <1>2, <1>4, <2>1, <2>3 DEF NoLayersKept, h
<1>5. CASE c.dirtyMatch
  <2>1. d = AwaitText(ForgetMatches(h))
    BY <1>1, <1>3, <1>5 DEF Prepared, SameRequest
  <2>2. Awaited(h)
    BY <1>1 DEF Sound, Awaited, SameMatches
  <2>3. /\ d \in FindFields /\ SameTask(h, d) /\ SameMarks(h, d) /\ SameBar(h, d)
        /\ ~d.dirtyMatch /\ ~d.undrawn /\ d.resume = NoIndex /\ d.total = 0
        /\ d.selected.page = NoIndex /\ d.selected.match = NoIndex
        /\ d.offset.page \in PageIdx /\ d.offset.match = NoIndex
        /\ d.pagesToSearch = h.pagesToSearch
        /\ \A i \in PageIdx : d.pageMatches[i] = NoIndex /\ d.callbacks[i] = 1
        /\ AllDrawn(d) /\ NoLayersKept(h, d)
    BY <1>1, <2>1, <2>2, ForgetFields
  <2>4. SameTask(c, d) /\ d.highlightMatches /\ d.turned = c.turned /\ NoLayersKept(c, d)
    BY <1>1, <1>2, <2>3 DEF SameTask, SameMarks, NoLayersKept
  <2>5. Placed(d)
    BY <1>1, <2>3 DEF Sound, Placed, Exists, SamePlace, PageIdx, NoIndex
  <2>6. Awaited(d) /\ AsFields(d)
    BY <2>3, <2>4 DEF Sound, Awaited, AsFields, SameTask
  <2>7. Content(d)
    <3>1. MatchesBefore(d.pageMatches)[PageTotal] = 0
      BY <2>3, FieldTypes, SumOfNone
    <3> QED BY <2>3, <3>1 DEF Content
  <2>8. Pending(d)
    BY <2>3 DEF Pending
  <2> QED BY <1>5, <2>3, <2>4, <2>5, <2>6, <2>7, <2>8 DEF Sound
<1> QED BY <1>4, <1>5

\* A search that is begun, or goes on, is at its end or waits for a page.
LEMMA NextMatchFields ==
  ASSUME NEW c, Sound(c), c.state # NoState,
         ~c.dirtyMatch /\ c.state.query # NoQuery /\ Resuming(c) /\ ~c.turned => Passed(c),
         NEW d, d = NextMatch(c)
  PROVE  /\ Sound(d) /\ SameTask(c, d) /\ ~d.dirtyMatch /\ d.highlightMatches /\ Outcome(d)
         /\ NoLayersKept(c, d) /\ IF c.dirtyMatch THEN ~d.undrawn ELSE d.undrawn = c.undrawn
         /\ c.dirtyMatch \/ DrawnBut(Highlighted(c)) => DrawnBut(d) /\ (d.resume = NoIndex => AllDrawn(d))
<1> USE FindAssumption
<1> DEFINE p == Prepared(Highlighted(c))
           q == [p EXCEPT !.pagesToSearch = PageTotal, !.turned = FALSE]
           Advance(x) == CHOOSE u \in {NextPageMatch(t) : t \in {AdvanceOffsetPage(x)}} : TRUE
           Seek(x) ==
             IF x.offset.match = NoIndex THEN NextPageMatch(x)
             ELSE IF x.offset.match + (IF x.state.findPrevious THEN -1 ELSE 1)
                       \in 0 .. x.pageMatches[x.offset.page] - 1
               THEN UpdateMatch([x EXCEPT !.offset.match = @ + (IF x.state.findPrevious THEN -1 ELSE 1)], TRUE)
             ELSE Advance(x)
           Body(x) ==
             IF x.state.query = NoQuery THEN UpdateUIState(x, "found")
             ELSE IF Resuming(x) THEN x
             ELSE CHOOSE v \in {Seek(w) : w \in {[x EXCEPT !.pagesToSearch = PageTotal, !.turned = FALSE]}} : TRUE
<1>1. /\ Sound(p) /\ SameTask(c, p) /\ ~p.dirtyMatch /\ p.highlightMatches /\ p.turned = c.turned
      /\ NoLayersKept(c, p)
      /\ IF c.dirtyMatch THEN p.resume = NoIndex /\ ~p.undrawn /\ AllDrawn(p)
         ELSE p = Highlighted(c) /\ p.undrawn = c.undrawn
  BY PreparedFields
<1>2. p \in FindFields /\ p.state = c.state /\ Live(p)
  BY <1>1 DEF Sound, SameTask, Live
<1> HIDE DEF p
<1>4. d = IF p.state.query = NoQuery THEN UpdateUIState(p, "found")
          ELSE IF Resuming(p) THEN p ELSE Search(q)
  <2>0. NextMatch(c) = CHOOSE y \in {Body(z) : z \in {p}} : TRUE
    BY Zenon DEF NextMatch, SearchFrom, Then, Highlighted, p
  <2>1. d = CHOOSE y \in {Body(z) : z \in {p}} : TRUE
    <3> HIDE DEF Body
    <3> QED BY <2>0
  <2>2. \A x : (CHOOSE y \in {Body(z) : z \in {x}} : TRUE) = Body(x)
    <3> HIDE DEF Body
    <3> QED OBVIOUS
  <2>3. \A x : (CHOOSE v \in {Seek(w) : w \in {x}} : TRUE) = Seek(x)
    <3> HIDE DEF Seek
    <3> QED OBVIOUS
  <2>4. \A x : Advance(x) = NextPageMatch(AdvanceOffsetPage(x))
    OBVIOUS
  <2>5. Seek(q) = Search(q)
    <3> HIDE DEF Advance, q
    <3> QED BY <2>4, Zenon DEF Search
  <2> HIDE DEF Seek
  <2> QED BY <2>1, <2>2, <2>3, <2>5
<1> HIDE DEF Body, Seek, Advance
<1>5. c.dirtyMatch \/ DrawnBut(Highlighted(c)) => DrawnBut(p)
  BY <1>1 DEF DrawnBut, AllDrawn
<1>6. CASE p.state.query = NoQuery
  <2>1. d = UpdateUIState(p, "found")
    BY <1>4, <1>6
  <2>2. /\ d \in FindFields /\ SameRequest(p, d) /\ SameMatches(p, d) /\ SamePlace(p, d) /\ SameMarks(p, d)
        /\ d.undrawn = p.undrawn /\ d.layers = p.layers
    <3>1. "found" \in Messages /\ Exists(p)
      BY <1>1 DEF Sound, Placed, Messages
    <3> QED BY <1>2, <2>1, <3>1, UpdateUIStateFields
  <2>3. Sound(d)
    BY <1>1, <2>2, SoundSame DEF Sound, Placed, SamePlace, SameRequest, SameTask
  <2>4. SameTask(c, d) /\ ~d.dirtyMatch /\ d.highlightMatches /\ NoLayersKept(c, d)
    BY <1>1, <2>2 DEF SameTask, SameRequest, SameMarks, NoLayersKept
  <2>5. Outcome(d)
    BY <1>6, <2>2 DEF Outcome, SameRequest
  <2>6. p.selected.page = NoIndex
    <3>1. p.selected.page \in PageIndices
      BY <1>2, FieldTypes
    <3>2. \A i \in PageIdx : p.pageMatches[i] = NoIndex
      BY <1>1, <1>2, <1>6 DEF Sound, Content
    <3>3. \A k : ~(k \in 0 .. NoIndex - 1)
      BY DEF NoIndex
    <3> QED BY <1>1, <3>1, <3>2, <3>3 DEF Sound, Placed, Exists, PageIndices
  <2>7. DrawnBut(p) => DrawnBut(d) /\ AllDrawn(d)
    <3>1. \A i : Rendered(d, i) = Rendered(p, i)
      BY <2>2, RenderedSame DEF SameRequest, SamePlace, SameMarks, SameMatches
    <3>2. \A i \in LayerPages : i # p.selected.page
      BY <2>6 DEF PageIdx, NoIndex
    <3> QED BY <2>2, <3>1, <3>2 DEF DrawnBut, AllDrawn, SamePlace
  <2> QED BY <1>1, <1>5, <2>2, <2>3, <2>4, <2>5, <2>7
<1>7. CASE p.state.query # NoQuery /\ Resuming(p)
  <2>1. d = p
    BY <1>4, <1>7
  <2>2. ~c.dirtyMatch /\ p.resume # NoIndex
    BY <1>1, <1>7 DEF Resuming
  <2>3. SamePlace(c, p) /\ SameMatches(c, p)
    BY <1>1, <2>2, HighlightedFields DEF Sound
  <2>4. ~p.turned => Passed(p)
    BY <1>1, <1>2, <1>7, <2>2, <2>3 DEF Resuming, SamePlace, SameMatches, Passed, Dist
  <2>5. Outcome(p)
    BY <2>2, <2>4 DEF Outcome
  <2> QED BY <1>1, <1>5, <2>1, <2>2, <2>5
<1>8. CASE p.state.query # NoQuery /\ ~Resuming(p)
  <2>1. d = Search(q)
    BY <1>4, <1>8
  <2>2. /\ q \in FindFields /\ SameRequest(p, q) /\ SameMatches(p, q) /\ q.undrawn = p.undrawn
        /\ q.offset = p.offset /\ q.selected = p.selected /\ q.resume = p.resume /\ q.layers = p.layers
        /\ q.highlightMatches = p.highlightMatches /\ ~q.turned /\ q.pagesToSearch = PageTotal
    <3>1. PageTotal \in Int
      OBVIOUS
    <3>2. q \in FindFields /\ ~q.turned /\ q.pagesToSearch = PageTotal
      BY ZenonT(60), <1>2, <3>1 DEF FindFields
    <3> QED BY <1>2, <3>2 DEF FindFields, SameRequest, SameMatches
  <2> HIDE DEF q
  <2>3. Sound(q)
    <3>1. q.pagesToSearch <= PageTotal
      BY <2>2
    <3> QED BY <1>1, <2>2, <3>1, SoundSame DEF SameRequest, SameTask
  <2>4. q.offset.page \in PageIdx
    BY <1>1, <1>2, <2>2, FieldTypes DEF Sound, Placed, PageIndices
  <2>5. Searched(q, d) /\ Passed(q)
    BY <2>1, <2>2, <2>3, <2>4, SearchFields DEF Sound
  <2>6. Placed(d)
    <3>1. d.pagesToSearch <= PageTotal
      BY <2>2, <2>5 DEF Searched
    <3>2. d.offset.page # NoIndex
      BY <2>5 DEF Searched, PageIdx, NoIndex
    <3>3. Waits(q, d) => d.offset.page = d.resume /\ d.offset.match = NoIndex /\ d.pageMatches[d.resume] = NoIndex
      BY DEF Waits
    <3>4. Ends(q, d) => d.resume = NoIndex /\ (d.offset.match # NoIndex => d.pageMatches[d.offset.page] # NoIndex)
      BY DEF Ends
    <3> QED BY <2>5, <3>1, <3>2, <3>3, <3>4 DEF Searched, Placed
  <2>7. Sound(d)
    <3>1. Awaited(d) /\ AsFields(d)
      BY <2>3, <2>5 DEF Searched, Sound, Awaited, AsFields, SameRequest, SameMatches
    <3>2. Content(d) /\ Pending(d)
      <4>1. \A i : Match(d, i) = Match(q, i)
        BY <2>5 DEF Searched, SameRequest, Match
      <4> QED BY <2>3, <2>5, <4>1 DEF Searched, Sound, Content, Pending, Live, SameRequest, SameMatches
    <3> QED BY <2>5, <2>6, <3>1, <3>2 DEF Sound, Searched
  <2>8. SameTask(c, d) /\ ~d.dirtyMatch /\ d.highlightMatches /\ ~d.turned /\ NoLayersKept(c, d) /\ d.undrawn = p.undrawn
    BY <1>1, <2>2, <2>5 DEF Searched, SameRequest, SameTask, SameMarks, NoLayersKept
  <2>9. Outcome(d)
    <3>1. CASE Waits(q, d)
      <4>1. d.resume # NoIndex
        BY <2>5, <3>1 DEF Waits, Searched, PageIdx, NoIndex
      <4> QED BY <2>5, <3>1, <4>1 DEF Waits, Outcome
    <3>2. CASE Ends(q, d)
      BY <2>5, <3>2 DEF Ends, Outcome, Over
    <3> QED BY <2>5, <3>1, <3>2 DEF Searched
  <2>10. DrawnBut(p) => DrawnBut(q)
    BY <2>2, RenderedSame DEF DrawnBut, SameRequest, SameMatches
  <2>11. DrawnBut(p) => DrawnBut(d) /\ (d.resume = NoIndex => AllDrawn(d))
    <3>1. CASE Waits(q, d)
      <4>1. d.resume # NoIndex
        BY <2>5, <3>1 DEF Waits, Searched, PageIdx, NoIndex
      <4> QED BY <2>10, <3>1, <4>1 DEF Waits
    <3>2. CASE Ends(q, d)
      BY <2>10, <3>2 DEF Ends, DrawnBut, AllDrawn
    <3> QED BY <2>5, <3>1, <3>2 DEF Searched
  <2> QED BY <1>1, <1>5, <2>7, <2>8, <2>9, <2>11
<1> QED BY <1>6, <1>7, <1>8

----------------------------------------------------------------------------
(* What waits for the text of the document                                 *)

Bare(c) == \A i \in LayerPages : c.layers[i] = NoLayer

\* What the callbacks leave of what was asked for.
Kept(c, d) ==
  /\ d.document = c.document /\ d.state = c.state /\ d.extracted = c.extracted
  /\ d.failed = c.failed /\ d.opened = c.opened /\ d.waiting = c.waiting /\ d.fields = c.fields

\* What is searched, held and shown, whatever the clock and the bar say.
SameSearch(c, d) ==
  /\ SameAsk(c, d) /\ SameMatches(c, d) /\ SamePlace(c, d) /\ SameMarks(c, d) /\ SameBar(c, d)
  /\ d.layers = c.layers /\ d.undrawn = c.undrawn

LEMMA GoodKept ==
  ASSUME NEW c, NEW d \in FindFields, SameSearch(c, d)
  PROVE  /\ Sound(c) => Sound(d)
         /\ Drawn(c) => Drawn(d)
         /\ Outcome(c) => Outcome(d)
<1>1. Sound(c) => Sound(d)
  BY SoundKept DEF SameSearch, SamePlace, Sound, Placed
<1>2. \A i : Rendered(d, i) = Rendered(c, i)
  BY RenderedSame DEF SameSearch, SameAsk, SameMatches, SamePlace, SameMarks
<1>3. Drawn(c) => Drawn(d)
  BY <1>2 DEF SameSearch, SameAsk, SamePlace, Drawn, DrawnBut, AllDrawn
<1>4. RequestMatchesCount(d) = RequestMatchesCount(c)
  BY CountSame DEF SameSearch, SameMatches, SamePlace
<1>5. Passed(c) => Passed(d)
  BY DEF Passed, Dist, SameSearch, SameAsk, SameMatches, SamePlace
<1>6. Over(c) => Over(d)
  BY <1>4 DEF SameSearch, SameMatches, SamePlace, SameMarks, SameBar, Over
<1>7. Outcome(c) => Outcome(d)
  BY <1>5, <1>6 DEF SameSearch, SameAsk, SamePlace, SameMarks, Outcome, Live
<1> QED BY <1>1, <1>3, <1>7

LEMMA BareDrawn == \A c : Bare(c) => DrawnBut(c) /\ AllDrawn(c) /\ Drawn(c)
BY DEF Bare, DrawnBut, AllDrawn, Drawn

\* A search with its matches at hand turns the highlights on.
LEMMA HighlightedDrawn ==
  ASSUME NEW c \in FindFields, DrawnBut(c), c.highlightMatches \/ ~c.state.highlightAll
  PROVE  DrawnBut(Highlighted(c))
<1> DEFINE h == Highlighted(c)
<1>1. /\ SameRequest(c, h) /\ SameMatches(c, h) /\ SamePlace(c, h) /\ h.layers = c.layers /\ h.highlightMatches
  BY HighlightedFields
<1> HIDE DEF h
<1>2. ASSUME NEW i \in LayerPages, i # c.selected.page
      PROVE  Rendered(h, i) = Rendered(c, i)
  <2>1. CASE c.highlightMatches
    <3>1. h.highlightMatches = c.highlightMatches
      <4>1. c.highlightMatches \in BOOLEAN /\ h \in FindFields
        BY HighlightedFields DEF FindFields, h
      <4>2. h.highlightMatches \in BOOLEAN
        BY <4>1 DEF FindFields
      <4> QED BY <1>1, <2>1, <4>1, <4>2, Zenon
    <3> QED BY <1>1, <3>1, RenderedSame DEF SameRequest, SameMatches, SamePlace
  <2>2. CASE ~c.highlightMatches /\ ~c.state.highlightAll
    <3>1. Rendered(c, i) = {}
      BY <2>2 DEF Rendered
    <3>2. \A x : x.selected.page # i /\ ~x.state.highlightAll => Rendered(x, i) = {}
      <4> TAKE x
      <4> HAVE x.selected.page # i /\ ~x.state.highlightAll
      <4>1. {<<k, k = NoIndex>> : k \in {NoIndex} \ {NoIndex}} = {}
        OBVIOUS
      <4> QED BY <4>1 DEF Rendered
    <3> QED BY <1>1, <1>2, <2>2, <3>1, <3>2 DEF SameRequest, SamePlace
  <2> QED BY <2>1, <2>2
<1> QED BY <1>1, <1>2 DEF DrawnBut, SamePlace, h

\* Layers that are all drawn again show what is held.
LEMMA RedrawnAll ==
  ASSUME NEW c, Sound(c), Outcome(c), NEW d, d = UpdateAllPages(c)
  PROVE  /\ Sound(d) /\ Outcome(d) /\ Drawn(d) /\ SameRequest(c, d) /\ NoLayersKept(c, d)
<1>1. /\ c \in FindFields /\ d \in FindFields
      /\ SameRequest(c, d) /\ SameMatches(c, d) /\ SamePlace(c, d) /\ SameMarks(c, d) /\ SameBar(c, d)
      /\ Redrawn(c, d, PageIdx)
  BY UpdateAllPagesFields DEF Sound
<1>2. Sound(d)
  BY <1>1, SoundKept DEF SameRequest, SameAsk, SamePlace, Sound, Placed
<1>3. Outcome(d)
  <2>1. Passed(c) => Passed(d)
    BY <1>1 DEF Passed, Dist, SameRequest, SameMatches, SamePlace
  <2>2. RequestMatchesCount(d) = RequestMatchesCount(c)
    BY <1>1, CountSame DEF SameMatches, SamePlace
  <2>3. Over(c) => Over(d)
    BY <1>1, <2>2 DEF SameMatches, SamePlace, SameMarks, SameBar, Over
  <2> QED BY <1>1, <2>1, <2>3 DEF SameRequest, SamePlace, SameMarks, Outcome, Live
<1>4. AllDrawn(d)
  <2>1. \A i : Rendered(d, i) = Rendered(c, i)
    BY <1>1, RenderedSame DEF SameRequest, SameMatches, SamePlace, SameMarks
  <2>2. \A i \in LayerPages : i \in PageIdx
    BY FindAssumption
  <2> QED BY <1>1, <2>1, <2>2 DEF AllDrawn, Redrawn
<1>5. Drawn(d) /\ NoLayersKept(c, d)
  BY <1>1, <1>4 DEF Drawn, DrawnBut, AllDrawn, NoLayersKept, Redrawn
<1> QED BY <1>1, <1>2, <1>3, <1>5

\* A document is searched for something.
Asking(c) == c.document /\ c.state # NoState

LEMMA Goodness ==
  ASSUME NEW c
  PROVE  /\ Good(c) => Sound(c) /\ Outcome(c) /\ Drawn(c) /\ Away(c)
         /\ Sound(c) /\ Outcome(c) /\ Drawn(c) /\ Asking(c) => Good(c)
BY DEF Good, Sound, Away, Asking

\* The search of the button, the keys and the clock.
LEMMA NextMatchGood ==
  ASSUME NEW c, Sound(c), Outcome(c), Asking(c), NEW d, d = NextMatch(c)
  PROVE  /\ Sound(d) /\ Outcome(d) /\ Asking(d) /\ SameTask(c, d) /\ NoLayersKept(c, d)
         /\ c.dirtyMatch => Drawn(d)
         /\ Drawn(c) /\ (c.highlightMatches \/ ~c.state.highlightAll) => Drawn(d)
         /\ IF c.dirtyMatch THEN ~d.undrawn ELSE d.undrawn = c.undrawn
<1>1. ~c.dirtyMatch /\ c.state.query # NoQuery /\ Resuming(c) /\ ~c.turned => Passed(c)
  BY DEF Outcome, Live, Asking, Resuming
<1>2. /\ Sound(d) /\ SameTask(c, d) /\ ~d.dirtyMatch /\ d.highlightMatches /\ Outcome(d)
      /\ NoLayersKept(c, d) /\ IF c.dirtyMatch THEN ~d.undrawn ELSE d.undrawn = c.undrawn
      /\ c.dirtyMatch \/ DrawnBut(Highlighted(c)) => DrawnBut(d) /\ (d.resume = NoIndex => AllDrawn(d))
  BY <1>1, NextMatchFields DEF Asking
<1>3. Asking(d)
  BY <1>2 DEF Asking, SameTask
<1>4. c.dirtyMatch => Drawn(d)
  BY <1>2 DEF Drawn
<1>5. ASSUME Drawn(c), c.highlightMatches \/ ~c.state.highlightAll, ~c.dirtyMatch
      PROVE  Drawn(d)
  <2>1. CASE c.undrawn
    BY <1>2, <1>5, <2>1 DEF Drawn
  <2>2. CASE ~c.undrawn
    <3>1. c \in FindFields /\ DrawnBut(c)
      BY <1>5, <2>2 DEF Drawn, Sound
    <3>2. DrawnBut(Highlighted(c))
      BY <1>5, <3>1, HighlightedDrawn
    <3> QED BY <1>2, <3>2 DEF Drawn
  <2> QED BY <2>1, <2>2
<1> QED BY <1>2, <1>3, <1>4, <1>5

\* The rest of onFind: what is held and shown agrees with what is asked for.
LEMMA OnFindReadyGood ==
  ASSUME NEW c, Sound(c), Outcome(c), Asking(c), NEW type \in Asks \ {"close"},
         \/ Bare(c) \/ c.dirtyMatch
         \/ type = "again" /\ Drawn(c)
         \/ type = "highlightallchange",
         NEW d, d = OnFindReady(c, type)
  PROVE  Good(d) /\ Kept(c, d) /\ NoLayersKept(c, d)
<1> DEFINE b == [c EXCEPT !.extracting = TRUE]
           now == [b EXCEPT !.timeout = FALSE]
           timed == [b EXCEPT !.timeout = TRUE]
           next == NextMatch(now)
           shown == Highlighted(now)
<1>1. \A x : x \in {now, timed} =>
        x \in FindFields /\ SameSearch(c, x) /\ Kept(c, x) /\ Asking(x)
  <2>1. b \in FindFields /\ b = [c EXCEPT !.extracting = TRUE]
    BY DEF Sound, FindFields
  <2>2. SameSearch(c, b) /\ Kept(c, b)
    BY DEF Sound, FindFields, SameSearch, SameAsk, SameMatches, SamePlace, SameMarks, SameBar, Kept
  <2> HIDE DEF b
  <2>3. \A t \in BOOLEAN : [b EXCEPT !.timeout = t] \in FindFields
    <3> TAKE t \in BOOLEAN
    <3>1. b \in FindFields
      BY <2>1
    <3> QED BY <3>1 DEF FindFields
  <2>4. \A t \in BOOLEAN : SameSearch(b, [b EXCEPT !.timeout = t]) /\ Kept(b, [b EXCEPT !.timeout = t])
    BY <2>1 DEF FindFields, SameSearch, SameAsk, SameMatches, SamePlace, SameMarks, SameBar, Kept
  <2>5. now \in FindFields /\ timed \in FindFields /\ SameSearch(b, now) /\ SameSearch(b, timed)
        /\ Kept(b, now) /\ Kept(b, timed)
    BY <2>3, <2>4
  <2> HIDE DEF now, timed
  <2>6. \A x : x \in {now, timed} => SameSearch(c, x)
    BY <2>2, <2>5 DEF SameSearch, SameAsk, SameMatches, SamePlace, SameMarks, SameBar
  <2>7. \A x : x \in {now, timed} => Kept(c, x)
    BY <2>2, <2>5 DEF Kept
  <2> QED BY <2>5, <2>6, <2>7 DEF Asking, Kept
<1>2. d = IF type = "" THEN timed
          ELSE IF b.dirtyMatch THEN next
          ELSE IF type = "again"
            THEN IF ~b.highlightMatches /\ b.state.highlightAll THEN UpdateAllPages(next) ELSE next
          ELSE IF type = "highlightallchange"
            THEN UpdateAllPages(IF b.timeout THEN next ELSE shown)
          ELSE next
  <2>1. \A x : (CHOOSE y \in {UpdateAllPages(z) : z \in {x}} : TRUE) = UpdateAllPages(x)
    OBVIOUS
  <2> HIDE DEF b, now, timed
  <2>2. OnFindReady(c, type) =
          IF type = "" THEN timed
          ELSE IF b.dirtyMatch THEN next
          ELSE IF type = "again"
            THEN IF ~b.highlightMatches /\ b.state.highlightAll
                   THEN CHOOSE y \in {UpdateAllPages(z) : z \in {next}} : TRUE ELSE next
          ELSE IF type = "highlightallchange"
            THEN CHOOSE y \in {UpdateAllPages(z) : z \in {IF b.timeout THEN next ELSE shown}} : TRUE
          ELSE next
    BY Zenon DEF OnFindReady, Then, b, now, timed, Highlighted
  <2> HIDE DEF next, shown
  <2> QED BY <2>1, <2>2
<1>3. b.dirtyMatch = c.dirtyMatch /\ b.highlightMatches = c.highlightMatches /\ b.state = c.state
  BY DEF Sound, FindFields
<1> HIDE DEF b, now, timed
<1>4. \A x : x \in {now, timed} => /\ Sound(x) /\ Outcome(x) /\ (Drawn(c) => Drawn(x)) /\ NoLayersKept(c, x)
                                   /\ x.dirtyMatch = c.dirtyMatch /\ x.highlightMatches = c.highlightMatches
  BY <1>1, GoodKept DEF SameSearch, SameAsk, SameMarks, NoLayersKept
<1>5. /\ Sound(next) /\ Outcome(next) /\ Asking(next) /\ SameTask(now, next) /\ NoLayersKept(now, next)
      /\ now.dirtyMatch => Drawn(next)
      /\ Drawn(now) /\ (now.highlightMatches \/ ~now.state.highlightAll) => Drawn(next)
  BY <1>1, <1>4, NextMatchGood
<1> HIDE DEF next
<1>6. Kept(c, next) /\ NoLayersKept(c, next)
  BY <1>1, <1>4, <1>5 DEF Kept, SameTask, NoLayersKept
<1>7. \A x, y : Sound(x) /\ Outcome(x) /\ Asking(x) /\ Kept(c, x) /\ NoLayersKept(c, x) /\ y = UpdateAllPages(x)
        => Good(y) /\ Kept(c, y) /\ NoLayersKept(c, y)
  <2> TAKE x, y
  <2> HAVE Sound(x) /\ Outcome(x) /\ Asking(x) /\ Kept(c, x) /\ NoLayersKept(c, x) /\ y = UpdateAllPages(x)
  <2>1. Sound(y) /\ Outcome(y) /\ Drawn(y) /\ SameRequest(x, y) /\ NoLayersKept(x, y)
    BY RedrawnAll
  <2>2. Asking(y) /\ Kept(c, y) /\ NoLayersKept(c, y)
    BY <2>1 DEF Asking, Kept, NoLayersKept, SameRequest
  <2> QED BY <2>1, <2>2, Goodness
<1>8. Bare(c) => Bare(next)
  BY <1>6 DEF Bare, NoLayersKept
<1>9. CASE type = ""
  <2>1. d = timed
    BY <1>2, <1>9
  <2>2. Drawn(timed)
    <3>1. Bare(c) => Drawn(c)
      BY BareDrawn
    <3>2. c.dirtyMatch => Drawn(c)
      BY DEF Drawn
    <3> QED BY <1>4, <1>9, <3>1, <3>2
  <2> QED BY <1>1, <1>4, <2>1, <2>2, Goodness
<1>10. Sound(shown) /\ Outcome(shown) /\ Asking(shown) /\ Kept(c, shown) /\ NoLayersKept(c, shown)
  <2>1. /\ shown \in FindFields /\ SameRequest(now, shown) /\ SameMatches(now, shown) /\ SamePlace(now, shown)
        /\ SameBar(now, shown) /\ shown.layers = now.layers /\ shown.turned = now.turned
    BY <1>1, HighlightedFields
  <2> HIDE DEF shown
  <2>2. Sound(shown)
    BY <1>4, <2>1, SoundKept DEF SameRequest, SameAsk, SamePlace, Sound, Placed
  <2>3. Outcome(shown)
    <3>1. RequestMatchesCount(shown) = RequestMatchesCount(now)
      BY <2>1, CountSame DEF SameMatches, SamePlace
    <3>2. Passed(now) => Passed(shown)
      BY <2>1 DEF Passed, Dist, SameRequest, SameMatches, SamePlace
    <3>3. Over(now) => Over(shown)
      BY <2>1, <3>1 DEF SameMatches, SamePlace, SameBar, Over
    <3>4. Outcome(now)
      BY <1>4
    <3> QED BY <2>1, <3>2, <3>3, <3>4 DEF SameRequest, SamePlace, Outcome, Live
  <2>4. Asking(shown) /\ Kept(c, shown) /\ NoLayersKept(c, shown)
    BY <1>1, <1>4, <2>1 DEF Asking, Kept, NoLayersKept, SameRequest
  <2> QED BY <2>2, <2>3, <2>4
<1> HIDE DEF shown
<1>11. CASE type # "" /\ c.dirtyMatch
  <2>1. d = next
    BY <1>2, <1>3, <1>11
  <2> QED BY <1>4, <1>5, <1>6, <1>11, <2>1, Goodness
<1>12. CASE type = "again" /\ ~c.dirtyMatch
  <2>1. CASE ~c.highlightMatches /\ c.state.highlightAll
    <3>1. d = UpdateAllPages(next)
      BY <1>2, <1>3, <1>12, <2>1
    <3> QED BY <1>5, <1>6, <1>7, <3>1
  <2>2. CASE c.highlightMatches \/ ~c.state.highlightAll
    <3>1. d = next
      BY <1>2, <1>3, <1>12, <2>2
    <3>2. Drawn(c)
      BY <1>12, BareDrawn
    <3>3. Drawn(next)
      BY <1>1, <1>4, <1>5, <2>2, <3>2 DEF Kept
    <3> QED BY <1>5, <1>6, <3>1, <3>3, Goodness
  <2> QED BY <2>1, <2>2
<1>13. CASE type = "highlightallchange" /\ ~c.dirtyMatch
  <2>1. d = UpdateAllPages(IF b.timeout THEN next ELSE shown)
    BY <1>2, <1>3, <1>13
  <2>2. CASE b.timeout
    BY <1>5, <1>6, <1>7, <2>1, <2>2
  <2>3. CASE ~b.timeout
    BY <1>7, <1>10, <2>1, <2>3
  <2> QED BY <2>2, <2>3
<1>14. CASE type \notin {"", "again", "highlightallchange"} /\ ~c.dirtyMatch
  <2>1. d = next /\ Bare(c)
    BY <1>2, <1>3, <1>14
  <2> QED BY <1>5, <1>6, <1>8, <2>1, BareDrawn, Goodness
<1> QED BY <1>9, <1>11, <1>12, <1>13, <1>14

\* The rest of onFindBarClose.
LEMMA OnCloseReadyGood ==
  ASSUME NEW c, Good(c), c.document, NEW d, d = OnCloseReady(c)
  PROVE  Good(d) /\ Kept(c, d) /\ NoLayersKept(c, d)
<1> DEFINE resume == IF Resuming(c) THEN NoIndex ELSE c.resume
           dirty == c.dirtyMatch \/ Resuming(c)
           b == [c EXCEPT !.timeout = FALSE, !.resume = resume, !.dirtyMatch = dirty]
           u == UpdateUIState(b, "found")
           v == [u EXCEPT !.highlightMatches = FALSE]
<1>1. c \in FindFields /\ Sound(c) /\ Outcome(c) /\ Away(c) /\ Exists(c)
  BY DEF Good, Sound, Placed
<1>2. resume \in PageIndices /\ dirty \in BOOLEAN /\ (dirty => c.dirtyMatch \/ resume = NoIndex)
      /\ (~dirty => resume = c.resume /\ ~c.dirtyMatch) /\ resume \in {c.resume, NoIndex}
      /\ (c.resume = NoIndex => (dirty <=> c.dirtyMatch))
  BY <1>1, FieldTypes DEF PageIndices, Resuming
<1>3. d = UpdateAllPages(v)
  <2>1. \A x : (CHOOSE y \in {UpdateAllPages(z) : z \in {x}} : TRUE) = UpdateAllPages(x)
    OBVIOUS
  <2>2. OnCloseReady(c) = CHOOSE y \in {UpdateAllPages(z) : z \in {v}} : TRUE
    BY Zenon DEF OnCloseReady, Then
  <2> HIDE DEF v
  <2> QED BY <2>1, <2>2
<1> HIDE DEF resume, dirty
<1>4. /\ b \in FindFields /\ SameMatches(c, b) /\ SameMarks(c, b) /\ Kept(c, b)
      /\ b.offset = c.offset /\ b.selected = c.selected /\ b.pagesToSearch = c.pagesToSearch
      /\ b.resume = resume /\ b.dirtyMatch = dirty /\ ~b.timeout /\ b.layers = c.layers
      /\ SameBar(c, b)
  <2>1. b \in FindFields
    BY ZenonT(60), <1>1, <1>2 DEF FindFields
  <2>2. /\ b.offset = c.offset /\ b.selected = c.selected /\ b.pagesToSearch = c.pagesToSearch
        /\ b.resume = resume /\ b.dirtyMatch = dirty /\ ~b.timeout /\ b.layers = c.layers
    BY <1>1 DEF FindFields
  <2>3. SameMatches(c, b) /\ SameMarks(c, b) /\ Kept(c, b) /\ SameBar(c, b)
    BY <1>1 DEF FindFields, SameMatches, SameMarks, Kept, SameBar
  <2> QED BY <2>1, <2>2, <2>3
<1> HIDE DEF b
<1>5. Exists(b)
  BY <1>1, <1>4 DEF Exists, SameMatches
<1>6. /\ u \in FindFields /\ SameRequest(b, u) /\ SameMatches(b, u) /\ SamePlace(b, u) /\ SameMarks(b, u)
      /\ u.layers = b.layers /\ u.status = "found" /\ u.count = RequestMatchesCount(b)
  <2>1. "found" \in Messages
    BY DEF Messages
  <2> QED BY <1>4, <1>5, <2>1, UpdateUIStateFields
<1> HIDE DEF u
<1>7. /\ v \in FindFields /\ SameRequest(u, v) /\ SameMatches(u, v) /\ SamePlace(u, v) /\ v.turned = u.turned
      /\ v.layers = u.layers /\ SameBar(u, v)
  <2>1. v \in FindFields /\ v.turned = u.turned /\ v.layers = u.layers
    BY ZenonT(60), <1>6 DEF FindFields
  <2> QED BY <1>6, <2>1 DEF FindFields, SameRequest, SameMatches, SamePlace, SameBar
<1> HIDE DEF v
<1>8. /\ SameMatches(c, v) /\ v.turned = c.turned /\ Kept(c, v)
      /\ v.offset = c.offset /\ v.selected = c.selected /\ v.pagesToSearch = c.pagesToSearch
      /\ v.resume = resume /\ v.dirtyMatch = dirty /\ ~v.timeout /\ v.layers = c.layers
      /\ v.status = "found" /\ v.count = RequestMatchesCount(v)
  <2>1. RequestMatchesCount(b) = RequestMatchesCount(v)
    BY <1>6, <1>7, CountSame DEF SameMatches, SamePlace
  <2> QED BY <1>4, <1>6, <1>7, <2>1 DEF SameRequest, SameMatches, SamePlace, SameMarks, SameBar, Kept
<1>9. Sound(v)
  <2>1. Placed(v)
    BY <1>1, <1>2, <1>8 DEF Sound, Placed, Exists, Live, SameMatches, Kept
  <2>2. Awaited(v) /\ AsFields(v)
    BY <1>1, <1>8 DEF Sound, Awaited, AsFields, SameMatches, Kept
  <2>3. Content(v) /\ Pending(v)
    <3>1. \A i : Match(v, i) = Match(c, i)
      BY <1>8 DEF Match, Kept
    <3> QED BY <1>1, <1>2, <1>8, <3>1 DEF Sound, Content, Pending, Live, SameMatches, Kept
  <2> QED BY <1>7, <2>1, <2>2, <2>3 DEF Sound
<1>10. Outcome(v)
  <2> SUFFICES ASSUME Live(v), v.state.query # NoQuery
               PROVE  IF v.resume = NoIndex THEN Over(v) ELSE ~v.turned => Passed(v)
    BY DEF Outcome
  <2>1. Live(c) /\ v.resume = c.resume /\ c.state.query # NoQuery
    BY <1>2, <1>8 DEF Live, Kept
  <2>2. IF c.resume = NoIndex THEN Over(c) ELSE ~c.turned => Passed(c)
    BY <1>1, <2>1 DEF Outcome
  <2>3. Passed(c) => Passed(v)
    BY <1>8 DEF Passed, Dist, SameMatches, Kept
  <2>4. Over(c) => Over(v)
    BY <1>8 DEF Over, SameMatches
  <2> QED BY <1>8, <2>1, <2>2, <2>3, <2>4
<1>11. Sound(d) /\ Outcome(d) /\ Drawn(d) /\ SameRequest(v, d) /\ NoLayersKept(v, d)
  BY <1>3, <1>9, <1>10, RedrawnAll
<1>12. Kept(c, d) /\ NoLayersKept(c, d)
  BY <1>8, <1>11 DEF Kept, SameRequest, NoLayersKept
<1>13. CASE c.state # NoState
  <2>1. Asking(d)
    BY <1>12, <1>13 DEF Kept, Asking
  <2> QED BY <1>11, <1>12, <2>1, Goodness
<1>14. CASE c.state = NoState
  <2>1. /\ SameMatches(v, d) /\ SamePlace(v, d)
    BY <1>3, <1>7, UpdateAllPagesFields
  <2>2. Blank(d)
    BY <1>1, <1>2, <1>8, <1>11, <1>14, <2>1 DEF Away, Blank, SameRequest, SameMatches, SamePlace
  <2>3. ~d.dirtyMatch
    BY <1>1, <1>2, <1>8, <1>11, <1>14 DEF Away, Blank, SameRequest
  <2>4. Away(d)
    BY <1>1, <1>12, <1>14, <2>2, <2>3 DEF Away, Kept
  <2> QED BY <1>11, <1>12, <2>4 DEF Good, Sound
<1> QED BY <1>13, <1>14

\* What was asked for while the document was opened is done when it is there.
Kin(c) == {d \in FindFields : Good(d) /\ Kept(c, d) /\ Bare(d)}

LEMMA CallbackGood ==
  ASSUME NEW c, Good(c), c.document, Bare(c), NEW type \in Asks, c.state = NoState => type = "close",
         NEW d, d = Callback(c, type)
  PROVE  Good(d) /\ Kept(c, d) /\ Bare(d)
<1>1. CASE type = "close"
  <2>1. d = OnCloseReady(c)
    BY <1>1 DEF Callback
  <2>2. Good(d) /\ Kept(c, d) /\ NoLayersKept(c, d)
    BY <2>1, OnCloseReadyGood
  <2> QED BY <2>2 DEF Bare, NoLayersKept
<1>2. CASE type # "close"
  <2>1. d = OnFindReady(c, type) /\ type \in Asks \ {"close"}
    BY <1>2 DEF Callback
  <2>2. Sound(c) /\ Outcome(c) /\ Asking(c)
    BY <1>2, Goodness DEF Asking
  <2>3. Good(d) /\ Kept(c, d) /\ NoLayersKept(c, d)
    BY <2>1, <2>2, OnFindReadyGood
  <2> QED BY <2>3 DEF Bare, NoLayersKept
<1> QED BY <1>1, <1>2

LEMMA AllReadyGood ==
  ASSUME NEW c, Good(c), c.document, Bare(c), NEW types \in Seq(Asks),
         c.state = NoState => \A k \in 1 .. Len(types) : types[k] = "close",
         NEW d, d = AllReady(c, types)
  PROVE  Good(d) /\ Kept(c, d)
<1> USE FindAssumption
<1> DEFINE n == Len(types)
           S == Kin(c)
           Do(x, k) == Callback(x, types[k + 1])
           F == [x \in (0 .. n - 1) \X S |-> Do(x[2], x[1])]
           Def(f) == f = [k \in 0 .. n |-> IF k = 0 THEN c ELSE Do(f[k - 1], k - 1)]
           Raw(f) == f = [k \in 0 .. n |-> IF k = 0 THEN c
                       ELSE CHOOSE x \in {Do(y, k - 1) : y \in {f[k - 1]}} : TRUE]
<1>0. n \in Nat /\ c \in FindFields
  BY DEF Good
<1>1. ASSUME NEW k \in 0 .. n - 1, NEW x \in S
      PROVE  Do(x, k) \in S
  <2>1. k + 1 \in 1 .. n
    BY <1>0
  <2>2. types[k + 1] \in Asks /\ (c.state = NoState => types[k + 1] = "close")
    BY <2>1
  <2>3. Good(x) /\ x.document /\ Bare(x) /\ x.state = c.state /\ Kept(c, x)
    BY DEF Kin, Kept
  <2>4. \A y : y = Callback(x, types[k + 1]) => Good(y) /\ Kept(x, y) /\ Bare(y)
    BY <2>2, <2>3, CallbackGood
  <2>5. Good(Do(x, k)) /\ Kept(x, Do(x, k)) /\ Bare(Do(x, k))
    BY <2>4
  <2> HIDE DEF Do
  <2>6. Kept(c, Do(x, k))
    BY <2>3, <2>5 DEF Kept
  <2> QED BY <2>5, <2>6 DEF Kin, Good
<1> HIDE DEF Do, n
<1>2. c \in S /\ F \in [(0 .. n - 1) \X S -> S]
  <2>1. c \in S
    BY <1>0 DEF Kin, Kept
  <2> HIDE DEF S
  <2> QED BY <1>1, <2>1
<1> HIDE DEF S
<1>3. PICK g : Runs(n, S, c, F, g)
  <2> HIDE DEF F
  <2> QED BY <1>0, <1>2, Iteration
<1>4. Def(g)
  <2>1. g \in [0 .. n -> S]
    <3> HIDE DEF F
    <3> QED BY <1>3 DEF Runs
  <2>2. ASSUME NEW k \in 0 .. n, k # 0
        PROVE  Do(g[k - 1], k - 1) = F[<<k - 1, g[k - 1]>>]
    <3>1. k - 1 \in 0 .. n - 1 /\ g[k - 1] \in S
      BY <1>0, <2>1, <2>2
    <3> QED BY <3>1
  <2> HIDE DEF F
  <2> QED BY <2>2, <1>3 DEF Runs
<1>5. \A f : Raw(f) <=> Def(f)
  <2>1. \A f, k : (CHOOSE x \in {Do(y, k - 1) : y \in {f[k - 1]}} : TRUE) = Do(f[k - 1], k - 1)
    OBVIOUS
  <2> QED BY <2>1, Zenon
<1>6. d = (CHOOSE f : Raw(f))[n]
  BY DEF AllReady, Repeat, n, Do
<1> DEFINE s == CHOOSE f : Raw(f)
<1>7. Def(s) /\ d = s[n]
  <2>1. Def(s)
    <3> HIDE DEF Def, Raw
    <3> QED BY <1>4, <1>5
  <2> QED BY <1>6, <2>1
<1> HIDE DEF s, F, Raw
<1>8. s[0] = c /\ \A k \in 0 .. n - 1 : s[k + 1] = Do(s[k], k)
  <2>1. s[0] = c
    BY <1>0, <1>7
  <2>2. ASSUME NEW k \in 0 .. n - 1 PROVE s[k + 1] = Do(s[k], k)
    <3>1. k + 1 \in 0 .. n /\ k + 1 # 0 /\ (k + 1) - 1 = k
      BY <1>0
    <3> QED BY <1>7, <3>1
  <2> QED BY <2>1, <2>2
<1> HIDE DEF Def
<1> DEFINE G == {m \in 0 .. n : s[m] \in S}
<1>9. 0 \in G
  BY <1>0, <1>2, <1>8
<1>10. ASSUME NEW m \in 0 .. n - 1, m \in G PROVE m + 1 \in G
  <2>1. s[m] \in S /\ s[m + 1] = Do(s[m], m)
    BY <1>8, <1>10
  <2>2. s[m + 1] \in S
    BY <1>1, <2>1
  <2>3. m + 1 \in 0 .. n
    BY <1>0
  <2> QED BY <2>2, <2>3
<1> HIDE DEF G
<1>11. \A m \in 0 .. n : m \in G
  BY <1>0, <1>9, <1>10, Climb
<1>12. d \in S
  <2>1. n \in G
    BY <1>0, <1>11
  <2> QED BY <1>7, <2>1 DEF G
<1> QED BY <1>12 DEF S, Kin

\* The handlers, once they have what they wait for.
LEMMA FindReadyGood ==
  ASSUME NEW c, Sound(c), Outcome(c), Rest(c), NEW type \in Asks,
         type = "close" => Good(c),
         type # "close" => c.state # NoState,
         \/ c.dirtyMatch
         \/ type \in {"again", "close"} /\ Drawn(c)
         \/ type = "highlightallchange" /\ c.document,
         Away(c),
         NEW d, d = FindReady(c, type)
  PROVE  Good(d) /\ Rest(d)
<1>1. CASE ~c.document
  <2>1. d = [c EXCEPT !.waiting = Append(@, type)]
    BY <1>1 DEF FindReady
  <2>2. c \in FindFields /\ c.waiting \in Seq(Asks) /\ Append(c.waiting, type) \in Seq(Asks)
    BY FieldTypes DEF Sound
  <2>3. d \in FindFields /\ d.waiting = Append(c.waiting, type)
    BY ZenonT(60), <2>1, <2>2 DEF FindFields
  <2>4. SameSearch(c, d) /\ d.document = c.document /\ d.timeout = c.timeout
    BY <2>1, <2>2 DEF FindFields, SameSearch, SameAsk, SameMatches, SamePlace, SameMarks, SameBar
  <2>5. Sound(d) /\ Outcome(d)
    BY <2>3, <2>4, GoodKept
  <2>6. Drawn(d)
    <3>1. Bare(c)
      BY <1>1 DEF Away, Bare
    <3> QED BY <2>4, <3>1, BareDrawn DEF SameSearch, Bare
  <2>7. Away(d)
    <3>1. \A k \in 1 .. Len(d.waiting) : c.state = NoState => d.waiting[k] = "close"
      <4>1. Len(d.waiting) = Len(c.waiting) + 1
        BY <2>2, <2>3
      <4>2. \A k \in 1 .. Len(d.waiting) : d.waiting[k] = IF k \in 1 .. Len(c.waiting) THEN c.waiting[k] ELSE type
        BY <2>2, <2>3, <4>1
      <4> QED BY <4>2 DEF Away
    <3>2. Blank(c) => Blank(d)
      BY <2>4 DEF Blank, SameSearch, SameMatches, SamePlace
    <3> QED BY <2>4, <3>1, <3>2 DEF Away, SameSearch, SameAsk
  <2>8. Rest(d)
    BY <2>4 DEF Rest, SameSearch, SameAsk, SameMatches
  <2> QED BY <2>5, <2>6, <2>7, <2>8 DEF Good, Sound
<1>2. CASE c.document
  <2> DEFINE e == Callback(c, type)
  <2>1. d = Settle(e)
    <3>1. \A x : (CHOOSE y \in {Settle(z) : z \in {x}} : TRUE) = Settle(x)
      OBVIOUS
    <3>2. FindReady(c, type) = IF c.document THEN CHOOSE y \in {Settle(z) : z \in {e}} : TRUE
                               ELSE [c EXCEPT !.waiting = Append(@, type)]
      BY Zenon DEF FindReady, Then
    <3> HIDE DEF e
    <3> QED BY <1>2, <3>1, <3>2
  <2>2. Good(e)
    <3>1. CASE type = "close"
      <4>1. e = OnCloseReady(c)
        BY <3>1 DEF Callback
      <4> QED BY <1>2, <3>1, <4>1, OnCloseReadyGood
    <3>2. CASE type # "close"
      <4>1. e = OnFindReady(c, type) /\ type \in Asks \ {"close"} /\ Asking(c)
        BY <1>2, <3>2 DEF Callback, Asking
      <4> HIDE DEF e
      <4> QED BY <3>2, <4>1, OnFindReadyGood
    <3> QED BY <3>1, <3>2
  <2> HIDE DEF e
  <2> QED BY <2>1, <2>2, AllAnswer
<1> QED BY <1>1, <1>2

----------------------------------------------------------------------------
(* What the reader asks for                                                *)

\* A search that waits for the first page has passed none, whichever way it goes.
LEMMA TurnedAtStart ==
  ASSUME NEW c \in FindFields, Passed(c), c.offset.page \in PageIdx, \A q \in PageIdx : c.pageMatches[q] = NoIndex
  PROVE  PageTotal - c.pagesToSearch <= 1
<1> USE FindAssumption
<1> DEFINE next == IF c.state.findPrevious
                     THEN IF c.offset.page + 1 < PageTotal THEN c.offset.page + 1 ELSE 0
                     ELSE IF c.offset.page > 0 THEN c.offset.page - 1 ELSE PageTotal - 1
<1>1. next \in PageIdx /\ Dist(c, next) = 1
  BY DEF Dist, PageIdx
<1>2. c.pagesToSearch \in Int
  BY FieldTypes
<1>3. ~(Dist(c, next) < PageTotal - c.pagesToSearch)
  BY <1>1 DEF Passed, NoIndex
<1> QED BY <1>1, <1>2, <1>3

LEMMA OnFindGood ==
  ASSUME NEW f, Good(f), Rest(f), NEW fields \in BarFields, NEW type \in Asks \ {"close"},
         NEW previous \in BOOLEAN, NEW pageVisible \in BOOLEAN,
         type = "again" => fields = f.fields,
         type = "highlightallchange" =>
           fields.query = f.fields.query /\ fields.caseSensitive = f.fields.caseSensitive,
         NEW d, d = OnFind([f EXCEPT !.fields = fields], type, previous, pageVisible)
  PROVE  Good(d) /\ Rest(d)
<1> USE FindAssumption
<1> DEFINE c == [f EXCEPT !.fields = fields]
           state == Asked(c, previous)
           dirty == \/ c.dirtyMatch \/ c.state = NoState
                    \/ ShouldDirtyMatch(c, state, type, pageVisible)
           turned == c.turned \/ (Resuming(c) /\ previous # c.state.findPrevious)
           b == [c EXCEPT !.dirtyMatch = dirty, !.state = state, !.turned = turned]
           e == IF type = "highlightallchange" THEN b ELSE UpdateUIState(b, "pending")
<1>1. f \in FindFields /\ Sound(f) /\ Outcome(f) /\ Drawn(f) /\ Away(f) /\ Placed(f)
  BY Goodness DEF Sound
<1>2. d = FindReady(e, type)
  <2>1. \A x : (CHOOSE y \in {FindReady(z, type) : z \in {x}} : TRUE) = FindReady(x, type)
    OBVIOUS
  <2>2. OnFind(c, type, previous, pageVisible) = CHOOSE y \in {FindReady(z, type) : z \in {e}} : TRUE
    BY Zenon DEF OnFind, Then
  <2>3. d = OnFind(c, type, previous, pageVisible)
    OBVIOUS
  <2> HIDE DEF e, c
  <2> QED BY <2>1, <2>2, <2>3
<1>3. /\ c \in FindFields /\ c.fields = fields /\ SameMatches(f, c) /\ SamePlace(f, c) /\ SameMarks(f, c)
      /\ SameBar(f, c) /\ c.layers = f.layers /\ c.undrawn = f.undrawn /\ c.document = f.document
      /\ c.state = f.state /\ c.dirtyMatch = f.dirtyMatch /\ c.timeout = f.timeout /\ c.failed = f.failed
      /\ c.extracted = f.extracted /\ c.waiting = f.waiting
  <2>1. c \in FindFields /\ c.fields = fields
    BY <1>1 DEF FindFields
  <2>2. SameMatches(f, c) /\ SamePlace(f, c) /\ SameMarks(f, c) /\ SameBar(f, c)
    BY <1>1 DEF FindFields, SameMatches, SamePlace, SameMarks, SameBar
  <2> QED BY <1>1, <2>1, <2>2 DEF FindFields
<1> HIDE DEF c
<1>4. /\ state \in FindStates /\ state.query = fields.query /\ state.caseSensitive = fields.caseSensitive
      /\ state.highlightAll = fields.highlightAll /\ state.findPrevious = previous
      /\ state.query # "none" /\ state # NoState
  <2>1. fields.query \in Queries \cup {NoQuery} /\ fields.caseSensitive \in BOOLEAN /\ fields.highlightAll \in BOOLEAN
    BY DEF BarFields
  <2>2. /\ state.query = fields.query /\ state.caseSensitive = fields.caseSensitive
        /\ state.highlightAll = fields.highlightAll /\ state.findPrevious = previous
    BY <1>3 DEF Asked
  <2>3. state \in FindStates
    BY <1>3, <2>1 DEF Asked, FindStates
  <2>4. fields.query # "none"
    BY <2>1 DEF NoQuery
  <2>5. NoState.query = "none"
    BY DEF NoState
  <2> HIDE DEF state
  <2> QED BY <2>2, <2>3, <2>4, <2>5
<1>5. dirty \in BOOLEAN /\ turned \in BOOLEAN /\ (f.dirtyMatch => dirty) /\ (f.state = NoState => dirty)
      /\ (~dirty => state.query = f.state.query /\ type \in {"again", "highlightallchange"} /\ ~f.dirtyMatch /\ f.state # NoState)
      /\ (f.turned => turned)
      /\ (Resuming(f) /\ previous # f.state.findPrevious => turned)
      /\ (~Resuming(f) => (turned <=> f.turned))
  <2>1. Resuming(c) <=> Resuming(f)
    BY <1>3 DEF Resuming, SamePlace
  <2>2. c.turned \in BOOLEAN /\ c.dirtyMatch \in BOOLEAN
    BY <1>3 DEF FindFields
  <2>3. c.turned = f.turned
    BY <1>3 DEF SameMarks
  <2>4. ShouldDirtyMatch(c, state, type, pageVisible) \in BOOLEAN
    BY DEF ShouldDirtyMatch
  <2>5. ~ShouldDirtyMatch(c, state, type, pageVisible) => state.query = f.state.query /\ type \in {"again", "highlightallchange"}
    BY <1>3 DEF ShouldDirtyMatch
  <2> HIDE DEF state
  <2> QED BY <1>3, <2>1, <2>2, <2>3, <2>4, <2>5
<1> HIDE DEF state, dirty, turned
<1>6. /\ b \in FindFields /\ b.state = state /\ b.dirtyMatch = dirty /\ b.turned = turned /\ b.fields = fields
      /\ SameMatches(f, b) /\ SamePlace(f, b) /\ SameBar(f, b) /\ b.highlightMatches = f.highlightMatches
      /\ b.layers = f.layers /\ b.undrawn = f.undrawn /\ b.document = f.document
      /\ b.timeout = f.timeout /\ b.failed = f.failed /\ b.extracted = f.extracted /\ b.waiting = f.waiting
  <2>1. b \in FindFields /\ b.state = state /\ b.dirtyMatch = dirty /\ b.turned = turned
    <3>1. c \in FindFields /\ dirty \in BOOLEAN /\ turned \in BOOLEAN /\ state \in FindStates
      BY <1>3, <1>4, <1>5
    <3> QED BY ZenonT(60), <3>1 DEF FindFields
  <2>2. /\ SameMatches(c, b) /\ SamePlace(c, b) /\ SameBar(c, b) /\ b.highlightMatches = c.highlightMatches
        /\ b.layers = c.layers /\ b.undrawn = c.undrawn /\ b.document = c.document /\ b.fields = c.fields
        /\ b.timeout = c.timeout /\ b.failed = c.failed /\ b.extracted = c.extracted /\ b.waiting = c.waiting
    BY <1>3 DEF FindFields, SameMatches, SamePlace, SameBar
  <2> HIDE DEF b
  <2> QED BY <1>3, <2>1, <2>2 DEF SameMatches, SamePlace, SameMarks, SameBar
<1> HIDE DEF b
<1>7. Exists(b)
  BY <1>1, <1>6 DEF Placed, Exists, SameMatches, SamePlace
<1>8. /\ e \in FindFields /\ e.state = state /\ e.dirtyMatch = dirty /\ e.turned = turned /\ e.fields = fields
      /\ SameMatches(f, e) /\ SamePlace(f, e) /\ e.highlightMatches = f.highlightMatches
      /\ e.layers = f.layers /\ e.undrawn = f.undrawn /\ e.document = f.document
      /\ e.timeout = f.timeout /\ e.failed = f.failed /\ e.extracted = f.extracted /\ e.waiting = f.waiting
      /\ IF type = "highlightallchange" THEN SameBar(f, e)
         ELSE e.status = "pending" /\ e.count = RequestMatchesCount(e)
  <2>1. CASE type = "highlightallchange"
    BY <1>6, <2>1
  <2>2. CASE type # "highlightallchange"
    <3>1. e = UpdateUIState(b, "pending")
      BY <2>2
    <3> HIDE DEF e
    <3>2. "pending" \in Messages
      BY DEF Messages
    <3>3. /\ e \in FindFields
          /\ SameRequest(b, e) /\ SameMatches(b, e) /\ SamePlace(b, e) /\ SameMarks(b, e)
          /\ e.undrawn = b.undrawn /\ e.layers = b.layers
          /\ e.status = "pending" /\ e.count = RequestMatchesCount(b)
      BY <1>6, <1>7, <3>1, <3>2, UpdateUIStateFields
    <3>4. RequestMatchesCount(e) = RequestMatchesCount(b)
      BY <3>3, CountSame DEF SameMatches, SamePlace
    <3> QED BY <1>6, <2>2, <3>3, <3>4 DEF SameRequest, SameMatches, SamePlace, SameMarks
  <2> QED BY <2>1, <2>2
<1> HIDE DEF e
<1>9. ~dirty => Live(f) /\ fields.caseSensitive = f.fields.caseSensitive /\ state.caseSensitive = f.state.caseSensitive
                /\ state.query = f.state.query
                /\ (type = "again" => state.highlightAll = f.state.highlightAll)
  BY <1>1, <1>4, <1>5 DEF Live, Sound, AsFields
<1>10. Sound(e)
  <2>1. Placed(e)
    BY <1>1, <1>5, <1>8 DEF Placed, Exists, Live, SameMatches, SamePlace
  <2>2. Awaited(e) /\ AsFields(e)
    BY <1>1, <1>4, <1>8 DEF Sound, Awaited, AsFields, SameMatches
  <2>3. Content(e) /\ Pending(e)
    <3>1. ~dirty => \A i : Match(e, i) = Match(f, i)
      BY <1>8, <1>9 DEF Match
    <3> QED BY <1>1, <1>5, <1>8, <1>9, <3>1 DEF Sound, Content, Pending, Live, SameMatches
  <2> QED BY <1>8, <2>1, <2>2, <2>3 DEF Sound
<1>11. Outcome(e)
  <2> SUFFICES ASSUME ~dirty, state.query # NoQuery
               PROVE  IF e.resume = NoIndex THEN Over(e) ELSE ~e.turned => Passed(e)
    BY <1>8 DEF Outcome, Live
  <2>1. IF f.resume = NoIndex THEN Over(f) ELSE ~f.turned => Passed(f)
    BY <1>1, <1>9 DEF Outcome
  <2>2. e.resume = f.resume
    BY <1>8 DEF SamePlace
  <2>3. CASE f.resume = NoIndex
    <3>1. ~Resuming(f)
      BY <2>3 DEF Resuming
    <3>2. e.count = RequestMatchesCount(e)
      <4>1. RequestMatchesCount(e) = RequestMatchesCount(f)
        BY <1>8, CountSame DEF SameMatches, SamePlace
      <4> QED BY <1>8, <2>1, <2>3, <4>1 DEF Over, SameBar
    <3>3. e.status # "notFound" \/ e.status = f.status
      BY <1>8 DEF SameBar
    <3> QED BY <1>5, <1>8, <2>1, <2>2, <2>3, <3>1, <3>2, <3>3 DEF Over, SameMatches, SamePlace
  <2>4. CASE f.resume # NoIndex /\ ~e.turned
    <3>1. Passed(f)
      BY <1>5, <1>8, <2>1, <2>4
    <3>2. CASE previous = f.state.findPrevious
      <4>1. \A q : Dist(e, q) = Dist(f, q)
        BY <1>4, <1>8, <3>2 DEF Dist, SamePlace
      <4> QED BY <1>8, <2>2, <2>4, <3>1, <4>1 DEF Passed, SameMatches, SamePlace
    <3>3. CASE previous # f.state.findPrevious
      <4>1. f.resume = 0
        BY <1>5, <1>8, <2>4, <3>3 DEF Resuming
      <4>2. f.offset.page = 0 /\ f.pageMatches[0] = NoIndex
        BY <1>1, <2>4, <4>1 DEF Placed
      <4>3. 0 \in PageIdx
        BY DEF PageIdx
      <4>4. f.callbacks[0] = 1
        <5>1. f.callbacks[0] \in {0, 1}
          BY <1>1, <4>3 DEF Sound, Awaited
        <5>2. f.callbacks[0] = 0 => f.pageMatches[0] = Match(f, 0)
          BY <1>1, <1>9, <4>3 DEF Sound, Content
        <5>3. Match(f, 0) \in Nat
          BY <1>1, <1>9, <4>3, TypeOfMatch DEF Sound, Live
        <5> QED BY <4>2, <5>1, <5>2, <5>3 DEF NoIndex
      <4>5. f.extracted = 0
        <5>1. f.extracted \in Nat
          BY <1>1, FieldTypes
        <5>2. ~(0 < f.extracted)
          BY <4>3, <4>4 DEF Rest
        <5> QED BY <5>1, <5>2
      <4>6. \A q \in PageIdx : f.pageMatches[q] = NoIndex
        <5>1. \A q \in PageIdx : q >= f.extracted
          BY <4>5 DEF PageIdx
        <5> QED BY <1>1, <1>9, <5>1 DEF Sound, Pending, Awaited
      <4>7. PageTotal - f.pagesToSearch <= 1
        BY <1>1, <3>1, <4>2, <4>3, <4>6, TurnedAtStart
      <4>8. \A q \in PageIdx : Dist(e, q) >= 1
        <5>1. e.offset.page \in PageIdx
          BY <1>8, <4>2, <4>3 DEF SamePlace
        <5> QED BY <5>1, DistBounds
      <4>9. e.pagesToSearch = f.pagesToSearch /\ f.pagesToSearch \in Int
        BY <1>1, <1>8, FieldTypes DEF SamePlace
      <4>10. \A q \in PageIdx : Dist(e, q) \in Int
        <5>1. e.offset.page \in PageIdx
          BY <1>8, <4>2, <4>3 DEF SamePlace
        <5> QED BY <5>1, DistBounds
      <4> QED BY <2>2, <2>4, <4>7, <4>8, <4>9, <4>10 DEF Passed
    <3> QED BY <2>2, <2>4, <3>2, <3>3
  <2> QED BY <2>2, <2>3, <2>4
<1>12. ~dirty /\ type = "again" => Drawn(e)
  <2>1. ~dirty /\ type = "again" => \A i : Rendered(e, i) = Rendered(f, i)
    <3> SUFFICES ASSUME ~dirty, type = "again" PROVE \A i : Rendered(e, i) = Rendered(f, i)
      OBVIOUS
    <3>1. e.state.highlightAll = f.state.highlightAll
      BY <1>8, <1>9
    <3>2. e.highlightMatches = f.highlightMatches /\ e.pageMatches = f.pageMatches /\ e.selected = f.selected
      BY <1>8 DEF SameMatches, SamePlace
    <3> QED BY <3>1, <3>2 DEF Rendered, Computed
  <2> QED BY <1>1, <1>8, <1>5, <2>1 DEF Drawn, DrawnBut, AllDrawn, SamePlace
<1>13. Away(e)
  <2>1. Blank(f) => Blank(e)
    BY <1>8 DEF Blank, SameMatches, SamePlace
  <2>2. ~f.document => dirty
    BY <1>1, <1>5 DEF Away
  <2> QED BY <1>1, <1>4, <1>8, <2>1, <2>2 DEF Away
<1>14. Rest(e)
  BY <1>8 DEF Rest, SameMatches
<1>15. e.state # NoState
  BY <1>4, <1>8
<1>16. dirty \/ f.document
  BY <1>1, <1>5 DEF Away
<1>17. \/ e.dirtyMatch
       \/ type \in {"again", "close"} /\ Drawn(e)
       \/ type = "highlightallchange" /\ e.document
  BY <1>5, <1>8, <1>12, <1>16
<1> QED BY <1>2, <1>10, <1>11, <1>13, <1>14, <1>15, <1>17, FindReadyGood

----------------------------------------------------------------------------
(* Each step                                                               *)

LEMMA FieldsSet ==
  ASSUME NEW c \in FindFields
  PROVE  /\ c.fields \in BarFields
         /\ \A q \in Queries \cup {NoQuery} :
              /\ [c EXCEPT !.fields.query = q] = [c EXCEPT !.fields = [c.fields EXCEPT !.query = q]]
              /\ [c.fields EXCEPT !.query = q] \in BarFields
         /\ [c EXCEPT !.fields.highlightAll = ~@] =
              [c EXCEPT !.fields = [c.fields EXCEPT !.highlightAll = ~c.fields.highlightAll]]
         /\ [c.fields EXCEPT !.highlightAll = ~c.fields.highlightAll] \in BarFields
         /\ [c EXCEPT !.fields.caseSensitive = ~@] =
              [c EXCEPT !.fields = [c.fields EXCEPT !.caseSensitive = ~c.fields.caseSensitive]]
         /\ [c.fields EXCEPT !.caseSensitive = ~c.fields.caseSensitive] \in BarFields
         /\ c = [c EXCEPT !.fields = c.fields]
<1>1. c.fields \in BarFields
  BY FieldTypes
<1>2. \A q \in Queries \cup {NoQuery} :
        /\ [c EXCEPT !.fields.query = q] = [c EXCEPT !.fields = [c.fields EXCEPT !.query = q]]
        /\ [c.fields EXCEPT !.query = q] \in BarFields
  BY <1>1 DEF BarFields
<1>3. [c EXCEPT !.fields.highlightAll = ~@] =
        [c EXCEPT !.fields = [c.fields EXCEPT !.highlightAll = ~c.fields.highlightAll]]
  OBVIOUS
<1>4. [c EXCEPT !.fields.caseSensitive = ~@] =
        [c EXCEPT !.fields = [c.fields EXCEPT !.caseSensitive = ~c.fields.caseSensitive]]
  OBVIOUS
<1>5. (~c.fields.highlightAll) \in BOOLEAN /\ (~c.fields.caseSensitive) \in BOOLEAN
  OBVIOUS
<1>6. /\ [c.fields EXCEPT !.highlightAll = ~c.fields.highlightAll] \in BarFields
      /\ [c.fields EXCEPT !.caseSensitive = ~c.fields.caseSensitive] \in BarFields
  BY <1>1, <1>5 DEF BarFields
<1>7. c = [c EXCEPT !.fields = c.fields]
  BY DEF FindFields
<1> QED BY <1>1, <1>2, <1>3, <1>4, <1>6, <1>7

LEMMA FindInputKeeps ==
  ASSUME Good(find), Rest(find), NEW q \in Queries \cup {NoQuery}, FindInput(q)
  PROVE  Good(find') /\ Rest(find')
<1>1. find \in FindFields
  BY DEF Good
<1> DEFINE fields == [find.fields EXCEPT !.query = q]
<1>2. fields \in BarFields /\ find' = OnFind([find EXCEPT !.fields = fields], "", FALSE, TRUE)
  BY <1>1, FieldsSet DEF FindInput
<1> HIDE DEF fields
<1>3. "" \in Asks \ {"close"} /\ FALSE \in BOOLEAN /\ TRUE \in BOOLEAN
  BY DEF Asks
<1> QED BY <1>2, <1>3, OnFindGood

LEMMA FindAgainKeeps ==
  ASSUME Good(find), Rest(find), NEW previous \in BOOLEAN, NEW pageVisible \in BOOLEAN,
         FindAgain(previous, pageVisible)
  PROVE  Good(find') /\ Rest(find')
<1>1. find \in FindFields
  BY DEF Good
<1>2. find.fields \in BarFields /\ find' = OnFind([find EXCEPT !.fields = find.fields], "again", previous, pageVisible)
  BY <1>1, FieldsSet DEF FindAgain
<1>3. "again" \in Asks \ {"close"}
  BY DEF Asks
<1> QED BY <1>2, <1>3, OnFindGood

LEMMA HighlightAllChangeKeeps ==
  ASSUME Good(find), Rest(find), HighlightAllChange
  PROVE  Good(find') /\ Rest(find')
<1>1. find \in FindFields
  BY DEF Good
<1> DEFINE fields == [find.fields EXCEPT !.highlightAll = ~find.fields.highlightAll]
<1>2. fields \in BarFields /\ find' = OnFind([find EXCEPT !.fields = fields], "highlightallchange", FALSE, TRUE)
  BY <1>1, FieldsSet DEF HighlightAllChange
<1>3. fields.query = find.fields.query /\ fields.caseSensitive = find.fields.caseSensitive
  BY <1>1, FieldsSet DEF BarFields
<1> HIDE DEF fields
<1>4. "highlightallchange" \in Asks \ {"close"} /\ FALSE \in BOOLEAN /\ TRUE \in BOOLEAN
  BY DEF Asks
<1> QED BY <1>2, <1>3, <1>4, OnFindGood

LEMMA CaseSensitivityChangeKeeps ==
  ASSUME Good(find), Rest(find), CaseSensitivityChange
  PROVE  Good(find') /\ Rest(find')
<1>1. find \in FindFields
  BY DEF Good
<1> DEFINE fields == [find.fields EXCEPT !.caseSensitive = ~find.fields.caseSensitive]
<1>2. fields \in BarFields /\ find' = OnFind([find EXCEPT !.fields = fields], "casesensitivitychange", FALSE, TRUE)
  BY <1>1, FieldsSet DEF CaseSensitivityChange
<1> HIDE DEF fields
<1>3. "casesensitivitychange" \in Asks \ {"close"} /\ FALSE \in BOOLEAN /\ TRUE \in BOOLEAN
  BY DEF Asks
<1> QED BY <1>2, <1>3, OnFindGood

\* Steps that touch nothing that the search reads.
LEMMA Unread ==
  ASSUME NEW c, Good(c), Rest(c), NEW d \in FindFields, SameSearch(c, d), d.document = c.document,
         d.timeout = c.timeout, d.waiting = c.waiting
  PROVE  Good(d) /\ Rest(d)
<1>1. Sound(d) /\ Outcome(d) /\ Drawn(d)
  BY Goodness, GoodKept
<1>2. Away(d)
  <2>1. Blank(c) => Blank(d)
    BY DEF Blank, SameSearch, SameMatches, SamePlace
  <2> QED BY <2>1, Goodness DEF Away, SameSearch, SameAsk
<1>3. Rest(d)
  BY DEF Rest, SameSearch, SameAsk, SameMatches
<1> QED BY <1>1, <1>2, <1>3 DEF Good, Sound

LEMMA Opened ==
  ASSUME NEW c, Good(c), Rest(c), NEW opened \in BOOLEAN, NEW d, d = [c EXCEPT !.opened = opened]
  PROVE  Good(d) /\ Rest(d)
<1>1. d \in FindFields
  BY DEF Good, FindFields
<1>2. SameSearch(c, d) /\ d.document = c.document /\ d.timeout = c.timeout /\ d.waiting = c.waiting
  BY DEF Good, FindFields, SameSearch, SameAsk, SameMatches, SamePlace, SameMarks, SameBar
<1> QED BY <1>1, <1>2, Unread

LEMMA FindBarKeeps ==
  ASSUME Good(find), Rest(find), OpenFindBar \/ CloseFindBar
  PROVE  Good(find') /\ Rest(find')
<1>1. CASE OpenFindBar
  <2>1. find' = [find EXCEPT !.opened = TRUE]
    BY <1>1 DEF OpenFindBar
  <2> QED BY <2>1, Opened
<1>2. CASE CloseFindBar
  <2> DEFINE c == [find EXCEPT !.opened = FALSE]
  <2>1. find' = FindReady(c, "close")
    BY <1>2 DEF CloseFindBar
  <2>2. Good(c) /\ Rest(c)
    <3> HIDE DEF c
    <3>1. c = [find EXCEPT !.opened = FALSE]
      BY DEF c
    <3> QED BY <3>1, Opened
  <2> HIDE DEF c
  <2>3. "close" \in Asks
    BY DEF Asks
  <2>4. Sound(c) /\ Outcome(c) /\ Drawn(c) /\ Away(c)
    BY <2>2, Goodness
  <2> QED BY <2>1, <2>2, <2>3, <2>4, FindReadyGood
<1> QED BY <1>1, <1>2

LEMMA FindGoToPageKeeps ==
  ASSUME Good(find), Rest(find), NEW i \in PageIdx, FindGoToPage(i)
  PROVE  Good(find') /\ Rest(find')
<1>1. find' = [find EXCEPT !.page = i]
  BY DEF FindGoToPage
<1>2. find' \in FindFields
  BY ZenonT(60), <1>1 DEF Good, FindFields
<1>3. SameSearch(find, find') /\ find'.document = find.document /\ find'.timeout = find.timeout /\ find'.waiting = find.waiting
  BY <1>1 DEF Good, FindFields, SameSearch, SameAsk, SameMatches, SamePlace, SameMarks, SameBar
<1> QED BY <1>2, <1>3, Unread

LEMMA ResetGood ==
  ASSUME NEW c, c.opened \in BOOLEAN, c.fields \in BarFields
  PROVE  Good(ResetFind(c)) /\ Rest(ResetFind(c))
<1> USE FindAssumption
<1> DEFINE d == ResetFind(c)
           none == [i \in PageIdx |-> NoIndex]
           selected == [page |-> NoIndex, match |-> NoIndex]
           offset == [page |-> NoIndex, match |-> NoIndex, wrapped |-> FALSE]
           callbacks == [i \in PageIdx |-> 0]
           layers == [i \in LayerPages |-> NoLayer]
           waiting == <<>>
           count == <<0, 0>>
<1>1. /\ NoState \in FindStates /\ none \in Matches /\ selected \in MatchPlaces /\ offset \in Offsets
      /\ callbacks \in [PageIdx -> Nat] /\ layers \in Layers /\ waiting \in Seq(Asks) /\ "" \in Messages
      /\ NoIndex \in PageIndices /\ 0 \in PageIdx /\ 0 \in 0 .. PageTotal /\ count \in Nat \X Nat
  <2>1. NoState \in FindStates /\ selected \in MatchPlaces /\ offset \in Offsets /\ NoIndex \in PageIndices
    BY DEF NoState, FindStates, MatchPlaces, Offsets, PageIndices, Indices
  <2>2. none \in Matches /\ callbacks \in [PageIdx -> Nat]
    BY DEF Matches, Indices
  <2>3. NoLayer \in SUBSET (Indices \X BOOLEAN)
    <3>1. -1 \in Indices /\ FALSE \in BOOLEAN
      BY DEF Indices, NoIndex
    <3>2. <<-1, FALSE>> \in Indices \X BOOLEAN
      BY <3>1
    <3> QED BY <3>2 DEF NoLayer
  <2>4. layers \in Layers
    BY <2>3 DEF Layers
  <2>5. waiting \in Seq(Asks) /\ "" \in Messages /\ 0 \in PageIdx /\ 0 \in 0 .. PageTotal /\ count \in Nat \X Nat
      BY DEF Messages, PageIdx
  <2> QED BY <2>1, <2>2, <2>4, <2>5
<1>2. /\ selected.page = NoIndex /\ selected.match = NoIndex /\ offset.page = NoIndex /\ offset.match = NoIndex
      /\ (\A i \in PageIdx : none[i] = NoIndex /\ callbacks[i] = 0) /\ \A i \in LayerPages : layers[i] = NoLayer
      /\ NoState.query = "none" /\ waiting = <<>>
  BY DEF NoState
<1>3. d = [document |-> FALSE, state |-> NoState, highlightMatches |-> FALSE,
           scrollMatches |-> FALSE, dirtyMatch |-> FALSE, timeout |-> FALSE,
           pageMatches |-> none, total |-> 0, selected |-> selected, offset |-> offset,
           pagesToSearch |-> 0, resume |-> NoIndex, callbacks |-> callbacks,
           waiting |-> waiting, extracting |-> FALSE, extracted |-> 0, failed |-> {},
           opened |-> c.opened, status |-> "", count |-> count,
           layers |-> layers, page |-> 0, turned |-> FALSE,
           undrawn |-> FALSE, fields |-> c.fields]
  BY DEF ResetFind
<1> HIDE DEF none, selected, offset, callbacks, layers, waiting, count, d
<1>4. d \in FindFields
  <2> DEFINE failed == {}
             status == ""
  <2>1. failed \in SUBSET PageIdx /\ status \in Messages /\ 0 \in Nat /\ 0 \in Int
    <3>1. failed \in SUBSET PageIdx
      OBVIOUS
    <3>2. status \in Messages
      BY DEF Messages
    <3>3. 0 \in Nat /\ 0 \in Int
      OBVIOUS
    <3> HIDE DEF failed, status
    <3> QED BY <3>1, <3>2, <3>3
  <2>2. d = [document |-> FALSE, state |-> NoState, highlightMatches |-> FALSE,
           scrollMatches |-> FALSE, dirtyMatch |-> FALSE, timeout |-> FALSE,
           pageMatches |-> none, total |-> 0, selected |-> selected, offset |-> offset,
           pagesToSearch |-> 0, resume |-> NoIndex, callbacks |-> callbacks,
           waiting |-> waiting, extracting |-> FALSE, extracted |-> 0, failed |-> failed,
           opened |-> c.opened, status |-> status, count |-> count,
           layers |-> layers, page |-> 0, turned |-> FALSE,
           undrawn |-> FALSE, fields |-> c.fields]
    BY <1>3
  <2> HIDE DEF failed, status
  <2> QED BY <1>1, <2>1, <2>2 DEF FindFields
<1>5. /\ ~d.document /\ d.state = NoState /\ ~d.dirtyMatch /\ ~d.timeout /\ d.pageMatches = none
      /\ d.selected = selected /\ d.offset = offset /\ d.pagesToSearch = 0 /\ d.resume = NoIndex
      /\ d.callbacks = callbacks /\ d.waiting = waiting /\ d.extracted = 0 /\ d.layers = layers
  BY <1>3
<1>6. Placed(d)
  <2>1. 0 <= PageTotal
    OBVIOUS
  <2> QED BY <1>2, <1>5, <2>1 DEF Placed, Exists, Live
<1>7. Awaited(d) /\ AsFields(d)
  BY <1>2, <1>5 DEF Awaited, AsFields
<1>8. Away(d)
  <2>1. Blank(d)
    BY <1>2, <1>5 DEF Blank
  <2>2. \A k \in 1 .. Len(d.waiting) : FALSE
    BY <1>2, <1>5
  <2> QED BY <1>2, <1>5, <2>1, <2>2 DEF Away
<1>9. Content(d) /\ Pending(d) /\ Outcome(d)
  BY <1>5 DEF Content, Pending, Outcome, Live
<1>10. Drawn(d)
  BY <1>2, <1>5, BareDrawn DEF Bare
<1>11. Rest(d)
  BY <1>2, <1>5 DEF Rest
<1> QED BY <1>4, <1>6, <1>7, <1>8, <1>9, <1>10, <1>11 DEF Good, d

LEMMA LeaveDocumentKeeps ==
  ASSUME Good(find), Rest(find), LeaveDocument
  PROVE  Good(find') /\ Rest(find')
<1>1. find.opened \in BOOLEAN /\ find.fields \in BarFields
  BY DEF Good, FindFields
<1> QED BY <1>1, ResetGood DEF LeaveDocument

LEMMA FindInDocumentKeeps ==
  ASSUME Good(find), Rest(find), FindInDocument
  PROVE  Good(find') /\ Rest(find')
<1> DEFINE c == [find EXCEPT !.document = TRUE, !.waiting = <<>>]
           e == AllReady(c, find.waiting)
<1>1. find \in FindFields /\ Sound(find) /\ Outcome(find) /\ Away(find) /\ ~find.document
  BY Goodness DEF FindInDocument, Sound
<1>2. find' = Settle(e)
  <2>1. \A x : (CHOOSE y \in {Settle(z) : z \in {x}} : TRUE) = Settle(x)
    OBVIOUS
  <2>2. find' = CHOOSE y \in {Settle(z) : z \in {e}} : TRUE
    BY Zenon DEF FindInDocument, Then
  <2> HIDE DEF e
  <2> QED BY <2>1, <2>2
<1>3. /\ c \in FindFields /\ SameSearch(find, c) /\ c.document /\ c.waiting = <<>> /\ c.timeout = find.timeout
  <2>1. <<>> \in Seq(Asks)
    OBVIOUS
  <2>2. c \in FindFields /\ c.document /\ c.waiting = <<>> /\ c.timeout = find.timeout
    BY ZenonT(60), <1>1, <2>1 DEF FindFields
  <2> QED BY ZenonT(60), <1>1, <2>2 DEF FindFields, SameSearch, SameAsk, SameMatches, SamePlace, SameMarks, SameBar
<1> HIDE DEF c
<1>4. Bare(c) /\ c.extracted = 0
  BY <1>1, <1>3 DEF Away, Bare, SameSearch, SameAsk
<1>5. Sound(c) /\ Outcome(c) /\ Drawn(c)
  BY <1>1, <1>3, <1>4, GoodKept, BareDrawn
<1>6. Away(c)
  <2>1. Blank(find) => Blank(c)
    BY <1>3 DEF Blank, SameSearch, SameMatches, SamePlace
  <2>2. \A k \in 1 .. Len(c.waiting) : FALSE
    BY <1>3
  <2> QED BY <1>1, <1>3, <2>1, <2>2 DEF Away, SameSearch, SameAsk
<1>7. Good(c)
  BY <1>5, <1>6 DEF Good, Sound
<1>8. find.waiting \in Seq(Asks)
  BY <1>1, FieldTypes
<1>9. c.state = NoState => \A k \in 1 .. Len(find.waiting) : find.waiting[k] = "close"
  BY <1>1, <1>3 DEF Away, SameSearch, SameAsk
<1>10. Good(e)
  <2> HIDE DEF e
  <2>1. e = AllReady(c, find.waiting)
    BY DEF e
  <2> QED BY <1>3, <1>4, <1>7, <1>8, <1>9, <2>1, AllReadyGood
<1> HIDE DEF e
<1> QED BY <1>2, <1>10, AllAnswer

LEMMA FindTimeoutKeeps ==
  ASSUME Good(find), Rest(find), FindTimeout
  PROVE  Good(find') /\ Rest(find')
<1> DEFINE n == NextMatch(find)
           undrawn == n.undrawn \/ Undrawn(find)
           e == [n EXCEPT !.timeout = FALSE, !.undrawn = undrawn]
<1>1. find \in FindFields /\ Sound(find) /\ Outcome(find) /\ Drawn(find) /\ Away(find) /\ find.timeout
  BY Goodness DEF FindTimeout, Sound
<1>2. Asking(find)
  BY <1>1 DEF Away, Blank, Asking
<1>3. find' = Settle(e)
  <2>1. \A x : (CHOOSE y \in {Settle(z) : z \in {x}} : TRUE) = Settle(x)
    OBVIOUS
  <2>2. find' = CHOOSE y \in {Settle(z) : z \in {e}} : TRUE
    BY Zenon DEF FindTimeout, Then
  <2> HIDE DEF e
  <2> QED BY <2>1, <2>2
<1>4. /\ Sound(n) /\ Outcome(n) /\ Asking(n) /\ SameTask(find, n)
      /\ find.dirtyMatch => Drawn(n)
      /\ Drawn(find) /\ (find.highlightMatches \/ ~find.state.highlightAll) => Drawn(n)
      /\ IF find.dirtyMatch THEN ~n.undrawn ELSE n.undrawn = find.undrawn
  BY <1>1, <1>2, NextMatchGood
<1> HIDE DEF n
<1>5. undrawn \in BOOLEAN
  BY DEF Undrawn
<1>6. n.undrawn => undrawn
  OBVIOUS
<1>7. ~undrawn => Drawn(n)
  BY <1>1, <1>4 DEF Undrawn
<1> HIDE DEF undrawn
<1>8. /\ e \in FindFields /\ SameAsk(n, e) /\ SameMatches(n, e) /\ SamePlace(n, e) /\ SameMarks(n, e) /\ SameBar(n, e)
      /\ e.layers = n.layers /\ e.document = n.document /\ e.undrawn = undrawn
  <2>1. n \in FindFields
    BY <1>4 DEF Sound
  <2>2. e \in FindFields /\ e.undrawn = undrawn
    BY ZenonT(60), <1>5, <2>1 DEF FindFields
  <2> QED BY <2>1, <2>2 DEF FindFields, SameAsk, SameMatches, SamePlace, SameMarks, SameBar
<1> HIDE DEF e
<1>9. Sound(e)
  BY <1>4, <1>8, SoundKept DEF SamePlace, Sound, Placed
<1>10. Outcome(e)
  <2>1. RequestMatchesCount(e) = RequestMatchesCount(n)
    BY <1>8, CountSame DEF SameMatches, SamePlace
  <2>2. Passed(n) => Passed(e)
    BY <1>8 DEF Passed, Dist, SameAsk, SameMatches, SamePlace
  <2>3. Over(n) => Over(e)
    BY <1>8, <2>1 DEF SameMatches, SamePlace, SameMarks, SameBar, Over
  <2> QED BY <1>4, <1>8, <2>2, <2>3 DEF SameAsk, SamePlace, SameMarks, Outcome, Live
<1>11. Drawn(e)
  <2>1. \A i : Rendered(e, i) = Rendered(n, i)
    BY <1>8, RenderedSame DEF SameAsk, SameMatches, SamePlace, SameMarks
  <2> QED BY <1>6, <1>7, <1>8, <2>1 DEF SameAsk, SamePlace, Drawn, DrawnBut, AllDrawn
<1>12. Asking(e)
  BY <1>4, <1>8 DEF Asking, SameAsk
<1>13. Good(e)
  BY <1>9, <1>10, <1>11, <1>12, Goodness
<1> QED BY <1>3, <1>13, AllAnswer

LEMMA ExtractTextKeeps ==
  ASSUME Good(find), Rest(find), NEW fails \in BOOLEAN, ExtractText(fails)
  PROVE  Good(find') /\ Rest(find')
<1> USE FindAssumption
<1> DEFINE i == find.extracted
           failed == IF fails THEN find.failed \cup {i} ELSE find.failed
           c == [find EXCEPT !.extracted = i + 1, !.failed = failed]
<1>1. find \in FindFields /\ Sound(find) /\ Outcome(find) /\ Drawn(find) /\ Away(find) /\ find.document
  BY Goodness DEF ExtractText, Sound
<1>2. find' = RunCallbacks(c, i)
  BY DEF ExtractText
<1>3. i \in PageIdx /\ i + 1 \in 0 .. PageTotal /\ failed \in SUBSET PageIdx /\ i \in Nat
  <2>1. find.extracted \in 0 .. PageTotal /\ find.failed \in SUBSET PageIdx /\ i < PageTotal
    BY <1>1, FieldTypes DEF ExtractText
  <2>2. i \in PageIdx /\ i + 1 \in 0 .. PageTotal /\ i \in Nat
    BY <2>1 DEF PageIdx
  <2> QED BY <2>1, <2>2
<1>4. \A k : k # i => (k \in failed <=> k \in find.failed)
  OBVIOUS
<1> HIDE DEF failed
<1>5. /\ c \in FindFields /\ c.extracted = i + 1 /\ c.failed = failed /\ c.state = find.state
      /\ c.fields = find.fields /\ c.dirtyMatch = find.dirtyMatch /\ c.document /\ c.timeout = find.timeout
      /\ c.waiting = find.waiting /\ c.layers = find.layers /\ c.undrawn = find.undrawn
      /\ SameMatches(find, c) /\ SamePlace(find, c) /\ SameMarks(find, c) /\ SameBar(find, c)
  <2> HIDE DEF i
  <2>1. c \in FindFields /\ c.extracted = i + 1 /\ c.failed = failed
    BY <1>1, <1>3 DEF FindFields
  <2> QED BY <1>1, <2>1 DEF FindFields, SameMatches, SamePlace, SameMarks, SameBar
<1> HIDE DEF c
<1>6. Placed(c)
  BY <1>1, <1>5 DEF Sound, Placed, Exists, Live, SameMatches, SamePlace
<1>7. Awaited(c) /\ AsFields(c)
  BY <1>1, <1>5 DEF Sound, Awaited, AsFields, SameMatches
<1>8. Pending(c)
  <2>1. \A k \in PageIdx : k >= i + 1 => k >= find.extracted
    BY <1>3 DEF PageIdx
  <2> QED BY <1>1, <1>5, <2>1 DEF Sound, Pending, Live, SameMatches
<1>9. Content(c)
  <2> SUFFICES ASSUME Live(find), find.state.query # NoQuery
               PROVE  \A k \in PageIdx : c.pageMatches[k] = IF c.callbacks[k] > 0 THEN NoIndex ELSE Match(c, k)
    BY <1>1, <1>5 DEF Sound, Content, Live, SameMatches
  <2> TAKE k \in PageIdx
  <2>1. find.pageMatches[k] = IF find.callbacks[k] > 0 THEN NoIndex ELSE Match(find, k)
    BY <1>1 DEF Sound, Content
  <2>2. CASE k = i
    <3>1. find.callbacks[k] = 1
      BY <1>1, <1>3, <2>2 DEF Sound, Pending
    <3> QED BY <1>5, <2>1, <3>1 DEF SameMatches
  <2>3. CASE k # i
    <3>1. Match(c, k) = Match(find, k)
      BY <1>4, <1>5, <2>3, MatchSame
    <3> QED BY <1>5, <2>1, <3>1 DEF SameMatches
  <2> QED BY <2>2, <2>3
<1>10. Drawn(c)
  <2>1. \A k : Rendered(c, k) = Rendered(find, k)
    BY <1>5, RenderedSame DEF SameMatches, SamePlace, SameMarks
  <2> QED BY <1>1, <1>5, <2>1 DEF SamePlace, Drawn, DrawnBut, AllDrawn
<1>11. Outcome(c)
  <2>1. RequestMatchesCount(c) = RequestMatchesCount(find)
    BY <1>5, CountSame DEF SameMatches, SamePlace
  <2>2. Passed(find) => Passed(c)
    BY <1>5 DEF Passed, Dist, SameMatches, SamePlace
  <2>3. Over(find) => Over(c)
    BY <1>5, <2>1 DEF SameMatches, SamePlace, SameMarks, SameBar, Over
  <2> QED BY <1>1, <1>5, <2>2, <2>3 DEF SamePlace, SameMarks, Outcome, Live
<1>12. Away(c)
  <2>1. Blank(find) => Blank(c)
    BY <1>5 DEF Blank, SameMatches, SamePlace
  <2> QED BY <1>1, <1>5, <2>1 DEF Away
<1>13. Good(c)
  BY <1>5, <1>6, <1>7, <1>8, <1>9, <1>10, <1>11, <1>12 DEF Good
<1>14. /\ Good(find') /\ SameRequest(c, find')
       /\ find'.callbacks = [c.callbacks EXCEPT ![i] = 0]
  <2>1. i < c.extracted
    BY <1>3, <1>5
  <2> HIDE DEF i
  <2> QED BY <1>2, <1>3, <1>13, <2>1, PageAnswers
<1>15. Rest(find')
  <2>1. ASSUME NEW k \in PageIdx, k < find'.extracted PROVE find'.callbacks[k] = 0
    <3>1. k = i \/ k < find.extracted
      <4>1. find'.extracted = i + 1 /\ k \in Nat
        BY <1>5, <1>14 DEF SameRequest, PageIdx
      <4> QED BY <1>3, <2>1, <4>1
    <3>2. c.callbacks \in [PageIdx -> Nat] /\ c.callbacks = find.callbacks
      BY <1>5, FieldTypes DEF SameMatches
    <3> QED BY <1>3, <1>14, <3>1, <3>2 DEF Rest
  <2> QED BY <2>1 DEF Rest
<1> QED BY <1>14, <1>15

LEMMA DisableHighlighterKeeps ==
  ASSUME Good(find), Rest(find), NEW i \in LayerPages, DisableHighlighter(i)
  PROVE  Good(find') /\ Rest(find')
<1> DEFINE layers == [find.layers EXCEPT ![i] = NoLayer]
<1>1. find \in FindFields /\ Sound(find) /\ Outcome(find) /\ Drawn(find) /\ Away(find)
  BY Goodness DEF Sound
<1>2. layers \in Layers /\ \A k \in LayerPages : layers[k] = IF k = i THEN NoLayer ELSE find.layers[k]
  <2>1. find.layers \in Layers
    BY <1>1, FieldTypes
  <2>2. <<-1, FALSE>> \in Indices \X BOOLEAN
    <3>1. -1 \in Indices /\ FALSE \in BOOLEAN
      BY DEF Indices, NoIndex
    <3> QED BY <3>1
  <2>3. NoLayer \in SUBSET (Indices \X BOOLEAN)
    BY <2>2 DEF NoLayer
  <2> QED BY <2>1, <2>3 DEF Layers
<1>3. find' = [find EXCEPT !.layers = layers]
  BY DEF DisableHighlighter
<1> HIDE DEF layers
<1>4. /\ find' \in FindFields /\ find'.layers = layers /\ find'.document = find.document
      /\ find'.timeout = find.timeout /\ find'.waiting = find.waiting /\ find'.undrawn = find.undrawn
      /\ SameAsk(find, find') /\ SameMatches(find, find') /\ SamePlace(find, find') /\ SameMarks(find, find')
      /\ SameBar(find, find')
  <2>1. find' \in FindFields /\ find'.layers = layers
    BY ZenonT(60), <1>1, <1>2, <1>3 DEF FindFields
  <2> QED BY ZenonT(60), <1>1, <1>3, <2>1 DEF FindFields, SameAsk, SameMatches, SamePlace, SameMarks, SameBar
<1>5. Sound(find')
  BY <1>1, <1>4, SoundKept DEF SamePlace, Sound, Placed
<1>6. Outcome(find')
  <2>1. RequestMatchesCount(find') = RequestMatchesCount(find)
    BY <1>4, CountSame DEF SameMatches, SamePlace
  <2>2. Passed(find) => Passed(find')
    BY <1>4 DEF Passed, Dist, SameAsk, SameMatches, SamePlace
  <2>3. Over(find) => Over(find')
    BY <1>4, <2>1 DEF SameMatches, SamePlace, SameMarks, SameBar, Over
  <2> QED BY <1>1, <1>4, <2>2, <2>3 DEF SameAsk, SamePlace, SameMarks, Outcome, Live
<1>7. Drawn(find')
  <2>1. \A k : Rendered(find', k) = Rendered(find, k)
    BY <1>4, RenderedSame DEF SameAsk, SameMatches, SamePlace, SameMarks
  <2> QED BY <1>1, <1>2, <1>4, <2>1 DEF SameAsk, SamePlace, Drawn, DrawnBut, AllDrawn
<1>8. Away(find')
  <2>1. Blank(find) => Blank(find')
    BY <1>4 DEF Blank, SameMatches, SamePlace
  <2> QED BY <1>1, <1>2, <1>4, <2>1 DEF Away, SameAsk
<1>9. Rest(find')
  BY <1>4 DEF Rest, SameAsk, SameMatches
<1> QED BY <1>5, <1>6, <1>7, <1>8, <1>9 DEF Good, Sound

LEMMA EnableHighlighterKeeps ==
  ASSUME Good(find), Rest(find), NEW i \in LayerPages, EnableHighlighter(i)
  PROVE  Good(find') /\ Rest(find')
<1> USE FindAssumption
<1> DEFINE layers == [find.layers EXCEPT ![i] = {}]
           c == [find EXCEPT !.layers = layers]
<1>1. find \in FindFields /\ Sound(find) /\ Outcome(find) /\ Drawn(find) /\ Away(find) /\ find.document
  BY Goodness DEF Sound, EnableHighlighter
<1>2. layers \in Layers /\ \A k \in LayerPages : layers[k] = IF k = i THEN {} ELSE find.layers[k]
  <2>1. find.layers \in Layers
    BY <1>1, FieldTypes
  <2>2. {} \in SUBSET (Indices \X BOOLEAN)
    OBVIOUS
  <2> QED BY <2>1, <2>2 DEF Layers
<1>3. find' = UpdateMatches(c, {i})
  BY DEF EnableHighlighter
<1> HIDE DEF layers
<1>4. /\ c \in FindFields /\ c.layers = layers /\ c.document = find.document
      /\ c.timeout = find.timeout /\ c.waiting = find.waiting /\ c.undrawn = find.undrawn
      /\ SameAsk(find, c) /\ SameMatches(find, c) /\ SamePlace(find, c) /\ SameMarks(find, c)
      /\ SameBar(find, c)
  <2>1. c \in FindFields /\ c.layers = layers
    BY <1>1, <1>2 DEF FindFields
  <2> QED BY <1>1, <2>1 DEF FindFields, SameAsk, SameMatches, SamePlace, SameMarks, SameBar
<1> HIDE DEF c
<1>5. /\ find' \in FindFields
      /\ SameRequest(c, find') /\ SameMatches(c, find') /\ SamePlace(c, find') /\ SameMarks(c, find')
      /\ SameBar(c, find') /\ find'.undrawn = c.undrawn /\ Redrawn(c, find', {i})
  <2>1. {i} \in SUBSET PageIdx
    OBVIOUS
  <2> QED BY <1>3, <1>4, <2>1, UpdateMatchesFields
<1>6. /\ SameAsk(find, find') /\ SameMatches(find, find') /\ SamePlace(find, find') /\ SameMarks(find, find')
      /\ SameBar(find, find') /\ find'.document = find.document /\ find'.timeout = find.timeout
      /\ find'.waiting = find.waiting /\ find'.undrawn = find.undrawn
  BY <1>4, <1>5 DEF SameRequest, SameAsk, SameMatches, SamePlace, SameMarks, SameBar
<1>7. Sound(find')
  BY <1>1, <1>5, <1>6, SoundKept DEF SamePlace, Sound, Placed
<1>8. Outcome(find')
  <2>1. RequestMatchesCount(find') = RequestMatchesCount(find)
    BY <1>6, CountSame DEF SameMatches, SamePlace
  <2>2. Passed(find) => Passed(find')
    BY <1>6 DEF Passed, Dist, SameAsk, SameMatches, SamePlace
  <2>3. Over(find) => Over(find')
    BY <1>6, <2>1 DEF SameMatches, SamePlace, SameMarks, SameBar, Over
  <2> QED BY <1>1, <1>6, <2>2, <2>3 DEF SameAsk, SamePlace, SameMarks, Outcome, Live
<1>9. Drawn(find')
  <2>1. \A k : Rendered(find', k) = Rendered(find, k) /\ Rendered(c, k) = Rendered(find', k)
    BY <1>4, <1>5, <1>6, RenderedSame DEF SameRequest, SameAsk, SameMatches, SamePlace, SameMarks
  <2>2. \A k \in LayerPages : find'.layers[k] = IF k = i THEN Rendered(find', k) ELSE find.layers[k]
    <3>1. {} # NoLayer
      BY DEF NoLayer
    <3> QED BY <1>2, <1>4, <1>5, <2>1, <3>1 DEF Redrawn
  <2> QED BY <1>1, <1>6, <2>1, <2>2 DEF SameAsk, SamePlace, Drawn, DrawnBut, AllDrawn
<1>10. Away(find')
  <2>1. Blank(find) => Blank(find')
    BY <1>6 DEF Blank, SameMatches, SamePlace
  <2> QED BY <1>1, <1>6, <2>1 DEF Away, SameAsk
<1>11. Rest(find')
  BY <1>6 DEF Rest, SameAsk, SameMatches
<1> QED BY <1>7, <1>8, <1>9, <1>10, <1>11 DEF Good, Sound

----------------------------------------------------------------------------
(* The theorems                                                            *)

LEMMA FindInitOk == FindInit => FindInv
<1> SUFFICES ASSUME FindInit PROVE FindInv
  OBVIOUS
<1> DEFINE c == [opened |-> FALSE, fields |-> EmptyBar]
<1>1. c.opened \in BOOLEAN /\ c.fields \in BarFields
  BY DEF EmptyBar, BarFields
<1>2. find = ResetFind(c) /\ finds = 0
  BY DEF FindInit
<1> HIDE DEF c
<1>3. Good(find) /\ Rest(find)
  BY <1>1, <1>2, ResetGood
<1>4. finds \in 0 .. MaxFinds
  BY <1>2, FindAssumption
<1> QED BY <1>3, <1>4 DEF FindInv

LEMMA FindStep == FindInv /\ [FindNext]_findVars => FindInv'
<1> SUFFICES ASSUME FindInv, [FindNext]_findVars PROVE FindInv'
  OBVIOUS
<1>1. Good(find) /\ Rest(find) /\ finds \in 0 .. MaxFinds
  BY DEF FindInv
<1>2. CASE UNCHANGED findVars
  BY <1>1, <1>2 DEF FindInv, findVars
<1>3. CASE FindNext
  <2>1. finds' \in 0 .. MaxFinds
    <3>1. MaxFinds \in Nat
      BY FindAssumption
    <3>2. FindCounted \/ UNCHANGED finds
      BY <1>3 DEF FindNext, FindWorks, FindInput, FindAgain, HighlightAllChange, CaseSensitivityChange,
                  OpenFindBar, CloseFindBar, FindInDocument, LeaveDocument, FindGoToPage,
                  EnableHighlighter, DisableHighlighter, FindTimeout, ExtractText
    <3> QED BY <1>1, <3>1, <3>2 DEF FindCounted
  <2>2. Good(find') /\ Rest(find')
    <3>1. ASSUME NEW q \in Queries \cup {NoQuery}, FindInput(q) PROVE Good(find') /\ Rest(find')
      BY <1>1, <3>1, FindInputKeeps
    <3>2. ASSUME NEW previous \in BOOLEAN, NEW pageVisible \in BOOLEAN, FindAgain(previous, pageVisible)
          PROVE  Good(find') /\ Rest(find')
      BY <1>1, <3>2, FindAgainKeeps
    <3>3. CASE HighlightAllChange
      BY <1>1, <3>3, HighlightAllChangeKeeps
    <3>4. CASE CaseSensitivityChange
      BY <1>1, <3>4, CaseSensitivityChangeKeeps
    <3>5. CASE OpenFindBar \/ CloseFindBar
      BY <1>1, <3>5, FindBarKeeps
    <3>6. CASE FindInDocument
      BY <1>1, <3>6, FindInDocumentKeeps
    <3>7. CASE LeaveDocument
      BY <1>1, <3>7, LeaveDocumentKeeps
    <3>8. ASSUME NEW i \in PageIdx, FindGoToPage(i) PROVE Good(find') /\ Rest(find')
      BY <1>1, <3>8, FindGoToPageKeeps
    <3>9. ASSUME NEW i \in LayerPages, EnableHighlighter(i) PROVE Good(find') /\ Rest(find')
      BY <1>1, <3>9, EnableHighlighterKeeps
    <3>10. ASSUME NEW i \in LayerPages, DisableHighlighter(i) PROVE Good(find') /\ Rest(find')
      BY <1>1, <3>10, DisableHighlighterKeeps
    <3>11. CASE FindTimeout
      BY <1>1, <3>11, FindTimeoutKeeps
    <3>12. ASSUME NEW fails \in BOOLEAN, ExtractText(fails) PROVE Good(find') /\ Rest(find')
      BY <1>1, <3>12, ExtractTextKeeps
    <3> QED BY <1>3, <3>1, <3>2, <3>3, <3>4, <3>5, <3>6, <3>7, <3>8, <3>9, <3>10, <3>11, <3>12
            DEF FindNext, FindWorks
  <2>3. FindInv' = (Good(find') /\ Rest(find') /\ finds' \in 0 .. MaxFinds)
    BY DEF FindInv
  <2> QED BY <2>1, <2>2, <2>3
<1> QED BY <1>2, <1>3

LEMMA FindInvHolds == FindSpec => []FindInv
BY FindInitOk, FindStep, PTL DEF FindSpec

LEMMA FindInvIsSound == FindInv => FindIsSound
<1> USE FindAssumption
<1> SUFFICES ASSUME FindInv PROVE FindIsSound
  OBVIOUS
<1>1. Good(find) /\ find \in FindFields /\ Sound(find) /\ Outcome(find) /\ Drawn(find)
  BY Goodness DEF FindInv, Sound
<1>2. FindTypeOK
  BY <1>1 DEF FindInv, FindTypeOK
<1>3. MatchesAreOfThePresentQuery
  <2> SUFFICES ASSUME Searching PROVE Live(find) /\ find.state.query # NoQuery
    BY <1>1 DEF Sound, Content, MatchesAreOfThePresentQuery
  <2> QED BY DEF Searching, Live, NoState
<1>4. SelectionExists
  BY <1>1 DEF Sound, Placed, Exists, SelectionExists
<1>5. LayersShowTheMatches
  BY <1>1 DEF Drawn, AllDrawn, LayersShowTheMatches
<1> QED BY <1>2, <1>3, <1>4, <1>5 DEF FindIsSound

LEMMA FindInvIsTheRank == FindInv => CountIsTheRank
<1> USE FindAssumption
<1> SUFFICES ASSUME FindInv, Searching, ~find.turned, find.resume = NoIndex, \A i \in PageIdx : find.callbacks[i] = 0
             PROVE  /\ find.count = RequestMatchesCount(find)
                    /\ find.total > 0 <=> find.count[1] > 0
                    /\ find.status = "notFound" => find.total = 0
  BY DEF CountIsTheRank
<1>1. find \in FindFields /\ Sound(find) /\ Outcome(find) /\ Exists(find)
  BY Goodness DEF FindInv, Sound, Placed
<1>2. Live(find) /\ find.state.query # NoQuery
  BY DEF Searching, Live, NoState
<1>3. Over(find)
  BY <1>1, <1>2 DEF Outcome
<1>4. /\ find.total \in Nat /\ find.pageMatches \in Matches /\ find.selected.page \in PageIndices
      /\ find.total = MatchesBefore(find.pageMatches)[PageTotal]
  BY <1>1, <1>2, FieldTypes DEF Sound, Content
<1>5. CASE find.selected.page # NoIndex /\ find.status # "notFound"
  <2> DEFINE i == find.selected.page
             rank == MatchesBefore(find.pageMatches)[i] + find.selected.match + 1
  <2>1. i \in PageIdx /\ find.selected.match \in 0 .. find.pageMatches[i] - 1
    BY <1>1, <1>4, <1>5 DEF Exists, PageIndices
  <2>2. /\ MatchesBefore(find.pageMatches)[i] + Value(find.pageMatches, i) <= find.total
        /\ MatchesBefore(find.pageMatches)[i] \in Nat
    <3>1. MatchesBefore(find.pageMatches) \in [0 .. PageTotal -> Nat]
      BY <1>4, SumOfPages
    <3>2. i \in 0 .. PageTotal
      BY <2>1 DEF PageIdx
    <3> QED BY <1>4, <2>1, <3>1, <3>2, SumHolds
  <2>3. find.pageMatches[i] \in Nat /\ Value(find.pageMatches, i) = find.pageMatches[i] /\ find.selected.match # NoIndex
    BY <1>4, <2>1 DEF Matches, Indices, Value, NoIndex
  <2>4. rank >= 1 /\ rank <= find.total
    BY <1>4, <2>1, <2>2, <2>3
  <2>5. rank \in Nat
    BY <2>1, <2>2
  <2>6. RequestMatchesCount(find) = <<rank, find.total>>
    BY <1>4, <2>3, <2>4, <2>5 DEF RequestMatchesCount
  <2>7. find.count = <<rank, find.total>>
    BY <1>3, <2>6 DEF Over
  <2> HIDE DEF rank
  <2>8. find.count[1] = rank
    BY <2>7
  <2> QED BY <1>3, <1>4, <1>5, <2>4, <2>8, <2>5 DEF Over
<1>6. CASE \A i \in PageIdx : find.pageMatches[i] = 0
  <2>1. find.total = 0
    BY <1>4, <1>6, SumOfNone
  <2>2. find.selected.page = NoIndex
    <3>1. \A k : ~(k \in 0 .. 0 - 1)
      OBVIOUS
    <3> QED BY <1>1, <1>4, <1>6, <3>1 DEF Exists, PageIndices
  <2>3. RequestMatchesCount(find) = <<0, 0>>
    BY <1>1, <2>2 DEF Exists, RequestMatchesCount
  <2>4. find.count = <<0, 0>>
    BY <1>3, <2>3 DEF Over
  <2>5. find.count[1] = 0
    BY <2>4
  <2> QED BY <1>3, <2>1, <2>5 DEF Over
<1> QED BY <1>3, <1>5, <1>6 DEF Over

\* However the reader types, asks for the next match or the one before, changes the
\* options, closes the bar, scrolls and leaves documents while the text of the pages
\* arrives: what the controller holds are the matches of the present query, the selected
\* match is one of them, and the text layers show them.
THEOREM FindCorrect == FindSpec => []FindIsSound
BY FindInvHolds, FindInvIsSound, PTL

\* A search that is over shows the rank of the selected match and the number of all
\* matches; only a document without a match is said to have none.
THEOREM CountCorrect == FindSpec => []CountIsTheRank
BY FindInvHolds, FindInvIsTheRank, PTL
=========================================================================
