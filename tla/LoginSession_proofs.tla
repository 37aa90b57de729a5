------------------------ MODULE LoginSession_proofs ------------------------
(***************************************************************************)
(* The safety properties of LoginSession, for any number of tabs, pages    *)
(* and persons, and any documents.                                         *)
(***************************************************************************)
EXTENDS LoginSession, TLAPS

----------------------------------------------------------------------------
\* Every handler answers with a typed cookie, a typed tab and a page.
LEMMA AnswerTyped ==
  ASSUME TypeOK, NEW t \in Tabs, NEW cookie \in Cookie, NEW tab \in Tab,
         NEW page \in Pages \cup {None}, Answer(t, cookie, tab, page)
  PROVE  /\ jar' \in Cookie /\ tabs' \in [Tabs -> Tab]
         /\ sought' \in [Tabs -> Pages \cup {None}]
BY DEF TypeOK, Answer

LEMMA WaitTyped ==
  ASSUME NEW url \in Places, NEW referer \in Places \cup {None},
         NEW cookie \in Cookie
  PROVE  /\ Wait(url, referer, cookie) \in Tab
         /\ Wait(url, referer, cookie).at = "wait"
         /\ Wait(url, referer, cookie).url = url
         /\ Wait(url, referer, cookie).cookie = cookie
         /\ Wait(url, referer, cookie) # AtProvider
BY DEF Wait, Tab, AtProvider

LEMMA RestTyped ==
  ASSUME NEW url \in Places \cup {None}, NEW shows \in Shown
  PROVE  /\ Rest(url, shows) \in Tab /\ Rest(url, shows).at = "rest"
         /\ Rest(url, shows) # AtProvider
BY DEF Rest, Tab, AtProvider

LEMMA ProviderTyped == AtProvider \in Tab /\ AtProvider.at = "provider"
BY DEF Tab, AtProvider

LEMMA WaitingTyped ==
  ASSUME TypeOK, NEW t \in Tabs, Waiting(t)
  PROVE  /\ tabs[t].url \in Places /\ tabs[t].referer \in Places \cup {None}
         /\ Cookied(t) \in Cookie /\ tabs[t] # AtProvider
BY DEF TypeOK, Waiting, Cookied, Tab, AtProvider

\* The cookies that the handlers write.
LEMMA CookiesTyped ==
  /\ NewSession \in Cookie
  /\ \A c \in Cookie :
       /\ \A p \in Pages : [c EXCEPT !.requested_page = p] \in Cookie
       /\ \A o \in Places \cup {None} : [c EXCEPT !.origin = o] \in Cookie
       /\ [c EXCEPT !.return_to = None] \in Cookie
       /\ [c EXCEPT !.stale = TRUE] \in Cookie
       /\ \A u \in Persons :
            [c EXCEPT !.user = u, !.stale = FALSE, !.origin = None] \in Cookie
  /\ \A o \in Places : [NewSession EXCEPT !.return_to = o] \in Cookie
<1>1. NewSession \in Cookie
  BY DEF NewSession, Cookie
<1>2. ASSUME NEW c \in Cookie, NEW u \in Persons
      PROVE  [c EXCEPT !.user = u, !.stale = FALSE, !.origin = None] \in Cookie
  <2> DEFINE d == [c EXCEPT !.user = u]
             e == [d EXCEPT !.stale = FALSE]
  <2>1. d \in Cookie BY DEF Cookie
  <2> HIDE DEF d
  <2>2. e \in Cookie BY <2>1 DEF Cookie
  <2> HIDE DEF e
  <2>3. [e EXCEPT !.origin = None] \in Cookie BY <2>2 DEF Cookie
  <2>4. [e EXCEPT !.origin = None]
          = [c EXCEPT !.user = u, !.stale = FALSE, !.origin = None]
    BY DEF d, e
  <2> QED BY <2>3, <2>4
<1>3. ASSUME NEW c \in Cookie
      PROVE  /\ \A p \in Pages : [c EXCEPT !.requested_page = p] \in Cookie
             /\ \A o \in Places \cup {None} : [c EXCEPT !.origin = o] \in Cookie
             /\ [c EXCEPT !.return_to = None] \in Cookie
             /\ [c EXCEPT !.stale = TRUE] \in Cookie
  BY DEF Cookie
<1>4. \A o \in Places : [NewSession EXCEPT !.return_to = o] \in Cookie
  BY <1>1 DEF Cookie
<1> QED BY <1>1, <1>2, <1>3, <1>4

LEMMA PlacesOfEndpoints ==
  /\ \A p \in Pages : p \in Places
  /\ {"home", "sign_in", "authorize", "callback", "sign_out"} \subseteq Places
BY DEF Places, Endpoints

\* What the parts of a cookie are.
LEMMA CookieFields ==
  ASSUME NEW c \in Cookie
  PROVE  /\ c.user \in Persons \cup {Guest} /\ c.stale \in BOOLEAN
         /\ c.requested_page \in Pages \cup {None}
         /\ c.origin \in Places \cup {None} /\ c.return_to \in Places \cup {None}
BY DEF Cookie

\* The parts of a cookie that a handler does not name stay.
LEMMA CookieParts ==
  ASSUME NEW c \in Cookie
  PROVE  /\ \A p \in Pages :
              /\ [c EXCEPT !.requested_page = p].user = c.user
              /\ [c EXCEPT !.requested_page = p].requested_page = p
         /\ \A o \in Places \cup {None} :
              /\ [c EXCEPT !.origin = o].user = c.user
              /\ [c EXCEPT !.origin = o].requested_page = c.requested_page
         /\ [c EXCEPT !.return_to = None].user = c.user
         /\ [c EXCEPT !.stale = TRUE].user = c.user
         /\ [c EXCEPT !.stale = TRUE].requested_page = c.requested_page
         /\ \A u \in Persons :
              /\ [c EXCEPT !.user = u, !.stale = FALSE, !.origin = None].user = u
              /\ [c EXCEPT !.user = u, !.stale = FALSE, !.origin = None].stale = FALSE
              /\ [c EXCEPT !.user = u, !.stale = FALSE, !.origin = None].requested_page
                    = c.requested_page
<1>1. ASSUME NEW u \in Persons
      PROVE  /\ [c EXCEPT !.user = u, !.stale = FALSE, !.origin = None].user = u
             /\ [c EXCEPT !.user = u, !.stale = FALSE, !.origin = None].stale = FALSE
             /\ [c EXCEPT !.user = u, !.stale = FALSE, !.origin = None].requested_page
                   = c.requested_page
  <2> DEFINE d == [c EXCEPT !.user = u]
             e == [d EXCEPT !.stale = FALSE]
  <2>1. d \in Cookie /\ d.user = u /\ d.requested_page = c.requested_page
    BY DEF Cookie
  <2> HIDE DEF d
  <2>2. /\ e \in Cookie /\ e.user = d.user /\ e.stale = FALSE
        /\ e.requested_page = d.requested_page
    BY <2>1 DEF Cookie
  <2> HIDE DEF e
  <2>3. /\ [e EXCEPT !.origin = None].user = e.user
        /\ [e EXCEPT !.origin = None].stale = e.stale
        /\ [e EXCEPT !.origin = None].requested_page = e.requested_page
    BY <2>2 DEF Cookie
  <2>4. [e EXCEPT !.origin = None]
          = [c EXCEPT !.user = u, !.stale = FALSE, !.origin = None]
    BY DEF d, e
  <2> QED BY <2>1, <2>2, <2>3, <2>4
<1>2. /\ \A p \in Pages :
           /\ [c EXCEPT !.requested_page = p].user = c.user
           /\ [c EXCEPT !.requested_page = p].requested_page = p
      /\ \A o \in Places \cup {None} :
           /\ [c EXCEPT !.origin = o].user = c.user
           /\ [c EXCEPT !.origin = o].requested_page = c.requested_page
      /\ [c EXCEPT !.return_to = None].user = c.user
      /\ [c EXCEPT !.stale = TRUE].user = c.user
      /\ [c EXCEPT !.stale = TRUE].requested_page = c.requested_page
  BY DEF Cookie
<1> QED BY <1>1, <1>2

\* The cookies of Timeout, RefusePage and Callback.
LEMMA StoredCookie ==
  ASSUME NEW o \in Places
  PROVE  /\ [NewSession EXCEPT !.return_to = o] \in Cookie
         /\ [NewSession EXCEPT !.return_to = o].user = Guest
BY CookiesTyped DEF NewSession

LEMMA RequestedCookie ==
  ASSUME NEW c \in Cookie, NEW p \in Pages
  PROVE  /\ [c EXCEPT !.requested_page = p] \in Cookie
         /\ [c EXCEPT !.requested_page = p].user = c.user
         /\ [c EXCEPT !.requested_page = p].requested_page = p
BY CookiesTyped, CookieParts

LEMMA SignedInCookie ==
  ASSUME NEW c \in Cookie, NEW u \in Persons
  PROVE  /\ [c EXCEPT !.user = u, !.stale = FALSE, !.origin = None] \in Cookie
         /\ [c EXCEPT !.user = u, !.stale = FALSE, !.origin = None].user = u
         /\ [c EXCEPT !.user = u, !.stale = FALSE, !.origin = None].stale = FALSE
BY CookiesTyped, CookieParts

(***************************************************************************)
(* What every handler has in common: it answers with a cookie of the user  *)
(* that came, or settles who the user is; a tab that goes on goes with the *)
(* cookie of the answer.                                                   *)
(***************************************************************************)
Common(t, c, tab, page) ==
  /\ Answer(t, c, tab, page)
  /\ tab.at = "wait" => tab.cookie = c
  /\ \/ c.user = Cookied(t).user /\ UNCHANGED settled
     \/ Settles(t, c.user)

Handled(t) ==
  \E c \in Cookie, tab \in Tab, page \in Pages \cup {None} : Common(t, c, tab, page)

\* A handler that redirects is one.
LEMMA RedirectHandled ==
  ASSUME NEW t \in Tabs, NEW url \in Places, NEW referer \in Places \cup {None},
         NEW c \in Cookie, NEW q \in Pages \cup {None},
         Answer(t, c, Wait(url, referer, c), q),
         \/ c.user = Cookied(t).user /\ UNCHANGED settled
         \/ Settles(t, c.user)
  PROVE  Handled(t)
<1> DEFINE tab == Wait(url, referer, c)
<1>1. tab \in Tab /\ tab.cookie = c
  BY WaitTyped
<1>2. Answer(t, c, tab, q)
  OBVIOUS
<1> HIDE DEF tab
<1>3. Common(t, c, tab, q)
  BY <1>1, <1>2 DEF Common
<1> QED BY <1>1, <1>3 DEF Handled

LEMMA ServeCases ==
  ASSUME TypeOK, NEW t \in Tabs, Serve(t)
  PROVE  /\ Waiting(t)
         /\ \/ CallbackFails(t)
            \/ Handled(t)
<1>0. /\ \A p \in Pages : p \in Places
      /\ "home" \in Places /\ "sign_in" \in Places /\ "authorize" \in Places
  BY PlacesOfEndpoints
<1>s. sought[t] \in Pages \cup {None}
  BY DEF TypeOK
<1>w. Waiting(t)
  BY DEF Serve, Timeout, Home, SignInPage, Authorize, Callback, CallbackFails,
     SignOut, ShowPage, RefusePage, Reaches
<1>c. /\ Cookied(t) \in Cookie /\ tabs[t].url \in Places
      /\ tabs[t].referer \in Places \cup {None}
  BY <1>w, WaitingTyped
<1>n. NewSession \in Cookie /\ NewSession.user = Guest
  BY CookiesTyped DEF NewSession
<1>1. CASE Timeout(t)
  <2> DEFINE c == [NewSession EXCEPT !.return_to = tabs[t].url]
  <2>1. c \in Cookie /\ c.user = Guest
    BY <1>c, StoredCookie
  <2> HIDE DEF c
  <2>2. /\ Answer(t, c, Wait(tabs[t].url, tabs[t].referer, c), sought[t])
        /\ Settles(t, Guest)
    BY <1>1 DEF Timeout, c
  <2> QED BY <1>w, RedirectHandled, <1>c, <1>s, <2>1, <2>2
<1>2. ASSUME NEW page \in Pages, ShowPage(t, page)
      PROVE  Handled(t)
  <2>1. Rest(page, "page") \in Tab /\ Rest(page, "page").at = "rest"
    BY <1>0, RestTyped DEF Shown
  <2> QED BY <1>2, <1>c, <2>1 DEF ShowPage, Common, Handled
<1>3. ASSUME NEW page \in Pages, RefusePage(t, page)
      PROVE  Handled(t)
  <2>1. CASE Refusal(Doc[page].visibility) = "login"
    <3> DEFINE c == [Cookied(t) EXCEPT !.requested_page = page]
    <3>1. c \in Cookie /\ c.user = Cookied(t).user
      BY <1>c, CookiesTyped, CookieParts
    <3>2. /\ Answer(t, c, Wait("sign_in", tabs[t].referer, c), page)
          /\ UNCHANGED settled
      BY <1>3, <2>1 DEF RefusePage
    <3> HIDE DEF c
    <3> QED BY <1>0, <1>w, RedirectHandled, <1>c, <3>1, <3>2
  <2>2. CASE Refusal(Doc[page].visibility) # "login"
    <3>1. Rest(page, "refused") \in Tab /\ Rest(page, "refused").at = "rest"
      BY <1>0, RestTyped DEF Shown
    <3> QED BY <1>3, <1>c, <2>2, <3>1 DEF RefusePage, Common, Handled
  <2> QED BY <2>1, <2>2
<1>4. CASE Home(t)
  <2>1. Rest("home", "home") \in Tab /\ Rest("home", "home").at = "rest"
    BY <1>0, RestTyped DEF Shown
  <2> QED BY <1>4, <1>w, <1>c, <2>1 DEF Home, Common, Handled
<1>5. CASE SignInPage(t)
  <2>1. CASE Signed(t)
    <3> DEFINE c == [Cookied(t) EXCEPT !.return_to = None]
               target == IF Cookied(t).return_to = None
                           THEN "home" ELSE Cookied(t).return_to
    <3>1. c \in Cookie /\ c.user = Cookied(t).user
      BY <1>c, CookiesTyped, CookieParts
    <3>4. Cookied(t).return_to \in Places \cup {None}
      BY <1>c, CookieFields
    <3>2. target \in Places
      BY <1>0, <3>4
    <3>3. /\ Answer(t, c, Wait(target, tabs[t].referer, c), sought[t])
          /\ UNCHANGED settled
      BY <1>5, <2>1 DEF SignInPage
    <3> HIDE DEF c, target
    <3> QED BY <1>w, RedirectHandled, <1>c, <1>s, <3>1, <3>2, <3>3
  <2>2. CASE ~ Signed(t)
    <3>1. /\ Answer(t, Cookied(t),
                    Wait("authorize", tabs[t].referer, Cookied(t)), sought[t])
          /\ UNCHANGED settled
      BY <1>5, <2>2 DEF SignInPage
    <3> QED BY <1>0, <1>w, RedirectHandled, <1>c, <1>s, <3>1
  <2> QED BY <2>1, <2>2
<1>6. CASE Authorize(t)
  <2> DEFINE o == IF tabs[t].referer = None THEN Cookied(t).origin ELSE tabs[t].referer
             c == [Cookied(t) EXCEPT !.origin = o]
  <2>1. o \in Places \cup {None}
    BY <1>c, CookieFields
  <2>2. Answer(t, c, AtProvider, sought[t]) /\ UNCHANGED settled
    BY <1>6 DEF Authorize
  <2> HIDE DEF o
  <2>3. c \in Cookie /\ c.user = Cookied(t).user
    BY <1>c, <2>1, CookiesTyped, CookieParts
  <2> HIDE DEF c
  <2> QED BY <1>w, <1>s, <2>2, <2>3, ProviderTyped DEF Common, Handled
<1>7. CASE Callback(t)
  <2>1. PICK person \in Persons :
          LET old == Cookied(t)
              c == [old EXCEPT !.user = person, !.stale = FALSE, !.origin = None]
              target == CASE old.requested_page # None -> old.requested_page
                          [] old.requested_page = None /\ old.origin # None -> old.origin
                          [] OTHER -> "home" IN
          Answer(t, c, Wait(target, None, c), sought[t]) /\ Settles(t, person)
    BY <1>7 DEF Callback
  <2> DEFINE old == Cookied(t)
             c == [old EXCEPT !.user = person, !.stale = FALSE, !.origin = None]
             target == CASE old.requested_page # None -> old.requested_page
                         [] old.requested_page = None /\ old.origin # None -> old.origin
                         [] OTHER -> "home"
  <2>2. c \in Cookie /\ c.user = person
    BY <1>c, SignedInCookie
  <2>3. target \in Places
    <3>1. CASE old.requested_page # None
      BY <1>0, <1>c, <3>1 DEF Cookie
    <3>2. CASE old.requested_page = None /\ old.origin # None
      BY <1>c, <3>2 DEF Cookie
    <3>3. CASE old.requested_page = None /\ old.origin = None
      BY <1>0, <3>3
    <3> QED BY <3>1, <3>2, <3>3
  <2>4. Answer(t, c, Wait(target, None, c), sought[t]) /\ Settles(t, person)
    BY <2>1
  <2> HIDE DEF c, target
  <2>5. None \in Places \cup {None}
    OBVIOUS
  <2> QED BY <1>w, RedirectHandled, <2>5, <1>s, <2>2, <2>3, <2>4
<1>8. CASE SignOut(t)
  <2> DEFINE c == IF Signed(t) THEN NewSession ELSE Cookied(t)
  <2>1. c \in Cookie /\ (Signed(t) => c.user = Guest)
        /\ (~ Signed(t) => c.user = Cookied(t).user)
    BY <1>c, <1>n
  <2>2. /\ Answer(t, c, Wait("home", tabs[t].referer, c), sought[t])
        /\ IF Signed(t) THEN Settles(t, Guest) ELSE UNCHANGED settled
    BY <1>8 DEF SignOut
  <2> HIDE DEF c
  <2> QED BY <1>0, <1>w, RedirectHandled, <1>c, <1>s, <2>1, <2>2
<1> QED
  BY <1>w, <1>1, <1>2, <1>3, <1>4, <1>5, <1>6, <1>7, <1>8 DEF Serve
----------------------------------------------------------------------------
\* While it is known who the browser is, all its cookies say so.
CookiesAgree ==
  settled # "unknown" =>
    /\ jar.user = settled
    /\ \A t \in Tabs : Waiting(t) => Cookied(t).user = settled

SettledInv == TypeOK /\ CookiesAgree

LEMMA SettledStep ==
  ASSUME SettledInv, [Next]_vars
  PROVE  SettledInv'
<1>0. TypeOK /\ CookiesAgree BY DEF SettledInv
<1>1. ASSUME NEW t \in Tabs, Waiting(t),
             NEW c \in Cookie, NEW tab \in Tab, NEW page \in Pages \cup {None},
             Common(t, c, tab, page)
      PROVE  SettledInv'
  <2>1. /\ jar' \in Cookie /\ tabs' \in [Tabs -> Tab]
        /\ sought' \in [Tabs -> Pages \cup {None}]
    BY <1>0, <1>1, AnswerTyped DEF Common
  <2>2. settled' \in Persons \cup {Guest, "unknown"}
    BY <1>0, <1>1 DEF Common, Settles, TypeOK, Cookie
  <2>3. /\ jar' = c /\ tabs'[t] = tab
        /\ \A s \in Tabs \ {t} : tabs'[s] = tabs[s]
    BY <1>0, <1>1 DEF Common, Answer, TypeOK
  <2>4. ASSUME c.user = Cookied(t).user, UNCHANGED settled
        PROVE  CookiesAgree'
    BY <1>0, <1>1, <2>3, <2>4 DEF CookiesAgree, Common, Waiting, Cookied
  <2>5. ASSUME Settles(t, c.user)
        PROVE  CookiesAgree'
    BY <1>0, <1>1, <2>3, <2>5 DEF CookiesAgree, Common, Settles, Waiting, Cookied
  <2>6. CookiesAgree'
    BY <1>1, <2>4, <2>5 DEF Common
  <2> QED BY <2>1, <2>2, <2>6 DEF SettledInv, TypeOK
<1>2. ASSUME NEW t \in Tabs, CallbackFails(t)
      PROVE  SettledInv'
  <2>1. Rest("callback", "error") \in Tab /\ Rest("callback", "error").at = "rest"
    BY PlacesOfEndpoints, RestTyped DEF Shown
  <2>2. TypeOK'
    BY <1>0, <1>2, <2>1 DEF CallbackFails, TypeOK
  <2>3. CookiesAgree'
    BY <1>0, <1>2, <2>1 DEF CallbackFails, TypeOK, CookiesAgree, Waiting, Cookied
  <2> QED BY <2>2, <2>3 DEF SettledInv
<1>3. ASSUME NEW t \in Tabs, NEW url \in Places, NEW referer \in Places \cup {None},
             tabs' = [tabs EXCEPT ![t] = Wait(url, referer, jar)],
             sought' \in [Tabs -> Pages \cup {None}],
             UNCHANGED <<jar, settled>>
      PROVE  SettledInv'
  <2>1. /\ Wait(url, referer, jar) \in Tab
        /\ Wait(url, referer, jar).cookie = jar
    BY <1>0, WaitTyped DEF TypeOK
  <2>2. TypeOK'
    BY <1>0, <1>3, <2>1 DEF TypeOK
  <2>3. CookiesAgree'
    BY <1>0, <1>3, <2>1 DEF TypeOK, CookiesAgree, Waiting, Cookied
  <2> QED BY <2>2, <2>3 DEF SettledInv
<1>4. ASSUME NEW t \in Tabs, NEW url \in Pages \cup {"home", "sign_in", "sign_out"},
             NEW referer \in Places \cup {None}, Open(t, url, referer)
      PROVE  SettledInv'
  <2>1. url \in Places
    BY PlacesOfEndpoints
  <2>2. sought' \in [Tabs -> Pages \cup {None}]
    BY <1>0, <1>4 DEF Open, TypeOK
  <2> QED BY <1>3, <1>4, <2>1, <2>2 DEF Open
<1>5. ASSUME NEW t \in Tabs, ProviderAnswers(t)
      PROVE  SettledInv'
  BY <1>0, <1>3, <1>5, PlacesOfEndpoints DEF ProviderAnswers, TypeOK
<1>6. CASE DayPasses
  <2>1. [jar EXCEPT !.stale = TRUE] \in Cookie
        /\ [jar EXCEPT !.stale = TRUE].user = jar.user
    BY <1>0, CookiesTyped, CookieParts DEF TypeOK
  <2> QED BY <1>0, <1>6, <2>1
          DEF DayPasses, SettledInv, TypeOK, CookiesAgree, Waiting, Cookied
<1>7. CASE UNCHANGED vars
  BY <1>0, <1>7 DEF vars, SettledInv, TypeOK, CookiesAgree, Waiting, Cookied
<1>8. ASSUME NEW t \in Tabs, Serve(t)
      PROVE  SettledInv'
  BY <1>0, <1>1, <1>2, <1>8, ServeCases DEF Handled
<1> QED BY <1>4, <1>5, <1>6, <1>7, <1>8 DEF Next

LEMMA SettledInit ==
  ASSUME Init
  PROVE  SettledInv
<1>1. Rest(None, "blank") \in Tab /\ Rest(None, "blank").at = "rest"
  BY RestTyped DEF Shown
<1>2. NewSession \in Cookie /\ NewSession.user = Guest
  BY CookiesTyped DEF NewSession
<1> QED BY <1>1, <1>2 DEF Init, SettledInv, TypeOK, CookiesAgree, Waiting

(***************************************************************************)
(* Every state is well typed: no redirect leads to nil, none to a page     *)
(* that does not exist (OmniauthCallbacksController#shibboleth, line 13).  *)
(***************************************************************************)
THEOREM Typing == Spec => []TypeOK
<1>1. SettledInv /\ [Next]_vars => SettledInv' BY SettledStep
<1>2. SettledInv => TypeOK BY DEF SettledInv
<1> QED BY <1>1, <1>2, SettledInit, PTL DEF Spec

(***************************************************************************)
(* A sign-in, sign-out or timeout that overtakes no other request is not   *)
(* undone by a later response.                                             *)
(***************************************************************************)
THEOREM SessionsSettle == Spec => []SessionSettles
<1>1. SettledInv /\ [Next]_vars => SettledInv' BY SettledStep
<1>2. SettledInv => SessionSettles
  BY DEF SettledInv, CookiesAgree, SessionSettles
<1> QED BY <1>1, <1>2, SettledInit, PTL DEF Spec

----------------------------------------------------------------------------
\* A tab that seeks a page anyone signed in may see is on its way there.
OnItsWay(t, page) ==
  \/ /\ Waiting(t) /\ tabs[t].url \in {"sign_in", "authorize"}
     /\ Cookied(t).user = Guest /\ Cookied(t).requested_page = page
  \/ tabs[t] = AtProvider /\ jar.requested_page = page
  \/ /\ Waiting(t) /\ tabs[t].url = "callback"
     /\ Cookied(t).requested_page = page
  \/ /\ Waiting(t) /\ tabs[t].url = page
     /\ Cookied(t).user \in Persons /\ Cookied(t).stale = FALSE

SeekersGetOn ==
  \A t \in Tabs, page \in Pages :
    sought[t] = page /\ ForAnyPerson(page) => OnItsWay(t, page)

LEMMA Apart ==
  \A page \in Pages :
    page \notin {"home", "sign_in", "authorize", "callback", "sign_out"} /\ page # None
BY PagesAssumption DEF Endpoints

\* The answer to one tab takes no other tab off its way.
LEMMA OthersGetOn ==
  ASSUME TypeOK, SeekersGetOn, NEW t \in Tabs, NEW c \in Cookie, NEW tab \in Tab,
         NEW q \in Pages \cup {None}, Answer(t, c, tab, q),
         NEW s \in Tabs, s # t, NEW page \in Pages,
         sought'[s] = page, ForAnyPerson(page)
  PROVE  OnItsWay(s, page)'
<1>1. page # None BY Apart
<1>2. sought[s] = page /\ c.requested_page = page /\ tabs'[s] = tabs[s] /\ jar' = c
  BY <1>1 DEF Answer, TypeOK
<1>3. OnItsWay(s, page)
  BY <1>2 DEF SeekersGetOn
<1> QED BY <1>2, <1>3 DEF OnItsWay, Waiting, Cookied
\* What the record of what is sought says after an answer to the tab itself.
LEMMA OwnQuest ==
  ASSUME TypeOK, NEW t \in Tabs, NEW c \in Cookie, NEW tab \in Tab,
         NEW q \in Pages \cup {None}, Answer(t, c, tab, q)
  PROVE  /\ jar' = c /\ tabs'[t] = tab
         /\ sought'[t] = IF tab.at = "rest" THEN None ELSE q
BY DEF Answer, TypeOK

LEMMA QuestStep ==
  ASSUME SettledInv, SeekersGetOn, [Next]_vars
  PROVE  SeekersGetOn'
<1>0. TypeOK BY DEF SettledInv
<1>p. PeopleAssumption BY PeopleAssumption
\* It is enough to look at the tab that was answered.
<1>1. ASSUME NEW t \in Tabs, NEW c \in Cookie, NEW tab \in Tab,
             NEW q \in Pages \cup {None}, Answer(t, c, tab, q),
             \A page \in Pages :
               tab.at # "rest" /\ q = page /\ ForAnyPerson(page) => OnItsWay(t, page)'
      PROVE  SeekersGetOn'
  <2> SUFFICES ASSUME NEW s \in Tabs, NEW page \in Pages,
                      sought'[s] = page, ForAnyPerson(page)
               PROVE  OnItsWay(s, page)'
    BY DEF SeekersGetOn, ForAnyPerson, MayRead
  <2>1. CASE s = t
    <3>1. page # None BY Apart
    <3> QED BY <1>0, <1>1, <2>1, <3>1, OwnQuest
  <2>2. CASE s # t
    BY <1>0, <1>1, <2>2, OthersGetOn
  <2> QED BY <2>1, <2>2
\* A tab that goes on with its cookie.
<1>2. ASSUME NEW t \in Tabs, NEW url \in Places, NEW referer \in Places \cup {None},
             NEW c \in Cookie, NEW q \in Pages \cup {None},
             Answer(t, c, Wait(url, referer, c), q),
             \A page \in Pages : q = page /\ ForAnyPerson(page) =>
               \/ url \in {"sign_in", "authorize"} /\ c.user = Guest
                  /\ c.requested_page = page
               \/ url = page /\ c.user \in Persons /\ c.stale = FALSE
      PROVE  SeekersGetOn'
  <2> DEFINE tab == Wait(url, referer, c)
  <2>1. tab \in Tab /\ tab.at = "wait" /\ tab.url = url /\ tab.cookie = c
    BY WaitTyped
  <2>2. tabs'[t] = tab
    BY <1>0, <1>2, <2>1, OwnQuest
  <2>3. Waiting(t)' /\ tabs'[t].url = url /\ Cookied(t)' = c
    BY <2>1, <2>2 DEF Waiting, Cookied
  <2>4. \A page \in Pages : q = page /\ ForAnyPerson(page) => OnItsWay(t, page)'
    BY <1>2, <2>3 DEF OnItsWay
  <2> HIDE DEF tab
  <2> QED BY <1>1, <1>2, <2>1, <2>4 DEF tab
<1>w. ASSUME NEW t \in Tabs, Waiting(t)
      PROVE  /\ Cookied(t) \in Cookie /\ tabs[t].url \in Places
             /\ tabs[t].referer \in Places \cup {None} /\ tabs[t] # AtProvider
             /\ sought[t] \in Pages \cup {None}
  BY <1>0, <1>w, WaitingTyped DEF TypeOK
<1>e. "home" \in Places /\ "sign_in" \in Places /\ "authorize" \in Places
      /\ "callback" \in Places
  BY PlacesOfEndpoints
<1>3. ASSUME NEW t \in Tabs, Timeout(t)
      PROVE  SeekersGetOn'
  <2> DEFINE c == [NewSession EXCEPT !.return_to = tabs[t].url]
  <2>0. Waiting(t) /\ TimedOut(t) /\ tabs[t].url \in Pages \cup {"home", "sign_in"}
    BY <1>3 DEF Timeout
  <2>1. c \in Cookie
    BY <2>0, <1>w, CookiesTyped
  <2>2. Answer(t, c, Wait(tabs[t].url, tabs[t].referer, c), sought[t])
    BY <1>3 DEF Timeout
  <2>3. Cookied(t).user # Guest /\ Cookied(t).stale = TRUE
    BY <2>0, <1>w DEF TimedOut, Signed, Cookie
  <2>4. ~ \E page \in Pages : sought[t] = page /\ ForAnyPerson(page)
    BY <2>0, <2>3, <1>w, Apart DEF SeekersGetOn, OnItsWay
  <2> HIDE DEF c
  <2> QED BY <1>2, <1>w, <2>0, <2>1, <2>2, <2>4
<1>4. ASSUME NEW t \in Tabs, NEW q \in Pages, ShowPage(t, q)
      PROVE  SeekersGetOn'
  <2>1. Waiting(t) BY <1>4 DEF ShowPage, Reaches
  <2>2. Rest(q, "page") \in Tab /\ Rest(q, "page").at = "rest"
    BY PlacesOfEndpoints, RestTyped DEF Shown
  <2> QED BY <1>1, <1>w, <1>4, <2>1, <2>2 DEF ShowPage
<1>5. ASSUME NEW t \in Tabs, NEW q \in Pages, RefusePage(t, q)
      PROVE  SeekersGetOn'
  <2>0. Waiting(t) /\ ~ (MayRead(Cookied(t).user, q) /\ Doc[q].renders)
    BY <1>5 DEF RefusePage, Reaches
  <2>c. Cookied(t) \in Cookie /\ tabs[t].referer \in Places \cup {None}
    BY <1>w, <2>0
  <2>1. CASE Refusal(Doc[q].visibility) = "login"
    <3> DEFINE c == [Cookied(t) EXCEPT !.requested_page = q]
    <3>1. /\ c \in Cookie /\ c.user = Cookied(t).user /\ c.requested_page = q
      BY <2>c, RequestedCookie
    <3>2. Answer(t, c, Wait("sign_in", tabs[t].referer, c), q)
      BY <1>5, <2>1 DEF RefusePage
    <3>5. Cookied(t).user \in Persons \cup {Guest}
      BY <2>c, CookieFields
    <3>6. ForAnyPerson(q) => Cookied(t).user \notin Persons
      BY <2>0 DEF ForAnyPerson
    <3>3. ForAnyPerson(q) => c.user = Guest
      BY <3>1, <3>5, <3>6
    <3> HIDE DEF c
    <3>4. \A page \in Pages : q = page /\ ForAnyPerson(page) =>
            "sign_in" \in {"sign_in", "authorize"} /\ c.user = Guest
              /\ c.requested_page = page
      BY <3>1, <3>3
    <3> QED BY <1>2, <1>e, <2>c, <3>1, <3>2, <3>4
  <2>2. CASE Refusal(Doc[q].visibility) # "login"
    <3>1. Rest(q, "refused") \in Tab /\ Rest(q, "refused").at = "rest"
      BY PlacesOfEndpoints, RestTyped DEF Shown
    <3> QED BY <1>1, <1>w, <1>5, <2>0, <2>2, <3>1 DEF RefusePage
  <2> QED BY <2>1, <2>2
<1>6. ASSUME NEW t \in Tabs, Home(t)
      PROVE  SeekersGetOn'
  <2>1. Waiting(t) BY <1>6 DEF Home, Reaches
  <2>2. Rest("home", "home") \in Tab /\ Rest("home", "home").at = "rest"
    BY <1>e, RestTyped DEF Shown
  <2> QED BY <1>1, <1>w, <1>6, <2>1, <2>2 DEF Home
<1>7. ASSUME NEW t \in Tabs, SignInPage(t)
      PROVE  SeekersGetOn'
  <2>0. Waiting(t) /\ tabs[t].url = "sign_in"
    BY <1>7 DEF SignInPage, Reaches
  <2>s. \A page \in Pages : sought[t] = page /\ ForAnyPerson(page) =>
          Cookied(t).user = Guest /\ Cookied(t).requested_page = page
    BY <2>0, <1>w, Apart DEF SeekersGetOn, OnItsWay
  <2>1. CASE Signed(t)
    <3> DEFINE c == [Cookied(t) EXCEPT !.return_to = None]
               target == IF Cookied(t).return_to = None
                           THEN "home" ELSE Cookied(t).return_to
    <3>4. c \in Cookie
      BY <1>w, <2>0, CookiesTyped
    <3>5. Cookied(t).return_to \in Places \cup {None}
      BY <1>w, <2>0, CookieFields
    <3>1. c \in Cookie /\ target \in Places
      BY <1>e, <3>4, <3>5
    <3>2. Answer(t, c, Wait(target, tabs[t].referer, c), sought[t])
      BY <1>7, <2>1 DEF SignInPage
    <3>3. ~ \E page \in Pages : sought[t] = page /\ ForAnyPerson(page)
      BY <2>1, <2>s DEF Signed
    <3> HIDE DEF c, target
    <3> QED BY <1>2, <1>w, <2>0, <3>1, <3>2, <3>3
  <2>2. CASE ~ Signed(t)
    <3>1. Answer(t, Cookied(t),
                 Wait("authorize", tabs[t].referer, Cookied(t)), sought[t])
      BY <1>7, <2>2 DEF SignInPage
    <3>2. \A page \in Pages : sought[t] = page /\ ForAnyPerson(page) =>
            "authorize" \in {"sign_in", "authorize"} /\ Cookied(t).user = Guest
              /\ Cookied(t).requested_page = page
      BY <2>s
    <3>3. /\ Cookied(t) \in Cookie /\ tabs[t].referer \in Places \cup {None}
          /\ sought[t] \in Pages \cup {None}
      BY <1>w, <2>0
    <3> QED BY <1>2, <1>e, <3>1, <3>2, <3>3
  <2> QED BY <2>1, <2>2
<1>8. ASSUME NEW t \in Tabs, Authorize(t)
      PROVE  SeekersGetOn'
  <2> DEFINE o == IF tabs[t].referer = None THEN Cookied(t).origin ELSE tabs[t].referer
             c == [Cookied(t) EXCEPT !.origin = o]
  <2>0. Waiting(t) /\ tabs[t].url = "authorize"
    BY <1>8 DEF Authorize
  <2>1. o \in Places \cup {None}
    BY <1>w, <2>0, CookieFields
  <2>2. Answer(t, c, AtProvider, sought[t])
    BY <1>8 DEF Authorize
  <2> HIDE DEF o
  <2>3. c \in Cookie /\ c.requested_page = Cookied(t).requested_page
    BY <1>w, <2>0, <2>1, CookiesTyped, CookieParts
  <2> HIDE DEF c
  <2>4. \A page \in Pages : sought[t] = page /\ ForAnyPerson(page) =>
          c.requested_page = page
    BY <2>0, <2>3, <1>w, Apart DEF SeekersGetOn, OnItsWay
  <2>5. jar' = c /\ tabs'[t] = AtProvider
    BY <1>0, <1>w, <2>0, <2>2, <2>3, OwnQuest, ProviderTyped
  <2>6. \A page \in Pages : sought[t] = page /\ ForAnyPerson(page) =>
          OnItsWay(t, page)'
    BY <2>4, <2>5 DEF OnItsWay
  <2> QED BY <1>1, <1>w, <2>0, <2>2, <2>3, <2>6, ProviderTyped
<1>9. ASSUME NEW t \in Tabs, Callback(t)
      PROVE  SeekersGetOn'
  <2>0. Waiting(t) /\ tabs[t].url = "callback"
    BY <1>9 DEF Callback
  <2>1. PICK person \in Persons :
          LET old == Cookied(t)
              c == [old EXCEPT !.user = person, !.stale = FALSE, !.origin = None]
              target == CASE old.requested_page # None -> old.requested_page
                          [] old.requested_page = None /\ old.origin # None -> old.origin
                          [] OTHER -> "home" IN
          Answer(t, c, Wait(target, None, c), sought[t]) /\ Settles(t, person)
    BY <1>9 DEF Callback
  <2> DEFINE old == Cookied(t)
             c == [old EXCEPT !.user = person, !.stale = FALSE, !.origin = None]
             target == CASE old.requested_page # None -> old.requested_page
                         [] old.requested_page = None /\ old.origin # None -> old.origin
                         [] OTHER -> "home"
  <2>c. Cookied(t) \in Cookie /\ sought[t] \in Pages \cup {None}
    BY <1>w, <2>0
  <2>2. c \in Cookie /\ c.user = person /\ c.stale = FALSE
    BY <2>c, SignedInCookie
  <2>3. target \in Places
    <3>1. CASE old.requested_page # None
      BY <1>w, <2>0, <3>1, PlacesOfEndpoints DEF Cookie
    <3>2. CASE old.requested_page = None /\ old.origin # None
      BY <1>w, <2>0, <3>2 DEF Cookie
    <3>3. CASE old.requested_page = None /\ old.origin = None
      BY <1>e, <3>3
    <3> QED BY <3>1, <3>2, <3>3
  <2>4. Answer(t, c, Wait(target, None, c), sought[t])
    BY <2>1
  <2>5. \A page \in Pages : sought[t] = page /\ ForAnyPerson(page) => target = page
    <3>1. \A page \in Pages : sought[t] = page /\ ForAnyPerson(page) =>
            old.requested_page = page /\ page # None
      BY <2>0, <1>w, Apart DEF SeekersGetOn, OnItsWay
    <3> QED BY <3>1
  <2> HIDE DEF old, c, target
  <2>6. /\ Wait(target, None, c) \in Tab /\ Wait(target, None, c).url = target
        /\ Wait(target, None, c).cookie = c /\ Wait(target, None, c).at = "wait"
    BY <2>2, <2>3, WaitTyped
  <2>7. tabs'[t] = Wait(target, None, c)
    BY <1>0, <2>c, <2>2, <2>4, <2>6, OwnQuest
  <2>8. \A page \in Pages : sought[t] = page /\ ForAnyPerson(page) => OnItsWay(t, page)'
    BY <2>2, <2>5, <2>6, <2>7 DEF OnItsWay, Waiting, Cookied
  <2> QED BY <1>1, <2>c, <2>2, <2>4, <2>6, <2>8
<1>10. ASSUME NEW t \in Tabs, CallbackFails(t)
       PROVE  SeekersGetOn'
  <2>1. /\ sought'[t] = None /\ jar' = jar
        /\ \A s \in Tabs \ {t} : sought'[s] = sought[s] /\ tabs'[s] = tabs[s]
    BY <1>0, <1>10 DEF CallbackFails, TypeOK
  <2> QED BY <2>1, Apart
          DEF SeekersGetOn, OnItsWay, Waiting, Cookied, ForAnyPerson, MayRead
<1>11. ASSUME NEW t \in Tabs, SignOut(t)
       PROVE  SeekersGetOn'
  <2> DEFINE c == IF Signed(t) THEN NewSession ELSE Cookied(t)
  <2>0. Waiting(t) /\ tabs[t].url = "sign_out"
    BY <1>11 DEF SignOut
  <2>1. c \in Cookie
    BY <1>w, <2>0, CookiesTyped
  <2>2. Answer(t, c, Wait("home", tabs[t].referer, c), sought[t])
    BY <1>11 DEF SignOut
  <2>3. ~ \E page \in Pages : sought[t] = page /\ ForAnyPerson(page)
    BY <2>0, <1>w, Apart DEF SeekersGetOn, OnItsWay
  <2> HIDE DEF c
  <2> QED BY <1>2, <1>w, <1>e, <2>0, <2>1, <2>2, <2>3
<1>12. ASSUME NEW t \in Tabs, NEW url, NEW referer, Open(t, url, referer)
       PROVE  SeekersGetOn'
  <2>1. /\ sought'[t] = None /\ jar' = jar
        /\ \A s \in Tabs \ {t} : sought'[s] = sought[s] /\ tabs'[s] = tabs[s]
    BY <1>0, <1>12 DEF Open, TypeOK
  <2> QED BY <2>1, Apart
          DEF SeekersGetOn, OnItsWay, Waiting, Cookied, ForAnyPerson, MayRead
<1>13. ASSUME NEW t \in Tabs, ProviderAnswers(t)
       PROVE  SeekersGetOn'
  <2>1. /\ tabs[t] = AtProvider /\ tabs'[t] = Wait("callback", None, jar)
        /\ sought' = sought /\ jar' = jar
        /\ \A s \in Tabs \ {t} : tabs'[s] = tabs[s]
    BY <1>0, <1>13 DEF ProviderAnswers, TypeOK
  <2>2. /\ Waiting(t)' /\ tabs'[t].url = "callback" /\ Cookied(t)' = jar
    BY <2>1 DEF Wait, Waiting, Cookied
  <2>3. \A page \in Pages : sought[t] = page /\ ForAnyPerson(page) =>
          jar.requested_page = page
    BY <2>1, ProviderTyped DEF SeekersGetOn, OnItsWay, Waiting
  <2> QED BY <2>1, <2>2, <2>3
          DEF SeekersGetOn, OnItsWay, Waiting, Cookied, ForAnyPerson, MayRead
<1>14. CASE DayPasses
  <2>1. /\ jar'.requested_page = jar.requested_page /\ tabs' = tabs
        /\ sought' = sought
    BY <1>0, <1>14, CookieParts DEF DayPasses, TypeOK
  <2> QED BY <2>1
          DEF SeekersGetOn, OnItsWay, Waiting, Cookied, ForAnyPerson, MayRead
<1>15. CASE UNCHANGED vars
  BY <1>15 DEF vars, SeekersGetOn, OnItsWay, Waiting, Cookied, ForAnyPerson, MayRead
<1> QED
  BY <1>3, <1>4, <1>5, <1>6, <1>7, <1>8, <1>9, <1>10, <1>11, <1>12, <1>13,
     <1>14, <1>15 DEF Next, Serve
\* A tab comes to rest by four answers only; the one to a tab on its way to a
\* page is that page, unless the callback fails.
LEMMA RestStep ==
  ASSUME SettledInv, SeekersGetOn, [Next]_vars,
         NEW t \in Tabs, NEW page \in Pages, sought[t] = page, ForAnyPerson(page),
         tabs[t].at # "rest", tabs'[t].at = "rest"
  PROVE  tabs'[t] \in {Rest(page, "page"), Rest("callback", "error")}
<1>0. TypeOK /\ OnItsWay(t, page)
  BY DEF SettledInv, SeekersGetOn
<1>1. ASSUME NEW s \in Tabs, NEW c, NEW tab, NEW q, Answer(s, c, tab, q), s # t
      PROVE  FALSE
  BY <1>0, <1>1 DEF Answer, TypeOK
<1>2. ASSUME NEW c, NEW tab, NEW q, Answer(t, c, tab, q)
      PROVE  tabs'[t] = tab
  BY <1>0, <1>2 DEF Answer, TypeOK
<1>3. ASSUME NEW url, NEW referer, NEW c
      PROVE  Wait(url, referer, c).at = "wait"
  BY DEF Wait
<1>4. ASSUME NEW s \in Tabs, Timeout(s) \/ SignInPage(s) \/ Authorize(s)
                               \/ Callback(s) \/ SignOut(s)
      PROVE  FALSE
  <2>1. s = t
    BY <1>1, <1>4 DEF Timeout, SignInPage, Authorize, Callback, SignOut
  <2>2. tabs'[t].at \in {"wait", "provider"}
    <3>1. CASE Timeout(t)
      BY <1>2, <1>3, <3>1 DEF Timeout
    <3>2. CASE SignInPage(t)
      BY <1>2, <1>3, <3>2 DEF SignInPage
    <3>3. CASE Authorize(t)
      BY <1>2, <3>3, ProviderTyped DEF Authorize
    <3>4. CASE Callback(t)
      BY <1>2, <1>3, <3>4 DEF Callback
    <3>5. CASE SignOut(t)
      BY <1>2, <1>3, <3>5 DEF SignOut
    <3> QED BY <1>4, <2>1, <3>1, <3>2, <3>3, <3>4, <3>5
  <2> QED BY <2>2
<1>5. ASSUME NEW s \in Tabs, NEW q \in Pages, ShowPage(s, q)
      PROVE  tabs'[t] = Rest(page, "page")
  <2>1. s = t
    BY <1>1, <1>5 DEF ShowPage
  <2>2. q = page
    BY <1>0, <1>5, <2>1, Apart, ProviderTyped DEF OnItsWay, ShowPage, Reaches, Waiting
  <2> QED BY <1>2, <1>5, <2>1, <2>2 DEF ShowPage
<1>6. ASSUME NEW s \in Tabs, NEW q \in Pages, RefusePage(s, q)
      PROVE  FALSE
  <2>1. s = t
    BY <1>1, <1>6 DEF RefusePage
  <2>2. q = page /\ Cookied(t).user \in Persons
    BY <1>0, <1>6, <2>1, Apart, ProviderTyped DEF OnItsWay, RefusePage, Reaches, Waiting
  <2> QED BY <1>6, <2>1, <2>2 DEF RefusePage, ForAnyPerson
<1>7. ASSUME NEW s \in Tabs, Home(s)
      PROVE  FALSE
  <2>1. s = t
    BY <1>1, <1>7 DEF Home
  <2> QED BY <1>0, <1>7, <2>1, Apart, ProviderTyped DEF OnItsWay, Home, Reaches, Waiting
<1>8. ASSUME NEW s \in Tabs, CallbackFails(s)
      PROVE  tabs'[t] = Rest("callback", "error")
  BY <1>0, <1>8 DEF CallbackFails, TypeOK
<1>9. ASSUME NEW s \in Tabs, NEW url, NEW referer, NEW c,
             tabs' = [tabs EXCEPT ![s] = Wait(url, referer, c)]
      PROVE  FALSE
  BY <1>0, <1>3, <1>9 DEF TypeOK
<1>10. CASE UNCHANGED tabs
  BY <1>10
<1> QED
  BY <1>4, <1>5, <1>6, <1>7, <1>8, <1>9, <1>10
     DEF Next, Serve, Open, ProviderAnswers, DayPasses, vars

(***************************************************************************)
(* The page that refused a visitor is where the login leads back to, for   *)
(* every tab whose requested_page no other tab displaced                   *)
(* (catalog_controller.rb:16, omniauth_callbacks_controller.rb:13).        *)
(***************************************************************************)
THEOREM LoginLeadsBack == Spec => RefusedPageIsReached
<1> DEFINE Inv == SettledInv /\ SeekersGetOn
           Step == \A t \in Tabs, page \in Pages :
             /\ sought[t] = page /\ ForAnyPerson(page)
             /\ tabs[t].at # "rest" /\ tabs'[t].at = "rest"
             => tabs'[t] \in {Rest(page, "page"), Rest("callback", "error")}
<1>1. Init => Inv
  BY SettledInit, Apart DEF Init, SeekersGetOn
<1>2. Inv /\ [Next]_vars => Inv'
  BY SettledStep, QuestStep
<1>3. Inv /\ [Next]_vars => [Step]_vars
  BY RestStep
<1>4. Spec => [][Step]_vars
  BY <1>1, <1>2, <1>3, PTL DEF Spec
<1> QED BY <1>4 DEF RefusedPageIsReached
=============================================================================
