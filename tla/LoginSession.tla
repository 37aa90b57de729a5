---------------------------- MODULE LoginSession ----------------------------
(***************************************************************************)
(* The way from a refused page through Shibboleth and back, in a browser   *)
(* with several tabs.                                                      *)
(*                                                                         *)
(* Rails keeps the session in a cookie: a request carries the copy of the  *)
(* time it is sent, and its response replaces the cookie of the browser by *)
(* that copy, changed by the handler.  What a second tab did meanwhile is  *)
(* overwritten.  A redirect is followed at once, with the new cookie.      *)
(*                                                                         *)
(* The person of the browser signs in at the identity provider; the index  *)
(* stays as it is (CatalogAccess has it change).                           *)
(***************************************************************************)
EXTENDS AccessControl

CONSTANTS
  Tabs,     \* tabs of the browser
  Pages,    \* show pages, by document id
  Doc,      \* the document of each page
  Address   \* the address of the browser

Endpoints == {"home", "sign_in", "authorize", "callback", "sign_out"}
None == "none"

ASSUME PagesAssumption ==
  /\ Pages \cap (Endpoints \cup {None}) = {}
  /\ Doc \in [Pages -> Document]
  /\ Address \in Ips

VARIABLES
  jar,      \* the session cookie of the browser
  tabs,     \* what each tab is doing
  sought,   \* history: the page each tab was sent to the login for, until it
            \* comes to rest or another tab's response changes requested_page
  settled   \* history: who the browser is since the last sign-in, sign-out or
            \* timeout that overtook no other response; "unknown" otherwise

vars == <<jar, tabs, sought, settled>>

\* Where a redirect or a referer can lead.
Places == Pages \cup Endpoints

\* stale: the session has not been used for a day (Devise timeout_in).
\* return_to is Devise's stored location.
Cookie ==
  [user : Persons \cup {Guest}, stale : BOOLEAN,
   requested_page : Pages \cup {None}, origin : Places \cup {None},
   return_to : Places \cup {None}]

NewSession ==
  [user |-> Guest, stale |-> FALSE,
   requested_page |-> None, origin |-> None, return_to |-> None]

\* A tab rests at an address and shows something, waits for the answer to a
\* request, or is at the identity provider.
Rest(url, shows) == [at |-> "rest", url |-> url, shows |-> shows]
Wait(url, referer, cookie) ==
  [at |-> "wait", url |-> url, referer |-> referer, cookie |-> cookie]
AtProvider == [at |-> "provider"]

Shown == {"blank", "page", "refused", "home", "error"}
Tab ==
  [at : {"rest"}, url : Places \cup {None}, shows : Shown]
    \cup [at : {"wait"}, url : Places, referer : Places \cup {None}, cookie : Cookie]
    \cup {AtProvider}

TypeOK ==
  /\ jar \in Cookie
  /\ tabs \in [Tabs -> Tab]
  /\ sought \in [Tabs -> Pages \cup {None}]
  /\ settled \in Persons \cup {Guest, "unknown"}

Init ==
  /\ jar = NewSession
  /\ tabs = [t \in Tabs |-> Rest(None, "blank")]
  /\ sought = [t \in Tabs |-> None]
  /\ settled = Guest

Waiting(t) == tabs[t].at = "wait"
Cookied(t) == tabs[t].cookie   \* the copy that went with the request

----------------------------------------------------------------------------
\* The answer to tab t leaves the browser with a cookie and the tab in a
\* state; a tab that rests seeks nothing any more.
Answer(t, cookie, tab, page) ==
  /\ jar' = cookie
  /\ tabs' = [tabs EXCEPT ![t] = tab]
  /\ sought' = [s \in Tabs |->
       CASE s = t /\ tab.at = "rest" -> None
         [] s = t /\ tab.at # "rest" -> page
         [] s # t -> IF cookie.requested_page = sought[s] THEN sought[s] ELSE None]

\* The browser's user is known again when nothing else is on its way.
Settles(t, user) ==
  settled' = IF \E s \in Tabs \ {t} : Waiting(s) THEN "unknown" ELSE user

\* The request reaches the application at url, and Devise does not end the
\* session; it notes that the session is in use.
Signed(t) == Cookied(t).user # Guest
TimedOut(t) == Signed(t) /\ Cookied(t).stale
Reaches(t, url) == Waiting(t) /\ tabs[t].url = url /\ ~ TimedOut(t)

\* Devise timeoutable: the session is reset, and the page asked for again.
Timeout(t) ==
  /\ Waiting(t) /\ TimedOut(t)
  /\ tabs[t].url \in Pages \cup {"home", "sign_in"}
  /\ LET c == [NewSession EXCEPT !.return_to = tabs[t].url] IN
     Answer(t, c, Wait(tabs[t].url, tabs[t].referer, c), sought[t])
  /\ Settles(t, Guest)

\* CatalogController#show and, when it is refused or fails, render404.
MayRead(user, page) == test_read([user |-> user, ip |-> Address], Doc[page])

ShowPage(t, page) ==
  /\ Reaches(t, page)
  /\ MayRead(Cookied(t).user, page) /\ Doc[page].renders
  /\ Answer(t, Cookied(t), Rest(page, "page"), None)
  /\ UNCHANGED settled

RefusePage(t, page) ==
  /\ Reaches(t, page)
  /\ ~ (MayRead(Cookied(t).user, page) /\ Doc[page].renders)
  /\ IF Refusal(Doc[page].visibility) = "login"
     THEN LET c == [Cookied(t) EXCEPT !.requested_page = page] IN
          Answer(t, c, Wait("sign_in", tabs[t].referer, c), page)
     ELSE Answer(t, Cookied(t), Rest(page, "refused"), None)
  /\ UNCHANGED settled

Home(t) ==
  /\ Reaches(t, "home")
  /\ Answer(t, Cookied(t), Rest("home", "home"), None)
  /\ UNCHANGED settled

\* MUTANT: no require_no_authentication.
SignInPageForAll(t) ==
  /\ Reaches(t, "sign_in")
  /\ Answer(t, Cookied(t), Wait("authorize", tabs[t].referer, Cookied(t)), sought[t])
  /\ UNCHANGED settled

\* OmniauthController#new, behind Devise's require_no_authentication, which
\* sends a visitor who is signed in to the stored location, once, or home.
SignInPage(t) ==
  /\ Reaches(t, "sign_in")
  /\ IF Signed(t)
     THEN LET c == [Cookied(t) EXCEPT !.return_to = None]
              back == Cookied(t).return_to IN
          Answer(t, c, Wait(IF back = None THEN "home" ELSE back,
                            tabs[t].referer, c), sought[t])
     ELSE Answer(t, Cookied(t),
                 Wait("authorize", tabs[t].referer, Cookied(t)), sought[t])
  /\ UNCHANGED settled

\* OmniAuth's request phase notes the referer as the origin.  It asks for no
\* user, and so does not time out.
Authorize(t) ==
  /\ Waiting(t) /\ tabs[t].url = "authorize"
  /\ LET c == [Cookied(t) EXCEPT !.origin =
                 IF tabs[t].referer = None THEN @ ELSE tabs[t].referer] IN
     Answer(t, c, AtProvider, sought[t])
  /\ UNCHANGED settled

\* MUTANTS: the origin goes first; requested_page is not checked for nil.
CallbackToOrigin(t) ==
  /\ Waiting(t) /\ tabs[t].url = "callback"
  /\ \E person \in Persons :
       LET old == Cookied(t)
           c == [old EXCEPT !.user = person, !.stale = FALSE, !.origin = None]
           target == CASE old.origin # None -> old.origin
                       [] old.origin = None /\ old.requested_page # None -> old.requested_page
                       [] OTHER -> "home" IN
       Answer(t, c, Wait(target, None, c), sought[t]) /\ Settles(t, person)
CallbackToRequested(t) ==
  /\ Waiting(t) /\ tabs[t].url = "callback"
  /\ \E person \in Persons :
       LET c == [Cookied(t) EXCEPT !.user = person, !.stale = FALSE, !.origin = None] IN
       /\ Answer(t, c, Wait(c.requested_page, None, c), sought[t])
       /\ Settles(t, person)

\* OmniauthCallbacksController#shibboleth.  requested_page stays in the
\* session; OmniAuth has taken the origin out of it.  Devise skips the timeout.
Callback(t) ==
  /\ Waiting(t) /\ tabs[t].url = "callback"
  /\ \E person \in Persons :
       LET old == Cookied(t)
           c == [old EXCEPT !.user = person, !.stale = FALSE, !.origin = None]
           target == CASE old.requested_page # None -> old.requested_page
                       [] old.requested_page = None /\ old.origin # None -> old.origin
                       [] OTHER -> "home" IN
       Answer(t, c, Wait(target, None, c), sought[t]) /\ Settles(t, person)

\* Without a uid sign_in raises, and no cookie is set.
CallbackFails(t) ==
  /\ Waiting(t) /\ tabs[t].url = "callback"
  /\ tabs' = [tabs EXCEPT ![t] = Rest("callback", "error")]
  /\ sought' = [sought EXCEPT ![t] = None]
  /\ UNCHANGED <<jar, settled>>

\* MUTANT: sign-out redirects with the session as it was.
SignOutKeepsSession(t) ==
  /\ Waiting(t) /\ tabs[t].url = "sign_out"
  /\ Answer(t, Cookied(t), Wait("home", tabs[t].referer, Cookied(t)), sought[t])
  /\ IF Signed(t) THEN Settles(t, Guest) ELSE UNCHANGED settled

\* Devise's sessions#destroy resets the session of whoever is signed in.
SignOut(t) ==
  /\ Waiting(t) /\ tabs[t].url = "sign_out"
  /\ LET c == IF Signed(t) THEN NewSession ELSE Cookied(t) IN
     Answer(t, c, Wait("home", tabs[t].referer, c), sought[t])
  /\ IF Signed(t) THEN Settles(t, Guest) ELSE UNCHANGED settled

Serve(t) ==
  \/ Timeout(t) \/ Home(t) \/ SignInPage(t) \/ Authorize(t)
  \/ Callback(t) \/ CallbackFails(t) \/ SignOut(t)
  \/ \E page \in Pages : ShowPage(t, page) \/ RefusePage(t, page)

----------------------------------------------------------------------------
\* The person follows a link of the page in the tab, or types an address.  The
\* error page has no links.
Linked(t) == tabs[t].at = "rest" /\ tabs[t].shows # "error"

Open(t, url, referer) ==
  /\ ~ Waiting(t)
  /\ referer = None \/ (Linked(t) /\ referer = tabs[t].url)
  /\ tabs' = [tabs EXCEPT ![t] = Wait(url, referer, jar)]
  /\ sought' = [sought EXCEPT ![t] = None]
  /\ UNCHANGED <<jar, settled>>

\* The person signs in at the identity provider, or is signed in there.
ProviderAnswers(t) ==
  /\ tabs[t] = AtProvider
  /\ tabs' = [tabs EXCEPT ![t] = Wait("callback", None, jar)]
  /\ UNCHANGED <<jar, sought, settled>>

\* A day goes by; no request is on its way for that long.
DayPasses ==
  /\ jar.user # Guest /\ ~ jar.stale
  /\ \A t \in Tabs : ~ Waiting(t)
  /\ jar' = [jar EXCEPT !.stale = TRUE]
  /\ UNCHANGED <<tabs, sought, settled>>

Next ==
  \/ \E t \in Tabs : Serve(t) \/ ProviderAnswers(t)
  \/ \E t \in Tabs, url \in Pages \cup {"home", "sign_in", "sign_out"},
        referer \in Places \cup {None} : Open(t, url, referer)
  \/ DayPasses

Spec == Init /\ [][Next]_vars

\* Requests are served, and the single sign-on of the identity provider
\* answers by itself: the case in which redirects could go on for ever.
FairSpec ==
  Spec /\ \A t \in Tabs : WF_vars(Serve(t)) /\ WF_vars(ProviderAnswers(t))

----------------------------------------------------------------------------
(***************************************************************************)
(* A tab that was sent to the login for a page, and whose requested_page   *)
(* no other tab displaced, comes to rest on that page once signed in, if   *)
(* the page can be shown to whoever signs in; whatever else the cookie     *)
(* still holds from earlier attempts (origin, stored location, an earlier  *)
(* requested_page) does not lead it elsewhere.                             *)
(***************************************************************************)
ForAnyPerson(page) == Doc[page].renders /\ \A p \in Persons : MayRead(p, page)

RefusedPageIsReached ==
  [][\A t \in Tabs, page \in Pages :
       /\ sought[t] = page /\ ForAnyPerson(page)
       /\ tabs[t].at # "rest" /\ tabs'[t].at = "rest"
       => tabs'[t] \in {Rest(page, "page"), Rest("callback", "error")}]_vars

(***************************************************************************)
(* After a sign-in, a sign-out or a timeout that overtook no other         *)
(* request, the browser stays what it became until the next one: no cookie *)
(* of an older state comes back with a later response.                     *)
(***************************************************************************)
SessionSettles == settled # "unknown" => jar.user = settled

(***************************************************************************)
(* No redirects without end: a tab the person does not take away from the  *)
(* identity provider comes to rest.  The login, whose single sign-on       *)
(* brings the tab straight back, a page that is refused although the       *)
(* visitor is signed in, and the timeout all redirect; none of them in a   *)
(* circle.                                                                 *)
(***************************************************************************)
Leaves(t) == tabs[t] = AtProvider /\ tabs'[t].at = "wait" /\ tabs'[t].url # "callback"

NoEndlessRedirects ==
  \A t \in Tabs : <>[][~ Leaves(t)]_vars => []<>(tabs[t].at = "rest")
=============================================================================
