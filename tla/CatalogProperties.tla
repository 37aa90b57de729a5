------------------------- MODULE CatalogProperties -------------------------
(***************************************************************************)
(* What must be true of CatalogAccess.  The four deciders of AccessControl *)
(* and the two or three reads of one request can only be compared while    *)
(* the index holds still, so most properties speak of a request that saw   *)
(* one document from its arrival to its answer; ImplementsPromise says     *)
(* what is left when it does not.                                          *)
(***************************************************************************)
EXTENDS CatalogAccess

\* Thread r has answered a request of this kind, and Solr did answer it.
Done(r, kind) ==
  /\ asked[r] # NoAsk /\ asked[r].kind = kind
  /\ ~ Busy(r) /\ answer[r].kind # "unavailable"

\* The index held d, as Curate indexes works, throughout r's request.
Saw(r, d) == window[r] = {d} /\ d # NoDoc /\ CurateIndexed(d)

SameQuestion(r, s) ==
  asked[r].id = asked[s].id /\ asked[r].visitor = asked[s].visitor

\* Who may read a work of a visibility, by the cases of
\* spec/requests/visibility_request_spec.rb.
MayRead(visitor, visibility) ==
  \/ visibility \in {"open", "low_res"}
  \/ visibility \in {"authenticated", "emory_low"} /\ SignedIn(visitor)
  \/ visibility = "rose_high" /\ visitor.ip \in RoseIps
  \/ visibility = "irish_partner" /\ visitor.ip \in IrishIps

----------------------------------------------------------------------------
(***************************************************************************)
(* The show page of a work that does not change meanwhile is served to     *)
(* exactly the visitors that its visibility names, although the decision   *)
(* is taken by comparing groups (ability.rb, test_read) and the visibility *)
(* is not looked at; an administrator has no privilege here.               *)
(***************************************************************************)
PageExactlyForReaders ==
  \A r \in Requests : \A d \in window[r] :
    Done(r, "show") /\ Saw(r, d) /\ d.renders =>
      (answer[r].kind = "page" <=> MayRead(asked[r].visitor, d.visibility))

(***************************************************************************)
(* Being sent to the login page helps: the visitor is not signed in, and   *)
(* whoever signs in from the same address may read the work.  Otherwise    *)
(* login and refusal chase each other (catalog_controller.rb, render404).  *)
(***************************************************************************)
LoginHelps ==
  \A r \in Requests : \A d \in window[r] :
    /\ Done(r, "show") /\ Saw(r, d) /\ d.renders
    /\ answer[r].kind = "login"
    => /\ ~ SignedIn(asked[r].visitor)
       /\ \A p \in Persons : test_read([asked[r].visitor EXCEPT !.user = p], d)

(***************************************************************************)
(* The picture beside a search result tells where its link leads: a real   *)
(* thumbnail to the page, login-required to the login, reading-room-only   *)
(* to the reading room notice.  The first is decided by                    *)
(* thumbnail_presenter.rb, the second by ability.rb and render404, in      *)
(* another request.                                                        *)
(***************************************************************************)
ThumbnailTellsWhereItLeads ==
  \A r, s \in Requests : \A d \in window[r] :
    /\ Done(r, "search") /\ answer[r].kind # "no_hit"
    /\ Done(s, "show") /\ SameQuestion(r, s)
    /\ Saw(r, d) /\ Saw(s, d) /\ d.renders
    => /\ answer[r].kind = "thumbnail"         <=> answer[s].kind = "page"
       /\ answer[r].kind = "login_required"    <=> answer[s].kind = "login"
       /\ answer[r].kind = "reading_room_only" <=> answer[s].kind = "reading_room"

(***************************************************************************)
(* The viewer is a third decider, in a third request (application_         *)
(* controller.rb, uv_config): it offers downloads only to a visitor who    *)
(* gets the page, and to every such visitor unless the work is low         *)
(* resolution or for a reading room.                                       *)
(***************************************************************************)
DownloadsOnlyWithPage ==
  \A r, s \in Requests : \A d \in window[r] :
    /\ Done(r, "uv_config") /\ Done(s, "show") /\ SameQuestion(r, s)
    /\ Saw(r, d) /\ Saw(s, d) /\ d.renders
    => (answer[r].kind \in {"liberal", "liberal_low"}
          <=> /\ answer[s].kind = "page"
              /\ d.visibility \in {"open", "authenticated", "emory_low"})

(***************************************************************************)
(* Whatever Curate does meanwhile, each request is answered as the promise *)
(* allows: with documents the index held during the request, a page only   *)
(* if one of them was readable by the visitor.                             *)
(***************************************************************************)
Promise == INSTANCE AccessPromise
  WITH index <- index, asked <- asked, answer <- answer, window <- window
ImplementsPromise == Promise!Spec

(***************************************************************************)
(* The invariant that carries the proofs: what a thread has established    *)
(* when it is about to take its next step, and what its answer rests on.   *)
(***************************************************************************)
JustifiedFor(r) ==
  /\ Busy(r) <=> asked[r] # NoAsk /\ answer[r] = NoAnswer
  /\ Busy(r) => Found(r) \in window[r]
  /\ pc[r] \in {"uv_config", "search"} => asked[r].kind = pc[r]
  /\ pc[r] \in {"enforce_show_permissions", "show", "render404"} =>
       asked[r].kind = "show"
  /\ pc[r] = "show" =>
       \E d \in window[r] \ {NoDoc} : test_read(asked[r].visitor, d)
  /\ pc[r] = "render404" =>
       \E d \in window[r] \ {NoDoc} :
         ~ test_read(asked[r].visitor, d) \/ ~ d.renders
  /\ ~ Busy(r) /\ asked[r] # NoAsk =>
       answer[r] \in Promise!PromisedAnswers(asked[r], window[r])

Justified == \A r \in Requests : JustifiedFor(r)
RequestInv == TypeOK /\ Justified

(***************************************************************************)
(* Every request is answered, however often Curate changes the index:      *)
(* render404 is not re-entered and no step waits.                          *)
(***************************************************************************)
EveryRequestIsAnswered == \A r \in Requests : Busy(r) ~> ~ Busy(r)

(***************************************************************************)
(* spec/requests/uv_config_spec.rb:40 expects a 404 for the configuration  *)
(* of a resource that does not exist.                                      *)
(***************************************************************************)
MissingResourceIsNotFound ==
  \A r \in Requests :
    Done(r, "uv_config") /\ window[r] = {NoDoc} => answer[r].kind = "missing"
============================================================================
