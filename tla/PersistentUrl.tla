--------------------------- MODULE PersistentUrl ---------------------------
(***************************************************************************)
(* GET /purl/:name, and the page that the browser asks for when it is      *)
(* redirected.  purl fetches the document of that id, without a filter;    *)
(* if there is none it searches for a document with that persistent id,    *)
(* with the filter of every search; then show fetches the document of the  *)
(* id it was given.  Curate changes the index in between, as it does when  *)
(* documents move to new ids and keep their old one as the persistent id.  *)
(***************************************************************************)
EXTENDS Purls, Naturals, Sequences

CONSTANTS
  Requests,    \* browsers, each following one purl at a time
  Entries,     \* documents that Curate may index
  NoAsk,       \* the browser has followed nothing yet
  NoAnswer,    \* it has no page yet
  MaxReindex   \* bound: how often Curate changes the index

ASSUME PurlAssumption ==
  /\ Entries \subseteq Entry /\ NoDoc \notin Entries
  /\ NoAsk \notin Names
  /\ MaxReindex \in Nat

VARIABLES
  index,      \* Solr: the document of every id
  reindexed,  \* how often the index has changed
  asked,      \* the name each browser follows
  pc,         \* the next step of its request
  target,     \* the id in the redirect
  answer,     \* the page it ends at
  window      \* history: what the index has been since it set out

vars == <<index, reindexed, asked, pc, target, answer, window>>

Index == [Names -> Entries \cup {NoDoc}]
Steps == {"direct_lookup", "purl_lookup", "show"}
Answer ==
  [kind : {"page", "missing", "not_found", "unavailable"}, id : Names \cup {NoName}]

ASSUME NoAnswerAssumption == NoAnswer \notin Answer

TypeOK ==
  /\ index \in Index
  /\ reindexed \in 0..MaxReindex
  /\ asked \in [Requests -> Names \cup {NoAsk}]
  /\ pc \in [Requests -> Steps \cup {"idle"}]
  /\ target \in [Requests -> Names \cup {NoName}]
  /\ answer \in [Requests -> Answer \cup {NoAnswer}]
  /\ window \in [Requests -> Seq(Index)]

Init ==
  /\ index \in Index
  /\ reindexed = 0
  /\ asked = [r \in Requests |-> NoAsk]
  /\ pc = [r \in Requests |-> "idle"]
  /\ target = [r \in Requests |-> NoName]
  /\ answer = [r \in Requests |-> NoAnswer]
  /\ window = [r \in Requests |-> <<>>]

Busy(r) == pc[r] \in Steps

----------------------------------------------------------------------------
Respond(r, kind, id) ==
  /\ answer' = [answer EXCEPT ![r] = [kind |-> kind, id |-> id]]
  /\ pc' = [pc EXCEPT ![r] = "idle"]
  /\ UNCHANGED target

\* redirect_to action: :show; the browser follows.
RedirectToShow(r, id) ==
  /\ target' = [target EXCEPT ![r] = id]
  /\ pc' = [pc EXCEPT ![r] = "show"]
  /\ UNCHANGED answer

Follow(r, name) ==
  /\ pc[r] = "idle"
  /\ asked' = [asked EXCEPT ![r] = name]
  /\ pc' = [pc EXCEPT ![r] = "direct_lookup"]
  /\ target' = [target EXCEPT ![r] = NoName]
  /\ answer' = [answer EXCEPT ![r] = NoAnswer]
  /\ window' = [window EXCEPT ![r] = <<index>>]
  /\ UNCHANGED <<index, reindexed>>

\* Mutant of DirectLookup: the lookup has the filter of a search.
DirectLookupFiltered(r) ==
  LET hit == HasId(index, asked[r]) /\ index[asked[r]].listed IN
  /\ pc[r] = "direct_lookup"
  /\ \/ hit /\ RedirectToShow(r, asked[r])
     \/ /\ ~ hit
        /\ pc' = [pc EXCEPT ![r] = "purl_lookup"]
        /\ UNCHANGED <<target, answer>>
  /\ UNCHANGED <<index, reindexed, asked, window>>

\* safe_document_lookup.
DirectLookup(r) ==
  /\ pc[r] = "direct_lookup"
  /\ \/ HasId(index, asked[r]) /\ RedirectToShow(r, asked[r])
     \/ /\ ~ HasId(index, asked[r])
        /\ pc' = [pc EXCEPT ![r] = "purl_lookup"]
        /\ UNCHANGED <<target, answer>>
  /\ UNCHANGED <<index, reindexed, asked, window>>

\* Mutants of PurlLookup: the name itself is redirected to when nothing is
\* found; the search lost its filter.
PurlLookupInVain(r) ==
  /\ pc[r] = "purl_lookup"
  /\ \/ \E id \in Carriers(index, asked[r]) : RedirectToShow(r, id)
     \/ Carriers(index, asked[r]) = {} /\ RedirectToShow(r, asked[r])
  /\ UNCHANGED <<index, reindexed, asked, window>>
PurlLookupUnfiltered(r) ==
  LET ids == {id \in Names : HasId(index, id) /\ index[id].pid = asked[r]} IN
  /\ pc[r] = "purl_lookup"
  /\ \/ \E id \in ids : RedirectToShow(r, id)
     \/ ids = {} /\ Respond(r, "not_found", NoName)
  /\ UNCHANGED <<index, reindexed, asked, window>>

\* emory_purl_document_id: one row, of whichever document Solr puts first.
PurlLookup(r) ==
  /\ pc[r] = "purl_lookup"
  /\ \/ \E id \in Carriers(index, asked[r]) : RedirectToShow(r, id)
     \/ Carriers(index, asked[r]) = {} /\ Respond(r, "not_found", NoName)
  /\ UNCHANGED <<index, reindexed, asked, window>>

\* The first read of show; who may see the page is a matter of CatalogAccess.
Show(r) ==
  /\ pc[r] = "show"
  /\ Respond(r, IF HasId(index, target[r]) THEN "page" ELSE "missing", target[r])
  /\ UNCHANGED <<index, reindexed, asked, window>>

\* Any read may fail: Solr does not answer, and nothing rescues that.
SolrUnavailable(r) ==
  /\ Busy(r)
  /\ Respond(r, "unavailable", NoName)
  /\ UNCHANGED <<index, reindexed, asked, window>>

\* Curate indexes, reindexes or deletes the document of an id.
Reindex(id, entry) ==
  /\ reindexed < MaxReindex
  /\ entry # index[id]
  /\ index' = [index EXCEPT ![id] = entry]
  /\ reindexed' = reindexed + 1
  /\ window' = [r \in Requests |->
       IF Busy(r) THEN Append(window[r], index') ELSE window[r]]
  /\ UNCHANGED <<asked, pc, target, answer>>

\* Mutant of Serve: the persistent id is looked for before the id.
ServeSwapped(r) ==
  \/ /\ pc[r] = "direct_lookup"
     /\ \/ \E id \in Carriers(index, asked[r]) : RedirectToShow(r, id)
        \/ /\ Carriers(index, asked[r]) = {}
           /\ pc' = [pc EXCEPT ![r] = "purl_lookup"]
           /\ UNCHANGED <<target, answer>>
     /\ UNCHANGED <<index, reindexed, asked, window>>
  \/ /\ pc[r] = "purl_lookup"
     /\ \/ HasId(index, asked[r]) /\ RedirectToShow(r, asked[r])
        \/ ~ HasId(index, asked[r]) /\ Respond(r, "not_found", NoName)
     /\ UNCHANGED <<index, reindexed, asked, window>>
  \/ Show(r)
  \/ SolrUnavailable(r)

Serve(r) == DirectLookup(r) \/ PurlLookup(r) \/ Show(r) \/ SolrUnavailable(r)

Next ==
  \/ \E r \in Requests : Serve(r) \/ \E name \in Names : Follow(r, name)
  \/ \E id \in Names, entry \in Entries \cup {NoDoc} : Reindex(id, entry)

Spec == Init /\ [][Next]_vars

----------------------------------------------------------------------------
Done(r, kind) == asked[r] # NoAsk /\ answer[r] # NoAnswer /\ answer[r].kind = kind

(***************************************************************************)
(* The two lookups and the redirect keep the promise of a lookup in one    *)
(* step, as far as the index's changes allow (catalog_controller.rb,       *)
(* purl).                                                                  *)
(***************************************************************************)
Promise == INSTANCE PurlPromise
  WITH index <- index, asked <- asked, answer <- answer, window <- window
ImplementsPromise == Promise!Spec

(***************************************************************************)
(* A document that moves is never lost: if, from the moment on at which no *)
(* document has the name as its id, some document in the search results    *)
(* has it as its persistent id, the purl is not answered by not found,     *)
(* whenever between the two lookups the move happens.  This is why the id  *)
(* must be looked for first.                                               *)
(***************************************************************************)
NeverLost(w, name) ==
  \A i \in DOMAIN w : HasId(w[i], name) \/ \A j \in i..Len(w) : Carriers(w[j], name) # {}

MovedDocumentsAreFound ==
  \A r \in Requests : Done(r, "not_found") => ~ NeverLost(window[r], asked[r])

(***************************************************************************)
(* The purl that a page prints (find_this_item_helper.rb) and the one in   *)
(* its citations lead back to that page, if nothing moves: the first       *)
(* unless another document has the name too, the second always.            *)
(***************************************************************************)
PurlsLeadBack ==
  \A r \in Requests, id \in Names :
    LET w == window[r] IN
    /\ asked[r] # NoAsk /\ answer[r] # NoAnswer /\ answer[r].kind # "unavailable"
    /\ Len(w) = 1 /\ HasId(w[1], id)
    /\ \/ asked[r] = CitedPurl(id)
       \/ /\ asked[r] = PrintedPurl(id, w[1][id])
          /\ w[1][id].listed
          /\ \A other \in Names \ {id} :
               ~ (HasId(w[1], other) /\ asked[r] \in {other, w[1][other].pid})
    => answer[r] = [kind |-> "page", id |-> id]

(***************************************************************************)
(* A redirect leads nowhere only if the document it names was deleted      *)
(* after the lookup found it: a document that stays is never missed.       *)
(***************************************************************************)
MissingWasThere ==
  \A r \in Requests : Done(r, "missing") =>
    \E i, j \in DOMAIN window[r] :
      i < j /\ HasId(window[r][i], answer[r].id) /\ ~ HasId(window[r][j], answer[r].id)

(***************************************************************************)
(* The invariant that carries the proofs: what a request has established   *)
(* before its next step.                                                   *)
(***************************************************************************)
JustifiedFor(r) ==
  LET w == window[r]
      name == asked[r] IN
  /\ Busy(r) <=> asked[r] # NoAsk /\ answer[r] = NoAnswer
  /\ Busy(r) => Len(w) > 0 /\ w[Len(w)] = index
  /\ pc[r] = "purl_lookup" => \E i \in DOMAIN w : ~ HasId(w[i], name)
  /\ pc[r] = "show" =>
       target[r] \in Names /\ \E i \in DOMAIN w : Promise!FoundAt(w, name, target[r], i)
  /\ ~ Busy(r) /\ asked[r] # NoAsk => answer[r] \in Promise!PromisedAnswers(name, w)

Justified == \A r \in Requests : JustifiedFor(r)
RequestInv == TypeOK /\ Justified
============================================================================
