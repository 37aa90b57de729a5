--------------------------- MODULE CatalogAccess ---------------------------
(***************************************************************************)
(* The requests that Lux's puma threads serve against the Solr index, each *)
(* read of the index a step of its own, while Curate adds, rewrites and    *)
(* deletes documents.                                                      *)
(*                                                                         *)
(* GET /catalog/:id reads the index twice: the before_action               *)
(* enforce_show_permissions fetches the permissions, then the show action  *)
(* fetches the document; a refusal reads it again, in render404, for the   *)
(* visibility.  GET /uv/config/:id and a search read it once.              *)
(***************************************************************************)
EXTENDS AccessControl, Naturals

CONSTANTS
  Requests,    \* the puma threads, each serving one request at a time
  Ids,         \* document ids that are asked for
  Docs,        \* documents that Curate may index
  Visitors,    \* visitors who make requests
  NoDoc,       \* the index has no document of that id
  NoAsk,       \* the thread has served nothing yet
  NoAnswer,    \* the thread is still working on it
  MaxReindex   \* bound: how often Curate changes the index

ASSUME CatalogAssumption ==
  /\ Docs \subseteq Document
  /\ Visitors \subseteq Visitor
  /\ NoDoc \notin Docs
  /\ MaxReindex \in Nat

VARIABLES
  index,      \* Solr: the document of every id
  reindexed,  \* how often the index has changed
  asked,      \* what each thread was asked
  pc,         \* where each thread is: the name of its next step
  answer,     \* what it answered
  window      \* history: what the index held for the id since it was asked

vars == <<index, reindexed, asked, pc, answer, window>>

Kinds == {"show", "uv_config", "search"}
Ask == [kind : Kinds, id : Ids, visitor : Visitors]

Steps == {"enforce_show_permissions", "show", "render404", "uv_config", "search"}
FirstStep(kind) == IF kind = "show" THEN "enforce_show_permissions" ELSE kind

AnswerKinds ==
  {"page", "login", "reading_room", "not_found", "missing", "error",
   "unavailable", "liberal", "liberal_low", "conservative", "thumbnail",
   "login_required", "reading_room_only", "default_thumbnail", "no_hit"}
Answer == [kind : AnswerKinds, doc : Docs \cup {NoDoc}]

ASSUME SentinelAssumption == NoAsk \notin Ask /\ NoAnswer \notin Answer

Busy(r) == pc[r] \in Steps
Found(r) == index[asked[r].id]

TypeOK ==
  /\ index \in [Ids -> Docs \cup {NoDoc}]
  /\ reindexed \in 0..MaxReindex
  /\ asked \in [Requests -> Ask \cup {NoAsk}]
  /\ pc \in [Requests -> Steps \cup {"idle"}]
  /\ answer \in [Requests -> Answer \cup {NoAnswer}]
  /\ window \in [Requests -> SUBSET (Docs \cup {NoDoc})]

Init ==
  /\ index \in [Ids -> Docs \cup {NoDoc}]
  /\ reindexed = 0
  /\ asked = [r \in Requests |-> NoAsk]
  /\ pc = [r \in Requests |-> "idle"]
  /\ answer = [r \in Requests |-> NoAnswer]
  /\ window = [r \in Requests |-> {}]

----------------------------------------------------------------------------
Respond(r, kind, doc) ==
  /\ answer' = [answer EXCEPT ![r] = [kind |-> kind, doc |-> doc]]
  /\ pc' = [pc EXCEPT ![r] = "idle"]

Continue(r, step) ==
  /\ pc' = [pc EXCEPT ![r] = step]
  /\ UNCHANGED answer

(***************************************************************************)
(* A thread takes the next request.  Warden finds the visitor in the       *)
(* session now and current_ability keeps the groups: signing out in        *)
(* another tab does not reach a request that is under way.                 *)
(***************************************************************************)
Receive(r) ==
  /\ pc[r] = "idle"
  /\ \E ask \in Ask :
       /\ asked' = [asked EXCEPT ![r] = ask]
       /\ pc' = [pc EXCEPT ![r] = FirstStep(ask.kind)]
       /\ window' = [window EXCEPT ![r] = {index[ask.id]}]
  /\ answer' = [answer EXCEPT ![r] = NoAnswer]
  /\ UNCHANGED <<index, reindexed>>

\* Mutant: the before_action is declared for another action than show.
EnforceNothing(r) ==
  /\ pc[r] = "enforce_show_permissions"
  /\ \/ Found(r) = NoDoc /\ Respond(r, "missing", NoDoc)
     \/ Found(r) # NoDoc /\ Continue(r, "show")
  /\ UNCHANGED <<index, reindexed, asked, window>>

\* before_action of show: the first read of the index.
EnforceShowPermissions(r) ==
  /\ pc[r] = "enforce_show_permissions"
  /\ \/ Found(r) = NoDoc /\ Respond(r, "missing", NoDoc)
     \/ /\ Found(r) # NoDoc
        /\ Continue(r, IF test_read(asked[r].visitor, Found(r))
                         THEN "show" ELSE "render404")
  /\ UNCHANGED <<index, reindexed, asked, window>>

\* The show action: the second read.  The permission is not asked again.  A
\* NameError of the page's templates goes to render404 too.
Show(r) ==
  /\ pc[r] = "show"
  /\ \/ Found(r) = NoDoc /\ Respond(r, "missing", NoDoc)
     \/ Found(r) # NoDoc /\ Found(r).renders /\ Respond(r, "page", Found(r))
     \/ Found(r) # NoDoc /\ ~ Found(r).renders /\ Continue(r, "render404")
  /\ UNCHANGED <<index, reindexed, asked, window>>

\* Mutant: the handler's own NoMethodError is rescued by the handler again.
RescuedAgain(r) ==
  /\ pc[r] = "render404"
  /\ \/ Found(r) = NoDoc /\ Continue(r, "render404")
     \/ Found(r) # NoDoc /\ Respond(r, Refusal(Found(r).visibility), NoDoc)
  /\ UNCHANGED <<index, reindexed, asked, window>>

\* The rescue handler looks the visibility up afresh; nothing rescues the
\* NoMethodError that visibility_lookup raises when the document is gone.
Render404(r) ==
  /\ pc[r] = "render404"
  /\ \/ Found(r) = NoDoc /\ Respond(r, "error", NoDoc)
     \/ Found(r) # NoDoc /\ Respond(r, Refusal(Found(r).visibility), NoDoc)
  /\ UNCHANGED <<index, reindexed, asked, window>>

\* GET /uv/config/:id, with the same unguarded lookup.
UvConfig(r) ==
  /\ pc[r] = "uv_config"
  /\ \/ Found(r) = NoDoc /\ Respond(r, "error", NoDoc)
     \/ /\ Found(r) # NoDoc
        /\ Respond(r, uv_config(asked[r].visitor, Found(r).visibility), Found(r))
  /\ UNCHANGED <<index, reindexed, asked, window>>

\* Mutant: the search lost its fq.
SearchUnfiltered(r) ==
  /\ pc[r] = "search"
  /\ \/ /\ Found(r) # NoDoc
        /\ Respond(r, thumbnail_image(asked[r].visitor, Found(r)), Found(r))
     \/ Found(r) = NoDoc /\ Respond(r, "no_hit", NoDoc)
  /\ UNCHANGED <<index, reindexed, asked, window>>

\* A search that matches the id: the document is a hit or is filtered out,
\* and a hit shows the thumbnail its visibility allows.
Search(r) ==
  /\ pc[r] = "search"
  /\ LET hit == Found(r) # NoDoc /\ InSearchResults(Found(r)) IN
     \/ hit /\ Respond(r, thumbnail_image(asked[r].visitor, Found(r)), Found(r))
     \/ ~ hit /\ Respond(r, "no_hit", NoDoc)
  /\ UNCHANGED <<index, reindexed, asked, window>>

\* Any read may fail: Solr does not answer, and nothing in Lux rescues that.
SolrUnavailable(r) ==
  /\ Busy(r)
  /\ Respond(r, "unavailable", NoDoc)
  /\ UNCHANGED <<index, reindexed, asked, window>>

\* Curate indexes, reindexes or deletes the document of an id.
Reindex(id, d) ==
  /\ reindexed < MaxReindex
  /\ d # index[id]
  /\ index' = [index EXCEPT ![id] = d]
  /\ reindexed' = reindexed + 1
  /\ window' = [r \in Requests |->
       window[r] \cup {e \in {d} : Busy(r) /\ asked[r].id = id}]
  /\ UNCHANGED <<asked, pc, answer>>

Serve(r) ==
  \/ EnforceShowPermissions(r)
  \/ Show(r)
  \/ Render404(r)
  \/ UvConfig(r)
  \/ Search(r)

Work(r) == Serve(r) \/ SolrUnavailable(r)

Next ==
  \/ \E r \in Requests : Receive(r) \/ Work(r)
  \/ \E id \in Ids, d \in Docs \cup {NoDoc} : Reindex(id, d)

Spec == Init /\ [][Next]_vars

\* A puma thread keeps working on the request it has taken.  Nobody owes it a
\* next request, Curate owes nobody a change of the index, and Solr's outages
\* are not counted on to end a request.
FairSpec == Spec /\ \A r \in Requests : WF_vars(Serve(r))
============================================================================
