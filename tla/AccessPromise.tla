--------------------------- MODULE AccessPromise ---------------------------
(***************************************************************************)
(* What Lux promises a visitor while Curate rewrites the index under it:   *)
(* every request is answered once, in one step, by documents that the      *)
(* index really held for the requested id between the request's arrival    *)
(* and its answer.  A page needs one of them that the visitor may read; a  *)
(* refusal needs one that the visitor may not read, or whose page could    *)
(* not be rendered, and is worded by the visibility of one of them.  The   *)
(* promise does not say that they are the same document: see               *)
(* CatalogAccess for where two reads of the index can differ.              *)
(***************************************************************************)
EXTENDS AccessControl

CONSTANTS Requests, Ids, Docs, Visitors, NoDoc, NoAsk, NoAnswer

VARIABLES index, asked, answer, window

vars == <<index, asked, answer, window>>

Ask == [kind : {"show", "uv_config", "search"}, id : Ids, visitor : Visitors]

Pending(r) == asked[r] # NoAsk /\ answer[r] = NoAnswer

Answered(kind, doc) == [kind |-> kind, doc |-> doc]

\* The documents, not their absence, that a set of index entries holds.
DocsIn(W) == W \ {NoDoc}

ShowAnswers(visitor, W) ==
     {Answered("page", d) : d \in {e \in DocsIn(W) :
        e.renders /\ \E c \in DocsIn(W) : test_read(visitor, c)}}
  \cup {Answered(Refusal(d.visibility), NoDoc) : d \in {e \in DocsIn(W) :
        \E c \in DocsIn(W) : ~ test_read(visitor, c) \/ ~ c.renders}}
  \cup {Answered("missing", NoDoc) : d \in W \cap {NoDoc}}
  \cup {Answered("error", NoDoc) : d \in {e \in W \cap {NoDoc} :
        \E c \in DocsIn(W) : ~ test_read(visitor, c) \/ ~ c.renders}}

UvAnswers(visitor, W) ==
     {Answered(uv_config(visitor, d.visibility), d) : d \in DocsIn(W)}
  \cup {Answered("error", NoDoc) : d \in W \cap {NoDoc}}

SearchAnswers(visitor, W) ==
     {Answered(thumbnail_image(visitor, d), d) :
        d \in {e \in DocsIn(W) : InSearchResults(e)}}
  \cup {Answered("no_hit", NoDoc) :
        d \in {e \in W : e = NoDoc \/ ~ InSearchResults(e)}}

PromisedAnswers(ask, W) ==
  {Answered("unavailable", NoDoc)}
    \cup CASE ask.kind = "show"      -> ShowAnswers(ask.visitor, W)
           [] ask.kind = "uv_config" -> UvAnswers(ask.visitor, W)
           [] ask.kind = "search"    -> SearchAnswers(ask.visitor, W)

----------------------------------------------------------------------------
Init ==
  /\ index \in [Ids -> Docs \cup {NoDoc}]
  /\ asked = [r \in Requests |-> NoAsk]
  /\ answer = [r \in Requests |-> NoAnswer]
  /\ window = [r \in Requests |-> {}]

Arrive(r) ==
  /\ ~ Pending(r)
  /\ \E ask \in Ask :
       /\ asked' = [asked EXCEPT ![r] = ask]
       /\ window' = [window EXCEPT ![r] = {index[ask.id]}]
  /\ answer' = [answer EXCEPT ![r] = NoAnswer]
  /\ UNCHANGED index

Reply(r) ==
  /\ Pending(r)
  /\ \E a \in PromisedAnswers(asked[r], window[r]) :
       answer' = [answer EXCEPT ![r] = a]
  /\ UNCHANGED <<index, asked, window>>

Reindex(id, d) ==
  /\ index' = [index EXCEPT ![id] = d]
  /\ window' = [r \in Requests |->
       window[r] \cup {e \in {d} : Pending(r) /\ asked[r].id = id}]
  /\ UNCHANGED <<asked, answer>>

Next ==
  \/ \E r \in Requests : Arrive(r) \/ Reply(r)
  \/ \E id \in Ids, d \in Docs \cup {NoDoc} : Reindex(id, d)

Spec == Init /\ [][Next]_vars
============================================================================
