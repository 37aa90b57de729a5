----------------------- MODULE CatalogAccess_proofs -----------------------
(***************************************************************************)
(* Proofs about CatalogAccess for any number of threads, ids, documents,   *)
(* visitors, people and addresses.  Justified is the inductive invariant;  *)
(* every property about answers follows from it and from lemmas about the  *)
(* deciders, without looking at the actions again.                         *)
(***************************************************************************)
EXTENDS CatalogProperties, TLAPS

----------------------------------------------------------------------------
(***************************************************************************)
(* Ability: download implies read, and read implies discover, as the       *)
(* comments of lib/blacklight/access_controls/ability.rb say, for whatever *)
(* groups and people the document names.                                   *)
(***************************************************************************)
THEOREM AbilitiesAreNested ==
  ASSUME NEW visitor, NEW doc
  PROVE  /\ test_download(visitor, doc) => test_read(visitor, doc)
         /\ test_read(visitor, doc) => test_discover(visitor, doc)
  BY DEF test_download, test_read, test_discover, download_groups, read_groups,
         discover_groups, download_users, read_users, discover_users

\* The groups of a work as Curate indexes it let in the visitors that its
\* visibility names, and nobody else.
LEMMA CurateDecides ==
  ASSUME NEW visitor \in Visitor, NEW d \in Document, CurateIndexed(d)
  PROVE  test_read(visitor, d) <=> MayRead(visitor, d.visibility)
<1>1. d.visibility \in Visibilities
  BY DEF Document
<1>2. test_read(visitor, d)
        <=> user_groups(visitor) \cap CurateReadGroups(d.visibility) # {}
  BY DEF test_read, CurateIndexed, read_groups, read_users,
         download_groups, download_users
<1>3. /\ "public" \in user_groups(visitor)
      /\ "low_res" \in user_groups(visitor)
      /\ "registered" \in user_groups(visitor) <=> SignedIn(visitor)
      /\ "emory_low" \in user_groups(visitor) <=> SignedIn(visitor)
      /\ "rose_high" \in user_groups(visitor) <=> visitor.ip \in RoseIps
      /\ "irish_partner" \in user_groups(visitor) <=> visitor.ip \in IrishIps
  BY DEF user_groups, default_user_groups
<1>4. QED
  BY <1>1, <1>2, <1>3 DEF Visibilities, CurateReadGroups, MayRead

\* Each decider answers with one of its own kinds.
LEMMA DeciderKinds ==
  ASSUME NEW visitor, NEW d \in Docs
  PROVE  /\ Refusal(d.visibility) \in {"login", "reading_room", "not_found"}
         /\ uv_config(visitor, d.visibility)
              \in {"liberal", "liberal_low", "conservative"}
         /\ thumbnail_image(visitor, d)
              \in {"thumbnail", "login_required", "reading_room_only",
                   "default_thumbnail"}
<1>1. d.visibility \in Visibilities
  BY CatalogAssumption DEF Document
<1>2. Refusal(d.visibility) \in {"login", "reading_room", "not_found"}
  BY DEF Refusal
<1>3. uv_config(visitor, d.visibility)
        \in {"liberal", "liberal_low", "conservative"}
  BY DEF uv_config
<1>4. thumbnail_image(visitor, d)
        \in {"thumbnail", "login_required", "reading_room_only",
             "default_thumbnail"}
  BY DEF thumbnail_image
<1>5. QED
  BY <1>2, <1>3, <1>4

----------------------------------------------------------------------------

\* TypeOK is not inductive: a thread at work must have been asked something,
\* or the id it reads is not an id.
TypeInv == TypeOK /\ \A r \in Requests : Busy(r) => asked[r] # NoAsk

LEMMA FoundIsTyped ==
  ASSUME TypeInv, NEW r \in Requests, Busy(r)
  PROVE  asked[r] \in Ask /\ Found(r) \in Docs \cup {NoDoc}
  BY DEF TypeInv, TypeOK, Found, Ask

\* What every step of a thread but Receive has in common.
LEMMA RespondKeepsTypes ==
  ASSUME TypeInv, NEW r \in Requests, NEW kind \in AnswerKinds,
         NEW doc \in Docs \cup {NoDoc},
         Respond(r, kind, doc), UNCHANGED <<index, reindexed, asked, window>>
  PROVE  TypeInv'
<1>1. [kind |-> kind, doc |-> doc] \in Answer
  BY DEF Answer
<1>2. TypeOK'
  BY <1>1 DEF TypeInv, TypeOK, Respond
<1>3. QED
  BY <1>2 DEF TypeInv, TypeOK, Respond, Busy, Steps

LEMMA ContinueKeepsTypes ==
  ASSUME TypeInv, NEW r \in Requests, Busy(r), NEW step \in Steps,
         Continue(r, step), UNCHANGED <<index, reindexed, asked, window>>
  PROVE  TypeInv'
  BY DEF TypeInv, TypeOK, Continue, Busy

LEMMA WorkKeepsTypes ==
  ASSUME TypeInv, NEW r \in Requests, Work(r)
  PROVE  TypeInv'
<1>1. /\ Busy(r)
      /\ UNCHANGED <<index, reindexed, asked, window>>
  BY DEF Work, Serve, EnforceShowPermissions, Show, Render404, UvConfig, Search,
         SolrUnavailable, Busy, Steps
<1>2. Found(r) \in Docs \cup {NoDoc}
  BY <1>1, FoundIsTyped
<1>3. CASE EnforceShowPermissions(r)
  BY <1>1, <1>2, <1>3, RespondKeepsTypes, ContinueKeepsTypes
  DEF EnforceShowPermissions, Steps, AnswerKinds
<1>4. CASE Show(r)
  BY <1>1, <1>2, <1>4, RespondKeepsTypes, ContinueKeepsTypes
  DEF Show, Steps, AnswerKinds
<1>5. CASE Render404(r)
  BY <1>1, <1>2, <1>5, RespondKeepsTypes, DeciderKinds
  DEF Render404, AnswerKinds
<1>6. CASE UvConfig(r)
  BY <1>1, <1>2, <1>6, RespondKeepsTypes, DeciderKinds
  DEF UvConfig, AnswerKinds
<1>7. CASE Search(r)
  BY <1>1, <1>2, <1>7, RespondKeepsTypes, DeciderKinds
  DEF Search, AnswerKinds
<1>8. CASE SolrUnavailable(r)
  BY <1>1, <1>8, RespondKeepsTypes DEF SolrUnavailable, AnswerKinds
<1>9. QED
  BY <1>3, <1>4, <1>5, <1>6, <1>7, <1>8 DEF Work, Serve

LEMMA ReceiveKeepsTypes ==
  ASSUME TypeInv, NEW r \in Requests, Receive(r)
  PROVE  TypeInv'
<1>1. PICK ask \in Ask :
        /\ asked' = [asked EXCEPT ![r] = ask]
        /\ pc' = [pc EXCEPT ![r] = FirstStep(ask.kind)]
        /\ window' = [window EXCEPT ![r] = {index[ask.id]}]
  BY DEF Receive
<1>2. FirstStep(ask.kind) \in Steps /\ index[ask.id] \in Docs \cup {NoDoc}
  BY DEF Ask, Kinds, FirstStep, Steps, TypeInv, TypeOK
<1>3. ask # NoAsk
  BY SentinelAssumption
<1>4. TypeOK'
  BY <1>1, <1>2 DEF Receive, TypeInv, TypeOK
<1>5. QED
  BY <1>1, <1>3, <1>4 DEF TypeInv, TypeOK, Busy

LEMMA ReindexKeepsTypes ==
  ASSUME TypeInv, NEW id \in Ids, NEW d \in Docs \cup {NoDoc}, Reindex(id, d)
  PROVE  TypeInv'
<1>1. reindexed' \in 0..MaxReindex
  BY CatalogAssumption DEF Reindex, TypeInv, TypeOK
<1>2. QED
  BY <1>1 DEF Reindex, TypeInv, TypeOK, Busy

(***************************************************************************)
(* Type correctness: no thread is ever at an unknown step, a thread at     *)
(* work knows what it was asked, and every answer is one of those that     *)
(* app/controllers can give.                                               *)
(***************************************************************************)
LEMMA TypeInvariant == Spec => []TypeInv
<1>1. Init => TypeInv
  BY CatalogAssumption DEF Init, TypeInv, TypeOK, Busy, Steps
<1>2. TypeInv /\ [Next]_vars => TypeInv'
  <2> SUFFICES ASSUME TypeInv, [Next]_vars PROVE TypeInv'
    OBVIOUS
  <2>1. ASSUME NEW r \in Requests, Receive(r) PROVE TypeInv'
    BY <2>1, ReceiveKeepsTypes
  <2>2. ASSUME NEW r \in Requests, Work(r) PROVE TypeInv'
    BY <2>2, WorkKeepsTypes
  <2>3. ASSUME NEW id \in Ids, NEW d \in Docs \cup {NoDoc}, Reindex(id, d)
        PROVE  TypeInv'
    BY <2>3, ReindexKeepsTypes
  <2>4. CASE UNCHANGED vars
    BY <2>4 DEF vars, TypeInv, TypeOK, Busy
  <2>5. QED
    BY <2>1, <2>2, <2>3, <2>4 DEF Next
<1>3. QED
  BY <1>1, <1>2, PTL DEF Spec

THEOREM Typing == Spec => []TypeOK
<1>1. TypeInv => TypeOK
  BY DEF TypeInv
<1>2. QED
  BY <1>1, TypeInvariant, PTL

----------------------------------------------------------------------------
\* The promise is stated with its own instances of the deciders; they agree.
LEMMA PromiseDeciders ==
  ASSUME NEW visitor, NEW d
  PROVE  /\ Promise!test_read(visitor, d) <=> test_read(visitor, d)
         /\ Promise!Refusal(d.visibility) = Refusal(d.visibility)
         /\ Promise!uv_config(visitor, d.visibility)
              = uv_config(visitor, d.visibility)
         /\ Promise!thumbnail_image(visitor, d) = thumbnail_image(visitor, d)
         /\ Promise!InSearchResults(d) <=> InSearchResults(d)
<1>1. Promise!SignedIn(visitor) <=> SignedIn(visitor)
  BY DEF Promise!SignedIn, SignedIn
<1>2. Promise!user_groups(visitor) = user_groups(visitor)
  BY <1>1 DEF Promise!user_groups, user_groups, Promise!default_user_groups,
              default_user_groups
<1>3. Promise!test_read(visitor, d) <=> test_read(visitor, d)
  BY <1>2 DEF Promise!test_read, test_read, Promise!read_groups, read_groups,
    Promise!download_groups, download_groups, Promise!read_users, read_users,
    Promise!download_users, download_users
<1>4. Promise!Refusal(d.visibility) = Refusal(d.visibility)
  BY DEF Promise!Refusal, Refusal
<1>5. Promise!uv_config(visitor, d.visibility) = uv_config(visitor, d.visibility)
  BY <1>1 DEF Promise!uv_config, uv_config
<1>6. Promise!thumbnail_image(visitor, d) = thumbnail_image(visitor, d)
  BY <1>1, <1>2 DEF Promise!thumbnail_image, thumbnail_image
<1>7. Promise!InSearchResults(d) <=> InSearchResults(d)
  BY DEF Promise!InSearchResults, InSearchResults
<1>8. QED
  BY <1>3, <1>4, <1>5, <1>6, <1>7

\* A thread that answers as promised, or takes a further step that it may
\* take, stays justified; the other threads do not notice.
LEMMA RespondKeepsJustified ==
  ASSUME TypeInv, Justified, NEW r \in Requests, Busy(r),
         NEW kind \in AnswerKinds, NEW doc \in Docs \cup {NoDoc},
         Respond(r, kind, doc), UNCHANGED <<index, reindexed, asked, window>>,
         [kind |-> kind, doc |-> doc]
           \in Promise!PromisedAnswers(asked[r], window[r])
  PROVE  Justified'
<1>1. /\ [kind |-> kind, doc |-> doc] # NoAnswer
      /\ "idle" \notin Steps
  BY SentinelAssumption DEF Answer, Steps
<1>2. /\ answer'[r] = [kind |-> kind, doc |-> doc]
      /\ pc'[r] = "idle"
      /\ asked'[r] = asked[r] /\ window'[r] = window[r]
  BY DEF Respond, TypeInv, TypeOK
<1>3. JustifiedFor(r)'
  BY <1>1, <1>2 DEF JustifiedFor, Busy, Found
<1>4. ASSUME NEW s \in Requests, s # r PROVE JustifiedFor(s)'
  <2>1. /\ answer'[s] = answer[s] /\ pc'[s] = pc[s]
        /\ asked'[s] = asked[s] /\ window'[s] = window[s] /\ index' = index
    BY <1>4 DEF Respond, TypeInv, TypeOK
  <2>2. JustifiedFor(s)
    BY DEF Justified
  <2>3. QED
    BY <2>1, <2>2 DEF JustifiedFor, Busy, Found
<1>5. QED
  BY <1>3, <1>4 DEF Justified

LEMMA ContinueKeepsJustified ==
  ASSUME TypeInv, Justified, NEW r \in Requests, Busy(r),
         asked[r].kind = "show", NEW step \in {"show", "render404"},
         Continue(r, step), UNCHANGED <<index, reindexed, asked, window>>,
         step = "show" =>
           \E d \in window[r] \ {NoDoc} : test_read(asked[r].visitor, d),
         step = "render404" =>
           \E d \in window[r] \ {NoDoc} :
             ~ test_read(asked[r].visitor, d) \/ ~ d.renders
  PROVE  Justified'
<1>1. /\ pc'[r] = step /\ answer' = answer
      /\ asked'[r] = asked[r] /\ window'[r] = window[r] /\ index' = index
  BY DEF Continue, TypeInv, TypeOK
<1>2. JustifiedFor(r)
  BY DEF Justified
<1>3. step \in Steps
  BY DEF Steps
<1>4. JustifiedFor(r)'
  BY <1>1, <1>2, <1>3 DEF JustifiedFor, Busy, Found
<1>5. ASSUME NEW s \in Requests, s # r PROVE JustifiedFor(s)'
  <2>1. /\ answer'[s] = answer[s] /\ pc'[s] = pc[s]
        /\ asked'[s] = asked[s] /\ window'[s] = window[s] /\ index' = index
    BY <1>5 DEF Continue, TypeInv, TypeOK
  <2>2. JustifiedFor(s)
    BY DEF Justified
  <2>3. QED
    BY <2>1, <2>2 DEF JustifiedFor, Busy, Found
<1>6. QED
  BY <1>4, <1>5 DEF Justified

\* The promised answers of a show request, one case of ShowAnswers each.
LEMMA PromisedShow ==
  ASSUME NEW ask, ask.kind = "show", NEW W, NEW d \in W
  PROVE  /\ d = NoDoc => [kind |-> "missing", doc |-> NoDoc]
                            \in Promise!PromisedAnswers(ask, W)
         /\ /\ d # NoDoc /\ d.renders
            /\ \E c \in W \ {NoDoc} : test_read(ask.visitor, c)
            => [kind |-> "page", doc |-> d] \in Promise!PromisedAnswers(ask, W)
         /\ /\ \E c \in W \ {NoDoc} :
                 ~ test_read(ask.visitor, c) \/ ~ c.renders
            => IF d = NoDoc
               THEN [kind |-> "error", doc |-> NoDoc]
                      \in Promise!PromisedAnswers(ask, W)
               ELSE [kind |-> Refusal(d.visibility), doc |-> NoDoc]
                      \in Promise!PromisedAnswers(ask, W)
<1>1. Promise!ShowAnswers(ask.visitor, W) \subseteq Promise!PromisedAnswers(ask, W)
  BY DEF Promise!PromisedAnswers
<1>2. ASSUME d = NoDoc
      PROVE  [kind |-> "missing", doc |-> NoDoc]
               \in Promise!ShowAnswers(ask.visitor, W)
  BY <1>2 DEF Promise!ShowAnswers, Promise!Answered
<1>3. ASSUME d # NoDoc, d.renders,
             NEW c \in W \ {NoDoc}, test_read(ask.visitor, c)
      PROVE  [kind |-> "page", doc |-> d] \in Promise!ShowAnswers(ask.visitor, W)
  <2>1. /\ c \in Promise!DocsIn(W) /\ d \in Promise!DocsIn(W)
        /\ Promise!test_read(ask.visitor, c)
    BY <1>3, PromiseDeciders DEF Promise!DocsIn
  <2>2. QED
    BY <1>3, <2>1 DEF Promise!ShowAnswers, Promise!Answered
<1>4. ASSUME NEW c \in W \ {NoDoc}, ~ test_read(ask.visitor, c) \/ ~ c.renders
      PROVE  IF d = NoDoc
             THEN [kind |-> "error", doc |-> NoDoc]
                    \in Promise!ShowAnswers(ask.visitor, W)
             ELSE [kind |-> Refusal(d.visibility), doc |-> NoDoc]
                    \in Promise!ShowAnswers(ask.visitor, W)
  <2>1. /\ c \in Promise!DocsIn(W)
        /\ ~ Promise!test_read(ask.visitor, c) \/ ~ c.renders
    BY <1>4, PromiseDeciders DEF Promise!DocsIn
  <2>2. CASE d = NoDoc
    BY <2>1, <2>2 DEF Promise!ShowAnswers, Promise!Answered
  <2>3. CASE d # NoDoc
    <3>1. d \in Promise!DocsIn(W)
      BY <2>3 DEF Promise!DocsIn
    <3>2. Promise!Answered(Promise!Refusal(d.visibility), NoDoc)
            \in Promise!ShowAnswers(ask.visitor, W)
      BY <2>1, <3>1 DEF Promise!ShowAnswers
    <3>3. QED
      BY <2>3, <3>2, PromiseDeciders DEF Promise!Answered
  <2>4. QED
    BY <2>2, <2>3
<1>5. QED
  BY <1>1, <1>2, <1>3, <1>4

\* The promised answers of the two requests that read the index once.
LEMMA PromisedUv ==
  ASSUME NEW ask, ask.kind = "uv_config", NEW W, NEW d \in W
  PROVE  IF d = NoDoc
         THEN [kind |-> "error", doc |-> NoDoc] \in Promise!PromisedAnswers(ask, W)
         ELSE [kind |-> uv_config(ask.visitor, d.visibility), doc |-> d]
                \in Promise!PromisedAnswers(ask, W)
<1>1. Promise!UvAnswers(ask.visitor, W) \subseteq Promise!PromisedAnswers(ask, W)
  BY DEF Promise!PromisedAnswers
<1>2. CASE d = NoDoc
  BY <1>1, <1>2 DEF Promise!UvAnswers, Promise!Answered
<1>3. CASE d # NoDoc
  <2>1. Promise!Answered(Promise!uv_config(ask.visitor, d.visibility), d)
          \in Promise!UvAnswers(ask.visitor, W)
    BY <1>3 DEF Promise!UvAnswers, Promise!DocsIn
  <2>2. QED
    BY <1>1, <1>3, <2>1, PromiseDeciders DEF Promise!Answered
<1>4. QED
  BY <1>2, <1>3

LEMMA PromisedSearch ==
  ASSUME NEW ask, ask.kind = "search", NEW W, NEW d \in W
  PROVE  IF d # NoDoc /\ InSearchResults(d)
         THEN [kind |-> thumbnail_image(ask.visitor, d), doc |-> d]
                \in Promise!PromisedAnswers(ask, W)
         ELSE [kind |-> "no_hit", doc |-> NoDoc]
                \in Promise!PromisedAnswers(ask, W)
<1>1. Promise!SearchAnswers(ask.visitor, W)
        \subseteq Promise!PromisedAnswers(ask, W)
  BY DEF Promise!PromisedAnswers
<1>2. CASE d # NoDoc /\ InSearchResults(d)
  <2>1. Promise!InSearchResults(d) /\ d \in Promise!DocsIn(W)
    BY <1>2, PromiseDeciders DEF Promise!DocsIn
  <2>2. Promise!Answered(Promise!thumbnail_image(ask.visitor, d), d)
          \in Promise!SearchAnswers(ask.visitor, W)
    BY <2>1 DEF Promise!SearchAnswers
  <2>3. QED
    BY <1>1, <1>2, <2>2, PromiseDeciders DEF Promise!Answered
<1>3. CASE ~ (d # NoDoc /\ InSearchResults(d))
  <2>1. d = NoDoc \/ ~ Promise!InSearchResults(d)
    BY <1>3, PromiseDeciders
  <2>2. Promise!Answered("no_hit", NoDoc)
          \in Promise!SearchAnswers(ask.visitor, W)
    BY <2>1 DEF Promise!SearchAnswers
  <2>3. QED
    BY <1>1, <1>3, <2>2 DEF Promise!Answered
<1>4. QED
  BY <1>2, <1>3

----------------------------------------------------------------------------
\* What a justified thread at work knows.
LEMMA JustifiedThread ==
  ASSUME TypeInv, Justified, NEW r \in Requests, Busy(r)
  PROVE  /\ Found(r) \in window[r] /\ Found(r) \in Docs \cup {NoDoc}
         /\ JustifiedFor(r)
  BY FoundIsTyped DEF Justified, JustifiedFor

(***************************************************************************)
(* The steps of a thread, one lemma each: the answer, if the step gives    *)
(* one, is among the promised ones, and otherwise the next step is one the *)
(* thread is entitled to.                                                  *)
(***************************************************************************)
LEMMA EnforceKeepsJustified ==
  ASSUME TypeInv, Justified, NEW r \in Requests, EnforceShowPermissions(r)
  PROVE  Justified'
<1>1. Busy(r) /\ UNCHANGED <<index, reindexed, asked, window>>
  BY DEF EnforceShowPermissions, Busy, Steps
<1>2. /\ Found(r) \in window[r] /\ Found(r) \in Docs \cup {NoDoc}
      /\ asked[r].kind = "show"
  BY <1>1, JustifiedThread DEF EnforceShowPermissions, JustifiedFor
<1>3. CASE Found(r) = NoDoc /\ Respond(r, "missing", NoDoc)
  <2>1. [kind |-> "missing", doc |-> NoDoc]
          \in Promise!PromisedAnswers(asked[r], window[r])
    BY <1>2, <1>3, PromisedShow
  <2>2. QED
    BY <1>1, <1>3, <2>1, RespondKeepsJustified DEF AnswerKinds
<1>4. ASSUME Found(r) # NoDoc, test_read(asked[r].visitor, Found(r)),
             Continue(r, "show")
      PROVE  Justified'
  BY <1>1, <1>2, <1>4, ContinueKeepsJustified
<1>5. ASSUME Found(r) # NoDoc, ~ test_read(asked[r].visitor, Found(r)),
             Continue(r, "render404")
      PROVE  Justified'
  BY <1>1, <1>2, <1>5, ContinueKeepsJustified
<1>6. QED
  BY <1>3, <1>4, <1>5 DEF EnforceShowPermissions

LEMMA ShowKeepsJustified ==
  ASSUME TypeInv, Justified, NEW r \in Requests, Show(r)
  PROVE  Justified'
<1>1. Busy(r) /\ UNCHANGED <<index, reindexed, asked, window>>
  BY DEF Show, Busy, Steps
<1>2. /\ Found(r) \in window[r] /\ Found(r) \in Docs \cup {NoDoc}
      /\ asked[r].kind = "show"
      /\ \E c \in window[r] \ {NoDoc} : test_read(asked[r].visitor, c)
  BY <1>1, JustifiedThread DEF Show, JustifiedFor
<1>3. CASE Found(r) = NoDoc /\ Respond(r, "missing", NoDoc)
  <2>1. [kind |-> "missing", doc |-> NoDoc]
          \in Promise!PromisedAnswers(asked[r], window[r])
    BY <1>2, <1>3, PromisedShow
  <2>2. QED
    BY <1>1, <1>3, <2>1, RespondKeepsJustified DEF AnswerKinds
<1>4. CASE /\ Found(r) # NoDoc /\ Found(r).renders
           /\ Respond(r, "page", Found(r))
  <2>1. [kind |-> "page", doc |-> Found(r)]
          \in Promise!PromisedAnswers(asked[r], window[r])
    BY <1>2, <1>4, PromisedShow
  <2>2. QED
    BY <1>1, <1>2, <1>4, <2>1, RespondKeepsJustified DEF AnswerKinds
<1>5. CASE /\ Found(r) # NoDoc /\ ~ Found(r).renders
           /\ Continue(r, "render404")
  BY <1>1, <1>2, <1>5, ContinueKeepsJustified
<1>6. QED
  BY <1>3, <1>4, <1>5 DEF Show

LEMMA Render404KeepsJustified ==
  ASSUME TypeInv, Justified, NEW r \in Requests, Render404(r)
  PROVE  Justified'
<1>1. Busy(r) /\ UNCHANGED <<index, reindexed, asked, window>>
  BY DEF Render404, Busy, Steps
<1>2. /\ Found(r) \in window[r] /\ Found(r) \in Docs \cup {NoDoc}
      /\ asked[r].kind = "show"
      /\ \E c \in window[r] \ {NoDoc} :
           ~ test_read(asked[r].visitor, c) \/ ~ c.renders
  BY <1>1, JustifiedThread DEF Render404, JustifiedFor
<1>3. CASE Found(r) = NoDoc /\ Respond(r, "error", NoDoc)
  <2>1. [kind |-> "error", doc |-> NoDoc]
          \in Promise!PromisedAnswers(asked[r], window[r])
    BY <1>2, <1>3, PromisedShow
  <2>2. QED
    BY <1>1, <1>3, <2>1, RespondKeepsJustified DEF AnswerKinds
<1>4. CASE Found(r) # NoDoc /\ Respond(r, Refusal(Found(r).visibility), NoDoc)
  <2>1. [kind |-> Refusal(Found(r).visibility), doc |-> NoDoc]
          \in Promise!PromisedAnswers(asked[r], window[r])
    BY <1>2, <1>4, PromisedShow
  <2>2. Refusal(Found(r).visibility) \in AnswerKinds
    BY <1>2, <1>4, DeciderKinds DEF AnswerKinds
  <2>3. QED
    BY <1>1, <1>4, <2>1, <2>2, RespondKeepsJustified
<1>5. QED
  BY <1>3, <1>4 DEF Render404

LEMMA UvConfigKeepsJustified ==
  ASSUME TypeInv, Justified, NEW r \in Requests, UvConfig(r)
  PROVE  Justified'
<1>1. Busy(r) /\ UNCHANGED <<index, reindexed, asked, window>>
  BY DEF UvConfig, Busy, Steps
<1>2. /\ Found(r) \in window[r] /\ Found(r) \in Docs \cup {NoDoc}
      /\ asked[r].kind = "uv_config"
  BY <1>1, JustifiedThread DEF UvConfig, JustifiedFor
<1>3. CASE Found(r) = NoDoc /\ Respond(r, "error", NoDoc)
  <2>1. [kind |-> "error", doc |-> NoDoc]
          \in Promise!PromisedAnswers(asked[r], window[r])
    BY <1>2, <1>3, PromisedUv
  <2>2. QED
    BY <1>1, <1>3, <2>1, RespondKeepsJustified DEF AnswerKinds
<1>4. ASSUME Found(r) # NoDoc,
             Respond(r, uv_config(asked[r].visitor, Found(r).visibility), Found(r))
      PROVE  Justified'
  <2>1. [kind |-> uv_config(asked[r].visitor, Found(r).visibility),
         doc |-> Found(r)] \in Promise!PromisedAnswers(asked[r], window[r])
    BY <1>2, <1>4, PromisedUv
  <2>2. uv_config(asked[r].visitor, Found(r).visibility) \in AnswerKinds
    BY <1>2, <1>4, DeciderKinds DEF AnswerKinds
  <2>3. QED
    BY <1>1, <1>2, <1>4, <2>1, <2>2, RespondKeepsJustified
<1>5. QED
  BY <1>3, <1>4 DEF UvConfig

LEMMA SearchKeepsJustified ==
  ASSUME TypeInv, Justified, NEW r \in Requests, Search(r)
  PROVE  Justified'
<1>1. Busy(r) /\ UNCHANGED <<index, reindexed, asked, window>>
  BY DEF Search, Busy, Steps
<1>2. /\ Found(r) \in window[r] /\ Found(r) \in Docs \cup {NoDoc}
      /\ asked[r].kind = "search"
  BY <1>1, JustifiedThread DEF Search, JustifiedFor
<1>3. ASSUME Found(r) # NoDoc, InSearchResults(Found(r)),
             Respond(r, thumbnail_image(asked[r].visitor, Found(r)), Found(r))
      PROVE  Justified'
  <2>1. [kind |-> thumbnail_image(asked[r].visitor, Found(r)), doc |-> Found(r)]
          \in Promise!PromisedAnswers(asked[r], window[r])
    BY <1>2, <1>3, PromisedSearch
  <2>2. thumbnail_image(asked[r].visitor, Found(r)) \in AnswerKinds
    BY <1>2, <1>3, DeciderKinds DEF AnswerKinds
  <2>3. QED
    BY <1>1, <1>2, <1>3, <2>1, <2>2, RespondKeepsJustified
<1>4. ASSUME ~ (Found(r) # NoDoc /\ InSearchResults(Found(r))),
             Respond(r, "no_hit", NoDoc)
      PROVE  Justified'
  <2>1. [kind |-> "no_hit", doc |-> NoDoc]
          \in Promise!PromisedAnswers(asked[r], window[r])
    BY <1>2, <1>4, PromisedSearch
  <2>2. QED
    BY <1>1, <1>4, <2>1, RespondKeepsJustified DEF AnswerKinds
<1>5. QED
  BY <1>3, <1>4 DEF Search

LEMMA UnavailableKeepsJustified ==
  ASSUME TypeInv, Justified, NEW r \in Requests, SolrUnavailable(r)
  PROVE  Justified'
<1>1. [kind |-> "unavailable", doc |-> NoDoc]
        \in Promise!PromisedAnswers(asked[r], window[r])
  BY DEF Promise!PromisedAnswers, Promise!Answered
<1>2. QED
  BY <1>1, RespondKeepsJustified DEF SolrUnavailable, AnswerKinds

\* A request that arrives knows nothing but what the index holds now.
LEMMA ReceiveKeepsJustified ==
  ASSUME TypeInv, Justified, NEW r \in Requests, Receive(r)
  PROVE  Justified'
<1>1. PICK ask \in Ask :
        /\ asked' = [asked EXCEPT ![r] = ask]
        /\ pc' = [pc EXCEPT ![r] = FirstStep(ask.kind)]
        /\ window' = [window EXCEPT ![r] = {index[ask.id]}]
  BY DEF Receive
<1>2. /\ asked'[r] = ask /\ pc'[r] = FirstStep(ask.kind)
      /\ window'[r] = {index[ask.id]} /\ answer'[r] = NoAnswer /\ index' = index
  BY <1>1 DEF Receive, TypeInv, TypeOK
<1>3. /\ ask.kind \in Kinds /\ ask # NoAsk
      /\ FirstStep(ask.kind) \in Steps \ {"show", "render404"}
      /\ FirstStep(ask.kind) = "enforce_show_permissions" <=> ask.kind = "show"
      /\ FirstStep(ask.kind) \in {"uv_config", "search"}
           => FirstStep(ask.kind) = ask.kind
  BY SentinelAssumption DEF Ask, Kinds, FirstStep, Steps
<1>4. JustifiedFor(r)'
  BY <1>2, <1>3 DEF JustifiedFor, Busy, Found
<1>5. ASSUME NEW s \in Requests, s # r PROVE JustifiedFor(s)'
  <2>1. /\ answer'[s] = answer[s] /\ pc'[s] = pc[s]
        /\ asked'[s] = asked[s] /\ window'[s] = window[s] /\ index' = index
    BY <1>1, <1>5 DEF Receive, TypeInv, TypeOK
  <2>2. JustifiedFor(s)
    BY DEF Justified
  <2>3. QED
    BY <2>1, <2>2 DEF JustifiedFor, Busy, Found
<1>6. QED
  BY <1>4, <1>5 DEF Justified

\* A change of the index reaches the windows of the threads at work on the
\* id, and takes nothing out of any window.
LEMMA ReindexKeepsJustified ==
  ASSUME TypeInv, Justified, NEW id \in Ids, NEW d \in Docs \cup {NoDoc},
         Reindex(id, d)
  PROVE  Justified'
<1> SUFFICES ASSUME NEW r \in Requests PROVE JustifiedFor(r)'
  BY DEF Justified
<1>1. JustifiedFor(r)
  BY DEF Justified
<1>2. /\ asked'[r] = asked[r] /\ pc'[r] = pc[r] /\ answer'[r] = answer[r]
      /\ window[r] \subseteq window'[r]
  BY DEF Reindex
<1>3. Busy(r) => Found(r)' \in window'[r]
  <2>1. CASE Busy(r) /\ asked[r].id = id
    BY <2>1, <1>2 DEF Reindex, Found, TypeInv, TypeOK
  <2>2. CASE Busy(r) /\ asked[r].id # id
    <3>1. index'[asked[r].id] = index[asked[r].id]
      BY <2>2 DEF Reindex, TypeInv, TypeOK
    <3>2. QED
      BY <2>2, <3>1, <1>1, <1>2 DEF Found, JustifiedFor
  <2>3. QED
    BY <2>1, <2>2
<1>4. ~ Busy(r) => window'[r] = window[r]
  BY DEF Reindex
<1>5. QED
  BY <1>1, <1>2, <1>3, <1>4 DEF JustifiedFor, Busy

LEMMA JustifiedStep ==
  TypeInv /\ Justified /\ [Next]_vars => Justified'
<1> SUFFICES ASSUME TypeInv, Justified, [Next]_vars PROVE Justified'
  OBVIOUS
<1>1. ASSUME NEW r \in Requests, Receive(r) PROVE Justified'
  BY <1>1, ReceiveKeepsJustified
<1>2. ASSUME NEW r \in Requests, Work(r) PROVE Justified'
  BY <1>2, EnforceKeepsJustified, ShowKeepsJustified, Render404KeepsJustified,
     UvConfigKeepsJustified, SearchKeepsJustified, UnavailableKeepsJustified
  DEF Work, Serve
<1>3. ASSUME NEW id \in Ids, NEW d \in Docs \cup {NoDoc}, Reindex(id, d)
      PROVE  Justified'
  BY <1>3, ReindexKeepsJustified
<1>4. CASE UNCHANGED vars
  BY <1>4 DEF vars, Justified, JustifiedFor, Busy, Found,
              Promise!PromisedAnswers
<1>5. QED
  BY <1>1, <1>2, <1>3, <1>4 DEF Next

LEMMA Justification == Spec => []Justified
<1>1. Init => Justified
  BY DEF Init, Justified, JustifiedFor, Busy, Steps
<1>2. QED
  BY <1>1, JustifiedStep, TypeInvariant, PTL DEF Spec

(***************************************************************************)
(* Every state is well typed, and every answer rests on documents that the *)
(* index held for the id during the request, however the threads and       *)
(* Curate interleave.                                                      *)
(***************************************************************************)
THEOREM AnswersAreJustified == Spec => []RequestInv
BY Typing, Justification, PTL DEF RequestInv

----------------------------------------------------------------------------
(***************************************************************************)
(* The refinement.  A thread's last step is the promise's Reply, its       *)
(* arrival the promise's Arrive, and every other step of a thread is       *)
(* invisible to the promise.                                               *)
(***************************************************************************)
LEMMA PendingIsBusy ==
  ASSUME Justified, NEW r \in Requests
  PROVE  Promise!Pending(r) <=> Busy(r)
  BY DEF Justified, JustifiedFor, Promise!Pending

LEMMA WorkIsReplyOrStutter ==
  ASSUME TypeInv, Justified, Justified', NEW r \in Requests, Work(r)
  PROVE  Promise!Reply(r) \/ UNCHANGED Promise!vars
<1>1. /\ Busy(r)
      /\ UNCHANGED <<index, reindexed, asked, window>>
      /\ \/ UNCHANGED answer
         \/ \E kind, doc : Respond(r, kind, doc)
  BY DEF Work, Serve, EnforceShowPermissions, Show, Render404, UvConfig, Search,
         SolrUnavailable, Busy, Steps, Continue
<1>2. CASE UNCHANGED answer
  BY <1>1, <1>2 DEF Promise!vars
<1>3. ASSUME NEW kind, NEW doc, Respond(r, kind, doc)
      PROVE  Promise!Reply(r)
  <2>1. /\ answer' = [answer EXCEPT ![r] = answer'[r]]
        /\ pc'[r] = "idle"
    BY <1>3 DEF Respond, TypeInv, TypeOK
  <2>2. answer'[r] \in Promise!PromisedAnswers(asked[r], window[r])
    <3>1. JustifiedFor(r)' /\ ~ Busy(r)' /\ asked'[r] # NoAsk
      BY <1>1, <2>1 DEF Justified, TypeInv, Busy, Steps
    <3>2. QED
      BY <1>1, <3>1 DEF JustifiedFor
  <2>3. QED
    BY <1>1, <2>1, <2>2, PendingIsBusy DEF Promise!Reply
<1>4. QED
  BY <1>1, <1>2, <1>3

LEMMA ReceiveIsArrive ==
  ASSUME TypeInv, Justified, NEW r \in Requests, Receive(r)
  PROVE  Promise!Arrive(r)
<1>1. ~ Promise!Pending(r)
  BY PendingIsBusy DEF Receive, Busy, Steps
<1>2. Ask = Promise!Ask
  BY DEF Ask, Kinds, Promise!Ask
<1>3. QED
  BY <1>1, <1>2 DEF Receive, Promise!Arrive

LEMMA ReindexIsReindex ==
  ASSUME Justified, NEW id \in Ids, NEW d \in Docs \cup {NoDoc}, Reindex(id, d)
  PROVE  Promise!Reindex(id, d)
<1>1. \A r \in Requests : Promise!Pending(r) <=> Busy(r)
  BY PendingIsBusy
<1>2. window' = [r \in Requests |->
         window[r] \cup {e \in {d} : Promise!Pending(r) /\ asked[r].id = id}]
  BY <1>1 DEF Reindex
<1>3. QED
  BY <1>2 DEF Reindex, Promise!Reindex

(***************************************************************************)
(* CatalogAccess implements AccessPromise.                                 *)
(***************************************************************************)
THEOREM CatalogImplementsPromise == Spec => ImplementsPromise
<1>1. Init => Promise!Init
  BY DEF Init, Promise!Init
<1>2. TypeInv /\ Justified /\ Justified' /\ [Next]_vars
        => [Promise!Next]_(Promise!vars)
  <2> SUFFICES ASSUME TypeInv, Justified, Justified', [Next]_vars
               PROVE  [Promise!Next]_(Promise!vars)
    OBVIOUS
  <2>1. ASSUME NEW r \in Requests, Receive(r) PROVE Promise!Next
    BY <2>1, ReceiveIsArrive DEF Promise!Next
  <2>2. ASSUME NEW r \in Requests, Work(r)
        PROVE  [Promise!Next]_(Promise!vars)
    BY <2>2, WorkIsReplyOrStutter DEF Promise!Next
  <2>3. ASSUME NEW id \in Ids, NEW d \in Docs \cup {NoDoc}, Reindex(id, d)
        PROVE  Promise!Next
    BY <2>3, ReindexIsReindex DEF Promise!Next
  <2>4. CASE UNCHANGED vars
    BY <2>4 DEF vars, Promise!vars
  <2>5. QED
    BY <2>1, <2>2, <2>3, <2>4 DEF Next
<1>3. QED
  BY <1>1, <1>2, TypeInvariant, Justification, PTL
  DEF Spec, ImplementsPromise, Promise!Spec

----------------------------------------------------------------------------
(***************************************************************************)
(* What a justified answer says when the index held one document, and      *)
(* nothing else, throughout the request.                                   *)
(***************************************************************************)
LEMMA StableAsk ==
  ASSUME TypeInv, NEW r \in Requests, NEW kind, NEW d,
         Done(r, kind), Saw(r, d)
  PROVE  /\ d \in Docs /\ d \in Document /\ CurateIndexed(d)
         /\ asked[r] \in Ask /\ asked[r].visitor \in Visitor
         /\ asked[r].kind = kind
         /\ Promise!DocsIn(window[r]) = {d} /\ window[r] \cap {NoDoc} = {}
<1>1. d \in Docs
  BY DEF TypeInv, TypeOK, Saw
<1>2. asked[r] \in Ask /\ asked[r].visitor \in Visitor
  BY CatalogAssumption DEF TypeInv, TypeOK, Done, Ask
<1>3. QED
  BY <1>1, <1>2, CatalogAssumption DEF Saw, Done, Promise!DocsIn

LEMMA StableShow ==
  ASSUME TypeInv, Justified, NEW r \in Requests, NEW d,
         Done(r, "show"), Saw(r, d), d.renders
  PROVE  /\ test_read(asked[r].visitor, d) => answer[r].kind = "page"
         /\ ~ test_read(asked[r].visitor, d)
              => answer[r].kind = Refusal(d.visibility)
<1>1. /\ Promise!DocsIn(window[r]) = {d} /\ window[r] \cap {NoDoc} = {}
      /\ asked[r].kind = "show"
  BY StableAsk
<1>2. answer[r] \in Promise!PromisedAnswers(asked[r], window[r])
  BY DEF Justified, JustifiedFor, Done
<1>3. answer[r] # Promise!Answered("unavailable", NoDoc)
  BY DEF Done, Promise!Answered
<1>4. answer[r] \in Promise!ShowAnswers(asked[r].visitor, window[r])
  BY <1>1, <1>2, <1>3 DEF Promise!PromisedAnswers
<1>5. \/ answer[r] = Promise!Answered("page", d)
           /\ Promise!test_read(asked[r].visitor, d)
      \/ answer[r] = Promise!Answered(Promise!Refusal(d.visibility), NoDoc)
           /\ ~ Promise!test_read(asked[r].visitor, d)
  BY <1>1, <1>4 DEF Promise!ShowAnswers
<1>6. QED
  BY <1>5, PromiseDeciders DEF Promise!Answered

LEMMA StableUv ==
  ASSUME TypeInv, Justified, NEW r \in Requests, NEW d,
         Done(r, "uv_config"), Saw(r, d)
  PROVE  answer[r].kind = uv_config(asked[r].visitor, d.visibility)
<1>1. /\ Promise!DocsIn(window[r]) = {d} /\ window[r] \cap {NoDoc} = {}
      /\ asked[r].kind = "uv_config"
  BY StableAsk
<1>2. answer[r] \in Promise!PromisedAnswers(asked[r], window[r])
  BY DEF Justified, JustifiedFor, Done
<1>3. answer[r] # Promise!Answered("unavailable", NoDoc)
  BY DEF Done, Promise!Answered
<1>4. answer[r] \in Promise!UvAnswers(asked[r].visitor, window[r])
  BY <1>1, <1>2, <1>3 DEF Promise!PromisedAnswers
<1>5. QED
  BY <1>1, <1>4, PromiseDeciders DEF Promise!UvAnswers, Promise!Answered

LEMMA StableSearch ==
  ASSUME TypeInv, Justified, NEW r \in Requests, NEW d,
         Done(r, "search"), Saw(r, d), answer[r].kind # "no_hit"
  PROVE  /\ answer[r].kind = thumbnail_image(asked[r].visitor, d)
         /\ d.visibility # "restricted"
<1>1. /\ Promise!DocsIn(window[r]) = {d} /\ window[r] \cap {NoDoc} = {}
      /\ asked[r].kind = "search"
  BY StableAsk
<1>2. answer[r] \in Promise!PromisedAnswers(asked[r], window[r])
  BY DEF Justified, JustifiedFor, Done
<1>3. /\ answer[r] # Promise!Answered("unavailable", NoDoc)
      /\ answer[r] # Promise!Answered("no_hit", NoDoc)
  BY DEF Done, Promise!Answered
<1>4. answer[r] \in Promise!SearchAnswers(asked[r].visitor, window[r])
  BY <1>1, <1>2, <1>3 DEF Promise!PromisedAnswers
<1>5. /\ answer[r] = Promise!Answered(
                        Promise!thumbnail_image(asked[r].visitor, d), d)
      /\ Promise!InSearchResults(d)
  BY <1>1, <1>3, <1>4 DEF Promise!SearchAnswers
<1>6. QED
  BY <1>5, PromiseDeciders DEF Promise!Answered, InSearchResults

\* The deciders on one document as Curate indexes it.
LEMMA DecidersAgree ==
  ASSUME NEW v \in Visitor, NEW d \in Document, CurateIndexed(d)
  PROVE  /\ ~ test_read(v, d) =>
              /\ d.visibility \in {"authenticated", "emory_low"} /\ ~ SignedIn(v)
                   <=> Refusal(d.visibility) = "login"
              /\ Refusal(d.visibility) # "login"
                   <=> Refusal(d.visibility) = "reading_room"
         /\ uv_config(v, d.visibility) \in {"liberal", "liberal_low"}
              <=> /\ test_read(v, d)
                  /\ d.visibility \in {"open", "authenticated", "emory_low"}
         /\ d.visibility # "restricted" =>
              /\ thumbnail_image(v, d) = "thumbnail" <=> test_read(v, d)
              /\ thumbnail_image(v, d) = "login_required"
                   <=> ~ test_read(v, d) /\ Refusal(d.visibility) = "login"
              /\ thumbnail_image(v, d) = "reading_room_only"
                   <=> ~ test_read(v, d) /\ Refusal(d.visibility) = "reading_room"
<1>1. test_read(v, d) <=> MayRead(v, d.visibility)
  BY CurateDecides
<1>2. d.visibility \in Visibilities
  BY DEF Document
<1>3. /\ "rose_high" \in user_groups(v) <=> v.ip \in RoseIps
      /\ "irish_partner" \in user_groups(v) <=> v.ip \in IrishIps
  BY DEF user_groups, default_user_groups
<1>4. CASE d.visibility \in {"open", "low_res"}
  BY <1>1, <1>4 DEF MayRead, Refusal, uv_config, thumbnail_image
<1>5. CASE d.visibility \in {"authenticated", "emory_low"}
  BY <1>1, <1>5 DEF MayRead, Refusal, uv_config, thumbnail_image
<1>6. CASE d.visibility \in {"rose_high", "irish_partner"}
  BY <1>1, <1>3, <1>6 DEF MayRead, Refusal, uv_config, thumbnail_image
<1>7. CASE d.visibility = "restricted"
  BY <1>1, <1>7 DEF MayRead, Refusal, uv_config
<1>8. QED
  BY <1>2, <1>4, <1>5, <1>6, <1>7 DEF Visibilities

(***************************************************************************)
(* The show page of an unchanged work is served to exactly its readers.    *)
(***************************************************************************)
THEOREM PageIsForReaders == Spec => []PageExactlyForReaders
<1>1. TypeInv /\ Justified => PageExactlyForReaders
  <2> SUFFICES ASSUME TypeInv, Justified, NEW r \in Requests, NEW d \in window[r],
                      Done(r, "show"), Saw(r, d), d.renders
               PROVE  answer[r].kind = "page"
                        <=> MayRead(asked[r].visitor, d.visibility)
    BY DEF PageExactlyForReaders
  <2>1. test_read(asked[r].visitor, d) <=> MayRead(asked[r].visitor, d.visibility)
    BY StableAsk, CurateDecides
  <2>2. Refusal(d.visibility) # "page"
    BY StableAsk, DeciderKinds
  <2>3. QED
    BY <2>1, <2>2, StableShow
<1>2. QED
  BY <1>1, TypeInvariant, Justification, PTL

(***************************************************************************)
(* The login page is offered only where logging in helps.                  *)
(***************************************************************************)
THEOREM LoginIsOfUse == Spec => []LoginHelps
<1>1. TypeInv /\ Justified => LoginHelps
  <2> SUFFICES ASSUME TypeInv, Justified, NEW r \in Requests, NEW d \in window[r],
                      Done(r, "show"), Saw(r, d), d.renders,
                      answer[r].kind = "login"
               PROVE  /\ ~ SignedIn(asked[r].visitor)
                      /\ \A p \in Persons :
                           test_read([asked[r].visitor EXCEPT !.user = p], d)
    BY DEF LoginHelps
  <2>1. ~ test_read(asked[r].visitor, d) /\ Refusal(d.visibility) = "login"
    BY StableShow
  <2>2. /\ d.visibility \in {"authenticated", "emory_low"}
        /\ ~ SignedIn(asked[r].visitor)
    BY <2>1, StableAsk, DecidersAgree
  <2>3. ASSUME NEW p \in Persons
        PROVE  test_read([asked[r].visitor EXCEPT !.user = p], d)
    <3> DEFINE v == [asked[r].visitor EXCEPT !.user = p]
    <3>1. v \in Visitor /\ v.user = p
      BY StableAsk DEF Visitor
    <3>2. MayRead(v, d.visibility)
      BY <2>2, <3>1, PeopleAssumption DEF MayRead, SignedIn
    <3>3. QED
      BY <3>1, <3>2, StableAsk, CurateDecides
  <2>4. QED
    BY <2>2, <2>3
<1>2. QED
  BY <1>1, TypeInvariant, Justification, PTL

(***************************************************************************)
(* Search results and show pages agree about every unchanged work.         *)
(***************************************************************************)
THEOREM ThumbnailsTellTheTruth == Spec => []ThumbnailTellsWhereItLeads
<1>1. TypeInv /\ Justified => ThumbnailTellsWhereItLeads
  <2> SUFFICES ASSUME TypeInv, Justified, NEW r \in Requests, NEW s \in Requests,
                      NEW d \in window[r],
                      Done(r, "search"), answer[r].kind # "no_hit",
                      Done(s, "show"), SameQuestion(r, s),
                      Saw(r, d), Saw(s, d), d.renders
               PROVE  /\ answer[r].kind = "thumbnail"
                           <=> answer[s].kind = "page"
                      /\ answer[r].kind = "login_required"
                           <=> answer[s].kind = "login"
                      /\ answer[r].kind = "reading_room_only"
                           <=> answer[s].kind = "reading_room"
    BY DEF ThumbnailTellsWhereItLeads
  <2> DEFINE v == asked[r].visitor
  <2>1. /\ v \in Visitor /\ d \in Docs /\ d \in Document /\ CurateIndexed(d)
        /\ asked[s].visitor = v
    BY StableAsk DEF SameQuestion
  <2>2. /\ answer[r].kind = thumbnail_image(v, d)
        /\ d.visibility # "restricted"
    BY StableSearch
  <2>3. /\ test_read(v, d) => answer[s].kind = "page"
        /\ ~ test_read(v, d) => answer[s].kind = Refusal(d.visibility)
    BY <2>1, StableShow
  <2>4. Refusal(d.visibility) # "page"
    BY <2>1, DeciderKinds
  <2>5. QED
    BY <2>1, <2>2, <2>3, <2>4, DecidersAgree
<1>2. QED
  BY <1>1, TypeInvariant, Justification, PTL

(***************************************************************************)
(* The viewer and the show page agree about every unchanged work.          *)
(***************************************************************************)
THEOREM DownloadsNeedThePage == Spec => []DownloadsOnlyWithPage
<1>1. TypeInv /\ Justified => DownloadsOnlyWithPage
  <2> SUFFICES ASSUME TypeInv, Justified, NEW r \in Requests, NEW s \in Requests,
                      NEW d \in window[r],
                      Done(r, "uv_config"), Done(s, "show"), SameQuestion(r, s),
                      Saw(r, d), Saw(s, d), d.renders
               PROVE  answer[r].kind \in {"liberal", "liberal_low"}
                        <=> /\ answer[s].kind = "page"
                            /\ d.visibility
                                 \in {"open", "authenticated", "emory_low"}
    BY DEF DownloadsOnlyWithPage
  <2> DEFINE v == asked[r].visitor
  <2>1. /\ v \in Visitor /\ d \in Docs /\ d \in Document /\ CurateIndexed(d)
        /\ asked[s].visitor = v
    BY StableAsk DEF SameQuestion
  <2>2. answer[r].kind = uv_config(v, d.visibility)
    BY StableUv
  <2>3. /\ test_read(v, d) => answer[s].kind = "page"
        /\ ~ test_read(v, d) => answer[s].kind = Refusal(d.visibility)
    BY <2>1, StableShow
  <2>4. Refusal(d.visibility) # "page"
    BY <2>1, DeciderKinds
  <2>5. QED
    BY <2>1, <2>2, <2>3, <2>4, DecidersAgree
<1>2. QED
  BY <1>1, TypeInvariant, Justification, PTL
============================================================================
