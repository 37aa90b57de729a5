------------------------ MODULE PersistentUrl_proofs ------------------------
(***************************************************************************)
(* The properties of PersistentUrl, for any number of names, documents and *)
(* browsers, and any bound on the changes of the index.                    *)
(***************************************************************************)
EXTENDS PersistentUrl, SequenceTheorems, TLAPS

\* A window only gets longer.
LEMMA WindowGrows ==
  ASSUME NEW w \in Seq(Index), NEW ix \in Index
  PROVE  LET v == Append(w, ix) IN
         /\ v \in Seq(Index) /\ Len(v) = Len(w) + 1 /\ v[Len(v)] = ix
         /\ DOMAIN w \subseteq DOMAIN v
         /\ \A i \in DOMAIN w : v[i] = w[i]
BY AppendProperties

\* The promise in the words of this module.
LEMMA FoundMeans ==
  ASSUME NEW w, NEW name, NEW id, NEW k
  PROVE  Promise!FoundAt(w, name, id, k) <=>
           \/ id = name /\ HasId(w[k], name)
           \/ id \in Carriers(w[k], name) /\ \E i \in 1..k : ~ HasId(w[i], name)
BY DEF Promise!FoundAt, Promise!HasId, Promise!Carriers, HasId, Carriers

LEMMA PromisedMeans ==
  ASSUME NEW w, NEW name, NEW a
  PROVE  a \in Promise!PromisedAnswers(name, w) <=>
           \/ a = [kind |-> "unavailable", id |-> NoName]
           \/ /\ a = [kind |-> "not_found", id |-> NoName]
              /\ \E j \in DOMAIN w : /\ Carriers(w[j], name) = {}
                                     /\ \E i \in 1..j : ~ HasId(w[i], name)
           \/ \E id \in Names : \E j \in DOMAIN w : \E i \in 1..j :
                /\ a = [kind |-> "page", id |-> id]
                /\ Promise!FoundAt(w, name, id, i) /\ HasId(w[j], id)
           \/ \E id \in Names : \E j \in DOMAIN w : \E i \in 1..j :
                /\ a = [kind |-> "missing", id |-> id]
                /\ Promise!FoundAt(w, name, id, i) /\ ~ HasId(w[j], id)
BY DEF Promise!PromisedAnswers, Promise!Answered, Promise!HasId, Promise!Carriers,
       HasId, Carriers

\* What was found stays found.
LEMMA FoundStays ==
  ASSUME NEW w \in Seq(Index), NEW ix \in Index, NEW name, NEW id,
         NEW i \in DOMAIN w, Promise!FoundAt(w, name, id, i)
  PROVE  Promise!FoundAt(Append(w, ix), name, id, i)
<1> DEFINE v == Append(w, ix)
<1>1. \A k \in DOMAIN w : v[k] = w[k]
  BY WindowGrows
<1>2. 1..i \subseteq DOMAIN w
  BY LenProperties
<1> HIDE DEF v
<1>3. Promise!FoundAt(v, name, id, i)
  BY <1>1, <1>2, FoundMeans
<1> QED BY <1>3 DEF v

----------------------------------------------------------------------------
LEMMA RespondTyped ==
  ASSUME TypeOK, NEW r \in Requests,
         NEW kind \in {"page", "missing", "not_found", "unavailable"},
         NEW id \in Names \cup {NoName}, Respond(r, kind, id),
         UNCHANGED <<index, reindexed, asked, window>>
  PROVE  TypeOK'
<1>1. [kind |-> kind, id |-> id] \in Answer BY DEF Answer
<1> QED BY <1>1 DEF TypeOK, Respond

LEMMA RedirectTyped ==
  ASSUME TypeOK, NEW r \in Requests, NEW id \in Names, RedirectToShow(r, id),
         UNCHANGED <<index, reindexed, asked, window>>
  PROVE  TypeOK'
BY DEF TypeOK, RedirectToShow, Steps

LEMMA BusyAsked ==
  ASSUME TypeOK, Justified, NEW r \in Requests, Busy(r)
  PROVE  asked[r] \in Names
BY DEF TypeOK, Justified, JustifiedFor

LEMMA TypingStep ==
  ASSUME TypeOK, Justified, [Next]_vars
  PROVE  TypeOK'
<1>1. ASSUME NEW r \in Requests, NEW name \in Names, Follow(r, name)
      PROVE  TypeOK'
  <2>1. <<index>> \in Seq(Index) BY DEF TypeOK
  <2> QED BY <1>1, <2>1 DEF Follow, TypeOK, Steps
<1>2. ASSUME NEW r \in Requests, DirectLookup(r)
      PROVE  TypeOK'
  <2>1. asked[r] \in Names
    BY <1>2, BusyAsked DEF DirectLookup, Busy, Steps
  <2>2. CASE HasId(index, asked[r]) /\ RedirectToShow(r, asked[r])
    BY <1>2, <2>1, <2>2, RedirectTyped DEF DirectLookup
  <2>3. CASE pc' = [pc EXCEPT ![r] = "purl_lookup"] /\ UNCHANGED <<target, answer>>
    BY <1>2, <2>3 DEF DirectLookup, TypeOK, Steps
  <2> QED BY <1>2, <2>2, <2>3 DEF DirectLookup
<1>3. ASSUME NEW r \in Requests, PurlLookup(r)
      PROVE  TypeOK'
  <2>1. ASSUME NEW id \in Carriers(index, asked[r]), RedirectToShow(r, id)
        PROVE  TypeOK'
    <3>1. id \in Names BY DEF Carriers
    <3> QED BY <1>3, <2>1, <3>1, RedirectTyped DEF PurlLookup
  <2>2. CASE Respond(r, "not_found", NoName)
    BY <1>3, <2>2, RespondTyped DEF PurlLookup
  <2> QED BY <1>3, <2>1, <2>2 DEF PurlLookup
<1>4. ASSUME NEW r \in Requests, Show(r)
      PROVE  TypeOK'
  <2>1. target[r] \in Names \cup {NoName} BY DEF TypeOK
  <2> QED BY <1>4, <2>1, RespondTyped DEF Show
<1>5. ASSUME NEW r \in Requests, SolrUnavailable(r)
      PROVE  TypeOK'
  BY <1>5, RespondTyped DEF SolrUnavailable
<1>6. ASSUME NEW id \in Names, NEW entry \in Entries \cup {NoDoc}, Reindex(id, entry)
      PROVE  TypeOK'
  <2>1. index' \in Index BY <1>6 DEF Reindex, TypeOK, Index
  <2>2. reindexed' \in 0..MaxReindex BY <1>6, PurlAssumption DEF Reindex, TypeOK
  <2>3. \A r \in Requests : window'[r] \in Seq(Index)
    <3>1. ASSUME NEW r \in Requests
          PROVE  Append(window[r], index') \in Seq(Index)
      BY <2>1, WindowGrows DEF TypeOK
    <3> QED BY <1>6, <3>1 DEF Reindex, TypeOK
  <2>4. window' \in [Requests -> Seq(Index)]
    BY <1>6, <2>3 DEF Reindex
  <2> QED BY <1>6, <2>1, <2>2, <2>4 DEF Reindex, TypeOK
<1>7. CASE UNCHANGED vars
  BY <1>7 DEF vars, TypeOK
<1> QED BY <1>1, <1>2, <1>3, <1>4, <1>5, <1>6, <1>7 DEF Next, Serve

----------------------------------------------------------------------------
\* What other requests have established is not touched by a step of one.
LEMMA OthersJustified ==
  ASSUME TypeOK, Justified, NEW r \in Requests,
         index' = index,
         \A s \in Requests \ {r} :
           /\ asked'[s] = asked[s] /\ pc'[s] = pc[s] /\ target'[s] = target[s]
           /\ answer'[s] = answer[s] /\ window'[s] = window[s],
         JustifiedFor(r)'
  PROVE  Justified'
<1> SUFFICES ASSUME NEW s \in Requests, s # r
             PROVE  JustifiedFor(s)'
  BY DEF Justified
<1>1. JustifiedFor(s) BY DEF Justified
<1> QED BY <1>1 DEF JustifiedFor, Busy

\* An answer that the promise allows.
LEMMA RespondJustified ==
  ASSUME TypeOK, Justified, NEW r \in Requests, Busy(r),
         NEW kind \in {"page", "missing", "not_found", "unavailable"},
         NEW id \in Names \cup {NoName}, Respond(r, kind, id),
         UNCHANGED <<index, reindexed, asked, window>>,
         [kind |-> kind, id |-> id] \in Promise!PromisedAnswers(asked[r], window[r])
  PROVE  Justified'
<1>1. /\ pc'[r] = "idle" /\ answer'[r] = [kind |-> kind, id |-> id]
      /\ asked' = asked /\ window' = window
  BY DEF Respond, TypeOK
<1>2. answer'[r] # NoAnswer
  BY <1>1, NoAnswerAssumption DEF Answer
<1>3. JustifiedFor(r)'
  BY <1>1, <1>2 DEF JustifiedFor, Busy, Steps
<1>4. \A s \in Requests \ {r} :
        /\ asked'[s] = asked[s] /\ pc'[s] = pc[s] /\ target'[s] = target[s]
        /\ answer'[s] = answer[s] /\ window'[s] = window[s]
  BY DEF Respond, TypeOK
<1> QED BY <1>3, <1>4, OthersJustified

\* A redirect to a document that has been found.
LEMMA RedirectJustified ==
  ASSUME TypeOK, Justified, NEW r \in Requests, Busy(r),
         NEW id \in Names, RedirectToShow(r, id),
         UNCHANGED <<index, reindexed, asked, window>>,
         NEW i \in DOMAIN window[r], Promise!FoundAt(window[r], asked[r], id, i)
  PROVE  Justified'
<1>0. JustifiedFor(r) BY DEF Justified
<1>1. /\ pc'[r] = "show" /\ target'[r] = id /\ answer' = answer
      /\ asked' = asked /\ window' = window /\ index' = index
  BY DEF RedirectToShow, TypeOK
<1>2. JustifiedFor(r)'
  BY <1>0, <1>1 DEF JustifiedFor, Busy, Steps
<1>4. \A s \in Requests \ {r} :
        /\ asked'[s] = asked[s] /\ pc'[s] = pc[s] /\ target'[s] = target[s]
        /\ answer'[s] = answer[s] /\ window'[s] = window[s]
  BY DEF RedirectToShow, TypeOK
<1> QED BY <1>1, <1>2, <1>4, OthersJustified

\* The last moment of the window is now.
LEMMA Now ==
  ASSUME TypeOK, Justified, NEW r \in Requests, Busy(r)
  PROVE  /\ Len(window[r]) \in DOMAIN window[r]
         /\ window[r][Len(window[r])] = index
         /\ \A i \in DOMAIN window[r] : i \in 1..Len(window[r])
         /\ \A i \in 1..Len(window[r]) : i \in DOMAIN window[r]
<1>1. window[r] \in Seq(Index) BY DEF TypeOK
<1>2. Len(window[r]) > 0 /\ window[r][Len(window[r])] = index
  BY DEF Justified, JustifiedFor
<1>3. Len(window[r]) \in Nat /\ DOMAIN window[r] = 1..Len(window[r])
  BY <1>1, LenProperties
<1> QED BY <1>2, <1>3

LEMMA JustifiedStep ==
  ASSUME TypeOK, Justified, [Next]_vars
  PROVE  Justified'
<1>1. ASSUME NEW r \in Requests, NEW name \in Names, Follow(r, name)
      PROVE  Justified'
  <2>1. /\ pc'[r] = "direct_lookup" /\ asked'[r] = name /\ answer'[r] = NoAnswer
        /\ window'[r] = <<index>> /\ index' = index
    BY <1>1 DEF Follow, TypeOK
  <2>2. JustifiedFor(r)'
    BY <2>1, PurlAssumption DEF JustifiedFor, Busy, Steps
  <2>3. \A s \in Requests \ {r} :
          /\ asked'[s] = asked[s] /\ pc'[s] = pc[s] /\ target'[s] = target[s]
          /\ answer'[s] = answer[s] /\ window'[s] = window[s]
    BY <1>1 DEF Follow, TypeOK
  <2> QED BY <2>1, <2>2, <2>3, OthersJustified
<1>2. ASSUME NEW r \in Requests, DirectLookup(r)
      PROVE  Justified'
  <2>0. Busy(r) /\ asked[r] \in Names
    BY <1>2, BusyAsked DEF DirectLookup, Busy, Steps
  <2> DEFINE k == Len(window[r])
  <2>1. k \in DOMAIN window[r] /\ window[r][k] = index
    BY <2>0, Now
  <2>2. CASE HasId(index, asked[r]) /\ RedirectToShow(r, asked[r])
    <3>1. Promise!FoundAt(window[r], asked[r], asked[r], k)
      BY <2>1, <2>2, FoundMeans
    <3> HIDE DEF k
    <3> QED BY <1>2, <2>0, <2>1, <2>2, <3>1, RedirectJustified DEF DirectLookup
  <2>3. CASE ~ HasId(index, asked[r]) /\ pc' = [pc EXCEPT ![r] = "purl_lookup"]
             /\ UNCHANGED <<target, answer>>
    <3>0. JustifiedFor(r) BY DEF Justified
    <3>1. /\ pc'[r] = "purl_lookup" /\ index' = index /\ asked' = asked
          /\ window' = window /\ answer' = answer
      BY <1>2, <2>3 DEF DirectLookup, TypeOK
    <3>2. JustifiedFor(r)'
      BY <2>0, <2>1, <2>3, <3>0, <3>1 DEF JustifiedFor, Busy, Steps
    <3>3. \A s \in Requests \ {r} :
            /\ asked'[s] = asked[s] /\ pc'[s] = pc[s] /\ target'[s] = target[s]
            /\ answer'[s] = answer[s] /\ window'[s] = window[s]
      BY <1>2, <2>3 DEF DirectLookup, TypeOK
    <3> QED BY <3>1, <3>2, <3>3, OthersJustified
  <2> QED BY <1>2, <2>2, <2>3 DEF DirectLookup
<1>3. ASSUME NEW r \in Requests, PurlLookup(r)
      PROVE  Justified'
  <2>0. Busy(r)
    BY <1>3 DEF PurlLookup, Busy, Steps
  <2> DEFINE k == Len(window[r])
  <2>1. k \in DOMAIN window[r] /\ window[r][k] = index
    BY <2>0, Now
  <2>2. \E i \in 1..k : ~ HasId(window[r][i], asked[r])
    BY <1>3, <2>0, Now DEF PurlLookup, Justified, JustifiedFor
  <2> HIDE DEF k
  <2>3. ASSUME NEW id \in Carriers(index, asked[r]), RedirectToShow(r, id)
        PROVE  Justified'
    <3>1. id \in Names BY DEF Carriers
    <3>2. Promise!FoundAt(window[r], asked[r], id, k)
      BY <2>1, <2>2, <2>3, FoundMeans
    <3> QED BY <1>3, <2>0, <2>1, <2>3, <3>1, <3>2, RedirectJustified DEF PurlLookup
  <2>4. CASE Carriers(index, asked[r]) = {} /\ Respond(r, "not_found", NoName)
    <3>1. [kind |-> "not_found", id |-> NoName]
            \in Promise!PromisedAnswers(asked[r], window[r])
      BY <2>1, <2>2, <2>4, PromisedMeans
    <3> QED BY <1>3, <2>0, <2>4, <3>1, RespondJustified DEF PurlLookup
  <2> QED BY <1>3, <2>3, <2>4 DEF PurlLookup
<1>4. ASSUME NEW r \in Requests, Show(r)
      PROVE  Justified'
  <2>0. Busy(r)
    BY <1>4 DEF Show, Busy, Steps
  <2> DEFINE k == Len(window[r])
             w == window[r]
  <2>1. k \in DOMAIN w /\ w[k] = index /\ \A i \in DOMAIN w : i \in 1..k
    BY <2>0, Now
  <2>2. target[r] \in Names /\ \E i \in DOMAIN w : Promise!FoundAt(w, asked[r], target[r], i)
    BY <1>4 DEF Show, Justified, JustifiedFor
  <2> HIDE DEF k
  <2>3. \E i \in 1..k : Promise!FoundAt(w, asked[r], target[r], i)
    BY <2>1, <2>2
  <2>4. CASE HasId(index, target[r])
    <3>1. [kind |-> "page", id |-> target[r]] \in Promise!PromisedAnswers(asked[r], w)
      BY <2>1, <2>2, <2>3, <2>4, PromisedMeans
    <3>2. Respond(r, "page", target[r])
      BY <1>4, <2>4 DEF Show
    <3> QED BY <1>4, <2>0, <2>2, <3>1, <3>2, RespondJustified DEF Show
  <2>5. CASE ~ HasId(index, target[r])
    <3>1. [kind |-> "missing", id |-> target[r]] \in Promise!PromisedAnswers(asked[r], w)
      BY <2>1, <2>2, <2>3, <2>5, PromisedMeans
    <3>2. Respond(r, "missing", target[r])
      BY <1>4, <2>5 DEF Show
    <3> QED BY <1>4, <2>0, <2>2, <3>1, <3>2, RespondJustified DEF Show
  <2> QED BY <2>4, <2>5
<1>5. ASSUME NEW r \in Requests, SolrUnavailable(r)
      PROVE  Justified'
  <2>1. [kind |-> "unavailable", id |-> NoName]
          \in Promise!PromisedAnswers(asked[r], window[r])
    BY PromisedMeans
  <2> QED BY <1>5, <2>1, RespondJustified DEF SolrUnavailable
<1>6. ASSUME NEW id \in Names, NEW entry \in Entries \cup {NoDoc}, Reindex(id, entry)
      PROVE  Justified'
  <2> SUFFICES ASSUME NEW r \in Requests
               PROVE  JustifiedFor(r)'
    BY DEF Justified
  <2>0. JustifiedFor(r) BY DEF Justified
  <2>1. /\ UNCHANGED <<asked, pc, target, answer>>
        /\ window'[r] = IF Busy(r) THEN Append(window[r], index') ELSE window[r]
    BY <1>6 DEF Reindex
  <2>2. CASE ~ Busy(r)
    BY <2>0, <2>1, <2>2 DEF JustifiedFor, Busy, Steps
  <2>3. CASE Busy(r)
    <3> DEFINE w == window[r]
               v == Append(w, index')
    <3>1. w \in Seq(Index) /\ index' \in Index
      BY <1>6 DEF Reindex, TypeOK, Index
    <3>2. /\ Len(v) = Len(w) + 1 /\ v[Len(v)] = index'
          /\ DOMAIN w \subseteq DOMAIN v /\ \A i \in DOMAIN w : v[i] = w[i]
      BY <3>1, WindowGrows
    <3>3. \A i \in DOMAIN w : Promise!FoundAt(w, asked[r], target[r], i) =>
            Promise!FoundAt(v, asked[r], target[r], i)
      BY <3>1, FoundStays
    <3>4. Len(v) > 0
      BY <3>1, <3>2, LenProperties
    <3>5. window'[r] = v
      BY <2>1, <2>3
    <3> HIDE DEF v
    <3> QED BY <2>0, <2>1, <2>3, <3>2, <3>3, <3>4, <3>5 DEF JustifiedFor, Busy
  <2> QED BY <2>2, <2>3
<1>7. CASE UNCHANGED vars
  BY <1>7 DEF vars, Justified, JustifiedFor, Busy
<1> QED BY <1>1, <1>2, <1>3, <1>4, <1>5, <1>6, <1>7 DEF Next, Serve

LEMMA Start ==
  ASSUME Init
  PROVE  TypeOK /\ Justified
<1>1. TypeOK
  BY PurlAssumption DEF Init, TypeOK
<1>2. Justified
  BY DEF Init, Justified, JustifiedFor, Busy, Steps
<1> QED BY <1>1, <1>2

LEMMA Justification == Spec => [](TypeOK /\ Justified)
BY Start, TypingStep, JustifiedStep, PTL DEF Spec

(***************************************************************************)
(* Every state is well typed, and every request has established what its   *)
(* next step and its answer rest on (catalog_controller.rb, purl).         *)
(***************************************************************************)
THEOREM AnswersAreJustified == Spec => []RequestInv
BY Justification, PTL DEF RequestInv

(***************************************************************************)
(* Every state is well typed.                                              *)
(***************************************************************************)
THEOREM Typing == Spec => []TypeOK
BY Justification, PTL

----------------------------------------------------------------------------
\* What an answer other than an outage rests on.
LEMMA AnswerRests ==
  ASSUME Justified, NEW r \in Requests, asked[r] # NoAsk, answer[r] # NoAnswer
  PROVE  answer[r] \in Promise!PromisedAnswers(asked[r], window[r])
BY DEF Justified, JustifiedFor

LEMMA FoundIsThere ==
  ASSUME NEW w, NEW name, NEW id, NEW k, Promise!FoundAt(w, name, id, k)
  PROVE  HasId(w[k], id)
BY FoundMeans DEF HasId, Carriers

(***************************************************************************)
(* A document that moves to a new id, with its old one as the persistent   *)
(* id, is found at every moment of the move (catalog_controller.rb, purl). *)
(***************************************************************************)
THEOREM MovesAreHarmless == Spec => []MovedDocumentsAreFound
<1>1. ASSUME TypeOK, Justified
      PROVE  MovedDocumentsAreFound
  <2> SUFFICES ASSUME NEW r \in Requests, Done(r, "not_found")
               PROVE  ~ NeverLost(window[r], asked[r])
    BY DEF MovedDocumentsAreFound
  <2> DEFINE w == window[r]
  <2>1. w \in Seq(Index) BY <1>1 DEF TypeOK
  <2>2. PICK j \in DOMAIN w : /\ Carriers(w[j], asked[r]) = {}
                              /\ \E i \in 1..j : ~ HasId(w[i], asked[r])
    BY <1>1, AnswerRests, PromisedMeans DEF Done
  <2>3. PICK i \in 1..j : ~ HasId(w[i], asked[r])
    BY <2>2
  <2>4. i \in DOMAIN w /\ j \in i..Len(w)
    BY <2>1, <2>2, <2>3, LenProperties
  <2> QED BY <2>2, <2>3, <2>4 DEF NeverLost
<1> QED BY <1>1, Justification, PTL

(***************************************************************************)
(* A redirect that leads nowhere led to a document when the lookup was     *)
(* made (catalog_controller.rb, purl and show).                            *)
(***************************************************************************)
THEOREM RedirectsWereRight == Spec => []MissingWasThere
<1>1. ASSUME TypeOK, Justified
      PROVE  MissingWasThere
  <2> SUFFICES ASSUME NEW r \in Requests, Done(r, "missing")
               PROVE  \E i, j \in DOMAIN window[r] :
                        /\ i < j /\ HasId(window[r][i], answer[r].id)
                        /\ ~ HasId(window[r][j], answer[r].id)
    BY DEF MissingWasThere
  <2> DEFINE w == window[r]
  <2>1. w \in Seq(Index) BY <1>1 DEF TypeOK
  <2>2. PICK id \in Names : \E j \in DOMAIN w : \E i \in 1..j :
          /\ answer[r] = [kind |-> "missing", id |-> id]
          /\ Promise!FoundAt(w, asked[r], id, i) /\ ~ HasId(w[j], id)
    BY <1>1, AnswerRests, PromisedMeans DEF Done
  <2>3. PICK j \in DOMAIN w : \E i \in 1..j :
          /\ answer[r] = [kind |-> "missing", id |-> id]
          /\ Promise!FoundAt(w, asked[r], id, i) /\ ~ HasId(w[j], id)
    BY <2>2
  <2>4. PICK i \in 1..j :
          /\ answer[r] = [kind |-> "missing", id |-> id]
          /\ Promise!FoundAt(w, asked[r], id, i) /\ ~ HasId(w[j], id)
    BY <2>3
  <2>5. answer[r].id = id /\ HasId(w[i], id) /\ ~ HasId(w[j], id)
    BY <2>4, FoundIsThere
  <2>6. i # j
    BY <2>5
  <2>7. i \in DOMAIN w /\ i < j
    BY <2>1, <2>3, <2>4, <2>6, LenProperties
  <2> QED BY <2>3, <2>5, <2>7
<1> QED BY <1>1, Justification, PTL

\* While nothing moves, a name leads to the document of that id or else to a
\* document that carries it.
LEMMA StillAnswers ==
  ASSUME TypeOK, Justified, NEW r \in Requests,
         asked[r] # NoAsk, answer[r] # NoAnswer, answer[r].kind # "unavailable",
         Len(window[r]) = 1
  PROVE  LET ix == window[r][1]
             name == asked[r] IN
         \/ \E id \in Names :
              /\ answer[r] = [kind |-> "page", id |-> id]
              /\ \/ id = name /\ HasId(ix, name)
                 \/ id \in Carriers(ix, name) /\ ~ HasId(ix, name)
         \/ Carriers(ix, name) = {} /\ ~ HasId(ix, name)
<1> DEFINE w == window[r]
<1>1. w \in Seq(Index) BY DEF TypeOK
<1>2. DOMAIN w = {1} /\ 1..1 = {1}
  BY <1>1, LenProperties
<1>3. \A id : Promise!FoundAt(w, asked[r], id, 1) =>
        /\ HasId(w[1], id)
        /\ \/ id = asked[r] /\ HasId(w[1], asked[r])
           \/ id \in Carriers(w[1], asked[r]) /\ ~ HasId(w[1], asked[r])
  BY <1>2, FoundIsThere, FoundMeans
<1>4. answer[r] \in Promise!PromisedAnswers(asked[r], w)
  BY AnswerRests
<1> HIDE DEF w
<1>5. CASE answer[r] = [kind |-> "unavailable", id |-> NoName]
  BY <1>5
<1>6. CASE \E j \in DOMAIN w : /\ Carriers(w[j], asked[r]) = {}
                               /\ \E i \in 1..j : ~ HasId(w[i], asked[r])
  BY <1>2, <1>6 DEF w
<1>7. CASE \E id \in Names : \E j \in DOMAIN w : \E i \in 1..j :
             /\ answer[r] = [kind |-> "page", id |-> id]
             /\ Promise!FoundAt(w, asked[r], id, i) /\ HasId(w[j], id)
  BY <1>2, <1>3, <1>7 DEF w
<1>8. CASE \E id \in Names : \E j \in DOMAIN w : \E i \in 1..j :
             /\ answer[r] = [kind |-> "missing", id |-> id]
             /\ Promise!FoundAt(w, asked[r], id, i) /\ ~ HasId(w[j], id)
  BY <1>2, <1>3, <1>8
<1> QED BY <1>4, <1>5, <1>6, <1>7, <1>8, PromisedMeans

(***************************************************************************)
(* The purls that Lux prints lead back to where they are printed           *)
(* (find_this_item_helper.rb, citation_string_processor.rb).               *)
(***************************************************************************)
THEOREM PrintedPurlsWork == Spec => []PurlsLeadBack
<1>1. ASSUME TypeOK, Justified
      PROVE  PurlsLeadBack
  <2> SUFFICES
        ASSUME NEW r \in Requests, NEW id \in Names,
               asked[r] # NoAsk, answer[r] # NoAnswer, answer[r].kind # "unavailable",
               Len(window[r]) = 1, HasId(window[r][1], id),
               \/ asked[r] = CitedPurl(id)
               \/ /\ asked[r] = PrintedPurl(id, window[r][1][id])
                  /\ window[r][1][id].listed
                  /\ \A other \in Names \ {id} :
                       ~ (HasId(window[r][1], other)
                            /\ asked[r] \in {other, window[r][1][other].pid})
        PROVE  answer[r] = [kind |-> "page", id |-> id]
    BY DEF PurlsLeadBack
  <2> DEFINE ix == window[r][1]
             name == asked[r]
  <2>1. name \in Names BY <1>1 DEF TypeOK
  <2>2. \/ \E x \in Names :
             /\ answer[r] = [kind |-> "page", id |-> x]
             /\ \/ x = name /\ HasId(ix, name)
                \/ x \in Carriers(ix, name) /\ ~ HasId(ix, name)
        \/ Carriers(ix, name) = {} /\ ~ HasId(ix, name)
    BY <1>1, StillAnswers
  <2>3. CASE name = id
    BY <2>2, <2>3
  <2>4. CASE name # id
    <3>1. name = ix[id].pid /\ ix[id].listed
      BY <2>1, <2>4, NamesAssumption DEF CitedPurl, PrintedPurl
    <3>2. id \in Carriers(ix, name)
      BY <3>1 DEF Carriers, HasId
    <3>3. ~ HasId(ix, name)
      BY <2>1, <2>4 DEF CitedPurl
    <3>4. \A x \in Carriers(ix, name) : x = id
      BY <2>4 DEF CitedPurl, Carriers, HasId
    <3> QED BY <2>2, <3>2, <3>3, <3>4
  <2> QED BY <2>3, <2>4
<1> QED BY <1>1, Justification, PTL

----------------------------------------------------------------------------
LEMMA PendingIsBusy ==
  ASSUME Justified, NEW r \in Requests
  PROVE  Busy(r) <=> Promise!Pending(r)
BY DEF Justified, JustifiedFor, Promise!Pending

\* A step that answers is a reply; one that does not is a stutter.
LEMMA RespondIsReply ==
  ASSUME Justified, TypeOK', Justified', NEW r \in Requests, Busy(r),
         NEW kind, NEW id, Respond(r, kind, id), TypeOK,
         [kind |-> kind, id |-> id] \in Answer,
         UNCHANGED <<index, reindexed, asked, window>>
  PROVE  Promise!Reply(r)
<1>1. answer'[r] = [kind |-> kind, id |-> id] /\ asked[r] # NoAsk
  BY DEF Respond, TypeOK, Justified, JustifiedFor
<1>2. answer'[r] # NoAnswer
  BY <1>1, NoAnswerAssumption
<1>3. answer'[r] \in Promise!PromisedAnswers(asked[r], window[r])
  <2>1. JustifiedFor(r)' BY DEF Justified
  <2>2. pc'[r] = "idle" BY DEF Respond, TypeOK
  <2> QED BY <1>1, <2>1, <2>2 DEF JustifiedFor, Busy, Steps
<1> QED BY <1>1, <1>3, PendingIsBusy DEF Promise!Reply, Respond

(***************************************************************************)
(* PersistentUrl implements PurlPromise: the two lookups and the redirect  *)
(* are answered like one step that looks at the window of the request.     *)
(***************************************************************************)
THEOREM PurlImplementsPromise == Spec => ImplementsPromise
<1> DEFINE Both == TypeOK /\ Justified
<1>1. Init => Promise!Init
  BY DEF Init, Index, Promise!Init
<1>2. ASSUME Both, Both', [Next]_vars
      PROVE  [Promise!Next]_(Promise!vars)
  <2>1. ASSUME NEW r \in Requests, NEW name \in Names, Follow(r, name)
        PROVE  Promise!Next
    <3>1. ~ Busy(r) BY <2>1 DEF Follow, Busy, Steps
    <3>2. Promise!Arrive(r, name)
      BY <1>2, <2>1, <3>1, PendingIsBusy DEF Follow, Promise!Arrive
    <3> QED BY <3>2 DEF Promise!Next
  <2>2. ASSUME NEW r \in Requests, NEW kind, NEW id, Respond(r, kind, id), Busy(r),
               [kind |-> kind, id |-> id] \in Answer,
               UNCHANGED <<index, reindexed, asked, window>>
        PROVE  Promise!Next
    BY <1>2, <2>2, RespondIsReply DEF Promise!Next
  <2>3. ASSUME NEW r \in Requests, DirectLookup(r)
        PROVE  UNCHANGED Promise!vars
    BY <2>3 DEF DirectLookup, RedirectToShow, Promise!vars
  <2>4. ASSUME NEW r \in Requests, PurlLookup(r)
        PROVE  [Promise!Next]_(Promise!vars)
    <3>1. Busy(r) BY <2>4 DEF PurlLookup, Busy, Steps
    <3>2. [kind |-> "not_found", id |-> NoName] \in Answer BY DEF Answer
    <3>3. CASE Respond(r, "not_found", NoName)
      BY <2>2, <2>4, <3>1, <3>2, <3>3 DEF PurlLookup
    <3>4. CASE \E id : RedirectToShow(r, id)
      BY <2>4, <3>4 DEF PurlLookup, RedirectToShow, Promise!vars
    <3> QED BY <2>4, <3>3, <3>4 DEF PurlLookup
  <2>5. ASSUME NEW r \in Requests, Show(r)
        PROVE  Promise!Next
    <3>1. Busy(r) BY <2>5 DEF Show, Busy, Steps
    <3> DEFINE kind == IF HasId(index, target[r]) THEN "page" ELSE "missing"
    <3>2. [kind |-> kind, id |-> target[r]] \in Answer
      BY <1>2 DEF Answer, TypeOK
    <3>3. Respond(r, kind, target[r]) /\ UNCHANGED <<index, reindexed, asked, window>>
      BY <2>5 DEF Show
    <3> HIDE DEF kind
    <3> QED BY <2>2, <3>1, <3>2, <3>3
  <2>6. ASSUME NEW r \in Requests, SolrUnavailable(r)
        PROVE  Promise!Next
    <3>1. [kind |-> "unavailable", id |-> NoName] \in Answer BY DEF Answer
    <3> QED BY <2>2, <2>6, <3>1 DEF SolrUnavailable
  <2>7. ASSUME NEW id \in Names, NEW entry \in Entries \cup {NoDoc}, Reindex(id, entry)
        PROVE  Promise!Next
    <3>1. \A r \in Requests : Busy(r) <=> Promise!Pending(r)
      BY <1>2, PendingIsBusy
    <3>2. window' = [r \in Requests |->
            IF Promise!Pending(r) THEN Append(window[r], index') ELSE window[r]]
      BY <2>7, <3>1 DEF Reindex
    <3>3. Promise!Reindex(id, entry)
      BY <2>7, <3>2 DEF Reindex, Promise!Reindex
    <3> QED BY <3>3 DEF Promise!Next
  <2>8. CASE UNCHANGED vars
    BY <2>8 DEF vars, Promise!vars
  <2> QED BY <1>2, <2>1, <2>3, <2>4, <2>5, <2>6, <2>7, <2>8 DEF Next, Serve
<1> QED BY <1>1, <1>2, Justification, PTL DEF Spec, ImplementsPromise, Promise!Spec
=============================================================================
