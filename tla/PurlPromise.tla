---------------------------- MODULE PurlPromise ----------------------------
(***************************************************************************)
(* What a persistent URL promises while the index changes under it.  The   *)
(* window of a request is the sequence of what the index was since the     *)
(* request came in; the answer rests on moments of the window, in order:   *)
(* the id was looked for not later than the persistent id, and the         *)
(* document was opened not earlier than it was found.                      *)
(***************************************************************************)
EXTENDS Purls, Naturals, Sequences

CONSTANTS Requests, Entries, NoAsk, NoAnswer

VARIABLES index, asked, answer, window

vars == <<index, asked, answer, window>>

Pending(r) == asked[r] # NoAsk /\ answer[r] = NoAnswer
Answered(kind, id) == [kind |-> kind, id |-> id]

\* From moment k of window w on, the document of that id may be opened.
FoundAt(w, name, id, k) ==
  \/ id = name /\ HasId(w[k], name)
  \/ /\ id \in Carriers(w[k], name)
     /\ \E i \in 1..k : ~ HasId(w[i], name)

PromisedAnswers(name, w) ==
  {Answered("unavailable", NoName)}
    \cup {Answered("not_found", NoName) : k \in {j \in DOMAIN w :
            /\ Carriers(w[j], name) = {}
            /\ \E i \in 1..j : ~ HasId(w[i], name)}}
    \cup {Answered("page", id) : id \in {x \in Names :
            \E j \in DOMAIN w : \E i \in 1..j :
              FoundAt(w, name, x, i) /\ HasId(w[j], x)}}
    \cup {Answered("missing", id) : id \in {x \in Names :
            \E j \in DOMAIN w : \E i \in 1..j :
              FoundAt(w, name, x, i) /\ ~ HasId(w[j], x)}}

----------------------------------------------------------------------------
Init ==
  /\ index \in [Names -> Entries \cup {NoDoc}]
  /\ asked = [r \in Requests |-> NoAsk]
  /\ answer = [r \in Requests |-> NoAnswer]
  /\ window = [r \in Requests |-> <<>>]

Arrive(r, name) ==
  /\ ~ Pending(r)
  /\ asked' = [asked EXCEPT ![r] = name]
  /\ answer' = [answer EXCEPT ![r] = NoAnswer]
  /\ window' = [window EXCEPT ![r] = <<index>>]
  /\ UNCHANGED index

Reply(r) ==
  /\ Pending(r)
  /\ \E a \in PromisedAnswers(asked[r], window[r]) :
       answer' = [answer EXCEPT ![r] = a]
  /\ UNCHANGED <<index, asked, window>>

Reindex(id, entry) ==
  /\ index' = [index EXCEPT ![id] = entry]
  /\ window' = [r \in Requests |->
       IF Pending(r) THEN Append(window[r], index') ELSE window[r]]
  /\ UNCHANGED <<asked, answer>>

Next ==
  \/ \E r \in Requests : Reply(r) \/ \E name \in Names : Arrive(r, name)
  \/ \E id \in Names, entry \in Entries \cup {NoDoc} : Reindex(id, entry)

Spec == Init /\ [][Next]_vars
============================================================================
