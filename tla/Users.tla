------------------------------- MODULE Users -------------------------------
(***************************************************************************)
(* The users table under Shibboleth callbacks that puma threads serve at   *)
(* the same time.  User.from_omniauth looks a row up by provider and uid,  *)
(* and saves: two statements, no transaction around them, and no unique    *)
(* index on uid (db/schema.rb).  Bookmarks hang on the row, not on the     *)
(* person.                                                                 *)
(*                                                                         *)
(* provider is always "shibboleth", and the email a function of the uid;   *)
(* both are left out of the rows.                                          *)
(***************************************************************************)
EXTENDS Naturals, Sequences, FiniteSets

CONSTANTS
  Threads,    \* puma threads
  Persons,    \* uids that Shibboleth asserts
  NoUid,      \* Shibboleth passes no uid
  Names,      \* display names
  Works,      \* documents that can be bookmarked
  MaxLogins   \* bound: how many callbacks arrive

ASSUME UsersAssumption == IsFiniteSet(Threads) /\ NoUid \notin Persons /\ MaxLogins \in Nat

VARIABLES
  users,      \* the rows, the id of a row being its place in the sequence
  bookmarks,  \* pairs of a row id and a work
  sessions,   \* for each person, the row ids of the sessions signed in
  callback,   \* what each thread is doing
  logins,     \* how many callbacks have arrived
  overlapped, \* history: persons who had two callbacks under way at once
  marked      \* history: what each person has bookmarked

vars == <<users, bookmarks, sessions, callback, logins, overlapped, marked>>

Row == [uid : Persons, display_name : Names]
Rows == 1..Len(users)
RowsOf(uid) == {i \in Rows : users[i].uid = uid}

\* row = 0 stands for a User that is new and not saved yet; loaded is the
\* display name that came with the row, against which Rails decides what to
\* write.
Callback ==
  [pc : {"find", "save", "sign_in"}, uid : Persons, name : Names,
   row : Nat, loaded : Names]
Idle == [pc |-> "idle"]

TypeOK ==
  /\ users \in Seq(Row)
  /\ bookmarks \subseteq Rows \X Works
  /\ sessions \in [Persons -> SUBSET Rows]
  /\ callback \in [Threads -> Callback \cup {Idle}]
  /\ logins \in 0..MaxLogins
  /\ overlapped \subseteq Persons
  /\ marked \in [Persons -> SUBSET Works]

Init ==
  /\ users = <<>>
  /\ bookmarks = {}
  /\ sessions = [p \in Persons |-> {}]
  /\ callback = [t \in Threads |-> Idle]
  /\ logins = 0
  /\ overlapped = {}
  /\ marked = [p \in Persons |-> {}]

Active(t) == callback[t] # Idle
At(t, pc) == Active(t) /\ callback[t].pc = pc

----------------------------------------------------------------------------
\* Shibboleth sends a person back to the application.
ArriveWithUid(t, p, name) ==
  /\ callback' = [callback EXCEPT ![t] =
       [pc |-> "find", uid |-> p, name |-> name, row |-> 0, loaded |-> name]]
  /\ overlapped' = overlapped
       \cup {u \in {p} : \E s \in Threads : Active(s) /\ callback[s].uid = u}
  /\ UNCHANGED <<users, bookmarks, sessions, marked>>

\* Without a uid from_omniauth logs, returns true, and sign_in raises: the
\* thread answers with an error, and no row and no session comes of it.
ArriveWithoutUid(t) ==
  UNCHANGED <<users, bookmarks, sessions, callback, overlapped, marked>>

Arrive(t) ==
  /\ callback[t] = Idle
  /\ logins < MaxLogins
  /\ logins' = logins + 1
  /\ \E uid \in Persons \cup {NoUid}, name \in Names :
       \/ uid = NoUid /\ ArriveWithoutUid(t)
       \/ uid # NoUid /\ ArriveWithUid(t, uid, name)

\* MUTANTS of Find, for the runs that must notice them: the lookup forgets the
\* uid; there is no lookup.
FindAnyRow(t) ==
  /\ At(t, "find")
  /\ \/ Rows = {} /\ callback' = [callback EXCEPT ![t].pc = "save"]
     \/ \E i \in Rows : callback' = [callback EXCEPT ![t].pc = "save",
             ![t].row = i, ![t].loaded = users[i].display_name]
  /\ UNCHANGED <<users, bookmarks, sessions, logins, overlapped, marked>>
FindNothing(t) ==
  /\ At(t, "find")
  /\ callback' = [callback EXCEPT ![t].pc = "save"]
  /\ UNCHANGED <<users, bookmarks, sessions, logins, overlapped, marked>>

\* find_or_initialize_by: some row of the uid, or a new User.
Find(t) ==
  /\ At(t, "find")
  /\ \/ /\ RowsOf(callback[t].uid) = {}
        /\ callback' = [callback EXCEPT ![t].pc = "save"]
     \/ \E i \in RowsOf(callback[t].uid) :
          callback' = [callback EXCEPT ![t].pc = "save", ![t].row = i,
                                       ![t].loaded = users[i].display_name]
  /\ UNCHANGED <<users, bookmarks, sessions, logins, overlapped, marked>>

\* MUTANT of Save: the data of Shibboleth goes into new rows only.
SaveNewOnly(t) ==
  /\ At(t, "save")
  /\ LET c == callback[t] IN
     IF c.row = 0
     THEN /\ users' = Append(users, [uid |-> c.uid, display_name |-> c.name])
          /\ callback' = [callback EXCEPT ![t].pc = "sign_in",
                                          ![t].row = Len(users) + 1]
     ELSE /\ callback' = [callback EXCEPT ![t].pc = "sign_in"]
          /\ UNCHANGED users
  /\ UNCHANGED <<bookmarks, sessions, logins, overlapped, marked>>

\* save: an INSERT for a new User, an UPDATE when an attribute differs from
\* the loaded one, otherwise nothing.
Save(t) ==
  /\ At(t, "save")
  /\ LET c == callback[t] IN
     \/ /\ c.row = 0
        /\ users' = Append(users, [uid |-> c.uid, display_name |-> c.name])
        /\ callback' = [callback EXCEPT ![t].pc = "sign_in",
                                        ![t].row = Len(users) + 1]
     \/ /\ c.row # 0 /\ c.name # c.loaded
        /\ users' = [users EXCEPT ![c.row].display_name = c.name]
        /\ callback' = [callback EXCEPT ![t].pc = "sign_in"]
     \/ /\ c.row # 0 /\ c.name = c.loaded
        /\ callback' = [callback EXCEPT ![t].pc = "sign_in"]
        /\ UNCHANGED users
  /\ UNCHANGED <<bookmarks, sessions, logins, overlapped, marked>>

\* sign_in: the session names the row; the response goes out.
SignIn(t) ==
  /\ At(t, "sign_in")
  /\ sessions' = [sessions EXCEPT ![callback[t].uid] = @ \cup {callback[t].row}]
  /\ callback' = [callback EXCEPT ![t] = Idle]
  /\ UNCHANGED <<users, bookmarks, logins, overlapped, marked>>

\* The database or the process fails under a callback: what is saved stays.
Fail(t) ==
  /\ Active(t)
  /\ callback' = [callback EXCEPT ![t] = Idle]
  /\ UNCHANGED <<users, bookmarks, sessions, logins, overlapped, marked>>

SignOut(p, row) ==
  /\ row \in sessions[p]
  /\ sessions' = [sessions EXCEPT ![p] = @ \ {row}]
  /\ UNCHANGED <<users, bookmarks, callback, logins, overlapped, marked>>

\* A bookmark of a signed-in person belongs to the row of the session.
Bookmark(p, row, work) ==
  /\ row \in sessions[p]
  /\ bookmarks' = bookmarks \cup {<<row, work>>}
  /\ marked' = [marked EXCEPT ![p] = @ \cup {work}]
  /\ UNCHANGED <<users, sessions, callback, logins, overlapped>>

Serve(t) == Find(t) \/ Save(t) \/ SignIn(t)

Next ==
  \/ \E t \in Threads : Arrive(t) \/ Serve(t) \/ Fail(t)
  \/ \E p \in Persons, row \in Rows :
       SignOut(p, row) \/ \E work \in Works : Bookmark(p, row, work)

Spec == Init /\ [][Next]_vars

----------------------------------------------------------------------------
(***************************************************************************)
(* A session names a row, and the row of the person who signed in: no      *)
(* interleaving of callbacks hands one person another one's row, although  *)
(* a thread keeps a row id from its lookup to its sign_in (user.rb,        *)
(* from_omniauth).                                                         *)
(***************************************************************************)
SignedInAsOneself ==
  \A p \in Persons : \A i \in sessions[p] : i \in Rows /\ users[i].uid = p

(***************************************************************************)
(* What a thread has established of the row it holds, and what is on the   *)
(* shelf of a person: with SignedInAsOneself, the invariant that carries   *)
(* the proofs (user.rb, from_omniauth; the bookmarks table).               *)
(***************************************************************************)
Held ==
  \A t \in Threads : Active(t) =>
    /\ callback[t].row # 0 => callback[t].row \in RowsOf(callback[t].uid)
    /\ callback[t].pc = "find" => callback[t].row = 0
    /\ callback[t].pc = "sign_in" => callback[t].row # 0

Shelved ==
  \A p \in Persons :
    marked[p] = {w \in Works : \E i \in RowsOf(p) : <<i, w>> \in bookmarks}

RowInv == TypeOK /\ Held /\ SignedInAsOneself /\ Shelved

(***************************************************************************)
(* A person whose callbacks never overlapped has one row at most: the      *)
(* lookup and the insert need no transaction then (user.rb:35-39).         *)
(***************************************************************************)
OneRowUnlessOverlapped ==
  \A i, j \in Rows :
    users[i].uid = users[j].uid => i = j \/ users[i].uid \in overlapped

(***************************************************************************)
(* What such a person bookmarked in any session is shown in every session  *)
(* of the person, after signing out and in again too.                      *)
(***************************************************************************)
BookmarksFollowThePerson ==
  \A p \in Persons \ overlapped : \A i \in sessions[p] :
    {w \in Works : <<i, w>> \in bookmarks} = marked[p]

(***************************************************************************)
(* When the callback of such a person is about to sign in, the row it      *)
(* signs in holds what Shibboleth asserted in this very callback           *)
(* ("Populate it with data we get from shibboleth", user.rb:30).           *)
(***************************************************************************)
PopulatedByShibboleth ==
  \A t \in Threads :
    At(t, "sign_in") /\ callback[t].uid \notin overlapped =>
      users[callback[t].row]
        = [uid |-> callback[t].uid, display_name |-> callback[t].name]

(***************************************************************************)
(* Overlapping callbacks make duplicates only of lookups that found        *)
(* nothing: once a person has a row, the rows and the inserts still under  *)
(* way are at most as many as the threads of puma, however many callbacks  *)
(* follow, overlap and fail (user.rb:35-39).                               *)
(***************************************************************************)
Inserting(p) == {t \in Threads : At(t, "save") /\ callback[t].uid = p /\ callback[t].row = 0}

DuplicatesStayFew ==
  \A p \in Persons :
    RowsOf(p) # {} => Cardinality(RowsOf(p)) + Cardinality(Inserting(p)) <= Cardinality(Threads)

(***************************************************************************)
(* user.rb:29-30: "When a user authenticates via shibboleth, find their    *)
(* User object or make a new one."  One person, one User object.           *)
(***************************************************************************)
OneRowPerPerson ==
  \A i, j \in Rows : users[i].uid = users[j].uid => i = j
============================================================================
