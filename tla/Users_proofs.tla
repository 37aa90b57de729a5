---------------------------- MODULE Users_proofs ----------------------------
(***************************************************************************)
(* The safety properties of Users, for any number of threads, persons,     *)
(* names and works and any bound on the callbacks.                         *)
(*                                                                         *)
(* Growth says what a step does to the rows; Held, what a thread that has  *)
(* looked up a row knows of it later; Alone, what is known of a person     *)
(* none of whose callbacks overlapped.                                     *)
(***************************************************************************)
EXTENDS Users, SequenceTheorems, FiniteSetTheorems, TLAPS

\* Rows stay, with their uid.
Growth == \A i \in Rows : i \in Rows' /\ users'[i].uid = users[i].uid

----------------------------------------------------------------------------
\* What an UPDATE of a display name leaves of the rows.
LEMMA Renaming ==
  ASSUME users \in Seq(Row), NEW i \in Rows, NEW name \in Names,
         users' = [users EXCEPT ![i].display_name = name]
  PROVE  /\ users' \in Seq(Row) /\ Len(users') = Len(users)
         /\ Rows' = Rows
         /\ \A j \in Rows : users'[j].uid = users[j].uid
         /\ \A j \in Rows : j # i => users'[j] = users[j]
         /\ users'[i] = [uid |-> users[i].uid, display_name |-> name]
<1> DEFINE r == [users[i] EXCEPT !.display_name = name]
<1>1. users[i] \in Row BY ElementOfSeq DEF Rows
<1>2. r \in Row /\ r = [uid |-> users[i].uid, display_name |-> name]
  BY <1>1 DEF Row
<1>3. users' = [users EXCEPT ![i] = r]
  OBVIOUS
<1> HIDE DEF r
<1>4. /\ users' \in Seq(Row) /\ Len(users') = Len(users)
      /\ \A j \in 1..Len(users) : users'[j] = IF j = i THEN r ELSE users[j]
  BY <1>2, <1>3, ExceptSeq DEF Rows
<1> QED BY <1>2, <1>4 DEF Rows

LEMMA ActiveTyped ==
  ASSUME TypeOK, NEW t \in Threads, Active(t)
  PROVE  callback[t] \in Callback
BY DEF TypeOK, Active

\* What saving does to the rows, in the three cases of Save.
LEMMA SaveCases ==
  ASSUME TypeOK, Held, NEW t \in Threads, Save(t)
  PROVE  /\ callback[t] \in Callback
         /\ callback'[t] \in Callback
         /\ callback'[t].pc = "sign_in"
         /\ callback'[t].uid = callback[t].uid
         /\ callback'[t].name = callback[t].name
         /\ callback'[t].row \in Rows'
         /\ users'[callback'[t].row].uid = callback[t].uid
         /\ \A s \in Threads \ {t} : callback'[s] = callback[s]
         /\ \/ /\ callback[t].row = 0
               /\ callback'[t].row = Len(users) + 1
               /\ users' = Append(users, [uid |-> callback[t].uid,
                                    display_name |-> callback[t].name])
            \/ /\ callback[t].row \in RowsOf(callback[t].uid)
               /\ callback'[t].row = callback[t].row
               /\ \/ /\ users' = [users EXCEPT
                           ![callback[t].row].display_name = callback[t].name]
                     /\ callback[t].name # callback[t].loaded
                  \/ /\ users' = users
                     /\ callback[t].name = callback[t].loaded
<1> DEFINE c == callback[t]
<1>1. c \in Callback /\ c.pc = "save" /\ Active(t)
  BY ActiveTyped DEF Save, At
<1>2. /\ callback \in [Threads -> Callback \cup {Idle}]
      /\ users \in Seq(Row) /\ Len(users) \in Nat
  BY DEF TypeOK
<1>3. CASE c.row = 0
  <2>1. /\ users' = Append(users, [uid |-> c.uid, display_name |-> c.name])
        /\ callback' = [callback EXCEPT ![t].pc = "sign_in",
                                        ![t].row = Len(users) + 1]
    BY <1>3 DEF Save
  <2>2. Len(users) + 1 \in Rows' /\ users'[Len(users) + 1].uid = c.uid
    BY <2>1, <1>1, <1>2 DEF Rows, Row, Callback
  <2>3. callback'[t] = [pc |-> "sign_in", uid |-> c.uid, name |-> c.name,
                        row |-> Len(users) + 1, loaded |-> c.loaded]
    BY <2>1, <1>1, <1>2 DEF Callback
  <2>4. callback'[t] \in Callback
    BY <2>3, <1>1, <1>2 DEF Callback
  <2> QED BY <1>1, <1>2, <1>3, <2>1, <2>2, <2>3, <2>4 DEF Callback
<1>4. CASE c.row # 0
  <2>1. c.row \in RowsOf(c.uid)
    BY <1>1, <1>4 DEF Held
  <2>2. /\ callback' = [callback EXCEPT ![t].pc = "sign_in"]
        /\ \/ /\ users' = [users EXCEPT ![c.row].display_name = c.name]
              /\ c.name # c.loaded
           \/ users' = users /\ c.name = c.loaded
    BY <1>4 DEF Save
  <2>3. callback'[t] = [c EXCEPT !.pc = "sign_in"]
    BY <2>2, <1>2
  <2>4. callback'[t] \in Callback
    BY <2>3, <1>1, <1>2 DEF Callback
  <2>5. c.row \in Rows' /\ users'[c.row].uid = c.uid
    BY <2>1, <2>2, <1>1, <1>2, Renaming DEF Rows, RowsOf, Callback
  <2> QED BY <1>1, <1>2, <2>1, <2>2, <2>3, <2>4, <2>5 DEF Callback
<1> QED BY <1>3, <1>4

LEMMA RowsGrow ==
  ASSUME TypeOK, Held, [Next]_vars
  PROVE  Growth /\ users' \in Seq(Row)
<1>0. users \in Seq(Row) BY DEF TypeOK
<1>1. ASSUME NEW t \in Threads, Save(t)
      PROVE  Growth /\ users' \in Seq(Row)
  <2> DEFINE c == callback[t]
  <2>0. c \in Callback BY <1>1, SaveCases
  <2>1. CASE users' = Append(users, [uid |-> c.uid, display_name |-> c.name])
    BY <1>0, <2>0, <2>1 DEF Growth, Rows, Row, Callback
  <2>2. CASE /\ c.row \in RowsOf(c.uid)
             /\ users' = [users EXCEPT ![c.row].display_name = c.name]
    BY <1>0, <2>0, <2>2, Renaming DEF Growth, RowsOf, Callback
  <2>3. CASE users' = users
    BY <1>0, <2>3 DEF Growth, Rows
  <2> QED BY <1>1, SaveCases, <2>1, <2>2, <2>3
<1>2. CASE UNCHANGED users
  BY <1>0, <1>2 DEF Growth, Rows
<1> QED
  BY <1>1, <1>2 DEF Next, vars, Serve, Arrive, ArriveWithUid, ArriveWithoutUid,
     Find, SignIn, Fail, SignOut, Bookmark
\* What a lookup leaves in the thread: no row because there is none, or a row
\* of the person and the display name that is in it.
LEMMA FindCases ==
  ASSUME TypeOK, NEW t \in Threads, Find(t)
  PROVE  /\ callback[t] \in Callback /\ callback'[t] \in Callback
         /\ callback[t].pc = "find" /\ callback'[t].pc = "save"
         /\ callback'[t].uid = callback[t].uid
         /\ callback'[t].name = callback[t].name
         /\ \A s \in Threads \ {t} : callback'[s] = callback[s]
         /\ \/ /\ RowsOf(callback[t].uid) = {}
               /\ callback'[t].row = callback[t].row
            \/ /\ callback'[t].row \in RowsOf(callback[t].uid)
               /\ callback'[t].loaded = users[callback'[t].row].display_name
<1> DEFINE c == callback[t]
<1>1. c \in Callback /\ c.pc = "find"
  BY ActiveTyped DEF Find, At
<1>2. callback \in [Threads -> Callback \cup {Idle}] /\ users \in Seq(Row)
  BY DEF TypeOK
<1>3. CASE RowsOf(c.uid) = {} /\ callback' = [callback EXCEPT ![t].pc = "save"]
  <2>1. callback'[t] = [pc |-> "save", uid |-> c.uid, name |-> c.name,
                        row |-> c.row, loaded |-> c.loaded]
    BY <1>1, <1>2, <1>3 DEF Callback
  <2> QED BY <1>1, <1>2, <1>3, <2>1 DEF Callback
<1>4. ASSUME NEW i \in RowsOf(c.uid),
             callback' = [callback EXCEPT ![t].pc = "save", ![t].row = i,
                                          ![t].loaded = users[i].display_name]
      PROVE  /\ callback'[t] \in Callback
             /\ callback'[t] = [pc |-> "save", uid |-> c.uid, name |-> c.name,
                                row |-> i, loaded |-> users[i].display_name]
             /\ \A s \in Threads \ {t} : callback'[s] = callback[s]
  <2>1. i \in Nat /\ users[i] \in Row
    BY <1>2, ElementOfSeq DEF RowsOf, Rows
  <2>2. callback'[t] = [pc |-> "save", uid |-> c.uid, name |-> c.name,
                        row |-> i, loaded |-> users[i].display_name]
    BY <1>1, <1>2, <1>4 DEF Callback
  <2>3. callback'[t] \in Callback
    BY <2>1, <2>2, <1>1 DEF Callback, Row
  <2> QED BY <2>2, <2>3, <1>2, <1>4
<1>5. CASE \E i \in RowsOf(c.uid) :
             callback' = [callback EXCEPT ![t].pc = "save", ![t].row = i,
                                          ![t].loaded = users[i].display_name]
  <2>1. PICK i \in RowsOf(c.uid) :
             callback' = [callback EXCEPT ![t].pc = "save", ![t].row = i,
                                          ![t].loaded = users[i].display_name]
    BY <1>5
  <2>2. /\ callback'[t] \in Callback
        /\ callback'[t] = [pc |-> "save", uid |-> c.uid, name |-> c.name,
                           row |-> i, loaded |-> users[i].display_name]
        /\ \A s \in Threads \ {t} : callback'[s] = callback[s]
    BY ONLY <2>1, <1>4
  <2> QED BY <1>1, <2>2
<1>6. \/ RowsOf(c.uid) = {} /\ callback' = [callback EXCEPT ![t].pc = "save"]
      \/ \E i \in RowsOf(c.uid) :
             callback' = [callback EXCEPT ![t].pc = "save", ![t].row = i,
                                          ![t].loaded = users[i].display_name]
  BY DEF Find
<1> QED BY <1>3, <1>5, <1>6

----------------------------------------------------------------------------
LEMMA TypingStep ==
  ASSUME TypeOK, Held, [Next]_vars
  PROVE  TypeOK'
<1> USE DEF TypeOK
<1>0. Growth /\ users' \in Seq(Row) BY RowsGrow
<1>1. bookmarks \subseteq Rows' \X Works /\ sessions \in [Persons -> SUBSET Rows']
  BY <1>0 DEF Growth
<1>2. ASSUME NEW t \in Threads, Arrive(t)
      PROVE  TypeOK'
  <2>1. ASSUME NEW p \in Persons, NEW name \in Names, ArriveWithUid(t, p, name)
        PROVE  callback' \in [Threads -> Callback \cup {Idle}]
    <3>1. [pc |-> "find", uid |-> p, name |-> name, row |-> 0, loaded |-> name]
            \in Callback
      BY DEF Callback
    <3> QED BY <2>1, <3>1 DEF ArriveWithUid
  <2>2. callback' \in [Threads -> Callback \cup {Idle}]
    BY <1>2, <2>1 DEF Arrive, ArriveWithoutUid
  <2>3. logins' \in 0..MaxLogins
    BY <1>2, UsersAssumption DEF Arrive
  <2>4. overlapped' \subseteq Persons
    BY <1>2 DEF Arrive, ArriveWithUid, ArriveWithoutUid
  <2>5. UNCHANGED <<users, bookmarks, sessions, marked>>
    BY <1>2 DEF Arrive, ArriveWithUid, ArriveWithoutUid
  <2> QED BY <2>2, <2>3, <2>4, <2>5 DEF Rows
<1>3. ASSUME NEW t \in Threads, Find(t)
      PROVE  TypeOK'
  <2>1. callback' \in [Threads -> Callback \cup {Idle}]
    <3>1. DOMAIN callback' = Threads /\ callback' = [s \in Threads |-> callback'[s]]
      BY <1>3 DEF Find
    <3> QED BY <3>1, <1>3, FindCases
  <2> QED BY <1>3, <2>1 DEF Find, Rows
<1>4. ASSUME NEW t \in Threads, Save(t)
      PROVE  TypeOK'
  <2>1. callback' \in [Threads -> Callback \cup {Idle}]
    <3>1. DOMAIN callback' = Threads /\ callback' = [s \in Threads |-> callback'[s]]
      BY <1>4 DEF Save
    <3> QED BY <3>1, <1>4, SaveCases
  <2> QED BY <1>0, <1>1, <1>4, <2>1 DEF Save
<1>5. ASSUME NEW t \in Threads, SignIn(t)
      PROVE  TypeOK'
  <2>1. callback[t] \in Callback /\ callback[t].row \in Rows
    BY <1>5, ActiveTyped DEF SignIn, At, Held, RowsOf
  <2> QED BY <1>5, <2>1 DEF SignIn, Rows, Callback
<1>6. ASSUME NEW t \in Threads, Fail(t)
      PROVE  TypeOK'
  BY <1>6 DEF Fail, Rows
<1>7. ASSUME NEW p \in Persons, NEW row \in Rows, SignOut(p, row)
      PROVE  TypeOK'
  BY <1>7 DEF SignOut, Rows
<1>8. ASSUME NEW p \in Persons, NEW row \in Rows, NEW work \in Works,
             Bookmark(p, row, work)
      PROVE  TypeOK'
  BY <1>8 DEF Bookmark, Rows
<1>9. CASE UNCHANGED vars
  BY <1>9 DEF vars, Rows
<1> QED BY <1>2, <1>3, <1>4, <1>5, <1>6, <1>7, <1>8, <1>9 DEF Next, Serve

\* A row id a thread holds stays one of its person: rows only grow.
LEMMA HeldStep ==
  ASSUME TypeOK, Held, [Next]_vars
  PROVE  Held'
<1>0. Growth BY RowsGrow
<1>a. ASSUME NEW s \in Threads, Active(s), callback'[s] = callback[s]
      PROVE  /\ callback'[s].row # 0
                  => callback'[s].row \in RowsOf(callback[s].uid)'
             /\ callback'[s].pc = "find" => callback'[s].row = 0
             /\ callback'[s].pc = "sign_in" => callback'[s].row # 0
  BY <1>0, <1>a DEF Held, Growth, RowsOf
<1>b. callback \in [Threads -> Callback \cup {Idle}]
  BY DEF TypeOK
<1>2. ASSUME NEW t \in Threads, Arrive(t)
      PROVE  Held'
  <2>1. /\ \A s \in Threads \ {t} : callback'[s] = callback[s]
        /\ \/ callback'[t] = callback[t]
           \/ callback'[t].pc = "find" /\ callback'[t].row = 0
    BY <1>2, <1>b DEF Arrive, ArriveWithUid, ArriveWithoutUid
  <2> QED BY <1>a, <2>1 DEF Held, Active
<1>3. ASSUME NEW t \in Threads, Find(t)
      PROVE  Held'
  <2>1. callback[t].row = 0
    BY <1>3, FindCases DEF Held, Find, At
  <2>2. callback'[t].row # 0 => callback'[t].row \in RowsOf(callback[t].uid)'
    BY <1>0, <1>3, <2>1, FindCases DEF Growth, RowsOf
  <2> QED BY <1>3, <1>a, <2>2, FindCases DEF Held, Active
<1>4. ASSUME NEW t \in Threads, Save(t)
      PROVE  Held'
  <2>0. /\ callback'[t].row \in Rows'
        /\ users'[callback'[t].row].uid = callback'[t].uid
    BY <1>4, SaveCases
  <2>1. callback'[t].row \in RowsOf(callback[t].uid)' /\ callback'[t].row # 0
    BY <2>0 DEF RowsOf, Rows
  <2> QED BY <1>4, <1>a, <2>1, SaveCases DEF Held, Active
<1>5. ASSUME NEW t \in Threads, callback' = [callback EXCEPT ![t] = Idle]
      PROVE  Held'
  BY <1>5, <1>a, <1>b DEF Held, Active
<1>6. CASE UNCHANGED callback
  BY <1>6, <1>a DEF Held, Active
<1> QED
  BY <1>2, <1>3, <1>4, <1>5, <1>6 DEF Next, Serve, SignIn, Fail, SignOut,
     Bookmark, vars

\* A session gets the row its thread holds, which is its person's.
LEMMA SignedInStep ==
  ASSUME TypeOK, Held, SignedInAsOneself, [Next]_vars
  PROVE  SignedInAsOneself'
<1>0. Growth BY RowsGrow
<1>1. sessions \in [Persons -> SUBSET Rows] BY DEF TypeOK
<1>2. ASSUME NEW t \in Threads, SignIn(t)
      PROVE  SignedInAsOneself'
  <2>1. /\ callback[t] \in Callback
        /\ callback[t].row \in Rows
        /\ users[callback[t].row].uid = callback[t].uid
    BY <1>2, ActiveTyped DEF SignIn, At, Held, RowsOf
  <2>2. UNCHANGED users
    BY <1>2 DEF SignIn
  <2> QED BY <1>1, <1>2, <2>1, <2>2 DEF SignIn, SignedInAsOneself, Rows
<1>3. ASSUME NEW p \in Persons, NEW row \in Rows, SignOut(p, row)
      PROVE  SignedInAsOneself'
  BY <1>1, <1>3 DEF SignOut, SignedInAsOneself, Rows
<1>4. CASE UNCHANGED sessions
  BY <1>0, <1>4 DEF SignedInAsOneself, Growth
<1> QED
  BY <1>2, <1>3, <1>4 DEF Next, Serve, vars, Arrive, ArriveWithUid,
     ArriveWithoutUid, Find, Save, Fail, Bookmark
\* A new row carries no bookmarks, a renamed one keeps its own.
LEMMA ShelvedStep ==
  ASSUME TypeOK, Held, SignedInAsOneself, Shelved, [Next]_vars
  PROVE  Shelved'
<1>0. Growth BY RowsGrow
<1>1. marked \in [Persons -> SUBSET Works] /\ bookmarks \subseteq Rows \X Works
  BY DEF TypeOK
<1>2. ASSUME UNCHANGED <<bookmarks, marked>>
      PROVE  Shelved'
  <2>1. ASSUME NEW p \in Persons, NEW w \in Works
        PROVE  (\E i \in RowsOf(p) : <<i, w>> \in bookmarks)
                 <=> \E i \in RowsOf(p)' : <<i, w>> \in bookmarks
    BY <1>0, <1>1 DEF Growth, RowsOf
  <2> QED BY <1>2, <2>1 DEF Shelved
<1>3. ASSUME NEW p \in Persons, NEW row \in Rows, NEW work \in Works,
             Bookmark(p, row, work)
      PROVE  Shelved'
  <2>1. users[row].uid = p
    BY <1>3 DEF Bookmark, SignedInAsOneself
  <2>2. /\ bookmarks' = bookmarks \cup {<<row, work>>}
        /\ marked' = [marked EXCEPT ![p] = @ \cup {work}]
        /\ UNCHANGED users
    BY <1>3 DEF Bookmark
  <2>3. ASSUME NEW q \in Persons
        PROVE  marked'[q]
                 = {w \in Works : \E i \in RowsOf(q) : <<i, w>> \in bookmarks'}
    <3>1. CASE q = p
      BY <3>1, <1>1, <2>1, <2>2 DEF Shelved, RowsOf
    <3>2. CASE q # p
      BY <3>2, <1>1, <2>1, <2>2 DEF Shelved, RowsOf
    <3> QED BY <3>1, <3>2
  <2>4. \A q : RowsOf(q)' = RowsOf(q)
    BY <2>2 DEF RowsOf, Rows
  <2> QED BY <2>3, <2>4 DEF Shelved
<1> QED
  BY <1>2, <1>3 DEF Next, Serve, vars, Arrive, ArriveWithUid,
     ArriveWithoutUid, Find, Save, SignIn, Fail, SignOut

(***************************************************************************)
(* What every state satisfies: the types, what a thread holds, whose the   *)
(* session is (user.rb, sign_in of the callback) and whose the bookmarks.  *)
(***************************************************************************)
THEOREM RowsAreOnesOwn == Spec => []RowInv
<1>1. Init => RowInv
  <2> SUFFICES ASSUME Init PROVE RowInv
    OBVIOUS
  <2>1. Rows = {} BY DEF Init, Rows
  <2>2. TypeOK
    BY <2>1, UsersAssumption DEF Init, TypeOK
  <2>3. Held BY DEF Init, Held, Active
  <2>4. SignedInAsOneself BY DEF Init, SignedInAsOneself
  <2>5. Shelved BY DEF Init, Shelved
  <2> QED BY <2>2, <2>3, <2>4, <2>5 DEF RowInv
<1>2. RowInv /\ [Next]_vars => RowInv'
  BY TypingStep, HeldStep, SignedInStep, ShelvedStep DEF RowInv
<1> QED BY <1>1, <1>2, PTL DEF Spec

\* Every state is well typed.
THEOREM Typing == Spec => []TypeOK
<1>1. RowInv => TypeOK BY DEF RowInv
<1> QED BY <1>1, RowsAreOnesOwn, PTL

\* No interleaving of callbacks signs a person in as another one.
THEOREM NobodyIsSomebodyElse == Spec => []SignedInAsOneself
<1>1. RowInv => SignedInAsOneself BY DEF RowInv
<1> QED BY <1>1, RowsAreOnesOwn, PTL

----------------------------------------------------------------------------
\* Two callbacks of one person at once are on record.
Overlaps ==
  \A s, t \in Threads :
    s # t /\ Active(s) /\ Active(t) /\ callback[s].uid = callback[t].uid =>
      callback[s].uid \in overlapped

\* About to insert, a thread is right that there is no row yet; about to
\* update, it knows the display name in the row.
LookupHolds ==
  \A t \in Threads :
    At(t, "save") /\ callback[t].uid \notin overlapped =>
      IF callback[t].row = 0
      THEN RowsOf(callback[t].uid) = {}
      ELSE users[callback[t].row].display_name = callback[t].loaded

AloneInv ==
  Overlaps /\ LookupHolds /\ PopulatedByShibboleth /\ OneRowUnlessOverlapped

LEMMA OverlappedGrows ==
  ASSUME [Next]_vars
  PROVE  overlapped \subseteq overlapped'
BY DEF Next, Serve, vars, Arrive, ArriveWithUid, ArriveWithoutUid, Find, Save,
   SignIn, Fail, SignOut, Bookmark

LEMMA OverlapsStep ==
  ASSUME TypeOK, Held, Overlaps, [Next]_vars
  PROVE  Overlaps'
<1>0. overlapped \subseteq overlapped' BY OverlappedGrows
<1>b. callback \in [Threads -> Callback \cup {Idle}]
  BY DEF TypeOK
<1>1. ASSUME NEW t \in Threads, NEW p \in Persons, NEW name \in Names,
             callback[t] = Idle, ArriveWithUid(t, p, name)
      PROVE  Overlaps'
  <2>1. callback'[t].uid = p /\ \A s \in Threads \ {t} : callback'[s] = callback[s]
    BY <1>1, <1>b DEF ArriveWithUid
  <2>2. \A s \in Threads \ {t} :
          Active(s) /\ callback[s].uid = p => p \in overlapped'
    BY <1>1 DEF ArriveWithUid
  <2> QED BY <1>0, <2>1, <2>2 DEF Overlaps, Active
<1>2. ASSUME NEW t \in Threads, Active(t), callback'[t].uid = callback[t].uid,
             \A s \in Threads \ {t} : callback'[s] = callback[s]
      PROVE  Overlaps'
  BY <1>0, <1>2 DEF Overlaps, Active
<1>3. ASSUME NEW t \in Threads, callback' = [callback EXCEPT ![t] = Idle]
      PROVE  Overlaps'
  BY <1>0, <1>3, <1>b DEF Overlaps, Active
<1>4. CASE UNCHANGED callback
  BY <1>0, <1>4 DEF Overlaps, Active
<1>5. ASSUME NEW t \in Threads, Find(t) \/ Save(t)
      PROVE  Overlaps'
  <2>1. Active(t) BY <1>5 DEF Find, Save, At
  <2> QED BY <1>5, <2>1, <1>2, FindCases, SaveCases
<1>6. ASSUME NEW t \in Threads, Arrive(t)
      PROVE  Overlaps'
  BY <1>1, <1>4, <1>6 DEF Arrive, ArriveWithoutUid
<1> QED
  BY <1>3, <1>4, <1>5, <1>6 DEF Next, Serve, SignIn, Fail, SignOut, Bookmark,
     vars
\* While a thread of such a person is between two of its steps, no step of
\* another thread touches the rows of the person.
LEMMA OthersKeepOut ==
  ASSUME RowInv, Overlaps, [Next]_vars, NEW t \in Threads, Active(t),
         callback'[t] = callback[t], callback[t].uid \notin overlapped
  PROVE  \A i \in Rows' : users'[i].uid = callback[t].uid =>
           i \in Rows /\ users'[i] = users[i]
<1> DEFINE u == callback[t].uid
<1>0. TypeOK /\ Held /\ users \in Seq(Row) /\ Len(users) \in Nat
  BY DEF RowInv, TypeOK
<1>1. CASE UNCHANGED users
  BY <1>1 DEF Rows
<1>2. ASSUME NEW s \in Threads, Save(s)
      PROVE  \A i \in Rows' : users'[i].uid = u => i \in Rows /\ users'[i] = users[i]
  <2>1. s # t
    BY <1>0, <1>2, SaveCases DEF Save, At
  <2>2. Active(s)
    BY <1>2 DEF Save, At
  <2>3. callback[s].uid # u
    BY <2>1, <2>2 DEF Overlaps
  <2>4. callback[s] \in Callback
    BY <1>0, <1>2, SaveCases
  <2>5. CASE users' = Append(users, [uid |-> callback[s].uid,
                                     display_name |-> callback[s].name])
    BY <1>0, <2>3, <2>4, <2>5 DEF Rows, Row, Callback
  <2>6. CASE /\ callback[s].row \in RowsOf(callback[s].uid)
             /\ users' = [users EXCEPT
                   ![callback[s].row].display_name = callback[s].name]
    <3>1. /\ Rows' = Rows
          /\ \A j \in Rows : users'[j].uid = users[j].uid
          /\ \A j \in Rows : j # callback[s].row => users'[j] = users[j]
      BY <1>0, <2>4, <2>6, Renaming DEF RowsOf, Callback
    <3>2. users[callback[s].row].uid # u
      BY <2>3, <2>6 DEF RowsOf
    <3> QED BY <3>1, <3>2
  <2> QED BY <1>0, <1>1, <1>2, <2>5, <2>6, SaveCases
<1> QED
  BY <1>1, <1>2 DEF Next, Serve, vars, Arrive, ArriveWithUid, ArriveWithoutUid,
     Find, SignIn, Fail, SignOut, Bookmark

\* The callbacks a step leaves alone, and the one that a step advances.
LEMMA OneThreadMoves ==
  ASSUME TypeOK, Held, [Next]_vars, NEW t \in Threads, Active(t)'
  PROVE  \/ Active(t) /\ callback'[t] = callback[t]
         \/ Find(t)
         \/ Save(t)
         \/ callback'[t].pc = "find"
<1>b. callback \in [Threads -> Callback \cup {Idle}]
  BY DEF TypeOK
<1>1. ASSUME NEW s \in Threads, Arrive(s)
      PROVE  callback'[t] = callback[t] \/ callback'[t].pc = "find"
  BY <1>1, <1>b DEF Arrive, ArriveWithUid, ArriveWithoutUid
<1>2. ASSUME NEW s \in Threads, Find(s) \/ Save(s), s # t
      PROVE  callback'[t] = callback[t]
  BY <1>2, FindCases, SaveCases
<1>3. ASSUME NEW s \in Threads, callback' = [callback EXCEPT ![s] = Idle]
      PROVE  callback'[t] = callback[t]
  BY <1>3, <1>b DEF Active
<1>4. CASE UNCHANGED callback
  BY <1>4 DEF Active
<1> QED
  BY <1>1, <1>2, <1>3, <1>4 DEF Next, Serve, SignIn, Fail, SignOut, Bookmark,
     vars, Active

LEMMA LookupStep ==
  ASSUME RowInv, Overlaps, LookupHolds, [Next]_vars
  PROVE  LookupHolds'
<1>0. TypeOK /\ Held /\ overlapped \subseteq overlapped'
  BY OverlappedGrows DEF RowInv
<1> SUFFICES ASSUME NEW t \in Threads, At(t, "save")',
                    callback'[t].uid \notin overlapped'
             PROVE  IF callback'[t].row = 0
                    THEN RowsOf(callback[t].uid)' = {}
                    ELSE users'[callback'[t].row].display_name
                           = callback'[t].loaded
  BY DEF LookupHolds
<1>1. CASE Active(t) /\ callback'[t] = callback[t]
  <2>1. /\ callback[t].uid \notin overlapped /\ At(t, "save")
        /\ IF callback[t].row = 0
           THEN RowsOf(callback[t].uid) = {}
           ELSE users[callback[t].row].display_name = callback[t].loaded
    BY <1>0, <1>1 DEF LookupHolds, At
  <2>2. \A i \in Rows' : users'[i].uid = callback[t].uid =>
          i \in Rows /\ users'[i] = users[i]
    BY <1>1, <2>1, OthersKeepOut
  <2>3. CASE callback[t].row = 0
    BY <1>1, <2>1, <2>2, <2>3 DEF RowsOf
  <2>4. CASE callback[t].row # 0
    <3>1. callback[t].row \in RowsOf(callback[t].uid)
      BY <1>0, <1>1, <2>4 DEF Held
    <3>2. callback[t].row \in Rows' /\ users'[callback[t].row].uid = callback[t].uid
      BY <1>0, <3>1, RowsGrow DEF Growth, RowsOf
    <3> QED BY <1>1, <2>1, <2>2, <2>4, <3>2
  <2> QED BY <2>3, <2>4
<1>2. CASE Find(t)
  <2>1. UNCHANGED users /\ callback[t].row = 0
    BY <1>0, <1>2, FindCases DEF Find, At, Held
  <2>2. \A u : RowsOf(u)' = RowsOf(u)
    BY <2>1 DEF RowsOf, Rows
  <2>3. RowsOf(callback[t].uid)' = RowsOf(callback[t].uid)
    BY <1>0, <1>2, <2>1, FindCases DEF RowsOf, Rows
  <2>4. 0 \notin RowsOf(callback[t].uid)
    BY <1>0 DEF RowsOf, Rows, TypeOK
  <2> QED BY <1>0, <1>2, <2>1, <2>3, <2>4, FindCases
<1>3. CASE Save(t)
  BY <1>0, <1>3, SaveCases DEF At
<1>4. CASE callback'[t].pc = "find"
  BY <1>4 DEF At
<1> QED BY <1>0, <1>1, <1>2, <1>3, <1>4, OneThreadMoves DEF At

LEMMA PopulatedStep ==
  ASSUME RowInv, Overlaps, LookupHolds, PopulatedByShibboleth, [Next]_vars
  PROVE  PopulatedByShibboleth'
<1>0. TypeOK /\ Held /\ overlapped \subseteq overlapped'
  BY OverlappedGrows DEF RowInv
<1> SUFFICES ASSUME NEW t \in Threads, At(t, "sign_in")',
                    callback'[t].uid \notin overlapped'
             PROVE  users'[callback'[t].row]
                      = [uid |-> callback'[t].uid,
                         display_name |-> callback'[t].name]
  BY DEF PopulatedByShibboleth
<1>1. CASE Active(t) /\ callback'[t] = callback[t]
  <2>1. /\ callback[t].uid \notin overlapped /\ At(t, "sign_in")
        /\ users[callback[t].row] = [uid |-> callback[t].uid,
                                     display_name |-> callback[t].name]
    BY <1>0, <1>1 DEF PopulatedByShibboleth, At
  <2>2. callback[t].row \in RowsOf(callback[t].uid)
    BY <1>0, <2>1 DEF Held, At
  <2>3. callback[t].row \in Rows' /\ users'[callback[t].row].uid = callback[t].uid
    BY <1>0, <2>2, RowsGrow DEF Growth, RowsOf
  <2> QED BY <1>1, <2>1, <2>3, OthersKeepOut
<1>2. CASE Find(t)
  BY <1>0, <1>2, FindCases DEF At
<1>3. CASE Save(t)
  <2> DEFINE c == callback[t]
  <2>0. /\ c \in Callback /\ c.uid \notin overlapped /\ At(t, "save")
        /\ users \in Seq(Row) /\ Len(users) \in Nat
    BY <1>0, <1>3, SaveCases DEF Save, TypeOK
  <2>1. CASE /\ callback'[t].row = Len(users) + 1
             /\ users' = Append(users, [uid |-> c.uid, display_name |-> c.name])
    <3>1. [uid |-> c.uid, display_name |-> c.name] \in Row
      BY <2>0 DEF Callback, Row
    <3>2. users'[Len(users) + 1] = [uid |-> c.uid, display_name |-> c.name]
      BY <2>0, <2>1, <3>1, AppendProperties
    <3> QED BY <1>0, <1>3, <2>1, <3>2, SaveCases
  <2>2. CASE /\ c.row \in RowsOf(c.uid) /\ callback'[t].row = c.row
             /\ users' = [users EXCEPT ![c.row].display_name = c.name]
    <3>1. users'[c.row] = [uid |-> users[c.row].uid, display_name |-> c.name]
      BY <2>0, <2>2, Renaming DEF RowsOf, Callback
    <3> QED BY <1>0, <1>3, <2>2, <3>1, SaveCases DEF RowsOf
  <2>3. CASE /\ c.row \in RowsOf(c.uid) /\ callback'[t].row = c.row
             /\ users' = users /\ c.name = c.loaded
    <3>1. c.row # 0
      BY <2>0, <2>3 DEF RowsOf, Rows
    <3>2. users[c.row].display_name = c.name
      BY <2>0, <2>3, <3>1 DEF LookupHolds
    <3>3. users[c.row] \in Row
      BY <2>0, <2>3, ElementOfSeq DEF RowsOf, Rows
    <3>4. users[c.row] = [uid |-> c.uid, display_name |-> c.name]
      BY <2>3, <3>2, <3>3 DEF Row, RowsOf
    <3> QED BY <1>0, <1>3, <2>3, <3>4, SaveCases
  <2> QED BY <1>0, <1>3, <2>1, <2>2, <2>3, SaveCases
<1>4. CASE callback'[t].pc = "find"
  BY <1>4 DEF At
<1> QED BY <1>0, <1>1, <1>2, <1>3, <1>4, OneThreadMoves DEF At

\* A thread inserts only where it is still right that there is no row.
LEMMA OneRowStep ==
  ASSUME RowInv, LookupHolds, OneRowUnlessOverlapped, [Next]_vars
  PROVE  OneRowUnlessOverlapped'
<1>0. TypeOK /\ Held /\ overlapped \subseteq overlapped'
  BY OverlappedGrows DEF RowInv
<1>1. CASE UNCHANGED users
  BY <1>0, <1>1 DEF OneRowUnlessOverlapped, Rows
<1>2. ASSUME NEW t \in Threads, Save(t)
      PROVE  OneRowUnlessOverlapped'
  <2> DEFINE c == callback[t]
  <2>0. /\ c \in Callback /\ At(t, "save")
        /\ users \in Seq(Row) /\ Len(users) \in Nat
    BY <1>0, <1>2, SaveCases DEF Save, TypeOK
  <2>1. CASE /\ c.row = 0
             /\ users' = Append(users, [uid |-> c.uid, display_name |-> c.name])
    <3>1. c.uid \in overlapped \/ RowsOf(c.uid) = {}
      BY <2>0, <2>1 DEF LookupHolds
    <3>2. [uid |-> c.uid, display_name |-> c.name] \in Row
      BY <2>0 DEF Callback, Row
    <3>3. /\ Rows' = Rows \cup {Len(users) + 1}
          /\ \A i \in Rows : users'[i] = users[i]
          /\ users'[Len(users) + 1].uid = c.uid
      BY <2>0, <2>1, <3>2, AppendProperties DEF Rows
    <3> QED BY <1>0, <3>1, <3>3 DEF OneRowUnlessOverlapped, RowsOf
  <2>2. CASE /\ c.row \in RowsOf(c.uid)
             /\ users' = [users EXCEPT ![c.row].display_name = c.name]
    <3>1. Rows' = Rows /\ \A i \in Rows : users'[i].uid = users[i].uid
      BY <2>0, <2>2, Renaming DEF RowsOf, Callback
    <3> QED BY <1>0, <3>1 DEF OneRowUnlessOverlapped
  <2> QED BY <1>0, <1>1, <1>2, <2>1, <2>2, SaveCases
<1> QED
  BY <1>1, <1>2 DEF Next, Serve, vars, Arrive, ArriveWithUid, ArriveWithoutUid,
     Find, SignIn, Fail, SignOut, Bookmark

THEOREM AloneHolds == Spec => []AloneInv
<1>1. Init => AloneInv
  BY DEF Init, AloneInv, Overlaps, LookupHolds, PopulatedByShibboleth, At,
     Active, OneRowUnlessOverlapped, Rows
<1>2. RowInv /\ AloneInv /\ [Next]_vars => AloneInv'
  <2> SUFFICES ASSUME RowInv, AloneInv, [Next]_vars PROVE AloneInv'
    OBVIOUS
  <2>1. Overlaps' BY OverlapsStep DEF RowInv, AloneInv
  <2>2. LookupHolds' BY LookupStep DEF AloneInv
  <2>3. PopulatedByShibboleth' BY PopulatedStep DEF AloneInv
  <2>4. OneRowUnlessOverlapped' BY OneRowStep DEF AloneInv
  <2> QED BY <2>1, <2>2, <2>3, <2>4 DEF AloneInv
<1> QED BY <1>1, <1>2, RowsAreOnesOwn, PTL DEF Spec

\* find_or_initialize_by and save need no transaction for a person whose
\* callbacks do not overlap.
THEOREM OneRowPerCalmPerson == Spec => []OneRowUnlessOverlapped
<1>1. AloneInv => OneRowUnlessOverlapped BY DEF AloneInv
<1> QED BY <1>1, AloneHolds, PTL

\* The row that signs in holds what this callback was told.
THEOREM RowIsPopulated == Spec => []PopulatedByShibboleth
<1>1. AloneInv => PopulatedByShibboleth BY DEF AloneInv
<1> QED BY <1>1, AloneHolds, PTL

\* All that such a person bookmarked is in every session of the person.
THEOREM BookmarksStayWithThePerson == Spec => []BookmarksFollowThePerson
<1>1. RowInv /\ AloneInv => BookmarksFollowThePerson
  <2> SUFFICES ASSUME RowInv, AloneInv, NEW p \in Persons \ overlapped,
                      NEW i \in sessions[p]
               PROVE  {w \in Works : <<i, w>> \in bookmarks} = marked[p]
    BY DEF BookmarksFollowThePerson
  <2>1. i \in Rows /\ users[i].uid = p
    BY DEF RowInv, SignedInAsOneself
  <2>2. RowsOf(p) = {i}
    BY <2>1 DEF RowsOf, AloneInv, OneRowUnlessOverlapped
  <2> QED BY <2>2 DEF RowInv, Shelved
<1> QED BY <1>1, RowsAreOnesOwn, AloneHolds, PTL

----------------------------------------------------------------------------
(* How many duplicates overlapping callbacks can make                      *)

LEMMA FewAreFinite ==
  ASSUME TypeOK, NEW p \in Persons
  PROVE  /\ IsFiniteSet(RowsOf(p)) /\ Cardinality(RowsOf(p)) \in Nat
         /\ IsFiniteSet(Inserting(p)) /\ Cardinality(Inserting(p)) \in Nat
         /\ Cardinality(Inserting(p)) <= Cardinality(Threads) /\ Cardinality(Threads) \in Nat
<1>1. IsFiniteSet(1..Len(users))
  <2>1. Len(users) \in Nat /\ Len(users) \in Int /\ 1 \in Int
    BY DEF TypeOK
  <2> QED BY <2>1, FS_Interval
<1>2. RowsOf(p) \subseteq 1..Len(users) /\ Inserting(p) \subseteq Threads
  BY DEF RowsOf, Rows, Inserting
<1>3. /\ IsFiniteSet(RowsOf(p)) /\ IsFiniteSet(Inserting(p))
      /\ Cardinality(Inserting(p)) <= Cardinality(Threads)
  BY <1>1, <1>2, UsersAssumption, FS_Subset
<1> QED BY <1>3, UsersAssumption, FS_CardinalityType

\* Who has a row is looked up with success: no thread begins to insert.
LEMMA NobodyBeginsToInsert ==
  ASSUME TypeOK, Held, [Next]_vars, NEW p \in Persons, RowsOf(p) # {},
         NEW t \in Threads, At(t, "save")', callback'[t].uid = p, callback'[t].row = 0
  PROVE  t \in Inserting(p)
<1>1. Active(t)' /\ callback'[t].pc = "save"
  BY DEF At
<1>2. CASE Active(t) /\ callback'[t] = callback[t]
  BY <1>1, <1>2 DEF Inserting, At
<1>3. CASE Find(t)
  <2>1. callback[t].uid = p /\ callback'[t].row \in RowsOf(p)
    BY <1>3, FindCases
  <2>2. 0 \notin RowsOf(p)
    BY DEF RowsOf, Rows, TypeOK
  <2> QED BY <2>1, <2>2
<1>4. CASE Save(t)
  BY <1>1, <1>4, SaveCases
<1> QED BY <1>1, <1>2, <1>3, <1>4, OneThreadMoves

\* No row comes to the person: the inserts under way only become fewer.
LEMMA SameRowsFew ==
  ASSUME TypeOK, Held, [Next]_vars, DuplicatesStayFew, NEW p \in Persons,
         RowsOf(p)' = RowsOf(p), RowsOf(p) # {}
  PROVE  Cardinality(RowsOf(p)') + Cardinality(Inserting(p)') <= Cardinality(Threads)
<1>1. Inserting(p)' \subseteq Inserting(p)
  BY NobodyBeginsToInsert DEF Inserting
<1>2. /\ IsFiniteSet(Inserting(p)) /\ Cardinality(Inserting(p)) \in Nat
      /\ Cardinality(RowsOf(p)) \in Nat /\ Cardinality(Threads) \in Nat
  BY FewAreFinite
<1>3. Cardinality(Inserting(p)') <= Cardinality(Inserting(p)) /\ IsFiniteSet(Inserting(p)')
  BY <1>1, <1>2, FS_Subset
<1>4. Cardinality(Inserting(p)') \in Nat
  BY <1>3, FS_CardinalityType
<1>5. Cardinality(RowsOf(p)) + Cardinality(Inserting(p)) <= Cardinality(Threads)
  BY DEF DuplicatesStayFew
<1> QED BY <1>2, <1>3, <1>4, <1>5

LEMMA FewStep ==
  ASSUME TypeOK, Held, [Next]_vars, DuplicatesStayFew
  PROVE  DuplicatesStayFew'
<1> SUFFICES ASSUME NEW p \in Persons, RowsOf(p)' # {}
             PROVE  Cardinality(RowsOf(p)') + Cardinality(Inserting(p)') <= Cardinality(Threads)
  BY DEF DuplicatesStayFew
<1>1. CASE RowsOf(p)' = RowsOf(p)
  BY <1>1, SameRowsFew
<1>2. CASE RowsOf(p)' # RowsOf(p)
  <2>1. PICK t \in Threads : Save(t) /\ users' # users
    <3>1. users' # users
      BY <1>2 DEF RowsOf, Rows
    <3> QED BY <3>1 DEF Next, Serve, vars, Arrive, ArriveWithUid, ArriveWithoutUid, Find, SignIn,
                        Fail, SignOut, Bookmark
  <2> DEFINE c == callback[t]
             n == Len(users) + 1
  <2>2. c \in Callback /\ users \in Seq(Row) /\ Len(users) \in Nat /\ n \in Nat
    <3>1. c \in Callback
      BY <2>1, SaveCases
    <3>2. users \in Seq(Row) /\ Len(users) \in Nat
      BY DEF TypeOK
    <3> QED BY <3>1, <3>2
  <2>3. CASE /\ c.row \in RowsOf(c.uid)
             /\ users' = [users EXCEPT ![c.row].display_name = c.name]
    <3>1. Rows' = Rows /\ \A j \in Rows : users'[j].uid = users[j].uid
      BY <2>2, <2>3, Renaming DEF RowsOf, Callback
    <3> QED BY <1>2, <3>1 DEF RowsOf
  <2>4. CASE c.row = 0 /\ users' = Append(users, [uid |-> c.uid, display_name |-> c.name])
    <3>1. [uid |-> c.uid, display_name |-> c.name] \in Row
      BY <2>2 DEF Callback, Row
    <3>2. /\ Rows' = Rows \cup {n} /\ n \notin Rows /\ users'[n].uid = c.uid
          /\ \A i \in Rows : users'[i] = users[i]
      BY <2>2, <2>4, <3>1, AppendProperties DEF Rows
    <3>3. c.uid = p /\ RowsOf(p)' = RowsOf(p) \cup {n} /\ n \notin RowsOf(p)
      <4>1. CASE c.uid # p
        <5>1. RowsOf(p)' = RowsOf(p)
          BY <3>2, <4>1 DEF RowsOf
        <5> QED BY <1>2, <5>1
      <4>2. CASE c.uid = p
        BY <3>2, <4>2 DEF RowsOf
      <4> QED BY <4>1, <4>2
    <3>4. t \in Inserting(p) /\ callback'[t].pc = "sign_in"
      <4>1. callback'[t].pc = "sign_in"
        BY <2>1, SaveCases
      <4> QED BY <2>1, <2>4, <3>3, <4>1 DEF Save, Inserting, At
    <3>5. Inserting(p)' \subseteq Inserting(p) \ {t}
      <4>1. ASSUME NEW s \in Threads, At(s, "save")', callback'[s].uid = p, callback'[s].row = 0
            PROVE  s \in Inserting(p) \ {t}
        <5>1. s # t
          BY <3>4, <4>1 DEF At
        <5>2. callback'[s] = callback[s]
          BY <2>1, <5>1, SaveCases
        <5> QED BY <4>1, <5>1, <5>2 DEF Inserting, At, Active
      <4> QED BY <4>1 DEF Inserting
    <3> HIDE DEF n, c
    <3>6. /\ IsFiniteSet(RowsOf(p)) /\ Cardinality(RowsOf(p)) \in Nat
          /\ IsFiniteSet(Inserting(p)) /\ Cardinality(Inserting(p)) \in Nat
          /\ Cardinality(Inserting(p)) <= Cardinality(Threads) /\ Cardinality(Threads) \in Nat
      BY FewAreFinite
    <3>7. Cardinality(RowsOf(p)') = Cardinality(RowsOf(p)) + 1
      BY <3>3, <3>6, FS_AddElement
    <3>8. /\ IsFiniteSet(Inserting(p) \ {t})
          /\ Cardinality(Inserting(p) \ {t}) = Cardinality(Inserting(p)) - 1
      BY <3>4, <3>6, FS_RemoveElement
    <3>9. /\ Cardinality(Inserting(p)') <= Cardinality(Inserting(p)) - 1
          /\ Cardinality(Inserting(p)') \in Nat
      BY <3>5, <3>8, FS_Subset, FS_CardinalityType
    <3>10. CASE RowsOf(p) = {}
      <4>1. Cardinality(RowsOf(p)) = 0
        BY <3>10, FS_EmptySet
      <4> QED BY <3>6, <3>7, <3>9, <4>1
    <3>11. CASE RowsOf(p) # {}
      <4>1. Cardinality(RowsOf(p)) + Cardinality(Inserting(p)) <= Cardinality(Threads)
        BY <3>11 DEF DuplicatesStayFew
      <4> QED BY <3>6, <3>7, <3>9, <4>1
    <3> QED BY <3>10, <3>11
  <2> QED BY <2>1, <2>3, <2>4, SaveCases
<1> QED BY <1>1, <1>2

\* However many callbacks of a person overlap, follow and fail, the person has at
\* most as many rows as puma has threads (find_or_initialize_by and save without a
\* unique index, user.rb:35-39).
THEOREM DuplicatesAreFew == Spec => []DuplicatesStayFew
<1>1. Init => DuplicatesStayFew
  BY DEF Init, DuplicatesStayFew, RowsOf, Rows
<1>2. RowInv /\ DuplicatesStayFew /\ [Next]_vars => DuplicatesStayFew'
  BY FewStep DEF RowInv
<1> QED BY <1>1, <1>2, RowsAreOnesOwn, PTL DEF Spec
=============================================================================
