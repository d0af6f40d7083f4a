---------------------------- MODULE Accounts_proofs ----------------------------
(***************************************************************************)
(* Proofs about Accounts, for any number of threads, users and sessions,   *)
(* any configuration and any number of restarts.                           *)
(***************************************************************************)
EXTENDS Accounts, FiniteSetTheorems, SequenceTheorems, TLAPS

(***************************************************************************)
(* The tables, with what the two safety properties say of them.            *)
(***************************************************************************)
TablesOK ==
    /\ UsersOK /\ SessionsOK /\ owned \subseteq UserId /\ ServerOK
    /\ SessionsHaveUsers

AccountsInv == TablesOK /\ ThreadOK

LEMMA WithIs ==
  ASSUME NEW f, NEW k, NEW row
  PROVE  /\ DOMAIN With(f, k, row) = DOMAIN f \cup {k}
         /\ With(f, k, row)[k] = row
         /\ \A x \in DOMAIN f \ {k} : With(f, k, row)[x] = f[x]
  BY DEF With

LEMMA WithoutIs ==
  ASSUME NEW f, NEW keys
  PROVE  /\ DOMAIN Without(f, keys) = DOMAIN f \ keys
         /\ \A x \in DOMAIN f \ keys : Without(f, keys)[x] = f[x]
  BY DEF Without

LEMMA UserRowIs ==
  ASSUME NEW n \in Name, NEW r \in Role, NEW p \in Password
  PROVE  UserRow(n, r, p) \in [name : Name, role : Role, pass : Password]
  BY DEF UserRow

LEMMA LocalIsArg ==
  ASSUME NEW u \in Nat, NEW k \in Nat, NEW r \in Role \cup {"none"}, NEW target \in Nat,
         NEW name \in SUBSET Name, NEW grant \in SUBSET Role, NEW pass \in SUBSET Password,
         NEW alone \in BOOLEAN
  PROVE  Local(u, k, r, target, name, grant, pass, alone) \in Arg
  BY DEF Local, Arg

LEMMA AskingIsArg ==
  ASSUME NEW u \in Nat, NEW k \in Nat, NEW r \in Role \cup {"none"}
  PROVE  Asking(u, k, r) \in Arg
  BY LocalIsArg DEF Asking

LEMMA AddingIsArg ==
  ASSUME NEW n \in Name, NEW r \in Role, NEW p \in Password
  PROVE  Adding(n, r, p) \in Arg
  BY LocalIsArg DEF Adding

LEMMA EditingIsArg ==
  ASSUME NEW u \in Nat, NEW grant \in SUBSET Role, NEW pass \in SUBSET Password,
         NEW alone \in BOOLEAN
  PROVE  Editing(u, grant, pass, alone) \in Arg
  BY LocalIsArg DEF Editing

LEMMA NoArgIsArg == NoArg \in Arg
  BY AskingIsArg DEF NoArg

LEMMA RoleOfIs == ASSUME UsersOK, NEW u PROVE RoleOf(u) \in Role \cup {"none"}
  BY DEF UsersOK, RoleOf

LEMMA GoesOn ==
  ASSUME ThreadOK, NEW t \in Thread, NEW label \in Label, NEW a \in Arg, Goes(t, label, a)
  PROVE  ThreadOK'
  BY DEF ThreadOK, Goes

LEMMA AnswersOn == ASSUME ThreadOK, NEW t \in Thread, Answers(t) PROVE ThreadOK'
  BY NoArgIsArg, GoesOn DEF Answers, Label

LEMMA ArgOf ==
  ASSUME ThreadOK, NEW t \in Thread
  PROVE  /\ arg[t] \in Arg
         /\ arg[t].user \in Nat /\ arg[t].token \in Nat /\ arg[t].target \in Nat
         /\ arg[t].role \in Role \cup {"none"}
         /\ arg[t].name \in SUBSET Name /\ arg[t].grant \in SUBSET Role
         /\ arg[t].pass \in SUBSET Password /\ arg[t].alone \in BOOLEAN
  BY DEF ThreadOK, Arg

\* A statement that only reads leaves the tables as they were.
LEMMA ReadsKeepTables == ASSUME TablesOK, UNCHANGED <<table, server>> PROVE TablesOK'
  BY DEF TablesOK, UsersOK, SessionsOK, ServerOK, SessionsHaveUsers,
         table, server

(***************************************************************************)
(* The start and the end of the process.                                   *)
(***************************************************************************)
LEMMA InitInv == Init => AccountsInv
<1> SUFFICES ASSUME Init PROVE AccountsInv
  OBVIOUS
<1> USE DEF Init
<1>1. UsersOK
  BY AccountsAssumption DEF UsersOK
<1>2. SessionsOK /\ owned \subseteq UserId
  BY AccountsAssumption DEF SessionsOK
<1>3. ServerOK
  BY AccountsAssumption DEF ServerOK
<1>4. SessionsHaveUsers
  BY DEF SessionsHaveUsers
<1>5. ThreadOK
  BY NoArgIsArg DEF ThreadOK, Label
<1> QED
  BY <1>1, <1>2, <1>3, <1>4, <1>5 DEF AccountsInv, TablesOK

LEMMA RestartStep == ASSUME AccountsInv, Restart PROVE AccountsInv'
<1> USE DEF Restart
<1>0. ServerOK'
  BY AccountsAssumption DEF AccountsInv, TablesOK, ServerOK
<1>1. TablesOK'
  BY <1>0 DEF AccountsInv, TablesOK, UsersOK, SessionsOK, SessionsHaveUsers, table
<1>2. ThreadOK'
  BY NoArgIsArg DEF ThreadOK, Label
<1> QED
  BY <1>1, <1>2 DEF AccountsInv

\* A new user, or a user with another role or password, disturbs no session: ids are
\* not used again and no id disappears.
LEMMA UsersGrow ==
  ASSUME TablesOK, UsersOK', DOMAIN user \subseteq DOMAIN user',
         UNCHANGED <<session, nToken, owned>>, ServerOK'
  PROVE  TablesOK'
  BY DEF TablesOK, SessionsOK, SessionsHaveUsers

LEMMA InsertUserKeeps ==
  ASSUME UsersOK, NEW n \in Name, NEW r \in Role, NEW p \in Password, InsertUser(n, r, p)
  PROVE  UsersOK' /\ DOMAIN user \subseteq DOMAIN user'
<1>1. CASE UNCHANGED <<user, nUser>>
  BY <1>1 DEF UsersOK
<1>2. CASE /\ nUser # MaxUser
           /\ nUser' = nUser + 1
           /\ user' = With(user, nUser + 1, UserRow(n, r, p))
  <2>1. DOMAIN user' = DOMAIN user \cup {nUser + 1}
    BY <1>2, WithIs
  <2>2. \A u \in DOMAIN user' : user'[u] \in [name : Name, role : Role, pass : Password]
    <3>1. UserRow(n, r, p) \in [name : Name, role : Role, pass : Password]
      BY UserRowIs
    <3>2. user'[nUser + 1] = UserRow(n, r, p)
      BY <1>2 DEF With
    <3>3. \A u \in DOMAIN user \ {nUser + 1} : user'[u] = user[u]
      BY <1>2 DEF With
    <3> QED
      BY <2>1, <3>1, <3>2, <3>3 DEF UsersOK
  <2>3. nUser' \in 0..MaxUser /\ nUser' = nUser + 1
    BY <1>2, AccountsAssumption DEF UsersOK
  <2> QED
    BY <2>1, <2>2, <2>3, AccountsAssumption DEF UsersOK
<1> QED
  BY <1>1, <1>2 DEF InsertUser

LEMMA SeedUserStep == ASSUME AccountsInv, NEW n, SeedUser(n) PROVE AccountsInv'
<1>1. n \in DOMAIN Seed /\ ServerOK'
  BY DEF SeedUser, AccountsInv, TablesOK, ServerOK
<1>2. Seed[n].role \in Role /\ Seed[n].pass \in Password /\ n \in Name
  BY <1>1, AccountsAssumption
<1>3. UsersOK' /\ DOMAIN user \subseteq DOMAIN user'
  <2>1. CASE /\ ~Taken({n})
             /\ InsertUser(n, Seed[n].role, Seed[n].pass)
    BY <1>2, <2>1, InsertUserKeeps DEF AccountsInv, TablesOK
  <2>2. ASSUME NEW u \in DOMAIN user, user[u].name = n, UNCHANGED nUser,
               user' = [user EXCEPT ![u] = UserRow(n, user[u].role, Seed[n].pass)]
        PROVE  UsersOK' /\ DOMAIN user \subseteq DOMAIN user'
    <3>1. UserRow(n, user[u].role, Seed[n].pass) \in [name : Name, role : Role, pass : Password]
      BY <1>2, <2>2, UserRowIs DEF AccountsInv, TablesOK, UsersOK
    <3> QED
      BY <2>2, <3>1 DEF AccountsInv, TablesOK, UsersOK
  <2> QED
    BY <2>1, <2>2 DEF SeedUser
<1>4. TablesOK'
  BY <1>1, <1>3, UsersGrow DEF SeedUser, AccountsInv
<1>5. ThreadOK'
  BY DEF SeedUser, AccountsInv, ThreadOK, thread
<1> QED
  BY <1>4, <1>5 DEF AccountsInv

(***************************************************************************)
(* The statements that write sessions.                                     *)
(***************************************************************************)
LEMMA SessionsChange ==
  ASSUME TablesOK, SessionsOK', UNCHANGED <<user, nUser, owned, server>>,
         \A k \in DOMAIN session' : session'[k].user \in DOMAIN user
  PROVE  TablesOK'
  BY DEF TablesOK, UsersOK, ServerOK, SessionsHaveUsers, server

\* Sessions that go take nothing with them.
LEMMA SessionsShrink ==
  ASSUME TablesOK, NEW keys, session' = Without(session, keys),
         UNCHANGED <<user, nUser, nToken, owned, server>>
  PROVE  TablesOK'
<1>1. /\ DOMAIN session' = DOMAIN session \ keys
      /\ \A k \in DOMAIN session' : session'[k] = session[k]
  BY DEF Without
<1>2. SessionsOK'
  BY <1>1 DEF TablesOK, SessionsOK
<1>3. \A k \in DOMAIN session' : session'[k].user \in DOMAIN user
  BY <1>1 DEF TablesOK, SessionsHaveUsers
<1> QED
  BY <1>2, <1>3, SessionsChange

LEMMA DeleteSessionsKeeps ==
  ASSUME TablesOK, NEW keys, DeleteSessions(keys),
         UNCHANGED <<user, nUser, nToken, owned, server>>
  PROVE  TablesOK'
  BY SessionsShrink DEF DeleteSessions

LEMMA LogoutStep ==
  ASSUME AccountsInv, NEW t \in Thread, Logout(t) \/ DeleteAuditSession(t)
  PROVE  AccountsInv'
<1>1. TablesOK'
  BY DeleteSessionsKeeps DEF Logout, DeleteAuditSession, AccountsInv
<1>2. ThreadOK'
  BY AnswersOn DEF Logout, DeleteAuditSession, AccountsInv
<1> QED
  BY <1>1, <1>2 DEF AccountsInv

LEMMA DeleteUserSessionsStep ==
  ASSUME AccountsInv, NEW t \in Thread, DeleteUserSessions(t) PROVE AccountsInv'
<1>1. TablesOK'
  BY DeleteSessionsKeeps DEF DeleteUserSessions, AccountsInv
<1>2. ThreadOK'
  BY ArgOf, GoesOn DEF DeleteUserSessions, AccountsInv, Label
<1> QED
  BY <1>1, <1>2 DEF AccountsInv

LEMMA CleanupStep == ASSUME AccountsInv, Cleanup PROVE AccountsInv'
<1>1. TablesOK'
  BY SessionsShrink DEF Cleanup, AccountsInv
<1>2. ThreadOK'
  BY DEF Cleanup, AccountsInv, ThreadOK, thread
<1> QED
  BY <1>1, <1>2 DEF AccountsInv

LEMMA TickStep == ASSUME AccountsInv, Tick PROVE AccountsInv'
<1> DEFINE Left(k) == IF session[k].left > 0 THEN session[k].left - 1 ELSE 0
<1>1. /\ DOMAIN session' = DOMAIN session
      /\ \A k \in DOMAIN session : session'[k] = [user |-> session[k].user, left |-> Left(k)]
  BY DEF Tick
<1>2. \A k \in DOMAIN session : session[k].user \in UserId /\ Left(k) \in Nat
  BY DEF AccountsInv, TablesOK, SessionsOK
<1>3. SessionsOK'
  <2>1. \A k \in DOMAIN session' : session'[k] \in [user : UserId, left : Nat]
    BY <1>1, <1>2
  <2> HIDE DEF Left
  <2> QED
    BY <1>1, <2>1 DEF Tick, AccountsInv, TablesOK, SessionsOK
<1>4. \A k \in DOMAIN session' : session'[k].user \in DOMAIN user
  BY <1>1 DEF AccountsInv, TablesOK, SessionsHaveUsers
<1>5. TablesOK'
  BY <1>3, <1>4, SessionsChange DEF Tick, AccountsInv
<1>6. ThreadOK'
  BY DEF Tick, AccountsInv, ThreadOK, thread
<1> QED
  BY <1>5, <1>6 DEF AccountsInv

\* A session that is put where one is, or under a token that is new.
LEMMA SessionIsPut ==
  ASSUME TablesOK, NEW k \in 1..nToken', NEW u \in DOMAIN user, NEW hours \in Nat,
         nToken' \in 0..MaxToken, nToken' \in {nToken, nToken + 1},
         session' = With(session, k, [user |-> u, left |-> hours]),
         UNCHANGED <<user, nUser, owned, server>>
  PROVE  TablesOK'
<1>1. /\ DOMAIN session' = DOMAIN session \cup {k}
      /\ session'[k] = [user |-> u, left |-> hours]
      /\ \A x \in DOMAIN session \ {k} : session'[x] = session[x]
  BY DEF With
<1>2. u \in UserId
  BY AccountsAssumption DEF TablesOK, UsersOK, UserId
<1>3. SessionsOK'
  <2>1. [user |-> u, left |-> hours] \in [user : UserId, left : Nat]
    BY <1>2
  <2>2. \A x \in DOMAIN session' : session'[x] \in [user : UserId, left : Nat]
    BY <1>1, <2>1 DEF TablesOK, SessionsOK
  <2>3. DOMAIN session' \subseteq 1..nToken'
    BY <1>1, AccountsAssumption DEF TablesOK, SessionsOK
  <2> QED
    BY <2>2, <2>3 DEF SessionsOK
<1>4. \A x \in DOMAIN session' : session'[x].user \in DOMAIN user
  BY <1>1 DEF TablesOK, SessionsHaveUsers
<1> QED
  BY <1>3, <1>4, SessionsChange

LEMMA OpenStep == ASSUME AccountsInv, NEW t \in Thread, Open(t) PROVE AccountsInv'
<1>1. ThreadOK'
  BY AnswersOn DEF Open, AccountsInv
<1>2. CASE UNCHANGED <<session, nToken>>
  <2>1. TablesOK'
    BY <1>2, ReadsKeepTables DEF Open, AccountsInv, table
  <2> QED
    BY <1>1, <2>1 DEF AccountsInv
<1>3. CASE /\ arg[t].user \in DOMAIN user /\ nToken < MaxToken
           /\ nToken' = nToken + 1
           /\ session' = With(session, nToken + 1,
                              [user |-> arg[t].user, left |-> SessionHours])
  <2>1. nToken' \in 0..MaxToken /\ nToken + 1 \in 1..nToken'
    BY <1>3, AccountsAssumption DEF AccountsInv, TablesOK, SessionsOK
  <2>2. TablesOK'
    BY <1>3, <2>1, SessionIsPut, AccountsAssumption DEF Open, AccountsInv
  <2> QED
    BY <1>1, <2>2 DEF AccountsInv
<1> QED
  BY <1>2, <1>3 DEF Open

\* A session that was ended meanwhile is not there to be extended.
LEMMA ExtendStep == ASSUME AccountsInv, NEW t \in Thread, Extend(t) PROVE AccountsInv'
<1> DEFINE k == arg[t].token
<1>1. ThreadOK'
  BY ArgOf, GoesOn DEF Extend, AccountsInv, Label
<1>2. CASE k \notin DOMAIN session
  <2>1. TablesOK'
    BY <1>2, ReadsKeepTables DEF Extend, AccountsInv, table
  <2> QED
    BY <1>1, <2>1 DEF AccountsInv
<1>3. CASE k \in DOMAIN session
  <2>1. session' = With(session, k, [user |-> session[k].user, left |-> SlideHours])
    BY <1>3 DEF Extend
  <2>2. /\ session[k].user \in DOMAIN user /\ k \in 1..nToken
        /\ nToken \in 0..MaxToken
    BY <1>3 DEF AccountsInv, TablesOK, SessionsOK, SessionsHaveUsers
  <2>3. UNCHANGED <<user, nUser, nToken, owned, server>>
    BY DEF Extend
  <2> HIDE DEF k
  <2>4. TablesOK'
    BY <2>1, <2>2, <2>3, SessionIsPut, AccountsAssumption DEF AccountsInv
  <2> QED
    BY <1>1, <2>4 DEF AccountsInv
<1> QED
  BY <1>2, <1>3

(***************************************************************************)
(* The statements that write users and items.                              *)
(***************************************************************************)
LEMMA PostUserInsertStep ==
  ASSUME AccountsInv, NEW t \in Thread, PostUserInsert(t) PROVE AccountsInv'
<1>1. PICK n \in arg[t].name, r \in arg[t].grant, p \in arg[t].pass : InsertUser(n, r, p)
  BY DEF PostUserInsert
<1>2. n \in Name /\ r \in Role /\ p \in Password
  BY ArgOf DEF AccountsInv
<1>3. UsersOK' /\ DOMAIN user \subseteq DOMAIN user'
  BY <1>1, <1>2, InsertUserKeeps DEF AccountsInv, TablesOK
<1>4. TablesOK'
  BY <1>3, UsersGrow DEF PostUserInsert, AccountsInv, TablesOK, ServerOK, server
<1>5. ThreadOK'
  BY AnswersOn DEF PostUserInsert, AccountsInv
<1> QED
  BY <1>4, <1>5 DEF AccountsInv

LEMMA PutUserRoleStep ==
  ASSUME AccountsInv, NEW t \in Thread, PutUserRole(t) PROVE AccountsInv'
<1>1. PICK r \in arg[t].grant :
        user' = [u \in DOMAIN user |-> IF u = arg[t].target
                                         THEN UserRow(user[u].name, r, user[u].pass)
                                         ELSE user[u]]
  BY DEF PutUserRole
<1>2. \A u \in DOMAIN user :
        UserRow(user[u].name, r, user[u].pass) \in [name : Name, role : Role, pass : Password]
  BY ArgOf, UserRowIs DEF AccountsInv, TablesOK, UsersOK
<1>3. DOMAIN user' = DOMAIN user
  BY <1>1
<1>4. \A u \in DOMAIN user' : user'[u] \in [name : Name, role : Role, pass : Password]
  BY <1>1, <1>2 DEF AccountsInv, TablesOK, UsersOK
<1>5. UsersOK'
  BY <1>3, <1>4 DEF PutUserRole, AccountsInv, TablesOK, UsersOK
<1>6. TablesOK'
  BY <1>3, <1>5, UsersGrow DEF PutUserRole, AccountsInv, TablesOK, ServerOK, server
<1>7. ThreadOK'
  BY ArgOf, GoesOn DEF PutUserRole, AccountsInv, Label
<1> QED
  BY <1>6, <1>7 DEF AccountsInv

LEMMA PutUserPassStep ==
  ASSUME AccountsInv, NEW t \in Thread, PutUserPass(t) PROVE AccountsInv'
<1>1. UsersOK' /\ DOMAIN user' = DOMAIN user
  <2>1. CASE UNCHANGED user
    BY <2>1 DEF PutUserPass, AccountsInv, TablesOK, UsersOK
  <2>2. ASSUME NEW p \in arg[t].pass,
               user' = [u \in DOMAIN user |-> IF u = arg[t].target
                                                THEN UserRow(user[u].name, user[u].role, p)
                                                ELSE user[u]]
        PROVE  UsersOK' /\ DOMAIN user' = DOMAIN user
    <3>1. \A u \in DOMAIN user :
            UserRow(user[u].name, user[u].role, p) \in [name : Name, role : Role, pass : Password]
      BY ArgOf, UserRowIs DEF AccountsInv, TablesOK, UsersOK
    <3>2. DOMAIN user' = DOMAIN user
      BY <2>2
    <3>3. \A u \in DOMAIN user' : user'[u] \in [name : Name, role : Role, pass : Password]
      BY <2>2, <3>1 DEF AccountsInv, TablesOK, UsersOK
    <3> QED
      BY <3>2, <3>3 DEF PutUserPass, AccountsInv, TablesOK, UsersOK
  <2> QED
    BY <2>1, <2>2 DEF PutUserPass
<1>2. TablesOK'
  BY <1>1, UsersGrow DEF PutUserPass, AccountsInv, TablesOK, ServerOK, server
<1>3. ThreadOK'
  BY AnswersOn DEF PutUserPass, AccountsInv
<1> QED
  BY <1>2, <1>3 DEF AccountsInv

\* The foreign keys keep a user with a session or an item.
LEMMA DeleteUserRowStep ==
  ASSUME AccountsInv, NEW t \in Thread, DeleteUserRow(t) PROVE AccountsInv'
<1> DEFINE u == arg[t].target
<1>1. ThreadOK'
  BY AnswersOn DEF DeleteUserRow, AccountsInv
<1>2. CASE UNCHANGED user
  <2>1. TablesOK'
    BY <1>2, ReadsKeepTables DEF DeleteUserRow, AccountsInv, table
  <2> QED
    BY <1>1, <2>1 DEF AccountsInv
<1>3. CASE /\ u \notin owned
           /\ \A k \in DOMAIN session : session[k].user # u
           /\ user' = Without(user, {u})
  <2>1. /\ DOMAIN user' = DOMAIN user \ {u}
        /\ \A v \in DOMAIN user' : user'[v] = user[v]
    BY <1>3 DEF Without
  <2> HIDE DEF u
  <2>2. UsersOK'
    BY <2>1 DEF DeleteUserRow, AccountsInv, TablesOK, UsersOK
  <2>3. SessionsHaveUsers'
    BY <1>3, <2>1 DEF DeleteUserRow, AccountsInv, TablesOK, SessionsHaveUsers
  <2>4. TablesOK'
    BY <2>2, <2>3 DEF DeleteUserRow, AccountsInv, TablesOK, SessionsOK, ServerOK, server
  <2> QED
    BY <1>1, <2>4 DEF AccountsInv
<1> QED
  BY <1>2, <1>3 DEF DeleteUserRow

LEMMA OwnershipKeeps ==
  ASSUME TablesOK, owned' \subseteq DOMAIN user,
         UNCHANGED <<user, nUser, session, nToken, server>>
  PROVE  TablesOK'
<1>1. owned' \subseteq UserId
  BY AccountsAssumption DEF TablesOK, UsersOK, UserId
<1> QED
  BY <1>1 DEF TablesOK, UsersOK, SessionsOK, ServerOK, SessionsHaveUsers, server

LEMMA OwnItemStep == ASSUME AccountsInv, NEW t \in Thread, OwnItem(t) PROVE AccountsInv'
<1>1. TablesOK'
  BY OwnershipKeeps DEF OwnItem, AccountsInv, TablesOK, SessionsHaveUsers
<1>2. ThreadOK'
  BY AnswersOn DEF OwnItem, AccountsInv
<1> QED
  BY <1>1, <1>2 DEF AccountsInv

LEMMA DisownItemStep == ASSUME AccountsInv, DisownItem PROVE AccountsInv'
<1>1. TablesOK'
  BY OwnershipKeeps DEF DisownItem, AccountsInv, TablesOK, SessionsHaveUsers
<1>2. ThreadOK'
  BY DEF DisownItem, AccountsInv, ThreadOK, thread
<1> QED
  BY <1>1, <1>2 DEF AccountsInv

(***************************************************************************)
(* The statements that only read: the thread goes on with what it has.     *)
(***************************************************************************)
LEMMA ReadStep ==
  ASSUME AccountsInv, UNCHANGED <<table, server>>, NEW t \in Thread,
         NEW label \in Label, NEW a \in Arg, Goes(t, label, a)
  PROVE  AccountsInv'
  BY ReadsKeepTables, GoesOn DEF AccountsInv

LEMMA AnswerStep ==
  ASSUME AccountsInv, UNCHANGED <<table, server>>, NEW t \in Thread, Answers(t)
  PROVE  AccountsInv'
  BY ReadsKeepTables, AnswersOn DEF AccountsInv

LEMMA UserIdsAreNat == UserId \subseteq Nat /\ Token \subseteq Nat
  BY AccountsAssumption DEF UserId, Token

LEMMA RequestReads ==
  ASSUME AccountsInv, NEW t \in Thread,
         Login(t) \/ Request(t) \/ ReadRole(t) \/ Done(t)
  PROVE  AccountsInv'
<1>1. CASE Login(t)
  <2>1. PICK u \in DOMAIN user : Goes(t, "open", Asking(u, 0, "none"))
    BY <1>1 DEF Login
  <2>2. Asking(u, 0, "none") \in Arg
    BY AskingIsArg, AccountsAssumption DEF AccountsInv, TablesOK, UsersOK
  <2> QED
    BY <1>1, <2>1, <2>2, ReadStep DEF Login, Label
<1>2. CASE Request(t)
  <2>1. PICK k \in DOMAIN session : Goes(t, "extend", Asking(session[k].user, k, "none"))
    BY <1>2 DEF Request
  <2>2. session[k].user \in Nat /\ k \in Nat
    <3>1. session[k] \in [user : UserId, left : Nat] /\ k \in 1..nToken
      BY DEF AccountsInv, TablesOK, SessionsOK
    <3>2. session[k].user \in UserId
      BY <3>1
    <3>3. k \in Nat
      BY <3>1, AccountsAssumption DEF AccountsInv, TablesOK, SessionsOK
    <3> QED
      BY <3>2, <3>3, UserIdsAreNat
  <2>3. Asking(session[k].user, k, "none") \in Arg
    BY <2>2, AskingIsArg
  <2> QED
    BY <1>2, <2>1, <2>3, ReadStep DEF Request, Label
<1>3. CASE ReadRole(t)
  <2>1. Asking(arg[t].user, arg[t].token, RoleOf(arg[t].user)) \in Arg
    BY AskingIsArg, ArgOf, RoleOfIs DEF AccountsInv, TablesOK
  <2> QED
    BY <1>3, <2>1, ReadStep DEF ReadRole, Label
<1>4. CASE Done(t)
  BY <1>4, AnswerStep DEF Done
<1> QED
  BY <1>1, <1>2, <1>3, <1>4

LEMMA PostUserReads ==
  ASSUME AccountsInv, NEW t \in Thread, PostUser(t) \/ PostUserCheck(t)
  PROVE  AccountsInv'
<1>1. CASE PostUser(t)
  <2>1. PICK n \in Name, r \in Role, p \in Password : Goes(t, "post_check", Adding(n, r, p))
    BY <1>1 DEF PostUser
  <2> QED
    BY <1>1, <2>1, AddingIsArg, ReadStep DEF PostUser, Label
<1>2. CASE PostUserCheck(t)
  <2>1. CASE Answers(t)
    BY <1>2, <2>1, AnswerStep DEF PostUserCheck
  <2>2. CASE Goes(t, "post_insert", arg[t])
    BY <1>2, <2>2, ArgOf, ReadStep DEF PostUserCheck, AccountsInv, Label
  <2> QED
    BY <1>2, <2>1, <2>2 DEF PostUserCheck
<1> QED
  BY <1>1, <1>2

LEMMA PutUserReads ==
  ASSUME AccountsInv, NEW t \in Thread,
         ChangePassword(t) \/ PutUser(t) \/ PutUserCount(t) \/ PutUserTarget(t)
  PROVE  AccountsInv'
<1>1. CASE ChangePassword(t)
  <2>1. PICK p \in Password : Goes(t, "put_pass", Editing(arg[t].user, {}, {p}, FALSE))
    BY <1>1 DEF ChangePassword
  <2>2. Editing(arg[t].user, {}, {p}, FALSE) \in Arg
    BY EditingIsArg, ArgOf DEF AccountsInv
  <2> QED
    BY <1>1, <2>1, <2>2, ReadStep DEF ChangePassword, Label
<1>2. CASE PutUser(t)
  <2>1. PICK u \in UserId, grant \in SUBSET Role, pass \in SUBSET Password,
             label \in {"put_count", "put_role", "put_pass"} :
               Goes(t, label, Editing(u, grant, pass, FALSE))
    BY <1>2 DEF PutUser
  <2>2. Editing(u, grant, pass, FALSE) \in Arg
    BY EditingIsArg, UserIdsAreNat
  <2> QED
    BY <1>2, <2>1, <2>2, ReadStep DEF PutUser, Label
<1>3. CASE PutUserCount(t)
  <2> DEFINE alone == Cardinality(Admins) <= 1
  <2>1. alone \in BOOLEAN
    OBVIOUS
  <2>2. Goes(t, "put_target", Editing(arg[t].target, arg[t].grant, arg[t].pass, alone))
    BY <1>3 DEF PutUserCount
  <2> HIDE DEF alone
  <2>3. Editing(arg[t].target, arg[t].grant, arg[t].pass, alone) \in Arg
    BY <2>1, EditingIsArg, ArgOf DEF AccountsInv
  <2> QED
    BY <1>3, <2>2, <2>3, ReadStep DEF PutUserCount, Label
<1>4. CASE PutUserTarget(t)
  <2>1. CASE Answers(t)
    BY <1>4, <2>1, AnswerStep DEF PutUserTarget
  <2>2. CASE Goes(t, "put_role", arg[t])
    BY <1>4, <2>2, ArgOf, ReadStep DEF PutUserTarget, AccountsInv, Label
  <2> QED
    BY <1>4, <2>1, <2>2 DEF PutUserTarget
<1> QED
  BY <1>1, <1>2, <1>3, <1>4

LEMMA DeleteUserReads ==
  ASSUME AccountsInv, NEW t \in Thread, DeleteUser(t) \/ DeleteUserCount(t)
  PROVE  AccountsInv'
<1>1. CASE DeleteUser(t)
  <2>1. PICK u \in UserId, label \in {"del_count", "del_sessions"} :
          Goes(t, label, Editing(u, {}, {}, FALSE))
    BY <1>1 DEF DeleteUser
  <2>2. Editing(u, {}, {}, FALSE) \in Arg
    BY EditingIsArg, UserIdsAreNat
  <2> QED
    BY <1>1, <2>1, <2>2, ReadStep DEF DeleteUser, Label
<1>2. CASE DeleteUserCount(t)
  <2>1. CASE Answers(t)
    BY <1>2, <2>1, AnswerStep DEF DeleteUserCount
  <2>2. CASE Goes(t, "del_sessions", arg[t])
    BY <1>2, <2>2, ArgOf, ReadStep DEF DeleteUserCount, AccountsInv, Label
  <2> QED
    BY <1>2, <2>1, <2>2 DEF DeleteUserCount
<1> QED
  BY <1>1, <1>2

-----------------------------------------------------------------------------
LEMMA AccountsInvStep == ASSUME AccountsInv, [Next]_vars PROVE AccountsInv'
<1>1. CASE UNCHANGED vars
  BY <1>1 DEF vars, table, server, thread, AccountsInv, TablesOK, UsersOK, SessionsOK,
             ServerOK, ThreadOK, SessionsHaveUsers
<1>2. ASSUME NEW n \in Name, SeedUser(n) PROVE AccountsInv'
  BY <1>2, SeedUserStep
<1>3. ASSUME NEW t \in Thread, SessionStep(t) PROVE AccountsInv'
  BY <1>3, RequestReads, OpenStep, ExtendStep, LogoutStep DEF SessionStep
<1>4. ASSUME NEW t \in Thread, UserStep(t) PROVE AccountsInv'
  BY <1>4, PostUserReads, PostUserInsertStep, PutUserReads, PutUserRoleStep,
     PutUserPassStep, DeleteUserReads, DeleteUserSessionsStep, DeleteUserRowStep,
     OwnItemStep DEF UserStep
<1>5. CASE Restart \/ Tick \/ Cleanup \/ DisownItem
  BY <1>5, RestartStep, TickStep, CleanupStep, DisownItemStep
<1> QED
  BY <1>1, <1>2, <1>3, <1>4, <1>5 DEF Next

LEMMA AccountsInvariant == Spec => []AccountsInv
  BY InitInv, AccountsInvStep, PTL DEF Spec

\* Whatever requests interleave and however often the server starts again, the tables
\* hold what the schema allows and the threads what their local variables can.
THEOREM AccountsTypeCorrect == Spec => []TypeOK
<1>1. AccountsInv => TypeOK
  BY DEF AccountsInv, TablesOK, TypeOK
<1> QED
  BY <1>1, AccountsInvariant, PTL

\* No session and no item outlives its user: DELETE /api/users/:id cannot lose a race
\* against a login that checked the password before.
THEOREM SessionsKeepUsers == Spec => []SessionsHaveUsers
<1>1. AccountsInv => SessionsHaveUsers
  BY DEF AccountsInv, TablesOK
<1> QED
  BY <1>1, AccountsInvariant, PTL

-----------------------------------------------------------------------------
(***************************************************************************)
(* The last admin, when one request is served at a time.  The guards of    *)
(* PUT and DELETE /api/users/:id count the admins statements before they   *)
(* write: what they have seen is that another admin than the account they  *)
(* are about to change remains.                                            *)
(***************************************************************************)
Spare(u) == \E v \in Admins : v # u

GuardAt(t) ==
    /\ pc[t] = "put_target" /\ ~arg[t].alone => Spare(arg[t].target)
    /\ pc[t] = "put_role" => arg[t].grant = {"admin"} \/ Spare(arg[t].target)
    /\ pc[t] \in {"del_sessions", "del_user"} => Spare(arg[t].target)

\* Until the first admin is seeded the server does not listen, and has room for the rest.
Missing == {n \in DOMAIN Seed : ~Taken({n})}

Starting ==
    /\ \A t \in Thread : pc[t] = "idle"
    /\ \A n \in DOMAIN Seed : Seed[n].role = "admin" => n \in boot /\ ~Taken({n})
    /\ nUser + Cardinality(Missing) <= MaxUser

HasAdmin == Admins # {} \/ Starting

AdminInv == AccountsInv /\ HasAdmin /\ \A t \in Thread : GuardAt(t)

OneAtATime == \A s, t \in Thread : s = t

SeedsAdmin ==
    /\ \E n \in DOMAIN Seed : Seed[n].role = "admin"
    /\ IsFiniteSet(DOMAIN Seed) /\ Cardinality(DOMAIN Seed) <= MaxUser

LEMMA AdminsAreFew ==
  ASSUME AccountsInv
  PROVE  /\ IsFiniteSet(Admins) /\ Cardinality(Admins) \in Nat
         /\ \A u : Cardinality(Admins) <= 1 \/ Spare(u)
<1>1. nUser \in Nat /\ Admins \subseteq 1..nUser
  BY AccountsAssumption DEF AccountsInv, TablesOK, UsersOK, Admins
<1>2. IsFiniteSet(1..nUser)
  BY <1>1, FS_Interval
<1>3. IsFiniteSet(Admins) /\ Cardinality(Admins) \in Nat
  BY <1>1, <1>2, FS_Subset, FS_CardinalityType
<1>4. ASSUME NEW u, ~Spare(u) PROVE Cardinality(Admins) <= 1
  <2>1. Admins \subseteq {u}
    BY <1>4 DEF Spare
  <2>2. IsFiniteSet({u}) /\ Cardinality({u}) = 1
    BY FS_Singleton
  <2> QED
    BY <2>1, <2>2, FS_Subset
<1> QED
  BY <1>3, <1>4

\* A request that is served finds an admin there.
LEMMA ServedHaveAdmin ==
  ASSUME SeedsAdmin, AdminInv, NEW t \in Thread, pc[t] # "idle" \/ boot = {}
  PROVE  Admins # {}
  BY DEF SeedsAdmin, AdminInv, HasAdmin, Starting

LEMMA GoesTo ==
  ASSUME AccountsInv, NEW t \in Thread, NEW label, NEW a, Goes(t, label, a)
  PROVE  pc'[t] = label /\ arg'[t] = a
  BY DEF Goes, AccountsInv, ThreadOK

LEMMA AnswersTo ==
  ASSUME AccountsInv, NEW t \in Thread, Answers(t) PROVE pc'[t] = "idle"
  BY GoesTo DEF Answers

\* A statement of the only request leaves it with another admin, as far as it goes by that.
LEMMA GuardHolds ==
  ASSUME OneAtATime, AccountsInv', NEW t \in Thread, Admins' # {}, GuardAt(t)'
  PROVE  AdminInv'
  BY DEF OneAtATime, AdminInv, HasAdmin

Unguarded == Label \ {"put_target", "put_role", "del_sessions", "del_user"}

LEMMA UnguardedHolds ==
  ASSUME OneAtATime, AccountsInv', NEW t \in Thread, Admins' # {}, pc'[t] \in Unguarded
  PROVE  AdminInv'
<1>1. GuardAt(t)'
  BY DEF GuardAt, Unguarded
<1> QED
  BY <1>1, GuardHolds

LEMMA SameAdmins ==
  ASSUME UNCHANGED user
  PROVE  /\ Admins' = Admins
         /\ \A u : Spare(u)' <=> Spare(u)
  BY DEF Admins, Spare

\* Who is an admin stays one, when the rows are kept with their roles.
LEMMA AdminsStay ==
  ASSUME DOMAIN user \subseteq DOMAIN user',
         \A u \in DOMAIN user : user[u].role = "admin" => user'[u].role = "admin"
  PROVE  Admins \subseteq Admins' /\ \A u : Spare(u) => Spare(u)'
<1>1. Admins \subseteq Admins'
  BY DEF Admins
<1> QED
  BY <1>1 DEF Spare

\* A step that no request takes keeps what the requests go by.
LEMMA GuardsStay ==
  ASSUME \A t \in Thread : GuardAt(t), UNCHANGED thread, \A u : Spare(u) => Spare(u)'
  PROVE  \A t \in Thread : GuardAt(t)'
  BY DEF GuardAt, thread

LEMMA MissingIsFinite ==
  ASSUME SeedsAdmin
  PROVE  IsFiniteSet(Missing) /\ Cardinality(Missing) \in Nat
         /\ Cardinality(Missing) <= Cardinality(DOMAIN Seed)
<1>1. Missing \subseteq DOMAIN Seed
  BY DEF Missing
<1> QED
  BY <1>1, FS_Subset, FS_CardinalityType DEF SeedsAdmin

LEMMA AdminInit == ASSUME SeedsAdmin, Init PROVE AdminInv
<1>1. AccountsInv
  BY InitInv
<1>2. \A t \in Thread : pc[t] = "idle"
  BY DEF Init
<1>3. \A n : ~Taken({n})
  BY DEF Init, Taken
<1>4. Starting
  <2>1. nUser = 0 /\ boot = DOMAIN Seed
    BY DEF Init
  <2>2. 0 + Cardinality(Missing) <= MaxUser
    <3>1. Cardinality(DOMAIN Seed) \in Nat
      BY FS_CardinalityType DEF SeedsAdmin
    <3> QED
      BY <3>1, MissingIsFinite, AccountsAssumption DEF SeedsAdmin
  <2> QED
    BY <1>2, <1>3, <2>1, <2>2 DEF Starting
<1> QED
  BY <1>1, <1>2, <1>4 DEF AdminInv, HasAdmin, GuardAt

\* seed_users: the configured names that are there stay as they were ...
LEMMA SeedTaken ==
  ASSUME SeedsAdmin, AdminInv, NEW n \in Name, n \in boot, boot' = boot \ {n},
         NEW u \in DOMAIN user, user[u].name = n,
         user' = [user EXCEPT ![u] = UserRow(n, @.role, Seed[n].pass)],
         UNCHANGED <<nUser, thread>>
  PROVE  HasAdmin' /\ \A t \in Thread : GuardAt(t)'
<1>1. /\ DOMAIN user' = DOMAIN user
      /\ \A v \in DOMAIN user : user'[v].role = user[v].role /\ user'[v].name = user[v].name
  BY DEF UserRow
<1>2. Admins \subseteq Admins' /\ \A v : Spare(v) => Spare(v)'
  BY <1>1, AdminsStay
<1>3. \A m : Taken({m})' <=> Taken({m})
  BY <1>1 DEF Taken
<1>4. Starting => Starting'
  <2>1. Missing' = Missing
    BY <1>3 DEF Missing
  <2>2. Taken({n})
    BY DEF Taken
  <2> QED
    BY <1>3, <2>1, <2>2 DEF Starting, thread
<1>5. \A t \in Thread : GuardAt(t)'
  BY <1>2, GuardsStay DEF AdminInv
<1> QED
  BY <1>2, <1>4, <1>5 DEF AdminInv, HasAdmin

\* ... and the others get a row: the first admin has one in the end.
LEMMA SeedInserted ==
  ASSUME SeedsAdmin, AdminInv, NEW n \in DOMAIN Seed, n \in boot, boot' = boot \ {n},
         ~Taken({n}), nUser # MaxUser, nUser' = nUser + 1,
         user' = With(user, nUser + 1, UserRow(n, Seed[n].role, Seed[n].pass)),
         UNCHANGED thread
  PROVE  HasAdmin' /\ \A t \in Thread : GuardAt(t)'
<1>0. nUser \in Nat /\ nUser + 1 \notin DOMAIN user
  BY AccountsAssumption DEF AdminInv, AccountsInv, TablesOK, UsersOK
<1>1. /\ DOMAIN user' = DOMAIN user \cup {nUser + 1}
      /\ \A v \in DOMAIN user : user'[v] = user[v]
      /\ user'[nUser + 1].name = n /\ user'[nUser + 1].role = Seed[n].role
  BY <1>0 DEF With, UserRow
<1>2. Admins \subseteq Admins' /\ \A v : Spare(v) => Spare(v)'
  BY <1>1, AdminsStay
<1>3. \A m : m # n => (Taken({m})' <=> Taken({m}))
  BY <1>1 DEF Taken
<1>4. Taken({n})'
  BY <1>1 DEF Taken
<1>5. ASSUME Starting, Seed[n].role # "admin" PROVE Starting'
  <2>1. Missing' = Missing \ {n} /\ n \in Missing
    BY <1>3, <1>4 DEF Missing
  <2>2. Cardinality(Missing') = Cardinality(Missing) - 1
    BY <2>1, MissingIsFinite, FS_RemoveElement
  <2>3. nUser' + Cardinality(Missing') <= MaxUser
    BY <1>0, <1>5, <2>2, MissingIsFinite, AccountsAssumption DEF Starting
  <2>4. \A m \in DOMAIN Seed : Seed[m].role = "admin" => m \in boot' /\ ~Taken({m})'
    BY <1>3, <1>5 DEF Starting
  <2> QED
    BY <1>5, <2>3, <2>4 DEF Starting, thread
<1>6. ASSUME Seed[n].role = "admin" PROVE Admins' # {}
  BY <1>1, <1>6 DEF Admins
<1>7. \A t \in Thread : GuardAt(t)'
  BY <1>2, GuardsStay DEF AdminInv
<1> QED
  BY <1>2, <1>5, <1>6, <1>7 DEF AdminInv, HasAdmin

LEMMA AdminSeedUser ==
  ASSUME SeedsAdmin, AdminInv, NEW n \in Name, SeedUser(n) PROVE AdminInv'
<1>1. AccountsInv'
  BY SeedUserStep DEF AdminInv
<1>2. n \in boot /\ boot' = boot \ {n} /\ UNCHANGED thread /\ n \in DOMAIN Seed
  BY DEF SeedUser, AdminInv, AccountsInv, TablesOK, ServerOK
<1>3. CASE \E u \in DOMAIN user :
              /\ user[u].name = n
              /\ user' = [user EXCEPT ![u] = UserRow(n, @.role, Seed[n].pass)]
              /\ UNCHANGED nUser
  <2>1. HasAdmin' /\ \A t \in Thread : GuardAt(t)'
    BY <1>2, <1>3, SeedTaken
  <2> QED
    BY <1>1, <2>1 DEF AdminInv
<1>4. CASE ~Taken({n}) /\ nUser = MaxUser /\ UNCHANGED <<user, nUser>>
  <2>1. ~Starting
    <3>1. n \in Missing
      BY <1>2, <1>4 DEF Missing
    <3>2. Cardinality(Missing) # 0
      BY <3>1, MissingIsFinite, FS_EmptySet
    <3> QED
      BY <1>4, <3>2, MissingIsFinite, AccountsAssumption DEF Starting
  <2>2. Admins' = Admins /\ \A u : Spare(u) => Spare(u)'
    BY <1>4, SameAdmins
  <2>3. \A t \in Thread : GuardAt(t)'
    BY <1>2, <2>2, GuardsStay DEF AdminInv
  <2> QED
    BY <1>1, <2>1, <2>2, <2>3 DEF AdminInv, HasAdmin
<1>5. CASE /\ ~Taken({n}) /\ nUser # MaxUser /\ nUser' = nUser + 1
           /\ user' = With(user, nUser + 1, UserRow(n, Seed[n].role, Seed[n].pass))
  <2>1. HasAdmin' /\ \A t \in Thread : GuardAt(t)'
    BY <1>2, <1>5, SeedInserted
  <2> QED
    BY <1>1, <2>1 DEF AdminInv
<1> QED
  BY <1>3, <1>4, <1>5 DEF SeedUser, InsertUser

LEMMA AdminRestart == ASSUME SeedsAdmin, AdminInv, Restart PROVE AdminInv'
<1>1. AccountsInv'
  BY RestartStep DEF AdminInv
<1>2. UNCHANGED <<user, nUser>> /\ boot' = DOMAIN Seed /\ \A t \in Thread : pc'[t] = "idle"
  BY DEF Restart, table
<1>3. Admins' = Admins
  BY <1>2, SameAdmins
<1>4. Missing' = Missing /\ \A n : Taken({n})' <=> Taken({n})
  BY <1>2 DEF Missing, Taken
<1>5. Starting => Starting'
  BY <1>2, <1>4 DEF Starting
<1>6. \A t \in Thread : GuardAt(t)'
  BY <1>2 DEF GuardAt
<1> QED
  BY <1>1, <1>3, <1>5, <1>6 DEF AdminInv, HasAdmin

\* The clock, the cleaner thread and the handlers of items touch no user and no request.
LEMMA AdminAside ==
  ASSUME AdminInv, AccountsInv', UNCHANGED <<user, nUser, boot, thread>>
  PROVE  AdminInv'
<1>1. Admins' = Admins /\ \A u : Spare(u) => Spare(u)'
  BY SameAdmins
<1>2. Missing' = Missing /\ \A n : Taken({n})' <=> Taken({n})
  BY DEF Missing, Taken
<1>3. Starting => Starting'
  BY <1>2 DEF Starting, thread
<1>4. \A t \in Thread : GuardAt(t)'
  BY <1>1, GuardsStay DEF AdminInv
<1> QED
  BY <1>1, <1>3, <1>4 DEF AdminInv, HasAdmin

(***************************************************************************)
(* The statements of the only request.                                     *)
(***************************************************************************)

\* A statement that writes no user and goes where nothing is known of the admins.
LEMMA AdminReads ==
  ASSUME SeedsAdmin, OneAtATime, AdminInv, AccountsInv', NEW t \in Thread,
         pc[t] # "idle" \/ boot = {}, UNCHANGED user, pc'[t] \in Unguarded
  PROVE  AdminInv'
<1>1. Admins' # {}
  BY ServedHaveAdmin, SameAdmins
<1> QED
  BY <1>1, UnguardedHolds

LEMMA AdminSessionStep ==
  ASSUME SeedsAdmin, OneAtATime, AdminInv, AccountsInv', NEW t \in Thread, SessionStep(t)
  PROVE  AdminInv'
<1>0. AccountsInv
  BY DEF AdminInv
<1>1. UNCHANGED user
  BY DEF SessionStep, Login, Open, Request, Extend, ReadRole, Done, Logout,
         DeleteAuditSession, table
<1>2. pc[t] # "idle" \/ boot = {}
  BY DEF SessionStep, Login, Open, Request, Extend, ReadRole, Done, Logout,
         DeleteAuditSession, Begins
<1>3. pc'[t] \in {"idle", "open", "extend", "role", "serve"}
  BY <1>0, GoesTo, AnswersTo DEF SessionStep, Login, Open, Request, Extend, ReadRole, Done,
         Logout, DeleteAuditSession
<1> QED
  BY <1>1, <1>2, <1>3, AdminReads DEF Unguarded, Label

\* POST /api/users, a change of the own password, an item: they take no admin away.
LEMMA AdminPostUser ==
  ASSUME SeedsAdmin, OneAtATime, AdminInv, AccountsInv', NEW t \in Thread,
         ChangePassword(t) \/ PostUser(t) \/ PostUserCheck(t) \/ OwnItem(t)
  PROVE  AdminInv'
<1>0. AccountsInv
  BY DEF AdminInv
<1>1. UNCHANGED user /\ pc[t] # "idle"
  BY DEF ChangePassword, PostUser, PostUserCheck, OwnItem, ByAdmin, Writes, table
<1>2. pc'[t] \in {"idle", "put_pass", "post_check", "post_insert"}
  BY <1>0, GoesTo, AnswersTo DEF ChangePassword, PostUser, PostUserCheck, OwnItem
<1> QED
  BY <1>1, <1>2, AdminReads DEF Unguarded, Label

LEMMA AdminPostUserInsert ==
  ASSUME SeedsAdmin, OneAtATime, AdminInv, AccountsInv', NEW t \in Thread, PostUserInsert(t)
  PROVE  AdminInv'
<1>0. AccountsInv
  BY DEF AdminInv
<1>1. PICK n, r, p : InsertUser(n, r, p)
  BY DEF PostUserInsert
<1>2. Admins \subseteq Admins'
  <2>1. nUser + 1 \notin DOMAIN user
    BY <1>0, AccountsAssumption DEF AccountsInv, TablesOK, UsersOK
  <2>2. /\ DOMAIN user \subseteq DOMAIN user'
        /\ \A u \in DOMAIN user : user'[u] = user[u]
    BY <1>1, <2>1 DEF InsertUser, With
  <2> QED
    BY <2>2, AdminsStay
<1>3. Admins # {}
  BY ServedHaveAdmin DEF PostUserInsert
<1>4. pc'[t] = "idle"
  BY <1>0, AnswersTo DEF PostUserInsert
<1> QED
  BY <1>2, <1>3, <1>4, UnguardedHolds DEF Unguarded, Label

\* PUT /api/users/:id: without a count a request can only make an admin ...
LEMMA AdminPutUser ==
  ASSUME SeedsAdmin, OneAtATime, AdminInv, AccountsInv', NEW t \in Thread, PutUser(t)
  PROVE  AdminInv'
<1>0. AccountsInv
  BY DEF AdminInv
<1>1. UNCHANGED user /\ pc[t] # "idle"
  BY DEF PutUser, ByAdmin, Writes, table
<1>2. PICK u \in UserId, grant \in SUBSET Role, pass \in SUBSET Password,
           label \in {"put_count", "put_role", "put_pass"} :
        /\ label = "put_role" <=> grant = {"admin"}
        /\ Goes(t, label, Editing(u, grant, pass, FALSE))
  BY DEF PutUser
<1>3. pc'[t] = label /\ arg'[t].grant = grant
  <2>1. pc'[t] = label /\ arg'[t] = Editing(u, grant, pass, FALSE)
    BY <1>0, <1>2, GoesTo
  <2> QED
    BY <2>1 DEF Editing, Local
<1>4. GuardAt(t)'
  BY <1>2, <1>3 DEF GuardAt
<1>5. Admins' # {}
  BY <1>1, ServedHaveAdmin, SameAdmins
<1> QED
  BY <1>4, <1>5, GuardHolds

\* ... and the others count the admins, look at the account, and go on to the update
\* only when it is not the last one.
LEMMA AdminPutUserGuards ==
  ASSUME SeedsAdmin, OneAtATime, AdminInv, AccountsInv', NEW t \in Thread,
         PutUserCount(t) \/ PutUserTarget(t)
  PROVE  AdminInv'
<1>0. AccountsInv /\ GuardAt(t)
  BY DEF AdminInv
<1>1. UNCHANGED user /\ pc[t] # "idle"
  BY DEF PutUserCount, PutUserTarget, table
<1>2. Admins # {} /\ Admins' = Admins /\ \A u : Spare(u)' <=> Spare(u)
  BY <1>1, ServedHaveAdmin, SameAdmins
<1>3. CASE PutUserCount(t)
  <2> DEFINE alone == Cardinality(Admins) <= 1
  <2>1. pc'[t] = "put_target"
        /\ arg'[t] = Editing(arg[t].target, arg[t].grant, arg[t].pass, alone)
    BY <1>0, <1>3, GoesTo DEF PutUserCount
  <2>2. arg'[t].target = arg[t].target /\ arg'[t].alone = alone
    BY <2>1 DEF Editing, Local
  <2>3. ~alone => Spare(arg[t].target)
    BY <1>0, AdminsAreFew
  <2> HIDE DEF alone
  <2>4. arg'[t].alone \/ \E v \in Admins' : v # arg'[t].target
    BY <1>2, <2>2, <2>3 DEF Spare
  <2>5. GuardAt(t)'
    BY <2>1, <2>4 DEF GuardAt, Spare
  <2> QED
    BY <1>2, <2>5, GuardHolds
<1>4. CASE PutUserTarget(t)
  <2>1. CASE Answers(t)
    BY <1>0, <1>2, <2>1, AnswersTo, UnguardedHolds DEF Unguarded, Label
  <2>2. CASE ~(arg[t].alone /\ RoleOf(arg[t].target) = "admin") /\ Goes(t, "put_role", arg[t])
    <3>1. Spare(arg[t].target)
      <4>1. CASE ~arg[t].alone
        BY <1>0, <1>4, <4>1 DEF PutUserTarget, GuardAt
      <4>2. CASE RoleOf(arg[t].target) # "admin"
        BY <1>2, <4>2 DEF Spare, Admins, RoleOf
      <4> QED
        BY <2>2, <4>1, <4>2
    <3>2. pc'[t] = "put_role" /\ arg'[t] = arg[t]
      BY <1>0, <2>2, GoesTo
    <3>3. GuardAt(t)'
      BY <1>2, <3>1, <3>2 DEF GuardAt
    <3> QED
      BY <1>2, <3>3, GuardHolds
  <2> QED
    BY <1>4, <2>1, <2>2 DEF PutUserTarget
<1> QED
  BY <1>3, <1>4

\* The update makes the account an admin, or leaves the other one.
LEMMA AdminPutUserRole ==
  ASSUME SeedsAdmin, OneAtATime, AdminInv, AccountsInv', NEW t \in Thread, PutUserRole(t)
  PROVE  AdminInv'
<1>0. AccountsInv /\ GuardAt(t)
  BY DEF AdminInv
<1>1. PICK r \in arg[t].grant :
        user' = [u \in DOMAIN user |-> IF u = arg[t].target
                                         THEN UserRow(user[u].name, r, user[u].pass)
                                         ELSE user[u]]
  BY DEF PutUserRole
<1>2. /\ DOMAIN user' = DOMAIN user
      /\ \A u \in DOMAIN user : u # arg[t].target => user'[u] = user[u]
      /\ \A u \in DOMAIN user : u = arg[t].target => user'[u].role = r
  BY <1>1 DEF UserRow
<1>3. Admins' # {}
  <2>1. CASE arg[t].grant = {"admin"}
    <3>1. Admins # {} /\ r = "admin"
      BY <1>1, <2>1, ServedHaveAdmin DEF PutUserRole
    <3> QED
      BY <1>2, <3>1, AdminsStay
  <2>2. CASE Spare(arg[t].target)
    <3>1. PICK v \in DOMAIN user : user[v].role = "admin" /\ v # arg[t].target
      BY <2>2 DEF Spare, Admins
    <3> QED
      BY <1>2, <3>1 DEF Admins
  <2> QED
    BY <1>0, <2>1, <2>2 DEF GuardAt, PutUserRole
<1>4. pc'[t] = "put_pass"
  BY <1>0, GoesTo DEF PutUserRole
<1> QED
  BY <1>3, <1>4, UnguardedHolds DEF Unguarded, Label

LEMMA AdminPutUserPass ==
  ASSUME SeedsAdmin, OneAtATime, AdminInv, AccountsInv', NEW t \in Thread, PutUserPass(t)
  PROVE  AdminInv'
<1>0. AccountsInv
  BY DEF AdminInv
<1>1. DOMAIN user' = DOMAIN user /\ \A u \in DOMAIN user : user'[u].role = user[u].role
  BY DEF PutUserPass, UserRow
<1>2. Admins \subseteq Admins'
  BY <1>1, AdminsStay
<1>3. Admins # {}
  BY ServedHaveAdmin DEF PutUserPass
<1>4. pc'[t] = "idle"
  BY <1>0, AnswersTo DEF PutUserPass
<1> QED
  BY <1>2, <1>3, <1>4, UnguardedHolds DEF Unguarded, Label

\* DELETE /api/users/:id: an account that is no admin is not the last one, and of
\* admins there are two.
LEMMA AdminDeleteUser ==
  ASSUME SeedsAdmin, OneAtATime, AdminInv, AccountsInv', NEW t \in Thread,
         DeleteUser(t) \/ DeleteUserCount(t) \/ DeleteUserSessions(t)
  PROVE  AdminInv'
<1>0. AccountsInv /\ GuardAt(t)
  BY DEF AdminInv
<1>1. UNCHANGED user /\ pc[t] # "idle"
  BY DEF DeleteUser, DeleteUserCount, DeleteUserSessions, ByAdmin, Writes, table
<1>2. Admins # {} /\ Admins' = Admins
  BY <1>1, ServedHaveAdmin, SameAdmins
<1>3. ASSUME NEW u, Spare(u), pc'[t] = "del_sessions" \/ pc'[t] = "del_user", arg'[t].target = u
      PROVE  AdminInv'
  <2>1. GuardAt(t)'
    BY <1>2, <1>3 DEF GuardAt, Spare
  <2> QED
    BY <1>2, <2>1, GuardHolds
<1>4. CASE DeleteUser(t)
  <2>1. PICK u : Goes(t, IF RoleOf(u) = "admin" THEN "del_count" ELSE "del_sessions",
                      Editing(u, {}, {}, FALSE))
    BY <1>4 DEF DeleteUser
  <2>2. /\ pc'[t] = IF RoleOf(u) = "admin" THEN "del_count" ELSE "del_sessions"
        /\ arg'[t] = Editing(u, {}, {}, FALSE)
    BY <1>0, <2>1, GoesTo
  <2>3. arg'[t].target = u
    BY <2>2 DEF Editing, Local
  <2>4. CASE RoleOf(u) = "admin"
    BY <1>2, <2>2, <2>4, UnguardedHolds DEF Unguarded, Label
  <2>5. CASE RoleOf(u) # "admin"
    <3>1. Spare(u)
      BY <1>2, <2>5 DEF Spare, Admins, RoleOf
    <3> QED
      BY <1>3, <2>2, <2>3, <2>5, <3>1
  <2> QED
    BY <2>4, <2>5
<1>5. CASE DeleteUserCount(t)
  <2>1. CASE Answers(t)
    BY <1>0, <1>2, <2>1, AnswersTo, UnguardedHolds DEF Unguarded, Label
  <2>2. CASE ~(Cardinality(Admins) <= 1) /\ Goes(t, "del_sessions", arg[t])
    <3>1. pc'[t] = "del_sessions" /\ arg'[t] = arg[t]
      BY <1>0, <2>2, GoesTo
    <3>2. Spare(arg[t].target)
      BY <1>0, <2>2, AdminsAreFew
    <3> QED
      BY <1>3, <3>1, <3>2
  <2> QED
    BY <1>5, <2>1, <2>2 DEF DeleteUserCount
<1>6. CASE DeleteUserSessions(t)
  <2>1. pc'[t] = "del_user" /\ arg'[t] = arg[t]
    BY <1>0, <1>6, GoesTo DEF DeleteUserSessions
  <2>2. Spare(arg[t].target)
    BY <1>0, <1>6 DEF DeleteUserSessions, GuardAt
  <2> QED
    BY <1>3, <2>1, <2>2
<1> QED
  BY <1>4, <1>5, <1>6

LEMMA AdminDeleteUserRow ==
  ASSUME SeedsAdmin, OneAtATime, AdminInv, AccountsInv', NEW t \in Thread, DeleteUserRow(t)
  PROVE  AdminInv'
<1>0. AccountsInv /\ GuardAt(t)
  BY DEF AdminInv
<1>1. user' = user \/ user' = Without(user, {arg[t].target})
  BY DEF DeleteUserRow
<1>2. PICK v \in DOMAIN user : user[v].role = "admin" /\ v # arg[t].target
  BY <1>0 DEF DeleteUserRow, GuardAt, Spare, Admins
<1>3. v \in DOMAIN user' /\ user'[v] = user[v]
  BY <1>1, <1>2 DEF Without
<1>4. Admins' # {}
  BY <1>2, <1>3 DEF Admins
<1>5. pc'[t] = "idle"
  BY <1>0, AnswersTo DEF DeleteUserRow
<1> QED
  BY <1>4, <1>5, UnguardedHolds DEF Unguarded, Label

LEMMA AdminInvStep ==
  ASSUME SeedsAdmin, OneAtATime, AdminInv, [Next]_vars PROVE AdminInv'
<1>0. AccountsInv'
  BY AccountsInvStep DEF AdminInv
<1>1. CASE UNCHANGED vars
  BY <1>0, <1>1, AdminAside DEF vars, table, server
<1>2. ASSUME NEW n \in Name, SeedUser(n) PROVE AdminInv'
  BY <1>2, AdminSeedUser
<1>3. ASSUME NEW t \in Thread, SessionStep(t) PROVE AdminInv'
  BY <1>0, <1>3, AdminSessionStep
<1>4. ASSUME NEW t \in Thread, UserStep(t) PROVE AdminInv'
  BY <1>0, <1>4, AdminPostUser, AdminPostUserInsert, AdminPutUser, AdminPutUserGuards,
     AdminPutUserRole, AdminPutUserPass, AdminDeleteUser, AdminDeleteUserRow DEF UserStep
<1>5. CASE Restart
  BY <1>5, AdminRestart
<1>6. CASE Tick \/ Cleanup \/ DisownItem
  BY <1>0, <1>6, AdminAside DEF Tick, Cleanup, DisownItem, server
<1> QED
  BY <1>1, <1>2, <1>3, <1>4, <1>5, <1>6 DEF Next

\* The guards of PUT and DELETE /api/users/:id keep an admin as long as requests are
\* served one at a time, also when one fails between its statements: the race of two of
\* them is all that can take the last admin away.  The room for the configured users is
\* that of the table's bound.
THEOREM LastAdminRemains ==
  ASSUME OneAtATime, IsFiniteSet(DOMAIN Seed), Cardinality(DOMAIN Seed) <= MaxUser
  PROVE  Spec => []AdminRemains
<1>1. CASE \E n \in DOMAIN Seed : Seed[n].role = "admin"
  <2>1. SeedsAdmin
    BY <1>1 DEF SeedsAdmin
  <2>2. Init => AdminInv
    BY <2>1, AdminInit
  <2>3. AdminInv /\ [Next]_vars => AdminInv'
    BY <2>1, AdminInvStep
  <2>4. AdminInv => AdminRemains
    BY <2>1 DEF AdminInv, HasAdmin, Starting, SeedsAdmin, AdminRemains
  <2> QED
    BY <2>2, <2>3, <2>4, PTL DEF Spec
<1>2. CASE ~\E n \in DOMAIN Seed : Seed[n].role = "admin"
  <2>1. AdminRemains
    BY <1>2 DEF AdminRemains
  <2> QED
    BY <2>1, PTL
<1> QED
  BY <1>1, <1>2

-----------------------------------------------------------------------------
(***************************************************************************)
(* Accounts implements SessionRegister: an INSERT of a user is a Join, one *)
(* of a session an Open, the rows of sessions that are deleted an End, and *)
(* the row of a user a Leave; the other statements change neither.         *)
(***************************************************************************)
SameRegister == UNCHANGED <<nUser, DOMAIN user, Tokens>>

LEMMA TokensAre ==
  /\ DOMAIN Tokens = 1..nToken /\ DOMAIN Tokens' = 1..nToken'
  /\ \A k \in 1..nToken : Tokens[k] = IF k \in DOMAIN session THEN session[k].user ELSE 0
  /\ \A k \in 1..nToken' : Tokens'[k] = IF k \in DOMAIN session' THEN session'[k].user ELSE 0
  /\ Tokens' = [k \in 1..nToken' |-> Tokens'[k]]
  BY DEF Tokens

\* Ids are positive, so that 0 is nobody's.
LEMMA UsersAreThere ==
  ASSUME AccountsInv
  PROVE  /\ DOMAIN user \subseteq 1..nUser /\ nUser \in Nat /\ nToken \in Nat
         /\ DOMAIN session \subseteq 1..nToken
         /\ \A k \in DOMAIN session : session[k].user \in DOMAIN user
         /\ 0 \notin DOMAIN user
  BY AccountsAssumption DEF AccountsInv, TablesOK, UsersOK, SessionsOK, SessionsHaveUsers

LEMMA SameSessions ==
  ASSUME UNCHANGED nToken, DOMAIN session' = DOMAIN session,
         \A k \in DOMAIN session : session'[k].user = session[k].user
  PROVE  Tokens' = Tokens
  BY DEF Tokens

LEMMA JoinsRegister ==
  ASSUME AccountsInv, NEW n, NEW r, NEW p, InsertUser(n, r, p), UNCHANGED <<session, nToken>>
  PROVE  Register!Next \/ SameRegister
<1>1. Tokens' = Tokens
  BY SameSessions
<1>2. CASE UNCHANGED <<user, nUser>>
  BY <1>1, <1>2 DEF SameRegister
<1>3. CASE nUser' = nUser + 1 /\ user' = With(user, nUser + 1, UserRow(n, r, p))
  <2>1. DOMAIN user' = DOMAIN user \cup {nUser + 1}
    BY <1>3, WithIs
  <2> QED
    BY <1>1, <1>3, <2>1 DEF Register!Next, Register!Join
<1> QED
  BY <1>2, <1>3 DEF InsertUser

LEMMA OpensInRegister ==
  ASSUME AccountsInv, NEW t \in Thread, Open(t)
  PROVE  Register!Next \/ SameRegister
<1> DEFINE u == arg[t].user
           S == DOMAIN user \cup {0}
<1>1. CASE UNCHANGED <<session, nToken>>
  BY <1>1, SameSessions DEF Open, SameRegister
<1>2. CASE /\ u \in DOMAIN user /\ nToken' = nToken + 1
           /\ session' = With(session, nToken + 1, [user |-> u, left |-> SessionHours])
  <2> HIDE DEF u
  <2>1. /\ DOMAIN session' = DOMAIN session \cup {nToken + 1}
        /\ session'[nToken + 1].user = u
        /\ \A k \in 1..nToken : k \in DOMAIN session => session'[k] = session[k]
    BY <1>2, UsersAreThere DEF With
  <2>2. /\ \A k \in 1..nToken : k # nToken + 1 /\ k \in 1..nToken + 1
        /\ \A k \in 1..nToken + 1 : k \in 1..nToken \/ k = nToken + 1
        /\ nToken + 1 \in 1..nToken + 1
    BY UsersAreThere
  <2>3. Tokens'[nToken + 1] = u /\ \A k \in 1..nToken : Tokens'[k] = Tokens[k]
    BY <1>2, <2>1, <2>2, TokensAre
  <2>4. Tokens \in Seq(S) /\ Len(Tokens) = nToken /\ u \in S
    <3>1. \A k \in 1..nToken : Tokens[k] \in S
      BY TokensAre, UsersAreThere
    <3>2. Tokens \in [1..nToken -> S]
      BY <3>1 DEF Tokens
    <3> QED
      BY <1>2, <3>2, UsersAreThere, SeqDef
  <2>5. Tokens' \in Seq(S) /\ Len(Tokens') = nToken + 1
    <3>1. \A k \in 1..nToken + 1 : Tokens'[k] \in S
      BY <1>2, <2>2, <2>3, TokensAre, UsersAreThere
    <3>2. Tokens' \in [1..nToken + 1 -> S]
      BY <1>2, <3>1, TokensAre
    <3> QED
      BY <3>2, UsersAreThere, SeqDef
  <2> HIDE DEF S
  <2>6. Tokens' = Append(Tokens, u)
    <3>1. /\ Append(Tokens, u) \in Seq(S) /\ Len(Append(Tokens, u)) = nToken + 1
          /\ \A k \in 1..nToken : Append(Tokens, u)[k] = Tokens[k]
          /\ Append(Tokens, u)[nToken + 1] = u
      BY <2>4, AppendProperties
    <3>2. \A k \in 1..nToken + 1 : Tokens'[k] = Append(Tokens, u)[k]
      BY <2>2, <2>3, <3>1
    <3> QED
      BY <2>5, <3>1, <3>2, SeqEqual
  <2>7. UNCHANGED <<nUser, DOMAIN user>>
    BY DEF Open
  <2> QED
    BY <1>2, <2>6, <2>7 DEF Register!Next, Register!Open
<1> QED
  BY <1>1, <1>2 DEF Open

LEMMA EndsInRegister ==
  ASSUME AccountsInv, NEW keys, session' = Without(session, keys),
         UNCHANGED <<user, nUser, nToken>>
  PROVE  Register!Next
<1> DEFINE tokens == DOMAIN session \cap keys
<1>1. /\ DOMAIN session' = DOMAIN session \ keys
      /\ \A k \in DOMAIN session' : session'[k] = session[k]
  BY DEF Without
<1>2. tokens \in SUBSET Register!Live
  BY TokensAre, UsersAreThere DEF Register!Live, Register!Over
<1>3. \A k \in 1..nToken : Tokens'[k] = IF k \in tokens THEN 0 ELSE Tokens[k]
  BY <1>1, TokensAre
<1> HIDE DEF tokens
<1>4. Tokens' = [k \in DOMAIN Tokens |-> IF k \in tokens THEN Register!Over ELSE Tokens[k]]
  BY <1>3, TokensAre DEF Register!Over
<1> QED
  BY <1>2, <1>4 DEF Register!Next, Register!End

LEMMA LeavesRegister ==
  ASSUME AccountsInv, NEW t \in Thread, DeleteUserRow(t)
  PROVE  Register!Next \/ SameRegister
<1> DEFINE u == arg[t].target
<1>1. Tokens' = Tokens
  BY SameSessions DEF DeleteUserRow
<1>2. CASE UNCHANGED user \/ u \notin DOMAIN user
  <2>1. DOMAIN user' = DOMAIN user
    BY <1>2 DEF DeleteUserRow, Without
  <2> QED
    BY <1>1, <2>1 DEF DeleteUserRow, SameRegister
<1>3. CASE /\ u \in DOMAIN user
           /\ \A k \in DOMAIN session : session[k].user # u
           /\ user' = Without(user, {u})
  <2> HIDE DEF u
  <2>1. DOMAIN user' = DOMAIN user \ {u}
    BY <1>3, WithoutIs
  <2>2. \A k \in Register!Live : Tokens[k] # u
    BY <1>3, TokensAre DEF Register!Live, Register!Over
  <2>3. UNCHANGED <<nUser, Tokens>>
    BY <1>1 DEF DeleteUserRow
  <2> QED
    BY <1>3, <2>1, <2>2, <2>3 DEF Register!Next, Register!Leave
<1> QED
  BY <1>2, <1>3 DEF DeleteUserRow

\* Seeds, roles and passwords: a row that is written anew is still its user's.
LEMMA RegisterUserStep ==
  ASSUME AccountsInv, NEW t \in Thread, UserStep(t)
  PROVE  Register!Next \/ SameRegister
<1>1. CASE PostUserInsert(t)
  BY <1>1, JoinsRegister DEF PostUserInsert
<1>2. CASE PutUserRole(t) \/ PutUserPass(t)
  <2>1. DOMAIN user' = DOMAIN user
    BY <1>2 DEF PutUserRole, PutUserPass
  <2>2. UNCHANGED <<nUser, session, nToken>>
    BY <1>2 DEF PutUserRole, PutUserPass
  <2> QED
    BY <2>1, <2>2, SameSessions DEF SameRegister
<1>3. CASE DeleteUserSessions(t)
  BY <1>3, EndsInRegister DEF DeleteUserSessions, DeleteSessions
<1>4. CASE DeleteUserRow(t)
  BY <1>4, LeavesRegister
<1>5. CASE UNCHANGED <<user, nUser, session, nToken>>
  BY <1>5, SameSessions DEF SameRegister
<1> QED
  BY <1>1, <1>2, <1>3, <1>4, <1>5
  DEF UserStep, ChangePassword, PostUser, PostUserCheck, PutUser, PutUserCount,
      PutUserTarget, DeleteUser, DeleteUserCount, OwnItem, table

LEMMA RegisterSessionStep ==
  ASSUME AccountsInv, NEW t \in Thread, SessionStep(t)
  PROVE  Register!Next \/ SameRegister
<1>1. CASE Open(t)
  BY <1>1, OpensInRegister
<1>2. CASE Extend(t)
  <2>1. /\ DOMAIN session' = DOMAIN session
        /\ \A k \in DOMAIN session : session'[k].user = session[k].user
    BY <1>2 DEF Extend, With
  <2> QED
    BY <1>2, <2>1, SameSessions DEF Extend, SameRegister
<1>3. CASE Logout(t) \/ DeleteAuditSession(t)
  BY <1>3, EndsInRegister DEF Logout, DeleteAuditSession, DeleteSessions
<1>4. CASE UNCHANGED <<user, nUser, session, nToken>>
  BY <1>4, SameSessions DEF SameRegister
<1> QED
  BY <1>1, <1>2, <1>3, <1>4 DEF SessionStep, Login, Request, ReadRole, Done, table

LEMMA RegisterStep ==
  ASSUME AccountsInv, [Next]_vars PROVE Register!Next \/ SameRegister
<1>1. ASSUME NEW n \in Name, SeedUser(n) PROVE Register!Next \/ SameRegister
  <2>1. CASE InsertUser(n, Seed[n].role, Seed[n].pass)
    BY <1>1, <2>1, JoinsRegister DEF SeedUser
  <2>2. CASE DOMAIN user' = DOMAIN user /\ UNCHANGED <<nUser, session, nToken>>
    BY <2>2, SameSessions DEF SameRegister
  <2> QED
    BY <1>1, <2>1, <2>2 DEF SeedUser
<1>2. ASSUME NEW t \in Thread, SessionStep(t) \/ UserStep(t)
      PROVE  Register!Next \/ SameRegister
  BY <1>2, RegisterSessionStep, RegisterUserStep
<1>3. CASE Tick
  <2>1. /\ DOMAIN session' = DOMAIN session
        /\ \A k \in DOMAIN session : session'[k].user = session[k].user
    BY <1>3 DEF Tick
  <2> QED
    BY <1>3, <2>1, SameSessions DEF Tick, SameRegister
<1>4. CASE Cleanup
  BY <1>4, EndsInRegister DEF Cleanup
<1>5. CASE UNCHANGED <<user, nUser, session, nToken>>
  BY <1>5, SameSessions DEF SameRegister
<1> QED
  BY <1>1, <1>2, <1>3, <1>4, <1>5 DEF Next, Restart, DisownItem, vars, table

\* A session is one user's until it is over and then it is over for good, and nobody leaves
\* who has one: whatever logins, logouts, admins and the cleaner thread do between the
\* statements of the requests that go by it.
THEOREM SessionsAreRegistered == Spec => RegisterSpec
<1>1. Init => Register!Init
  <2>1. ASSUME Init PROVE Tokens = <<>> /\ DOMAIN user = {} /\ nUser = 0
    BY <2>1 DEF Init, Tokens
  <2> QED
    BY <2>1 DEF Register!Init
<1>2. AccountsInv /\ [Next]_vars => [Register!Next]_Register!register
  BY RegisterStep DEF SameRegister, Register!register
<1> QED
  BY <1>1, <1>2, AccountsInvariant, PTL DEF Spec, RegisterSpec, Register!Spec
=============================================================================
