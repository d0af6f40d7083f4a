------------------------------- MODULE Accounts -------------------------------
(***************************************************************************)
(* Users and their sessions: app_auth.cpp, the authentication and the role *)
(* gate every request passes in server.cpp, and DELETE                     *)
(* /api/audit/sessions/:token of app_audit.cpp.                            *)
(*                                                                         *)
(* As in Marketplace an action is one SQL statement, and a request is a    *)
(* sequence of them on a thread of its own.  A request's user and role are *)
(* read before its handler starts and are not looked at again, but by the  *)
(* handlers of /api/users, which ask for the role once more.               *)
(***************************************************************************)
EXTENDS Integers, FiniteSets

CONSTANTS Thread,       \* the client threads
          Name,         \* usernames
          Password,     \* passwords
          Seed,         \* config.pson: a role and a password for some names
          SessionHours, \* how long a new session lasts, in ticks of the clock
          SlideHours,   \* how long a request makes it last
          MaxUser,      \* bound: rows ever inserted into users
          MaxToken,     \* bound: rows ever inserted into sessions
          MaxRestart    \* bound: restarts of the server

Role   == {"admin", "dealer", "viewer"}
UserId == 1..MaxUser
Token  == 1..MaxToken

ASSUME AccountsAssumption ==
    /\ MaxUser \in Nat /\ MaxToken \in Nat /\ MaxRestart \in Nat
    /\ SessionHours \in Nat /\ SlideHours \in Nat
    /\ DOMAIN Seed \subseteq Name
    /\ \A n \in DOMAIN Seed : Seed[n] \in [role : Role, pass : Password]

VARIABLES
    user,       \* the rows of users, by id
    nUser,      \* the highest id users ever had (AUTOINCREMENT)
    session,    \* the rows of sessions, by token: the user and the hours left
    nToken,     \* the number of tokens given out, all different
    owned,      \* the users an item refers to as its owner
    boot,       \* the configured names seed_users has still to look at
    restarts,   \* how often the server was started again
    pc,         \* the statement each thread executes next
    arg         \* what each thread has read

table  == <<user, nUser, session, nToken, owned>>
server == <<boot, restarts>>
thread == <<pc, arg>>
vars   == <<table, server, thread>>

\* Rows by key: with one more or one replaced, and without some.
With(f, k, row)  == [x \in DOMAIN f \cup {k} |-> IF x = k THEN row ELSE f[x]]
Without(f, keys) == [x \in DOMAIN f \ keys |-> f[x]]

UserRow(n, r, p) == [name |-> n, role |-> r, pass |-> p]

RoleOf(u) == IF u \in DOMAIN user THEN user[u].role ELSE "none"

Admins == {u \in DOMAIN user : user[u].role = "admin"}

(***************************************************************************)
(* What a thread holds: who asks, with which token and which role; then    *)
(* the account it changes, with the name, the role and the password the    *)
(* request gives, each a set of at most one; and what a COUNT answered.    *)
(***************************************************************************)
Local(u, k, r, target, name, grant, pass, alone) ==
    [user |-> u, token |-> k, role |-> r, target |-> target, name |-> name,
     grant |-> grant, pass |-> pass, alone |-> alone]

Asking(u, k, r)               == Local(u, k, r, 0, {}, {}, {}, FALSE)
Adding(n, r, p)               == Local(0, 0, "none", 0, {n}, {r}, {p}, FALSE)
Editing(u, grant, pass, alone) == Local(0, 0, "none", u, {}, grant, pass, alone)

NoArg == Asking(0, 0, "none")

Goes(t, label, a) ==
    /\ pc'  = [pc EXCEPT ![t] = label]
    /\ arg' = [arg EXCEPT ![t] = a]

Answers(t) == Goes(t, "idle", NoArg)

\* The server listens once the users are seeded.
Begins(t) == pc[t] = "idle" /\ boot = {}

Init ==
    /\ user = <<>> /\ nUser = 0
    /\ session = <<>> /\ nToken = 0
    /\ owned = {}
    /\ boot = DOMAIN Seed /\ restarts = 0
    /\ pc = [t \in Thread |-> "idle"] /\ arg = [t \in Thread |-> NoArg]

-----------------------------------------------------------------------------
(***************************************************************************)
(* The server starts: seed_users takes the configured names one by one.    *)
(***************************************************************************)

Taken(names) == \E u \in DOMAIN user : user[u].name \in names

\* INSERT INTO users: the name is UNIQUE, and no caller looks at the result.  A row
\* beyond the bound is refused like any the database has no room for.
InsertUser(n, r, p) ==
    IF Taken({n}) \/ nUser = MaxUser
    THEN UNCHANGED <<user, nUser>>
    ELSE /\ nUser' = nUser + 1
         /\ user' = With(user, nUser + 1, UserRow(n, r, p))

\* A name that is there gets the configured password back, and keeps its role.
SeedUser(n) ==
    /\ n \in boot
    /\ boot' = boot \ {n}
    /\ \/ \E u \in DOMAIN user :
            /\ user[u].name = n
            /\ user' = [user EXCEPT ![u] = UserRow(n, @.role, Seed[n].pass)]
            /\ UNCHANGED nUser
       \/ /\ ~Taken({n})
          /\ InsertUser(n, Seed[n].role, Seed[n].pass)
    /\ UNCHANGED <<session, nToken, owned, restarts, thread>>

\* The process ends, in the middle of requests, and starts again.
Restart ==
    /\ restarts < MaxRestart
    /\ restarts' = restarts + 1
    /\ boot' = DOMAIN Seed
    /\ pc' = [t \in Thread |-> "idle"] /\ arg' = [t \in Thread |-> NoArg]
    /\ UNCHANGED table

-----------------------------------------------------------------------------
(***************************************************************************)
(* Sessions                                                                *)
(***************************************************************************)

\* POST /api/auth/login reads the user and checks the password, which takes long.
Login(t) ==
    /\ Begins(t)
    /\ \E u \in DOMAIN user : Goes(t, "open", Asking(u, 0, "none"))
    /\ UNCHANGED <<table, server>>

\* The client gets the token even when its row is refused: by the foreign key, for a
\* user who is gone by then, or beyond the bound.
Open(t) ==
    /\ pc[t] = "open"
    /\ IF arg[t].user \in DOMAIN user /\ nToken < MaxToken
       THEN /\ nToken' = nToken + 1
            /\ session' = With(session, nToken + 1,
                               [user |-> arg[t].user, left |-> SessionHours])
       ELSE UNCHANGED <<session, nToken>>
    /\ Answers(t)
    /\ UNCHANGED <<user, nUser, owned, server>>

\* Every other request looks its token up first ...
Request(t) ==
    /\ Begins(t)
    /\ \E k \in DOMAIN session :
         /\ session[k].left > 0
         /\ Goes(t, "extend", Asking(session[k].user, k, "none"))
    /\ UNCHANGED <<table, server>>

\* Mutation: the session is put back with its new end.
Extend_Upsert(t) ==
    /\ pc[t] = "extend"
    /\ session' = With(session, arg[t].token, [user |-> arg[t].user, left |-> SlideHours])
    /\ Goes(t, "role", arg[t])
    /\ UNCHANGED <<user, nUser, nToken, owned, server>>

\* ... makes the session last, if it is still there ...
Extend(t) ==
    /\ pc[t] = "extend"
    /\ session' = IF arg[t].token \in DOMAIN session
                  THEN With(session, arg[t].token,
                            [user |-> session[arg[t].token].user, left |-> SlideHours])
                  ELSE session
    /\ Goes(t, "role", arg[t])
    /\ UNCHANGED <<user, nUser, nToken, owned, server>>

\* ... and reads the role, none for a user who is gone by then.
ReadRole(t) ==
    /\ pc[t] = "role"
    /\ Goes(t, "serve", Asking(arg[t].user, arg[t].token, RoleOf(arg[t].user)))
    /\ UNCHANGED <<table, server>>

\* The gate lets viewers read only, and use /api/auth/.
Writes(t) == pc[t] = "serve" /\ arg[t].role # "viewer"

\* A request that writes nothing modelled here, or is turned back at the gate.
Done(t) ==
    /\ pc[t] = "serve"
    /\ Answers(t)
    /\ UNCHANGED <<table, server>>

DeleteSessions(keys) == session' = Without(session, keys)

\* POST /api/auth/logout.
Logout(t) ==
    /\ pc[t] = "serve"
    /\ DeleteSessions({arg[t].token})
    /\ Answers(t)
    /\ UNCHANGED <<user, nUser, nToken, owned, server>>

\* DELETE /api/audit/sessions/:token goes by the role the request was let in with.
DeleteAuditSession(t) ==
    /\ pc[t] = "serve" /\ arg[t].role = "admin"
    /\ \E k \in DOMAIN session : DeleteSessions({k})
    /\ Answers(t)
    /\ UNCHANGED <<user, nUser, nToken, owned, server>>

\* An hour passes.
Tick ==
    /\ \E k \in DOMAIN session : session[k].left > 0
    /\ session' = [k \in DOMAIN session |->
                     [user |-> session[k].user,
                      left |-> IF session[k].left > 0 THEN session[k].left - 1 ELSE 0]]
    /\ UNCHANGED <<user, nUser, nToken, owned, server, thread>>

Expired == {k \in DOMAIN session : session[k].left = 0}

\* Mutation: the sessions that have not expired are pruned.
Cleanup_Reversed ==
    /\ boot = {} /\ DOMAIN session # Expired
    /\ session' = Without(session, DOMAIN session \ Expired)
    /\ UNCHANGED <<user, nUser, nToken, owned, server, thread>>

\* The cleaner thread, every hour.
Cleanup ==
    /\ boot = {} /\ Expired # {}
    /\ session' = Without(session, Expired)
    /\ UNCHANGED <<user, nUser, nToken, owned, server, thread>>

-----------------------------------------------------------------------------
(***************************************************************************)
(* Users                                                                   *)
(***************************************************************************)

\* POST /api/auth/change-password has the old password checked, then updates.
ChangePassword(t) ==
    /\ pc[t] = "serve"
    /\ arg[t].user \in DOMAIN user
    /\ \E p \in Password : Goes(t, "put_pass", Editing(arg[t].user, {}, {p}, FALSE))
    /\ UNCHANGED <<table, server>>

\* The handlers of /api/users ask for the requester's role again.
ByAdmin(t) == Writes(t) /\ RoleOf(arg[t].user) = "admin"

\* Mutation: a role that does not exist is not replaced by dealer.
PostUser_AnyRole(t) ==
    /\ ByAdmin(t)
    /\ \E n \in Name, p \in Password : Goes(t, "post_check", Adding(n, "owner", p))
    /\ UNCHANGED <<table, server>>

PostUser(t) ==
    /\ ByAdmin(t)
    /\ \E n \in Name, r \in Role, p \in Password : Goes(t, "post_check", Adding(n, r, p))
    /\ UNCHANGED <<table, server>>

PostUserCheck(t) ==
    /\ pc[t] = "post_check"
    /\ IF Taken(arg[t].name)
       THEN Answers(t)
       ELSE Goes(t, "post_insert", arg[t])
    /\ UNCHANGED <<table, server>>

PostUserInsert(t) ==
    /\ pc[t] = "post_insert"
    /\ \E n \in arg[t].name, r \in arg[t].grant, p \in arg[t].pass : InsertUser(n, r, p)
    /\ Answers(t)
    /\ UNCHANGED <<session, nToken, owned, server>>

\* PUT /api/users/:id with a role, a password or both.  To take the role of admin
\* away it counts the admins ...
PutUser(t) ==
    /\ ByAdmin(t)
    /\ \E u \in UserId, grant \in SUBSET Role, pass \in SUBSET Password :
         /\ Cardinality(grant) <= 1 /\ Cardinality(pass) <= 1
         /\ \E label \in {"put_count", "put_role", "put_pass"} :
              /\ label = "put_pass" <=> grant = {}
              /\ label = "put_role" <=> grant = {"admin"}
              /\ Goes(t, label, Editing(u, grant, pass, FALSE))
    /\ UNCHANGED <<table, server>>

\* Mutation: the admins are counted after the update, as a test of the result.
PutUserCount_Skipped(t) ==
    /\ pc[t] = "put_count"
    /\ Goes(t, "put_role", arg[t])
    /\ UNCHANGED <<table, server>>

PutUserCount(t) ==
    /\ pc[t] = "put_count"
    /\ Goes(t, "put_target",
            Editing(arg[t].target, arg[t].grant, arg[t].pass, Cardinality(Admins) <= 1))
    /\ UNCHANGED <<table, server>>

\* ... then looks at the account ...
PutUserTarget(t) ==
    /\ pc[t] = "put_target"
    /\ IF arg[t].alone /\ RoleOf(arg[t].target) = "admin"
       THEN Answers(t)
       ELSE Goes(t, "put_role", arg[t])
    /\ UNCHANGED <<table, server>>

\* ... then writes the role, and the password in a statement of its own.
PutUserRole(t) ==
    /\ pc[t] = "put_role"
    /\ \E r \in arg[t].grant :
         user' = [u \in DOMAIN user |-> IF u = arg[t].target
                                          THEN UserRow(user[u].name, r, user[u].pass)
                                          ELSE user[u]]
    /\ Goes(t, "put_pass", arg[t])
    /\ UNCHANGED <<nUser, session, nToken, owned, server>>

PutUserPass(t) ==
    /\ pc[t] = "put_pass"
    /\ \/ arg[t].pass = {} /\ UNCHANGED user
       \/ \E p \in arg[t].pass :
            user' = [u \in DOMAIN user |-> IF u = arg[t].target
                                             THEN UserRow(user[u].name, user[u].role, p)
                                             ELSE user[u]]
    /\ Answers(t)
    /\ UNCHANGED <<nUser, session, nToken, owned, server>>

\* DELETE /api/users/:id of someone else reads the role ...
DeleteUser(t) ==
    /\ ByAdmin(t)
    /\ \E u \in UserId \ {arg[t].user} :
         Goes(t, IF RoleOf(u) = "admin" THEN "del_count" ELSE "del_sessions",
                 Editing(u, {}, {}, FALSE))
    /\ UNCHANGED <<table, server>>

\* ... counts the admins if it is one ...
DeleteUserCount(t) ==
    /\ pc[t] = "del_count"
    /\ IF Cardinality(Admins) <= 1
       THEN Answers(t)
       ELSE Goes(t, "del_sessions", arg[t])
    /\ UNCHANGED <<table, server>>

\* ... and deletes the sessions ...
DeleteUserSessions(t) ==
    /\ pc[t] = "del_sessions"
    /\ DeleteSessions({k \in DOMAIN session : session[k].user = arg[t].target})
    /\ Goes(t, "del_user", arg[t])
    /\ UNCHANGED <<user, nUser, nToken, owned, server>>

\* Mutation: the connection is opened without PRAGMA foreign_keys=ON.
DeleteUserRow_NoForeignKeys(t) ==
    /\ pc[t] = "del_user"
    /\ user' = Without(user, {arg[t].target})
    /\ Answers(t)
    /\ UNCHANGED <<nUser, session, nToken, owned, server>>

\* ... and the row, which a foreign key keeps when the user has logged in again
\* or owns an item.  The answer is ok all the same.
DeleteUserRow(t) ==
    /\ pc[t] = "del_user"
    /\ LET u == arg[t].target
       IN  user' = IF u \in owned \/ \E k \in DOMAIN session : session[k].user = u
                   THEN user ELSE Without(user, {u})
    /\ Answers(t)
    /\ UNCHANGED <<nUser, session, nToken, owned, server>>

\* POST /api/items enters an item for the user of the request; items come and go.
OwnItem(t) ==
    /\ Writes(t)
    /\ arg[t].user \in DOMAIN user
    /\ owned' = owned \cup {arg[t].user}
    /\ Answers(t)
    /\ UNCHANGED <<user, nUser, session, nToken, server>>

DisownItem ==
    /\ \E u \in owned : owned' = owned \ {u}
    /\ UNCHANGED <<user, nUser, session, nToken, server, thread>>

-----------------------------------------------------------------------------
SessionStep(t) ==
    \/ Login(t) \/ Open(t) \/ Request(t) \/ Extend(t) \/ ReadRole(t) \/ Done(t)
    \/ Logout(t) \/ DeleteAuditSession(t)

UserStep(t) ==
    \/ ChangePassword(t) \/ PostUser(t) \/ PostUserCheck(t) \/ PostUserInsert(t)
    \/ PutUser(t) \/ PutUserCount(t) \/ PutUserTarget(t) \/ PutUserRole(t) \/ PutUserPass(t)
    \/ DeleteUser(t) \/ DeleteUserCount(t) \/ DeleteUserSessions(t) \/ DeleteUserRow(t)
    \/ OwnItem(t)

Next ==
    \/ \E n \in Name : SeedUser(n)
    \/ \E t \in Thread : SessionStep(t) \/ UserStep(t)
    \/ Restart \/ Tick \/ Cleanup \/ DisownItem

Spec == Init /\ [][Next]_vars

\* The server gets to the end of seed_users, and the cleaner thread runs.
Fairness == WF_vars(\E n \in Name : SeedUser(n)) /\ WF_vars(Cleanup)

FairSpec == Spec /\ Fairness

-----------------------------------------------------------------------------
(***************************************************************************)
(* Properties                                                              *)
(***************************************************************************)

Label ==
    {"idle", "open", "extend", "role", "serve", "post_check", "post_insert", "put_count",
     "put_target", "put_role", "put_pass", "del_count", "del_sessions", "del_user"}

Arg ==
    [user : Nat, token : Nat, role : Role \cup {"none"}, target : Nat, name : SUBSET Name,
     grant : SUBSET Role, pass : SUBSET Password, alone : BOOLEAN]

UsersOK ==
    /\ nUser \in 0..MaxUser
    /\ DOMAIN user \subseteq 1..nUser
    /\ \A u \in DOMAIN user : user[u] \in [name : Name, role : Role, pass : Password]

SessionsOK ==
    /\ nToken \in 0..MaxToken
    /\ DOMAIN session \subseteq 1..nToken
    /\ \A k \in DOMAIN session : session[k] \in [user : UserId, left : Nat]

ServerOK == boot \subseteq DOMAIN Seed /\ restarts \in 0..MaxRestart

ThreadOK == pc \in [Thread -> Label] /\ arg \in [Thread -> Arg]

\* Tables, threads and observers hold what the schema and the local variables can.
TypeOK == UsersOK /\ SessionsOK /\ owned \subseteq UserId /\ ServerOK /\ ThreadOK

\* Nobody is logged in as a user who is gone, although DELETE /api/users/:id takes
\* the sessions and the user away in two statements, and POST /api/auth/login checks
\* the password a statement before it opens a session (app_auth.cpp 184-201, 338-339).
SessionsHaveUsers ==
    /\ \A k \in DOMAIN session : session[k].user \in DOMAIN user
    /\ owned \subseteq DOMAIN user

\* docs/API.md:57, of PUT /api/users/:id: "Guards: cannot remove last admin, cannot
\* demote last admin".  Once the users are seeded there is always an admin.
AdminRemains ==
    (\E n \in DOMAIN Seed : Seed[n].role = "admin") /\ boot = {} => Admins # {}

\* A session that has expired does not stay in the table for ever, whatever requests
\* and restarts the cleaner thread meets (app_auth.cpp 141-151).
ExpiredSessionsArePruned ==
    \A k \in Token :
        (k \in DOMAIN session /\ session[k].left = 0)
            ~> (k \notin DOMAIN session \/ session[k].left > 0)

\* What those who go by users and sessions see of them: a SessionRegister.
Tokens == [k \in 1..nToken |-> IF k \in DOMAIN session THEN session[k].user ELSE 0]

Register == INSTANCE SessionRegister WITH ids <- nUser, users <- DOMAIN user, book <- Tokens

\* A session is one user's as long as it lasts, and once it is over, by a logout, by an
\* admin, with its user or by the cleaner, it is not revived by a request that looked it
\* up before and makes it last longer only now (app_auth.cpp 75-87); nobody leaves who
\* has a session, and no id comes back.
RegisterSpec == Register!Spec
=============================================================================
