------------------------------ MODULE HttpServer ------------------------------
(***************************************************************************)
(* The life of the server and of the requests it takes (server.cpp): an    *)
(* acceptor for each port, a thread for each connection, the gates a       *)
(* request passes before its handler runs, the limit on login attempts     *)
(* (app_auth.cpp), and stop().  The handlers are in the other modules: of  *)
(* one that writes only the moment it runs is kept here.  Accounts makes   *)
(* the sessions and roles, so who sends a request, and when an admin       *)
(* changes or deletes a user, is open.  Authentication is enabled.         *)
(***************************************************************************)
EXTENDS Integers, FiniteSets

CONSTANTS Acceptor,    \* the ports: the plain one, and the TLS one where there is a context
          Conn,        \* bound: the connections followed at a time
          User, NoUser,
          Addr,        \* the addresses logins come from
          MaxAttempts, \* auth.rate_limit_max
          Window,      \* auth.rate_limit_window
          MaxTime      \* bound: the clock

ASSUME HttpServerAssumption ==
    /\ Acceptor # {} /\ NoUser \notin User
    /\ MaxAttempts \in Nat \ {0} /\ Window \in Nat /\ MaxTime \in Nat

Time == 0..MaxTime
Role == {"admin", "dealer", "viewer"}
None == ""               \* user_role of a user that is gone
Kind == {"login", "read", "write", "shutdown"}

VARIABLES
    running,  \* running_
    acc,      \* what each acceptor does next: look at running_, accept, or nothing
    stopping, \* a detached thread sleeps before it calls stop()
    ended,    \* main has returned
    conn,     \* the connections' requests
    role,     \* users.role
    now,      \* the steady clock
    attempts, \* rate_map_: the attempts counted for each address
    passed    \* observer: the attempts that went on to the password

server == <<running, acc, stopping, ended>>
clock  == <<now, attempts, passed>>
vars   == <<server, conn, role, clock>>

Request(pc, k, u, r, had) == [pc |-> pc, kind |-> k, user |-> u, role |-> r, had |-> had]
Free == Request("free", "read", NoUser, None, {})

Init ==
    /\ running = TRUE /\ acc = [a \in Acceptor |-> "check"] /\ stopping = FALSE /\ ended = FALSE
    /\ conn = [c \in Conn |-> Free]
    /\ role \in [User -> Role]
    /\ now = 0
    /\ attempts = [a \in Addr |-> {}] /\ passed = [a \in Addr |-> {}]

-----------------------------------------------------------------------------
(***************************************************************************)
(* The acceptors                                                           *)
(***************************************************************************)

\* Mutation: the loop is left only by an error.
Check_Always(a) ==
    /\ ~ended /\ acc[a] = "check"
    /\ acc' = [acc EXCEPT ![a] = "accept"]
    /\ UNCHANGED <<running, stopping, ended, conn, role, clock>>

Check(a) ==
    /\ ~ended /\ acc[a] = "check"
    /\ acc' = [acc EXCEPT ![a] = IF running THEN "accept" ELSE "closed"]
    /\ UNCHANGED <<running, stopping, ended, conn, role, clock>>

\* accept() returns with a connection, which gets a thread; it is followed or not.
Accept(a) ==
    /\ ~ended /\ acc[a] = "accept"
    /\ acc' = [acc EXCEPT ![a] = "check"]
    /\ \/ \E c \in Conn : /\ conn[c].pc = "free"
                          /\ conn' = [conn EXCEPT ![c].pc = "parse"]
       \/ UNCHANGED conn
    /\ UNCHANGED <<running, stopping, ended, role, clock>>

\* stop(): from a signal, or from the thread the shutdown route left behind.
Stop ==
    /\ ~ended /\ running'  = FALSE
    /\ UNCHANGED <<acc, stopping, ended, conn, role, clock>>

StopLater ==
    /\ ~ended /\ stopping
    /\ stopping' = FALSE /\ running' = FALSE
    /\ UNCHANGED <<acc, ended, conn, role, clock>>

\* The plain acceptor's thread joins the TLS one and main returns, with what the detached
\* threads were at.
Exit ==
    /\ ~ended /\ \A a \in Acceptor : acc[a] = "closed"
    /\ ended' = TRUE
    /\ conn' = [c \in Conn |-> Free]
    /\ UNCHANGED <<running, acc, stopping, role, clock>>

-----------------------------------------------------------------------------
(***************************************************************************)
(* A connection's thread                                                   *)
(***************************************************************************)

At(c, label) == ~ended /\ conn[c].pc = label
Becomes(c, r) == conn' = [conn EXCEPT ![c] = r] /\ UNCHANGED <<server, role, clock>>

\* parse_request: the token's session is looked up, if there is one.
Parse(c) ==
    /\ At(c, "parse")
    /\ \E k \in Kind :
         \/ Becomes(c, Request("gate", k, NoUser, None, {}))
         \/ \E u \in User : /\ role[u] # None
                            /\ Becomes(c, Request("role", k, u, None, {role[u]}))

\* user_role, in a statement of its own.
ReadRole(c) ==
    /\ At(c, "role")
    /\ Becomes(c, [conn[c] EXCEPT !.pc = "gate", !.role = role[conn[c].user]])

Public(k) == k = "login"
Writes(k) == k \in {"write", "shutdown"}

\* The authentication gate answers 401, the role gate 403, and no role is no viewer's.
Gate(c) ==
    /\ At(c, "gate")
    /\ LET r == conn[c]
       IN  Becomes(c, IF \/ r.user = NoUser /\ ~Public(r.kind)
                         \/ r.role = "viewer" /\ Writes(r.kind)
                      THEN Free ELSE [r EXCEPT !.pc = "run"])

\* The handlers of other modules.
Run(c) ==
    /\ At(c, "run") /\ conn[c].kind \in {"read", "write"}
    /\ Becomes(c, Free)

Shutdown(c) ==
    /\ At(c, "run") /\ conn[c].kind = "shutdown"
    /\ conn' = [conn EXCEPT ![c] = Free]
    /\ stopping' = (stopping \/ conn[c].role = "admin")
    /\ UNCHANGED <<running, acc, ended, role, clock>>

(***************************************************************************)
(* An attempt is its time, and its number among those of that time.        *)
(***************************************************************************)

\* Mutation: an attempt no longer counts when it is as old as the window is long.
Kept_Short(a) == {x \in attempts[a] : now - x[1] < Window}

\* The attempts a later one at this moment still counts.
Kept(a) == {x \in attempts[a] : now - x[1] <= Window}

Limited(a) == Cardinality(Kept(a)) >= MaxAttempts

\* The attempt that comes now, after the others of this moment.
Attempt(others) ==
    {<<now, n>> : n \in {n \in 1..MaxAttempts : /\ <<now, n>> \notin others
                                               /\ \A m \in 1..(n - 1) : <<now, m>> \in others}}

\* Mutation: a refused attempt counts as well.
Login_CountsAll(c) ==
    /\ At(c, "run") /\ conn[c].kind = "login"
    /\ \E a \in Addr : \E x \in Attempt(Kept(a)) :
         /\ attempts' = [attempts EXCEPT ![a] = Kept(a) \cup {x}]
         /\ passed' = [passed EXCEPT ![a] = IF Limited(a) THEN @ ELSE @ \cup {x}]
    /\ conn' = [conn EXCEPT ![c] = Free]
    /\ UNCHANGED <<server, role, now>>

\* The login handler: rate_limited, under its mutex, and then the password, right or wrong.
Login(c) ==
    /\ At(c, "run") /\ conn[c].kind = "login"
    /\ \E a \in Addr :
         IF Limited(a)
         THEN attempts' = [attempts EXCEPT ![a] = Kept(a)] /\ UNCHANGED passed
         ELSE \E x \in Attempt(Kept(a)) :
                /\ attempts' = [attempts EXCEPT ![a] = Kept(a) \cup {x}]
                /\ passed' = [passed EXCEPT ![a] = @ \cup {x}]
    /\ conn' = [conn EXCEPT ![c] = Free]
    /\ UNCHANGED <<server, role, now>>

-----------------------------------------------------------------------------
(***************************************************************************)
(* What happens meanwhile                                                  *)
(***************************************************************************)

Tick ==
    /\ ~ended /\ now < MaxTime /\ now' = now + 1
    /\ UNCHANGED <<server, conn, role, attempts, passed>>

\* An admin gives a user another role, or deletes it.
ChangeUser ==
    /\ ~ended
    /\ \E u \in User, r \in Role \cup {None} :
         /\ role[u] \notin {None, r}
         /\ role' = [role EXCEPT ![u] = r]
         /\ conn' = [c \in Conn |->
                       IF conn[c].user = u THEN [conn[c] EXCEPT !.had = @ \cup {r}] ELSE conn[c]]
    /\ UNCHANGED <<server, clock>>

Handle(c) == Parse(c) \/ ReadRole(c) \/ Gate(c) \/ Run(c) \/ Shutdown(c) \/ Login(c)

Next ==
    \/ \E a \in Acceptor : Check(a) \/ Accept(a)
    \/ Stop \/ StopLater \/ Exit
    \/ \E c \in Conn : Handle(c)
    \/ Tick \/ ChangeUser

Spec == Init /\ [][Next]_vars

(***************************************************************************)
(* The threads of the server go on, and connections keep coming to every   *)
(* port.  A client may leave its own thread waiting for ever.              *)
(***************************************************************************)
Fairness ==
    /\ \A a \in Acceptor : WF_vars(Check(a)) /\ WF_vars(Accept(a))
    /\ WF_vars(StopLater) /\ WF_vars(Exit)

FairSpec == Spec /\ Fairness

-----------------------------------------------------------------------------
(***************************************************************************)
(* What holds of it                                                        *)
(***************************************************************************)

\* The types of the variables.
TypeOK ==
    /\ running \in BOOLEAN /\ stopping \in BOOLEAN /\ ended \in BOOLEAN
    /\ acc \in [Acceptor -> {"check", "accept", "closed"}]
    /\ conn \in [Conn -> [pc : {"free", "parse", "role", "gate", "run"}, kind : Kind,
                          user : User \cup {NoUser}, role : Role \cup {None},
                          had : SUBSET (Role \cup {None})]]
    /\ role \in [User -> Role \cup {None}]
    /\ now \in Time
    /\ attempts \in [Addr -> SUBSET (Time \X (1..MaxAttempts))]
    /\ passed \in [Addr -> SUBSET (Time \X (1..MaxAttempts))]
    /\ \A a \in Addr : attempts[a] \subseteq passed[a] /\ Cardinality(attempts[a]) <= MaxAttempts

\* No more than rate_limit_max attempts from an address come to a password check in any
\* stretch of time as long as the window, its ends included.
AttemptsBounded ==
    \A a \in Addr, t \in Time :
      Cardinality({x \in passed[a] : t <= x[1] /\ x[1] <= t + Window}) <= MaxAttempts

\* A handler runs for a user with a role that user has had since its session was found, and
\* one that writes only if the user was not a viewer all that while (a user deleted between
\* the two reads has no role, and passes).
RolesHold ==
    \A c \in Conn :
      conn[c].pc = "run" /\ conn[c].user # NoUser =>
        /\ conn[c].role \in conn[c].had
        /\ Writes(conn[c].kind) => conn[c].had # {"viewer"}

\* The limit on logins and the gates together.
GatesHold == AttemptsBounded /\ RolesHold

\* A server told to stop, by a signal or an admin, ends, if every port gets another
\* connection: an acceptor looks at the flag only between two of them.
StopEnds == (stopping \/ ~running) ~> ended

=============================================================================
