--------------------------- MODULE HttpServer_proofs ---------------------------
(***************************************************************************)
(* Proofs about HttpServer, for any number of ports, connections, users    *)
(* and addresses, any limit on the attempts and any window.                *)
(***************************************************************************)
EXTENDS HttpServer, FiniteSetTheorems, TLAPS

\* The attempts that went on to the password are of the past, and those of the last window
\* still count.
RecentAreKept ==
    \A a \in Addr : \A x \in passed[a] : x[1] <= now /\ (now - x[1] <= Window => x \in attempts[a])

\* The role a request has read is one its user has had since the session was found, and so
\* is the one it is about to read.
RequestOK(c) ==
    /\ conn[c].pc = "role" => conn[c].user # NoUser
    /\ conn[c].user # NoUser =>
         /\ conn[c].pc = "role" => role[conn[c].user] \in conn[c].had
         /\ conn[c].pc \in {"gate", "run"} => conn[c].role \in conn[c].had
         /\ conn[c].pc = "run" => ~(conn[c].role = "viewer" /\ Writes(conn[c].kind))

RequestsOK == \A c \in Conn : RequestOK(c)

ServerInv == TypeOK /\ AttemptsBounded /\ RecentAreKept /\ RequestsOK

-----------------------------------------------------------------------------
(***************************************************************************)
(* The invariant in three parts: the server's threads, the requests, and   *)
(* the attempts.                                                           *)
(***************************************************************************)
RequestType ==
    [pc : {"free", "parse", "role", "gate", "run"}, kind : Kind, user : User \cup {NoUser},
     role : Role \cup {None}, had : SUBSET (Role \cup {None})]

ServerOK ==
    /\ running \in BOOLEAN /\ stopping \in BOOLEAN /\ ended \in BOOLEAN
    /\ acc \in [Acceptor -> {"check", "accept", "closed"}]

ConnsOK ==
    /\ conn \in [Conn -> RequestType]
    /\ role \in [User -> Role \cup {None}]
    /\ RequestsOK

AttemptsOK ==
    /\ now \in Time
    /\ attempts \in [Addr -> SUBSET (Time \X (1..MaxAttempts))]
    /\ passed \in [Addr -> SUBSET (Time \X (1..MaxAttempts))]
    /\ \A a \in Addr : attempts[a] \subseteq passed[a] /\ Cardinality(attempts[a]) <= MaxAttempts
    /\ AttemptsBounded /\ RecentAreKept

LEMMA InvParts == ServerInv <=> ServerOK /\ ConnsOK /\ AttemptsOK
  BY DEF ServerInv, TypeOK, ServerOK, ConnsOK, AttemptsOK, RequestType

LEMMA InvFrom == ASSUME ServerOK', ConnsOK', AttemptsOK' PROVE ServerInv'
  BY InvParts, PTL

LEMMA FreeIs == Free \in RequestType /\ Free.user = NoUser /\ Free.pc = "free"
  BY DEF Free, Request, RequestType, Kind, None

LEMMA AttemptsStay == ASSUME AttemptsOK, UNCHANGED clock PROVE AttemptsOK'
  BY DEF AttemptsOK, AttemptsBounded, RecentAreKept, clock

LEMMA ServerStays == ASSUME ServerOK, UNCHANGED server PROVE ServerOK'
  BY DEF ServerOK, server

LEMMA ConnsStay == ASSUME ConnsOK, UNCHANGED <<conn, role>> PROVE ConnsOK'
  BY DEF ConnsOK, RequestsOK, RequestOK

\* One connection's request goes on.
LEMMA ConnBecomes ==
  ASSUME ConnsOK, NEW c \in Conn, NEW r \in RequestType, conn' = [conn EXCEPT ![c] = r],
         UNCHANGED role,
         r.pc = "role" => r.user # NoUser,
         r.user # NoUser =>
           /\ r.pc = "role" => role[r.user] \in r.had
           /\ r.pc \in {"gate", "run"} => r.role \in r.had
           /\ r.pc = "run" => ~(r.role = "viewer" /\ Writes(r.kind))
  PROVE  ConnsOK'
<1>1. /\ conn' \in [Conn -> RequestType] /\ conn'[c] = r
      /\ \A d \in Conn \ {c} : conn'[d] = conn[d]
  BY DEF ConnsOK
<1>2. RequestsOK'
  BY <1>1 DEF ConnsOK, RequestsOK, RequestOK, Writes
<1> QED
  BY <1>1, <1>2 DEF ConnsOK

LEMMA ConnFree ==
  ASSUME ConnsOK, NEW c \in Conn, conn' = [conn EXCEPT ![c] = Free], UNCHANGED role
  PROVE  ConnsOK'
<1>1. PICK r : r = Free
  OBVIOUS
<1>2. r \in RequestType /\ r.user = NoUser /\ r.pc = "free" /\ conn' = [conn EXCEPT ![c] = r]
  BY <1>1, FreeIs
<1> QED
  BY <1>2, ConnBecomes

-----------------------------------------------------------------------------
(***************************************************************************)
(* The acceptors and the end of the server                                 *)
(***************************************************************************)
LEMMA CheckStep == ASSUME ServerInv, NEW a \in Acceptor, Check(a) PROVE ServerInv'
<1>1. /\ acc' = [acc EXCEPT ![a] = IF running THEN "accept" ELSE "closed"]
      /\ UNCHANGED <<running, stopping, ended, conn, role, clock>>
  BY DEF Check
<1>2. ServerOK'
  BY <1>1, InvParts DEF ServerOK
<1> QED
  BY <1>1, <1>2, InvParts, ConnsStay, AttemptsStay, InvFrom

LEMMA AcceptStep == ASSUME ServerInv, NEW a \in Acceptor, Accept(a) PROVE ServerInv'
<1>1. /\ acc' = [acc EXCEPT ![a] = "check"]
      /\ UNCHANGED <<running, stopping, ended, role, clock>>
  BY DEF Accept
<1>2. ServerOK'
  BY <1>1, InvParts DEF ServerOK
<1>3. CASE UNCHANGED conn
  BY <1>1, <1>2, <1>3, InvParts, ConnsStay, AttemptsStay, InvFrom
<1>4. ASSUME NEW c \in Conn, conn' = [conn EXCEPT ![c].pc = "parse"] PROVE ServerInv'
  <2>1. PICK r : r = [conn[c] EXCEPT !.pc = "parse"]
    OBVIOUS
  <2>2. conn[c] \in RequestType
    BY InvParts DEF ConnsOK
  <2>3. r \in RequestType /\ r.pc = "parse" /\ conn' = [conn EXCEPT ![c] = r]
    BY <1>4, <2>1, <2>2 DEF RequestType
  <2> QED
    BY <1>1, <1>2, <2>3, InvParts, ConnBecomes, AttemptsStay, InvFrom
<1> QED
  BY <1>3, <1>4 DEF Accept

LEMMA StopStep == ASSUME ServerInv, Stop PROVE ServerInv'
<1>1. running' = FALSE /\ UNCHANGED <<acc, stopping, ended, conn, role, clock>>
  BY DEF Stop
<1>2. ServerOK'
  BY <1>1, InvParts DEF ServerOK
<1> QED
  BY <1>1, <1>2, InvParts, ConnsStay, AttemptsStay, InvFrom

LEMMA StopLaterStep == ASSUME ServerInv, StopLater PROVE ServerInv'
<1>1. stopping' = FALSE /\ running' = FALSE /\ UNCHANGED <<acc, ended, conn, role, clock>>
  BY DEF StopLater
<1>2. ServerOK'
  BY <1>1, InvParts DEF ServerOK
<1> QED
  BY <1>1, <1>2, InvParts, ConnsStay, AttemptsStay, InvFrom

LEMMA ExitStep == ASSUME ServerInv, Exit PROVE ServerInv'
<1>1. /\ ended' = TRUE /\ conn' = [c \in Conn |-> Free]
      /\ UNCHANGED <<running, acc, stopping, role, clock>>
  BY DEF Exit
<1>2. ServerOK'
  BY <1>1, InvParts DEF ServerOK
<1>3. ConnsOK'
  BY <1>1, FreeIs, InvParts DEF ConnsOK, RequestsOK, RequestOK
<1> QED
  BY <1>1, <1>2, <1>3, InvParts, AttemptsStay, InvFrom

-----------------------------------------------------------------------------
(***************************************************************************)
(* A connection's thread                                                   *)
(***************************************************************************)
LEMMA BecomesKeeps ==
  ASSUME ServerInv, UNCHANGED <<server, clock>>, ConnsOK'
  PROVE  ServerInv'
  BY InvParts, ServerStays, AttemptsStay, InvFrom

LEMMA ParseStep == ASSUME ServerInv, NEW c \in Conn, Parse(c) PROVE ServerInv'
<1>1. role \in [User -> Role \cup {None}] /\ NoUser \notin User
  BY InvParts, HttpServerAssumption DEF ConnsOK
<1>2. PICK k \in Kind :
        \/ Becomes(c, Request("gate", k, NoUser, None, {}))
        \/ \E u \in User : /\ role[u] # None
                           /\ Becomes(c, Request("role", k, u, None, {role[u]}))
  BY DEF Parse
<1>3. PICK r \in RequestType :
        /\ Becomes(c, r)
        /\ r.user # NoUser <=> r.pc = "role"
        /\ r.user # NoUser => role[r.user] \in r.had
  <2>1. CASE Becomes(c, Request("gate", k, NoUser, None, {}))
    <3>1. PICK r : r = Request("gate", k, NoUser, None, {})
      OBVIOUS
    <3>2. r \in RequestType /\ r.user = NoUser /\ r.pc = "gate"
      BY <3>1 DEF Request, RequestType
    <3> QED
      BY <2>1, <3>1, <3>2
  <2>2. ASSUME NEW u \in User, Becomes(c, Request("role", k, u, None, {role[u]}))
        PROVE  \E r \in RequestType :
                 /\ Becomes(c, r)
                 /\ r.user # NoUser <=> r.pc = "role"
                 /\ r.user # NoUser => role[r.user] \in r.had
    <3>1. PICK r : r = Request("role", k, u, None, {role[u]})
      OBVIOUS
    <3>2. r \in RequestType /\ r.user = u /\ r.pc = "role" /\ r.had = {role[u]}
      BY <1>1, <3>1 DEF Request, RequestType
    <3>3. r.user # NoUser /\ role[r.user] \in r.had
      BY <1>1, <3>2
    <3> QED
      BY <2>2, <3>1, <3>2, <3>3
  <2> QED
    BY <1>2, <2>1, <2>2
<1>4. conn' = [conn EXCEPT ![c] = r] /\ UNCHANGED <<server, role, clock>>
  BY <1>3 DEF Becomes
<1> QED
  BY <1>3, <1>4, InvParts, ConnBecomes, BecomesKeeps

LEMMA ReadRoleStep == ASSUME ServerInv, NEW c \in Conn, ReadRole(c) PROVE ServerInv'
<1>1. conn[c] \in RequestType /\ role \in [User -> Role \cup {None}] /\ RequestOK(c)
  BY InvParts DEF ConnsOK, RequestsOK
<1>2. conn[c].pc = "role"
  BY DEF ReadRole, At
<1>3. PICK r : r = [conn[c] EXCEPT !.pc = "gate", !.role = role[conn[c].user]]
  OBVIOUS
<1>4. conn' = [conn EXCEPT ![c] = r] /\ UNCHANGED <<server, role, clock>>
  BY <1>3 DEF ReadRole, Becomes
<1>5. conn[c].user \in User /\ role[conn[c].user] \in conn[c].had
  BY <1>1, <1>2 DEF RequestOK, RequestType
<1>6. /\ r \in RequestType /\ r.pc = "gate" /\ r.role = role[conn[c].user]
      /\ r.had = conn[c].had /\ r.user = conn[c].user
  BY <1>1, <1>3, <1>5 DEF RequestType
<1> QED
  BY <1>4, <1>5, <1>6, InvParts, ConnBecomes, BecomesKeeps

LEMMA GateStep == ASSUME ServerInv, NEW c \in Conn, Gate(c) PROVE ServerInv'
<1>1. conn[c] \in RequestType /\ RequestOK(c) /\ conn[c].pc = "gate"
  BY InvParts DEF ConnsOK, RequestsOK, Gate, At
<1>2. PICK r : r = [conn[c] EXCEPT !.pc = "run"]
  OBVIOUS
<1>3. /\ UNCHANGED <<server, role, clock>>
      /\ \/ conn' = [conn EXCEPT ![c] = Free]
         \/ /\ conn' = [conn EXCEPT ![c] = r]
            /\ ~(conn[c].role = "viewer" /\ Writes(conn[c].kind))
  BY <1>2 DEF Gate, Becomes
<1>4. CASE conn' = [conn EXCEPT ![c] = Free]
  BY <1>3, <1>4, InvParts, ConnFree, BecomesKeeps
<1>5. CASE conn' = [conn EXCEPT ![c] = r] /\ ~(conn[c].role = "viewer" /\ Writes(conn[c].kind))
  <2>1. /\ r \in RequestType /\ r.pc = "run" /\ r.role = conn[c].role /\ r.kind = conn[c].kind
        /\ r.had = conn[c].had /\ r.user = conn[c].user
    BY <1>1, <1>2 DEF RequestType
  <2>2. r.user # NoUser => r.role \in r.had
    BY <1>1, <2>1 DEF RequestOK
  <2>3. ~(r.role = "viewer" /\ Writes(r.kind))
    BY <1>5, <2>1
  <2> QED
    BY <1>3, <1>5, <2>1, <2>2, <2>3, InvParts, ConnBecomes, BecomesKeeps
<1> QED
  BY <1>3, <1>4, <1>5

LEMMA RunStep == ASSUME ServerInv, NEW c \in Conn, Run(c) PROVE ServerInv'
<1>1. conn' = [conn EXCEPT ![c] = Free] /\ UNCHANGED <<server, role, clock>>
  BY DEF Run, Becomes
<1> QED
  BY <1>1, InvParts, ConnFree, BecomesKeeps

LEMMA ShutdownStep == ASSUME ServerInv, NEW c \in Conn, Shutdown(c) PROVE ServerInv'
<1>1. /\ conn' = [conn EXCEPT ![c] = Free]
      /\ stopping' = (stopping \/ conn[c].role = "admin")
      /\ UNCHANGED <<running, acc, ended, role, clock>>
  BY DEF Shutdown
<1>2. stopping' \in BOOLEAN
  BY <1>1
<1>3. ServerOK'
  BY <1>1, <1>2, InvParts DEF ServerOK
<1> QED
  BY <1>1, <1>3, InvParts, ConnFree, AttemptsStay, InvFrom

-----------------------------------------------------------------------------
(***************************************************************************)
(* Attempts to log in                                                      *)
(***************************************************************************)
LEMMA AttemptsAreFinite == \A S \in SUBSET (Time \X (1..MaxAttempts)) : IsFiniteSet(S)
<1>1. IsFiniteSet(Time) /\ IsFiniteSet(1..MaxAttempts)
  BY HttpServerAssumption, FS_Interval DEF Time
<1>2. IsFiniteSet(Time \X (1..MaxAttempts))
  BY <1>1, FS_Product
<1> QED
  BY <1>2, FS_Subset

\* An address that has too many attempts in the window is refused; the others that count
\* are those kept, and the attempt that passes is one more.
LEMMA LoginStep == ASSUME ServerInv, NEW c \in Conn, Login(c) PROVE ServerInv'
<1>1. conn' = [conn EXCEPT ![c] = Free] /\ UNCHANGED <<server, role, now>>
  BY DEF Login
<1>2. PICK a \in Addr :
        IF Limited(a)
        THEN attempts' = [attempts EXCEPT ![a] = Kept(a)] /\ UNCHANGED passed
        ELSE \E x \in Attempt(Kept(a)) :
               /\ attempts' = [attempts EXCEPT ![a] = Kept(a) \cup {x}]
               /\ passed' = [passed EXCEPT ![a] = @ \cup {x}]
  BY DEF Login
<1> DEFINE All == Time \X (1..MaxAttempts)
<1>3. /\ attempts[a] \in SUBSET All /\ passed[a] \in SUBSET All
      /\ attempts[a] \subseteq passed[a] /\ Cardinality(attempts[a]) <= MaxAttempts
      /\ now \in Time /\ now \in Int
  BY InvParts DEF AttemptsOK, Time
<1>4. \A x \in All : x[1] \in Int
  BY DEF Time
<1> HIDE DEF All
<1>5. Kept(a) \subseteq attempts[a] /\ Kept(a) \in SUBSET All /\ IsFiniteSet(Kept(a))
  BY <1>3, AttemptsAreFinite DEF Kept, All
<1>6. Cardinality(Kept(a)) \in Nat
  BY <1>5, FS_CardinalityType
<1>7. \A x \in passed[a] : x[1] <= now /\ (now - x[1] <= Window => x \in Kept(a))
  BY InvParts DEF AttemptsOK, RecentAreKept, Kept
<1>8. CASE Limited(a)
  <2>1. attempts' = [attempts EXCEPT ![a] = Kept(a)] /\ UNCHANGED passed
    BY <1>2, <1>8
  <2>2. /\ attempts' \in [Addr -> SUBSET All] /\ attempts'[a] = Kept(a)
        /\ \A b \in Addr \ {a} : attempts'[b] = attempts[b]
    BY <1>5, <2>1, InvParts DEF AttemptsOK, All
  <2>3. Cardinality(Kept(a)) <= MaxAttempts
    <3>1. Cardinality(Kept(a)) <= Cardinality(attempts[a])
      BY <1>3, <1>5, FS_Subset, AttemptsAreFinite DEF All
    <3>2. Cardinality(attempts[a]) \in Nat
      BY <1>3, AttemptsAreFinite, FS_CardinalityType DEF All
    <3> QED
      BY <1>3, <1>6, <3>1, <3>2, HttpServerAssumption
  <2>4. RecentAreKept'
    BY <1>1, <1>7, <2>1, <2>2, InvParts DEF AttemptsOK, RecentAreKept
  <2>5. AttemptsBounded'
    BY <2>1, InvParts DEF AttemptsOK, AttemptsBounded
  <2>6. AttemptsOK'
    BY <1>1, <1>3, <1>5, <2>1, <2>2, <2>3, <2>4, <2>5, InvParts DEF AttemptsOK, All
  <2> QED
    BY <1>1, <2>6, InvParts, ConnFree, ServerStays, InvFrom
<1>9. CASE ~Limited(a)
  <2>1. PICK x \in Attempt(Kept(a)) :
          /\ attempts' = [attempts EXCEPT ![a] = Kept(a) \cup {x}]
          /\ passed' = [passed EXCEPT ![a] = @ \cup {x}]
    BY <1>2, <1>9
  <2>2. x \in All /\ x[1] = now /\ x \notin Kept(a)
    <3>1. PICK n \in 1..MaxAttempts : x = <<now, n>> /\ <<now, n>> \notin Kept(a)
      BY DEF Attempt
    <3> QED
      BY <1>3, <3>1 DEF All
  <2> DEFINE K == Kept(a) \cup {x}
  <2>3. K \in SUBSET All /\ IsFiniteSet(K) /\ Cardinality(K) = Cardinality(Kept(a)) + 1
    BY <1>5, <2>2, FS_AddElement
  <2>4. Cardinality(K) <= MaxAttempts /\ Cardinality(K) \in Nat
    BY <1>6, <1>9, <2>3, HttpServerAssumption DEF Limited
  <2>5. attempts' = [attempts EXCEPT ![a] = K]
    BY <2>1
  <2>6. K \subseteq passed[a] \cup {x} /\ \A y \in Kept(a) \cup {x} : y \in K
    BY <1>3, <1>5
  <2> HIDE DEF K
  <2>7. /\ attempts' \in [Addr -> SUBSET All] /\ attempts'[a] = K
        /\ \A b \in Addr \ {a} : attempts'[b] = attempts[b]
    BY <2>3, <2>5, InvParts DEF AttemptsOK, All
  <2>8. /\ passed' \in [Addr -> SUBSET All] /\ passed'[a] = passed[a] \cup {x}
        /\ \A b \in Addr \ {a} : passed'[b] = passed[b]
    BY <1>3, <2>1, <2>2, InvParts DEF AttemptsOK, All
  <2>9. RecentAreKept'
    BY <1>1, <1>3, <1>7, <2>2, <2>6, <2>7, <2>8, InvParts DEF AttemptsOK, RecentAreKept
  <2>10. ASSUME NEW t \in Time
         PROVE  Cardinality({y \in passed'[a] : t <= y[1] /\ y[1] <= t + Window}) <= MaxAttempts
    <3> DEFINE S == {y \in passed[a] : t <= y[1] /\ y[1] <= t + Window}
               N == {y \in passed'[a] : t <= y[1] /\ y[1] <= t + Window}
    <3>1. CASE t <= now /\ now <= t + Window
      <4>1. \A y \in passed[a] : t <= y[1] => y \in Kept(a)
        BY <1>3, <1>4, <1>7, <3>1, HttpServerAssumption DEF Time
      <4>2. N \subseteq K
        BY <2>6, <2>8, <4>1
      <4>3. Cardinality(N) <= Cardinality(K) /\ Cardinality(N) \in Nat
        BY <2>3, <4>2, FS_Subset, FS_CardinalityType
      <4> QED
        BY <2>4, <4>3, HttpServerAssumption
    <3>2. CASE ~(t <= now /\ now <= t + Window)
      <4>1. N = S
        BY <2>2, <2>8, <3>2
      <4>2. Cardinality(S) <= MaxAttempts
        BY InvParts DEF AttemptsOK, AttemptsBounded
      <4> QED
        BY <4>1, <4>2
    <3> QED
      BY <3>1, <3>2
  <2>11. AttemptsBounded'
    BY <2>8, <2>10, InvParts DEF AttemptsOK, AttemptsBounded
  <2>12. AttemptsOK'
    BY <1>1, <1>3, <2>4, <2>6, <2>7, <2>8, <2>9, <2>11, InvParts DEF AttemptsOK, All
  <2> QED
    BY <1>1, <2>12, InvParts, ConnFree, ServerStays, InvFrom
<1> QED
  BY <1>8, <1>9

-----------------------------------------------------------------------------
(***************************************************************************)
(* What happens meanwhile                                                  *)
(***************************************************************************)
LEMMA TickStep == ASSUME ServerInv, Tick PROVE ServerInv'
<1>1. now < MaxTime /\ now' = now + 1 /\ UNCHANGED <<server, conn, role, attempts, passed>>
  BY DEF Tick
<1>2. now \in Time /\ now \in Int /\ now' \in Time
  BY <1>1, InvParts, HttpServerAssumption DEF AttemptsOK, Time
<1>3. \A a \in Addr : \A x \in passed[a] : x[1] \in Int
  BY InvParts DEF AttemptsOK, Time
<1>4. RecentAreKept'
  BY <1>1, <1>2, <1>3, InvParts, HttpServerAssumption DEF AttemptsOK, RecentAreKept
<1>5. AttemptsOK'
  BY <1>1, <1>2, <1>4, InvParts DEF AttemptsOK, AttemptsBounded
<1> QED
  BY <1>1, <1>5, InvParts, ServerStays, ConnsStay, InvFrom

\* A request of the user has had the new role as well.
LEMMA ChangeUserStep == ASSUME ServerInv, ChangeUser PROVE ServerInv'
<1>1. UNCHANGED <<server, clock>>
  BY DEF ChangeUser
<1>2. PICK u \in User, r \in Role \cup {None} :
        /\ role' = [role EXCEPT ![u] = r]
        /\ conn' = [c \in Conn |->
                      IF conn[c].user = u THEN [conn[c] EXCEPT !.had = @ \cup {r}] ELSE conn[c]]
  BY DEF ChangeUser
<1>3. /\ role' \in [User -> Role \cup {None}] /\ role'[u] = r
      /\ \A v \in User \ {u} : role'[v] = role[v]
  BY <1>2, InvParts DEF ConnsOK
<1>4. ASSUME NEW c \in Conn
      PROVE  /\ conn'[c] \in RequestType /\ conn'[c].pc = conn[c].pc
             /\ conn'[c].user = conn[c].user /\ conn'[c].role = conn[c].role
             /\ conn'[c].kind = conn[c].kind /\ conn[c].had \subseteq conn'[c].had
             /\ conn[c].user = u => r \in conn'[c].had
  <2>1. conn[c] \in RequestType
    BY InvParts DEF ConnsOK
  <2>2. CASE conn[c].user = u
    <3>1. conn'[c] = [conn[c] EXCEPT !.had = @ \cup {r}]
      BY <1>2, <2>2
    <3> QED
      BY <2>1, <3>1 DEF RequestType
  <2>3. CASE conn[c].user # u
    BY <1>2, <2>1, <2>3
  <2> QED
    BY <2>2, <2>3
<1>5. conn' \in [Conn -> RequestType]
  BY <1>2, <1>4
<1>6. ASSUME NEW c \in Conn PROVE RequestOK(c)'
  <2>1. RequestOK(c) /\ conn[c] \in RequestType
    BY InvParts DEF ConnsOK, RequestsOK
  <2>2. conn[c].user \in User \cup {NoUser}
    BY <2>1 DEF RequestType
  <2> QED
    BY <1>3, <1>4, <2>1, <2>2 DEF RequestOK, Writes
<1>7. ConnsOK'
  BY <1>3, <1>5, <1>6 DEF ConnsOK, RequestsOK
<1> QED
  BY <1>1, <1>7, BecomesKeeps

-----------------------------------------------------------------------------
(***************************************************************************)
(* The theorems                                                            *)
(***************************************************************************)
LEMMA ServerInvInit == Init => ServerInv
<1> SUFFICES ASSUME Init PROVE ServerInv
  OBVIOUS
<1>1. ServerOK
  BY DEF Init, ServerOK
<1>2. ConnsOK
  BY FreeIs DEF Init, ConnsOK, RequestsOK, RequestOK
<1>3. AttemptsOK
  <2>1. Cardinality({}) = 0
    BY FS_EmptySet
  <2>2. \A t \in Time : {x \in {} : t <= x[1] /\ x[1] <= t + Window} = {}
    OBVIOUS
  <2>3. AttemptsBounded /\ RecentAreKept
    BY <2>1, <2>2, HttpServerAssumption DEF Init, AttemptsBounded, RecentAreKept
  <2> QED
    BY <2>1, <2>3, HttpServerAssumption DEF Init, AttemptsOK, Time
<1> QED
  BY <1>1, <1>2, <1>3, InvParts

LEMMA ServerInvStep == ServerInv /\ [Next]_vars => ServerInv'
<1> SUFFICES ASSUME ServerInv, [Next]_vars PROVE ServerInv'
  OBVIOUS
<1>1. ASSUME NEW a \in Acceptor, Check(a) \/ Accept(a) PROVE ServerInv'
  BY <1>1, CheckStep, AcceptStep
<1>2. CASE Stop \/ StopLater \/ Exit
  BY <1>2, StopStep, StopLaterStep, ExitStep
<1>3. ASSUME NEW c \in Conn, Handle(c) PROVE ServerInv'
  BY <1>3, ParseStep, ReadRoleStep, GateStep, RunStep, ShutdownStep, LoginStep DEF Handle
<1>4. CASE Tick \/ ChangeUser
  BY <1>4, TickStep, ChangeUserStep
<1>5. CASE UNCHANGED vars
  <2>1. UNCHANGED <<server, conn, role, clock>>
    BY <1>5 DEF vars
  <2> QED
    BY <2>1, InvParts, ConnsStay, BecomesKeeps
<1> QED
  BY <1>1, <1>2, <1>3, <1>4, <1>5 DEF Next

\* The inductive invariant holds in every behaviour.
LEMMA ServerInvariant == Spec => []ServerInv
<1> QED
  BY ServerInvInit, ServerInvStep, PTL DEF Spec

\* The server's threads, the requests and the attempts have the values the code gives them.
THEOREM ServerTypeCorrect == Spec => []TypeOK
<1>1. ServerInv => TypeOK
  BY DEF ServerInv
<1> QED
  BY <1>1, ServerInvariant, PTL

\* No address has more password checks than the limit in any stretch of a window, and no
\* handler runs for a role its user has not had since the session was found, nor one that
\* writes for a user who was a viewer all that while.
THEOREM TheGatesHold == Spec => []GatesHold
<1>1. ServerInv => GatesHold
  <2> SUFFICES ASSUME ServerInv PROVE AttemptsBounded /\ RolesHold
    BY DEF GatesHold
  <2>1. AttemptsBounded
    BY DEF ServerInv
  <2>2. ASSUME NEW c \in Conn, conn[c].pc = "run", conn[c].user # NoUser
        PROVE  /\ conn[c].role \in conn[c].had
               /\ Writes(conn[c].kind) => conn[c].had # {"viewer"}
    BY <2>2, InvParts DEF ConnsOK, RequestsOK, RequestOK
  <2> QED
    BY <2>1, <2>2 DEF RolesHold
<1> QED
  BY <1>1, ServerInvariant, PTL
=============================================================================
