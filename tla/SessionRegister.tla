---------------------------- MODULE SessionRegister ----------------------------
(***************************************************************************)
(* What the tables users and sessions promise to every request that goes   *)
(* by them, whatever logins, logouts, admins and the cleaner thread do in  *)
(* between: a user gets the next id, a session the next token.  A session  *)
(* is opened for a user who is there, it is that user's until it is over,  *)
(* and then it is over for good.  A user leaves only without a session.    *)
(* How long a session lasts is left to Accounts, which implements this     *)
(* module.                                                                 *)
(***************************************************************************)
EXTENDS Integers, Sequences

VARIABLES ids,      \* the ids that were given
          users,    \* the users who are there
          book      \* for each token that was given its user, until it is over

register == <<ids, users, book>>

Over == 0

Live == {k \in DOMAIN book : book[k] # Over}

Init == ids = 0 /\ users = {} /\ book = <<>>

Join ==
    /\ ids' = ids + 1 /\ users' = users \cup {ids + 1}
    /\ UNCHANGED book

Open(u) ==
    /\ book' = Append(book, u)
    /\ UNCHANGED <<ids, users>>

End(tokens) ==
    /\ book' = [k \in DOMAIN book |-> IF k \in tokens THEN Over ELSE book[k]]
    /\ UNCHANGED <<ids, users>>

Leave(u) ==
    /\ \A k \in Live : book[k] # u
    /\ users' = users \ {u}
    /\ UNCHANGED <<ids, book>>

Next ==
    \/ Join
    \/ \E u \in users : Open(u) \/ Leave(u)
    \/ \E tokens \in SUBSET Live : End(tokens)

Spec == Init /\ [][Next]_register
=============================================================================
