------------------------------- MODULE LogFeed -------------------------------
(***************************************************************************)
(* What the log stream promises its clients, whatever threads log and      *)
(* clients come and go in between.  Lines are written one by one: the next *)
(* only when the one before was told to every live client who is there.    *)
(* Who is not live yet is shown lines that were told before, without a     *)
(* gap; who is live gets the line that is being told.  Every line a client *)
(* gets comes after all it has.  The mutexes, the sockets and the threads  *)
(* are left to LogBroadcast, which implements this module.                 *)
(***************************************************************************)
EXTENDS Integers, Sequences

CONSTANT Client

VARIABLES written,  \* the line that was written last
          told,     \* the line that was told to all last
          there,    \* the clients who keep their connection
          live,     \* the clients to whom lines are told as they are written
          feed      \* for each client the lines it got

feeds == <<written, told, there, live, feed>>

Init ==
    /\ written = 0 /\ told = 0
    /\ there = {} /\ live = {}
    /\ feed = [c \in Client |-> <<>>]

Write ==
    /\ told = written
    /\ written' = written + 1
    /\ UNCHANGED <<told, there, live, feed>>

Get(c, n) ==
    /\ c \in there
    /\ \A i \in DOMAIN feed[c] : feed[c][i] < n
    /\ feed' = [feed EXCEPT ![c] = Append(@, n)]
    /\ UNCHANGED <<written, told, there, live>>

Replay(c) ==
    /\ c \notin live
    /\ \E n \in 1..told :
         /\ feed[c] # <<>> => n = feed[c][Len(feed[c])] + 1
         /\ Get(c, n)

Deliver(c) == c \in live /\ told < written /\ Get(c, written)

Tell ==
    /\ told < written
    /\ \A c \in live \cap there : \E i \in DOMAIN feed[c] : feed[c][i] = written
    /\ told' = written
    /\ UNCHANGED <<written, there, live, feed>>

Come(c) ==
    /\ c \notin live /\ feed[c] = <<>>
    /\ there' = there \cup {c}
    /\ UNCHANGED <<written, told, live, feed>>

Join(c) ==
    /\ c \notin live
    /\ live' = live \cup {c}
    /\ UNCHANGED <<written, told, there, feed>>

Drop(c) ==
    /\ there' = there \ {c}
    /\ UNCHANGED <<written, told, live, feed>>

Leave(c) ==
    /\ there' = there \ {c} /\ live' = live \ {c}
    /\ feed' = [feed EXCEPT ![c] = <<>>]
    /\ UNCHANGED <<written, told>>

Next ==
    \/ Write \/ Tell
    \/ \E c \in Client : Replay(c) \/ Deliver(c) \/ Come(c) \/ Join(c) \/ Drop(c) \/ Leave(c)

Spec == Init /\ [][Next]_feeds
=============================================================================
