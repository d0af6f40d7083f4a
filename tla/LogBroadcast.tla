----------------------------- MODULE LogBroadcast -----------------------------
(***************************************************************************)
(* The log and its live stream: threads that log, the logger's mutex, the  *)
(* broadcaster's mutex, and the handlers of /ws/logs, each of which sends  *)
(* its client the end of the file and then, through a callback that the    *)
(* logging threads run, every line as it is written.                       *)
(*                                                                         *)
(* A thread that logs holds the logger's mutex while it takes the          *)
(* broadcaster's and writes to the socket of every subscriber.  A line is  *)
(* its number, a socket how many frames its client has not read.  A send   *)
(* to a client that is gone may succeed, fail or, where there is a SIGPIPE *)
(* (which the server does not ignore), end the process.                    *)
(***************************************************************************)
EXTENDS Integers, Sequences, FiniteSets

CONSTANTS Writer,       \* the threads that log
          Subscriber,   \* the connections to /ws/logs, with their handlers
          Nobody,       \* the holder of a free mutex
          HistoryLines, \* how many lines a new subscriber is sent
          MaxBuffer,    \* how many frames a socket holds unread
          MaxLine       \* bound: lines written

ASSUME LogBroadcastAssumption ==
    /\ Nobody \notin Writer /\ IsFiniteSet(Writer)
    /\ HistoryLines \in Nat
    /\ MaxBuffer \in Nat \ {0} /\ MaxLine \in Nat

VARIABLES
    running,   \* whether the process runs
    logger,    \* who holds Logger::mu_
    hub,       \* who holds LogBroadcaster::mu_
    last,      \* the line written last
    published, \* observer: the line that was last published to all
    subs,      \* LogBroadcaster::subs_
    wpc, line, \* the writers: next step, and the line each writes
    todo,      \* the subscribers whose callbacks the holder of hub has yet to run
    spc,       \* the handlers: next step
    history,   \* the lines each has yet to send its client
    alive,     \* its local variable, which its callback captures
    open,      \* whether the client keeps its connection
    buffer,    \* the frames in its socket
    stream,    \* observer: the lines sent to it
    since      \* observer: what was published when it subscribed

logs     == <<logger, last>>
writers  == <<wpc, line>>
handlers == <<spc, history, alive, since>>
sockets  == <<open, buffer, stream>>
vars     == <<running, logs, hub, published, subs, writers, todo, handlers, sockets>>

Init ==
    /\ running = TRUE
    /\ logger = Nobody /\ hub = Nobody
    /\ last = 0 /\ published = 0
    /\ subs = {} /\ todo = {}
    /\ wpc = [w \in Writer |-> "idle"] /\ line = [w \in Writer |-> 0]
    /\ spc = [s \in Subscriber |-> "off"]
    /\ history = [s \in Subscriber |-> <<>>]
    /\ alive = [s \in Subscriber |-> TRUE]
    /\ open = [s \in Subscriber |-> FALSE]
    /\ buffer = [s \in Subscriber |-> 0]
    /\ stream = [s \in Subscriber |-> <<>>]
    /\ since = [s \in Subscriber |-> 0]

-----------------------------------------------------------------------------
(***************************************************************************)
(* Sockets.  A blocking send waits for room.                               *)
(***************************************************************************)

HasRoom(s) == open[s] /\ buffer[s] < MaxBuffer

Puts(s, lines) ==
    /\ buffer' = [buffer EXCEPT ![s] = @ + 1]
    /\ stream' = [stream EXCEPT ![s] = @ \o lines]
    /\ UNCHANGED open

Read(s) ==
    /\ open[s] /\ buffer[s] > 0
    /\ buffer' = [buffer EXCEPT ![s] = @ - 1]
    /\ UNCHANGED <<logs, hub, published, subs, writers, todo, handlers, open, stream>>

Close(s) ==
    /\ open[s]
    /\ open' = [open EXCEPT ![s] = FALSE] /\ buffer' = [buffer EXCEPT ![s] = 0]
    /\ UNCHANGED <<logs, hub, published, subs, writers, todo, handlers, stream>>

-----------------------------------------------------------------------------
(***************************************************************************)
(* Logger::write and LogBroadcaster::publish                               *)
(***************************************************************************)

Log(w) ==
    /\ wpc[w] = "idle"
    /\ last + Cardinality({v \in Writer : wpc[v] = "lock"}) < MaxLine
    /\ wpc' = [wpc EXCEPT ![w] = "lock"]
    /\ UNCHANGED <<logs, hub, published, subs, line, todo, handlers, sockets>>

Writes(w, holder) ==
    /\ wpc[w] = "lock" /\ logger = Nobody
    /\ logger' = holder
    /\ last' = last + 1
    /\ line' = [line EXCEPT ![w] = last + 1]
    /\ wpc' = [wpc EXCEPT ![w] = "publish"]
    /\ UNCHANGED <<hub, published, subs, todo, handlers, sockets>>

\* Mutation: the logger's mutex is released before the line is published.
WriteLine_Unlocks(w) == Writes(w, Nobody)

WriteLine(w) == Writes(w, w)

Publish(w) ==
    /\ wpc[w] = "publish" /\ hub = Nobody
    /\ hub' = w /\ todo' = subs
    /\ wpc' = [wpc EXCEPT ![w] = "call"]
    /\ UNCHANGED <<logs, published, subs, line, handlers, sockets>>

Delivers(w, s) ==
    \/ /\ HasRoom(s)
       /\ Puts(s, <<line[w]>>)
       /\ UNCHANGED alive
    \/ /\ ~open[s]
       /\ alive' \in {alive, [alive EXCEPT ![s] = FALSE]}
       /\ UNCHANGED sockets

\* Mutation: a callback whose client is gone unsubscribes, for which it needs the mutex
\* its caller holds.
Call_Unsubscribes(w) ==
    /\ wpc[w] = "call"
    /\ \E s \in todo :
         /\ \/ alive[s] /\ HasRoom(s) /\ Puts(s, <<line[w]>>) /\ UNCHANGED <<alive, subs>>
            \/ alive[s] /\ ~open[s] /\ hub = Nobody
               /\ subs' = subs \ {s} /\ UNCHANGED <<alive, sockets>>
            \/ ~alive[s] /\ UNCHANGED <<alive, subs, sockets>>
         /\ todo' = todo \ {s}
    /\ UNCHANGED <<logs, hub, published, writers, spc, history, since>>

\* Mutation: a send that does not wait, and what it says is not looked at.
Call_Skips(w) ==
    /\ wpc[w] = "call"
    /\ \E s \in todo :
         /\ \/ alive[s] /\ Delivers(w, s)
            \/ alive[s] /\ ~HasRoom(s) /\ UNCHANGED <<alive, sockets>>
            \/ ~alive[s] /\ UNCHANGED <<alive, sockets>>
         /\ todo' = todo \ {s}
    /\ UNCHANGED <<logs, hub, published, subs, writers, spc, history, since>>

\* The callback of a subscriber, which gives up when a send fails.
Call(w) ==
    /\ wpc[w] = "call"
    /\ \E s \in todo :
         /\ \/ alive[s] /\ Delivers(w, s)
            \/ ~alive[s] /\ UNCHANGED <<alive, sockets>>
         /\ todo' = todo \ {s}
    /\ UNCHANGED <<logs, hub, published, subs, writers, spc, history, since>>

\* Both mutexes are released.
Published(w) ==
    /\ wpc[w] = "call" /\ todo = {}
    /\ hub' = Nobody /\ logger' = Nobody
    /\ published' = line[w]
    /\ wpc' = [wpc EXCEPT ![w] = "idle"]
    /\ UNCHANGED <<last, subs, line, todo, handlers, sockets>>

-----------------------------------------------------------------------------
(***************************************************************************)
(* handle_ws_logs                                                          *)
(***************************************************************************)

GoesOn(s, label) == spc' = [spc EXCEPT ![s] = label]

\* What Logger::tail may return: up to HistoryLines lines, fewer when the file was renamed
\* for its size before one of them was written.
Tails == {[i \in 1..n |-> last - n + i] : n \in {k \in 0..HistoryLines : k <= last}}

\* The answer that turns the connection into a stream of frames.
Handshake(s) ==
    /\ open' = [open EXCEPT ![s] = TRUE]
    /\ UNCHANGED <<buffer, stream>>

\* The handshake, and Logger::tail under the logger's mutex.
Connect(s) ==
    /\ spc[s] = "off" /\ logger = Nobody
    /\ Handshake(s)
    /\ \E lines \in Tails : history' = [history EXCEPT ![s] = lines]
    /\ GoesOn(s, "history")
    /\ UNCHANGED <<logs, hub, published, subs, writers, todo, alive, since>>

\* The handler returns: its variables and its socket are gone.
Returns(s) ==
    /\ GoesOn(s, "off")
    /\ history' = [history EXCEPT ![s] = <<>>] /\ alive' = [alive EXCEPT ![s] = TRUE]
    /\ since' = [since EXCEPT ![s] = 0]
    /\ open' = [open EXCEPT ![s] = FALSE] /\ buffer' = [buffer EXCEPT ![s] = 0]
    /\ stream' = [stream EXCEPT ![s] = <<>>]

\* A send that fails ends the handler.
SendHistory(s) ==
    /\ spc[s] = "history" /\ history[s] # <<>>
    /\ \/ /\ \/ HasRoom(s) /\ Puts(s, <<Head(history[s])>>)
             \/ ~open[s] /\ UNCHANGED sockets
          /\ history' = [history EXCEPT ![s] = Tail(@)]
          /\ UNCHANGED <<spc, alive, since>>
       \/ ~open[s] /\ Returns(s)
    /\ UNCHANGED <<logs, hub, published, subs, writers, todo>>

\* The frame that ends the history; nobody looks at whether it was sent.
EndHistory(s) ==
    /\ spc[s] = "history" /\ history[s] = <<>>
    /\ \/ HasRoom(s) /\ Puts(s, <<>>)
       \/ ~open[s] /\ UNCHANGED sockets
    /\ GoesOn(s, "subscribe")
    /\ UNCHANGED <<logs, hub, published, subs, writers, todo, history, alive, since>>

Subscribe(s) ==
    /\ spc[s] = "subscribe" /\ hub = Nobody
    /\ subs' = subs \cup {s}
    /\ since' = [since EXCEPT ![s] = published]
    /\ GoesOn(s, "beat")
    /\ UNCHANGED <<logs, hub, published, writers, todo, history, alive, sockets>>

\* Every five seconds: a ping.
Ping(s) ==
    /\ spc[s] = "beat" /\ alive[s] /\ HasRoom(s)
    /\ Puts(s, <<>>)
    /\ UNCHANGED <<logs, hub, published, subs, writers, todo, handlers>>

\* The loop ends once the callback has given up, the client is gone, or four bytes of what
\* it sent look like the head of a close frame: its answers to the pings do by chance.
EndBeat(s) ==
    /\ spc[s] = "beat"
    /\ GoesOn(s, "unsubscribe")
    /\ UNCHANGED <<logs, hub, published, subs, writers, todo, history, alive, since, sockets>>

\* Mutation: erased without the mutex.
Unsubscribe_NoLock(s) ==
    /\ spc[s] = "unsubscribe"
    /\ subs' = subs \ {s}
    /\ Returns(s)
    /\ UNCHANGED <<logs, hub, published, writers, todo>>

\* Mutation: the callback is left in the map.
Unsubscribe_Forgotten(s) ==
    /\ spc[s] = "unsubscribe" /\ hub = Nobody
    /\ Returns(s)
    /\ UNCHANGED <<logs, hub, published, subs, writers, todo>>

Unsubscribe(s) ==
    /\ spc[s] = "unsubscribe" /\ hub = Nobody
    /\ subs' = subs \ {s}
    /\ Returns(s)
    /\ UNCHANGED <<logs, hub, published, writers, todo>>

-----------------------------------------------------------------------------
\* A thread is about to send to a client that is gone.
SendsToNobody(s) ==
    ~open[s] /\ ((s \in todo /\ alive[s]) \/ spc[s] \in {"history", "beat"})

BrokenPipe(s) ==
    /\ SendsToNobody(s)
    /\ running' = FALSE
    /\ UNCHANGED <<logs, hub, published, subs, writers, todo, handlers, sockets>>

Runs == running /\ UNCHANGED running

WriterStep(w) == Runs /\ (WriteLine(w) \/ Publish(w) \/ Published(w))

CallStep(w) == Runs /\ Call(w)

HandlerStep(s) ==
    Runs /\ (SendHistory(s) \/ EndHistory(s) \/ Subscribe(s) \/ Unsubscribe(s))

Leaves(s) == Runs /\ EndBeat(s) /\ (~open[s] \/ ~alive[s])

ClientReads(s) == Runs /\ Read(s)

Next ==
    \/ \E w \in Writer : (Runs /\ Log(w)) \/ WriterStep(w) \/ CallStep(w)
    \/ \E s \in Subscriber :
         \/ Runs /\ (Connect(s) \/ Ping(s) \/ EndBeat(s) \/ Close(s))
         \/ HandlerStep(s) \/ ClientReads(s)
         \/ running /\ BrokenPipe(s)

Spec == Init /\ [][Next]_vars

\* Threads run, and a client reads until it closes its connection.  A sender that waits for
\* room gets it in the end: the pings it competes with are five seconds apart.
FairSpec ==
    /\ Spec
    /\ \A w \in Writer : WF_vars(WriterStep(w)) /\ SF_vars(CallStep(w))
    /\ \A s \in Subscriber :
         WF_vars(HandlerStep(s)) /\ WF_vars(Leaves(s)) /\ WF_vars(ClientReads(s))

-----------------------------------------------------------------------------
(***************************************************************************)
(* Properties                                                              *)
(***************************************************************************)

Line == 1..MaxLine

\* Mutexes, threads and sockets have the values the code gives them, and who holds the
\* broadcaster's mutex to publish holds the logger's.
TypeOK ==
    /\ running \in BOOLEAN
    /\ logger \in Writer \cup {Nobody} /\ hub \in Writer \cup {Nobody}
    /\ hub # Nobody => hub = logger
    /\ last \in 0..MaxLine /\ published \in 0..MaxLine
    /\ subs \subseteq Subscriber /\ todo \subseteq Subscriber
    /\ wpc \in [Writer -> {"idle", "lock", "publish", "call"}]
    /\ line \in [Writer -> 0..MaxLine]
    /\ spc \in [Subscriber -> {"off", "history", "subscribe", "beat", "unsubscribe"}]
    /\ history \in [Subscriber -> Seq(Line)] /\ stream \in [Subscriber -> Seq(Line)]
    /\ alive \in [Subscriber -> BOOLEAN] /\ open \in [Subscriber -> BOOLEAN]
    /\ buffer \in [Subscriber -> 0..MaxBuffer] /\ since \in [Subscriber -> 0..MaxLine]

\* A callback refers to local variables and to the socket of the handler that subscribed
\* it: none is kept, or about to be run, once its handler has returned (ws_log.cpp 97-100,
\* 213-257).
CallbacksHaveHandlers == \A s \in subs \cup todo : spc[s] \in {"beat", "unsubscribe"}

\* A subscriber whose sends have not failed misses no line that is published after it
\* subscribed (logger.cpp 51-62, ws_log.cpp 83-88).
NoLineMissed ==
    \A s \in subs : open[s] =>
        \A n \in (since[s] + 1)..published : \E i \in DOMAIN stream[s] : stream[s][i] = n

\* A thread that logs goes on, as long as the process runs and the clients of the stream
\* read or go away: no order of mutexes and sockets leaves everyone waiting.
WritesEnd == \A w \in Writer : (wpc[w] = "lock" /\ running) ~> (wpc[w] = "idle" \/ ~running)

\* The handler of a client that is gone ends and takes its callback with it, unless the
\* signal comes first (ws_log.cpp 246-257).
DisconnectedLeave ==
    \A s \in Subscriber :
        (spc[s] # "off" /\ ~open[s]) ~> (~running \/ (spc[s] = "off" /\ s \notin subs))

Feed == INSTANCE LogFeed WITH Client <- Subscriber, written <- last, told <- published,
            there <- {s \in Subscriber : open[s]}, live <- subs, feed <- stream

\* docs/API.md:303-304: "On connect, the last 50 log lines are replayed as history ... Live
\* lines are pushed as they are written."  Although threads that log, handlers and clients
\* interleave, a client gets the lines in the order of the log and none twice, history and
\* live lines together, and a line is written only when the one before has gone to every
\* subscriber who is there (logger.cpp 51-62, ws_log.cpp 83-100).
FeedSpec == Feed!Spec
=============================================================================
