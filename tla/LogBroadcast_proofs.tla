--------------------------- MODULE LogBroadcast_proofs ---------------------------
(***************************************************************************)
(* Proofs about LogBroadcast, for any number of writers and subscribers,   *)
(* and any length of the history and of the sockets' buffers.              *)
(***************************************************************************)
EXTENDS LogBroadcast, SequenceTheorems, FiniteSetTheorems, TLAPS

Locking  == {w \in Writer : wpc[w] = "lock"}
Increasing(q) == \A i, j \in DOMAIN q : i < j => q[i] < q[j]
Sent(s, n) == \E i \in DOMAIN stream[s] : stream[s][i] = n

(***************************************************************************)
(* A writer holds the mutexes where its next step says so.  The line that  *)
(* was written last is published, or its writer still holds the logger's   *)
(* mutex.                                                                  *)
(***************************************************************************)
MutexesOK ==
    /\ \A w \in Writer : logger = w <=> wpc[w] \in {"publish", "call"}
    /\ \A w \in Writer : hub = w <=> wpc[w] = "call"
    /\ \A w \in Writer : logger = w => line[w] = last
    /\ last = IF logger = Nobody THEN published ELSE published + 1
    /\ hub = Nobody => todo = {}

LinesAreCounted == last + Cardinality(Locking) <= MaxLine

\* A callback is in the map exactly while its handler is past subscribing, and gives up
\* only when its client is gone.
CallbacksOK ==
    /\ todo \subseteq subs
    /\ \A s \in Subscriber : s \in subs <=> spc[s] \in {"beat", "unsubscribe"}
    /\ \A s \in Subscriber : ~alive[s] => ~open[s] /\ s \in subs

\* What a client was sent, and what it is still to be sent of the history, was published,
\* but for the line that is being published now.
StreamOK(s) ==
    /\ Increasing(stream[s]) /\ Increasing(history[s])
    /\ \A i \in DOMAIN stream[s], j \in DOMAIN history[s] : stream[s][i] < history[s][j]
    /\ \A j \in DOMAIN history[s] : history[s][j] <= published
    /\ \A i \in DOMAIN stream[s] :
         \/ stream[s][i] <= published
         \/ hub # Nobody /\ s \notin todo /\ stream[s][i] <= last
    /\ spc[s] = "off" => stream[s] = <<>>
    /\ spc[s] # "history" => history[s] = <<>>

\* A subscriber that is not to be called any more has the line that is being published.
CaughtUp(s) ==
    s \in subs /\ open[s] =>
        /\ \A n \in (since[s] + 1)..published : Sent(s, n)
        /\ hub # Nobody /\ s \notin todo => Sent(s, last)

StreamsOK == \A s \in Subscriber : StreamOK(s) /\ CaughtUp(s)

LogInv == TypeOK /\ MutexesOK /\ LinesAreCounted /\ CallbacksOK /\ StreamsOK

-----------------------------------------------------------------------------
(***************************************************************************)
(* The values of the variables, in two parts.                              *)
(***************************************************************************)
MutexTypes ==
    /\ running \in BOOLEAN
    /\ logger \in Writer \cup {Nobody} /\ hub \in Writer \cup {Nobody}
    /\ hub # Nobody => hub = logger
    /\ last \in 0..MaxLine /\ published \in 0..MaxLine
    /\ subs \subseteq Subscriber /\ todo \subseteq Subscriber
    /\ wpc \in [Writer -> {"idle", "lock", "publish", "call"}]
    /\ line \in [Writer -> 0..MaxLine]

SocketTypes ==
    /\ spc \in [Subscriber -> {"off", "history", "subscribe", "beat", "unsubscribe"}]
    /\ history \in [Subscriber -> Seq(Line)] /\ stream \in [Subscriber -> Seq(Line)]
    /\ alive \in [Subscriber -> BOOLEAN] /\ open \in [Subscriber -> BOOLEAN]
    /\ buffer \in [Subscriber -> 0..MaxBuffer] /\ since \in [Subscriber -> 0..MaxLine]

LEMMA TypeParts == TypeOK <=> MutexTypes /\ SocketTypes
  BY DEF TypeOK, MutexTypes, SocketTypes

LEMMA InvParts ==
  ASSUME LogInv
  PROVE  /\ MutexTypes /\ SocketTypes /\ MutexesOK /\ LinesAreCounted /\ CallbacksOK
         /\ \A s \in Subscriber : StreamOK(s) /\ CaughtUp(s)
  BY TypeParts DEF LogInv, StreamsOK

(***************************************************************************)
(* Sequences of lines                                                      *)
(***************************************************************************)
LEMMA LinesAreInts == ASSUME NEW q \in Seq(Line), NEW i \in DOMAIN q PROVE q[i] \in Int /\ q[i] \in Line
<1>1. q[i] \in Line
  OBVIOUS
<1> QED
  BY <1>1 DEF Line

LEMMA AddLine ==
  ASSUME NEW q \in Seq(Line), NEW x \in Line
  PROVE  /\ q \o <<x>> \in Seq(Line)
         /\ DOMAIN (q \o <<x>>) = DOMAIN q \cup {Len(q) + 1}
         /\ Len(q) + 1 \notin DOMAIN q
         /\ (q \o <<x>>)[Len(q) + 1] = x
         /\ \A i \in DOMAIN q : (q \o <<x>>)[i] = q[i] /\ i < Len(q) + 1
  OBVIOUS

LEMMA AddNothing ==
  ASSUME NEW q \in Seq(Line)
  PROVE  q \o <<>> = q /\ <<>> \in Seq(Line)
  OBVIOUS

\* A line that is greater than all keeps the order.
LEMMA AddedInOrder ==
  ASSUME NEW q \in Seq(Line), NEW x \in Line, Increasing(q), \A i \in DOMAIN q : q[i] < x
  PROVE  Increasing(q \o <<x>>)
<1> DEFINE r == q \o <<x>>
<1>1. /\ DOMAIN r = DOMAIN q \cup {Len(q) + 1}
      /\ r[Len(q) + 1] = x
      /\ \A i \in DOMAIN q : r[i] = q[i] /\ i < Len(q) + 1
      /\ Len(q) \in Nat /\ \A i \in DOMAIN q : i \in Int
  BY AddLine
<1> HIDE DEF r
<1>2. \A i, j \in DOMAIN r : i < j => r[i] < r[j]
  BY <1>1 DEF Increasing
<1> QED
  BY <1>2 DEF Increasing, r

LEMMA TailInOrder ==
  ASSUME NEW q \in Seq(Line), q # <<>>, Increasing(q)
  PROVE  /\ Tail(q) \in Seq(Line) /\ Increasing(Tail(q))
         /\ Head(q) \in Line /\ 1 \in DOMAIN q /\ Head(q) = q[1]
         /\ \A j \in DOMAIN Tail(q) : /\ j + 1 \in DOMAIN q /\ Tail(q)[j] = q[j + 1]
                                      /\ Head(q) < Tail(q)[j]
<1>1. /\ Tail(q) \in Seq(Line) /\ Len(q) \in Nat \ {0} /\ DOMAIN q = 1..Len(q)
      /\ DOMAIN Tail(q) = 1..(Len(q) - 1)
      /\ \A j \in 1..(Len(q) - 1) : Tail(q)[j] = q[j + 1]
  OBVIOUS
<1>2. Head(q) = q[1] /\ 1 \in DOMAIN q /\ q[1] \in Line
  BY <1>1, LinesAreInts
<1>3. \A j \in DOMAIN Tail(q) : j + 1 \in DOMAIN q /\ j \in DOMAIN q /\ j \in Int /\ Tail(q)[j] = q[j + 1] /\ 1 < j + 1
  BY <1>1
<1>4. Increasing(Tail(q))
  BY <1>3 DEF Increasing
<1>5. \A j \in DOMAIN Tail(q) : Head(q) < Tail(q)[j]
  BY <1>2, <1>3 DEF Increasing
<1> QED
  BY <1>1, <1>2, <1>3, <1>4, <1>5

LEMMA NoLines == Increasing(<<>>) /\ <<>> \in Seq(Line) /\ DOMAIN <<>> = {}
  BY DEF Increasing

\* What Logger::tail returns is in the order of the log.
LEMMA TailsAreLines ==
  ASSUME MutexTypes, NEW q \in Tails
  PROVE  q \in Seq(Line) /\ Increasing(q) /\ \A j \in DOMAIN q : q[j] <= last
<1>1. PICK n \in {k \in 0..HistoryLines : k <= last} : q = [i \in 1..n |-> last - n + i]
  BY DEF Tails
<1>2. n \in Nat /\ n <= last /\ last \in 0..MaxLine
  BY <1>1, LogBroadcastAssumption DEF MutexTypes
<1>3. \A i \in 1..n : last - n + i \in Line /\ last - n + i <= last
  BY <1>2, LogBroadcastAssumption DEF Line
<1>4. q \in [1..n -> Line]
  BY <1>1, <1>3
<1>5. q \in Seq(Line) /\ DOMAIN q = 1..n
  BY <1>2, <1>4
<1>6. Increasing(q)
  BY <1>1, <1>2, <1>5 DEF Increasing
<1> QED
  BY <1>1, <1>3, <1>5, <1>6

(***************************************************************************)
(* What a step does to one socket, and what it leaves of the others.       *)
(***************************************************************************)
LEMMA PutsIs ==
  ASSUME SocketTypes, NEW s \in Subscriber, NEW lines \in Seq(Line), HasRoom(s), Puts(s, lines)
  PROVE  /\ buffer' \in [Subscriber -> 0..MaxBuffer] /\ stream' \in [Subscriber -> Seq(Line)]
         /\ stream'[s] = stream[s] \o lines
         /\ \A t \in Subscriber \ {s} : stream'[t] = stream[t]
         /\ UNCHANGED open
<1>1. buffer[s] + 1 \in 0..MaxBuffer
  BY LogBroadcastAssumption DEF SocketTypes, HasRoom
<1>2. stream[s] \o lines \in Seq(Line)
  BY DEF SocketTypes
<1> QED
  BY <1>1, <1>2 DEF SocketTypes, Puts

LEMMA ReturnsIs ==
  ASSUME SocketTypes, NEW s \in Subscriber, Returns(s)
  PROVE  /\ SocketTypes'
         /\ spc'[s] = "off" /\ history'[s] = <<>> /\ stream'[s] = <<>> /\ alive'[s]
         /\ \A t \in Subscriber \ {s} :
              /\ spc'[t] = spc[t] /\ history'[t] = history[t] /\ alive'[t] = alive[t]
              /\ since'[t] = since[t] /\ open'[t] = open[t] /\ stream'[t] = stream[t]
<1>1. /\ <<>> \in Seq(Line) /\ TRUE \in BOOLEAN /\ FALSE \in BOOLEAN
      /\ 0 \in 0..MaxBuffer /\ 0 \in 0..MaxLine
  BY LogBroadcastAssumption
<1>2. SocketTypes'
  BY <1>1 DEF SocketTypes, Returns, GoesOn
<1>3. spc'[s] = "off" /\ history'[s] = <<>> /\ stream'[s] = <<>>
  BY DEF SocketTypes, Returns, GoesOn
<1>4. alive'[s]
  BY DEF SocketTypes, Returns
<1>5. \A t \in Subscriber \ {s} :
        /\ spc'[t] = spc[t] /\ history'[t] = history[t]
        /\ since'[t] = since[t] /\ stream'[t] = stream[t]
  BY DEF SocketTypes, Returns, GoesOn
<1>6. \A t \in Subscriber \ {s} : alive'[t] = alive[t] /\ open'[t] = open[t]
  BY DEF SocketTypes, Returns
<1> QED
  BY <1>2, <1>3, <1>4, <1>5, <1>6

\* The log and its mutexes are as they were.
LEMMA QuietKeeps ==
  ASSUME MutexTypes, MutexesOK, LinesAreCounted, UNCHANGED <<logs, hub, published, writers, todo>>,
         subs' \subseteq Subscriber, running' \in BOOLEAN
  PROVE  MutexTypes' /\ MutexesOK' /\ LinesAreCounted'
  BY DEF MutexTypes, MutexesOK, LinesAreCounted, Locking, logs, writers

LEMMA StreamStays ==
  ASSUME NEW t \in Subscriber, StreamOK(t), UNCHANGED <<last, hub, published, todo>>,
         stream'[t] = stream[t], history'[t] = history[t], spc'[t] = spc[t]
  PROVE  StreamOK(t)'
  BY DEF StreamOK, Increasing

LEMMA CaughtUpStays ==
  ASSUME NEW t \in Subscriber, CaughtUp(t), UNCHANGED <<last, hub, published, todo>>,
         stream'[t] = stream[t], since'[t] = since[t],
         t \in subs' => t \in subs, open'[t] => open[t]
  PROVE  CaughtUp(t)'
  BY DEF CaughtUp, Sent

\* A frame without a line changes no stream.
LEMMA EmptyFrame ==
  ASSUME SocketTypes, NEW s \in Subscriber, HasRoom(s), Puts(s, <<>>)
  PROVE  /\ buffer' \in [Subscriber -> 0..MaxBuffer] /\ stream' \in [Subscriber -> Seq(Line)]
         /\ \A t \in Subscriber : stream'[t] = stream[t]
         /\ UNCHANGED open
<1>1. stream[s] \in Seq(Line) /\ <<>> \in Seq(Line)
  BY DEF SocketTypes
<1>2. stream[s] \o <<>> = stream[s]
  BY <1>1
<1> QED
  BY <1>1, <1>2, PutsIs

-----------------------------------------------------------------------------
(***************************************************************************)
(* The clients and the handlers.  A step of one of them is about one       *)
(* socket, and leaves the mutexes to the writers.                          *)
(***************************************************************************)
LEMMA HandlerKeeps ==
  ASSUME LogInv, NEW s \in Subscriber, UNCHANGED <<logs, hub, published, writers, todo>>,
         running' \in BOOLEAN, SocketTypes', subs' \subseteq Subscriber, CallbacksOK',
         \A t \in Subscriber \ {s} :
           /\ stream'[t] = stream[t] /\ history'[t] = history[t] /\ spc'[t] = spc[t]
           /\ since'[t] = since[t] /\ (t \in subs' => t \in subs) /\ (open'[t] => open[t]),
         StreamOK(s)', CaughtUp(s)'
  PROVE  LogInv'
<1>1. MutexTypes' /\ MutexesOK' /\ LinesAreCounted'
  BY InvParts, QuietKeeps
<1>2. TypeOK'
  BY <1>1, TypeParts, PTL
<1>3. UNCHANGED <<last, hub, published, todo>>
  BY DEF logs
<1>4. \A t \in Subscriber \ {s} : StreamOK(t)' /\ CaughtUp(t)'
  BY <1>3, InvParts, StreamStays, CaughtUpStays
<1>5. StreamsOK'
  BY <1>4 DEF StreamsOK
<1> QED
  BY <1>1, <1>2, <1>5 DEF LogInv

LEMMA ReadStep == ASSUME LogInv, NEW s \in Subscriber, Runs, Read(s) PROVE LogInv'
<1>1. buffer[s] - 1 \in 0..MaxBuffer
  BY InvParts, LogBroadcastAssumption DEF SocketTypes, Read
<1>2. UNCHANGED <<running, logs, hub, published, subs, writers, todo, handlers, open, stream>>
  BY DEF Read, Runs
<1>3. SocketTypes'
  BY <1>1, <1>2, InvParts DEF SocketTypes, Read, handlers
<1>4. CallbacksOK'
  BY <1>2, InvParts DEF CallbacksOK, handlers
<1>5. StreamOK(s)' /\ CaughtUp(s)'
  BY <1>2, InvParts, StreamStays, CaughtUpStays DEF handlers, logs
<1> QED
  BY <1>2, <1>3, <1>4, <1>5, InvParts, HandlerKeeps DEF MutexTypes, handlers

LEMMA CloseStep == ASSUME LogInv, NEW s \in Subscriber, Runs, Close(s) PROVE LogInv'
<1>1. 0 \in 0..MaxBuffer /\ FALSE \in BOOLEAN
  BY LogBroadcastAssumption
<1>2. /\ UNCHANGED <<running, logs, hub, published, subs, writers, todo, handlers, stream>>
      /\ open' = [open EXCEPT ![s] = FALSE] /\ buffer' = [buffer EXCEPT ![s] = 0]
  BY DEF Close, Runs
<1>3. SocketTypes'
  BY <1>1, <1>2, InvParts DEF SocketTypes, handlers
<1>4. \A t \in Subscriber : open'[t] => open[t]
  BY <1>2, InvParts DEF SocketTypes
<1>5. CallbacksOK'
  BY <1>2, <1>4, InvParts DEF CallbacksOK, handlers
<1>6. StreamOK(s)' /\ CaughtUp(s)'
  BY <1>2, <1>4, InvParts, StreamStays, CaughtUpStays DEF handlers, logs
<1> QED
  BY <1>2, <1>3, <1>4, <1>5, <1>6, InvParts, HandlerKeeps DEF MutexTypes, handlers

LEMMA BrokenPipeStep == ASSUME LogInv, NEW s \in Subscriber, BrokenPipe(s) PROVE LogInv'
<1>1. UNCHANGED <<logs, hub, published, subs, writers, todo, handlers, sockets>> /\ running' \in BOOLEAN
  BY DEF BrokenPipe
<1>2. SocketTypes' /\ CallbacksOK'
  BY <1>1, InvParts DEF SocketTypes, CallbacksOK, handlers, sockets
<1>3. StreamOK(s)' /\ CaughtUp(s)'
  BY <1>1, InvParts, StreamStays, CaughtUpStays DEF handlers, sockets, logs
<1> QED
  BY <1>1, <1>2, <1>3, InvParts, HandlerKeeps DEF MutexTypes, handlers, sockets

LEMMA PingStep == ASSUME LogInv, NEW s \in Subscriber, Runs, Ping(s) PROVE LogInv'
<1>1. /\ UNCHANGED <<running, logs, hub, published, subs, writers, todo, handlers>>
      /\ HasRoom(s) /\ Puts(s, <<>>)
  BY DEF Ping, Runs
<1>2. /\ buffer' \in [Subscriber -> 0..MaxBuffer] /\ stream' \in [Subscriber -> Seq(Line)]
      /\ \A t \in Subscriber : stream'[t] = stream[t]
      /\ UNCHANGED open
  BY <1>1, InvParts, EmptyFrame
<1>3. SocketTypes' /\ CallbacksOK'
  BY <1>1, <1>2, InvParts DEF SocketTypes, CallbacksOK, handlers
<1>4. StreamOK(s)' /\ CaughtUp(s)'
  BY <1>1, <1>2, InvParts, StreamStays, CaughtUpStays DEF handlers, logs
<1> QED
  BY <1>1, <1>2, <1>3, <1>4, InvParts, HandlerKeeps DEF MutexTypes, handlers

\* The lines of the file are published: nobody holds the logger's mutex.
LEMMA ConnectStep == ASSUME LogInv, NEW s \in Subscriber, Runs, Connect(s) PROVE LogInv'
<1>1. /\ UNCHANGED <<running, logs, hub, published, subs, writers, todo, alive, since, buffer, stream>>
      /\ spc[s] = "off" /\ logger = Nobody
      /\ open' = [open EXCEPT ![s] = TRUE] /\ spc' = [spc EXCEPT ![s] = "history"]
  BY DEF Connect, Handshake, GoesOn, Runs
<1>2. PICK lines \in Tails : history' = [history EXCEPT ![s] = lines]
  BY DEF Connect
<1>3. lines \in Seq(Line) /\ Increasing(lines) /\ \A j \in DOMAIN lines : lines[j] <= published
  BY <1>1, InvParts, TailsAreLines DEF MutexesOK
<1>4. spc' \in [Subscriber -> {"off", "history", "subscribe", "beat", "unsubscribe"}]
  BY <1>1, InvParts DEF SocketTypes
<1>5. open' \in [Subscriber -> BOOLEAN] /\ \A t \in Subscriber \ {s} : open'[t] = open[t]
  BY <1>1, InvParts DEF SocketTypes
<1>6. /\ history' \in [Subscriber -> Seq(Line)] /\ history'[s] = lines
      /\ \A t \in Subscriber \ {s} : history'[t] = history[t]
  BY <1>2, <1>3, InvParts DEF SocketTypes
<1>7. SocketTypes'
  BY <1>1, <1>4, <1>5, <1>6, InvParts DEF SocketTypes
<1>8. spc'[s] = "history" /\ \A t \in Subscriber \ {s} : spc'[t] = spc[t]
  BY <1>1, InvParts DEF SocketTypes
<1>9. s \notin subs
  BY <1>1, InvParts DEF CallbacksOK
<1>10. CallbacksOK'
  BY <1>1, <1>5, <1>8, <1>9, InvParts DEF CallbacksOK
<1>11. stream'[s] = <<>> /\ DOMAIN stream'[s] = {}
  BY <1>1, InvParts DEF StreamOK
<1>12. StreamOK(s)'
  BY <1>1, <1>3, <1>6, <1>8, <1>11 DEF StreamOK, Increasing
<1>13. CaughtUp(s)'
  BY <1>1, <1>9 DEF CaughtUp
<1> QED
  BY <1>1, <1>5, <1>6, <1>7, <1>8, <1>10, <1>12, <1>13, InvParts, HandlerKeeps DEF MutexTypes

\* The handler returns: it was not subscribed, or is not any more.
LEMMA ReturnsStep ==
  ASSUME LogInv, NEW s \in Subscriber, Runs, Returns(s), s \notin subs',
         UNCHANGED <<logs, hub, published, writers, todo>>, s \notin todo,
         subs' = subs \ {s}
  PROVE  LogInv'
<1>1. /\ SocketTypes'
      /\ spc'[s] = "off" /\ history'[s] = <<>> /\ stream'[s] = <<>> /\ alive'[s]
      /\ \A t \in Subscriber \ {s} :
           /\ spc'[t] = spc[t] /\ history'[t] = history[t] /\ alive'[t] = alive[t]
           /\ since'[t] = since[t] /\ open'[t] = open[t] /\ stream'[t] = stream[t]
  BY InvParts, ReturnsIs
<1>2. CallbacksOK'
  BY <1>1, InvParts DEF CallbacksOK
<1>3. StreamOK(s)' /\ CaughtUp(s)'
  BY <1>1, NoLines DEF StreamOK, CaughtUp
<1> QED
  BY <1>1, <1>2, <1>3, InvParts, HandlerKeeps DEF MutexTypes, Runs

\* The next line of the history is sent, or lost with the client.
LEMMA SendHistoryStep == ASSUME LogInv, NEW s \in Subscriber, Runs, SendHistory(s) PROVE LogInv'
<1>0. /\ UNCHANGED <<running, logs, hub, published, subs, writers, todo>>
      /\ spc[s] = "history" /\ history[s] # <<>>
  BY DEF SendHistory, Runs
<1>1. s \notin subs /\ s \notin todo
  BY <1>0, InvParts DEF CallbacksOK
<1> DEFINE q == history[s]
<1>2. /\ q \in Seq(Line) /\ Increasing(q) /\ stream[s] \in Seq(Line) /\ Increasing(stream[s])
      /\ \A i \in DOMAIN stream[s], j \in DOMAIN q : stream[s][i] < q[j]
      /\ \A j \in DOMAIN q : q[j] <= published
  BY InvParts DEF SocketTypes, StreamOK
<1>3. /\ Tail(q) \in Seq(Line) /\ Increasing(Tail(q))
      /\ Head(q) \in Line /\ 1 \in DOMAIN q /\ Head(q) = q[1]
      /\ \A j \in DOMAIN Tail(q) : /\ j + 1 \in DOMAIN q /\ Tail(q)[j] = q[j + 1]
                                   /\ Head(q) < Tail(q)[j]
  BY <1>0, <1>2, TailInOrder
<1>4. \A t \in Subscriber : t \in subs' <=> t \in subs
  BY <1>0
<1>5. CASE ~open[s] /\ Returns(s)
  BY <1>0, <1>1, <1>5, ReturnsStep
<1>6. ASSUME history' = [history EXCEPT ![s] = Tail(@)], UNCHANGED <<spc, alive, since, open>>,
             stream' \in [Subscriber -> Seq(Line)], buffer' \in [Subscriber -> 0..MaxBuffer],
             \A t \in Subscriber \ {s} : stream'[t] = stream[t],
             \/ stream'[s] = stream[s] \o <<Head(q)>>
             \/ stream'[s] = stream[s]
      PROVE  LogInv'
  <2>1. /\ history' \in [Subscriber -> Seq(Line)] /\ history'[s] = Tail(q)
        /\ \A t \in Subscriber \ {s} : history'[t] = history[t]
    BY <1>3, <1>6, InvParts DEF SocketTypes
  <2>2. SocketTypes'
    BY <1>6, <2>1, InvParts DEF SocketTypes
  <2>3. CallbacksOK'
    BY <1>0, <1>6, InvParts DEF CallbacksOK
  <2>4. CaughtUp(s)'
    BY <1>0, <1>1 DEF CaughtUp
  <2> HIDE DEF q
  <2>5. \A i \in DOMAIN stream[s] : stream[s][i] < Head(q) /\ stream[s][i] <= published
    BY <1>2, <1>3, <1>1, LinesAreInts, InvParts DEF MutexTypes
  <2>6. CASE stream'[s] = stream[s] \o <<Head(q)>>
    <3>1. Increasing(stream'[s])
      BY <1>2, <1>3, <2>5, <2>6, AddedInOrder
    <3>2. \A i \in DOMAIN stream'[s] : \/ i \in DOMAIN stream[s] /\ stream'[s][i] = stream[s][i]
                                       \/ stream'[s][i] = Head(q)
      BY <1>2, <1>3, <2>6, AddLine
    <3>3. \A i \in DOMAIN stream'[s] : stream'[s][i] <= published /\ stream'[s][i] <= Head(q)
      BY <1>2, <1>3, <2>5, <3>2, LinesAreInts DEF Line
    <3>4. \A i \in DOMAIN stream'[s], j \in DOMAIN Tail(q) : stream'[s][i] < Tail(q)[j]
      <4>1. \A j \in DOMAIN Tail(q) : Tail(q)[j] \in Int /\ Head(q) < Tail(q)[j]
        BY <1>3, LinesAreInts
      <4>2. \A i \in DOMAIN stream'[s] : stream'[s][i] \in Int
        BY <1>6, LinesAreInts
      <4> QED
        BY <1>3, <3>3, <4>1, <4>2 DEF Line
    <3>5. \A j \in DOMAIN Tail(q) : Tail(q)[j] <= published
      BY <1>2, <1>3
    <3>6. StreamOK(s)'
      BY <1>0, <1>3, <1>6, <2>1, <3>1, <3>3, <3>4, <3>5 DEF StreamOK, Increasing
    <3> QED
      BY <1>0, <1>6, <2>1, <2>2, <2>3, <2>4, <3>6, InvParts, HandlerKeeps DEF MutexTypes
  <2>7. CASE stream'[s] = stream[s]
    <3>1. \A i \in DOMAIN stream[s], j \in DOMAIN Tail(q) : stream[s][i] < Tail(q)[j]
      BY <1>2, <1>3
    <3>2. \A j \in DOMAIN Tail(q) : Tail(q)[j] <= published
      BY <1>2, <1>3
    <3>3. StreamOK(s)'
      BY <1>0, <1>2, <1>3, <1>6, <2>1, <2>5, <2>7, <3>1, <3>2 DEF StreamOK, Increasing
    <3> QED
      BY <1>0, <1>6, <2>1, <2>2, <2>3, <2>4, <3>3, InvParts, HandlerKeeps DEF MutexTypes
  <2> QED
    BY <1>6, <2>6, <2>7
<1>7. CASE HasRoom(s) /\ Puts(s, <<Head(q)>>) /\ history' = [history EXCEPT ![s] = Tail(@)]
           /\ UNCHANGED <<spc, alive, since>>
  <2>1. <<Head(q)>> \in Seq(Line)
    BY <1>3
  <2> HIDE DEF q
  <2> QED
    BY <1>6, <1>7, <2>1, InvParts, PutsIs
<1>8. CASE UNCHANGED sockets /\ history' = [history EXCEPT ![s] = Tail(@)]
           /\ UNCHANGED <<spc, alive, since>>
  <2> HIDE DEF q
  <2> QED
    BY <1>6, <1>8, InvParts DEF sockets, SocketTypes
<1> QED
  BY <1>5, <1>7, <1>8 DEF SendHistory

\* A handler that goes on, with the same lines sent and to be sent.
LEMMA GoesOnStep ==
  ASSUME LogInv, NEW s \in Subscriber, UNCHANGED <<running, logs, hub, published, writers, todo>>,
         NEW label \in {"subscribe", "beat", "unsubscribe"}, GoesOn(s, label),
         UNCHANGED <<history, alive, open>>, history[s] = <<>>,
         stream' \in [Subscriber -> Seq(Line)], buffer' \in [Subscriber -> 0..MaxBuffer],
         since' \in [Subscriber -> 0..MaxLine],
         \A t \in Subscriber : stream'[t] = stream[t],
         \A t \in Subscriber \ {s} : since'[t] = since[t],
         subs' = IF label = "subscribe" THEN subs \ {s} ELSE subs \cup {s},
         s \in todo => label # "subscribe",
         ~alive[s] => s \in subs',
         CaughtUp(s)'
  PROVE  LogInv'
<1>1. /\ spc' \in [Subscriber -> {"off", "history", "subscribe", "beat", "unsubscribe"}]
      /\ spc'[s] = label /\ \A t \in Subscriber \ {s} : spc'[t] = spc[t]
  BY InvParts DEF SocketTypes, GoesOn
<1>2. SocketTypes'
  BY <1>1, InvParts DEF SocketTypes
<1>3. CallbacksOK'
  BY <1>1, InvParts DEF CallbacksOK
<1>4. StreamOK(s)'
  BY <1>1, InvParts DEF StreamOK, Increasing, logs
<1>5. subs' \subseteq Subscriber /\ running' \in BOOLEAN
  BY InvParts DEF MutexTypes
<1> QED
  BY <1>1, <1>2, <1>3, <1>4, <1>5, HandlerKeeps

LEMMA EndHistoryStep == ASSUME LogInv, NEW s \in Subscriber, Runs, EndHistory(s) PROVE LogInv'
<1>1. /\ UNCHANGED <<running, logs, hub, published, subs, writers, todo, history, alive, since>>
      /\ spc[s] = "history" /\ history[s] = <<>> /\ GoesOn(s, "subscribe")
  BY DEF EndHistory, Runs
<1>2. s \notin subs /\ s \notin todo /\ alive[s]
  BY <1>1, InvParts DEF CallbacksOK
<1>3. /\ buffer' \in [Subscriber -> 0..MaxBuffer] /\ stream' \in [Subscriber -> Seq(Line)]
      /\ \A t \in Subscriber : stream'[t] = stream[t]
      /\ UNCHANGED open
  <2>1. CASE HasRoom(s) /\ Puts(s, <<>>)
    BY <2>1, InvParts, EmptyFrame
  <2>2. CASE UNCHANGED sockets
    BY <2>2, InvParts DEF sockets, SocketTypes
  <2> QED
    BY <2>1, <2>2 DEF EndHistory
<1>4. CaughtUp(s)'
  BY <1>1, <1>2 DEF CaughtUp
<1>5. since' \in [Subscriber -> 0..MaxLine] /\ subs' = subs \ {s}
  BY <1>1, <1>2, InvParts DEF SocketTypes
<1> QED
  BY <1>1, <1>2, <1>3, <1>4, <1>5, GoesOnStep

\* Nothing is being published, so there is no line it could have missed.
LEMMA SubscribeStep == ASSUME LogInv, NEW s \in Subscriber, Runs, Subscribe(s) PROVE LogInv'
<1>1. /\ UNCHANGED <<running, logs, hub, published, writers, todo, history, alive, sockets>>
      /\ spc[s] = "subscribe" /\ hub = Nobody /\ subs' = subs \cup {s}
      /\ since' = [since EXCEPT ![s] = published] /\ GoesOn(s, "beat")
  BY DEF Subscribe, Runs
<1>2. history[s] = <<>>
  BY <1>1, InvParts DEF StreamOK
<1>3. /\ since' \in [Subscriber -> 0..MaxLine] /\ since'[s] = published
      /\ \A t \in Subscriber \ {s} : since'[t] = since[t]
  BY <1>1, InvParts DEF SocketTypes, MutexTypes
<1>4. stream' \in [Subscriber -> Seq(Line)] /\ buffer' \in [Subscriber -> 0..MaxBuffer] /\ UNCHANGED open
  BY <1>1, InvParts DEF SocketTypes, sockets
<1>5. CaughtUp(s)'
  <2>1. published \in Int /\ (since'[s] + 1)..published = {}
    BY <1>3, InvParts, LogBroadcastAssumption DEF MutexTypes
  <2> QED
    BY <1>1, <2>1 DEF CaughtUp
<1> QED
  BY <1>1, <1>2, <1>3, <1>4, <1>5, InvParts, GoesOnStep DEF sockets

LEMMA EndBeatStep == ASSUME LogInv, NEW s \in Subscriber, Runs, EndBeat(s) PROVE LogInv'
<1>1. /\ UNCHANGED <<running, logs, hub, published, subs, writers, todo, history, alive, since, sockets>>
      /\ spc[s] = "beat" /\ GoesOn(s, "unsubscribe")
  BY DEF EndBeat, Runs
<1>2. history[s] = <<>> /\ s \in subs
  BY <1>1, InvParts DEF StreamOK, CallbacksOK
<1>3. /\ since' \in [Subscriber -> 0..MaxLine] /\ stream' \in [Subscriber -> Seq(Line)]
      /\ buffer' \in [Subscriber -> 0..MaxBuffer] /\ UNCHANGED open /\ subs' = subs \cup {s}
  BY <1>1, <1>2, InvParts DEF SocketTypes, sockets
<1>4. CaughtUp(s)'
  BY <1>1, InvParts, CaughtUpStays DEF logs, sockets
<1> QED
  BY <1>1, <1>2, <1>3, <1>4, GoesOnStep DEF sockets

LEMMA UnsubscribeStep == ASSUME LogInv, NEW s \in Subscriber, Runs, Unsubscribe(s) PROVE LogInv'
<1>1. /\ hub = Nobody /\ subs' = subs \ {s} /\ Returns(s)
      /\ UNCHANGED <<logs, hub, published, writers, todo>>
  BY DEF Unsubscribe
<1>2. s \notin todo
  BY <1>1, InvParts DEF MutexesOK
<1> QED
  BY <1>1, <1>2, ReturnsStep

-----------------------------------------------------------------------------
(***************************************************************************)
(* The writers.                                                            *)
(***************************************************************************)
LEMMA LockingIsFinite ==
  /\ IsFiniteSet(Locking) /\ Cardinality(Locking) \in Nat
  /\ \A w \in Locking : /\ IsFiniteSet(Locking \ {w})
                        /\ Cardinality(Locking \ {w}) = Cardinality(Locking) - 1
                        /\ Cardinality(Locking) >= 1
<1>1. Locking \subseteq Writer
  BY DEF Locking
<1>2. IsFiniteSet(Locking)
  BY <1>1, FS_Subset, LogBroadcastAssumption
<1>3. ASSUME NEW w \in Locking
      PROVE  /\ IsFiniteSet(Locking \ {w})
             /\ Cardinality(Locking \ {w}) = Cardinality(Locking) - 1
             /\ Cardinality(Locking) >= 1
  <2>1. IsFiniteSet(Locking \ {w}) /\ Cardinality(Locking \ {w}) = Cardinality(Locking) - 1
    BY <1>2, FS_RemoveElement
  <2>2. Cardinality(Locking) \in Nat /\ Cardinality(Locking \ {w}) \in Nat
    BY <1>2, <2>1, FS_CardinalityType
  <2> QED
    BY <2>1, <2>2
<1> QED
  BY <1>2, <1>3, FS_CardinalityType

\* A writer leaves the sockets and the map of the callbacks alone.
LEMMA WriterKeeps ==
  ASSUME LogInv, UNCHANGED <<running, subs, handlers, sockets>>,
         MutexTypes', MutexesOK', LinesAreCounted', todo' \subseteq subs,
         \A s \in Subscriber : StreamOK(s)' /\ CaughtUp(s)'
  PROVE  LogInv'
<1>1. SocketTypes' /\ CallbacksOK'
  BY InvParts DEF SocketTypes, CallbacksOK, handlers, sockets
<1>2. TypeOK'
  BY <1>1, TypeParts, PTL
<1>3. StreamsOK'
  BY DEF StreamsOK
<1> QED
  BY <1>1, <1>2, <1>3 DEF LogInv

LEMMA LogStep == ASSUME LogInv, NEW w \in Writer, Runs, Log(w) PROVE LogInv'
<1>1. /\ wpc[w] = "idle" /\ last + Cardinality(Locking) < MaxLine
      /\ wpc' = [wpc EXCEPT ![w] = "lock"]
      /\ UNCHANGED <<running, logs, hub, published, subs, line, todo, handlers, sockets>>
  BY DEF Log, Locking, Runs
<1>2. /\ wpc' \in [Writer -> {"idle", "lock", "publish", "call"}]
      /\ wpc'[w] = "lock" /\ \A v \in Writer \ {w} : wpc'[v] = wpc[v]
  BY <1>1, InvParts DEF MutexTypes
<1>3. MutexTypes' /\ MutexesOK'
  BY <1>1, <1>2, InvParts DEF MutexTypes, MutexesOK, logs
<1>4. LinesAreCounted'
  <2>1. Locking' = Locking \cup {w} /\ w \notin Locking
    BY <1>1, <1>2 DEF Locking
  <2>2. Cardinality(Locking') = Cardinality(Locking) + 1
    BY <2>1, LockingIsFinite, FS_AddElement
  <2> QED
    BY <1>1, <2>2, LockingIsFinite, InvParts, LogBroadcastAssumption DEF LinesAreCounted, MutexTypes, logs
<1>5. \A s \in Subscriber : StreamOK(s)' /\ CaughtUp(s)'
  BY <1>1, InvParts, StreamStays, CaughtUpStays DEF logs, handlers, sockets
<1> QED
  BY <1>1, <1>3, <1>4, <1>5, InvParts, WriterKeeps DEF CallbacksOK

\* Nothing is being published while the logger's mutex is free.
LEMMA WriteLineStep == ASSUME LogInv, NEW w \in Writer, Runs, WriteLine(w) PROVE LogInv'
<1>1. /\ wpc[w] = "lock" /\ logger = Nobody /\ logger' = w /\ last' = last + 1
      /\ line' = [line EXCEPT ![w] = last + 1] /\ wpc' = [wpc EXCEPT ![w] = "publish"]
      /\ UNCHANGED <<running, hub, published, subs, todo, handlers, sockets>>
  BY DEF WriteLine, Writes, Runs
<1>2. /\ wpc' \in [Writer -> {"idle", "lock", "publish", "call"}]
      /\ wpc'[w] = "publish" /\ \A v \in Writer \ {w} : wpc'[v] = wpc[v]
  BY <1>1, InvParts DEF MutexTypes
<1>3. hub = Nobody /\ last = published
  BY <1>1, InvParts DEF MutexTypes, MutexesOK
<1>4. Locking' = Locking \ {w} /\ w \in Locking
  BY <1>1, <1>2 DEF Locking
<1>5. /\ Cardinality(Locking') = Cardinality(Locking) - 1
      /\ Cardinality(Locking) >= 1 /\ Cardinality(Locking) \in Nat
  BY <1>4, LockingIsFinite
<1>6. last \in Nat /\ last + 1 \in 0..MaxLine
  BY <1>5, InvParts, LogBroadcastAssumption DEF LinesAreCounted, MutexTypes
<1>7. line' \in [Writer -> 0..MaxLine] /\ line'[w] = last'
  BY <1>1, <1>6, InvParts DEF MutexTypes
<1>8. MutexTypes'
  BY <1>1, <1>2, <1>3, <1>6, <1>7, InvParts DEF MutexTypes
<1>9. MutexesOK'
  BY <1>1, <1>2, <1>3, <1>7, InvParts, LogBroadcastAssumption DEF MutexesOK
<1>10. LinesAreCounted'
  BY <1>1, <1>5, <1>6, InvParts DEF LinesAreCounted
<1>11. \A s \in Subscriber : StreamOK(s)' /\ CaughtUp(s)'
  BY <1>1, <1>3, InvParts DEF StreamOK, CaughtUp, Increasing, Sent, handlers, sockets
<1> QED
  BY <1>1, <1>8, <1>9, <1>10, <1>11, InvParts, WriterKeeps DEF CallbacksOK

LEMMA PublishStep == ASSUME LogInv, NEW w \in Writer, Runs, Publish(w) PROVE LogInv'
<1>1. /\ wpc[w] = "publish" /\ hub = Nobody /\ hub' = w /\ todo' = subs
      /\ wpc' = [wpc EXCEPT ![w] = "call"]
      /\ UNCHANGED <<running, logs, published, subs, line, handlers, sockets>>
  BY DEF Publish, Runs
<1>2. /\ wpc' \in [Writer -> {"idle", "lock", "publish", "call"}]
      /\ wpc'[w] = "call" /\ \A v \in Writer \ {w} : wpc'[v] = wpc[v]
  BY <1>1, InvParts DEF MutexTypes
<1>3. logger = w /\ w # Nobody
  BY <1>1, InvParts, LogBroadcastAssumption DEF MutexesOK
<1>4. MutexTypes'
  BY <1>1, <1>2, <1>3, InvParts DEF MutexTypes, logs
<1>5. MutexesOK'
  BY <1>1, <1>2, <1>3, InvParts DEF MutexesOK, logs
<1>6. LinesAreCounted'
  <2>1. Locking' = Locking
    BY <1>1, <1>2 DEF Locking
  <2> QED
    BY <1>1, <2>1, InvParts DEF LinesAreCounted, logs
<1>7. \A s \in Subscriber : StreamOK(s)' /\ CaughtUp(s)'
  BY <1>1, <1>3, InvParts DEF StreamOK, CaughtUp, Increasing, Sent, handlers, sockets
<1> QED
  BY <1>1, <1>4, <1>5, <1>6, <1>7, InvParts, WriterKeeps DEF CallbacksOK

LEMMA PublishedStep == ASSUME LogInv, NEW w \in Writer, Runs, Published(w) PROVE LogInv'
<1>1. /\ wpc[w] = "call" /\ todo = {} /\ hub' = Nobody /\ logger' = Nobody
      /\ published' = line[w] /\ wpc' = [wpc EXCEPT ![w] = "idle"]
      /\ UNCHANGED <<running, last, subs, line, todo, handlers, sockets>>
  BY DEF Published, Runs
<1>2. /\ wpc' \in [Writer -> {"idle", "lock", "publish", "call"}]
      /\ wpc'[w] = "idle" /\ \A v \in Writer \ {w} : wpc'[v] = wpc[v]
  BY <1>1, InvParts DEF MutexTypes
<1>3. logger = w /\ hub = w /\ w # Nobody /\ line[w] = last /\ last = published + 1
  BY <1>1, InvParts, LogBroadcastAssumption DEF MutexesOK
<1>4. last \in Int /\ published \in Int
  BY InvParts DEF MutexTypes
<1>5. MutexTypes'
  BY <1>1, <1>2, <1>3, InvParts DEF MutexTypes
<1>6. MutexesOK'
  BY <1>1, <1>2, <1>3, InvParts, LogBroadcastAssumption DEF MutexesOK
<1>7. LinesAreCounted'
  <2>1. Locking' = Locking
    BY <1>1, <1>2 DEF Locking
  <2> QED
    BY <1>1, <2>1, InvParts DEF LinesAreCounted
<1>8. ASSUME NEW s \in Subscriber PROVE StreamOK(s)'
  <2>1. stream[s] \in Seq(Line) /\ history[s] \in Seq(Line) /\ StreamOK(s)
    BY InvParts DEF SocketTypes
  <2>2. \A i \in DOMAIN stream[s] : stream[s][i] \in Int
    BY <2>1, LinesAreInts
  <2>3. \A j \in DOMAIN history[s] : history[s][j] \in Int
    BY <2>1, LinesAreInts
  <2>4. published' = published + 1
    BY <1>1, <1>3
  <2>5. \A i \in DOMAIN stream[s] : stream[s][i] <= published'
    BY <1>3, <1>4, <2>1, <2>2, <2>4 DEF StreamOK
  <2>6. \A j \in DOMAIN history[s] : history[s][j] <= published'
    BY <1>4, <2>1, <2>3, <2>4 DEF StreamOK
  <2>7. UNCHANGED <<stream, history, spc>>
    BY <1>1 DEF handlers, sockets
  <2> QED
    BY <2>1, <2>5, <2>6, <2>7 DEF StreamOK, Increasing
<1>9. ASSUME NEW s \in Subscriber PROVE CaughtUp(s)'
  <2>1. UNCHANGED <<subs, open, since, stream>>
    BY <1>1 DEF handlers, sockets
  <2>2. SUFFICES ASSUME s \in subs, open[s], NEW n \in (since[s] + 1)..published'
                 PROVE  Sent(s, n)
    BY <1>1, <2>1 DEF CaughtUp, Sent
  <2>3. Sent(s, last) /\ \A k \in (since[s] + 1)..published : Sent(s, k)
    BY <1>1, <1>3, <2>2, InvParts DEF CaughtUp
  <2>4. n = last \/ n \in (since[s] + 1)..published
    BY <1>1, <1>3, <1>4, InvParts DEF SocketTypes
  <2> QED
    BY <2>3, <2>4
<1> QED
  BY <1>1, <1>5, <1>6, <1>7, <1>8, <1>9, InvParts, WriterKeeps DEF CallbacksOK

\* What a callback does: the line goes to its client, whose handler is past the history, or
\* the client is gone and it may give up.
LEMMA DeliversIs ==
  ASSUME LogInv, NEW w \in Writer, NEW s \in todo, wpc[w] = "call", Delivers(w, s),
         UNCHANGED <<spc, history, since>>
  PROVE  /\ SocketTypes'
         /\ UNCHANGED open
         /\ \A t \in Subscriber \ {s} : stream'[t] = stream[t] /\ alive'[t] = alive[t]
         /\ \/ stream'[s] = stream[s] \o <<line[w]>> /\ UNCHANGED alive
            \/ stream'[s] = stream[s] /\ ~open[s]
<1>1. s \in Subscriber
  BY InvParts DEF MutexTypes
<1>2. line[w] = last /\ last = published + 1 /\ published \in 0..MaxLine /\ last \in 0..MaxLine
  BY InvParts, LogBroadcastAssumption DEF MutexesOK, MutexTypes
<1>3. <<line[w]>> \in Seq(Line)
  BY <1>2 DEF Line
<1>4. CASE HasRoom(s) /\ Puts(s, <<line[w]>>) /\ UNCHANGED alive
  BY <1>1, <1>3, <1>4, InvParts, PutsIs DEF SocketTypes
<1>5. CASE ~open[s] /\ alive' \in {alive, [alive EXCEPT ![s] = FALSE]} /\ UNCHANGED sockets
  <2>1. alive' \in [Subscriber -> BOOLEAN] /\ \A t \in Subscriber \ {s} : alive'[t] = alive[t]
    <3>1. CASE alive' = alive
      BY <3>1, InvParts DEF SocketTypes
    <3>2. CASE alive' = [alive EXCEPT ![s] = FALSE]
      BY <3>2, InvParts DEF SocketTypes
    <3> QED
      BY <1>5, <3>1, <3>2
  <2> QED
    BY <1>1, <1>5, <2>1, InvParts DEF SocketTypes, sockets
<1> QED
  BY <1>4, <1>5 DEF Delivers

\* Of one subscriber the callback is run, or was given up before.
LEMMA CallStepOf ==
  ASSUME LogInv, NEW w \in Writer, NEW s \in todo, wpc[w] = "call", Runs,
         UNCHANGED <<logs, hub, published, subs, writers, spc, history, since>>,
         todo' = todo \ {s},
         SocketTypes', UNCHANGED open,
         \A t \in Subscriber \ {s} : stream'[t] = stream[t] /\ alive'[t] = alive[t],
         \/ stream'[s] = stream[s] \o <<line[w]>> /\ UNCHANGED alive
         \/ stream'[s] = stream[s] /\ ~open[s]
  PROVE  LogInv'
<1>1. s \in Subscriber /\ s \in subs /\ history[s] = <<>> /\ stream[s] \in Seq(Line)
  BY InvParts DEF MutexTypes, CallbacksOK, StreamOK, SocketTypes
<1>2. /\ hub = w /\ w # Nobody /\ line[w] = last /\ last = published + 1
      /\ published \in 0..MaxLine /\ last \in Line
  BY InvParts, LogBroadcastAssumption DEF MutexesOK, MutexTypes, Line
<1>3. MutexTypes' /\ MutexesOK' /\ LinesAreCounted'
  BY <1>2, InvParts DEF MutexTypes, MutexesOK, LinesAreCounted, Locking, logs, writers, Runs
<1>4. CallbacksOK'
  BY <1>1, InvParts DEF CallbacksOK
<1>5. StreamOK(s)' /\ CaughtUp(s)'
  <2>1. \A i \in DOMAIN stream[s] : stream[s][i] \in Int /\ stream[s][i] <= published
    BY <1>1, LinesAreInts, InvParts DEF StreamOK
  <2>2. CASE stream'[s] = stream[s] \o <<line[w]>>
    <3>1. Increasing(stream'[s])
      <4>1. Increasing(stream[s]) /\ \A i \in DOMAIN stream[s] : stream[s][i] < last
        BY <1>1, <1>2, <2>1, InvParts DEF StreamOK
      <4> QED
        BY <1>1, <1>2, <2>2, <4>1, AddedInOrder
    <3>2. /\ \A i \in DOMAIN stream'[s] : \/ i \in DOMAIN stream[s] /\ stream'[s][i] = stream[s][i]
                                          \/ stream'[s][i] = last
          /\ \E i \in DOMAIN stream'[s] : stream'[s][i] = last
          /\ \A i \in DOMAIN stream[s] : i \in DOMAIN stream'[s] /\ stream'[s][i] = stream[s][i]
      <4>1. /\ DOMAIN stream'[s] = DOMAIN stream[s] \cup {Len(stream[s]) + 1}
            /\ stream'[s][Len(stream[s]) + 1] = last
            /\ \A i \in DOMAIN stream[s] : stream'[s][i] = stream[s][i]
        BY <1>1, <1>2, <2>2, AddLine
      <4> QED
        BY <4>1
    <3>3. \A i \in DOMAIN stream'[s] : stream'[s][i] <= last
      BY <1>2, <2>1, <3>2 DEF Line
    <3>4. StreamOK(s)'
      <4>1. history'[s] = <<>> /\ spc'[s] # "off" /\ s \notin todo' /\ hub' # Nobody
        BY <1>1, <1>2, InvParts DEF CallbacksOK
      <4> QED
        BY <3>1, <3>3, <4>1, NoLines DEF StreamOK, logs
    <3>5. \A n : Sent(s, n) => Sent(s, n)'
      BY <3>2 DEF Sent
    <3>6. Sent(s, last)'
      BY <3>2 DEF Sent, logs
    <3>7. CaughtUp(s)'
      BY <1>1, <3>2, <3>5, <3>6, InvParts DEF CaughtUp, Sent, logs
    <3> QED
      BY <3>4, <3>7
  <2>3. CASE stream'[s] = stream[s] /\ ~open[s]
    <3>1. StreamOK(s)'
      BY <1>1, <1>2, <2>1, <2>3, InvParts DEF StreamOK, Increasing, logs
    <3>2. CaughtUp(s)'
      BY <2>3 DEF CaughtUp
    <3> QED
      BY <3>1, <3>2
  <2> QED
    BY <2>2, <2>3
<1>6. ASSUME NEW t \in Subscriber \ {s} PROVE StreamOK(t)' /\ CaughtUp(t)'
  BY <1>6, InvParts DEF StreamOK, CaughtUp, Sent, Increasing, logs
<1>7. TypeOK'
  BY <1>3, TypeParts, PTL
<1>8. StreamsOK'
  BY <1>5, <1>6 DEF StreamsOK
<1> QED
  BY <1>3, <1>4, <1>7, <1>8 DEF LogInv

LEMMA CallStepKeeps == ASSUME LogInv, NEW w \in Writer, Runs, Call(w) PROVE LogInv'
<1>1. PICK s \in todo :
        /\ \/ alive[s] /\ Delivers(w, s)
           \/ ~alive[s] /\ UNCHANGED <<alive, sockets>>
        /\ todo' = todo \ {s}
  BY DEF Call
<1>2. wpc[w] = "call" /\ UNCHANGED <<logs, hub, published, subs, writers, spc, history, since>>
  BY DEF Call
<1>3. CASE Delivers(w, s)
  BY <1>1, <1>2, <1>3, DeliversIs, CallStepOf
<1>4. CASE ~alive[s] /\ UNCHANGED <<alive, sockets>>
  <2>1. s \in Subscriber
    BY InvParts DEF MutexTypes
  <2>2. ~open[s]
    BY <1>4, <2>1, InvParts DEF CallbacksOK
  <2>3. SocketTypes'
    BY <1>2, <1>4, InvParts DEF SocketTypes, sockets
  <2>4. UNCHANGED <<stream, alive, open>>
    BY <1>4 DEF sockets
  <2> QED
    BY <1>1, <1>2, <2>2, <2>3, <2>4, CallStepOf
<1> QED
  BY <1>1, <1>3, <1>4

-----------------------------------------------------------------------------
(***************************************************************************)
(* The theorems.                                                           *)
(***************************************************************************)
LEMMA LogInvInit == Init => LogInv
<1> SUFFICES ASSUME Init PROVE LogInv
  OBVIOUS
<1>1. TypeOK
  BY LogBroadcastAssumption DEF Init, TypeOK
<1>2. MutexesOK /\ CallbacksOK
  BY LogBroadcastAssumption DEF Init, MutexesOK, CallbacksOK
<1>3. LinesAreCounted
  <2>1. Locking = {}
    BY DEF Init, Locking
  <2> QED
    BY <2>1, FS_EmptySet, LogBroadcastAssumption DEF Init, LinesAreCounted
<1>4. StreamsOK
  BY NoLines DEF Init, StreamsOK, StreamOK, CaughtUp
<1> QED
  BY <1>1, <1>2, <1>3, <1>4 DEF LogInv

LEMMA LogInvStep == LogInv /\ [Next]_vars => LogInv'
<1> SUFFICES ASSUME LogInv, [Next]_vars PROVE LogInv'
  OBVIOUS
<1>1. ASSUME NEW w \in Writer, (Runs /\ Log(w)) \/ WriterStep(w) \/ CallStep(w) PROVE LogInv'
  BY <1>1, LogStep, WriteLineStep, PublishStep, PublishedStep, CallStepKeeps DEF WriterStep, CallStep
<1>2. ASSUME NEW s \in Subscriber, Runs /\ (Connect(s) \/ Ping(s) \/ EndBeat(s) \/ Close(s))
      PROVE  LogInv'
  BY <1>2, ConnectStep, PingStep, EndBeatStep, CloseStep
<1>3. ASSUME NEW s \in Subscriber, HandlerStep(s) PROVE LogInv'
  BY <1>3, SendHistoryStep, EndHistoryStep, SubscribeStep, UnsubscribeStep DEF HandlerStep
<1>4. ASSUME NEW s \in Subscriber, ClientReads(s) \/ BrokenPipe(s) PROVE LogInv'
  BY <1>4, ReadStep, BrokenPipeStep DEF ClientReads
<1>5. CASE UNCHANGED vars
  <2>1. UNCHANGED <<running, logs, hub, published, subs, writers, todo, handlers, sockets>>
    BY <1>5 DEF vars
  <2>2. MutexTypes' /\ MutexesOK' /\ LinesAreCounted'
    BY <2>1, InvParts, QuietKeeps DEF MutexTypes
  <2>3. todo' \subseteq subs
    BY <2>1, InvParts DEF CallbacksOK
  <2>4. \A s \in Subscriber : StreamOK(s)' /\ CaughtUp(s)'
    BY <2>1, InvParts, StreamStays, CaughtUpStays DEF logs, handlers, sockets
  <2> QED
    BY <2>1, <2>2, <2>3, <2>4, WriterKeeps
<1> QED
  BY <1>1, <1>2, <1>3, <1>4, <1>5 DEF Next

\* The inductive invariant holds in every behaviour.
LEMMA LogInvariant == Spec => []LogInv
<1> QED
  BY LogInvInit, LogInvStep, PTL DEF Spec

\* The mutexes, the threads and the sockets have the values the code gives them.
THEOREM LogTypeCorrect == Spec => []TypeOK
<1>1. LogInv => TypeOK
  BY DEF LogInv
<1> QED
  BY <1>1, LogInvariant, PTL

\* No callback is kept, or about to be run, once the handler whose variables it refers to
\* has returned.
THEOREM CallbacksAreSafe == Spec => []CallbacksHaveHandlers
<1>1. LogInv => CallbacksHaveHandlers
  BY InvParts DEF CallbacksHaveHandlers, CallbacksOK, MutexTypes
<1> QED
  BY <1>1, LogInvariant, PTL

\* A client is sent lines in the order of the log, none twice (ws_log.cpp 219-244).
StreamInOrder == \A s \in Subscriber : Increasing(stream[s])

\* A client is sent the lines in the order of the log and none of them twice, the history
\* and the live lines together.
THEOREM StreamsAreInOrder == Spec => []StreamInOrder
<1>1. LogInv => StreamInOrder
  BY InvParts DEF StreamInOrder, StreamOK
<1> QED
  BY <1>1, LogInvariant, PTL

\* A subscriber whose connection stands has every line that was published since it
\* subscribed.
THEOREM SubscribersMissNothing == Spec => []NoLineMissed
<1>1. LogInv => NoLineMissed
  BY InvParts DEF NoLineMissed, CaughtUp, Sent, MutexTypes
<1> QED
  BY <1>1, LogInvariant, PTL

-----------------------------------------------------------------------------
(***************************************************************************)
(* The history has no gap: what is still to be sent of it goes on where    *)
(* the last line that was sent left off, as long as the client is there.   *)
(***************************************************************************)
Gapless(q) == \A i, j \in DOMAIN q : j = i + 1 => q[j] = q[i] + 1

ReplayOK(s) ==
    /\ Gapless(history[s])
    /\ open[s] /\ stream[s] # <<>> /\ history[s] # <<>> =>
         Head(history[s]) = stream[s][Len(stream[s])] + 1

ReplaysOK == \A s \in Subscriber : ReplayOK(s)

LEMMA NothingToReplay == ASSUME NEW s \in Subscriber, history[s] = <<>> PROVE ReplayOK(s)
  BY NoLines DEF ReplayOK, Gapless

LEMMA ReplayStays ==
  ASSUME NEW t \in Subscriber, ReplayOK(t), history'[t] = history[t],
         history[t] = <<>> \/ (stream'[t] = stream[t] /\ (open'[t] => open[t]))
  PROVE  ReplayOK(t)'
<1>1. CASE history[t] = <<>>
  <2>1. DOMAIN history'[t] = {} /\ history'[t] = <<>>
    BY <1>1, NoLines
  <2> QED
    BY <2>1 DEF ReplayOK, Gapless
<1>2. CASE stream'[t] = stream[t] /\ (open'[t] => open[t])
  BY <1>2 DEF ReplayOK, Gapless
<1> QED
  BY <1>1, <1>2

LEMMA TailsAreGapless == ASSUME MutexTypes, NEW q \in Tails PROVE Gapless(q)
<1>1. PICK n \in {k \in 0..HistoryLines : k <= last} : q = [i \in 1..n |-> last - n + i]
  BY DEF Tails
<1>2. n \in Nat /\ last \in Nat
  BY <1>1, LogBroadcastAssumption DEF MutexTypes
<1> QED
  BY <1>1, <1>2 DEF Gapless

LEMMA TailIsGapless ==
  ASSUME NEW q \in Seq(Line), q # <<>>, Gapless(q)
  PROVE  Gapless(Tail(q)) /\ (Tail(q) # <<>> => Head(Tail(q)) = Head(q) + 1)
<1>1. /\ Len(q) \in Nat \ {0} /\ DOMAIN q = 1..Len(q) /\ Head(q) = q[1]
      /\ DOMAIN Tail(q) = 1..(Len(q) - 1)
      /\ \A j \in 1..(Len(q) - 1) : Tail(q)[j] = q[j + 1]
  OBVIOUS
<1>2. Gapless(Tail(q))
  BY <1>1 DEF Gapless
<1>3. ASSUME Tail(q) # <<>> PROVE Head(Tail(q)) = Head(q) + 1
  <2>1. Len(q) > 1 /\ Head(Tail(q)) = Tail(q)[1]
    BY <1>1, <1>3
  <2>2. 1 \in DOMAIN q /\ 2 \in DOMAIN q /\ Tail(q)[1] = q[2] /\ 2 = 1 + 1
    BY <1>1, <2>1
  <2> QED
    BY <1>1, <2>1, <2>2 DEF Gapless
<1> QED
  BY <1>2, <1>3

LEMMA ReplayConnect == ASSUME LogInv, ReplaysOK, NEW s \in Subscriber, Connect(s) PROVE ReplaysOK'
<1>1. /\ spc[s] = "off" /\ open' = [open EXCEPT ![s] = TRUE] /\ UNCHANGED stream
  BY DEF Connect, Handshake
<1>2. PICK lines \in Tails : history' = [history EXCEPT ![s] = lines]
  BY DEF Connect
<1>3. history'[s] = lines /\ \A t \in Subscriber \ {s} : history'[t] = history[t] /\ open'[t] = open[t]
  BY <1>1, <1>2, InvParts DEF SocketTypes
<1>4. stream'[s] = <<>>
  BY <1>1, InvParts DEF StreamOK
<1>5. Gapless(history'[s])
  BY <1>3, InvParts, TailsAreGapless
<1>6. ReplayOK(s)'
  BY <1>4, <1>5 DEF ReplayOK, Gapless
<1>7. \A t \in Subscriber \ {s} : ReplayOK(t)'
  BY <1>1, <1>3, ReplayStays DEF ReplaysOK
<1> QED
  BY <1>6, <1>7 DEF ReplaysOK

LEMMA ReplayReturns == ASSUME LogInv, ReplaysOK, NEW s \in Subscriber, Returns(s) PROVE ReplaysOK'
<1>1. /\ history'[s] = <<>> /\ DOMAIN history'[s] = {}
      /\ \A t \in Subscriber \ {s} :
           history'[t] = history[t] /\ open'[t] = open[t] /\ stream'[t] = stream[t]
  BY InvParts, ReturnsIs, NoLines
<1>2. ReplayOK(s)'
  BY <1>1 DEF ReplayOK, Gapless
<1>3. \A t \in Subscriber \ {s} : ReplayOK(t)'
  BY <1>1, ReplayStays DEF ReplaysOK
<1> QED
  BY <1>2, <1>3 DEF ReplaysOK

\* A line of the history is sent, or lost with its client.
LEMMA ReplaySends ==
  ASSUME LogInv, ReplaysOK, NEW s \in Subscriber, SendHistory(s)
  PROVE  ReplaysOK'
<1> DEFINE q == history[s]
<1>1. /\ q \in Seq(Line) /\ q # <<>> /\ stream[s] \in Seq(Line)
      /\ Gapless(Tail(q)) /\ (Tail(q) # <<>> => Head(Tail(q)) = Head(q) + 1)
  <2>1. q \in Seq(Line) /\ q # <<>> /\ Gapless(q) /\ stream[s] \in Seq(Line)
    BY InvParts DEF SendHistory, SocketTypes, ReplaysOK, ReplayOK
  <2> QED
    BY <2>1, TailIsGapless
<1>2. ASSUME history' = [history EXCEPT ![s] = Tail(@)], UNCHANGED open,
             \A t \in Subscriber \ {s} : stream'[t] = stream[t],
             stream'[s] = stream[s] \o <<Head(q)>> \/ ~open[s]
      PROVE  ReplaysOK'
  <2>1. history'[s] = Tail(q) /\ \A t \in Subscriber \ {s} : history'[t] = history[t]
    BY <1>2, InvParts DEF SocketTypes
  <2> HIDE DEF q
  <2>2. CASE stream'[s] = stream[s] \o <<Head(q)>>
    <3>1. Head(q) \in Line
      BY <1>1
    <3>2. stream'[s][Len(stream'[s])] = Head(q)
      BY <1>1, <2>2, <3>1
    <3>3. ReplayOK(s)'
      BY <1>1, <2>1, <3>2 DEF ReplayOK, Gapless
    <3>4. \A t \in Subscriber \ {s} : ReplayOK(t)'
      BY <1>2, <2>1, ReplayStays DEF ReplaysOK
    <3> QED
      BY <3>3, <3>4 DEF ReplaysOK
  <2>3. CASE ~open[s]
    <3>1. ReplayOK(s)'
      BY <1>1, <1>2, <2>1, <2>3 DEF ReplayOK, Gapless
    <3>2. \A t \in Subscriber \ {s} : ReplayOK(t)'
      BY <1>2, <2>1, ReplayStays DEF ReplaysOK
    <3> QED
      BY <3>1, <3>2 DEF ReplaysOK
  <2> QED
    BY <1>2, <2>2, <2>3
<1>3. CASE HasRoom(s) /\ Puts(s, <<Head(q)>>) /\ history' = [history EXCEPT ![s] = Tail(@)]
  <2>1. <<Head(q)>> \in Seq(Line)
    BY <1>1
  <2> HIDE DEF q
  <2> QED
    BY <1>2, <1>3, <2>1, InvParts, PutsIs
<1>4. CASE ~open[s] /\ UNCHANGED sockets /\ history' = [history EXCEPT ![s] = Tail(@)]
  BY <1>2, <1>4 DEF sockets
<1>5. CASE Returns(s)
  BY <1>5, ReplayReturns
<1> QED
  BY <1>3, <1>4, <1>5 DEF SendHistory

\* A callback runs only when the history of its handler was sent.
LEMMA ReplayCalls == ASSUME LogInv, ReplaysOK, NEW w \in Writer, Call(w) PROVE ReplaysOK'
<1>1. UNCHANGED <<history, spc, since>> /\ wpc[w] = "call"
  BY DEF Call
<1>2. PICK s \in todo : Delivers(w, s) \/ UNCHANGED sockets
  BY DEF Call
<1>3. s \in Subscriber /\ history[s] = <<>>
  BY InvParts DEF MutexTypes, CallbacksOK, StreamOK
<1>4. UNCHANGED open /\ \A t \in Subscriber \ {s} : stream'[t] = stream[t]
  BY <1>1, <1>2, DeliversIs DEF sockets
<1>5. \A t \in Subscriber : ReplayOK(t)'
  BY <1>1, <1>3, <1>4, ReplayStays DEF ReplaysOK
<1> QED
  BY <1>5 DEF ReplaysOK

\* Every other step leaves the history, and sends nothing but frames without a line.
LEMMA ReplayElse ==
  ASSUME ReplaysOK, UNCHANGED history,
         \A t \in Subscriber : stream'[t] = stream[t] /\ (open'[t] => open[t])
  PROVE  ReplaysOK'
<1>1. \A t \in Subscriber : ReplayOK(t)'
  BY ReplayStays DEF ReplaysOK
<1> QED
  BY <1>1 DEF ReplaysOK

LEMMA WriterLeavesStreams ==
  ASSUME NEW w \in Writer, Log(w) \/ WriteLine(w) \/ Publish(w) \/ Published(w)
  PROVE  UNCHANGED <<handlers, sockets>>
  BY DEF Log, WriteLine, Writes, Publish, Published

LEMMA FrameWithoutLine ==
  ASSUME LogInv, NEW s \in Subscriber, Ping(s) \/ EndHistory(s)
  PROVE  UNCHANGED <<last, published, subs, history, open, stream>>
<1>1. UNCHANGED <<last, published, subs, history>>
  BY DEF Ping, EndHistory, logs, handlers
<1>2. CASE HasRoom(s) /\ Puts(s, <<>>)
  <2>1. stream' \in [Subscriber -> Seq(Line)] /\ UNCHANGED open /\ \A t \in Subscriber : stream'[t] = stream[t]
    BY <1>2, InvParts, EmptyFrame
  <2>2. stream' = stream
    BY <2>1, InvParts DEF SocketTypes
  <2> QED
    BY <1>1, <2>1, <2>2
<1>3. CASE UNCHANGED sockets
  BY <1>1, <1>3 DEF sockets
<1> QED
  BY <1>2, <1>3 DEF Ping, EndHistory

LEMMA CloseIs ==
  ASSUME LogInv, NEW s \in Subscriber, Close(s)
  PROVE  /\ UNCHANGED <<last, published, subs, history, stream>>
         /\ ~open'[s] /\ \A t \in Subscriber \ {s} : open'[t] = open[t]
<1>1. open' = [open EXCEPT ![s] = FALSE] /\ UNCHANGED <<last, published, subs, history, stream>>
  BY DEF Close, logs, handlers
<1>2. open \in [Subscriber -> BOOLEAN]
  BY InvParts DEF SocketTypes
<1> QED
  BY <1>1, <1>2

LEMMA ReplayStep == LogInv /\ ReplaysOK /\ [Next]_vars => ReplaysOK'
<1> SUFFICES ASSUME LogInv, ReplaysOK, [Next]_vars PROVE ReplaysOK'
  OBVIOUS
<1>1. ASSUME UNCHANGED <<history, stream, open>> PROVE ReplaysOK'
  BY <1>1, ReplayElse
<1>2. ASSUME NEW w \in Writer, (Runs /\ Log(w)) \/ WriterStep(w) \/ CallStep(w) PROVE ReplaysOK'
  BY <1>1, <1>2, WriterLeavesStreams, ReplayCalls DEF WriterStep, CallStep, handlers, sockets
<1>3. ASSUME NEW s \in Subscriber, Connect(s) \/ SendHistory(s) PROVE ReplaysOK'
  BY <1>3, ReplayConnect, ReplaySends
<1>4. ASSUME NEW s \in Subscriber, Ping(s) \/ EndHistory(s) PROVE ReplaysOK'
  BY <1>1, <1>4, FrameWithoutLine
<1>5. ASSUME NEW s \in Subscriber, Close(s) PROVE ReplaysOK'
  <2>1. \A t \in Subscriber : open'[t] => open[t]
    BY <1>5, CloseIs
  <2> QED
    BY <1>5, <2>1, CloseIs, ReplayElse
<1>6. ASSUME NEW s \in Subscriber, Subscribe(s) \/ EndBeat(s) \/ Read(s) \/ BrokenPipe(s)
      PROVE  ReplaysOK'
  <2>1. UNCHANGED <<history, stream, open>>
    BY <1>6 DEF Subscribe, EndBeat, Read, BrokenPipe, handlers, sockets
  <2> QED
    BY <1>1, <2>1
<1>7. ASSUME NEW s \in Subscriber, Unsubscribe(s) PROVE ReplaysOK'
  BY <1>7, ReplayReturns DEF Unsubscribe
<1>8. CASE UNCHANGED vars
  BY <1>1, <1>8 DEF vars, handlers, sockets
<1> QED
  BY <1>2, <1>3, <1>4, <1>5, <1>6, <1>7, <1>8 DEF Next, HandlerStep, ClientReads

LEMMA ReplayInvariant == Spec => [](LogInv /\ ReplaysOK)
<1>1. Init => ReplaysOK
  BY NothingToReplay DEF Init, ReplaysOK
<1> QED
  BY <1>1, LogInvInit, LogInvStep, ReplayStep, PTL DEF Spec

-----------------------------------------------------------------------------
(***************************************************************************)
(* Every step is one of the feed, or none that it sees.                    *)
(***************************************************************************)
There == {s \in Subscriber : open[s]}

LEMMA FeedSees ==
  ASSUME UNCHANGED <<last, published, subs, open, stream>>
  PROVE  UNCHANGED Feed!feeds
<1>1. UNCHANGED There
  BY DEF There
<1> QED
  BY <1>1 DEF Feed!feeds, There

LEMMA FeedInit == Init => Feed!Init
  BY DEF Init, Feed!Init

\* The mutex of the logger is free: the line that was written last was told to all.
LEMMA WritesInFeed == ASSUME LogInv, NEW w \in Writer, WriteLine(w) PROVE Feed!Next
<1>1. logger = Nobody /\ last' = last + 1 /\ UNCHANGED <<published, subs, open, stream>>
  BY DEF WriteLine, Writes, sockets
<1>2. published = last
  BY <1>1, InvParts DEF MutexesOK
<1>3. Feed!Write
  BY <1>1, <1>2 DEF Feed!Write
<1> QED
  BY <1>3 DEF Feed!Next

LEMMA TellsInFeed == ASSUME LogInv, NEW w \in Writer, Published(w) PROVE Feed!Next
<1>1. /\ wpc[w] = "call" /\ todo = {} /\ published' = line[w]
      /\ UNCHANGED <<last, subs, open, stream>>
  BY DEF Published, sockets
<1>2. hub = w /\ w # Nobody /\ line[w] = last /\ last = published + 1 /\ published \in Int
  BY <1>1, InvParts, LogBroadcastAssumption DEF MutexesOK, MutexTypes
<1>3. \A c \in subs \cap There : \E i \in DOMAIN stream[c] : stream[c][i] = last
  BY <1>1, <1>2, InvParts DEF There, CaughtUp, Sent
<1>4. Feed!Tell
  BY <1>1, <1>2, <1>3 DEF Feed!Tell, There
<1> QED
  BY <1>4 DEF Feed!Next

\* What one socket is sent is appended to what its client has.
LEMMA GetsInFeed ==
  ASSUME SocketTypes, NEW s \in Subscriber, NEW n \in Line, HasRoom(s), Puts(s, <<n>>),
         \A i \in DOMAIN stream[s] : stream[s][i] < n,
         UNCHANGED <<last, published, subs>>
  PROVE  Feed!Get(s, n)
<1>1. stream[s] \in Seq(Line) /\ stream[s] \o <<n>> = Append(stream[s], n)
  BY DEF SocketTypes
<1>2. stream' = [stream EXCEPT ![s] = Append(@, n)] /\ UNCHANGED open /\ open[s]
  BY <1>1 DEF Puts, HasRoom
<1> QED
  BY <1>2 DEF Feed!Get

LEMMA CallsInFeed ==
  ASSUME LogInv, NEW w \in Writer, Call(w)
  PROVE  Feed!Next \/ UNCHANGED Feed!feeds
<1>1. wpc[w] = "call" /\ UNCHANGED <<last, published, subs>>
  BY DEF Call, logs
<1>2. PICK s \in todo : Delivers(w, s) \/ UNCHANGED sockets
  BY DEF Call
<1>3. CASE UNCHANGED sockets
  BY <1>1, <1>3, FeedSees DEF sockets
<1>4. CASE HasRoom(s) /\ Puts(s, <<line[w]>>)
  <2>1. s \in Subscriber /\ s \in subs /\ stream[s] \in Seq(Line)
    BY InvParts DEF MutexTypes, CallbacksOK, SocketTypes
  <2>2. /\ hub = w /\ w # Nobody /\ line[w] = last /\ last = published + 1
        /\ published \in Nat /\ last \in Line
    BY <1>1, InvParts, LogBroadcastAssumption DEF MutexesOK, MutexTypes, Line
  <2>3. \A i \in DOMAIN stream[s] : stream[s][i] \in Int /\ stream[s][i] <= published
    BY <2>1, LinesAreInts, InvParts DEF StreamOK
  <2>4. \A i \in DOMAIN stream[s] : stream[s][i] < last
    BY <2>2, <2>3
  <2>5. Feed!Get(s, last)
    BY <1>1, <1>4, <2>1, <2>2, <2>4, InvParts, GetsInFeed
  <2>6. Feed!Deliver(s)
    BY <2>1, <2>2, <2>5 DEF Feed!Deliver
  <2> QED
    BY <2>1, <2>6 DEF Feed!Next
<1> QED
  BY <1>2, <1>3, <1>4 DEF Delivers

LEMMA ComesInFeed == ASSUME LogInv, NEW s \in Subscriber, Connect(s) PROVE Feed!Next
<1>1. /\ spc[s] = "off" /\ open' = [open EXCEPT ![s] = TRUE]
      /\ UNCHANGED <<last, published, subs, stream>>
  BY DEF Connect, Handshake, logs
<1>2. s \notin subs /\ stream[s] = <<>>
  BY <1>1, InvParts DEF CallbacksOK, StreamOK
<1>3. open'[s] /\ \A t \in Subscriber \ {s} : open'[t] = open[t]
  BY <1>1, InvParts DEF SocketTypes
<1>4. There' = There \cup {s}
  BY <1>3 DEF There
<1>5. Feed!Come(s)
  BY <1>1, <1>2, <1>4 DEF Feed!Come, There
<1> QED
  BY <1>5 DEF Feed!Next

LEMMA DropsInFeed == ASSUME LogInv, NEW s \in Subscriber, Close(s) PROVE Feed!Next
<1>1. There' = There \ {s}
  BY CloseIs DEF There
<1>2. Feed!Drop(s)
  BY <1>1, CloseIs DEF Feed!Drop, There
<1> QED
  BY <1>2 DEF Feed!Next

LEMMA LeavesFeed ==
  ASSUME LogInv, NEW s \in Subscriber, Returns(s), subs' = subs \ {s}, UNCHANGED <<last, published>>
  PROVE  Feed!Next
<1>1. open' = [open EXCEPT ![s] = FALSE] /\ stream' = [stream EXCEPT ![s] = <<>>]
  BY DEF Returns
<1>2. ~open'[s] /\ \A t \in Subscriber \ {s} : open'[t] = open[t]
  BY <1>1, InvParts DEF SocketTypes
<1>3. There' = There \ {s}
  BY <1>2 DEF There
<1>4. Feed!Leave(s)
  BY <1>1, <1>3 DEF Feed!Leave, There
<1> QED
  BY <1>4 DEF Feed!Next

\* A line of the history was published, and follows the one that was sent before it.
LEMMA ReplaysInFeed ==
  ASSUME LogInv, ReplaysOK, NEW s \in Subscriber, SendHistory(s)
  PROVE  Feed!Next \/ UNCHANGED Feed!feeds
<1> DEFINE q == history[s]
<1>1. /\ UNCHANGED <<last, published, subs>>
      /\ spc[s] = "history" /\ q # <<>>
  BY DEF SendHistory, logs
<1>2. s \notin subs /\ subs = subs \ {s}
  BY <1>1, InvParts DEF CallbacksOK
<1>3. /\ q \in Seq(Line) /\ Increasing(q) /\ stream[s] \in Seq(Line)
      /\ \A i \in DOMAIN stream[s], j \in DOMAIN q : stream[s][i] < q[j]
      /\ \A j \in DOMAIN q : q[j] <= published
      /\ published \in 0..MaxLine
  BY InvParts DEF SocketTypes, StreamOK, MutexTypes
<1>4. Head(q) \in Line /\ 1 \in DOMAIN q /\ Head(q) = q[1]
  BY <1>1, <1>3, TailInOrder
<1>5. CASE HasRoom(s) /\ Puts(s, <<Head(q)>>)
  <2>1. stream[s] # <<>> => Head(q) = stream[s][Len(stream[s])] + 1
    BY <1>1, <1>5 DEF HasRoom, ReplaysOK, ReplayOK
  <2> HIDE DEF q
  <2>2. \A i \in DOMAIN stream[s] : stream[s][i] < Head(q)
    BY <1>3, <1>4
  <2>3. Feed!Get(s, Head(q))
    BY <1>1, <1>4, <1>5, <2>2, InvParts, GetsInFeed
  <2>4. Head(q) \in 1..published
    BY <1>3, <1>4, LogBroadcastAssumption DEF Line
  <2>5. Feed!Replay(s)
    BY <1>2, <2>1, <2>3, <2>4 DEF Feed!Replay
  <2> QED
    BY <2>5 DEF Feed!Next
<1>6. CASE UNCHANGED sockets
  BY <1>1, <1>6, FeedSees DEF sockets
<1>7. CASE Returns(s)
  BY <1>1, <1>2, <1>7, LeavesFeed
<1> QED
  BY <1>5, <1>6, <1>7 DEF SendHistory

LEMMA JoinsFeed == ASSUME LogInv, NEW s \in Subscriber, Subscribe(s) PROVE Feed!Next
<1>1. /\ spc[s] = "subscribe" /\ subs' = subs \cup {s}
      /\ UNCHANGED <<last, published, open, stream>>
  BY DEF Subscribe, logs, sockets
<1>2. s \notin subs
  BY <1>1, InvParts DEF CallbacksOK
<1>3. Feed!Join(s)
  BY <1>1, <1>2 DEF Feed!Join
<1> QED
  BY <1>3 DEF Feed!Next

LEMMA FeedStep ==
  LogInv /\ ReplaysOK /\ [Next]_vars => [Feed!Next]_(Feed!feeds)
<1> SUFFICES ASSUME LogInv, ReplaysOK, [Next]_vars PROVE Feed!Next \/ UNCHANGED Feed!feeds
  OBVIOUS
<1>1. ASSUME NEW w \in Writer, Log(w) \/ Publish(w) PROVE UNCHANGED Feed!feeds
  <2>1. UNCHANGED <<last, published, subs, open, stream>>
    BY <1>1 DEF Log, Publish, logs, sockets
  <2> QED
    BY <2>1, FeedSees
<1>2. ASSUME NEW w \in Writer, (Runs /\ Log(w)) \/ WriterStep(w) \/ CallStep(w)
      PROVE  Feed!Next \/ UNCHANGED Feed!feeds
  BY <1>1, <1>2, WritesInFeed, TellsInFeed, CallsInFeed DEF WriterStep, CallStep
<1>3. ASSUME NEW s \in Subscriber, Connect(s) \/ Close(s) \/ SendHistory(s) \/ Subscribe(s)
      PROVE  Feed!Next \/ UNCHANGED Feed!feeds
  BY <1>3, ComesInFeed, DropsInFeed, ReplaysInFeed, JoinsFeed
<1>4. ASSUME NEW s \in Subscriber, Ping(s) \/ EndHistory(s) PROVE UNCHANGED Feed!feeds
  BY <1>4, FrameWithoutLine, FeedSees
<1>5. ASSUME NEW s \in Subscriber, EndBeat(s) \/ Read(s) \/ BrokenPipe(s)
      PROVE  UNCHANGED Feed!feeds
  <2>1. UNCHANGED <<last, published, subs, open, stream>>
    BY <1>5 DEF EndBeat, Read, BrokenPipe, logs, sockets
  <2> QED
    BY <2>1, FeedSees
<1>6. ASSUME NEW s \in Subscriber, Unsubscribe(s) PROVE Feed!Next
  BY <1>6, LeavesFeed DEF Unsubscribe, logs
<1>7. CASE UNCHANGED vars
  <2>1. UNCHANGED <<last, published, subs, open, stream>>
    BY <1>7 DEF vars, logs, sockets
  <2> QED
    BY <2>1, FeedSees
<1> QED
  BY <1>2, <1>3, <1>4, <1>5, <1>6, <1>7 DEF Next, HandlerStep, ClientReads

\* However threads that log, handlers and clients interleave, the mutexes and the callbacks
\* keep the promise of the log stream: one line at a time, to every subscriber who is
\* there, and the history before it in order and without a gap.
THEOREM StreamIsAFeed == Spec => FeedSpec
<1> QED
  BY FeedInit, FeedStep, ReplayInvariant, PTL DEF Spec, FeedSpec, Feed!Spec
=============================================================================
