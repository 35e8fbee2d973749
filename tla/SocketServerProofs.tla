------------------------- MODULE SocketServerProofs -------------------------
(***************************************************************************)
(* Theorems about SocketServer for any set of connections, any pool and    *)
(* any number of descriptors.                                              *)
(***************************************************************************)
EXTENDS SocketServer, TLAPS, FiniteSetTheorems

\* The worker handed to the pool is one whose constructor passed getInputStream.
WorkerHasSocket == main = "execute" => socket # None

\* parseHTTPHeader has returned when the worker writes.
AnswerReady == \A c \in Conns : conn[c] = "write" => answer[c] \in Answers

Typed == TypeOK /\ WorkerHasSocket /\ AnswerReady

-----------------------------------------------------------------------------
(* Type correctness. *)

LEMMA OpenStreamType ==
    ASSUME leaked \in Nat
    PROVE  /\ \A call, ok : OpenStream(call, ok) => leaked' \in Nat
           /\ LoadThrows => leaked' \in Nat
BY DEF OpenStream, Opened, LoadThrows

\* What a step of the acceptor that opens a stream can do to the thread.
LEMMA LoadThrowsDies == LoadThrows => Die
BY DEF LoadThrows

LEMMA BooleanUpdate ==
    ASSUME NEW S, NEW f \in [S -> BOOLEAN], NEW x, NEW b \in BOOLEAN
    PROVE  [f EXCEPT ![x] = b] \in [S -> BOOLEAN]
OBVIOUS

LEMMA TypedInit == Init => Typed
<1> SUFFICES ASSUME Init PROVE Typed
      OBVIOUS
<1> USE DEF Init
<1>1. sent \in [Conns -> 0..Segments] /\ got \in [Conns -> 0..Segments]
      BY ServerAssumption DEF ServerAssumption
<1>2. queue \in Seq(Conns)
      OBVIOUS
<1>3. /\ answer \in [Conns -> Answers \cup {"none", "thrown"}]
      /\ reply \in [Conns -> Answers \cup {"none", "lost"}]
      OBVIOUS
<1>4. /\ conn \in [Conns -> {"none", "backlog", "closed", "finalized"} \cup OpenSocket]
      /\ client \in [Conns -> {"idle", "open", "closed"}]
      /\ parserConf \in [Conns -> BOOLEAN]
      OBVIOUS
<1>5. /\ main \in {"accept", "dead"} \cup Constructing /\ socket \in Conns \cup {None}
      /\ logConf \in BOOLEAN /\ logHandler \in BOOLEAN /\ leaked \in Nat
      OBVIOUS
<1>6. WorkerHasSocket /\ AnswerReady
      BY DEF WorkerHasSocket, AnswerReady
<1> QED
      BY <1>1, <1>2, <1>3, <1>4, <1>5, <1>6 DEF Typed, TypeOK

LEMMA TypedClients ==
    ASSUME Typed, NEW c \in Conns, Connect(c) \/ Send(c) \/ Hangup(c)
    PROVE  Typed'
<1>1. Segments \in Nat
      BY ServerAssumption DEF ServerAssumption
<1> USE DEF Typed, TypeOK, WorkerHasSocket, AnswerReady
<1>2. CASE Connect(c)
      BY <1>2 DEF Connect
<1>3. CASE Send(c)
      BY <1>1, <1>3 DEF Send, serverVars
<1>4. CASE Hangup(c)
      BY <1>4 DEF Hangup, serverVars
<1> QED
      BY <1>2, <1>3, <1>4

LEMMA TypedMain ==
    ASSUME Typed, Main
    PROVE  Typed'
<1> USE DEF Typed, TypeOK, WorkerHasSocket, AnswerReady, clientVars
<1>1. ASSUME NEW c \in Conns, Accept(c) PROVE Typed'
      BY <1>1 DEF Accept, OpenSocket, Constructing
<1>2. CASE AcceptFails
      BY <1>2 DEF AcceptFails, Constructing
<1>3. CASE SetProperty
      BY <1>3, OpenStreamType, LoadThrowsDies DEF SetProperty, Die, OpenSocket, Constructing
<1>4. CASE HandlerConf
      BY <1>4, OpenStreamType, LoadThrowsDies DEF HandlerConf, Die, OpenSocket, Constructing
<1>5. CASE HandlerFile
      BY <1>5, OpenStreamType DEF HandlerFile, Constructing
<1>6. CASE LogWrite
      BY <1>6 DEF LogWrite, Die, Constructing, OpenSocket
<1>7. CASE CheckFile
      BY <1>7, OpenStreamType DEF CheckFile, Constructing
<1>8. CASE AppendLog
      BY <1>8, OpenStreamType DEF AppendLog, Constructing
<1>9. CASE NewParser
  <2>1. CASE socket = None
        BY <1>9, <2>1 DEF NewParser, Die, Constructing
  <2>2. CASE socket # None /\ LoadThrows
        BY <1>9, <2>2, OpenStreamType, LoadThrowsDies DEF NewParser, Die, OpenSocket, Constructing
  <2>3. ASSUME socket # None, NEW ok \in BOOLEAN, OpenStream("http.conf", ok), main' = "execute",
               parserConf' = [parserConf EXCEPT ![socket] = ok], UNCHANGED conn
        PROVE  Typed'
    <3>1. parserConf' \in [Conns -> BOOLEAN]
          BY <2>3, BooleanUpdate, Zenon
    <3>2. leaked' \in Nat
          BY <2>3, OpenStreamType
    <3> QED BY <1>9, <2>3, <3>1, <3>2 DEF NewParser, Constructing
  <2> QED BY <1>9, <2>1, <2>2, <2>3 DEF NewParser
<1>10. CASE Execute
  <2>1. socket \in Conns
        BY <1>10 DEF Execute
  <2>2. queue' \in Seq(Conns)
        BY <1>10, <2>1 DEF Execute
  <2> QED BY <1>10, <2>1, <2>2 DEF Execute, OpenSocket
<1> QED
      BY <1>1, <1>2, <1>3, <1>4, <1>5, <1>6, <1>7, <1>8, <1>9, <1>10 DEF Main

LEMMA TypedTake ==
    ASSUME Typed, Take
    PROVE  Typed'
<1> USE DEF Typed, TypeOK, WorkerHasSocket, AnswerReady, clientVars
<1>1. Head(queue) \in Conns /\ Tail(queue) \in Seq(Conns)
      BY DEF Take
<1> QED
      BY <1>1 DEF Take, OpenSocket, Serving

LEMMA TypedWorker ==
    ASSUME Typed, NEW c \in Conns, Worker(c)
    PROVE  Typed'
<1> USE DEF Typed, TypeOK, WorkerHasSocket, AnswerReady, clientVars, OpenSocket, Serving
<1>1. Segments \in Nat
      BY ServerAssumption DEF ServerAssumption
<1>2. CASE Read(c)
  <2>1. PICK n \in 0..sent[c] : got' = [got EXCEPT ![c] = n]
        BY <1>2 DEF Read
  <2>2. got' \in [Conns -> 0..Segments]
        BY <1>1, <2>1
  <2> QED BY <1>2, <2>2 DEF Read
<1>3. CASE Parse(c)
      BY <1>3 DEF Parse, Throw, Respond, Answers
<1>4. CASE ReadFile(c)
      BY <1>4 DEF ReadFile, Respond, Answers
<1>5. CASE ReadFileFails(c)
      BY <1>5 DEF ReadFileFails, Respond, Answers
<1>6. CASE Write(c)
  <2>1. reply' \in [Conns -> Answers \cup {"none", "lost"}]
    <3>1. answer[c] \in Answers
          BY <1>6 DEF Write
    <3> QED BY <1>6, <3>1 DEF Write
  <2> QED BY <1>6, <2>1 DEF Write
<1>7. CASE WriteFails(c)
      BY <1>7 DEF WriteFails
<1> QED
      BY <1>2, <1>3, <1>4, <1>5, <1>6, <1>7 DEF Worker

LEMMA TypedCollector ==
    ASSUME Typed, FinalizeStreams \/ \E c \in Conns : FinalizeSocket(c)
    PROVE  Typed'
<1> USE DEF Typed, TypeOK, WorkerHasSocket, AnswerReady, clientVars
<1>1. CASE FinalizeStreams
  <2>1. leaked' \in Nat
        BY <1>1 DEF FinalizeStreams
  <2> QED BY <1>1, <2>1 DEF FinalizeStreams
<1>2. ASSUME NEW c \in Conns, FinalizeSocket(c) PROVE Typed'
      BY <1>2 DEF FinalizeSocket
<1> QED
      BY <1>1, <1>2

\* Every value has its type in every reachable state.
LEMMA TypedStep ==
    ASSUME Typed, [Next]_vars
    PROVE  Typed'
<1>1. CASE Next
      BY <1>1, TypedMain, TypedTake, TypedClients, TypedWorker, TypedCollector DEF Next
<1>2. CASE UNCHANGED vars
      BY <1>2 DEF vars, serverVars, clientVars, Typed, TypeOK, WorkerHasSocket, AnswerReady
<1> QED BY <1>1, <1>2

\* Type correctness of the whole server: in particular the acceptor queues
\* only sockets that were accepted and a worker writes only complete answers.
THEOREM TypeCorrect == Spec => []TypeOK
<1>1. Typed => TypeOK
      BY DEF Typed
<1> QED
      BY TypedInit, TypedStep, <1>1, PTL DEF Spec

-----------------------------------------------------------------------------
(* Every accepted connection is in one place. *)

LEMMA QueueAppend ==
    ASSUME NEW q \in Seq(Conns), Distinct(q), NEW c \in Conns, c \notin Elements(q)
    PROVE  /\ Elements(Append(q, c)) = Elements(q) \cup {c}
           /\ Distinct(Append(q, c))
<1> DEFINE r == Append(q, c)
<1>1. /\ Len(q) \in Nat /\ Len(r) = Len(q) + 1 /\ r[Len(q) + 1] = c
      /\ \A i \in 1..Len(q) : r[i] = q[i] /\ q[i] # c
      BY DEF Elements
<1> HIDE DEF r
<1>2. Elements(r) = Elements(q) \cup {c}
      BY <1>1 DEF Elements
<1>3. Distinct(r)
      BY <1>1 DEF Distinct
<1> QED BY <1>2, <1>3 DEF r

LEMMA QueueTail ==
    ASSUME NEW q \in Seq(Conns), q # <<>>, Distinct(q)
    PROVE  /\ Elements(Tail(q)) = Elements(q) \ {Head(q)}
           /\ Distinct(Tail(q))
<1> DEFINE r == Tail(q)
<1>1. /\ Len(q) \in Nat \ {0} /\ Len(r) = Len(q) - 1 /\ Head(q) = q[1]
      /\ \A i \in 1..Len(r) : r[i] = q[i + 1]
      OBVIOUS
<1> HIDE DEF r
<1>2. \A i \in 1..Len(r) : i + 1 \in 1..Len(q) /\ q[i + 1] # q[1]
      BY <1>1 DEF Distinct
<1>3. \A i \in 1..Len(q) : q[i] # q[1] => i - 1 \in 1..Len(r) /\ r[i - 1] = q[i]
      BY <1>1
<1>4. Elements(r) \subseteq Elements(q) \ {Head(q)}
      BY <1>1, <1>2 DEF Elements
<1>5. Elements(q) \ {Head(q)} \subseteq Elements(r)
      BY <1>1, <1>3 DEF Elements
<1>6. Distinct(r)
      BY <1>1, <1>2 DEF Distinct
<1> QED BY <1>4, <1>5, <1>6 DEF r

LEMMA OwnershipInit == Init => Ownership
BY ServerAssumption DEF ServerAssumption, Init, Ownership, Elements, Distinct, In, Constructing

\* A step that leaves the acceptor and the queue alone and moves no connection
\* into or out of their hands.
LEMMA OwnershipFrame ==
    ASSUME Ownership, UNCHANGED <<main, socket, queue>>,
           \A c \in Conns : \A s \in {"held", "queued"} : conn[c] = s <=> conn'[c] = s
    PROVE  Ownership'
<1>1. In({"queued"})' = In({"queued"}) /\ In({"held"})' = In({"held"})
      BY DEF In
<1> QED BY <1>1 DEF Ownership

LEMMA OwnershipMain ==
    ASSUME Typed, Ownership, Main
    PROVE  Ownership'
<1> USE ServerAssumption DEF ServerAssumption
<1>0. TypeOK BY DEF Typed
<1>1. ASSUME NEW c \in Conns, Accept(c) PROVE Ownership'
  <2>1. In({"queued"})' = In({"queued"}) /\ In({"held"})' = In({"held"}) \cup {c}
        BY <1>0, <1>1 DEF Accept, In, TypeOK
  <2>2. In({"held"}) = {}
        BY <1>1 DEF Accept, Ownership, Constructing
  <2> QED BY <1>1, <2>1, <2>2 DEF Accept, Ownership, Constructing
<1>2. CASE AcceptFails
  <2>1. In({"held"}) = {}
        BY <1>2 DEF AcceptFails, Ownership, Constructing
  <2> QED BY <1>2, <2>1 DEF AcceptFails, Ownership, Constructing, In
<1>4. ASSUME Die, UNCHANGED queue, main \in Constructing PROVE Ownership'
  <2>1. In({"held"}) = IF socket # None THEN {socket} ELSE {}
        BY <1>4 DEF Ownership
  <2>2. In({"held"})' = {} /\ In({"queued"})' = In({"queued"})
        BY <1>0, <1>4, <2>1 DEF Die, In, TypeOK
  <2> QED BY <1>4, <2>2 DEF Die, Ownership, Constructing
<1>3. CASE SetProperty \/ HandlerConf \/ HandlerFile \/ CheckFile \/ AppendLog
  <2>1. /\ UNCHANGED <<socket, queue>> /\ main \in Constructing
        /\ Die \/ (UNCHANGED conn /\ main' \in Constructing)
        BY <1>3, LoadThrowsDies
        DEF SetProperty, HandlerConf, HandlerFile, CheckFile, AppendLog, Constructing
  <2>2. CASE UNCHANGED conn /\ main' \in Constructing
        BY <2>1, <2>2 DEF Ownership, In
  <2> QED BY <1>4, <2>1, <2>2
<1>5. CASE LogWrite
  <2>1. CASE logConf /\ (InfoVisible => logHandler)
        BY <1>5, <2>1 DEF LogWrite, Ownership, In, Constructing
  <2>2. CASE ~(logConf /\ (InfoVisible => logHandler))
        BY <1>4, <1>5, <2>2 DEF LogWrite, Constructing
  <2> QED BY <2>1, <2>2
<1>6. CASE NewParser
  <2>1. CASE socket = None
        BY <1>4, <1>6, <2>1 DEF NewParser, Constructing
  <2>2. CASE socket # None /\ LoadThrows
        BY <1>4, <1>6, <2>2, LoadThrowsDies DEF NewParser, Constructing
  <2>3. CASE socket # None /\ ~LoadThrows
        BY <1>6, <2>3 DEF NewParser, Ownership, In, Constructing
  <2> QED BY <2>1, <2>2, <2>3
<1>7. CASE Execute
  <2>1. socket \in Conns /\ socket # None /\ queue \in Seq(Conns)
        BY <1>0, <1>7 DEF Execute, Typed, WorkerHasSocket, TypeOK
  <2>2. In({"held"}) = {socket} /\ conn[socket] = "held"
        BY <1>7, <2>1 DEF Ownership, Execute, Constructing, In
  <2>3. In({"held"})' = {} /\ In({"queued"})' = In({"queued"}) \cup {socket}
        BY <1>0, <1>7, <2>1, <2>2 DEF Execute, In, TypeOK
  <2>4. Elements(queue') = Elements(queue) \cup {socket} /\ Distinct(queue')
    <3>1. socket \notin Elements(queue) /\ Distinct(queue)
          BY <2>1, <2>2 DEF Ownership, In
    <3> QED BY <1>7, <2>1, <3>1, QueueAppend DEF Execute
  <2> QED BY <1>7, <2>3, <2>4 DEF Execute, Ownership, Constructing
<1> QED
      BY <1>1, <1>2, <1>3, <1>5, <1>6, <1>7 DEF Main

LEMMA OwnershipTake ==
    ASSUME Typed, Ownership, Take
    PROVE  Ownership'
<1> DEFINE h == Head(queue)
<1>0. TypeOK BY DEF Typed
<1>1. queue \in Seq(Conns) /\ queue # <<>> /\ h \in Elements(queue) /\ h \in Conns
      BY <1>0 DEF TypeOK, Take, Elements
<1>2. conn[h] = "queued" /\ conn' = [conn EXCEPT ![h] = "read"]
      BY <1>1 DEF Ownership, In, Take
<1>3. In({"queued"})' = In({"queued"}) \ {h} /\ In({"held"})' = In({"held"})
      BY <1>0, <1>1, <1>2 DEF In, TypeOK
<1>4. Elements(queue') = Elements(queue) \ {h} /\ Distinct(queue')
      BY <1>1, QueueTail DEF Ownership, Take
<1> QED BY <1>3, <1>4 DEF Ownership, Take

LEMMA OwnershipElsewhere ==
    ASSUME Typed, Ownership,
           \/ FinalizeStreams
           \/ \E c \in Conns : Connect(c) \/ Send(c) \/ Hangup(c) \/ Worker(c) \/ FinalizeSocket(c)
    PROVE  Ownership'
<1>1. UNCHANGED <<main, socket, queue>>
      BY DEF FinalizeStreams, Connect, Send, Hangup, FinalizeSocket, serverVars, Worker,
             Read, Parse, ReadFile, ReadFileFails, Write, WriteFails
<1>2. \/ UNCHANGED conn
      \/ \E c \in Conns, s \in {"backlog", "parse", "file", "write", "closed",
                                "abandoned", "finalized"} :
            /\ conn' = [conn EXCEPT ![c] = s]
            /\ conn[c] \notin {"held", "queued"}
  <2>1. ASSUME NEW c \in Conns, Connect(c)
        PROVE  conn[c] = "none" /\ conn' = [conn EXCEPT ![c] = "backlog"]
        BY <2>1 DEF Connect
  <2>2. ASSUME NEW c \in Conns, Worker(c)
        PROVE  /\ conn[c] \in Serving
               /\ \E s \in {"parse", "file", "write", "closed", "abandoned"} :
                     conn' = [conn EXCEPT ![c] = s]
        BY <2>2 DEF Worker, Read, Parse, ReadFile, ReadFileFails, Write, WriteFails,
                    Throw, Respond, Serving
  <2>3. ASSUME NEW c \in Conns, FinalizeSocket(c)
        PROVE  conn[c] = "abandoned" /\ conn' = [conn EXCEPT ![c] = "finalized"]
        BY <2>3 DEF FinalizeSocket
  <2>4. ASSUME NEW c \in Conns, FinalizeStreams \/ Send(c) \/ Hangup(c)
        PROVE  UNCHANGED conn
        BY <2>4 DEF FinalizeStreams, Send, Hangup, serverVars
  <2>5. CASE FinalizeStreams
        BY <2>5 DEF FinalizeStreams
  <2> QED BY <2>1, <2>2, <2>3, <2>4, <2>5 DEF Serving
<1>3. \A c \in Conns : \A s \in {"held", "queued"} : conn[c] = s <=> conn'[c] = s
      BY <1>2 DEF Typed, TypeOK
<1> QED BY <1>1, <1>3, OwnershipFrame

LEMMA OwnershipStep ==
    ASSUME Typed, Ownership, [Next]_vars
    PROVE  Ownership'
<1>1. CASE UNCHANGED vars
      BY <1>1, OwnershipFrame DEF vars, serverVars
<1>2. CASE Next
      BY <1>2, OwnershipMain, OwnershipTake, OwnershipElsewhere DEF Next
<1> QED BY <1>1, <1>2

\* The acceptor, the queue and the pool never hold one connection twice and
\* never lose an accepted one between them.
THEOREM OneOwner == Spec => []Ownership
BY TypedInit, TypedStep, OwnershipInit, OwnershipStep, PTL DEF Spec

-----------------------------------------------------------------------------
(* The bound on the pool and the isolation of queued work. *)

\* How a step that is not Main moves a connection.
Moves(c) ==
    \/ conn[c] = "none" /\ conn' = [conn EXCEPT ![c] = "backlog"]
    \/ conn[c] \in Serving /\ conn' = [conn EXCEPT ![c] = "parse"]
    \/ conn[c] \in Serving /\ conn' = [conn EXCEPT ![c] = "file"]
    \/ conn[c] \in Serving /\ conn' = [conn EXCEPT ![c] = "write"]
    \/ conn[c] \in Serving /\ conn' = [conn EXCEPT ![c] = "closed"]
    \/ conn[c] \in Serving /\ conn' = [conn EXCEPT ![c] = "abandoned"]
    \/ conn[c] = "abandoned" /\ conn' = [conn EXCEPT ![c] = "finalized"]

LEMMA OtherMoves ==
    ASSUME \/ FinalizeStreams
           \/ \E c \in Conns : Connect(c) \/ Send(c) \/ Hangup(c) \/ Worker(c) \/ FinalizeSocket(c)
    PROVE  UNCHANGED conn \/ \E c \in Conns : Moves(c)
<1>1. ASSUME NEW c \in Conns, Worker(c) PROVE Moves(c)
      BY <1>1 DEF Worker, Read, Parse, ReadFile, ReadFileFails, Write, WriteFails,
                  Throw, Respond, Serving, Moves
<1>2. ASSUME NEW c \in Conns, Connect(c) \/ FinalizeSocket(c) PROVE Moves(c)
      BY <1>2 DEF Connect, FinalizeSocket, Moves
<1>3. ASSUME NEW c \in Conns, Send(c) \/ Hangup(c) PROVE UNCHANGED conn
      BY <1>3 DEF Send, Hangup, serverVars
<1> QED BY <1>1, <1>2, <1>3 DEF FinalizeStreams

\* The accept loop moves only the connection it accepts or holds.
LEMMA MainMoves ==
    ASSUME Typed, Ownership, Main
    PROVE  \/ UNCHANGED conn
           \/ \E c \in Conns : \/ /\ conn[c] = "backlog" /\ main = "accept" /\ main' # "dead"
                                  /\ conn' = [conn EXCEPT ![c] = "held"]
                               \/ /\ conn[c] = "held" /\ main # "dead" /\ main' # "dead"
                                  /\ conn' = [conn EXCEPT ![c] = "queued"]
                               \/ /\ conn[c] = "held" /\ main # "dead" /\ main' = "dead"
                                  /\ socket' = c
                                  /\ conn' = [conn EXCEPT ![c] = "abandoned"]
<1>0. main \in Constructing /\ socket # None => conn[socket] = "held" /\ socket \in Conns
      BY DEF Ownership, In, Typed, TypeOK
<1>1. ASSUME NEW c \in Conns, Accept(c)
      PROVE  /\ conn[c] = "backlog" /\ main = "accept" /\ main' # "dead"
             /\ conn' = [conn EXCEPT ![c] = "held"]
      BY <1>1 DEF Accept
<1>3. CASE Die /\ UNCHANGED socket /\ main \in Constructing
      BY <1>0, <1>3 DEF Die, Constructing
<1>2. CASE AcceptFails \/ SetProperty \/ HandlerConf \/ HandlerFile \/ CheckFile \/ AppendLog
  <2>1. \/ UNCHANGED conn
        \/ Die /\ UNCHANGED socket /\ main \in Constructing
        BY <1>2, LoadThrowsDies DEF AcceptFails, SetProperty, HandlerConf, HandlerFile, CheckFile,
                                    AppendLog, Constructing
  <2> QED BY <1>3, <2>1
<1>4. CASE LogWrite
      BY <1>3, <1>4 DEF LogWrite, Constructing
<1>5. CASE NewParser
  <2>1. UNCHANGED conn \/ (Die /\ UNCHANGED socket /\ main \in Constructing)
        BY <1>5, LoadThrowsDies DEF NewParser, Constructing
  <2> QED BY <1>3, <2>1
<1>6. CASE Execute
      BY <1>0, <1>6 DEF Execute, Constructing, Typed, WorkerHasSocket
<1> QED BY <1>1, <1>2, <1>4, <1>5, <1>6 DEF Main

LEMMA TakeMoves ==
    ASSUME Typed, Ownership, Take
    PROVE  \E c \in Conns : conn[c] = "queued" /\ conn' = [conn EXCEPT ![c] = "read"]
<1>1. queue \in Seq(Conns) /\ queue # <<>> /\ Head(queue) \in Elements(queue)
      BY DEF Typed, TypeOK, Take, Elements
<1> QED BY <1>1 DEF Ownership, In, Take

LEMMA BusyFinite == IsFiniteSet(Busy) /\ Cardinality(Busy) \in Nat
<1>1. IsFiniteSet(Conns)
      BY ServerAssumption DEF ServerAssumption
<1>2. Busy \subseteq Conns
      BY DEF Busy, In
<1> QED BY <1>1, <1>2, FS_Subset, FS_CardinalityType

LEMMA PoolBoundInit == Init => PoolBound
<1> SUFFICES ASSUME Init PROVE PoolBound
      OBVIOUS
<1>1. Busy = {}
      BY DEF Init, Busy, In, Serving
<1> QED BY <1>1, FS_EmptySet, ServerAssumption DEF PoolBound, ServerAssumption

LEMMA PoolBoundStep ==
    ASSUME Typed, Ownership, PoolBound, [Next]_vars
    PROVE  PoolBound'
<1>0. conn \in [Conns -> {"none", "backlog", "closed", "finalized"} \cup OpenSocket]
      BY DEF Typed, TypeOK
<1>1. PoolSize \in Nat
      BY ServerAssumption DEF ServerAssumption
<1>2. ASSUME Busy' \subseteq Busy PROVE PoolBound'
  <2>1. Cardinality(Busy') <= Cardinality(Busy) /\ Cardinality(Busy') \in Nat
        BY <1>2, BusyFinite, FS_Subset, FS_CardinalityType
  <2> QED BY <1>1, <2>1, BusyFinite DEF PoolBound
<1>3. ASSUME UNCHANGED conn PROVE PoolBound'
      BY <1>2, <1>3 DEF Busy, In
<1>4. CASE Main
      BY <1>0, <1>2, <1>3, <1>4, MainMoves DEF Busy, In, Serving
<1>5. CASE Take
  <2>1. PICK c \in Conns : conn' = [conn EXCEPT ![c] = "read"]
        BY <1>5, TakeMoves
  <2>2. Busy' = Busy \cup {c}
        BY <1>0, <2>1 DEF Busy, In, Serving
  <2>3. Cardinality(Busy') <= Cardinality(Busy) + 1
        BY <2>2, BusyFinite, FS_AddElement
  <2>4. Cardinality(Busy') \in Nat
        BY <2>2, BusyFinite, FS_AddElement
  <2> QED BY <1>1, <1>5, <2>3, <2>4, BusyFinite DEF PoolBound, Take
<1>6. CASE Next /\ ~Main /\ ~Take
  <2>1. UNCHANGED conn \/ \E c \in Conns : Moves(c)
        BY <1>6, OtherMoves DEF Next
  <2>2. ASSUME NEW c \in Conns, Moves(c) PROVE Busy' \subseteq Busy
        BY <1>0, <2>2 DEF Moves, Busy, In, Serving
  <2> QED BY <1>2, <1>3, <2>1, <2>2
<1> QED BY <1>3, <1>4, <1>5, <1>6 DEF vars, serverVars

\* No more than PoolSize requests are in service at any moment, although a
\* thread that dies of an exception is replaced while its socket stays open.
THEOREM PoolNeverExceeded == Spec => []PoolBound
<1> QED
      BY PoolBoundInit, TypedInit, TypedStep, OwnershipInit, OwnershipStep, PoolBoundStep, PTL DEF Spec

\* The acceptor cannot take back what it has queued: its death leaves the
\* waiting requests to the pool.
THEOREM QueuedWorkIsIsolated == Spec => QueuedIsSafe
<1> DEFINE Safe == \A c \in Conns : conn[c] = "queued" => conn'[c] \in {"queued", "read"}
<1>1. ASSUME Typed, Ownership, [Next]_vars PROVE Safe
  <2>0. conn \in [Conns -> {"none", "backlog", "closed", "finalized"} \cup OpenSocket]
        BY <1>1 DEF Typed, TypeOK
  <2>1. ASSUME UNCHANGED conn PROVE Safe
        BY <2>1
  <2>2. CASE Main
        BY <1>1, <2>0, <2>1, <2>2, MainMoves
  <2>3. CASE Take
        BY <1>1, <2>0, <2>3, TakeMoves
  <2>4. CASE Next /\ ~Main /\ ~Take
    <3>1. UNCHANGED conn \/ \E c \in Conns : Moves(c)
          BY <2>4, OtherMoves DEF Next
    <3> QED BY <2>0, <2>1, <3>1 DEF Moves, Serving
  <2> QED BY <1>1, <2>1, <2>2, <2>3, <2>4 DEF vars, serverVars
<1> QED
      BY <1>1, TypedInit, TypedStep, OwnershipInit, OwnershipStep, PTL
      DEF Spec, QueuedIsSafe

-----------------------------------------------------------------------------
(* Why a connection is dropped. *)

\* What an excuse is made of can no longer change once the socket is dropped.
LEMMA CauseStep ==
    ASSUME Typed, Ownership, DroppedForCause, [Next]_vars
    PROVE  DroppedForCause'
<1>0. /\ conn \in [Conns -> {"none", "backlog", "closed", "finalized"} \cup OpenSocket]
      /\ answer \in [Conns -> Answers \cup {"none", "thrown"}]
      /\ client \in [Conns -> {"idle", "open", "closed"}]
      BY DEF Typed, TypeOK
<1> DEFINE Cause(c) == \/ answer[c] = "thrown"
                       \/ answer[c] \in Answers /\ client[c] = "closed"
                       \/ main = "dead" /\ socket = c
<1>1. CASE Main
  <2>1. UNCHANGED <<answer, client>>
        BY <1>1 DEF Main, Accept, AcceptFails, SetProperty, HandlerConf, HandlerFile,
                    LogWrite, CheckFile, AppendLog, NewParser, Execute, clientVars
  <2>2. main # "dead"
        BY <1>1 DEF Main, Accept, AcceptFails, SetProperty, HandlerConf, HandlerFile,
                    LogWrite, CheckFile, AppendLog, NewParser, Execute
  <2> QED BY <1>0, <1>1, <2>1, <2>2, MainMoves DEF DroppedForCause, In
<1>2. CASE Take
  <2>1. UNCHANGED <<main, socket, answer, client>>
        BY <1>2 DEF Take, clientVars
  <2> QED BY <1>0, <1>2, <2>1, TakeMoves DEF DroppedForCause, In
<1>3. ASSUME NEW c \in Conns, Worker(c) PROVE DroppedForCause'
  <2>1. UNCHANGED <<main, socket, client>> /\ conn[c] \in Serving
        BY <1>3 DEF Worker, Read, Parse, ReadFile, ReadFileFails, Write, WriteFails,
                    clientVars, Serving
  <2>2. \A d \in Conns \ {c} : answer'[d] = answer[d] /\ conn'[d] = conn[d]
        BY <1>0, <1>3 DEF Worker, Read, Parse, ReadFile, ReadFileFails, Write, WriteFails,
                    Throw, Respond
  <2>3. conn'[c] \in {"abandoned", "finalized"} => Cause(c)'
    <3>1. CASE WriteFails(c)
          BY <1>0, <2>1, <3>1 DEF WriteFails, Typed, AnswerReady, clientVars
    <3>2. CASE Parse(c)
          BY <1>0, <2>1, <3>2 DEF Parse, Throw, Respond
    <3> QED BY <1>0, <1>3, <3>1, <3>2
            DEF Worker, Read, ReadFile, ReadFileFails, Write, Respond
  <2> QED BY <2>1, <2>2, <2>3 DEF DroppedForCause, In
<1>4. ASSUME NEW c \in Conns, Connect(c) \/ Send(c) \/ Hangup(c) \/ FinalizeSocket(c)
      PROVE  DroppedForCause'
  <2>1. UNCHANGED <<main, socket, answer>>
        BY <1>4 DEF Connect, Send, Hangup, FinalizeSocket, serverVars
  <2>2. \A d \in Conns : conn'[d] \in {"abandoned", "finalized"}
                            => /\ conn[d] \in {"abandoned", "finalized"}
                               /\ client[d] = "closed" => client'[d] = "closed"
        BY <1>0, <1>4 DEF Connect, Send, Hangup, FinalizeSocket, serverVars, clientVars
  <2> QED BY <2>1, <2>2 DEF DroppedForCause, In
<1>5. CASE FinalizeStreams \/ UNCHANGED vars
      BY <1>5 DEF FinalizeStreams, vars, serverVars, clientVars, DroppedForCause, In
<1> QED BY <1>1, <1>2, <1>3, <1>4, <1>5 DEF Next

\* A connection is dropped unanswered only when its worker threw, its client
\* left, or the acceptor died with it in hand.
THEOREM DropsAreJustified == Spec => []DroppedForCause
<1>1. Init => DroppedForCause
      BY DEF Init, DroppedForCause, In
<1> QED
      BY <1>1, TypedInit, TypedStep, OwnershipInit, OwnershipStep, CauseStep, PTL DEF Spec

-----------------------------------------------------------------------------
(* Whose answer a client gets. *)

Early == {"none", "backlog", "held", "queued", "read"}
Fits(a, k) == /\ a = "page" => k = "page"
              /\ a = "headless" => k \in ForFiles
              /\ a = "error" => k \in {"error", "refused"}
              /\ a = "garbled" => k \in ForFiles \cup {"directory"}

\* Before the single read() nothing of a connection is known; after it the answer
\* that is built, sent and received fits the request, if all of it was read.
Unread == \A c \in Conns : conn[c] \in Early => got[c] = 0
Truthful ==
    \A c \in Conns :
        got[c] = Segments => /\ conn[c] = "file" => req[c] \in ForFiles
                             /\ Fits(answer[c], req[c])
                             /\ Fits(reply[c], req[c])
Fresh == \A c \in Conns : conn[c] \in Early => answer[c] = "none" /\ reply[c] = "none"

LEMMA FitsNothing == \A k : Fits("none", k) /\ Fits("thrown", k) /\ Fits("lost", k)
BY DEF Fits

LEMMA TruthStep ==
    ASSUME Typed, Ownership, Unread, Truthful, Fresh, [Next]_vars
    PROVE  Unread' /\ Truthful' /\ Fresh'
<1>0. /\ conn \in [Conns -> {"none", "backlog", "closed", "finalized"} \cup OpenSocket]
      /\ answer \in [Conns -> Answers \cup {"none", "thrown"}]
      /\ reply \in [Conns -> Answers \cup {"none", "lost"}]
      /\ got \in [Conns -> 0..Segments] /\ Segments \in Nat \ {0}
      BY ServerAssumption DEF Typed, TypeOK, ServerAssumption
<1>1. ASSUME UNCHANGED <<got, answer, req, reply>>,
             \A c \in Conns : /\ conn'[c] \in Early => conn[c] \in Early
                              /\ conn'[c] = "file" => conn[c] = "file"
      PROVE  Unread' /\ Truthful' /\ Fresh'
      BY <1>1 DEF Unread, Truthful, Fresh
<1>2. CASE Main
  <2>1. UNCHANGED <<got, answer, req, reply>>
        BY <1>2 DEF Main, Accept, AcceptFails, SetProperty, HandlerConf, HandlerFile,
                    LogWrite, CheckFile, AppendLog, NewParser, Execute, clientVars
  <2> QED BY <1>0, <1>1, <1>2, <2>1, MainMoves DEF Early
<1>3. CASE Take
  <2>1. UNCHANGED <<got, answer, req, reply>>
        BY <1>3 DEF Take, clientVars
  <2> QED BY <1>0, <1>1, <1>3, <2>1, TakeMoves DEF Early
<1>4. ASSUME NEW c \in Conns, Connect(c) \/ Send(c) \/ Hangup(c) \/ FinalizeSocket(c)
      PROVE  Unread' /\ Truthful' /\ Fresh'
  <2>1. UNCHANGED <<got, answer, req, reply>>
        BY <1>4 DEF Connect, Send, Hangup, FinalizeSocket, serverVars, clientVars
  <2>2. UNCHANGED conn \/ Moves(c)
        BY <1>4 DEF Connect, Send, Hangup, FinalizeSocket, serverVars, Moves
  <2>3. \A d \in Conns : /\ conn'[d] \in Early => conn[d] \in Early
                         /\ conn'[d] = "file" => conn[d] = "file"
        BY <1>0, <1>4 DEF Connect, Send, Hangup, FinalizeSocket, serverVars, Early
  <2> QED BY <1>1, <2>1, <2>3
<1>5. ASSUME NEW c \in Conns, Worker(c) PROVE Unread' /\ Truthful' /\ Fresh'
  <2>1. /\ UNCHANGED req /\ conn'[c] \notin Early
        /\ \A d \in Conns \ {c} : /\ conn'[d] = conn[d] /\ got'[d] = got[d]
                                  /\ answer'[d] = answer[d] /\ reply'[d] = reply[d]
        BY <1>0, <1>5 DEF Worker, Read, Parse, ReadFile, ReadFileFails, Write, WriteFails,
                    Throw, Respond, clientVars, Early
  <2>2. got'[c] = Segments => /\ conn'[c] = "file" => req[c] \in ForFiles
                              /\ Fits(answer'[c], req[c]) /\ Fits(reply'[c], req[c])
    <3>1. CASE Read(c)
          BY <1>0, <3>1, FitsNothing DEF Read, Fresh, Early, clientVars
    <3>2. CASE Parse(c)
      <4>1. got'[c] = got[c] /\ reply'[c] = reply[c]
            BY <3>2 DEF Parse, clientVars
      <4>2. SUFFICES ASSUME got[c] = Segments
                     PROVE  (conn'[c] = "file" => req[c] \in ForFiles) /\ Fits(answer'[c], req[c])
            BY <4>1 DEF Truthful
      <4>3. Received(c) = {req[c]}
            BY <1>0, <4>2 DEF Received
      <4>4. \/ answer'[c] = "thrown" /\ conn'[c] = "abandoned"
            \/ answer'[c] = "error" /\ req[c] = "error" /\ conn'[c] = "write"
            \/ answer'[c] = "garbled" /\ req[c] \in ForFiles \cup {"directory"} /\ conn'[c] = "write"
            \/ answer'[c] = answer[c] /\ req[c] \in ForFiles
            BY <1>0, <3>2, <4>3 DEF Parse, Throw, Respond
      <4> QED BY <4>2, <4>4, FitsNothing DEF Truthful, Fits
    <3>3. CASE ReadFile(c) \/ ReadFileFails(c)
      <4>1. /\ conn[c] = "file" /\ conn'[c] = "write" /\ got'[c] = got[c] /\ reply'[c] = reply[c]
            BY <1>0, <3>3 DEF ReadFile, ReadFileFails, Respond, clientVars
      <4>2. SUFFICES ASSUME got[c] = Segments PROVE Fits(answer'[c], req[c])
            BY <4>1 DEF Truthful
      <4>3. Received(c) = {req[c]} /\ req[c] \in ForFiles
            BY <1>0, <4>1, <4>2 DEF Received, Truthful
      <4>4. CASE ReadFile(c)
        <5>1. req[c] \in ForFiles /\ answer'[c] = IF req[c] = "page" THEN "page" ELSE "error"
              BY <1>0, <4>3, <4>4 DEF ReadFile, Respond
        <5> QED BY <5>1 DEF Fits, ForFiles
      <4>5. CASE ReadFileFails(c)
        <5>1. answer'[c] = "headless"
              BY <1>0, <4>5 DEF ReadFileFails, Respond
        <5> QED BY <4>3, <5>1 DEF Fits
      <4> QED BY <3>3, <4>4, <4>5
    <3>4. CASE Write(c) \/ WriteFails(c)
      <4>1. /\ conn'[c] \in {"closed", "abandoned"} /\ got'[c] = got[c] /\ answer'[c] = answer[c]
            /\ reply'[c] \in {reply[c], answer[c], "lost"}
            BY <1>0, <3>4 DEF Write, WriteFails, clientVars
      <4> QED BY <4>1, FitsNothing DEF Truthful
    <3> QED BY <1>5, <3>1, <3>2, <3>3, <3>4 DEF Worker
  <2> QED BY <2>1, <2>2 DEF Unread, Truthful, Fresh
<1>6. CASE FinalizeStreams \/ UNCHANGED vars
      BY <1>1, <1>6 DEF FinalizeStreams, vars, serverVars, clientVars
<1> QED BY <1>2, <1>3, <1>4, <1>5, <1>6 DEF Next

\* A client that sent its whole request gets the answer to that request, however
\* many workers share the server, and whatever runs out meanwhile.
THEOREM RepliesFit == Spec => []ReplyAnswersRequest
<1>1. Init => Unread /\ Truthful /\ Fresh
      BY FitsNothing DEF Init, Unread, Truthful, Fresh
<1>2. Truthful => ReplyAnswersRequest
      BY DEF Truthful, Fits, ReplyAnswersRequest
<1> QED
      BY <1>1, <1>2, TypedInit, TypedStep, OwnershipInit, OwnershipStep, TruthStep, PTL DEF Spec

-----------------------------------------------------------------------------
(* What running out of descriptors has to do with it. *)

\* The streams a connection leaves to the collector, besides socket and file.
Streams == Cost - 2

\* How many of them the acceptor's present turn has still to open, at most.
Ahead(m) == CASE m = "setProperty" -> Streams
              [] m = "handlerConf" -> Streams - 1
              [] m = "handlerFile" -> Streams - 2
              [] m = "log"         -> Streams - 3
              [] m = "checkFile"   -> 3
              [] m = "append"      -> 2
              [] m = "parser"      -> 1
              [] OTHER             -> 0

\* The connections whose file was left open when reading it failed.
Headless == {c \in Conns : answer[c] = "headless"}

\* No answer before there is one.
Unanswered == \A c \in Conns : conn[c] \in Early \cup {"parse", "file"} => answer[c] = "none"

Within == leaked + Ahead(main) <= Streams * Turns + Cardinality(Headless)

\* While there are descriptors each part of the server comes to harm only by the
\* failure of its own calls.
AcceptorUnharmed ==
    Faulty \cap {"accept", "log.conf", "malformed"} = {} =>
        /\ main # "dead"
        /\ main \in Constructing => socket # None
        /\ main \in {"handlerConf", "handlerFile", "log"} => logConf
        /\ main \in {"handlerFile", "log"} => logHandler
WorkersUnharmed ==
    "http.conf" \notin Faulty =>
        /\ main = "execute" => parserConf[socket]
        /\ \A c \in Conns : conn[c] \in {"queued", "read", "parse"} => parserConf[c]
FilesUnharmed ==
    \A c \in Conns : got[c] = Segments /\ req[c] \in ForFiles =>
        /\ answer[c] = "garbled" => "page" \in Faulty
        /\ answer[c] = "thrown" => "http.conf" \in Faulty
Unharmed == AcceptorUnharmed /\ WorkersUnharmed /\ FilesUnharmed

Enough == Cost * Turns < FdLimit => Within /\ Unharmed

LEMMA DisjointUnion ==
    ASSUME NEW S, NEW T, IsFiniteSet(S), IsFiniteSet(T), S \cap T = {}
    PROVE  Cardinality(S \cup T) = Cardinality(S) + Cardinality(T)
<1>1. Cardinality(S) \in Nat /\ Cardinality(T) \in Nat
      BY FS_CardinalityType
<1>2. Cardinality(S \cap T) = 0
      BY FS_EmptySet
<1>3. Cardinality(S \cup T) = Cardinality(S) + Cardinality(T) - Cardinality(S \cap T)
      BY FS_Union
<1> QED BY <1>1, <1>2, <1>3

LEMMA Counts ==
    /\ IsFiniteSet(Accepted) /\ Cardinality(Accepted) \in Nat
    /\ IsFiniteSet(Headless) /\ Cardinality(Headless) \in Nat
    /\ \A s : IsFiniteSet(In(s)) /\ Cardinality(In(s)) \in Nat
<1>1. IsFiniteSet(Conns)
      BY ServerAssumption DEF ServerAssumption
<1>2. Accepted \subseteq Conns /\ Headless \subseteq Conns /\ \A s : In(s) \subseteq Conns
      BY DEF Accepted, Headless, In
<1> QED BY <1>1, <1>2, FS_Subset, FS_CardinalityType

LEMMA TurnsCount == Turns \in Nat /\ Cardinality(Accepted) <= Turns
BY Counts DEF Turns

LEMMA Costs == /\ Cost = Streams + 2 /\ Streams \in {4, 6}
               /\ \A m : Ahead(m) \in 0..Streams
BY DEF Cost, Streams, Ahead

\* Who is served costs no more than what is set aside for it.
LEMMA Headroom ==
    ASSUME Typed, Unanswered, Fresh, Within, Cost * Turns < FdLimit
    PROVE  Free > 0
<1> DEFINE open == In(OpenSocket)
           reading == In({"file"})
<1>0. /\ conn \in [Conns -> {"none", "backlog", "closed", "finalized"} \cup OpenSocket]
      /\ leaked \in Nat /\ FdLimit \in Nat
      BY ServerAssumption DEF Typed, TypeOK, ServerAssumption
<1>1. Cardinality(open) <= Cardinality(Accepted)
  <2>1. open \subseteq Accepted
        BY DEF In, OpenSocket, Accepted, Serving
  <2> QED BY <2>1, Counts, FS_Subset
<1>2. Cardinality(reading) + Cardinality(Headless) <= Cardinality(Accepted)
  <2>1. reading \cap Headless = {}
        BY DEF In, Headless, Unanswered
  <2>2. Cardinality(reading \cup Headless) = Cardinality(reading) + Cardinality(Headless)
        BY <2>1, Counts, DisjointUnion
  <2> DEFINE both == reading \cup Headless
  <2>3. both \subseteq Accepted
        BY <1>0 DEF In, Headless, Accepted, Fresh, Early
  <2>4. Cardinality(both) <= Cardinality(Accepted)
    <3> HIDE DEF both
    <3> QED BY <2>3, Counts, FS_Subset
  <2> QED BY <2>2, <2>4
<1>3. leaked <= Streams * Turns + Cardinality(Headless)
      BY <1>0, Counts, TurnsCount, Costs DEF Within
<1>4. /\ Cardinality(open) \in Nat /\ Cardinality(reading) \in Nat
      /\ Cardinality(Accepted) \in Nat /\ Cardinality(Headless) \in Nat
      BY Counts
<1>5. Cardinality(open) + Cardinality(reading) + leaked <= Cost * Turns
  <2> HIDE DEF open, reading
  <2> QED BY <1>0, <1>1, <1>2, <1>3, <1>4, TurnsCount, Costs
<1> QED BY <1>0, <1>4, <1>5, TurnsCount, Costs DEF Free, Used

\* Turns are counted up.
LEMMA TurnsKeep ==
    ASSUME Accepted \subseteq Accepted', NullTurn => NullTurn'
    PROVE  Turns <= Turns' /\ Turns' \in Nat /\ Cardinality(Accepted') \in Nat
<1>1. IsFiniteSet(Accepted') /\ Cardinality(Accepted') \in Nat
  <2>1. IsFiniteSet(Conns) /\ Accepted' \subseteq Conns
        BY ServerAssumption DEF ServerAssumption, Accepted
  <2> QED BY <2>1, FS_Subset, FS_CardinalityType
<1>2. Cardinality(Accepted) <= Cardinality(Accepted')
      BY <1>1, FS_Subset
<1> QED BY <1>1, <1>2, Counts DEF Turns

LEMMA WithinKeeps ==
    ASSUME Typed, leaked' \in Nat, Within, Accepted \subseteq Accepted', NullTurn => NullTurn',
           Headless \subseteq Headless', leaked' + Ahead(main') <= leaked + Ahead(main)
    PROVE  Within'
<1>1. IsFiniteSet(Headless') /\ Cardinality(Headless') \in Nat
  <2>1. IsFiniteSet(Conns) /\ Headless' \subseteq Conns
        BY ServerAssumption DEF ServerAssumption, Headless
  <2> QED BY <2>1, FS_Subset, FS_CardinalityType
<1>2. Cardinality(Headless) <= Cardinality(Headless') /\ Cardinality(Headless) \in Nat
      BY <1>1, FS_Subset, Counts
<1>3. /\ leaked \in Nat /\ Ahead(main) \in Nat /\ Ahead(main') \in Nat
      /\ Streams' = Streams
      BY Costs DEF Typed, TypeOK, Streams, Cost
<1>4. Turns <= Turns' /\ Turns' \in Nat /\ Turns \in Nat
      BY TurnsKeep, TurnsCount
<1>5. Streams * Turns <= Streams * Turns'
  <2>1. Streams = 4 \/ Streams = 6
        BY Costs
  <2> QED BY <1>4, <2>1
<1> QED BY <1>1, <1>2, <1>3, <1>4, <1>5, Costs DEF Within

\* What a call that opens a stream does while there are descriptors.
LEMMA OpensWithFree ==
    ASSUME leaked \in Nat, FdLimit \in Nat, Free > 0
    PROVE  /\ \A call, ok : OpenStream(call, ok) =>
                 leaked' \in {leaked, leaked + 1} /\ (call \notin Faulty => ok)
           /\ LoadThrows => leaked' = leaked + 1 /\ "malformed" \in Faulty
<1>1. Free \in Int
      BY Counts DEF Free, Used
<1>2. ~(Free <= 0)
      BY <1>1
<1> QED BY <1>2 DEF OpenStream, Opened, LoadThrows, Fails

\* A step of the acceptor while there are descriptors.
LEMMA EnoughMain ==
    ASSUME Typed, Ownership, Fresh, Unanswered, Within, Unharmed, Free > 0, Main
    PROVE  Within' /\ Unharmed'
<1>0. /\ conn \in [Conns -> {"none", "backlog", "closed", "finalized"} \cup OpenSocket]
      /\ leaked \in Nat /\ FdLimit \in Nat /\ socket \in Conns \cup {None} /\ None \notin Conns
      /\ parserConf \in [Conns -> BOOLEAN] /\ InfoVisible \in BOOLEAN
      BY ServerAssumption DEF Typed, TypeOK, ServerAssumption
<1>1. /\ UNCHANGED <<got, answer, req>> /\ UNCHANGED Headless
      BY DEF Main, Accept, AcceptFails, SetProperty, HandlerConf, HandlerFile,
             LogWrite, CheckFile, AppendLog, NewParser, Execute, clientVars, Headless
<1>2. main \in Constructing /\ socket # None => socket \in Conns /\ conn[socket] = "held"
      BY <1>0 DEF Ownership, In
<1> DEFINE Opening == SetProperty \/ HandlerConf \/ HandlerFile \/ CheckFile \/ AppendLog \/ NewParser
<1>3. ASSUME Opening
      PROVE  /\ main \in Constructing \ {"log", "execute"} /\ main' \in Constructing \cup {"dead"}
             /\ UNCHANGED conn \/ Die
             /\ leaked' \in {leaked, leaked + 1} /\ UNCHANGED socket
             /\ leaked' + Ahead(main') <= leaked + Ahead(main)
  <2>1. main \in Constructing \ {"log", "execute"} /\ UNCHANGED socket
        BY <1>3 DEF SetProperty, HandlerConf, HandlerFile, CheckFile, AppendLog, NewParser, Constructing
  <2>2. Ahead(main) >= 1
        BY <2>1, Costs DEF Ahead, Constructing
  <2>3. CASE Die
    <3>1. main' = "dead" /\ Ahead(main') = 0
          BY <2>3 DEF Die, Ahead
    <3>2. leaked' \in {leaked, leaked + 1}
          BY <1>0, <1>3, OpensWithFree DEF SetProperty, HandlerConf, HandlerFile, CheckFile,
                                           AppendLog, NewParser
    <3> QED BY <1>0, <2>1, <2>2, <2>3, <3>1, <3>2, Costs
  <2>4. CASE ~Die
    <3>1. UNCHANGED conn /\ main' \in Constructing
          BY <1>3, <2>4, LoadThrowsDies DEF SetProperty, HandlerConf, HandlerFile, CheckFile,
                                            AppendLog, NewParser, Constructing
    <3>2. Ahead(main') < Ahead(main)
      <4>1. \/ main = "setProperty" /\ main' = "handlerConf"
            \/ main = "handlerConf" /\ main' \in {"handlerFile", "log"}
            \/ main = "handlerFile" /\ main' = "log"
            \/ main = "checkFile" /\ main' = "append"
            \/ main = "append" /\ main' = "parser"
            \/ main = "parser" /\ main' = "execute"
            BY <1>3, <2>4, LoadThrowsDies
            DEF SetProperty, HandlerConf, HandlerFile, CheckFile, AppendLog, NewParser
      <4> QED BY <4>1, Costs DEF Ahead
    <3>3. leaked' \in {leaked, leaked + 1}
          BY <1>0, <1>3, <2>4, OpensWithFree, LoadThrowsDies
          DEF SetProperty, HandlerConf, HandlerFile, CheckFile, AppendLog, NewParser
    <3> QED BY <1>0, <2>1, <3>1, <3>2, <3>3, Costs
  <2> QED BY <2>3, <2>4
<1>4. Within'
  <2>1. ASSUME NEW c \in Conns, Accept(c) PROVE Within'
    <3>1. Accepted' = Accepted \cup {c} /\ c \notin Accepted
          BY <1>0, <2>1 DEF Accept, Accepted, In
    <3>2. Cardinality(Accepted') = Cardinality(Accepted) + 1
          BY <3>1, Counts, FS_AddElement
    <3>3. ~NullTurn /\ ~NullTurn'
          BY <1>0, <2>1 DEF Accept, NullTurn
    <3>4. Turns' = Turns + 1
          BY <3>2, <3>3, Counts DEF Turns
    <3>5. Ahead(main) = 0 /\ Ahead(main') = Streams /\ leaked' = leaked
          BY <2>1 DEF Accept, Ahead
    <3>6. Streams' = Streams /\ Headless' = Headless
          BY <1>1 DEF Streams, Cost
    <3> QED BY <1>0, <3>4, <3>5, <3>6, Counts, TurnsCount, Costs DEF Within
  <2>2. CASE AcceptFails
    <3>1. Accepted' = Accepted /\ ~NullTurn /\ NullTurn'
          BY <2>2 DEF AcceptFails, NullTurn, Accepted, In
    <3>2. Turns' = Turns + 1
          BY <3>1, Counts DEF Turns
    <3>3. Ahead(main) = 0 /\ Ahead(main') = Streams /\ leaked' = leaked
          BY <2>2 DEF AcceptFails, Ahead
    <3>4. Streams' = Streams /\ Headless' = Headless
          BY <1>1 DEF Streams, Cost
    <3> QED BY <1>0, <3>2, <3>3, <3>4, Counts, TurnsCount, Costs DEF Within
  <2>3. ASSUME main \in Constructing, main' \in Constructing \cup {"dead"}, UNCHANGED socket,
               UNCHANGED conn \/ Die, leaked' \in Nat,
               leaked' + Ahead(main') <= leaked + Ahead(main)
        PROVE  Within'
    <3>1. Accepted' = Accepted
          BY <1>0, <1>2, <2>3 DEF Die, Accepted, In
    <3>2. NullTurn => NullTurn'
          BY <2>3 DEF NullTurn, Constructing
    <3> QED BY <1>1, <2>3, <3>1, <3>2, WithinKeeps
  <2>4. CASE Opening
        BY <1>0, <1>3, <2>3, <2>4
  <2>5. CASE LogWrite
    <3>1. /\ main = "log" /\ main' \in {"checkFile", "parser", "dead"} /\ UNCHANGED <<socket, leaked>>
          /\ UNCHANGED conn \/ Die
          /\ main' = "checkFile" => InfoVisible
          BY <2>5 DEF LogWrite, Die
    <3>2. Ahead(main') <= Ahead(main)
          BY <1>0, <3>1 DEF Ahead, Streams, Cost
    <3>3. leaked' + Ahead(main') <= leaked + Ahead(main)
          BY <1>0, <3>1, <3>2, Costs
    <3> QED BY <1>0, <2>3, <3>1, <3>3 DEF Constructing
  <2>6. CASE Execute
    <3>1. /\ socket \in Conns /\ socket # None /\ main = "execute" /\ main' = "accept"
          /\ UNCHANGED <<socket, leaked>> /\ conn' = [conn EXCEPT ![socket] = "queued"]
          BY <1>0, <2>6 DEF Execute, Typed, WorkerHasSocket
    <3>2. conn[socket] = "held"
          BY <1>2, <3>1 DEF Constructing
    <3>3. Accepted' = Accepted
          BY <1>0, <3>1, <3>2 DEF Accepted, In
    <3>4. ~NullTurn /\ Ahead(main') = Ahead(main)
          BY <3>1 DEF NullTurn, Ahead
    <3>5. leaked' + Ahead(main') <= leaked + Ahead(main)
          BY <1>0, <3>1, <3>4, Costs
    <3> QED BY <1>0, <1>1, <3>1, <3>3, <3>4, <3>5, WithinKeeps
  <2> QED BY <2>1, <2>2, <2>4, <2>5, <2>6 DEF Main
<1>5. AcceptorUnharmed'
  <2> SUFFICES ASSUME Faulty \cap {"accept", "log.conf", "malformed"} = {}
               PROVE  /\ main' # "dead"
                      /\ main' \in Constructing => socket' # None
                      /\ main' \in {"handlerConf", "handlerFile", "log"} => logConf'
                      /\ main' \in {"handlerFile", "log"} => logHandler'
        BY DEF AcceptorUnharmed
  <2>1. /\ main # "dead"
        /\ main \in Constructing => socket # None
        /\ main \in {"handlerConf", "handlerFile", "log"} => logConf
        /\ main \in {"handlerFile", "log"} => logHandler
        BY DEF Unharmed, AcceptorUnharmed
  <2>2. ASSUME NEW c \in Conns, Accept(c) PROVE socket' # None /\ main' = "setProperty"
        BY <1>0, <2>2 DEF Accept
  <2>3. ~AcceptFails
    <3>1. Free \in Int
          BY <1>0, Counts DEF Free, Used
    <3> QED BY <3>1 DEF AcceptFails, Fails
  <2>4. ~LoadThrows
        BY <1>0, OpensWithFree
  <2>5. CASE SetProperty \/ HandlerConf
    <3>1. \A ok : OpenStream("log.conf", ok) => ok
          BY <1>0, OpensWithFree
    <3>2. CASE SetProperty
          BY <2>1, <2>4, <3>1, <3>2 DEF SetProperty, Constructing
    <3>3. CASE HandlerConf
          BY <2>1, <2>4, <3>1, <3>3 DEF HandlerConf, Constructing
    <3> QED BY <2>5, <3>2, <3>3
  <2>6. CASE HandlerFile \/ CheckFile \/ AppendLog
        BY <2>1, <2>6 DEF HandlerFile, CheckFile, AppendLog, Constructing
  <2>7. CASE LogWrite
        BY <2>1, <2>7 DEF LogWrite, Constructing
  <2>8. CASE NewParser
        BY <2>1, <2>4, <2>8 DEF NewParser, Constructing
  <2>9. CASE Execute
        BY <2>9 DEF Execute, Constructing
  <2> QED BY <2>2, <2>3, <2>5, <2>6, <2>7, <2>8, <2>9 DEF Main
<1>6. WorkersUnharmed'
  <2> SUFFICES ASSUME "http.conf" \notin Faulty
               PROVE  /\ main' = "execute" => parserConf'[socket']
                      /\ \A c \in Conns : conn'[c] \in {"queued", "read", "parse"} => parserConf'[c]
        BY DEF WorkersUnharmed
  <2>1. /\ main = "execute" => parserConf[socket]
        /\ \A c \in Conns : conn[c] \in {"queued", "read", "parse"} => parserConf[c]
        BY DEF Unharmed, WorkersUnharmed
  <2>2. CASE NewParser
    <3>1. CASE Die
      <4>1. main' = "dead" /\ UNCHANGED parserConf
        <5>1. \/ UNCHANGED parserConf \/ main' = "execute"
              BY <2>2, <3>1 DEF NewParser
        <5> QED BY <3>1, <5>1 DEF Die
      <4> QED BY <1>0, <2>1, <3>1, <4>1 DEF Die
    <3>2. CASE ~Die
      <4>1. PICK ok \in BOOLEAN : /\ OpenStream("http.conf", ok)
                                  /\ parserConf' = [parserConf EXCEPT ![socket] = ok]
            BY <2>2, <3>2, LoadThrowsDies DEF NewParser
      <4>2. ok /\ socket # None /\ main = "parser" /\ UNCHANGED <<socket, conn>>
            BY <1>0, <2>2, <3>2, <4>1, OpensWithFree, LoadThrowsDies DEF NewParser
      <4>3. socket \in Conns /\ parserConf' = [parserConf EXCEPT ![socket] = TRUE]
            BY <1>0, <4>1, <4>2, Zenon
      <4> QED BY <1>0, <2>1, <4>2, <4>3
    <3> QED BY <3>1, <3>2
  <2>3. CASE Execute
    <3>1. socket \in Conns /\ main = "execute" /\ main' = "accept" /\ UNCHANGED parserConf
          /\ conn' = [conn EXCEPT ![socket] = "queued"]
          BY <1>0, <2>3 DEF Execute, Typed, WorkerHasSocket
    <3> QED BY <1>0, <2>1, <3>1
  <2>4. CASE ~NewParser /\ ~Execute
    <3>1. UNCHANGED parserConf /\ main' # "execute"
          BY <2>4, LoadThrowsDies DEF Main, Accept, AcceptFails, SetProperty, HandlerConf, HandlerFile,
                                      LogWrite, CheckFile, AppendLog, Die
    <3>2. \A c \in Conns : conn'[c] \in {"queued", "read", "parse"} => conn[c] = conn'[c]
      <4>1. \/ UNCHANGED conn \/ Die
            \/ \E c \in Conns : conn' = [conn EXCEPT ![c] = "held"]
            BY <2>4, LoadThrowsDies DEF Main, Accept, AcceptFails, SetProperty, HandlerConf, HandlerFile,
                                        LogWrite, CheckFile, AppendLog
      <4> QED BY <1>0, <4>1 DEF Die
    <3> QED BY <2>1, <3>1, <3>2
  <2> QED BY <2>2, <2>3, <2>4
<1>7. FilesUnharmed'
      BY <1>1 DEF Unharmed, FilesUnharmed
<1> QED BY <1>4, <1>5, <1>6, <1>7 DEF Unharmed

\* A step of a worker while there are descriptors.
LEMMA EnoughWorker ==
    ASSUME Typed, Ownership, Fresh, Unanswered, Within, Unharmed, Free > 0,
           NEW c \in Conns, Worker(c)
    PROVE  Within' /\ Unharmed'
<1>0. /\ conn \in [Conns -> {"none", "backlog", "closed", "finalized"} \cup OpenSocket]
      /\ answer \in [Conns -> Answers \cup {"none", "thrown"}]
      /\ got \in [Conns -> 0..Segments] /\ Segments \in Nat \ {0} /\ leaked \in Nat
      BY ServerAssumption DEF Typed, TypeOK, ServerAssumption
<1>1. /\ UNCHANGED <<main, socket, logConf, logHandler, parserConf, req>>
      /\ conn[c] \in Serving /\ conn'[c] \in {"parse", "file", "write", "closed", "abandoned"}
      /\ \A d \in Conns \ {c} : conn'[d] = conn[d] /\ got'[d] = got[d] /\ answer'[d] = answer[d]
      BY <1>0 DEF Worker, Read, Parse, ReadFile, ReadFileFails, Write, WriteFails,
                  Throw, Respond, clientVars, Serving
<1>2. Accepted' = Accepted /\ NullTurn' = NullTurn
      BY <1>0, <1>1 DEF Accepted, In, Serving, NullTurn
<1>3. Headless \subseteq Headless'
  <2>1. answer[c] = "headless" => answer'[c] = "headless"
        BY DEF Worker, Read, Parse, ReadFile, ReadFileFails, Write, WriteFails, Unanswered
  <2> QED BY <1>1, <2>1 DEF Headless
<1>4. Within'
  <2>1. CASE leaked' = leaked
    <3>1. leaked' + Ahead(main') <= leaked + Ahead(main)
          BY <1>0, <1>1, <2>1, Costs
    <3> QED BY <1>0, <1>2, <1>3, <2>1, <3>1, WithinKeeps
  <2>2. CASE ReadFileFails(c)
    <3>1. Headless' = Headless \cup {c} /\ c \notin Headless /\ leaked' = leaked + 1
          BY <1>0, <2>2 DEF ReadFileFails, Respond, Headless, Unanswered
    <3>2. Cardinality(Headless') = Cardinality(Headless) + 1
          BY <3>1, Counts, FS_AddElement
    <3>3. Streams' = Streams /\ main' = main /\ Turns' = Turns
          BY <1>1, <1>2 DEF Streams, Cost, Turns
    <3> QED BY <1>0, <3>1, <3>2, <3>3, Counts, TurnsCount, Costs DEF Within
  <2> QED BY <2>1, <2>2 DEF Worker, Read, Parse, ReadFile, Write, WriteFails
<1>5. got'[c] = Segments /\ req[c] \in ForFiles =>
          /\ answer'[c] = "garbled" => "page" \in Faulty
          /\ answer'[c] = "thrown" => "http.conf" \in Faulty
  <2>1. CASE Read(c)
        BY <2>1 DEF Read, Fresh, Early
  <2>2. CASE Parse(c)
    <3>1. SUFFICES ASSUME got[c] = Segments, req[c] \in ForFiles
                   PROVE  /\ answer'[c] = "garbled" => "page" \in Faulty
                          /\ answer'[c] = "thrown" => "http.conf" \in Faulty
          BY <2>2 DEF Parse
    <3>2. Received(c) = {req[c]} /\ req[c] \notin {"error", "directory", "undecodable"}
          BY <1>0, <3>1 DEF Received, ForFiles
    <3>3. parserConf[c] \/ "http.conf" \in Faulty
          BY <2>2 DEF Parse, Unharmed, WorkersUnharmed
    <3>4. FdLimit \in Nat /\ Free \in Int
          BY <1>0, Counts, ServerAssumption DEF Free, Used, ServerAssumption
    <3>5. Fails("page") => "page" \in Faulty
          BY <3>4 DEF Fails
    <3>6. \/ answer'[c] = "thrown" /\ ~parserConf[c]
          \/ answer'[c] = "garbled" /\ Fails("page")
          \/ UNCHANGED answer
          BY <1>0, <2>2, <3>2 DEF Parse, Throw, Respond
    <3> QED BY <3>1, <3>3, <3>5, <3>6 DEF Unharmed, FilesUnharmed
  <2>3. CASE ReadFile(c) \/ ReadFileFails(c)
        BY <1>0, <2>3 DEF ReadFile, ReadFileFails, Respond
  <2>4. CASE Write(c) \/ WriteFails(c)
        BY <2>4 DEF Write, WriteFails, Unharmed, FilesUnharmed
  <2> QED BY <2>1, <2>2, <2>3, <2>4 DEF Worker
<1>6. "http.conf" \notin Faulty /\ conn'[c] \in {"queued", "read", "parse"} => parserConf[c]
      BY <1>0 DEF Worker, Read, Parse, ReadFile, ReadFileFails, Write, WriteFails,
                  Throw, Respond, Unharmed, WorkersUnharmed
<1>7. Unharmed'
  <2>1. AcceptorUnharmed'
        BY <1>1 DEF Unharmed, AcceptorUnharmed
  <2>2. WorkersUnharmed'
        BY <1>1, <1>6 DEF Unharmed, WorkersUnharmed
  <2>3. FilesUnharmed'
        BY <1>1, <1>5 DEF Unharmed, FilesUnharmed
  <2> QED BY <2>1, <2>2, <2>3 DEF Unharmed
<1> QED BY <1>4, <1>7

LEMMA EnoughStep ==
    ASSUME Typed, Ownership, Unread, Truthful, Fresh, Unanswered, Enough, [Next]_vars
    PROVE  Unanswered' /\ Enough'
<1>0. /\ conn \in [Conns -> {"none", "backlog", "closed", "finalized"} \cup OpenSocket]
      /\ answer \in [Conns -> Answers \cup {"none", "thrown"}]
      /\ leaked \in Nat
      BY DEF Typed, TypeOK
<1>1. Unanswered'
  <2>1. CASE Main
    <3>1. UNCHANGED answer
          BY <2>1 DEF Main, Accept, AcceptFails, SetProperty, HandlerConf, HandlerFile,
                      LogWrite, CheckFile, AppendLog, NewParser, Execute
    <3> QED BY <1>0, <2>1, <3>1, MainMoves DEF Unanswered, Early
  <2>2. CASE Take
    <3>1. UNCHANGED answer
          BY <2>2 DEF Take
    <3> QED BY <1>0, <2>2, <3>1, TakeMoves DEF Unanswered, Early
  <2>3. ASSUME NEW c \in Conns, Connect(c) \/ Send(c) \/ Hangup(c) \/ FinalizeSocket(c)
        PROVE  Unanswered'
        BY <1>0, <2>3 DEF Connect, Send, Hangup, FinalizeSocket, serverVars, Unanswered, Early
  <2>4. ASSUME NEW c \in Conns, Worker(c) PROVE Unanswered'
    <3>1. conn'[c] \in {"parse", "file"} => answer'[c] = "none"
          BY <1>0, <2>4 DEF Worker, Read, Parse, ReadFile, ReadFileFails, Write, WriteFails,
                            Throw, Respond, Unanswered, Early
    <3>2. /\ conn'[c] \notin Early
          /\ \A d \in Conns \ {c} : conn'[d] = conn[d] /\ answer'[d] = answer[d]
          BY <1>0, <2>4 DEF Worker, Read, Parse, ReadFile, ReadFileFails, Write, WriteFails,
                            Throw, Respond, Early
    <3> QED BY <3>1, <3>2 DEF Unanswered
  <2>5. CASE FinalizeStreams \/ UNCHANGED vars
        BY <2>5 DEF FinalizeStreams, vars, serverVars, Unanswered
  <2> QED BY <2>1, <2>2, <2>3, <2>4, <2>5 DEF Next
<1>2. Accepted \subseteq Accepted'
  <2>1. \A c \in Conns : conn[c] \notin {"none", "backlog"} => conn'[c] \notin {"none", "backlog"}
    <3>1. CASE Main
          BY <1>0, <3>1, MainMoves
    <3>2. CASE Take
          BY <1>0, <3>2, TakeMoves
    <3>3. ASSUME NEW c \in Conns, Connect(c) \/ Send(c) \/ Hangup(c) \/ FinalizeSocket(c) \/ Worker(c)
          PROVE  \A d \in Conns : conn[d] \notin {"none", "backlog"} => conn'[d] \notin {"none", "backlog"}
          BY <1>0, <3>3 DEF Connect, Send, Hangup, FinalizeSocket, serverVars, Worker, Read, Parse,
                            ReadFile, ReadFileFails, Write, WriteFails, Throw, Respond
    <3>4. CASE FinalizeStreams \/ UNCHANGED vars
          BY <3>4 DEF FinalizeStreams, vars, serverVars
    <3> QED BY <3>1, <3>2, <3>3, <3>4 DEF Next
  <2> QED BY <2>1 DEF Accepted, In
<1>9. NullTurn => NullTurn'
  <2> SUFFICES ASSUME main # "accept", socket = None PROVE main' # "accept" /\ socket' = None
        BY DEF NullTurn
  <2>1. CASE Main
    <3>1. ~Execute
          BY DEF Execute, Typed, WorkerHasSocket
    <3> QED BY <2>1, <3>1, LoadThrowsDies
            DEF Main, Accept, AcceptFails, SetProperty, HandlerConf, HandlerFile,
                LogWrite, CheckFile, AppendLog, NewParser, Die
  <2>2. CASE ~Main
        BY <2>2 DEF Next, Take, FinalizeStreams, Connect, Send, Hangup, FinalizeSocket, Worker,
                    Read, Parse, ReadFile, ReadFileFails, Write, WriteFails, vars, serverVars
  <2> QED BY <2>1, <2>2
<1>3. SUFFICES ASSUME Cost * Turns' < FdLimit PROVE Within' /\ Unharmed'
      BY <1>1 DEF Enough, Cost
<1>4. Within /\ Unharmed /\ Free > 0
  <2>1. Turns <= Turns' /\ Turns' \in Nat
        BY <1>2, <1>9, TurnsKeep
  <2>2. Cost * Turns < FdLimit
    <3>1. Cost = 6 \/ Cost = 8
          BY Costs
    <3>2. Cost * Turns <= Cost * Turns' /\ Cost * Turns' \in Nat
          BY <2>1, <3>1, TurnsCount
    <3>3. Cost * Turns \in Nat
          BY <3>1, TurnsCount
    <3> QED BY <1>3, <3>2, <3>3, ServerAssumption DEF ServerAssumption, Cost
  <2> QED BY <2>2, Headroom DEF Enough
<1>5. CASE Main
      BY <1>4, <1>5, EnoughMain
<1>6. ASSUME NEW c \in Conns, Worker(c) PROVE Within' /\ Unharmed'
      BY <1>4, <1>6, EnoughWorker
<1>7. CASE Take
  <2>1. /\ UNCHANGED <<main, socket, logConf, logHandler, parserConf, got, answer, leaked, req>>
        BY <1>7 DEF Take, clientVars
  <2>2. Headless' = Headless /\ leaked' + Ahead(main') <= leaked + Ahead(main) /\ leaked' \in Nat
        BY <1>0, <2>1, Costs DEF Headless
  <2>3. Within'
        BY <1>2, <1>4, <1>9, <2>2, WithinKeeps
  <2>4. Unharmed'
        BY <1>0, <1>4, <1>7, <2>1, TakeMoves
        DEF Unharmed, AcceptorUnharmed, WorkersUnharmed, FilesUnharmed
  <2> QED BY <2>3, <2>4
<1>8. CASE ~Main /\ ~Take /\ \A c \in Conns : ~Worker(c)
  <2>1. /\ UNCHANGED <<main, socket, logConf, logHandler, parserConf, got, answer, req>>
        /\ leaked' \in Nat /\ leaked' <= leaked
        /\ \A c \in Conns : conn'[c] \in {"queued", "read", "parse"} => conn[c] = conn'[c]
    <3>1. ASSUME NEW c \in Conns, Connect(c) \/ Send(c) \/ Hangup(c) \/ FinalizeSocket(c)
          PROVE  /\ UNCHANGED <<main, socket, logConf, logHandler, parserConf, got, answer, req, leaked>>
                 /\ \A d \in Conns : conn'[d] \in {"queued", "read", "parse"} => conn[d] = conn'[d]
          BY <1>0, <3>1 DEF Connect, Send, Hangup, FinalizeSocket, serverVars, clientVars
    <3>2. CASE FinalizeStreams
          BY <1>0, <3>2 DEF FinalizeStreams, clientVars
    <3>3. CASE UNCHANGED vars
          BY <1>0, <3>3 DEF vars, serverVars, clientVars
    <3> QED BY <1>0, <1>8, <3>1, <3>2, <3>3 DEF Next
  <2>2. Headless' = Headless /\ leaked' + Ahead(main') <= leaked + Ahead(main)
        BY <1>0, <2>1, Costs DEF Headless
  <2>3. Within'
        BY <1>2, <1>4, <1>9, <2>1, <2>2, WithinKeeps
  <2>4. Unharmed'
        BY <1>4, <2>1 DEF Unharmed, AcceptorUnharmed, WorkersUnharmed, FilesUnharmed
  <2> QED BY <2>3, <2>4
<1> QED BY <1>5, <1>6, <1>7, <1>8

\* While there are descriptors for every turn of the accept loop, the acceptor
\* is killed only by accept(), log.conf or a malformed file, a worker loses its
\* configuration only by http.conf, and a file is refused only when opening it
\* fails: one part's failures do no harm to another.
THEOREM HarmIsAttributed == Spec => []HarmHasCause
<1>1. Init => Unread /\ Truthful /\ Fresh /\ Unanswered
      BY FitsNothing DEF Init, Unread, Truthful, Fresh, Unanswered
<1>2. Init => Enough
  <2> SUFFICES ASSUME Init PROVE Within /\ Unharmed
        BY DEF Enough
  <2>1. Ahead(main) = 0 /\ leaked = 0
        BY DEF Init, Ahead
  <2>2. Within
        BY <2>1, Counts, TurnsCount, Costs DEF Within
  <2> QED BY <2>2 DEF Init, Unharmed, AcceptorUnharmed, WorkersUnharmed, FilesUnharmed, Constructing
<1>3. Enough => HarmHasCause
      BY DEF Enough, Unharmed, AcceptorUnharmed, WorkersUnharmed, FilesUnharmed, HarmHasCause, In
<1> QED
      BY <1>1, <1>2, <1>3, TypedInit, TypedStep, OwnershipInit, OwnershipStep, TruthStep,
         EnoughStep, PTL DEF Spec

-----------------------------------------------------------------------------
(* The server implements ConnectionService. *)

LEMMA StageOf ==
    ASSUME NEW s
    PROVE  /\ s = "none" => Stage(s) = "absent"
           /\ s = "backlog" => Stage(s) = "waiting"
           /\ s \in {"held", "queued"} => Stage(s) = "admitted"
           /\ s \in Serving => Stage(s) = "serving"
           /\ s = "closed" => Stage(s) = "answered"
           /\ s \in {"abandoned", "finalized"} => Stage(s) = "dropped"
<1> USE DEF Stage, Serving
<1>1. s = "none" => Stage(s) = "absent"
      OBVIOUS
<1>2. s = "backlog" => Stage(s) = "waiting"
      OBVIOUS
<1>3. s \in {"held", "queued"} => Stage(s) = "admitted"
      OBVIOUS
<1>4. s \in Serving => Stage(s) = "serving"
      OBVIOUS
<1>5. s = "closed" => Stage(s) = "answered"
      OBVIOUS
<1>6. s \in {"abandoned", "finalized"} => Stage(s) = "dropped"
      OBVIOUS
<1> QED BY <1>1, <1>2, <1>3, <1>4, <1>5, <1>6

LEMMA ServiceInit == Init => Service!Init
<1> SUFFICES ASSUME Init PROVE Service!Init
      OBVIOUS
<1>1. \A c \in Conns : Stage(conn[c]) = "absent"
      BY StageOf DEF Init
<1>2. (main # "dead") = TRUE
      BY Zenon DEF Init
<1> QED BY <1>1, <1>2, Zenon DEF Service!Init

\* How a step is seen by the service.
LEMMA ServiceStep ==
    ASSUME Typed, Ownership, PoolBound, [Next]_vars
    PROVE  [Service!Next]_(Service!vars)
<1> DEFINE St == [d \in Conns |-> Stage(conn[d])]
           Up == main # "dead"
<1>0. conn \in [Conns -> {"none", "backlog", "closed", "finalized"} \cup OpenSocket]
      BY DEF Typed, TypeOK
<1>1. ASSUME UNCHANGED conn PROVE St' = St
      BY <1>1
<1>2. ASSUME NEW c \in Conns, NEW s, conn' = [conn EXCEPT ![c] = s]
      PROVE  /\ \A from, to : Stage(conn[c]) = from /\ Stage(s) = to => Service!Move(c, from, to)
             /\ Stage(conn[c]) = Stage(s) => St' = St
  <2>1. St' = [St EXCEPT ![c] = Stage(s)] /\ St[c] = Stage(conn[c])
        BY <1>0, <1>2
  <2> QED BY <2>1 DEF Service!Move
<1>3. CASE Main
  <2>1. CASE UNCHANGED conn
    <3>1. main # "dead"
          BY <1>3 DEF Main, Accept, AcceptFails, SetProperty, HandlerConf, HandlerFile,
                      LogWrite, CheckFile, AppendLog, NewParser, Execute
    <3>2. CASE main' = "dead"
          BY <1>1, <2>1, <3>1, <3>2 DEF Service!Next, Service!Stop
    <3>3. CASE main' # "dead"
          BY <1>1, <2>1, <3>1, <3>3 DEF Service!vars
    <3> QED BY <3>2, <3>3
  <2>2. ASSUME NEW c \in Conns, conn[c] = "backlog", main = "accept", main' # "dead",
               conn' = [conn EXCEPT ![c] = "held"]
        PROVE  Service!Admit(c)
    <3>1. Stage(conn[c]) = "waiting" /\ Stage("held") = "admitted"
          BY <2>2, StageOf
    <3>2. Service!Move(c, "waiting", "admitted")
          BY <1>2, <2>2, <3>1, Zenon
    <3>3. Up /\ UNCHANGED Up
          BY <2>2, Zenon
    <3> QED BY <3>2, <3>3, Zenon DEF Service!Admit
  <2>3. ASSUME NEW c \in Conns, conn[c] = "held", main # "dead", main' # "dead",
               conn' = [conn EXCEPT ![c] = "queued"]
        PROVE  UNCHANGED Service!vars
    <3>1. Stage(conn[c]) = "admitted" /\ Stage("queued") = "admitted"
          BY <2>3, StageOf
    <3>2. St' = St
          BY <1>2, <2>3, <3>1, Zenon
    <3> QED BY <2>3, <3>2 DEF Service!vars
  <2>4. ASSUME NEW c \in Conns, conn[c] = "held", main # "dead", main' = "dead",
               conn' = [conn EXCEPT ![c] = "abandoned"]
        PROVE  Service!Stop
    <3>1. Stage(conn[c]) = "admitted" /\ Stage("abandoned") = "dropped"
          BY <2>4, StageOf
    <3>2. Service!Move(c, "admitted", "dropped")
          BY <1>2, <2>4, <3>1, Zenon
    <3> QED BY <2>4, <3>2 DEF Service!Stop
  <2> QED BY <1>3, <2>1, <2>2, <2>3, <2>4, MainMoves DEF Service!Next
<1>4. CASE Take
  <2>1. PICK c \in Conns : conn[c] = "queued" /\ conn' = [conn EXCEPT ![c] = "read"]
        BY <1>4, TakeMoves
  <2>2. Stage(conn[c]) = "admitted" /\ Stage("read") = "serving"
        BY <2>1, StageOf DEF Serving
  <2>3. Service!At("serving") = Busy
    <3>1. \A d \in Conns : Stage(conn[d]) = "serving" <=> conn[d] \in Serving
          BY <1>0, StageOf DEF OpenSocket
    <3> QED BY <3>1 DEF Service!At, Busy, In
  <2>4. UNCHANGED main /\ Cardinality(Busy) < PoolSize
        BY <1>4 DEF Take
  <2>5. Service!Serve(c)
    <3>1. Service!Move(c, "admitted", "serving")
          BY <1>2, <2>1, <2>2, Zenon
    <3>2. Service!Cardinality(Service!At("serving")) < PoolSize
          BY <2>3, <2>4, Zenon DEF Service!Cardinality, Cardinality
    <3> QED BY <2>4, <3>1, <3>2 DEF Service!Serve
  <2> QED BY <2>5 DEF Service!Next
<1>5. CASE Next /\ ~Main /\ ~Take
  <2>1. UNCHANGED main
        BY <1>5 DEF Next, FinalizeStreams, Connect, Send, Hangup, FinalizeSocket, serverVars,
                    Worker, Read, Parse, ReadFile, ReadFileFails, Write, WriteFails
  <2>2. CASE UNCHANGED conn
        BY <1>1, <2>1, <2>2 DEF Service!vars
  <2>3. ASSUME NEW c \in Conns, conn[c] = "none", conn' = [conn EXCEPT ![c] = "backlog"]
        PROVE  Service!Arrive(c)
    <3>1. Stage(conn[c]) = "absent" /\ Stage("backlog") = "waiting"
          BY <2>3, StageOf
    <3>2. Service!Move(c, "absent", "waiting")
          BY <1>2, <2>3, <3>1, Zenon
    <3> QED BY <2>1, <3>2 DEF Service!Arrive
  <2>4. ASSUME NEW c \in Conns, NEW s \in {"closed", "abandoned"}, conn[c] \in Serving,
               conn' = [conn EXCEPT ![c] = s]
        PROVE  Service!Finish(c)
    <3>1. Stage(conn[c]) = "serving" /\ Stage(s) \in {"answered", "dropped"}
          BY <2>4, StageOf
    <3>2. Service!Move(c, "serving", Stage(s))
          BY <1>2, <2>4, <3>1, Zenon
    <3> QED BY <2>1, <3>1, <3>2 DEF Service!Finish
  <2>5. ASSUME NEW c \in Conns, NEW s \in Serving, conn[c] \in Serving,
               conn' = [conn EXCEPT ![c] = s]
        PROVE  UNCHANGED Service!vars
    <3>1. Stage(conn[c]) = "serving" /\ Stage(s) = "serving"
          BY <2>5, StageOf
    <3>2. St' = St
          BY <1>2, <2>5, <3>1, Zenon
    <3> QED BY <2>1, <3>2 DEF Service!vars
  <2>6. ASSUME NEW c \in Conns, conn[c] = "abandoned", conn' = [conn EXCEPT ![c] = "finalized"]
        PROVE  UNCHANGED Service!vars
    <3>1. Stage(conn[c]) = "dropped" /\ Stage("finalized") = "dropped"
          BY <2>6, StageOf
    <3>2. St' = St
          BY <1>2, <2>6, <3>1, Zenon
    <3> QED BY <2>1, <3>2 DEF Service!vars
  <2>7. ASSUME NEW c \in Conns, Moves(c) PROVE [Service!Next]_(Service!vars)
        BY <2>3, <2>4, <2>5, <2>6, <2>7 DEF Moves, Service!Next, Serving
  <2> QED BY <1>5, <2>2, <2>7, OtherMoves DEF Next
<1>6. CASE UNCHANGED vars
      BY <1>1, <1>6 DEF vars, serverVars, Service!vars
<1> QED BY <1>3, <1>4, <1>5, <1>6

\* Every behaviour of the server is one of the service: admitted in the end
\* means served or dropped, at most PoolSize at a time, and nothing is
\* admitted after the acceptor stopped.
THEOREM ServerRefinesService == Spec => ServiceSteps
<1> QED
      BY PoolBoundInit, TypedInit, TypedStep, OwnershipInit, OwnershipStep, PoolBoundStep,
         ServiceInit, ServiceStep, PTL DEF Spec, ServiceSteps

=============================================================================
