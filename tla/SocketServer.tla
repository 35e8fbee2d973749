---------------------------- MODULE SocketServer ----------------------------
(***************************************************************************)
(* The life of a connection in the HTTP server: the accept loop of         *)
(* SocketServer, which also runs the constructor of HTTPServiceWorker (and *)
(* with it all of the logging), the fixed thread pool, the three calls of  *)
(* HTTPServiceWorker.run (read, parse, write) and the file descriptors     *)
(* that all of these share.  Every stream the server opens on a            *)
(* configuration or log file is left for the garbage collector to close,   *)
(* and every open fails when the process has no descriptor left, or for a  *)
(* reason of its own; what each failure does to the threads is what this   *)
(* module is about.                                                        *)
(***************************************************************************)
EXTENDS Integers, Sequences, FiniteSets

CONSTANTS Conns,       \* the connections clients may open, each at most once
          PoolSize,    \* the threads of Executors.newFixedThreadPool(5)
          FdLimit,     \* descriptors left to connections and files
          Segments,    \* TCP segments one request arrives in
          Requests,    \* the kinds of request the clients send
          Faulty,      \* the calls that may fail with descriptors to spare
          InfoVisible, \* visible_log_level of log.conf lets INFO through
          None         \* no socket

(***************************************************************************)
(* What the bytes of a request make parseHTTPHeader do: open a regular     *)
(* file and answer with 200, open one and then refuse the method or the    *)
(* parameters, try to open a directory, answer without touching a file, or *)
(* throw an exception it does not catch (URLDecoder on a bad escape).      *)
(***************************************************************************)
RequestKinds == {"page", "refused", "directory", "error", "undecodable"}
ForFiles == {"page", "refused"}

(***************************************************************************)
(* What can go wrong besides the want of a descriptor: accept() throws an  *)
(* IOException, a file is missing or may not be read or written, reading   *)
(* or writing it fails; "malformed" is a configuration file that is read   *)
(* but whose content makes an exception other than IOException (a bad \u   *)
(* escape, a log.conf without log_file_path).                              *)
(***************************************************************************)
Calls == {"accept", "log.conf", "log file", "http.conf", "malformed", "page"}

ASSUME ServerAssumption ==
    /\ IsFiniteSet(Conns)
    /\ None \notin Conns
    /\ PoolSize \in Nat \ {0}
    /\ FdLimit \in Nat
    /\ Segments \in Nat \ {0}
    /\ Requests \subseteq RequestKinds
    /\ Faulty \subseteq Calls
    /\ InfoVisible \in BOOLEAN

\* "garbled": the status line is a FileNotFoundException's message.
\* "headless": the 200 head that is left when reading the file fails.
Answers == {"page", "error", "garbled", "headless"}

VARIABLES
    main,       \* the next call of the accept loop; "dead" after an uncaught exception
    socket,     \* the field SocketServer.socket
    logConf,    \* Logger.loader holds the properties of log.conf
    logHandler, \* Logger.handler knows its logFilePath
    conn,       \* what the server is doing with each connection
    queue,      \* the work queue of the thread pool
    parserConf, \* the worker's parser read http.conf
    got,        \* segments the single read() of the worker returned
    answer,     \* the response parseHTTPHeader built, "thrown" if it threw
    leaked,     \* descriptors of unreachable streams not yet finalized
    client,     \* the client's end of the connection
    req,        \* the kind of request the client sends
    sent,       \* segments the client has sent
    reply       \* what the client got back

serverVars == <<main, socket, logConf, logHandler, conn, queue, parserConf,
                got, answer, leaked>>
clientVars == <<client, req, sent, reply>>
vars == <<serverVars, clientVars>>

\* The calls of one turn of the loop after accept(), in their order.
Constructing == {"setProperty", "handlerConf", "handlerFile", "log",
                 "checkFile", "append", "parser", "execute"}
Serving == {"read", "parse", "file", "write"}
OpenSocket == {"held", "queued", "abandoned"} \cup Serving

TypeOK ==
    /\ main \in {"accept", "dead"} \cup Constructing
    /\ socket \in Conns \cup {None}
    /\ logConf \in BOOLEAN /\ logHandler \in BOOLEAN
    /\ conn \in [Conns -> {"none", "backlog", "closed", "finalized"} \cup OpenSocket]
    /\ queue \in Seq(Conns)
    /\ parserConf \in [Conns -> BOOLEAN]
    /\ got \in [Conns -> 0..Segments]
    /\ answer \in [Conns -> Answers \cup {"none", "thrown"}]
    /\ leaked \in Nat
    /\ client \in [Conns -> {"idle", "open", "closed"}]
    /\ req \in [Conns -> Requests]
    /\ sent \in [Conns -> 0..Segments]
    /\ reply \in [Conns -> Answers \cup {"none", "lost"}]

-----------------------------------------------------------------------------
In(states) == {c \in Conns : conn[c] \in states}
Busy == In(Serving)

\* Descriptors in use: sockets, files being read, streams nobody closed.
Used == Cardinality(In(OpenSocket)) + Cardinality(In({"file"})) + leaked
Free == FdLimit - Used

Fails(call) == Free <= 0 \/ call \in Faulty

\* A stream is opened and dropped: it keeps its descriptor.
Opened == Free > 0 /\ leaked' = leaked + 1

\* ok: the call opens its stream and is done with it; otherwise opening fails,
\* or what comes after it.
OpenStream(call, ok) ==
    IF ok THEN Opened ELSE Fails(call) /\ (Opened \/ UNCHANGED leaked)

-----------------------------------------------------------------------------
Init ==
    /\ main = "accept" /\ socket = None
    /\ logConf = FALSE /\ logHandler = FALSE
    /\ conn = [c \in Conns |-> "none"]
    /\ queue = <<>>
    /\ parserConf = [c \in Conns |-> FALSE]
    /\ got = [c \in Conns |-> 0]
    /\ answer = [c \in Conns |-> "none"]
    /\ leaked = 0
    /\ client = [c \in Conns |-> "idle"]
    /\ req \in [Conns -> Requests]
    /\ sent = [c \in Conns |-> 0]
    /\ reply = [c \in Conns |-> "none"]

-----------------------------------------------------------------------------
(* The clients and the kernel's listen queue. *)

Connect(c) ==
    /\ conn[c] = "none"
    /\ client' = [client EXCEPT ![c] = "open"]
    /\ conn' = [conn EXCEPT ![c] = "backlog"]
    /\ UNCHANGED <<main, socket, logConf, logHandler, queue, parserConf, got,
                   answer, leaked, req, sent, reply>>

Send(c) ==
    /\ client[c] = "open"
    /\ sent[c] < Segments
    /\ sent' = [sent EXCEPT ![c] = @ + 1]
    /\ UNCHANGED <<serverVars, client, req, reply>>

\* The client closes or resets its end, at any moment.
Hangup(c) ==
    /\ client[c] = "open"
    /\ client' = [client EXCEPT ![c] = "closed"]
    /\ UNCHANGED <<serverVars, req, sent, reply>>

-----------------------------------------------------------------------------
(* The accept loop.  process() runs inside the constructor of SocketServer, *)
(* which catches IOException only: any other exception ends the thread.     *)

\* Mutation of Die: the dying acceptor takes the queued work with it (shutdownNow).
DieShuttingDown ==
    /\ main' = "dead"
    /\ conn' = [c \in Conns |-> IF c = socket \/ conn[c] = "queued" THEN "abandoned" ELSE conn[c]]

\* Mutation of Die: the loop catches the exception, forgets the socket and goes on.
DieCaught == main' = "accept" /\ UNCHANGED conn

\* The exception leaves process(): the socket it was working on stays open.
Die ==
    /\ main' = "dead"
    /\ conn' = IF socket = None THEN conn
               ELSE [conn EXCEPT ![socket] = "abandoned"]

\* A configuration file can be read but not used.
LoadThrows == "malformed" \in Faulty /\ Opened /\ Die

Accept(c) ==
    /\ main = "accept"
    /\ conn[c] = "backlog"
    /\ Free > 0
    /\ socket' = c
    /\ conn' = [conn EXCEPT ![c] = "held"]
    /\ main' = "setProperty"
    /\ UNCHANGED <<logConf, logHandler, queue, parserConf, got, answer, leaked,
                   clientVars>>

\* accept() catches every IOException (no descriptor for the new socket among
\* them) and returns null, and the loop goes on with it.
AcceptFails ==
    /\ main = "accept"
    /\ In({"backlog"}) # {}
    /\ Fails("accept")
    /\ socket' = None
    /\ main' = "setProperty"
    /\ UNCHANGED <<logConf, logHandler, conn, queue, parserConf, got, answer,
                   leaked, clientVars>>

\* log.setProperty: a new, empty loader; loading log.conf into it may fail.
SetProperty ==
    /\ main = "setProperty"
    /\ \/ \E ok \in BOOLEAN :
             /\ OpenStream("log.conf", ok)
             /\ logConf' = ok
             /\ main' = "handlerConf"
             /\ UNCHANGED conn
       \/ LoadThrows /\ logConf' = FALSE
    /\ UNCHANGED <<socket, logHandler, queue, parserConf, got, answer, clientVars>>

\* new LogFileHandler(log_conf_path) reads log.conf; when that fails the new
\* handler has no logFilePath and isExistFile is not reached.
HandlerConf ==
    /\ main = "handlerConf"
    /\ \/ \E ok \in BOOLEAN :
             /\ OpenStream("log.conf", ok)
             /\ logHandler' = ok
             /\ main' = IF ok THEN "handlerFile" ELSE "log"
             /\ UNCHANGED conn
       \/ LoadThrows /\ UNCHANGED logHandler
    /\ UNCHANGED <<socket, logConf, queue, parserConf, got, answer, clientVars>>

\* Mutation of HandlerFile: the constructor does not catch the IOException of
\* the log file.
HandlerFileThrows ==
    /\ main = "handlerFile"
    /\ \E ok \in BOOLEAN :
          /\ OpenStream("log file", ok)
          /\ IF ok THEN main' = "log" /\ UNCHANGED conn ELSE Die
    /\ UNCHANGED <<socket, logConf, logHandler, queue, parserConf, got, answer, clientVars>>

\* isExistFile opens the log file and does nothing with it; a failure is caught.
HandlerFile ==
    /\ main = "handlerFile"
    /\ \E ok \in BOOLEAN : OpenStream("log file", ok)
    /\ main' = "log"
    /\ UNCHANGED <<socket, logConf, logHandler, conn, queue, parserConf, got,
                   answer, clientVars>>

\* log.write(INFO, "Connect!"): an empty loader or a handler without a
\* logFilePath is a NullPointerException.
LogWrite ==
    /\ main = "log"
    /\ IF logConf /\ (InfoVisible => logHandler)
       THEN /\ main' = IF InfoVisible THEN "checkFile" ELSE "parser"
            /\ UNCHANGED conn
       ELSE Die
    /\ UNCHANGED <<socket, logConf, logHandler, queue, parserConf, got, answer,
                   leaked, clientVars>>

\* LogFileHandler.append: isExistFile opens the log file, ...
CheckFile ==
    /\ main = "checkFile"
    /\ \E ok \in BOOLEAN : OpenStream("log file", ok)
    /\ main' = "append"
    /\ UNCHANGED <<socket, logConf, logHandler, conn, queue, parserConf, got,
                   answer, clientVars>>

\* ... append opens it once more; a failure loses the message only.
AppendLog ==
    /\ main = "append"
    /\ \E ok \in BOOLEAN : OpenStream("log file", ok)
    /\ main' = "parser"
    /\ UNCHANGED <<socket, logConf, logHandler, conn, queue, parserConf, got,
                   answer, clientVars>>

\* socket.getInputStream() on the null socket, or the parser's constructor.
NewParser ==
    /\ main = "parser"
    /\ IF socket = None
       THEN Die /\ UNCHANGED <<parserConf, leaked>>
       ELSE \/ \E ok \in BOOLEAN :
                  /\ OpenStream("http.conf", ok)
                  /\ parserConf' = [parserConf EXCEPT ![socket] = ok]
                  /\ main' = "execute"
                  /\ UNCHANGED conn
            \/ LoadThrows /\ UNCHANGED parserConf
    /\ UNCHANGED <<socket, logConf, logHandler, queue, got, answer, clientVars>>

\* Mutation of Execute: the loop ends after one connection.
ExecuteOnce ==
    /\ main = "execute"
    /\ queue' = Append(queue, socket)
    /\ conn' = [conn EXCEPT ![socket] = "queued"]
    /\ main' = "returned"
    /\ UNCHANGED <<socket, logConf, logHandler, parserConf, got, answer, leaked,
                   clientVars>>

Execute ==
    /\ main = "execute"
    /\ queue' = Append(queue, socket)
    /\ conn' = [conn EXCEPT ![socket] = "queued"]
    /\ main' = "accept"
    /\ UNCHANGED <<socket, logConf, logHandler, parserConf, got, answer, leaked,
                   clientVars>>

Main == \/ \E c \in Conns : Accept(c)
        \/ AcceptFails \/ SetProperty \/ HandlerConf \/ HandlerFile
        \/ LogWrite \/ CheckFile \/ AppendLog \/ NewParser \/ Execute

-----------------------------------------------------------------------------
(* The pool: HTTPServiceWorker.run on one of PoolSize threads. *)

\* Mutation of Take: a thread for every connection.
TakeUnbounded ==
    /\ queue # <<>>
    /\ conn' = [conn EXCEPT ![Head(queue)] = "read"]
    /\ queue' = Tail(queue)
    /\ UNCHANGED <<main, socket, logConf, logHandler, parserConf, got, answer,
                   leaked, clientVars>>

\* Mutation of Take: a thread that ended with an exception is not replaced.
TakeUnreplaced ==
    /\ queue # <<>>
    /\ Cardinality(Busy \cup {c \in Conns : answer[c] = "thrown"}) < PoolSize
    /\ conn' = [conn EXCEPT ![Head(queue)] = "read"]
    /\ queue' = Tail(queue)
    /\ UNCHANGED <<main, socket, logConf, logHandler, parserConf, got, answer,
                   leaked, clientVars>>

Take ==
    /\ queue # <<>>
    /\ Cardinality(Busy) < PoolSize
    /\ conn' = [conn EXCEPT ![Head(queue)] = "read"]
    /\ queue' = Tail(queue)
    /\ UNCHANGED <<main, socket, logConf, logHandler, parserConf, got, answer,
                   leaked, clientVars>>

\* One read() of whatever has arrived; end of stream and a reset both leave
\* the buffer empty.  There is no timeout: a silent client holds the thread.
Read(c) ==
    /\ conn[c] = "read"
    /\ \E n \in 0..sent[c] :
          /\ n = 0 => client[c] = "closed"
          /\ got' = [got EXCEPT ![c] = n]
    /\ conn' = [conn EXCEPT ![c] = "parse"]
    /\ UNCHANGED <<main, socket, logConf, logHandler, queue, parserConf, answer,
                   leaked, clientVars>>

\* Mutation of Received: one buffer for all workers.
ReceivedShared(c) ==
    IF got[c] = 0 THEN {"error"} ELSE {req[d] : d \in Busy}

\* What the received bytes amount to: nothing is a request without a status
\* line, and a request cut short may be taken for any other.
Received(c) ==
    CASE got[c] = 0 -> {"error"}
      [] got[c] = Segments -> {req[c]}
      [] OTHER -> RequestKinds

\* The pool thread ends with the exception and is replaced; the socket stays open.
Throw(c) ==
    /\ answer' = [answer EXCEPT ![c] = "thrown"]
    /\ conn' = [conn EXCEPT ![c] = "abandoned"]

Respond(c, a) ==
    /\ answer' = [answer EXCEPT ![c] = a]
    /\ conn' = [conn EXCEPT ![c] = "write"]

\* parseHTTPHeader up to the opening of the requested file.
Parse(c) ==
    /\ conn[c] = "parse"
    /\ \E k \in Received(c) :
          \/ (~parserConf[c] \/ k = "undecodable") /\ Throw(c)
          \/ parserConf[c] /\ k = "error" /\ Respond(c, "error")
          \/ /\ parserConf[c]
             /\ k = "directory" \/ (k \in ForFiles /\ Fails("page"))
             /\ Respond(c, "garbled")
          \/ /\ parserConf[c] /\ k \in ForFiles /\ Free > 0
             /\ conn' = [conn EXCEPT ![c] = "file"]
             /\ UNCHANGED answer
    /\ UNCHANGED <<main, socket, logConf, logHandler, queue, parserConf, got,
                   leaked, clientVars>>

\* The file is read before the method and the parameters are looked at.
ReadFile(c) ==
    /\ conn[c] = "file"
    /\ \E k \in Received(c) \cap ForFiles : Respond(c, IF k = "page" THEN "page" ELSE "error")
    /\ UNCHANGED <<main, socket, logConf, logHandler, queue, parserConf, got,
                   leaked, clientVars>>

\* read() throws: fis.close() is skipped and the catch clause adds no BODY.
ReadFileFails(c) ==
    /\ conn[c] = "file"
    /\ Respond(c, "headless")
    /\ leaked' = leaked + 1
    /\ UNCHANGED <<main, socket, logConf, logHandler, queue, parserConf, got,
                   clientVars>>

\* Mutation of Write: flush without close, as writeConsol does.
WriteWithoutClose(c) ==
    /\ conn[c] = "write"
    /\ conn' = [conn EXCEPT ![c] = "abandoned"]
    /\ reply' = [reply EXCEPT ![c] = IF client[c] = "open" THEN answer[c] ELSE @]
    /\ UNCHANGED <<main, socket, logConf, logHandler, queue, parserConf, got,
                   answer, leaked, client, req, sent>>

\* Mutation of Write: the worker closes the socket in the server's field.
WriteClosesField(c) ==
    /\ conn[c] = "write"
    /\ conn' = [d \in Conns |-> IF d = socket THEN "closed" ELSE conn[d]]
    /\ UNCHANGED <<main, socket, logConf, logHandler, queue, parserConf, got,
                   answer, leaked, clientVars>>

\* write, flush and close.  Request bytes the single read() did not take, now
\* or later, reset the connection, which may cost the client the response.
Write(c) ==
    /\ conn[c] = "write"
    /\ conn' = [conn EXCEPT ![c] = "closed"]
    /\ \/ client[c] = "open" /\ reply' = [reply EXCEPT ![c] = answer[c]]
       \/ client[c] = "open" /\ got[c] < Segments /\ reply' = [reply EXCEPT ![c] = "lost"]
       \/ client[c] = "closed" /\ UNCHANGED reply
    /\ UNCHANGED <<main, socket, logConf, logHandler, queue, parserConf, got,
                   answer, leaked, client, req, sent>>

\* write throws SocketException: close() is never reached.
WriteFails(c) ==
    /\ conn[c] = "write"
    /\ client[c] = "closed"
    /\ conn' = [conn EXCEPT ![c] = "abandoned"]
    /\ UNCHANGED <<main, socket, logConf, logHandler, queue, parserConf, got,
                   answer, leaked, clientVars>>

Worker(c) == Read(c) \/ Parse(c) \/ ReadFile(c) \/ ReadFileFails(c)
             \/ Write(c) \/ WriteFails(c)

-----------------------------------------------------------------------------
(* The garbage collector: finalizers close what is unreachable, some day.  *)

\* Mutation of FinalizeStreams: a descriptor is closed twice.
FinalizeStreamsTwice ==
    /\ leaked > 0
    /\ leaked' = leaked - 2
    /\ UNCHANGED <<main, socket, logConf, logHandler, conn, queue, parserConf,
                   got, answer, clientVars>>

FinalizeStreams ==
    /\ leaked > 0
    /\ leaked' = leaked - 1
    /\ UNCHANGED <<main, socket, logConf, logHandler, conn, queue, parserConf,
                   got, answer, clientVars>>

\* The field SocketServer.socket keeps the last socket reachable as long as
\* the accept loop or a worker (through its field server) lives.
ServerReachable == main # "dead" \/ In({"queued"} \cup Serving) # {}

FinalizeSocket(c) ==
    /\ conn[c] = "abandoned"
    /\ socket = c => ~ServerReachable
    /\ conn' = [conn EXCEPT ![c] = "finalized"]
    /\ UNCHANGED <<main, socket, logConf, logHandler, queue, parserConf, got,
                   answer, leaked, clientVars>>

-----------------------------------------------------------------------------
Next ==
    \/ Main \/ Take \/ FinalizeStreams
    \/ \E c \in Conns : \/ Connect(c) \/ Send(c) \/ Hangup(c)
                        \/ Worker(c) \/ FinalizeSocket(c)

(***************************************************************************)
(* A thread that can take a step eventually does; nothing is assumed of    *)
(* the collector.  ClientFairness is an assumption on the environment: a   *)
(* client sends or hangs up in the end.                                    *)
(***************************************************************************)
ThreadFairness == WF_vars(Main) /\ WF_vars(Take) /\ \A c \in Conns : WF_vars(Worker(c))
ClientFairness == \A c \in Conns : WF_vars(Send(c) \/ Hangup(c))

Spec == Init /\ [][Next]_vars /\ ThreadFairness /\ ClientFairness

-----------------------------------------------------------------------------
(* Safety. *)

Elements(q) == {q[i] : i \in 1..Len(q)}
Distinct(q) == \A i, j \in 1..Len(q) : q[i] = q[j] => i = j

\* The acceptor, the queue and the pool divide the accepted connections among
\* them: each is in exactly one place, in the queue once, and the acceptor
\* holds one only while it constructs its worker.
Ownership ==
    /\ Elements(queue) = In({"queued"})
    /\ Distinct(queue)
    /\ In({"held"}) = IF main \in Constructing /\ socket # None THEN {socket} ELSE {}

\* newFixedThreadPool(5): no more than PoolSize requests are ever in service,
\* whatever becomes of the threads that serve them.
PoolBound == Cardinality(Busy) <= PoolSize

\* A turn of the loop costs a socket, the streams left to the collector
\* (setProperty, handlerConf, handlerFile, checkFile, append, parser) and the
\* requested file.
Cost == IF InfoVisible THEN 8 ELSE 6
Accepted == Conns \ In({"none", "backlog"})

\* The turns so far: one for each connection, and one on the null socket of a
\* failed accept().
NullTurn == main # "accept" /\ socket = None
Turns == Cardinality(Accepted) + (IF NullTurn THEN 1 ELSE 0)

\* With descriptors for all the turns so far, and the collector never running,
\* every harm has a cause of its own kind: the acceptor is dead only where
\* accept() or log.conf fail or a configuration file is malformed (a log file
\* that cannot be written and an http.conf that cannot be read never kill
\* it); a worker lacks its configuration, and throws, only where http.conf can
\* fail; a file is refused only where opening it can.
HarmHasCause ==
    Cost * Turns < FdLimit =>
        /\ main = "dead" => Faulty \cap {"accept", "log.conf", "malformed"} # {}
        /\ \A c \in In({"queued", "read", "parse"}) : parserConf[c] \/ "http.conf" \in Faulty
        /\ \A c \in Conns :
              got[c] = Segments /\ req[c] \in ForFiles =>
                  /\ answer[c] = "garbled" => "page" \in Faulty
                  /\ answer[c] = "thrown" => "http.conf" \in Faulty

\* A socket is dropped unanswered for three reasons only: its worker threw,
\* its client had gone before the answer, or the acceptor died holding it.
DroppedForCause ==
    \A c \in In({"abandoned", "finalized"}) :
        \/ answer[c] = "thrown"
        \/ answer[c] \in Answers /\ client[c] = "closed"
        \/ main = "dead" /\ socket = c

\* What a client that sent its whole request gets back is the answer to that
\* request, however many workers share the server's objects; a file that cannot
\* be opened is answered by the garbled status line.
ReplyAnswersRequest ==
    \A c \in Conns :
        got[c] = Segments =>
            /\ reply[c] = "page" => req[c] = "page"
            /\ reply[c] = "headless" => req[c] \in ForFiles
            /\ reply[c] = "error" => req[c] \in {"error", "refused"}
            /\ reply[c] = "garbled" => req[c] \in ForFiles \cup {"directory"}

-----------------------------------------------------------------------------
(* Action properties. *)

\* Once its worker is queued a connection is out of the acceptor's reach: no
\* step of the accept loop, its death included, touches it again.
QueuedIsSafe ==
    [][\A c \in Conns : conn[c] = "queued" => conn'[c] \in {"queued", "read"}]_vars

-----------------------------------------------------------------------------
(* Liveness. *)

\* No queued request waits for ever, even after the acceptor has died or when
\* the workers before it threw: it is served and its socket given up.
QueuedIsServed ==
    \A c \in Conns : conn[c] = "queued" ~> conn[c] \in {"closed", "abandoned", "finalized"}

\* A connection in the listen queue is accepted, unless the acceptor dies.
BacklogIsAccepted ==
    \A c \in Conns : conn[c] = "backlog" ~> (conn[c] # "backlog" \/ main = "dead")

-----------------------------------------------------------------------------
(* The server implements ConnectionService. *)

Stage(s) ==
    CASE s = "none" -> "absent"
      [] s = "backlog" -> "waiting"
      [] s \in {"held", "queued"} -> "admitted"
      [] s \in Serving -> "serving"
      [] s = "closed" -> "answered"
      [] OTHER -> "dropped"

Service == INSTANCE ConnectionService
               WITH up <- main # "dead", stage <- [c \in Conns |-> Stage(conn[c])]

\* Every step of the server is a step of the service, or none.
ServiceSteps == Service!Init /\ [][Service!Next]_(Service!vars)

\* The whole program keeps the promise, its liveness included.
ImplementsService == Service!Spec

=============================================================================
