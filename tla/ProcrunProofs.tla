--------------------------- MODULE ProcrunProofs ---------------------------
(***************************************************************************)
(* What holds of the Windows service for any number of stop threads and    *)
(* console events and every configuration: its type, and what the service  *)
(* control manager is told of its progress and its end.                    *)
(***************************************************************************)
EXTENDS Procrun, FiniteSetTheorems, TLAPS

LEMMA ThreadsDiffer ==
    /\ "main" \notin StopThreads /\ "disp" \notin StopThreads /\ "exit" \notin StopThreads
    /\ "svc" \notin StopThreads /\ "null" \notin StopThreads
    /\ "main" \in Threads /\ "disp" \in Threads /\ "exit" \in Threads /\ "svc" \in Workers
    /\ StopThreads \subseteq Threads /\ StopThreads \subseteq Workers
    /\ ScmStops \subseteq StopThreads /\ ConsoleStops \subseteq StopThreads
BY ThreadsAssumption DEF Threads, Workers, StopThreads

-----------------------------------------------------------------------------
(* Types. *)

LEMMA StatusTyped ==
    ASSUME NEW st \in States, NEW x \in Codes
    PROVE  Status(st, x) \in Statuses /\ Status(st, x).state = st
BY DEF Status, Statuses

LEMMA ReportTyped ==
    ASSUME ReportsTyped, NEW t \in Threads, NEW st \in States, NEW x \in Codes,
           Report(t, st, x) \/ silent, UNCHANGED scm
    PROVE  ReportsTyped'
BY StatusTyped DEF ReportsTyped, Report, silent

LEMMA GotoTyped ==
    ASSUME PcTyped, NEW t \in Threads, NEW l, Goto(t, l),
           \/ t = "main" /\ l \in Labels.main
           \/ t = "disp" /\ l \in Labels.disp
           \/ t = "exit" /\ l \in Labels.exit
           \/ t \in StopThreads /\ l \in Labels.stop
    PROVE  PcTyped'
<1>1. pc' = [pc EXCEPT ![t] = l]
    BY DEF Goto
<1> QED
    BY <1>1, ThreadsDiffer DEF PcTyped, Threads

LEMMA InitTyped == Init => TypeOK
<1> SUFFICES ASSUME Init PROVE TypeOK
    OBVIOUS
<1>1. cfg \in Config
    BY ConfigsAssumption DEF Init
<1>2. PcTyped
    <2>1. /\ DOMAIN pc = Threads
          /\ pc["main"] = "modes" /\ pc["disp"] = "loop" /\ pc["exit"] = "idle"
          /\ \A s \in StopThreads : pc[s] = "idle"
        BY ThreadsDiffer DEF Init, Threads
    <2> QED
        BY <2>1 DEF PcTyped, Labels
<1>3. ReportsTyped
    BY DEF Init, ReportsTyped, Status, Statuses, States, Codes, KILLED
<1>4. WorkersTyped
    <2>1. /\ wk \in [Workers -> {"none", "init", "ready", "run", "gone", "done"}]
          /\ code \in [Workers -> Codes] /\ held \subseteq Workers /\ vmExit \in Codes
        BY DEF Init, Codes, KILLED
    <2>2. vm \in {"none", "up", "gone"} /\ app \in BOOLEAN /\ attached \subseteq Workers
        BY DEF Init
    <2> QED
        BY <2>1, <2>2 DEF WorkersTyped
<1>5. RestTyped
    <2>1. cfg \in Configs /\ limit \in [StopThreads -> {"zero", "finite", "infinite"}]
        BY <1>1 DEF Init, Config
    <2>2. rc \in 0 .. 5 /\ hooks \subseteq {"start", "stop"}
        BY DEF Init
    <2>3. /\ gEvt = "null" /\ mainEvt = "null"
          /\ ev \in [StopThreads -> {"none", "reset", "set", "closed"}]
        BY DEF Init
    <2>4. ctl = "none" /\ queries \in Nat
        BY DEF Init
    <2> QED
        BY <2>1, <2>2, <2>3, <2>4 DEF RestTyped
<1>6. FlagsTyped
    BY DEF Init, FlagsTyped
<1> QED
    BY <1>2, <1>3, <1>4, <1>5, <1>6 DEF TypeOK

\* The steps of the main thread.
LEMMA MainTyped == TypeOK /\ Main => TypeOK'
<1> SUFFICES ASSUME TypeOK, Main PROVE TypeOK'
    OBVIOUS
<1> USE ThreadsDiffer DEF TypeOK, rest, rest1, worker
<1>1. CASE ResolveModes
    <2>1. PcTyped'
        BY <1>1, GotoTyped DEF ResolveModes, Labels
    <2> QED
        BY <1>1, <2>1 DEF ResolveModes, ReportsTyped, WorkersTyped, RestTyped, FlagsTyped
<1>2. CASE Register
    <2>1. PcTyped'
        BY <1>2, GotoTyped DEF Register, Labels
    <2>2. ReportsTyped'
        BY <1>2, StatusTyped DEF Register, ReportsTyped, silent, States, Codes, KILLED
    <2> QED
        BY <1>2, <2>1, <2>2 DEF Register, WorkersTyped, RestTyped, FlagsTyped
<1>3. CASE StartWorker
    <2>1. PcTyped'
        BY <1>3, GotoTyped DEF StartWorker, Labels
    <2>2. WorkersTyped'
        BY <1>3 DEF StartWorker, ChildExecuted, WorkersTyped
    <2>3. RestTyped'
        <3>1. rc' \in {rc, 1} \cup (2 .. 5) /\ hooks' \in {hooks, hooks \cup {"start"}}
            BY <1>3 DEF StartWorker
        <3> QED
            BY <1>3, <3>1 DEF StartWorker, RestTyped
    <2> QED
        BY <1>3, <2>1, <2>2, <2>3 DEF StartWorker, ReportsTyped, FlagsTyped
<1>4. CASE JavaStarted
    <2>1. PcTyped'
        BY <1>4, GotoTyped DEF JavaStarted, Labels
    <2>2. WorkersTyped'
        BY <1>4 DEF JavaStarted, WorkersTyped
    <2>3. RestTyped'
        BY <1>4 DEF JavaStarted, RestTyped
    <2> QED
        BY <1>4, <2>1, <2>2, <2>3 DEF JavaStarted, ReportsTyped, FlagsTyped
<1>5. CASE ReportRunning \/ WorkerFinished \/ ReportStopping \/ ReportStopped
    <2>1. PcTyped'
        BY <1>5, GotoTyped DEF ReportRunning, WorkerFinished, ReportStopping, ReportStopped, Labels
    <2>2. ReportsTyped'
        <3>1. vmExit \in Codes /\ rc \in Codes /\ 0 \in Codes
            BY DEF WorkersTyped, RestTyped, Codes, KILLED
        <3>2. {"RUNNING", "STOP_PENDING", "STOPPED"} \subseteq States
            BY DEF States
        <3> QED
            BY <1>5, <3>1, <3>2, ReportTyped
               DEF ReportRunning, WorkerFinished, ReportStopping, ReportStopped
    <2> QED
        BY <1>5, <2>1, <2>2
           DEF ReportRunning, WorkerFinished, ReportStopping, ReportStopped, WorkersTyped, RestTyped, FlagsTyped
<1>6. ASSUME NEW timedOut \in BOOLEAN, ShutdownEventSeen(timedOut) PROVE TypeOK'
    <2>1. PcTyped'
        BY <1>6, GotoTyped DEF ShutdownEventSeen, Labels
    <2>2. ReportsTyped'
        BY <1>6, ReportTyped DEF ShutdownEventSeen, States, Codes, KILLED
    <2> QED
        BY <1>6, <2>1, <2>2 DEF ShutdownEventSeen, WorkersTyped, RestTyped, FlagsTyped
<1>7. CASE DestroyStart
    <2>1. PcTyped'
        BY <1>7, GotoTyped DEF DestroyStart, Labels
    <2> QED
        BY <1>7, <2>1 DEF DestroyStart, ReportsTyped, WorkersTyped, RestTyped, FlagsTyped
<1>8. CASE DestroyWait
    <2>1. PcTyped'
        BY <1>8, GotoTyped DEF DestroyWait, Labels
    <2> QED
        BY <1>8, <2>1 DEF DestroyWait, ReportsTyped, WorkersTyped, RestTyped, FlagsTyped
<1> QED
    BY <1>1, <1>2, <1>3, <1>4, <1>5, <1>6, <1>7, <1>8 DEF Main

\* The steps of the dispatcher and of the SCM, and the reports.
LEMMA DispatcherTyped ==
    ASSUME TypeOK,
           \/ Dispatcher \/ \E t \in Threads : SetServiceStatus(t)
           \/ \E c \in {"STOP", "SHUTDOWN", "INTERROGATE"} : ScmSends(c)
           \/ \E s \in ConsoleStops, c \in {"STOP", "SHUTDOWN"} : ConsoleEvent(s, c)
    PROVE  TypeOK'
<1> USE ThreadsDiffer DEF TypeOK, rest, worker
<1>1. CASE CtrlHandler
    <2>1. PcTyped'
        BY <1>1, GotoTyped DEF CtrlHandler, Labels
    <2>2. ReportsTyped'
        BY <1>1, ReportTyped DEF CtrlHandler, ReportsTyped, States, Codes, KILLED
    <2> QED
        BY <1>1, <2>1, <2>2 DEF CtrlHandler, WorkersTyped, RestTyped, FlagsTyped
<1>2. CASE InterrogateAnswered
    <2>1. PcTyped'
        BY <1>2, GotoTyped DEF InterrogateAnswered, Labels
    <2>2. ReportsTyped'
        BY <1>2 DEF InterrogateAnswered, ReportsTyped
    <2>3. FlagsTyped'
        BY <1>2 DEF InterrogateAnswered, FlagsTyped
    <2> QED
        BY <1>2, <2>1, <2>2, <2>3 DEF InterrogateAnswered, WorkersTyped, RestTyped
<1>3. ASSUME NEW s \in ScmStops, SpawnStop(s) PROVE TypeOK'
    <2>1. PcTyped'
        BY <1>3 DEF SpawnStop, PcTyped, Labels, Threads
    <2>2. Limit(ctl) \in {"zero", "finite", "infinite"}
        BY ConfigsAssumption DEF Limit, RestTyped, Config
    <2>3. RestTyped'
        BY <1>3, <2>2 DEF SpawnStop, RestTyped
    <2> QED
        BY <1>3, <2>1, <2>3 DEF SpawnStop, ReportsTyped, WorkersTyped, FlagsTyped
<1>4. CASE HandleManagerDestroy
    <2>1. PcTyped'
        BY <1>4, GotoTyped DEF HandleManagerDestroy, Labels
    <2>2. WorkersTyped'
        BY <1>4 DEF HandleManagerDestroy, ProcessClosed, WorkersTyped, Codes, KILLED
    <2>3. FlagsTyped'
        BY <1>4 DEF HandleManagerDestroy, FlagsTyped
    <2> QED
        BY <1>4, <2>1, <2>2, <2>3 DEF HandleManagerDestroy, ReportsTyped, RestTyped
<1>5. CASE ExitProcess
    <2>1. FlagsTyped'
        BY <1>5 DEF ExitProcess, FlagsTyped
    <2> QED
        BY <1>5, <2>1 DEF ExitProcess, PcTyped, ReportsTyped, WorkersTyped, RestTyped
<1>6. ASSUME NEW t \in Threads, SetServiceStatus(t) PROVE TypeOK'
    <2>1. ReportsTyped'
        BY <1>6 DEF SetServiceStatus, ReportsTyped
    <2>2. FlagsTyped'
        BY <1>6 DEF SetServiceStatus, FlagsTyped
    <2> QED
        BY <1>6, <2>1, <2>2 DEF SetServiceStatus, PcTyped, WorkersTyped, RestTyped
<1>7. ASSUME NEW c \in {"STOP", "SHUTDOWN", "INTERROGATE"}, ScmSends(c) PROVE TypeOK'
    <2>1. RestTyped'
        BY <1>7 DEF ScmSends, RestTyped
    <2> QED
        BY <1>7, <2>1 DEF ScmSends, PcTyped, ReportsTyped, WorkersTyped, FlagsTyped
<1>8. ASSUME NEW s \in ConsoleStops, NEW c \in {"STOP", "SHUTDOWN"}, ConsoleEvent(s, c) PROVE TypeOK'
    <2>1. PcTyped'
        BY <1>8, GotoTyped DEF ConsoleEvent, Labels
    <2>2. Limit(c) \in {"zero", "finite", "infinite"}
        BY ConfigsAssumption DEF Limit, RestTyped, Config
    <2>3. RestTyped'
        BY <1>8, <2>2 DEF ConsoleEvent, RestTyped
    <2> QED
        BY <1>8, <2>1, <2>3 DEF ConsoleEvent, ReportsTyped, WorkersTyped, FlagsTyped
<1> QED
    BY <1>1, <1>2, <1>3, <1>4, <1>5, <1>6, <1>7, <1>8 DEF Dispatcher

\* The steps of a stop thread.
LEMMA StopTyped ==
    ASSUME TypeOK, NEW s \in StopThreads, Stop(s)
    PROVE  TypeOK'
<1> USE ThreadsDiffer DEF TypeOK, rest, worker
<1>1. CASE StopBegin(s) \/ StopWorkerFinished(s) \/ StopWaitOver(s) \/ StopKilled(s)
    <2>1. PcTyped'
        BY <1>1, GotoTyped DEF StopBegin, StopWorkerFinished, StopWaitOver, StopKilled, Labels
    <2> QED
        BY <1>1, <2>1 DEF StopBegin, StopWorkerFinished, StopWaitOver, StopKilled, ReportsTyped,
                          WorkersTyped, RestTyped, FlagsTyped
<1>2. CASE StopCreate(s)
    <2>1. PcTyped'
        BY <1>2, GotoTyped DEF StopCreate, Labels
    <2>2. WorkersTyped'
        BY <1>2 DEF StopCreate, ChildExecuted, WorkersTyped
    <2>3. /\ hooks' \in {hooks, hooks \cup {"stop"}} /\ gEvt' \in {gEvt, s}
          /\ ev' \in {ev, [ev EXCEPT ![s] = "reset"]}
          /\ sysJvm' = sysJvm \/ sysJvm' = (sysJvm \/ vm = "up")
        BY <1>2 DEF StopCreate
    <2>4. RestTyped'
        BY <1>2, <2>3 DEF StopCreate, RestTyped
    <2>5. FlagsTyped'
        BY <1>2, <2>3 DEF StopCreate, FlagsTyped
    <2> QED
        BY <1>2, <2>1, <2>2, <2>4, <2>5 DEF StopCreate, ReportsTyped
<1>3. CASE StopJavaStarted(s)
    <2>1. PcTyped'
        BY <1>3, GotoTyped DEF StopJavaStarted, Labels
    <2>2. WorkersTyped'
        BY <1>3 DEF StopJavaStarted, WorkersTyped
    <2>3. ReportsTyped'
        BY <1>3, ReportTyped DEF StopJavaStarted, States, Codes, KILLED
    <2> QED
        BY <1>3, <2>1, <2>2, <2>3 DEF StopJavaStarted, RestTyped, FlagsTyped
<1>4. CASE StopCleanup(s)
    <2>1. PcTyped'
        BY <1>4, GotoTyped DEF StopCleanup, Patience, RestTyped, Labels
    <2>2. ReportsTyped'
        BY <1>4, ReportTyped DEF StopCleanup, States, Codes, KILLED
    <2> QED
        BY <1>4, <2>1, <2>2 DEF StopCleanup, WorkersTyped, RestTyped, FlagsTyped
<1>5. CASE StopKill(s)
    <2>1. PcTyped'
        BY <1>5, GotoTyped DEF StopKill, Labels
    <2>2. WorkersTyped'
        <3>1. CASE Kind("svc") = "jvm"
            BY <1>5, <3>1 DEF StopKill, JavaClosed, WorkersTyped, FlagsTyped
        <3>2. CASE Kind("svc") # "jvm"
            BY <1>5, <3>2 DEF StopKill, ProcessClosed, WorkersTyped, Codes, KILLED
        <3> QED
            BY <3>1, <3>2
    <2> QED
        BY <1>5, <2>1, <2>2 DEF StopKill, ReportsTyped, RestTyped, FlagsTyped
<1>6. CASE StopCompleted(s)
    <2>1. PcTyped'
        BY <1>6, GotoTyped DEF StopCompleted, Labels
    <2>2. RestTyped'
        BY <1>6 DEF StopCompleted, RestTyped
    <2> QED
        BY <1>6, <2>1, <2>2 DEF StopCompleted, ReportsTyped, WorkersTyped, FlagsTyped
<1> QED
    BY <1>1, <1>2, <1>3, <1>4, <1>5, <1>6 DEF Stop

\* The steps of the workers and of the Java thread that exits.
LEMMA WorkTyped ==
    ASSUME TypeOK,
           \/ \E w \in Workers : JavaWorkerInit(w) \/ JavaWorkerEnds(w) \/ ChildExits(w)
                                 \/ OutputCloses(w) \/ StoreExitCode(w)
           \/ AppThreadsEnd \/ ExitHook \/ \E c \in {0, 1} : SystemExit(c)
    PROVE  TypeOK'
<1> USE ThreadsDiffer DEF TypeOK, rest, worker, others
<1>1. ASSUME NEW w \in Workers, JavaWorkerInit(w) PROVE TypeOK'
    <2>1. WorkersTyped'
        <3>1. attached' \subseteq Workers /\ vm' \in {"none", "up", "gone"}
            BY <1>1 DEF JavaWorkerInit, WorkersTyped
        <3>2. UNCHANGED <<code, held, app, vmExit>> /\ \E k \in {"ready", "done"} : wk' = [wk EXCEPT ![w] = k]
            BY <1>1 DEF JavaWorkerInit
        <3>3. wk' \in [Workers -> {"none", "init", "ready", "run", "gone", "done"}]
            BY <3>2 DEF WorkersTyped
        <3> QED
            BY <3>1, <3>2, <3>3 DEF WorkersTyped
    <2>2. FlagsTyped'
        BY <1>1 DEF JavaWorkerInit, FlagsTyped
    <2> QED
        BY <1>1, <2>1, <2>2 DEF JavaWorkerInit, PcTyped, ReportsTyped, RestTyped
<1>2. ASSUME NEW w \in Workers, JavaWorkerEnds(w) PROVE TypeOK'
    <2>1. WorkersTyped'
        <3>1. attached' \subseteq Workers /\ vmExit' \in Codes
            BY <1>2 DEF JavaWorkerEnds, WorkersTyped, Codes, KILLED
        <3>2. app' \in BOOLEAN
            <4>1. app' = app \/ app' = TRUE
                BY <1>2 DEF JavaWorkerEnds
            <4> QED
                BY <4>1 DEF WorkersTyped
        <3>3. UNCHANGED <<code, held, vm>> /\ wk' = [wk EXCEPT ![w] = "done"]
            BY <1>2 DEF JavaWorkerEnds
        <3> QED
            BY <3>1, <3>2, <3>3 DEF WorkersTyped
    <2> QED
        BY <1>2, <2>1 DEF JavaWorkerEnds, PcTyped, ReportsTyped, RestTyped, FlagsTyped
<1>3. ASSUME NEW w \in Workers, ChildExits(w) PROVE TypeOK'
    <2>1. WorkersTyped'
        BY <1>3 DEF ChildExits, WorkersTyped, Codes, KILLED
    <2> QED
        BY <1>3, <2>1 DEF ChildExits, PcTyped, ReportsTyped, RestTyped, FlagsTyped
<1>4. ASSUME NEW w \in Workers, OutputCloses(w) \/ StoreExitCode(w) PROVE TypeOK'
    <2>1. WorkersTyped'
        BY <1>4 DEF OutputCloses, StoreExitCode, WorkersTyped, Codes, KILLED
    <2> QED
        BY <1>4, <2>1 DEF OutputCloses, StoreExitCode, PcTyped, ReportsTyped, RestTyped, FlagsTyped
<1>5. CASE AppThreadsEnd
    BY <1>5 DEF AppThreadsEnd, WorkersTyped, PcTyped, ReportsTyped, RestTyped, FlagsTyped
<1>6. CASE ExitHook
    <2>1. PcTyped'
        BY <1>6, GotoTyped DEF ExitHook, Labels
    <2>2. ReportsTyped'
        BY <1>6, ReportTyped DEF ExitHook, States, Codes, KILLED
    <2> QED
        BY <1>6, <2>1, <2>2 DEF ExitHook, WorkersTyped, RestTyped, FlagsTyped
<1>7. ASSUME NEW c \in {0, 1}, SystemExit(c) PROVE TypeOK'
    <2>1. PcTyped'
        BY <1>7, GotoTyped DEF SystemExit, Labels
    <2>2. WorkersTyped'
        BY <1>7 DEF SystemExit, WorkersTyped, Codes, KILLED
    <2> QED
        BY <1>7, <2>1, <2>2 DEF SystemExit, ReportsTyped, RestTyped, FlagsTyped
<1> QED
    BY <1>1, <1>2, <1>3, <1>4, <1>5, <1>6, <1>7

LEMMA StutterTyped == TypeOK /\ UNCHANGED vars => TypeOK'
BY DEF TypeOK, vars, PcTyped, ReportsTyped, WorkersTyped, RestTyped, FlagsTyped

LEMMA StepTyped == TypeOK /\ [Next]_vars => TypeOK'
BY MainTyped, DispatcherTyped, StopTyped, WorkTyped, StutterTyped DEF Next, Terminated

\* Every variable keeps its type, in every configuration and with any number of
\* threads that report, stop and exit at once.
THEOREM TypeCorrect == Spec => []TypeOK
BY InitTyped, StepTyped, PTL DEF Spec

-----------------------------------------------------------------------------
(* What the inductive invariant says besides.                               *)

First == {"modes", "register", "start"}
Starting == First \cup {"java", "running"}
Through == {"event", "destroy", "destroyTimed", "destroying", "destroying1", "stopPending",
            "stopped", "cleanup", "end"}

\* Who has reported what: the written status, the sent one, and the copy that an
\* INTERROGATE is to be answered with.
Known == {svc, scm} \cup rep["disp"]

\* Before the worker is started nothing has happened yet.
Fresh ==
    pc["main"] \in First =>
        /\ wk["svc"] = "none" /\ ~app /\ ~frozen
        /\ \A r \in Known : r.state = "START_PENDING"

\* Until the service is RUNNING no stop has been asked for.
NoStop == \A s \in StopThreads : pc[s] = "idle"
Unasked ==
    pc["main"] \in Starting =>
        /\ ctl \in {"none", "INTERROGATE"} /\ pc["disp"] # "spawn" /\ NoStop
        /\ \A r \in Known : r.state \in {"START_PENDING", "STOPPED"}

\* A stop thread that has not begun has neither worker nor event nor hook.
NotBegun ==
    /\ \A s \in StopThreads : pc[s] = "idle" => wk[s] = "none" /\ gEvt # s
    /\ NoStop => "stop" \notin hooks

\* What the main thread knows of the worker.
WorkerKnown ==
    /\ pc["main"] = "java" => Kind("svc") = "jvm"
    /\ wk["svc"] = "gone" => Kind("svc") = "exe"
    /\ "svc" \in held => Kind("svc") = "exe" /\ wk["svc"] \in {"gone", "done"}
    /\ pc["main"] \in Through => Ended("svc")

\* Nobody knows of STOPPED before the worker has ended or exits.
StoppedIsTrue == \A r \in Known : r.state = "STOPPED" => Ended("svc") \/ frozen

\* The status the SCM has does not run ahead of the one that was written.
Forward == ~stale => scm.state = "STOPPED" \/ Rank(svc.state) >= Rank(scm.state)

\* The main thread's last report is STOPPED, and the SCM gets it as it is.
LastWord ==
    pc["main"] = "end" =>
        /\ \A r \in rep["main"] : r.state = "STOPPED"
        /\ handle /\ ~mixed /\ rep["main"] = {} => scm.state = "STOPPED"

\* Java threads of the service that can exit, as long as no stop has begun; with
\* them goes the VM that the main thread will wait for.
ServiceLives == app \/ (Kind("svc") = "jvm" /\ wk["svc"] = "run")
LivesInVm ==
    /\ app => Kind("svc") = "jvm"
    /\ ServiceLives => pc["main"] \in {"running", "wait", "destroy", "destroying"}
    /\ pc["main"] \in Starting \cup {"wait", "destroy"} =>
          (ServiceLives \/ (Kind("svc") = "jvm" /\ wk["svc"] = "ready") => sysJvm)

\* Unless a stop has begun a System.exit comes from the service itself, finds the
\* main thread at a wait that it never gets through, and is the only one that can
\* report STOPPED.
Unstopped ==
    NoStop =>
        /\ pc["main"] \notin {"event", "destroyTimed", "destroying1"}
        /\ LivesInVm
        /\ frozen => ServiceLives
        /\ (~frozen /\ pc["main"] # "end") \/ (frozen /\ (pc["exit"] # "die" \/ vmExit # 0)) =>
              \A r \in Known : r.state # "STOPPED"

IInv == /\ TypeOK /\ Fresh /\ Unasked /\ NotBegun /\ WorkerKnown
        /\ StoppedIsTrue /\ Forward /\ LastWord /\ Unstopped

-----------------------------------------------------------------------------
\* What a jump and a report change.
LEMMA Goes ==
    ASSUME PcTyped, NEW t \in Threads, NEW l, Goto(t, l)
    PROVE  pc'[t] = l /\ \A u \in Threads \ {t} : pc'[u] = pc[u]
BY DEF PcTyped, Goto

LEMMA Writes ==
    ASSUME ReportsTyped, NEW t \in Threads, NEW st, NEW x, Report(t, st, x) \/ silent
    PROVE  /\ \A u \in Threads \ {t} : rep'[u] = rep[u]
           /\ \/ svc' = svc /\ rep' = rep
              \/ handle /\ svc'.state = st /\ rep'[t] = {svc'}
BY DEF ReportsTyped, Report, silent, Status

LEMMA InitIInv == Init => IInv
<1> SUFFICES ASSUME Init PROVE IInv
    OBVIOUS
<1> USE ThreadsDiffer
<1>1. /\ pc["main"] = "modes" /\ pc["disp"] = "loop" /\ pc["exit"] = "idle"
      /\ \A s \in StopThreads : pc[s] = "idle"
    BY DEF Init, Threads
<1>2. \A r \in Known : r.state = "START_PENDING"
    BY DEF Init, Known, Status
<1>3. \A w \in Workers : wk[w] = "none"
    BY DEF Init
<1>4. Fresh /\ Unasked /\ NotBegun
    BY <1>1, <1>2, <1>3 DEF Init, Fresh, Unasked, NotBegun, NoStop, frozen
<1>5. WorkerKnown
    BY <1>1, <1>3 DEF Init, WorkerKnown, Through
<1>6. StoppedIsTrue /\ Forward /\ LastWord
    BY <1>1, <1>2, <1>3 DEF Init, StoppedIsTrue, Forward, LastWord, Rank, Known
<1>7. Unstopped
    BY <1>1, <1>2, <1>3 DEF Init, Unstopped, LivesInVm, ServiceLives, frozen
<1> QED
    BY <1>4, <1>5, <1>6, <1>7, InitTyped DEF IInv

\* The main thread up to RUNNING.
LEMMA StartKeeps ==
    ASSUME IInv, ResolveModes \/ Register \/ StartWorker \/ JavaStarted \/ ReportRunning
    PROVE  IInv'
<1> USE ThreadsDiffer
<1>1. /\ \/ pc["main"] = "modes" /\ pc'["main"] \in {"register", "cleanup"}
         \/ pc["main"] = "register" /\ pc'["main"] \in {"start", "cleanup"}
         \/ pc["main"] = "start" /\ pc'["main"] \in {"java", "running", "cleanup"}
         \/ pc["main"] = "java" /\ pc'["main"] \in {"running", "cleanup"}
         \/ pc["main"] = "running" /\ pc'["main"] = "wait"
      /\ \A t \in Threads \ {"main"} : pc'[t] = pc[t]
    BY Goes DEF ResolveModes, Register, StartWorker, JavaStarted, ReportRunning, At, IInv, TypeOK
<1>2. /\ svc' = svc \/ (svc'.state = "RUNNING" /\ pc["main"] = "running")
      /\ rep'["disp"] = rep["disp"]
    <2>1. CASE ReportRunning
        BY <2>1, Writes DEF ReportRunning, At, IInv, TypeOK
    <2> QED
        BY <2>1 DEF ResolveModes, Register, StartWorker, JavaStarted, silent, IInv, TypeOK, ReportsTyped
<1>3. /\ UNCHANGED <<cfg, scm, held, app, vmExit, sysJvm, gEvt, ctl, stale, mixed>>
      /\ hooks' \in {hooks, hooks \cup {"start"}}
    BY DEF ResolveModes, Register, StartWorker, JavaStarted, ReportRunning, rest, worker
<1>4. /\ \A s \in StopThreads : wk'[s] = wk[s]
      /\ \/ wk' = wk /\ (pc["main"] = "java" => wk["svc"] = "done")
            /\ (pc["main"] = "start" => pc'["main"] = "cleanup")
         \/ pc["main"] = "start" /\ Kind("svc") = "jvm" /\ wk'["svc"] = "init" /\ pc'["main"] = "java"
         \/ pc["main"] = "start" /\ Kind("svc") = "exe" /\ wk'["svc"] = "run" /\ pc'["main"] = "running"
         \/ /\ pc["main"] = "java" /\ wk["svc"] = "ready" /\ wk'["svc"] = "run" /\ pc'["main"] = "running"
    BY DEF ResolveModes, Register, StartWorker, JavaStarted, ReportRunning, At, worker, ChildExecuted,
           Goto, IInv, TypeOK, PcTyped, WorkersTyped
<1>5. frozen' = frozen /\ NoStop' = NoStop /\ Kind("svc")' = Kind("svc") /\ NoStop
    BY <1>1, <1>3 DEF frozen, NoStop, Kind, Mode, IInv, Unasked, Starting, First
<1>6. \A r \in Known' : r \in Known \/ (r.state = "RUNNING" /\ pc["main"] = "running")
    BY <1>2, <1>3 DEF Known
<1>7. Fresh' /\ Unasked'
    BY <1>1, <1>3, <1>4, <1>5, <1>6 DEF IInv, Fresh, Unasked, First, Starting
<1>8. NotBegun'
    BY <1>1, <1>3, <1>4, <1>5 DEF IInv, NotBegun
<1>9. WorkerKnown' /\ StoppedIsTrue'
    BY <1>1, <1>3, <1>4, <1>5, <1>6
       DEF IInv, Fresh, First, WorkerKnown, StoppedIsTrue, Through, Ended, OutputRead
<1>10. Forward' /\ LastWord'
    BY <1>1, <1>2, <1>3
       DEF IInv, TypeOK, ReportsTyped, Statuses, States, Unasked, Starting, Known, Forward, LastWord, Rank
<1>11. Unstopped'
    BY <1>1, <1>3, <1>4, <1>5, <1>6 DEF IInv, Fresh, First, Unstopped, LivesInVm, ServiceLives, Starting
<1> QED
    BY <1>7, <1>8, <1>9, <1>10, <1>11, StepTyped DEF IInv, Next, Main

\* The main thread from the end of the worker to its own.
Ending == WorkerFinished \/ ShutdownEventSeen(TRUE) \/ ShutdownEventSeen(FALSE)
          \/ DestroyStart \/ DestroyWait \/ ReportStopping \/ ReportStopped

LEMMA EndingKeeps == IInv /\ Ending => IInv'
<1> SUFFICES ASSUME IInv, Ending PROVE IInv'
    OBVIOUS
<1> USE ThreadsDiffer
<1>1. /\ \/ pc["main"] = "wait" /\ pc'["main"] \in {"event", "destroy"}
            /\ (gEvt = "null" => pc'["main"] = "destroy") /\ sysJvm' = sysJvm
         \/ pc["main"] = "event" /\ pc'["main"] = "destroyTimed"
         \/ pc["main"] = "destroy" /\ pc'["main"] = "stopPending" /\ ~sysJvm
         \/ pc["main"] = "destroy" /\ pc'["main"] = "destroying"
         \/ pc["main"] = "destroyTimed" /\ pc'["main"] \in {"destroying1", "stopPending"}
         \/ pc["main"] = "destroying" /\ pc'["main"] = "stopPending" /\ JavaQuiet
         \/ pc["main"] = "destroying1" /\ pc'["main"] = "stopPending"
         \/ pc["main"] = "stopPending" /\ pc'["main"] = "stopped"
         \/ pc["main"] \in {"stopped", "cleanup"} /\ pc'["main"] = "end"
      /\ \A t \in Threads \ {"main"} : pc'[t] = pc[t]
    BY Goes DEF Ending, WorkerFinished, ShutdownEventSeen, DestroyStart, DestroyWait, ReportStopping,
                ReportStopped, At, IInv, TypeOK
<1>2. /\ svc' = svc \/ svc'.state = "STOP_PENDING" \/ (svc'.state = "STOPPED" /\ pc'["main"] = "end")
      /\ rep'["disp"] = rep["disp"]
      /\ pc'["main"] = "end" => \/ ~handle /\ rep'["main"] = {}
                                \/ rep'["main"] = {svc'} /\ svc'.state = "STOPPED"
    <2>1. CASE ReportStopped
        <3>1. rep["main"] = {} /\ pc'["main"] = "end" /\ (handle => svc'.state = "STOPPED" /\ rep'["main"] = {svc'})
            BY <1>1, <2>1 DEF ReportStopped, At, Report, IInv, TypeOK, ReportsTyped, Status
        <3>2. ~handle => rep' = rep
            BY <2>1 DEF ReportStopped, Report, silent
        <3> QED
            BY <2>1, <3>1, <3>2, Writes DEF ReportStopped, IInv, TypeOK
    <2>2. CASE ~ReportStopped
        BY <1>1, <2>2, Writes DEF Ending, WorkerFinished, ShutdownEventSeen, DestroyStart, DestroyWait,
                                  ReportStopping, At, IInv, TypeOK
    <2> QED
        BY <2>1, <2>2
<1>3. UNCHANGED <<cfg, scm, wk, held, app, vmExit, handle, hooks, gEvt, ctl, stale, mixed>>
    BY DEF Ending, WorkerFinished, ShutdownEventSeen, DestroyStart, DestroyWait, ReportStopping,
           ReportStopped, rest, rest1, worker
<1>4. /\ frozen' = frozen /\ NoStop' = NoStop /\ Kind("svc")' = Kind("svc")
      /\ Ended("svc") /\ Ended("svc")'
    <2>1. Ended("svc")
        BY <1>1 DEF Ending, WorkerFinished, ShutdownEventSeen, DestroyStart, DestroyWait, ReportStopping,
                    ReportStopped, At, IInv, WorkerKnown, Through
    <2> QED
        BY <1>1, <1>3, <2>1 DEF Ended, OutputRead, frozen, NoStop, Kind, Mode
<1>5. \A r \in Known' : r \in Known \/ r.state = "STOP_PENDING" \/ (r.state = "STOPPED" /\ pc'["main"] = "end")
    BY <1>2, <1>3 DEF Known
<1>6. Fresh' /\ Unasked' /\ NotBegun'
    BY <1>1, <1>3, <1>4 DEF IInv, Fresh, Unasked, NotBegun, First, Starting
<1>7. WorkerKnown' /\ StoppedIsTrue'
    BY <1>1, <1>3, <1>4 DEF IInv, WorkerKnown, StoppedIsTrue
<1>8. Forward' /\ LastWord'
    BY <1>1, <1>2, <1>3 DEF IInv, TypeOK, ReportsTyped, Statuses, States, Forward, LastWord, Rank
<1>9. Unstopped'
    <2>1. SUFFICES ASSUME NoStop PROVE Unstopped'
        BY <1>4 DEF Unstopped
    <2>2. /\ gEvt = "null" /\ LivesInVm /\ (frozen => ServiceLives)
          /\ pc["main"] \notin {"event", "destroyTimed", "destroying1"}
        BY <2>1 DEF IInv, TypeOK, RestTyped, NotBegun, NoStop, Unstopped
    <2>3. ServiceLives' = ServiceLives
        BY <1>3, <1>4 DEF ServiceLives
    <2>4. LivesInVm'
        BY <1>1, <1>3, <1>4, <2>2, <2>3 DEF LivesInVm, ServiceLives, Starting, First, JavaQuiet, Ended
    <2>5. frozen => pc'["main"] # "end"
        BY <1>1, <2>2 DEF LivesInVm
    <2> QED
        BY <1>1, <1>3, <1>4, <1>5, <2>2, <2>3, <2>4, <2>5 DEF IInv, Unstopped
<1> QED
    BY <1>6, <1>7, <1>8, <1>9, StepTyped DEF IInv, Next, Main, Ending

\* A stop thread.
LEMMA StopKeeps ==
    ASSUME IInv, NEW s \in StopThreads, Stop(s)
    PROVE  IInv'
<1> USE ThreadsDiffer
<1>1. pc[s] # "idle" /\ pc'[s] # "idle" /\ \A t \in Threads \ {s} : pc'[t] = pc[t]
    <2>1. \E l : Goto(s, l) /\ l # "idle"
        <3>1. Patience(s) # "idle"
            BY DEF Patience, IInv, TypeOK, RestTyped
        <3> QED
            BY <3>1 DEF Stop, StopBegin, StopCreate, StopJavaStarted, StopWorkerFinished, StopCleanup,
                        StopWaitOver, StopKill, StopKilled, StopCompleted
    <2> QED
        BY <2>1, Goes DEF Stop, StopBegin, StopCreate, StopJavaStarted, StopWorkerFinished, StopCleanup,
                    StopWaitOver, StopKill, StopKilled, StopCompleted, At, IInv, TypeOK
<1>2. /\ svc' = svc \/ svc'.state = "STOP_PENDING"
      /\ rep'["disp"] = rep["disp"] /\ rep'["main"] = rep["main"]
    <2>1. CASE StopJavaStarted(s) \/ StopCleanup(s)
        BY <2>1, Writes DEF StopJavaStarted, StopCleanup, IInv, TypeOK
    <2> QED
        BY <2>1 DEF Stop, StopBegin, StopCreate, StopWorkerFinished, StopWaitOver, StopKill, StopKilled,
                    StopCompleted
<1>3. /\ UNCHANGED <<cfg, scm, held, vmExit, handle, ctl, stale, mixed>>
      /\ gEvt' \in {gEvt, s}
    BY DEF Stop, StopBegin, StopCreate, StopJavaStarted, StopWorkerFinished, StopCleanup, StopWaitOver,
           StopKill, StopKilled, StopCompleted, rest, worker
<1>4. ~NoStop /\ ~NoStop' /\ pc["main"] \notin Starting /\ frozen' = frozen /\ Kind("svc")' = Kind("svc")
    BY <1>1, <1>3 DEF NoStop, IInv, Unasked, frozen, Kind, Mode
<1>5. /\ \A u \in StopThreads \ {s} : wk[u] = "none" => wk'[u] = "none"
      /\ \/ wk'["svc"] = wk["svc"]
         \/ ~Ended("svc") /\ Kind("svc") = "exe" /\ wk["svc"] = "run" /\ wk'["svc"] = "gone"
         \/ ~Ended("svc") /\ Kind("svc") = "jvm" /\ wk["svc"] # "none" /\ wk'["svc"] = "done"
    <2>1. CASE StopKill(s)
        <3>1. CASE Kind("svc") = "jvm"
            BY <2>1, <3>1 DEF StopKill, JavaClosed, IInv, TypeOK, WorkersTyped
        <3>2. CASE Kind("svc") # "jvm"
            <4>1. Kind("svc") = "exe"
                BY <3>2, ConfigsAssumption DEF Kind, Mode, IInv, TypeOK, RestTyped, Config
            <4>2. wk' = [w \in Workers |-> IF w \in {"svc"} /\ wk[w] = "run" THEN "gone" ELSE wk[w]]
                BY <2>1, <3>2 DEF StopKill, ProcessClosed
            <4> QED
                BY <2>1, <4>1, <4>2 DEF StopKill
        <3> QED
            BY <3>1, <3>2
    <2> QED
        BY <2>1 DEF Stop, StopBegin, StopCreate, StopJavaStarted, StopWorkerFinished, StopCleanup,
                    StopWaitOver, StopKilled, StopCompleted, ChildExecuted, worker, IInv, TypeOK, WorkersTyped
<1>6. Ended("svc") => Ended("svc")' /\ wk'["svc"] = wk["svc"]
    BY <1>3, <1>5 DEF Ended, OutputRead
<1>7. \A r \in Known' : r \in Known \/ r.state = "STOP_PENDING"
    BY <1>2, <1>3 DEF Known
<1>8. Fresh' /\ Unasked' /\ NotBegun'
    <2>1. NotBegun'
        BY <1>1, <1>3, <1>4, <1>5 DEF IInv, NotBegun
    <2> QED
        BY <2>1, <1>1, <1>4 DEF Fresh, Unasked, Starting
<1>9. WorkerKnown' /\ StoppedIsTrue'
    BY <1>1, <1>3, <1>4, <1>5, <1>6, <1>7 DEF IInv, WorkerKnown, StoppedIsTrue, Starting
<1>10. Forward' /\ LastWord'
    BY <1>1, <1>2, <1>3 DEF IInv, TypeOK, ReportsTyped, Statuses, States, Forward, LastWord, Rank
<1>11. Unstopped'
    BY <1>4 DEF Unstopped
<1> QED
    BY <1>8, <1>9, <1>10, <1>11, StepTyped DEF IInv, Next

\* A stop thread that is made.
LEMMA SpawnKeeps ==
    ASSUME IInv, NEW s \in StopThreads,
           \/ s \in ScmStops /\ SpawnStop(s)
           \/ s \in ConsoleStops /\ \E c \in {"STOP", "SHUTDOWN"} : ConsoleEvent(s, c)
    PROVE  IInv'
<1> USE ThreadsDiffer
<1>1. /\ pc'[s] = "begin" /\ pc'["main"] = pc["main"] /\ pc'["exit"] = pc["exit"]
      /\ \A u \in StopThreads \ {s} : pc'[u] = pc[u]
      /\ pc["main"] \notin Starting
    <2>1. CASE SpawnStop(s)
        BY <2>1 DEF SpawnStop, At, IInv, TypeOK, PcTyped, Unasked, Threads
    <2> QED
        BY <2>1, Goes DEF ConsoleEvent, Starting, First, IInv, TypeOK
<1>2. /\ UNCHANGED <<cfg, svc, scm, rep, wk, held, app, vmExit, sysJvm, handle, hooks, gEvt, stale, mixed>>
    BY DEF SpawnStop, ConsoleEvent, rest, worker
<1>3. ~NoStop' /\ frozen' = frozen /\ Kind("svc")' = Kind("svc") /\ Ended("svc")' = Ended("svc") /\ Known' = Known
    BY <1>1, <1>2 DEF NoStop, frozen, Kind, Mode, Ended, OutputRead, Known
<1>4. Fresh' /\ Unasked' /\ NotBegun'
    BY <1>1, <1>2, <1>3 DEF IInv, Fresh, Unasked, NotBegun, Starting
<1>5. WorkerKnown' /\ StoppedIsTrue'
    BY <1>1, <1>2, <1>3 DEF IInv, WorkerKnown, StoppedIsTrue
<1>6. Forward' /\ LastWord' /\ Unstopped'
    BY <1>1, <1>2, <1>3 DEF IInv, Forward, LastWord, Unstopped
<1> QED
    BY <1>4, <1>5, <1>6, StepTyped DEF IInv, Next, Dispatcher

\* The controls, from the SCM to the answer, and the end of the process.
Controlling == CtrlHandler \/ InterrogateAnswered \/ HandleManagerDestroy \/ ExitProcess
               \/ \E c \in {"STOP", "SHUTDOWN", "INTERROGATE"} : ScmSends(c)

LEMMA ControlKeeps == IInv /\ Controlling => IInv'
<1> SUFFICES ASSUME IInv, Controlling PROVE IInv'
    OBVIOUS
<1> USE ThreadsDiffer
<1>1. \A t \in Threads \ {"disp"} : pc'[t] = pc[t]
    BY Goes DEF Controlling, CtrlHandler, InterrogateAnswered, HandleManagerDestroy, ExitProcess, ScmSends,
                IInv, TypeOK
<1>2. /\ rep'["main"] = rep["main"]
      /\ ~stale' => ~stale
      /\ \/ svc' = svc
         \/ svc'.state = "STOP_PENDING" /\ pc["main"] \notin Starting
         \/ svc' \in rep["disp"] /\ stale'
      /\ rep'["disp"] \subseteq rep["disp"] \cup {svc'}
    <2>1. CASE CtrlHandler
        <3>1. ctl # "INTERROGATE" => pc["main"] \notin Starting
            BY <2>1 DEF CtrlHandler, IInv, Unasked
        <3> QED
            BY <2>1, <3>1, Writes DEF CtrlHandler, rest, IInv, TypeOK, ReportsTyped
    <2>2. CASE InterrogateAnswered
        BY <2>2 DEF InterrogateAnswered
    <2> QED
        BY <2>1, <2>2 DEF Controlling, HandleManagerDestroy, ExitProcess, ScmSends, rest
<1>3. /\ UNCHANGED <<cfg, scm, held, app, vmExit, sysJvm, hooks, gEvt, mixed>>
      /\ handle' => handle
    BY DEF Controlling, CtrlHandler, InterrogateAnswered, HandleManagerDestroy, ExitProcess, ScmSends,
           rest, worker
<1>4. /\ \A w \in Workers : wk'[w] = wk[w] \/ (wk[w] = "run" /\ wk'[w] = "gone" /\ Kind(w) = "exe")
      /\ frozen' = frozen /\ NoStop' = NoStop /\ Kind("svc")' = Kind("svc")
    <2>1. CASE HandleManagerDestroy
        BY <1>1, <1>3, <2>1 DEF HandleManagerDestroy, ProcessClosed, frozen, NoStop, Kind, Mode
    <2> QED
        BY <1>1, <1>3, <2>1 DEF Controlling, CtrlHandler, InterrogateAnswered, ExitProcess, ScmSends, worker,
                                frozen, NoStop, Kind, Mode
<1>5. Ended("svc") => Ended("svc")' /\ wk'["svc"] = wk["svc"]
    BY <1>3, <1>4 DEF Ended, OutputRead
<1>6. \A r \in Known' : r \in Known \/ (r.state = "STOP_PENDING" /\ pc["main"] \notin Starting)
    BY <1>2, <1>3 DEF Known
<1>7. pc["main"] \in Starting => ctl' \in {"none", "INTERROGATE"} /\ pc'["disp"] # "spawn"
    <2>1. CASE CtrlHandler
        BY <2>1, Goes DEF CtrlHandler, IInv, TypeOK, Unasked
    <2>2. CASE InterrogateAnswered
        BY <2>2, Goes DEF InterrogateAnswered, IInv, TypeOK
    <2>3. CASE HandleManagerDestroy
        BY <2>3, Goes DEF HandleManagerDestroy, At, IInv, TypeOK
    <2>4. ASSUME NEW c \in {"STOP", "SHUTDOWN", "INTERROGATE"}, ScmSends(c)
          PROVE  pc["main"] \in Starting => ctl' \in {"none", "INTERROGATE"} /\ pc'["disp"] # "spawn"
        BY <2>4 DEF ScmSends, At, IInv, Unasked, Known
    <2> QED
        BY <2>1, <2>2, <2>3, <2>4 DEF Controlling, ExitProcess, IInv, Unasked
<1>8. Fresh' /\ Unasked' /\ NotBegun'
    BY <1>1, <1>3, <1>4, <1>6, <1>7 DEF IInv, Fresh, Unasked, NotBegun, First, Starting
<1>9. WorkerKnown' /\ StoppedIsTrue'
    BY <1>1, <1>3, <1>4, <1>5, <1>6 DEF IInv, WorkerKnown, StoppedIsTrue
<1>10. Forward' /\ LastWord'
    BY <1>1, <1>2, <1>3 DEF IInv, TypeOK, ReportsTyped, Statuses, States, Forward, LastWord, Rank
<1>11. Unstopped'
    <2>1. ServiceLives' = ServiceLives
        <3>1. Kind("svc") = "jvm" => wk'["svc"] = wk["svc"]
            BY <1>4
        <3> QED
            BY <1>3, <1>4, <3>1 DEF ServiceLives
    <2>2. LivesInVm => LivesInVm'
        BY <1>1, <1>3, <1>4, <2>1 DEF LivesInVm, Starting
    <2> QED
        BY <1>1, <1>3, <1>4, <1>6, <2>1, <2>2 DEF IInv, Unstopped
<1> QED
    BY <1>8, <1>9, <1>10, <1>11, StepTyped DEF IInv, Next, Dispatcher, Controlling

\* A report that is sent.
LEMMA SentKeeps ==
    ASSUME IInv, NEW t \in Threads, SetServiceStatus(t)
    PROVE  IInv'
<1> USE ThreadsDiffer
<1>1. /\ UNCHANGED <<cfg, svc, pc, wk, held, app, vmExit, sysJvm, handle, hooks, gEvt, ctl, stale>>
      /\ scm' = IF scm.state = "STOPPED" THEN scm ELSE svc
      /\ rep'[t] = {} /\ \A u \in Threads \ {t} : rep'[u] = rep[u]
      /\ rep[t] # {} /\ (~mixed' => ~mixed /\ svc \in rep[t])
    BY DEF SetServiceStatus, IInv, TypeOK, ReportsTyped
<1>2. frozen' = frozen /\ NoStop' = NoStop /\ Kind("svc")' = Kind("svc") /\ Ended("svc")' = Ended("svc")
    BY <1>1 DEF NoStop, frozen, Kind, Mode, Ended, OutputRead
<1>3. Known' \subseteq Known
    BY <1>1 DEF Known
<1>4. Fresh' /\ Unasked' /\ NotBegun'
    BY <1>1, <1>2, <1>3 DEF IInv, Fresh, Unasked, NotBegun
<1>5. WorkerKnown' /\ StoppedIsTrue'
    BY <1>1, <1>2, <1>3 DEF IInv, WorkerKnown, StoppedIsTrue
<1>6. Forward'
    BY <1>1 DEF IInv, TypeOK, ReportsTyped, Statuses, States, Forward, Rank
<1>7. LastWord'
    BY <1>1 DEF IInv, LastWord
<1>8. Unstopped'
    BY <1>1, <1>2, <1>3 DEF IInv, Unstopped, LivesInVm, ServiceLives
<1> QED
    BY <1>4, <1>5, <1>6, <1>7, <1>8, StepTyped DEF IInv, Next

\* The workers.
Working == \/ \E w \in Workers : JavaWorkerInit(w) \/ JavaWorkerEnds(w) \/ ChildExits(w)
                                 \/ OutputCloses(w) \/ StoreExitCode(w)
           \/ AppThreadsEnd

LEMMA WorkKeeps == IInv /\ Working => IInv'
<1> SUFFICES ASSUME IInv, Working PROVE IInv'
    OBVIOUS
<1> USE ThreadsDiffer
<1>1. UNCHANGED <<cfg, svc, scm, rep, pc, handle, hooks, gEvt, ctl, stale, mixed>>
    BY DEF Working, JavaWorkerInit, JavaWorkerEnds, ChildExits, OutputCloses, StoreExitCode, AppThreadsEnd,
           rest, others
<1>2. /\ frozen' = frozen /\ NoStop' = NoStop /\ Kind("svc")' = Kind("svc") /\ Known' = Known
    BY <1>1 DEF NoStop, frozen, Kind, Mode, Known
<1>3. \A s \in StopThreads : wk[s] = "none" => wk'[s] = "none"
    BY DEF Working, JavaWorkerInit, JavaWorkerEnds, ChildExits, OutputCloses, StoreExitCode, AppThreadsEnd,
           IInv, TypeOK, WorkersTyped
<1>4. \/ wk'["svc"] = wk["svc"]
      \/ ~frozen /\ Kind("svc") = "jvm" /\ wk["svc"] = "init" /\ wk'["svc"] = "ready" /\ sysJvm' /\ app' = app
      \/ ~frozen /\ Kind("svc") = "jvm" /\ wk["svc"] = "init" /\ wk'["svc"] = "done" /\ app' = app
      \/ ~frozen /\ Kind("svc") = "jvm" /\ wk["svc"] = "run" /\ wk'["svc"] = "done"
      \/ Kind("svc") = "exe" /\ wk["svc"] = "run" /\ wk'["svc"] = "gone" /\ app' = app
      \/ wk["svc"] = "gone" /\ wk'["svc"] = "done" /\ app' = app
    BY DEF Working, JavaWorkerInit, JavaInitialize, JavaWorkerEnds, ChildExits, OutputCloses, StoreExitCode,
           AppThreadsEnd, IInv, TypeOK, WorkersTyped
<1>5. /\ held' \subseteq held \cup {"svc"} \cup StopThreads
      /\ "svc" \in held' => "svc" \in held \/ (Kind("svc") = "exe" /\ wk["svc"] = "run" /\ wk'["svc"] = "gone")
    BY DEF Working, JavaWorkerInit, JavaWorkerEnds, ChildExits, OutputCloses, StoreExitCode, AppThreadsEnd,
           IInv, TypeOK, WorkersTyped, Workers
<1>6. /\ app' /\ NoStop => app \/ (Kind("svc") = "jvm" /\ wk["svc"] = "run")
      /\ sysJvm => sysJvm'
      /\ frozen => app' = app
    <2>1. ASSUME NEW w \in Workers, JavaWorkerInit(w)
          PROVE  app' = app /\ (sysJvm => sysJvm')
        BY <2>1 DEF JavaWorkerInit
    <2>2. ASSUME NEW w \in Workers, JavaWorkerEnds(w)
          PROVE  (w # "svc" => ~NoStop) /\ Kind(w) = "jvm" /\ wk[w] = "run" /\ ~frozen /\ sysJvm' = sysJvm
        BY <2>2 DEF JavaWorkerEnds, others, IInv, NotBegun, NoStop, Workers
    <2>3. ASSUME NEW w \in Workers, ChildExits(w) \/ OutputCloses(w) \/ StoreExitCode(w)
          PROVE  app' = app /\ sysJvm' = sysJvm
        BY <2>3 DEF ChildExits, OutputCloses, StoreExitCode, others
    <2>4. CASE AppThreadsEnd
        BY <2>4 DEF AppThreadsEnd, others
    <2> QED
        BY <2>1, <2>2, <2>3, <2>4 DEF Working
<1>7. Ended("svc") => Ended("svc")' /\ wk'["svc"] = wk["svc"]
    BY <1>4, <1>5 DEF Ended, OutputRead
<1>8. Fresh' /\ Unasked' /\ NotBegun'
    <2>1. pc["main"] \in First => NoStop
        BY DEF IInv, Unasked, Starting
    <2> QED
        BY <1>1, <1>2, <1>3, <1>4, <1>6, <2>1 DEF IInv, Fresh, Unasked, NotBegun
<1>9. WorkerKnown' /\ StoppedIsTrue'
    BY <1>1, <1>2, <1>4, <1>5, <1>7 DEF IInv, WorkerKnown, StoppedIsTrue
<1>10. Forward' /\ LastWord'
    BY <1>1 DEF IInv, Forward, LastWord
<1>11. Unstopped'
    <2>1. SUFFICES ASSUME NoStop PROVE Unstopped'
        BY <1>2 DEF Unstopped
    <2>2. ServiceLives' => ServiceLives
        BY <1>2, <1>4, <1>6, <2>1 DEF ServiceLives
    <2>3. LivesInVm'
        BY <1>1, <1>2, <1>4, <1>6, <2>1, <2>2 DEF IInv, Unstopped, LivesInVm, ServiceLives
    <2>4. frozen => ServiceLives'
        BY <1>2, <1>4, <1>6, <2>1 DEF IInv, Unstopped, ServiceLives
    <2>5. frozen => vmExit' = vmExit
        <3>1. frozen => Kind("svc") = "jvm"
            BY <2>1 DEF IInv, Unstopped, LivesInVm, ServiceLives
        <3>2. frozen => \A w \in Workers : wk[w] # "gone"
            BY <2>1, <3>1 DEF IInv, NotBegun, NoStop, WorkerKnown, Workers
        <3> QED
            BY <3>2 DEF Working, JavaWorkerInit, JavaWorkerEnds, ChildExits, OutputCloses, StoreExitCode,
                        AppThreadsEnd
    <2> QED
        BY <1>1, <1>2, <2>1, <2>3, <2>4, <2>5 DEF IInv, Unstopped
<1> QED
    BY <1>8, <1>9, <1>10, <1>11, StepTyped DEF IInv, Next, Working

\* The Java thread that exits.
LEMMA ExitKeeps == IInv /\ (ExitHook \/ \E c \in {0, 1} : SystemExit(c)) => IInv'
<1> SUFFICES ASSUME IInv, ExitHook \/ \E c \in {0, 1} : SystemExit(c) PROVE IInv'
    OBVIOUS
<1> USE ThreadsDiffer
<1>1. \A t \in Threads \ {"exit"} : pc'[t] = pc[t]
    BY Goes DEF ExitHook, SystemExit, IInv, TypeOK
<1>2. /\ rep'["disp"] = rep["disp"] /\ rep'["main"] = rep["main"]
      /\ svc' = svc \/ svc'.state = "STOPPED"
    BY Writes DEF ExitHook, SystemExit, others, IInv, TypeOK
<1>3. UNCHANGED <<cfg, scm, wk, held, app, sysJvm, handle, hooks, gEvt, ctl, stale, mixed>>
    BY DEF ExitHook, SystemExit, rest, others, worker
<1>4. frozen' /\ pc["main"] \notin First
    <2>1. frozen'
        BY Goes DEF ExitHook, SystemExit, frozen, IInv, TypeOK
    <2>2. ASSUME pc["main"] \in First PROVE FALSE
        BY <2>2 DEF ExitHook, SystemExit, At, frozen, IInv, Fresh, First, Unasked, Starting, NotBegun, NoStop, Workers
    <2> QED
        BY <2>1, <2>2
<1>5. NoStop' = NoStop /\ Kind("svc")' = Kind("svc") /\ Ended("svc")' = Ended("svc")
    BY <1>1, <1>3 DEF NoStop, Kind, Mode, Ended, OutputRead
<1>6. \A r \in Known' : r \in Known \/ r.state = "STOPPED"
    BY <1>2, <1>3 DEF Known
<1>7. Fresh' /\ Unasked' /\ NotBegun'
    BY <1>1, <1>3, <1>4, <1>5, <1>6 DEF IInv, Fresh, Unasked, NotBegun
<1>8. WorkerKnown' /\ StoppedIsTrue'
    BY <1>1, <1>3, <1>4, <1>5 DEF IInv, WorkerKnown, StoppedIsTrue
<1>9. Forward' /\ LastWord'
    BY <1>1, <1>2, <1>3 DEF IInv, TypeOK, ReportsTyped, Statuses, States, Forward, LastWord, Rank
<1>10. Unstopped'
    <2>1. SUFFICES ASSUME NoStop PROVE Unstopped'
        BY <1>5 DEF Unstopped
    <2>2. ServiceLives' = ServiceLives /\ (LivesInVm => LivesInVm')
        BY <1>1, <1>3, <1>5 DEF ServiceLives, LivesInVm
    <2>3. CASE ExitHook
        <3>1. frozen /\ "stop" \notin hooks /\ vmExit' = vmExit /\ pc["exit"] # "die"
            BY <2>1, <2>3 DEF ExitHook, At, frozen, IInv, NotBegun, worker
        <3>2. (\A r \in Known' : r \in Known) \/ (pc'["exit"] = "die" /\ vmExit = 0)
            <4>1. CASE pc["exit"] = "stopHook"
                BY <1>3, <2>3, <3>1, <4>1 DEF ExitHook, At, silent, Known
            <4>2. CASE pc["exit"] = "startHook"
                <5>1. pc'["exit"] = "die"
                    BY <2>3, <4>2, Goes DEF ExitHook, At, IInv, TypeOK
                <5>2. vmExit # 0 => silent
                    BY <2>3, <4>2 DEF ExitHook, At
                <5> QED
                    BY <1>3, <5>1, <5>2 DEF silent, Known
            <4> QED
                BY <2>3, <4>1, <4>2 DEF ExitHook, At
        <3> QED
            BY <1>1, <1>4, <2>1, <2>2, <3>1, <3>2 DEF IInv, Unstopped
    <2>4. CASE \E c \in {0, 1} : SystemExit(c)
        <3>1. ~frozen /\ ServiceLives /\ Known' = Known
            BY <2>1, <2>4 DEF SystemExit, others, rest, Workers, NoStop, IInv, NotBegun, ServiceLives, Known
        <3>2. pc["main"] # "end"
            BY <2>1, <3>1 DEF IInv, Unstopped, LivesInVm
        <3> QED
            BY <1>1, <1>4, <2>1, <2>2, <3>1, <3>2 DEF IInv, Unstopped
    <2> QED
        BY <2>3, <2>4
<1> QED
    BY <1>7, <1>8, <1>9, <1>10, StepTyped DEF IInv, Next

LEMMA StutterKeeps == IInv /\ UNCHANGED vars => IInv'
<1> SUFFICES ASSUME IInv, UNCHANGED vars PROVE IInv'
    OBVIOUS
<1>1. Known' = Known /\ frozen' = frozen /\ NoStop' = NoStop /\ ServiceLives' = ServiceLives
      /\ Kind("svc")' = Kind("svc") /\ Ended("svc")' = Ended("svc")
    BY DEF vars, Known, frozen, NoStop, ServiceLives, Kind, Mode, Ended, OutputRead
<1> QED
    BY <1>1, StutterTyped DEF vars, IInv, Fresh, Unasked, NotBegun, WorkerKnown, StoppedIsTrue, Forward,
                              LastWord, Unstopped, LivesInVm

LEMMA StepKeeps == IInv /\ [Next]_vars => IInv'
BY StartKeeps, EndingKeeps, StopKeeps, SpawnKeeps, ControlKeeps, SentKeeps, WorkKeeps, ExitKeeps,
   StutterKeeps, ThreadsDiffer
   DEF Next, Main, Ending, Dispatcher, Controlling, Working, Terminated

LEMMA Invariant == Spec => []IInv
BY InitIInv, StepKeeps, PTL DEF Spec

-----------------------------------------------------------------------------
\* A serviceMain that has returned has told the SCM, unless another thread wrote
\* over its report before it was sent.
THEOREM EndGetsThrough == Spec => []EndIsReported
<1>1. IInv => EndIsReported
    BY ThreadsDiffer DEF IInv, LastWord, EndIsReported, NoReport
<1> QED
    BY <1>1, Invariant, PTL

\* A service that exits with a failure of its own is never reported STOPPED, so
\* that the SCM's recovery action is due.
THEOREM FailureIsSeen == Spec => []RecoveryIsLeft
<1>1. IInv => RecoveryIsLeft
    BY DEF IInv, Unstopped, NoStop, frozen, Known, RecoveryIsLeft
<1> QED
    BY <1>1, Invariant, PTL

\* No step sends the SCM back to an earlier status, as long as no INTERROGATE has
\* been answered with a status that was overtaken.
THEOREM StatusAdvances == Spec => StatusMovesForward
<1>1. IInv /\ [Next]_vars => [Rank(scm'.state) >= Rank(scm.state) \/ stale']_vars
    <2> SUFFICES ASSUME IInv, [Next]_vars, ~stale' PROVE Rank(scm'.state) >= Rank(scm.state)
        OBVIOUS
    <2>1. CASE \E t \in Threads : SetServiceStatus(t)
        BY <2>1 DEF SetServiceStatus, IInv, TypeOK, ReportsTyped, Statuses, States, Forward, Rank
    <2>2. CASE UNCHANGED scm
        BY <2>2 DEF IInv, TypeOK, ReportsTyped, Statuses, States, Rank
    <2>3. CASE Main
        BY <2>2, <2>3 DEF Main, ResolveModes, Register, StartWorker, JavaStarted, ReportRunning,
                     WorkerFinished, ShutdownEventSeen, DestroyStart, DestroyWait, ReportStopping,
                     ReportStopped, rest, rest1
    <2>4. CASE Dispatcher
        BY <2>2, <2>4 DEF Dispatcher, CtrlHandler, InterrogateAnswered, SpawnStop, HandleManagerDestroy,
                     ExitProcess, rest
    <2>5. CASE \E s \in StopThreads : Stop(s)
        BY <2>2, <2>5 DEF Stop, StopBegin, StopCreate, StopJavaStarted, StopWorkerFinished, StopCleanup,
                     StopWaitOver, StopKill, StopKilled, StopCompleted, rest
    <2> QED
        BY <2>1, <2>2, <2>3, <2>4, <2>5
           DEF Next, ScmSends, ConsoleEvent, JavaWorkerInit, JavaWorkerEnds, ChildExits, OutputCloses,
               StoreExitCode, AppThreadsEnd, SystemExit, ExitHook, Terminated, rest, others, vars
<1> QED
    BY <1>1, Invariant, PTL DEF Spec, StatusMovesForward

-----------------------------------------------------------------------------
(* The stop thread and its worker are through when the service is STOPPED.  *)

\* A stop thread that is not waiting for its worker has none that is left.
Waiting == {"java", "forced", "working"}
WorkerFirst == \A s \in StopThreads : pc[s] \notin Waiting => wk[s] \in {"none", "done"}

\* A shutdown event is set by a stop thread that has come to its end.
Completed == \E s \in StopThreads : pc[s] = "completed"
EventSet == \A s \in StopThreads : ev[s] = "set" => Completed

\* The main thread knows of an event from its wait for it on, and gets past that
\* wait in time only after the event was set.
AfterEvent == {"destroyTimed", "destroying1", "stopPending", "stopped", "end"}
EventSeen ==
    /\ mainEvt # "null" => pc["main"] \in AfterEvent \cup {"event"}
    /\ pc["main"] = "event" => mainEvt # "null"
    /\ mainEvt # "null" /\ ~late /\ pc["main"] # "event" => Completed

\* Without a System.exit only the end of the main thread makes it STOPPED.
StoppedAtEnd ==
    /\ ~frozen => \A r \in Known : r.state = "STOPPED" => pc["main"] = "end"
    /\ pc["disp"] = "freed" => scm.state = "STOPPED" \/ pc["main"] = "end"

StopInv == WorkerFirst /\ EventSet /\ EventSeen /\ StoppedAtEnd

LEMMA InitStopInv == Init => StopInv
<1> SUFFICES ASSUME Init PROVE StopInv
    OBVIOUS
<1>1. /\ pc["main"] = "modes" /\ pc["disp"] = "loop"
      /\ \A s \in StopThreads : wk[s] = "none" /\ ev[s] = "none"
    BY ThreadsDiffer DEF Init
<1>2. \A r \in Known : r.state = "START_PENDING"
    BY ThreadsDiffer DEF Init, Known, Status
<1> QED
    BY <1>1, <1>2 DEF Init, StopInv, WorkerFirst, EventSet, EventSeen, StoppedAtEnd

\* The other threads leave the stop threads and their workers alone.
LEMMA MainLeaves ==
    ASSUME TypeOK, Main
    PROVE  /\ \A t \in Threads \ {"main"} : pc'[t] = pc[t]
           /\ \A s \in StopThreads : wk'[s] = wk[s]
<1> USE ThreadsDiffer DEF TypeOK
<1>1. \A t \in Threads \ {"main"} : pc'[t] = pc[t]
    BY Goes DEF Main, ResolveModes, Register, StartWorker, JavaStarted, ReportRunning, WorkerFinished,
                ShutdownEventSeen, DestroyStart, DestroyWait, ReportStopping, ReportStopped
<1>2. wk' = wk \/ \E k : wk' = [wk EXCEPT !["svc"] = k]
    BY DEF Main, ResolveModes, Register, StartWorker, JavaStarted, ReportRunning, WorkerFinished,
           ShutdownEventSeen, DestroyStart, DestroyWait, ReportStopping, ReportStopped, worker, ChildExecuted
<1> QED
    BY <1>1, <1>2 DEF WorkersTyped

LEMMA ControlLeaves ==
    ASSUME TypeOK, Controlling
    PROVE  /\ \A t \in Threads \ {"disp"} : pc'[t] = pc[t]
           /\ \A s \in StopThreads : wk'[s] = wk[s] \/ wk[s] = "run"
           /\ UNCHANGED <<scm, ev, mainEvt, late>>
<1> USE ThreadsDiffer DEF TypeOK
<1>1. \A t \in Threads \ {"disp"} : pc'[t] = pc[t]
    BY Goes DEF Controlling, CtrlHandler, InterrogateAnswered, HandleManagerDestroy, ExitProcess, ScmSends
<1>2. CASE HandleManagerDestroy
    BY <1>1, <1>2 DEF HandleManagerDestroy, ProcessClosed, rest
<1> QED
    BY <1>1, <1>2 DEF Controlling, CtrlHandler, InterrogateAnswered, ExitProcess, ScmSends, rest, worker

LEMMA WorkLeaves ==
    ASSUME TypeOK, Working
    PROVE  /\ UNCHANGED <<pc, svc, scm, rep, ev, mainEvt, late>>
           /\ \A s \in StopThreads : wk[s] \in {"none", "done"} => wk'[s] = wk[s]
<1>1. UNCHANGED <<pc, svc, scm, rep, ev, mainEvt, late>>
    BY DEF Working, JavaWorkerInit, JavaWorkerEnds, ChildExits, OutputCloses, StoreExitCode, AppThreadsEnd,
           rest, others
<1>2. \/ wk' = wk
      \/ \E w \in Workers : \E k : wk[w] \notin {"none", "done"} /\ wk' = [wk EXCEPT ![w] = k]
    BY DEF Working, JavaWorkerInit, JavaWorkerEnds, ChildExits, OutputCloses, StoreExitCode, AppThreadsEnd
<1> QED
    BY <1>1, <1>2, ThreadsDiffer DEF TypeOK, WorkersTyped

LEMMA ExitLeaves ==
    ASSUME TypeOK, ExitHook \/ \E c \in {0, 1} : SystemExit(c)
    PROVE  /\ \A t \in Threads \ {"exit"} : pc'[t] = pc[t]
           /\ frozen' /\ UNCHANGED <<scm, wk, ev, mainEvt, late>>
BY Goes, ThreadsDiffer DEF ExitHook, SystemExit, others, rest, worker, frozen, TypeOK

LEMMA SpawnLeaves ==
    ASSUME TypeOK, NEW s \in StopThreads,
           SpawnStop(s) \/ \E c \in {"STOP", "SHUTDOWN"} : ConsoleEvent(s, c)
    PROVE  /\ pc[s] = "idle" /\ pc'[s] = "begin"
           /\ pc'["disp"] # "freed" \/ pc'["disp"] = pc["disp"]
           /\ \A t \in Threads \ {s, "disp"} : pc'[t] = pc[t]
           /\ UNCHANGED <<svc, scm, rep, wk, ev, mainEvt, late>>
<1> USE ThreadsDiffer DEF TypeOK
<1>1. CASE SpawnStop(s)
    BY <1>1 DEF SpawnStop, rest, worker, PcTyped
<1> QED
    BY <1>1, Goes DEF ConsoleEvent, rest, worker

\* What a stop thread does.
LEMMA StopMoves ==
    ASSUME IInv, NEW s \in StopThreads, Stop(s)
    PROVE  /\ \A t \in Threads \ {s} : pc'[t] = pc[t]
           /\ pc[s] # "completed"
           /\ UNCHANGED <<scm, mainEvt, late>>
           /\ svc' = svc \/ svc'.state = "STOP_PENDING"
           /\ rep'["disp"] = rep["disp"]
<1> USE ThreadsDiffer DEF IInv, TypeOK
<1>1. UNCHANGED <<scm, mainEvt, late>>
    BY DEF Stop, StopBegin, StopCreate, StopJavaStarted, StopWorkerFinished, StopCleanup, StopWaitOver,
           StopKill, StopKilled, StopCompleted, rest
<1>2. (\A t \in Threads \ {s} : pc'[t] = pc[t]) /\ pc[s] # "completed"
    BY Goes DEF Stop, StopBegin, StopCreate, StopJavaStarted, StopWorkerFinished, StopCleanup, StopWaitOver,
                StopKill, StopKilled, StopCompleted, At
<1>3. (svc' = svc \/ svc'.state = "STOP_PENDING") /\ rep'["disp"] = rep["disp"]
    <2>1. CASE StopJavaStarted(s) \/ StopCleanup(s)
        BY <2>1, Writes DEF StopJavaStarted, StopCleanup
    <2> QED
        BY <2>1 DEF Stop, StopBegin, StopCreate, StopWorkerFinished, StopWaitOver, StopKill, StopKilled,
                    StopCompleted
<1> QED
    BY <1>1, <1>2, <1>3

LEMMA StopSets ==
    ASSUME IInv, NEW s \in StopThreads, Stop(s)
    PROVE  ev' = ev \/ (ev' = [ev EXCEPT ![s] = "reset"]) \/ pc'[s] = "completed"
BY Goes, ThreadsDiffer
   DEF Stop, StopBegin, StopCreate, StopJavaStarted, StopWorkerFinished, StopCleanup, StopWaitOver,
       StopKill, StopKilled, StopCompleted, IInv, TypeOK

LEMMA StopWorks ==
    ASSUME IInv, WorkerFirst, NEW s \in StopThreads, Stop(s)
    PROVE  /\ \A u \in StopThreads \ {s} : wk'[u] = wk[u]
           /\ pc'[s] \notin Waiting => wk'[s] \in {"none", "done"}
<1> USE ThreadsDiffer DEF IInv, TypeOK
<1>1. CASE StopBegin(s)
    BY <1>1 DEF StopBegin, At, WorkerFirst, Waiting, worker
<1>2. CASE StopCreate(s)
    <2>1. wk' = wk \/ (wk' = [wk EXCEPT ![s] = "init"] /\ pc'[s] = "java")
                   \/ (wk' = [wk EXCEPT ![s] = "run"] /\ pc'[s] = "working")
        BY <1>2, Goes DEF StopCreate, ChildExecuted
    <2> QED
        BY <1>2, <2>1 DEF StopCreate, At, WorkerFirst, Waiting, WorkersTyped
<1>3. CASE StopJavaStarted(s)
    <2>1. \/ wk' = [wk EXCEPT ![s] = "run"] /\ pc'[s] \in {"forced", "working"}
          \/ wk' = wk /\ wk[s] = "done"
        BY <1>3, Goes DEF StopJavaStarted
    <2> QED
        BY <2>1 DEF Waiting, WorkersTyped
<1>4. CASE StopWorkerFinished(s)
    BY <1>4 DEF StopWorkerFinished, Ended, worker
<1>5. CASE StopKill(s)
    <2>1. wk[s] \in {"none", "done"}
        BY <1>5 DEF StopKill, At, WorkerFirst, Waiting
    <2>2. \A u \in StopThreads : wk'[u] = wk[u]
        <3>1. CASE Kind("svc") = "jvm"
            BY <1>5, <3>1 DEF StopKill, JavaClosed, WorkersTyped
        <3>2. CASE Kind("svc") # "jvm"
            <4>1. wk' = [w \in Workers |-> IF w \in {"svc"} /\ wk[w] = "run" THEN "gone" ELSE wk[w]]
                BY <1>5, <3>2 DEF StopKill, ProcessClosed
            <4> QED
                BY <4>1
        <3> QED
            BY <3>1, <3>2
    <2> QED
        BY <2>1, <2>2
<1>6. CASE StopCleanup(s) \/ StopWaitOver(s) \/ StopKilled(s) \/ StopCompleted(s)
    BY <1>6 DEF StopCleanup, StopWaitOver, StopKilled, StopCompleted, At, WorkerFirst, Waiting, worker
<1> QED
    BY <1>1, <1>2, <1>3, <1>4, <1>5, <1>6 DEF Stop

\* The main thread on its way through its wait for the event.
LEMMA MainMoves ==
    ASSUME IInv, Main
    PROVE  /\ pc["main"] # "end"
           /\ \/ mainEvt' = mainEvt /\ pc'["main"] # "event"
              \/ pc["main"] = "wait" /\ pc'["main"] = "event" /\ mainEvt' # "null"
           /\ pc["main"] \in AfterEvent \cup {"event"} => pc'["main"] \in AfterEvent
           /\ pc["main"] = "event" => late' \/ ev[mainEvt] = "set"
           /\ late => late'
<1> USE ThreadsDiffer DEF IInv, TypeOK
<1>1. CASE WorkerFinished
    BY <1>1, Goes DEF WorkerFinished, At, AfterEvent, rest
<1>2. CASE ShutdownEventSeen(TRUE) \/ ShutdownEventSeen(FALSE)
    <2>1. late' \/ ev[mainEvt] = "set"
        BY <1>2 DEF ShutdownEventSeen
    <2>2. late => late'
        BY <1>2 DEF ShutdownEventSeen
    <2>3. pc["main"] = "event" /\ pc'["main"] = "destroyTimed" /\ mainEvt' = mainEvt
        BY <1>2, Goes DEF ShutdownEventSeen, At
    <2> QED
        BY <2>1, <2>2, <2>3 DEF AfterEvent
<1>3. CASE DestroyStart \/ DestroyWait
    BY <1>3, Goes DEF DestroyStart, DestroyWait, At, AfterEvent, rest
<1>4. CASE ReportStopping \/ ReportStopped
    BY <1>4, Goes DEF ReportStopping, ReportStopped, At, AfterEvent, rest
<1>5. CASE ResolveModes \/ Register \/ StartWorker \/ JavaStarted \/ ReportRunning
    BY <1>5, Goes DEF ResolveModes, Register, StartWorker, JavaStarted, ReportRunning, At, AfterEvent, rest
<1> QED
    BY <1>1, <1>2, <1>3, <1>4, <1>5 DEF Main

LEMMA MainReports ==
    ASSUME IInv, Main
    PROVE  /\ scm' = scm /\ rep'["disp"] = rep["disp"]
           /\ svc' = svc \/ svc'.state # "STOPPED" \/ pc'["main"] = "end"
<1> USE ThreadsDiffer DEF IInv, TypeOK
<1>1. CASE ReportStopped
    BY <1>1, Goes, Writes DEF ReportStopped, rest
<1> QED
    BY <1>1, Writes DEF Main, ResolveModes, Register, StartWorker, JavaStarted, ReportRunning, WorkerFinished,
                        ShutdownEventSeen, DestroyStart, DestroyWait, ReportStopping, silent, rest, rest1,
                        ReportsTyped

LEMMA MainSets ==
    ASSUME IInv, Main
    PROVE  \A s \in StopThreads : ev'[s] = "set" => ev[s] = "set"
<1>1. ev' = ev \/ ev' = [ev EXCEPT ![mainEvt] = "closed"]
    BY DEF Main, ResolveModes, Register, StartWorker, JavaStarted, ReportRunning, WorkerFinished,
           ShutdownEventSeen, DestroyStart, DestroyWait, ReportStopping, ReportStopped
<1> QED
    BY <1>1 DEF IInv, TypeOK, RestTyped

LEMMA StopInvKept == IInv /\ StopInv /\ [Next]_vars => StopInv'
<1> SUFFICES ASSUME IInv, StopInv, [Next]_vars PROVE StopInv'
    OBVIOUS
<1> USE ThreadsDiffer
<1>1. CASE Main
    <2>1. /\ \A t \in Threads \ {"main"} : pc'[t] = pc[t]
          /\ \A s \in StopThreads : wk'[s] = wk[s]
        BY <1>1, MainLeaves DEF IInv
    <2>2. (frozen' <=> frozen) /\ (Completed' <=> Completed)
        BY <2>1 DEF frozen, Completed
    <2>3. WorkerFirst' /\ EventSet'
        BY <1>1, <2>1, <2>2, MainSets DEF StopInv, WorkerFirst, EventSet
    <2>4. EventSeen'
        <3>1. pc["main"] = "event" /\ ~late' => Completed
            BY <1>1, MainMoves DEF StopInv, EventSet, EventSeen, IInv, TypeOK, RestTyped
        <3> QED
            BY <1>1, <2>2, <3>1, MainMoves DEF StopInv, EventSeen, AfterEvent
    <2>5. StoppedAtEnd'
        BY <1>1, <2>1, <2>2, MainMoves, MainReports DEF StopInv, StoppedAtEnd, Known
    <2> QED
        BY <2>3, <2>4, <2>5 DEF StopInv
<1>2. CASE Controlling
    <2>1. (frozen' <=> frozen) /\ (Completed' <=> Completed)
        BY <1>2, ControlLeaves DEF frozen, Completed, IInv
    <2>2. WorkerFirst'
        BY <1>2, ControlLeaves DEF StopInv, WorkerFirst, IInv
    <2>3. EventSet' /\ EventSeen'
        BY <1>2, <2>1, ControlLeaves DEF StopInv, EventSet, EventSeen, IInv
    <2>4. /\ svc' \in Known \/ svc'.state # "STOPPED"
          /\ rep'["disp"] \subseteq Known \cup {svc'}
        BY <1>2, Writes DEF Controlling, CtrlHandler, InterrogateAnswered, HandleManagerDestroy, ExitProcess,
                            ScmSends, Known, IInv, TypeOK, ReportsTyped, rest
    <2>5. pc'["disp"] = "freed" => \/ pc["disp"] = "freed"
                                   \/ scm.state = "STOPPED" \/ pc["main"] = "end"
        BY <1>2, Goes DEF Controlling, CtrlHandler, InterrogateAnswered, HandleManagerDestroy, ExitProcess,
                          ScmSends, IInv, TypeOK
    <2>6. StoppedAtEnd'
        <3>1. \A r \in Known' : r \in Known \/ r.state # "STOPPED"
            BY <1>2, <2>4, ControlLeaves DEF Known, IInv
        <3> QED
            BY <1>2, <2>1, <2>5, <3>1, ControlLeaves DEF StopInv, StoppedAtEnd, IInv
    <2> QED
        BY <2>2, <2>3, <2>6 DEF StopInv
<1>3. ASSUME NEW s \in StopThreads,
             SpawnStop(s) \/ \E c \in {"STOP", "SHUTDOWN"} : ConsoleEvent(s, c)
      PROVE  StopInv'
    <2>1. (frozen' <=> frozen) /\ (Completed' <=> Completed) /\ Known' = Known
        BY <1>3, SpawnLeaves DEF frozen, Completed, Known, IInv
    <2>2. WorkerFirst'
        BY <1>3, SpawnLeaves DEF StopInv, WorkerFirst, Waiting, IInv
    <2>3. EventSet' /\ EventSeen'
        BY <1>3, <2>1, SpawnLeaves DEF StopInv, EventSet, EventSeen, IInv
    <2>4. StoppedAtEnd'
        BY <1>3, <2>1, SpawnLeaves DEF StopInv, StoppedAtEnd, IInv
    <2> QED
        BY <2>2, <2>3, <2>4 DEF StopInv
<1>4. ASSUME NEW s \in StopThreads, Stop(s)
      PROVE  StopInv'
    <2>1. (frozen' <=> frozen) /\ (Completed => Completed')
        BY <1>4, StopMoves DEF frozen, Completed
    <2>2. WorkerFirst'
        BY <1>4, StopMoves, StopWorks DEF StopInv, WorkerFirst
    <2>3. EventSet'
        <3>1. CASE pc'[s] = "completed"
            BY <3>1 DEF EventSet, Completed
        <3>2. CASE pc'[s] # "completed"
            <4>1. \A u \in StopThreads : ev'[u] = "set" => ev[u] = "set"
                BY <1>4, <3>2, StopSets DEF IInv, TypeOK, RestTyped
            <4> QED
                BY <2>1, <4>1 DEF StopInv, EventSet
        <3> QED
            BY <3>1, <3>2
    <2>4. EventSeen'
        BY <1>4, <2>1, StopMoves DEF StopInv, EventSeen
    <2>5. StoppedAtEnd'
        BY <1>4, <2>1, StopMoves DEF StopInv, StoppedAtEnd, Known
    <2> QED
        BY <2>2, <2>3, <2>4, <2>5 DEF StopInv
<1>5. ASSUME NEW t \in Threads, SetServiceStatus(t)
      PROVE  StopInv'
    <2>1. UNCHANGED <<svc, pc, wk, ev, mainEvt, late>> /\ (frozen' <=> frozen) /\ (Completed' <=> Completed)
        BY <1>5 DEF SetServiceStatus, frozen, Completed
    <2>2. Known' \subseteq Known /\ (scm.state = "STOPPED" => scm' = scm)
        BY <1>5 DEF SetServiceStatus, Known, IInv, TypeOK, ReportsTyped
    <2> QED
        BY <2>1, <2>2 DEF StopInv, WorkerFirst, EventSet, EventSeen, StoppedAtEnd
<1>6. CASE Working
    <2>1. (frozen' <=> frozen) /\ (Completed' <=> Completed) /\ Known' = Known
        BY <1>6, WorkLeaves DEF frozen, Completed, Known, IInv
    <2>2. WorkerFirst' /\ EventSet' /\ EventSeen'
        BY <1>6, <2>1, WorkLeaves DEF StopInv, WorkerFirst, EventSet, EventSeen, IInv
    <2> QED
        BY <1>6, <2>1, <2>2, WorkLeaves DEF StopInv, StoppedAtEnd, IInv
<1>7. CASE ExitHook \/ \E c \in {0, 1} : SystemExit(c)
    <2>1. Completed' <=> Completed
        BY <1>7, ExitLeaves DEF Completed, IInv
    <2>2. WorkerFirst' /\ EventSet' /\ EventSeen'
        BY <1>7, <2>1, ExitLeaves DEF StopInv, WorkerFirst, EventSet, EventSeen, IInv
    <2> QED
        BY <1>7, <2>2, ExitLeaves DEF StopInv, StoppedAtEnd, IInv
<1>8. CASE UNCHANGED vars
    <2>1. (frozen' <=> frozen) /\ (Completed' <=> Completed) /\ Known' = Known
        BY <1>8 DEF vars, frozen, Completed, Known
    <2> QED
        BY <1>8, <2>1 DEF vars, StopInv, WorkerFirst, EventSet, EventSeen, StoppedAtEnd
<1> QED
    BY <1>1, <1>2, <1>3, <1>4, <1>5, <1>6, <1>7, <1>8
       DEF Next, Dispatcher, Controlling, Working, Terminated

\* When the SCM has heard of the end, or the handles are freed, the one stop thread
\* there was has come to its end and its worker before it, as long as the main thread
\* saw its event in time: nothing of the stop is cut off when the process goes.
THEOREM StopIsThrough == Spec => []StopOutlivesNothing
<1>1. IInv /\ StopInv => StopOutlivesNothing
    <2> SUFFICES ASSUME IInv, StopInv, scm.state = "STOPPED" \/ pc["disp"] = "freed",
                        mainEvt # "null", ~late, ~frozen,
                        Cardinality({s \in StopThreads : pc[s] # "idle"}) = 1,
                        NEW u \in StopThreads
                 PROVE  wk[u] \in {"none", "done"} /\ pc[u] \in {"idle", "completed"}
        BY DEF StopOutlivesNothing
    <2>1. pc["main"] = "end"
        BY DEF StopInv, StoppedAtEnd, Known
    <2>2. PICK t \in StopThreads : pc[t] = "completed"
        BY <2>1 DEF StopInv, EventSeen, Completed
    <2>3. u = t \/ pc[u] = "idle"
        <3>1. IsFiniteSet({s \in StopThreads : pc[s] # "idle"})
            BY ThreadsAssumption, FS_Subset
        <3>2. PICK v : {s \in StopThreads : pc[s] # "idle"} = {v}
            <4> DEFINE S == {s \in StopThreads : pc[s] # "idle"}
            <4>1. IsFiniteSet(S) /\ Cardinality(S) = 1
                BY <3>1
            <4> HIDE DEF S
            <4> QED
                BY <4>1, FS_Singleton DEF S
        <3> QED
            BY <2>2, <3>2
    <2> QED
        BY <2>2, <2>3 DEF StopInv, WorkerFirst, Waiting
<1>2. Spec => []StopInv
    BY InitStopInv, StopInvKept, Invariant, PTL DEF Spec
<1> QED
    BY <1>1, <1>2, Invariant, PTL

-----------------------------------------------------------------------------
(* The Java threads of a service that is STOPPED.                           *)

\* A worker that runs in the VM is attached, and a VM that is gone had no thread left.
Attached ==
    /\ \A w \in Workers : Kind(w) = "jvm" /\ wk[w] \in {"ready", "run"} => w \in attached
    /\ vm = "gone" => JavaQuiet

\* A Java service that was started has its VM until the main thread's destroyer has
\* returned or its minute has run out.
Started == {"running", "wait", "event", "destroy", "destroyTimed"}
VmServes ==
    /\ pc["main"] \in First \cup {"cleanup"} => ~gWorker
    /\ gWorker /\ Kind("svc") = "jvm" =>
          /\ pc["main"] \in Started \/ (pc["main"] = "java" /\ wk["svc"] = "ready") => vm = "up" /\ sysJvm
          /\ pc["main"] \in {"stopPending", "stopped", "end"} /\ ~late => vm = "gone"

JavaInv == Attached /\ VmServes

LEMMA InitJavaInv == Init => JavaInv
BY ThreadsDiffer DEF Init, JavaInv, Attached, VmServes, JavaQuiet

\* Steps that bring no worker into the VM, and take no thread or VM away.
LEMMA JavaUntouched ==
    ASSUME JavaInv, UNCHANGED <<cfg, gWorker, app, attached, vm>>,
           sysJvm => sysJvm', late => late',
           pc'["main"] = pc["main"] \/ {pc["main"], pc'["main"]} \subseteq Started
              \/ {pc["main"], pc'["main"]} \subseteq {"stopPending", "stopped", "end"},
           \A w \in Workers : /\ wk'[w] = "ready" => wk[w] = "ready"
                              /\ wk'[w] = "run" /\ Kind(w) = "jvm" => wk[w] \in {"ready", "run"}
    PROVE  JavaInv'
<1>1. \A w \in Workers : Kind(w)' = Kind(w)
    BY DEF Kind, Mode
<1>2. Attached'
    BY <1>1 DEF JavaInv, Attached, JavaQuiet
<1>3. VmServes'
    BY <1>1, ThreadsDiffer DEF JavaInv, VmServes, First, Started
<1> QED
    BY <1>2, <1>3 DEF JavaInv

LEMMA MainJava == TypeOK /\ JavaInv /\ Main => JavaInv'
<1> SUFFICES ASSUME TypeOK, JavaInv, Main PROVE JavaInv'
    OBVIOUS
<1> USE ThreadsDiffer DEF TypeOK
<1>0. UNCHANGED cfg /\ \A w \in Workers : Kind(w)' = Kind(w)
    BY DEF Main, ResolveModes, Register, StartWorker, JavaStarted, ReportRunning, WorkerFinished,
           ShutdownEventSeen, DestroyStart, DestroyWait, ReportStopping, ReportStopped, rest, rest1, Kind, Mode
<1>1. CASE ResolveModes \/ Register
    <2>1. /\ pc["main"] \in First /\ pc'["main"] \in First \cup {"cleanup"}
          /\ UNCHANGED <<gWorker, app, attached, vm, sysJvm, late, wk>>
        BY <1>1, Goes DEF ResolveModes, Register, At, First, rest, worker
    <2> QED
        BY <1>0, <2>1 DEF JavaInv, Attached, VmServes, JavaQuiet, First, Started
<1>2. CASE StartWorker
    <2>1. UNCHANGED <<app, attached, vm, late>> /\ pc["main"] = "start" /\ ~gWorker
        BY <1>2 DEF StartWorker, At, rest, JavaInv, VmServes, First
    <2>2. \/ wk' = wk /\ ~gWorker'
          \/ wk' = [wk EXCEPT !["svc"] = "init"] /\ pc'["main"] = "java"
          \/ wk' = [wk EXCEPT !["svc"] = "run"] /\ Kind("svc") = "exe"
        BY <1>2, <2>1, Goes DEF StartWorker, ChildExecuted
    <2>3. Attached'
        BY <1>0, <2>1, <2>2 DEF JavaInv, Attached, JavaQuiet, WorkersTyped
    <2>4. VmServes'
        <3>1. pc'["main"] \in {"java", "running"} \/ (pc'["main"] = "cleanup" /\ ~gWorker')
            BY <1>2, <2>1, Goes DEF StartWorker
        <3> QED
            BY <1>0, <2>2, <3>1 DEF VmServes, First, Started, WorkersTyped
    <2> QED
        BY <2>3, <2>4 DEF JavaInv
<1>3. CASE JavaStarted
    <2>1. /\ UNCHANGED <<app, attached, vm, sysJvm, late>> /\ pc["main"] = "java"
          /\ \/ /\ wk["svc"] = "ready" /\ wk' = [wk EXCEPT !["svc"] = "run"]
                /\ pc'["main"] = "running" /\ gWorker' = gWorker
             \/ wk' = wk /\ ~gWorker'
        BY <1>3, Goes DEF JavaStarted, At, rest
    <2>2. Attached'
        BY <1>0, <2>1 DEF JavaInv, Attached, JavaQuiet, WorkersTyped
    <2>3. VmServes'
        BY <1>0, <2>1 DEF JavaInv, VmServes, First, Started
    <2> QED
        BY <2>2, <2>3 DEF JavaInv
<1>4. CASE ReportRunning \/ WorkerFinished \/ ReportStopping
           \/ ShutdownEventSeen(TRUE) \/ ShutdownEventSeen(FALSE)
    <2>1. /\ UNCHANGED <<gWorker, app, attached, vm, sysJvm, wk>> /\ (late => late')
          /\ \/ {pc["main"], pc'["main"]} \subseteq Started
             \/ {pc["main"], pc'["main"]} \subseteq {"stopPending", "stopped", "end"}
        <3>1. CASE ReportRunning
            BY <3>1, Goes DEF ReportRunning, At, rest, worker, Started
        <3>2. CASE WorkerFinished
            BY <3>2, Goes DEF WorkerFinished, At, rest, worker, Started
        <3>3. ASSUME NEW x \in BOOLEAN, ShutdownEventSeen(x)
              PROVE  /\ UNCHANGED <<gWorker, app, attached, vm, sysJvm, wk>> /\ (late => late')
                     /\ {pc["main"], pc'["main"]} \subseteq Started
            BY <3>3, Goes DEF ShutdownEventSeen, At, rest1, worker, Started
        <3>4. CASE ReportStopping
            BY <3>4, Goes DEF ReportStopping, At, rest, worker
        <3> QED
            BY <1>4, <3>1, <3>2, <3>3, <3>4
    <2> QED
        BY <1>0, <2>1, JavaUntouched
<1>5. CASE ReportStopped
    <2>1. /\ UNCHANGED <<gWorker, app, attached, vm, sysJvm, wk, late>> /\ pc'["main"] = "end"
          /\ pc["main"] \in {"stopped", "cleanup"}
        BY <1>5, Goes DEF ReportStopped, At, rest, worker
    <2> QED
        BY <1>0, <2>1 DEF JavaInv, Attached, VmServes, JavaQuiet, First, Started
<1>6. CASE DestroyStart
    <2>1. /\ UNCHANGED <<gWorker, app, attached, vm, wk, late>> /\ pc["main"] \in Started
          /\ pc'["main"] \in {"destroying", "destroying1"} \/ (pc'["main"] = "stopPending" /\ ~sysJvm)
        BY <1>6, Goes DEF DestroyStart, At, rest, worker, Started
    <2> QED
        BY <1>0, <2>1 DEF JavaInv, Attached, VmServes, JavaQuiet, First, Started
<1>7. CASE DestroyWait
    <2>1. /\ UNCHANGED <<gWorker, app, attached, wk>> /\ pc'["main"] = "stopPending"
          /\ (JavaQuiet /\ vm' = "gone") \/ (late' /\ vm' = vm)
        BY <1>7, Goes DEF DestroyWait, At, rest1
    <2> QED
        BY <1>0, <2>1 DEF JavaInv, Attached, VmServes, JavaQuiet, First, Started
<1> QED
    BY <1>1, <1>2, <1>3, <1>4, <1>5, <1>6, <1>7 DEF Main

LEMMA StopJava ==
    ASSUME TypeOK, JavaInv, NEW s \in StopThreads, Stop(s)
    PROVE  JavaInv'
<1> USE ThreadsDiffer DEF TypeOK
<1>1. /\ UNCHANGED <<cfg, gWorker, attached, vm, late>> /\ (sysJvm => sysJvm')
      /\ pc'["main"] = pc["main"] /\ \A w \in Workers : Kind(w)' = Kind(w)
    <2>1. UNCHANGED <<cfg, gWorker, attached, vm, late>>
        BY DEF Stop, StopBegin, StopCreate, StopJavaStarted, StopWorkerFinished, StopCleanup, StopWaitOver,
               StopKill, StopKilled, StopCompleted, rest, worker
    <2>2. sysJvm => sysJvm'
        BY DEF Stop, StopBegin, StopCreate, StopJavaStarted, StopWorkerFinished, StopCleanup, StopWaitOver,
               StopKill, StopKilled, StopCompleted
    <2>3. pc'["main"] = pc["main"]
        <3>1. \E l : Goto(s, l)
            BY DEF Stop, StopBegin, StopCreate, StopJavaStarted, StopWorkerFinished, StopCleanup, StopWaitOver,
                   StopKill, StopKilled, StopCompleted
        <3> QED
            BY <3>1, Goes
    <2> QED
        BY <2>1, <2>2, <2>3 DEF Kind, Mode
<1>2. \A w \in Workers : /\ wk'[w] = "ready" => wk[w] = "ready"
                         /\ wk'[w] = "run" /\ Kind(w) = "jvm" => wk[w] \in {"ready", "run"}
    <2>1. CASE StopCreate(s)
        BY <2>1 DEF StopCreate, ChildExecuted, WorkersTyped
    <2>2. CASE StopJavaStarted(s)
        BY <2>2 DEF StopJavaStarted, WorkersTyped
    <2>3. CASE StopKill(s)
        <3>1. CASE Kind("svc") = "jvm"
            BY <2>3, <3>1 DEF StopKill, JavaClosed, WorkersTyped
        <3>2. CASE Kind("svc") # "jvm"
            BY <2>3, <3>2 DEF StopKill, ProcessClosed, WorkersTyped
        <3> QED
            BY <3>1, <3>2
    <2> QED
        BY <2>1, <2>2, <2>3 DEF Stop, StopBegin, StopWorkerFinished, StopCleanup, StopWaitOver,
                                StopKilled, StopCompleted, worker
<1>3. app' = app \/ (Kind("svc") = "jvm" /\ wk["svc"] = "run")
    <2>1. CASE StopKill(s)
        BY <2>1 DEF StopKill, JavaClosed, WorkersTyped, FlagsTyped
    <2> QED
        BY <2>1 DEF Stop, StopBegin, StopCreate, StopJavaStarted, StopWorkerFinished, StopCleanup,
                    StopWaitOver, StopKilled, StopCompleted, worker
<1>4. Attached'
    <2>1. vm = "gone" => app' = app
        BY <1>3 DEF JavaInv, Attached, JavaQuiet
    <2> QED
        BY <1>1, <1>2, <2>1 DEF JavaInv, Attached, JavaQuiet
<1>5. VmServes'
    BY <1>1, <1>2 DEF JavaInv, VmServes
<1> QED
    BY <1>4, <1>5 DEF JavaInv

LEMMA WorkJava == TypeOK /\ JavaInv /\ Working => JavaInv'
<1> SUFFICES ASSUME TypeOK, JavaInv, Working PROVE JavaInv'
    OBVIOUS
<1> USE ThreadsDiffer DEF TypeOK
<1>0. UNCHANGED <<cfg, gWorker, pc, late>> /\ \A w \in Workers : Kind(w)' = Kind(w)
    BY DEF Working, JavaWorkerInit, JavaWorkerEnds, ChildExits, OutputCloses, StoreExitCode, AppThreadsEnd,
           others, rest, Kind, Mode
<1>1. ASSUME NEW w \in Workers, JavaWorkerInit(w) PROVE JavaInv'
    <2>1. /\ app' = app /\ (sysJvm => sysJvm')
          /\ \/ UNCHANGED <<vm, attached>> /\ wk' = [wk EXCEPT ![w] = "done"]
             \/ /\ vm # "gone" /\ vm' = "up" /\ sysJvm' /\ attached' = attached \cup {w}
                /\ \E k \in {"ready", "done"} : wk' = [wk EXCEPT ![w] = k]
        BY <1>1 DEF JavaWorkerInit, JavaInitialize, WorkersTyped
    <2>2. Attached'
        BY <1>0, <2>1 DEF JavaInv, Attached, JavaQuiet, WorkersTyped
    <2>3. VmServes'
        BY <1>0, <2>1 DEF JavaInv, VmServes, WorkersTyped
    <2> QED
        BY <2>2, <2>3 DEF JavaInv
<1>2. ASSUME NEW w \in Workers, JavaWorkerEnds(w) PROVE JavaInv'
    <2>1. /\ UNCHANGED <<vm, sysJvm>> /\ attached' \in {attached, attached \ {w}}
          /\ Kind(w) = "jvm" /\ wk[w] = "run" /\ wk' = [wk EXCEPT ![w] = "done"]
        BY <1>2 DEF JavaWorkerEnds, others
    <2>2. vm # "gone"
        BY <2>1 DEF JavaInv, Attached, JavaQuiet
    <2>3. Attached'
        BY <1>0, <2>1, <2>2 DEF JavaInv, Attached, WorkersTyped
    <2>4. VmServes'
        BY <1>0, <2>1, <2>2 DEF JavaInv, VmServes, WorkersTyped
    <2> QED
        BY <2>3, <2>4 DEF JavaInv
<1>3. ASSUME NEW w \in Workers, ChildExits(w) \/ OutputCloses(w) \/ StoreExitCode(w)
      PROVE  JavaInv'
    <2>1. /\ UNCHANGED <<app, attached, vm, sysJvm>>
          /\ wk' = wk \/ \E k \in {"gone", "done"} : wk' = [wk EXCEPT ![w] = k]
        BY <1>3 DEF ChildExits, OutputCloses, StoreExitCode, others
    <2> QED
        BY <1>0, <2>1, JavaUntouched DEF WorkersTyped
<1>4. CASE AppThreadsEnd
    <2>1. UNCHANGED <<wk, attached, vm, sysJvm>> /\ ~app'
        BY <1>4 DEF AppThreadsEnd, others
    <2> QED
        BY <1>0, <2>1 DEF JavaInv, Attached, VmServes, JavaQuiet
<1> QED
    BY <1>1, <1>2, <1>3, <1>4 DEF Working

LEMMA JavaInvKept == TypeOK /\ JavaInv /\ [Next]_vars => JavaInv'
<1> SUFFICES ASSUME TypeOK, JavaInv, [Next]_vars PROVE JavaInv'
    OBVIOUS
<1> USE ThreadsDiffer DEF TypeOK
<1>1. CASE Controlling
    <2>1. UNCHANGED <<cfg, gWorker, app, attached, vm, sysJvm, late>> /\ pc'["main"] = pc["main"]
        BY <1>1, Goes DEF Controlling, CtrlHandler, InterrogateAnswered, HandleManagerDestroy, ExitProcess,
                          ScmSends, rest, worker
    <2>2. \A w \in Workers : wk'[w] \in {wk[w], "gone"}
        <3>1. CASE HandleManagerDestroy
            BY <3>1 DEF HandleManagerDestroy, ProcessClosed
        <3> QED
            BY <1>1, <3>1 DEF Controlling, CtrlHandler, InterrogateAnswered, ExitProcess, ScmSends, worker
    <2> QED
        BY <2>1, <2>2, JavaUntouched
<1>2. ASSUME NEW s \in StopThreads,
             SpawnStop(s) \/ \E c \in {"STOP", "SHUTDOWN"} : ConsoleEvent(s, c)
      PROVE  JavaInv'
    <2>1. UNCHANGED <<cfg, gWorker, app, attached, vm, sysJvm, late, wk>>
        BY <1>2 DEF SpawnStop, ConsoleEvent, rest, worker
    <2>2. pc'["main"] = pc["main"]
        BY <1>2, SpawnLeaves
    <2> QED
        BY <2>1, <2>2, JavaUntouched
<1>3. ASSUME NEW t \in Threads, SetServiceStatus(t) PROVE JavaInv'
    BY <1>3, JavaUntouched DEF SetServiceStatus
<1>4. CASE ExitHook \/ \E c \in {0, 1} : SystemExit(c)
    <2>1. UNCHANGED <<cfg, gWorker, app, attached, vm, sysJvm, late, wk>>
        BY <1>4 DEF ExitHook, SystemExit, others, rest, worker
    <2>2. pc'["main"] = pc["main"]
        BY <1>4, ExitLeaves
    <2> QED
        BY <2>1, <2>2, JavaUntouched
<1>5. CASE UNCHANGED vars
    BY <1>5, JavaUntouched DEF vars
<1> QED
    BY <1>1, <1>2, <1>3, <1>4, <1>5, MainJava, StopJava, WorkJava
       DEF Next, Dispatcher, Controlling, Working, Terminated

\* The SCM is told STOPPED only when the service's worker has ended, or is being
\* taken down by its System.exit, whatever thread says it and however their reports
\* cross; and of a Java service that had come up no Java thread is then left, killed
\* or not, unless the main thread has waited its minute in vain.
THEOREM StoppedIsOver == Spec => []StoppedMeansOver
<1>1. IInv /\ StopInv /\ JavaInv => StoppedMeansOver
    <2> SUFFICES ASSUME IInv, StopInv, JavaInv, scm.state = "STOPPED", ~frozen
                 PROVE  Ended("svc") /\ (Kind("svc") = "jvm" /\ gWorker /\ ~late => JavaQuiet)
        BY DEF StoppedMeansOver
    <2>1. pc["main"] = "end"
        BY DEF StopInv, StoppedAtEnd, Known
    <2> QED
        BY <2>1 DEF IInv, WorkerKnown, Through, JavaInv, Attached, VmServes
<1>2. Spec => [](StopInv /\ JavaInv)
    <2>1. IInv => TypeOK
        BY DEF IInv
    <2> QED
        BY <2>1, InitStopInv, StopInvKept, InitJavaInv, JavaInvKept, Invariant, PTL DEF Spec
<1> QED
    BY <1>1, <1>2, Invariant, PTL
=============================================================================
