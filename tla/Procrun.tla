------------------------------- MODULE Procrun -------------------------------
(***************************************************************************)
(* The Windows service process of commons-daemon (prunsrv //RS//), with    *)
(* the Java and process workers it runs (javajni.c, rprocess.c): the       *)
(* threads of one process from the start of serviceMain to ExitProcess,    *)
(* and the service control manager (SCM) at the other end.                 *)
(*                                                                         *)
(*   main    the thread of serviceMain                                     *)
(*   disp    the thread of main(): it runs the control handler, and the    *)
(*           tear-down when the dispatcher returns                         *)
(*   exit    the Java thread that called System.exit and runs the hooks    *)
(*   StopThreads  the threads that run serviceStop: the control handler    *)
(*           creates one, a console event runs one on a thread of its own  *)
(*                                                                         *)
(* A worker is named by who started it: "svc" is the service itself, and   *)
(* the stop worker of stop thread s is s.  All threads report through the  *)
(* one unprotected _service_status: a report writes it, then sends it as it *)
(* is by then.                                                             *)
(***************************************************************************)
EXTENDS Integers, JavaRuntime

CONSTANTS
    ScmStops,       \* bound: stop threads the control handler can create
    ConsoleStops,   \* bound: console events that run serviceStop
    Configs         \* the configurations tried

StopThreads == ScmStops \cup ConsoleStops

(* How it runs, what its worker and its stop command are, StopTimeout; and  *)
(* two bounds: INTERROGATE controls and console events in a behaviour.      *)
Config == [mode : {"service", "console"}, start : {"jvm", "java", "exe"},
           stop : {"none", "jvm", "system", "java", "exe"}, timeout : {"zero", "finite", "infinite"},
           queries : Nat, events : Nat]

ASSUME ConfigsAssumption == \A c \in Configs : c \in Config
ASSUME ThreadsAssumption ==
    /\ {"main", "disp", "exit", "svc", "null"} \cap StopThreads = {}
    /\ ScmStops \cap ConsoleStops = {}
    /\ IsFiniteSet(StopThreads)

VARIABLES
    cfg,        \* the configuration
    svc,        \* _service_status
    scm,        \* the status the SCM was given last
    rep,        \* the status a thread has written and not sent yet, in a set
    pc,         \* where each thread is
    limit,      \* the stop timeout each stop thread goes by
    wk,         \* the workers
    code,       \* exit codes of children not stored yet
    held,       \* children whose output other processes hold open
    app,        \* Java threads of the service besides the workers are alive
    attached,   \* workers whose thread the Java VM counts among its own
    vm,         \* the Java VM: "none", "up", "gone"
    sysJvm,     \* _st_sys_jvm is set
    vmExit,     \* vmExitCode
    gWorker,    \* gWorker is a valid handle
    handle,     \* _service_mode and a registered status handle
    hooks,      \* functions passed to _onexit
    gEvt,       \* gShutdownEvent: the stop thread that created it
    ev,         \* the events so created
    mainEvt,    \* the event the main thread waits for
    rc,         \* what serviceStart returned
    ctl,        \* the control the SCM has sent and the handler has to take
    queries,    \* INTERROGATE controls sent
    alive,      \* the process exists
    stale,      \* history: INTERROGATE was answered with an overtaken status
    mixed,      \* history: a thread sent what another had written meanwhile
    late        \* history: the main thread's minute ran out

vars == <<cfg, svc, scm, rep, pc, limit, wk, code, held, app, attached, vm, sysJvm, vmExit, gWorker, handle,
          hooks, gEvt, ev, mainEvt, rc, ctl, queries, alive, stale, mixed, late>>

Threads == {"main", "disp", "exit"} \cup StopThreads
Workers == {"svc"} \cup StopThreads
States == {"START_PENDING", "RUNNING", "STOP_PENDING", "STOPPED"}
KILLED == 7         \* CHILD_TERMINATE_CODE
Codes == 0 .. KILLED
Status(st, x) == [state |-> st, exit |-> x]

(* What worker w is, by the mode of the service or of the stop command: a   *)
(* Java thread in this process, or a child process.                         *)
Mode(w) == IF w = "svc" THEN cfg.start ELSE cfg.stop
Kind(w) == CASE Mode(w) \in {"jvm", "system"} -> "jvm"
             [] Mode(w) \in {"java", "exe"} -> "exe" [] OTHER -> "none"

(* The two threads that read a child's output end when nobody holds the     *)
(* other end.                                                               *)
OutputRead(w) == w \notin held

(* apxHandleWait: the Java worker's thread has ended, or all three threads  *)
(* that serve a child process.                                              *)
Ended(w) == wk[w] \in {"done", "none"} /\ OutputRead(w)

(* reportServiceStatusE up to SetServiceStatus: thread t writes the fields; *)
(* without a status handle nothing happens.                                 *)
silent == UNCHANGED <<svc, rep>>
Report(t, st, x) ==
    IF handle THEN /\ svc' = Status(st, x)
                   /\ rep' = [rep EXCEPT ![t] = {Status(st, x)}]
              ELSE silent

Goto(t, l) == pc' = [pc EXCEPT ![t] = l]

(* Thread t is at l and is not in the middle of a report. *)
At(t, l) == alive /\ pc[t] = l /\ rep[t] = {}

Init ==
    /\ cfg \in Configs
    /\ svc = Status("START_PENDING", 0) /\ scm = svc
    /\ rep = [t \in Threads |-> {}]
    /\ pc = [t \in Threads |-> CASE t = "main" -> "modes" [] t = "disp" -> "loop"
                                 [] OTHER -> "idle"]
    /\ limit = [s \in StopThreads |-> cfg.timeout]
    /\ wk = [w \in Workers |-> "none"] /\ code = [w \in Workers |-> 0] /\ held = {}
    /\ app = FALSE /\ attached = {} /\ vm = "none" /\ sysJvm = FALSE /\ vmExit = 0
    /\ gWorker = FALSE /\ handle = FALSE /\ hooks = {}
    /\ gEvt = "null" /\ ev = [s \in StopThreads |-> "none"] /\ mainEvt = "null"
    /\ rc = 0 /\ ctl = "none" /\ queries = 0
    /\ alive = TRUE /\ stale = FALSE /\ mixed = FALSE /\ late = FALSE

------------------------------------------------------------------------------
(* SetServiceStatus: the structure, as it is by now, goes to the SCM, which *)
(* takes no further report from a service that is STOPPED.  Controls are    *)
(* accepted while it is RUNNING.                                            *)
SetServiceStatus(t) ==
    /\ alive /\ rep[t] # {} /\ ~(t = "disp" /\ pc[t] = "answer")
    /\ scm' = IF scm.state = "STOPPED" THEN scm ELSE svc
    /\ rep' = [rep EXCEPT ![t] = {}]
    /\ mixed' = (mixed \/ svc \notin rep[t])
    /\ UNCHANGED <<cfg, svc, pc, limit, wk, code, held, app, attached, vm, sysJvm, vmExit, gWorker, handle,
                   hooks, gEvt, ev, mainEvt, rc, ctl, queries, alive, stale, late>>

------------------------------------------------------------------------------
(* serviceMain. *)
rest == <<cfg, scm, queries, alive, stale, mixed, late>>
rest1 == <<cfg, scm, queries, alive, stale, mixed>>
worker == <<wk, code, held, app, attached, vm, vmExit>>

(* The modes of start and stop.  The mode java needs a home, for the start  *)
(* and then for the stop; if there is none the service ends, before it has  *)
(* a status handle.                                                         *)
HomeFound(e, choice) ==
    /\ cfg.start = "java" => JavaHome(e, choice) # "none"
    /\ cfg.stop = "java" =>
          JavaHome(IF cfg.start = "java" THEN AfterJavaHome(e, choice) ELSE e, choice) # "none"

ResolveModes ==
    /\ At("main", "modes")
    /\ \E e \in Setups, choice \in {"none", "jdk", "jre", "path"} :
          Goto("main", IF HomeFound(e, choice) THEN "register" ELSE "cleanup")
    /\ UNCHANGED <<rest, svc, rep, worker, sysJvm, gWorker, handle, hooks, gEvt, ev, mainEvt,
                   rc, ctl, limit>>

Register ==
    /\ At("main", "register")
    /\ \/ /\ cfg.mode = "console"
          /\ Goto("main", "start")
          /\ UNCHANGED handle /\ silent
       \/ /\ cfg.mode = "service"
          /\ handle' = TRUE
          /\ Goto("main", "start")
          /\ rep' = [rep EXCEPT !["main"] = {Status("START_PENDING", 0)}]
          /\ UNCHANGED svc
       \/ /\ cfg.mode = "service"
          /\ Goto("main", "cleanup")
          /\ UNCHANGED handle /\ silent
    /\ UNCHANGED <<rest, worker, sysJvm, gWorker, hooks, gEvt, ev, mainEvt, rc, ctl, limit>>

(* serviceStart.  A pid file that cannot be deleted, no library or no image:*)
(* 1.  A child can also fail to be set up or executed (apxProcessExecute).  *)
ChildExecuted(w) == wk' = [wk EXCEPT ![w] = "run"]

StartWorker ==
    /\ At("main", "start")
    /\ \/ /\ rc' = 1
          /\ Goto("main", "cleanup")
          /\ UNCHANGED <<gWorker, wk, hooks>>
       \/ /\ Kind("svc") = "jvm"
          /\ \E e \in Setups, given \in {"none", "given"} : LoadJvmDll(e, given)
          /\ gWorker' = TRUE
          /\ hooks' = hooks \cup {"start"}
          /\ wk' = [wk EXCEPT !["svc"] = "init"]
          /\ Goto("main", "java")
          /\ UNCHANGED rc
       \/ /\ Kind("svc") = "exe" /\ ChildExecuted("svc")
          /\ gWorker' = TRUE
          /\ Goto("main", "running")
          /\ UNCHANGED <<rc, hooks>>
       \/ /\ Kind("svc") = "exe"
          /\ rc' \in 2 .. 5         \* executable, arguments, path, execute
          /\ Goto("main", "cleanup")
          /\ UNCHANGED <<gWorker, wk, hooks>>
    /\ UNCHANGED <<rest, svc, rep, code, held, app, attached, vm, vmExit, sysJvm, handle, gEvt, ev,
                   mainEvt, ctl, limit>>

(* apxJavaStart waits for the worker's first signal. *)
JavaStarted ==
    /\ At("main", "java")
    /\ \/ /\ wk["svc"] = "ready"
          /\ wk' = [wk EXCEPT !["svc"] = "run"]
          /\ Goto("main", "running")
          /\ UNCHANGED <<rc, gWorker>>
       \/ /\ wk["svc"] = "done"
          /\ rc' = 4 /\ gWorker' = FALSE
          /\ Goto("main", "cleanup")
          /\ UNCHANGED wk
    /\ UNCHANGED <<rest, svc, rep, code, held, app, attached, vm, vmExit, sysJvm, handle, hooks, gEvt, ev,
                   mainEvt, ctl, limit>>

ReportRunning ==
    /\ At("main", "running")
    /\ Report("main", "RUNNING", 0)
    /\ Goto("main", "wait")
    /\ UNCHANGED <<rest, worker, sysJvm, gWorker, handle, hooks, gEvt, ev, mainEvt, rc,
                   ctl, limit>>

(* Mutant: the main thread does not wait for the worker. *)
WorkerUnwaited ==
    /\ At("main", "wait")
    /\ IF gEvt # "null"
       THEN Report("main", "STOP_PENDING", 0) /\ Goto("main", "event") /\ mainEvt' = gEvt
       ELSE Goto("main", "destroy") /\ UNCHANGED mainEvt /\ silent
    /\ UNCHANGED <<rest, worker, sysJvm, gWorker, handle, hooks, gEvt, ev, rc, ctl,
                   limit>>

(* The worker has ended: is there a shutdown event? *)
WorkerFinished ==
    /\ At("main", "wait")
    /\ Ended("svc")
    /\ IF gEvt # "null"
       THEN Report("main", "STOP_PENDING", 0) /\ Goto("main", "event") /\ mainEvt' = gEvt
       ELSE Goto("main", "destroy") /\ UNCHANGED mainEvt /\ silent
    /\ UNCHANGED <<rest, worker, sysJvm, gWorker, handle, hooks, gEvt, ev, rc, ctl,
                   limit>>

(* Mutant: the shutdown event is closed without a wait for it. *)
ShutdownEventUnseen(timedOut) ==
    /\ At("main", "event")
    /\ ev' = [ev EXCEPT ![mainEvt] = "closed"]
    /\ Report("main", "STOP_PENDING", 0)
    /\ Goto("main", "destroyTimed")
    /\ late' = (late \/ timedOut)
    /\ UNCHANGED <<rest1, worker, sysJvm, gWorker, handle, hooks, gEvt, mainEvt, rc, ctl, limit>>

(* The wait for the shutdown event ends with the event or after a minute. *)
ShutdownEventSeen(timedOut) ==
    /\ At("main", "event")
    /\ timedOut \/ ev[mainEvt] = "set"
    /\ ev' = [ev EXCEPT ![mainEvt] = "closed"]
    /\ Report("main", "STOP_PENDING", 0)
    /\ Goto("main", "destroyTimed")
    /\ late' = (late \/ timedOut)
    /\ UNCHANGED <<rest1, worker, sysJvm, gWorker, handle, hooks, gEvt, mainEvt, rc, ctl, limit>>

(* DestroyJavaVM returns when no Java thread but the destroyer's is left; a  *)
(* thread that has ended, or was terminated, without being detached counts  *)
(* for ever.                                                                *)
JavaQuiet == ~app /\ attached = {}

(* apxDestroyJvm starts the destroyer; without a JVM there is none. *)
DestroyStart ==
    \E l \in {"destroy", "destroyTimed"} :
        /\ At("main", l)
        /\ IF sysJvm THEN Goto("main", IF l = "destroy" THEN "destroying" ELSE "destroying1")
                     ELSE Goto("main", "stopPending")
        /\ sysJvm' = FALSE
        /\ UNCHANGED <<rest, svc, rep, worker, gWorker, handle, hooks, gEvt, ev, mainEvt, rc, ctl, limit>>

DestroyWait ==
    /\ \E l \in {"destroying", "destroying1"} : At("main", l)
    /\ \/ JavaQuiet /\ vm' = "gone" /\ UNCHANGED late
       \/ pc["main"] = "destroying1" /\ late' = TRUE /\ UNCHANGED vm
    /\ Goto("main", "stopPending")
    /\ UNCHANGED <<rest1, svc, rep, wk, code, held, app, attached, vmExit, sysJvm, gWorker, handle, hooks, gEvt, ev,
                   mainEvt, rc, ctl, limit>>

ReportStopping ==
    /\ At("main", "stopPending")
    /\ Goto("main", "stopped")
    /\ IF mainEvt = "null" THEN Report("main", "STOP_PENDING", 0) ELSE silent
    /\ UNCHANGED <<rest, worker, sysJvm, gWorker, handle, hooks, gEvt, ev, mainEvt, rc, ctl, limit>>

(* Mutant: a failed start is not reported. *)
ReportStoppedOnSuccess ==
    /\ \/ At("main", "stopped") /\ Report("main", "STOPPED", vmExit)
       \/ At("main", "cleanup") /\ silent
    /\ Goto("main", "end")
    /\ UNCHANGED <<rest, worker, sysJvm, gWorker, handle, hooks, gEvt, ev, mainEvt, rc, ctl, limit>>

(* reportServiceStatusStopped, with the exit code or what serviceStart said. *)
ReportStopped ==
    /\ \/ At("main", "stopped") /\ Report("main", "STOPPED", vmExit)
       \/ At("main", "cleanup") /\ Report("main", "STOPPED", rc)
    /\ Goto("main", "end")
    /\ UNCHANGED <<rest, worker, sysJvm, gWorker, handle, hooks, gEvt, ev, mainEvt, rc, ctl, limit>>

------------------------------------------------------------------------------
(* The SCM sends one control at a time, STOP and SHUTDOWN only to a service *)
(* that accepts them; the handler runs on the dispatcher's thread.          *)
ScmSends(c) ==
    /\ alive /\ handle /\ ctl = "none" /\ At("disp", "loop")
    /\ scm.state # "STOPPED"
    /\ IF c = "INTERROGATE" THEN queries < cfg.queries
       ELSE scm.state = "RUNNING" /\ \E s \in ScmStops : pc[s] = "idle"
    /\ ctl' = c
    /\ queries' = IF c = "INTERROGATE" THEN queries + 1 ELSE queries
    /\ UNCHANGED <<cfg, svc, scm, alive, stale, mixed, late, rep, pc, worker, sysJvm, gWorker, handle, hooks,
                   gEvt, ev, mainEvt, rc, limit>>

(* service_ctrl_handler: INTERROGATE reads the status and reports it again; *)
(* STOP and SHUTDOWN report STOP_PENDING, then create the stop thread.      *)
CtrlHandler ==
    /\ At("disp", "loop") /\ ctl # "none"
    /\ IF ctl = "INTERROGATE"
       THEN Goto("disp", "answer") /\ rep' = [rep EXCEPT !["disp"] = {svc}] /\ UNCHANGED svc
       ELSE Goto("disp", "spawn") /\ Report("disp", "STOP_PENDING", 0)
    /\ UNCHANGED <<rest, worker, sysJvm, gWorker, handle, hooks, gEvt, ev, mainEvt, rc, ctl, limit>>

InterrogateAnswered ==
    /\ alive /\ pc["disp"] = "answer"
    /\ svc' \in rep["disp"]
    /\ stale' = (stale \/ svc' # svc)
    /\ Goto("disp", "loop") /\ ctl' = "none"
    /\ UNCHANGED <<cfg, scm, queries, alive, mixed, late, rep, worker, sysJvm, gWorker, handle,
                   hooks, gEvt, ev, mainEvt, rc, limit>>

(* The time serviceStop has by its control code: at SHUTDOWN never more     *)
(* than the system allows.                                                  *)
Limit(c) == IF c = "SHUTDOWN" /\ cfg.timeout = "infinite" THEN "finite" ELSE cfg.timeout

SpawnStop(s) ==
    /\ At("disp", "spawn") /\ pc[s] = "idle"
    /\ pc' = [pc EXCEPT !["disp"] = "loop", ![s] = "begin"]
    /\ limit' = [limit EXCEPT ![s] = Limit(ctl)]
    /\ ctl' = "none"
    /\ UNCHANGED <<rest, svc, rep, worker, sysJvm, gWorker, handle, hooks, gEvt, ev, mainEvt, rc>>

(* Mutant: the console handler is set before the service reports RUNNING. *)
ConsoleEventEarly(s, c) ==
    /\ alive /\ pc["main"] \notin {"modes", "register", "start", "java", "cleanup"}
    /\ pc[s] = "idle" /\ s = CHOOSE t \in ConsoleStops : pc[t] = "idle"
    /\ Cardinality({t \in ConsoleStops : pc[t] # "idle"}) < cfg.events
    /\ Goto(s, "begin")
    /\ limit' = [limit EXCEPT ![s] = Limit(c)]
    /\ UNCHANGED <<rest, svc, rep, worker, sysJvm, gWorker, handle, hooks, gEvt, ev, mainEvt, rc,
                   ctl>>

(* console_handler, set once the service runs: Ctrl+C, close and the        *)
(* system's shutdown run serviceStop on a thread the system makes for the   *)
(* event.                                                                   *)
ConsoleEvent(s, c) ==
    /\ alive /\ pc["main"] \notin {"modes", "register", "start", "java", "running", "cleanup"}
    /\ pc["main"] = "wait" => rep["main"] = {}
    /\ pc[s] = "idle" /\ s = CHOOSE t \in ConsoleStops : pc[t] = "idle"
    /\ Cardinality({t \in ConsoleStops : pc[t] # "idle"}) < cfg.events
    /\ Goto(s, "begin")
    /\ limit' = [limit EXCEPT ![s] = Limit(c)]
    /\ UNCHANGED <<rest, svc, rep, worker, sysJvm, gWorker, handle, hooks, gEvt, ev, mainEvt, rc,
                   ctl>>

------------------------------------------------------------------------------
(* __apxJavaJniCallback: WM_CLOSE terminates the Java worker's thread, if   *)
(* the VM is not being destroyed; it stays attached, and the other Java     *)
(* threads the service may have made live on.                               *)
JavaClosed(w) ==
    /\ wk' = IF sysJvm /\ wk[w] # "none" THEN [wk EXCEPT ![w] = "done"] ELSE wk
    /\ app' \in {app, app \/ (sysJvm /\ wk[w] = "run")}
    /\ UNCHANGED code

(* __apxProcessClose: a second after its stdin is closed, the child is made *)
(* to call ExitProcess, then terminated.  Its handle is closed, before its  *)
(* exit code has been read (which is then 0) or after.                      *)
ProcessClosed(ws) ==
    /\ wk' = [w \in Workers |-> IF w \in ws /\ wk[w] = "run" THEN "gone" ELSE wk[w]]
    /\ \E c \in {0, 1, KILLED} :
          code' = [w \in Workers |->
                      IF w \in ws /\ (wk[w] = "run" \/ (wk[w] = "gone" /\ c = 0)) THEN c ELSE code[w]]

(* serviceStop on stop thread s: without a worker there is nothing to do. *)
StopBegin(s) ==
    /\ At(s, "begin")
    /\ Goto(s, IF ~gWorker THEN "failed" ELSE IF cfg.stop = "none" THEN "cleanup" ELSE "create")
    /\ UNCHANGED <<rest, svc, rep, worker, sysJvm, gWorker, handle, hooks, gEvt, ev, mainEvt, rc,
                   ctl, limit>>

(* The stop worker is created and started.  A failure to create it ends the *)
(* thread at once; a child that cannot be set up or executed does not.      *)
StopCreate(s) ==
    /\ At(s, "create")
    /\ \/ Goto(s, "failed") /\ UNCHANGED <<wk, hooks, gEvt, ev, sysJvm>>
       \/ /\ Kind(s) = "jvm"
          /\ hooks' = hooks \cup {"stop"}
          /\ gEvt' = s /\ ev' = [ev EXCEPT ![s] = "reset"]
          /\ wk' = [wk EXCEPT ![s] = "init"]
          /\ sysJvm' = (sysJvm \/ vm = "up")
          /\ Goto(s, "java")
       \/ /\ Kind(s) = "exe" /\ ChildExecuted(s)
          /\ Goto(s, "working")
          /\ UNCHANGED <<hooks, gEvt, ev, sysJvm>>
       \/ /\ Kind(s) = "exe"
          /\ Goto(s, "cleanup")
          /\ UNCHANGED <<wk, hooks, gEvt, ev, sysJvm>>
    /\ UNCHANGED <<rest, svc, rep, code, held, app, attached, vm, vmExit, gWorker, handle, mainEvt, rc, ctl,
                   limit>>

(* A forced System.exit is left to finish on its own. *)
StopJavaStarted(s) ==
    /\ At(s, "java")
    /\ \/ /\ wk[s] = "ready"
          /\ wk' = [wk EXCEPT ![s] = "run"]
          /\ IF cfg.stop = "system" THEN Report(s, "STOP_PENDING", 0) /\ Goto(s, "forced")
                                    ELSE Goto(s, "working") /\ silent
       \/ wk[s] = "done" /\ Goto(s, "cleanupDie") /\ UNCHANGED wk /\ silent
    /\ UNCHANGED <<rest, code, held, app, attached, vm, vmExit, sysJvm, gWorker, handle, hooks, gEvt, ev,
                   mainEvt, rc, ctl, limit>>

StopWorkerFinished(s) ==
    /\ At(s, "working") /\ Ended(s)
    /\ Goto(s, "cleanupDie")
    /\ UNCHANGED <<rest, svc, rep, worker, sysJvm, gWorker, handle, hooks, gEvt, ev, mainEvt, rc,
                   ctl, limit>>

(* How long to wait for the service to die: five minutes if a stop worker   *)
(* ran and no time is set.                                                  *)
Patience(s) == IF limit[s] = "zero" /\ pc[s] = "cleanupDie" THEN "finite" ELSE limit[s]

(* The wait for the service's worker begins. *)
StopCleanup(s) ==
    /\ At(s, "cleanup") \/ At(s, "cleanupDie")
    /\ Report(s, "STOP_PENDING", 0)
    /\ Goto(s, Patience(s))
    /\ UNCHANGED <<rest, worker, sysJvm, gWorker, handle, hooks, gEvt, ev, mainEvt, rc, ctl,
                   limit>>

StopWaitOver(s) ==
    /\ At(s, "finite") \/ At(s, "infinite")
    /\ Ended("svc")
    /\ Goto(s, "signal")
    /\ UNCHANGED <<rest, svc, rep, worker, sysJvm, gWorker, handle, hooks, gEvt, ev, mainEvt, rc,
                   ctl, limit>>


(* The time is over, or there is none: WM_CLOSE to the worker. *)
StopKill(s) ==
    /\ At(s, "finite") \/ At(s, "zero")
    /\ ~Ended("svc")
    /\ IF Kind("svc") = "jvm" THEN JavaClosed("svc") ELSE ProcessClosed({"svc"}) /\ UNCHANGED app
    /\ Goto(s, "killing")
    /\ UNCHANGED <<rest, svc, rep, held, attached, vm, vmExit, sysJvm, gWorker, handle, hooks, gEvt, ev,
                   mainEvt, rc, ctl, limit>>

(* The callback of a process waits for its three threads, without limit. *)
StopKilled(s) ==
    /\ At(s, "killing")
    /\ Kind("svc") = "exe" => Ended("svc")
    /\ Goto(s, "signal")
    /\ UNCHANGED <<rest, svc, rep, worker, sysJvm, gWorker, handle, hooks, gEvt, ev, mainEvt, rc,
                   ctl, limit>>

(* SetEvent(gShutdownEvent): none yet, or closed already, and nothing happens. *)
StopCompleted(s) ==
    /\ \/ At(s, "signal")
       \/ At(s, "zero") /\ Ended("svc")
    /\ ev' = IF gEvt # "null" /\ ev[gEvt] = "reset" THEN [ev EXCEPT ![gEvt] = "set"] ELSE ev
    /\ Goto(s, "completed")
    /\ UNCHANGED <<rest, svc, rep, worker, sysJvm, gWorker, handle, hooks, gEvt, mainEvt, rc, ctl, limit>>

------------------------------------------------------------------------------
(* The workers. *)
frozen == pc["exit"] # "idle"
others == <<rest, svc, rep, sysJvm, gWorker, handle, hooks, gEvt, ev, mainEvt, rc, ctl, limit>>

(* apxJavaInitialize: the VM is attached to if it is there and not being    *)
(* destroyed, else created; a process cannot create a second one.           *)
JavaInitialize == CASE vm = "none" -> {"created", "failed"}
                    [] vm = "up" /\ sysJvm -> {"attached", "failed"}
                    [] OTHER -> {"failed"}

(* apxJavaLoadMainClass: the class and its static method are there, or not. *)
JavaLoadMainClass == BOOLEAN

(* __apxJavaWorkerThread up to its signal; without the class it ends here,  *)
(* and is not detached.                                                     *)
JavaWorkerInit(w) ==
    /\ alive /\ ~frozen /\ Kind(w) = "jvm" /\ wk[w] = "init"
    /\ \E r \in JavaInitialize, found \in JavaLoadMainClass :
          /\ wk' = [wk EXCEPT ![w] = IF r # "failed" /\ found THEN "ready" ELSE "done"]
          /\ vm' = IF r = "created" THEN "up" ELSE vm
          /\ sysJvm' = (sysJvm \/ r = "created")
          /\ attached' = IF r = "failed" THEN attached ELSE attached \cup {w}
    /\ UNCHANGED <<rest, svc, rep, pc, gWorker, handle, hooks, gEvt, ev, mainEvt, rc, ctl,
                   limit, code, held, app, vmExit>>

(* The static method returns, leaving other threads or none, or throws.     *)
(* The worker is detached, if the VM is not being destroyed.                *)
JavaWorkerEnds(w) ==
    /\ alive /\ ~frozen /\ Kind(w) = "jvm" /\ wk[w] = "run"
    /\ w # "svc" => cfg.stop # "system"
    /\ wk' = [wk EXCEPT ![w] = "done"]
    /\ app' \in {app, TRUE}
    /\ attached' = IF sysJvm THEN attached \ {w} ELSE attached
    /\ vmExit' \in {vmExit, 1}
    /\ UNCHANGED <<others, pc, code, held, vm>>

AppThreadsEnd ==
    /\ alive /\ ~frozen /\ app /\ app' = FALSE
    /\ UNCHANGED <<others, pc, wk, code, held, attached, vm, vmExit>>

(* A child process exits, and may leave its output to a child of its own.   *)
ChildExits(w) ==
    /\ alive /\ Kind(w) = "exe" /\ wk[w] = "run"
    /\ wk' = [wk EXCEPT ![w] = "gone"]
    /\ \E c \in {0, 1} : code' = [code EXCEPT ![w] = c]
    /\ held' \in {held, held \cup {w}}
    /\ UNCHANGED <<others, pc, app, attached, vm, vmExit>>

OutputCloses(w) ==
    /\ alive /\ w \in held
    /\ held' = held \ {w}
    /\ UNCHANGED <<others, pc, wk, code, app, attached, vm, vmExit>>

(* The thread that watches the child stores its exit code as the VM's,      *)
(* whoever's child it was.                                                  *)
StoreExitCode(w) ==
    /\ alive /\ wk[w] = "gone"
    /\ wk' = [wk EXCEPT ![w] = "done"]
    /\ vmExit' = code[w] /\ code' = [code EXCEPT ![w] = 0]
    /\ UNCHANGED <<others, pc, held, app, attached, vm>>

(* Mutant: the exit hook counts the codes from one. *)
SystemExitFromOne(c) ==
    /\ alive /\ ~frozen
    /\ app \/ \E w \in Workers : Kind(w) = "jvm" /\ wk[w] = "run"
    /\ Goto("exit", "stopHook") /\ vmExit' = c - 1
    /\ UNCHANGED <<others, wk, code, held, app, attached, vm>>

(* System.exit in a Java thread: the exit hook keeps the code, every Java   *)
(* thread stops, and the C library calls the _onexit functions, last first. *)
SystemExit(c) ==
    /\ alive /\ ~frozen
    /\ app \/ \E w \in Workers : Kind(w) = "jvm" /\ wk[w] = "run"
    /\ Goto("exit", "stopHook") /\ vmExit' = c
    /\ UNCHANGED <<others, wk, code, held, app, attached, vm>>

(* Mutant: every exit is reported as STOPPED. *)
ExitHookAlways ==
    /\ \/ /\ At("exit", "stopHook") /\ Goto("exit", "startHook")
          /\ IF "stop" \in hooks THEN Report("exit", "STOPPED", 0) ELSE silent
       \/ /\ At("exit", "startHook") /\ Goto("exit", "die")
          /\ IF "start" \in hooks THEN Report("exit", "STOPPED", vmExit) ELSE silent
    /\ UNCHANGED <<rest, worker, sysJvm, gWorker, handle, hooks, gEvt, ev, mainEvt, rc, ctl, limit>>

(* onExitStop, then onExitStart: a failure is not reported as STOPPED. *)
ExitHook ==
    /\ \/ /\ At("exit", "stopHook") /\ Goto("exit", "startHook")
          /\ IF "stop" \in hooks THEN Report("exit", "STOPPED", 0) ELSE silent
       \/ /\ At("exit", "startHook") /\ Goto("exit", "die")
          /\ IF "start" \in hooks /\ vmExit = 0 THEN Report("exit", "STOPPED", 0)
                                                ELSE silent
    /\ UNCHANGED <<rest, worker, sysJvm, gWorker, handle, hooks, gEvt, ev, mainEvt, rc, ctl, limit>>

(* The dispatcher returns when the service is STOPPED, serviceMain itself   *)
(* when there is no SCM: the globals are reset and the pools are freed,     *)
(* which closes every handle that is left, the children's too.              *)
HandleManagerDestroy ==
    /\ At("disp", "loop") /\ ctl = "none"
    /\ IF cfg.mode = "service" THEN scm.state = "STOPPED" ELSE pc["main"] = "end"
    /\ Goto("disp", "freed")
    /\ handle' = FALSE
    /\ ProcessClosed({w \in Workers : Kind(w) = "exe"})
    /\ UNCHANGED <<rest, svc, rep, held, app, attached, vm, vmExit, sysJvm, gWorker, hooks, gEvt, ev, mainEvt,
                   rc, ctl, limit>>

ExitProcess ==
    /\ \/ At("exit", "die")
       \/ At("disp", "freed") /\ \A w \in Workers : Kind(w) = "exe" => Ended(w)
    /\ alive' = FALSE
    /\ UNCHANGED <<cfg, svc, scm, queries, stale, mixed, late, rep, pc, worker, sysJvm, gWorker, handle,
                   hooks, gEvt, ev, mainEvt, rc, ctl, limit>>

(* The process is gone, or nothing is left to do but wait: for the SCM to   *)
(* learn of an end that was not reported, or for threads the VM still       *)
(* counts.                                                                  *)
Terminated ==
    /\ \/ ~alive
       \/ pc["main"] = "end" /\ scm.state # "STOPPED"
       \/ pc["main"] = "destroying" /\ attached # {}
    /\ UNCHANGED vars

Main == ResolveModes \/ Register \/ StartWorker \/ JavaStarted \/ ReportRunning
        \/ WorkerFinished \/ ShutdownEventSeen(TRUE) \/ ShutdownEventSeen(FALSE)
        \/ DestroyStart \/ DestroyWait \/ ReportStopping \/ ReportStopped
Dispatcher == CtrlHandler \/ InterrogateAnswered \/ (\E s \in ScmStops : SpawnStop(s))
              \/ HandleManagerDestroy \/ ExitProcess
Stop(s) == StopBegin(s) \/ StopCreate(s) \/ StopJavaStarted(s) \/ StopWorkerFinished(s)
           \/ StopCleanup(s) \/ StopWaitOver(s) \/ StopKill(s) \/ StopKilled(s) \/ StopCompleted(s)

Next ==
    \/ \E t \in Threads : SetServiceStatus(t)
    \/ Main \/ Dispatcher
    \/ \E c \in {"STOP", "SHUTDOWN", "INTERROGATE"} : ScmSends(c)
    \/ \E s \in ConsoleStops, c \in {"STOP", "SHUTDOWN"} : ConsoleEvent(s, c)
    \/ \E s \in StopThreads : Stop(s)
    \/ \E w \in Workers : JavaWorkerInit(w) \/ JavaWorkerEnds(w) \/ ChildExits(w)
                          \/ OutputCloses(w) \/ StoreExitCode(w)
    \/ AppThreadsEnd
    \/ \E c \in {0, 1} : SystemExit(c)
    \/ ExitHook
    \/ Terminated

(* The threads of the process run on; a stop command and a child's exit     *)
(* come to their end.  The service's own worker may run for ever, and the   *)
(* SCM and the console need not send anything.                              *)
Fairness ==
    /\ \A t \in Threads : WF_vars(SetServiceStatus(t))
    /\ WF_vars(Main) /\ WF_vars(Dispatcher) /\ WF_vars(ExitHook)
    /\ \A s \in StopThreads : WF_vars(Stop(s))
    /\ \A w \in Workers : WF_vars(JavaWorkerInit(w)) /\ WF_vars(StoreExitCode(w))
    /\ \A s \in StopThreads :
          WF_vars(JavaWorkerEnds(s) \/ ChildExits(s)
                  \/ (Kind(s) = "jvm" /\ wk[s] = "run" /\ SystemExit(0)))

Spec == Init /\ [][Next]_vars /\ Fairness

------------------------------------------------------------------------------
Labels == [main |-> {"modes", "register", "start", "java", "running", "wait", "event",
                     "destroy", "destroyTimed", "destroying", "destroying1", "stopPending",
                     "stopped", "cleanup", "end"},
           disp |-> {"loop", "answer", "spawn", "freed"},
           exit |-> {"idle", "stopHook", "startHook", "die"},
           stop |-> {"idle", "begin", "create", "java", "forced", "working", "cleanup",
                     "cleanupDie", "zero", "finite", "infinite", "killing", "signal", "completed",
                     "failed"}]

Statuses == [state : States, exit : Codes]
PcTyped ==
    /\ DOMAIN pc = Threads
    /\ pc["main"] \in Labels.main /\ pc["disp"] \in Labels.disp /\ pc["exit"] \in Labels.exit
    /\ \A s \in StopThreads : pc[s] \in Labels.stop
ReportsTyped == svc \in Statuses /\ scm \in Statuses /\ rep \in [Threads -> SUBSET Statuses]
WorkersTyped ==
    /\ wk \in [Workers -> {"none", "init", "ready", "run", "gone", "done"}]
    /\ code \in [Workers -> Codes] /\ held \subseteq Workers /\ vmExit \in Codes
    /\ vm \in {"none", "up", "gone"} /\ app \in BOOLEAN /\ attached \subseteq Workers
RestTyped ==
    /\ cfg \in Configs /\ limit \in [StopThreads -> {"zero", "finite", "infinite"}]
    /\ rc \in 0 .. 5 /\ hooks \subseteq {"start", "stop"}
    /\ gEvt \in StopThreads \cup {"null"} /\ mainEvt \in StopThreads \cup {"null"}
    /\ ev \in [StopThreads -> {"none", "reset", "set", "closed"}]
    /\ ctl \in {"none", "STOP", "SHUTDOWN", "INTERROGATE"} /\ queries \in Nat
FlagsTyped == {sysJvm, gWorker, handle, alive, stale, mixed, late} \subseteq BOOLEAN

(* Every variable has its type. *)
TypeOK == PcTyped /\ ReportsTyped /\ WorkersTyped /\ RestTyped /\ FlagsTyped

NoReport == \A t \in Threads : rep[t] = {}

(* The SCM is told STOPPED only when the service's worker has ended, or has *)
(* not begun, or its System.exit is taking the process down; and unless the *)
(* main thread's minute ran out, a Java service that was started has then   *)
(* no Java thread left, nor one of its stop commands, also if its worker    *)
(* was killed.                                                              *)
StoppedMeansOver ==
    scm.state = "STOPPED" /\ ~frozen =>
        /\ Ended("svc")
        /\ Kind("svc") = "jvm" /\ gWorker /\ ~late => JavaQuiet

(* When serviceMain has returned and nobody is reporting, the SCM knows the *)
(* service is STOPPED, unless the report was overwritten before it was sent.*)
EndIsReported ==
    pc["main"] = "end" /\ handle /\ NoReport /\ ~mixed => scm.state = "STOPPED"

(* When the service is STOPPED or the handles are freed, the stop thread the *)
(* main thread knows of (by its event) and its worker are through, if the   *)
(* minutes did not run out and no second stop thread has come in between.   *)
StopOutlivesNothing ==
    /\ scm.state = "STOPPED" \/ pc["disp"] = "freed"
    /\ mainEvt # "null" /\ ~late /\ ~frozen
    /\ Cardinality({s \in StopThreads : pc[s] # "idle"}) = 1
    => \A s \in StopThreads : /\ wk[s] \in {"none", "done"}
                             /\ pc[s] \in {"idle", "completed"}

(* A service that exits with a failure, unasked, is not reported STOPPED:   *)
(* the SCM's recovery depends on it.                                        *)
RecoveryIsLeft ==
    /\ ~alive /\ pc["exit"] = "die" /\ vmExit # 0
    /\ \A s \in StopThreads : pc[s] = "idle"
    => scm.state # "STOPPED"

Rank(st) == CASE st = "START_PENDING" -> 0 [] st = "RUNNING" -> 1
              [] st = "STOP_PENDING" -> 2 [] OTHER -> 3

(* What the SCM sees moves from pending to running to stopping to stopped;  *)
(* only an overtaken INTERROGATE can turn it back.                          *)
StatusMovesForward ==
    [][Rank(scm'.state) >= Rank(scm.state) \/ stale']_vars

=============================================================================
