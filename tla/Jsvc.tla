-------------------------------- MODULE Jsvc --------------------------------
(***************************************************************************)
(* jsvc, the process that runs the server as a Unix daemon.  Every start   *)
(* makes an instance of three processes: a launcher, a controller that     *)
(* forwards signals and restarts the service, and the child that is the    *)
(* Java VM.  Instances know of each other by the pid file alone, which the *)
(* children lock and check, the controllers remove, and the launchers and  *)
(* the stop command only read.                                             *)
(*                                                                         *)
(* A process id is <<instance, number of its child>> and is never used     *)
(* again.  A signal acts when it is sent: a later arrival is a later kill. *)
(***************************************************************************)
EXTENDS Integers, Sequences, FiniteSets

CONSTANTS Instances,  \* the starts of jsvc
          Waiters,    \* those started with -wait
          Attached,   \* those started with -nodetach: no launcher waits or returns
          MaxForks,   \* bound: the children each controller may fork
          MaxSignals  \* bound: the signals the operator sends to controllers

ASSUME JsvcAssumption ==
    /\ IsFiniteSet(Instances)
    /\ Waiters \subseteq Instances
    /\ Attached \subseteq Instances
    /\ MaxForks \in [Instances -> Nat \ {0}]
    /\ MaxSignals \in Nat

VARIABLES
    launcher,  \* what the launcher does; "0" and "1" are its exit status
    havejvm,   \* the launcher has seen a live pid in the pid file
    ctl,       \* what the controller does; it ends with 0, with 1, with 1 because
               \* it cannot fork, or by a signal
    gen,       \* the children the controller has forked
    child,     \* how far its present child has come
    exit,      \* how its last child ended
    fd,        \* the inode the child has open as its pid file
    stopping, doreload, \* the child's flags
    dir,       \* the inode the pid file's name leads to, 0 for none
    content,   \* what each inode holds: a pid, or nothing yet
    up,        \* the pids whose /tmp/<pid>.jsvc_up exists
    foreign,   \* a controller has removed a pid file in use by another instance
    cmd,       \* the stop command; "0" and "-1" are its result
    target,    \* the pid it sent SIGTERM to
    signals    \* signals sent to controllers

start == <<launcher, havejvm>>
supervisor == <<ctl, gen>>
jvm == <<child, exit, fd, stopping, doreload>>
pidfile == <<dir, content, foreign>>
operator == <<cmd, target, signals>>
vars == <<start, supervisor, jvm, pidfile, up, operator>>

Nobody == <<>>
Pids == {p \in Instances \X Nat : p[2] \in 1..MaxForks[p[1]]}

\* Mutation of Pid: the process id of before the fork.
PidOfParent(k) == <<k, 0>>

\* getpid() in the present child.
Pid(k) == <<k, gen[k]>>

\* The stages of a child that has put its pid into the file: before the VM has
\* its signal handlers; loading and starting; start() has returned; jsvc's
\* handlers are installed; waiting for a signal; stopping.
Holding == {"init", "start", "started", "handlers", "loop", "stop"}
Ended == {"exit0", "exit1", "nofork", "killed"}

TypeOK ==
    /\ launcher \in [Instances -> {"off", "wait", "look", "recheck", "0", "1"}]
    /\ havejvm \in [Instances -> BOOLEAN]
    /\ ctl \in [Instances -> {"off", "fork", "install", "wait", "reaped"} \cup Ended]
    /\ gen \in [Instances -> Nat]
    /\ \A k \in Instances : gen[k] <= MaxForks[k]
    /\ child \in [Instances -> {"none", "fork", "open", "zombie", "reaped"} \cup Holding]
    /\ exit \in [Instances -> {"none", "0", "122", "123", "error", "signal"}]
    /\ fd \in [Instances -> 0..Len(content)]
    /\ stopping \in [Instances -> BOOLEAN] /\ doreload \in [Instances -> BOOLEAN]
    /\ content \in Seq(Pids \cup {Nobody})
    /\ dir \in 0..Len(content)
    /\ up \subseteq Pids
    /\ foreign \in BOOLEAN
    /\ cmd \in {"idle", "poll", "0", "-1"}
    /\ target \in Pids \cup {Nobody}
    /\ signals \in 0..MaxSignals

Init ==
    /\ launcher = [k \in Instances |-> "off"] /\ havejvm = [k \in Instances |-> FALSE]
    /\ ctl = [k \in Instances |-> "off"] /\ gen = [k \in Instances |-> 0]
    /\ child = [k \in Instances |-> "none"] /\ exit = [k \in Instances |-> "none"]
    /\ fd = [k \in Instances |-> 0]
    /\ stopping = [k \in Instances |-> FALSE] /\ doreload = [k \in Instances |-> FALSE]
    /\ dir = 0 /\ content = <<>> /\ foreign = FALSE
    /\ up = {}
    /\ cmd = "idle" /\ target = Nobody /\ signals = 0

\* kill(pid, 0): a child that has ended but is not yet waited for still counts.
Alive(p) == \E k \in Instances : p = Pid(k) /\ child[k] \notin {"none", "reaped"}

\* get_pidf: the live pid the file names.  Its lockf fails on a descriptor
\* opened for reading only, so that nothing keeps it from an unwritten file.
PidInFile ==
    IF dir # 0 /\ Alive(content[dir]) THEN content[dir] ELSE Nobody

-----------------------------------------------------------------------------
(* What a signal does. *)

\* The child ends, and with it go its variables and its descriptors.
Die(k, status) ==
    /\ child' = [child EXCEPT ![k] = "zombie"]
    /\ exit' = [exit EXCEPT ![k] = status]
    /\ stopping' = [stopping EXCEPT ![k] = FALSE]
    /\ doreload' = [doreload EXCEPT ![k] = FALSE]
    /\ fd' = [fd EXCEPT ![k] = 0]

\* TERM stands for INT too; USR1 asks for the output to be opened again.
Signals == {"TERM", "HUP", "USR1"}

\* A first child has the default handlers until the VM installs its own, which
\* end the process, for TERM and HUP, and jsvc its own after the start; a later
\* child has inherited the controller's, which forward to its dead predecessor.
\* handler() honours the first request to stop or reload only; the flag it sets
\* for USR1 is left to JsvcLaunch.
SignalChild(k, sig) ==
    IF child[k] \in {"start", "started"} /\ sig # "USR1" THEN Die(k, "error")
    ELSE IF child[k] \in {"fork", "open", "init", "start", "started"} /\ gen[k] = 1 THEN Die(k, "signal")
    ELSE IF child[k] \in {"handlers", "loop"} /\ sig # "USR1" /\ ~stopping[k]
    THEN /\ stopping' = [stopping EXCEPT ![k] = TRUE]
         /\ doreload' = [doreload EXCEPT ![k] = (sig = "HUP")]
         /\ UNCHANGED <<child, exit, fd>>
    ELSE UNCHANGED jvm

\* The controller's handlers stay installed from its first child on.
Installed(k) == gen[k] > 1 \/ (gen[k] = 1 /\ ctl[k] \notin {"fork", "install"})

\* Forwarded to the child the controller waits for; between two children
\* "controlled" is the dead one and the signal is lost.
SignalController(k, sig) ==
    IF ~Installed(k)
    THEN /\ ctl' = [ctl EXCEPT ![k] = "killed"]
         /\ UNCHANGED jvm
    ELSE /\ UNCHANGED ctl
         /\ IF ctl[k] = "wait" THEN SignalChild(k, sig) ELSE UNCHANGED jvm

-----------------------------------------------------------------------------
(* The launcher. *)

Launch(k) ==
    /\ ctl[k] = "off"
    /\ ctl' = [ctl EXCEPT ![k] = "fork"]
    /\ launcher' = [launcher EXCEPT ![k] = IF k \in Attached THEN @ ELSE IF k \in Waiters THEN "wait" ELSE "0"]
    /\ UNCHANGED <<havejvm, gen, jvm, pidfile, up, operator>>

\* waitpid(controller, WNOHANG) returns its exit status.
ControllerEnded(k) ==
    /\ ctl[k] \in Ended
    /\ launcher' = [launcher EXCEPT ![k] = IF ctl[k] = "exit0" THEN "0" ELSE "1"]

\* One turn of wait_child's loop, or the end of its patience.
WaitController(k) ==
    /\ launcher[k] = "wait"
    /\ \/ ControllerEnded(k)
       \/ ctl[k] \notin Ended /\ launcher' = [launcher EXCEPT ![k] = "look"]
       \/ launcher' = [launcher EXCEPT ![k] = "1"]
    /\ UNCHANGED <<havejvm, supervisor, jvm, pidfile, up, operator>>

\* The pid file, whoever wrote it, and the file that says its JVM is ready.
WaitPidfile(k) ==
    /\ launcher[k] = "look"
    /\ launcher' = [launcher EXCEPT ![k] =
          IF dir = 0 /\ havejvm[k] THEN "1"
          ELSE IF PidInFile \in up THEN "recheck" ELSE "wait"]
    /\ havejvm' = [havejvm EXCEPT ![k] = @ \/ PidInFile # Nobody]
    /\ UNCHANGED <<supervisor, jvm, pidfile, up, operator>>

WaitReady(k) ==
    /\ launcher[k] = "recheck"
    /\ \/ ControllerEnded(k)
       \/ ctl[k] \notin Ended /\ launcher' = [launcher EXCEPT ![k] = "0"]
    /\ UNCHANGED <<havejvm, supervisor, jvm, pidfile, up, operator>>

-----------------------------------------------------------------------------
(* The controller. *)

Fork(k) ==
    /\ ctl[k] = "fork"
    /\ gen[k] < MaxForks[k]
    /\ ctl' = [ctl EXCEPT ![k] = "install"]
    /\ gen' = [gen EXCEPT ![k] = @ + 1]
    /\ child' = [child EXCEPT ![k] = "fork"]
    /\ exit' = [exit EXCEPT ![k] = "none"]
    /\ UNCHANGED <<start, fd, stopping, doreload, pidfile, up, operator>>

ForkFails(k) ==
    /\ ctl[k] = "fork"
    /\ ctl' = [ctl EXCEPT ![k] = "nofork"]
    /\ UNCHANGED <<start, gen, jvm, pidfile, up, operator>>

\* controlled = pid, and signal() for each of the signals forwarded.
Install(k) ==
    /\ ctl[k] = "install"
    /\ ctl' = [ctl EXCEPT ![k] = "wait"]
    /\ UNCHANGED <<start, gen, jvm, pidfile, up, operator>>

\* waitpid() in the controller, or in init once the controller is dead.
Reap(k) ==
    /\ child[k] = "zombie"
    /\ ctl[k] \in {"wait", "killed"}
    /\ child' = [child EXCEPT ![k] = "reaped"]
    /\ ctl' = [ctl EXCEPT ![k] = IF @ = "wait" THEN "reaped" ELSE @]
    /\ UNCHANGED <<start, gen, exit, fd, stopping, doreload, pidfile, up, operator>>

\* The name goes, whatever file it leads to now; a child that has opened this
\* file before keeps the inode.
Unlink ==
    /\ dir' = 0
    /\ foreign' = (foreign \/ (dir # 0 /\ \/ Alive(content[dir])
                                          \/ \E j \in Instances : child[j] = "open" /\ fd[j] = dir))
    /\ UNCHANGED content

\* The child exited: only a status of 122 leaves the pid file alone, and only
\* 123 has the service started again, after a sleep a signal cuts short.
Exited(k) ==
    /\ ctl[k] = "reaped"
    /\ exit[k] # "signal"
    /\ IF exit[k] = "122" THEN UNCHANGED pidfile ELSE Unlink
    /\ ctl' = [ctl EXCEPT ![k] = CASE exit[k] = "123" -> "fork"
                                   [] exit[k] = "0" -> "exit0"
                                   [] OTHER -> "exit1"]
    /\ UNCHANGED <<start, gen, jvm, up, operator>>

\* Mutation of Signaled: the controller gives up.
SignaledEnds(k) ==
    /\ ctl[k] = "reaped" /\ exit[k] = "signal"
    /\ ctl' = [ctl EXCEPT ![k] = "exit1"]
    /\ UNCHANGED <<start, gen, jvm, pidfile, up, operator>>

\* The child was killed: the pid file stays, the service is started again.
Signaled(k) ==
    /\ ctl[k] = "reaped"
    /\ exit[k] = "signal"
    /\ ctl' = [ctl EXCEPT ![k] = "fork"]
    /\ UNCHANGED <<start, gen, jvm, pidfile, up, operator>>

Controller(k) == Fork(k) \/ ForkFails(k) \/ Install(k) \/ Reap(k) \/ Exited(k) \/ Signaled(k)

-----------------------------------------------------------------------------
(* The child. *)

\* open(O_CREAT) in check_pid, which may fail.
Open(k) ==
    /\ child[k] = "fork"
    /\ \/ /\ child' = [child EXCEPT ![k] = "open"]
          /\ content' = IF dir = 0 THEN Append(content, Nobody) ELSE content
          /\ dir' = IF dir = 0 THEN Len(content) + 1 ELSE dir
          /\ fd' = [fd EXCEPT ![k] = dir']
          /\ UNCHANGED <<exit, stopping, doreload>>
       \/ Die(k, "error") /\ UNCHANGED <<dir, content>>
    /\ UNCHANGED <<start, supervisor, foreign, up, operator>>

\* Mutation of Check: whatever pid the file holds is replaced.
CheckBlind(k) ==
    /\ child[k] = "open"
    /\ content' = [content EXCEPT ![fd[k]] = Pid(k)]
    /\ child' = [child EXCEPT ![k] = "init"]
    /\ fd' = [fd EXCEPT ![k] = 0]
    /\ UNCHANGED <<start, supervisor, exit, stopping, doreload, dir, foreign, up, operator>>

\* Under the lock: the pid is read, tried, and replaced by the child's own.
Check(k) ==
    /\ child[k] = "open"
    /\ IF Alive(content[fd[k]])
       THEN Die(k, "122") /\ UNCHANGED content
       ELSE /\ content' = [content EXCEPT ![fd[k]] = Pid(k)]
            /\ child' = [child EXCEPT ![k] = "init"]
            /\ fd' = [fd EXCEPT ![k] = 0]
            /\ UNCHANGED <<exit, stopping, doreload>>
    /\ UNCHANGED <<start, supervisor, dir, foreign, up, operator>>

Advance(k, from, to) ==
    /\ child[k] = from
    /\ child' = [child EXCEPT ![k] = to]
    /\ UNCHANGED <<start, supervisor, exit, fd, stopping, doreload, pidfile, operator>>

\* java_init, as far as the VM's own handlers; the rest of it, java_load and
\* java_start; and the five signal_set after it.
JavaInit(k) == Advance(k, "init", "start") /\ UNCHANGED up
JavaStart(k) == Advance(k, "start", "started") /\ UNCHANGED up
SetHandlers(k) == Advance(k, "started", "handlers") /\ UNCHANGED up

\* controlled = getpid() and create_tmp_file.
Ready(k) == Advance(k, "handlers", "loop") /\ up' = up \cup {Pid(k)}

\* Mutation of LeaveLoop: only a reload ends the loop.
LeaveLoopToReload(k) ==
    /\ doreload[k]
    /\ Advance(k, "loop", "stop")
    /\ up' = up \ {Pid(k)}

LeaveLoop(k) ==
    /\ stopping[k]
    /\ Advance(k, "loop", "stop")
    /\ up' = up \ {Pid(k)}

\* java_stop, java_destroy and JVM_destroy.
Stop(k) ==
    /\ child[k] = "stop"
    /\ Die(k, IF doreload[k] THEN "123" ELSE "0")
    /\ UNCHANGED <<start, supervisor, pidfile, up, operator>>

Child(k) == \/ Open(k) \/ Check(k) \/ JavaInit(k) \/ JavaStart(k) \/ SetHandlers(k)
            \/ Ready(k) \/ LeaveLoop(k) \/ Stop(k)

\* A call of java_init, java_load, java_start or java_stop fails.
Fails(k) ==
    /\ child[k] \in {"init", "start", "stop"}
    /\ Die(k, "error")
    /\ UNCHANGED <<start, supervisor, pidfile, up, operator>>

\* The VM aborts, which java_abort123 turns into 123, or the child is killed.
Crash(k) ==
    /\ child[k] \in {"open"} \cup Holding
    /\ \E status \in {"signal"} \cup (IF child[k] \in {"open", "init"} THEN {} ELSE {"123"}) :
          Die(k, status)
    /\ UNCHANGED <<start, supervisor, pidfile, up, operator>>

\* The service calls its DaemonController: kill(controlled, SIGTERM), or SIGHUP
\* for a reload.  Before the loop controlled is 0 in a first child, which means
\* its process group, and the dead predecessor in a later one, which loses the
\* request.
Request(k, sig) ==
    /\ child[k] \in {"start", "started", "handlers", "loop"}
    /\ gen[k] = 1 \/ child[k] = "loop"
    /\ SignalChild(k, sig)
    /\ ctl' = IF gen[k] = 1 /\ child[k] # "loop" /\ ctl[k] = "install"
              THEN [ctl EXCEPT ![k] = "killed"] ELSE ctl
    /\ UNCHANGED <<start, gen, pidfile, up, operator>>

RequestShutdown(k) == \E sig \in {"TERM", "HUP"} : Request(k, sig)

-----------------------------------------------------------------------------
(* The operator: kill <controller>, and jsvc -stop. *)

KillWith(k, sig) ==
    /\ ctl[k] \notin {"off"} \cup Ended
    /\ signals < MaxSignals
    /\ signals' = signals + 1
    /\ SignalController(k, sig)
    /\ UNCHANGED <<start, gen, pidfile, up, cmd, target>>

Kill(k) == \E sig \in Signals : KillWith(k, sig)

StopChild ==
    /\ cmd = "idle"
    /\ target' = PidInFile
    /\ IF PidInFile = Nobody
       THEN cmd' = "-1" /\ UNCHANGED jvm
       ELSE cmd' = "poll" /\ SignalChild(PidInFile[1], "TERM")
    /\ UNCHANGED <<start, supervisor, pidfile, up, signals>>

\* Mutation of StopPoll: 0 at the end of the sixty looks as well.
StopPollPatient ==
    /\ cmd = "poll"
    /\ cmd' = "0"
    /\ UNCHANGED <<start, supervisor, jvm, pidfile, up, target, signals>>

\* One of the sixty looks at the pid file, or the end of them.
StopPoll ==
    /\ cmd = "poll"
    /\ \/ PidInFile = Nobody /\ cmd' = "0"
       \/ PidInFile # Nobody /\ cmd' = "-1"
    /\ UNCHANGED <<start, supervisor, jvm, pidfile, up, target, signals>>

Next ==
    \/ StopChild \/ StopPoll
    \/ \E k \in Instances :
          \/ Launch(k) \/ WaitController(k) \/ WaitPidfile(k) \/ WaitReady(k)
          \/ Controller(k) \/ Child(k) \/ Fails(k) \/ Crash(k)
          \/ RequestShutdown(k) \/ Kill(k)

(***************************************************************************)
(* The processes run, and the methods of the service return; nothing makes *)
(* them fail, crash or be signalled.                                       *)
(***************************************************************************)
Spec == /\ Init /\ [][Next]_vars
        /\ \A k \in Instances : WF_vars(Controller(k)) /\ WF_vars(Child(k))

-----------------------------------------------------------------------------
\* As long as no controller has removed a pid file that another instance has
\* open or in use, the file names the one child that has passed the check.
PidfileNamesService ==
    ~foreign => \A k \in Instances :
        child[k] \in Holding => dir # 0 /\ content[dir] = Pid(k)

\* Two services run side by side only after a controller has removed the pid
\* file of another instance, between the end of its own child and unlink().
OneService ==
    ~foreign => \A j, k \in Instances :
        child[j] \in Holding /\ child[k] \in Holding => j = k

\* When jsvc -stop returns 0 the process it sent SIGTERM to is gone, unless
\* somebody else's controller has removed the pid file it was watching.
StopIsHonest == cmd = "0" /\ ~foreign => ~Alive(target)

\* A service that was told to shut down, and not to reload before, ends with
\* its controller, unless it crashes on the way.
ShutdownEnds ==
    \A k \in Instances :
        (child[k] = "loop" /\ stopping[k] /\ ~doreload[k])
            ~> (ctl[k] \in Ended \/ exit[k] \in {"signal", "123"})

\* A service that crashed or reloads is started again or refused because
\* another one runs, unless the controller cannot fork.
Restarted ==
    \A k \in Instances :
        (child[k] = "zombie" /\ ctl[k] = "wait" /\ exit[k] \in {"signal", "123"})
            ~> (child[k] = "init" \/ exit[k] \in {"122", "error"} \/ ctl[k] \in {"nofork", "killed"})

\* "stop the service": what has been stopped does not come back.
StopStops == cmd = "0" => \A k \in Instances : child[k] \notin Holding

=============================================================================
