----------------------------- MODULE JsvcLaunch -----------------------------
(***************************************************************************)
(* main() of jsvc around the processes of Jsvc: the command line, the      *)
(* user, Java's home, the second execution of the program under the name   *)
(* of -procname, the detaching, and the output, which may go through a     *)
(* process of its own to syslog.  A start with -stop is the stop command.  *)
(* Every step of Jsvc is taken with what it does to these.                 *)
(***************************************************************************)
EXTENDS Jsvc

CONSTANTS Numbers,  \* the numbers among the words of the command lines
          Users,    \* the user names the system knows
          Circumstances, \* what a start can meet: [line, argv0, caller, libcap, fs], by number
          Starts    \* the combinations of circumstances the instances may be started in

Line == INSTANCE Arguments
Java == INSTANCE JavaHome
Cred == INSTANCE Credentials

VARIABLES
    given,        \* what each start finds out about its circumstances
    boot,         \* where main() is
    argv0,        \* the name the program runs under
    status,       \* what main() returned before there was a controller, or "none"
    cred,         \* user and capabilities of the present child's main thread
    threads,      \* those that its other threads may have
    loaded,       \* it has loaded the class and lowered its main thread's
    doreopen,     \* the child's flag set by USR1
    streams,      \* where the controller's output goes
    childstreams, \* where the present child's output goes
    loggers,      \* the processes that read such output and still run
    made,         \* the loggers made so far; they are numbered
    logger_pid,   \* the controller's logger, 0 for none
    grouped       \* the service has signalled its whole process group

main == <<boot, argv0, status>>
logging == <<loggers, made, logger_pid, grouped>>
rights == <<cred, threads, loaded>>
output == <<doreopen, streams, childstreams, logging>>
launchVars == <<given, main, rights, output>>
allVars == <<vars, launchVars>>

\* What main() finds out in the circumstances c; it is the same at every execution.
Situation(c) ==
    LET args == Line!parse(c.line)
        data == Java!find(c.fs, args.home)
    IN  [args |-> args, home |-> data, library |-> Java!java_library(data, args.name),
         argv0 |-> c.argv0, caller |-> Cred!Login(c.caller), libcap |-> c.libcap]

Args(k) == given[k].args
Home(k) == given[k].home
Library(k) == given[k].library
Caller(k) == given[k].caller

\* Every start of an instance says the same of -wait and -nodetach; -check and
\* -version, which take the pid file without a service, are left out.
ASSUME LaunchAssumption ==
    /\ Starts \subseteq [Instances -> DOMAIN Circumstances]
    /\ \A combined \in Starts : \A k \in Instances :
          LET args == Line!parse(Circumstances[combined[k]].line)
          IN  ~args.failed /\ ~args.stop /\ ~args.help =>
                  /\ k \in Attached <=> ~args.dtch
                  /\ k \in Waiters <=> args.wait >= 10
                  /\ ~args.chck /\ ~args.vers

-----------------------------------------------------------------------------
(* Output. *)

File(name) == [file |-> name, logger |-> 0]
Pipe(n) == [file |-> "pipe", logger |-> n]
Terminal == [out |-> File("stdout"), err |-> File("stderr")]

Unredirected(args) ==
    \/ args.debug /\ args.errfile = "/dev/null"
    \/ args.outfile = "&1" /\ args.errfile = "&2"

WantsLogger(args) == ~Unredirected(args) /\ "SYSLOG" \in {args.outfile, args.errfile}

\* The files that may fail to open.
Files(args) == {args.outfile, args.errfile} \ {"SYSLOG", "&1", "&2", "/dev/null"}

\* Files first, then "&1" and "&2", and last, when logger n runs, the pipes: a
\* stream sent to the other one misses what is done to that one last.  A file
\* that cannot be opened leaves the stream as it was.
Redirected(args, cur, opens, n) ==
    LET freopened(name, old) ==
            CASE name = "SYSLOG" -> File("/dev/null")
              [] name \in {"&1", "&2"} \/ name \in Files(args) \ opens -> old
              [] OTHER -> File(name)
        out1 == freopened(args.outfile, cur.out)
        err1 == freopened(args.errfile, cur.err)
        err2 == IF args.errfile = "&1" /\ args.outfile # "&1" THEN out1 ELSE err1
        out2 == IF args.outfile = "&2" /\ args.errfile # "&2" THEN err2 ELSE out1
    IN  IF Unredirected(args) THEN cur
        ELSE [out |-> IF args.outfile = "SYSLOG" /\ n # 0 THEN Pipe(n) ELSE out2,
              err |-> IF args.errfile = "SYSLOG" /\ n # 0 THEN Pipe(n) ELSE err2]

\* What set_output can come to: files may not open, the logger may not be made.
set_output(args, cur, next) ==
    { [streams |-> Redirected(args, cur, opens, n), logger |-> n] :
        opens \in SUBSET Files(args), n \in IF WantsLogger(args) THEN {0, next} ELSE {0} }

\* The loggers a stream of the child is connected to.
Written(k) == {childstreams[k].out.logger, childstreams[k].err.logger} \ {0}

LaunchInit ==
    /\ Init
    /\ \E combined \in Starts : given = [k \in Instances |-> Situation(Circumstances[combined[k]])]
    /\ boot = [k \in Instances |-> "main"]
    /\ argv0 = [k \in Instances |-> given[k].argv0]
    /\ status = [k \in Instances |-> "none"]
    /\ cred = [k \in Instances |-> Caller(k)]
    /\ threads = [k \in Instances |-> {}] /\ loaded = [k \in Instances |-> FALSE]
    /\ doreopen = [k \in Instances |-> FALSE]
    /\ streams = [k \in Instances |-> Terminal]
    /\ childstreams = [k \in Instances |-> Terminal]
    /\ loggers = [k \in Instances |-> {}] /\ made = [k \in Instances |-> 0]
    /\ logger_pid = [k \in Instances |-> 0] /\ grouped = [k \in Instances |-> FALSE]

-----------------------------------------------------------------------------
(* main(). *)

Goes(k, from, to) ==
    /\ boot[k] = from
    /\ boot' = [boot EXCEPT ![k] = to]
    /\ UNCHANGED <<given, argv0, status, rights, output>>

Returns(k, from, code) ==
    /\ boot[k] = from
    /\ boot' = [boot EXCEPT ![k] = "exit"]
    /\ status' = [status EXCEPT ![k] = code]
    /\ UNCHANGED <<given, argv0, rights, output>>

\* The command line, also in the second execution.
Parse(k) ==
    /\ \/ Args(k).failed /\ Returns(k, "main", "1")
       \/ ~Args(k).failed /\ ~Args(k).stop /\ Goes(k, "main", "user")
    /\ UNCHANGED vars

\* -stop needs neither user nor Java; it returns what stop_child returns.
StopStart(k) ==
    /\ boot[k] = "main" /\ ~Args(k).failed /\ Args(k).stop
    /\ StopChild
    /\ IF cmd' = "-1" THEN Returns(k, "main", "-1") ELSE Goes(k, "main", "stop")

StopEnd(k) == StopPoll /\ Returns(k, "stop", cmd')

\* The user is tried in another process, for which there must be a fork().
CheckUser(k) ==
    /\ \/ /\ Goes(k, "user", "home")
          /\ Cred!checkuser(Caller(k), Args(k).user, Users)
       \/ Args(k).user # "none" /\ Returns(k, "user", "1")
    /\ UNCHANGED vars

\* Help too needs a Java home.
FindHome(k) ==
    /\ \/ Home(k) = Java!NoHome /\ Returns(k, "home", "1")
       \/ Home(k) # Java!NoHome /\ Args(k).help /\ Returns(k, "home", "0")
       \/ /\ Home(k) # Java!NoHome /\ ~Args(k).help
          /\ Goes(k, "home", IF argv0[k] = Args(k).procname THEN "detach" ELSE "exec")
    /\ UNCHANGED vars

\* Mutation of ReExec: the first word stays what it was.
ReExecSameName(k) ==
    /\ boot[k] = "exec" /\ argv0[k] = "./jsvc"
    /\ Goes(k, "exec", "main")
    /\ UNCHANGED vars

\* execve of the same program with the same words under the other name; it
\* wants a name with a slash, and may fail.
ReExec(k) ==
    /\ \/ Returns(k, "exec", "1")
       \/ /\ argv0[k] = "./jsvc"
          /\ boot[k] = "exec"
          /\ boot' = [boot EXCEPT ![k] = "main"]
          /\ argv0' = [argv0 EXCEPT ![k] = Args(k).procname]
          /\ UNCHANGED <<given, status, rights, output>>
    /\ UNCHANGED vars

\* The fork of the process that becomes the controller, unless -nodetach.
Detach(k) ==
    \/ Launch(k) /\ Goes(k, "detach", "output")
    \/ Args(k).dtch /\ Returns(k, "detach", "1") /\ UNCHANGED vars

Redirect(k) ==
    /\ boot[k] = "output" /\ ctl[k] = "fork"
    /\ boot' = [boot EXCEPT ![k] = "run"]
    /\ \E r \in set_output(Args(k), streams[k], made[k] + 1) :
          /\ streams' = [streams EXCEPT ![k] = r.streams]
          /\ logger_pid' = [logger_pid EXCEPT ![k] = r.logger]
          /\ loggers' = [loggers EXCEPT ![k] = {r.logger} \ {0}]
          /\ made' = [made EXCEPT ![k] = r.logger]
    /\ UNCHANGED <<given, argv0, status, rights, doreopen, childstreams, grouped>>
    /\ UNCHANGED vars

Main(k) == \/ Parse(k) \/ StopStart(k) \/ StopEnd(k) \/ CheckUser(k) \/ FindHome(k)
           \/ ReExec(k) \/ Detach(k) \/ Redirect(k)

-----------------------------------------------------------------------------
(* The controller and the child, with user and output. *)

ForkChild(k) ==
    /\ boot[k] = "run"
    /\ Fork(k)
    /\ cred' = [cred EXCEPT ![k] = Caller(k)]
    /\ threads' = [threads EXCEPT ![k] = {}] /\ loaded' = [loaded EXCEPT ![k] = FALSE]
    /\ childstreams' = [childstreams EXCEPT ![k] = streams[k]]
    /\ doreopen' = [doreopen EXCEPT ![k] = FALSE]
    /\ UNCHANGED <<given, main, streams, logging>>

\* Mutation of Returning: the logger goes with every child.
ReturningAlways(k) == loggers' = [loggers EXCEPT ![k] = @ \ {logger_pid[k]}]

\* When run_controller returns, main ends the controller's logger.
Returning(k) ==
    loggers' = [loggers EXCEPT ![k] =
        IF ctl'[k] \in Ended THEN @ \ {logger_pid[k]} ELSE @]

EndRun(k) ==
    /\ boot[k] = "run"
    /\ Exited(k) \/ ForkFails(k)
    /\ Returning(k)
    /\ UNCHANGED <<given, main, rights, doreopen, streams, childstreams, made, logger_pid, grouped>>

Switched(k) == Cred!linuxset_user_group(cred[k], Args(k).user, given[k].libcap)

\* The child becomes the user before it has other threads.  Those of the VM, made
\* from the library found, are born with what the main thread has then.
InitAsUser(k) ==
    /\ JavaInit(k)
    /\ Library(k) # Java!NoFile /\ Switched(k) # Cred!Refused
    /\ cred' = [cred EXCEPT ![k] = Switched(k)]
    /\ threads' = [threads EXCEPT ![k] = {Switched(k)}]
    /\ UNCHANGED <<given, main, loaded, output>>

InitRefused(k) ==
    /\ child[k] = "init"
    /\ Library(k) = Java!NoFile \/ Switched(k) = Cred!Refused
    /\ Fails(k)
    /\ UNCHANGED launchVars

\* java_load; then set_caps(0), which is of the thread that calls it: the threads
\* there are by now keep what they have.
LoadAsUser(k) ==
    /\ child[k] = "start" /\ ~loaded[k]
    /\ Cred!downgrade(cred[k], Args(k).user, given[k].libcap) # Cred!Refused
    /\ cred' = [cred EXCEPT ![k] = Cred!downgrade(@, Args(k).user, given[k].libcap)]
    /\ loaded' = [loaded EXCEPT ![k] = TRUE]
    /\ UNCHANGED <<given, main, threads, output>>
    /\ UNCHANGED vars

\* The main thread starts the service; a thread that it makes has what it has, one
\* that another thread makes has what that one has.
StartAsUser(k) ==
    /\ loaded[k]
    /\ JavaStart(k)
    /\ threads' = [threads EXCEPT ![k] = @ \cup {cred[k]}]
    /\ UNCHANGED <<given, main, cred, loaded, output>>

\* After USR1: a logger made now is the child's own.  Any signal would end it, its
\* select being interrupted; but only the child knows it, and never sends it one.
Reopen(k) ==
    /\ child[k] = "loop" /\ doreopen[k]
    /\ doreopen' = [doreopen EXCEPT ![k] = FALSE]
    /\ \E r \in set_output(Args(k), childstreams[k], made[k] + 1) :
          /\ childstreams' = [childstreams EXCEPT ![k] = r.streams]
          /\ loggers' = [loggers EXCEPT ![k] = @ \cup ({r.logger} \ {0})]
          /\ made' = [made EXCEPT ![k] = IF r.logger = 0 THEN @ ELSE r.logger]
    /\ UNCHANGED <<given, main, rights, streams, logger_pid, grouped>>
    /\ UNCHANGED vars

\* Before the loop of a first child the request goes to the process group, to
\* which the controller's logger belongs, with no handler.
RequestToGroup(k) ==
    /\ RequestShutdown(k)
    /\ IF gen[k] = 1 /\ child[k] # "loop"
       THEN /\ loggers' = [loggers EXCEPT ![k] = @ \ {logger_pid[k]}]
            /\ grouped' = [grouped EXCEPT ![k] = TRUE]
       ELSE UNCHANGED <<loggers, grouped>>
    /\ UNCHANGED <<given, main, rights, doreopen, streams, childstreams, made, logger_pid>>

\* A signal to the controller reaches a handler of jsvc in the child.
Handled(k) == ctl[k] = "wait" /\ child[k] \in {"handlers", "loop"}

KillController(k) ==
    /\ \E sig \in Signals :
          /\ KillWith(k, sig)
          /\ doreopen' = [doreopen EXCEPT ![k] = @ \/ (sig = "USR1" /\ Handled(k))]
    /\ UNCHANGED <<given, main, rights, streams, childstreams, logging>>

Controlled(k) == \/ ForkChild(k) \/ EndRun(k)
                 \/ (Install(k) \/ Reap(k) \/ Signaled(k)) /\ UNCHANGED launchVars

Working(k) ==
    \/ InitAsUser(k) \/ InitRefused(k) \/ LoadAsUser(k) \/ StartAsUser(k) \/ Reopen(k)
    \/ /\ Open(k) \/ Check(k) \/ SetHandlers(k) \/ Ready(k) \/ LeaveLoop(k) \/ Stop(k)
       /\ UNCHANGED launchVars

LaunchNext ==
    \E k \in Instances :
        \/ Main(k) \/ Controlled(k) \/ Working(k)
        \/ (WaitController(k) \/ WaitPidfile(k) \/ WaitReady(k) \/ Crash(k) \/ Fails(k))
                /\ UNCHANGED launchVars
        \/ RequestToGroup(k) \/ KillController(k)

(***************************************************************************)
(* As in Jsvc; and a program that has been started goes on through main(). *)
(***************************************************************************)
LaunchSpec ==
    /\ LaunchInit /\ [][LaunchNext]_allVars
    /\ \A k \in Instances :
          WF_allVars(Main(k)) /\ WF_allVars(Controlled(k)) /\ WF_allVars(Working(k))

-----------------------------------------------------------------------------
\* While a child of jsvc writes to a logger the logger runs, whatever becomes of
\* the controller and however often the child is started again or reopens its
\* output, unless the service has signalled its own process group; and when the
\* controller has returned by itself its logger is gone.
LoggerServesOutput ==
    \A k \in Instances :
        /\ child[k] \notin {"none", "zombie", "reaped"} /\ ~grouped[k] => Written(k) \subseteq loggers[k]
        /\ ctl[k] \in Ended \ {"killed"} => logger_pid[k] \notin loggers[k]

\* With -user every thread of the process is the user's from before the VM is made;
\* if jsvc changed the user none has ever more than the capabilities jsvc leaves,
\* and the main thread, which calls the service's start(), has none by then.
ServiceRunsAsUser ==
    \A k \in Instances : child[k] \in Holding \ {"init"} /\ Args(k).user # "none" =>
        /\ \A p \in threads[k] \cup {cred[k]} :
              /\ p.uid = Args(k).user
              /\ p.uid # Caller(k).uid => p.permitted \subseteq Cred!CAPSMIN
        /\ loaded[k] \/ child[k] # "start" => cred[k].permitted = {}

\* A start of jsvc executes itself at most once: it becomes a controller that has
\* set its output up, or its own end is reached.
StartEnds == \A k \in Instances : boot[k] = "main" ~> (boot[k] \in {"run", "exit"} \/ ctl[k] = "killed")

=============================================================================
