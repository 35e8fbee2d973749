------------------------------- MODULE Manager -------------------------------
(***************************************************************************)
(* The procrun programs that administer one service: prunsrv with the      *)
(* commands ES, SS, US, IS and DS, and prunmgr, which shows the service's  *)
(* properties or watches it from the tray.  Several processes              *)
(* share the service (service.c), its configuration (Registry), a mutex    *)
(* and a window class; the service control manager (SCM) and the service   *)
(* are at the other end.                                                   *)
(*                                                                         *)
(* A prunmgr process has its main thread, refreshThread, and while a       *)
(* progress box is up the thread that runs apxServiceControl for it.       *)
(***************************************************************************)
EXTENDS Registry

CONSTANTS
    Procs,          \* the processes
    Scenarios       \* what they are, and the service they meet

(* A job is a program with its command line, the PR_ environment and, for   *)
(* prunmgr, AllowMultiInstances and two bounds on what its user does:       *)
(* whether the service is started and stopped, and a sequence of edits in   *)
(* the property sheet, each an option, what is typed, and for an account    *)
(* whether the two passwords agree.  "none" is no process.                  *)
Startups == {"auto", "manual", "disabled"}
Inputs(o) == IF o = "Startup" THEN Startups ELSE IF Type(o) = "MSZ" THEN Seq(Strings) ELSE Texts(o)
Listed(s) == Len(s) \in Nat /\ s = [i \in 1 .. Len(s) |-> s[i]]
Edits(es) == /\ Listed(es)
             /\ \A i \in DOMAIN es : /\ es[i].opt \in Options /\ es[i].text \in Inputs(es[i].opt)
                                    /\ es[i].valid \in BOOLEAN
WellFormed(job) ==
    /\ job.prog \in {"none", "prunsrv", "prunmgr"} /\ {job.multi, job.clicks} \subseteq BOOLEAN
    /\ Listed(job.args) /\ \A i \in DOMAIN job.args : Argument(job.args[i])
    /\ job.prog = "prunsrv" =>
          \A o \in Options : /\ job.env[o].is \in {"unset", "empty", "set"}
                             /\ job.env[o].is = "set" => job.env[o].text \in Texts(o)
    /\ Edits(job.edits)

ASSUME ScenariosAssumption ==
    \A s \in Scenarios : /\ \A p \in Procs : WellFormed(s.jobs[p])
                         /\ {s.there, s.running, s.dep} \subseteq BOOLEAN

VARIABLES
    sc,         \* the scenario
    svc,        \* the service: is it there, and its state
    dep,        \* a service that depends on it is running
    reg,        \* the registry
    proc,       \* each process: where its main thread is, and what it holds
    ctl,        \* the run of apxServiceControl in each process
    gui,        \* what else a prunmgr process has
    asked,      \* history: what the last to set an option set it to
    behind,     \* history: for each process, options whose value it does not know
    overtaken,  \* history: options somebody wrote back as it had read them
    remade      \* history: keys of a service that was going were created

vars == <<sc, svc, dep, reg, proc, ctl, gui, asked, behind, overtaken, remade>>

Commands == <<"TS", "RS", "ES", "SS", "US", "IS", "DS", "?", "VS">>
AltCommands == <<"run", "service", "start", "stop", "update", "install", "delete", "help",
                 "version">>
MgrCommands == <<"ES", "MS", "MR", "MQ">>
MgrAltCommands == <<"manage", "monitor", "start", "quit">>

Job(p) == sc.jobs[p]
Is(p, prog) == Job(p).prog = prog
Line(p) == [cmd |-> Job(p).cmd, args |-> Job(p).args,
            commands |-> IF Is(p, "prunsrv") THEN Commands ELSE MgrCommands,
            alts |-> IF Is(p, "prunsrv") THEN AltCommands ELSE MgrAltCommands]

Exists == svc.there # "none"
Present == svc.there = "present"        \* not marked for deletion
At(p, l) == proc[p].pc = l
Runs(p, prog, c) == Is(p, prog) /\ proc[p].index = c
Tray(p) == proc[p].index \in {2, 3}     \* bEnableTry
Goto(p, l) == proc' = [proc EXCEPT ![p].pc = l]
Close(p, l) == proc' = [proc EXCEPT ![p].pc = l, ![p].service = FALSE]

Idle == [want |-> "none", at |-> "idle"]
Begin(want) == [want |-> want, at |-> "begin"]
Control(p, want) == ctl' = [ctl EXCEPT ![p] = Begin(want)]
Returned(p) == ctl[p].at \in {"ok", "failed"}

Closed == [open |-> FALSE, fields |-> <<>>, bits |-> {}, mine |-> {}, ok |-> FALSE,
           valid |-> TRUE]
NoEntry == [state |-> "STOPPED", display |-> Empty, start |-> Empty, user |-> Empty]

NoGui == [entry |-> NoEntry, class |-> FALSE, ready |-> FALSE, icon |-> "none", refresh |-> FALSE,
          start |-> FALSE, menu |-> {}, sheet |-> Closed, edits |-> <<>>, host |-> "none",
          missed |-> FALSE]

Init ==
    /\ sc \in Scenarios
    /\ svc = [there |-> IF sc.there THEN "present" ELSE "none",
              state |-> IF sc.running THEN "RUNNING" ELSE "STOPPED"]
    /\ dep = sc.dep
    /\ reg = IF sc.there THEN [apxServiceInstall(EmptyRegistry, "svc", "manual")
                                 EXCEPT !.root = TRUE, !.sub = TRUE]
                         ELSE EmptyRegistry
    /\ proc = [p \in Procs |-> [pc |-> IF Is(p, "none") THEN "done" ELSE "start", index |-> 0,
                                line |-> NoOptions, os |-> NoOptions, service |-> FALSE,
                                key |-> "none", todo |-> {}, mutex |-> FALSE]]
    /\ ctl = [p \in Procs |-> Idle]
    /\ gui = [p \in Procs |-> [NoGui EXCEPT !.edits = Job(p).edits]]
    /\ asked = reg.val /\ behind = [p \in Procs |-> Options] /\ overtaken = {} /\ remade = FALSE

------------------------------------------------------------------------------
(* History.  A process that has not read an option does not know it; any    *)
(* change makes the options os unknown to all.                              *)
Change(os) == [q \in Procs |-> behind[q] \cup os]
ReadBy(p, os) == behind' = [behind EXCEPT ![p] = @ \ os]
history == <<asked, behind, overtaken>>

(* A list given with ++ is built on what was read. *)
Builds(p, o) == proc[p].os[o].add /\ Type(o) = "MSZ"

(* p writes the options os: of those it means to set, new are the values.   *)
(* Others are carried along as they were read: the display name, or the     *)
(* rest of a page of prunmgr.                                               *)
Wrote(p, os, new) ==
    LET meant == DOMAIN new
        carries == IF Is(p, "prunmgr") THEN Options ELSE {"DisplayName"}
        builds == {o \in os : Builds(p, o)}
    IN /\ asked' = [o \in Options |-> IF o \in meant THEN new[o] ELSE asked[o]]
       /\ overtaken' = (overtaken \ (meant \ builds))
                          \cup ((((os \ meant) \cap carries) \cup builds) \cap behind[p])
       /\ behind' = Change(os)

(* What the command line of p asks option o to become. *)
Given(p, o) ==
    IF Builds(p, o) THEN Readable(asked[o]) \o proc[p].line[o].val ELSE proc[p].line[o].val

------------------------------------------------------------------------------
(* The service and the SCM. *)
service == <<sc, reg, proc, ctl, gui, remade, history>>

Become(from, to) == svc.state = from /\ svc' = [svc EXCEPT !.state = to]
ServiceStep == \/ \E to \in {"RUNNING", "STOPPED"} : Become("START_PENDING", to)
               \/ Become("STOP_PENDING", "STOPPED")
ServiceChanges == ServiceStep /\ UNCHANGED <<service, dep>>
ServiceEnds == Become("RUNNING", "STOPPED") /\ UNCHANGED <<service, dep>>

(* A service marked for deletion goes when it is stopped and nobody has it  *)
(* open.                                                                    *)
ServiceGoes ==
    /\ svc.there = "marked" /\ svc.state = "STOPPED" /\ \A p \in Procs : ~proc[p].service
    /\ svc' = [svc EXCEPT !.there = "none"]
    /\ reg' = ServiceKeyRemoved(reg)
    /\ asked' = Forget(asked, Srv) /\ overtaken' = overtaken \ Srv /\ behind' = Change(Srv)
    /\ UNCHANGED <<sc, dep, proc, ctl, gui, remade>>

(* apxServiceControl in process p, up to and with the request; a stop first *)
(* stops what depends on the service, and gives up if that fails.           *)
Proceed(p, l) == ctl' = [ctl EXCEPT ![p].at = l]
controlRest == <<sc, reg, proc, gui, history, remade>>

apxServiceControl(p) ==
    /\ ctl[p].at = "begin"
    /\ IF ctl[p].want = "STOPPED" THEN Proceed(p, "dependents") /\ UNCHANGED svc
       ELSE IF Present /\ svc.state = "STOPPED" /\ reg.val["Startup"] # "disabled"
       THEN Proceed(p, "poll") /\ svc' = [svc EXCEPT !.state = "START_PENDING"]
       ELSE Proceed(p, "final") /\ UNCHANGED svc
    /\ UNCHANGED <<controlRest, dep>>

apxStopDependentServices(p) ==
    /\ ctl[p].at = "dependents"
    /\ \/ ~dep /\ Proceed(p, "stop") /\ UNCHANGED dep
       \/ dep /\ Proceed(p, "stop") /\ dep' = FALSE
       \/ dep /\ Proceed(p, "final") /\ UNCHANGED dep
    /\ UNCHANGED <<controlRest, svc>>

ControlService(p) ==
    /\ ctl[p].at = "stop"
    /\ IF svc.state = "RUNNING" /\ ~dep
       THEN Proceed(p, "poll") /\ svc' = [svc EXCEPT !.state = "STOP_PENDING"]
       ELSE Proceed(p, "final") /\ UNCHANGED svc
    /\ UNCHANGED <<controlRest, dep>>

(* It waits as long as the state is the pending one, or gives up. *)
PollStatus(p) == ctl[p].at = "poll" /\ Proceed(p, "final") /\ UNCHANGED <<controlRest, svc, dep>>

(* The last query decides.  The callback of a stop in prunmgr copies what   *)
(* it says into the cached entry.                                           *)
FinalStatus(p) ==
    /\ ctl[p].at = "final"
    /\ Proceed(p, IF svc.state = ctl[p].want THEN "ok" ELSE "failed")
    /\ gui' = IF Is(p, "prunmgr") /\ ctl[p].want = "STOPPED"
              THEN [gui EXCEPT ![p].entry.state = svc.state] ELSE gui
    /\ UNCHANGED <<sc, svc, dep, reg, proc, history, remade>>

------------------------------------------------------------------------------
(* prunsrv. *)
scm == <<sc, svc, dep, gui, ctl>>

(* main: the commands up to US load the configuration, IS needs none, DS    *)
(* opens the service at once; a wrong command line ends the program, help   *)
(* and version too.  TS and RS are module Procrun.                          *)
Main(p) ==
    /\ At(p, "start") /\ Is(p, "prunsrv")
    /\ IF ParseFails(Line(p)) THEN Goto(p, "failed")
       ELSE \E stops \in BOOLEAN :
              LET c == apxCmdlineParse(Line(p))
                  os == apxCmdlineLoadEnvVars(c.options, Job(p).env, stops)
              IN proc' = [proc EXCEPT ![p].index = c.index, ![p].line = os, ![p].os = os,
                            ![p].pc = CASE c.index < 6 -> "load" [] c.index = 6 -> "create"
                                        [] c.index = 7 -> "open" [] OTHER -> "done"]
    /\ UNCHANGED <<scm, reg, remade, history>>

(* Only US goes on without a configuration. *)
LoadConfiguration(p) ==
    /\ At(p, "load")
    /\ LET r == loadConfiguration(reg, Exists, proc[p].os)
       IN /\ proc' = [proc EXCEPT ![p].os = r.options,
                                  ![p].pc = IF r.ok \/ proc[p].index = 5 THEN "open" ELSE "failed"]
          /\ ReadBy(p, IF r.ok THEN Options ELSE {})
    /\ UNCHANGED <<scm, reg, asked, overtaken, remade>>

(* apxServiceOpen also finds a service that is marked for deletion. *)
Opened(p, found, missing) ==
    proc' = [proc EXCEPT ![p].service = Exists, ![p].pc = IF Exists THEN found ELSE missing]
docmdControl(p, index, want) ==
    /\ At(p, "open") /\ Runs(p, "prunsrv", index)
    /\ Opened(p, "control", "failed")
    /\ ctl' = [ctl EXCEPT ![p] = IF Exists THEN Begin(want) ELSE @]
    /\ UNCHANGED <<sc, svc, dep, gui, reg, remade, history>>
docmdStartService(p) == docmdControl(p, 3, "RUNNING")
docmdStopService(p) == docmdControl(p, 4, "STOPPED")

Controlled(p) ==
    /\ At(p, "control") /\ Returned(p)
    /\ IF proc[p].index = 7 THEN Goto(p, "delete")
                            ELSE Close(p, IF ctl[p].at = "ok" THEN "done" ELSE "failed")
    /\ ctl' = [ctl EXCEPT ![p] = Idle]
    /\ UNCHANGED <<sc, svc, dep, gui, reg, remade, history>>

(* US changes the names and the account, the start mode, the parameters;    *)
(* what fails ends it.  Without a service it installs one.                  *)
docmdUpdateService(p) ==
    /\ At(p, "open") /\ Runs(p, "prunsrv", 5)
    /\ Opened(p, "names", "create")
    /\ UNCHANGED <<scm, reg, remade, history>>

FoundOf(p, o) == IF proc[p].os[o].found THEN proc[p].os[o].val ELSE Empty

(* The display name is written as it was read, if none was given. *)
UpdateNames(p) ==
    /\ At(p, "names")
    /\ LET display == proc[p].os["DisplayName"].val
           user == FoundOf(p, "ServiceUser")
           r == apxServiceSetNames(reg, Present, display, user)
           written == {o \in {"DisplayName", "ServiceUser"} :
                         (IF o = "DisplayName" THEN display ELSE user) # Empty}
       IN IF r.ok
          THEN /\ reg' = r.reg /\ Goto(p, "options")
               /\ Wrote(p, written, [o \in {w \in written : proc[p].os[w].found} |-> Given(p, o)])
          ELSE Close(p, "failed") /\ UNCHANGED <<reg, history>>
    /\ UNCHANGED <<scm, remade>>

UpdateOptions(p) ==
    /\ At(p, "options")
    /\ LET given == FoundOf(p, "Startup")
           start == IF given \in {"auto", "manual"} THEN given ELSE Empty
           r == apxServiceSetOptions(reg, Present, start)
       IN IF r.ok
          THEN /\ reg' = r.reg /\ Goto(p, "saveOpen")
               /\ IF start = Empty THEN UNCHANGED history
                  ELSE Wrote(p, {"Startup"}, [Startup |-> Given(p, "Startup")])
          ELSE Close(p, "failed") /\ UNCHANGED <<reg, history>>
    /\ UNCHANGED <<scm, remade>>

(* saveConfiguration: the keys, then one option after the other.  The       *)
(* result matters to US only.                                               *)
OpenKeys(p, ok, failed) ==
    LET r == apxCreateRegistry(reg, Exists, TRUE)
    IN /\ reg' = r.reg
       /\ remade' = (remade \/ (~Present /\ ~reg.root))
       /\ proc' = IF r.ok THEN [proc EXCEPT ![p].pc = ok, ![p].key = "open",
                                            ![p].todo = ToSave(proc[p].os)]
                  ELSE [proc EXCEPT ![p].pc = failed, ![p].service = FALSE, ![p].mutex = FALSE]

saveConfiguration(p) ==
    /\ At(p, "saveOpen")
    /\ OpenKeys(p, "saving", IF proc[p].index = 6 THEN "done" ELSE "failed")
    /\ UNCHANGED <<scm, history>>

(* Nothing can be written to a key that was deleted; nobody looks.          *)
SaveOption(p) ==
    /\ At(p, "saving") /\ proc[p].todo # {}
    /\ LET o == FirstOf(proc[p].todo)
       IN /\ proc' = [proc EXCEPT ![p].todo = @ \ {o}]
          /\ IF proc[p].key = "open"
             THEN /\ reg' = Store(reg, o, proc[p].os[o].val)
                  /\ Wrote(p, {o}, [w \in {w \in {o} : proc[p].line[w].found} |-> Given(p, w)])
             ELSE UNCHANGED <<reg, history>>
    /\ UNCHANGED <<scm, remade>>

Saved(p) ==
    /\ At(p, "saving") /\ proc[p].todo = {}
    /\ proc' = [proc EXCEPT ![p].pc = "done", ![p].service = FALSE, ![p].key = "none"]
    /\ UNCHANGED <<scm, reg, remade, history>>

(* IS creates the service, which fails as long as an older one is there,    *)
(* sets the account, and closes the service before it saves.                *)
docmdInstallService(p) ==
    /\ At(p, "create")
    /\ IF Exists THEN Goto(p, "failed") /\ UNCHANGED <<svc, reg, history>>
       ELSE LET display == proc[p].os["DisplayName"].val
                start == FoundOf(p, "Startup")
            IN /\ svc' = [there |-> "present", state |-> "STOPPED"]
               /\ reg' = apxServiceInstall(reg, display, start)
               /\ proc' = [proc EXCEPT ![p].pc = "account", ![p].service = TRUE]
               /\ Wrote(p, Srv, [DisplayName |-> display, ServiceUser |-> "LocalSystem",
                                  Startup |-> IF start = "auto" THEN "auto" ELSE "manual"])
    /\ UNCHANGED <<sc, dep, gui, ctl, remade>>

InstallAccount(p) ==
    /\ At(p, "account")
    /\ LET user == FoundOf(p, "ServiceUser")
           r == apxServiceSetNames(reg, Present, Empty, user)
       IN /\ reg' = r.reg
          /\ IF r.ok /\ user # Empty THEN Wrote(p, {"ServiceUser"}, [ServiceUser |-> user])
             ELSE UNCHANGED history
    /\ Close(p, "saveOpen")
    /\ UNCHANGED <<scm, remade>>

(* DS closes one prunmgr window of the service first, and stops the service *)
(* if it has to; whether that succeeds does not matter.  The parameters are *)
(* deleted after the service, and after its handle is closed.               *)
docmdDeleteService(p) ==
    /\ At(p, "open") /\ Runs(p, "prunsrv", 7)
    /\ Opened(p, "closeMonitor", "failed")
    /\ UNCHANGED <<scm, reg, remade, history>>

(* SendMessage waits until the window's thread takes messages. *)
Windows == {q \in Procs : gui[q].class}
TakesMessages(q) == At(q, "loop") \/ (At(q, "created") /\ gui[q].sheet.open)

(* WM_CLOSE and WM_DESTROY: window, icon and property sheet are gone, the   *)
(* message loop ends.                                                       *)
WindowClosed(q) == [gui[q] EXCEPT !.class = FALSE, !.ready = FALSE, !.icon = "none",
                                  !.refresh = FALSE, !.start = FALSE, !.menu = {}, !.sheet = Closed]

(* FindWindow and WM_CLOSE: p goes on to l. *)
CloseOther(p, l) ==
    \/ Windows = {} /\ Goto(p, l) /\ UNCHANGED gui
    \/ \E q \in Windows :
          /\ TakesMessages(q)
          /\ gui' = [gui EXCEPT ![q] = WindowClosed(q)]
          /\ proc' = [proc EXCEPT ![p].pc = l, ![q].pc = "quit"]

CloseMonitor(p) ==
    /\ At(p, "closeMonitor")
    /\ CloseOther(p, "query")
    /\ UNCHANGED <<sc, svc, dep, ctl, reg, remade, history>>

apxServiceDelete(p) ==
    /\ At(p, "query")
    /\ Goto(p, IF svc.state = "STOPPED" THEN "delete" ELSE "control")
    /\ ctl' = [ctl EXCEPT ![p] = IF svc.state = "STOPPED" THEN @ ELSE Begin("STOPPED")]
    /\ UNCHANGED <<sc, svc, dep, gui, reg, remade, history>>

DeleteService(p) ==
    /\ At(p, "delete")
    /\ svc' = [svc EXCEPT !.there = "marked"]
    /\ Close(p, IF Present THEN "deleteKeys" ELSE "failed")
    /\ UNCHANGED <<sc, dep, gui, ctl, reg, remade, history>>

(* Whoever has the keys open is left with keys that were deleted.  If there *)
(* is a new service by now, it loses its parameters.                        *)
apxDeleteRegistry(p) ==
    /\ At(p, "deleteKeys")
    /\ reg' = apxDeleteRegistryRecursive(reg)
    /\ proc' = [q \in Procs |-> [proc[q] EXCEPT !.key = IF @ = "open" THEN "deleted" ELSE @,
                                                !.pc = IF q = p THEN "done" ELSE @]]
    /\ IF Present THEN /\ overtaken' = overtaken \cup {o \in Params : asked[o] # Null(o)}
                       /\ UNCHANGED asked
       ELSE asked' = Forget(asked, Params) /\ overtaken' = overtaken \ Params
    /\ behind' = Change(Params)
    /\ UNCHANGED <<scm, remade>>

------------------------------------------------------------------------------
(* prunmgr: WinMain up to the message loop. *)
scmOnly == <<sc, svc, dep>>

Entry == [state |-> svc.state, display |-> reg.val["DisplayName"], start |-> reg.val["Startup"],
          user |-> apxGetServiceUser(reg)]

WinMain(p) ==
    /\ At(p, "start") /\ Is(p, "prunmgr")
    /\ IF ParseFails(Line(p)) \/ ~Exists THEN Goto(p, "quit") /\ UNCHANGED <<gui, behind>>
       ELSE LET index == apxCmdlineParse(Line(p)).index
            IN /\ proc' = [proc EXCEPT ![p].index = index, ![p].service = TRUE,
                                       ![p].pc = IF index = 4 THEN "quitOther" ELSE "mutex"]
               /\ gui' = [gui EXCEPT ![p].entry = Entry]
               /\ ReadBy(p, Srv)
    /\ UNCHANGED <<scmOnly, ctl, reg, remade, asked, overtaken>>

QuitOther(p) ==
    /\ At(p, "quitOther")
    /\ CloseOther(p, "quit")
    /\ UNCHANGED <<scmOnly, ctl, reg, remade, history>>

(* Mutant: whether there is another one is asked of the windows. *)
WindowExists == \E q \in Procs : gui[q].class

MutexExists == \E q \in Procs : proc[q].mutex

(* The mutex is never waited for: that it exists is enough.  The program    *)
(* that did not create it asks the other one to show its properties, and    *)
(* keeps its handle until that sheet is closed.                             *)
TakeMutex(p) ==
    /\ At(p, "mutex")
    /\ IF Job(p).multi THEN Goto(p, "keys")
       ELSE proc' = [proc EXCEPT ![p].pc = IF MutexExists THEN "already" ELSE "keys",
                                 ![p].mutex = TRUE]
    /\ UNCHANGED <<scmOnly, ctl, gui, reg, remade, history>>

Sheet == [Closed EXCEPT !.open = TRUE]
AlreadyRunning(p) ==
    /\ At(p, "already")
    /\ \/ Windows = {} /\ Goto(p, "quit") /\ UNCHANGED gui
       \/ \E q \in Windows :
             /\ TakesMessages(q)
             /\ Goto(p, IF gui[q].sheet.open THEN "quit" ELSE "asked")
             /\ gui' = IF gui[q].sheet.open THEN gui
                       ELSE [gui EXCEPT ![q].sheet = Sheet, ![p].host = q]
    /\ UNCHANGED <<scmOnly, ctl, reg, remade, history>>

Answered(p) ==
    /\ At(p, "asked") /\ ~gui[gui[p].host].sheet.open
    /\ Goto(p, "quit")
    /\ UNCHANGED <<scmOnly, ctl, gui, reg, remade, history>>

(* Without the service's key the program just returns. *)
OpenKeysOfManager(p) ==
    /\ At(p, "keys")
    /\ OpenKeys(p, "window", "done")
    /\ UNCHANGED <<scmOnly, ctl, gui, history>>

Icon(state) == IF state = "RUNNING" THEN "run" ELSE "stop"

(* WM_CREATE: the icon, or the properties, inside CreateWindow. *)
CreateMainWindow(p) ==
    /\ At(p, "window")
    /\ Goto(p, "created")
    /\ gui' = IF Tray(p) THEN [gui EXCEPT ![p].class = TRUE, ![p].icon = Icon(gui[p].entry.state)]
                          ELSE [gui EXCEPT ![p].class = TRUE, ![p].sheet = Sheet]
    /\ UNCHANGED <<scmOnly, ctl, reg, remade, history>>

(* hMainWnd is set; MR posts the start. *)
WindowCreated(p) ==
    /\ At(p, "created") /\ Tray(p)
    /\ Goto(p, "loop")
    /\ gui' = [gui EXCEPT ![p].ready = TRUE, ![p].start = (proc[p].index = 3)]
    /\ UNCHANGED <<scmOnly, ctl, reg, remade, history>>

(* The end: the mutex is closed, then the service, and the process ends     *)
(* with all its threads.                                                    *)
CloseMutex(p) ==
    /\ At(p, "quit")
    /\ proc' = [proc EXCEPT ![p].pc = "close", ![p].mutex = FALSE]
    /\ UNCHANGED <<scmOnly, ctl, gui, reg, remade, history>>
ExitProcess(p) ==
    /\ At(p, "close")
    /\ proc' = [proc EXCEPT ![p].pc = "done", ![p].service = FALSE, ![p].key = "none"]
    /\ ctl' = [ctl EXCEPT ![p] = Idle] /\ gui' = [gui EXCEPT ![p] = NoGui]
    /\ UNCHANGED <<scmOnly, reg, remade, history>>

------------------------------------------------------------------------------
(* prunmgr: the window, its menu, and the threads beside it.  What leaves   *)
(* reg and history alone changes gui, and ctl if said.                      *)
guiRest == <<scmOnly, reg, remade, history>>
StateOf(p, state) == [gui[p].entry EXCEPT !.state = state]

(* Mutant: the state is asked for before the old one is remembered. *)
refreshThreadBlind(p) ==
    /\ proc[p].pc \in {"window", "created", "loop"} /\ Is(p, "prunmgr")
    /\ gui' = [gui EXCEPT ![p].entry = StateOf(p, svc.state)]
    /\ UNCHANGED <<guiRest, proc, ctl>>

(* One round of refreshThread: a change it sees is posted, if there is a    *)
(* window to post to.                                                       *)
refreshThread(p) ==
    /\ proc[p].pc \in {"window", "created", "loop"} /\ Is(p, "prunmgr")
    /\ LET os == gui[p].entry.state
           changed == svc.state # os
       IN gui' = [gui EXCEPT ![p].entry = StateOf(p, svc.state),
                             ![p].refresh = @ \/ (changed /\ gui[p].ready),
                             ![p].missed = @ \/ (changed /\ ~gui[p].ready /\ At(p, "created"))]
    /\ UNCHANGED <<guiRest, proc, ctl>>

(* IDMS_REFRESH. *)
Refresh(p) ==
    /\ At(p, "loop") /\ gui[p].refresh
    /\ gui' = [gui EXCEPT ![p].entry = StateOf(p, svc.state), ![p].icon = Icon(svc.state),
                          ![p].refresh = FALSE, ![p].missed = FALSE]
    /\ UNCHANGED <<guiRest, proc, ctl>>

(* The right button asks for the state for its menu, which offers what that *)
(* state allows; the icon is not touched.  Tray messages are dispatched     *)
(* while a progress box is up, too.                                         *)
createRbuttonTryMenu(e) ==
    {"leave", "exit", "configure"}
    \cup (IF e.state = "STOPPED" /\ e.start # "disabled" THEN {"start"} ELSE {})
    \cup (IF e.state = "RUNNING" THEN {"stop"} ELSE {})
RightButton(p) ==
    /\ At(p, "loop") /\ gui[p].menu = {}
    /\ LET e == StateOf(p, svc.state)
       IN gui' = [gui EXCEPT ![p].entry = e, ![p].menu = createRbuttonTryMenu(e),
                             ![p].missed = @ \/ svc.state # gui[p].entry.state]
    /\ UNCHANGED <<guiRest, proc, ctl>>

(* Bounds: the user asks for the properties while there are edits to do,    *)
(* and for no second progress box while one is up.                          *)
ShowServiceProperties(p) ==
    IF gui[p].sheet.open \/ gui[p].edits = <<>> THEN gui[p].sheet ELSE Sheet

Choose(p) ==
    /\ At(p, "loop")
    /\ \E c \in gui[p].menu \ (IF Job(p).clicks /\ ctl[p] = Idle THEN {} ELSE {"start", "stop"}) :
         /\ IF c = "exit" THEN gui' = [gui EXCEPT ![p] = WindowClosed(p)] /\ Goto(p, "quit")
            ELSE /\ gui' = [gui EXCEPT ![p].menu = {},
                                       ![p].sheet = IF c = "configure" THEN ShowServiceProperties(p)
                                                    ELSE @]
                 /\ UNCHANGED proc
         /\ IF c \in {"start", "stop"} /\ ~gui[p].sheet.open
            THEN Control(p, IF c = "start" THEN "RUNNING" ELSE "STOPPED") ELSE UNCHANGED ctl
    /\ UNCHANGED guiRest

(* The start MR has posted. *)
PostedStart(p) ==
    /\ At(p, "loop") /\ gui[p].start /\ ctl[p] = Idle
    /\ gui' = [gui EXCEPT ![p].start = FALSE]
    /\ IF gui[p].sheet.open THEN UNCHANGED ctl ELSE Control(p, "RUNNING")
    /\ UNCHANGED <<guiRest, proc>>

(* Mutant: what apxServiceControl returned is taken for the state. *)
startServiceCallbackRaw(p) ==
    /\ Returned(p) /\ ctl[p].want = "RUNNING" /\ Is(p, "prunmgr")
    /\ gui' = [gui EXCEPT ![p].entry = StateOf(p, ctl[p].at), ![p].refresh = gui[p].ready]
    /\ ctl' = [ctl EXCEPT ![p] = Idle]
    /\ UNCHANGED <<guiRest, proc>>

(* The callbacks of a progress box, when apxServiceControl is back: after a *)
(* start that succeeded the cached state is RUNNING.                        *)
startServiceCallback(p) ==
    /\ Returned(p) /\ ctl[p].want = "RUNNING" /\ Is(p, "prunmgr")
    /\ gui' = [gui EXCEPT ![p].entry = IF ctl[p].at = "ok" THEN StateOf(p, "RUNNING") ELSE @,
                          ![p].refresh = gui[p].ready]
    /\ ctl' = [ctl EXCEPT ![p] = Idle]
    /\ UNCHANGED <<guiRest, proc>>
stopServiceCallback(p) ==
    /\ Returned(p) /\ ctl[p].want = "STOPPED" /\ Is(p, "prunmgr")
    /\ gui' = [gui EXCEPT ![p].refresh = gui[p].ready]
    /\ ctl' = [ctl EXCEPT ![p] = Idle]
    /\ UNCHANGED <<guiRest, proc>>

------------------------------------------------------------------------------
(* prunmgr: the property sheet.  A page reads what it shows when it is      *)
(* first looked at: two of them from the cached entry, the others from the  *)
(* registry, where nothing can be read once the keys are deleted.  What is  *)
(* typed marks the page as changed; typing the display name or the account  *)
(* that is cached unmarks it, whatever else was changed on the page.        *)
Page(shows, unmarks) == [shows |-> shows, unmarks |-> unmarks]
generalProperty(e) == Page([DisplayName |-> e.display, Startup |-> e.start],
                           [DisplayName |-> e.display])
logonProperty(e) == Page([ServiceUser |-> e.user], [ServiceUser |-> e.user])
loggingProperty(r) ==
    LET level == apxRegistryGetString(r, "LogLevel")
    IN Page([LogLevel |-> IF level = Empty THEN "Info" ELSE level], <<>>)
jvmProperty(r) == Page([JvmOptions |-> apxMszToCRLF(apxRegistryGetMzStr(r, "JvmOptions"))], <<>>)
startProperty(r) == Page([StartMode |-> apxRegistryGetString(r, "StartMode")], <<>>)
stopProperty(r) == Page([StopTimeout |-> apxRegistryGetNumber(r, "StopTimeout")], <<>>)

Pages == 1 .. 6
PageIn(p, page) ==
    LET e == gui[p].entry
        r == IF proc[p].key = "open" THEN reg ELSE EmptyRegistry
    IN CASE page = 1 -> generalProperty(e) [] page = 2 -> logonProperty(e)
         [] page = 3 -> loggingProperty(r) [] page = 4 -> jvmProperty(r)
         [] page = 5 -> startProperty(r) [] page = 6 -> stopProperty(r)
PageOf(o) == CASE o \in {"DisplayName", "Startup"} -> 1 [] o = "ServiceUser" -> 2
               [] o = "LogLevel" -> 3 [] o = "JvmOptions" -> 4 [] o = "StartMode" -> 5
               [] o = "StopTimeout" -> 6

(* The sheet can be typed in; bound: not while a progress box is up.        *)
Editing(p) == gui[p].sheet.open /\ ~gui[p].sheet.ok /\ ctl[p] = Idle

VisitPage(p) ==
    /\ Editing(p) /\ gui[p].edits # <<>>
    /\ LET page == PageOf(Head(gui[p].edits).opt)
           shown == PageIn(p, page).shows
       IN /\ DOMAIN shown \cap DOMAIN gui[p].sheet.fields = {}
          /\ gui' = [gui EXCEPT ![p].sheet.fields =
                        [o \in DOMAIN @ \cup DOMAIN shown |-> IF o \in DOMAIN @ THEN @[o] ELSE shown[o]]]
          /\ ReadBy(p, DOMAIN shown \ Srv)
    /\ UNCHANGED <<scmOnly, proc, ctl, reg, remade, asked, overtaken>>

Typed(o, text) == CASE Type(o) = "INT" -> apxAtoul(text) [] Type(o) = "MSZ" -> apxCRLFToMsz(text)
                    [] Type(o) = "STR" -> text

EditField(p) ==
    /\ Editing(p) /\ gui[p].edits # <<>>
    /\ LET ed == Head(gui[p].edits)
           sheet == gui[p].sheet
           page == PageOf(ed.opt)
           unmarks == PageIn(p, page).unmarks
           back == ed.opt \in DOMAIN unmarks /\ unmarks[ed.opt] = ed.text
       IN /\ ed.opt \in DOMAIN sheet.fields
          /\ gui' = [gui EXCEPT ![p].edits = Tail(@),
                                ![p].sheet = [sheet EXCEPT !.fields[ed.opt] = Typed(ed.opt, ed.text),
                                                           !.mine = @ \cup {ed.opt}, !.valid = ed.valid,
                                                           !.bits = IF back THEN @ \ {page}
                                                                    ELSE @ \cup {page}]]
    /\ UNCHANGED <<guiRest, proc, ctl>>

(* The buttons Start and Stop of the first page. *)
PushButton(p) ==
    /\ Editing(p) /\ Job(p).clicks
    /\ LET e == gui[p].entry
       IN \/ e.state = "STOPPED" /\ e.start # "disabled" /\ Control(p, "RUNNING")
          \/ e.state = "RUNNING" /\ Control(p, "STOPPED")
    /\ UNCHANGED <<guiRest, proc, gui>>

(* OK or Apply tells the pages to save.  After Apply the sheet stays.       *)
PushOk(p) == Editing(p) /\ gui' = [gui EXCEPT ![p].sheet.ok = TRUE] /\ UNCHANGED <<guiRest, proc, ctl>>
Applied(p) ==
    /\ gui[p].sheet.open /\ gui[p].sheet.ok /\ gui[p].sheet.bits = {}
    /\ gui' = [gui EXCEPT ![p].sheet.ok = FALSE]
    /\ UNCHANGED <<guiRest, proc, ctl>>

(* The save functions write all that their page shows. *)
generalPropertySave(r, present, f) ==
    apxServiceSetOptions(IF present THEN [r EXCEPT !.val["DisplayName"] = f.DisplayName] ELSE r,
                         present, f.Startup).reg
Account(f) == IF f.ServiceUser = Empty THEN "LocalSystem" ELSE f.ServiceUser
generalLogonSave(r, present, f) == apxServiceSetNames(r, present, Empty, Account(f)).reg
generalLoggingSave(r, f) == apxRegistrySetStr(r, "LogLevel", f.LogLevel)
generalJvmSave(r, f) == apxRegistrySetMzStr(r, "JvmOptions", f.JvmOptions)
generalStartSave(r, f) == apxRegistrySetStr(r, "StartMode", f.StartMode)
generalStopSave(r, f) == apxRegistrySetNum(r, "StopTimeout", f.StopTimeout)

SavedPage(page, f) ==
    CASE page = 1 -> generalPropertySave(reg, Present, f) [] page = 2 -> generalLogonSave(reg, Present, f)
      [] page = 3 -> generalLoggingSave(reg, f) [] page = 4 -> generalJvmSave(reg, f)
      [] page = 5 -> generalStartSave(reg, f) [] OTHER -> generalStopSave(reg, f)

(* The changed pages are saved in order, each when it is told to apply.  A  *)
(* page that refuses stops it, with those before it saved.  Failures to     *)
(* write are not noticed; the entry has the new account even so.            *)
ApplyPage(p) ==
    /\ gui[p].sheet.ok /\ gui[p].sheet.bits # {}
    /\ LET sheet == gui[p].sheet
           f == sheet.fields
           page == CHOOSE b \in sheet.bits : \A c \in sheet.bits : b <= c
           os == {o \in DOMAIN f : PageOf(o) = page}
           works == IF page <= 2 THEN Present ELSE proc[p].key = "open"
           new == [o \in os \cap sheet.mine |-> IF o = "ServiceUser" THEN Account(f) ELSE f[o]]
       IN IF page = 2 /\ ~sheet.valid /\ Account(f) # "LocalSystem"
          THEN gui' = [gui EXCEPT ![p].sheet.ok = FALSE] /\ UNCHANGED <<reg, history>>
          ELSE /\ IF works THEN reg' = SavedPage(page, f) /\ Wrote(p, os, new)
                           ELSE UNCHANGED <<reg, history>>
               /\ gui' = [gui EXCEPT ![p].sheet.bits = @ \ {page},
                                     ![p].refresh = @ \/ (gui[p].ready /\ ~(page = 1 /\ 2 \in sheet.bits)),
                                     ![p].entry.user = IF page = 2 THEN Account(f) ELSE @]
    /\ UNCHANGED <<scmOnly, proc, ctl, remade>>

(* OK is done, or Cancel.  Without a tray that was all. *)
CloseSheet(p) ==
    /\ TakesMessages(p) /\ gui[p].sheet.open
    /\ IF gui[p].sheet.ok THEN gui[p].sheet.bits = {} ELSE ctl[p] = Idle
    /\ gui' = [gui EXCEPT ![p].sheet = Closed]
    /\ IF Tray(p) THEN UNCHANGED proc ELSE Goto(p, "quit")
    /\ UNCHANGED <<guiRest, ctl>>

------------------------------------------------------------------------------
(* The steps of p's threads, and what only its user decides. *)
Prunsrv(p) ==
    \/ Main(p) \/ LoadConfiguration(p) \/ docmdStartService(p) \/ docmdStopService(p)
    \/ Controlled(p) \/ docmdUpdateService(p) \/ UpdateNames(p) \/ UpdateOptions(p)
    \/ saveConfiguration(p) \/ SaveOption(p) \/ Saved(p) \/ docmdInstallService(p)
    \/ InstallAccount(p) \/ docmdDeleteService(p) \/ CloseMonitor(p) \/ apxServiceDelete(p)
    \/ DeleteService(p) \/ apxDeleteRegistry(p)
Worker(p) == apxServiceControl(p) \/ apxStopDependentServices(p) \/ ControlService(p)
             \/ PollStatus(p) \/ FinalStatus(p)
MainThread(p) ==
    \/ WinMain(p) \/ QuitOther(p) \/ TakeMutex(p) \/ AlreadyRunning(p) \/ Answered(p)
    \/ OpenKeysOfManager(p) \/ CreateMainWindow(p) \/ WindowCreated(p) \/ CloseMutex(p)
    \/ ExitProcess(p) \/ ApplyPage(p)
Messages(p) == Refresh(p) \/ PostedStart(p)
Callback(p) == startServiceCallback(p) \/ stopServiceCallback(p)
User(p) == RightButton(p) \/ Choose(p) \/ VisitPage(p) \/ EditField(p) \/ PushButton(p)
           \/ PushOk(p) \/ Applied(p) \/ CloseSheet(p)

Next ==
    \/ ServiceChanges \/ ServiceEnds \/ ServiceGoes
    \/ \E p \in Procs : Prunsrv(p) \/ Worker(p) \/ MainThread(p) \/ Messages(p) \/ Callback(p)
                        \/ refreshThread(p) \/ User(p)

(* Threads run; starts and stops come to an end; nothing is assumed of the  *)
(* users, nor that a service ends by itself.                                *)
Fairness ==
    /\ WF_vars(ServiceChanges) /\ WF_vars(ServiceGoes)
    /\ \A p \in Procs :
         /\ WF_vars(Prunsrv(p) \/ MainThread(p) \/ Messages(p))
         /\ WF_vars(Worker(p) \/ Callback(p)) /\ WF_vars(refreshThread(p))

Spec == Init /\ [][Next]_vars /\ Fairness

------------------------------------------------------------------------------
(* Types. *)
Values(o) == CASE Type(o) = "STR" -> Strings [] Type(o) = "INT" -> 0 .. ULongSize - 1
               [] Type(o) = "MSZ" -> Seq(Strings)
TypedVal(v) == DOMAIN v = Options /\ \A o \in Options : v[o] \in Values(o)
TypedOptions(os) ==
    /\ DOMAIN os = Options
    /\ \A o \in Options : os[o] \in [val : Values(o), found : BOOLEAN, add : BOOLEAN]

States == {"STOPPED", "START_PENDING", "RUNNING", "STOP_PENDING"}
SrvPlaces == {"start", "load", "open", "control", "names", "options", "saveOpen", "saving", "create",
              "account", "closeMonitor", "query", "delete", "deleteKeys", "done", "failed"}
MgrPlaces == {"start", "quitOther", "mutex", "already", "asked", "keys", "window", "created", "loop",
              "quit", "close", "done"}
PlacesOf(p) == CASE Is(p, "prunsrv") -> SrvPlaces [] Is(p, "prunmgr") -> MgrPlaces
                 [] Is(p, "none") -> {"done"}

ServiceTyped ==
    /\ sc \in Scenarios
    /\ svc \in [there : {"none", "present", "marked"}, state : States] /\ dep \in BOOLEAN

TypedRegistry(r) ==
    DOMAIN r = {"root", "sub", "val"} /\ r.root \in BOOLEAN /\ r.sub \in BOOLEAN /\ TypedVal(r.val)

TypedProc(p, x) ==
    /\ DOMAIN x = {"pc", "index", "line", "os", "service", "key", "todo", "mutex"}
    /\ x.pc \in PlacesOf(p) /\ x.index \in 0 .. 9 /\ x.service \in BOOLEAN /\ x.mutex \in BOOLEAN
    /\ TypedOptions(x.line) /\ TypedOptions(x.os)
    /\ x.key \in {"none", "open", "deleted"} /\ x.todo \subseteq Params
ProcTyped == DOMAIN proc = Procs /\ \A p \in Procs : TypedProc(p, proc[p])
ControlTyped ==
    ctl \in [Procs -> [want : {"none", "RUNNING", "STOPPED"},
                       at : {"idle", "begin", "dependents", "stop", "poll", "final", "ok", "failed"}]]

(* What the window, the menu and the sheet of a prunmgr may hold. *)
TypedSheet(s) ==
    /\ DOMAIN s = {"open", "fields", "bits", "mine", "ok", "valid"}
    /\ s.open \in BOOLEAN /\ s.ok \in BOOLEAN /\ s.valid \in BOOLEAN
    /\ DOMAIN s.fields \subseteq Options /\ \A o \in DOMAIN s.fields : s.fields[o] \in Values(o)
    /\ s.bits \subseteq Pages /\ s.mine \subseteq DOMAIN s.fields
TypedGui(g) ==
    /\ DOMAIN g = {"entry", "class", "ready", "icon", "refresh", "start", "menu", "sheet", "edits",
                   "host", "missed"}
    /\ g.entry \in [state : States, display : Strings, start : Strings, user : Strings]
    /\ g.class \in BOOLEAN /\ g.ready \in BOOLEAN /\ g.refresh \in BOOLEAN /\ g.start \in BOOLEAN
    /\ g.missed \in BOOLEAN /\ g.icon \in {"none", "run", "stop"}
    /\ g.menu \subseteq {"leave", "exit", "configure", "start", "stop"}
    /\ TypedSheet(g.sheet) /\ Edits(g.edits) /\ g.host \in Procs \cup {"none"}
GuiTyped == DOMAIN gui = Procs /\ \A p \in Procs : TypedGui(gui[p])
HistoryTyped ==
    /\ TypedVal(asked) /\ overtaken \subseteq Options /\ remade \in BOOLEAN
    /\ behind \in [Procs -> SUBSET Options]

TypeOK == ServiceTyped /\ TypedRegistry(reg) /\ ProcTyped /\ ControlTyped /\ GuiTyped /\ HistoryTyped

(* What is stored is what the last process to set it asked for: nobody      *)
(* writes an option it was not told to write, or the value of another.  The *)
(* exceptions are those who write back what they read before somebody       *)
(* changed it (US the display name, a ++ list, the other fields of a page), *)
(* and a DS that ends after the service was installed again.                *)
Same(o, v, w) == IF Type(o) = "MSZ" THEN Readable(v) = Readable(w) ELSE v = w
ConfigurationIsMeant ==
    \A o \in Options \ overtaken : Same(o, reg.val[o], asked[o])

(* One prunmgr a service: if none allows others beside it, no two have      *)
(* their window up and running.                                             *)
OneManager ==
    (\A p \in Procs : ~Job(p).multi) =>
        \A p, q \in Procs : {proc[p].pc, proc[q].pc} \subseteq {"created", "loop"} => p = q

(* When a service is gone its parameters are, or are about to be, unless    *)
(* another process made their keys anew while it went.                      *)
OrphanNeedsOverlap ==
    svc.there = "none" /\ reg.root /\ ~remade => \E p \in Procs : At(p, "deleteKeys")

(* The icon of a monitor comes to show whether the service runs.  It is     *)
(* excused where a right click, or refreshThread before there is a window   *)
(* to post to, has seen the change and told nobody.                         *)
MonitorShowsState ==
    \A p \in Procs :
        At(p, "loop") /\ Tray(p) /\ gui[p].icon # Icon(svc.state)
            ~> ~At(p, "loop") \/ gui[p].missed \/ gui[p].icon = Icon(svc.state)
=============================================================================
