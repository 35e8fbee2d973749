---------------------------- MODULE ManagerProofs ----------------------------
(***************************************************************************)
(* What holds of the programs that administer a service for any number of  *)
(* processes and all scenarios: there is one manager window a service, a   *)
(* deleted service's parameters go with it, every variable has its type,   *)
(* and what is stored of an option was asked for.                          *)
(*                                                                         *)
(* The first part needs only where each process is and what it has open.   *)
(* The second goes through the helpers of Cmdline and Registry before the  *)
(* steps: what an argument, a command line, an environment or the registry *)
(* gives is of the option's type.  The third says what each process knows  *)
(* of the options, of what is stored and of what its user typed, so that   *)
(* each of its writes is of what was asked for or of what is there.        *)
(***************************************************************************)
EXTENDS Manager, FoldTheorems, SequenceTheorems, TLAPS

(* The fields the arguments need are there.                                 *)
ProcFields ==
    /\ DOMAIN proc = Procs
    /\ \A p \in Procs : {"pc", "service", "mutex"} \subseteq DOMAIN proc[p]
Fields == ProcFields /\ "there" \in DOMAIN svc /\ "root" \in DOMAIN reg

(* From the mutex on to the end of the window.                              *)
Guarded == {"keys", "window", "created", "loop"}
Holding == Guarded \cup {"already", "asked"}

(* A manager that is past the mutex has it open, and if nobody lets others  *)
(* in only one came through.                                                *)
HasMutex == \A p \in Procs : proc[p].pc \in Holding /\ ~Job(p).multi => proc[p].mutex
Alone ==
    (\A p \in Procs : ~Job(p).multi) =>
        \A p, q \in Procs : proc[p].pc \in Guarded /\ proc[q].pc \in Guarded => p = q

(* A command that deletes the service has it open until it is marked, and   *)
(* who has a service open keeps it from going.                              *)
Deleting == {"closeMonitor", "query", "control", "delete"}
HasService ==
    \A p \in Procs : /\ proc[p].pc \in Deleting => proc[p].service
                     /\ proc[p].service => Exists

(* Once the service is marked somebody is about to delete its parameters.   *)
Orphan == ~Present /\ reg.root /\ ~remade => \E p \in Procs : At(p, "deleteKeys")

MInv == Fields /\ HasMutex /\ Alone /\ HasService /\ Orphan

(* A process that goes elsewhere keeps its service and its mutex.           *)
LEMMA Moves ==
    ASSUME ProcFields, NEW p \in Procs, NEW l, Goto(p, l)
    PROVE  /\ ProcFields' /\ proc'[p].pc = l
           /\ proc'[p].service = proc[p].service /\ proc'[p].mutex = proc[p].mutex
           /\ \A q \in Procs \ {p} : proc'[q] = proc[q]
BY DEF ProcFields, Goto

LEMMA Closes ==
    ASSUME ProcFields, NEW p \in Procs, NEW l, Close(p, l)
    PROVE  /\ ProcFields' /\ proc'[p].pc = l
           /\ proc'[p].service = FALSE /\ proc'[p].mutex = proc[p].mutex
           /\ \A q \in Procs \ {p} : proc'[q] = proc[q]
BY DEF ProcFields, Close

LEMMA Inits == Init => MInv
<1> SUFFICES ASSUME Init PROVE MInv
    OBVIOUS
<1>1. /\ DOMAIN proc = Procs
      /\ \A p \in Procs : /\ {"pc", "service", "mutex"} \subseteq DOMAIN proc[p]
                          /\ proc[p].pc \in {"start", "done"} /\ ~proc[p].service
    BY DEF Init
<1>2. "there" \in DOMAIN svc /\ "root" \in DOMAIN reg /\ (sc.there => Present) /\ (~sc.there => ~reg.root)
    BY DEF Init, EmptyRegistry, apxServiceInstall, Present
<1> QED
    BY <1>1, <1>2 DEF MInv, ProcFields, Fields, HasMutex, Alone, HasService, Orphan, Guarded, Holding, Deleting

\* What a step of one process may do without disturbing any of it.
LEMMA MoveKeeps ==
    ASSUME MInv, NEW p \in Procs, Fields', UNCHANGED sc, svc'.there = svc.there,
           reg'.root /\ ~remade' /\ ~Present => reg.root /\ ~remade,
           \A q \in Procs \ {p} : proc'[q] = proc[q],
           proc[p].pc # "deleteKeys",
           proc'[p].pc \in Holding => proc[p].pc \in Holding /\ (proc[p].mutex => proc'[p].mutex),
           proc'[p].pc \in Guarded => proc[p].pc \in Guarded,
           proc'[p].pc \in Deleting => proc'[p].service,
           proc'[p].service => Exists
    PROVE  MInv'
<1>1. Present' = Present /\ Exists' = Exists /\ \A q \in Procs : Job(q)' = Job(q)
    BY DEF Present, Exists, Job
<1>2. HasMutex' /\ Alone'
    BY <1>1 DEF MInv, HasMutex, Alone
<1>3. HasService'
    BY <1>1 DEF MInv, HasService
<1>4. Orphan'
    BY <1>1 DEF MInv, Orphan, At
<1> QED
    BY <1>2, <1>3, <1>4 DEF MInv

\* Where all processes stay where they are.
LEMMA StayKeeps ==
    ASSUME MInv, Fields', UNCHANGED sc, svc'.there = svc.there, reg'.root = reg.root, remade' = remade,
           \A q \in Procs : /\ proc'[q].pc = proc[q].pc /\ proc'[q].service = proc[q].service
                            /\ proc'[q].mutex = proc[q].mutex
    PROVE  MInv'
<1>1. Present' = Present /\ Exists' = Exists /\ \A q \in Procs : Job(q)' = Job(q)
    BY DEF Present, Exists, Job
<1> QED
    BY <1>1 DEF MInv, HasMutex, Alone, HasService, Orphan, At

\* The service, the threads beside the main ones, the user.
LEMMA AsideKeeps ==
    ASSUME MInv,
           \/ ServiceChanges \/ ServiceEnds
           \/ \E p \in Procs : \/ Worker(p) \/ Messages(p) \/ Callback(p) \/ refreshThread(p)
                               \/ RightButton(p) \/ VisitPage(p) \/ EditField(p) \/ PushButton(p)
                               \/ PushOk(p) \/ Applied(p)
    PROVE  MInv'
<1>1. UNCHANGED <<sc, proc, reg, remade>>
    BY DEF ServiceChanges, ServiceEnds, service, Worker, apxServiceControl, apxStopDependentServices,
           ControlService, PollStatus, FinalStatus, controlRest, Messages, Refresh, PostedStart, Callback,
           startServiceCallback, stopServiceCallback, refreshThread, RightButton, VisitPage, EditField,
           PushButton, PushOk, Applied, guiRest, scmOnly
<1>2. svc' = svc \/ \E to : svc' = [svc EXCEPT !.state = to]
    BY DEF ServiceChanges, ServiceEnds, ServiceStep, Become, Worker, apxServiceControl,
           apxStopDependentServices, ControlService, PollStatus, FinalStatus, controlRest, Messages, Refresh,
           PostedStart, Callback, startServiceCallback, stopServiceCallback, refreshThread, RightButton,
           VisitPage, EditField, PushButton, PushOk, Applied, guiRest, scmOnly
<1>3. svc'.there = svc.there /\ Fields'
    BY <1>1, <1>2 DEF MInv, Fields, ProcFields
<1> QED
    BY <1>1, <1>3, StayKeeps

\* prunsrv, but for what it does to the service, to windows and to the keys.
LEMMA PrunsrvKeeps ==
    ASSUME MInv, NEW p \in Procs,
           \/ Main(p) \/ LoadConfiguration(p) \/ docmdStartService(p) \/ docmdStopService(p)
           \/ Controlled(p) \/ docmdUpdateService(p) \/ Saved(p) \/ docmdDeleteService(p)
           \/ apxServiceDelete(p)
    PROVE  MInv'
<1>1. UNCHANGED <<sc, svc, reg, remade>>
    BY DEF Main, LoadConfiguration, docmdStartService, docmdStopService, docmdControl, Controlled,
           docmdUpdateService, Saved, docmdDeleteService, apxServiceDelete, scm
<1>2. /\ Fields' /\ \A q \in Procs \ {p} : proc'[q] = proc[q]
      /\ proc[p].pc # "deleteKeys"
      /\ proc'[p].pc \notin Holding
      /\ proc'[p].service = proc[p].service \/ proc'[p].service = Exists \/ proc'[p].service = FALSE
      /\ proc'[p].pc \in Deleting => proc'[p].service
    <2>1. CASE Main(p) \/ LoadConfiguration(p)
        <3>1. CASE Main(p)
            <4>1. CASE ParseFails(Line(p))
                BY <1>1, <3>1, <4>1, Moves DEF Main, At, MInv, Fields, Holding, Guarded, Deleting
            <4>2. CASE ~ParseFails(Line(p))
                <5> DEFINE i == apxCmdlineParse(Line(p)).index
                           l == CASE i < 6 -> "load" [] i = 6 -> "create" [] i = 7 -> "open"
                                  [] OTHER -> "done"
                           os(s) == apxCmdlineLoadEnvVars(apxCmdlineParse(Line(p)).options, Job(p).env, s)
                <5>1. l \in {"load", "create", "open", "done"}
                    OBVIOUS
                <5>2. \E s \in BOOLEAN : proc' = [proc EXCEPT ![p].index = i, ![p].line = os(s),
                                                             ![p].os = os(s), ![p].pc = l]
                    BY <3>1, <4>2 DEF Main
                <5>3. At(p, "start")
                    BY <3>1 DEF Main
                <5> HIDE DEF i, l, os
                <5>4. /\ ProcFields' /\ proc'[p].pc = l /\ proc'[p].service = proc[p].service
                      /\ \A q \in Procs \ {p} : proc'[q] = proc[q]
                    BY <5>2 DEF MInv, Fields, ProcFields
                <5> QED
                    BY <1>1, <5>1, <5>3, <5>4 DEF At, MInv, Fields, Holding, Guarded, Deleting
            <4> QED
                BY <4>1, <4>2
        <3>2. CASE LoadConfiguration(p)
            <4> DEFINE os == loadConfiguration(reg, Exists, proc[p].os).options
                       l == IF loadConfiguration(reg, Exists, proc[p].os).ok \/ proc[p].index = 5
                            THEN "open" ELSE "failed"
            <4>1. /\ proc' = [proc EXCEPT ![p].os = os, ![p].pc = l]
                  /\ l \in {"open", "failed"} /\ At(p, "load")
                BY <3>2 DEF LoadConfiguration
            <4> HIDE DEF os, l
            <4>2. /\ ProcFields' /\ proc'[p].pc = l /\ proc'[p].service = proc[p].service
                  /\ \A q \in Procs \ {p} : proc'[q] = proc[q]
                BY <4>1 DEF MInv, Fields, ProcFields
            <4> QED
                BY <1>1, <4>1, <4>2 DEF At, MInv, Fields, Holding, Guarded, Deleting
        <3> QED
            BY <2>1, <3>1, <3>2
    <2>2. CASE docmdStartService(p) \/ docmdStopService(p) \/ docmdUpdateService(p) \/ docmdDeleteService(p)
        BY <1>1, <2>2 DEF docmdStartService, docmdStopService, docmdControl, docmdUpdateService,
                     docmdDeleteService, Opened, At, MInv, Fields, ProcFields, Holding, Guarded, Deleting
    <2>3. CASE Controlled(p) \/ apxServiceDelete(p)
        <3>1. /\ proc[p].pc \in {"control", "query"}
              /\ \/ \E l \in {"delete", "control"} : Goto(p, l)
                 \/ \E l \in {"done", "failed"} : Close(p, l)
            BY <2>3 DEF Controlled, apxServiceDelete, At
        <3>2. proc[p].service
            BY <3>1 DEF MInv, HasService, Deleting
        <3> QED
            BY <1>1, <3>1, <3>2, Moves, Closes DEF MInv, Fields, Holding, Guarded, Deleting
    <2>4. CASE Saved(p)
        BY <1>1, <2>4 DEF Saved, At, MInv, Fields, ProcFields, Holding, Guarded, Deleting
    <2> QED
        BY <2>1, <2>2, <2>3, <2>4
<1>3. proc'[p].service => Exists
    BY <1>2 DEF MInv, HasService
<1> QED
    BY <1>1, <1>2, <1>3, MoveKeeps DEF Guarded, Holding

\* What prunsrv writes: it keeps the keys, and knows when it makes them anew.
LEMMA WriterKeeps ==
    ASSUME MInv, NEW p \in Procs,
           \/ UpdateNames(p) \/ UpdateOptions(p) \/ saveConfiguration(p) \/ SaveOption(p)
           \/ InstallAccount(p) \/ OpenKeysOfManager(p)
    PROVE  MInv'
<1>1. CASE UpdateNames(p) \/ UpdateOptions(p) \/ InstallAccount(p)
    <2>1. UNCHANGED <<sc, svc, remade>>
        BY <1>1 DEF UpdateNames, UpdateOptions, InstallAccount, scm
    <2>2. reg'.root = reg.root /\ "root" \in DOMAIN reg'
        BY <1>1 DEF UpdateNames, UpdateOptions, InstallAccount, apxServiceSetNames, apxServiceSetOptions,
                    MInv, Fields
    <2>3. \E l \in {"options", "failed", "saveOpen"} : Goto(p, l) \/ Close(p, l)
        BY <1>1 DEF UpdateNames, UpdateOptions, InstallAccount
    <2>4. proc[p].pc # "deleteKeys"
        BY <1>1 DEF UpdateNames, UpdateOptions, InstallAccount, At
    <2>5. PICK l \in {"options", "failed", "saveOpen"} : Goto(p, l) \/ Close(p, l)
        BY <2>3
    <2>6. /\ ProcFields' /\ proc'[p].pc = l /\ (proc'[p].service => proc[p].service)
          /\ \A q \in Procs \ {p} : proc'[q] = proc[q]
        BY <2>5, Moves, Closes DEF MInv, Fields
    <2> QED
        BY <2>1, <2>2, <2>4, <2>6, MoveKeeps DEF MInv, Fields, HasService, Holding, Guarded, Deleting
<1>2. ASSUME NEW ok \in {"saving", "window"}, NEW failed \in {"done", "failed"}, OpenKeys(p, ok, failed),
             ok = "window" => proc[p].pc = "keys", proc[p].pc # "deleteKeys", UNCHANGED <<sc, svc>>
      PROVE  MInv'
    <2>1. /\ ProcFields' /\ \A q \in Procs \ {p} : proc'[q] = proc[q]
          /\ \/ proc'[p].pc = ok /\ proc'[p].service = proc[p].service /\ proc'[p].mutex = proc[p].mutex
             \/ proc'[p].pc = failed /\ ~proc'[p].service
        <3>1. CASE proc' = [proc EXCEPT ![p].pc = ok, ![p].key = "open", ![p].todo = ToSave(proc[p].os)]
            BY <3>1 DEF MInv, Fields, ProcFields
        <3>2. CASE proc' = [proc EXCEPT ![p].pc = failed, ![p].service = FALSE, ![p].mutex = FALSE]
            BY <3>2 DEF MInv, Fields, ProcFields
        <3> QED
            BY <1>2, <3>1, <3>2 DEF OpenKeys
    <2>2. "root" \in DOMAIN reg' /\ (reg'.root /\ ~remade' /\ ~Present => reg.root /\ ~remade)
        BY <1>2 DEF OpenKeys, apxCreateRegistry, MInv, Fields
    <2> QED
        BY <1>2, <2>1, <2>2, MoveKeeps DEF MInv, Fields, HasService, Holding, Guarded, Deleting
<1>3. CASE saveConfiguration(p)
    BY <1>2, <1>3 DEF saveConfiguration, At, scm
<1>4. CASE OpenKeysOfManager(p)
    BY <1>2, <1>4 DEF OpenKeysOfManager, At, scmOnly
<1>5. CASE SaveOption(p)
    <2>1. UNCHANGED <<sc, svc, remade>> /\ \E o : proc' = [proc EXCEPT ![p].todo = @ \ {o}]
        BY <1>5 DEF SaveOption, scm
    <2>2. reg'.root = reg.root /\ "root" \in DOMAIN reg'
        <3>1. reg' = reg \/ \E o, v : reg' = Store(reg, o, v)
            BY <1>5 DEF SaveOption
        <3>2. ASSUME NEW o, NEW v
              PROVE  Store(reg, o, v).root = reg.root /\ "root" \in DOMAIN Store(reg, o, v)
            BY DEF Store, apxRegistrySetStr, apxRegistrySetNum, apxRegistrySetMzStr, MInv, Fields
        <3> QED
            BY <3>1, <3>2 DEF MInv, Fields
    <2>3. /\ ProcFields'
          /\ \A q \in Procs : /\ proc'[q].pc = proc[q].pc /\ proc'[q].service = proc[q].service
                              /\ proc'[q].mutex = proc[q].mutex
        BY <2>1 DEF MInv, Fields, ProcFields
    <2> QED
        BY <2>1, <2>2, <2>3, StayKeeps DEF MInv, Fields
<1> QED
    BY <1>1, <1>3, <1>4, <1>5

\* prunmgr up to its window, and its end.
LEMMA ManagerKeeps ==
    ASSUME MInv, NEW p \in Procs,
           \/ WinMain(p) \/ AlreadyRunning(p) \/ Answered(p) \/ CreateMainWindow(p) \/ WindowCreated(p)
           \/ CloseMutex(p) \/ ExitProcess(p) \/ Choose(p) \/ CloseSheet(p)
    PROVE  MInv'
<1>1. UNCHANGED <<sc, svc, reg, remade>>
    BY DEF WinMain, AlreadyRunning, Answered, CreateMainWindow, WindowCreated, CloseMutex, ExitProcess,
           Choose, CloseSheet, guiRest, scmOnly
<1>2. CASE WinMain(p)
    <2>1. CASE Goto(p, "quit")
        BY <1>1, <1>2, <2>1, Moves, MoveKeeps
           DEF WinMain, At, MInv, Fields, HasService, Holding, Guarded, Deleting
    <2>2. CASE ~Goto(p, "quit")
        <3> DEFINE i == apxCmdlineParse(Line(p)).index
                   l == IF i = 4 THEN "quitOther" ELSE "mutex"
        <3>1. /\ proc' = [proc EXCEPT ![p].index = i, ![p].service = TRUE, ![p].pc = l]
              /\ l \in {"quitOther", "mutex"} /\ At(p, "start") /\ Exists
            BY <1>2, <2>2 DEF WinMain
        <3> HIDE DEF i, l
        <3>2. /\ ProcFields' /\ proc'[p].pc = l /\ \A q \in Procs \ {p} : proc'[q] = proc[q]
            BY <3>1 DEF MInv, Fields, ProcFields
        <3> QED
            BY <1>1, <3>1, <3>2, MoveKeeps DEF At, MInv, Fields, Holding, Guarded, Deleting
    <2> QED
        BY <2>1, <2>2
<1>3. CASE AlreadyRunning(p) \/ Answered(p)
    <2>1. \E l \in {"quit", "asked"} : Goto(p, l) /\ (l = "asked" => proc[p].pc = "already")
                                       /\ proc[p].pc \in {"already", "asked"}
        BY <1>3 DEF AlreadyRunning, Answered, At
    <2> QED
        BY <1>1, <2>1, Moves, MoveKeeps DEF MInv, Fields, HasService, Holding, Guarded, Deleting
<1>4. CASE CreateMainWindow(p) \/ WindowCreated(p)
    <2>1. \E l \in {"created", "loop"} : Goto(p, l) /\ proc[p].pc \in {"window", "created"}
        BY <1>4 DEF CreateMainWindow, WindowCreated, At
    <2> QED
        BY <1>1, <2>1, Moves, MoveKeeps DEF MInv, Fields, HasService, Holding, Guarded, Deleting
<1>5. CASE CloseMutex(p)
    <2>1. /\ ProcFields' /\ proc'[p].pc = "close" /\ proc'[p].service = proc[p].service
          /\ \A q \in Procs \ {p} : proc'[q] = proc[q]
        BY <1>5 DEF CloseMutex, MInv, Fields, ProcFields
    <2>2. proc[p].pc \notin {"deleteKeys"}
        BY <1>5 DEF CloseMutex, At
    <2> QED
        BY <1>1, <2>1, <2>2, MoveKeeps
           DEF MInv, Fields, HasService, Holding, Guarded, Deleting
<1>6. CASE ExitProcess(p)
    <2>1. /\ ProcFields' /\ proc'[p].pc = "done" /\ proc'[p].service = FALSE
          /\ \A q \in Procs \ {p} : proc'[q] = proc[q]
        BY <1>6 DEF ExitProcess, MInv, Fields, ProcFields
    <2>2. proc[p].pc \notin {"deleteKeys"}
        BY <1>6 DEF ExitProcess, At
    <2> QED
        BY <1>1, <2>1, <2>2, MoveKeeps
           DEF MInv, Fields, Holding, Guarded, Deleting
<1>7. CASE Choose(p) \/ CloseSheet(p)
    <2>1. proc[p].pc \in {"loop", "created"} /\ (Goto(p, "quit") \/ UNCHANGED proc)
        BY <1>7 DEF Choose, CloseSheet, TakesMessages, At
    <2>2. CASE UNCHANGED proc
        BY <1>1, <2>2, StayKeeps DEF MInv, Fields, ProcFields
    <2>3. CASE Goto(p, "quit")
        BY <1>1, <2>1, <2>3, Moves, MoveKeeps DEF MInv, Fields, HasService, Holding, Guarded, Deleting
    <2> QED
        BY <2>1, <2>2, <2>3
<1> QED
    BY <1>2, <1>3, <1>4, <1>5, <1>6, <1>7

\* A page of the property sheet that is saved writes values, no keys.
LEMMA PageKeeps ==
    ASSUME MInv, NEW p \in Procs, ApplyPage(p)
    PROVE  MInv'
<1>1. UNCHANGED <<sc, svc, proc, remade>>
    BY DEF ApplyPage, scmOnly
<1>2. ASSUME NEW page, NEW f
      PROVE  SavedPage(page, f).root = reg.root /\ "root" \in DOMAIN SavedPage(page, f)
    BY DEF SavedPage, generalPropertySave, generalLogonSave, generalLoggingSave, generalJvmSave,
           generalStartSave, generalStopSave, apxServiceSetNames, apxServiceSetOptions, apxRegistrySetStr,
           apxRegistrySetNum, apxRegistrySetMzStr, MInv, Fields
<1>3. reg' = reg \/ \E page, f : reg' = SavedPage(page, f)
    BY DEF ApplyPage
<1> QED
    BY <1>1, <1>2, <1>3, StayKeeps DEF MInv, Fields, ProcFields

\* The mutex.
LEMMA MutexKeeps ==
    ASSUME MInv, NEW p \in Procs, TakeMutex(p)
    PROVE  MInv'
<1>1. UNCHANGED <<sc, svc, reg, remade>> /\ proc[p].pc = "mutex"
    BY DEF TakeMutex, scmOnly, At
<1>2. Present' = Present /\ Exists' = Exists /\ \A q \in Procs : Job(q)' = Job(q)
    BY <1>1 DEF Present, Exists, Job
<1>3. /\ ProcFields' /\ \A q \in Procs \ {p} : proc'[q] = proc[q]
      /\ proc'[p].service = proc[p].service
      /\ \/ Job(p).multi /\ proc'[p].pc = "keys"
         \/ ~Job(p).multi /\ ~MutexExists /\ proc'[p].mutex /\ proc'[p].pc = "keys"
         \/ ~Job(p).multi /\ proc'[p].mutex /\ proc'[p].pc = "already"
    <2>1. CASE Job(p).multi
        BY <2>1, Moves DEF TakeMutex, MInv, Fields
    <2>2. CASE ~Job(p).multi
        BY <2>2 DEF TakeMutex, MInv, Fields, ProcFields
    <2> QED
        BY <2>1, <2>2
<1>4. HasMutex'
    BY <1>2, <1>3 DEF MInv, HasMutex
<1>5. Alone'
    <2> SUFFICES ASSUME \A q \in Procs : ~Job(q).multi, NEW q \in Procs, NEW r \in Procs, q # r,
                        proc'[q].pc \in Guarded, proc'[r].pc \in Guarded
                 PROVE  FALSE
        BY <1>2 DEF Alone
    <2> QED
        BY <1>3 DEF MInv, HasMutex, Alone, MutexExists, Holding, Guarded
<1>6. HasService' /\ Orphan'
    BY <1>1, <1>2, <1>3 DEF MInv, HasService, Orphan, Deleting, At
<1> QED
    BY <1>1, <1>3, <1>4, <1>5, <1>6 DEF MInv, Fields

\* A window that another program closes.
LEMMA CloseKeeps ==
    ASSUME MInv, NEW p \in Procs, CloseMonitor(p) \/ QuitOther(p)
    PROVE  MInv'
<1>1. UNCHANGED <<sc, svc, reg, remade>>
    BY DEF CloseMonitor, QuitOther, scmOnly
<1>2. PICK l \in {"query", "quit"} :
          /\ CloseOther(p, l) /\ proc[p].pc \in {"closeMonitor", "quitOther"}
          /\ l = "query" => proc[p].pc = "closeMonitor"
    BY DEF CloseMonitor, QuitOther, At
<1>3. CASE Goto(p, l)
    BY <1>1, <1>2, <1>3, Moves, MoveKeeps DEF MInv, Fields, HasService, Holding, Guarded, Deleting
<1>4. CASE ~Goto(p, l)
    <2>1. PICK q \in Procs : /\ proc' = [proc EXCEPT ![p].pc = l, ![q].pc = "quit"]
                             /\ proc[q].pc \in {"loop", "created"}
        BY <1>2, <1>4 DEF CloseOther, Windows, TakesMessages, At
    <2>2. p # q
        BY <1>2, <2>1
    <2>3. /\ ProcFields' /\ proc'[p].pc = l /\ proc'[q].pc = "quit"
          /\ \A r \in Procs \ {p, q} : proc'[r].pc = proc[r].pc
          /\ \A r \in Procs : proc'[r].service = proc[r].service /\ proc'[r].mutex = proc[r].mutex
        BY <2>1, <2>2 DEF MInv, Fields, ProcFields
    <2>4. Present' = Present /\ Exists' = Exists /\ \A r \in Procs : Job(r)' = Job(r)
        BY <1>1 DEF Present, Exists, Job
    <2>5. HasMutex' /\ Alone'
        BY <2>3, <2>4 DEF MInv, HasMutex, Alone, Holding, Guarded
    <2>6. HasService'
        BY <1>2, <2>3, <2>4 DEF MInv, HasService, Deleting
    <2>7. Orphan'
        BY <1>1, <1>2, <2>1, <2>3, <2>4 DEF MInv, Orphan, At
    <2> QED
        BY <1>1, <2>3, <2>5, <2>6, <2>7 DEF MInv, Fields
<1> QED
    BY <1>3, <1>4

\* The service is made, marked, and goes.
LEMMA InstallKeeps ==
    ASSUME MInv, NEW p \in Procs, docmdInstallService(p)
    PROVE  MInv'
<1>1. CASE Goto(p, "failed") /\ UNCHANGED <<sc, svc, reg, remade>>
    <2>1. proc[p].pc = "create"
        BY DEF docmdInstallService, At
    <2> QED
        BY <1>1, <2>1, Moves, MoveKeeps DEF MInv, Fields, HasService, Holding, Guarded, Deleting
<1>2. CASE ~(Goto(p, "failed") /\ UNCHANGED <<sc, svc, reg, remade>>)
    <2>1. /\ svc' = [there |-> "present", state |-> "STOPPED"] /\ UNCHANGED sc /\ proc[p].pc = "create"
          /\ proc' = [proc EXCEPT ![p].pc = "account", ![p].service = TRUE]
        BY <1>2 DEF docmdInstallService, At
    <2>2. Present' /\ Exists' /\ "there" \in DOMAIN svc' /\ \A q \in Procs : Job(q)' = Job(q)
        BY <2>1 DEF Present, Exists, Job
    <2>3. "root" \in DOMAIN reg'
        BY <1>2 DEF docmdInstallService, apxServiceInstall, MInv, Fields
    <2>4. /\ ProcFields' /\ proc'[p].pc = "account" /\ \A q \in Procs \ {p} : proc'[q] = proc[q]
          /\ proc'[p].service
        BY <2>1 DEF MInv, Fields, ProcFields
    <2> QED
        BY <2>2, <2>3, <2>4
           DEF MInv, Fields, HasMutex, Alone, HasService, Orphan, Holding, Guarded, Deleting
<1> QED
    BY <1>1, <1>2

(* The service is marked: who marked it is about to delete the parameters.  *)
LEMMA DeleteKeeps ==
    ASSUME MInv, NEW p \in Procs, DeleteService(p)
    PROVE  MInv'
<1>1. UNCHANGED <<sc, reg, remade>> /\ svc' = [svc EXCEPT !.there = "marked"] /\ proc[p].pc = "delete"
    BY DEF DeleteService, At
<1>2. PICK l \in {"deleteKeys", "failed"} : Close(p, l) /\ (Present => l = "deleteKeys")
    BY DEF DeleteService
<1>3. /\ ProcFields' /\ proc'[p].pc = l /\ ~proc'[p].service /\ \A q \in Procs \ {p} : proc'[q] = proc[q]
    BY <1>2, Closes DEF MInv, Fields
<1>4. svc'.there = "marked" /\ "there" \in DOMAIN svc' /\ \A q \in Procs : Job(q)' = Job(q)
    BY <1>1 DEF MInv, Fields, Job
<1>5. HasMutex' /\ Alone'
    BY <1>3, <1>4 DEF MInv, HasMutex, Alone, Holding, Guarded
<1>6. HasService'
    BY <1>3, <1>4 DEF MInv, HasService, Deleting, Exists
<1>7. Orphan'
    BY <1>1, <1>2, <1>3, <1>4 DEF MInv, Orphan, At
<1> QED
    BY <1>1, <1>3, <1>4, <1>5, <1>6, <1>7 DEF MInv, Fields

LEMMA KeysKeep ==
    ASSUME MInv, NEW p \in Procs, apxDeleteRegistry(p)
    PROVE  MInv'
<1>1. UNCHANGED <<sc, svc, remade>> /\ ~reg'.root /\ "root" \in DOMAIN reg'
    BY DEF apxDeleteRegistry, apxDeleteRegistryRecursive, scm, MInv, Fields
<1>2. /\ ProcFields'
      /\ \A q \in Procs : /\ proc'[q].pc = proc[q].pc \/ proc'[q].pc = "done"
                          /\ proc'[q].service = proc[q].service /\ proc'[q].mutex = proc[q].mutex
    BY DEF apxDeleteRegistry, MInv, Fields, ProcFields
<1>3. Exists' = Exists /\ \A q \in Procs : Job(q)' = Job(q)
    BY <1>1 DEF Exists, Job
<1> QED
    BY <1>1, <1>2, <1>3
       DEF MInv, Fields, HasMutex, Alone, HasService, Orphan, Holding, Guarded, Deleting

LEMMA GoneKeeps == MInv /\ ServiceGoes => MInv'
<1> SUFFICES ASSUME MInv, ServiceGoes PROVE MInv'
    OBVIOUS
<1>1. UNCHANGED <<sc, proc, remade>> /\ svc' = [svc EXCEPT !.there = "none"] /\ ~Present
      /\ \A q \in Procs : ~proc[q].service
    BY DEF ServiceGoes, Present
<1>2. reg'.root = reg.root /\ "root" \in DOMAIN reg'
    BY DEF ServiceGoes, ServiceKeyRemoved, MInv, Fields
<1>3. "there" \in DOMAIN svc' /\ \A q \in Procs : Job(q)' = Job(q)
    BY <1>1 DEF MInv, Fields, Job
<1> QED
    BY <1>1, <1>2, <1>3 DEF MInv, Fields, ProcFields, HasMutex, Alone, HasService, Orphan, At

LEMMA StepKeeps == MInv /\ [Next]_vars => MInv'
<1> SUFFICES ASSUME MInv, [Next]_vars PROVE MInv'
    OBVIOUS
<1>1. CASE UNCHANGED vars
    BY <1>1, StayKeeps DEF vars, MInv, Fields, ProcFields
<1>2. ASSUME NEW p \in Procs, Prunsrv(p) PROVE MInv'
    BY <1>2, PrunsrvKeeps, WriterKeeps, CloseKeeps, InstallKeeps, DeleteKeeps, KeysKeep DEF Prunsrv
<1>3. ASSUME NEW p \in Procs, MainThread(p) PROVE MInv'
    BY <1>3, ManagerKeeps, WriterKeeps, CloseKeeps, MutexKeeps, PageKeeps DEF MainThread
<1>4. ASSUME NEW p \in Procs, User(p) PROVE MInv'
    BY <1>4, AsideKeeps, ManagerKeeps DEF User
<1> QED
    BY <1>1, <1>2, <1>3, <1>4, AsideKeeps, GoneKeeps DEF Next

LEMMA Invariant == Spec => []MInv
BY Inits, StepKeeps, PTL DEF Spec

-----------------------------------------------------------------------------
\* However many of them are started at once, and whatever else is done to the
\* service meanwhile, one prunmgr at most has its window if none lets others in.
THEOREM MutexExcludes == Spec => []OneManager
<1>1. MInv => OneManager
    BY DEF MInv, Alone, OneManager, Guarded
<1> QED
    BY <1>1, Invariant, PTL

\* The parameters of a service that is gone are left only if another program made
\* their keys while it went.
THEOREM DeletedWithService == Spec => []OrphanNeedsOverlap
<1>1. MInv => OrphanNeedsOverlap
    BY DEF MInv, Orphan, Present, OrphanNeedsOverlap
<1> QED
    BY <1>1, Invariant, PTL

------------------------------------------------------------------------------
(* What the options, the command line and the registry hold: the helpers'   *)
(* results are of their types, and what a reader sees of a list is a list.  *)

(* The options the code names are options, and these are their types.       *)
LEMMA OptionsAre ==
    /\ Options = {"DisplayName", "ServiceUser", "Startup", "JvmOptions", "StopTimeout", "StartMode",
                  "LogLevel"}
    /\ Names \in Seq(Options) /\ Len(Names) = 7
BY DEF Options, Names, Table, Opt, ToSet

LEMMA PlaceOf ==
    ASSUME NEW o \in Options
    PROVE  Place(o) \in 1 .. 7 /\ Names[Place(o)] = o
<1>1. \E i \in DOMAIN Table : Names[i] = o
    BY DEF Options, Names, Table, ToSet
<1>2. DOMAIN Table = 1 .. 7
    BY DEF Table
<1> QED
    BY <1>1, <1>2 DEF Place

LEMMA TypesAre ==
    /\ \A o \in {"DisplayName", "ServiceUser", "Startup", "StartMode", "LogLevel"} : Type(o) = "STR"
    /\ Type("StopTimeout") = "INT" /\ Type("JvmOptions") = "MSZ"
    /\ Srv = {"DisplayName", "ServiceUser", "Startup"}
    /\ Params = {"JvmOptions", "StopTimeout", "StartMode", "LogLevel"}
<1>1. \A i \in 1 .. 7 : Names[i] = Table[i].name
    BY DEF Names, Table
<1>2. /\ Place("DisplayName") = 1 /\ Place("ServiceUser") = 2 /\ Place("Startup") = 3
      /\ Place("JvmOptions") = 4 /\ Place("StopTimeout") = 5 /\ Place("StartMode") = 6
      /\ Place("LogLevel") = 7
    BY <1>1, PlaceOf, OptionsAre DEF Table, Opt
<1>3. /\ \A o \in {"DisplayName", "ServiceUser", "Startup"} : Row(o).from = "SRV"
      /\ \A o \in {"JvmOptions", "StopTimeout", "StartMode", "LogLevel"} : Row(o).from = "REG"
    BY <1>2 DEF Row, Table, Opt
<1> QED
    BY <1>2, <1>3, OptionsAre DEF Type, Row, Table, Opt, Srv, Params

LEMMA StringsAre ==
    /\ Empty \in Strings /\ "auto" \in Strings /\ "manual" \in Strings /\ "disabled" \in Strings
    /\ "LocalSystem" \in Strings /\ "Info" \in Strings /\ "svc" \in Strings
BY StringsAssumption

LEMMA TailOf ==
    ASSUME NEW S, NEW s \in Seq(S), NEW n \in 0 .. Len(s), NEW t, t = SubSeq(s, Len(s) - n + 1, Len(s))
    PROVE  t \in Seq(S) /\ Len(t) = n /\ DOMAIN t = 1 .. n /\ \A i \in 1 .. n : t[i] = s[Len(s) - n + i]
<1> DEFINE m == Len(s) - n + 1
<1>1. m \in 1 .. Len(s) + 1 /\ Len(s) \in m - 1 .. Len(s) /\ Len(s) - m + 1 = n
    OBVIOUS
<1>2. \A i \in 1 .. n : m + i - 1 = Len(s) - n + i
    OBVIOUS
<1> HIDE DEF m
<1>3. /\ SubSeq(s, m, Len(s)) \in Seq(S)
      /\ Len(SubSeq(s, m, Len(s))) = IF m <= Len(s) THEN Len(s) - m + 1 ELSE 0
      /\ \A i \in 1 .. Len(s) - m + 1 : SubSeq(s, m, Len(s))[i] = s[m + i - 1]
    BY <1>1, SubSeqProperties
<1>4. Len(t) = n /\ t \in Seq(S)
    BY <1>1, <1>3 DEF m
<1>5. \A i \in 1 .. n : t[i] = s[Len(s) - n + i]
    BY <1>1, <1>2, <1>3 DEF m
<1> QED
    BY <1>4, <1>5

LEMMA NullTyped == ASSUME NEW o \in Options PROVE Null(o) \in Values(o)
<1>1. Type(o) \in {"STR", "INT", "MSZ"}
    BY OptionsAre, TypesAre
<1>2. CASE Type(o) = "STR"
    BY <1>2, StringsAre DEF Null, Values
<1>3. CASE Type(o) = "INT"
    BY <1>3, ULongAssumption DEF Null, Values
<1>4. CASE Type(o) = "MSZ"
    BY <1>4 DEF Null, Values
<1> QED
    BY <1>1, <1>2, <1>3, <1>4

(* A number read from text has the width of the build's unsigned long.      *)
LEMMA NumberTyped ==
    ASSUME NEW s \in Seq(0 .. 11)
    PROVE  apxAtoul(s) \in 0 .. ULongSize - 1
<1> DEFINE tail(n) == SubSeq(s, Len(s) - n + 1, Len(s))
           Q(k) == /\ ToSet(tail(k)) \subseteq Digits
                   /\ k < Len(s) => s[Len(s) - k] \notin Digits
           n == CHOOSE k \in 0 .. Len(s) : Q(k)
           back(a, d) == [rv |-> (a.rv + d * a.sh) % ULongSize, sh |-> (a.sh * 10) % ULongSize]
           b == [rv |-> 0, sh |-> 1]
           A == [rv : 0 .. ULongSize - 1, sh : Nat]
<1>1. \E k \in 0 .. Len(s) : Q(k)
    <2> DEFINE W == {j \in 1 .. Len(s) : s[Len(s) - j + 1] \notin Digits}
    <2>1. Len(s) \in Nat
        OBVIOUS
    <2>2. PICK m \in 0 .. Len(s) : (\A j \in 1 .. m : j \notin W) /\ (m < Len(s) => m + 1 \in W)
        <3> HIDE DEF W
        <3> QED
            BY <2>1, PrefixLength
    <2>3. PICK u : u = tail(m)
        OBVIOUS
    <2>4. DOMAIN u = 1 .. m /\ \A i \in 1 .. m : u[i] = s[Len(s) - m + i]
        BY <2>3, TailOf
    <2>5. ToSet(tail(m)) \subseteq Digits
        <3>1. ASSUME NEW i \in 1 .. m PROVE u[i] \in Digits
            <4>1. m - i + 1 \in 1 .. m /\ m - i + 1 \in 1 .. Len(s)
                BY <2>2
            <4>2. s[Len(s) - (m - i + 1) + 1] \in Digits
                BY <2>2, <4>1
            <4>3. Len(s) - (m - i + 1) + 1 = Len(s) - m + i
                BY <2>2
            <4> QED
                BY <2>4, <4>2, <4>3
        <3>2. ToSet(u) \subseteq Digits
            BY <2>4, <3>1 DEF ToSet
        <3> QED
            BY <2>3, <3>2
    <2>6. m < Len(s) => s[Len(s) - m] \notin Digits
        <3>1. Len(s) - (m + 1) + 1 = Len(s) - m
            BY <2>2
        <3> QED
            BY <2>2, <3>1
    <2> QED
        BY <2>5, <2>6
<1>2. n \in 0 .. Len(s) /\ Q(n)
    <2> HIDE DEF Q
    <2> QED
        BY <1>1
<1>3. PICK t : t = Reverse(tail(n))
    OBVIOUS
<1>4. t \in Seq(Digits)
    <2>1. PICK u : u = tail(n)
        OBVIOUS
    <2>2. u \in Seq(0 .. 11) /\ Len(u) = n /\ DOMAIN u = 1 .. n /\ ToSet(u) \subseteq Digits
        <3> HIDE DEF n
        <3> QED
            BY <1>2, <2>1, TailOf
    <2> HIDE DEF tail, n, Q
    <2>3. \A i \in 1 .. n : (n - i) + 1 \in 1 .. n /\ u[(n - i) + 1] \in Digits
        <3>1. \A i \in 1 .. n : (n - i) + 1 \in 1 .. n
            BY <1>2
        <3> QED
            BY <2>2, <3>1 DEF ToSet
    <2>4. t = [i \in 1 .. n |-> u[(n - i) + 1]]
        BY <1>3, <2>1, <2>2 DEF Reverse
    <2>5. t \in [1 .. n -> Digits] /\ n \in Nat
        BY <1>2, <2>3, <2>4
    <2> QED
        BY <2>5
<1> DEFINE Q2(g) == g = [ss \in SUBSET (DOMAIN t) |->
                          IF ss = {} THEN b ELSE back(g[ss \ {Max(ss)}], t[Max(ss)])]
<1>5. apxAtoul(s) = IF s # <<>> /\ s[1] = MINUS THEN (-((CHOOSE g : Q2(g))[DOMAIN t].rv)) % ULongSize
                    ELSE (CHOOSE g : Q2(g))[DOMAIN t].rv
    BY <1>3 DEF apxAtoul, FoldLeft, MapThenFoldSet
<1>6. PICK F : F = [z \in A \X Digits |-> back(z[1], z[2])]
    OBVIOUS
<1>7. b \in A /\ F \in [A \X Digits -> A]
    <2>1. ASSUME NEW a \in A, NEW d \in Digits PROVE back(a, d) \in A
        <3>1. a.rv + d * a.sh \in Int /\ a.sh * 10 \in Int
            BY DEF Digits
        <3>2. (a.rv + d * a.sh) % ULongSize \in 0 .. ULongSize - 1
            BY <3>1, ULongAssumption
        <3>3. (a.sh * 10) % ULongSize \in Nat
            BY <3>1, ULongAssumption
        <3> QED
            BY <3>2, <3>3
    <2>2. b \in A
        BY ULongAssumption
    <2> HIDE DEF back, A
    <2> QED
        BY <1>6, <2>1, <2>2
<1>8. PICK h : Parts(h, A, Digits, F, b, t)
    <2> HIDE DEF A, b, back
    <2> QED
        BY <1>4, <1>7, FoldParts
<1>9. Q2(h)
    <2> HIDE DEF A, b, back
    <2>1. \A ss \in SUBSET (DOMAIN t) : ss # {} => h[ss] = back(h[ss \ {Max(ss)}], t[Max(ss)])
        BY <1>6, <1>8 DEF Parts
    <2> QED
        BY <1>8, <2>1 DEF Parts
<1>10. PICK g : g = CHOOSE x : Q2(x)
    OBVIOUS
<1>11. Q2(g)
    <2> HIDE DEF Q2
    <2> QED
        BY <1>9, <1>10
<1>12. g[DOMAIN t] \in A
    <2> HIDE DEF A, b, back
    <2>1. g[{}] \in A
        BY <1>7, <1>11
    <2>2. ASSUME NEW ss \in SUBSET (DOMAIN t), ss # {}, g[ss \ {Max(ss)}] \in A PROVE g[ss] \in A
        <3>1. t[Max(ss)] \in Digits
            BY <1>4, <2>2, LastIn
        <3>2. g[ss] = F[<<g[ss \ {Max(ss)}], t[Max(ss)]>>]
            BY <1>6, <1>11, <2>2, <3>1
        <3> QED
            BY <1>7, <2>2, <3>1, <3>2
    <2> QED
        BY <1>4, <2>1, <2>2, FoldTyped
<1>13. g[DOMAIN t].rv \in 0 .. ULongSize - 1
    BY <1>12
<1> HIDE DEF Q2, b, back, A
<1>14. PICK r : r = g[DOMAIN t].rv
    OBVIOUS
<1>15. (-r) % ULongSize \in 0 .. ULongSize - 1
    BY <1>13, <1>14, ULongAssumption
<1> QED
    BY <1>5, <1>10, <1>13, <1>14, <1>15

(* What parse may leave of the options: TypedOptions, as a set to fold in.  *)
OptionSet ==
    {os \in [Options -> [val : UNION {Values(o) : o \in Options}, found : BOOLEAN, add : BOOLEAN]] :
        \A o \in Options : os[o].val \in Values(o)}

LEMMA OptionSetTyped == \A os \in OptionSet : TypedOptions(os)
BY DEF OptionSet, TypedOptions

LEMMA OptionChanged ==
    ASSUME NEW os \in OptionSet, NEW o \in Options, NEW v \in Values(o), NEW f \in BOOLEAN, NEW a \in BOOLEAN
    PROVE  [os EXCEPT ![o] = [val |-> v, found |-> f, add |-> a]] \in OptionSet
BY DEF OptionSet

LEMMA NoOptionsTyped == NoOptions \in OptionSet
BY NullTyped DEF NoOptions, OptionSet

(* One option given a text, by an argument or by the environment.           *)
LEMMA TakeTyped ==
    ASSUME NEW o \in Options, NEW old \in Values(o), NEW text \in Texts(o)
    PROVE  Take(o, old, text) \in Values(o)
<1>1. Type(o) \in {"STR", "INT", "MSZ"}
    BY OptionsAre, TypesAre
<1>2. CASE Type(o) = "STR"
    BY <1>2 DEF Take, Texts, Values
<1>3. CASE Type(o) = "INT"
    BY <1>3, NumberTyped DEF Take, Texts, Values
<1>4. CASE Type(o) = "MSZ"
    <2>1. text.items \in Seq(Strings) /\ text.quotes \in Nat /\ old \in Seq(Strings)
        BY <1>4 DEF Texts, Values
    <2>2. [i \in 1 .. text.quotes |-> Empty] \in Seq(Strings)
        <3>1. PICK e : e = Empty
            OBVIOUS
        <3>2. e \in Strings
            BY <3>1, StringsAre
        <3>3. [i \in 1 .. text.quotes |-> e] \in Seq(Strings)
            BY <2>1, <3>2
        <3> QED
            BY <3>1, <3>3
    <2>3. Split(text) \in Seq(Strings)
        <3>1. PICK is, qs : is = text.items /\ qs = [i \in 1 .. text.quotes |-> Empty]
            OBVIOUS
        <3>2. is \in Seq(Strings) /\ qs \in Seq(Strings)
            BY <2>1, <2>2, <3>1
        <3>3. is \o qs \in Seq(Strings)
            BY <3>2
        <3> QED
            BY <3>1, <3>3 DEF Split
    <2> QED
        BY <1>4, <2>1, <2>3 DEF Take, Values
<1> QED
    BY <1>1, <1>2, <1>3, <1>4

(* The arguments that give an option a text of its type.                    *)
OptionArgs == {a \in UNION {[opt : {o}, add : BOOLEAN, text : Texts(o)] : o \in Options} : TRUE}

LEMMA ArgTyped ==
    ASSUME NEW os \in OptionSet, NEW a \in OptionArgs
    PROVE  TakeArg(os, a) \in OptionSet
<1>1. PICK o \in Options : a \in [opt : {o}, add : BOOLEAN, text : Texts(o)]
    BY DEF OptionArgs
<1>2. a.opt = o /\ a.add \in BOOLEAN /\ a.text \in Texts(o)
    BY <1>1
<1>3. os[o].val \in Values(o) /\ os[o].add \in BOOLEAN /\ os[o].found \in BOOLEAN
    BY DEF OptionSet
<1> DEFINE kept == IF os[o].add /\ ~a.add THEN Null(o) ELSE os[o].val
           add == a.add /\ (os[o].add \/ ~os[o].found)
<1>4. kept \in Values(o) /\ add \in BOOLEAN
    BY <1>2, <1>3, NullTyped
<1>5. Take(o, kept, a.text) \in Values(o)
    BY <1>2, <1>4, TakeTyped
<1>6. TakeArg(os, a) = [os EXCEPT ![o] = [val |-> Take(o, kept, a.text), found |-> TRUE, add |-> add]]
    BY <1>2 DEF TakeArg
<1> HIDE DEF kept, add
<1>7. PICK v : v = Take(o, kept, a.text)
    OBVIOUS
<1>8. [os EXCEPT ![o] = [val |-> v, found |-> TRUE, add |-> add]] \in OptionSet
    BY <1>4, <1>5, <1>7, OptionChanged
<1> QED
    BY <1>6, <1>7, <1>8

(* A fold over arguments, or over the names of options, gives options.      *)
LEMMA ArgsTyped ==
    ASSUME NEW args \in Seq(OptionArgs)
    PROVE  FoldLeft(TakeArg, NoOptions, args) \in OptionSet
<1> DEFINE Q(g) == g = [ss \in SUBSET (DOMAIN args) |->
                          IF ss = {} THEN NoOptions ELSE TakeArg(g[ss \ {Max(ss)}], args[Max(ss)])]
<1>1. FoldLeft(TakeArg, NoOptions, args) = (CHOOSE g : Q(g))[DOMAIN args]
    BY DEF FoldLeft, MapThenFoldSet
<1>2. PICK F : F = [z \in OptionSet \X OptionArgs |-> TakeArg(z[1], z[2])]
    OBVIOUS
<1>3. F \in [OptionSet \X OptionArgs -> OptionSet]
    BY <1>2, ArgTyped
<1>4. PICK h : Parts(h, OptionSet, OptionArgs, F, NoOptions, args)
    BY <1>3, NoOptionsTyped, FoldParts
<1>5. Q(h)
    <2>1. \A ss \in SUBSET (DOMAIN args) : ss # {} => h[ss] = TakeArg(h[ss \ {Max(ss)}], args[Max(ss)])
        BY <1>2, <1>4 DEF Parts
    <2> QED
        BY <1>4, <2>1 DEF Parts
<1>6. PICK g : g = CHOOSE x : Q(x)
    OBVIOUS
<1>7. Q(g)
    <2> HIDE DEF Q
    <2> QED
        BY <1>5, <1>6
<1>8. g[{}] \in OptionSet
    BY <1>7, NoOptionsTyped
<1>9. ASSUME NEW ss \in SUBSET (DOMAIN args), ss # {}, g[ss \ {Max(ss)}] \in OptionSet
      PROVE  g[ss] \in OptionSet
    <2>1. args[Max(ss)] \in OptionArgs
        BY <1>9, LastIn
    <2> QED
        BY <1>7, <1>9, <2>1, ArgTyped
<1> HIDE DEF Q
<1>10. g[DOMAIN args] \in OptionSet
    BY <1>8, <1>9, FoldTyped
<1> QED
    BY <1>1, <1>6, <1>10


(* What the environment holds of an option is a text of its type.           *)
EnvTyped(env) == \A o \in Options : env[o].is = "set" => env[o].text \in Texts(o)

LEMMA VarTyped ==
    ASSUME NEW env, EnvTyped(env), NEW os \in OptionSet, NEW o \in Options
    PROVE  TakeVar(env, os, o) \in OptionSet
<1>1. CASE env[o].is # "set"
    BY <1>1 DEF TakeVar
<1>2. CASE env[o].is = "set"
    <2> DEFINE add == os[o].add \/ Type(o) = "MSZ"
    <2>1. Take(o, Null(o), env[o].text) \in Values(o)
        BY <1>2, NullTyped, TakeTyped DEF EnvTyped
    <2>2. PICK v : v = Take(o, Null(o), env[o].text)
        OBVIOUS
    <2>3. add \in BOOLEAN
        BY DEF OptionSet
    <2>4. TakeVar(env, os, o) = [os EXCEPT ![o] = [val |-> v, found |-> TRUE, add |-> add]]
        BY <1>2, <2>2 DEF TakeVar
    <2> HIDE DEF add
    <2>5. [os EXCEPT ![o] = [val |-> v, found |-> TRUE, add |-> add]] \in OptionSet
        BY <2>1, <2>2, <2>3, OptionChanged
    <2> QED
        BY <2>4, <2>5
<1> QED
    BY <1>1, <1>2

LEMMA VarsTyped ==
    ASSUME NEW env, EnvTyped(env), NEW os \in OptionSet, NEW stops
    PROVE  apxCmdlineLoadEnvVars(os, env, stops) \in OptionSet
<1> DEFINE seen == Cardinality({n \in DOMAIN Names :
                                 \A k \in 1 .. n : ~(stops /\ env[Names[k]].is = "empty")})
<1>1. PICK names : names = SubSeq(Names, 1, seen)
    OBVIOUS
<1>2. names \in Seq(Options)
    <2> DEFINE W == {k \in 1 .. 7 : stops /\ env[Names[k]].is = "empty"}
               P == {n \in DOMAIN Names : \A k \in 1 .. n : ~(stops /\ env[Names[k]].is = "empty")}
    <2>1. DOMAIN Names = 1 .. 7 /\ Names \in Seq(Options) /\ Len(Names) = 7
        BY OptionsAre
    <2>2. P = Before(7, W)
        BY <2>1 DEF Before
    <2>3. seen = Cardinality(P) /\ 7 \in Nat
        OBVIOUS
    <2>4. seen \in 0 .. 7
        <3> HIDE DEF W, P, seen
        <3>1. PICK m \in 0 .. 7 : Cardinality(Before(7, W)) = m
            BY <2>3, PrefixLength
        <3> QED
            BY <2>2, <2>3, <3>1
    <2> HIDE DEF seen
    <2> QED
        BY <1>1, <2>1, <2>4
<1> DEFINE Q(g) == g = [ss \in SUBSET (DOMAIN names) |->
                          IF ss = {} THEN os ELSE TakeVar(env, g[ss \ {Max(ss)}], names[Max(ss)])]
<1>3. apxCmdlineLoadEnvVars(os, env, stops) = (CHOOSE g : Q(g))[DOMAIN names]
    BY <1>1 DEF apxCmdlineLoadEnvVars, FoldLeft, MapThenFoldSet
<1> HIDE DEF seen
<1>4. PICK F : F = [z \in OptionSet \X Options |-> TakeVar(env, z[1], z[2])]
    OBVIOUS
<1>5. F \in [OptionSet \X Options -> OptionSet]
    BY <1>4, VarTyped
<1>6. PICK h : Parts(h, OptionSet, Options, F, os, names)
    BY <1>2, <1>5, FoldParts
<1>7. Q(h)
    <2>1. \A ss \in SUBSET (DOMAIN names) : ss # {} => h[ss] = TakeVar(env, h[ss \ {Max(ss)}], names[Max(ss)])
        BY <1>4, <1>6 DEF Parts
    <2> QED
        BY <1>6, <2>1 DEF Parts
<1>8. PICK g : g = CHOOSE x : Q(x)
    OBVIOUS
<1>9. Q(g)
    <2> HIDE DEF Q
    <2> QED
        BY <1>7, <1>8
<1>10. g[{}] \in OptionSet
    BY <1>9
<1>11. ASSUME NEW ss \in SUBSET (DOMAIN names), ss # {}, g[ss \ {Max(ss)}] \in OptionSet
       PROVE  g[ss] \in OptionSet
    <2>1. names[Max(ss)] \in Options
        BY <1>2, <1>11, LastIn
    <2>2. TakeVar(env, g[ss \ {Max(ss)}], names[Max(ss)]) \in OptionSet
        <3> HIDE DEF Q
        <3> QED
            BY <1>11, <2>1, VarTyped
    <2> QED
        BY <1>9, <1>11, <2>2
<1> HIDE DEF Q
<1>12. g[DOMAIN names] \in OptionSet
    BY <1>2, <1>10, <1>11, FoldTyped
<1> QED
    BY <1>3, <1>8, <1>12

LEMMA ListedIn ==
    ASSUME NEW S, NEW s, Listed(s), \A i \in DOMAIN s : s[i] \in S
    PROVE  s \in Seq(S)
<1>1. PICK n \in Nat : s = [i \in 1 .. n |-> s[i]]
    BY DEF Listed
<1> QED
    BY <1>1

(* What the parse of a command line returns.                                *)
LEMMA ParseTyped ==
    ASSUME NEW c, Listed(c.args), \A i \in DOMAIN c.args : Argument(c.args[i]), ~ParseFails(c),
           NEW n \in Nat, DOMAIN c.commands = 1 .. n, n # 0
    PROVE  apxCmdlineParse(c).options \in OptionSet /\ apxCmdlineParse(c).index \in 1 .. n
<1>1. CASE c.cmd = Empty
    <2>1. apxCmdlineParse(c) = [index |-> 1, options |-> NoOptions]
        BY <1>1 DEF apxCmdlineParse
    <2> QED
        BY <2>1, NoOptionsTyped
<1>2. CASE c.cmd # Empty
    <2>1. CmdIndex(c) \in 1 .. n
        BY <1>2 DEF ParseFails, CmdIndex
    <2> DEFINE args == c.args
               W == {i \in DOMAIN args : args[i].opt = "word"}
               P == {k \in DOMAIN args : \A j \in 1 .. k : args[j].opt # "word"}
    <2>2. Len(args) \in Nat /\ DOMAIN args = 1 .. Len(args)
        BY DEF Listed
    <2>3. P = Before(Len(args), W) /\ Leading(args) = SubSeq(args, 1, Cardinality(P))
        BY <2>2 DEF Leading, Before
    <2>4. PICK m \in 0 .. Len(args) : /\ Leading(args) = SubSeq(args, 1, m)
                                      /\ \A j \in 1 .. m : j \notin W
        <3> HIDE DEF W, args, P
        <3>1. PICK m \in 0 .. Len(args) :
                  Cardinality(Before(Len(args), W)) = m /\ \A j \in 1 .. m : j \notin W
            BY <2>2, PrefixLength
        <3> QED
            BY <2>3, <3>1
    <2>5. \A j \in 1 .. m : Leading(args)[j] = args[j] /\ j \in DOMAIN Leading(args)
        <3> HIDE DEF W, args
        <3> QED
            BY <2>2, <2>4
    <2>6. Len(Leading(args)) = m /\ DOMAIN Leading(args) = 1 .. m
        <3> HIDE DEF W, args
        <3> QED
            BY <2>2, <2>4
    <2>7. ASSUME NEW j \in 1 .. m PROVE Leading(args)[j] \in OptionArgs
        <3>1. args[j].opt # "word"
            BY <2>2, <2>4
        <3>2. args[j].opt \notin {"unknown", "valueless"}
            <4> HIDE DEF W, P
            <4> QED
                BY <1>2, <2>6 DEF ParseFails
        <3>3. j \in DOMAIN args /\ Argument(args[j])
            BY <2>2
        <3>4. args[j] \in OptionArgs
            <4> HIDE DEF args
            <4> QED
                BY <3>1, <3>2, <3>3 DEF Argument, OptionArgs
        <3> HIDE DEF args
        <3> QED
            BY <2>5, <3>4
    <2>8. Leading(args) \in Seq(OptionArgs)
        <3>1. Leading(args) = [j \in 1 .. m |-> args[j]]
            <4> HIDE DEF W, args
            <4> QED
                BY <2>2, <2>4
        <3> HIDE DEF W, args
        <3> QED
            BY <2>5, <2>7, <3>1
    <2> QED
        BY <1>2, <2>1, <2>8, ArgsTyped DEF apxCmdlineParse
<1> QED
    BY <1>1, <1>2

(* How much of a list is seen: n items, none of them empty, and an empty    *)
(* one follows or none.                                                     *)
Seen(m, n) == /\ n \in 0 .. Len(m) /\ \A i \in 1 .. n : m[i] # Empty
              /\ n < Len(m) => m[n + 1] = Empty

LEMMA ReadableIs ==
    ASSUME NEW S, NEW m \in Seq(S)
    PROVE  \E n : Seen(m, n) /\ Readable(m) = SubSeq(m, 1, n)
<1> DEFINE W == {i \in DOMAIN m : m[i] = Empty}
           P == {n \in DOMAIN m : \A k \in 1 .. n : m[k] # Empty}
<1>1. Len(m) \in Nat /\ DOMAIN m = 1 .. Len(m)
    OBVIOUS
<1>2. P = Before(Len(m), W) /\ GetMultiSzLength(m) = Cardinality(P)
    <2>1. GetMultiSzLength(m) = Cardinality(P)
        BY DEF GetMultiSzLength
    <2>2. ASSUME NEW k \in DOMAIN m PROVE k \in P <=> \A j \in 1 .. k : j \notin W
        <3>1. \A j \in 1 .. k : j \in DOMAIN m
            BY <1>1, <2>2
        <3> QED
            BY <3>1
    <2>3. P \subseteq DOMAIN m
        OBVIOUS
    <2>4. P = Before(Len(m), W)
        <3> HIDE DEF P, W
        <3> QED
            BY <1>1, <2>2, <2>3 DEF Before
    <2> QED
        BY <2>1, <2>4
<1>3. PICK n \in 0 .. Len(m) : /\ Cardinality(Before(Len(m), W)) = n /\ \A j \in 1 .. n : j \notin W
                               /\ n < Len(m) => n + 1 \in W
    <2> HIDE DEF W
    <2> QED
        BY <1>1, PrefixLength
<1>4. Readable(m) = SubSeq(m, 1, n)
    <2> HIDE DEF P, W
    <2> QED
        BY <1>2, <1>3 DEF Readable
<1>5. Seen(m, n)
    <2>1. \A i \in 1 .. n : i \in DOMAIN m
        BY <1>1, <1>3
    <2>2. \A i \in 1 .. n : m[i] # Empty
        BY <1>3, <2>1
    <2>3. n < Len(m) => m[n + 1] = Empty
        BY <1>3
    <2> QED
        BY <1>3, <2>2, <2>3 DEF Seen
<1> QED
    BY <1>4, <1>5

(* There is one way to see a list.                                          *)
LEMMA SeenOnce ==
    ASSUME NEW S, NEW m \in Seq(S), NEW n, Seen(m, n), NEW k, Seen(m, k)
    PROVE  n = k
<1>0. Len(m) \in Nat
    OBVIOUS
<1>1. n \in 0 .. Len(m) /\ k \in 0 .. Len(m) /\ Len(m) \in Nat
    BY <1>0 DEF Seen
<1>2. ~(n < k)
    <2> SUFFICES ASSUME n < k PROVE FALSE
        OBVIOUS
    <2>1. n + 1 \in 1 .. k /\ n < Len(m)
        BY <1>1
    <2> QED
        BY <2>1 DEF Seen
<1>3. ~(k < n)
    <2> SUFFICES ASSUME k < n PROVE FALSE
        OBVIOUS
    <2>1. k + 1 \in 1 .. n /\ k < Len(m)
        BY <1>1
    <2> QED
        BY <2>1 DEF Seen
<1> QED
    BY <1>1, <1>2, <1>3

(* Only what was seen, and it can be seen.                                  *)
LEMMA ReadableItems ==
    ASSUME NEW S, NEW m \in Seq(S)
    PROVE  /\ Readable(m) \in Seq(S) /\ Seen(m, Len(Readable(m)))
           /\ \A i \in 1 .. Len(Readable(m)) : Readable(m)[i] = m[i] /\ m[i] # Empty
<1>1. PICK n : Seen(m, n) /\ Readable(m) = SubSeq(m, 1, n)
    BY ReadableIs
<1>2. n \in 0 .. Len(m)
    BY <1>1 DEF Seen
<1>3. SubSeq(m, 1, n) \in Seq(S) /\ Len(SubSeq(m, 1, n)) = n /\ \A i \in 1 .. n : SubSeq(m, 1, n)[i] = m[i]
    BY <1>2
<1> QED
    BY <1>1, <1>3 DEF Seen

(* A list behind one that was read: all of the first is seen, and of the    *)
(* second what was seen alone.                                              *)
LEMMA ReadableConcat ==
    ASSUME NEW S, NEW a \in Seq(S), NEW b \in Seq(S), NEW r, r = Readable(a)
    PROVE  Readable(r \o b) = r \o Readable(b)
<1>1. r \in Seq(S) /\ \A i \in 1 .. Len(r) : r[i] # Empty
    BY ReadableItems
<1>2. PICK n : Seen(b, n) /\ Readable(b) = SubSeq(b, 1, n)
    BY ReadableIs
<1>3. PICK c : c = r \o b
    OBVIOUS
<1>4. /\ c \in Seq(S) /\ Len(c) = Len(r) + Len(b) /\ Len(r) \in Nat /\ Len(b) \in Nat
      /\ \A i \in 1 .. Len(c) : c[i] = IF i <= Len(r) THEN r[i] ELSE b[i - Len(r)]
    <2>1. Len(r) \in Nat /\ Len(b) \in Nat
        BY <1>1
    <2> QED
        BY <1>1, <1>3, <2>1, ConcatProperties
<1>5. PICK k : k = Len(r) + n
    OBVIOUS
<1>6. n \in 0 .. Len(b) /\ k \in 0 .. Len(c)
    <2>1. n \in 0 .. Len(b)
        BY <1>2 DEF Seen
    <2> QED
        BY <1>4, <1>5, <2>1
<1>7. Seen(c, k)
    <2>1. ASSUME NEW i \in 1 .. k PROVE c[i] # Empty
        <3>1. CASE i <= Len(r)
            <4>1. i \in 1 .. Len(r) /\ i \in 1 .. Len(c)
                BY <1>4, <1>6, <2>1, <3>1
            <4> QED
                BY <1>1, <1>4, <3>1, <4>1
        <3>2. CASE ~(i <= Len(r))
            <4>1. i - Len(r) \in 1 .. n /\ i \in 1 .. Len(c)
                BY <1>4, <1>5, <1>6, <2>1, <3>2
            <4> QED
                BY <1>2, <1>4, <3>2, <4>1 DEF Seen
        <3> QED
            BY <3>1, <3>2
    <2>2. ASSUME k < Len(c) PROVE c[k + 1] = Empty
        <3>1. n < Len(b) /\ k + 1 \in 1 .. Len(c) /\ ~(k + 1 <= Len(r)) /\ (k + 1) - Len(r) = n + 1
            BY <1>4, <1>5, <1>6, <2>2
        <3>2. b[n + 1] = Empty
            BY <1>2, <3>1 DEF Seen
        <3> QED
            BY <1>4, <3>1, <3>2
    <2> QED
        BY <1>6, <2>1, <2>2 DEF Seen
<1>8. Readable(c) = SubSeq(c, 1, k)
    <2>1. PICK j : Seen(c, j) /\ Readable(c) = SubSeq(c, 1, j)
        BY <1>4, ReadableIs
    <2>2. j = k
        BY <1>4, <1>7, <2>1, SeenOnce
    <2> QED
        BY <2>1, <2>2
<1>9. SubSeq(c, 1, k) = r \o SubSeq(b, 1, n)
    <2>1. PICK d, e : d = SubSeq(c, 1, k) /\ e = SubSeq(b, 1, n)
        OBVIOUS
    <2>2. d \in Seq(S) /\ Len(d) = k /\ \A i \in 1 .. k : d[i] = c[i]
        BY <1>4, <1>6, <2>1
    <2>3. e \in Seq(S) /\ Len(e) = n /\ \A i \in 1 .. n : e[i] = b[i]
        BY <1>6, <2>1
    <2>4. /\ r \o e \in Seq(S) /\ Len(r \o e) = k
          /\ \A i \in 1 .. k : (r \o e)[i] = IF i <= Len(r) THEN r[i] ELSE e[i - Len(r)]
        <3>1. Len(r) \in Nat /\ Len(e) \in Nat /\ k = Len(r) + Len(e)
            BY <1>1, <1>5, <2>3
        <3>2. /\ r \o e \in Seq(S) /\ Len(r \o e) = Len(r) + Len(e)
              /\ \A i \in 1 .. Len(r) + Len(e) :
                    (r \o e)[i] = IF i <= Len(r) THEN r[i] ELSE e[i - Len(r)]
            BY <1>1, <2>3, ConcatProperties
        <3> QED
            BY <3>1, <3>2
    <2>5. ASSUME NEW i \in 1 .. k PROVE d[i] = (r \o e)[i]
        <3>1. i \in 1 .. Len(c) /\ i \in Int
            BY <1>4, <1>6
        <3>2. CASE i <= Len(r)
            BY <1>4, <2>2, <2>4, <3>1, <3>2
        <3>3. CASE ~(i <= Len(r))
            <4>1. i - Len(r) \in 1 .. n
                BY <1>4, <1>5, <1>6, <3>1, <3>3
            <4>2. d[i] = b[i - Len(r)]
                BY <1>4, <2>2, <3>1, <3>3
            <4>3. (r \o e)[i] = e[i - Len(r)]
                BY <2>4, <3>3
            <4> QED
                BY <2>3, <4>1, <4>2, <4>3
        <3> QED
            BY <3>2, <3>3
    <2>6. d = r \o e
        BY <2>2, <2>4, <2>5, SeqEqual
    <2> QED
        BY <2>1, <2>6
<1> QED
    BY <1>2, <1>3, <1>8, <1>9

(* A list that was read is seen as it was read.                             *)
LEMMA ReadableTwice ==
    ASSUME NEW S, NEW a \in Seq(S)
    PROVE  Readable(Readable(a)) = Readable(a)
<1>1. PICK r : r = Readable(a)
    OBVIOUS
<1>2. r \in Seq(S) /\ <<>> \in Seq(S)
    <2>1. Readable(a) \in Seq(S)
        BY ReadableItems
    <2> QED
        BY <1>1, <2>1
<1>3. Readable(<<>>) = <<>>
    <2>1. /\ Readable(<<>>) \in Seq(S) /\ Len(Readable(<<>>)) \in 0 .. Len(<<>>)
        BY <1>2, ReadableItems DEF Seen
    <2> QED
        BY <2>1
<1>4. Readable(r \o <<>>) = r \o <<>>
    BY <1>1, <1>2, <1>3, ReadableConcat
<1>5. r \o <<>> = r
    BY <1>2
<1> QED
    BY <1>1, <1>4, <1>5

(* The options that hold a string in the service manager or the registry.   *)
Strs == {"DisplayName", "ServiceUser", "Startup", "StartMode", "LogLevel"}

LEMMA ValuesAre ==
    /\ \A o \in Strs : o \in Options /\ Values(o) = Strings
    /\ "StopTimeout" \in Options /\ Values("StopTimeout") = 0 .. ULongSize - 1
    /\ "JvmOptions" \in Options /\ Values("JvmOptions") = Seq(Strings)
<1>1. \A o \in Strs : o \in Options /\ Type(o) = "STR"
    BY OptionsAre, TypesAre DEF Strs
<1>2. /\ "StopTimeout" \in Options /\ Type("StopTimeout") = "INT"
      /\ "JvmOptions" \in Options /\ Type("JvmOptions") = "MSZ"
    BY OptionsAre, TypesAre
<1> QED
    BY <1>1, <1>2 DEF Values

(* What the SCM and the registry do to a registry leaves one.               *)
LEMMA SetValue ==
    ASSUME NEW r, TypedRegistry(r), NEW o \in Options, NEW v \in Values(o)
    PROVE  TypedRegistry([r EXCEPT !.val[o] = v])
BY DEF TypedRegistry, TypedVal

LEMMA StoreTyped ==
    ASSUME NEW r, TypedRegistry(r), NEW o \in Options, NEW v \in Values(o)
    PROVE  TypedRegistry(Store(r, o, v))
<1>1. PICK w : w = IF v = Empty THEN Null(o) ELSE v
    OBVIOUS
<1>2. w \in Values(o)
    BY <1>1, NullTyped
<1>3. Store(r, o, v) \in {[r EXCEPT !.val[o] = w], [r EXCEPT !.val[o] = v]}
    BY <1>1 DEF Store, apxRegistrySetStr, apxRegistrySetNum, apxRegistrySetMzStr
<1> QED
    BY <1>2, <1>3, SetValue

LEMMA FetchTyped ==
    ASSUME NEW r, TypedRegistry(r), NEW o \in Options
    PROVE  Fetch(r, o) \in Values(o)
<1>1. r.val[o] \in Values(o)
    BY DEF TypedRegistry, TypedVal
<1>2. ASSUME o \in {"ServiceUser", "Startup"} PROVE Empty \in Values(o)
    BY <1>2, ValuesAre, StringsAre DEF Strs
<1>3. Fetch(r, o) = r.val[o] \/ (Fetch(r, o) = Empty /\ o \in {"ServiceUser", "Startup"})
    BY DEF Fetch, apxRegistryGetString, apxRegistryGetNumber, apxRegistryGetMzStr
<1> QED
    BY <1>1, <1>2, <1>3

LEMMA EmptyTyped == TypedRegistry(EmptyRegistry)
BY NullTyped DEF EmptyRegistry, TypedRegistry, TypedVal

LEMMA ForgetTyped ==
    ASSUME NEW v, TypedVal(v), NEW os
    PROVE  TypedVal(Forget(v, os))
BY NullTyped DEF TypedVal, Forget

LEMMA SetNamesTyped ==
    ASSUME NEW r, TypedRegistry(r), NEW present, NEW display \in Strings, NEW user \in Strings
    PROVE  TypedRegistry(apxServiceSetNames(r, present, display, user).reg)
<1> DEFINE a == IF display = Empty THEN r ELSE [r EXCEPT !.val["DisplayName"] = display]
           b == IF user = Empty THEN a ELSE [a EXCEPT !.val["ServiceUser"] = user]
<1>1. TypedRegistry(a)
    BY SetValue, ValuesAre DEF Strs
<1>2. TypedRegistry(b)
    <2> HIDE DEF a
    <2> QED
        BY <1>1, SetValue, ValuesAre DEF Strs
<1>3. apxServiceSetNames(r, present, display, user).reg = IF present THEN b ELSE r
    BY DEF apxServiceSetNames
<1> QED
    BY <1>2, <1>3

LEMMA SetOptionsTyped ==
    ASSUME NEW r, TypedRegistry(r), NEW present, NEW start \in Strings
    PROVE  TypedRegistry(apxServiceSetOptions(r, present, start).reg)
<1>1. TypedRegistry([r EXCEPT !.val["Startup"] = start])
    BY SetValue, ValuesAre DEF Strs
<1>2. apxServiceSetOptions(r, present, start).reg \in {r, [r EXCEPT !.val["Startup"] = start]}
    BY DEF apxServiceSetOptions
<1> QED
    BY <1>1, <1>2

LEMMA InstallTyped ==
    ASSUME NEW r, TypedRegistry(r), NEW display \in Strings, NEW startup
    PROVE  TypedRegistry(apxServiceInstall(r, display, startup))
<1>1. PICK s : s = IF startup = "auto" THEN "auto" ELSE "manual"
    OBVIOUS
<1>2. s \in Strings /\ "LocalSystem" \in Strings
    BY <1>1, StringsAre
<1>3. PICK v : v = [r.val EXCEPT !["DisplayName"] = display, !["ServiceUser"] = "LocalSystem", !["Startup"] = s]
    OBVIOUS
<1>4. TypedVal(v)
    <2>1. DOMAIN v = Options /\ {"DisplayName", "ServiceUser", "Startup"} \subseteq Options
        BY <1>3, ValuesAre DEF TypedRegistry, TypedVal, Strs
    <2>2. ASSUME NEW o \in {"DisplayName", "ServiceUser", "Startup"} PROVE v[o] \in Values(o)
        BY <1>2, <1>3, <2>1, ValuesAre DEF TypedRegistry, TypedVal, Strs
    <2>3. ASSUME NEW o \in Options \ {"DisplayName", "ServiceUser", "Startup"} PROVE v[o] \in Values(o)
        BY <1>3, <2>1 DEF TypedRegistry, TypedVal
    <2> QED
        BY <2>1, <2>2, <2>3 DEF TypedVal
<1>5. apxServiceInstall(r, display, startup) = [r EXCEPT !.val = v]
    BY <1>1, <1>3 DEF apxServiceInstall, TypedRegistry
<1> QED
    BY <1>4, <1>5 DEF TypedRegistry

LEMMA CreateTyped ==
    ASSUME NEW r, TypedRegistry(r), NEW there \in BOOLEAN, NEW write
    PROVE  TypedRegistry(apxCreateRegistry(r, there, write).reg)
BY DEF apxCreateRegistry, TypedRegistry

LEMMA DeleteTyped ==
    ASSUME NEW r, TypedRegistry(r)
    PROVE  TypedRegistry(apxDeleteRegistryRecursive(r)) /\ TypedRegistry(ServiceKeyRemoved(r))
<1>1. TypedVal(Forget(r.val, Params)) /\ TypedVal(Forget(r.val, Srv))
    BY ForgetTyped DEF TypedRegistry
<1> QED
    BY <1>1 DEF TypedRegistry, apxDeleteRegistryRecursive, ServiceKeyRemoved

LEMMA LoadTyped ==
    ASSUME NEW r, TypedRegistry(r), NEW there, NEW os, TypedOptions(os)
    PROVE  TypedOptions(loadConfiguration(r, there, os).options)
<1>1. ASSUME NEW o \in Options
      PROVE  Merged(r, o, os[o]) \in [val : Values(o), found : BOOLEAN, add : BOOLEAN]
    <2>1. PICK x, f : x = os[o] /\ f = Fetch(r, o)
        OBVIOUS
    <2>2. x \in [val : Values(o), found : BOOLEAN, add : BOOLEAN] /\ f \in Values(o)
        BY <2>1, FetchTyped DEF TypedOptions
    <2>3. ASSUME Type(o) = "MSZ" PROVE apxMultiSzCombine(f, x.val) \in Values(o)
        <3>1. Values(o) = Seq(Strings)
            BY <2>3 DEF Values
        <3>2. PICK a, b : a = Readable(f) /\ b = Readable(x.val)
            OBVIOUS
        <3>3. a \in Seq(Strings) /\ b \in Seq(Strings)
            BY <2>2, <3>1, <3>2, ReadableItems
        <3>4. a \o b \in Seq(Strings)
            BY <3>3
        <3> QED
            BY <3>1, <3>2, <3>4 DEF apxMultiSzCombine
    <2>4. PICK v : v = IF ~x.found THEN f
                       ELSE IF x.add /\ Type(o) = "MSZ" THEN apxMultiSzCombine(f, x.val) ELSE x.val
        OBVIOUS
    <2>5. v \in Values(o)
        BY <2>2, <2>3, <2>4
    <2>6. Merged(r, o, os[o]) = [x EXCEPT !.val = v]
        BY <2>1, <2>2, <2>4 DEF Merged
    <2> QED
        BY <2>2, <2>5, <2>6
<1>2. loadConfiguration(r, there, os).options \in {os, [o \in Options |-> Merged(r, o, os[o])]}
    BY DEF loadConfiguration
<1> QED
    BY <1>1, <1>2 DEF TypedOptions

(* The first option of a set in the order of the table is one of the set.   *)
LEMMA FirstIs ==
    ASSUME NEW os \in SUBSET Options, os # {}
    PROVE  FirstOf(os) \in os
<1> DEFINE T == {Place(o) : o \in os}
<1>1. T \subseteq Nat /\ T # {}
    BY PlaceOf
<1>2. PICK m \in T : \A k \in T : m <= k
    <2> HIDE DEF T
    <2> QED
        BY <1>1, Least
<1>3. \E o \in os : \A q \in os : Place(o) <= Place(q)
    BY <1>2
<1> QED
    BY <1>3 DEF FirstOf

(* The fields of the first page come together, and a page that has changes  *)
(* has one of the user's.                                                   *)
Fits(s) ==
    /\ "DisplayName" \in DOMAIN s.fields <=> "Startup" \in DOMAIN s.fields
    /\ \A b \in s.bits : \E o \in s.mine : PageOf(o) = b
SheetsFit == \A p \in Procs : Fits(gui[p].sheet)
TInv == TypeOK /\ SheetsFit

LEMMA JobIs ==
    ASSUME ServiceTyped, NEW p \in Procs
    PROVE  WellFormed(Job(p))
BY ScenariosAssumption DEF ServiceTyped, Job

LEMMA SrvPlace ==
    ASSUME ServiceTyped, ProcTyped, NEW p \in Procs,
           proc[p].pc \in SrvPlaces \ {"start", "done"} \/ Is(p, "prunsrv")
    PROVE  PlacesOf(p) = SrvPlaces /\ Is(p, "prunsrv") /\ ~Is(p, "prunmgr")
<1>1. Job(p).prog \in {"none", "prunsrv", "prunmgr"}
    BY JobIs DEF WellFormed
<1>2. proc[p].pc \in PlacesOf(p)
    BY DEF ProcTyped, TypedProc
<1> QED
    BY <1>1, <1>2 DEF PlacesOf, Is, SrvPlaces, MgrPlaces

LEMMA MgrPlace ==
    ASSUME ServiceTyped, ProcTyped, NEW p \in Procs,
           proc[p].pc \in MgrPlaces \ {"start", "done"} \/ Is(p, "prunmgr")
    PROVE  PlacesOf(p) = MgrPlaces /\ Is(p, "prunmgr") /\ ~Is(p, "prunsrv")
<1>1. Job(p).prog \in {"none", "prunsrv", "prunmgr"}
    BY JobIs DEF WellFormed
<1>2. proc[p].pc \in PlacesOf(p)
    BY DEF ProcTyped, TypedProc
<1> QED
    BY <1>1, <1>2 DEF PlacesOf, Is, SrvPlaces, MgrPlaces

LEMMA PlacesStay ==
    ASSUME UNCHANGED sc
    PROVE  \A p \in Procs : /\ PlacesOf(p)' = PlacesOf(p) /\ Job(p)' = Job(p)
                            /\ \A prog : Is(p, prog)' = Is(p, prog)
BY DEF PlacesOf, Is, Job

(* What a step leaves alone stays typed.                                    *)
LEMMA FrameTyped ==
    ASSUME TInv, UNCHANGED sc
    PROVE  /\ UNCHANGED <<svc, dep>> => ServiceTyped'
           /\ UNCHANGED reg => TypedRegistry(reg)'
           /\ UNCHANGED proc => ProcTyped'
           /\ UNCHANGED ctl => ControlTyped'
           /\ UNCHANGED gui => GuiTyped' /\ SheetsFit'
           /\ UNCHANGED history /\ UNCHANGED remade => HistoryTyped'
<1>1. UNCHANGED <<svc, dep>> => ServiceTyped'
    BY DEF TInv, TypeOK, ServiceTyped
<1>2. UNCHANGED reg => TypedRegistry(reg)'
    BY DEF TInv, TypeOK, TypedRegistry
<1>3. UNCHANGED proc => ProcTyped'
    BY PlacesStay DEF TInv, TypeOK, ProcTyped, TypedProc
<1>4. UNCHANGED ctl => ControlTyped'
    BY DEF TInv, TypeOK, ControlTyped
<1>5. UNCHANGED gui => GuiTyped' /\ SheetsFit'
    BY DEF TInv, TypeOK, GuiTyped, TypedGui, SheetsFit, Fits
<1>6. UNCHANGED history /\ UNCHANGED remade => HistoryTyped'
    BY DEF TInv, TypeOK, HistoryTyped, history
<1> QED
    BY <1>1, <1>2, <1>3, <1>4, <1>5, <1>6

(* A step of p changes what p has, and leaves the others.                   *)
LEMMA OneMoves ==
    ASSUME ProcTyped, UNCHANGED sc, NEW p \in Procs, NEW x, TypedProc(p, x), proc' = [proc EXCEPT ![p] = x]
    PROVE  ProcTyped'
<1>1. DOMAIN proc' = Procs /\ \A q \in Procs : TypedProc(q, proc'[q])
    BY DEF ProcTyped
<1> QED
    BY <1>1, PlacesStay DEF ProcTyped, TypedProc

LEMMA MovesTyped ==
    ASSUME ProcTyped, UNCHANGED sc, NEW p \in Procs, NEW l \in PlacesOf(p), Goto(p, l) \/ Close(p, l)
    PROVE  ProcTyped'
<1>1. CASE Goto(p, l)
    <2>1. TypedProc(p, [proc[p] EXCEPT !.pc = l])
        BY DEF ProcTyped, TypedProc
    <2>2. proc' = [proc EXCEPT ![p] = [proc[p] EXCEPT !.pc = l]]
        BY <1>1 DEF Goto
    <2> QED
        BY <2>1, <2>2, OneMoves
<1>2. CASE Close(p, l)
    <2>1. TypedProc(p, [proc[p] EXCEPT !.pc = l, !.service = FALSE])
        BY DEF ProcTyped, TypedProc
    <2>2. proc' = [proc EXCEPT ![p] = [proc[p] EXCEPT !.pc = l, !.service = FALSE]]
        BY <1>2 DEF Close
    <2> QED
        BY <2>1, <2>2, OneMoves
<1> QED
    BY <1>1, <1>2

LEMMA OneGui ==
    ASSUME GuiTyped, SheetsFit, NEW p \in Procs, NEW g, TypedGui(g), Fits(g.sheet),
           gui' = [gui EXCEPT ![p] = g]
    PROVE  GuiTyped' /\ SheetsFit'
<1>1. DOMAIN gui' = Procs /\ \A q \in Procs : TypedGui(gui'[q]) /\ Fits(gui'[q].sheet)
    BY DEF GuiTyped, SheetsFit
<1> QED
    BY <1>1 DEF GuiTyped, TypedGui, SheetsFit, Fits

(* The history stays typed when a process writes values of their types.     *)
LEMMA WroteTyped ==
    ASSUME HistoryTyped, NEW p \in Procs, NEW os \in SUBSET Options, NEW new, Wrote(p, os, new), UNCHANGED remade,
           \A o \in DOMAIN new \cap Options : new[o] \in Values(o)
    PROVE  HistoryTyped'
<1>1. TypedVal(asked')
    BY DEF Wrote, TypedVal, HistoryTyped
<1>2. overtaken' \subseteq Options
    BY DEF Wrote, HistoryTyped
<1>3. behind' \in [Procs -> SUBSET Options]
    BY DEF Wrote, Change, HistoryTyped
<1> QED
    BY <1>1, <1>2, <1>3 DEF HistoryTyped, TypedVal

LEMMA GivenTyped ==
    ASSUME HistoryTyped, ProcTyped, NEW p \in Procs, NEW o \in Options
    PROVE  Given(p, o) \in Values(o)
<1>1. PICK v, a : v = proc[p].line[o].val /\ a = asked[o]
    OBVIOUS
<1>2. v \in Values(o) /\ a \in Values(o)
    BY <1>1 DEF HistoryTyped, TypedVal, ProcTyped, TypedProc, TypedOptions
<1>3. ASSUME Builds(p, o) PROVE Readable(a) \o v \in Values(o)
    <2>1. Values(o) = Seq(Strings)
        BY <1>3 DEF Values, Builds
    <2>2. PICK r : r = Readable(a)
        OBVIOUS
    <2>3. r \in Seq(Strings)
        BY <1>2, <2>1, <2>2, ReadableItems
    <2>4. r \o v \in Seq(Strings)
        BY <1>2, <2>1, <2>3
    <2> QED
        BY <2>1, <2>2, <2>4
<1> QED
    BY <1>1, <1>2, <1>3 DEF Given

LEMMA ServiceTypes ==
    ASSUME TInv, ServiceChanges \/ ServiceEnds \/ ServiceGoes
    PROVE  TInv'
<1>1. UNCHANGED <<sc, dep, proc, ctl, gui, remade>>
    BY DEF ServiceChanges, ServiceEnds, ServiceGoes, service
<1>2. ServiceTyped'
    BY <1>1 DEF ServiceChanges, ServiceEnds, ServiceGoes, ServiceStep, Become, TInv, TypeOK, ServiceTyped,
           States
<1>3. TypedRegistry(reg)' /\ HistoryTyped'
    <2>1. CASE ServiceGoes
        <3>1. TypedRegistry(reg')
            BY <2>1, DeleteTyped DEF ServiceGoes, TInv, TypeOK
        <3>2. TypedVal(asked')
            BY <2>1, ForgetTyped DEF ServiceGoes, TInv, TypeOK, HistoryTyped
        <3>3. overtaken' \subseteq Options /\ behind' \in [Procs -> SUBSET Options]
            BY <2>1 DEF ServiceGoes, TInv, TypeOK, HistoryTyped, Change, Srv
        <3> QED
            BY <1>1, <3>1, <3>2, <3>3 DEF TInv, TypeOK, HistoryTyped, TypedVal, TypedRegistry
    <2>2. CASE UNCHANGED service
        BY <1>1, <2>2, FrameTyped DEF service, history
    <2> QED
        BY <2>1, <2>2 DEF ServiceChanges, ServiceEnds
<1>4. ProcTyped' /\ ControlTyped' /\ GuiTyped' /\ SheetsFit'
    BY <1>1, FrameTyped
<1> QED
    BY <1>2, <1>3, <1>4 DEF TInv, TypeOK

LEMMA WorkerTypes ==
    ASSUME TInv, NEW p \in Procs, Worker(p)
    PROVE  TInv'
<1>1. UNCHANGED <<sc, reg, proc, remade>> /\ UNCHANGED history
    BY DEF Worker, apxServiceControl, apxStopDependentServices, ControlService, PollStatus, FinalStatus,
           controlRest, history
<1>2. ServiceTyped'
    BY <1>1 DEF Worker, apxServiceControl, apxStopDependentServices, ControlService, PollStatus, FinalStatus,
           controlRest, TInv, TypeOK, ServiceTyped, States
<1>3. ControlTyped'
    <2>1. \E l \in {"dependents", "poll", "final", "stop", "ok", "failed"} : Proceed(p, l)
        BY DEF Worker, apxServiceControl, apxStopDependentServices, ControlService, PollStatus, FinalStatus
    <2> QED
        BY <2>1 DEF Proceed, TInv, TypeOK, ControlTyped
<1>4. GuiTyped' /\ SheetsFit'
    <2>1. CASE UNCHANGED gui
        BY <1>1, <2>1, FrameTyped
    <2>2. CASE gui' = [gui EXCEPT ![p].entry.state = svc.state]
        <3>1. PICK g : g = [gui[p] EXCEPT !.entry.state = svc.state]
            OBVIOUS
        <3>2. TypedGui(g) /\ Fits(g.sheet)
            BY <3>1 DEF TInv, TypeOK, GuiTyped, TypedGui, SheetsFit, ServiceTyped
        <3>3. gui' = [gui EXCEPT ![p] = g]
            BY <2>2, <3>1
        <3> QED
            BY <3>2, <3>3, OneGui DEF TInv, TypeOK
    <2> QED
        BY <2>1, <2>2 DEF Worker, apxServiceControl, apxStopDependentServices, ControlService, PollStatus,
           FinalStatus, controlRest
<1> QED
    BY <1>1, <1>2, <1>3, <1>4, FrameTyped DEF TInv, TypeOK

(* What prunsrv does but for its writes.                                    *)
LEMMA MainTypes ==
    ASSUME TInv, NEW p \in Procs, Main(p)
    PROVE  TInv'
<1>1. UNCHANGED <<sc, svc, dep, gui, ctl, reg, remade>> /\ UNCHANGED history
    BY DEF Main, scm, history
<1>2. Is(p, "prunsrv") /\ PlacesOf(p) = SrvPlaces /\ WellFormed(Job(p))
    BY SrvPlace, JobIs DEF Main, TInv, TypeOK
<1>3. CASE ParseFails(Line(p))
    BY <1>1, <1>2, <1>3, MovesTyped, FrameTyped DEF Main, TInv, TypeOK, SrvPlaces
<1>4. CASE ~ParseFails(Line(p))
    <2>1. PICK stops \in BOOLEAN :
              LET c == apxCmdlineParse(Line(p))
                  os == apxCmdlineLoadEnvVars(c.options, Job(p).env, stops)
              IN proc' = [proc EXCEPT ![p].index = c.index, ![p].line = os, ![p].os = os,
                            ![p].pc = CASE c.index < 6 -> "load" [] c.index = 6 -> "create"
                                        [] c.index = 7 -> "open" [] OTHER -> "done"]
        BY <1>4 DEF Main
    <2>2. PICK c, os, l : /\ c = apxCmdlineParse(Line(p))
                          /\ os = apxCmdlineLoadEnvVars(c.options, Job(p).env, stops)
                          /\ l = CASE c.index < 6 -> "load" [] c.index = 6 -> "create"
                                   [] c.index = 7 -> "open" [] OTHER -> "done"
        OBVIOUS
    <2>3. c.options \in OptionSet /\ c.index \in 1 .. 9
        <3>1. Line(p).args = Job(p).args /\ Line(p).commands = Commands
            BY <1>2 DEF Line
        <3>2. DOMAIN Commands = 1 .. 9
            BY DEF Commands
        <3>3. PICK line : line = Line(p)
            OBVIOUS
        <3>4. Listed(line.args) /\ \A i \in DOMAIN line.args : Argument(line.args[i])
            BY <1>2, <3>1, <3>3 DEF WellFormed
        <3>5. ~ParseFails(line) /\ DOMAIN line.commands = 1 .. 9 /\ 9 \in Nat /\ 9 # 0
            BY <1>4, <3>1, <3>2, <3>3
        <3>6. apxCmdlineParse(line).options \in OptionSet /\ apxCmdlineParse(line).index \in 1 .. 9
            BY <3>4, <3>5, ParseTyped
        <3> QED
            BY <2>2, <3>3, <3>6
    <2>4. os \in OptionSet
        <3>1. EnvTyped(Job(p).env)
            BY <1>2 DEF WellFormed, EnvTyped, Is
        <3> QED
            BY <2>2, <2>3, <3>1, VarsTyped
    <2>5. l \in SrvPlaces
        BY <2>2 DEF SrvPlaces
    <2>6. PICK x : x = [proc[p] EXCEPT !.index = c.index, !.line = os, !.os = os, !.pc = l]
        OBVIOUS
    <2>7. TypedProc(p, x)
        <3>1. TypedOptions(os)
            BY <2>4, OptionSetTyped
        <3>2. c.index \in 0 .. 9
            BY <2>3
        <3> QED
            BY <1>2, <2>5, <2>6, <3>1, <3>2 DEF TInv, TypeOK, ProcTyped, TypedProc
    <2>8. proc' = [proc EXCEPT ![p] = x]
        <3>1. proc' = [proc EXCEPT ![p].index = c.index, ![p].line = os, ![p].os = os, ![p].pc = l]
            BY <2>1, <2>2
        <3> QED
            BY <2>6, <3>1
    <2>9. ProcTyped'
        BY <1>1, <2>7, <2>8, OneMoves DEF TInv, TypeOK
    <2> QED
        BY <1>1, <2>9, FrameTyped DEF TInv, TypeOK
<1> QED
    BY <1>3, <1>4

LEMMA LoadTypes ==
    ASSUME TInv, NEW p \in Procs, LoadConfiguration(p)
    PROVE  TInv'
<1>1. UNCHANGED <<sc, svc, dep, gui, ctl, reg, remade>> /\ UNCHANGED <<asked, overtaken>>
    BY DEF LoadConfiguration, scm
<1>2. PlacesOf(p) = SrvPlaces
    BY SrvPlace DEF LoadConfiguration, At, SrvPlaces, TInv, TypeOK
<1>3. PICK r, l, x : /\ r = loadConfiguration(reg, Exists, proc[p].os)
                     /\ l = IF r.ok \/ proc[p].index = 5 THEN "open" ELSE "failed"
                     /\ x = [proc[p] EXCEPT !.os = r.options, !.pc = l]
    OBVIOUS
<1>4. TypedProc(p, x)
    <2>1. TypedOptions(r.options)
        BY <1>3, LoadTyped DEF TInv, TypeOK, ProcTyped, TypedProc
    <2>2. l \in SrvPlaces
        BY <1>3 DEF SrvPlaces
    <2> QED
        BY <1>2, <1>3, <2>1, <2>2 DEF TInv, TypeOK, ProcTyped, TypedProc
<1>5. proc' = [proc EXCEPT ![p] = x] /\ \E os : ReadBy(p, os)
    BY <1>3 DEF LoadConfiguration
<1>6. ProcTyped'
    BY <1>1, <1>4, <1>5, OneMoves DEF TInv, TypeOK
<1>7. behind' \in [Procs -> SUBSET Options]
    BY <1>5 DEF ReadBy, TInv, TypeOK, HistoryTyped
<1>8. HistoryTyped'
    BY <1>1, <1>7 DEF TInv, TypeOK, HistoryTyped, TypedVal
<1> QED
    BY <1>1, <1>6, <1>8, FrameTyped DEF TInv, TypeOK

LEMMA CommandTypes ==
    ASSUME TInv, NEW p \in Procs,
           \/ docmdStartService(p) \/ docmdStopService(p) \/ Controlled(p) \/ docmdUpdateService(p)
           \/ Saved(p) \/ docmdDeleteService(p) \/ apxServiceDelete(p) \/ DeleteService(p)
    PROVE  TInv'
<1>1. UNCHANGED <<sc, dep, gui, reg, remade>> /\ UNCHANGED history
    BY DEF docmdStartService, docmdStopService, docmdControl, Controlled, docmdUpdateService, Saved,
           docmdDeleteService, apxServiceDelete, DeleteService, scm, history
<1>2. PlacesOf(p) = SrvPlaces
    <2>1. proc[p].pc \in {"open", "control", "saving", "query", "delete"}
        BY DEF docmdStartService, docmdStopService, docmdControl, Controlled, docmdUpdateService, Saved,
           docmdDeleteService, apxServiceDelete, DeleteService, At
    <2> QED
        BY <2>1, SrvPlace DEF SrvPlaces, TInv, TypeOK
<1>3. ServiceTyped'
    BY <1>1 DEF docmdStartService, docmdStopService, docmdControl, Controlled, docmdUpdateService, Saved,
           docmdDeleteService, apxServiceDelete, DeleteService, scm, TInv, TypeOK, ServiceTyped
<1>4. ControlTyped'
    BY DEF docmdStartService, docmdStopService, docmdControl, Controlled, docmdUpdateService, Saved,
           docmdDeleteService, apxServiceDelete, DeleteService, scm, TInv, TypeOK, ControlTyped, Begin, Idle
<1>5. ProcTyped'
    <2>1. CASE Controlled(p) \/ apxServiceDelete(p) \/ DeleteService(p)
        <3>1. \E l \in {"delete", "done", "failed", "control", "deleteKeys"} : Goto(p, l) \/ Close(p, l)
            BY <2>1 DEF Controlled, apxServiceDelete, DeleteService
        <3> QED
            BY <1>1, <1>2, <3>1, MovesTyped DEF TInv, TypeOK, SrvPlaces
    <2>2. CASE Saved(p)
        <3>1. PICK x : x = [proc[p] EXCEPT !.pc = "done", !.service = FALSE, !.key = "none"]
            OBVIOUS
        <3>2. TypedProc(p, x) /\ proc' = [proc EXCEPT ![p] = x]
            BY <1>2, <2>2, <3>1 DEF Saved, TInv, TypeOK, ProcTyped, TypedProc, SrvPlaces
        <3> QED
            BY <1>1, <3>2, OneMoves DEF TInv, TypeOK
    <2>3. CASE docmdStartService(p) \/ docmdStopService(p) \/ docmdUpdateService(p) \/ docmdDeleteService(p)
        <3>1. PICK found, missing \in {"control", "failed", "names", "create", "closeMonitor"} :
                  Opened(p, found, missing)
            BY <2>3 DEF docmdStartService, docmdStopService, docmdControl, docmdUpdateService, docmdDeleteService
        <3>2. PICK b \in BOOLEAN : b = Exists
            BY DEF Exists
        <3>3. PICK x : x = [proc[p] EXCEPT !.service = b, !.pc = IF b THEN found ELSE missing]
            OBVIOUS
        <3>4. TypedProc(p, x)
            BY <1>2, <3>3 DEF TInv, TypeOK, ProcTyped, TypedProc, SrvPlaces
        <3>5. proc' = [proc EXCEPT ![p] = x]
            BY <3>1, <3>2, <3>3 DEF Opened
        <3> QED
            BY <1>1, <3>4, <3>5, OneMoves DEF TInv, TypeOK
    <2> QED
        BY <2>1, <2>2, <2>3
<1> QED
    BY <1>1, <1>3, <1>4, <1>5, FrameTyped DEF TInv, TypeOK

LEMMA OptionOf ==
    ASSUME ProcTyped, NEW p \in Procs, NEW o \in Strs
    PROVE  /\ proc[p].os[o].val \in Strings /\ proc[p].os[o].found \in BOOLEAN
           /\ FoundOf(p, o) \in Strings
<1>1. o \in Options /\ Values(o) = Strings
    BY ValuesAre
<1>2. proc[p].os[o] \in [val : Strings, found : BOOLEAN, add : BOOLEAN]
    BY <1>1 DEF ProcTyped, TypedProc, TypedOptions
<1> QED
    BY <1>2, StringsAre DEF FoundOf

(* What the writes of names and start mode mean to set.                     *)
Means(p, os, new) ==
    DOMAIN new \subseteq os /\ \A o \in DOMAIN new : new[o] \in {Given(p, o), FoundOf(p, o)}

(* prunsrv sets names, account and start mode.                              *)
LEMMA NamesTypes ==
    ASSUME TInv, NEW p \in Procs, UpdateNames(p) \/ UpdateOptions(p) \/ InstallAccount(p)
    PROVE  TInv'
<1>1. UNCHANGED <<sc, svc, dep, gui, ctl, remade>>
    BY DEF UpdateNames, UpdateOptions, InstallAccount, scm
<1>2. PlacesOf(p) = SrvPlaces
    <2>1. proc[p].pc \in {"names", "options", "account"}
        BY DEF UpdateNames, UpdateOptions, InstallAccount, At
    <2> QED
        BY <2>1, SrvPlace DEF SrvPlaces, TInv, TypeOK
<1>3. ProcTyped'
    <2>1. \E l \in {"options", "failed", "saveOpen"} : Goto(p, l) \/ Close(p, l)
        BY DEF UpdateNames, UpdateOptions, InstallAccount
    <2> QED
        BY <1>1, <1>2, <2>1, MovesTyped DEF TInv, TypeOK, SrvPlaces
<1>4. TypedRegistry(reg')
    <2>1. \A o \in Strs : proc[p].os[o].val \in Strings /\ FoundOf(p, o) \in Strings
        BY OptionOf DEF TInv, TypeOK
    <2>2. CASE UpdateNames(p)
        <3>1. reg' = reg \/ reg' = apxServiceSetNames(reg, Present, proc[p].os["DisplayName"].val,
                                                      FoundOf(p, "ServiceUser")).reg
            BY <2>2 DEF UpdateNames
        <3> QED
            BY <2>1, <3>1, SetNamesTyped DEF TInv, TypeOK, Strs
    <2>3. CASE UpdateOptions(p)
        <3>1. PICK start : /\ start \in {FoundOf(p, "Startup"), Empty}
                           /\ reg' = reg \/ reg' = apxServiceSetOptions(reg, Present, start).reg
            BY <2>3 DEF UpdateOptions
        <3> QED
            BY <2>1, <3>1, SetOptionsTyped, StringsAre DEF TInv, TypeOK, Strs
    <2>4. CASE InstallAccount(p)
        <3>1. reg' = apxServiceSetNames(reg, Present, Empty, FoundOf(p, "ServiceUser")).reg
            BY <2>4 DEF InstallAccount
        <3> QED
            BY <2>1, <3>1, SetNamesTyped, StringsAre DEF TInv, TypeOK, Strs
    <2> QED
        BY <2>2, <2>3, <2>4
<1>5. HistoryTyped'
    <2>1. \/ UNCHANGED history
          \/ \E os \in SUBSET Strs : \E new : Wrote(p, os, new) /\ Means(p, os, new)
        <3>1. CASE UpdateNames(p)
            <4> DEFINE W == {o \in {"DisplayName", "ServiceUser"} :
                                (IF o = "DisplayName" THEN proc[p].os["DisplayName"].val
                                 ELSE FoundOf(p, "ServiceUser")) # Empty}
                       new == [o \in {w \in W : proc[p].os[w].found} |-> Given(p, o)]
            <4>1. UNCHANGED history \/ Wrote(p, W, new)
                BY <3>1 DEF UpdateNames
            <4>2. W \in SUBSET Strs /\ Means(p, W, new)
                BY DEF Strs, Means
            <4> HIDE DEF W, new
            <4> QED
                BY <4>1, <4>2
        <3>2. CASE UpdateOptions(p)
            <4>1. UNCHANGED history \/ Wrote(p, {"Startup"}, [Startup |-> Given(p, "Startup")])
                BY <3>2 DEF UpdateOptions
            <4> QED
                BY <4>1 DEF Strs, Means
        <3>3. CASE InstallAccount(p)
            <4>1. UNCHANGED history
                  \/ Wrote(p, {"ServiceUser"}, [ServiceUser |-> FoundOf(p, "ServiceUser")])
                BY <3>3 DEF InstallAccount
            <4> QED
                BY <4>1 DEF Strs, Means
        <3> QED
            BY <3>1, <3>2, <3>3
    <2>2. ASSUME NEW os \in SUBSET Strs, NEW new, Wrote(p, os, new), Means(p, os, new)
          PROVE  HistoryTyped'
        <3>1. \A o \in Strs : o \in Options /\ Given(p, o) \in Values(o) /\ FoundOf(p, o) \in Values(o)
            BY GivenTyped, OptionOf, ValuesAre DEF TInv, TypeOK
        <3>2. os \in SUBSET Options /\ \A o \in DOMAIN new : new[o] \in Values(o)
            BY <2>2, <3>1 DEF Means
        <3> QED
            BY <1>1, <2>2, <3>2, WroteTyped DEF TInv, TypeOK
    <2> QED
        BY <1>1, <2>1, <2>2, FrameTyped
<1> QED
    BY <1>1, <1>3, <1>4, <1>5, FrameTyped DEF TInv, TypeOK, TypedRegistry

LEMMA KeysTypes ==
    ASSUME TInv, NEW p \in Procs, saveConfiguration(p) \/ OpenKeysOfManager(p)
    PROVE  TInv'
<1>1. UNCHANGED <<sc, svc, dep, gui, ctl>> /\ UNCHANGED history
    BY DEF saveConfiguration, OpenKeysOfManager, scm, scmOnly, history
<1>2. PICK ok, failed \in PlacesOf(p) : OpenKeys(p, ok, failed)
    <2>1. CASE saveConfiguration(p)
        <3>1. PlacesOf(p) = SrvPlaces
            BY <2>1, SrvPlace DEF saveConfiguration, At, SrvPlaces, TInv, TypeOK
        <3> QED
            BY <2>1, <3>1 DEF saveConfiguration, SrvPlaces
    <2>2. CASE OpenKeysOfManager(p)
        <3>1. PlacesOf(p) = MgrPlaces
            BY <2>2, MgrPlace DEF OpenKeysOfManager, At, MgrPlaces, TInv, TypeOK
        <3> QED
            BY <2>2, <3>1 DEF OpenKeysOfManager, MgrPlaces
    <2> QED
        BY <2>1, <2>2
<1>3. TypedRegistry(reg')
    <2>1. Exists \in BOOLEAN
        BY DEF Exists
    <2> QED
        BY <1>2, <2>1, CreateTyped DEF OpenKeys, TInv, TypeOK
<1>4. ProcTyped'
    <2>1. ToSave(proc[p].os) \subseteq Params
        BY DEF ToSave
    <2>2. PICK x \in {[proc[p] EXCEPT !.pc = ok, !.key = "open", !.todo = ToSave(proc[p].os)],
                      [proc[p] EXCEPT !.pc = failed, !.service = FALSE, !.mutex = FALSE]} :
              proc' = [proc EXCEPT ![p] = x]
        BY <1>2 DEF OpenKeys
    <2>3. TypedProc(p, x)
        BY <1>2, <2>1, <2>2 DEF TInv, TypeOK, ProcTyped, TypedProc
    <2> QED
        BY <1>1, <2>2, <2>3, OneMoves DEF TInv, TypeOK
<1>5. HistoryTyped'
    BY <1>1, <1>2 DEF OpenKeys, history, Present, TInv, TypeOK, HistoryTyped, TypedVal, TypedRegistry
<1> QED
    BY <1>1, <1>3, <1>4, <1>5, FrameTyped DEF TInv, TypeOK, TypedRegistry

(* saveConfiguration, with the option it is at by name.                     *)
LEMMA SaveIs ==
    ASSUME TInv, NEW p \in Procs, SaveOption(p)
    PROVE  \E o \in proc[p].todo :
              /\ o \in Options /\ proc' = [proc EXCEPT ![p].todo = @ \ {o}]
              /\ \/ /\ reg' = Store(reg, o, proc[p].os[o].val)
                    /\ Wrote(p, {o}, [w \in {w \in {o} : proc[p].line[w].found} |-> Given(p, w)])
                 \/ UNCHANGED reg /\ UNCHANGED history
<1>1. FirstOf(proc[p].todo) \in proc[p].todo
    BY FirstIs DEF SaveOption, TInv, TypeOK, ProcTyped, TypedProc, Params
<1>2. PICK o : o = FirstOf(proc[p].todo)
    OBVIOUS
<1>3. /\ proc' = [proc EXCEPT ![p].todo = @ \ {o}]
      /\ \/ /\ reg' = Store(reg, o, proc[p].os[o].val)
            /\ Wrote(p, {o}, [w \in {w \in {o} : proc[p].line[w].found} |-> Given(p, w)])
         \/ UNCHANGED reg /\ UNCHANGED history
    BY <1>2 DEF SaveOption
<1>4. o \in Options
    BY <1>1, <1>2 DEF TInv, TypeOK, ProcTyped, TypedProc, Params
<1> QED
    BY <1>1, <1>2, <1>3, <1>4

LEMMA SaveTypes ==
    ASSUME TInv, NEW p \in Procs, SaveOption(p)
    PROVE  TInv'
<1>1. UNCHANGED <<sc, svc, dep, gui, ctl, remade>>
    BY DEF SaveOption, scm
<1>2. PICK o \in proc[p].todo :
          /\ o \in Options /\ proc' = [proc EXCEPT ![p].todo = @ \ {o}]
          /\ \/ /\ reg' = Store(reg, o, proc[p].os[o].val)
                /\ Wrote(p, {o}, [w \in {w \in {o} : proc[p].line[w].found} |-> Given(p, w)])
             \/ UNCHANGED reg /\ UNCHANGED history
    BY SaveIs
<1>3. o \in Options /\ proc[p].os[o].val \in Values(o)
    BY <1>2 DEF TInv, TypeOK, ProcTyped, TypedProc, TypedOptions
<1>4. TypedRegistry(reg')
    BY <1>2, <1>3, StoreTyped DEF TInv, TypeOK
<1>5. ProcTyped'
    <2>1. PICK x : x = [proc[p] EXCEPT !.todo = @ \ {o}]
        OBVIOUS
    <2>2. TypedProc(p, x) /\ proc' = [proc EXCEPT ![p] = x]
        BY <1>2, <2>1 DEF TInv, TypeOK, ProcTyped, TypedProc
    <2> QED
        BY <1>1, <2>2, OneMoves DEF TInv, TypeOK
<1>6. HistoryTyped'
    <2>1. CASE UNCHANGED history
        BY <1>1, <2>1, FrameTyped
    <2>2. CASE Wrote(p, {o}, [w \in {w \in {o} : proc[p].line[w].found} |-> Given(p, w)])
        <3>1. PICK new : new = [w \in {w \in {o} : proc[p].line[w].found} |-> Given(p, w)]
            OBVIOUS
        <3>2. Given(p, o) \in Values(o)
            BY <1>3, GivenTyped DEF TInv, TypeOK
        <3>3. \A w \in DOMAIN new : new[w] \in Values(w)
            BY <3>1, <3>2
        <3> QED
            BY <1>1, <1>3, <2>2, <3>1, <3>3, WroteTyped DEF TInv, TypeOK
    <2> QED
        BY <1>2, <2>1, <2>2
<1> QED
    BY <1>1, <1>4, <1>5, <1>6, FrameTyped DEF TInv, TypeOK, TypedRegistry

(* IS creates the service with what it was told.                            *)
LEMMA InstallTypes ==
    ASSUME TInv, NEW p \in Procs, docmdInstallService(p)
    PROVE  TInv'
<1>1. UNCHANGED <<sc, dep, gui, ctl, remade>>
    BY DEF docmdInstallService
<1>2. PlacesOf(p) = SrvPlaces
    BY SrvPlace DEF docmdInstallService, At, SrvPlaces, TInv, TypeOK
<1>3. CASE Exists
    <2>1. Goto(p, "failed") /\ UNCHANGED svc /\ UNCHANGED reg /\ UNCHANGED history
        BY <1>3 DEF docmdInstallService
    <2>2. ProcTyped'
        BY <1>1, <1>2, <2>1, MovesTyped DEF TInv, TypeOK, SrvPlaces
    <2> QED
        BY <1>1, <2>1, <2>2, FrameTyped DEF TInv, TypeOK
<1>4. CASE ~Exists
    <2>1. PICK display, start : display = proc[p].os["DisplayName"].val /\ start = FoundOf(p, "Startup")
        OBVIOUS
    <2>2. PICK s : s = IF start = "auto" THEN "auto" ELSE "manual"
        OBVIOUS
    <2>3. /\ svc' = [there |-> "present", state |-> "STOPPED"]
          /\ reg' = apxServiceInstall(reg, display, start)
          /\ proc' = [proc EXCEPT ![p].pc = "account", ![p].service = TRUE]
          /\ Wrote(p, Srv, [DisplayName |-> display, ServiceUser |-> "LocalSystem", Startup |-> s])
        BY <1>4, <2>1, <2>2 DEF docmdInstallService
    <2>4. display \in Strings /\ s \in Strings /\ "LocalSystem" \in Strings
        BY <2>1, <2>2, OptionOf, StringsAre DEF TInv, TypeOK, Strs
    <2>5. TypedRegistry(reg')
        BY <2>3, <2>4, InstallTyped DEF TInv, TypeOK
    <2>6. ServiceTyped'
        BY <1>1, <2>3 DEF TInv, TypeOK, ServiceTyped, States
    <2>7. ProcTyped'
        <3>1. PICK x : x = [proc[p] EXCEPT !.pc = "account", !.service = TRUE]
            OBVIOUS
        <3>2. TypedProc(p, x) /\ proc' = [proc EXCEPT ![p] = x]
            BY <1>2, <2>3, <3>1 DEF TInv, TypeOK, ProcTyped, TypedProc, SrvPlaces
        <3> QED
            BY <1>1, <3>2, OneMoves DEF TInv, TypeOK
    <2>8. HistoryTyped'
        <3>1. PICK new : new = [DisplayName |-> display, ServiceUser |-> "LocalSystem", Startup |-> s]
            OBVIOUS
        <3>2. \A o \in DOMAIN new : o \in Options /\ new[o] \in Values(o)
            BY <2>4, <3>1, ValuesAre DEF Strs
        <3>3. Srv \in SUBSET Options
            BY DEF Srv
        <3> QED
            BY <1>1, <2>3, <3>1, <3>2, <3>3, WroteTyped DEF TInv, TypeOK
    <2> QED
        BY <1>1, <2>5, <2>6, <2>7, <2>8, FrameTyped DEF TInv, TypeOK, TypedRegistry
<1> QED
    BY <1>3, <1>4

LEMMA DeleteTypes ==
    ASSUME TInv, NEW p \in Procs, apxDeleteRegistry(p)
    PROVE  TInv'
<1>1. UNCHANGED <<sc, svc, dep, gui, ctl, remade>>
    BY DEF apxDeleteRegistry, scm
<1>2. PlacesOf(p) = SrvPlaces
    BY SrvPlace DEF apxDeleteRegistry, At, SrvPlaces, TInv, TypeOK
<1>3. TypedRegistry(reg')
    BY DeleteTyped DEF apxDeleteRegistry, TInv, TypeOK
<1>4. ProcTyped'
    <2>1. DOMAIN proc' = Procs /\ \A q \in Procs : TypedProc(q, proc'[q])
        <3>1. proc' = [q \in Procs |-> [proc[q] EXCEPT !.key = IF @ = "open" THEN "deleted" ELSE @,
                                                      !.pc = IF q = p THEN "done" ELSE @]]
            BY DEF apxDeleteRegistry
        <3>2. ASSUME NEW q \in Procs PROVE TypedProc(q, proc'[q])
            <4>1. TypedProc(q, proc[q])
                BY DEF TInv, TypeOK, ProcTyped
            <4>2. PICK k, l : /\ k = IF proc[q].key = "open" THEN "deleted" ELSE proc[q].key
                              /\ l = IF q = p THEN "done" ELSE proc[q].pc
                OBVIOUS
            <4>3. proc'[q] = [proc[q] EXCEPT !.key = k, !.pc = l]
                BY <3>1, <4>1, <4>2 DEF TypedProc
            <4>4. k \in {"none", "open", "deleted"} /\ l \in PlacesOf(q)
                BY <1>2, <4>1, <4>2 DEF TypedProc, SrvPlaces
            <4> QED
                BY <4>1, <4>3, <4>4 DEF TypedProc
        <3> QED
            BY <3>1, <3>2
    <2> QED
        BY <1>1, <2>1, PlacesStay DEF ProcTyped, TypedProc
<1>5. HistoryTyped'
    <2>1. TypedVal(asked')
        BY ForgetTyped DEF apxDeleteRegistry, TInv, TypeOK, HistoryTyped
    <2>2. overtaken' \subseteq Options /\ behind' \in [Procs -> SUBSET Options]
        BY DEF apxDeleteRegistry, Change, TInv, TypeOK, HistoryTyped, Params
    <2> QED
        BY <1>1, <2>1, <2>2 DEF TInv, TypeOK, HistoryTyped, TypedVal
<1> QED
    BY <1>1, <1>3, <1>4, <1>5, FrameTyped DEF TInv, TypeOK, TypedRegistry

LEMMA NoEdits == Edits(<<>>)
BY DEF Edits, Listed

LEMMA ClosedTyped == \A s \in {Closed, Sheet} : TypedSheet(s) /\ Fits(s)
<1>1. PICK f : f = <<>>
    OBVIOUS
<1>2. DOMAIN f = {}
    BY <1>1
<1>3. ASSUME NEW s \in {Closed, Sheet}
      PROVE  /\ DOMAIN s = {"open", "fields", "bits", "mine", "ok", "valid"}
             /\ s.open \in BOOLEAN /\ s.ok \in BOOLEAN /\ s.valid \in BOOLEAN
             /\ s.fields = f /\ s.bits = {} /\ s.mine = {}
    <2>1. CASE s = Closed
        BY <1>1, <2>1 DEF Closed
    <2>2. CASE s = Sheet
        BY <1>1, <2>2 DEF Closed, Sheet
    <2> QED
        BY <2>1, <2>2
<1>4. ASSUME NEW s \in {Closed, Sheet} PROVE TypedSheet(s) /\ Fits(s)
    BY <1>2, <1>3, <1>4 DEF TypedSheet, Fits
<1> QED
    BY <1>4

LEMMA NoGuiTyped == TypedGui(NoGui) /\ Fits(NoGui.sheet)
<1>1. NoEntry \in [state : States, display : Strings, start : Strings, user : Strings]
    BY StringsAre DEF NoEntry, States
<1>2. TypedSheet(NoGui.sheet) /\ Fits(NoGui.sheet)
    BY ClosedTyped DEF NoGui
<1>3. Edits(NoGui.edits)
    BY NoEdits DEF NoGui
<1> QED
    BY <1>1, <1>2, <1>3 DEF NoGui, TypedGui

LEMMA IconTyped == \A state : Icon(state) \in {"none", "run", "stop"}
BY DEF Icon

(* The window that goes, of whom it may be.                                 *)
LEMMA OtherTypes ==
    ASSUME TInv, NEW p \in Procs, CloseMonitor(p) \/ QuitOther(p)
    PROVE  TInv'
<1>1. UNCHANGED <<sc, svc, dep, ctl, reg, remade>> /\ UNCHANGED history
    BY DEF CloseMonitor, QuitOther, scmOnly, history
<1>2. PICK l \in PlacesOf(p) : CloseOther(p, l)
    <2>1. CASE CloseMonitor(p)
        <3>1. PlacesOf(p) = SrvPlaces
            BY <2>1, SrvPlace DEF CloseMonitor, At, SrvPlaces, TInv, TypeOK
        <3> QED
            BY <2>1, <3>1 DEF CloseMonitor, SrvPlaces
    <2>2. CASE QuitOther(p)
        <3>1. PlacesOf(p) = MgrPlaces
            BY <2>2, MgrPlace DEF QuitOther, At, MgrPlaces, TInv, TypeOK
        <3> QED
            BY <2>2, <3>1 DEF QuitOther, MgrPlaces
    <2> QED
        BY <2>1, <2>2
<1>3. CASE Goto(p, l) /\ UNCHANGED gui
    BY <1>1, <1>2, <1>3, MovesTyped, FrameTyped DEF TInv, TypeOK
<1>4. ASSUME NEW q \in Procs, TakesMessages(q), gui' = [gui EXCEPT ![q] = WindowClosed(q)],
             proc' = [proc EXCEPT ![p].pc = l, ![q].pc = "quit"]
      PROVE  TInv'
    <2>1. "quit" \in PlacesOf(q)
        <3>1. proc[q].pc \in {"loop", "created"}
            BY <1>4 DEF TakesMessages, At
        <3>2. PlacesOf(q) = MgrPlaces
            BY <3>1, MgrPlace DEF MgrPlaces, TInv, TypeOK
        <3> QED
            BY <3>2 DEF MgrPlaces
    <2>2. ProcTyped'
        <3>1. DOMAIN proc = Procs /\ \A r \in Procs : TypedProc(r, proc[r])
            BY DEF TInv, TypeOK, ProcTyped
        <3>2. PICK x, y : x = [proc[p] EXCEPT !.pc = l] /\ y = [proc[q] EXCEPT !.pc = "quit"]
            OBVIOUS
        <3>4. TypedProc(p, x) /\ TypedProc(q, y)
            BY <1>2, <2>1, <3>1, <3>2 DEF TypedProc
        <3>5. CASE p = q
            <4>1. proc' = [proc EXCEPT ![q] = y]
                BY <1>4, <3>1, <3>2, <3>5 DEF TypedProc
            <4> QED
                BY <1>1, <3>4, <4>1, OneMoves DEF TInv, TypeOK
        <3>6. CASE p # q
            <4>1. /\ DOMAIN proc' = Procs
                  /\ \A r \in Procs : proc'[r] = IF r = p THEN x ELSE IF r = q THEN y ELSE proc[r]
                BY <1>4, <3>1, <3>2, <3>6
            <4>2. \A r \in Procs : TypedProc(r, proc'[r])
                BY <3>1, <3>4, <4>1
            <4> QED
                BY <1>1, <4>1, <4>2, PlacesStay DEF ProcTyped, TypedProc
        <3> QED
            BY <3>5, <3>6
    <2>3. GuiTyped' /\ SheetsFit'
        <3>1. TypedGui(gui[q])
            BY DEF TInv, TypeOK, GuiTyped
        <3>2. TypedGui(WindowClosed(q)) /\ Fits(WindowClosed(q).sheet)
            BY <3>1, ClosedTyped DEF WindowClosed, TypedGui
        <3> QED
            BY <1>4, <3>2, OneGui DEF TInv, TypeOK
    <2> QED
        BY <1>1, <2>2, <2>3, FrameTyped DEF TInv, TypeOK
<1> QED
    BY <1>2, <1>3, <1>4 DEF CloseOther, Windows

(* prunmgr as far as its mutex.                                             *)
LEMMA WinMainTypes ==
    ASSUME TInv, NEW p \in Procs, WinMain(p)
    PROVE  TInv'
<1>1. UNCHANGED <<sc, svc, dep, ctl, reg, remade>> /\ UNCHANGED <<asked, overtaken>>
    BY DEF WinMain, scmOnly
<1>2. Is(p, "prunmgr") /\ ~Is(p, "prunsrv") /\ PlacesOf(p) = MgrPlaces /\ WellFormed(Job(p))
    BY MgrPlace, JobIs DEF WinMain, TInv, TypeOK
<1>3. CASE Goto(p, "quit") /\ UNCHANGED <<gui, behind>>
    <2>1. UNCHANGED history
        BY <1>1, <1>3 DEF history
    <2> QED
        BY <1>1, <1>2, <1>3, <2>1, MovesTyped, FrameTyped DEF TInv, TypeOK, MgrPlaces
<1>4. CASE ~ParseFails(Line(p)) /\ Exists
    <2>1. PICK index, l : index = apxCmdlineParse(Line(p)).index
                          /\ l = IF index = 4 THEN "quitOther" ELSE "mutex"
        OBVIOUS
    <2>2. /\ proc' = [proc EXCEPT ![p].index = index, ![p].service = TRUE, ![p].pc = l]
          /\ gui' = [gui EXCEPT ![p].entry = Entry] /\ ReadBy(p, Srv)
        BY <1>4, <2>1 DEF WinMain
    <2>3. index \in 1 .. 4
        <3>1. Line(p).args = Job(p).args /\ Line(p).commands = MgrCommands
            BY <1>2 DEF Line
        <3>2. DOMAIN MgrCommands = 1 .. 4
            BY DEF MgrCommands
        <3>3. PICK line : line = Line(p)
            OBVIOUS
        <3>4. Listed(line.args) /\ \A i \in DOMAIN line.args : Argument(line.args[i])
            BY <1>2, <3>1, <3>3 DEF WellFormed
        <3>5. ~ParseFails(line) /\ DOMAIN line.commands = 1 .. 4 /\ 4 \in Nat /\ 4 # 0
            BY <1>4, <3>1, <3>2, <3>3
        <3>6. apxCmdlineParse(line).index \in 1 .. 4
            BY <3>4, <3>5, ParseTyped
        <3> QED
            BY <2>1, <3>3, <3>6
    <2>4. ProcTyped'
        <3>1. PICK x : x = [proc[p] EXCEPT !.index = index, !.service = TRUE, !.pc = l]
            OBVIOUS
        <3>2. l \in MgrPlaces /\ index \in 0 .. 9
            BY <2>1, <2>3 DEF MgrPlaces
        <3>3. TypedProc(p, x) /\ proc' = [proc EXCEPT ![p] = x]
            BY <1>2, <2>2, <3>1, <3>2 DEF TInv, TypeOK, ProcTyped, TypedProc
        <3> QED
            BY <1>1, <3>3, OneMoves DEF TInv, TypeOK
    <2>5. GuiTyped' /\ SheetsFit'
        <3>1. Entry \in [state : States, display : Strings, start : Strings, user : Strings]
            BY ValuesAre DEF Entry, apxGetServiceUser, TInv, TypeOK, TypedRegistry, TypedVal, ServiceTyped, Strs
        <3>2. PICK g : g = [gui[p] EXCEPT !.entry = Entry]
            OBVIOUS
        <3>3. TypedGui(g) /\ Fits(g.sheet)
            BY <3>1, <3>2 DEF TInv, TypeOK, GuiTyped, TypedGui, SheetsFit
        <3>4. gui' = [gui EXCEPT ![p] = g]
            BY <2>2, <3>2
        <3> QED
            BY <3>3, <3>4, OneGui DEF TInv, TypeOK
    <2>6. HistoryTyped'
        <3>1. behind' \in [Procs -> SUBSET Options]
            BY <2>2 DEF ReadBy, TInv, TypeOK, HistoryTyped
        <3> QED
            BY <1>1, <3>1 DEF TInv, TypeOK, HistoryTyped, TypedVal
    <2> QED
        BY <1>1, <2>4, <2>5, <2>6, FrameTyped DEF TInv, TypeOK
<1> QED
    BY <1>3, <1>4 DEF WinMain

(* prunmgr where it leaves windows alone, or its own are made.              *)
LEMMA WindowTypes ==
    ASSUME TInv, NEW p \in Procs,
           \/ TakeMutex(p) \/ Answered(p) \/ CloseMutex(p) \/ AlreadyRunning(p) \/ CreateMainWindow(p)
           \/ WindowCreated(p) \/ ExitProcess(p)
    PROVE  TInv'
<1>1. UNCHANGED <<sc, svc, dep, reg, remade>> /\ UNCHANGED history
    BY DEF TakeMutex, Answered, CloseMutex, AlreadyRunning, CreateMainWindow, WindowCreated, ExitProcess,
           scmOnly, history
<1>2. PlacesOf(p) = MgrPlaces
    <2>1. proc[p].pc \in {"mutex", "asked", "quit", "already", "window", "created", "close"}
        BY DEF TakeMutex, Answered, CloseMutex, AlreadyRunning, CreateMainWindow, WindowCreated, ExitProcess, At
    <2> QED
        BY <2>1, MgrPlace DEF MgrPlaces, TInv, TypeOK
<1>3. TypedProc(p, proc[p]) /\ TypedGui(gui[p]) /\ Fits(gui[p].sheet)
    BY DEF TInv, TypeOK, ProcTyped, GuiTyped, SheetsFit
<1>4. ControlTyped'
    BY DEF TakeMutex, Answered, CloseMutex, AlreadyRunning, CreateMainWindow, WindowCreated, ExitProcess, TInv,
           TypeOK, ControlTyped, Idle
<1>5. ProcTyped'
    <2>1. CASE Answered(p) \/ AlreadyRunning(p) \/ CreateMainWindow(p) \/ WindowCreated(p)
        <3>1. \E l \in {"quit", "asked", "created", "loop"} : Goto(p, l)
            BY <2>1 DEF Answered, AlreadyRunning, CreateMainWindow, WindowCreated
        <3> QED
            BY <1>1, <1>2, <3>1, MovesTyped DEF TInv, TypeOK, MgrPlaces
    <2>2. CASE TakeMutex(p) \/ CloseMutex(p) \/ ExitProcess(p)
        <3>1. \E l \in {"keys", "already", "close", "done"} :
                 \/ Goto(p, l)
                 \/ proc' = [proc EXCEPT ![p] = [proc[p] EXCEPT !.pc = l, !.mutex = TRUE]]
                 \/ proc' = [proc EXCEPT ![p] = [proc[p] EXCEPT !.pc = l, !.mutex = FALSE]]
                 \/ proc' = [proc EXCEPT ![p] = [proc[p] EXCEPT !.pc = l, !.service = FALSE, !.key = "none"]]
            BY <2>2 DEF TakeMutex, CloseMutex, ExitProcess
        <3>2. PICK l \in {"keys", "already", "close", "done"} :
                 \/ Goto(p, l)
                 \/ proc' = [proc EXCEPT ![p] = [proc[p] EXCEPT !.pc = l, !.mutex = TRUE]]
                 \/ proc' = [proc EXCEPT ![p] = [proc[p] EXCEPT !.pc = l, !.mutex = FALSE]]
                 \/ proc' = [proc EXCEPT ![p] = [proc[p] EXCEPT !.pc = l, !.service = FALSE, !.key = "none"]]
            BY <3>1
        <3>3. l \in MgrPlaces
            BY DEF MgrPlaces
        <3>4. \A x \in {[proc[p] EXCEPT !.pc = l, !.mutex = TRUE], [proc[p] EXCEPT !.pc = l, !.mutex = FALSE],
                       [proc[p] EXCEPT !.pc = l, !.service = FALSE, !.key = "none"]} : TypedProc(p, x)
            BY <1>2, <1>3, <3>3 DEF TypedProc
        <3> QED
            BY <1>1, <1>2, <3>2, <3>3, <3>4, MovesTyped, OneMoves DEF TInv, TypeOK
    <2> QED
        BY <2>1, <2>2
<1>6. GuiTyped' /\ SheetsFit'
    <2>1. CASE TakeMutex(p) \/ Answered(p) \/ CloseMutex(p)
        <3>1. UNCHANGED gui
            BY <2>1 DEF TakeMutex, Answered, CloseMutex
        <3> QED
            BY <1>1, <3>1, FrameTyped
    <2>2. CASE AlreadyRunning(p)
        <3>1. CASE UNCHANGED gui
            BY <1>1, <3>1, FrameTyped
        <3>2. ASSUME NEW q \in Procs, gui' = [gui EXCEPT ![q].sheet = Sheet, ![p].host = q]
              PROVE  GuiTyped' /\ SheetsFit'
            <4>1. DOMAIN gui = Procs /\ \A r \in Procs : TypedGui(gui[r]) /\ Fits(gui[r].sheet)
                BY DEF TInv, TypeOK, GuiTyped, SheetsFit
            <4>2. /\ DOMAIN gui' = Procs
                  /\ \A r \in Procs \ {p, q} : gui'[r] = gui[r]
                  /\ p # q => /\ gui'[p] = [gui[p] EXCEPT !.host = q]
                              /\ gui'[q] = [gui[q] EXCEPT !.sheet = Sheet]
                  /\ p = q => gui'[p] = [gui[p] EXCEPT !.sheet = Sheet, !.host = q]
                BY <3>2, <4>1
            <4>3. TypedSheet(Sheet) /\ Fits(Sheet)
                BY ClosedTyped
            <4>4. ASSUME NEW r \in Procs PROVE TypedGui(gui'[r]) /\ Fits(gui'[r].sheet)
                <5>1. TypedGui(gui[r]) /\ Fits(gui[r].sheet)
                    BY <4>1
                <5>2. gui'[r] \in {gui[r], [gui[r] EXCEPT !.host = q], [gui[r] EXCEPT !.sheet = Sheet],
                                   [gui[r] EXCEPT !.sheet = Sheet, !.host = q]}
                    BY <4>2
                <5> QED
                    BY <4>3, <5>1, <5>2 DEF TypedGui
            <4> QED
                BY <4>2, <4>4 DEF GuiTyped, TypedGui, SheetsFit, Fits
        <3> QED
            BY <2>2, <3>1, <3>2 DEF AlreadyRunning, Windows
    <2>3. CASE CreateMainWindow(p)
        <3>1. PICK g \in {[gui[p] EXCEPT !.class = TRUE, !.icon = Icon(gui[p].entry.state)],
                          [gui[p] EXCEPT !.class = TRUE, !.sheet = Sheet]} :
                  gui' = [gui EXCEPT ![p] = g]
            BY <2>3 DEF CreateMainWindow
        <3>2. TypedGui(g) /\ Fits(g.sheet)
            <4>1. PICK i, s :
                      /\ i \in {"none", "run", "stop"} /\ i = Icon(gui[p].entry.state)
                      /\ s = Sheet /\ TypedSheet(s) /\ Fits(s)
                BY IconTyped, ClosedTyped
            <4>2. CASE g = [gui[p] EXCEPT !.class = TRUE, !.icon = i]
                BY <1>3, <4>1, <4>2 DEF TypedGui
            <4>3. CASE g = [gui[p] EXCEPT !.class = TRUE, !.sheet = s]
                BY <1>3, <4>1, <4>3 DEF TypedGui
            <4> QED
                BY <3>1, <4>1, <4>2, <4>3
        <3> QED
            BY <3>1, <3>2, OneGui DEF TInv, TypeOK
    <2>4. CASE WindowCreated(p)
        <3>1. PICK g : g = [gui[p] EXCEPT !.ready = TRUE, !.start = (proc[p].index = 3)]
            OBVIOUS
        <3>2. TypedGui(g) /\ Fits(g.sheet)
            <4>1. (proc[p].index = 3) \in BOOLEAN
                OBVIOUS
            <4>2. PICK b \in BOOLEAN : b = (proc[p].index = 3)
                BY <4>1
            <4>3. g = [gui[p] EXCEPT !.ready = TRUE, !.start = b]
                BY <3>1, <4>2
            <4> QED
                BY <1>3, <4>3 DEF TypedGui
        <3>3. gui' = [gui EXCEPT ![p] = g]
            BY <2>4, <3>1 DEF WindowCreated
        <3> QED
            BY <3>2, <3>3, OneGui DEF TInv, TypeOK
    <2>5. CASE ExitProcess(p)
        BY <2>5, NoGuiTyped, OneGui DEF ExitProcess, TInv, TypeOK
    <2> QED
        BY <2>1, <2>2, <2>3, <2>4, <2>5
<1> QED
    BY <1>1, <1>4, <1>5, <1>6, FrameTyped DEF TInv, TypeOK

(* The threads beside the main one and what they post.                      *)
LEMMA MessageTypes ==
    ASSUME TInv, NEW p \in Procs,
           \/ refreshThread(p) \/ Refresh(p) \/ RightButton(p) \/ PostedStart(p) \/ startServiceCallback(p)
           \/ stopServiceCallback(p)
    PROVE  TInv'
<1>1. UNCHANGED <<sc, svc, dep, reg, proc, remade>> /\ UNCHANGED history
    BY DEF refreshThread, Refresh, RightButton, PostedStart, startServiceCallback, stopServiceCallback, guiRest,
           scmOnly, history
<1>2. ControlTyped'
    BY DEF refreshThread, Refresh, RightButton, PostedStart, startServiceCallback, stopServiceCallback, TInv,
           TypeOK, ControlTyped, Idle, Control, Begin
<1>3. TypedGui(gui[p]) /\ Fits(gui[p].sheet) /\ svc.state \in States /\ "RUNNING" \in States
    BY DEF TInv, TypeOK, GuiTyped, SheetsFit, ServiceTyped, States
<1>4. ASSUME NEW s \in States
      PROVE  StateOf(p, s) \in [state : States, display : Strings, start : Strings, user : Strings]
    BY <1>3 DEF StateOf, TypedGui
<1>5. PICK g : TypedGui(g) /\ Fits(g.sheet) /\ gui' = [gui EXCEPT ![p] = g]
    <2>1. CASE refreshThread(p)
        <3>1. PICK b, c \in BOOLEAN :
                  /\ b = (gui[p].refresh \/ (svc.state # gui[p].entry.state /\ gui[p].ready))
                  /\ c = (gui[p].missed \/ (svc.state # gui[p].entry.state /\ ~gui[p].ready /\ At(p, "created")))
            BY <1>3 DEF TypedGui
        <3>2. PICK g : g = [gui[p] EXCEPT !.entry = StateOf(p, svc.state), !.refresh = b, !.missed = c]
            OBVIOUS
        <3>3. gui' = [gui EXCEPT ![p] = g]
            BY <2>1, <3>1, <3>2 DEF refreshThread
        <3>4. TypedGui(g) /\ Fits(g.sheet)
            BY <1>3, <1>4, <3>1, <3>2 DEF TypedGui
        <3> QED
            BY <3>3, <3>4
    <2>2. CASE Refresh(p)
        <3>1. PICK g : g = [gui[p] EXCEPT !.entry = StateOf(p, svc.state), !.icon = Icon(svc.state),
                                          !.refresh = FALSE, !.missed = FALSE]
            OBVIOUS
        <3>2. TypedGui(g) /\ Fits(g.sheet)
            BY <1>3, <1>4, <3>1, IconTyped DEF TypedGui
        <3> QED
            BY <2>2, <3>1, <3>2 DEF Refresh
    <2>3. CASE RightButton(p)
        <3>1. PICK b \in BOOLEAN : b = (gui[p].missed \/ svc.state # gui[p].entry.state)
            BY <1>3 DEF TypedGui
        <3>2. PICK m : m = createRbuttonTryMenu(StateOf(p, svc.state))
            OBVIOUS
        <3>3. PICK g : g = [gui[p] EXCEPT !.entry = StateOf(p, svc.state), !.menu = m, !.missed = b]
            OBVIOUS
        <3>4. gui' = [gui EXCEPT ![p] = g]
            BY <2>3, <3>1, <3>2, <3>3 DEF RightButton
        <3>5. m \subseteq {"leave", "exit", "configure", "start", "stop"}
            BY <3>2 DEF createRbuttonTryMenu
        <3>6. TypedGui(g) /\ Fits(g.sheet)
            BY <1>3, <1>4, <3>3, <3>5 DEF TypedGui
        <3> QED
            BY <3>4, <3>6
    <2>4. CASE PostedStart(p)
        <3>1. PICK g : g = [gui[p] EXCEPT !.start = FALSE]
            OBVIOUS
        <3>2. TypedGui(g) /\ Fits(g.sheet)
            BY <1>3, <3>1 DEF TypedGui
        <3> QED
            BY <2>4, <3>1, <3>2 DEF PostedStart
    <2>5. CASE startServiceCallback(p)
        <3>1. PICK e : e = IF ctl[p].at = "ok" THEN StateOf(p, "RUNNING") ELSE gui[p].entry
            OBVIOUS
        <3>2. PICK g : g = [gui[p] EXCEPT !.entry = e, !.refresh = gui[p].ready]
            OBVIOUS
        <3>3. gui' = [gui EXCEPT ![p] = g]
            BY <2>5, <3>1, <3>2 DEF startServiceCallback
        <3>4. e \in [state : States, display : Strings, start : Strings, user : Strings]
            BY <1>3, <1>4, <3>1 DEF TypedGui
        <3>5. TypedGui(g) /\ Fits(g.sheet)
            BY <1>3, <3>2, <3>4 DEF TypedGui
        <3> QED
            BY <3>3, <3>5
    <2>6. CASE stopServiceCallback(p)
        <3>1. PICK g : g = [gui[p] EXCEPT !.refresh = gui[p].ready]
            OBVIOUS
        <3>2. TypedGui(g) /\ Fits(g.sheet)
            BY <1>3, <3>1 DEF TypedGui
        <3> QED
            BY <2>6, <3>1, <3>2 DEF stopServiceCallback
    <2> QED
        BY <2>1, <2>2, <2>3, <2>4, <2>5, <2>6
<1>6. GuiTyped' /\ SheetsFit'
    BY <1>5, OneGui DEF TInv, TypeOK
<1> QED
    BY <1>1, <1>2, <1>6, FrameTyped DEF TInv, TypeOK

LEMMA PagesAre ==
    /\ PageOf("DisplayName") = 1 /\ PageOf("Startup") = 1 /\ PageOf("ServiceUser") = 2
    /\ PageOf("LogLevel") = 3 /\ PageOf("JvmOptions") = 4 /\ PageOf("StartMode") = 5
    /\ PageOf("StopTimeout") = 6
    /\ \A o \in Options : PageOf(o) \in Pages
<1>1. /\ PageOf("DisplayName") = 1 /\ PageOf("Startup") = 1 /\ PageOf("ServiceUser") = 2
      /\ PageOf("LogLevel") = 3 /\ PageOf("JvmOptions") = 4 /\ PageOf("StartMode") = 5
      /\ PageOf("StopTimeout") = 6
    BY DEF PageOf
<1> QED
    BY <1>1, OptionsAre DEF Pages

(* A page shows all its options, and what it shows is of their types.       *)
Shows(f, page) == /\ DOMAIN f = {o \in Options : PageOf(o) = page}
                  /\ \A o \in DOMAIN f : f[o] \in Values(o)

LEMMA PageTyped ==
    ASSUME TInv, NEW p \in Procs, NEW page \in Pages
    PROVE  Shows(PageIn(p, page).shows, page)
<1>1. PICK e : e = gui[p].entry
    OBVIOUS
<1>2. e.display \in Strings /\ e.start \in Strings /\ e.user \in Strings
    BY <1>1 DEF TInv, TypeOK, GuiTyped, TypedGui
<1>3. PICK r : r = IF proc[p].key = "open" THEN reg ELSE EmptyRegistry
    OBVIOUS
<1>4. TypedRegistry(r)
    BY <1>3, EmptyTyped DEF TInv, TypeOK
<1>5. /\ r.val["LogLevel"] \in Strings /\ r.val["StartMode"] \in Strings
      /\ r.val["JvmOptions"] \in Seq(Strings) /\ r.val["StopTimeout"] \in 0 .. ULongSize - 1
    BY <1>4, ValuesAre DEF TypedRegistry, TypedVal, Strs
<1>6. ASSUME NEW a \in Options, NEW c, \A o \in Options : o = a <=> PageOf(o) = c,
             NEW f, DOMAIN f = {a}, f[a] \in Values(a)
      PROVE  Shows(f, c)
    BY <1>6 DEF Shows
<1>7. CASE page = 1
    <2>1. PICK f : f = [DisplayName |-> e.display, Startup |-> e.start]
        OBVIOUS
    <2>2. PageIn(p, page).shows = f
        BY <1>1, <1>7, <2>1 DEF PageIn, generalProperty, Page
    <2>3. DOMAIN f = {"DisplayName", "Startup"} /\ f["DisplayName"] \in Strings /\ f["Startup"] \in Strings
        BY <1>2, <2>1
    <2>4. {o \in Options : PageOf(o) = 1} = {"DisplayName", "Startup"}
        BY OptionsAre, PagesAre
    <2>5. Values("DisplayName") = Strings /\ Values("Startup") = Strings
        BY ValuesAre DEF Strs
    <2>6. \A o \in DOMAIN f : f[o] \in Values(o)
        BY <2>3, <2>5
    <2>7. Shows(f, 1)
        BY <2>3, <2>4, <2>6 DEF Shows
    <2> QED
        BY <1>7, <2>2, <2>7
<1>8. CASE page = 2
    <2>1. PICK f : f = [ServiceUser |-> e.user]
        OBVIOUS
    <2>2. PageIn(p, page).shows = f
        BY <1>1, <1>8, <2>1 DEF PageIn, logonProperty, Page
    <2>3. DOMAIN f = {"ServiceUser"} /\ f["ServiceUser"] \in Strings
        BY <1>2, <2>1
    <2>4. \A o \in Options : o = "ServiceUser" <=> PageOf(o) = 2
        BY OptionsAre, PagesAre
    <2> QED
        BY <1>6, <1>8, <2>2, <2>3, <2>4, ValuesAre DEF Strs
<1>9. CASE page = 3
    <2>1. PICK v : v = IF apxRegistryGetString(r, "LogLevel") = Empty THEN "Info"
                       ELSE apxRegistryGetString(r, "LogLevel")
        OBVIOUS
    <2>2. PICK f : f = [LogLevel |-> v]
        OBVIOUS
    <2>3. PageIn(p, page).shows = f
        BY <1>3, <1>9, <2>1, <2>2 DEF PageIn, loggingProperty, Page
    <2>4. v \in Strings
        BY <1>5, <2>1, StringsAre DEF apxRegistryGetString
    <2>5. DOMAIN f = {"LogLevel"} /\ f["LogLevel"] \in Strings
        BY <2>2, <2>4
    <2>6. \A o \in Options : o = "LogLevel" <=> PageOf(o) = 3
        BY OptionsAre, PagesAre
    <2> QED
        BY <1>6, <1>9, <2>3, <2>5, <2>6, ValuesAre DEF Strs
<1>10. CASE page = 4
    <2>1. PICK v : v = Readable(r.val["JvmOptions"])
        OBVIOUS
    <2>2. PICK f : f = [JvmOptions |-> v]
        OBVIOUS
    <2>3. PageIn(p, page).shows = f
        BY <1>3, <1>10, <2>1, <2>2 DEF PageIn, jvmProperty, Page, apxMszToCRLF, apxRegistryGetMzStr
    <2>4. v \in Seq(Strings)
        BY <1>5, <2>1, ReadableItems
    <2>5. DOMAIN f = {"JvmOptions"} /\ f["JvmOptions"] \in Seq(Strings)
        BY <2>2, <2>4
    <2>6. \A o \in Options : o = "JvmOptions" <=> PageOf(o) = 4
        BY OptionsAre, PagesAre
    <2> QED
        BY <1>6, <1>10, <2>3, <2>5, <2>6, ValuesAre
<1>11. CASE page = 5
    <2>1. PICK f : f = [StartMode |-> r.val["StartMode"]]
        OBVIOUS
    <2>2. PageIn(p, page).shows = f
        BY <1>3, <1>11, <2>1 DEF PageIn, startProperty, Page, apxRegistryGetString
    <2>3. DOMAIN f = {"StartMode"} /\ f["StartMode"] \in Strings
        BY <1>5, <2>1
    <2>4. \A o \in Options : o = "StartMode" <=> PageOf(o) = 5
        BY OptionsAre, PagesAre
    <2> QED
        BY <1>6, <1>11, <2>2, <2>3, <2>4, ValuesAre DEF Strs
<1>12. CASE page = 6
    <2>1. PICK f : f = [StopTimeout |-> r.val["StopTimeout"]]
        OBVIOUS
    <2>2. PageIn(p, page).shows = f
        BY <1>3, <1>12, <2>1 DEF PageIn, stopProperty, Page, apxRegistryGetNumber
    <2>3. DOMAIN f = {"StopTimeout"} /\ f["StopTimeout"] \in 0 .. ULongSize - 1
        BY <1>5, <2>1
    <2>4. \A o \in Options : o = "StopTimeout" <=> PageOf(o) = 6
        BY OptionsAre, PagesAre
    <2> QED
        BY <1>6, <1>12, <2>2, <2>3, <2>4, ValuesAre
<1> QED
    BY <1>7, <1>8, <1>9, <1>10, <1>11, <1>12 DEF Pages

(* What is typed is of the option's type.                                   *)
LEMMA TextTyped ==
    ASSUME NEW o \in Options, NEW text \in Inputs(o)
    PROVE  Typed(o, text) \in Values(o)
<1>1. Type(o) \in {"STR", "INT", "MSZ"} /\ (o = "Startup" => Type(o) = "STR")
    BY OptionsAre, TypesAre
<1>2. CASE Type(o) = "STR"
    <2>1. text \in Strings
        BY <1>2, StringsAre DEF Inputs, Texts, Startups
    <2> QED
        BY <1>2, <2>1 DEF Typed, Values
<1>3. CASE Type(o) = "INT"
    <2>1. text \in Seq(0 .. 11)
        BY <1>1, <1>3 DEF Inputs, Texts
    <2> QED
        BY <1>3, <2>1, NumberTyped DEF Typed, Values
<1>4. CASE Type(o) = "MSZ"
    BY <1>1, <1>4 DEF Inputs, Typed, Values, apxCRLFToMsz
<1> QED
    BY <1>1, <1>2, <1>3, <1>4

LEMMA EditsTail ==
    ASSUME NEW es, Edits(es), es # <<>>
    PROVE  /\ Edits(Tail(es)) /\ Head(es).opt \in Options /\ Head(es).valid \in BOOLEAN
           /\ Head(es).text \in Inputs(Head(es).opt)
<1> DEFINE S == {es[i] : i \in DOMAIN es}
<1>1. es \in Seq(S)
    BY ListedIn DEF Edits
<1>2. \A e \in S : e.opt \in Options /\ e.text \in Inputs(e.opt) /\ e.valid \in BOOLEAN
    BY DEF Edits
<1> HIDE DEF S
<1>3. PICK t, h : t = Tail(es) /\ h = Head(es)
    OBVIOUS
<1>4. t \in Seq(S) /\ h \in S
    BY <1>1, <1>3
<1>5. Len(t) \in Nat /\ t = [i \in 1 .. Len(t) |-> t[i]] /\ \A i \in DOMAIN t : t[i] \in S
    BY <1>4
<1>6. Edits(t)
    BY <1>2, <1>5 DEF Edits, Listed
<1> QED
    BY <1>2, <1>3, <1>4, <1>6

LEMMA ShowSheet ==
    ASSUME TInv, NEW p \in Procs
    PROVE  TypedSheet(ShowServiceProperties(p)) /\ Fits(ShowServiceProperties(p))
<1>1. TypedSheet(gui[p].sheet) /\ Fits(gui[p].sheet) /\ TypedSheet(Sheet) /\ Fits(Sheet)
    BY ClosedTyped DEF TInv, TypeOK, GuiTyped, TypedGui, SheetsFit
<1> QED
    BY <1>1 DEF ShowServiceProperties

(* A menu or a button: the property sheet opens, applies or closes.         *)
LEMMA SheetTypes ==
    ASSUME TInv, NEW p \in Procs, Choose(p) \/ PushButton(p) \/ PushOk(p) \/ Applied(p) \/ CloseSheet(p)
    PROVE  TInv'
<1>1. UNCHANGED <<sc, svc, dep, reg, remade>> /\ UNCHANGED history
    BY DEF Choose, PushButton, PushOk, Applied, CloseSheet, guiRest, scmOnly, history
<1>2. ControlTyped'
    BY DEF Choose, PushButton, PushOk, Applied, CloseSheet, TInv, TypeOK, ControlTyped, Control, Begin
<1>3. TypedGui(gui[p]) /\ Fits(gui[p].sheet) /\ TypedSheet(gui[p].sheet)
    BY DEF TInv, TypeOK, GuiTyped, TypedGui, SheetsFit
<1>4. ProcTyped'
    <2>1. CASE UNCHANGED proc
        BY <1>1, <2>1, FrameTyped
    <2>2. CASE Goto(p, "quit") /\ (Choose(p) \/ CloseSheet(p))
        <3>1. proc[p].pc \in {"loop", "created"}
            BY <2>2 DEF Choose, CloseSheet, TakesMessages, At
        <3>2. "quit" \in PlacesOf(p)
            BY <3>1, MgrPlace DEF MgrPlaces, TInv, TypeOK
        <3> QED
            BY <1>1, <2>2, <3>2, MovesTyped DEF TInv, TypeOK
    <2> QED
        BY <2>1, <2>2 DEF Choose, PushButton, PushOk, Applied, CloseSheet
<1>5. GuiTyped' /\ SheetsFit'
    <2>1. CASE Choose(p)
        <3>1. PICK s : s = ShowServiceProperties(p) /\ TypedSheet(s) /\ Fits(s)
            BY ShowSheet
        <3>2. PICK g \in {WindowClosed(p), [gui[p] EXCEPT !.menu = {}, !.sheet = s],
                          [gui[p] EXCEPT !.menu = {}, !.sheet = gui[p].sheet]} : gui' = [gui EXCEPT ![p] = g]
            BY <2>1, <3>1 DEF Choose
        <3>3. TypedGui(g) /\ Fits(g.sheet)
            <4>1. PICK c : c = Closed /\ TypedSheet(c) /\ Fits(c)
                BY ClosedTyped
            <4>2. CASE g = WindowClosed(p)
                BY <1>3, <4>1, <4>2 DEF WindowClosed, TypedGui
            <4>3. CASE g = [gui[p] EXCEPT !.menu = {}, !.sheet = s]
                BY <1>3, <3>1, <4>3 DEF TypedGui
            <4>4. CASE g = [gui[p] EXCEPT !.menu = {}, !.sheet = gui[p].sheet]
                BY <1>3, <4>4 DEF TypedGui
            <4> QED
                BY <3>2, <4>2, <4>3, <4>4
        <3> QED
            BY <3>2, <3>3, OneGui DEF TInv, TypeOK
    <2>2. CASE PushButton(p)
        <3>1. UNCHANGED gui
            BY <2>2 DEF PushButton
        <3> QED
            BY <1>1, <3>1, FrameTyped
    <2>3. CASE PushOk(p) \/ Applied(p)
        <3>0. PICK b \in BOOLEAN : gui' = [gui EXCEPT ![p].sheet.ok = b]
            BY <2>3 DEF PushOk, Applied
        <3>1. PICK s, g : s = [gui[p].sheet EXCEPT !.ok = b] /\ g = [gui[p] EXCEPT !.sheet = s]
            OBVIOUS
        <3>2. TypedSheet(s) /\ Fits(s)
            BY <1>3, <3>1 DEF TypedSheet, Fits
        <3>3. TypedGui(g) /\ Fits(g.sheet)
            BY <1>3, <3>1, <3>2 DEF TypedGui
        <3>4. gui' = [gui EXCEPT ![p] = g]
            BY <3>0, <3>1
        <3> QED
            BY <3>3, <3>4, OneGui DEF TInv, TypeOK
    <2>4. CASE CloseSheet(p)
        <3>1. PICK s : s = Closed /\ TypedSheet(s) /\ Fits(s)
            BY ClosedTyped
        <3>2. PICK g : g = [gui[p] EXCEPT !.sheet = s]
            OBVIOUS
        <3>3. TypedGui(g) /\ Fits(g.sheet)
            BY <1>3, <3>1, <3>2 DEF TypedGui
        <3>4. gui' = [gui EXCEPT ![p] = g]
            BY <2>4, <3>1, <3>2 DEF CloseSheet
        <3> QED
            BY <3>3, <3>4, OneGui DEF TInv, TypeOK
    <2> QED
        BY <2>1, <2>2, <2>3, <2>4
<1> QED
    BY <1>1, <1>2, <1>4, <1>5, FrameTyped DEF TInv, TypeOK

(* What the save functions get.                                             *)
LEMMA SavedFields ==
    ASSUME TInv, NEW p \in Procs, NEW page \in gui[p].sheet.bits
    PROVE  \A o \in Options : PageOf(o) = page =>
               o \in DOMAIN gui[p].sheet.fields /\ gui[p].sheet.fields[o] \in Values(o)
<1>1. TypedSheet(gui[p].sheet) /\ Fits(gui[p].sheet)
    BY DEF TInv, TypeOK, GuiTyped, TypedGui, SheetsFit
<1>2. PICK o \in DOMAIN gui[p].sheet.fields : PageOf(o) = page /\ o \in Options
    BY <1>1 DEF TypedSheet, Fits
<1>3. ASSUME NEW q \in Options, PageOf(q) = page PROVE q \in DOMAIN gui[p].sheet.fields
    BY <1>1, <1>2, <1>3, OptionsAre, PagesAre DEF Fits
<1> QED
    BY <1>1, <1>3 DEF TypedSheet

LEMMA SavedTyped ==
    ASSUME TInv, NEW page \in Pages, NEW f,
           \A o \in Options : PageOf(o) = page => f[o] \in Values(o)
    PROVE  TypedRegistry(SavedPage(page, f)) /\ (page = 2 => Account(f) \in Strings)
<1>1. TypedRegistry(reg)
    BY DEF TInv, TypeOK
<1>2. CASE page = 1
    <2>1. f.DisplayName \in Strings /\ f.Startup \in Strings
        BY <1>2, PagesAre, ValuesAre DEF Strs
    <2>2. PICK r : r = IF Present THEN [reg EXCEPT !.val["DisplayName"] = f.DisplayName] ELSE reg
        OBVIOUS
    <2>3. TypedRegistry(r)
        BY <1>1, <2>1, <2>2, SetValue, ValuesAre DEF Strs
    <2>4. SavedPage(page, f) = apxServiceSetOptions(r, Present, f.Startup).reg
        BY <1>2, <2>2 DEF SavedPage, generalPropertySave
    <2> QED
        BY <1>2, <2>1, <2>3, <2>4, SetOptionsTyped
<1>3. CASE page = 2
    <2>1. f.ServiceUser \in Strings
        BY <1>3, PagesAre, ValuesAre DEF Strs
    <2>2. Account(f) \in Strings
        BY <2>1, StringsAre DEF Account
    <2>3. SavedPage(page, f) = apxServiceSetNames(reg, Present, Empty, Account(f)).reg
        BY <1>3 DEF SavedPage, generalLogonSave
    <2> QED
        BY <1>1, <2>2, <2>3, SetNamesTyped, StringsAre
<1>4. CASE page \in 3 .. 6
    <2>1. PICK o \in {"LogLevel", "JvmOptions", "StartMode", "StopTimeout"} : PageOf(o) = page
        BY <1>4, PagesAre
    <2>2. o \in Options /\ f[o] \in Values(o)
        BY <2>1, OptionsAre
    <2>3. PICK w : w = IF f[o] = Empty THEN Null(o) ELSE f[o]
        OBVIOUS
    <2>4. w \in Values(o)
        BY <2>2, <2>3, NullTyped
    <2>5. SavedPage(page, f) \in {[reg EXCEPT !.val[o] = w], [reg EXCEPT !.val[o] = f[o]]}
        <3>1. CASE page = 3
            <4>1. o = "LogLevel"
                BY <2>1, <3>1, PagesAre
            <4> QED
                BY <2>3, <3>1, <4>1 DEF SavedPage, generalLoggingSave, apxRegistrySetStr
        <3>2. CASE page = 4
            <4>1. o = "JvmOptions"
                BY <2>1, <3>2, PagesAre
            <4> QED
                BY <2>3, <3>2, <4>1 DEF SavedPage, generalJvmSave, apxRegistrySetMzStr
        <3>3. CASE page = 5
            <4>1. o = "StartMode"
                BY <2>1, <3>3, PagesAre
            <4> QED
                BY <2>3, <3>3, <4>1 DEF SavedPage, generalStartSave, apxRegistrySetStr
        <3>4. CASE page = 6
            <4>1. o = "StopTimeout"
                BY <2>1, <3>4, PagesAre
            <4> QED
                BY <2>3, <3>4, <4>1 DEF SavedPage, generalStopSave, apxRegistrySetNum
        <3> QED
            BY <1>4, <3>1, <3>2, <3>3, <3>4
    <2> QED
        BY <1>1, <1>4, <2>2, <2>4, <2>5, SetValue
<1> QED
    BY <1>2, <1>3, <1>4 DEF Pages

(* The user turns to a page, types into it, and applies it.                 *)
LEMMA VisitTypes ==
    ASSUME TInv, NEW p \in Procs, VisitPage(p)
    PROVE  TInv'
<1>1. UNCHANGED <<sc, svc, dep, reg, proc, ctl, remade>> /\ UNCHANGED <<asked, overtaken>>
    BY DEF VisitPage, scmOnly
<1>2. TypedGui(gui[p]) /\ Fits(gui[p].sheet) /\ TypedSheet(gui[p].sheet)
    BY DEF TInv, TypeOK, GuiTyped, TypedGui, SheetsFit
<1>3. PICK page, shown : page = PageOf(Head(gui[p].edits).opt) /\ shown = PageIn(p, page).shows
    OBVIOUS
<1>4. page \in Pages
    <2>1. Head(gui[p].edits).opt \in Options
        BY <1>2, EditsTail DEF VisitPage, TypedGui
    <2> QED
        BY <1>3, <2>1, PagesAre
<1>5. Shows(shown, page)
    BY <1>3, <1>4, PageTyped
<1>6. PICK f : f = gui[p].sheet.fields
    OBVIOUS
<1>7. PICK h : h = [o \in DOMAIN f \cup DOMAIN shown |-> IF o \in DOMAIN f THEN f[o] ELSE shown[o]]
    OBVIOUS
<1>8. gui' = [gui EXCEPT ![p].sheet.fields = h] /\ ReadBy(p, DOMAIN shown \ Srv)
    BY <1>3, <1>6, <1>7 DEF VisitPage
<1>9. DOMAIN h \subseteq Options /\ DOMAIN f \subseteq DOMAIN h /\ \A o \in DOMAIN h : h[o] \in Values(o)
    BY <1>2, <1>5, <1>6, <1>7 DEF Shows, TypedSheet
<1>10. "DisplayName" \in DOMAIN h <=> "Startup" \in DOMAIN h
    <2>1. "DisplayName" \in DOMAIN shown <=> "Startup" \in DOMAIN shown
        BY <1>5, OptionsAre, PagesAre DEF Shows
    <2> QED
        BY <1>2, <1>6, <1>7, <2>1 DEF Fits
<1>11. PICK s, g : s = [gui[p].sheet EXCEPT !.fields = h] /\ g = [gui[p] EXCEPT !.sheet = s]
    OBVIOUS
<1>12. TypedSheet(s)
    BY <1>2, <1>6, <1>9, <1>11 DEF TypedSheet
<1>13. Fits(s)
    BY <1>2, <1>10, <1>11 DEF Fits, TypedSheet
<1>14. TypedGui(g) /\ Fits(g.sheet)
    BY <1>2, <1>11, <1>12, <1>13 DEF TypedGui
<1>15. gui' = [gui EXCEPT ![p] = g]
    BY <1>8, <1>11
<1>16. GuiTyped' /\ SheetsFit'
    BY <1>14, <1>15, OneGui DEF TInv, TypeOK
<1>17. HistoryTyped'
    <2>1. behind' \in [Procs -> SUBSET Options]
        BY <1>8 DEF ReadBy, TInv, TypeOK, HistoryTyped
    <2> QED
        BY <1>1, <2>1 DEF TInv, TypeOK, HistoryTyped, TypedVal
<1> QED
    BY <1>1, <1>16, <1>17, FrameTyped DEF TInv, TypeOK

LEMMA EditTypes ==
    ASSUME TInv, NEW p \in Procs, EditField(p)
    PROVE  TInv'
<1>1. UNCHANGED <<sc, svc, dep, reg, proc, ctl, remade>> /\ UNCHANGED history
    BY DEF EditField, guiRest, scmOnly, history
<1>2. TypedGui(gui[p]) /\ Fits(gui[p].sheet) /\ TypedSheet(gui[p].sheet)
    BY DEF TInv, TypeOK, GuiTyped, TypedGui, SheetsFit
<1>3. PICK ed, sheet, page : ed = Head(gui[p].edits) /\ sheet = gui[p].sheet /\ page = PageOf(ed.opt)
    OBVIOUS
<1>4. PICK t, v : t = Tail(gui[p].edits) /\ v = Typed(ed.opt, ed.text)
    OBVIOUS
<1>5. /\ ed.opt \in DOMAIN sheet.fields
      /\ \E bits \in {sheet.bits \ {page}, sheet.bits \cup {page}} :
            gui' = [gui EXCEPT ![p].edits = t,
                               ![p].sheet = [sheet EXCEPT !.fields[ed.opt] = v, !.mine = @ \cup {ed.opt},
                                                          !.valid = ed.valid, !.bits = bits]]
    BY <1>3, <1>4 DEF EditField
<1>6. Edits(t) /\ ed.opt \in Options /\ ed.valid \in BOOLEAN /\ ed.text \in Inputs(ed.opt)
    BY <1>2, <1>3, <1>4, EditsTail DEF EditField, TypedGui
<1>7. v \in Values(ed.opt) /\ page \in Pages
    BY <1>3, <1>4, <1>6, TextTyped, PagesAre
<1>8. PICK bits \in {sheet.bits \ {page}, sheet.bits \cup {page}} :
            gui' = [gui EXCEPT ![p].edits = t,
                               ![p].sheet = [sheet EXCEPT !.fields[ed.opt] = v, !.mine = @ \cup {ed.opt},
                                                          !.valid = ed.valid, !.bits = bits]]
    BY <1>5
<1>9. PICK s : s = [sheet EXCEPT !.fields[ed.opt] = v, !.mine = @ \cup {ed.opt}, !.valid = ed.valid, !.bits = bits]
    OBVIOUS
<1>10. /\ DOMAIN s = {"open", "fields", "bits", "mine", "ok", "valid"}
       /\ s.open = sheet.open /\ s.ok = sheet.ok /\ s.valid = ed.valid
       /\ s.fields = [sheet.fields EXCEPT ![ed.opt] = v] /\ s.bits = bits
       /\ s.mine = sheet.mine \cup {ed.opt}
    BY <1>2, <1>3, <1>9 DEF TypedSheet
<1>11. TypedSheet(s)
    <2>1. DOMAIN s.fields = DOMAIN sheet.fields /\ \A o \in DOMAIN s.fields : s.fields[o] \in Values(o)
        BY <1>2, <1>3, <1>5, <1>7, <1>10 DEF TypedSheet
    <2> QED
        BY <1>2, <1>3, <1>5, <1>6, <1>7, <1>8, <1>10, <2>1 DEF TypedSheet
<1>12. Fits(s)
    <2>1. DOMAIN s.fields = DOMAIN sheet.fields
        BY <1>10
    <2>2. \A b \in s.bits : \E o \in s.mine : PageOf(o) = b
        BY <1>2, <1>3, <1>8, <1>10 DEF Fits
    <2> QED
        BY <1>2, <1>3, <2>1, <2>2 DEF Fits
<1>13. PICK g : g = [gui[p] EXCEPT !.edits = t, !.sheet = s]
    OBVIOUS
<1>14. TypedGui(g) /\ Fits(g.sheet)
    BY <1>2, <1>6, <1>11, <1>12, <1>13 DEF TypedGui
<1>15. gui' = [gui EXCEPT ![p] = g]
    BY <1>8, <1>9, <1>13
<1>16. GuiTyped' /\ SheetsFit'
    BY <1>14, <1>15, OneGui DEF TInv, TypeOK
<1> QED
    BY <1>1, <1>16, FrameTyped DEF TInv, TypeOK

LEMMA FirstPage ==
    ASSUME NEW bits \in SUBSET Pages, bits # {}
    PROVE  (CHOOSE b \in bits : \A c \in bits : b <= c) \in bits
<1>1. bits \subseteq Nat
    BY DEF Pages
<1>2. \E b \in bits : \A c \in bits : b <= c
    BY <1>1, Least
<1> QED
    BY <1>2

(* ApplyPage, with what it looks at by name.                                *)
Applies(p, page) ==
    LET sheet == gui[p].sheet
        f == sheet.fields
        os == {o \in DOMAIN f : PageOf(o) = page}
        works == IF page <= 2 THEN Present ELSE proc[p].key = "open"
        new == [o \in os \cap sheet.mine |-> IF o = "ServiceUser" THEN Account(f) ELSE f[o]]
    IN IF page = 2 /\ ~sheet.valid /\ Account(f) # "LocalSystem"
       THEN gui' = [gui EXCEPT ![p].sheet.ok = FALSE] /\ UNCHANGED <<reg, history>>
       ELSE /\ IF works THEN reg' = SavedPage(page, f) /\ Wrote(p, os, new)
                        ELSE UNCHANGED <<reg, history>>
            /\ gui' = [gui EXCEPT ![p].sheet.bits = @ \ {page},
                                  ![p].refresh = @ \/ (gui[p].ready /\ ~(page = 1 /\ 2 \in sheet.bits)),
                                  ![p].entry.user = IF page = 2 THEN Account(f) ELSE @]

LEMMA ApplyIs ==
    ASSUME TInv, NEW p \in Procs, ApplyPage(p)
    PROVE  /\ \E page \in gui[p].sheet.bits : page \in Pages /\ Applies(p, page)
           /\ gui[p].sheet.ok /\ UNCHANGED <<sc, svc, dep, proc, ctl, remade>>
<1>1. gui[p].sheet.bits \in SUBSET Pages /\ gui[p].sheet.bits # {}
    BY DEF TInv, TypeOK, GuiTyped, TypedGui, TypedSheet, ApplyPage
<1>2. PICK page : page = CHOOSE b \in gui[p].sheet.bits : \A c \in gui[p].sheet.bits : b <= c
    OBVIOUS
<1>3. page \in gui[p].sheet.bits /\ page \in Pages
    BY <1>1, <1>2, FirstPage
<1>4. Applies(p, page)
    BY <1>2 DEF ApplyPage, Applies
<1> QED
    BY <1>3, <1>4 DEF ApplyPage, scmOnly

LEMMA ApplyTypes ==
    ASSUME TInv, NEW p \in Procs, ApplyPage(p)
    PROVE  TInv'
<1>1. UNCHANGED <<sc, svc, dep, proc, ctl, remade>>
    BY ApplyIs
<1>2. PICK page \in gui[p].sheet.bits : page \in Pages /\ Applies(p, page)
    BY ApplyIs
<1>3. TypedGui(gui[p]) /\ Fits(gui[p].sheet) /\ TypedSheet(gui[p].sheet)
    BY DEF TInv, TypeOK, GuiTyped, TypedGui, SheetsFit
<1>4. PICK f, sheet : f = gui[p].sheet.fields /\ sheet = gui[p].sheet
    OBVIOUS
<1>5. \A o \in Options : PageOf(o) = page => o \in DOMAIN f /\ f[o] \in Values(o)
    BY <1>4, SavedFields
<1>6. TypedRegistry(SavedPage(page, f)) /\ (page = 2 => Account(f) \in Strings)
    BY <1>2, <1>5, SavedTyped
<1>7. PICK os : os = {o \in DOMAIN f : PageOf(o) = page}
    OBVIOUS
<1>8. PICK new : new = [o \in os \cap sheet.mine |-> IF o = "ServiceUser" THEN Account(f) ELSE f[o]]
    OBVIOUS
<1>9. TypedRegistry(reg')
    BY <1>2, <1>4, <1>6 DEF Applies, TInv, TypeOK
<1>10. HistoryTyped'
    <2>1. os \in SUBSET Options
        BY <1>3, <1>4, <1>7 DEF TypedSheet
    <2>2. ASSUME NEW o \in DOMAIN new PROVE new[o] \in Values(o)
        <3>1. o \in os /\ o \in Options /\ PageOf(o) = page
            BY <1>7, <1>8, <2>1, <2>2
        <3>2. f[o] \in Values(o) /\ new[o] = IF o = "ServiceUser" THEN Account(f) ELSE f[o]
            BY <1>5, <1>8, <2>2, <3>1
        <3>3. o = "ServiceUser" => Account(f) \in Values(o)
            BY <1>6, <3>1, PagesAre, ValuesAre DEF Strs
        <3> QED
            BY <3>2, <3>3
    <2>3. (UNCHANGED history) \/ Wrote(p, os, new)
        BY <1>2, <1>4, <1>7, <1>8 DEF Applies
    <2>4. ASSUME Wrote(p, os, new) PROVE HistoryTyped'
        BY <1>1, <2>1, <2>2, <2>4, WroteTyped DEF TInv, TypeOK
    <2> QED
        BY <1>1, <2>3, <2>4, FrameTyped
<1>11. GuiTyped' /\ SheetsFit'
    <2>1. CASE gui' = [gui EXCEPT ![p].sheet.ok = FALSE]
        <3>1. PICK s, g : s = [sheet EXCEPT !.ok = FALSE] /\ g = [gui[p] EXCEPT !.sheet = s]
            OBVIOUS
        <3>2. TypedSheet(s) /\ Fits(s)
            BY <1>3, <1>4, <3>1 DEF TypedSheet, Fits
        <3>3. TypedGui(g) /\ Fits(g.sheet)
            BY <1>3, <3>1, <3>2 DEF TypedGui
        <3>4. gui' = [gui EXCEPT ![p] = g]
            BY <1>4, <2>1, <3>1
        <3> QED
            BY <3>3, <3>4, OneGui DEF TInv, TypeOK
    <2>2. CASE gui' # [gui EXCEPT ![p].sheet.ok = FALSE]
        <3>1. PICK b \in BOOLEAN : b = (gui[p].refresh \/ (gui[p].ready /\ ~(page = 1 /\ 2 \in sheet.bits)))
            BY <1>3 DEF TypedGui
        <3>2. PICK u : u = IF page = 2 THEN Account(f) ELSE gui[p].entry.user
            OBVIOUS
        <3>3. gui' = [gui EXCEPT ![p].sheet.bits = @ \ {page}, ![p].refresh = b, ![p].entry.user = u]
            BY <1>2, <1>4, <2>2, <3>1, <3>2 DEF Applies
        <3>4. PICK s, e : /\ s = [sheet EXCEPT !.bits = @ \ {page}]
                          /\ e = [gui[p].entry EXCEPT !.user = u]
            OBVIOUS
        <3>5. TypedSheet(s) /\ Fits(s)
            BY <1>3, <1>4, <3>4 DEF TypedSheet, Fits
        <3>6. e \in [state : States, display : Strings, start : Strings, user : Strings]
            BY <1>3, <1>6, <3>2, <3>4 DEF TypedGui
        <3>7. PICK g : g = [gui[p] EXCEPT !.sheet = s, !.refresh = b, !.entry = e]
            OBVIOUS
        <3>8. TypedGui(g) /\ Fits(g.sheet)
            BY <1>3, <3>5, <3>6, <3>7 DEF TypedGui
        <3>9. gui' = [gui EXCEPT ![p] = g]
            BY <1>4, <3>3, <3>4, <3>7
        <3> QED
            BY <3>8, <3>9, OneGui DEF TInv, TypeOK
    <2> QED
        BY <2>1, <2>2
<1> QED
    BY <1>1, <1>9, <1>10, <1>11, FrameTyped DEF TInv, TypeOK, TypedRegistry

(* The type invariant holds at first, and every step keeps it.              *)
LEMMA InitTypes == Init => TInv
<1> SUFFICES ASSUME Init PROVE TInv
    OBVIOUS
<1>1. sc \in Scenarios /\ \A s \in Scenarios : {s.there, s.running, s.dep} \subseteq BOOLEAN
    BY ScenariosAssumption DEF Init
<1>2. ServiceTyped
    BY <1>1 DEF Init, ServiceTyped, States
<1>3. TypedRegistry(reg)
    <2>1. TypedRegistry(apxServiceInstall(EmptyRegistry, "svc", "manual"))
        BY EmptyTyped, InstallTyped, StringsAre
    <2>2. PICK r : r = apxServiceInstall(EmptyRegistry, "svc", "manual")
        OBVIOUS
    <2>3. reg = EmptyRegistry \/ reg = [r EXCEPT !.root = TRUE, !.sub = TRUE]
        BY <2>2 DEF Init
    <2>4. TypedRegistry([r EXCEPT !.root = TRUE, !.sub = TRUE])
        BY <2>1, <2>2 DEF TypedRegistry
    <2> QED
        BY <2>3, <2>4, EmptyTyped
<1>4. \A p \in Procs : WellFormed(Job(p))
    BY <1>2, JobIs
<1>5. ProcTyped
    <2>1. TypedOptions(NoOptions)
        BY NoOptionsTyped, OptionSetTyped
    <2>2. ASSUME NEW p \in Procs PROVE TypedProc(p, proc[p])
        <3>1. PICK l : l = IF Is(p, "none") THEN "done" ELSE "start"
            OBVIOUS
        <3>2. Job(p).prog \in {"none", "prunsrv", "prunmgr"}
            BY <1>4 DEF WellFormed
        <3>3. l \in PlacesOf(p)
            BY <3>1, <3>2 DEF PlacesOf, Is, SrvPlaces, MgrPlaces
        <3>4. proc[p] = [pc |-> l, index |-> 0, line |-> NoOptions, os |-> NoOptions, service |-> FALSE,
                         key |-> "none", todo |-> {}, mutex |-> FALSE]
            BY <3>1 DEF Init
        <3> QED
            BY <2>1, <3>3, <3>4 DEF TypedProc
    <2> QED
        BY <2>2 DEF Init, ProcTyped
<1>6. ControlTyped
    BY DEF Init, ControlTyped, Idle
<1>7. GuiTyped /\ SheetsFit
    <2>1. ASSUME NEW p \in Procs PROVE TypedGui(gui[p]) /\ Fits(gui[p].sheet)
        <3>1. gui[p] = [NoGui EXCEPT !.edits = Job(p).edits]
            BY DEF Init
        <3>2. Edits(Job(p).edits)
            BY <1>4 DEF WellFormed
        <3>3. PICK n : n = NoGui /\ TypedGui(n) /\ Fits(n.sheet)
            BY NoGuiTyped
        <3> QED
            BY <3>1, <3>2, <3>3 DEF TypedGui
    <2> QED
        BY <2>1 DEF Init, GuiTyped, SheetsFit
<1>8. HistoryTyped
    BY <1>3 DEF Init, HistoryTyped, TypedRegistry
<1> QED
    BY <1>2, <1>3, <1>5, <1>6, <1>7, <1>8 DEF TInv, TypeOK

LEMMA StepTypes == TInv /\ [Next]_vars => TInv'
<1> SUFFICES ASSUME TInv, [Next]_vars PROVE TInv'
    OBVIOUS
<1>1. CASE UNCHANGED vars
    <2>1. UNCHANGED <<sc, svc, dep, reg, proc, ctl, gui, remade>> /\ UNCHANGED history
        BY <1>1 DEF vars, history
    <2> QED
        BY <2>1, FrameTyped DEF TInv, TypeOK
<1>2. ASSUME NEW p \in Procs, Prunsrv(p) PROVE TInv'
    BY <1>2, MainTypes, LoadTypes, CommandTypes, NamesTypes, KeysTypes, SaveTypes, InstallTypes, OtherTypes,
       DeleteTypes DEF Prunsrv
<1>3. ASSUME NEW p \in Procs, MainThread(p) PROVE TInv'
    BY <1>3, WinMainTypes, OtherTypes, WindowTypes, KeysTypes, ApplyTypes DEF MainThread
<1>4. ASSUME NEW p \in Procs, Messages(p) \/ Callback(p) \/ refreshThread(p) PROVE TInv'
    BY <1>4, MessageTypes DEF Messages, Callback
<1>5. ASSUME NEW p \in Procs, User(p) PROVE TInv'
    BY <1>5, MessageTypes, SheetTypes, VisitTypes, EditTypes DEF User
<1> QED
    BY <1>1, <1>2, <1>3, <1>4, <1>5, ServiceTypes, WorkerTypes DEF Next

LEMMA AlwaysTyped == Spec => []TInv
BY InitTypes, StepTypes, PTL DEF Spec

(* Every variable has its type in every reachable state, whatever the       *)
(* arguments, the environment and the edits of the scenarios: an option     *)
(* holds a value of its kind wherever parse, the registry and the pages     *)
(* take it from, a number fits its width, a window has the fields of its    *)
(* page.                                                                    *)
THEOREM TypeCorrect == Spec => []TypeOK
<1>1. TInv => TypeOK
    BY DEF TInv
<1> QED
    BY <1>1, AlwaysTyped, PTL

------------------------------------------------------------------------------
(* What is stored is what was meant: what each process knows of the options,*)
(* and that every write is of what it was told, or of what is there.        *)

(* Where prunsrv has not read the registry yet.                             *)
Unread == {"start", "load"}

(* What a prunsrv process p holds of option o: what it was given, with what *)
(* it read of a list it continues and of a display name it was not given.   *)
Knows(p, o) ==
    LET os == proc[p].os[o]
        line == proc[p].line[o]
    IN /\ os.found = line.found /\ os.add = line.add
       /\ os.found /\ ~Builds(p, o) => os.val = line.val
       /\ proc[p].pc \in Unread => os.val = line.val
       /\ o \notin behind[p] /\ os.found /\ Builds(p, o) =>
             os.val = Readable(reg.val[o]) \o Readable(line.val)
       /\ o \notin behind[p] /\ ~os.found /\ o = "DisplayName" => os.val = reg.val[o]
SrvKnows == \A p \in Procs : Is(p, "prunsrv") =>
    /\ \A o \in Options : Knows(p, o)
    /\ proc[p].pc \in Unread => behind[p] = Options /\ proc[p].todo = {}
    /\ \A o \in proc[p].todo : proc[p].os[o].found

(* A prunmgr has in its entry what is stored, as long as it is not behind.  *)
Cached == {"DisplayName", "Startup"}
EntryOf(p, o) == IF o = "DisplayName" THEN gui[p].entry.display ELSE gui[p].entry.start
MgrKnows == \A p \in Procs : Is(p, "prunmgr") =>
    /\ \A o \in Options : ~proc[p].os[o].add
    /\ \A o \in Cached : o \notin behind[p] /\ proc[p].pc # "done" => EntryOf(p, o) = reg.val[o]

(* Its sheet is open while it runs; the fields of the first page are from   *)
(* the entry where the user has not typed, and a page that is to be saved   *)
(* has something of the user's.                                             *)
Running == {"created", "loop"}
SheetOpen == \A p \in Procs : IF gui[p].sheet.open THEN proc[p].pc \in Running ELSE gui[p].sheet = Closed
Meaning(p, s) ==
    /\ \A o \in Cached : o \in DOMAIN s.fields \ s.mine => s.fields[o] = EntryOf(p, o)
    /\ "Startup" \in s.mine => s.fields["Startup"] \in Startups
SheetMeant == \A p \in Procs : Meaning(p, gui[p].sheet)

(* The invariant: what is stored was meant, and what that needs.            *)
CInv == TInv /\ SrvKnows /\ MgrKnows /\ SheetOpen /\ SheetMeant /\ ConfigurationIsMeant

(* What most steps do to a process: it knows what it knew.                  *)
ProcKeeps(q) ==
    /\ proc'[q].line = proc[q].line /\ proc'[q].os = proc[q].os
    /\ proc'[q].pc \in Unread => proc[q].pc \in Unread /\ proc'[q].todo = proc[q].todo
    /\ proc'[q].pc # "done" => proc[q].pc # "done"
    /\ proc'[q].todo \subseteq proc[q].todo \cup ToSave(proc[q].os)
EntryKeeps(q) == gui'[q].entry.display = gui[q].entry.display /\ gui'[q].entry.start = gui[q].entry.start
Changed(os) == /\ \A o \in Options \ os : reg'.val[o] = reg.val[o]
               /\ \A q \in Procs : behind'[q] = behind[q] \cup os

(* Who knows of a change, or was behind already, knows what it knew.        *)
LEMMA KnowledgeKept ==
    ASSUME TInv, SrvKnows, MgrKnows, UNCHANGED sc, NEW os \in SUBSET Options, Changed(os),
           \A q \in Procs : ProcKeeps(q) /\ (EntryKeeps(q) \/ proc'[q].pc = "done")
    PROVE  SrvKnows' /\ MgrKnows'
<1>1. \A q \in Procs : \A prog : Is(q, prog)' = Is(q, prog)
    BY PlacesStay
<1>2. SrvKnows'
    <2> SUFFICES ASSUME NEW p \in Procs, Is(p, "prunsrv")
                 PROVE  /\ \A o \in Options : Knows(p, o)'
                        /\ proc'[p].pc \in Unread => behind'[p] = Options /\ proc'[p].todo = {}
                        /\ \A o \in proc'[p].todo : proc'[p].os[o].found
        BY <1>1 DEF SrvKnows
    <2>1. ASSUME NEW o \in Options PROVE Knows(p, o)'
        <3>1. Knows(p, o)
            BY DEF SrvKnows
        <3>2. Builds(p, o)' = Builds(p, o)
            BY DEF ProcKeeps, Builds
        <3>3. o \notin behind'[p] => o \notin behind[p] /\ reg'.val[o] = reg.val[o]
            BY DEF Changed
        <3> QED
            BY <3>1, <3>2, <3>3 DEF Knows, ProcKeeps
    <2>2. proc'[p].pc \in Unread => behind'[p] = Options /\ proc'[p].todo = {}
        <3>1. ASSUME behind[p] = Options PROVE behind'[p] = Options
            <4>1. behind'[p] = behind[p] \cup os
                BY DEF Changed
            <4> QED
                BY <3>1, <4>1
        <3>2. proc[p].pc \in Unread => behind[p] = Options /\ proc[p].todo = {}
            BY DEF SrvKnows
        <3>3. proc'[p].pc \in Unread => proc[p].pc \in Unread /\ proc'[p].todo = proc[p].todo
            BY DEF ProcKeeps
        <3> QED
            BY <3>1, <3>2, <3>3
    <2>3. ASSUME NEW o \in proc'[p].todo PROVE proc'[p].os[o].found
        BY DEF SrvKnows, ProcKeeps, ToSave
    <2> QED
        BY <2>1, <2>2, <2>3
<1>3. MgrKnows'
    <2> SUFFICES ASSUME NEW p \in Procs, Is(p, "prunmgr")
                 PROVE  /\ \A o \in Options : ~proc'[p].os[o].add
                        /\ \A o \in Cached : o \notin behind'[p] /\ proc'[p].pc # "done" =>
                                EntryOf(p, o)' = reg'.val[o]
        BY <1>1 DEF MgrKnows
    <2>1. \A o \in Options : ~proc'[p].os[o].add
        BY DEF MgrKnows, ProcKeeps
    <2>2. ASSUME NEW o \in Cached, o \notin behind'[p], proc'[p].pc # "done"
          PROVE  EntryOf(p, o)' = reg'.val[o]
        <3>1. o \notin behind[p] /\ o \in Options \ os /\ proc[p].pc # "done"
            BY <2>2, OptionsAre DEF Changed, Cached, ProcKeeps
        <3>2. EntryOf(p, o) = reg.val[o] /\ reg'.val[o] = reg.val[o]
            BY <2>2, <3>1 DEF MgrKnows, Changed
        <3>3. EntryOf(p, o)' = EntryOf(p, o)
            BY <2>2 DEF EntryKeeps, EntryOf
        <3> QED
            BY <3>2, <3>3
    <2> QED
        BY <2>1, <2>2
<1> QED
    BY <1>2, <1>3

(* The sheet of q shows what it showed, or is closed.                       *)
SheetKeeps(q) ==
    LET s == gui[q].sheet
        t == gui'[q].sheet
    IN t = s \/ (s.open /\ t.open /\ t.fields = s.fields /\ t.mine = s.mine)

LEMMA BareSheet ==
    /\ Closed.mine = {} /\ DOMAIN Closed.fields = {} /\ Closed.open = FALSE
    /\ Sheet.mine = {} /\ DOMAIN Sheet.fields = {} /\ Sheet.open = TRUE
<1>1. PICK f : f = <<>>
    OBVIOUS
<1>2. DOMAIN f = {}
    BY <1>1
<1>3. Closed = [open |-> FALSE, fields |-> f, bits |-> {}, mine |-> {}, ok |-> FALSE, valid |-> TRUE]
    BY <1>1 DEF Closed
<1>4. PICK c : c = Closed
    OBVIOUS
<1>5. DOMAIN c.fields = {} /\ c.mine = {} /\ c.open = FALSE
    BY <1>2, <1>3, <1>4
<1>6. Sheet = [c EXCEPT !.open = TRUE]
    BY <1>4 DEF Sheet
<1>7. Sheet.mine = {} /\ DOMAIN Sheet.fields = {} /\ Sheet.open = TRUE
    <2>1. c = [open |-> FALSE, fields |-> f, bits |-> {}, mine |-> {}, ok |-> FALSE, valid |-> TRUE]
        BY <1>3, <1>4
    <2>2. PICK e : e = [c EXCEPT !.open = TRUE]
        OBVIOUS
    <2>3. e.mine = {} /\ e.fields = f /\ e.open = TRUE
        BY <2>1, <2>2
    <2> QED
        BY <1>2, <1>6, <2>2, <2>3
<1> QED
    BY <1>4, <1>5, <1>7

LEMMA SheetsKept ==
    ASSUME SheetOpen, SheetMeant,
           \A q \in Procs : \/ gui'[q].sheet = Closed
                            \/ gui'[q].sheet = Sheet /\ proc'[q].pc \in Running
                            \/ SheetKeeps(q) /\ EntryKeeps(q) /\ (proc[q].pc \in Running => proc'[q].pc \in Running)
    PROVE  SheetOpen' /\ SheetMeant'
<1> SUFFICES ASSUME NEW q \in Procs
             PROVE  /\ IF gui'[q].sheet.open THEN proc'[q].pc \in Running ELSE gui'[q].sheet = Closed
                    /\ Meaning(q, gui[q].sheet)'
    BY DEF SheetOpen, SheetMeant
<1>1. ASSUME NEW s \in {Closed, Sheet}
      PROVE  s.mine = {} /\ DOMAIN s.fields = {} /\ (s = Closed => ~s.open) /\ (s = Sheet => s.open)
    BY BareSheet
<1>2. CASE gui'[q].sheet = Closed
    <2>1. PICK s : s = gui'[q].sheet
        OBVIOUS
    <2>2. s.mine = {} /\ DOMAIN s.fields = {} /\ ~s.open /\ s = Closed
        BY <1>1, <1>2, <2>1
    <2>3. Meaning(q, gui[q].sheet)'
        BY <2>1, <2>2 DEF Meaning
    <2> QED
        BY <2>1, <2>2, <2>3
<1>3. CASE gui'[q].sheet = Sheet /\ proc'[q].pc \in Running
    <2>1. PICK s : s = gui'[q].sheet
        OBVIOUS
    <2>2. s.mine = {} /\ DOMAIN s.fields = {} /\ s.open
        BY <1>1, <1>3, <2>1
    <2>3. Meaning(q, gui[q].sheet)'
        BY <2>1, <2>2 DEF Meaning
    <2> QED
        BY <1>3, <2>1, <2>2, <2>3
<1>4. CASE SheetKeeps(q) /\ EntryKeeps(q) /\ (proc[q].pc \in Running => proc'[q].pc \in Running)
    <2>1. IF gui'[q].sheet.open THEN proc'[q].pc \in Running ELSE gui'[q].sheet = Closed
        BY <1>4 DEF SheetOpen, SheetKeeps
    <2>2. \A o : EntryOf(q, o)' = EntryOf(q, o)
        BY <1>4 DEF EntryKeeps, EntryOf
    <2>3. gui'[q].sheet.fields = gui[q].sheet.fields /\ gui'[q].sheet.mine = gui[q].sheet.mine
        BY <1>4 DEF SheetKeeps
    <2>4. Meaning(q, gui[q].sheet)'
        BY <2>2, <2>3 DEF SheetMeant, Meaning
    <2> QED
        BY <2>1, <2>4
<1> QED
    BY <1>2, <1>3, <1>4

(* Where nothing is written what is stored is still what was meant.         *)
LEMMA MeantKept ==
    ASSUME ConfigurationIsMeant, \A o \in Options : reg'.val[o] = reg.val[o], UNCHANGED <<asked, overtaken>>
    PROVE  ConfigurationIsMeant'
BY DEF ConfigurationIsMeant, Same

(* A write of what was meant, or of what is there already, or of what is    *)
(* known to be out of date.                                                 *)
Right(p, o, new) ==
    IF o \in DOMAIN new THEN \/ Same(o, reg'.val[o], new[o])
                             \/ Builds(p, o) /\ o \in behind[p] \cup overtaken
    ELSE /\ ~Builds(p, o)
         /\ \/ reg'.val[o] = reg.val[o]
            \/ o \in behind[p] /\ (Is(p, "prunmgr") \/ o = "DisplayName")

LEMMA WroteMeant ==
    ASSUME TInv, ConfigurationIsMeant, NEW p \in Procs, NEW os \in SUBSET Options, NEW new,
           DOMAIN new \subseteq os, Wrote(p, os, new), \A o \in Options \ os : reg'.val[o] = reg.val[o],
           \A o \in os : Right(p, o, new)
    PROVE  ConfigurationIsMeant' /\ Changed(os)
<1>1. ASSUME NEW o \in Options, o \notin overtaken' PROVE Same(o, reg'.val[o], asked'[o])
    <2>1. CASE o \notin os
        BY <1>1, <2>1 DEF Wrote, ConfigurationIsMeant, Same
    <2>2. CASE o \in DOMAIN new
        <3>1. asked'[o] = new[o]
            BY <2>2 DEF Wrote
        <3>2. ~(Builds(p, o) /\ o \in behind[p] \cup overtaken)
            BY <1>1, <2>2 DEF Wrote
        <3> QED
            BY <2>2, <3>1, <3>2 DEF Right
    <2>3. CASE o \in os \ DOMAIN new
        <3>1. asked'[o] = asked[o] /\ o \notin overtaken
            BY <1>1, <2>3 DEF Wrote
        <3>2. ~(o \in behind[p] /\ (Is(p, "prunmgr") \/ o = "DisplayName"))
            BY <1>1, <2>3 DEF Wrote
        <3>3. reg'.val[o] = reg.val[o]
            BY <2>3, <3>2 DEF Right
        <3> QED
            BY <3>1, <3>3 DEF ConfigurationIsMeant, Same
    <2> QED
        BY <2>1, <2>2, <2>3
<1>2. ConfigurationIsMeant'
    BY <1>1 DEF ConfigurationIsMeant, Same
<1>3. Changed(os)
    BY DEF Changed, Wrote, Change
<1> QED
    BY <1>2, <1>3

(* What a step does to a process that only goes on.                         *)
SheetFollows(q) ==
    \/ gui'[q].sheet = Closed
    \/ gui'[q].sheet = Sheet /\ proc'[q].pc \in Running
    \/ SheetKeeps(q) /\ EntryKeeps(q) /\ (proc[q].pc \in Running => proc'[q].pc \in Running)
GoesOn(q) == ProcKeeps(q) /\ (EntryKeeps(q) \/ proc'[q].pc = "done") /\ SheetFollows(q)
Quiet == UNCHANGED history /\ \A o \in Options : reg'.val[o] = reg.val[o]

LEMMA QuietKept ==
    ASSUME CInv, TInv', UNCHANGED sc, Quiet, \A q \in Procs : GoesOn(q)
    PROVE  CInv'
<1>1. Changed({}) /\ {} \in SUBSET Options
    BY DEF Changed, Quiet, history
<1>2. \A q \in Procs : ProcKeeps(q) /\ (EntryKeeps(q) \/ proc'[q].pc = "done")
    BY DEF GoesOn
<1>3. SrvKnows' /\ MgrKnows'
    BY <1>1, <1>2, KnowledgeKept DEF CInv
<1>4. SheetOpen' /\ SheetMeant'
    BY SheetsKept DEF CInv, GoesOn, SheetFollows
<1>5. ConfigurationIsMeant'
    BY MeantKept DEF CInv, Quiet, history
<1> QED
    BY <1>3, <1>4, <1>5 DEF CInv

(* A thread beside the main one, or the user, changes the entry's state at  *)
(* most.                                                                    *)
LEMMA AsideKept ==
    ASSUME CInv, TInv', NEW p \in Procs,
           \/ Worker(p) \/ refreshThread(p) \/ Refresh(p) \/ PostedStart(p) \/ Callback(p) \/ RightButton(p)
           \/ PushButton(p) \/ PushOk(p) \/ Applied(p)
    PROVE  CInv'
<1>1. UNCHANGED <<sc, reg, proc>> /\ UNCHANGED history
    BY DEF Worker, apxServiceControl, apxStopDependentServices, ControlService, PollStatus, FinalStatus,
           controlRest, refreshThread, Refresh, PostedStart, Callback, startServiceCallback,
           stopServiceCallback, RightButton, PushButton, PushOk, Applied, guiRest, scmOnly, history
<1>2. DOMAIN gui = Procs /\ TypedGui(gui[p])
    BY DEF CInv, TInv, TypeOK, GuiTyped
<1>3. \A q \in Procs : EntryKeeps(q) /\ SheetKeeps(q)
    BY <1>2 DEF Worker, apxServiceControl, apxStopDependentServices, ControlService, PollStatus, FinalStatus,
           controlRest, refreshThread, Refresh, PostedStart, Callback, startServiceCallback,
           stopServiceCallback, RightButton, PushButton, PushOk, Applied, Editing, EntryKeeps, SheetKeeps,
           StateOf, TypedGui, TypedSheet
<1>4. \A q \in Procs : ProcKeeps(q)
    BY <1>1 DEF ProcKeeps
<1> QED
    BY <1>1, <1>3, <1>4, QuietKept DEF GoesOn, SheetFollows, Quiet

(* p goes on and writes nothing: all know what they knew.                   *)
LEMMA OneGoes ==
    ASSUME ProcTyped, NEW p \in Procs, proc[p].pc # "done", NEW x, proc' = [proc EXCEPT ![p] = x],
           x.line = proc[p].line, x.os = proc[p].os, x.pc \notin Unread,
           x.todo \subseteq proc[p].todo \cup ToSave(proc[p].os)
    PROVE  \A q \in Procs : ProcKeeps(q)
<1>1. \A q \in Procs \ {p} : proc'[q] = proc[q]
    BY DEF ProcTyped
<1>2. proc'[p] = x
    BY DEF ProcTyped
<1> QED
    BY <1>1, <1>2 DEF ProcKeeps

LEMMA Goes ==
    ASSUME ProcTyped, NEW p \in Procs, proc[p].pc # "done", NEW l, l \notin Unread, Goto(p, l) \/ Close(p, l)
    PROVE  \A q \in Procs : ProcKeeps(q)
<1>1. TypedProc(p, proc[p])
    BY DEF ProcTyped
<1>2. CASE Goto(p, l)
    <2>1. PICK x : x = [proc[p] EXCEPT !.pc = l]
        OBVIOUS
    <2>2. proc' = [proc EXCEPT ![p] = x]
        BY <1>2, <2>1 DEF Goto
    <2>3. x.line = proc[p].line /\ x.os = proc[p].os /\ x.pc = l /\ x.todo = proc[p].todo
        BY <1>1, <2>1 DEF TypedProc
    <2> QED
        BY <2>2, <2>3, OneGoes
<1>3. CASE Close(p, l)
    <2>1. PICK x : x = [proc[p] EXCEPT !.pc = l, !.service = FALSE]
        OBVIOUS
    <2>2. proc' = [proc EXCEPT ![p] = x]
        BY <1>3, <2>1 DEF Close
    <2>3. x.line = proc[p].line /\ x.os = proc[p].os /\ x.pc = l /\ x.todo = proc[p].todo
        BY <1>1, <2>1 DEF TypedProc
    <2> QED
        BY <2>2, <2>3, OneGoes
<1> QED
    BY <1>2, <1>3

(* The service, and the steps of prunsrv that write nothing.                *)
LEMMA ServiceKept ==
    ASSUME CInv, TInv', ServiceChanges \/ ServiceEnds
    PROVE  CInv'
<1>1. UNCHANGED <<sc, reg, proc, gui>> /\ UNCHANGED history
    BY DEF ServiceChanges, ServiceEnds, service, history
<1>2. \A q \in Procs : ProcKeeps(q) /\ EntryKeeps(q) /\ SheetKeeps(q)
    BY <1>1 DEF ProcKeeps, EntryKeeps, SheetKeeps
<1> QED
    BY <1>1, <1>2, QuietKept DEF GoesOn, SheetFollows, Quiet

LEMMA StillGoes ==
    ASSUME CInv, TInv', UNCHANGED <<sc, reg, gui>>, UNCHANGED history,
           \A q \in Procs : ProcKeeps(q) /\ (proc[q].pc \in Running => proc'[q].pc \in Running)
    PROVE  CInv'
BY QuietKept DEF GoesOn, SheetFollows, Quiet, SheetKeeps, EntryKeeps

(* Only p goes on, and has no sheet.                                        *)
LEMMA OneStill ==
    ASSUME CInv, TInv', UNCHANGED <<sc, reg, gui>>, UNCHANGED history, NEW p \in Procs, proc[p].pc \notin Running,
           \A q \in Procs \ {p} : proc'[q] = proc[q], \A q \in Procs : ProcKeeps(q)
    PROVE  CInv'
BY StillGoes

(* Steps that look at the command line, the service or the mutex, and write *)
(* nothing.                                                                 *)
LEMMA CommandKept ==
    ASSUME CInv, TInv', NEW p \in Procs,
           \/ docmdStartService(p) \/ docmdStopService(p) \/ Controlled(p) \/ docmdUpdateService(p)
           \/ Saved(p) \/ docmdDeleteService(p) \/ apxServiceDelete(p) \/ DeleteService(p)
           \/ TakeMutex(p) \/ Answered(p) \/ CloseMutex(p)
    PROVE  CInv'
<1>1. UNCHANGED <<sc, reg, gui>> /\ UNCHANGED history
    BY DEF docmdStartService, docmdStopService, docmdControl, Controlled, docmdUpdateService, Saved,
           docmdDeleteService, apxServiceDelete, DeleteService, scm, history, TakeMutex, Answered, CloseMutex,
           scmOnly
<1>2. proc[p].pc \in {"open", "control", "saving", "query", "delete", "mutex", "asked", "quit"}
    BY DEF docmdStartService, docmdStopService, docmdControl, Controlled, docmdUpdateService, Saved,
           docmdDeleteService, apxServiceDelete, DeleteService, At, TakeMutex, Answered, CloseMutex
<1>3. ProcTyped
    BY DEF CInv, TInv, TypeOK
<1>4. \E x : /\ proc' = [proc EXCEPT ![p] = x]
             /\ x.line = proc[p].line /\ x.os = proc[p].os /\ x.todo = proc[p].todo /\ x.pc \notin Unread
    <2>1. DOMAIN proc = Procs /\ TypedProc(p, proc[p])
        BY <1>3 DEF ProcTyped
    <2>2. proc' = [proc EXCEPT ![p] = proc'[p]]
        BY <2>1 DEF docmdStartService, docmdStopService, docmdControl, Controlled, docmdUpdateService, Saved,
           docmdDeleteService, apxServiceDelete, DeleteService, TakeMutex, Answered, CloseMutex, Goto, Close, Opened
    <2>3. /\ proc'[p].line = proc[p].line /\ proc'[p].os = proc[p].os /\ proc'[p].todo = proc[p].todo
          /\ proc'[p].pc \notin Unread
        BY <2>1 DEF docmdStartService, docmdStopService, docmdControl, Controlled, docmdUpdateService, Saved,
           docmdDeleteService, apxServiceDelete, DeleteService, TakeMutex, Answered, CloseMutex, Goto, Close,
           Opened, TypedProc, Unread
    <2> QED
        BY <2>2, <2>3
<1>5. \A q \in Procs : ProcKeeps(q)
    BY <1>2, <1>3, <1>4, OneGoes
<1>6. \A q \in Procs \ {p} : proc'[q] = proc[q]
    BY <1>3, <1>4 DEF ProcTyped
<1> QED
    BY <1>1, <1>2, <1>5, <1>6, OneStill DEF Running

(* The windows.                                                             *)
LEMMA WindowsKept ==
    ASSUME CInv, TInv', UNCHANGED <<sc, reg>>, UNCHANGED history, \A q \in Procs : GoesOn(q)
    PROVE  CInv'
BY QuietKept DEF Quiet

LEMMA OtherKept ==
    ASSUME CInv, TInv', NEW p \in Procs, CloseMonitor(p) \/ QuitOther(p)
    PROVE  CInv'
<1>1. UNCHANGED <<sc, reg>> /\ UNCHANGED history
    BY DEF CloseMonitor, QuitOther, scmOnly, history
<1>2. PICK l \in {"query", "quit"} : CloseOther(p, l)
    BY DEF CloseMonitor, QuitOther
<1>3. ProcTyped /\ GuiTyped
    BY DEF CInv, TInv, TypeOK
<1>4. proc[p].pc \in {"closeMonitor", "quitOther"}
    BY DEF CloseMonitor, QuitOther, At
<1>5. CASE Goto(p, l) /\ UNCHANGED gui
    <2>1. \A q \in Procs : ProcKeeps(q)
        BY <1>3, <1>4, <1>5, Goes DEF Unread
    <2>2. \A q \in Procs \ {p} : proc'[q] = proc[q]
        BY <1>3, <1>5 DEF Goto, ProcTyped
    <2> QED
        BY <1>1, <1>4, <1>5, <2>1, <2>2, OneStill DEF Running
<1>6. ASSUME NEW q \in Procs, TakesMessages(q), gui' = [gui EXCEPT ![q] = WindowClosed(q)],
             proc' = [proc EXCEPT ![p].pc = l, ![q].pc = "quit"]
      PROVE  CInv'
    <2>1. DOMAIN proc = Procs /\ DOMAIN gui = Procs /\ \A r \in Procs : TypedProc(r, proc[r]) /\ TypedGui(gui[r])
        BY <1>3 DEF ProcTyped, GuiTyped
    <2>2. p # q
        BY <1>4, <1>6 DEF TakesMessages, At
    <2>3. /\ proc'[p] = [proc[p] EXCEPT !.pc = l] /\ proc'[q] = [proc[q] EXCEPT !.pc = "quit"]
          /\ \A r \in Procs \ {p, q} : proc'[r] = proc[r]
        BY <1>6, <2>1, <2>2
    <2>4. /\ gui'[q] = WindowClosed(q) /\ \A r \in Procs \ {q} : gui'[r] = gui[r]
        BY <1>6, <2>1
    <2>5. ASSUME NEW r \in Procs PROVE ProcKeeps(r)
        <3>1. CASE r \in {p, q}
            <4>1. /\ proc'[r].line = proc[r].line /\ proc'[r].os = proc[r].os /\ proc'[r].todo = proc[r].todo
                  /\ proc'[r].pc \notin Unread
                BY <2>1, <2>2, <2>3, <3>1 DEF TypedProc, Unread
            <4>2. proc[r].pc # "done"
                BY <1>4, <1>6, <3>1 DEF TakesMessages, At
            <4> QED
                BY <4>1, <4>2 DEF ProcKeeps
        <3>2. CASE r \notin {p, q}
            BY <2>3, <3>2 DEF ProcKeeps
        <3> QED
            BY <3>1, <3>2
    <2>6. ASSUME NEW r \in Procs PROVE EntryKeeps(r) /\ SheetFollows(r)
        <3>1. CASE r = q
            <4>1. WindowClosed(q).entry = gui[q].entry /\ WindowClosed(q).sheet = Closed
                BY <2>1 DEF WindowClosed, TypedGui
            <4> QED
                BY <2>4, <3>1, <4>1 DEF EntryKeeps, SheetFollows
        <3>2. CASE r # q
            <4>1. gui'[r] = gui[r] /\ (r = p \/ proc'[r] = proc[r])
                BY <2>3, <2>4, <3>2
            <4>2. proc[p].pc \notin Running
                BY <1>4 DEF Running
            <4> QED
                BY <4>1, <4>2 DEF EntryKeeps, SheetFollows, SheetKeeps
        <3> QED
            BY <3>1, <3>2
    <2> QED
        BY <1>1, <2>5, <2>6, WindowsKept DEF GoesOn
<1> QED
    BY <1>2, <1>5, <1>6 DEF CloseOther, Windows

(* A window of somebody else is brought to the front, or closed.            *)
LEMMA AlreadyKept ==
    ASSUME CInv, TInv', NEW p \in Procs, AlreadyRunning(p)
    PROVE  CInv'
<1>1. UNCHANGED <<sc, reg>> /\ UNCHANGED history /\ proc[p].pc = "already"
    BY DEF AlreadyRunning, scmOnly, history, At
<1>2. ProcTyped /\ GuiTyped
    BY DEF CInv, TInv, TypeOK
<1>3. PICK l \in {"quit", "asked"} : Goto(p, l)
    BY DEF AlreadyRunning
<1>4. \A q \in Procs : ProcKeeps(q)
    BY <1>1, <1>2, <1>3, Goes DEF Unread
<1>5. \A q \in Procs \ {p} : proc'[q] = proc[q]
    BY <1>2, <1>3 DEF Goto, ProcTyped
<1>6. CASE UNCHANGED gui
    BY <1>1, <1>4, <1>5, <1>6, OneStill DEF Running
<1>7. ASSUME NEW q \in Procs, TakesMessages(q), ~gui[q].sheet.open,
             gui' = [gui EXCEPT ![q].sheet = Sheet, ![p].host = q]
      PROVE  CInv'
    <2>1. DOMAIN gui = Procs /\ \A r \in Procs : TypedGui(gui[r])
        BY <1>2 DEF GuiTyped
    <2>2. proc[q].pc = "loop" /\ p # q
        BY <1>1, <1>7 DEF TakesMessages, At
    <2>3. /\ gui'[q] = [gui[q] EXCEPT !.sheet = Sheet] /\ gui'[p] = [gui[p] EXCEPT !.host = q]
          /\ \A r \in Procs \ {p, q} : gui'[r] = gui[r]
        BY <1>7, <2>1, <2>2
    <2>4. ASSUME NEW r \in Procs PROVE EntryKeeps(r) /\ SheetFollows(r)
        <3>1. CASE r = q
            <4>1. gui'[q].entry = gui[q].entry /\ gui'[q].sheet = Sheet
                BY <2>1, <2>3 DEF TypedGui
            <4>2. proc'[q].pc \in Running
                BY <1>5, <2>2 DEF Running
            <4> QED
                BY <3>1, <4>1, <4>2 DEF EntryKeeps, SheetFollows
        <3>2. CASE r = p
            <4>1. gui'[p].entry = gui[p].entry /\ gui'[p].sheet = gui[p].sheet
                BY <2>1, <2>3 DEF TypedGui
            <4>2. proc[p].pc \notin Running
                BY <1>1 DEF Running
            <4> QED
                BY <3>2, <4>1, <4>2 DEF EntryKeeps, SheetFollows, SheetKeeps
        <3>3. CASE r \notin {p, q}
            BY <1>5, <2>3, <3>3 DEF EntryKeeps, SheetFollows, SheetKeeps
        <3> QED
            BY <3>1, <3>2, <3>3
    <2> QED
        BY <1>1, <1>4, <2>4, WindowsKept DEF GoesOn
<1> QED
    BY <1>6, <1>7 DEF AlreadyRunning, Windows

(* p's own window: g is what its gui becomes.                               *)
LEMMA OwnKept ==
    ASSUME CInv, TInv', UNCHANGED <<sc, reg>>, UNCHANGED history, NEW p \in Procs, NEW g,
           gui' = [gui EXCEPT ![p] = g], \A q \in Procs \ {p} : proc'[q] = proc[q], ProcKeeps(p),
           \/ proc'[p].pc = "done"
           \/ g.entry.display = gui[p].entry.display /\ g.entry.start = gui[p].entry.start,
           \/ g.sheet = Closed
           \/ g.sheet \in {Sheet, gui[p].sheet} /\ proc'[p].pc \in Running /\ proc'[p].pc # "done"
    PROVE  CInv'
<1>1. gui'[p] = g /\ \A q \in Procs \ {p} : gui'[q] = gui[q]
    BY DEF CInv, TInv, TypeOK, GuiTyped
<1>2. \A q \in Procs \ {p} : GoesOn(q)
    BY <1>1 DEF GoesOn, ProcKeeps, EntryKeeps, SheetFollows, SheetKeeps
<1>3. GoesOn(p)
    BY <1>1 DEF GoesOn, EntryKeeps, SheetFollows, SheetKeeps
<1> QED
    BY <1>2, <1>3, WindowsKept

(* A process that goes on behind its reading knows what it knew.            *)
LEMMA RunsOn ==
    ASSUME CInv, NEW p \in Procs, proc[p].pc # "done", NEW l, l \notin Unread, Goto(p, l)
    PROVE  ProcKeeps(p) /\ proc'[p].pc = l /\ \A q \in Procs \ {p} : proc'[q] = proc[q]
<1>1. ProcTyped
    BY DEF CInv, TInv, TypeOK
<1>2. ProcKeeps(p)
    BY <1>1, Goes
<1>3. proc'[p].pc = l /\ \A q \in Procs \ {p} : proc'[q] = proc[q]
    BY <1>1 DEF Goto, ProcTyped, TypedProc
<1> QED
    BY <1>2, <1>3

LEMMA WindowKept ==
    ASSUME CInv, TInv', NEW p \in Procs,
           CreateMainWindow(p) \/ WindowCreated(p) \/ ExitProcess(p) \/ Choose(p) \/ CloseSheet(p)
    PROVE  CInv'
<1>1. UNCHANGED <<sc, reg>> /\ UNCHANGED history
    BY DEF CreateMainWindow, WindowCreated, ExitProcess, Choose, CloseSheet, guiRest, scmOnly, history
<1>2. TypedGui(gui[p]) /\ TypedProc(p, proc[p]) /\ DOMAIN proc = Procs
    BY DEF CInv, TInv, TypeOK, GuiTyped, ProcTyped
<1>3. CASE CreateMainWindow(p)
    <2>1. PICK g \in {[gui[p] EXCEPT !.class = TRUE, !.icon = Icon(gui[p].entry.state)],
                      [gui[p] EXCEPT !.class = TRUE, !.sheet = Sheet]} :
              gui' = [gui EXCEPT ![p] = g]
        BY <1>3 DEF CreateMainWindow
    <2>2. PICK s, i : s = Sheet /\ i = Icon(gui[p].entry.state)
        OBVIOUS
    <2>3. g = [gui[p] EXCEPT !.class = TRUE, !.icon = i] \/ g = [gui[p] EXCEPT !.class = TRUE, !.sheet = s]
        BY <2>1, <2>2
    <2>4. g.entry = gui[p].entry /\ g.sheet \in {s, gui[p].sheet}
        BY <1>2, <2>3 DEF TypedGui
    <2>5. proc[p].pc = "window" /\ Goto(p, "created")
        BY <1>3 DEF CreateMainWindow, At
    <2>6. ProcKeeps(p) /\ proc'[p].pc = "created" /\ \A q \in Procs \ {p} : proc'[q] = proc[q]
        BY <2>5, RunsOn DEF Unread
    <2> QED
        BY <1>1, <2>1, <2>2, <2>4, <2>6, OwnKept DEF Running
<1>4. CASE WindowCreated(p)
    <2>1. PICK g : g = [gui[p] EXCEPT !.ready = TRUE, !.start = (proc[p].index = 3)]
        OBVIOUS
    <2>2. g.entry = gui[p].entry /\ g.sheet = gui[p].sheet
        BY <1>2, <2>1 DEF TypedGui
    <2>3. proc[p].pc = "created" /\ Goto(p, "loop") /\ gui' = [gui EXCEPT ![p] = g]
        BY <1>4, <2>1 DEF WindowCreated, At
    <2>4. ProcKeeps(p) /\ proc'[p].pc = "loop" /\ \A q \in Procs \ {p} : proc'[q] = proc[q]
        BY <2>3, RunsOn DEF Unread
    <2> QED
        BY <1>1, <2>2, <2>3, <2>4, OwnKept DEF Running
<1>5. CASE ExitProcess(p)
    <2>1. PICK x : x = [proc[p] EXCEPT !.pc = "done", !.service = FALSE, !.key = "none"]
        OBVIOUS
    <2>2. proc' = [proc EXCEPT ![p] = x] /\ gui' = [gui EXCEPT ![p] = NoGui] /\ proc[p].pc = "close"
        BY <1>5, <2>1 DEF ExitProcess, At
    <2>3. /\ x.line = proc[p].line /\ x.os = proc[p].os /\ x.todo = proc[p].todo /\ x.pc = "done"
          /\ proc'[p] = x /\ \A q \in Procs \ {p} : proc'[q] = proc[q]
        BY <1>2, <2>1, <2>2 DEF TypedProc
    <2>4. ProcKeeps(p)
        BY <2>2, <2>3 DEF ProcKeeps, Unread
    <2>5. NoGui.sheet = Closed
        BY DEF NoGui
    <2> QED
        BY <1>1, <2>2, <2>3, <2>4, <2>5, OwnKept
<1>6. CASE Choose(p)
    <2>1. PICK c \in gui[p].menu :
             IF c = "exit" THEN gui' = [gui EXCEPT ![p] = WindowClosed(p)] /\ Goto(p, "quit")
             ELSE /\ gui' = [gui EXCEPT ![p].menu = {},
                                        ![p].sheet = IF c = "configure" THEN ShowServiceProperties(p) ELSE @]
                  /\ UNCHANGED proc
        BY <1>6 DEF Choose
    <2>2. proc[p].pc = "loop"
        BY <1>6 DEF Choose, At
    <2>3. CASE gui' = [gui EXCEPT ![p] = WindowClosed(p)] /\ Goto(p, "quit")
        <3>1. WindowClosed(p).entry = gui[p].entry /\ WindowClosed(p).sheet = Closed
            BY <1>2 DEF WindowClosed, TypedGui
        <3>2. ProcKeeps(p) /\ proc'[p].pc = "quit" /\ \A q \in Procs \ {p} : proc'[q] = proc[q]
            BY <2>2, <2>3, RunsOn DEF Unread
        <3> QED
            BY <1>1, <2>3, <3>1, <3>2, OwnKept
    <2>4. CASE /\ gui' = [gui EXCEPT ![p].menu = {},
                                     ![p].sheet = IF c = "configure" THEN ShowServiceProperties(p) ELSE @]
               /\ UNCHANGED proc
        <3>1. PICK s : s = IF c = "configure" THEN ShowServiceProperties(p) ELSE gui[p].sheet
            OBVIOUS
        <3>2. s \in {Sheet, gui[p].sheet}
            BY <3>1 DEF ShowServiceProperties
        <3>3. PICK g : g = [gui[p] EXCEPT !.menu = {}, !.sheet = s]
            OBVIOUS
        <3>4. gui' = [gui EXCEPT ![p] = g]
            BY <2>4, <3>1, <3>3
        <3>5. g.entry = gui[p].entry /\ g.sheet = s
            BY <1>2, <3>3 DEF TypedGui
        <3>6. ProcKeeps(p) /\ \A q \in Procs \ {p} : proc'[q] = proc[q]
            BY <2>4 DEF ProcKeeps
        <3> QED
            BY <1>1, <2>2, <2>4, <3>2, <3>4, <3>5, <3>6, OwnKept DEF Running
    <2> QED
        BY <2>1, <2>3, <2>4
<1>7. CASE CloseSheet(p)
    <2>1. PICK g, s : s = Closed /\ g = [gui[p] EXCEPT !.sheet = s]
        OBVIOUS
    <2>2. gui' = [gui EXCEPT ![p] = g] /\ proc[p].pc \in {"loop", "created"}
        BY <1>7, <2>1 DEF CloseSheet, TakesMessages, At
    <2>3. g.entry = gui[p].entry /\ g.sheet = s
        BY <1>2, <2>1 DEF TypedGui
    <2>4. ProcKeeps(p) /\ \A q \in Procs \ {p} : proc'[q] = proc[q]
        <3>1. CASE UNCHANGED proc
            BY <3>1 DEF ProcKeeps
        <3>2. CASE Goto(p, "quit")
            BY <2>2, <3>2, RunsOn DEF Unread
        <3> QED
            BY <1>7, <3>1, <3>2 DEF CloseSheet
    <2> QED
        BY <1>1, <2>1, <2>2, <2>3, <2>4, OwnKept
<1> QED
    BY <1>3, <1>4, <1>5, <1>6, <1>7

(* The keys are opened, or made, and every option stays as it is stored.    *)
LEMMA KeysKept ==
    ASSUME CInv, TInv', NEW p \in Procs, saveConfiguration(p) \/ OpenKeysOfManager(p)
    PROVE  CInv'
<1>1. UNCHANGED <<sc, gui>> /\ UNCHANGED history /\ proc[p].pc \in {"saveOpen", "keys"}
    BY DEF saveConfiguration, OpenKeysOfManager, scm, scmOnly, history, At
<1>2. PICK l, failed \in {"saving", "window", "done", "failed"} : OpenKeys(p, l, failed)
    BY DEF saveConfiguration, OpenKeysOfManager
<1>3. TypedProc(p, proc[p]) /\ ProcTyped /\ DOMAIN proc = Procs /\ TypedRegistry(reg)
    BY DEF CInv, TInv, TypeOK, ProcTyped
<1>4. \A o \in Options : reg'.val[o] = reg.val[o]
    BY <1>2, <1>3 DEF OpenKeys, apxCreateRegistry, TypedRegistry
<1>5. PICK x : /\ x \in {[proc[p] EXCEPT !.pc = l, !.key = "open", !.todo = ToSave(proc[p].os)],
                         [proc[p] EXCEPT !.pc = failed, !.service = FALSE, !.mutex = FALSE]}
               /\ proc' = [proc EXCEPT ![p] = x]
    BY <1>2 DEF OpenKeys
<1>6. PICK todo : todo = ToSave(proc[p].os)
    OBVIOUS
<1>7. x \in {[proc[p] EXCEPT !.pc = l, !.key = "open", !.todo = todo],
             [proc[p] EXCEPT !.pc = failed, !.service = FALSE, !.mutex = FALSE]}
    BY <1>5, <1>6
<1>8. x.line = proc[p].line /\ x.os = proc[p].os /\ x.todo \in {proc[p].todo, todo} /\ x.pc \in {l, failed}
    BY <1>3, <1>7 DEF TypedProc
<1>9. \A q \in Procs : ProcKeeps(q)
    <2>1. x.pc \notin Unread /\ proc[p].pc # "done"
        BY <1>1, <1>2, <1>8 DEF Unread
    <2>2. x.todo \subseteq proc[p].todo \cup ToSave(proc[p].os)
        BY <1>6, <1>8
    <2> QED
        BY <1>3, <1>5, <1>8, <2>1, <2>2, OneGoes
<1>10. \A q \in Procs : EntryKeeps(q) /\ SheetFollows(q)
    <2>1. \A q \in Procs \ {p} : proc'[q] = proc[q]
        BY <1>3, <1>5
    <2>2. proc[p].pc \notin Running
        BY <1>1 DEF Running
    <2> QED
        BY <1>1, <2>1, <2>2 DEF EntryKeeps, SheetFollows, SheetKeeps
<1> QED
    BY <1>1, <1>4, <1>9, <1>10, QuietKept DEF GoesOn, Quiet

(* A step that changes what is stored.                                      *)
LEMMA StoreKept ==
    ASSUME CInv, TInv', UNCHANGED sc, NEW os \in SUBSET Options, Changed(os), \A q \in Procs : GoesOn(q),
           ConfigurationIsMeant'
    PROVE  CInv'
<1>1. \A q \in Procs : ProcKeeps(q) /\ (EntryKeeps(q) \/ proc'[q].pc = "done")
    BY DEF GoesOn
<1>2. SrvKnows' /\ MgrKnows'
    BY <1>1, KnowledgeKept DEF CInv
<1>3. SheetOpen' /\ SheetMeant'
    BY SheetsKept DEF CInv, GoesOn, SheetFollows
<1> QED
    BY <1>2, <1>3 DEF CInv

LEMMA GoneKept ==
    ASSUME CInv, TInv', ServiceGoes
    PROVE  CInv'
<1>1. /\ UNCHANGED <<sc, proc, gui>> /\ reg' = ServiceKeyRemoved(reg) /\ asked' = Forget(asked, Srv)
      /\ overtaken' = overtaken \ Srv /\ behind' = Change(Srv)
    BY DEF ServiceGoes
<1>2. TypedRegistry(reg) /\ Srv \in SUBSET Options
    BY DEF CInv, TInv, TypeOK, Srv
<1>3. reg'.val = Forget(reg.val, Srv)
    BY <1>1, <1>2 DEF ServiceKeyRemoved, TypedRegistry
<1>4. Changed(Srv)
    BY <1>1, <1>3 DEF Changed, Change, Forget
<1>5. ASSUME NEW o \in Options \ overtaken' PROVE Same(o, reg'.val[o], asked'[o])
    <2>1. CASE o \in Srv
        BY <1>1, <1>3, <2>1 DEF Forget, Same
    <2>2. CASE o \notin Srv
        <3>1. reg'.val[o] = reg.val[o] /\ asked'[o] = asked[o] /\ o \notin overtaken
            BY <1>1, <1>3, <2>2 DEF Forget
        <3> QED
            BY <3>1 DEF CInv, ConfigurationIsMeant, Same
    <2> QED
        BY <2>1, <2>2
<1>6. ConfigurationIsMeant'
    BY <1>5 DEF ConfigurationIsMeant, Same
<1>7. \A q \in Procs : GoesOn(q)
    BY <1>1 DEF GoesOn, ProcKeeps, EntryKeeps, SheetFollows, SheetKeeps
<1> QED
    BY <1>1, <1>2, <1>4, <1>6, <1>7, StoreKept

(* DS deletes the parameters, and all are behind in them.                   *)
LEMMA DeletedKept ==
    ASSUME CInv, TInv', NEW p \in Procs, apxDeleteRegistry(p)
    PROVE  CInv'
<1>1. /\ UNCHANGED <<sc, gui>> /\ reg' = apxDeleteRegistryRecursive(reg) /\ behind' = Change(Params)
      /\ proc[p].pc = "deleteKeys"
    BY DEF apxDeleteRegistry, scm, At
<1>2. TypedRegistry(reg) /\ Params \in SUBSET Options /\ DOMAIN proc = Procs
      /\ \A q \in Procs : TypedProc(q, proc[q])
    BY DEF CInv, TInv, TypeOK, Params, ProcTyped
<1>3. reg'.val = Forget(reg.val, Params)
    BY <1>1, <1>2 DEF apxDeleteRegistryRecursive, TypedRegistry
<1>4. Changed(Params)
    BY <1>1, <1>3 DEF Changed, Change, Forget
<1>5. ASSUME NEW o \in Options \ overtaken' PROVE Same(o, reg'.val[o], asked'[o])
    <2>1. CASE o \in Params
        <3>1. reg'.val[o] = Null(o)
            BY <1>3, <2>1 DEF Forget
        <3>2. asked'[o] = Null(o)
            <4>1. CASE Present
                BY <1>5, <2>1, <4>1 DEF apxDeleteRegistry
            <4>2. CASE ~Present
                BY <2>1, <4>2 DEF apxDeleteRegistry, Forget
            <4> QED
                BY <4>1, <4>2
        <3> QED
            BY <3>1, <3>2 DEF Same
    <2>2. CASE o \notin Params
        <3>1. reg'.val[o] = reg.val[o]
            BY <1>3, <2>2 DEF Forget
        <3>2. asked'[o] = asked[o] /\ o \notin overtaken
            BY <1>5, <2>2 DEF apxDeleteRegistry, Forget
        <3> QED
            BY <3>1, <3>2 DEF CInv, ConfigurationIsMeant, Same
    <2> QED
        BY <2>1, <2>2
<1>6. ConfigurationIsMeant'
    BY <1>5 DEF ConfigurationIsMeant, Same
<1>7. ASSUME NEW q \in Procs PROVE GoesOn(q)
    <2>1. PICK k, l : k = (IF proc[q].key = "open" THEN "deleted" ELSE proc[q].key)
                      /\ l = IF q = p THEN "done" ELSE proc[q].pc
        OBVIOUS
    <2>2. proc'[q] = [proc[q] EXCEPT !.key = k, !.pc = l]
        BY <2>1 DEF apxDeleteRegistry
    <2>3. /\ proc'[q].line = proc[q].line /\ proc'[q].os = proc[q].os /\ proc'[q].todo = proc[q].todo
          /\ proc'[q].pc = l
        BY <1>2, <2>2 DEF TypedProc
    <2>4. ProcKeeps(q)
        BY <1>1, <2>1, <2>3 DEF ProcKeeps, Unread
    <2>5. proc[q].pc \in Running => proc'[q].pc \in Running
        BY <1>1, <2>1, <2>3 DEF Running
    <2> QED
        BY <1>1, <2>4, <2>5 DEF GoesOn, EntryKeeps, SheetFollows, SheetKeeps
<1> QED
    BY <1>1, <1>2, <1>4, <1>6, <1>7, StoreKept

(* A write of p: the options os, of which new are meant.                    *)
LEMMA WriteKept ==
    ASSUME CInv, TInv', UNCHANGED sc, NEW p \in Procs, NEW os \in SUBSET Options, NEW new,
           DOMAIN new \subseteq os, Wrote(p, os, new), \A o \in Options \ os : reg'.val[o] = reg.val[o],
           \A o \in os : Right(p, o, new), \A q \in Procs : GoesOn(q)
    PROVE  CInv'
<1>1. ConfigurationIsMeant' /\ Changed(os)
    BY WroteMeant DEF CInv
<1> QED
    BY <1>1, StoreKept

(* What one process knows.                                                  *)
SrvOwn(p) ==
    /\ \A o \in Options : Knows(p, o)
    /\ proc[p].pc \in Unread => behind[p] = Options /\ proc[p].todo = {}
    /\ \A o \in proc[p].todo : proc[p].os[o].found
MgrOwn(p) ==
    /\ \A o \in Options : ~proc[p].os[o].add
    /\ \A o \in Cached : o \notin behind[p] /\ proc[p].pc # "done" => EntryOf(p, o) = reg.val[o]
SheetOwn(p) ==
    /\ IF gui[p].sheet.open THEN proc[p].pc \in Running ELSE gui[p].sheet = Closed
    /\ Meaning(p, gui[p].sheet)

(* What all know, one process at a time.                                    *)
LEMMA OwnAll ==
    /\ SrvKnows <=> \A p \in Procs : Is(p, "prunsrv") => SrvOwn(p)
    /\ MgrKnows <=> \A p \in Procs : Is(p, "prunmgr") => MgrOwn(p)
    /\ SheetOpen /\ SheetMeant <=> \A p \in Procs : SheetOwn(p)
BY DEF SrvKnows, SrvOwn, MgrKnows, MgrOwn, SheetOpen, SheetMeant, SheetOwn

LEMMA OneLearns ==
    ASSUME CInv, TInv', UNCHANGED <<sc, reg, asked, overtaken>>, NEW p \in Procs,
           \A q \in Procs \ {p} : proc'[q] = proc[q] /\ behind'[q] = behind[q] /\ gui'[q] = gui[q],
           Is(p, "prunsrv") => SrvOwn(p)', Is(p, "prunmgr") => MgrOwn(p)', SheetOwn(p)'
    PROVE  CInv'
<1>1. \A q \in Procs : \A prog : Is(q, prog)' = Is(q, prog)
    BY PlacesStay
<1>2. ASSUME NEW q \in Procs \ {p}
      PROVE  (Is(q, "prunsrv") => SrvOwn(q)') /\ (Is(q, "prunmgr") => MgrOwn(q)') /\ SheetOwn(q)'
    <2>1. Is(q, "prunsrv") => SrvOwn(q)
        BY OwnAll DEF CInv
    <2>2. Is(q, "prunmgr") => MgrOwn(q)
        BY OwnAll DEF CInv
    <2>3. SheetOwn(q)
        BY OwnAll DEF CInv
    <2>4. proc'[q] = proc[q] /\ behind'[q] = behind[q] /\ gui'[q] = gui[q]
        OBVIOUS
    <2>5. SrvOwn(q) => SrvOwn(q)'
        BY <2>4 DEF SrvOwn, Knows, Builds
    <2>6. MgrOwn(q) => MgrOwn(q)'
        BY <2>4 DEF MgrOwn, EntryOf
    <2>7. SheetOwn(q)'
        BY <2>3, <2>4 DEF SheetOwn, Meaning, EntryOf
    <2> QED
        BY <2>1, <2>2, <2>5, <2>6, <2>7
<1>3. SrvKnows' /\ MgrKnows' /\ SheetOpen' /\ SheetMeant'
    <2>1. \A q \in Procs : (Is(q, "prunsrv") => SrvOwn(q)') /\ (Is(q, "prunmgr") => MgrOwn(q)') /\ SheetOwn(q)'
        BY <1>2
    <2>2. SrvKnows'
        BY <1>1, <2>1 DEF SrvKnows, SrvOwn
    <2>3. MgrKnows'
        BY <1>1, <2>1 DEF MgrKnows, MgrOwn
    <2>4. SheetOpen' /\ SheetMeant'
        BY <2>1 DEF SheetOpen, SheetMeant, SheetOwn
    <2> QED
        BY <2>2, <2>3, <2>4
<1>4. ConfigurationIsMeant'
    BY MeantKept DEF CInv
<1> QED
    BY <1>3, <1>4 DEF CInv

(* prunsrv learns what it was asked for, and then what is stored.           *)
LEMMA MainKept ==
    ASSUME CInv, TInv', NEW p \in Procs, Main(p)
    PROVE  CInv'
<1>1. UNCHANGED <<sc, gui, reg>> /\ UNCHANGED history /\ proc[p].pc = "start" /\ Is(p, "prunsrv")
      /\ ~Is(p, "prunmgr")
    BY SrvPlace DEF Main, scm, At, history, CInv, TInv, TypeOK
<1>2. TypedProc(p, proc[p]) /\ ProcTyped /\ DOMAIN proc = Procs
    BY DEF CInv, TInv, TypeOK, ProcTyped
<1>3. CASE ParseFails(Line(p))
    <2>1. Goto(p, "failed")
        BY <1>3 DEF Main
    <2>2. ProcKeeps(p) /\ \A q \in Procs \ {p} : proc'[q] = proc[q]
        BY <1>1, <2>1, RunsOn DEF Unread
    <2>3. \A q \in Procs : ProcKeeps(q)
        BY <2>2 DEF ProcKeeps
    <2> QED
        BY <1>1, <2>2, <2>3, OneStill DEF Running
<1>4. CASE ~ParseFails(Line(p))
    <2>1. PICK stops \in BOOLEAN :
              LET c == apxCmdlineParse(Line(p))
                  os == apxCmdlineLoadEnvVars(c.options, Job(p).env, stops)
              IN proc' = [proc EXCEPT ![p].index = c.index, ![p].line = os, ![p].os = os,
                            ![p].pc = CASE c.index < 6 -> "load" [] c.index = 6 -> "create"
                                        [] c.index = 7 -> "open" [] OTHER -> "done"]
        BY <1>4 DEF Main
    <2>2. PICK c, os, l : /\ c = apxCmdlineParse(Line(p))
                          /\ os = apxCmdlineLoadEnvVars(c.options, Job(p).env, stops)
                          /\ l = CASE c.index < 6 -> "load" [] c.index = 6 -> "create"
                                   [] c.index = 7 -> "open" [] OTHER -> "done"
        OBVIOUS
    <2>3. PICK x : x = [proc[p] EXCEPT !.index = c.index, !.line = os, !.os = os, !.pc = l]
        OBVIOUS
    <2>4. proc' = [proc EXCEPT ![p].index = c.index, ![p].line = os, ![p].os = os, ![p].pc = l]
        BY <2>1, <2>2
    <2>5. proc' = [proc EXCEPT ![p] = x]
        BY <2>3, <2>4
    <2>6. /\ proc'[p].line = os /\ proc'[p].os = os /\ proc'[p].todo = proc[p].todo
          /\ \A q \in Procs \ {p} : proc'[q] = proc[q]
        BY <1>2, <2>3, <2>5 DEF TypedProc
    <2>7. behind'[p] = Options /\ proc[p].todo = {}
        BY <1>1 DEF CInv, SrvKnows, Unread, history
    <2>8. SrvOwn(p)'
        <3>1. ASSUME NEW o \in Options PROVE Knows(p, o)'
            BY <2>6, <2>7 DEF Knows
        <3> QED
            BY <2>6, <2>7, <3>1 DEF SrvOwn
    <2>9. SheetOwn(p)'
        <3>1. SheetOwn(p)
            BY OwnAll DEF CInv
        <3>2. gui[p].sheet = Closed /\ ~gui[p].sheet.open
            BY <1>1, <3>1 DEF SheetOwn, Running
        <3> QED
            BY <1>1, <3>1, <3>2 DEF SheetOwn, Meaning, EntryOf
    <2> QED
        BY <1>1, <2>6, <2>8, <2>9, OneLearns DEF history
<1> QED
    BY <1>3, <1>4

LEMMA LoadKept ==
    ASSUME CInv, TInv', NEW p \in Procs, LoadConfiguration(p)
    PROVE  CInv'
<1>1. UNCHANGED <<sc, gui, reg>> /\ UNCHANGED <<asked, overtaken>> /\ proc[p].pc = "load"
    BY DEF LoadConfiguration, scm, At
<1>2. Is(p, "prunsrv") /\ ~Is(p, "prunmgr")
    BY <1>1, SrvPlace DEF SrvPlaces, CInv, TInv, TypeOK
<1>3. TypedProc(p, proc[p]) /\ DOMAIN proc = Procs /\ behind \in [Procs -> SUBSET Options]
    BY DEF CInv, TInv, TypeOK, ProcTyped, HistoryTyped
<1>4. PICK r, l, x : /\ r = loadConfiguration(reg, Exists, proc[p].os)
                     /\ l = IF r.ok \/ proc[p].index = 5 THEN "open" ELSE "failed"
                     /\ x = [proc[p] EXCEPT !.os = r.options, !.pc = l]
    OBVIOUS
<1>5. proc' = [proc EXCEPT ![p] = x] /\ behind' = [behind EXCEPT ![p] = @ \ (IF r.ok THEN Options ELSE {})]
    BY <1>4 DEF LoadConfiguration, ReadBy
<1>6. /\ proc'[p].line = proc[p].line /\ proc'[p].os = r.options /\ proc'[p].todo = proc[p].todo
      /\ proc'[p].pc \notin Unread /\ \A q \in Procs \ {p} : proc'[q] = proc[q] /\ behind'[q] = behind[q]
    BY <1>3, <1>4, <1>5 DEF TypedProc, Unread
<1>7. SrvOwn(p) /\ SheetOwn(p)
    BY <1>2, OwnAll DEF CInv
<1>8. proc[p].todo = {} /\ behind[p] = Options
    BY <1>1, <1>7 DEF SrvOwn, Unread
<1>9. ASSUME NEW o \in Options PROVE Knows(p, o)'
    <2>1. PICK os, line : os = proc[p].os[o] /\ line = proc[p].line[o]
        OBVIOUS
    <2>2. os.found = line.found /\ os.add = line.add /\ os.val = line.val
        BY <1>1, <1>7, <2>1 DEF SrvOwn, Knows, Unread
    <2>3. os \in [val : Values(o), found : BOOLEAN, add : BOOLEAN]
        BY <1>3, <2>1 DEF TypedProc, TypedOptions
    <2>4. CASE ~r.ok
        <3>1. proc'[p].os = proc[p].os /\ behind'[p] = Options
            BY <1>3, <1>4, <1>5, <1>6, <1>8, <2>4 DEF loadConfiguration
        <3> QED
            BY <1>6, <2>1, <2>2, <3>1 DEF Knows, Builds
    <2>5. CASE r.ok
        <3>1. r.options = [w \in Options |-> Merged(reg, w, proc[p].os[w])]
            BY <1>4, <2>5 DEF loadConfiguration
        <3>2. PICK v : v = IF ~os.found THEN Fetch(reg, o)
                           ELSE IF os.add /\ Type(o) = "MSZ" THEN apxMultiSzCombine(Fetch(reg, o), os.val)
                                ELSE os.val
            OBVIOUS
        <3>3. proc'[p].os[o] = [os EXCEPT !.val = v]
            BY <1>6, <2>1, <2>3, <3>1, <3>2 DEF Merged
        <3>4. proc'[p].os[o].found = os.found /\ proc'[p].os[o].add = os.add /\ proc'[p].os[o].val = v
            BY <2>3, <3>3
        <3>5. Builds(p, o)' = (os.add /\ Type(o) = "MSZ")
            BY <3>4 DEF Builds
        <3>6. os.found /\ ~(os.add /\ Type(o) = "MSZ") => v = line.val
            BY <2>2, <3>2
        <3>7. os.found /\ os.add /\ Type(o) = "MSZ" => v = Readable(reg.val[o]) \o Readable(line.val)
            BY <2>2, <3>2 DEF apxMultiSzCombine, Fetch, apxRegistryGetMzStr
        <3>8. ~os.found /\ o = "DisplayName" => v = reg.val[o]
            BY <3>2, TypesAre DEF Fetch, apxRegistryGetString
        <3> QED
            BY <1>1, <1>6, <2>1, <2>2, <3>4, <3>5, <3>6, <3>7, <3>8 DEF Knows
    <2> QED
        BY <2>4, <2>5
<1>10. SrvOwn(p)'
    BY <1>6, <1>8, <1>9 DEF SrvOwn
<1>11. SheetOwn(p)'
    <2>1. gui[p].sheet = Closed /\ ~gui[p].sheet.open
        BY <1>1, <1>7 DEF SheetOwn, Running
    <2> QED
        BY <1>1, <1>7, <2>1 DEF SheetOwn, Meaning, EntryOf
<1> QED
    BY <1>1, <1>2, <1>6, <1>10, <1>11, OneLearns

(* prunmgr learns the entry, and its pages show it.                         *)
LEMMA ManagerKept ==
    ASSUME CInv, TInv', NEW p \in Procs, WinMain(p)
    PROVE  CInv'
<1>1. UNCHANGED <<sc, reg>> /\ UNCHANGED <<asked, overtaken>> /\ proc[p].pc = "start" /\ Is(p, "prunmgr")
      /\ ~Is(p, "prunsrv")
    BY MgrPlace DEF WinMain, scmOnly, At, CInv, TInv, TypeOK
<1>2. TypedProc(p, proc[p]) /\ DOMAIN proc = Procs /\ TypedGui(gui[p]) /\ DOMAIN gui = Procs
      /\ behind \in [Procs -> SUBSET Options]
    BY DEF CInv, TInv, TypeOK, ProcTyped, GuiTyped, HistoryTyped
<1>3. MgrOwn(p) /\ SheetOwn(p)
    BY <1>1, OwnAll DEF CInv
<1>4. CASE Goto(p, "quit") /\ UNCHANGED <<gui, behind>>
    <2>1. ProcKeeps(p) /\ \A q \in Procs \ {p} : proc'[q] = proc[q]
        BY <1>1, <1>4, RunsOn DEF Unread
    <2>2. \A q \in Procs : ProcKeeps(q)
        BY <2>1 DEF ProcKeeps
    <2> QED
        BY <1>1, <1>4, <2>1, <2>2, OneStill DEF Running, history
<1>5. CASE ~ParseFails(Line(p)) /\ Exists
    <2>1. PICK index, l : index = apxCmdlineParse(Line(p)).index
                          /\ l = IF index = 4 THEN "quitOther" ELSE "mutex"
        OBVIOUS
    <2>2. PICK x, e, g : /\ x = [proc[p] EXCEPT !.index = index, !.service = TRUE, !.pc = l]
                         /\ e = Entry /\ g = [gui[p] EXCEPT !.entry = e]
        OBVIOUS
    <2>3. /\ proc' = [proc EXCEPT ![p] = x] /\ gui' = [gui EXCEPT ![p] = g]
          /\ behind' = [behind EXCEPT ![p] = @ \ Srv]
        BY <1>5, <2>1, <2>2 DEF WinMain, ReadBy
    <2>4. \A q \in Procs \ {p} : proc'[q] = proc[q] /\ behind'[q] = behind[q] /\ gui'[q] = gui[q]
        BY <1>2, <2>3
    <2>5. proc'[p].os = proc[p].os /\ gui'[p].entry = e /\ gui'[p].sheet = gui[p].sheet
        BY <1>2, <2>2, <2>3 DEF TypedProc, TypedGui
    <2>6. e.display = reg.val["DisplayName"] /\ e.start = reg.val["Startup"]
        BY <2>2 DEF Entry
    <2>7. MgrOwn(p)'
        BY <1>1, <1>3, <2>5, <2>6 DEF MgrOwn, Cached, EntryOf
    <2>8. SheetOwn(p)'
        <3>1. gui[p].sheet = Closed /\ gui[p].sheet.mine = {} /\ DOMAIN gui[p].sheet.fields = {}
              /\ ~gui[p].sheet.open
            BY <1>1, <1>3, BareSheet DEF SheetOwn, Running
        <3> QED
            BY <2>5, <3>1 DEF SheetOwn, Meaning
    <2> QED
        BY <1>1, <2>4, <2>7, <2>8, OneLearns
<1> QED
    BY <1>4, <1>5 DEF WinMain

LEMMA FirstShows ==
    ASSUME NEW p \in Procs
    PROVE  LET shown == PageIn(p, 1).shows
           IN shown["DisplayName"] = gui[p].entry.display /\ shown["Startup"] = gui[p].entry.start
BY DEF PageIn, generalProperty, Page

(* A page shows the entry or the registry until the user types.             *)
LEMMA VisitKept ==
    ASSUME CInv, TInv', NEW p \in Procs, VisitPage(p)
    PROVE  CInv'
<1>1. UNCHANGED <<sc, reg, proc>> /\ UNCHANGED <<asked, overtaken>> /\ gui[p].sheet.open
    BY DEF VisitPage, scmOnly, Editing
<1>2. SheetOwn(p)
    BY OwnAll DEF CInv
<1>3. proc[p].pc \in Running
    BY <1>1, <1>2 DEF SheetOwn
<1>4. Is(p, "prunmgr") /\ ~Is(p, "prunsrv")
    BY <1>3, MgrPlace DEF Running, MgrPlaces, CInv, TInv, TypeOK
<1>5. MgrOwn(p)
    BY <1>4, OwnAll DEF CInv
<1>6. TypedGui(gui[p]) /\ TypedSheet(gui[p].sheet) /\ DOMAIN gui = Procs /\ behind \in [Procs -> SUBSET Options]
    BY DEF CInv, TInv, TypeOK, GuiTyped, TypedGui, HistoryTyped
<1>7. PICK page, shown : page = PageOf(Head(gui[p].edits).opt) /\ shown = PageIn(p, page).shows
    OBVIOUS
<1>8. page \in Pages
    <2>1. Head(gui[p].edits).opt \in Options
        BY <1>6, EditsTail DEF VisitPage, TypedGui
    <2> QED
        BY <1>7, <2>1, PagesAre
<1>9. Shows(shown, page)
    BY <1>7, <1>8, PageTyped DEF CInv
<1>10. PICK f : f = gui[p].sheet.fields
    OBVIOUS
<1>11. PICK h : h = [o \in DOMAIN f \cup DOMAIN shown |-> IF o \in DOMAIN f THEN f[o] ELSE shown[o]]
    OBVIOUS
<1>12. PICK s, g : s = [gui[p].sheet EXCEPT !.fields = h] /\ g = [gui[p] EXCEPT !.sheet = s]
    OBVIOUS
<1>13. gui' = [gui EXCEPT ![p] = g] /\ behind' = [behind EXCEPT ![p] = @ \ (DOMAIN shown \ Srv)]
    BY <1>7, <1>10, <1>11, <1>12 DEF VisitPage, ReadBy
<1>14. \A q \in Procs \ {p} : behind'[q] = behind[q] /\ gui'[q] = gui[q]
    BY <1>6, <1>13
<1>15. /\ gui'[p].entry = gui[p].entry /\ gui'[p].sheet = s
       /\ s.fields = h /\ s.mine = gui[p].sheet.mine /\ s.open = gui[p].sheet.open
    BY <1>6, <1>12, <1>13 DEF TypedGui, TypedSheet
<1>16. \A o \in Cached : EntryOf(p, o)' = EntryOf(p, o)
    BY <1>15 DEF EntryOf
<1>17. MgrOwn(p)'
    <2>1. ASSUME NEW o \in Cached, o \notin behind'[p] PROVE o \notin behind[p]
        <3>1. o \in Srv
            BY TypesAre DEF Cached
        <3> QED
            BY <1>6, <1>13, <2>1, <3>1
    <2>2. \A o \in Cached : o \notin behind'[p] /\ proc'[p].pc # "done" => EntryOf(p, o)' = reg'.val[o]
        BY <1>1, <1>5, <1>16, <2>1 DEF MgrOwn
    <2> QED
        BY <1>1, <1>5, <2>2 DEF MgrOwn
<1>18. SheetOwn(p)'
    <2>1. ASSUME NEW o \in Cached, o \in DOMAIN h \ s.mine PROVE h[o] = EntryOf(p, o)
        <3>1. CASE o \in DOMAIN f
            BY <1>2, <1>10, <1>11, <1>15, <2>1, <3>1 DEF SheetOwn, Meaning
        <3>2. CASE o \notin DOMAIN f
            <4>1. o \in DOMAIN shown /\ h[o] = shown[o]
                BY <1>11, <2>1, <3>2
            <4>2. page = 1
                BY <1>9, <4>1, PagesAre DEF Shows, Cached
            <4>3. shown["DisplayName"] = gui[p].entry.display /\ shown["Startup"] = gui[p].entry.start
                BY <1>7, <4>2, FirstShows
            <4> QED
                BY <4>1, <4>3 DEF EntryOf, Cached
        <3> QED
            BY <3>1, <3>2
    <2>2. "Startup" \in s.mine => h["Startup"] \in Startups
        <3>1. s.mine \subseteq DOMAIN f
            BY <1>6, <1>10, <1>15 DEF TypedSheet
        <3> QED
            BY <1>2, <1>10, <1>11, <1>15, <3>1 DEF SheetOwn, Meaning
    <2>3. \A o \in Cached : o \in DOMAIN h \ s.mine => h[o] = EntryOf(p, o)'
        BY <1>16, <2>1
    <2>4. Meaning(p, gui[p].sheet)'
        BY <1>15, <2>2, <2>3 DEF Meaning
    <2> QED
        BY <1>1, <1>3, <1>15, <2>4 DEF SheetOwn
<1> QED
    BY <1>1, <1>4, <1>14, <1>17, <1>18, OneLearns

LEMMA EditKept ==
    ASSUME CInv, TInv', NEW p \in Procs, EditField(p)
    PROVE  CInv'
<1>1. UNCHANGED <<sc, reg, proc>> /\ UNCHANGED history /\ gui[p].sheet.open
    BY DEF EditField, guiRest, scmOnly, Editing, history
<1>2. SheetOwn(p)
    BY OwnAll DEF CInv
<1>3. proc[p].pc \in Running
    BY <1>1, <1>2 DEF SheetOwn
<1>4. Is(p, "prunmgr") /\ ~Is(p, "prunsrv")
    BY <1>3, MgrPlace DEF Running, MgrPlaces, CInv, TInv, TypeOK
<1>5. MgrOwn(p)
    BY <1>4, OwnAll DEF CInv
<1>6. TypedGui(gui[p]) /\ TypedSheet(gui[p].sheet) /\ DOMAIN gui = Procs
    BY DEF CInv, TInv, TypeOK, GuiTyped, TypedGui
<1>7. PICK ed, sheet, page : ed = Head(gui[p].edits) /\ sheet = gui[p].sheet /\ page = PageOf(ed.opt)
    OBVIOUS
<1>8. PICK t, v : t = Tail(gui[p].edits) /\ v = Typed(ed.opt, ed.text)
    OBVIOUS
<1>9. /\ ed.opt \in DOMAIN sheet.fields
      /\ \E bits \in {sheet.bits \ {page}, sheet.bits \cup {page}} :
            gui' = [gui EXCEPT ![p].edits = t,
                               ![p].sheet = [sheet EXCEPT !.fields[ed.opt] = v, !.mine = @ \cup {ed.opt},
                                                          !.valid = ed.valid, !.bits = bits]]
    BY <1>7, <1>8 DEF EditField
<1>10. PICK bits : gui' = [gui EXCEPT ![p].edits = t,
                               ![p].sheet = [sheet EXCEPT !.fields[ed.opt] = v, !.mine = @ \cup {ed.opt},
                                                          !.valid = ed.valid, !.bits = bits]]
    BY <1>9
<1>11. PICK s, g : s = [sheet EXCEPT !.fields[ed.opt] = v, !.mine = @ \cup {ed.opt}, !.valid = ed.valid, !.bits = bits]
                   /\ g = [gui[p] EXCEPT !.edits = t, !.sheet = s]
    OBVIOUS
<1>12. /\ s.open = sheet.open /\ s.fields = [sheet.fields EXCEPT ![ed.opt] = v]
       /\ s.mine = sheet.mine \cup {ed.opt}
    BY <1>6, <1>7, <1>11 DEF TypedSheet
<1>13. gui' = [gui EXCEPT ![p] = g]
    BY <1>10, <1>11
<1>14. gui'[p].entry = gui[p].entry /\ gui'[p].sheet = s /\ \A q \in Procs \ {p} : gui'[q] = gui[q]
    BY <1>6, <1>11, <1>13 DEF TypedGui
<1>15. \A o \in Cached : EntryOf(p, o)' = EntryOf(p, o)
    BY <1>14 DEF EntryOf
<1>16. MgrOwn(p)'
    BY <1>1, <1>5, <1>15 DEF MgrOwn, history
<1>17. SheetOwn(p)'
    <2>1. \A o \in Cached : o \in DOMAIN s.fields \ s.mine => s.fields[o] = EntryOf(p, o)'
        BY <1>2, <1>7, <1>12, <1>15 DEF SheetOwn, Meaning
    <2>2. "Startup" \in s.mine => s.fields["Startup"] \in Startups
        <3>1. CASE ed.opt = "Startup"
            <4>1. ed.text \in Inputs(ed.opt)
                BY <1>6, <1>7, EditsTail DEF EditField, TypedGui
            <4>2. v = ed.text /\ ed.text \in Startups
                BY <1>8, <3>1, <4>1, TypesAre DEF Typed, Inputs
            <4> QED
                BY <1>9, <1>12, <3>1, <4>2
        <3>2. CASE ed.opt # "Startup"
            BY <1>2, <1>7, <1>12, <3>2 DEF SheetOwn, Meaning
        <3> QED
            BY <3>1, <3>2
    <2>3. Meaning(p, gui[p].sheet)'
        BY <1>14, <2>1, <2>2 DEF Meaning
    <2> QED
        BY <1>1, <1>3, <1>7, <1>12, <1>14, <2>3 DEF SheetOwn
<1> QED
    BY <1>1, <1>4, <1>14, <1>16, <1>17, OneLearns DEF history

(* prunsrv's writes.                                                        *)
LEMMA GoesStill ==
    ASSUME CInv, UNCHANGED <<sc, gui>>, NEW p \in Procs, proc[p].pc \notin Running \cup {"done"},
           NEW l, l \notin Unread, Goto(p, l) \/ Close(p, l)
    PROVE  \A q \in Procs : GoesOn(q)
<1>1. ProcTyped
    BY DEF CInv, TInv, TypeOK
<1>2. \A q \in Procs : ProcKeeps(q)
    BY <1>1, Goes
<1>3. \A q \in Procs \ {p} : proc'[q] = proc[q]
    BY <1>1 DEF Goto, Close, ProcTyped
<1> QED
    BY <1>2, <1>3 DEF GoesOn, SheetFollows, SheetKeeps, EntryKeeps

(* apxServiceSetNames has set the names d and u in r, if the service is     *)
(* there.                                                                   *)
NamesSet(s, r, d, u) ==
    /\ s.val["DisplayName"] = IF d = Empty THEN r.val["DisplayName"] ELSE d
    /\ s.val["ServiceUser"] = IF u = Empty THEN r.val["ServiceUser"] ELSE u
    /\ \A o \in Options \ {"DisplayName", "ServiceUser"} : s.val[o] = r.val[o]

LEMMA SetNamesVal ==
    ASSUME NEW r, TypedRegistry(r), NEW here, here = TRUE, NEW d, NEW u, NEW s,
           s = apxServiceSetNames(r, here, d, u).reg
    PROVE  NamesSet(s, r, d, u)
<1>1. PICK a : a = IF d = Empty THEN r ELSE [r EXCEPT !.val["DisplayName"] = d]
    OBVIOUS
<1>2. s = IF u = Empty THEN a ELSE [a EXCEPT !.val["ServiceUser"] = u]
    BY <1>1 DEF apxServiceSetNames
<1>3. "DisplayName" \in Options /\ "ServiceUser" \in Options
    BY OptionsAre
<1>4. /\ DOMAIN a = DOMAIN r /\ DOMAIN a.val = Options
      /\ a.val["DisplayName"] = IF d = Empty THEN r.val["DisplayName"] ELSE d
      /\ \A o \in Options \ {"DisplayName"} : a.val[o] = r.val[o]
    BY <1>1, <1>3 DEF TypedRegistry, TypedVal
<1>5. /\ s.val["ServiceUser"] = IF u = Empty THEN a.val["ServiceUser"] ELSE u
      /\ \A o \in Options \ {"ServiceUser"} : s.val[o] = a.val[o]
    BY <1>2, <1>3, <1>4 DEF TypedRegistry
<1> QED
    BY <1>3, <1>4, <1>5 DEF NamesSet

(* No list is among what the SCM keeps.                                     *)
LEMMA SrvPlain ==
    ASSUME NEW p, NEW o \in Srv
    PROVE  ~Builds(p, o) /\ Given(p, o) = proc[p].line[o].val /\ (\A v, w : Same(o, v, w) <=> v = w)
BY TypesAre DEF Builds, Given, Same

(* Each of the three writes of US and IS, of names, start mode and account. *)
LEMMA NamesKept ==
    ASSUME CInv, TInv', NEW p \in Procs, UpdateNames(p)
    PROVE  CInv'
<1>1. UNCHANGED <<sc, gui>> /\ proc[p].pc = "names"
    BY DEF UpdateNames, scm, At
<1>2. Is(p, "prunsrv") /\ ~Is(p, "prunmgr") /\ TypedRegistry(reg)
    BY <1>1, SrvPlace DEF SrvPlaces, CInv, TInv, TypeOK
<1>3. SrvOwn(p)
    BY <1>2, OwnAll DEF CInv
<1>4. \A q \in Procs : GoesOn(q)
    <2>1. PICK l \in {"options", "failed"} : Goto(p, l) \/ Close(p, l)
        BY DEF UpdateNames
    <2> QED
        BY <1>1, <2>1, GoesStill DEF Running, Unread
<1>5. CASE ~Present
    <2>1. UNCHANGED reg /\ UNCHANGED history
        BY <1>5 DEF UpdateNames, apxServiceSetNames
    <2> QED
        BY <1>1, <1>4, <2>1, QuietKept DEF Quiet
<1>6. CASE Present
    <2>1. PICK display, user : display = proc[p].os["DisplayName"].val /\ user = FoundOf(p, "ServiceUser")
        OBVIOUS
    <2>2. PICK written : written = {o \in {"DisplayName", "ServiceUser"} :
                                      (IF o = "DisplayName" THEN display ELSE user) # Empty}
        OBVIOUS
    <2>3. PICK new : new = [o \in {w \in written : proc[p].os[w].found} |-> Given(p, o)]
        OBVIOUS
    <2>4. PICK s, here : here = TRUE /\ s = apxServiceSetNames(reg, here, display, user).reg
        OBVIOUS
    <2>5. reg' = s /\ Wrote(p, written, new)
        <3>1. PICK r : r = apxServiceSetNames(reg, Present, display, user)
            OBVIOUS
        <3>2. r.ok /\ r.reg = s
            BY <1>6, <2>4, <3>1 DEF apxServiceSetNames
        <3>3. r.ok => reg' = r.reg /\ Wrote(p, written, new)
            BY <2>1, <2>2, <2>3, <3>1 DEF UpdateNames
        <3> QED
            BY <3>2, <3>3
    <2>6. /\ s.val["DisplayName"] = IF display = Empty THEN reg.val["DisplayName"] ELSE display
          /\ s.val["ServiceUser"] = IF user = Empty THEN reg.val["ServiceUser"] ELSE user
          /\ \A o \in Options \ {"DisplayName", "ServiceUser"} : s.val[o] = reg.val[o]
        <3>1. NamesSet(s, reg, display, user)
            BY <1>2, <2>4, SetNamesVal
        <3> QED
            BY <3>1 DEF NamesSet
    <2>7. written \in SUBSET Options /\ DOMAIN new \subseteq written /\ written \subseteq Srv
        BY <2>2, <2>3, OptionsAre, TypesAre
    <2>8. \A o \in Options \ written : s.val[o] = reg.val[o]
        BY <2>2, <2>6
    <2>9. ASSUME NEW o \in written PROVE Right(p, o, new)
        <3>1. Knows(p, o) /\ ~Builds(p, o) /\ Given(p, o) = proc[p].line[o].val
              /\ \A v, w : Same(o, v, w) <=> v = w
            BY <1>3, <2>7, SrvPlain DEF SrvOwn
        <3>2. CASE proc[p].os[o].found
            <4>1. o \in DOMAIN new /\ new[o] = proc[p].line[o].val
                BY <2>3, <3>1, <3>2
            <4>2. proc[p].os[o].val = proc[p].line[o].val
                BY <3>1, <3>2 DEF Knows
            <4>3. s.val[o] = proc[p].os[o].val
                BY <2>1, <2>2, <2>6, <3>2 DEF FoundOf
            <4> QED
                BY <2>5, <3>1, <4>1, <4>2, <4>3 DEF Right
        <3>3. CASE ~proc[p].os[o].found
            <4>1. o \notin DOMAIN new /\ o = "DisplayName"
                BY <2>1, <2>2, <2>3, <3>3 DEF FoundOf
            <4>2. s.val[o] = proc[p].os[o].val
                BY <2>1, <2>2, <2>6, <4>1
            <4>3. o \notin behind[p] => proc[p].os[o].val = reg.val[o]
                BY <3>1, <3>3, <4>1 DEF Knows
            <4> QED
                BY <2>5, <3>1, <4>1, <4>2, <4>3 DEF Right
        <3> QED
            BY <3>2, <3>3
    <2> QED
        BY <1>1, <1>4, <2>5, <2>7, <2>8, <2>9, WriteKept
<1> QED
    BY <1>5, <1>6

LEMMA StartupKept ==
    ASSUME CInv, TInv', NEW p \in Procs, UpdateOptions(p)
    PROVE  CInv'
<1>1. UNCHANGED <<sc, gui>> /\ proc[p].pc = "options"
    BY DEF UpdateOptions, scm, At
<1>2. Is(p, "prunsrv") /\ ~Is(p, "prunmgr") /\ TypedRegistry(reg)
    BY <1>1, SrvPlace DEF SrvPlaces, CInv, TInv, TypeOK
<1>3. SrvOwn(p)
    BY <1>2, OwnAll DEF CInv
<1>4. \A q \in Procs : GoesOn(q)
    <2>1. PICK l \in {"saveOpen", "failed"} : Goto(p, l) \/ Close(p, l)
        BY DEF UpdateOptions
    <2> QED
        BY <1>1, <2>1, GoesStill DEF Running, Unread
<1>5. PICK given, start : given = FoundOf(p, "Startup")
                          /\ start = IF given \in {"auto", "manual"} THEN given ELSE Empty
    OBVIOUS
<1>6. PICK r : r = apxServiceSetOptions(reg, Present, start)
    OBVIOUS
<1>7. CASE ~Present \/ start = Empty
    <2>1. r.reg = reg /\ (r.ok => start = Empty)
        BY <1>6, <1>7 DEF apxServiceSetOptions
    <2>2. UNCHANGED reg /\ UNCHANGED history
        BY <1>5, <1>6, <2>1 DEF UpdateOptions
    <2> QED
        BY <1>1, <1>4, <2>2, QuietKept DEF Quiet
<1>8. CASE Present /\ start # Empty
    <2>1. r.reg = [reg EXCEPT !.val["Startup"] = start] /\ r.ok
        BY <1>6, <1>8 DEF apxServiceSetOptions
    <2>2. PICK new : new = [Startup |-> Given(p, "Startup")]
        OBVIOUS
    <2>3. reg' = [reg EXCEPT !.val["Startup"] = start] /\ Wrote(p, {"Startup"}, new)
        BY <1>5, <1>6, <1>8, <2>1, <2>2 DEF UpdateOptions
    <2>4. "Startup" \in Srv /\ "Startup" \in Options
        BY OptionsAre, TypesAre
    <2>5. reg'.val["Startup"] = start /\ \A o \in Options \ {"Startup"} : reg'.val[o] = reg.val[o]
        BY <1>2, <2>3, <2>4 DEF TypedRegistry, TypedVal
    <2>6. start = proc[p].os["Startup"].val /\ proc[p].os["Startup"].found
        BY <1>5, <1>8 DEF FoundOf
    <2>7. Right(p, "Startup", new)
        <3>1. Knows(p, "Startup") /\ ~Builds(p, "Startup")
              /\ Given(p, "Startup") = proc[p].line["Startup"].val
              /\ \A v, w : Same("Startup", v, w) <=> v = w
            BY <1>3, <2>4, SrvPlain DEF SrvOwn
        <3>2. start = proc[p].line["Startup"].val
            BY <2>6, <3>1 DEF Knows
        <3>3. DOMAIN new = {"Startup"} /\ new["Startup"] = Given(p, "Startup")
            BY <2>2
        <3> QED
            BY <2>5, <3>1, <3>2, <3>3 DEF Right
    <2>8. {"Startup"} \in SUBSET Options /\ DOMAIN new \subseteq {"Startup"}
        BY <2>2, <2>4
    <2> QED
        BY <1>1, <1>4, <2>3, <2>5, <2>7, <2>8, WriteKept
<1> QED
    BY <1>7, <1>8

LEMMA AccountKept ==
    ASSUME CInv, TInv', NEW p \in Procs, InstallAccount(p)
    PROVE  CInv'
<1>1. UNCHANGED <<sc, gui>> /\ proc[p].pc = "account" /\ Close(p, "saveOpen")
    BY DEF InstallAccount, scm, At
<1>2. Is(p, "prunsrv") /\ ~Is(p, "prunmgr") /\ TypedRegistry(reg)
    BY <1>1, SrvPlace DEF SrvPlaces, CInv, TInv, TypeOK
<1>3. \A q \in Procs : GoesOn(q)
    BY <1>1, GoesStill DEF Running, Unread
<1>4. PICK user, none : user = FoundOf(p, "ServiceUser") /\ none = Empty
    OBVIOUS
<1>4a. PICK here \in BOOLEAN : here = Present
    BY DEF Present
<1>5. PICK r : r = apxServiceSetNames(reg, here, none, user)
    OBVIOUS
<1>6. reg' = r.reg
    BY <1>4, <1>4a, <1>5 DEF InstallAccount
<1>7. CASE ~here \/ user = Empty
    <2>1. UNCHANGED history
        BY <1>4, <1>4a, <1>5, <1>7 DEF InstallAccount, apxServiceSetNames
    <2>2. \A o \in Options : reg'.val[o] = reg.val[o]
        <3>1. CASE ~here
            BY <1>5, <1>6, <3>1 DEF apxServiceSetNames
        <3>2. CASE here /\ user = Empty
            <4>1. NamesSet(reg', reg, none, user)
                BY <1>2, <1>5, <1>6, <3>2, SetNamesVal
            <4> QED
                BY <1>4, <3>2, <4>1 DEF NamesSet
        <3> QED
            BY <1>7, <3>1, <3>2
    <2> QED
        BY <1>1, <1>3, <2>1, <2>2, QuietKept DEF Quiet
<1>8. CASE here /\ user # Empty
    <2>1. PICK new : new = [ServiceUser |-> user]
        OBVIOUS
    <2>2. Wrote(p, {"ServiceUser"}, new)
        BY <1>4, <1>4a, <1>5, <1>8, <2>1 DEF InstallAccount, apxServiceSetNames
    <2>3. NamesSet(reg', reg, none, user)
        BY <1>2, <1>5, <1>6, <1>8, SetNamesVal
    <2>4. reg'.val["ServiceUser"] = user /\ \A o \in Options \ {"ServiceUser"} : reg'.val[o] = reg.val[o]
        BY <1>4, <1>8, <2>3 DEF NamesSet
    <2>5. DOMAIN new = {"ServiceUser"} /\ new["ServiceUser"] = user /\ {"ServiceUser"} \in SUBSET Options
        BY <2>1, OptionsAre
    <2>6. Right(p, "ServiceUser", new)
        BY <2>4, <2>5 DEF Right, Same
    <2> QED
        BY <1>1, <1>3, <2>2, <2>4, <2>5, <2>6, WriteKept
<1> QED
    BY <1>7, <1>8

LEMMA InstallKept ==
    ASSUME CInv, TInv', NEW p \in Procs, docmdInstallService(p)
    PROVE  CInv'
<1>1. UNCHANGED <<sc, gui>> /\ proc[p].pc = "create"
    BY DEF docmdInstallService, At
<1>2. TypedRegistry(reg) /\ TypedProc(p, proc[p]) /\ ProcTyped /\ DOMAIN proc = Procs
    BY DEF CInv, TInv, TypeOK, ProcTyped
<1>3. CASE Exists
    <2>1. Goto(p, "failed") /\ UNCHANGED reg /\ UNCHANGED history
        BY <1>3 DEF docmdInstallService
    <2>2. \A q \in Procs : GoesOn(q)
        BY <1>1, <2>1, GoesStill DEF Running, Unread
    <2> QED
        BY <1>1, <2>1, <2>2, QuietKept DEF Quiet
<1>4. CASE ~Exists
    <2>1. PICK display, start : display = proc[p].os["DisplayName"].val /\ start = FoundOf(p, "Startup")
        OBVIOUS
    <2>2. PICK s : s = IF start = "auto" THEN "auto" ELSE "manual"
        OBVIOUS
    <2>3. PICK new, x : /\ new = [DisplayName |-> display, ServiceUser |-> "LocalSystem", Startup |-> s]
                        /\ x = [proc[p] EXCEPT !.pc = "account", !.service = TRUE]
        OBVIOUS
    <2>4. /\ reg' = apxServiceInstall(reg, display, start) /\ proc' = [proc EXCEPT ![p] = x]
          /\ Wrote(p, Srv, new)
        BY <1>4, <2>1, <2>2, <2>3 DEF docmdInstallService
    <2>5. /\ Srv = {"DisplayName", "ServiceUser", "Startup"} /\ Srv \in SUBSET Options
        BY OptionsAre, TypesAre
    <2>6. /\ DOMAIN new = Srv /\ new["DisplayName"] = display /\ new["ServiceUser"] = "LocalSystem"
          /\ new["Startup"] = s
        BY <2>3, <2>5
    <2>7. PICK v : v = [reg.val EXCEPT !["DisplayName"] = display, !["ServiceUser"] = "LocalSystem",
                                       !["Startup"] = s]
        OBVIOUS
    <2>8. reg' = [reg EXCEPT !.val = v]
        BY <2>2, <2>4, <2>7 DEF apxServiceInstall
    <2>9. reg'.val = v /\ DOMAIN reg.val = Options
        BY <1>2, <2>8 DEF TypedRegistry, TypedVal
    <2>10. \A o \in Options : reg'.val[o] = IF o \in Srv THEN new[o] ELSE reg.val[o]
        BY <2>5, <2>6, <2>7, <2>9
    <2>11. ASSUME NEW o \in Srv PROVE Right(p, o, new)
        BY <2>5, <2>6, <2>10 DEF Right, Same
    <2>12. \A q \in Procs : GoesOn(q)
        <3>1. /\ x.line = proc[p].line /\ x.os = proc[p].os /\ x.todo = proc[p].todo /\ x.pc = "account"
            BY <1>2, <2>3 DEF TypedProc
        <3>2. x.pc \notin Unread /\ proc[p].pc # "done" /\ x.todo \subseteq proc[p].todo \cup ToSave(proc[p].os)
            BY <1>1, <3>1 DEF Unread
        <3>3. \A q \in Procs : ProcKeeps(q)
            BY <1>2, <2>4, <3>1, <3>2, OneGoes
        <3>4. \A q \in Procs \ {p} : proc'[q] = proc[q]
            BY <1>2, <2>4
        <3> QED
            BY <1>1, <3>3, <3>4 DEF GoesOn, SheetFollows, SheetKeeps, EntryKeeps, Running
    <2> QED
        BY <1>1, <2>4, <2>5, <2>6, <2>10, <2>11, <2>12, WriteKept
<1> QED
    BY <1>3, <1>4

(* What is stored for one option; a string that is absent is one that is    *)
(* empty.                                                                   *)
LEMMA StoreVal ==
    ASSUME NEW r, TypedRegistry(r), NEW o \in Options, NEW v, NEW s, s = Store(r, o, v)
    PROVE  s.val[o] = v /\ \A q \in Options \ {o} : s.val[q] = r.val[q]
<1>1. Type(o) \in {"STR", "INT", "MSZ"}
    BY OptionsAre, TypesAre
<1>2. s = [r EXCEPT !.val[o] = v]
    <2>1. CASE Type(o) = "STR"
        <3>1. Null(o) = Empty
            BY <2>1 DEF Null
        <3>2. s = [r EXCEPT !.val[o] = IF v = Empty THEN Null(o) ELSE v]
            BY <2>1 DEF Store, apxRegistrySetStr
        <3>3. (IF v = Empty THEN Null(o) ELSE v) = v
            BY <3>1
        <3> QED
            BY <3>2, <3>3
    <2>2. CASE Type(o) = "INT"
        BY <2>2 DEF Store, apxRegistrySetNum
    <2>3. CASE Type(o) = "MSZ"
        BY <2>3 DEF Store, apxRegistrySetMzStr
    <2> QED
        BY <1>1, <2>1, <2>2, <2>3
<1> QED
    BY <1>2 DEF TypedRegistry, TypedVal

(* A list that p builds: what it stores is what it would store on what was  *)
(* asked for.                                                               *)
LEMMA BuiltSame ==
    ASSUME CInv, NEW p \in Procs, NEW o \in Options, Builds(p, o), o \notin overtaken,
           NEW v, v = Readable(reg.val[o]) \o Readable(proc[p].line[o].val)
    PROVE  Same(o, v, Given(p, o))
<1>1. PICK m, a, line : m = reg.val[o] /\ a = asked[o] /\ line = proc[p].line[o].val
    OBVIOUS
<1>2. Type(o) = "MSZ" /\ Values(o) = Seq(Strings)
    BY DEF Builds, Values
<1>3. m \in Seq(Strings) /\ a \in Seq(Strings) /\ line \in Seq(Strings)
    BY <1>1, <1>2 DEF CInv, TInv, TypeOK, TypedRegistry, TypedVal, HistoryTyped, ProcTyped, TypedProc, TypedOptions
<1>4. PICK r, l : r = Readable(a) /\ l = Readable(line)
    OBVIOUS
<1>5. Readable(m) = r
    BY <1>1, <1>2, <1>4 DEF CInv, ConfigurationIsMeant, Same
<1>6. l \in Seq(Strings) /\ Readable(l) = l
    BY <1>3, <1>4, ReadableItems, ReadableTwice
<1>7. ASSUME NEW b \in Seq(Strings)
      PROVE  Readable(r \o b) = r \o Readable(b)
    BY <1>3, <1>4, <1>7, ReadableConcat
<1>8. Readable(r \o l) = r \o l /\ Readable(r \o line) = r \o l
    BY <1>3, <1>4, <1>6, <1>7
<1>9. v = r \o l /\ Given(p, o) = r \o line
    BY <1>1, <1>4, <1>5 DEF Given
<1> QED
    BY <1>2, <1>7, <1>8, <1>9 DEF Same

(* One option saved from the command line.                                  *)
LEMMA SaveKept ==
    ASSUME CInv, TInv', NEW p \in Procs, SaveOption(p)
    PROVE  CInv'
<1>1. UNCHANGED <<sc, gui>> /\ proc[p].pc = "saving"
    BY DEF SaveOption, scm, At
<1>2. Is(p, "prunsrv") /\ ~Is(p, "prunmgr")
    BY <1>1, SrvPlace DEF SrvPlaces, CInv, TInv, TypeOK
<1>3. SrvOwn(p)
    BY <1>2, OwnAll DEF CInv
<1>4. TypedRegistry(reg) /\ TypedProc(p, proc[p]) /\ ProcTyped /\ DOMAIN proc = Procs
    BY DEF CInv, TInv, TypeOK, ProcTyped
<1>5. PICK o \in proc[p].todo :
          /\ o \in Options /\ proc' = [proc EXCEPT ![p].todo = @ \ {o}]
          /\ \/ /\ reg' = Store(reg, o, proc[p].os[o].val)
                /\ Wrote(p, {o}, [w \in {w \in {o} : proc[p].line[w].found} |-> Given(p, w)])
             \/ UNCHANGED reg /\ UNCHANGED history
    BY SaveIs DEF CInv
<1>6. \A q \in Procs : GoesOn(q)
    <2>1. PICK x : x = [proc[p] EXCEPT !.todo = @ \ {o}]
        OBVIOUS
    <2>2. proc' = [proc EXCEPT ![p] = x]
        BY <1>5, <2>1
    <2>3. /\ x.line = proc[p].line /\ x.os = proc[p].os /\ x.todo = proc[p].todo \ {o} /\ x.pc = "saving"
        BY <1>1, <1>4, <2>1 DEF TypedProc
    <2>4. x.pc \notin Unread /\ proc[p].pc # "done" /\ x.todo \subseteq proc[p].todo \cup ToSave(proc[p].os)
        BY <1>1, <2>3 DEF Unread
    <2>5. \A q \in Procs : ProcKeeps(q)
        BY <1>4, <2>2, <2>3, <2>4, OneGoes
    <2>6. \A q \in Procs \ {p} : proc'[q] = proc[q]
        BY <1>4, <2>2
    <2> QED
        BY <1>1, <2>5, <2>6 DEF GoesOn, SheetFollows, SheetKeeps, EntryKeeps, Running
<1>7. CASE UNCHANGED reg /\ UNCHANGED history
    BY <1>1, <1>6, <1>7, QuietKept DEF Quiet
<1>8. CASE /\ reg' = Store(reg, o, proc[p].os[o].val)
           /\ Wrote(p, {o}, [w \in {w \in {o} : proc[p].line[w].found} |-> Given(p, w)])
    <2>1. PICK new, v : /\ new = [w \in {w \in {o} : proc[p].line[w].found} |-> Given(p, w)]
                        /\ v = proc[p].os[o].val
        OBVIOUS
    <2>2. Knows(p, o) /\ proc[p].os[o].found
        BY <1>3, <1>5 DEF SrvOwn
    <2>3. DOMAIN new = {o} /\ new[o] = Given(p, o)
        BY <2>1, <2>2 DEF Knows
    <2>4. reg'.val[o] = v /\ \A q \in Options \ {o} : reg'.val[q] = reg.val[q]
        BY <1>4, <1>5, <1>8, <2>1, StoreVal
    <2>5. Right(p, o, new)
        <3>1. CASE ~Builds(p, o)
            <4>1. v = Given(p, o)
                BY <2>1, <2>2, <3>1 DEF Knows, Given
            <4> QED
                BY <2>3, <2>4, <4>1 DEF Right, Same
        <3>2. CASE Builds(p, o) /\ o \in behind[p] \cup overtaken
            BY <2>3, <3>2 DEF Right
        <3>3. CASE Builds(p, o) /\ o \notin behind[p] \cup overtaken
            <4>1. v = Readable(reg.val[o]) \o Readable(proc[p].line[o].val)
                BY <2>1, <2>2, <3>3 DEF Knows
            <4>2. Same(o, v, Given(p, o))
                BY <1>5, <3>3, <4>1, BuiltSame
            <4> QED
                BY <2>3, <2>4, <4>2 DEF Right
        <3> QED
            BY <3>1, <3>2, <3>3
    <2>6. {o} \in SUBSET Options /\ DOMAIN new \subseteq {o}
        BY <1>5, <2>3
    <2>7. Wrote(p, {o}, new)
        BY <1>8, <2>1
    <2> QED
        BY <1>1, <1>6, <2>4, <2>5, <2>6, <2>7, WriteKept
<1> QED
    BY <1>5, <1>7, <1>8

(* The words procrun knows are no empty strings.                            *)
LEMMA WordsFilled == \A s \in Startups \cup {"LocalSystem"} : s # Empty
<1>1. "auto" # Empty /\ "manual" # Empty /\ "disabled" # Empty /\ "LocalSystem" # Empty
    BY Zenon DEF Empty
<1> QED
    BY <1>1 DEF Startups

LEMMA AccountFilled == ASSUME NEW f PROVE Account(f) # Empty
BY WordsFilled DEF Account

(* The user has a sheet open when there is something to save.               *)
LEMMA SavingSheet ==
    ASSUME CInv, NEW p \in Procs, gui[p].sheet.bits # {}
    PROVE  gui[p].sheet.open /\ proc[p].pc \in Running /\ Is(p, "prunmgr") /\ ~Is(p, "prunsrv")
<1>1. Closed.bits = {}
    BY DEF Closed
<1>2. SheetOwn(p)
    BY OwnAll DEF CInv
<1>3. gui[p].sheet.open /\ proc[p].pc \in Running
    BY <1>1, <1>2 DEF SheetOwn
<1> QED
    BY <1>3, MgrPlace DEF Running, MgrPlaces, CInv, TInv, TypeOK

(* Saving page 1 writes what the user typed, or what is there.              *)
LEMMA FirstSaved ==
    ASSUME CInv, NEW p \in Procs, 1 \in gui[p].sheet.bits, Present, NEW f, f = gui[p].sheet.fields,
           NEW os, os = {"DisplayName", "Startup"}, NEW new, DOMAIN new = os \cap gui[p].sheet.mine,
           \A o \in DOMAIN new : new[o] = f[o], reg' = SavedPage(1, f)
    PROVE  /\ \A o \in os : Right(p, o, new)
           /\ \A o \in Options \ os : reg'.val[o] = reg.val[o]
<1>1. Is(p, "prunmgr") /\ proc[p].pc \in Running /\ gui[p].sheet.open
    BY SavingSheet
<1>2. MgrOwn(p) /\ SheetOwn(p) /\ TypedRegistry(reg)
    BY <1>1, OwnAll DEF CInv, TInv, TypeOK
<1>3. os \subseteq DOMAIN f /\ os \subseteq Options
    BY SavedFields, OptionsAre, PagesAre DEF CInv
<1>4. PICK d, start : d = f.DisplayName /\ start = f.Startup
    OBVIOUS
<1>5. PICK r : r = [reg EXCEPT !.val["DisplayName"] = d]
    OBVIOUS
<1>6. reg' = IF start = Empty THEN r ELSE [r EXCEPT !.val["Startup"] = start]
    BY <1>4, <1>5 DEF SavedPage, generalPropertySave, apxServiceSetOptions
<1>7. /\ DOMAIN r.val = Options /\ DOMAIN r = DOMAIN reg /\ r.val["DisplayName"] = d
      /\ \A o \in Options \ {"DisplayName"} : r.val[o] = reg.val[o]
    BY <1>2, <1>3, <1>5 DEF TypedRegistry, TypedVal
<1>8. /\ reg'.val["Startup"] = IF start = Empty THEN reg.val["Startup"] ELSE start
      /\ reg'.val["DisplayName"] = d
      /\ \A o \in Options \ os : reg'.val[o] = reg.val[o]
    <2>1. CASE start = Empty
        BY <1>3, <1>6, <1>7, <2>1
    <2>2. CASE start # Empty
        <3>1. reg' = [r EXCEPT !.val["Startup"] = start]
            BY <1>6, <2>2
        <3>2. "val" \in DOMAIN r /\ "Startup" \in DOMAIN r.val
            BY <1>2, <1>3, <1>7 DEF TypedRegistry
        <3>3. reg'.val["Startup"] = start /\ \A o \in Options \ {"Startup"} : reg'.val[o] = r.val[o]
            BY <1>7, <3>1, <3>2
        <3> QED
            BY <1>3, <1>7, <2>2, <3>3
    <2> QED
        BY <2>1, <2>2
<1>9. ASSUME NEW o \in os PROVE Right(p, o, new)
    <2>1. ~Builds(p, o) /\ o \in Cached
        BY <1>2, <1>3 DEF MgrOwn, Builds, Cached
    <2>2. CASE o \in DOMAIN new
        <3>1. reg'.val[o] = f[o]
            <4>1. CASE o = "Startup"
                <5>1. f["Startup"] \in Startups
                    BY <1>2, <2>2, <4>1 DEF SheetOwn, Meaning
                <5> QED
                    BY <1>4, <1>8, <4>1, <5>1, WordsFilled
            <4> QED
                BY <1>4, <1>8, <4>1
        <3> QED
            BY <2>2, <3>1 DEF Right, Same
    <2>3. CASE o \notin DOMAIN new
        <3>1. f[o] = EntryOf(p, o)
            BY <1>2, <1>3, <2>1, <2>3 DEF SheetOwn, Meaning
        <3>2. o \notin behind[p] => EntryOf(p, o) = reg.val[o]
            BY <1>1, <1>2, <2>1 DEF MgrOwn, Running
        <3>3. reg'.val[o] \in {f[o], reg.val[o]}
            BY <1>4, <1>8
        <3> QED
            BY <1>1, <2>1, <2>3, <3>1, <3>2, <3>3 DEF Right
    <2> QED
        BY <2>2, <2>3
<1> QED
    BY <1>8, <1>9

(* The other pages have one option, and the user typed it.                  *)
LEMMA OneSaved ==
    ASSUME CInv, NEW p \in Procs, NEW page \in gui[p].sheet.bits, page \in Pages \ {1},
           IF page = 2 THEN Present ELSE proc[p].key = "open", NEW f, f = gui[p].sheet.fields,
           reg' = SavedPage(page, f)
    PROVE  \E o \in gui[p].sheet.mine :
              /\ {w \in Options : PageOf(w) = page} = {o}
              /\ reg'.val[o] = IF o = "ServiceUser" THEN Account(f) ELSE f[o]
              /\ \A w \in Options \ {o} : reg'.val[w] = reg.val[w]
<1>1. PICK o \in gui[p].sheet.mine : PageOf(o) = page
    BY DEF CInv, TInv, SheetsFit, Fits
<1>2. o \in Options /\ TypedRegistry(reg)
    BY DEF CInv, TInv, TypeOK, GuiTyped, TypedGui, TypedSheet
<1>3. {w \in Options : PageOf(w) = page} = {o}
    BY <1>1, <1>2, OptionsAre, PagesAre
<1>4. CASE page = 2
    <2>1. o = "ServiceUser"
        BY <1>1, <1>2, <1>4, OptionsAre, PagesAre
    <2>2. PICK a, none, here : a = Account(f) /\ none = Empty /\ here = TRUE
        OBVIOUS
    <2>3. reg' = apxServiceSetNames(reg, here, none, a).reg
        BY <1>4, <2>2 DEF SavedPage, generalLogonSave
    <2>4. NamesSet(reg', reg, none, a)
        BY <1>2, <2>2, <2>3, SetNamesVal
    <2>5. a # Empty
        BY <2>2, AccountFilled
    <2> QED
        BY <1>3, <2>1, <2>2, <2>4, <2>5 DEF NamesSet
<1>5. CASE page # 2
    <2>1. o # "ServiceUser"
        BY <1>1, <1>5, PagesAre
    <2>2. reg' = Store(reg, o, f[o])
        <3>1. CASE page = 3
            <4>1. o = "LogLevel" /\ Type(o) = "STR"
                BY <1>1, <1>2, <3>1, OptionsAre, PagesAre, TypesAre
            <4> QED
                BY <3>1, <4>1 DEF SavedPage, generalLoggingSave, Store
        <3>2. CASE page = 4
            <4>1. o = "JvmOptions" /\ Type(o) = "MSZ"
                BY <1>1, <1>2, <3>2, OptionsAre, PagesAre, TypesAre
            <4> QED
                BY <3>2, <4>1 DEF SavedPage, generalJvmSave, Store
        <3>3. CASE page = 5
            <4>1. o = "StartMode" /\ Type(o) = "STR"
                BY <1>1, <1>2, <3>3, OptionsAre, PagesAre, TypesAre
            <4> QED
                BY <3>3, <4>1 DEF SavedPage, generalStartSave, Store
        <3>4. CASE page = 6
            <4>1. o = "StopTimeout" /\ Type(o) = "INT"
                BY <1>1, <1>2, <3>4, OptionsAre, PagesAre, TypesAre
            <4> QED
                BY <3>4, <4>1 DEF SavedPage, generalStopSave, Store
        <3> QED
            BY <1>5, <3>1, <3>2, <3>3, <3>4 DEF Pages
    <2>3. reg'.val[o] = f[o] /\ \A w \in Options \ {o} : reg'.val[w] = reg.val[w]
        BY <1>2, <2>2, StoreVal
    <2> QED
        BY <1>3, <2>1, <2>3
<1> QED
    BY <1>4, <1>5

(* ApplyPage writes what the user typed, and writes back the rest.          *)
LEMMA ApplyKept ==
    ASSUME CInv, TInv', NEW p \in Procs, ApplyPage(p)
    PROVE  CInv'
<1>1. UNCHANGED <<sc, proc>>
    BY ApplyIs DEF CInv
<1>2. PICK page \in gui[p].sheet.bits : page \in Pages /\ Applies(p, page)
    BY ApplyIs DEF CInv
<1>3. TypedGui(gui[p]) /\ TypedSheet(gui[p].sheet) /\ DOMAIN gui = Procs
    BY DEF CInv, TInv, TypeOK, GuiTyped, TypedGui
<1>4. Is(p, "prunmgr") /\ proc[p].pc \in Running /\ gui[p].sheet.open
    BY SavingSheet
<1>5. MgrOwn(p)
    BY <1>4, OwnAll DEF CInv
<1>6. PICK f, sheet : f = gui[p].sheet.fields /\ sheet = gui[p].sheet
    OBVIOUS
<1>7. \A q \in Procs : GoesOn(q)
    <2>1. \A q \in Procs : ProcKeeps(q)
        BY <1>1 DEF ProcKeeps
    <2>2. \A q \in Procs : EntryKeeps(q) /\ SheetKeeps(q)
        <3>1. CASE gui' = [gui EXCEPT ![p].sheet.ok = FALSE]
            BY <1>3, <1>4, <3>1 DEF EntryKeeps, SheetKeeps, TypedGui, TypedSheet
        <3>2. CASE gui' # [gui EXCEPT ![p].sheet.ok = FALSE]
            <4>1. PICK b, u : /\ b = (gui[p].refresh \/ (gui[p].ready /\ ~(page = 1 /\ 2 \in sheet.bits)))
                              /\ u = IF page = 2 THEN Account(f) ELSE gui[p].entry.user
                OBVIOUS
            <4>2. gui' = [gui EXCEPT ![p].sheet.bits = @ \ {page}, ![p].refresh = b, ![p].entry.user = u]
                BY <1>2, <1>6, <3>2, <4>1 DEF Applies
            <4> QED
                BY <1>3, <1>4, <4>2 DEF EntryKeeps, SheetKeeps, TypedGui, TypedSheet
        <3> QED
            BY <3>1, <3>2
    <2> QED
        BY <1>1, <2>1, <2>2 DEF GoesOn, SheetFollows
<1>8. CASE UNCHANGED reg /\ UNCHANGED history
    BY <1>1, <1>7, <1>8, QuietKept DEF Quiet
<1>9. PICK os, new : /\ os = {o \in DOMAIN f : PageOf(o) = page}
                     /\ new = [o \in os \cap sheet.mine |-> IF o = "ServiceUser" THEN Account(f) ELSE f[o]]
    OBVIOUS
<1>10. CASE /\ IF page <= 2 THEN Present ELSE proc[p].key = "open"
            /\ reg' = SavedPage(page, f) /\ Wrote(p, os, new)
    <2>1. os = {o \in Options : PageOf(o) = page}
        <3>1. \A o \in Options : PageOf(o) = page => o \in DOMAIN f
            BY <1>6, SavedFields DEF CInv
        <3> QED
            BY <1>3, <1>6, <1>9, <3>1 DEF TypedSheet
    <2>2. os \in SUBSET Options /\ DOMAIN new = os \cap sheet.mine
        BY <1>9, <2>1
    <2>3. (\A o \in os : Right(p, o, new)) /\ \A o \in Options \ os : reg'.val[o] = reg.val[o]
        <3>1. CASE page = 1
            <4>1. os = {"DisplayName", "Startup"}
                BY <2>1, <3>1, OptionsAre, PagesAre
            <4>2. \A o \in DOMAIN new : new[o] = f[o]
                BY <1>9, <4>1
            <4>3. Present /\ 1 \in gui[p].sheet.bits /\ reg' = SavedPage(1, f)
                BY <1>2, <1>10, <3>1
            <4>4. DOMAIN new = os \cap gui[p].sheet.mine /\ f = gui[p].sheet.fields
                BY <1>6, <2>2
            <4> QED
                BY <4>1, <4>2, <4>3, <4>4, FirstSaved
        <3>2. CASE page # 1
            <4>1. IF page = 2 THEN Present ELSE proc[p].key = "open"
                BY <1>2, <1>10, <3>2 DEF Pages
            <4>2. PICK o \in gui[p].sheet.mine :
                      /\ {w \in Options : PageOf(w) = page} = {o}
                      /\ reg'.val[o] = IF o = "ServiceUser" THEN Account(f) ELSE f[o]
                      /\ \A w \in Options \ {o} : reg'.val[w] = reg.val[w]
                <5>1. page \in Pages \ {1} /\ f = gui[p].sheet.fields /\ reg' = SavedPage(page, f)
                    BY <1>2, <1>6, <1>10, <3>2
                <5> QED
                    BY <4>1, <5>1, OneSaved
            <4>3. os = {o} /\ o \in DOMAIN new /\ new[o] = IF o = "ServiceUser" THEN Account(f) ELSE f[o]
                BY <1>6, <1>9, <2>1, <4>2
            <4>4. Right(p, o, new)
                BY <4>2, <4>3 DEF Right, Same
            <4> QED
                BY <4>2, <4>3, <4>4
        <3> QED
            BY <3>1, <3>2
    <2>4. DOMAIN new \subseteq os
        BY <2>2
    <2> QED
        BY <1>1, <1>7, <1>10, <2>2, <2>3, <2>4, WriteKept
<1>11. \/ UNCHANGED reg /\ UNCHANGED history
       \/ /\ IF page <= 2 THEN Present ELSE proc[p].key = "open"
          /\ reg' = SavedPage(page, f) /\ Wrote(p, os, new)
    BY <1>2, <1>6, <1>9 DEF Applies
<1> QED
    BY <1>8, <1>10, <1>11

(* The invariant holds at first, and every step keeps it.                   *)
LEMMA InitMeant == Init => CInv
<1> SUFFICES ASSUME Init PROVE CInv
    OBVIOUS
<1>1. TInv
    BY InitTypes
<1>2. ASSUME NEW p \in Procs
      PROVE  /\ proc[p].os = NoOptions /\ proc[p].line = NoOptions /\ proc[p].todo = {}
             /\ behind[p] = Options /\ gui[p].sheet = Closed
    <2>1. PICK l : proc[p] = [pc |-> l, index |-> 0, line |-> NoOptions, os |-> NoOptions, service |-> FALSE,
                              key |-> "none", todo |-> {}, mutex |-> FALSE]
        BY DEF Init
    <2>2. PICK n : n = NoGui
        OBVIOUS
    <2>3. n.sheet = Closed /\ DOMAIN n = {"entry", "class", "ready", "icon", "refresh", "start", "menu",
                                           "sheet", "edits", "host", "missed"}
        BY <2>2 DEF NoGui
    <2>4. gui[p] = [n EXCEPT !.edits = Job(p).edits]
        BY <2>2 DEF Init
    <2> QED
        BY <2>1, <2>3, <2>4 DEF Init
<1>3. \A o \in Options : NoOptions[o].add = FALSE
    BY DEF NoOptions
<1>4. SrvKnows
    BY <1>2 DEF SrvKnows, Knows
<1>5. MgrKnows
    <2>1. Cached \subseteq Options
        BY OptionsAre DEF Cached
    <2> QED
        BY <1>2, <1>3, <2>1 DEF MgrKnows
<1>6. SheetOpen /\ SheetMeant
    BY <1>2, BareSheet DEF SheetOpen, SheetMeant, Meaning
<1>7. ConfigurationIsMeant
    BY DEF Init, ConfigurationIsMeant, Same
<1> QED
    BY <1>1, <1>4, <1>5, <1>6, <1>7 DEF CInv

LEMMA StepMeant == CInv /\ [Next]_vars => CInv'
<1> SUFFICES ASSUME CInv, [Next]_vars PROVE CInv'
    OBVIOUS
<1>1. TInv'
    BY StepTypes DEF CInv
<1>2. CASE UNCHANGED vars
    <2>1. UNCHANGED <<sc, reg, proc, gui>> /\ UNCHANGED history
        BY <1>2 DEF vars, history
    <2>2. \A q \in Procs : GoesOn(q)
        BY <2>1 DEF GoesOn, ProcKeeps, EntryKeeps, SheetFollows, SheetKeeps
    <2> QED
        BY <1>1, <2>1, <2>2, WindowsKept
<1>3. ASSUME NEW p \in Procs, Prunsrv(p) PROVE CInv'
    BY <1>1, <1>3, MainKept, LoadKept, CommandKept, NamesKept, StartupKept, KeysKept, SaveKept, InstallKept,
       AccountKept, OtherKept, DeletedKept DEF Prunsrv
<1>4. ASSUME NEW p \in Procs, MainThread(p) PROVE CInv'
    BY <1>1, <1>4, ManagerKept, OtherKept, CommandKept, AlreadyKept, WindowKept, KeysKept, ApplyKept DEF MainThread
<1>5. ASSUME NEW p \in Procs, Worker(p) \/ Messages(p) \/ Callback(p) \/ refreshThread(p) PROVE CInv'
    BY <1>1, <1>5, AsideKept DEF Messages
<1>6. ASSUME NEW p \in Procs, User(p) PROVE CInv'
    BY <1>1, <1>6, AsideKept, WindowKept, VisitKept, EditKept DEF User
<1> QED
    BY <1>1, <1>2, <1>3, <1>4, <1>5, <1>6, ServiceKept, GoneKept DEF Next

(* What is stored of each option is what the last process to set it asked   *)
(* for, whatever commands and windows meet at the service: nobody writes an *)
(* option it was not told to write, or the value of another, but for those  *)
(* who write back what they read before somebody changed it, which the      *)
(* history names. For a list option that is what a reader of the registry   *)
(* sees of it.                                                              *)
THEOREM MeantIsKept == Spec => []ConfigurationIsMeant
<1>1. CInv => ConfigurationIsMeant
    BY DEF CInv
<1> QED
    BY <1>1, InitMeant, StepMeant, PTL DEF Spec
==============================================================================
