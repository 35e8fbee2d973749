-------------------------- MODULE JsvcLaunchProofs --------------------------
(***************************************************************************)
(* What holds of jsvc with its main(), for any circumstances of any number *)
(* of starts: its steps are steps of Jsvc, whose invariants it inherits;   *)
(* the service runs as its user, and its output has its logger.            *)
(***************************************************************************)
EXTENDS JsvcLaunch, JsvcProofs

-----------------------------------------------------------------------------
(* Every step is one of Jsvc's, or leaves the variables of Jsvc alone.      *)

LEMMA InitRefines == LaunchInit => Init
BY DEF LaunchInit

LEMMA StepRefines == [LaunchNext]_allVars => [Next]_vars
<1> SUFFICES ASSUME [LaunchNext]_allVars PROVE Next \/ UNCHANGED vars
    OBVIOUS
<1>1. CASE UNCHANGED allVars
    BY <1>1 DEF allVars
<1>2. ASSUME NEW k \in Instances, Main(k) PROVE Next \/ UNCHANGED vars
    <2>1. CASE Detach(k)
        BY <2>1 DEF Detach, Next
    <2>2. CASE Parse(k) \/ CheckUser(k) \/ FindHome(k) \/ ReExec(k) \/ Redirect(k)
        BY <2>2 DEF Parse, CheckUser, FindHome, ReExec, Redirect
    <2>3. CASE StopStart(k) \/ StopEnd(k)
        BY <2>3 DEF StopStart, StopEnd, Next
    <2> QED
        BY <1>2, <2>1, <2>2, <2>3 DEF Main
<1>3. ASSUME NEW k \in Instances, Controlled(k) PROVE Next
    <2>1. Controller(k)
        BY <1>3 DEF Controlled, ForkChild, EndRun, Controller
    <2> QED
        BY <2>1 DEF Next
<1>4. ASSUME NEW k \in Instances, Working(k) PROVE Next \/ UNCHANGED vars
    <2>1. Child(k) \/ Fails(k) \/ UNCHANGED vars
        BY <1>4 DEF Working, InitAsUser, InitRefused, LoadAsUser, StartAsUser, Reopen, Child
    <2> QED
        BY <2>1 DEF Next
<1>5. ASSUME NEW k \in Instances, RequestToGroup(k) \/ KillController(k) PROVE Next
    <2>1. CASE RequestToGroup(k)
        BY <2>1 DEF RequestToGroup, Next
    <2>2. CASE KillController(k)
        <3>1. Kill(k)
            BY <2>2 DEF KillController, Kill
        <3> QED
            BY <3>1 DEF Next
    <2> QED
        BY <1>5, <2>1, <2>2
<1>6. ASSUME NEW k \in Instances,
             WaitController(k) \/ WaitPidfile(k) \/ WaitReady(k) \/ Crash(k) \/ Fails(k)
      PROVE  Next
    BY <1>6 DEF Next
<1> QED
    BY <1>1, <1>2, <1>3, <1>4, <1>5, <1>6 DEF LaunchNext

\* main() changes nothing of what Jsvc says of controllers and children: with
\* every command line and every user, each of its steps is a step of Jsvc or
\* leaves Jsvc's variables alone.
THEOREM LaunchRefinesJsvc == LaunchSpec => Init /\ [][Next]_vars
BY InitRefines, StepRefines, PTL DEF LaunchSpec

LEMMA LaunchInvariance == LaunchSpec => []IInv
BY InitIInv, StepIInv, LaunchRefinesJsvc, PTL

\* Also with main() around it there is one service, the pid file names it, and a
\* stop that returns 0 has ended the process it signalled.
THEOREM LaunchedOnce == LaunchSpec => [](OneService /\ PidfileNamesService /\ StopIsHonest)
<1>1. IInv => OneService /\ PidfileNamesService /\ StopIsHonest
    BY DEF IInv, PidfileNamesService, OneService, Pid
<1> QED
    BY <1>1, LaunchInvariance, PTL

-----------------------------------------------------------------------------
(* Steps that bring no child nearer to the service, and end no controller   *)
(* but by a signal.                                                         *)

Dormant == {"none", "reaped"}
Early == {"fork", "open", "init"}
Late == Holding \ {"init", "start"}
Returned == Ended \ {"killed"}
Childless == {"off", "fork", "reaped"} \cup Returned

Quiet ==
    \A j \in Instances :
        /\ child'[j] \in Early => child[j] \in Early
        /\ child'[j] = "start" => child[j] = "start"
        /\ child'[j] \in Late => child[j] \in Late
        /\ child[j] = "none" => child'[j] = "none"
        /\ child[j] = "reaped" => child'[j] = "reaped"
        /\ ctl'[j] \in Childless => ctl[j] \in Childless \/ child'[j] = "reaped"
        /\ ctl'[j] \in Returned => ctl[j] \in Returned
        /\ ctl'[j] \notin Ended => ctl[j] \notin Ended

LEMMA DieQuiet ==
    ASSUME TypeOK, NEW k \in Instances, NEW s, Die(k, s), child[k] \notin Dormant,
           ctl' = ctl \/ ctl' = [ctl EXCEPT ![k] = "killed"]
    PROVE  Quiet
BY DEF TypeOK, Die, Quiet, Dormant, Early, Late, Holding, Childless, Returned, Ended

LEMMA SignalQuiet ==
    ASSUME TypeOK, NEW k \in Instances, NEW sig, SignalChild(k, sig),
           ctl' = ctl \/ ctl' = [ctl EXCEPT ![k] = "killed"]
    PROVE  Quiet
<1>1. CASE \E s : Die(k, s) /\ child[k] \notin Dormant
    BY <1>1, DieQuiet
<1>2. CASE UNCHANGED child
    BY <1>2 DEF TypeOK, Quiet, Childless, Returned, Ended
<1> QED
    BY <1>1, <1>2 DEF SignalChild, jvm, Dormant

LEMMA QuietSteps ==
    ASSUME TypeOK, NEW k \in Instances,
           \/ Launch(k) \/ WaitController(k) \/ WaitPidfile(k) \/ WaitReady(k)
           \/ Install(k) \/ Reap(k) \/ Signaled(k)
           \/ Open(k) \/ Check(k) \/ SetHandlers(k) \/ Ready(k) \/ LeaveLoop(k) \/ Stop(k)
           \/ Fails(k) \/ Crash(k) \/ RequestShutdown(k) \/ Kill(k)
           \/ StopChild \/ StopPoll \/ UNCHANGED vars
    PROVE  Quiet
<1> USE DEF Quiet, Dormant, Early, Late, Childless, Returned
<1>1. CASE UNCHANGED <<ctl, child>>
    BY <1>1
<1>2. CASE Launch(k) \/ Install(k) \/ Signaled(k)
    BY <1>2 DEF TypeOK, Launch, Install, Signaled, jvm, Ended
<1>3. CASE Reap(k)
    BY <1>3 DEF TypeOK, Reap, Ended, Holding
<1>4. CASE \E s : Die(k, s) /\ child[k] \notin Dormant /\ UNCHANGED ctl
    BY <1>4, DieQuiet
<1>5. CASE SetHandlers(k) \/ Ready(k) \/ LeaveLoop(k)
    BY <1>5 DEF TypeOK, SetHandlers, Ready, LeaveLoop, Advance, supervisor, Holding
<1>6. CASE Open(k)
    BY <1>4, <1>6 DEF TypeOK, Open, supervisor, Holding
<1>7. CASE Check(k)
    BY <1>4, <1>7 DEF TypeOK, Check, supervisor, Holding
<1>8. CASE Stop(k) \/ Fails(k) \/ Crash(k)
    BY <1>4, <1>8 DEF Stop, Fails, Crash, supervisor, Holding
<1>9. CASE RequestShutdown(k)
    <2> USE SignalQuiet
    <2> QED
        BY <1>9 DEF RequestShutdown, Request
<1>10. CASE Kill(k)
    <2>1. PICK sig \in Signals : KillWith(k, sig)
        BY <1>10 DEF Kill
    <2>2. CASE UNCHANGED jvm
        BY <2>1, <2>2 DEF TypeOK, KillWith, SignalController, jvm, Ended
    <2>3. CASE SignalChild(k, sig) /\ UNCHANGED ctl
        BY <2>3, SignalQuiet
    <2> QED
        BY <2>1, <2>2, <2>3 DEF KillWith, SignalController
<1>11. CASE StopChild
    <2>1. UNCHANGED ctl
        BY <1>11 DEF StopChild, supervisor
    <2>2. PidInFile # Nobody => PidInFile[1] \in Instances
        BY DEF PidInFile, Alive, Pid
    <2> QED
        BY <1>1, <1>11, <2>1, <2>2, SignalQuiet DEF StopChild, jvm
<1> QED
    BY <1>1, <1>2, <1>3, <1>5, <1>6, <1>7, <1>8, <1>9, <1>10, <1>11
       DEF WaitController, WaitPidfile, WaitReady, StopPoll, vars, supervisor, jvm

\* A controller between two children has none.
Settled == \A k \in Instances : ctl[k] \in Childless => child[k] \in Dormant

-----------------------------------------------------------------------------
(* The user. *)

\* A child has its caller's rights as far as "init"; then all its threads those of
\* its user, and the main thread, once the class is loaded, no capability.
RightsTyped ==
    /\ DOMAIN cred = Instances /\ DOMAIN threads = Instances /\ DOMAIN loaded = Instances
    /\ \A k \in Instances : Caller(k) = Cred!Login(Caller(k).uid)

AsUser(k, p) == p.uid = Args(k).user /\ (p.uid # Caller(k).uid => p.permitted \subseteq Cred!CAPSMIN)

RightsOf(k) ==
    /\ child[k] \in Early => cred[k] = Caller(k) /\ ~loaded[k]
    /\ Args(k).user # "none" /\ child[k] \in Late \cup {"start"} =>
          \A p \in threads[k] \cup {cred[k]} : AsUser(k, p)
    /\ Args(k).user # "none" /\ (child[k] \in Late \/ (child[k] = "start" /\ loaded[k])) =>
          cred[k].permitted = {}

Rights == RightsTyped /\ \A k \in Instances : RightsOf(k)

\* capset fails, or the process has the capabilities of CAPS, or, when libcap was
\* not found, the one the wrong bits stand for.
LEMMA SetCaps ==
    ASSUME NEW p, NEW libcap, NEW q, q = Cred!set_caps(p, Cred!CAPS, libcap), q # Cred!Refused
    PROVE  \/ q = Cred!Process(p.uid, Cred!CAPS, Cred!CAPS) /\ libcap \in {"found", "unused"}
           \/ q = Cred!Process(p.uid, {"CHOWN"}, {"CHOWN"})
<1>1. Cred!CAPS # Cred!CAPSMIN
    BY DEF Cred!CAPS, Cred!CAPSMIN
<1> QED
    BY <1>1 DEF Cred!set_caps, Cred!set_legacy_caps, Cred!Capset

LEMMA SwitchGivesUser ==
    ASSUME NEW uid, NEW user, NEW libcap, user # "none",
           NEW q, q = Cred!linuxset_user_group(Cred!Login(uid), user, libcap), q # Cred!Refused
    PROVE  q.uid = user /\ (user # uid => q.permitted \subseteq Cred!CAPSMIN)
<1> DEFINE p == Cred!Login(uid)
           raised == Cred!Forgiven(p, Cred!CAPS, libcap, user)
           switched == Cred!set_user_group(raised, user, TRUE)
<1>1. CASE uid # "root"
    BY <1>1 DEF Cred!linuxset_user_group, Cred!set_user_group, Cred!setgid, Cred!initgroups,
                Cred!Login, Cred!Process
<1>2. ASSUME uid = "root"
      PROVE  /\ p.uid = "root"
             /\ raised # Cred!Refused /\ switched # Cred!Refused
             /\ q = Cred!Forgiven(switched, Cred!CAPSMIN, libcap, user)
    BY <1>2 DEF Cred!linuxset_user_group, Cred!Login, Cred!Process
<1>3. ASSUME NEW r, NEW caps, Cred!Forgiven(r, caps, libcap, user) # Cred!Refused
      PROVE  Cred!Forgiven(r, caps, libcap, user).uid = r.uid
    BY <1>3 DEF Cred!Forgiven, Cred!set_caps, Cred!set_legacy_caps, Cred!Capset, Cred!Process
<1> HIDE DEF p, raised, switched
<1>4. CASE uid = "root" /\ user = "root"
    <2>1. raised.uid = "root"
        BY <1>2, <1>3, <1>4 DEF raised
    <2>2. switched.uid = "root"
        BY <1>2, <1>4, <2>1 DEF switched, Cred!set_user_group, Cred!setgid, Cred!initgroups
    <2> QED
        BY <1>2, <1>3, <1>4, <2>2
<1>5. CASE uid = "root" /\ user # "root"
    <2>1. raised = Cred!set_caps(p, Cred!CAPS, libcap)
        BY <1>2, <1>5 DEF Cred!Forgiven, raised
    <2>2. "SETUID" \in raised.effective /\ switched = Cred!Process(user, raised.permitted, {})
        <3>1. raised.uid = "root"
            BY <1>2, <1>3, <1>5 DEF raised
        <3> QED
            BY <1>2, <1>5, <3>1 DEF switched, Cred!set_user_group, Cred!setuid, Cred!setgid, Cred!initgroups
    <2>3. raised = Cred!Process("root", Cred!CAPS, Cred!CAPS) /\ libcap \in {"found", "unused"}
        <3>1. raised # Cred!Process("root", {"CHOWN"}, {"CHOWN"})
            BY <2>2 DEF Cred!Process
        <3> QED
            BY <1>2, <1>5, <2>1, <3>1, SetCaps
    <2>4. switched.uid = user /\ switched.permitted = Cred!CAPS
        BY <2>2, <2>3 DEF Cred!Process
    <2>5. Cred!set_caps(switched, Cred!CAPSMIN, libcap) = Cred!Process(user, Cred!CAPSMIN, Cred!CAPSMIN)
        <3>1. Cred!CAPSMIN \subseteq Cred!CAPS /\ "SETUID" \in Cred!CAPS \ Cred!CAPSMIN
            BY DEF Cred!CAPS, Cred!CAPSMIN
        <3> QED
            BY <2>3, <2>4, <3>1 DEF Cred!set_caps, Cred!set_legacy_caps, Cred!Capset
    <2>6. q = Cred!Process(user, Cred!CAPSMIN, Cred!CAPSMIN)
        <3>1. Cred!Process(user, Cred!CAPSMIN, Cred!CAPSMIN).permitted # Cred!Refused.permitted
            BY DEF Cred!Process, Cred!Refused, Cred!CAPSMIN
        <3> QED
            BY <1>2, <1>5, <2>5, <3>1 DEF Cred!Forgiven
    <2> QED
        BY <2>6 DEF Cred!Process
<1> QED
    BY <1>1, <1>4, <1>5

LEMMA DowngradeGivesNone ==
    ASSUME NEW p, NEW user, NEW libcap, user # "none"
    PROVE  /\ Cred!downgrade(p, user, libcap).uid = p.uid
           /\ Cred!downgrade(p, user, libcap).permitted = {}
BY DEF Cred!downgrade, Cred!set_caps, Cred!set_legacy_caps, Cred!Capset, Cred!Process,
       Cred!CAPS, Cred!CAPSMIN

LEMMA InitRights == LaunchInit => Rights
<1> SUFFICES ASSUME LaunchInit PROVE Rights
    OBVIOUS
<1>1. PICK combined \in Starts : given = [k \in Instances |-> Situation(Circumstances[combined[k]])]
    BY DEF LaunchInit
<1>2. ASSUME NEW k \in Instances PROVE Caller(k) = Cred!Login(Caller(k).uid)
    <2>1. Caller(k) = Cred!Login(Circumstances[combined[k]].caller)
        BY <1>1 DEF Caller, Situation
    <2> QED
        BY <2>1 DEF Cred!Login, Cred!Process
<1>3. \A k \in Instances : child[k] = "none"
    BY DEF LaunchInit, Init
<1>4. DOMAIN cred = Instances /\ DOMAIN threads = Instances /\ DOMAIN loaded = Instances
    BY DEF LaunchInit
<1> QED
    BY <1>2, <1>3, <1>4 DEF Rights, RightsOf, RightsTyped, Early, Late, Holding

\* Unless a child is forked or changes its rights.
LEMMA QuietRights ==
    ASSUME Rights, Quiet, UNCHANGED <<given, rights>>
    PROVE  Rights'
<1>1. \A k \in Instances : UNCHANGED <<Caller(k), Args(k)>>
    BY DEF Caller, Args
<1>2. RightsTyped'
    BY <1>1 DEF Rights, RightsTyped, rights
<1>3. ASSUME NEW k \in Instances PROVE RightsOf(k)'
    BY <1>1, <1>3 DEF Rights, RightsOf, Quiet, AsUser, Early, Late, rights
<1> QED
    BY <1>2, <1>3 DEF Rights

LEMMA OthersQuiet ==
    ASSUME TypeOK, [LaunchNext]_allVars,
           \A k \in Instances : /\ ~ForkChild(k) /\ ~EndRun(k)
                                /\ ~InitAsUser(k) /\ ~LoadAsUser(k) /\ ~StartAsUser(k)
    PROVE  Quiet /\ UNCHANGED <<given, rights>>
<1>1. CASE UNCHANGED allVars
    <2>1. UNCHANGED vars
        BY <1>1 DEF allVars
    <2>2. Quiet
        BY <2>1 DEF Quiet, vars, jvm, supervisor
    <2> QED
        BY <1>1, <2>2 DEF allVars, launchVars
<1>2. ASSUME NEW k \in Instances, Main(k) PROVE Quiet /\ UNCHANGED <<given, rights>>
    <2>1. Launch(k) \/ StopChild \/ StopPoll \/ UNCHANGED vars
        BY <1>2 DEF Main, Parse, StopStart, StopEnd, CheckUser, FindHome, ReExec, Detach, Redirect
    <2>2. UNCHANGED <<given, rights>>
        BY <1>2 DEF Main, Parse, StopStart, StopEnd, CheckUser, FindHome, ReExec, Detach, Redirect,
                    Goes, Returns
    <2> QED
        BY <2>1, <2>2, QuietSteps
<1>3. ASSUME NEW k \in Instances, Controlled(k) PROVE Quiet /\ UNCHANGED <<given, rights>>
    BY <1>3, QuietSteps DEF Controlled, launchVars
<1>4. ASSUME NEW k \in Instances, Working(k) PROVE Quiet /\ UNCHANGED <<given, rights>>
    <2>1. CASE Reopen(k)
        BY <2>1, QuietSteps DEF Reopen
    <2>2. CASE InitRefused(k)
        BY <2>2, QuietSteps DEF InitRefused, launchVars
    <2> QED
        BY <1>4, <2>1, <2>2, QuietSteps DEF Working, launchVars
<1>5. ASSUME NEW k \in Instances, RequestToGroup(k) \/ KillController(k)
      PROVE  Quiet /\ UNCHANGED <<given, rights>>
    <2>1. RequestShutdown(k) \/ Kill(k)
        BY <1>5 DEF RequestToGroup, KillController, Kill
    <2> QED
        BY <1>5, <2>1, QuietSteps DEF RequestToGroup, KillController
<1>6. ASSUME NEW k \in Instances,
             WaitController(k) \/ WaitPidfile(k) \/ WaitReady(k) \/ Crash(k) \/ Fails(k),
             UNCHANGED launchVars
      PROVE  Quiet /\ UNCHANGED <<given, rights>>
    BY <1>6, QuietSteps DEF launchVars
<1> QED
    BY <1>1, <1>2, <1>3, <1>4, <1>5, <1>6 DEF LaunchNext

\* It is enough to see to the instance of which the step is.
LEMMA RightsElsewhere ==
    ASSUME Rights, NEW k \in Instances, UNCHANGED given, RightsOf(k)',
           DOMAIN cred' = Instances, DOMAIN threads' = Instances, DOMAIN loaded' = Instances,
           \A j \in Instances \ {k} : UNCHANGED <<child[j], cred[j], threads[j], loaded[j]>>
    PROVE  Rights'
<1>1. \A j \in Instances : UNCHANGED <<Caller(j), Args(j)>>
    BY DEF Caller, Args
<1>2. RightsTyped'
    BY <1>1 DEF Rights, RightsTyped
<1>3. ASSUME NEW j \in Instances \ {k} PROVE RightsOf(j)'
    BY <1>1, <1>3 DEF Rights, RightsOf, AsUser
<1> QED
    BY <1>2, <1>3 DEF Rights

LEMMA StepRights == TypeOK /\ Rights /\ [LaunchNext]_allVars => Rights'
<1> SUFFICES ASSUME TypeOK, Rights, [LaunchNext]_allVars PROVE Rights'
    OBVIOUS
<1> USE DEF Early, Late, Holding
<1>0. DOMAIN cred = Instances /\ DOMAIN threads = Instances /\ DOMAIN loaded = Instances
    BY DEF Rights, RightsTyped
<1>1. ASSUME NEW k \in Instances, ForkChild(k) PROVE Rights'
    <2>1. /\ UNCHANGED given
          /\ DOMAIN cred' = Instances /\ DOMAIN threads' = Instances /\ DOMAIN loaded' = Instances
          /\ \A j \in Instances \ {k} : UNCHANGED <<child[j], cred[j], threads[j], loaded[j]>>
        BY <1>0, <1>1 DEF ForkChild, Fork, TypeOK
    <2>2. child'[k] = "fork" /\ cred'[k] = Caller(k) /\ ~loaded'[k]
        BY <1>0, <1>1 DEF ForkChild, Fork, TypeOK
    <2>3. RightsOf(k)'
        BY <2>1, <2>2 DEF RightsOf, Caller
    <2> QED
        BY <2>1, <2>3, RightsElsewhere
<1>2. ASSUME NEW k \in Instances, EndRun(k) PROVE Rights'
    <2>1. UNCHANGED <<given, rights, child>>
        BY <1>2 DEF EndRun, Exited, ForkFails, jvm
    <2> QED
        BY <2>1 DEF Rights, RightsTyped, RightsOf, AsUser, Caller, Args, rights
<1>3. ASSUME NEW k \in Instances, InitAsUser(k) PROVE Rights'
    <2>1. /\ UNCHANGED given
          /\ DOMAIN cred' = Instances /\ DOMAIN threads' = Instances /\ DOMAIN loaded' = Instances
          /\ \A j \in Instances \ {k} : UNCHANGED <<child[j], cred[j], threads[j], loaded[j]>>
        BY <1>0, <1>3 DEF InitAsUser, JavaInit, Advance, TypeOK
    <2>2. child[k] = "init" /\ child'[k] = "start" /\ loaded'[k] = loaded[k]
        BY <1>3 DEF InitAsUser, JavaInit, Advance, TypeOK
    <2>3. cred'[k] = Switched(k) /\ threads'[k] = {Switched(k)} /\ Switched(k) # Cred!Refused
        BY <1>0, <1>3 DEF InitAsUser
    <2>4. Args(k).user # "none" => AsUser(k, Switched(k))
        <3>1. cred[k] = Cred!Login(Caller(k).uid)
            BY <2>2 DEF Rights, RightsOf, RightsTyped
        <3> QED
            BY <2>3, <3>1, SwitchGivesUser DEF Switched, AsUser
    <2>5. RightsOf(k)'
        <3>1. ~loaded'[k]
            BY <2>2 DEF Rights, RightsOf
        <3> QED
            BY <2>1, <2>2, <2>3, <2>4, <3>1 DEF RightsOf, AsUser, Args, Caller
    <2> QED
        BY <2>1, <2>5, RightsElsewhere
<1>4. ASSUME NEW k \in Instances, LoadAsUser(k) PROVE Rights'
    <2>1. /\ UNCHANGED <<given, child, threads>>
          /\ DOMAIN cred' = Instances /\ DOMAIN threads' = Instances /\ DOMAIN loaded' = Instances
          /\ \A j \in Instances \ {k} : UNCHANGED <<child[j], cred[j], threads[j], loaded[j]>>
        BY <1>0, <1>4 DEF LoadAsUser, vars, jvm
    <2>2. /\ child[k] = "start"
          /\ cred'[k] = Cred!downgrade(cred[k], Args(k).user, given[k].libcap)
        BY <1>0, <1>4 DEF LoadAsUser
    <2>3. Args(k).user # "none" => cred'[k].uid = cred[k].uid /\ cred'[k].permitted = {}
        BY <2>2, DowngradeGivesNone
    <2>4. RightsOf(k)'
        BY <2>1, <2>2, <2>3 DEF Rights, RightsOf, AsUser, Args, Caller
    <2> QED
        BY <2>1, <2>4, RightsElsewhere
<1>5. ASSUME NEW k \in Instances, StartAsUser(k) PROVE Rights'
    <2>1. /\ UNCHANGED <<given, cred, loaded>>
          /\ DOMAIN cred' = Instances /\ DOMAIN threads' = Instances /\ DOMAIN loaded' = Instances
          /\ \A j \in Instances \ {k} : UNCHANGED <<child[j], cred[j], threads[j], loaded[j]>>
        BY <1>0, <1>5 DEF StartAsUser, JavaStart, Advance, TypeOK
    <2>2. child[k] = "start" /\ child'[k] = "started" /\ loaded[k]
        BY <1>5 DEF StartAsUser, JavaStart, Advance, TypeOK
    <2>3. threads'[k] = threads[k] \cup {cred[k]}
        BY <1>0, <1>5 DEF StartAsUser
    <2>4. RightsOf(k)'
        BY <2>1, <2>2, <2>3 DEF Rights, RightsOf, AsUser, Args, Caller
    <2> QED
        BY <2>1, <2>4, RightsElsewhere
<1> QED
    BY <1>1, <1>2, <1>3, <1>4, <1>5, OthersQuiet, QuietRights

\* For every user, every caller and every libcap: in a service that has -user all
\* threads are this user's, if root has changed to it with no more than the
\* capabilities to bind a port and to read, and the one that calls start() with none.
THEOREM RunsAsUser == LaunchSpec => []ServiceRunsAsUser
<1>1. ASSUME Rights PROVE ServiceRunsAsUser
    <2> SUFFICES ASSUME NEW k \in Instances, child[k] \in Holding \ {"init"}, Args(k).user # "none"
                 PROVE  /\ \A p \in threads[k] \cup {cred[k]} : AsUser(k, p)
                        /\ loaded[k] \/ child[k] # "start" => cred[k].permitted = {}
        BY DEF ServiceRunsAsUser, AsUser
    <2>1. child[k] \in Late \/ child[k] = "start"
        BY DEF Late
    <2> QED
        BY <1>1, <2>1 DEF Rights, RightsOf
<1>2. IInv => TypeOK
    BY DEF IInv, Typed
<1> QED
    BY <1>1, <1>2, InitRights, StepRights, LaunchInvariance, PTL DEF LaunchSpec

-----------------------------------------------------------------------------
(* The output. *)

\* The loggers two streams lead to, 0 for none.
Led(s) == {s.out.logger, s.err.logger}

OutputTyped ==
    /\ made \in [Instances -> Nat] /\ logger_pid \in [Instances -> Nat]
    /\ loggers \in [Instances -> SUBSET Nat] /\ grouped \in [Instances -> BOOLEAN]
    /\ DOMAIN boot = Instances /\ DOMAIN streams = Instances /\ DOMAIN childstreams = Instances

\* What is needed of one start.  Loggers are numbered as they are made; before
\* the output is set up there is no child and no logger; the controller's streams,
\* which the next child takes over, and the present child's lead to loggers that
\* run; the controller's own is gone when the controller has returned.
Connected(k) ==
    /\ \A n \in loggers[k] : n \in 1..made[k]
    /\ logger_pid[k] <= made[k]
    /\ boot[k] # "run" => child[k] = "none" /\ streams[k] = Terminal /\ ctl[k] \notin Returned
    /\ boot[k] = "run" /\ ctl[k] \notin Ended /\ ~grouped[k] => Led(streams[k]) \subseteq loggers[k] \cup {0}
    /\ child[k] \notin {"none", "zombie", "reaped"} /\ ~grouped[k] => Led(childstreams[k]) \subseteq loggers[k] \cup {0}
    /\ ctl[k] \in Returned => logger_pid[k] \notin loggers[k]

Output == OutputTyped /\ Settled /\ \A k \in Instances : Connected(k)

\* Streams that are set up lead to the new logger or where they led before.
LEMMA RedirectedLeads ==
    ASSUME NEW args, NEW cur, NEW next \in Nat, NEW r \in set_output(args, cur, next)
    PROVE  r.logger \in {0, next} /\ Led(r.streams) \subseteq Led(cur) \cup {0, r.logger}
<1>1. PICK opens \in SUBSET Files(args), n \in {0, next} :
          r = [streams |-> Redirected(args, cur, opens, n), logger |-> n]
    BY DEF set_output
<1>2. Led(Redirected(args, cur, opens, n)) \subseteq Led(cur) \cup {0, n}
    BY DEF Redirected, Led, File, Pipe
<1> QED
    BY <1>1, <1>2

LEMMA InitOutput == LaunchInit => Output
<1> SUFFICES ASSUME LaunchInit PROVE Output
    OBVIOUS
<1> USE DEF LaunchInit, Init
<1>1. OutputTyped
    BY DEF OutputTyped
<1>2. Settled
    BY DEF Settled, Dormant
<1>3. ASSUME NEW k \in Instances PROVE Connected(k)
    BY DEF Connected, Returned, Ended
<1> QED
    BY <1>1, <1>2, <1>3 DEF Output

NoOutput == {"none", "zombie", "reaped"}

\* No child is made, no controller returns.
Tame ==
    \A j \in Instances :
        /\ child'[j] \notin NoOutput => child[j] \notin NoOutput
        /\ child[j] = "none" => child'[j] = "none"
        /\ child[j] = "reaped" => child'[j] = "reaped"
        /\ ctl'[j] \in Childless => ctl[j] \in Childless \/ child'[j] = "reaped"
        /\ ctl'[j] \in Returned => ctl[j] \in Returned
        /\ ctl'[j] \notin Ended => ctl[j] \notin Ended

LEMMA QuietIsTame ==
    ASSUME TypeOK', Quiet
    PROVE  Tame
<1>1. \A j \in Instances : child'[j] \in NoOutput \cup Early \cup Late \cup {"start"}
    BY DEF TypeOK, NoOutput, Early, Late
<1>2. \A j \in Instances : child[j] \in Early \cup Late \cup {"start"} => child[j] \notin NoOutput
    BY DEF NoOutput, Early, Late, Holding
<1> QED
    BY <1>1, <1>2 DEF Quiet, Tame

LEMMA TameSettled ==
    ASSUME Settled, Tame
    PROVE  Settled'
BY DEF Settled, Tame, Dormant

\* The streams and loggers stay, and nobody comes to the run.
LEMMA TameOutput ==
    ASSUME Output, Tame, UNCHANGED <<streams, childstreams, logging>>, DOMAIN boot' = Instances,
           \A k \in Instances : boot'[k] = "run" <=> boot[k] = "run"
    PROVE  Output'
<1>1. OutputTyped'
    BY DEF Output, OutputTyped, logging
<1>2. ASSUME NEW k \in Instances PROVE Connected(k)'
    BY <1>2 DEF Output, Connected, Tame, logging, NoOutput
<1> QED
    BY <1>1, <1>2, TameSettled DEF Output

LEMMA OthersTame ==
    ASSUME TypeOK, TypeOK', Output, [LaunchNext]_allVars,
           \A k \in Instances : /\ ~ForkChild(k) /\ ~EndRun(k)
                                /\ ~Redirect(k) /\ ~Reopen(k) /\ ~RequestToGroup(k)
    PROVE  /\ Tame
           /\ UNCHANGED <<streams, childstreams, logging>>
           /\ DOMAIN boot' = Instances
           /\ \A k \in Instances : boot'[k] = "run" <=> boot[k] = "run"
<1> DEFINE Kept == /\ UNCHANGED <<streams, childstreams, logging>>
                   /\ DOMAIN boot' = Instances
                   /\ \A k \in Instances : boot'[k] = "run" <=> boot[k] = "run"
<1>1. DOMAIN boot = Instances
    BY DEF Output, OutputTyped
<1>2. CASE UNCHANGED allVars
    <2>1. UNCHANGED vars /\ Kept
        BY <1>1, <1>2 DEF allVars, launchVars, main, output
    <2>2. Quiet
        BY <2>1 DEF Quiet, vars, jvm, supervisor
    <2> QED
        BY <2>1, <2>2, QuietIsTame
<1>3. ASSUME NEW k \in Instances, Main(k) PROVE Tame /\ Kept
    <2>1. Launch(k) \/ StopChild \/ StopPoll \/ UNCHANGED vars
        BY <1>3 DEF Main, Parse, StopStart, StopEnd, CheckUser, FindHome, ReExec, Detach, Redirect
    <2> DEFINE Elsewhere == /\ UNCHANGED output /\ boot[k] # "run"
                            /\ \E to : to # "run" /\ boot' = [boot EXCEPT ![k] = to]
    <2>2. Elsewhere
        <3>1. ASSUME NEW from, NEW to, Goes(k, from, to), from # "run", to # "run"
              PROVE  Elsewhere
            BY <3>1 DEF Goes
        <3>2. ASSUME NEW from, NEW code, Returns(k, from, code), from # "run"
              PROVE  Elsewhere
            BY <3>2 DEF Returns
        <3>3. CASE ReExec(k)
            BY <3>2, <3>3 DEF ReExec
        <3> QED
            BY <1>3, <3>1, <3>2, <3>3
               DEF Main, Parse, StopStart, StopEnd, CheckUser, FindHome, Detach
    <2>3. Kept
        BY <1>1, <2>2 DEF output
    <2> QED
        BY <2>1, <2>3, QuietSteps, QuietIsTame
<1>4. ASSUME NEW k \in Instances,
             \/ Install(k) \/ Reap(k) \/ Signaled(k) \/ Open(k) \/ Check(k) \/ SetHandlers(k)
             \/ Ready(k) \/ LeaveLoop(k) \/ Stop(k) \/ Fails(k) \/ Crash(k)
             \/ WaitController(k) \/ WaitPidfile(k) \/ WaitReady(k) \/ Kill(k),
             UNCHANGED <<main, streams, childstreams, logging>>
      PROVE  Tame /\ Kept
    <2>1. Kept
        BY <1>1, <1>4 DEF main
    <2> QED
        BY <1>4, <2>1, QuietSteps, QuietIsTame
<1>5. ASSUME NEW k \in Instances, InitAsUser(k) \/ LoadAsUser(k) \/ StartAsUser(k) PROVE Tame /\ Kept
    <2>1. Kept
        BY <1>1, <1>5 DEF InitAsUser, LoadAsUser, StartAsUser, main, output
    <2>2. Tame
        BY <1>5 DEF InitAsUser, LoadAsUser, StartAsUser, JavaInit, JavaStart, Advance, Tame, TypeOK,
                    NoOutput, vars, jvm, supervisor
    <2> QED
        BY <2>1, <2>2
<1>6. ASSUME NEW k \in Instances, Controlled(k) \/ Working(k) PROVE Tame /\ Kept
    BY <1>4, <1>5, <1>6 DEF Controlled, Working, InitRefused, launchVars, output
<1>7. ASSUME NEW k \in Instances, KillController(k) PROVE Tame /\ Kept
    <2>1. Kill(k)
        BY <1>7 DEF KillController, Kill
    <2> QED
        BY <1>4, <1>7, <2>1 DEF KillController
<1> QED
    BY <1>2, <1>3, <1>4, <1>6, <1>7 DEF LaunchNext, launchVars, output

LEMMA StepOutput == TypeOK /\ TypeOK' /\ Output /\ [LaunchNext]_allVars => Output'
<1> SUFFICES ASSUME TypeOK, TypeOK', Output, [LaunchNext]_allVars PROVE Output'
    OBVIOUS
<1>1. OutputTyped /\ Settled /\ \A k \in Instances : Connected(k)
    BY DEF Output
<1>2. ASSUME NEW k \in Instances, ForkChild(k) PROVE Output'
    <2>1. OutputTyped'
        BY <1>1, <1>2 DEF ForkChild, OutputTyped, main, logging
    <2>2. Settled'
        BY <1>1, <1>2 DEF ForkChild, Fork, Settled, TypeOK, Childless, Returned, Ended
    <2>3. ASSUME NEW j \in Instances, j # k PROVE Connected(j)'
        BY <1>1, <1>2, <2>3 DEF ForkChild, Fork, Connected, TypeOK, OutputTyped, main, logging
    <2>4. Connected(k)'
        BY <1>1, <1>2 DEF ForkChild, Fork, Connected, TypeOK, OutputTyped, main, logging,
                          Returned, Ended
    <2> QED
        BY <2>1, <2>2, <2>3, <2>4 DEF Output
<1>3. ASSUME NEW k \in Instances, EndRun(k) PROVE Output'
    <2>1. /\ UNCHANGED <<main, child, streams, childstreams, made, logger_pid, grouped>>
          /\ ctl' = [ctl EXCEPT ![k] = ctl'[k]] /\ ctl[k] \in Childless \ Returned
          /\ ctl'[k] \in Childless
          /\ loggers' = [loggers EXCEPT ![k] = IF ctl'[k] \in Ended THEN @ \ {logger_pid[k]} ELSE @]
        BY <1>3 DEF EndRun, Exited, ForkFails, Returning, TypeOK, jvm, Childless, Returned, Ended
    <2>2. OutputTyped'
        BY <1>1, <2>1 DEF OutputTyped, main
    <2>3. Settled'
        BY <1>1, <2>1 DEF Settled, TypeOK
    <2>4. ASSUME NEW j \in Instances, j # k PROVE Connected(j)'
        BY <1>1, <2>1, <2>4 DEF Connected, TypeOK, OutputTyped, main
    <2>5. child[k] \in Dormant /\ boot[k] = "run"
        BY <1>1, <1>3, <2>1 DEF Settled, EndRun
    <2>6. Connected(k)'
        BY <1>1, <2>1, <2>5 DEF Connected, TypeOK, OutputTyped, main, Dormant, Childless, Returned, Ended
    <2> QED
        BY <2>2, <2>3, <2>4, <2>6 DEF Output
<1>4. ASSUME NEW k \in Instances, Redirect(k) PROVE Output'
    <2>1. PICK r \in set_output(Args(k), streams[k], made[k] + 1) :
              /\ streams' = [streams EXCEPT ![k] = r.streams]
              /\ logger_pid' = [logger_pid EXCEPT ![k] = r.logger]
              /\ loggers' = [loggers EXCEPT ![k] = {r.logger} \ {0}]
              /\ made' = [made EXCEPT ![k] = r.logger]
        BY <1>4 DEF Redirect
    <2>2. /\ ctl[k] = "fork" /\ boot[k] # "run" /\ boot' = [boot EXCEPT ![k] = "run"]
          /\ UNCHANGED <<child, ctl, childstreams, grouped>>
        BY <1>4 DEF Redirect, vars, jvm, supervisor
    <2>3. made[k] + 1 \in Nat /\ made[k] + 1 > 0
        BY <1>1 DEF OutputTyped
    <2>4. r.logger \in {0, made[k] + 1} /\ Led(r.streams) \subseteq {0, r.logger}
        <3>1. Led(Terminal) = {0}
            BY DEF Led, Terminal, File
        <3>2. streams[k] = Terminal
            BY <1>1, <2>2 DEF Connected
        <3> QED
            BY <2>3, <3>1, <3>2, RedirectedLeads
    <2>5. OutputTyped'
        BY <1>1, <2>1, <2>2, <2>3, <2>4 DEF OutputTyped
    <2>6. Settled'
        BY <1>1, <2>2 DEF Settled
    <2>7. ASSUME NEW j \in Instances, j # k PROVE Connected(j)'
        BY <1>1, <2>1, <2>2, <2>7 DEF Connected, OutputTyped
    <2>8. Connected(k)'
        <3>1. child[k] = "none" /\ ctl[k] \notin Returned
            BY <1>1, <2>2 DEF Connected
        <3> QED
            BY <1>1, <2>1, <2>2, <2>3, <2>4, <3>1 DEF Connected, OutputTyped
    <2> QED
        BY <2>5, <2>6, <2>7, <2>8 DEF Output
<1>5. ASSUME NEW k \in Instances, Reopen(k) PROVE Output'
    <2>1. PICK r \in set_output(Args(k), childstreams[k], made[k] + 1) :
              /\ childstreams' = [childstreams EXCEPT ![k] = r.streams]
              /\ loggers' = [loggers EXCEPT ![k] = @ \cup ({r.logger} \ {0})]
              /\ made' = [made EXCEPT ![k] = IF r.logger = 0 THEN @ ELSE r.logger]
        BY <1>5 DEF Reopen
    <2>2. child[k] = "loop" /\ UNCHANGED <<boot, child, ctl, streams, logger_pid, grouped>>
        BY <1>5 DEF Reopen, vars, jvm, supervisor, main
    <2>3. made[k] + 1 \in Nat /\ made[k] \in Nat
        BY <1>1 DEF OutputTyped
    <2>4. r.logger \in {0, made[k] + 1} /\ Led(r.streams) \subseteq Led(childstreams[k]) \cup {0, r.logger}
        BY <2>3, RedirectedLeads
    <2>5. OutputTyped'
        BY <1>1, <2>1, <2>2, <2>3, <2>4 DEF OutputTyped
    <2>6. Settled'
        BY <1>1, <2>2 DEF Settled
    <2>7. ASSUME NEW j \in Instances, j # k PROVE Connected(j)'
        BY <1>1, <2>1, <2>2, <2>7 DEF Connected, OutputTyped
    <2>8. Connected(k)'
        BY <1>1, <2>1, <2>2, <2>3, <2>4 DEF Connected, OutputTyped
    <2> QED
        BY <2>5, <2>6, <2>7, <2>8 DEF Output
<1>6. ASSUME NEW k \in Instances, RequestToGroup(k) PROVE Output'
    <2>1. Tame
        BY <1>6, QuietSteps, QuietIsTame DEF RequestToGroup
    <2>2. /\ UNCHANGED <<boot, streams, childstreams, made, logger_pid>>
          /\ \/ UNCHANGED <<loggers, grouped>>
             \/ /\ loggers' = [loggers EXCEPT ![k] = @ \ {logger_pid[k]}]
                /\ grouped' = [grouped EXCEPT ![k] = TRUE]
        BY <1>6 DEF RequestToGroup, main
    <2>3. OutputTyped'
        BY <1>1, <2>2 DEF OutputTyped
    <2>4. Settled'
        BY <1>1, <2>1, TameSettled
    <2>5. ASSUME NEW j \in Instances PROVE Connected(j)'
        BY <1>1, <2>1, <2>2 DEF Connected, OutputTyped, Tame, NoOutput
    <2> QED
        BY <2>3, <2>4, <2>5 DEF Output
<1> QED
    BY <1>2, <1>3, <1>4, <1>5, <1>6, OthersTame, TameOutput

\* For any circumstances and any number of children and reopenings: output sent
\* to syslog has a process that reads it while its child lives, unless the
\* service signals its process group, and the controller's is gone with it.
THEOREM OutputIsServed == LaunchSpec => []LoggerServesOutput
<1>1. Output => LoggerServesOutput
    BY DEF Output, Connected, LoggerServesOutput, Written, Led, Returned
<1>2. IInv => TypeOK
    BY DEF IInv, Typed
<1> QED
    BY <1>1, <1>2, InitOutput, StepOutput, LaunchInvariance, PTL DEF LaunchSpec

=============================================================================
