----------------------------- MODULE JsvcProofs -----------------------------
(***************************************************************************)
(* What holds of jsvc for any number of starts, forks and signals: its     *)
(* type, that the pid file names the service, that there is one service,   *)
(* and what the result of jsvc -stop means.                                *)
(***************************************************************************)
EXTENDS Jsvc, TLAPS

-----------------------------------------------------------------------------
(* The inductive invariant. *)

Gone == {"none", "reaped"}

\* A child that is about to lock the pid file has the file of that name open.
OpenIsNamed ==
    ~foreign => \A k \in Instances : child[k] = "open" => dir # 0 /\ fd[k] = dir

\* The process jsvc -stop has signalled is in the pid file while it lives, and
\* is not a process that is yet to be forked.
TargetIsNamed ==
    /\ target # Nobody => target[2] <= gen[target[1]]
    /\ ~foreign /\ Alive(target) => dir # 0 /\ content[dir] = target

\* A controller without a child has forked none.
Forked == \A k \in Instances : child[k] # "none" => gen[k] > 0

Typed == TypeOK /\ Forked

IInv == Typed /\ PidfileNamesService /\ OpenIsNamed /\ TargetIsNamed /\ StopIsHonest

\* Nothing becomes alive, enters the critical stages or changes its file.
Calm ==
    /\ \A j \in Instances : /\ child'[j] \in Holding => child[j] \in Holding
                            /\ child'[j] = "open" => child[j] = "open" /\ fd'[j] = fd[j]
                            /\ child'[j] \notin Gone => child[j] \notin Gone
                            /\ child'[j] # "none" => child[j] # "none"
    /\ UNCHANGED <<gen, pidfile>>

JvmTyped ==
    /\ child \in [Instances -> {"none", "fork", "open", "zombie", "reaped"} \cup Holding]
    /\ exit \in [Instances -> {"none", "0", "122", "123", "error", "signal"}]
    /\ fd \in [Instances -> 0..Len(content)]
    /\ stopping \in [Instances -> BOOLEAN] /\ doreload \in [Instances -> BOOLEAN]

\* A function on the indexes of a sequence is a sequence of the same length.
LEMMA SeqFromFunction ==
    ASSUME NEW S, NEW s \in Seq(S), NEW f \in [1..Len(s) -> S]
    PROVE  f \in Seq(S) /\ Len(f) = Len(s)
OBVIOUS

\* A child that dies was alive.
LEMMA DieEffect ==
    ASSUME TypeOK, UNCHANGED <<gen, pidfile>>,
           NEW k \in Instances, NEW status \in {"0", "122", "123", "error", "signal"},
           child[k] \notin Gone, Die(k, status)
    PROVE  JvmTyped' /\ Calm
BY DEF TypeOK, Die, JvmTyped, Calm, Holding, Gone, pidfile

\* A signal kills a child, sets its flags or does nothing.
LEMMA SignalEffect ==
    ASSUME TypeOK, UNCHANGED <<gen, pidfile>>,
           NEW k \in Instances, NEW sig, SignalChild(k, sig)
    PROVE  JvmTyped' /\ Calm
<1> DEFINE Killed == child[k] \in {"fork", "open", "init", "start", "started"} /\ gen[k] = 1
           Exits == child[k] \in {"start", "started"} /\ sig # "USR1"
           Flagged == child[k] \in {"handlers", "loop"} /\ sig # "USR1" /\ ~stopping[k]
<1>1. CASE Exits
    <2>1. Die(k, "error")
        BY <1>1 DEF SignalChild
    <2> QED
        BY <1>1, <2>1, DieEffect DEF Gone
<1>2. CASE ~Exits /\ Killed
    <2>1. Die(k, "signal")
        BY <1>2 DEF SignalChild
    <2> QED
        BY <1>2, <2>1, DieEffect DEF Gone
<1>3. CASE ~Exits /\ ~Killed /\ Flagged
    <2>1. /\ stopping' = [stopping EXCEPT ![k] = TRUE]
          /\ doreload' = [doreload EXCEPT ![k] = (sig = "HUP")]
          /\ UNCHANGED <<child, exit, fd>>
        BY <1>3 DEF SignalChild
    <2> QED
        BY <2>1 DEF TypeOK, JvmTyped, Calm, pidfile
<1>4. CASE ~Exits /\ ~Killed /\ ~Flagged
    <2>1. UNCHANGED jvm
        BY <1>4 DEF SignalChild
    <2> QED
        BY <2>1 DEF TypeOK, JvmTyped, Calm, jvm, pidfile
<1> QED
    BY <1>1, <1>2, <1>3, <1>4

\* A live process has a name of its own.
LEMMA AliveFacts ==
    ASSUME TypeOK
    PROVE  /\ ~Alive(Nobody)
           /\ \A k \in Instances : child[k] \notin Gone => Alive(Pid(k))
BY DEF Alive, Pid, Nobody, Gone

LEMMA CalmAlive ==
    ASSUME TypeOK, Calm, NEW p, Alive(p)'
    PROVE  Alive(p)
BY DEF Calm, Alive, Pid, Gone

\* Steps that are calm and leave the stop command alone keep the invariant.
LEMMA CalmKeeps ==
    ASSUME IInv, Typed', Calm, UNCHANGED <<cmd, target>>
    PROVE  IInv'
<1> USE DEF IInv, Typed
<1>1. PidfileNamesService'
    BY DEF PidfileNamesService, Calm, pidfile, Pid
<1>2. OpenIsNamed'
    BY DEF OpenIsNamed, Calm, pidfile
<1>3. TargetIsNamed'
    BY CalmAlive DEF TargetIsNamed, Calm, pidfile
<1>4. StopIsHonest'
    BY CalmAlive DEF StopIsHonest, Calm, pidfile
<1> QED
    BY <1>1, <1>2, <1>3, <1>4

-----------------------------------------------------------------------------
(* The initial states and the steps. *)

LEMMA InitIInv == Init => IInv
<1> SUFFICES ASSUME Init PROVE IInv
    OBVIOUS
<1> USE DEF Init
<1>1. content \in Seq(Pids \cup {Nobody}) /\ Len(content) = 0
    OBVIOUS
<1>2. TypeOK
    <2>1. /\ content \in Seq(Pids \cup {Nobody})
          /\ dir \in 0..Len(content)
          /\ fd \in [Instances -> 0..Len(content)]
        BY <1>1
    <2>2. up \subseteq Pids /\ signals \in 0..MaxSignals
        BY JsvcAssumption
    <2>3. foreign \in BOOLEAN
        OBVIOUS
    <2>4. \A k \in Instances : gen[k] <= MaxForks[k]
        BY JsvcAssumption
    <2> QED
        BY <2>1, <2>2, <2>3, <2>4 DEF TypeOK
<1>3. \A k \in Instances : child[k] = "none"
    OBVIOUS
<1>4. PidfileNamesService /\ OpenIsNamed
    BY <1>3 DEF PidfileNamesService, OpenIsNamed, Holding
<1>5. TargetIsNamed /\ StopIsHonest /\ Forked
    BY <1>3 DEF TargetIsNamed, StopIsHonest, Forked, Alive
<1> QED
    BY <1>2, <1>4, <1>5 DEF IInv, Typed

LEMMA CalmForked ==
    ASSUME Forked, Calm
    PROVE  Forked'
BY DEF Forked, Calm

LEMMA StepTyped == Typed /\ [Next]_vars => Typed'
<1> SUFFICES ASSUME TypeOK, Forked, [Next]_vars PROVE TypeOK' /\ Forked'
    BY DEF Typed
<1> USE JsvcAssumption
<1>1. CASE UNCHANGED vars
    BY <1>1 DEF TypeOK, Forked, vars, start, supervisor, jvm, pidfile, operator
<1>2. CASE StopChild
    <2>1. PidInFile \in Pids \cup {Nobody}
        BY DEF PidInFile, TypeOK, Alive, Nobody
    <2>2. JvmTyped' /\ Calm
        <3>1. CASE PidInFile = Nobody
            BY <1>2, <3>1 DEF StopChild, TypeOK, JvmTyped, Calm, jvm, supervisor, pidfile
        <3>2. CASE PidInFile # Nobody
            <4>1. PidInFile[1] \in Instances
                BY <2>1, <3>2 DEF Pids
            <4>2. SignalChild(PidInFile[1], "TERM") /\ UNCHANGED <<gen, pidfile>>
                BY <1>2, <3>2 DEF StopChild, supervisor
            <4> QED
                BY <4>1, <4>2, SignalEffect
        <3> QED
            BY <3>1, <3>2
    <2> QED
        BY <1>2, <2>1, <2>2, CalmForked DEF StopChild, TypeOK, JvmTyped, start, supervisor, pidfile
<1>3. CASE StopPoll
    BY <1>3 DEF StopPoll, TypeOK, Forked, start, supervisor, jvm, pidfile
<1>4. ASSUME NEW k \in Instances, Launch(k) \/ WaitController(k) \/ WaitPidfile(k) \/ WaitReady(k)
      PROVE  TypeOK' /\ Forked'
    BY <1>4 DEF Launch, WaitController, WaitPidfile, WaitReady, ControllerEnded, TypeOK, Forked,
                Ended, start, supervisor, jvm, pidfile, operator
<1>5. ASSUME NEW k \in Instances, Controller(k)
      PROVE  TypeOK' /\ Forked'
    <2>1. CASE Fork(k)
        <3>1. gen' \in [Instances -> Nat] /\ \A j \in Instances : gen'[j] <= MaxForks[j]
            BY <2>1 DEF Fork, TypeOK
        <3>2. Forked'
            BY <2>1 DEF Fork, TypeOK, Forked
        <3> QED
            BY <2>1, <3>1, <3>2 DEF Fork, TypeOK, start, pidfile, operator
    <2>2. CASE ForkFails(k) \/ Install(k) \/ Signaled(k) \/ Reap(k)
        BY <2>2 DEF ForkFails, Install, Signaled, Reap, TypeOK, Forked, Ended, start, jvm, pidfile,
                    operator
    <2>3. CASE Exited(k)
        <3>1. foreign' \in BOOLEAN /\ content' = content /\ dir' \in {0, dir}
            <4>1. CASE exit[k] = "122"
                BY <2>3, <4>1 DEF Exited, TypeOK, pidfile
            <4>2. CASE exit[k] # "122"
                <5>1. Unlink
                    BY <2>3, <4>2 DEF Exited
                <5> QED
                    BY <5>1 DEF Unlink
            <4> QED
                BY <4>1, <4>2
        <3>2. ctl' \in [Instances -> {"off", "fork", "install", "wait", "reaped"} \cup Ended]
            BY <2>3 DEF Exited, TypeOK, Ended
        <3> QED
            BY <2>3, <3>1, <3>2 DEF Exited, TypeOK, Forked, start, jvm, operator
    <2> QED
        BY <1>5, <2>1, <2>2, <2>3 DEF Controller
<1>6. ASSUME NEW k \in Instances, Child(k)
      PROVE  TypeOK' /\ Forked'
    <2>1. CASE Open(k)
        <3>1. CASE child' = [child EXCEPT ![k] = "open"]
            <4>1. /\ content' \in Seq(Pids \cup {Nobody})
                  /\ Len(content') \in Nat /\ Len(content') >= Len(content)
                  /\ dir' \in 0..Len(content')
                <5>1. CASE dir = 0
                    <6>1. content' = Append(content, Nobody) /\ dir' = Len(content) + 1
                        BY <2>1, <3>1, <5>1 DEF Open, Die, TypeOK
                    <6> QED
                        BY <6>1 DEF TypeOK
                <5>2. CASE dir # 0
                    BY <2>1, <3>1, <5>2 DEF Open, Die, TypeOK
                <5> QED
                    BY <5>1, <5>2
            <4>2. fd' = [fd EXCEPT ![k] = dir'] /\ UNCHANGED <<exit, stopping, doreload>>
                BY <2>1, <3>1 DEF Open, Die, TypeOK
            <4>3. fd' \in [Instances -> 0..Len(content')]
                BY <4>1, <4>2 DEF TypeOK
            <4>4. Forked'
                BY <2>1, <3>1 DEF Open, TypeOK, Forked, supervisor
            <4> QED
                BY <2>1, <3>1, <4>1, <4>2, <4>3, <4>4 DEF Open, TypeOK, start, supervisor, operator
        <3>2. CASE Die(k, "error") /\ UNCHANGED <<dir, content>>
            <4>1. JvmTyped' /\ Forked'
                BY <2>1, <3>2 DEF Open, Die, TypeOK, JvmTyped, Forked, supervisor
            <4> QED
                BY <2>1, <3>2, <4>1 DEF Open, TypeOK, JvmTyped, start, supervisor, operator
        <3> QED
            BY <2>1, <3>1, <3>2 DEF Open
    <2>2. CASE Check(k)
        <3>1. CASE Alive(content[fd[k]])
            <4>1. Die(k, "122") /\ UNCHANGED <<gen, pidfile>> /\ child[k] \notin Gone
                BY <2>2, <3>1 DEF Check, supervisor, pidfile, Gone
            <4>2. JvmTyped' /\ Forked'
                BY <4>1, DieEffect, CalmForked
            <4> QED
                BY <2>2, <4>1, <4>2 DEF Check, TypeOK, JvmTyped, start, supervisor, pidfile, operator
        <3>2. CASE ~Alive(content[fd[k]])
            <4>1. /\ content' = [content EXCEPT ![fd[k]] = Pid(k)]
                  /\ child' = [child EXCEPT ![k] = "init"]
                  /\ fd' = [fd EXCEPT ![k] = 0]
                  /\ UNCHANGED <<exit, stopping, doreload>>
                BY <2>2, <3>2 DEF Check
            <4>2. Pid(k) \in Pids
                BY <2>2 DEF Check, TypeOK, Forked, Pid, Pids
            <4>3. content' \in Seq(Pids \cup {Nobody}) /\ Len(content') = Len(content)
                <5> DEFINE S == Pids \cup {Nobody}
                <5>1. content \in Seq(S) /\ Pid(k) \in S
                    BY <4>2 DEF TypeOK
                <5> HIDE DEF S
                <5>2. content \in [1..Len(content) -> S]
                    BY <5>1
                <5>3. content' \in [1..Len(content) -> S]
                    BY <4>1, <5>1, <5>2
                <5>4. content' \in Seq(S) /\ Len(content') = Len(content)
                    BY <5>1, <5>3, SeqFromFunction
                <5> QED
                    BY <5>4 DEF S
            <4>4. JvmTyped' /\ Forked'
                BY <2>2, <4>1, <4>3 DEF Check, TypeOK, JvmTyped, Holding, Forked, supervisor
            <4> QED
                BY <2>2, <4>3, <4>4 DEF Check, TypeOK, JvmTyped, start, supervisor, operator
        <3> QED
            BY <3>1, <3>2
    <2>3. CASE JavaInit(k) \/ JavaStart(k) \/ SetHandlers(k) \/ Ready(k) \/ LeaveLoop(k)
        <3>1. Ready(k) => Pid(k) \in Pids
            BY DEF Ready, Advance, TypeOK, Forked, Pid, Pids
        <3>2. up' \subseteq Pids
            BY <2>3, <3>1 DEF JavaInit, JavaStart, SetHandlers, Ready, LeaveLoop, TypeOK
        <3>3. \E from \in Holding, to \in Holding : Advance(k, from, to)
            BY <2>3 DEF JavaInit, JavaStart, SetHandlers, Ready, LeaveLoop, Holding
        <3> QED
            BY <3>2, <3>3 DEF Advance, TypeOK, Forked, Holding, start, supervisor, pidfile, operator
    <2>4. CASE Stop(k)
        <3>1. UNCHANGED <<gen, pidfile>> /\ child[k] \notin Gone
            BY <2>4 DEF Stop, supervisor, Gone
        <3>2. JvmTyped' /\ Calm
            BY <2>4, <3>1, DieEffect DEF Stop
        <3> QED
            BY <2>4, <3>2, CalmForked DEF Stop, TypeOK, JvmTyped, start, supervisor, pidfile, operator
    <2> QED
        BY <1>6, <2>1, <2>2, <2>3, <2>4 DEF Child
<1>7. ASSUME NEW k \in Instances, Fails(k) \/ Crash(k)
      PROVE  TypeOK' /\ Forked'
    <2>1. UNCHANGED <<gen, pidfile>> /\ child[k] \notin Gone
        BY <1>7 DEF Fails, Crash, Holding, supervisor, Gone
    <2>2. \E status \in {"error", "signal", "123"} : Die(k, status)
        BY <1>7 DEF Fails, Crash
    <2>3. JvmTyped' /\ Calm
        BY <2>1, <2>2, DieEffect
    <2> QED
        BY <1>7, <2>3, CalmForked DEF Fails, Crash, TypeOK, JvmTyped, start, supervisor, pidfile, operator
<1>8. ASSUME NEW k \in Instances, RequestShutdown(k)
      PROVE  TypeOK' /\ Forked'
    <2>1. JvmTyped' /\ Calm
        BY <1>8, SignalEffect DEF RequestShutdown, Request
    <2>2. ctl' \in [Instances -> {"off", "fork", "install", "wait", "reaped"} \cup Ended]
        BY <1>8 DEF RequestShutdown, Request, TypeOK, Ended
    <2> QED
        BY <1>8, <2>1, <2>2, CalmForked DEF RequestShutdown, Request, TypeOK, JvmTyped, start, pidfile, operator
<1>9. ASSUME NEW k \in Instances, Kill(k)
      PROVE  TypeOK' /\ Forked'
    <2>1. PICK sig \in Signals : SignalController(k, sig)
        BY <1>9 DEF Kill, KillWith
    <2>2. UNCHANGED <<gen, pidfile>>
        BY <1>9 DEF Kill, KillWith
    <2>3. SignalChild(k, sig) \/ UNCHANGED jvm
        BY <2>1 DEF SignalController
    <2>4. JvmTyped' /\ Calm
        <3>1. CASE SignalChild(k, sig)
            BY <2>2, <3>1, SignalEffect
        <3>2. CASE UNCHANGED jvm
            BY <2>2, <3>2 DEF jvm, TypeOK, JvmTyped, Calm, pidfile
        <3> QED
            BY <2>3, <3>1, <3>2
    <2>5. ctl' \in [Instances -> {"off", "fork", "install", "wait", "reaped"} \cup Ended]
        BY <2>1 DEF SignalController, TypeOK, Ended
    <2>6. signals' \in 0..MaxSignals
        BY <1>9 DEF Kill, KillWith, TypeOK
    <2> QED
        BY <1>9, <2>4, <2>5, <2>6, CalmForked DEF Kill, KillWith, TypeOK, JvmTyped, start, pidfile
<1> QED
    BY <1>1, <1>2, <1>3, <1>4, <1>5, <1>6, <1>7, <1>8, <1>9 DEF Next

\* The type invariant, for any number of instances, children and signals.
THEOREM TypeCorrect == Spec => []TypeOK
<1>1. Init => Typed
    BY InitIInv DEF IInv
<1>2. Typed /\ [Next]_vars => Typed'
    BY StepTyped
<1>3. Typed => TypeOK
    BY DEF Typed
<1> QED
    BY <1>1, <1>2, <1>3, PTL DEF Spec

-----------------------------------------------------------------------------
(* The pid file.  Calm steps keep the invariant; the others are taken one  *)
(* by one.                                                                 *)

\* The steps that do not touch the pid file, except through a signal.
LEMMA CalmSteps ==
    ASSUME Typed, NEW k \in Instances,
           \/ Launch(k) \/ WaitController(k) \/ WaitPidfile(k) \/ WaitReady(k)
           \/ ForkFails(k) \/ Install(k) \/ Reap(k) \/ Signaled(k)
           \/ JavaInit(k) \/ JavaStart(k) \/ SetHandlers(k) \/ Ready(k) \/ LeaveLoop(k)
           \/ Stop(k) \/ Fails(k) \/ Crash(k) \/ RequestShutdown(k) \/ Kill(k)
    PROVE  Calm /\ UNCHANGED <<cmd, target>>
<1> USE DEF Typed
<1>1. CASE Launch(k) \/ WaitController(k) \/ WaitPidfile(k) \/ WaitReady(k)
           \/ ForkFails(k) \/ Install(k) \/ Signaled(k)
    BY <1>1 DEF Launch, WaitController, WaitPidfile, WaitReady, ForkFails, Install, Signaled, Calm,
                supervisor, jvm, pidfile, operator
<1>2. CASE Reap(k)
    BY <1>2 DEF Reap, TypeOK, Calm, Gone, Holding, pidfile, operator
<1>3. CASE JavaInit(k) \/ JavaStart(k) \/ SetHandlers(k) \/ Ready(k) \/ LeaveLoop(k)
    <2>1. PICK from \in Holding, to \in Holding : Advance(k, from, to)
        BY <1>3 DEF JavaInit, JavaStart, SetHandlers, Ready, LeaveLoop, Holding
    <2> QED
        BY <2>1 DEF Advance, TypeOK, Calm, Gone, Holding, supervisor, pidfile, operator
<1>4. CASE Stop(k) \/ Fails(k) \/ Crash(k)
    <2>1. UNCHANGED <<gen, pidfile, cmd, target>> /\ child[k] \notin Gone
        BY <1>4 DEF Stop, Fails, Crash, Holding, supervisor, operator, Gone
    <2>2. \E status \in {"0", "error", "signal", "123"} : Die(k, status)
        BY <1>4 DEF Stop, Fails, Crash
    <2> QED
        BY <2>1, <2>2, DieEffect
<1>5. CASE RequestShutdown(k)
    BY <1>5, SignalEffect DEF RequestShutdown, Request, operator
<1>6. CASE Kill(k)
    <2>1. PICK sig \in Signals : SignalController(k, sig)
        BY <1>6 DEF Kill, KillWith
    <2>2. UNCHANGED <<gen, pidfile, cmd, target>>
        BY <1>6 DEF Kill, KillWith
    <2>3. CASE SignalChild(k, sig)
        BY <2>2, <2>3, SignalEffect
    <2>4. CASE UNCHANGED jvm
        BY <2>2, <2>4 DEF jvm, Calm, pidfile
    <2> QED
        BY <2>1, <2>3, <2>4 DEF SignalController
<1> QED
    BY <1>1, <1>2, <1>3, <1>4, <1>5, <1>6

LEMMA StepIInv == IInv /\ [Next]_vars => IInv'
<1> SUFFICES ASSUME IInv, [Next]_vars PROVE IInv'
    OBVIOUS
<1>1. Typed /\ TypeOK /\ Typed'
    BY StepTyped DEF IInv, Typed
<1>2. CASE UNCHANGED vars
    <2>1. Calm /\ UNCHANGED <<cmd, target>>
        BY <1>2 DEF vars, supervisor, jvm, operator, Calm
    <2> QED
        BY <1>1, <2>1, CalmKeeps
<1>3. CASE StopChild
    <2>1. Calm /\ target' = PidInFile /\ cmd' \in {"-1", "poll"}
        <3>1. CASE PidInFile = Nobody
            BY <1>3, <3>1 DEF StopChild, Calm, jvm, supervisor
        <3>2. CASE PidInFile # Nobody
            <4>1. PidInFile[1] \in Instances
                BY <1>1, <3>2 DEF PidInFile, TypeOK, Alive, Nobody, Pid
            <4> QED
                BY <1>1, <1>3, <3>2, <4>1, SignalEffect DEF StopChild, supervisor
        <3> QED
            BY <3>1, <3>2 DEF StopChild
    <2>2. PidfileNamesService' /\ OpenIsNamed'
        BY <2>1 DEF IInv, PidfileNamesService, OpenIsNamed, Calm, pidfile, Pid
    <2>3. TargetIsNamed'
        <3>1. CASE PidInFile = Nobody
            <4>1. target' = Nobody /\ ~Alive(Nobody)
                BY <1>1, <2>1, <3>1, AliveFacts
            <4>2. ~Alive(target)'
                BY <1>1, <2>1, <4>1, CalmAlive DEF Alive, Pid, Nobody
            <4> QED
                BY <4>1, <4>2 DEF TargetIsNamed
        <3>2. CASE PidInFile # Nobody
            <4>1. dir # 0 /\ Alive(content[dir]) /\ target' = content[dir]
                BY <2>1, <3>2 DEF PidInFile
            <4>2. target'[2] <= gen'[target'[1]]
                BY <1>1, <2>1, <4>1 DEF Alive, Pid, TypeOK, Calm
            <4> QED
                BY <2>1, <4>1, <4>2 DEF TargetIsNamed, Calm, pidfile
        <3> QED
            BY <3>1, <3>2
    <2> QED
        BY <1>1, <2>1, <2>2, <2>3 DEF IInv, StopIsHonest
<1>4. CASE StopPoll
    <2>1. Calm /\ target' = target /\ (cmd' = "0" => PidInFile = Nobody)
        BY <1>4 DEF StopPoll, Calm, supervisor, jvm
    <2>2. PidfileNamesService' /\ OpenIsNamed' /\ TargetIsNamed'
        BY <1>1, <2>1, CalmAlive
        DEF IInv, PidfileNamesService, OpenIsNamed, TargetIsNamed, Calm, pidfile, Pid
    <2>3. ASSUME PidInFile = Nobody, ~foreign, Alive(target) PROVE FALSE
        <3>1. dir # 0 /\ content[dir] = target
            BY <2>3 DEF IInv, TargetIsNamed
        <3>2. target = Nobody
            BY <2>3, <3>1 DEF PidInFile
        <3> QED
            BY <1>1, <2>3, <3>2, AliveFacts
    <2>4. StopIsHonest'
        BY <1>1, <2>1, <2>3, CalmAlive DEF StopIsHonest, Calm, pidfile
    <2> QED
        BY <1>1, <2>2, <2>4 DEF IInv
<1>5. ASSUME NEW k \in Instances, Fork(k)
      PROVE  IInv'
    <2>1. /\ child' = [child EXCEPT ![k] = "fork"]
          /\ gen' = [gen EXCEPT ![k] = @ + 1]
          /\ UNCHANGED <<fd, pidfile, cmd, target>>
        BY <1>5 DEF Fork, operator
    <2>2. ASSUME NEW p, p # Nobody => p[2] <= gen[p[1]], Alive(p)' PROVE Alive(p)
        BY <1>1, <2>1, <2>2 DEF Alive, Pid, Nobody, TypeOK
    <2>3. PidfileNamesService' /\ OpenIsNamed'
        BY <1>1, <2>1 DEF IInv, PidfileNamesService, OpenIsNamed, Holding, TypeOK, pidfile, Pid
    <2>4. target' # Nobody => target'[2] <= gen'[target'[1]]
        BY <1>1, <2>1 DEF IInv, TargetIsNamed, TypeOK, Pids
    <2>5. TargetIsNamed' /\ StopIsHonest'
        BY <2>1, <2>2, <2>4 DEF IInv, TargetIsNamed, StopIsHonest, pidfile
    <2> QED
        BY <1>1, <2>3, <2>5 DEF IInv
<1>6. ASSUME NEW k \in Instances, Exited(k)
      PROVE  IInv'
    <2>1. UNCHANGED <<gen, child, fd, content, cmd, target>>
        BY <1>6 DEF Exited, Unlink, jvm, pidfile, operator
    <2>2. CASE UNCHANGED pidfile
        BY <1>1, <2>1, <2>2, CalmKeeps DEF Calm
    <2>3. CASE Unlink
        <3>1. ASSUME ~foreign'
              PROVE  /\ ~foreign
                     /\ dir # 0 => ~Alive(content[dir])
                     /\ dir # 0 => \A j \in Instances : ~(child[j] = "open" /\ fd[j] = dir)
            BY <2>3, <3>1 DEF Unlink
        <3>2. ASSUME ~foreign', NEW j \in Instances
              PROVE  child[j] \notin Holding /\ child[j] # "open"
            BY <1>1, <3>1, <3>2, AliveFacts
            DEF IInv, PidfileNamesService, OpenIsNamed, Holding, Gone
        <3>3. ASSUME ~foreign' PROVE ~Alive(target)'
            BY <2>1, <3>1, <3>3 DEF IInv, TargetIsNamed, Alive, Pid
        <3> QED
            BY <1>1, <2>1, <3>1, <3>2, <3>3
            DEF IInv, PidfileNamesService, OpenIsNamed, TargetIsNamed, StopIsHonest
    <2> QED
        BY <1>6, <2>2, <2>3 DEF Exited
<1>7. ASSUME NEW k \in Instances, Open(k)
      PROVE  IInv'
    <2>1. CASE Die(k, "error") /\ UNCHANGED <<dir, content>>
        <3>1. UNCHANGED <<gen, pidfile, cmd, target>> /\ child[k] \notin Gone
            BY <1>7, <2>1 DEF Open, supervisor, operator, pidfile, Gone
        <3> QED
            BY <1>1, <2>1, <3>1, DieEffect, CalmKeeps
    <2>2. CASE child' = [child EXCEPT ![k] = "open"]
        <3>1. /\ child[k] = "fork" /\ fd' = [fd EXCEPT ![k] = dir']
              /\ UNCHANGED <<gen, foreign, cmd, target>>
            BY <1>1, <1>7, <2>2 DEF Open, Die, TypeOK, supervisor, operator
        <3>2. ASSUME NEW p, Alive(p)' PROVE Alive(p)
            BY <1>1, <2>2, <3>1, <3>2 DEF Alive, Pid, TypeOK
        <3>3. CASE dir # 0
            <4>1. UNCHANGED <<dir, content>>
                BY <1>1, <1>7, <2>2, <3>3 DEF Open, Die, TypeOK
            <4> QED
                BY <1>1, <2>2, <3>1, <3>2, <3>3, <4>1
                DEF IInv, PidfileNamesService, OpenIsNamed, TargetIsNamed, StopIsHonest, Holding, Pid,
                    TypeOK
        <3>4. CASE dir = 0
            <4>1. dir' = Len(content) + 1 /\ dir' # 0
                BY <1>1, <1>7, <2>2, <3>4 DEF Open, Die, TypeOK
            <4> QED
                BY <1>1, <2>2, <3>1, <3>2, <3>4, <4>1
                DEF IInv, PidfileNamesService, OpenIsNamed, TargetIsNamed, StopIsHonest, Holding, Pid,
                    TypeOK
        <3> QED
            BY <3>3, <3>4
    <2> QED
        BY <1>7, <2>1, <2>2 DEF Open
<1>8. ASSUME NEW k \in Instances, Check(k)
      PROVE  IInv'
    <2>1. CASE Alive(content[fd[k]])
        <3>1. Die(k, "122") /\ UNCHANGED <<gen, pidfile, cmd, target>> /\ child[k] \notin Gone
            BY <1>8, <2>1 DEF Check, supervisor, operator, pidfile, Gone
        <3> QED
            BY <1>1, <3>1, DieEffect, CalmKeeps
    <2>2. CASE ~Alive(content[fd[k]])
        <3>1. /\ child[k] = "open"
              /\ content' = [content EXCEPT ![fd[k]] = Pid(k)]
              /\ child' = [child EXCEPT ![k] = "init"]
              /\ fd' = [fd EXCEPT ![k] = 0]
              /\ UNCHANGED <<gen, dir, foreign, cmd, target>>
            BY <1>8, <2>2 DEF Check, supervisor, operator
        <3>2. ASSUME NEW p, Alive(p)' PROVE Alive(p)
            BY <1>1, <3>1, <3>2 DEF Alive, Pid, TypeOK
        <3>3. ~foreign => dir # 0 /\ fd[k] = dir /\ ~Alive(content[dir])
            BY <2>2, <3>1 DEF IInv, OpenIsNamed
        <3>4. ASSUME ~foreign, NEW j \in Instances PROVE child[j] \notin Holding
            BY <1>1, <3>3, <3>4, AliveFacts DEF IInv, PidfileNamesService, Holding, Gone
        <3>5. ~foreign => content'[dir] = Pid(k)
            BY <1>1, <3>1, <3>3 DEF TypeOK
        <3>6. PidfileNamesService'
            BY <1>1, <3>1, <3>3, <3>4, <3>5 DEF PidfileNamesService, TypeOK, Pid
        <3>7. OpenIsNamed'
            BY <1>1, <3>1 DEF IInv, OpenIsNamed, TypeOK
        <3>8. ~foreign => ~Alive(target)'
            BY <3>2, <3>1, <3>3 DEF IInv, TargetIsNamed
        <3>9. TargetIsNamed' /\ StopIsHonest'
            BY <3>1, <3>8 DEF IInv, TargetIsNamed, StopIsHonest
        <3> QED
            BY <1>1, <3>6, <3>7, <3>9 DEF IInv
    <2> QED
        BY <2>1, <2>2
<1>9. ASSUME NEW k \in Instances,
             \/ Launch(k) \/ WaitController(k) \/ WaitPidfile(k) \/ WaitReady(k)
             \/ ForkFails(k) \/ Install(k) \/ Reap(k) \/ Signaled(k)
             \/ JavaInit(k) \/ JavaStart(k) \/ SetHandlers(k) \/ Ready(k) \/ LeaveLoop(k)
             \/ Stop(k) \/ Fails(k) \/ Crash(k) \/ RequestShutdown(k) \/ Kill(k)
      PROVE  IInv'
    BY <1>1, <1>9, CalmSteps, CalmKeeps
<1> QED
    BY <1>2, <1>3, <1>4, <1>5, <1>6, <1>7, <1>8, <1>9 DEF Next, Controller, Child

LEMMA Invariance == Spec => []IInv
BY InitIInv, StepIInv, PTL DEF Spec

\* The pid file names the service, whatever the instances do to each other,
\* until a controller removes the file of another.
THEOREM PidfileIsTrue == Spec => []PidfileNamesService
<1>1. IInv => PidfileNamesService
    BY DEF IInv
<1> QED
    BY <1>1, Invariance, PTL

\* Two services need such a removal.
THEOREM NoSecondService == Spec => []OneService
<1>1. IInv => OneService
    BY DEF IInv, PidfileNamesService, OneService, Pid
<1> QED
    BY <1>1, Invariance, PTL

\* What the 0 of jsvc -stop is worth.
THEOREM StoppedIsGone == Spec => []StopIsHonest
<1>1. IInv => StopIsHonest
    BY DEF IInv
<1> QED
    BY <1>1, Invariance, PTL

=============================================================================
