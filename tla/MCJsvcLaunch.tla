---------------------------- MODULE MCJsvcLaunch ----------------------------
(* Small instances of JsvcLaunch for TLC. *)
EXTENDS JsvcLaunch, TLC

CONSTANTS b, s  \* a service, and a start that stops it or comes to nothing

MCForks == [k \in Instances |-> IF k = b THEN 2 ELSE 1]
MCNumbers == ("20" :> 20) @@ ("5" :> 5) @@ ("0077" :> 63)
MCUsers == {"root", "svc"}

-----------------------------------------------------------------------------
(* Java homes: a JDK with a server VM and a jvm.cfg that names a client one  *)
(* too; a JRE without jvm.cfg; an empty directory that hides the JDK.        *)
Under(home, place, file) == <<home, place, file>>
JDK == "/usr/lib/jvm/java"
JRE == "/opt/jre"
Server == <<JDK, "jre/lib/CPU", "server", "libjvm.so">>
Cfg == Under(JDK, "jre/lib/CPU", "jvm.cfg")
FS(dirs, env) ==
    [dirs |-> dirs, env |-> env,
     files |-> {Server, Cfg, Under(JRE, "lib/client", "libjvm.so"), Under(JDK, "lib", "libjvm.so")},
     cfg |-> Cfg :> <<"", "client", "server">>]
Good == FS({JDK, JRE}, "")
Hidden == FS({"/usr/java", JDK}, "/")

Start(line, name, caller, libcap, fs) ==
    [line |-> line, argv0 |-> name, caller |-> caller, libcap |-> libcap, fs |-> fs]

MCCircumstances == <<
    Start(<<"-outfile", "SYSLOG", "-errfile", "&1", "Main", "-stop">>, "./jsvc", "svc", "unused", Good),
    Start(<<"-user", "svc", "-jvm", "server", "-errfile", "SYSLOG", "Main">>, "jsvc.exec", "root", "found", Good),
    Start(<<"-user", "svc", "-outfile", "out", "Main">>, "./jsvc", "root", "unused", Good),
    Start(<<"-user", "svc", "Main">>, "./jsvc", "root", "missing", Good),
    Start(<<"-user", "root", "Main">>, "./jsvc", "root", "missing", Good),
    Start(<<"-home", JRE, "-jvm", "client", "Main">>, "./jsvc", "svc", "unused", Good),
    \* From here on starts that come to nothing: the seventh is the stop command.
    Start(<<"-stop", "Main">>, "./jsvc", "root", "found", Good),
    Start(<<"-home", "-stop", "Main">>, "./jsvc", "root", "found", Good),
    Start(<<"-help">>, "./jsvc", "svc", "unused", Hidden),
    Start(<<"-home", "/nowhere", "Main">>, "./jsvc", "svc", "unused", Good),
    Start(<<"-user", "root", "Main">>, "./jsvc", "svc", "unused", Good),
    Start(<<"-user", "ghost", "Main">>, "./jsvc", "root", "unused", Good),
    Start(<<"Main">>, "jsvc", "svc", "unused", Good) >>

\* The services beside a stop or a mistake, the mistakes beside one.
MCStarts == {g \in [Instances -> 1..13] : \/ g[b] \in {1, 4} /\ g[s] = 7
                                          \/ g[b] \in 2..6 /\ g[s] = 8
                                          \/ g[b] = 8 /\ g[s] \in 7..13}

-----------------------------------------------------------------------------
(* The operators against reference definitions, on all small inputs.        *)

Strings(n) == UNION {[1..m -> {1, 2}] : m \in 0..n}

\* Every occurrence from the left, none of them inside a replacement.
AllReplaced(old, mch, rpl) ==
    LET rest[n \in 1..(Len(old) + 1)] ==
            IF n > Len(old) THEN <<>>
            ELSE IF mch # <<>> /\ SubSeq(old, n, Len(old)) # <<>>
                    /\ n + Len(mch) - 1 <= Len(old) /\ SubSeq(old, n, n + Len(mch) - 1) = mch
                 THEN rpl \o rest[n + Len(mch)]
                 ELSE <<old[n]>> \o rest[n + 1]
    IN  rest[1]

\* replace() in its buffer replaces them all, or says how much it lacks; the
\* string it copies first is one that fits, as the templates of jsvc are.
ASSUME ReplacesAll ==
    \A old \in Strings(4), mch \in Strings(2), rpl \in Strings(2), len \in {5, 7} :
        LET all == AllReplaced(old, mch, rpl)
        IN  Len(old) < len =>
                Java!replace(len, old, mch, rpl) = IF Len(all) < len THEN [new |-> all] ELSE [size |-> Len(all) + 1]

Words == {"-cp", "-wait", "-X", "-D", "-stop", "-help", "-server", "-ea", "20", "Main"}
Lines(n) == UNION {[1..m -> Words] : m \in 0..n}

\* The words after the class are the service's: they change nothing of jsvc's.
ASSUME ClassEndsOptions ==
    \A line \in Lines(3), word \in Words :
        LET args == Line!parse(line)
        IN  ~args.failed /\ args.clas # Line!None =>
                Line!parse(Append(line, word)) = [args EXCEPT !.args = Append(@, word)]

\* A line that is accepted has a class or is for help, and what goes to the VM
\* is what stands before the class, in its order.
ASSUME OptionsInOrder ==
    \A line \in Lines(3) :
        LET args == Line!parse(line)
        IN  ~args.failed => /\ args.clas # Line!None \/ args.help
                            /\ Len(args.opts) + Len(args.args) <= Len(line)

Parts == [star : BOOLEAN, word : {"", "lib"}]
Paths == UNION {[1..m -> Parts] : m \in 1..3}

\* Every part of the class path is there in its order, a pattern as the jars it
\* matches; one that matches none is an empty part, which the VM takes for the
\* working directory, and an empty last part is dropped.
ASSUME PathIsExpanded ==
    \A parts \in Paths, jars \in {<<>>, <<"a.jar">>, <<"a.jar", "b.jar">>} :
        LET expanded[n \in 0..Len(parts)] ==
                IF n = 0 THEN <<>>
                ELSE expanded[n - 1] \o
                     IF parts[n].star THEN IF jars = <<>> THEN <<"">> ELSE jars
                     ELSE IF n = Len(parts) /\ parts[n].word = "" THEN <<>> ELSE <<parts[n].word>>
        IN  Line!eval_cpath(parts, [word \in {"", "lib"} |-> jars]) = expanded[Len(parts)]

\* "&1" and "&2" send one stream where the other goes, if neither goes to syslog.
ASSUME StreamsMeet ==
    \A out \in {"f", "&1", "&2"}, err \in {"g", "&1", "&2"} :
        LET args == [Line!Defaults EXCEPT !.outfile = out, !.errfile = err]
            r == Redirected(args, Terminal, Files(args), 0)
        IN  (err = "&1" /\ out # "&1") \/ (out = "&2" /\ err # "&2") => r.out = r.err

=============================================================================
