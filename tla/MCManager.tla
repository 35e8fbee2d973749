------------------------------ MODULE MCManager ------------------------------
(* Each scenario brings together commands that meet in the service, its     *)
(* configuration or the window.  The ASSUMEs check the pure operators of    *)
(* the command line on bounded inputs.                                      *)
EXTENDS Manager

NoJob == [prog |-> "none", cmd |-> "", args |-> <<>>, env |-> <<>>, multi |-> FALSE, clicks |-> FALSE,
          edits |-> <<>>]
Var(is, text) == [is |-> is, text |-> text]
Unset == [o \in Options |-> Var("unset", "")]
Srv0(c, as) == [NoJob EXCEPT !.prog = "prunsrv", !.cmd = c, !.args = as, !.env = Unset]
Mgr(c, es) == [NoJob EXCEPT !.prog = "prunmgr", !.cmd = c, !.edits = es]
Clicks(job) == [job EXCEPT !.clicks = TRUE]
Set(o, t) == [opt |-> o, add |-> FALSE, text |-> t]
Add(o, t) == [Set(o, t) EXCEPT !.add = TRUE]
Items(is) == [items |-> is, quotes |-> 0]
Edit(o, t) == [opt |-> o, text |-> t, valid |-> TRUE]
Sc(there, running, d, a, b, c) ==
    [there |-> there, running |-> running, dep |-> d, jobs |-> [a |-> a, b |-> b, c |-> c]]
MCStrings == STRING
MCProcs == {"a", "b", "c"}

Update(as) == Srv0("US", as)
MCScenarios ==
    { (* two updates *)
      Sc(TRUE, FALSE, FALSE,
         Update(<<Set("DisplayName", "one"), Add("JvmOptions", Items(<<"-Da">>))>>),
         [Update(<<Add("JvmOptions", Items(<<"-Db">>)), Set("StopTimeout", <<1, 0>>)>>)
            EXCEPT !.env["LogLevel"] = Var("set", "Debug"), !.env["StartMode"] = Var("empty", "")],
         NoJob),
      Sc(TRUE, FALSE, FALSE, Update(<<Set("StartMode", "jvm")>>),
         Srv0("update", <<Set("Startup", "auto"), Set("ServiceUser", "me"), Set("StartMode", "exe")>>),
         NoJob),
      (* lists that are continued, by three at once, and while the service is deleted *)
      Sc(TRUE, FALSE, FALSE, Update(<<Add("JvmOptions", Items(<<"-Da">>))>>),
         Update(<<Add("JvmOptions", Items(<<"-Db">>))>>), Update(<<Add("JvmOptions", Items(<<"-Dc">>))>>)),
      Sc(TRUE, FALSE, FALSE, Update(<<Set("JvmOptions", Items(<<"-Da">>))>>),
         [Update(<<>>) EXCEPT !.env["JvmOptions"] = Var("set", Items(<<"-Db">>))], Srv0("DS", <<>>)),
      (* an update, an installation and a deletion *)
      Sc(TRUE, TRUE, FALSE, Update(<<Set("StopTimeout", <<1, 0>>), Set("DisplayName", "one")>>),
         Srv0("IS", <<Set("StartMode", "jvm"), Set("Startup", "auto"), Set("ServiceUser", "me")>>),
         Srv0("DS", <<>>)),
      (* two installations, and a wrong command line *)
      Sc(FALSE, FALSE, FALSE, Srv0("install", <<Set("LogLevel", "Info")>>), Srv0("US", <<>>),
         Srv0("ES", <<[Set("LogLevel", "") EXCEPT !.opt = "unknown"]>>)),
      (* monitors and the end of all monitors *)
      Sc(TRUE, FALSE, FALSE, Mgr("MS", <<>>), Mgr("", <<Edit("LogLevel", "Debug")>>), Mgr("MQ", <<>>)),
      Sc(TRUE, FALSE, FALSE, [Mgr("MS", <<>>) EXCEPT !.multi = TRUE],
         [Mgr("monitor", <<>>) EXCEPT !.multi = TRUE], Mgr("quit", <<>>)),
      (* the property sheet against an update *)
      Sc(TRUE, FALSE, FALSE,
         Mgr("ES", <<Edit("DisplayName", "two"), Edit("JvmOptions", <<"-Dc">>),
                     Edit("Startup", "disabled"), Edit("StartMode", "exe"), Edit("StopTimeout", <<5>>)>>),
         Update(<<Set("DisplayName", "one"), Set("JvmOptions", Items(<<"-Da">>))>>), NoJob),
      Sc(TRUE, FALSE, FALSE,
         Mgr("MS", <<Edit("Startup", "auto"), Edit("DisplayName", "svc"),
                     [Edit("ServiceUser", "you") EXCEPT !.valid = FALSE], Edit("ServiceUser", "")>>),
         NoJob, NoJob),
      Sc(TRUE, FALSE, FALSE, Mgr("ES", <<Edit("DisplayName", "two"), Edit("StopTimeout", <<5>>)>>),
         Update(<<Set("Startup", "auto")>>), NoJob),
      Sc(TRUE, FALSE, FALSE, Mgr("ES", <<Edit("LogLevel", "Debug"), Edit("StopTimeout", <<5>>)>>),
         Srv0("DS", <<>>), Srv0("IS", <<Set("StopTimeout", <<1, 0>>)>>)),
      Sc(TRUE, FALSE, FALSE, Mgr("MS", <<Edit("JvmOptions", <<"-Dc">>)>>), Mgr("ES", <<>>),
         Update(<<Add("JvmOptions", Items(<<"-Da">>)), Set("LogLevel", "Info")>>)),
      (* a monitor while the service is started and stopped, with a dependent *)
      Sc(TRUE, FALSE, TRUE, Mgr("MS", <<>>), Srv0("ES", <<>>), Srv0("SS", <<>>)),
      Sc(TRUE, FALSE, FALSE, Mgr("MR", <<>>), Srv0("DS", <<>>), NoJob),
      Sc(TRUE, FALSE, FALSE, Clicks(Mgr("start", <<>>)), NoJob, NoJob),
      Sc(TRUE, FALSE, FALSE, Clicks(Mgr("ES", <<>>)), Srv0("stop", <<>>), NoJob) }

------------------------------------------------------------------------------
(* apxAtoul against the value of a numeral, and what it does with a sign    *)
(* and with other characters.                                               *)
Horner(s) == FoldLeft(LAMBDA a, d : (a * 10 + d) % ULongSize, 0, s)
ASSUME NumbersAreRead ==
    \A s \in BoundedSeq({0, 1, 9}, 4) :
        /\ apxAtoul(s) = Horner(s)
        /\ apxAtoul(<<MINUS>> \o s) = (0 - Horner(s)) % ULongSize
        /\ apxAtoul(<<9, 11>> \o s) = Horner(s)

(* What an option given several times becomes: the items from the last      *)
(* --opt on that follows a ++opt, or all.                                   *)
Samples == {Add("JvmOptions", Items(<<"x">>)), Set("JvmOptions", Items(<<"y", "z">>)),
          Set("JvmOptions", [items |-> <<"x">>, quotes |-> 1])}
Parsed(as) == apxCmdlineParse([cmd |-> "US", args |-> as, commands |-> Commands,
                               alts |-> AltCommands]).options["JvmOptions"]
ASSUME ListsAreCollected ==
    \A as \in BoundedSeq(Samples, 3) :
        LET adding == as # <<>> /\ as[1].add
            sets == {i \in DOMAIN as : ~as[i].add}
            from == IF adding /\ sets # {} THEN CHOOSE i \in sets : \A j \in sets : i <= j ELSE 1
        IN /\ Parsed(as).found = (as # <<>>)
           /\ Parsed(as).add = (adding /\ sets = {})
           /\ Parsed(as).val = FlattenSeq([i \in 1 .. Len(as) - from + 1 |->
                                             Split(as[from + i - 1].text)])

(* No reader sees what follows a quoted text in the same list. *)
ASSUME QuotesHideTheRest ==
    \A as \in BoundedSeq(Samples, 3) :
        \A i \in DOMAIN as : as[i].text.quotes > 0 /\ ~Parsed(as).add /\ ~as[1].add =>
            Readable(Parsed(as).val) = Readable(Parsed(SubSeq(as, 1, i)).val)

(* The conversions of the edit boxes are inverse to each other. *)
ASSUME ListsSurviveTheEditBox ==
    \A is \in BoundedSeq({"x", "y"}, 3) :
        /\ apxMszToCRLF(apxCRLFToMsz(is)) = is
        /\ apxMultiSzToArray(apxMultiSzCombine(is, <<"z">>)) = Append(is, "z")
=============================================================================
