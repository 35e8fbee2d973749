------------------------------ MODULE Arguments ------------------------------
(***************************************************************************)
(* The command line of jsvc (arguments.c): a pure function from the words  *)
(* of the command line to a record, or to Failed.  Words are compared, not *)
(* read; what matters is which of them begin with "-", which options take  *)
(* the next word, and where the class is.                                  *)
(***************************************************************************)
EXTENDS Integers, Sequences, SequencesExt

CONSTANTS Numbers  \* what atoi or strtol makes of a word, for the words with a number

None == "none"

\* Options that take the next word, flags, and options handed to the VM.
Valued == {"-cp", "-jvm", "-home", "-user", "-cwd", "-wait", "-umask", "-pidfile",
           "-outfile", "-errfile", "-procname"}
Flags == {"-client", "-server", "-version", "-showversion", "-help", "-X", "-debug", "-stop",
          "-check", "-nodetach", "-keepstdin", "-service", "-install", "-remove"}
Passed == {"-verbose", "-Dname=value", "-Xoption", "-ea", "-da", "-esa", "-dsa", "-agentlib:x"}
Refused == {"-D", "-D=value", "-other"}

Dashed == Valued \cup Flags \cup Passed \cup Refused

atoi(word) == IF word \in DOMAIN Numbers THEN Numbers[word] ELSE 0

Defaults ==
    [failed |-> FALSE, dtch |-> TRUE, vers |-> FALSE, help |-> FALSE, chck |-> FALSE,
     stop |-> FALSE, wait |-> 0, remove |-> FALSE, debug |-> FALSE, name |-> None,
     home |-> None, user |-> None, outfile |-> "/dev/null", errfile |-> "/dev/null",
     procname |-> "jsvc.exec", clas |-> None, opts |-> <<>>, args |-> <<>>]
Failed == [Defaults EXCEPT !.failed = TRUE]

\* A parse under way: "options" until the class is met, "class" after it, "end"
\* after -help or a mistake; pending is the option that waits for its word.
Parsing(mode, pending, args) == [mode |-> mode, pending |-> pending, args |-> args]
Going(args) == Parsing("options", None, args)
Stopped(args) == Parsing("end", None, args)

\* What a value does.  -cwd, -pidfile and -cp have no part in the launch.
Take(args, option, word) ==
    CASE option = "-wait" -> IF atoi(word) < 10 THEN Failed ELSE [args EXCEPT !.wait = atoi(word)]
      [] option = "-umask" -> IF atoi(word) < 2 THEN Failed ELSE args
      [] option = "-jvm" -> [args EXCEPT !.name = word]
      [] option = "-home" -> [args EXCEPT !.home = word]
      [] option = "-user" -> [args EXCEPT !.user = word]
      [] option = "-outfile" -> [args EXCEPT !.outfile = word]
      [] option = "-errfile" -> [args EXCEPT !.errfile = word]
      [] option = "-procname" -> [args EXCEPT !.procname = word]
      [] option = "-cp" -> [args EXCEPT !.opts = Append(@, option)]
      [] OTHER -> args

\* No value: the end of the line or a word with a dash, which optional() refuses
\* and x++ skips all the same.  -wait is content with an earlier -wait.
Missing(args, option) == IF option = "-wait" /\ args.wait >= 10 THEN args ELSE Failed

Flag(args, flag) ==
    CASE flag \in {"-client", "-server"} -> [args EXCEPT !.name = IF flag = "-client" THEN "client" ELSE "server"]
      [] flag = "-version" -> [args EXCEPT !.vers = TRUE, !.dtch = FALSE]
      [] flag = "-check" -> [args EXCEPT !.chck = TRUE, !.dtch = FALSE]
      [] flag = "-nodetach" -> [args EXCEPT !.dtch = FALSE]
      [] flag = "-debug" -> [args EXCEPT !.debug = TRUE]
      [] flag = "-stop" -> [args EXCEPT !.stop = TRUE]
      [] flag = "-remove" -> [args EXCEPT !.remove = TRUE]
      [] OTHER -> args

optional(option, word, args) ==
    IF word \in Dashed THEN Missing(args, option) ELSE Take(args, option, word)

Word(p, word) ==
    CASE p.mode = "end" -> p
      [] p.mode = "class" -> [p EXCEPT !.args.args = Append(@, word)]
      [] p.pending # None ->
            LET args == optional(p.pending, word, p.args)
            IN  IF args.failed THEN Stopped(args) ELSE Going(args)
      [] p.mode = "options" /\ p.pending = None ->
            CASE word \in Valued -> Parsing("options", word, p.args)
              [] word = "-help" -> Stopped([p.args EXCEPT !.help = TRUE, !.dtch = FALSE])
              [] word \in Flags \ {"-help"} -> Going(Flag(p.args, word))
              [] word \in Passed -> Going([p.args EXCEPT !.opts = Append(@, word)])
              [] word \in Refused -> Stopped(Failed)
              [] OTHER -> Parsing("class", None, [p.args EXCEPT !.clas = word])

\* argv without its first word.
parse(line) ==
    LET p == FoldLeft(Word, Going(Defaults), line)
        args == IF p.pending = None THEN p.args ELSE Missing(p.args, p.pending)
    IN  IF args.failed \/ args.help THEN args
        ELSE IF args.clas = None /\ ~args.remove THEN Failed ELSE args

-----------------------------------------------------------------------------
(* The class path.  A part is [star |-> whether it ends with "*", word]; the *)
(* result is the parts between its colons, "" for an empty one.              *)

\* memstrcat(gcp, ":") or the first allocation; then a string for the last part.
NextPart(gcp) == Append(gcp, "")
Fill(gcp, word) == [gcp EXCEPT ![Len(gcp)] = word]

\* The jars that match, with a colon between two; nothing when none matches.
eval_ppath(gcp, jars) == IF jars = <<>> THEN gcp ELSE Front(gcp) \o jars

\* jars[word] are the files a pattern of that word matches, in glob's order.
eval_cpath(parts, jars) ==
    LET add(gcp, part) == IF part.star THEN eval_ppath(NextPart(gcp), jars[part.word])
                          ELSE Fill(NextPart(gcp), part.word)
        \* strchr finds the colons, which all parts but the last are followed by.
        gcp == FoldLeft(add, <<>>, Front(parts))
    IN  IF Last(parts).star \/ Last(parts).word # "" THEN add(gcp, Last(parts)) ELSE gcp

=============================================================================
