------------------------------ MODULE JavaHome ------------------------------
(***************************************************************************)
(* Where jsvc finds Java (home.c, location.c, replace.c, java_library).    *)
(* A path is a sequence of parts, a template one with "$JAVA_HOME" and     *)
(* "$VM_NAME" among them.  A file system is a record: the directories that *)
(* may be Java homes, the regular files, what each readable jvm.cfg says,  *)
(* and the variable JAVA_HOME of the environment ("" when not set).        *)
(***************************************************************************)
EXTENDS Integers, Sequences, SequencesExt

Null == "NULL"
NoFile == <<>>

(* The places searched, in their order, as compiled for Linux.             *)
location_home == << "/usr/java/default", "/usr/java", "/usr/local/java",
    "/usr/lib/jvm/default-java", "/usr/lib/jvm/java", "/etc/alternatives/java_sdk",
    "/etc/alternatives/java_sdk_openjdk", "/etc/alternatives/jre", "/lib64/jvm/java",
    "/lib64/jvm/java-openjdk", "/lib/jvm/java", "/lib/jvm/java-openjdk" >>

InHome(dir, file) == <<"$JAVA_HOME", dir, file>>

location_jvm_cfg == << InHome("jre/lib", "jvm.cfg"), InHome("lib", "jvm.cfg"),
                       InHome("jre/lib/CPU", "jvm.cfg"), InHome("lib/CPU", "jvm.cfg") >>

DefaultDirs == <<
    "jre/lib/CPU/classic", "jre/lib/CPU/server", "jre/lib/CPU/client", "jre/lib/CPU",
    "lib/CPU/classic", "lib/CPU/server", "lib/CPU/client", "lib/CPU",
    "jre/bin/CPU/classic", "jre/bin/CPU", "bin/CPU/classic", "bin/CPU",
    "jre/lib/CPU/classic/green_threads", "jre/lib/classic", "jre/lib/client", "jre/lib",
    "lib/classic", "lib/client", "lib", "jre/bin/classic", "jre/bin/client", "jre/bin",
    "bin/classic", "bin/client", "bin",
    "jre/lib/CPU/fast64", "jre/lib/CPU/fast32", "lib/CPU/fast64", "lib/CPU/fast32" >>
location_jvm_default ==
    [x \in DOMAIN DefaultDirs |-> InHome(DefaultDirs[x], "libjvm.so")]
        \o << <<"/usr/lib", "libgcj.so.7">>, <<"/usr/lib", "libgcj.so.6">> >>

location_jvm_configured == << <<"$JAVA_HOME", "jre/lib/CPU", "$VM_NAME", "libjvm.so">>,
                              <<"$JAVA_HOME", "lib/CPU", "$VM_NAME", "libjvm.so">> >>

-----------------------------------------------------------------------------
(* replace() in its buffer, character by character.  NUL ends a string;    *)
(* what lies behind it in the buffer stays there.                          *)
NUL == 0
strlen(buf) == (CHOOSE n \in DOMAIN buf : buf[n] = NUL /\ \A k \in 1..(n - 1) : buf[k] # NUL) - 1
String(buf) == SubSeq(buf, 1, strlen(buf))

\* strstr: the first place from "from" on where mch is, 0 for none.
strstr(s, from, mch) ==
    LET at == {n \in from..(Len(s) - Len(mch) + 1) : SubSeq(s, n, n + Len(mch) - 1) = mch}
    IN  IF at = {} THEN 0 ELSE CHOOSE n \in at : \A k \in at : n <= k

\* Moves what follows tmp by shift, from the right for a longer replacement
\* and from the left for a shorter one, its terminator included.
Shifted(buf, tmp, mlen, shift) ==
    IF shift = 0 THEN buf
    ELSE [n \in DOMAIN buf |->
            IF n >= tmp + mlen + shift /\ n - shift <= strlen(buf) + 1 THEN buf[n - shift] ELSE buf[n]]

Overwritten(buf, tmp, rpl) ==
    [n \in DOMAIN buf |-> IF n \in tmp..(tmp + Len(rpl) - 1) THEN rpl[n - tmp + 1] ELSE buf[n]]

\* The result, or the size the buffer would have to have.
replace(len, old, mch, rpl) ==
    LET shift == Len(rpl) - Len(mch)
        \* strcpy into a buffer whose bytes are not known.
        copy == [n \in 1..len |-> IF n <= Len(old) THEN old[n] ELSE IF n = Len(old) + 1 THEN NUL ELSE "?"]
        \* One turn of the loop is a pair of the buffer and of tmp; there are
        \* never more than Len(old) of them.
        turn[k \in 0..Len(old)] ==
            IF k = 0 THEN <<copy, 1>>
            ELSE LET made == turn[k - 1][1]
                     tmp == strstr(String(made), turn[k - 1][2], mch)
                 IN  IF tmp = 0 THEN turn[k - 1]
                     ELSE <<Overwritten(Shifted(made, tmp, Len(mch), shift), tmp, rpl), tmp + Len(rpl)>>
        count[from \in 1..(Len(old) + 1)] ==
            LET at == strstr(old, from, mch) IN IF at = 0 THEN 0 ELSE 1 + count[at + Len(mch)]
        nlen == Len(old) + (IF mch = <<>> THEN 0 ELSE shift * count[1])
    IN  IF nlen >= len THEN [size |-> nlen + 1]
        ELSE [new |-> IF mch = <<>> THEN old ELSE String(turn[Len(old)][1])]

\* The same on the parts of a path, for paths that fit into the 1024 bytes.
Replaced(path, mch, rpl) == [n \in DOMAIN path |-> IF path[n] = mch THEN rpl ELSE path[n]]

-----------------------------------------------------------------------------
checkdir(fs, path) == path \in fs.dirs
checkfile(fs, path) == path \in fs.files

\* The first of the templates that is a file in this home, NoFile when none is.
FirstFile(fs, templates, home, name) ==
    LET path(x) == Replaced(Replaced(templates[x], "$JAVA_HOME", home), "$VM_NAME", name)
        there == {x \in DOMAIN templates : checkfile(fs, path(x))}
    IN  IF there = {} THEN NoFile ELSE path(CHOOSE x \in there : \A y \in there : x <= y)

\* The VMs of jvm.cfg that have a library; a line that names none is "".
parse(fs, home, cfgf) ==
    LET lines == IF cfgf \in DOMAIN fs.cfg THEN fs.cfg[cfgf] ELSE <<>>
        libr(name) == FirstFile(fs, location_jvm_configured, home, name)
        found == SelectSeq(lines, LAMBDA name : name # "" /\ libr(name) # NoFile)
    IN  [x \in DOMAIN found |-> [name |-> found[x], libr |-> libr(found[x])]]

\* Without a jvm.cfg there is at most one VM, and it has no name.
Defaults(fs, home) ==
    LET libr == FirstFile(fs, location_jvm_default, home, Null)
    IN  IF libr = NoFile THEN <<>> ELSE << [name |-> Null, libr |-> libr] >>

NoHome == [path |-> Null, jvms |-> <<>>]

build(fs, path) ==
    LET cfgf == FirstFile(fs, location_jvm_cfg, path, Null)
    IN  IF ~checkdir(fs, path) THEN NoHome
        ELSE [path |-> path, jvms |-> IF cfgf = NoFile THEN Defaults(fs, path) ELSE parse(fs, path, cfgf)]

Unset == {"", "/", "none"}

\* The option, the environment, and only then the list, whose first directory
\* is the home whether there is a VM in it or not.
find(fs, option) ==
    LET path == IF option \in Unset THEN fs.env ELSE option
        there == {x \in DOMAIN location_home : checkdir(fs, location_home[x])}
    IN  IF path \notin Unset THEN build(fs, path)
        ELSE IF there = {} THEN NoHome
        ELSE build(fs, location_home[CHOOSE x \in there : \A y \in there : x <= y])

\* The library for -jvm, or the first VM when no name is given.
java_library(data, name) ==
    LET named == {x \in DOMAIN data.jvms : data.jvms[x].name = name}
    IN  IF data.jvms = <<>> THEN NoFile
        ELSE IF name = "none" THEN data.jvms[1].libr
        ELSE IF named = {} THEN NoFile
        ELSE data.jvms[CHOOSE x \in named : \A y \in named : x <= y].libr

=============================================================================
