------------------------------- MODULE Cmdline -------------------------------
(***************************************************************************)
(* How the procrun programs read their command line and the environment    *)
(* (cmdline.c), and the conversions of multi-strings, edit boxes and       *)
(* numbers they use (utils.c).                                             *)
(*                                                                         *)
(* Text is cut into the pieces the code tells apart.  A string is itself,  *)
(* Empty an absent one.  A multi-string is a sequence of items; the item   *)
(* Empty is the NUL that ends the list for every reader.  The text of a    *)
(* list option is the items between its separators and the number of       *)
(* single quotes, which are dropped; the text of a number is its           *)
(* characters.                                                             *)
(***************************************************************************)
EXTENDS Integers, SequencesExt

CONSTANTS
    ULongSize,      \* 2^32
    Strings         \* the strings

Empty == ""

ASSUME ULongAssumption == ULongSize \in Nat \ {0}
ASSUME StringsAssumption ==
    {Empty, "auto", "manual", "disabled", "LocalSystem", "Info", "svc"} \subseteq Strings

(* One option of each kind and of each property page, in the order of the   *)
(* table.  "SRV" options live in the service's own key.                     *)
Opt(n, t, f) == [name |-> n, type |-> t, from |-> f]
Table == << Opt("DisplayName", "STR", "SRV"), Opt("ServiceUser", "STR", "SRV"),
            Opt("Startup", "STR", "SRV"), Opt("JvmOptions", "MSZ", "REG"),
            Opt("StopTimeout", "INT", "REG"), Opt("StartMode", "STR", "REG"),
            Opt("LogLevel", "STR", "REG") >>
Names == [i \in DOMAIN Table |-> Table[i].name]
Options == ToSet(Names)
Place(o) == CHOOSE i \in DOMAIN Table : Names[i] = o
FirstOf(os) == CHOOSE o \in os : \A q \in os : Place(o) <= Place(q)
Row(o) == Table[Place(o)]
Type(o) == Row(o).type
Srv == {o \in Options : Row(o).from = "SRV"}

(* The value of an option that is not set. *)
Null(o) == CASE Type(o) = "STR" -> Empty [] Type(o) = "INT" -> 0 [] Type(o) = "MSZ" -> <<>>
NoOptions == [o \in Options |-> [val |-> Null(o), found |-> FALSE, add |-> FALSE]]

------------------------------------------------------------------------------
(* A number is read from its last character back to the first that is no    *)
(* digit; a leading minus negates it; all arithmetic is modulo 2^32.        *)
(* A character is its digit; the minus is 10, every other one is 11.       *)
Digits == 0 .. 9
MINUS == 10
apxAtoul(s) ==
    LET tail(n) == SubSeq(s, Len(s) - n + 1, Len(s))
        n == CHOOSE k \in 0 .. Len(s) :
                /\ ToSet(tail(k)) \subseteq Digits
                /\ k < Len(s) => s[Len(s) - k] \notin Digits
        back(a, d) == [rv |-> (a.rv + d * a.sh) % ULongSize, sh |-> (a.sh * 10) % ULongSize]
        rv == FoldLeft(back, [rv |-> 0, sh |-> 1], Reverse(tail(n))).rv
    IN IF s # <<>> /\ s[1] = MINUS THEN (-rv) % ULongSize ELSE rv

(* What a reader of a multi-string sees: the items before the first Empty. *)
GetMultiSzLength(m) == Cardinality({n \in DOMAIN m : \A k \in 1 .. n : m[k] # Empty})
Readable(m) == SubSeq(m, 1, GetMultiSzLength(m))

apxMultiSzCombine(a, b) == Readable(a) \o Readable(b)
apxMultiSzToArray(m) == Readable(m)

(* An edit box shows one item a line, and every line becomes an item. *)
apxMszToCRLF(m) == Readable(m)
apxCRLFToMsz(lines) == lines

(* Each dropped quote leaves its place behind the value, as a NUL. *)
Split(text) == text.items \o [i \in 1 .. text.quotes |-> Empty]

------------------------------------------------------------------------------
(* What is on a command line: options, with a text for each that has one,   *)
(* and words that are none.                                                 *)
Texts(o) == CASE Type(o) = "STR" -> Strings [] Type(o) = "INT" -> Seq(0 .. 11)
              [] Type(o) = "MSZ" -> [items : Seq(Strings), quotes : Nat]
Argument(a) == IF a.opt \in Options THEN a \in [opt : {a.opt}, add : BOOLEAN, text : Texts(a.opt)]
                                    ELSE a.opt \in {"unknown", "valueless", "word"}

(* The value of option o after a further text: a string or a number is      *)
(* replaced, a list is continued.                                           *)
Take(o, old, text) == CASE Type(o) = "STR" -> text
                        [] Type(o) = "INT" -> apxAtoul(text)
                        [] Type(o) = "MSZ" -> old \o Split(text)

(* One argument --opt text or ++opt text.  The first one decides about ++;  *)
(* a -- after ++ drops what the ++ have collected.                          *)
TakeArg(os, a) ==
    LET old == os[a.opt]
        kept == IF old.add /\ ~a.add THEN Null(a.opt) ELSE old.val
    IN [os EXCEPT ![a.opt] = [val |-> Take(a.opt, kept, a.text), found |-> TRUE,
                              add |-> a.add /\ (old.add \/ ~old.found)]]

(* The number of the command, by either of its names; 0 if there is none.   *)
CmdIndex(c) == LET is == {i \in DOMAIN c.commands : c.cmd \in {c.commands[i], c.alts[i]}}
               IN IF is = {} THEN 0 ELSE CHOOSE i \in is : TRUE

(* The arguments before the first that is not an option. *)
Leading(args) == SubSeq(args, 1, Cardinality({n \in DOMAIN args :
                                                \A k \in 1 .. n : args[k].opt # "word"}))

(* The parse fails at an unknown command or option and at a last option     *)
(* without a value; no command at all is the first one.  A command line c   *)
(* comes with the program's commands and their other names.                 *)
ParseFails(c) ==
    \/ c.cmd # Empty /\ CmdIndex(c) = 0
    \/ c.cmd # Empty /\ \E i \in DOMAIN Leading(c.args) : c.args[i].opt \in {"unknown", "valueless"}

apxCmdlineParse(c) ==
    IF c.cmd = Empty THEN [index |-> 1, options |-> NoOptions]
    ELSE [index |-> CmdIndex(c), options |-> FoldLeft(TakeArg, NoOptions, Leading(c.args))]

(* PR_ variables come after the command line and overwrite it, lists are    *)
(* added to the registry's.  An empty variable may end the loop: whether it *)
(* does depends on an older error code.                                     *)
TakeVar(env, os, o) ==
    IF env[o].is # "set" THEN os
    ELSE [os EXCEPT ![o] = [val |-> Take(o, Null(o), env[o].text), found |-> TRUE,
                            add |-> os[o].add \/ Type(o) = "MSZ"]]
apxCmdlineLoadEnvVars(os, env, stops) ==
    LET seen == Cardinality({n \in DOMAIN Names :
                               \A k \in 1 .. n : ~(stops /\ env[Names[k]].is = "empty")})
        var(acc, o) == TakeVar(env, acc, o)
    IN FoldLeft(var, os, SubSeq(Names, 1, seen))
=============================================================================
