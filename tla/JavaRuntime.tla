----------------------------- MODULE JavaRuntime -----------------------------
(***************************************************************************)
(* Where procrun finds Java: registry.c and the head of javajni.c.  A setup*)
(* is what a machine offers: JAVA_HOME, what the registry says of the      *)
(* current JDK and JRE ("none": no key, no CurrentVersion or no JavaHome), *)
(* the JRE's RuntimeLib, and the libraries there are as files and those    *)
(* among them the loader takes.                                            *)
(***************************************************************************)
EXTENDS FiniteSets

JreDll == "jre/bin/server/jvm.dll"
Libs == {"given", "reg", JreDll}
Setups == [env : {"none", "env"}, jdk : {"none", "jdk"}, jre : {"none", "jre"},
           lib : {"none", "reg"}, files : SUBSET Libs, loads : SUBSET Libs]

(* The home of the JRE, or JAVA_HOME before that of the JDK. *)
apxGetJavaSoftHome(e, preferJre) ==
    IF preferJre THEN e.jre ELSE IF e.env # "none" THEN e.env ELSE e.jdk

(* A home that came from the registry becomes JAVA_HOME. *)
HomeSought(e, preferJre) ==
    IF apxGetJavaSoftHome(e, preferJre) \in {"none", "env"} THEN e
    ELSE [e EXCEPT !.env = apxGetJavaSoftHome(e, preferJre)]

apxGetJavaSoftRuntimeLib(e) == e.lib

(* The library to load: the one given, which must be there, else the one in *)
(* the registry, and if that is not there the JRE's.                        *)
JvmDllPath(e, given) ==
    CASE given # "none" -> IF given \in e.files THEN given ELSE "none"
      [] given = "none" /\ apxGetJavaSoftRuntimeLib(e) = "none" -> "none"
      [] OTHER -> IF e.lib \notin e.files /\ apxGetJavaSoftHome(e, TRUE) # "none"
                  THEN JreDll ELSE e.lib

LoadJvmDll(e, given) == JvmDllPath(e, given) \in e.files \cap e.loads

(* The home for the mode java, by --JavaHome: none, jdk, jre or a path. *)
JavaHome(e, choice) ==
    IF choice = "path" THEN "path" ELSE apxGetJavaSoftHome(e, choice = "jre")
AfterJavaHome(e, choice) == IF choice = "path" THEN e ELSE HomeSought(e, choice = "jre")
=============================================================================
