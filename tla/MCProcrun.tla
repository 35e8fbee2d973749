------------------------------ MODULE MCProcrun ------------------------------
(* One configuration for each way serviceStart and serviceStop can go; the  *)
(* interrogations and the second stop threads are spread over them.         *)
EXTENDS Procrun

Cfg(m, b, e, t, q, n) ==
    [mode |-> m, start |-> b, stop |-> e, timeout |-> t, queries |-> q, events |-> n]

MCConfigs ==
    {Cfg("service", "jvm", "jvm", "finite", 0, 0), Cfg("service", "jvm", "system", "zero", 0, 0),
     Cfg("service", "jvm", "none", "zero", 0, 1), Cfg("service", "jvm", "java", "infinite", 0, 0),
     Cfg("service", "exe", "exe", "finite", 0, 1), Cfg("service", "java", "none", "zero", 1, 0),
     Cfg("service", "exe", "jvm", "zero", 0, 0), Cfg("console", "exe", "none", "infinite", 0, 2),
     Cfg("console", "jvm", "jvm", "zero", 0, 2)}
=============================================================================
