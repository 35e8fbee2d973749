------------------------------ MODULE Registry ------------------------------
(***************************************************************************)
(* Where procrun keeps a service's configuration (registry.c): the key of  *)
(* its parameters, and the service's own key, which belongs to the service *)
(* control manager and holds a subkey Parameters, which procrun opens and  *)
(* never fills.                                                            *)
(*                                                                         *)
(* A registry is a record: root, the parameters' key is there; sub, the    *)
(* subkey of the service's own key; val, what is stored for each option,   *)
(* Null where nothing is.  there says whether the service's own key is.    *)
(***************************************************************************)
EXTENDS Cmdline

EmptyRegistry == [root |-> FALSE, sub |-> FALSE, val |-> [o \in Options |-> Null(o)]]
Forget(val, os) == [o \in Options |-> IF o \in os THEN Null(o) ELSE val[o]]
Params == Options \ Srv

(* Opened for reading, every key must be there.  Opened for writing, the    *)
(* parameters' key is created first, and stays if the service's key is      *)
(* missing and the call fails.                                              *)
apxCreateRegistry(r, there, write) ==
    IF write THEN [ok |-> there, reg |-> [r EXCEPT !.root = TRUE, !.sub = @ \/ there]]
             ELSE [ok |-> r.root /\ there /\ r.sub, reg |-> r]

(* The account and the start mode are under other names in the service's    *)
(* key than the ones these options are read by: they are never found.       *)
apxRegistryGetString(r, o) == IF o \in {"ServiceUser", "Startup"} THEN Empty ELSE r.val[o]
apxRegistryGetNumber(r, o) == r.val[o]
apxRegistryGetMzStr(r, o) == r.val[o]

(* An empty string removes the value. *)
apxRegistrySetStr(r, o, v) == [r EXCEPT !.val[o] = IF v = Empty THEN Null(o) ELSE v]
apxRegistrySetNum(r, o, v) == [r EXCEPT !.val[o] = v]
apxRegistrySetMzStr(r, o, v) == [r EXCEPT !.val[o] = v]

(* Mutant: the values are deleted and the key stays. *)
apxDeleteRegistryValues(r) == [r EXCEPT !.val = Forget(@, Params)]

(* The parameters' key goes, with everything below. *)
apxDeleteRegistryRecursive(r) == [r EXCEPT !.root = FALSE, !.val = Forget(@, Params)]

(* The SCM removes a service's key, with all below. *)
ServiceKeyRemoved(r) == [r EXCEPT !.sub = FALSE, !.val = Forget(@, Srv)]

(* The account a service runs as, read by its right name. *)
apxGetServiceUser(r) == r.val["ServiceUser"]

Store(r, o, v) == CASE Type(o) = "STR" -> apxRegistrySetStr(r, o, v)
                    [] Type(o) = "INT" -> apxRegistrySetNum(r, o, v)
                    [] OTHER -> apxRegistrySetMzStr(r, o, v)
Fetch(r, o) == CASE Type(o) = "STR" -> apxRegistryGetString(r, o)
                 [] Type(o) = "INT" -> apxRegistryGetNumber(r, o)
                 [] OTHER -> apxRegistryGetMzStr(r, o)

(* The options as the service's commands use them: those not given are      *)
(* read, a list given with ++ is put behind the one that is stored.         *)
Merged(r, o, opt) ==
    [opt EXCEPT !.val = IF ~opt.found THEN Fetch(r, o)
                        ELSE IF opt.add /\ Type(o) = "MSZ"
                             THEN apxMultiSzCombine(Fetch(r, o), @) ELSE @]
loadConfiguration(r, there, os) ==
    LET ok == apxCreateRegistry(r, there, FALSE).ok
    IN [ok |-> ok, options |-> IF ok THEN [o \in Options |-> Merged(r, o, os[o])] ELSE os]

(* Mutant: all options are saved, not only those given. *)
ToSaveAll(os) == Params

(* The options saveConfiguration writes, in the order of the table. *)
ToSave(os) == {o \in Params : os[o].found}

------------------------------------------------------------------------------
(* The SCM's side of the service's key.  A service marked for deletion      *)
(* takes no change; an absent argument changes nothing.                     *)
apxServiceSetNames(r, present, display, user) ==
    LET set(x, o, v) == IF v = Empty THEN x ELSE [x EXCEPT !.val[o] = v]
    IN [ok |-> present,
        reg |-> IF present THEN set(set(r, "DisplayName", display), "ServiceUser", user) ELSE r]
apxServiceSetOptions(r, present, start) ==
    [ok |-> present,
     reg |-> IF present /\ start # Empty THEN [r EXCEPT !.val["Startup"] = start] ELSE r]
apxServiceInstall(r, display, startup) ==
    [r EXCEPT !.val = [@ EXCEPT !["DisplayName"] = display, !["ServiceUser"] = "LocalSystem",
                                !["Startup"] = IF startup = "auto" THEN "auto" ELSE "manual"]]
=============================================================================
