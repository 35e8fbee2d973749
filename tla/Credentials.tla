---------------------------- MODULE Credentials ----------------------------
(***************************************************************************)
(* How the child of jsvc becomes the user of -user: checkuser,             *)
(* set_user_group, linuxset_user_group and set_caps of jsvc-unix.c, with   *)
(* what setgid, setuid, initgroups and capset of Linux allow a process.    *)
(*                                                                         *)
(* A process, as yet of one thread, is a record of its user and of its     *)
(* capabilities: those it may raise (permitted) and those that count       *)
(* (effective).  Capabilities are a thread's own; a new thread has those   *)
(* of the thread that makes it.                                            *)
(***************************************************************************)
EXTENDS FiniteSets

Refused == [uid |-> "none", permitted |-> {}, effective |-> {}]

Process(uid, permitted, effective) ==
    [uid |-> uid, permitted |-> permitted, effective |-> effective]

CAPS == {"BIND", "SETUID", "SETGID", "READ"}
CAPSMIN == {"BIND", "READ"}
All == CAPS \cup {"CHOWN", "OVERRIDE"}

\* A process of root, or of somebody else, as the operator starts it.
Login(uid) == IF uid = "root" THEN Process(uid, All, All) ELSE Process(uid, {}, {})

\* capset gives no capability that is not permitted; with these it cannot fail
\* for another reason.
Capset(p, caps) ==
    IF caps \subseteq p.permitted THEN Process(p.uid, caps, caps) ELSE Refused

\* The bits that a wanted set comes to: jsvc built without libcap passes the
\* right ones; built with it, it passes 1 or 2 when the library is not found.
set_legacy_caps(p, caps, libcap) ==
    Capset(p, IF libcap = "unused" THEN caps
              ELSE CASE caps = CAPS -> {"CHOWN"} [] caps = CAPSMIN -> {"OVERRIDE"} [] OTHER -> {})

set_caps(p, caps, libcap) ==
    IF libcap = "found" THEN Capset(p, caps) ELSE set_legacy_caps(p, caps, libcap)

\* Own ids need no capability.  initgroups does, and its failure is only
\* forgiven to a process of the user itself.
setgid(p, uid) == p.uid = uid \/ "SETGID" \in p.effective
initgroups(p) == "SETGID" \in p.effective

\* setuid of root to another user clears what counts, and with PR_SET_KEEPCAPS
\* it leaves what is permitted.
setuid(p, uid, keep) ==
    IF "SETUID" \notin p.effective THEN Refused
    ELSE Process(uid, IF keep THEN p.permitted ELSE {}, {})

set_user_group(p, uid, keep) ==
    IF ~setgid(p, uid) \/ (~initgroups(p) /\ p.uid # uid) THEN Refused
    ELSE IF p.uid = uid THEN p
    ELSE setuid(p, uid, keep)

\* The answer of the process forked to try it; users are the known names.
checkuser(p, user, users) ==
    user = "none" \/ (user \in users /\ set_user_group(p, user, FALSE) # Refused)

\* A set_caps that fails is forgiven to a process of the user itself.
Forgiven(p, caps, libcap, uid) ==
    LET q == set_caps(p, caps, libcap)
    IN  IF q # Refused THEN q ELSE IF p.uid = uid THEN p ELSE Refused

linuxset_user_group(p, user, libcap) ==
    LET root == p.uid = "root"
        raised == IF root THEN Forgiven(p, CAPS, libcap, user) ELSE p
        switched == IF raised = Refused THEN Refused ELSE set_user_group(raised, user, root)
    IN  IF user = "none" THEN p
        ELSE IF switched = Refused \/ ~root THEN switched
        ELSE Forgiven(switched, CAPSMIN, libcap, user)

\* Mutation of downgrade: only a process of root gives its capabilities away.
downgradeRoot(p, user, libcap) ==
    IF user = "none" \/ p.uid # "root" THEN p ELSE set_caps(p, {}, libcap)

\* "Downgrade user" of child(), after the service has been loaded: of the thread
\* that calls it.  To give all away is never refused.
downgrade(p, user, libcap) == IF user = "none" THEN p ELSE set_caps(p, {}, libcap)

=============================================================================
