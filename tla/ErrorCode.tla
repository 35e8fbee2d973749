----------------------------- MODULE ErrorCode -----------------------------
(***************************************************************************)
(* HTTPException keeps the reason phrases of all status codes in a static  *)
(* HashMap, which every constructor of an HTTPException fills again and    *)
(* which getMessage reads, on all pool threads and without a lock.  The    *)
(* map allocates its table at the first put; two threads that both find    *)
(* it missing allocate two tables, and the one stored last hides what was  *)
(* put into the other.                                                     *)
(*                                                                         *)
(* A table is named after the thread that allocated it: a thread that has  *)
(* seen the table missing allocates one at once, and afterwards the table  *)
(* is never missing again.  A put of OpenJDK 7, the release the start      *)
(* script names, reads the field to see whether the table is missing,      *)
(* allocates it without looking again, and inserts through a later read of *)
(* the field: the entry goes to the table seen first or to the present one.*)
(***************************************************************************)
EXTENDS Integers, Sequences

CONSTANTS Threads, \* the threads of the pool
          NoTable  \* HashMap.table before the first put

ASSUME ErrorCodeAssumption == NoTable \notin Threads

\* The constructor's calls of errorCode.put, in their order.
Puts == <<"400", "404", "405", "414", "503", "505">>
Codes == {Puts[i] : i \in 1..Len(Puts)}

\* HTTP503Exception is never thrown.
Thrown == Codes \ {"503"}

VARIABLES table,   \* the field HashMap.table
          entries, \* the codes found in each thread's table
          pc,      \* what each thread is doing
          put,     \* how far its constructor is
          tab,     \* the table its current put works on
          code,    \* the field code of the exception it throws, "none" before it is set
          status   \* what getMessage gave it last, "null" for a missing entry

vars == <<table, entries, pc, put, tab, code, status>>

TypeOK ==
    /\ table \in Threads \cup {NoTable}
    /\ entries \in [Threads -> SUBSET Codes]
    /\ pc \in [Threads -> {"idle", "look", "allocate", "insert", "get"}]
    /\ put \in [Threads -> 1..Len(Puts)]
    /\ tab \in [Threads -> Threads \cup {NoTable}]
    /\ code \in [Threads -> Thrown \cup {"none"}]
    /\ status \in [Threads -> Thrown \cup {"none", "null"}]

Init ==
    /\ table = NoTable
    /\ entries = [t \in Threads |-> {}]
    /\ pc = [t \in Threads |-> "idle"]
    /\ put = [t \in Threads |-> 1]
    /\ tab = [t \in Threads |-> NoTable]
    /\ code = [t \in Threads |-> "none"]
    /\ status = [t \in Threads |-> "none"]

\* Mutations of Throw: the constructor starts one put too early or too late.
ThrowFromZero(t) ==
    /\ pc[t] = "idle"
    /\ pc' = [pc EXCEPT ![t] = "look"]
    /\ put' = [put EXCEPT ![t] = 0]
    /\ UNCHANGED <<table, entries, tab, code, status>>
ThrowFromTwo(t) ==
    /\ pc[t] = "idle"
    /\ pc' = [pc EXCEPT ![t] = "look"]
    /\ put' = [put EXCEPT ![t] = 2]
    /\ UNCHANGED <<table, entries, tab, code, status>>

\* throw new HTTP4xxException(): super() fills the map before the constructor
\* of the exception's own class sets its code.
Throw(t) ==
    /\ pc[t] = "idle"
    /\ pc' = [pc EXCEPT ![t] = "look"]
    /\ UNCHANGED <<table, entries, put, tab, code, status>>

\* Mutation of Look: every put works on a table of its own.
LookAlwaysMissing(t) ==
    /\ pc[t] = "look"
    /\ tab' = [tab EXCEPT ![t] = table]
    /\ pc' = [pc EXCEPT ![t] = "allocate"]
    /\ UNCHANGED <<table, entries, put, code, status>>

Look(t) ==
    /\ pc[t] = "look"
    /\ tab' = [tab EXCEPT ![t] = table]
    /\ pc' = [pc EXCEPT ![t] = IF table = NoTable THEN "allocate" ELSE "insert"]
    /\ UNCHANGED <<table, entries, put, code, status>>

Allocate(t) ==
    /\ pc[t] = "allocate"
    /\ table' = t
    /\ tab' = [tab EXCEPT ![t] = t]
    /\ pc' = [pc EXCEPT ![t] = "insert"]
    /\ UNCHANGED <<entries, put, code, status>>

Insert(t) ==
    /\ pc[t] = "insert"
    /\ \E d \in {tab[t], table} :
          entries' = [entries EXCEPT ![d] = @ \cup {Puts[put[t]]}]
    /\ IF put[t] = Len(Puts)
       THEN /\ pc' = [pc EXCEPT ![t] = "get"]
            /\ put' = [put EXCEPT ![t] = 1]
            /\ \E c \in Thrown : code' = [code EXCEPT ![t] = c]
       ELSE /\ pc' = [pc EXCEPT ![t] = "look"]
            /\ put' = [put EXCEPT ![t] = @ + 1]
            /\ UNCHANGED code
    /\ tab' = [tab EXCEPT ![t] = NoTable]
    /\ UNCHANGED <<table, status>>

\* responseMap.put("STATUS", e.getMessage())
GetMessage(t) ==
    /\ pc[t] = "get"
    /\ status' = [status EXCEPT ![t] = IF code[t] \in entries[table] THEN code[t]
                                       ELSE "null"]
    /\ pc' = [pc EXCEPT ![t] = "idle"]
    /\ code' = [code EXCEPT ![t] = "none"]
    /\ UNCHANGED <<table, entries, put, tab>>

Step(t) == Look(t) \/ Allocate(t) \/ Insert(t) \/ GetMessage(t)

Next == \E t \in Threads : Throw(t) \/ Step(t)

\* A thread that throws goes on; nothing makes a thread throw.
Spec == Init /\ [][Next]_vars /\ \A t \in Threads : WF_vars(Step(t))

-----------------------------------------------------------------------------
Filling(t) == pc[t] \in {"look", "allocate", "insert"}

\* An entry can be missing from the table in use only while the thread that
\* allocated this table is still in the constructor that did: the loss of
\* entries to a second table is repaired by that thread itself.
MissingMeansFilling ==
    table # NoTable => entries[table] = Codes \/ Filling(table)

\* A response can carry "null" for its reason only because another thread
\* has replaced the table in the meantime and not yet filled the new one.
NullMeansReplaced ==
    \A t \in Threads :
        pc[t] = "get" /\ code[t] \notin entries[table] => table # t /\ Filling(table)

\* Once the table in use is complete and no thread is left that saw it
\* missing, it stays complete and no response carries "null" again.
Settled == /\ table # NoTable /\ entries[table] = Codes
           /\ \A t \in Threads : pc[t] # "allocate"
SettledForGood ==
    [][Settled => Settled' /\ \A t \in Threads : status'[t] = "null" => status[t] = "null"]_vars

\* The map is repaired in the end.
Repaired == (table # NoTable) ~> Settled

\* What the parser relies on: a missing file is answered with its 404.
EveryStatusNamed == \A t \in Threads : status[t] # "null"

=============================================================================
