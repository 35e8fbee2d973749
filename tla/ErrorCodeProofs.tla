-------------------------- MODULE ErrorCodeProofs --------------------------
(***************************************************************************)
(* The loss of reason phrases is confined to the race that causes it, for  *)
(* any number of threads.                                                  *)
(***************************************************************************)
EXTENDS ErrorCode, TLAPS

\* Only the first put of the program can find the table missing.
FirstPut ==
    /\ \A t \in Threads : pc[t] = "allocate" => put[t] = 1
    /\ table = NoTable => \A t \in Threads : /\ put[t] = 1
                                             /\ pc[t] \in {"idle", "look", "allocate"}

\* The thread that allocated the table in use inserts into this table, ...
OwnTable ==
    \A t \in Threads : pc[t] = "insert" => /\ tab[t] # NoTable
                                           /\ table = t => tab[t] = t

\* ... and has inserted all that it has come to.
Progress == \A t \in Threads :
               table = t /\ Filling(t) => \A i \in 1..(put[t] - 1) : Puts[i] \in entries[t]

\* A constructor starts from the first put again.
Idle == \A t \in Threads : pc[t] \in {"idle", "get"} => put[t] = 1

CodeChosen == \A t \in Threads : pc[t] = "get" => code[t] \in Thrown

IInv == TypeOK /\ FirstPut /\ OwnTable /\ Idle /\ Progress /\ CodeChosen /\ MissingMeansFilling

LEMMA PutsRange ==
    /\ Len(Puts) = 6
    /\ Codes = {Puts[1], Puts[2], Puts[3], Puts[4], Puts[5], Puts[6]}
    /\ \A i \in 1..6 : Puts[i] \in Codes
<1>1. Len(Puts) = 6
      BY DEF Puts
<1> QED BY <1>1 DEF Codes

LEMMA InitIInv == Init => IInv
BY ErrorCodeAssumption, PutsRange
   DEF ErrorCodeAssumption, Init, IInv, TypeOK, FirstPut, OwnTable, Idle, Progress, Filling,
       CodeChosen, MissingMeansFilling

LEMMA NextIInv ==
    ASSUME IInv, [Next]_vars
    PROVE  IInv'
<1> USE ErrorCodeAssumption DEF ErrorCodeAssumption, IInv, TypeOK
<1>1. ASSUME NEW t \in Threads, Throw(t) PROVE IInv'
  <2>1. TypeOK'
        BY <1>1 DEF Throw
  <2>2. FirstPut' /\ OwnTable' /\ Idle' /\ CodeChosen'
        BY <1>1 DEF Throw, FirstPut, OwnTable, Idle, CodeChosen
  <2>3. Progress'
        BY <1>1, PutsRange DEF Throw, Progress, Filling, FirstPut, Idle
  <2>4. MissingMeansFilling'
        BY <1>1 DEF Throw, Filling, MissingMeansFilling
  <2> QED BY <2>1, <2>2, <2>3, <2>4
<1>2. ASSUME NEW t \in Threads, Look(t) PROVE IInv'
  <2>1. TypeOK'
        BY <1>2 DEF Look
  <2>2. FirstPut' /\ OwnTable' /\ Idle' /\ CodeChosen'
        BY <1>2 DEF Look, FirstPut, OwnTable, Idle, CodeChosen
  <2>3. Progress' /\ MissingMeansFilling'
        BY <1>2 DEF Look, Progress, Filling, MissingMeansFilling
  <2> QED BY <2>1, <2>2, <2>3
<1>3. ASSUME NEW t \in Threads, Allocate(t) PROVE IInv'
      BY <1>3 DEF Allocate, FirstPut, OwnTable, Idle, Progress, Filling, CodeChosen,
                  MissingMeansFilling
<1>4. ASSUME NEW t \in Threads, Insert(t) PROVE IInv'
  <2>1. PICK d \in {tab[t], table} :
           entries' = [entries EXCEPT ![d] = @ \cup {Puts[put[t]]}]
        BY <1>4 DEF Insert
  <2>2. d \in Threads /\ table \in Threads /\ Puts[put[t]] \in Codes
        BY <1>4, PutsRange DEF Insert, OwnTable, FirstPut
  <2>3. /\ entries' \in [Threads -> SUBSET Codes]
        /\ \A u \in Threads : entries[u] \subseteq entries'[u]
        BY <2>1, <2>2
  <2>4. TypeOK'
        BY <1>4, <2>3, PutsRange DEF Insert
  <2>5. FirstPut' /\ OwnTable' /\ Idle' /\ CodeChosen'
    <3>1. FirstPut'
          BY <1>4, <2>2 DEF Insert, FirstPut
    <3>2. OwnTable'
          BY <1>4, <2>2 DEF Insert, OwnTable
    <3>3. CodeChosen'
          BY <1>4 DEF Insert, CodeChosen
    <3>4. Idle'
          BY <1>4 DEF Insert, Idle
    <3> QED BY <3>1, <3>2, <3>3, <3>4
  <2>6. table = t => Puts[put[t]] \in entries'[t]
        BY <1>4, <2>1, <2>2 DEF Insert, OwnTable
  <2>7. \A u \in Threads \ {t} : put'[u] = put[u] /\ pc'[u] = pc[u]
        BY <1>4 DEF Insert
  <2>8. CASE put[t] # Len(Puts)
    <3>1. put'[t] = put[t] + 1 /\ Filling(t) /\ Filling(t)' /\ UNCHANGED table
          BY <1>4, <2>8 DEF Insert, Filling
    <3>2. Progress'
          BY <2>3, <2>6, <2>7, <3>1 DEF Progress, Filling
    <3>3. MissingMeansFilling'
          BY <2>3, <2>7, <3>1 DEF MissingMeansFilling, Filling
    <3> QED BY <2>4, <2>5, <3>2, <3>3
  <2>9. CASE put[t] = Len(Puts)
    <3>1. put'[t] = 1 /\ ~Filling(t)' /\ UNCHANGED table
          BY <1>4, <2>9 DEF Insert, Filling
    <3>2. Progress'
          BY <2>3, <2>7, <3>1 DEF Progress, Filling
    <3>3. table = t => entries'[t] = Codes
      <4>1. table = t => \A i \in 1..5 : Puts[i] \in entries[t]
            BY <1>4, <2>9, PutsRange DEF Insert, Progress, Filling
      <4> QED BY <2>3, <2>6, <2>9, <4>1, PutsRange
    <3>4. MissingMeansFilling'
          BY <2>3, <2>7, <3>1, <3>3 DEF MissingMeansFilling, Filling
    <3> QED BY <2>4, <2>5, <3>2, <3>4
  <2> QED BY <2>8, <2>9
<1>5. ASSUME NEW t \in Threads, GetMessage(t) PROVE IInv'
  <2>1. TypeOK'
        BY <1>5 DEF GetMessage, CodeChosen
  <2>2. FirstPut' /\ OwnTable' /\ Idle' /\ CodeChosen' /\ Progress' /\ MissingMeansFilling'
        BY <1>5 DEF GetMessage, FirstPut, OwnTable, Idle, CodeChosen, Progress, Filling,
                    MissingMeansFilling
  <2> QED BY <2>1, <2>2
<1>6. CASE UNCHANGED vars
      BY <1>6 DEF vars, FirstPut, OwnTable, Idle, Progress, Filling, CodeChosen, MissingMeansFilling
<1> QED BY <1>1, <1>2, <1>3, <1>4, <1>5, <1>6 DEF Next, Step

\* Type correctness of the map and of the threads that fill it.
THEOREM TypeCorrect == Spec => []TypeOK
<1>1. IInv => TypeOK
      BY DEF IInv
<1> QED BY <1>1, InitIInv, NextIInv, PTL DEF Spec

\* Entries are missing from the table in use only while its maker fills it.
THEOREM LossIsConfined == Spec => []MissingMeansFilling
<1>1. IInv => MissingMeansFilling
      BY DEF IInv
<1> QED BY <1>1, InitIInv, NextIInv, PTL DEF Spec

\* A "null" status is always the work of another thread's table.
THEOREM NullNeedsARace == Spec => []NullMeansReplaced
<1>1. IInv => NullMeansReplaced
      BY DEF IInv, TypeOK, FirstPut, CodeChosen, MissingMeansFilling, NullMeansReplaced,
             Filling, Thrown
<1> QED BY <1>1, InitIInv, NextIInv, PTL DEF Spec

\* After the race is over every status line is named, for ever.
THEOREM NoLossOnceSettled == Spec => SettledForGood
<1> DEFINE Quiet == Settled => /\ Settled'
                               /\ \A t \in Threads : status'[t] = "null" => status[t] = "null"
<1>1. ASSUME IInv, IInv', [Next]_vars PROVE Quiet
  <2> SUFFICES ASSUME Settled PROVE Quiet
        OBVIOUS
  <2> USE <1>1 DEF IInv, TypeOK
  <2>1. ASSUME NEW t \in Threads, Throw(t) \/ Look(t) PROVE Quiet
        BY <2>1 DEF Throw, Look, Settled
  <2>2. ASSUME NEW t \in Threads, Insert(t) PROVE Quiet
    <3>1. PICK d \in {tab[t], table} :
             entries' = [entries EXCEPT ![d] = @ \cup {Puts[put[t]]}]
          BY <2>2 DEF Insert
    <3>2. entries'[table] = Codes
          BY <2>2, <3>1 DEF Settled, Insert
    <3> QED BY <2>2, <3>2 DEF Settled, Insert
  <2>3. ASSUME NEW t \in Threads, GetMessage(t) PROVE Quiet
    <3>1. code[t] \in entries[table] /\ code[t] # "null"
          BY <2>3, PutsRange DEF GetMessage, Settled, CodeChosen, Thrown, Puts
    <3> QED BY <2>3, <3>1 DEF GetMessage, Settled
  <2>4. ASSUME NEW t \in Threads, Allocate(t) PROVE Quiet
        BY <2>4 DEF Allocate, Settled
  <2>5. CASE UNCHANGED vars
        BY <2>5 DEF vars, Settled
  <2> QED BY <1>1, <2>1, <2>2, <2>3, <2>4, <2>5 DEF Next, Step
<1> QED BY <1>1, InitIInv, NextIInv, PTL DEF Spec, SettledForGood

=============================================================================
