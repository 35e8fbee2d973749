------------------------- MODULE ConnectionService -------------------------
(***************************************************************************)
(* What the server promises of every connection, without threads, queues,  *)
(* requests or descriptors: it is admitted in its turn, served by one of   *)
(* at most PoolSize threads, and then answered or dropped, once and for    *)
(* all.  When the acceptor has stopped nothing more is admitted; the one   *)
(* connection it was working on may be dropped unserved, and every         *)
(* connection admitted before is still served.                             *)
(***************************************************************************)
EXTENDS Integers, FiniteSets

CONSTANTS Conns,   \* the connections
          PoolSize \* how many are served at a time

VARIABLES up,   \* the acceptor is working
          stage \* how far each connection has come

vars == <<up, stage>>

Stages == {"absent", "waiting", "admitted", "serving", "answered", "dropped"}

TypeOK == up \in BOOLEAN /\ stage \in [Conns -> Stages]

At(s) == {c \in Conns : stage[c] = s}

Init == up = TRUE /\ stage = [c \in Conns |-> "absent"]

Move(c, from, to) ==
    /\ stage[c] = from
    /\ stage' = [stage EXCEPT ![c] = to]

Arrive(c) == Move(c, "absent", "waiting") /\ UNCHANGED up

Admit(c) == up /\ Move(c, "waiting", "admitted") /\ UNCHANGED up

Serve(c) ==
    /\ Move(c, "admitted", "serving")
    /\ Cardinality(At("serving")) < PoolSize
    /\ UNCHANGED up

Finish(c) == (\E s \in {"answered", "dropped"} : Move(c, "serving", s)) /\ UNCHANGED up

Stop ==
    /\ up
    /\ ~up'
    /\ \/ UNCHANGED stage
       \/ \E c \in Conns : Move(c, "admitted", "dropped")

Next == Stop \/ \E c \in Conns : Arrive(c) \/ Admit(c) \/ Serve(c) \/ Finish(c)

(***************************************************************************)
(* Every connection admitted is served or lost with the acceptor, and      *)
(* serving ends; whether waiting connections are admitted is not promised  *)
(* once the acceptor has stopped.                                          *)
(***************************************************************************)
Fairness ==
    /\ WF_vars(\E c \in Conns : Serve(c))
    /\ WF_vars(\E c \in Conns : Admit(c))
    /\ \A c \in Conns : WF_vars(Finish(c))

Spec == Init /\ [][Next]_vars /\ Fairness

=============================================================================
