------------------------------- MODULE MCJsvc -------------------------------
(* Small instances of Jsvc for TLC. *)
EXTENDS Jsvc

\* One child of an instance that is waited for, two of every other.
MCForks == [k \in Instances |-> IF k \in Waiters THEN 1 ELSE 2]

=============================================================================
