------------------------------ MODULE MCWorker ------------------------------
(* Worker for TLC: one of two tasks is published twice.                    *)
EXTENDS Worker

CONSTANTS t1, t2
MCCopies == [t \in TaskIds |-> IF t = t1 THEN 2 ELSE 1]
=============================================================================
