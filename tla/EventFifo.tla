----------------------------- MODULE EventFifo ------------------------------
(***************************************************************************)
(* What a sensor driver needs from its event reader: a queue that holds at *)
(* most N events, accepts them from the input device in batches and hands  *)
(* them on in the order they came.  Events are numbered as they arrive.    *)
(***************************************************************************)
EXTENDS Naturals

CONSTANT N

VARIABLES taken,   \* events accepted from the device
          given,   \* events handed to the driver
          last     \* the event handed over last, 0 before the first

Init == taken = 0 /\ given = 0 /\ last = 0

Accept(n) == /\ taken + n <= given + N
             /\ taken' = taken + n
             /\ UNCHANGED << given, last >>

Give == /\ given < taken
        /\ given' = given + 1
        /\ last' = given + 1
        /\ UNCHANGED taken

Next == (\E n \in 1 .. N : Accept(n)) \/ Give

Spec == Init /\ [][Next]_<< taken, given, last >>
=============================================================================
