------------------------------ MODULE FifoSize ------------------------------
(***************************************************************************)
(* The template parameter Size of CircularFifo, shared by the FIFO and the *)
(* threads that use it.                                                    *)
(***************************************************************************)
EXTENDS Naturals

CONSTANT Size   \* number of elements the FIFO can hold

ASSUME FifoAssumption == Size \in Nat \ {0}
=============================================================================
