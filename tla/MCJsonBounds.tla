---------------------------- MODULE MCJsonBounds ----------------------------
(* Every bound can be met and exceeded, by one or by more.                   *)
EXTENDS JsonBounds

MCStrings == { [chars |-> 1, bytes |-> 2], [chars |-> 2, bytes |-> 2],
               [chars |-> 2, bytes |-> 3] }
MCNumbers == { [digits |-> 1, length |-> 9, exponent |-> 1],
               [digits |-> 1, length |-> 10, exponent |-> 0],
               [digits |-> 2, length |-> 2, exponent |-> 0],
               [digits |-> 1, length |-> 4, exponent |-> 2],
               [digits |-> 1, length |-> 5, exponent |-> 3] }
=============================================================================
