------------------------------ MODULE MCC2I2C ------------------------------
(* TLC instances of C2I2C.                                                 *)
EXTENDS C2I2C

(* Every shape of transfer: one and two bytes written, one and two bytes   *)
(* read, and the combined transfer with its repeated START.                *)
MCOps == {[w |-> 2, r |-> 0], [w |-> 0, r |-> 1], [w |-> 0, r |-> 2],
          [w |-> 1, r |-> 2]}
=============================================================================
