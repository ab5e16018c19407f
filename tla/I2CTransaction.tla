--------------------------- MODULE I2CTransaction ---------------------------
(***************************************************************************)
(* What a master transfer of c2_i2c.c promises, with no driver and no      *)
(* controller: the commands reach the wires in the order of the script, a  *)
(* byte that was not acknowledged is followed by nothing but a STOP, after *)
(* the STOP comes nothing, C2_OK means that all of it happened, and every  *)
(* call returns.  A command may still reach the wires after a call that    *)
(* gave up waiting for it has returned.                                    *)
(***************************************************************************)
EXTENDS I2CScript

VARIABLES
  phase,   (* "busy" during a transfer call                                  *)
  op,      (* the operation of the latest transfer                           *)
  wire,    (* what that transfer has put on the wires                        *)
  res      (* the status of the latest call, "none" during it                *)

vars == <<phase, op, wire, res>>

Init == phase = "idle" /\ op = [w |-> 0, r |-> 0] /\ wire = << >> /\ res = "none"

Open ==
  /\ phase = "idle" /\ phase' = "busy"
  /\ op' \in Ops
  /\ wire' = << >> /\ res' = "none"

Refuse ==
  /\ phase = "idle"
  /\ res' \in {"NOT_INITIALIZED", "BUSY"}
  /\ UNCHANGED <<phase, op, wire>>

(* All that is on the wires is a prefix of the script, up to position n. *)
PerformedUpTo(n) == \A i \in 1 .. n : Performed(op, i, wire[i])

Put ==
  /\ wire' \in {Append(wire, e) : e \in
                  [cmd : Commands, byte : 0 .. ScriptLen(op), ack : {"ACK", "NACK"}]}
  /\ LET n == Len(wire)
         e == wire'[n + 1]
     IN \/ /\ e.cmd = CommandAt(op, n + 1) /\ n < ScriptLen(op)
           /\ PerformedUpTo(n)
        \/ /\ e.cmd = "STO"
           /\ \A i \in 1 .. n : wire[i].cmd # "STO"
  /\ UNCHANGED <<phase, op, res>>

Close ==
  /\ phase = "busy" /\ phase' = "idle"
  /\ \/ res' \in {"BUSY", "ARBITRATION", "NACK", "TIMEOUT"}
     \/ res' = "OK" /\ Complete(op, wire)
  /\ UNCHANGED <<op, wire>>

Next == Open \/ Refuse \/ Put \/ Close

Safety == Init /\ [][Next]_vars

Spec == Safety /\ WF_vars(Close)
=============================================================================
