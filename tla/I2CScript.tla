----------------------------- MODULE I2CScript -----------------------------
(***************************************************************************)
(* What a master transfer of c2_i2c.c asks of the controller: a script of  *)
(* commands, the address byte with START, the bytes written, a repeated    *)
(* START and the bytes read.  An operation is the pair of its lengths:     *)
(* master_write has r = 0, master_read has w = 0 and master_write_read has *)
(* both nonzero.                                                           *)
(***************************************************************************)
EXTENDS Naturals, Sequences

CONSTANT Ops   (* the transfers the application asks for *)

ASSUME OpsAssumption == /\ Ops \subseteq [w : Nat, r : Nat]
                        /\ \A o \in Ops : o.w + o.r > 0

Commands == {"STA_WR", "WR", "RD_ACK", "RD_NACK", "STO"}

Transmits(c) == c \in {"STA_WR", "WR"}
Receives(c)  == c \in {"RD_ACK", "RD_NACK"}

Restart(o)   == o.w > 0 /\ o.r > 0
ScriptLen(o) == 1 + o.w + o.r + (IF Restart(o) THEN 1 ELSE 0)

(* Every byte read is acknowledged but the last. *)
CommandAt(o, i) ==
  CASE i = 1 \/ (Restart(o) /\ i = o.w + 2) -> "STA_WR"
    [] i > 1 /\ i <= o.w + 1                -> "WR"
    [] o.r > 0 /\ i = ScriptLen(o)          -> "RD_NACK"
    [] OTHER                                -> "RD_ACK"

(* A command as it was seen on the wires: the byte is the position in the  *)
(* script it was meant for, 0 when nothing was transmitted.                *)
WireEvents == [cmd : Commands, byte : Nat, ack : {"ACK", "NACK"}]

(* Position i of the script of o went over the wires as intended. *)
Performed(o, i, e) ==
  /\ e.cmd = CommandAt(o, i)
  /\ Transmits(e.cmd) => e.byte = i /\ e.ack = "ACK"

(* The whole script, then one STOP. *)
Complete(o, w) ==
  /\ Len(w) = ScriptLen(o) + 1
  /\ \A i \in 1 .. ScriptLen(o) : Performed(o, i, w[i])
  /\ w[Len(w)].cmd = "STO"
=============================================================================
