------------------------------- MODULE C2I2C -------------------------------
(***************************************************************************)
(* The blocking I2C master driver of the StarrySky C2 support package      *)
(* (c2_i2c.c) running against its controller.                              *)
(*                                                                         *)
(* One driver action is one access to a controller register together with  *)
(* the local computation up to the next access, so the controller and the  *)
(* other masters of the bus may act between any two accesses.  The driver  *)
(* is not reentrant (c2_i2c.h: "requires external serialization"): there   *)
(* is one program counter.                                                 *)
(***************************************************************************)
EXTENDS I2CScript

CONSTANTS
  PollLimit,      (* poll_limit: the SR reads one bounded wait may spend     *)
  StopRaisesTip,  (* the controller shows TIP during a STOP command          *)
  LateIack        (* an acknowledge takes effect only some time later        *)

ASSUME PollLimitAssumption == PollLimit \in Nat \ {0}

(* The RTL of the controller is not published.  The driver can tell that a *)
(* STOP is still running only by TIP, or by BSY of a bus it holds; it      *)
(* holds the bus at every STOP unless an acknowledge can be late.          *)
ASSUME ControllerAssumption == /\ StopRaisesTip \in BOOLEAN
                               /\ LateIack \in BOOLEAN
                               /\ LateIack => StopRaisesTip

VARIABLES
  bits,     (* the bits set: the flags of SR, CTRL.EN and a pending IACK      *)
  cmd,      (* the command being executed, NoCmd when there is none          *)
  TXR, RXR, (* data registers: positions in the script, 0 for none           *)
  wire,     (* history: what this transfer has put on the wires              *)
  bus,      (* who holds the wires: nobody, this controller, another master  *)
  pc,       (* which register access the driver makes next                   *)
  stage,    (* who called issue_command, "other" outside transfers            *)
  cont,     (* who called clear_if                                           *)
  res,      (* the status the transfer returns, valid in "idle"              *)
  op, idx,  (* the operation and the position reached in its script          *)
  data,     (* the bytes stored in the caller's buffer                       *)
  poll,     (* SR reads spent in the current wait                            *)
  expired   (* history: 1 when a bounded wait of the transfer ran out        *)

bytes  == <<TXR, RXR, wire>>
hwVars == <<bits, cmd, bytes, bus>>
flow   == <<stage, cont, res>>
call   == <<op, idx, data>>
wait   == <<poll, expired>>
vars   == <<hwVars, pc, flow, call, wait>>
-----------------------------------------------------------------------------
Bits == {"EN", "IACK", "IF", "TIP", "AL", "BSY", "RXK"}

EN    == "EN" \in bits
IFlag == "IF" \in bits
TIP   == "TIP" \in bits
AL    == "AL" \in bits
BSY   == "BSY" \in bits
RXK   == "RXK" \in bits

Only(b, P) == IF P THEN {b} ELSE {}

NoCmd    == "none"

(* The command issue_command was called with. *)
Command == IF stage = "xfer" THEN CommandAt(op, idx) ELSE "STO"

(* send_byte writes TXR first, receive_byte goes straight to the command. *)
FirstAccess(i) == IF Transmits(CommandAt(op, i)) THEN "txr" ELSE "issue"

Results == {"none", "OK", "NOT_INITIALIZED", "BUSY", "ARBITRATION", "NACK",
            "TIMEOUT"}
PCs == {"idle", "txr", "issue", "iack", "iackpoll", "cmd", "poll",
        "rxr", "stopfail", "bsypoll", "cleanup", "tipwait", "clear_en"}

TypeOK ==
  /\ bits \subseteq Bits
  /\ cmd \in Commands \union {NoCmd}
  /\ TXR \in Nat /\ RXR \in Nat /\ wire \in Seq(WireEvents)
  /\ bus \in {"free", "ours", "other"}
  /\ pc \in PCs
  /\ stage \in {"xfer", "stop", "cleanstop", "other"}
  /\ cont \in {"issue", "final", "void"}
  /\ res \in Results
  /\ op \in [w : Nat, r : Nat] /\ idx \in Nat /\ data \in Seq(Nat)
  /\ poll \in 0 .. PollLimit - 1 /\ expired \in 0 .. 1

Init ==
  /\ bits = {} /\ cmd = NoCmd
  /\ TXR = 0 /\ RXR = 0 /\ wire = << >> /\ bus = "free"
  /\ pc = "idle" /\ stage = "other" /\ cont = "issue" /\ res = "none"
  /\ op = [w |-> 0, r |-> 0] /\ idx = 1 /\ data = << >> /\ poll = 0 /\ expired = 0
-----------------------------------------------------------------------------
(* The controller and the bus: external, as the driver uses them.  No step *)
(* of theirs is ever forced: a slave may stretch the clock for ever.       *)

Software == <<pc, flow, call, wait>>

(* A late acknowledge takes effect. *)
HwIack ==
  /\ "IACK" \in bits
  /\ bits' = bits \ {"IACK", "IF"}
  /\ UNCHANGED <<Software, cmd, bytes, bus>>

(* The START condition is on the wires. *)
HwStart ==
  /\ cmd = "STA_WR" /\ bus = "free"
  /\ bus' = "ours" /\ bits' = bits \union {"BSY"}
  /\ UNCHANGED <<Software, cmd, bytes>>

(* The command ends: IF is latched, and after a STOP the bus is released.  *)
(* Only a STOP is executed by a controller that does not hold the bus.     *)
HwDone ==
  /\ cmd \in Commands /\ (bus = "ours" \/ cmd = "STO")
  /\ cmd' = NoCmd
  /\ \E ack \in {"ACK", "NACK"} :
       /\ bits' = (bits \ {"TIP", "RXK"}) \union {"IF"} \union Only("RXK", ack = "NACK")
       /\ wire' = Append(wire, [cmd |-> cmd, ack |-> ack,
                                byte |-> IF Transmits(cmd) THEN TXR ELSE 0])
  /\ RXR' = IF Receives(cmd) THEN Len(wire) + 1 ELSE RXR
  /\ bus' = IF cmd = "STO" /\ bus = "ours" THEN "free" ELSE bus
  /\ UNCHANGED <<Software, TXR>>

(* Arbitration is lost: the controller drops the command and the wires. *)
HwLose ==
  /\ cmd \in Commands /\ bus # "free"
  /\ cmd' = NoCmd /\ bus' = "other"
  /\ bits' = (bits \ {"TIP"}) \union {"IF", "AL"}
  /\ UNCHANGED <<Software, bytes>>

(* BSY follows the conditions on the wires with a delay. *)
HwBusy ==
  /\ bits' = (bits \ {"BSY"}) \union Only("BSY", bus # "free")
  /\ UNCHANGED <<Software, cmd, bytes, bus>>

(* Another master of the same bus starts or stops. *)
OtherMaster ==
  /\ \/ bus = "free" /\ bus' = "other"
     \/ bus = "other" /\ bus' = "free"
  /\ UNCHANGED <<Software, bits, cmd, bytes>>

Hardware == HwIack \/ HwStart \/ HwDone \/ HwLose \/ HwBusy \/ OtherMaster
-----------------------------------------------------------------------------
(* Control flow shared by the driver's functions *)

Goto(l) == pc' = l /\ UNCHANGED flow

(* The transfer returns r; cleanup_failure discards what its STOP returns, *)
(* and the status of the other calls is not followed.                      *)
Report(r) == res' = IF stage \in {"cleanstop", "other"} THEN res ELSE r

Return(r) == pc' = "idle" /\ Report(r) /\ UNCHANGED <<stage, cont>>

(* Mutant: a command that timed out is simply written again. *)
MutantRetry(r) ==
  /\ pc' = CASE r = "TIMEOUT" -> "cmd" [] stage = "xfer" -> "cleanup" [] OTHER -> "stopfail"
  /\ Report(r)
  /\ UNCHANGED <<stage, cont>>

(* issue_command fails: a transfer goes to cleanup_failure, c2_i2c_stop to *)
(* its error branch.                                                       *)
IssueFails(r) ==
  /\ pc' = IF stage = "xfer" THEN "cleanup" ELSE "stopfail"
  /\ Report(r)
  /\ UNCHANGED <<stage, cont>>

(* clear_if ends; its caller c goes on, or returns r. *)
Cleared(c, r) ==
  \/ c = "issue" /\ Goto("cmd")
  \/ c # "issue" /\ Return(r)

(* clear_if with the flags just read, for a caller that returns r next.    *)
(* Without IF there is nothing to do, during a transfer it is refused      *)
(* (which only a caller that uses its result notices), else IACK is        *)
(* written.                                                                *)
ClearIf(c, r) ==
  \/ /\ ~IFlag \/ TIP
     /\ Cleared(c, IF IFlag /\ c = "final" THEN "BUSY" ELSE r)
  \/ /\ IFlag /\ ~TIP
     /\ pc' = "iack" /\ cont' = c /\ Report(r)
     /\ UNCHANGED stage

EnterStop(s) == pc' = "issue" /\ stage' = s /\ UNCHANGED <<res, cont>>

(* Mutant: a read that is not counted. *)
MutantUncounted == poll + 1 < PollLimit /\ UNCHANGED <<poll, expired>>

(* A read of a bounded wait that goes on, that is the last one allowed,    *)
(* that ends the wait.                                                     *)
KeepPolling == poll + 1 < PollLimit /\ poll' = poll + 1 /\ UNCHANGED expired
LastPoll    == /\ poll + 1 = PollLimit /\ poll' = 0
               /\ expired' = IF stage = "other" THEN expired ELSE 1
EndWait     == poll' = 0 /\ UNCHANGED expired


(* A transfer goes on after command idx succeeded. *)
CommandDone ==
  \/ /\ idx < ScriptLen(op)
     /\ idx' = idx + 1 /\ Goto(FirstAccess(idx + 1))
  \/ idx = ScriptLen(op) /\ EnterStop("stop") /\ UNCHANGED idx
-----------------------------------------------------------------------------
(* c2_i2c_send_byte: the byte goes to TXR before the command. *)
WriteTxr ==
  /\ pc = "txr"
  /\ TXR' = idx /\ Goto("issue")
  /\ UNCHANGED <<bits, cmd, RXR, wire, bus, call, wait>>

(* Mutant: the IF of the previous command is not cleared first. *)
MutantKeepIf ==
  /\ pc = "issue"
  /\ LET lost == AL /\ Command # "STA_WR" IN
     \/ (TIP \/ lost) /\ IssueFails(IF TIP THEN "BUSY" ELSE "ARBITRATION")
     \/ ~TIP /\ ~lost /\ Goto("cmd")
  /\ UNCHANGED <<hwVars, call, wait>>

(* c2_i2c_issue_command: the SR read before the command. *)
Issue ==
  /\ pc = "issue"
  /\ LET lost == AL /\ Command # "STA_WR" IN
     \/ (TIP \/ lost) /\ IssueFails(IF TIP THEN "BUSY" ELSE "ARBITRATION")
     \/ ~TIP /\ ~lost /\ ClearIf("issue", res)
  /\ UNCHANGED <<hwVars, call, wait>>

(* c2_i2c_clear_if: write IACK ... *)
WriteIack ==
  /\ pc = "iack"
  /\ bits' = IF LateIack THEN bits \union {"IACK"} ELSE bits \ {"IF"}
  /\ Goto("iackpoll") /\ EndWait
  /\ UNCHANGED <<cmd, bytes, bus, call>>

(* ... and wait for IF to fall. *)
PollIack ==
  /\ pc = "iackpoll"
  /\ \/ ~IFlag /\ Cleared(cont, res) /\ EndWait
     \/ IFlag /\ KeepPolling /\ Goto(pc)
     \/ /\ IFlag /\ LastPoll
        /\ \/ cont = "issue" /\ IssueFails("TIMEOUT")
           \/ cont = "final" /\ Return("TIMEOUT")
           \/ cont = "void" /\ Return(res)
  /\ UNCHANGED <<hwVars, call>>

(* The command replaces what is left of an acknowledge in the same         *)
(* register; START clears a former arbitration loss.                       *)
WriteCmd ==
  /\ pc = "cmd"
  /\ cmd' = Command
  /\ bits' = (bits \ ({"IACK"} \union Only("AL", Command = "STA_WR")))
               \union Only("TIP", Command # "STO" \/ StopRaisesTip)
  /\ Goto("poll") /\ EndWait
  /\ UNCHANGED <<bytes, bus, call>>

(* Mutant: a missing acknowledge does not end the transfer. *)
MutantIgnoreNack ==
  /\ pc = "poll"
  /\ \/ AL /\ EndWait /\ IssueFails("ARBITRATION") /\ UNCHANGED idx
     \/ /\ ~AL /\ IFlag /\ EndWait
        /\ \/ Transmits(Command) /\ CommandDone
           \/ Receives(Command) /\ Goto("rxr") /\ UNCHANGED idx
           \/ Command = "STO" /\ ClearIf("final", "OK") /\ UNCHANGED idx
     \/ ~AL /\ ~IFlag /\ KeepPolling /\ Goto(pc) /\ UNCHANGED idx
     \/ ~AL /\ ~IFlag /\ LastPoll /\ IssueFails("TIMEOUT") /\ UNCHANGED idx
  /\ UNCHANGED <<hwVars, op, data>>

(* issue_command polls for the end of its command, AL before IF.  The read *)
(* that sees IF is also the status c2_i2c_stop goes on with.               *)
PollDone ==
  /\ pc = "poll"
  /\ \/ AL /\ EndWait /\ IssueFails("ARBITRATION") /\ UNCHANGED idx
     \/ /\ ~AL /\ IFlag /\ EndWait
        /\ \/ Transmits(Command) /\ RXK /\ IssueFails("NACK") /\ UNCHANGED idx
           \/ Transmits(Command) /\ ~RXK /\ CommandDone
           \/ Receives(Command) /\ Goto("rxr") /\ UNCHANGED idx
           \/ Command = "STO" /\ BSY /\ Goto("bsypoll") /\ UNCHANGED idx
           \/ Command = "STO" /\ ~BSY /\ ClearIf("final", "OK") /\ UNCHANGED idx
     \/ ~AL /\ ~IFlag /\ KeepPolling /\ Goto(pc) /\ UNCHANGED idx
     \/ ~AL /\ ~IFlag /\ LastPoll /\ IssueFails("TIMEOUT") /\ UNCHANGED idx
  /\ UNCHANGED <<hwVars, op, data>>

(* c2_i2c_receive_byte: the byte is fetched once the command is done. *)
ReadRxr ==
  /\ pc = "rxr"
  /\ data' = Append(data, RXR)
  /\ CommandDone
  /\ UNCHANGED <<hwVars, op, wait>>

(* c2_i2c_stop: its command failed. *)
StopFailed ==
  /\ pc = "stopfail"
  /\ ClearIf("void", res)
  /\ UNCHANGED <<hwVars, call, wait>>

(* c2_i2c_stop: the STOP is done, wait for the bus to become idle. *)
PollBusIdle ==
  /\ pc = "bsypoll"
  /\ \/ AL /\ EndWait /\ ClearIf("void", "ARBITRATION")
     \/ ~AL /\ ~BSY /\ EndWait /\ ClearIf("final", "OK")
     \/ ~AL /\ BSY /\ KeepPolling /\ Goto(pc)
     \/ ~AL /\ BSY /\ LastPoll /\ ClearIf("void", "TIMEOUT")
  /\ UNCHANGED <<hwVars, call>>

(* Mutant: after a failure the bus is not given back. *)
MutantNoStop ==
  /\ pc = "cleanup"
  /\ ClearIf("void", res)
  /\ UNCHANGED <<hwVars, call, wait>>

(* c2_i2c_cleanup_failure: no STOP after an arbitration loss, and none     *)
(* over a command that is still running ...                                *)
Cleanup ==
  /\ pc = "cleanup"
  /\ LET lost == res = "ARBITRATION" \/ AL IN
     \/ lost /\ ClearIf("void", res)
     \/ ~lost /\ TIP /\ Goto("tipwait")
     \/ ~lost /\ ~TIP /\ EnterStop("cleanstop")
  /\ UNCHANGED <<hwVars, call, wait>>

(* ... which gets one more bounded window to end. *)
PollTip ==
  /\ pc = "tipwait"
  /\ \/ AL /\ EndWait /\ ClearIf("void", res)
     \/ ~AL /\ ~TIP /\ EndWait /\ EnterStop("cleanstop")
     \/ ~AL /\ TIP /\ KeepPolling /\ Goto(pc)
     \/ ~AL /\ TIP /\ LastPoll /\ Return(res)
  /\ UNCHANGED <<hwVars, call>>
-----------------------------------------------------------------------------
(* The entry points.  A call with invalid arguments, and one that finds    *)
(* nothing to do or is refused, touches nothing.                           *)

(* Mutant: a transfer that finds the bus busy cleans up after itself. *)
MutantCleanupBusy ==
  /\ pc = "idle" /\ EN
  /\ op' \in Ops /\ idx' = 1 /\ data' = << >>
  /\ pc' = (IF TIP \/ BSY THEN "cleanup" ELSE "txr")
  /\ stage' = "xfer" /\ res' = (IF TIP \/ BSY THEN "BUSY" ELSE "none")
  /\ wire' = (IF TIP \/ BSY THEN wire ELSE << >>)
  /\ poll' = 0 /\ expired' = 0
  /\ UNCHANGED <<bits, cmd, TXR, RXR, bus, cont>>

(* c2_i2c_master_write, c2_i2c_master_read and c2_i2c_master_write_read    *)
(* up to the end of c2_i2c_begin: enabled, and the bus idle.               *)
Transfer ==
  /\ pc = "idle"
  /\ \/ /\ EN /\ ~TIP /\ ~BSY
        /\ op' \in Ops /\ idx' = 1 /\ data' = << >>
        /\ pc' = "txr" /\ stage' = "xfer" /\ res' = "none"
        /\ wire' = << >> /\ poll' = 0 /\ expired' = 0
     \/ /\ ~EN \/ TIP \/ BSY
        /\ res' = IF EN THEN "BUSY" ELSE "NOT_INITIALIZED"
        /\ UNCHANGED <<pc, stage, call, wait, wire>>
  /\ UNCHANGED <<bits, cmd, TXR, RXR, bus, cont>>

(* c2_i2c_ack_interrupt: one SR read, then clear_if. *)
AckInterrupt ==
  /\ pc = "idle"
  /\ IFlag /\ ~TIP
  /\ pc' = "iack" /\ stage' = "other" /\ cont' = "final"
  /\ UNCHANGED <<hwVars, call, wait, res>>

(* c2_i2c_enable *)
Enable ==
  /\ pc = "idle"
  /\ bits' = bits \union {"EN"}
  /\ UNCHANGED <<Software, cmd, bytes, bus>>

(* Mutant: only a running command is looked for. *)
MutantTipOnly ==
  /\ pc = "idle"
  /\ ~TIP
  /\ pc' = "clear_en" /\ stage' = "other"
  /\ UNCHANGED <<hwVars, call, wait, res, cont>>

(* c2_i2c_configure(_prescaler) and c2_i2c_disable are refused while the   *)
(* controller or the bus is busy ...                                       *)
CheckIdle ==
  /\ pc = "idle"
  /\ ~TIP /\ ~BSY
  /\ pc' = "clear_en" /\ stage' = "other"
  /\ UNCHANGED <<hwVars, call, wait, res, cont>>

(* ... and clear EN a moment later. *)
ClearEn ==
  /\ pc = "clear_en"
  /\ bits' = bits \ {"EN"} /\ Return("OK")
  /\ UNCHANGED <<cmd, bytes, bus, call, wait>>

Driver ==
  \/ WriteTxr \/ Issue \/ WriteIack \/ PollIack \/ WriteCmd
  \/ PollDone \/ ReadRxr \/ StopFailed \/ PollBusIdle \/ Cleanup \/ PollTip
  \/ ClearEn

Application == Transfer \/ AckInterrupt \/ Enable \/ CheckIdle

Next == Hardware \/ Driver \/ Application

Spec == Init /\ [][Next]_vars

(* The processor keeps running the driver; nothing is asked of the         *)
(* controller, the slaves or the other masters.                            *)
FairSpec == Spec /\ WF_vars(Driver)
-----------------------------------------------------------------------------
(* A transfer that returns C2_OK (c2_i2c.c:381, 414, 461) has put the      *)
(* whole script on the wires, stored every received byte in order, kept    *)
(* arbitration throughout and given the bus back.                          *)
OkMeansComplete ==
  pc = "idle" /\ res = "OK" =>
    /\ Complete(op, wire)
    /\ data = [i \in 1 .. op.r |-> ScriptLen(op) - op.r + i]
    /\ ~AL /\ bus # "ours"

(* CMD is written, be it with a command or with IACK, only when the        *)
(* controller has no command in progress (c2_i2c.c:143: "Do not overwrite  *)
(* CMD while the timed-out command is still active").                      *)
CmdNeverOverwritten == pc \in {"iack", "cmd"} => cmd = NoCmd

(* The IF or AL that issue_command takes for the end of its command        *)
(* (c2_i2c.c:61-77) is not one left over from an earlier command.          *)
NoStaleCompletion == pc = "poll" /\ (IFlag \/ AL) => cmd = NoCmd

(* A STOP is never sent after arbitration was lost, and only while this    *)
(* controller holds the bus (c2_i2c.c:133: "A STOP here could corrupt the  *)
(* winning master's transaction").  The exception: with a late acknowledge *)
(* the wait for it can run out before START was ever sent, and the cleanup *)
(* then sends a STOP all the same.                                         *)
StopOnlyByOwner ==
  pc = "cmd" /\ Command = "STO" =>
    /\ ~AL
    /\ (~LateIack \/ wire # << >>) => bus = "ours"

(* Unless one of its bounded waits ran out, a transfer that was started    *)
(* does not return with this controller still holding the bus: the NACK,   *)
(* arbitration and success paths all let it go.                            *)
BusReleased ==
  pc = "idle" /\ expired = 0 /\ res \in {"OK", "NACK", "ARBITRATION", "TIMEOUT"}
    => bus # "ours"

(* configure and disable never switch the controller off under a running   *)
(* command or while it holds the bus (c2_i2c.c:220-226, 286-292).          *)
DisabledMeansQuiet == ~EN => cmd = NoCmd /\ bus # "ours"

(* "The driver never waits forever" (c2_i2c.h:161), whatever the           *)
(* controller does.                                                        *)
CallReturns == pc # "idle" ~> pc = "idle"

(* Every behaviour of the driver and its controller is one of the abstract *)
(* transaction, return included.                                           *)
Phase == IF pc = "idle" \/ stage = "other" THEN "idle" ELSE "busy"

Transaction == INSTANCE I2CTransaction
                 WITH phase <- Phase,
                      res <- IF Phase = "idle" THEN res ELSE "none"

ImplementsTransaction == Transaction!Spec
=============================================================================
