---------------------------- MODULE C2I2CProofs ----------------------------
(***************************************************************************)
(* Proofs about C2I2C, for every poll limit, every set of operations and   *)
(* both kinds of controller: the flags the driver relies on are those of   *)
(* its own command, the bus is released, C2_OK means a complete transfer,  *)
(* and the driver on its controller implements the abstract transaction.   *)
(***************************************************************************)
EXTENDS C2I2C, TLAPS

(* Scripts hold every command but STOP. *)
LEMMA CommandIsCommand ==
  ASSUME NEW o, NEW i PROVE CommandAt(o, i) \in Commands \ {"STO"}
BY DEF CommandAt, Commands

(* The type of every variable of the driver and of its controller          *)
(* (c2_i2c.c) is preserved by every step.                                  *)
THEOREM TypeCorrect == Spec => []TypeOK
<1> USE DEF TypeOK, Bits, Only, EN, IFlag, TIP, AL, BSY, RXK
<1>1. Init => TypeOK
  BY PollLimitAssumption DEF Init, NoCmd, Results, PCs
<1>2. TypeOK /\ [Next]_vars => TypeOK'
  <2> SUFFICES ASSUME TypeOK, [Next]_vars PROVE TypeOK'
    OBVIOUS
  <2> USE PollLimitAssumption DEF Results, PCs, hwVars, bytes, flow, call,
            wait, Software, Goto, Report, Return, EndWait, KeepPolling, LastPoll
  <2>1. CASE HwIack BY <2>1 DEF HwIack
  <2>2. CASE HwStart BY <2>2 DEF HwStart
  <2>3. CASE HwDone
    <3>1. PICK ack \in {"ACK", "NACK"} :
            wire' = Append(wire, [cmd |-> cmd, ack |-> ack,
                                  byte |-> IF Transmits(cmd) THEN TXR ELSE 0])
      BY <2>3 DEF HwDone
    <3>2. wire' \in Seq(WireEvents)
      BY <3>1, <2>3 DEF HwDone, WireEvents
    <3>3. bits' \subseteq Bits /\ cmd' \in Commands \union {NoCmd}
      BY <2>3 DEF HwDone
    <3>4. RXR' \in Nat /\ TXR' \in Nat
      BY <2>3 DEF HwDone, WireEvents
    <3>5. bus' \in {"free", "ours", "other"}
      BY <2>3 DEF HwDone
    <3> QED BY <2>3, <3>2, <3>3, <3>4, <3>5 DEF HwDone
  <2>4. CASE HwLose BY <2>4 DEF HwLose
  <2>5. CASE HwBusy BY <2>5 DEF HwBusy
  <2>6. CASE OtherMaster BY <2>6 DEF OtherMaster
  <2>8. CASE WriteTxr BY <2>8 DEF WriteTxr
  <2>9. CASE Issue BY <2>9 DEF Issue, IssueFails, ClearIf, Cleared
  <2>10. CASE WriteIack BY <2>10, ControllerAssumption DEF WriteIack
  <2>11. CASE PollIack BY <2>11 DEF PollIack, Cleared, IssueFails
  <2>12. CASE WriteCmd
    BY <2>12, CommandIsCommand, ControllerAssumption DEF WriteCmd, Command, Commands
  <2>13. CASE PollDone
    BY <2>13 DEF PollDone, IssueFails, CommandDone, EnterStop, FirstAccess,
                 ClearIf, Cleared
  <2>14. CASE ReadRxr BY <2>14 DEF ReadRxr, CommandDone, EnterStop, FirstAccess
  <2>15. CASE StopFailed BY <2>15 DEF StopFailed, ClearIf, Cleared
  <2>16. CASE PollBusIdle BY <2>16 DEF PollBusIdle, ClearIf, Cleared
  <2>17. CASE Cleanup BY <2>17 DEF Cleanup, ClearIf, Cleared, EnterStop
  <2>18. CASE PollTip BY <2>18 DEF PollTip, ClearIf, Cleared, EnterStop
  <2>19. CASE ClearEn BY <2>19 DEF ClearEn
  <2>20. CASE Transfer
    <3>1. << >> \in Seq(WireEvents) /\ << >> \in Seq(Nat)
      OBVIOUS
    <3>2. op' \in [w : Nat, r : Nat] /\ wire' \in Seq(WireEvents) /\ data' \in Seq(Nat)
      BY <2>20, <3>1, OpsAssumption DEF Transfer
    <3> QED BY <2>20, <3>2 DEF Transfer
  <2>21. CASE AckInterrupt BY <2>21 DEF AckInterrupt
  <2>22. CASE Enable BY <2>22 DEF Enable
  <2>23. CASE CheckIdle BY <2>23 DEF CheckIdle
  <2>24. CASE UNCHANGED vars BY <2>24 DEF vars
  <2> QED
    BY <2>1, <2>2, <2>3, <2>4, <2>5, <2>6, <2>8, <2>9, <2>10, <2>11,
       <2>12, <2>13, <2>14, <2>15, <2>16, <2>17, <2>18, <2>19, <2>20, <2>21,
       <2>22, <2>23, <2>24 DEF Next, Hardware, Driver, Application
<1> QED BY <1>1, <1>2, PTL DEF Spec
-----------------------------------------------------------------------------
(* The inductive invariant behind the safety properties.  It follows who   *)
(* may be executing a command, who holds the bus and what IF and AL can    *)
(* still mean, from one register access of the driver to the next.         *)

(* No command of this transfer is running: one is about to be issued, or   *)
(* has just been seen to end.                                              *)
Ready == \/ pc \in {"txr", "issue", "cmd", "rxr"}
         \/ pc \in {"iack", "iackpoll"} /\ cont = "issue"

(* No STOP of this transfer has been written yet. *)
BeforeStop == \/ Ready
              \/ pc = "poll" /\ stage = "xfer"
              \/ pc \in {"cleanup", "tipwait"}

(* The transfer has written nothing yet. *)
Untouched == Ready /\ stage = "xfer" /\ idx = 1

WireOpen == wire # << >> /\ wire[Len(wire)].cmd # "STO"

ControllerInv ==
  /\ cmd = NoCmd => ~TIP
  /\ cmd \in Commands \ {"STO"} => TIP
  /\ cmd = "STO" => TIP \/ bus = "ours"
  /\ cmd # NoCmd => ~IFlag /\ ~AL /\ EN
  /\ "IACK" \in bits => cmd = NoCmd
  /\ bus = "ours" => BSY /\ EN

FlowInv ==
  /\ Ready \/ pc \in {"iack", "iackpoll", "bsypoll", "clear_en"} => cmd = NoCmd
  /\ BeforeStop \/ pc \in {"poll", "bsypoll", "stopfail"} => EN
  /\ pc \in {"txr", "rxr", "cleanup", "tipwait"} => stage = "xfer"
  /\ pc = "clear_en" => bus # "ours"
  /\ pc = "cmd" => ~IFlag
  /\ pc = "iackpoll" /\ IFlag => LateIack
  /\ idx > 0 /\ (pc = "rxr" => idx > 1)

OwnerInv ==
  /\ WireOpen /\ ~AL => bus = "ours"
  /\ BeforeStop => cmd # "STO" /\ (wire = << >> \/ WireOpen)
  /\ Untouched => wire = << >>
  /\ Ready /\ ~Untouched => ~AL
  /\ BeforeStop /\ ~Untouched /\ ~LateIack /\ cmd = NoCmd /\ ~AL => wire # << >>

SafetyInv == TypeOK /\ ControllerInv /\ FlowInv /\ OwnerInv

(* The command at the first position of a script is a START. *)
LEMMA FirstIsStart ==
  ASSUME NEW o \in [w : Nat, r : Nat] PROVE CommandAt(o, 1) = "STA_WR"
BY DEF CommandAt, ScriptLen, Restart

LEMMA SafetyInductive == SafetyInv /\ [Next]_vars => ControllerInv' /\ FlowInv' /\ OwnerInv'
<1> SUFFICES ASSUME SafetyInv, [Next]_vars PROVE ControllerInv' /\ FlowInv' /\ OwnerInv'
  OBVIOUS
<1> USE ControllerAssumption, CommandIsCommand, FirstIsStart
        DEF SafetyInv, TypeOK, ControllerInv, FlowInv, OwnerInv, Ready, BeforeStop, Untouched,
            WireOpen, Bits, Only, EN, IFlag, TIP, AL, BSY, RXK, hwVars, bytes, flow,
            call, wait, Software, Goto, Report, Return, EndWait, KeepPolling,
            LastPoll, NoCmd, Command, Commands, Transmits, Receives
<1>1. CASE HwIack BY <1>1 DEF HwIack
<1>2. CASE HwStart BY <1>2 DEF HwStart
<1>3. CASE HwDone BY <1>3 DEF HwDone
<1>4. CASE HwLose BY <1>4 DEF HwLose
<1>5. CASE HwBusy BY <1>5 DEF HwBusy
<1>6. CASE OtherMaster BY <1>6 DEF OtherMaster
<1>8. CASE WriteTxr BY <1>8 DEF WriteTxr
<1>9. CASE Issue BY <1>9 DEF Issue, IssueFails, ClearIf, Cleared
<1>10. CASE WriteIack BY <1>10 DEF WriteIack
<1>11. CASE PollIack BY <1>11 DEF PollIack, Cleared, IssueFails
<1>12. CASE WriteCmd
  <2>1. stage # "xfer" /\ ~LateIack => bus = "ours"
    BY <1>12 DEF WriteCmd
  <2>2. ControllerInv' BY <1>12, <2>1 DEF WriteCmd
  <2>3. FlowInv' BY <1>12 DEF WriteCmd
  <2>4. OwnerInv' BY <1>12 DEF WriteCmd
  <2> QED BY <2>2, <2>3, <2>4
<1>13. CASE PollDone
  BY <1>13 DEF PollDone, IssueFails, CommandDone, EnterStop, FirstAccess, ClearIf, Cleared
<1>14. CASE ReadRxr BY <1>14 DEF ReadRxr, CommandDone, EnterStop, FirstAccess
<1>15. CASE StopFailed BY <1>15 DEF StopFailed, ClearIf, Cleared
<1>16. CASE PollBusIdle BY <1>16 DEF PollBusIdle, ClearIf, Cleared
<1>17. CASE Cleanup BY <1>17 DEF Cleanup, ClearIf, Cleared, EnterStop
<1>18. CASE PollTip BY <1>18 DEF PollTip, ClearIf, Cleared, EnterStop
<1>19. CASE ClearEn BY <1>19 DEF ClearEn
<1>20. CASE Transfer BY <1>20 DEF Transfer
<1>21. CASE AckInterrupt BY <1>21 DEF AckInterrupt
<1>22. CASE Enable BY <1>22 DEF Enable
<1>23. CASE CheckIdle BY <1>23 DEF CheckIdle
<1>24. CASE UNCHANGED vars BY <1>24 DEF vars
<1> QED BY <1>1, <1>2, <1>3, <1>4, <1>5, <1>6, <1>8, <1>9, <1>10, <1>11, <1>12,
           <1>13, <1>14, <1>15, <1>16, <1>17, <1>18, <1>19, <1>20, <1>21, <1>22, <1>23, <1>24
        DEF Next, Hardware, Driver, Application

(* The inductive invariant holds in every reachable state. *)
THEOREM SafetyInvariant == Spec => []SafetyInv
<1>1. Init => SafetyInv
  <2>1. Init => TypeOK
    BY PollLimitAssumption DEF Init, TypeOK, Bits, NoCmd, Results, PCs
  <2>2. Init => ControllerInv /\ FlowInv /\ OwnerInv
    BY DEF Init, ControllerInv, FlowInv, OwnerInv, Ready, BeforeStop, Untouched,
           WireOpen, EN, IFlag, TIP, AL, BSY, NoCmd, Commands
  <2> QED BY <2>1, <2>2 DEF SafetyInv
<1>2. SafetyInv /\ [Next]_vars /\ TypeOK' => SafetyInv'
  BY SafetyInductive DEF SafetyInv
<1> QED BY <1>1, <1>2, TypeCorrect, PTL DEF Spec

(* c2_i2c.c never writes CMD while the controller executes a command.      *)
THEOREM NeverOverwritten == Spec => []CmdNeverOverwritten
<1>1. SafetyInv => CmdNeverOverwritten
  BY DEF SafetyInv, FlowInv, Ready, CmdNeverOverwritten
<1> QED BY <1>1, SafetyInvariant, PTL

(* The completion issue_command acts on belongs to the command it issued.  *)
THEOREM CompletionIsFresh == Spec => []NoStaleCompletion
<1>1. SafetyInv => NoStaleCompletion
  BY DEF SafetyInv, ControllerInv, NoStaleCompletion
<1> QED BY <1>1, SafetyInvariant, PTL

(* STOP is sent by the owner of the bus only, never after losing it.       *)
THEOREM StopByOwner == Spec => []StopOnlyByOwner
<1>1. SafetyInv => StopOnlyByOwner
  BY CommandIsCommand
     DEF SafetyInv, TypeOK, FlowInv, OwnerInv, Ready, BeforeStop, Untouched, WireOpen,
         Command, StopOnlyByOwner, IFlag, AL
<1> QED BY <1>1, SafetyInvariant, PTL

(* The controller is disabled only when it is quiet and owns no bus.       *)
THEOREM QuietWhenDisabled == Spec => []DisabledMeansQuiet
<1>1. SafetyInv => DisabledMeansQuiet
  BY DEF SafetyInv, ControllerInv, DisabledMeansQuiet
<1> QED BY <1>1, SafetyInvariant, PTL
-----------------------------------------------------------------------------
(* What the call returns and whether it still holds the bus.               *)

Failures == {"BUSY", "ARBITRATION", "NACK", "TIMEOUT"}

(* Once no STOP is left to be written and none is being waited for, the    *)
(* bus is released and the controller at rest, unless a wait ran out; and  *)
(* a lost arbitration is a lost bus.                                       *)
ReleaseInv ==
  /\ AL => bus # "ours"
  /\ res = "ARBITRATION" => AL
  /\ pc = "poll" /\ stage # "xfer" => cmd = "STO" \/ (cmd = NoCmd /\ bus # "ours")
  /\ ~BeforeStop /\ pc # "poll" /\ expired = 0 => bus # "ours" /\ cmd = NoCmd

(* A call has no status before it fails or ends, and always one after.     *)
StatusInv ==
  /\ stage = "other" => \/ pc \in {"idle", "clear_en"}
                        \/ pc \in {"iack", "iackpoll"} /\ cont = "final"
  /\ pc = "clear_en" => stage = "other"
  /\ pc \in {"bsypoll", "stopfail"} => stage # "xfer"
  /\ stage # "cleanstop" /\ (Ready \/ pc \in {"poll", "bsypoll"}) => res = "none"
  /\ stage = "cleanstop" /\ pc # "idle" => res \in Failures
  /\ pc \in {"cleanup", "tipwait", "stopfail"} => res \in Failures
  /\ pc \in {"iack", "iackpoll"} /\ ~Ready /\ stage # "other"
       => res \in Failures \union {"OK"}
  /\ res = "OK" => pc \in {"idle", "clear_en", "iack", "iackpoll"} /\ ~Ready

LEMMA StatusInductive ==
  SafetyInv /\ ReleaseInv /\ StatusInv /\ [Next]_vars => ReleaseInv' /\ StatusInv'
<1> SUFFICES ASSUME SafetyInv, ReleaseInv, StatusInv, [Next]_vars
             PROVE  ReleaseInv' /\ StatusInv'
  OBVIOUS
<1> USE ControllerAssumption, CommandIsCommand
        DEF SafetyInv, TypeOK, ControllerInv, FlowInv, ReleaseInv, StatusInv, Failures,
            Ready, BeforeStop, Bits, Only, EN, IFlag, TIP, AL, BSY, RXK, hwVars, bytes,
            flow, call, wait, Software, Goto, Report, Return, EndWait, KeepPolling,
            LastPoll, NoCmd, Command, Commands, Transmits, Receives
<1>1. CASE HwIack BY <1>1 DEF HwIack
<1>2. CASE HwStart BY <1>2 DEF HwStart
<1>3. CASE HwDone
  <2>1. bits' \ {"TIP", "RXK", "IF"} = bits \ {"TIP", "RXK", "IF"} BY <1>3 DEF HwDone
  <2>2. bus' = "ours" => bus = "ours" /\ cmd # "STO" BY <1>3 DEF HwDone
  <2>3. pc' = pc /\ stage' = stage /\ cont' = cont /\ res' = res /\ expired' = expired
    BY <1>3 DEF HwDone
  <2>4. cmd # NoCmd BY <1>3 DEF HwDone
  <2>5. ReleaseInv' BY <2>1, <2>2, <2>3, <2>4, <1>3 DEF HwDone
  <2>6. StatusInv' BY <2>3
  <2> QED BY <2>5, <2>6
<1>4. CASE HwLose BY <1>4 DEF HwLose
<1>5. CASE HwBusy BY <1>5 DEF HwBusy
<1>6. CASE OtherMaster BY <1>6 DEF OtherMaster
<1>7. CASE WriteTxr BY <1>7 DEF WriteTxr
<1>8. CASE Issue BY <1>8 DEF Issue, IssueFails, ClearIf, Cleared
<1>9. CASE WriteIack BY <1>9 DEF WriteIack
<1>10. CASE PollIack BY <1>10 DEF PollIack, Cleared, IssueFails
<1>11. CASE WriteCmd BY <1>11 DEF WriteCmd
<1>12. CASE PollDone
  BY <1>12 DEF PollDone, IssueFails, CommandDone, EnterStop, FirstAccess, ClearIf, Cleared
<1>13. CASE ReadRxr BY <1>13 DEF ReadRxr, CommandDone, EnterStop, FirstAccess
<1>14. CASE StopFailed BY <1>14 DEF StopFailed, ClearIf, Cleared
<1>15. CASE PollBusIdle BY <1>15 DEF PollBusIdle, ClearIf, Cleared
<1>16. CASE Cleanup BY <1>16 DEF Cleanup, ClearIf, Cleared, EnterStop
<1>17. CASE PollTip BY <1>17 DEF PollTip, ClearIf, Cleared, EnterStop
<1>18. CASE ClearEn BY <1>18 DEF ClearEn
<1>19. CASE Transfer BY <1>19 DEF Transfer
<1>20. CASE AckInterrupt BY <1>20 DEF AckInterrupt
<1>21. CASE Enable BY <1>21 DEF Enable
<1>22. CASE CheckIdle BY <1>22 DEF CheckIdle
<1>23. CASE UNCHANGED vars BY <1>23 DEF vars
<1> QED BY <1>1, <1>2, <1>3, <1>4, <1>5, <1>6, <1>7, <1>8, <1>9, <1>10, <1>11,
           <1>12, <1>13, <1>14, <1>15, <1>16, <1>17, <1>18, <1>19, <1>20, <1>21, <1>22, <1>23
        DEF Next, Hardware, Driver, Application

(* The status and the release of the bus, in every reachable state. *)
THEOREM StatusInvariant == Spec => [](ReleaseInv /\ StatusInv)
<1>1. Init => ReleaseInv /\ StatusInv
  BY DEF Init, ReleaseInv, StatusInv, Failures, Ready, BeforeStop, AL, NoCmd
<1> QED BY <1>1, SafetyInvariant, StatusInductive, PTL DEF Spec

(* Unless a bounded wait ran out, a transfer of c2_i2c.c that was started  *)
(* returns with the bus released, on the NACK, arbitration and success     *)
(* paths alike.                                                            *)
THEOREM BusIsReleased == Spec => []BusReleased
<1>1. ReleaseInv => BusReleased
  BY DEF ReleaseInv, BusReleased, BeforeStop, Ready
<1> QED BY <1>1, StatusInvariant, PTL
-----------------------------------------------------------------------------
(* How far a transfer has come.                                            *)

(* The wires have carried the first n positions of the script, as meant.   *)
Prefix(o, w, n) == Len(w) = n /\ \A i \in 1 .. n : Performed(o, i, w[i])

(* The same, but whether byte n was acknowledged is not known yet.         *)
Sent(o, w, n) ==
  /\ Len(w) = n /\ \A i \in 1 .. n - 1 : Performed(o, i, w[i])
  /\ w[n].cmd = CommandAt(o, n)
  /\ Transmits(CommandAt(o, n)) => w[n].byte = n

StopFree(w) == \A i \in 1 .. Len(w) : w[i].cmd # "STO"

(* The first n bytes read, and the bytes read by the first n positions.    *)
BytesRead(o, n) == [i \in 1 .. n |-> ScriptLen(o) - o.r + i]
Stored(o, n) == IF n > ScriptLen(o) - o.r THEN BytesRead(o, n - (ScriptLen(o) - o.r)) ELSE << >>

LEMMA ScriptLenType ==
  ASSUME NEW o \in [w : Nat, r : Nat]
  PROVE  ScriptLen(o) \in Nat /\ o.r \in Nat /\ ScriptLen(o) - o.r >= 1
BY DEF ScriptLen, Restart

(* The positions after the last START are the bytes read. *)
LEMMA ScriptShape ==
  ASSUME NEW o \in [w : Nat, r : Nat], NEW i \in 1 .. ScriptLen(o)
  PROVE  /\ Transmits(CommandAt(o, i)) <=> i <= ScriptLen(o) - o.r
         /\ Receives(CommandAt(o, i)) <=> i > ScriptLen(o) - o.r
<1> o.w \in Nat /\ o.r \in Nat
  OBVIOUS
<1> CASE o.w = 0
  BY DEF Transmits, Receives, CommandAt, ScriptLen, Restart
<1> CASE o.w > 0 /\ o.r = 0
  BY DEF Transmits, Receives, CommandAt, ScriptLen, Restart
<1> CASE o.w > 0 /\ o.r > 0
  BY DEF Transmits, Receives, CommandAt, ScriptLen, Restart
<1> QED OBVIOUS

LEMMA PrefixStopFree ==
  ASSUME NEW o, NEW w \in Seq(WireEvents), NEW n \in Nat, Prefix(o, w, n)
  PROVE  StopFree(w)
BY CommandIsCommand DEF Prefix, StopFree, Performed

(* A running command ends. *)
LEMMA PrefixSent ==
  ASSUME NEW o, NEW w \in Seq(WireEvents), NEW n \in Nat \ {0}, NEW e \in WireEvents,
         Prefix(o, w, n - 1), e.cmd = CommandAt(o, n),
         Transmits(e.cmd) => e.byte = n, NEW w1, w1 = Append(w, e)
  PROVE  Sent(o, w1, n) /\ StopFree(w1)
<1>1. Len(w1) = n /\ w1[n] = e
  BY DEF Prefix
<1>2. \A i \in 1 .. n - 1 : w1[i] = w[i]
  BY DEF Prefix
<1>3. Sent(o, w1, n)
  BY <1>1, <1>2 DEF Prefix, Sent
<1>4. StopFree(w1)
  BY <1>1, <1>2, CommandIsCommand DEF Prefix, Performed, StopFree
<1> QED BY <1>3, <1>4

(* A command that was sent was performed once its byte is acknowledged. *)
LEMMA SentAcknowledged ==
  ASSUME NEW o, NEW w \in Seq(WireEvents), NEW n \in Nat \ {0}, Sent(o, w, n),
         Transmits(CommandAt(o, n)) => w[n].ack = "ACK"
  PROVE  Prefix(o, w, n)
BY DEF Prefix, Sent, Performed

(* The STOP ends. *)
LEMMA PrefixStopped ==
  ASSUME NEW o \in [w : Nat, r : Nat], NEW w \in Seq(WireEvents), NEW e \in WireEvents,
         Prefix(o, w, ScriptLen(o)), e.cmd = "STO"
  PROVE  Complete(o, Append(w, e))
<1> DEFINE n == ScriptLen(o)
<1>1. n \in Nat
  BY ScriptLenType
<1> HIDE DEF n
<1>2. Prefix(o, w, n)
  BY DEF n
<1>3. Len(Append(w, e)) = n + 1 /\ Append(w, e)[n + 1] = e
  BY <1>1, <1>2 DEF Prefix
<1>4. \A i \in 1 .. n : Append(w, e)[i] = w[i]
  BY <1>1, <1>2 DEF Prefix
<1> QED BY <1>1, <1>2, <1>3, <1>4 DEF Prefix, Complete, n

(* A byte is stored. *)
LEMMA StoreByte ==
  ASSUME NEW o \in [w : Nat, r : Nat], NEW n \in 1 .. ScriptLen(o)
  PROVE  Stored(o, n) = IF Receives(CommandAt(o, n)) THEN Append(Stored(o, n - 1), n)
                        ELSE Stored(o, n - 1)
<1> DEFINE m == ScriptLen(o) - o.r
<1>1. m \in Nat /\ n \in Nat /\ n >= 1
  BY ScriptLenType
<1>2. Receives(CommandAt(o, n)) <=> n > m
  BY ScriptShape
<1>3. CASE n <= m
  BY <1>1, <1>2, <1>3 DEF Stored
<1>4. CASE n = m + 1
  <2>1. Stored(o, n - 1) = << >>
    BY <1>1, <1>4 DEF Stored
  <2>2. Stored(o, n) = [i \in 1 .. 1 |-> m + i]
    BY <1>1, <1>4 DEF Stored, BytesRead
  <2>3. Append(<< >>, n) = [i \in 1 .. 1 |-> m + i]
    BY <1>1, <1>4
  <2>4. Receives(CommandAt(o, n))
    BY <1>1, <1>2, <1>4
  <2> QED BY <2>1, <2>2, <2>3, <2>4
<1>5. CASE n > m + 1
  <2> DEFINE k == n - 1 - m
  <2>1. k \in Nat /\ n = m + (k + 1)
    BY <1>1, <1>5
  <2>2. Stored(o, n - 1) = [i \in 1 .. k |-> m + i]
    BY <1>1, <1>5 DEF Stored, BytesRead
  <2>3. Stored(o, n) = [i \in 1 .. k + 1 |-> m + i]
    <3>1. n - m = k + 1
      BY <1>1
    <3> QED BY <1>1, <1>5, <3>1 DEF Stored, BytesRead
  <2> HIDE DEF k, m
  <2>4. Append([i \in 1 .. k |-> m + i], m + (k + 1)) = [i \in 1 .. k + 1 |-> m + i]
    BY <1>1, <2>1
  <2>5. Receives(CommandAt(o, n))
    BY <1>1, <1>2, <1>5
  <2> QED BY <2>1, <2>2, <2>3, <2>4, <2>5
<1> QED BY <1>1, <1>3, <1>4, <1>5

LEMMA StoredEnds ==
  ASSUME NEW o \in [w : Nat, r : Nat]
  PROVE  Stored(o, 0) = << >> /\ Stored(o, ScriptLen(o)) = BytesRead(o, o.r)
<1>1. ScriptLen(o) \in Nat /\ o.r \in Nat /\ ScriptLen(o) - o.r >= 1
  BY ScriptLenType
<1>2. Stored(o, 0) = << >>
  BY <1>1 DEF Stored
<1>3. CASE o.r = 0
  BY <1>1, <1>2, <1>3 DEF Stored, BytesRead
<1>4. CASE o.r > 0
  <2>1. ScriptLen(o) - (ScriptLen(o) - o.r) = o.r
    BY <1>1
  <2> QED BY <1>1, <1>2, <1>4, <2>1 DEF Stored
<1> QED BY <1>1, <1>3, <1>4

(* The command the controller runs, even after the call gave up waiting    *)
(* for it, is the next one of the script or the only STOP.                 *)
CommandInv ==
  /\ idx <= ScriptLen(op)
  /\ cmd \in Commands \ {"STO"} =>
       /\ cmd = CommandAt(op, idx) /\ Prefix(op, wire, idx - 1)
       /\ Transmits(cmd) => TXR = idx
  /\ cmd = "STO" \/ BeforeStop => StopFree(wire)

(* What the driver may conclude from what it has seen. *)
ProgressInv ==
  /\ Ready /\ stage = "xfer" /\ pc # "rxr" =>
       /\ Prefix(op, wire, idx - 1)
       /\ pc # "txr" /\ Transmits(CommandAt(op, idx)) => TXR = idx
  /\ pc = "rxr" => Prefix(op, wire, idx) /\ Receives(CommandAt(op, idx)) /\ RXR = idx
  /\ pc = "poll" /\ stage = "xfer" /\ cmd = NoCmd /\ ~AL =>
       /\ Sent(op, wire, idx) /\ (~RXK => wire[idx].ack = "ACK")
       /\ Receives(CommandAt(op, idx)) => RXR = idx
  /\ stage = "stop" /\ (Ready \/ (pc = "poll" /\ cmd = "STO"))
       => Prefix(op, wire, ScriptLen(op))
  /\ stage = "stop" /\ (pc = "bsypoll" \/ (pc = "poll" /\ cmd = NoCmd /\ ~AL))
       => Complete(op, wire)
  /\ pc = "bsypoll" => ~AL

(* The caller's buffer, and what C2_OK stands for. *)
BufferInv ==
  /\ stage = "xfer" /\ (Ready \/ pc = "poll") => data = Stored(op, idx - 1)
  /\ stage = "stop" /\ (Ready \/ pc \in {"poll", "bsypoll"}) => data = BytesRead(op, op.r)
  /\ res = "OK" => /\ Complete(op, wire) /\ data = BytesRead(op, op.r)
                   /\ ~AL /\ bus # "ours" /\ cmd = NoCmd

ScriptInv == CommandInv /\ ProgressInv /\ BufferInv

(* The driver passes to the next command, or to the STOP. *)
LEMMA PassCommand ==
  ASSUME SafetyInv, ReleaseInv, StatusInv, ScriptInv,
         pc \in {"poll", "rxr"}, stage = "xfer", cmd = NoCmd, ~AL,
         Prefix(op, wire, idx), data' = Stored(op, idx),
         UNCHANGED <<hwVars, op>>, CommandDone
  PROVE  ScriptInv'
<1>1. /\ op \in [w : Nat, r : Nat] /\ ScriptLen(op) \in Nat /\ idx \in 1 .. ScriptLen(op)
      /\ wire \in Seq(WireEvents)
  BY ScriptLenType DEF SafetyInv, TypeOK, FlowInv, ScriptInv, CommandInv
<1>2. StopFree(wire)
  BY <1>1, PrefixStopFree
<1>3. res = "none"
  BY DEF StatusInv, Ready
<1>4. CASE idx < ScriptLen(op) /\ idx' = idx + 1 /\ Goto(FirstAccess(idx + 1))
  <2>1. idx' - 1 = idx /\ idx' <= ScriptLen(op)
    BY <1>1, <1>4
  <2>2. pc' \in {"txr", "issue"} /\ (pc' # "txr" => ~Transmits(CommandAt(op, idx')))
    BY <1>4 DEF Goto, FirstAccess
  <2> QED BY <1>1, <1>2, <1>3, <1>4, <2>1, <2>2
          DEF ScriptInv, CommandInv, ProgressInv, BufferInv, Ready, BeforeStop, Goto,
              flow, hwVars, bytes, AL, RXK, NoCmd, Commands
<1>5. CASE idx = ScriptLen(op) /\ EnterStop("stop") /\ UNCHANGED idx
  <2>1. data' = BytesRead(op, op.r)
    BY <1>1, <1>5, StoredEnds
  <2> QED BY <1>1, <1>2, <1>3, <1>5, <2>1
          DEF ScriptInv, CommandInv, ProgressInv, BufferInv, Ready, BeforeStop, EnterStop,
              hwVars, bytes, AL, RXK, NoCmd, Commands
<1> QED BY <1>4, <1>5 DEF CommandDone

LEMMA ScriptInductive ==
  SafetyInv /\ ReleaseInv /\ StatusInv /\ ScriptInv /\ [Next]_vars => ScriptInv'
<1> SUFFICES ASSUME SafetyInv, ReleaseInv, StatusInv, ScriptInv, [Next]_vars
             PROVE  ScriptInv'
  OBVIOUS
<1>0. /\ op \in [w : Nat, r : Nat] /\ ScriptLen(op) \in Nat /\ idx \in 1 .. ScriptLen(op)
      /\ wire \in Seq(WireEvents)
  BY ScriptLenType DEF SafetyInv, TypeOK, FlowInv, ScriptInv, CommandInv
<1> USE ControllerAssumption, CommandIsCommand, <1>0
        DEF SafetyInv, TypeOK, ControllerInv, FlowInv, ReleaseInv, StatusInv, Failures,
            ScriptInv, CommandInv, ProgressInv, BufferInv,
            Ready, BeforeStop, Bits, Only, EN, IFlag, TIP, AL, BSY, RXK, hwVars, bytes,
            flow, call, wait, Software, Goto, Report, Return, EndWait, KeepPolling,
            LastPoll, NoCmd, Command, Commands, Transmits, Receives
<1>1. CASE HwIack BY <1>1 DEF HwIack
<1>2. CASE HwStart BY <1>2 DEF HwStart
<1>3. CASE HwDone
  <2>1. PICK ack \in {"ACK", "NACK"} :
          /\ bits' = (bits \ {"TIP", "RXK"}) \union {"IF"} \union Only("RXK", ack = "NACK")
          /\ wire' = Append(wire, [cmd |-> cmd, ack |-> ack,
                                  byte |-> IF Transmits(cmd) THEN TXR ELSE 0])
    BY <1>3 DEF HwDone
  <2> DEFINE e == [cmd |-> cmd, ack |-> ack, byte |-> IF Transmits(cmd) THEN TXR ELSE 0]
  <2>2. e \in WireEvents /\ e.cmd = cmd /\ e.ack = ack /\ (Transmits(cmd) => e.byte = TXR)
    BY <1>3, <2>1 DEF HwDone, WireEvents
  <2>3. wire' = Append(wire, e)
    BY <2>1
  <2> HIDE DEF e
  <2>4. /\ cmd' = NoCmd /\ TXR' = TXR /\ cmd # NoCmd
        /\ UNCHANGED <<pc, stage, cont, res, op, idx, data>>
    BY <1>3 DEF HwDone
  <2>5. ~Ready /\ pc # "bsypoll" /\ res # "OK"
    BY <2>4
  <2>6. BufferInv'
    BY <2>4, <2>5
  <2>7. CASE cmd # "STO"
    <3>1. /\ Prefix(op, wire, idx - 1) /\ e.cmd = CommandAt(op, idx)
          /\ Transmits(e.cmd) => e.byte = idx
      BY <2>2, <2>4, <2>7
    <3>2. Len(wire) = idx - 1
      BY <3>1 DEF Prefix
    <3>3. Sent(op, wire', idx) /\ StopFree(wire')
      <4> HIDE DEF Transmits
      <4>1. idx \in Nat \ {0}
        OBVIOUS
      <4> QED BY ONLY wire \in Seq(WireEvents), <2>2, <2>3, <3>1, <4>1, PrefixSent
    <3>4. wire'[idx] = e
      BY <2>2, <2>3, <3>2
    <3>5. CommandInv'
      BY <2>4, <2>5, <3>3
    <3>6. Receives(CommandAt(op, idx)) => RXR' = idx
      BY <1>3, <2>4, <2>7, <3>2 DEF HwDone
    <3>7. ~RXK' => ack = "ACK"
      BY <2>1
    <3>8. pc = "poll" => stage = "xfer"
      BY <2>4, <2>7
    <3>9. ProgressInv'
      BY <2>2, <2>4, <2>5, <3>3, <3>4, <3>6, <3>7, <3>8
    <3> QED BY <2>6, <3>5, <3>9
  <2>8. CASE cmd = "STO"
    <3>1. ~BeforeStop
      BY <2>8 DEF OwnerInv
    <3>2. CommandInv'
      BY <2>4, <2>5, <3>1
    <3>3. stage = "stop" /\ pc = "poll" => Complete(op, wire')
      BY <2>2, <2>3, <2>8, PrefixStopped
    <3>4. ProgressInv'
      BY <2>4, <2>5, <3>1, <3>3
    <3> QED BY <2>6, <3>2, <3>4
  <2> QED BY <2>7, <2>8
<1>4. CASE HwLose BY <1>4 DEF HwLose
<1>5. CASE HwBusy BY <1>5 DEF HwBusy
<1>6. CASE OtherMaster BY <1>6 DEF OtherMaster
<1>7. CASE WriteTxr BY <1>7 DEF WriteTxr
<1>8. CASE Issue BY <1>8 DEF Issue, IssueFails, ClearIf, Cleared
<1>9. CASE WriteIack BY <1>9 DEF WriteIack
<1>10. CASE PollIack BY <1>10 DEF PollIack, Cleared, IssueFails
<1>11. CASE WriteCmd BY <1>11 DEF WriteCmd
<1>12. CASE PollDone
  <2>1. CASE stage = "xfer" /\ IFlag /\ ~AL /\ Transmits(CommandAt(op, idx)) /\ ~RXK
    <3>1. Prefix(op, wire, idx)
      BY <1>12, <2>1, SentAcknowledged DEF PollDone
    <3>2. data = Stored(op, idx)
      BY <1>12, <2>1, StoreByte DEF PollDone
    <3>3. UNCHANGED <<hwVars, op>> /\ data' = data /\ CommandDone
      BY <1>12, <2>1 DEF PollDone
    <3>4. pc = "poll" /\ cmd = NoCmd
      BY <1>12, <2>1 DEF PollDone
    <3> HIDE DEF SafetyInv, ReleaseInv, StatusInv, ScriptInv, AL, NoCmd, hwVars
    <3> QED BY <2>1, <3>1, <3>2, <3>3, <3>4, PassCommand
  <2>2. CASE ~(stage = "xfer" /\ IFlag /\ ~AL /\ Transmits(CommandAt(op, idx)) /\ ~RXK)
    <3>1. idx' = idx /\ UNCHANGED <<hwVars, op, data>>
      BY <1>12, <2>2 DEF PollDone, CommandDone
    <3>2. CASE Receives(Command) /\ Goto("rxr") /\ ~AL /\ IFlag
      <4>1. Prefix(op, wire, idx)
        BY <1>12, <3>2, SentAcknowledged DEF PollDone
      <4> QED BY <1>12, <3>1, <3>2, <4>1 DEF PollDone
    <3>3. CASE ~(Receives(Command) /\ ~AL /\ IFlag)
      BY <1>12, <2>2, <3>1, <3>3 DEF PollDone, IssueFails, ClearIf, Cleared
    <3> QED BY <1>12, <2>2, <3>2, <3>3 DEF PollDone
  <2> QED BY <2>1, <2>2
<1>13. CASE ReadRxr
  <2>1. data' = Stored(op, idx)
    BY <1>13, StoreByte DEF ReadRxr
  <2>2. UNCHANGED <<hwVars, op>> /\ CommandDone
    BY <1>13 DEF ReadRxr
  <2>3. pc = "rxr" /\ stage = "xfer" /\ cmd = NoCmd /\ ~AL /\ Prefix(op, wire, idx)
    BY <1>13 DEF ReadRxr, OwnerInv, Untouched
  <2> HIDE DEF SafetyInv, ReleaseInv, StatusInv, ScriptInv, AL, NoCmd, hwVars
  <2> QED BY <2>1, <2>2, <2>3, PassCommand
<1>14. CASE StopFailed BY <1>14 DEF StopFailed, ClearIf, Cleared
<1>15. CASE PollBusIdle BY <1>15 DEF PollBusIdle, ClearIf, Cleared
<1>16. CASE Cleanup BY <1>16 DEF Cleanup, ClearIf, Cleared, EnterStop
<1>17. CASE PollTip BY <1>17 DEF PollTip, ClearIf, Cleared, EnterStop
<1>18. CASE ClearEn BY <1>18 DEF ClearEn
<1>19. CASE Transfer
  <2>1. CASE pc' = "txr"
    <3>1. wire' = << >> /\ data' = << >> /\ idx' = 1 /\ op' \in Ops /\ cmd = NoCmd
      BY <1>19, <2>1 DEF Transfer
    <3>2. op' \in [w : Nat, r : Nat]
      BY <3>1, OpsAssumption
    <3>3. Prefix(op', << >>, 0) /\ StopFree(<< >>)
      BY DEF Prefix, StopFree
    <3>4. Stored(op', 0) = << >>
      BY <3>2, StoredEnds
    <3>5. 1 <= ScriptLen(op')
      BY <3>2, ScriptLenType
    <3> QED BY <1>19, <2>1, <3>1, <3>3, <3>4, <3>5 DEF Transfer
  <2>2. CASE pc' # "txr"
    BY <1>19, <2>2 DEF Transfer
  <2> QED BY <2>1, <2>2
<1>20. CASE AckInterrupt BY <1>20 DEF AckInterrupt
<1>21. CASE Enable BY <1>21 DEF Enable
<1>22. CASE CheckIdle BY <1>22 DEF CheckIdle
<1>23. CASE UNCHANGED vars BY <1>23 DEF vars
<1> QED BY <1>1, <1>2, <1>3, <1>4, <1>5, <1>6, <1>7, <1>8, <1>9, <1>10, <1>11,
           <1>12, <1>13, <1>14, <1>15, <1>16, <1>17, <1>18, <1>19, <1>20, <1>21, <1>22, <1>23
        DEF Next, Hardware, Driver, Application

(* How far the transfer has come, in every reachable state. *)
THEOREM ScriptInvariant == Spec => []ScriptInv
<1>1. Init => ScriptInv
  <2> SUFFICES ASSUME Init PROVE ScriptInv
    OBVIOUS
  <2>1. ScriptLen(op) = 1 /\ Prefix(op, wire, 0) /\ StopFree(wire)
    BY DEF Init, ScriptLen, Restart, Prefix, StopFree
  <2> QED
    BY <2>1 DEF Init, ScriptInv, CommandInv, ProgressInv, BufferInv, Ready, BeforeStop,
                NoCmd, Commands
<1> QED BY <1>1, SafetyInvariant, StatusInvariant, ScriptInductive, PTL DEF Spec

(* C2_OK (c2_i2c.c:381, 414, 461) means that the whole script went over    *)
(* the wires, that every byte read is in the buffer, in order, and that    *)
(* the bus was kept throughout and then released.                          *)
THEOREM OkIsComplete == Spec => []OkMeansComplete
<1>1. ScriptInv => OkMeansComplete
  BY DEF ScriptInv, BufferInv, BytesRead, OkMeansComplete
<1> QED BY <1>1, ScriptInvariant, PTL
-----------------------------------------------------------------------------
(* The refinement of the abstract transaction, step by step.               *)

(* Both modules extend I2CScript: their scripts are the same. *)
LEMMA SameScript ==
  ASSUME NEW o, NEW i, NEW e, NEW w
  PROVE  /\ Transaction!Commands = Commands
         /\ Transaction!ScriptLen(o) = ScriptLen(o)
         /\ Transaction!CommandAt(o, i) = CommandAt(o, i)
         /\ Transaction!Performed(o, i, e) <=> Performed(o, i, e)
         /\ Transaction!Complete(o, w) <=> Complete(o, w)
<1>1. Transaction!Commands = Commands
  BY DEF Transaction!Commands, Commands
<1>2. ASSUME NEW p PROVE Transaction!ScriptLen(p) = ScriptLen(p)
  BY DEF Transaction!ScriptLen, Transaction!Restart, ScriptLen, Restart
<1>3. ASSUME NEW p, NEW j PROVE Transaction!CommandAt(p, j) = CommandAt(p, j)
  BY <1>2 DEF Transaction!CommandAt, Transaction!Restart, CommandAt, Restart
<1>4. ASSUME NEW p, NEW j, NEW f
      PROVE  Transaction!Performed(p, j, f) <=> Performed(p, j, f)
  BY <1>3 DEF Transaction!Performed, Transaction!Transmits, Performed, Transmits
<1>5. Transaction!Complete(o, w) <=> Complete(o, w)
  BY <1>2, <1>4 DEF Transaction!Complete, Complete
<1> QED BY <1>1, <1>2, <1>3, <1>4, <1>5

(* A command that ends is one the transaction may put on the wires next.   *)
LEMMA DonePuts ==
  SafetyInv /\ ScriptInv /\ HwDone => Transaction!Put
<1> SUFFICES ASSUME SafetyInv, ScriptInv, HwDone PROVE Transaction!Put
  OBVIOUS
<1>1. /\ op \in [w : Nat, r : Nat] /\ ScriptLen(op) \in Nat /\ idx \in 1 .. ScriptLen(op)
      /\ wire \in Seq(WireEvents) /\ cmd \in Commands
  BY ScriptLenType DEF SafetyInv, TypeOK, FlowInv, ScriptInv, CommandInv, HwDone
<1>2. PICK ack \in {"ACK", "NACK"} :
        wire' = Append(wire, [cmd |-> cmd, ack |-> ack,
                              byte |-> IF Transmits(cmd) THEN TXR ELSE 0])
  BY DEF HwDone
<1> DEFINE e == [cmd |-> cmd, ack |-> ack, byte |-> IF Transmits(cmd) THEN TXR ELSE 0]
<1>3. Transmits(cmd) => TXR = idx
  BY <1>1 DEF ScriptInv, CommandInv, Transmits
<1>4. (IF Transmits(cmd) THEN TXR ELSE 0) \in 0 .. ScriptLen(op)
  BY <1>1, <1>3
<1>5. e \in [cmd : Commands, byte : 0 .. ScriptLen(op), ack : {"ACK", "NACK"}] /\ e.cmd = cmd
  BY <1>1, <1>4
<1>6. wire' = Append(wire, e) /\ wire'[Len(wire) + 1] = e
  BY <1>1, <1>2
<1>7. cmd # "STO" => /\ cmd = CommandAt(op, Len(wire) + 1) /\ Len(wire) < ScriptLen(op)
                     /\ Prefix(op, wire, Len(wire))
  BY <1>1 DEF ScriptInv, CommandInv, Prefix
<1>8. cmd = "STO" => StopFree(wire)
  BY DEF ScriptInv, CommandInv
<1>9. UNCHANGED <<Phase, op, IF Phase = "idle" THEN res ELSE "none">>
  BY DEF HwDone, Software, flow, call, Phase
<1> HIDE DEF e
<1>10. wire' \in {Append(wire, f) : f \in [cmd : Transaction!Commands,
                        byte : 0 .. Transaction!ScriptLen(op), ack : {"ACK", "NACK"}]}
  BY <1>5, <1>6, SameScript
<1>11. CASE cmd # "STO"
  <2>1. Transaction!PerformedUpTo(Len(wire))
    BY <1>7, <1>11, SameScript DEF Prefix, Transaction!PerformedUpTo
  <2>2. /\ wire'[Len(wire) + 1].cmd = Transaction!CommandAt(op, Len(wire) + 1)
        /\ Len(wire) < Transaction!ScriptLen(op)
    BY <1>5, <1>6, <1>7, <1>11, SameScript
  <2> QED BY <1>9, <1>10, <2>1, <2>2 DEF Transaction!Put
<1>12. CASE cmd = "STO"
  <2>1. wire'[Len(wire) + 1].cmd = "STO" /\ \A i \in 1 .. Len(wire) : wire[i].cmd # "STO"
    BY <1>5, <1>6, <1>8, <1>12 DEF StopFree
  <2> QED BY <1>9, <1>10, <2>1 DEF Transaction!Put
<1> QED BY <1>11, <1>12

(* A transfer call is open: a step of the driver keeps it so, or returns.  *)
LEMMA DriverCloses ==
  SafetyInv /\ StatusInv /\ Driver /\ Phase = "busy" =>
    /\ op' = op /\ wire' = wire
    /\ Phase' = "busy" \/ (Phase' = "idle" /\ res' \in Failures \union {"OK"})
<1> SUFFICES ASSUME SafetyInv, StatusInv, Driver, Phase = "busy"
             PROVE  /\ op' = op /\ wire' = wire
                    /\ Phase' = "busy" \/ (Phase' = "idle" /\ res' \in Failures \union {"OK"})
  OBVIOUS
<1> USE CommandIsCommand
        DEF SafetyInv, TypeOK, ControllerInv, FlowInv, StatusInv, Failures, Phase, Ready,
            EN, IFlag, TIP, AL, BSY, RXK, hwVars, bytes, flow, call, wait, Goto, Report,
            Return, NoCmd, Command, Transmits, Receives, Commands
<1>1. CASE WriteTxr BY <1>1 DEF WriteTxr
<1>2. CASE Issue BY <1>2 DEF Issue, IssueFails, ClearIf, Cleared
<1>3. CASE WriteIack BY <1>3 DEF WriteIack
<1>4. CASE PollIack BY <1>4 DEF PollIack, Cleared, IssueFails
<1>5. CASE WriteCmd BY <1>5 DEF WriteCmd
<1>6. CASE PollDone
  BY <1>6 DEF PollDone, IssueFails, CommandDone, EnterStop, FirstAccess, ClearIf, Cleared
<1>7. CASE ReadRxr BY <1>7 DEF ReadRxr, CommandDone, EnterStop, FirstAccess
<1>8. CASE StopFailed BY <1>8 DEF StopFailed, ClearIf, Cleared
<1>9. CASE PollBusIdle BY <1>9 DEF PollBusIdle, ClearIf, Cleared
<1>10. CASE Cleanup BY <1>10 DEF Cleanup, ClearIf, Cleared, EnterStop
<1>11. CASE PollTip BY <1>11 DEF PollTip, ClearIf, Cleared, EnterStop
<1>12. CASE ClearEn BY <1>12 DEF ClearEn
<1> QED BY <1>1, <1>2, <1>3, <1>4, <1>5, <1>6, <1>7, <1>8, <1>9, <1>10, <1>11, <1>12
        DEF Driver

(* No transfer call is open: the driver changes nothing of the last one.   *)
LEMMA DriverIdles ==
  StatusInv /\ Driver /\ Phase = "idle" =>
    op' = op /\ wire' = wire /\ Phase' = "idle" /\ res' = res
<1> SUFFICES ASSUME StatusInv, Driver, Phase = "idle"
             PROVE  op' = op /\ wire' = wire /\ Phase' = "idle" /\ res' = res
  OBVIOUS
<1>1. stage = "other" /\ (WriteIack \/ PollIack \/ ClearEn)
  BY DEF StatusInv, Phase, Driver, WriteTxr, Issue, WriteCmd, PollDone, ReadRxr, StopFailed,
         PollBusIdle, Cleanup, PollTip, WriteIack, PollIack, ClearEn
<1> QED
  BY <1>1 DEF StatusInv, Phase, WriteIack, PollIack, ClearEn, Cleared, IssueFails, Goto,
              Report, Return, hwVars, bytes, flow, call

LEMMA StepRefines ==
  SafetyInv /\ StatusInv /\ ScriptInv /\ ScriptInv' /\ [Next]_vars
    => [Transaction!Next]_(Transaction!vars)
<1> SUFFICES ASSUME SafetyInv, StatusInv, ScriptInv, ScriptInv', [Next]_vars
             PROVE  [Transaction!Next]_(Transaction!vars)
  OBVIOUS
<1>1. CASE HwDone
  BY <1>1, DonePuts DEF Transaction!Next
<1>2. CASE Driver /\ Phase = "busy"
  <2>1. op' = op /\ wire' = wire
    BY <1>2, DriverCloses
  <2>2. CASE Phase' = "busy"
    BY <1>2, <2>1, <2>2 DEF Transaction!vars
  <2>3. CASE Phase' = "idle" /\ res' \in Failures \union {"OK"}
    <3>1. res' = "OK" => Complete(op, wire)
      BY <2>1 DEF ScriptInv, BufferInv
    <3>2. Transaction!Close
      BY <1>2, <2>1, <2>3, <3>1, SameScript DEF Transaction!Close, Failures
    <3> QED BY <3>2 DEF Transaction!Next
  <2> QED BY <1>2, <2>2, <2>3, DriverCloses
<1>3. CASE Driver /\ Phase # "busy"
  <2>1. Phase = "idle"
    BY <1>3 DEF Phase
  <2> QED BY <1>3, <2>1, DriverIdles DEF Transaction!vars
<1>4. CASE Transfer
  <2>1. CASE pc' = "txr"
    <3>1. Transaction!Open
      BY <1>4, <2>1 DEF Transfer, Phase, Transaction!Open
    <3> QED BY <3>1 DEF Transaction!Next
  <2>2. CASE pc' # "txr"
    <3>1. Transaction!Refuse
      BY <1>4, <2>2 DEF Transfer, Phase, call, Transaction!Refuse
    <3> QED BY <3>1 DEF Transaction!Next
  <2> QED BY <2>1, <2>2
<1>5. CASE HwIack \/ HwStart \/ HwLose \/ HwBusy \/ OtherMaster \/ Enable \/ UNCHANGED vars
  <2>1. UNCHANGED <<pc, stage, res, op, wire>>
    BY <1>5 DEF HwIack, HwStart, HwLose, HwBusy, OtherMaster, Enable, Software, flow, call,
                bytes, vars, hwVars
  <2> QED BY <2>1 DEF Transaction!vars, Phase
<1>6. CASE AckInterrupt \/ CheckIdle
  BY <1>6 DEF AckInterrupt, CheckIdle, call, hwVars, bytes, Transaction!vars, Phase
<1> QED BY <1>1, <1>2, <1>3, <1>4, <1>5, <1>6 DEF Next, Hardware, Application

(* Every step of the driver, of its controller and of the bus is a step of *)
(* the abstract transaction or leaves it alone: the commands reach the     *)
(* wires in the order of the script, nothing but a STOP follows a byte     *)
(* that was not acknowledged, and a call returns C2_OK only when it is     *)
(* complete.  (That calls do return is left to the run.)                   *)
THEOREM RefinesTransaction == Spec => Transaction!Safety
<1>1. Init => Transaction!Init
  BY DEF Init, Transaction!Init, Phase
<1> QED BY <1>1, SafetyInvariant, StatusInvariant, ScriptInvariant, StepRefines, PTL
        DEF Spec, Transaction!Safety
=============================================================================
