------------------------ MODULE ShrtimOutputsProofs ------------------------
(***************************************************************************)
(* Proofs about the output drivers of the SHRTIM HAL: for any number of    *)
(* units, outputs and channels and whatever functions the application      *)
(* calls, a fault channel that stays attached is never disconnected, and a *)
(* latched fault that is not served by interrupt holds its outputs down;   *)
(* and, if no fault callback stops units, a stopped unit stays stopped, a  *)
(* start gives every output back and a reset resumes what it releases.     *)
(***************************************************************************)
EXTENDS ShrtimOutputs, TLAPS

(* The call in progress and the unit it works on. *)
CallInv ==
  /\ pc = "idle" => unit = 0 /\ units = {} /\ fn = "none"
  /\ pc # "idle" => fn # "none"
  /\ pc \in {"mctrl", "count"} => fn = "pwm_start"
  /\ pc \notin {"idle", "mctrl", "count"} => unit \in Units
  /\ pc \in {"falt_off", "falt_on"} <=> fn = "fault_attach"
  /\ fn = "fault_attach" => units = {}
  /\ pc = "visit" => fn \in {"pwm_start", "fault_reset"}
  /\ units # {} => fn \in {"pwm_start", "fault_reset"}
  /\ pc \notin {"enable", "write"} => todo = {}
  /\ todo \subseteq Of(unit)
  /\ pc # "write" => copy = {}

(* An unclocked peripheral has no channel armed and the HAL knows no clock. *)
ClockInv ==
  /\ clk = "known" => clocked = "on"
  /\ clocked = "gated" => armed = {} /\ cut = {} /\ oen = {}

(* The channels to remove are gone before the new ones are attached. *)
AttachInv == pc = "falt_on" /\ clocked = "on" => falt[unit] \subseteq arg

(* What keeps the output of c down: it is off in OEN and in the copy about *)
(* to be written back, its fault still shows to the unit it is attached    *)
(* to, and the call in progress neither names the unit nor resets c.       *)
Held(c) ==
  /\ c[1] \notin oen /\ c[1] \notin copy
  /\ c[2] \in flags /\ c[2] \in attached[c[1][1]]
  /\ fn \in {"pwm_init", "pwm_start", "out_enable"} => c[1][1] # unit /\ c[1][1] \notin units
  /\ fn = "fault_reset" => c[2] \notin arg /\ c[1] \notin todo
  /\ pc = "falt_on" /\ unit = c[1][1] => c[2] \in arg

HeldInv == \A c \in cut : c[3] = "between" /\ c[2] \notin IrqFaults => Held(c)

SafetyInv == TypeOK /\ CallInv /\ ClockInv /\ AttachInv /\ ProtectionKept /\ HeldInv
-----------------------------------------------------------------------------
(* The unit of an output, and the parts of a cut. *)
LEMMA OutputFacts ==
  /\ \A o \in Outs : o[1] \in Units
  /\ \A u \in Units : Of(u) \subseteq Outs /\ \A o \in Of(u) : o[1] = u
  /\ \A u \in Units, o \in Outs : o[1] = u => o \in Of(u)
  /\ \A c \in Outs \X Faults \X {"between", "during"} : c[1] \in Outs /\ c[2] \in Faults
BY DEF Outs, Of

(* No call in progress: no unit. *)
LEMMA NoUnit == 0 \notin Units
BY DEF Units

(* The invariant holds before shrtim_init is first called. *)
LEMMA InitSafety == Init => SafetyInv
BY SizeAssumption, FaultAssumption DEF Init, SafetyInv, TypeOK, CallInv, ClockInv, AttachInv, ProtectionKept, HeldInv, Of

(* Every step keeps the invariant. *)
LEMMA SafetyInductive == SafetyInv /\ [Next]_vars => SafetyInv'
<1> SUFFICES ASSUME SafetyInv, [Next]_vars PROVE SafetyInv'
  OBVIOUS
<1> USE OutputFacts, NoUnit, SizeAssumption, FaultAssumption DEF SafetyInv, regs, hal, thread, history, copies
<1>1. ASSUME NEW f \in Faults, Assert(f) PROVE SafetyInv'
  BY <1>1
  DEF TypeOK, CallInv, ClockInv, AttachInv, ProtectionKept, HeldInv, Held,
      Assert, Others
<1>2. ASSUME NEW f \in Faults, Release(f) PROVE SafetyInv'
  BY <1>2
  DEF TypeOK, CallInv, ClockInv, AttachInv, ProtectionKept, HeldInv, Held,
      Release, Others
<1>3. ASSUME NEW f \in Faults, Trip(f) PROVE SafetyInv'
  <2>1. TypeOK'
    BY <1>3 DEF TypeOK, Trip, Others, Strikes, Protected, Enabling
  <2>2. CallInv'
    BY <1>3 DEF TypeOK, CallInv, Trip, Others, Strikes, Protected, Enabling
  <2>3. ClockInv'
    BY <1>3 DEF TypeOK, CallInv, ClockInv, Trip, Others, Strikes, Protected, Enabling
  <2>4. ProtectionKept'
    BY <1>3 DEF TypeOK, CallInv, ProtectionKept, Trip, Others, Strikes, Protected, Enabling
  <2>5. HeldInv'
    BY <1>3 DEF TypeOK, CallInv, ClockInv, ProtectionKept, HeldInv, Held, Trip, Others, Strikes, Protected, Enabling
  <2>6. AttachInv'
    BY <1>3 DEF TypeOK, CallInv, ClockInv, AttachInv, ProtectionKept, Trip, Others, Strikes, Protected, Enabling
  <2> QED
    BY <2>1, <2>2, <2>3, <2>4, <2>5, <2>6
<1>4. ASSUME IsrFault PROVE SafetyInv'
  BY <1>4
  DEF TypeOK, CallInv, ClockInv, AttachInv, ProtectionKept, HeldInv, Held,
      IsrFault, StopUnits, NoteStop
<1>5. ASSUME ShrtimInit PROVE SafetyInv'
  BY <1>5
  DEF TypeOK, CallInv, ClockInv, AttachInv, ProtectionKept, HeldInv, Held,
      ShrtimInit, ResetAll, Ready
<1>6. ASSUME ShrtimInitNoLock PROVE SafetyInv'
  BY <1>6
  DEF TypeOK, CallInv, ClockInv, AttachInv, ProtectionKept, HeldInv, Held,
      ShrtimInitNoLock, Ready
<1>7. ASSUME ShrtimDeinit PROVE SafetyInv'
  BY <1>7
  DEF TypeOK, CallInv, ClockInv, AttachInv, ProtectionKept, HeldInv, Held,
      ShrtimDeinit, ResetAll, Ready
<1>8. ASSUME NEW u \in Units, PwmInit(u) PROVE SafetyInv'
  BY <1>8
  DEF TypeOK, CallInv, ClockInv, AttachInv, ProtectionKept, HeldInv, Held,
      PwmInit, Enter, Named, Forget, Ready
<1>9. ASSUME NEW u \in Units, PwmInitOff(u) PROVE SafetyInv'
  BY <1>9
  DEF TypeOK, CallInv, ClockInv, AttachInv, ProtectionKept, HeldInv, Held,
      PwmInitOff, Named, Forget, Ready
<1>10. ASSUME NEW u \in Units, PwmInitFails(u) PROVE SafetyInv'
  BY <1>10
  DEF TypeOK, CallInv, ClockInv, AttachInv, ProtectionKept, HeldInv, Held,
      PwmInitFails, Ready
<1>11. ASSUME NEW u \in Units, NEW mask \in Masks, NEW A \in {{}, Of(u)}, FaultAttach(u, mask, A)
       PROVE  SafetyInv'
  BY <1>11
  DEF TypeOK, CallInv, ClockInv, AttachInv, ProtectionKept, HeldInv, Held,
      FaultAttach, Enter, Forget, Ready, Clocked
<1>12. ASSUME NEW u \in Units, PwmStart(u) PROVE SafetyInv'
  BY <1>12
  DEF TypeOK, CallInv, ClockInv, AttachInv, ProtectionKept, HeldInv, Held,
      PwmStart, Enter, Named, Forget, Ready
<1>13. ASSUME PwmStartAll PROVE SafetyInv'
  BY <1>13
  DEF TypeOK, CallInv, ClockInv, AttachInv, ProtectionKept, HeldInv, Held,
      PwmStartAll, Named, Forget, Ready
<1>14. ASSUME NEW U \in SUBSET Units, PwmStop(U) PROVE SafetyInv'
  BY <1>14
  DEF TypeOK, CallInv, ClockInv, AttachInv, ProtectionKept, HeldInv, Held,
      PwmStop, StopUnits, NoteStop, Ready
<1>15. ASSUME NEW o \in Outs, OutEnable(o) PROVE SafetyInv'
  BY <1>15
  DEF TypeOK, CallInv, ClockInv, AttachInv, ProtectionKept, HeldInv, Held,
      OutEnable, Enter, Named, Forget, Ready
<1>16. ASSUME NEW o \in Outs, OutDisable(o) PROVE SafetyInv'
  BY <1>16
  DEF TypeOK, CallInv, ClockInv, AttachInv, ProtectionKept, HeldInv, Held,
      OutDisable, Ready
<1>17. ASSUME NEW f \in Faults, FaultReset(f) PROVE SafetyInv'
  BY <1>17
  DEF TypeOK, CallInv, ClockInv, AttachInv, ProtectionKept, HeldInv, Held,
      FaultReset, Enter, Forget, Ready
<1>18. ASSUME NEW f \in Faults, NEW l \in Latches, FaultConfig(f, l) PROVE SafetyInv'
  BY <1>18
  DEF TypeOK, CallInv, ClockInv, AttachInv, ProtectionKept, HeldInv, Held,
      FaultConfig, Forget, Ready, Clocked
<1>19. ASSUME NEW f \in IrqFaults, IrqHook(f) PROVE SafetyInv'
  BY <1>19
  DEF TypeOK, CallInv, ClockInv, AttachInv, ProtectionKept, HeldInv, Held,
      IrqHook, Ready
<1>20. ASSUME NEW f \in IrqFaults, IrqEnable(f) PROVE SafetyInv'
  BY <1>20
  DEF TypeOK, CallInv, ClockInv, AttachInv, ProtectionKept, HeldInv, Held,
      IrqEnable, Ready, Clocked
<1>21. ASSUME Visit PROVE SafetyInv'
  <2>1. TypeOK'
    BY <1>21 DEF TypeOK, Visit, NextUnit, Restores, NotBusy
  <2>2. CallInv'
    BY <1>21 DEF TypeOK, CallInv, Visit, NextUnit, Restores, NotBusy
  <2>3. ClockInv'
    BY <1>21 DEF TypeOK, CallInv, ClockInv, Visit, NextUnit, Restores, NotBusy
  <2>4. ProtectionKept'
    BY <1>21 DEF TypeOK, CallInv, ProtectionKept, Visit, NextUnit, Restores, NotBusy
  <2>5. HeldInv'
    BY <1>21 DEF TypeOK, CallInv, ClockInv, ProtectionKept, HeldInv, Held, Visit, NextUnit, Restores, NotBusy
  <2>6. AttachInv'
    BY <1>21 DEF TypeOK, CallInv, ClockInv, AttachInv, ProtectionKept, Visit, NextUnit, Restores, NotBusy
  <2> QED
    BY <2>1, <2>2, <2>3, <2>4, <2>5, <2>6
<1>22. ASSUME ReadOen PROVE SafetyInv'
  BY <1>22
  DEF TypeOK, CallInv, ClockInv, AttachInv, ProtectionKept, HeldInv, Held,
      ReadOen
<1>23. ASSUME WriteOen PROVE SafetyInv'
  <2>1. TypeOK'
    BY <1>23 DEF TypeOK, WriteOen, Batch, Clocked
  <2>2. CallInv'
    BY <1>23 DEF TypeOK, CallInv, WriteOen, Batch, Clocked
  <2>3. ClockInv'
    BY <1>23 DEF TypeOK, CallInv, ClockInv, WriteOen, Batch, Clocked
  <2>4. ProtectionKept'
    BY <1>23 DEF TypeOK, CallInv, ProtectionKept, WriteOen, Batch, Clocked
  <2>5. HeldInv'
    BY <1>23 DEF TypeOK, CallInv, ClockInv, ProtectionKept, HeldInv, Held, WriteOen, Batch, Clocked
  <2>6. AttachInv'
    BY <1>23 DEF TypeOK, CallInv, ClockInv, AttachInv, ProtectionKept, WriteOen, Batch, Clocked
  <2> QED
    BY <2>1, <2>2, <2>3, <2>4, <2>5, <2>6
<1>24. ASSUME Leave PROVE SafetyInv'
  BY <1>24
  DEF TypeOK, CallInv, ClockInv, AttachInv, ProtectionKept, HeldInv, Held,
      Leave, NextUnit
<1>25. ASSUME ReadMctrl PROVE SafetyInv'
  BY <1>25
  DEF TypeOK, CallInv, ClockInv, AttachInv, ProtectionKept, HeldInv, Held,
      ReadMctrl
<1>26. ASSUME WriteMctrl PROVE SafetyInv'
  BY <1>26
  DEF TypeOK, CallInv, ClockInv, AttachInv, ProtectionKept, HeldInv, Held,
      WriteMctrl, NextUnit, Clocked
<1>27. ASSUME DisableFault PROVE SafetyInv'
  <2>1. TypeOK'
    BY <1>27 DEF TypeOK, DisableFault, Forget
  <2>2. CallInv'
    BY <1>27 DEF TypeOK, CallInv, DisableFault, Forget
  <2>3. ClockInv'
    BY <1>27 DEF TypeOK, CallInv, ClockInv, DisableFault, Forget
  <2>4. ProtectionKept'
    BY <1>27 DEF TypeOK, CallInv, ProtectionKept, DisableFault, Forget
  <2>5. HeldInv'
    BY <1>27 DEF TypeOK, CallInv, ClockInv, ProtectionKept, HeldInv, Held, DisableFault, Forget
  <2>6. AttachInv'
    BY <1>27 DEF TypeOK, CallInv, ClockInv, AttachInv, ProtectionKept, DisableFault, Forget
  <2> QED
    BY <2>1, <2>2, <2>3, <2>4, <2>5, <2>6
<1>28. ASSUME EnableFault PROVE SafetyInv'
  <2>1. TypeOK'
    BY <1>28 DEF TypeOK, CallInv, EnableFault, NextUnit, Clocked
  <2>2. CallInv'
    BY <1>28 DEF TypeOK, CallInv, EnableFault, NextUnit, Clocked
  <2>3. ClockInv'
    BY <1>28 DEF TypeOK, CallInv, ClockInv, EnableFault, NextUnit, Clocked
  <2>4. ProtectionKept'
    <3>1. pc' = "idle" /\ clocked' = clocked
      BY <1>28 DEF CallInv, EnableFault, NextUnit
    <3>2. ASSUME clocked = "on", NEW u \in Units PROVE falt'[u] = attached'[u]
      <4>1. CASE u = unit
        <5>1. /\ attached[u] \intersect arg \subseteq falt[u]
              /\ falt[u] \subseteq attached[u] \union arg
          BY <1>28, <3>2, <4>1 DEF ProtectionKept, EnableFault
        <5>2. falt[u] \subseteq arg
          BY <1>28, <3>2, <4>1 DEF AttachInv, EnableFault
        <5> QED
          BY <1>28, <3>2, <4>1, <5>1, <5>2 DEF TypeOK, EnableFault, Clocked
      <4>2. CASE u # unit
        BY <1>28, <3>2, <4>2 DEF TypeOK, ProtectionKept, EnableFault
      <4> QED
        BY <4>1, <4>2
    <3> QED
      BY <3>1, <3>2 DEF ProtectionKept
  <2>5. HeldInv'
    BY <1>28 DEF TypeOK, CallInv, ClockInv, ProtectionKept, HeldInv, Held, EnableFault, NextUnit, Clocked
  <2>6. AttachInv'
    BY <1>28 DEF TypeOK, CallInv, ClockInv, AttachInv, ProtectionKept, EnableFault, NextUnit, Clocked
  <2> QED
    BY <2>1, <2>2, <2>3, <2>4, <2>5, <2>6
<1>29. ASSUME UNCHANGED vars PROVE SafetyInv'
  BY <1>29 DEF vars, TypeOK, CallInv, ClockInv, AttachInv, ProtectionKept, HeldInv, Held
<1> QED
  BY <1>1, <1>2, <1>3, <1>4, <1>5, <1>6, <1>7, <1>8, <1>9, <1>10, <1>11, <1>12, <1>13, <1>14,
     <1>15, <1>16, <1>17, <1>18, <1>19, <1>20, <1>21, <1>22, <1>23, <1>24, <1>25, <1>26, <1>27, <1>28, <1>29
  DEF Next, Environment, Call, Continue

(* The variables of the driver and of the peripheral keep their types. *)
THEOREM TypeCorrect == Spec => []TypeOK
<1>1. SafetyInv => TypeOK
  BY DEF SafetyInv
<1> QED
  BY <1>1, InitSafety, SafetyInductive, PTL DEF Spec

(* However shrtim_fault_attach changes the channels of a unit, and         *)
(* wherever a fault or an interrupt comes in between, the channels that    *)
(* stay attached stay connected, and TxFALT is what s_fault_attached says. *)
THEOREM ProtectionIsKept == Spec => []ProtectionKept
<1>1. SafetyInv => ProtectionKept
  BY DEF SafetyInv
<1> QED
  BY <1>1, InitSafety, SafetyInductive, PTL DEF Spec

(* A latched fault without an interrupt that strikes between two calls     *)
(* holds its outputs down: neither the reset of another channel, nor the   *)
(* read-modify-write of OEN for another unit, nor the service of other     *)
(* channels by shrtim_isr_fault brings them back.                          *)
THEOREM LatchedFaultHolds == Spec => []CutHolds
<1>1. SafetyInv => CutHolds
  BY DEF SafetyInv, HeldInv, Held, CutHolds
<1> QED
  BY <1>1, InitSafety, SafetyInductive, PTL DEF Spec
-----------------------------------------------------------------------------
(* Stopping and starting.  A fault callback that stops the units in the    *)
(* middle of a call is undone by the write-back of what the call had read  *)
(* before: these results are for an application that hooks no such         *)
(* callback, whatever interrupts it enables.  Without fault interrupts     *)
(* this is always so.                                                      *)
Undisturbed == hooked = {}

(* A stopped unit: its counter and its drivers are off, and so they are in *)
(* what the call in progress is about to write back, and that call works   *)
(* on other units.                                                         *)
StopInv ==
  /\ pc # "count" => count = {}
  /\ pc \in {"mctrl", "count"} /\ unit = 0 => units = Units
  /\ \A u \in Units : quiet[u] = "stopped" =>
       /\ u \notin counting /\ u \notin count
       /\ oen \intersect Of(u) = {} /\ copy \intersect Of(u) = {}
       /\ fn = "pwm_start" => u # unit /\ u \notin units
       /\ pc \in {"enable", "write"} => u # unit

(* The outputs that were on are in the snapshot until pwm_start has        *)
(* enabled them; no running unit has a snapshot.                           *)
RestoreInv ==
  /\ pc # "count" => count = {}
  /\ pc \in {"mctrl", "count"} /\ unit = 0 => units = Units
  /\ \A u \in stopped :
       u \in counting \union count => fn = "pwm_start" /\ u \in units \union {unit}
  /\ pc \in {"mctrl", "count"} => unit \notin stopped
  /\ fn = "pwm_init" => before \intersect Of(unit) = {}
  /\ \A o \in before :
       IF pc \in {"mctrl", "count"} /\ o[1] = unit THEN clocked = "on" => o \in oen
                                                   ELSE o \in saved /\ o[1] \in stopped
  /\ fn = "pwm_start" /\ pc \in {"enable", "write"} /\ clocked = "on"
       => before \intersect Of(unit) \subseteq oen \union todo

(* The wanted outputs of a unit that fault_reset releases are on, or still *)
(* on its list.                                                            *)
ResumeInv ==
  fn = "fault_reset" /\ pc \in {"enable", "write"} /\ clocked = "on" /\ hit = 0
    => wanted \intersect Of(unit) \subseteq oen \union todo

(* Every step keeps a stopped unit still. *)
LEMMA StopInductive ==
  SafetyInv /\ Undisturbed /\ StopInv /\ [Next]_vars => StopInv'
<1> SUFFICES ASSUME SafetyInv, Undisturbed, StopInv, [Next]_vars PROVE StopInv'
  OBVIOUS
<1> USE OutputFacts, NoUnit DEF SafetyInv, TypeOK, CallInv, Undisturbed, StopInv, regs, hal, thread,
         history, copies
<1>1. ASSUME NEW f \in Faults, Assert(f) PROVE StopInv'
  BY <1>1 DEF Assert, Others
<1>2. ASSUME NEW f \in Faults, Release(f) PROVE StopInv'
  BY <1>2 DEF Release, Others
<1>3. ASSUME NEW f \in Faults, Trip(f) PROVE StopInv'
  BY <1>3 DEF Trip, Others, Strikes, Protected
<1>4. ASSUME ShrtimInit PROVE StopInv'
  BY <1>4 DEF ShrtimInit, ResetAll, Ready
<1>5. ASSUME ShrtimInitNoLock PROVE StopInv'
  BY <1>5 DEF ShrtimInitNoLock, Ready
<1>6. ASSUME ShrtimDeinit PROVE StopInv'
  BY <1>6 DEF ShrtimDeinit, ResetAll, Ready
<1>7. ASSUME NEW u \in Units, PwmInit(u) PROVE StopInv'
  BY <1>7 DEF PwmInit, Enter, Named, Ready
<1>8. ASSUME NEW u \in Units, PwmInitOff(u) PROVE StopInv'
  BY <1>8 DEF PwmInitOff, Named, Ready
<1>9. ASSUME NEW u \in Units, PwmInitFails(u) PROVE StopInv'
  BY <1>9 DEF PwmInitFails, Ready
<1>10. ASSUME NEW u \in Units, NEW mask \in Masks, NEW A \in {{}, Of(u)}, FaultAttach(u, mask, A)
      PROVE  StopInv'
  BY <1>10 DEF FaultAttach, Enter, Ready
<1>11. ASSUME NEW u \in Units, PwmStart(u) PROVE StopInv'
  BY <1>11 DEF PwmStart, Enter, Named, Ready
<1>12. ASSUME PwmStartAll PROVE StopInv'
  BY <1>12 DEF PwmStartAll, Named, Ready
<1>13. ASSUME NEW U \in SUBSET Units, PwmStop(U) PROVE StopInv'
  BY <1>13 DEF PwmStop, StopUnits, NoteStop, Ready
<1>14. ASSUME NEW o \in Outs, OutEnable(o) PROVE StopInv'
  BY <1>14 DEF OutEnable, Enter, Named, Ready
<1>15. ASSUME NEW o \in Outs, OutDisable(o) PROVE StopInv'
  BY <1>15 DEF OutDisable, Ready
<1>16. ASSUME NEW f \in Faults, FaultReset(f) PROVE StopInv'
  BY <1>16 DEF FaultReset, Enter, Ready
<1>17. ASSUME NEW f \in Faults, NEW l \in Latches, FaultConfig(f, l) PROVE StopInv'
  BY <1>17 DEF FaultConfig, Ready
<1>18. ASSUME NEW f \in IrqFaults, IrqHook(f) PROVE StopInv'
  BY <1>18 DEF IrqHook, Ready
<1>19. ASSUME NEW f \in IrqFaults, IrqEnable(f) PROVE StopInv'
  BY <1>19 DEF IrqEnable, Ready
<1>20. ASSUME IsrFault PROVE StopInv'
  BY <1>20 DEF IsrFault, StopUnits, NoteStop
<1>21. ASSUME Visit PROVE StopInv'
  BY <1>21 DEF Visit, NextUnit
<1>22. ASSUME ReadOen PROVE StopInv'
  BY <1>22 DEF ReadOen
<1>23. ASSUME WriteOen PROVE StopInv'
  BY <1>23 DEF WriteOen, Batch, Clocked
<1>24. ASSUME Leave PROVE StopInv'
  BY <1>24 DEF Leave, NextUnit
<1>25. ASSUME ReadMctrl PROVE StopInv'
  BY <1>25 DEF ReadMctrl
<1>26. ASSUME WriteMctrl PROVE StopInv'
  BY <1>26 DEF WriteMctrl, NextUnit, Clocked
<1>27. ASSUME DisableFault PROVE StopInv'
  BY <1>27 DEF DisableFault
<1>28. ASSUME EnableFault PROVE StopInv'
  BY <1>28 DEF EnableFault, NextUnit
<1>29. ASSUME UNCHANGED vars PROVE StopInv'
  BY <1>29 DEF vars
<1> QED
  BY <1>1, <1>2, <1>3, <1>4, <1>5, <1>6, <1>7, <1>8, <1>9, <1>10, <1>11, <1>12, <1>13, <1>14,
     <1>15, <1>16, <1>17, <1>18, <1>19, <1>20, <1>21, <1>22, <1>23, <1>24, <1>25, <1>26, <1>27, <1>28, <1>29
  DEF Next, Environment, Call, Continue

(* Every step keeps the snapshots. *)
LEMMA RestoreInductive ==
  SafetyInv /\ Undisturbed /\ RestoreInv /\ [Next]_vars => RestoreInv'
<1> SUFFICES ASSUME SafetyInv, Undisturbed, RestoreInv, [Next]_vars PROVE RestoreInv'
  OBVIOUS
<1> USE OutputFacts, NoUnit DEF SafetyInv, TypeOK, CallInv, Undisturbed, RestoreInv, regs, hal, thread,
         history, copies
<1>1. ASSUME NEW f \in Faults, Assert(f) PROVE RestoreInv'
  BY <1>1 DEF Assert, Others
<1>2. ASSUME NEW f \in Faults, Release(f) PROVE RestoreInv'
  BY <1>2 DEF Release, Others
<1>3. ASSUME NEW f \in Faults, Trip(f) PROVE RestoreInv'
  BY <1>3 DEF Trip, Others, Strikes, Protected
<1>4. ASSUME ShrtimInit PROVE RestoreInv'
  BY <1>4 DEF ShrtimInit, ResetAll, Ready
<1>5. ASSUME ShrtimInitNoLock PROVE RestoreInv'
  BY <1>5 DEF ShrtimInitNoLock, Ready
<1>6. ASSUME ShrtimDeinit PROVE RestoreInv'
  BY <1>6 DEF ShrtimDeinit, ResetAll, Ready
<1>7. ASSUME NEW u \in Units, PwmInit(u) PROVE RestoreInv'
  BY <1>7 DEF PwmInit, Enter, Named, Ready
<1>8. ASSUME NEW u \in Units, PwmInitOff(u) PROVE RestoreInv'
  BY <1>8 DEF PwmInitOff, Named, Ready
<1>9. ASSUME NEW u \in Units, PwmInitFails(u) PROVE RestoreInv'
  BY <1>9 DEF PwmInitFails, Ready
<1>10. ASSUME NEW u \in Units, NEW mask \in Masks, NEW A \in {{}, Of(u)}, FaultAttach(u, mask, A)
      PROVE  RestoreInv'
  BY <1>10 DEF FaultAttach, Enter, Ready
<1>11. ASSUME NEW u \in Units, PwmStart(u) PROVE RestoreInv'
  BY <1>11 DEF PwmStart, Enter, Named, Ready
<1>12. ASSUME PwmStartAll PROVE RestoreInv'
  BY <1>12 DEF PwmStartAll, Named, Ready
<1>13. ASSUME NEW U \in SUBSET Units, PwmStop(U) PROVE RestoreInv'
  BY <1>13 DEF PwmStop, StopUnits, NoteStop, Ready
<1>14. ASSUME NEW o \in Outs, OutEnable(o) PROVE RestoreInv'
  BY <1>14 DEF OutEnable, Enter, Named, Ready
<1>15. ASSUME NEW o \in Outs, OutDisable(o) PROVE RestoreInv'
  BY <1>15 DEF OutDisable, Ready
<1>16. ASSUME NEW f \in Faults, FaultReset(f) PROVE RestoreInv'
  BY <1>16 DEF FaultReset, Enter, Ready
<1>17. ASSUME NEW f \in Faults, NEW l \in Latches, FaultConfig(f, l) PROVE RestoreInv'
  BY <1>17 DEF FaultConfig, Ready
<1>18. ASSUME NEW f \in IrqFaults, IrqHook(f) PROVE RestoreInv'
  BY <1>18 DEF IrqHook, Ready
<1>19. ASSUME NEW f \in IrqFaults, IrqEnable(f) PROVE RestoreInv'
  BY <1>19 DEF IrqEnable, Ready
<1>20. ASSUME IsrFault PROVE RestoreInv'
  BY <1>20 DEF IsrFault, StopUnits, NoteStop
<1>21. ASSUME Visit PROVE RestoreInv'
  BY <1>21 DEF Visit, NextUnit
<1>22. ASSUME ReadOen PROVE RestoreInv'
  BY <1>22 DEF ReadOen
<1>23. ASSUME WriteOen PROVE RestoreInv'
  BY <1>23 DEF WriteOen, Batch, Clocked
<1>24. ASSUME Leave PROVE RestoreInv'
  BY <1>24 DEF Leave, NextUnit
<1>25. ASSUME ReadMctrl PROVE RestoreInv'
  BY <1>25 DEF ReadMctrl
<1>26. ASSUME WriteMctrl PROVE RestoreInv'
  BY <1>26 DEF WriteMctrl, NextUnit, Clocked
<1>27. ASSUME DisableFault PROVE RestoreInv'
  BY <1>27 DEF DisableFault
<1>28. ASSUME EnableFault PROVE RestoreInv'
  BY <1>28 DEF EnableFault, NextUnit
<1>29. ASSUME UNCHANGED vars PROVE RestoreInv'
  BY <1>29 DEF vars
<1> QED
  BY <1>1, <1>2, <1>3, <1>4, <1>5, <1>6, <1>7, <1>8, <1>9, <1>10, <1>11, <1>12, <1>13, <1>14,
     <1>15, <1>16, <1>17, <1>18, <1>19, <1>20, <1>21, <1>22, <1>23, <1>24, <1>25, <1>26, <1>27, <1>28, <1>29
  DEF Next, Environment, Call, Continue

(* Every step keeps the outputs of a released unit on their way. *)
LEMMA ResumeInductive ==
  SafetyInv /\ Undisturbed /\ ResumeInv /\ [Next]_vars => ResumeInv'
<1> SUFFICES ASSUME SafetyInv, Undisturbed, ResumeInv, [Next]_vars PROVE ResumeInv'
  OBVIOUS
<1> USE OutputFacts, NoUnit DEF SafetyInv, TypeOK, CallInv, Undisturbed, ResumeInv, regs, hal, thread,
         history, copies
<1>1. ASSUME NEW f \in Faults, Assert(f) PROVE ResumeInv'
  BY <1>1 DEF Assert, Others
<1>2. ASSUME NEW f \in Faults, Release(f) PROVE ResumeInv'
  BY <1>2 DEF Release, Others
<1>3. ASSUME NEW f \in Faults, Trip(f) PROVE ResumeInv'
  BY <1>3 DEF Trip, Others, Strikes, Protected
<1>4. ASSUME ShrtimInit PROVE ResumeInv'
  BY <1>4 DEF ShrtimInit, ResetAll, Ready
<1>5. ASSUME ShrtimInitNoLock PROVE ResumeInv'
  BY <1>5 DEF ShrtimInitNoLock, Ready
<1>6. ASSUME ShrtimDeinit PROVE ResumeInv'
  BY <1>6 DEF ShrtimDeinit, ResetAll, Ready
<1>7. ASSUME NEW u \in Units, PwmInit(u) PROVE ResumeInv'
  BY <1>7 DEF PwmInit, Enter, Named, Ready
<1>8. ASSUME NEW u \in Units, PwmInitOff(u) PROVE ResumeInv'
  BY <1>8 DEF PwmInitOff, Named, Ready
<1>9. ASSUME NEW u \in Units, PwmInitFails(u) PROVE ResumeInv'
  BY <1>9 DEF PwmInitFails, Ready
<1>10. ASSUME NEW u \in Units, NEW mask \in Masks, NEW A \in {{}, Of(u)}, FaultAttach(u, mask, A)
      PROVE  ResumeInv'
  BY <1>10 DEF FaultAttach, Enter, Ready
<1>11. ASSUME NEW u \in Units, PwmStart(u) PROVE ResumeInv'
  BY <1>11 DEF PwmStart, Enter, Named, Ready
<1>12. ASSUME PwmStartAll PROVE ResumeInv'
  BY <1>12 DEF PwmStartAll, Named, Ready
<1>13. ASSUME NEW U \in SUBSET Units, PwmStop(U) PROVE ResumeInv'
  BY <1>13 DEF PwmStop, StopUnits, NoteStop, Ready
<1>14. ASSUME NEW o \in Outs, OutEnable(o) PROVE ResumeInv'
  BY <1>14 DEF OutEnable, Enter, Named, Ready
<1>15. ASSUME NEW o \in Outs, OutDisable(o) PROVE ResumeInv'
  BY <1>15 DEF OutDisable, Ready
<1>16. ASSUME NEW f \in Faults, FaultReset(f) PROVE ResumeInv'
  BY <1>16 DEF FaultReset, Enter, Ready
<1>17. ASSUME NEW f \in Faults, NEW l \in Latches, FaultConfig(f, l) PROVE ResumeInv'
  BY <1>17 DEF FaultConfig, Ready
<1>18. ASSUME NEW f \in IrqFaults, IrqHook(f) PROVE ResumeInv'
  BY <1>18 DEF IrqHook, Ready
<1>19. ASSUME NEW f \in IrqFaults, IrqEnable(f) PROVE ResumeInv'
  BY <1>19 DEF IrqEnable, Ready
<1>20. ASSUME IsrFault PROVE ResumeInv'
  BY <1>20 DEF IsrFault, StopUnits, NoteStop
<1>21. ASSUME Visit PROVE ResumeInv'
  BY <1>21 DEF Visit, NextUnit
<1>22. ASSUME ReadOen PROVE ResumeInv'
  BY <1>22 DEF ReadOen
<1>23. ASSUME WriteOen PROVE ResumeInv'
  BY <1>23 DEF WriteOen, Batch, Clocked
<1>24. ASSUME Leave PROVE ResumeInv'
  BY <1>24 DEF Leave, NextUnit
<1>25. ASSUME ReadMctrl PROVE ResumeInv'
  BY <1>25 DEF ReadMctrl
<1>26. ASSUME WriteMctrl PROVE ResumeInv'
  BY <1>26 DEF WriteMctrl, NextUnit, Clocked
<1>27. ASSUME DisableFault PROVE ResumeInv'
  BY <1>27 DEF DisableFault
<1>28. ASSUME EnableFault PROVE ResumeInv'
  BY <1>28 DEF EnableFault, NextUnit
<1>29. ASSUME UNCHANGED vars PROVE ResumeInv'
  BY <1>29 DEF vars
<1> QED
  BY <1>1, <1>2, <1>3, <1>4, <1>5, <1>6, <1>7, <1>8, <1>9, <1>10, <1>11, <1>12, <1>13, <1>14,
     <1>15, <1>16, <1>17, <1>18, <1>19, <1>20, <1>21, <1>22, <1>23, <1>24, <1>25, <1>26, <1>27, <1>28, <1>29
  DEF Next, Environment, Call, Continue

(* An application without fault interrupts is undisturbed. *)
LEMMA NoInterrupts == ASSUME IrqFaults = {} PROVE Spec => []Undisturbed
<1>1. TypeOK => Undisturbed
  BY DEF TypeOK, Undisturbed
<1> QED
  BY <1>1, TypeCorrect, PTL

(* After shrtim_pwm_stop the counter of the unit stands and its drivers    *)
(* are off until a call names the unit or a fault reset restores it: the   *)
(* read-modify-writes of MCTRL and OEN for other units do not revive it.   *)
THEOREM StopHolds == Spec /\ []Undisturbed => []StoppedHolds
<1>1. Init => StopInv
  BY DEF Init, StopInv
<1>2. StopInv => StoppedHolds
  BY DEF StopInv, StoppedHolds
<1> QED
  BY <1>1, <1>2, InitSafety, SafetyInductive, StopInductive, PTL DEF Spec

(* shrtim_pwm_start gives back every output that was on when the running   *)
(* unit was stopped, however often it was stopped since.                   *)
THEOREM StartIsComplete == Spec /\ []Undisturbed => []StartRestores
<1>1. Init => RestoreInv
  BY DEF Init, RestoreInv
<1>2. SafetyInv /\ RestoreInv => StartRestores
  BY OutputFacts, NoUnit DEF SafetyInv, TypeOK, CallInv, RestoreInv, StartRestores, Of
<1> QED
  BY <1>1, <1>2, InitSafety, SafetyInductive, RestoreInductive, PTL DEF Spec

(* shrtim_fault_reset enables every wanted output of each unit it releases *)
(* before it goes on to the next unit or returns.                          *)
THEOREM ResetResumes == Spec /\ []Undisturbed => Resumes
<1> DEFINE Resumed ==
      \A u \in Units :
        (/\ fn = "fault_reset" /\ pc # "idle" /\ u = unit /\ unit' # unit
         /\ arg \subseteq attached[u] /\ u \in configured /\ clocked = "on"
         /\ flags \intersect attached[u] \subseteq arg /\ hit = 0)
        => wanted \intersect Of(u) \subseteq oen'
<1>1. Init => ResumeInv
  BY DEF Init, ResumeInv
<1>2. SafetyInv /\ ResumeInv /\ [Next]_vars => [Resumed]_vars
  <2> SUFFICES ASSUME SafetyInv, ResumeInv, [Next]_vars, NEW u \in Units,
                      fn = "fault_reset", pc # "idle", u = unit, unit' # unit,
                      arg \subseteq attached[u], u \in configured, clocked = "on",
                      flags \intersect attached[u] \subseteq arg, hit = 0
               PROVE  wanted \intersect Of(u) \subseteq oen'
    OBVIOUS
  <2>1. CASE Continue
    <3>1. Visit \/ Leave
      BY <2>1 DEF Continue, ReadOen, WriteOen, ReadMctrl, WriteMctrl, DisableFault, EnableFault,
                  SafetyInv, CallInv
    <3>2. ~Visit
      BY DEF Visit, Restores, NotBusy
    <3> QED BY <3>1, <3>2 DEF Leave, regs, SafetyInv, ResumeInv
  <2>2. ~Environment /\ ~UNCHANGED vars
    BY DEF Environment, Assert, Release, Trip, Others, thread, vars
  <2>3. ~Call
    BY DEF Call, Ready, ShrtimInit, ShrtimInitNoLock, ShrtimDeinit, PwmStartAll, PwmInit,
           PwmInitOff, PwmInitFails, PwmStart, FaultAttach, PwmStop, OutEnable, OutDisable,
           FaultReset, FaultConfig, IrqHook, IrqEnable
  <2>4. ~IsrFault
    BY DEF IsrFault, thread
  <2> QED BY <2>1, <2>2, <2>3, <2>4 DEF Next
<1> QED
  BY <1>1, <1>2, InitSafety, SafetyInductive, ResumeInductive, PTL DEF Spec, Resumes
=============================================================================
