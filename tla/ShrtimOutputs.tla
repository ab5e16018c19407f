--------------------------- MODULE ShrtimOutputs ---------------------------
(***************************************************************************)
(* Output drivers, counters and fault protection of the SHRTIM HAL         *)
(* (nation_shrtim.c): who may turn a power-stage output on, and when.      *)
(*                                                                         *)
(* The application calls the HAL from one thread; the fault interrupt may  *)
(* preempt it between two register accesses, and the fault inputs act on   *)
(* the output drivers at any time.  SHRTIM_EnableOutput and                *)
(* SHRTIM_TIM_CounterEnable are read-modify-write accesses (SET_BIT), so   *)
(* each is two steps here, and shrtim_fault_attach is one step per         *)
(* register.  The other calls are one step.                                *)
(***************************************************************************)
EXTENDS Naturals

CONSTANTS
  NUnits,     (* SHRTIM_HAL_UNITS                                            *)
  NPins,      (* outputs of a unit                                           *)
  Faults,     (* the fault channels                                          *)
  IrqFaults,  (* the fault events the application enables interrupts for     *)
  Masks,      (* the channel masks the application attaches                  *)
  Latches,    (* the latch requests it makes                                 *)
  Api         (* the functions it calls                                      *)

ASSUME SizeAssumption == NUnits \in Nat \ {0} /\ NPins \in Nat \ {0}
ASSUME FaultAssumption == /\ IrqFaults \subseteq Faults
                          /\ Masks \subseteq SUBSET Faults
                          /\ Latches \subseteq BOOLEAN

VARIABLES
  (* the peripheral *)
  clocked,     (* "on" while its AHB clock runs, "gated" otherwise           *)
  oen,         (* outputs whose driver is enabled (OEN)                      *)
  counting,    (* units whose counter is enabled (MCTRL)                     *)
  falt,        (* TxFALT: the channels each unit listens to                  *)
  acts,        (* outputs whose fault state is not NO_ACTION                 *)
  armed,       (* channels enabled by SHRTIM_FALT_Enable                     *)
  flags,       (* INTSTS.FALTn, latched until cleared                        *)
  lines,       (* channels whose input is asserted                           *)
  inten,       (* INTEN: channels that raise the fault interrupt             *)
  (* static variables of the HAL *)
  clk,         (* s_clk_hz: "known", or "zero"                               *)
  configured, wanted, latch, attached,
  stopped,     (* units with s_stopped_outen # 0xFF                          *)
  saved,       (* the outputs recorded in s_stopped_outen                    *)
  hooked,      (* fault events with a callback; it calls shrtim_pwm_stop_all *)
  (* the application's call in progress *)
  pc,          (* its next register access, "idle" between calls             *)
  fn,          (* the function called                                        *)
  arg,         (* the channel of fault_reset, the mask of fault_attach       *)
  unit,        (* the unit it works on, 0 for none or for all                *)
  units,       (* the units to visit after that                              *)
  todo,        (* the outputs of the unit still to be enabled                *)
  copy, count, (* what a read-modify-write of OEN, of MCTRL has read         *)
  (* history *)
  cut,         (* <<o, f, when>>: latched fault f has taken output o down    *)
  quiet,       (* what happened to a unit since pwm_stop                     *)
  before,      (* outputs that were on when their running unit was stopped   *)
  hit          (* 1 when a fault struck during the current call              *)

regs    == <<clocked, oen, counting, falt, acts, armed, flags, lines, inten>>
hal     == <<clk, configured, wanted, latch, attached, stopped, saved, hooked>>
copies  == <<copy, count>>
thread  == <<pc, fn, arg, unit, units, todo, copies>>
history == <<cut, quiet, before, hit>>
vars    == <<regs, hal, thread, history>>
-----------------------------------------------------------------------------
Units == 1 .. NUnits
Outs  == Units \X (1 .. NPins)
Of(u) == {u} \X (1 .. NPins)

(* A write reaches a register only while the peripheral is clocked. *)
Clocked(S) == IF clocked = "on" THEN S ELSE {}

TypeOK ==
  /\ clocked \in {"on", "gated"} /\ clk \in {"known", "zero"}
  /\ oen \subseteq Outs /\ acts \subseteq Outs /\ wanted \subseteq Outs /\ saved \subseteq Outs
  /\ counting \subseteq Units /\ configured \subseteq Units /\ stopped \subseteq Units
  /\ falt \in [Units -> SUBSET Faults] /\ attached \in [Units -> SUBSET Faults]
  /\ armed \subseteq Faults /\ flags \subseteq Faults /\ lines \subseteq Faults
  /\ inten \subseteq IrqFaults /\ latch \subseteq Faults /\ hooked \subseteq IrqFaults
  /\ pc \in {"idle", "visit", "enable", "write", "mctrl", "count", "falt_off", "falt_on"}
  /\ fn \in {"none", "pwm_init", "pwm_start", "out_enable", "fault_reset", "fault_attach"}
  /\ arg \subseteq Faults /\ unit \in Units \union {0} /\ units \subseteq Units
  /\ todo \subseteq Outs
  /\ copy \subseteq Outs /\ count \subseteq Units
  /\ cut \subseteq Outs \X Faults \X {"between", "during"}
  /\ quiet \in [Units -> {"no", "stopped", "resumed"}]
  /\ before \subseteq Outs /\ hit \in 0 .. 1

Init ==
  /\ clocked = "gated" /\ oen = {} /\ counting = {} /\ acts = {}
  /\ falt = [u \in Units |-> {}] /\ armed = {} /\ flags = {} /\ lines = {} /\ inten = {}
  /\ clk = "zero" /\ configured = {} /\ wanted = {} /\ latch = {}
  /\ attached = [u \in Units |-> {}] /\ stopped = {} /\ saved = {} /\ hooked = {}
  /\ pc = "idle" /\ fn = "none" /\ arg = {} /\ unit = 0 /\ units = {} /\ todo = {}
  /\ copy = {} /\ count = {}
  /\ cut = {} /\ quiet = [u \in Units |-> "no"] /\ before = {} /\ hit = 0
-----------------------------------------------------------------------------
(* The fault inputs: external. *)

Others == <<clocked, counting, falt, acts, armed, inten, hal, thread, quiet>>

(* The outputs channel f takes down. *)
Protected(f) == {o \in acts : f \in falt[o[1]]}

(* The asserted input of channel f has yet to take effect. *)
Strikes(f) == f \in lines \intersect armed /\ (f \notin flags \/ Protected(f) \intersect oen # {})

Assert(f) ==
  /\ lines' = lines \union {f}
  /\ UNCHANGED <<Others, oen, flags, cut, before, hit>>

(* An input is asserted for long enough to take effect. *)
Release(f) ==
  /\ ~Strikes(f)
  /\ lines' = lines \ {f}
  /\ UNCHANGED <<Others, oen, flags, cut, before, hit>>

(* The units the call in progress has been asked to enable. *)
Enabling == IF fn \in {"pwm_init", "pwm_start", "out_enable"} THEN {unit} \union units ELSE {}

(* An asserted input sets its flag, and the outputs it protects go to     *)
(* their fault state with OEN cleared: software has to enable them again. *)
Trip(f) ==
  /\ Strikes(f)
  /\ flags' = flags \union {f}
  /\ oen' = oen \ Protected(f)
  /\ cut' = cut \union {<<o, f, IF pc = "idle" THEN "between" ELSE "during">> :
                           o \in {o \in Protected(f) : f \in latch /\ o[1] \notin Enabling}}
  /\ before' = before \ Protected(f)
  /\ hit' = IF pc = "idle" THEN 0 ELSE 1
  /\ UNCHANGED <<Others, lines>>
-----------------------------------------------------------------------------
(* Calls of one step *)

(* The application may call function c. *)
Ready(c) == pc = "idle" /\ c \in Api

Forget(C) == cut' = cut \ C

(* What the peripheral reset and the clearing loop of init and deinit do. *)
ResetAll ==
  /\ oen' = {} /\ counting' = {} /\ falt' = [u \in Units |-> {}] /\ acts' = {}
  /\ armed' = {} /\ flags' = {} /\ inten' = {}
  /\ configured' = {} /\ wanted' = {} /\ stopped' = {} /\ saved' = {}
  /\ attached' = [u \in Units |-> {}]
  /\ cut' = {} /\ quiet' = [u \in Units |-> "no"] /\ before' = {}

(* shrtim_init: the latch requests and the callbacks survive a second call. *)
ShrtimInit ==
  /\ Ready("init") /\ clocked' = "on" /\ clk' = "known"
  /\ ResetAll
  /\ UNCHANGED <<lines, latch, hooked, thread, hit>>

(* shrtim_init when the PLL does not lock: nothing but s_clk_hz is written. *)
ShrtimInitNoLock ==
  /\ Ready("init") /\ clk' = "zero"
  /\ UNCHANGED <<regs, configured, wanted, latch, attached, stopped, saved, hooked, thread, history>>

ShrtimDeinit ==
  /\ Ready("deinit") /\ clocked' = "gated" /\ clk' = "zero"
  /\ latch' = {} /\ hooked' = {}
  /\ ResetAll
  /\ UNCHANGED <<lines, thread, hit>>

(* Mutant: only the counter is stopped. *)
MutantKeepDrivers(U) ==
  /\ stopped' = stopped \union U
  /\ saved' = saved \union {o \in oen : o[1] \in U \ stopped}
  /\ counting' = counting \ U
  /\ UNCHANGED oen

(* Mutant: a second stop takes a new snapshot. *)
MutantNewSnapshot(U) ==
  /\ stopped' = stopped \union U
  /\ saved' = {o \in saved : o[1] \notin U} \union {o \in oen : o[1] \in U}
  /\ oen' = {o \in oen : o[1] \notin U}
  /\ counting' = counting \ U

(* shrtim_pwm_stop of every unit of U: the snapshot is taken only when     *)
(* there is none.                                                          *)
StopUnits(U) ==
  LET on(V) == {o \in oen : o[1] \in V} IN
  /\ stopped' = stopped \union U
  /\ saved' = saved \union on(U \ stopped)
  /\ oen' = oen \ on(U)
  /\ counting' = counting \ U

(* History: what was on in the units that were running. *)
NoteStop(U) ==
  LET fresh == U \intersect counting IN
  /\ quiet' = [u \in Units |-> IF u \in U THEN "stopped" ELSE quiet[u]]
  /\ before' = {o \in before : o[1] \notin fresh} \union {o \in oen : o[1] \in fresh}

PwmStop(U) ==
  /\ Ready("pwm_stop")
  /\ StopUnits(U) /\ NoteStop(U)
  /\ UNCHANGED <<clocked, falt, acts, armed, flags, lines, inten, clk, configured, wanted,
                 latch, attached, hooked, thread, cut, hit>>

OutDisable(o) ==
  /\ Ready("out_disable")
  /\ oen' = oen \ {o} /\ wanted' = wanted \ {o}
  /\ before' = before \ {o}
  /\ UNCHANGED <<clocked, counting, falt, acts, armed, flags, lines, inten, clk, configured,
                 latch, attached, stopped, saved, hooked, thread, cut, quiet, hit>>

(* shrtim_fault_config with latch request l *)
FaultConfig(f, l) ==
  /\ Ready("fault_config")
  /\ armed' = armed \union Clocked({f})
  /\ latch' = IF l THEN latch \union {f} ELSE latch \ {f}
  /\ Forget({c \in cut : c[2] = f /\ ~l})
  /\ UNCHANGED <<clocked, oen, counting, falt, acts, flags, lines, inten, clk, configured,
                 wanted, attached, stopped, saved, hooked, thread, quiet, before, hit>>

(* shrtim_irq_hook of a fault event; NULL removes the callback. *)
IrqHook(f) ==
  /\ Ready("irq_hook")
  /\ hooked' \in {hooked \union {f}, hooked \ {f}}
  /\ UNCHANGED <<regs, clk, configured, wanted, latch, attached, stopped, saved, thread, history>>

(* shrtim_irq_enable of a fault event *)
IrqEnable(f) ==
  /\ Ready("irq_enable")
  /\ inten' \in {inten \union Clocked({f}), inten \ {f}}
  /\ UNCHANGED <<clocked, oen, counting, falt, acts, armed, flags, lines, hal, thread, history>>

(* Mutant: the interrupt serves the channels it is not enabled for, too. *)
MutantServeAll ==
  /\ flags \intersect inten # {}
  /\ flags' = {}
  /\ UNCHANGED <<clocked, oen, counting, falt, acts, armed, lines, inten, hal, thread, history>>

(* shrtim_isr_fault: the flags are cleared before the callbacks run.  The  *)
(* units the interrupted call works on are not counted as stopped.         *)
IsrFault ==
  LET active == flags \intersect inten
      stops  == IF active \intersect hooked # {} THEN Units ELSE {} IN
  /\ active # {}
  /\ flags' = flags \ active
  /\ StopUnits(stops)
  /\ NoteStop(stops \ ({unit} \union units))
  /\ UNCHANGED <<clocked, falt, acts, armed, lines, inten, clk, configured, wanted,
                 latch, attached, hooked, thread, cut, hit>>
-----------------------------------------------------------------------------
(* Calls of several steps *)

(* The call goes on with the next unit of its list, or returns. *)
NextUnit ==
  \/ /\ units = {} /\ units' = {} /\ unit' = 0
     /\ pc' = "idle" /\ fn' = "none" /\ arg' = {} /\ hit' = 0
  \/ /\ unit' \in units /\ \A u \in units : unit' <= u
     /\ units' = units \ {unit'}
     /\ pc' = "visit" /\ UNCHANGED <<fn, arg, hit>>

(* A call that visits the units of U in ascending order is entered. *)
Enter(f, U) ==
  /\ unit' \in U /\ \A u \in U : unit' <= u
  /\ units' = U \ {unit'}
  /\ fn' = f

(* The application names the units of U: it takes over what they do next. *)
Named(U) ==
  /\ Forget({c \in cut : c[1][1] \in U})
  /\ quiet' = [u \in Units |-> IF u \in U THEN "no" ELSE quiet[u]]

(* shrtim_pwm_init with enable_outputs: the counter is stopped and         *)
(* SHRTIM_OUT_Config takes the fault state of both outputs away.           *)
PwmInit(u) ==
  /\ Ready("pwm_init") /\ clk = "known"
  /\ counting' = counting \ {u} /\ acts' = acts \ Of(u)
  /\ configured' = configured \union {u}
  /\ Enter("pwm_init", {u}) /\ pc' = "enable" /\ todo' = Of(u)
  /\ Named({u}) /\ before' = before \ Of(u)
  /\ UNCHANGED <<clocked, oen, falt, armed, flags, lines, inten, clk, wanted, latch,
                 attached, stopped, saved, hooked, arg, copies, hit>>

(* shrtim_pwm_init without enable_outputs: OEN keeps its value. *)
PwmInitOff(u) ==
  /\ Ready("pwm_init_off") /\ clk = "known"
  /\ counting' = counting \ {u} /\ acts' = acts \ Of(u)
  /\ configured' = configured \union {u} /\ wanted' = wanted \ Of(u)
  /\ stopped' = stopped \ {u} /\ saved' = saved \ Of(u)
  /\ Named({u}) /\ before' = before \ Of(u)
  /\ UNCHANGED <<clocked, oen, falt, armed, flags, lines, inten, clk, latch, attached,
                 hooked, thread, hit>>

(* shrtim_pwm_init with a dead-time out of range: only the counter stops. *)
PwmInitFails(u) ==
  /\ Ready("pwm_init_fails") /\ clk = "known"
  /\ counting' = counting \ {u}
  /\ UNCHANGED <<clocked, oen, falt, acts, armed, flags, lines, inten, hal, thread, history>>

PwmStart(u) ==
  /\ Ready("pwm_start")
  /\ Enter("pwm_start", {u}) /\ pc' = "visit"
  /\ Named({u})
  /\ UNCHANGED <<regs, hal, arg, todo, copies, before, hit>>

(* shrtim_pwm_start_all: the counters of all units (unit 0) are enabled,   *)
(* then shrtim_pwm_start is called for each.                               *)
PwmStartAll ==
  /\ Ready("pwm_start")
  /\ unit' = 0 /\ units' = Units /\ fn' = "pwm_start" /\ pc' = "mctrl"
  /\ Named(Units)
  /\ UNCHANGED <<regs, hal, arg, todo, copies, before, hit>>

OutEnable(o) ==
  /\ Ready("out_enable")
  /\ Enter("out_enable", {o[1]}) /\ pc' = "enable" /\ todo' = {o}
  /\ Named({o[1]})
  /\ UNCHANGED <<regs, hal, arg, copies, before, hit>>

(* shrtim_fault_reset: the flag is cleared only when a latch was asked for. *)
FaultReset(f) ==
  /\ Ready("fault_reset")
  /\ flags' = IF f \in latch THEN flags \ {f} ELSE flags
  /\ Enter("fault_reset", Units) /\ pc' = "visit" /\ arg' = {f}
  /\ Forget({c \in cut : c[2] = f})
  /\ UNCHANGED <<clocked, oen, counting, falt, acts, armed, lines, inten, hal,
                 todo, copies, quiet, before, hit>>

(* Mutant: the other channels of the unit are not looked at. *)
MutantNeverBusy(u) == flags \intersect {} = {}

(* No other channel attached to u is active. *)
NotBusy(u) == flags \intersect (attached[u] \ arg) = {}

(* Mutant: clearing the flag is all a reset does. *)
MutantFlagOnly(u) == u \notin Units

(* u is released by the reset of channel arg. *)
Restores(u) == arg \subseteq attached[u] /\ NotBusy(u) /\ u \in configured

(* The loop body of shrtim_fault_reset and of shrtim_pwm_start_all begins. *)
Visit ==
  /\ pc = "visit"
  /\ \/ /\ fn = "pwm_start"
        /\ todo' = saved \intersect Of(unit) /\ pc' = "enable"
        /\ UNCHANGED <<unit, units, fn, arg, quiet, hit>>
     \/ /\ fn = "fault_reset" /\ Restores(unit)
        /\ todo' = wanted \intersect Of(unit) /\ pc' = "enable"
        /\ quiet' = [quiet EXCEPT ![unit] = IF @ = "stopped" THEN "resumed" ELSE @]
        /\ UNCHANGED <<unit, units, fn, arg, hit>>
     \/ /\ fn = "fault_reset" /\ ~Restores(unit)
        /\ NextUnit
        /\ UNCHANGED <<todo, quiet>>
  /\ UNCHANGED <<regs, hal, copies, cut, before>>

(* The outputs the next SHRTIM_EnableOutput names: shrtim_pwm_init enables *)
(* both at once, the other calls one after the other, x1 first.            *)
Batch == IF fn = "pwm_init" THEN todo ELSE {o \in todo : \A q \in todo : o[2] <= q[2]}

(* SHRTIM_EnableOutput reads OEN ... *)
ReadOen ==
  /\ pc = "enable" /\ todo # {}
  /\ copy' = oen /\ pc' = "write"
  /\ UNCHANGED <<regs, hal, fn, arg, unit, units, todo, count, history>>

(* ... and writes it back: every one written sets its bit. *)
WriteOen ==
  /\ pc = "write"
  /\ oen' = oen \union Clocked(copy \union Batch)
  /\ wanted' = IF fn \in {"pwm_init", "out_enable"} THEN wanted \union Batch ELSE wanted
  /\ todo' = todo \ Batch /\ copy' = {} /\ pc' = "enable"
  /\ UNCHANGED <<clocked, counting, falt, acts, armed, flags, lines, inten, clk, configured,
                 latch, attached, stopped, saved, hooked, fn, arg, unit, units, count, history>>

(* The outputs of the unit are done: pwm_start and pwm_init drop the       *)
(* snapshot, and pwm_start has yet to enable the counter.                  *)
Leave ==
  /\ pc = "enable" /\ todo = {}
  /\ \/ /\ fn = "pwm_start" /\ pc' = "mctrl"
        /\ UNCHANGED <<unit, units, fn, arg, hit>>
     \/ fn # "pwm_start" /\ NextUnit
  /\ LET done == IF fn \in {"pwm_start", "pwm_init"} THEN {unit} ELSE {} IN
     /\ stopped' = stopped \ done
     /\ saved' = {o \in saved : o[1] \notin done}
  /\ UNCHANGED <<regs, clk, configured, wanted, latch, attached, hooked, todo, copies,
                 cut, quiet, before>>

(* SHRTIM_TIM_CounterEnable reads MCTRL ... *)
ReadMctrl ==
  /\ pc = "mctrl"
  /\ count' = counting /\ pc' = "count"
  /\ UNCHANGED <<regs, hal, fn, arg, unit, units, todo, copy, history>>

(* ... and writes it back, the counters of the other units included. *)
WriteMctrl ==
  /\ pc = "count"
  /\ counting' = Clocked(count \union (IF unit = 0 THEN Units ELSE {unit}))
  /\ count' = {} /\ NextUnit /\ before' = before \ Of(unit)
  /\ UNCHANGED <<clocked, oen, falt, acts, armed, flags, lines, inten, hal, todo, copy, cut, quiet>>

(* shrtim_fault_attach: the fault states of the outputs first, A being the *)
(* ones that get one ...                                                   *)
FaultAttach(u, mask, A) ==
  /\ Ready("fault_attach")
  /\ acts' = (acts \ Of(u)) \union Clocked(A)
  /\ Enter("fault_attach", {u}) /\ pc' = "falt_off" /\ arg' = mask
  /\ Forget({c \in cut : c[1] \in Of(u) \ A})
  /\ UNCHANGED <<clocked, oen, counting, falt, armed, flags, lines, inten, hal,
                 todo, copies, quiet, before, hit>>

(* Mutant: all channels are detached before the new set is attached. *)
MutantDetachAll ==
  /\ pc = "falt_off" /\ pc' = "falt_on"
  /\ falt' = [falt EXCEPT ![unit] = {}]
  /\ Forget({c \in cut : c[1][1] = unit /\ c[2] \notin arg})
  /\ UNCHANGED <<clocked, oen, counting, acts, armed, flags, lines, inten, hal,
                 fn, arg, unit, units, todo, copies, quiet, before, hit>>

(* ... then the channels that are no longer attached ... *)
DisableFault ==
  /\ pc = "falt_off" /\ pc' = "falt_on"
  /\ falt' = [falt EXCEPT ![unit] = @ \ (attached[unit] \ arg)]
  /\ Forget({c \in cut : c[1][1] = unit /\ c[2] \notin arg})
  /\ UNCHANGED <<clocked, oen, counting, acts, armed, flags, lines, inten, hal,
                 fn, arg, unit, units, todo, copies, quiet, before, hit>>

(* ... then the new ones. *)
EnableFault ==
  /\ pc = "falt_on" /\ NextUnit
  /\ falt' = [falt EXCEPT ![unit] = @ \union Clocked(arg \ attached[unit])]
  /\ attached' = [attached EXCEPT ![unit] = arg]
  /\ UNCHANGED <<clocked, oen, counting, acts, armed, flags, lines, inten, clk, configured,
                 wanted, latch, stopped, saved, hooked, todo, copies, cut, quiet, before>>
-----------------------------------------------------------------------------
Environment == \E f \in Faults : Assert(f) \/ Release(f) \/ Trip(f)

Call ==
  \/ ShrtimInit \/ ShrtimInitNoLock \/ ShrtimDeinit \/ PwmStartAll
  \/ \E u \in Units :
       \/ PwmInit(u) \/ PwmInitOff(u) \/ PwmInitFails(u) \/ PwmStart(u)
       \/ \E mask \in Masks, A \in {{}, Of(u)} : FaultAttach(u, mask, A)
  \/ \E U \in {Units} \union {{u} : u \in Units} : PwmStop(U)
  \/ \E o \in Outs : OutEnable(o) \/ OutDisable(o)
  \/ \E f \in Faults : FaultReset(f) \/ \E l \in Latches : FaultConfig(f, l)
  \/ \E f \in IrqFaults : IrqHook(f) \/ IrqEnable(f)

Continue == Visit \/ ReadOen \/ WriteOen \/ Leave \/ ReadMctrl \/ WriteMctrl \/ DisableFault \/ EnableFault

Next == Environment \/ IsrFault \/ Call \/ Continue

Spec == Init /\ [][Next]_vars
-----------------------------------------------------------------------------
(* The mask software keeps for a unit is the one in its TxFALT register,   *)
(* and while shrtim_fault_attach replaces it no channel that stays         *)
(* attached is ever disconnected.                                          *)
ProtectionKept ==
  clocked = "on" =>
    \A u \in Units :
      IF pc \in {"falt_off", "falt_on"} /\ u = unit
        THEN /\ attached[u] \intersect arg \subseteq falt[u]
             /\ falt[u] \subseteq attached[u] \union arg
        ELSE falt[u] = attached[u]

(* An output that a latched fault without an interrupt has taken down      *)
(* between two calls stays down until shrtim_fault_reset of that fault or  *)
(* a call that names its unit, whatever else is reset, enabled or served.  *)
CutHolds == \A c \in cut : c[3] = "between" /\ c[2] \notin IrqFaults => c[1] \notin oen

(* The same with interrupts: "fault stays active after the source clears   *)
(* until shrtim_fault_reset()".                                            *)
LatchedUntilReset ==
  \A c \in cut : c[3] = "between" /\ c[2] \notin lines => c[1] \notin oen

(* shrtim_fault_reset enables every wanted output of each unit it          *)
(* releases, so that the outputs resume.                                   *)
Resumes ==
  [][\A u \in Units :
       (/\ fn = "fault_reset" /\ pc # "idle" /\ u = unit /\ unit' # unit
        /\ arg \subseteq attached[u] /\ u \in configured /\ clocked = "on"
        /\ flags \intersect attached[u] \subseteq arg /\ hit = 0)
       => wanted \intersect Of(u) \subseteq oen']_vars

(* After shrtim_pwm_stop the counter stands and the drivers are off until  *)
(* a call names the unit or a fault reset restores it.                     *)
StoppedHolds ==
  \A u \in Units : quiet[u] = "stopped" => u \notin counting /\ oen \intersect Of(u) = {}

(* shrtim_pwm_start gives back every output that was on when the running   *)
(* unit was stopped, however often it was stopped since.                   *)
StartRestores ==
  pc = "count" /\ clocked = "on" => before \intersect Of(unit) \subseteq oen
=============================================================================
