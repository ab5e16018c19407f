---------------------------- MODULE ShrtimEvents ----------------------------
(***************************************************************************)
(* Event interrupts of one unit of the Nation SHRTIM HAL: isr_pass with    *)
(* its runaway guard, pre-empting a main loop that calls irq_enable and    *)
(* capture_read.  IDEN is changed from both sides, by read-modify-writes   *)
(* of the main loop that are two steps here.                               *)
(*                                                                         *)
(* The interrupt has priority: the main loop advances only while no        *)
(* enabled flag is pending.  A healthy source is slower than that: it      *)
(* fires at most once between two steps of the main loop.  A stuck source  *)
(* keeps its flag up whatever is written to INTCLR, until it recovers.     *)
(***************************************************************************)
EXTENDS Integers

CONSTANTS NEvents,   \* events of the unit, in scan order
          Captures,  \* the two capture events
          Stuck,     \* sources whose flag cannot be cleared
          OneShots,  \* events whose callback masks its own source
          Limit,     \* consecutive re-fires that mask a source (1000)
          SpinLimit  \* polls of capture_read (10000)

Events == 1 .. NEvents

ASSUME EventsAssumption == /\ NEvents \in Nat
                           /\ Captures \subseteq Events
                           /\ Stuck \subseteq Events
                           /\ OneShots \subseteq Events
                           /\ Limit \in Nat \ {0}
                           /\ SpinLimit \in Nat \ {0}

VARIABLES
  up,        \* the peripheral is clocked
  iden, sts, \* enable bits and flags
  nvic,      \* the unit's line is enabled in the NVIC
  stuck,     \* sources that are stuck now
  quota,     \* healthy sources that may fire before the main loop's next step
  storm,     \* s_tmr_storm: consecutive re-fires
  degraded,  \* s_tmr_storm_deg: sources masked as runaways
  todo,      \* enable & active of the running isr_pass, still to be served
  cleared,   \* the event at hand has been cleared, its flag not read again
  pc,        \* next access of the main loop
  arg, copy, \* bits of the call and the IDEN it has read
  spin,      \* polls of capture_read
  streak,    \* history: consecutive services whose clear had no effect
  runaway,   \* history: sources that reached Limit of them
  wanted     \* history: sources the application wants served

hwVars == <<up, iden, sts, nvic, stuck, quota>>
guard == <<storm, degraded>>
isrVars == <<todo, cleared>>
callVars == <<pc, arg, copy, spin>>
history == <<streak, runaway, wanted>>
vars == <<hwVars, guard, isrVars, callVars, history>>

Init == /\ up = FALSE /\ iden = {} /\ sts = {} /\ nvic = FALSE
        /\ stuck = Stuck /\ quota = {}
        /\ storm = [e \in Events |-> 0] /\ degraded = {}
        /\ todo = {} /\ cleared = FALSE
        /\ pc = "idle" /\ arg = {} /\ copy = {} /\ spin = 0
        /\ streak = [e \in Events |-> 0] /\ runaway = {} /\ wanted = {}
----------------------------------------------------------------------------
(***************************************************************************)
(* The peripheral.                                                         *)
(***************************************************************************)
Fire(e) ==
  /\ up /\ e \notin sts
  /\ e \in stuck \/ e \in quota
  /\ sts' = sts \union {e}
  /\ quota' = quota \ {e}
  /\ UNCHANGED <<up, iden, nvic, stuck, guard, isrVars, callVars, history>>

Recover(e) ==
  /\ e \in stuck
  /\ stuck' = stuck \ {e}
  /\ UNCHANGED <<up, iden, sts, nvic, quota, guard, isrVars, callVars, history>>

ClearFlags(S) == sts' = sts \ (S \ stuck)
----------------------------------------------------------------------------
(***************************************************************************)
(* isr_pass, called from the unit's vector.                                *)
(***************************************************************************)
Pending == nvic /\ iden \intersect sts # {}

IsrEnter ==
  /\ todo = {} /\ Pending
  /\ todo' = iden \intersect sts
  /\ UNCHANGED <<hwVars, guard, cleared, callVars, history>>

\* e is the next event in scan order.
First(e) == e \in todo /\ \A f \in todo : e <= f

IsrClear(e) ==
  /\ First(e) /\ ~cleared
  /\ ClearFlags({e})
  /\ cleared' = TRUE
  /\ UNCHANGED <<up, iden, nvic, stuck, quota, guard, todo, callVars, history>>

\* Mutant: the runaway is reported and stays enabled.
MutantReportOnly(e, masked) ==
  /\ iden' = iden \ (OneShots \intersect {e})
  /\ wanted' = wanted \ (OneShots \intersect {e})

\* The callback runs with the source masked or not; a one-shot masks it.
Dispatch(e, masked) ==
  /\ iden' = IF masked \/ e \in OneShots THEN iden \ {e} ELSE iden
  /\ wanted' = wanted \ (OneShots \intersect {e})

Runaway(e) == storm[e] + 1 >= Limit

\* The flag is still up: count, and mask the source at the limit.
IsrRefired(e) ==
  LET masked == Runaway(e)
  IN  /\ First(e) /\ cleared /\ e \in sts
      /\ storm' = IF masked THEN storm ELSE [storm EXCEPT ![e] = @ + 1]
      /\ degraded' = IF masked THEN degraded \union {e} ELSE degraded
      /\ Dispatch(e, masked)
      /\ todo' = todo \ {e} /\ cleared' = FALSE
      /\ streak' = [streak EXCEPT ![e] = IF @ < Limit THEN @ + 1 ELSE @]
      /\ runaway' = IF streak'[e] = Limit THEN runaway \union {e} ELSE runaway
      /\ UNCHANGED <<up, sts, nvic, stuck, quota, callVars>>

\* Mutant: re-fires add up over clean services.
MutantNoReset(e) ==
  /\ First(e) /\ cleared /\ e \notin sts
  /\ Dispatch(e, FALSE)
  /\ todo' = todo \ {e} /\ cleared' = FALSE
  /\ streak' = [streak EXCEPT ![e] = 0]
  /\ UNCHANGED <<up, sts, nvic, stuck, quota, guard, callVars, runaway>>

IsrServed(e) ==
  /\ First(e) /\ cleared /\ e \notin sts
  /\ storm' = [storm EXCEPT ![e] = 0]
  /\ Dispatch(e, FALSE)
  /\ todo' = todo \ {e} /\ cleared' = FALSE
  /\ streak' = [streak EXCEPT ![e] = 0]
  /\ UNCHANGED <<up, sts, nvic, stuck, quota, degraded, callVars, runaway>>

Isr == \/ IsrEnter
       \/ \E e \in Events : IsrClear(e) \/ IsrRefired(e) \/ IsrServed(e)
----------------------------------------------------------------------------
(***************************************************************************)
(* The main loop: calls one after the other, one register access a step.   *)
(***************************************************************************)
Step(from, to) ==
  /\ todo = {} /\ ~Pending
  /\ pc = from /\ pc' = to
  /\ quota' = Events

\* The locals of a call end with it.
Return(from) == Step(from, "idle") /\ arg' = {} /\ copy' = {} /\ spin' = 0

\* The peripheral reset takes enables and flags; the counters stay.
ShrtimInit ==
  /\ Step("idle", "idle")
  /\ up' = TRUE /\ iden' = {} /\ sts' = {} /\ wanted' = {}
  /\ UNCHANGED <<nvic, stuck, guard, isrVars, arg, copy, spin, streak, runaway>>

ShrtimDeinit ==
  /\ up /\ Step("idle", "idle")
  /\ up' = FALSE /\ iden' = {} /\ sts' = {} /\ nvic' = FALSE /\ wanted' = {}
  /\ storm' = [e \in Events |-> 0] /\ degraded' = {}
  /\ streak' = [e \in Events |-> 0] /\ runaway' = {}
  /\ UNCHANGED <<stuck, isrVars, arg, copy, spin>>

\* irq_enable: the read and the write of a SET_BIT or CLEAR_BIT.
IrqEnable(e, to) ==
  /\ up /\ Step("idle", to)
  /\ to \in {"set", "reset"}
  /\ copy' = iden /\ arg' = {e}
  /\ UNCHANGED <<up, iden, sts, nvic, stuck, guard, isrVars, spin, history>>

IrqSet ==
  /\ Return("set")
  /\ iden' = copy \union arg /\ nvic' = TRUE
  /\ wanted' = wanted \union arg
  /\ UNCHANGED <<up, sts, stuck, guard, isrVars, streak, runaway>>

IrqReset ==
  /\ Return("reset")
  /\ iden' = copy \ arg
  /\ wanted' = wanted \ arg
  /\ UNCHANGED <<up, sts, nvic, stuck, guard, isrVars, streak, runaway>>

CaptureRead ==
  /\ up /\ Step("idle", "mask_read")
  /\ arg' = iden \intersect Captures
  /\ UNCHANGED <<up, iden, sts, nvic, stuck, guard, isrVars, copy, spin, history>>

MaskRead ==
  /\ Step("mask_read", "mask_write")
  /\ copy' = iden
  /\ UNCHANGED <<up, iden, sts, nvic, stuck, guard, isrVars, arg, spin, history>>

\* Mutant: the capture interrupts stay enabled.
MutantUnmasked ==
  /\ Step("mask_write", "clear")
  /\ copy' = {}
  /\ UNCHANGED <<up, iden, sts, nvic, stuck, guard, isrVars, arg, spin, history>>

MaskWrite ==
  /\ Step("mask_write", "clear")
  /\ iden' = copy \ Captures /\ copy' = {}
  /\ UNCHANGED <<up, sts, nvic, stuck, guard, isrVars, arg, spin, history>>

\* The flags are cleared and the software triggers written.
Trigger ==
  /\ Step("clear", "poll")
  /\ ClearFlags(Captures)
  /\ UNCHANGED <<up, iden, nvic, stuck, guard, isrVars, arg, copy, spin, history>>

Poll ==
  /\ \/ Step("poll", "ack") /\ Captures \subseteq sts
     \/ Step("poll", "poll") /\ ~(Captures \subseteq sts) /\ spin + 1 < SpinLimit
     \/ Step("poll", "restore_read") /\ ~(Captures \subseteq sts) /\ spin + 1 = SpinLimit
  /\ spin' = spin + 1
  /\ UNCHANGED <<up, iden, sts, nvic, stuck, guard, isrVars, arg, copy, history>>

Ack ==
  /\ Step("ack", "restore_read")
  /\ ClearFlags(Captures)
  /\ UNCHANGED <<up, iden, nvic, stuck, guard, isrVars, arg, copy, spin, history>>

RestoreRead ==
  /\ Step("restore_read", "set_saved")
  /\ copy' = iden
  /\ UNCHANGED <<up, iden, sts, nvic, stuck, guard, isrVars, arg, spin, history>>

\* Mutant: the capture interrupts are not enabled again.
MutantNotRestored ==
  /\ Return("set_saved")
  /\ UNCHANGED <<up, iden, sts, nvic, stuck, guard, isrVars, history>>

RestoreWrite ==
  /\ Return("set_saved")
  /\ iden' = copy \union arg
  /\ UNCHANGED <<up, sts, nvic, stuck, guard, isrVars, history>>

Call == \/ ShrtimInit \/ ShrtimDeinit
        \/ \E e \in Events, to \in {"set", "reset"} : IrqEnable(e, to)
        \/ CaptureRead

Resume == \/ IrqSet \/ IrqReset \/ MaskRead \/ MaskWrite \/ Trigger
          \/ Poll \/ Ack \/ RestoreRead \/ RestoreWrite

Next == \/ \E e \in Events : Fire(e) \/ Recover(e)
        \/ Isr
        \/ Call
        \/ Resume

Spec == Init /\ [][Next]_vars

\* The processor runs: an interrupt is served, and the main loop continues when
\* there is none.
FairSpec == Spec /\ WF_vars(Isr) /\ WF_vars(Resume)
----------------------------------------------------------------------------
Labels == {"idle", "set", "reset", "mask_read", "mask_write", "clear", "poll", "ack",
           "restore_read", "set_saved"}

\* Type invariant; the counters never reach the limit, let alone their width.
TypeOK ==
  /\ up \in BOOLEAN /\ nvic \in BOOLEAN /\ cleared \in BOOLEAN
  /\ iden \subseteq Events /\ sts \subseteq Events /\ stuck \subseteq Stuck
  /\ quota \subseteq Events /\ degraded \subseteq Events /\ todo \subseteq Events
  /\ arg \subseteq Events /\ copy \subseteq Events
  /\ runaway \subseteq Events /\ wanted \subseteq Events
  /\ storm \in [Events -> 0 .. Limit - 1]
  /\ streak \in [Events -> 0 .. Limit]
  /\ pc \in Labels /\ spin \in 0 .. SpinLimit

\* A source is reported as degraded exactly when Limit services in a row could
\* not clear it, however the counting is interleaved with calls, lost masks and
\* re-enabled sources (isr_pass).
DegradedExactly == degraded = runaway

\* From the clearing of the capture flags until capture_read has seen them, no
\* interrupt takes a capture flag away from it.
CaptureNotStolen ==
  [][pc = "poll" => sts \intersect Captures \subseteq sts']_vars

\* A source the application enabled and neither it nor the guard has masked is
\* enabled between two calls: no enable bit is lost to a read-modify-write.
EnablesKept == pc = "idle" => wanted \ degraded \subseteq iden

\* A stuck source cannot starve the main loop: every call returns, although the
\* mask may be undone by the write of a call it interrupted.
CallReturns == pc # "idle" ~> pc = "idle"
=============================================================================
