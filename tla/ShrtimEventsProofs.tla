------------------------- MODULE ShrtimEventsProofs -------------------------
(***************************************************************************)
(* Proofs about the event interrupts, for any number of events, any sets   *)
(* of stuck sources and one-shot callbacks, and any limits.                *)
(***************************************************************************)
EXTENDS ShrtimEvents, TLAPS

\* What the application wants served and the guard has not masked.
Due == wanted \ degraded

\* The storm counter is the length of the streak, short of the limit.
Counts ==
  \A e \in Events : storm[e] = IF streak[e] < Limit THEN streak[e] ELSE Limit - 1

\* Where the due enable bits are while a call is between its accesses.
Kept ==
  /\ pc \in {"idle", "mask_read"} => Due \subseteq iden
  /\ pc \in {"set", "reset", "mask_write"} => Due \subseteq copy
  /\ pc \in {"clear", "poll", "ack", "restore_read"} => Due \subseteq iden \union arg
  /\ pc = "set_saved" => Due \subseteq copy \union arg
  /\ pc \in {"mask_read", "mask_write"} => Due \intersect Captures \subseteq arg

\* Once masked, the capture events are neither enabled nor being served.
Masked ==
  pc \in {"clear", "poll"} => /\ iden \intersect Captures = {}
                              /\ todo \intersect Captures = {}

\* The polls are counted from zero and end at the limit.
Spins ==
  /\ pc \in {"idle", "set", "reset", "mask_read", "mask_write", "clear"} => spin = 0
  /\ pc = "poll" => spin < SpinLimit

IInv == TypeOK /\ Counts /\ DegradedExactly /\ Kept /\ Masked /\ Spins
----------------------------------------------------------------------------
LEMMA CleanCounters ==
  LET zero == [e \in Events |-> 0]
  IN  zero \in [Events -> 0 .. Limit - 1] /\ zero \in [Events -> 0 .. Limit]
<1>1. 0 \in 0 .. Limit - 1 /\ 0 \in 0 .. Limit
  BY EventsAssumption
<1> QED BY <1>1

LEMMA InitInv == Init => IInv
<1> SUFFICES ASSUME Init PROVE IInv
  OBVIOUS
<1> USE EventsAssumption DEF Init
<1>1. TypeOK
  <2>1. storm \in [Events -> 0 .. Limit - 1] /\ streak \in [Events -> 0 .. Limit]
    BY CleanCounters
  <2>2. pc \in Labels /\ spin \in 0 .. SpinLimit
    BY DEF Labels
  <2> QED BY <2>1, <2>2 DEF TypeOK
<1>2. Counts /\ DegradedExactly
  BY DEF Counts, DegradedExactly
<1>3. Kept /\ Masked /\ Spins
  BY DEF Kept, Masked, Spins, Due
<1> QED BY <1>1, <1>2, <1>3 DEF IInv

\* A service of e ends with its counters at c and s, e masked or not.
LEMMA ServiceInv ==
  ASSUME IInv, NEW e \in Events, e \in todo,
         NEW masked \in BOOLEAN,
         NEW c \in 0 .. Limit - 1, NEW s \in 0 .. Limit,
         c = (IF s < Limit THEN s ELSE Limit - 1),
         masked <=> s = Limit,
         Dispatch(e, masked),
         storm' = [storm EXCEPT ![e] = c],
         streak' = [streak EXCEPT ![e] = s],
         degraded' = IF masked THEN degraded \union {e} ELSE degraded,
         runaway' = IF masked THEN runaway \union {e} ELSE runaway,
         todo' = todo \ {e}, cleared' = FALSE,
         UNCHANGED <<up, sts, nvic, stuck, quota, callVars>>
  PROVE  IInv'
<1> USE EventsAssumption DEF IInv, callVars
<1>1. TypeOK'
  BY DEF TypeOK, Dispatch
<1>2. Counts'
  <2> SUFFICES ASSUME NEW f \in Events
               PROVE  storm'[f] = IF streak'[f] < Limit THEN streak'[f] ELSE Limit - 1
    BY DEF Counts
  <2>1. CASE f = e
    BY <2>1 DEF TypeOK
  <2>2. CASE f # e
    BY <2>2 DEF TypeOK, Counts
  <2> QED BY <2>1, <2>2
<1>3. DegradedExactly'
  BY DEF DegradedExactly
<1>4. /\ Due' \subseteq Due
      /\ \A x \in Due' : x \in iden => x \in iden'
      /\ iden' \subseteq iden
  BY DEF Due, Dispatch
<1>5. Kept'
  BY <1>4 DEF Kept
<1>6. Masked'
  BY <1>4 DEF Masked
<1>7. Spins'
  BY DEF Spins
<1> QED BY <1>1, <1>2, <1>3, <1>5, <1>6, <1>7

LEMMA RefiredInv ==
  ASSUME IInv, NEW e \in Events, IsrRefired(e)
  PROVE  IInv'
<1> USE EventsAssumption
<1>1. /\ storm[e] \in 0 .. Limit - 1 /\ streak[e] \in 0 .. Limit
      /\ storm \in [Events -> 0 .. Limit - 1]
      /\ storm[e] = IF streak[e] < Limit THEN streak[e] ELSE Limit - 1
      /\ e \in todo
  BY DEF IInv, TypeOK, Counts, IsrRefired, First
<1> DEFINE masked == Runaway(e)
           s == IF streak[e] < Limit THEN streak[e] + 1 ELSE streak[e]
           c == IF masked THEN storm[e] ELSE storm[e] + 1
<1>2. /\ masked \in BOOLEAN /\ s \in 0 .. Limit /\ c \in 0 .. Limit - 1
      /\ c = IF s < Limit THEN s ELSE Limit - 1
      /\ masked <=> s = Limit
  BY <1>1 DEF Runaway
<1>3. storm' = [storm EXCEPT ![e] = c]
  BY <1>1 DEF IsrRefired
<1>4. streak' = [streak EXCEPT ![e] = s] /\ streak'[e] = s
  BY DEF IsrRefired, IInv, TypeOK
<1>5. /\ Dispatch(e, masked)
      /\ degraded' = IF masked THEN degraded \union {e} ELSE degraded
      /\ runaway' = IF masked THEN runaway \union {e} ELSE runaway
      /\ todo' = todo \ {e} /\ cleared' = FALSE
      /\ UNCHANGED <<up, sts, nvic, stuck, quota, callVars>>
  BY <1>2, <1>4 DEF IsrRefired
<1> HIDE DEF masked, s, c
<1> QED BY <1>1, <1>2, <1>3, <1>4, <1>5, ServiceInv

LEMMA ServedInv ==
  ASSUME IInv, NEW e \in Events, IsrServed(e)
  PROVE  IInv'
<1> USE EventsAssumption
<1>1. /\ 0 \in 0 .. Limit - 1 /\ 0 \in 0 .. Limit
      /\ 0 = IF 0 < Limit THEN 0 ELSE Limit - 1
      /\ FALSE <=> 0 = Limit
      /\ e \in todo /\ FALSE \in BOOLEAN
  BY DEF IsrServed, First
<1>2. /\ Dispatch(e, FALSE)
      /\ storm' = [storm EXCEPT ![e] = 0]
      /\ streak' = [streak EXCEPT ![e] = 0]
      /\ degraded' = IF FALSE THEN degraded \union {e} ELSE degraded
      /\ runaway' = IF FALSE THEN runaway \union {e} ELSE runaway
      /\ todo' = todo \ {e} /\ cleared' = FALSE
      /\ UNCHANGED <<up, sts, nvic, stuck, quota, callVars>>
  BY DEF IsrServed
<1> QED BY <1>1, <1>2, ServiceInv

\* Every step preserves the inductive invariant.
LEMMA StepInv == IInv /\ [Next]_vars => IInv'
<1> SUFFICES ASSUME IInv, [Next]_vars PROVE IInv'
  OBVIOUS
<1> USE EventsAssumption
<1> USE DEF IInv, TypeOK, Counts, DegradedExactly, Kept, Masked, Spins, Due, Labels,
            hwVars, guard, isrVars, callVars, history
<1>1. ASSUME NEW e \in Events, Fire(e) PROVE IInv'
  BY <1>1 DEF Fire
<1>2. ASSUME NEW e \in Events, Recover(e) PROVE IInv'
  BY <1>2 DEF Recover
<1>3. CASE IsrEnter
  BY <1>3 DEF IsrEnter
<1>4. ASSUME NEW e \in Events, IsrClear(e) PROVE IInv'
  BY <1>4 DEF IsrClear, ClearFlags
<1>5. ASSUME NEW e \in Events, IsrRefired(e) PROVE IInv'
  BY <1>5, RefiredInv
<1>6. ASSUME NEW e \in Events, IsrServed(e) PROVE IInv'
  BY <1>6, ServedInv
<1>7. CASE ShrtimInit
  BY <1>7 DEF ShrtimInit, Step
<1>8. CASE ShrtimDeinit
  <2>1. TypeOK'
    BY <1>8, CleanCounters DEF ShrtimDeinit, Step
  <2>2. Counts' /\ DegradedExactly'
    BY <1>8 DEF ShrtimDeinit
  <2>3. Kept' /\ Masked' /\ Spins'
    BY <1>8 DEF ShrtimDeinit, Step
  <2> QED BY <2>1, <2>2, <2>3
<1>9. ASSUME NEW e \in Events, NEW to \in {"set", "reset"}, IrqEnable(e, to) PROVE IInv'
  BY <1>9 DEF IrqEnable, Step
<1>10. CASE IrqSet
  BY <1>10 DEF IrqSet, Return, Step
<1>11. CASE IrqReset
  BY <1>11 DEF IrqReset, Return, Step
<1>12. CASE CaptureRead
  BY <1>12 DEF CaptureRead, Step
<1>13. CASE MaskRead
  BY <1>13 DEF MaskRead, Step
<1>14. CASE MaskWrite
  BY <1>14 DEF MaskWrite, Step
<1>15. CASE Trigger
  BY <1>15 DEF Trigger, Step, ClearFlags
<1>16. CASE Poll
  BY <1>16 DEF Poll, Step
<1>17. CASE Ack
  BY <1>17 DEF Ack, Step, ClearFlags
<1>18. CASE RestoreRead
  BY <1>18 DEF RestoreRead, Step
<1>19. CASE RestoreWrite
  BY <1>19 DEF RestoreWrite, Return, Step
<1>20. CASE UNCHANGED vars
  BY <1>20 DEF vars
<1> QED
  BY <1>1, <1>2, <1>3, <1>4, <1>5, <1>6, <1>7, <1>8, <1>9, <1>10, <1>11, <1>12,
     <1>13, <1>14, <1>15, <1>16, <1>17, <1>18, <1>19, <1>20
  DEF Next, Isr, Call, Resume

LEMMA Invariance == Spec => []IInv
BY InitInv, StepInv, PTL DEF Spec
----------------------------------------------------------------------------
\* Type correctness; the storm counters stay below the limit of isr_pass.
THEOREM TypeCorrect == Spec => []TypeOK
BY Invariance, PTL DEF IInv

\* isr_pass masks a source exactly when Limit services in a row could not clear
\* it, whatever calls and read-modify-writes come between them.
THEOREM DegradedIsRunaway == Spec => []DegradedExactly
BY Invariance, PTL DEF IInv

\* Between two calls every source the application enabled is enabled, unless it
\* was degraded: capture_read and irq_enable lose no bit of IDEN.
THEOREM EnablesAlwaysKept == Spec => []EnablesKept
<1>1. IInv => EnablesKept
  BY DEF IInv, Kept, EnablesKept, Due
<1> QED BY <1>1, Invariance, PTL

\* While capture_read polls, a step that takes a capture flag away is impossible.
LEMMA StepSteals ==
  ASSUME IInv, [Next]_vars, pc = "poll"
  PROVE  sts \intersect Captures \subseteq sts'
<1>1. ASSUME NEW e \in Events, IsrClear(e) PROVE sts \intersect Captures \subseteq sts'
  BY <1>1 DEF IInv, Masked, IsrClear, First, ClearFlags
<1>2. CASE UNCHANGED sts
  BY <1>2
<1> QED
  BY <1>1, <1>2
  DEF Next, Isr, Call, Resume, vars, hwVars, Fire, Recover, IsrEnter, IsrRefired,
      IsrServed, ShrtimInit, ShrtimDeinit, IrqEnable, IrqSet, IrqReset, CaptureRead,
      MaskRead, MaskWrite, Trigger, Poll, Ack, RestoreRead, RestoreWrite, Return, Step

\* No interrupt takes from capture_read the flag it is polling for.
THEOREM CaptureNeverStolen == Spec => CaptureNotStolen
<1>1. IInv /\ [Next]_vars => [pc = "poll" => sts \intersect Captures \subseteq sts']_vars
  BY StepSteals
<1> QED BY <1>1, Invariance, PTL DEF Spec, CaptureNotStolen
=============================================================================
