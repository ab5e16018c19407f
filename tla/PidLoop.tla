------------------------------- MODULE PidLoop -------------------------------
(***************************************************************************)
(* What a PID controller promises its caller: a loop that always runs a    *)
(* valid tuning, whose steps compute everything from the tuning and the    *)
(* samples, and on which a rejected call leaves no trace.  There is no     *)
(* cache, no callback and no controller that is yet to be built.           *)
(***************************************************************************)
EXTENDS FieldctrlPid

CONSTANTS Setpoints, Measurements, Periods

VARIABLES loop,   \* tuning, integral and the history of the samples
          output  \* output of the last step

vars == <<loop, output>>

\* A loop at rest.
Fresh(t, i) == [config |-> t, integral |-> i, previous_error |-> 0,
                previous_measurement |-> 0, derivative |-> 0, history |-> FALSE]

Restart(t, i) == /\ loop' = Fresh(t, i)
                 /\ PidCheck(t) /\ InBounds(t, i)
                 /\ output' \in {0, output}

\* Bumpless: the history stays, the integral moves into the new bounds.
Tune(t) ==
  /\ loop' = [config |-> t,
              integral |-> Clamp(loop.integral, IntegralLower(t), IntegralUpper(t)),
              previous_error |-> loop.previous_error,
              previous_measurement |-> loop.previous_measurement,
              derivative |-> IF t.kd = 0 THEN 0 ELSE loop.derivative,
              history |-> loop.history]
  /\ PidCheck(t)
  /\ UNCHANGED output

Sample(sp, m, dt) ==
  LET t == loop.config
      a == IntegralStep(t, dt)
      g == DerivativeGain(t, dt)
      w == FilterWeight(t, dt)
      r == Terms(loop, sp, m, a, g, w)
  IN  /\ dt > 0
      /\ Representable(Coefficients(t, dt))
      /\ Representable(Intermediates(loop, sp, m, a, g, w))
      /\ loop' = [config |-> t, integral |-> r.integral, previous_error |-> sp - m,
                  previous_measurement |-> m, derivative |-> r.derivative, history |-> TRUE]
      /\ output' = r.output

Init == /\ PidCheck(loop.config) /\ InBounds(loop.config, loop.integral)
        /\ loop = Fresh(loop.config, loop.integral)
        /\ output = 0

Next == \/ Restart(loop'.config, loop'.integral)
        \/ Tune(loop'.config)
        \/ \E sp \in Setpoints, m \in Measurements, dt \in Periods : Sample(sp, m, dt)

Spec == Init /\ [][Next]_vars
=============================================================================
