---------------------------- MODULE FieldctrlPid ----------------------------
(***************************************************************************)
(* The PID controller of fieldctrl (libs/fieldctrl/src/base_impl.h) as     *)
(* operators on its context.  The scalar is the fixed-point working format *)
(* of the q variants: an integer x stands for x / One, arithmetic rounds   *)
(* half away from zero, and a value beyond Max is an error that makes the  *)
(* whole call fail.                                                        *)
(***************************************************************************)
EXTENDS Integers

CONSTANTS Max, \* largest magnitude of the working format
          One  \* the representation of 1

ASSUME RangeAssumption == /\ Max \in Nat \ {0}
                          /\ One \in Nat \ {0}

Magnitude(x) == IF x < 0 THEN -x ELSE x

\* Magnitude(a) / Magnitude(b) to the nearest integer, halves upwards.
Nearest(a, b) == (2 * Magnitude(a) + Magnitude(b)) \div (2 * Magnitude(b))

FcMul(a, b) == IF (a < 0) = (b < 0) THEN Nearest(a * b, One)
                                    ELSE -Nearest(a * b, One)
FcDiv(a, b) == IF (a < 0) = (b < 0) THEN Nearest(a * One, b)
                                    ELSE -Nearest(a * One, b)

\* A call succeeds when every value it computes is representable.
Representable(S) == \A x \in S : -Max <= x /\ x <= Max

Clamp(x, lo, hi) == IF x < lo THEN lo ELSE IF x > hi THEN hi ELSE x
----------------------------------------------------------------------------
(***************************************************************************)
(* Tunings (fieldctrl_S_pid_config_t) and contexts (fieldctrl_S_pid_t).    *)
(***************************************************************************)
Options == {"integral_limit", "integral_separation", "setpoint_weight"}
Sources == {"error", "measurement"}

Tuning == [kp : Int, ki : Int, kd : Int, lower : Int, upper : Int,
           options : SUBSET Options, derivative : Sources,
           derivative_filter : Int, setpoint_weight : Int,
           integral_lower : Int, integral_upper : Int, separation : Int]

Pid == [config : Tuning, integral : Int, previous_error : Int,
        previous_measurement : Int, derivative : Int, cached_dt : Int,
        integral_step : Int, derivative_gain : Int, filter_weight : Int,
        history : BOOLEAN]

OwnLimit(t) == "integral_limit" \in t.options

IntegralLower(t) == IF OwnLimit(t) THEN t.integral_lower ELSE t.lower
IntegralUpper(t) == IF OwnLimit(t) THEN t.integral_upper ELSE t.upper

Gains(t) == {t.kp, t.ki, t.kd}

\* Accepts exactly the tunings that pid_init and pid_retune accept.
PidCheck(t) ==
  /\ Representable(Gains(t) \cup
       {t.lower, t.upper, t.derivative_filter, t.setpoint_weight,
        t.integral_lower, t.integral_upper, t.separation})
  /\ \/ \A g \in Gains(t) : g >= 0
     \/ \A g \in Gains(t) : g <= 0
  /\ t.lower < t.upper
  /\ t.derivative_filter >= 0
  /\ t.options \subseteq Options
  /\ t.derivative \in Sources
  /\ "setpoint_weight" \in t.options => 0 <= t.setpoint_weight /\ t.setpoint_weight <= One
  /\ "integral_separation" \in t.options => t.separation > 0
  /\ OwnLimit(t) => t.integral_lower <= t.integral_upper

InBounds(t, i) == IntegralLower(t) <= i /\ i <= IntegralUpper(t)

PidInit(t, i) ==
  [config |-> t, integral |-> i, previous_error |-> 0,
   previous_measurement |-> 0, derivative |-> 0, cached_dt |-> 0,
   integral_step |-> 0, derivative_gain |-> 0, filter_weight |-> 0,
   history |-> FALSE]

\* Mutant: kd is forgotten.
MutantSameKi(t, u) == t.ki = u.ki /\ t.derivative_filter = u.derivative_filter

\* The cached coefficients depend on ki, kd and the filter only.
SameCoefficients(t, u) == /\ t.ki = u.ki
                          /\ t.kd = u.kd
                          /\ t.derivative_filter = u.derivative_filter

\* Mutant: the integral stays where it was.
MutantNoClamp(p, t) ==
  [p EXCEPT !.cached_dt = IF SameCoefficients(t, p.config) THEN @ ELSE 0,
            !.derivative = IF t.kd = 0 THEN 0 ELSE @,
            !.config = t]

PidRetune(p, t) ==
  [p EXCEPT !.cached_dt = IF SameCoefficients(t, p.config) THEN @ ELSE 0,
            !.derivative = IF t.kd = 0 THEN 0 ELSE @,
            !.integral = Clamp(@, IntegralLower(t), IntegralUpper(t)),
            !.config = t]

\* Mutant: the next step still derives from the old samples.
MutantKeepHistory(p, i) == [p EXCEPT !.integral = i, !.derivative = 0]

PidReset(p, i) ==
  [p EXCEPT !.integral = i, !.previous_error = 0, !.previous_measurement = 0,
            !.derivative = 0, !.history = FALSE]
----------------------------------------------------------------------------
(***************************************************************************)
(* One step, with the coefficients a = ki dt, g = kd / dt and              *)
(* w = dt / (Tf + dt) from the cache or computed anew.                     *)
(***************************************************************************)
Weighted(t) == "setpoint_weight" \in t.options

Proportional(t, sp, m) ==
  FcMul(t.kp, IF Weighted(t) THEN FcMul(t.setpoint_weight, sp) - m ELSE sp - m)

Integrates(t, e) ==
  "integral_separation" \in t.options => Magnitude(e) <= t.separation

Candidate(t, old, e, a) ==
  IF Integrates(t, e)
  THEN Clamp(old + FcMul(a, e), IntegralLower(t), IntegralUpper(t))
  ELSE old

Difference(p, e, m) ==
  IF p.config.derivative = "measurement" THEN p.previous_measurement - m
                                         ELSE e - p.previous_error

Derives(p) == p.history /\ p.config.kd # 0
Filters(t) == t.derivative_filter > 0

Derivative(p, e, m, g, w) ==
  IF ~Derives(p) THEN p.derivative
  ELSE LET raw == FcMul(g, Difference(p, e, m))
       IN  IF Filters(p.config) THEN p.derivative + FcMul(w, raw - p.derivative)
                                ELSE raw

\* Mutant: the integral is frozen where the command would saturate.
MutantFreeze(t, old, i, pd) ==
  IF (pd + i > t.upper /\ i > old) \/ (pd + i < t.lower /\ i < old) THEN old ELSE i

\* Mutant: the boundary is taken though it lies behind the old integral.
MutantBoundary(t, old, i, pd) ==
  IF pd + i > t.upper /\ i > old THEN t.upper - pd
  ELSE IF pd + i < t.lower /\ i < old THEN t.lower - pd
  ELSE i

\* I advances at most to the value that puts the command on the crossed bound.
AntiWindup(t, old, i, pd) ==
  IF pd + i > t.upper /\ i > old
  THEN IF t.upper - pd > old THEN t.upper - pd ELSE old
  ELSE IF pd + i < t.lower /\ i < old
       THEN IF t.lower - pd < old THEN t.lower - pd ELSE old
       ELSE i

\* What a step computes on the way; each must be representable.
Intermediates(p, sp, m, a, g, w) ==
  LET t == p.config
      e == sp - m
      d == Derivative(p, e, m, g, w)
      raw == FcMul(g, Difference(p, e, m))
      i == Candidate(t, p.integral, e, a)
      pd == Proportional(t, sp, m) + d
  IN  {sp, m, e, Proportional(t, sp, m), d, pd, pd + i}
      \cup (IF Weighted(t) THEN {FcMul(t.setpoint_weight, sp),
                                 FcMul(t.setpoint_weight, sp) - m} ELSE {})
      \cup (IF Integrates(t, e) THEN {FcMul(a, e), p.integral + FcMul(a, e)} ELSE {})
      \cup (IF Derives(p) THEN {Difference(p, e, m), raw} ELSE {})
      \cup (IF Derives(p) /\ Filters(t)
            THEN {raw - p.derivative, FcMul(w, raw - p.derivative)} ELSE {})
      \cup (IF pd + i > t.upper /\ i > p.integral THEN {t.upper - pd} ELSE {})
      \cup (IF pd + i < t.lower /\ i < p.integral THEN {t.lower - pd} ELSE {})

\* The coefficients of a period, and what computing them needs.
IntegralStep(t, dt) == FcMul(t.ki, dt)
DerivativeGain(t, dt) == FcDiv(t.kd, dt)
FilterWeight(t, dt) == FcDiv(dt, t.derivative_filter + dt)

Coefficients(t, dt) ==
  {dt, IntegralStep(t, dt)}
  \cup (IF t.kd # 0 THEN {DerivativeGain(t, dt)} ELSE {})
  \cup (IF Filters(t) THEN {t.derivative_filter + dt, FilterWeight(t, dt)} ELSE {})

\* The context with the coefficients of dt: from the cache when dt is the
\* period they were computed for.  Coefficients nobody asks for stay as they are.
Cached(p, dt) ==
  IF dt = p.cached_dt THEN p
  ELSE [p EXCEPT !.cached_dt = dt,
                 !.integral_step = IntegralStep(p.config, dt),
                 !.derivative_gain = IF p.config.kd # 0 THEN DerivativeGain(p.config, dt) ELSE @,
                 !.filter_weight = IF Filters(p.config) THEN FilterWeight(p.config, dt) ELSE @]

PidStepOk(p, sp, m, dt) ==
  LET c == Cached(p, dt)
  IN  /\ dt > 0
      /\ dt # p.cached_dt => Representable(Coefficients(p.config, dt))
      /\ Representable(Intermediates(p, sp, m, c.integral_step, c.derivative_gain,
                                     c.filter_weight))

\* The terms of a step, as they are reported.
Terms(p, sp, m, a, g, w) ==
  LET t == p.config
      e == sp - m
      prop == Proportional(t, sp, m)
      d == Derivative(p, e, m, g, w)
      i == Candidate(t, p.integral, e, a)
  IN  [proportional |-> prop,
       integral |-> AntiWindup(t, p.integral, i, prop + d),
       derivative |-> d,
       output |-> Clamp(prop + d + i, t.lower, t.upper),
       saturated |-> prop + d + i > t.upper \/ prop + d + i < t.lower]

PidTerms(p, sp, m, dt) ==
  LET c == Cached(p, dt)
  IN  Terms(p, sp, m, c.integral_step, c.derivative_gain, c.filter_weight)

PidStep(p, sp, m, dt) ==
  LET r == PidTerms(p, sp, m, dt)
  IN  [Cached(p, dt) EXCEPT !.integral = r.integral, !.derivative = r.derivative,
                            !.previous_error = sp - m, !.previous_measurement = m,
                            !.history = TRUE]
----------------------------------------------------------------------------
(***************************************************************************)
(* What holds of a context between two calls.                              *)
(***************************************************************************)
CacheCurrent(p) ==
  LET t == p.config
      dt == p.cached_dt
  IN  dt # 0 => /\ dt > 0
                /\ Representable(Coefficients(t, dt))
                /\ p.integral_step = IntegralStep(t, dt)
                /\ t.kd # 0 => p.derivative_gain = DerivativeGain(t, dt)
                /\ Filters(t) => p.filter_weight = FilterWeight(t, dt)

DerivativeCurrent(p) == p.config.kd = 0 \/ ~p.history => p.derivative = 0
=============================================================================
