---------------------------- MODULE EzcPidProofs ----------------------------
(***************************************************************************)
(* Proofs about the PID controller, for every format, every set of         *)
(* arguments and every sequence of calls.                                  *)
(***************************************************************************)
EXTENDS EzcPid, TLAPS

(* Products of the working format are integers. *)
LEMMA MulInt == ASSUME NEW a \in Int, NEW b \in Int PROVE FcMul(a, b) \in Int
<1> DEFINE ab == a * b
<1>1. ab \in Int
  OBVIOUS
<1> HIDE DEF ab
<1>2. Magnitude(ab) \in Int /\ Magnitude(One) \in Nat \ {0}
  BY <1>1, RangeAssumption DEF Magnitude
<1> DEFINE n == 2 * Magnitude(ab) + Magnitude(One)
           d == 2 * Magnitude(One)
<1>3. n \in Int /\ d \in Nat \ {0}
  BY <1>2
<1> HIDE DEF n, d
<1>4. n \div d \in Int
  BY <1>3
<1>5. Nearest(ab, One) = n \div d
  BY DEF Nearest, n, d
<1> QED
  BY <1>4, <1>5 DEF FcMul, ab

(* So are quotients by anything but zero. *)
LEMMA DivInt == ASSUME NEW a \in Int, NEW b \in Int, b # 0 PROVE FcDiv(a, b) \in Int
<1> DEFINE ab == a * One
<1>1. ab \in Int
  BY RangeAssumption
<1> HIDE DEF ab
<1>2. Magnitude(ab) \in Int /\ Magnitude(b) \in Nat \ {0}
  BY <1>1 DEF Magnitude
<1> DEFINE n == 2 * Magnitude(ab) + Magnitude(b)
           d == 2 * Magnitude(b)
<1>3. n \in Int /\ d \in Nat \ {0}
  BY <1>2
<1> HIDE DEF n, d
<1>4. n \div d \in Int
  BY <1>3
<1>5. Nearest(ab, b) = n \div d
  BY DEF Nearest, n, d
<1> QED
  BY <1>4, <1>5 DEF FcDiv, ab

(* A magnitude to the nearest integer is not negative, and zero for zero.  *)
LEMMA NearestSign ==
  ASSUME NEW x \in Int
  PROVE  /\ Nearest(x, One) \in Int /\ Nearest(x, One) >= 0
         /\ x = 0 => Nearest(x, One) = 0
<1> DEFINE n == 2 * Magnitude(x) + Magnitude(One)
           d == 2 * Magnitude(One)
<1>1. /\ n \in Nat /\ d \in Nat \ {0}
      /\ x = 0 => n < d
  BY RangeAssumption DEF Magnitude
<1>2. Nearest(x, One) = n \div d
  BY DEF Nearest
<1> HIDE DEF n, d
<1>3. n \div d \in Int /\ n \div d >= 0 /\ (n < d => n \div d = 0)
  BY <1>1
<1> QED
  BY <1>1, <1>2, <1>3

(* A product has the sign of its factors, or rounds to zero.               *)
LEMMA MulSign ==
  ASSUME NEW a \in Int, NEW b \in Int
  PROVE  /\ (a >= 0 /\ b >= 0) \/ (a <= 0 /\ b <= 0) => FcMul(a, b) >= 0
         /\ (a >= 0 /\ b <= 0) \/ (a <= 0 /\ b >= 0) => FcMul(a, b) <= 0
<1> DEFINE ab == a * b
<1>1. ab \in Int /\ (a = 0 \/ b = 0 => ab = 0)
  OBVIOUS
<1> HIDE DEF ab
<1> DEFINE n == Nearest(ab, One)
<1>2. n \in Int /\ n >= 0 /\ (ab = 0 => n = 0)
  BY <1>1, NearestSign
<1>3. FcMul(a, b) = IF (a < 0) = (b < 0) THEN n ELSE -n
  BY DEF FcMul, ab
<1> HIDE DEF n
<1> QED
  BY <1>1, <1>2, <1>3

(* The integral's increment ki dt e points where ki e does.                *)
LEMMA IncrementSign ==
  ASSUME NEW ki \in Int, NEW e \in Int, NEW dt \in Int, dt > 0
  PROVE  /\ ki * e >= 0 => FcMul(FcMul(ki, dt), e) >= 0
         /\ ki * e <= 0 => FcMul(FcMul(ki, dt), e) <= 0
<1> DEFINE a == FcMul(ki, dt)
<1>1. a \in Int /\ (ki >= 0 => a >= 0) /\ (ki <= 0 => a <= 0)
  BY MulInt, MulSign
<1> HIDE DEF a
<1>2. /\ (a >= 0 /\ e >= 0) \/ (a <= 0 /\ e <= 0) => FcMul(a, e) >= 0
      /\ (a >= 0 /\ e <= 0) \/ (a <= 0 /\ e >= 0) => FcMul(a, e) <= 0
  BY <1>1, MulSign
<1>3. /\ ki * e >= 0 => (ki >= 0 /\ e >= 0) \/ (ki <= 0 /\ e <= 0)
      /\ ki * e <= 0 => (ki >= 0 /\ e <= 0) \/ (ki <= 0 /\ e >= 0)
  <2>1. CASE ki > 0 /\ e < 0
    <3>1. ki * e < 0
      BY <2>1
    <3> QED BY <2>1, <3>1
  <2>2. CASE ki < 0 /\ e > 0
    <3>1. ki * e < 0
      BY <2>2
    <3> QED BY <2>2, <3>1
  <2>3. CASE ki > 0 /\ e > 0
    <3>1. ki * e > 0
      BY <2>3
    <3> QED BY <2>3, <3>1
  <2>4. CASE ki < 0 /\ e < 0
    <3>1. ki * e > 0
      BY <2>4
    <3> QED BY <2>4, <3>1
  <2>5. CASE ki = 0 \/ e = 0
    BY <2>5
  <2> QED BY <2>1, <2>2, <2>3, <2>4, <2>5
<1> QED
  BY <1>1, <1>2, <1>3 DEF a

(* The bounds of the integral of an accepted tuning enclose something. *)
LEMMA BoundsOrdered ==
  ASSUME NEW t \in Tuning, PidCheck(t)
  PROVE  /\ IntegralLower(t) \in Int /\ IntegralUpper(t) \in Int
         /\ IntegralLower(t) <= IntegralUpper(t)
BY DEF PidCheck, IntegralLower, IntegralUpper, OwnLimit, Tuning

(* Clamping yields a value inside the bounds. *)
LEMMA ClampInside ==
  ASSUME NEW x \in Int, NEW lo \in Int, NEW hi \in Int, lo <= hi
  PROVE  Clamp(x, lo, hi) \in Int /\ lo <= Clamp(x, lo, hi) /\ Clamp(x, lo, hi) <= hi
BY DEF Clamp
----------------------------------------------------------------------------
(***************************************************************************)
(* A sound context, and the calls that keep it sound.                      *)
(***************************************************************************)
Sound(p) == /\ p \in Pid
            /\ PidCheck(p.config)
            /\ InBounds(p.config, p.integral)
            /\ CacheCurrent(p)
            /\ DerivativeCurrent(p)

(* pid_init yields a sound context from an integral in the bounds. *)
LEMMA InitSound ==
  ASSUME NEW t \in Tuning, NEW i \in Int, PidCheck(t), InBounds(t, i)
  PROVE  Sound(PidInit(t, i))
BY DEF Sound, PidInit, Pid, CacheCurrent, DerivativeCurrent

(* pid_retune keeps the context sound: cache, derivative and integral follow. *)
LEMMA RetuneSound ==
  ASSUME NEW p, NEW t \in Tuning, Sound(p), PidCheck(t)
  PROVE  Sound(PidRetune(p, t))
<1> DEFINE q == PidRetune(p, t)
<1>1. p \in Pid
  BY DEF Sound
<1>2. /\ IntegralLower(t) \in Int /\ IntegralUpper(t) \in Int
      /\ IntegralLower(t) <= IntegralUpper(t)
  BY BoundsOrdered
<1>3. /\ Clamp(p.integral, IntegralLower(t), IntegralUpper(t)) \in Int
      /\ IntegralLower(t) <= Clamp(p.integral, IntegralLower(t), IntegralUpper(t))
      /\ Clamp(p.integral, IntegralLower(t), IntegralUpper(t)) <= IntegralUpper(t)
  BY <1>1, <1>2, ClampInside DEF Pid
<1>4. q \in Pid /\ q.config = t
  <2> DEFINE k == IF SameCoefficients(t, p.config) THEN p.cached_dt ELSE 0
             d == IF t.kd = 0 THEN 0 ELSE p.derivative
             i == Clamp(p.integral, IntegralLower(t), IntegralUpper(t))
  <2>1. k \in Int /\ d \in Int /\ i \in Int
    BY <1>1, <1>3 DEF Pid
  <2>2. q = [p EXCEPT !.cached_dt = k, !.derivative = d, !.integral = i, !.config = t]
    BY DEF PidRetune
  <2> HIDE DEF k, d, i, q
  <2>3. q \in Pid
    BY <1>1, <2>1, <2>2 DEF Pid
  <2>4. q.config = t
    BY <1>1, <2>2 DEF Pid
  <2> QED
    BY <2>3, <2>4
<1>5. InBounds(q.config, q.integral)
  BY <1>1, <1>3, <1>4 DEF PidRetune, Pid, InBounds
<1>6. DerivativeCurrent(q)
  BY <1>1 DEF Sound, DerivativeCurrent, PidRetune, Pid
<1>7. CacheCurrent(q)
  <2>1. CASE SameCoefficients(t, p.config)
    <3>1. /\ q.cached_dt = p.cached_dt /\ q.integral_step = p.integral_step
          /\ q.derivative_gain = p.derivative_gain /\ q.filter_weight = p.filter_weight
      BY <1>1, <2>1 DEF PidRetune, Pid
    <3>2. /\ \A dt : Coefficients(t, dt) = Coefficients(p.config, dt)
          /\ \A dt : IntegralStep(t, dt) = IntegralStep(p.config, dt)
          /\ \A dt : DerivativeGain(t, dt) = DerivativeGain(p.config, dt)
          /\ \A dt : FilterWeight(t, dt) = FilterWeight(p.config, dt)
          /\ t.kd = p.config.kd
          /\ Filters(t) <=> Filters(p.config)
      BY <2>1 DEF SameCoefficients, Coefficients, IntegralStep, DerivativeGain,
                  FilterWeight, Filters
    <3>3. CacheCurrent(p)
      BY DEF Sound
    <3> HIDE DEF q
    <3> QED
      BY <1>4, <3>1, <3>2, <3>3 DEF CacheCurrent
  <2>2. CASE ~SameCoefficients(t, p.config)
    BY <1>1, <2>2 DEF CacheCurrent, PidRetune, Pid
  <2> QED
    BY <2>1, <2>2
<1> QED
  BY <1>4, <1>5, <1>6, <1>7 DEF Sound

(* pid_reset keeps the context sound. *)
LEMMA ResetSound ==
  ASSUME NEW p, NEW i \in Int, Sound(p), InBounds(p.config, i)
  PROVE  Sound(PidReset(p, i))
<1>1. p \in Pid
  BY DEF Sound
<1>2. /\ PidReset(p, i) \in Pid
      /\ PidReset(p, i).config = p.config
      /\ PidReset(p, i).integral = i
  <2>1. PidReset(p, i) \in Pid
    <3>1. 0 \in Int /\ FALSE \in BOOLEAN
      OBVIOUS
    <3> QED
      BY <1>1, <3>1, Zenon DEF PidReset, Pid
  <2>2. PidReset(p, i).config = p.config /\ PidReset(p, i).integral = i
    BY <1>1 DEF PidReset, Pid
  <2> QED
    BY <2>1, <2>2
<1>3. DerivativeCurrent(PidReset(p, i))
  BY <1>1 DEF DerivativeCurrent, PidReset, Pid
<1>4. CacheCurrent(PidReset(p, i))
  BY <1>1 DEF Sound, CacheCurrent, PidReset, Pid
<1> QED
  BY <1>2, <1>3, <1>4 DEF Sound

(* The coefficients of a positive period are integers. *)
LEMMA CoefficientsInt ==
  ASSUME NEW t \in Tuning, PidCheck(t), NEW dt \in Int, dt > 0
  PROVE  /\ IntegralStep(t, dt) \in Int
         /\ DerivativeGain(t, dt) \in Int
         /\ FilterWeight(t, dt) \in Int
<1>1. t.ki \in Int /\ t.kd \in Int /\ t.derivative_filter \in Int
  BY DEF Tuning
<1>2. t.derivative_filter + dt \in Int /\ t.derivative_filter + dt # 0
  BY <1>1 DEF PidCheck
<1>3. FcMul(t.ki, dt) \in Int
  BY <1>1, MulInt
<1>4. FcDiv(t.kd, dt) \in Int
  BY <1>1, DivInt
<1>5. FcDiv(dt, t.derivative_filter + dt) \in Int
  BY <1>2, DivInt
<1> QED
  BY <1>3, <1>4, <1>5 DEF IntegralStep, DerivativeGain, FilterWeight

(* Bringing the cache up to date changes nothing else. *)
LEMMA CachedSound ==
  ASSUME NEW p, Sound(p), NEW dt \in Int, dt > 0,
         dt # p.cached_dt => Representable(Coefficients(p.config, dt))
  PROVE  LET c == Cached(p, dt)
         IN  /\ c \in Pid
             /\ c.config = p.config /\ c.integral = p.integral
             /\ c.derivative = p.derivative /\ c.history = p.history
             /\ c.previous_error = p.previous_error
             /\ c.previous_measurement = p.previous_measurement
             /\ c.cached_dt = dt
             /\ CacheCurrent(c)
<1>1. p \in Pid /\ p.config \in Tuning /\ PidCheck(p.config)
  BY DEF Sound, Pid
<1>2. CASE dt = p.cached_dt
  BY <1>1, <1>2 DEF Sound, Cached
<1>3. CASE dt # p.cached_dt
  <2> DEFINE c == Cached(p, dt)
  <2>1. /\ IntegralStep(p.config, dt) \in Int
        /\ DerivativeGain(p.config, dt) \in Int
        /\ FilterWeight(p.config, dt) \in Int
    BY <1>1, CoefficientsInt
  <2>2. /\ c \in Pid
        /\ c.config = p.config /\ c.integral = p.integral
        /\ c.derivative = p.derivative /\ c.history = p.history
        /\ c.previous_error = p.previous_error
        /\ c.previous_measurement = p.previous_measurement
        /\ c.cached_dt = dt
    BY <1>1, <1>3, <2>1 DEF Cached, Pid
  <2>3. /\ c.integral_step = IntegralStep(p.config, dt)
        /\ p.config.kd # 0 => c.derivative_gain = DerivativeGain(p.config, dt)
        /\ Filters(p.config) => c.filter_weight = FilterWeight(p.config, dt)
    BY <1>1, <1>3, <2>1 DEF Cached, Pid
  <2> QED
    BY <1>3, <2>2, <2>3 DEF CacheCurrent
<1> QED
  BY <1>2, <1>3
----------------------------------------------------------------------------
(***************************************************************************)
(* One step.                                                               *)
(***************************************************************************)

(* What a step reports of a sound context, whatever the coefficients. *)
LEMMA TermsSound ==
  ASSUME NEW p, p.config \in Tuning, PidCheck(p.config), p.integral \in Int,
         InBounds(p.config, p.integral), p.derivative \in Int,
         p.previous_error \in Int, p.previous_measurement \in Int,
         NEW sp \in Int, NEW m \in Int, NEW a \in Int, NEW g \in Int, NEW w \in Int
  PROVE  LET r == Terms(p, sp, m, a, g, w)
         IN  /\ r.proportional \in Int /\ r.integral \in Int /\ r.derivative \in Int
             /\ r.output \in Int /\ r.saturated \in BOOLEAN
             /\ InBounds(p.config, r.integral)
             /\ r.derivative = Derivative(p, sp - m, m, g, w)
             /\ r.output = Clamp(r.proportional + r.integral + r.derivative,
                                 p.config.lower, p.config.upper)
             /\ r.integral > p.integral =>
                  r.proportional + r.derivative + r.integral <= p.config.upper
             /\ r.integral < p.integral =>
                  r.proportional + r.derivative + r.integral >= p.config.lower
             /\ FcMul(a, sp - m) >= 0 => r.integral >= p.integral
             /\ FcMul(a, sp - m) <= 0 => r.integral <= p.integral
<1> DEFINE t == p.config
           e == sp - m
           r == Terms(p, sp, m, a, g, w)
           prop == Proportional(t, sp, m)
           d == Derivative(p, e, m, g, w)
           i == Candidate(t, p.integral, e, a)
<1>1. t.kp \in Int /\ t.setpoint_weight \in Int /\ t.lower \in Int /\ t.upper \in Int
  BY DEF Tuning
<1>2. t.lower < t.upper
  BY DEF PidCheck
<1>3. e \in Int
  OBVIOUS
<1>4. prop \in Int
  <2>1. FcMul(t.setpoint_weight, sp) \in Int
    BY <1>1, MulInt
  <2>2. FcMul(t.setpoint_weight, sp) - m \in Int /\ sp - m \in Int
    BY <2>1
  <2> QED
    BY <1>1, <2>2, MulInt DEF Proportional
<1>5. d \in Int
  <2>1. Difference(p, e, m) \in Int
    BY <1>3 DEF Difference
  <2> DEFINE raw == FcMul(g, Difference(p, e, m))
  <2>2. raw \in Int
    BY <2>1, MulInt
  <2> HIDE DEF raw
  <2>3. raw - p.derivative \in Int
    BY <2>2
  <2>4. FcMul(w, raw - p.derivative) \in Int
    BY <2>3, MulInt
  <2>5. p.derivative + FcMul(w, raw - p.derivative) \in Int
    BY <2>4
  <2> QED
    BY <2>2, <2>5 DEF Derivative, raw
<1>6. /\ i \in Int /\ IntegralLower(t) <= i /\ i <= IntegralUpper(t)
      /\ FcMul(a, e) >= 0 => i >= p.integral
      /\ FcMul(a, e) <= 0 => i <= p.integral
  <2>1. /\ IntegralLower(t) \in Int /\ IntegralUpper(t) \in Int
        /\ IntegralLower(t) <= IntegralUpper(t)
    BY BoundsOrdered
  <2>2. FcMul(a, e) \in Int
    BY <1>3, MulInt
  <2>3. p.integral + FcMul(a, e) \in Int
    BY <2>2
  <2> QED
    BY <2>1, <2>2, <2>3, ClampInside DEF Candidate, InBounds, Clamp
<1>7. /\ r.proportional = prop /\ r.derivative = d
      /\ r.integral = AntiWindup(t, p.integral, i, prop + d)
      /\ r.output = Clamp(prop + d + i, t.lower, t.upper)
      /\ r.saturated = (prop + d + i > t.upper \/ prop + d + i < t.lower)
  BY DEF Terms
<1> HIDE DEF prop, d, i, e, r
<1>8. prop + d \in Int
  BY <1>4, <1>5
<1> DEFINE n == AntiWindup(t, p.integral, i, prop + d)
<1>9. /\ n \in Int
      /\ (p.integral <= n /\ n <= i) \/ (i <= n /\ n <= p.integral)
      /\ n > p.integral => (prop + d) + n <= t.upper
      /\ n < p.integral => (prop + d) + n >= t.lower
      /\ Clamp((prop + d) + n, t.lower, t.upper) = Clamp((prop + d) + i, t.lower, t.upper)
  <2> DEFINE pd == prop + d
  <2>1. pd \in Int /\ t \in Tuning
    BY <1>8
  <2> HIDE DEF pd, t
  <2>2. LET k == AntiWindup(t, p.integral, i, pd)
        IN  /\ k \in Int
            /\ (p.integral <= k /\ k <= i) \/ (i <= k /\ k <= p.integral)
            /\ k > p.integral => pd + k <= t.upper
            /\ k < p.integral => pd + k >= t.lower
            /\ Clamp(pd + k, t.lower, t.upper) = Clamp(pd + i, t.lower, t.upper)
    BY <1>1, <1>2, <1>6, <2>1 DEF AntiWindup, Clamp
  <2> QED
    BY <2>2 DEF pd
<1>10. r.integral = n
  BY <1>7
<1> HIDE DEF n
<1>11. IntegralLower(t) <= n /\ n <= IntegralUpper(t)
  BY <1>6, <1>9, BoundsOrdered DEF InBounds
<1>12. (prop + d) + n = prop + n + d
  BY <1>4, <1>5, <1>9
<1>13. Clamp((prop + d) + i, t.lower, t.upper) \in Int
  <2> DEFINE raw == (prop + d) + i
  <2>1. raw \in Int
    BY <1>6, <1>8
  <2> HIDE DEF raw
  <2>2. Clamp(raw, t.lower, t.upper) \in Int
    BY <1>1, <2>1 DEF Clamp
  <2> QED
    BY <2>2 DEF raw
<1>14. r.saturated \in BOOLEAN
  BY <1>7, Zenon
<1>15. r.derivative = Derivative(p, sp - m, m, g, w)
  BY <1>7 DEF d, e
<1> HIDE DEF t
<1>16. InBounds(t, r.integral)
  BY <1>10, <1>11 DEF InBounds
<1>17. /\ r.proportional \in Int /\ r.integral \in Int /\ r.derivative \in Int
       /\ r.output \in Int
  BY <1>4, <1>5, <1>7, <1>9, <1>10, <1>13
<1>18. /\ r.output = Clamp(r.proportional + r.integral + r.derivative, t.lower, t.upper)
       /\ r.integral > p.integral => r.proportional + r.derivative + r.integral <= t.upper
       /\ r.integral < p.integral => r.proportional + r.derivative + r.integral >= t.lower
  BY <1>7, <1>9, <1>10, <1>12
<1>19. /\ FcMul(a, sp - m) >= 0 => r.integral >= p.integral
       /\ FcMul(a, sp - m) <= 0 => r.integral <= p.integral
  <2>1. /\ FcMul(a, e) >= 0 => r.integral >= p.integral
        /\ FcMul(a, e) <= 0 => r.integral <= p.integral
    BY <1>6, <1>9, <1>10
  <2> QED
    BY <2>1 DEF e
<1> QED
  BY <1>14, <1>15, <1>16, <1>17, <1>18, <1>19 DEF r, t

(* pid_step keeps the context sound. *)
LEMMA StepSound ==
  ASSUME NEW p, Sound(p), NEW sp \in Int, NEW m \in Int, NEW dt \in Int,
         PidStepOk(p, sp, m, dt)
  PROVE  /\ Sound(PidStep(p, sp, m, dt))
         /\ PidStep(p, sp, m, dt).config = p.config
         /\ PidStep(p, sp, m, dt).integral = PidTerms(p, sp, m, dt).integral
         /\ PidStep(p, sp, m, dt).derivative = PidTerms(p, sp, m, dt).derivative
         /\ PidStep(p, sp, m, dt).previous_error = sp - m
         /\ PidStep(p, sp, m, dt).previous_measurement = m
<1> DEFINE c == Cached(p, dt)
           r == PidTerms(p, sp, m, dt)
           q == PidStep(p, sp, m, dt)
<1>1. p \in Pid /\ PidCheck(p.config) /\ InBounds(p.config, p.integral)
      /\ DerivativeCurrent(p)
  BY DEF Sound
<1>2. dt > 0 /\ (dt # p.cached_dt => Representable(Coefficients(p.config, dt)))
  BY DEF PidStepOk
<1>3. /\ c \in Pid
      /\ c.config = p.config /\ c.cached_dt = dt
      /\ CacheCurrent(c)
  BY <1>2, CachedSound
<1>4. c.integral_step \in Int /\ c.derivative_gain \in Int /\ c.filter_weight \in Int
  BY <1>3 DEF Pid
<1>5. /\ p.config \in Tuning /\ p.integral \in Int /\ p.derivative \in Int
      /\ p.previous_error \in Int /\ p.previous_measurement \in Int
  BY <1>1 DEF Pid
<1>6. /\ r.integral \in Int /\ r.derivative \in Int
      /\ InBounds(p.config, r.integral)
      /\ r.derivative = Derivative(p, sp - m, m, c.derivative_gain, c.filter_weight)
  <2> DEFINE u == Terms(p, sp, m, c.integral_step, c.derivative_gain, c.filter_weight)
  <2>1. /\ u.integral \in Int /\ u.derivative \in Int
        /\ InBounds(p.config, u.integral)
        /\ u.derivative = Derivative(p, sp - m, m, c.derivative_gain, c.filter_weight)
    <3> HIDE DEF c
    <3> QED
      BY <1>1, <1>4, <1>5, TermsSound
  <2>2. r = u
    BY DEF PidTerms
  <2> QED
    BY <2>1, <2>2
<1>7. sp - m \in Int
  OBVIOUS
<1>8. q = [c EXCEPT !.integral = r.integral, !.derivative = r.derivative,
                    !.previous_error = sp - m, !.previous_measurement = m, !.history = TRUE]
  BY DEF PidStep
<1> HIDE DEF c, r, q
<1>9. /\ q.config = p.config /\ q.integral = r.integral /\ q.derivative = r.derivative
      /\ q.previous_error = sp - m /\ q.previous_measurement = m
      /\ q.history = TRUE /\ q.cached_dt = c.cached_dt
      /\ q.integral_step = c.integral_step /\ q.derivative_gain = c.derivative_gain
      /\ q.filter_weight = c.filter_weight
  BY <1>3, <1>8 DEF Pid
<1>10. q \in Pid
  <2>1. r.integral \in Int /\ r.derivative \in Int /\ TRUE \in BOOLEAN
    BY <1>6
  <2> DEFINE e == sp - m
  <2>2. e \in Int
    BY <1>7
  <2>3. q = [c EXCEPT !.integral = r.integral, !.derivative = r.derivative,
                      !.previous_error = e, !.previous_measurement = m, !.history = TRUE]
    BY <1>8
  <2> HIDE DEF e
  <2> QED
    BY <1>3, <2>1, <2>2, <2>3, Zenon DEF Pid
<1>11. CacheCurrent(q)
  BY <1>3, <1>9 DEF CacheCurrent
<1>12. DerivativeCurrent(q)
  <2>1. q.config.kd = 0 => q.derivative = p.derivative
    BY <1>6, <1>9 DEF Derivative, Derives
  <2> QED
    BY <1>1, <1>9, <2>1 DEF DerivativeCurrent
<1> QED
  BY <1>1, <1>6, <1>9, <1>10, <1>11, <1>12 DEF Sound, q, r
----------------------------------------------------------------------------
(***************************************************************************)
(* The adapter.                                                            *)
(***************************************************************************)

(* A configuration describes a tuning. *)
LEMMA MapTuning == ASSUME NEW c \in Config PROVE Map(c) \in Tuning
<1>1. -Max \in Int /\ Max \in Int
  BY RangeAssumption
<1> DEFINE lo == IF c.limit_enabled THEN c.out_min ELSE -Max
           hi == IF c.limit_enabled THEN c.out_max ELSE Max
<1>2. lo \in Int /\ hi \in Int
  BY <1>1 DEF Config
<1>3. Map(c) = [kp |-> c.kp, ki |-> c.ki, kd |-> c.kd, lower |-> lo, upper |-> hi,
        options |-> c.options, derivative |-> c.deriv_source,
        derivative_filter |-> c.deriv_filter_t, setpoint_weight |-> c.weight_p,
        integral_lower |-> c.integral_min, integral_upper |-> c.integral_max,
        separation |-> c.integral_separation]
  BY DEF Map
<1> HIDE DEF lo, hi
<1> QED
  BY <1>2, <1>3 DEF Tuning, Config

(* The zeroed configuration is an accepted one. *)
LEMMA ZeroAccepted == ZeroConfig \in Config /\ PidCheck(Map(ZeroConfig))
                      /\ ZeroPid \in Pid /\ ~Built(ZeroPid)
<1>1. ZeroConfig \in Config
  BY DEF ZeroConfig, Config, Sources, Options
<1>2. PidCheck(Map(ZeroConfig))
  BY RangeAssumption DEF PidCheck, Map, ZeroConfig, Gains, Representable, OwnLimit,
                         Options, Sources
<1>3. ZeroPid \in Pid
  BY DEF ZeroPid, PidInit, ZeroTuning, Pid, Tuning, Sources, Options
<1>4. ~Built(ZeroPid)
  BY DEF ZeroPid, PidInit, ZeroTuning, Built
<1> QED
  BY <1>1, <1>2, <1>3, <1>4

(* The integral a controller is built with is inside its bounds. *)
LEMMA ZeroInBounds ==
  ASSUME NEW t \in Tuning, PidCheck(t)
  PROVE  ClampIntegral(t, 0) \in Int /\ InBounds(t, ClampIntegral(t, 0))
<1>1. /\ IntegralLower(t) \in Int /\ IntegralUpper(t) \in Int
      /\ IntegralLower(t) <= IntegralUpper(t)
  BY BoundsOrdered
<1> QED
  BY <1>1 DEF ClampIntegral, InBounds, Clamp

(* Building and retuning yield a built, sound controller of that tuning. *)
LEMMA RebuiltSound ==
  ASSUME NEW p, Built(p) => Sound(p), NEW t \in Tuning, PidCheck(t)
  PROVE  /\ Sound(Rebuilt(p, t)) /\ Rebuilt(p, t).config = t
         /\ Built(Rebuilt(p, t))
<1>1. CASE Built(p)
  <2>1. Sound(PidRetune(p, t))
    BY <1>1, RetuneSound
  <2>2. PidRetune(p, t).config = t
    BY <1>1 DEF Sound, PidRetune, Pid
  <2> QED
    BY <1>1, <2>1, <2>2 DEF Rebuilt, Built, PidCheck
<1>2. CASE ~Built(p)
  <2>1. Sound(PidInit(t, ClampIntegral(t, 0)))
    BY ZeroInBounds, InitSound
  <2>2. PidInit(t, ClampIntegral(t, 0)).config = t
    BY DEF PidInit
  <2> QED
    BY <1>2, <2>1, <2>2 DEF Rebuilt, Built, PidCheck
<1> QED
  BY <1>1, <1>2

(***************************************************************************)
(* The inductive invariant: a built controller is sound and runs the       *)
(* tuning of cfg, an unbuilt one is all zero.                              *)
(***************************************************************************)
Core == IF Built(pid) THEN Sound(pid) /\ pid.config = Map(cfg)
                      ELSE cfg = ZeroConfig /\ pid = ZeroPid

IInv == /\ cfg \in Config
        /\ callback \in BOOLEAN
        /\ output \in Int
        /\ report \in Reports \cup {NoReport}
        /\ Core

(* The invariant implies the properties of the model. *)
LEMMA InvImplies ==
  IInv => TypeOK /\ ConfigInEffect /\ IntegralInBounds /\ CacheFresh /\ NoStaleDerivative
<1> SUFFICES ASSUME IInv
             PROVE  TypeOK /\ ConfigInEffect /\ IntegralInBounds /\ CacheFresh
                    /\ NoStaleDerivative
  OBVIOUS
<1>1. CASE Built(pid)
  BY <1>1 DEF IInv, Core, TypeOK, ConfigInEffect, IntegralInBounds, CacheFresh,
              NoStaleDerivative, Sound
<1>2. CASE ~Built(pid)
  <2>1. cfg = ZeroConfig /\ pid = ZeroPid
    BY <1>2 DEF IInv, Core
  <2>2. CacheCurrent(ZeroPid) /\ DerivativeCurrent(ZeroPid)
    BY DEF CacheCurrent, DerivativeCurrent, ZeroPid, PidInit
  <2> QED
    BY <1>2, <2>1, <2>2, ZeroAccepted DEF IInv, TypeOK, ConfigInEffect, IntegralInBounds,
                                          CacheFresh, NoStaleDerivative
<1> QED
  BY <1>1, <1>2

(* A setter keeps the invariant: it commits all of next or nothing. *)
LEMMA ApplyStep ==
  ASSUME IInv, NEW n, PidCheck(Map(n)) => n \in Config, Apply(n)
  PROVE  IInv'
<1>1. CASE PidCheck(Map(n))
  <2>1. Map(n) \in Tuning
    BY <1>1, MapTuning
  <2>2. Built(pid) => Sound(pid)
    BY DEF IInv, Core
  <2>3. /\ Sound(Rebuilt(pid, Map(n))) /\ Rebuilt(pid, Map(n)).config = Map(n)
        /\ Built(Rebuilt(pid, Map(n)))
    BY <1>1, <2>1, <2>2, RebuiltSound
  <2>4. pid' = Rebuilt(pid, Map(n)) /\ cfg' = n
    BY <1>1 DEF Apply
  <2>5. Core'
    BY <2>3, <2>4 DEF Core
  <2> QED
    BY <1>1, <2>4, <2>5 DEF IInv, Apply
<1>2. CASE ~PidCheck(Map(n))
  BY <1>2 DEF IInv, Apply, Core
<1> QED
  BY <1>1, <1>2

(* The controller a step finds is built, sound and the one of cfg; building *)
(* it now has changed nothing that was there.                              *)
LEMMA ReadySound ==
  ASSUME IInv
  PROVE  /\ Built(Ready) /\ Sound(Ready) /\ Ready.config = Map(cfg)
         /\ Ready.integral = pid.integral /\ Ready.derivative = pid.derivative
         /\ Ready.history = pid.history /\ Ready.previous_error = pid.previous_error
         /\ Ready.previous_measurement = pid.previous_measurement
<1>1. CASE Built(pid)
  BY <1>1 DEF IInv, Core, Ready
<1>2. CASE ~Built(pid)
  <2>1. cfg = ZeroConfig /\ pid = ZeroPid /\ Map(cfg) \in Tuning
    BY <1>2, ZeroAccepted, MapTuning DEF IInv, Core
  <2>2. Ready = Rebuilt(pid, Map(cfg))
    BY <1>2, <2>1, ZeroAccepted DEF Ready
  <2>3. Built(Ready) /\ Sound(Ready) /\ Ready.config = Map(cfg)
    BY <1>2, <2>1, <2>2, ZeroAccepted, RebuiltSound
  <2>4. ClampIntegral(Map(ZeroConfig), 0) = 0
    BY RangeAssumption DEF ClampIntegral, Clamp, IntegralLower, IntegralUpper, OwnLimit,
                           Map, ZeroConfig
  <2>5. Ready = PidInit(Map(cfg), 0)
    BY <1>2, <2>1, <2>2, <2>4 DEF Rebuilt
  <2> QED
    BY <2>1, <2>3, <2>5 DEF PidInit, ZeroPid
<1> QED
  BY <1>1, <1>2

(* What WindupStops says of one step. *)
WindupStep ==
  report'.told =>
    LET drive == pid'.config.ki * (report'.setpoint - report'.measure)
        command == report'.p_term + report'.d_term + pid'.integral
    IN  /\ drive >= 0 => pid'.integral >= pid.integral
        /\ drive <= 0 => pid'.integral <= pid.integral
        /\ pid'.integral > pid.integral => command <= pid'.config.upper
        /\ pid'.integral < pid.integral => command >= pid'.config.lower

(* A successful update keeps the invariant, reports terms that add up and  *)
(* does not wind up.                                                       *)
LEMMA UpdateStep ==
  ASSUME IInv, NEW sp \in Int, NEW m \in Int, NEW dt \in Int, Update(sp, m, dt)
  PROVE  IInv' /\ ReportAddsUp' /\ WindupStep
<1> DEFINE p == Ready
           r == PidTerms(p, sp, m, dt)
           c == Cached(p, dt)
<1>1. /\ Built(p) /\ Sound(p) /\ p.config = Map(cfg)
      /\ p.integral = pid.integral
  BY ReadySound
<1>2. PidStepOk(p, sp, m, dt)
  BY DEF Update
<1>3. /\ pid' = PidStep(p, sp, m, dt) /\ output' = r.output
      /\ report' = IF callback THEN Report(sp, m, r) ELSE NoReport
      /\ cfg' = cfg /\ callback' = callback
  BY DEF Update
<1> HIDE DEF p
<1>4. Sound(pid') /\ pid'.config = p.config /\ pid'.integral = r.integral
  <2>1. /\ Sound(PidStep(p, sp, m, dt))
        /\ PidStep(p, sp, m, dt).config = p.config
        /\ PidStep(p, sp, m, dt).integral = PidTerms(p, sp, m, dt).integral
    BY <1>1, <1>2, StepSound
  <2> QED
    BY <1>3, <2>1
<1>5. /\ r.proportional \in Int /\ r.integral \in Int /\ r.derivative \in Int
      /\ r.output \in Int /\ r.saturated \in BOOLEAN
      /\ r.output = Clamp(r.proportional + r.integral + r.derivative,
                          p.config.lower, p.config.upper)
      /\ r.integral > p.integral =>
           r.proportional + r.derivative + r.integral <= p.config.upper
      /\ r.integral < p.integral =>
           r.proportional + r.derivative + r.integral >= p.config.lower
      /\ p.config.ki * (sp - m) >= 0 => r.integral >= p.integral
      /\ p.config.ki * (sp - m) <= 0 => r.integral <= p.integral
  <2>1. dt > 0 /\ (dt # p.cached_dt => Representable(Coefficients(p.config, dt)))
    BY <1>2 DEF PidStepOk
  <2>2. c \in Pid /\ c.config = p.config /\ c.cached_dt = dt /\ CacheCurrent(c)
    BY <1>1, <2>1, CachedSound
  <2>3. c.integral_step \in Int /\ c.derivative_gain \in Int /\ c.filter_weight \in Int
    BY <2>2 DEF Pid
  <2>4. /\ p.config \in Tuning /\ PidCheck(p.config) /\ p.integral \in Int
        /\ InBounds(p.config, p.integral) /\ p.derivative \in Int
        /\ p.previous_error \in Int /\ p.previous_measurement \in Int
    BY <1>1 DEF Sound, Pid
  <2>5. r = Terms(p, sp, m, c.integral_step, c.derivative_gain, c.filter_weight)
    BY DEF PidTerms
  <2> HIDE DEF c, r
  <2>6. c.integral_step = FcMul(p.config.ki, dt)
    BY <2>1, <2>2 DEF CacheCurrent, IntegralStep
  <2> DEFINE e == sp - m
             ki == p.config.ki
  <2>7. e \in Int /\ ki \in Int
    BY <2>4 DEF Tuning
  <2>8. /\ ki * e >= 0 => FcMul(c.integral_step, e) >= 0
        /\ ki * e <= 0 => FcMul(c.integral_step, e) <= 0
    <3> HIDE DEF e, ki
    <3>1. /\ ki * e >= 0 => FcMul(FcMul(ki, dt), e) >= 0
          /\ ki * e <= 0 => FcMul(FcMul(ki, dt), e) <= 0
      BY <2>1, <2>7, IncrementSign
    <3> QED
      BY <2>6, <3>1 DEF ki
  <2>9. /\ r.proportional \in Int /\ r.integral \in Int /\ r.derivative \in Int
        /\ r.output \in Int /\ r.saturated \in BOOLEAN
        /\ r.output = Clamp(r.proportional + r.integral + r.derivative,
                            p.config.lower, p.config.upper)
        /\ r.integral > p.integral =>
             r.proportional + r.derivative + r.integral <= p.config.upper
        /\ r.integral < p.integral =>
             r.proportional + r.derivative + r.integral >= p.config.lower
        /\ FcMul(c.integral_step, e) >= 0 => r.integral >= p.integral
        /\ FcMul(c.integral_step, e) <= 0 => r.integral <= p.integral
    BY <2>3, <2>4, <2>5, TermsSound
  <2> HIDE DEF e, ki
  <2>10. /\ ki * e >= 0 => r.integral >= p.integral
         /\ ki * e <= 0 => r.integral <= p.integral
    BY <2>8, <2>9
  <2> QED
    BY <2>9, <2>10 DEF e, ki
<1> HIDE DEF r
<1>6. Built(pid')
  BY <1>1, <1>4 DEF Built
<1>7. Core'
  BY <1>1, <1>3, <1>4, <1>6 DEF Core
<1>8. report' \in Reports \cup {NoReport}
  <2>1. Report(sp, m, r) \in Reports
    BY <1>5, Zenon DEF Report, Reports
  <2> QED
    BY <1>3, <2>1
<1>9. IInv'
  BY <1>3, <1>5, <1>7, <1>8 DEF IInv
<1>10. CASE callback
  <2>1. report' = Report(sp, m, r)
    BY <1>3, <1>10
  <2>2. /\ report'.p_term = r.proportional /\ report'.d_term = r.derivative
        /\ report'.i_term = r.integral /\ report'.output = r.output
        /\ report'.setpoint = sp /\ report'.measure = m
    BY <2>1 DEF Report
  <2>3. ReportAddsUp'
    BY <1>3, <1>4, <1>5, <2>2 DEF ReportAddsUp
  <2>4. WindupStep
    BY <1>1, <1>4, <1>5, <2>2 DEF WindupStep
  <2> QED
    BY <1>9, <2>3, <2>4
<1>11. CASE ~callback
  <2>1. report'.told = FALSE
    BY <1>3, <1>11 DEF NoReport
  <2> QED
    BY <1>9, <2>1 DEF ReportAddsUp, WindupStep
<1>12. callback \in BOOLEAN
  BY DEF IInv
<1> QED
  BY <1>10, <1>11
----------------------------------------------------------------------------
(* The arguments of the setters are accepted only as part of a Config. *)
LEMMA SetterConfigs ==
  ASSUME cfg \in Config
  PROVE  /\ \A g \in GainSets :
              [cfg EXCEPT !.kp = g[1], !.ki = g[2], !.kd = g[3]] \in Config
         /\ \A r \in Limits :
              [cfg EXCEPT !.limit_enabled = TRUE, !.out_min = r[1], !.out_max = r[2]] \in Config
         /\ [cfg EXCEPT !.limit_enabled = FALSE] \in Config
         /\ \A x \in FilterTimes : [cfg EXCEPT !.deriv_filter_t = x] \in Config
         /\ \A r \in IntegralLimits :
              [cfg EXCEPT !.integral_min = r[1], !.integral_max = r[2],
                          !.options = @ \cup {"integral_limit"}] \in Config
         /\ \A o : [cfg EXCEPT !.options = @ \ {o}] \in Config
         /\ \A x \in Separations :
              [cfg EXCEPT !.integral_separation = x,
                          !.options = @ \cup {"integral_separation"}] \in Config
         /\ \A x \in Weights :
              [cfg EXCEPT !.weight_p = x,
                          !.options = @ \cup {"setpoint_weight"}] \in Config
<1>1. /\ \A g \in GainSets : g[1] \in Int /\ g[2] \in Int /\ g[3] \in Int
      /\ \A r \in Limits \cup IntegralLimits : r[1] \in Int /\ r[2] \in Int
      /\ FilterTimes \subseteq Int /\ Separations \subseteq Int /\ Weights \subseteq Int
  BY ArgumentAssumption
<1>2. /\ \A o : cfg.options \ {o} \in SUBSET Options
      /\ \A o \in Options : cfg.options \cup {o} \in SUBSET Options
  BY DEF Config
<1>3. "integral_limit" \in Options /\ "integral_separation" \in Options
      /\ "setpoint_weight" \in Options
  BY DEF Options
<1>4. TRUE \in BOOLEAN /\ FALSE \in BOOLEAN
  OBVIOUS
<1>5. \A g \in GainSets : [cfg EXCEPT !.kp = g[1], !.ki = g[2], !.kd = g[3]] \in Config
  BY <1>1, Zenon DEF Config
<1>6. \A r \in Limits :
        [cfg EXCEPT !.limit_enabled = TRUE, !.out_min = r[1], !.out_max = r[2]] \in Config
  BY <1>1, <1>4, Zenon DEF Config
<1>7. [cfg EXCEPT !.limit_enabled = FALSE] \in Config
  BY <1>4, Zenon DEF Config
<1>8. \A x \in FilterTimes : [cfg EXCEPT !.deriv_filter_t = x] \in Config
  BY <1>1, Zenon DEF Config
<1>9. \A r \in IntegralLimits :
        [cfg EXCEPT !.integral_min = r[1], !.integral_max = r[2],
                    !.options = @ \cup {"integral_limit"}] \in Config
  BY <1>1, <1>2, <1>3, Zenon DEF Config
<1>10. \A o : [cfg EXCEPT !.options = @ \ {o}] \in Config
  BY <1>2, Zenon DEF Config
<1>11. \A x \in Separations :
         [cfg EXCEPT !.integral_separation = x,
                     !.options = @ \cup {"integral_separation"}] \in Config
  BY <1>1, <1>2, <1>3, Zenon DEF Config
<1>12. \A x \in Weights :
         [cfg EXCEPT !.weight_p = x, !.options = @ \cup {"setpoint_weight"}] \in Config
  BY <1>1, <1>2, <1>3, Zenon DEF Config
<1> QED
  BY <1>5, <1>6, <1>7, <1>8, <1>9, <1>10, <1>11, <1>12

(* Initially the context is zeroed. *)
LEMMA InitInv == Init => IInv /\ ReportAddsUp
<1> SUFFICES ASSUME Init PROVE IInv /\ ReportAddsUp
  OBVIOUS
<1>1. Core
  BY ZeroAccepted DEF Init, Core
<1>2. report.told = FALSE /\ report \in Reports \cup {NoReport}
  BY DEF Init, NoReport
<1>3. cfg \in Config
  BY ZeroAccepted DEF Init
<1>4. callback \in BOOLEAN
  BY Zenon DEF Init
<1>5. output \in Int
  BY DEF Init
<1> QED
  BY <1>1, <1>2, <1>3, <1>4, <1>5 DEF IInv, ReportAddsUp

(* Every call keeps the invariant, tells only terms that add up and does   *)
(* not wind up.                                                            *)
LEMMA StepInv == IInv /\ ReportAddsUp /\ [Next]_vars => IInv' /\ ReportAddsUp' /\ (WindupStep \/ UNCHANGED vars)
<1> SUFFICES ASSUME IInv, ReportAddsUp, [Next]_vars
             PROVE  IInv' /\ ReportAddsUp' /\ (WindupStep \/ UNCHANGED vars)
  OBVIOUS
<1> DEFINE Quiet == report' = NoReport
<1>q. Quiet => ReportAddsUp' /\ WindupStep
  BY DEF NoReport, ReportAddsUp, WindupStep
<1>c. cfg \in Config
  BY DEF IInv
<1>a. \A n : (PidCheck(Map(n)) => n \in Config) /\ Apply(n) => IInv' /\ Quiet
  <2> TAKE n
  <2> HAVE (PidCheck(Map(n)) => n \in Config) /\ Apply(n)
  <2>1. IInv'
    BY ApplyStep
  <2> QED
    BY <2>1 DEF Apply
<1> HIDE DEF Quiet
<1>1. ASSUME NEW c \in Configs, NEW cb \in BOOLEAN, EzcInit(c, cb)
      PROVE  IInv' /\ Quiet
  <2>1. output' = 0 /\ report' = NoReport
    BY <1>1 DEF EzcInit
  <2>2. CASE PidCheck(Map(c))
    <3>1. c \in Config
      <4>1. c.options \subseteq Options /\ c.deriv_source \in Sources
        BY <2>2 DEF PidCheck, Map
      <4> QED
        BY <1>1, <4>1, ArgumentAssumption, Zenon DEF Config
    <3>2. Map(c) \in Tuning
      BY <3>1, MapTuning
    <3>3. /\ Sound(Rebuilt(ZeroPid, Map(c))) /\ Rebuilt(ZeroPid, Map(c)).config = Map(c)
          /\ Built(Rebuilt(ZeroPid, Map(c)))
      BY <2>2, <3>2, ZeroAccepted, RebuiltSound
    <3>4. pid' = Rebuilt(ZeroPid, Map(c)) /\ cfg' = c /\ callback' = cb
      BY <1>1, <2>2 DEF EzcInit
    <3>5. Core'
      BY <3>3, <3>4 DEF Core
    <3> QED
      BY <2>1, <3>1, <3>4, <3>5 DEF IInv, Quiet
  <2>3. CASE ~PidCheck(Map(c))
    <3>1. pid' = ZeroPid /\ cfg' = ZeroConfig /\ callback' = FALSE
      BY <1>1, <2>3 DEF EzcInit
    <3>2. Core'
      BY <3>1, ZeroAccepted DEF Core
    <3>3. cfg' \in Config /\ callback' \in BOOLEAN
      BY <3>1, ZeroAccepted
    <3> QED
      BY <2>1, <3>2, <3>3 DEF IInv, Quiet
  <2> QED
    BY <2>2, <2>3
<1>2. ASSUME NEW g \in GainSets, SetGains(g) PROVE IInv' /\ Quiet
  BY <1>2, <1>a, <1>c, SetterConfigs DEF SetGains
<1>3. ASSUME NEW r \in Limits, SetLimit(r) PROVE IInv' /\ Quiet
  BY <1>3, <1>a, <1>c, SetterConfigs DEF SetLimit
<1>4. ASSUME NEW r \in IntegralLimits, SetIntegralLimit(r) PROVE IInv' /\ Quiet
  BY <1>4, <1>a, <1>c, SetterConfigs DEF SetIntegralLimit
<1>5. ASSUME ClearLimit PROVE IInv' /\ Quiet
  BY <1>5, <1>a, <1>c, SetterConfigs DEF ClearLimit
<1>6. ASSUME NEW cb \in BOOLEAN, SetCallback(cb) PROVE IInv' /\ Quiet
  BY <1>6 DEF SetCallback, IInv, Core, Quiet
<1>7. ASSUME NEW s \in SourceArgs, SetDerivativeSource(s) PROVE IInv' /\ Quiet
  <2> DEFINE n == [cfg EXCEPT !.deriv_source = s]
  <2>1. PidCheck(Map(n)) => n \in Config
    <3> SUFFICES ASSUME PidCheck(Map(n)) PROVE n \in Config
      OBVIOUS
    <3>1. n.deriv_source = s
      BY <1>c DEF Config
    <3>2. s \in Sources
      BY <3>1 DEF PidCheck, Map
    <3> QED
      BY <1>c, <3>2, Zenon DEF Config
  <2> QED
    BY <1>7, <1>a, <2>1 DEF SetDerivativeSource
<1>8. ASSUME NEW x \in FilterTimes, SetDerivativeFilter(x) PROVE IInv' /\ Quiet
  BY <1>8, <1>a, <1>c, SetterConfigs DEF SetDerivativeFilter
<1>9. ASSUME NEW x \in Separations, SetIntegralSeparation(x) PROVE IInv' /\ Quiet
  BY <1>9, <1>a, <1>c, SetterConfigs DEF SetIntegralSeparation
<1>10. ASSUME NEW x \in Weights, SetSetpointWeight(x) PROVE IInv' /\ Quiet
  BY <1>10, <1>a, <1>c, SetterConfigs DEF SetSetpointWeight
<1>11. ASSUME ClearIntegralLimit PROVE IInv' /\ Quiet
  BY <1>11, <1>a, <1>c, SetterConfigs DEF ClearIntegralLimit
<1>12. ASSUME ClearIntegralSeparation PROVE IInv' /\ Quiet
  BY <1>12, <1>a, <1>c, SetterConfigs DEF ClearIntegralSeparation
<1>13. ASSUME NEW i \in Presets, ResetTo(i) PROVE IInv' /\ Quiet
  <2>1. Quiet /\ cfg' = cfg /\ callback' = callback /\ output' = output
    BY <1>13 DEF ResetTo, Quiet
  <2>2. i \in Int
    BY ArgumentAssumption
  <2>3. CASE pid' = pid
    BY <2>1, <2>3 DEF IInv, Core, Quiet
  <2>4. CASE Built(pid) /\ InBounds(pid.config, i) /\ pid' = PidReset(pid, i)
    <3>1. Sound(pid) /\ pid.config = Map(cfg)
      BY <2>4 DEF IInv, Core
    <3>2. Sound(pid')
      BY <2>2, <2>4, <3>1, ResetSound
    <3>3. pid'.config = pid.config
      BY <2>4, <3>1 DEF Sound, PidReset, Pid
    <3>4. Core'
      BY <2>1, <2>4, <3>1, <3>2, <3>3 DEF Core, Built
    <3> QED
      BY <2>1, <3>4 DEF IInv, Quiet
  <2>5. CASE /\ ~Built(pid) /\ PidCheck(Map(cfg)) /\ InBounds(Map(cfg), i)
             /\ pid' = PidInit(Map(cfg), i)
    <3>1. Map(cfg) \in Tuning
      BY <1>c, MapTuning
    <3>2. Sound(pid')
      BY <2>2, <2>5, <3>1, InitSound
    <3>3. pid'.config = Map(cfg)
      BY <2>5 DEF PidInit
    <3>4. Core'
      BY <2>1, <2>5, <3>2, <3>3 DEF Core, Built, PidCheck
    <3> QED
      BY <2>1, <3>4 DEF IInv, Quiet
  <2> QED
    BY <1>13, <2>3, <2>4, <2>5 DEF ResetTo
<1>14. ASSUME Reset PROVE IInv' /\ Quiet
  <2>1. Quiet /\ cfg' = cfg /\ callback' = callback /\ output' = output
    BY <1>14 DEF Reset, Quiet
  <2>2. CASE ~Built(pid)
    BY <1>14, <2>1, <2>2 DEF Reset, IInv, Core, Quiet
  <2>3. CASE Built(pid)
    <3> DEFINE i == ClampIntegral(pid.config, 0)
    <3>1. Sound(pid) /\ pid.config = Map(cfg) /\ pid.config \in Tuning
          /\ PidCheck(pid.config)
      BY <2>3 DEF IInv, Core, Sound, Pid
    <3>2. i \in Int /\ InBounds(pid.config, i)
      BY <3>1, ZeroInBounds
    <3>3. pid' = PidReset(pid, i)
      BY <1>14, <2>3 DEF Reset
    <3> HIDE DEF i
    <3>4. Sound(pid')
      BY <3>1, <3>2, <3>3, ResetSound
    <3>5. pid'.config = pid.config
      BY <3>1, <3>3 DEF Sound, PidReset, Pid
    <3>6. Core'
      BY <2>1, <2>3, <3>1, <3>4, <3>5 DEF Core, Built
    <3> QED
      BY <2>1, <3>6 DEF IInv, Quiet
  <2> QED
    BY <2>2, <2>3
<1>15. ASSUME NEW sp \in Setpoints, NEW m \in Measurements, NEW dt \in Periods,
              UpdateRejected(sp, m, dt)
       PROVE  IInv' /\ Quiet
  <2>1. Built(Ready) /\ Sound(Ready) /\ Ready.config = Map(cfg)
    BY ReadySound
  <2>2. /\ pid' = Ready /\ Quiet
        /\ cfg' = cfg /\ callback' = callback /\ output' = output
    BY <1>15 DEF UpdateRejected, Quiet
  <2>3. Core'
    BY <2>1, <2>2 DEF Core
  <2> QED
    BY <2>2, <2>3 DEF IInv, Quiet
<1>16. ASSUME NEW sp \in Setpoints, NEW m \in Measurements, NEW dt \in Periods,
              Update(sp, m, dt)
       PROVE  IInv' /\ ReportAddsUp' /\ WindupStep
  <2>1. sp \in Int /\ m \in Int /\ dt \in Int
    BY ArgumentAssumption
  <2> QED
    BY <1>16, <2>1, UpdateStep
<1>17. CASE UNCHANGED vars
  BY <1>17 DEF vars, IInv, Core, ReportAddsUp
<1>18. CASE Next
  BY <1>18, <1>q, <1>1, <1>2, <1>3, <1>4, <1>5, <1>6, <1>7, <1>8, <1>9, <1>10, <1>11,
     <1>12, <1>13, <1>14, <1>15, <1>16 DEF Next
<1> QED
  BY <1>17, <1>18

(* The invariant holds throughout. *)
LEMMA Invariance == Spec => [](IInv /\ ReportAddsUp)
BY InitInv, StepInv, PTL DEF Spec

(* The context is well formed after every call, whatever the calls and     *)
(* their arguments: rejected tunings never reach it.                       *)
THEOREM TypeCorrect == Spec => []TypeOK
BY Invariance, InvImplies, PTL

(* cfg and the tuning of the controller always agree: _apply commits both  *)
(* or none.                                                                *)
THEOREM ConfigAlwaysInEffect == Spec => []ConfigInEffect
BY Invariance, InvImplies, PTL

(* The integral is inside the bounds in force after every call.            *)
THEOREM IntegralAlwaysInBounds == Spec => []IntegralInBounds
BY Invariance, InvImplies, PTL

(* No step ever uses a coefficient of an old tuning or period.             *)
THEOREM CacheAlwaysFresh == Spec => []CacheFresh
BY Invariance, InvImplies, PTL

(* No derivative term outlives its gain or its history.                    *)
THEOREM DerivativeNeverStale == Spec => []NoStaleDerivative
BY Invariance, InvImplies, PTL

(* The terms told to the callback always add up to the output.             *)
THEOREM ReportsAddUp == Spec => []ReportAddsUp
BY Invariance, PTL

(* No step moves the integral past the bound its command would cross, nor  *)
(* back past where it was, for every tuning and every format.              *)
THEOREM NeverWindsUp == Spec => WindupStops
<1>1. IInv /\ ReportAddsUp /\ [Next]_vars => [WindupStep]_vars
  BY StepInv
<1> QED
  BY <1>1, Invariance, PTL DEF Spec, WindupStops, WindupStep
----------------------------------------------------------------------------
(***************************************************************************)
(* The refinement.                                                         *)
(***************************************************************************)

(* The reported terms do not depend on where the coefficients come from.   *)
LEMMA TermsOfTheLoop ==
  ASSUME NEW p, NEW l, NEW sp, NEW m, NEW a, NEW g, NEW w, NEW h, NEW v,
         l.config = p.config, l.integral = p.integral, l.derivative = p.derivative,
         l.history = p.history, l.previous_error = p.previous_error,
         l.previous_measurement = p.previous_measurement,
         p.config.kd # 0 => g = h, Filters(p.config) => w = v
  PROVE  /\ Terms(l, sp, m, a, h, v) = Terms(p, sp, m, a, g, w)
         /\ Intermediates(l, sp, m, a, h, v) = Intermediates(p, sp, m, a, g, w)
<1>1. /\ Derives(l) = Derives(p)
      /\ \A e : Difference(l, e, m) = Difference(p, e, m)
  BY DEF Derives, Difference
<1>2. \A e : Derivative(l, e, m, h, v) = Derivative(p, e, m, g, w)
  BY <1>1 DEF Derivative, Derives
<1>3. Terms(l, sp, m, a, h, v) = Terms(p, sp, m, a, g, w)
  BY <1>2 DEF Terms
<1>4. Intermediates(l, sp, m, a, h, v) = Intermediates(p, sp, m, a, g, w)
  BY <1>1, <1>2 DEF Intermediates, Derives
<1> QED
  BY <1>3, <1>4

(* The operators of the loop are those of the controller. *)
LEMMA LoopOperators ==
  /\ \A S : Loop!Representable(S) = Representable(S)
  /\ \A x, lo, hi : Loop!Clamp(x, lo, hi) = Clamp(x, lo, hi)
  /\ \A t : /\ Loop!IntegralLower(t) = IntegralLower(t)
           /\ Loop!IntegralUpper(t) = IntegralUpper(t)
           /\ Loop!PidCheck(t) = PidCheck(t)
  /\ \A t, i : Loop!InBounds(t, i) = InBounds(t, i)
  /\ \A t, dt : /\ Loop!IntegralStep(t, dt) = IntegralStep(t, dt)
               /\ Loop!DerivativeGain(t, dt) = DerivativeGain(t, dt)
               /\ Loop!FilterWeight(t, dt) = FilterWeight(t, dt)
               /\ Loop!Coefficients(t, dt) = Coefficients(t, dt)
  /\ \A l, sp, m, a, g, w :
       /\ Loop!Terms(l, sp, m, a, g, w) = Terms(l, sp, m, a, g, w)
       /\ Loop!Intermediates(l, sp, m, a, g, w) = Intermediates(l, sp, m, a, g, w)
<1>1. \A S : Loop!Representable(S) = Representable(S)
  BY DEF Loop!Representable, Representable
<1>2. \A x, lo, hi : Loop!Clamp(x, lo, hi) = Clamp(x, lo, hi)
  BY DEF Loop!Clamp, Clamp
<1>3. \A a, b : Loop!FcMul(a, b) = FcMul(a, b) /\ Loop!FcDiv(a, b) = FcDiv(a, b)
  BY DEF Loop!FcMul, FcMul, Loop!FcDiv, FcDiv, Loop!Nearest, Nearest, Loop!Magnitude,
         Magnitude
<1>4. \A t : /\ Loop!OwnLimit(t) = OwnLimit(t)
            /\ Loop!IntegralLower(t) = IntegralLower(t)
            /\ Loop!IntegralUpper(t) = IntegralUpper(t)
  BY DEF Loop!IntegralLower, IntegralLower, Loop!IntegralUpper, IntegralUpper,
         Loop!OwnLimit, OwnLimit
<1>5. \A t, i : Loop!InBounds(t, i) = InBounds(t, i)
  BY <1>4 DEF Loop!InBounds, InBounds
<1>6. \A t : Loop!PidCheck(t) = PidCheck(t)
  BY <1>1, <1>4 DEF Loop!PidCheck, PidCheck, Loop!Gains, Gains, Loop!Options, Options,
                    Loop!Sources, Sources
<1>7. \A t : Loop!Filters(t) = Filters(t)
  BY DEF Loop!Filters, Filters
<1>8. \A t, dt : /\ Loop!IntegralStep(t, dt) = IntegralStep(t, dt)
                /\ Loop!DerivativeGain(t, dt) = DerivativeGain(t, dt)
                /\ Loop!FilterWeight(t, dt) = FilterWeight(t, dt)
  BY <1>3 DEF Loop!IntegralStep, IntegralStep, Loop!DerivativeGain, DerivativeGain,
              Loop!FilterWeight, FilterWeight
<1>9. \A t, dt : Loop!Coefficients(t, dt) = Coefficients(t, dt)
  BY <1>7, <1>8 DEF Loop!Coefficients, Coefficients
<1>10. \A t, sp, m : Loop!Proportional(t, sp, m) = Proportional(t, sp, m)
  BY <1>3 DEF Loop!Proportional, Proportional, Loop!Weighted, Weighted
<1>11. \A t, e : Loop!Integrates(t, e) = Integrates(t, e)
  BY DEF Loop!Integrates, Integrates, Loop!Magnitude, Magnitude
<1>12. \A t, old, e, a : Loop!Candidate(t, old, e, a) = Candidate(t, old, e, a)
  BY <1>2, <1>3, <1>4, <1>11 DEF Loop!Candidate, Candidate
<1>13. \A l, e, m : Loop!Difference(l, e, m) = Difference(l, e, m)
  BY DEF Loop!Difference, Difference
<1>14. \A l : Loop!Derives(l) = Derives(l)
  BY DEF Loop!Derives, Derives
<1>15. \A l, e, m, g, w : Loop!Derivative(l, e, m, g, w) = Derivative(l, e, m, g, w)
  BY <1>3, <1>7, <1>13, <1>14 DEF Loop!Derivative, Derivative
<1>16. \A t, old, i, pd : Loop!AntiWindup(t, old, i, pd) = AntiWindup(t, old, i, pd)
  BY DEF Loop!AntiWindup, AntiWindup
<1>17. \A l, sp, m, a, g, w : Loop!Terms(l, sp, m, a, g, w) = Terms(l, sp, m, a, g, w)
  BY <1>2, <1>10, <1>12, <1>15, <1>16 DEF Loop!Terms, Terms
<1>18. \A l, sp, m, a, g, w :
         Loop!Intermediates(l, sp, m, a, g, w) = Intermediates(l, sp, m, a, g, w)
  BY <1>3, <1>7, <1>10, <1>11, <1>12, <1>13, <1>14, <1>15
     DEF Loop!Intermediates, Intermediates, Loop!Weighted, Weighted
<1> QED
  BY <1>1, <1>2, <1>4, <1>5, <1>6, <1>8, <1>9, <1>17, <1>18

(* What the fields of the loop are. *)
LEMMA VisibleFields ==
  ASSUME NEW c, NEW p
  PROVE  /\ Visible(c, p).config = Map(c) /\ Visible(c, p).integral = p.integral
         /\ Visible(c, p).derivative = p.derivative /\ Visible(c, p).history = p.history
         /\ Visible(c, p).previous_error = p.previous_error
         /\ Visible(c, p).previous_measurement = p.previous_measurement
BY DEF Visible

(* A zeroed context is a loop at rest. *)
LEMMA InitRefines == Init => Loop!Init
<1> SUFFICES ASSUME Init PROVE Loop!Init
  OBVIOUS
<1>1. cfg = ZeroConfig /\ pid = ZeroPid /\ output = 0
  BY DEF Init
<1>2. Visible(cfg, pid) = Loop!Fresh(Map(ZeroConfig), 0)
  BY <1>1 DEF Visible, ZeroPid, PidInit, Loop!Fresh
<1>3. InBounds(Map(ZeroConfig), 0)
  BY RangeAssumption DEF InBounds, IntegralLower, IntegralUpper, OwnLimit, Map, ZeroConfig
<1>4. Visible(cfg, pid).config = Map(ZeroConfig) /\ Visible(cfg, pid).integral = 0
  BY <1>2 DEF Loop!Fresh
<1> QED
  BY <1>1, <1>2, <1>3, <1>4, ZeroAccepted, LoopOperators DEF Loop!Init

(* Building a controller or putting it to rest is a restart of the loop.   *)
LEMMA RestartRefines ==
  ASSUME NEW t, NEW i, PidCheck(t), InBounds(t, i), output' \in {0, output},
         Visible(cfg, pid)' = Loop!Fresh(t, i)
  PROVE  Loop!Next
<1>1. Visible(cfg, pid)'.config = t /\ Visible(cfg, pid)'.integral = i
  BY DEF Loop!Fresh
<1>2. Loop!Restart(t, i)
  BY LoopOperators DEF Loop!Restart
<1> QED
  BY <1>1, <1>2 DEF Loop!Next

(* A setter is a tuning of the loop, a restart of one never used, or       *)
(* nothing.                                                                *)
LEMMA ApplyRefines ==
  ASSUME IInv, NEW n, PidCheck(Map(n)) => n \in Config, Apply(n)
  PROVE  Loop!Next \/ UNCHANGED Loop!vars
<1>0. output' = output
  BY DEF Apply
<1>1. CASE ~PidCheck(Map(n))
  BY <1>0, <1>1 DEF Apply, Loop!vars, Visible
<1>2. CASE PidCheck(Map(n)) /\ Built(pid)
  <2> DEFINE t == Map(n)
  <2>1. pid \in Pid
    BY <1>2 DEF IInv, Core, Sound
  <2>2. cfg' = n /\ pid' = PidRetune(pid, t)
    BY <1>2 DEF Apply, Rebuilt
  <2>3. /\ pid'.integral = Clamp(pid.integral, IntegralLower(t), IntegralUpper(t))
        /\ pid'.derivative = (IF t.kd = 0 THEN 0 ELSE pid.derivative)
        /\ pid'.history = pid.history /\ pid'.previous_error = pid.previous_error
        /\ pid'.previous_measurement = pid.previous_measurement
    <3> HIDE DEF t
    <3> QED
      BY <2>1, <2>2 DEF PidRetune, Pid
  <2>4. Loop!Tune(t)
    BY <1>0, <1>2, <2>2, <2>3, LoopOperators DEF Loop!Tune, Visible
  <2>5. Visible(cfg, pid)'.config = t
    BY <2>2 DEF Visible
  <2> QED
    BY <2>4, <2>5 DEF Loop!Next
<1>3. CASE PidCheck(Map(n)) /\ ~Built(pid)
  <2> DEFINE i == ClampIntegral(Map(n), 0)
  <2>1. cfg' = n /\ pid' = PidInit(Map(n), i)
    BY <1>3 DEF Apply, Rebuilt
  <2>2. Visible(cfg, pid)' = Loop!Fresh(Map(n), i)
    BY <2>1 DEF Visible, PidInit, Loop!Fresh
  <2>3. InBounds(Map(n), i)
    BY <1>3, MapTuning, ZeroInBounds
  <2> QED
    BY <1>0, <1>3, <2>2, <2>3, RestartRefines
<1> QED
  BY <1>1, <1>2, <1>3

(* An update is a sample of the loop. *)
LEMMA UpdateRefines ==
  ASSUME IInv, NEW sp \in Setpoints, NEW m \in Measurements, NEW dt \in Periods,
         Update(sp, m, dt)
  PROVE  Loop!Next
<1> DEFINE p == Ready
           c == Cached(p, dt)
           t == Map(cfg)
           l == Visible(cfg, pid)
           a == IntegralStep(t, dt)
           h == DerivativeGain(t, dt)
           v == FilterWeight(t, dt)
<1>0. sp \in Int /\ m \in Int /\ dt \in Int
  BY ArgumentAssumption
<1>1. /\ Sound(p) /\ p.config = t
      /\ l.config = p.config /\ l.integral = p.integral /\ l.derivative = p.derivative
      /\ l.history = p.history /\ l.previous_error = p.previous_error
      /\ l.previous_measurement = p.previous_measurement
  BY ReadySound, VisibleFields
<1>2. /\ PidStepOk(p, sp, m, dt) /\ pid' = PidStep(p, sp, m, dt)
      /\ output' = PidTerms(p, sp, m, dt).output /\ cfg' = cfg
  BY DEF Update
<1> HIDE DEF p, l
<1>3. dt > 0 /\ (dt # p.cached_dt => Representable(Coefficients(p.config, dt)))
  BY <1>2 DEF PidStepOk
<1>4. c.config = p.config /\ c.cached_dt = dt /\ CacheCurrent(c)
  BY <1>0, <1>1, <1>3, CachedSound
<1>5. /\ Representable(Coefficients(t, dt))
      /\ c.integral_step = a
      /\ p.config.kd # 0 => c.derivative_gain = h
      /\ Filters(p.config) => c.filter_weight = v
  BY <1>0, <1>1, <1>3, <1>4 DEF CacheCurrent
<1>6. /\ Representable(Intermediates(p, sp, m, c.integral_step, c.derivative_gain,
                                     c.filter_weight))
      /\ PidTerms(p, sp, m, dt) =
           Terms(p, sp, m, c.integral_step, c.derivative_gain, c.filter_weight)
  BY <1>2 DEF PidStepOk, PidTerms
<1> HIDE DEF c
<1>7. /\ Terms(l, sp, m, a, h, v) = PidTerms(p, sp, m, dt)
      /\ Representable(Intermediates(l, sp, m, a, h, v))
  BY <1>1, <1>5, <1>6, TermsOfTheLoop
<1>8. /\ pid'.integral = PidTerms(p, sp, m, dt).integral
      /\ pid'.derivative = PidTerms(p, sp, m, dt).derivative
      /\ pid'.previous_error = sp - m /\ pid'.previous_measurement = m
  BY <1>0, <1>1, <1>2, StepSound
<1>9. pid'.history = TRUE
  <2>1. Cached(p, dt) \in Pid
    BY <1>0, <1>1, <1>3, CachedSound
  <2> QED
    BY <1>2, <2>1 DEF PidStep, Pid
<1>10. l' = [config |-> t, integral |-> Terms(l, sp, m, a, h, v).integral,
             previous_error |-> sp - m, previous_measurement |-> m,
             derivative |-> Terms(l, sp, m, a, h, v).derivative, history |-> TRUE]
  BY <1>2, <1>7, <1>8, <1>9 DEF l, Visible
<1>11. Loop!Sample(sp, m, dt)
  <2>1. l.config = t
    BY <1>1
  <2> QED
    BY <1>2, <1>3, <1>5, <1>7, <1>10, <2>1, LoopOperators DEF Loop!Sample, l
<1> QED
  BY <1>11 DEF Loop!Next

(* Every call is a step of the loop or invisible. *)
LEMMA StepRefines == IInv /\ [Next]_vars => [Loop!Next]_(Loop!vars)
<1> SUFFICES ASSUME IInv, [Next]_vars PROVE Loop!Next \/ UNCHANGED Loop!vars
  OBVIOUS
<1> DEFINE Goal == Loop!Next \/ UNCHANGED Loop!vars
<1>c. cfg \in Config
  BY DEF IInv
<1>a. \A n : (PidCheck(Map(n)) => n \in Config) /\ Apply(n) => Goal
  BY ApplyRefines
<1>u. cfg' = cfg /\ pid' = pid /\ output' = output => Goal
  BY DEF Loop!vars, Visible
<1> HIDE DEF Goal
<1>1. ASSUME NEW c \in Configs, NEW cb \in BOOLEAN, EzcInit(c, cb) PROVE Goal
  <2>1. output' = 0
    BY <1>1 DEF EzcInit
  <2>2. CASE PidCheck(Map(c))
    <3> DEFINE i == ClampIntegral(Map(c), 0)
    <3>1. c \in Config
      <4>1. c.options \subseteq Options /\ c.deriv_source \in Sources
        BY <2>2 DEF PidCheck, Map
      <4> QED
        BY <1>1, <4>1, ArgumentAssumption, Zenon DEF Config
    <3>2. InBounds(Map(c), i)
      BY <2>2, <3>1, MapTuning, ZeroInBounds
    <3>3. cfg' = c /\ pid' = PidInit(Map(c), i)
      BY <1>1, <2>2, ZeroAccepted DEF EzcInit, Rebuilt
    <3>4. Visible(cfg, pid)' = Loop!Fresh(Map(c), i)
      BY <3>3 DEF Visible, PidInit, Loop!Fresh
    <3> QED
      BY <2>1, <2>2, <3>2, <3>4, RestartRefines DEF Goal
  <2>3. CASE ~PidCheck(Map(c))
    <3>1. cfg' = ZeroConfig /\ pid' = ZeroPid
      BY <1>1, <2>3 DEF EzcInit
    <3>2. Visible(cfg, pid)' = Loop!Fresh(Map(ZeroConfig), 0)
      BY <3>1 DEF Visible, ZeroPid, PidInit, Loop!Fresh
    <3>3. InBounds(Map(ZeroConfig), 0)
      BY RangeAssumption DEF InBounds, IntegralLower, IntegralUpper, OwnLimit, Map,
                             ZeroConfig
    <3> QED
      BY <2>1, <3>2, <3>3, ZeroAccepted, RestartRefines DEF Goal
  <2> QED
    BY <2>2, <2>3
<1>2. ASSUME NEW g \in GainSets, SetGains(g) PROVE Goal
  BY <1>2, <1>a, <1>c, SetterConfigs DEF SetGains
<1>3. ASSUME NEW r \in Limits, SetLimit(r) PROVE Goal
  BY <1>3, <1>a, <1>c, SetterConfigs DEF SetLimit
<1>4. ASSUME NEW r \in IntegralLimits, SetIntegralLimit(r) PROVE Goal
  BY <1>4, <1>a, <1>c, SetterConfigs DEF SetIntegralLimit
<1>5. ASSUME ClearLimit PROVE Goal
  BY <1>5, <1>a, <1>c, SetterConfigs DEF ClearLimit
<1>6. ASSUME NEW cb \in BOOLEAN, SetCallback(cb) PROVE Goal
  BY <1>6, <1>u DEF SetCallback
<1>7. ASSUME NEW s \in SourceArgs, SetDerivativeSource(s) PROVE Goal
  <2> DEFINE n == [cfg EXCEPT !.deriv_source = s]
  <2>1. PidCheck(Map(n)) => n \in Config
    <3> SUFFICES ASSUME PidCheck(Map(n)) PROVE n \in Config
      OBVIOUS
    <3>1. n.deriv_source = s
      BY <1>c DEF Config
    <3>2. s \in Sources
      BY <3>1 DEF PidCheck, Map
    <3> QED
      BY <1>c, <3>2, Zenon DEF Config
  <2> QED
    BY <1>7, <1>a, <2>1 DEF SetDerivativeSource
<1>8. ASSUME NEW x \in FilterTimes, SetDerivativeFilter(x) PROVE Goal
  BY <1>8, <1>a, <1>c, SetterConfigs DEF SetDerivativeFilter
<1>9. ASSUME NEW x \in Separations, SetIntegralSeparation(x) PROVE Goal
  BY <1>9, <1>a, <1>c, SetterConfigs DEF SetIntegralSeparation
<1>10. ASSUME NEW x \in Weights, SetSetpointWeight(x) PROVE Goal
  BY <1>10, <1>a, <1>c, SetterConfigs DEF SetSetpointWeight
<1>11. ASSUME ClearIntegralLimit PROVE Goal
  BY <1>11, <1>a, <1>c, SetterConfigs DEF ClearIntegralLimit
<1>12. ASSUME ClearIntegralSeparation PROVE Goal
  BY <1>12, <1>a, <1>c, SetterConfigs DEF ClearIntegralSeparation
<1>r. ASSUME NEW i \in Int, Built(pid), InBounds(pid.config, i), pid' = PidReset(pid, i),
             cfg' = cfg, output' = output
      PROVE  Goal
  <2>1. pid \in Pid /\ PidCheck(Map(cfg)) /\ pid.config = Map(cfg)
    BY <1>r DEF IInv, Core, Sound
  <2>2. /\ pid'.integral = i /\ pid'.previous_error = 0 /\ pid'.previous_measurement = 0
        /\ pid'.derivative = 0 /\ pid'.history = FALSE
    BY <1>r, <2>1 DEF PidReset, Pid
  <2>3. Visible(cfg, pid)' = Loop!Fresh(Map(cfg), i)
    BY <1>r, <2>2 DEF Visible, Loop!Fresh
  <2> QED
    BY <1>r, <2>1, <2>3, RestartRefines DEF Goal
<1>13. ASSUME NEW i \in Presets, ResetTo(i) PROVE Goal
  <2>1. cfg' = cfg /\ output' = output /\ i \in Int
    BY <1>13, ArgumentAssumption DEF ResetTo
  <2>2. CASE pid' = pid
    BY <2>1, <2>2, <1>u
  <2>3. CASE Built(pid) /\ InBounds(pid.config, i) /\ pid' = PidReset(pid, i)
    BY <2>1, <2>3, <1>r
  <2>4. CASE /\ PidCheck(Map(cfg)) /\ InBounds(Map(cfg), i)
             /\ pid' = PidInit(Map(cfg), i)
    <3>1. Visible(cfg, pid)' = Loop!Fresh(Map(cfg), i)
      BY <2>1, <2>4 DEF Visible, PidInit, Loop!Fresh
    <3> QED
      BY <2>1, <2>4, <3>1, RestartRefines DEF Goal
  <2> QED
    BY <1>13, <2>2, <2>3, <2>4 DEF ResetTo
<1>14. ASSUME Reset PROVE Goal
  <2>1. cfg' = cfg /\ output' = output
    BY <1>14 DEF Reset
  <2>2. CASE ~Built(pid)
    BY <1>14, <2>1, <2>2, <1>u DEF Reset
  <2>3. CASE Built(pid)
    <3>1. pid.config \in Tuning /\ PidCheck(pid.config)
      BY <2>3 DEF IInv, Core, Sound, Pid
    <3>2. ClampIntegral(pid.config, 0) \in Int
          /\ InBounds(pid.config, ClampIntegral(pid.config, 0))
      BY <3>1, ZeroInBounds
    <3> QED
      BY <1>14, <2>1, <2>3, <3>2, <1>r DEF Reset
  <2> QED
    BY <2>2, <2>3
<1>15. ASSUME NEW sp \in Setpoints, NEW m \in Measurements, NEW dt \in Periods,
              UpdateRejected(sp, m, dt)
       PROVE  Goal
  <2>1. pid' = Ready /\ cfg' = cfg /\ output' = output
    BY <1>15 DEF UpdateRejected
  <2>2. Visible(cfg, pid)' = Visible(cfg, pid)
    BY <2>1, ReadySound DEF Visible
  <2> QED
    BY <2>1, <2>2 DEF Goal, Loop!vars
<1>16. ASSUME NEW sp \in Setpoints, NEW m \in Measurements, NEW dt \in Periods,
              Update(sp, m, dt)
       PROVE  Goal
  BY <1>16, UpdateRefines DEF Goal
<1>17. ASSUME UNCHANGED vars PROVE Goal
  BY <1>17, <1>u DEF vars
<1>18. ASSUME Next PROVE Goal
  BY <1>18, <1>1, <1>2, <1>3, <1>4, <1>5, <1>6, <1>7, <1>8, <1>9, <1>10, <1>11,
     <1>12, <1>13, <1>14, <1>15, <1>16 DEF Next
<1> QED
  BY <1>17, <1>18 DEF Goal

(* The controller implements the loop: caching, late building and rejected *)
(* calls are invisible.                                                    *)
THEOREM Refinement == Spec => ImplementsLoop
BY InitRefines, StepRefines, Invariance, PTL DEF Spec, ImplementsLoop, Loop!Spec
=============================================================================
