------------------------------- MODULE EzcPid -------------------------------
(***************************************************************************)
(* The PID controller of ezctrl (libs/ezctrl/src/pid_impl.h): a context    *)
(* that works zero-initialized, setters that change one part of the        *)
(* configuration, and updates with an optional callback, on top of the     *)
(* controller of fieldctrl.  The adapter exists for float and double and   *)
(* adds no arithmetic; its scalars are the integers of FieldctrlPid here,  *)
(* which keep the order, the bound and the rejection of overflow.          *)
(***************************************************************************)
EXTENDS FieldctrlPid

CONSTANTS
  Configs,     \* configurations given to init
  GainSets,    \* <<kp, ki, kd>> given to set_gains
  Limits, IntegralLimits,  \* <<min, max>> given to set_limit, set_integral_limit
  FilterTimes, Separations, Weights, Presets,
               \* scalars given to the other setters and to reset_to
  SourceArgs,  \* derivative sources given to set_derivative_source
  Setpoints, Measurements, Periods  \* arguments of update

\* ezc_pid_cfg_t without the callback, which is no part of the tuning.
Config == [kp : Int, ki : Int, kd : Int, limit_enabled : BOOLEAN,
           out_min : Int, out_max : Int, options : SUBSET Options,
           deriv_source : Sources, deriv_filter_t : Int, weight_p : Int,
           integral_min : Int, integral_max : Int, integral_separation : Int]

ASSUME ArgumentAssumption ==
  /\ \A c \in Configs : c \in [kp : Int, ki : Int, kd : Int, limit_enabled : BOOLEAN,
           out_min : Int, out_max : Int, options : SUBSET STRING,
           deriv_source : STRING, deriv_filter_t : Int, weight_p : Int,
           integral_min : Int, integral_max : Int, integral_separation : Int]
  /\ \A g \in GainSets : g \in Int \X Int \X Int
  /\ \A r \in Limits \cup IntegralLimits : r \in Int \X Int
  /\ FilterTimes \cup Separations \cup Weights \cup Presets \subseteq Int
  /\ Setpoints \subseteq Int /\ Measurements \subseteq Int /\ Periods \subseteq Int

VARIABLES
  cfg,       \* the configuration in effect
  callback,  \* is a callback installed
  pid,       \* the fieldctrl controller; all zero until it is built
  output,    \* output of the last successful step
  report     \* what the last call told the callback

vars == <<cfg, callback, pid, output, report>>

NoReport == [told |-> FALSE]

ZeroConfig ==
  [kp |-> 0, ki |-> 0, kd |-> 0, limit_enabled |-> FALSE, out_min |-> 0, out_max |-> 0,
   options |-> {}, deriv_source |-> "error", deriv_filter_t |-> 0, weight_p |-> 0,
   integral_min |-> 0, integral_max |-> 0, integral_separation |-> 0]

ZeroTuning ==
  [kp |-> 0, ki |-> 0, kd |-> 0, lower |-> 0, upper |-> 0, options |-> {},
   derivative |-> "error", derivative_filter |-> 0, setpoint_weight |-> 0,
   integral_lower |-> 0, integral_upper |-> 0, separation |-> 0]

ZeroPid == PidInit(ZeroTuning, 0)

Map(c) ==
  [kp |-> c.kp, ki |-> c.ki, kd |-> c.kd,
   lower |-> IF c.limit_enabled THEN c.out_min ELSE -Max,
   upper |-> IF c.limit_enabled THEN c.out_max ELSE Max,
   options |-> c.options, derivative |-> c.deriv_source,
   derivative_filter |-> c.deriv_filter_t, setpoint_weight |-> c.weight_p,
   integral_lower |-> c.integral_min, integral_upper |-> c.integral_max,
   separation |-> c.integral_separation]

Built(p) == p.config.lower < p.config.upper

ClampIntegral(t, i) == Clamp(i, IntegralLower(t), IntegralUpper(t))

Init == /\ cfg = ZeroConfig
        /\ callback = FALSE
        /\ pid = ZeroPid
        /\ output = 0
        /\ report = NoReport
----------------------------------------------------------------------------
(***************************************************************************)
(* Configuration.  Each setter copies cfg, changes a part and applies it;  *)
(* a rejected change leaves the whole context as it was.                   *)
(***************************************************************************)
Rebuilt(p, t) == IF Built(p) THEN PidRetune(p, t)
                             ELSE PidInit(t, ClampIntegral(t, 0))

\* Mutant: cfg is committed although the tuning was rejected.
MutantCommitFirst(next) ==
  /\ pid' = IF PidCheck(Map(next)) THEN Rebuilt(pid, Map(next)) ELSE pid
  /\ cfg' = next
  /\ report' = NoReport
  /\ UNCHANGED <<callback, output>>

Apply(next) ==
  /\ IF PidCheck(Map(next))
     THEN pid' = Rebuilt(pid, Map(next)) /\ cfg' = next
     ELSE UNCHANGED <<pid, cfg>>
  /\ report' = NoReport
  /\ UNCHANGED <<callback, output>>

\* The context is zeroed first, so a rejected configuration disables it.
EzcInit(next, cb) ==
  /\ IF PidCheck(Map(next))
     THEN pid' = Rebuilt(ZeroPid, Map(next)) /\ cfg' = next /\ callback' = cb
     ELSE pid' = ZeroPid /\ cfg' = ZeroConfig /\ callback' = FALSE
  /\ output' = 0
  /\ report' = NoReport

SetGains(g) == Apply([cfg EXCEPT !.kp = g[1], !.ki = g[2], !.kd = g[3]])

SetLimit(r) == Apply([cfg EXCEPT !.limit_enabled = TRUE, !.out_min = r[1], !.out_max = r[2]])

ClearLimit == Apply([cfg EXCEPT !.limit_enabled = FALSE])

SetCallback(cb) == /\ callback' = cb
                   /\ report' = NoReport
                   /\ UNCHANGED <<cfg, pid, output>>

SetDerivativeSource(s) == Apply([cfg EXCEPT !.deriv_source = s])

SetDerivativeFilter(x) == Apply([cfg EXCEPT !.deriv_filter_t = x])

SetIntegralLimit(r) ==
  Apply([cfg EXCEPT !.integral_min = r[1], !.integral_max = r[2],
                    !.options = @ \cup {"integral_limit"}])

ClearIntegralLimit == Apply([cfg EXCEPT !.options = @ \ {"integral_limit"}])

SetIntegralSeparation(x) ==
  Apply([cfg EXCEPT !.integral_separation = x,
                    !.options = @ \cup {"integral_separation"}])

ClearIntegralSeparation == Apply([cfg EXCEPT !.options = @ \ {"integral_separation"}])

SetSetpointWeight(x) ==
  Apply([cfg EXCEPT !.weight_p = x, !.options = @ \cup {"setpoint_weight"}])

Reset ==
  /\ pid' = IF Built(pid) THEN PidReset(pid, ClampIntegral(pid.config, 0)) ELSE pid
  /\ report' = NoReport
  /\ UNCHANGED <<cfg, callback, output>>

\* An unbuilt controller is built with this integral.
ResetTo(i) ==
  LET t == IF Built(pid) THEN pid.config ELSE Map(cfg)
  IN  /\ pid' = IF ~Representable({i}) \/ ~InBounds(t, i) THEN pid
                ELSE IF Built(pid) THEN PidReset(pid, i)
                ELSE IF PidCheck(t) THEN PidInit(t, i) ELSE pid
      /\ report' = NoReport
      /\ UNCHANGED <<cfg, callback, output>>
----------------------------------------------------------------------------
(***************************************************************************)
(* try_update and update.  The controller of a zero-initialized context is *)
(* built first; the callback comes last.                                   *)
(***************************************************************************)
Ready == IF ~Built(pid) /\ PidCheck(Map(cfg)) THEN Rebuilt(pid, Map(cfg)) ELSE pid

Report(sp, m, r) == [told |-> TRUE, setpoint |-> sp, measure |-> m, output |-> r.output,
                     p_term |-> r.proportional, i_term |-> r.integral,
                     d_term |-> r.derivative, limited |-> r.saturated]

Update(sp, m, dt) ==
  /\ Built(Ready) /\ PidStepOk(Ready, sp, m, dt)
  /\ pid' = PidStep(Ready, sp, m, dt)
  /\ output' = PidTerms(Ready, sp, m, dt).output
  /\ report' = IF callback THEN Report(sp, m, PidTerms(Ready, sp, m, dt)) ELSE NoReport
  /\ UNCHANGED <<cfg, callback>>

\* The step is rejected; an unbuilt controller has been built all the same.
UpdateRejected(sp, m, dt) ==
  /\ ~(Built(Ready) /\ PidStepOk(Ready, sp, m, dt))
  /\ pid' = Ready
  /\ report' = NoReport
  /\ UNCHANGED <<cfg, callback, output>>

Next ==
  \/ \E c \in Configs, cb \in BOOLEAN : EzcInit(c, cb)
  \/ \E g \in GainSets : SetGains(g)
  \/ \E r \in Limits : SetLimit(r)
  \/ \E r \in IntegralLimits : SetIntegralLimit(r)
  \/ ClearLimit
  \/ \E cb \in BOOLEAN : SetCallback(cb)
  \/ \E s \in SourceArgs : SetDerivativeSource(s)
  \/ \E x \in FilterTimes : SetDerivativeFilter(x)
  \/ \E x \in Separations : SetIntegralSeparation(x)
  \/ \E x \in Weights : SetSetpointWeight(x)
  \/ \E x \in Presets : ResetTo(x)
  \/ ClearIntegralLimit
  \/ ClearIntegralSeparation
  \/ Reset
  \/ \E sp \in Setpoints, m \in Measurements, dt \in Periods :
       Update(sp, m, dt) \/ UpdateRejected(sp, m, dt)

Spec == Init /\ [][Next]_vars
----------------------------------------------------------------------------
Reports == [told : {TRUE}, setpoint : Int, measure : Int, output : Int, p_term : Int,
            i_term : Int, d_term : Int, limited : BOOLEAN]

\* Type invariant.
TypeOK == /\ cfg \in Config
          /\ callback \in BOOLEAN
          /\ pid \in Pid
          /\ output \in Int
          /\ report \in Reports \cup {NoReport}

\* A built controller runs the tuning that cfg describes, and that tuning is a
\* valid one; the controller of an unbuilt context is all zero and its cfg is
\* the disabled one (_apply commits cfg and pid together or not at all).
ConfigInEffect == IF Built(pid)
                  THEN pid.config = Map(cfg) /\ PidCheck(pid.config)
                  ELSE cfg = ZeroConfig /\ pid = ZeroPid

\* The integral is inside the bounds in force, whatever sequence of limit
\* changes, resets and steps led here (pid_retune clamps, pid_reset checks,
\* pid_step_work clamps and limits).
IntegralInBounds == Built(pid) => InBounds(pid.config, pid.integral)

\* Every cached coefficient that a step would use is the one of the tuning in
\* force and of the cached period (pid_retune drops the cache when it must).
CacheFresh == CacheCurrent(pid)

\* No derivative term survives a kd of zero, or precedes the first sample after
\* a start: the step only holds D(n-1) in these cases.
NoStaleDerivative == DerivativeCurrent(pid)

\* The terms told to the callback add up to the output told and returned, after
\* the anti-windup has replaced the integral the output was computed with.
ReportAddsUp ==
  report.told => /\ output = report.output
                 /\ report.i_term = pid.integral
                 /\ report.output = Clamp(report.p_term + report.i_term + report.d_term,
                                          pid.config.lower, pid.config.upper)

\* Anti-windup: a step moves the integral towards the error it has integrated
\* and never back past its previous value, however far beyond a bound the
\* command is; what it gains leaves the unclamped command on the near side of
\* the bound it moved towards (pid_step_work: boundary).
WindupStops ==
  [][report'.told =>
       LET drive == pid'.config.ki * (report'.setpoint - report'.measure)
           command == report'.p_term + report'.d_term + pid'.integral
       IN  /\ drive >= 0 => pid'.integral >= pid.integral
           /\ drive <= 0 => pid'.integral <= pid.integral
           /\ pid'.integral > pid.integral => command <= pid'.config.upper
           /\ pid'.integral < pid.integral => command >= pid'.config.lower]_vars
----------------------------------------------------------------------------
(***************************************************************************)
(* The controller implements the loop of PidLoop.                          *)
(***************************************************************************)
Visible(c, p) ==
  [config |-> Map(c), integral |-> p.integral, previous_error |-> p.previous_error,
   previous_measurement |-> p.previous_measurement, derivative |-> p.derivative,
   history |-> p.history]

Loop == INSTANCE PidLoop WITH loop <- Visible(cfg, pid)

\* Every call is a restart, a tuning or a sample of the loop, or has no effect
\* the loop can see: cached coefficients, the late building of a zeroed context
\* and rejected calls are invisible to the caller.
ImplementsLoop == Loop!Spec
=============================================================================
