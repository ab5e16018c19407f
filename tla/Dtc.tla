-------------------------------- MODULE Dtc ---------------------------------
(***************************************************************************)
(* Direct torque control: the voltage-model flux observer, the two         *)
(* hysteresis comparators, the sector and the switching table, in a loop   *)
(* with an inverter and a surface permanent-magnet motor.                  *)
(*                                                                         *)
(* A vector is a pair of integers on the hexagonal lattice of the six      *)
(* inverter voltages: alpha = a + b/2 and beta = (sqrt 3 / 2) b.  On it    *)
(* sectors, squared magnitudes and cross products are exact.  Torque is in *)
(* units of (3/2)(sqrt 3 / 2).                                             *)
(***************************************************************************)
EXTENDS Integers

CONSTANTS Configs,    \* configurations dtc_init is called with
          References, \* flux and torque references of a step
          Intervals,  \* elapsed times dt
          FluxMax,    \* largest magnitude and torque the scalar type exports
          TorqueMax,
          Volt,       \* voltage of the inverter times a unit of time
          Magnet,     \* flux of the rotor
          Inductance,
          Winding,    \* resistance of the stator
          Turns,      \* sixths of a turn the rotor may make in an interval
          MaxLost     \* intervals lost before the estimate is seeded again

ASSUME DtcAssumption ==
  /\ Configs \subseteq [resistance : Int, flux_band : Int, torque_band : Int, pole_pairs : Nat]
  /\ References \subseteq [flux : Int, torque : Int]
  /\ Intervals \subseteq Int /\ Turns \subseteq 0 .. 5
  /\ FluxMax \in Nat /\ TorqueMax \in Nat
  /\ Volt \in Nat \ {0} /\ Magnet \in Nat \ {0} /\ Inductance \in Nat \ {0}
  /\ Winding \in Nat /\ MaxLost \in Nat

Vector == [a : Int, b : Int]
Zero == [a |-> 0, b |-> 0]

Magnitude2(p) == p.a * p.a + p.a * p.b + p.b * p.b
Cross(p, q) == p.a * q.b - p.b * q.a
Dot2(p, q) == 2 * p.a * q.a + p.a * q.b + p.b * q.a + 2 * p.b * q.b   \* twice the product

Abs(n) == IF n < 0 THEN -n ELSE n
----------------------------------------------------------------------------
(***************************************************************************)
(* The switching table.  A switch state is the bits of legs a, b and c.    *)
(***************************************************************************)
\* dtc_active_table: flux up, torque up, sector.
dtc_active_table(up, torque) ==
  IF up THEN IF torque THEN <<6, 2, 3, 1, 5, 4>> ELSE <<5, 4, 6, 2, 3, 1>>
        ELSE IF torque THEN <<2, 3, 1, 5, 4, 6>> ELSE <<1, 5, 4, 6, 2, 3>>

Leg(switch, n) == (switch \div n) % 2
Ones(switch) == Leg(switch, 4) + Leg(switch, 2) + Leg(switch, 1)

\* Mutant: always the zero vector of the lower switches.
MutantLower(previous) == 0

\* dtc_zero_state: the zero vector that is nearer to the previous request.
ZeroState(previous) == IF Ones(previous) >= 2 THEN 7 ELSE 0

\* Mutant: sectors from edge to edge instead of around the vectors.
MutantEdges(p) ==
  CASE p.b >= 0 /\ p.a > 0 -> 1
    [] p.a <= 0 /\ p.a + p.b > 0 -> 2
    [] p.b > 0 -> 3
    [] p.a < 0 -> 4
    [] p.a + p.b < 0 -> 5
    [] OTHER -> 6

\* dtc_sector, half-open around the six voltages.  The ratio |beta| / |alpha|
\* is above 1 / sqrt 3 exactly when 3 |b| is above |2a + b|.
Sector(p) ==
  LET x == 2 * p.a + p.b
      slope == 3 * Abs(p.b) - Abs(x)
  IN  CASE p.b = 0 -> IF x > 0 THEN 1 ELSE 4
        [] p.b # 0 /\ x = 0 -> IF p.b > 0 THEN 3 ELSE 6
        [] p.b > 0 /\ x > 0 -> IF slope < 0 THEN 1 ELSE 2
        [] p.b < 0 /\ x > 0 -> IF slope > 0 THEN 6 ELSE 1
        [] p.b > 0 /\ x < 0 -> IF slope > 0 THEN 3 ELSE 4
        [] p.b < 0 /\ x < 0 -> IF slope < 0 THEN 4 ELSE 5
----------------------------------------------------------------------------
(***************************************************************************)
(* dtc_step on a context.                                                  *)
(***************************************************************************)
Integrate(flux, config, current, voltage, dt) ==
  [a |-> flux.a + dt * (voltage.a - config.resistance * current.a),
   b |-> flux.b + dt * (voltage.b - config.resistance * current.b)]

Torque(config, flux, current) == config.pole_pairs * Cross(flux, current)

\* The two-level flux comparator; reference > flux_band.
FluxState(c, reference, flux) ==
  LET low == reference - c.config.flux_band
      high == reference + c.config.flux_band
  IN  IF Magnitude2(flux) <= low * low THEN 1
      ELSE IF Magnitude2(flux) >= high * high THEN -1
      ELSE c.flux_state

\* The three-level torque comparator: an active state lasts until the error
\* reaches zero.
TorqueState(c, error) ==
  IF error >= c.config.torque_band THEN 1
  ELSE IF error <= -c.config.torque_band THEN -1
  ELSE IF c.torque_state = 1 /\ error > 0 THEN 1
  ELSE IF c.torque_state = -1 /\ error < 0 THEN -1
  ELSE 0

Request(c, flux_state, torque_state, sector) ==
  IF torque_state = 0 THEN ZeroState(c.last_switch)
  ELSE dtc_active_table(flux_state > 0, torque_state > 0)[sector]

\* Status of a step that integrates to flux, its checks in order.
StepStatus(c, current, flux, reference, dt) ==
  IF reference.flux <= c.config.flux_band \/ dt <= 0 THEN "argument"
  ELSE IF flux = Zero THEN "domain"
  ELSE IF \/ Magnitude2(flux) > FluxMax * FluxMax
          \/ Abs(Torque(c.config, flux, current)) > TorqueMax THEN "range"
  ELSE "ok"

\* The result of a step that succeeds.
Result(c, current, flux, reference) ==
  LET torque == Torque(c.config, flux, current)
      fs == FluxState(c, reference.flux, flux)
      ts == TorqueState(c, reference.torque - torque)
  IN  [stator_flux |-> flux, torque |-> torque, sector |-> Sector(flux),
       flux_state |-> fs, torque_state |-> ts,
       switch_state |-> Request(c, fs, ts, Sector(flux))]

\* The context behind a result.
Commit(c, r) ==
  [config |-> c.config, flux |-> r.stator_flux, flux_state |-> r.flux_state,
   torque_state |-> r.torque_state, last_switch |-> r.switch_state]
=============================================================================
