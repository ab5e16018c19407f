------------------------------- MODULE DtcLoop ------------------------------
(***************************************************************************)
(* The torque controller in its loop.  In an interval the inverter applies *)
(* the last request, or nothing while its gates are inhibited; then the    *)
(* caller samples current and voltage and calls dtc_step.  A rejected step *)
(* issues no request, so the inverter stays as it is.                      *)
(***************************************************************************)
EXTENDS Dtc

VARIABLES
  ctx,       \* the context of the controller
  out,       \* result of the last step that succeeded
  inverter,  \* switch state of the inverter
  psi,       \* stator flux of the motor
  rotor,     \* direction of the rotor, in sixths of a turn
  reference, \* history: references of the last step that succeeded
  stepped,   \* history: a step has succeeded since dtc_init
  lost       \* history: intervals not integrated since dtc_init

vars == <<ctx, out, inverter, psi, rotor, reference, stepped, lost>>
motor == <<inverter, psi, rotor>>

Scale(n, p) == [a |-> n * p.a, b |-> n * p.b]

\* Voltage of a switch state: the sum of its legs.
Voltage(switch) == [a |-> Leg(switch, 4) - Leg(switch, 2), b |-> Leg(switch, 2) - Leg(switch, 1)]

Direction(k) == Voltage(<<4, 6, 2, 3, 1, 5>>[k + 1])

\* The current at a flux and a rotor direction, in whole units.
Current(p, k) == [a |-> (p.a - Magnet * Direction(k).a) \div Inductance,
                  b |-> (p.b - Magnet * Direction(k).b) \div Inductance]

NoConfig == [resistance |-> 0, flux_band |-> 0, torque_band |-> 0, pole_pairs |-> 0]
NoContext == [config |-> NoConfig, flux |-> Zero, flux_state |-> 0,
              torque_state |-> 0, last_switch |-> 0]
NoResult == [stator_flux |-> Zero, torque |-> 0, sector |-> 0,
             flux_state |-> 0, torque_state |-> 0, switch_state |-> 0]
NoReference == [flux |-> 0, torque |-> 0]

Init == /\ ctx = NoContext /\ out = NoResult
        /\ inverter = 0 /\ rotor \in 0 .. 5 /\ psi = Scale(Magnet, Direction(rotor))
        /\ reference = NoReference /\ stepped = FALSE /\ lost = 0

Initialized == ctx # NoContext

InitStatus(config, seed) ==
  IF \/ config.pole_pairs = 0 \/ config.resistance < 0
     \/ config.flux_band <= 0 \/ config.torque_band <= 0 THEN "argument"
  ELSE IF seed = Zero THEN "domain" ELSE "ok"

\* dtc_init, at the start and after an interval was lost.  It neither energizes
\* nor de-energizes the inverter; the caller drops the results it holds.
DtcInit(config, seed) ==
  /\ ~Initialized \/ lost > 0
  /\ IF InitStatus(config, seed) = "ok"
     THEN /\ ctx' = [config |-> config, flux |-> seed, flux_state |-> 1,
                     torque_state |-> 0, last_switch |-> 0]
          /\ stepped' = FALSE /\ lost' = 0
          /\ out' = NoResult /\ reference' = NoReference
     ELSE UNCHANGED <<ctx, out, reference, stepped, lost>>
  /\ UNCHANGED motor

\* Mutant: the integrator is stored before the result is checked.
MutantEarly(current, voltage, ref, dt) ==
  LET flux == Integrate(ctx.flux, ctx.config, current, voltage, dt)
      r == Result(ctx, current, flux, ref)
  IN  IF StepStatus(ctx, current, flux, ref, dt) = "ok"
      THEN /\ ctx' = Commit(ctx, r) /\ out' = r /\ inverter' = r.switch_state
           /\ reference' = ref /\ stepped' = TRUE /\ lost' = lost
      ELSE /\ lost' = IF dt > 0 THEN lost + 1 ELSE lost
           /\ ctx' = [ctx EXCEPT !.flux = flux]
           /\ UNCHANGED <<out, inverter, reference, stepped>>

\* Mutant: the voltage of the last request is integrated.
MutantRequested(current, voltage, ref, dt) ==
  LET flux == Integrate(ctx.flux, ctx.config, current, Scale(Volt, Voltage(ctx.last_switch)), dt)
      r == Result(ctx, current, flux, ref)
  IN  IF StepStatus(ctx, current, flux, ref, dt) = "ok"
      THEN /\ ctx' = Commit(ctx, r) /\ out' = r /\ inverter' = r.switch_state
           /\ reference' = ref /\ stepped' = TRUE /\ lost' = lost
      ELSE /\ lost' = IF dt > 0 THEN lost + 1 ELSE lost
           /\ UNCHANGED <<ctx, out, inverter, reference, stepped>>

\* dtc_step with the current and the voltage of the elapsed interval.
DtcStep(current, voltage, ref, dt) ==
  LET flux == Integrate(ctx.flux, ctx.config, current, voltage, dt)
      r == Result(ctx, current, flux, ref)
  IN  IF StepStatus(ctx, current, flux, ref, dt) = "ok"
      THEN /\ ctx' = Commit(ctx, r) /\ out' = r /\ inverter' = r.switch_state
           /\ reference' = ref /\ stepped' = TRUE /\ lost' = lost
      ELSE /\ lost' = IF dt > 0 THEN lost + 1 ELSE lost
           /\ UNCHANGED <<ctx, out, inverter, reference, stepped>>

\* The motor: its flux follows the voltage at the terminals, less the drop of the
\* winding.
Follow(p, current, voltage, dt) ==
  [a |-> p.a + dt * voltage.a - dt * Winding * current.a,
   b |-> p.b + dt * voltage.b - dt * Winding * current.b]

\* An interval and its step: the motor follows the voltage really applied.  A
\* caller that has lost MaxLost intervals has to seed its estimate again.
Sample(inhibited, ref, dt, turn) ==
  LET voltage == IF inhibited THEN Zero ELSE Scale(Volt, Voltage(inverter))
      current == Current(psi, rotor)
  IN  /\ Initialized /\ lost < MaxLost
      /\ DtcStep(current, voltage, ref, dt)
      /\ psi' = IF dt > 0 THEN Follow(psi, current, voltage, dt) ELSE psi
      /\ rotor' = IF dt > 0 THEN (rotor + turn) % 6 ELSE rotor

Next == \/ \E config \in Configs, seed \in {psi, Zero} : DtcInit(config, seed)
        \/ \E inhibited \in BOOLEAN, ref \in References, dt \in Intervals, turn \in Turns :
             Sample(inhibited, ref, dt, turn)

Spec == Init /\ [][Next]_vars
----------------------------------------------------------------------------
\* Type invariant.
TypeOK ==
  /\ ctx \in [config : Configs \union {NoConfig}, flux : Vector, flux_state : {-1, 0, 1},
              torque_state : {-1, 0, 1}, last_switch : 0 .. 7]
  /\ Initialized => /\ ctx.flux # Zero /\ ctx.flux_state # 0
                     /\ ctx.config.flux_band > 0 /\ ctx.config.torque_band > 0
  /\ out \in [stator_flux : Vector, torque : Int, sector : 0 .. 6, flux_state : {-1, 0, 1},
              torque_state : {-1, 0, 1}, switch_state : 0 .. 7]
  /\ inverter \in 0 .. 7 /\ psi \in Vector /\ rotor \in 0 .. 5
  /\ reference \in [flux : Int, torque : Int] /\ stepped \in BOOLEAN /\ lost \in Nat

\* An active request pushes the torque towards its reference, and the flux the
\* way its comparator says, wherever in its sector the flux is.
VectorObeys ==
  stepped /\ ctx.torque_state # 0 =>
    /\ ctx.torque_state * (reference.torque - out.torque) > 0
    /\ ctx.torque_state * Cross(ctx.flux, Voltage(ctx.last_switch)) > 0
    /\ ctx.flux_state * Dot2(ctx.flux, Voltage(ctx.last_switch)) >= 0

\* Context, result and inverter belong to one step, whatever was rejected since.
OneStep ==
  stepped => /\ ctx = Commit(ctx, out) /\ out.sector = Sector(ctx.flux)
             /\ inverter = ctx.last_switch
             /\ Magnitude2(ctx.flux) <= FluxMax * FluxMax

\* While no interval was lost the estimate is the flux of the motor: the observer
\* integrates what was applied, not what it asked for.  The motor has a law of
\* its own; it only has the resistance the controller was told.
ObserverTracks ==
  Initialized /\ lost = 0 /\ ctx.config.resistance = Winding => ctx.flux = psi

\* Legs in which two switch states differ, and sectors from one to another.
Legs(s, t) == Abs(Leg(s, 4) - Leg(t, 4)) + Abs(Leg(s, 2) - Leg(t, 2)) + Abs(Leg(s, 1) - Leg(t, 1))

Turned(k, l) == IF (k - l) % 6 <= (l - k) % 6 THEN (k - l) % 6 ELSE (l - k) % 6

\* The inverter switches no more than it must, whatever was rejected or inhibited
\* in between: a zero vector moves at most one leg of it, and while the comparators
\* hold, the flux drags one leg along per sector.
FewLegsMove ==
  [][stepped /\ stepped' =>
       /\ ctx'.torque_state = 0 => Legs(inverter, inverter') <= 1
       /\ ctx'.torque_state # 0 /\ UNCHANGED <<ctx.torque_state, ctx.flux_state>> =>
            Legs(inverter, inverter') = Turned(out.sector, out'.sector)]_vars
=============================================================================
