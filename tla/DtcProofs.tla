------------------------------ MODULE DtcProofs -----------------------------
(***************************************************************************)
(* Proofs about the torque controller, for every lattice flux, motor,      *)
(* configuration, reference and interval.                                  *)
(***************************************************************************)
EXTENDS DtcLoop, TLAPS

\* The sectors as half-open cones.
LEMMA SectorFacts ==
  ASSUME NEW p \in Vector, p # Zero
  PROVE  /\ Sector(p) \in 1 .. 6
         /\ Sector(p) = 1 => p.b < p.a /\ p.a + 2 * p.b >= 0
         /\ Sector(p) = 2 => p.b >= p.a /\ 2 * p.a + p.b > 0
         /\ Sector(p) = 3 => 2 * p.a + p.b <= 0 /\ p.a + 2 * p.b > 0
         /\ Sector(p) = 4 => p.a + 2 * p.b <= 0 /\ p.b > p.a
         /\ Sector(p) = 5 => p.b <= p.a /\ 2 * p.a + p.b < 0
         /\ Sector(p) = 6 => 2 * p.a + p.b >= 0 /\ p.a + 2 * p.b < 0
<1>1. p.a \in Int /\ p.b \in Int /\ (p.a # 0 \/ p.b # 0)
  BY DEF Vector, Zero
<1>2. CASE p.b = 0
  BY <1>1, <1>2 DEF Sector
<1>3. CASE p.b # 0 /\ 2 * p.a + p.b = 0
  BY <1>1, <1>3 DEF Sector
<1>4. CASE p.b > 0 /\ 2 * p.a + p.b > 0
  BY <1>1, <1>4 DEF Sector, Abs
<1>5. CASE p.b < 0 /\ 2 * p.a + p.b > 0
  BY <1>1, <1>5 DEF Sector, Abs
<1>6. CASE p.b > 0 /\ 2 * p.a + p.b < 0
  BY <1>1, <1>6 DEF Sector, Abs
<1>7. CASE p.b < 0 /\ 2 * p.a + p.b < 0
  BY <1>1, <1>7 DEF Sector, Abs
<1> QED BY <1>1, <1>2, <1>3, <1>4, <1>5, <1>6, <1>7

LEMMA VoltageValues ==
  /\ Voltage(4) = [a |-> 1, b |-> 0] /\ Voltage(6) = [a |-> 0, b |-> 1]
  /\ Voltage(2) = [a |-> -1, b |-> 1] /\ Voltage(3) = [a |-> -1, b |-> 0]
  /\ Voltage(1) = [a |-> 0, b |-> -1] /\ Voltage(5) = [a |-> 1, b |-> -1]
BY DEF Voltage, Leg

\* Whatever the flux and the two directions, the table's vector goes both ways.
LEMMA TableObeys ==
  ASSUME NEW p \in Vector, p # Zero, NEW f \in {-1, 1}, NEW t \in {-1, 1}
  PROVE  LET switch == dtc_active_table(f > 0, t > 0)[Sector(p)] IN
         /\ switch \in 0 .. 7
         /\ t * Cross(p, Voltage(switch)) > 0
         /\ f * Dot2(p, Voltage(switch)) >= 0
<1> DEFINE switch == dtc_active_table(f > 0, t > 0)[Sector(p)]
<1>1. p.a \in Int /\ p.b \in Int
  BY DEF Vector
<1>2. CASE f = 1 /\ t = 1
  <2>1. switch = <<6, 2, 3, 1, 5, 4>>[Sector(p)]
    BY <1>2 DEF dtc_active_table
  <2> QED BY <1>1, <1>2, <2>1, SectorFacts, VoltageValues DEF Cross, Dot2
<1>3. CASE f = 1 /\ t = -1
  <2>1. switch = <<5, 4, 6, 2, 3, 1>>[Sector(p)]
    BY <1>3 DEF dtc_active_table
  <2> QED BY <1>1, <1>3, <2>1, SectorFacts, VoltageValues DEF Cross, Dot2
<1>4. CASE f = -1 /\ t = 1
  <2>1. switch = <<2, 3, 1, 5, 4, 6>>[Sector(p)]
    BY <1>4 DEF dtc_active_table
  <2> QED BY <1>1, <1>4, <2>1, SectorFacts, VoltageValues DEF Cross, Dot2
<1>5. CASE f = -1 /\ t = -1
  <2>1. switch = <<1, 5, 4, 6, 2, 3>>[Sector(p)]
    BY <1>5 DEF dtc_active_table
  <2> QED BY <1>1, <1>5, <2>1, SectorFacts, VoltageValues DEF Cross, Dot2
<1> QED BY <1>2, <1>3, <1>4, <1>5

\* A zero vector is at most one leg away from any request.
LEMMA ZeroNear ==
  ASSUME NEW previous \in 0 .. 7
  PROVE  ZeroState(previous) \in 0 .. 7 /\ Legs(previous, ZeroState(previous)) <= 1
<1>1. previous \in {0, 1, 2, 3, 4, 5, 6, 7}
  OBVIOUS
<1> QED BY <1>1 DEF ZeroState, Ones, Legs, Leg, Abs

LEMMA LegValues ==
  /\ Leg(1, 4) = 0 /\ Leg(1, 2) = 0 /\ Leg(1, 1) = 1
  /\ Leg(2, 4) = 0 /\ Leg(2, 2) = 1 /\ Leg(2, 1) = 0
  /\ Leg(3, 4) = 0 /\ Leg(3, 2) = 1 /\ Leg(3, 1) = 1
  /\ Leg(4, 4) = 1 /\ Leg(4, 2) = 0 /\ Leg(4, 1) = 0
  /\ Leg(5, 4) = 1 /\ Leg(5, 2) = 0 /\ Leg(5, 1) = 1
  /\ Leg(6, 4) = 1 /\ Leg(6, 2) = 1 /\ Leg(6, 1) = 0
BY DEF Leg

\* Along a row of the table one leg moves per sector.
LEMMA RowLegs ==
  ASSUME NEW f \in {-1, 1}, NEW t \in {-1, 1}, NEW k \in 1 .. 6, NEW l \in 1 .. 6
  PROVE  LET row == dtc_active_table(f > 0, t > 0) IN Legs(row[k], row[l]) = Turned(k, l)
<1> DEFINE row == dtc_active_table(f > 0, t > 0)
<1>1. k \in {1, 2, 3, 4, 5, 6} /\ l \in {1, 2, 3, 4, 5, 6}
  OBVIOUS
<1>2. CASE f = 1 /\ t = 1
  <2>1. row = <<6, 2, 3, 1, 5, 4>>
    BY <1>2 DEF dtc_active_table
  <2> QED BY <1>1, <2>1, LegValues DEF Legs, Abs, Turned
<1>3. CASE f = 1 /\ t = -1
  <2>1. row = <<5, 4, 6, 2, 3, 1>>
    BY <1>3 DEF dtc_active_table
  <2> QED BY <1>1, <2>1, LegValues DEF Legs, Abs, Turned
<1>4. CASE f = -1 /\ t = 1
  <2>1. row = <<2, 3, 1, 5, 4, 6>>
    BY <1>4 DEF dtc_active_table
  <2> QED BY <1>1, <2>1, LegValues DEF Legs, Abs, Turned
<1>5. CASE f = -1 /\ t = -1
  <2>1. row = <<1, 5, 4, 6, 2, 3>>
    BY <1>5 DEF dtc_active_table
  <2> QED BY <1>1, <2>1, LegValues DEF Legs, Abs, Turned
<1> QED BY <1>2, <1>3, <1>4, <1>5

LEMMA VectorTypes ==
  ASSUME NEW p \in Vector, NEW config \in Configs, NEW current \in Vector,
         NEW voltage \in Vector, NEW dt \in Int
  PROVE  /\ Integrate(p, config, current, voltage, dt) \in Vector
         /\ Torque(config, p, current) \in Int
         /\ Magnitude2(p) \in Int
<1>1. /\ p.a \in Int /\ p.b \in Int /\ current.a \in Int /\ current.b \in Int
      /\ voltage.a \in Int /\ voltage.b \in Int
      /\ config.resistance \in Int /\ config.pole_pairs \in Int
  BY DtcAssumption DEF Vector
<1> DEFINE x == p.a + dt * (voltage.a - config.resistance * current.a)
           y == p.b + dt * (voltage.b - config.resistance * current.b)
<1>2. x \in Int /\ y \in Int
  BY <1>1
<1>3. Integrate(p, config, current, voltage, dt) = [a |-> x, b |-> y]
  BY DEF Integrate
<1> HIDE DEF x, y
<1>4. Integrate(p, config, current, voltage, dt) \in Vector
  BY <1>2, <1>3 DEF Vector
<1>5. Torque(config, p, current) \in Int
  <2>1. Cross(p, current) \in Int
    BY <1>1 DEF Cross
  <2> QED BY <1>1, <2>1 DEF Torque
<1> QED BY <1>1, <1>4, <1>5 DEF Magnitude2

\* The two comparators.
LEMMA FluxFacts ==
  ASSUME NEW c, c.flux_state \in {-1, 1}, NEW ref, NEW p
  PROVE  FluxState(c, ref, p) \in {-1, 1}
BY DEF FluxState

LEMMA TorqueFacts ==
  ASSUME NEW c, c.config.torque_band \in Nat \ {0}, NEW error \in Int
  PROVE  /\ TorqueState(c, error) \in {-1, 0, 1}
         /\ TorqueState(c, error) # 0 => TorqueState(c, error) * error > 0
BY DEF TorqueState
----------------------------------------------------------------------------
(***************************************************************************)
(* One step of the controller.                                             *)
(***************************************************************************)
Contexts == [config : Configs \union {NoConfig}, flux : Vector, flux_state : {-1, 0, 1},
             torque_state : {-1, 0, 1}, last_switch : 0 .. 7]
Results == [stator_flux : Vector, torque : Int, sector : 0 .. 6, flux_state : {-1, 0, 1},
            torque_state : {-1, 0, 1}, switch_state : 0 .. 7]

LEMMA ContextFacts ==
  ASSUME TypeOK, Initialized
  PROVE  /\ ctx \in Contexts /\ ctx.config \in Configs /\ ctx.flux \in Vector
         /\ ctx.flux_state \in {-1, 1} /\ ctx.last_switch \in 0 .. 7
         /\ ctx.config.flux_band \in Nat \ {0} /\ ctx.config.torque_band \in Nat \ {0}
<1>1. ctx \in Contexts
  BY DEF TypeOK, Contexts
<1>2. /\ ctx.config \in Configs \union {NoConfig} /\ ctx.flux \in Vector
      /\ ctx.flux_state \in {-1, 0, 1} /\ ctx.last_switch \in 0 .. 7
  BY <1>1 DEF Contexts
<1>3. ctx.flux_state # 0 /\ ctx.config.flux_band > 0 /\ ctx.config.torque_band > 0
  BY DEF TypeOK
<1>4. ctx.config \in Configs
  BY <1>2, <1>3 DEF NoConfig
<1>5. ctx.config.flux_band \in Int /\ ctx.config.torque_band \in Int
  BY <1>4, DtcAssumption
<1> QED BY <1>1, <1>2, <1>3, <1>4, <1>5

LEMMA RequestFacts ==
  ASSUME TypeOK, Initialized, NEW flux \in Vector, flux # Zero,
         NEW fs \in {-1, 1}, NEW ts \in {-1, 0, 1}
  PROVE  LET switch == Request(ctx, fs, ts, Sector(flux)) IN
         /\ switch \in 0 .. 7
         /\ ts = 0 => Legs(ctx.last_switch, switch) <= 1
         /\ ts # 0 => /\ switch = dtc_active_table(fs > 0, ts > 0)[Sector(flux)]
                      /\ ts * Cross(flux, Voltage(switch)) > 0
                      /\ fs * Dot2(flux, Voltage(switch)) >= 0
<1>1. CASE ts = 0
  BY <1>1, ContextFacts, ZeroNear DEF Request
<1>2. CASE ts # 0
  <2>1. ts \in {-1, 1}
    BY <1>2
  <2>2. Request(ctx, fs, ts, Sector(flux)) = dtc_active_table(fs > 0, ts > 0)[Sector(flux)]
    BY <1>2 DEF Request
  <2> QED BY <1>2, <2>1, <2>2, TableObeys
<1> QED BY <1>1, <1>2

\* What an accepted step leaves behind.
Answers(c, r, ref) ==
  /\ r.sector \in 1 .. 6
  /\ r.torque_state = 0 => Legs(c.last_switch, r.switch_state) <= 1
  /\ r.torque_state # 0 =>
       /\ r.torque_state * (ref.torque - r.torque) > 0
       /\ r.switch_state = dtc_active_table(r.flux_state > 0, r.torque_state > 0)[r.sector]
       /\ r.torque_state * Cross(r.stator_flux, Voltage(r.switch_state)) > 0
       /\ r.flux_state * Dot2(r.stator_flux, Voltage(r.switch_state)) >= 0

LEMMA ResultFacts ==
  ASSUME TypeOK, Initialized, NEW current \in Vector, NEW flux \in Vector, flux # Zero,
         NEW ref \in References
  PROVE  LET r == Result(ctx, current, flux, ref) IN
         /\ r \in Results /\ r.stator_flux = flux /\ r.sector = Sector(flux)
         /\ r.flux_state \in {-1, 1}
         /\ Answers(ctx, r, ref)
<1> DEFINE torque == Torque(ctx.config, flux, current)
           error == ref.torque - torque
           fs == FluxState(ctx, ref.flux, flux)
           ts == TorqueState(ctx, error)
           sector == Sector(flux)
           switch == Request(ctx, fs, ts, sector)
           r == Result(ctx, current, flux, ref)
<1>1. torque \in Int
  <2>1. Zero \in Vector /\ 0 \in Int
    BY DEF Zero, Vector
  <2> QED BY <2>1, ContextFacts, VectorTypes
<1>2. ref.torque \in Int
  BY DtcAssumption
<1>3. error \in Int
  BY <1>1, <1>2
<1>4. fs \in {-1, 1}
  BY ContextFacts, FluxFacts
<1>5. ts \in {-1, 0, 1} /\ (ts # 0 => ts * error > 0)
  BY <1>3, ContextFacts, TorqueFacts
<1>6. sector \in 1 .. 6
  BY SectorFacts
<1>7. r = [stator_flux |-> flux, torque |-> torque, sector |-> sector,
           flux_state |-> fs, torque_state |-> ts, switch_state |-> switch]
  BY DEF Result
<1> HIDE DEF fs, ts
<1>8. /\ switch \in 0 .. 7
      /\ ts = 0 => Legs(ctx.last_switch, switch) <= 1
      /\ ts # 0 => /\ switch = dtc_active_table(fs > 0, ts > 0)[sector]
                   /\ ts * Cross(flux, Voltage(switch)) > 0
                   /\ fs * Dot2(flux, Voltage(switch)) >= 0
  BY <1>4, <1>5, RequestFacts
<1> HIDE DEF torque, error, sector, switch, r
<1>9. r \in Results
  <2>1. fs \in {-1, 0, 1} /\ sector \in 0 .. 6
    BY <1>4, <1>6
  <2> QED BY <1>1, <1>5, <1>7, <1>8, <2>1, Zenon DEF Results
<1>10. /\ r.stator_flux = flux /\ r.torque = torque /\ r.sector = sector
       /\ r.flux_state = fs /\ r.torque_state = ts /\ r.switch_state = switch
  BY <1>7
<1>11. Answers(ctx, r, ref)
  BY <1>5, <1>6, <1>8, <1>10 DEF Answers, error
<1> QED BY <1>4, <1>9, <1>10, <1>11 DEF r, sector
----------------------------------------------------------------------------
(***************************************************************************)
(* The loop.                                                               *)
(***************************************************************************)
\* The inverter is where the row of its comparators puts it.
FromTable ==
  stepped => /\ out.sector \in 1 .. 6 /\ ctx.flux_state \in {-1, 1}
             /\ ctx.torque_state # 0 =>
                  inverter = dtc_active_table(ctx.flux_state > 0, ctx.torque_state > 0)[out.sector]

IInv == TypeOK /\ VectorObeys /\ OneStep /\ ObserverTracks /\ FromTable

\* The motor and the observer agree when they have one resistance.
LEMMA FollowFacts ==
  ASSUME NEW p \in Vector, NEW config \in Configs, NEW current \in Vector,
         NEW voltage \in Vector, NEW dt \in Int
  PROVE  /\ Follow(p, current, voltage, dt) \in Vector
         /\ config.resistance = Winding =>
              Follow(p, current, voltage, dt) = Integrate(p, config, current, voltage, dt)
<1>1. /\ p.a \in Int /\ p.b \in Int /\ current.a \in Int /\ current.b \in Int
      /\ voltage.a \in Int /\ voltage.b \in Int /\ Winding \in Int
  BY DtcAssumption DEF Vector
<1>2. /\ p.a + dt * voltage.a - dt * Winding * current.a \in Int
      /\ p.b + dt * voltage.b - dt * Winding * current.b \in Int
  BY <1>1
<1>3. ASSUME NEW x \in Int, NEW v \in Int, NEW c \in Int
      PROVE  x + dt * v - dt * Winding * c = x + dt * (v - Winding * c)
  BY <1>1, <1>3
<1> QED BY <1>1, <1>2, <1>3 DEF Follow, Integrate, Vector

LEMMA MotorTypes ==
  ASSUME NEW k \in 0 .. 5, NEW p \in Vector, NEW switch \in 0 .. 7
  PROVE  /\ Scale(Magnet, Direction(k)) \in Vector /\ Current(p, k) \in Vector
         /\ Scale(Volt, Voltage(switch)) \in Vector /\ Zero \in Vector
         /\ Scale(Magnet, Direction(k)) # Zero
<1> USE DtcAssumption
<1>1. Direction(k) \in {Voltage(4), Voltage(6), Voltage(2), Voltage(3), Voltage(1), Voltage(5)}
  BY DEF Direction
<1>2. Direction(k) \in Vector /\ Direction(k).a \in {-1, 0, 1} /\ Direction(k).b \in {-1, 0, 1}
      /\ Direction(k) # Zero
  BY <1>1, VoltageValues DEF Vector, Zero
<1>3. Voltage(switch) \in Vector
  BY DEF Voltage, Leg, Vector
<1>4. Current(p, k) \in Vector
  <2>1. p.a - Magnet * Direction(k).a \in Int /\ p.b - Magnet * Direction(k).b \in Int
    BY <1>2 DEF Vector
  <2>2. /\ (p.a - Magnet * Direction(k).a) \div Inductance \in Int
        /\ (p.b - Magnet * Direction(k).b) \div Inductance \in Int
    BY <2>1
  <2> QED BY <2>2 DEF Current, Vector
<1>5. Scale(Magnet, Direction(k)) \in Vector /\ Scale(Volt, Voltage(switch)) \in Vector
  BY <1>2, <1>3 DEF Scale, Vector
<1>6. Scale(Magnet, Direction(k)) # Zero
  BY <1>1, VoltageValues DEF Scale, Zero
<1> QED BY <1>4, <1>5, <1>6 DEF Zero, Vector

LEMMA InitInv == Init => IInv
<1> SUFFICES ASSUME Init PROVE IInv
  OBVIOUS
<1>1. /\ ctx = NoContext /\ out = NoResult /\ inverter = 0 /\ rotor \in 0 .. 5
      /\ psi = Scale(Magnet, Direction(rotor)) /\ reference = NoReference
      /\ stepped = FALSE /\ lost = 0
  BY DEF Init
<1>2. psi \in Vector /\ Zero \in Vector
  <2>1. Zero \in Vector /\ 0 \in 0 .. 7
    BY DEF Zero, Vector
  <2> QED BY <1>1, <2>1, MotorTypes
<1>3. ctx \in Contexts /\ out \in Results /\ reference \in [flux : Int, torque : Int]
  BY <1>1, <1>2 DEF Contexts, Results, NoContext, NoResult, NoReference
<1>4. ~Initialized
  BY <1>1 DEF Initialized
<1>5. stepped \in BOOLEAN
  BY <1>1, Zenon
<1>6. TypeOK
  BY <1>1, <1>2, <1>3, <1>4, <1>5 DEF TypeOK, Contexts, Results
<1> QED BY <1>1, <1>4, <1>6 DEF IInv, VectorObeys, OneStep, ObserverTracks, FromTable

LEMMA DtcInitInv ==
  ASSUME IInv, NEW config \in Configs, NEW seed \in {psi, Zero}, DtcInit(config, seed)
  PROVE  IInv'
<1>1. TypeOK /\ UNCHANGED motor
  BY DEF IInv, DtcInit
<1>2. CASE InitStatus(config, seed) # "ok"
  <2>1. UNCHANGED vars
    BY <1>2 DEF DtcInit, vars, motor
  <2> QED BY <2>1 DEF IInv, TypeOK, VectorObeys, OneStep, ObserverTracks, FromTable,
                      Initialized, vars
<1>3. CASE InitStatus(config, seed) = "ok"
  <2>1. /\ ctx' = [config |-> config, flux |-> seed, flux_state |-> 1,
                   torque_state |-> 0, last_switch |-> 0]
        /\ stepped' = FALSE /\ lost' = 0 /\ out' = NoResult /\ reference' = NoReference
    BY <1>3 DEF DtcInit
  <2>2. config.flux_band > 0 /\ config.torque_band > 0 /\ seed # Zero
    <3>1. config.flux_band \in Int /\ config.torque_band \in Int
      BY DtcAssumption
    <3> QED BY <1>3, <3>1 DEF InitStatus
  <2>3. seed = psi /\ seed \in Vector /\ Zero \in Vector
    BY <1>1, <2>2 DEF TypeOK, Zero, Vector
  <2>4. ctx' \in Contexts /\ out' \in Results /\ reference' \in [flux : Int, torque : Int]
    BY <2>1, <2>3 DEF Contexts, Results, NoResult, NoReference
  <2>5. TypeOK'
    <3>1. stepped' \in BOOLEAN
      BY <2>1, Zenon
    <3>2. /\ ctx'.flux # Zero /\ ctx'.flux_state # 0
          /\ ctx'.config.flux_band > 0 /\ ctx'.config.torque_band > 0
      BY <2>1, <2>2
    <3>3. inverter' \in 0 .. 7 /\ psi' \in Vector /\ rotor' \in 0 .. 5 /\ lost' \in Nat
      BY <1>1, <2>1 DEF TypeOK, motor
    <3> QED BY <2>4, <3>1, <3>2, <3>3 DEF TypeOK, Contexts, Results
  <2>6. ObserverTracks'
    BY <1>1, <2>1, <2>3 DEF ObserverTracks, motor
  <2> QED BY <2>1, <2>5, <2>6 DEF IInv, VectorObeys, OneStep, FromTable
<1> QED BY <1>2, <1>3

\* What a sample does to the controller, besides the motor.
LEMMA SampleFacts ==
  ASSUME TypeOK, NEW inhibited \in BOOLEAN, NEW ref \in References, NEW dt \in Intervals,
         NEW turn \in Turns, Sample(inhibited, ref, dt, turn)
  PROVE  \E current \in Vector, voltage \in Vector :
           /\ Initialized
           /\ DtcStep(current, voltage, ref, dt)
           /\ psi' = IF dt > 0 THEN Follow(psi, current, voltage, dt) ELSE psi
           /\ psi' \in Vector /\ rotor' \in 0 .. 5
<1> DEFINE voltage == IF inhibited THEN Zero ELSE Scale(Volt, Voltage(inverter))
           current == Current(psi, rotor)
<1>1. /\ Initialized /\ DtcStep(current, voltage, ref, dt)
      /\ psi' = IF dt > 0 THEN Follow(psi, current, voltage, dt) ELSE psi
      /\ rotor' = IF dt > 0 THEN (rotor + turn) % 6 ELSE rotor
  BY DEF Sample
<1>2. psi \in Vector /\ rotor \in 0 .. 5 /\ inverter \in 0 .. 7
  BY DEF TypeOK
<1>3. current \in Vector /\ voltage \in Vector
  BY <1>2, MotorTypes
<1> HIDE DEF current, voltage
<1>4. dt \in Int /\ turn \in 0 .. 5
  BY DtcAssumption
<1>5. Follow(psi, current, voltage, dt) \in Vector
  BY <1>1, <1>2, <1>3, <1>4, ContextFacts, FollowFacts
<1>6. psi' \in Vector
  BY <1>1, <1>2, <1>5
<1>7. rotor' \in 0 .. 5
  BY <1>1, <1>2, <1>4
<1> QED BY <1>1, <1>3, <1>6, <1>7

\* An accepted step.
LEMMA AcceptedFacts ==
  ASSUME TypeOK, Initialized, NEW current \in Vector, NEW voltage \in Vector,
         NEW ref \in References, NEW dt \in Intervals, DtcStep(current, voltage, ref, dt),
         StepStatus(ctx, current, Integrate(ctx.flux, ctx.config, current, voltage, dt), ref, dt) = "ok"
  PROVE  /\ dt > 0
         /\ ctx' = Commit(ctx, out') /\ inverter' = out'.switch_state
         /\ reference' = ref /\ stepped' = TRUE /\ lost' = lost
         /\ out'.stator_flux = Integrate(ctx.flux, ctx.config, current, voltage, dt)
         /\ out'.stator_flux # Zero /\ Magnitude2(out'.stator_flux) <= FluxMax * FluxMax
         /\ out' \in Results /\ out'.sector = Sector(out'.stator_flux)
         /\ out'.flux_state \in {-1, 1} /\ Answers(ctx, out', ref)
<1> DEFINE flux == Integrate(ctx.flux, ctx.config, current, voltage, dt)
<1>1. dt \in Int /\ ref.flux \in Int
  BY DtcAssumption
<1>2. flux \in Vector /\ Magnitude2(flux) \in Int
  <2>1. flux \in Vector
    BY <1>1, ContextFacts, VectorTypes
  <2> QED BY <1>1, <2>1, ContextFacts, VectorTypes
<1>3. /\ out' = Result(ctx, current, flux, ref) /\ ctx' = Commit(ctx, out')
      /\ inverter' = out'.switch_state /\ reference' = ref /\ stepped' = TRUE /\ lost' = lost
  BY DEF DtcStep
<1> HIDE DEF flux
<1>4. StepStatus(ctx, current, flux, ref, dt) = "ok"
  BY DEF flux
<1>5. dt > 0
  BY <1>1, <1>4, ContextFacts DEF StepStatus
<1>6. flux # Zero
  BY <1>4 DEF StepStatus
<1>7. Magnitude2(flux) <= FluxMax * FluxMax
  <2>1. ~(Magnitude2(flux) > FluxMax * FluxMax)
    BY <1>4 DEF StepStatus
  <2>2. FluxMax * FluxMax \in Int
    BY DtcAssumption
  <2> QED BY <1>2, <2>1, <2>2
<1>8. /\ out' \in Results /\ out'.stator_flux = flux /\ out'.sector = Sector(flux)
      /\ out'.flux_state \in {-1, 1} /\ Answers(ctx, out', ref)
  BY <1>2, <1>3, <1>6, ResultFacts
<1> QED BY <1>3, <1>5, <1>6, <1>7, <1>8 DEF flux

LEMMA CommitFields ==
  ASSUME NEW c, NEW r
  PROVE  LET n == Commit(c, r) IN
         /\ n.config = c.config /\ n.flux = r.stator_flux /\ n.flux_state = r.flux_state
         /\ n.torque_state = r.torque_state /\ n.last_switch = r.switch_state
         /\ n = Commit(n, r)
BY DEF Commit

LEMMA SampleInv ==
  ASSUME IInv, NEW inhibited \in BOOLEAN, NEW ref \in References, NEW dt \in Intervals,
         NEW turn \in Turns, Sample(inhibited, ref, dt, turn)
  PROVE  IInv'
<1>1. TypeOK
  BY DEF IInv
<1>2. PICK current \in Vector, voltage \in Vector :
        /\ Initialized
        /\ DtcStep(current, voltage, ref, dt)
        /\ psi' = IF dt > 0 THEN Follow(psi, current, voltage, dt) ELSE psi
        /\ psi' \in Vector /\ rotor' \in 0 .. 5
  BY <1>1, SampleFacts
<1> DEFINE flux == Integrate(ctx.flux, ctx.config, current, voltage, dt)
<1>3. dt \in Int /\ ref \in [flux : Int, torque : Int]
  BY DtcAssumption
<1>4. CASE StepStatus(ctx, current, flux, ref, dt) # "ok"
  <2>1. /\ UNCHANGED <<ctx, out, inverter, reference, stepped>>
        /\ lost' = IF dt > 0 THEN lost + 1 ELSE lost
    BY <1>2, <1>4 DEF DtcStep
  <2>2. lost' \in Nat /\ (lost' = 0 => lost = 0 /\ ~(dt > 0))
    BY <1>1, <1>3, <2>1 DEF TypeOK
  <2>3. TypeOK'
    BY <1>1, <1>2, <2>1, <2>2 DEF TypeOK, Initialized
  <2>4. ObserverTracks'
    BY <1>2, <2>1, <2>2 DEF IInv, ObserverTracks, Initialized
  <2> QED BY <2>1, <2>3, <2>4 DEF IInv, VectorObeys, OneStep, FromTable
<1>5. CASE StepStatus(ctx, current, flux, ref, dt) = "ok"
  <2>1. /\ dt > 0
        /\ ctx' = Commit(ctx, out') /\ inverter' = out'.switch_state
        /\ reference' = ref /\ stepped' = TRUE /\ lost' = lost
        /\ out'.stator_flux = flux
        /\ out'.stator_flux # Zero /\ Magnitude2(out'.stator_flux) <= FluxMax * FluxMax
        /\ out' \in Results /\ out'.sector = Sector(out'.stator_flux)
        /\ out'.flux_state \in {-1, 1} /\ Answers(ctx, out', ref)
    BY <1>1, <1>2, <1>5, AcceptedFacts
  <2>2. /\ ctx'.config = ctx.config /\ ctx'.flux = out'.stator_flux
        /\ ctx'.flux_state = out'.flux_state /\ ctx'.torque_state = out'.torque_state
        /\ ctx'.last_switch = out'.switch_state /\ ctx' = Commit(ctx', out')
    BY <2>1, CommitFields
  <2>3. TypeOK'
    <3>1. stepped' \in BOOLEAN
      BY <2>1, Zenon
    <3>2. ctx.config \in Configs \union {NoConfig} /\ out'.stator_flux \in Vector
          /\ out'.flux_state \in {-1, 0, 1} /\ out'.torque_state \in {-1, 0, 1}
          /\ out'.switch_state \in 0 .. 7
      BY <1>1, <1>2, <2>1, ContextFacts DEF Results
    <3>3. ctx' \in Contexts
      BY <2>1, <3>2 DEF Commit, Contexts
    <3>4. /\ ctx'.flux # Zero /\ ctx'.flux_state # 0
          /\ ctx'.config.flux_band > 0 /\ ctx'.config.torque_band > 0
      BY <1>1, <1>2, <2>1, <2>2 DEF TypeOK
    <3>5. inverter' \in 0 .. 7 /\ lost' \in Nat /\ reference' \in [flux : Int, torque : Int]
      BY <1>1, <1>3, <2>1, <3>2 DEF TypeOK
    <3> QED BY <1>2, <2>1, <3>1, <3>3, <3>4, <3>5 DEF TypeOK, Contexts, Results
  <2>4. ObserverTracks'
    <3> SUFFICES ASSUME lost' = 0, ctx'.config.resistance = Winding PROVE ctx'.flux = psi'
      BY DEF ObserverTracks
    <3>1. ctx.flux = psi /\ psi \in Vector /\ ctx.config \in Configs
      BY <1>1, <1>2, <2>1, <2>2, ContextFacts DEF IInv, ObserverTracks
    <3>2. psi' = Follow(psi, current, voltage, dt) /\ ctx'.flux = flux
      BY <1>2, <2>1, <2>2
    <3>3. ctx.config.resistance = Winding
      BY <2>2
    <3>4. Follow(psi, current, voltage, dt) = Integrate(psi, ctx.config, current, voltage, dt)
      <4>1. dt \in Int
        BY <1>3
      <4>2. ASSUME NEW p \in Vector, NEW config \in Configs, config.resistance = Winding
            PROVE  Follow(p, current, voltage, dt) = Integrate(p, config, current, voltage, dt)
        BY <4>1, <4>2, FollowFacts
      <4> QED BY <3>1, <3>3, <4>2
    <3> QED BY <3>1, <3>2, <3>4
  <2>5. OneStep'
    BY <2>1, <2>2 DEF OneStep
  <2>6. VectorObeys' /\ FromTable'
    BY <2>1, <2>2 DEF VectorObeys, FromTable, Answers
  <2> QED BY <2>3, <2>4, <2>5, <2>6 DEF IInv
<1> QED BY <1>4, <1>5

LEMMA StepInv == IInv /\ [Next]_vars => IInv'
<1> SUFFICES ASSUME IInv, [Next]_vars PROVE IInv'
  OBVIOUS
<1>1. ASSUME UNCHANGED vars PROVE IInv'
  BY <1>1 DEF IInv, TypeOK, VectorObeys, OneStep, ObserverTracks, FromTable,
              Initialized, vars
<1> QED BY <1>1, DtcInitInv, SampleInv DEF Next

LEMMA Invariance == Spec => []IInv
BY InitInv, StepInv, PTL DEF Spec
----------------------------------------------------------------------------
\* The controller keeps a usable context: a nonzero flux, a direction for it
\* and two open bands.
THEOREM TypeCorrect == Spec => []TypeOK
<1>1. IInv => TypeOK
  BY DEF IInv
<1> QED BY <1>1, Invariance, PTL

\* Every active request pushes torque and flux the way their comparators ask,
\* for every flux vector, not only those a test samples.
THEOREM RequestsObey == Spec => []VectorObeys
<1>1. IInv => VectorObeys
  BY DEF IInv
<1> QED BY <1>1, Invariance, PTL

\* A rejected step commits nothing, so context, result and inverter agree.
THEOREM AlwaysOneStep == Spec => []OneStep
<1>1. IInv => OneStep
  BY DEF IInv
<1> QED BY <1>1, Invariance, PTL

\* The observer follows the motor through every gate inhibit, for every
\* resistance, interval and sequence of references.
THEOREM ObserverAlwaysTracks == Spec => []ObserverTracks
<1>1. IInv => ObserverTracks
  BY DEF IInv
<1> QED BY <1>1, Invariance, PTL

FewLegs ==
  stepped /\ stepped' =>
    /\ ctx'.torque_state = 0 => Legs(inverter, inverter') <= 1
    /\ ctx'.torque_state # 0 /\ UNCHANGED <<ctx.torque_state, ctx.flux_state>> =>
         Legs(inverter, inverter') = Turned(out.sector, out'.sector)

LEMMA RejectedMovesNothing ==
  ASSUME IInv, UNCHANGED <<ctx, out, inverter>>
  PROVE  FewLegs
<1> SUFFICES ASSUME stepped PROVE FewLegs
  BY DEF FewLegs
<1>1. inverter \in 0 .. 7 /\ out.sector \in 1 .. 6
  BY DEF IInv, TypeOK, FromTable
<1>2. Legs(inverter, inverter) = 0
  BY <1>1 DEF Legs, Leg, Abs
<1>3. Turned(out.sector, out.sector) = 0
  BY <1>1 DEF Turned
<1> QED BY <1>2, <1>3 DEF FewLegs

LEMMA StepMovesFew ==
  ASSUME IInv, Next
  PROVE  FewLegs
<1>1. TypeOK
  BY DEF IInv
<1>2. ASSUME NEW config \in Configs, NEW seed \in {psi, Zero}, DtcInit(config, seed)
      PROVE  FewLegs
  <2>1. CASE InitStatus(config, seed) = "ok"
    BY <1>2, <2>1 DEF DtcInit, FewLegs
  <2>2. CASE InitStatus(config, seed) # "ok"
    BY <1>2, <2>2, RejectedMovesNothing DEF DtcInit, motor
  <2> QED BY <2>1, <2>2
<1>3. ASSUME NEW inhibited \in BOOLEAN, NEW ref \in References, NEW dt \in Intervals,
             NEW turn \in Turns, Sample(inhibited, ref, dt, turn)
      PROVE  FewLegs
  <2>1. PICK current \in Vector, voltage \in Vector :
          Initialized /\ DtcStep(current, voltage, ref, dt)
    BY <1>1, <1>3, SampleFacts
  <2> DEFINE ok == StepStatus(ctx, current,
                       Integrate(ctx.flux, ctx.config, current, voltage, dt), ref, dt) = "ok"
  <2>2. ASSUME ~ok PROVE FewLegs
    BY <2>1, <2>2, RejectedMovesNothing DEF DtcStep
  <2>3. ASSUME ok PROVE FewLegs
    <3> SUFFICES ASSUME stepped PROVE FewLegs
      BY DEF FewLegs
    <3>1. ctx' = Commit(ctx, out') /\ inverter' = out'.switch_state /\ Answers(ctx, out', ref)
      BY <1>1, <2>1, <2>3, AcceptedFacts
    <3>2. /\ ctx'.torque_state = out'.torque_state /\ ctx'.flux_state = out'.flux_state
      BY <3>1, CommitFields
    <3>3. inverter = ctx.last_switch /\ FromTable
      BY DEF IInv, OneStep
    <3>4. ASSUME ctx'.torque_state = 0 PROVE Legs(inverter, inverter') <= 1
      BY <3>1, <3>2, <3>3, <3>4 DEF Answers
    <3>5. ASSUME ctx'.torque_state # 0, UNCHANGED <<ctx.torque_state, ctx.flux_state>>
          PROVE  Legs(inverter, inverter') = Turned(out.sector, out'.sector)
      <4> DEFINE row == dtc_active_table(ctx.flux_state > 0, ctx.torque_state > 0)
      <4>1. inverter = row[out.sector] /\ inverter' = row[out'.sector]
        BY <3>1, <3>2, <3>3, <3>5 DEF FromTable, Answers
      <4>2. /\ ctx.flux_state \in {-1, 1} /\ ctx.torque_state \in {-1, 1}
            /\ out.sector \in 1 .. 6 /\ out'.sector \in 1 .. 6
        BY <1>1, <3>1, <3>3, <3>5 DEF FromTable, Answers, TypeOK
      <4> QED BY <4>1, <4>2, RowLegs
    <3> QED BY <3>4, <3>5 DEF FewLegs
  <2> QED BY <2>2, <2>3
<1> QED BY <1>2, <1>3 DEF Next

\* The inverter switches no more than it must, whatever steps were rejected or
\* intervals inhibited in between: a zero vector moves at most one leg from the
\* state the inverter is in, and an unchanged answer one leg per sector.
THEOREM FewLegsAlwaysMove == Spec => FewLegsMove
<1>1. IInv /\ [Next]_vars => [FewLegs]_vars
  BY StepMovesFew
<1> QED BY <1>1, Invariance, PTL DEF Spec, FewLegsMove, FewLegs
=============================================================================
