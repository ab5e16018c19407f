---------------------------- MODULE C2PsramProofs ---------------------------
(***************************************************************************)
(* Proofs about the PSRAM bring-up, for any clock, counter width, budgets, *)
(* guards and recovery time that satisfy the assumptions of C2Psram.       *)
(***************************************************************************)
EXTENDS C2Psram, TLAPS

Asked == ConvertClocks(asked)

\* A delay in progress has its chunks to go, and its clocks to wait for.
Delaying ==
  dpc # "idle" => /\ clocks > 0 /\ asked > 0 /\ dresult = "none"
                  /\ done * Chunk + clocks = Asked

\* Clocks that have passed, against the clocks of the chunks that are complete:
\* each may be one clock short.  In a chunk, the counter has either not passed
\* zero, and is not above what was read last, or a whole period is over.
Waited ==
  /\ dpc = "start" => elapsed + clocks + done >= Asked
  /\ dpc = "poll" =>
       /\ tim.load = ChunkOf(clocks) - 1 /\ tim.run
       /\ \/ elapsed >= Asked
          \/ elapsed + clocks + done > Asked + tim.load
          \/ /\ tim.DATA <= previous
             /\ elapsed + clocks + done >= Asked + tim.load - tim.DATA
  /\ dresult = "ok" /\ asked > 0 =>
       done > 0 /\ elapsed + done >= Asked /\ (done - 1) * Chunk < Asked

\* The registers hold what the shadows say.
Shadows ==
  /\ gpio.initialized => /\ gpio.DR = gpio.output_shadow
                         /\ gpio.DDR = gpio.input_mask_shadow
  /\ ~gpio.initialized => gpio.DR = {}

\* The pin is high only behind a successful bring-up, or in one whose timing is
\* all that is left; before that it is a low output.
Pin ==
  /\ QpiPin \in gpio.DR => /\ ppc \in {"idle", "tune"} /\ QpiPin \notin gpio.DDR
                           /\ dev.mode = "qpi" /\ qspi = "done"
                           /\ ppc = "idle" => tuning = "run"
  /\ ppc = "tune" \/ tuning = "run" => QpiPin \in gpio.DR
  /\ tuning = "run" => ppc = "idle"
  /\ ppc # "idle" => gpio.initialized
  /\ ppc \notin {"idle", "expose"} => QpiPin \notin gpio.DDR

\* What the commands have done so far: when the third is launched the device is
\* out of its reset, and when it is done the device is in QPI mode.
Commands ==
  /\ ppc \in {"guard", "guarding", "launch"} /\ stage > 0 => qspi = "done"
  /\ ppc = "finish" => qspi = "done" /\ dev.mode = "qpi"
  /\ ppc = "expose" => stage = 0
  /\ ppc \in {"launch", "poll"} => stage < 3
  /\ ppc = "poll" => cmd = Command[stage + 1] /\ qspi # "idle"
  /\ dev.mode = "reset" => dev.left > 0
  /\ ppc = "guarding" /\ stage = 2 =>
       asked = Guards[2] /\ (dev.mode = "reset" => dev.left + elapsed <= Recovery)
  /\ ppc = "launch" /\ stage = 2 => dev.mode # "reset"
  /\ ppc = "poll" /\ stage = 2 => /\ dev.mode # "reset"
                                  /\ qspi = "done" => dev.mode = "qpi"
  /\ ppc \in {"guard", "guarding"} /\ stage = 3 => dev.mode = "qpi"
  /\ dpc # "idle" => ppc \in {"idle", "guarding"}
  /\ unseen => ppc = "poll" /\ remaining > 0

IInv == TypeOK /\ TimerStopped /\ Delaying /\ Waited /\ Shadows /\ PinsAsAsked /\ Pin /\ Commands
----------------------------------------------------------------------------
(***************************************************************************)
(* Arithmetic.                                                             *)
(***************************************************************************)
LEMMA DivMod ==
  ASSUME NEW a \in Nat, NEW d \in Nat \ {0}
  PROVE  /\ a \div d \in Nat /\ a % d \in 0 .. d - 1
         /\ a = (a \div d) * d + (a % d)
OBVIOUS

LEMMA DivLower ==
  ASSUME NEW a \in Nat, NEW d \in Nat \ {0}, NEW q \in Nat, q * d <= a
  PROVE  q <= a \div d
<1> DEFINE r == a \div d
<1>1. r \in Nat /\ a < (r + 1) * d
  OBVIOUS
<1> HIDE DEF r
<1>2. q * d < (r + 1) * d
  BY <1>1
<1>3. SUFFICES ASSUME q >= r + 1 PROVE FALSE
  BY <1>1 DEF r
<1>4. q * d >= (r + 1) * d
  BY <1>1, <1>3
<1> QED BY <1>1, <1>2, <1>4

\* c2_timer_convert_clocks never rounds a delay down.
LEMMA ConvertUp ==
  ASSUME NEW duration \in Nat
  PROVE  /\ ConvertClocks(duration) \in Nat
         /\ ConvertClocks(duration) * Units >= ClockHz * duration
         /\ duration = 0 => ConvertClocks(duration) = 0
         /\ duration > 0 => ConvertClocks(duration) > 0
<1> DEFINE w == ClockHz \div Units
           f == ClockHz % Units
           fraction == f * duration
           up == IF fraction % Units # 0 THEN 1 ELSE 0
           c == w * duration + fraction \div Units + up
<1>1. /\ w \in Nat /\ f \in 0 .. Units - 1 /\ ClockHz = w * Units + f
      /\ ClockHz \in Nat \ {0} /\ Units \in Nat \ {0}
  BY TimerAssumption, DivMod
<1>2. ConvertClocks(duration) = c
  BY DEF ConvertClocks
<1> HIDE DEF w, f
<1>3. fraction \in Nat
  BY <1>1
<1> HIDE DEF fraction
<1> DEFINE q == fraction \div Units
           m == fraction % Units
<1>4. q \in Nat /\ m \in 0 .. Units - 1 /\ fraction = q * Units + m
  BY <1>1, <1>3, DivMod
<1>5. up \in {0, 1} /\ (m # 0 => up = 1)
  OBVIOUS
<1>6. up * Units >= m
  BY <1>1, <1>4, <1>5
<1>7. (w * duration) \in Nat
  BY <1>1
<1> HIDE DEF q, m, up
<1>8. c = w * duration + q + up
  BY DEF q
<1>9. c \in Nat
  BY <1>4, <1>5, <1>7, <1>8
<1>10. c * Units = (w * duration) * Units + q * Units + up * Units
  BY <1>1, <1>4, <1>5, <1>7, <1>8
<1>11. ClockHz * duration = (w * duration) * Units + fraction
  BY <1>1 DEF fraction
<1>12. c * Units >= ClockHz * duration
  BY <1>4, <1>6, <1>10, <1>11, <1>1, <1>5, <1>7
<1>13. ASSUME duration = 0 PROVE c = 0
  <2>1. fraction = 0
    BY <1>1, <1>13 DEF fraction
  <2>2. q = 0 /\ m = 0
    BY <2>1, <1>1 DEF q, m
  <2>3. up = 0
    BY <2>2 DEF up, m
  <2> QED BY <2>2, <2>3, <1>1, <1>8, <1>13
<1>14. ASSUME duration > 0 PROVE c > 0
  <2>1. ClockHz * duration > 0
    BY <1>1, <1>14
  <2>2. SUFFICES ASSUME c = 0 PROVE FALSE
    BY <1>9
  <2>3. c * Units = 0
    BY <2>2, <1>1
  <2>4. ClockHz * duration \in Nat
    BY <1>1
  <2> QED BY <2>1, <2>3, <2>4, <1>12
<1> HIDE DEF c
<1> QED BY <1>2, <1>9, <1>12, <1>13, <1>14

\* The guard of the third stage waits out the recovery of the device.
LEMMA GuardWaits ==
  ASSUME TypeOK, Waited, dresult = "ok", asked = Guards[2]
  PROVE  elapsed >= Recovery
<1> DEFINE c == Asked
<1>1. asked \in Nat /\ elapsed \in Nat /\ done \in Nat /\ Recovery \in Nat \ {0}
  BY PsramAssumption DEF TypeOK
<1>2. c \in Nat /\ (asked = 0 => c = 0)
  BY <1>1, ConvertUp DEF Asked
<1>3. Chunks(c) \in Nat /\ Recovery + Chunks(c) <= c
  <2>1. c + Chunk - 1 \in Nat /\ Chunk \in Nat \ {0}
    BY <1>2, TimerAssumption
  <2>2. Chunks(c) \in Nat
    BY <2>1, DivMod DEF Chunks
  <2> QED BY <2>2, GuardAssumption DEF Asked
<1>4. asked > 0
  BY <1>1, <1>2, <1>3
<1>5. done > 0 /\ elapsed + done >= c /\ (done - 1) * Chunk < c
  BY <1>4 DEF Waited
<1>6. done * Chunk <= c + Chunk - 1
  BY <1>1, <1>2, <1>5, TimerAssumption
<1>7. done <= Chunks(c)
  BY <1>1, <1>2, <1>6, TimerAssumption, DivLower DEF Chunks
<1> HIDE DEF c
<1> QED BY <1>1, <1>2, <1>3, <1>5, <1>7
----------------------------------------------------------------------------
LEMMA InitInv == Init => IInv
<1> SUFFICES ASSUME Init PROVE IInv
  OBVIOUS
<1> USE PsramAssumption, TimerAssumption DEF Init, TimerInit
<1>1. TypeOK
  <2>1. gpio \in Gpio /\ wanted \in [high : SUBSET Others, input : SUBSET Pins]
    BY DEF Gpio, NoGpio
  <2>2. dev \in [mode : {"spi", "armed", "reset", "qpi"}, left : 0 .. Recovery]
    BY SMT
  <2>3. /\ tim \in [run : BOOLEAN, load : 0 .. Chunk - 1, DATA : 0 .. Chunk - 1]
        /\ tim.DATA <= tim.load /\ previous \in 0 .. Chunk - 1
    <3>1. 0 \in 0 .. Chunk - 1
      OBVIOUS
    <3> QED BY <3>1
  <2>4. unseen \in BOOLEAN
    BY Zenon
  <2>5. /\ qspi \in {"idle", "busy", "done"}
        /\ cmd \in {"none", "reset_enable", "reset_device", "enter_qpi"}
        /\ tuning \in {"reset", "init", "run"} /\ stage \in Stages
        /\ ppc \in {"idle", "expose", "guard", "guarding", "launch", "poll", "finish", "tune"}
        /\ dpc \in {"idle", "start", "poll"}
        /\ remaining \in Nat /\ polls \in Nat /\ clocks \in Nat
        /\ elapsed \in Nat /\ asked \in Nat /\ done \in Nat
    BY DEF Stages
  <2> HIDE DEF Init, TimerInit
  <2> QED BY <2>1, <2>2, <2>3, <2>4, <2>5 DEF TypeOK
<1>2. TimerStopped /\ Delaying /\ Waited
  BY DEF TimerStopped, Delaying, Waited
<1>3. Shadows /\ PinsAsAsked /\ Pin /\ Commands
  BY DEF Shadows, PinsAsAsked, Pin, Commands, NoGpio
<1> QED BY <1>1, <1>2, <1>3 DEF IInv

LEMMA CommandType ==
  ASSUME NEW s \in 0 .. 2
  PROVE  /\ Command[s + 1] \in {"reset_enable", "reset_device", "enter_qpi"}
         /\ s = 2 => Command[s + 1] = "enter_qpi"
BY DEF Command
----------------------------------------------------------------------------
(***************************************************************************)
(* The timer, which the rest of the system only calls.                     *)
(***************************************************************************)
TimerTypes ==
  /\ dpc \in {"idle", "start", "poll"}
  /\ polls \in Nat /\ clocks \in Nat /\ elapsed \in Nat /\ asked \in Nat /\ done \in Nat
  /\ tim \in [run : BOOLEAN, load : 0 .. Chunk - 1, DATA : 0 .. Chunk - 1]
  /\ tim.DATA <= tim.load /\ previous \in 0 .. Chunk - 1

TimerOK == TimerTypes /\ TimerStopped /\ Delaying /\ Waited

LEMMA TimerUnchanged == TimerOK /\ UNCHANGED timerVars => TimerOK'
BY DEF TimerOK, TimerTypes, TimerStopped, Delaying, Waited, timerVars, Asked

LEMMA TimerFacts ==
  ASSUME TimerOK
  PROVE  /\ Asked \in Nat /\ Chunk \in Nat \ {0}
         /\ tim.run \in BOOLEAN /\ tim.load \in 0 .. Chunk - 1 /\ tim.DATA \in 0 .. tim.load
         /\ polls \in Nat /\ clocks \in Nat /\ elapsed \in Nat /\ done \in Nat
         /\ previous \in 0 .. Chunk - 1
BY ConvertUp, TimerAssumption DEF TimerOK, TimerTypes, Asked

LEMMA TickTimer ==
  ASSUME TimerOK, TimerTick
  PROVE  TimerOK'
<1> USE TimerFacts
<1>1. Asked' = Asked
  BY DEF TimerTick, Asked
<1>2. /\ elapsed' \in Nat /\ elapsed <= elapsed' /\ elapsed' <= elapsed + 1
      /\ dpc # "idle" => elapsed' >= Asked \/ elapsed' = elapsed + 1
  BY DEF TimerTick, Asked
<1>3. CASE ~tim.run
  <2>1. tim' = tim
    BY <1>3 DEF TimerTick
  <2> QED BY <1>1, <1>2, <2>1, <1>3
          DEF TimerTick, TimerOK, TimerTypes, TimerStopped, Delaying, Waited
<1>4. CASE tim.run
  <2>1. /\ tim'.run /\ tim'.load = tim.load /\ tim'.DATA \in 0 .. tim.load
        /\ tim'.DATA = IF tim.DATA = 0 THEN tim.load ELSE tim.DATA - 1
        /\ tim' \in [run : BOOLEAN, load : 0 .. Chunk - 1, DATA : 0 .. Chunk - 1]
    <3> DEFINE x == IF tim.DATA = 0 THEN tim.load ELSE tim.DATA - 1
    <3>1. x \in 0 .. tim.load /\ x \in 0 .. Chunk - 1
      OBVIOUS
    <3>2. tim' = [run |-> TRUE, load |-> tim.load, DATA |-> x]
      BY <1>4 DEF TimerTick
    <3> HIDE DEF x
    <3>3. tim'.run /\ tim'.load = tim.load /\ tim'.DATA = x
      BY <3>2
    <3>4. tim' \in [run : BOOLEAN, load : 0 .. Chunk - 1, DATA : 0 .. Chunk - 1]
      BY <3>1, <3>2, Zenon
    <3> QED BY <3>1, <3>3, <3>4 DEF x
  <2>2. dpc # "idle" /\ dpc' = dpc /\ UNCHANGED <<clocks, previous, polls, dresult, asked, done>>
    BY <1>4 DEF TimerOK, TimerStopped, TimerTick
  <2>3. TimerTypes' /\ TimerStopped'
    BY <1>2, <2>1, <2>2 DEF TimerOK, TimerTypes, TimerStopped
  <2>4. Delaying'
    BY <1>1, <2>2 DEF TimerOK, Delaying
  <2>5. Waited'
    <3>1. dpc = "start" => elapsed' + clocks + done >= Asked
      BY <1>2 DEF TimerOK, Waited
    <3>2. dresult # "ok"
      BY <2>2 DEF TimerOK, Delaying
    <3>3. ASSUME dpc = "poll"
          PROVE  \/ elapsed' >= Asked
                 \/ elapsed' + clocks + done > Asked + tim.load
                 \/ /\ tim'.DATA <= previous
                    /\ elapsed' + clocks + done >= Asked + tim.load - tim'.DATA
      BY <1>2, <2>1, <2>2, <3>3 DEF TimerOK, Waited
    <3>4. dpc = "poll" => tim.load = ChunkOf(clocks) - 1
      BY DEF TimerOK, Waited
    <3> QED BY <1>1, <2>1, <2>2, <3>1, <3>2, <3>3, <3>4 DEF Waited, ChunkOf
  <2> QED BY <2>3, <2>4, <2>5 DEF TimerOK
<1> QED BY <1>3, <1>4

LEMMA DelayTimer ==
  ASSUME TimerOK, NEW duration \in Nat, NEW limit \in Nat, Delay(duration, limit)
  PROVE  TimerOK'
<1> USE TimerFacts
<1>1. /\ ConvertClocks(duration) \in Nat
      /\ duration > 0 => ConvertClocks(duration) > 0
  BY ConvertUp
<1>2. Asked' = ConvertClocks(duration)
  BY DEF Delay, Asked
<1>3. CASE duration = 0 \/ limit = 0
  BY <1>3 DEF Delay, TimerOK, TimerTypes, TimerStopped, Delaying, Waited
<1>4. CASE duration > 0 /\ limit > 0
  <2>1. /\ dpc' = "start" /\ dresult' = "none" /\ clocks' = ConvertClocks(duration)
        /\ polls' = limit /\ asked' = duration /\ elapsed' = 0 /\ done' = 0
        /\ UNCHANGED <<tim, previous>>
    BY <1>4 DEF Delay
  <2> QED BY <1>1, <1>2, <1>4, <2>1 DEF TimerOK, TimerTypes, TimerStopped, Delaying, Waited
<1> QED BY <1>3, <1>4

LEMMA StartTimer ==
  ASSUME TimerOK, StartChunk
  PROVE  TimerOK'
<1> USE TimerFacts
<1> DEFINE r == ChunkOf(clocks) - 1
<1>1. r \in 0 .. Chunk - 1
  BY DEF TimerOK, Delaying, StartChunk, ChunkOf
<1>2. tim' = [run |-> TRUE, load |-> r, DATA |-> r] /\ previous' = r /\ dpc' = "poll"
  BY DEF StartChunk, Started
<1>3. dpc = "start" /\ UNCHANGED <<clocks, polls, dresult, elapsed, asked, done>> /\ Asked' = Asked
  BY DEF StartChunk, Asked
<1>4. ChunkOf(clocks)' - 1 = r
  BY <1>3 DEF ChunkOf
<1> HIDE DEF r
<1>5. /\ tim'.run /\ tim'.load = r /\ tim'.DATA = r
      /\ tim' \in [run : BOOLEAN, load : 0 .. Chunk - 1, DATA : 0 .. Chunk - 1]
  BY <1>1, <1>2
<1>6. TimerTypes' /\ TimerStopped'
  BY <1>1, <1>2, <1>3, <1>5 DEF TimerOK, TimerTypes, TimerStopped
<1>7. Delaying' /\ Waited'
  BY <1>1, <1>2, <1>3, <1>4, <1>5 DEF TimerOK, Delaying, Waited
<1> QED BY <1>6, <1>7 DEF TimerOK

LEMMA TimeoutTimer ==
  ASSUME TimerOK, DelayTimeout
  PROVE  TimerOK'
<1> USE TimerFacts
<1>1. tim' = [run |-> FALSE, load |-> tim.load, DATA |-> tim.DATA]
  BY DEF DelayTimeout, DelayReturn, Stopped
<1>2. /\ ~tim'.run /\ tim'.load = tim.load /\ tim'.DATA = tim.DATA
      /\ tim' \in [run : BOOLEAN, load : 0 .. Chunk - 1, DATA : 0 .. Chunk - 1]
  BY <1>1
<1> QED BY <1>2 DEF DelayTimeout, DelayReturn, TimerOK, TimerTypes, TimerStopped, Delaying, Waited

\* A completed chunk has waited for its clocks but one.
LEMMA ChunkWaited ==
  ASSUME TimerOK, dpc = "poll", Complete(tim.DATA)
  PROVE  elapsed + clocks + done >= Asked + ChunkOf(clocks) - 1 \/ elapsed >= Asked
BY TimerFacts DEF TimerOK, Waited, Complete

LEMMA PollTimer ==
  ASSUME TimerOK, PollData
  PROVE  TimerOK'
<1> USE TimerFacts
<1>1. dpc = "poll" /\ polls > 0 /\ UNCHANGED <<elapsed, asked>> /\ Asked' = Asked
  BY DEF PollData, Asked
<1>2. clocks > 0 /\ done * Chunk + clocks = Asked /\ asked > 0
  BY <1>1 DEF TimerOK, Delaying
<1>3. CASE Complete(tim.DATA) /\ clocks > Chunk
  <2>1. /\ clocks' = clocks - Chunk /\ dpc' = "start" /\ polls' = polls - 1
        /\ done' = done + 1 /\ UNCHANGED <<tim, previous, dresult>>
    BY <1>3 DEF PollData
  <2>2. done' * Chunk + clocks' = Asked
    BY <1>2, <2>1
  <2>3. elapsed + clocks' + done' >= Asked
    BY <1>1, <1>3, <2>1, ChunkWaited DEF ChunkOf
  <2> QED BY <1>1, <1>2, <1>3, <2>1, <2>2, <2>3
          DEF TimerOK, TimerTypes, TimerStopped, Delaying, Waited
<1>4. CASE Complete(tim.DATA) /\ clocks <= Chunk
  <2>1. /\ dpc' = "idle" /\ dresult' = "ok" /\ done' = done + 1
        /\ tim' = [run |-> FALSE, load |-> tim.load, DATA |-> tim.DATA]
        /\ clocks' = 0 /\ previous' = 0 /\ polls' = 0
    BY <1>4 DEF PollData, DelayReturn, Stopped
  <2>2. /\ ~tim'.run /\ tim'.load = tim.load /\ tim'.DATA = tim.DATA
        /\ tim' \in [run : BOOLEAN, load : 0 .. Chunk - 1, DATA : 0 .. Chunk - 1]
    BY <2>1
  <2>3. elapsed + done' >= Asked
    BY <1>1, <1>2, <1>4, <2>1, ChunkWaited DEF ChunkOf
  <2>4. (done' - 1) * Chunk < Asked /\ done' > 0
    <3>1. done' - 1 = done /\ done' > 0
      BY <2>1
    <3>2. done * Chunk < Asked
      BY <1>2
    <3> QED BY <3>1, <3>2, Zenon
  <2>5. TimerTypes' /\ TimerStopped' /\ Delaying'
    BY <1>1, <2>1, <2>2 DEF TimerOK, TimerTypes, TimerStopped, Delaying
  <2>6. Waited'
    BY <1>1, <2>1, <2>3, <2>4 DEF Waited
  <2> QED BY <2>5, <2>6 DEF TimerOK
<1>5. CASE ~Complete(tim.DATA)
  <2>1. /\ previous' = tim.DATA /\ polls' = polls - 1
        /\ UNCHANGED <<tim, dpc, clocks, dresult, done>>
    BY <1>5 DEF PollData
  <2>2. TimerTypes' /\ TimerStopped' /\ Delaying'
    BY <1>1, <2>1 DEF TimerOK, TimerTypes, TimerStopped, Delaying
  <2>3. ~(tim.DATA > previous)
    BY <1>5 DEF Complete
  <2>4. Waited'
    BY <1>1, <2>1, <2>3 DEF TimerOK, Waited, Delaying, ChunkOf
  <2> QED BY <2>2, <2>4 DEF TimerOK
<1> QED BY <1>2, <1>3, <1>4, <1>5
----------------------------------------------------------------------------
(***************************************************************************)
(* The bring-up and the application.                                       *)
(***************************************************************************)
PsramTypes ==
  /\ gpio \in Gpio /\ wanted \in [high : SUBSET Others, input : SUBSET Pins]
  /\ qspi \in {"idle", "busy", "done"}
  /\ cmd \in {"none", "reset_enable", "reset_device", "enter_qpi"}
  /\ dev \in [mode : {"spi", "armed", "reset", "qpi"}, left : 0 .. Recovery]
  /\ tuning \in {"reset", "init", "run"} /\ stage \in Stages /\ unseen \in BOOLEAN
  /\ ppc \in {"idle", "expose", "guard", "guarding", "launch", "poll", "finish", "tune"}
  /\ remaining \in Nat

Port == Shadows /\ PinsAsAsked

LEMMA Parts == IInv <=> TimerOK /\ PsramTypes /\ Port /\ Pin /\ Commands
BY DEF IInv, TypeOK, TimerTypes, PsramTypes, TimerOK, Port

LEMMA PartsNext == IInv' <=> (TimerOK /\ PsramTypes /\ Port /\ Pin /\ Commands)'
BY DEF IInv, TypeOK, TimerTypes, PsramTypes, TimerOK, Port

\* What the GPIO functions do to the context.
LEMMA GpioFields ==
  ASSUME NEW g \in Gpio
  PROVE  /\ g = [initialized |-> g.initialized, output_shadow |-> g.output_shadow,
                 input_mask_shadow |-> g.input_mask_shadow, DR |-> g.DR, DDR |-> g.DDR]
         /\ g.initialized \in BOOLEAN /\ g.output_shadow \subseteq Pins
         /\ g.input_mask_shadow \subseteq Pins /\ g.DR \subseteq Pins /\ g.DDR \subseteq Pins
BY DEF Gpio

LEMMA PutFields ==
  ASSUME NEW g \in Gpio, NEW mask \in SUBSET Pins, NEW shadow \in SUBSET Pins,
         mask # {}
  PROVE  LET h == PutOutputs(g, mask, shadow) IN
         /\ h \in Gpio /\ h.initialized = g.initialized
         /\ h.output_shadow = shadow /\ h.DR = shadow
         /\ h.input_mask_shadow = g.input_mask_shadow /\ h.DDR = g.DDR
<1> DEFINE h == PutOutputs(g, mask, shadow)
<1>1. h = [initialized |-> g.initialized, output_shadow |-> shadow,
           input_mask_shadow |-> g.input_mask_shadow, DR |-> shadow, DDR |-> g.DDR]
  BY DEF PutOutputs
<1>2. h \in Gpio
  BY <1>1, GpioFields DEF Gpio
<1> QED BY <1>1, <1>2

LEMMA DirectionFields ==
  ASSUME NEW g \in Gpio, NEW mask \in SUBSET Pins, NEW input \in BOOLEAN,
         mask # {}
  PROVE  LET h == SetDirection(g, mask, input) IN
         /\ h \in Gpio /\ h.initialized = g.initialized
         /\ h.output_shadow = g.output_shadow /\ h.DR = g.DR
         /\ h.input_mask_shadow = IF input THEN g.input_mask_shadow \union mask
                                           ELSE g.input_mask_shadow \ mask
         /\ h.DDR = h.input_mask_shadow
<1> DEFINE h == SetDirection(g, mask, input)
<1> DEFINE shadow == IF input THEN g.input_mask_shadow \union mask
                              ELSE g.input_mask_shadow \ mask
<1>1. h = [initialized |-> g.initialized, output_shadow |-> g.output_shadow,
           input_mask_shadow |-> shadow, DR |-> g.DR, DDR |-> shadow]
  BY DEF SetDirection
<1>2. shadow \subseteq Pins
  BY GpioFields
<1> HIDE DEF shadow
<1>3. h \in Gpio
  BY <1>1, <1>2, GpioFields DEF Gpio
<1> QED BY <1>1, <1>3 DEF shadow

LEMMA WriteFields ==
  ASSUME NEW g \in Gpio, NEW mask \in SUBSET Pins, NEW bits \in SUBSET Pins,
         mask # {}
  PROVE  LET h == WriteMask(g, mask, bits) IN
         /\ h \in Gpio /\ h.initialized = g.initialized
         /\ h.output_shadow = (g.output_shadow \ mask) \union (bits \intersect mask)
         /\ h.DR = h.output_shadow
         /\ h.input_mask_shadow = g.input_mask_shadow /\ h.DDR = g.DDR
<1> DEFINE h == WriteMask(g, mask, bits)
<1> DEFINE shadow == (g.output_shadow \ mask) \union (bits \intersect mask)
<1>1. shadow \in SUBSET Pins
  BY GpioFields
<1>2. h = PutOutputs(g, mask, shadow)
  BY DEF WriteMask
<1> HIDE DEF shadow
<1>3. /\ h \in Gpio /\ h.initialized = g.initialized
      /\ h.output_shadow = shadow /\ h.DR = shadow
      /\ h.input_mask_shadow = g.input_mask_shadow /\ h.DDR = g.DDR
  BY <1>1, <1>2, PutFields
<1> QED BY <1>3 DEF shadow

LEMMA ClearFields ==
  ASSUME NEW g \in Gpio
  PROVE  LET h == ClearMask(g, {QpiPin}) IN
         /\ h \in Gpio /\ h.initialized = g.initialized
         /\ h.output_shadow = g.output_shadow \ {QpiPin} /\ h.DR = h.output_shadow
         /\ h.input_mask_shadow = g.input_mask_shadow /\ h.DDR = g.DDR
<1> DEFINE mask == {QpiPin}
           bits == {}
<1>1. mask \in SUBSET Pins /\ bits \in SUBSET Pins /\ mask # {}
  BY PsramAssumption
<1>2. (g.output_shadow \ mask) \union (bits \intersect mask) = g.output_shadow \ {QpiPin}
  OBVIOUS
<1>3. ClearMask(g, {QpiPin}) = WriteMask(g, mask, bits)
  BY DEF ClearMask
<1> HIDE DEF mask, bits
<1> DEFINE h == WriteMask(g, mask, bits)
<1>4. /\ h \in Gpio /\ h.initialized = g.initialized
      /\ h.output_shadow = (g.output_shadow \ mask) \union (bits \intersect mask)
      /\ h.DR = h.output_shadow
      /\ h.input_mask_shadow = g.input_mask_shadow /\ h.DDR = g.DDR
  BY <1>1, WriteFields
<1> HIDE DEF h
<1>5. ClearMask(g, {QpiPin}) = h
  BY <1>3 DEF h
<1> QED BY <1>2, <1>4, <1>5

LEMMA SetFields ==
  ASSUME NEW g \in Gpio
  PROVE  LET h == SetMask(g, {QpiPin}) IN
         /\ h \in Gpio /\ h.initialized = g.initialized
         /\ h.output_shadow = g.output_shadow \union {QpiPin} /\ h.DR = h.output_shadow
         /\ h.input_mask_shadow = g.input_mask_shadow /\ h.DDR = g.DDR
<1> DEFINE mask == {QpiPin}
<1>1. mask \in SUBSET Pins /\ mask # {}
  BY PsramAssumption
<1>2. (g.output_shadow \ mask) \union (mask \intersect mask) = g.output_shadow \union {QpiPin}
  OBVIOUS
<1>3. SetMask(g, {QpiPin}) = WriteMask(g, mask, mask)
  BY DEF SetMask
<1> HIDE DEF mask
<1> DEFINE h == WriteMask(g, mask, mask)
<1>4. /\ h \in Gpio /\ h.initialized = g.initialized
      /\ h.output_shadow = (g.output_shadow \ mask) \union (mask \intersect mask)
      /\ h.DR = h.output_shadow
      /\ h.input_mask_shadow = g.input_mask_shadow /\ h.DDR = g.DDR
  BY <1>1, WriteFields
<1> HIDE DEF h
<1>5. SetMask(g, {QpiPin}) = h
  BY <1>3 DEF h
<1> QED BY <1>2, <1>4, <1>5

LEMMA DeviceType ==
  ASSUME NEW d \in [mode : {"spi", "armed", "reset", "qpi"}, left : 0 .. Recovery],
         d.mode = "reset" => d.left > 0, NEW c
  PROVE  /\ Execute(d, c) \in [mode : {"spi", "armed", "reset", "qpi"}, left : 0 .. Recovery]
         /\ Execute(d, c).mode = "reset" => Execute(d, c).left > 0
         /\ d.mode = "qpi" => Execute(d, c).mode = "qpi"
         /\ c = "enter_qpi" /\ d.mode # "reset" => Execute(d, c).mode = "qpi"
         /\ DeviceTick(d) \in [mode : {"spi", "armed", "reset", "qpi"}, left : 0 .. Recovery]
         /\ DeviceTick(d).mode = "reset" =>
              d.mode = "reset" /\ DeviceTick(d).left > 0 /\ DeviceTick(d).left = d.left - 1
         /\ d.mode # "reset" => DeviceTick(d) = d
<1> USE PsramAssumption
<1>1. d.mode \in {"spi", "armed", "reset", "qpi"} /\ d.left \in 0 .. Recovery
  OBVIOUS
<1>2. Recovery \in 0 .. Recovery /\ 0 \in 0 .. Recovery /\ Recovery > 0
  OBVIOUS
<1>3. CASE d.mode \in {"spi", "armed"} /\ c = "reset_enable"
  <2>1. Execute(d, c) = [mode |-> "armed", left |-> 0]
    BY <1>3 DEF Execute
  <2>2. DeviceTick(d) = d
    BY <1>3 DEF DeviceTick, Recovering
  <2> QED BY <1>2, <1>3, <2>1, <2>2
<1>4. CASE d.mode = "armed" /\ c = "reset_device"
  <2>1. Execute(d, c) = [mode |-> "reset", left |-> Recovery]
    BY <1>4 DEF Execute
  <2>2. DeviceTick(d) = d
    BY <1>4 DEF DeviceTick, Recovering
  <2> QED BY <1>2, <1>4, <2>1, <2>2
<1>5. CASE d.mode \in {"spi", "armed"} /\ c = "enter_qpi"
  <2>1. Execute(d, c) = [mode |-> "qpi", left |-> 0]
    BY <1>5 DEF Execute
  <2>2. DeviceTick(d) = d
    BY <1>5 DEF DeviceTick, Recovering
  <2> QED BY <1>2, <1>5, <2>1, <2>2
<1>6. CASE /\ ~(d.mode \in {"spi", "armed"} /\ c \in {"reset_enable", "enter_qpi"})
           /\ ~(d.mode = "armed" /\ c = "reset_device")
  <2>1. Execute(d, c) = d
    BY <1>6 DEF Execute
  <2>2. CASE d.mode # "reset"
    <3>1. DeviceTick(d) = d
      BY <2>2 DEF DeviceTick, Recovering
    <3> QED BY <1>1, <1>6, <2>1, <2>2, <3>1
  <2>3. CASE d.mode = "reset" /\ d.left > 1
    <3>1. DeviceTick(d) = [mode |-> "reset", left |-> d.left - 1]
      BY <2>3 DEF DeviceTick, Recovering
    <3>2. d.left - 1 \in 0 .. Recovery
      BY <1>1, <2>3
    <3> QED BY <1>1, <2>1, <2>3, <3>1, <3>2
  <2>4. CASE d.mode = "reset" /\ ~(d.left > 1)
    <3>1. DeviceTick(d) = [mode |-> "spi", left |-> 0]
      BY <2>4 DEF DeviceTick, Recovering
    <3> QED BY <1>1, <1>2, <2>1, <2>4, <3>1
  <2> QED BY <2>2, <2>3, <2>4
<1> QED BY <1>3, <1>4, <1>5, <1>6

\* Steps that leave the port alone keep its part of the invariant.
LEMMA PortUnchanged == Port /\ UNCHANGED <<gpio, wanted>> => Port'
BY DEF Port, Shadows, PinsAsAsked

LEMMA TickInv ==
  ASSUME IInv, Tick
  PROVE  IInv'
<1> USE Parts
<1>1. TimerOK'
  BY TickTimer DEF Tick
<1>2. /\ dev' = DeviceTick(dev)
      /\ UNCHANGED <<gpio, wanted, qspi, cmd, tuning, ppc, stage, remaining, presult, unseen>>
      /\ UNCHANGED <<dpc, dresult, asked>>
      /\ elapsed' \in Nat /\ elapsed \in Nat /\ elapsed' <= elapsed + 1
  BY TimerFacts DEF Tick, TimerTick
<1>3. /\ dev' \in [mode : {"spi", "armed", "reset", "qpi"}, left : 0 .. Recovery]
      /\ dev'.mode = "reset" => dev.mode = "reset" /\ dev'.left > 0 /\ dev'.left = dev.left - 1
      /\ dev.mode # "reset" => dev' = dev
      /\ dev.left \in Nat
  BY <1>2, DeviceType, PsramAssumption DEF PsramTypes, Commands
<1>4. PsramTypes' /\ Port'
  BY <1>2, <1>3, PortUnchanged DEF PsramTypes
<1>5. Pin'
  BY <1>2, <1>3 DEF Pin
<1>6. Commands'
  BY <1>2, <1>3, PsramAssumption DEF Commands
<1> QED BY <1>1, <1>4, <1>5, <1>6, PartsNext

LEMMA CommandDoneInv ==
  ASSUME IInv, CommandDone
  PROVE  IInv'
<1> USE Parts
<1>1. TimerOK' /\ Port'
  BY TimerUnchanged, PortUnchanged DEF CommandDone
<1>2. /\ qspi = "busy" /\ qspi' = "done" /\ dev' = Execute(dev, cmd)
      /\ UNCHANGED <<gpio, wanted, cmd, tuning, ppc, stage, remaining, presult, unseen>>
      /\ UNCHANGED <<dpc, dresult, asked, elapsed>>
  BY DEF CommandDone, timerVars
<1>3. /\ dev' \in [mode : {"spi", "armed", "reset", "qpi"}, left : 0 .. Recovery]
      /\ dev'.mode = "reset" => dev'.left > 0
      /\ dev.mode = "qpi" => dev'.mode = "qpi"
      /\ cmd = "enter_qpi" /\ dev.mode # "reset" => dev'.mode = "qpi"
  BY <1>2, DeviceType DEF PsramTypes, Commands
<1>4. PsramTypes'
  BY <1>2, <1>3 DEF PsramTypes
<1>5. Pin'
  BY <1>2 DEF Pin
<1>6. ppc \notin {"launch", "finish"} \/ stage = 0
  BY <1>2 DEF Commands, PsramTypes, Stages
<1>7. ppc = "poll" /\ stage = 2 => dev'.mode = "qpi"
  BY <1>2, <1>3 DEF Commands, Command
<1>8. Commands'
  BY <1>2, <1>3, <1>6, <1>7 DEF Commands, PsramTypes, Stages
<1> QED BY <1>1, <1>4, <1>5, <1>8, PartsNext

LEMMA PsramInitInv ==
  ASSUME IInv, NEW limit \in PollLimits, PsramInit(limit)
  PROVE  IInv'
<1> USE Parts, PsramAssumption
<1>1. TimerOK'
  BY TimerUnchanged DEF PsramInit
<1>2. /\ ppc = "idle" /\ dpc = "idle" /\ limit \in Nat
      /\ UNCHANGED <<wanted, cmd, dev, tuning, unseen, dpc, dresult, asked, elapsed>>
  BY DEF PsramInit, timerVars
<1>3. CASE Refusal(limit) # "ok"
  <2>1. UNCHANGED <<gpio, qspi, ppc, stage, remaining>>
    BY <1>3 DEF PsramInit
  <2>2. PsramTypes' /\ Port' /\ Pin'
    BY <1>2, <2>1, PortUnchanged DEF PsramTypes, Pin
  <2>3. Commands'
    BY <1>2, <2>1 DEF Commands
  <2> QED BY <1>1, <2>2, <2>3, PartsNext
<1>4. CASE Refusal(limit) = "ok"
  <2>1. gpio.initialized /\ QpiPin \notin gpio.output_shadow
    BY <1>4 DEF Refusal
  <2>2. /\ qspi' = "idle" /\ gpio' = ClearMask(gpio, {QpiPin})
        /\ ppc' = "expose" /\ stage' = 0 /\ remaining' = limit
    BY <1>4 DEF PsramInit
  <2>3. /\ gpio' \in Gpio /\ gpio'.initialized = gpio.initialized
        /\ gpio'.output_shadow = gpio.output_shadow \ {QpiPin}
        /\ gpio'.DR = gpio'.output_shadow
        /\ gpio'.input_mask_shadow = gpio.input_mask_shadow /\ gpio'.DDR = gpio.DDR
    BY <2>2, ClearFields DEF PsramTypes
  <2>4. PsramTypes'
    BY <1>2, <2>2, <2>3 DEF PsramTypes, Stages
  <2>5. Port' /\ Pin'
    BY <1>2, <2>1, <2>2, <2>3 DEF Port, Shadows, PinsAsAsked, Pin, Others
  <2>6. Commands'
    BY <1>2, <2>2 DEF Commands
  <2> QED BY <1>1, <2>4, <2>5, <2>6, PartsNext
<1> QED BY <1>3, <1>4

LEMMA ExposeInv ==
  ASSUME IInv, Expose
  PROVE  IInv'
<1> USE Parts, PsramAssumption
<1>1. TimerOK'
  BY TimerUnchanged DEF Expose
<1>2. /\ ppc = "expose" /\ ppc' = "guard" /\ tuning' = "init"
      /\ gpio' = SetDirection(gpio, {QpiPin}, FALSE)
      /\ UNCHANGED <<wanted, qspi, cmd, dev, stage, remaining, unseen>>
      /\ UNCHANGED <<dpc, dresult, asked, elapsed>>
  BY DEF Expose, timerVars
<1>3. /\ gpio' \in Gpio /\ gpio'.initialized = gpio.initialized
      /\ gpio'.output_shadow = gpio.output_shadow /\ gpio'.DR = gpio.DR
      /\ gpio'.input_mask_shadow = gpio.input_mask_shadow \ {QpiPin}
      /\ gpio'.DDR = gpio'.input_mask_shadow
  <2>1. /\ gpio \in Gpio /\ {QpiPin} \in SUBSET Pins /\ FALSE \in BOOLEAN
        /\ {QpiPin} # {}
    BY DEF PsramTypes
  <2> QED BY <1>2, <2>1, DirectionFields
<1>4. PsramTypes'
  BY <1>2, <1>3 DEF PsramTypes
<1>5. Port' /\ Pin'
  BY <1>2, <1>3 DEF Port, Shadows, PinsAsAsked, Pin, Others
<1>6. stage = 0
  BY <1>2 DEF Commands
<1>7. Commands'
  BY <1>2, <1>6 DEF Commands
<1> QED BY <1>1, <1>4, <1>5, <1>7, PartsNext

LEMMA GuardInv ==
  ASSUME IInv, NEW limit \in DelayLimits, Guard(limit)
  PROVE  IInv'
<1> USE Parts, PsramAssumption
<1>1. /\ ppc = "guard" /\ dpc = "idle" /\ ppc' = "guarding"
      /\ UNCHANGED <<gpio, wanted, qspi, cmd, dev, tuning, stage, remaining, unseen>>
      /\ stage \in Stages /\ Guards[stage] \in Nat /\ limit \in Nat
      /\ Delay(Guards[stage], limit)
  BY DEF Guard, PsramTypes
<1>2. TimerOK'
  BY <1>1, DelayTimer
<1>3. asked' = Guards[stage] /\ elapsed' = 0
  BY <1>1 DEF Delay
<1>4. PsramTypes' /\ Port' /\ Pin'
  BY <1>1, PortUnchanged DEF PsramTypes, Pin
<1>5. Commands'
  BY <1>1, <1>3 DEF Commands, PsramTypes
<1> QED BY <1>2, <1>4, <1>5, PartsNext

LEMMA GuardedInv ==
  ASSUME IInv, Guarded
  PROVE  IInv'
<1> USE Parts, PsramAssumption
<1>1. TimerOK'
  BY TimerUnchanged DEF Guarded
<1>2. /\ ppc = "guarding" /\ dpc = "idle"
      /\ UNCHANGED <<gpio, wanted, qspi, cmd, dev, tuning, unseen>>
      /\ UNCHANGED <<dpc, dresult, asked, elapsed>>
  BY DEF Guarded, timerVars
<1>3. CASE dresult = "ok"
  <2>1. ppc' = (IF stage = 3 THEN "finish" ELSE "launch") /\ UNCHANGED <<stage, remaining>>
    BY <1>3 DEF Guarded
  <2>2. PsramTypes' /\ Port' /\ Pin'
    BY <1>2, <2>1, PortUnchanged DEF PsramTypes, Pin
  <2>3. ASSUME stage = 2 PROVE dev.mode # "reset"
    <3>1. elapsed >= Recovery
      BY <1>2, <1>3, <2>3, GuardWaits DEF IInv, Commands
    <3>2. dev.left \in Nat /\ elapsed \in Nat
      BY TimerFacts DEF PsramTypes
    <3> QED BY <1>2, <2>3, <3>1, <3>2 DEF Commands
  <2>4. Commands'
    BY <1>2, <2>1, <2>3 DEF Commands, PsramTypes, Stages
  <2> QED BY <1>1, <2>2, <2>4, PartsNext
<1>4. CASE dresult # "ok"
  <2>1. ppc' = "idle" /\ stage' = 0 /\ remaining' = 0
    BY <1>4 DEF Guarded, PsramReturn
  <2>2. PsramTypes' /\ Port' /\ Pin'
    BY <1>2, <2>1, PortUnchanged DEF PsramTypes, Pin, Stages
  <2>3. Commands'
    BY <1>2, <2>1 DEF Commands
  <2> QED BY <1>1, <2>2, <2>3, PartsNext
<1> QED BY <1>3, <1>4

LEMMA LaunchInv ==
  ASSUME IInv, Launch
  PROVE  IInv'
<1> USE Parts, PsramAssumption
<1>1. TimerOK'
  BY TimerUnchanged DEF Launch
<1>2. /\ ppc = "launch" /\ stage \in 0 .. 2 /\ remaining \in Nat
      /\ UNCHANGED <<gpio, wanted, dev, tuning, dpc, dresult, asked, elapsed>>
  BY DEF Launch, timerVars, Commands, PsramTypes, Stages
<1>3. CASE remaining = 0
  <2>1. /\ ppc' = "idle" /\ stage' = 0 /\ remaining' = 0
        /\ UNCHANGED <<cmd, qspi, unseen>>
    BY <1>3 DEF Launch, PsramReturn
  <2>2. PsramTypes' /\ Port' /\ Pin'
    BY <1>2, <2>1, PortUnchanged DEF PsramTypes, Pin, Stages
  <2>3. Commands'
    BY <1>2, <2>1 DEF Commands
  <2> QED BY <1>1, <2>2, <2>3, PartsNext
<1>4. CASE remaining # 0
  <2>1. /\ cmd' = Command[stage + 1] /\ qspi' = "busy" /\ unseen' = TRUE
        /\ ppc' = "poll" /\ UNCHANGED <<stage, remaining>>
    BY <1>4 DEF Launch
  <2>2. cmd' \in {"none", "reset_enable", "reset_device", "enter_qpi"} /\ unseen' \in BOOLEAN
    BY <1>2, <2>1, CommandType
  <2>3. PsramTypes'
    BY <1>2, <2>1, <2>2 DEF PsramTypes
  <2>4. Port' /\ Pin'
    BY <1>2, <2>1, PortUnchanged DEF Pin
  <2>5. Command[stage + 1]' = Command[stage + 1]
    BY <2>1 DEF Command
  <2>6. Commands'
    BY <1>2, <1>4, <2>1, <2>5 DEF Commands
  <2> QED BY <1>1, <2>3, <2>4, <2>6, PartsNext
<1> QED BY <1>3, <1>4

LEMMA PollStatusInv ==
  ASSUME IInv, PollStatus
  PROVE  IInv'
<1> USE Parts, PsramAssumption
<1>1. TimerOK'
  BY TimerUnchanged DEF PollStatus
<1>2. /\ ppc = "poll" /\ remaining > 0 /\ remaining' = remaining - 1 /\ unseen' = FALSE
      /\ UNCHANGED <<gpio, wanted, qspi, cmd, dev, tuning, dpc, dresult, asked, elapsed>>
      /\ stage \in 0 .. 2
  BY DEF PollStatus, timerVars, Commands, PsramTypes, Stages
<1>a. remaining' \in Nat
  BY <1>2 DEF PsramTypes
<1>b. unseen' \in BOOLEAN
  BY <1>2, Zenon
<1>3. CASE qspi = "done"
  <2>1. ppc' = "guard" /\ stage' = stage + 1
    BY <1>3 DEF PollStatus
  <2>2. PsramTypes'
    BY <1>2, <1>a, <1>b, <2>1 DEF PsramTypes, Stages
  <2>3. Port' /\ Pin'
    BY <1>2, <2>1, PortUnchanged DEF Pin
  <2>4. Commands'
    BY <1>2, <1>3, <2>1 DEF Commands
  <2> QED BY <1>1, <2>2, <2>3, <2>4, PartsNext
<1>4. CASE qspi # "done"
  <2>1. UNCHANGED <<ppc, stage>>
    BY <1>4 DEF PollStatus
  <2>2. PsramTypes'
    BY <1>2, <1>a, <1>b, <2>1 DEF PsramTypes
  <2>3. Port' /\ Pin'
    BY <1>2, <2>1, PortUnchanged DEF Pin
  <2>4. Commands'
    BY <1>2, <1>4, <2>1 DEF Commands, Command
  <2> QED BY <1>1, <2>2, <2>3, <2>4, PartsNext
<1> QED BY <1>3, <1>4

LEMMA PollTimeoutInv ==
  ASSUME IInv, PollTimeout
  PROVE  IInv'
<1> USE Parts
<1>1. TimerOK'
  BY TimerUnchanged DEF PollTimeout
<1>2. /\ ppc = "poll" /\ remaining = 0 /\ ppc' = "idle" /\ stage' = 0 /\ remaining' = 0
      /\ UNCHANGED <<gpio, wanted, qspi, cmd, dev, tuning, unseen>>
      /\ UNCHANGED <<dpc, dresult, asked, elapsed>>
  BY DEF PollTimeout, PsramReturn, timerVars
<1>3. PsramTypes' /\ Port' /\ Pin'
  BY <1>2, PortUnchanged DEF PsramTypes, Pin, Stages
<1>4. Commands'
  BY <1>2 DEF Commands
<1> QED BY <1>1, <1>3, <1>4, PartsNext

LEMMA FinishInv ==
  ASSUME IInv, Finish
  PROVE  IInv'
<1> USE Parts, PsramAssumption
<1>1. TimerOK'
  BY TimerUnchanged DEF Finish
<1>2. /\ ppc = "finish" /\ ppc' = "tune"
      /\ gpio' = SetMask(gpio, {QpiPin})
      /\ UNCHANGED <<wanted, qspi, cmd, dev, tuning, stage, remaining, unseen>>
      /\ UNCHANGED <<dpc, dresult, asked, elapsed>>
  BY DEF Finish, timerVars
<1>3. /\ gpio' \in Gpio /\ gpio'.initialized = gpio.initialized
      /\ gpio'.output_shadow = gpio.output_shadow \union {QpiPin}
      /\ gpio'.DR = gpio'.output_shadow
      /\ gpio'.input_mask_shadow = gpio.input_mask_shadow /\ gpio'.DDR = gpio.DDR
  BY <1>2, SetFields DEF PsramTypes
<1>4. PsramTypes'
  BY <1>2, <1>3 DEF PsramTypes
<1>5. Port' /\ Pin'
  BY <1>2, <1>3 DEF Port, Shadows, PinsAsAsked, Pin, Commands, Others
<1>6. Commands'
  BY <1>2 DEF Commands
<1> QED BY <1>1, <1>4, <1>5, <1>6, PartsNext

LEMMA RunTimingInv ==
  ASSUME IInv, RunTiming
  PROVE  IInv'
<1> USE Parts
<1>1. TimerOK'
  BY TimerUnchanged DEF RunTiming
<1>2. /\ ppc = "tune" /\ ppc' = "idle" /\ stage' = 0 /\ remaining' = 0 /\ tuning' = "run"
      /\ UNCHANGED <<gpio, wanted, qspi, cmd, dev, unseen, dpc, dresult, asked, elapsed>>
  BY DEF RunTiming, PsramReturn, timerVars
<1>3. PsramTypes' /\ Port' /\ Pin'
  BY <1>2, PortUnchanged DEF PsramTypes, Pin, Stages
<1>4. Commands'
  BY <1>2 DEF Commands
<1> QED BY <1>1, <1>3, <1>4, PartsNext

LEMMA TimerStepInv ==
  ASSUME IInv, TimerStep
  PROVE  IInv'
<1> USE Parts
<1>1. TimerOK'
  BY StartTimer, PollTimer, TimeoutTimer DEF TimerStep, DelayStep
<1>2. /\ UNCHANGED <<gpio, wanted, qspi, cmd, dev, tuning, ppc, stage, remaining, unseen>>
      /\ UNCHANGED <<elapsed, asked>> /\ dpc # "idle"
  BY DEF TimerStep, DelayStep, psramVars, StartChunk, PollData, DelayTimeout
<1>3. PsramTypes' /\ Port' /\ Pin'
  BY <1>2, PortUnchanged DEF PsramTypes, Pin
<1>4. Commands'
  BY <1>2 DEF Commands, Command
<1> QED BY <1>1, <1>3, <1>4, PartsNext

LEMMA AppDelayInv ==
  ASSUME IInv, NEW duration \in Durations, NEW limit \in DelayLimits,
         AppDelay(duration, limit)
  PROVE  IInv'
<1> USE Parts
<1>1. TimerOK'
  BY DelayTimer, PsramAssumption DEF AppDelay
<1>2. /\ UNCHANGED <<gpio, wanted, qspi, cmd, dev, tuning, ppc, stage, remaining, unseen>>
      /\ ppc = "idle"
  BY DEF AppDelay, psramVars
<1>3. PsramTypes' /\ Port' /\ Pin'
  BY <1>2, PortUnchanged DEF PsramTypes, Pin
<1>4. Commands'
  BY <1>2 DEF Commands
<1> QED BY <1>1, <1>3, <1>4, PartsNext

\* The GPIO calls of the application leave the QPI pin alone.
LEMMA AppPort ==
  ASSUME IInv, UNCHANGED <<psramVars, timerVars>>, PsramTypes', Port',
         QpiPin \in gpio'.DR <=> QpiPin \in gpio.DR,
         ppc = "idle", QpiPin \in gpio.DR => QpiPin \notin gpio'.DDR
  PROVE  IInv'
<1> USE Parts
<1>1. TimerOK'
  BY TimerUnchanged
<1>2. Pin' /\ Commands'
  BY DEF Pin, Commands, psramVars, timerVars
<1> QED BY <1>1, <1>2, PartsNext

LEMMA AppInitInv ==
  ASSUME IInv, NEW outputs \in SUBSET Pins, NEW bits \in SUBSET Others, AppInit(outputs, bits)
  PROVE  IInv'
<1> USE Parts, PsramAssumption
<1>1. /\ ppc = "idle" /\ UNCHANGED <<psramVars, timerVars>> /\ ~Mapped
      /\ gpio' = GpioInit(outputs, bits)
      /\ wanted' = [high |-> bits, input |-> Others \ outputs]
  BY DEF AppInit, AppIdle
<1>2. /\ gpio' \in Gpio /\ gpio'.initialized
      /\ gpio'.DR = bits /\ gpio'.output_shadow = bits
      /\ gpio'.DDR = Pins \ outputs /\ gpio'.input_mask_shadow = Pins \ outputs
  BY <1>1 DEF GpioInit, Gpio, Others
<1>3. wanted' \in [high : SUBSET Others, input : SUBSET Pins]
      /\ wanted'.high = bits /\ wanted'.input = Others \ outputs
  BY <1>1 DEF Others
<1>4. PsramTypes'
  BY <1>1, <1>2, <1>3 DEF PsramTypes, psramVars
<1>5. Port'
  BY <1>2, <1>3 DEF Port, Shadows, PinsAsAsked, Others
<1>6. QpiPin \notin gpio'.DR /\ QpiPin \notin gpio.DR
  BY <1>1, <1>2 DEF Others, Mapped, DrivenHigh, Pin
<1> QED BY <1>1, <1>4, <1>5, <1>6, AppPort

LEMMA WantedFields ==
  ASSUME IInv
  PROVE  /\ wanted = [high |-> wanted.high, input |-> wanted.input]
         /\ wanted.high \subseteq Others /\ wanted.input \subseteq Pins
         /\ gpio \in Gpio
BY Parts DEF PsramTypes

LEMMA AppWriteInv ==
  ASSUME IInv, NEW mask \in SUBSET Others, NEW shadow \in SUBSET Pins, NEW high \in SUBSET Others,
         AppIdle, gpio.initialized,
         QpiPin \in shadow <=> QpiPin \in gpio.output_shadow,
         shadow \intersect Others = high, mask = {} => high = wanted.high,
         gpio' = PutOutputs(gpio, mask, shadow),
         wanted' = [wanted EXCEPT !.high = high]
  PROVE  IInv'
<1> USE Parts, PsramAssumption, WantedFields
<1>1. ppc = "idle" /\ UNCHANGED <<psramVars, timerVars>>
  BY DEF AppIdle
<1>2. /\ wanted' \in [high : SUBSET Others, input : SUBSET Pins]
      /\ wanted'.high = high /\ wanted'.input = wanted.input
  OBVIOUS
<1>3. CASE mask = {}
  <2>1. gpio' = gpio
    BY <1>3 DEF PutOutputs
  <2>2. PsramTypes'
    BY <1>1, <1>2, <2>1 DEF PsramTypes, psramVars
  <2>3. Port'
    BY <1>2, <1>3, <2>1 DEF Port, Shadows, PinsAsAsked
  <2> QED BY <1>1, <2>1, <2>2, <2>3, AppPort DEF Pin
<1>4. CASE mask # {}
  <2>1. mask \in SUBSET Pins
    BY DEF Others
  <2>2. /\ gpio' \in Gpio /\ gpio'.initialized = gpio.initialized
        /\ gpio'.output_shadow = shadow /\ gpio'.DR = shadow
        /\ gpio'.input_mask_shadow = gpio.input_mask_shadow /\ gpio'.DDR = gpio.DDR
    <3>1. gpio \in Gpio /\ shadow \in SUBSET Pins
      OBVIOUS
    <3> DEFINE h == PutOutputs(gpio, mask, shadow)
    <3>2. /\ h \in Gpio /\ h.initialized = gpio.initialized
          /\ h.output_shadow = shadow /\ h.DR = shadow
          /\ h.input_mask_shadow = gpio.input_mask_shadow /\ h.DDR = gpio.DDR
      <4> HIDE Parts, PsramAssumption, WantedFields DEF h
      <4> QED BY ONLY <1>4, <2>1, <3>1, PutFields, Zenon DEF h
    <3>3. gpio' = h
      OBVIOUS
    <3> HIDE DEF h
    <3> QED BY <3>2, <3>3
  <2>3. PsramTypes'
    BY <1>1, <1>2, <2>2 DEF PsramTypes, psramVars
  <2>4. Port'
    BY <1>2, <2>2 DEF Port, Shadows, PinsAsAsked
  <2>5. QpiPin \in gpio'.DR <=> QpiPin \in gpio.DR
    BY <2>2 DEF Port, Shadows
  <2> QED BY <1>1, <2>2, <2>3, <2>4, <2>5, AppPort DEF Pin
<1> QED BY <1>3, <1>4

LEMMA AppDirectionInv ==
  ASSUME IInv, NEW mask \in SUBSET Others, NEW input \in BOOLEAN, AppDirection(mask, input)
  PROVE  IInv'
<1> USE Parts, PsramAssumption, WantedFields
<1> DEFINE inputs == IF input THEN wanted.input \union mask ELSE wanted.input \ mask
<1>1. /\ ppc = "idle" /\ UNCHANGED <<psramVars, timerVars>> /\ gpio.initialized
      /\ gpio' = SetDirection(gpio, mask, input)
      /\ wanted' = [wanted EXCEPT !.input = inputs]
  BY DEF AppDirection, AppIdle
<1>2. inputs \subseteq Pins
  BY DEF Others
<1> HIDE DEF inputs
<1>3. /\ wanted' \in [high : SUBSET Others, input : SUBSET Pins]
      /\ wanted'.high = wanted.high /\ wanted'.input = inputs
  BY <1>1, <1>2
<1>4. CASE mask = {}
  <2>1. gpio' = gpio
    BY <1>1, <1>4 DEF SetDirection
  <2>2. inputs = wanted.input
    BY <1>4 DEF inputs
  <2>3. PsramTypes'
    BY <1>1, <1>3, <2>1 DEF PsramTypes, psramVars
  <2>4. Port'
    BY <1>3, <2>1, <2>2 DEF Port, Shadows, PinsAsAsked
  <2> QED BY <1>1, <2>1, <2>3, <2>4, AppPort DEF Pin
<1>5. CASE mask # {}
  <2>1. mask \in SUBSET Pins
    BY DEF Others
  <2>2. /\ gpio' \in Gpio /\ gpio'.initialized = gpio.initialized
        /\ gpio'.output_shadow = gpio.output_shadow /\ gpio'.DR = gpio.DR
        /\ gpio'.input_mask_shadow = IF input THEN gpio.input_mask_shadow \union mask
                                              ELSE gpio.input_mask_shadow \ mask
        /\ gpio'.DDR = gpio'.input_mask_shadow
    <3>1. gpio \in Gpio
      OBVIOUS
    <3> DEFINE h == SetDirection(gpio, mask, input)
    <3>2. /\ h \in Gpio /\ h.initialized = gpio.initialized
          /\ h.output_shadow = gpio.output_shadow /\ h.DR = gpio.DR
          /\ h.input_mask_shadow = IF input THEN gpio.input_mask_shadow \union mask
                                            ELSE gpio.input_mask_shadow \ mask
          /\ h.DDR = h.input_mask_shadow
      BY ONLY <1>5, <2>1, <3>1, input \in BOOLEAN, DirectionFields, SMT
    <3>3. gpio' = h
      BY <1>1
    <3> HIDE DEF h
    <3> QED BY <3>2, <3>3
  <2>3. PsramTypes'
    BY <1>1, <1>3, <2>2 DEF PsramTypes, psramVars
  <2>4. gpio.DDR = gpio.input_mask_shadow /\ gpio.DDR \intersect Others = wanted.input \intersect Others
    BY <1>1 DEF Port, Shadows, PinsAsAsked
  <2>5. gpio'.DDR \intersect Others = inputs \intersect Others
    BY <2>2, <2>4 DEF inputs
  <2>6. Port'
    BY <1>1, <1>3, <2>2, <2>5 DEF Port, Shadows, PinsAsAsked
  <2>7. QpiPin \in gpio.DR => QpiPin \notin gpio'.DDR
    BY <2>2, <2>4 DEF Pin, Others
  <2> QED BY <1>1, <2>2, <2>3, <2>6, <2>7, AppPort
<1> QED BY <1>4, <1>5

LEMMA AppWriteCase ==
  ASSUME IInv, NEW mask \in SUBSET Others, NEW bits \in SUBSET Others, AppWrite(mask, bits)
  PROVE  IInv'
<1> USE PsramAssumption, WantedFields
<1> DEFINE shadow == (gpio.output_shadow \ mask) \union (bits \intersect mask)
           high == (wanted.high \ mask) \union (bits \intersect mask)
<1>1. AppIdle /\ gpio.initialized
  BY DEF AppWrite
<1>2. gpio' = PutOutputs(gpio, mask, shadow) /\ wanted' = [wanted EXCEPT !.high = high]
  BY DEF AppWrite, WriteMask
<1>3. gpio.output_shadow \subseteq Pins /\ gpio.output_shadow \intersect Others = wanted.high
  BY <1>1, Parts, GpioFields DEF Port, Shadows, PinsAsAsked
<1>4. /\ shadow \in SUBSET Pins /\ high \in SUBSET Others
      /\ shadow \intersect Others = high /\ (mask = {} => high = wanted.high)
      /\ QpiPin \in shadow <=> QpiPin \in gpio.output_shadow
  BY <1>3 DEF Others
<1> HIDE DEF shadow, high
<1> QED BY <1>1, <1>2, <1>4, AppWriteInv

LEMMA AppToggleCase ==
  ASSUME IInv, NEW mask \in SUBSET Others, AppToggle(mask)
  PROVE  IInv'
<1> USE PsramAssumption, WantedFields
<1> DEFINE shadow == (gpio.output_shadow \ mask) \union (mask \ gpio.output_shadow)
           high == (wanted.high \ mask) \union (mask \ wanted.high)
<1>1. AppIdle /\ gpio.initialized
  BY DEF AppToggle
<1>2. gpio' = PutOutputs(gpio, mask, shadow) /\ wanted' = [wanted EXCEPT !.high = high]
  BY DEF AppToggle, ToggleMask
<1>3. gpio.output_shadow \subseteq Pins /\ gpio.output_shadow \intersect Others = wanted.high
  BY <1>1, Parts, GpioFields DEF Port, Shadows, PinsAsAsked
<1>4. /\ shadow \in SUBSET Pins /\ high \in SUBSET Others
      /\ shadow \intersect Others = high /\ (mask = {} => high = wanted.high)
      /\ QpiPin \in shadow <=> QpiPin \in gpio.output_shadow
  BY <1>3 DEF Others
<1> HIDE DEF shadow, high
<1> QED BY <1>1, <1>2, <1>4, AppWriteInv

LEMMA StutterInv == IInv /\ UNCHANGED vars => IInv'
<1> SUFFICES ASSUME IInv, UNCHANGED vars PROVE IInv'
  OBVIOUS
<1> USE Parts
<1>1. TimerOK'
  BY TimerUnchanged DEF vars
<1>2. PsramTypes' /\ Port' /\ Pin' /\ Commands'
  BY PortUnchanged DEF vars, psramVars, timerVars, PsramTypes, Pin, Commands, Command
<1> QED BY <1>1, <1>2, PartsNext

LEMMA StepInv == IInv /\ [Next]_vars => IInv'
<1> SUFFICES ASSUME IInv, [Next]_vars PROVE IInv'
  OBVIOUS
<1>1. ASSUME App PROVE IInv'
  BY <1>1, AppInitInv, AppWriteCase, AppToggleCase, AppDirectionInv, AppDelayInv, PsramInitInv
  DEF App
<1>2. ASSUME Driver PROVE IInv'
  BY <1>2, TimerStepInv, ExposeInv, GuardInv, GuardedInv, LaunchInv, PollStatusInv,
     PollTimeoutInv, FinishInv, RunTimingInv DEF Driver
<1> QED BY <1>1, <1>2, TickInv, CommandDoneInv, StutterInv DEF Next

LEMMA Invariance == Spec => []IInv
<1>1. Init => IInv
  BY InitInv
<1> QED BY <1>1, StepInv, PTL DEF Spec
----------------------------------------------------------------------------
\* The bring-up, the delays and the port keep their types: the counter is never
\* loaded with more than its period.
THEOREM TypeCorrect == Spec => []TypeOK
<1>1. IInv => TypeOK
  BY DEF IInv
<1> QED BY <1>1, Invariance, PTL

\* The bridge is switched to QPI only behind a device in QPI mode, and between
\* calls exactly when the running timing is set, for every budget, guard and
\* recovery time.
THEOREM MappedOnlyInQpi == Spec => []MappedMeansQpi
<1>1. IInv => MappedMeansQpi
  BY DEF IInv, Pin, MappedMeansQpi, Mapped, DrivenHigh
<1> QED BY <1>1, Invariance, PTL

\* The bring-up leaves every other pin as the application set it.
THEOREM PinsAlwaysAsAsked == Spec => []PinsAsAsked
<1>1. IInv => PinsAsAsked
  BY DEF IInv
<1> QED BY <1>1, Invariance, PTL

\* Every delay, a timed out one too, leaves the timer stopped.
THEOREM TimerAlwaysStopped == Spec => []TimerStopped
<1>1. IInv => TimerStopped
  BY DEF IInv
<1> QED BY <1>1, Invariance, PTL

\* No bring-up ends with a command launched whose status was never read.
THEOREM CommandsAlwaysObserved == Spec => []CommandsObserved
<1>1. IInv => CommandsObserved
  BY DEF IInv, Commands, CommandsObserved
<1> QED BY <1>1, Invariance, PTL

LEMMA LongEnough == IInv => DelayLongEnough
<1> SUFFICES ASSUME IInv, dresult = "ok", asked > 0
    PROVE  (elapsed + Chunks(Asked)) * Units >= ClockHz * asked
  BY DEF DelayLongEnough, Asked
<1> DEFINE c == Asked
           e == elapsed + Chunks(c)
<1>1. /\ asked \in Nat /\ elapsed \in Nat /\ done \in Nat
      /\ Chunk \in Nat \ {0} /\ Units \in Nat \ {0} /\ ClockHz \in Nat \ {0}
  BY TimerAssumption DEF IInv, TypeOK
<1>2. c \in Nat /\ c * Units >= ClockHz * asked
  BY <1>1, ConvertUp DEF Asked
<1>3. done > 0 /\ elapsed + done >= c /\ (done - 1) * Chunk < c
  BY DEF IInv, Waited
<1> HIDE DEF c
<1>4. done * Chunk <= c + Chunk - 1
  BY <1>1, <1>2, <1>3
<1>5. done <= Chunks(c) /\ Chunks(c) \in Nat
  <2>1. c + Chunk - 1 \in Nat
    BY <1>1, <1>2
  <2> QED BY <1>1, <1>4, <2>1, DivLower, DivMod DEF Chunks
<1>6. e \in Nat /\ e >= c
  BY <1>1, <1>2, <1>3, <1>5
<1> HIDE DEF e
<1>7. e * Units >= c * Units
  BY <1>1, <1>2, <1>6
<1>8. e * Units >= ClockHz * asked
  <2>1. e * Units \in Nat /\ c * Units \in Nat /\ ClockHz * asked \in Nat
    BY <1>1, <1>2, <1>6
  <2> QED BY <1>2, <1>7, <2>1
<1> QED BY <1>8 DEF e, c

\* A delay that reports success took the time asked for, short of at most one
\* clock per chunk, for every clock, counter width and budget of reads.
THEOREM DelaysLongEnough == Spec => []DelayLongEnough
BY LongEnough, Invariance, PTL

\* What a step owes to a mapped memory.
Kept == /\ Mapped' /\ UNCHANGED <<qspi, dev>>
        /\ ppc = "idle" => UNCHANGED tuning

LEMMA MappedStep ==
  ASSUME IInv, Next, Mapped
  PROVE  Kept
<1> USE PsramAssumption DEF Kept
<1>1. /\ QpiPin \in gpio.DR /\ QpiPin \notin gpio.DDR /\ gpio.initialized
      /\ ppc \in {"idle", "tune"} /\ qspi = "done" /\ dev.mode = "qpi"
      /\ QpiPin \in gpio.output_shadow /\ gpio \in Gpio
      /\ gpio.DR = gpio.output_shadow /\ gpio.DDR = gpio.input_mask_shadow
  <2>1. QpiPin \in gpio.DR /\ QpiPin \notin gpio.DDR
    BY DEF Mapped, DrivenHigh
  <2> QED BY <2>1 DEF IInv, TypeOK, Pin, Shadows
<1>2. ASSUME QpiPin \in gpio'.DR, QpiPin \notin gpio'.DDR PROVE Mapped'
  BY <1>2 DEF Mapped, DrivenHigh
<1>3. ASSUME TimerStep PROVE Kept
  BY <1>1, <1>2, <1>3 DEF TimerStep, psramVars
<1>4. ASSUME Tick PROVE Kept
  BY <1>1, <1>2, <1>4 DEF Tick, DeviceTick, Recovering
<1>5. ASSUME NEW limit \in PollLimits, PsramInit(limit)
      PROVE  Kept
  <2>1. Refusal(limit) # "ok"
    BY <1>1 DEF Refusal
  <2> QED BY <1>1, <1>2, <1>5, <2>1 DEF PsramInit
<1>6. ASSUME NEW duration \in Durations, NEW limit \in DelayLimits, AppDelay(duration, limit)
      PROVE  Kept
  BY <1>1, <1>2, <1>6 DEF AppDelay, psramVars
<1>7. ASSUME NEW mask \in SUBSET Others, NEW shadow, QpiPin \in shadow,
             AppIdle, gpio' = PutOutputs(gpio, mask, shadow)
      PROVE  Kept
  <2>1. QpiPin \in gpio'.DR /\ QpiPin \notin gpio'.DDR
    BY <1>1, <1>7 DEF PutOutputs
  <2> QED BY <1>2, <1>7, <2>1 DEF AppIdle, psramVars
<1>8. ASSUME NEW mask \in SUBSET Others, NEW bits \in SUBSET Others, AppWrite(mask, bits)
      PROVE  Kept
  <2> DEFINE shadow == (gpio.output_shadow \ mask) \union (bits \intersect mask)
  <2>1. QpiPin \in shadow
    BY <1>1 DEF Others
  <2>2. AppIdle /\ gpio' = PutOutputs(gpio, mask, shadow)
    BY <1>8 DEF AppWrite, WriteMask
  <2> HIDE DEF shadow
  <2> QED BY <1>7, <2>1, <2>2
<1>9. ASSUME NEW mask \in SUBSET Others, AppToggle(mask)
      PROVE  Kept
  <2> DEFINE shadow == (gpio.output_shadow \ mask) \union (mask \ gpio.output_shadow)
  <2>1. QpiPin \in shadow
    BY <1>1 DEF Others
  <2>2. AppIdle /\ gpio' = PutOutputs(gpio, mask, shadow)
    BY <1>9 DEF AppToggle, ToggleMask
  <2> HIDE DEF shadow
  <2> QED BY <1>7, <2>1, <2>2
<1>10. ASSUME NEW mask \in SUBSET Others, NEW input \in BOOLEAN, AppDirection(mask, input)
       PROVE  Kept
  <2>1. gpio' = SetDirection(gpio, mask, input)
    BY <1>10 DEF AppDirection
  <2>2. QpiPin \in gpio'.DR /\ QpiPin \notin gpio'.DDR
    BY <1>1, <2>1 DEF SetDirection, Others
  <2> QED BY <1>2, <1>10, <2>2 DEF AppDirection, AppIdle, psramVars
<1>11. ASSUME NEW outputs \in SUBSET Pins, NEW bits \in SUBSET Others, AppInit(outputs, bits)
       PROVE  FALSE
  BY <1>11 DEF AppInit
<1>12. ~CommandDone
  BY <1>1 DEF CommandDone
<1>13. ASSUME RunTiming PROVE Kept
  BY <1>1, <1>2, <1>13 DEF RunTiming
<1>14. ASSUME Driver PROVE TimerStep \/ RunTiming
  BY <1>1, <1>14 DEF Driver, Expose, Guard, Guarded, Launch, PollStatus, PollTimeout, Finish
<1> QED BY <1>3, <1>4, <1>5, <1>6, <1>8, <1>9, <1>10, <1>11, <1>12, <1>13, <1>14 DEF Next, App

\* Nothing disturbs a mapped memory, and its timing neither once the call that
\* mapped it has returned: a second bring-up is refused before its
\* first write, and the application's port writes carry the pin along.
THEOREM MappedForever == Spec => MappedStays
<1>1. IInv /\ [Next]_vars => [Mapped => Kept]_vars
  BY MappedStep
<1> QED BY <1>1, Invariance, PTL DEF Spec, MappedStays, Kept
=============================================================================
