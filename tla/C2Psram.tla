------------------------------ MODULE C2Psram -------------------------------
(***************************************************************************)
(* The PSRAM bring-up of the StarrySky C2, with the drivers it is made of: *)
(* raw QSPI commands that share one budget of status reads, the GPIO pin   *)
(* that switches the bridge to mapped QPI access, and a delay callback     *)
(* that waits with the timer driver.  The application calls GPIO and timer *)
(* functions before and after, and may retry a bring-up that failed.       *)
(***************************************************************************)
EXTENDS C2Gpio, C2Timer

CONSTANTS QpiPin,      \* C2_PSRAM_QPI_MODE_GPIO_MASK
          Recovery,    \* clocks the device needs after a reset
          Guards,      \* duration the callback waits at each stage
          PollLimits,  \* status read budgets tried
          DelayLimits, \* DATA read budgets tried
          Durations    \* delays of the application

Stages == 0 .. 3

ASSUME PsramAssumption ==
  /\ QpiPin \in Pins
  /\ Recovery \in Nat \ {0}
  /\ Guards \in [Stages -> Nat]
  /\ PollLimits \subseteq Nat /\ DelayLimits \subseteq Nat /\ Durations \subseteq Nat

\* The board waits for the device's reset, and a clock per chunk more.
ASSUME GuardAssumption ==
  Recovery + Chunks(ConvertClocks(Guards[2])) <= ConvertClocks(Guards[2])

VARIABLES
  gpio,      \* the GPIO context and its registers
  qspi,      \* STATUS: no command, one running, one done
  cmd,       \* the raw command in TXFIFO
  dev,       \* the device: mode, clocks left of its reset
  tuning,    \* WC and CHD: reset, init or run values
  ppc,       \* next step of c2_psram_init
  stage,     \* delay stage at hand
  remaining, \* status reads left
  presult,   \* status of the last call
  unseen,    \* history: the last command's STATUS has not been read
  wanted     \* history: output and input pins as the application set them

psramVars == <<qspi, cmd, dev, tuning, ppc, stage, remaining, presult, unseen>>
vars == <<gpio, wanted, psramVars, timerVars>>

Init == /\ TimerInit
        /\ gpio = NoGpio
        /\ qspi = "idle" /\ cmd = "none" /\ dev = [mode |-> "spi", left |-> 0]
        /\ tuning = "reset"
        /\ ppc = "idle" /\ stage = 0 /\ remaining = 0 /\ presult = "none"
        /\ unseen = FALSE /\ wanted = [high |-> {}, input |-> Pins]

\* The bridge is in mapped QPI mode.
Mapped == QpiPin \in DrivenHigh(gpio)
----------------------------------------------------------------------------
(***************************************************************************)
(* The hardware.                                                           *)
(***************************************************************************)
\* The reset ends in SPI mode; in QPI mode a one-line command is not seen.
Execute(d, c) ==
  CASE d.mode \in {"spi", "armed"} /\ c = "reset_enable" -> [mode |-> "armed", left |-> 0]
    [] d.mode = "armed" /\ c = "reset_device" -> [mode |-> "reset", left |-> Recovery]
    [] d.mode \in {"spi", "armed"} /\ c = "enter_qpi" -> [mode |-> "qpi", left |-> 0]
    [] OTHER -> d

Recovering(d) == d.mode = "reset"

DeviceTick(d) ==
  IF ~Recovering(d) THEN d
  ELSE IF d.left > 1 THEN [mode |-> "reset", left |-> d.left - 1]
  ELSE [mode |-> "spi", left |-> 0]

Tick == /\ TimerTick
        /\ dev' = DeviceTick(dev)
        /\ UNCHANGED <<gpio, wanted, qspi, cmd, tuning, ppc, stage, remaining, presult, unseen>>

CommandDone ==
  /\ qspi = "busy"
  /\ qspi' = "done" /\ dev' = Execute(dev, cmd)
  /\ UNCHANGED <<gpio, wanted, cmd, tuning, ppc, stage, remaining, presult, unseen, timerVars>>
----------------------------------------------------------------------------
(***************************************************************************)
(* c2_psram_init.                                                          *)
(***************************************************************************)
PsramReturn(result) ==
  /\ ppc' = "idle" /\ presult' = result /\ stage' = 0 /\ remaining' = 0

\* Mutant: the shadow of the QPI pin is not looked at.
MutantNeverBusy(limit) ==
  IF ~gpio.initialized THEN "not_initialized"
  ELSE IF limit < 3 THEN "invalid"
  ELSE "ok"

\* The checks before the first write.
Refusal(limit) ==
  IF ~gpio.initialized THEN "not_initialized"
  ELSE IF limit < 3 THEN "invalid"
  ELSE IF QpiPin \in gpio.output_shadow THEN "busy"
  ELSE "ok"

\* The controller is reset, which drops a command still running, and the pin
\* is latched low.
PsramInit(limit) ==
  /\ ppc = "idle" /\ dpc = "idle"
  /\ IF Refusal(limit) # "ok"
     THEN /\ presult' = Refusal(limit)
          /\ UNCHANGED <<gpio, qspi, ppc, stage, remaining>>
     ELSE /\ qspi' = "idle" /\ gpio' = ClearMask(gpio, {QpiPin})
          /\ ppc' = "expose" /\ presult' = "none"
          /\ stage' = 0 /\ remaining' = limit
  /\ UNCHANGED <<wanted, cmd, dev, tuning, unseen, timerVars>>

\* The pin becomes an output; conservative timing for the commands.
Expose ==
  /\ ppc = "expose"
  /\ gpio' = SetDirection(gpio, {QpiPin}, FALSE)
  /\ tuning' = "init"
  /\ ppc' = "guard"
  /\ UNCHANGED <<wanted, qspi, cmd, dev, stage, remaining, presult, unseen, timerVars>>

\* The delay callback of a stage.
Guard(limit) ==
  /\ ppc = "guard" /\ dpc = "idle"
  /\ Delay(Guards[stage], limit)
  /\ ppc' = "guarding"
  /\ UNCHANGED <<gpio, wanted, qspi, cmd, dev, tuning, stage, remaining, presult, unseen>>

\* Mutant: the status of the callback is dropped.
MutantIgnoreDelay ==
  /\ ppc = "guarding" /\ dpc = "idle"
  /\ ppc' = (IF stage = 3 THEN "finish" ELSE "launch")
  /\ UNCHANGED <<gpio, wanted, qspi, cmd, dev, tuning, stage, remaining, presult, unseen, timerVars>>

\* The callback has returned.
Guarded ==
  /\ ppc = "guarding" /\ dpc = "idle"
  /\ IF dresult = "ok"
     THEN /\ ppc' = IF stage = 3 THEN "finish" ELSE "launch"
          /\ UNCHANGED <<stage, remaining, presult>>
     ELSE PsramReturn(dresult)
  /\ UNCHANGED <<gpio, wanted, qspi, cmd, dev, tuning, unseen, timerVars>>

Command == <<"reset_enable", "reset_device", "enter_qpi">>

\* c2_psram_raw_command: nothing is launched that cannot be observed.
Launch ==
  /\ ppc = "launch"
  /\ IF remaining = 0
     THEN PsramReturn("timeout") /\ UNCHANGED <<cmd, qspi, unseen>>
     ELSE /\ cmd' = Command[stage + 1] /\ qspi' = "busy"
          /\ unseen' = TRUE /\ ppc' = "poll"
          /\ UNCHANGED <<stage, remaining, presult>>
  /\ UNCHANGED <<gpio, wanted, dev, tuning, timerVars>>

\* Mutant: the reads are not counted.
MutantUncounted ==
  /\ ppc = "poll" /\ remaining > 0
  /\ unseen' = FALSE
  /\ IF qspi = "done" THEN ppc' = "guard" /\ stage' = stage + 1
                      ELSE UNCHANGED <<ppc, stage>>
  /\ UNCHANGED <<gpio, wanted, qspi, cmd, dev, tuning, remaining, presult, timerVars>>

PollStatus ==
  /\ ppc = "poll" /\ remaining > 0
  /\ remaining' = remaining - 1 /\ unseen' = FALSE
  /\ IF qspi = "done" THEN ppc' = "guard" /\ stage' = stage + 1
                      ELSE UNCHANGED <<ppc, stage>>
  /\ UNCHANGED <<gpio, wanted, qspi, cmd, dev, tuning, presult, timerVars>>

PollTimeout ==
  /\ ppc = "poll" /\ remaining = 0
  /\ PsramReturn("timeout")
  /\ UNCHANGED <<gpio, wanted, qspi, cmd, dev, tuning, unseen, timerVars>>

\* The bridge is switched, still with the conservative timing.
Finish ==
  /\ ppc = "finish"
  /\ gpio' = SetMask(gpio, {QpiPin})
  /\ ppc' = "tune"
  /\ UNCHANGED <<wanted, qspi, cmd, dev, tuning, stage, remaining, presult, unseen, timerVars>>

\* The running timing is the final write pair.
RunTiming ==
  /\ ppc = "tune"
  /\ tuning' = "run"
  /\ PsramReturn("ok")
  /\ UNCHANGED <<gpio, wanted, qspi, cmd, dev, unseen, timerVars>>
----------------------------------------------------------------------------
(***************************************************************************)
(* The application.  It leaves the QPI pin to c2_psram_init, and does not  *)
(* initialise the port again once the memory is mapped.                    *)
(***************************************************************************)
AppIdle == ppc = "idle" /\ dpc = "idle" /\ UNCHANGED <<psramVars, timerVars>>

Others == Pins \ {QpiPin}

AppInit(outputs, bits) ==
  /\ AppIdle /\ ~Mapped
  /\ gpio' = GpioInit(outputs, bits)
  /\ wanted' = [high |-> bits, input |-> Others \ outputs]

AppWrite(mask, bits) ==
  /\ AppIdle /\ gpio.initialized
  /\ gpio' = WriteMask(gpio, mask, bits)
  /\ wanted' = [wanted EXCEPT !.high = (@ \ mask) \union (bits \intersect mask)]

AppToggle(mask) ==
  /\ AppIdle /\ gpio.initialized
  /\ gpio' = ToggleMask(gpio, mask)
  /\ wanted' = [wanted EXCEPT !.high = (@ \ mask) \union (mask \ @)]

AppDirection(mask, input) ==
  /\ AppIdle /\ gpio.initialized
  /\ gpio' = SetDirection(gpio, mask, input)
  /\ wanted' = [wanted EXCEPT !.input = IF input THEN @ \union mask ELSE @ \ mask]

AppDelay(duration, limit) ==
  /\ ppc = "idle"
  /\ Delay(duration, limit)
  /\ UNCHANGED <<gpio, wanted, psramVars>>

TimerStep == DelayStep /\ UNCHANGED <<gpio, wanted, psramVars>>

App == \/ \E outputs \in SUBSET Pins, bits \in SUBSET Others : AppInit(outputs, bits)
       \/ \E mask \in SUBSET Others, bits \in SUBSET Others : AppWrite(mask, bits)
       \/ \E mask \in SUBSET Others : AppToggle(mask)
       \/ \E mask \in SUBSET Others, input \in BOOLEAN : AppDirection(mask, input)
       \/ \E duration \in Durations, limit \in DelayLimits : AppDelay(duration, limit)
       \/ \E limit \in PollLimits : PsramInit(limit)

Driver == \/ TimerStep
          \/ Expose \/ \E limit \in DelayLimits : Guard(limit)
          \/ Guarded \/ Launch \/ PollStatus \/ PollTimeout \/ Finish \/ RunTiming

Next == App \/ Driver \/ Tick \/ CommandDone

Spec == Init /\ [][Next]_vars

\* The processor executes the call it is in.
FairSpec == Spec /\ WF_vars(Driver)
----------------------------------------------------------------------------
\* Type invariant.
TypeOK ==
  /\ gpio \in Gpio /\ wanted \in [high : SUBSET Others, input : SUBSET Pins]
  /\ qspi \in {"idle", "busy", "done"}
  /\ cmd \in {"none", "reset_enable", "reset_device", "enter_qpi"}
  /\ dev \in [mode : {"spi", "armed", "reset", "qpi"}, left : 0 .. Recovery]
  /\ tuning \in {"reset", "init", "run"} /\ stage \in Stages /\ unseen \in BOOLEAN
  /\ ppc \in {"idle", "expose", "guard", "guarding", "launch", "poll", "finish", "tune"}
  /\ dpc \in {"idle", "start", "poll"}
  /\ remaining \in Nat /\ polls \in Nat /\ clocks \in Nat
  /\ elapsed \in Nat /\ asked \in Nat /\ done \in Nat
  /\ tim \in [run : BOOLEAN, load : 0 .. Chunk - 1, DATA : 0 .. Chunk - 1]
  /\ tim.DATA <= tim.load /\ previous \in 0 .. Chunk - 1

\* The bridge is switched to QPI only when the device is in QPI mode, whatever
\* timed out, was retried or came late before; between calls it is switched
\* exactly when the running timing is set, so a bring-up that failed has left
\* neither.
MappedMeansQpi == /\ Mapped => dev.mode = "qpi"
                  /\ ppc = "idle" => (Mapped <=> tuning = "run")

\* Once mapped, nothing disturbs the device or the pin, and after the call that
\* mapped it the timing neither: another c2_psram_init is refused without a
\* write.
MappedStays ==
  [][Mapped => /\ Mapped' /\ UNCHANGED <<qspi, dev>>
               /\ ppc = "idle" => UNCHANGED tuning]_vars

\* The other pins are as the application set them: the bring-up writes the
\* whole port from the shadow and changes one bit.
PinsAsAsked == gpio.initialized => /\ gpio.DR \intersect Others = wanted.high
                                   /\ gpio.DDR \intersect Others = wanted.input \intersect Others

\* A delay that reports success took the time asked for, short of at most one
\* clock per chunk, however late the reads of DATA came.
DelayLongEnough ==
  dresult = "ok" /\ asked > 0 =>
    (elapsed + Chunks(ConvertClocks(asked))) * Units >= ClockHz * asked

\* Every delay, a timed out one too, leaves the timer stopped.
TimerStopped == dpc = "idle" => ~tim.run

\* No call ends with a command launched whose status was never read.
CommandsObserved == ppc = "idle" => ~unseen

\* A bring-up returns, though a command may never complete and the counter may
\* wrap unseen.
CallReturns == ppc # "idle" ~> ppc = "idle"
=============================================================================
