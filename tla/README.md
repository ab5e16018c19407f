# A TLA+ verification project for xHive

xHive is an SDK for microcontroller firmware: a build system on top of xmake,
portable C libraries, and board support for several chips. This directory holds
TLA+ models of the parts of it whose correctness depends on the order in which
software, peripherals and interrupts act, the TLC runs that check them on small
instances, and TLAPS proofs of their most important invariants for every
instance.

Paths below are relative to the root of the repository.

## 1. Inventory

| Part | State | Operations | What is hard | What makes it correct |
| --- | --- | --- | --- | --- |
| **C2 I2C master** `vendor/openecos/starrysky/c2/src/c2_i2c.c` | controller registers CTRL, SR, TXR, RXR, CMD; nothing in memory | `master_write`, `master_read`, `master_write_read`, `ack_interrupt`, `enable`, `disable`, `configure`; inside: `issue_command`, `clear_if`, `stop`, `cleanup_failure` | latched completion flag, four kinds of bounded wait, arbitration loss anywhere, cleanup after each failure | OK means the bytes went over the wires; CMD is never overwritten; STOP only by the owner of the bus; every call returns |
| **SHRTIM HAL, outputs and faults** `vendor/nation/hal/src/nation_shrtim.c` | OEN, MCTRL, TxFALT, fault flags, fault states; `s_unit`, `s_fault_attached`, `s_fault_latch`, `s_stopped_outen`, callbacks | `init`, `deinit`, `pwm_init`, `pwm_start`, `pwm_stop`, `out_enable`, `out_disable`, `fault_config`, `fault_attach`, `fault_reset`, `irq_hook`, `irq_enable`, `isr_fault` | fault inputs act at any time, the fault interrupt preempts calls, registers are changed by read-modify-write, software shadows of register state | protection has no gap; a fault holds its outputs until it is reset; stop means stopped; start gives back what stop took |
| **SHRTIM HAL, events** (same file) | IDEN, INTSTS, storm counters, degraded bitmaps | `isr_pass`, `irq_enable`, `capture_read` | read-modify-write of IDEN from thread and interrupt, a source that cannot be cleared | runaways are masked and nothing else; no enable lost, no capture stolen, the main loop never starved |
| **SHRTIM HAL, timing** (same file) | ADC group records, master timer, compare values | `adc_trigger`, `master_period`, `pwm_freq`, `pwm_duty` | integer arithmetic, a master shared by centre-aligned units | not modelled |
| **C2 timer** `c2_timer.c` | a down-counter | `delay_us`, `delay_ms`, system tick | delays longer than the counter, wrap seen only by polling | a delay is not shorter than asked for; the timer is stopped after it |
| **C2 GPIO** `c2_gpio.c` | DR, DDR and their shadows | `init`, direction and output masks | several callers write one port from shadows | every pin as its owner set it |
| **C2 PSRAM bring-up** `c2_psram.c` | QSPI controller, the mode of the device, the bridge pin, a poll budget | `c2_psram_init`, with a delay callback | one budget over three commands, failure half-way and retry | mapped only if the device is in QPI mode, and for good |
| **C2 HP UART, QSPI** `c2_uart.c`, `c2_qspi.c` | registers | bounded transmit and receive, configuration | bounded waits against FIFOs | not modelled |
| **C2 PWM, RNG, PS/2, ARCHINFO** | registers | a few accesses each | little | - |
| **ezctrl PID** `libs/ezctrl/src/pid_impl.h` over **fieldctrl PID** `libs/fieldctrl/src/base_impl.h` | configuration and controller side by side; integral, history, filtered derivative, cached coefficients | `init`, ten setters, `reset`, `reset_to`, `try_update`, `update`; below: `pid_init`, `pid_retune`, `pid_reset`, `pid_step` | partial commits, a cache, lazy construction, anti-windup, overflow in the middle of a step | the configuration reported is in effect, no stale cache or derivative, no windup |
| **Direct torque control** `libs/fieldctrl/src/dtc_impl.h`, `dtc.c` | flux estimate, comparator states, last request | `dtc_init`, `dtc_step` | sector borders, exact bands, rejected steps, inhibited gates | requests obey the comparators; estimate, result and inverter belong together |
| **Window filters** `libs/filters/src/filters_impl.h` with `libs/linears/src/numeric.c` | ring, head, running sum | `init`, `reset`, `step` of FIR, moving average, median | wrap, rejected samples, a sum that is never recomputed, rounding | a sliding window, and the exact function of it |
| **FOC, observers, V/f, other filters, linears** | numerical state | control, estimation, decompositions | trigonometry and floating point | numerical, out of reach of TLC |
| **bitmap, base64** `libs/bitmap`, `libs/base64` | caller's buffer | searches, conversion | word boundaries, shifts | pure functions, left to unit tests |
| **templates, modules, rules** | - | startup code, Lua build logic | I/O of a host tool | - |
| third-party code, vendor packages | - | - | not this program's logic | - |

How they interact: firmware calls the C2 drivers and the SHRTIM HAL as plain
functions. A driver shares the registers of one peripheral with the hardware;
the HAL also shares registers and static variables with its interrupt handlers,
and application callbacks run inside these. The C2 drivers are not reentrant and
use no interrupts; the PSRAM bring-up calls the GPIO driver and, through the
application's callback, the timer driver, and shares the GPIO shadows with the
application. An ezctrl PID owns a fieldctrl PID and keeps its own configuration
beside that one's. The numerical libraries are called from one thread.

## 2. Modules

| Module | What it is |
| --- | --- |
| `I2CScript` | the commands a transfer asks of the controller, as a function of its lengths |
| `I2CTransaction` | what a transfer promises, with no driver and no controller |
| `C2I2C` | the driver, one action per register access, with its controller and bus |
| `ShrtimOutputs` | output drivers, counters and fault protection of the SHRTIM HAL |
| `ShrtimEvents` | event interrupts of one SHRTIM unit, `irq_enable` and `capture_read` |
| `C2Gpio`, `C2Timer` | the GPIO driver as operators on its context, the delays as actions on a timer |
| `C2Psram` | bring-up, GPIO and timer driver, application, QSPI controller and device composed |
| `FieldctrlPid` | the PID controller of fieldctrl as operators |
| `EzcPid` | the ezctrl PID, one action per function, on `FieldctrlPid` |
| `PidLoop` | what an ezctrl PID promises: no cache, no lazy construction, no callback |
| `Dtc` | direct torque control as operators |
| `DtcLoop` | `dtc_init` and `dtc_step` in a loop with inverter and motor |
| `SlidingWindow` | what a ring of samples promises |
| `WindowFilters` | FIR, moving average and median on a ring |
| `...Proofs` | inductive invariants and theorems, one module per component |
| `MC...` | the instances TLC checks |

### C2I2C

`bits` is the set of flags that are up in SR (IF, TIP, AL, BSY, RXK), CTRL.EN and
an acknowledge that has been written and not yet taken effect. `cmd` is the
command the controller is executing, `bus` says who holds the wires, `wire` is
the history of what went over them. The driver has a program counter `pc` that
names its next register access; `stage` and `cont` say who called
`issue_command` and `clear_if`, `poll` counts the reads of the current wait.

Each driver action is one access with the computation up to the next one, so the
controller and another master may act between any two accesses. The controller
may finish a command with or without an acknowledgement from the slave, lose
arbitration, or do nothing for ever. Its RTL is not published: two constants
cover the variants the driver has to cope with, `StopRaisesTip` (does TIP show
during a STOP) and `LateIack` (does IACK take a while). The named assumption
`ControllerAssumption` excludes the one combination in which the driver could
not possibly see that a STOP is still running.

A byte is represented by its position in the script, in TXR, RXR and the
caller's buffer alike, so that order, loss and duplication are visible and the
values are not. Not represented: CTRL.IEN and the prescaler.

### ShrtimOutputs

`oen`, `counting`, `falt`, `acts`, `armed`, `flags`, `inten` are registers as sets
of outputs, units or channels; `configured`, `wanted`, `latch`, `attached`,
`stopped` with `saved` (`s_stopped_outen`) and `hooked` are the HAL's statics. The
application is one thread: a call that makes several register accesses that
matter is in progress while `pc # "idle"`, with `fn`, `unit`, `units`, `todo` its
locals and `copy`, `count` what a read-modify-write has read.

The fault inputs (`Assert`, `Release`, `Trip`) act between any two steps, as does
`IsrFault`, whose callback calls `shrtim_pwm_stop_all`. `SHRTIM_EnableOutput` and
`SHRTIM_TIM_CounterEnable` are `SET_BIT` in the vendor driver, hence `ReadOen`,
`WriteOen` and `ReadMctrl`, `WriteMctrl`; `shrtim_fault_attach` is one action per
register. The other calls are single actions. Among them is
`SHRTIM_TIM_CounterDisable`, itself a read-modify-write of MCTRL; only the fault
interrupt could come in between to any effect, and the properties that look at
the counters (`StoppedHolds`, `StartRestores`) are checked without interrupts. An
argument error changes nothing and is left out.

`cut`, `quiet`, `before` and `hit` are history variables that only properties
read: which latched fault took which output down, what a stop has been followed
by, what was on when a running unit was stopped, whether a fault struck during
the call. The module takes the set of functions the application uses (`Api`) as
a constant, so that a run can concentrate on a combination of calls; the proofs
are for every `Api`.

### ShrtimEvents

`iden` and `sts` are IDEN and INTSTS of one unit, `storm` and `degraded` the guard's
statics, `todo` and `cleared` the state of a running `isr_pass`; the main loop has a
program counter `pc`, the copy of IDEN it has read and the polls it has made. The
interrupt has priority: the main loop advances only when no enabled flag is
pending, and a healthy source fires at most once between two of its steps
(`quota`). A stuck source keeps its flag up whatever is written to INTCLR, until it
recovers. Every register access of `irq_enable` and `capture_read` is a step; the
statements of `isr_pass` are not interrupted by the main loop, but sources fire
between them. A callback may be a one-shot, which masks its own source.

`shrtim_init` without `deinit` keeps the storm counters (`nation_shrtim.c:924` clears
other statics only); `DegradedExactly` counts on across it as the code does.

### C2Psram with C2Gpio and C2Timer

`C2Timer` has a down-counter that runs on between two reads of DATA: `Tick` may act
any number of times anywhere. `c2_timer_delay_clocks` sees a chunk end when it
reads zero or a value larger than the one before; zero is reached one clock
before the reload, so a delay may be one clock short per chunk, which is the
allowance of `DelayLongEnough` and of `GuardAssumption`.

`C2Psram` models `c2_psram_init` access by access where the hardware can come in
between. Its end is two steps, as in the code: `Finish` raises the bridge pin and
`RunTiming` then writes WC and CHD, so there is an interval in which the memory is
mapped and the bring-up timing still set; what the properties say of the timing, they
say of the time after the return. Assumed of the hardware, from how the code uses it:
the write that launches a command clears DONE; a controller reset drops a running
command; the device takes no one-line command in QPI mode or during its reset recovery.
Assumed of the board and the application: the delay callback waits at least the device's
recovery at that stage, the application leaves the QPI pin to the bring-up and does not
initialise the port again once the memory is mapped. A callback that is not given is a
guard of zero. The application uses pins and delays, and retries the bring-up after any
failure.

`c2_psram.h:76-79` says that a failed bring-up neither raises the pin nor writes the run
timing, and that it "does not imply rollback or safe immediate retry". The first is the
second conjunct of `MappedMeansQpi`. As to the second, the model retries at once
whatever mode and recovery the failure left the device in. That this is harmless rests
on the assumption above, that a device in QPI mode or in recovery ignores one-line
commands: the retry then finds the device in QPI mode, as the bridge needs it. For a
device that does not behave so, the runs and proofs say nothing of retries, and the
header's caution stands.

### EzcPid with FieldctrlPid

`cfg` is the configuration of the ezctrl context, `pid` the fieldctrl controller
inside it. Each setter builds a changed configuration, maps it and applies it, or is
rejected; `Update` and `UpdateRejected` are `try_update` with its lazy construction
first and its callback last, and `update`, which differs in what it returns. ezctrl
exists for f32 and f64 only. Scalars are fixed-point integers with `One` as unit and
`Max` as the largest: order, bounds, sign, nearest rounding and the rejection of what
cannot be represented are kept, the rounding of floating point is not. `pid.h` says
a rejected step changes no state; a rejected first step does build the controller,
which no caller can see, and the refinement says so. `WindupStops` has both halves of
what the anti-windup is for: the integral never ends up on the other side of its previous
value than the error pushes it (`base_impl.h:351-353`), and a step that moves it leaves the
command within the bound it moved towards.

### DtcLoop with Dtc

A vector is written in two of the three axes of the hexagon, so that the six inverter
voltages are lattice points and sectors, magnitudes and cross products are exact
integers. Rounding, by which a flux within a unit of a border may fall into the
neighbouring sector, is not represented. In an interval the inverter applies the last
request or, with its gates inhibited, nothing; the motor follows that voltage and the
caller passes the same voltage to `dtc_step`. The motor has its own law (`Follow`) with
its own resistance (`Winding`), so `ObserverTracks` compares the observer with something
it does not define, and only claims to track where it was told the right resistance.
`FewLegsMove` is the claim of `dtc.c:12-13` ("select its nearer one"), against the state
the inverter is really in, and that the rows of the table go round the hexagon leg by
leg. A rejected step loses its interval (`lost`), and making up for that is the caller's
job (`README_dtc.md`): it seeds the estimate again. That the flux stays bounded or the
loop is stable is not claimed.

### WindowFilters

Signals are integers in units of 1/`One`, accumulators in units of 1/`One`^2, as q31 and
the accumulator of linears are for `One` = 2^31. `Mean` follows `quantize_mean`: the
quotient is cut off and then rounded, which the comment at `numeric.c:226` claims to
be one correct rounding; `AverageRight` compares it with one rounding of the exact mean.
That `One` is even is assumed, and matters for it.

`call` is a history variable: the last call that succeeded, with the sample of a step and
the size of an init. `SlidingWindow` has it too and changes its window only together with it:
a step that succeeds pushes that very sample, a call that reports an error is no step of
it at all. A median is given two buffers, and `FilterInit` refuses either when it is too small.
The average of the float formats has no running sum and is not modelled.

## 3. Runs

Passing runs, all exhaustive:

| Run | Instance | Distinct states | What it shows |
| --- | --- | --- | --- |
| `i2c` | transfers of up to two bytes each way, `PollLimit` 2, prompt acknowledge | 143 thousand | the properties of the driver, its liveness and that it implements `I2CTransaction` |
| `i2c_late_ack` | the same with `LateIack` | 418 thousand | OK still means complete when the wait for the acknowledge can run out too |
| `shrtim_faults` | 2 units of 1 output, 2 latched channels | 1.7 million | `ProtectionKept`, `CutHolds`, `Resumes` |
| `shrtim_stop` | 2 units of 1 output, 1 channel, start and stop | 3.8 million | `StoppedHolds`, `StartRestores` |
| `shrtim_pair` | 1 unit of 2 outputs, latched and unlatched, deinit | 650 thousand | `StartRestores` and `Resumes` for outputs enabled one after the other |
| `shrtim_irq` | 1 unit, one channel with an interrupt and one without | 1.0 million | serving one channel never releases the other |
| `shrtim_events` | 3 events, one stuck, two captures of which one a one-shot, limit 3 | 343 thousand | the guard, `EnablesKept`, `CaptureNotStolen` and `CallReturns` under a runaway |
| `c2_bringup` | 2 pins, a counter of 3 values, budgets that suffice and that run out in every phase | 105 thousand | the bring-up with retries, the port shared with the application, the delays, and that calls return |
| `ezc_pid` | `Max` 3, `One` 2, two periods, for init and each setter an argument it accepts and one it refuses | 99 thousand | configuration, cache, integral, anti-windup, and that it implements `PidLoop` |
| `dtc` | flux up to 6, two torque directions and none, inhibited gates, rejected steps | 271 thousand | requests, observer, commit and the legs that move |
| `window_filters` | windows 1 to 4, samples -1 to 3/4 in quarters, four different taps | 95 thousand | each output is the exact function of the window, and the ring implements `SlidingWindow` |

Bounds. A poll limit of 2 gives every wait a read that goes on and a last one; a
longer limit repeats the first kind. The transfers (`MCOps`) are a write of two
bytes, reads of one and two, and a combined one with its repeated START: each
kind of command first, in the middle and last. Two units are what it takes for the
read-modify-write made for one to meet a fault of the other, two channels what it
takes for the reset of one to meet the other; the loops treat further ones alike.
A storm limit of 3 lets a counter start, go on and reach it, and be reset in
between. With a counter of three values a guard takes more than one chunk, and with
budgets 2, 3 and 5 a bring-up is refused, runs out between two commands, and
succeeds. In `ezc_pid` the range is small enough that sums, products and
quotients leave it, so that steps are rejected in every term, and the limits are
narrow enough that output and integral saturate on both sides; the derivative filter,
the weights and the measurement as its source are turned on by an init and changed by
setters. The intervals, bands
and voltages of `dtc` put the flux on sector borders and on the edges of both bands; of its
references one has a flux no larger than the band and is always refused.
Windows up to four have a wrap, an even and an odd median and the window of one; the
taps add up to more than one, so that FIR results are rejected too.

A deadlock cannot occur in these models because the environment or the application
can always act; none is reported.

One run, `shrtim_latch_irq`, refutes what the sources say (section 5).

Fairness. `CallReturns` of the I2C driver and the liveness in `I2CTransaction` assume
weak fairness of the driver's steps only: the processor goes on executing the call.
Nothing is assumed of the controller, the slaves or other masters, in keeping with
the header's "never waits forever". `CallReturns` of the bring-up likewise assumes
only that the processor executes `Driver` steps: commands may never complete and the
counter may never be seen to wrap. `CallReturns` of `ShrtimEvents` assumes that a pending
interrupt is served (`WF(Isr)`) and that the main loop continues when none is
(`WF(Resume)`); that a stuck source cannot make it wait for ever is the work of the
guard. The safety runs use no fairness.

The type invariants, and three properties that their modules' proofs establish
(`NoStaleDerivative`, `TimerStopped`, `CommandsObserved`), are not repeated in
the runs: section 4 has them for every instance.

Some hazards in `PROJECT.json` have no property: what can go wrong there does, in the
model as in the code (section 5), and the properties make the exception. `EnablesKept` is
about the enables `capture_read` takes away and has to give back; no callback of the
model enables a source other than its own.

Each property of a run has a mutant, an operator next to the definition it replaces that
contains a plausible mistake (a dropped flag clear, a detached channel, an
uncounted read); TLC finds the property violated with it.

## 4. Proofs

`C2I2CProofs`, for every `PollLimit`, every set of transfers and every controller
that satisfies `ControllerAssumption`:

- `TypeCorrect`; no wait reads SR more than `poll_limit` times;
- `NeverOverwritten`: `[]CmdNeverOverwritten`;
- `CompletionIsFresh`: `[]NoStaleCompletion`;
- `StopByOwner`: `[]StopOnlyByOwner`;
- `QuietWhenDisabled`: `[]DisabledMeansQuiet`;
- `BusIsReleased`: `[]BusReleased`;
- `OkIsComplete`: `[]OkMeansComplete`;
- `RefinesTransaction`: `Transaction!Safety`, the abstract transaction without its
  fairness.

None of these is inductive by itself. The invariant of that module ties the flags
to the controller: a running command shows as TIP (or, for a STOP without TIP,
as a bus that is held), IF is down from the moment `clear_if` has succeeded until
the command ends, and the program counter at each wait implies which of these
may hold. `CmdNeverOverwritten` then follows from "TIP was seen down by the read
before, and only the driver starts commands".

The last three build on it with two more invariants. `ReleaseInv /\ StatusInv`: once no
STOP is left to be written and none is waited for, the bus is released and the
controller at rest unless a wait ran out, and each program counter implies whether the
call has a status already. `ScriptInv` says how far the transfer has come: the command
in the controller, even one the call gave up waiting for, is the next of the script
(`CommandInv`); what the driver has seen tells it how much of the script the wires have
carried (`ProgressInv`, where `Sent` is the moment at which the byte is out and its
acknowledgement is not known yet); and the buffer holds the bytes of that part
(`BufferInv`). `C2_OK` is assigned after the STOP only, hence `OkMeansComplete`. The
refinement is proved step by step: a command that ends on the wires is a step of the
transaction, the return of the call closes it, everything else leaves it alone.

`ShrtimOutputsProofs`, for any number of units, outputs and channels, any
interrupts and any set of calls:

- `TypeCorrect`;
- `ProtectionIsKept`: `[]ProtectionKept`;
- `LatchedFaultHolds`: `[]CutHolds`;
- `StopHolds`, `StartIsComplete`, `ResetResumes`: `[]StoppedHolds`, `[]StartRestores` and
  `Resumes`, for behaviours with `[]Undisturbed`.

The invariant `SafetyInv` adds which locals are live at which step (`CallInv`),
that an unclocked peripheral has nothing armed (`ClockInv`), that what is to be
detached is gone before anything is attached (`AttachInv`), and `HeldInv`: an
output that a fault holds down is off both in OEN and in the copy about to be
written back, its flag is still up and visible to its unit, and the call in
progress neither names its unit nor resets its channel. The copy is the point:
without it the write of a read-modify-write would bring the output back.

`Undisturbed` says that the application has hooked no fault callback; the callback of the
model stops all units. The hypothesis is needed: a callback that stops the units in
the middle of a call is undone by the write-back of what the call had read (section 5,
item 2). Interrupts may be enabled and served all the same, and `NoInterrupts` shows that
the hypothesis always holds where no channel has an interrupt, as in the runs
`shrtim_stop`, `shrtim_pair` and `shrtim_faults`. Each of the three has its own
invariant. `StopInv`: the
counter and drivers of a stopped unit are off in the registers and in the copies about
to be written, and the call in progress works on other units. `RestoreInv`: an output
that was on is in the snapshot until the start puts it on its list, then on the list or
on. `ResumeInv`: a wanted output of the unit being released is on or on the list.

`ShrtimEventsProofs`, for any number of events, sets of captures, stuck sources and
one-shots, and any limits: `TypeCorrect`, `DegradedIsRunaway`, `EnablesAlwaysKept`,
`CaptureNeverStolen`. The invariant adds that the storm counter is the length of
the streak of ineffective clears, short of the limit (`Counts`), that what the
application wants is enabled or about to be written back from the copy (`Kept`),
that the captures are masked while `capture_read` polls (`Masked`), and the bounds of
the spin (`Spins`). `Kept` is where the interleaving is: between a read and a write of
IDEN the enables live in the copy.

`C2PsramProofs`, for every set of pins, counter width, clock, recovery time and budget
that satisfy the named assumptions: `TypeCorrect`, `MappedOnlyInQpi`, `MappedForever`,
`PinsAlwaysAsAsked`, `TimerAlwaysStopped`, `CommandsAlwaysObserved`, `DelaysLongEnough`.
The invariant relates the clocks elapsed to the counter, the last value read and the
chunks still to come (`Delaying`); the device's remaining recovery to the elapsed clocks of
the guard (`Waited`); shadows to registers (`Shadows`); the QPI pin to the phase of the
bring-up (`Pin`); and each phase to the mode the device must be in (`Commands`).
`MappedMeansQpi` rests on the chain of all of them: the enter-QPI command is
launched only after a guard that was long enough for the reset to be over. The timing
follows from the phase: it is the running one only after `RunTiming`, which nothing but
`Finish` leads to.

`EzcPidProofs`, for every `Max`, `One` and set of inputs: `TypeCorrect`,
`ConfigAlwaysInEffect`, `IntegralAlwaysInBounds`, `CacheAlwaysFresh`,
`DerivativeNeverStale`, `ReportsAddUp`, `NeverWindsUp` and `Refinement`, the
implementation of `PidLoop`. The invariants are proved together: the cache is current
because the controller runs the configuration that was mapped, the anti-windup is right
because the integral it starts from was in bounds, and never goes back because the
increment has the sign of the drive and the boundary is taken only on the way. Lemmas
state what each fieldctrl function preserves, and the proof of a setter cites them
through one lemma on `Apply`. In the refinement a step with cached coefficients equals
one that computes them because the cache is current.

`DtcProofs`, for every configuration, reference, interval and scale: `TypeCorrect`,
`RequestsObey`, `AlwaysOneStep`, `ObserverAlwaysTracks`, `FewLegsAlwaysMove`. The four
invariants are inductive together with `FromTable`: the inverter is in the state that the
row of its comparators has for the sector. `FewLegsAlwaysMove` needs it, and the fact that
two entries of a row differ in as many legs as their sectors are apart. `RequestsObey` is
the switching table proved sector by sector: the inequalities that define a sector
imply the sign of the cross and dot product with the vector the table gives.

`WindowFiltersProofs`, for every window size, sample range and set of taps:
`TypeCorrect`; `Refinement`, the ring with its head implements `SlidingWindow`, success
by success, with the invariant `Ring`; and what each filter computes, `FirCorrect`,
`AverageCorrect` and `MedianCorrect` (`[]FirRight`, `[]AverageRight`, `[]MedianRight`),
with `AverageNeverRejects`, by which the range error of `linears_accum_mean_q31` cannot
occur in a moving average. With `Ring` these three are inductive; the work is in the
functions. They need induction over the length of the window. The library's induction
theorems take an operator, which the provers cannot instantiate, so the module proves
its own from the well-foundedness of `<`: a set of numbers that has 0 and with each
number the next has them all (`Induction`). A claim is proved by applying it to the set
of the lengths for which the claim holds. From there:

- the accumulator of the FIR ends with the sum of the products, and the delay line read
  while a sample comes in is the window after it was accepted;
- a push changes the sum of the window by the new sample and the oldest, which is the
  one under the head; so the running sum never drifts;
- the quotient cut off and then rounded equals the exact mean rounded once
  (`RoundOnce`). This needs an even `One`, which `FilterAssumption` states and 2^31 is; for
  an odd one it is false;
- a pass of the insertion sort extends the sorted part and rearranges the window, so the
  result is in order and a permutation of the ring, which is a permutation of the
  window; the sample at place r then has rank r, by an injection in each direction.

Only model-checked: liveness, that is `CallReturns` of three modules and the fairness in
`I2CTransaction`, which is out of the prover's reach; and `Resumes`, `StoppedHolds`,
`StartRestores` have no theorem for applications whose fault callback stops units, for
which they are not claimed. Every other property of the runs has a theorem.

## 5. Disagreements between the code and its documentation

1. **Latch and interrupt** (`shrtim_latch_irq`). `shrtim_isr_fault` clears the flag
   of a latched channel. `shrtim_fault_reset` of another channel of the same unit
   looks at flags only, finds none and drives the outputs again, though
   `nation_shrtim.h:182` has the fault active "until shrtim_fault_reset()".

The model has these too; no run states them, since the sources leave room for
argument:

2. **Latch and read-modify-write.** A fault that clears the OEN bit of one unit
   between the read and the write that enables another is undone by the write. So is one
   that strikes after `shrtim_fault_reset` has looked at the flags of its unit. The
   same happens to counters and outputs stopped by a callback in that window.
3. **Stop and reset.** A fault reset drives the outputs of a unit that was stopped,
   against `nation_shrtim.h:335`.
4. **Snapshot.** stop, `out_disable`, start drives the disabled output, against
   `nation_shrtim.h:329` and `:366`. In the same way `pwm_init` without
   `enable_outputs` leaves the drivers of an earlier configuration on (`PwmInitOff`).
5. **Unlatched flag.** The comment at `nation_shrtim.c:1969` supposes that an
   unlatched flag is released by itself, the one at `:1897` that silicon latches
   every flag; the code never clears it, so it blocks the reset of the other
   channels of the unit.
6. **Lost disable.** A callback that disables its own event inside the
   read-modify-write of an interrupted `capture_read` or `irq_enable` is undone by the
   write, against `nation_shrtim.h:575` ("false = mask").

`CutHolds`, `StoppedHolds`, `Resumes` and `EnablesKept` are what does hold beside these:
each states the exception it makes in its comment.

## 6. Plan

1. Proofs: the exact exception under which `StoppedHolds` and `Resumes` survive a fault
   callback that stops units, as an invariant with the window of the read-modify-write in
   it; the equations of the derivative and of the anti-windup as lemmas of their own.
2. `C2Uart`: bounded transmit and receive against FIFOs, flush and reconfigure.
3. ADC trigger groups and the shared master of centre-aligned units.
4. The biquad of `filters_impl.h`, whose sections commit together from a workspace.

## 7. Not modelled

Numerical code whose correctness is a matter of analysis (FOC, observers, Kalman and
particle filters, decompositions), pure conversions (bitmap, base64), startup code,
the Lua build system and all vendored code, for the reasons given in `PROJECT.json`.
Most of the lines under `libs/` are third-party libraries (mbedtls, llhttp, xxhash,
micro-ecc and others) that the SDK only packages, so that the models stand for a small
share of all lines though they cover most of the program's own stateful logic.

Of the modelled files: waveform programming (timing, crossbars, dead time, chopper,
polarity), the SYSFALT event, `shrtim_out_force`, the counter restart inside
`shrtim_pwm_freq` and `shrtim_pwm_deadtime`, CTRL.IEN and the I2C prescaler, the system
tick, the float and q15 formats of the filters, and argument and aliasing checks,
which change nothing.
