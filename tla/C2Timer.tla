------------------------------- MODULE C2Timer ------------------------------
(***************************************************************************)
(* The delays of the StarrySky C2 timer driver.  The down-counter runs on  *)
(* between two reads of DATA, by any number of clocks; a delay longer than *)
(* the counter is made of chunks that share one budget of reads.           *)
(***************************************************************************)
EXTENDS Integers

CONSTANTS Chunk,     \* clocks of a full counter period (2^32)
          ClockHz,   \* timer clock
          Units      \* time units per second (1000 or 1000000)

ASSUME TimerAssumption == /\ Chunk \in Nat \ {0}
                          /\ ClockHz \in Nat \ {0}
                          /\ Units \in Nat \ {0}

VARIABLES
  tim,      \* the counter: running, reload value, DATA
  dpc,      \* next step of the delay call
  clocks,   \* clocks of the chunks that are not complete
  previous, \* last DATA seen
  polls,    \* reads left
  dresult,  \* status of the last delay call
  elapsed,  \* history: clocks since the call, up to the number asked for
  asked,    \* history: duration of the call
  done      \* history: chunks completed

timerVars == <<tim, dpc, clocks, previous, polls, dresult, elapsed, asked, done>>

\* c2_timer_convert_clocks: whole clocks and the fraction apart, rounded up.
ConvertClocks(duration) ==
  LET whole == (ClockHz \div Units) * duration
      fraction == (ClockHz % Units) * duration
  IN  whole + fraction \div Units + (IF fraction % Units # 0 THEN 1 ELSE 0)

\* The chunk at hand of n clocks to go.
ChunkOf(n) == IF n > Chunk THEN Chunk ELSE n

\* The number of chunks of a delay.
Chunks(n) == (n + Chunk - 1) \div Chunk

TimerInit == /\ tim = [run |-> FALSE, load |-> 0, DATA |-> 0]
             /\ dpc = "idle" /\ clocks = 0 /\ previous = 0 /\ polls = 0
             /\ dresult = "none" /\ elapsed = 0 /\ asked = 0 /\ done = 0

\* One clock of the hardware.
TimerTick ==
  /\ tim' = IF tim.run
            THEN [run |-> TRUE, load |-> tim.load,
                  DATA |-> IF tim.DATA = 0 THEN tim.load ELSE tim.DATA - 1]
            ELSE tim
  /\ elapsed' = IF dpc # "idle" /\ elapsed < ConvertClocks(asked) THEN elapsed + 1
                ELSE elapsed
  /\ UNCHANGED <<dpc, clocks, previous, polls, dresult, asked, done>>

\* c2_timer_start and c2_timer_stop.
Started(reload) == [run |-> TRUE, load |-> reload, DATA |-> reload]
Stopped == [run |-> FALSE, load |-> tim.load, DATA |-> tim.DATA]

\* c2_timer_delay_us or _ms: a zero delay and bad arguments touch nothing.
Delay(duration, limit) ==
  /\ dpc = "idle"
  /\ asked' = duration /\ elapsed' = 0 /\ done' = 0
  /\ IF duration = 0 \/ limit = 0
     THEN /\ dresult' = IF duration = 0 THEN "ok" ELSE "invalid"
          /\ UNCHANGED <<tim, dpc, clocks, previous, polls>>
     ELSE /\ dpc' = "start" /\ dresult' = "none"
          /\ clocks' = ConvertClocks(duration) /\ polls' = limit
          /\ UNCHANGED <<tim, previous>>

StartChunk ==
  /\ dpc = "start"
  /\ tim' = Started(ChunkOf(clocks) - 1)
  /\ previous' = ChunkOf(clocks) - 1
  /\ dpc' = "poll"
  /\ UNCHANGED <<clocks, polls, dresult, elapsed, asked, done>>

\* Mutant: any change counts as the reload.
MutantAnyChange(current) == current = 0 \/ current # previous

\* Zero is seen, or the reload that followed it.
Complete(current) == current = 0 \/ current > previous

\* The call returns with the timer stopped.
DelayReturn(result) ==
  /\ dpc' = "idle" /\ dresult' = result
  /\ tim' = Stopped
  /\ clocks' = 0 /\ previous' = 0 /\ polls' = 0

\* One read of DATA.
PollData ==
  /\ dpc = "poll" /\ polls > 0
  /\ \/ /\ Complete(tim.DATA) /\ clocks > Chunk
        /\ clocks' = clocks - Chunk /\ dpc' = "start"
        /\ polls' = polls - 1
        /\ done' = done + 1
        /\ UNCHANGED <<tim, previous, dresult>>
     \/ /\ Complete(tim.DATA) /\ clocks <= Chunk
        /\ DelayReturn("ok") /\ done' = done + 1
     \/ /\ ~Complete(tim.DATA)
        /\ previous' = tim.DATA /\ polls' = polls - 1
        /\ UNCHANGED <<tim, dpc, clocks, dresult, done>>
  /\ UNCHANGED <<elapsed, asked>>

\* The reads are used up, perhaps by the chunks before this one.
DelayTimeout ==
  /\ dpc = "poll" /\ polls = 0
  /\ DelayReturn("timeout")
  /\ UNCHANGED <<elapsed, asked, done>>

DelayStep == StartChunk \/ PollData \/ DelayTimeout
=============================================================================
