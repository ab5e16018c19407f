---------------------------- MODULE WindowFilters ---------------------------
(***************************************************************************)
(* The filters over a window of samples - FIR, moving average and median - *)
(* in fixed point.  Each keeps its samples in a ring; the average keeps an *)
(* exact running sum beside it.  A signal is an integer in units of 1/One, *)
(* a product of signal and coefficient one in units of 1/One^2.            *)
(***************************************************************************)
EXTENDS Integers, FiniteSets

CONSTANTS One,          \* LINEARS_FIXED_ONE, a power of two
          Windows,      \* numbers of taps, and window sizes
          Coefficients, \* coefficients of the taps, from 0
          Capacities    \* sizes of the caller's state and workspace arrays

Samples == -One .. One - 1

ASSUME FilterAssumption ==
  /\ One \in Nat \ {0} /\ One % 2 = 0
  /\ Windows \subseteq Nat /\ Capacities \subseteq Nat
  /\ \A n \in Windows : \A i \in 0 .. n - 1 : Coefficients[i] \in Int

VARIABLES
  kind,    \* the filter of the context
  window,  \* taps or window size, 0 before init
  state,   \* the ring
  head,    \* where the next sample goes
  sum,     \* running sum of the average
  output,  \* last result
  answered, \* history: a step has succeeded since init or reset
  call     \* history: the last call that returned LINEARS_OK, its argument

vars == <<kind, window, state, head, sum, output, answered, call>>

Kinds == {"fir", "average", "median"}
----------------------------------------------------------------------------
(***************************************************************************)
(* Arithmetic.  An accumulator is in units of 1/One^2; magnitudes are      *)
(* rounded and the sign is put back.                                       *)
(***************************************************************************)
Abs(n) == IF n < 0 THEN -n ELSE n

Signed(magnitude, n) == IF n < 0 THEN -magnitude ELSE magnitude

\* round_shift, rounded_division: the nearest quotient, a half away from zero.
Nearest(n, d) == Signed((2 * Abs(n) + d) \div (2 * d), n)

\* The value 1 has no representation: it becomes the largest signal.
Saturate(raw) == IF raw = One THEN One - 1 ELSE raw

\* linears_accum_to_q31: its range, and quantize_unit of the accumulator n.
Exportable(n) == Abs(n) <= One * One

Quantize(n) == Saturate(Nearest(n, One))

\* linears_accum_mean_q31: its range; the quotient is cut off, then quantized.
MeanExists(total, n) == Abs(total) <= n * One * One

Mean(total, n) == Quantize(Signed(Abs(total) \div n, total))
----------------------------------------------------------------------------
\* A call returns LINEARS_OK; turn tells it from the one before.
Succeeds(what, arg) == call' = [turn |-> ~call.turn, what |-> what, arg |-> arg]

Advance == head' = IF head + 1 = window THEN 0 ELSE head + 1

\* Place of the sample i steps before the one at head.
Behind(i) == IF i <= head THEN head - i ELSE head + window - i

\* Mutant: the delay line is read the wrong way round.
MutantForward(x, i) ==
  IF i = 0 THEN x ELSE state[IF head + i < window THEN head + i ELSE head + i - window]

\* The sample delayed by i while x is the input.
Delayed(x, i) == IF i = 0 THEN x ELSE state[Behind(i)]

\* The taps accumulated from 0 to i.
Taps(x) ==
  LET acc[i \in 0 .. window - 1] ==
        Coefficients[i] * Delayed(x, i) + (IF i = 0 THEN 0 ELSE acc[i - 1])
  IN  acc[window - 1]

\* Mutant: the key passes one larger element only.
MutantOnePlace(w, i) ==
  IF w[i - 1] <= w[i] THEN w ELSE [w EXCEPT ![i] = w[i - 1], ![i - 1] = w[i]]

\* One pass of the insertion sort: the key at i moves before the larger ones.
Insert(w, i) ==
  LET place == CHOOSE j \in 0 .. i : /\ \A k \in j .. i - 1 : w[k] > w[i]
                                     /\ j = 0 \/ w[j - 1] <= w[i]
  IN  [k \in DOMAIN w |-> IF k < place \/ k > i THEN w[k]
                          ELSE IF k = place THEN w[i] ELSE w[k - 1]]

Sorted(w) ==
  LET pass[i \in 0 .. window - 1] == IF i = 0 THEN w ELSE Insert(pass[i - 1], i)
  IN  pass[window - 1]

\* The middle of the sorted window, or the mean of its two middle samples.
Median(w) ==
  LET s == Sorted(w)
      h == window \div 2
  IN  IF window % 2 = 1 THEN s[h] ELSE Saturate(Nearest(s[h - 1] + s[h], 2))

\* The sample replaces the oldest one, and the result is stored.
Accept(x, result) ==
  /\ state' = [state EXCEPT ![head] = x]
  /\ Advance
  /\ output' = result /\ answered' = TRUE
  /\ UNCHANGED <<kind, window>>
  /\ Succeeds("step", x)

\* Mutant: the sample is stored before the result is known to be in range.
MutantStoreFirst(x) ==
  /\ kind = "fir" /\ window > 0
  /\ IF Exportable(Taps(x)) THEN Accept(x, Quantize(Taps(x)))
     ELSE /\ state' = [state EXCEPT ![head] = x]
          /\ UNCHANGED <<kind, window, head, output, answered, call>>
  /\ UNCHANGED sum

\* filters_fir_step: a result out of range changes nothing.
FirStep(x) ==
  /\ kind = "fir" /\ window > 0
  /\ IF Exportable(Taps(x)) THEN Accept(x, Quantize(Taps(x)))
     ELSE UNCHANGED <<kind, window, state, head, output, answered, call>>
  /\ UNCHANGED sum

AverageStep(x) ==
  /\ kind = "average" /\ window > 0
  /\ LET total == sum - state[head] * One + x * One
     IN  IF MeanExists(total, window) THEN sum' = total /\ Accept(x, Mean(total, window))
         ELSE UNCHANGED vars

MedianStep(x) ==
  /\ kind = "median" /\ window > 0
  /\ Accept(x, Median([state EXCEPT ![head] = x]))
  /\ UNCHANGED sum

Zeros(n) == [k \in 0 .. n - 1 |-> 0]

\* The three init functions with the caller's arrays, of which the median needs
\* two: an empty window or too small an array leaves the context as it is.
TooSmall(k, n, capacity, workspace) ==
  n = 0 \/ capacity < n \/ (k = "median" /\ workspace < n)

FilterInit(k, n, capacity, workspace) ==
  IF TooSmall(k, n, capacity, workspace) THEN UNCHANGED vars
  ELSE /\ kind' = k /\ window' = n /\ state' = Zeros(n) /\ head' = 0 /\ sum' = 0
       /\ answered' = FALSE /\ UNCHANGED output
       /\ Succeeds("init", n)

\* Mutant: the running sum survives the reset.
MutantKeepSum ==
  /\ window > 0
  /\ state' = Zeros(window) /\ head' = 0 /\ answered' = FALSE
  /\ UNCHANGED <<kind, window, output, sum>>
  /\ Succeeds("reset", 0)

\* The three reset functions.
Reset ==
  /\ window > 0
  /\ state' = Zeros(window) /\ head' = 0 /\ sum' = 0 /\ answered' = FALSE
  /\ UNCHANGED <<kind, window, output>>
  /\ Succeeds("reset", 0)

Init == /\ kind = "fir" /\ window = 0 /\ state = Zeros(0) /\ head = 0 /\ sum = 0
        /\ output = 0 /\ answered = FALSE
        /\ call = [turn |-> FALSE, what |-> "none", arg |-> 0]

Next == \/ \E k \in Kinds, n \in Windows, capacity, workspace \in Capacities :
             FilterInit(k, n, capacity, workspace)
        \/ Reset
        \/ \E x \in Samples : FirStep(x) \/ AverageStep(x) \/ MedianStep(x)

Spec == Init /\ [][Next]_vars
----------------------------------------------------------------------------
\* The accepted samples, newest first, as they lie in the ring.
Window == [k \in 0 .. window - 1 |-> state[Behind(k + 1)]]

\* The ring has its size, and the head lies in it.
Ring ==
  /\ window \in Windows \union {0}
  /\ state \in [0 .. window - 1 -> Samples]
  /\ head \in 0 .. window - 1 \/ (window = 0 /\ head = 0)

\* Type invariant.
TypeOK == /\ Ring /\ kind \in Kinds /\ sum \in Int /\ answered \in BOOLEAN
          /\ call \in [turn : BOOLEAN, what : {"none", "init", "reset", "step"}, arg : Int]

SumOf(f) == LET s[i \in -1 .. window - 1] == IF i < 0 THEN 0 ELSE s[i - 1] + f[i]
            IN  s[window - 1]

\* The FIR output is the convolution of the taps with the samples of the window,
\* wherever the head is, after wraps, resets and rejected samples.
FirRight ==
  answered /\ kind = "fir" =>
    output = Quantize(SumOf([k \in 0 .. window - 1 |-> Coefficients[k] * Window[k]]))

\* The average is the exact mean of the window rounded once: the running sum never
\* drifts from the window, and cutting the quotient off first costs no precision.
AverageRight ==
  kind = "average" =>
    /\ sum = One * SumOf(Window)
    /\ answered => output = Saturate(Nearest(SumOf(Window), window))

\* The median has half of the window on either side.
MedianRight ==
  LET below(v) == Cardinality({k \in 0 .. window - 1 : Window[k] < v})
      upto(v) == Cardinality({k \in 0 .. window - 1 : Window[k] <= v})
      rank(v, r) == below(v) <= r /\ r < upto(v)
      h == window \div 2
  IN  answered /\ kind = "median" =>
        \E a, b \in Samples :
          /\ rank(b, h) /\ rank(a, IF window % 2 = 1 THEN h ELSE h - 1)
          /\ output = Saturate(Nearest(a + b, 2))

Ideal == INSTANCE SlidingWindow WITH win <- Window

\* The ring is a sliding window: a step that reports success has pushed its own
\* sample, init and reset have cleared it, and one that reports an error has left
\* the samples alone.
ImplementsWindow == Ideal!Spec
=============================================================================
