------------------------ MODULE WindowFiltersProofs -------------------------
(***************************************************************************)
(* The window filters, for every window size, all coefficients and every   *)
(* sequence of calls: the ring is a sliding window, the FIR output is the  *)
(* convolution, the average is the mean rounded once and the median has    *)
(* the middle rank.  The last three need induction over the length of the  *)
(* window; it is stated once for sets of numbers (Induction) and used with *)
(* the set of the lengths for which a claim holds.                         *)
(***************************************************************************)
EXTENDS WindowFilters, FiniteSetTheorems, WellFoundedInduction, TLAPS

LEMMA ZeroIsSample == 0 \in Samples
  BY FilterAssumption, SMT DEF Samples

\* The ring keeps its shape: init and reset make one, an accepted sample stays in it.
LEMMA ClearRing ==
  ASSUME NEW n \in Windows, n > 0,
         window' = n, state' = Zeros(n), head' = 0
  PROVE  Ring'
  BY ZeroIsSample, FilterAssumption, SMT DEF Ring, Zeros

LEMMA AcceptRing ==
  ASSUME Ring, window > 0, NEW x \in Samples, NEW result, Accept(x, result)
  PROVE  Ring'
  BY FilterAssumption, SMT DEF Ring, Accept, Advance

\* Putting x at the head and moving on pushes it: every older sample is one place
\* further behind the new head, and the oldest is gone.
LEMMA AcceptPushes ==
  ASSUME Ring, window > 0, NEW x \in Samples, NEW result, Accept(x, result)
  PROVE  Ideal!Push(x)
<1>1. window \in Nat /\ head \in 0 .. window - 1 /\ window' = window
  BY FilterAssumption, SMT DEF Ring, Accept
<1>2. head' = (IF head + 1 = window THEN 0 ELSE head + 1)
  BY SMT DEF Accept, Advance
<1>3. state' = [state EXCEPT ![head] = x] /\ DOMAIN state = 0 .. window - 1
  BY SMT DEF Accept, Ring
<1>4. ASSUME NEW k \in 0 .. window - 1
      PROVE  Window'[k] = IF k = 0 THEN x ELSE Window[k - 1]
  <2>1. Window'[k] = state'[Behind(k + 1)']
    BY <1>1, SMT DEF Window
  <2>2. CASE k = 0
    <3>1. Behind(k + 1)' = head
      BY <1>1, <1>2, <2>2, SMT DEF Behind
    <3> QED BY <1>1, <1>3, <2>1, <2>2, <3>1, SMT
  <2>3. CASE k # 0
    <3>1. /\ Behind(k + 1)' = Behind(k) /\ Behind(k) # head
          /\ Behind(k) \in 0 .. window - 1
      BY <1>1, <1>2, <2>3, SMT DEF Behind
    <3>2. Window[k - 1] = state[Behind(k)]
      BY <1>1, <2>3, SMT DEF Window
    <3> QED BY <1>1, <1>3, <2>1, <2>3, <3>1, <3>2, SMT
  <2> QED BY <2>2, <2>3
<1>5. Window' = [k \in 0 .. window - 1 |-> IF k = 0 THEN x ELSE Window[k - 1]]
  BY <1>1, <1>4, SMT DEF Window
<1>6. DOMAIN Window = 0 .. window - 1
  BY DEF Window
<1>7. Ideal!Succeeds("step", x)
  BY DEF Accept, Succeeds, Ideal!Succeeds
<1> QED BY <1>5, <1>6, <1>7 DEF Ideal!Push

\* A ring of zeros is a cleared window, whatever its size.
LEMMA ClearClears ==
  ASSUME NEW n \in Windows, n > 0,
         window' = n, state' = Zeros(n), head' = 0
  PROVE  Window' = [k \in 0 .. n - 1 |-> 0]
<1>1. n \in Nat
  BY FilterAssumption
<1>2. ASSUME NEW k \in 0 .. n - 1 PROVE state'[Behind(k + 1)'] = 0
  <2>1. Behind(k + 1)' \in 0 .. n - 1
    BY <1>1, SMT DEF Behind
  <2> QED BY <2>1 DEF Zeros
<1> QED BY <1>2 DEF Window

\* What a step may do to the window: push the sample of a call that succeeds, clear
\* it for an init or reset that does, and otherwise nothing.
LEMMA StepWindow ==
  ASSUME Ring, [Next]_vars
  PROVE  Ring' /\ [Ideal!Next]_<<Window, call>>
<1>1. CASE UNCHANGED vars
  BY <1>1 DEF vars, Ring, Window, Behind
<1>2. ASSUME NEW k \in Kinds, NEW n \in Windows, NEW capacity \in Capacities, NEW workspace \in Capacities,
             FilterInit(k, n, capacity, workspace)
      PROVE  Ring' /\ [Ideal!Next]_<<Window, call>>
  <2>1. CASE TooSmall(k, n, capacity, workspace)
    BY <1>1, <1>2, <2>1 DEF FilterInit
  <2>2. CASE ~TooSmall(k, n, capacity, workspace)
    <3>1. n > 0
      BY <2>2, FilterAssumption, SMT DEF TooSmall
    <3>2. window' = n /\ state' = Zeros(n) /\ head' = 0 /\ Succeeds("init", n)
      BY <1>2, <2>2 DEF FilterInit
    <3>3. Ideal!Clear(n)
      BY <3>1, <3>2, ClearClears DEF Ideal!Clear, Succeeds, Ideal!Succeeds
    <3> QED BY <3>1, <3>2, <3>3, ClearRing DEF Ideal!Next
  <2> QED BY <2>1, <2>2
<1>3. CASE Reset
  <2>1. /\ window \in Windows /\ window > 0
        /\ window' = window /\ state' = Zeros(window) /\ head' = 0
        /\ Succeeds("reset", 0)
    BY <1>3, SMT DEF Reset, Ring
  <2>2. DOMAIN Window = 0 .. window - 1
    BY DEF Window
  <2>3. Ideal!Reset
    BY <2>1, <2>2, ClearClears DEF Ideal!Reset, Succeeds, Ideal!Succeeds
  <2> QED BY <2>1, <2>3, ClearRing DEF Ideal!Next
<1>4. ASSUME NEW x \in Samples, NEW result, window > 0, Accept(x, result)
      PROVE  Ring' /\ [Ideal!Next]_<<Window, call>>
  BY <1>4, AcceptRing, AcceptPushes DEF Ideal!Next
<1>5. ASSUME NEW x \in Samples, FirStep(x)
      PROVE  Ring' /\ [Ideal!Next]_<<Window, call>>
  <2>1. CASE Exportable(Taps(x))
    BY <1>4, <1>5, <2>1 DEF FirStep
  <2>2. CASE ~Exportable(Taps(x))
    BY <1>5, <2>2 DEF FirStep, Ring, Window, Behind
  <2> QED BY <2>1, <2>2
<1>6. ASSUME NEW x \in Samples, AverageStep(x)
      PROVE  Ring' /\ [Ideal!Next]_<<Window, call>>
  <2> DEFINE total == sum - state[head] * One + x * One
  <2>1. CASE MeanExists(total, window)
    BY <1>4, <1>6, <2>1 DEF AverageStep
  <2>2. CASE ~MeanExists(total, window)
    BY <1>1, <1>6, <2>2 DEF AverageStep
  <2> QED BY <2>1, <2>2
<1>7. ASSUME NEW x \in Samples, MedianStep(x)
      PROVE  Ring' /\ [Ideal!Next]_<<Window, call>>
  BY <1>4, <1>7 DEF MedianStep
<1> QED BY <1>1, <1>2, <1>3, <1>5, <1>6, <1>7 DEF Next

Calls == [turn : BOOLEAN, what : {"none", "init", "reset", "step"}, arg : Int]

LEMMA ZeroIsInt == 0 \in Int
  OBVIOUS

\* Only the three successful calls are recorded.
LEMMA StepCall ==
  ASSUME call \in Calls, [Next]_vars
  PROVE  call' \in Calls
<1>1. ASSUME NEW what \in {"init", "reset", "step"}, NEW arg \in Int, Succeeds(what, arg)
      PROVE  call' \in Calls
  BY <1>1, Zenon DEF Succeeds, Calls
<1>2. Windows \subseteq Int /\ Samples \subseteq Int /\ 0 \in Int
  BY FilterAssumption DEF Samples
<1>3. CASE UNCHANGED call
  BY <1>3
<1>4. ASSUME NEW x \in Samples, NEW result, Accept(x, result) PROVE call' \in Calls
  BY <1>1, <1>2, <1>4 DEF Accept
<1>5. ASSUME NEW k \in Kinds, NEW n \in Windows, NEW capacity \in Capacities,
             NEW workspace \in Capacities, FilterInit(k, n, capacity, workspace)
      PROVE  call' \in Calls
  BY <1>1, <1>2, <1>3, <1>5 DEF FilterInit, vars
<1>6. CASE Reset
  BY <1>1, <1>2, <1>6 DEF Reset
<1>7. ASSUME NEW x \in Samples, FirStep(x) \/ AverageStep(x) \/ MedianStep(x)
      PROVE  call' \in Calls
  BY <1>3, <1>4, <1>7 DEF FirStep, AverageStep, MedianStep, vars
<1> QED BY <1>3, <1>5, <1>6, <1>7 DEF Next, vars

\* Type correctness: the ring keeps its size, the head stays inside it and the running
\* sum is a number, whatever sequence of inits, steps and resets the program makes.
THEOREM TypeCorrect == Spec => []TypeOK
<1>1. Init => TypeOK
  <2> SUFFICES ASSUME Init PROVE TypeOK
    OBVIOUS
  <2>1. Ring
    BY ZeroIsSample, SMT DEF Init, Ring, Zeros
  <2>2. sum \in Int
    BY SMT DEF Init
  <2>3. call \in Calls
    BY Zenon, ZeroIsInt DEF Init, Calls
  <2> QED BY <2>1, <2>2, <2>3 DEF Init, TypeOK, Kinds, Calls
<1>2. TypeOK /\ [Next]_vars => TypeOK'
  <2> SUFFICES ASSUME TypeOK, [Next]_vars PROVE TypeOK'
    OBVIOUS
  <2>1. Ring'
    BY StepWindow DEF TypeOK
  <2>c. call' \in Calls
    BY StepCall DEF TypeOK, Calls
  <2>2. CASE UNCHANGED vars
    BY <2>1, <2>c, <2>2 DEF vars, TypeOK, Calls
  <2>3. ASSUME NEW k \in Kinds, NEW n \in Windows, NEW capacity \in Capacities, NEW workspace \in Capacities,
               FilterInit(k, n, capacity, workspace)
        PROVE  TypeOK'
    <3>1. sum' \in Int
      BY <2>3, SMT DEF FilterInit, vars, TypeOK, Calls
    <3> QED BY <2>1, <2>c, <2>2, <2>3, <3>1 DEF FilterInit, TypeOK, Calls
  <2>4. CASE Reset
    <3>1. sum' \in Int
      BY <2>4, SMT DEF Reset
    <3> QED BY <2>1, <2>c, <2>4, <3>1 DEF Reset, TypeOK, Calls
  <2>5. ASSUME NEW x \in Samples, FirStep(x) PROVE TypeOK'
    BY <2>1, <2>c, <2>5 DEF FirStep, Accept, TypeOK, Calls
  <2>6. ASSUME NEW x \in Samples, AverageStep(x) PROVE TypeOK'
    <3>1. sum - state[head] * One + x * One \in Int
      BY <2>6, FilterAssumption, SMT DEF AverageStep, TypeOK, Ring, Samples
    <3> QED BY <2>1, <2>c, <2>2, <2>6, <3>1 DEF AverageStep, Accept, TypeOK, Calls
  <2>7. ASSUME NEW x \in Samples, MedianStep(x) PROVE TypeOK'
    BY <2>1, <2>c, <2>7 DEF MedianStep, Accept, TypeOK, Calls
  <2> QED BY <2>2, <2>3, <2>4, <2>5, <2>6, <2>7 DEF Next
<1> QED BY <1>1, <1>2, PTL DEF Spec

\* The ring of a filter implements the sliding window: whatever sequence of inits,
\* resets, accepted and rejected samples the program makes, the filter remembers
\* exactly the samples of its last successful steps, newest first; a call that reports
\* an error has left them as they were.
THEOREM Refinement == Spec => ImplementsWindow
<1>1. Init => Ring /\ Ideal!Init
  <2> SUFFICES ASSUME Init PROVE Ring /\ Ideal!Init
    OBVIOUS
  <2>1. Ring
    BY ZeroIsSample, SMT DEF Init, Ring, Zeros
  <2>2. Window = [k \in 0 .. -1 |-> 0]
    BY SMT DEF Init, Window
  <2>3. call = [turn |-> FALSE, what |-> "none", arg |-> 0]
    BY DEF Init
  <2> QED BY <2>1, <2>2, <2>3 DEF Ideal!Init
<1>2. Ring /\ [Next]_vars => Ring' /\ [Ideal!Next]_<<Window, call>>
  BY StepWindow
<1> QED BY <1>1, <1>2, PTL DEF Spec, ImplementsWindow, Ideal!Spec

----------------------------------------------------------------------------
(***************************************************************************)
(* Induction, and sums of the terms of a function.                         *)
(***************************************************************************)

\* A set of numbers that is not empty has a least one.
LEMMA LeastNumber ==
  ASSUME NEW T \in SUBSET Nat, T # {}
  PROVE  \E m \in T : \A k \in T : m <= k
<1>1. PICK m \in T : \A y \in T : ~(<<y, m>> \in OpToRel(<, Nat))
  BY NatLessThanWellFounded, WFMin
<1>2. ASSUME NEW k \in T PROVE m <= k
  <2>1. ~(<<k, m>> \in OpToRel(<, Nat)) BY <1>1
  <2>2. ~(k < m) BY <2>1 DEF OpToRel
  <2> QED BY <2>2
<1> QED BY <1>2

\* Induction over a set: a set that has 0, and with a number the next, has them all.
LEMMA Induction ==
  ASSUME NEW S \in SUBSET Nat, 0 \in S, \A n \in S : n + 1 \in S
  PROVE  S = Nat
<1> SUFFICES ASSUME Nat \ S # {} PROVE FALSE
  OBVIOUS
<1>1. PICK m \in Nat \ S : \A k \in Nat \ S : m <= k
  BY LeastNumber
<1>2. m - 1 \in S
  BY <1>1
<1> QED BY <1>2

\* v holds the sums of the first 0, 1, ..., n terms of f.
IsSums(v, f, n) == v = [i \in -1 .. n - 1 |-> IF i < 0 THEN 0 ELSE v[i - 1] + f[i]]

Sums(f, n) == CHOOSE v : IsSums(v, f, n)

\* The sums exist for every length.
LEMMA SumsExist ==
  ASSUME NEW f, NEW n \in Nat
  PROVE  IsSums(Sums(f, n), f, n)
<1> DEFINE S == {m \in Nat : \E v : IsSums(v, f, m)}
<1>1. 0 \in S
  <2>1. IsSums([i \in -1 .. -1 |-> 0], f, 0)
    BY DEF IsSums
  <2> QED BY <2>1
<1>2. ASSUME NEW m \in S PROVE m + 1 \in S
  <2>1. PICK v : IsSums(v, f, m)
    OBVIOUS
  <2> DEFINE w == [i \in -1 .. m |-> IF i < m THEN v[i] ELSE v[m - 1] + f[m]]
  <2>2. m \in Nat
    OBVIOUS
  <2>3. ASSUME NEW i \in -1 .. m PROVE w[i] = IF i < 0 THEN 0 ELSE w[i - 1] + f[i]
    <3>1. CASE i < m
      BY <2>1, <2>2, <3>1 DEF IsSums
    <3>2. CASE i = m
      BY <2>1, <2>2, <3>2 DEF IsSums
    <3> QED BY <2>2, <3>1, <3>2
  <2>4. w = [i \in -1 .. (m + 1) - 1 |-> IF i < 0 THEN 0 ELSE w[i - 1] + f[i]]
    <3>1. (m + 1) - 1 = m
      BY <2>2
    <3> HIDE DEF w
    <3>2. w = [i \in -1 .. m |-> w[i]]
      BY DEF w
    <3> QED BY <2>3, <3>1, <3>2
  <2>5. IsSums(w, f, m + 1)
    BY <2>4 DEF IsSums
  <2> QED BY <2>2, <2>5
<1>3. S = Nat
  <2> HIDE DEF S
  <2>1. S \in SUBSET Nat BY DEF S
  <2> QED BY <1>1, <1>2, <2>1, Induction
<1> QED BY <1>3 DEF Sums

\* The sums, one term after the other.
LEMMA SumsStep ==
  ASSUME NEW f, NEW n \in Nat, NEW v, IsSums(v, f, n)
  PROVE  v[-1] = 0 /\ \A i \in 0 .. n - 1 : v[i] = v[i - 1] + f[i]
<1>1. v[-1] = 0
  BY DEF IsSums
<1>2. ASSUME NEW i \in 0 .. n - 1 PROVE v[i] = v[i - 1] + f[i]
  BY DEF IsSums
<1> QED BY <1>1, <1>2

\* The sum of numbers is a number, and of equal terms the same one.
LEMMA SumsType ==
  ASSUME NEW n \in Nat, NEW f, \A i \in 0 .. n - 1 : f[i] \in Int, NEW v, IsSums(v, f, n)
  PROVE  \A i \in -1 .. n - 1 : v[i] \in Int
<1> DEFINE S == {m \in Nat : m <= n => v[m - 1] \in Int}
<1>1. 0 \in S
  BY SumsStep
<1>2. ASSUME NEW m \in S PROVE m + 1 \in S
  <2>1. m < n => v[m] = v[m - 1] + f[m]
    BY SumsStep
  <2>2. (m + 1) - 1 = m
    OBVIOUS
  <2>3. m < n => v[m] \in Int
    BY <2>1
  <2> QED BY <2>2, <2>3
<1>3. S = Nat
  <2> HIDE DEF S
  <2>1. S \in SUBSET Nat BY DEF S
  <2> QED BY <1>1, <1>2, <2>1, Induction
<1>4. ASSUME NEW i \in -1 .. n - 1 PROVE v[i] \in Int
  <2>1. i + 1 \in S
    <3>1. i + 1 \in Nat
      OBVIOUS
    <3> HIDE DEF S
    <3> QED BY <1>3, <3>1
  <2>2. (i + 1) - 1 = i
    OBVIOUS
  <2> QED BY <2>1, <2>2
<1> QED BY <1>4

\* The sum over the window is the last of its sums.
LEMMA SumOfSums ==
  ASSUME NEW f PROVE SumOf(f) = Sums(f, window)[window - 1]
BY DEF SumOf, Sums, IsSums

----------------------------------------------------------------------------
(***************************************************************************)
(* The FIR.                                                                *)
(***************************************************************************)

\* The accumulator of the FIR runs through the sums of its products.
IsTaps(acc, x) ==
  acc = [i \in 0 .. window - 1 |->
           Coefficients[i] * Delayed(x, i) + (IF i = 0 THEN 0 ELSE acc[i - 1])]

\* What it ends with is their sum.
LEMMA TapsSum ==
  ASSUME window \in Nat \ {0}, NEW x, NEW f,
         \A i \in 0 .. window - 1 : f[i] \in Int /\ f[i] = Coefficients[i] * Delayed(x, i)
  PROVE  Taps(x) = SumOf(f)
<1> DEFINE v == Sums(f, window)
           a == CHOOSE acc : IsTaps(acc, x)
           b == [i \in 0 .. window - 1 |-> v[i]]
<1>1. IsSums(v, f, window)
  BY SumsExist
<1>2. /\ v[-1] = 0 /\ \A i \in 0 .. window - 1 : v[i] = v[i - 1] + f[i]
      /\ \A i \in -1 .. window - 1 : v[i] \in Int
  BY <1>1, SumsStep, SumsType
<1> HIDE DEF v
<1>3. IsTaps(b, x)
  <2>1. ASSUME NEW i \in 0 .. window - 1
        PROVE  b[i] = f[i] + (IF i = 0 THEN 0 ELSE b[i - 1])
    BY <1>2
  <2> HIDE DEF b
  <2>2. b = [i \in 0 .. window - 1 |-> b[i]]
    BY DEF b
  <2>3. b = [i \in 0 .. window - 1 |->
               Coefficients[i] * Delayed(x, i) + (IF i = 0 THEN 0 ELSE b[i - 1])]
    BY <2>1, <2>2
  <2> QED BY <2>3 DEF IsTaps
<1>4. IsTaps(a, x)
  BY <1>3
<1> HIDE DEF a
<1>5. \A i \in 0 .. window - 1 : a[i] = f[i] + (IF i = 0 THEN 0 ELSE a[i - 1])
  BY <1>4 DEF IsTaps
<1> DEFINE S == {m \in Nat : m < window => a[m] = v[m]}
<1>6. 0 \in S
  BY <1>2, <1>5
<1>7. ASSUME NEW m \in S PROVE m + 1 \in S
  <2>1. CASE m + 1 < window
    <3>1. a[m + 1] = f[m + 1] + a[m] /\ v[m + 1] = v[m] + f[m + 1] /\ v[m] \in Int
      <4>1. m + 1 \in 0 .. window - 1 /\ (m + 1) - 1 = m /\ m + 1 # 0 /\ m \in -1 .. window - 1
        BY <2>1
      <4> QED BY <1>2, <1>5, <4>1
    <3>2. a[m] = v[m] /\ f[m + 1] \in Int
      BY <2>1
    <3> QED BY <3>1, <3>2
  <2> QED BY <2>1
<1>8. S = Nat
  <2> HIDE DEF S
  <2>1. S \in SUBSET Nat BY DEF S
  <2> QED BY <1>6, <1>7, <2>1, Induction
<1>9. a[window - 1] = v[window - 1]
  BY <1>8
<1>10. Taps(x) = a[window - 1]
  BY DEF Taps, a, IsTaps
<1> QED BY <1>9, <1>10, SumOfSums DEF v

\* What an accepted sample makes of the window, place by place.
LEMMA AcceptedWindow ==
  ASSUME Ring, window > 0, NEW x \in Samples, NEW result, Accept(x, result)
  PROVE  /\ window' = window /\ window \in Nat \ {0}
         /\ Window = [k \in 0 .. window - 1 |-> Window[k]]
         /\ Window' = [k \in 0 .. window - 1 |-> IF k = 0 THEN x ELSE Window[k - 1]]
<1>1. window' = window /\ window \in Nat \ {0}
  BY FilterAssumption, SMT DEF Ring, Accept
<1>2. DOMAIN Window = 0 .. window - 1 /\ Window = [k \in 0 .. window - 1 |-> Window[k]]
  BY DEF Window
<1>3. Window' = [k \in DOMAIN Window |-> IF k = 0 THEN x ELSE Window[k - 1]]
  BY AcceptPushes DEF Ideal!Push
<1> QED BY <1>1, <1>2, <1>3

\* The window holds samples, which are integers.
LEMMA WindowSample ==
  ASSUME Ring
  PROVE  \A k \in 0 .. window - 1 : Window[k] \in Samples
<1> SUFFICES ASSUME NEW k \in 0 .. window - 1 PROVE Window[k] \in Samples
  OBVIOUS
<1>1. /\ window \in Nat /\ head \in 0 .. window - 1
      /\ state \in [0 .. window - 1 -> Samples]
  BY FilterAssumption, SMT DEF Ring
<1>2. Behind(k + 1) \in 0 .. window - 1
  BY <1>1, SMT DEF Behind
<1>3. Window[k] = state[Behind(k + 1)]
  BY DEF Window
<1> QED BY <1>1, <1>2, <1>3

LEMMA WindowInt ==
  ASSUME Ring
  PROVE  \A k \in 0 .. window - 1 : Window[k] \in Int
BY WindowSample, FilterAssumption DEF Samples

\* The oldest sample is the one under the head.
LEMMA OldestSample ==
  ASSUME Ring, window > 0
  PROVE  Window[window - 1] = state[head]
<1>1. /\ window \in Nat /\ window - 1 \in 0 .. window - 1
      /\ (window - 1) + 1 = window /\ head \in 0 .. window - 1
  BY FilterAssumption DEF Ring
<1>2. Behind(window) = head
  BY <1>1 DEF Behind
<1> QED BY <1>1, <1>2 DEF Window

\* The delay line read while x comes in is the window that holds x.
LEMMA TapsAreConvolution ==
  ASSUME Ring, window > 0, NEW x \in Samples, NEW result, Accept(x, result)
  PROVE  Taps(x) = SumOf([k \in 0 .. window - 1 |-> Coefficients[k] * Window[k]])'
<1> DEFINE f == [k \in 0 .. window - 1 |-> Coefficients[k] * Window'[k]]
<1>1. /\ window' = window /\ window \in Nat \ {0}
      /\ Window' = [k \in 0 .. window - 1 |-> IF k = 0 THEN x ELSE Window[k - 1]]
  BY AcceptedWindow
<1>2. ASSUME NEW k \in 0 .. window - 1 PROVE Delayed(x, k) = Window'[k]
  <2>1. CASE k = 0
    BY <1>1, <2>1 DEF Delayed
  <2>2. CASE k # 0
    <3>1. k - 1 \in 0 .. window - 1 /\ (k - 1) + 1 = k
      BY <1>1, <2>2
    <3>2. Window[k - 1] = state[Behind(k)]
      BY <3>1 DEF Window
    <3> QED BY <1>1, <2>2, <3>2 DEF Delayed
  <2> QED BY <2>1, <2>2
<1>3. ASSUME NEW k \in 0 .. window - 1
      PROVE  f[k] \in Int /\ f[k] = Coefficients[k] * Delayed(x, k)
  <2>1. Coefficients[k] \in Int
    BY <1>1, FilterAssumption DEF Ring
  <2>2. Window'[k] \in Int
    <3>1. x \in Int
      BY FilterAssumption DEF Samples
    <3>2. k # 0 => k - 1 \in 0 .. window - 1
      BY <1>1
    <3> QED BY <1>1, <3>1, <3>2, WindowInt
  <2> QED BY <1>2, <2>1, <2>2
<1>4. SumOf([k \in 0 .. window - 1 |-> Coefficients[k] * Window[k]])'
        = Sums(f, window)[window - 1]
  BY <1>1 DEF SumOf, Sums, IsSums
<1> HIDE DEF f
<1>5. Taps(x) = SumOf(f)
  BY <1>1, <1>3, TapsSum
<1> QED BY <1>4, <1>5, SumOfSums

\* The FIR output is the convolution of its taps with the samples of the window, for
\* every number of taps, all coefficients and every sequence of calls.
THEOREM FirCorrect == Spec => []FirRight
<1>1. Init => FirRight
  BY DEF Init, FirRight
<1>2. Ring /\ FirRight /\ [Next]_vars => FirRight'
  <2> SUFFICES ASSUME Ring, FirRight, [Next]_vars PROVE FirRight'
    OBVIOUS
  <2>1. CASE UNCHANGED <<kind, window, state, head, output, answered>>
    BY <2>1 DEF FirRight, SumOf, Window, Behind
  <2>2. CASE UNCHANGED vars
    BY <2>1, <2>2 DEF vars
  <2>3. ASSUME NEW k \in Kinds, NEW n \in Windows, NEW capacity \in Capacities, NEW workspace \in Capacities,
               FilterInit(k, n, capacity, workspace)
        PROVE  FirRight'
    BY <2>2, <2>3 DEF FilterInit, FirRight
  <2>4. CASE Reset
    BY <2>4 DEF Reset, FirRight
  <2>5. ASSUME NEW x \in Samples, FirStep(x) PROVE FirRight'
    <3>1. CASE Exportable(Taps(x))
      <4>1. window > 0 /\ Accept(x, Quantize(Taps(x))) /\ output' = Quantize(Taps(x))
        BY <2>5, <3>1 DEF FirStep, Accept
      <4>2. Taps(x) = SumOf([k \in 0 .. window - 1 |-> Coefficients[k] * Window[k]])'
        BY <4>1, TapsAreConvolution
      <4> QED BY <4>1, <4>2 DEF FirRight, Quantize, Saturate
    <3>2. CASE ~Exportable(Taps(x))
      BY <2>1, <2>5, <3>2 DEF FirStep
    <3> QED BY <3>1, <3>2
  <2>6. ASSUME NEW x \in Samples, AverageStep(x) PROVE FirRight'
    BY <2>2, <2>6 DEF AverageStep, Accept, FirRight
  <2>7. ASSUME NEW x \in Samples, MedianStep(x) PROVE FirRight'
    BY <2>7 DEF MedianStep, Accept, FirRight
  <2> QED BY <2>2, <2>3, <2>4, <2>5, <2>6, <2>7 DEF Next
<1>3. TypeOK => Ring
  BY DEF TypeOK
<1> QED BY <1>1, <1>2, <1>3, TypeCorrect, PTL DEF Spec

----------------------------------------------------------------------------
(***************************************************************************)
(* The moving average.  Its rounding first: the running sum is in units of *)
(* 1/One, is divided by the window size and cut off, and is rounded then.  *)
(***************************************************************************)

\* What a quotient is, and that nothing else is one.
LEMMA Quotient ==
  ASSUME NEW a \in Nat, NEW d \in Nat \ {0}
  PROVE  /\ a \div d \in Nat
         /\ d * (a \div d) <= a /\ a < d * (a \div d) + d
  OBVIOUS

LEMMA QuotientIs ==
  ASSUME NEW a \in Nat, NEW d \in Nat \ {0}, NEW q \in Int,
         d * q <= a, a < d * q + d
  PROVE  a \div d = q
  OBVIOUS

\* A positive factor cancels.
LEMMA Cancel ==
  ASSUME NEW d \in Nat \ {0}, NEW a \in Int, NEW b \in Int, d * a < d * b
  PROVE  a < b
  OBVIOUS

\* Cutting the scaled quotient off before it is rounded loses nothing, because the scale
\* is even: 2h * a / n is cut off at a multiple of 1, and a half of n is h of them.
LEMMA RoundOnce ==
  ASSUME NEW h \in Nat \ {0}, NEW a \in Nat, NEW n \in Nat \ {0}
  PROVE  (2 * (((2 * h) * a) \div n) + 2 * h) \div (2 * (2 * h)) = (2 * a + n) \div (2 * n)
<1> DEFINE q == ((2 * h) * a) \div n
           m == (2 * a + n) \div (2 * n)
<1>1. q \in Nat /\ n * q <= (2 * h) * a /\ (2 * h) * a < n * q + n
  <2>1. (2 * h) * a \in Nat
    OBVIOUS
  <2> QED BY <2>1, Quotient
<1>2. m \in Nat /\ (2 * n) * m <= 2 * a + n /\ 2 * a + n < (2 * n) * m + 2 * n
  <2>1. 2 * a + n \in Nat /\ 2 * n \in Nat \ {0}
    OBVIOUS
  <2> QED BY <2>1, Quotient
<1> HIDE DEF q, m
<1>3. h * (2 * m - 1) < q + 1
  <2>1. n * (2 * m - 1) <= 2 * a
    BY <1>2
  <2>2. h * (n * (2 * m - 1)) <= h * (2 * a)
    BY <2>1, <1>2
  <2>3. n * (h * (2 * m - 1)) = h * (n * (2 * m - 1)) /\ h * (2 * a) = (2 * h) * a
    BY <1>2
  <2>4. n * (h * (2 * m - 1)) < n * (q + 1)
    BY <1>1, <1>2, <2>2, <2>3
  <2> QED BY <1>1, <1>2, <2>4, Cancel
<1>4. q < h * (2 * m + 1)
  <2>1. 2 * a < n * (2 * m + 1)
    BY <1>2
  <2>2. h * (2 * a) < h * (n * (2 * m + 1))
    BY <2>1, <1>2
  <2>3. n * (h * (2 * m + 1)) = h * (n * (2 * m + 1)) /\ h * (2 * a) = (2 * h) * a
    BY <1>2
  <2>4. n * q < n * (h * (2 * m + 1))
    BY <1>1, <1>2, <2>2, <2>3
  <2> QED BY <1>1, <1>2, <2>4, Cancel
<1>5. /\ (2 * (2 * h)) * m <= 2 * q + 2 * h
      /\ 2 * q + 2 * h < (2 * (2 * h)) * m + 2 * (2 * h)
  BY <1>1, <1>2, <1>3, <1>4
<1>6. (2 * q + 2 * h) \div (2 * (2 * h)) = m
  BY <1>1, <1>2, <1>5, QuotientIs
<1> QED BY <1>6 DEF q, m

\* The mean computed from the running sum One * a is the mean of the window's sum a
\* rounded once, on either side of zero.
LEMMA MeanRoundsOnce ==
  ASSUME NEW a \in Int, NEW n \in Nat \ {0}
  PROVE  Mean(One * a, n) = Saturate(Nearest(a, n))
<1> DEFINE h == One \div 2
           b == Abs(a)
           q == (One * b) \div n
<1>1. h \in Nat \ {0} /\ One = 2 * h
  BY FilterAssumption
<1>2. b \in Nat /\ Abs(One * a) = One * b /\ (One * a < 0 <=> a < 0)
  <2>1. One > 0 /\ One \in Int
    BY <1>1
  <2>2. CASE a < 0
    BY <2>1, <2>2 DEF Abs
  <2>3. CASE a >= 0
    BY <2>1, <2>3 DEF Abs
  <2> QED BY <2>2, <2>3
<1> HIDE DEF h, b
<1>3. q \in Nat
  <2>1. One * b \in Nat
    BY <1>1, <1>2
  <2> QED BY <2>1, Quotient
<1>4. (2 * q + One) \div (2 * One) = (2 * b + n) \div (2 * n)
  BY <1>1, <1>2, RoundOnce
<1>5. Signed(Abs(One * a) \div n, One * a) = Signed(q, a)
  BY <1>2 DEF Signed
<1> HIDE DEF q
<1>6. Abs(Signed(q, a)) = q
  BY <1>3 DEF Abs, Signed
<1>7. Nearest(Signed(q, a), One) = Signed((2 * q + One) \div (2 * One), Signed(q, a))
  BY <1>6 DEF Nearest
<1>8. Nearest(a, n) = Signed((2 * b + n) \div (2 * n), a)
  BY DEF Nearest, b
<1>9. Nearest(Signed(q, a), One) = Nearest(a, n)
  <2>1. CASE a < 0 <=> Signed(q, a) < 0
    BY <1>4, <1>7, <1>8, <2>1 DEF Signed
  <2>2. CASE a < 0 /\ q = 0
    <3>1. (2 * q + One) \div (2 * One) = 0
      BY <1>1, <2>2, QuotientIs
    <3> QED BY <1>4, <1>7, <1>8, <2>2, <3>1 DEF Signed
  <2> QED BY <1>3, <2>1, <2>2 DEF Signed
<1> QED BY <1>5, <1>9 DEF Mean, Quantize

\* The sums of nothing but zeros are zero.
LEMMA SumsOfZeros ==
  ASSUME NEW n \in Nat, NEW f, \A i \in 0 .. n - 1 : f[i] = 0, NEW v, IsSums(v, f, n)
  PROVE  v[n - 1] = 0
<1> DEFINE S == {m \in Nat : m <= n => v[m - 1] = 0}
<1>1. 0 \in S
  <2>1. v[-1] = 0
    BY DEF IsSums
  <2> QED BY <2>1
<1>2. ASSUME NEW m \in S PROVE m + 1 \in S
  <2>1. m < n => v[m] = v[m - 1] + f[m]
    BY SumsStep
  <2>2. (m + 1) - 1 = m
    OBVIOUS
  <2>3. m < n => v[m] = 0
    BY <2>1
  <2> QED BY <2>2, <2>3
<1>3. S = Nat
  <2> HIDE DEF S
  <2>1. S \in SUBSET Nat BY DEF S
  <2> QED BY <1>1, <1>2, <2>1, Induction
<1>4. n \in S
  BY <1>3
<1> QED BY <1>4

\* Pushing x into a window changes its sum by x and by the oldest sample.
LEMMA SumsShift ==
  ASSUME NEW n \in Nat \ {0}, NEW x \in Int,
         NEW f, \A i \in 0 .. n - 1 : f[i] \in Int, NEW v, IsSums(v, f, n),
         NEW g, \A i \in 0 .. n - 1 : g[i] = (IF i = 0 THEN x ELSE f[i - 1]),
         NEW u, IsSums(u, g, n)
  PROVE  u[n - 1] = v[n - 1] - f[n - 1] + x
<1>1. /\ v[-1] = 0 /\ \A i \in 0 .. n - 1 : v[i] = v[i - 1] + f[i]
      /\ \A i \in -1 .. n - 1 : v[i] \in Int
  BY SumsStep, SumsType
<1>2. u[-1] = 0 /\ \A i \in 0 .. n - 1 : u[i] = u[i - 1] + g[i]
  BY SumsStep
<1> DEFINE S == {m \in Nat : m < n => u[m] = v[m - 1] + x}
<1>3. 0 \in S
  BY <1>1, <1>2
<1>4. ASSUME NEW m \in S PROVE m + 1 \in S
  <2>1. CASE m + 1 < n
    <3>1. m + 1 \in 0 .. n - 1 /\ (m + 1) - 1 = m /\ m + 1 # 0 /\ m \in 0 .. n - 1
      BY <2>1
    <3>2. u[m + 1] = u[m] + f[m] /\ v[m] = v[m - 1] + f[m]
      BY <1>1, <1>2, <3>1
    <3>3. u[m] = v[m - 1] + x /\ v[m - 1] \in Int /\ f[m] \in Int
      BY <1>1, <3>1
    <3>4. u[m + 1] = v[m] + x
      BY <3>2, <3>3
    <3> QED BY <3>1, <3>4
  <2> QED BY <2>1
<1>5. S = Nat
  <2> HIDE DEF S
  <2>1. S \in SUBSET Nat BY DEF S
  <2> QED BY <1>3, <1>4, <2>1, Induction
<1>6. u[n - 1] = v[(n - 1) - 1] + x
  BY <1>5
<1>7. /\ v[n - 1] = v[(n - 1) - 1] + f[n - 1] /\ f[n - 1] \in Int
      /\ v[(n - 1) - 1] \in Int
  BY <1>1
<1> QED BY <1>6, <1>7

\* The sum of the window, before and after a step, as the last of its sums.
LEMMA WindowSum ==
  /\ SumOf(Window) = Sums(Window, window)[window - 1]
  /\ SumOf(Window)' = Sums(Window', window')[window' - 1]
BY DEF SumOf, Sums, IsSums

\* A cleared window has the sum 0.
LEMMA ClearedSum ==
  ASSUME NEW n \in Windows, n > 0, window' = n, state' = Zeros(n), head' = 0
  PROVE  SumOf(Window)' = 0
<1>1. Window' = [k \in 0 .. n - 1 |-> 0]
  BY ClearClears
<1>2. n \in Nat
  BY FilterAssumption
<1>3. IsSums(Sums(Window', n), Window', n)
  BY <1>2, SumsExist
<1>4. Sums(Window', n)[n - 1] = 0
  <2>1. \A i \in 0 .. n - 1 : Window'[i] = 0
    BY <1>1
  <2> QED BY <1>2, <1>3, <2>1, SumsOfZeros
<1> QED BY <1>4, WindowSum

\* An accepted sample changes the sum as the average keeps its running sum.
LEMMA AcceptedSum ==
  ASSUME Ring, window > 0, NEW x \in Samples, NEW result, Accept(x, result)
  PROVE  /\ SumOf(Window) \in Int
         /\ SumOf(Window)' = SumOf(Window) - state[head] + x
<1>1. /\ window' = window /\ window \in Nat \ {0}
      /\ Window' = [k \in 0 .. window - 1 |-> IF k = 0 THEN x ELSE Window[k - 1]]
  BY AcceptedWindow
<1>2. \A k \in 0 .. window - 1 : Window[k] \in Int
  BY WindowInt
<1>3. x \in Int
  BY FilterAssumption DEF Samples
<1>4. /\ IsSums(Sums(Window, window), Window, window)
      /\ IsSums(Sums(Window', window), Window', window)
  BY <1>1, SumsExist
<1>5. Window[window - 1] = state[head]
  BY OldestSample
<1>6. Sums(Window, window)[window - 1] \in Int
  BY <1>1, <1>2, <1>4, SumsType
<1>7. Sums(Window', window)[window - 1]
        = Sums(Window, window)[window - 1] - Window[window - 1] + x
  <2>1. \A i \in 0 .. window - 1 : Window'[i] = IF i = 0 THEN x ELSE Window[i - 1]
    BY <1>1
  <2> DEFINE f == Window
             g == Window'
             v == Sums(Window, window)
             u == Sums(Window', window)
             n == window
  <2>2. /\ n \in Nat \ {0} /\ \A i \in 0 .. n - 1 : f[i] \in Int
        /\ \A i \in 0 .. n - 1 : g[i] = (IF i = 0 THEN x ELSE f[i - 1])
        /\ IsSums(v, f, n) /\ IsSums(u, g, n)
    BY <1>1, <1>2, <1>4, <2>1
  <2> HIDE DEF f, g, v, u, n
  <2>3. u[n - 1] = v[n - 1] - f[n - 1] + x
    BY <1>3, <2>2, SumsShift
  <2> QED BY <2>3 DEF f, g, v, u, n
<1> QED BY <1>1, <1>5, <1>6, <1>7, WindowSum

\* The moving average is the mean of the window rounded once, for every window size:
\* the running sum is the window's own after any number of calls.
THEOREM AverageCorrect == Spec => []AverageRight
<1>1. Init => AverageRight
  BY DEF Init, AverageRight
<1>2. Ring /\ AverageRight /\ [Next]_vars => AverageRight'
  <2> SUFFICES ASSUME Ring, AverageRight, [Next]_vars PROVE AverageRight'
    OBVIOUS
  <2>1. CASE UNCHANGED vars
    BY <2>1 DEF vars, AverageRight, SumOf, Window, Behind
  <2>2. ASSUME NEW n \in Windows, n > 0, window' = n, state' = Zeros(n), head' = 0,
               sum' = 0, answered' = FALSE
        PROVE  AverageRight'
    <3>1. SumOf(Window)' = 0
      BY <2>2, ClearedSum
    <3>2. One * 0 = 0
      BY FilterAssumption
    <3> QED BY <2>2, <3>1, <3>2 DEF AverageRight
  <2>3. ASSUME NEW k \in Kinds, NEW n \in Windows, NEW capacity \in Capacities, NEW workspace \in Capacities,
               FilterInit(k, n, capacity, workspace)
        PROVE  AverageRight'
    <3>1. CASE TooSmall(k, n, capacity, workspace)
      BY <2>1, <2>3, <3>1 DEF FilterInit
    <3>2. CASE ~TooSmall(k, n, capacity, workspace)
      <4>1. n > 0
        BY <3>2, FilterAssumption DEF TooSmall
      <4> QED BY <2>2, <2>3, <3>2, <4>1 DEF FilterInit
    <3> QED BY <3>1, <3>2
  <2>4. CASE Reset
    <3>1. window \in Windows /\ window > 0
      BY <2>4 DEF Reset, Ring
    <3> QED BY <2>2, <2>4, <3>1 DEF Reset
  <2>5. ASSUME NEW x \in Samples, FirStep(x) PROVE AverageRight'
    BY <2>5 DEF FirStep, Accept, AverageRight
  <2>6. ASSUME NEW x \in Samples, AverageStep(x) PROVE AverageRight'
    <3> DEFINE total == sum - state[head] * One + x * One
    <3>1. CASE MeanExists(total, window)
      <4>1. /\ kind = "average" /\ window > 0 /\ sum' = total
            /\ Accept(x, Mean(total, window)) /\ output' = Mean(total, window)
            /\ window' = window
        BY <2>6, <3>1 DEF AverageStep, Accept
      <4>2. SumOf(Window) \in Int /\ SumOf(Window)' = SumOf(Window) - state[head] + x
        BY <4>1, AcceptedSum
      <4>3. sum = One * SumOf(Window)
        BY <4>1 DEF AverageRight
      <4>4. state[head] \in Int /\ x \in Int /\ One \in Int /\ window \in Nat \ {0}
        BY <4>1, FilterAssumption DEF Ring, Samples
      <4>5. total = One * SumOf(Window)'
        BY <4>2, <4>3, <4>4
      <4>6. Mean(total, window) = Saturate(Nearest(SumOf(Window)', window))
        BY <4>2, <4>4, <4>5, MeanRoundsOnce
      <4> HIDE DEF total
      <4> QED BY <4>1, <4>5, <4>6 DEF AverageRight, Saturate, Nearest, Signed, Abs
    <3>2. CASE ~MeanExists(total, window)
      BY <2>1, <2>6, <3>2 DEF AverageStep
    <3> QED BY <3>1, <3>2
  <2>7. ASSUME NEW x \in Samples, MedianStep(x) PROVE AverageRight'
    BY <2>7 DEF MedianStep, Accept, AverageRight
  <2> QED BY <2>1, <2>3, <2>4, <2>5, <2>6, <2>7 DEF Next
<1>3. TypeOK => Ring
  BY DEF TypeOK
<1> QED BY <1>1, <1>2, <1>3, TypeCorrect, PTL DEF Spec

\* The sums of n terms of at most a each are at most n * a, on both sides of zero.
LEMMA SumsBounded ==
  ASSUME NEW n \in Nat, NEW a \in Nat, NEW f, \A i \in 0 .. n - 1 : f[i] \in -a .. a,
         NEW v, IsSums(v, f, n)
  PROVE  v[n - 1] \in Int /\ -(n * a) <= v[n - 1] /\ v[n - 1] <= n * a
<1> DEFINE Bounded(m) == v[m - 1] \in Int /\ -(m * a) <= v[m - 1] /\ v[m - 1] <= m * a
           S == {m \in Nat : m <= n => Bounded(m)}
<1>1. 0 \in S
  <2>1. v[-1] = 0
    BY DEF IsSums
  <2> QED BY <2>1
<1>2. ASSUME NEW m \in S PROVE m + 1 \in S
  <2>1. CASE m < n
    <3>1. v[m] = v[m - 1] + f[m] /\ f[m] \in -a .. a
      BY <2>1, SumsStep
    <3>2. Bounded(m) /\ (m + 1) - 1 = m /\ (m + 1) * a = m * a + a
      BY <2>1
    <3>3. v[m] \in Int /\ -((m + 1) * a) <= v[m] /\ v[m] <= (m + 1) * a
      BY <3>1, <3>2
    <3>4. Bounded(m + 1)
      BY <3>2, <3>3
    <3> HIDE DEF Bounded
    <3> QED BY <3>4
  <2>2. CASE ~(m < n)
    <3> HIDE DEF Bounded
    <3> QED BY <2>2
  <2> QED BY <2>1, <2>2
<1>3. S = Nat
  <2> HIDE DEF S
  <2>1. S \in SUBSET Nat BY DEF S
  <2> QED BY <1>1, <1>2, <2>1, Induction
<1>4. n \in S
  BY <1>3
<1> QED BY <1>4

\* The total the average computes for x is in the range of its mean.
AverageAccepts ==
  kind = "average" /\ window > 0 =>
    \A x \in Samples : MeanExists(sum - state[head] * One + x * One, window)

\* A moving average never rejects a sample: linears_accum_mean_q31 finds the running sum
\* in range after every sequence of calls, for every window size.
THEOREM AverageNeverRejects == Spec => []AverageAccepts
<1>1. Ring /\ AverageRight => AverageAccepts
  <2> SUFFICES ASSUME Ring, AverageRight, kind = "average", window > 0, NEW x \in Samples
               PROVE  MeanExists(sum - state[head] * One + x * One, window)
    BY DEF AverageAccepts
  <2> DEFINE n == window
             f == Window
             g == [k \in 0 .. n - 1 |-> IF k = 0 THEN x ELSE f[k - 1]]
             v == Sums(f, n)
             u == Sums(g, n)
  <2>1. n \in Nat \ {0} /\ One \in Nat \ {0} /\ Samples \subseteq -One .. One
    BY FilterAssumption DEF Ring, Samples
  <2>2. \A k \in 0 .. n - 1 : f[k] \in -One .. One
    BY <2>1, WindowSample
  <2>3. f[n - 1] = state[head]
    BY OldestSample
  <2>4. sum = One * v[n - 1]
    BY SumOfSums DEF AverageRight
  <2> HIDE DEF f, n
  <2>5. ASSUME NEW k \in 0 .. n - 1 PROVE g[k] \in -One .. One
    <3>1. k # 0 => k - 1 \in 0 .. n - 1
      BY <2>1
    <3> QED BY <2>1, <2>2, <3>1
  <2>6. \A k \in 0 .. n - 1 : g[k] = (IF k = 0 THEN x ELSE f[k - 1])
    OBVIOUS
  <2>7. IsSums(v, f, n) /\ IsSums(u, g, n)
    BY <2>1, SumsExist
  <2> HIDE DEF g, u, v
  <2>8. x \in Int /\ \A k \in 0 .. n - 1 : f[k] \in Int
    BY <2>1, <2>2
  <2>9. u[n - 1] = v[n - 1] - f[n - 1] + x
    BY <2>1, <2>6, <2>7, <2>8, SumsShift
  <2>10. v[n - 1] \in Int /\ f[n - 1] \in Int
    BY <2>1, <2>7, <2>8, SumsType
  <2>11. /\ u[n - 1] \in Int
         /\ -(n * One) <= u[n - 1] /\ u[n - 1] <= n * One
    BY <2>1, <2>5, <2>7, SumsBounded
  <2>12. sum - state[head] * One + x * One = One * u[n - 1]
    BY <2>1, <2>3, <2>4, <2>8, <2>9, <2>10
  <2> DEFINE t == u[n - 1]
  <2> HIDE DEF t
  <2>13. t \in Int /\ -(n * One) <= t /\ t <= n * One
    BY <2>11 DEF t
  <2>14. One * t <= (n * One) * One /\ -((n * One) * One) <= One * t
    BY <2>1, <2>13
  <2>15. Abs(One * t) <= (n * One) * One
    BY <2>1, <2>13, <2>14 DEF Abs
  <2> QED BY <2>12, <2>15 DEF MeanExists, t, n
<1>2. TypeOK => Ring
  BY DEF TypeOK
<1> QED BY <1>1, <1>2, TypeCorrect, AverageCorrect, PTL

----------------------------------------------------------------------------
(***************************************************************************)
(* The median.  Its insertion sort first.                                  *)
(***************************************************************************)

\* u holds what w holds, in the places p and back by q.
Rearranged(u, w, n) ==
  \E p, q \in [0 .. n - 1 -> 0 .. n - 1] :
    \A k \in 0 .. n - 1 : q[p[k]] = k /\ p[q[k]] = k /\ u[k] = w[p[k]]

\* The places 0 to i are in order.
SortedUpTo(u, i) == \A j, k \in 0 .. i : j <= k => u[j] <= u[k]

\* To be rearranged is an equivalence.
LEMMA RearrangedSame ==
  ASSUME NEW n \in Nat, NEW u
  PROVE  Rearranged(u, u, n)
<1> DEFINE p == [k \in 0 .. n - 1 |-> k]
<1>1. p \in [0 .. n - 1 -> 0 .. n - 1]
  OBVIOUS
<1>2. \A k \in 0 .. n - 1 : p[p[k]] = k /\ u[k] = u[p[k]]
  OBVIOUS
<1> HIDE DEF p
<1> QED BY <1>1, <1>2 DEF Rearranged

LEMMA RearrangedTwice ==
  ASSUME NEW n \in Nat, NEW t, NEW u, NEW w, Rearranged(t, u, n), Rearranged(u, w, n)
  PROVE  Rearranged(t, w, n)
<1> DEFINE D == 0 .. n - 1
<1>1. PICK p1, q1 \in [D -> D] :
        \A k \in D : q1[p1[k]] = k /\ p1[q1[k]] = k /\ t[k] = u[p1[k]]
  BY DEF Rearranged
<1>2. PICK p2, q2 \in [D -> D] :
        \A k \in D : q2[p2[k]] = k /\ p2[q2[k]] = k /\ u[k] = w[p2[k]]
  BY DEF Rearranged
<1> HIDE DEF D
<1> DEFINE p == [k \in D |-> p2[p1[k]]]
           q == [k \in D |-> q1[q2[k]]]
<1>3. p \in [D -> D] /\ q \in [D -> D]
  BY <1>1, <1>2
<1>4. \A k \in D : q[p[k]] = k /\ p[q[k]] = k /\ t[k] = w[p[k]]
  BY <1>1, <1>2
<1> HIDE DEF p, q
<1> QED BY <1>3, <1>4 DEF Rearranged, D

LEMMA RearrangedBack ==
  ASSUME NEW n \in Nat, NEW u, NEW w, Rearranged(u, w, n)
  PROVE  Rearranged(w, u, n)
<1> DEFINE D == 0 .. n - 1
<1>1. PICK p, q \in [D -> D] :
        \A k \in D : q[p[k]] = k /\ p[q[k]] = k /\ u[k] = w[p[k]]
  BY DEF Rearranged
<1> HIDE DEF D
<1>2. \A k \in D : p[q[k]] = k /\ q[p[k]] = k /\ w[k] = u[q[k]]
  BY <1>1
<1> QED BY <1>2 DEF Rearranged, D

\* The key finds its place: the least one from which all samples before it are larger.
LEMMA PlaceExists ==
  ASSUME NEW n \in Nat, NEW w \in [0 .. n - 1 -> Int], NEW i \in 1 .. n - 1
  PROVE  \E j \in 0 .. i : /\ \A k \in j .. i - 1 : w[k] > w[i]
                           /\ j = 0 \/ w[j - 1] <= w[i]
<1> DEFINE T == {j \in 0 .. i : \A k \in j .. i - 1 : w[k] > w[i]}
<1>1. i \in T
  OBVIOUS
<1>2. T \in SUBSET Nat
  OBVIOUS
<1>3. PICK j \in T : \A k \in T : j <= k
  <2> HIDE DEF T
  <2> QED BY <1>1, <1>2, LeastNumber
<1>4. CASE j = 0
  BY <1>4
<1>5. CASE j # 0
  <2>1. j \in 1 .. i /\ j - 1 \in 0 .. i /\ j - 1 \notin T
    <3>1. j \in 0 .. i
      BY <1>3
    <3>2. ~(j <= j - 1) /\ j \in 1 .. i /\ j - 1 \in 0 .. i
      BY <1>5, <3>1
    <3> HIDE DEF T
    <3> QED BY <1>3, <3>2
  <2>2. PICK k \in j - 1 .. i - 1 : ~(w[k] > w[i])
    BY <2>1
  <2>3. ~(k \in j .. i - 1)
    BY <2>2
  <2>4. k = j - 1
    BY <2>1, <2>2, <2>3
  <2>5. w[j - 1] \in Int /\ w[i] \in Int
    BY <2>1
  <2>6. w[j - 1] <= w[i]
    BY <2>2, <2>4, <2>5
  <2> QED BY <2>1, <2>6
<1> QED BY <1>4, <1>5

\* A pass of the insertion sort extends the sorted part by its key and keeps every sample.
LEMMA InsertSorts ==
  ASSUME NEW n \in Nat, NEW w \in [0 .. n - 1 -> Int], NEW i \in 1 .. n - 1,
         SortedUpTo(w, i - 1)
  PROVE  /\ Insert(w, i) \in [0 .. n - 1 -> Int]
         /\ SortedUpTo(Insert(w, i), i)
         /\ Rearranged(Insert(w, i), w, n)
<1> DEFINE place == CHOOSE j \in 0 .. i : /\ \A k \in j .. i - 1 : w[k] > w[i]
                                          /\ j = 0 \/ w[j - 1] <= w[i]
           u == Insert(w, i)
<1>1. /\ place \in 0 .. i /\ \A k \in place .. i - 1 : w[k] > w[i]
      /\ place = 0 \/ w[place - 1] <= w[i]
  BY PlaceExists
<1>2. u = [k \in 0 .. n - 1 |-> IF k < place \/ k > i THEN w[k]
                                ELSE IF k = place THEN w[i] ELSE w[k - 1]]
  BY DEF Insert
<1> HIDE DEF place, u
<1>3. u \in [0 .. n - 1 -> Int]
  BY <1>1, <1>2
<1>4. SortedUpTo(u, i)
  <2> SUFFICES ASSUME NEW j \in 0 .. i, NEW k \in 0 .. i, j <= k
               PROVE  u[j] <= u[k]
    BY DEF SortedUpTo
  <2>1. j \in 0 .. n - 1 /\ k \in 0 .. n - 1 /\ i \in 0 .. n - 1
    OBVIOUS
  <2>2. \A a, b \in 0 .. i - 1 : a <= b => w[a] <= w[b]
    BY DEF SortedUpTo
  <2>3. CASE k < place
    BY <1>1, <1>2, <2>1, <2>2, <2>3
  <2>4. CASE j < place /\ k = place
    <3>1. w[j] <= w[place - 1]
      BY <1>1, <2>1, <2>2, <2>4
    <3>2. w[place - 1] <= w[i] /\ w[place - 1] \in Int
      BY <1>1, <2>1, <2>4
    <3> QED BY <1>1, <1>2, <2>1, <2>4, <3>1, <3>2
  <2>5. CASE j < place /\ k > place
    BY <1>1, <1>2, <2>1, <2>2, <2>5
  <2>6. CASE j = place /\ k = place
    BY <1>1, <1>2, <2>1, <2>6
  <2>7. CASE j = place /\ k > place
    <3>1. w[k - 1] > w[i]
      BY <1>1, <2>1, <2>7
    <3> QED BY <1>1, <1>2, <2>1, <2>7, <3>1
  <2>8. CASE j > place
    BY <1>1, <1>2, <2>1, <2>2, <2>8
  <2> QED BY <1>1, <2>3, <2>4, <2>5, <2>6, <2>7, <2>8
<1>5. Rearranged(u, w, n)
  <2> DEFINE p == [k \in 0 .. n - 1 |-> IF k < place \/ k > i THEN k
                                        ELSE IF k = place THEN i ELSE k - 1]
             q == [k \in 0 .. n - 1 |-> IF k < place \/ k > i THEN k
                                        ELSE IF k = i THEN place ELSE k + 1]
  <2>1. p \in [0 .. n - 1 -> 0 .. n - 1] /\ q \in [0 .. n - 1 -> 0 .. n - 1]
    BY <1>1
  <2>2. ASSUME NEW k \in 0 .. n - 1 PROVE q[p[k]] = k
    BY <1>1
  <2>3. ASSUME NEW k \in 0 .. n - 1 PROVE p[q[k]] = k
    BY <1>1
  <2>4. ASSUME NEW k \in 0 .. n - 1 PROVE u[k] = w[p[k]]
    BY <1>1, <1>2
  <2>5. \A k \in 0 .. n - 1 : q[p[k]] = k /\ p[q[k]] = k /\ u[k] = w[p[k]]
    <3> HIDE DEF p, q
    <3> QED BY <2>2, <2>3, <2>4
  <2> HIDE DEF p, q
  <2> QED BY <2>1, <2>5 DEF Rearranged
<1> QED BY <1>3, <1>4, <1>5 DEF u

\* p holds the window after each pass of the sort.
IsPasses(p, w, n) == p = [i \in 0 .. n - 1 |-> IF i = 0 THEN w ELSE Insert(p[i - 1], i)]

\* The passes exist for every length.
LEMMA PassesExist ==
  ASSUME NEW w, NEW n \in Nat
  PROVE  \E p : IsPasses(p, w, n)
<1> DEFINE S == {m \in Nat : \E v : IsPasses(v, w, m)}
<1>1. 0 \in S
  <2>1. IsPasses([i \in 0 .. -1 |-> w], w, 0)
    BY DEF IsPasses
  <2> QED BY <2>1
<1>2. ASSUME NEW m \in S PROVE m + 1 \in S
  <2>1. PICK v : IsPasses(v, w, m)
    OBVIOUS
  <2> DEFINE z == [i \in 0 .. m |-> IF i < m THEN v[i]
                                     ELSE IF m = 0 THEN w ELSE Insert(v[m - 1], m)]
  <2>2. m \in Nat
    OBVIOUS
  <2>3. ASSUME NEW i \in 0 .. m PROVE z[i] = IF i = 0 THEN w ELSE Insert(z[i - 1], i)
    <3>1. CASE i < m
      BY <2>1, <2>2, <3>1 DEF IsPasses
    <3>2. CASE i = m
      BY <2>1, <2>2, <3>2 DEF IsPasses
    <3> QED BY <2>2, <3>1, <3>2
  <2>4. z = [i \in 0 .. (m + 1) - 1 |-> IF i = 0 THEN w ELSE Insert(z[i - 1], i)]
    <3>1. (m + 1) - 1 = m
      BY <2>2
    <3> HIDE DEF z
    <3>2. z = [i \in 0 .. m |-> z[i]]
      BY DEF z
    <3> QED BY <2>3, <3>1, <3>2
  <2>5. IsPasses(z, w, m + 1)
    BY <2>4 DEF IsPasses
  <2> QED BY <2>2, <2>5
<1>3. S = Nat
  <2> HIDE DEF S
  <2>1. S \in SUBSET Nat BY DEF S
  <2> QED BY <1>1, <1>2, <2>1, Induction
<1> QED BY <1>3

\* The insertion sort sorts: the result is in order and holds the samples of the window.
LEMMA SortSorts ==
  ASSUME window \in Nat \ {0}, NEW w \in [0 .. window - 1 -> Int]
  PROVE  /\ Sorted(w) \in [0 .. window - 1 -> Int]
         /\ SortedUpTo(Sorted(w), window - 1)
         /\ Rearranged(Sorted(w), w, window)
<1> DEFINE p == CHOOSE v : IsPasses(v, w, window)
<1>1. IsPasses(p, w, window)
  BY PassesExist
<1> DEFINE Right(i) == /\ p[i] \in [0 .. window - 1 -> Int]
                       /\ SortedUpTo(p[i], i) /\ Rearranged(p[i], w, window)
           S == {i \in Nat : i < window => Right(i)}
<1>2. Sorted(w) = p[window - 1]
  BY DEF Sorted, IsPasses
<1> HIDE DEF p
<1>3. p[0] = w /\ \A i \in 1 .. window - 1 : p[i] = Insert(p[i - 1], i)
  BY <1>1 DEF IsPasses
<1>4. 0 \in S
  <2>1. SortedUpTo(w, 0)
    BY DEF SortedUpTo
  <2> QED BY <1>3, <2>1, RearrangedSame
<1>5. ASSUME NEW i \in S PROVE i + 1 \in S
  <2>1. CASE i + 1 < window
    <3>1. i + 1 \in 1 .. window - 1 /\ (i + 1) - 1 = i /\ i < window
      BY <2>1
    <3>2. Right(i)
      BY <3>1
    <3>3. p[i + 1] = Insert(p[i], i + 1)
      BY <1>3, <3>1
    <3>4. /\ p[i + 1] \in [0 .. window - 1 -> Int] /\ SortedUpTo(p[i + 1], i + 1)
          /\ Rearranged(p[i + 1], p[i], window)
      <4> DEFINE t == p[i]
                 j == i + 1
      <4>1. t \in [0 .. window - 1 -> Int] /\ SortedUpTo(t, j - 1) /\ j \in 1 .. window - 1
        BY <3>1, <3>2
      <4> HIDE DEF t, j
      <4>2. /\ Insert(t, j) \in [0 .. window - 1 -> Int] /\ SortedUpTo(Insert(t, j), j)
            /\ Rearranged(Insert(t, j), t, window)
        BY <4>1, InsertSorts
      <4> QED BY <3>3, <4>2 DEF t, j
    <3>5. Rearranged(p[i + 1], w, window)
      BY <3>2, <3>4, RearrangedTwice
    <3>6. Right(i + 1)
      BY <3>4, <3>5
    <3> HIDE DEF Right
    <3> QED BY <3>6
  <2>2. CASE ~(i + 1 < window)
    <3> HIDE DEF Right
    <3> QED BY <2>2
  <2> QED BY <2>1, <2>2
<1>6. S = Nat
  <2> HIDE DEF S
  <2>1. S \in SUBSET Nat BY DEF S
  <2> QED BY <1>4, <1>5, <2>1, Induction
<1>7. Right(window - 1)
  <2>1. window - 1 \in Nat /\ window - 1 < window
    OBVIOUS
  <2>2. window - 1 \in S
    <3> HIDE DEF S
    <3> QED BY <1>6, <2>1
  <2> HIDE DEF Right
  <2> QED BY <2>1, <2>2
<1> QED BY <1>2, <1>7

\* The sample at place r of the sorted window has at most r smaller ones, and with its
\* equals and the smaller ones it makes more than r.
LEMMA SortedRank ==
  ASSUME NEW n \in Nat \ {0}, NEW s \in [0 .. n - 1 -> Int], SortedUpTo(s, n - 1),
         NEW w \in [0 .. n - 1 -> Int], Rearranged(s, w, n), NEW r \in 0 .. n - 1
  PROVE  /\ Cardinality({k \in 0 .. n - 1 : w[k] < s[r]}) <= r
         /\ r < Cardinality({k \in 0 .. n - 1 : w[k] <= s[r]})
<1> DEFINE D == 0 .. n - 1
           A == {k \in D : w[k] < s[r]}
           B == {k \in D : w[k] <= s[r]}
<1>1. PICK p, q \in [D -> D] :
        \A k \in D : q[p[k]] = k /\ p[q[k]] = k /\ s[k] = w[p[k]]
  BY DEF Rearranged
<1>2. \A j, k \in D : j <= k => s[j] <= s[k]
  BY DEF SortedUpTo
<1>3. Cardinality(A) <= r
  <2> DEFINE f == [k \in A |-> q[k]]
  <2>1. ASSUME NEW k \in A PROVE q[k] \in 0 .. r - 1
    <3>1. k \in D /\ w[k] < s[r] /\ q[k] \in D
      BY <1>1
    <3>2. s[q[k]] = w[k]
      BY <1>1, <3>1
    <3>3. ~(r <= q[k])
      <4>1. r \in D /\ s[r] \in Int /\ w[k] \in Int
        BY <3>1
      <4>2. r <= q[k] => s[r] <= s[q[k]]
        BY <1>2, <3>1, <4>1
      <4> QED BY <3>1, <3>2, <4>1, <4>2
    <3> QED BY <3>1, <3>3
  <2>2. \A a, b \in A : q[a] = q[b] => a = b
    BY <1>1
  <2>3. f \in Injection(A, 0 .. r - 1)
    <3> HIDE DEF A
    <3> QED BY <2>1, <2>2 DEF Injection, IsInjective
  <2>4. IsFiniteSet(0 .. r - 1) /\ Cardinality(0 .. r - 1) = r
    <3>1. 0 \in Int /\ r - 1 \in Int /\ (IF 0 > r - 1 THEN 0 ELSE (r - 1) - 0 + 1) = r
      OBVIOUS
    <3> QED BY <3>1, FS_Interval
  <2> HIDE DEF A, f
  <2> QED BY <2>3, <2>4, FS_Injection
<1>4. r < Cardinality(B)
  <2> DEFINE f == [k \in 0 .. r |-> p[k]]
  <2>1. ASSUME NEW k \in 0 .. r PROVE p[k] \in B
    <3>1. k \in D /\ p[k] \in D /\ s[k] = w[p[k]] /\ s[k] <= s[r]
      <4>1. k \in D /\ r \in D /\ k <= r
        OBVIOUS
      <4> HIDE DEF D
      <4> QED BY <1>1, <1>2, <4>1
    <3> QED BY <3>1
  <2>2. \A a, b \in 0 .. r : p[a] = p[b] => a = b
    <3>1. 0 .. r \subseteq D
      OBVIOUS
    <3> HIDE DEF D
    <3>2. \A a \in 0 .. r : q[p[a]] = a
      BY <1>1, <3>1
    <3> QED BY <3>2
  <2>3. f \in Injection(0 .. r, B)
    <3> HIDE DEF B
    <3> QED BY <2>1, <2>2 DEF Injection, IsInjective
  <2>4. IsFiniteSet(0 .. r) /\ Cardinality(0 .. r) = r + 1
    <3>1. 0 \in Int /\ r \in Int /\ (IF 0 > r THEN 0 ELSE r - 0 + 1) = r + 1
      OBVIOUS
    <3> QED BY <3>1, FS_Interval
  <2>5. IsFiniteSet(B)
    <3>1. IsFiniteSet(D)
      BY FS_Interval
    <3>2. B \in SUBSET D
      OBVIOUS
    <3> HIDE DEF B, D
    <3> QED BY <3>1, <3>2, FS_Subset
  <2>6. Cardinality(B) \in Nat
    BY <2>5, FS_CardinalityType
  <2> HIDE DEF B, f
  <2>7. Cardinality(0 .. r) <= Cardinality(B)
    BY <2>3, <2>5, FS_Injection
  <2> QED BY <2>4, <2>6, <2>7
<1> QED BY <1>3, <1>4

\* The window is the ring read backwards from the head, so it holds the same samples.
LEMMA RingRearranged ==
  ASSUME NEW n \in Nat \ {0}, NEW h \in 0 .. n - 1, NEW ring, NEW w,
         \A k \in 0 .. n - 1 :
           w[k] = ring[IF k + 1 <= h THEN h - (k + 1) ELSE h + n - (k + 1)]
  PROVE  Rearranged(w, ring, n)
<1> DEFINE p == [k \in 0 .. n - 1 |-> IF k + 1 <= h THEN h - (k + 1) ELSE h + n - (k + 1)]
<1>1. p \in [0 .. n - 1 -> 0 .. n - 1]
  OBVIOUS
<1>2. ASSUME NEW k \in 0 .. n - 1 PROVE p[p[k]] = k /\ w[k] = ring[p[k]]
  OBVIOUS
<1> HIDE DEF p
<1> QED BY <1>1, <1>2 DEF Rearranged

\* Half the sum of a sample and itself is the sample.
LEMMA NearestOfTwice ==
  ASSUME NEW v \in Samples
  PROVE  v = Saturate(Nearest(v + v, 2))
<1>1. v \in Int /\ v # One
  BY FilterAssumption DEF Samples
<1>2. Nearest(v + v, 2) = v
  BY <1>1 DEF Nearest, Signed, Abs
<1> QED BY <1>1, <1>2 DEF Saturate

\* The sample at place r of the sorted new ring has rank r in the new window.
LEMMA AcceptedRank ==
  ASSUME Ring, window > 0, NEW x \in Samples, NEW result, Accept(x, result),
         NEW r \in 0 .. window - 1
  PROVE  /\ Sorted(state')[r] \in Samples
         /\ Cardinality({k \in 0 .. window - 1 : Window'[k] < Sorted(state')[r]}) <= r
         /\ r < Cardinality({k \in 0 .. window - 1 : Window'[k] <= Sorted(state')[r]})
<1> DEFINE n == window
           ring == state'
           w == Window'
           s == Sorted(state')
<1>1. n \in Nat \ {0} /\ window' = n /\ head' \in 0 .. n - 1 /\ ring \in [0 .. n - 1 -> Samples]
  BY AcceptRing, AcceptedWindow DEF Ring
<1>2. Samples \subseteq Int
  BY FilterAssumption DEF Samples
<1>3. ring \in [0 .. n - 1 -> Int]
  BY <1>1, <1>2
<1>4. s \in [0 .. n - 1 -> Int] /\ SortedUpTo(s, n - 1) /\ Rearranged(s, ring, n)
  BY <1>1, <1>3, SortSorts
<1>5. /\ w = [k \in 0 .. n - 1 |-> w[k]]
      /\ \A k \in 0 .. n - 1 :
           w[k] = ring[IF k + 1 <= head' THEN head' - (k + 1) ELSE head' + n - (k + 1)]
  BY <1>1 DEF Window, Behind
<1> HIDE DEF n, ring, w, s
<1>6. Rearranged(w, ring, n)
  BY <1>1, <1>5, RingRearranged
<1>7. Rearranged(s, w, n)
  BY <1>1, <1>4, <1>6, RearrangedBack, RearrangedTwice
<1>8. w \in [0 .. n - 1 -> Int]
  <2>1. ASSUME NEW k \in 0 .. n - 1 PROVE w[k] \in Int
    <3> DEFINE j == IF k + 1 <= head' THEN head' - (k + 1) ELSE head' + n - (k + 1)
    <3>1. j \in 0 .. n - 1 /\ w[k] = ring[j]
      BY <1>1, <1>5
    <3> HIDE DEF j
    <3> QED BY <1>3, <3>1
  <2> QED BY <1>5, <2>1
<1>9. r \in 0 .. n - 1
  BY DEF n
<1>10. s[r] \in Samples
  BY <1>1, <1>4, <1>9 DEF Rearranged
<1>11. /\ Cardinality({k \in 0 .. n - 1 : w[k] < s[r]}) <= r
       /\ r < Cardinality({k \in 0 .. n - 1 : w[k] <= s[r]})
  BY <1>1, <1>4, <1>7, <1>8, <1>9, SortedRank
<1> QED BY <1>10, <1>11 DEF n, w, s

\* The output of the median filter has half of the window on either side, for every
\* window size: the insertion sort sorts, and the middle of the sorted ring is the middle
\* of the window.
THEOREM MedianCorrect == Spec => []MedianRight
<1>1. Init => MedianRight
  BY DEF Init, MedianRight
<1>2. Ring /\ MedianRight /\ [Next]_vars => MedianRight'
  <2> SUFFICES ASSUME Ring, MedianRight, [Next]_vars PROVE MedianRight'
    OBVIOUS
  <2>1. CASE UNCHANGED vars
    BY <2>1 DEF vars, MedianRight, Window, Behind
  <2>2. CASE answered' = FALSE \/ kind' # "median"
    BY <2>2 DEF MedianRight
  <2>3. ASSUME NEW k \in Kinds, NEW n \in Windows, NEW capacity \in Capacities, NEW workspace \in Capacities,
               FilterInit(k, n, capacity, workspace)
        PROVE  MedianRight'
    BY <2>1, <2>2, <2>3 DEF FilterInit
  <2>4. CASE Reset
    BY <2>2, <2>4 DEF Reset
  <2>5. ASSUME NEW x \in Samples, FirStep(x) PROVE MedianRight'
    BY <2>2, <2>5 DEF FirStep, Accept
  <2>6. ASSUME NEW x \in Samples, AverageStep(x) PROVE MedianRight'
    BY <2>1, <2>2, <2>6 DEF AverageStep, Accept
  <2>7. ASSUME NEW x \in Samples, MedianStep(x) PROVE MedianRight'
    <3> DEFINE s == Sorted(state')
               h == window \div 2
               g == IF window % 2 = 1 THEN h ELSE h - 1
    <3>1. /\ window > 0 /\ Accept(x, Median([state EXCEPT ![head] = x]))
          /\ state' = [state EXCEPT ![head] = x]
          /\ output' = Median([state EXCEPT ![head] = x])
      BY <2>7 DEF MedianStep, Accept
    <3>2. window' = window /\ window \in Nat \ {0}
      BY <3>1, AcceptedWindow
    <3>3. h \in 0 .. window - 1 /\ g \in 0 .. window - 1
      BY <3>2
    <3>4. /\ s[g] \in Samples
          /\ Cardinality({k \in 0 .. window - 1 : Window'[k] < s[g]}) <= g
          /\ g < Cardinality({k \in 0 .. window - 1 : Window'[k] <= s[g]})
      <4> HIDE DEF g
      <4> QED BY <3>1, <3>3, AcceptedRank
    <3>5. /\ s[h] \in Samples
          /\ Cardinality({k \in 0 .. window - 1 : Window'[k] < s[h]}) <= h
          /\ h < Cardinality({k \in 0 .. window - 1 : Window'[k] <= s[h]})
      <4> HIDE DEF h
      <4> QED BY <3>1, <3>3, AcceptedRank
    <3>6. output' = Saturate(Nearest(s[g] + s[h], 2))
      <4>1. output' = IF window % 2 = 1 THEN s[h] ELSE Saturate(Nearest(s[h - 1] + s[h], 2))
        BY <3>1 DEF Median
      <4>2. CASE window % 2 = 1
        BY <3>5, <4>1, <4>2, NearestOfTwice
      <4>3. CASE window % 2 # 1
        BY <4>1, <4>3
      <4> QED BY <4>2, <4>3
    <3> HIDE DEF s
    <3> QED BY <3>2, <3>4, <3>5, <3>6 DEF MedianRight, Saturate
  <2> QED BY <2>1, <2>3, <2>4, <2>5, <2>6, <2>7 DEF Next
<1>3. TypeOK => Ring
  BY DEF TypeOK
<1> QED BY <1>1, <1>2, <1>3, TypeCorrect, PTL DEF Spec
=============================================================================
