---------------------------- MODULE SlidingWindow ---------------------------
(***************************************************************************)
(* What a window filter remembers: the last n samples it accepted, newest  *)
(* first, zero where there was none yet.  A call that reports success has  *)
(* changed the window by its argument, and flips turn even when the window *)
(* comes out the same; one that reports an error is no step at all.        *)
(***************************************************************************)
EXTENDS Integers

CONSTANTS Windows, Samples

VARIABLES win,  \* the accepted samples
          call  \* the last call that succeeded, and its argument

Succeeds(what, arg) == call' = [turn |-> ~call.turn, what |-> what, arg |-> arg]

Clear(n) == win' = [k \in 0 .. n - 1 |-> 0] /\ Succeeds("init", n)

Reset == win' = [k \in DOMAIN win |-> 0] /\ Succeeds("reset", 0)

Push(x) == /\ win' = [k \in DOMAIN win |-> IF k = 0 THEN x ELSE win[k - 1]]
           /\ Succeeds("step", x)

Init == /\ win = [k \in 0 .. -1 |-> 0]
        /\ call = [turn |-> FALSE, what |-> "none", arg |-> 0]

Next == \/ \E n \in Windows : Clear(n)
        \/ Reset
        \/ \E x \in Samples : Push(x)

Spec == Init /\ [][Next]_<<win, call>>
=============================================================================
