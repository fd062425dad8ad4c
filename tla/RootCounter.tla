---------------------------- MODULE RootCounter ----------------------------
(***************************************************************************)
(* What a free-running root counter promises: it advances by one every     *)
(* num/den cycles and wraps at its period, and only a write to one of its  *)
(* registers or a change of the video mode (a new epoch) moves it in any   *)
(* other way: looking at it, at whatever moment, does not.  A counter that *)
(* follows the blanking periods is not described: count is Unknown then.   *)
(***************************************************************************)
EXTENDS Integers

CONSTANT Unknown

VARIABLES count,        \* the counter
          sub,          \* time since the last tick, in 1/den cycles
          clock,        \* <<num, den>>; num is 0 while the counter is stopped
          period,       \* the counter wraps here
          epoch

vars == <<count, sub, clock, period, epoch>>

Step(n) == IF n + 1 >= period THEN (n + 1) % period ELSE n + 1

Init == count = 0 /\ sub = 0

Cycle ==
  /\ count # Unknown /\ clock[1] # 0
  /\ LET due == sub + clock[2] >= clock[1]
     IN  /\ count' = IF due THEN Step(count) ELSE count
         /\ sub' = IF due THEN sub + clock[2] - clock[1] ELSE sub + clock[2]
  /\ UNCHANGED <<clock, period, epoch>>

Write == epoch' # epoch

Next == Cycle \/ Write
Spec == Init /\ [][Next]_vars
=============================================================================
