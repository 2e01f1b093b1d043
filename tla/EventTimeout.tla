---------------------------- MODULE EventTimeout -----------------------------
(***************************************************************************)
(* gruposEventos_1: app_main sets the event bit three times, 333 ms apart, *)
(* and then stays away for a second more than that; tarea1 waits for the   *)
(* bit, clears it on exit, and gives up after a second.  Time is in ticks  *)
(* of 10 ms and passes when both are blocked; reporting the result may     *)
(* carry tarea1 into the next tick.                                        *)
(***************************************************************************)
EXTENDS Naturals

CONSTANTS Gap, Rest, Patience    \* ticks: 33, 100 and 100 in the code

(* What the numbers of the code have to satisfy for the program to do what it says. *)
ASSUME TicksAssumption ==
  /\ Gap \in Nat /\ Rest \in Nat /\ Patience \in Nat
  /\ 0 < Gap /\ 0 < Rest /\ Gap < Patience /\ Patience + 1 < Rest + Gap /\ Rest + Gap < 2 * Patience

VARIABLES
  bit,        \* EV_1SEG: 0 or 1
  i, delay,   \* app_main: bits set in this round, ticks it still sleeps
  patience,   \* ticks left of tarea1's wait
  oks         \* waits of tarea1 that ended well since the last timeout, counted to four

vars == <<bit, i, delay, patience, oks>>

Init == bit = 0 /\ i = 0 /\ delay = Gap /\ patience = Patience /\ oks = 0

(* app_main: after the third bit the loop sleeps Rest, and starts with a Gap again. *)
NoDelay(n)  == 0
LongRest(n) == IF n < 3 THEN Gap ELSE 2 * Rest
Pause(n)    == IF n < 3 THEN Gap ELSE Rest

xEventGroupSetBits ==
  /\ delay = 0 /\ i < 3
  /\ bit' = 1 /\ i' = i + 1 /\ delay' = Pause(i')
  /\ UNCHANGED <<patience, oks>>

NextRound == delay = 0 /\ i = 3 /\ i' = 0 /\ delay' = Gap /\ UNCHANGED <<bit, patience, oks>>

(* tarea1: a wait that timed out looks at the bits once more. *)
WaitAgain   == patience' \in {Patience, Patience + 1}
ClearOnExit == bit' = 0

Happened ==
  /\ bit = 1 /\ ClearOnExit /\ WaitAgain
  /\ oks' = IF oks < 4 THEN oks + 1 ELSE 4
  /\ UNCHANGED <<i, delay>>

Timeout == patience = 0 /\ bit = 0 /\ WaitAgain /\ oks' = 0 /\ UNCHANGED <<bit, i, delay>>

Tick ==
  /\ delay > 0 /\ patience > 0 /\ bit = 0
  /\ delay' = delay - 1 /\ patience' = patience - 1
  /\ UNCHANGED <<bit, i, oks>>

app_main == xEventGroupSetBits \/ NextRound
tarea1   == Happened \/ Timeout
Next     == app_main \/ tarea1 \/ Tick

Spec == Init /\ [][Next]_vars

-----------------------------------------------------------------------------
TypeOK ==
  /\ bit \in 0..1 /\ i \in 0..3 /\ delay \in Nat /\ patience \in Nat /\ oks \in Nat

(***************************************************************************)
(* "Envia 3 eventos antes del timeout": tarea1 reports a timeout after     *)
(* three events, never after fewer or more.                                *)
(***************************************************************************)
TimeoutAfterThree == [][Timeout => oks = 3]_vars

(* The event group keeps no count, yet no bit is set before tarea1 has cleared the last. *)
NoEventMerged == [][xEventGroupSetBits => bit = 0]_vars

-----------------------------------------------------------------------------
(***************************************************************************)
(* Inductive: how app_main's clock and tarea1's stand to each other.       *)
(* Length is the time from the third bit to the end of app_main's delay.   *)
(***************************************************************************)
Within(length) ==
  delay + Patience <= patience + length /\ patience + length <= delay + Patience + 1

ClocksInStep ==
  /\ TypeOK
  /\ bit = 1 => i > 0 /\ oks = i - 1 /\ delay = Pause(i)
  /\ bit = 0 => \/ i < 3 /\ oks = i /\ delay < patience
                \/ i = 3 /\ oks = 0 /\ delay + Gap < patience
                \/ i = 3 /\ oks = 3 /\ Within(Rest)
                \/ i = 0 /\ oks = 3 /\ Within(Rest + Gap)
=============================================================================
