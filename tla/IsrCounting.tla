----------------------------- MODULE IsrCounting -----------------------------
(***************************************************************************)
(* Semaforo_Contador1: the interrupt of a button gives a counting          *)
(* semaphore four times; Tarea1 takes it, toggles the LED and sleeps       *)
(* 100 ms, its work taking a fraction of a tick.  A give that finds the    *)
(* semaphore at its limit does nothing, and the interrupt does not look.   *)
(* Interrupt and task share a core, so the four gives come together.       *)
(*                                                                         *)
(* The button is external: on the average it is not pressed faster than    *)
(* four toggles take, but MaxBurst presses may come at once.  Time is in   *)
(* ticks of 10 ms.                                                         *)
(***************************************************************************)
EXTENDS Naturals

CONSTANTS Limit, Sleep,   \* 10 and 10 in the code
          MaxBurst        \* bound: presses in immediate succession

ASSUME ConstantsAssumption ==
  Limit \in Nat /\ Sleep \in Nat \ {0} /\ MaxBurst \in Nat /\ 4 * MaxBurst <= Limit

VARIABLES
  count,   \* the semaphore
  state,   \* the LED
  left,    \* ticks Tarea1 still sleeps
  credit   \* ticks the button has been left alone, as far as they count

vars == <<count, state, left, credit>>

Price == 4 * Sleep      \* of a press

Init == count = 0 /\ state = 0 /\ left = 0 /\ credit = Price * MaxBurst

Give(n) == IF n < Limit THEN n + 1 ELSE n

FourGives  == count' = Give(Give(Give(Give(count))))

isr ==
  /\ credit >= Price /\ credit' = credit - Price
  /\ FourGives
  /\ UNCHANGED <<state, left>>

InMilliseconds == left' = 10 * Sleep
vTaskDelay     == left' = Sleep

Tarea1 ==
  /\ left = 0 /\ count > 0
  /\ count' = count - 1 /\ state' = 1 - state
  /\ vTaskDelay
  /\ UNCHANGED credit

Tick ==
  /\ left > 0 \/ count = 0
  /\ left' = IF left > 0 THEN left - 1 ELSE 0
  /\ credit' = IF credit < Price * MaxBurst THEN credit + 1 ELSE credit
  /\ UNCHANGED <<count, state>>

Next == isr \/ Tarea1 \/ Tick
Spec == Init /\ [][Next]_vars

-----------------------------------------------------------------------------
(***************************************************************************)
(* None of the interrupt's gives finds the semaphore at its limit, though  *)
(* presses come while Tarea1 is still working on the last ones.            *)
(***************************************************************************)
NoGiveLost == [][isr => count' = count + 4]_vars

(* When every give has been taken the LED is off again. *)
LedOffAtRest == count = 0 => state = 0

-----------------------------------------------------------------------------
(* Inductive: work to do and credit left never exceed what MaxBurst presses cost. *)
WithinBudget ==
  /\ count \in 0..Limit /\ left \in Nat /\ credit \in Nat /\ state = count % 2
  /\ Sleep * count + left + credit <= Price * MaxBurst
=============================================================================
