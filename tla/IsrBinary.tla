------------------------------ MODULE IsrBinary ------------------------------
(***************************************************************************)
(* Semaforo_Test1: the interrupt of a button gives the binary semaphore    *)
(* SMF; tarea1 waits 200 ms for it, pulses GPIO 2 if it got it and GPIO 15 *)
(* if not, and sleeps 100 ms.  The button bounces: interrupts come at any  *)
(* moment and as often as they please.                                     *)
(*                                                                         *)
(* Time is in ticks of 10 ms.  Ten pulses take 3 ms: a tick may fall into  *)
(* them, but not two.                                                      *)
(***************************************************************************)
EXTENDS Naturals

CONSTANTS Patience, Sleep     \* ticks: 20 and 10 in the code

TicksAssumption == Patience \in Nat \ {0} /\ Sleep \in Nat \ {0}

VARIABLES
  SMF,     \* the semaphore has been given
  pc,      \* tarea1: waiting in "take", pulsing a pin ("burst"), or in its "delay"
  left,    \* ticks left of the wait or of the delay
  ticked,  \* a tick has fallen into the current burst
  age,     \* ticks since the first press that is not answered yet
  quiet    \* ticks since the last press

vars == <<SMF, pc, left, ticked, age, quiet>>

Init ==
  /\ SMF = FALSE /\ pc = "take" /\ left = Patience /\ ticked = FALSE
  /\ age = 0 /\ quiet = Patience + Sleep

isr ==
  /\ SMF' = TRUE /\ quiet' = 0
  /\ age' = IF SMF THEN age ELSE 0
  /\ UNCHANGED <<pc, left, ticked>>

-----------------------------------------------------------------------------
(* tarea1: a wait that timed out looks at the semaphore once more. *)

Pulse == pc' = "burst" /\ ticked' = FALSE /\ UNCHANGED <<left, age, quiet>>

Taken   == pc = "take" /\ SMF /\ SMF' = FALSE /\ Pulse
Expired == pc = "take" /\ ~SMF /\ left = 0 /\ UNCHANGED SMF /\ Pulse

InMilliseconds == left' = 10 * Sleep
vTaskDelay     == left' = Sleep

EndBurst ==
  /\ pc = "burst" /\ pc' = "delay" /\ vTaskDelay
  /\ UNCHANGED <<SMF, ticked, age, quiet>>

Forgotten == left' = Patience /\ SMF' = FALSE
TakeAgain == left' = Patience /\ UNCHANGED SMF

NextTurn ==
  /\ pc = "delay" /\ left = 0
  /\ pc' = "take" /\ TakeAgain
  /\ UNCHANGED <<ticked, age, quiet>>

-----------------------------------------------------------------------------
(* The counters stop where the properties no longer ask. *)
Capped(n) == IF n < Patience + Sleep THEN n + 1 ELSE n

Tick ==
  /\ \/ pc = "take" /\ ~SMF /\ left > 0
     \/ pc = "burst" /\ ~ticked
     \/ pc = "delay" /\ left > 0
  /\ left' = IF pc = "burst" THEN left ELSE left - 1
  /\ ticked' = (pc = "burst")
  /\ age' = Capped(age) /\ quiet' = Capped(quiet)
  /\ UNCHANGED <<SMF, pc>>

tarea1 == Taken \/ Expired \/ EndBurst \/ NextTurn
Next   == isr \/ tarea1 \/ Tick
Spec   == Init /\ [][Next]_vars

-----------------------------------------------------------------------------
(***************************************************************************)
(* A press in the pulses or in the sleep is kept by the semaphore, however *)
(* many follow it, and answered when the sleep is over.                    *)
(***************************************************************************)
AnsweredInTime == SMF => age <= Sleep + 1

(***************************************************************************)
(* "en caso que el semaforo no este disponible en 200ms, se retorna falso":*)
(* tarea1 pulses GPIO 15 only when nobody pressed the button in the wait,  *)
(* nor in the sleep before it.                                             *)
(***************************************************************************)
TimeoutOnlyIfQuiet == [][Expired => quiet >= Patience + Sleep]_vars

-----------------------------------------------------------------------------
TypeOK ==
  /\ pc \in {"take", "burst", "delay"}
  /\ left \in Nat /\ age \in Nat /\ quiet \in Nat
  /\ pc = "delay" => left <= Sleep

(* How long a press has waited, and will have when the sleep is over. *)
PressWaits ==
  SMF =>
    /\ pc = "take" => age <= Sleep + 1
    /\ pc = "burst" => age = 0 \/ (age = 1 /\ ticked)
    /\ pc = "delay" => age + left <= Sleep + 1

(* Without one, it has been quiet since the last pulses began. *)
QuietSince ==
  ~SMF =>
    /\ pc = "take" => Patience + Sleep <= quiet + left
    /\ pc = "delay" => Sleep <= quiet + left

(* Inductive. *)
BinaryInv == TypeOK /\ PressWaits /\ QuietSince
=============================================================================
