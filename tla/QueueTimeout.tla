---------------------------- MODULE QueueTimeout -----------------------------
(***************************************************************************)
(* cxColas_1: tarea1 sends 0, 1, ... 14 to a queue of ten slots, one every *)
(* 500 ms and without waiting for room, and then pauses for five seconds   *)
(* more to let tarea2, which waits one second for an item, time out.       *)
(*                                                                         *)
(* Both tasks have the same priority on one core.  Time is in steps of     *)
(* 100 ms, and passes when both tasks are blocked; a send and the timeout  *)
(* of the receive may fall on the same step, in either order.              *)
(***************************************************************************)
EXTENDS Naturals, Sequences

CONSTANTS Slots, Items     \* 10 and 15 in the code

SizesAssumption == Slots \in Nat \ {0} /\ Items \in Nat \ {0}

VARIABLES
  buffer,    \* the queue
  snd,       \* tarea1's next number
  delay,     \* steps tarea1 still sleeps
  pc,        \* tarea1: at the top of its "loop", or in the "pause" of its else branch
  patience,  \* steps left of tarea2's timeout
  rcv,       \* the last number tarea2 received, Items - 1 before the first
  timeouts   \* timeouts reported since, five before the first

vars == <<buffer, snd, delay, pc, patience, rcv, timeouts>>

Init ==
  /\ buffer = <<>> /\ snd = 0 /\ delay = 0 /\ pc = "loop"
  /\ patience = 10 /\ rcv = Items - 1 /\ timeouts = 5

-----------------------------------------------------------------------------
(* tarea1 *)

NotAdvanced(n) == n
Advanced(n)    == n + 1

NoSendDelay == 0
SendDelay   == 5

StartAt == 0

xQueueSend ==
  /\ delay = 0 /\ pc = "loop" /\ snd < Items
  /\ buffer' = IF Len(buffer) < Slots THEN Append(buffer, snd) ELSE buffer
  /\ snd' = Advanced(snd) /\ delay' = SendDelay
  /\ UNCHANGED <<pc, patience, rcv, timeouts>>

Pause ==
  /\ delay = 0 /\ pc = "loop" /\ snd = Items
  /\ pc' = "pause" /\ delay' = 50
  /\ UNCHANGED <<buffer, snd, patience, rcv, timeouts>>

StartAgain ==
  /\ delay = 0 /\ pc = "pause"
  /\ pc' = "loop" /\ snd' = StartAt /\ delay' = SendDelay
  /\ UNCHANGED <<buffer, patience, rcv, timeouts>>

-----------------------------------------------------------------------------
(* tarea2 *)

ShortTimeout   == 4
ReceiveTimeout == 10

xQueueReceive ==
  /\ buffer # <<>>
  /\ rcv' = Head(buffer) /\ buffer' = Tail(buffer)
  /\ patience' = ReceiveTimeout /\ timeouts' = 0
  /\ UNCHANGED <<snd, delay, pc>>

Expired ==
  /\ patience = 0 /\ buffer = <<>>
  /\ patience' = ReceiveTimeout /\ timeouts' = timeouts + 1
  /\ UNCHANGED <<buffer, snd, delay, pc, rcv>>

-----------------------------------------------------------------------------
Tick ==
  /\ delay > 0 /\ patience > 0 /\ buffer = <<>>
  /\ delay' = delay - 1 /\ patience' = patience - 1
  /\ UNCHANGED <<buffer, snd, pc, rcv, timeouts>>

tarea1 == xQueueSend \/ Pause \/ StartAgain
tarea2 == xQueueReceive \/ Expired
Next   == tarea1 \/ tarea2 \/ Tick

Spec == Init /\ [][Next]_vars

-----------------------------------------------------------------------------
TypeOK ==
  /\ buffer \in Seq(0..(Items - 1)) /\ Len(buffer) <= Slots
  /\ snd \in 0..Items /\ delay \in 0..50 /\ pc \in {"loop", "pause"}
  /\ patience \in 0..10 /\ rcv \in 0..(Items - 1) /\ timeouts \in Nat

(***************************************************************************)
(* The result of xQueueSend is ignored and snd advances all the same, yet  *)
(* no number is ever dropped: the queue never holds more than one.         *)
(***************************************************************************)
NothingDropped == [][xQueueSend => buffer = <<>>]_vars

(* tarea2 receives 0, 1, ... Items - 1 and then 0 again, none missing, none twice. *)
ReceivedInTurn ==
  [][xQueueReceive => rcv' = IF rcv = Items - 1 THEN 0 ELSE rcv + 1]_vars

(***************************************************************************)
(* "espera 5seg para probar el timout de la otra tarea": tarea2 reports    *)
(* five or six timeouts in the pause, and none between the numbers.        *)
(***************************************************************************)
TimeoutsOnlyInPause ==
  [][xQueueReceive => IF Head(buffer) = 0 THEN timeouts \in {5, 6} ELSE timeouts = 0]_vars

-----------------------------------------------------------------------------
(* Where the number in flight, if any, stands. *)
Before(n) == IF n = 0 THEN Items - 1 ELSE n - 1

OneInFlight ==
  /\ TypeOK
  /\ \/ buffer = <<>> /\ rcv = Before(snd)
     \/ /\ snd > 0 /\ pc = "loop" /\ delay = 5
        /\ buffer = <<snd - 1>> /\ rcv = Before(snd - 1)
  /\ pc = "pause" => snd = Items

(* How the clocks of the two tasks stand to each other. *)
ClocksInStep ==
  /\ buffer = <<>> /\ pc = "loop" /\ snd > 0 => timeouts = 0 /\ patience = delay + 5
  /\ pc = "pause" => patience + 45 = delay + 10 * timeouts
  /\ buffer = <<>> /\ pc = "loop" /\ snd = 0 =>
       \/ timeouts = 5 /\ patience = delay
       \/ timeouts \in {5, 6} /\ delay = 0 /\ patience = 10
  /\ buffer # <<>> => IF snd = 1 THEN timeouts \in {5, 6} ELSE timeouts = 0

(* Inductive. *)
QueueInv == OneInFlight /\ ClocksInStep
=============================================================================
