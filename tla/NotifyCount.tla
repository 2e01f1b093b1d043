----------------------------- MODULE NotifyCount -----------------------------
(***************************************************************************)
(* TaskNotification_1: sender gives receiver two notifications in a row    *)
(* and sleeps five seconds; receiver takes the whole count, clears it and  *)
(* prints it.  The tasks have the same priority and no core of their own,  *)
(* so the second notification may come before, while or after receiver     *)
(* takes the first.  Five seconds are long enough for receiver to print.   *)
(***************************************************************************)
EXTENDS Naturals

CONSTANT MaxGiven   \* bound: notifications given

MaxGivenAssumption == MaxGiven \in Nat

VARIABLES
  value,     \* the notification value of receiver
  sent,      \* notifications of this turn of sender's loop
  pc, count, \* receiver: blocked in "take" or about to "print" its local count
  given, printed   \* totals

vars == <<value, sent, pc, count, given, printed>>

Init ==
  /\ value = 0 /\ sent = 0 /\ pc = "take" /\ count = 0
  /\ given = 0 /\ printed = 0

Overwritten == value' = 1
Incremented == value' = value + 1

xTaskNotifyGive ==
  /\ sent < 2 /\ given < MaxGiven
  /\ sent' = sent + 1 /\ given' = given + 1 /\ Incremented
  /\ UNCHANGED <<pc, count, printed>>

NoDelay == sent = 2 /\ sent' = 0 /\ UNCHANGED <<value, pc, count, given, printed>>

(* The delay ends when receiver has long been blocked again. *)
vTaskDelay ==
  /\ sent = 2 /\ pc = "take" /\ value = 0
  /\ sent' = 0
  /\ UNCHANGED <<value, pc, count, given, printed>>

NotCleared == count' = value /\ value' = value - 1
Cleared    == count' = value /\ value' = 0        \* pdTRUE

ulTaskNotifyTake ==
  /\ pc = "take" /\ value > 0
  /\ pc' = "print" /\ Cleared
  /\ UNCHANGED <<sent, given, printed>>

Report ==
  /\ pc = "print" /\ pc' = "take"
  /\ printed' = printed + count /\ count' = 0
  /\ UNCHANGED <<value, sent, given>>

sender   == xTaskNotifyGive \/ vTaskDelay
receiver == ulTaskNotifyTake \/ Report
Next     == sender \/ receiver

Spec     == Init /\ [][Next]_vars
Fairness == WF_vars(sender) /\ WF_vars(receiver)

-----------------------------------------------------------------------------
TypeOK ==
  /\ value \in Nat /\ sent \in 0..2 /\ pc \in {"take", "print"} /\ count \in Nat
  /\ given \in 0..MaxGiven /\ printed \in Nat

(***************************************************************************)
(* Every notification is counted once: those given are printed, about to   *)
(* be printed or still in the value, however the two tasks interleave.     *)
(***************************************************************************)
EveryGiveCounted == given = printed + count + value

(***************************************************************************)
(* A printed count is one or two: the notifications of two turns of the    *)
(* sender's loop are never added up.                                       *)
(***************************************************************************)
CountWithinTurn == pc = "print" => count \in 1..sent

(* What was given is printed. *)
EveryGivePrinted == \A n \in 1..MaxGiven : given = n ~> printed >= n

-----------------------------------------------------------------------------
(* Inductive: of a turn's notifications at most sent are in flight. *)
InFlight ==
  /\ TypeOK /\ EveryGiveCounted
  /\ value + count <= sent
  /\ pc = "print" <=> count > 0

=============================================================================
