------------------------------ MODULE NotifyBits ------------------------------
(***************************************************************************)
(* "Task Notification 2": sender sets bits 0 and 1 of receiver's           *)
(* notification value, sleeps a second, sets bits 2 and 3, sleeps a        *)
(* second.  receiver waits with xTaskNotifyWait(0xffffffff, 0, ...), which *)
(* clears the whole value on entry, unless a notification is pending, and  *)
(* nothing on exit, and prints what it got.                                *)
(***************************************************************************)
EXTENDS Naturals, Sequences, FiniteSets

CONSTANT Turn   \* the bits set between two delays: <<{0, 1}, {2, 3}>> in the code

TurnAssumption == Turn \in Seq(SUBSET Nat) /\ Turn # <<>>

VARIABLES
  value, pending,  \* the notification value of receiver and its pending state
  half,            \* where in its loop sender is: which element of Turn it sets
  unsent,          \* its bits not set yet, lowest first
  pc,              \* receiver: "enter" the call, blocked in "wait", or "print"
  state,           \* the local it prints
  unreported       \* bits set that receiver has not got since

vars == <<value, pending, half, unsent, pc, state, unreported>>

Init ==
  /\ value = {} /\ pending = FALSE /\ unreported = {}
  /\ half = 1 /\ unsent = Turn[1]
  /\ pc = "enter" /\ state = {}

Overwrite(bit) == value' = {bit}
SetBits(bit)   == value' = value \cup {bit}

xTaskNotify ==
  \E bit \in unsent :
    /\ \A other \in unsent : bit <= other
    /\ SetBits(bit) /\ pending' = TRUE
    /\ unsent' = unsent \ {bit}
    /\ unreported' = unreported \cup {bit}
    /\ UNCHANGED <<half, pc, state>>

NextHalf == half' = (half % Len(Turn)) + 1 /\ unsent' = Turn[half']

NoDelay == unsent = {} /\ NextHalf /\ UNCHANGED <<value, pending, pc, state, unreported>>

(* A second is enough for receiver to print and block again. *)
vTaskDelay ==
  /\ unsent = {} /\ pc = "wait" /\ ~pending
  /\ NextHalf
  /\ UNCHANGED <<value, pending, pc, state, unreported>>

NotCleared   == value' = value
ClearOnEntry == value' = IF pending THEN value ELSE {}

EnterWait ==
  /\ pc = "enter" /\ pc' = "wait" /\ ClearOnEntry
  /\ UNCHANGED <<pending, half, unsent, state, unreported>>

LeaveWait ==
  /\ pc = "wait" /\ pending
  /\ pc' = "print" /\ state' = value /\ pending' = FALSE
  /\ unreported' = unreported \ value
  /\ UNCHANGED <<value, half, unsent>>

Report ==
  /\ pc = "print" /\ pc' = "enter"
  /\ UNCHANGED <<value, pending, half, unsent, state, unreported>>

sender   == xTaskNotify \/ vTaskDelay
receiver == EnterWait \/ LeaveWait \/ Report
Next     == sender \/ receiver

Spec     == Init /\ [][Next]_vars

-----------------------------------------------------------------------------
TypeOK ==
  /\ value \subseteq Nat /\ state \subseteq Nat /\ unreported \subseteq Nat
  /\ pending \in BOOLEAN /\ pc \in {"enter", "wait", "print"}
  /\ half \in 1..Len(Turn) /\ unsent \subseteq Turn[half]

(***************************************************************************)
(* The clear on entry never takes away a bit receiver has not seen: those  *)
(* are in the value, and a pending notification keeps them there.          *)
(***************************************************************************)
NoBitLost == unreported \subseteq value /\ (unreported # {} => pending)

(***************************************************************************)
(* What is printed belongs to one half of the sender's loop: the bits are  *)
(* cleared between two delays although the call clears nothing on exit.    *)
(***************************************************************************)
HalvesNotMixed == pc = "print" => state # {} /\ state \subseteq Turn[half]

-----------------------------------------------------------------------------
(* Inductive: what the value may hold, by where receiver is. *)
ValueOfHalf ==
  /\ TypeOK /\ NoBitLost
  /\ pc = "wait" /\ ~pending => value = {}
  /\ pending => value # {}
  /\ pc = "print" => state # {} /\ state \subseteq Turn[half]
  /\ value \subseteq Turn[half] \ unsent

=============================================================================
