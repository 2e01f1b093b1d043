----------------------------- MODULE QueueFront ------------------------------
(***************************************************************************)
(* cxColas_2: sendTask1 and sendTask2 (priority 2) put a counter of their  *)
(* own at the FRONT of a queue of five and sleep a second; receiveTask     *)
(* (priority 1, same core) takes items and prints them.  A queue that is   *)
(* read at the end it is written to is a stack: only the pace of the       *)
(* senders keeps it from reversing the order of an item and its successor, *)
(* or from never reaching the oldest.                                      *)
(*                                                                         *)
(* Time is in steps of 100 ms, a second being Second of them, plus one     *)
(* when printing has shifted the sender's phase.  Printing an item takes   *)
(* much less than a step: a step may pass meanwhile, but not two.          *)
(***************************************************************************)
EXTENDS Naturals, Sequences

CONSTANTS Slots,      \* 5 in the code
          Second,     \* 10 steps
          MaxCounter  \* bound: counters go round after MaxCounter

(* A second is longer than what it takes to print the items of both senders. *)
ConstantsAssumption ==
  Slots \in Nat \ {0} /\ Second \in Nat /\ Second > 2 /\ MaxCounter \in Nat \ {0}

Sender == 1..2
After(n) == IF n = MaxCounter THEN 1 ELSE n + 1

VARIABLES
  buffer,   \* the queue, front first
  counter,  \* data.counter of each sender
  delay,    \* steps each sender sleeps
  waited,   \* each sender has waited a step, the 100 ms of its send, for room
  data,     \* what receiveTask is printing: a sequence of one item or none
  expected, \* the counter receiveTask is to get next from each sender
  ticked    \* a step has passed while receiveTask was busy

vars == <<buffer, counter, delay, waited, data, expected, ticked>>

Init ==
  /\ buffer = <<>> /\ data = <<>> /\ ticked = FALSE
  /\ counter = [s \in Sender |-> 1] /\ expected = [s \in Sender |-> 1]
  /\ delay \in [Sender -> 0..1] /\ waited = [s \in Sender |-> FALSE]

Sent(s) == [sender |-> s, counter |-> counter[s]]

NoSleep(s) == delay' = delay
Sleep(s)   == delay' \in {[delay EXCEPT ![s] = Second], [delay EXCEPT ![s] = Second + 1]}

NotCounted(s) == buffer' = <<Sent(s)>> \o buffer /\ UNCHANGED counter

HasRoom == Len(buffer) < Slots

SendToFront(s) ==
  IF HasRoom
    THEN buffer' = <<Sent(s)>> \o buffer /\ counter' = [counter EXCEPT ![s] = After(@)]
    ELSE UNCHANGED <<buffer, counter>>

(* A full queue is waited for; the send fails when the wait is over. *)
Ready(s) == delay[s] = 0 /\ (HasRoom \/ waited[s])

sendTask(s) ==
  /\ Ready(s)
  /\ SendToFront(s) /\ Sleep(s)
  /\ waited' = [waited EXCEPT ![s] = FALSE]
  /\ UNCHANGED <<data, expected, ticked>>

SendersSleep == \A s \in Sender : ~Ready(s)

xQueueReceive ==
  /\ SendersSleep /\ data = <<>> /\ buffer # <<>>
  /\ data' = <<Head(buffer)>> /\ buffer' = Tail(buffer)
  /\ UNCHANGED <<counter, delay, waited, expected, ticked>>

Report ==
  /\ SendersSleep /\ data # <<>>
  /\ expected' = [expected EXCEPT ![data[1].sender] = After(data[1].counter)]
  /\ data' = <<>> /\ ticked' = FALSE
  /\ UNCHANGED <<buffer, counter, delay, waited>>

Tick ==
  /\ SendersSleep /\ (buffer # <<>> \/ data # <<>> => ~ticked)
  /\ ticked' = (buffer # <<>> \/ data # <<>>)
  /\ delay' = [s \in Sender |-> IF delay[s] > 0 THEN delay[s] - 1 ELSE 0]
  /\ waited' = [s \in Sender |-> delay[s] = 0]
  /\ UNCHANGED <<buffer, counter, data, expected>>

receiveTask == xQueueReceive \/ Report
Next == (\E s \in Sender : sendTask(s)) \/ receiveTask \/ Tick

Spec == Init /\ [][Next]_vars

-----------------------------------------------------------------------------
(***************************************************************************)
(* Although items are written at the front, receiveTask gets those of each *)
(* sender in the order they were sent, none missing and none twice.        *)
(***************************************************************************)
SenderOrder ==
  [][xQueueReceive => data'[1].counter = expected[data'[1].sender]]_vars

-----------------------------------------------------------------------------
Item == [sender : Sender, counter : Nat]

TypeOK ==
  /\ buffer \in Seq(Item) /\ data \in {<<>>} \cup {<<item>> : item \in Item}
  /\ counter \in [Sender -> Nat] /\ expected \in [Sender -> Nat] /\ delay \in [Sender -> Nat]
  /\ waited \in [Sender -> BOOLEAN]

(* The item of s that receiveTask has still to report. *)
Queued(s)  == \E k \in 1..Len(buffer) : buffer[k].sender = s
Printed(s) == data # <<>> /\ data[1].sender = s
Waiting(s) == Queued(s) \/ Printed(s)

(* There is one at most, and it is the next. *)
OneEach ==
  /\ \A k \in 1..Len(buffer) : buffer[k].counter = expected[buffer[k].sender]
  /\ \A j, k \in 1..Len(buffer) : buffer[j].sender = buffer[k].sender => j = k
  /\ data # <<>> => data[1].counter = expected[data[1].sender] /\ ~Queued(data[1].sender)
  /\ \A s \in Sender : counter[s] = IF Waiting(s) THEN After(expected[s]) ELSE expected[s]

(***************************************************************************)
(* Its sender sleeps until it has been reported: after n steps it has      *)
(* Second - n left, and only one step passes before each report.           *)
(***************************************************************************)
Sleeps(s, steps) == Second <= delay[s] + steps + IF ticked THEN 1 ELSE 0

Asleep ==
  \A s, t \in Sender :
    /\ Waiting(s) => Sleeps(s, 1)
    /\ Waiting(s) /\ ~Sleeps(s, 0) /\ t # s => ~Waiting(t) /\ Sleeps(t, 1)

(* Inductive. *)
FrontInv == TypeOK /\ OneEach /\ Asleep
=============================================================================
