---------------------------- MODULE TimeoutsProofs ----------------------------
(***************************************************************************)
(* Proofs about the programs of MCTimeouts: EventTimeout and TwoWriters,   *)
(* for any delays that satisfy their assumptions, QueueTimeout, for any    *)
(* size of the queue and any number of numbers in a turn, and QueueFront,  *)
(* for any size of the queue and any pause of more than two steps.         *)
(***************************************************************************)
EXTENDS MCTimeouts, SequenceTheorems, TLAPS

-----------------------------------------------------------------------------
(* gruposEventos_1 *)

(* The wait tarea1 starts at the third bit, in the form Within has it. *)
LEMMA Sums ==
  /\ Rest \in Nat /\ Patience \in Nat
  /\ \A p \in Nat : Patience <= p /\ p <= Patience + 1 =>
       Rest + Patience <= p + Rest /\ p + Rest <= Rest + Patience + 1
BY TicksAssumption

LEMMA Clocks == Spec => []ClocksInStep
<1>1. Init => ClocksInStep
  BY TicksAssumption DEF Init, ClocksInStep, TypeOK
<1>2. ClocksInStep /\ [Next]_vars => ClocksInStep'
  <2> SUFFICES ASSUME ClocksInStep, [Next]_vars PROVE ClocksInStep'
    OBVIOUS
  <2> USE DEF ClocksInStep, TypeOK, Within
  <2>1. CASE xEventGroupSetBits
    BY <2>1, TicksAssumption DEF xEventGroupSetBits, Pause
  <2>2. CASE NextRound
    BY <2>2, TicksAssumption DEF NextRound, Pause
  <2>3. CASE Happened
    <3>1. i > 0 /\ i \in 0..3 /\ oks = i - 1 /\ delay = Pause(i)
      BY <2>3 DEF Happened
    <3>2. /\ bit' = 0 /\ i' = i /\ delay' = delay
          /\ patience' \in Nat /\ Patience <= patience' /\ patience' <= Patience + 1
      BY <2>3, TicksAssumption DEF Happened, ClearOnExit, WaitAgain
    <3>3. oks' = i
      BY <2>3, <3>1 DEF Happened
    <3>4. TypeOK'
      BY <3>1, <3>2, <3>3, TicksAssumption DEF Pause
    <3>5. i < 3 => delay' < patience'
      BY <3>1, <3>2, TicksAssumption DEF Pause
    <3>6. ASSUME i = 3 PROVE Within(Rest)'
      <4>1. delay' = Rest
        BY <3>1, <3>2, <3>6 DEF Pause
      <4>2. delay' + Patience <= patience' + Rest /\ patience' + Rest <= delay' + Patience + 1
        BY <3>2, <4>1, Sums
      <4> QED
        BY <4>2
    <3>7. i < 3 \/ i = 3
      BY <3>1
    <3> QED
      BY <3>2, <3>3, <3>4, <3>5, <3>6, <3>7
  <2>4. CASE Timeout
    BY <2>4, TicksAssumption DEF Timeout, WaitAgain
  <2>5. CASE Tick
    BY <2>5, TicksAssumption DEF Tick
  <2>6. CASE UNCHANGED vars
    BY <2>6 DEF vars, Pause
  <2> QED
    BY <2>1, <2>2, <2>3, <2>4, <2>5, <2>6 DEF Next, app_main, tarea1
<1> QED
  BY <1>1, <1>2, PTL DEF Spec

(* A timeout is reported after three events, never after fewer or more. *)
THEOREM ThreeThenTimeout == Spec => TimeoutAfterThree
<1>1. ClocksInStep => [Timeout => oks = 3]_vars
  BY TicksAssumption DEF ClocksInStep, TypeOK, Timeout, Within
<1> QED
  BY <1>1, Clocks, PTL DEF TimeoutAfterThree

(* No bit is set while the last one is still to be seen. *)
THEOREM NeverMerged == Spec => NoEventMerged
<1>1. ClocksInStep => [xEventGroupSetBits => bit = 0]_vars
  BY TicksAssumption DEF ClocksInStep, TypeOK, xEventGroupSetBits, Pause
<1> QED
  BY <1>1, Clocks, PTL DEF NoEventMerged

-----------------------------------------------------------------------------
(* cxColas_1 *)

LEMMA InFlight == Queue!Spec => []Queue!OneInFlight
<1> USE QueueAssumption DEF Queue!SizesAssumption
<1>1. Queue!Init => Queue!OneInFlight
  BY DEF Queue!Init, Queue!OneInFlight, Queue!TypeOK, Queue!Before
<1>2. Queue!OneInFlight /\ [Queue!Next]_Queue!vars => Queue!OneInFlight'
  <2> SUFFICES ASSUME Queue!OneInFlight, [Queue!Next]_Queue!vars PROVE Queue!OneInFlight'
    OBVIOUS
  <2> USE DEF Queue!OneInFlight, Queue!TypeOK, Queue!Before
  <2>1. CASE Queue!xQueueSend
    <3>1. buffer = <<>> /\ snd \in 0..(Items - 1)
      BY <2>1 DEF Queue!xQueueSend
    <3>2. buffer' = <<snd>>
      <4>1. Len(buffer) < Slots /\ Append(buffer, snd) = <<snd>>
        BY <3>1
      <4> QED
        BY <2>1, <4>1 DEF Queue!xQueueSend
    <3>3. snd' \in 1..Items /\ snd' - 1 = snd /\ pc' = "loop" /\ qdelay' = 5 /\ rcv' = rcv
      BY <2>1, <3>1 DEF Queue!xQueueSend, Queue!Advanced, Queue!SendDelay
    <3>4. buffer' = <<snd' - 1>> /\ rcv' = Queue!Before(snd' - 1)
      BY <3>1, <3>2, <3>3
    <3>5. buffer' \in Seq(0..(Items - 1)) /\ Len(buffer') <= Slots
      BY <3>1, <3>2
    <3> QED
      BY <2>1, <3>3, <3>4, <3>5 DEF Queue!xQueueSend
  <2>2. CASE Queue!Pause
    BY <2>2 DEF Queue!Pause
  <2>3. CASE Queue!StartAgain
    BY <2>3 DEF Queue!StartAgain, Queue!StartAt, Queue!SendDelay
  <2>4. CASE Queue!xQueueReceive
    <3>1. snd > 0 /\ buffer = <<snd - 1>>
      BY <2>4 DEF Queue!xQueueReceive
    <3>2. Head(buffer) = snd - 1 /\ Tail(buffer) = <<>>
      BY <3>1
    <3> QED
      BY <2>4, <3>1, <3>2 DEF Queue!xQueueReceive, Queue!ReceiveTimeout
  <2>5. CASE Queue!Expired
    BY <2>5 DEF Queue!Expired, Queue!ReceiveTimeout
  <2>6. CASE Queue!Tick
    BY <2>6 DEF Queue!Tick
  <2>7. CASE UNCHANGED Queue!vars
    BY <2>7 DEF Queue!vars
  <2> QED
    BY <2>1, <2>2, <2>3, <2>4, <2>5, <2>6, <2>7 DEF Queue!Next, Queue!tarea1, Queue!tarea2
<1> QED
  BY <1>1, <1>2, PTL DEF Queue!Spec

LEMMA QueueInvariant == Queue!Spec => []Queue!QueueInv
<1> USE QueueAssumption DEF Queue!SizesAssumption
<1>1. Queue!Init => Queue!ClocksInStep
  BY DEF Queue!Init, Queue!ClocksInStep
<1>2. Queue!QueueInv /\ Queue!OneInFlight' /\ [Queue!Next]_Queue!vars => Queue!ClocksInStep'
  <2> SUFFICES ASSUME Queue!QueueInv, Queue!OneInFlight', [Queue!Next]_Queue!vars
               PROVE  Queue!ClocksInStep'
    OBVIOUS
  <2> USE DEF Queue!QueueInv, Queue!ClocksInStep
  <2>0. /\ Queue!TypeOK
        /\ \/ buffer = <<>>
           \/ buffer = <<snd - 1>> /\ snd > 0 /\ pc = "loop" /\ qdelay = 5
        /\ pc = "pause" => snd = Items
    BY DEF Queue!OneInFlight
  <2> USE DEF Queue!TypeOK
  <2>1. CASE Queue!xQueueSend
    <3>1. buffer = <<>> /\ snd' = snd + 1 /\ pc' = "loop" /\ UNCHANGED timeouts
      BY <2>0, <2>1 DEF Queue!xQueueSend, Queue!Advanced
    <3>2. snd' > 0 /\ qdelay = 0 /\ pc = "loop"
      BY <2>0, <2>1, <3>1 DEF Queue!xQueueSend
    <3>3. buffer' # <<>>
      BY <2>0, <2>1, <3>1 DEF Queue!xQueueSend
    <3>4. IF snd' = 1 THEN timeouts' \in {5, 6} ELSE timeouts' = 0
      BY <2>0, <3>1, <3>2
    <3> QED
      BY <3>1, <3>3, <3>4
  <2>2. CASE Queue!Pause
    BY <2>0, <2>2 DEF Queue!Pause
  <2>3. CASE Queue!StartAgain
    BY <2>0, <2>3 DEF Queue!StartAgain, Queue!StartAt, Queue!SendDelay
  <2>4. CASE Queue!xQueueReceive
    <3>1. snd > 0 /\ pc = "loop" /\ qdelay = 5
      BY <2>0, <2>4 DEF Queue!xQueueReceive
    <3>2. UNCHANGED <<snd, qdelay, pc>> /\ qpatience' = 10 /\ timeouts' = 0
      BY <2>4 DEF Queue!xQueueReceive, Queue!ReceiveTimeout
    <3>3. buffer' = <<>>
      BY <2>0, <2>4 DEF Queue!xQueueReceive
    <3> QED
      BY <3>1, <3>2, <3>3
  <2>5. CASE Queue!Expired
    BY <2>0, <2>5 DEF Queue!Expired, Queue!ReceiveTimeout
  <2>6. CASE Queue!Tick
    BY <2>0, <2>6 DEF Queue!Tick
  <2>7. CASE UNCHANGED Queue!vars
    BY <2>7 DEF Queue!vars
  <2> QED
    BY <2>1, <2>2, <2>3, <2>4, <2>5, <2>6, <2>7 DEF Queue!Next, Queue!tarea1, Queue!tarea2
<1> QED
  BY <1>1, <1>2, InFlight, PTL DEF Queue!Spec, Queue!QueueInv

(* xQueueSend, called without a timeout, always finds the queue empty. *)
THEOREM NeverDropped == Queue!Spec => Queue!NothingDropped
<1>1. Queue!QueueInv /\ [Queue!Next]_Queue!vars
        => [Queue!xQueueSend => buffer = <<>>]_Queue!vars
  BY DEF Queue!QueueInv, Queue!OneInFlight, Queue!xQueueSend
<1> QED
  BY <1>1, QueueInvariant, PTL DEF Queue!Spec, Queue!NothingDropped

(* tarea2 of cxColas_1 receives every number of every turn once, in order. *)
THEOREM AlwaysInTurn == Queue!Spec => ReceivedInTurn
<1>1. Queue!QueueInv /\ [Queue!Next]_Queue!vars
        => [Queue!xQueueReceive => rcv' = IF rcv = Items - 1 THEN 0 ELSE rcv + 1]_Queue!vars
  <2> SUFFICES ASSUME Queue!OneInFlight, Queue!xQueueReceive
               PROVE  rcv' = IF rcv = Items - 1 THEN 0 ELSE rcv + 1
    BY DEF Queue!QueueInv
  <2>1. snd > 0 /\ buffer = <<snd - 1>> /\ rcv = Queue!Before(snd - 1)
    BY DEF Queue!OneInFlight, Queue!xQueueReceive
  <2>2. rcv' = snd - 1
    BY <2>1 DEF Queue!xQueueReceive
  <2> QED
    BY <2>1, <2>2, QueueAssumption
    DEF Queue!SizesAssumption, Queue!OneInFlight, Queue!TypeOK, Queue!Before
<1> QED
  BY <1>1, QueueInvariant, PTL DEF Queue!Spec, ReceivedInTurn, Queue!ReceivedInTurn

(***************************************************************************)
(* tarea2 reports five or six timeouts in the pause of tarea1 and none     *)
(* between the numbers of a turn.                                          *)
(***************************************************************************)
THEOREM PauseOnly == Queue!Spec => TimeoutsOnlyInPause
<1>1. Queue!QueueInv /\ [Queue!Next]_Queue!vars
        => [Queue!xQueueReceive
              => IF Head(buffer) = 0 THEN timeouts \in {5, 6} ELSE timeouts = 0]_Queue!vars
  <2> SUFFICES ASSUME Queue!QueueInv, Queue!xQueueReceive
               PROVE  IF Head(buffer) = 0 THEN timeouts \in {5, 6} ELSE timeouts = 0
    OBVIOUS
  <2>1. snd \in Nat /\ buffer = <<snd - 1>> /\ buffer # <<>>
    BY DEF Queue!QueueInv, Queue!OneInFlight, Queue!TypeOK, Queue!xQueueReceive
  <2>2. Head(buffer) = snd - 1
    BY <2>1
  <2>3. IF snd = 1 THEN timeouts \in {5, 6} ELSE timeouts = 0
    BY <2>1 DEF Queue!QueueInv, Queue!ClocksInStep
  <2> QED
    BY <2>1, <2>2, <2>3
<1> QED
  BY <1>1, QueueInvariant, PTL DEF Queue!Spec, TimeoutsOnlyInPause, Queue!TimeoutsOnlyInPause

-----------------------------------------------------------------------------
(* cxColas_2 *)

LEMMA FrontSecond == Second \in Nat /\ Second > 2 /\ FrontSlots \in Nat /\ MaxCounter \in Nat
BY FrontAssumption DEF Front!ConstantsAssumption

LEMMA Prepended ==
  ASSUME NEW S, NEW seq \in Seq(S), NEW e \in S
  PROVE  /\ <<e>> \o seq \in Seq(S) /\ Len(<<e>> \o seq) = Len(seq) + 1
         /\ (<<e>> \o seq)[1] = e
         /\ \A k \in 2..Len(seq) + 1 : k - 1 \in 1..Len(seq) /\ (<<e>> \o seq)[k] = seq[k - 1]
         /\ \A k \in 1..Len(seq) : k + 1 \in 1..Len(<<e>> \o seq) /\ (<<e>> \o seq)[k + 1] = seq[k]
<1>1. <<e>> \in Seq(S) /\ Len(<<e>>) = 1 /\ <<e>>[1] = e /\ Len(seq) \in Nat
  BY LenProperties
<1>2. /\ <<e>> \o seq \in Seq(S) /\ Len(<<e>> \o seq) = 1 + Len(seq)
      /\ \A k \in 1..1 + Len(seq) : (<<e>> \o seq)[k] = IF k <= 1 THEN <<e>>[k] ELSE seq[k - 1]
  BY <1>1, ConcatProperties
<1> QED
  BY <1>1, <1>2

(* What a receive leaves and takes out. *)
LEMMA TakenOut ==
  ASSUME NEW S, NEW seq \in Seq(S), seq # <<>>
  PROVE  /\ Len(seq) \in Nat /\ 1 \in 1..Len(seq) /\ Head(seq) = seq[1] /\ Head(seq) \in S
         /\ Tail(seq) \in Seq(S)
         /\ \A k \in 1..Len(Tail(seq)) : k + 1 \in 2..Len(seq) /\ Tail(seq)[k] = seq[k + 1]
         /\ \A k \in 2..Len(seq) : k - 1 \in 1..Len(Tail(seq)) /\ Tail(seq)[k - 1] = seq[k]
<1>1. Len(seq) \in Nat \ {0} /\ Head(seq) = seq[1] /\ Head(seq) \in S
  BY EmptySeq, HeadTailProperties
<1>2. /\ Tail(seq) \in Seq(S) /\ Len(Tail(seq)) = Len(seq) - 1
      /\ \A k \in 1..Len(Tail(seq)) : Tail(seq)[k] = seq[k + 1]
  BY HeadTailProperties
<1> QED
  BY <1>1, <1>2

LEMMA FrontInvariant == Front!Spec => []Front!FrontInv
<1>1. Front!Init => Front!FrontInv
  <2> SUFFICES ASSUME Front!Init PROVE Front!FrontInv
    OBVIOUS
  <2>1. Len(stack) = 0 /\ stack \in Seq(Front!Item)
    BY EmptySeq DEF Front!Init
  <2>2. \A s \in Front!Sender : ~Front!Waiting(s)
    BY <2>1 DEF Front!Init, Front!Waiting, Front!Queued, Front!Printed
  <2>3. Front!TypeOK
    BY <2>1 DEF Front!Init, Front!TypeOK
  <2>4. Front!OneEach
    BY <2>1, <2>2 DEF Front!Init, Front!OneEach
  <2> QED
    BY <2>2, <2>3, <2>4 DEF Front!FrontInv, Front!Asleep
<1>2. Front!FrontInv /\ [Front!Next]_Front!vars => Front!FrontInv'
  <2> SUFFICES ASSUME Front!FrontInv, [Front!Next]_Front!vars PROVE Front!FrontInv'
    OBVIOUS
  <2>0. Front!TypeOK /\ Front!OneEach /\ Front!Asleep /\ Len(stack) \in Nat
    BY LenProperties DEF Front!FrontInv, Front!TypeOK
  <2>e. \A k \in 1..Len(stack) : stack[k] \in Front!Item
    BY <2>0, ElementOfSeq DEF Front!TypeOK
  <2> DEFINE slack == IF fticked THEN 1 ELSE 0
  <2>k. /\ slack \in 0..1 /\ slack' \in 0..1
        /\ \A s \in Front!Sender, n \in 0..1 : Front!Sleeps(s, n) <=> Second <= fdelay[s] + n + slack
        /\ \A s \in Front!Sender, n \in 0..1 : Front!Sleeps(s, n)' <=> Second <= fdelay'[s] + n + slack'
    BY DEF Front!Sleeps
  <2>d. \A s \in Front!Sender : fdelay[s] \in Nat
    BY <2>0 DEF Front!TypeOK
  <2>a. \A s, t \in Front!Sender :
          /\ Front!Waiting(s) => Second <= fdelay[s] + 1 + slack
          /\ Front!Waiting(s) /\ ~(Second <= fdelay[s] + 0 + slack) /\ t # s =>
               ~Front!Waiting(t) /\ Second <= fdelay[t] + 1 + slack
    BY <2>0, <2>k DEF Front!Asleep
  <2>b. ASSUME \A s, t \in Front!Sender :
                 /\ Front!Waiting(s)' => Second <= fdelay'[s] + 1 + slack'
                 /\ Front!Waiting(s)' /\ ~(Second <= fdelay'[s] + 0 + slack') /\ t # s =>
                      ~Front!Waiting(t)' /\ Second <= fdelay'[t] + 1 + slack'
        PROVE  Front!Asleep'
    BY <2>b, <2>k DEF Front!Asleep
  <2>t. /\ fticked' = fticked => slack' = slack
        /\ fticked' = FALSE => slack' = 0
        /\ ~fticked => slack = 0
        /\ fticked' => slack' = 1
    OBVIOUS
  <2> HIDE DEF slack
  <2>1. ASSUME NEW s \in Front!Sender, Front!sendTask(s) PROVE Front!FrontInv'
    <3>0. fdelay[s] = 0 /\ Front!SendToFront(s) /\ Front!Sleep(s) /\ UNCHANGED <<data, expected, fticked>>
      BY <2>1 DEF Front!sendTask, Front!Ready
    <3>w. fwaited' \in [Front!Sender -> BOOLEAN]
      BY <2>0, <2>1 DEF Front!sendTask, Front!TypeOK
    <3>1. ~Front!Waiting(s)
      BY <2>a, <2>d, <2>k, <3>0, FrontSecond
    <3>2. /\ fdelay' \in [Front!Sender -> Nat] /\ fdelay'[s] >= Second
          /\ \A t \in Front!Sender \ {s} : fdelay'[t] = fdelay[t]
      <4>1. CASE fdelay' = [fdelay EXCEPT ![s] = Second]
        BY <2>0, <4>1, FrontSecond DEF Front!TypeOK
      <4>2. CASE fdelay' = [fdelay EXCEPT ![s] = Second + 1]
        BY <2>0, <4>2, FrontSecond DEF Front!TypeOK
      <4> QED
        BY <3>0, <4>1, <4>2 DEF Front!Sleep
    <3>a. slack' = slack
      BY <2>t, <3>0
    <3>3. CASE UNCHANGED <<stack, counter>>
      <4>1. Front!TypeOK' /\ Front!OneEach'
        BY <2>0, <3>0, <3>2, <3>3, <3>w
        DEF Front!TypeOK, Front!OneEach, Front!Waiting, Front!Queued, Front!Printed
      <4>2. \A t \in Front!Sender : Front!Waiting(t)' <=> Front!Waiting(t)
        BY <3>0, <3>3 DEF Front!Waiting, Front!Queued, Front!Printed
      <4>3. Front!Asleep'
        BY <2>a, <2>b, <2>d, <2>k, <3>1, <3>2, <3>a, <4>2, FrontSecond
      <4> QED
        BY <4>1, <4>3 DEF Front!FrontInv
    <3>4. CASE /\ stack' = <<Front!Sent(s)>> \o stack
               /\ counter' = [counter EXCEPT ![s] = Front!After(@)]
      <4>1. Front!Sent(s) \in Front!Item /\ Front!Sent(s).sender = s /\ Front!Sent(s).counter = expected[s]
        BY <2>0, <3>1 DEF Front!Sent, Front!Item, Front!TypeOK, Front!OneEach
      <4>2. /\ stack' \in Seq(Front!Item) /\ Len(stack') = Len(stack) + 1
            /\ stack'[1] = Front!Sent(s)
            /\ \A k \in 2..Len(stack) + 1 : k - 1 \in 1..Len(stack) /\ stack'[k] = stack[k - 1]
            /\ \A k \in 1..Len(stack) : k + 1 \in 1..Len(stack') /\ stack'[k + 1] = stack[k]
        BY <2>0, <3>4, <4>1, Prepended DEF Front!TypeOK
      <4>3. \A t \in Front!Sender : Front!Queued(t)' <=> t = s \/ Front!Queued(t)
        BY <2>0, <4>1, <4>2 DEF Front!Queued
      <4>4. \A t \in Front!Sender : Front!Waiting(t)' <=> t = s \/ Front!Waiting(t)
        BY <3>0, <4>3 DEF Front!Waiting, Front!Printed
      <4>5. counter' \in [Front!Sender -> Nat]
        BY <2>0, <3>4 DEF Front!TypeOK, Front!After
      <4>6. Front!TypeOK'
        BY <2>0, <3>0, <3>2, <3>w, <4>2, <4>5 DEF Front!TypeOK
      <4>7. Front!OneEach'
        <5>1. \A k \in 1..Len(stack') : stack'[k].counter = expected'[stack'[k].sender]
          <6>1. ASSUME NEW k \in 2..Len(stack) + 1
                PROVE  stack'[k].counter = expected'[stack'[k].sender]
            BY <2>0, <3>0, <4>2 DEF Front!OneEach
          <6>2. stack'[1].counter = expected'[stack'[1].sender]
            BY <3>0, <4>1, <4>2
          <6> QED
            BY <2>0, <4>2, <6>1, <6>2
        <5>2. \A k \in 1..Len(stack) : stack[k].sender # s
          BY <3>1 DEF Front!Waiting, Front!Queued
        <5>3. ASSUME NEW m \in 1..Len(stack'), NEW n \in 1..Len(stack'),
                     stack'[m].sender = stack'[n].sender
              PROVE  m = n
          <6>0. \A k \in 2..Len(stack) + 1 : stack'[k].sender # s
            BY <4>2, <5>2
          <6>1. CASE m = 1 \/ n = 1
            <7>1. stack'[1].sender = s
              BY <4>1, <4>2
            <7>2. m \in 2..Len(stack) + 1 \/ m = 1
              BY <2>0, <4>2
            <7>3. n \in 2..Len(stack) + 1 \/ n = 1
              BY <2>0, <4>2
            <7> QED
              BY <5>3, <6>0, <6>1, <7>1, <7>2, <7>3
          <6>2. CASE m # 1 /\ n # 1
            <7>1. m \in 2..Len(stack) + 1 /\ n \in 2..Len(stack) + 1
              BY <2>0, <4>2, <6>2
            <7>2. stack[m - 1].sender = stack[n - 1].sender /\ m - 1 \in 1..Len(stack) /\ n - 1 \in 1..Len(stack)
              BY <4>2, <5>3, <7>1
            <7>3. m - 1 = n - 1
              BY <2>0, <7>2 DEF Front!OneEach
            <7> QED
              BY <7>1, <7>3
          <6> QED
            BY <6>1, <6>2
        <5>4. data' # <<>> => /\ data'[1].counter = expected'[data'[1].sender]
                              /\ ~Front!Queued(data[1].sender)'
          <6> SUFFICES ASSUME data # <<>>
                       PROVE  /\ data[1].counter = expected[data[1].sender]
                              /\ ~Front!Queued(data[1].sender)'
            BY <3>0
          <6>1. data[1].sender \in Front!Sender /\ data[1].sender # s
            BY <2>0, <3>1 DEF Front!TypeOK, Front!Item, Front!Waiting, Front!Printed
          <6> QED
            BY <2>0, <3>0, <4>3, <6>1 DEF Front!OneEach
        <5>5. \A t \in Front!Sender :
                counter'[t] = IF Front!Waiting(t)' THEN Front!After(expected'[t]) ELSE expected'[t]
          BY <2>0, <3>0, <3>1, <3>4, <4>4 DEF Front!OneEach, Front!TypeOK
        <5> QED
          BY <3>0, <5>1, <5>3, <5>4, <5>5 DEF Front!OneEach, Front!After
      <4>8. Front!Asleep'
        <5> SUFFICES ASSUME NEW t \in Front!Sender, NEW u \in Front!Sender
                     PROVE  /\ Front!Waiting(t)' => Second <= fdelay'[t] + 1 + slack'
                            /\ Front!Waiting(t)' /\ ~(Second <= fdelay'[t] + 0 + slack') /\ u # t =>
                                 ~Front!Waiting(u)' /\ Second <= fdelay'[u] + 1 + slack'
          BY <2>b
        <5>1. CASE t = s
          BY <2>k, <3>2, <3>a, <5>1, FrontSecond
        <5>2. CASE t # s /\ u = s
          <6>1. fdelay[s] = 0
            BY <3>0
          <6>2. Front!Waiting(t) => Second <= fdelay[t] + 0 + slack
            BY <2>a, <2>k, <5>2, <6>1, FrontSecond
          <6> QED
            BY <2>a, <2>d, <2>k, <3>2, <3>a, <4>4, <5>2, <6>2, FrontSecond
        <5>3. CASE t # s /\ u # s
          BY <2>a, <3>2, <3>a, <4>4, <5>3 DEF Front!Sender
        <5> QED
          BY <5>1, <5>2, <5>3
      <4> QED
        BY <4>6, <4>7, <4>8 DEF Front!FrontInv
    <3> QED
      BY <3>0, <3>3, <3>4 DEF Front!SendToFront
  <2>2. CASE Front!xQueueReceive
    <3>0. /\ data = <<>> /\ stack # <<>> /\ data' = <<Head(stack)>> /\ stack' = Tail(stack)
          /\ UNCHANGED <<counter, fdelay, fwaited, expected, fticked>>
      BY <2>2 DEF Front!xQueueReceive
    <3>1. /\ 1 \in 1..Len(stack) /\ data' = <<stack[1]>> /\ stack[1] \in Front!Item
          /\ stack' \in Seq(Front!Item)
          /\ \A k \in 1..Len(stack') : k + 1 \in 2..Len(stack) /\ stack'[k] = stack[k + 1]
          /\ \A k \in 2..Len(stack) : k - 1 \in 1..Len(stack') /\ stack'[k - 1] = stack[k]
      BY <2>0, <3>0, TakenOut DEF Front!TypeOK
    <3>2. data'[1] = stack[1] /\ data' # <<>>
      BY <3>1
    <3>3. ASSUME NEW k \in 1..Len(stack') PROVE stack'[k].sender # stack[1].sender
      <4>1. k + 1 \in 1..Len(stack) /\ k + 1 # 1 /\ stack'[k] = stack[k + 1]
        BY <2>0, <3>1
      <4> QED
        BY <2>0, <3>1, <4>1 DEF Front!OneEach
    <3>4. \A t \in Front!Sender : Front!Waiting(t)' <=> Front!Waiting(t)
      <4>1. ASSUME NEW t \in Front!Sender, Front!Queued(t) PROVE Front!Waiting(t)'
        <5>1. PICK k \in 1..Len(stack) : stack[k].sender = t
          BY <4>1 DEF Front!Queued
        <5>2. CASE k = 1
          BY <3>2, <5>1, <5>2 DEF Front!Waiting, Front!Printed
        <5>3. CASE k # 1
          <6>1. k \in 2..Len(stack)
            BY <2>0, <5>3
          <6> QED
            BY <3>1, <5>1, <6>1 DEF Front!Waiting, Front!Queued
        <5> QED
          BY <5>2, <5>3
      <4>2. ASSUME NEW t \in Front!Sender, Front!Waiting(t)' PROVE Front!Queued(t)
        <5>1. CASE Front!Printed(t)'
          BY <3>1, <3>2, <5>1 DEF Front!Queued, Front!Printed
        <5>2. CASE Front!Queued(t)'
          <6>1. PICK k \in 1..Len(stack') : stack'[k].sender = t
            BY <5>2 DEF Front!Queued
          <6>2. k + 1 \in 1..Len(stack) /\ stack[k + 1].sender = t
            BY <2>0, <3>1, <6>1
          <6> QED
            BY <6>2 DEF Front!Queued
        <5> QED
          BY <4>2, <5>1, <5>2 DEF Front!Waiting
      <4> QED
        BY <3>0, <4>1, <4>2 DEF Front!Waiting, Front!Printed
    <3>5. Front!TypeOK'
      BY <2>0, <3>0, <3>1 DEF Front!TypeOK
    <3>6. Front!OneEach'
      <4>1. \A k \in 1..Len(stack') : stack'[k].counter = expected'[stack'[k].sender]
        BY <2>0, <3>0, <3>1 DEF Front!OneEach
      <4>2. ASSUME NEW m \in 1..Len(stack'), NEW n \in 1..Len(stack'),
                   stack'[m].sender = stack'[n].sender
            PROVE  m = n
        <5>1. m + 1 \in 1..Len(stack) /\ n + 1 \in 1..Len(stack)
              /\ stack[m + 1].sender = stack[n + 1].sender
          BY <2>0, <3>1, <4>2
        <5>2. m + 1 = n + 1
          BY <2>0, <5>1 DEF Front!OneEach
        <5> QED
          BY <5>2
      <4>3. data'[1].counter = expected'[data'[1].sender] /\ ~Front!Queued(data[1].sender)'
        BY <2>0, <3>0, <3>1, <3>2, <3>3 DEF Front!OneEach, Front!Queued
      <4>4. \A t \in Front!Sender :
              counter'[t] = IF Front!Waiting(t)' THEN Front!After(expected'[t]) ELSE expected'[t]
        BY <2>0, <3>0, <3>4 DEF Front!OneEach
      <4> QED
        BY <4>1, <4>2, <4>3, <4>4 DEF Front!OneEach, Front!After
    <3>7. Front!Asleep'
      BY <2>a, <2>b, <2>t, <3>0, <3>4
    <3> QED
      BY <3>5, <3>6, <3>7 DEF Front!FrontInv
  <2>3. CASE Front!Report
    <3> DEFINE r == data[1].sender
    <3>0. /\ data # <<>> /\ data' = <<>> /\ fticked' = FALSE
          /\ expected' = [expected EXCEPT ![r] = Front!After(data[1].counter)]
          /\ UNCHANGED <<stack, counter, fdelay, fwaited>>
      BY <2>3 DEF Front!Report
    <3>1. r \in Front!Sender /\ data[1].counter = expected[r] /\ ~Front!Queued(r) /\ Front!Printed(r)
      BY <2>0, <3>0 DEF Front!OneEach, Front!TypeOK, Front!Item, Front!Printed
    <3>2. \A t \in Front!Sender : Front!Waiting(t)' <=> Front!Waiting(t) /\ t # r
      BY <3>0, <3>1 DEF Front!Waiting, Front!Queued, Front!Printed
    <3>3. /\ expected' \in [Front!Sender -> Nat] /\ expected'[r] = Front!After(expected[r])
          /\ \A t \in Front!Sender \ {r} : expected'[t] = expected[t]
      BY <2>0, <3>0, <3>1 DEF Front!TypeOK, Front!After
    <3>4. Front!TypeOK'
      BY <2>0, <3>0, <3>3 DEF Front!TypeOK
    <3>5. Front!OneEach'
      <4>1. ASSUME NEW k \in 1..Len(stack) PROVE stack[k].counter = expected'[stack[k].sender]
        <5>1. stack[k].sender \in Front!Sender /\ stack[k].sender # r
          BY <2>e, <3>1 DEF Front!Item, Front!Queued
        <5> QED
          BY <2>0, <3>3, <5>1 DEF Front!OneEach
      <4>2. ASSUME NEW t \in Front!Sender
            PROVE  counter'[t] = IF Front!Waiting(t)' THEN Front!After(expected'[t]) ELSE expected'[t]
        <5>1. CASE t = r
          <6>1. Front!Waiting(r)
            BY <3>1 DEF Front!Waiting
          <6> QED
            BY <2>0, <3>0, <3>1, <3>2, <3>3, <5>1, <6>1 DEF Front!OneEach
        <5>2. CASE t # r
          BY <2>0, <3>0, <3>2, <3>3, <5>2 DEF Front!OneEach
        <5> QED
          BY <5>1, <5>2
      <4> QED
        BY <2>0, <3>0, <4>1, <4>2 DEF Front!OneEach, Front!After
    <3>6. Front!Asleep'
      <4>1. slack' = 0 /\ Front!Waiting(r)
        BY <2>t, <3>0, <3>1 DEF Front!Waiting
      <4>2. ASSUME NEW t \in Front!Sender, Front!Waiting(t), t # r
            PROVE  Second <= fdelay[t] + 1 /\ Second <= fdelay[r] + 1
        <5>1. Second <= fdelay[t] + 0 + slack /\ Second <= fdelay[r] + 0 + slack
          BY <2>a, <3>1, <4>1, <4>2
        <5> QED
          BY <2>d, <2>k, <3>1, <5>1, FrontSecond
      <4> SUFFICES ASSUME NEW t \in Front!Sender, NEW u \in Front!Sender, Front!Waiting(t), t # r
                   PROVE  /\ Second <= fdelay[t] + 1 + slack'
                          /\ u # t => ~Front!Waiting(u)' /\ Second <= fdelay[u] + 1 + slack'
        BY <2>b, <3>0, <3>2
      <4>3. u # t => u = r
        BY <3>1 DEF Front!Sender
      <4> QED
        BY <2>d, <3>1, <3>2, <4>1, <4>2, <4>3
    <3> QED
      BY <3>4, <3>5, <3>6 DEF Front!FrontInv
  <2>4. CASE Front!Tick
    <3>0. /\ Front!SendersSleep /\ (stack # <<>> \/ data # <<>> => ~fticked)
          /\ fticked' = (stack # <<>> \/ data # <<>>)
          /\ fdelay' = [s \in Front!Sender |-> IF fdelay[s] > 0 THEN fdelay[s] - 1 ELSE 0]
          /\ fwaited' = [s \in Front!Sender |-> fdelay[s] = 0]
          /\ UNCHANGED <<stack, counter, data, expected>>
      BY <2>4 DEF Front!Tick
    <3>1. \A t \in Front!Sender : Front!Waiting(t)' <=> Front!Waiting(t)
      BY <3>0 DEF Front!Waiting, Front!Queued, Front!Printed
    <3>2. /\ fdelay' \in [Front!Sender -> Nat] /\ fwaited' \in [Front!Sender -> BOOLEAN]
          /\ \A t \in Front!Sender : fdelay'[t] = IF fdelay[t] > 0 THEN fdelay[t] - 1 ELSE 0
      BY <2>0, <3>0 DEF Front!TypeOK
    <3>3. Front!TypeOK' /\ Front!OneEach'
      BY <2>0, <3>0, <3>1, <3>2
      DEF Front!TypeOK, Front!OneEach, Front!Waiting, Front!Queued, Front!Printed, Front!After
    <3>4. ASSUME NEW s \in Front!Sender, Front!Waiting(s) PROVE slack = 0 /\ slack' = 1
      <4>1. stack # <<>> \/ data # <<>>
        <5>1. Len(stack) = 0 => ~Front!Queued(s)
          BY DEF Front!Queued
        <5> QED
          BY <3>4, <5>1 DEF Front!Waiting, Front!Printed
      <4> QED
        BY <2>t, <3>0, <4>1
    <3>5. Front!Asleep'
      <4> SUFFICES ASSUME NEW t \in Front!Sender, NEW u \in Front!Sender, Front!Waiting(t)
                   PROVE  /\ Second <= fdelay'[t] + 1 + slack'
                          /\ ~(Second <= fdelay'[t] + 0 + slack') /\ u # t =>
                                 ~Front!Waiting(u)' /\ Second <= fdelay'[u] + 1 + slack'
        BY <2>b, <3>1
      <4>1. /\ slack = 0 /\ slack' = 1
            /\ fdelay'[t] = IF fdelay[t] > 0 THEN fdelay[t] - 1 ELSE 0
            /\ fdelay'[u] = IF fdelay[u] > 0 THEN fdelay[u] - 1 ELSE 0
        BY <3>2, <3>4
      <4>2. Second <= fdelay[t] + 1 /\ fdelay[t] \in Nat /\ fdelay[u] \in Nat
        BY <2>a, <2>d, <4>1
      <4>3. ~(Second <= fdelay[t] - 1 + 1) /\ u # t => ~Front!Waiting(u) /\ Second <= fdelay[u] + 1
        BY <2>a, <4>1, <4>2
      <4> QED
        BY <3>1, <4>1, <4>2, <4>3, FrontSecond
    <3> QED
      BY <3>3, <3>5 DEF Front!FrontInv
  <2>5. CASE UNCHANGED Front!vars
    BY <2>0, <2>5 DEF Front!vars, Front!FrontInv, Front!TypeOK, Front!OneEach, Front!Asleep,
                      Front!Sleeps, Front!Waiting, Front!Queued, Front!Printed, Front!After
  <2> QED
    BY <2>1, <2>2, <2>3, <2>4, <2>5 DEF Front!Next, Front!receiveTask
<1> QED
  BY <1>1, <1>2, PTL DEF Front!Spec

(***************************************************************************)
(* Although the senders of cxColas_2 write at the front of the queue, the  *)
(* receiver gets the items of each in the order they were sent, none       *)
(* missing and none twice.                                                 *)
(***************************************************************************)
THEOREM FrontInOrder == Front!Spec => SenderOrder
<1>1. Front!FrontInv /\ [Front!Next]_Front!vars
        => [Front!xQueueReceive => data'[1].counter = expected[data'[1].sender]]_Front!vars
  <2> SUFFICES ASSUME Front!TypeOK, Front!OneEach, Front!xQueueReceive
               PROVE  data'[1].counter = expected[data'[1].sender]
    BY DEF Front!FrontInv
  <2>1. 1 \in 1..Len(stack) /\ data'[1] = stack[1]
    BY TakenOut DEF Front!TypeOK, Front!xQueueReceive
  <2> QED
    BY <2>1 DEF Front!OneEach
<1> QED
  BY <1>1, FrontInvariant, PTL DEF Front!Spec, SenderOrder, Front!SenderOrder

-----------------------------------------------------------------------------
(* mutex_2 *)

LEMMA WritersInvariant == Writers!Spec => []Writers!WritersInv
<1>0. /\ Patience \in Nat /\ MutexPatience \in Nat /\ Sleep1 \in Nat /\ Sleep2 \in Nat
      /\ MutexPatience > 3 /\ Sleep1 > 1 /\ Sleep2 > 1
  BY WritersAssumption, TicksAssumption DEF Writers!TicksAssumption
<1>1. Writers!Init => Writers!WritersInv
  BY DEF Writers!Init, Writers!WritersInv, Writers!TypeOK, Writers!OwnerWrites, Writers!Tasks
<1>2. Writers!WritersInv /\ [Writers!Next]_Writers!vars => Writers!WritersInv'
  <2> SUFFICES ASSUME Writers!WritersInv, [Writers!Next]_Writers!vars PROVE Writers!WritersInv'
    OBVIOUS
  <2> USE <1>0 DEF Writers!WritersInv, Writers!TypeOK, Writers!OwnerWrites, Writers!Tasks,
                   Writers!PatienceLeft, Writers!Other
  <2>1. CASE Writers!Tick
    BY <2>1 DEF Writers!Tick, Writers!Busy
  <2>2. ASSUME NEW t \in Writers!Tasks, Writers!Task(t) PROVE Writers!WritersInv'
    <3>1. CASE Writers!Announce(t)
      BY <2>2, <3>1 DEF Writers!Announce, Writers!Goes
    <3>2. CASE Writers!xSemaphoreTake(t)
      BY <2>2, <3>2 DEF Writers!xSemaphoreTake, Writers!Goes
    <3>3. CASE Writers!writeToBus(t)
      BY <2>2, <3>3 DEF Writers!writeToBus, Writers!Goes, Writers!xSemaphoreGive,
                        Writers!vTaskDelay, Writers!Sleep
    <3>4. CASE Writers!Wake(t)
      BY <2>2, <3>4 DEF Writers!Wake, Writers!Goes
    <3> QED
      BY <2>2, <3>1, <3>2, <3>3, <3>4 DEF Writers!Task
  <2>3. CASE UNCHANGED Writers!vars
    BY <2>3 DEF Writers!vars
  <2> QED
    BY <2>1, <2>2, <2>3 DEF Writers!Next
<1> QED
  BY <1>1, <1>2, PTL DEF Writers!Spec

(***************************************************************************)
(* Neither task of mutex_2 ever waits until its patience ends, whatever    *)
(* the cores and the phases of the tasks, provided the patience is more    *)
(* than three ticks and they sleep for more than one.                      *)
(***************************************************************************)
THEOREM MutexInTime == Writers!Spec => []NeverTimesOut
<1>1. Writers!WritersInv => NeverTimesOut
  BY WritersAssumption DEF Writers!TicksAssumption, Writers!WritersInv, Writers!TypeOK,
     Writers!PatienceLeft, NeverTimesOut, Writers!NeverTimesOut
<1> QED
  BY <1>1, WritersInvariant, PTL
===============================================================================
