----------------------------- MODULE MqttReading -----------------------------
(***************************************************************************)
(* wifi_mqtt_6: generateReading puts a reading on readingQueue; the task   *)
(* OnConnected takes one, starts the Wi-Fi and runs MQTTLogic, a state     *)
(* machine driven by one 32-bit task notification that the Wi-Fi event     *)
(* handler and the MQTT event handler write with eSetValueWithOverwrite.   *)
(* The session's last command stops the client and the Wi-Fi, and the task *)
(* goes back to the queue.                                                 *)
(*                                                                         *)
(* The MQTT client, the Wi-Fi driver, the event loop and the kernel are    *)
(* external and appear as what this code sees of them.  Readings are the   *)
(* numbers 1, 2, ... in the order esp_random drew them.                    *)
(***************************************************************************)
EXTENDS Naturals, Sequences, FiniteSets

CONSTANTS Client,         \* MQTT client objects the heap has room for
          NoClient,       \* the NULL handle
          QueueLength,    \* 4 in the code: the arguments of xQueueCreate are swapped
          MaxReadings,    \* bound: readings generated
          MaxDrops,       \* bound: MQTT connections the broker or network drops
          MaxRenewals,    \* bound: further GOT_IP events while the link is up
          MaxLosses       \* bound: failed associations and lost links

ASSUME ConstantsAssumption ==
  /\ NoClient \notin Client /\ Client # {}
  /\ QueueLength \in Nat \ {0}
  /\ {MaxReadings, MaxDrops, MaxRenewals, MaxLosses} \subseteq Nat

WIFI_CONNECTED == "wifi_connected"
MQTT_CONNECTED == "mqtt_connected"
MQTT_PUBLISHED == "mqtt_published"
NoCommand      == "none"
Command        == {WIFI_CONNECTED, MQTT_CONNECTED, MQTT_PUBLISHED}

VARIABLES
  generated,     \* readings drawn so far
  readingQueue,  \* the FreeRTOS queue
  pc,            \* OnConnected: blocked in "receive" or "wait", or about to "run" command
  reading,       \* sensorReading of the session, 0 outside one
  command,       \* MQTTLogic's local of that name
  handle,        \* MQTTLogic's client
  notice,        \* the pending notification value of taskHandle, or NoCommand
  wifi,          \* the driver: stopped, started, joining, up, down
  events,        \* events posted to the event loop and not yet handled
  conn,          \* each client object: free, connecting, online or retrying
  outbox,        \* each client object: QoS 2 messages without a PUBCOMP
  delivered,     \* readings in the order their PUBCOMP was reported
  faults         \* how many drops, renewals and losses happened

task    == <<pc, reading, command, handle>>
clients == <<conn, outbox>>
vars    == <<generated, readingQueue, task, notice, wifi, events, clients,
             delivered, faults>>

Range(s) == {s[i] : i \in DOMAIN s}

InitSession ==
  /\ readingQueue = <<>>
  /\ pc = "receive" /\ reading = 0 /\ command = NoCommand /\ handle = NoClient
  /\ notice = NoCommand /\ wifi = "stopped" /\ events = <<>>
  /\ conn = [c \in Client |-> "free"]
  /\ outbox = [c \in Client |-> <<>>]

Init ==
  /\ InitSession
  /\ generated = 0 /\ delivered = <<>>
  /\ faults = [drops |-> 0, renewals |-> 0, losses |-> 0]

Count(kind) == faults' = [faults EXCEPT ![kind] = @ + 1]

(***************************************************************************)
(* xTaskNotify(taskHandle, value, eSetValueWithOverwrite).                 *)
(***************************************************************************)
Notify(value) == notice' = value

-----------------------------------------------------------------------------
(* Task generateReading *)

(***************************************************************************)
(* The queue must have room within two seconds, or the reading is dropped: *)
(* the result of xQueueSend is not looked at.                              *)
(***************************************************************************)
SendUnbounded(queue, r) == Append(queue, r)
SendToFront(queue, r)   == IF Len(queue) < QueueLength THEN <<r>> \o queue ELSE queue

Send(queue, r) == IF Len(queue) < QueueLength THEN Append(queue, r) ELSE queue

Generate ==
  /\ generated < MaxReadings
  /\ generated' = generated + 1
  /\ readingQueue' = Send(readingQueue, generated')
  /\ UNCHANGED <<task, notice, wifi, events, clients, delivered, faults>>

-----------------------------------------------------------------------------
(* Task OnConnected *)

Receive ==
  /\ pc = "receive" /\ readingQueue # <<>>
  /\ reading' = Head(readingQueue) /\ readingQueue' = Tail(readingQueue)
  /\ pc' = "wait" /\ command' = NoCommand /\ handle' = NoClient
  /\ wifi' = "started" /\ events' = Append(events, "STA_START")
  /\ UNCHANGED <<generated, notice, clients, delivered, faults>>

WaitNotify ==
  /\ pc = "wait" /\ notice # NoCommand
  /\ pc' = "run" /\ command' = notice /\ notice' = NoCommand
  /\ UNCHANGED <<generated, readingQueue, reading, handle, wifi, events, clients,
                 delivered, faults>>

(***************************************************************************)
(* esp_mqtt_client_init returns NULL when the heap has no room.  Calls on  *)
(* a NULL client report an error here; Panic is their other outcome.       *)
(***************************************************************************)
HeapFull == \A c \in Client : conn[c] # "free"

StartClient ==
  /\ pc = "run" /\ command = WIFI_CONNECTED
  /\ \/ \E c \in Client :
          /\ conn[c] = "free"
          /\ conn' = [conn EXCEPT ![c] = IF wifi = "up" THEN "connecting" ELSE "retrying"]
          /\ handle' = c
     \/ HeapFull /\ handle' = NoClient /\ UNCHANGED conn
  /\ pc' = "wait"
  /\ UNCHANGED <<generated, readingQueue, reading, command, notice, wifi, events,
                 outbox, delivered, faults>>

Publish ==
  /\ pc = "run" /\ command = MQTT_CONNECTED
  /\ outbox' = IF handle = NoClient THEN outbox
               ELSE [outbox EXCEPT ![handle] = Append(@, reading)]
  /\ pc' = "wait"
  /\ UNCHANGED <<generated, readingQueue, reading, command, handle, notice, wifi,
                 events, conn, delivered, faults>>

(***************************************************************************)
(* What becomes of the client objects when the Wi-Fi stops, and when the   *)
(* session's own is destroyed first.                                       *)
(***************************************************************************)
Disconnected == [c \in Client |-> IF conn[c] = "free" THEN "free" ELSE "retrying"]
Destroyed    == [c \in Client |-> IF c = handle THEN "free" ELSE Disconnected[c]]

NoReturn ==
  /\ pc' = "wait" /\ wifi' = "stopped"
  /\ UNCHANGED <<reading, command, handle>>
WifiLeftOn ==
  /\ pc' = "receive" /\ reading' = 0 /\ command' = NoCommand /\ handle' = NoClient
  /\ UNCHANGED wifi

Leave ==
  /\ pc' = "receive" /\ reading' = 0 /\ command' = NoCommand /\ handle' = NoClient
  /\ wifi' = "stopped"

EndSession ==
  /\ pc = "run" /\ command = MQTT_PUBLISHED
  /\ conn' = Destroyed
  /\ outbox' = [c \in Client |-> IF c = handle THEN <<>> ELSE outbox[c]]
  /\ Leave
  /\ UNCHANGED <<generated, readingQueue, notice, events, delivered, faults>>

(***************************************************************************)
(* A NULL dereference in the MQTT library panics, and the panic handler    *)
(* reboots: everything in RAM is gone, the queue included.                 *)
(***************************************************************************)
Panic ==
  /\ pc = "run"
  /\ IF command = WIFI_CONNECTED THEN HeapFull ELSE handle = NoClient
  /\ Leave
  /\ readingQueue' = <<>> /\ notice' = NoCommand /\ events' = <<>>
  /\ conn' = [c \in Client |-> "free"] /\ outbox' = [c \in Client |-> <<>>]
  /\ UNCHANGED <<generated, delivered, faults>>

-----------------------------------------------------------------------------
(* The event task: connect.c's event_handler *)

esp_wifi_connect == wifi' = IF wifi = "started" THEN "joining" ELSE wifi

NoBreak == esp_wifi_connect /\ Notify(WIFI_CONNECTED)
StaStart == esp_wifi_connect /\ UNCHANGED notice

event_handler ==
  /\ events # <<>> /\ events' = Tail(events)
  /\ \/ Head(events) = "STA_START" /\ StaStart
     \/ Head(events) = "GOT_IP" /\ Notify(WIFI_CONNECTED) /\ UNCHANGED wifi
  /\ UNCHANGED <<generated, readingQueue, task, clients, delivered, faults>>

-----------------------------------------------------------------------------
(* The Wi-Fi driver *)

GotIp ==
  /\ wifi = "joining" /\ wifi' = "up"
  /\ events' = Append(events, "GOT_IP")
  /\ UNCHANGED <<generated, readingQueue, task, notice, clients, delivered, faults>>

Renew ==
  /\ wifi = "up" /\ faults.renewals < MaxRenewals /\ Count("renewals")
  /\ events' = Append(events, "GOT_IP")
  /\ UNCHANGED <<generated, readingQueue, task, notice, wifi, clients, delivered>>

(* The DISCONNECTED event is only logged, and nothing connects again. *)
LoseLink ==
  /\ wifi \in {"joining", "up"} /\ faults.losses < MaxLosses /\ Count("losses")
  /\ wifi' = "down" /\ conn' = Disconnected
  /\ UNCHANGED <<generated, readingQueue, task, notice, events, outbox, delivered>>

-----------------------------------------------------------------------------
(* The MQTT clients' tasks, which call mqtt_event_handler_cb *)

WrongBit(event) == Notify(MQTT_PUBLISHED)

mqtt_event_handler_cb(event) ==
  \/ event = "MQTT_EVENT_CONNECTED" /\ Notify(MQTT_CONNECTED)
  \/ event = "MQTT_EVENT_PUBLISHED" /\ Notify(MQTT_PUBLISHED)

(***************************************************************************)
(* A client that failed to connect, or lost its connection, tries again    *)
(* after ten seconds: by then every task that could run has run.           *)
(***************************************************************************)
Quiet == events = <<>> /\ notice = NoCommand /\ pc # "run"

Connected(c) ==
  /\ wifi = "up"
  /\ conn[c] = "connecting" \/ (conn[c] = "retrying" /\ Quiet)
  /\ conn' = [conn EXCEPT ![c] = "online"]
  /\ mqtt_event_handler_cb("MQTT_EVENT_CONNECTED")
  /\ UNCHANGED <<generated, readingQueue, task, wifi, events, outbox, delivered, faults>>

Published(c) ==
  /\ wifi = "up" /\ conn[c] = "online" /\ outbox[c] # <<>>
  /\ delivered' = Append(delivered, Head(outbox[c]))
  /\ outbox' = [outbox EXCEPT ![c] = Tail(@)]
  /\ mqtt_event_handler_cb("MQTT_EVENT_PUBLISHED")
  /\ UNCHANGED <<generated, readingQueue, task, wifi, events, conn, faults>>

(* The client keeps its outbox. *)
Dropped(c) ==
  /\ conn[c] \in {"connecting", "online"} /\ faults.drops < MaxDrops /\ Count("drops")
  /\ conn' = [conn EXCEPT ![c] = "retrying"]
  /\ UNCHANGED <<generated, readingQueue, task, notice, wifi, events, outbox, delivered>>

-----------------------------------------------------------------------------
OnConnected == Receive \/ WaitNotify \/ StartClient \/ Publish \/ EndSession \/ Panic

Next ==
  \/ Generate \/ OnConnected \/ event_handler
  \/ GotIp \/ Renew \/ LoseLink
  \/ \E c \in Client : Connected(c) \/ Published(c) \/ Dropped(c)

Spec == Init /\ [][Next]_vars

(***************************************************************************)
(* The tasks block only where the model says so and the scheduler is       *)
(* preemptive; the access point and the broker are assumed to answer.      *)
(***************************************************************************)
Fairness ==
  /\ WF_vars(Generate) /\ WF_vars(OnConnected) /\ WF_vars(event_handler)
  /\ WF_vars(GotIp)
  /\ \A c \in Client : WF_vars(Connected(c)) /\ WF_vars(Published(c))

FairSpec == Spec /\ Fairness

-----------------------------------------------------------------------------
(* Properties *)

TypeOK ==
  /\ generated \in 0..MaxReadings
  /\ readingQueue \in Seq(1..MaxReadings) /\ Len(readingQueue) <= QueueLength
  /\ pc \in {"receive", "wait", "run"}
  /\ reading \in 0..MaxReadings
  /\ command \in Command \cup {NoCommand} /\ notice \in Command \cup {NoCommand}
  /\ handle \in Client \cup {NoClient}
  /\ wifi \in {"stopped", "started", "joining", "up", "down"}
  /\ events \in Seq({"STA_START", "GOT_IP"})
  /\ conn \in [Client -> {"free", "connecting", "online", "retrying"}]
  /\ outbox \in [Client -> Seq(1..MaxReadings)]
  /\ delivered \in Seq(1..MaxReadings)
  /\ faults \in [drops : 0..MaxDrops, renewals : 0..MaxRenewals, losses : 0..MaxLosses]

(***************************************************************************)
(* The notification value is overwritten, never queued (eSetValueWith-     *)
(* Overwrite), yet with one connection per session no pending command is   *)
(* ever lost: whoever notifies finds the value already consumed.  (A       *)
(* command overwritten by the same one would not show.)                    *)
(***************************************************************************)
NoCommandLost == [][notice # NoCommand => notice' = NoCommand \/ UNCHANGED notice]_vars

(***************************************************************************)
(* MQTTLogic never calls the MQTT library with the NULL it initialises     *)
(* client to: no stale command of the previous session reaches it.         *)
(***************************************************************************)
NoNullClient ==
  pc = "run" /\ command \in {MQTT_CONNECTED, MQTT_PUBLISHED} => handle # NoClient

(***************************************************************************)
(* MQTTLogic returns for a MQTT_PUBLISHED that confirms this session's     *)
(* reading, so leaving the session never abandons it.                      *)
(***************************************************************************)
SessionEndsDelivered ==
  pc = "run" /\ command = MQTT_PUBLISHED => reading \in Range(delivered)

(***************************************************************************)
(* Back at the queue nothing of the session is left to disturb the next    *)
(* one: Wi-Fi stopped, no client object, no event and no command pending.  *)
(***************************************************************************)
CleanBetweenSessions ==
  pc = "receive" =>
    /\ wifi = "stopped" /\ events = <<>> /\ notice = NoCommand
    /\ \A c \in Client : conn[c] = "free"

(***************************************************************************)
(* The task, the event loop and the client together implement the pipeline *)
(* of ReadingPipeline: accepted readings are delivered once and in order,  *)
(* however OnConnected, the handlers and a lost link interleave.           *)
(***************************************************************************)
InHand == IF reading # 0 /\ reading \notin Range(delivered) THEN <<reading>> ELSE <<>>
Pipeline == INSTANCE ReadingPipeline WITH offered <- generated, waiting <- InHand \o readingQueue
ImplementsPipelineSteps == Pipeline!Spec

(***************************************************************************)
(* And the pipeline goes on: every accepted reading is delivered at last,  *)
(* unless the link is lost, which connect.c only logs.                     *)
(***************************************************************************)
PipelineGoesOn == <>(wifi = "down") \/ Pipeline!Fairness

(***************************************************************************)
(* Broker reconnections and repeated GOT_IP events may leak clients,       *)
(* deliver a reading twice or abandon it, and a leaked client may deliver  *)
(* its reading after a younger one.  The session's own client never does:  *)
(* while it has something to deliver, nothing younger has been delivered.  *)
(***************************************************************************)
OwnClientInTurn ==
  handle # NoClient =>
    \A m \in Range(outbox[handle]) : \A r \in Range(delivered) : r <= m

(***************************************************************************)
(* Whatever commands were lost or stale, the task finds its way back to    *)
(* the queue, by MQTT_PUBLISHED or by a reboot: only a lost link, which    *)
(* nothing in connect.c repairs, or a heap full of leaked clients keeps it *)
(* in MQTTLogic for ever.                                                  *)
(***************************************************************************)
SessionEnds == pc # "receive" ~> (pc = "receive" \/ wifi = "down" \/ HeapFull)

-----------------------------------------------------------------------------
(***************************************************************************)
(* Why a session's client is never late: whatever has left the queue is    *)
(* older than what is in it, and not younger than the session's reading,   *)
(* which is all that the session's client is given.                        *)
(***************************************************************************)
Taken == {reading} \cup Range(delivered) \cup UNION {Range(outbox[c]) : c \in Client}

AtQueue ==
  /\ pc = "receive" <=> reading = 0
  /\ pc = "receive" => handle = NoClient

TakenInTurn ==
  /\ \A r \in Taken : r <= generated /\ (pc # "receive" => r <= reading)
  /\ \A i \in DOMAIN readingQueue :
       /\ readingQueue[i] <= generated
       /\ \A r \in Taken : r < readingQueue[i]
       /\ \A j \in DOMAIN readingQueue : i < j => readingQueue[i] < readingQueue[j]

OwnReadingOnly ==
  /\ handle # NoClient =>
       conn[handle] # "free" /\ \A m \in Range(outbox[handle]) : m = reading
  /\ \A c \in Client : conn[c] = "free" => outbox[c] = <<>>

TurnInv == TypeOK /\ AtQueue /\ TakenInTurn /\ OwnReadingOnly

-----------------------------------------------------------------------------
(* Why the undisturbed sessions are right: one token goes round *)

NoClients == \A c \in Client : conn[c] = "free" /\ outbox[c] = <<>>

OneClient(messages) ==
  /\ handle \in Client /\ outbox[handle] = messages
  /\ \A c \in Client \ {handle} : conn[c] = "free" /\ outbox[c] = <<>>
  /\ events = <<>>
  /\ \/ wifi = "up" /\ conn[handle] \in {"connecting", "online"}
     \/ wifi = "down" /\ conn[handle] = "retrying"

Waiting == pc = "wait" /\ notice = NoCommand

Commanded(value) ==
  \/ pc = "wait" /\ notice = value
  \/ pc = "run" /\ command = value /\ notice = NoCommand

Idle ==
  /\ pc = "receive" /\ notice = NoCommand
  /\ wifi = "stopped" /\ events = <<>> /\ NoClients
Joining ==
  /\ Waiting /\ handle = NoClient /\ NoClients
  /\ <<wifi, events>> \in {<<"started", <<"STA_START">>>>, <<"joining", <<>>>>,
                          <<"up", <<"GOT_IP">>>>, <<"down", <<"GOT_IP">>>>, <<"down", <<>>>>}
Joined ==
  /\ Commanded(WIFI_CONNECTED) /\ handle = NoClient /\ NoClients
  /\ wifi \in {"up", "down"} /\ events = <<>>
Connecting == Waiting /\ OneClient(<<>>) /\ conn[handle] # "online"
Online     == Commanded(MQTT_CONNECTED) /\ OneClient(<<>>) /\ conn[handle] # "connecting"
Publishing == Waiting /\ OneClient(<<reading>>) /\ conn[handle] # "connecting"
Confirmed ==
  /\ Commanded(MQTT_PUBLISHED) /\ OneClient(<<>>) /\ conn[handle] # "connecting"
  /\ reading \in Range(delivered)

(***************************************************************************)
(* At any moment exactly one of the event loop, the driver, the client and *)
(* the notification value holds what happens next in OnConnected.          *)
(***************************************************************************)
SinglePhase ==
  /\ pc = "receive" <=> reading = 0
  /\ \/ Idle \/ Joining \/ Joined \/ Connecting \/ Online \/ Publishing \/ Confirmed

(***************************************************************************)
(* What makes the pipeline deliver once: no reading is in two places, and  *)
(* that of the session is delivered in its last phase only.                *)
(***************************************************************************)
EachReadingOnce ==
  /\ \A i \in DOMAIN readingQueue :
       /\ readingQueue[i] \notin Range(delivered) \cup {reading}
       /\ readingQueue[i] <= generated
  /\ \A i, j \in DOMAIN readingQueue : i # j => readingQueue[i] # readingQueue[j]
  /\ reading <= generated /\ \A i \in DOMAIN delivered : delivered[i] <= generated
  /\ reading \in Range(delivered) => Confirmed

=============================================================================
