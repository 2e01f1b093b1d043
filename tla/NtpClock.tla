------------------------------ MODULE NtpClock -------------------------------
(***************************************************************************)
(* wifi_ntp_3/main/wifi_ntp.c: the clock is set over the network; the      *)
(* callback prints it five times and restarts the chip, which keeps the    *)
(* clock.  The client is started before the callback is registered.        *)
(***************************************************************************)
EXTENDS Naturals

VARIABLES clock,     \* of the chip: "1970", "drifted" or "right"
          client,    \* SNTP: "off", "asked" or "paused"
          callback,  \* on_got_time is registered
          pc,        \* app_main, then on_got_time
          i          \* of the loop in on_got_time

vars == <<clock, client, callback, pc, i>>

Init == clock = "1970" /\ client = "off" /\ callback = FALSE /\ pc = "connect" /\ i = 0

(* example_connect returns when there is a connection. *)
sntp_init ==
  /\ pc = "connect" /\ pc' = "set_cb" /\ client' = "asked"
  /\ UNCHANGED <<clock, callback, i>>

NotRegistered == callback' = FALSE
Registered    == callback' = TRUE

sntp_set_time_sync_notification_cb ==
  /\ pc = "set_cb" /\ pc' = "returned" /\ Registered
  /\ UNCHANGED <<clock, client, i>>

(* The clock is set at once; without a callback nobody is told. *)
Answer ==
  /\ client = "asked" /\ client' = "paused" /\ clock' = "right"
  /\ IF callback THEN pc' = "on_got_time" /\ i' = 0 ELSE UNCHANGED <<pc, i>>
  /\ UNCHANGED callback

NoAnswer ==
  /\ client = "asked" /\ client' = "paused"
  /\ UNCHANGED <<clock, callback, pc, i>>

(* After an hour, or fifteen seconds without an answer: app_main goes on long before. *)
Poll ==
  /\ client = "paused" /\ pc \notin {"set_cb", "on_got_time"} /\ client' = "asked"
  /\ UNCHANGED <<clock, callback, pc, i>>

InLoop ==
  /\ pc = "on_got_time" /\ i < 5 /\ i' = i + 1
  /\ UNCHANGED <<clock, client, callback, pc>>

Started == pc' = "connect" /\ client' = "off" /\ callback' = FALSE /\ i' = 0

(* The clock goes on over a restart, but not without power. *)
esp_restart == pc = "on_got_time" /\ i = 5 /\ Started /\ UNCHANGED clock
PowerCycle  == Started /\ clock' = "1970"

(* Not within the five seconds of the loop. *)
Drift ==
  /\ clock = "right" /\ pc # "on_got_time" /\ clock' = "drifted"
  /\ UNCHANGED <<client, callback, pc, i>>

on_got_time == InLoop \/ esp_restart
app_main == sntp_init \/ sntp_set_time_sync_notification_cb
Next == app_main \/ on_got_time \/ Answer \/ NoAnswer \/ Poll \/ PowerCycle \/ Drift
Spec == Init /\ [][Next]_vars

(* The time server answers at last, if it is asked again and again. *)
Fairness == WF_vars(app_main) /\ WF_vars(on_got_time) /\ WF_vars(Poll) /\ SF_vars(Answer)

-----------------------------------------------------------------------------
(***************************************************************************)
(* The time of the network is printed again and again, unless the power is *)
(* cut again and again: an answer that comes before the callback is        *)
(* registered goes unnoticed, but the next one does not.                   *)
(***************************************************************************)
Shown == pc = "on_got_time" /\ i = 1 /\ clock = "right"
TimeShown == []<>Shown \/ []<>(pc = "connect" /\ clock = "1970")
=============================================================================
