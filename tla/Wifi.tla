--------------------------------- MODULE Wifi ---------------------------------
(***************************************************************************)
(* WiFi bring-up of the relay (src/relay-fw/src/main/main.c):             *)
(* wifi_event_handler, run by the default event loop, connects on         *)
(* STA_START, reconnects on STA_DISCONNECTED up to WIFI_CONNECTION_RETRIES *)
(* times and then sets WIFI_FAIL_BIT, and on IP_EVENT_STA_GOT_IP resets   *)
(* its retry count and sets WIFI_CONNECTED_BIT.  app_main starts WiFi,    *)
(* waits for either bit, and goes on to start the tasks when connected or *)
(* restarts the chip on failure.  The access point comes and goes.        *)
(***************************************************************************)
EXTENDS Naturals, Sequences

CONSTANTS WIFI_CONNECTION_RETRIES   \* CONFIG_ESP_WIFI_RETRIES

ASSUME RetriesAssumption == WIFI_CONNECTION_RETRIES \in Nat

VARIABLES
    retry_num,   \* static unsigned int retry_num of wifi_event_handler
    bits,        \* wifi_event_group: a subset of {"connected", "fail"}
    link,        \* the station driver: "off", "started", "connecting",
                 \* "connected" or "idle" (no attempt under way)
    events,      \* events posted to the default event loop, not yet handled
    main_pc,     \* app_main: "start", "wait", or "running" (tasks started)
    ap_up        \* the access point is reachable

vars == <<retry_num, bits, link, events, main_pc, ap_up>>

Events == {"sta_start", "disconnected", "got_ip"}

TypeOK ==
    /\ retry_num \in 0 .. WIFI_CONNECTION_RETRIES
    /\ bits \subseteq {"connected", "fail"}
    /\ link \in {"off", "started", "connecting", "connected", "idle"}
    /\ events \in Seq(Events)
    /\ main_pc \in {"start", "wait", "running"}
    /\ ap_up \in BOOLEAN

(* Boot, and esp_restart: RAM, the event group and the driver start over. *)
Init ==
    /\ retry_num = 0
    /\ bits = {}
    /\ link = "off"
    /\ events = <<>>
    /\ main_pc = "start"
    /\ ap_up \in BOOLEAN

(* app_main: esp_wifi_start (main.c:395); the driver posts STA_START.     *)
StartWifi ==
    /\ main_pc = "start"
    /\ main_pc' = "wait"
    /\ link' = "started"
    /\ events' = Append(events, "sta_start")
    /\ UNCHANGED <<retry_num, bits, ap_up>>

(* The driver ends an attempt: IP obtained, or not.                       *)
AttemptSucceeds ==
    /\ link = "connecting"
    /\ ap_up
    /\ link' = "connected"
    /\ events' = Append(events, "got_ip")
    /\ UNCHANGED <<retry_num, bits, main_pc, ap_up>>

AttemptFails ==
    /\ link = "connecting"
    /\ link' = "idle"
    /\ events' = Append(events, "disconnected")
    /\ UNCHANGED <<retry_num, bits, main_pc, ap_up>>

(* The access point goes away under a connected station.                  *)
LinkLost ==
    /\ link = "connected"
    /\ ~ap_up
    /\ link' = "idle"
    /\ events' = Append(events, "disconnected")
    /\ UNCHANGED <<retry_num, bits, main_pc, ap_up>>

(* wifi_event_handler on the oldest posted event.  esp_wifi_connect      *)
(* starts an attempt (main.c:125, 130).                                   *)
OnStaStart ==
    /\ events # <<>> /\ Head(events) = "sta_start"
    /\ events' = Tail(events)
    /\ link' = "connecting"
    /\ UNCHANGED <<retry_num, bits, main_pc, ap_up>>

(* Mutant: retries counted with <= instead of <.                          *)
OnDisconnectedOffByOne ==
    /\ events # <<>> /\ Head(events) = "disconnected"
    /\ events' = Tail(events)
    /\ IF retry_num <= WIFI_CONNECTION_RETRIES
         THEN /\ link' = "connecting"
              /\ retry_num' = retry_num + 1
              /\ UNCHANGED bits
         ELSE /\ bits' = bits \cup {"fail"}
              /\ UNCHANGED <<link, retry_num>>
    /\ UNCHANGED <<main_pc, ap_up>>

(* Mutant: the FAIL bit never set.                                         *)
OnDisconnectedNoFail ==
    /\ events # <<>> /\ Head(events) = "disconnected"
    /\ events' = Tail(events)
    /\ IF retry_num < WIFI_CONNECTION_RETRIES
         THEN /\ link' = "connecting"
              /\ retry_num' = retry_num + 1
         ELSE UNCHANGED <<link, retry_num>>
    /\ UNCHANGED <<bits, main_pc, ap_up>>

(* STA_DISCONNECTED: reconnect while retry_num < WIFI_CONNECTION_RETRIES, *)
(* else set WIFI_FAIL_BIT and leave the station disconnected.             *)
OnDisconnected ==
    /\ events # <<>> /\ Head(events) = "disconnected"
    /\ events' = Tail(events)
    /\ IF retry_num < WIFI_CONNECTION_RETRIES
         THEN /\ link' = "connecting"
              /\ retry_num' = retry_num + 1
              /\ UNCHANGED bits
         ELSE /\ bits' = bits \cup {"fail"}
              /\ UNCHANGED <<link, retry_num>>
    /\ UNCHANGED <<main_pc, ap_up>>

(* IP_EVENT_STA_GOT_IP: reset the retries, set WIFI_CONNECTED_BIT.         *)
OnGotIp ==
    /\ events # <<>> /\ Head(events) = "got_ip"
    /\ events' = Tail(events)
    /\ retry_num' = 0
    /\ bits' = bits \cup {"connected"}
    /\ UNCHANGED <<link, main_pc, ap_up>>

(* xEventGroupWaitBits returns with CONNECTED set: BLE set-up and task    *)
(* creation follow (main.c:398-438).                                       *)
MainConnected ==
    /\ main_pc = "wait"
    /\ "connected" \in bits
    /\ main_pc' = "running"
    /\ UNCHANGED <<retry_num, bits, link, events, ap_up>>

(* It returns with only FAIL set: esp_restart.                             *)
MainRestart ==
    /\ main_pc = "wait"
    /\ "connected" \notin bits
    /\ "fail" \in bits
    /\ retry_num' = 0
    /\ bits' = {}
    /\ link' = "off"
    /\ events' = <<>>
    /\ main_pc' = "start"
    /\ UNCHANGED ap_up

(* The environment: the access point goes down or comes back.             *)
ApToggle ==
    /\ ap_up' = ~ap_up
    /\ UNCHANGED <<retry_num, bits, link, events, main_pc>>

Driver == AttemptSucceeds \/ AttemptFails \/ LinkLost
Handler == OnStaStart \/ OnDisconnected \/ OnGotIp
Next == StartWifi \/ Driver \/ Handler \/ MainConnected \/ MainRestart
        \/ ApToggle

(* The event loop task, the driver and app_main run whenever they can     *)
(* (weak fairness); the access point keeps coming back (weak fairness of  *)
(* its toggling), and an attempt made again and again while it is up      *)
(* eventually succeeds (strong fairness of AttemptSucceeds).              *)
FairSpec ==
    /\ Init /\ [][Next]_vars
    /\ WF_vars(StartWifi) /\ WF_vars(Handler) /\ WF_vars(LinkLost)
    /\ WF_vars(MainConnected) /\ WF_vars(MainRestart)
    /\ WF_vars(ApToggle) /\ SF_vars(AttemptSucceeds)

-----------------------------------------------------------------------------
(* Properties                                                              *)

(* app_main never waits for ever at start-up: each failed attempt is      *)
(* either retried or, once the retries are spent, signalled with          *)
(* WIFI_FAIL_BIT, so the wait at main.c:398 ends in running or a restart. *)
StartupDecides == (main_pc = "wait") ~> (main_pc # "wait")

(* Once the tasks run, the relay is online again and again: every lost    *)
(* connection is eventually re-established while the access point keeps  *)
(* coming back (the downloads of http_client_task depend on it).          *)
StaysOnline == [](main_pc = "running" => []<>(link = "connected"))

=============================================================================
