---------------------------- MODULE WifiStation ----------------------------
(***************************************************************************)
(* The start-up over Wi-Fi that the networked examples share: event_handler*)
(* and wifi_init_sta of mqtt/main/main.c, the same in the main.c of        *)
(* tcp-server and http-server. The handler runs in the event loop's task   *)
(* and tells app_main's task by two bits how it went.                      *)
(*                                                                         *)
(* app_main hands the result to ESP_ERROR_CHECK: after the last retry the  *)
(* chip aborts, restarts and begins again. Once the start-up is over the   *)
(* handler is unregistered: an access point lost later is not joined again.*)
(*                                                                         *)
(* The Wi-Fi driver and the access point are external. The module is made  *)
(* to be extended: every name begins with or contains Station, Wifi or Ap. *)
(***************************************************************************)
EXTENDS Naturals, Sequences

CONSTANT MaxRetry  \* CONFIG_ESP_MAXIMUM_RETRY

ASSUME RetryAssumption == MaxRetry \in Nat

\* stage: of wifi_init_sta; radio: idle, connecting, or addressed; events: posted, not
\* yet handled; failures: history, attempts that failed since the start or the last
\* address.
VARIABLE station

StationFresh ==
  [stage |-> "init", s_retry_num |-> 0, bits |-> {}, radio |-> "idle",
   events |-> <<>>, failures |-> 0]

StationInit == station = StationFresh

StationRestart == station' = StationFresh

StationUp == station.stage = "up"
WifiAddressed == station.radio = "addressed"

-----------------------------------------------------------------------------
(* wifi_init_sta.                                                           *)

WifiStart ==
  /\ station.stage = "init"
  /\ station' = [station EXCEPT !.stage = "waiting", !.events = <<"STA_START">>]

\* xEventGroupWaitBits: a connection counts more than a failure. The handler and the
\* event group are gone, and with them all but the state of the radio.
StationStarted ==
  /\ station.stage = "waiting" /\ "connected" \in station.bits
  /\ station' = [StationFresh EXCEPT !.stage = "up", !.radio = station.radio]

\* ESP_FAIL, ESP_ERROR_CHECK, abort.
StationAborts ==
  /\ station.stage = "waiting" /\ station.bits = {"fail"}
  /\ StationRestart

-----------------------------------------------------------------------------
(* event_handler.                                                           *)

StationEvent(e) ==
  /\ station.stage = "waiting" /\ station.events # <<>> /\ Head(station.events) = e

\* esp_wifi_connect.
StationConnects(retries, failures) ==
  station' = [station EXCEPT !.events = Tail(@), !.radio = "connecting",
                             !.s_retry_num = retries, !.failures = failures]

OnStationStart == StationEvent("STA_START") /\ StationConnects(0, 0)

\* Mutant: one retry too many.
StationRetryOffByOne == station.s_retry_num <= MaxRetry

StationMayRetry == station.s_retry_num < MaxRetry

\* Mutant: the failure is only logged.
StationFailureLogged == station.bits

StationFailure == station.bits \cup {"fail"}

OnStationDisconnected ==
  /\ StationEvent("STA_DISCONNECTED")
  /\ IF StationMayRetry
       THEN StationConnects(station.s_retry_num + 1, station.failures + 1)
       ELSE station' = [station EXCEPT !.events = Tail(@), !.bits = StationFailure,
                                       !.failures = @ + 1]

OnStationGotIp ==
  /\ StationEvent("STA_GOT_IP")
  /\ station' = [station EXCEPT !.events = Tail(@), !.bits = @ \cup {"connected"},
                                !.s_retry_num = 0, !.failures = 0]

StationHandler == OnStationStart \/ OnStationDisconnected \/ OnStationGotIp

-----------------------------------------------------------------------------
(* The driver and the access point.                                         *)

ApDoes(before, after, event) ==
  /\ station.radio \in before
  /\ station' = [station EXCEPT !.radio = after,
                    !.events = IF StationUp THEN @ ELSE @ \o event]

ApGivesAddress == ApDoes({"connecting"}, "addressed", <<"STA_GOT_IP">>)

\* The access point is not found, refuses, or is lost during the start-up.
ApFails ==
  ApDoes(IF StationUp THEN {"connecting"} ELSE {"connecting", "addressed"},
         "idle", <<"STA_DISCONNECTED">>)

StationMain == WifiStart \/ StationStarted \/ StationAborts

AccessPoint == ApGivesAddress \/ ApFails

StationNext == StationMain \/ StationHandler \/ AccessPoint

-----------------------------------------------------------------------------
\* The event loop is never behind by more than an address and its loss.
StationTypeOK ==
  /\ station.stage \in {"init", "waiting", "up"}
  /\ station.s_retry_num \in 0..MaxRetry /\ station.failures \in 0..MaxRetry + 1
  /\ station.bits \subseteq {"connected", "fail"}
  /\ station.radio \in {"idle", "connecting", "addressed"}
  /\ Len(station.events) <= 2

=============================================================================
