------------------------ MODULE WifiStation_proofs ------------------------
(***************************************************************************)
(* What holds of the start-up over Wi-Fi at every moment, for any number   *)
(* of retries. The station is a part of another system, so the invariant   *)
(* is stated by its initial state and by each kind of step, and cited      *)
(* there.                                                                  *)
(***************************************************************************)
EXTENDS WifiStation, SequenceTheorems, TLAPS

\* The events that may be waiting for the handler.
Backlogs == {<<>>, <<"STA_START">>, <<"STA_DISCONNECTED">>, <<"STA_GOT_IP">>,
             <<"STA_GOT_IP", "STA_DISCONNECTED">>}

Stations ==
  [stage : {"init", "waiting", "up"}, s_retry_num : Nat, bits : SUBSET {"connected", "fail"},
   radio : {"idle", "connecting", "addressed"},
   events : Backlogs, failures : Nat]

\* Until it has failed for good, the station has used as many retries as attempts
\* have failed; after that nothing is under way any more.
Retries ==
  /\ station.s_retry_num <= MaxRetry
  /\ "fail" \notin station.bits => station.failures = station.s_retry_num
  /\ "fail" \in station.bits =>
       /\ station.failures = MaxRetry + 1
       /\ station.radio = "idle" /\ station.events = <<>>

\* The handler is never behind by more than an address and its loss, and an attempt
\* begins only when it has caught up.
Pending ==
  [idle       |-> {<<>>, <<"STA_START">>, <<"STA_DISCONNECTED">>,
                   <<"STA_GOT_IP", "STA_DISCONNECTED">>},
   connecting |-> {<<>>},
   addressed  |-> {<<>>, <<"STA_GOT_IP">>}]

Caught == station.events \in Pending[station.radio]

\* Before and after the start-up there is neither event nor bit.
Outside ==
  /\ station.stage # "waiting" => station.events = <<>> /\ station.bits = {}
  /\ station.stage = "init" => station.radio = "idle"

StationInv == station \in Stations /\ Retries /\ Caught /\ Outside

-----------------------------------------------------------------------------
\* What is left of at most two events, and what one more makes of at most one.
LEMMA Events ==
  ASSUME NEW e, NEW f
  PROVE  /\ Head(<<e>>) = e /\ Tail(<<e>>) = <<>>
         /\ Head(<<e, f>>) = e /\ Tail(<<e, f>>) = <<f>>
         /\ <<>> \o <<e>> = <<e>> /\ <<e>> \o <<f>> = <<e, f>>
         /\ Len(<<>>) = 0 /\ Len(<<e>>) = 1 /\ Len(<<e, f>>) = 2
<1>1. Head(<<e>>) = e /\ Head(<<e, f>>) = e
  OBVIOUS
<1>2. Tail(<<e>>) = <<>>
  OBVIOUS
<1>3. Tail(<<e, f>>) = <<f>>
  OBVIOUS
<1>4. <<>> \o <<e>> = <<e>>
  OBVIOUS
<1>5. <<e>> \o <<f>> = <<e, f>>
  <2> DEFINE s == <<e>> \o <<f>>
             t == <<e, f>>
  <2>1. s \in Seq({e, f}) /\ t \in Seq({e, f})
    OBVIOUS
  <2>2. Len(s) = 2 /\ Len(t) = 2 /\ s[1] = t[1] /\ s[2] = t[2]
    OBVIOUS
  <2>3. \A i \in 1..Len(s) : s[i] = t[i]
    BY <2>2
  <2> QED
    BY <2>1, <2>2, <2>3, SeqEqual
<1>6. Len(<<>>) = 0 /\ Len(<<e>>) = 1 /\ Len(<<e, f>>) = 2
  OBVIOUS
<1> QED
  BY <1>1, <1>2, <1>3, <1>4, <1>5, <1>6

\* The station begins in the invariant, and goes back to it when the chip restarts.
LEMMA StationBegins ==
  /\ StationInit => StationInv
  /\ StationRestart => StationInv'
<1>1. StationFresh \in Stations
  BY DEF StationFresh, Stations, Backlogs
<1>2. ASSUME station = StationFresh PROVE StationInv
  BY <1>1, <1>2, RetryAssumption DEF StationInv, StationFresh, Retries, Caught, Pending, Outside
<1>3. ASSUME station' = StationFresh PROVE StationInv'
  BY <1>1, <1>3, RetryAssumption DEF StationInv, StationFresh, Retries, Caught, Pending, Outside
<1> QED
  BY <1>2, <1>3 DEF StationInit, StationRestart

\* An event is handled only while nothing but the handler can go on.
LEMMA StationHandles ==
  ASSUME StationInv, NEW e, StationEvent(e)
  PROVE  /\ Tail(station.events) \in {<<>>, <<"STA_DISCONNECTED">>}
         /\ e \in {"STA_START", "STA_DISCONNECTED"} =>
              Tail(station.events) = <<>> /\ station.radio = "idle"
         /\ Tail(station.events) # <<>> => station.radio = "idle"
         /\ "fail" \notin station.bits
<1>1. station.radio \in {"idle", "connecting", "addressed"}
  BY DEF StationInv, Stations, Backlogs
<1>2. station.events \in Pending[station.radio] /\ station.events # <<>> /\ Head(station.events) = e
  BY DEF StationInv, Caught, StationEvent
<1>3. "fail" \notin station.bits
  BY <1>2 DEF StationInv, Retries
<1>4. CASE station.radio = "idle"
  <2>1. \/ station.events = <<"STA_START">> \/ station.events = <<"STA_DISCONNECTED">>
        \/ station.events = <<"STA_GOT_IP", "STA_DISCONNECTED">>
    BY <1>2, <1>4 DEF Pending
  <2>2. CASE station.events = <<"STA_GOT_IP", "STA_DISCONNECTED">>
    <3>1. e = "STA_GOT_IP" /\ Tail(station.events) = <<"STA_DISCONNECTED">>
      BY <1>2, <2>2, Events
    <3> QED
      BY <1>3, <1>4, <3>1
  <2>3. CASE station.events # <<"STA_GOT_IP", "STA_DISCONNECTED">>
    <3>1. Tail(station.events) = <<>>
      BY <2>1, <2>3, Events
    <3> QED
      BY <1>3, <1>4, <3>1
  <2> QED
    BY <2>2, <2>3
<1>5. CASE station.radio # "idle"
  <2>1. station.events = <<"STA_GOT_IP">>
    BY <1>1, <1>2, <1>5 DEF Pending
  <2> QED
    BY <1>2, <1>3, <2>1, Events
<1> QED
  BY <1>4, <1>5

\* Every step of the station keeps the invariant.
LEMMA StationSteps == StationInv /\ StationNext => StationInv'
<1> SUFFICES ASSUME StationInv, StationNext PROVE StationInv'
  OBVIOUS
<1> USE RetryAssumption
<1>1. CASE WifiStart
  <2>1. station' = [station EXCEPT !.stage = "waiting", !.events = <<"STA_START">>]
    BY <1>1 DEF WifiStart
  <2>2. station' \in Stations
    BY <2>1 DEF StationInv, Stations, Backlogs
  <2>3. station.stage = "init" /\ station.radio = "idle" /\ station.bits = {}
    BY <1>1 DEF WifiStart, StationInv, Outside
  <2> QED
    BY <2>1, <2>2, <2>3 DEF StationInv, Stations, Retries, Caught, Pending, Outside
<1>2. CASE StationStarted
  <2>1. station' = [StationFresh EXCEPT !.stage = "up", !.radio = station.radio]
    BY <1>2 DEF StationStarted
  <2>2. station' \in Stations
    BY <2>1 DEF StationFresh, StationInv, Stations, Backlogs
  <2> QED
    BY <2>1, <2>2 DEF StationFresh, StationInv, Stations, Retries, Caught, Pending, Outside
<1>3. CASE StationAborts
  BY <1>3, StationBegins DEF StationAborts
<1>4. ASSUME NEW retries \in Nat, StationConnects(retries, retries), retries <= MaxRetry,
             NEW e \in {"STA_START", "STA_DISCONNECTED"}, StationEvent(e)
      PROVE  StationInv'
  <2>1. Tail(station.events) = <<>> /\ "fail" \notin station.bits
    BY <1>4, StationHandles
  <2>2. station' = [station EXCEPT !.events = <<>>, !.radio = "connecting",
                                   !.s_retry_num = retries, !.failures = retries]
    BY <1>4, <2>1 DEF StationConnects
  <2>3. station' \in Stations
    BY <2>2 DEF StationInv, Stations, Backlogs
  <2>4. station.stage = "waiting"
    BY <1>4 DEF StationEvent
  <2> QED
    BY <1>4, <2>1, <2>2, <2>3, <2>4 DEF StationInv, Stations, Retries, Caught, Pending, Outside
<1>5. CASE OnStationStart
  BY <1>4, <1>5 DEF OnStationStart
<1>6. CASE OnStationDisconnected
  <2>1. /\ Tail(station.events) = <<>> /\ station.radio = "idle" /\ "fail" \notin station.bits
        /\ station.stage = "waiting"
    BY <1>6, StationHandles DEF OnStationDisconnected, StationEvent
  <2>2. station \in Stations /\ station.s_retry_num <= MaxRetry
                             /\ station.failures = station.s_retry_num
    BY <2>1 DEF StationInv, Retries
  <2>3. CASE StationMayRetry
    BY <1>4, <1>6, <2>2, <2>3 DEF OnStationDisconnected, StationMayRetry, Stations
  <2>4. CASE ~StationMayRetry
    <3>1. station' = [station EXCEPT !.events = <<>>, !.bits = @ \cup {"fail"},
                                     !.failures = @ + 1]
      BY <1>6, <2>1, <2>4 DEF OnStationDisconnected, StationFailure
    <3>2. station' \in Stations
      <4>1. station.bits \cup {"fail"} \in SUBSET {"connected", "fail"} /\ station.failures + 1 \in Nat
        BY <2>2 DEF Stations
      <4>2. <<>> \in Backlogs
        BY DEF Backlogs
      <4> QED
        BY <2>2, <3>1, <4>1, <4>2 DEF Stations
    <3>3. station.s_retry_num = MaxRetry
      BY <2>2, <2>4 DEF StationMayRetry, Stations
    <3> QED
      BY <2>1, <2>2, <3>1, <3>2, <3>3 DEF StationInv, Stations, Retries, Caught, Pending, Outside
  <2> QED
    BY <2>3, <2>4
<1>7. CASE OnStationGotIp
  <2>1. /\ Tail(station.events) \in {<<>>, <<"STA_DISCONNECTED">>} /\ "fail" \notin station.bits
        /\ Tail(station.events) # <<>> => station.radio = "idle"
        /\ station.stage = "waiting"
    BY <1>7, StationHandles DEF OnStationGotIp, StationEvent
  <2>2. station' = [station EXCEPT !.events = Tail(@), !.bits = @ \cup {"connected"},
                                   !.s_retry_num = 0, !.failures = 0]
    BY <1>7 DEF OnStationGotIp
  <2>3. station' \in Stations
    BY <2>1, <2>2 DEF StationInv, Stations, Backlogs
  <2>4. Retries' /\ Outside'
    BY <2>1, <2>2, <2>3 DEF StationInv, Stations, Retries, Outside
  <2>5. Caught'
    <3>1. station'.events = Tail(station.events) /\ station'.radio = station.radio
      BY <2>2 DEF StationInv, Stations
    <3>2. station.radio \in {"idle", "connecting", "addressed"}
      BY DEF StationInv, Stations
    <3>3. <<>> \in Pending[station.radio]
      BY <3>2 DEF Pending
    <3>4. <<"STA_DISCONNECTED">> \in Pending["idle"]
      BY DEF Pending
    <3> QED
      BY <2>1, <3>1, <3>3, <3>4 DEF Caught
  <2> QED
    BY <2>3, <2>4, <2>5 DEF StationInv
<1>8. CASE ApGivesAddress
  <2>1. station.radio = "connecting" /\ station.events = <<>> /\ station.stage # "init"
    BY <1>8 DEF ApGivesAddress, ApDoes, StationInv, Caught, Pending, Outside
  <2>2. station' = [station EXCEPT !.radio = "addressed",
                      !.events = IF StationUp THEN <<>> ELSE <<"STA_GOT_IP">>]
    BY <1>8, <2>1, Events DEF ApGivesAddress, ApDoes
  <2>3. station' \in Stations
    BY <2>2 DEF StationInv, Stations, Backlogs
  <2>4. Retries' /\ Outside'
    BY <2>1, <2>2, <2>3 DEF StationInv, Stations, Retries, Outside, StationUp
  <2>5. Caught'
    BY <2>2 DEF StationInv, Stations, Caught, Pending
  <2> QED
    BY <2>3, <2>4, <2>5 DEF StationInv
<1>9. CASE ApFails
  <2>1. /\ station.radio \in {"connecting", "addressed"} /\ station.stage # "init"
        /\ station.events \in {<<>>, <<"STA_GOT_IP">>}
        /\ StationUp => station.events = <<>>
    BY <1>9 DEF ApFails, ApDoes, StationInv, Caught, Pending, Outside, StationUp
  <2>2. station' = [station EXCEPT !.radio = "idle",
                      !.events = IF StationUp THEN @ ELSE @ \o <<"STA_DISCONNECTED">>]
    BY <1>9 DEF ApFails, ApDoes
  <2>3. station.events \o <<"STA_DISCONNECTED">> \in
          {<<"STA_DISCONNECTED">>, <<"STA_GOT_IP", "STA_DISCONNECTED">>}
    <3>1. \A e, f : <<>> \o <<e>> = <<e>> /\ <<e>> \o <<f>> = <<e, f>>
      BY Events
    <3> QED
      BY <2>1, <3>1
  <2>4. station'.events \in {<<>>, <<"STA_DISCONNECTED">>, <<"STA_GOT_IP", "STA_DISCONNECTED">>}
    BY <2>1, <2>2, <2>3 DEF StationInv, Stations, Backlogs
  <2>5. station' \in Stations
    BY <2>2, <2>4 DEF StationInv, Stations, Backlogs
  <2>6. Retries' /\ Outside'
    BY <2>1, <2>2, <2>5 DEF StationInv, Stations, Retries, Outside, StationUp
  <2>7. Caught'
    BY <2>2, <2>4 DEF StationInv, Stations, Caught, Pending
  <2> QED
    BY <2>5, <2>6, <2>7 DEF StationInv
<1> QED
  BY <1>1, <1>2, <1>3, <1>5, <1>6, <1>7, <1>8, <1>9
  DEF StationNext, StationMain, StationHandler, AccessPoint

\* What the invariant says of the types.
LEMMA StationTyped == StationInv => StationTypeOK
<1> SUFFICES ASSUME StationInv PROVE StationTypeOK
  OBVIOUS
<1>1. station \in Stations /\ station.events \in Pending[station.radio]
  BY DEF StationInv, Caught
<1>2. station.events \in Backlogs
  BY <1>1 DEF Stations
<1>3. Len(station.events) <= 2
  <2>1. Len(<<>>) <= 2 /\ Len(<<"STA_START">>) <= 2 /\ Len(<<"STA_DISCONNECTED">>) <= 2
        /\ Len(<<"STA_GOT_IP">>) <= 2 /\ Len(<<"STA_GOT_IP", "STA_DISCONNECTED">>) <= 2
    OBVIOUS
  <2> QED
    BY <1>2, <2>1, Zenon DEF Backlogs
<1>4. station.s_retry_num \in 0..MaxRetry /\ station.failures \in 0..MaxRetry + 1
  BY RetryAssumption DEF StationInv, Stations, Retries
<1> QED
  BY <1>1, <1>3, <1>4 DEF Stations, StationTypeOK

\* Only the last failure ends a start-up.
LEMMA StationGivesUp ==
  ASSUME StationInv, StationNext, station.stage = "waiting", station'.stage = "init"
  PROVE  station.failures = MaxRetry + 1
<1>1. CASE StationAborts
  BY <1>1 DEF StationAborts, StationInv, Retries
<1>2. CASE ~StationAborts
  <2>1. ~(WifiStart \/ StationStarted)
    BY DEF WifiStart, StationStarted, StationFresh, StationInv, Stations
  <2>2. \/ station'.stage = station.stage
        \/ StationMain
    BY DEF StationNext, StationHandler, AccessPoint, OnStationStart, OnStationDisconnected, OnStationGotIp,
           StationConnects, ApGivesAddress, ApFails, ApDoes, StationInv, Stations
  <2> QED
    BY <1>2, <2>1, <2>2 DEF StationMain
<1> QED
  BY <1>1, <1>2

=============================================================================
