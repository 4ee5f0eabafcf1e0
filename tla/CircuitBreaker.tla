--------------------------- MODULE CircuitBreaker ---------------------------
(***************************************************************************)
(* The circuit breaker of one remote binding (remote/resilience.go).       *)
(* Its mutex makes allow and observe atomic, but the instant each of them  *)
(* is given is read by the caller before the lock is taken, so `now' is a  *)
(* parameter here and may be older than the clock of the caller.           *)
(***************************************************************************)
EXTENDS Integers

CONSTANTS FailureThresholdSetting,  \* Config.CircuitBreaker.FailureThreshold
          OpenDurationSetting       \* Config.CircuitBreaker.OpenDuration, seconds

ASSUME BreakerSettings == /\ FailureThresholdSetting \in Int
                          /\ OpenDurationSetting \in Int

\* The policy normalizedConfig leaves in force: a setting that is not positive
\* is replaced by its default.
FailureThreshold == IF FailureThresholdSetting <= 0 THEN 5
                                                    ELSE FailureThresholdSetting
OpenDuration == IF OpenDurationSetting <= 0 THEN 5 ELSE OpenDurationSetting

VARIABLES failures,     \* consecutive failures, at most the threshold
          openedUntil,  \* end of the open window; NeverOpened when closed
          probeActive   \* a half-open probe holds the only slot

breaker == <<failures, openedUntil, probeActive>>

NeverOpened == 0  \* the zero time.Time; every instant read is later

BreakerTypeOK == /\ failures \in Nat
                 /\ openedUntil \in Nat
                 /\ probeActive \in BOOLEAN

BreakerInit == /\ failures = 0
               /\ openedUntil = NeverOpened
               /\ probeActive = FALSE

Closed == openedUntil = NeverOpened

\* allow answers FALSE and changes nothing.
Denies(now) == ~Closed /\ (now < openedUntil \/ probeActive)

\* Faulty variant: a second probe is admitted while one is out.
AllowEveryProbe(now) ==
  \/ Closed /\ UNCHANGED breaker
  \/ /\ ~Closed
     /\ now >= openedUntil
     /\ probeActive' = TRUE
     /\ UNCHANGED <<failures, openedUntil>>

\* allow answers TRUE: freely when closed, and to one probe when half open.
Allow(now) ==
  \/ Closed /\ UNCHANGED breaker
  \/ /\ ~Closed
     /\ now >= openedUntil
     /\ ~probeActive
     /\ probeActive' = TRUE
     /\ UNCHANGED <<failures, openedUntil>>
-----------------------------------------------------------------------------
(* observe.  Any report that is not a failure closes the circuit, whoever  *)
(* makes it; any failure while a probe is out opens it again.              *)

Close == /\ failures' = 0
         /\ openedUntil' = NeverOpened
         /\ probeActive' = FALSE

OpenAt(now) == /\ failures' = FailureThreshold
               /\ openedUntil' = now + OpenDuration
               /\ probeActive' = FALSE

Count == failures' = failures + 1 /\ UNCHANGED <<openedUntil, probeActive>>

Trips == probeActive \/ failures + 1 >= FailureThreshold

\* Faulty variants: tripping keeps counting; tripping keeps the probe slot; an
\* open window is extended from its own end; a success takes one failure back.
ObserveCountsOn(now, failed) ==
  \/ ~failed /\ Close
  \/ /\ failed /\ Trips
     /\ failures' = failures + 1
     /\ openedUntil' = now + OpenDuration
     /\ probeActive' = FALSE
  \/ failed /\ ~Trips /\ Count

ObserveKeepsProbe(now, failed) ==
  \/ ~failed /\ Close
  \/ /\ failed /\ Trips
     /\ failures' = FailureThreshold
     /\ openedUntil' = now + OpenDuration
     /\ UNCHANGED probeActive
  \/ failed /\ ~Trips /\ Count

ObserveExtends(now, failed) ==
  \/ ~failed /\ Close
  \/ failed /\ Trips /\ OpenAt(IF Closed THEN now ELSE openedUntil)
  \/ failed /\ ~Trips /\ Count

ObserveTakesBack(now, failed) ==
  \/ /\ ~failed
     /\ failures' = failures - 1
     /\ openedUntil' = NeverOpened
     /\ probeActive' = FALSE
  \/ failed /\ Trips /\ OpenAt(now)
  \/ failed /\ ~Trips /\ Count

Observe(now, failed) ==
  \/ ~failed /\ Close
  \/ failed /\ Trips /\ OpenAt(now)
  \/ failed /\ ~Trips /\ Count
=============================================================================
