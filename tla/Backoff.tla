------------------------------- MODULE Backoff -------------------------------
(***************************************************************************)
(* The waits between the attempts of one call: retryDelay                  *)
(* (remote/resilience.go) under the policy that normalizedConfig           *)
(* (remote/config.go) makes of the settings.  A time.Duration is an        *)
(* integer of Width bits (64 in Go) that wraps around; the unit is 10 ms.  *)
(* Names are this module's own, so that it can be extended beside UseCases.*)
(***************************************************************************)
EXTENDS RetryPolicy

CONSTANTS Width,       \* bits of a duration
          MaxSetting   \* bound: longest duration a policy is set to

\* The least positive number that is not a duration.
TooLong == 2^(Width - 1)

\* What a sum of two durations wraps to.
Wrap(d) == IF d < TooLong THEN d ELSE d - 2 * TooLong

\* A duration doubled must still be one: with 64 bits, a policy is set to less
\* than 146 years.
ASSUME BackoffSettings == /\ Width \in Nat \ {0}
                          /\ TooLong \in Nat
                          /\ MaxSetting \in Nat
                          /\ 50 <= MaxSetting
                          /\ 2 * MaxSetting < TooLong
                          /\ MaxAttempts > 1   \* or there is nothing to wait for

Settings == -1..MaxSetting

\* normalizedConfig: defaults for what is not set, then a maximum that is not
\* below the initial backoff.
Normalized(initial, max) ==
  LET i == IF initial <= 0 THEN 5 ELSE initial
      m == IF max <= 0 THEN 50 ELSE max
  IN [initial |-> i, max |-> IF m < i THEN i ELSE m]
-----------------------------------------------------------------------------
VARIABLES policy,   \* InitialBackoff and MaxBackoff of the binding
          failed,   \* the attempt that has failed
          turn,     \* loop counter of retryDelay
          delay,    \* its result so far
          before,   \* the wait before the attempt that has failed, or 0
          stage     \* "double" in retryDelay, "wait" in waitRetry

backoffVars == <<policy, failed, turn, delay, before, stage>>

BackoffTypeOK == /\ policy \in [initial : 1..MaxSetting, max : 1..MaxSetting]
                 /\ failed \in 1..(MaxAttempts - 1)
                 /\ turn \in 1..failed
                 /\ delay \in (-TooLong)..(TooLong - 1)
                 /\ before \in (-TooLong)..(TooLong - 1)
                 /\ stage \in {"double", "wait"}

BackoffInit == /\ \E i, m \in Settings : policy = Normalized(i, m)
               /\ failed = 1
               /\ turn = 1
               /\ delay = policy.initial
               /\ before = 0
               /\ stage = "double"

\* Faulty variant: the maximum stops the doubling but does not cut its result.
CappedLate(d) == d

Capped(d) == IF d > policy.max THEN policy.max ELSE d

\* Faulty variant: the delay doubles with every attempt, whatever the maximum.
DoubleForever == /\ stage = "double"
                 /\ turn < failed
                 /\ delay' = Wrap(2 * delay)
                 /\ turn' = turn + 1
                 /\ UNCHANGED <<policy, failed, before, stage>>

\* One turn of the loop.
Double == /\ stage = "double"
          /\ turn < failed /\ delay < policy.max
          /\ delay' = Capped(Wrap(2 * delay))
          /\ turn' = turn + 1
          /\ UNCHANGED <<policy, failed, before, stage>>

\* The loop ends, at the attempt or at the maximum.
Wait == /\ stage = "double"
        /\ ~(turn < failed /\ delay < policy.max)
        /\ stage' = "wait"
        /\ UNCHANGED <<policy, failed, turn, delay, before>>

\* Faulty variant: the call waits after its last attempt as well.
FailOneMore == /\ stage = "wait"
               /\ IF failed < MaxAttempts
                  THEN failed' = failed + 1 /\ before' = delay
                  ELSE failed' = 1 /\ before' = 0
               /\ turn' = 1
               /\ delay' = policy.initial
               /\ stage' = "double"
               /\ UNCHANGED policy

\* The call waits for so long and its next attempt fails too; after the last one
\* it returns, and the next call starts from the first.
Fail == /\ stage = "wait"
        /\ IF failed + 1 < MaxAttempts
           THEN failed' = failed + 1 /\ before' = delay
           ELSE failed' = 1 /\ before' = 0
        /\ turn' = 1
        /\ delay' = policy.initial
        /\ stage' = "double"
        /\ UNCHANGED policy

BackoffNext == Double \/ Wait \/ Fail

BackoffSpec == BackoffInit /\ [][BackoffNext]_backoffVars
-----------------------------------------------------------------------------
\* No wait is shorter than the initial backoff, longer than the maximum, or, by a
\* sum that wrapped around, negative.
DelayWithinPolicy ==
  stage = "wait" => policy.initial <= delay /\ delay <= policy.max

\* Each attempt is waited for at least as long as the one before, though every
\* delay is computed anew.
BackoffNeverShrinks == stage = "wait" => before <= delay
=============================================================================
