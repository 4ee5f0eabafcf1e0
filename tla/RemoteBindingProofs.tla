------------------------- MODULE RemoteBindingProofs -------------------------
(***************************************************************************)
(* Proofs about RemoteCall, for any set of callers and routes, any         *)
(* settings and any StableFrom; then about RemoteBinding: it implements    *)
(* the two modules it is made of, so that what is proved of either holds   *)
(* of a binding, and its requests carry the tokens of their routes.        *)
(***************************************************************************)
EXTENDS RemoteBinding, FiniteSetTheorems, TLAPS
-----------------------------------------------------------------------------
(* A call and its circuit breaker, on their own                            *)

\* No instant read for the breaker lies in the future.
SeenPast == \A c \in Calls : seen[c] <= clock

\* What a call has sent and what was carried out are attempts it has made.
AttemptsPast ==
  /\ \A c \in Calls : /\ attempt[c] <= Attempts(route[c])
                      /\ executed[c] \subseteq 1..attempt[c]
  /\ \A m \in wire : m.attempt \in 1..attempt[m.call]

\* A call about to send is on a new attempt, a call that backs off has one
\* left, and a call not yet admitted has made none.
StageCoherent ==
  \A c \in Calls :
    /\ pc[c] \in {"encode", "allow"} \/ result[c] = "refused" => attempt[c] = 0
    /\ pc[c] \in Admitted => attempt[c] > 0
    /\ pc[c] = "backoff" => attempt[c] < Attempts(route[c])
    /\ pc[c] = "perform" => /\ attempt[c] \notin executed[c]
                            /\ \A m \in wire : m.call = c => m.attempt < attempt[c]
    /\ pc[c] # "idle" => result[c] = "none" /\ route[c] # NoRoute
    /\ route[c] = NoRoute => attempt[c] = 0

\* A request on the wire has not been carried out; a 2xx answer tells that it
\* has, and so does an "ok" on its way to the caller.
AnswersTrue ==
  /\ \A m \in wire : /\ m.status = "request" => m.attempt \notin executed[m.call]
                     /\ m.status = "ok" => m.attempt \in executed[m.call]
  /\ \A c \in Calls : outcome[c] = "ok" => executed[c] # {} /\ pc[c] = "observe"

\* At most one message of an attempt is in flight.
OneMessage == \A m, n \in wire :
                m.call = n.call /\ m.attempt = n.attempt => m = n

IInv == /\ TypeOK
        /\ SeenPast
        /\ CircuitCoherent
        /\ ProbeSlotHeld
        /\ OpenWindowBounded
        /\ AttemptsPast
        /\ StageCoherent
        /\ AnswersTrue
        /\ OneMessage
-----------------------------------------------------------------------------
(* Lemmas on the settings                                                  *)

\* normalizedConfig leaves positive settings.
LEMMA PolicyPositive ==
  /\ FailureThreshold \in Nat \ {0}
  /\ OpenDuration \in Nat \ {0}
  /\ MaxAttempts \in Nat \ {0}
BY BreakerSettings, RetrySettings
   DEF FailureThreshold, OpenDuration, MaxAttempts

\* Every route has at least one and at most MaxAttempts attempts.
LEMMA AttemptsBounded == \A r : Attempts(r) \in 1..MaxAttempts
<1>1. TAKE r
<1>2. CASE Retryable(r)
  BY <1>2, PolicyPositive DEF Attempts
<1>3. CASE ~Retryable(r)
  BY <1>3, PolicyPositive DEF Attempts
<1> QED
  BY <1>2, <1>3

\* A call that has asked for nothing has one attempt.
LEMMA NoRouteOnce == Attempts(NoRoute) = 1 /\ NoRoute \notin Routes
BY CallSettings DEF Attempts, NoRoute, Retryable
-----------------------------------------------------------------------------
(* Type correctness                                                        *)

\* A binding opens with its variables typed.
LEMMA InitTypeOK == Init => TypeOK
<1> SUFFICES ASSUME Init PROVE TypeOK
  OBVIOUS
<1>1. BreakerTypeOK
  BY DEF Init, BreakerInit, BreakerTypeOK, NeverOpened
<1>2. executed \in [Calls -> SUBSET Nat]
  BY DEF Init
<1> QED
  BY <1>1, <1>2 DEF Init, TypeOK, Stages, Results

\* The steps of the breaker keep its types, whatever instant they are given.
LEMMA BreakerTypeStep ==
  ASSUME BreakerTypeOK, NEW now \in Nat, NEW failed \in BOOLEAN,
         Allow(now) \/ Observe(now, failed) \/ UNCHANGED breaker
  PROVE  BreakerTypeOK'
<1>1. CASE Allow(now) \/ UNCHANGED breaker
  BY <1>1 DEF BreakerTypeOK, Allow, breaker
<1>2. CASE Observe(now, failed)
  <2>1. now + OpenDuration \in Nat /\ FailureThreshold \in Nat
    BY PolicyPositive
  <2>2. failures' \in Nat /\ openedUntil' \in Nat
    BY <1>2, <2>1 DEF BreakerTypeOK, Observe, Close, OpenAt, Count, NeverOpened
  <2>3. probeActive' \in BOOLEAN
    BY <1>2, Zenon DEF BreakerTypeOK, Observe, Close, OpenAt, Count
  <2> QED
    BY <2>2, <2>3 DEF BreakerTypeOK
<1> QED
  BY <1>1, <1>2

\* No step of a call, of the network or of the clock changes a type.
LEMMA TypeOKStep == TypeOK /\ [Next]_vars => TypeOK'
<1> SUFFICES ASSUME TypeOK, [Next]_vars PROVE TypeOK'
  OBVIOUS
<1> USE PolicyPositive DEF TypeOK
<1>1. ASSUME NEW c \in Calls, NEW r \in Routes, Start(c, r) PROVE TypeOK'
  BY <1>1 DEF Start, Goto, Stages, breaker, BreakerTypeOK, Results
<1>2. ASSUME NEW c \in Calls, EncodeFails(c) PROVE TypeOK'
  BY <1>2 DEF EncodeFails, Return, Goto, Stages, breaker, BreakerTypeOK, Results
<1>3. ASSUME NEW c \in Calls, ReadClock(c) PROVE TypeOK'
  BY <1>3 DEF ReadClock, Goto, Stages, breaker, BreakerTypeOK
<1>4. ASSUME NEW c \in Calls, Admit(c) PROVE TypeOK'
  <2>1. BreakerTypeOK'
    BY <1>4, BreakerTypeStep DEF Admit
  <2> QED
    BY <1>4, <2>1 DEF Admit, Goto, Stages
<1>5. ASSUME NEW c \in Calls, Refuse(c) PROVE TypeOK'
  BY <1>5 DEF Refuse, Return, Goto, Stages, breaker, BreakerTypeOK, Results
<1>6. ASSUME NEW c \in Calls, Send(c) PROVE TypeOK'
  <2>1. Awaited(c, "request") \in Messages
    BY DEF Awaited, Messages
  <2> QED
    BY <1>6, <2>1 DEF Send, Goto, Stages, breaker, BreakerTypeOK
<1>7. ASSUME NEW c \in Calls, NEW o \in Outcomes, Conclude(c, o),
             wire' \subseteq wire
      PROVE  TypeOK'
  BY <1>7 DEF Conclude, Goto, Stages, breaker, BreakerTypeOK
<1>8. ASSUME NEW c \in Calls, RetryTimer(c) PROVE TypeOK'
  BY <1>8 DEF RetryTimer, Goto, Stages, breaker, BreakerTypeOK
<1>9. ASSUME NEW c \in Calls, CancelBackoff(c) PROVE TypeOK'
  BY <1>9 DEF CancelBackoff, Goto, Stages, breaker, BreakerTypeOK
<1>10. ASSUME NEW c \in Calls, Report(c) \/ ReportCancelled(c) PROVE TypeOK'
  <2>1. /\ seen[c] \in Nat /\ Failed(outcome[c]) \in BOOLEAN
        /\ FALSE \in BOOLEAN
    BY DEF Failed
  <2>2. Observe(seen[c], Failed(outcome[c])) \/ Observe(seen[c], FALSE)
    BY <1>10 DEF Report, ReportCancelled
  <2>3. BreakerTypeOK'
    BY <2>1, <2>2, BreakerTypeStep
  <2>4. PICK res \in Results : Return(c, res)
    BY <1>10 DEF Report, ReportCancelled, Results
  <2> QED
    BY <2>4, <2>3 DEF Return, Goto, Stages
<1>11. ASSUME NEW m \in wire, Respond(m) \/ Lose(m) PROVE TypeOK'
  BY <1>11 DEF Respond, Lose, Messages, breaker, BreakerTypeOK, callVars
<1>12. CASE Tick
  BY <1>12 DEF Tick, breaker, BreakerTypeOK, callVars
<1>13. CASE UNCHANGED vars
  BY <1>13 DEF vars, breaker, BreakerTypeOK, callVars
<1> QED
  BY <1>1, <1>2, <1>3, <1>4, <1>5, <1>6, <1>7, <1>8, <1>9, <1>10, <1>11, <1>12,
     <1>13
     DEF Next, Step, Network, SendFails, Receive, GiveUp, Outcomes, Answers

\* Every variable keeps its type, whatever the callers, the network and the
\* remote do.
THEOREM TypeCorrect == Spec => []TypeOK
BY InitTypeOK, TypeOKStep, PTL DEF Spec
-----------------------------------------------------------------------------
(* The inductive invariant                                                 *)

\* A new binding is closed, has no calls and nothing on the wire.
LEMMA InitIInv == Init => IInv
<1> SUFFICES ASSUME Init PROVE IInv
  OBVIOUS
<1>1. TypeOK
  BY InitTypeOK
<1>2. SeenPast /\ ProbeSlotHeld /\ OneMessage
  BY DEF Init, BreakerInit, SeenPast, ProbeSlotHeld, OneMessage
<1>3. CircuitCoherent /\ OpenWindowBounded
  BY PolicyPositive
     DEF Init, BreakerInit, CircuitCoherent, OpenWindowBounded, Closed, NeverOpened
<1>4. AttemptsPast
  BY NoRouteOnce DEF Init, AttemptsPast
<1>5. StageCoherent /\ AnswersTrue
  BY DEF Init, StageCoherent, AnswersTrue, Admitted
<1> QED
  BY <1>1, <1>2, <1>3, <1>4, <1>5 DEF IInv

\* What the breaker's own steps keep: its fields agree, and an instant that is
\* not in the future cannot stretch the open window.
LEMMA AllowKeeps ==
  ASSUME BreakerTypeOK, NEW now \in Nat, CircuitCoherent, Allow(now)
  PROVE  CircuitCoherent' /\ openedUntil' = openedUntil
BY DEF Allow, CircuitCoherent, Closed, breaker, NeverOpened

\* observe, whoever calls it with an instant that has passed, keeps the fields of
\* the breaker in agreement and the window bounded.
LEMMA ObserveKeeps ==
  ASSUME BreakerTypeOK, CircuitCoherent, OpenWindowBounded, clock \in Nat,
         NEW now \in Nat, now <= clock, NEW failed \in BOOLEAN,
         Observe(now, failed), clock' = clock
  PROVE  CircuitCoherent' /\ OpenWindowBounded'
<1> USE PolicyPositive DEF BreakerTypeOK
<1>1. CASE ~failed
  BY <1>1 DEF Observe, Close, CircuitCoherent, OpenWindowBounded, Closed, NeverOpened
<1>2. CASE failed /\ Trips
  BY <1>2 DEF Observe, OpenAt, CircuitCoherent, OpenWindowBounded, Closed,
              NeverOpened
<1>3. CASE failed /\ ~Trips
  BY <1>3 DEF Observe, Count, CircuitCoherent, OpenWindowBounded, Closed,
              NeverOpened, Trips
<1> QED
  BY <1>1, <1>2, <1>3

\* A call that returns leaves the rest of the invariant as it was: it keeps
\* nothing on the wire to answer for.
LEMMA ReturnKeeps ==
  ASSUME IInv, TypeOK', NEW c \in Calls, NEW res \in Results, Return(c, res),
         pc[c] # "idle",
         res = "refused" => attempt[c] = 0
  PROVE  SeenPast' /\ AttemptsPast' /\ StageCoherent' /\ AnswersTrue'
           /\ OneMessage'
<1> USE DEF IInv, TypeOK, Return, Goto
<1>1. SeenPast'
  BY DEF SeenPast
<1>2. AttemptsPast'
  BY DEF AttemptsPast
<1>3. StageCoherent'
  BY DEF StageCoherent, Admitted
<1>4. AnswersTrue'
  BY DEF AnswersTrue
<1>5. OneMessage'
  BY DEF OneMessage
<1> QED
  BY <1>1, <1>2, <1>3, <1>4, <1>5

\* When perform comes back without "ok", or with an "ok" that is true, the call
\* reports or backs off and the invariant holds again.
LEMMA ConcludeKeeps ==
  ASSUME IInv, TypeOK', NEW c \in Calls, NEW o \in Outcomes, Conclude(c, o),
         pc[c] \in {"perform", "await"}, wire' \subseteq wire,
         o = "ok" => executed[c] # {}
  PROVE  IInv'
<1> USE DEF IInv, TypeOK, Conclude, Goto
<1>1. SeenPast'
  BY DEF SeenPast
<1>2. CircuitCoherent' /\ OpenWindowBounded'
  BY DEF CircuitCoherent, OpenWindowBounded, Closed, breaker
<1>3. ProbeSlotHeld'
  BY DEF ProbeSlotHeld, Admitted, breaker
<1>4. AttemptsPast'
  BY DEF AttemptsPast
<1>5. StageCoherent'
  BY DEF StageCoherent, Admitted
<1>6. AnswersTrue'
  BY DEF AnswersTrue
<1>7. OneMessage'
  BY DEF OneMessage
<1> QED
  BY <1>1, <1>2, <1>3, <1>4, <1>5, <1>6, <1>7

\* Every step keeps the strengthened invariant.
LEMMA IInvStep == IInv /\ [Next]_vars => IInv'
<1> SUFFICES ASSUME IInv, [Next]_vars PROVE IInv'
  OBVIOUS
<1>0. TypeOK'
  BY TypeOKStep DEF IInv
<1>1. ASSUME NEW c \in Calls, NEW r \in Routes, Start(c, r) PROVE IInv'
  <2> USE <1>1 DEF IInv, TypeOK, Start, Goto
  <2>1. SeenPast' /\ OneMessage'
    BY DEF SeenPast, OneMessage
  <2>2. CircuitCoherent' /\ OpenWindowBounded' /\ ProbeSlotHeld'
    BY DEF CircuitCoherent, OpenWindowBounded, ProbeSlotHeld, Admitted, Closed,
           breaker
  <2>3. AttemptsPast'
    BY AttemptsBounded DEF AttemptsPast, Messages
  <2>4. StageCoherent'
    BY NoRouteOnce DEF StageCoherent, Admitted
  <2>5. AnswersTrue'
    BY DEF AnswersTrue, StageCoherent, AttemptsPast
  <2> QED
    BY <1>0, <2>1, <2>2, <2>3, <2>4, <2>5
<1>2. ASSUME NEW c \in Calls, EncodeFails(c) \/ Refuse(c) PROVE IInv'
  <2>1. PICK res \in Results : Return(c, res) /\ (res = "refused" => attempt[c] = 0)
    BY <1>2 DEF EncodeFails, Refuse, Results, IInv, StageCoherent
  <2>2. pc[c] \in {"encode", "allow"} /\ UNCHANGED breaker
    BY <1>2 DEF EncodeFails, Refuse
  <2>3. CircuitCoherent' /\ OpenWindowBounded'
    BY <2>1, <2>2 DEF IInv, CircuitCoherent, OpenWindowBounded, Closed, breaker,
                      Return
  <2>4. ProbeSlotHeld'
    BY <2>1, <2>2 DEF IInv, TypeOK, ProbeSlotHeld, Admitted, breaker, Return, Goto
  <2> QED
    BY <1>0, <2>1, <2>2, <2>3, <2>4, ReturnKeeps DEF IInv
<1>3. ASSUME NEW c \in Calls, ReadClock(c) PROVE IInv'
  <2> USE <1>3 DEF IInv, TypeOK, ReadClock, Goto
  <2>1. SeenPast' /\ OneMessage'
    BY DEF SeenPast, OneMessage
  <2>2. CircuitCoherent' /\ OpenWindowBounded' /\ ProbeSlotHeld'
    BY DEF CircuitCoherent, OpenWindowBounded, ProbeSlotHeld, Admitted, Closed,
           breaker
  <2>3. AttemptsPast' /\ AnswersTrue'
    BY DEF AttemptsPast, AnswersTrue
  <2>4. StageCoherent'
    BY DEF StageCoherent, Admitted
  <2> QED
    BY <1>0, <2>1, <2>2, <2>3, <2>4
<1>4. ASSUME NEW c \in Calls, Admit(c) PROVE IInv'
  <2> USE <1>4 DEF IInv, TypeOK, Admit, Goto
  <2>1. SeenPast' /\ OneMessage'
    BY DEF SeenPast, OneMessage
  <2>2. CircuitCoherent' /\ OpenWindowBounded'
    BY AllowKeeps DEF OpenWindowBounded
  <2>3. ProbeSlotHeld'
    BY DEF ProbeSlotHeld, Admitted
  <2>4. attempt[c] = 0
    BY DEF StageCoherent
  <2>5. AttemptsPast' /\ AnswersTrue'
    BY <2>4, AttemptsBounded DEF AttemptsPast, AnswersTrue, Messages
  <2>6. StageCoherent'
    BY <2>4 DEF StageCoherent, Admitted, AttemptsPast, Messages
  <2> QED
    BY <1>0, <2>1, <2>2, <2>3, <2>5, <2>6
<1>5. ASSUME NEW c \in Calls, Send(c) PROVE IInv'
  <2> USE <1>5 DEF IInv, TypeOK, Send, Goto
  <2>1. SeenPast'
    BY DEF SeenPast
  <2>2. CircuitCoherent' /\ OpenWindowBounded' /\ ProbeSlotHeld'
    BY DEF CircuitCoherent, OpenWindowBounded, ProbeSlotHeld, Admitted, Closed,
           breaker
  <2>3. AttemptsPast'
    BY DEF AttemptsPast, Awaited, StageCoherent, Admitted
  <2>4. StageCoherent'
    BY DEF StageCoherent, Admitted, Awaited
  <2>5. AnswersTrue'
    BY DEF AnswersTrue, StageCoherent, Awaited
  <2>6. OneMessage'
    BY DEF OneMessage, StageCoherent, Awaited
  <2> QED
    BY <1>0, <2>1, <2>2, <2>3, <2>4, <2>5, <2>6
<1>6. ASSUME NEW c \in Calls, SendFails(c) \/ GiveUp(c) PROVE IInv'
  <2>1. Conclude(c, "unreachable") /\ pc[c] \in {"perform", "await"}
        /\ wire' \subseteq wire
    BY <1>6 DEF SendFails, GiveUp
  <2> QED
    BY <1>0, <2>1, ConcludeKeeps DEF Outcomes
<1>7. ASSUME NEW c \in Calls, Receive(c) PROVE IInv'
  <2>1. PICK status \in Answers : /\ Awaited(c, status) \in wire
                                  /\ wire' = wire \ {Awaited(c, status)}
                                  /\ Conclude(c, status)
    BY <1>7 DEF Receive
  <2>2. status = "ok" => executed[c] # {}
    BY <2>1 DEF IInv, AnswersTrue, Awaited
  <2> QED
    BY <1>0, <1>7, <2>1, <2>2, ConcludeKeeps DEF Outcomes, Receive
<1>8. ASSUME NEW c \in Calls, RetryTimer(c) PROVE IInv'
  <2> USE <1>8 DEF IInv, TypeOK, RetryTimer, Goto
  <2>1. SeenPast' /\ OneMessage'
    BY DEF SeenPast, OneMessage
  <2>2. CircuitCoherent' /\ OpenWindowBounded' /\ ProbeSlotHeld'
    BY DEF CircuitCoherent, OpenWindowBounded, ProbeSlotHeld, Admitted, Closed,
           breaker
  <2>3. attempt[c] < Attempts(route[c]) /\ Attempts(route[c]) \in Nat
    BY AttemptsBounded DEF StageCoherent
  <2>4. AttemptsPast'
    BY <2>3 DEF AttemptsPast, Messages
  <2>5. AnswersTrue'
    BY DEF AnswersTrue
  <2>6. StageCoherent'
    BY <2>3 DEF StageCoherent, Admitted, AttemptsPast, Messages
  <2> QED
    BY <1>0, <2>1, <2>2, <2>4, <2>5, <2>6
<1>9. ASSUME NEW c \in Calls, CancelBackoff(c) PROVE IInv'
  <2> USE <1>9 DEF IInv, TypeOK, CancelBackoff, Goto
  <2>1. SeenPast' /\ OneMessage'
    BY DEF SeenPast, OneMessage
  <2>2. CircuitCoherent' /\ OpenWindowBounded' /\ ProbeSlotHeld'
    BY DEF CircuitCoherent, OpenWindowBounded, ProbeSlotHeld, Admitted, Closed,
           breaker
  <2>3. AttemptsPast' /\ AnswersTrue'
    BY DEF AttemptsPast, AnswersTrue
  <2>4. StageCoherent'
    BY DEF StageCoherent, Admitted
  <2> QED
    BY <1>0, <2>1, <2>2, <2>3, <2>4
<1>10. ASSUME NEW c \in Calls, Report(c) \/ ReportCancelled(c) PROVE IInv'
  <2>1. PICK res \in Results \ {"refused"}, failed \in BOOLEAN :
          Return(c, res) /\ Observe(seen[c], failed)
    <3>1. Failed(outcome[c]) \in BOOLEAN /\ FALSE \in BOOLEAN
      BY DEF Failed
    <3> QED
      BY <1>10, <3>1 DEF Report, ReportCancelled, Results
  <2>2. pc[c] # "idle"
    BY <1>10 DEF Report, ReportCancelled
  <2>3. clock' = clock /\ seen[c] \in Nat /\ seen[c] <= clock
    BY <2>1 DEF Return, IInv, TypeOK, SeenPast
  <2>4. CircuitCoherent' /\ OpenWindowBounded'
    BY <2>1, <2>3, ObserveKeeps DEF IInv, TypeOK
  <2>5. ~probeActive'
    BY <2>1, Zenon DEF Observe, Close, OpenAt, Count, Trips
  <2>6. ProbeSlotHeld'
    BY <2>5 DEF ProbeSlotHeld
  <2> QED
    BY <1>0, <2>1, <2>2, <2>4, <2>6, ReturnKeeps DEF IInv
<1>11. ASSUME NEW m \in wire, Respond(m) PROVE IInv'
  <2> USE DEF IInv, TypeOK, callVars
  <2>1. PICK status \in Answers, done \in BOOLEAN :
          /\ status \in {"ok", "garbled"} => done
          /\ wire' = (wire \ {m}) \cup
                       IF Waits(m) THEN {[m EXCEPT !.status = status]} ELSE {}
          /\ executed' = IF done
                           THEN [executed EXCEPT ![m.call] = @ \cup {m.attempt}]
                           ELSE executed
    BY <1>11 DEF Respond
  <2>2. m.status = "request" /\ UNCHANGED <<breaker, clock, callVars>>
    BY <1>11 DEF Respond
  <2> HIDE DEF callVars
  <2>3. SeenPast' /\ CircuitCoherent' /\ OpenWindowBounded' /\ ProbeSlotHeld'
    BY <2>2 DEF SeenPast, CircuitCoherent, OpenWindowBounded, ProbeSlotHeld,
                Closed, breaker, callVars
  <2> DEFINE answer == [m EXCEPT !.status = status]
  <2>4. /\ answer.call = m.call /\ answer.attempt = m.attempt
        /\ answer.status = status
        /\ wire' \subseteq (wire \ {m}) \cup {answer}
    BY <2>1, <2>2 DEF Messages, Answers
  <2> HIDE DEF answer
  <2>5. AttemptsPast'
    BY <2>1, <2>2, <2>4 DEF AttemptsPast, callVars, Messages
  <2>6. OneMessage'
    BY <2>4 DEF OneMessage
  <2>7. StageCoherent'
    BY <2>1, <2>2, <2>4 DEF StageCoherent, callVars, Messages, Waits
  <2>8. AnswersTrue'
    BY <2>1, <2>2, <2>4 DEF AnswersTrue, OneMessage, callVars, Messages, Answers
  <2> QED
    BY <1>0, <2>3, <2>5, <2>6, <2>7, <2>8
<1>12. ASSUME NEW m \in wire, Lose(m) PROVE IInv'
  <2> USE <1>12 DEF IInv, TypeOK, Lose, callVars
  <2>1. SeenPast' /\ OneMessage' /\ AttemptsPast' /\ AnswersTrue'
    BY DEF SeenPast, OneMessage, AttemptsPast, AnswersTrue
  <2>2. CircuitCoherent' /\ OpenWindowBounded' /\ ProbeSlotHeld'
    BY DEF CircuitCoherent, OpenWindowBounded, ProbeSlotHeld, Closed, breaker
  <2>3. StageCoherent'
    BY DEF StageCoherent
  <2> QED
    BY <1>0, <2>1, <2>2, <2>3
<1>13. CASE Tick
  <2> USE <1>13 DEF IInv, TypeOK, BreakerTypeOK, Tick, callVars
  <2>1. SeenPast'
    BY DEF SeenPast
  <2>2. CircuitCoherent' /\ OpenWindowBounded' /\ ProbeSlotHeld'
    BY PolicyPositive
       DEF CircuitCoherent, OpenWindowBounded, ProbeSlotHeld, Closed, breaker
  <2>3. AttemptsPast' /\ StageCoherent' /\ AnswersTrue' /\ OneMessage'
    BY DEF AttemptsPast, StageCoherent, AnswersTrue, OneMessage
  <2> QED
    BY <1>0, <2>1, <2>2, <2>3
<1>14. CASE UNCHANGED vars
  BY <1>0, <1>14
     DEF IInv, vars, breaker, callVars, SeenPast, CircuitCoherent, Closed,
         ProbeSlotHeld, OpenWindowBounded, AttemptsPast, StageCoherent,
         AnswersTrue, OneMessage
<1> QED
  BY <1>1, <1>2, <1>3, <1>4, <1>5, <1>6, <1>7, <1>8, <1>9, <1>10, <1>11, <1>12,
     <1>13, <1>14
     DEF Next, Step, Network

\* The strengthened invariant holds in every state.
THEOREM Invariant == Spec => []IInv
BY InitIInv, IInvStep, PTL DEF Spec
-----------------------------------------------------------------------------
(* What follows for the binding                                            *)

\* observe and allow, called in any order and with stale instants, keep the
\* fields of the breaker in agreement.
THEOREM CircuitAlwaysCoherent == Spec => []CircuitCoherent
BY Invariant, PTL DEF IInv

\* No path through binding.call leaks the half-open probe slot.
THEOREM ProbeSlotAlwaysHeld == Spec => []ProbeSlotHeld
BY Invariant, PTL DEF IInv

\* However late or reordered the reports, the circuit never stays open longer
\* than OpenDuration from now.
THEOREM OpenWindowAlwaysBounded == Spec => []OpenWindowBounded
BY Invariant, PTL DEF IInv

\* The routes retryableRequest lets binding.call repeat may be repeated.
RetriesAreReplayable == \A r \in Routes : Retryable(r) => r \in Replayable

\* Attempts carried out are attempts made, and a route that is not retried has
\* only one.
LEMMA AtMostOnceFromInvariant ==
  ASSUME RetriesAreReplayable, IInv
  PROVE  AtMostOnceMutation
<1> SUFFICES ASSUME NEW c \in Calls, route[c] \notin Replayable
             PROVE  executed[c] \subseteq 1..1
  BY DEF AtMostOnceMutation
<1>1. ~Retryable(route[c])
  BY DEF RetriesAreReplayable, IInv, TypeOK, NoRoute, Retryable
<1>2. Attempts(route[c]) = 1
  BY <1>1 DEF Attempts
<1> QED
  BY <1>2 DEF IInv, TypeOK, AttemptsPast

\* If only what may be repeated is retried, then what must happen at most once
\* does, for every loss, delay and timeout.
THEOREM MutationsAtMostOnce ==
  ASSUME RetriesAreReplayable
  PROVE  Spec => []AtMostOnceMutation
<1>1. IInv => AtMostOnceMutation
  BY AtMostOnceFromInvariant
<1> QED
  BY <1>1, Invariant, PTL
-----------------------------------------------------------------------------
(* The implementation of EffectContract                                    *)

\* The initial states are initial states of the contract.
LEMMA ContractInit == Init => Contract!Init
BY DEF Init, Contract!Init, Phase

\* A step that keeps c busy and touches neither route, executed nor result is
\* invisible to the contract.
LEMMA BusyStutters ==
  ASSUME NEW c \in Calls, NEW stage \in Stages \ {"idle"}, TypeOK,
         pc[c] # "idle", Goto(c, stage), UNCHANGED <<route, executed, result>>
  PROVE  UNCHANGED Contract!vars
<1>1. Phase' = Phase
  BY DEF Phase, Goto, TypeOK
<1> QED
  BY <1>1 DEF Contract!vars

\* A return of binding.call is a return of the contract, if its result is one the
\* contract allows.
LEMMA ReturnMaps ==
  ASSUME NEW c \in Calls, NEW res \in Results \ {"none"}, TypeOK, pc[c] # "idle",
         Return(c, res), res = "ok" => executed[c] # {},
         res = "refused" => executed[c] = {}
  PROVE  Contract!Next
<1>1. Phase' = [Phase EXCEPT ![c] = "idle"] /\ Phase[c] = "busy"
  BY DEF Phase, Return, Goto, TypeOK
<1>2. Contract!Return(c, res)
  BY <1>1 DEF Contract!Return, Return
<1> QED
  BY <1>2 DEF Contract!Next

\* Every step is a step of the contract or a stutter of it.
LEMMA ContractStep ==
  ASSUME RetriesAreReplayable, IInv, [Next]_vars
  PROVE  [Contract!Next]_(Contract!vars)
<1> USE DEF IInv
<1>1. ASSUME NEW c \in Calls, NEW r \in Routes, Start(c, r) PROVE Contract!Next
  <2>1. Phase' = [Phase EXCEPT ![c] = "busy"] /\ Phase[c] = "idle"
    BY <1>1 DEF Phase, Start, Goto, TypeOK
  <2>2. Contract!Begin(c, r)
    BY <1>1, <2>1 DEF Contract!Begin, Start
  <2> QED
    BY <2>2 DEF Contract!Next
<1>2. ASSUME NEW c \in Calls,
             EncodeFails(c) \/ Refuse(c) \/ Report(c) \/ ReportCancelled(c)
      PROVE  Contract!Next
  <2>1. PICK res \in Results \ {"none"} :
          /\ Return(c, res)
          /\ res = "ok" => outcome[c] = "ok"
          /\ res = "refused" => pc[c] = "allow"
    <3>1. {"ok", "error", "refused", "cancelled"} = Results \ {"none"}
      BY DEF Results
    <3>2. CASE EncodeFails(c)
      BY <3>1, <3>2 DEF EncodeFails
    <3>3. CASE Refuse(c)
      BY <3>1, <3>3 DEF Refuse
    <3>4. CASE Report(c)
      BY <3>1, <3>4 DEF Report
    <3>5. CASE ReportCancelled(c)
      BY <3>1, <3>5 DEF ReportCancelled
    <3> QED
      BY <1>2, <3>2, <3>3, <3>4, <3>5
  <2>2. pc[c] # "idle"
    BY <1>2 DEF EncodeFails, Refuse, Report, ReportCancelled
  <2>3. res = "ok" => executed[c] # {}
    BY <2>1 DEF AnswersTrue
  <2>4. res = "refused" => executed[c] = {}
    BY <2>1 DEF StageCoherent, AttemptsPast
  <2> QED
    BY <2>1, <2>2, <2>3, <2>4, ReturnMaps
<1>3. ASSUME NEW c \in Calls,
             \/ ReadClock(c) \/ Admit(c) \/ Send(c) \/ SendFails(c) \/ Receive(c)
             \/ GiveUp(c) \/ RetryTimer(c) \/ CancelBackoff(c)
      PROVE  UNCHANGED Contract!vars
  <2>1. PICK stage \in Stages \ {"idle"} : Goto(c, stage)
    BY <1>3 DEF ReadClock, Admit, Send, SendFails, Receive, GiveUp, RetryTimer,
                CancelBackoff, Conclude, Stages
  <2>2. pc[c] # "idle" /\ UNCHANGED <<route, executed, result>>
    BY <1>3 DEF ReadClock, Admit, Send, SendFails, Receive, GiveUp, RetryTimer,
                CancelBackoff, Conclude
  <2> QED
    BY <2>1, <2>2, BusyStutters
<1>4. ASSUME NEW m \in wire, Respond(m) PROVE [Contract!Next]_(Contract!vars)
  <2>1. Phase' = Phase /\ UNCHANGED <<route, result>>
    BY <1>4 DEF Respond, callVars, Phase
  <2>2. CASE UNCHANGED executed
    BY <2>1, <2>2 DEF Contract!vars
  <2>3. CASE executed' = [executed EXCEPT ![m.call] = @ \cup {m.attempt}]
    <3>1. m.call \in Calls /\ m.status = "request" /\ m.attempt \in Nat
      BY <1>4 DEF Respond, TypeOK, Messages
    <3>2. m.attempt \notin executed[m.call]
      BY <3>1 DEF AnswersTrue
    <3>3. /\ m.attempt \in 1..attempt[m.call]
          /\ attempt[m.call] <= Attempts(route[m.call])
          /\ attempt[m.call] \in Nat
      BY <3>1 DEF AttemptsPast, TypeOK
    <3>4. route[m.call] # NoRoute /\ result[m.call] # "refused"
      BY <3>1, <3>3 DEF StageCoherent
    <3>5. /\ EffectLimit[route[m.call]] \in Nat
          /\ Attempts(route[m.call]) \in Nat
          /\ Attempts(route[m.call]) <= EffectLimit[route[m.call]]
      BY <3>1, <3>4, PolicyPositive
         DEF TypeOK, EffectLimit, Attempts, RetriesAreReplayable
    <3>6. m.attempt \in 1..EffectLimit[route[m.call]]
      BY <3>1, <3>3, <3>5
    <3>7. Contract!Execute(m.call, m.attempt)
      BY <2>1, <2>3, <3>2, <3>4, <3>6 DEF Contract!Execute
    <3> QED
      BY <3>1, <3>4, <3>6, <3>7 DEF Contract!Next
  <2> QED
    BY <1>4, <2>2, <2>3 DEF Respond
<1>5. ASSUME NEW m \in wire, Lose(m) PROVE UNCHANGED Contract!vars
  BY <1>5 DEF Lose, callVars, Contract!vars, Phase
<1>6. CASE Tick
  BY <1>6 DEF Tick, callVars, Contract!vars, Phase
<1>7. CASE UNCHANGED vars
  BY <1>7 DEF vars, callVars, Contract!vars, Phase
<1> QED
  BY <1>1, <1>2, <1>3, <1>4, <1>5, <1>6, <1>7 DEF Next, Step, Network

\* binding.call implements the contract of a remote effect: no effect beyond the
\* limit of its route, "ok" only for an effect carried out, a refusal only for
\* one that never will be.  (That every call returns is liveness: TLC's part.)
THEOREM ImplementsContract ==
  ASSUME RetriesAreReplayable
  PROVE  Spec => Contract!Spec
<1>1. IInv /\ [Next]_vars => [Contract!Next]_(Contract!vars)
  BY ContractStep
<1> QED
  BY <1>1, ContractInit, Invariant, PTL DEF Spec, Contract!Spec
-----------------------------------------------------------------------------
(* Load shedding                                                           *)

\* The free probe slot as a number: the second term of Load.
FreeSlot == IF probeActive THEN 0 ELSE 1

\* While the circuit stays open, no step makes the load grow.
LEMMA LoadStep ==
  ASSUME IsFiniteSet(Calls), IInv, [Next]_vars, ~Closed, ~Closed'
  PROVE  Load' <= Load
<1> USE DEF IInv
<1>0. IsFiniteSet(InFlight) /\ IsFiniteSet(InFlight')
  BY FS_Subset DEF InFlight
<1>1. Cardinality(InFlight) \in Nat /\ Cardinality(InFlight') \in Nat
  BY <1>0, FS_CardinalityType
<1>2. FreeSlot \in {0, 1} /\ FreeSlot' \in {0, 1}
  BY DEF FreeSlot
<1>3. /\ Load = Cardinality(InFlight) + FreeSlot
      /\ Load' = Cardinality(InFlight') + FreeSlot'
  BY DEF Load, FreeSlot
<1>4. ASSUME NEW c \in Calls, Admit(c) PROVE Load' <= Load
  <2>1. ~probeActive /\ probeActive'
    BY <1>4 DEF Admit, Allow
  <2>2. InFlight' = InFlight \cup {c} /\ c \notin InFlight
    BY <1>4 DEF Admit, InFlight, Admitted, Goto, TypeOK
  <2>3. Cardinality(InFlight') = Cardinality(InFlight) + 1
    BY <1>0, <2>2, FS_AddElement
  <2> QED
    BY <1>1, <1>3, <2>1, <2>3 DEF FreeSlot
<1>5. ASSUME NEW c \in Calls, Report(c) \/ ReportCancelled(c) PROVE Load' <= Load
  <2>1. ~probeActive'
    BY <1>5, Zenon DEF Report, ReportCancelled, Observe, Close, OpenAt, Count, Trips
  <2>2. InFlight' = InFlight \ {c} /\ c \in InFlight
    BY <1>5 DEF Report, ReportCancelled, Return, InFlight, Admitted, Goto, TypeOK
  <2>3. Cardinality(InFlight') = Cardinality(InFlight) - 1
    BY <1>0, <2>2, FS_RemoveElement
  <2> QED
    BY <1>1, <1>2, <1>3, <2>1, <2>3 DEF FreeSlot
<1>6. ASSUME UNCHANGED <<breaker, InFlight>> PROVE Load' <= Load
  BY <1>1, <1>2, <1>3, <1>6 DEF FreeSlot, breaker
<1>7. ASSUME NEW c \in Calls,
             \/ EncodeFails(c) \/ ReadClock(c) \/ Refuse(c) \/ Send(c)
             \/ SendFails(c) \/ Receive(c) \/ GiveUp(c) \/ RetryTimer(c)
             \/ CancelBackoff(c) \/ \E r \in Routes : Start(c, r)
      PROVE  UNCHANGED <<breaker, InFlight>>
  <2>1. UNCHANGED breaker
    BY <1>7 DEF EncodeFails, ReadClock, Refuse, Send, SendFails, Receive, GiveUp,
                RetryTimer, CancelBackoff, Start, Conclude
  <2>2. PICK stage \in Stages : Goto(c, stage) /\ (pc[c] \in Admitted <=> stage \in Admitted)
    BY <1>7 DEF EncodeFails, ReadClock, Refuse, Send, SendFails, Receive, GiveUp,
                RetryTimer, CancelBackoff, Start, Conclude, Return, Admitted, Stages
  <2>3. InFlight' = InFlight
    BY <2>2 DEF InFlight, Goto, TypeOK
  <2> QED
    BY <2>1, <2>3
<1>8. ASSUME \/ \E m \in wire : Respond(m) \/ Lose(m)
             \/ Tick \/ UNCHANGED vars
      PROVE  UNCHANGED <<breaker, InFlight>>
  BY <1>8 DEF Respond, Lose, Tick, vars, callVars, InFlight
<1> QED
  BY <1>4, <1>5, <1>6, <1>7, <1>8 DEF Next, Step, Network

\* With finitely many callers, an open circuit never lets the calls in flight
\* plus the free probe slot grow, late reports included.
THEOREM OpenCircuitShedsLoad ==
  ASSUME IsFiniteSet(Calls)
  PROVE  Spec => ShedsLoadWhileOpen
<1>1. IInv /\ [Next]_vars => [~Closed /\ ~Closed' => Load' <= Load]_vars
  BY LoadStep
<1> QED
  BY <1>1, Invariant, PTL DEF Spec, ShedsLoadWhileOpen
-----------------------------------------------------------------------------
(* A binding                                                               *)

\* A step of a binding is a step of its calls, or none.
LEMMA CallStep == ASSUME [BindingNext]_bindingVars PROVE [Next]_vars
<1>1. ASSUME NEW c \in Calls, Outside(c) PROVE Next
  BY <1>1 DEF Outside, Next, Step
<1>2. ASSUME NEW c \in Calls, Perform(c) PROVE Next
  BY <1>2 DEF Perform, Next, Step
<1>3. ASSUME NEW c \in Calls, TokenFails(c) \/ Request(c) \/ Answer(c) PROVE Next
  BY <1>3 DEF TokenFails, Request, Answer, Next, Step
<1>4. ASSUME NEW c \in Calls, Begin(c) \/ Remote(c) PROVE Next
  BY <1>4 DEF Begin, Remote, Next
<1>5. ASSUME NEW c \in Calls, Lock(c) \/ GetToken(c) PROVE UNCHANGED vars
  BY <1>5 DEF Lock, GetToken
<1>6. CASE Time
  BY <1>6 DEF Time, Next
<1>7. CASE UNCHANGED bindingVars
  BY <1>7 DEF bindingVars
<1> QED
  BY <1>1, <1>2, <1>3, <1>4, <1>5, <1>6, <1>7 DEF BindingNext, Proceed

\* binding.call, with the wait for its tokens, is what RemoteCall says it is: every
\* safety theorem about RemoteCall is one about a binding.
THEOREM CallsImplemented == BindingSpec => Spec
BY CallStep, PTL DEF BindingSpec, BindingInit, Spec
-----------------------------------------------------------------------------
(* Tokens                                                                  *)

\* A step of a binding is a step of its tokens, or none.  That a grant is asked for
\* takes that an attempt has a route, an invariant of its calls.
LEMMA TokenStep ==
  ASSUME IInv, [BindingNext]_bindingVars
  PROVE  [Tokens!Next]_(Tokens!vars)
<1> USE DEF Tokens!vars
<1>1. ASSUME NEW c \in Calls, Outside(c) \/ Begin(c) \/ Remote(c) PROVE UNCHANGED Tokens!vars
  <2>1. UNCHANGED tokenVars
    BY <1>1 DEF Outside, Begin, Remote
  <2>2. UNCHANGED clock
    BY <1>1 DEF Outside, EncodeFails, ReadClock, Refuse, CancelBackoff, Report,
                ReportCancelled, Return, Begin, Start, Remote, Network, Respond, Lose
  <2> QED
    BY <2>1, <2>2 DEF tokenVars
<1>2. ASSUME NEW c \in Calls, Perform(c) PROVE Tokens!Next
  <2>1. GrantOf[route[c]] \in Grants
    BY <1>2, BindingSettings
       DEF Perform, Admit, RetryTimer, IInv, TypeOK, StageCoherent
  <2> QED
    BY <1>2, <2>1 DEF Perform, Tokens!Next
<1>3. ASSUME NEW c \in Calls, Lock(c) \/ GetToken(c) PROVE Tokens!Next
  BY <1>3 DEF Lock, GetToken, Tokens!Next, Tokens!Step, Tokens!InCritical
<1>4. ASSUME NEW c \in Calls, TokenFails(c) \/ Request(c) \/ Answer(c) PROVE Tokens!Next
  BY <1>4 DEF TokenFails, NoToken, Request, Answer, Tokens!Next, Tokens!Step,
              Tokens!InCritical
<1>5. CASE Time
  BY <1>5 DEF Time, Tokens!Next
<1>6. CASE UNCHANGED bindingVars
  BY <1>6 DEF bindingVars, vars, tokenVars
<1> QED
  BY <1>1, <1>2, <1>3, <1>4, <1>5, <1>6 DEF BindingNext, Proceed

\* What is proved of ServiceTokens holds of a binding.
THEOREM TokensImplemented == BindingSpec => Tokens!Spec
<1>1. BindingSpec => []IInv
  BY CallsImplemented, Invariant
<1> QED
  BY <1>1, TokenStep, PTL DEF BindingSpec, BindingInit, Tokens!Spec
-----------------------------------------------------------------------------
(* The token and the route                                                 *)

\* Where a goroutine stands in binding.call and where in getting a token go together,
\* its grant is its route's, and there is a token in the end.
InStep ==
  \A c \in Calls :
    /\ pc[c] = "perform" <=> tokenPc[c] \notin {"idle", "sent"}
    /\ pc[c] = "await" <=> tokenPc[c] = "sent"
    /\ tokenPc[c] # "idle" => grant[c] = GrantOf[route[c]]
    /\ tokenPc[c] \notin {"idle", "send", "sent"} => tokenSource
    /\ tokenPc[c] \in {"send", "sent"} => (tokenSource <=> token[c] # Tokens!StaticCredential)

\* No goroutine is in perform at first.
LEMMA InStepInit == BindingInit => InStep
BY DEF BindingInit, Init, Tokens!Init, InStep

\* Both parts of a step keep to each other.
LEMMA InStepStep ==
  ASSUME TypeOK, Tokens!TypeOK, InStep, [BindingNext]_bindingVars
  PROVE  InStep'
<1> USE DEF TypeOK, Tokens!TypeOK, InStep, Goto, Tokens!Goto
<1>1. ASSUME NEW c \in Calls, Outside(c) \/ Begin(c) PROVE InStep'
  <2>1. UNCHANGED <<tokenSource, tokenPc, grant, token>>
    BY <1>1 DEF Outside, Begin, tokenVars
  <2>2. /\ tokenPc[c] = "idle"
        /\ \E stage \in Stages : /\ stage \notin {"perform", "await"}
                                /\ pc' = [pc EXCEPT ![c] = stage]
    BY <1>1 DEF Outside, Begin, EncodeFails, ReadClock, Refuse, CancelBackoff, Report,
                ReportCancelled, Return, Start, Stages
  <2>3. \A d \in Calls \ {c} : route'[d] = route[d]
    BY <1>1 DEF Outside, Begin, EncodeFails, ReadClock, Refuse, CancelBackoff, Report,
                ReportCancelled, Return, Start
  <2> QED
    BY <2>1, <2>2, <2>3
<1>2. ASSUME NEW c \in Calls, Perform(c) PROVE InStep'
  BY <1>2 DEF Perform, Admit, RetryTimer, Tokens!Perform
<1>3. ASSUME NEW c \in Calls, Lock(c) PROVE InStep'
  BY <1>3 DEF Lock, vars, callVars, Tokens!Lock
<1>4. ASSUME NEW c \in Calls, GetToken(c) PROVE InStep'
  <2> USE <1>4 DEF GetToken, vars, callVars
  <2>1. CASE Tokens!Hit(c)
    BY <2>1 DEF Tokens!Hit, Tokens!Fresh, Tokens!StaticCredential, Tokens!TokenMargin
  <2>2. CASE Tokens!Store(c)
    BY <2>2 DEF Tokens!Store, Tokens!Usable, Tokens!StaticCredential
  <2>3. CASE Tokens!Exchange(c)
    BY <2>3 DEF Tokens!Exchange
  <2>4. CASE Tokens!Miss(c) \/ Tokens!OpenIdentity(c) \/ Tokens!AskServices(c)
    BY <2>4 DEF Tokens!Miss, Tokens!OpenIdentity, Tokens!AskServices
  <2> QED
    BY <2>1, <2>2, <2>3, <2>4
<1>5. ASSUME NEW c \in Calls, TokenFails(c) \/ Answer(c) PROVE InStep'
  <2>1. Tokens!Done(c)
    BY <1>5 DEF TokenFails, NoToken, Answer, Tokens!OpenFails, Tokens!ServicesMissing,
                Tokens!ExchangeFails, Tokens!Reject, Tokens!TooLate, Tokens!Finish,
                Tokens!FailExchange
  <2>2. pc[c] \in {"perform", "await"} /\ \E o \in Outcomes : Conclude(c, o)
    BY <1>5 DEF TokenFails, SendFails, Answer, Receive, GiveUp, Outcomes
  <2> QED
    BY <2>1, <2>2 DEF Tokens!Done, Conclude
<1>6. ASSUME NEW c \in Calls, Request(c) PROVE InStep'
  BY <1>6 DEF Request, Send, Tokens!Send
<1>7. ASSUME NEW c \in Calls, Remote(c) PROVE InStep'
  BY <1>7 DEF Remote, Network, Respond, Lose, callVars, tokenVars
<1>8. CASE Time
  BY <1>8 DEF Time, Tick, callVars, Tokens!Tick
<1>9. CASE UNCHANGED bindingVars
  BY <1>9 DEF bindingVars, vars, callVars, tokenVars
<1> QED
  BY <1>1, <1>2, <1>3, <1>4, <1>5, <1>6, <1>7, <1>8, <1>9 DEF BindingNext, Proceed

\* For any callers, routes and grants, a request on its way carries a token issued for
\* the grant of its route, or the credential of a binding without a token source.
THEOREM RequestsAlwaysCarryTheirGrant == BindingSpec => []RequestsCarryTheirGrant
<1>1. BindingSpec => []TypeOK
  BY CallsImplemented, TypeCorrect
<1>2. BindingSpec => []Tokens!TypeOK /\ []Tokens!TokenForOwnGrant
  BY TokensImplemented, Tokens!TypeCorrect, Tokens!TokensStayWithTheirGrant,
     BindingSettings
     DEF Tokens!Nobody
<1>3. InStep /\ Tokens!TokenForOwnGrant => RequestsCarryTheirGrant
  BY DEF InStep, Tokens!TokenForOwnGrant, RequestsCarryTheirGrant
<1> QED
  BY <1>1, <1>2, <1>3, InStepInit, InStepStep, PTL DEF BindingSpec
-----------------------------------------------------------------------------
(* What callers of a binding may rely on                                   *)

\* binding.call, waiting for tokens or not, keeps the safety part of EffectContract: no
\* effect beyond those its policy allows, "ok" only with one, "refused" only without.
THEOREM BindingKeepsContract ==
  ASSUME RetriesAreReplayable
  PROVE  BindingSpec => Contract!Spec
<1>1. Spec => Contract!Spec
  BY ImplementsContract
<1> QED
  BY <1>1, CallsImplemented

\* In a binding too a cached token outlives the attempt it is sent with, however the
\* attempts of other calls, their backoffs and the circuit come in between.
THEOREM BindingTokensOutlive ==
  ASSUME Tokens!TimeoutWithinMargin
  PROVE  BindingSpec => []Tokens!CachedTokenOutlivesRequest
<1>1. Tokens!Spec => []Tokens!CachedTokenOutlivesRequest
  BY Tokens!CachedTokensOutlive, BindingSettings DEF Tokens!Nobody
<1> QED
  BY <1>1, TokensImplemented
=============================================================================
