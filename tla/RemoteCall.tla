----------------------------- MODULE RemoteCall -----------------------------
(***************************************************************************)
(* The calls of one remote binding: binding.call and binding.perform       *)
(* (remote/factory.go) over the circuit breaker they share, any number of  *)
(* goroutines at once, and a network and a remote service that may lose,   *)
(* delay, reorder and refuse until the clock reaches StableFrom.           *)
(*                                                                         *)
(* A member of Calls is a slot that makes one call after another.  Its     *)
(* next call starts when nothing of the previous one is on the wire, so    *)
(* that `executed' belongs to one call.                                    *)
(***************************************************************************)
EXTENDS CircuitBreaker, RetryPolicy, FiniteSets

CONSTANTS Calls,               \* concurrent callers of the binding
          Routes,              \* [method, path] a use case may call
          Replayable,          \* those the remote may carry out twice: reads, and
                               \* publication under its source identity
          StableFrom           \* bound: the clock reading from which the remote
                               \* answers and callers wait

NoRoute == [method |-> "none", path |-> "none"]

ASSUME CallSettings == /\ StableFrom \in Nat
                       /\ Routes \subseteq [method : STRING, path : STRING]
                       /\ NoRoute \notin Routes
                       /\ Replayable \subseteq Routes

(***************************************************************************)
(* What perform reports.  "unavailable" stands for 429, 502, 503 and 504,  *)
(* "rejected" for every other status that is not 2xx, "garbled" for a 2xx  *)
(* body that does not decode, and "unreachable" for status 0: no grant, no *)
(* token, no connection, or a deadline or cancellation.                    *)
(***************************************************************************)
Answers == {"ok", "garbled", "rejected", "unavailable"}
Outcomes == Answers \cup {"unreachable"}

Failed(outcome) == outcome \in {"unavailable", "unreachable"}

VARIABLES clock,     \* time.Now(), in seconds
          pc,        \* where each call stands
          route,     \* method and path of the call
          attempt,   \* attempts made
          seen,      \* the instant read for the breaker, before its lock
          outcome,   \* what the last attempt came to
          result,    \* what the call returned
          wire,      \* requests and answers in flight
          executed   \* attempts of the call the remote has carried out

callVars == <<pc, route, attempt, seen, outcome, result>>
vars == <<breaker, clock, callVars, wire, executed>>

Stages == {"idle", "encode", "allow", "perform", "await", "backoff",
           "observe", "cancelled"}
Admitted == {"perform", "await", "backoff", "observe", "cancelled"}
Results == {"none", "ok", "error", "refused", "cancelled"}
Messages == [call : Calls, attempt : Nat, status : {"request"} \cup Answers]

TypeOK == /\ BreakerTypeOK
          /\ clock \in Nat \ {0}
          /\ pc \in [Calls -> Stages]
          /\ route \in [Calls -> Routes \cup {NoRoute}]
          /\ attempt \in [Calls -> Nat]
          /\ seen \in [Calls -> Nat]
          /\ outcome \in [Calls -> Outcomes \cup {"none"}]
          /\ result \in [Calls -> Results]
          /\ wire \subseteq Messages
          /\ executed \in [Calls -> SUBSET Nat]

Init == /\ BreakerInit
        /\ clock = 1
        /\ pc = [c \in Calls |-> "idle"]
        /\ route = [c \in Calls |-> NoRoute]
        /\ attempt = [c \in Calls |-> 0]
        /\ seen = [c \in Calls |-> 0]
        /\ outcome = [c \in Calls |-> "none"]
        /\ result = [c \in Calls |-> "none"]
        /\ wire = {}
        /\ executed = [c \in Calls |-> {}]

Unstable == clock < StableFrom

Goto(c, stage) == pc' = [pc EXCEPT ![c] = stage]

\* Call c returns res to its caller.
Return(c, res) == /\ Goto(c, "idle")
                  /\ result' = [result EXCEPT ![c] = res]
                  /\ seen' = [seen EXCEPT ![c] = 0]
                  /\ outcome' = [outcome EXCEPT ![c] = "none"]
                  /\ UNCHANGED <<clock, route, attempt, wire, executed>>

Awaited(c, status) == [call |-> c, attempt |-> attempt[c], status |-> status]

\* Call m.call is in client.Do with the attempt m belongs to.
Waits(m) == pc[m.call] = "await" /\ m.attempt = attempt[m.call]

-----------------------------------------------------------------------------
(* binding.call                                                            *)

Start(c, r) == /\ pc[c] = "idle"
               /\ \A m \in wire : m.call # c
               /\ Goto(c, "encode")
               /\ route' = [route EXCEPT ![c] = r]
               /\ attempt' = [attempt EXCEPT ![c] = 0]
               /\ result' = [result EXCEPT ![c] = "none"]
               /\ executed' = [executed EXCEPT ![c] = {}]
               /\ UNCHANGED <<breaker, clock, seen, outcome, wire>>

\* json.Marshal fails: the breaker never hears of the call.
EncodeFails(c) == pc[c] = "encode" /\ Return(c, "error") /\ UNCHANGED breaker

\* The argument of allow is evaluated before allow takes the lock.
ReadClock(c) == /\ pc[c] = "encode"
                /\ Goto(c, "allow")
                /\ seen' = [seen EXCEPT ![c] = clock]
                /\ UNCHANGED <<breaker, clock, route, attempt, outcome, result,
                               wire, executed>>

Admit(c) == /\ pc[c] = "allow"
            /\ Allow(seen[c])
            /\ Goto(c, "perform")
            /\ attempt' = [attempt EXCEPT ![c] = 1]
            /\ seen' = [seen EXCEPT ![c] = 0]
            /\ UNCHANGED <<clock, route, outcome, result, wire, executed>>

Refuse(c) == /\ pc[c] = "allow"
             /\ Denies(seen[c])
             /\ Return(c, "refused")
             /\ UNCHANGED breaker

\* The loop body after perform: report, or back off before the next attempt.
Conclude(c, o) ==
  /\ IF Failed(o) /\ attempt[c] < Attempts(route[c])
       THEN Goto(c, "backoff") /\ UNCHANGED <<seen, outcome>>
       ELSE /\ Goto(c, "observe")
            /\ seen' = [seen EXCEPT ![c] = clock]
            /\ outcome' = [outcome EXCEPT ![c] = o]
  /\ UNCHANGED <<breaker, clock, route, attempt, result, executed>>

\* waitRetry: the timer fires, or the caller's context is cancelled first.
RetryTimer(c) == /\ pc[c] = "backoff"
                 /\ Goto(c, "perform")
                 /\ attempt' = [attempt EXCEPT ![c] = @ + 1]
                 /\ UNCHANGED <<breaker, clock, route, seen, outcome, result,
                                wire, executed>>

CancelBackoff(c) == /\ pc[c] = "backoff"
                    /\ Goto(c, "cancelled")
                    /\ seen' = [seen EXCEPT ![c] = clock]
                    /\ UNCHANGED <<breaker, clock, route, attempt, outcome,
                                   result, wire, executed>>

\* Faulty variant: whatever is not a failure is a success.
ReportAnyAnswer(c) == /\ pc[c] = "observe"
                      /\ Observe(seen[c], Failed(outcome[c]))
                      /\ Return(c, IF Failed(outcome[c]) THEN "error" ELSE "ok")

Report(c) == /\ pc[c] = "observe"
             /\ Observe(seen[c], Failed(outcome[c]))
             /\ Return(c, IF outcome[c] = "ok" THEN "ok" ELSE "error")

\* Faulty variant: a cancelled wait returns without a word to the breaker.
ReportCancelledSilently(c) == /\ pc[c] = "cancelled"
                              /\ Return(c, "cancelled")
                              /\ UNCHANGED breaker

\* A cancelled wait is reported as if the attempt before it had not failed.
ReportCancelled(c) == /\ pc[c] = "cancelled"
                      /\ Observe(seen[c], FALSE)
                      /\ Return(c, "cancelled")
-----------------------------------------------------------------------------
(* binding.perform                                                         *)

\* client.Do puts the request on the wire.
Send(c) == /\ pc[c] = "perform"
           /\ Goto(c, "await")
           /\ wire' = wire \cup {Awaited(c, "request")}
           /\ UNCHANGED <<breaker, clock, route, attempt, seen, outcome, result,
                          executed>>

\* No request, grant, token or connection: nothing was sent.
SendFails(c) == /\ pc[c] = "perform"
                /\ Unstable
                /\ Conclude(c, "unreachable")
                /\ UNCHANGED wire

Receive(c) == /\ pc[c] = "await"
              /\ \E status \in Answers :
                   /\ Awaited(c, status) \in wire
                   /\ wire' = wire \ {Awaited(c, status)}
                   /\ Conclude(c, status)

\* Faulty variant: no request timeout, only cancellation or a broken connection.
GiveUpIfBroken(c) == /\ pc[c] = "await"
                     /\ Unstable
                     /\ Conclude(c, "unreachable")
                     /\ wire' = wire \ {Awaited(c, status) : status \in Answers}

\* The request timeout passes, the caller cancels, or the connection breaks: an
\* answer dies with the connection, a request may still be carried out.
GiveUp(c) == /\ pc[c] = "await"
             /\ Unstable \/ \A m \in wire : m.call = c => ~Waits(m)
             /\ Conclude(c, "unreachable")
             /\ wire' = wire \ {Awaited(c, status) : status \in Answers}
-----------------------------------------------------------------------------
(* The remote service and the network                                      *)

\* The remote answers a request, however late.  It has carried out what it
\* answers with 2xx; a gateway's refusal says nothing either way.
Respond(m) ==
  /\ m.status = "request"
  /\ \E status \in Answers, done \in BOOLEAN :
       /\ status \in {"ok", "garbled"} => done
       /\ status = "unavailable" => Unstable
       /\ wire' = (wire \ {m}) \cup
                    IF Waits(m) THEN {[m EXCEPT !.status = status]} ELSE {}
       /\ executed' = IF done THEN [executed EXCEPT ![m.call] = @ \cup {m.attempt}]
                              ELSE executed
  /\ UNCHANGED <<breaker, clock, callVars>>

\* A message is lost; what nobody waits for may always be.
Lose(m) == /\ Unstable \/ ~Waits(m)
           /\ wire' = wire \ {m}
           /\ UNCHANGED <<breaker, clock, callVars, executed>>

\* Past StableFrom only an open circuit still watches the clock.
Tick == /\ Unstable \/ clock < openedUntil
        /\ clock' = clock + 1
        /\ UNCHANGED <<breaker, callVars, wire, executed>>
-----------------------------------------------------------------------------
Step(c) == \/ EncodeFails(c) \/ ReadClock(c) \/ Admit(c) \/ Refuse(c)
           \/ Send(c) \/ SendFails(c) \/ Receive(c) \/ GiveUp(c)
           \/ RetryTimer(c) \/ CancelBackoff(c)
           \/ Report(c) \/ ReportCancelled(c)

Network(c) == \E m \in wire : m.call = c /\ (Respond(m) \/ Lose(m))

Next == \/ \E c \in Calls, r \in Routes : Start(c, r)
        \/ \E c \in Calls : Step(c) \/ Network(c)
        \/ Tick

Spec == Init /\ [][Next]_vars

\* Goroutines run, every attempt has a timeout, the remote answers what it
\* keeps, and time passes.  Nobody is obliged to make a call.
Fairness == /\ \A c \in Calls : WF_vars(Step(c)) /\ WF_vars(Network(c))
            /\ WF_vars(Tick)

FairSpec == Spec /\ Fairness
-----------------------------------------------------------------------------
(* Safety                                                                  *)

\* The three fields of the breaker agree: it is open exactly when the failure
\* count has reached the threshold, the count never passes it, and a probe is
\* out only while it is open (circuitBreaker.observe, by callers in any order).
CircuitCoherent == /\ ~Closed <=> failures = FailureThreshold
                   /\ failures <= FailureThreshold
                   /\ probeActive => ~Closed

\* The probe slot is never leaked: while it is taken, some admitted call has
\* still to report and will free it.  A path out of binding.call that skips
\* observe would leave the circuit open for ever.
ProbeSlotHeld == probeActive => \E c \in Calls : pc[c] \in Admitted

\* Though reports carry the instant their caller read before the lock, in any
\* order, the circuit never stays open longer than OpenDuration from now.
OpenWindowBounded == openedUntil <= clock + OpenDuration

\* What must not happen twice is carried out by at most one attempt, even when
\* an answer is lost, the deadline passes or the attempt is executed late.
AtMostOnceMutation ==
  \A c \in Calls : route[c] \notin Replayable =>
     \A a, b \in executed[c] : a = b

\* An open circuit sheds load: until it closes, the calls in flight plus the
\* free probe slot never grow, so at most one call more than were in flight
\* when it opened is ever out.  A late failure that frees the slot of a probe
\* still in flight takes its own place out of that count.
InFlight == {c \in Calls : pc[c] \in Admitted}
Load == Cardinality(InFlight) + IF probeActive THEN 0 ELSE 1
ShedsLoadWhileOpen == [][~Closed /\ ~Closed' => Load' <= Load]_vars
-----------------------------------------------------------------------------
(* Liveness, under FairSpec                                                *)

\* Once the remote is well, calls that keep coming close the circuit for good.
CircuitRecovers == []<><<\E c \in Calls : ReadClock(c)>>_vars => <>[]Closed
-----------------------------------------------------------------------------
(* The promise to callers                                                  *)

Phase == [c \in Calls |-> IF pc[c] = "idle" THEN "idle" ELSE "busy"]
EffectLimit == [r \in Routes |-> IF r \in Replayable THEN MaxAttempts ELSE 1]

Contract == INSTANCE EffectContract WITH phase <- Phase, Limit <- EffectLimit

\* binding.call keeps the contract of EffectContract: attempts within the limit
\* of the route, "ok" only when carried out, the circuit's refusal only when
\* nothing was sent, and every call returns.
KeepsContract == Contract!FairSpec
=============================================================================
