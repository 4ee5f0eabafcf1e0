-------------------------- MODULE DeliveryDispatch --------------------------
(***************************************************************************)
(* Handing a delivery to Integration: Remote.Dispatch and Remote.perform   *)
(* (deliverygateway/remote.go).  Unlike binding.call it has no circuit     *)
(* breaker, retries every unknown outcome, and relies on the identity of   *)
(* the request, the same in every attempt, for Integration to recognise a  *)
(* repetition.  The gateway and the network lose, delay, duplicate the     *)
(* effect of and answer anything, with the receipt of any request.         *)
(***************************************************************************)
EXTENDS Integers, FiniteSets, Texts

CONSTANTS Senders,             \* goroutines in Dispatch
          Requests,            \* what they dispatch
          Applications,        \* the ApplicationRefs they dispatch for
          MaxAttemptsSetting   \* RemoteConfig.MaxAttempts

NoText == [core |-> "", padded |-> FALSE]
NoRequest == [id |-> "", complete |-> FALSE, workspace |-> NoText]
NoApplication == [workspace |-> NoText, key |-> NoText]

ASSUME DispatchSettings ==
  /\ Requests \subseteq [id : STRING, complete : BOOLEAN, workspace : Texts]
  /\ NoRequest \notin Requests
  /\ Applications \subseteq [workspace : Texts, key : Texts]
  /\ MaxAttemptsSetting \in Int

MaxAttempts == IF MaxAttemptsSetting <= 0 THEN 3 ELSE MaxAttemptsSetting

\* Faulty variant: the workspace of the request is not looked at.
ValidAnywhere(app, r) == ~Blank(app.workspace) /\ ~Blank(app.key) /\ r.complete

\* Request.Validate; `complete' stands for the fields that must not be blank.  The
\* request's workspace is trimmed for the comparison, the application's is not.
Valid(app, r) == /\ ~Blank(app.workspace) /\ ~Blank(app.key)
                 /\ r.complete
                 /\ TrimSpace(r.workspace) = app.workspace

\* A request as it is sent: its body, with the workspace as it was written, and
\* the application in its headers.
Ids == {r.id : r \in Requests}
Deliveries == [id : Ids, workspace : Texts, application : Applications]

\* A receipt, by the request it names and whether it has a message ID.
Receipts == [id : Ids, message : BOOLEAN]
NoReceipt == [id |-> "", message |-> FALSE]

\* What is answered, and what perform and the check of the receipt make of it: a
\* 2xx that decodes, to this request's receipt or not; a 2xx that does not; a
\* final rejection; 429 or 5xx; no answer before the timeout.
Answers == [status : {"receipt"}, receipt : Receipts] \cup
           [status : {"garbled", "rejected", "unavailable"}, receipt : {NoReceipt}]
Outcomes == {"receipt", "mismatch", "garbled", "rejected", "unavailable", "unreachable"}
Retried(outcome) == outcome \in {"garbled", "unavailable", "unreachable"}

VARIABLES pc, request, application, attempt,
          wire,      \* attempts and answers in flight
          accepted,  \* [sender, attempt, delivery] Integration has accepted
          result     \* what Dispatch returned

vars == <<pc, request, application, attempt, wire, accepted, result>>

Results == {"none", "ok", "error", "refused", "cancelled"}
Unanswered == [status |-> "request", receipt |-> NoReceipt]
Messages == [sender : Senders, attempt : Nat, delivery : Deliveries,
             answer : {Unanswered} \cup Answers]

TypeOK ==
  /\ pc \in [Senders -> {"idle", "validate", "perform", "await", "backoff"}]
  /\ request \in [Senders -> Requests \cup {NoRequest}]
  /\ application \in [Senders -> Applications \cup {NoApplication}]
  /\ attempt \in [Senders -> Nat]
  /\ wire \subseteq Messages
  /\ accepted \subseteq [sender : Senders, attempt : 1..MaxAttempts, delivery : Deliveries]
  /\ result \in [Senders -> Results]

Init == /\ pc = [s \in Senders |-> "idle"]
        /\ request = [s \in Senders |-> NoRequest]
        /\ application = [s \in Senders |-> NoApplication]
        /\ attempt = [s \in Senders |-> 0]
        /\ wire = {}
        /\ accepted = {}
        /\ result = [s \in Senders |-> "none"]

Goto(s, stage) == pc' = [pc EXCEPT ![s] = stage]

Return(s, res) == /\ Goto(s, "idle")
                  /\ result' = [result EXCEPT ![s] = res]
                  /\ UNCHANGED <<request, application, attempt, accepted>>

\* One attempt of what s dispatches, as perform puts it together.
Attempt(s) ==
  [sender |-> s, attempt |-> attempt[s], answer |-> Unanswered,
   delivery |-> [id |-> request[s].id, workspace |-> request[s].workspace,
                 application |-> application[s]]]

\* Faulty variant: any receipt with a message ID will do.
MatchesAny(s, receipt) == receipt.message

\* The receipt is the one asked for.
Matches(s, receipt) == receipt.id = request[s].id /\ receipt.message

Waits(m) == pc[m.sender] = "await" /\ m.attempt = attempt[m.sender]
-----------------------------------------------------------------------------
\* A sender dispatches again once nothing of its last request is on the wire.
Dispatch(s, app, r) == /\ pc[s] = "idle"
                       /\ \A m \in wire : m.sender # s
                       /\ Goto(s, "validate")
                       /\ request' = [request EXCEPT ![s] = r]
                       /\ application' = [application EXCEPT ![s] = app]
                       /\ attempt' = [attempt EXCEPT ![s] = 0]
                       /\ accepted' = {a \in accepted : a.sender # s}
                       /\ result' = [result EXCEPT ![s] = "none"]
                       /\ UNCHANGED wire

Refuse(s) == /\ pc[s] = "validate"
             /\ ~Valid(application[s], request[s])
             /\ Return(s, "refused")
             /\ UNCHANGED wire

\* A delivery may hold values that cannot be encoded: nothing is sent.
EncodeFails(s) == /\ pc[s] = "validate"
                  /\ Valid(application[s], request[s])
                  /\ Return(s, "error")
                  /\ UNCHANGED wire

\* The body is encoded once, with the identity every attempt will carry.
Encode(s) == /\ pc[s] = "validate"
             /\ Valid(application[s], request[s])
             /\ Goto(s, "perform")
             /\ attempt' = [attempt EXCEPT ![s] = 1]
             /\ UNCHANGED <<request, application, wire, accepted, result>>

\* Faulty variant: an attempt after the first carries an identity of its own.
SendAnew(s) == /\ pc[s] = "perform"
               /\ Goto(s, "await")
               /\ wire' = wire \cup
                    {[Attempt(s) EXCEPT
                        !.delivery.id = IF attempt[s] = 1 THEN @ ELSE "fresh"]}
               /\ UNCHANGED <<request, application, attempt, accepted, result>>

Send(s) == /\ pc[s] = "perform"
           /\ Goto(s, "await")
           /\ wire' = wire \cup {Attempt(s)}
           /\ UNCHANGED <<request, application, attempt, accepted, result>>

\* Faulty variant: one attempt too many.
ConcludeOneMore(s, o) ==
  IF Retried(o) /\ attempt[s] <= MaxAttempts
    THEN Goto(s, "backoff") /\ UNCHANGED <<request, application, attempt, accepted, result>>
    ELSE Return(s, IF o = "receipt" THEN "ok" ELSE "error")

\* The loop body after perform.
Conclude(s, o) ==
  IF Retried(o) /\ attempt[s] < MaxAttempts
    THEN Goto(s, "backoff") /\ UNCHANGED <<request, application, attempt, accepted, result>>
    ELSE Return(s, IF o = "receipt" THEN "ok" ELSE "error")

Receive(s) == /\ pc[s] = "await"
              /\ \E m \in wire :
                   /\ m.sender = s /\ m.attempt = attempt[s]
                   /\ m.answer \in Answers
                   /\ wire' = wire \ {m}
                   /\ IF m.answer.status = "receipt" /\ ~Matches(s, m.answer.receipt)
                        THEN Conclude(s, "mismatch")
                        ELSE Conclude(s, m.answer.status)

\* No connection, the request timeout, or the caller's cancellation.
GiveUp(s) == /\ pc[s] = "await"
             /\ Conclude(s, "unreachable")
             /\ wire' = {m \in wire : m.sender = s => m.answer = Unanswered}

RetryTimer(s) == /\ pc[s] = "backoff"
                 /\ Goto(s, "perform")
                 /\ attempt' = [attempt EXCEPT ![s] = @ + 1]
                 /\ UNCHANGED <<request, application, wire, accepted, result>>

CancelBackoff(s) == /\ pc[s] = "backoff"
                    /\ Return(s, "cancelled")
                    /\ UNCHANGED wire
-----------------------------------------------------------------------------
\* Integration answers an attempt, however late, and has accepted what it gives
\* that attempt's receipt for.  It may answer with the receipt of another request,
\* as when both have one dedupe key; a garbled or failed answer says nothing.
Respond(m) ==
  /\ m.answer = Unanswered
  /\ \E answer \in Answers, done \in BOOLEAN :
       /\ answer.receipt = [id |-> m.delivery.id, message |-> TRUE] => done
       /\ wire' = (wire \ {m}) \cup
                    IF Waits(m) THEN {[m EXCEPT !.answer = answer]} ELSE {}
       /\ accepted' = accepted \cup
            IF done THEN {[sender |-> m.sender, attempt |-> m.attempt,
                           delivery |-> m.delivery]}
                    ELSE {}
  /\ UNCHANGED <<pc, request, application, attempt, result>>

Lose(m) == wire' = wire \ {m} /\ UNCHANGED <<pc, request, application, attempt, accepted, result>>
-----------------------------------------------------------------------------
Step(s) == \/ Refuse(s) \/ EncodeFails(s) \/ Encode(s) \/ Send(s) \/ Receive(s)
           \/ GiveUp(s) \/ RetryTimer(s) \/ CancelBackoff(s)

Network(s) == \E m \in wire : m.sender = s /\ (Respond(m) \/ Lose(m))

Next == \E s \in Senders : \/ \E app \in Applications, r \in Requests : Dispatch(s, app, r)
                           \/ Step(s) \/ Network(s)

Spec == Init /\ [][Next]_vars

\* Goroutines run, and every attempt and every wait has its timer.
FairSpec == Spec /\ \A s \in Senders : WF_vars(Step(s))
-----------------------------------------------------------------------------
\* Whatever the retries, however late Integration works and whatever receipts it
\* returns: all it ever accepts of one Dispatch carries the identity of its request,
\* by which it can tell a repetition, and the workspace of the application it is
\* authenticated for, if perhaps with blanks around it; and Dispatch takes no
\* receipt for its own unless just that delivery has been accepted.
AcceptedAsRequested ==
  /\ \A a \in accepted :
       /\ a.delivery.id = request[a.sender].id
       /\ a.delivery.application = application[a.sender]
       /\ TrimSpace(a.delivery.workspace) = a.delivery.application.workspace
  /\ \A s \in Senders : result[s] = "ok" => \E a \in accepted : a.sender = s

\* Dispatch keeps the contract of a remote effect: at most MaxAttempts attempts,
\* "ok" only with an acceptance behind it, a validation error only with none,
\* and it returns.
Phase == [s \in Senders |-> IF pc[s] = "idle" THEN "idle" ELSE "busy"]
Executed == [s \in Senders |-> {a.attempt : a \in {b \in accepted : b.sender = s}}]

Contract == INSTANCE EffectContract WITH
  Calls <- Senders, Routes <- Requests, NoRoute <- NoRequest,
  Limit <- [r \in Requests |-> MaxAttempts],
  phase <- Phase, route <- request, executed <- Executed

KeepsContract == Contract!FairSpec
=============================================================================
