----------------------- MODULE DeliveryDispatchProofs -----------------------
(***************************************************************************)
(* Proofs about DeliveryDispatch, for any senders, requests, applications  *)
(* and number of attempts.                                                 *)
(***************************************************************************)
EXTENDS DeliveryDispatch, TLAPS

\* What s sends, in each of its attempts.
Sent(s) == [id |-> request[s].id, workspace |-> request[s].workspace,
            application |-> application[s]]

\* What is on the wire, and what has been accepted, belongs to an attempt of the
\* dispatch under way or just over, and is what that dispatch sends.
OfThisDispatch ==
  /\ \A s \in Senders : attempt[s] <= MaxAttempts
  /\ \A m \in wire : /\ m.attempt \in 1..attempt[m.sender]
                     /\ m.delivery = Sent(m.sender)
  /\ \A a \in accepted : /\ a.attempt \in 1..attempt[a.sender]
                         /\ a.delivery = Sent(a.sender)

\* No attempt is made of a request that is not valid, and an attempt about to be
\* made is a new one.
StageCoherent ==
  \A s \in Senders :
    /\ pc[s] # "idle" \/ attempt[s] > 0 => /\ request[s] \in Requests
                                           /\ application[s] \in Applications
    /\ attempt[s] > 0 => Valid(application[s], request[s])
    /\ pc[s] = "validate" \/ result[s] = "refused" => attempt[s] = 0
    /\ pc[s] \in {"perform", "await", "backoff"} => attempt[s] > 0
    /\ pc[s] = "backoff" => attempt[s] < MaxAttempts
    /\ pc[s] = "perform" =>
         /\ \A m \in wire : m.sender = s => m.attempt < attempt[s]
         /\ \A a \in accepted : a.sender = s => a.attempt < attempt[s]
    /\ pc[s] # "idle" => result[s] = "none"

\* A request on the wire has not been accepted; behind every receipt on the wire
\* that names what was asked for there is an acceptance, and so there is behind
\* every receipt that was returned.
ReceiptsTrue ==
  /\ \A m \in wire :
       /\ m.answer = Unanswered => m.attempt \notin Executed[m.sender]
       /\ m.answer.receipt = [id |-> m.delivery.id, message |-> TRUE]
            => m.attempt \in Executed[m.sender]
  /\ \A s \in Senders : result[s] = "ok" => Executed[s] # {}

IInv == TypeOK /\ OfThisDispatch /\ StageCoherent /\ ReceiptsTrue
-----------------------------------------------------------------------------
\* NewRemote leaves a positive number of attempts.
LEMMA MaxAttemptsPositive == MaxAttempts \in Nat \ {0}
BY DispatchSettings DEF MaxAttempts

\* The attempts of one sender that were accepted.
LEMMA ExecutedMember ==
  \A s \in Senders : \A n : n \in Executed[s] <=>
                               \E a \in accepted : a.sender = s /\ a.attempt = n
BY DEF Executed

\* An acceptance adds to the attempts of its sender and to nobody else's.
LEMMA Accepting ==
  ASSUME NEW m, accepted' = accepted \cup
                  {[sender |-> m.sender, attempt |-> m.attempt, delivery |-> m.delivery]}
  PROVE  \A s \in Senders : Executed'[s] = IF s = m.sender
                                            THEN Executed[s] \cup {m.attempt}
                                            ELSE Executed[s]
<1> TAKE s \in Senders
<1>1. \A i : i \in Executed'[s] <=> \E a \in accepted' : a.sender = s /\ a.attempt = i
  BY DEF Executed
<1>2. ASSUME NEW i
      PROVE  (\E a \in accepted' : a.sender = s /\ a.attempt = i) <=>
                \/ \E a \in accepted : a.sender = s /\ a.attempt = i
                \/ s = m.sender /\ i = m.attempt
  <2> DEFINE new == [sender |-> m.sender, attempt |-> m.attempt, delivery |-> m.delivery]
  <2>1. new.sender = m.sender /\ new.attempt = m.attempt
    OBVIOUS
  <2>2. accepted' = accepted \cup {new}
    OBVIOUS
  <2> HIDE DEF new
  <2> QED
    BY <2>1, <2>2
<1>3. \A i : i \in Executed'[s] <=> i \in Executed[s] \/ (s = m.sender /\ i = m.attempt)
  BY <1>1, <1>2, ExecutedMember
<1> QED
  BY <1>3

\* At first nobody dispatches anything.
LEMMA InitIInv == Init => IInv
BY MaxAttemptsPositive
   DEF Init, IInv, TypeOK, OfThisDispatch, StageCoherent, ReceiptsTrue, Results

\* A return that leaves the wire alone, or takes away from it, keeps everything, if
\* a refusal follows no attempt.
LEMMA ReturnKeeps ==
  ASSUME IInv, NEW s \in Senders, NEW res \in Results, Return(s, res),
         pc[s] # "idle", res = "refused" => attempt[s] = 0,
         res = "ok" => Executed[s] # {}, wire' \subseteq wire
  PROVE  IInv'
<1> USE DEF IInv, Return, Goto
<1>1. TypeOK'
  BY DEF TypeOK
<1>2. OfThisDispatch'
  BY DEF OfThisDispatch, Sent
<1>3. StageCoherent'
  BY DEF StageCoherent, TypeOK
<1>4. ReceiptsTrue'
  BY DEF ReceiptsTrue, Executed
<1> QED
  BY <1>1, <1>2, <1>3, <1>4

\* The loop body after perform: to the backoff, or back to the caller.
LEMMA ConcludeKeeps ==
  ASSUME IInv, NEW s \in Senders, NEW o \in Outcomes, Conclude(s, o),
         pc[s] = "await", wire' \subseteq wire, o = "receipt" => Executed[s] # {}
  PROVE  IInv'
<1>1. CASE Retried(o) /\ attempt[s] < MaxAttempts
  <2> USE <1>1 DEF IInv, Conclude, Goto
  <2>1. TypeOK'
    BY DEF TypeOK
  <2>2. OfThisDispatch'
    BY DEF OfThisDispatch, Sent
  <2>3. StageCoherent'
    BY DEF StageCoherent, TypeOK
  <2>4. ReceiptsTrue'
    BY DEF ReceiptsTrue, Executed
  <2> QED
    BY <2>1, <2>2, <2>3, <2>4
<1>2. CASE ~(Retried(o) /\ attempt[s] < MaxAttempts)
  <2>1. PICK res \in {"ok", "error"} : /\ Return(s, res)
                                       /\ res = "ok" => o = "receipt"
    BY <1>2 DEF Conclude
  <2> QED
    BY <2>1, ReturnKeeps DEF Results
<1> QED
  BY <1>1, <1>2

\* An attempt is concluded as its own receipt only when it has been accepted.
LEMMA Concluding ==
  ASSUME IInv, NEW s \in Senders, Receive(s) \/ GiveUp(s)
  PROVE  \E o \in Outcomes : Conclude(s, o) /\ (o = "receipt" => Executed[s] # {})
<1>1. CASE GiveUp(s)
  BY <1>1 DEF GiveUp, Outcomes
<1>2. CASE Receive(s)
  <2>1. PICK m \in wire :
          /\ m.sender = s /\ m.answer \in Answers
          /\ IF m.answer.status = "receipt" /\ ~Matches(s, m.answer.receipt)
               THEN Conclude(s, "mismatch")
               ELSE Conclude(s, m.answer.status)
    BY <1>2 DEF Receive
  <2>2. CASE m.answer.status = "receipt" /\ Matches(s, m.answer.receipt)
    <3>1. m.answer.receipt \in [id : Ids, message : BOOLEAN]
      BY <2>1, <2>2 DEF Answers, Receipts
    <3>2. m.delivery.id = request[s].id
      <4>1. m \in wire /\ m.sender = s
        BY <2>1
      <4>2. m.delivery = Sent(s)
        BY <4>1 DEF IInv, OfThisDispatch
      <4> QED
        BY <4>2 DEF Sent
    <3>3. m.answer.receipt.id = m.delivery.id /\ m.answer.receipt.message = TRUE
      BY <2>2, <3>1, <3>2 DEF Matches
    <3>4. m.answer.receipt = [id |-> m.delivery.id, message |-> TRUE]
      BY <3>1, <3>3
    <3>5. Executed[s] # {}
      BY <2>1, <3>4 DEF IInv, ReceiptsTrue
    <3> QED
      BY <2>1, <2>2, <3>5 DEF Outcomes
  <2>3. CASE m.answer.status = "receipt" /\ ~Matches(s, m.answer.receipt)
    BY <2>1, <2>3 DEF Outcomes
  <2>4. CASE m.answer.status # "receipt"
    BY <2>1, <2>4 DEF Outcomes, Answers
  <2> QED
    BY <2>2, <2>3, <2>4
<1> QED
  BY <1>1, <1>2

\* Every step keeps the strengthened invariant.
LEMMA IInvStep == IInv /\ [Next]_vars => IInv'
<1> SUFFICES ASSUME IInv, [Next]_vars PROVE IInv'
  OBVIOUS
<1> USE DEF Goto
<1>1. ASSUME NEW s \in Senders, NEW app \in Applications, NEW r \in Requests,
             Dispatch(s, app, r) PROVE IInv'
  <2> USE <1>1 DEF IInv, Dispatch
  <2>1. TypeOK'
    BY DEF TypeOK, Results
  <2>2. OfThisDispatch'
    BY MaxAttemptsPositive DEF OfThisDispatch, Sent, TypeOK, Messages
  <2>3. StageCoherent'
    BY DEF StageCoherent, TypeOK, Messages
  <2>4. ReceiptsTrue'
    <3>1. \A n \in wire : n.sender \in Senders \ {s}
      BY DEF TypeOK, Messages
    <3>2. \A d \in Senders \ {s} : Executed'[d] = Executed[d]
      BY DEF Executed
    <3>3. \A d \in Senders : result'[d] = "ok" => d # s /\ result[d] = "ok"
      BY DEF TypeOK
    <3> QED
      BY <3>1, <3>2, <3>3 DEF ReceiptsTrue
  <2> QED
    BY <2>1, <2>2, <2>3, <2>4
<1>2. ASSUME NEW s \in Senders,
             Refuse(s) \/ EncodeFails(s) \/ CancelBackoff(s)
      PROVE  IInv'
  <2>1. PICK res \in Results : /\ Return(s, res) /\ res # "ok"
                               /\ res = "refused" => pc[s] = "validate"
    BY <1>2 DEF Refuse, EncodeFails, CancelBackoff, Results
  <2>2. pc[s] # "idle" /\ wire' = wire
    BY <1>2 DEF Refuse, EncodeFails, CancelBackoff
  <2> QED
    BY <2>1, <2>2, ReturnKeeps DEF IInv, StageCoherent
<1>3. ASSUME NEW s \in Senders, Encode(s) \/ RetryTimer(s) PROVE IInv'
  <2> USE <1>3, MaxAttemptsPositive DEF IInv, Encode, RetryTimer
  <2>1. TypeOK'
    BY DEF TypeOK
  <2>2. OfThisDispatch'
    <3>1. /\ wire' = wire /\ accepted' = accepted
          /\ \A d \in Senders : Sent(d)' = Sent(d)
      BY DEF Sent
    <3>2. \A d \in Senders : /\ attempt[d] \in Nat /\ attempt'[d] \in Nat
                             /\ attempt[d] <= attempt'[d] /\ attempt'[d] <= MaxAttempts
      BY DEF OfThisDispatch, StageCoherent, TypeOK
    <3>3. \A d \in Senders : 1..attempt[d] \subseteq 1..attempt'[d]
      BY <3>2
    <3>4. /\ \A m \in wire : m.sender \in Senders
          /\ \A a \in accepted : a.sender \in Senders
      BY DEF TypeOK, Messages
    <3>5. \A d \in Senders : attempt'[d] <= MaxAttempts
      BY <3>2
    <3>6. \A m \in wire : m.attempt \in 1..attempt'[m.sender] /\ m.delivery = Sent(m.sender)'
      BY <3>1, <3>3, <3>4 DEF OfThisDispatch
    <3>7. \A a \in accepted : a.attempt \in 1..attempt'[a.sender] /\ a.delivery = Sent(a.sender)'
      BY <3>1, <3>3, <3>4 DEF OfThisDispatch
    <3> QED
      BY <3>1, <3>5, <3>6, <3>7 DEF OfThisDispatch
  <2>3. StageCoherent'
    <3>1. /\ pc'[s] = "perform" /\ Valid(application[s], request[s]) /\ result[s] = "none"
          /\ request[s] \in Requests /\ application[s] \in Applications
      BY DEF StageCoherent, TypeOK
    <3>2. attempt'[s] \in Nat /\ attempt[s] \in Nat /\ attempt'[s] = attempt[s] + 1
      BY DEF StageCoherent, TypeOK
    <3>3. /\ \A m \in wire : m.sender = s => m.attempt \in 1..attempt[s]
          /\ \A a \in accepted : a.sender = s => a.attempt \in 1..attempt[s]
      BY DEF OfThisDispatch
    <3>4. /\ \A m \in wire : m.sender = s => m.attempt < attempt'[s]
          /\ \A a \in accepted : a.sender = s => a.attempt < attempt'[s]
      BY <3>2, <3>3
    <3>5. \A d \in Senders : d # s => pc'[d] = pc[d] /\ attempt'[d] = attempt[d]
      BY DEF TypeOK
    <3> QED
      BY <3>1, <3>2, <3>4, <3>5 DEF StageCoherent
  <2>4. ReceiptsTrue'
    BY DEF ReceiptsTrue, Executed
  <2> QED
    BY <2>1, <2>2, <2>3, <2>4
<1>4. ASSUME NEW s \in Senders, Send(s) PROVE IInv'
  <2> USE <1>4 DEF IInv, Send
  <2>1. Attempt(s) \in Messages
    <3>1. Sent(s) \in Deliveries
      BY DispatchSettings DEF StageCoherent, Sent, Deliveries, Ids
    <3> QED
      BY <3>1 DEF Attempt, Sent, Messages, TypeOK
  <2>2. TypeOK'
    BY <2>1 DEF TypeOK
  <2>3. OfThisDispatch'
    BY DEF OfThisDispatch, StageCoherent, Attempt, Sent, TypeOK
  <2>4. StageCoherent'
    BY DEF StageCoherent, TypeOK, Attempt
  <2>5. attempt[s] \notin Executed[s]
    BY ExecutedMember DEF StageCoherent, TypeOK
  <2>6. ReceiptsTrue'
    <3>1. /\ Attempt(s).sender = s /\ Attempt(s).attempt = attempt[s]
          /\ Attempt(s).answer.receipt = NoReceipt
      BY DEF Attempt, Unanswered
    <3>2. \A i : NoReceipt # [id |-> i, message |-> TRUE]
      BY DEF NoReceipt
    <3>3. Executed' = Executed /\ result' = result
      BY DEF Executed
    <3> QED
      BY <2>5, <3>1, <3>2, <3>3 DEF ReceiptsTrue
  <2> QED
    BY <2>2, <2>3, <2>4, <2>6
<1>5. ASSUME NEW s \in Senders, Receive(s) \/ GiveUp(s) PROVE IInv'
  <2>1. \E o \in Outcomes : Conclude(s, o) /\ (o = "receipt" => Executed[s] # {})
    BY <1>5, Concluding
  <2>2. pc[s] = "await" /\ wire' \subseteq wire
    BY <1>5 DEF Receive, GiveUp
  <2> QED
    BY <2>1, <2>2, ConcludeKeeps
<1>6. ASSUME NEW m \in wire, Respond(m) PROVE IInv'
  <2> USE DEF IInv
  <2>1. PICK answer \in Answers, done \in BOOLEAN :
          /\ answer.receipt = [id |-> m.delivery.id, message |-> TRUE] => done
          /\ wire' = (wire \ {m}) \cup
                       IF Waits(m) THEN {[m EXCEPT !.answer = answer]} ELSE {}
          /\ accepted' = accepted \cup
               IF done THEN {[sender |-> m.sender, attempt |-> m.attempt, delivery |-> m.delivery]}
                       ELSE {}
    BY <1>6 DEF Respond
  <2>2. m.answer = Unanswered /\ UNCHANGED <<pc, request, application, attempt, result>>
    BY <1>6 DEF Respond
  <2>3. /\ m \in Messages /\ m.attempt \in 1..attempt[m.sender]
        /\ m.delivery = Sent(m.sender) /\ attempt[m.sender] \in 0..MaxAttempts
    BY DEF TypeOK, OfThisDispatch, Messages
  <2>4. [m EXCEPT !.answer = answer] \in Messages
    BY <2>3 DEF Messages
  <2>5. m.attempt \in 1..MaxAttempts
    BY <2>3, MaxAttemptsPositive
  <2>6. TypeOK'
    BY <2>1, <2>2, <2>3, <2>4, <2>5 DEF TypeOK, Messages
  <2>7. OfThisDispatch'
    BY <2>1, <2>2, <2>3 DEF OfThisDispatch, Messages, Sent
  <2>8. StageCoherent'
    BY <2>1, <2>2, <2>3 DEF StageCoherent, Messages, TypeOK
  <2>9. ReceiptsTrue'
    <3>1. \A n \in wire : n.answer = Unanswered /\ n.sender = m.sender
                            /\ n.attempt = m.attempt => n = m
      BY <2>2, <2>3 DEF OfThisDispatch, TypeOK, Messages
    <3>2. \A s \in Senders : Executed'[s] = IF done /\ s = m.sender
                                              THEN Executed[s] \cup {m.attempt}
                                              ELSE Executed[s]
      <4>1. CASE done
        BY <2>1, <4>1, Accepting
      <4>2. CASE ~done
        BY <2>1, <4>2 DEF Executed
      <4> QED
        BY <4>1, <4>2
    <3>3. \A n \in wire : n.sender \in Senders
      BY DEF TypeOK, Messages
    <3>4. \A n \in wire' : n \in wire \ {m} \/
            /\ n.sender = m.sender /\ n.attempt = m.attempt
            /\ n.delivery = m.delivery /\ n.answer = answer
      BY <2>1, <2>3 DEF Messages
    <3>5. answer # Unanswered
      BY DEF Answers, Unanswered
    <3>6. ASSUME NEW n \in wire \ {m}
          PROVE  /\ n.answer = Unanswered => n.attempt \notin Executed'[n.sender]
                 /\ n.answer.receipt = [id |-> n.delivery.id, message |-> TRUE]
                      => n.attempt \in Executed'[n.sender]
      BY <3>1, <3>2, <3>3, <3>6 DEF ReceiptsTrue
    <3>7. answer.receipt = [id |-> m.delivery.id, message |-> TRUE]
            => m.attempt \in Executed'[m.sender]
      BY <2>1, <3>2, <3>3
    <3>8. \A s \in Senders : result'[s] = "ok" => Executed'[s] # {}
      BY <2>2, <3>2 DEF ReceiptsTrue
    <3> QED
      BY <3>4, <3>5, <3>6, <3>7, <3>8 DEF ReceiptsTrue
  <2> QED
    BY <2>6, <2>7, <2>8, <2>9
<1>7. ASSUME NEW m \in wire, Lose(m) PROVE IInv'
  BY <1>7 DEF Lose, IInv, TypeOK, OfThisDispatch, Sent, StageCoherent, ReceiptsTrue, Executed
<1>8. CASE UNCHANGED vars
  BY <1>8 DEF vars, IInv, TypeOK, OfThisDispatch, Sent, StageCoherent, ReceiptsTrue, Executed
<1> QED
  BY <1>1, <1>2, <1>3, <1>4, <1>5, <1>6, <1>7, <1>8 DEF Next, Step, Network

\* The strengthened invariant holds in every state.
THEOREM Invariant == Spec => []IInv
BY InitIInv, IInvStep, PTL DEF Spec
-----------------------------------------------------------------------------
\* Every variable keeps its type.
THEOREM TypeCorrect == Spec => []TypeOK
BY Invariant, PTL DEF IInv

\* All that Integration accepts of a dispatch has the identity of its request and,
\* read without the blanks around it, the workspace of the application it is
\* authenticated for; and behind every receipt returned there is such an acceptance.
THEOREM AlwaysAcceptedAsRequested == Spec => []AcceptedAsRequested
<1>1. ASSUME IInv, NEW a \in accepted
      PROVE  /\ a.delivery.id = request[a.sender].id
             /\ a.delivery.application = application[a.sender]
             /\ TrimSpace(a.delivery.workspace) = a.delivery.application.workspace
  <2>1. a.sender \in Senders /\ attempt[a.sender] \in Nat /\ a.attempt \in Nat
    BY <1>1 DEF IInv, TypeOK
  <2>2. a.delivery = Sent(a.sender) /\ a.attempt \in 1..attempt[a.sender]
    BY <1>1 DEF IInv, OfThisDispatch
  <2>3. Valid(application[a.sender], request[a.sender])
    BY <1>1, <2>1, <2>2 DEF IInv, StageCoherent
  <2> QED
    BY <2>2, <2>3 DEF Valid, Sent
<1>2. ASSUME IInv, NEW s \in Senders, result[s] = "ok"
      PROVE  \E a \in accepted : a.sender = s
  BY <1>2 DEF IInv, ReceiptsTrue, Executed
<1>3. IInv => AcceptedAsRequested
  BY <1>1, <1>2 DEF AcceptedAsRequested
<1> QED
  BY <1>3, Invariant, PTL
-----------------------------------------------------------------------------
(* The implementation of EffectContract                                    *)

\* The initial states are initial states of the contract.
LEMMA ContractInit == Init => Contract!Init
BY DEF Init, Contract!Init, Phase, Executed

\* A return of Dispatch is one of the contract, if the contract allows its result.
LEMMA ReturnMaps ==
  ASSUME TypeOK, NEW s \in Senders, NEW res \in Results \ {"none"}, Return(s, res),
         pc[s] # "idle", res = "ok" => Executed[s] # {},
         res = "refused" => Executed[s] = {}
  PROVE  Contract!Next
<1>1. Phase' = [Phase EXCEPT ![s] = "idle"] /\ Phase[s] = "busy" /\ Executed' = Executed
  BY DEF Phase, Executed, Return, Goto, TypeOK
<1>2. Contract!Return(s, res)
  BY <1>1 DEF Contract!Return, Return
<1> QED
  BY <1>2 DEF Contract!Next

\* A step from one busy stage to another is invisible to the contract.
LEMMA BusyStutters ==
  ASSUME TypeOK, NEW s \in Senders, NEW stage, stage # "idle", pc[s] # "idle",
         Goto(s, stage), UNCHANGED <<request, accepted, result>>
  PROVE  UNCHANGED Contract!vars
<1>1. Phase' = Phase /\ Executed' = Executed
  BY DEF Phase, Executed, Goto, TypeOK
<1> QED
  BY <1>1 DEF Contract!vars

\* Every step is a step of the contract or a stutter of it.
LEMMA ContractStep ==
  ASSUME IInv, [Next]_vars PROVE [Contract!Next]_(Contract!vars)
<1> USE DEF IInv
<1>1. ASSUME NEW s \in Senders, NEW app \in Applications, NEW r \in Requests,
             Dispatch(s, app, r)
      PROVE  Contract!Next
  <2>1. Phase' = [Phase EXCEPT ![s] = "busy"] /\ Phase[s] = "idle"
    BY <1>1 DEF Phase, Dispatch, Goto, TypeOK
  <2>2. Executed' = [Executed EXCEPT ![s] = {}]
    BY <1>1 DEF Executed, Dispatch, TypeOK
  <2>3. Contract!Begin(s, r)
    BY <1>1, <2>1, <2>2 DEF Contract!Begin, Dispatch
  <2> QED
    BY <2>3 DEF Contract!Next
<1>2. ASSUME NEW s \in Senders,
             Refuse(s) \/ EncodeFails(s) \/ CancelBackoff(s)
      PROVE  Contract!Next
  <2>1. PICK res \in Results \ {"none", "ok"} :
          /\ Return(s, res)
          /\ res = "refused" => pc[s] = "validate"
    BY <1>2 DEF Refuse, EncodeFails, CancelBackoff, Results
  <2>2. pc[s] # "idle"
    BY <1>2 DEF Refuse, EncodeFails, CancelBackoff
  <2>3. pc[s] = "validate" => Executed[s] = {}
    BY DEF Executed, StageCoherent, OfThisDispatch, TypeOK
  <2> QED
    BY <2>1, <2>2, <2>3, ReturnMaps
<1>3. ASSUME NEW s \in Senders, Encode(s) \/ Send(s) \/ RetryTimer(s)
      PROVE  UNCHANGED Contract!vars
  <2>1. PICK stage \in {"perform", "await"} : Goto(s, stage)
    BY <1>3 DEF Encode, Send, RetryTimer
  <2>2. pc[s] # "idle" /\ UNCHANGED <<request, accepted, result>>
    BY <1>3 DEF Encode, Send, RetryTimer
  <2> QED
    BY <2>1, <2>2, BusyStutters
<1>4. ASSUME NEW s \in Senders, Receive(s) \/ GiveUp(s)
      PROVE  [Contract!Next]_(Contract!vars)
  <2>1. PICK o \in Outcomes : Conclude(s, o) /\ (o = "receipt" => Executed[s] # {})
    BY <1>4, Concluding
  <2>2. pc[s] = "await"
    BY <1>4 DEF Receive, GiveUp
  <2>3. o = "receipt" => Executed[s] # {}
    BY <2>1
  <2>4. CASE Retried(o) /\ attempt[s] < MaxAttempts
    BY <2>1, <2>2, <2>4, BusyStutters DEF Conclude
  <2>5. CASE ~(Retried(o) /\ attempt[s] < MaxAttempts)
    BY <2>1, <2>2, <2>3, <2>5, ReturnMaps DEF Conclude, Results
  <2> QED
    BY <2>4, <2>5
<1>5. ASSUME NEW m \in wire, Respond(m) PROVE [Contract!Next]_(Contract!vars)
  <2>1. Phase' = Phase /\ UNCHANGED <<request, result>>
    BY <1>5 DEF Respond, Phase
  <2>2. m \in Messages /\ m.answer = Unanswered /\ m.attempt \in 1..attempt[m.sender]
    BY <1>5 DEF Respond, TypeOK, OfThisDispatch
  <2>3. CASE accepted' = accepted
    BY <2>1, <2>3 DEF Contract!vars, Executed
  <2>4. CASE accepted' = accepted \cup
               {[sender |-> m.sender, attempt |-> m.attempt, delivery |-> m.delivery]}
    <3>1. m.sender \in Senders /\ attempt[m.sender] \in Nat /\ m.attempt \in Nat
      BY <2>2 DEF Messages, TypeOK
    <3>2. m.attempt \notin Executed[m.sender]
      BY <2>2 DEF ReceiptsTrue
    <3>3. m.attempt \in 1..MaxAttempts
      BY <2>2, <3>1, MaxAttemptsPositive DEF OfThisDispatch
    <3>4. Valid(application[m.sender], request[m.sender]) /\ result[m.sender] # "refused"
      BY <2>2, <3>1 DEF StageCoherent
    <3>5. request[m.sender] \in Requests /\ request[m.sender] # NoRequest
      BY <2>2, <3>1, DispatchSettings DEF StageCoherent
    <3>6. Executed' = [Executed EXCEPT ![m.sender] = @ \cup {m.attempt}]
      <4>1. /\ Executed = [s \in Senders |-> Executed[s]]
            /\ Executed' = [s \in Senders |-> Executed'[s]]
        BY DEF Executed
      <4> QED
        BY <2>4, <3>1, <4>1, Accepting
    <3>7. Contract!Execute(m.sender, m.attempt)
      BY <2>1, <3>2, <3>3, <3>4, <3>5, <3>6 DEF Contract!Execute
    <3> QED
      BY <3>1, <3>3, <3>5, <3>7 DEF Contract!Next
  <2> QED
    BY <1>5, <2>3, <2>4 DEF Respond
<1>6. ASSUME NEW m \in wire, Lose(m) PROVE UNCHANGED Contract!vars
  BY <1>6 DEF Lose, Contract!vars, Phase, Executed
<1>7. CASE UNCHANGED vars
  BY <1>7 DEF vars, Contract!vars, Phase, Executed
<1> QED
  BY <1>1, <1>2, <1>3, <1>4, <1>5, <1>6, <1>7 DEF Next, Step, Network

\* Dispatch implements the safety part of the contract of a remote effect.  (That
\* it returns is liveness: TLC's part.)
THEOREM ImplementsContract == Spec => Contract!Spec
BY ContractInit, ContractStep, Invariant, PTL DEF Spec, Contract!Spec
=============================================================================
