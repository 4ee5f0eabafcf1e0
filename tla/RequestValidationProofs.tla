----------------------- MODULE RequestValidationProofs -----------------------
(***************************************************************************)
(* The walk over an intent's recipients accepts exactly the addressable    *)
(* intents, of any length, and what one port accepts of a migration or of  *)
(* retention the port of the next step accepts as well.                    *)
(***************************************************************************)
EXTENDS RequestValidation, TLAPS

\* The recipients passed so far are named, distinct, and are those in seen.
Passed(n) == 1..(n - 1)
Walk ==
  request.kind = "intent" =>
    /\ position > 0 => /\ IntentHead(Intent) = "none"
                       /\ position <= Len(Intent.recipients) + 1
    /\ position = 0 => seen = {} /\ verdict # "ok"
    /\ seen = {TrimSpace(Intent.recipients[j]) : j \in Passed(position)}
    /\ \A j \in Passed(position) : Intent.recipients[j].core # ""
    /\ \A j, k \in Passed(position) :
         Intent.recipients[j].core = Intent.recipients[k].core => j = k

OnlyIntentsWalk == position > 0 => request.kind = "intent"

Judged == (request.kind # "intent" /\ verdict = "ok") => Valid(request)

IInv == /\ TypeOK
        /\ OnlyIntentsWalk
        /\ Walk
        /\ IntentVerdictRight
        /\ Judged
-----------------------------------------------------------------------------
\* Of a text, trimming keeps the core and nothing else.
LEMMA TrimmedCore ==
  \A t, u \in Texts : /\ Blank(t) <=> t.core = ""
                      /\ TrimSpace(t) = TrimSpace(u) <=> t.core = u.core
                      /\ TrimSpace(t) \in Texts
<1> SUFFICES ASSUME NEW t \in Texts, NEW u \in Texts
             PROVE  /\ Blank(t) <=> t.core = ""
                    /\ TrimSpace(t) = TrimSpace(u) <=> t.core = u.core
                    /\ TrimSpace(t) \in Texts
  OBVIOUS
<1>1. Blank(t) <=> t.core = ""
  BY DEF Blank, TrimSpace
<1>2. TrimSpace(t) = TrimSpace(u) <=> t.core = u.core
  BY DEF TrimSpace
<1>3. TrimSpace(t) \in Texts
  BY DEF Texts, TrimSpace
<1> QED
  BY <1>1, <1>2, <1>3

\* A subject is complete exactly when it is one of those Addressable lists.
LEMMA CompleteSubjects ==
  ASSUME NEW s \in [type : BOOLEAN, id : BOOLEAN, version : BOOLEAN]
  PROVE  SubjectComplete(s) <=>
           s \in {[type |-> FALSE, id |-> FALSE, version |-> FALSE],
                  [type |-> FALSE, id |-> FALSE, version |-> TRUE],
                  [type |-> TRUE, id |-> TRUE, version |-> TRUE]}
BY DEF SubjectComplete

\* An intent that may be addressed passes the checks before the loop.
LEMMA HeadOfAddressable ==
  ASSUME NEW v \in IntentShape
  PROVE  /\ IntentHead(v) \in Verdicts \ {"ok"}
         /\ Addressable(v) => IntentHead(v) = "none"
         /\ IntentHead(v) = "none" =>
              /\ v.workspace /\ v.identity /\ SubjectComplete(v.subject)
              /\ Len(v.recipients) <= MaximumExplicitRecipients
              /\ v.resolvers \/ Len(v.recipients) > 0
<1>1. v.recipients \in Seq(Texts) /\ v.resolvers \in BOOLEAN
  BY DEF IntentShape
<1>2. Len(v.recipients) \in Nat /\ (v.recipients = <<>> <=> Len(v.recipients) = 0)
  BY <1>1
<1>3. v.subject \in [type : BOOLEAN, id : BOOLEAN, version : BOOLEAN]
  BY DEF IntentShape
<1>4. IntentHead(v) \in Verdicts \ {"ok"}
  BY DEF IntentHead, Verdicts
<1>5. Addressable(v) => IntentHead(v) = "none"
  <2> SUFFICES ASSUME Addressable(v) PROVE IntentHead(v) = "none"
    OBVIOUS
  <2>1. SubjectComplete(v.subject)
    BY <1>3, CompleteSubjects DEF Addressable
  <2>2. /\ v.workspace /\ v.identity
        /\ ~(v.recipients = <<>> /\ ~v.resolvers)
        /\ ~(Len(v.recipients) > MaximumExplicitRecipients)
    <3>1. v.workspace /\ v.identity
      BY DEF Addressable
    <3>2. v.resolvers \/ Len(v.recipients) > 0
      BY DEF Addressable
    <3>3. Len(v.recipients) <= MaximumExplicitRecipients
      BY DEF Addressable
    <3>4. ~(Len(v.recipients) > MaximumExplicitRecipients)
      BY <1>2, <3>3, ValidationSettings
    <3>5. Len(v.recipients) > 0 => v.recipients # <<>>
      BY <1>2
    <3> QED
      BY <3>1, <3>2, <3>4, <3>5
  <2> QED
    BY <2>1, <2>2 DEF IntentHead
<1>6. ASSUME IntentHead(v) = "none"
      PROVE  /\ v.workspace /\ v.identity /\ SubjectComplete(v.subject)
             /\ ~(v.recipients = <<>> /\ ~v.resolvers)
             /\ ~(Len(v.recipients) > MaximumExplicitRecipients)
  BY <1>6 DEF IntentHead
<1> QED
  BY <1>1, <1>2, <1>4, <1>5, <1>6, ValidationSettings
-----------------------------------------------------------------------------
\* Before the walk nothing has been seen.
LEMMA InitHolds == Init => IInv
BY DEF Init, IInv, TypeOK, OnlyIntentsWalk, Walk, IntentVerdictRight, Judged, Passed, Verdicts, Intent

\* Judging another kind of request does not touch the walk.
LEMMA JudgeKeeps == IInv /\ Judge => IInv'
BY DEF IInv, Judge, TypeOK, OnlyIntentsWalk, Walk, IntentVerdictRight, Judged, Passed, Verdicts, Intent

\* The checks before the loop leave the walk at its start.
LEMMA BeginKeeps == IInv /\ Begin => IInv'
<1> SUFFICES ASSUME IInv, Begin PROVE IInv'
  OBVIOUS
<1> USE DEF Intent
<1>1. Intent \in IntentShape
  BY ValidationSettings DEF IInv, TypeOK, Begin
<1>2. Len(Intent.recipients) \in Nat
  BY <1>1 DEF IntentShape
<1>3. verdict' = IntentHead(Intent) /\ request' = request /\ seen' = seen
  BY DEF Begin
<1>4. verdict' \in Verdicts \ {"ok"}
  BY <1>1, <1>3, HeadOfAddressable
<1>5. TypeOK' /\ OnlyIntentsWalk'
  BY <1>2, <1>4 DEF IInv, TypeOK, OnlyIntentsWalk, Begin
<1>6. Walk'
  <2>1. seen = {}
    BY DEF IInv, Walk, Begin
  <2>2. Passed(position') = {}
    BY DEF Begin, Passed
  <2>3. position' = 1 => IntentHead(Intent') = "none"
    BY <1>3 DEF Begin
  <2>4. position' \in {0, 1} /\ (position' = 0 => verdict' # "ok")
    BY <1>3, <1>4 DEF Begin
  <2> QED
    BY <2>1, <2>2, <2>3, <2>4, <1>2, <1>3 DEF Walk
<1>7. IntentVerdictRight'
  BY <1>1, <1>3, <1>4, HeadOfAddressable DEF IntentVerdictRight
<1>8. Judged'
  BY <1>3, <1>4 DEF Judged
<1> QED
  BY <1>5, <1>6, <1>7, <1>8 DEF IInv

\* A walk past the last recipient has found the intent addressable.
LEMMA FinishKeeps == IInv /\ Finish => IInv'
<1> SUFFICES ASSUME IInv, Finish PROVE IInv'
  OBVIOUS
<1> USE DEF Intent
<1>1. Intent \in IntentShape
  BY ValidationSettings DEF IInv, TypeOK, Finish
<1>2. Len(Intent.recipients) \in Nat
  BY <1>1 DEF IntentShape
<1>3. position > 0 /\ Passed(position) = 1..Len(Intent.recipients)
  BY <1>2 DEF Finish, Passed
<1>4. Addressable(Intent)
  <2>1. IntentHead(Intent) = "none"
    BY <1>3 DEF IInv, Walk, Finish
  <2>2. Intent.subject \in [type : BOOLEAN, id : BOOLEAN, version : BOOLEAN]
    BY <1>1 DEF IntentShape
  <2> QED
    BY <1>1, <1>3, <2>1, <2>2, HeadOfAddressable, CompleteSubjects
       DEF Addressable, IInv, Walk, Finish
<1>5. TypeOK' /\ Judged' /\ OnlyIntentsWalk'
  BY DEF IInv, TypeOK, Judged, OnlyIntentsWalk, Verdicts, Finish
<1>6. Walk'
  <2>1. request' = request /\ position' = position /\ seen' = seen
    BY DEF Finish
  <2>2. Passed(position') = Passed(position) /\ position' # 0
    BY <2>1, <1>3
  <2>3. Walk
    BY DEF IInv
  <2> QED
    BY <2>1, <2>2, <2>3 DEF Walk
<1>7. IntentVerdictRight'
  BY <1>4 DEF IntentVerdictRight, Finish
<1> QED
  BY <1>5, <1>6, <1>7 DEF IInv

\* One turn of the loop extends the walk, or has found a blank or a duplicate.
LEMMA ExamineKeeps == IInv /\ Examine => IInv'
<1> SUFFICES ASSUME IInv, Examine PROVE IInv'
  OBVIOUS
<1> DEFINE r == Intent.recipients
           recipient == TrimSpace(r[position])
<1>1. PICK n \in Nat : n = position /\ n > 0 /\ n <= Len(r)
  BY DEF Examine, IInv, TypeOK
<1>2. request.kind = "intent"
  BY <1>1 DEF IInv, OnlyIntentsWalk
<1>3. Intent \in IntentShape /\ r \in Seq(Texts)
  BY <1>2, ValidationSettings DEF IInv, TypeOK, IntentShape, Intent
<1>4. Len(r) \in Nat /\ \A j \in 1..Len(r) : r[j] \in Texts
  BY <1>3
<1>5. Passed(n) \subseteq 1..Len(r) /\ n \in 1..Len(r) /\ n \notin Passed(n)
  BY <1>1, <1>4 DEF Passed
<1>6. request' = request /\ Intent' = Intent
  BY DEF Examine, Intent
<1>7. /\ seen = {TrimSpace(r[j]) : j \in Passed(n)}
      /\ \A j \in Passed(n) : r[j].core # ""
      /\ \A j, k \in Passed(n) : r[j].core = r[k].core => j = k
      /\ IntentHead(Intent) = "none"
  BY <1>1, <1>2 DEF IInv, Walk
<1>8. recipient \in seen <=> \E j \in Passed(n) : r[j].core = r[n].core
  <2>1. \A j \in Passed(n) : TrimSpace(r[j]) = recipient <=> r[j].core = r[n].core
    BY <1>1, <1>4, <1>5, TrimmedCore
  <2> QED
    BY <1>7, <2>1
<1>9. Blank(recipient) <=> r[n].core = ""
  BY <1>1, <1>4, <1>5, TrimmedCore DEF Blank, TrimSpace
<1>10. CASE Blank(recipient) \/ recipient \in seen
  <2>1. verdict' = "audience required" /\ position' = position /\ seen' = seen
    BY <1>10 DEF Examine
  <2>2. ~Addressable(Intent)
    BY <1>5, <1>8, <1>9, <1>10 DEF Addressable
  <2>3. TypeOK' /\ Judged' /\ OnlyIntentsWalk'
    BY <1>2, <1>6, <2>1 DEF IInv, TypeOK, Judged, OnlyIntentsWalk, Verdicts
  <2>4. Walk'
    BY <1>1, <1>6, <2>1 DEF IInv, Walk
  <2>5. IntentVerdictRight'
    BY <1>6, <2>1, <2>2 DEF IntentVerdictRight
  <2> QED
    BY <2>3, <2>4, <2>5 DEF IInv
<1>11. CASE ~Blank(recipient) /\ recipient \notin seen
  <2>1. /\ verdict' = verdict /\ verdict = "none"
        /\ position' = n + 1
        /\ seen' = seen \cup {TrimSpace(r[n])}
    BY <1>1, <1>11 DEF Examine
  <2>2. Passed(n + 1) = Passed(n) \cup {n}
    BY <1>1 DEF Passed
  <2>3. TypeOK' /\ Judged' /\ IntentVerdictRight' /\ OnlyIntentsWalk'
    BY <1>1, <1>2, <1>4, <1>6, <2>1
       DEF IInv, TypeOK, Judged, IntentVerdictRight, OnlyIntentsWalk, Verdicts
  <2>4. seen' = {TrimSpace(r[j]) : j \in Passed(n + 1)}
    BY <1>7, <2>1, <2>2
  <2>5. \A j \in Passed(n + 1) : r[j].core # ""
    BY <1>7, <1>9, <1>11, <2>2
  <2>6. \A j, k \in Passed(n + 1) : r[j].core = r[k].core => j = k
    BY <1>7, <1>8, <1>11, <2>2
  <2>7. position' > 0 /\ position' # 0 /\ position' <= Len(r) + 1
    BY <1>1, <1>4, <2>1
  <2>8. Walk'
    BY <1>6, <1>7, <2>1, <2>4, <2>5, <2>6, <2>7 DEF Walk
  <2> QED
    BY <2>3, <2>8 DEF IInv
<1> QED
  BY <1>10, <1>11
-----------------------------------------------------------------------------
\* The walk and its verdict agree with the intent whatever was asked, so type
\* correctness holds with them.
THEOREM Invariant == Spec => []IInv
<1>1. IInv /\ [Next]_vars => IInv'
  <2> SUFFICES ASSUME IInv, [Next]_vars PROVE IInv'
    OBVIOUS
  <2>1. CASE Judge
    BY <2>1, JudgeKeeps
  <2>2. CASE Begin
    BY <2>2, BeginKeeps
  <2>3. CASE Examine
    BY <2>3, ExamineKeeps
  <2>4. CASE Finish
    BY <2>4, FinishKeeps
  <2>5. CASE UNCHANGED vars
    BY <2>5 DEF vars, IInv, TypeOK, OnlyIntentsWalk, Walk, IntentVerdictRight, Judged, Intent
  <2> QED
    BY <2>1, <2>2, <2>3, <2>4, <2>5 DEF Next
<1> QED
  BY <1>1, InitHolds, PTL DEF Spec

\* Every variable keeps its type and the walk stays within the recipients.
THEOREM TypeCorrect == Spec => []TypeOK
<1>1. IInv => TypeOK
  BY DEF IInv
<1> QED
  BY <1>1, Invariant, PTL

\* NotificationIntent.Validate accepts exactly the addressable intents, however
\* many recipients they name and however those are padded.
THEOREM IntentsJudgedRight == Spec => []IntentVerdictRight
<1>1. IInv => IntentVerdictRight
  BY DEF IInv
<1> QED
  BY <1>1, Invariant, PTL

\* Import accepts no bundle whose migration Activate or Rollback would refuse to
\* name, and the previews and the batches of retention are accepted alike.
THEOREM AcceptedAlwaysLeadsOn == Spec => []AcceptedLeadsOn
<1>1. IInv => AcceptedLeadsOn
  <2> SUFFICES ASSUME IInv, verdict = "ok" PROVE AcceptedLeadsOn
    BY DEF AcceptedLeadsOn
  <2> DEFINE r == request.value
  <2>1. ASSUME request.kind = "bundle" PROVE CommandValid(Following(r))
    <3>1. BundleValid(r)
      BY <2>1 DEF IInv, Judged, Valid
    <3> QED
      BY <3>1 DEF BundleValid, CommandValid, Following
  <2>2. ASSUME request.kind = "batch" PROVE PreviewValid(Previewing(r))
    <3>1. BatchValid(r)
      BY <2>2 DEF IInv, Judged, Valid
    <3> QED
      BY <3>1 DEF BatchValid, PreviewValid, Previewing
  <2>3. ASSUME request.kind = "preview",
               NEW operation \in {"archive", "purge"}, NEW limit \in 1..1000
        PROVE  BatchValid(Carrying(r, operation, limit))
    <3>1. PreviewValid(r)
      BY <2>3 DEF IInv, Judged, Valid
    <3> QED
      BY <3>1 DEF BatchValid, PreviewValid, Carrying
  <2> QED
    BY <2>1, <2>2, <2>3 DEF AcceptedLeadsOn
<1> QED
  BY <1>1, Invariant, PTL
=============================================================================
