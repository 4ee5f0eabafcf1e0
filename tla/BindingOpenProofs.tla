-------------------------- MODULE BindingOpenProofs --------------------------
(***************************************************************************)
(* Proofs about BindingOpen, for any releases, whatever their categories,  *)
(* any upgrades between them, and any applications and configurations.     *)
(***************************************************************************)
EXTENDS BindingOpen, TLAPS

\* What a release discloses of itself in its summary.
SummaryOf(r) == [key |-> r.key, sha |-> r.sha, documents |-> r.documents]

Read == {"categories", "bundle", "open", "validate"}

\* Once the summary is read, it is that of a release with the expected digest;
\* before, and after a failure, there is nothing.
SummaryExpected ==
  /\ pc \in Read => \E r \in Releases : r.sha = config.sha /\ summary = SummaryOf(r)
  /\ pc \notin Read => summary = NoSummary /\ categories = <<>>

\* An open binding has exactly the documents of its summary.
BundleChecked == pc \in {"open", "validate"} => categories = summary.documents

IInv == TypeOK /\ SummaryExpected /\ BundleChecked /\ VerdictFromDisclosedContract
-----------------------------------------------------------------------------
\* A factory opens nothing before it is asked.
LEMMA InitIInv == Init => IInv
BY DEF Init, IInv, TypeOK, Stages, SummaryExpected, BundleChecked, Read,
       VerdictFromDisclosedContract, NoVerdict

\* Whatever fails, nothing of what was read is left.
LEMMA FailKeeps ==
  ASSUME IInv, Fail, Frame, pc \notin {"open", "validate"} PROVE IInv'
BY DEF Fail, Frame, IInv, TypeOK, Stages, SummaryExpected, BundleChecked, Read,
       VerdictFromDisclosedContract, NoVerdict

\* Every step keeps the strengthened invariant.
LEMMA IInvStep == IInv /\ [Next]_vars => IInv'
<1> SUFFICES ASSUME IInv, [Next]_vars PROVE IInv'
  OBVIOUS
<1> USE DEF IInv, TypeOK, Stages, SummaryExpected, BundleChecked, Read,
            VerdictFromDisclosedContract, NoVerdict
<1>1. CASE Configure \/ Describe \/ CallFails
  <2>1. CASE Fail
    BY <1>1, <2>1, FailKeeps DEF Configure, Describe, CallFails
  <2>2. CASE ~Fail
    BY <1>1, <2>2 DEF Configure, Describe, CallFails, Proceed, Frame
  <2> QED
    BY <2>1, <2>2
<1>2. CASE Summarize
  <2>1. CASE Fail
    BY <1>2, <2>1, FailKeeps DEF Summarize
  <2>2. CASE ~Fail
    <3>1. summary' = SummaryOf(service) /\ service.sha = config.sha
      BY <1>2, <2>2 DEF Summarize, SummaryOf
    <3>2. pc' = "categories" /\ categories' = <<>> /\ verdict' = verdict /\ Frame
      BY <1>2, <2>2 DEF Summarize
    <3> QED
      BY <1>2, <3>1, <3>2 DEF Frame, SummaryOf, Summarize
  <2> QED
    BY <2>1, <2>2
<1>3. ASSUME NEW k \in Pending, Categorize(k) PROVE IInv'
  <2>1. CASE Fail
    BY <1>3, <2>1, FailKeeps DEF Categorize
  <2>2. CASE ~Fail
    <3>1. DOMAIN categories' = DOMAIN categories \cup {k}
      BY <1>3, <2>2 DEF Categorize
    <3> QED
      BY <1>3, <2>2, <3>1 DEF Categorize, Frame, Pending
  <2> QED
    BY <2>1, <2>2
<1>4. CASE CategoriesDone
  BY <1>4 DEF CategoriesDone, Proceed, Frame
<1>5. CASE ValidateBundle
  <2>1. CASE Fail
    BY <1>5, <2>1, FailKeeps DEF ValidateBundle
  <2>2. CASE ~Fail
    BY <1>5, <2>2 DEF ValidateBundle, Proceed, Frame
  <2> QED
    BY <2>1, <2>2
<1>6. CASE Ask \/ JudgeFails
  BY <1>6 DEF Ask, JudgeFails, Frame
<1>7. ASSUME NEW k \in DOMAIN categories, Judge(k) PROVE IInv'
  <2>1. summary.sha = config.sha
    BY <1>7 DEF Judge, SummaryOf
  <2> QED
    BY <1>7, <2>1 DEF Judge, Frame
<1>8. ASSUME NEW r \in Releases, Upgrade(r) PROVE IInv'
  BY <1>8 DEF Upgrade
<1>9. CASE UNCHANGED vars
  BY <1>9 DEF vars
<1> QED
  BY <1>1, <1>2, <1>3, <1>4, <1>5, <1>6, <1>7, <1>8, <1>9 DEF Next, Step

\* The strengthened invariant holds in every state.
THEOREM Invariant == Spec => []IInv
BY InitIInv, IInvStep, PTL DEF Spec
-----------------------------------------------------------------------------
\* Every variable keeps its type.
THEOREM TypeCorrect == Spec => []TypeOK
BY Invariant, PTL DEF IInv

\* An open binding discloses one contract, and the expected one.
THEOREM AlwaysDisclosesExpected == Spec => []DisclosesExpectedContract
<1>1. IInv => DisclosesExpectedContract
  BY DEF IInv, SummaryExpected, BundleChecked, DisclosesExpectedContract, Read, SummaryOf
<1> QED
  BY <1>1, Invariant, PTL

\* Verdicts come from the contract that was disclosed.
THEOREM VerdictsFromDisclosed == Spec => []VerdictFromDisclosedContract
BY Invariant, PTL DEF IInv
=============================================================================
