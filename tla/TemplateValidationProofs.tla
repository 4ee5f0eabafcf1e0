---------------------- MODULE TemplateValidationProofs ----------------------
(***************************************************************************)
(* For every set of templates, of any size and with any catalogue of       *)
(* providers: the verdict is the one the templates call for, and in an     *)
(* accepted set every fallback resolves.                                   *)
(***************************************************************************)
EXTENDS TemplateValidation, SequenceTheorems, TLAPS

\* The scan has seen the keys of the templates it passed, each once.
DistinctBelow(n) == \A j, k \in 1..(n - 1) : Templates[j].key = Templates[k].key => j = k
KeysSeen ==
  Many => LET n == IF stage = "scan" THEN index ELSE Len(Templates) + 1
          IN /\ seen = {Templates[i].key : i \in 1..(n - 1)}
             /\ DistinctBelow(n)

\* The templates passed are in order, and of the one looked at the visited
\* locales, which come before the others.
PassedInOrder ==
  stage # "scan" => \A j \in 1..(index - 1) : InOrder(Templates[j])
VisitedInOrder ==
  stage = "content" =>
    /\ TemplateValid(Template)
    /\ \A l \in visited : ContentValid(Template, l)
    /\ \A l \in visited, k \in DOMAIN Template.locales \ visited : l < k

OnlyManyScan == stage = "scan" => Many
AcceptedAtEnd == verdict = Accepted => stage = "head" /\ index = Len(Templates) + 1

IInv == /\ TypeOK
        /\ OnlyManyScan
        /\ KeysSeen
        /\ PassedInOrder
        /\ VisitedInOrder
        /\ AcceptedAtEnd
        /\ VerdictStable
-----------------------------------------------------------------------------
\* The templates of a request are a sequence.
LEMMA TemplatesAreSequence ==
  ASSUME request \in Requests
  PROVE  Len(Templates) \in Nat /\ DOMAIN Templates = 1..Len(Templates)
BY TemplateSettings DEF Templates

\* The request does not change, nor what it calls for.
LEMMA RequestFixed ==
  ASSUME UNCHANGED request
  PROVE  /\ Templates' = Templates
         /\ Many' = Many
         /\ \A t : TemplateValid(t)' = TemplateValid(t)
         /\ \A t : InOrder(t)' = InOrder(t)
         /\ \A v : Rightful(v)' = Rightful(v)
<1>1. Templates' = Templates /\ Many' = Many
  BY DEF Templates, Many
<1>2. \A t : TemplateValid(t)' = TemplateValid(t)
  BY DEF TemplateValid, Status
<1>3. \A t : TargetsExist(t)' = TargetsExist(t)
  BY <1>1 DEF TargetsExist
<1>4. \A t : InOrder(t)' = InOrder(t)
  BY <1>1, <1>2, <1>3 DEF InOrder
<1>5. \A t, i, v : FaultOf(t, i, v)' = FaultOf(t, i, v)
  BY <1>1, <1>2, <1>3 DEF FaultOf
<1>6. \A i : FirstDuplicate(i)' = FirstDuplicate(i)
  BY <1>1 DEF FirstDuplicate
<1>7. \A v : Rightful(v)' = Rightful(v)
  BY <1>1, <1>4, <1>5, <1>6 DEF Rightful
<1> QED
  BY <1>1, <1>2, <1>4, <1>7

\* A validation begins with nothing seen or visited.
LEMMA InitHolds == Init => IInv
<1> SUFFICES ASSUME Init PROVE IInv
  OBVIOUS
<1>1. Len(Templates) \in Nat /\ DOMAIN Templates = 1..Len(Templates)
  BY TemplatesAreSequence DEF Init
<1>2. request.operation # "ValidateAll" => Len(Templates) = 1
  BY TemplateSettings DEF Init, Templates
<1>3. TypeOK
  BY <1>1 DEF Init, TypeOK, Pending, Verdict, Faults
<1>4. OnlyManyScan /\ KeysSeen
  BY <1>1 DEF Init, OnlyManyScan, KeysSeen, Many, DistinctBelow
<1>5. PassedInOrder /\ VisitedInOrder /\ AcceptedAtEnd /\ VerdictStable
  BY DEF Init, PassedInOrder, VisitedInOrder, AcceptedAtEnd, VerdictStable, Pending,
         Accepted, Verdict
<1> QED
  BY <1>3, <1>4, <1>5 DEF IInv

\* A settled verdict leaves everything else as it was.
LEMMA SettleKeeps ==
  ASSUME IInv, NEW v \in [fault : Faults, template : Nat, locale : Nat], Settle(v),
         v = Accepted => stage = "head" /\ index = Len(Templates) + 1,
         Rightful(v)
  PROVE  IInv'
<1> USE DEF IInv, Settle
<1>1. UNCHANGED <<request, Template>> /\ Templates' = Templates /\ Many' = Many
  BY DEF Template, Templates, Many
<1>2. TypeOK'
  BY <1>1 DEF TypeOK
<1>3. OnlyManyScan' /\ KeysSeen'
  BY <1>1 DEF OnlyManyScan, KeysSeen, DistinctBelow
<1>4. PassedInOrder' /\ VisitedInOrder'
  BY <1>1, RequestFixed DEF PassedInOrder, VisitedInOrder
<1>5. AcceptedAtEnd' /\ VerdictStable'
  BY <1>1, RequestFixed DEF AcceptedAtEnd, VerdictStable, Accepted
<1> QED
  BY <1>2, <1>3, <1>4, <1>5

\* The first key seen before is the first duplicate.
LEMMA DuplicateKeeps == IInv /\ Duplicate => IInv'
<1> SUFFICES ASSUME IInv, Duplicate PROVE IInv'
  OBVIOUS
<1> USE DEF IInv, Duplicate, At
<1>1. Len(Templates) \in Nat /\ DOMAIN Templates = 1..Len(Templates) /\ index \in 1..Len(Templates)
  BY TemplatesAreSequence DEF TypeOK
<1>2. Many
  BY DEF OnlyManyScan
<1>3. FirstDuplicate(index)
  BY <1>1, <1>2 DEF KeysSeen, DistinctBelow, FirstDuplicate, Template
<1>4. Rightful(Verdict("duplicate", index, 0))
  BY <1>1, <1>3 DEF Rightful
<1>5. Verdict("duplicate", index, 0) \in [fault : Faults, template : Nat, locale : Nat]
  BY <1>1 DEF Verdict, Faults
<1> QED
  BY <1>4, <1>5, SettleKeeps DEF Verdict, Accepted

\* A new key keeps the keys distinct.
LEMMA NoteKeeps == IInv /\ Note => IInv'
<1> SUFFICES ASSUME IInv, Note PROVE IInv'
  OBVIOUS
<1> USE DEF IInv, Note, At
<1>1. Len(Templates) \in Nat /\ DOMAIN Templates = 1..Len(Templates) /\ index \in 1..Len(Templates)
  BY TemplatesAreSequence DEF TypeOK
<1>2. Templates' = Templates /\ Many' = Many
  BY DEF Templates, Many
<1>3. TypeOK'
  BY <1>1, <1>2 DEF TypeOK, Template
<1>4. KeysSeen'
  <2>1. Many
    BY DEF OnlyManyScan
  <2>2. seen = {Templates[i].key : i \in 1..(index - 1)} /\ DistinctBelow(index)
    BY <2>1 DEF KeysSeen
  <2>3. \A i \in 1..(index - 1) : Templates[i].key # Templates[index].key
    BY <2>2 DEF Template
  <2>4. seen' = {Templates[i].key : i \in 1..index}
    BY <1>1, <2>2 DEF Template
  <2>5. DistinctBelow(index + 1)
    BY <1>1, <2>2, <2>3 DEF DistinctBelow
  <2> QED
    BY <1>1, <1>2, <2>4, <2>5 DEF KeysSeen, DistinctBelow
<1>5. OnlyManyScan' /\ PassedInOrder' /\ VisitedInOrder' /\ AcceptedAtEnd' /\ VerdictStable'
  BY <1>2 DEF OnlyManyScan, PassedInOrder, VisitedInOrder, AcceptedAtEnd, VerdictStable,
              Pending, Accepted, Verdict
<1> QED
  BY <1>3, <1>4, <1>5

\* After the scan the keys of all templates are seen.
LEMMA NotedKeeps == IInv /\ Noted => IInv'
<1> SUFFICES ASSUME IInv, Noted PROVE IInv'
  OBVIOUS
<1> USE DEF IInv, Noted, At
<1>1. Len(Templates) \in Nat /\ index = Len(Templates) + 1
  BY TemplatesAreSequence DEF TypeOK
<1>2. Templates' = Templates /\ Many' = Many
  BY DEF Templates, Many
<1>3. TypeOK'
  BY <1>1, <1>2 DEF TypeOK, Template
<1>4. KeysSeen'
  BY <1>1, <1>2 DEF KeysSeen, DistinctBelow
<1>5. OnlyManyScan' /\ PassedInOrder' /\ VisitedInOrder' /\ AcceptedAtEnd' /\ VerdictStable'
  BY <1>2 DEF OnlyManyScan, PassedInOrder, VisitedInOrder, AcceptedAtEnd, VerdictStable,
              Pending, Accepted, Verdict
<1> QED
  BY <1>3, <1>4, <1>5

\* The index is of a template until the end.
LEMMA LookedAt ==
  ASSUME IInv, index <= Len(Templates)
  PROVE  /\ Len(Templates) \in Nat
         /\ DOMAIN Templates = 1..Len(Templates)
         /\ index \in 1..Len(Templates)
         /\ DOMAIN Template.locales \subseteq Nat
<1>1. request \in Requests /\ index \in 1..(Len(Templates) + 1)
  BY DEF IInv, TypeOK
<1>2. Len(Templates) \in Nat /\ DOMAIN Templates = 1..Len(Templates)
  BY <1>1, TemplatesAreSequence
<1>3. index \in DOMAIN Templates
  BY <1>1, <1>2
<1>4. DOMAIN Template.locales \subseteq Nat
  BY <1>1, <1>3, TemplateSettings DEF Template, Templates
<1> QED
  BY <1>2, <1>3, <1>4

\* Behind the scan there is no duplicate, and the keys seen are all there are.
LEMMA Scanned ==
  ASSUME IInv, stage # "scan"
  PROVE  /\ \A i \in DOMAIN Templates : ~FirstDuplicate(i)
         /\ Many => \A t : FallbacksFound(t) <=> TargetsExist(t)
<1>1. Len(Templates) \in Nat /\ DOMAIN Templates = 1..Len(Templates)
  BY TemplatesAreSequence DEF IInv, TypeOK
<1>2. Many => /\ seen = {Templates[i].key : i \in 1..Len(Templates)}
              /\ DistinctBelow(Len(Templates) + 1)
  BY <1>1 DEF IInv, KeysSeen
<1>3. \A i \in DOMAIN Templates : ~FirstDuplicate(i)
  BY <1>1, <1>2 DEF DistinctBelow, FirstDuplicate
<1>4. Many => \A t : FallbacksFound(t) <=> TargetsExist(t)
  BY <1>1, <1>2 DEF FallbacksFound, TargetsExist
<1> QED
  BY <1>3, <1>4

\* A fault of the template looked at is the verdict there should be.
LEMMA FaultIsRightful ==
  ASSUME IInv, stage # "scan", index <= Len(Templates), NEW v,
         FaultOf(Template, index, v)
  PROVE  Rightful(v)
<1>1. index \in DOMAIN Templates
  BY LookedAt
<1>2. \A j \in 1..(index - 1) : InOrder(Templates[j])
  BY DEF IInv, PassedInOrder
<1> QED
  BY <1>1, <1>2, Scanned DEF Rightful, Template

\* A template in order up to its contents has none of them visited.
LEMMA JudgeKeeps == IInv /\ Judge => IInv'
<1> SUFFICES ASSUME IInv, Judge PROVE IInv'
  OBVIOUS
<1> USE DEF IInv, Judge, At
<1>1. Templates' = Templates /\ Many' = Many /\ Template' = Template
  BY DEF Templates, Many, Template
<1>2. visited = {}
  BY DEF TypeOK
<1>3. TypeOK'
  BY <1>1, <1>2 DEF TypeOK
<1>4. OnlyManyScan' /\ KeysSeen'
  BY <1>1 DEF OnlyManyScan, KeysSeen, DistinctBelow
<1>5. PassedInOrder' /\ VisitedInOrder'
  BY <1>1, <1>2, RequestFixed DEF PassedInOrder, VisitedInOrder
<1>6. AcceptedAtEnd' /\ VerdictStable'
  BY DEF AcceptedAtEnd, VerdictStable, Pending, Accepted, Verdict
<1> QED
  BY <1>3, <1>4, <1>5, <1>6

\* A template out of order is at fault.
LEMMA JudgeFailsKeeps == IInv /\ JudgeFails => IInv'
<1> SUFFICES ASSUME IInv, JudgeFails PROVE IInv'
  OBVIOUS
<1> DEFINE v == Verdict("template", index, 0)
<1>1. stage # "scan" /\ index <= Len(Templates) /\ ~TemplateValid(Template) /\ Settle(v)
  BY DEF JudgeFails, At
<1>2. Rightful(v)
  BY <1>1, FaultIsRightful DEF FaultOf
<1>3. v \in [fault : Faults, template : Nat, locale : Nat] /\ v # Accepted
  BY <1>1, LookedAt DEF Verdict, Faults, Accepted
<1> QED
  BY <1>1, <1>2, <1>3, SettleKeeps

\* The least of the locales left comes before the others.
LEMMA ContentKeeps == ASSUME IInv, NEW l, Content(l) PROVE IInv'
<1> USE DEF IInv, Content, At
<1>1. Templates' = Templates /\ Many' = Many /\ Template' = Template
  BY DEF Templates, Many, Template
<1>2. DOMAIN Template.locales \subseteq Nat
  BY LookedAt DEF TypeOK
<1>3. TypeOK'
  BY <1>1 DEF TypeOK, NextLocale
<1>4. OnlyManyScan' /\ KeysSeen'
  BY <1>1 DEF OnlyManyScan, KeysSeen, DistinctBelow
<1>5. PassedInOrder'
  BY <1>1, RequestFixed DEF PassedInOrder
<1>6. VisitedInOrder'
  <2>1. TemplateValid(Template) /\ \A m \in visited' : ContentValid(Template, m)
    BY DEF VisitedInOrder
  <2>2. ASSUME NEW m \in visited', NEW k \in DOMAIN Template.locales \ visited'
        PROVE  m < k
    <3>1. k \in DOMAIN Template.locales \ visited /\ k # l
      OBVIOUS
    <3>2. CASE m \in visited
      BY <3>1, <3>2 DEF VisitedInOrder
    <3>3. CASE m = l
      BY <1>2, <3>1, <3>3 DEF NextLocale
    <3> QED
      BY <3>2, <3>3
  <2>3. TemplateValid(Template)'
    BY <1>1, <2>1, RequestFixed
  <2> QED
    BY <1>1, <2>1, <2>2, <2>3 DEF VisitedInOrder
<1>7. AcceptedAtEnd' /\ VerdictStable'
  BY DEF AcceptedAtEnd, VerdictStable, Pending, Accepted, Verdict
<1> QED
  BY <1>3, <1>4, <1>5, <1>6, <1>7

\* The locale at fault is the first: those before it are visited.
LEMMA ContentFailsKeeps == ASSUME IInv, NEW l, ContentFails(l) PROVE IInv'
<1> DEFINE v == Verdict("content", index, l)
<1>1. /\ stage = "content"
      /\ index <= Len(Templates)
      /\ NextLocale(l)
      /\ ~ContentValid(Template, l)
      /\ Settle(v)
  BY DEF ContentFails, At, IInv, TypeOK
<1>2. l \in DOMAIN Template.locales /\ DOMAIN Template.locales \subseteq Nat
  BY <1>1, LookedAt DEF NextLocale
<1>3. \A k \in DOMAIN Template.locales : k < l => ContentValid(Template, k)
  <2> SUFFICES ASSUME NEW k \in DOMAIN Template.locales, k < l
               PROVE  ContentValid(Template, k)
    OBVIOUS
  <2>1. k \in visited
    BY <1>1, <1>2 DEF NextLocale
  <2> QED
    BY <1>1, <2>1 DEF IInv, VisitedInOrder
<1>4. FaultOf(Template, index, v)
  BY <1>1, <1>2, <1>3 DEF FaultOf, IInv, VisitedInOrder
<1>5. Rightful(v)
  BY <1>1, <1>4, FaultIsRightful
<1>6. v \in [fault : Faults, template : Nat, locale : Nat] /\ v # Accepted
  BY <1>1, <1>2, LookedAt DEF Verdict, Faults, Accepted
<1> QED
  BY <1>1, <1>5, <1>6, SettleKeeps

\* A template all of whose locales and fallbacks are in order is in order.
LEMMA ProceedKeeps == IInv /\ Proceed => IInv'
<1> SUFFICES ASSUME IInv, Proceed PROVE IInv'
  OBVIOUS
<1> USE DEF IInv, Proceed, At
<1>1. Templates' = Templates /\ Many' = Many
  BY DEF Templates, Many
<1>2. /\ Len(Templates) \in Nat
      /\ DOMAIN Templates = 1..Len(Templates)
      /\ index \in 1..Len(Templates)
  BY LookedAt DEF TypeOK
<1>3. InOrder(Template)
  <2>1. TemplateValid(Template) /\ ContentsValid(Template)
    BY DEF VisitedInOrder, ContentsValid
  <2>2. Many => TargetsExist(Template)
    BY Scanned
  <2> QED
    BY <2>1, <2>2 DEF InOrder
<1>4. TypeOK'
  BY <1>1, <1>2 DEF TypeOK
<1>5. OnlyManyScan' /\ KeysSeen'
  BY <1>1 DEF OnlyManyScan, KeysSeen, DistinctBelow
<1>6. PassedInOrder'
  <2>1. \A j \in 1..((index + 1) - 1) : InOrder(Templates[j])
    BY <1>2, <1>3 DEF PassedInOrder, Template
  <2> QED
    BY <1>1, <2>1, RequestFixed DEF PassedInOrder
<1>7. VisitedInOrder' /\ AcceptedAtEnd' /\ VerdictStable'
  BY DEF VisitedInOrder, AcceptedAtEnd, VerdictStable, Pending, Accepted, Verdict
<1> QED
  BY <1>4, <1>5, <1>6, <1>7

\* A fallback that is missing is the last thing that can be at fault.
LEMMA FallbackMissingKeeps == IInv /\ FallbackMissing => IInv'
<1> SUFFICES ASSUME IInv, FallbackMissing PROVE IInv'
  OBVIOUS
<1> DEFINE v == Verdict("fallback", index, 0)
<1>1. /\ stage = "content"
      /\ index <= Len(Templates)
      /\ DOMAIN Template.locales \subseteq visited
      /\ Many /\ ~FallbacksFound(Template)
      /\ Settle(v)
  BY DEF FallbackMissing, At, IInv, TypeOK
<1>2. TemplateValid(Template) /\ ContentsValid(Template)
  BY <1>1 DEF IInv, VisitedInOrder, ContentsValid
<1>3. ~TargetsExist(Template)
  BY <1>1, Scanned
<1>4. Rightful(v)
  BY <1>1, <1>2, <1>3, FaultIsRightful DEF FaultOf
<1>5. v \in [fault : Faults, template : Nat, locale : Nat] /\ v # Accepted
  BY <1>1, LookedAt DEF Verdict, Faults, Accepted
<1> QED
  BY <1>1, <1>4, <1>5, SettleKeeps

\* What is accepted has been passed from the first template to the last.
LEMMA AcceptKeeps == IInv /\ Accept => IInv'
<1> SUFFICES ASSUME IInv, Accept PROVE IInv'
  OBVIOUS
<1>1. stage = "head" /\ index > Len(Templates) /\ Settle(Accepted)
  BY DEF Accept, At
<1>2. Len(Templates) \in Nat /\ DOMAIN Templates = 1..Len(Templates)
  BY TemplatesAreSequence DEF IInv, TypeOK
<1>3. index = Len(Templates) + 1
  BY <1>1, <1>2 DEF IInv, TypeOK
<1>4. \A i \in DOMAIN Templates : InOrder(Templates[i])
  BY <1>1, <1>2, <1>3 DEF IInv, PassedInOrder
<1>5. Rightful(Accepted)
  BY <1>1, <1>4, Scanned DEF Rightful
<1>6. Accepted \in [fault : Faults, template : Nat, locale : Nat]
  BY DEF Accepted, Verdict, Faults
<1> QED
  BY <1>1, <1>3, <1>5, <1>6, SettleKeeps
-----------------------------------------------------------------------------
\* The invariant is inductive.
THEOREM Invariant == Spec => []IInv
<1>1. IInv /\ [Next]_vars => IInv'
  <2> SUFFICES ASSUME IInv, [Next]_vars PROVE IInv'
    OBVIOUS
  <2>1. CASE UNCHANGED vars
    <3>1. UNCHANGED <<request, stage, index, seen, visited, verdict, Templates, Many, Template>>
      BY <2>1 DEF vars, Templates, Many, Template
    <3>2. TypeOK' /\ OnlyManyScan' /\ KeysSeen'
      BY <3>1 DEF IInv, TypeOK, OnlyManyScan, KeysSeen, DistinctBelow
    <3>3. PassedInOrder' /\ VisitedInOrder' /\ AcceptedAtEnd' /\ VerdictStable'
      BY <3>1, RequestFixed
      DEF IInv, PassedInOrder, VisitedInOrder, AcceptedAtEnd, VerdictStable
    <3> QED
      BY <3>2, <3>3 DEF IInv
  <2>2. CASE Duplicate \/ Note \/ Noted
    BY <2>2, DuplicateKeeps, NoteKeeps, NotedKeeps
  <2>3. CASE Judge \/ JudgeFails
    BY <2>3, JudgeKeeps, JudgeFailsKeeps
  <2>4. CASE \E l \in DOMAIN Template.locales : Content(l) \/ ContentFails(l)
    BY <2>4, ContentKeeps, ContentFailsKeeps
  <2>5. CASE Proceed \/ FallbackMissing \/ Accept
    BY <2>5, ProceedKeeps, FallbackMissingKeeps, AcceptKeeps
  <2> QED
    BY <2>1, <2>2, <2>3, <2>4, <2>5 DEF Next
<1> QED
  BY InitHolds, <1>1, PTL DEF Spec

\* A validation stays within its stages and its templates.
THEOREM TypeCorrect == Spec => []TypeOK
BY Invariant, PTL DEF IInv

\* The verdict is the one the templates call for (validateTemplateContent sorts the
\* locales before it visits them).
THEOREM VerdictsStable == Spec => []VerdictStable
BY Invariant, PTL DEF IInv

\* In a set that ValidateAll accepts every fallback is the key of one template, and
\* of another one unless the key is written with blanks.
THEOREM FallbacksResolve == Spec => []AcceptedFallbacksResolve
<1>1. IInv => AcceptedFallbacksResolve
  <2> SUFFICES ASSUME IInv, Many, verdict = Accepted,
                      NEW i \in DOMAIN Templates, NEW f \in Range(Templates[i].fallbacks)
               PROVE  \E j \in DOMAIN Templates :
                        /\ \A k \in DOMAIN Templates : Templates[k].key = f.target <=> k = j
                        /\ i = j => Templates[i].key.padded
    BY DEF AcceptedFallbacksResolve
  <2>1. Len(Templates) \in Nat /\ DOMAIN Templates = 1..Len(Templates)
    BY TemplatesAreSequence DEF IInv, TypeOK
  <2>2. stage = "head" /\ index = Len(Templates) + 1
    BY DEF IInv, AcceptedAtEnd
  <2>3. InOrder(Templates[i])
    BY <2>1, <2>2 DEF IInv, PassedInOrder
  <2>4. PICK j \in DOMAIN Templates : Templates[j].key = f.target
    BY <2>3 DEF InOrder, TargetsExist
  <2>5. \A k \in DOMAIN Templates : Templates[k].key = f.target <=> k = j
    BY <2>1, <2>2, <2>4 DEF IInv, KeysSeen, DistinctBelow
  <2>6. i = j => Templates[i].key.padded
    <3>1. TrimSpace(f.target) # Templates[i].key
      BY <2>3 DEF InOrder, TemplateValid, FallbacksValid, FallbackValid, Range
    <3>2. Templates[i].key \in Texts
      BY TemplateSettings DEF IInv, TypeOK, Templates
    <3> QED
      BY <2>4, <3>1, <3>2 DEF TrimSpace, Texts
  <2> QED
    BY <2>4, <2>5, <2>6
<1> QED
  BY Invariant, <1>1, PTL

\* Every token of an accepted template names a declared variable, or a part of one
\* (validateTemplateTokens, which looks no further than the first dot).
THEOREM TokensDeclared == Spec => []AcceptedTokensDeclared
<1>1. IInv => AcceptedTokensDeclared
  <2> SUFFICES ASSUME IInv, verdict = Accepted,
                      NEW i \in DOMAIN Templates,
                      NEW l \in DOMAIN Templates[i].locales,
                      NEW s \in Sources(Templates[i].locales[l])
               PROVE  /\ ~s.stray
                      /\ \A token \in s.tokens : \E v \in Range(Templates[i].variables) :
                           \E n \in 1..Len(token) : v.key = SubSeq(token, 1, n)
    BY DEF AcceptedTokensDeclared
  <2>1. Len(Templates) \in Nat /\ DOMAIN Templates = 1..Len(Templates)
    BY TemplatesAreSequence DEF IInv, TypeOK
  <2>2. InOrder(Templates[i])
    BY <2>1 DEF IInv, AcceptedAtEnd, PassedInOrder
  <2>3. SourceValid(Templates[i], s)
    BY <2>2 DEF InOrder, ContentsValid, ContentValid
  <2>4. s.tokens \subseteq Seq(STRING) \ {<<>>}
    BY TokensNamed DEF IInv, TypeOK, Templates, Range
  <2>5. ASSUME NEW token \in s.tokens
        PROVE  1 \in 1..Len(token) /\ SubSeq(token, 1, 1) = <<token[1]>>
    <3>1. token \in Seq(STRING) /\ Len(token) >= 1
      BY <2>4, <2>5
    <3>2. token[1] \in STRING
      BY <3>1
    <3>3. /\ SubSeq(token, 1, 1) \in Seq(STRING)
          /\ Len(SubSeq(token, 1, 1)) = 1
          /\ SubSeq(token, 1, 1)[1] = token[1]
      BY <3>1, <3>2, SubSeqProperties
    <3>4. /\ <<token[1]>> \in Seq(STRING)
          /\ Len(<<token[1]>>) = 1
          /\ <<token[1]>>[1] = token[1]
      BY <3>2
    <3>5. \A n \in 1..1 : SubSeq(token, 1, 1)[n] = <<token[1]>>[n]
      BY <3>3, <3>4
    <3>6. SubSeq(token, 1, 1) = <<token[1]>>
      BY <3>3, <3>4, <3>5, SeqEqual, Zenon
    <3> QED
      BY <3>1, <3>6
  <2> QED
    BY <2>3, <2>5 DEF SourceValid
<1> QED
  BY Invariant, <1>1, PTL
=============================================================================
