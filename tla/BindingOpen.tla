----------------------------- MODULE BindingOpen -----------------------------
(***************************************************************************)
(* Opening a remote binding: Factory.Open (remote/factory.go) and          *)
(* openCapabilityBinding (remote/capability.go).  The service is asked     *)
(* once for its descriptor, once for its capability summary and once for   *)
(* each category, and may be upgraded between any two answers and after    *)
(* the binding is open.                                                    *)
(***************************************************************************)
EXTENDS Naturals, FiniteSets

CONSTANTS Releases,     \* releases of the service the binding may meet
          Applications, \* [workspace, key] that may be opened
          Configs       \* [url, credential, tokens, sha] of the factory

\* A release: what its descriptor says, and the contract it discloses, named by
\* its SHA-256: a document for every category.
Blank == ""

ASSUME ReleaseShape ==
  \A r \in Releases : DOMAIN r = {"protocol", "mode", "audience", "key", "sha",
                                  "documents"}

\* The digest names one contract (modulecapability, outside this repository).
ASSUME DigestsNameContracts ==
  \A r, s \in Releases : r.sha = s.sha => r.key = s.key /\ r.documents = s.documents

VARIABLES service,      \* the release answering now
          application, config,
          pc, summary, categories,
          verdict       \* of the last ValidateCapabilityCandidate

vars == <<service, application, config, pc, summary, categories, verdict>>

NoSummary == [key |-> Blank, sha |-> Blank, documents |-> <<>>]
NoVerdict == [sha |-> Blank, category |-> Blank]

Stages == {"idle", "descriptor", "summary", "categories", "bundle", "open",
           "validate", "failed"}

TypeOK == /\ service \in Releases
          /\ application \in Applications
          /\ config \in Configs
          /\ pc \in Stages
          /\ \/ summary = NoSummary
             \/ \E r \in Releases : summary = [key |-> r.key, sha |-> r.sha,
                                               documents |-> r.documents]
          /\ DOMAIN categories \subseteq DOMAIN summary.documents
          /\ verdict # NoVerdict => pc = "open"

Init == /\ service \in Releases
        /\ application \in Applications
        /\ config \in Configs
        /\ pc = "idle"
        /\ summary = NoSummary
        /\ categories = <<>>
        /\ verdict = NoVerdict

\* Any error of Open: no binding is returned, and what was fetched is dropped.
Fail == /\ pc' = "failed"
        /\ summary' = NoSummary
        /\ categories' = <<>>
        /\ UNCHANGED verdict

Proceed(stage) == pc' = stage /\ UNCHANGED <<summary, categories, verdict>>

Frame == UNCHANGED <<service, application, config>>
-----------------------------------------------------------------------------
(* Factory.Open                                                            *)

\* ApplicationRef.Validate; the expected digest; the URL and a credential.
Configured == /\ application.workspace # Blank /\ application.key # Blank
              /\ config.sha # Blank
              /\ config.url = "absolute"
              /\ config.credential # Blank \/ config.tokens

Configure == /\ pc = "idle"
             /\ Frame
             /\ IF Configured THEN Proceed("descriptor") ELSE Fail

\* Descriptor.Validate, then the mode and the audience of the descriptor.
Accepts(r) == /\ r.protocol = "current"
              /\ r.mode = "saas"
              /\ r.audience \in {Blank, application.key}

Describe == /\ pc = "descriptor"
            /\ Frame
            /\ IF Accepts(service) THEN Proceed("summary") ELSE Fail

\* binding.call fails, whatever was asked for.
CallFails == /\ pc \in {"descriptor", "summary", "categories"}
             /\ Frame
             /\ Fail
-----------------------------------------------------------------------------
(* openCapabilityBinding                                                   *)

\* Faulty variant: the summary's digest is not compared with the expected one.
SummarizeAny == /\ pc = "summary"
                /\ Frame
                /\ IF service.key = "notification"
                     THEN /\ pc' = "categories"
                          /\ summary' = [key |-> service.key, sha |-> service.sha,
                                         documents |-> service.documents]
                          /\ UNCHANGED <<categories, verdict>>
                     ELSE Fail

Summarize == /\ pc = "summary"
             /\ Frame
             /\ IF service.key = "notification" /\ service.sha = config.sha
                  THEN /\ pc' = "categories"
                       /\ summary' = [key |-> service.key, sha |-> service.sha,
                                      documents |-> service.documents]
                       /\ UNCHANGED <<categories, verdict>>
                  ELSE Fail

\* Faulty variants: the categories of the release answering now are fetched;
\* every category is fetched again and again.
PendingNow == DOMAIN service.documents \ DOMAIN categories
PendingAll == DOMAIN summary.documents

Pending == DOMAIN summary.documents \ DOMAIN categories

\* One category document, of whatever release answers now.
Categorize(k) == /\ pc = "categories"
                 /\ k \in Pending
                 /\ Frame
                 /\ IF k \in DOMAIN service.documents
                      THEN /\ categories' = [c \in DOMAIN categories \cup {k} |->
                                IF c = k THEN service.documents[k]
                                         ELSE categories[c]]
                           /\ UNCHANGED <<pc, summary, verdict>>
                      ELSE Fail

CategoriesDone == pc = "categories" /\ Pending = {} /\ Frame /\ Proceed("bundle")

\* Faulty variant: the documents are not checked against the summary.
ValidateBundleNot == pc = "bundle" /\ Frame /\ Proceed("open")

\* modulecapability.ValidateBundle: the documents are those of the summary.
ValidateBundle == /\ pc = "bundle"
                  /\ Frame
                  /\ IF categories = summary.documents THEN Proceed("open") ELSE Fail
-----------------------------------------------------------------------------
(* ValidateCapabilityCandidate on an open binding, for a known category    *)

Ask == /\ pc = "open"
       /\ pc' = "validate"
       /\ verdict' = NoVerdict
       /\ Frame
       /\ UNCHANGED <<summary, categories>>

\* Faulty variant: whoever answers is believed.
JudgeUnchecked(k) == /\ pc = "validate"
                     /\ pc' = "open"
                     /\ verdict' = [sha |-> service.sha, category |-> k]
                     /\ Frame
                     /\ UNCHANGED <<summary, categories>>

\* The service judges by the contract of its release; the result is returned
\* only under the identity of the summary.
Judge(k) == /\ pc = "validate"
            /\ pc' = "open"
            /\ verdict' = IF service.key = summary.key /\ service.sha = summary.sha
                            THEN [sha |-> service.sha, category |-> k]
                            ELSE NoVerdict
            /\ Frame
            /\ UNCHANGED <<summary, categories>>

JudgeFails == /\ pc = "validate"
              /\ pc' = "open"
              /\ verdict' = NoVerdict
              /\ Frame
              /\ UNCHANGED <<summary, categories>>

Upgrade(r) == /\ service' = r
              /\ UNCHANGED <<application, config, pc, summary, categories, verdict>>
-----------------------------------------------------------------------------
Step == \/ Configure \/ Describe \/ CallFails \/ Summarize
        \/ \E k \in Pending : Categorize(k)
        \/ CategoriesDone \/ ValidateBundle

Next == \/ Step \/ Ask \/ JudgeFails
        \/ \E k \in DOMAIN categories : Judge(k)
        \/ \E r \in Releases : Upgrade(r)

Spec == Init /\ [][Next]_vars

\* Every call of Open returns (RemoteCall), whatever it returns.
FairSpec == Spec /\ WF_vars(Step)
-----------------------------------------------------------------------------
\* However often the service is upgraded while it is being read, an open binding
\* discloses exactly the documents of the contract the application was built
\* against, never a mixture of two releases.
DisclosesExpectedContract ==
  pc \in {"open", "validate"} =>
    /\ summary.sha = config.sha
    /\ \E r \in Releases : r.sha = config.sha /\ categories = r.documents

\* A verdict on a candidate comes from the contract the binding disclosed, though
\* the service may have been upgraded since (ValidateCapabilityCandidate).
VerdictFromDisclosedContract ==
  verdict # NoVerdict => verdict.sha = config.sha

\* Open returns, upgraded under its feet or not.
OpenReturns == pc = "idle" ~> pc \in {"open", "failed"}
=============================================================================
