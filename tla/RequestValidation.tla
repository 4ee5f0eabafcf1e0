-------------------------- MODULE RequestValidation --------------------------
(***************************************************************************)
(* The checks a port makes on a request before it is sent: the Validate    *)
(* methods of contract/validation.go, contract/notification_migration.go   *)
(* and contract/notification_retention.go; not the inbox query's.  All but *)
(* the intent's are one expression; the intent's walks its recipients with *)
(* the set of those it has seen.                                           *)
(*                                                                         *)
(* A field that is only ever tested for being blank is a BOOLEAN, TRUE     *)
(* when it is filled.                                                      *)
(***************************************************************************)
EXTENDS Integers, Sequences, Texts

CONSTANTS Requests,                  \* the requests to be validated, by kind
          MaximumExplicitRecipients  \* most recipients of an intent

IntentShape == [workspace : BOOLEAN, identity : BOOLEAN,
                subject : [type : BOOLEAN, id : BOOLEAN, version : BOOLEAN],
                recipients : Seq(Texts), resolvers : BOOLEAN]

ASSUME ValidationSettings ==
  /\ MaximumExplicitRecipients \in Nat
  /\ \A r \in Requests : r \in [kind : STRING, value : {r.value}]
  /\ \A r \in Requests : r.kind = "intent" => r.value \in IntentShape

\* A subject has a type and an identifier or neither; an identified one, a version.
SubjectComplete(s) == (s.type = s.id) /\ (s.id => s.version)

\* NotificationIntent.Validate up to its loop.
IntentHead(v) ==
  IF ~v.workspace THEN "scope required"
  ELSE IF ~v.identity THEN "identity required"
  ELSE IF ~SubjectComplete(v.subject) THEN "subject required"
  ELSE IF v.recipients = <<>> /\ ~v.resolvers THEN "audience required"
  ELSE IF Len(v.recipients) > MaximumExplicitRecipients THEN "audience too large"
  ELSE "none"

\* NotificationMigrationCommand.Validate.
CommandValid(c) == c.id /\ c.at /\ (c.requireFingerprint => c.fingerprint)

\* Faulty variant: a bundle need not say which migration it belongs to.
BundleValidAnonymous(b) == b.format /\ b.workspace /\ b.application /\ b.fingerprint /\ b.tables

\* NotificationPortableBundle.ValidateEnvelope, with its scope's Validate.
BundleValid(b) == b.format /\ b.workspace /\ b.application /\ b.id /\ b.fingerprint /\ b.tables

\* NotificationRetentionPolicy.Validate.
PolicyValid(p) == /\ p.known /\ p.version /\ p.seconds > 0
                  /\ \A s \in p.statuses : s.key /\ s.seconds > 0

\* NotificationRetentionPreviewRequest.Validate.
PreviewValid(r) == r.workspace /\ r.now /\ PolicyValid(r.policy)

\* Faulty variant: the policy of a batch is left to the service.
BatchValidUnjudged(r) == /\ r.job /\ r.workspace /\ r.now
                         /\ r.operation \in {"archive", "purge"}
                         /\ r.limit \in 1..1000

\* NotificationRetentionBatchRequest.Validate.
BatchValid(r) == /\ r.job /\ r.workspace /\ r.now
                 /\ r.operation \in {"archive", "purge"}
                 /\ r.limit \in 1..1000
                 /\ PolicyValid(r.policy)

Valid(r) == CASE r.kind = "command" -> CommandValid(r.value)
              [] r.kind = "bundle" -> BundleValid(r.value)
              [] r.kind = "preview" -> PreviewValid(r.value)
              [] r.kind = "batch" -> BatchValid(r.value)
-----------------------------------------------------------------------------
VARIABLES request,   \* the request being validated
          position,  \* recipients looked at, or 0 before the loop
          seen,      \* their trimmed identifiers
          verdict    \* "none" while validating, "ok", or the error

vars == <<request, position, seen, verdict>>

Intent == request.value
Verdicts == {"none", "ok", "invalid", "scope required", "identity required",
             "subject required", "audience required", "audience too large"}

TypeOK == /\ request \in Requests
          /\ position \in Nat
          /\ request.kind = "intent" => position <= Len(Intent.recipients) + 1
          /\ verdict \in Verdicts

Init == /\ request \in Requests
        /\ position = 0
        /\ seen = {}
        /\ verdict = "none"

\* Every kind but the intent is judged at once.
Judge == /\ verdict = "none" /\ request.kind # "intent"
         /\ verdict' = IF Valid(request) THEN "ok" ELSE "invalid"
         /\ UNCHANGED <<request, position, seen>>

\* Faulty variant: the loop starts after the first recipient.
BeginLate == /\ verdict = "none" /\ request.kind = "intent" /\ position = 0
             /\ verdict' = IntentHead(Intent)
             /\ position' = IF verdict' = "none" THEN 2 ELSE 0
             /\ UNCHANGED <<request, seen>>

Begin == /\ verdict = "none" /\ request.kind = "intent" /\ position = 0
         /\ verdict' = IntentHead(Intent)
         /\ position' = IF verdict' = "none" THEN 1 ELSE 0
         /\ UNCHANGED <<request, seen>>

\* Faulty variant: recipients are compared as they are written.
ExamineAsWritten ==
  /\ verdict = "none" /\ position > 0 /\ position <= Len(Intent.recipients)
  /\ LET recipient == Intent.recipients[position]
     IN IF Blank(recipient) \/ recipient \in seen
        THEN verdict' = "audience required" /\ UNCHANGED <<position, seen>>
        ELSE /\ seen' = seen \cup {recipient}
             /\ position' = position + 1
             /\ UNCHANGED verdict
  /\ UNCHANGED request

\* One turn of the loop.
Examine ==
  /\ verdict = "none" /\ position > 0 /\ position <= Len(Intent.recipients)
  /\ LET recipient == TrimSpace(Intent.recipients[position])
     IN IF Blank(recipient) \/ recipient \in seen
        THEN verdict' = "audience required" /\ UNCHANGED <<position, seen>>
        ELSE /\ seen' = seen \cup {recipient}
             /\ position' = position + 1
             /\ UNCHANGED verdict
  /\ UNCHANGED request

Finish == /\ verdict = "none" /\ request.kind = "intent"
          /\ position = Len(Intent.recipients) + 1
          /\ verdict' = "ok"
          /\ UNCHANGED <<request, position, seen>>

Next == Judge \/ Begin \/ Examine \/ Finish

Spec == Init /\ [][Next]_vars
-----------------------------------------------------------------------------
(***************************************************************************)
(* What a request that may be sent looks like, and properties.             *)
(***************************************************************************)

\* An intent somebody can be notified of: it says which event of which workspace
\* on which version of which subject, and names at most so many recipients, each
\* once, or leaves them to a resolver.
Addressable(v) ==
  /\ v.workspace /\ v.identity
  /\ v.subject \in {[type |-> FALSE, id |-> FALSE, version |-> FALSE],
                    [type |-> FALSE, id |-> FALSE, version |-> TRUE],
                    [type |-> TRUE, id |-> TRUE, version |-> TRUE]}
  /\ Len(v.recipients) <= MaximumExplicitRecipients
  /\ v.resolvers \/ Len(v.recipients) > 0
  /\ \A j \in 1..Len(v.recipients) : v.recipients[j].core # ""
  /\ \A j, k \in 1..Len(v.recipients) :
       v.recipients[j].core = v.recipients[k].core => j = k

\* The walk accepts exactly the addressable intents, whichever recipient is at
\* fault and however it is padded.
IntentVerdictRight ==
  (request.kind = "intent" /\ verdict # "none")
     => (verdict = "ok" <=> Addressable(Intent))

\* The requests that follow on a bundle, a batch and a preview: to activate or roll
\* back what was imported, to preview what a batch does, to carry out what was
\* previewed.
Following(b) == [id |-> b.id, fingerprint |-> b.fingerprint,
                 at |-> TRUE, requireFingerprint |-> TRUE]
Previewing(r) == [workspace |-> r.workspace, now |-> r.now, policy |-> r.policy]
Carrying(r, operation, limit) ==
  [job |-> TRUE, workspace |-> r.workspace, now |-> r.now, policy |-> r.policy,
   operation |-> operation, limit |-> limit]

\* The check of one port lets nothing through that the check of the next step
\* refuses.  An accepted bundle can be activated and rolled back by the identifier
\* and the fingerprint it was imported under, or the migration is stuck half way; a
\* batch is accepted only if it could have been previewed, and whatever was
\* previewed can be carried out, by either operation.
AcceptedLeadsOn ==
  verdict = "ok" =>
    /\ request.kind = "bundle" => CommandValid(Following(request.value))
    /\ request.kind = "batch" => PreviewValid(Previewing(request.value))
    /\ request.kind = "preview" =>
         \A operation \in {"archive", "purge"}, limit \in 1..1000 :
           BatchValid(Carrying(request.value, operation, limit))
=============================================================================
