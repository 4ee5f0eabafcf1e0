------------------------------ MODULE UseCases ------------------------------
(***************************************************************************)
(* The use cases of the remote binding (remote/services.go, and discovery  *)
(* in remote/factory.go and remote/capability.go), from the checks a port  *)
(* makes before it calls, through the grant, the headers and the repeats   *)
(* of the request, to the answer.  Calls share only the breaker and the    *)
(* token cache, modelled in RemoteCall and ServiceTokens, so one call at a *)
(* time is enough here.                                                    *)
(***************************************************************************)
EXTENDS ServiceAuthority, RetryPolicy

CONSTANT HostHeaders   \* the headers Config.ContextHeaders may return: each a set
                       \* of entries, "canonical" when the key is spelled so,
                       \* "blank" when the value is empty but for blanks
ASSUME HostHeaderShape ==
  \A hs \in HostHeaders : hs \subseteq [name : STRING, canonical : BOOLEAN, blank : BOOLEAN]

\* The path behind each method of each port.
Publisher == [PublishIntent |-> "events:publish"]

Inbox == [
  List |-> "inbox:list", Get |-> "inbox:get", Facets |-> "inbox:facets",
  SetRead |-> "inbox:set-read", SetArchived |-> "inbox:set-archived",
  AcknowledgeAlert |-> "inbox:acknowledge", MarkAllRead |-> "inbox:mark-all-read",
  ResolveAction |-> "inbox:resolve-action",
  ListDelegations |-> "inbox/delegations:list",
  SaveDelegation |-> "inbox/delegations:save",
  DeleteDelegation |-> "inbox/delegations:delete",
  ListDelegatedOwnerIDs |-> "inbox/delegated-owners:list",
  ListSavedViews |-> "inbox/saved-views:list",
  SaveSavedView |-> "inbox/saved-views:save",
  DeleteSavedView |-> "inbox/saved-views:delete",
  GetPreference |-> "inbox/preference:get", SavePreference |-> "inbox/preference:save"]

Templates == [
  Capabilities |-> "templates/capabilities:list", List |-> "templates:list",
  Get |-> "templates:get", ListVersions |-> "templates/versions:list",
  SaveDraft |-> "templates:save-draft",
  RestoreVersionDraft |-> "templates:restore-version",
  Disable |-> "templates:disable", Preview |-> "templates:preview",
  PreviewTemplate |-> "templates:preview-draft",
  ListPublicationRequests |-> "publications:list",
  RequestPublication |-> "publications:request",
  ApprovePublication |-> "publications:approve",
  RejectPublication |-> "publications:reject",
  CancelPublication |-> "publications:cancel"]

Delivery == [
  GetPolicy |-> "delivery-policy:get", SavePolicy |-> "delivery-policy:save",
  ListRecipientPreferences |-> "recipient-preferences:list",
  SaveRecipientPreference |-> "recipient-preferences:save",
  Metrics |-> "delivery-metrics:get"]

Administration == [
  GovernanceCatalog |-> "governance/catalog:get",
  InboxGovernanceMetrics |-> "governance/inbox-metrics:get"]

SystemTemplates == [
  SyncPublished |-> "system/templates:sync-published",
  ListPublished |-> "system/templates:list-published"]

SystemSubjects == [
  PreviewSubject |-> "system/subjects:preview",
  ExportSubject |-> "system/subjects:export", EraseSubject |-> "system/subjects:erase"]

SystemRetention == [
  Preview |-> "system/retention:preview",
  ProcessBatch |-> "system/retention:process-batch"]

SystemMigration == [
  Status |-> "system/migration:status", Freeze |-> "system/migration:freeze",
  Export |-> "system/migration:export", Import |-> "system/migration:import",
  Activate |-> "system/migration:activate", Rollback |-> "system/migration:rollback"]

Ports == [Publisher |-> Publisher, Inbox |-> Inbox, Templates |-> Templates,
          Delivery |-> Delivery, Administration |-> Administration,
          SystemTemplates |-> SystemTemplates, SystemSubjects |-> SystemSubjects,
          SystemRetention |-> SystemRetention, SystemMigration |-> SystemMigration]

UseCase(port, name) ==
  [port |-> port, name |-> name, method |-> "POST", path |-> Ports[port][name]]
UseCasesOf(port) == {UseCase(port, name) : name \in DOMAIN Ports[port]}

\* The reads by which a binding opens, and the validation of a candidate.
DiscoveryCalls ==
  [port : {"Binding"}, name : {"discover"}, method : {"GET"},
   path : {"descriptor", SummaryPath} \cup CategoryPaths] \cup
  [port : {"Binding"}, name : {"ValidateCapabilityCandidate"}, method : {"POST"},
   path : {ValidationPath}]

PortUseCases == UNION {UseCasesOf(port) : port \in DOMAIN Ports}
UseCases == PortUseCases \cup DiscoveryCalls
-----------------------------------------------------------------------------
(* What a port checks before it calls.                                     *)

\* These ports validate the caller's authority and pass it on; the others pass
\* the zero UserAuthority.
RequiresUser(u) == u.port \in {"Inbox", "Templates", "Delivery", "Administration"}

\* Access tokens as TrimSpace leaves them, which is how they are judged and sent.
NoAuthority == ""
AccessTokens == {NoAuthority, "alice"}

ValidAuthority(a) == a # NoAuthority

\* How complete an input is, as far as the checks made here tell inputs apart.
Inputs == {"complete", "unfingerprinted", "incomplete"}

Fingerprinted == {UseCase("SystemMigration", name) : name \in {"Activate", "Rollback", "Import"}}
Checked == Fingerprinted \cup UseCasesOf("SystemRetention") \cup
           {UseCase("Publisher", "PublishIntent"), UseCase("Inbox", "List"),
            UseCase("SystemMigration", "Freeze")} \cup
           {u \in DiscoveryCalls : u.name = "ValidateCapabilityCandidate"}

Accepts(u, input) == /\ u \in Checked => input # "incomplete"
                     /\ u \in Fingerprinted => input # "unfingerprinted"
-----------------------------------------------------------------------------
(* The headers of a request, by name, as the set of those who put a value  *)
(* there: the binding, the user, or the host through ContextHeaders.       *)

BindingHeaders == {"Accept", "Content-Type", "X-Domainry-Service-Credential",
                   "X-Domainry-Workspace-Id", "X-Domainry-Application-Key"}
protectedHeaders == {"Authorization", "Content-Length", "Content-Type", "Cookie", "Host",
                     "X-Domainry-Service-Credential", "X-Domainry-Tenant-Id",
                     "X-Domainry-Workspace-Id", "X-Domainry-Application-Key"}
HeaderNames == BindingHeaders \cup protectedHeaders \cup {"Traceparent"}

\* Faulty variant: keys are compared as they are spelled.
CopiedUncanonical(h) ==
  /\ h.name # "" /\ ~h.blank
  /\ h.name \in protectedHeaders => ~h.canonical

\* copyContextHeaders compares canonical keys, and drops empty ones.
Copied(h) == h.name # "" /\ ~h.blank /\ h.name \notin protectedHeaders

Origins(a, host, n) ==
  {o \in {"binding", "user", "host"} :
     \/ o = "binding" /\ n \in BindingHeaders
     \/ o = "user" /\ n = "Authorization" /\ a # NoAuthority
     \/ o = "host" /\ \E h \in host : h.name = n /\ Copied(h)}

Headers(a, host) == [n \in HeaderNames |-> Origins(a, host, n)]
-----------------------------------------------------------------------------
VARIABLES step,       \* "idle", "check", "perform" or "await"
          usecase,    \* the use case called last
          authority,  \* the UserAuthority it passes to binding.call
          input,      \* how complete its input is
          attempt,    \* requests of the call sent or about to be sent
          request,    \* grant and headers of the request sent last
          result      \* what the call returned

vars == <<step, usecase, authority, input, attempt, request, result>>

NoRequest == [grant |-> Grant("none", "none"), headers |-> [n \in HeaderNames |-> {}]]

TypeOK ==
  /\ step \in {"idle", "check", "perform", "await"}
  /\ usecase \in UseCases
  /\ authority \in AccessTokens
  /\ input \in Inputs
  /\ attempt \in 0..MaxAttempts
  /\ request = NoRequest \/ request.grant \in Grants
  /\ request.headers \in [HeaderNames -> SUBSET {"binding", "user", "host"}]
  /\ result \in {"none", "ok", "rejected", "unavailable", "authority required",
                 "input invalid"} \cup {g.action : g \in Refusals}

Init == /\ step = "idle"
        /\ usecase \in DiscoveryCalls
        /\ authority = NoAuthority
        /\ input = "complete"
        /\ attempt = 0
        /\ request = NoRequest
        /\ result = "none"

\* A host calls use case u for the user whose token is a, if u takes one.
Invoke(u, a, i) == /\ step = "idle"
                   /\ step' = "check"
                   /\ usecase' = u
                   /\ authority' = IF RequiresUser(u) THEN a ELSE NoAuthority
                   /\ input' = i
                   /\ attempt' = 0
                   /\ request' = NoRequest
                   /\ result' = "none"

Return(res) == step' = "idle" /\ result' = res

\* The authority is validated before the input.
Refuse == /\ step = "check"
          /\ \/ /\ RequiresUser(usecase) /\ ~ValidAuthority(authority)
                /\ Return("authority required")
             \/ /\ RequiresUser(usecase) => ValidAuthority(authority)
                /\ ~Accepts(usecase, input)
                /\ Return("input invalid")
          /\ UNCHANGED <<usecase, authority, input, attempt, request>>

\* The port calls binding.call, which has no circuit to refuse it here.
Call == /\ step = "check"
        /\ RequiresUser(usecase) => ValidAuthority(authority)
        /\ Accepts(usecase, input)
        /\ step' = "perform"
        /\ attempt' = 1
        /\ UNCHANGED <<usecase, authority, input, request, result>>

\* Faulty variant: one repeat more than the policy allows.
ConcludeOneMore(failed, res) ==
  IF failed /\ attempt <= Attempts(usecase)
  THEN step' = "perform" /\ attempt' = attempt + 1 /\ UNCHANGED result
  ELSE Return(res) /\ UNCHANGED attempt

\* A failed attempt is repeated while the route allows it.
Conclude(failed, res) ==
  IF failed /\ attempt < Attempts(usecase)
  THEN step' = "perform" /\ attempt' = attempt + 1 /\ UNCHANGED result
  ELSE Return(res) /\ UNCHANGED attempt

\* perform looks up the grant: without one it fails with status 0, which counts
\* as a failure of the remote; else the request goes with a token for the grant.
Perform(host) ==
  /\ step = "perform"
  /\ LET g == ServiceGrantForRequest(usecase)
     IN IF g \in Refusals
        THEN Conclude(TRUE, g.action) /\ UNCHANGED request
        ELSE /\ request' = [grant |-> g, headers |-> Headers(authority, host)]
             /\ step' = "await"
             /\ UNCHANGED <<attempt, result>>
  /\ UNCHANGED <<usecase, authority, input>>

\* The answer, or none: "unavailable" counts as a failure and may be repeated.
Receive(answer) == /\ step = "await"
                   /\ Conclude(answer = "unavailable", answer)
                   /\ UNCHANGED <<usecase, authority, input, request>>

Next == \/ \E u \in UseCases, a \in AccessTokens, i \in Inputs : Invoke(u, a, i)
        \/ Refuse
        \/ Call
        \/ \E host \in HostHeaders : Perform(host)
        \/ \E answer \in {"ok", "rejected", "unavailable"} : Receive(answer)

Spec == Init /\ [][Next]_vars
-----------------------------------------------------------------------------
\* No use case lacks a grant: such a call could never succeed, and its status 0
\* would count towards opening the circuit for every other use case.
EveryUseCaseGranted == result \notin {g.action : g \in Refusals}

\* Whatever headers the host propagates, a request carries the binding's own
\* service token and scope, the caller's token when a user acts, and no user's
\* token, cookie or tenant when the system does.
CredentialsAreTheBindings ==
  request # NoRequest =>
    \A n \in protectedHeaders :
      request.headers[n] =
        IF n = "Authorization" /\ RequiresUser(usecase) THEN {"user"}
        ELSE IF n \in BindingHeaders THEN {"binding"} ELSE {}

(***************************************************************************)
(* Use cases that change nothing at the service, and those that must not   *)
(* share a token with another: each is a decision or a removal of its own. *)
(***************************************************************************)
ReadOnly ==
  DiscoveryCalls \cup UseCasesOf("Administration") \cup
  {UseCase("Inbox", name) : name \in {"List", "Get", "Facets", "ListDelegations",
     "ListDelegatedOwnerIDs", "ListSavedViews", "GetPreference"}} \cup
  {UseCase("Templates", name) : name \in {"Capabilities", "List", "Get",
     "ListVersions", "Preview", "PreviewTemplate", "ListPublicationRequests"}} \cup
  {UseCase("Delivery", name) : name \in {"GetPolicy", "ListRecipientPreferences",
     "Metrics"}} \cup
  {UseCase("SystemSubjects", name) : name \in {"PreviewSubject", "ExportSubject"}} \cup
  {UseCase("SystemTemplates", "ListPublished"), UseCase("SystemRetention", "Preview"),
   UseCase("SystemMigration", "Status"), UseCase("SystemMigration", "Export")}

SoleUse == {UseCase("Publisher", "PublishIntent"), UseCase("Inbox", "ResolveAction"),
            UseCase("Templates", "Disable"), UseCase("Templates", "RequestPublication"),
            UseCase("Templates", "ApprovePublication"),
            UseCase("Templates", "RejectPublication"),
            UseCase("Templates", "CancelPublication"),
            UseCase("SystemSubjects", "EraseSubject")}

\* What the token of a request could be used for.
Powers(grant) == {u \in UseCases : ServiceGrantForRequest(u) = grant}

\* A token drawn to read lets nobody write, and the token of a decision or of a
\* removal serves nothing else, though grants are kept in a table of paths and
\* the paths in the ports.
TokenPowersSeparated ==
  request # NoRequest =>
    /\ request.grant.action \in {"read", "discover", "export"} =>
         Powers(request.grant) \subseteq ReadOnly
    /\ usecase \in SoleUse => Powers(request.grant) = {usecase}

\* Only a use case the service may carry out twice is sent twice: a read, or the
\* publication of an intent, which has an identity of its own.
OnlyReplayableRepeats ==
  attempt > 1 => usecase \in ReadOnly \cup {UseCase("Publisher", "PublishIntent")}
=============================================================================
