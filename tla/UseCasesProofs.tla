--------------------------- MODULE UseCasesProofs ---------------------------
(***************************************************************************)
(* Proofs about UseCases, for any headers of the host, any capability      *)
(* categories and any number of attempts, and about the waits of Backoff   *)
(* between the attempts of a call, for any policy.                         *)
(***************************************************************************)
EXTENDS UseCases, Backoff, TLAPS
-----------------------------------------------------------------------------
(* The table of grants                                                     *)

\* The pairs of the table.
LEMMA GrantsListed ==
  \A g : g \in Grants <=>
    \/ g = Grant("notification_service", "discover")
    \/ g = Grant("notification_event", "publish")
    \/ \E a \in {"read", "act", "update"} : g = Grant("notification_inbox", a)
    \/ \E a \in {"read", "draft", "disable"} : g = Grant("notification_template", a)
    \/ \E a \in {"read", "request", "approve", "reject", "cancel"} :
         g = Grant("notification_publication", a)
    \/ \E a \in {"read", "update"} : g = Grant("notification_delivery_policy", a)
    \/ \E a \in {"read", "update"} : g = Grant("notification_preference", a)
    \/ \E a \in {"read", "export", "erase", "retention", "migrate"} :
         g = Grant("notification_governance", a)
<1>1. DOMAIN GrantedPaths = {"notification_service", "notification_event", "notification_inbox",
        "notification_template", "notification_publication", "notification_delivery_policy",
        "notification_preference", "notification_governance"}
  BY DEF GrantedPaths
<1>2. /\ DOMAIN GrantedPaths["notification_service"] = {"discover"}
      /\ DOMAIN GrantedPaths["notification_event"] = {"publish"}
      /\ DOMAIN GrantedPaths["notification_inbox"] = {"read", "act", "update"}
      /\ DOMAIN GrantedPaths["notification_template"] = {"read", "draft", "disable"}
      /\ DOMAIN GrantedPaths["notification_publication"] =
           {"read", "request", "approve", "reject", "cancel"}
      /\ DOMAIN GrantedPaths["notification_delivery_policy"] = {"read", "update"}
      /\ DOMAIN GrantedPaths["notification_preference"] = {"read", "update"}
      /\ DOMAIN GrantedPaths["notification_governance"] =
           {"read", "export", "erase", "retention", "migrate"}
  BY DEF GrantedPaths
<1> QED
  BY <1>1, <1>2 DEF Grants, GrantsOf

\* No path is granted to two pairs.
LEMMA PathsApart ==
  ASSUME NEW g \in Grants, NEW h \in Grants, NEW p,
         p \in GrantedPaths[g.resource][g.action],
         p \in GrantedPaths[h.resource][h.action]
  PROVE  h = g
<1>1. h.resource = g.resource
  <2>1. CASE g.resource = "notification_service"
    BY <2>1, GrantsListed, SMTT(60) DEF GrantedPaths, Grant
  <2>2. CASE g.resource = "notification_event"
    BY <2>2, GrantsListed, SMTT(60) DEF GrantedPaths, Grant
  <2>3. CASE g.resource = "notification_inbox"
    BY <2>3, GrantsListed, SMTT(60) DEF GrantedPaths, Grant
  <2>4. CASE g.resource = "notification_template"
    BY <2>4, GrantsListed, SMTT(60) DEF GrantedPaths, Grant
  <2>5. CASE g.resource = "notification_publication"
    BY <2>5, GrantsListed, SMTT(60) DEF GrantedPaths, Grant
  <2>6. CASE g.resource = "notification_delivery_policy"
    BY <2>6, GrantsListed, SMTT(60) DEF GrantedPaths, Grant
  <2>7. CASE g.resource = "notification_preference"
    BY <2>7, GrantsListed, SMTT(60) DEF GrantedPaths, Grant
  <2>8. CASE g.resource = "notification_governance"
    BY <2>8, GrantsListed, SMTT(60) DEF GrantedPaths, Grant
  <2> QED
    BY <2>1, <2>2, <2>3, <2>4, <2>5, <2>6, <2>7, <2>8, GrantsListed DEF Grant
<1>2. CASE g.resource = "notification_service"
  BY <1>1, <1>2, GrantsListed, SMTT(60) DEF GrantedPaths, Grant
<1>3. CASE g.resource = "notification_event"
  BY <1>1, <1>3, GrantsListed, SMTT(60) DEF GrantedPaths, Grant
<1>4. CASE g.resource = "notification_inbox"
  BY <1>1, <1>4, GrantsListed, SMTT(60) DEF GrantedPaths, Grant
<1>5. CASE g.resource = "notification_template"
  BY <1>1, <1>5, GrantsListed, SMTT(60) DEF GrantedPaths, Grant
<1>6. CASE g.resource = "notification_publication"
  BY <1>1, <1>6, GrantsListed, SMTT(60) DEF GrantedPaths, Grant
<1>7. CASE g.resource = "notification_delivery_policy"
  BY <1>1, <1>7, GrantsListed, SMTT(60) DEF GrantedPaths, Grant
<1>8. CASE g.resource = "notification_preference"
  BY <1>1, <1>8, GrantsListed, SMTT(60) DEF GrantedPaths, Grant
<1>9. CASE g.resource = "notification_governance"
  BY <1>1, <1>9, GrantsListed, SMTT(60) DEF GrantedPaths, Grant
<1> QED
  BY <1>2, <1>3, <1>4, <1>5, <1>6, <1>7, <1>8, <1>9, GrantsListed DEF Grant

\* A request that is not a discovery gets the grant of its path.
LEMMA RoutedGrant ==
  ASSUME NEW r, r.method \in {"GET", "POST"}, ~Discovery(r),
         NEW g \in Grants, r.path \in GrantedPaths[g.resource][g.action]
  PROVE  ServiceGrantForRequest(r) = g
<1>1. Routed(r) = {g}
  BY PathsApart DEF Routed
<1> QED
  BY <1>1 DEF ServiceGrantForRequest
-----------------------------------------------------------------------------
(* The ports and the table                                                 *)

\* The path of use case u is kept under resource and action, and is read with a grant
\* to read only if u reads.
Placed(u, resource, action) ==
  /\ Grant(resource, action) \in Grants
  /\ u.path \in GrantedPaths[resource][action]
  /\ u.path # ValidationPath
  /\ action # "discover"
  /\ action \in {"read", "export"} => u \in ReadOnly

\* The use cases of a port are those of its nine interfaces.
LEMMA PortsListed ==
  \A u : u \in PortUseCases <=>
    \/ \E name \in DOMAIN Publisher : u = UseCase("Publisher", name)
    \/ \E name \in DOMAIN Inbox : u = UseCase("Inbox", name)
    \/ \E name \in DOMAIN Templates : u = UseCase("Templates", name)
    \/ \E name \in DOMAIN Delivery : u = UseCase("Delivery", name)
    \/ \E name \in DOMAIN Administration : u = UseCase("Administration", name)
    \/ \E name \in DOMAIN SystemTemplates : u = UseCase("SystemTemplates", name)
    \/ \E name \in DOMAIN SystemSubjects : u = UseCase("SystemSubjects", name)
    \/ \E name \in DOMAIN SystemRetention : u = UseCase("SystemRetention", name)
    \/ \E name \in DOMAIN SystemMigration : u = UseCase("SystemMigration", name)
BY DEF PortUseCases, UseCasesOf, Ports

\* Every use case has its path among those of a grant, not the validation's, that
\* names what it does.
LEMMA EveryPathPlaced ==
  \A u \in PortUseCases : \E resource, action : Placed(u, resource, action)
<1> TAKE u \in PortUseCases
<1> USE DEF Placed, ValidationPath
<1>1. ASSUME NEW name \in DOMAIN Publisher, u = UseCase("Publisher", name)
      PROVE  \E resource, action : Placed(u, resource, action)
  <2>1. \E a \in {"publish"} : Placed(u, "notification_event", a)
    BY <1>1, GrantsListed DEF UseCase, Ports, Publisher, GrantedPaths, ReadOnly, UseCasesOf
  <2> QED
    BY <2>1
<1>2. ASSUME NEW name \in DOMAIN Inbox, u = UseCase("Inbox", name)
      PROVE  \E resource, action : Placed(u, resource, action)
  <2>1. \E a \in {"read", "act", "update"} : Placed(u, "notification_inbox", a)
    BY <1>2, GrantsListed DEF UseCase, Ports, Inbox, GrantedPaths, ReadOnly, UseCasesOf
  <2> QED
    BY <2>1
<1>3. ASSUME NEW name \in DOMAIN Templates, u = UseCase("Templates", name)
      PROVE  \E resource, action : Placed(u, resource, action)
  <2>1. \/ \E a \in {"read", "draft", "disable"} : Placed(u, "notification_template", a)
        \/ \E a \in {"read", "request", "approve", "reject", "cancel"} : Placed(u, "notification_publication", a)
    BY <1>3, GrantsListed DEF UseCase, Ports, Templates, GrantedPaths, ReadOnly, UseCasesOf
  <2> QED
    BY <2>1
<1>4. ASSUME NEW name \in DOMAIN Delivery, u = UseCase("Delivery", name)
      PROVE  \E resource, action : Placed(u, resource, action)
  <2>1. \/ \E a \in {"read", "update"} : Placed(u, "notification_delivery_policy", a)
        \/ \E a \in {"read", "update"} : Placed(u, "notification_preference", a)
        \/ \E a \in {"read"} : Placed(u, "notification_governance", a)
    BY <1>4, GrantsListed DEF UseCase, Ports, Delivery, GrantedPaths, ReadOnly, UseCasesOf
  <2> QED
    BY <2>1
<1>5. ASSUME NEW name \in DOMAIN Administration, u = UseCase("Administration", name)
      PROVE  \E resource, action : Placed(u, resource, action)
  <2>1. \E a \in {"read"} : Placed(u, "notification_governance", a)
    BY <1>5, GrantsListed DEF UseCase, Ports, Administration, GrantedPaths, ReadOnly, UseCasesOf
  <2> QED
    BY <2>1
<1>6. ASSUME NEW name \in DOMAIN SystemTemplates, u = UseCase("SystemTemplates", name)
      PROVE  \E resource, action : Placed(u, resource, action)
  <2>1. \E a \in {"read", "draft"} : Placed(u, "notification_template", a)
    BY <1>6, GrantsListed DEF UseCase, Ports, SystemTemplates, GrantedPaths, ReadOnly, UseCasesOf
  <2> QED
    BY <2>1
<1>7. ASSUME NEW name \in DOMAIN SystemSubjects, u = UseCase("SystemSubjects", name)
      PROVE  \E resource, action : Placed(u, resource, action)
  <2>1. \E a \in {"export", "erase"} : Placed(u, "notification_governance", a)
    BY <1>7, GrantsListed DEF UseCase, Ports, SystemSubjects, GrantedPaths, ReadOnly, UseCasesOf
  <2> QED
    BY <2>1
<1>8. ASSUME NEW name \in DOMAIN SystemRetention, u = UseCase("SystemRetention", name)
      PROVE  \E resource, action : Placed(u, resource, action)
  <2>1. \E a \in {"retention"} : Placed(u, "notification_governance", a)
    BY <1>8, GrantsListed DEF UseCase, Ports, SystemRetention, GrantedPaths, ReadOnly, UseCasesOf
  <2> QED
    BY <2>1
<1>9. ASSUME NEW name \in DOMAIN SystemMigration, u = UseCase("SystemMigration", name)
      PROVE  \E resource, action : Placed(u, resource, action)
  <2>1. \E a \in {"migrate"} : Placed(u, "notification_governance", a)
    BY <1>9, GrantsListed DEF UseCase, Ports, SystemMigration, GrantedPaths, ReadOnly, UseCasesOf
  <2> QED
    BY <2>1
<1> QED
  BY <1>1, <1>2, <1>3, <1>4, <1>5, <1>6, <1>7, <1>8, <1>9, PortsListed

\* The use cases that must not share a token have their grants for themselves.
LEMMA SolePathsApart ==
  ASSUME NEW u \in SoleUse, NEW v \in PortUseCases, v.path = u.path
  PROVE  v = u
<1> USE DEF SoleUse, UseCase, Ports
<1>1. ASSUME NEW name \in DOMAIN Publisher, v = UseCase("Publisher", name) PROVE v = u
  BY <1>1 DEF Publisher, Inbox, Templates, SystemSubjects
<1>2. ASSUME NEW name \in DOMAIN Inbox, v = UseCase("Inbox", name) PROVE v = u
  BY <1>2 DEF Publisher, Inbox, Templates, SystemSubjects
<1>3. ASSUME NEW name \in DOMAIN Templates, v = UseCase("Templates", name) PROVE v = u
  BY <1>3 DEF Publisher, Inbox, Templates, SystemSubjects
<1>4. ASSUME NEW name \in DOMAIN Delivery, v = UseCase("Delivery", name) PROVE v = u
  BY <1>4 DEF Publisher, Inbox, Templates, SystemSubjects, Delivery
<1>5. ASSUME NEW name \in DOMAIN Administration, v = UseCase("Administration", name) PROVE v = u
  BY <1>5 DEF Publisher, Inbox, Templates, SystemSubjects, Administration
<1>6. ASSUME NEW name \in DOMAIN SystemTemplates, v = UseCase("SystemTemplates", name) PROVE v = u
  BY <1>6 DEF Publisher, Inbox, Templates, SystemSubjects, SystemTemplates
<1>7. ASSUME NEW name \in DOMAIN SystemSubjects, v = UseCase("SystemSubjects", name) PROVE v = u
  BY <1>7 DEF Publisher, Inbox, Templates, SystemSubjects
<1>8. ASSUME NEW name \in DOMAIN SystemRetention, v = UseCase("SystemRetention", name) PROVE v = u
  BY <1>8 DEF Publisher, Inbox, Templates, SystemSubjects, SystemRetention
<1>9. ASSUME NEW name \in DOMAIN SystemMigration, v = UseCase("SystemMigration", name) PROVE v = u
  BY <1>9 DEF Publisher, Inbox, Templates, SystemSubjects, SystemMigration
<1> QED
  BY <1>1, <1>2, <1>3, <1>4, <1>5, <1>6, <1>7, <1>8, <1>9, PortsListed

\* What is granted with one of them is its path alone.
LEMMA SoleGrant ==
  ASSUME NEW u \in SoleUse, NEW resource, NEW action, Placed(u, resource, action)
  PROVE  GrantedPaths[resource][action] = {u.path}
<1>1. \E r, a : /\ Grant(r, a) \in Grants
                /\ GrantedPaths[r][a] = {u.path}
  <2>1. CASE u = UseCase("Publisher", "PublishIntent")
    <3>1. /\ Grant("notification_event", "publish") \in Grants
          /\ GrantedPaths["notification_event"]["publish"] = {u.path}
      BY <2>1, GrantsListed DEF UseCase, Ports, Publisher, GrantedPaths
    <3> QED
      BY <3>1
  <2>2. CASE u = UseCase("Inbox", "ResolveAction")
    <3>1. /\ Grant("notification_inbox", "act") \in Grants
          /\ GrantedPaths["notification_inbox"]["act"] = {u.path}
      BY <2>2, GrantsListed DEF UseCase, Ports, Inbox, GrantedPaths
    <3> QED
      BY <3>1
  <2>3. CASE u = UseCase("Templates", "Disable")
    <3>1. /\ Grant("notification_template", "disable") \in Grants
          /\ GrantedPaths["notification_template"]["disable"] = {u.path}
      BY <2>3, GrantsListed DEF UseCase, Ports, Templates, GrantedPaths
    <3> QED
      BY <3>1
  <2>4. CASE u = UseCase("Templates", "RequestPublication")
    <3>1. /\ Grant("notification_publication", "request") \in Grants
          /\ GrantedPaths["notification_publication"]["request"] = {u.path}
      BY <2>4, GrantsListed DEF UseCase, Ports, Templates, GrantedPaths
    <3> QED
      BY <3>1
  <2>5. CASE u = UseCase("Templates", "ApprovePublication")
    <3>1. /\ Grant("notification_publication", "approve") \in Grants
          /\ GrantedPaths["notification_publication"]["approve"] = {u.path}
      BY <2>5, GrantsListed DEF UseCase, Ports, Templates, GrantedPaths
    <3> QED
      BY <3>1
  <2>6. CASE u = UseCase("Templates", "RejectPublication")
    <3>1. /\ Grant("notification_publication", "reject") \in Grants
          /\ GrantedPaths["notification_publication"]["reject"] = {u.path}
      BY <2>6, GrantsListed DEF UseCase, Ports, Templates, GrantedPaths
    <3> QED
      BY <3>1
  <2>7. CASE u = UseCase("Templates", "CancelPublication")
    <3>1. /\ Grant("notification_publication", "cancel") \in Grants
          /\ GrantedPaths["notification_publication"]["cancel"] = {u.path}
      BY <2>7, GrantsListed DEF UseCase, Ports, Templates, GrantedPaths
    <3> QED
      BY <3>1
  <2>8. CASE u = UseCase("SystemSubjects", "EraseSubject")
    <3>1. /\ Grant("notification_governance", "erase") \in Grants
          /\ GrantedPaths["notification_governance"]["erase"] = {u.path}
      BY <2>8, GrantsListed DEF UseCase, Ports, SystemSubjects, GrantedPaths
    <3> QED
      BY <3>1
  <2> QED
    BY <2>1, <2>2, <2>3, <2>4, <2>5, <2>6, <2>7, <2>8 DEF SoleUse
<1>2. PICK r, a : Grant(r, a) \in Grants /\ GrantedPaths[r][a] = {u.path}
  BY <1>1
<1>3. Grant(r, a) = Grant(resource, action)
  BY <1>2, PathsApart DEF Placed, Grant
<1> QED
  BY <1>2, <1>3 DEF Grant

\* The grant of a use case of a port is the one its path is kept under.
LEMMA PortGrant ==
  ASSUME NEW u \in PortUseCases, NEW resource, NEW action, Placed(u, resource, action)
  PROVE  ServiceGrantForRequest(u) = Grant(resource, action)
<1>1. u.method = "POST" /\ ~Discovery(u)
  BY DEF PortUseCases, UseCasesOf, UseCase, Discovery, Placed
<1> QED
  BY <1>1, RoutedGrant DEF Placed, Grant

\* The grant of a discovery is that of the descriptor, whatever the categories.
LEMMA DiscoveryGrant ==
  ASSUME NEW u \in DiscoveryCalls
  PROVE  ServiceGrantForRequest(u) = Grant("notification_service", "discover")
<1>1. CASE Discovery(u)
  BY <1>1 DEF ServiceGrantForRequest, Discovery
<1>2. CASE ~Discovery(u)
  <2>1. u.method = "GET" /\ u.path = "descriptor"
    BY <1>2 DEF DiscoveryCalls, Discovery
  <2>2. Grant("notification_service", "discover") \in Grants
    BY GrantsListed
  <2> QED
    BY <1>2, <2>1, <2>2, RoutedGrant DEF Grant, GrantedPaths
<1> QED
  BY <1>1, <1>2

\* A use case is a port's or a discovery call.
LEMMA UseCasesSplit ==
  \A u : u \in UseCases <=> u \in PortUseCases \/ u \in DiscoveryCalls
BY DEF UseCases

\* Every use case has a grant, and one to read, to discover or to export only when it
\* changes nothing.
LEMMA UseCaseGranted ==
  ASSUME NEW u \in UseCases
  PROVE  /\ ServiceGrantForRequest(u) \in Grants
         /\ ServiceGrantForRequest(u) \notin Refusals
         /\ ServiceGrantForRequest(u).action \in {"read", "discover", "export"}
              => u \in ReadOnly
<1>1. CASE u \in PortUseCases
  <2>1. PICK resource, action : Placed(u, resource, action)
    BY <1>1, EveryPathPlaced
  <2>2. ServiceGrantForRequest(u) = Grant(resource, action)
    BY <1>1, <2>1, PortGrant
  <2> QED
    BY <2>1, <2>2, GrantsListed
       DEF Placed, Grant, Refusals, MethodNotAllowed, RouteNotFound
<1>2. CASE u \in DiscoveryCalls
  BY <1>2, DiscoveryGrant, GrantsListed
     DEF Grant, Refusals, MethodNotAllowed, RouteNotFound, ReadOnly
<1> QED
  BY <1>1, <1>2, UseCasesSplit

\* The grant of a decision or of a removal has no other use.
LEMMA SoleGrantUnshared ==
  ASSUME NEW u \in SoleUse, NEW v \in UseCases,
         ServiceGrantForRequest(v) = ServiceGrantForRequest(u)
  PROVE  v = u
<1>1. u \in PortUseCases
  BY PortsListed DEF SoleUse, Publisher, Inbox, Templates, SystemSubjects
<1>2. PICK resource, action : Placed(u, resource, action)
  BY <1>1, EveryPathPlaced
<1>3. ServiceGrantForRequest(u) = Grant(resource, action)
  BY <1>1, <1>2, PortGrant
<1>4. v \in PortUseCases
  BY <1>2, <1>3, DiscoveryGrant, UseCasesSplit DEF Placed, Grant
<1>5. PICK r, a : Placed(v, r, a)
  BY <1>4, EveryPathPlaced
<1>6. r = resource /\ a = action
  BY <1>3, <1>4, <1>5, PortGrant DEF Grant
<1>7. v.path = u.path
  BY <1>2, <1>5, <1>6, SoleGrant DEF Placed
<1> QED
  BY <1>4, <1>7, SolePathsApart

\* What is sent more than once is a read or the publication of an intent.
LEMMA RepeatsReplayable ==
  ASSUME NEW u \in UseCases, Attempts(u) > 1
  PROVE  u \in ReadOnly \cup {UseCase("Publisher", "PublishIntent")}
<1>1. Retryable(u)
  BY DEF Attempts
<1>2. CASE u \in DiscoveryCalls
  BY <1>2 DEF ReadOnly
<1>3. CASE u \in PortUseCases
  <2>1. u.method = "POST" /\ u.path = "events:publish"
    BY <1>1, <1>3 DEF Retryable, PortUseCases, UseCasesOf, UseCase
  <2>2. UseCase("Publisher", "PublishIntent").path = "events:publish"
    BY DEF UseCase, Ports, Publisher
  <2> QED
    BY <1>3, <2>1, <2>2, SolePathsApart DEF SoleUse
<1> QED
  BY <1>2, <1>3, UseCasesSplit
-----------------------------------------------------------------------------
(* The use cases                                                           *)

\* A request carries the grant of its use case and the headers of its caller and of
\* some answer of the host.
Sent == request = NoRequest \/
        \E host \in HostHeaders :
          request = [grant |-> ServiceGrantForRequest(usecase),
                     headers |-> Headers(authority, host)]

\* The port has let a user through, or has no user to let through.
AuthorityChecked ==
  /\ ~RequiresUser(usecase) => authority = NoAuthority
  /\ step \in {"perform", "await"} \/ request # NoRequest =>
       (RequiresUser(usecase) => ValidAuthority(authority))

Results == {"none", "ok", "rejected", "unavailable", "authority required", "input invalid"}

IInv == /\ step \in {"idle", "check", "perform", "await"}
        /\ usecase \in UseCases
        /\ authority \in AccessTokens
        /\ input \in Inputs
        /\ attempt \in 0..Attempts(usecase)
        /\ result \in Results
        /\ Sent
        /\ AuthorityChecked

\* An attempt is one of those the policy allows.
LEMMA AttemptsBounded == \A r : Attempts(r) \in 1..MaxAttempts /\ MaxAttempts \in Nat
BY RetrySettings DEF Attempts, MaxAttempts

\* A repeat is one of the attempts of the route; the end of a call is a result.
LEMMA ConcludeKeeps ==
  ASSUME IInv, NEW failed_, NEW res \in Results, Conclude(failed_, res),
         UNCHANGED <<usecase, authority, input, request>>,
         step \in {"perform", "await"}
  PROVE  IInv'
<1> USE DEF IInv, Conclude, Return
<1>1. attempt' \in 0..Attempts(usecase) /\ result' \in Results
  BY AttemptsBounded
<1>2. step' \in {"idle", "perform"}
  OBVIOUS
<1>3. Sent' /\ AuthorityChecked'
  BY <1>2 DEF Sent, AuthorityChecked
<1> QED
  BY <1>1, <1>2, <1>3

\* The invariant: what a call has sent is its use case's request, under its grant and
\* with its bindings' credentials.
THEOREM UseCasesInvariant == Spec => []IInv
<1>1. Init => IInv
  <2> SUFFICES ASSUME Init PROVE IInv
    OBVIOUS
  <2>1. usecase \in UseCases /\ ~RequiresUser(usecase)
    BY UseCasesSplit DEF Init, DiscoveryCalls, RequiresUser
  <2>2. Sent /\ AuthorityChecked
    BY <2>1 DEF Init, Sent, AuthorityChecked
  <2> QED
    BY <2>1, <2>2, AttemptsBounded DEF Init, IInv, AccessTokens, Inputs, Results
<1>2. IInv /\ [Next]_vars => IInv'
  <2> SUFFICES ASSUME IInv, [Next]_vars PROVE IInv'
    OBVIOUS
  <2>1. ASSUME NEW u \in UseCases, NEW a \in AccessTokens, NEW i \in Inputs, Invoke(u, a, i)
        PROVE  IInv'
    <3>1. Sent' /\ AuthorityChecked'
      BY <2>1 DEF Invoke, Sent, AuthorityChecked, RequiresUser, NoRequest
    <3>2. authority' \in AccessTokens
      BY <2>1 DEF Invoke, AccessTokens
    <3>3. attempt' \in 0..Attempts(usecase')
      BY <2>1, AttemptsBounded DEF Invoke
    <3> QED
      BY <2>1, <3>1, <3>2, <3>3 DEF Invoke, IInv, Results
  <2>2. CASE Refuse
    BY <2>2 DEF Refuse, Return, IInv, Sent, AuthorityChecked, Results
  <2>3. CASE Call
    BY <2>3, AttemptsBounded DEF Call, IInv, Sent, AuthorityChecked
  <2>4. ASSUME NEW host \in HostHeaders, Perform(host) PROVE IInv'
    BY <2>4, UseCaseGranted DEF Perform, IInv, Sent, AuthorityChecked
  <2>5. ASSUME NEW answer \in {"ok", "rejected", "unavailable"}, Receive(answer) PROVE IInv'
    BY <2>5, ConcludeKeeps DEF Receive, Results
  <2>6. CASE UNCHANGED vars
    BY <2>6 DEF vars, IInv, Sent, AuthorityChecked
  <2> QED
    BY <2>1, <2>2, <2>3, <2>4, <2>5, <2>6 DEF Next
<1> QED
  BY <1>1, <1>2, PTL DEF Spec

\* The calls of a binding stay within their stages, attempts, grants and results.
THEOREM TypeCorrect == Spec => []TypeOK
<1>1. IInv => TypeOK
  <2> SUFFICES ASSUME IInv PROVE TypeOK
    OBVIOUS
  <2>1. attempt \in 0..MaxAttempts
    BY AttemptsBounded DEF IInv
  <2>2. /\ request = NoRequest \/ request.grant \in Grants
        /\ request.headers \in [HeaderNames -> SUBSET {"binding", "user", "host"}]
    BY UseCaseGranted DEF IInv, Sent, NoRequest, Headers, Origins
  <2> QED
    BY <2>1, <2>2 DEF IInv, TypeOK, Results
<1> QED
  BY <1>1, UseCasesInvariant, PTL

\* No use case of any port, and no category of capabilities, lacks a grant
\* (ServiceGrantForRequest), so that none fails for want of a route.
THEOREM UseCasesAlwaysGranted == Spec => []EveryUseCaseGranted
<1>1. MethodNotAllowed.action \notin Results /\ RouteNotFound.action \notin Results
  BY DEF Results, MethodNotAllowed, RouteNotFound, Grant
<1>2. IInv => EveryUseCaseGranted
  BY <1>1 DEF IInv, EveryUseCaseGranted, Refusals
<1> QED
  BY <1>2, UseCasesInvariant, PTL

\* Whatever headers the host's ContextHeaders returns, what identifies the binding, the
\* user and the workspace is put into a request by perform alone (copyContextHeaders).
THEOREM CredentialsAlwaysTheBindings == Spec => []CredentialsAreTheBindings
<1>1. IInv => CredentialsAreTheBindings
  <2> SUFFICES ASSUME IInv, request # NoRequest, NEW n \in protectedHeaders
               PROVE  request.headers[n] =
                        IF n = "Authorization" /\ RequiresUser(usecase) THEN {"user"}
                        ELSE IF n \in BindingHeaders THEN {"binding"} ELSE {}
    BY DEF CredentialsAreTheBindings
  <2>1. PICK host \in HostHeaders : request.headers = Headers(authority, host)
    BY DEF IInv, Sent
  <2>2. request.headers[n] = Origins(authority, host, n)
    BY <2>1 DEF Headers, HeaderNames
  <2>3. ~\E h \in host : h.name = n /\ Copied(h)
    BY DEF Copied
  <2>4. authority # NoAuthority <=> RequiresUser(usecase)
    BY DEF IInv, AuthorityChecked, ValidAuthority
  <2>5. \A o : o \in Origins(authority, host, n) <=>
                 \/ o = "binding" /\ n \in BindingHeaders
                 \/ o = "user" /\ n = "Authorization" /\ RequiresUser(usecase)
    BY <2>3, <2>4 DEF Origins
  <2>6. "Authorization" \notin BindingHeaders
    BY DEF BindingHeaders
  <2> QED
    BY <2>2, <2>5, <2>6
<1> QED
  BY <1>1, UseCasesInvariant, PTL

\* The token of a request for a read opens nothing that writes, and that of a decision
\* or a removal nothing else, though table and ports are kept apart.
THEOREM PowersAlwaysSeparated == Spec => []TokenPowersSeparated
<1>1. IInv => TokenPowersSeparated
  <2> SUFFICES ASSUME IInv, request # NoRequest
               PROVE  /\ request.grant.action \in {"read", "discover", "export"} =>
                           Powers(request.grant) \subseteq ReadOnly
                      /\ usecase \in SoleUse => Powers(request.grant) = {usecase}
    BY DEF TokenPowersSeparated
  <2>1. request.grant = ServiceGrantForRequest(usecase) /\ usecase \in UseCases
    BY DEF IInv, Sent
  <2> QED
    BY <2>1, UseCaseGranted, SoleGrantUnshared DEF Powers
<1> QED
  BY <1>1, UseCasesInvariant, PTL

\* binding.call repeats nothing the service may not carry out twice.
THEOREM RepeatsAlwaysReplayable == Spec => []OnlyReplayableRepeats
<1>1. IInv => OnlyReplayableRepeats
  <2>1. ASSUME IInv, attempt > 1 PROVE Attempts(usecase) > 1
    BY <2>1, AttemptsBounded DEF IInv
  <2> QED
    BY <2>1, RepeatsReplayable DEF IInv, OnlyReplayableRepeats
<1> QED
  BY <1>1, UseCasesInvariant, PTL
-----------------------------------------------------------------------------
(* The waits between the attempts of a call                                *)

\* What the loop makes of a delay in one turn, as long as there are turns.
Later(d) == IF d < policy.max THEN Capped(2 * d) ELSE d

\* h is the course of the delay over m turns of the loop, within the policy and never
\* falling.
Course(h, m) ==
  /\ h \in [1..m -> policy.initial..policy.max]
  /\ h[1] = policy.initial
  /\ \A k \in 1..(m - 1) : h[k + 1] = Later(h[k])
  /\ \A j, k \in 1..m : j <= k => h[j] <= h[k]

\* The loop for the attempt that has failed, and the one for the attempt before it,
\* follow the same course: the wait before is the next to last point of it, or the
\* last one where the maximum has cut it short.
SameCourse ==
  \E m \in {failed - 1, failed} : \E h :
    /\ turn <= m
    /\ Course(h, m)
    /\ delay = h[turn]
    /\ before = IF failed = 1 THEN 0 ELSE h[failed - 1]

WaitInv == /\ policy \in [initial : 1..MaxSetting, max : 1..MaxSetting]
           /\ policy.initial <= policy.max
           /\ failed \in 1..(MaxAttempts - 1)
           /\ turn \in 1..failed
           /\ stage \in {"double", "wait"}
           /\ stage = "wait" => turn = failed \/ delay >= policy.max
           /\ SameCourse
-----------------------------------------------------------------------------
\* What normalizedConfig makes of any settings is a policy with a maximum not
\* below its initial backoff.
LEMMA PolicyNormalized ==
  \A i, m \in Settings :
    /\ Normalized(i, m) \in [initial : 1..MaxSetting, max : 1..MaxSetting]
    /\ Normalized(i, m).initial <= Normalized(i, m).max
BY BackoffSettings DEF Settings, Normalized

\* A delay within the policy is doubled without wrapping around.
LEMMA DoubledWithinPolicy ==
  ASSUME policy \in [initial : 1..MaxSetting, max : 1..MaxSetting],
         NEW d \in policy.initial..policy.max
  PROVE  /\ Wrap(2 * d) = 2 * d
         /\ Later(d) \in policy.initial..policy.max
         /\ d <= Later(d)
BY BackoffSettings DEF Wrap, Later, Capped

\* The policy alone determines what is a course.
LEMMA CourseFixed ==
  ASSUME policy' = policy
  PROVE  \A h, m : Course(h, m)' <=> Course(h, m)
BY DEF Course, Later, Capped

\* A course begins where the loop does.
LEMMA CourseBegins ==
  ASSUME policy \in [initial : 1..MaxSetting, max : 1..MaxSetting],
         policy.initial <= policy.max
  PROVE  Course([k \in 1..1 |-> policy.initial], 1)
BY BackoffSettings DEF Course

\* A course can be followed for one more turn.
LEMMA CourseGoesOn ==
  ASSUME policy \in [initial : 1..MaxSetting, max : 1..MaxSetting],
         NEW m \in Nat \ {0}, NEW h, Course(h, m)
  PROVE  \E g : /\ Course(g, m + 1)
                /\ \A k \in 1..m : g[k] = h[k]
                /\ g[m + 1] = Later(h[m])
<1> DEFINE g == [k \in 1..(m + 1) |-> IF k <= m THEN h[k] ELSE Later(h[m])]
<1>1. \A k \in 1..m : h[k] \in policy.initial..policy.max
  BY DEF Course
<1>2. Later(h[m]) \in policy.initial..policy.max /\ h[m] <= Later(h[m])
  BY <1>1, DoubledWithinPolicy
<1>3. /\ \A k \in 1..m : g[k] = h[k]
      /\ g[m + 1] = Later(h[m])
  OBVIOUS
<1>4. g \in [1..(m + 1) -> policy.initial..policy.max]
  BY <1>1, <1>2
<1> HIDE DEF g
<1>5. \A k \in 1..((m + 1) - 1) : g[k + 1] = Later(g[k])
  <2> TAKE k \in 1..((m + 1) - 1)
  <2>1. CASE k = m
    BY <1>3, <2>1
  <2>2. CASE k # m
    <3>1. k \in 1..(m - 1) /\ k + 1 \in 1..m /\ k \in 1..m
      BY <2>2
    <3> QED
      BY <1>3, <3>1 DEF Course
  <2> QED
    BY <2>1, <2>2
<1>6. \A j, k \in 1..(m + 1) : j <= k => g[j] <= g[k]
  <2> SUFFICES ASSUME NEW j \in 1..(m + 1), NEW k \in 1..(m + 1), j <= k
               PROVE  g[j] <= g[k]
    OBVIOUS
  <2>1. CASE k \in 1..m
    <3>1. j \in 1..m
      BY <2>1
    <3> QED
      BY <1>3, <2>1, <3>1 DEF Course
  <2>2. CASE k = m + 1 /\ j \in 1..m
    <3>1. h[j] <= h[m] /\ h[j] \in Int /\ h[m] \in Int /\ Later(h[m]) \in Int
      BY <1>1, <1>2, <2>2, BackoffSettings DEF Course
    <3> QED
      BY <1>2, <1>3, <2>2, <3>1
  <2>3. CASE k = m + 1 /\ j = m + 1
    BY <1>2, <1>3, <2>3, BackoffSettings
  <2> QED
    BY <2>1, <2>2, <2>3
<1>7. Course(g, m + 1)
  <2>1. g[1] = policy.initial
    BY <1>3 DEF Course
  <2> QED
    BY <1>4, <1>5, <1>6, <2>1 DEF Course
<1> QED
  BY <1>3, <1>7
-----------------------------------------------------------------------------
\* The course of the delay lies within the policy.
LEMMA DelayOnCourse ==
  ASSUME WaitInv
  PROVE  /\ delay \in policy.initial..policy.max
         /\ before \in 0..policy.max
         /\ stage = "wait" => before <= delay
<1> USE DEF WaitInv
<1>1. PICK m \in {failed - 1, failed} : \E h :
        /\ turn <= m
        /\ Course(h, m)
        /\ delay = h[turn]
        /\ before = IF failed = 1 THEN 0 ELSE h[failed - 1]
  BY DEF SameCourse
<1>2. PICK h :
        /\ turn <= m
        /\ Course(h, m)
        /\ delay = h[turn]
        /\ before = IF failed = 1 THEN 0 ELSE h[failed - 1]
  BY <1>1
<1>3. /\ m \in Nat \ {0} /\ turn \in 1..m
      /\ \A k \in 1..m : h[k] \in policy.initial..policy.max
  BY <1>2 DEF Course
<1>4. failed # 1 => failed - 1 \in 1..m
  BY <1>3
<1>5. turn = failed /\ failed # 1 => h[failed - 1] <= h[turn]
  BY <1>2, <1>3, <1>4 DEF Course
<1> QED
  BY <1>2, <1>3, <1>4, <1>5

\* One more turn: the course of the last wait is followed, or goes on by one turn.
LEMMA DoubleKeeps == WaitInv /\ Double => WaitInv'
<1> SUFFICES ASSUME WaitInv, Double PROVE WaitInv'
  OBVIOUS
<1> USE DEF WaitInv, Double
<1>1. /\ policy' = policy /\ failed' = failed /\ before' = before
      /\ turn' = turn + 1 /\ turn + 1 \in 1..failed /\ stage' = "double"
  OBVIOUS
<1>2. PICK m \in {failed - 1, failed} : \E h :
        /\ turn <= m
        /\ Course(h, m)
        /\ delay = h[turn]
        /\ before = IF failed = 1 THEN 0 ELSE h[failed - 1]
  BY DEF SameCourse
<1>3. PICK h :
        /\ turn <= m
        /\ Course(h, m)
        /\ delay = h[turn]
        /\ before = IF failed = 1 THEN 0 ELSE h[failed - 1]
  BY <1>2
<1>4. /\ m \in Nat \ {0} /\ turn \in 1..m
      /\ delay \in policy.initial..policy.max
  BY <1>3 DEF Course
<1>5. delay' = Later(h[turn])
  BY <1>3, <1>4, DoubledWithinPolicy DEF Later
<1>6. \E l \in {failed - 1, failed} : \E g :
        /\ turn + 1 <= l
        /\ Course(g, l)
        /\ delay' = g[turn + 1]
        /\ before = IF failed = 1 THEN 0 ELSE g[failed - 1]
  <2>1. CASE turn < m
    <3>1. delay' = h[turn + 1]
      BY <1>4, <1>5, <1>3, <2>1 DEF Course
    <3> QED
      BY <1>3, <1>4, <2>1, <3>1
  <2>2. CASE turn = m
    <3>1. PICK g : /\ Course(g, m + 1)
                   /\ \A k \in 1..m : g[k] = h[k]
                   /\ g[m + 1] = Later(h[m])
      BY <1>3, <1>4, CourseGoesOn
    <3>2. m + 1 = failed
      BY <1>1, <1>4, <2>2
    <3> QED
      BY <1>3, <1>4, <1>5, <2>2, <3>1, <3>2
  <2> QED
    BY <1>4, <2>1, <2>2
<1>7. SameCourse'
  BY <1>1, <1>6, CourseFixed DEF SameCourse
<1> QED
  BY <1>1, <1>7

\* The call fails again: what it has waited is the last point of the course, which
\* the maximum may have reached before.
LEMMA FailKeeps == WaitInv /\ Fail => WaitInv'
<1> SUFFICES ASSUME WaitInv, Fail PROVE WaitInv'
  OBVIOUS
<1> USE DEF WaitInv, Fail
<1>1. MaxAttempts \in Nat /\ MaxAttempts > 1
  BY BackoffSettings, RetrySettings DEF MaxAttempts
<1>2. policy' = policy /\ turn' = 1 /\ stage' = "double" /\ delay' = policy.initial
  OBVIOUS
<1>3. \A h, m : Course(h, m)' <=> Course(h, m)
  BY <1>2, CourseFixed
<1>4. CASE failed + 1 < MaxAttempts
  <2>1. failed' = failed + 1 /\ before' = delay
    BY <1>4
  <2>2. PICK m \in {failed - 1, failed} :
          \E h : turn <= m /\ Course(h, m) /\ delay = h[turn]
    BY DEF SameCourse
  <2>3. PICK h : turn <= m /\ Course(h, m) /\ delay = h[turn]
    BY <2>2
  <2>4. /\ m \in Nat \ {0} /\ turn \in 1..m
        /\ \A k \in 1..m : h[k] \in policy.initial..policy.max
    BY <2>3 DEF Course
  <2>5. turn # failed => delay = policy.max
    BY <2>3, <2>4
  <2>6. \E g : Course(g, failed) /\ g[failed] = delay
    <3>1. CASE m = failed
      <4>1. h[turn] <= h[failed]
        BY <2>3, <2>4, <3>1 DEF Course
      <4>2. h[failed] = delay
        BY <2>3, <2>4, <2>5, <3>1, <4>1
      <4> QED
        BY <2>3, <3>1, <4>2
    <3>2. CASE m = failed - 1
      <4>1. delay = policy.max /\ h[turn] <= h[m]
        BY <2>3, <2>4, <2>5, <3>2 DEF Course
      <4>2. h[m] = policy.max
        BY <2>3, <2>4, <4>1
      <4>3. PICK g : Course(g, m + 1) /\ g[m + 1] = Later(h[m])
        BY <2>3, <2>4, CourseGoesOn
      <4>4. m + 1 = failed /\ g[m + 1] = delay
        BY <3>2, <4>1, <4>2, <4>3 DEF Later
      <4> QED
        BY <4>3, <4>4
    <3> QED
      BY <3>1, <3>2
  <2>7. PICK l \in {failed} : \E g : Course(g, l) /\ g[l] = delay
    BY <2>6
  <2>8. PICK g : Course(g, l) /\ g[l] = delay
    BY <2>7
  <2>9. g[1] = policy.initial
    BY <2>8 DEF Course
  <2>10. SameCourse'
    <3>1. /\ 1 <= failed
          /\ delay' = g[1]
          /\ before' = IF failed' = 1 THEN 0 ELSE g[failed' - 1]
      BY <1>2, <2>1, <2>8, <2>9
    <3>2. l \in {failed' - 1, failed'} /\ turn' <= l /\ delay' = g[turn']
      BY <1>2, <2>1, <2>8, <3>1
    <3>3. Course(g, l)'
      BY <1>3, <2>8
    <3> QED
      BY <3>1, <3>2, <3>3 DEF SameCourse
  <2> QED
    BY <1>1, <1>2, <1>4, <2>1, <2>10
<1>5. CASE ~(failed + 1 < MaxAttempts)
  <2>1. failed' = 1 /\ before' = 0
    BY <1>5
  <2>2. SameCourse'
    BY <1>2, <1>3, <2>1, CourseBegins DEF SameCourse
  <2> QED
    BY <1>1, <1>2, <2>1, <2>2
<1> QED
  BY <1>4, <1>5

\* In every turn of the loop, and for every attempt that fails, the delay follows the
\* one course that a policy determines.
THEOREM WaitsInvariant == BackoffSpec => []WaitInv
<1>1. BackoffInit => WaitInv
  <2> SUFFICES ASSUME BackoffInit PROVE WaitInv
    OBVIOUS
  <2>1. PICK i \in Settings, m \in Settings : policy = Normalized(i, m)
    BY DEF BackoffInit
  <2>2. /\ policy \in [initial : 1..MaxSetting, max : 1..MaxSetting]
        /\ policy.initial <= policy.max
    BY <2>1, PolicyNormalized
  <2>3. MaxAttempts \in Nat /\ MaxAttempts > 1
    BY BackoffSettings, RetrySettings DEF MaxAttempts
  <2>4. SameCourse
    BY <2>2, CourseBegins DEF BackoffInit, SameCourse
  <2> QED
    BY <2>2, <2>3, <2>4 DEF BackoffInit, WaitInv
<1>2. WaitInv /\ [BackoffNext]_backoffVars => WaitInv'
  <2> SUFFICES ASSUME WaitInv, [BackoffNext]_backoffVars PROVE WaitInv'
    OBVIOUS
  <2>1. CASE Double
    BY <2>1, DoubleKeeps
  <2>2. CASE Wait
    <3>1. SameCourse'
      BY <2>2, CourseFixed DEF Wait, WaitInv, SameCourse
    <3> QED
      BY <2>2, <3>1, DelayOnCourse, BackoffSettings DEF Wait, WaitInv
  <2>3. CASE Fail
    BY <2>3, FailKeeps
  <2>4. CASE UNCHANGED backoffVars
    <3>1. SameCourse'
      BY <2>4, CourseFixed DEF backoffVars, WaitInv, SameCourse
    <3> QED
      BY <2>4, <3>1 DEF backoffVars, WaitInv
  <2> QED
    BY <2>1, <2>2, <2>3, <2>4 DEF BackoffNext
<1> QED
  BY <1>1, <1>2, PTL DEF BackoffSpec

\* The loop counter, the attempts and the durations keep their ranges.
THEOREM WaitsTypeCorrect == BackoffSpec => []BackoffTypeOK
<1>1. WaitInv => BackoffTypeOK
  BY DelayOnCourse, BackoffSettings DEF WaitInv, BackoffTypeOK
<1> QED
  BY <1>1, WaitsInvariant, PTL

\* No wait of waitRetry is below InitialBackoff, above MaxBackoff, or negative.
THEOREM DelaysWithinPolicy == BackoffSpec => []DelayWithinPolicy
<1>1. WaitInv => DelayWithinPolicy
  BY DelayOnCourse, BackoffSettings DEF WaitInv, DelayWithinPolicy
<1> QED
  BY <1>1, WaitsInvariant, PTL

\* However many attempts a policy allows, no wait of a call is shorter than the one
\* before it.
THEOREM BackoffsNeverShrink == BackoffSpec => []BackoffNeverShrinks
<1>1. WaitInv => BackoffNeverShrinks
  BY DelayOnCourse DEF BackoffNeverShrinks
<1> QED
  BY <1>1, WaitsInvariant, PTL
=============================================================================
