# Notification SDK: verification

TLA+ models of the Domainry Notification SDK, the TLC runs that check them and
the TLAPS proofs about them. The SDK is a client library: it holds no database
and no worker. What can go wrong in it goes wrong between goroutines that share
a circuit breaker and a token cache, between a client and a service that lose
and delay messages, and in the checks made before a request leaves. The models
are about these.

Paths below are relative to the repository's root package.

## The system

| Component | State it keeps | Operations | Modules |
| --- | --- | --- | --- |
| Circuit breaker (`remote/resilience.go`) | `failures`, `openedUntil`, `probeActive`, under a mutex | `allow`, `observe` | `CircuitBreaker` |
| Remote call (`remote/factory.go`) | per goroutine: attempt, deadline, last outcome; shared: the breaker | `binding.call`, `binding.perform`, `waitRetry` | `RetryPolicy`, `RemoteCall` |
| Retry backoff (`remote/resilience.go`, `remote/config.go`) | loop variables | `retryDelay`, `normalizedConfig` | `Backoff` |
| Service tokens (`remote/factory.go`, `remote/identity_service_tokens.go`) | `tokenMu`, `cachedTokens` | `serviceToken`, the Identity exchange | `ServiceTokens` |
| Opening and disclosure (`remote/factory.go`, `remote/capability.go`) | the summary and the category documents, fixed at opening | `Factory.Open`, `openCapabilityBinding`, `ValidateCapabilityCandidate` | `BindingOpen` |
| Remote use cases (`remote/services.go`) | none | 52 methods of nine ports | `UseCases` |
| Service authority (`service_authority.go`) | a table | `ServiceGrantForRequest` | `ServiceAuthority` |
| Propagated headers (`remote/resilience.go`) | none | `copyContextHeaders` | `UseCases` |
| Delivery gateway (`deliverygateway/`) | per goroutine: attempt | `Dispatch`, `perform` | `DeliveryDispatch` |
| Request validation (`contract/validation.go`, `notification_migration.go`, `notification_retention.go`) | loop variables | the `Validate` methods | `RequestValidation` |
| Template validation (`contract/template_validation.go`) | loop variables | `ValidateAll`, `Validate`, `ValidateEditable` | `TemplateValidation` |
| Catalogue validation (`contract/catalog_validation.go`) | loop variables; it writes to its caller's slices | `ValidateEventTypes`, `ValidateEventType` | `CatalogValidation` |
| Provider capabilities (`modulehost/provider_capabilities.go`) | a table | `DefaultProviderCapabilities`, `ValidateProviderTemplate` | `ProviderCapabilities` |
| Module host (`modulehost/host.go`, `factory.go`) | none | interfaces only | not modelled |
| Wire types, timestamps, contract tests | none | | not modelled |

How they interact. A host calls a port method; the method checks the user's
authority and the input (request validation) and calls `binding.call`. That asks
the breaker, and makes one or more attempts; each attempt finds its grant in the
authority table, gets a token for it from the cache or from Identity, puts the
headers together and sends. The result of the last attempt is reported to the
breaker. All goroutines of a binding share the breaker and the token cache and
nothing else; `RemoteBinding` puts the two together. `Factory.Open` uses `binding.call` too, for the descriptor, the
capability summary and each category document. The delivery gateway is a
separate client, with its own retry loop and no breaker.

What is hard, and what makes each part correct:

* **Breaker.** `time.Now()` is evaluated before the lock is taken, calls
  admitted while the circuit was closed report while a probe is out, and a
  report that never comes would hold the probe slot for ever. Correct: the three
  fields agree, the slot is never leaked, the window is bounded, load is shed,
  and the circuit closes again when the remote is well.
* **Remote call.** An answer may be lost after the service has acted; the next
  attempt acts again, or the late one acts after the call has returned. Correct:
  what must not happen twice does not, and the result tells the truth.
* **Tokens.** A lock held across a network call, one cache for all grants, a
  deadline that runs while waiting for the lock. Correct: a request carries the
  token of its own grant, a cached token outlives its request, nobody fetches
  what is already cached, everybody waiting gets the lock, and Identity bindings
  are closed on every path.
* **Calls and tokens together.** `serviceToken` heeds the caller's context and not
  the attempt's, and the mutex heeds neither: a slow exchange makes everybody queued
  behind it late, and what fails for want of a token counts against the circuit of
  the Notification service. Correct: a call is still what it is with the tokens left
  out, so that it returns, tells the truth, and an open circuit closes again.
* **Opening.** The service may be upgraded between any two answers. Correct: an
  open binding discloses exactly one contract, the expected one.
* **Use cases and authority.** Paths are written in the ports, grants in another
  table, retried paths in a third place. Correct: the three agree.
* **Delivery.** A delivery whose answer is lost is sent again, the gateway may accept
  the first one late, and may answer with the receipt of another request under the
  same dedupe key. Correct: whatever is accepted carries the identity, the application
  and the workspace asked for, and another's receipt is not taken for one's own.
* **Validation.** Recipients are compared trimmed, and a migration or a retention
  policy is checked anew, elsewhere, at each of its steps. Correct: an intent is accepted
  exactly when it can be addressed, and no step is accepted that the next one's check
  would refuse. Templates
  refer to each other and to their own variables, and their locales are in a Go map.
  Correct: in what is accepted every reference resolves, and what is refused is
  refused for the same reason every time. A catalogue is checked in slices that its
  event types may share, and trimmed there as it is checked. Correct: what was
  written decides, not what was validated before, and what is accepted can be used
  as it was left.

## Modules

The dependency goes from left to right; `MC...` modules only give constants
their values.

    CircuitBreaker  \
                     RemoteCall                       (refines EffectContract)
    RetryPolicy     /
    RetryPolicy, ServiceAuthority -> UseCases
    RetryPolicy -> Backoff
    UseCases, Backoff -> UseCasesProofs
    ServiceTokens -> ServiceTokensProofs
    RemoteCall, ServiceTokens -> RemoteBinding        (implements both)
    RemoteBinding, ServiceTokensProofs -> RemoteBindingProofs  (of RemoteCall too)
    Texts -> RequestValidation -> RequestValidationProofs
    Texts, ProviderCapabilities -> TemplateValidation -> TemplateValidationProofs
    Texts -> CatalogValidation -> CatalogValidationProofs
    BindingOpen -> BindingOpenProofs
    Texts -> DeliveryDispatch -> DeliveryDispatchProofs    (refines EffectContract)

**CircuitBreaker** has the three fields of `circuitBreaker` and, as `allow` and
`observe` run under its mutex, one action for each of their outcomes. The
instant is a parameter, so the caller can bring an old one. Time is counted in
seconds; the zero `time.Time` is 0 and the clock starts at 1.

**RetryPolicy** is `retryableRequest` and the number of attempts of a request.

**RemoteCall** gives every goroutine in `binding.call` a stage between two of the
points where another goroutine, the network or the clock can intervene:
`encode`, `allow` (the instant has been read, the lock not taken), `perform`,
`await`, `backoff`, and `observe` or `cancelled` (the second instant has been
read, the lock not taken). The network is a set of messages. The service answers
a request with any status, and may or may not have acted when the answer is not
a 2xx; it may act after the client gave up. Status classes stand for statuses:
429, 502, 503 and 504 are "unavailable", every other non-2xx is "rejected", a 2xx body that
does not decode is "garbled", and status 0 is "unreachable". `Start` waits until
nothing of the previous call of the same slot is on the wire; that only names
calls apart, for another slot can call at any time.

**EffectContract** is what a caller may rely on, with neither breaker, network nor
time in it: the effect happens at most `Limit` times, "ok" only after it has
happened, "refused" only if it never will, and every call returns. `RemoteCall`
and `DeliveryDispatch` both implement it, under different mappings.

**ServiceTokens** is `serviceToken` with the mutex, the cache and the exchange in
`identityServiceTokenSource.Token`, step by step, and around it the deadline that
`perform` sets before it. A clock unit is ten seconds, so the thirty-second
margin is 3 and the default request timeout 1. The binding is opened with a token source or a static credential.

**RemoteBinding** composes the two: it extends `RemoteCall`, has the variables of
`ServiceTokens` by `INSTANCE ... WITH`, and joins their actions. Beginning an attempt
(`Admit` or `RetryTimer`) is also `Tokens!Perform`, for the grant of the call's route;
every way of getting no token is a `SendFails` of the call; `Send` and the end of
the attempt are steps of both; and getting the token is a step of `ServiceTokens`
that leaves the call where it is. What `RemoteCall` takes in one step, from
`perform` to the wire, therefore takes up to six here, with other goroutines in
between. The instance is one of `ServiceTokensProofs`, so that its theorems can be
cited.
Its clock counts tens of seconds, for the sake of the token's margin, and its
`OpenDurationSetting` is given in that unit (the default of `CircuitBreaker`, 5 seconds,
would be 50 here; the run names a duration, and the theorems hold for every one).

**BindingOpen** is `Factory.Open` up to the open binding, and candidate validation
on it. A release of the service is a descriptor and a contract; contracts are
named by their digest (assumption `DigestsNameContracts`: the hash and the bundle
check belong to the capability library). `Upgrade` may happen before any step.

**ServiceAuthority** is the table of `ServiceGrantForRequest`, and **UseCases** the
ports that use it: one record per method with its path, its checks, its authority
argument, then the attempt's grant and headers. Header values are abstracted to
whoever put them there: the binding, the user or the host.

**DeliveryDispatch** is the gateway's client: a request is validated, encoded once, and
sent with the same identity in every attempt. A sender may dispatch for several
applications. The request's workspace is trimmed before it is compared with the
application's, and is sent as it was written: `" w"` passes for the application of `"w"`
and goes out padded, beside the `"w"` of the header. The application's own workspace
is only tested for not being blank, so one that is itself padded matches no request.
Integration may answer any attempt with any receipt, and `Matches` is the comparison
`Dispatch` makes of its identifier.

**RequestValidation** has the `Validate` methods of intents, migration commands, bundles,
previews and batches; only that of the intent has a loop, and that is walked one
recipient at a time. **Texts** says what a text is for the delivery gateway and the three
modules of validation: what `TrimSpace` leaves of it, and whether there was anything to
trim. Two ways of padding one text are taken as alike: `" a"` and `"a "` are
duplicate keys in the model and would not be in the code (`"a"` is neither's).

**TemplateValidation** walks what the validator walks: the keys, then each template,
its locales and its fallbacks. What is judged at each step is an operator
(`HeadValid`, `VariablesValid`, `FallbacksValid`, `ContentValid`), so that the
state is that of the walk alone. Locales are numbered in the order of their names;
the code sorts them, and a map would yield them in any order. A name with dots is
the sequence of its parts; a source is `[blank, stray, tokens]`. Template hashes
are not modelled. **ProviderCapabilities** is the default catalogue and the rules of
WhatsApp's own templates.

**CatalogValidation** has a memory of variables and actions, and event types whose
slices are sequences of addresses in it, some of them shared. A step is a turn of
one of the loops of `ValidateEventType`, and trims the cell it passes; the loop over
the rules changes nothing and is one step. Where the code ranges over a map of locales,
any fault found in one of them may be the one returned. `Again` validates the same
catalogue or another part of it, with the memory as it then is. The reference
(`Rightful`) is the set of verdicts there may be on what was written, without a walk
and without the memory.

**Backoff** computes in durations of `Width` bits that wrap around.

Definitions marked "Faulty variant" are not part of a specification: each is a
plausible bug, kept next to the definition it would replace, and makes the
property named for it in `PROJECT.json` fail.

## Runs

| Run | Question | Bounds |
| --- | --- | --- |
| `remote_call_circuit` | Do the breaker's fields agree; do stale instants stretch the open window; do late failures admit load to an open circuit? | 3 goroutines, 1 attempt, threshold 2, `StableFrom` 4; goroutines interchangeable |
| `remote_call_contract` | Is `EffectContract` implemented, fairness included, so that every call returns; does a mutation happen at most once; is the probe slot always held by somebody; does the circuit recover? | 2 goroutines, a retried and an unretried route, default 2 attempts, threshold 1, `StableFrom` 4 |
| `service_tokens` | Right token, fresh for long enough, no exchange without need, nothing left open? | 2 goroutines, 2 grants on one resource, lifetimes on each side of the margin, `MaxClock` 5 |
| `remote_binding` | Does a binding still implement `RemoteCall`, fairness included, when attempts queue for their tokens? | 2 goroutines, 1 attempt, threshold 1, timeout 2, lifetimes 0 and 4, 1 route, `StableFrom` 4, `MaxClock` 9 |
| `remote_binding_grants` | Does each request carry a token of its own route's grant, through the shared mutex, the shared cache and retries? | 2 goroutines, 3 routes with a grant each, two of one resource; one route tried twice; `StableFrom` 2, `MaxClock` 5; goroutines interchangeable |
| `delivery` | Does the gateway accept only what was asked for, is another's receipt taken for one's own, and does `Dispatch` implement `EffectContract`? | 2 senders, 2 attempts, 2 applications, 2 requests, one of them with a padded workspace |
| `binding_open` | Is a mixture of releases ever disclosed; does `Open` return? | 5 releases, 2 applications, 6 configurations |
| `use_cases` | Do ports, grants and retries agree; whose credentials travel? | every use case; tokens none and one; complete and incomplete inputs; three sets of host headers |
| `request_validation` | Is exactly the right intent accepted, and does the check of one step of a migration or of retention let through what the next one's refuses? | up to 3 recipients with a maximum of 2, padded or not; values at and beyond each limit |
| `template_validation` | Do the references of accepted templates resolve, and is a refusal always for the same reason? | single templates with one thing out of order at a time, for four providers; sets of up to 3 templates with equal, padded and distinct keys that fall back on each other |
| `catalog_validation` | Do verdicts depend on what was written and on nothing else; does what was accepted stay usable? | one catalogue of 9 cells and some fifty parts of it, one thing out of order at a time, validated up to 3 times |
| `backoff` | Is a wait ever outside the policy, or shorter than the one before? | every policy of up to 600 ms, 8-bit durations, 5 attempts |

All of them hold. `request_validation`, `template_validation` and
`catalog_validation` switch the deadlock check off because a validation ends with its
verdict; everywhere else there is always a next step.

Why the bounds are enough to be of interest:

* `StableFrom` is the clock reading up to which the network may lose messages, the
  service may be unavailable, and callers may give up while an answer could
  still come. From 4 on there has been time for the circuit to open, let a probe
  through, have it fail, open again and recover. The clock then goes on only as
  long as an open window needs; this keeps the state space finite and does not
  limit the safety properties, which the proofs show for every `StableFrom`.
* Three goroutines with one attempt are the least for a stale report: one that was
  admitted before, one that trips the circuit, one that probes it. A threshold of 2 makes
  failures count before the circuit opens. Two goroutines suffice where what matters is
  one call and its own retries, and there a threshold of 1 opens the circuit soonest.
* `MaxClock` 5 and lifetimes 0, 2, 3, 4 let a token be expired on arrival, be
  inside the margin, be exactly at it and be just beyond it, and let a deadline pass
  while the caller waits for the lock.
* In `remote_binding` a timeout of 2 and `StableFrom` 4 let one caller's exchange
  outlast the deadline of another, who then gets a token too late to send anything;
  the circuit opens on such a failure, lets a probe through and closes. With one
  attempt a call has no retries there; that retries change nothing is
  `CallsImplemented` and `TokensImplemented`, which hold for any number of them, and
  `remote_binding_grants` has them. The
  run of `remote_binding` takes a token source to be set: with a static credential there is nothing to
  wait for, and the theorems cover it. From `StableFrom` on the clock waits for
  Identity (`InTime`), as it waits for the network in `RemoteCall`.
* The three routes of `remote_binding_grants` are the publication of an event, which is
  tried twice, and two powers over the publications, to request and to approve them: a cache kept by resource
  alone would hand the token of one to the other, and a queue that mixed callers up would
  do so with any two. Fairness plays no part there, so the goroutines may be interchanged.
* In `delivery` each request belongs to one of the two applications and is foreign to the
  other, and the receipt of one is the wrong one for the other. Two attempts are the least
  for an acceptance of the first that comes after the second.
* Three validations are the least for one that trims cells and breaks off, one that
  accepts what is now half trimmed, and one that trims the rest under the hands of the
  accepted one.
* The releases of `binding_open` include two whose categories differ in number and
  in content, one for another application, one that is a module and one with an
  old protocol.
* Three templates hold the three ways of writing two keys at once, and a fallback on
  a template before, behind or the same. Of three locales the first and the last are
  at fault, so that the order in which they are visited shows.
* A width of 8 bits and `MaxSetting` 60 (a maximum that can just be doubled) put the
  wrap-around within reach of an uncapped loop in five attempts.

The number of attempts is left to the code's default on purpose in
`remote_call_contract`.

## Fairness

* `RemoteCall!FairSpec`: a goroutine that can run does (weak fairness on its
  steps); every wait in `client.Do` has an end, because `perform` sets a timeout
  on its context; every wait in `waitRetry` has a timer; time passes. The service
  and network are assumed to answer or drop what they hold, and
  to be well from `StableFrom` on. Nobody is obliged to call: `CircuitRecovers`
  is conditional on calls that keep coming, since a probe needs a caller.
* `RemoteBinding!BindingFairSpec`: weak fairness on what a goroutine and the network do
  next, and strong fairness on `Lock`, because a Go `sync.Mutex` hands itself to a
  waiter it has kept waiting for more than a millisecond. That opening Identity and
  exchanging return is assumed: this package sets no timeout of its own for them
  beyond the context it passes on. That time passes is strong fairness on `Time`,
  since the bound on the clock may hold it up again and again. Under this,
  `CallsAsSpecified` derives the fairness that `RemoteCall` assumes of an attempt,
  where getting a token does not appear.
* `BindingOpen!FairSpec`: the next step of `Open` happens, because its calls return,
  which is part of `RemoteCall!KeepsContract`.
* `DeliveryDispatch!FairSpec`: the sender's steps; the request timeout and the
  backoff timer end its waits. The gateway is assumed nothing.

## Proofs

Each proof module extends the module it is about and shows, for every value of
the constants, what a run shows for one. Every invariant a run checks, and every
action property, is proved.

**RemoteBindingProofs, of RemoteCall.** The invariants are not inductive as they stand. `IInv` adds
`SeenPast` (an instant read is not in the future; without it `observe` could open
the window too far), `AttemptsPast` (what is on the wire or carried out
belongs to an attempt already made), `StageCoherent` (how the stage, the attempt
count and the result go together), `AnswersTrue` (a request on the wire has not been
carried out, a 2xx has) and `OneMessage` (an attempt has one message in flight).
From it follow:

* `CircuitAlwaysCoherent`, `ProbeSlotAlwaysHeld`, `OpenWindowAlwaysBounded`: no
  further assumption.
* `MutationsAtMostOnce` and `ImplementsContract` (the safety part of
  `EffectContract`): assume `RetriesAreReplayable`, that whatever is retried is
  replayable. Of the real routes that is `RepeatsAlwaysReplayable`, proved of
  `UseCases`. The argument is `AttemptsPast`: what is carried out is among the attempts
  made, and a request not retried makes only one.
* `OpenCircuitShedsLoad`: assumes finitely many goroutines, since it counts them.
  One step per action compares the calls in flight and the slot before and after.

**ServiceTokensProofs.** `Mutex` (the callers in the critical section are exactly the
holder) is what the other parts need: the cache found stale by the holder can only be
changed by the holder, which gives `ExchangesAreNeeded`; `TokensInPlace` says that
entries lie under the key of their own grant, which gives
`TokensStayWithTheirGrant`; `IdentityAlwaysClosed` is inductive with them.
`CachedTokensOutlive` assumes `TimeoutWithinMargin`, that the request timeout is at
most the thirty-second margin (the default is ten): then a token found fresh
expires after every deadline that can be in force. A longer timeout is legal in
the configuration, and nothing is claimed for it.

**RemoteBindingProofs, of the binding.** Each step of a binding is a step or a stutter of its calls
(`CallsImplemented`) and one of its tokens (`TokensImplemented`); the second needs the
invariant of `RemoteCall` that an attempt has a route, whence a grant. So every safety
theorem about either module holds of a binding, for any settings and numbers of
goroutines, grants and attempts. `RequestsAlwaysCarryTheirGrant` needs both:
`InStep` says how the two stages of a goroutine go together and that its grant is that
of its route, and `TokenForOwnGrant`, proved of `ServiceTokens`, says the rest.
`BindingKeepsContract` and `BindingTokensOutlive` say of a whole binding what callers rely
on most: its effects, and that cached tokens live long enough.

**DeliveryDispatchProofs.** `OfThisDispatch` (what is on the wire or accepted belongs to
an attempt of the dispatch under way or just over, and is what that dispatch sends),
`StageCoherent` (an attempt is made only of a request that is valid for its application)
and `ReceiptsTrue` (a receipt that names what was asked for has an acceptance behind it, as
has a receipt that was returned; a request on the wire has none yet) give `AlwaysAcceptedAsRequested` and the safety part of the
refinement of `EffectContract`, for any senders, requests, applications and number of attempts, with
no assumption beyond the shapes of the input.

**BindingOpenProofs.** `SummaryExpected` and `BundleChecked` (once open, the documents
are those of the summary) give `AlwaysDisclosesExpected` and
`VerdictsFromDisclosed` for any releases, categories and upgrades. They do not need
`DigestsNameContracts`: that makes "a release with the expected digest" mean "the
expected contract".

**RequestValidationProofs.** `Walk` relates the loop to the recipients passed: the
set seen is theirs, trimmed, none of them is blank and no two agree. At the end of
the loop that is `Addressable`. `IntentsJudgedRight` holds for any number of recipients
and any limit. `AcceptedAlwaysLeadsOn` compares checks that are written in different
places: of a bundle and of the commands that follow its import, of a preview and of a batch.

**TemplateValidationProofs.** `VerdictStable` compares the walk with a definition of
the verdict in which there is no walk. `IInv` says what the walk knows at each point: `KeysSeen` (the keys seen are those of the
templates passed, each once; behind the scan, of all), `PassedInOrder` (the templates
passed are in order) and `VisitedInOrder` (so are the locales visited, and they come
before the rest; without that a fault found need not be the first). From it follow
`VerdictsStable`, `FallbacksResolve` and `TokensDeclared`, for any number of templates,
locales and fallbacks and any catalogue. They assume the shapes of the input
(`TemplateSettings`) and that no token is without a name (`TokensNamed`), which is
what `templateTokenPattern` matches.

Three things the code allows, and the properties therefore do too: a template with a
padded key may fall back on itself, as the target is trimmed before it is compared
with the key and taken as written when it is looked up; two templates may fall back on each
other; and a variable whose key contains a dot can be declared, but no token can
refer to it.

**CatalogValidationProofs.** A validation reads cells that it and others before it have
trimmed in part, and its verdict is to be that of what was written. Trimming twice is
trimming once (`TrimTwice`), so a cell trimmed is the cell as written and trimmed
(`CellWritten`, from the type invariant, which says of every cell that it is as written or
trimmed). `IInv` then says how far the walk has come: `PassedTypes` (the event types passed
are in order as written, are trimmed, and their keys are those seen), `PassedTurns` (nothing
is at fault as written at the turns passed of the current event type, their cells are
trimmed, and the variables declared are those passed) and `AcceptedFine` (so it is of all
that was accepted, in the past too; that outlasts every step, as a step only ever trims:
`StepTrims`). `FaultsAgree` is the heart of it: what is found at a turn is what was written
there. From it follow `VerdictsRightful` and `AcceptedStaysUsable`, for any catalogues,
any sharing of slices and any number of validations. They assume that event types, rules,
variables and actions are slices, of addresses in the memory, and that every cell has a
key (`CatalogueSettings`).

The catalogue allows more than one might expect, and its properties do too: a rule may
recover into its own event; stray braces in a text, which a template's are refused for, are
not looked for; a token is looked up whole, dots and all, unlike in a template; and the
trimmed event type is thrown away, so that its key and default locale stay padded where
its variables and actions do not.

**UseCasesProofs, of UseCases.** The table of `ServiceGrantForRequest` keeps paths under
grants, and the ports keep paths of their own; the proofs go through both once.
`PathsApart` says that no path is kept under two grants, so that the grant of a request
with that path is the one it is kept under (`RoutedGrant`); `EveryPathPlaced` finds the
place of every path of every port; `SolePathsApart` and `SoleGrant` say that the grants of
decisions and removals have one use each. From this
follow `UseCasesAlwaysGranted` and `PowersAlwaysSeparated`. The invariant `IInv` says what a
request is made of (`Sent`) and when a call has passed its checks (`AuthorityChecked`).
`CredentialsAlwaysTheBindings` needs of the host's headers only that `copyContextHeaders`
skips the canonical spelling of each protected one, and so holds for any set of them;
`RepeatsAlwaysReplayable` holds for any retry policy.

**UseCasesProofs, of Backoff.** The delay is within the policy at every turn of the
loop, not only when waited for. `DelaysWithinPolicy` is for every width, number of attempts
and set of policies whose maximum can be doubled (`BackoffSettings`). In Go's 64 bits
that is a maximum of less than 146 years. `BackoffsNeverShrink` compares the loop for one
attempt with the loop for the attempt before. That looks like an induction over the turns;
what is inductive instead is that both follow one course: `SameCourse` says that there is
a function of the turns that starts at the initial delay, grows as the loop does and never
falls, of which the delay now and the wait before are two values. Each turn either
follows the course or adds a value to it.

Only model-checked, not proved: liveness (`CircuitRecovers`, `OpenReturns`) and the
fairness part of `KeepsContract` and `CallsAsSpecified`, for which the prover has no
rules. The safety part of both is proved (`ImplementsContract` of each implementation,
`CallsImplemented`).

## Not modelled

* Notification itself, its queues, templates store, retention and migration, and
  the SQL migrations: they live in another repository; `modulehost` only declares
  the interfaces.
* Encodings. JSON and HTTP are "succeeds" or "fails"; an error body's code and
  message are left out. The contents of a delivery are left out but for what
  `Request.Validate` asks of them (`complete`) and that they may not be encodable.
* `NotificationInboxQuery.Validate`: one expression without state. It trims the scope to see
  that it is one, and takes it as written to see whether it goes with a team member;
  padded scopes without a member and padded mailboxes pass and are sent as they are.
  What they mean is decided by the service, so there is nothing here to hold that against.
* The capability library and the Identity SDK, beyond what their answers can be.
* `ConfigFromEnvironment` and `OpenTelemetryContextHeaders`, which read the
  environment and a tracing library and keep no state; `ContextHeaders` may
  return anything in `UseCases`.
* Response bodies of the use cases. Ports return what the service sent.
* Timestamps: one formatting call, whose fixed width keeps texts in the order of
  instants for the years 0 to 9999.
* Two validations of one catalogue at the same time, which would race on the elements of
  the slices: nothing in the repository runs them so.
* The hashes of templates and of their variables; the module host's interfaces; the contract
  tests, whose assertions about an opened binding are those of `BindingOpen`.

## Plan

What remains, in the order of what it would add:

1. **Retries in the run of `remote_binding`**, for liveness, if a smaller clock can be found
   under which every wait still has its turn.
2. **From the routes to the calls**: `RetriesAreReplayable`, which the proofs about
   `RemoteCall` assume, derived from `RepeatsReplayable` by an instance of `RemoteCall` whose
   routes are the use cases.
