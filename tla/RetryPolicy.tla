----------------------------- MODULE RetryPolicy -----------------------------
(***************************************************************************)
(* Which requests of the remote binding are sent more than once, and how   *)
(* often: retryableRequest (remote/resilience.go) and the attempts loop of *)
(* binding.call (remote/factory.go).  A request is [method, path], the     *)
(* path without its "/notification/v1/" prefix.                            *)
(***************************************************************************)
EXTENDS Integers

CONSTANT MaxAttemptsSetting  \* Config.Retry.MaxAttempts

ASSUME RetrySettings == MaxAttemptsSetting \in Int

MaxAttempts == IF MaxAttemptsSetting <= 0 THEN 2 ELSE MaxAttemptsSetting

\* Faulty variant: what only looks like a read is repeated too.
RetryablePost(r) == \/ r.method \in {"GET", "HEAD", "OPTIONS"}
                    \/ r.method = "POST"

Retryable(r) == \/ r.method \in {"GET", "HEAD", "OPTIONS"}
                \/ r.method = "POST" /\ r.path = "events:publish"

\* Faulty variant: every request is retried.
AttemptsForAll(r) == MaxAttempts

Attempts(r) == IF Retryable(r) THEN MaxAttempts ELSE 1
==============================================================================
