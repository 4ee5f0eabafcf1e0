--------------------------- MODULE MCServiceTokens ---------------------------
(* Instances of ServiceTokens for TLC. *)
EXTENDS ServiceTokens, TLC

\* Two actions on one resource.
EventPublish == [resource |-> "notification_event", action |-> "publish"]
EventRead == [resource |-> "notification_event", action |-> "read"]

TwoGrants == {EventPublish, EventRead}

\* Expired on arrival, inside the margin, just inside it, and just beyond it.
Lives == {0, 2, 3, 4}

CallerSymmetry == Permutations(Callers)
=============================================================================
