------------------------- MODULE MCDeliveryDispatch -------------------------
(* Instances of DeliveryDispatch for TLC. *)
EXTENDS DeliveryDispatch

Plain(t) == [core |-> t, padded |-> FALSE]
Padded(t) == [core |-> t, padded |-> TRUE]

App == [workspace |-> Plain("workspace"), key |-> Plain("application")]
Other == [workspace |-> Plain("other"), key |-> Plain("application")]

Written(id, workspace) == [id |-> id, complete |-> TRUE, workspace |-> workspace]

\* Each application has a request of its own, one of them padded.
TwoApplications == {App, Other}
TwoRequests == {Written("app's", Padded("workspace")), Written("other's", Plain("other"))}
=============================================================================
