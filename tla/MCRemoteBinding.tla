--------------------------- MODULE MCRemoteBinding ---------------------------
(* Instances of RemoteBinding for TLC. *)
EXTENDS RemoteBinding, TLC

Publish == [method |-> "POST", path |-> "events:publish"]
Ask == [method |-> "POST", path |-> "publications:request"]
Approve == [method |-> "POST", path |-> "publications:approve"]

EventPublish == [resource |-> "notification_event", action |-> "publish"]
PublicationRequest == [resource |-> "notification_publication", action |-> "request"]
PublicationApprove == [resource |-> "notification_publication", action |-> "approve"]

\* One route, for the liveness of a call and its token.
OnlyPublish == {Publish}
OnlyEventPublish == {EventPublish}
PublishGrant == [r \in OnlyPublish |-> EventPublish]

\* One route that is repeated, and two that need different powers over one resource.
ThreeRoutes == {Publish, Ask, Approve}
ThreeGrants == {EventPublish, PublicationRequest, PublicationApprove}
RouteGrants == [r \in ThreeRoutes |-> CASE r = Publish -> EventPublish
                                        [] r = Ask -> PublicationRequest
                                        [] r = Approve -> PublicationApprove]

\* Callers are alike (for the run without liveness).
CallSymmetry == Permutations(Calls)

\* Expired on arrival, and good for a request.
Lives == {0, 4}

\* With a static credential there is nothing to wait for.
SourceInit == BindingInit /\ tokenSource
SourceSpec == SourceInit /\ [][BindingNext]_bindingVars /\ BindingFairness
=============================================================================
