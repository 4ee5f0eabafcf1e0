---------------------------- MODULE MCRemoteCall ----------------------------
(* Instances of RemoteCall for TLC. *)
EXTENDS RemoteCall, TLC

Publish == [method |-> "POST", path |-> "events:publish"]
Mutate == [method |-> "POST", path |-> "templates:disable"]

PublishAndMutate == {Publish, Mutate}
OnlyPublish == {Publish}

CallSymmetry == Permutations(Calls)
=============================================================================
