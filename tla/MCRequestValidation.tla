------------------------ MODULE MCRequestValidation ------------------------
(* Instances of RequestValidation for TLC: requests of every kind, with values *)
(* on both sides of each bound.                                               *)
EXTENDS RequestValidation

TextsOf(cores) == [core : cores, padded : BOOLEAN]
UpTo(n, S) == UNION {[1..k -> S] : k \in 0..n}

Intents == [workspace : BOOLEAN, identity : BOOLEAN,
            subject : [type : BOOLEAN, id : BOOLEAN, version : BOOLEAN],
            recipients : UpTo(3, TextsOf({"", "u", "v"})), resolvers : BOOLEAN]

Commands == [id : BOOLEAN, at : BOOLEAN, fingerprint : BOOLEAN,
             requireFingerprint : BOOLEAN]

Bundles == [format : BOOLEAN, workspace : BOOLEAN, application : BOOLEAN,
            id : BOOLEAN, fingerprint : BOOLEAN, tables : BOOLEAN]

Policies == [known : BOOLEAN, version : BOOLEAN, seconds : 0..1,
             statuses : SUBSET [key : BOOLEAN, seconds : 0..1]]

Previews == [workspace : BOOLEAN, now : BOOLEAN, policy : Policies]

Batches == [job : BOOLEAN, workspace : BOOLEAN, now : BOOLEAN,
            operation : {"archive", "purge", "other"}, limit : {0, 1, 1000, 1001},
            policy : Policies]

Of(kind, values) == [kind : {kind}, value : values]
SomeRequests == Of("intent", Intents) \cup
                Of("command", Commands) \cup Of("bundle", Bundles) \cup
                Of("preview", Previews) \cup Of("batch", Batches)
=============================================================================
