---------------------------- MODULE MCBindingOpen ----------------------------
(* An instance of BindingOpen for TLC: a service that goes from one contract *)
(* to another and back, speaks for somebody else, or is no SaaS at all.      *)
EXTENDS BindingOpen

Old == [protocol |-> "current", mode |-> "saas", audience |-> "runtime",
        key |-> "notification", sha |-> "old",
        documents |-> [inbox |-> "inbox-1", templates |-> "templates-1"]]
New == [Old EXCEPT !.audience = Blank, !.sha = "new",
                   !.documents = [inbox |-> "inbox-1", templates |-> "templates-2",
                                  delivery |-> "delivery-1"]]
ForAnother == [Old EXCEPT !.audience = "another"]
AsModule == [New EXCEPT !.mode = "module"]
Legacy == [New EXCEPT !.protocol = "legacy"]

Services == {Old, New, ForAnother, AsModule, Legacy}

Runtimes == {[workspace |-> "workspace", key |-> "runtime"],
             [workspace |-> Blank, key |-> "runtime"]}

Static(sha) == [url |-> "absolute", credential |-> "secret", tokens |-> FALSE,
                sha |-> sha]

Factories == {Static("old"), Static("new"), Static(Blank),
              [Static("new") EXCEPT !.credential = Blank, !.tokens = TRUE],
              [Static("new") EXCEPT !.credential = Blank],
              [Static("old") EXCEPT !.url = "relative"]}
=============================================================================
