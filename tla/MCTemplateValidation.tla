------------------------ MODULE MCTemplateValidation ------------------------
(* Instances of TemplateValidation for TLC: single templates with one thing    *)
(* out of order at a time, and sets of up to three that fall back on another.  *)
EXTENDS TemplateValidation, TLC

Exact(core) == [core |-> core, padded |-> FALSE]
Padded(core) == [core |-> core, padded |-> TRUE]

Empty == [blank |-> TRUE, stray |-> FALSE, tokens |-> {}]
Plain == [Empty EXCEPT !.blank = FALSE]
With(tokens) == [Plain EXCEPT !.tokens = tokens]
Stray == [Plain EXCEPT !.stray = TRUE]

Fact(value) == [key |-> Plain, value |-> value]
Action(url, styled) == [label |-> Plain, url |-> url, styled |-> styled]

Good == [named |-> TRUE, breaks |-> FALSE, subject |-> Plain, title |-> Empty,
         text |-> With({<<"order">>}), html |-> Empty, markdown |-> Empty,
         facts |-> <<>>, actions |-> <<>>, template |-> {}]
Undeclared == [Good EXCEPT !.title = With({<<"user">>})]

Component(type, subType, position) ==
  [type |-> type, subType |-> subType, index |-> position, parameters |-> <<Plain>>]
Approved(components) ==
  [Good EXCEPT !.template = {[name |-> TRUE, language |-> TRUE, components |-> components]}]

Contents ==
  {Good, Undeclared, [Good EXCEPT !.named = FALSE], [Good EXCEPT !.breaks = TRUE],
   [Good EXCEPT !.subject = Empty], [Good EXCEPT !.text = Empty],
   [Good EXCEPT !.text = Empty, !.html = Plain], [Good EXCEPT !.text = Empty, !.markdown = Plain],
   [Good EXCEPT !.text = Stray], [Good EXCEPT !.text = With({<<"order", "id">>, <<"order">>})],
   [Good EXCEPT !.text = With({<<"item", "name">>})],
   [Good EXCEPT !.facts = <<Fact(Plain)>>], [Good EXCEPT !.facts = <<Fact(Empty)>>],
   [Good EXCEPT !.facts = [n \in 1..11 |-> Fact(Plain)]],
   [Good EXCEPT !.facts = <<Fact(With({<<"user">>}))>>],
   [Good EXCEPT !.actions = [n \in 1..4 |-> Action(Plain, TRUE)]],
   [Good EXCEPT !.actions = <<Action(Plain, FALSE)>>],
   [Good EXCEPT !.actions = <<Action(Stray, TRUE)>>]} \cup
  {Approved(cs) : cs \in
     {<<>>, <<Component("body", "", ""), Component("button", "url", "digit")>>,
      <<Component("button", "other", "digit")>>, <<Component("header", "", "digit")>>,
      <<[Component("body", "", "") EXCEPT !.parameters = <<With({<<"user">>})>>]>>,
      <<[Component("body", "", "") EXCEPT !.parameters = <<>>]>>,
      [n \in 1..13 |-> Component("body", "", "")]}} \cup
  {[Approved(<<>>) EXCEPT !.facts = <<Fact(Plain)>>]}

Variable(key) == [key |-> key, stable |-> TRUE, typed |-> TRUE]
Order == Variable(<<"order">>)
ItemId == Variable(<<"item", "id">>)

Fallback(target) == [target |-> target, connector |-> Exact("smtp"),
                     connection |-> Exact("main"), operation |-> Exact("send")]

Mail == [key |-> Exact("a"), name |-> TRUE, channel |-> "email", provider |-> "",
         status |-> "published", version |-> 1, defaultLocale |-> 1,
         variables |-> <<Order>>, fallbacks |-> <<>>, locales |-> 1 :> Good]

\* One template: every content for every kind of provider, and everything else
\* out of order once.
SingleTemplates ==
  {[Mail EXCEPT !.channel = p.channel, !.provider = p.provider,
                !.variables = <<ItemId, Order>>, !.locales = 1 :> Good @@ 2 :> c] :
     p \in {Email, WhatsApp, Collaboration("slack", 5), Collaboration("enterprise_wechat", 3)},
     c \in Contents} \cup
  {[Mail EXCEPT !.status = status] : status \in {"draft", "archived"}} \cup
  {[Mail EXCEPT !.variables = vs] : vs \in
     {<<Order, Order>>, <<[Order EXCEPT !.stable = FALSE]>>, <<[Order EXCEPT !.typed = FALSE]>>}} \cup
  {[Mail EXCEPT !.fallbacks = fs] : fs \in
     {<<Fallback(Exact("a"))>>, <<Fallback(Exact("b")), Fallback(Padded("b"))>>,
      <<Fallback(Exact("B"))>>, [n \in 1..6 |-> Fallback(Exact("b"))],
      <<[Fallback(Exact("b")) EXCEPT !.operation = Padded("")]>>}} \cup
  {[Mail EXCEPT !.key = Exact("B")], [Mail EXCEPT !.name = FALSE],
   [Mail EXCEPT !.provider = "none"], [Mail EXCEPT !.version = 0],
   [Mail EXCEPT !.defaultLocale = 2]}

Keys == {Exact("a"), Padded("a"), Exact("b")}
TwoFallbacks == <<Fallback(Exact("a")), Fallback(Exact("b"))>>
Keyed(k) == {[Mail EXCEPT !.key = k, !.fallbacks = fs] :
               fs \in {<<>>} \cup {<<Fallback(t)>> : t \in Keys}}
Linked == UNION {Keyed(k) : k \in Keys}
Localized == {[Mail EXCEPT !.key = k, !.fallbacks = fs, !.locales = ls] :
                k \in Keys, fs \in {<<>>, TwoFallbacks},
                ls \in {1 :> Good, 1 :> Good @@ 2 :> Undeclared,
                        1 :> Undeclared @@ 2 :> Good @@ 3 :> Undeclared}}

SomeRequests ==
  [operation : {"Validate", "ValidateEditable"}, templates : {<<t>> : t \in SingleTemplates}] \cup
  [operation : {"ValidateAll"},
   templates : {<<>>} \cup {<<t, u>> : t, u \in Localized \cup Linked} \cup
               {<<t, u, w>> : t \in Keyed(Exact("a")), u \in Keyed(Padded("a")),
                              w \in Keyed(Exact("b"))}]

Stable == {"a", "b", "smtp"}
=============================================================================
