------------------------- MODULE MCCatalogValidation -------------------------
(* Catalogues for TLC: event types that share their variables and actions, one *)
(* thing out of order at a time, and rules between them.                       *)
EXTENDS CatalogValidation, TLC

Exact(core) == [core |-> core, padded |-> FALSE]
Padded(core) == [core |-> core, padded |-> TRUE]

Variable(key, type) == [key |-> key, type |-> type]
Action(key, kind) == [key |-> key, kind |-> kind, resourceType |-> Exact("task"),
                      routeKey |-> Padded("task")]

\* 1 to 6 are variables, 7 to 9 actions.
Memory == <<Variable(Padded("title"), Exact("string")), Variable(Exact("due.date"), Padded("date")),
            Variable(Exact("title"), Exact("string")), Variable(Exact("access_token"), Exact("string")),
            Variable(Exact("size"), Exact("blob")), Variable(Exact("Title"), Exact("string")),
            Action(Padded("open"), Exact("route")), Action(Exact("close"), Exact("business_action")),
            Action(Exact("close"), Exact("other"))>>

Content0 == [filled |-> TRUE, tokens |-> {"title"}, labels |-> {Exact("open")}]
en == Exact("en")
de == Exact("de")

Task == [key |-> Exact("task"), head |-> TRUE, defaultLocale |-> Padded("en"), severity |-> TRUE,
         locales |-> en :> Content0, variables |-> <<1, 2>>, actions |-> <<7>>]
Two(c, d) == [Task EXCEPT !.locales = en :> c @@ de :> d]

Dotted == [Content0 EXCEPT !.tokens = {"title", "due.date"}]
Unknown == [Content0 EXCEPT !.tokens = {"due"}]
Empty == [Content0 EXCEPT !.filled = FALSE]
Unlabelled == [Content0 EXCEPT !.labels = {Padded("open")}]
BothLabels == [Content0 EXCEPT !.labels = {Exact("open"), Exact("close")}]

SingleTypes ==
  {Task, Two(Content0, Dotted), Two(Empty, Unknown), Two(Unknown, Unknown),
   Two(Unlabelled, Unlabelled), Two(Content0, Unlabelled)} \cup
  {[Task EXCEPT !.variables = vs] : vs \in
     {<<2, 1>>, <<1, 3>>, <<1, 4>>, <<1, 5>>, <<1, 6>>, <<3>>, <<>>}} \cup
  {[Task EXCEPT !.actions = as] : as \in {<<>>, <<7, 8>>, <<9>>, <<7, 9>>}} \cup
  {[Two(BothLabels, BothLabels) EXCEPT !.actions = as] : as \in {<<7, 8>>, <<8, 9>>}} \cup
  {[Task EXCEPT !.key = Exact("Title")], [Task EXCEPT !.head = FALSE],
   [Task EXCEPT !.severity = FALSE], [Task EXCEPT !.defaultLocale = de],
   [Task EXCEPT !.defaultLocale = Padded("")],
   [Task EXCEPT !.locales = en :> Content0 @@ Padded("") :> Content0]}

Channel0 == [channel |-> Padded("email"), template |-> Padded("mail"), connector |-> TRUE,
             operation |-> TRUE, delay |-> 0, step |-> 0, mode |-> Exact(""), window |-> 0,
             items |-> TRUE]
InApp == [Channel0 EXCEPT !.channel = Exact("in_app"), !.template = Exact(""),
                          !.connector = FALSE, !.operation = FALSE]
Digest == [Channel0 EXCEPT !.mode = Padded("digest"), !.window = 60]

ChannelLists ==
  {<<>>, <<InApp, Channel0>>, <<Channel0, Channel0>>, <<Digest>>,
   <<Channel0, [Channel0 EXCEPT !.step = 1, !.delay = 5]>>,
   <<InApp, [InApp EXCEPT !.template = Exact("mail")]>>, <<[InApp EXCEPT !.window = 60]>>,
   <<[Digest EXCEPT !.window = 0]>>, <<[Digest EXCEPT !.step = 1]>>,
   <<[Channel0 EXCEPT !.mode = Exact("later")]>>, <<[Channel0 EXCEPT !.delay = -1]>>,
   <<[Channel0 EXCEPT !.channel = Exact("sms")]>>, <<[Channel0 EXCEPT !.operation = FALSE]>>,
   <<[Channel0 EXCEPT !.template = Exact("Title")], [Channel0 EXCEPT !.items = FALSE]>>}

Rule0 == [event |-> Padded("task"), recovery |-> Exact(""), windows |-> TRUE,
          channels |-> <<InApp>>]
RuleLists ==
  {<<>>, <<Rule0>>, <<[Rule0 EXCEPT !.recovery = Exact("title")]>>,
   <<[Rule0 EXCEPT !.recovery = Padded("")]>>, <<Rule0, [Rule0 EXCEPT !.event = Exact("open")]>>,
   <<[Rule0 EXCEPT !.windows = FALSE]>>}

Other(key, variables) == [Task EXCEPT !.key = key, !.variables = variables]

Requests ==
  [types : {<<t>> : t \in SingleTypes}, rules : {<<>>}] \cup
  [types : {<<Task>>}, rules : {<<[Rule0 EXCEPT !.channels = cs]>> : cs \in ChannelLists}] \cup
  [types : {<<>>, <<Task, Other(Exact("title"), <<1>>)>>}, rules : RuleLists] \cup
  [types : {<<Task, Other(Padded("task"), <<1, 2>>)>>, <<Task, Other(Padded("task"), <<1, 4>>)>>,
            <<Task, [Other(Exact("title"), <<3, 2>>) EXCEPT !.locales = en :> Content0 @@ de :> Unknown]>>},
   rules : {<<Rule0>>}]

SomeCatalogues == {[memory |-> Memory, requests |-> Requests]}

Stable == {"title", "due.date", "access_token", "size", "task", "open", "close", "mail"}
Words == [k \in Stable |-> CASE k = "due.date" -> <<"due", "date">>
                             [] k = "access_token" -> <<"access", "token">>
                             [] OTHER -> <<k>>]
=============================================================================
