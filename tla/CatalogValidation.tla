-------------------------- MODULE CatalogValidation --------------------------
(***************************************************************************)
(* ValidateEventTypes (contract/catalog_validation.go): the event types of *)
(* a catalogue, each as ValidateEventType judges it, and the rules that    *)
(* refer to them.                                                          *)
(*                                                                         *)
(* An event type is taken by value, but its variables and actions are      *)
(* slices: here sequences of addresses in a memory, where several types    *)
(* may have some in common, as types copied from one another do.  A cell   *)
(* is a record of texts, those that are trimmed in place.  A catalogue is  *)
(* validated time and again, in whole or in part, with what the last       *)
(* validation has left in the memory.                                      *)
(*                                                                         *)
(* Fields that are only tested one by one are a BOOLEAN, TRUE when all of  *)
(* them are in order.                                                      *)
(***************************************************************************)
EXTENDS Integers, Sequences, Functions, Texts

CONSTANTS Catalogues,     \* [memory, requests], a request being [types, rules]
          StableKeys,     \* the trimmed keys that match templateStableKeyPattern
          WordsOf,        \* the words of a key between dots, dashes and underscores
          MaxValidations  \* bound: how often a catalogue is validated

ASSUME CatalogueSettings ==
  /\ StableKeys \subseteq STRING \ {""}
  /\ \A k \in StableKeys : WordsOf[k] \in Seq(STRING)
  /\ MaxValidations \in Nat \ {0}
  /\ \A c \in Catalogues : \A r \in c.requests :
       /\ r.types \in Seq(Range(r.types)) /\ r.rules \in Seq(Range(r.rules))
       /\ \A t \in Range(r.types) :
            /\ t.key \in Texts /\ DOMAIN t.locales \subseteq Texts
            /\ {t.variables, t.actions} \subseteq Seq(DOMAIN c.memory)
            /\ \A a \in Range(t.variables) \cup Range(t.actions) :
                 /\ "key" \in DOMAIN c.memory[a]
                 /\ \A f \in DOMAIN c.memory[a] : c.memory[a][f] \in Texts

catalogVariableTypes ==
  {"boolean", "date", "datetime", "email", "number", "string", "text"}

Forbidden ==
  {<<w>> : w \in {"secret", "password", "authorization", "cookie", "token", "payload",
                  "stack", "stacktrace", "exception", "dsn"}} \cup
  {<<"request", "body">>, <<"response", "body">>, <<"raw", "request">>,
   <<"raw", "response">>, <<"error", "message">>, <<"error", "detail">>}

\* catalogSensitiveVariableKey: some forbidden words follow each other in the key.
Sensitive(key) ==
  \E n, k \in DOMAIN WordsOf[key] : SubSeq(WordsOf[key], n, k) \in Forbidden

TrimCell(cell) == [f \in DOMAIN cell |-> TrimSpace(cell[f])]
-----------------------------------------------------------------------------
(* ValidateEventType                                                       *)

Fault(what, where) == {[what |-> what, where |-> where]}

HeadFaults(t) ==
  IF \/ TrimSpace(t.key).core \notin StableKeys \/ ~t.head
     \/ Blank(t.defaultLocale) \/ DOMAIN t.locales = {}
  THEN Fault("event_type_invalid", {})
  ELSE IF TrimSpace(t.defaultLocale) \notin DOMAIN t.locales THEN Fault("locale_invalid", {})
  ELSE IF ~t.severity THEN Fault("severity_invalid", {})
  ELSE {}

VariableFaults(v, declared) ==
  IF v.key.core \notin StableKeys \/ v.key.core \in declared THEN Fault("variable_invalid", {})
  ELSE IF v.type.core \notin catalogVariableTypes \/ Sensitive(v.key.core)
  THEN Fault("variable_unsafe", {})
  ELSE {}

ActionValid(a) == /\ a.kind.core \in {"route", "business_action"}
                  /\ {a.key.core, a.resourceType.core, a.routeKey.core} \subseteq StableKeys

\* The locales are a map's: any that lacks the label may be the one that is reported.
\* A locale's labels are the keys of those that are not blank.
ActionFaults(t, a) ==
  IF ~ActionValid(a) THEN Fault("action_invalid", {})
  ELSE UNION {Fault("label_missing", {l}) :
                l \in {l \in DOMAIN t.locales : a.key \notin t.locales[l].labels}}

ContentFault(t, l, declared) ==
  IF Blank(l) \/ ~t.locales[l].filled THEN Fault("content_invalid", {})
  ELSE IF ~(t.locales[l].tokens \subseteq declared) THEN Fault("variable_unknown", {l})
  ELSE {}

\* Likewise for a locale's texts.  A token is looked up whole, dots and all.
ContentFaults(t, declared) == UNION {ContentFault(t, l, declared) : l \in DOMAIN t.locales}

Cells(t) == t.variables \o t.actions

\* What may be found at a turn of the loops over an event type: at 0 before them, then
\* at its variables and actions, trimmed, and at last in its contents.
FaultsAt(t, n, cell, declared) ==
  CASE n = 0 -> HeadFaults(t)
    [] n \in 1..Len(t.variables) -> VariableFaults(cell, declared)
    [] n \in (Len(t.variables) + 1)..Len(Cells(t)) -> ActionFaults(t, cell)
    [] n > Len(Cells(t)) -> ContentFaults(t, declared)
-----------------------------------------------------------------------------
(* Rules                                                                   *)

ChannelKey(c) == TrimSpace(c.channel).core
Mode(c) == IF Blank(c.mode) THEN "immediate" ELSE TrimSpace(c.mode).core
External == {"email", "collaboration", "whatsapp"}

\* Of the channel at n, which is not to be one that comes before it.
ChannelFault(channels, n) ==
  LET c == channels[n]
      repeated == \E k \in 1..(n - 1) : /\ ChannelKey(channels[k]) = ChannelKey(c)
                                        /\ channels[k].step = c.step
  IN CASE \/ repeated \/ ~c.items
          \/ c.delay < 0 \/ c.step < 0 \/ c.window < 0 -> "channel_duplicate"
       [] Mode(c) \notin {"immediate", "digest"} -> "delivery_mode_invalid"
       [] Mode(c) = "digest" /\ (c.window <= 0 \/ c.delay # 0 \/ c.step # 0) -> "digest_invalid"
       [] ChannelKey(c) = "in_app" -> IF /\ Blank(c.template) /\ ~c.connector /\ ~c.operation
                                         /\ c.delay = 0 /\ c.step = 0 /\ c.window = 0
                                         /\ Mode(c) = "immediate"
                                      THEN "none" ELSE "in_app_invalid"
       [] ChannelKey(c) \in External -> IF /\ TrimSpace(c.template).core \in StableKeys
                                           /\ c.connector /\ c.operation
                                        THEN "none" ELSE "external_invalid"
       [] OTHER -> "channel_unsupported"

\* Of a rule among event types with these keys; of several channels' the first.
RuleFault(rule, keys) ==
  LET event == TrimSpace(rule.event).core
      faulty == {n \in DOMAIN rule.channels : ChannelFault(rule.channels, n) # "none"}
  IN IF event = "" \/ event \notin keys \/ ~rule.windows THEN "rule_invalid"
     ELSE IF /\ rule.recovery # [core |-> "", padded |-> FALSE]
             /\ TrimSpace(rule.recovery).core \notin keys THEN "recovery_invalid"
     ELSE IF faulty = {} THEN "none"
     ELSE ChannelFault(rule.channels, CHOOSE n \in faulty : \A k \in faulty : n <= k)

\* The rules before the one at n are in order.
RulesFine(rules, keys, n) == \A k \in 1..(n - 1) : RuleFault(rules[k], keys) = "none"

\* The rule at n is the first that is not.
FirstFault(rules, keys, n) == RulesFine(rules, keys, n) /\ RuleFault(rules[n], keys) # "none"
-----------------------------------------------------------------------------
VARIABLES catalogue,    \* as its author has written it
          memory,       \* its variables and actions as they are now
          request,      \* what is being validated
          index,        \* of the event type looked at
          position,     \* of its variable or action looked at, see FaultsAt
          declared,     \* variableKeys: keys of the variables passed
          seen,         \* trimmed keys of the event types passed
          verdict,      \* the result: what was at fault, and where
          validations,  \* how many there have been
          accepted      \* the requests accepted so far

vars == <<catalogue, memory, request, index, position, declared, seen, verdict,
          validations, accepted>>

Verdict(fault, i, n) == [what |-> fault.what, where |-> fault.where, index |-> i, position |-> n]
NoFault(what) == [what |-> what, where |-> {}]
Pending == Verdict(NoFault("pending"), 0, 0)
Accepted == Verdict(NoFault("none"), 0, 0)

Type == request.types[index]
Keys == {TrimSpace(request.types[i].key).core : i \in DOMAIN request.types}
Cell == IF position \in DOMAIN Cells(Type) THEN TrimCell(memory[Cells(Type)[position]])
        ELSE <<>>
FaultsHere == FaultsAt(Type, position, Cell, declared)

TypeOK ==
  /\ catalogue \in Catalogues /\ request \in catalogue.requests
  /\ DOMAIN memory = DOMAIN catalogue.memory
  /\ \A a \in DOMAIN memory : memory[a] \in {catalogue.memory[a], TrimCell(catalogue.memory[a])}
  /\ index \in 1..(Len(request.types) + 1)
  /\ position \in 0..(IF index \in DOMAIN request.types THEN Len(Cells(Type)) + 1 ELSE 0)
  /\ declared \subseteq StableKeys /\ seen \subseteq Keys
  /\ validations \in 1..MaxValidations
  /\ accepted \subseteq catalogue.requests

Init == /\ catalogue \in Catalogues
        /\ memory = catalogue.memory
        /\ request \in catalogue.requests
        /\ index = 1 /\ position = 0 /\ declared = {} /\ seen = {}
        /\ verdict = Pending
        /\ validations = 1
        /\ accepted = {}

InType == verdict = Pending /\ index <= Len(request.types)
Settle(v) == /\ verdict' = v
             /\ UNCHANGED <<catalogue, request, index, position, declared, seen, validations>>
Step == /\ position' = position + 1
        /\ UNCHANGED <<catalogue, request, index, seen, verdict, validations, accepted>>
-----------------------------------------------------------------------------
Enter == /\ InType /\ position = 0
         /\ FaultsHere = {}
         /\ declared' = {}
         /\ Step /\ UNCHANGED memory

\* Faulty variant: the variable is trimmed in the copy only.
DeclareCopy ==
  /\ InType /\ position \in DOMAIN Type.variables
  /\ FaultsHere = {}
  /\ declared' = declared \cup {Cell.key.core}
  /\ Step /\ UNCHANGED memory

\* The next variable is in order; it is trimmed in the slice.
Declare ==
  /\ InType /\ position \in DOMAIN Type.variables
  /\ FaultsHere = {}
  /\ declared' = declared \cup {Cell.key.core}
  /\ memory' = [memory EXCEPT ![Cells(Type)[position]] = Cell]
  /\ Step

\* Faulty variant: every action is written where the first one is.
OfferFirst ==
  /\ InType /\ position \in (Len(Type.variables) + 1)..Len(Cells(Type))
  /\ FaultsHere = {}
  /\ memory' = [memory EXCEPT ![Type.actions[1]] = Cell]
  /\ Step /\ UNCHANGED declared

\* The next action is in order and labelled in every locale.
Offer ==
  /\ InType /\ position \in (Len(Type.variables) + 1)..Len(Cells(Type))
  /\ FaultsHere = {}
  /\ memory' = [memory EXCEPT ![Cells(Type)[position]] = Cell]
  /\ Step /\ UNCHANGED declared

\* An action is trimmed in the slice before its labels are looked for.
Fail ==
  /\ InType
  /\ \E fault \in FaultsHere :
       /\ Settle(Verdict(fault, index, position))
       /\ memory' = IF fault.what = "label_missing"
                    THEN [memory EXCEPT ![Cells(Type)[position]] = Cell] ELSE memory
  /\ UNCHANGED accepted

\* Faulty variant: keys are compared as they are written.
RepeatedAsWritten == \E i \in 1..(index - 1) : request.types[i].key = Type.key

\* validated.Key is the trimmed one.
Repeated == TrimSpace(Type.key).core \in seen

InContents == InType /\ position > Len(Cells(Type)) /\ FaultsHere = {}

Duplicate == /\ InContents /\ Repeated
             /\ Settle(Verdict(NoFault("duplicate"), index, 0))
             /\ UNCHANGED <<memory, accepted>>

Proceed == /\ InContents /\ ~Repeated
           /\ seen' = seen \cup {TrimSpace(Type.key).core}
           /\ index' = index + 1 /\ position' = 0
           /\ UNCHANGED <<catalogue, memory, request, declared, verdict, validations, accepted>>

\* The loop over the rules, which changes nothing.
Rules(v, ruled) == /\ verdict = Pending /\ index > Len(request.types)
                   /\ Settle(v)
                   /\ accepted' = accepted \cup ruled
                   /\ UNCHANGED memory

RuleFails == \E n \in DOMAIN request.rules :
               /\ FirstFault(request.rules, seen, n)
               /\ Rules(Verdict(NoFault(RuleFault(request.rules[n], seen)), n, 0), {})

Accept == /\ RulesFine(request.rules, seen, Len(request.rules) + 1)
          /\ Rules(Accepted, {request})

\* The same catalogue, or another part of it, once more.
Again == /\ verdict # Pending /\ validations < MaxValidations
         /\ validations' = validations + 1
         /\ request' \in catalogue.requests
         /\ verdict' = Pending
         /\ index' = 1 /\ position' = 0 /\ declared' = {} /\ seen' = {}
         /\ UNCHANGED <<catalogue, memory, accepted>>
-----------------------------------------------------------------------------
Next == \/ Enter \/ Declare \/ Offer \/ Fail \/ Duplicate \/ Proceed
        \/ RuleFails \/ Accept \/ Again

Spec == Init /\ [][Next]_vars
-----------------------------------------------------------------------------
(***************************************************************************)
(* The verdicts there may be on a request, from the catalogue as it was    *)
(* written alone.                                                          *)
(***************************************************************************)
Written(a) == TrimCell(catalogue.memory[a])
WrittenKeys(t, n) ==
  {Written(t.variables[k]).key.core : k \in (1..(n - 1)) \cap DOMAIN t.variables}
WrittenFaults(t, n) ==
  FaultsAt(t, n, IF n \in DOMAIN Cells(t) THEN Written(Cells(t)[n]) ELSE <<>>,
           WrittenKeys(t, n))

Turns(t) == 0..(Len(Cells(t)) + 1)
InOrder(t) == \A n \in Turns(t) : WrittenFaults(t, n) = {}
Repeats(i) == \E j \in 1..(i - 1) : TrimSpace(request.types[j].key) = TrimSpace(request.types[i].key)
TypesFine(n) == \A j \in 1..n : InOrder(request.types[j]) /\ ~Repeats(j)

Rightful(v) ==
  \/ \E i \in DOMAIN request.types :
       /\ TypesFine(i - 1)
       /\ \/ /\ InOrder(request.types[i]) /\ Repeats(i)
             /\ v = Verdict(NoFault("duplicate"), i, 0)
          \/ \E n \in Turns(request.types[i]) :
               /\ \A k \in 0..(n - 1) : WrittenFaults(request.types[i], k) = {}
               /\ \E fault \in WrittenFaults(request.types[i], n) : v = Verdict(fault, i, n)
  \/ /\ TypesFine(Len(request.types))
     /\ \/ /\ RulesFine(request.rules, Keys, Len(request.rules) + 1)
           /\ v = Accepted
        \/ \E n \in DOMAIN request.rules :
             /\ FirstFault(request.rules, Keys, n)
             /\ v = Verdict(NoFault(RuleFault(request.rules[n], Keys)), n, 0)

\* A validation answers by what the author of the catalogue wrote: of several faults
\* the one that comes first, where no map decides; and that though variables and
\* actions are trimmed in slices that other event types share, though earlier
\* validations were broken off half way, and though types are looked up trimmed and
\* left untrimmed.
VerdictRightful == verdict # Pending => Rightful(verdict)

\* What was accepted can be used as it is then found, also after other validations
\* of the catalogue: in every locale every token is the key of a variable and every
\* action has its label, though both are looked up as they stand in the slices; and
\* every rule is about one event type, and recovers into one, no key being shared.
AcceptedIsUsable ==
  \A r \in accepted :
    /\ \A t \in Range(r.types) : \A l \in DOMAIN t.locales :
         /\ \A k \in t.locales[l].tokens :
              \E a \in Range(t.variables) : memory[a].key = [core |-> k, padded |-> FALSE]
         /\ \A a \in Range(t.actions) : memory[a].key \in t.locales[l].labels
    /\ \A rule \in Range(r.rules) :
         \A key \in {rule.event, rule.recovery} \ {[core |-> "", padded |-> FALSE]} :
           \E i \in DOMAIN r.types : \A k \in DOMAIN r.types :
             TrimSpace(r.types[k].key) = TrimSpace(key) <=> k = i
=============================================================================
