------------------------- MODULE TemplateValidation -------------------------
(***************************************************************************)
(* NotificationTemplateValidator (contract/template_validation.go):        *)
(* ValidateAll, which judges a set of templates and the fallbacks between  *)
(* them, Validate and ValidateEditable, which judge one.                   *)
(*                                                                         *)
(* A name with dots in it (a variable's key, a token) is the sequence of   *)
(* its parts.  A source, a piece of text with tokens, is [blank, stray,    *)
(* tokens]: stray when braces remain once the tokens are taken out.  The   *)
(* locales of a template are numbered in the order of their names, which   *)
(* is not the order in which a Go map is visited.                          *)
(***************************************************************************)
EXTENDS ProviderCapabilities, Functions, Texts

CONSTANTS Requests,   \* [operation, templates], one template but for ValidateAll
          StableKeys  \* the trimmed keys that match templateStableKeyPattern

Operations == {"ValidateAll", "Validate", "ValidateEditable"}

ASSUME TemplateSettings ==
  /\ StableKeys \subseteq STRING
  /\ \A r \in Requests : /\ r.operation \in Operations
                         /\ r.templates \in Seq({r.templates[i] : i \in DOMAIN r.templates})
                         /\ r.operation # "ValidateAll" => Len(r.templates) = 1
  /\ \A r \in Requests : \A i \in DOMAIN r.templates :
       /\ r.templates[i].key \in Texts
       /\ DOMAIN r.templates[i].locales \subseteq Nat

templateFallbackLimit == 5
-----------------------------------------------------------------------------
(* Validate, but for the contents                                          *)

\* Validate up to the variables, of a template that has this status.
HeadValid(t, status) ==
  /\ TrimSpace(t.key).core \in StableKeys
  /\ t.name
  /\ Known(t.channel, t.provider)
  /\ status = "published"
  /\ t.version >= 1
  /\ t.defaultLocale \in DOMAIN t.locales
  /\ t.locales[t.defaultLocale].named

\* validateTemplateVariables
VariablesValid(t) ==
  /\ \A n \in DOMAIN t.variables : t.variables[n].stable /\ t.variables[n].typed
  /\ \A n, k \in DOMAIN t.variables : t.variables[n].key = t.variables[k].key => n = k

\* validateTemplateFallbacks.  A target is trimmed and the template's key is not.
FallbackValid(t, f) == /\ TrimSpace(f.target) # t.key
                       /\ TrimSpace(f.target).core \in StableKeys
                       /\ TrimSpace(f.connector).core \in StableKeys
                       /\ ~Blank(f.connection) /\ ~Blank(f.operation)

Identity(f) == [field \in DOMAIN f |-> TrimSpace(f[field])]

FallbacksValid(t) ==
  /\ Len(t.fallbacks) <= templateFallbackLimit
  /\ \A n \in DOMAIN t.fallbacks : FallbackValid(t, t.fallbacks[n])
  /\ \A n, k \in DOMAIN t.fallbacks :
       Identity(t.fallbacks[n]) = Identity(t.fallbacks[k]) => n = k
-----------------------------------------------------------------------------
(* validateTemplateContent                                                 *)

\* Faulty variant: keys are cut at their first dot as well as tokens.
SourceValidByRoot(t, s) ==
  /\ ~s.stray
  /\ \A token \in s.tokens : \E v \in Range(t.variables) : v.key[1] = token[1]

\* validateTemplateTokens: a token is looked up by what precedes its first dot.
SourceValid(t, s) ==
  /\ ~s.stray
  /\ \A token \in s.tokens : \E v \in Range(t.variables) : v.key = <<token[1]>>

Sources(c) ==
  {c.subject, c.title, c.text, c.html, c.markdown} \cup
  (UNION {{f.key, f.value} : f \in Range(c.facts)}) \cup
  (UNION {{a.label, a.url} : a \in Range(c.actions)}) \cup
  (UNION {UNION {Range(p.parameters) : p \in Range(tmpl.components)} : tmpl \in c.template})

\* templateTokenPattern matches no token without a name.
ASSUME TokensNamed ==
  \A r \in Requests : \A t \in Range(r.templates) : \A c \in Range(t.locales) :
    \A s \in Sources(c) : s.tokens \subseteq Seq(STRING) \ {<<>>}

\* The body, and what only some providers carry.  c.template is a set of at most
\* one provider template.
Carries(capability, c) ==
  /\ IF capability.channel = "email"
       THEN ~c.subject.blank /\ (~c.text.blank \/ ~c.html.blank)
       ELSE ~c.text.blank \/ ~c.markdown.blank
  /\ c.html.blank \/ capability.html
  /\ c.markdown.blank \/ capability.markdown
  /\ Len(c.facts) <= capability.maxFacts /\ Len(c.actions) <= capability.maxActions
  /\ \A f \in Range(c.facts) : ~f.key.blank /\ ~f.value.blank /\ capability.facts
  /\ \A a \in Range(c.actions) :
       ~a.label.blank /\ ~a.url.blank /\ a.styled /\ capability.actions
  /\ \A tmpl \in c.template : /\ capability.template
                              /\ c.facts = <<>> /\ c.actions = <<>>
                              /\ ProviderTemplateValid(tmpl)

ContentValid(t, l) ==
  LET c == t.locales[l]
  IN /\ c.named
     /\ ~c.breaks
     /\ Carries(Resolve(t.channel, t.provider), c)
     /\ \A s \in Sources(c) : SourceValid(t, s)
-----------------------------------------------------------------------------
VARIABLES request,
          stage,    \* "scan" for duplicates, "head" or "content" of a template
          index,    \* of the template looked at
          seen,     \* keys found by the scan, as they are written
          visited,  \* locales of the template that are in order
          verdict   \* the result: what was at fault, and where

vars == <<request, stage, index, seen, visited, verdict>>

Verdict(fault, i, l) == [fault |-> fault, template |-> i, locale |-> l]
Pending == Verdict("pending", 0, 0)
Accepted == Verdict("none", 0, 0)
Faults == {"pending", "none", "duplicate", "template", "content", "fallback"}

Templates == request.templates
Template == Templates[index]
Many == request.operation = "ValidateAll"

TypeOK == /\ request \in Requests
          /\ stage \in {"scan", "head", "content"}
          /\ index \in 1..(Len(Templates) + 1)
          /\ stage = "content" => index <= Len(Templates)
          /\ seen \subseteq {Templates[i].key : i \in DOMAIN Templates}
          /\ visited \subseteq IF stage = "content" THEN DOMAIN Template.locales ELSE {}
          /\ verdict \in [fault : Faults, template : Nat, locale : Nat]

Init == /\ request \in Requests
        /\ stage = IF request.operation = "ValidateAll" THEN "scan" ELSE "head"
        /\ index = 1
        /\ seen = {}
        /\ visited = {}
        /\ verdict = Pending

At(s) == verdict = Pending /\ stage = s
Settle(v) == verdict' = v /\ UNCHANGED <<request, stage, index, seen, visited>>
-----------------------------------------------------------------------------
(* ValidateAll: the keys                                                   *)

Duplicate == /\ At("scan") /\ index <= Len(Templates)
             /\ Template.key \in seen
             /\ Settle(Verdict("duplicate", index, 0))

Note == /\ At("scan") /\ index <= Len(Templates)
        /\ Template.key \notin seen
        /\ seen' = seen \cup {Template.key}
        /\ index' = index + 1
        /\ UNCHANGED <<request, stage, visited, verdict>>

Noted == /\ At("scan") /\ index > Len(Templates)
         /\ stage' = "head"
         /\ index' = 1
         /\ UNCHANGED <<request, seen, visited, verdict>>
-----------------------------------------------------------------------------
(* Validate, and ValidateEditable, which takes a draft as if published      *)

Status(t) == IF request.operation = "ValidateEditable" /\ t.status = "draft"
             THEN "published" ELSE t.status

TemplateValid(t) == HeadValid(t, Status(t)) /\ VariablesValid(t) /\ FallbacksValid(t)

Judge == /\ At("head") /\ index <= Len(Templates)
         /\ TemplateValid(Template)
         /\ stage' = "content"
         /\ UNCHANGED <<request, index, seen, visited, verdict>>

JudgeFails == /\ At("head") /\ index <= Len(Templates)
              /\ ~TemplateValid(Template)
              /\ Settle(Verdict("template", index, 0))

\* Faulty variant: the locales are visited as the map yields them.
NextLocaleOfMap(l) == l \in DOMAIN Template.locales \ visited

\* Locales are visited in the order of their names.
NextLocale(l) == /\ l \in DOMAIN Template.locales \ visited
                 /\ \A k \in DOMAIN Template.locales \ visited : l <= k

Content(l) == /\ At("content")
              /\ NextLocale(l)
              /\ ContentValid(Template, l)
              /\ visited' = visited \cup {l}
              /\ UNCHANGED <<request, stage, index, seen, verdict>>

ContentFails(l) == /\ At("content")
                   /\ NextLocale(l)
                   /\ ~ContentValid(Template, l)
                   /\ Settle(Verdict("content", index, l))

\* Faulty variant: fallbacks are looked up by their trimmed keys.
FallbacksFoundTrimmed(t) ==
  \A f \in Range(t.fallbacks) : TrimSpace(f.target) \in {TrimSpace(k) : k \in seen}

\* ValidateAll looks fallbacks up as they are written, once the template that has
\* them is in order.
FallbacksFound(t) == \A f \in Range(t.fallbacks) : f.target \in seen

\* Faulty variant: the locales of the template before count as visited.
ProceedVisited == /\ At("content") /\ DOMAIN Template.locales \subseteq visited
                  /\ Many => FallbacksFound(Template)
                  /\ stage' = "head"
                  /\ index' = index + 1
                  /\ UNCHANGED <<request, seen, visited, verdict>>

Proceed == /\ At("content") /\ DOMAIN Template.locales \subseteq visited
           /\ Many => FallbacksFound(Template)
           /\ stage' = "head"
           /\ index' = index + 1
           /\ visited' = {}
           /\ UNCHANGED <<request, seen, verdict>>

FallbackMissing == /\ At("content") /\ DOMAIN Template.locales \subseteq visited
                   /\ Many /\ ~FallbacksFound(Template)
                   /\ Settle(Verdict("fallback", index, 0))

Accept == At("head") /\ index > Len(Templates) /\ Settle(Accepted)
-----------------------------------------------------------------------------
Next == \/ Duplicate \/ Note \/ Noted
        \/ Judge \/ JudgeFails
        \/ At("content") /\ \E l \in DOMAIN Template.locales :
                              Content(l) \/ ContentFails(l)
        \/ Proceed \/ FallbackMissing \/ Accept

Spec == Init /\ [][Next]_vars
-----------------------------------------------------------------------------
\* A delivery that fails over finds the template it falls back on: each fallback
\* of an accepted set is the key, as it is written, of one template and no other,
\* and, but for a key written with blanks, of another one (ValidateAll and
\* validateTemplateFallbacks together).
AcceptedFallbacksResolve ==
  Many /\ verdict = Accepted =>
    \A i \in DOMAIN Templates : \A f \in Range(Templates[i].fallbacks) :
      \E j \in DOMAIN Templates :
        /\ \A k \in DOMAIN Templates : Templates[k].key = f.target <=> k = j
        /\ i = j => Templates[i].key.padded

\* Whatever locale an accepted template is rendered in, every token is a declared
\* variable or a part of one, so that nothing is sent with a hole in it, though a
\* token is looked up by its first part only and keys may have several.
AcceptedTokensDeclared ==
  verdict = Accepted =>
    \A i \in DOMAIN Templates : \A l \in DOMAIN Templates[i].locales :
      \A s \in Sources(Templates[i].locales[l]) :
        /\ ~s.stray
        /\ \A token \in s.tokens : \E v \in Range(Templates[i].variables) :
             \E n \in 1..Len(token) : v.key = SubSeq(token, 1, n)

(***************************************************************************)
(* The verdict there should be: on the first duplicate, else on the first  *)
(* template that is not in order, and there on the template before its     *)
(* contents, on these in the order of their locales, and on its fallbacks  *)
(* last.                                                                   *)
(***************************************************************************)
FirstDuplicate(i) ==
  /\ Many /\ i \in DOMAIN Templates
  /\ \E j \in 1..(i - 1) : Templates[j].key = Templates[i].key
  /\ \A j, k \in 1..(i - 1) : Templates[j].key = Templates[k].key => j = k

ContentsValid(t) == \A l \in DOMAIN t.locales : ContentValid(t, l)

TargetsExist(t) == \A f \in Range(t.fallbacks) :
                     \E j \in DOMAIN Templates : Templates[j].key = f.target

InOrder(t) == TemplateValid(t) /\ ContentsValid(t) /\ (Many => TargetsExist(t))

FaultOf(t, i, v) ==
  \/ ~TemplateValid(t) /\ v = Verdict("template", i, 0)
  \/ /\ TemplateValid(t)
     /\ \E l \in DOMAIN t.locales :
          /\ v = Verdict("content", i, l)
          /\ ~ContentValid(t, l)
          /\ \A k \in DOMAIN t.locales : k < l => ContentValid(t, k)
  \/ /\ TemplateValid(t) /\ ContentsValid(t)
     /\ Many /\ ~TargetsExist(t)
     /\ v = Verdict("fallback", i, 0)

Rightful(v) ==
  \/ \E i \in DOMAIN Templates : FirstDuplicate(i) /\ v = Verdict("duplicate", i, 0)
  \/ /\ \A i \in DOMAIN Templates : ~FirstDuplicate(i)
     /\ \/ v = Accepted /\ \A i \in DOMAIN Templates : InOrder(Templates[i])
        \/ \E i \in DOMAIN Templates : /\ FaultOf(Templates[i], i, v)
                                       /\ \A j \in 1..(i - 1) : InOrder(Templates[j])

\* "TemplateValidationError is the stable validation failure": the verdict is fixed
\* by what was asked, whatever the order in which a map yields its locales.
VerdictStable == verdict # Pending => Rightful(verdict)
=============================================================================
