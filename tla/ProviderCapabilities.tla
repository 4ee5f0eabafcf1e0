------------------------ MODULE ProviderCapabilities ------------------------
(***************************************************************************)
(* What each channel and provider can carry: the default catalogue and the *)
(* rules for WhatsApp's own templates (modulehost/provider_capabilities.go *)
(* and NewNotificationTemplateCapabilities, contract/template_validation). *)
(***************************************************************************)
EXTENDS Integers, Sequences

CONSTANT Providers  \* the capabilities a validator is built from

Capability(channel, provider) ==
  [channel |-> channel, provider |-> provider, html |-> FALSE, markdown |-> FALSE,
   facts |-> TRUE, actions |-> TRUE, template |-> FALSE, maxFacts |-> 10, maxActions |-> 5]

Email == [Capability("email", "") EXCEPT !.html = TRUE]
WhatsApp == [Capability("whatsapp", "meta_cloud_api") EXCEPT !.template = TRUE]
Collaboration(provider, maxActions) ==
  [Capability("collaboration", provider) EXCEPT !.markdown = TRUE, !.maxActions = maxActions]

defaultProviderCapabilities ==
  {Email, WhatsApp, Collaboration("enterprise_wechat", 3)} \cup
  {Collaboration(provider, 5) : provider \in
     {"feishu", "dingtalk", "slack", "teams", "microsoft_365", "discord",
      "google_workspace", "line", "line_works"}}

\* NewNotificationTemplateCapabilities makes a catalogue of these and of nothing else.
NewNotificationTemplateCapabilities(capabilities) ==
  /\ \A c \in capabilities : c.channel # "" /\ c.maxFacts >= 0 /\ c.maxActions >= 0
  /\ \A c, d \in capabilities : c.channel = d.channel /\ c.provider = d.provider => c = d

ASSUME CatalogBuilds == NewNotificationTemplateCapabilities(Providers)

Known(channel, provider) ==
  \E c \in Providers : c.channel = channel /\ c.provider = provider

Resolve(channel, provider) ==
  CHOOSE c \in Providers : c.channel = channel /\ c.provider = provider
-----------------------------------------------------------------------------
\* A component of a provider template is [type, subType, index, parameters]: the
\* index is "digit" when it is one; a parameter has a field blank.
ComponentValid(c) ==
  /\ \/ c.type \in {"header", "body"} /\ c.subType = "" /\ c.index = ""
     \/ c.type = "button" /\ c.subType \in {"url", "quick_reply"} /\ c.index = "digit"
  /\ Len(c.parameters) \in 1..10
  /\ \A n \in 1..Len(c.parameters) : ~c.parameters[n].blank

\* validateWhatsAppProviderTemplate; name and language tell whether they match.
ProviderTemplateValid(p) ==
  /\ p.name /\ p.language
  /\ Len(p.components) <= 12
  /\ \A n \in 1..Len(p.components) : ComponentValid(p.components[n])
=============================================================================
