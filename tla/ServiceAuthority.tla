-------------------------- MODULE ServiceAuthority --------------------------
(***************************************************************************)
(* ServiceGrantForRequest (service_authority.go): the grant a short-lived  *)
(* Identity service token must hold for one request.  The Remote client    *)
(* asks for the token with it and the SaaS server checks the token with it.*)
(* Paths are without their "/notification/v1/" prefix; the discovery paths *)
(* of module capabilities keep a "capability/" one.                        *)
(***************************************************************************)
CONSTANT CategoryPaths   \* paths that start with modulecapability.CategoriesPath

SummaryPath == "capability/summary"
ValidationPath == "capability/validate"

ASSUME CategoryPathsApart == {SummaryPath, ValidationPath} \cap CategoryPaths = {}

\* The pairs a service token can be issued for, and the paths of each.
GrantedPaths == [
  notification_service |-> [discover |-> {"descriptor"}],
  notification_event |-> [publish |-> {"events:publish"}],
  notification_inbox |-> [
    read |-> {"inbox:list", "inbox:get", "inbox:facets", "inbox/delegations:list",
              "inbox/delegated-owners:list", "inbox/saved-views:list",
              "inbox/preference:get"},
    act |-> {"inbox:resolve-action"},
    update |-> {"inbox:set-read", "inbox:set-archived", "inbox:acknowledge",
                "inbox:mark-all-read", "inbox/delegations:save",
                "inbox/delegations:delete", "inbox/saved-views:save",
                "inbox/saved-views:delete", "inbox/preference:save"}],
  notification_template |-> [
    read |-> {"templates/capabilities:list", "templates:list", "templates:get",
              "templates/versions:list", "templates:preview",
              "system/templates:list-published"},
    draft |-> {"templates:save-draft", "templates:preview-draft",
               "templates:restore-version", "system/templates:sync-published"},
    disable |-> {"templates:disable"}],
  notification_publication |-> [
    read |-> {"publications:list"},
    request |-> {"publications:request"},
    approve |-> {"publications:approve"},
    reject |-> {"publications:reject"},
    cancel |-> {"publications:cancel"}],
  notification_delivery_policy |-> [
    read |-> {"delivery-policy:get"},
    update |-> {"delivery-policy:save"}],
  notification_preference |-> [
    read |-> {"recipient-preferences:list"},
    update |-> {"recipient-preferences:save"}],
  notification_governance |-> [
    read |-> {"delivery-metrics:get", "governance/catalog:get",
              "governance/inbox-metrics:get"},
    export |-> {"system/subjects:preview", "system/subjects:export"},
    erase |-> {"system/subjects:erase"},
    retention |-> {"system/retention:preview", "system/retention:process-batch"},
    migrate |-> {"system/migration:status", "system/migration:freeze",
                 "system/migration:export", "system/migration:import",
                 "system/migration:activate", "system/migration:rollback"}]]

Grant(resource, action) == [resource |-> resource, action |-> action]

GrantsOf(resource) == {Grant(resource, action) : action \in DOMAIN GrantedPaths[resource]}
Grants == UNION {GrantsOf(resource) : resource \in DOMAIN GrantedPaths}

Discovery(r) == \/ r.method = "GET" /\ r.path \in {SummaryPath} \cup CategoryPaths
                \/ r.method = "POST" /\ r.path = ValidationPath

MethodNotAllowed == Grant("none", "notification.method_not_allowed")
RouteNotFound == Grant("none", "notification.route_not_found")
Refusals == {MethodNotAllowed, RouteNotFound}

Routed(r) == {g \in Grants : r.path \in GrantedPaths[g.resource][g.action]}

\* Faulty variant: one grant for all of a resource, whatever the action.
ServiceGrantPerResource(r) ==
  IF r.method \notin {"GET", "POST"} THEN MethodNotAllowed
  ELSE IF Discovery(r) THEN Grant("notification_service", "discover")
  ELSE IF Routed(r) = {} THEN RouteNotFound
  ELSE LET g == CHOOSE g \in Routed(r) : TRUE
       IN CHOOSE w \in GrantsOf(g.resource) : TRUE

\* Faulty variant: the capability categories are looked up as plain routes.
ServiceGrantWithoutCategories(r) ==
  IF r.method \notin {"GET", "POST"} THEN MethodNotAllowed
  ELSE IF Discovery(r) /\ r.path \notin CategoryPaths
       THEN Grant("notification_service", "discover")
  ELSE IF Routed(r) = {} THEN RouteNotFound
  ELSE CHOOSE g \in Routed(r) : TRUE

\* The method decides first, then discovery, then the route table.
ServiceGrantForRequest(r) ==
  IF r.method \notin {"GET", "POST"} THEN MethodNotAllowed
  ELSE IF Discovery(r) THEN Grant("notification_service", "discover")
  ELSE IF Routed(r) = {} THEN RouteNotFound
  ELSE CHOOSE g \in Routed(r) : TRUE
=============================================================================
