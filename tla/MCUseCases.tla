----------------------------- MODULE MCUseCases -----------------------------
(* Instances of UseCases for TLC. *)
EXTENDS UseCases

Header(name, canonical, blank) == [name |-> name, canonical |-> canonical, blank |-> blank]

\* No headers, tracing ones, and those of an incoming request passed through as
\* they came.
SomeHostHeaders ==
  {{}, {Header("Traceparent", FALSE, FALSE), Header("", TRUE, FALSE)},
   {Header("Authorization", FALSE, FALSE), Header("Cookie", TRUE, FALSE),
    Header("X-Domainry-Service-Credential", FALSE, FALSE),
    Header("X-Domainry-Workspace-Id", TRUE, TRUE)}}

TwoCategories == {"capability/categories/delivery", "capability/categories/inbox"}
=============================================================================
