---------------------------- MODULE ServiceTokens ----------------------------
(***************************************************************************)
(* The service credential of an attempt: binding.serviceToken with its     *)
(* mutex and cache (remote/factory.go), the Identity exchange behind it    *)
(* (remote/identity_service_tokens.go), and the part of binding.perform    *)
(* around it, whose deadline starts before the wait for the mutex.         *)
(*                                                                         *)
(* One unit of the clock is ten seconds.                                   *)
(***************************************************************************)
EXTENDS Integers

CONSTANTS Callers,                \* goroutines in perform
          Grants,                 \* [resource, action] of the routes they call
          RequestTimeoutSetting,  \* Config.RequestTimeout
          Lifetimes,              \* how long from now Identity's tokens may live
          MaxClock                \* bound: where the clock stops

ASSUME TokenSettings == /\ Grants \subseteq [resource : STRING, action : STRING]
                        /\ RequestTimeoutSetting \in Int
                        /\ Lifetimes \subseteq Nat
                        /\ MaxClock \in Nat

RequestTimeout == IF RequestTimeoutSetting <= 0 THEN 1 ELSE RequestTimeoutSetting

TokenMargin == 3  \* thirty seconds

\* Faulty variant: grants of one resource share a cache entry.
ResourceKey(g) == g.resource

CacheKey(g) == <<g.resource, g.action>>

Keys == {CacheKey(g) : g \in Grants}

\* A token, by the grant it was issued for and the instant it expires.
Tokens == [grant : Grants, expires : Nat]
NoGrant == [resource |-> "", action |-> ""]
NoToken == [grant |-> NoGrant, expires |-> 0]  \* no or an empty ServiceToken
StaticCredential == [grant |-> NoGrant, expires |-> -1]  \* ServiceCredential

Nobody == "nobody"

ASSUME NobodyCalls == Nobody \notin Callers

VARIABLES clock,
          tokenSource,  \* whether the binding was opened with a token source
          holder,       \* of tokenMu
          cache,        \* cachedTokens
          pc, grant, deadline,
          token,        \* what serviceToken holds or perform attaches
          hits,         \* callers whose token came out of the cache
          identity      \* callers with an Identity binding open

vars == <<clock, tokenSource, holder, cache, pc, grant, deadline, token, hits,
          identity>>

Critical == {"lookup", "open", "services", "exchange", "store"}

TypeOK ==
  /\ clock \in Nat
  /\ tokenSource \in BOOLEAN
  /\ holder \in {Nobody} \cup {c \in Callers : pc[c] \in Critical}
  /\ cache \in [Keys -> Tokens \cup {NoToken}]
  /\ pc \in [Callers -> Critical \cup {"idle", "lock", "send", "sent"}]
  /\ grant \in [Callers -> Grants \cup {NoGrant}]
  /\ \A c \in Callers : pc[c] # "idle" => grant[c] \in Grants
  /\ deadline \in [Callers -> Nat]
  /\ token \in [Callers -> Tokens \cup {NoToken, StaticCredential}]
  /\ hits \subseteq Callers
  /\ identity \subseteq Callers

Init == /\ clock = 0
        /\ tokenSource \in BOOLEAN
        /\ holder = Nobody
        /\ cache = [k \in Keys |-> NoToken]
        /\ pc = [c \in Callers |-> "idle"]
        /\ grant = [c \in Callers |-> NoGrant]
        /\ deadline = [c \in Callers |-> 0]
        /\ token = [c \in Callers |-> NoToken]
        /\ hits = {}
        /\ identity = {}

Goto(c, stage) == pc' = [pc EXCEPT ![c] = stage]
Unlock == holder' = Nobody

\* perform reports status 0, or the outcome of the request: it is over.
Done(c) == /\ Goto(c, "idle")
           /\ token' = [token EXCEPT ![c] = NoToken]
           /\ deadline' = [deadline EXCEPT ![c] = 0]
           /\ hits' = hits \ {c}
           /\ UNCHANGED <<clock, tokenSource, cache, grant>>

\* The deferred Unlock and Close of the error paths.
FailExchange(c) == Done(c) /\ Unlock /\ identity' = identity \ {c}
-----------------------------------------------------------------------------
Perform(c, g) ==
  /\ pc[c] = "idle"
  /\ grant' = [grant EXCEPT ![c] = g]
  /\ deadline' = [deadline EXCEPT ![c] = clock + RequestTimeout]
  /\ IF tokenSource
       THEN Goto(c, "lock") /\ UNCHANGED token
       ELSE Goto(c, "send") /\ token' = [token EXCEPT ![c] = StaticCredential]
  /\ UNCHANGED <<clock, tokenSource, holder, cache, hits, identity>>

Lock(c) == /\ pc[c] = "lock"
           /\ holder = Nobody
           /\ holder' = c
           /\ Goto(c, "lookup")
           /\ UNCHANGED <<clock, tokenSource, cache, grant, deadline, token, hits,
                          identity>>

\* Faulty variant: a token is used until it expires.
Unexpired(t) == t # NoToken /\ t.expires > clock

Fresh(t) == t # NoToken /\ t.expires > clock + TokenMargin

Hit(c) == /\ pc[c] = "lookup"
          /\ Fresh(cache[CacheKey(grant[c])])
          /\ token' = [token EXCEPT ![c] = cache[CacheKey(grant[c])]]
          /\ hits' = hits \cup {c}
          /\ Unlock
          /\ Goto(c, "send")
          /\ UNCHANGED <<clock, tokenSource, cache, grant, deadline, identity>>

\* Faulty variant: the mutex is not held across the exchange.
MissUnlocked(c) == /\ pc[c] = "lookup"
                   /\ ~Fresh(cache[CacheKey(grant[c])])
                   /\ Unlock
                   /\ Goto(c, "open")
                   /\ UNCHANGED <<clock, tokenSource, cache, grant, deadline,
                                  token, hits, identity>>

Miss(c) == /\ pc[c] = "lookup"
           /\ ~Fresh(cache[CacheKey(grant[c])])
           /\ Goto(c, "open")
           /\ UNCHANGED <<clock, tokenSource, holder, cache, grant, deadline,
                          token, hits, identity>>

\* identityServiceTokenSource.Token
OpenIdentity(c) == /\ pc[c] = "open"
                   /\ identity' = identity \cup {c}
                   /\ Goto(c, "services")
                   /\ UNCHANGED <<clock, tokenSource, holder, cache, grant,
                                  deadline, token, hits>>

OpenFails(c) == pc[c] = "open" /\ FailExchange(c)

\* Faulty variant: the early return forgets the Identity binding.
ServicesMissingLeak(c) == /\ pc[c] = "services"
                          /\ Done(c) /\ Unlock /\ UNCHANGED identity

ServicesMissing(c) == pc[c] = "services" /\ FailExchange(c)

AskServices(c) == /\ pc[c] = "services"
                  /\ Goto(c, "exchange")
                  /\ UNCHANGED <<clock, tokenSource, holder, cache, grant,
                                 deadline, token, hits, identity>>

ExchangeFails(c) == pc[c] = "exchange" /\ FailExchange(c)

\* Identity answers with a token for the grant asked for, which may already be
\* past its time, or with an empty one; the Identity binding is closed.
Exchange(c) ==
  /\ pc[c] = "exchange"
  /\ \E t \in {NoToken} \cup
              {[grant |-> grant[c], expires |-> clock + life] : life \in Lifetimes} :
       token' = [token EXCEPT ![c] = t]
  /\ identity' = identity \ {c}
  /\ Goto(c, "store")
  /\ UNCHANGED <<clock, tokenSource, holder, cache, grant, deadline, hits>>

Usable(t) == t # NoToken /\ t.expires > clock

\* Faulty variant: the mutex stays locked when the token is rejected.
RejectLocked(c) == /\ pc[c] = "store"
                   /\ ~Usable(token[c])
                   /\ Done(c)
                   /\ UNCHANGED <<holder, identity>>

Reject(c) == /\ pc[c] = "store"
             /\ ~Usable(token[c])
             /\ Done(c) /\ Unlock
             /\ UNCHANGED identity

Store(c) == /\ pc[c] = "store"
            /\ Usable(token[c])
            /\ cache' = [cache EXCEPT ![CacheKey(grant[c])] = token[c]]
            /\ Unlock
            /\ Goto(c, "send")
            /\ UNCHANGED <<clock, tokenSource, grant, deadline, token, hits,
                           identity>>

\* client.Do: nothing is sent once the deadline has passed.
Send(c) == /\ pc[c] = "send"
           /\ clock < deadline[c]
           /\ Goto(c, "sent")
           /\ UNCHANGED <<clock, tokenSource, holder, cache, grant, deadline,
                          token, hits, identity>>

TooLate(c) == /\ pc[c] = "send"
              /\ clock >= deadline[c]
              /\ Done(c)
              /\ UNCHANGED <<holder, identity>>

\* An answer, or the deadline.
Finish(c) == pc[c] = "sent" /\ Done(c) /\ UNCHANGED <<holder, identity>>

Tick == /\ clock < MaxClock
        /\ clock' = clock + 1
        /\ UNCHANGED <<tokenSource, holder, cache, pc, grant, deadline, token, hits,
                       identity>>
-----------------------------------------------------------------------------
InCritical(c) == \/ Hit(c) \/ Miss(c) \/ OpenIdentity(c) \/ OpenFails(c)
                 \/ ServicesMissing(c) \/ AskServices(c) \/ ExchangeFails(c)
                 \/ Exchange(c) \/ Reject(c) \/ Store(c)

Step(c) == Lock(c) \/ InCritical(c) \/ Send(c) \/ TooLate(c) \/ Finish(c)

Next == \/ \E c \in Callers : Step(c) \/ \E g \in Grants : Perform(c, g)
        \/ Tick

Spec == Init /\ [][Next]_vars
-----------------------------------------------------------------------------
(* Safety                                                                  *)

\* A request carries a token issued for its own grant, though every grant
\* shares one cache and one mutex (least privilege of binding.perform).
TokenForOwnGrant ==
  \A c \in Callers : pc[c] \in {"send", "sent"} =>
     token[c] = StaticCredential \/ token[c].grant = grant[c]

\* A token out of the cache outlives the request it goes with: up to the
\* request's deadline, which counts the wait for the mutex, it has not expired.
CachedTokenOutlivesRequest ==
  \A c \in hits : pc[c] = "sent" /\ clock <= deadline[c] => token[c].expires > clock

\* Identity is asked for a token only while the cache has none that would do:
\* callers that waited for the mutex use what its holder fetched.
NoRedundantExchange ==
  \A c \in Callers : pc[c] \in {"open", "services", "exchange"} =>
     ~Fresh(cache[CacheKey(grant[c])])

\* However the exchange ends, the Identity binding it opened is closed by then.
IdentityBindingsClosed ==
  \A c \in identity : pc[c] \in {"services", "exchange"}
=============================================================================
