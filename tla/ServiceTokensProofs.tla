------------------------- MODULE ServiceTokensProofs -------------------------
(***************************************************************************)
(* Proofs about ServiceTokens, for any callers, grants, token lifetimes    *)
(* and clock bound.                                                        *)
(***************************************************************************)
EXTENDS ServiceTokens, TLAPS

\* tokenMu: exactly the callers inside serviceToken's critical section hold it.
Mutex == \A c \in Callers : pc[c] \in Critical <=> holder = c

\* Cache entries lie under the key of their own grant, and so does the token a
\* caller is about to store or has attached.
TokensInPlace ==
  /\ \A k \in Keys : cache[k] = NoToken \/ CacheKey(cache[k].grant) = k
  /\ \A c \in Callers : pc[c] = "store" =>
       token[c] = NoToken \/ token[c].grant = grant[c]
  /\ TokenForOwnGrant

\* A deadline is never further away than the timeout, and a token taken from the
\* cache expires after it.
DeadlinesNear ==
  /\ \A c \in Callers : deadline[c] <= clock + RequestTimeout
  /\ \A c \in hits : /\ pc[c] \in {"send", "sent"}
                     /\ token[c].expires > deadline[c]

IInv == /\ TypeOK
        /\ Mutex
        /\ TokensInPlace
        /\ NoRedundantExchange
        /\ IdentityBindingsClosed
-----------------------------------------------------------------------------
\* normalizedConfig leaves a positive timeout.
LEMMA TimeoutPositive == RequestTimeout \in Nat \ {0}
BY TokenSettings DEF RequestTimeout

\* The resource and the action of a grant can be read back from its key.
LEMMA KeysDistinct ==
  /\ \A g \in Grants : CacheKey(g) \in Keys
  /\ \A g, h \in Grants : CacheKey(g) = CacheKey(h) => g = h
BY TokenSettings DEF CacheKey, Keys

\* A binding opens with a free mutex and an empty cache.
LEMMA InitIInv == Init => IInv
BY NobodyCalls
   DEF Init, IInv, TypeOK, Mutex, TokensInPlace, TokenForOwnGrant, Critical,
       NoRedundantExchange, IdentityBindingsClosed

\* No step changes a type.
LEMMA TypeOKStep == TypeOK /\ [Next]_vars => TypeOK'
<1> SUFFICES ASSUME TypeOK, [Next]_vars PROVE TypeOK'
  OBVIOUS
<1> USE TimeoutPositive, KeysDistinct DEF TypeOK, Goto, Critical
<1>1. ASSUME NEW c \in Callers, NEW g \in Grants, Perform(c, g) PROVE TypeOK'
  BY <1>1 DEF Perform
<1>2. ASSUME NEW c \in Callers, Done(c), identity' \subseteq identity,
             \/ holder' = Nobody
             \/ holder' = holder /\ pc[c] \notin Critical
      PROVE  TypeOK'
  BY <1>2 DEF Done
<1>3. ASSUME NEW c \in Callers,
             \/ Lock(c) \/ Miss(c) \/ OpenIdentity(c) \/ AskServices(c) \/ Send(c)
      PROVE  TypeOK'
  BY <1>3 DEF Lock, Miss, OpenIdentity, AskServices, Send
<1>4. ASSUME NEW c \in Callers, Hit(c) PROVE TypeOK'
  BY <1>4 DEF Hit, Unlock
<1>5. ASSUME NEW c \in Callers, Exchange(c) PROVE TypeOK'
  <2>1. \A life \in Lifetimes : [grant |-> grant[c], expires |-> clock + life] \in Tokens
    BY <1>5, TokenSettings DEF Tokens, Exchange
  <2>2. PICK t \in Tokens \cup {NoToken} : token' = [token EXCEPT ![c] = t]
    BY <1>5, <2>1 DEF Exchange
  <2> QED
    BY <1>5, <2>2 DEF Exchange
<1>6. ASSUME NEW c \in Callers, Store(c) PROVE TypeOK'
  BY <1>6 DEF Store, Unlock, Usable, StaticCredential, NoToken
<1>7. CASE Tick
  BY <1>7 DEF Tick
<1>8. CASE UNCHANGED vars
  BY <1>8 DEF vars
<1> QED
  BY <1>1, <1>2, <1>3, <1>4, <1>5, <1>6, <1>7, <1>8
     DEF Next, Step, InCritical, OpenFails, ServicesMissing, ExchangeFails, Reject,
         TooLate, Finish, FailExchange, Unlock

\* Leaving serviceToken or perform on an error path gives everything back.
LEMMA DoneKeeps ==
  ASSUME IInv, TypeOK', NEW c \in Callers, Done(c), pc[c] # "idle",
         \/ pc[c] \in Critical /\ Unlock
         \/ pc[c] \notin Critical /\ UNCHANGED holder,
         identity' \subseteq identity,
         pc[c] \in {"services", "exchange"} => c \notin identity'
  PROVE  IInv'
<1> USE DEF IInv, TypeOK, Done, Goto
<1>1. Mutex'
  BY NobodyCalls DEF Mutex, Critical, Unlock
<1>2. TokensInPlace'
  BY DEF TokensInPlace, TokenForOwnGrant
<1>3. NoRedundantExchange'
  BY DEF NoRedundantExchange, Fresh
<1>4. IdentityBindingsClosed'
  BY DEF IdentityBindingsClosed
<1> QED
  BY <1>1, <1>2, <1>3, <1>4

\* Every step keeps the mutex, the tokens and the cache in agreement.
LEMMA IInvStep == IInv /\ [Next]_vars => IInv'
<1> SUFFICES ASSUME IInv, [Next]_vars PROVE IInv'
  OBVIOUS
<1>0. TypeOK'
  BY TypeOKStep DEF IInv
<1> USE DEF IInv
<1>1. ASSUME NEW c \in Callers, NEW g \in Grants, Perform(c, g) PROVE IInv'
  <2> USE <1>1 DEF TypeOK, Perform, Goto
  <2>1. Mutex'
    BY DEF Mutex, Critical
  <2>2. TokensInPlace'
    BY DEF TokensInPlace, TokenForOwnGrant
  <2>3. NoRedundantExchange' /\ IdentityBindingsClosed'
    BY DEF NoRedundantExchange, Fresh, IdentityBindingsClosed
  <2> QED
    BY <1>0, <2>1, <2>2, <2>3
<1>2. ASSUME NEW c \in Callers, Lock(c) PROVE IInv'
  <2> USE <1>2 DEF TypeOK, Lock, Goto
  <2>1. Mutex'
    BY NobodyCalls DEF Mutex, Critical
  <2>2. TokensInPlace'
    BY DEF TokensInPlace, TokenForOwnGrant
  <2>3. NoRedundantExchange' /\ IdentityBindingsClosed'
    BY DEF NoRedundantExchange, Fresh, IdentityBindingsClosed
  <2> QED
    BY <1>0, <2>1, <2>2, <2>3
<1>3. ASSUME NEW c \in Callers, Hit(c) PROVE IInv'
  <2> USE <1>3 DEF TypeOK, Hit, Goto
  <2>1. Mutex'
    BY NobodyCalls DEF Mutex, Critical, Unlock
  <2>2. token'[c].grant = grant[c]
    BY KeysDistinct DEF TokensInPlace, Fresh, Tokens
  <2>3. TokensInPlace'
    BY <2>2 DEF TokensInPlace, TokenForOwnGrant
  <2>4. NoRedundantExchange' /\ IdentityBindingsClosed'
    BY DEF NoRedundantExchange, Fresh, IdentityBindingsClosed
  <2> QED
    BY <1>0, <2>1, <2>3, <2>4
<1>4. ASSUME NEW c \in Callers, Miss(c) \/ OpenIdentity(c) \/ AskServices(c)
      PROVE  IInv'
  <2> USE <1>4 DEF TypeOK, Miss, OpenIdentity, AskServices, Goto
  <2>1. Mutex'
    BY DEF Mutex, Critical
  <2>2. TokensInPlace'
    BY DEF TokensInPlace, TokenForOwnGrant
  <2>3. NoRedundantExchange' /\ IdentityBindingsClosed'
    BY DEF NoRedundantExchange, Fresh, IdentityBindingsClosed
  <2> QED
    BY <1>0, <2>1, <2>2, <2>3
<1>5. ASSUME NEW c \in Callers, Exchange(c) PROVE IInv'
  <2> USE <1>5 DEF TypeOK, Exchange, Goto
  <2>1. Mutex'
    BY DEF Mutex, Critical
  <2>2. token'[c] = NoToken \/ token'[c].grant = grant[c]
    OBVIOUS
  <2>3. TokensInPlace'
    BY <2>2 DEF TokensInPlace, TokenForOwnGrant
  <2>4. NoRedundantExchange' /\ IdentityBindingsClosed'
    BY DEF NoRedundantExchange, Fresh, IdentityBindingsClosed
  <2> QED
    BY <1>0, <2>1, <2>3, <2>4
<1>6. ASSUME NEW c \in Callers, Store(c) PROVE IInv'
  <2> USE <1>6 DEF TypeOK, Store, Goto
  <2>1. Mutex'
    BY NobodyCalls DEF Mutex, Critical, Unlock
  <2>2. token[c] # NoToken /\ token[c].grant = grant[c]
    BY DEF Usable, TokensInPlace
  <2>3. TokensInPlace'
    BY <2>2 DEF TokensInPlace, TokenForOwnGrant
  <2>4. \A d \in Callers : pc'[d] \notin {"open", "services", "exchange"}
    BY <2>1 DEF Mutex, Critical, Unlock
  <2>5. NoRedundantExchange' /\ IdentityBindingsClosed'
    BY <2>4 DEF NoRedundantExchange, IdentityBindingsClosed
  <2> QED
    BY <1>0, <2>1, <2>3, <2>5
<1>7. ASSUME NEW c \in Callers, Send(c) PROVE IInv'
  <2> USE <1>7 DEF TypeOK, Send, Goto
  <2>1. Mutex'
    BY DEF Mutex, Critical
  <2>2. TokensInPlace' /\ NoRedundantExchange' /\ IdentityBindingsClosed'
    BY DEF TokensInPlace, TokenForOwnGrant, NoRedundantExchange, Fresh,
           IdentityBindingsClosed
  <2> QED
    BY <1>0, <2>1, <2>2
<1>8. ASSUME NEW c \in Callers,
             \/ OpenFails(c) \/ ServicesMissing(c) \/ ExchangeFails(c) \/ Reject(c)
             \/ TooLate(c) \/ Finish(c)
      PROVE  IInv'
  <2>1. Done(c) /\ pc[c] # "idle"
    BY <1>8 DEF OpenFails, ServicesMissing, ExchangeFails, Reject, TooLate, Finish,
                FailExchange
  <2>2. \/ pc[c] \in Critical /\ Unlock
        \/ pc[c] \notin Critical /\ UNCHANGED holder
    BY <1>8 DEF OpenFails, ServicesMissing, ExchangeFails, Reject, TooLate, Finish,
                FailExchange, Critical
  <2>3. /\ identity' \subseteq identity
        /\ pc[c] \in {"services", "exchange"} => c \notin identity'
    BY <1>8 DEF OpenFails, ServicesMissing, ExchangeFails, Reject, TooLate, Finish,
                FailExchange
  <2> QED
    BY <1>0, <2>1, <2>2, <2>3, DoneKeeps
<1>9. CASE Tick
  <2> USE <1>9 DEF TypeOK, Tick
  <2>1. Mutex' /\ TokensInPlace' /\ IdentityBindingsClosed'
    BY DEF Mutex, TokensInPlace, TokenForOwnGrant, IdentityBindingsClosed
  <2>2. NoRedundantExchange'
    BY KeysDistinct DEF NoRedundantExchange, Fresh, TokenMargin, Tokens, NoToken
  <2> QED
    BY <1>0, <2>1, <2>2
<1>10. CASE UNCHANGED vars
  BY <1>0, <1>10
     DEF vars, Mutex, TokensInPlace, TokenForOwnGrant, NoRedundantExchange, Fresh,
         IdentityBindingsClosed
<1> QED
  BY <1>1, <1>2, <1>3, <1>4, <1>5, <1>6, <1>7, <1>8, <1>9, <1>10
     DEF Next, Step, InCritical

\* The strengthened invariant holds in every state.
THEOREM Invariant == Spec => []IInv
BY InitIInv, IInvStep, PTL DEF Spec
-----------------------------------------------------------------------------
\* Every variable keeps its type.
THEOREM TypeCorrect == Spec => []TypeOK
BY Invariant, PTL DEF IInv

\* No request carries a token issued for another grant.
THEOREM TokensStayWithTheirGrant == Spec => []TokenForOwnGrant
BY Invariant, PTL DEF IInv, TokensInPlace

\* Holding the mutex across the exchange, and looking again once it is held,
\* keeps Identity from being asked for what the cache already has.
THEOREM ExchangesAreNeeded == Spec => []NoRedundantExchange
BY Invariant, PTL DEF IInv

\* Every Identity binding opened for an exchange is closed when it ends.
THEOREM IdentityAlwaysClosed == Spec => []IdentityBindingsClosed
BY Invariant, PTL DEF IInv
-----------------------------------------------------------------------------
(* The expiry margin covers the request timeout                            *)

TimeoutWithinMargin == RequestTimeout <= TokenMargin

\* No request is under way at first.
LEMMA DeadlinesInit == Init => DeadlinesNear
BY TimeoutPositive DEF Init, DeadlinesNear

\* A deadline is never further away than the timeout, and a token out of the
\* cache outlives it.
LEMMA DeadlinesStep ==
  ASSUME TimeoutWithinMargin, TypeOK, DeadlinesNear, [Next]_vars
  PROVE  DeadlinesNear'
<1> USE TimeoutPositive DEF TypeOK, DeadlinesNear, Goto
<1>1. ASSUME NEW c \in Callers, NEW g \in Grants, Perform(c, g)
      PROVE  DeadlinesNear'
  BY <1>1 DEF Perform
<1>2. ASSUME NEW c \in Callers, Hit(c) PROVE DeadlinesNear'
  <2>1. cache[CacheKey(grant[c])].expires > deadline[c]
    BY <1>2, KeysDistinct
       DEF Hit, Fresh, TokenMargin, TimeoutWithinMargin, Tokens
  <2> QED
    BY <1>2, <2>1 DEF Hit
<1>3. ASSUME NEW c \in Callers, Done(c) PROVE DeadlinesNear'
  BY <1>3 DEF Done
<1>4. ASSUME NEW c \in Callers,
             \/ Lock(c) \/ Miss(c) \/ OpenIdentity(c) \/ AskServices(c)
             \/ Exchange(c) \/ Store(c) \/ Send(c)
      PROVE  DeadlinesNear'
  BY <1>4 DEF Lock, Miss, OpenIdentity, AskServices, Exchange, Store, Send
<1>5. CASE Tick
  BY <1>5 DEF Tick
<1>6. CASE UNCHANGED vars
  BY <1>6 DEF vars
<1> QED
  BY <1>1, <1>2, <1>3, <1>4, <1>5, <1>6
     DEF Next, Step, InCritical, OpenFails, ServicesMissing, ExchangeFails, Reject,
         TooLate, Finish, FailExchange

\* If the request timeout is no longer than the expiry margin of the cache (ten
\* seconds against thirty by default), a token taken from the cache outlives
\* the request, however long the caller waited for the mutex.
THEOREM CachedTokensOutlive ==
  ASSUME TimeoutWithinMargin
  PROVE  Spec => []CachedTokenOutlivesRequest
<1>1. IInv /\ DeadlinesNear /\ [Next]_vars => DeadlinesNear'
  BY DeadlinesStep DEF IInv
<1>2. IInv /\ DeadlinesNear => CachedTokenOutlivesRequest
  BY DEF IInv, TypeOK, DeadlinesNear, CachedTokenOutlivesRequest, Tokens,
         StaticCredential, NoToken
<1> QED
  BY <1>1, <1>2, DeadlinesInit, Invariant, PTL DEF Spec
=============================================================================
