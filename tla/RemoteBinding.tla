---------------------------- MODULE RemoteBinding ----------------------------
(***************************************************************************)
(* A remote binding as a whole: the calls of RemoteCall, each attempt of   *)
(* which gets its service token as in ServiceTokens before it is sent.     *)
(* The goroutines share the circuit breaker and the token cache with its   *)
(* mutex, and the one makes the other fail: serviceToken is called with    *)
(* the caller's context and not the attempt's, and the mutex heeds no      *)
(* context at all, so a slow exchange makes everybody behind it late, and  *)
(* an attempt that ends for want of a token counts against the circuit.    *)
(*                                                                         *)
(* StableFrom is the reading from which Identity, too, is well: then it    *)
(* answers with a token that can be used, and before anybody's deadline.   *)
(* One unit of the clock is ten seconds here, the unit of the token        *)
(* margin, and OpenDurationSetting is given in it: the default that        *)
(* CircuitBreaker puts in its place, five seconds, is five units here, so  *)
(* an instance names the duration.                                         *)
(***************************************************************************)
EXTENDS RemoteCall

CONSTANTS Grants, RequestTimeoutSetting, Lifetimes, MaxClock,  \* see ServiceTokens
          GrantOf   \* ServiceGrantForRequest, of the routes

ASSUME BindingSettings == /\ Grants \subseteq [resource : STRING, action : STRING]
                          /\ RequestTimeoutSetting \in Int
                          /\ Lifetimes \subseteq Nat
                          /\ MaxClock \in Nat
                          /\ GrantOf \in [Routes -> Grants]
                          /\ "nobody" \notin Calls

VARIABLES tokenSource, holder, cache, grant, deadline, token, hits, identity,
          tokenPc   \* where each goroutine stands in perform, once it is there

\* ServiceTokens, taken with its theorems.  The clock of RemoteCall starts at 1, that
\* of ServiceTokens at 0.
Tokens == INSTANCE ServiceTokensProofs
            WITH Callers <- Calls, pc <- tokenPc, clock <- clock - 1

tokenVars == <<tokenSource, holder, cache, tokenPc, grant, deadline, token, hits, identity>>
bindingVars == <<vars, tokenVars>>

BindingInit == Init /\ Tokens!Init
-----------------------------------------------------------------------------
\* What binding.call does before and after its attempts.
Outside(c) == /\ \/ EncodeFails(c) \/ ReadClock(c) \/ Refuse(c)
                 \/ CancelBackoff(c) \/ Report(c) \/ ReportCancelled(c)
              /\ UNCHANGED tokenVars

\* An attempt begins: perform sets its deadline and finds the grant of its route.
Perform(c) == /\ Admit(c) \/ RetryTimer(c)
              /\ Tokens!Perform(c, GrantOf[route[c]])

Lock(c) == UNCHANGED vars /\ Tokens!Lock(c)

\* serviceToken with the mutex locked, and the exchange.
GetToken(c) == /\ UNCHANGED vars
               /\ \/ Tokens!Hit(c) \/ Tokens!Miss(c) \/ Tokens!OpenIdentity(c)
                  \/ Tokens!AskServices(c) \/ Tokens!Exchange(c) \/ Tokens!Store(c)
               /\ tokenPc[c] = "exchange" => Unstable \/ Tokens!Usable(token'[c])

NoToken(c) == \/ Tokens!OpenFails(c) \/ Tokens!ServicesMissing(c)
              \/ Tokens!ExchangeFails(c) \/ Tokens!Reject(c) \/ Tokens!TooLate(c)

\* Faulty variant: perform returns the status with which Identity refused.
TokenFailsRejected(c) == /\ pc[c] = "perform" /\ Unstable
                         /\ Conclude(c, "rejected") /\ UNCHANGED wire
                         /\ NoToken(c)

\* No token, or too late a one: perform returns status 0.
TokenFails(c) == SendFails(c) /\ NoToken(c)

Request(c) == Send(c) /\ Tokens!Send(c)

Answer(c) == (Receive(c) \/ GiveUp(c)) /\ Tokens!Finish(c)

Remote(c) == Network(c) /\ UNCHANGED tokenVars

\* Whoever is getting a token has time left at the next reading of the clock, and the
\* token just got for him is still good.
InTime(c) == tokenPc[c] \in {"idle", "sent"} \/
               /\ clock < deadline[c]
               /\ tokenPc[c] = "store" => token[c].expires > clock

\* Bound: from StableFrom on, the clock waits for Identity.
Time == /\ clock + 1 < StableFrom \/ \A c \in Calls : InTime(c)
        /\ Tick /\ Tokens!Tick
-----------------------------------------------------------------------------
Begin(c) == UNCHANGED tokenVars /\ \E r \in Routes : Start(c, r)

Proceed(c) == \/ Outside(c) \/ Perform(c) \/ Lock(c) \/ GetToken(c)
              \/ TokenFails(c) \/ Request(c) \/ Answer(c)

BindingNext == \/ \E c \in Calls : Begin(c) \/ Proceed(c) \/ Remote(c)
               \/ Time

BindingSpec == BindingInit /\ [][BindingNext]_bindingVars

\* A sync.Mutex hands itself to a waiter it has kept waiting, hence strong fairness
\* on Lock.  That Open and Exchange return is up to the Identity client: nothing in
\* this package bounds them.  Time passes whatever it is made to wait for here.
BindingFairness == /\ \A c \in Calls : /\ WF_bindingVars(Proceed(c))
                                       /\ SF_bindingVars(Lock(c))
                                       /\ WF_bindingVars(Remote(c))
                   /\ SF_bindingVars(Time)

BindingFairSpec == BindingSpec /\ BindingFairness
-----------------------------------------------------------------------------
\* binding.call is what RemoteCall says it is, fairness included, when getting a token
\* is part of an attempt: every call returns and an open circuit closes again, though
\* callers queue for one mutex past their deadlines, Identity fails them for a while
\* and their failures are counted as the remote's.
CallsAsSpecified == FairSpec

\* What is on its way to the service carries a token for what its route needs and for
\* nothing else, whatever the other routes of the same resource whose calls filled the
\* cache, held the mutex before, or ran in this goroutine (binding.perform,
\* binding.serviceToken).
RequestsCarryTheirGrant ==
  \A c \in Calls : pc[c] = "await" =>
    IF tokenSource THEN token[c].grant = GrantOf[route[c]]
    ELSE token[c] = Tokens!StaticCredential
=============================================================================
