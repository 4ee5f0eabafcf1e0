--------------------------- MODULE EffectContract ---------------------------
(***************************************************************************)
(* What a caller of a remote effect may rely on, whatever the retries,     *)
(* timeouts and circuit in between:                                        *)
(*   - the effect is carried out at most Limit times (once, where carrying *)
(*     it out twice would matter), by distinct attempts;                   *)
(*   - "ok" is returned only when it has been carried out;                 *)
(*   - "refused" is returned only when it has not been and never will be;  *)
(*   - any other answer says nothing: it may still be carried out later;   *)
(*   - every call returns.                                                 *)
(***************************************************************************)
EXTENDS Naturals

CONSTANTS Calls,    \* callers
          Routes,   \* effects they may ask for
          Results,  \* what a call may return, beside "none"
          NoRoute,  \* the effect of a caller that has asked for nothing yet
          Limit     \* [Routes -> Nat]: how often each effect may happen

VARIABLES phase,     \* "idle" or "busy"
          route,     \* the effect asked for
          executed,  \* attempts that have been carried out
          result     \* "none" while busy

vars == <<phase, route, executed, result>>

Init == /\ phase = [c \in Calls |-> "idle"]
        /\ route = [c \in Calls |-> NoRoute]
        /\ executed = [c \in Calls |-> {}]
        /\ result = [c \in Calls |-> "none"]

Begin(c, r) == /\ phase[c] = "idle"
               /\ phase' = [phase EXCEPT ![c] = "busy"]
               /\ route' = [route EXCEPT ![c] = r]
               /\ executed' = [executed EXCEPT ![c] = {}]
               /\ result' = [result EXCEPT ![c] = "none"]

\* One attempt is carried out, perhaps after the call has returned.
Execute(c, a) == /\ route[c] # NoRoute
                 /\ result[c] # "refused"
                 /\ a \in (1..Limit[route[c]]) \ executed[c]
                 /\ executed' = [executed EXCEPT ![c] = @ \cup {a}]
                 /\ UNCHANGED <<phase, route, result>>

Return(c, res) == /\ phase[c] = "busy"
                  /\ res = "ok" => executed[c] # {}
                  /\ res = "refused" => executed[c] = {}
                  /\ phase' = [phase EXCEPT ![c] = "idle"]
                  /\ result' = [result EXCEPT ![c] = res]
                  /\ UNCHANGED <<route, executed>>

Next == \E c \in Calls :
          \/ \E r \in Routes : Begin(c, r)
          \/ route[c] # NoRoute /\ \E a \in 1..Limit[route[c]] : Execute(c, a)
          \/ \E res \in Results \ {"none"} : Return(c, res)

Spec == Init /\ [][Next]_vars

\* Every call returns.
FairSpec ==
  Spec /\ \A c \in Calls : WF_vars(\E res \in Results \ {"none"} : Return(c, res))
=============================================================================
