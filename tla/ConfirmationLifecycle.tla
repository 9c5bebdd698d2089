------------------------ MODULE ConfirmationLifecycle ------------------------
(***************************************************************************)
(* What the operation service promises about one confirmation, whatever    *)
(* the interleaving of the requests that work on it: it is created once,   *)
(* a high-risk one is approved before it is claimed, it is claimed at most *)
(* once, at most one operation is ever launched for it, and it is reported *)
(* as succeeded only when that operation succeeded.                        *)
(* The states are those of OperationState in models.py.                    *)
(***************************************************************************)

CONSTANTS
    Confirmations,  \* confirmation identifiers
    Runs            \* identifiers of operation rows and their helper runs

VARIABLES
    phase,      \* phase[k]: the state of confirmation k, "absent" before it is made
    risk,       \* risk[k]: the risk level frozen into confirmation k
    launched,   \* pairs <<k, r>>: run r was handed to the root helper for k
    effected    \* the launched pairs whose run ended well

vars == <<phase, risk, launched, effected>>

Risks == {"medium", "high"}
Phases == {"absent", "pending", "first_confirmed", "executing", "succeeded", "failed"}

Init ==
    /\ phase = [k \in Confirmations |-> "absent"]
    /\ risk = [k \in Confirmations |-> "none"]
    /\ launched = {}
    /\ effected = {}

Create(k, level) ==
    /\ phase[k] = "absent"
    /\ phase' = [phase EXCEPT ![k] = "pending"]
    /\ risk' = [risk EXCEPT ![k] = level]
    /\ UNCHANGED <<launched, effected>>

Approve(k) ==
    /\ phase[k] = "pending"
    /\ risk[k] = "high"
    /\ phase' = [phase EXCEPT ![k] = "first_confirmed"]
    /\ UNCHANGED <<risk, launched, effected>>

Claim(k) ==
    /\ phase[k] = IF risk[k] = "high" THEN "first_confirmed" ELSE "pending"
    /\ phase' = [phase EXCEPT ![k] = "executing"]
    /\ UNCHANGED <<risk, launched, effected>>

Launch(k, r) ==
    /\ phase[k] = "executing"
    /\ \A other \in Runs : <<k, other>> \notin launched
    /\ launched' = launched \cup {<<k, r>>}
    /\ UNCHANGED <<phase, risk, effected>>

Effect(k, r) ==
    /\ <<k, r>> \in launched
    /\ effected' = effected \cup {<<k, r>>}
    /\ UNCHANGED <<phase, risk, launched>>

Succeed(k) ==
    /\ phase[k] = "executing"
    /\ \E r \in Runs : <<k, r>> \in effected
    /\ phase' = [phase EXCEPT ![k] = "succeeded"]
    /\ UNCHANGED <<risk, launched, effected>>

Fail(k) ==
    /\ phase[k] = "executing"
    /\ phase' = [phase EXCEPT ![k] = "failed"]
    /\ UNCHANGED <<risk, launched, effected>>

Next ==
    \E k \in Confirmations :
        \/ \E level \in Risks : Create(k, level)
        \/ Approve(k)
        \/ Claim(k)
        \/ \E r \in Runs : Launch(k, r) \/ Effect(k, r)
        \/ Succeed(k)
        \/ Fail(k)

Spec == Init /\ [][Next]_vars
=============================================================================
