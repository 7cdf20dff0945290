----------------------------- MODULE SideEffect -----------------------------
(***************************************************************************)
(* What the REST transport promises about a request that changes the       *)
(* account: it takes effect at most once, it is reported as done only if   *)
(* it has taken effect, and once it is reported as refused it never has    *)
(* and never will.  A request of unknown outcome may still take effect.    *)
(*                                                                         *)
(* The code keeps this but for one step, which is spelled out here: an     *)
(* answer that does not say what became of the request is reported as a    *)
(* refusal, whether the request took effect or not.  Such refusals are     *)
(* remembered in "misread".                                                *)
(***************************************************************************)
EXTENDS Naturals

CONSTANT Requests     \* requests that change the account

VARIABLES
    effects,          \* how many times each request took effect
    verdict,          \* what its caller has been told
    misread           \* refused requests whose refusal rests on no answer

vars == <<effects, verdict, misread>>

Init ==
    /\ effects = [r \in Requests |-> 0]
    /\ verdict = [r \in Requests |-> "pending"]
    /\ misread = {}

TakeEffect(r) ==
    /\ effects[r] = 0
    /\ verdict[r] \in {"pending", "unknown"}
    /\ effects' = [effects EXCEPT ![r] = 1]
    /\ UNCHANGED <<verdict, misread>>

Tell(r, what) ==
    /\ verdict[r] = "pending"
    /\ verdict' = [verdict EXCEPT ![r] = what]
    /\ UNCHANGED effects

Misread(r) == Tell(r, "refused") /\ misread' = misread \cup {r}

Next ==
    \E r \in Requests :
        \/ TakeEffect(r)
        \/ effects[r] = 1 /\ Tell(r, "done") /\ UNCHANGED misread
        \/ effects[r] = 0 /\ Tell(r, "refused") /\ UNCHANGED misread
        \/ Tell(r, "unknown") /\ UNCHANGED misread
        \/ Misread(r)

Spec == Init /\ [][Next]_vars
=============================================================================
