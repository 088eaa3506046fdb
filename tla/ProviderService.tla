--------------------------- MODULE ProviderService ---------------------------
(***************************************************************************)
(* What the provider pool promises its users and the machine it runs on:     *)
(* providers are started only in combinations the budget allows and stopped  *)
(* only while nobody uses them.  It closes once none is left and starts none *)
(* afterwards, unless it had to give up waiting for its users.               *)
(***************************************************************************)
EXTENDS Integers

CONSTANTS
    Users, Providers,
    Affordable       \* the sets of providers that may be alive together

VARIABLES
    child,           \* per provider: 1 while its child process is alive, 0 otherwise
    using,           \* per user: the provider it uses, as a set of at most one
    mode             \* "open", "forced" after giving up, "closed"

serviceVars == <<child, using, mode>>

ServiceInit ==
    /\ child = [s \in Providers |-> 0]
    /\ using = [u \in Users |-> {}]
    /\ mode = "open"

(* A started provider may be in the hands of the user that asked for it.      *)
Start(s) ==
    /\ child[s] = 0 /\ mode # "closed"
    /\ child' = [child EXCEPT ![s] = 1]
    /\ {t \in Providers : child'[t] # 0} \in Affordable
    /\ \/ UNCHANGED using
       \/ \E u \in Users : using[u] = {} /\ using' = [using EXCEPT ![u] = {s}]
    /\ UNCHANGED mode

Stop(s) ==
    /\ child[s] = 1
    /\ mode = "forced" \/ \A u \in Users : s \notin using[u]
    /\ child' = [child EXCEPT ![s] = 0]
    /\ UNCHANGED <<using, mode>>

Use(u, s) ==
    /\ using[u] = {} /\ child[s] = 1
    /\ using' = [using EXCEPT ![u] = {s}]
    /\ UNCHANGED <<child, mode>>

Done(u) ==
    /\ using[u] # {}
    /\ using' = [using EXCEPT ![u] = {}]
    /\ UNCHANGED <<child, mode>>

GiveUp ==
    /\ mode = "open" /\ mode' = "forced"
    /\ UNCHANGED <<child, using>>

Close ==
    /\ mode = "open" /\ mode' = "closed"
    /\ \A s \in Providers : child[s] = 0
    /\ \A u \in Users : using[u] = {}
    /\ UNCHANGED <<child, using>>

ServiceNext ==
    \/ \E s \in Providers : Start(s) \/ Stop(s)
    \/ \E u \in Users : Done(u) \/ \E s \in Providers : Use(u, s)
    \/ GiveUp \/ Close

ServiceSpec == ServiceInit /\ [][ServiceNext]_serviceVars
=============================================================================
