----------------------------- MODULE Enrollment -----------------------------
(***************************************************************************)
(* What `sceau enroll` and `sceau join` promise together, whatever happens *)
(* to their processes and to the connection between them: a node that had  *)
(* no key gets one only by a join that was vouched for while the node was  *)
(* a member of the cluster and was granted a copy after that, and at most  *)
(* Max copies are granted (apart from an overrun, see Enroll!overdrawn).   *)
(***************************************************************************)
EXTENDS Integers, FiniteSets

CONSTANTS Requests, Nodes, Max

VARIABLES
    members,     \* nodes of the cluster
    host,        \* the node a join runs on
    vouched,     \* joins the API server has vouched for
    granted,     \* joins a copy of the fleet key was made for
    holders,     \* nodes whose TPM holds a fleet key
    overrun      \* the bound is off

vars == <<members, host, vouched, granted, holders, overrun>>

Init ==
    /\ members \subseteq Nodes
    /\ host \in [Requests -> Nodes]
    /\ vouched = {}
    /\ granted = {}
    /\ holders \subseteq Nodes
    /\ overrun = FALSE

Membership ==
    /\ members' \in SUBSET Nodes
    /\ UNCHANGED <<host, vouched, granted, holders, overrun>>

Vouch(r) ==
    /\ host[r] \in members
    /\ vouched' = vouched \cup {r}
    /\ UNCHANGED <<members, host, granted, holders, overrun>>

Overrun ==
    /\ overrun' = TRUE
    /\ UNCHANGED <<members, host, vouched, granted, holders>>

Grant(r) ==
    /\ r \in vouched \ granted
    /\ Cardinality(granted) < Max \/ overrun
    /\ granted' = granted \cup {r}
    /\ UNCHANGED <<members, host, vouched, holders, overrun>>

Store(r) ==
    /\ r \in granted
    /\ holders' = holders \cup {host[r]}
    /\ UNCHANGED <<members, host, vouched, granted, overrun>>

\* A node that replaces its key has none for a while, or for good.
Lose(r) ==
    /\ r \in granted
    /\ holders' = holders \ {host[r]}
    /\ UNCHANGED <<members, host, vouched, granted, overrun>>

Next ==
    \/ Membership \/ Overrun
    \/ \E r \in Requests : Vouch(r) \/ Grant(r) \/ Store(r) \/ Lose(r)

Spec == Init /\ [][Next]_vars
=============================================================================
