-------------------------------- MODULE Join --------------------------------
(***************************************************************************)
(* `sceau join` (src/src/join.rs, with fleet::create_transport_key and     *)
(* fleet::import_and_persist) composed with the window of Enroll.  A       *)
(* request r of Enroll is the one Duplicate call of a join that runs on    *)
(* host[r].  The two sides see each other only through the connection: a   *)
(* join may die while its handler runs on, the seed may be killed, and an  *)
(* answer may be lost after the permit is used up.                         *)
(***************************************************************************)
EXTENDS Enroll

CONSTANT Hosts   \* the ways in which joins may be spread over nodes

ASSUME JoinAssumption == Hosts \subseteq [Requests -> Nodes]

VARIABLES
    joiner,      \* where each join is
    host,        \* the node it runs on, which its certificate names
    holders      \* nodes with a fleet key at the persistent handle

joinVars == <<joiner, host, holders>>
allVars == <<vars, joinVars>>

Active == {"dialing", "calling", "received", "loaded", "evicting",
           "persisting", "flushing"}
JoinPlaces == {"idle", "joined", "failed"} \cup Active

Step(r, from, to) ==
    /\ joiner[r] = from
    /\ joiner' = [joiner EXCEPT ![r] = to]

JoinInit ==
    /\ Init
    /\ joiner = [r \in Requests |-> "idle"]
    /\ host \in Hosts
    /\ holders \in SUBSET Nodes

-----------------------------------------------------------------------------
(* run_join up to the answer *)

\* The transport key is created and the node's certificate is read.
StartJoin(r) ==
    /\ Step(r, "idle", "dialing")
    /\ UNCHANGED <<vars, host, holders>>

\* endpoint.connect(): only an open listener answers.
Dial(r) ==
    /\ Step(r, "dialing", "calling")
    /\ Connect(r)
    /\ UNCHANGED <<host, holders>>

\* Variant of ReceiveResponse that does not look at the outcome.
ReceiveAnything(r) ==
    /\ pc[r] \in {"served", "failed"}
    /\ Step(r, "calling", "received")
    /\ UNCHANGED <<vars, host, holders>>

\* The response of a served Duplicate arrives and unmarshals.
ReceiveResponse(r) ==
    /\ pc[r] = "served"
    /\ Step(r, "calling", "received")
    /\ UNCHANGED <<vars, host, holders>>

\* Variant of CallFails that waits for an answer although the seed is gone.
CallFailsOnStatus(r) ==
    /\ pc[r] \in {"rejected", "failed", "gone"}
    /\ Step(r, "calling", "failed")
    /\ UNCHANGED <<vars, host, holders>>

\* The seed answers with an error, sends the connection away, or is gone.
CallFails(r) ==
    /\ pc[r] \in {"rejected", "failed", "gone"} \/ ~Alive
    /\ Step(r, "calling", "failed")
    /\ UNCHANGED <<vars, host, holders>>

-----------------------------------------------------------------------------
(* import_and_persist *)

\* TPM2_Import and TPM2_Load under the transport key.
Import(r) ==
    /\ Step(r, "received", "loaded")
    /\ UNCHANGED <<vars, host, holders>>

\* delete_persisted_fleet_key: a key is found ...
FindKey(r) ==
    /\ host[r] \in holders
    /\ Step(r, "loaded", "evicting")
    /\ UNCHANGED <<vars, host, holders>>

\* ... or any error of the lookup counts as none.
FindNoKey(r) ==
    /\ Step(r, "loaded", "persisting")
    /\ UNCHANGED <<vars, host, holders>>

EvictKey(r) ==
    /\ host[r] \in holders
    /\ Step(r, "evicting", "persisting")
    /\ holders' = holders \ {host[r]}
    /\ UNCHANGED <<vars, host>>

\* An occupied handle refuses the key.
PersistKey(r) ==
    /\ host[r] \notin holders
    /\ Step(r, "persisting", "flushing")
    /\ holders' = holders \cup {host[r]}
    /\ UNCHANGED <<vars, host>>

FlushTransportKey(r) ==
    /\ Step(r, "flushing", "joined")
    /\ UNCHANGED <<vars, host, holders>>

\* An error of any step, a broken connection, or the death of the process:
\* the join is over, at any place.
JoinFails(r) ==
    /\ joiner[r] \in Active
    /\ joiner' = [joiner EXCEPT ![r] = "failed"]
    /\ UNCHANGED <<vars, host, holders>>

-----------------------------------------------------------------------------
(* The composition *)

\* What the seed does without the joiner taking part.  A connection ends from
\* the joiner's side only when the join is over; the handler reads the node
\* name of the certificate.
Seed ==
    \/ Process
    \/ \E r \in Requests :
          \/ GoAway(r) \/ Answer(r)
          \/ Alive /\ FetchSub(r)
          \/ joiner[r] = "failed" /\ Alive /\ (Hangup(r) \/ ClientGone(r))
          \/ Handler(r) /\ node'[r] \in {NoName, host[r]}
    \/ \E n \in Nodes : NodeAdded(n) \/ NodeRemoved(n)

JoinStep(r) ==
    \/ ReceiveResponse(r) \/ CallFails(r)
    \/ Import(r) \/ FindKey(r) \/ FindNoKey(r)
    \/ EvictKey(r) \/ PersistKey(r) \/ FlushTransportKey(r)

JoinNext ==
    \/ Seed /\ UNCHANGED joinVars
    \/ \E r \in Requests :
          StartJoin(r) \/ Dial(r) \/ JoinStep(r) \/ JoinFails(r)

JoinSpec == JoinInit /\ [][JoinNext]_allVars

(***************************************************************************)
(* The seed's fairness is that of Enroll.  A join that has started goes    *)
(* on: its dial succeeds or fails, its request is delivered, a TPM command *)
(* returns, and a broken connection is noticed.  run_join sets no timeout, *)
(* so the last is an assumption.                                           *)
(***************************************************************************)
JoinFairness == \A r \in Requests :
    /\ WF_vars(Alive /\ FetchSub(r))
    /\ WF_allVars(Dial(r) \/ (joiner[r] = "dialing" /\ JoinFails(r)))
    /\ WF_allVars(JoinStep(r) \/ (joiner[r] = "persisting" /\ JoinFails(r))
                              \/ (joiner[r] = "evicting" /\ JoinFails(r)))

JoinFairSpec == JoinSpec /\ ProcessFairness /\ ApiServerFairness /\ JoinFairness

-----------------------------------------------------------------------------
(* Properties *)

\* Every variable has its type.
JoinTypeOK ==
    /\ TypeOK
    /\ joiner \in [Requests -> JoinPlaces]
    /\ host \in [Requests -> Nodes]
    /\ holders \in SUBSET Nodes

(***************************************************************************)
(* The two processes and the connection between them keep the promise of   *)
(* Enrollment: a copy is made only for a node that was vouched for under   *)
(* its own name, and a key appears or disappears at a node's handle only   *)
(* by a join that was granted one (enroll.rs, join.rs, fleet.rs).          *)
(***************************************************************************)
Promise == INSTANCE Enrollment WITH
    Requests <- Requests, Nodes <- Nodes, Max <- Max,
    members <- members, host <- host, vouched <- vouched,
    granted <- Served, holders <- holders, overrun <- overdrawn

PromiseKept == Promise!Spec

(***************************************************************************)
(* No join is left waiting for a seed that has closed its listener, has    *)
(* been killed or refuses it: every join that starts ends.                 *)
(***************************************************************************)
JoinEnds == \A r \in Requests :
    joiner[r] = "dialing" ~> joiner[r] \in {"joined", "failed"}
=============================================================================
