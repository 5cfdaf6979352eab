------------------------------- MODULE Enroll -------------------------------
(***************************************************************************)
(* `sceau enroll`: the seed side of fleet-key enrollment                   *)
(* (src/src/enroll.rs, with the checks it calls in authz.rs and            *)
(* the TPM work of fleet::duplicate_for_joiner).                           *)
(*                                                                         *)
(* One process serves the `Duplicate` RPC over mTLS.  Each request runs in *)
(* a task of the multi-threaded tokio runtime, so the steps below          *)
(* interleave: a step ends where another thread can observe the shared     *)
(* state (an atomic operation, the `.await` on the API server, taking or   *)
(* releasing the mutex around the TPM context).                            *)
(*                                                                         *)
(* Shared state of the code: the atomic `remaining`, the `Notify` `done`,  *)
(* the TPM context behind a mutex.  A request r is one call of             *)
(* `duplicate`; each r of Requests is used for at most one call.           *)
(***************************************************************************)
EXTENDS Integers, FiniteSets

CONSTANTS
    Requests,    \* the Duplicate calls that clients may make
    Nodes,       \* node names that a client certificate may carry
    NoName,      \* the empty node name
    Max,         \* --max
    Modulus,     \* 2^w, w the width of the AtomicUsize `remaining`
    Slots,       \* transient objects one TPM connection can hold
    SessionSlots \* sessions one TPM connection can hold

(***************************************************************************)
(* clap restricts --max to 1.. (u32); usize holds every u32, and no run of *)
(* the process sees 2^w requests.                                          *)
(***************************************************************************)
ASSUME EnrollAssumption ==
    /\ IsFiniteSet(Requests)
    /\ Max \in Nat \ {0}
    /\ Modulus \in Nat
    /\ Max < Modulus
    /\ Cardinality(Requests) < Modulus
    /\ Slots \in Nat \ {0}
    /\ SessionSlots \in Nat \ {0}
    /\ NoName \notin Nodes

VARIABLES
    phase,       \* of run_enroll: starting, open, closing (graceful), exited
    closedBy,    \* the arm of select! that closed the listener
    exitCode,    \* of the process, set when it exits
    remaining,   \* AtomicUsize: permits left
    notified,    \* the permit stored in the Notify `done`
    members,     \* names of the cluster's current Node objects
    pc,          \* where each request's handler is
    node,        \* the node name its handler extracted
    wasLast,     \* the local was_last_permit of its handler
    externals,   \* requests whose external object is loaded in the TPM
    sessions,    \* requests whose policy session is open in the TPM
    vouched,     \* history: requests the API server has vouched for
    faulted,     \* history: requests one of whose cleanups was skipped or failed
    overdrawn    \* history: a permit was taken from a wrapped counter

service == <<phase, closedBy, exitCode>>
permits == <<remaining, notified, wasLast, overdrawn>>
tpm == <<externals, sessions, faulted>>
vars == <<service, permits, members, pc, node, vouched, tpm>>

-----------------------------------------------------------------------------
(* Places of a request's handler. *)

Debited == {"rejecting", "checking", "authorizing", "authorized", "parsed",
            "locked", "wrapping", "duplicating", "granted", "failing", "served",
            "dropped"}
InHandler == Debited \ {"served", "dropped"}
Ended == {"served", "dropped", "rejected", "failed", "gone"}
Places == {"waiting", "connected"} \cup InHandler \cup Ended

At(S) == {r \in Requests : pc[r] \in S}

\* Requests whose fetch_sub has not been undone.
Debits == At(Debited)

\* Requests that hold a permit, or kept it for good.
Holders == At(Debited \ {"rejecting"})
Served == At({"served"})

\* Requests that were ever handed a permit, also those that gave it back.
Drawn == At({"failed"} \cup (Debited \ {"rejecting"}))

Move(r, place) == pc' = [pc EXCEPT ![r] = place]

-----------------------------------------------------------------------------
(* The atomic counter. fetch_sub and fetch_add wrap around. *)

Decremented == IF remaining = 0 THEN Modulus - 1 ELSE remaining - 1
\* Variant of Incremented without the wrap-around.
IncrementedUnbounded == remaining + 1

Incremented == IF remaining = Modulus - 1 THEN 0 ELSE remaining + 1

-----------------------------------------------------------------------------
(* run_enroll *)

Init ==
    /\ phase = "starting"
    /\ closedBy = "none"
    /\ exitCode = -1
    /\ remaining = Max
    /\ notified = FALSE
    /\ members \in SUBSET Nodes
    /\ pc = [r \in Requests |-> "waiting"]
    /\ node = [r \in Requests |-> NoName]
    /\ wasLast = [r \in Requests |-> FALSE]
    /\ externals = {}
    /\ sessions = {}
    /\ vouched = {}
    /\ faulted = {}
    /\ overdrawn = FALSE

\* The TPM context, the fleet key, the minted identity and the kubeconfig are
\* all there: the listener opens.
Start ==
    /\ phase = "starting"
    /\ phase' = "open"
    /\ UNCHANGED <<closedBy, exitCode, permits, members, pc, node, vouched,
                   tpm>>

\* One of them is missing (or the address cannot be bound): `?` to main.
StartFails ==
    /\ phase = "starting"
    /\ phase' = "exited"
    /\ exitCode' = 1
    /\ UNCHANGED <<closedBy, permits, members, pc, node, vouched, tpm>>

\* select!: done.notified().
CloseOnDone ==
    /\ phase = "open"
    /\ notified
    /\ phase' = "closing"
    /\ closedBy' = "max"
    /\ UNCHANGED <<exitCode, permits, members, pc, node, vouched, tpm>>

\* select!: the sleep(timeout) may elapse at any time.
CloseOnTimeout ==
    /\ phase = "open"
    /\ phase' = "closing"
    /\ closedBy' = "timeout"
    /\ UNCHANGED <<exitCode, permits, members, pc, node, vouched, tpm>>

\* serve_with_shutdown waits for every accepted connection, then run_enroll
\* returns Ok(()), whatever was served.
Exit ==
    /\ phase = "closing"
    /\ At(InHandler \cup {"connected"}) = {}
    /\ phase' = "exited"
    /\ exitCode' = 0
    /\ UNCHANGED <<closedBy, permits, members, pc, node, vouched, tpm>>

\* Ctrl-C or SIGTERM: no handler is installed, the process just dies.
Killed ==
    /\ phase # "exited"
    /\ phase' = "exited"
    /\ exitCode' = 130
    /\ UNCHANGED <<closedBy, permits, members, pc, node, vouched, tpm>>

-----------------------------------------------------------------------------
(* Connections (tonic, external). *)

\* A client completes the TLS handshake; only an open listener accepts.
Connect(r) ==
    /\ phase = "open"
    /\ pc[r] = "waiting"
    /\ Move(r, "connected")
    /\ UNCHANGED <<service, permits, members, node, vouched, tpm>>

\* The client leaves without having sent its request.
Hangup(r) ==
    /\ pc[r] = "connected"
    /\ Move(r, "gone")
    /\ UNCHANGED <<service, permits, members, node, vouched, tpm>>

\* Graceful shutdown tells an idle connection to go away.
GoAway(r) ==
    /\ phase = "closing"
    /\ Hangup(r)

\* The client disconnects while its handler is at the one `.await`: the
\* future is dropped there, and neither arm of the match in `duplicate` runs.
ClientGone(r) ==
    /\ pc[r] = "authorizing"
    /\ Move(r, "dropped")
    /\ UNCHANGED <<service, permits, members, node, vouched, tpm>>

-----------------------------------------------------------------------------
(* EnrollService::duplicate: the permit *)

\* Variant of FetchSub that lets a request through at zero.
FetchSubUnchecked(r) ==
    /\ pc[r] = "connected"
    /\ remaining' = Decremented
    /\ wasLast' = [wasLast EXCEPT ![r] = remaining = 1]
    /\ overdrawn' = (overdrawn \/ remaining > Max)
    /\ Move(r, "checking")
    /\ UNCHANGED <<service, notified, members, node, vouched, tpm>>

\* Variant of FetchSub with an off-by-one in was_last_permit.
FetchSubLastAtZero(r) ==
    /\ pc[r] = "connected"
    /\ remaining' = Decremented
    /\ IF remaining = 0
         THEN Move(r, "rejecting") /\ UNCHANGED <<wasLast, overdrawn>>
         ELSE /\ Move(r, "checking")
              /\ wasLast' = [wasLast EXCEPT ![r] = remaining = 0]
              /\ overdrawn' = (overdrawn \/ remaining > Max)
    /\ UNCHANGED <<service, notified, members, node, vouched, tpm>>

\* permits_before = remaining.fetch_sub(1); zero means --max was reached.
FetchSub(r) ==
    /\ pc[r] = "connected"
    /\ remaining' = Decremented
    /\ IF remaining = 0
         THEN Move(r, "rejecting") /\ UNCHANGED <<wasLast, overdrawn>>
         ELSE /\ Move(r, "checking")
              /\ wasLast' = [wasLast EXCEPT ![r] = remaining = 1]
              /\ overdrawn' = (overdrawn \/ remaining > Max)
    /\ UNCHANGED <<service, notified, members, node, vouched, tpm>>

\* The rejected request puts its permit back.
PutBack(r) ==
    /\ pc[r] = "rejecting"
    /\ remaining' = Incremented
    /\ Move(r, "rejected")
    /\ UNCHANGED <<service, notified, wasLast, overdrawn, members, node,
                   vouched, tpm>>

\* Variant of Fail that forgets the permit.
FailKeepingPermit(r) ==
    /\ pc[r] = "failing"
    /\ Move(r, "failed")
    /\ UNCHANGED <<service, permits, members, node, vouched, tpm>>

\* The Err arm: the permit is given back.
Fail(r) ==
    /\ pc[r] = "failing"
    /\ remaining' = Incremented
    /\ Move(r, "failed")
    /\ UNCHANGED <<service, notified, wasLast, overdrawn, members, node,
                   vouched, tpm>>

\* Variant of Succeed that never wakes the listener.
SucceedSilently(r) ==
    /\ pc[r] = "granted"
    /\ Move(r, "served")
    /\ UNCHANGED <<service, permits, members, node, vouched, tpm>>

\* Variant of Succeed that wakes the listener whichever permit it held.
SucceedAlwaysNotifying(r) ==
    /\ pc[r] = "granted"
    /\ notified' = TRUE
    /\ Move(r, "served")
    /\ UNCHANGED <<service, remaining, wasLast, overdrawn, members, node,
                   vouched, tpm>>

\* The Ok arm: the holder of the last permit wakes the listener.
Succeed(r) ==
    /\ pc[r] = "granted"
    /\ notified' = (notified \/ wasLast[r])
    /\ Move(r, "served")
    /\ UNCHANGED <<service, remaining, wasLast, overdrawn, members, node,
                   vouched, tpm>>

-----------------------------------------------------------------------------
(* EnrollService::handle_duplicate: who is asking *)

\* Subject common names: with or without the "system:node:" prefix, followed
\* by a node name or by nothing.
CommonNames == [prefixed : BOOLEAN, rest : Nodes \cup {NoName}]

\* authz::node_name_from_cn succeeds.
IsNodeIdentity(cn) == cn.prefixed /\ cn.rest # NoName

\* No certificate, no common name, or not a node identity.
RefuseIdentity(r) ==
    /\ pc[r] = "checking"
    /\ \E cn \in CommonNames : ~IsNodeIdentity(cn)
    /\ Move(r, "failing")
    /\ UNCHANGED <<service, permits, members, node, vouched, tpm>>

\* A node identity: ask the API server for the Node object, and wait.
AskApiServer(r) ==
    /\ pc[r] = "checking"
    /\ \E cn \in CommonNames :
          /\ IsNodeIdentity(cn)
          /\ node' = [node EXCEPT ![r] = cn.rest]
    /\ Move(r, "authorizing")
    /\ UNCHANGED <<service, permits, members, vouched, tpm>>

\* GET of a Node by name succeeds; the client refuses an empty name itself.
KnownToApiServer(name) == name \in members

\* authz::authorize_node: the Node exists at the time of the answer.
Authorize(r) ==
    /\ pc[r] = "authorizing"
    /\ KnownToApiServer(node[r])
    /\ Move(r, "authorized")
    /\ vouched' = vouched \cup {r}
    /\ UNCHANGED <<service, permits, members, node, tpm>>

\* Variant of Deny that takes an error of the lookup for a transient one.
DenyIgnored(r) ==
    /\ pc[r] = "authorizing"
    /\ Move(r, "authorized")
    /\ UNCHANGED <<service, permits, members, node, vouched, tpm>>

\* Any error of the lookup (no such Node, an unreachable API server) denies.
Deny(r) ==
    /\ pc[r] = "authorizing"
    /\ Move(r, "failing")
    /\ UNCHANGED <<service, permits, members, node, vouched, tpm>>

\* Nodes join and leave the cluster while requests are served.
NodeAdded(n) ==
    /\ phase # "exited"
    /\ n \notin members
    /\ members' = members \cup {n}
    /\ UNCHANGED <<service, permits, pc, node, vouched, tpm>>

NodeRemoved(n) ==
    /\ phase # "exited"
    /\ n \in members
    /\ members' = members \ {n}
    /\ UNCHANGED <<service, permits, pc, node, vouched, tpm>>

-----------------------------------------------------------------------------
(* fleet::duplicate_for_joiner, under the mutex on the TPM context *)

\* The transport public does not unmarshal.
Malformed(r) ==
    /\ pc[r] = "authorized"
    /\ Move(r, "failing")
    /\ UNCHANGED <<service, permits, members, node, vouched, tpm>>

\* Public::unmarshall succeeds.
Unmarshalled(r) ==
    /\ pc[r] = "authorized"
    /\ Move(r, "parsed")
    /\ UNCHANGED <<service, permits, members, node, vouched, tpm>>

\* The requests inside the mutex.
Inside == At({"locked", "wrapping", "duplicating"})

\* Variant of LockContext that waits for a TPM context without leftovers.
LockCleanContext(r) ==
    /\ pc[r] = "parsed"
    /\ Inside = {}
    /\ externals = {}
    /\ Move(r, "locked")
    /\ UNCHANGED <<service, permits, members, node, vouched, tpm>>

\* context.lock(): waits while another request is inside.
LockContext(r) ==
    /\ pc[r] = "parsed"
    /\ Inside = {}
    /\ Move(r, "locked")
    /\ UNCHANGED <<service, permits, members, node, vouched, tpm>>

\* read_public or load_external_public fails, as they always do when the
\* connection has no room for another session or object.
LoadFails(r) ==
    /\ pc[r] = "locked"
    /\ Move(r, "failing")
    /\ UNCHANGED <<service, permits, members, node, vouched, tpm>>

\* read_public opens and closes a session of its own.
LoadExternal(r) ==
    /\ pc[r] = "locked"
    /\ Cardinality(sessions) < SessionSlots
    /\ Cardinality(externals) < Slots
    /\ externals' = externals \cup {r}
    /\ Move(r, "wrapping")
    /\ UNCHANGED <<service, permits, members, node, vouched, sessions, faulted>>

\* start_auth_session fails: `?` leaves the external object loaded.
SessionRefused(r) ==
    /\ pc[r] = "wrapping"
    /\ faulted' = faulted \cup {r}
    /\ Move(r, "failing")
    /\ UNCHANGED <<service, permits, members, node, vouched, externals, sessions>>

OpenSession(r) ==
    /\ pc[r] = "wrapping"
    /\ Cardinality(sessions) < SessionSlots
    /\ sessions' = sessions \cup {r}
    /\ Move(r, "duplicating")
    /\ UNCHANGED <<service, permits, members, node, vouched, externals, faulted>>

\* The session's attributes or its policy cannot be set, or it cannot be
\* flushed: `?` leaves it open and the external object loaded.
SessionFails(r) ==
    /\ pc[r] = "duplicating"
    /\ faulted' = faulted \cup {r}
    /\ Move(r, "failing")
    /\ UNCHANGED <<service, permits, members, node, vouched, externals, sessions>>

\* The session is flushed; the flush of the external object is best-effort,
\* its error ignored.
CleanUp(r) ==
    /\ sessions' = sessions \ {r}
    /\ \/ externals' = externals \ {r} /\ UNCHANGED faulted
       \/ faulted' = faulted \cup {r} /\ UNCHANGED externals

\* Variant of DuplicateFails that returns before cleaning up.
DuplicateFailsEarly(r) ==
    /\ pc[r] = "duplicating"
    /\ Move(r, "failing")
    /\ UNCHANGED <<service, permits, members, node, vouched, tpm>>

\* TPM2_Duplicate fails; `result?` comes after the cleanup.
DuplicateFails(r) ==
    /\ pc[r] = "duplicating"
    /\ CleanUp(r)
    /\ Move(r, "failing")
    /\ UNCHANGED <<service, permits, members, node, vouched>>

\* TPM2_Duplicate succeeds; the mutex is released with the block that holds it.
Duplicated(r) ==
    /\ pc[r] = "duplicating"
    /\ CleanUp(r)
    /\ Move(r, "granted")
    /\ UNCHANGED <<service, permits, members, node, vouched>>

\* The public area of the fleet key cannot be marshalled into the response.
MarshallFails(r) ==
    /\ pc[r] = "granted"
    /\ Move(r, "failing")
    /\ UNCHANGED <<service, permits, members, node, vouched, tpm>>

-----------------------------------------------------------------------------
(* Specification *)

\* Nothing of the process moves once it is gone.
Alive == phase # "exited"

Client(r) == Alive /\ (Connect(r) \/ Hangup(r) \/ ClientGone(r) \/ FetchSub(r))

Answer(r) == Alive /\ (Authorize(r) \/ Deny(r))

\* duplicate_for_joiner.
Duplicate(r) ==
    \/ LoadFails(r) \/ LoadExternal(r)
    \/ SessionRefused(r) \/ OpenSession(r) \/ SessionFails(r)
    \/ DuplicateFails(r) \/ Duplicated(r)

Handler(r) ==
    /\ Alive
    /\ \/ PutBack(r) \/ Fail(r) \/ Succeed(r)
       \/ RefuseIdentity(r) \/ AskApiServer(r)
       \/ Malformed(r) \/ Unmarshalled(r) \/ LockContext(r)
       \/ Duplicate(r) \/ MarshallFails(r)

Process == Start \/ StartFails \/ CloseOnDone \/ CloseOnTimeout \/ Exit \/ Killed

Next ==
    \/ Process
    \/ \E r \in Requests : Client(r) \/ GoAway(r) \/ Answer(r) \/ Handler(r)
    \/ \E n \in Nodes : NodeAdded(n) \/ NodeRemoved(n)

Spec == Init /\ [][Next]_vars

(***************************************************************************)
(* The process starts or fails to; a woken listener closes; a running      *)
(* handler is polled; idle connections obey GOAWAY; the process exits once *)
(* it can.  Nothing obliges a client to send anything.                     *)
(***************************************************************************)
ProcessFairness ==
    /\ WF_vars(Start \/ StartFails)
    /\ WF_vars(CloseOnDone)
    /\ WF_vars(Exit)
    /\ \A r \in Requests : WF_vars(Handler(r)) /\ WF_vars(GoAway(r))

\* The API server answers every lookup, or its connection fails.
ApiServerFairness == \A r \in Requests : WF_vars(Answer(r))

TimerFairness == WF_vars(CloseOnTimeout)

\* Without TimerFairness: the window may be so long that only --max ends it.
FairSpec == Spec /\ ProcessFairness /\ ApiServerFairness

-----------------------------------------------------------------------------
(* Invariants *)

\* Every variable has its type; `remaining` stays within its machine word.
TypeOK ==
    /\ phase \in {"starting", "open", "closing", "exited"}
    /\ closedBy \in {"none", "max", "timeout"}
    /\ exitCode \in {-1, 0, 1, 130}
    /\ remaining \in 0..(Modulus - 1)
    /\ notified \in BOOLEAN
    /\ members \in SUBSET Nodes
    /\ pc \in [Requests -> Places]
    /\ node \in [Requests -> Nodes \cup {NoName}]
    /\ wasLast \in [Requests -> BOOLEAN]
    /\ externals \in SUBSET Requests
    /\ sessions \in SUBSET Requests
    /\ vouched \in SUBSET Requests
    /\ faulted \in SUBSET Requests
    /\ overdrawn \in BOOLEAN

(***************************************************************************)
(* No interleaving of fetch_sub, the put-back at zero, the give-back of a  *)
(* failed request and dropped handlers ever mints or loses a permit        *)
(* unaccounted: the counter plus the debits outstanding is Max, or Max     *)
(* plus one wrap of the machine word (enroll.rs, `duplicate`).             *)
(***************************************************************************)
PermitAccounting ==
    remaining + Cardinality(Debits) \in {Max, Max + Modulus}

(***************************************************************************)
(* --max bounds the requests that hold or have used a permit, in every     *)
(* execution in which no request drew its permit from the counter while a  *)
(* rejected request's fetch_sub had it wrapped below zero.                 *)
(***************************************************************************)
WithinMaxUnlessOverdrawn ==
    ~overdrawn => Cardinality(Holders) =< Max

(***************************************************************************)
(* When --max requests have been served the listener has been told,        *)
(* although was_last_permit is a local computed before the request was     *)
(* authorized and other requests may have given permits back since: the    *)
(* process never has to wait for the timeout then.                         *)
(***************************************************************************)
MaxServedNotifies ==
    (~overdrawn /\ Cardinality(Served) >= Max) => notified

(***************************************************************************)
(* The window never closes as full before --max requests have drawn a      *)
(* permit, however permits are given back, put back or lost in between and *)
(* however long ago was_last_permit was decided: the flag may be stale (a  *)
(* permit given back since), but it is never premature.                    *)
(***************************************************************************)
ClosesOnlyAfterMaxDrawn ==
    closedBy = "max" => Cardinality(Drawn) >= Max

(***************************************************************************)
(* Only requests of a node identity the API server vouched for get a copy  *)
(* of the fleet key, and the window never reports --max reached before one *)
(* did (Decision 3: authentication alone is not enough).                   *)
(***************************************************************************)
OnlyVouchedServed ==
    /\ At({"wrapping", "duplicating", "granted", "served"}) \subseteq
          {r \in vouched : node[r] # NoName}
    /\ closedBy = "max" => Served # {}

(***************************************************************************)
(* What a request leaves in the TPM context it shares with the others: its *)
(* external object or its policy session outlive duplicate_for_joiner only *)
(* if a TPM command that opens or closes them failed, and at most one      *)
(* request at a time has any.                                              *)
(***************************************************************************)
TransientsFreed ==
    /\ externals \subseteq At({"wrapping", "duplicating"}) \cup faulted
    /\ sessions \subseteq At({"duplicating"}) \cup faulted
    /\ \A q, r \in (externals \cup sessions) \ faulted : q = r

-----------------------------------------------------------------------------
(* Temporal properties *)

(***************************************************************************)
(* If the timeout elapses some day the process returns: whatever clients   *)
(* do, however many slots leak, the window ends and every accepted         *)
(* connection drains (run_enroll, serve_with_shutdown).                    *)
(***************************************************************************)
EventuallyExits == TimerFairness => <>(phase = "exited")

(***************************************************************************)
(* Even with no timeout in sight, serving --max requests closes the        *)
(* listener and ends the process.                                          *)
(***************************************************************************)
MaxServedExits ==
    (~overdrawn /\ Cardinality(Served) >= Max) ~> (phase = "exited" \/ overdrawn)

-----------------------------------------------------------------------------
(* What comments and documents of the repository say of the window; the    *)
(* runs show executions in which the code does otherwise.                  *)

(***************************************************************************)
(* enroll.rs:92-94: a request that finds the counter at zero is rejected   *)
(* "rather than serving unboundedly past `--max`".                         *)
(***************************************************************************)
NeverPastMax == Cardinality(Served) =< Max

(***************************************************************************)
(* enroll.rs:175-177: "every failure from here on must give it back. Only  *)
(* a *served* Duplicate (the Ok arm) is allowed to keep it consumed."      *)
(***************************************************************************)
OnlyServedKeepPermit ==
    (At(InHandler) = {} /\ ~overdrawn) =>
        remaining = Max - Cardinality(Served)
=============================================================================
