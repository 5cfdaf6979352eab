---------------------------- MODULE EnrollProofs ----------------------------
(***************************************************************************)
(* Proofs about Enroll for every set of requests and nodes, every --max,   *)
(* every width of the counter that exceeds --max and the number of         *)
(* requests, and every number of TPM object slots.                         *)
(***************************************************************************)
EXTENDS Enroll, FiniteSetTheorems, TLAPS

-----------------------------------------------------------------------------
(* Type correctness *)

\* The counter operations stay within the machine word.
LEMMA CounterType ==
    ASSUME remaining \in 0..(Modulus - 1)
    PROVE  Decremented \in 0..(Modulus - 1) /\ Incremented \in 0..(Modulus - 1)
  BY EnrollAssumption DEF Decremented, Incremented

\* A handler moves between known places.
LEMMA MoveType ==
    ASSUME pc \in [Requests -> Places], NEW r, NEW p \in Places, Move(r, p)
    PROVE  pc' \in [Requests -> Places]
  BY DEF Move

\* Every step of the process, a client, the API server or a handler keeps
\* the type invariant.
LEMMA TypeStep == TypeOK /\ [Next]_vars => TypeOK'
<1> USE DEF TypeOK
<1>1. SUFFICES ASSUME TypeOK, [Next]_vars PROVE TypeOK'
  OBVIOUS
<1>2. \A p \in {"connected", "rejecting", "checking", "authorizing",
                "authorized", "parsed", "locked", "wrapping",
                "duplicating", "granted",
                "failing", "served", "dropped", "rejected", "failed", "gone"} :
         p \in Places
  BY DEF Places, InHandler, Debited, Ended
<1>3. CASE Process
  BY <1>1, <1>3
     DEF Process, Start, StartFails, CloseOnDone, CloseOnTimeout, Exit, Killed,
         permits, tpm
<1>4. ASSUME NEW r \in Requests, Client(r) \/ GoAway(r)
      PROVE  TypeOK'
  <2>1. CASE Connect(r) \/ Hangup(r) \/ ClientGone(r) \/ GoAway(r)
    BY <1>1, <1>2, <2>1, MoveType
       DEF Connect, Hangup, ClientGone, GoAway, service, permits, tpm
  <2>2. CASE FetchSub(r)
    <3>1. pc' \in [Requests -> Places]
      BY <1>1, <1>2, <2>2, MoveType DEF FetchSub
    <3>2. remaining' \in 0..(Modulus - 1)
      BY <1>1, <2>2, CounterType DEF FetchSub
    <3>3. wasLast' \in [Requests -> BOOLEAN]
      <4>1. wasLast \in [Requests -> BOOLEAN]
        BY <1>1
      <4>2. \/ wasLast' = wasLast
            \/ wasLast' = [wasLast EXCEPT ![r] = (remaining = 1)]
        BY <2>2, Zenon DEF FetchSub
      <4>3. (remaining = 1) \in BOOLEAN
        OBVIOUS
      <4> QED BY <4>1, <4>2, <4>3
    <3>4. overdrawn' \in BOOLEAN
      BY <1>1, <2>2 DEF FetchSub
    <3> QED BY <1>1, <2>2, <3>1, <3>2, <3>3, <3>4 DEF FetchSub, service, tpm
  <2> QED BY <1>4, <2>1, <2>2 DEF Client
<1>5. ASSUME NEW r \in Requests, Answer(r)
      PROVE  TypeOK'
  BY <1>1, <1>2, <1>5, MoveType
     DEF Answer, Authorize, Deny, service, permits, tpm
<1>6. ASSUME NEW r \in Requests, Handler(r)
      PROVE  TypeOK'
  <2>1. CASE PutBack(r) \/ Fail(r)
    <3>1. remaining' \in 0..(Modulus - 1)
      BY <1>1, <2>1, CounterType DEF PutBack, Fail
    <3>2. pc' \in [Requests -> Places]
      BY <1>1, <1>2, <2>1, MoveType DEF PutBack, Fail
    <3> QED BY <1>1, <2>1, <3>1, <3>2 DEF PutBack, Fail, service, tpm
  <2>2. CASE Succeed(r)
    <3>1. notified' \in BOOLEAN
      BY <1>1, <2>2 DEF Succeed
    <3>2. pc' \in [Requests -> Places]
      BY <1>1, <1>2, <2>2, MoveType DEF Succeed
    <3> QED BY <1>1, <2>2, <3>1, <3>2 DEF Succeed, service, tpm
  <2>3. CASE RefuseIdentity(r) \/ Malformed(r) \/ Unmarshalled(r)
             \/ LockContext(r) \/ MarshallFails(r)
    BY <1>1, <1>2, <2>3, MoveType
       DEF RefuseIdentity, Malformed, Unmarshalled, LockContext, MarshallFails,
           service, permits, tpm
  <2>4. CASE AskApiServer(r)
    <3>1. node' \in [Requests -> Nodes \cup {NoName}]
      BY <1>1, <2>4 DEF AskApiServer, CommonNames
    <3>2. pc' \in [Requests -> Places]
      BY <1>1, <1>2, <2>4, MoveType DEF AskApiServer
    <3> QED BY <1>1, <2>4, <3>1, <3>2 DEF AskApiServer, service, permits, tpm
  <2>5. CASE Duplicate(r)
    <3>1. pc' \in [Requests -> Places]
      BY <1>1, <1>2, <2>5, MoveType
         DEF Duplicate, LoadFails, LoadExternal, SessionRefused, OpenSession,
             SessionFails, DuplicateFails, Duplicated
    <3>2. externals' \subseteq Requests /\ sessions' \subseteq Requests
          /\ faulted' \subseteq Requests
      BY <1>1, <2>5
         DEF Duplicate, LoadFails, LoadExternal, SessionRefused, OpenSession,
             SessionFails, DuplicateFails, Duplicated, CleanUp, tpm
    <3>3. UNCHANGED <<service, permits, members, node, vouched>>
      BY <2>5
         DEF Duplicate, LoadFails, LoadExternal, SessionRefused, OpenSession,
             SessionFails, DuplicateFails, Duplicated
    <3> QED BY <1>1, <3>1, <3>2, <3>3 DEF service, permits
  <2> QED BY <1>6, <2>1, <2>2, <2>3, <2>4, <2>5 DEF Handler
<1>7. ASSUME NEW n \in Nodes, NodeAdded(n) \/ NodeRemoved(n)
      PROVE  TypeOK'
  BY <1>1, <1>7 DEF NodeAdded, NodeRemoved, service, permits, tpm
<1>8. CASE UNCHANGED vars
  BY <1>1, <1>8 DEF vars, service, permits, tpm
<1> QED BY <1>1, <1>3, <1>4, <1>5, <1>6, <1>7, <1>8 DEF Next

\* Type correctness of the enrollment window.
THEOREM TypeCorrect == Spec => []TypeOK
<1>1. Init => TypeOK
  <2> SUFFICES ASSUME Init PROVE TypeOK
    OBVIOUS
  <2>1. remaining \in 0..(Modulus - 1)
    BY EnrollAssumption DEF Init
  <2>2. "waiting" \in Places
    BY DEF Places
  <2>3. wasLast \in [Requests -> BOOLEAN] /\ notified \in BOOLEAN
        /\ overdrawn \in BOOLEAN
    BY Zenon DEF Init
  <2>4. pc \in [Requests -> Places] /\ node \in [Requests -> Nodes \cup {NoName}]
    BY <2>2 DEF Init
  <2> QED BY <2>1, <2>3, <2>4 DEF Init, TypeOK
<1> QED BY <1>1, TypeStep, PTL DEF Spec

-----------------------------------------------------------------------------
(* The permit invariants *)

(***************************************************************************)
(* WithinMaxUnlessOverdrawn and MaxServedNotifies are not inductive.  What *)
(* the code relies on is that whoever filled the window saw the counter at *)
(* one (so its was_last_permit is TRUE), and that a served request with    *)
(* that flag has notified.                                                 *)
(***************************************************************************)
FullWindowHasLast ==
    (~overdrawn /\ Cardinality(Holders) = Max) =>
        \E r \in Holders : wasLast[r]

LastServedNotified == \A r \in Served : wasLast[r] => notified

PermitInv ==
    /\ PermitAccounting
    /\ WithinMaxUnlessOverdrawn
    /\ FullWindowHasLast
    /\ LastServedNotified

\* Sets of requests are finite, and none is larger than Requests.
LEMMA AtFinite ==
    ASSUME NEW S
    PROVE  /\ IsFiniteSet(At(S))
           /\ Cardinality(At(S)) \in Nat
           /\ Cardinality(At(S)) =< Cardinality(Requests)
           /\ Cardinality(Requests) \in Nat
<1>1. At(S) \subseteq Requests
  BY DEF At
<1> QED BY <1>1, FS_Subset, FS_CardinalityType, EnrollAssumption

\* Where a request moves to decides which sets it belongs to afterwards.
LEMMA MoveAt ==
    ASSUME pc \in [Requests -> Places], NEW r \in Requests, NEW p, NEW S,
           Move(r, p)
    PROVE  At(S)' = IF p \in S THEN At(S) \cup {r} ELSE At(S) \ {r}
  BY DEF Move, At

\* A step that moves no permit: the request keeps its standing.
LEMMA NeutralStep ==
    ASSUME TypeOK, PermitInv, UNCHANGED permits,
           Debits' = Debits, Holders' = Holders, Served' = Served
    PROVE  PermitInv'
  BY DEF PermitInv, PermitAccounting, WithinMaxUnlessOverdrawn,
         FullWindowHasLast, LastServedNotified, permits

\* A request that moves between two places of the same standing.
LEMMA NeutralMove ==
    ASSUME TypeOK, PermitInv, UNCHANGED permits,
           NEW r \in Requests, NEW p, Move(r, p),
           pc[r] # "served", p # "served",
           p \in Debited <=> pc[r] \in Debited,
           p = "rejecting" <=> pc[r] = "rejecting"
    PROVE  PermitInv'
<1>1. pc \in [Requests -> Places]
  BY DEF TypeOK
<1>2. Debits' = Debits
  BY <1>1 DEF Debits, At, Move
<1>3. Holders' = Holders
  BY <1>1 DEF Holders, At, Move
<1>4. Served' = Served
  BY <1>1 DEF Served, At, Move
<1> QED BY <1>2, <1>3, <1>4, NeutralStep

\* Adding or removing one request changes the size of a finite set by one.
LEMMA AddOne ==
    ASSUME NEW T, NEW r, IsFiniteSet(T), r \notin T
    PROVE  /\ IsFiniteSet(T \cup {r})
           /\ Cardinality(T \cup {r}) = Cardinality(T) + 1
  BY FS_AddElement

LEMMA RemoveOne ==
    ASSUME NEW T, NEW r, IsFiniteSet(T), r \in T
    PROVE  Cardinality(T \ {r}) = Cardinality(T) - 1
  BY FS_RemoveElement

\* fetch_sub: a permit is taken, or the counter wraps and the request is
\* turned away.
LEMMA FetchSubStep ==
    ASSUME TypeOK, PermitInv, NEW r \in Requests, FetchSub(r)
    PROVE  PermitInv'
<1>1. pc \in [Requests -> Places] /\ pc[r] = "connected"
      /\ remaining \in 0..(Modulus - 1)
  BY DEF TypeOK, FetchSub
<1>2. r \notin Debits /\ r \notin Holders /\ r \notin Served
  BY <1>1 DEF Debits, Holders, Served, At, Debited
<1>3. Debits' = Debits \cup {r} /\ Served' = Served
  BY <1>1 DEF Debits, Served, At, Debited, FetchSub, Move
<1>4. /\ Cardinality(Debits') = Cardinality(Debits) + 1
      /\ Cardinality(Debits) \in Nat
      /\ Cardinality(Debits') \in Nat
      /\ Cardinality(Debits') =< Cardinality(Requests)
      /\ Cardinality(Requests) \in Nat
  <2>1. IsFiniteSet(Debits) /\ Cardinality(Debits) \in Nat
        /\ Cardinality(Requests) \in Nat
    BY AtFinite DEF Debits
  <2>2. Debits' \subseteq Requests
    BY DEF Debits, At
  <2> QED BY <1>2, <1>3, <2>1, <2>2, AddOne, FS_Subset, EnrollAssumption
<1>5. PermitAccounting'
  BY <1>1, <1>4, EnrollAssumption
     DEF PermitInv, PermitAccounting, FetchSub, Decremented
<1>6. LastServedNotified'
  <2>1. \A q \in Served : wasLast'[q] = wasLast[q]
    BY <1>2 DEF FetchSub, TypeOK, Served, At
  <2> QED BY <1>3, <2>1 DEF PermitInv, LastServedNotified, FetchSub
<1>7. CASE remaining = 0
  <2>1. Holders' = Holders /\ UNCHANGED <<wasLast, overdrawn>>
    BY <1>1, <1>7 DEF Holders, At, Debited, FetchSub, Move
  <2> QED BY <1>5, <1>6, <2>1
          DEF PermitInv, WithinMaxUnlessOverdrawn, FullWindowHasLast
<1>8. CASE remaining # 0
  <2>1. Holders' = Holders \cup {r}
    BY <1>1, <1>8 DEF Holders, At, Debited, FetchSub, Move
  <2>2. /\ Cardinality(Holders') = Cardinality(Holders) + 1
        /\ Cardinality(Holders) \in Nat
    BY <1>2, <2>1, AtFinite, AddOne DEF Holders
  <2>3. Cardinality(Holders) =< Cardinality(Debits)
    <3>1. Holders \subseteq Debits
      BY DEF Holders, Debits, At
    <3> QED BY <3>1, AtFinite, FS_Subset DEF Debits
  <2>4. wasLast'[r] = (remaining = 1)
    BY <1>1, <1>8 DEF FetchSub, TypeOK
  <2>5. ASSUME ~overdrawn'
        PROVE  /\ Cardinality(Holders') =< Max
               /\ Cardinality(Holders') = Max => remaining = 1
    <3>1. ~overdrawn /\ remaining =< Max
      <4>1. overdrawn' = (overdrawn \/ remaining > Max)
        BY <1>8 DEF FetchSub
      <4>2. ~overdrawn /\ ~(remaining > Max)
        BY <2>5, <4>1, Zenon
      <4> QED BY <1>1, <4>2, EnrollAssumption
    <3>2. remaining + Cardinality(Debits) = Max
      BY <1>1, <1>4, <3>1, EnrollAssumption DEF PermitInv, PermitAccounting
    <3> QED BY <1>1, <1>4, <1>8, <2>2, <2>3, <3>2, EnrollAssumption
  <2>6. WithinMaxUnlessOverdrawn'
    BY <2>5 DEF WithinMaxUnlessOverdrawn
  <2>7. FullWindowHasLast'
    BY <2>1, <2>4, <2>5 DEF FullWindowHasLast
  <2> QED BY <1>5, <1>6, <2>6, <2>7 DEF PermitInv
<1> QED BY <1>7, <1>8

\* fetch_add: the put-back of a rejected request and the give-back of a
\* failed one.
LEMMA GiveBackStep ==
    ASSUME TypeOK, PermitInv, NEW r \in Requests, PutBack(r) \/ Fail(r)
    PROVE  PermitInv'
<1>1. /\ pc \in [Requests -> Places] /\ remaining \in 0..(Modulus - 1)
      /\ pc[r] \in {"rejecting", "failing"}
      /\ remaining' = Incremented
      /\ UNCHANGED <<wasLast, overdrawn, notified>>
  BY DEF TypeOK, PutBack, Fail
<1>2. Debits' = Debits \ {r} /\ Holders' = Holders \ {r} /\ Served' = Served
      /\ r \in Debits
  BY <1>1 DEF Debits, Holders, Served, At, Debited, PutBack, Fail, Move
<1>3. /\ Cardinality(Debits') = Cardinality(Debits) - 1
      /\ Cardinality(Debits) \in Nat
      /\ Cardinality(Debits) =< Cardinality(Requests)
      /\ Cardinality(Requests) \in Nat
  BY <1>2, AtFinite, RemoveOne DEF Debits
<1>4. Cardinality(Debits') \in Nat
  <2>1. IsFiniteSet(Debits \ {r})
    BY AtFinite, FS_Subset DEF Debits
  <2> QED BY <1>2, <2>1, FS_CardinalityType
<1>5. PermitAccounting'
  BY <1>1, <1>3, <1>4, EnrollAssumption
     DEF PermitInv, PermitAccounting, Incremented
<1>6. /\ Cardinality(Holders') \in Nat
      /\ Cardinality(Holders) \in Nat
      /\ Cardinality(Holders') =< Cardinality(Holders)
      /\ r \in Holders => Cardinality(Holders') = Cardinality(Holders) - 1
  BY <1>2, AtFinite, RemoveOne, FS_Subset, FS_CardinalityType DEF Holders
<1>7. WithinMaxUnlessOverdrawn'
  BY <1>1, <1>6, EnrollAssumption DEF PermitInv, WithinMaxUnlessOverdrawn
<1>8. FullWindowHasLast'
  <2> SUFFICES ASSUME ~overdrawn, Cardinality(Holders') = Max
               PROVE  \E q \in Holders' : wasLast[q]
    BY <1>1 DEF FullWindowHasLast
  <2>1. Cardinality(Holders) =< Max
    BY DEF PermitInv, WithinMaxUnlessOverdrawn
  <2>2. r \notin Holders
    BY <1>6, <2>1, EnrollAssumption
  <2>3. Holders' = Holders
    BY <1>2, <2>2
  <2> QED BY <2>3 DEF PermitInv, FullWindowHasLast
<1>9. LastServedNotified'
  BY <1>1, <1>2 DEF PermitInv, LastServedNotified
<1> QED BY <1>5, <1>7, <1>8, <1>9 DEF PermitInv

\* The Ok arm keeps the permit and wakes the listener if it was the last.
LEMMA SucceedStep ==
    ASSUME TypeOK, PermitInv, NEW r \in Requests, Succeed(r)
    PROVE  PermitInv'
<1>1. /\ pc \in [Requests -> Places] /\ pc[r] = "granted"
      /\ UNCHANGED <<remaining, wasLast, overdrawn>>
      /\ notified' = (notified \/ wasLast[r])
  BY DEF TypeOK, Succeed
<1>2. Debits' = Debits /\ Holders' = Holders /\ Served' = Served \cup {r}
  BY <1>1 DEF Debits, Holders, Served, At, Debited, Succeed, Move
<1> QED BY <1>1, <1>2
        DEF PermitInv, PermitAccounting, WithinMaxUnlessOverdrawn,
            FullWindowHasLast, LastServedNotified

\* Every step keeps the permit invariant.
LEMMA PermitStep == TypeOK /\ PermitInv /\ [Next]_vars => PermitInv'
<1> SUFFICES ASSUME TypeOK, PermitInv, [Next]_vars PROVE PermitInv'
  OBVIOUS
<1>1. CASE \/ Process
           \/ \E n \in Nodes : NodeAdded(n) \/ NodeRemoved(n)
           \/ UNCHANGED vars
  <2>1. UNCHANGED <<permits, pc>>
    BY <1>1 DEF Process, Start, StartFails, CloseOnDone, CloseOnTimeout, Exit,
                Killed, NodeAdded, NodeRemoved, vars
  <2>2. Debits' = Debits /\ Holders' = Holders /\ Served' = Served
    BY <2>1 DEF Debits, Holders, Served, At
  <2> QED BY <2>1, <2>2, NeutralStep
<1>2. ASSUME NEW r \in Requests, Client(r) \/ GoAway(r)
      PROVE  PermitInv'
  <2>1. CASE Connect(r) \/ Hangup(r) \/ GoAway(r)
    <3>1. UNCHANGED permits /\ \E p \in {"connected", "gone"} : Move(r, p)
      BY <2>1 DEF Connect, Hangup, GoAway
    <3>2. pc[r] \in {"waiting", "connected"}
      BY <2>1 DEF Connect, Hangup, GoAway
    <3> QED BY <3>1, <3>2, NeutralMove DEF Debited
  <2>2. CASE ClientGone(r)
    BY <2>2, NeutralMove DEF ClientGone, Debited
  <2>3. CASE FetchSub(r)
    BY <2>3, FetchSubStep
  <2> QED BY <1>2, <2>1, <2>2, <2>3 DEF Client
<1>3. ASSUME NEW r \in Requests, Answer(r)
      PROVE  PermitInv'
  BY <1>3, NeutralMove DEF Answer, Authorize, Deny, Debited
<1>4. ASSUME NEW r \in Requests, Handler(r)
      PROVE  PermitInv'
  <2>1. CASE PutBack(r) \/ Fail(r)
    BY <2>1, GiveBackStep
  <2>2. CASE Succeed(r)
    BY <2>2, SucceedStep
  <2>3. CASE RefuseIdentity(r) \/ AskApiServer(r) \/ Malformed(r)
             \/ Unmarshalled(r) \/ LockContext(r) \/ MarshallFails(r)
    BY <2>3, NeutralMove
       DEF RefuseIdentity, AskApiServer, Malformed, Unmarshalled, LockContext,
           MarshallFails, Debited
  <2>4. CASE Duplicate(r)
    BY <2>4, NeutralMove
       DEF Duplicate, LoadFails, LoadExternal, SessionRefused, OpenSession,
           SessionFails, DuplicateFails, Duplicated, Debited
  <2> QED BY <1>4, <2>1, <2>2, <2>3, <2>4 DEF Handler
<1> QED BY <1>1, <1>2, <1>3, <1>4 DEF Next

\* Initially all permits are there and nobody holds one.
LEMMA PermitInit == Init => PermitInv
<1> SUFFICES ASSUME Init PROVE PermitInv
  OBVIOUS
<1>1. Debits = {} /\ Holders = {} /\ Served = {}
  BY DEF Init, Debits, Holders, Served, At, Debited
<1>2. Cardinality({}) = 0
  BY FS_EmptySet
<1> QED BY <1>1, <1>2, EnrollAssumption
        DEF Init, PermitInv, PermitAccounting, WithinMaxUnlessOverdrawn,
            FullWindowHasLast, LastServedNotified

\* When --max requests are served they are all the holders there are, so the
\* one that saw the counter at one is among them and has notified.
LEMMA PermitInvImplies ==
    ASSUME TypeOK, PermitInv
    PROVE  MaxServedNotifies
<1> SUFFICES ASSUME ~overdrawn, Cardinality(Served) >= Max
             PROVE  notified
  BY DEF MaxServedNotifies
<1>1. Served \subseteq Holders
  BY DEF Served, Holders, At, Debited
<1>2. /\ IsFiniteSet(Holders)
      /\ Cardinality(Served) \in Nat
      /\ Cardinality(Holders) \in Nat
  BY AtFinite DEF Served, Holders
<1>3. Cardinality(Holders) =< Max
  BY DEF PermitInv, WithinMaxUnlessOverdrawn
<1>4. Served = Holders /\ Cardinality(Holders) = Max
  BY <1>1, <1>2, <1>3, FS_Subset, EnrollAssumption
<1>5. PICK r \in Holders : wasLast[r]
  BY <1>4 DEF PermitInv, FullWindowHasLast
<1> QED BY <1>4, <1>5 DEF PermitInv, LastServedNotified

\* The permit invariant holds throughout every window.
THEOREM PermitInvariant == Spec => [](TypeOK /\ PermitInv)
  BY PermitInit, PermitStep, TypeCorrect, PTL DEF Spec

\* No interleaving of the counter operations of `duplicate` mints or loses a
\* permit unaccounted.
THEOREM PermitsAccounted == Spec => []PermitAccounting
<1>1. PermitInv => PermitAccounting
  BY DEF PermitInv
<1> QED BY <1>1, PermitInvariant, PTL

\* --max bounds the permits in use unless one was drawn from a wrapped counter.
THEOREM WithinMax == Spec => []WithinMaxUnlessOverdrawn
<1>1. PermitInv => WithinMaxUnlessOverdrawn
  BY DEF PermitInv
<1> QED BY <1>1, PermitInvariant, PTL

\* Serving --max requests has always woken the listener.
THEOREM MaxServedWakes == Spec => []MaxServedNotifies
  BY PermitInvImplies, PermitInvariant, PTL

-----------------------------------------------------------------------------
(* Who gets a copy *)

Cleared == {"authorized", "parsed", "locked", "wrapping", "duplicating",
            "granted", "served"}

\* Past authorization a request has a name and a vouched-for identity; it had
\* the name already while the API server was asked.
RequestCleared(r) ==
    /\ pc[r] \in Cleared \cup {"authorizing"} => node[r] # NoName
    /\ pc[r] \in Cleared => r \in vouched

AuthInv ==
    /\ \A r \in Requests : RequestCleared(r)
    /\ notified \/ closedBy = "max" => \E r \in Requests : pc[r] = "served"

\* Only the steps of a request itself can disturb what is known of it, and
\* nothing undoes a served request.
LEMMA AuthMove ==
    ASSUME TypeOK, AuthInv, NEW r \in Requests, NEW p, Move(r, p),
           pc[r] # "served",
           vouched \subseteq vouched', closedBy' = closedBy,
           \A q \in Requests \ {r} : node'[q] = node[q],
           RequestCleared(r)', notified' => notified \/ p = "served"
    PROVE  AuthInv'
<1>1. \A q \in Requests : pc'[q] = IF q = r THEN p ELSE pc[q]
  BY DEF Move, TypeOK
<1>2. \A q \in Requests : RequestCleared(q)'
  BY <1>1 DEF AuthInv, RequestCleared
<1>3. notified' \/ closedBy' = "max" => \E q \in Requests : pc'[q] = "served"
  BY <1>1 DEF AuthInv
<1> QED BY <1>2, <1>3 DEF AuthInv

\* Every step keeps the authorization invariant.
LEMMA AuthStep == TypeOK /\ AuthInv /\ [Next]_vars => AuthInv'
<1> SUFFICES ASSUME TypeOK, AuthInv, [Next]_vars PROVE AuthInv'
  OBVIOUS
<1> USE DEF service, permits, tpm
<1>1. CASE Process
  BY <1>1 DEF Process, Start, StartFails, CloseOnDone, CloseOnTimeout, Exit,
              Killed, AuthInv, RequestCleared
<1>2. ASSUME NEW r \in Requests, Client(r) \/ GoAway(r)
      PROVE  AuthInv'
  <2>1. PICK p \in {"connected", "gone", "dropped", "rejecting", "checking"} :
           Move(r, p)
    BY <1>2 DEF Client, GoAway, Connect, Hangup, ClientGone, FetchSub
  <2>2. pc[r] # "served" /\ UNCHANGED <<vouched, closedBy, node, notified>>
    BY <1>2 DEF Client, GoAway, Connect, Hangup, ClientGone, FetchSub
  <2>3. pc'[r] = p
    BY <2>1 DEF Move, TypeOK
  <2>4. RequestCleared(r)'
    BY <2>3 DEF RequestCleared, Cleared
  <2> QED BY <2>1, <2>2, <2>4, AuthMove
<1>3. ASSUME NEW r \in Requests, Answer(r)
      PROVE  AuthInv'
  <2>1. pc[r] = "authorizing" /\ UNCHANGED <<closedBy, node, notified>>
    BY <1>3 DEF Answer, Authorize, Deny
  <2>2. CASE Authorize(r)
    <3>1. pc'[r] = "authorized" /\ r \in vouched'
      BY <2>2 DEF Authorize, Move, TypeOK
    <3>2. RequestCleared(r)'
      BY <2>1, <3>1 DEF AuthInv, RequestCleared
    <3> QED BY <2>1, <2>2, <3>2, AuthMove DEF Authorize
  <2>3. CASE Deny(r)
    <3>1. pc'[r] = "failing"
      BY <2>3 DEF Deny, Move, TypeOK
    <3>2. RequestCleared(r)'
      BY <3>1 DEF RequestCleared, Cleared
    <3> QED BY <2>1, <2>3, <3>2, AuthMove DEF Deny
  <2> QED BY <1>3, <2>2, <2>3 DEF Answer
<1>4. ASSUME NEW r \in Requests, Handler(r)
      PROVE  AuthInv'
  <2>1. CASE PutBack(r) \/ Fail(r) \/ RefuseIdentity(r) \/ Malformed(r)
             \/ MarshallFails(r)
    <3>1. PICK p \in {"rejected", "failed", "failing"} : Move(r, p)
      BY <2>1 DEF PutBack, Fail, RefuseIdentity, Malformed, MarshallFails
    <3>2. pc[r] # "served" /\ UNCHANGED <<vouched, closedBy, node, notified>>
      BY <2>1 DEF PutBack, Fail, RefuseIdentity, Malformed, MarshallFails
    <3>3. RequestCleared(r)'
      BY <3>1 DEF RequestCleared, Cleared, Move, TypeOK
    <3> QED BY <3>1, <3>2, <3>3, AuthMove
  <2>2. CASE AskApiServer(r)
    <3>1. Move(r, "authorizing") /\ pc'[r] = "authorizing"
      BY <2>2 DEF AskApiServer, Move, TypeOK
    <3>2. /\ node'[r] # NoName
          /\ \A q \in Requests \ {r} : node'[q] = node[q]
          /\ UNCHANGED <<vouched, closedBy, notified>>
          /\ pc[r] # "served"
      BY <2>2 DEF AskApiServer, IsNodeIdentity, TypeOK
    <3>3. RequestCleared(r)'
      BY <3>1, <3>2 DEF RequestCleared, Cleared
    <3> QED BY <3>1, <3>2, <3>3, AuthMove
  <2>3. CASE Unmarshalled(r) \/ LockContext(r) \/ Duplicate(r)
    <3>1. pc[r] \in Cleared \ {"served"}
      BY <2>3 DEF Unmarshalled, LockContext, Duplicate, LoadFails, LoadExternal,
              SessionRefused, OpenSession, SessionFails, DuplicateFails,
              Duplicated, Cleared
    <3>2. UNCHANGED <<vouched, closedBy, node, notified>>
      BY <2>3 DEF Unmarshalled, LockContext, Duplicate, LoadFails, LoadExternal,
              SessionRefused, OpenSession, SessionFails, DuplicateFails,
              Duplicated
    <3>3. PICK p \in {"failing", "parsed", "locked", "wrapping", "duplicating",
                      "granted"} : Move(r, p)
      BY <2>3 DEF Unmarshalled, LockContext, Duplicate, LoadFails, LoadExternal,
              SessionRefused, OpenSession, SessionFails, DuplicateFails,
              Duplicated
    <3>4. RequestCleared(r)'
      BY <3>1, <3>2 DEF AuthInv, RequestCleared
    <3> QED BY <3>1, <3>2, <3>3, <3>4, AuthMove
  <2>4. CASE Succeed(r)
    <3>1. Move(r, "served") /\ pc[r] \in Cleared \ {"served"}
          /\ UNCHANGED <<vouched, closedBy, node>>
      BY <2>4 DEF Succeed, Cleared
    <3>2. RequestCleared(r)'
      BY <3>1 DEF AuthInv, RequestCleared
    <3> QED BY <3>1, <3>2, AuthMove
  <2> QED BY <1>4, <2>1, <2>2, <2>3, <2>4 DEF Handler
<1>5. ASSUME NEW n \in Nodes, NodeAdded(n) \/ NodeRemoved(n)
      PROVE  AuthInv'
  BY <1>5 DEF NodeAdded, NodeRemoved, AuthInv, RequestCleared
<1>6. CASE UNCHANGED vars
  BY <1>6 DEF vars, AuthInv, RequestCleared
<1> QED BY <1>1, <1>2, <1>3, <1>4, <1>5, <1>6 DEF Next

\* The authorization invariant holds throughout every window.
THEOREM AuthInvariant == Spec => []AuthInv
<1>1. Init => AuthInv
  BY DEF Init, AuthInv, RequestCleared, Cleared
<1> QED BY <1>1, AuthStep, TypeCorrect, PTL DEF Spec

\* Only vouched-for node identities get a copy of the fleet key, and only a
\* served request makes the window report --max reached.
THEOREM ServedAreVouched == Spec => []OnlyVouchedServed
<1>1. ASSUME TypeOK, AuthInv PROVE OnlyVouchedServed
  BY <1>1 DEF AuthInv, RequestCleared, Cleared, OnlyVouchedServed, At, Served
<1> QED BY <1>1, AuthInvariant, TypeCorrect, PTL

-----------------------------------------------------------------------------
(* What requests leave in the TPM context *)

\* A request inside the mutex is alone there, and only it can have something
\* loaded or open that no failed command has left behind.
TransientInv ==
    /\ \A q, r \in Inside : q = r
    /\ \A r \in externals \ faulted : pc[r] \in {"wrapping", "duplicating"}
    /\ \A r \in sessions \ faulted : pc[r] = "duplicating"

\* A step that neither enters the mutex nor leaves it changes nothing here.
LEMMA TransientsUntouched ==
    ASSUME TypeOK, TransientInv, UNCHANGED tpm,
           \A r \in Requests :
              \/ pc'[r] = pc[r]
              \/ /\ pc[r] \notin {"locked", "wrapping", "duplicating"}
                 /\ pc'[r] \notin {"locked", "wrapping", "duplicating"}
    PROVE  TransientInv'
  BY DEF TransientInv, TypeOK, tpm, Inside, At

\* Every step keeps the invariant of the TPM context.
LEMMA TransientStep == TypeOK /\ TransientInv /\ [Next]_vars => TransientInv'
<1> SUFFICES ASSUME TypeOK, TransientInv, [Next]_vars PROVE TransientInv'
  OBVIOUS
<1>1. CASE \/ Process \/ UNCHANGED vars
           \/ \E n \in Nodes : NodeAdded(n) \/ NodeRemoved(n)
  <2>1. UNCHANGED <<tpm, pc>>
    BY <1>1 DEF Process, Start, StartFails, CloseOnDone, CloseOnTimeout, Exit,
                Killed, NodeAdded, NodeRemoved, vars
  <2> QED BY <2>1, TransientsUntouched
<1>2. ASSUME NEW r \in Requests, Client(r) \/ GoAway(r) \/ Answer(r)
      PROVE  TransientInv'
  <2>1. UNCHANGED tpm
    BY <1>2 DEF Client, GoAway, Answer, Connect, Hangup, ClientGone, FetchSub,
                Authorize, Deny
  <2>2. pc[r] \in {"waiting", "connected", "authorizing"}
    BY <1>2 DEF Client, GoAway, Answer, Connect, Hangup, ClientGone, FetchSub,
                Authorize, Deny
  <2>3. PICK p \in {"connected", "gone", "dropped", "rejecting", "checking",
                    "authorized", "failing"} : Move(r, p)
    BY <1>2 DEF Client, GoAway, Answer, Connect, Hangup, ClientGone, FetchSub,
                Authorize, Deny
  <2>4. \A q \in Requests : pc'[q] = IF q = r THEN p ELSE pc[q]
    BY <2>3 DEF Move, TypeOK
  <2> QED BY <2>1, <2>2, <2>4, TransientsUntouched
<1>3. ASSUME NEW r \in Requests, Handler(r)
      PROVE  TransientInv'
  <2>1. CASE \/ PutBack(r) \/ Fail(r) \/ Succeed(r) \/ RefuseIdentity(r)
             \/ AskApiServer(r) \/ Malformed(r) \/ Unmarshalled(r)
             \/ MarshallFails(r)
    <3>1. /\ UNCHANGED tpm
          /\ pc[r] \in {"rejecting", "failing", "granted", "checking",
                        "authorized"}
      BY <2>1 DEF PutBack, Fail, Succeed, RefuseIdentity, AskApiServer,
                  Malformed, Unmarshalled, MarshallFails
    <3>2. PICK p \in {"rejected", "failed", "served", "failing", "authorizing",
                      "parsed"} : Move(r, p)
      BY <2>1 DEF PutBack, Fail, Succeed, RefuseIdentity, AskApiServer,
                  Malformed, Unmarshalled, MarshallFails
    <3>3. \A q \in Requests : pc'[q] = IF q = r THEN p ELSE pc[q]
      BY <3>2 DEF Move, TypeOK
    <3> QED BY <3>1, <3>3, TransientsUntouched
  <2>2. CASE LockContext(r)
    <3>1. \A q \in Requests : pc'[q] = IF q = r THEN "locked" ELSE pc[q]
      BY <2>2 DEF LockContext, Move, TypeOK
    <3> QED BY <2>2, <3>1 DEF LockContext, TransientInv, Inside, At, tpm, TypeOK
  <2>3. CASE Duplicate(r)
    <3>1. r \in Inside
      BY <2>3 DEF Duplicate, LoadFails, LoadExternal, SessionRefused,
                  OpenSession, SessionFails, DuplicateFails, Duplicated, Inside,
                  At
    <3>2. PICK p \in {"failing", "wrapping", "duplicating", "granted"} :
             Move(r, p)
      BY <2>3 DEF Duplicate, LoadFails, LoadExternal, SessionRefused,
                  OpenSession, SessionFails, DuplicateFails, Duplicated
    <3>3. \A q \in Requests : pc'[q] = IF q = r THEN p ELSE pc[q]
      BY <3>2 DEF Move, TypeOK
    <3>4. \A q, s \in Inside' : q = s
      BY <3>1, <3>3 DEF TransientInv, Inside, At
    <3>5. /\ externals' \ {r} = externals \ {r}
          /\ sessions' \ {r} = sessions \ {r}
          /\ faulted' \ {r} = faulted \ {r}
      BY <2>3 DEF Duplicate, LoadFails, LoadExternal, SessionRefused,
                  OpenSession, SessionFails, DuplicateFails, Duplicated,
                  CleanUp, tpm
    <3>6. /\ r \in externals' \ faulted' => pc'[r] \in {"wrapping", "duplicating"}
          /\ r \in sessions' \ faulted' => pc'[r] = "duplicating"
      BY <2>3, <3>3 DEF Duplicate, LoadFails, LoadExternal, SessionRefused,
                  OpenSession, SessionFails, DuplicateFails, Duplicated,
                  CleanUp, tpm, TransientInv, Move, TypeOK
    <3> QED BY <3>3, <3>4, <3>5, <3>6 DEF TransientInv, TypeOK
  <2> QED BY <1>3, <2>1, <2>2, <2>3 DEF Handler
<1> QED BY <1>1, <1>2, <1>3 DEF Next

\* The objects and sessions of the shared TPM context outlive their request
\* only after a failed TPM command, and belong to one request at a time.
THEOREM TransientsAreFreed == Spec => []TransientsFreed
<1>1. Init => TransientInv
  BY DEF Init, TransientInv, Inside, At
<1>2. ASSUME TypeOK, TransientInv PROVE TransientsFreed
  BY <1>2 DEF TransientInv, TransientsFreed, Inside, At, TypeOK
<1> QED BY <1>1, <1>2, TransientStep, TypeCorrect, PTL DEF Spec

-----------------------------------------------------------------------------
(* The window never closes as full too early *)

(***************************************************************************)
(* Every sign of a full window: a request that was told it has the last    *)
(* permit, one that found none, a woken listener, a window closed by --max.*)
(* Closing is many steps behind the draw that filled the window, and each  *)
(* of these signs may outlive the counter's value it was taken from.       *)
(***************************************************************************)
Crowded ==
    \/ At({"rejecting", "rejected"}) # {}
    \/ \E r \in Requests : wasLast[r]
    \/ notified
    \/ closedBy = "max"

DrawnInv == Crowded => Cardinality(Drawn) >= Max

\* A step that takes nobody's draw back and gives no new sign.
LEMMA DrawnKept ==
    ASSUME DrawnInv, Drawn \subseteq Drawn', Crowded' => Crowded
    PROVE  DrawnInv'
<1>1. Drawn' \subseteq Requests
  BY DEF Drawn, At
<1>2. IsFiniteSet(Drawn')
  BY <1>1, FS_Subset, EnrollAssumption
<1>3. /\ Cardinality(Drawn) =< Cardinality(Drawn')
      /\ Cardinality(Drawn) \in Nat
      /\ Cardinality(Drawn') \in Nat
  BY <1>2, AtFinite, FS_Subset, FS_CardinalityType DEF Drawn
<1> QED BY <1>3, EnrollAssumption DEF DrawnInv

\* A request that moves on without becoming one that found no permit.
LEMMA DrawnMove ==
    ASSUME TypeOK, DrawnInv, NEW r \in Requests, NEW p, Move(r, p),
           p \notin {"rejecting", "rejected"} \/ pc[r] = "rejecting",
           r \in Drawn => p \in {"failed"} \cup (Debited \ {"rejecting"}),
           UNCHANGED <<wasLast, closedBy>>,
           notified' => notified \/ wasLast[r]
    PROVE  DrawnInv'
<1>1. pc \in [Requests -> Places]
  BY DEF TypeOK
<1>2. Drawn \subseteq Drawn'
  BY <1>1 DEF Drawn, At, Move
<1>3. At({"rejecting", "rejected"})' # {} => At({"rejecting", "rejected"}) # {}
  BY <1>1 DEF At, Move
<1>4. Crowded' => Crowded
  BY <1>3 DEF Crowded
<1> QED BY <1>2, <1>4, DrawnKept

\* fetch_sub: the counter's value, with everyone who was turned away gone or
\* accounted for, says how many have drawn.
LEMMA DrawnFetchSub ==
    ASSUME TypeOK, PermitInv, DrawnInv, NEW r \in Requests, FetchSub(r)
    PROVE  DrawnInv'
<1>1. /\ pc \in [Requests -> Places] /\ pc[r] = "connected"
      /\ remaining \in 0..(Modulus - 1)
      /\ UNCHANGED <<notified, closedBy>>
  BY DEF TypeOK, FetchSub, service
<1>2. Drawn \subseteq Drawn' /\ Drawn' \subseteq Requests
  BY <1>1 DEF Drawn, At, FetchSub, Move, Debited
<1>3. CASE Crowded
  BY <1>2, <1>3, DrawnKept
<1>4. CASE ~Crowded
  <2>1. /\ Debits \subseteq Drawn
        /\ r \notin Debits
    BY <1>1, <1>4 DEF Crowded, Debits, Drawn, At, Debited
  <2>2. /\ IsFiniteSet(Debits)
        /\ Cardinality(Debits) \in Nat
        /\ Cardinality(Debits) =< Cardinality(Requests)
        /\ Cardinality(Requests) \in Nat
    BY AtFinite DEF Debits
  <2>3. IsFiniteSet(Drawn') /\ Cardinality(Drawn') \in Nat
    BY <1>2, FS_Subset, FS_CardinalityType, EnrollAssumption
  <2>4. remaining + Cardinality(Debits) \in {Max, Max + Modulus}
    BY DEF PermitInv, PermitAccounting
  <2>5. CASE remaining = 0
    <3>1. Cardinality(Debits) = Max
      BY <2>2, <2>4, <2>5, EnrollAssumption
    <3>2. Cardinality(Debits) =< Cardinality(Drawn')
      BY <1>2, <2>1, <2>3, FS_Subset
    <3> QED BY <2>2, <2>3, <3>1, <3>2 DEF DrawnInv
  <2>6. CASE remaining = 1
    <3>1. Cardinality(Debits) = Max - 1
      BY <2>2, <2>4, <2>6, EnrollAssumption
    <3>2. Debits \cup {r} \subseteq Drawn'
      BY <1>1, <1>2, <2>1, <2>6 DEF Drawn, At, FetchSub, Move, Debited
    <3>3. Cardinality(Debits \cup {r}) = Max
      BY <2>1, <2>2, <3>1, AddOne, EnrollAssumption
    <3>4. Cardinality(Debits \cup {r}) =< Cardinality(Drawn')
      BY <2>3, <3>2, FS_Subset
    <3> QED BY <2>3, <3>3, <3>4, EnrollAssumption DEF DrawnInv
  <2>7. CASE remaining \notin {0, 1}
    <3>1. /\ Move(r, "checking")
          /\ wasLast' = [wasLast EXCEPT ![r] = (remaining = 1)]
      BY <2>7 DEF FetchSub
    <3>2. \A q \in Requests : wasLast'[q] => wasLast[q]
      BY <2>7, <3>1 DEF TypeOK
    <3>3. At({"rejecting", "rejected"})' # {} => At({"rejecting", "rejected"}) # {}
      BY <1>1, <3>1 DEF At, Move
    <3>4. Crowded' => Crowded
      BY <1>1, <3>2, <3>3 DEF Crowded
    <3> QED BY <1>2, <3>4, DrawnKept
  <2> QED BY <2>5, <2>6, <2>7
<1> QED BY <1>3, <1>4

\* Every step keeps it.
LEMMA DrawnStep == TypeOK /\ PermitInv /\ DrawnInv /\ [Next]_vars => DrawnInv'
<1> SUFFICES ASSUME TypeOK, PermitInv, DrawnInv, [Next]_vars PROVE DrawnInv'
  OBVIOUS
<1>1. CASE Process
  <2>1. UNCHANGED <<permits, pc>>
    BY <1>1 DEF Process, Start, StartFails, CloseOnDone, CloseOnTimeout, Exit,
                Killed
  <2>2. closedBy' = "max" => closedBy = "max" \/ notified
    BY <1>1 DEF Process, Start, StartFails, CloseOnDone, CloseOnTimeout, Exit,
                Killed
  <2>3. Drawn' = Drawn /\ At({"rejecting", "rejected"})' = At({"rejecting", "rejected"})
    BY <2>1 DEF Drawn, At
  <2>4. Crowded' => Crowded
    BY <2>1, <2>2, <2>3 DEF Crowded, permits
  <2> QED BY <2>3, <2>4, DrawnKept
<1>2. CASE UNCHANGED vars \/ \E n \in Nodes : NodeAdded(n) \/ NodeRemoved(n)
  <2>1. UNCHANGED <<permits, pc, closedBy>>
    BY <1>2 DEF NodeAdded, NodeRemoved, vars, service
  <2>2. Drawn' = Drawn /\ (Crowded' <=> Crowded)
    BY <2>1 DEF Drawn, Crowded, At, permits
  <2> QED BY <2>2, DrawnKept
<1>3. ASSUME NEW r \in Requests, Client(r) \/ GoAway(r)
      PROVE  DrawnInv'
  <2>1. CASE FetchSub(r)
    BY <2>1, DrawnFetchSub
  <2>2. CASE Connect(r) \/ Hangup(r) \/ GoAway(r) \/ ClientGone(r)
    BY <2>2, DrawnMove
       DEF Connect, Hangup, GoAway, ClientGone, permits, service, Drawn, At,
           Debited
  <2> QED BY <1>3, <2>1, <2>2 DEF Client
<1>4. ASSUME NEW r \in Requests, Answer(r)
      PROVE  DrawnInv'
  BY <1>4, DrawnMove DEF Answer, Authorize, Deny, permits, service, Debited
<1>5. ASSUME NEW r \in Requests, Handler(r)
      PROVE  DrawnInv'
  <2> USE DEF permits, service, Debited
  <2>1. CASE PutBack(r)
    BY <2>1, DrawnMove DEF PutBack, Drawn, At
  <2>2. CASE Fail(r)
    BY <2>2, DrawnMove DEF Fail
  <2>3. CASE Succeed(r)
    BY <2>3, DrawnMove DEF Succeed
  <2>4. CASE RefuseIdentity(r) \/ AskApiServer(r) \/ Malformed(r)
             \/ Unmarshalled(r) \/ LockContext(r) \/ MarshallFails(r)
    BY <2>4, DrawnMove
       DEF RefuseIdentity, AskApiServer, Malformed, Unmarshalled, LockContext,
           MarshallFails
  <2>5. CASE Duplicate(r)
    BY <2>5, DrawnMove
       DEF Duplicate, LoadFails, LoadExternal, SessionRefused, OpenSession,
           SessionFails, DuplicateFails, Duplicated
  <2> QED BY <1>5, <2>1, <2>2, <2>3, <2>4, <2>5 DEF Handler
<1> QED BY <1>1, <1>2, <1>3, <1>4, <1>5 DEF Next

\* A window that closes as full has handed out --max permits, whatever was
\* given back between the draw of the last one and its success.
THEOREM ClosesNoSooner == Spec => []ClosesOnlyAfterMaxDrawn
<1>1. Init => DrawnInv
  BY DEF Init, DrawnInv, Crowded, At
<1>2. DrawnInv => ClosesOnlyAfterMaxDrawn
  BY DEF DrawnInv, Crowded, ClosesOnlyAfterMaxDrawn
<1> QED BY <1>1, <1>2, DrawnStep, PermitInvariant, PTL DEF Spec
=============================================================================
