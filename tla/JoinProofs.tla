----------------------------- MODULE JoinProofs -----------------------------
(***************************************************************************)
(* Joins against an enrollment window implement Enrollment, for any number *)
(* of joins and nodes and every --max.                                     *)
(***************************************************************************)
EXTENDS Join, EnrollProofs

\* The window does not notice that its clients are joins: every step of the
\* composition is one of Enroll, or leaves its variables alone.
LEMMA WindowStep == [JoinNext]_allVars => [Next]_vars
<1> SUFFICES ASSUME [JoinNext]_allVars PROVE [Next]_vars
  OBVIOUS
<1>1. CASE Seed
  BY <1>1 DEF Seed, Next, Client
<1>2. ASSUME NEW r \in Requests, Dial(r)
      PROVE  Next
  BY <1>2 DEF Dial, Next, Client, Connect, Alive
<1>3. ASSUME NEW r \in Requests, StartJoin(r) \/ JoinStep(r) \/ JoinFails(r)
      PROVE  UNCHANGED vars
  BY <1>3 DEF StartJoin, JoinStep, JoinFails, ReceiveResponse, CallFails,
              Import, FindKey, FindNoKey, EvictKey, PersistKey,
              FlushTransportKey
<1>4. CASE UNCHANGED allVars
  BY <1>4 DEF allVars
<1> QED BY <1>1, <1>2, <1>3, <1>4 DEF JoinNext

\* All that is proved of the window holds of the composition.
LEMMA WindowOfJoin == JoinSpec => Spec
<1>1. JoinInit => Init
  BY DEF JoinInit
<1> QED BY <1>1, WindowStep, PTL DEF JoinSpec, Spec

-----------------------------------------------------------------------------
(* What relates the two sides *)

Answered == {"received", "loaded", "evicting", "persisting", "flushing",
             "joined"}

\* A join past its answer was served, and the handler knows a request only by
\* the name of the node it came from.
JoinInv ==
    /\ host \in [Requests -> Nodes]
    /\ joiner \in [Requests -> JoinPlaces]
    /\ holders \in SUBSET Nodes
    /\ \A r \in Requests : joiner[r] \in Answered => pc[r] = "served"
    /\ \A r \in Requests : node[r] \in {NoName, host[r]}

\* A served request stays served; other handlers may move.
LEMMA ServedStays ==
    ASSUME TypeOK, Next, NEW r \in Requests, pc[r] = "served"
    PROVE  pc'[r] = "served"
<1>1. CASE Process \/ \E n \in Nodes : NodeAdded(n) \/ NodeRemoved(n)
  BY <1>1 DEF Process, Start, StartFails, CloseOnDone, CloseOnTimeout, Exit,
              Killed, NodeAdded, NodeRemoved
<1>2. ASSUME NEW q \in Requests,
             Client(q) \/ GoAway(q) \/ Answer(q) \/ Handler(q)
      PROVE  pc[q] # "served" /\ \E p \in Places : Move(q, p)
  BY <1>2 DEF Client, GoAway, Answer, Handler, Duplicate, Connect, Hangup,
              ClientGone, FetchSub, Authorize, Deny, PutBack, Fail, Succeed,
              RefuseIdentity, AskApiServer, Malformed, Unmarshalled,
              LockContext, LoadFails, LoadExternal, SessionRefused,
              OpenSession, SessionFails, DuplicateFails, Duplicated,
              MarshallFails, Places, InHandler, Debited, Ended
<1>3. ASSUME NEW q \in Requests,
             Client(q) \/ GoAway(q) \/ Answer(q) \/ Handler(q)
      PROVE  pc'[r] = "served"
  <2>1. PICK p \in Places : Move(q, p)
    BY <1>2, <1>3
  <2> QED BY <1>2, <1>3, <2>1 DEF Move, TypeOK
<1> QED BY <1>1, <1>3 DEF Next

\* The seed changes a request's node name only to that of its host.
LEMMA NodeNames ==
    ASSUME TypeOK, JoinInv, Seed, UNCHANGED joinVars
    PROVE  \A r \in Requests : node'[r] \in {NoName, host'[r]}
<1> USE DEF joinVars
<1>1. CASE Process \/ \E n \in Nodes : NodeAdded(n) \/ NodeRemoved(n)
  BY <1>1 DEF Process, Start, StartFails, CloseOnDone, CloseOnTimeout, Exit,
              Killed, NodeAdded, NodeRemoved, JoinInv
<1>2. ASSUME NEW r \in Requests,
             GoAway(r) \/ Answer(r) \/ FetchSub(r) \/ Hangup(r) \/ ClientGone(r)
      PROVE  UNCHANGED node
  BY <1>2 DEF GoAway, Answer, Hangup, ClientGone, FetchSub, Authorize, Deny
<1>3. ASSUME NEW r \in Requests, Handler(r), node'[r] \in {NoName, host[r]}
      PROVE  \A q \in Requests : node'[q] \in {NoName, host'[q]}
  <2>1. \A q \in Requests \ {r} : node'[q] = node[q]
    BY <1>3 DEF Handler, Duplicate, PutBack, Fail, Succeed, RefuseIdentity,
                AskApiServer, Malformed, Unmarshalled, LockContext, LoadFails,
                LoadExternal, SessionRefused, OpenSession, SessionFails,
                DuplicateFails, Duplicated, MarshallFails, TypeOK
  <2> QED BY <1>3, <2>1 DEF JoinInv
<1> QED BY <1>1, <1>2, <1>3 DEF Seed, JoinInv

\* Every step of the composition keeps the invariant.
LEMMA JoinInvStep == TypeOK /\ JoinInv /\ [JoinNext]_allVars => JoinInv'
<1> SUFFICES ASSUME TypeOK, JoinInv, [JoinNext]_allVars PROVE JoinInv'
  OBVIOUS
<1>1. CASE Seed /\ UNCHANGED joinVars
  <2>1. Next
    BY <1>1 DEF Seed, Next, Client
  <2>2. \A r \in Requests : joiner'[r] \in Answered => pc'[r] = "served"
    BY <1>1, <2>1, ServedStays DEF JoinInv, joinVars
  <2> QED BY <1>1, <2>2, NodeNames DEF JoinInv, joinVars
<1>2. ASSUME NEW r \in Requests, Dial(r)
      PROVE  JoinInv'
  <2>1. /\ UNCHANGED <<host, holders, node>>
        /\ joiner' = [joiner EXCEPT ![r] = "calling"]
        /\ pc' = [pc EXCEPT ![r] = "connected"]
        /\ joiner[r] = "dialing"
    BY <1>2 DEF Dial, Step, Connect, Move
  <2>2. joiner' \in [Requests -> JoinPlaces]
    BY <2>1 DEF JoinInv, JoinPlaces, Active
  <2>3. \A q \in Requests : joiner'[q] \in Answered => pc'[q] = "served"
    BY <2>1 DEF JoinInv, Answered, TypeOK
  <2> QED BY <2>1, <2>2, <2>3 DEF JoinInv
<1>3. ASSUME NEW r \in Requests, StartJoin(r) \/ JoinStep(r) \/ JoinFails(r)
      PROVE  JoinInv'
  <2>1. PICK to \in JoinPlaces : joiner' = [joiner EXCEPT ![r] = to]
    BY <1>3 DEF StartJoin, JoinStep, JoinFails, ReceiveResponse, CallFails,
                Import, FindKey, FindNoKey, EvictKey, PersistKey,
                FlushTransportKey, Step, JoinPlaces, Active
  <2>2. UNCHANGED <<pc, node, host>>
    BY <1>3 DEF StartJoin, JoinStep, JoinFails, ReceiveResponse, CallFails,
                Import, FindKey, FindNoKey, EvictKey, PersistKey,
                FlushTransportKey, vars
  <2>3. joiner'[r] \in Answered => pc[r] = "served"
    BY <1>3 DEF StartJoin, JoinStep, JoinFails, ReceiveResponse, CallFails,
                Import, FindKey, FindNoKey, EvictKey, PersistKey,
                FlushTransportKey, Step, Answered, JoinInv
  <2>4. holders' \in SUBSET Nodes
    BY <1>3 DEF StartJoin, JoinStep, JoinFails, ReceiveResponse, CallFails,
                Import, FindKey, FindNoKey, EvictKey, PersistKey,
                FlushTransportKey, JoinInv
  <2> QED BY <2>1, <2>2, <2>3, <2>4 DEF JoinInv
<1>4. CASE UNCHANGED allVars
  BY <1>4 DEF allVars, vars, joinVars, JoinInv
<1> QED BY <1>1, <1>2, <1>3, <1>4 DEF JoinNext

\* The two sides stay related in every execution.
THEOREM JoinInvariant == JoinSpec => [](TypeOK /\ JoinInv)
<1>1. JoinInit => JoinInv
  BY JoinAssumption DEF JoinInit, Init, JoinInv, JoinPlaces, Answered
<1> QED BY <1>1, JoinInvStep, WindowOfJoin, TypeCorrect, PTL DEF JoinSpec

\* Type correctness of the composition.
THEOREM JoinTypeCorrect == JoinSpec => []JoinTypeOK
<1>1. TypeOK /\ JoinInv => JoinTypeOK
  BY DEF JoinInv, JoinTypeOK
<1> QED BY <1>1, JoinInvariant, PTL

-----------------------------------------------------------------------------
(* The composition implements Enrollment *)

\* A step of the seed that serves nobody keeps the set of granted joins.
LEMMA ServedUnchanged ==
    ASSUME TypeOK, NEW r \in Requests, pc[r] # "served",
           NEW p \in Places \ {"served"}, Move(r, p)
    PROVE  Served' = Served
  BY DEF Served, At, Move, TypeOK

\* Serving a request is granting a copy within the bound.
LEMMA SucceedGrants ==
    ASSUME TypeOK, AuthInv, WithinMaxUnlessOverdrawn, NEW r \in Requests,
           Succeed(r), UNCHANGED joinVars
    PROVE  Promise!Grant(r)
<1>1. Served' = Served \cup {r} /\ r \notin Served
  BY DEF Succeed, Move, Served, At, TypeOK
<1>2. r \in vouched
  BY DEF Succeed, AuthInv, RequestCleared, Cleared
<1>3. Cardinality(Served) < Max \/ overdrawn
  <2>1. /\ Served \subseteq Holders
        /\ r \in Holders
    BY DEF Succeed, Served, Holders, At, Debited
  <2>2. /\ IsFiniteSet(Holders)
        /\ Cardinality(Served) \in Nat
        /\ Cardinality(Holders) \in Nat
    BY AtFinite DEF Served, Holders
  <2>3. Cardinality(Served) < Cardinality(Holders)
    BY <1>1, <2>1, <2>2, FS_Subset
  <2> QED BY <2>2, <2>3, EnrollAssumption DEF WithinMaxUnlessOverdrawn
<1>4. Promise!Cardinality(Served) = Cardinality(Served)
  BY DEF Promise!Cardinality, Cardinality
<1> QED BY <1>1, <1>2, <1>3, <1>4
        DEF Promise!Grant, Succeed, service, tpm, joinVars

\* What the seed does is a step of Enrollment, or none.
LEMMA SeedRefines ==
    ASSUME TypeOK, AuthInv, WithinMaxUnlessOverdrawn, JoinInv, Seed,
           UNCHANGED joinVars
    PROVE  [Promise!Next]_Promise!vars
<1> USE DEF service, permits, tpm, joinVars, Promise!vars
<1>1. CASE Process
  BY <1>1 DEF Process, Start, StartFails, CloseOnDone, CloseOnTimeout, Exit,
              Killed, Served, At
<1>2. CASE \E n \in Nodes : NodeAdded(n) \/ NodeRemoved(n)
  <2>1. Promise!Membership
    BY <1>2 DEF Promise!Membership, NodeAdded, NodeRemoved, TypeOK, Served, At
  <2> QED BY <2>1 DEF Promise!Next
<1>3. ASSUME NEW r \in Requests, GoAway(r) \/ Hangup(r) \/ ClientGone(r)
      PROVE  UNCHANGED Promise!vars
  <2>1. PICK p \in {"gone", "dropped"} : Move(r, p)
    BY <1>3 DEF GoAway, Hangup, ClientGone
  <2>2. pc[r] # "served" /\ p \in Places \ {"served"}
        /\ UNCHANGED <<members, vouched, overdrawn>>
    BY <1>3 DEF GoAway, Hangup, ClientGone, Places, Ended
  <2> QED BY <2>1, <2>2, ServedUnchanged
<1>4. ASSUME NEW r \in Requests, FetchSub(r)
      PROVE  Promise!Overrun \/ UNCHANGED Promise!vars
  <2>1. PICK p \in {"rejecting", "checking"} : Move(r, p)
    BY <1>4 DEF FetchSub
  <2>2. pc[r] # "served" /\ p \in Places \ {"served"}
        /\ UNCHANGED <<members, vouched>>
    BY <1>4 DEF FetchSub, Places, InHandler, Debited
  <2>3. Served' = Served
    BY <2>1, <2>2, ServedUnchanged
  <2>4. overdrawn' = overdrawn \/ overdrawn' = TRUE
    BY <1>4 DEF FetchSub, TypeOK
  <2> QED BY <2>2, <2>3, <2>4 DEF Promise!Overrun
<1>5. ASSUME NEW r \in Requests, Answer(r)
      PROVE  Promise!Vouch(r) \/ UNCHANGED Promise!vars
  <2>1. PICK p \in {"authorized", "failing"} : Move(r, p)
    BY <1>5 DEF Answer, Authorize, Deny
  <2>2. pc[r] = "authorizing" /\ p \in Places \ {"served"}
        /\ UNCHANGED <<members, overdrawn>>
    BY <1>5 DEF Answer, Authorize, Deny, Places, InHandler, Debited
  <2>3. Served' = Served
    BY <2>1, <2>2, ServedUnchanged
  <2>4. node[r] = host[r]
    BY <2>2 DEF AuthInv, RequestCleared, JoinInv
  <2> QED BY <1>5, <2>2, <2>3, <2>4
          DEF Answer, Authorize, Deny, KnownToApiServer, Promise!Vouch
<1>6. ASSUME NEW r \in Requests, Handler(r)
      PROVE  Promise!Grant(r) \/ UNCHANGED Promise!vars
  <2>1. CASE Succeed(r)
    BY <2>1, SucceedGrants
  <2>2. CASE ~Succeed(r)
    <3>1. PICK p \in {"rejected", "failed", "failing", "authorizing", "parsed",
                      "locked", "wrapping", "duplicating", "granted"} :
             Move(r, p)
      BY <1>6, <2>2
         DEF Handler, Duplicate, PutBack, Fail, RefuseIdentity, AskApiServer,
             Malformed, Unmarshalled, LockContext, LoadFails, LoadExternal,
             SessionRefused, OpenSession, SessionFails, DuplicateFails,
             Duplicated, MarshallFails
    <3>2. pc[r] # "served" /\ UNCHANGED <<members, vouched, overdrawn>>
      BY <1>6, <2>2
         DEF Handler, Duplicate, PutBack, Fail, RefuseIdentity, AskApiServer,
             Malformed, Unmarshalled, LockContext, LoadFails, LoadExternal,
             SessionRefused, OpenSession, SessionFails, DuplicateFails,
             Duplicated, MarshallFails
    <3>3. p \in Places \ {"served"}
      BY DEF Places, InHandler, Debited, Ended
    <3> QED BY <3>1, <3>2, <3>3, ServedUnchanged
  <2> QED BY <2>1, <2>2
<1> QED BY <1>1, <1>2, <1>3, <1>4, <1>5, <1>6 DEF Seed, Promise!Next

\* A join stores or evicts a key only after it was granted one.
LEMMA JoinerRefines ==
    ASSUME TypeOK, JoinInv, NEW r \in Requests,
           StartJoin(r) \/ Dial(r) \/ JoinStep(r) \/ JoinFails(r)
    PROVE  [Promise!Next]_Promise!vars
<1> USE DEF Promise!vars
<1>1. CASE Dial(r)
  <2>1. Served' = Served
    BY <1>1, ServedUnchanged DEF Dial, Connect, Places
  <2> QED BY <1>1, <2>1 DEF Dial, Connect, permits
<1>2. CASE EvictKey(r)
  <2>1. Promise!Lose(r)
    BY <1>2 DEF EvictKey, Step, Answered, JoinInv, Served, At, Promise!Lose,
                vars, permits
  <2> QED BY <2>1 DEF Promise!Next
<1>3. CASE PersistKey(r)
  <2>1. Promise!Store(r)
    BY <1>3 DEF PersistKey, Step, Answered, JoinInv, Served, At, Promise!Store,
                vars, permits
  <2> QED BY <2>1 DEF Promise!Next
<1>4. CASE \/ StartJoin(r) \/ JoinFails(r) \/ ReceiveResponse(r)
           \/ CallFails(r) \/ Import(r) \/ FindKey(r) \/ FindNoKey(r)
           \/ FlushTransportKey(r)
  <2>1. UNCHANGED <<vars, host, holders>>
    BY <1>4 DEF StartJoin, JoinFails, ReceiveResponse, CallFails, Import,
                FindKey, FindNoKey, FlushTransportKey
  <2> QED BY <2>1 DEF vars, permits, Served, At
<1> QED BY <1>1, <1>2, <1>3, <1>4 DEF JoinStep

\* Enroll and join together keep the promise of Enrollment.
THEOREM JoinImplementsEnrollment == JoinSpec => PromiseKept
<1>1. JoinInit => Promise!Init
  <2> SUFFICES ASSUME JoinInit PROVE Promise!Init
    OBVIOUS
  <2>1. Served = {}
    BY DEF JoinInit, Init, Served, At
  <2> QED BY <2>1, JoinAssumption DEF JoinInit, Init, Promise!Init
<1>2. ASSUME TypeOK, AuthInv, WithinMaxUnlessOverdrawn, JoinInv,
             [JoinNext]_allVars
      PROVE  [Promise!Next]_Promise!vars
  <2>1. CASE UNCHANGED allVars
    BY <2>1 DEF allVars, vars, permits, joinVars, Promise!vars, Served, At
  <2> QED BY <1>2, <2>1, SeedRefines, JoinerRefines DEF JoinNext
<1>3. JoinSpec => []AuthInv
  BY WindowOfJoin, AuthInvariant, PTL
<1>4. JoinSpec => []WithinMaxUnlessOverdrawn
  BY WindowOfJoin, WithinMax, PTL
<1> QED BY <1>1, <1>2, <1>3, <1>4, JoinInvariant, PTL
        DEF JoinSpec, PromiseKept, Promise!Spec
=============================================================================
