----------------------------- MODULE KmsProofs ------------------------------
(***************************************************************************)
(* Proofs about Kms: for any number of concurrent calls and any capacity   *)
(* of the TPM, the service accounts for every transient object, uses the   *)
(* legacy sealer for Decrypt only, and implements KmsAbstract.             *)
(***************************************************************************)
EXTENDS Kms, FiniteSetTheorems, TLAPS

Unsealing == {"decoding", "loading", "unsealing", "flushing"}
Held == {"sealing"} \cup Unsealing

-----------------------------------------------------------------------------
(* The inductive invariant *)

\* What a handler knows of its request at each place.
CallShape(c) ==
    /\ pc[c] = "idle" <=> request[c] = Promise!NoRequest
    /\ pc[c] # "done" => answer[c] = "none"
    /\ pc[c] = "sealing" => request[c].op = "encrypt"
    /\ pc[c] \in {"fallback"} \cup Unsealing => request[c].op = "decrypt"
    /\ pc[c] = "fallback" => request[c].key_id # KeyOf("primary")
    /\ pc[c] \in {"loading", "unsealing", "flushing"} => request[c].wellFormed
    /\ pc[c] \in {"unsealing", "flushing"} =>
          request[c].under = request[c].key_id
    /\ c \in faulted => pc[c] = "done"

\* A handler at a place under a mutex holds one ...
MutexHeld(c) ==
    /\ pc[c] = "sealing" => owner["primary"] = c
    /\ pc[c] \in Unsealing => \E s \in Sealers : owner[s] = c

\* ... and the holder of a mutex is at such a place, for that sealer's key.
HolderFits(c, s) ==
    owner[s] = c =>
       /\ pc[c] \in Held
       /\ pc[c] = "sealing" => s = "primary"
       /\ pc[c] \in Unsealing => request[c].key_id = KeyOf(s)
       /\ s = "legacy" => fleet

\* An object is loaded for the handler that uses it, or was left behind.
ObjectFits(c, s) ==
    c \in loaded[s] =>
       \/ c \in faulted
       \/ owner[s] = c /\ pc[c] \in {"unsealing", "flushing"}

WithinCapacity == \A s \in Sealers : Cardinality(loaded[s]) =< Capacity(s)

KmsInv ==
    /\ TypeOK
    /\ \A c \in Calls : CallShape(c) /\ MutexHeld(c)
    /\ \A c \in Calls, s \in Sealers : HolderFits(c, s) /\ ObjectFits(c, s)
    /\ WithinCapacity

-----------------------------------------------------------------------------
(* Requests, keys and mutexes *)

Answers == {"none", "healthy", "ciphertext", "plaintext", "INTERNAL",
            "INVALID_ARGUMENT"}

\* The fields of a request.
LEMMA RequestFacts ==
    ASSUME NEW q \in Promise!Requests
    PROVE  /\ q # Promise!NoRequest
           /\ q.op \in {"status", "encrypt", "decrypt"}
           /\ q.op = "encrypt" => q.fits \in BOOLEAN
           /\ q.op = "decrypt" => /\ q.key_id \in Promise!KeyIds
                                  /\ q.wellFormed \in BOOLEAN
<1>1. q.op \in {"status", "encrypt", "decrypt"}
  BY DEF Promise!Requests
<1>2. Promise!NoRequest.op = "none"
  BY DEF Promise!NoRequest
<1>3. q # Promise!NoRequest
  BY <1>1, <1>2
<1> QED BY <1>1, <1>3 DEF Promise!Requests

\* The two sealers have different keys when both are in use.
LEMMA KeyFacts ==
    /\ KeyOf("legacy") = "srk"
    /\ fleet => KeyOf("primary") = "fleet"
    /\ ~fleet => KeyOf("primary") = "srk"
    /\ fleet' = fleet => \A s \in Sealers : KeyOf(s)' = KeyOf(s)
  BY DEF KeyOf, Promise!Primary

\* No call holds both mutexes.
LEMMA OneMutex ==
    ASSUME KmsInv, NEW c \in Calls, NEW s \in Sealers, NEW t \in Sealers,
           owner[s] = c, owner[t] = c
    PROVE  s = t
<1> SUFFICES ASSUME owner["primary"] = c, owner["legacy"] = c
             PROVE  FALSE
  BY DEF Sealers
<1>1. HolderFits(c, "primary") /\ HolderFits(c, "legacy")
  BY DEF KmsInv, Sealers
<1>2. fleet /\ pc[c] \in Unsealing
  BY <1>1 DEF HolderFits, Held
<1>3. KeyOf("primary") = KeyOf("legacy")
  BY <1>1, <1>2 DEF HolderFits
<1> QED BY <1>2, <1>3, KeyFacts

\* The sealer a handler works with.
LEMMA SealerFacts ==
    ASSUME KmsInv, NEW c \in Calls, pc[c] \in Unsealing
    PROVE  /\ SealerOf(c) \in Sealers
           /\ owner[SealerOf(c)] = c
           /\ request[c].key_id = KeyOf(SealerOf(c))
           /\ \A s \in Sealers : owner[s] = c => s = SealerOf(c)
<1>1. \E s \in Sealers : owner[s] = c
  BY DEF KmsInv, MutexHeld
<1>2. SealerOf(c) \in Sealers /\ owner[SealerOf(c)] = c
  BY <1>1 DEF SealerOf
<1>3. HolderFits(c, SealerOf(c))
  BY <1>2 DEF KmsInv
<1> QED BY <1>2, <1>3, OneMutex DEF HolderFits

-----------------------------------------------------------------------------
(* Steps that leave the other calls alone *)

\* What is known of a call survives the steps of others.
LEMMA CallUntouched ==
    ASSUME NEW d \in Calls, CallShape(d), fleet' = fleet,
           pc'[d] = pc[d], request'[d] = request[d], answer'[d] = answer[d],
           d \in faulted' => d \in faulted
    PROVE  CallShape(d)'
<1>1. KeyOf("primary")' = KeyOf("primary")
  BY KeyFacts DEF Sealers
<1> QED BY <1>1 DEF CallShape, Promise!NoRequest

\* A handler moves on, without or after taking a mutex.
LEMMA MoveStep ==
    ASSUME KmsInv, NEW c \in Calls, NEW place \in Places, Goto(c, place),
           TypeOK', fleet' = fleet, UNCHANGED <<request, answer, faulted>>,
           UNCHANGED loaded \/ pc[c] = "loading",
           CallShape(c)', MutexHeld(c)',
           \A s \in Sealers : HolderFits(c, s)' /\ ObjectFits(c, s)',
           \A s \in Sealers : owner'[s] # owner[s] =>
                                 owner[s] = NoCall /\ owner'[s] = c,
           \A s \in Sealers : loaded'[s] \ {c} = loaded[s] \ {c},
           WithinCapacity'
    PROVE  KmsInv'
<1>1. \A d \in Calls : pc'[d] = IF d = c THEN place ELSE pc[d]
  BY DEF KmsInv, TypeOK, Goto
<1>2. ASSUME NEW d \in Calls, d # c PROVE CallShape(d)' /\ MutexHeld(d)'
  <2>1. CallShape(d) /\ MutexHeld(d) /\ d # NoCall
    BY KmsAssumption DEF KmsInv
  <2>2. CallShape(d)'
    BY <1>1, <1>2, <2>1, CallUntouched
  <2>3. \A s \in Sealers : owner[s] = d => owner'[s] = d
    BY <2>1
  <2> QED BY <1>1, <1>2, <2>1, <2>2, <2>3 DEF MutexHeld, Sealers
<1>3. ASSUME NEW d \in Calls, NEW s \in Sealers, d # c
      PROVE  HolderFits(d, s)' /\ ObjectFits(d, s)'
  <2>1. HolderFits(d, s) /\ ObjectFits(d, s) /\ d # NoCall
    BY KmsAssumption DEF KmsInv
  <2>2. (owner'[s] = d <=> owner[s] = d) /\ KeyOf(s)' = KeyOf(s)
    BY <1>3, <2>1, KeyFacts
  <2>3. d \in loaded'[s] <=> d \in loaded[s]
    BY <1>3
  <2> QED BY <1>1, <1>3, <2>1, <2>2, <2>3 DEF HolderFits, ObjectFits
<1> QED BY <1>2, <1>3 DEF KmsInv

\* A handler returns: its guard is dropped, and an object of its own that is
\* still loaded counts as left behind.
LEMMA ReturnStep ==
    ASSUME KmsInv, NEW c \in Calls, NEW a \in Answers, Return(c, a),
           pc[c] # "idle", fleet' = fleet, present' \in BOOLEAN,
           faulted' \in {faulted, faulted \cup {c}},
           loaded' \in [Sealers -> SUBSET Calls],
           \A s \in Sealers : loaded'[s] \subseteq loaded[s],
           \A s \in Sealers : c \in loaded'[s] => c \in faulted'
    PROVE  KmsInv'
<1>1. TypeOK /\ c # NoCall
  BY KmsAssumption DEF KmsInv
<1>2. \A d \in Calls :
         /\ pc'[d] = IF d = c THEN "done" ELSE pc[d]
         /\ d # c => answer'[d] = answer[d]
  BY <1>1 DEF TypeOK, Return, Goto
<1>3. /\ request' = request
      /\ \A s \in Sealers :
            owner'[s] = IF owner[s] = c THEN NoCall ELSE owner[s]
  BY DEF Return
<1>4. TypeOK'
  <2>1. pc' \in [Calls -> Places] /\ answer' \in [Calls -> Answers]
    BY <1>1 DEF TypeOK, Return, Goto, Places, Answers
  <2>2. owner' \in [Sealers -> Calls \cup {NoCall}]
    BY <1>1 DEF TypeOK, Return
  <2>3. faulted' \in SUBSET Calls
    BY <1>1 DEF TypeOK
  <2> QED BY <1>1, <1>3, <2>1, <2>2, <2>3 DEF TypeOK, Answers, Promise!NoRequest
<1>5. ASSUME NEW d \in Calls PROVE CallShape(d)' /\ MutexHeld(d)'
  <2>1. CallShape(d) /\ MutexHeld(d) /\ d # NoCall
    BY KmsAssumption DEF KmsInv
  <2>2. CASE d = c
    BY <1>2, <1>3, <2>1, <2>2
       DEF CallShape, MutexHeld, Unsealing, Promise!NoRequest
  <2>3. CASE d # c
    <3>1. CallShape(d)'
      BY <1>2, <1>3, <2>1, <2>3, CallUntouched
    <3>2. \A s \in Sealers : owner[s] = d => owner'[s] = d
      BY <1>3, <2>3
    <3> QED BY <1>2, <2>1, <2>3, <3>1, <3>2 DEF MutexHeld, Sealers
  <2> QED BY <2>2, <2>3
<1>6. ASSUME NEW d \in Calls, NEW s \in Sealers
      PROVE  HolderFits(d, s)' /\ ObjectFits(d, s)'
  <2>1. HolderFits(d, s) /\ ObjectFits(d, s) /\ d # NoCall
    BY KmsAssumption DEF KmsInv
  <2>2. KeyOf(s)' = KeyOf(s)
    BY KeyFacts
  <2>3. CASE d = c
    BY <1>1, <1>3, <2>3 DEF HolderFits, ObjectFits
  <2>4. CASE d # c
    <3>1. owner'[s] = d <=> owner[s] = d
      BY <1>3, <2>1, <2>4
    <3> QED BY <1>2, <1>3, <2>1, <2>2, <2>4, <3>1 DEF HolderFits, ObjectFits
  <2> QED BY <2>3, <2>4
<1>7. WithinCapacity'
  <2> SUFFICES ASSUME NEW s \in Sealers
               PROVE  Cardinality(loaded'[s]) =< Capacity(s)'
    BY DEF WithinCapacity
  <2>1. IsFiniteSet(loaded[s])
    BY <1>1, KmsAssumption, FS_Subset DEF TypeOK
  <2>2. /\ Cardinality(loaded'[s]) \in Nat /\ Cardinality(loaded[s]) \in Nat
        /\ Cardinality(loaded'[s]) =< Cardinality(loaded[s])
    BY <2>1, FS_Subset, FS_CardinalityType
  <2>3. Cardinality(loaded[s]) =< Capacity(s) /\ Capacity(s) \in Int
    BY KmsAssumption DEF KmsInv, WithinCapacity, Capacity
  <2>4. Capacity(s)' = Capacity(s)
    BY KeyFacts DEF Capacity
  <2> QED BY <2>2, <2>3, <2>4
<1> QED BY <1>4, <1>5, <1>6, <1>7 DEF KmsInv

-----------------------------------------------------------------------------
(* Types *)

\* Every step keeps the types.
LEMMA TypeStep == TypeOK /\ [Next]_vars => TypeOK'
<1> SUFFICES ASSUME TypeOK, [Next]_vars PROVE TypeOK'
  OBVIOUS
<1> USE DEF TypeOK, Promise!NoRequest, Promise!Requests, Promise!KeyIds
<1>1. CASE UNCHANGED vars
  BY <1>1 DEF vars
<1>2. CASE (FleetKeyEvicted \/ FleetKeyRestored) /\ UNCHANGED fleet
  BY <1>2 DEF FleetKeyEvicted, FleetKeyRestored
<1>3. ASSUME NEW c \in Calls, NEW place \in Places, Goto(c, place)
      PROVE  pc' \in [Calls -> Places]
  BY <1>3 DEF Goto
<1>4. ASSUME NEW c \in Calls, NEW a \in Answers, Return(c, a)
      PROVE  /\ request' = request
             /\ answer' \in [Calls -> Answers]
             /\ pc' \in [Calls -> Places]
             /\ owner' \in [Sealers -> Calls \cup {NoCall}]
  BY <1>4 DEF Return, Goto, Places, Answers
<1>5. ASSUME NEW c \in Calls, NEW s \in Sealers, NEW place \in Places,
             Acquire(c, s, place)
      PROVE  /\ pc' \in [Calls -> Places]
             /\ owner' \in [Sealers -> Calls \cup {NoCall}]
  BY <1>5 DEF Acquire, Goto
<1>6. ASSUME NEW c \in Calls, Arrive(c), UNCHANGED fleet
      PROVE  TypeOK'
  BY <1>3, <1>6 DEF Arrive, tpm, Places
<1>7. ASSUME NEW c \in Calls, UNCHANGED fleet,
             EncryptLock(c) \/ DecryptPrimary(c) \/ DecryptLegacy(c)
      PROVE  TypeOK'
  BY <1>5, <1>7 DEF EncryptLock, DecryptPrimary, DecryptLegacy, tpm, Places,
                    Sealers
<1>8. ASSUME NEW c \in Calls, UNCHANGED fleet,
             NotPrimary(c) \/ Decoded(c) \/ Unseal(c)
      PROVE  TypeOK'
  BY <1>3, <1>8 DEF NotPrimary, Decoded, Unseal, tpm, Places
<1>9. ASSUME NEW c \in Calls, UNCHANGED fleet,
             \/ Status(c) \/ Seal(c) \/ SealFails(c) \/ UnknownKeyId(c)
             \/ Malformed(c) \/ LoadFails(c) \/ UnsealFails(c)
      PROVE  TypeOK'
  BY <1>4, <1>9 DEF Status, Seal, SealFails, UnknownKeyId, Malformed,
                    LoadFails, UnsealFails, tpm, Answers
<1>10. ASSUME NEW c \in Calls, UNCHANGED fleet, Load(c)
       PROVE  TypeOK'
  BY <1>3, <1>10 DEF Load, Places
<1>11. ASSUME NEW c \in Calls, UNCHANGED fleet, Flush(c)
       PROVE  TypeOK'
  BY <1>4, <1>11 DEF Flush, Answers
<1> QED
  BY <1>1, <1>2, <1>6, <1>7, <1>8, <1>9, <1>10, <1>11 DEF Next, Handler

\* The service's variables keep their types.
THEOREM KmsTypeCorrect == Spec => []TypeOK
<1>1. Init => TypeOK
  BY DEF Init, Promise!Init, TypeOK, Places
<1> QED BY <1>1, TypeStep, PTL DEF Spec

-----------------------------------------------------------------------------
(* One lemma per kind of step *)

\* A call arrives.
LEMMA ArriveStep ==
    ASSUME KmsInv, TypeOK', UNCHANGED fleet, NEW c \in Calls, Arrive(c)
    PROVE  KmsInv'
<1>1. /\ TypeOK /\ pc[c] = "idle" /\ c # NoCall
      /\ pc' = [pc EXCEPT ![c] = "arrived"]
      /\ UNCHANGED <<answer, owner, loaded, present, faulted>>
  BY KmsAssumption DEF KmsInv, Arrive, Goto, tpm
<1>2. PICK q \in Promise!Requests : request' = [request EXCEPT ![c] = q]
  BY DEF Arrive
<1>3. /\ \A d \in Calls : pc'[d] = IF d = c THEN "arrived" ELSE pc[d]
      /\ \A d \in Calls : request'[d] = IF d = c THEN q ELSE request[d]
  BY <1>1, <1>2 DEF TypeOK
<1>4. q # Promise!NoRequest
  BY RequestFacts
<1>5. \A s \in Sealers : owner[s] # c /\ c \notin loaded[s]
  <2> SUFFICES ASSUME NEW s \in Sealers PROVE owner[s] # c /\ c \notin loaded[s]
    OBVIOUS
  <2>1. HolderFits(c, s) /\ ObjectFits(c, s) /\ CallShape(c)
    BY DEF KmsInv
  <2> QED BY <1>1, <2>1 DEF HolderFits, ObjectFits, CallShape, Held, Unsealing
<1>6. ASSUME NEW d \in Calls PROVE CallShape(d)' /\ MutexHeld(d)'
  <2>1. CallShape(d) /\ MutexHeld(d)
    BY DEF KmsInv
  <2>2. CASE d = c
    BY <1>1, <1>3, <1>4, <2>1, <2>2
       DEF CallShape, MutexHeld, Unsealing, Promise!NoRequest
  <2>3. CASE d # c
    <3>1. CallShape(d)'
      BY <1>1, <1>3, <2>1, <2>3, CallUntouched
    <3> QED BY <1>1, <1>3, <2>1, <2>3, <3>1 DEF MutexHeld
  <2> QED BY <2>2, <2>3
<1>7. ASSUME NEW d \in Calls, NEW s \in Sealers
      PROVE  HolderFits(d, s)' /\ ObjectFits(d, s)'
  <2>1. HolderFits(d, s) /\ ObjectFits(d, s) /\ KeyOf(s)' = KeyOf(s)
    BY KeyFacts DEF KmsInv
  <2> QED BY <1>1, <1>3, <1>5, <2>1 DEF HolderFits, ObjectFits
<1>8. WithinCapacity'
  BY <1>1, KeyFacts DEF KmsInv, WithinCapacity, Capacity
<1> QED BY <1>6, <1>7, <1>8 DEF KmsInv

\* Another process evicts the fleet key or puts it back.
LEMMA KeyMovesStep ==
    ASSUME KmsInv, TypeOK', UNCHANGED fleet,
           UNCHANGED <<request, answer, pc, owner, loaded, faulted>>
    PROVE  KmsInv'
<1>1. \A s \in Sealers : KeyOf(s)' = KeyOf(s)
  BY KeyFacts
<1>2. \A c \in Calls : CallShape(c)' /\ MutexHeld(c)'
  BY CallUntouched DEF KmsInv, MutexHeld
<1>3. \A c \in Calls, s \in Sealers : HolderFits(c, s)' /\ ObjectFits(c, s)'
  BY <1>1 DEF KmsInv, HolderFits, ObjectFits
<1>4. WithinCapacity'
  BY <1>1 DEF KmsInv, WithinCapacity, Capacity
<1> QED BY <1>2, <1>3, <1>4 DEF KmsInv

\* A handler takes a mutex; the key of the sealer behind it is the one its
\* request calls for.
LEMMA AcquireStep ==
    ASSUME KmsInv, TypeOK', UNCHANGED fleet, NEW c \in Calls,
           NEW s \in Sealers, NEW place \in {"sealing", "decoding"},
           Acquire(c, s, place), UNCHANGED <<request, answer, tpm>>,
           pc[c] \in {"arrived", "fallback"},
           place = "sealing" => s = "primary" /\ request[c].op = "encrypt",
           place = "decoding" => /\ request[c].op = "decrypt"
                                 /\ request[c].key_id = KeyOf(s)
                                 /\ s = "legacy" => fleet
    PROVE  KmsInv'
<1>1. /\ TypeOK /\ c # NoCall /\ place \in Places
      /\ UNCHANGED <<loaded, faulted, present>>
      /\ owner[s] = NoCall
  BY KmsAssumption DEF KmsInv, Places, tpm, Acquire
<1>2. /\ Goto(c, place) /\ pc'[c] = place
      /\ \A t \in Sealers : owner'[t] = IF t = s THEN c ELSE owner[t]
  BY <1>1 DEF Acquire, Goto, TypeOK
<1>3. \A t \in Sealers : owner[t] # c /\ c \notin loaded[t]
  <2> SUFFICES ASSUME NEW t \in Sealers PROVE owner[t] # c /\ c \notin loaded[t]
    OBVIOUS
  <2>1. HolderFits(c, t) /\ ObjectFits(c, t) /\ CallShape(c)
    BY DEF KmsInv
  <2> QED BY <2>1 DEF HolderFits, ObjectFits, CallShape, Held, Unsealing
<1>4. CallShape(c)'
  <2>1. CallShape(c)
    BY DEF KmsInv
  <2> QED BY <1>1, <1>2, <2>1 DEF CallShape, Unsealing, Promise!NoRequest
<1>5. MutexHeld(c)'
  BY <1>2 DEF MutexHeld, Unsealing
<1>6. \A t \in Sealers : HolderFits(c, t)' /\ ObjectFits(c, t)'
  BY <1>1, <1>2, <1>3, KeyFacts DEF HolderFits, ObjectFits, Held, Unsealing
<1>7. WithinCapacity'
  BY <1>1, KeyFacts DEF KmsInv, WithinCapacity, Capacity
<1>8. \A t \in Sealers : owner'[t] # owner[t] => owner[t] = NoCall /\ owner'[t] = c
  BY <1>1, <1>2
<1> QED BY <1>1, <1>2, <1>4, <1>5, <1>6, <1>7, <1>8, MoveStep

\* A handler goes on under the mutex it has, or without one.
LEMMA GoOnStep ==
    ASSUME KmsInv, TypeOK', UNCHANGED fleet, NEW c \in Calls,
           NotPrimary(c) \/ Decoded(c) \/ Unseal(c)
    PROVE  KmsInv'
<1>1. /\ TypeOK /\ CallShape(c) /\ MutexHeld(c)
      /\ \A s \in Sealers : HolderFits(c, s) /\ ObjectFits(c, s)
  BY DEF KmsInv
<1>2. UNCHANGED <<request, answer, owner, loaded, faulted>>
  BY DEF NotPrimary, Decoded, Unseal, tpm
<1>3. \A s \in Sealers : KeyOf(s)' = KeyOf(s)
  BY KeyFacts
<1>4. PICK place \in {"fallback", "loading", "flushing"} :
         /\ Goto(c, place)
         /\ place = "fallback" => /\ pc[c] = "arrived"
                                  /\ request[c].op = "decrypt"
                                  /\ request[c].key_id # KeyOf("primary")
         /\ place = "loading" => pc[c] = "decoding" /\ request[c].wellFormed
         /\ place = "flushing" => pc[c] = "unsealing"
  BY DEF NotPrimary, Decoded, Unseal
<1>5. pc'[c] = place /\ place \in Places
  BY <1>1, <1>4 DEF Goto, TypeOK, Places
<1>6. CallShape(c)'
  BY <1>1, <1>2, <1>3, <1>4, <1>5
     DEF CallShape, Unsealing, Sealers, Promise!NoRequest
<1>7. MutexHeld(c)'
  BY <1>1, <1>2, <1>4, <1>5 DEF MutexHeld, Unsealing
<1>8. \A s \in Sealers : HolderFits(c, s)' /\ ObjectFits(c, s)'
  BY <1>1, <1>2, <1>3, <1>4, <1>5 DEF HolderFits, ObjectFits, Held, Unsealing
<1>9. WithinCapacity'
  BY <1>2, <1>3 DEF KmsInv, WithinCapacity, Capacity
<1> QED BY <1>2, <1>4, <1>5, <1>6, <1>7, <1>8, <1>9, MoveStep

\* TPM2_Load: one more object, of the handler that holds the sealer.
LEMMA LoadStep ==
    ASSUME KmsInv, TypeOK', UNCHANGED fleet, NEW c \in Calls, Load(c)
    PROVE  KmsInv'
<1> DEFINE t == SealerOf(c)
<1>1. /\ TypeOK /\ CallShape(c) /\ MutexHeld(c)
      /\ \A s \in Sealers : HolderFits(c, s) /\ ObjectFits(c, s)
  BY DEF KmsInv
<1>2. /\ pc[c] = "loading" /\ Goto(c, "unsealing")
      /\ request[c].under = KeyOf(t)
      /\ Cardinality(loaded[t]) < Capacity(t)
      /\ loaded' = [loaded EXCEPT ![t] = @ \cup {c}]
      /\ UNCHANGED <<request, answer, owner, faulted>>
  BY DEF Load
<1>3. /\ t \in Sealers /\ owner[t] = c /\ request[c].key_id = KeyOf(t)
      /\ \A s \in Sealers : owner[s] = c => s = t
  BY <1>2, SealerFacts DEF Unsealing
<1> HIDE DEF t
<1>4. pc'[c] = "unsealing" /\ "unsealing" \in Places
  BY <1>1, <1>2 DEF Goto, TypeOK, Places
<1>5. \A s \in Sealers : loaded'[s] = IF s = t THEN loaded[s] \cup {c}
                                               ELSE loaded[s]
  BY <1>1, <1>2 DEF TypeOK
<1>6. \A s \in Sealers : KeyOf(s)' = KeyOf(s)
  BY KeyFacts
<1>7. CallShape(c)'
  BY <1>1, <1>2, <1>3, <1>4, <1>6
     DEF CallShape, Unsealing, Promise!NoRequest
<1>8. MutexHeld(c)'
  BY <1>1, <1>2, <1>4 DEF MutexHeld, Unsealing
<1>9. \A s \in Sealers : HolderFits(c, s)' /\ ObjectFits(c, s)'
  BY <1>1, <1>2, <1>3, <1>4, <1>5, <1>6
     DEF HolderFits, ObjectFits, Held, Unsealing
<1>10. WithinCapacity'
  <2> SUFFICES ASSUME NEW s \in Sealers
               PROVE  Cardinality(loaded'[s]) =< Capacity(s)'
    BY DEF WithinCapacity
  <2>1. IsFiniteSet(loaded[s]) /\ Capacity(s)' = Capacity(s)
    BY <1>1, <1>6, KmsAssumption, FS_Subset DEF TypeOK, Capacity
  <2>2. Cardinality(loaded[s]) \in Nat /\ Capacity(s) \in Int
    BY <2>1, KmsAssumption, FS_CardinalityType DEF Capacity
  <2>3. CASE s # t
    BY <1>5, <2>1, <2>3 DEF KmsInv, WithinCapacity
  <2>4. CASE s = t
    <3>1. Cardinality(loaded[s] \cup {c}) =< Cardinality(loaded[s]) + 1
      BY <2>1, <2>2, FS_AddElement
    <3>2. Cardinality(loaded[s] \cup {c}) \in Nat
      BY <2>1, FS_AddElement, FS_CardinalityType
    <3> QED BY <1>2, <1>5, <2>1, <2>2, <2>4, <3>1, <3>2
  <2> QED BY <2>3, <2>4
<1> QED BY <1>2, <1>4, <1>5, <1>7, <1>8, <1>9, <1>10, MoveStep

\* A handler returns without having touched the TPM's objects.
LEMMA AnswerStep ==
    ASSUME KmsInv, UNCHANGED fleet, NEW c \in Calls,
           \/ Status(c) \/ Seal(c) \/ SealFails(c) \/ UnknownKeyId(c)
           \/ Malformed(c) \/ LoadFails(c)
    PROVE  KmsInv'
<1>1. PICK a \in Answers : Return(c, a)
  BY DEF Status, Seal, SealFails, UnknownKeyId, Malformed, LoadFails, Answers
<1>2. /\ pc[c] \in {"arrived", "sealing", "fallback", "decoding", "loading"}
      /\ UNCHANGED <<loaded, present, faulted>>
  BY DEF Status, Seal, SealFails, UnknownKeyId, Malformed, LoadFails, tpm
<1>3. /\ TypeOK /\ CallShape(c)
      /\ \A s \in Sealers : ObjectFits(c, s)
  BY DEF KmsInv
<1>4. \A s \in Sealers : c \in loaded'[s] => c \in faulted'
  BY <1>2, <1>3 DEF ObjectFits
<1>5. /\ loaded' \in [Sealers -> SUBSET Calls] /\ present' \in BOOLEAN
      /\ \A s \in Sealers : loaded'[s] \subseteq loaded[s]
  BY <1>2, <1>3 DEF TypeOK
<1> QED BY <1>1, <1>2, <1>4, <1>5, ReturnStep

\* A handler returns after TPM2_Unseal: it has flushed its object, or the
\* error leaves it behind.
LEMMA UnsealedStep ==
    ASSUME KmsInv, UNCHANGED fleet, NEW c \in Calls,
           UnsealFails(c) \/ Flush(c)
    PROVE  KmsInv'
<1>1. PICK a \in Answers : Return(c, a)
  BY DEF UnsealFails, Flush, Answers
<1>2. /\ pc[c] \in {"unsealing", "flushing"}
      /\ present' = present /\ TypeOK
  BY DEF UnsealFails, Flush, KmsInv
<1>3. CASE UnsealFails(c)
  BY <1>1, <1>2, <1>3, ReturnStep DEF UnsealFails, TypeOK
<1>4. CASE Flush(c)
  <2> DEFINE t == SealerOf(c)
  <2>1. /\ t \in Sealers
        /\ \A s \in Sealers : owner[s] = c => s = t
    BY <1>2, SealerFacts DEF Unsealing
  <2>2. faulted' = faulted /\ loaded' = [loaded EXCEPT ![t] = @ \ {c}]
    BY <1>4 DEF Flush
  <2> HIDE DEF t
  <2>3. \A s \in Sealers : loaded'[s] = IF s = t THEN loaded[s] \ {c}
                                                 ELSE loaded[s]
    BY <1>2, <2>2 DEF TypeOK
  <2>4. \A s \in Sealers : ObjectFits(c, s)
    BY DEF KmsInv
  <2>5. \A s \in Sealers : c \in loaded'[s] => c \in faulted'
    BY <2>1, <2>2, <2>3, <2>4 DEF ObjectFits
  <2>6. /\ loaded' \in [Sealers -> SUBSET Calls]
        /\ \A s \in Sealers : loaded'[s] \subseteq loaded[s]
    BY <1>2, <2>2, <2>3 DEF TypeOK
  <2> QED BY <1>1, <1>2, <2>2, <2>5, <2>6, ReturnStep DEF TypeOK
<1> QED BY <1>3, <1>4

-----------------------------------------------------------------------------
(* Theorems *)

\* Every step keeps the invariant.
LEMMA KmsInvStep == KmsInv /\ [Next]_vars => KmsInv'
<1> SUFFICES ASSUME KmsInv, [Next]_vars PROVE KmsInv'
  OBVIOUS
<1>1. TypeOK'
  BY TypeStep DEF KmsInv
<1>2. UNCHANGED fleet
  BY DEF Next, vars
<1>3. CASE \/ UNCHANGED vars
           \/ FleetKeyEvicted \/ FleetKeyRestored
  BY <1>1, <1>2, <1>3, KeyMovesStep DEF vars, FleetKeyEvicted, FleetKeyRestored
<1>4. ASSUME NEW c \in Calls, Arrive(c) PROVE KmsInv'
  BY <1>1, <1>2, <1>4, ArriveStep
<1>5. ASSUME NEW c \in Calls,
             EncryptLock(c) \/ DecryptPrimary(c) \/ DecryptLegacy(c)
      PROVE  KmsInv'
  <2>1. "primary" \in Sealers /\ "legacy" \in Sealers /\ CallShape(c)
    BY DEF Sealers, KmsInv
  <2>2. CASE EncryptLock(c)
    BY <1>1, <1>2, <2>1, <2>2, AcquireStep DEF EncryptLock
  <2>3. CASE DecryptPrimary(c)
    BY <1>1, <1>2, <2>1, <2>3, AcquireStep DEF DecryptPrimary
  <2>4. CASE DecryptLegacy(c)
    BY <1>1, <1>2, <2>1, <2>4, AcquireStep DEF DecryptLegacy, CallShape
  <2> QED BY <1>5, <2>2, <2>3, <2>4
<1>6. ASSUME NEW c \in Calls, NotPrimary(c) \/ Decoded(c) \/ Unseal(c)
      PROVE  KmsInv'
  BY <1>1, <1>2, <1>6, GoOnStep
<1>7. ASSUME NEW c \in Calls, Load(c) PROVE KmsInv'
  BY <1>1, <1>2, <1>7, LoadStep
<1>8. ASSUME NEW c \in Calls,
             \/ Status(c) \/ Seal(c) \/ SealFails(c) \/ UnknownKeyId(c)
             \/ Malformed(c) \/ LoadFails(c)
      PROVE  KmsInv'
  BY <1>2, <1>8, AnswerStep
<1>9. ASSUME NEW c \in Calls, UnsealFails(c) \/ Flush(c) PROVE KmsInv'
  BY <1>2, <1>9, UnsealedStep
<1> QED
  BY <1>3, <1>4, <1>5, <1>6, <1>7, <1>8, <1>9 DEF Next, Handler

\* The service starts idle, with both mutexes free and nothing loaded.
LEMMA KmsInvInit == Init => KmsInv
<1> SUFFICES ASSUME Init PROVE KmsInv
  OBVIOUS
<1>1. TypeOK
  BY DEF Init, Promise!Init, TypeOK, Places
<1>2. /\ \A c \in Calls : /\ pc[c] = "idle" /\ answer[c] = "none"
                          /\ request[c] = Promise!NoRequest
                          /\ c # NoCall
      /\ \A s \in Sealers : owner[s] = NoCall /\ loaded[s] = {}
      /\ faulted = {}
  BY KmsAssumption DEF Init, Promise!Init
<1>3. \A c \in Calls : CallShape(c) /\ MutexHeld(c)
  BY <1>2 DEF CallShape, MutexHeld, Unsealing
<1>4. \A c \in Calls, s \in Sealers : HolderFits(c, s) /\ ObjectFits(c, s)
  BY <1>2 DEF HolderFits, ObjectFits
<1>5. WithinCapacity
  BY <1>2, KmsAssumption, FS_EmptySet DEF WithinCapacity, Capacity
<1> QED BY <1>1, <1>3, <1>4, <1>5 DEF KmsInv

\* The inductive invariant of the service.
THEOREM KmsInvariant == Spec => []KmsInv
  BY KmsInvInit, KmsInvStep, PTL DEF Spec

\* A transient object outlives its call only if its unseal or flush failed,
\* and no connection holds more than the TPM allows.
THEOREM HandlesAreAccounted == Spec => []HandlesAccounted
<1>1. ASSUME KmsInv PROVE HandlesAccounted
  <2> SUFFICES ASSUME NEW s \in Sealers
               PROVE  /\ loaded[s] \subseteq faulted \cup {owner[s]}
                      /\ Cardinality(loaded[s]) =< Capacity(s)
    BY DEF HandlesAccounted
  <2>1. loaded[s] \subseteq Calls
    BY <1>1 DEF KmsInv, TypeOK
  <2>2. \A c \in Calls : ObjectFits(c, s)
    BY <1>1 DEF KmsInv
  <2> QED BY <1>1, <2>1, <2>2 DEF KmsInv, ObjectFits, WithinCapacity
<1> QED BY <1>1, KmsInvariant, PTL

\* No call holds both mutexes, and only a Decrypt that names the SRK holds
\* the legacy sealer's.
THEOREM LegacyForDecryptOnly == Spec => []LegacyOnlyDecrypts
<1>1. ASSUME KmsInv PROVE LegacyOnlyDecrypts
  <2>1. "primary" \in Sealers /\ "legacy" \in Sealers /\ TypeOK
    BY <1>1 DEF Sealers, KmsInv
  <2>2. owner["primary"] # NoCall => owner["primary"] # owner["legacy"]
    BY <1>1, <2>1, OneMutex DEF TypeOK
  <2>3. ASSUME owner["legacy"] \in Calls
        PROVE  /\ fleet
               /\ request[owner["legacy"]].op = "decrypt"
               /\ request[owner["legacy"]].key_id = "srk"
    <3>1. /\ HolderFits(owner["legacy"], "legacy")
          /\ CallShape(owner["legacy"])
      BY <1>1, <2>1, <2>3 DEF KmsInv
    <3>2. fleet /\ pc[owner["legacy"]] \in Unsealing
      BY <3>1 DEF HolderFits, Held
    <3> QED BY <3>1, <3>2, KeyFacts DEF HolderFits, CallShape
  <2> QED BY <2>2, <2>3 DEF LegacyOnlyDecrypts
<1> QED BY <1>1, KmsInvariant, PTL

-----------------------------------------------------------------------------
(* The refinement *)

\* What a request allows, case by case.
LEMMA AllowedFacts ==
    ASSUME NEW q \in Promise!Requests, fleet \in BOOLEAN
    PROVE  /\ q.op = "status" => "healthy" \in Promise!Allowed(q)
           /\ q.op = "encrypt" =>
                 /\ "INTERNAL" \in Promise!Allowed(q)
                 /\ q.fits => "ciphertext" \in Promise!Allowed(q)
           /\ q.op = "decrypt" /\ q.key_id \notin Promise!Known =>
                 "INVALID_ARGUMENT" \in Promise!Allowed(q)
           /\ q.op = "decrypt" /\ q.key_id \in Promise!Known =>
                 /\ "INTERNAL" \in Promise!Allowed(q)
                 /\ q.wellFormed /\ q.under = q.key_id =>
                       "plaintext" \in Promise!Allowed(q)
<1>1. CASE q.op = "status"
  BY <1>1 DEF Promise!Allowed
<1>2. CASE q.op = "encrypt"
  BY <1>2 DEF Promise!Allowed
<1>3. CASE q.op = "decrypt"
  BY <1>3 DEF Promise!Allowed
<1>4. q.op \in {"status", "encrypt", "decrypt"}
  BY RequestFacts
<1> QED BY <1>1, <1>2, <1>3, <1>4

\* The keys the service knows are those of its sealers.
LEMMA KnownKeys ==
    ASSUME TypeOK
    PROVE  /\ KeyOf("primary") \in Promise!Known
           /\ fleet => KeyOf("legacy") \in Promise!Known
           /\ \A k : k \in Promise!Known =>
                 k = KeyOf("primary") \/ (fleet /\ k = KeyOf("legacy"))
  BY DEF TypeOK, KeyOf, Promise!Primary, Promise!Known

\* A return with an allowed answer is a Reply.
LEMMA ReturnReplies ==
    ASSUME KmsInv, UNCHANGED fleet, NEW c \in Calls, NEW a, Return(c, a),
           pc[c] \notin {"idle", "done"},
           request[c] \in Promise!Requests => a \in Promise!Allowed(request[c])
    PROVE  Promise!Next
<1>1. TypeOK /\ CallShape(c)
  BY DEF KmsInv
<1>2. request[c] # Promise!NoRequest /\ answer[c] = "none"
  BY <1>1 DEF CallShape
<1>3. request[c] \in Promise!Requests
  BY <1>1, <1>2 DEF TypeOK
<1>4. Promise!Reply(c)
  BY <1>2, <1>3 DEF Return, Promise!Reply
<1> QED BY <1>4 DEF Promise!Next

\* Every answer the service gives is one its request allows.
LEMMA AnswersAllowed ==
    ASSUME KmsInv, UNCHANGED fleet, NEW c \in Calls,
           \/ Status(c) \/ Seal(c) \/ SealFails(c) \/ UnknownKeyId(c)
           \/ Malformed(c) \/ LoadFails(c) \/ UnsealFails(c) \/ Flush(c)
    PROVE  Promise!Next
<1>1. TypeOK /\ CallShape(c)
  BY DEF KmsInv
<1> DEFINE q == request[c]
<1>2. q \in Promise!Requests =>
         /\ q.op = "status" => "healthy" \in Promise!Allowed(q)
         /\ q.op = "encrypt" =>
               /\ "INTERNAL" \in Promise!Allowed(q)
               /\ q.fits => "ciphertext" \in Promise!Allowed(q)
         /\ q.op = "decrypt" /\ q.key_id \notin Promise!Known =>
               "INVALID_ARGUMENT" \in Promise!Allowed(q)
         /\ q.op = "decrypt" /\ q.key_id \in Promise!Known =>
               /\ "INTERNAL" \in Promise!Allowed(q)
               /\ q.wellFormed /\ q.under = q.key_id =>
                     "plaintext" \in Promise!Allowed(q)
  BY <1>1, AllowedFacts DEF TypeOK
<1> HIDE DEF q
<1>3. CASE Status(c)
  BY <1>2, <1>3, ReturnReplies DEF Status, q
<1>4. CASE Seal(c) \/ SealFails(c)
  BY <1>1, <1>2, <1>4, ReturnReplies DEF Seal, SealFails, CallShape, q
<1>5. CASE UnknownKeyId(c)
  <2>1. q.op = "decrypt" /\ q.key_id \notin Promise!Known
    BY <1>1, <1>5, KnownKeys DEF UnknownKeyId, CallShape, q
  <2> QED BY <1>2, <1>5, <2>1, ReturnReplies DEF UnknownKeyId, q
<1>6. CASE Malformed(c) \/ LoadFails(c) \/ UnsealFails(c) \/ Flush(c)
  <2>1. pc[c] \in Unsealing
    BY <1>6 DEF Malformed, LoadFails, UnsealFails, Flush, Unsealing
  <2>2. /\ SealerOf(c) \in Sealers /\ owner[SealerOf(c)] = c
        /\ q.key_id = KeyOf(SealerOf(c))
    BY <2>1, SealerFacts DEF q
  <2>3. HolderFits(c, SealerOf(c))
    BY <2>2 DEF KmsInv
  <2>4. q.op = "decrypt" /\ q.key_id \in Promise!Known
    BY <1>1, <2>1, <2>2, <2>3, KnownKeys
       DEF CallShape, HolderFits, Sealers, q
  <2>5. CASE Malformed(c) \/ LoadFails(c) \/ UnsealFails(c)
    BY <1>2, <2>4, <2>5, ReturnReplies DEF Malformed, LoadFails, UnsealFails, q
  <2>6. CASE Flush(c)
    <3>1. q.wellFormed /\ q.under = q.key_id
      BY <1>1, <2>6 DEF Flush, CallShape, q
    <3> QED BY <1>2, <2>4, <2>6, <3>1, ReturnReplies DEF Flush, q
  <2> QED BY <1>6, <2>5, <2>6
<1> QED BY <1>3, <1>4, <1>5, <1>6

\* The service implements its promise: an arrival is an Ask, a return is a
\* Reply, and every other step stutters.
THEOREM KmsImplementsPromise == Spec => KeepsPromise
<1>1. Init => Promise!Init
  BY DEF Init
<1>2. ASSUME KmsInv, [Next]_vars
      PROVE  [Promise!Next]_<<fleet, request, answer>>
  <2>1. UNCHANGED fleet
    BY <1>2 DEF Next, vars
  <2>2. CASE UNCHANGED vars \/ FleetKeyEvicted \/ FleetKeyRestored
    BY <2>1, <2>2 DEF vars, FleetKeyEvicted, FleetKeyRestored
  <2>3. ASSUME NEW c \in Calls, Arrive(c) PROVE Promise!Next
    <3>1. request[c] = Promise!NoRequest
      BY <1>2, <2>3 DEF KmsInv, CallShape, Arrive
    <3>2. Promise!Ask(c)
      BY <2>1, <2>3, <3>1 DEF Arrive, Promise!Ask
    <3> QED BY <3>2 DEF Promise!Next
  <2>4. ASSUME NEW c \in Calls,
               \/ EncryptLock(c) \/ DecryptPrimary(c) \/ DecryptLegacy(c)
               \/ NotPrimary(c) \/ Decoded(c) \/ Load(c) \/ Unseal(c)
        PROVE  UNCHANGED <<fleet, request, answer>>
    BY <2>1, <2>4 DEF EncryptLock, DecryptPrimary, DecryptLegacy, NotPrimary,
                      Decoded, Load, Unseal
  <2>5. ASSUME NEW c \in Calls,
               \/ Status(c) \/ Seal(c) \/ SealFails(c) \/ UnknownKeyId(c)
               \/ Malformed(c) \/ LoadFails(c) \/ UnsealFails(c) \/ Flush(c)
        PROVE  Promise!Next
    BY <1>2, <2>1, <2>5, AnswersAllowed
  <2> QED BY <1>2, <2>2, <2>3, <2>4, <2>5 DEF Next, Handler
<1> QED
  BY <1>1, <1>2, KmsInvariant, PTL DEF Spec, KeepsPromise, Promise!Spec
=============================================================================
