-------------------------------- MODULE Kms ---------------------------------
(***************************************************************************)
(* The KMS v2 service of `sceau serve` (src/src/kms.rs) with the TPM       *)
(* sealers it drives (src/src/tpm.rs).                                     *)
(*                                                                         *)
(* Calls run concurrently on the tokio runtime.  Each sealer sits behind   *)
(* its own mutex and has its own TPM connection, which holds a bounded     *)
(* number of transient objects.  A step ends where another call can see    *)
(* the difference: taking or releasing a mutex, or one TPM command.        *)
(***************************************************************************)
EXTENDS Integers, FiniteSets

CONSTANTS
    Calls,       \* gRPC calls of the apiserver
    Slots,       \* transient objects one TPM connection can hold
    NoCall       \* owner of a free mutex

ASSUME KmsAssumption ==
    /\ IsFiniteSet(Calls)
    /\ Slots \in Nat /\ Slots >= 2
    /\ NoCall \notin Calls

VARIABLES
    fleet,       \* serve found the fleet key: SRK sealer as Decrypt fallback
    request,     \* request[c]: what the apiserver asked
    answer,      \* answer[c]: what it was told
    pc,          \* where the handler of c is
    owner,       \* owner[s]: the call that holds the mutex of sealer s
    loaded,      \* loaded[s]: calls whose sealed object is loaded through s
    present,     \* whether the fleet key is still at its persistent handle
    faulted      \* history: calls whose unseal or flush failed

vars == <<fleet, request, answer, pc, owner, loaded, present, faulted>>
tpm == <<loaded, present, faulted>>

Promise == INSTANCE KmsAbstract WITH
    Calls <- Calls, fleet <- fleet, request <- request, answer <- answer

-----------------------------------------------------------------------------
(* The two sealers *)

Sealers == {"primary", "legacy"}

KeyOf(s) == IF s = "primary" THEN Promise!Primary ELSE "srk"

\* The SRK is a transient object of the sealer's own connection, the fleet key
\* a persistent one.
Capacity(s) == IF KeyOf(s) = "srk" THEN Slots - 1 ELSE Slots

\* A TPM command under the sealer's key finds that key.
Usable(s) == KeyOf(s) = "srk" \/ present

Places == {"idle", "arrived", "sealing", "fallback", "decoding", "loading",
           "unsealing", "flushing", "done"}

SealerOf(c) == CHOOSE s \in Sealers : owner[s] = c

Init ==
    /\ Promise!Init
    /\ pc = [c \in Calls |-> "idle"]
    /\ owner = [s \in Sealers |-> NoCall]
    /\ loaded = [s \in Sealers |-> {}]
    /\ present = TRUE
    /\ faulted = {}

Goto(c, place) == pc' = [pc EXCEPT ![c] = place]

Acquire(c, s, place) ==
    /\ owner[s] = NoCall
    /\ owner' = [owner EXCEPT ![s] = c]
    /\ Goto(c, place)

\* Variant of Return that leaks the mutex guard.
ReturnHoldingGuard(c, a) ==
    /\ answer' = [answer EXCEPT ![c] = a]
    /\ Goto(c, "done")
    /\ UNCHANGED <<owner, request>>

\* The handler returns a; a mutex guard it holds is dropped.
Return(c, a) ==
    /\ answer' = [answer EXCEPT ![c] = a]
    /\ Goto(c, "done")
    /\ owner' = [s \in Sealers |-> IF owner[s] = c THEN NoCall ELSE owner[s]]
    /\ UNCHANGED request

-----------------------------------------------------------------------------
(* The apiserver calls; another process replaces or removes the fleet key *)

Arrive(c) ==
    /\ pc[c] = "idle"
    /\ \E q \in Promise!Requests : request' = [request EXCEPT ![c] = q]
    /\ Goto(c, "arrived")
    /\ UNCHANGED <<answer, owner, tpm>>

FleetKeyEvicted ==
    /\ present
    /\ present' = FALSE
    /\ UNCHANGED <<request, answer, pc, owner, loaded, faulted>>

\* The key persisted next has the same name: a repeated join, or genesis
\* --force on the TPM that made the key.
FleetKeyRestored ==
    /\ ~present
    /\ present' = TRUE
    /\ UNCHANGED <<request, answer, pc, owner, loaded, faulted>>

-----------------------------------------------------------------------------
(* KmsService::status and ::encrypt *)

\* status waits for the primary mutex to read the key id; healthz is "ok".
Status(c) ==
    /\ pc[c] = "arrived" /\ request[c].op = "status"
    /\ owner["primary"] = NoCall
    /\ Return(c, "healthy")
    /\ UNCHANGED tpm

\* Variant of EncryptLock that seals under whichever sealer is free.
EncryptAnywhere(c) ==
    /\ pc[c] = "arrived" /\ request[c].op = "encrypt"
    /\ \E s \in Sealers : Acquire(c, s, "sealing")
    /\ UNCHANGED <<request, answer, tpm>>

EncryptLock(c) ==
    /\ pc[c] = "arrived" /\ request[c].op = "encrypt"
    /\ Acquire(c, "primary", "sealing")
    /\ UNCHANGED <<request, answer, tpm>>

\* Variant of Seal without the size check.
SealAnything(c) ==
    /\ pc[c] = "sealing"
    /\ Usable("primary")
    /\ Return(c, "ciphertext")
    /\ UNCHANGED tpm

\* TpmSealer::seal: TPM2_Create leaves no object behind.
Seal(c) ==
    /\ pc[c] = "sealing"
    /\ request[c].fits
    /\ Usable("primary")
    /\ Return(c, "ciphertext")
    /\ UNCHANGED tpm

\* Variant of SealFails with another gRPC status.
SealUnavailable(c) ==
    /\ pc[c] = "sealing"
    /\ Return(c, "UNAVAILABLE")
    /\ UNCHANGED tpm

\* Too large, or TPM2_Create failed.
SealFails(c) ==
    /\ pc[c] = "sealing"
    /\ Return(c, "INTERNAL")
    /\ UNCHANGED tpm

-----------------------------------------------------------------------------
(* KmsService::decrypt: which sealer *)

\* The primary sealer has the request's key id.
DecryptPrimary(c) ==
    /\ pc[c] = "arrived" /\ request[c].op = "decrypt"
    /\ request[c].key_id = KeyOf("primary")
    /\ Acquire(c, "primary", "decoding")
    /\ UNCHANGED <<request, answer, tpm>>

\* It has not: the mutex is released before the fallback is tried.
NotPrimary(c) ==
    /\ pc[c] = "arrived" /\ request[c].op = "decrypt"
    /\ owner["primary"] = NoCall
    /\ request[c].key_id # KeyOf("primary")
    /\ Goto(c, "fallback")
    /\ UNCHANGED <<request, answer, owner, tpm>>

DecryptLegacy(c) ==
    /\ pc[c] = "fallback"
    /\ fleet
    /\ request[c].key_id = KeyOf("legacy")
    /\ Acquire(c, "legacy", "decoding")
    /\ UNCHANGED <<request, answer, tpm>>

\* Neither key id matches.
UnknownKeyId(c) ==
    /\ pc[c] = "fallback"
    /\ fleet => owner["legacy"] = NoCall /\ request[c].key_id # KeyOf("legacy")
    /\ Return(c, "INVALID_ARGUMENT")
    /\ UNCHANGED tpm

-----------------------------------------------------------------------------
(* TpmSealer::unseal, under the sealer's mutex *)

\* envelope_decode.
Malformed(c) ==
    /\ pc[c] = "decoding"
    /\ ~request[c].wellFormed
    /\ Return(c, "INTERNAL")
    /\ UNCHANGED tpm

Decoded(c) ==
    /\ pc[c] = "decoding"
    /\ request[c].wellFormed
    /\ Goto(c, "loading")
    /\ UNCHANGED <<request, answer, owner, tpm>>

\* TPM2_Load verifies that the object was created under this very key.
Load(c) ==
    LET s == SealerOf(c) IN
    /\ pc[c] = "loading"
    /\ request[c].under = KeyOf(s)
    /\ Usable(s)
    /\ Cardinality(loaded[s]) < Capacity(s)
    /\ loaded' = [loaded EXCEPT ![s] = @ \cup {c}]
    /\ Goto(c, "unsealing")
    /\ UNCHANGED <<request, answer, owner, present, faulted>>

LoadFails(c) ==
    /\ pc[c] = "loading"
    /\ Return(c, "INTERNAL")
    /\ UNCHANGED tpm

Unseal(c) ==
    /\ pc[c] = "unsealing"
    /\ Goto(c, "flushing")
    /\ UNCHANGED <<request, answer, owner, tpm>>

\* `?` on TPM2_Unseal, or on TPM2_FlushContext, leaves the object loaded.
UnsealFails(c) ==
    /\ pc[c] \in {"unsealing", "flushing"}
    /\ faulted' = faulted \cup {c}
    /\ Return(c, "INTERNAL")
    /\ UNCHANGED <<loaded, present>>

\* Variant of Flush that forgets the flush.
FlushNothing(c) ==
    /\ pc[c] = "flushing"
    /\ Return(c, "plaintext")
    /\ UNCHANGED tpm

Flush(c) ==
    /\ pc[c] = "flushing"
    /\ loaded' = [loaded EXCEPT ![SealerOf(c)] = @ \ {c}]
    /\ Return(c, "plaintext")
    /\ UNCHANGED <<present, faulted>>

-----------------------------------------------------------------------------

Handler(c) ==
    \/ Status(c)
    \/ EncryptLock(c) \/ Seal(c) \/ SealFails(c)
    \/ DecryptPrimary(c) \/ NotPrimary(c) \/ DecryptLegacy(c) \/ UnknownKeyId(c)
    \/ Malformed(c) \/ Decoded(c) \/ Load(c) \/ LoadFails(c)
    \/ Unseal(c) \/ UnsealFails(c) \/ Flush(c)

\* The key was chosen when serve started.
Next ==
    /\ \/ \E c \in Calls : Arrive(c) \/ Handler(c)
       \/ FleetKeyEvicted \/ FleetKeyRestored
    /\ UNCHANGED fleet

Spec == Init /\ [][Next]_vars

\* The runtime polls every handler; a TPM command returns, with or without an
\* error; a mutex that stays free is taken.
Fairness == \A c \in Calls : WF_vars(Handler(c) /\ UNCHANGED fleet)

-----------------------------------------------------------------------------
(* Properties *)

\* Every variable has its type.
TypeOK ==
    /\ fleet \in BOOLEAN
    /\ request \in [Calls -> Promise!Requests \cup {Promise!NoRequest}]
    /\ answer \in [Calls -> {"none", "healthy", "ciphertext", "plaintext",
                             "INTERNAL", "INVALID_ARGUMENT"}]
    /\ pc \in [Calls -> Places]
    /\ owner \in [Sealers -> Calls \cup {NoCall}]
    /\ loaded \in [Sealers -> SUBSET Calls]
    /\ present \in BOOLEAN
    /\ faulted \in SUBSET Calls

(***************************************************************************)
(* The service keeps the promise of KmsAbstract: with calls interleaved    *)
(* between the two mutexes, leaked handles and a fleet key that vanishes,  *)
(* plaintext is only returned for an envelope sealed under the key the     *)
(* request names, an unknown key id is the only INVALID_ARGUMENT (also     *)
(* where api.md:76 promises it for a malformed envelope, see Allowed), and *)
(* a call that was answered stays answered.                                *)
(***************************************************************************)
KeepsPromise == Promise!Spec

(***************************************************************************)
(* A transient object outlives its call only if TPM2_Unseal or the flush   *)
(* failed in that very call, and a sealer's connection never holds more    *)
(* objects than the TPM allows, its own primary included.                  *)
(***************************************************************************)
HandlesAccounted ==
    \A s \in Sealers :
       /\ loaded[s] \subseteq faulted \cup {owner[s]}
       /\ Cardinality(loaded[s]) =< Capacity(s)

(***************************************************************************)
(* Calls never hold both mutexes, and the legacy sealer is held only for a *)
(* Decrypt that names its key: Encrypt never reaches it.                   *)
(***************************************************************************)
LegacyOnlyDecrypts ==
    /\ owner["primary"] # NoCall => owner["primary"] # owner["legacy"]
    /\ owner["legacy"] \in Calls =>
          /\ fleet
          /\ request[owner["legacy"]].op = "decrypt"
          /\ request[owner["legacy"]].key_id = "srk"

(***************************************************************************)
(* Every call is answered: no order of the two mutexes blocks a call for   *)
(* good, and leaked handles turn into errors, never into waiting.          *)
(***************************************************************************)
EveryCallAnswered ==
    \A c \in Calls : pc[c] = "arrived" ~> answer[c] # "none"
=============================================================================
