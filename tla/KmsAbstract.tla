---------------------------- MODULE KmsAbstract -----------------------------
(***************************************************************************)
(* What the KMS v2 service promises kube-apiserver (src/src/kms.rs):       *)
(* every call is answered at most once, by one of the answers that its     *)
(* request allows, whatever other calls do meanwhile.                      *)
(***************************************************************************)
CONSTANT Calls   \* gRPC calls of the apiserver

VARIABLES
    fleet,       \* whether the service was built with_legacy_fallback
    request,     \* request[c]: what was asked, NoRequest before the call
    answer       \* answer[c]: the answer, "none" before it

(***************************************************************************)
(* Key ids: the fleet key's, the node's own SRK's, and any other.          *)
(***************************************************************************)
KeyIds == {"fleet", "srk", "other"}
Primary == IF fleet THEN "fleet" ELSE "srk"
Known == IF fleet THEN {"fleet", "srk"} ELSE {"srk"}

(***************************************************************************)
(* A Decrypt carries a key id and an envelope; the sealed object in a well *)
(* formed envelope was created under some key.                             *)
(***************************************************************************)
Requests ==
    [op : {"status"}] \cup
    [op : {"encrypt"}, fits : BOOLEAN] \cup
    [op : {"decrypt"}, key_id : KeyIds, under : KeyIds, wellFormed : BOOLEAN]

NoRequest == [op |-> "none"]

(***************************************************************************)
(* Any call that touches the TPM may fail with INTERNAL.  So does an       *)
(* envelope that envelope_decode rejects: decrypt maps every error of      *)
(* unseal to INTERNAL (kms.rs:98-100, 109-111), where                      *)
(* docs/src/reference/api.md:76 lists a "malformed envelope (wrong version *)
(* byte, truncated, unmarshalling failure)" under INVALID_ARGUMENT.        *)
(***************************************************************************)
Allowed(q) ==
    CASE q.op = "status"  -> {"healthy"}
      [] q.op = "encrypt" -> {"INTERNAL"} \cup (IF q.fits THEN {"ciphertext"} ELSE {})
      [] q.op = "decrypt" ->
            IF q.key_id \notin Known
              THEN {"INVALID_ARGUMENT"}
              ELSE {"INTERNAL"} \cup
                   (IF q.wellFormed /\ q.under = q.key_id THEN {"plaintext"} ELSE {})

Init ==
    /\ fleet \in BOOLEAN
    /\ request = [c \in Calls |-> NoRequest]
    /\ answer = [c \in Calls |-> "none"]

Ask(c) ==
    /\ request[c] = NoRequest
    /\ \E q \in Requests : request' = [request EXCEPT ![c] = q]
    /\ UNCHANGED <<fleet, answer>>

Reply(c) ==
    /\ request[c] # NoRequest
    /\ answer[c] = "none"
    /\ \E a \in Allowed(request[c]) : answer' = [answer EXCEPT ![c] = a]
    /\ UNCHANGED <<fleet, request>>

Next == \E c \in Calls : Ask(c) \/ Reply(c)

Spec == Init /\ [][Next]_<<fleet, request, answer>>
=============================================================================
