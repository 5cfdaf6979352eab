------------------------------ MODULE FleetKey ------------------------------
(***************************************************************************)
(* The fleet sealing key across a cluster: `sceau genesis [--force]`,      *)
(* `sceau join`, the seed's side of a join, and `sceau serve` choosing its *)
(* sealing key (src/src/fleet.rs, join.rs, main.rs, with the sealer of     *)
(* tpm.rs and the key selection of kms.rs).                                *)
(*                                                                         *)
(* Every node has a TPM with one persistent handle for the fleet key.  The *)
(* commands are separate operating-system processes that share nothing but *)
(* the TPMs, so their TPM commands interleave; a step here is one TPM      *)
(* command that reads or writes the handle, or one message.  A command may *)
(* die or return an error between any two steps.                           *)
(***************************************************************************)
EXTENDS Integers, FiniteSets

CONSTANTS
    Nodes,       \* cluster nodes, each with its own TPM
    Procs,       \* one-shot commands that may run at the same time
    Founders,    \* nodes on which the operator runs genesis
    Faults,      \* whether looking up an occupied handle can fail
    ForceLegacy, \* whether serve is ever started with --force-legacy
    NoKey,       \* an empty persistent handle
    NoNode       \* the node of an idle command slot

ASSUME FleetAssumption ==
    /\ Founders \subseteq Nodes
    /\ IsFiniteSet(Founders)
    /\ Faults \in BOOLEAN
    /\ ForceLegacy \in BOOLEAN
    /\ NoNode \notin Nodes
    /\ NoKey \notin [tpm : Nodes, template : {"srk", "storage", "nopolicy"}]

VARIABLES
    slot,        \* slot[n]: the key at n's persistent handle, or NoKey
    cmd,         \* cmd[p]: the one-shot command that p runs
    enrolling,   \* enrolling[n]: the key the running enroll resolved, or NoKey
    serve,       \* serve[n]: the sealers of the running serve, or Down
    store        \* keys under which some ciphertext in etcd is sealed

vars == <<slot, cmd, enrolling, serve, store>>

-----------------------------------------------------------------------------
(* Keys.  "srk" is the per-node template of tpm.rs, "storage" the duplicable *)
(* one of fleet.rs, "nopolicy" the duplicable one of releases before the     *)
(* authPolicy fix.                                                           *)

Keys == [tpm : Nodes, template : {"srk", "storage", "nopolicy"}]

(***************************************************************************)
(* TPM2_CreatePrimary derives a primary from the hierarchy's seed and the  *)
(* template, and nothing else: create_fleet_key passes no sensitive data   *)
(* and a constant template, so one TPM always makes the same fleet key     *)
(* (until its owner seed is cleared).  fleet.rs:50-52 and 251-252 call the *)
(* key "randomly generated", and 266-268, cli.rs:78-79 and                 *)
(* ADR-0003:115-118 say that --force orphans every other node's copy.      *)
(* ForceOrphansNobody below is what the code does instead.                 *)
(***************************************************************************)
CreatePrimary(n, template) == [tpm |-> n, template |-> template]

Srk(n) == CreatePrimary(n, "srk")

\* fleet::create_fleet_key and fleet::create_transport_key use one template.
DuplicableKey(n) == CreatePrimary(n, "storage")

Down == [up |-> FALSE]

Idle == [op |-> "none", node |-> NoNode, seed |-> NoNode, pc |-> "none",
         seen |-> NoKey, pub |-> NoKey, key |-> NoKey]

-----------------------------------------------------------------------------
(* A node may hold a fleet key of an earlier release; its TPM made it. *)

Init ==
    /\ slot \in {s \in [Nodes -> Keys \cup {NoKey}] :
                    \A n \in Nodes :
                       \/ s[n] = NoKey
                       \/ n \in Founders /\ s[n] = CreatePrimary(n, "nopolicy")}
    /\ cmd = [p \in Procs |-> Idle]
    /\ enrolling = [n \in Nodes |-> NoKey]
    /\ serve = [n \in Nodes |-> Down]
    /\ store = {}

-----------------------------------------------------------------------------
(* The persistent handle *)

\* load_fleet_key finds the key; callers take any error for "no key".
Found(n) == slot[n] # NoKey
Missed(n) == slot[n] = NoKey \/ Faults

Update(p, c) == cmd' = [cmd EXCEPT ![p] = c]

At(p, pc) == cmd[p].pc = pc

\* load_fleet_key in create_fleet_key (not forced): an existing key is kept.
GenesisFindsKey(p) ==
    /\ At(p, "probe")
    /\ cmd[p].op = "genesis"
    /\ Found(cmd[p].node)
    /\ Update(p, Idle)
    /\ UNCHANGED <<slot, enrolling, serve, store>>

\* load_fleet_key in delete_persisted_fleet_key: the key is to be evicted.
FindsKeyToEvict(p) ==
    /\ At(p, "probe")
    /\ cmd[p].op \in {"force", "join"}
    /\ Found(cmd[p].node)
    /\ Update(p, [cmd[p] EXCEPT !.pc = "evict", !.seen = slot[cmd[p].node]])
    /\ UNCHANGED <<slot, enrolling, serve, store>>

\* No key, or an error taken for none: on to the next step.
FindsNoKey(p) ==
    /\ At(p, "probe")
    /\ Missed(cmd[p].node)
    /\ Update(p, [cmd[p] EXCEPT
                    !.pc = IF cmd[p].op = "join" THEN "persist" ELSE "create"])
    /\ UNCHANGED <<slot, enrolling, serve, store>>

\* TPM2_EvictControl on the resolved object; fails if that object is gone.
Evict(p) ==
    LET n == cmd[p].node IN
    /\ At(p, "evict")
    /\ slot[n] = cmd[p].seen
    /\ slot' = [slot EXCEPT ![n] = NoKey]
    /\ Update(p, [cmd[p] EXCEPT
                    !.pc = IF cmd[p].op = "join" THEN "persist" ELSE "create"])
    /\ UNCHANGED <<enrolling, serve, store>>

\* Variant of Persist: EvictControl on an occupied handle replaces the key.
PersistOver(p) ==
    /\ At(p, "persist")
    /\ slot' = [slot EXCEPT ![cmd[p].node] = cmd[p].key]
    /\ Update(p, Idle)
    /\ UNCHANGED <<enrolling, serve, store>>

\* persist: an occupied handle refuses (TPM_RC_NV_DEFINED), see Fails.
Persist(p) ==
    /\ At(p, "persist")
    /\ slot[cmd[p].node] = NoKey
    /\ slot' = [slot EXCEPT ![cmd[p].node] = cmd[p].key]
    /\ Update(p, Idle)
    /\ UNCHANGED <<enrolling, serve, store>>

\* The command returns an error (a TPM command failed, the seed refused, the
\* response was lost or did not parse) or its process dies.  Its transient
\* objects go with its TPM connection.
Fails(p) ==
    /\ cmd[p].op # "none"
    /\ Update(p, Idle)
    /\ UNCHANGED <<slot, enrolling, serve, store>>

-----------------------------------------------------------------------------
(* sceau genesis [--force] *)

StartGenesis(p, n) ==
    /\ cmd[p] = Idle
    /\ \E op \in {"genesis", "force"} :
          Update(p, [Idle EXCEPT !.op = op, !.node = n, !.pc = "probe"])
    /\ UNCHANGED <<slot, enrolling, serve, store>>

\* Variant of CreateFleetKey: --force still has the earlier releases' template.
CreateByAge(p) ==
    /\ At(p, "create")
    /\ Update(p, [cmd[p] EXCEPT !.pc = "persist",
                     !.key = IF cmd[p].op = "force"
                               THEN CreatePrimary(cmd[p].node, "nopolicy")
                               ELSE DuplicableKey(cmd[p].node)])
    /\ UNCHANGED <<slot, enrolling, serve, store>>

CreateFleetKey(p) ==
    /\ At(p, "create")
    /\ Update(p, [cmd[p] EXCEPT !.pc = "persist",
                                !.key = DuplicableKey(cmd[p].node)])
    /\ UNCHANGED <<slot, enrolling, serve, store>>

-----------------------------------------------------------------------------
(* sceau enroll (Enroll.tla has the window; here its handle) and sceau join *)

\* run_enroll resolves the fleet key once, at start.
StartEnroll(n) ==
    /\ enrolling[n] = NoKey
    /\ Found(n)
    /\ enrolling' = [enrolling EXCEPT ![n] = slot[n]]
    /\ UNCHANGED <<slot, cmd, serve, store>>

StopEnroll(n) ==
    /\ enrolling[n] # NoKey
    /\ enrolling' = [enrolling EXCEPT ![n] = NoKey]
    /\ UNCHANGED <<slot, cmd, serve, store>>

\* run_join: the transport key is created and the seed dialled.
StartJoin(p, n, s) ==
    /\ cmd[p] = Idle
    /\ enrolling[s] # NoKey
    /\ Update(p, [Idle EXCEPT !.op = "join", !.node = n, !.seed = s,
                              !.pc = "read"])
    /\ UNCHANGED <<slot, enrolling, serve, store>>

\* duplicate_for_joiner: read_public through the handle resolved at start.
SeedReadsPublic(p) ==
    LET s == cmd[p].seed IN
    /\ At(p, "read")
    /\ enrolling[s] # NoKey
    /\ slot[s] = enrolling[s]
    /\ Update(p, [cmd[p] EXCEPT !.pc = "duplicate", !.pub = slot[s]])
    /\ UNCHANGED <<slot, enrolling, serve, store>>

\* duplicate_for_joiner: TPM2_Duplicate of what is at the handle by now; only
\* a key with the authPolicy can be duplicated.  The response reaches p.
SeedDuplicates(p) ==
    LET s == cmd[p].seed IN
    /\ At(p, "duplicate")
    /\ enrolling[s] # NoKey
    /\ slot[s] # NoKey
    /\ slot[s].template = "storage"
    /\ Update(p, [cmd[p] EXCEPT !.pc = "import", !.key = slot[s]])
    /\ UNCHANGED <<slot, enrolling, serve, store>>

\* Variant of Import that goes on with the handle of the transport key.
ImportKeepsTransport(p) ==
    /\ At(p, "import")
    /\ cmd[p].pub = cmd[p].key
    /\ Update(p, [cmd[p] EXCEPT !.pc = "probe", !.pub = NoKey,
                                !.key = DuplicableKey(cmd[p].node)])
    /\ UNCHANGED <<slot, enrolling, serve, store>>

\* import_and_persist: Import and Load; the TPM refuses a private area that
\* does not belong to the public one.
Import(p) ==
    /\ At(p, "import")
    /\ cmd[p].pub = cmd[p].key
    /\ Update(p, [cmd[p] EXCEPT !.pc = "probe", !.pub = NoKey])
    /\ UNCHANGED <<slot, enrolling, serve, store>>

-----------------------------------------------------------------------------
(* sceau serve *)

\* Variant of BuildSealer without the Decrypt fallback.
BuildSealerAlone(n, sealers) ==
    \/ Found(n) /\ sealers = [up |-> TRUE, primary |-> slot[n], legacy |-> FALSE]
    \/ Missed(n) /\ sealers = [up |-> TRUE, primary |-> Srk(n), legacy |-> FALSE]

\* build_sealer: the fleet key with the SRK as Decrypt fallback, or the SRK.
BuildSealer(n, sealers) ==
    \/ Found(n) /\ sealers = [up |-> TRUE, primary |-> slot[n], legacy |-> TRUE]
    \/ Missed(n) /\ sealers = [up |-> TRUE, primary |-> Srk(n), legacy |-> FALSE]

Sealers == [up : {TRUE}, primary : Keys, legacy : BOOLEAN]

\* Variant of StartServe that trusts the handle without probing it.
StartServeUnprobed(n) ==
    /\ serve[n] = Down
    /\ serve' = [serve EXCEPT ![n] =
                   [up |-> TRUE, primary |-> slot[n], legacy |-> TRUE]]
    /\ UNCHANGED <<slot, cmd, enrolling, store>>

\* load_fleet_key and from_primary's read_public are one step: if the handle's
\* key is replaced between them read_public fails (the object's name no longer
\* matches) and serve does not start; otherwise both see the same key.
StartServe(n) ==
    /\ serve[n] = Down
    /\ \E sealers \in Sealers :
          /\ BuildSealer(n, sealers)
          /\ serve' = [serve EXCEPT ![n] = sealers]
    /\ UNCHANGED <<slot, cmd, enrolling, store>>

\* --force-legacy skips the probe.
StartLegacyServe(n) ==
    /\ ForceLegacy
    /\ serve[n] = Down
    /\ serve' = [serve EXCEPT ![n] =
                   [up |-> TRUE, primary |-> Srk(n), legacy |-> FALSE]]
    /\ UNCHANGED <<slot, cmd, enrolling, store>>

StopServe(n) ==
    /\ serve[n].up
    /\ serve' = [serve EXCEPT ![n] = Down]
    /\ UNCHANGED <<slot, cmd, enrolling, store>>

\* A TPM command through the sealer's primary succeeds: the SRK is a transient
\* object of the process, the fleet key must still be at its handle (the
\* command's HMAC covers the object's name).
Usable(n, k) == k = Srk(n) \/ slot[n] = k

\* KmsService::encrypt: only ever under the primary.
Encrypt(n) ==
    /\ serve[n].up
    /\ Usable(n, serve[n].primary)
    /\ store' = store \cup {serve[n].primary}
    /\ UNCHANGED <<slot, cmd, enrolling, serve>>

\* Variant of CanDecrypt: a service with a legacy sealer asks only that one.
CanDecryptLegacyOnly(n, k) ==
    /\ serve[n].up
    /\ IF serve[n].legacy
         THEN k = Srk(n)
         ELSE k = serve[n].primary /\ Usable(n, k)

\* KmsService::decrypt of a ciphertext sealed under k, which carries k's id,
\* returns the plaintext; it changes no state.
CanDecrypt(n, k) ==
    /\ serve[n].up
    /\ IF k = serve[n].primary
         THEN Usable(n, k)
         ELSE serve[n].legacy /\ k = Srk(n)

\* run_status: the key that serve would pick.
ReportedKey(n) == IF Found(n) THEN slot[n] ELSE Srk(n)

-----------------------------------------------------------------------------

Command(p) ==
    \/ GenesisFindsKey(p) \/ FindsKeyToEvict(p) \/ FindsNoKey(p)
    \/ Evict(p) \/ Persist(p) \/ Fails(p)
    \/ CreateFleetKey(p)
    \/ SeedReadsPublic(p) \/ SeedDuplicates(p) \/ Import(p)
    \/ \E n \in Founders : StartGenesis(p, n)
    \/ \E n, s \in Nodes : StartJoin(p, n, s)

Next ==
    \/ \E p \in Procs : Command(p)
    \/ \E n \in Nodes :
          \/ StartEnroll(n) \/ StopEnroll(n)
          \/ StartServe(n) \/ StartLegacyServe(n) \/ StopServe(n)
          \/ Encrypt(n)

Spec == Init /\ [][Next]_vars

-----------------------------------------------------------------------------
(* Properties *)

MaybeKeys == Keys \cup {NoKey}

Commands ==
    [op : {"none", "genesis", "force", "join"}, node : Nodes \cup {NoNode},
     seed : Nodes \cup {NoNode},
     pc : {"none", "probe", "evict", "create", "persist",
           "read", "duplicate", "import"},
     seen : MaybeKeys, pub : MaybeKeys, key : MaybeKeys]

\* Every variable has its type.
TypeOK ==
    /\ slot \in [Nodes -> MaybeKeys]
    /\ cmd \in [Procs -> Commands]
    /\ enrolling \in [Nodes -> MaybeKeys]
    /\ serve \in [Nodes -> Sealers \cup {Down}]
    /\ store \in SUBSET Keys

(***************************************************************************)
(* Whatever the order of genesis, forced genesis and joins, through        *)
(* whichever seeds, with seeds whose key is replaced between read_public   *)
(* and TPM2_Duplicate, and however often commands die half way: a fleet    *)
(* key at any handle was made by a founder's TPM, and with one founder all *)
(* duplicable fleet keys in the cluster are one and the same (fleet.rs,    *)
(* import_and_persist and create_fleet_key).  Forced genesis included: see *)
(* CreatePrimary for where comments and documents say otherwise.           *)
(***************************************************************************)
FleetKeyShared ==
    /\ \A n \in Nodes : Found(n) => slot[n].tpm \in Founders
    /\ \A f \in Nodes : Founders = {f} =>
          \A n \in Nodes :
             Found(n) => \/ slot[n] = DuplicableKey(f)
                         \/ n = f /\ slot[n].template = "nopolicy"

(***************************************************************************)
(* The opposite of fleet.rs:266-268, "forcing a fresh key on an            *)
(* already-enrolled multi-node fleet orphans every other node's copy": the *)
(* key a forced genesis is about to persist is the very key of which other *)
(* nodes hold copies made by that TPM, whatever joins and evictions ran    *)
(* in between, and also when the key it evicted was an earlier release's.  *)
(***************************************************************************)
ForceOrphansNobody ==
    \A p \in Procs : (cmd[p].op = "force" /\ At(p, "persist")) =>
        \A n \in Nodes \ {cmd[p].node} :
           (Found(n) /\ slot[n].tpm = cmd[p].node) => slot[n] = cmd[p].key

(***************************************************************************)
(* "sceau must never silently replace the fleet's shared sealing key"      *)
(* (fleet.rs:259): a key leaves a handle only by an eviction of a forced   *)
(* genesis, or of a join that already holds a key it imported, even when   *)
(* a lookup wrongly reported no key and other commands ran in between.     *)
(***************************************************************************)
NeverSilentlyReplaced ==
    [][\A n \in Nodes :
          (Found(n) /\ slot'[n] # slot[n]) =>
             /\ slot'[n] = NoKey
             /\ \E p \in Procs :
                   /\ cmd[p].node = n
                   /\ \/ cmd[p].op = "force"
                      \/ cmd[p].op = "join" /\ cmd[p].key # NoKey]_vars

(***************************************************************************)
(* ADR-0003 Decision 5: ciphertext a node sealed under its own SRK before  *)
(* it joined a fleet stays readable on it, whichever key the running serve *)
(* picked, even while the fleet key is being evicted and replaced.         *)
(***************************************************************************)
LegacyReadable ==
    \A n \in Nodes : serve[n].up => CanDecrypt(n, Srk(n))

(***************************************************************************)
(* With one founder, whatever was sealed under a duplicable fleet key, on  *)
(* any node, is readable by every serve that started with such a key and   *)
(* whose handle still holds a key: the purpose of ADR-0003.  That this     *)
(* survives a forced genesis is the subject of ForceOrphansNobody.         *)
(***************************************************************************)
CrossNodeDecrypt ==
    Cardinality(Founders) = 1 =>
        \A k \in store, n \in Nodes :
           ( /\ k.template = "storage"
             /\ serve[n].up
             /\ serve[n].primary.template = "storage"
             /\ Found(n)
             /\ slot[n].template = "storage" ) => CanDecrypt(n, k)

-----------------------------------------------------------------------------
(* What documents and comments say, refuted by the runs named after them. *)

(***************************************************************************)
(* docs/migration-ha-existing-cluster.md:120-134 and 243-244: once every   *)
(* node's `sceau status` reports the same fleet key, "Phase A already      *)
(* guaranteed every node can decrypt anything sealed by any other".        *)
(***************************************************************************)
PhaseAGuarantee ==
    ( /\ \A n \in Nodes : serve[n].up /\ Found(n)
      /\ \A m, n \in Nodes : ReportedKey(m) = ReportedKey(n) ) =>
          \A m, n \in Nodes : CanDecrypt(n, serve[m].primary)
=============================================================================
