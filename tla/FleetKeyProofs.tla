--------------------------- MODULE FleetKeyProofs ---------------------------
(***************************************************************************)
(* Proofs about FleetKey for every set of nodes, founders and concurrent   *)
(* commands, with and without failing lookups.                             *)
(***************************************************************************)
EXTENDS FleetKey, FiniteSetTheorems, TLAPS

-----------------------------------------------------------------------------
(* The inductive invariant *)

\* A command that is past its lookup runs on a node and, where it is about to
\* persist a key, has one in hand; only a genesis creates a key.
CommandShape ==
    \A p \in Procs :
       /\ cmd[p].op = "none" => cmd[p] = Idle
       /\ cmd[p].op # "none" => cmd[p].node \in Nodes
       /\ cmd[p].pc \in {"read", "duplicate", "import"} =>
             cmd[p].op = "join" /\ cmd[p].seed \in Nodes
       /\ cmd[p].pc \in {"duplicate", "import"} => cmd[p].pub # NoKey
       /\ cmd[p].pc \in {"import", "persist"} => cmd[p].key # NoKey
       /\ (cmd[p].op = "join" /\ cmd[p].pc \in {"probe", "evict"}) =>
             cmd[p].key # NoKey
       /\ cmd[p].pc = "create" => cmd[p].op \in {"genesis", "force"}
       /\ cmd[p].pc = "evict" => cmd[p].op \in {"force", "join"}

\* Genesis runs on founders only and makes a key of its own TPM, and a key in a
\* command's hand is a duplicable key of a founder's TPM.
CommandKeys ==
    \A p \in Procs :
       /\ cmd[p].op \in {"genesis", "force"} =>
             /\ cmd[p].node \in Founders
             /\ cmd[p].key # NoKey => cmd[p].key.tpm = cmd[p].node
       /\ cmd[p].key # NoKey =>
             cmd[p].key.template = "storage" /\ cmd[p].key.tpm \in Founders

\* A key at a handle is such a key too, or the one of an earlier release that
\* the node's own TPM made.
SlotKeys ==
    \A n \in Nodes : slot[n] # NoKey =>
       /\ slot[n].tpm \in Founders
       /\ \/ slot[n].template = "storage"
          \/ slot[n].template = "nopolicy" /\ slot[n].tpm = n

FleetInv == TypeOK /\ CommandShape /\ CommandKeys /\ SlotKeys

-----------------------------------------------------------------------------
(* Typing *)

LEMMA KeyFacts ==
    /\ NoKey \notin Keys
    /\ \A n \in Nodes : /\ Srk(n) \in Keys
                        /\ DuplicableKey(n) \in Keys
                        /\ DuplicableKey(n).template = "storage"
                        /\ DuplicableKey(n).tpm = n
  BY FleetAssumption DEF Keys, Srk, DuplicableKey, CreatePrimary

LEMMA IdleType == Idle \in Commands
  BY DEF Idle, Commands, MaybeKeys

\* Every step of a command, enroll or serve keeps the type invariant.
LEMMA TypeStep == FleetInv /\ [Next]_vars => TypeOK'
<1> SUFFICES ASSUME FleetInv, [Next]_vars PROVE TypeOK'
  OBVIOUS
<1>1. TypeOK /\ CommandShape
  BY DEF FleetInv
<1>2. ASSUME NEW p \in Procs, Command(p)
      PROVE  TypeOK'
  <2> cmd[p] \in Commands
    BY <1>1 DEF TypeOK
  <2>1. CASE GenesisFindsKey(p) \/ Fails(p)
    BY <1>1, <2>1, IdleType DEF GenesisFindsKey, Fails, Update, TypeOK
  <2>2. CASE FindsKeyToEvict(p)
    <3>1. slot[cmd[p].node] \in MaybeKeys
      BY <1>1, <2>2 DEF TypeOK, CommandShape, FindsKeyToEvict
    <3>2. [cmd[p] EXCEPT !.pc = "evict", !.seen = slot[cmd[p].node]] \in Commands
      BY <3>1 DEF Commands
    <3> QED BY <1>1, <2>2, <3>2 DEF FindsKeyToEvict, Update, TypeOK
  <2>3. CASE FindsNoKey(p)
    BY <1>1, <2>3 DEF FindsNoKey, Update, TypeOK, Commands
  <2>4. CASE Evict(p)
    BY <1>1, <2>4 DEF Evict, Update, TypeOK, Commands, MaybeKeys
  <2>5. CASE Persist(p)
    <3>1. cmd[p].key \in MaybeKeys
      BY DEF Commands
    <3> QED BY <1>1, <2>5, <3>1, IdleType DEF Persist, Update, TypeOK
  <2>6. CASE CreateFleetKey(p)
    <3>1. cmd[p].node \in Nodes
      BY <1>1, <2>6 DEF CommandShape, CreateFleetKey, At
    <3>2. DuplicableKey(cmd[p].node) \in MaybeKeys
      BY <3>1, KeyFacts DEF MaybeKeys
    <3>3. [cmd[p] EXCEPT !.pc = "persist", !.key = DuplicableKey(cmd[p].node)]
             \in Commands
      BY <3>2 DEF Commands
    <3> QED BY <1>1, <2>6, <3>3 DEF CreateFleetKey, Update, TypeOK
  <2>7. CASE SeedReadsPublic(p) \/ SeedDuplicates(p)
    <3>1. slot[cmd[p].seed] \in MaybeKeys
      BY <1>1, <2>7
         DEF TypeOK, CommandShape, SeedReadsPublic, SeedDuplicates, At
    <3>2. /\ [cmd[p] EXCEPT !.pc = "duplicate", !.pub = slot[cmd[p].seed]]
                \in Commands
          /\ [cmd[p] EXCEPT !.pc = "import", !.key = slot[cmd[p].seed]]
                \in Commands
      BY <3>1 DEF Commands
    <3> QED BY <1>1, <2>7, <3>2
            DEF SeedReadsPublic, SeedDuplicates, Update, TypeOK
  <2>8. CASE Import(p)
    BY <1>1, <2>8 DEF Import, Update, TypeOK, Commands, MaybeKeys
  <2>9. CASE \E n \in Founders : StartGenesis(p, n)
    <3>1. PICK n \in Nodes : StartGenesis(p, n)
      BY <2>9, FleetAssumption
    <3>2. \A op \in {"genesis", "force"} :
             [Idle EXCEPT !.op = op, !.node = n, !.pc = "probe"] \in Commands
      BY IdleType DEF Commands
    <3> QED BY <1>1, <3>1, <3>2 DEF StartGenesis, Update, TypeOK
  <2>10. CASE \E n, s \in Nodes : StartJoin(p, n, s)
    <3>1. PICK n, s \in Nodes : StartJoin(p, n, s)
      BY <2>10
    <3>2. [Idle EXCEPT !.op = "join", !.node = n, !.seed = s, !.pc = "read"]
             \in Commands
      BY IdleType DEF Commands
    <3> QED BY <1>1, <3>1, <3>2 DEF StartJoin, Update, TypeOK
  <2> QED BY <1>2, <2>1, <2>2, <2>3, <2>4, <2>5, <2>6, <2>7, <2>8, <2>9, <2>10
          DEF Command
<1>3. ASSUME NEW n \in Nodes, StartEnroll(n) \/ StopEnroll(n)
      PROVE  TypeOK'
  BY <1>1, <1>3 DEF StartEnroll, StopEnroll, TypeOK, MaybeKeys
<1>4. ASSUME NEW n \in Nodes, StartServe(n) \/ StopServe(n)
      PROVE  TypeOK'
  BY <1>1, <1>4 DEF StartServe, StopServe, TypeOK
<1>5. ASSUME NEW n \in Nodes, StartLegacyServe(n)
      PROVE  TypeOK'
  <2>1. [up |-> TRUE, primary |-> Srk(n), legacy |-> FALSE] \in Sealers
    BY KeyFacts DEF Sealers
  <2> QED BY <1>1, <1>5, <2>1 DEF StartLegacyServe, TypeOK
<1>6. ASSUME NEW n \in Nodes, Encrypt(n)
      PROVE  TypeOK'
  <2>1. serve[n].primary \in Keys
    <3>1. serve[n] \in Sealers \cup {Down} /\ serve[n].up
      BY <1>1, <1>6 DEF TypeOK, Encrypt
    <3>2. ~Down.up
      BY DEF Down
    <3>3. serve[n] \in Sealers
      BY <3>1, <3>2, Zenon
    <3> QED BY <3>3 DEF Sealers
  <2> QED BY <1>1, <1>6, <2>1 DEF Encrypt, TypeOK
<1>7. CASE UNCHANGED vars
  BY <1>1, <1>7 DEF vars, TypeOK
<1> QED BY <1>2, <1>3, <1>4, <1>5, <1>6, <1>7 DEF Next

-----------------------------------------------------------------------------
(* Where keys come from *)

\* The steps that leave every handle alone keep the handles' provenance.
LEMMA SlotStutter ==
    ASSUME SlotKeys, UNCHANGED slot
    PROVE  SlotKeys'
  BY DEF SlotKeys

\* A command that did not move keeps its shape and its keys.
LEMMA OthersKeep ==
    ASSUME TypeOK, CommandShape, CommandKeys, NEW p \in Procs, NEW c,
           Update(p, c),
           c.op = "none" => c = Idle,
           c.op # "none" => c.node \in Nodes,
           c.pc \in {"read", "duplicate", "import"} =>
               c.op = "join" /\ c.seed \in Nodes,
           c.pc \in {"duplicate", "import"} => c.pub # NoKey,
           c.pc \in {"import", "persist"} => c.key # NoKey,
           (c.op = "join" /\ c.pc \in {"probe", "evict"}) => c.key # NoKey,
           c.pc = "create" => c.op \in {"genesis", "force"},
           c.pc = "evict" => c.op \in {"force", "join"},
           c.op \in {"genesis", "force"} => c.node \in Founders,
           (c.op \in {"genesis", "force"} /\ c.key # NoKey) =>
               c.key.tpm = c.node,
           c.key # NoKey => c.key.template = "storage" /\ c.key.tpm \in Founders
    PROVE  CommandShape' /\ CommandKeys'
<1>1. cmd' = [cmd EXCEPT ![p] = c] /\ cmd \in [Procs -> Commands]
  BY DEF Update, TypeOK
<1>2. cmd'[p] = c /\ \A q \in Procs : q # p => cmd'[q] = cmd[q]
  BY <1>1
<1>3. CommandShape'
  BY <1>2 DEF CommandShape
<1>4. CommandKeys'
  BY <1>2 DEF CommandKeys
<1> QED BY <1>3, <1>4

\* Every step of a command keeps the provenance of keys.
LEMMA CommandStep ==
    ASSUME FleetInv, NEW p \in Procs, Command(p)
    PROVE  CommandShape' /\ CommandKeys' /\ SlotKeys'
<1>1. TypeOK /\ CommandShape /\ CommandKeys /\ SlotKeys
  BY DEF FleetInv
<1>2. cmd[p] \in Commands
  BY <1>1 DEF TypeOK
<1>3. /\ cmd[p].pc # "none" => cmd[p].op # "none"
      /\ cmd[p].op # "none" => cmd[p].node \in Nodes
  BY <1>1 DEF CommandShape, Idle
<1>4. CASE GenesisFindsKey(p) \/ Fails(p)
  <2>1. Update(p, Idle) /\ UNCHANGED slot
    BY <1>4 DEF GenesisFindsKey, Fails
  <2> QED BY <1>1, <2>1, OthersKeep, SlotStutter DEF Idle
<1>5. CASE FindsKeyToEvict(p)
  <2> DEFINE c == [cmd[p] EXCEPT !.pc = "evict", !.seen = slot[cmd[p].node]]
  <2>1. Update(p, c) /\ UNCHANGED slot /\ cmd[p].pc = "probe"
        /\ cmd[p].op \in {"force", "join"}
    BY <1>5 DEF FindsKeyToEvict, At
  <2>2. /\ c.pc = "evict" /\ c.op = cmd[p].op /\ c.node = cmd[p].node
        /\ c.key = cmd[p].key
    BY <1>2 DEF Commands
  <2> HIDE DEF c
  <2> QED BY <1>1, <1>3, <2>1, <2>2, OthersKeep, SlotStutter
          DEF CommandShape, CommandKeys
<1>6. CASE FindsNoKey(p)
  <2> DEFINE c == [cmd[p] EXCEPT
                     !.pc = IF cmd[p].op = "join" THEN "persist" ELSE "create"]
  <2>1. Update(p, c) /\ UNCHANGED slot /\ cmd[p].pc = "probe"
    BY <1>6 DEF FindsNoKey, At
  <2>2. /\ c.pc = IF cmd[p].op = "join" THEN "persist" ELSE "create"
        /\ c.op = cmd[p].op /\ c.node = cmd[p].node /\ c.key = cmd[p].key
        /\ cmd[p].op \in {"none", "genesis", "force", "join"}
    BY <1>2 DEF Commands
  <2> HIDE DEF c
  <2> QED BY <1>1, <1>3, <2>1, <2>2, OthersKeep, SlotStutter
          DEF CommandShape, CommandKeys
<1>7. CASE Evict(p)
  <2> DEFINE c == [cmd[p] EXCEPT
                     !.pc = IF cmd[p].op = "join" THEN "persist" ELSE "create"]
  <2>1. Update(p, c) /\ cmd[p].pc = "evict"
        /\ slot' = [slot EXCEPT ![cmd[p].node] = NoKey]
    BY <1>7 DEF Evict, At
  <2>2. /\ c.pc = IF cmd[p].op = "join" THEN "persist" ELSE "create"
        /\ c.op = cmd[p].op /\ c.node = cmd[p].node /\ c.key = cmd[p].key
        /\ cmd[p].op \in {"none", "genesis", "force", "join"}
    BY <1>2 DEF Commands
  <2> HIDE DEF c
  <2>3. CommandShape' /\ CommandKeys'
    BY <1>1, <1>3, <2>1, <2>2, OthersKeep DEF CommandShape, CommandKeys
  <2>4. SlotKeys'
    BY <1>1, <2>1 DEF SlotKeys, TypeOK
  <2> QED BY <2>3, <2>4
<1>8. CASE Persist(p)
  <2>1. Update(p, Idle) /\ slot' = [slot EXCEPT ![cmd[p].node] = cmd[p].key]
        /\ cmd[p].pc = "persist"
    BY <1>8 DEF Persist, At
  <2>2. CommandShape' /\ CommandKeys'
    BY <1>1, <2>1, OthersKeep DEF Idle
  <2>3. cmd[p].key.template = "storage" /\ cmd[p].key.tpm \in Founders
    BY <1>1, <2>1 DEF CommandShape, CommandKeys
  <2>4. SlotKeys'
    BY <1>1, <2>1, <2>3 DEF SlotKeys, TypeOK
  <2> QED BY <2>2, <2>4
<1>9. CASE CreateFleetKey(p)
  <2> DEFINE c == [cmd[p] EXCEPT !.pc = "persist",
                                 !.key = DuplicableKey(cmd[p].node)]
  <2>1. Update(p, c) /\ UNCHANGED slot /\ cmd[p].pc = "create"
    BY <1>9 DEF CreateFleetKey, At
  <2>2. /\ c.pc = "persist" /\ c.op = cmd[p].op /\ c.node = cmd[p].node
        /\ c.key = DuplicableKey(cmd[p].node)
    BY <1>2 DEF Commands
  <2>3. cmd[p].op \in {"genesis", "force"} /\ cmd[p].node \in Founders
    BY <1>1, <2>1 DEF CommandShape, CommandKeys
  <2>4. /\ DuplicableKey(cmd[p].node) # NoKey
        /\ DuplicableKey(cmd[p].node).template = "storage"
        /\ DuplicableKey(cmd[p].node).tpm \in Founders
        /\ DuplicableKey(cmd[p].node).tpm = cmd[p].node
    BY <2>3, KeyFacts, FleetAssumption
  <2> HIDE DEF c
  <2> QED BY <1>1, <1>3, <2>1, <2>2, <2>3, <2>4, OthersKeep, SlotStutter
<1>10. CASE SeedReadsPublic(p)
  <2> DEFINE c == [cmd[p] EXCEPT !.pc = "duplicate", !.pub = slot[cmd[p].seed]]
  <2>1. Update(p, c) /\ UNCHANGED slot /\ cmd[p].pc = "read"
        /\ slot[cmd[p].seed] # NoKey
    BY <1>10 DEF SeedReadsPublic, At
  <2>2. /\ c.pc = "duplicate" /\ c.op = cmd[p].op /\ c.node = cmd[p].node
        /\ c.key = cmd[p].key /\ c.pub = slot[cmd[p].seed]
        /\ c.seed = cmd[p].seed
    BY <1>2 DEF Commands
  <2> HIDE DEF c
  <2> QED BY <1>1, <1>3, <2>1, <2>2, OthersKeep, SlotStutter
          DEF CommandShape, CommandKeys
<1>11. CASE SeedDuplicates(p)
  <2> DEFINE c == [cmd[p] EXCEPT !.pc = "import", !.key = slot[cmd[p].seed]]
  <2>1. Update(p, c) /\ UNCHANGED slot /\ cmd[p].pc = "duplicate"
        /\ slot[cmd[p].seed] # NoKey /\ slot[cmd[p].seed].template = "storage"
    BY <1>11 DEF SeedDuplicates, At
  <2>2. /\ c.pc = "import" /\ c.op = cmd[p].op /\ c.node = cmd[p].node
        /\ c.key = slot[cmd[p].seed] /\ c.pub = cmd[p].pub
        /\ c.seed = cmd[p].seed
    BY <1>2 DEF Commands
  <2>3. cmd[p].op = "join" /\ cmd[p].seed \in Nodes
    BY <1>1, <2>1 DEF CommandShape
  <2>4. slot[cmd[p].seed].tpm \in Founders
    BY <1>1, <2>1, <2>3 DEF SlotKeys
  <2> HIDE DEF c
  <2> QED BY <1>1, <1>3, <2>1, <2>2, <2>3, <2>4, OthersKeep, SlotStutter
          DEF CommandShape, CommandKeys
<1>12. CASE Import(p)
  <2> DEFINE c == [cmd[p] EXCEPT !.pc = "probe", !.pub = NoKey]
  <2>1. Update(p, c) /\ UNCHANGED slot /\ cmd[p].pc = "import"
    BY <1>12 DEF Import, At
  <2>2. /\ c.pc = "probe" /\ c.op = cmd[p].op /\ c.node = cmd[p].node
        /\ c.key = cmd[p].key
    BY <1>2 DEF Commands
  <2> HIDE DEF c
  <2> QED BY <1>1, <1>3, <2>1, <2>2, OthersKeep, SlotStutter
          DEF CommandShape, CommandKeys
<1>13. ASSUME NEW n \in Founders, StartGenesis(p, n)
       PROVE  CommandShape' /\ CommandKeys' /\ SlotKeys'
  <2>1. PICK op \in {"genesis", "force"} :
           Update(p, [Idle EXCEPT !.op = op, !.node = n, !.pc = "probe"])
    BY <1>13 DEF StartGenesis
  <2> DEFINE c == [Idle EXCEPT !.op = op, !.node = n, !.pc = "probe"]
  <2>2. c.op = op /\ c.node = n /\ c.pc = "probe" /\ c.key = NoKey
    BY DEF Idle
  <2>3. UNCHANGED slot
    BY <1>13 DEF StartGenesis
  <2> HIDE DEF c
  <2> QED BY <1>1, <2>1, <2>2, <2>3, OthersKeep, SlotStutter, FleetAssumption
          DEF c
<1>14. ASSUME NEW n \in Nodes, NEW s \in Nodes, StartJoin(p, n, s)
       PROVE  CommandShape' /\ CommandKeys' /\ SlotKeys'
  <2> DEFINE c == [Idle EXCEPT !.op = "join", !.node = n, !.seed = s,
                               !.pc = "read"]
  <2>1. Update(p, c) /\ UNCHANGED slot
    BY <1>14 DEF StartJoin
  <2>2. /\ c.op = "join" /\ c.node = n /\ c.seed = s /\ c.pc = "read"
        /\ c.key = NoKey
    BY DEF Idle
  <2> HIDE DEF c
  <2> QED BY <1>1, <2>1, <2>2, OthersKeep, SlotStutter
<1> QED BY <1>4, <1>5, <1>6, <1>7, <1>8, <1>9, <1>10, <1>11, <1>12, <1>13,
           <1>14 DEF Command

-----------------------------------------------------------------------------
(* Theorems *)

\* FleetInv is inductive.
LEMMA FleetInvStep == FleetInv /\ [Next]_vars => FleetInv'
<1> SUFFICES ASSUME FleetInv, [Next]_vars PROVE FleetInv'
  OBVIOUS
<1>1. TypeOK'
  BY TypeStep
<1>2. CASE \E p \in Procs : Command(p)
  BY <1>1, <1>2, CommandStep DEF FleetInv
<1>3. CASE UNCHANGED <<slot, cmd>>
  BY <1>1, <1>3 DEF FleetInv, CommandShape, CommandKeys, SlotKeys
<1>4. ASSUME NEW n \in Nodes,
             \/ StartEnroll(n) \/ StopEnroll(n)
             \/ StartServe(n) \/ StartLegacyServe(n) \/ StopServe(n)
             \/ Encrypt(n)
      PROVE  UNCHANGED <<slot, cmd>>
  BY <1>4 DEF StartEnroll, StopEnroll, StartServe, StartLegacyServe,
              StopServe, Encrypt
<1> QED BY <1>2, <1>3, <1>4 DEF Next, vars

LEMMA FleetInvInit == Init => FleetInv
<1> SUFFICES ASSUME Init PROVE FleetInv
  OBVIOUS
<1>1. TypeOK
  <2>1. slot \in [Nodes -> MaybeKeys]
    BY DEF Init, MaybeKeys
  <2>2. cmd \in [Procs -> Commands]
    BY IdleType DEF Init
  <2>3. enrolling \in [Nodes -> MaybeKeys]
    BY DEF Init, MaybeKeys
  <2>4. serve \in [Nodes -> Sealers \cup {Down}] /\ store \in SUBSET Keys
    BY DEF Init
  <2> QED BY <2>1, <2>2, <2>3, <2>4 DEF TypeOK
<1>2. CommandShape /\ CommandKeys
  <2>1. \A p \in Procs : cmd[p] = Idle
    BY DEF Init
  <2> QED BY <2>1 DEF CommandShape, CommandKeys, Idle
<1>3. SlotKeys
  BY DEF Init, SlotKeys, CreatePrimary
<1> QED BY <1>1, <1>2, <1>3 DEF FleetInv

\* The inductive invariant of the cluster.
THEOREM FleetInvariant == Spec => []FleetInv
  BY FleetInvInit, FleetInvStep, PTL DEF Spec

\* Type correctness.
THEOREM FleetTypeCorrect == Spec => []TypeOK
<1>1. FleetInv => TypeOK
  BY DEF FleetInv
<1> QED BY <1>1, FleetInvariant, PTL

\* Whatever commands run, overlap and die, every fleet key in the cluster was
\* made by a founder, and a single founder means a single duplicable key.
THEOREM FleetKeyIsShared == Spec => []FleetKeyShared
<1>1. FleetInv => FleetKeyShared
  <2> SUFFICES ASSUME FleetInv PROVE FleetKeyShared
    OBVIOUS
  <2>1. SlotKeys /\ slot \in [Nodes -> MaybeKeys]
    BY DEF FleetInv, TypeOK
  <2>2. ASSUME NEW f \in Nodes, Founders = {f}, NEW n \in Nodes, Found(n)
        PROVE  \/ slot[n] = DuplicableKey(f)
               \/ n = f /\ slot[n].template = "nopolicy"
    <3>1. slot[n] \in Keys /\ slot[n].tpm = f
      BY <2>1, <2>2 DEF SlotKeys, Found, MaybeKeys
    <3>2. CASE slot[n].template = "storage"
      BY <3>1, <3>2 DEF Keys, DuplicableKey, CreatePrimary
    <3>3. CASE slot[n].template # "storage"
      BY <2>1, <2>2, <3>1, <3>3 DEF SlotKeys, Found
    <3> QED BY <3>2, <3>3
  <2> QED BY <2>1, <2>2 DEF FleetKeyShared, SlotKeys, Found
<1> QED BY <1>1, FleetInvariant, PTL

\* What a forced genesis persists is the key whose copies the others hold: only
\* a key with the authPolicy was ever copied, and a TPM makes one such key.
THEOREM ForcedKeyIsTheSame == Spec => []ForceOrphansNobody
<1>1. FleetInv => ForceOrphansNobody
  <2> SUFFICES ASSUME FleetInv, NEW p \in Procs, cmd[p].op = "force",
                      At(p, "persist"), NEW n \in Nodes \ {cmd[p].node},
                      Found(n), slot[n].tpm = cmd[p].node
               PROVE  slot[n] = cmd[p].key
    BY DEF ForceOrphansNobody
  <2>1. TypeOK /\ CommandShape /\ CommandKeys /\ SlotKeys
    BY DEF FleetInv
  <2>2. slot[n] \in Keys /\ slot[n].template = "storage"
    BY <2>1 DEF TypeOK, MaybeKeys, SlotKeys, Found
  <2>3. /\ cmd[p].key \in Keys
        /\ cmd[p].key.template = "storage"
        /\ cmd[p].key.tpm = cmd[p].node
    BY <2>1 DEF TypeOK, Commands, MaybeKeys, CommandShape, CommandKeys, At
  <2> QED BY <2>2, <2>3 DEF Keys
<1> QED BY <1>1, FleetInvariant, PTL

\* A key leaves a handle only by an eviction of a forced genesis, or of a join
\* that already holds the key to put in its place.
THEOREM NoSilentReplacement == Spec => NeverSilentlyReplaced
<1> DEFINE Rule ==
      \A n \in Nodes :
         (Found(n) /\ slot'[n] # slot[n]) =>
            /\ slot'[n] = NoKey
            /\ \E p \in Procs :
                  /\ cmd[p].node = n
                  /\ \/ cmd[p].op = "force"
                     \/ cmd[p].op = "join" /\ cmd[p].key # NoKey
<1>1. FleetInv /\ [Next]_vars => [Rule]_vars
  <2> SUFFICES ASSUME FleetInv, Next, NEW n \in Nodes, Found(n),
                      slot'[n] # slot[n]
               PROVE  /\ slot'[n] = NoKey
                      /\ \E p \in Procs :
                            /\ cmd[p].node = n
                            /\ \/ cmd[p].op = "force"
                               \/ cmd[p].op = "join" /\ cmd[p].key # NoKey
    BY DEF Rule
  <2>1. slot \in [Nodes -> MaybeKeys] /\ CommandShape
    BY DEF FleetInv, TypeOK
  <2>2. PICK p \in Procs : Evict(p) \/ Persist(p)
    BY DEF Next, Command, GenesisFindsKey, FindsKeyToEvict, FindsNoKey, Fails,
           CreateFleetKey, SeedReadsPublic, SeedDuplicates, Import,
           StartGenesis, StartJoin, StartEnroll, StopEnroll, StartServe,
           StartLegacyServe, StopServe, Encrypt
  <2>3. ~Persist(p)
    BY <2>1 DEF Persist, Found
  <2>4. /\ cmd[p].node = n /\ slot'[n] = NoKey /\ cmd[p].pc = "evict"
    BY <2>1, <2>2, <2>3 DEF Evict, At
  <2> QED BY <2>1, <2>4 DEF CommandShape
<1> QED BY <1>1, FleetInvariant, PTL DEF Spec, NeverSilentlyReplaced

-----------------------------------------------------------------------------
(* What serve can read *)

\* A duplicable key is a founder's.
Founded(k) == k.template = "storage" => k.tpm \in Founders

\* A running serve seals under its SRK or can fall back to it.
SealersFit(n) ==
    serve[n] \in Sealers =>
       /\ serve[n].primary = Srk(n) \/ serve[n].legacy = TRUE
       /\ Founded(serve[n].primary)

ServeInv ==
    /\ \A n \in Nodes : SealersFit(n)
    /\ \A k \in store : Founded(k)

\* A node's serve is up exactly when it has sealers.
LEMMA UpHasSealers ==
    ASSUME TypeOK, NEW n \in Nodes
    PROVE  serve[n].up <=> serve[n] \in Sealers
<1>1. serve[n] \in Sealers \/ serve[n] = Down
  BY DEF TypeOK
<1>2. \A s \in Sealers : s.up = TRUE
  BY DEF Sealers
<1>3. Down.up = FALSE
  BY DEF Down
<1>4. Down \notin Sealers
  BY <1>2, <1>3
<1>5. CASE serve[n] \in Sealers
  <2>1. serve[n].up = TRUE
    BY <1>2, <1>5
  <2> QED BY <1>5, <2>1
<1>6. CASE serve[n] = Down
  <2>1. serve[n].up = FALSE
    BY <1>3, <1>6
  <2> QED BY <1>4, <1>6, <2>1
<1> QED BY <1>1, <1>5, <1>6

\* Starting, stopping or using one serve leaves the others alone.
LEMMA OneServe ==
    ASSUME TypeOK, ServeInv, NEW n \in Nodes, NEW s,
           serve' = [serve EXCEPT ![n] = s],
           s \in Sealers => /\ s.primary = Srk(n) \/ s.legacy = TRUE
                            /\ Founded(s.primary)
    PROVE  \A m \in Nodes : SealersFit(m)'
<1>1. \A m \in Nodes : serve'[m] = IF m = n THEN s ELSE serve[m]
  BY DEF TypeOK
<1> QED BY <1>1 DEF ServeInv, SealersFit, Founded, Srk, CreatePrimary

\* Every step keeps the invariant of the sealers and of what is stored.
LEMMA ServeInvStep == FleetInv /\ ServeInv /\ [Next]_vars => ServeInv'
<1> SUFFICES ASSUME FleetInv, ServeInv, [Next]_vars PROVE ServeInv'
  OBVIOUS
<1>1. TypeOK /\ SlotKeys
  BY DEF FleetInv
<1>2. CASE UNCHANGED <<serve, store>>
  BY <1>2 DEF ServeInv, SealersFit, Founded
<1>3. ASSUME NEW p \in Procs, Command(p)
      PROVE  UNCHANGED <<serve, store>>
  BY <1>3 DEF Command, GenesisFindsKey, FindsKeyToEvict, FindsNoKey, Evict,
              Persist, Fails, CreateFleetKey, SeedReadsPublic, SeedDuplicates,
              Import, StartGenesis, StartJoin
<1>4. ASSUME NEW n \in Nodes, StartEnroll(n) \/ StopEnroll(n)
      PROVE  UNCHANGED <<serve, store>>
  BY <1>4 DEF StartEnroll, StopEnroll
<1>5. \A n \in Nodes : Founded(Srk(n))
  BY DEF Founded, Srk, CreatePrimary
<1>6. ASSUME NEW n \in Nodes, StartServe(n)
      PROVE  ServeInv'
  <2>1. PICK s \in Sealers : /\ BuildSealer(n, s)
                             /\ serve' = [serve EXCEPT ![n] = s]
    BY <1>6 DEF StartServe
  <2>2. s.primary = Srk(n) \/ s.legacy = TRUE
    BY <2>1 DEF BuildSealer
  <2>3. Founded(s.primary)
    BY <1>1, <1>5, <2>1 DEF BuildSealer, SlotKeys, Found, Founded
  <2>4. \A m \in Nodes : SealersFit(m)'
    BY <1>1, <2>1, <2>2, <2>3, OneServe
  <2> QED BY <1>6, <2>4 DEF StartServe, ServeInv, Founded
<1>7. ASSUME NEW n \in Nodes, StartLegacyServe(n)
      PROVE  ServeInv'
  <2>1. \A m \in Nodes : SealersFit(m)'
    BY <1>1, <1>5, <1>7, OneServe DEF StartLegacyServe
  <2> QED BY <1>7, <2>1 DEF StartLegacyServe, ServeInv, Founded
<1>8. ASSUME NEW n \in Nodes, StopServe(n)
      PROVE  ServeInv'
  <2>1. Down \notin Sealers
    BY DEF Down, Sealers
  <2>2. \A m \in Nodes : SealersFit(m)'
    BY <1>1, <1>8, <2>1, OneServe DEF StopServe
  <2> QED BY <1>8, <2>2 DEF StopServe, ServeInv, Founded
<1>9. ASSUME NEW n \in Nodes, Encrypt(n)
      PROVE  ServeInv'
  <2>1. Founded(serve[n].primary)
    BY <1>1, <1>9, UpHasSealers DEF Encrypt, ServeInv, SealersFit
  <2> QED BY <1>9, <2>1 DEF Encrypt, ServeInv, SealersFit, Founded
<1> QED BY <1>2, <1>3, <1>4, <1>6, <1>7, <1>8, <1>9 DEF Next, vars

\* What a serve was built on stays fit for its node.
THEOREM ServeInvariant == Spec => [](FleetInv /\ ServeInv)
<1>1. Init => ServeInv
  <2> SUFFICES ASSUME Init PROVE ServeInv
    OBVIOUS
  <2>1. Down \notin Sealers
    BY DEF Down, Sealers
  <2>2. store = {} /\ \A n \in Nodes : serve[n] = Down
    BY DEF Init
  <2> QED BY <2>1, <2>2 DEF ServeInv, SealersFit
<1> QED BY <1>1, ServeInvStep, FleetInvariant, PTL DEF Spec

\* Ciphertext of a node's own SRK stays readable on it, whichever key its
\* serve picked and whatever happens to the handle.
THEOREM LegacyStaysReadable == Spec => []LegacyReadable
<1>1. ASSUME FleetInv, ServeInv PROVE LegacyReadable
  <2> SUFFICES ASSUME NEW n \in Nodes, serve[n].up
               PROVE  CanDecrypt(n, Srk(n))
    BY DEF LegacyReadable
  <2>1. serve[n] \in Sealers /\ SealersFit(n)
    BY <1>1, UpHasSealers DEF FleetInv, ServeInv
  <2> QED BY <2>1 DEF SealersFit, CanDecrypt, Usable
<1> QED BY <1>1, ServeInvariant, PTL

\* With one founder, what any node sealed under a duplicable fleet key is
\* readable wherever serve started with such a key and still has one.
THEOREM FleetCiphertextReadable == Spec => []CrossNodeDecrypt
<1>1. ASSUME FleetInv, ServeInv PROVE CrossNodeDecrypt
  <2> SUFFICES ASSUME Cardinality(Founders) = 1, NEW k \in store,
                      NEW n \in Nodes, k.template = "storage", serve[n].up,
                      serve[n].primary.template = "storage", Found(n),
                      slot[n].template = "storage"
               PROVE  CanDecrypt(n, k)
    BY DEF CrossNodeDecrypt
  <2>1. TypeOK /\ SlotKeys
    BY <1>1 DEF FleetInv
  <2>2. serve[n] \in Sealers /\ SealersFit(n) /\ Founded(k)
    BY <1>1, <2>1, UpHasSealers DEF ServeInv
  <2>3. k \in Keys /\ serve[n].primary \in Keys /\ slot[n] \in Keys
    BY <2>1, <2>2 DEF TypeOK, Sealers, Found, MaybeKeys
  <2>4. /\ k.tpm \in Founders
        /\ serve[n].primary.tpm \in Founders
        /\ slot[n].tpm \in Founders
    BY <2>1, <2>2 DEF SealersFit, Founded, SlotKeys, Found
  <2>5. PICK f : Founders = {f}
    BY FleetAssumption, FS_Singleton
  <2>6. k = serve[n].primary /\ slot[n] = k
    BY <2>3, <2>4, <2>5 DEF Keys
  <2> QED BY <2>6 DEF CanDecrypt, Usable
<1> QED BY <1>1, ServeInvariant, PTL
=============================================================================
