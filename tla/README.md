# A TLA+ verification of sceau

sceau is a KMS v2 plugin for Kubernetes: kube-apiserver asks it over a Unix
socket to encrypt and decrypt data-encryption seeds, and it does so by sealing
them under a key inside the node's TPM. For clusters with several controllers a
*fleet key* is created on one node (`sceau genesis`), offered for a while by
that node (`sceau enroll`) and copied TPM-to-TPM to the others (`sceau join`).
A separate CI tool, `auto-vex-presence`, derives VEX statements from scans.

This directory models that code in TLA+, checks the models with TLC on small
instances, and proves the main results for every instance with TLAPS.
`PROJECT.json` records the correspondence of every definition with source lines.
All source paths below are relative to `src/`, the repository.

## 1. Inventory

### Components

| Component | Source | State it keeps | Operations | Model |
|---|---|---|---|---|
| Enrollment window | `src/enroll.rs` | `remaining` (AtomicUsize), `done` (Notify), TPM context behind a mutex | `run_enroll`, `Duplicate` | `Enroll`, `Join`, `Enrollment` |
| Authorization | `src/authz.rs` | none; asks the API server | `node_name_from_cn`, `authorize_node` | `Enroll` |
| Certificates | `src/certs.rs` | files on disk, read at start | identity, minted leaf, peer common name | `Enroll` (common name only) |
| Fleet key | `src/fleet.rs`, `src/join.rs` | one persistent handle per TPM | create, delete, duplicate, import, persist, load | `FleetKey`, `Join` |
| Start-up, `serve`, `genesis`, `status` | `src/main.rs`, `contrib/systemd/sceau.service` | the sealers of a running serve, the socket file | `build_sealer`, `run_serve`, `run_genesis`, `run_status`, the unit's ExecStartPost | `FleetKey`, `Serve` |
| KMS v2 service | `src/kms.rs` | primary and legacy sealer, each in a mutex | `Status`, `Encrypt`, `Decrypt` | `Kms`, `KmsAbstract` |
| TPM sealer | `src/tpm.rs` | a TPM connection, the primary key, transient objects | `seal`, `unseal`, envelope codec | `Kms`, `FleetKey`, `Envelope` |
| Presence auto-VEX | `crates/sceau-vex` | none between runs | `run`, SBOM and VEX loading, `compute_presence_vex` | `AutoVex` |
| Command line | `src/cli.rs` | none | argument parsing | not modelled |
| Library root, build | `src/lib.rs`, `build.rs` | none | module list, protobuf generation | not modelled |

### Interactions

* kube-apiserver → serve: gRPC calls, many at once, over a Unix socket.
* joiner → enroll: one mTLS `Duplicate` RPC; enroll → API server: a GET of the
  Node object, the handler's only `.await`.
* genesis, enroll, join and serve on one node are different processes. They
  share nothing but the TPM's persistent handle, and no lock spans two TPM
  commands.
* Status and serve each look at the handle once, when they start.
* serve processes, the systemd unit and kube-apiserver share the socket file by
  name: each checks, removes, binds, chmods or opens it in steps of its own.
* serve → etcd → serve: envelopes, as bytes, through storage that may cut or
  change them.

### What is hard here

* **Concurrency inside enroll**: requests run on a multi-threaded runtime. The
  permit counter is decremented first and put back when it was zero; in between
  it is wrapped to `usize::MAX`. `was_last_permit` is decided before
  authorization and used after it.
* **Cancellation and lost answers**: a client that disconnects makes the
  runtime drop the handler at its `.await`; no code after it runs. A join may
  die after its permit is used up, and the seed may be killed while joins wait
  for it.
* **Races between processes**: every "is there a key?" is a TPM command of its
  own, and the eviction or persist it decides about is a later one.
* **Partial failure**: a command may die after evicting a key and before
  persisting its replacement; `?` may return before a transient TPM object is
  flushed, and a connection holds only about three of these.
* **A path as shared state**: serve removes, binds and chmods the socket by
  name, the unit's ExecStartPost chmods it too, and a killed serve leaves it
  behind.
* **Lengths**: the envelope announces the public area in 16 bits, and the
  decoder must neither panic on damaged bytes nor take them for others.
* **Two mutexes** in the KMS service, and a sealing key that can vanish under
  the service.
* **Fail-closed batch processing** in auto-VEX: an input that turns out broken
  late in the run must leave no document behind.

### What makes each component correct

* Enroll: `--max` bounds what is served; permits are neither minted nor lost;
  only node identities the API server vouches for are served; TPM slots are
  freed; the window is not reported full too soon; the process ends.
* Enroll and join together: a node's TPM gets a key only by a join that was
  vouched for under that node's own name and granted a copy; every join ends.
* Envelope: what was sealed is read back or rejected, and damage never panics
  and never yields another public area.
* serve's life cycle: a restart never trips over what a predecessor left, the
  mode the unit gives the socket sticks, a predecessor's late cleanup spares the
  successor's socket, and every connected call is answered or closed. (The
  second holds only in one order of the two chmods, the third does not hold:
  findings 4 and 6.)
* Fleet key: with one founder there is one fleet key; it is never silently
  replaced; a forced genesis fits the copies others hold; what was sealed before
  joining stays readable; what one node seals under the fleet key the others can
  read.
* KMS service: answers are those the request allows, whatever other calls do;
  every call is answered; Encrypt never reaches the legacy key.
* Auto-VEX: the document is a function of its inputs, and is derived only from
  complete ones.

`PROJECT.json` lists the hazards by source line with the properties that
address them.

## 2. Modules and how they correspond to the code

### `Enroll`

One call of `EnrollService::duplicate` per member of `Requests`. `pc[r]` is
where its handler is:

    waiting → connected → (fetch_sub) → rejecting → rejected          counter was 0
                                      → checking → authorizing → authorized → parsed
                                        → locked → wrapping → duplicating → granted → served
                                        → failing → failed            any error
                                        authorizing → dropped         client gone

A step ends where another thread can see the difference: an atomic operation on
`remaining`, the `.await` on the API server, taking the mutex on the TPM
context, or a TPM command that changes what is loaded. `remaining` has the
width `Modulus` and wraps, like `AtomicUsize`. `phase` and `closedBy` follow
`run_enroll`: start-up, the `select!` between `done.notified()` and the timer,
graceful shutdown, exit. `exitCode` is 0 after any window, 1 when start-up
failed and 130 when the process was `Killed`, after which no handler runs on.
`members` are the cluster's Node objects; they come and go at any time, so an
answer of the API server may be stale when the key is duplicated. `externals`
are the joiners' public areas and `sessions` the policy sessions in the shared
connection; `duplicate_for_joiner` returns early past the flush of either when
a command between fails. `vouched`, `faulted` and `overdrawn` are history
variables that no guard reads.

Everything `run_enroll` needs before it listens (TPM, fleet key, certificates,
kubeconfig, address) is one alternative: `Start` or `StartFails`. tonic
(connections, GOAWAY, dropping a cancelled handler) and the API server are
external and modelled from how `enroll.rs` uses them.

### `Join` and `Enrollment`

`Join` extends `Enroll` with the other side: request `r` is the one Duplicate
call of a `run_join` on node `host[r]`, whose certificate names that node.
`joiner[r]` runs from `dialing` over `calling` and `received` through
`import_and_persist` (`loaded`, `evicting`, `persisting`, `flushing`) to
`joined`. Connecting is one step of both sides. Everything else is not: a join
may fail or die anywhere while its handler runs on (`JoinFails`), the answer of
a served request may never be read, and the seed may be killed under a waiting
join. `holders` are the nodes whose handle holds a key. As in `FleetKey`, a
failed lookup counts as "no key", and an occupied handle refuses another.

`Enrollment` is the promise of the two commands: a key appears or
disappears at a node's handle only by a join that was granted a copy, which
takes being vouched for while the node was a member, and one of `Max` grants.
The bound is lifted by an explicit `Overrun`, because the code can exceed it
(finding 1). The refinement maps `granted` to the served requests and
`overrun` to `overdrawn`.

### `Serve`

`run_serve` around its service: check for an old socket, remove it, open the
TPM, bind, set the mode to 0600, serve, drain on Ctrl-C, remove the file. The
file is `path` (whose socket the name denotes) and `mode`, in a directory that
exists or not (`dir`); every operation on it names the path, never the listener,
so two serves can take it from each other. `unit` and `post` are the systemd
unit: its main process, and the ExecStartPost that polls for the socket and runs
`chmod 0660`; when the main process is gone the runtime directory goes with it,
and a bind after that is refused. The server may also end with an error
(`ServeFails`), which skips the removal of the file. A call is `queued` in the
backlog, accepted, answered or lost. tonic is external: a draining server
accepts nothing more, but its listener, and so its backlog, lives until the
drain ends. `overlapped` is a history variable: the serves that ran while
another one, or its unit's cleanup, was still there.

### `FleetKey`

A cluster of TPMs (`Nodes`), each with one persistent handle `slot[n]`, and
one-shot commands (`Procs`) that run anywhere at the same time: genesis,
`genesis --force`, join. A command's record holds its `op`, `node`, `seed`, its
program counter and the values it read (`seen`, `pub`, `key`); one step per TPM
command. `Fails` ends a command at any point: an error, or its process dying.
A key is the pair of the TPM that derived it and the template, because
`TPM2_CreatePrimary` is deterministic in these two: `create_fleet_key` passes no
outside data, no sensitive data and a template whose `unique` field is constant
(finding 7 is what follows): `"srk"` (tpm.rs),
`"storage"` (fleet.rs) and `"nopolicy"`, the fleet key of releases before the
authPolicy fix, which `TPM2_Duplicate` refuses.

`load_fleet_key` returns an error both for an empty handle and for a failed
command, and its callers treat both as "no key": with `Faults`, a lookup of an
occupied handle may miss. `serve[n]` holds the sealers a running serve chose at
its start, `store` the keys under which something in etcd is sealed.
`CanDecrypt` is `KmsService::decrypt` seen from outside. `StartServe` is
one step for `load_fleet_key` and `from_primary`: if the key is replaced in
between, `read_public` fails and serve does not start; otherwise both see the
same key.

### `Kms` and `KmsAbstract`

`KmsAbstract` is the service's promise: each call is answered at most once, by
an answer its request allows (`Allowed`). `Kms` is the code: two sealers, each
with a mutex and a TPM connection, handlers that interleave at every mutex
operation and TPM command, objects that stay loaded when `?` skips the flush,
and another process that evicts the fleet key or puts it back. The refinement
mapping is the identity on `fleet`, `request` and `answer`; every other step of
`Kms` is a stutter of `KmsAbstract`. `fleet` says whether serve found a fleet
key, and so has the SRK sealer as a fallback; `Init` leaves both open.
`Capacity` is one lower for an SRK sealer, whose
primary is itself a transient object.

### `Envelope`

`envelope_encode` and `envelope_decode` over sequences of bytes of base `Base`.
`AsU16` keeps the low two digits of a length, as `as u16` does; a slice beyond
the end is `Panicked`. The only thing assumed of TPM structures is that a
marshalled public area tells its own length (no area begins another) and that a
private area has a greatest size. The actions are one envelope's life: stored,
then cut or changed in storage. Decoding is read-only, so the properties apply
`Decode` to every state. `MCKms` runs the module beside the service whose
envelopes these are; the two share no state, so an envelope's life is followed
while the service is idle.

### `AutoVex`

One action per loop iteration of `run`, `load_triaged_from_vex_dir` and
`compute_presence_vex`. Directory entries are visited in any order. JSON files
are records of what the algorithm reads, plus whether they can be read.

### Proof modules and instances

`EnrollProofs`, `JoinProofs`, `FleetKeyProofs`, `KmsProofs`, `EnvelopeProofs`,
`ServeProofs` and `AutoVexProofs` hold the theorems, each about the module it
extends. `MCEnroll`,
`MCJoin`, `MCFleetKey`, `MCKms`, `MCServe` and `MCAutoVex` hold
what TLC needs: symmetry sets, and the enumerated inputs of `Join`, `Envelope`
and `AutoVex`. Definitions introduced as "Variant of X"
in a comment are deliberately wrong versions of X: no specification uses them,
and substituting one for X must make TLC report the property it is listed with
in `PROJECT.json`, which shows that the property depends on that code.

## 3. Runs

| Run | Checks | Shows |
|---|---|---|
| `enroll` | TypeOK, PermitAccounting, WithinMaxUnlessOverdrawn, MaxServedNotifies, OnlyVouchedServed, TransientsFreed, ClosesOnlyAfterMaxDrawn | Four requests compete for two permits, two object slots and two session slots, with failures, cancellation, a kill and membership changes: permits add up, only vouched-for requests get the key, slots are freed unless a cleanup was skipped or failed, and the window never closes as full before `--max` requests drew a permit |
| `join` | JoinTypeOK, PromiseKept, JoinEnds, EventuallyExits, MaxServedExits | Two joins against one window implement `Enrollment` while either side dies and answers get lost; every join ends; the seed ends once its timer fires, and after `--max` served requests even if it never does |
| `fleet` | TypeOK, FleetKeyShared, LegacyReadable, CrossNodeDecrypt, ForceOrphansNobody, NeverSilentlyReplaced | Overlapping genesis, forced genesis, joins, enrolls and serves on two nodes, lookups that fail, commands that die; ForceOrphansNobody is finding 7 |
| `kms` | TypeOK, HandlesAccounted, LegacyOnlyDecrypts, ReadBackOrRejected, DamageIsNeverMisread, KeepsPromise, EveryCallAnswered | The service refines its promise (finding 8), accounts for each TPM object and answers every call, with and without a fleet key; envelopes around the limit of the length field are read back or rejected; no cut or changed byte panics the decoder, and no cut yields another public area |
| `serve` | TypeOK, RestartNeverTrips, CallsSettle, LateChmodSticks | Serves started by the unit or by hand, in turn or at once, killed, failing or shut down anywhere: a lone serve never fails over the socket file, every connected call is settled, and a chmod of the unit that comes after serve's own sticks |
| `auto_vex` | TypeOK, DocumentIsReference, FailsClosed | For all small inputs the document equals a definition over the whole inputs, and broken inputs never yield one |
| `enroll_past_max` | NeverPastMax (violated) | finding 1 |
| `enroll_permit_lost` | OnlyServedKeepPermit (violated) | finding 2 |
| `fleet_phase_a` | PhaseAGuarantee (violated) | finding 3 |
| `serve_mode` | UnitSocketIs0660 (violated) | finding 4 |
| `serve_cleanup` | StopSparesRestart (violated) | finding 6 |
| `vex_present` | PresentNeverDismissed (violated) | finding 5 |

To repeat one: `tlc -config MCEnroll.cfg MCEnroll`, from this directory.

### Bounds

* `enroll`: `Max = 2` is the least value for which a permit can be the first
  and not the last; four requests let both permits be held while one request is
  rejected (counter wrapped) and a fourth draws from the wrapped counter.
  `Modulus = 8` exceeds `Max` plus the requests, as 2^64 does. Two slots of each
  kind make exhaustion of the TPM connection reachable after two skipped
  cleanups. One node name is enough for a member and a stranger, since the Node
  object comes and goes.
* `join`: two joins, on one node or on two (`CanonicalHosts` leaves out the
  cases that only swap names), for one permit and one slot: the second join is
  rejected, overruns, or finds the TPM exhausted. No symmetry: it is not sound
  for liveness.
* `fleet`: a founder and another node, two commands at a time. Races over one
  handle need two commands; a third node only repeats the second. More are
  covered by the proofs.
* `kms`: two calls on two mutexes. The legacy connection has room for one object
  next to its SRK, so a leaked one makes the next load fail. For the envelopes,
  bytes are of base 2, so that the two-byte length announces at most 3; public
  areas of 1 to 6 bytes lie on both sides of that limit and beyond twice of it,
  private areas are all sequences of up to 3 bytes.
* `serve`: three processes: one that left a socket behind, one that starts, and
  one that meets it. `serve_cleanup` needs only two, the draining one and its
  successor. One call meets each of them in the backlog or in flight.
* `auto_vex`: reports of up to two matches over two CVEs and two package URLs,
  one or two SBOMs, directories of up to two entries of each kind. Two matches
  are what it takes for one CVE to be met twice.

Deadlock is not reported: each of these systems may legitimately stop (an
exited process, all calls answered, a finished batch run, no command issued).

### Fairness

`Enroll!ProcessFairness` assumes that start-up returns, that tokio polls a
runnable task (the woken listener, a handler that is not waiting), that idle
connections obey GOAWAY, and that an exit that is possible happens. A handler
that waits for the mutex is only owed a step when the mutex is free; the std
mutex is not fair, but a process sees finitely many requests, so weak fairness
is enough. `ApiServerFairness`: a lookup is answered or its connection fails.
The timer is not part of it; `EventuallyExits` assumes it explicitly, so that
`MaxServedExits` is checked without it.

`JoinFairness` adds that a join that has started goes on: its dial succeeds or
fails, its request is delivered, its TPM commands return, and a broken
connection is noticed. The last is an assumption on the network: `run_join` sets
no timeout of its own. Starting a join and dying carry no fairness.

In `Kms`, each handler is weakly fair for the same reasons, and a TPM command
returns, with or without an error. In `Serve`, processes, handlers and the
unit run on, the bounded poll of ExecStartPost and its chmod included; nobody
owes a start, a signal, a server error or a call.

## 4. Proofs

TLAPS checks every theorem for all values of the constants that meet the
assumptions.

**`EnrollAssumption`**: finitely many requests, `Max` at least 1 (clap enforces
it) and below `Modulus`, fewer requests than `Modulus`, at least one slot of
each kind.

* `TypeCorrect`: `Spec => []TypeOK`. The one conjunct with content is that
  `remaining` stays a machine word through every wrap.
* `PermitInvariant`: the inductive invariant `PermitInv`. Its parts are
  `PermitAccounting` (the counter plus the outstanding debits is `Max`, or `Max`
  plus one wrap), `WithinMaxUnlessOverdrawn`, `FullWindowHasLast` (when `Max`
  permits are held and none was drawn from a wrapped counter, one holder
  was told it has the last one) and `LastServedNotified` (if that holder was
  served, the listener was woken). None of the wanted properties is inductive
  alone: that a window with `Max` holders has a last one needs the exact value
  of the counter, and that value is known only up to the debits of requests
  that are being rejected.
* From it: `PermitsAccounted`, `WithinMax` and `MaxServedWakes`, the invariants
  `PermitAccounting`, `WithinMaxUnlessOverdrawn` and `MaxServedNotifies` of the
  `enroll` run. Counting is done with the cardinality facts of
  `FiniteSetTheorems`: one step moves one request, so each counted set gains or
  loses at most that request.

* `ServedAreVouched` (OnlyVouchedServed), from the inductive `AuthInv`: past
  authorization a request has a name and was vouched for, and it had its name
  already while the API server was asked. The property speaks of served
  requests alone, so it does not carry itself through the handler.
* `TransientsAreFreed` (TransientsFreed), from `TransientInv`: at most one
  handler is between taking the mutex and releasing it, and what is loaded
  belongs to it, or to a request whose cleanup was skipped.
* `ClosesNoSooner` (ClosesOnlyAfterMaxDrawn), from `DrawnInv`: every sign of a
  full window (`Crowded`: a request turned away, one that was told it has the
  last permit, the notification, the closing) comes after `Max` requests have
  drawn a permit. It rests on `PermitAccounting`, which ties the value that
  `fetch_sub` returns to the permits that are out.

**`JoinAssumption`**: joins run on nodes. For any number of joins and nodes:

* `WindowOfJoin`: every behaviour of the composition is one of `Enroll`, so that
  all its theorems hold of the composition.
* `JoinTypeCorrect` (JoinTypeOK) and `JoinImplementsEnrollment` (PromiseKept),
  from `JoinInv`: a join that has its answer belongs to a served request, and
  the name a handler extracted is that of the joiner's node. The refinement is
  then a case per action: the API server's answer is `Vouch`, the successful end
  of a handler `Grant`, a draw from a wrapped counter `Overrun`, `PersistKey` is
  `Store`, `EvictKey` is `Lose`, and all else stutters. `Grant` is where the
  bound is needed: `WithinMax` counts the permits held, and the request that is
  about to be served is one of them and not among the granted.

**`FleetAssumption`**: founders are finitely many nodes, and the empty handle is
not a key.

* `FleetInvariant`: `TypeOK`, `CommandShape` (which fields a command has filled
  in at each program counter), `CommandKeys` (genesis runs on founders, and a
  key in a command's hand is a duplicable key of a founder) and `SlotKeys` (the
  same of the handles, apart from a key of an earlier release on the TPM that
  made it). The last alone is not inductive: `Persist` copies a key from a
  command, and `SeedDuplicates` copies one from a handle.
* `ForcedKeyIsTheSame` (ForceOrphansNobody): a forced genesis about to persist
  holds its own TPM's duplicable key (a part of `CommandKeys`), and `SlotKeys`
  makes any copy of that TPM's key on another node the same one.
* `FleetTypeCorrect`, `FleetKeyIsShared` and `NoSilentReplacement`: `TypeOK`,
  `FleetKeyShared` and the action property `NeverSilentlyReplaced`, for any
  number of nodes and commands, with or without failing lookups.

* `LegacyStaysReadable` and `FleetCiphertextReadable` (LegacyReadable and
  CrossNodeDecrypt), from `ServeInv`: a running serve seals under its SRK or can
  fall back to it, and every duplicable key it uses, or that etcd was sealed
  under, is a founder's. That the key a serve read may since have been evicted
  or replaced is what makes the second argument go through the key's origin: one
  founder and one template determine one key.

**`KmsAssumption`**: finitely many calls, at least two object slots (an SRK
sealer needs one beside its primary), and the free mutex is no call's.

* `KmsInvariant`: the inductive invariant `KmsInv`. `CallShape` says what a
  handler knows of its request at each place, `MutexHeld` and `HolderFits` that
  a handler is at a place under a mutex exactly when it holds the mutex of the
  sealer whose key it uses, `ObjectFits` that a loaded object is the holder's or
  was left behind, and `WithinCapacity` that a connection has room for it. The
  wanted properties look at the mutexes and at the objects only; which of the
  two sealers a handler goes on to use is decided by its request, several steps
  earlier, and this is what the first three parts carry along.
* From it: `HandlesAreAccounted` (HandlesAccounted) and `LegacyForDecryptOnly`
  (LegacyOnlyDecrypts).
* `KmsImplementsPromise` (KeepsPromise): an arriving request is `Ask`, a return
  is `Reply` and all else stutters. That a return gives an answer the request
  allows is where `KmsInv` is needed: a plaintext is returned only at the end of
  an unseal under the key that the request names, of an envelope that was sealed
  under it.

**`EnvelopeAssumption`**: bytes of any base from 2 on, the version is a byte, no
public area begins another, and private areas are bounded.

* `RoundTrip` (ReadBackOrRejected) and `DamageHandled` (DamageIsNeverMisread),
  from `StoredInv`: what storage holds is the envelope, a beginning of it once
  bytes were lost, and some bytes after a change.
* The work is in lemmas about the codec. `LengthField`: the two length bytes
  announce the length modulo `Base * Base`. `DecodeTotal`: whatever the bytes,
  the guard on the length makes every slice legal, so that decoding ends in a
  value or a rejection. `DecodePrefix`: what decoding makes of a beginning of an
  envelope; where the length has wrapped, the bytes taken for the public area
  are a proper beginning of it, which is no public area (`OnePublic`).

**`ServeAssumption`**: no process is the absent one or an outcome of a call.

* `ServeInvariant`: the inductive invariant `ServeInv`. `AloneOK` says of a
  running serve that has met no other that nobody else runs and no other unit's
  cleanup is pending (`NobodyElse`), that the directory it created is there and
  what the path is at each place of its start (`PathFits`). RestartNeverTrips is
  about the moment of the bind, but the path was looked at two steps before:
  that it is still free then holds because nobody else could touch it.
* From it: `ServeTypeCorrect` and `RestartIsSafe` (RestartNeverTrips), for any
  number of processes and calls.

**`VexAssumption`**: the inputs have their types, and a missing package URL is
not one. The inputs may be of any size.

* `VexInvariant`: `VexInv` relates the accumulator of each loop to the reference
  definition over the inputs consumed so far (`PurlsSoFar`, `TriagedSoFar`,
  `EmittedSoFar`), and `LoopShape` says how far each loop is. The files of the
  directory are consumed in any order, so that part is about a set.
* From it: `DocumentCorrect` (DocumentIsReference): at the end everything is
  consumed. `VexFailsClosed` (FailsClosed): a loop passes an input only if it
  was usable, so a run that reaches the end has met no broken one.

Model-checked only: the liveness properties (JoinEnds, EventuallyExits,
MaxServedExits, EveryCallAnswered, CallsSettle, LateChmodSticks), because
fairness and ENABLED are beyond the prover. Every invariant, action property and
refinement of the passing runs is also a theorem. The refinements are of
specifications without fairness. The properties of section 5 are violated, so
there is nothing to prove of them; findings 7 and 8 rest on properties that
hold.

## 5. Findings

Each is an execution of the model in which the code does something other than
what a line of the repository says; `PROJECT.json` quotes both sides.

1. **Past `--max`** (`src/enroll.rs:168`). While a rejected request has the
   counter wrapped, between its `fetch_sub` and its `fetch_add`, another
   request reads a huge count and is served.
2. **A lost permit** (`src/enroll.rs:185`). A client that disconnects while the
   API server is asked takes its permit with it.
3. **Phase A** (`src/main.rs:73`). A serve that was running before genesis or
   join still seals under its own SRK, while status reports the fleet key
   everywhere; the migration guide's guarantee needs a restart of serve.
4. **A chmod race** (`src/main.rs:79`). The unit's `chmod 0660` waits only until
   the socket exists, which it does from `bind` on; if it runs before serve's
   own `set_permissions(0600)`, the socket stays 0600 and kube-apiserver is shut
   out.
5. **Dismissed though present**
   (`crates/sceau-vex/src/auto_vex_presence.rs:212`). A CVE matched on two
   package URLs, one of them present, gets a product-wide statement from the
   other.
6. **A restart's socket removed** (`src/main.rs:93`). A serve that ends its
   drain removes whatever the path names; a restarted serve that has bound it by
   then goes on listening where nobody can reach it.
7. **A forced genesis orphans nobody** (`src/fleet.rs:277`). The documentation
   calls the fleet key "randomly generated, not deterministically recreated from
   a template" (`src/fleet.rs:251-252`, also 50-52) and warns that "forcing a
   fresh key on an already-enrolled multi-node fleet orphans every other node's
   copy" (`src/fleet.rs:266-268`, `src/cli.rs:78-79`,
   `docs/adr/0003-fleet-key-duplication-for-ha-multi-controller.md:115-118`). A
   primary key is a function of the TPM's seed and the template, so the code
   recreates the same key; the copies keep their `key_id` and stay readable.
   Here the documented behaviour never happens, in any state, so that the
   evidence is a property that holds: ForceOrphansNobody, checked by `fleet` and
   proved. FleetKeyShared and CrossNodeDecrypt hold across a forced genesis for
   the same reason.
8. **A malformed envelope is INTERNAL** (`src/kms.rs:100`). The errors of
   `unseal` all become INTERNAL, where `docs/src/reference/api.md:76` lists a
   malformed envelope under INVALID_ARGUMENT. The evidence is KeepsPromise,
   checked by `kms` and proved: under `KmsAbstract!Allowed` INVALID_ARGUMENT
   answers an unknown key id only.

More divergences were met and have no run, because one step of a model shows
them:

* The holder of the last permit closes the listener when it is served, although
  an earlier permit was given back (`src/enroll.rs:187`): fewer than `--max` are
  served and no timeout elapsed, against `src/enroll.rs:209-210`.
* The loaded object stays when `TPM2_Unseal` fails (`src/tpm.rs:159`), where
  `docs/src/architecture/flows.md:63` says it is flushed.
* `run_enroll` returns `Ok(())` when nothing was enrolled (`Enroll!Exit`), where
  `docs/adr/0003-fleet-key-duplication-for-ha-multi-controller.md:363-364`
  promises a non-zero exit code.
* healthz is `ok` while the fleet key is evicted under a running serve
  (`Kms!Status` with `present` false), where
  `docs/src/concepts/kms-v2.md:45-47` says a listening process can seal.

## 6. Not modelled

* Argument parsing, logging, exit messages: no state.
* Cryptography, X.509, TLS and PEM handling: library calls that succeed or
  fail; a failing one is an alternative of the step that makes it.
* The byte layout of TPM structures, the attribute templates and session
  parameters. A key's template is a name.
* Certificates beyond the common name, and clocks: the minted leaf is valid for
  a day whatever `--timeout-secs` is, so a longer window refuses every handshake
  after that. The models include it as a window to which nobody connects.
* A document cut short on disk: `std::fs::write` of auto-VEX writes all or is an
  error here.
* Mutex poisoning: a handler would have to panic while it holds a guard, and no
  such panic was found.
* The TPM's own behaviour (resource manager, lockout) beyond what the code
  relies on: a command may fail at any time, loads fail when slots are used up,
  an occupied handle refuses a second object.
* Build, CI, documentation, fuzzing and packaging.

## 7. Plan

Done: all modules of section 2, the runs of section 3, and as theorems every
safety property of the passing runs, with both refinements. What is left:

* What the abstract specifications themselves promise, as theorems: a grant
  under `Enrollment` stays one of `Max` until an overrun; an answer of
  `KmsAbstract` is final.

The positive counterparts of findings 1 and 4 are `WithinMax` and
LateChmodSticks.
