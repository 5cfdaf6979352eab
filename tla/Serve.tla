-------------------------------- MODULE Serve --------------------------------
(***************************************************************************)
(* The life cycle of `sceau serve` (run_serve in src/src/main.rs) under    *)
(* the unit contrib/systemd/sceau.service: the socket file is shared by    *)
(* name between serve processes, systemd and kube-apiserver, and each      *)
(* looks at it in steps of its own.                                        *)
(***************************************************************************)
CONSTANTS
    Serves,      \* serve processes, each started at most once
    Calls,       \* KMS calls of kube-apiserver
    NoServe

ASSUME ServeAssumption ==
    Serves \cap {NoServe, "none", "answered", "lost"} = {}

VARIABLES
    pc,          \* where each serve is
    dir,         \* whether the socket's directory exists
    path,        \* the serve whose socket the path names
    mode,        \* permission bits of that socket
    unit,        \* the serve that is the unit's main process
    post,        \* the unit's ExecStartPost
    call,        \* the serve a call is connected to, or how it ended
    queued,      \* calls that their serve has not yet taken from its backlog
    overlapped   \* history: serves that met another one or its cleanup

file == <<dir, path, mode>>
systemd == <<unit, post>>
calls == <<call, queued>>
vars == <<pc, file, systemd, calls, overlapped>>

Ended == {"stopped", "failed", "refused", "killed"}
Running == {p \in Serves : pc[p] \notin Ended \cup {"new"}}

Init ==
    /\ pc = [p \in Serves |-> "new"]
    /\ dir = FALSE
    /\ path = NoServe
    /\ mode = "none"
    /\ unit = NoServe
    /\ post = "none"
    /\ call = [c \in Calls |-> "none"]
    /\ queued = {}
    /\ overlapped = {}

-----------------------------------------------------------------------------
(* run_serve *)

Step(p, from, to) ==
    /\ pc[p] = from
    /\ pc' = [pc EXCEPT ![p] = to]

NoFile == path' = NoServe /\ mode' = "none"

\* The connections of p's calls are closed, with p's end of them.
Close(p) ==
    /\ call' = [c \in Calls |-> IF call[c] = p THEN "lost" ELSE call[c]]
    /\ queued' = {c \in queued : call[c] # p}

\* The process begins; the parent directory is created.
Begin(p) ==
    /\ Step(p, "new", "checking")
    /\ LET others == Running \cup ({unit} \ {NoServe})
       IN  overlapped' = IF others = {} THEN overlapped
                         ELSE overlapped \cup others \cup {p}
    /\ dir' = TRUE
    /\ UNCHANGED <<path, mode, calls>>

\* Variant of CheckSocket that takes any socket for its own.
CheckNothing(p) ==
    /\ Step(p, "checking", "opening")
    /\ UNCHANGED <<file, systemd, calls, overlapped>>

\* socket.exists(), whoever listens behind it.
CheckSocket(p) ==
    /\ Step(p, "checking", IF path = NoServe THEN "opening" ELSE "removing")
    /\ UNCHANGED <<file, systemd, calls, overlapped>>

\* remove_file fails if somebody else has removed the socket meanwhile.
RemoveSocket(p) ==
    /\ Step(p, "removing", IF path = NoServe THEN "refused" ELSE "opening")
    /\ NoFile
    /\ UNCHANGED <<dir, systemd, calls, overlapped>>

\* build_sealer, or TpmSealer::new with --force-legacy.
OpenTpm(p) ==
    /\ Step(p, "opening", "binding")
    /\ UNCHANGED <<file, systemd, calls, overlapped>>

\* The directory, the old socket or the TPM: `?` to main.
StartFails(p) ==
    /\ \E from \in {"checking", "removing", "opening"} :
          Step(p, from, "failed")
    /\ UNCHANGED <<file, systemd, calls, overlapped>>

Bind(p) ==
    /\ dir
    /\ path = NoServe
    /\ Step(p, "binding", "bound")
    /\ path' = p
    /\ mode' = "0755"
    /\ UNCHANGED <<dir, systemd, calls, overlapped>>

\* EADDRINUSE, also for a socket nobody listens on, or ENOENT once the unit's
\* directory has gone.
BindRefused(p) ==
    /\ path # NoServe \/ ~dir
    /\ Step(p, "binding", "refused")
    /\ UNCHANGED <<file, systemd, calls, overlapped>>

\* Variant of SetMode with the bits of an ordinary file.
SetModeOrdinary(p) ==
    /\ path # NoServe
    /\ Step(p, "bound", "serving")
    /\ mode' = "0644"
    /\ UNCHANGED <<dir, path, systemd, calls, overlapped>>

\* set_permissions names the path, not the listener.
SetMode(p) ==
    /\ path # NoServe
    /\ Step(p, "bound", "serving")
    /\ mode' = "0600"
    /\ UNCHANGED <<dir, path, systemd, calls, overlapped>>

SetModeRefused(p) ==
    /\ path = NoServe
    /\ Step(p, "bound", "refused")
    /\ Close(p)
    /\ UNCHANGED <<file, systemd, overlapped>>

\* ctrl_c() completes: nothing more is accepted, but the listener lives on in
\* the server's incoming stream.
Shutdown(p) ==
    /\ Step(p, "serving", "draining")
    /\ UNCHANGED <<file, systemd, calls, overlapped>>

\* The server returns an error: `?` skips the removal of the file.
ServeFails(p) ==
    /\ Step(p, "serving", "failed")
    /\ Close(p)
    /\ UNCHANGED <<file, systemd, overlapped>>

\* Variant of Stop that waits until its backlog is served as well.
StopAfterBacklog(p) ==
    /\ \A c \in Calls : call[c] # p
    /\ Step(p, "draining", "stopped")
    /\ NoFile
    /\ UNCHANGED <<dir, systemd, calls, overlapped>>

\* The server has answered what it accepted and returns; the backlog goes with
\* the listener, and the file at the path is removed, whosever it is.
Stop(p) ==
    /\ \A c \in Calls : call[c] = p => c \in queued
    /\ Step(p, "draining", "stopped")
    /\ Close(p)
    /\ NoFile
    /\ UNCHANGED <<dir, systemd, overlapped>>

\* SIGTERM (what systemd sends) is not handled, SIGKILL and a crash cannot be.
Kill(p) ==
    /\ p \in Running
    /\ pc' = [pc EXCEPT ![p] = "killed"]
    /\ Close(p)
    /\ UNCHANGED <<file, overlapped>>

-----------------------------------------------------------------------------
(* The unit, the operator and kube-apiserver *)

\* Type=simple: ExecStartPost begins as soon as the process exists.
UnitStart(p) ==
    /\ unit = NoServe
    /\ Begin(p)
    /\ unit' = p
    /\ post' = "polling"

ManualStart(p) == Begin(p) /\ UNCHANGED systemd

Killed(p) == Kill(p) /\ UNCHANGED systemd

\* [ -S sock ], or 50 rounds have passed.
PollEnds ==
    /\ post = "polling"
    /\ post' = "chmod"
    /\ UNCHANGED <<pc, file, unit, calls, overlapped>>

\* Variant of Chmod in which it depends on the poll: the socket may be there
\* only after the last round.
ChmodIfPolled ==
    /\ post = "chmod"
    /\ path # NoServe
    /\ mode' \in {mode, "0660"}
    /\ post' = "done"
    /\ UNCHANGED <<pc, dir, path, unit, calls, overlapped>>

\* chmod 0660, by name.
Chmod ==
    /\ post = "chmod"
    /\ path # NoServe
    /\ mode' = "0660"
    /\ post' = "done"
    /\ UNCHANGED <<pc, dir, path, unit, calls, overlapped>>

\* A failing ExecStartPost takes the main process down.
ChmodFails ==
    /\ post = "chmod"
    /\ path = NoServe
    /\ post' = "none"
    /\ \/ Kill(unit)
       \/ unit \notin Running /\ UNCHANGED <<pc, file, calls, overlapped>>
    /\ UNCHANGED unit

\* The main process is gone: RuntimeDirectory is removed with what is in it.
UnitGone ==
    /\ unit # NoServe
    /\ unit \notin Running
    /\ NoFile
    /\ dir' = FALSE
    /\ unit' = NoServe
    /\ post' = "none"
    /\ UNCHANGED <<pc, calls, overlapped>>

\* kube-apiserver is in the socket's group, not its owner; the kernel queues
\* its connection from the bind until the listener is dropped.
Connect(c) ==
    /\ call[c] = "none"
    /\ mode = "0660"
    /\ pc[path] \in {"bound", "serving", "draining"}
    /\ call' = [call EXCEPT ![c] = path]
    /\ queued' = queued \cup {c}
    /\ UNCHANGED <<pc, file, systemd, overlapped>>

\* The server accepts the connection and spawns the call's handler.
Accept(c) ==
    /\ c \in queued
    /\ pc[call[c]] = "serving"
    /\ queued' = queued \ {c}
    /\ UNCHANGED <<pc, file, systemd, call, overlapped>>

Answer(c) ==
    /\ call[c] \in Serves
    /\ c \notin queued
    /\ call' = [call EXCEPT ![c] = "answered"]
    /\ UNCHANGED <<pc, file, systemd, queued, overlapped>>

-----------------------------------------------------------------------------
(* Specification *)

Run(p) ==
    \/ CheckSocket(p) \/ RemoveSocket(p) \/ OpenTpm(p) \/ StartFails(p)
    \/ Bind(p) \/ BindRefused(p) \/ SetMode(p) \/ SetModeRefused(p) \/ Stop(p)

Next ==
    \/ \E p \in Serves :
          \/ UnitStart(p) \/ ManualStart(p) \/ Run(p)
          \/ Shutdown(p) \/ ServeFails(p) \/ Killed(p)
    \/ PollEnds \/ Chmod \/ ChmodFails \/ UnitGone
    \/ \E c \in Calls : Connect(c) \/ Accept(c) \/ Answer(c)

\* Processes and handlers run on; nobody owes a start, a signal or a call.
Fairness ==
    /\ \A p \in Serves : WF_vars(Run(p))
    /\ \A c \in Calls : WF_vars(Accept(c) \/ Answer(c))
    /\ WF_vars(UnitGone) /\ WF_vars(PollEnds \/ Chmod \/ ChmodFails)

Spec == Init /\ [][Next]_vars /\ Fairness

-----------------------------------------------------------------------------
(* Properties *)

\* Every variable has its type, and a socket file has one of three modes.
TypeOK ==
    /\ pc \in [Serves -> Ended \cup {"new", "checking", "removing", "opening",
                  "binding", "bound", "serving", "draining"}]
    /\ dir \in BOOLEAN
    /\ path \in IF dir THEN Serves \cup {NoServe} ELSE {NoServe}
    /\ mode \in IF path = NoServe THEN {"none"} ELSE {"0755", "0600", "0660"}
    /\ unit \in Serves \cup {NoServe}
    /\ post \in {"none", "polling", "chmod", "done"}
    /\ call \in [Calls -> Serves \cup {"none", "answered", "lost"}]
    /\ queued \in SUBSET Calls
    /\ overlapped \in SUBSET Serves

(***************************************************************************)
(* "so a restart does not trip over it" (main.rs:92): whatever its         *)
(* predecessors left behind when they were killed, a serve that runs alone *)
(* never fails over the socket file.                                       *)
(***************************************************************************)
RestartNeverTrips ==
    \A p \in Serves : pc[p] = "refused" => p \in overlapped

(***************************************************************************)
(* Where the unit's chmod and serve's own set_permissions come in the      *)
(* order the unit means (sceau.service:31-33, main.rs:79): a serve that    *)
(* already serves when the unit's chmod is still to come gets its 0660 and *)
(* keeps it as long as it serves alone, whatever else starts, dies or is   *)
(* cleaned up before and after.  UnitSocketIs0660 is the other order.      *)
(***************************************************************************)
LateChmodSticks ==
    \A p \in Serves :
       ( /\ unit = p /\ post \in {"polling", "chmod"}
         /\ pc[p] = "serving" /\ p \notin overlapped )
       ~> [](mode = "0660" \/ pc[p] # "serving" \/ p \in overlapped)

(***************************************************************************)
(* Every connected call is answered, or its connection is closed; also one *)
(* that was queued between bind and the start of the server, or whose      *)
(* serve is losing its socket file to another one.                         *)
(***************************************************************************)
CallsSettle ==
    \A c \in Calls : call[c] \in Serves ~> call[c] \in {"answered", "lost"}

(***************************************************************************)
(* sceau.service:30-32: "root:root + 0750 dir + 0660 socket ... is the     *)
(* combination that actually works. `chmod 0660` is still required:        *)
(* sceau's own set_permissions call defaults the socket to 0600".  Once    *)
(* the unit is up, with a serve that runs alone, the socket has that mode. *)
(***************************************************************************)
UnitSocketIs0660 ==
    (/\ post = "done"
     /\ unit # NoServe
     /\ unit \notin overlapped
     /\ pc[unit] = "serving") => mode = "0660"

(***************************************************************************)
(* main.rs:92: "Remove the socket so a restart does not trip over it."     *)
(* The removal at the end of a drain, when a restarted serve may have      *)
(* bound the path already, leaves the restart's socket alone.              *)
(***************************************************************************)
StopSparesRestart ==
    [][\A p, q \in Serves :
          ( /\ pc[p] = "draining" /\ pc'[p] = "stopped"
            /\ q # p /\ pc[q] = "serving" /\ path = q ) => path' = q]_vars
=============================================================================
