---------------------------- MODULE ServeProofs -----------------------------
(***************************************************************************)
(* Proofs about Serve: for any number of serve processes and calls, killed *)
(* at any step, a serve that runs alone never fails over the socket file.  *)
(***************************************************************************)
EXTENDS Serve, TLAPS

Places == Ended \cup {"new", "checking", "removing", "opening", "binding",
                      "bound", "serving", "draining"}

-----------------------------------------------------------------------------
(* The inductive invariant *)

\* Nobody runs beside a serve that has met no other, and systemd has no
\* cleanup of another one pending.
NobodyElse(p) ==
    /\ \A q \in Running : q = p
    /\ unit \in {p, NoServe}

\* What such a serve knows of the directory and the path at each place.
PathFits(p) ==
    /\ dir
    /\ pc[p] = "removing" => path # NoServe
    /\ pc[p] \in {"opening", "binding"} => path = NoServe
    /\ pc[p] \in {"bound", "serving"} => path = p

AloneOK == \A p \in Running \ overlapped : NobodyElse(p) /\ PathFits(p)

ServeInv == TypeOK /\ AloneOK /\ RestartNeverTrips

-----------------------------------------------------------------------------
(* Steps of one process *)

\* No process is the absent one, and no process is the outcome of a call.
LEMMA Names ==
    ASSUME NEW p \in Serves
    PROVE  p # NoServe /\ p \notin {"none", "answered", "lost"}
BY ServeAssumption

\* A step moves its process and no other.
LEMMA StepFacts ==
    ASSUME TypeOK, NEW p \in Serves, NEW from \in Places, NEW to \in Places,
           Step(p, from, to)
    PROVE  /\ pc' \in [Serves -> Places]
           /\ pc[p] = from /\ pc'[p] = to
           /\ \A q \in Serves \ {p} : pc'[q] = pc[q]
BY DEF TypeOK, Step, Places, Ended

\* Closed connections are still connections that ended, or another serve's.
LEMMA CloseFacts ==
    ASSUME TypeOK, NEW p \in Serves, Close(p)
    PROVE  /\ call' \in [Calls -> Serves \cup {"none", "answered", "lost"}]
           /\ queued' \in SUBSET Calls
BY DEF Close, TypeOK

\* A step of a running process that has nothing to do with the socket file
\* and is no failure over it keeps what is known of lone serves.
LEMMA RunningStep ==
    ASSUME ServeInv, NEW p \in Serves,
           NEW from \in Places \ (Ended \cup {"new"}),
           NEW to \in Places \ {"new"}, Step(p, from, to), UNCHANGED systemd,
           UNCHANGED <<dir, overlapped>>,
           p \notin overlapped =>
              /\ to # "refused"
              /\ to = "removing" => path' # NoServe
              /\ to \in {"opening", "binding"} => path' = NoServe
              /\ to \in {"bound", "serving"} => path' = p
    PROVE  AloneOK' /\ RestartNeverTrips'
<1>1. /\ pc' \in [Serves -> Places]
      /\ pc[p] = from /\ pc'[p] = to
      /\ \A q \in Serves \ {p} : pc'[q] = pc[q]
  BY StepFacts DEF ServeInv
<1>2. p \in Running /\ Running' \subseteq Running
  BY <1>1 DEF Running
<1>3. ASSUME NEW r \in Running' \ overlapped'
      PROVE  NobodyElse(r)' /\ PathFits(r)'
  <2>1. r \in Running \ overlapped /\ overlapped' = overlapped
    BY <1>2, <1>3
  <2>2. NobodyElse(r)
    BY <2>1 DEF ServeInv, AloneOK
  <2>3. r = p
    BY <2>2, <1>2 DEF NobodyElse
  <2>4. NobodyElse(r)'
    BY <2>2, <1>2 DEF NobodyElse, systemd
  <2>5. PathFits(r)
    BY <2>1 DEF ServeInv, AloneOK
  <2>6. PathFits(r)'
    BY <2>1, <2>3, <2>5, <1>1 DEF PathFits
  <2> QED BY <2>4, <2>6
<1>4. RestartNeverTrips'
  BY <1>1 DEF ServeInv, RestartNeverTrips
<1> QED BY <1>3, <1>4 DEF AloneOK

\* What a step of a lone running process may rely on.
LEMMA AloneFacts ==
    ASSUME ServeInv, NEW p \in Serves \ overlapped,
           pc[p] \notin Ended \cup {"new"}
    PROVE  NobodyElse(p) /\ PathFits(p)
BY DEF ServeInv, AloneOK, Running

\* The first steps of run_serve, and every failure before the bind.
LEMMA StartKeepsInv ==
    ASSUME ServeInv, NEW p \in Serves,
           CheckSocket(p) \/ RemoveSocket(p) \/ OpenTpm(p) \/ StartFails(p)
    PROVE  ServeInv'
<1> USE DEF Places, Ended
<1>1. CASE CheckSocket(p)
  <2> DEFINE to == IF path = NoServe THEN "opening" ELSE "removing"
  <2>1. Step(p, "checking", to) /\ to \in {"opening", "removing"}
    BY <1>1 DEF CheckSocket
  <2>2. UNCHANGED <<dir, path, mode, unit, post, call, queued, overlapped>>
    BY <1>1 DEF CheckSocket, file, systemd, calls
  <2>3. AloneOK' /\ RestartNeverTrips'
    BY <2>1, <2>2, RunningStep DEF systemd
  <2>4. TypeOK'
    BY <2>1, <2>2, StepFacts DEF ServeInv, TypeOK
  <2> QED BY <2>3, <2>4 DEF ServeInv
<1>2. CASE RemoveSocket(p)
  <2> DEFINE to == IF path = NoServe THEN "refused" ELSE "opening"
  <2>1. Step(p, "removing", to) /\ to \in {"refused", "opening"}
    BY <1>2 DEF RemoveSocket
  <2>2. /\ path' = NoServe /\ mode' = "none"
        /\ UNCHANGED <<dir, unit, post, call, queued, overlapped>>
    BY <1>2 DEF RemoveSocket, NoFile, systemd, calls
  <2>3. p \notin overlapped => to = "opening"
    BY <2>1, AloneFacts DEF Step, PathFits
  <2>4. AloneOK' /\ RestartNeverTrips'
    BY <2>1, <2>2, <2>3, RunningStep DEF systemd
  <2>5. TypeOK'
    BY <2>1, <2>2, StepFacts DEF ServeInv, TypeOK
  <2> QED BY <2>4, <2>5 DEF ServeInv
<1>3. CASE OpenTpm(p)
  <2>1. Step(p, "opening", "binding")
    BY <1>3 DEF OpenTpm
  <2>2. UNCHANGED <<dir, path, mode, unit, post, call, queued, overlapped>>
    BY <1>3 DEF OpenTpm, file, systemd, calls
  <2>3. p \notin overlapped => path' = NoServe
    BY <2>1, <2>2, AloneFacts DEF Step, PathFits
  <2>4. AloneOK' /\ RestartNeverTrips'
    BY <2>1, <2>2, <2>3, RunningStep DEF systemd
  <2>5. TypeOK'
    BY <2>1, <2>2, StepFacts DEF ServeInv, TypeOK
  <2> QED BY <2>4, <2>5 DEF ServeInv
<1>4. CASE StartFails(p)
  <2>1. PICK from \in {"checking", "removing", "opening"} :
           Step(p, from, "failed")
    BY <1>4 DEF StartFails
  <2>2. UNCHANGED <<dir, path, mode, unit, post, call, queued, overlapped>>
    BY <1>4 DEF StartFails, file, systemd, calls
  <2>3. AloneOK' /\ RestartNeverTrips'
    BY <2>1, <2>2, RunningStep DEF systemd
  <2>4. TypeOK'
    BY <2>1, <2>2, StepFacts DEF ServeInv, TypeOK
  <2> QED BY <2>3, <2>4 DEF ServeInv
<1> QED BY <1>1, <1>2, <1>3, <1>4

\* From the bind to the running server.
LEMMA BindKeepsInv ==
    ASSUME ServeInv, NEW p \in Serves,
           Bind(p) \/ BindRefused(p) \/ SetMode(p) \/ SetModeRefused(p)
    PROVE  ServeInv'
<1> USE DEF Places, Ended
<1>1. CASE Bind(p)
  <2>1. Step(p, "binding", "bound")
    BY <1>1 DEF Bind
  <2>2. /\ path' = p /\ mode' = "0755"
        /\ dir /\ UNCHANGED <<dir, unit, post, call, queued, overlapped>>
    BY <1>1 DEF Bind, systemd, calls
  <2>3. AloneOK' /\ RestartNeverTrips'
    BY <2>1, <2>2, RunningStep DEF systemd
  <2>4. TypeOK'
    BY <2>1, <2>2, StepFacts, Names DEF ServeInv, TypeOK
  <2> QED BY <2>3, <2>4 DEF ServeInv
<1>2. CASE BindRefused(p)
  <2>1. Step(p, "binding", "refused") /\ (path # NoServe \/ ~dir)
    BY <1>2 DEF BindRefused
  <2>2. UNCHANGED <<dir, path, mode, unit, post, call, queued, overlapped>>
    BY <1>2 DEF BindRefused, file, systemd, calls
  <2>3. p \in overlapped
    BY <2>1, AloneFacts DEF Step, PathFits
  <2>4. AloneOK' /\ RestartNeverTrips'
    BY <2>1, <2>2, <2>3, RunningStep DEF systemd
  <2>5. TypeOK'
    BY <2>1, <2>2, StepFacts DEF ServeInv, TypeOK
  <2> QED BY <2>4, <2>5 DEF ServeInv
<1>3. CASE SetMode(p)
  <2>1. Step(p, "bound", "serving") /\ path # NoServe
    BY <1>3 DEF SetMode
  <2>2. /\ mode' = "0600"
        /\ UNCHANGED <<dir, path, unit, post, call, queued, overlapped>>
    BY <1>3 DEF SetMode, systemd, calls
  <2>3. p \notin overlapped => path' = p
    BY <2>1, <2>2, AloneFacts DEF Step, PathFits
  <2>4. AloneOK' /\ RestartNeverTrips'
    BY <2>1, <2>2, <2>3, RunningStep DEF systemd
  <2>5. TypeOK'
    BY <2>1, <2>2, StepFacts DEF ServeInv, TypeOK
  <2> QED BY <2>4, <2>5 DEF ServeInv
<1>4. CASE SetModeRefused(p)
  <2>1. Step(p, "bound", "refused") /\ path = NoServe /\ Close(p)
    BY <1>4 DEF SetModeRefused
  <2>2. UNCHANGED <<dir, path, mode, unit, post, overlapped>>
    BY <1>4 DEF SetModeRefused, file, systemd
  <2>3. p \in overlapped
    BY <2>1, AloneFacts, Names DEF Step, PathFits
  <2>4. AloneOK' /\ RestartNeverTrips'
    BY <2>1, <2>2, <2>3, RunningStep DEF systemd
  <2>5. TypeOK'
    BY <2>1, <2>2, StepFacts, CloseFacts DEF ServeInv, TypeOK
  <2> QED BY <2>4, <2>5 DEF ServeInv
<1> QED BY <1>1, <1>2, <1>3, <1>4

\* The ends of a server: shut down gracefully or with an error, ...
LEMMA ShutdownKeepsInv ==
    ASSUME ServeInv, NEW p \in Serves, Shutdown(p) \/ ServeFails(p) \/ Stop(p)
    PROVE  ServeInv'
<1> USE DEF Places, Ended
<1>1. CASE Shutdown(p)
  <2>1. Step(p, "serving", "draining")
    BY <1>1 DEF Shutdown
  <2>2. UNCHANGED <<dir, path, mode, unit, post, call, queued, overlapped>>
    BY <1>1 DEF Shutdown, file, systemd, calls
  <2>3. AloneOK' /\ RestartNeverTrips'
    BY <2>1, <2>2, RunningStep DEF systemd
  <2>4. TypeOK'
    BY <2>1, <2>2, StepFacts DEF ServeInv, TypeOK
  <2> QED BY <2>3, <2>4 DEF ServeInv
<1>2. CASE ServeFails(p)
  <2>1. Step(p, "serving", "failed") /\ Close(p)
    BY <1>2 DEF ServeFails
  <2>2. UNCHANGED <<dir, path, mode, unit, post, overlapped>>
    BY <1>2 DEF ServeFails, file, systemd
  <2>3. AloneOK' /\ RestartNeverTrips'
    BY <2>1, <2>2, RunningStep DEF systemd
  <2>4. TypeOK'
    BY <2>1, <2>2, StepFacts, CloseFacts DEF ServeInv, TypeOK
  <2> QED BY <2>3, <2>4 DEF ServeInv
<1>3. CASE Stop(p)
  <2>1. Step(p, "draining", "stopped") /\ Close(p)
    BY <1>3 DEF Stop
  <2>2. /\ path' = NoServe /\ mode' = "none"
        /\ UNCHANGED <<dir, unit, post, overlapped>>
    BY <1>3 DEF Stop, NoFile, systemd
  <2>3. AloneOK' /\ RestartNeverTrips'
    BY <2>1, <2>2, RunningStep DEF systemd
  <2>4. TypeOK'
    BY <2>1, <2>2, StepFacts, CloseFacts DEF ServeInv, TypeOK
  <2> QED BY <2>3, <2>4 DEF ServeInv
<1> QED BY <1>1, <1>2, <1>3

\* ... or killed, which systemd also does when its chmod fails.
LEMMA KillKeepsInv ==
    ASSUME ServeInv, NEW p \in Serves, Kill(p), UNCHANGED unit,
           post' \in {post, "none"}
    PROVE  ServeInv'
<1> USE DEF Places, Ended
<1>1. /\ p \in Running /\ Close(p)
      /\ UNCHANGED <<dir, path, mode, unit, overlapped>>
  BY DEF Kill, file
<1>2. /\ pc' \in [Serves -> Places] /\ pc'[p] = "killed"
      /\ \A q \in Serves \ {p} : pc'[q] = pc[q]
  BY DEF Kill, ServeInv, TypeOK
<1>3. Running' = Running \ {p}
  BY <1>1, <1>2 DEF Running
<1>4. AloneOK'
  <2> SUFFICES ASSUME NEW r \in Running' \ overlapped'
               PROVE  FALSE
    BY DEF AloneOK
  <2>1. r \in Running \ overlapped /\ r # p
    BY <1>1, <1>3
  <2> QED BY <2>1, <1>1 DEF ServeInv, AloneOK, NobodyElse
<1>5. RestartNeverTrips'
  BY <1>1, <1>2 DEF ServeInv, RestartNeverTrips
<1>6. TypeOK'
  BY <1>1, <1>2, CloseFacts DEF ServeInv, TypeOK
<1> QED BY <1>4, <1>5, <1>6 DEF ServeInv

-----------------------------------------------------------------------------
(* Starts, the unit and the calls *)

\* A start beside another serve, or before its cleanup, marks both; one with
\* nobody around is alone.
LEMMA BeginKeepsInv ==
    ASSUME ServeInv, NEW p \in Serves, UnitStart(p) \/ ManualStart(p)
    PROVE  ServeInv'
<1> USE DEF Places, Ended
<1> DEFINE others == Running \cup ({unit} \ {NoServe})
<1>1. /\ Step(p, "new", "checking")
      /\ overlapped' = IF others = {} THEN overlapped
                       ELSE overlapped \cup others \cup {p}
      /\ dir' = TRUE
      /\ UNCHANGED <<path, mode, call, queued>>
  BY DEF UnitStart, ManualStart, Begin, calls
<1>2. \/ unit' = p /\ post' = "polling"
      \/ unit' = unit /\ post' = post
  BY DEF UnitStart, ManualStart, systemd
<1>3. /\ pc' \in [Serves -> Places]
      /\ pc[p] = "new" /\ pc'[p] = "checking"
      /\ \A q \in Serves \ {p} : pc'[q] = pc[q]
  BY <1>1, StepFacts DEF ServeInv
<1>4. Running' = Running \cup {p} /\ p \notin Running
  BY <1>3 DEF Running
<1>5. others \subseteq Serves
  BY DEF ServeInv, TypeOK, Running
<1>6. AloneOK'
  <2> SUFFICES ASSUME NEW r \in Running' \ overlapped'
               PROVE  NobodyElse(r)' /\ PathFits(r)'
    BY DEF AloneOK
  <2>1. others = {} /\ r = p
    <3>1. CASE others = {}
      BY <3>1, <1>4
    <3>2. CASE others # {}
      BY <3>2, <1>1, <1>4
    <3> QED BY <3>1, <3>2
  <2>2. NobodyElse(r)'
    <3>1. Running' = {p}
      BY <2>1, <1>4
    <3>2. unit = NoServe
      BY <2>1
    <3> QED BY <3>1, <3>2, <2>1, <1>2 DEF NobodyElse
  <2>3. PathFits(r)'
    BY <2>1, <1>1, <1>3 DEF PathFits
  <2> QED BY <2>2, <2>3
<1>7. RestartNeverTrips'
  BY <1>1, <1>3 DEF ServeInv, RestartNeverTrips
<1>8. TypeOK'
  <2>1. overlapped' \in SUBSET Serves
    BY <1>1, <1>5 DEF ServeInv, TypeOK
  <2> QED BY <2>1, <1>1, <1>2, <1>3 DEF ServeInv, TypeOK
<1> QED BY <1>6, <1>7, <1>8 DEF ServeInv

\* The unit's ExecStartPost and the removal of its RuntimeDirectory.
LEMMA UnitKeepsInv ==
    ASSUME ServeInv, PollEnds \/ Chmod \/ ChmodFails \/ UnitGone
    PROVE  ServeInv'
<1>1. CASE PollEnds
  <2>1. /\ post' = "chmod"
        /\ UNCHANGED <<pc, dir, path, mode, unit, call, queued, overlapped>>
    BY <1>1 DEF PollEnds, file, calls
  <2> QED BY <2>1 DEF ServeInv, TypeOK, AloneOK, NobodyElse, PathFits,
                      RestartNeverTrips, Running
<1>2. CASE Chmod
  <2>1. /\ post' = "done" /\ mode' = "0660" /\ path # NoServe
        /\ UNCHANGED <<pc, dir, path, unit, call, queued, overlapped>>
    BY <1>2 DEF Chmod, calls
  <2> QED BY <2>1 DEF ServeInv, TypeOK, AloneOK, NobodyElse, PathFits,
                      RestartNeverTrips, Running
<1>3. CASE ChmodFails
  <2>1. CASE Kill(unit)
    <3>1. unit \in Serves
      BY <2>1 DEF Kill, Running
    <3> QED BY <1>3, <2>1, <3>1, KillKeepsInv DEF ChmodFails
  <2>2. CASE UNCHANGED <<pc, file, calls, overlapped>>
    <3>1. /\ post' = "none"
          /\ UNCHANGED <<pc, dir, path, mode, unit, call, queued, overlapped>>
      BY <1>3, <2>2 DEF ChmodFails, file, calls
    <3> QED BY <3>1 DEF ServeInv, TypeOK, AloneOK, NobodyElse, PathFits,
                        RestartNeverTrips, Running
  <2> QED BY <1>3, <2>1, <2>2 DEF ChmodFails
<1>4. CASE UnitGone
  <2>1. /\ unit # NoServe /\ unit \notin Running
        /\ dir' = FALSE /\ path' = NoServe /\ mode' = "none"
        /\ unit' = NoServe /\ post' = "none"
        /\ UNCHANGED <<pc, call, queued, overlapped>>
    BY <1>4 DEF UnitGone, NoFile, calls
  <2>2. Running' = Running
    BY <2>1 DEF Running
  <2>3. Running \ overlapped = {}
    <3> SUFFICES ASSUME NEW r \in Running \ overlapped
                 PROVE  FALSE
      OBVIOUS
    <3> QED BY <2>1 DEF ServeInv, AloneOK, NobodyElse
  <2>4. AloneOK'
    BY <2>1, <2>2, <2>3 DEF AloneOK
  <2>5. TypeOK' /\ RestartNeverTrips'
    BY <2>1 DEF ServeInv, TypeOK, RestartNeverTrips
  <2> QED BY <2>4, <2>5 DEF ServeInv
<1> QED BY <1>1, <1>2, <1>3, <1>4

\* A call's connection, its handler and its answer.
LEMMA CallKeepsInv ==
    ASSUME ServeInv, NEW c \in Calls, Connect(c) \/ Accept(c) \/ Answer(c)
    PROVE  ServeInv'
<1>1. UNCHANGED <<pc, dir, path, mode, unit, post, overlapped>>
  BY DEF Connect, Accept, Answer, file, systemd
<1>2. AloneOK' /\ RestartNeverTrips'
  BY <1>1 DEF ServeInv, AloneOK, NobodyElse, PathFits, RestartNeverTrips,
              Running
<1>3. /\ call' \in [Calls -> Serves \cup {"none", "answered", "lost"}]
      /\ queued' \in SUBSET Calls
  <2>1. CASE Connect(c)
    <3>1. path \in Serves
      BY <2>1 DEF Connect, ServeInv, TypeOK
    <3> QED BY <2>1, <3>1 DEF Connect, ServeInv, TypeOK
  <2>2. CASE Accept(c)
    BY <2>2 DEF Accept, ServeInv, TypeOK
  <2>3. CASE Answer(c)
    BY <2>3 DEF Answer, ServeInv, TypeOK
  <2> QED BY <2>1, <2>2, <2>3
<1>4. TypeOK'
  BY <1>1, <1>3 DEF ServeInv, TypeOK
<1> QED BY <1>2, <1>3, <1>4 DEF ServeInv

-----------------------------------------------------------------------------
(* Theorems *)

\* Every reachable state satisfies the inductive invariant: whoever starts,
\* dies or connects, a serve that met no other still has the directory and
\* the path as it left them.
THEOREM ServeInvariant == Spec => []ServeInv
<1>1. Init => ServeInv
  <2> SUFFICES ASSUME Init PROVE ServeInv
    OBVIOUS
  <2>1. TypeOK
    BY DEF Init, TypeOK, Ended
  <2>2. Running = {}
    BY DEF Init, Running
  <2>3. "none" \notin Serves
    BY ServeAssumption
  <2> QED BY <2>1, <2>2, <2>3 DEF Init, ServeInv, AloneOK,
                                  RestartNeverTrips
<1>2. ServeInv /\ [Next]_vars => ServeInv'
  <2> SUFFICES ASSUME ServeInv, [Next]_vars PROVE ServeInv'
    OBVIOUS
  <2>1. ASSUME NEW p \in Serves, UnitStart(p) \/ ManualStart(p)
        PROVE  ServeInv'
    BY <2>1, BeginKeepsInv
  <2>2. ASSUME NEW p \in Serves, Run(p)
        PROVE  ServeInv'
    BY <2>2, StartKeepsInv, BindKeepsInv, ShutdownKeepsInv DEF Run
  <2>3. ASSUME NEW p \in Serves, Shutdown(p) \/ ServeFails(p)
        PROVE  ServeInv'
    BY <2>3, ShutdownKeepsInv
  <2>4. ASSUME NEW p \in Serves, Killed(p)
        PROVE  ServeInv'
    BY <2>4, KillKeepsInv DEF Killed, systemd
  <2>5. CASE PollEnds \/ Chmod \/ ChmodFails \/ UnitGone
    BY <2>5, UnitKeepsInv
  <2>6. ASSUME NEW c \in Calls, Connect(c) \/ Accept(c) \/ Answer(c)
        PROVE  ServeInv'
    BY <2>6, CallKeepsInv
  <2>7. CASE UNCHANGED vars
    BY <2>7 DEF vars, file, systemd, calls, ServeInv, TypeOK, AloneOK,
                NobodyElse, PathFits, RestartNeverTrips, Running
  <2> QED BY <2>1, <2>2, <2>3, <2>4, <2>5, <2>6, <2>7 DEF Next
<1> QED BY <1>1, <1>2, PTL DEF Spec

\* Every variable keeps its type, and a socket file has one of three modes.
THEOREM ServeTypeCorrect == Spec => []TypeOK
<1>1. ServeInv => TypeOK
  BY DEF ServeInv
<1> QED BY <1>1, ServeInvariant, PTL

\* However many predecessors were killed, and wherever, a serve that runs
\* alone never fails over the socket file (main.rs:92).
THEOREM RestartIsSafe == Spec => []RestartNeverTrips
<1>1. ServeInv => RestartNeverTrips
  BY DEF ServeInv
<1> QED BY <1>1, ServeInvariant, PTL
=============================================================================
