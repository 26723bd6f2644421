------------------------------ MODULE SessionLease ------------------------------
(***************************************************************************)
(* One live trading session and the pods of the trading service             *)
(* (services/trading/src).  A runner lives in the memory of one pod.  The    *)
(* pod that runs a session holds its Postgres advisory lock on a connection *)
(* it keeps in _leases; StartSession and the periodic rehydrate pass both   *)
(* claim it (recovery.py, services/live_session_service.py,                  *)
(* runner/runner.py RunnerManager).  Connections break, pods crash, runners  *)
(* take time to start, and the calls of one pod interleave at their awaits.  *)
(***************************************************************************)
EXTENDS Naturals, FiniteSets

CONSTANTS
    Pods,
    First,          \* the pod that gets the start_session call
    Nobody,         \* the lock is free; no pod has been asked
    MaxCalls,       \* bound: how often the session is stopped, paused or resumed
    MaxFaults,      \* bound: crashes, lost connections, failed and slow starts, ended
                    \* and failed runners
    MaxEvents       \* bound: calls and faults together

ASSUME SessionConstants ==
    /\ First \in Pods /\ Nobody \notin Pods
    /\ MaxCalls \in Nat /\ MaxFaults \in Nat /\ MaxEvents \in Nat

VARIABLES
    row,        \* status of the trading_sessions row
    lock,       \* the pod whose lease connection holds the advisory lock
    lease,      \* the pods that have an entry in _leases
    runner,     \* the entry of each pod's RunnerManager
    start,      \* the start_session call
    pass,       \* each pod's rehydrate pass
    call,       \* the stop_session, pause_session and resume_session calls
    faults,
    orphan      \* history: pods whose lease was taken from a runner they kept

vars == <<row, lock, lease, runner, start, pass, call, faults, orphan>>

Live == {"running", "paused"}

Calls == 1..MaxCalls

NotMade == [op |-> "none", pod |-> Nobody, at |-> "new"]
Over == [NotMade EXCEPT !.at = "done"]

Init ==
    /\ row = "none"
    /\ lock = Nobody
    /\ lease = {}
    /\ runner = [p \in Pods |-> "none"]
    /\ start = [pod |-> Nobody, at |-> "new"]
    /\ pass = [p \in Pods |-> "idle"]
    /\ call = [c \in Calls |-> NotMade]
    /\ faults = 0
    /\ orphan = {}

Made == {c \in Calls : call[c] # NotMade}

Fault ==
    /\ faults < MaxFaults
    /\ faults + Cardinality(Made) < MaxEvents
    /\ faults' = faults + 1

-----------------------------------------------------------------------------
(* The runner of a pod: starting until start() has connected its streams,    *)
(* then running; its task ends, or fails, and the entry stays.               *)

Active(p) == runner[p] \in {"starting", "running"}

\* RunnerManager.stop_runner: awaiting the task of a failed runner raises what the
\* task raised, before the entry is deleted.
Stops(p) ==
    runner' = IF runner[p] = "failed" THEN runner ELSE [runner EXCEPT ![p] = "none"]

\* What the callers that look in active_runners do: a runner that is still starting
\* is not in it.  Deleting the entry and popping the lease have no await in between.
StopsActive(p) ==
    IF runner[p] = "running" THEN Stops(p) ELSE UNCHANGED runner

\* RunnerManager.start_runner registers the runner and creates its task.
Registers(p) == runner' = [runner EXCEPT ![p] = "starting"]

RunnerUp(p) ==
    /\ runner[p] = "starting"
    /\ runner' = [runner EXCEPT ![p] = "running"]
    /\ UNCHANGED <<row, lock, lease, start, pass, call, faults, orphan>>

\* start() or the bar loop raises.
RunnerFails(p) ==
    /\ Active(p)
    /\ Fault
    /\ runner' = [runner EXCEPT ![p] = "failed"]
    /\ UNCHANGED <<row, lock, lease, start, pass, call, orphan>>

\* The bar stream ends.
RunnerEnds(p) ==
    /\ runner[p] = "running"
    /\ Fault
    /\ runner' = [runner EXCEPT ![p] = "ended"]
    /\ UNCHANGED <<row, lock, lease, start, pass, call, orphan>>

-----------------------------------------------------------------------------
(* Leases.  An entry is popped at once, its lock given back an await later.  *)

\* An entry counts if its connection holds the lock.
HoldsLive(p) == p \in lease /\ lock = p

\* Another call of the pod has its claim and is about to start the runner.
StartClaimed(p) == start = [pod |-> p, at |-> "run"]
PassClaimed(p) == pass[p] = "run"

\* The entry is popped.  The pod is left with a runner that has no lease if one is
\* there that the caller leaves alone, or another call is about to start one.
Pops(p, leaves) ==
    /\ lease' = lease \ {p}
    /\ orphan' = IF p \in lease /\ leaves THEN orphan \cup {p} ELSE orphan

\* Plausible bug: the connection goes back to its pool without unlocking.
UnlockForgets(p) == UNCHANGED lock

\* The popped connection gives the lock back, if it still has it.
Unlocks(p) == lock' = IF lock = p /\ p \notin lease THEN Nobody ELSE lock

\* _try_claim, second half: a new connection tries the lock.
Locks(p) ==
    IF lock = Nobody
    THEN lock' = p /\ lease' = lease \cup {p} /\ orphan' = orphan \ {p}
    ELSE UNCHANGED <<lock, lease, orphan>>

-----------------------------------------------------------------------------
(* start_session, on the pod that got the call.                            *)

StartAt(p, step) == start = [pod |-> p, at |-> step]

StartGoes(p, step) == start' = [pod |-> p, at |-> step]

Started == [pod |-> Nobody, at |-> "done"]

\* The checks pass and the row is committed RUNNING, before there is a lease.
StartRow(p) ==
    /\ p = First
    /\ start.at = "new"
    /\ row' = "running"
    /\ StartGoes(p, "claim")
    /\ UNCHANGED <<lock, lease, runner, pass, call, faults, orphan>>

\* Plausible bug: the start path takes no lease.
StartWithoutLease(p) ==
    /\ StartAt(p, "claim")
    /\ StartGoes(p, "run")
    /\ UNCHANGED <<row, lock, lease, runner, pass, call, faults, orphan>>

\* _try_claim, first half: a torn entry is dropped.
StartClaim(p) ==
    /\ StartAt(p, "claim")
    /\ IF HoldsLive(p) THEN StartGoes(p, "run") /\ UNCHANGED <<lease, orphan>>
       ELSE StartGoes(p, "lock") /\ Pops(p, Active(p) \/ PassClaimed(p))
    /\ UNCHANGED <<row, lock, runner, pass, call, faults>>

StartLock(p) ==
    /\ StartAt(p, "lock")
    /\ Locks(p)
    /\ StartGoes(p, IF lock = Nobody THEN "run" ELSE "fail")
    /\ UNCHANGED <<row, runner, pass, call, faults>>

\* _start_runner, after the warm-up: start_runner refuses a second runner.
StartRun(p) ==
    /\ StartAt(p, "run")
    /\ IF runner[p] = "none"
       THEN Registers(p) /\ start' = Started
       ELSE UNCHANGED runner /\ StartGoes(p, "fail")
    /\ UNCHANGED <<row, lock, lease, pass, call, faults, orphan>>

StartBreaks(p) ==
    /\ StartAt(p, "run")
    /\ Fault
    /\ StartGoes(p, "fail")
    /\ UNCHANGED <<row, lock, lease, runner, pass, call, orphan>>

\* The except clause: the lease is released, then the row marked.
StartFail(p) ==
    /\ StartAt(p, "fail")
    /\ Pops(p, Active(p) \/ PassClaimed(p))
    /\ StartGoes(p, IF p \in lease THEN "unlock" ELSE "error")
    /\ UNCHANGED <<row, lock, runner, pass, call, faults>>

StartUnlock(p) ==
    /\ StartAt(p, "unlock")
    /\ Unlocks(p)
    /\ StartGoes(p, "error")
    /\ UNCHANGED <<row, lease, runner, pass, call, faults, orphan>>

StartError(p) ==
    /\ StartAt(p, "error")
    /\ row' = "error"
    /\ start' = Started
    /\ UNCHANGED <<lock, lease, runner, pass, call, faults, orphan>>

Start(p) ==
    \/ StartClaim(p) \/ StartLock(p) \/ StartRun(p) \/ StartBreaks(p)
    \/ StartFail(p) \/ StartUnlock(p) \/ StartError(p)

-----------------------------------------------------------------------------
(* The rehydrate pass.                                                     *)

PassAt(p, step) == pass[p] = step

PassGoes(p, step) == pass' = [pass EXCEPT ![p] = step]

PassEnds(p) == PassGoes(p, "idle")

PassFails(p) == PassGoes(p, "pop")

\* Plausible bug: dead leases are not looked for.
PassWithoutSweep(p) ==
    /\ PassAt(p, "idle")
    /\ p \in lease /\ lock # p
    /\ PassGoes(p, "read")
    /\ UNCHANGED <<row, lock, lease, runner, start, call, faults, orphan>>

\* sweep_dead_leases: a dead lease is dropped, then its runner stopped.
PassSweep(p) ==
    /\ PassAt(p, "idle")
    /\ p \in lease /\ lock # p
    /\ Pops(p, StartClaimed(p))
    /\ PassGoes(p, "sweep")
    /\ UNCHANGED <<row, lock, runner, start, call, faults>>

PassSweepStop(p) ==
    /\ PassAt(p, "sweep")
    /\ Stops(p)
    /\ PassGoes(p, "read")
    /\ UNCHANGED <<row, lock, lease, start, call, faults, orphan>>

\* _load_live_specs: what the rest of the pass takes the session to be.
PassRead(p) ==
    /\ PassAt(p, "read") \/ (PassAt(p, "idle") /\ ~(p \in lease /\ lock # p))
    /\ PassGoes(p, IF row \in Live THEN "live" ELSE "dead")
    /\ UNCHANGED <<row, lock, lease, runner, start, call, faults, orphan>>

\* Plausible bug: the runner of a session that is no longer live is kept.
PassKeeps(p) ==
    /\ PassAt(p, "dead")
    /\ PassEnds(p)
    /\ UNCHANGED <<row, lock, lease, runner, start, call, faults, orphan>>

\* The session is not live: a lease on it is dropped, with the runner if that one
\* is running.
PassDrops(p) ==
    /\ PassAt(p, "dead")
    /\ IF p \notin lease THEN PassEnds(p) /\ UNCHANGED <<runner, lease, orphan>>
       ELSE /\ StopsActive(p)
            /\ Pops(p, runner[p] = "starting" \/ StartClaimed(p))
            /\ PassGoes(p, "unlock")
    /\ UNCHANGED <<row, lock, start, call, faults>>

\* release_session_lease, after a failed start.
PassPop(p) ==
    /\ PassAt(p, "pop")
    /\ Pops(p, Active(p) \/ StartClaimed(p))
    /\ IF p \in lease THEN PassGoes(p, "unlock") ELSE PassEnds(p)
    /\ UNCHANGED <<row, lock, runner, start, call, faults>>

PassUnlock(p) ==
    /\ PassAt(p, "unlock")
    /\ Unlocks(p)
    /\ PassEnds(p)
    /\ UNCHANGED <<row, lease, runner, start, call, faults, orphan>>

\* _try_claim, first half.
PassClaims(p) ==
    IF HoldsLive(p) THEN PassGoes(p, "run") /\ UNCHANGED <<lease, orphan>>
    ELSE PassGoes(p, "lock") /\ Pops(p, Active(p) \/ StartClaimed(p))

\* Plausible bug: a runner that is present counts, whether or not it runs.
PassLivePresent(p) ==
    /\ PassAt(p, "live")
    /\ IF runner[p] # "none" THEN PassEnds(p) /\ UNCHANGED <<lease, orphan>>
       ELSE PassClaims(p)
    /\ UNCHANGED <<row, lock, runner, start, call, faults>>

\* The session is live: a running runner is left alone, whatever its row says; any
\* other entry is evicted, if it can be; then the session is claimed.  A pass meets a
\* runner that is still starting when start() outlasts the interval between passes:
\* it counts as a fault, so that the starts of one session are not outrun for ever.
PassLive(p) ==
    /\ PassAt(p, "live")
    /\ \/ /\ runner[p] = "running"
          /\ PassEnds(p)
          /\ UNCHANGED <<runner, lease, faults, orphan>>
       \/ /\ runner[p] = "none"
          /\ PassClaims(p)
          /\ UNCHANGED <<runner, faults>>
       \/ /\ runner[p] \in {"starting", "ended", "failed"}
          /\ IF runner[p] = "starting" THEN Fault ELSE UNCHANGED faults
          /\ Stops(p)
          /\ PassGoes(p, "claim")
          /\ UNCHANGED <<lease, orphan>>
    /\ UNCHANGED <<row, lock, start, call>>

PassClaim(p) ==
    /\ PassAt(p, "claim")
    /\ PassClaims(p)
    /\ UNCHANGED <<row, lock, runner, start, call, faults>>

PassLock(p) ==
    /\ PassAt(p, "lock")
    /\ Locks(p)
    /\ IF lock = Nobody THEN PassGoes(p, "run") ELSE PassEnds(p)
    /\ UNCHANGED <<row, runner, start, call, faults>>

\* _rehydrate_one, with the status the pass has read.
PassRun(p) ==
    /\ PassAt(p, "run")
    /\ IF runner[p] = "none"
       THEN Registers(p) /\ PassEnds(p)
       ELSE PassFails(p) /\ UNCHANGED runner
    /\ UNCHANGED <<row, lock, lease, start, call, faults, orphan>>

PassBreaks(p) ==
    /\ PassAt(p, "run")
    /\ Fault
    /\ PassFails(p)
    /\ UNCHANGED <<row, lock, lease, runner, start, call, orphan>>

Pass(p) ==
    \/ PassSweep(p) \/ PassSweepStop(p) \/ PassRead(p) \/ PassDrops(p) \/ PassLive(p)
    \/ PassClaim(p) \/ PassLock(p) \/ PassRun(p) \/ PassBreaks(p)
    \/ PassPop(p) \/ PassUnlock(p)

-----------------------------------------------------------------------------
(* stop_session, pause_session and resume_session, on any pod.  Each reads the *)
(* row, works on the local runner and then writes the row on the strength of  *)
(* what it read.                                                             *)

CallAt(c, op, step) == call[c].op = op /\ call[c].at = step

CallGoes(c, step) == call' = [call EXCEPT ![c] = [@ EXCEPT !.at = step]]

CallEnds(c) == call' = [call EXCEPT ![c] = Over]

Begins(c, op, p, step) ==
    /\ c = Cardinality(Made) + 1
    /\ faults + Cardinality(Made) < MaxEvents
    /\ row # "none"
    /\ call' = [call EXCEPT ![c] = IF step = "done" THEN Over
                                   ELSE [op |-> op, pod |-> p, at |-> step]]

\* _stop_runner stops the runner if it is running, and releases the lease.  A call
\* that read STOPPED does this too, and leaves the row as it finds it.
StopRunner(c, p) ==
    /\ StopsActive(p)
    /\ Pops(p, runner[p] = "starting" \/ StartClaimed(p) \/ PassClaimed(p))
    /\ Begins(c, IF row = "stopped" THEN "again" ELSE "stop", p,
              IF p \in lease THEN "unlock" ELSE IF row = "stopped" THEN "done" ELSE "row")
    /\ UNCHANGED <<row, lock, start, pass, faults>>

StopUnlock(c) ==
    /\ call[c].at = "unlock"
    /\ Unlocks(call[c].pod)
    /\ IF call[c].op = "stop" THEN CallGoes(c, "row") ELSE CallEnds(c)
    /\ UNCHANGED <<row, lease, runner, start, pass, faults, orphan>>

StopRow(c) ==
    /\ CallAt(c, "stop", "row")
    /\ row' = "stopped"
    /\ CallEnds(c)
    /\ UNCHANGED <<lock, lease, runner, start, pass, faults, orphan>>

\* The local runner is switched, whatever the row says; whether a runner is
\* switched off changes nothing here.
PauseRunner(c, p) ==
    /\ Begins(c, "pause", p, IF row = "running" THEN "row" ELSE "done")
    /\ UNCHANGED <<row, lock, lease, runner, start, pass, faults, orphan>>

PauseRow(c) ==
    /\ CallAt(c, "pause", "row")
    /\ row' = "paused"
    /\ CallEnds(c)
    /\ UNCHANGED <<lock, lease, runner, start, pass, faults, orphan>>

ResumeRunner(c, p) ==
    /\ Begins(c, "resume", p, IF row = "paused" THEN "row" ELSE "done")
    /\ UNCHANGED <<row, lock, lease, runner, start, pass, faults, orphan>>

ResumeRow(c) ==
    /\ CallAt(c, "resume", "row")
    /\ row' = "running"
    /\ CallEnds(c)
    /\ UNCHANGED <<lock, lease, runner, start, pass, faults, orphan>>

CallGoesOn(c) == StopUnlock(c) \/ StopRow(c) \/ PauseRow(c) \/ ResumeRow(c)

-----------------------------------------------------------------------------
(* Faults.                                                                 *)

\* The backend of the lease connection goes away, and the lock with it.
ConnectionLost(p) ==
    /\ lock = p
    /\ Fault
    /\ lock' = Nobody
    /\ UNCHANGED <<row, lease, runner, start, pass, call, orphan>>

Crash(p) ==
    /\ Fault
    /\ lock' = IF lock = p THEN Nobody ELSE lock
    /\ lease' = lease \ {p}
    /\ runner' = [runner EXCEPT ![p] = "none"]
    /\ start' = IF start.pod = p THEN Started ELSE start
    /\ PassEnds(p)
    /\ call' = [c \in Calls |-> IF call[c].pod = p THEN Over ELSE call[c]]
    /\ orphan' = orphan \ {p}
    /\ UNCHANGED row

Next ==
    \/ \E p \in Pods :
          \/ StartRow(p) \/ Start(p) \/ Pass(p)
          \/ RunnerUp(p) \/ RunnerFails(p) \/ RunnerEnds(p)
          \/ ConnectionLost(p) \/ Crash(p)
    \/ \E c \in Calls :
          \/ \E p \in Pods : StopRunner(c, p) \/ PauseRunner(c, p) \/ ResumeRunner(c, p)
          \/ CallGoesOn(c)

PassSteps == {"idle", "sweep", "read", "dead", "live", "claim", "lock", "run", "pop", "unlock"}

\* The calls in progress and the runners that are starting go on, one or another,
\* and the rehydration_loop of every pod makes pass after pass.
Fairness ==
    /\ \A p \in Pods : WF_vars(Pass(p))
    /\ WF_vars(\/ \E p \in Pods : Start(p) \/ RunnerUp(p)
               \/ \E c \in Calls : CallGoesOn(c))

Spec == Init /\ [][Next]_vars /\ Fairness

-----------------------------------------------------------------------------
(* Properties.                                                             *)

\* The variables have their types, and the lock is held by a pod that has its lease
\* or is about to give it back.
TypeOK ==
    /\ row \in {"none", "running", "paused", "stopped", "error"}
    /\ lock \in Pods \cup {Nobody}
    /\ lease \subseteq Pods
    /\ runner \in [Pods -> {"none", "starting", "running", "ended", "failed"}]
    /\ start \in [pod : Pods \cup {Nobody},
                  at : {"new", "claim", "lock", "run", "fail", "unlock", "error", "done"}]
    /\ pass \in [Pods -> PassSteps]
    /\ call \in [Calls -> [op : {"none", "stop", "again", "pause", "resume"}, pod : Pods \cup {Nobody},
                           at : {"new", "unlock", "row", "done"}]]
    /\ faults \in 0..MaxFaults
    /\ orphan \subseteq Pods
    /\ lock # Nobody => \/ lock \in lease
                        \/ StartAt(lock, "unlock") \/ PassAt(lock, "unlock")
                        \/ \E c \in Calls : call[c].pod = lock /\ call[c].at = "unlock"

Running == {p \in Pods : runner[p] = "running"}

\* "a horizontally scaled trading deployment never double-runs a session"
\* (recovery.py).
NeverDoubleRuns == Cardinality(Running) <= 1

\* Only a pod with the session's lease runs it, or one whose sweep has just found
\* the lock gone and is about to stop the runner (_try_claim on both start paths,
\* sweep_dead_leases).  Exempt is a pod one of whose calls took the lease away from
\* under a runner it did not stop, until the pod wins the lock again: NeverDoubleRuns
\* shows what comes of that.
RunnersHoldLeases ==
    \A p \in Running : p \in lease \/ PassAt(p, "sweep") \/ p \in orphan

\* A torn lease does not split the session for good: the pod that lost it stops
\* its runner (sweep_dead_leases).  Exempt are runners whose lease was taken away
\* from under them by a call of their own pod, which no sweep sees.
DoubleRunsEnd == ~NeverDoubleRuns ~> Cardinality(Running \ orphan) <= 1

\* A live session does not stay without a runner: some pod adopts it after its
\* pod, its runner or its lease connection died (rehydrate_pass).  Exempt is the
\* time a pod keeps the entry of a runner whose task failed: the pod can neither
\* evict it nor start another, and its vain attempts keep taking the lock.
LiveSessionsRun ==
    row \in Live ~> \/ Running # {} \/ row \notin Live
                    \/ \E p \in Pods : runner[p] = "failed"

\* A stopped or failed session is not traded for good, wherever its runner is and
\* whichever pod took the call, unless a pause or resume in flight revives its row
\* (rehydrate_pass drops what is no longer live).  Exempt is a runner whose lease was
\* taken away from under it: the pass looks at the pod's leases only.
DeadSessionsStop ==
    row \in {"stopped", "error"} ~> Running \subseteq orphan \/ row \in Live
=============================================================================
