------------------------------ MODULE Handler -------------------------------
(***************************************************************************)
(* The local state of one server goroutine that handles a run: an HTTP     *)
(* callback, the Kubernetes watcher, a reconciler sweep, the signal drain  *)
(* or the run queue. Between two of its steps lie database transactions or *)
(* Kubernetes calls of which other goroutines see the effects. This module *)
(* holds the pure part: which step a goroutine takes next.                 *)
(***************************************************************************)
EXTENDS RunRow

CONSTANTS
    MaxCycles,  \* cycles of the run chain the store has room for
    MaxLeases   \* slot leases that can ever be issued

Cycles == 1..MaxCycles
LeaseIds == 1..MaxLeases

NoRun == 0

\* idle: free. stamp, decide: processRunCompletion. dispatch, skip, skipjobs,
\* lease, launch: dispatchForwardPhase and the tails of the other dispatchers.
\* recycle, create, start: dispatchRetry. settle: SetRunTerminalState reads.
\* abort: AbortRunByID reads. patch, unlock, release, close: what both do next.
\* acquire, drop, dropabort: admitRunCycle. opengate, cancelgate: the signal drain.
\* synth, timeout: completions the server makes up.
Steps == {"idle", "stamp", "decide", "dispatch", "skip", "skipjobs", "lease", "launch",
          "recycle", "create", "start", "settle", "abort", "patch", "unlock", "release", "close",
          "acquire", "drop", "dropabort", "opengate", "cancelgate", "synth", "timeout"}

\* Why a phase is dispatched: it decides what a failed dispatch leads to.
Modes == {"advance", "retry", "abort", "cleanup", "approve", "cancel", "admit"}

NoPayload == [concl |-> "success", verif |-> "none", abort |-> FALSE, cost |-> 0]

\* run: the cycle the goroutine handles; on: the cycle it launches jobs for; base:
\* its copy of the run; att, target: attempt and phase being launched; todo: jobs
\* still to launch or to report; lease, fresh: the lease and whether this goroutine
\* acquired it; ready, payload: the completion it was told to process; pre: the
\* state read before a terminal write; end: the state to be written.
Handlers ==
    [pc : Steps, mode : Modes, run : Nat, on : Nat, base : Row, att : Nat, target : PhaseIds \union {NoPhase},
     todo : SUBSET JobIds, lease : Nat, fresh : BOOLEAN, ready : BOOLEAN, payload : Payload,
     pre : RowStates, end : {"passed", "aborted"}]

Idle ==
    [pc |-> "idle", mode |-> "advance", run |-> NoRun, on |-> NoRun, base |-> AbsentRow, att |-> 0,
     target |-> NoPhase, todo |-> {}, lease |-> 0, fresh |-> FALSE, ready |-> FALSE,
     payload |-> NoPayload, pre |-> "absent", end |-> "aborted"]

Stamping(c, payload) == [Idle EXCEPT !.pc = "stamp", !.run = c, !.payload = payload]
Settling(c, end) == [Idle EXCEPT !.pc = "settle", !.run = c, !.end = end]
Aborting(c) == [Idle EXCEPT !.pc = "abort", !.run = c]
Dispatching(h, mode, p) == [h EXCEPT !.pc = "dispatch", !.mode = mode, !.on = h.run, !.target = p]

-----------------------------------------------------------------------------
\* Mutant: a cancelled run whose cleanup advanced counts as passed.
AdvancedMeansPassed(h, verdict) ==
    LET as     == h.base.attempts
        target == DispatchTarget(as, verdict)
    IN  CASE verdict = "retry" -> [h EXCEPT !.pc = "recycle", !.mode = "retry"]
          [] verdict # "retry" /\ target # NoPhase ->
                 Dispatching(h, IF verdict = "advance" THEN "advance" ELSE "abort", target)
          [] verdict # "retry" /\ target = NoPhase /\ HasInFlight(as) -> Idle
          [] OTHER -> Settling(h.run, IF verdict = "advance" /\ h.base.pr THEN "passed" ELSE "aborted")

\* processRunCompletion's routing on the verdict; h.base is the run with the
\* verdict on its latest attempt.
AfterDecision(h, verdict) ==
    LET as     == h.base.attempts
        target == DispatchTarget(as, verdict)
    IN  CASE verdict = "retry" -> [h EXCEPT !.pc = "recycle", !.mode = "retry"]
          [] verdict # "retry" /\ target # NoPhase ->
                 Dispatching(h, IF verdict = "advance" THEN "advance" ELSE "abort", target)
          [] verdict # "retry" /\ target = NoPhase /\ HasInFlight(as) -> Idle
          [] OTHER -> Settling(h.run, IF verdict = "advance" /\ ~HasAbort(as) /\ h.base.pr
                                      THEN "passed" ELSE "aborted")

\* abortRunWithWorkflowCleanup: the cleanup phase of the abort path, on a copy of
\* the run that carries no abort.
CleaningUp(h) ==
    LET target == DispatchTarget(h.base.attempts, "abort_malformed")
    IN  IF target # NoPhase THEN Dispatching(h, "cleanup", target)
        ELSE IF HasInFlight(h.base.attempts) THEN Idle
        ELSE Settling(h.run, "aborted")

\* What a dispatch that fails at h.pc leads to.
AfterFailure(h) ==
    CASE h.mode \in {"advance", "retry"} -> CleaningUp(h)
      [] h.mode \in {"abort", "cleanup"} -> Settling(h.run, "aborted")
      [] h.mode \in {"approve", "cancel"} -> Idle
      [] h.mode = "admit" ->
             IF h.fresh /\ h.pc \in {"start", "launch"} THEN [h EXCEPT !.pc = "dropabort"]
             ELSE IF h.pc \in {"start", "skipjobs", "launch"} THEN Aborting(h.run)
             ELSE Idle

\* Mutant: the attempt is numbered as if the new one were not in the row yet.
NumberedPastEnd(h, p, i) ==
    [h EXCEPT !.att = i + 1,
              !.todo = ExpectedJobs(p) \ SkippedJobs(p),
              !.pc = IF SkippedJobs(p) # {} THEN "skipjobs"
                     ELSE IF h.mode = "admit" THEN "launch" ELSE "lease"]

\* The step after the new attempt is in the row: the synthesized completions of
\* jobs whose condition is false come first. The queue has its lease already.
AfterAppend(h, p, i) ==
    [h EXCEPT !.att = i,
              !.todo = ExpectedJobs(p) \ SkippedJobs(p),
              !.pc = IF SkippedJobs(p) # {} THEN "skipjobs"
                     ELSE IF h.mode = "admit" THEN "launch" ELSE "lease"]

\* The run queue acquires a lease only for a run that has none.
AfterLeaseRead(h, claimed) ==
    IF claimed THEN [h EXCEPT !.pc = "launch"] ELSE AfterFailure(h)

\* dispatchForwardPhase after a skipped phase: the next phase in the same call, if
\* there is one.
AfterSkip(h, attempts) ==
    LET next == DispatchTarget(attempts, "advance")
    IN  IF next = NoPhase THEN Idle ELSE [h EXCEPT !.pc = "dispatch", !.target = next]

\* The next job of a phase in the order the workflow lists them.
FirstJob(p, jobs) ==
    LET i == CHOOSE i \in DOMAIN Phases[p].jobs :
                /\ Phases[p].jobs[i] \in jobs
                /\ \A k \in 1..(i - 1) : Phases[p].jobs[k] \notin jobs
    IN  Phases[p].jobs[i]

\* Mutant: an aborted run keeps its environment too.
PreserveAlways(h, preserve) ==
    IF h.lease # 0 /\ ~preserve THEN [h EXCEPT !.pc = "release"]
    ELSE IF h.end = "passed" THEN [h EXCEPT !.pc = "close"] ELSE Idle

\* After the terminal write and the release of the issue lock.
AfterUnlock(h, preserve) ==
    IF h.lease # 0 /\ (h.end = "aborted" \/ ~preserve) THEN [h EXCEPT !.pc = "release"]
    ELSE IF h.end = "passed" THEN [h EXCEPT !.pc = "close"] ELSE Idle

\* closeIssueOnGatedTerminal comes last.
AfterRelease(h) == IF h.end = "passed" THEN [h EXCEPT !.pc = "close"] ELSE Idle

\* After CancelLeaseByRef of the lease an admission acquired.
AfterDrop(h) == IF h.pc = "drop" THEN Idle ELSE Aborting(h.run)

\* The decision on the goroutine's copy, and where it leads.
Verdict(h) == Decide(h.base.attempts, h.run, h.base.cost)
Decided(h) == AfterDecision([h EXCEPT !.base = DecidedCopy(h.base, Verdict(h), h.payload)], Verdict(h))

DispatchSteps == {"dispatch", "skip", "skipjobs", "lease", "launch", "recycle", "create", "start"}

\* The call of a step fails. A dispatch has a failure path; the errors of best-effort
\* calls are ignored; any other error ends the goroutine.
AfterError(h, preserve) ==
    CASE h.pc \in DispatchSteps        -> AfterFailure(h)
      [] h.pc = "decide"               -> Decided(h)
      [] h.pc = "unlock"               -> AfterUnlock(h, preserve)
      [] h.pc = "release"              -> AfterRelease(h)
      [] h.pc \in {"drop", "dropabort"} -> AfterDrop(h)
      [] OTHER                         -> Idle
=============================================================================
