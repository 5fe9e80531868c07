------------------------------- MODULE RunRow -------------------------------
(***************************************************************************)
(* A run cycle's row in the store, and the mutators the store applies to   *)
(* it. Every one of them runs inside PatchPayload's SELECT ... FOR UPDATE  *)
(* transaction, so each is one atomic change of one row. None of them but  *)
(* those with a "Can" condition looks at the row before changing it.       *)
(***************************************************************************)
EXTENDS Routing

TerminalStates == {"passed", "aborted", "recycled"}
RowStates == {"absent", "queued", "in_progress", "review_required"} \union TerminalStates

\* The state of a phase in phase_executions, as far as a reconciler tells them apart.
ExecStates == {"not_started", "dispatching", "active", "review_required", "finished"}

\* entry: the phase the cycle starts with; lease: the slot lease the row refers to, 0
\* when it has none yet.
Row == [state : RowStates, entry : PhaseIds \union {NoPhase}, attempts : Seq(Attempt),
        exec : [PhaseIds -> ExecStates], pr : BOOLEAN, cost : Nat, lease : Nat]

AbsentRow ==
    [state |-> "absent", entry |-> NoPhase, attempts |-> <<>>, exec |-> [p \in PhaseIds |-> "not_started"],
     pr |-> FALSE, cost |-> 0, lease |-> 0]

QueuedRow(entry, carry, pr, cost, lease) ==
    [AbsentRow EXCEPT !.state = "queued", !.entry = entry, !.attempts = carry, !.pr = pr,
                      !.cost = cost, !.lease = lease]

Exists(row) == row.state # "absent"
Terminal(row) == row.state \in TerminalStates
Latest(row) == Len(row.attempts)

\* Change attempt i of the row to a; change the state of phase p in phase_executions.
WithAttempt(row, i, a) == [row EXCEPT !.attempts = [@ EXCEPT ![i] = a]]
WithExec(row, p, x) == [row EXCEPT !.exec = [@ EXCEPT ![p] = x]]

\* A phase whose jobs are all terminal is itself finished (markJobCompletionInExecutionsRaw).
WithReports(row, i, a) ==
    IF AllReported(a) THEN WithExec(WithAttempt(row, i, a), a.phase, "finished")
                      ELSE WithAttempt(row, i, a)

-----------------------------------------------------------------------------
\* Job completions. A reporter that names no attempt means the latest one.

\* Mutant: a second report of a job overwrites the first.
CanRecordAgain(row, i, j) ==
    /\ i \in DOMAIN row.attempts
    /\ j \in ExpectedJobs(row.attempts[i].phase)
    /\ ~row.attempts[i].completed

CanRecord(row, i, j) ==
    /\ i \in DOMAIN row.attempts
    /\ j \in ExpectedJobs(row.attempts[i].phase)
    /\ ~row.attempts[i].completed
    /\ row.attempts[i].report[j] = NoReport

RecordedRow(row, i, j, o) ==
    WithReports(row, i, [row.attempts[i] EXCEPT !.report = [@ EXCEPT ![j] = o]])

\* Mutant: the first report completes the phase.
ReadyAtFirst(row, i) == Reported(row.attempts[i]) # {}

\* The write that makes the set of reports complete is told so.
CompletionReady(row, i) == AllReported(row.attempts[i])

SkippedOutcome == [concl |-> "skipped", verif |-> "none", abort |-> FALSE, costly |-> FALSE]

JobsSkippedRow(row, p) ==
    LET a == row.attempts[Latest(row)]
    IN  WithReports(row, Latest(row),
            [a EXCEPT !.report = [j \in JobIds |-> IF j \in SkippedJobs(p) THEN SkippedOutcome
                                                                      ELSE a.report[j]]])

-----------------------------------------------------------------------------
\* The completion engine's writes to the latest attempt.

StampedAttempt(a, payload) ==
    [a EXCEPT !.completed = TRUE, !.concl = payload.concl, !.abort = payload.abort,
              !.verif = IF payload.verif = "none" THEN @ ELSE payload.verif]

StampedRow(row, payload) ==
    [WithAttempt(row, Latest(row), StampedAttempt(row.attempts[Latest(row)], payload))
        EXCEPT !.cost = @ + payload.cost]

DecidedRow(row, verdict) ==
    WithAttempt(row, Latest(row), [row.attempts[Latest(row)] EXCEPT !.decision = verdict])

\* withStampedAttemptDecision: the same on the handler's own copy of the run.
DecidedCopy(row, verdict, payload) ==
    WithAttempt(row, Latest(row),
        [row.attempts[Latest(row)] EXCEPT !.decision = verdict, !.completed = TRUE,
                                          !.concl = payload.concl])

\* StampLatestAttemptSkipped: phase_executions keeps its "dispatching".
PhaseSkippedRow(row) ==
    WithAttempt(row, Latest(row),
        [row.attempts[Latest(row)] EXCEPT !.concl = "skipped", !.decision = "advance",
                                          !.completed = TRUE])

-----------------------------------------------------------------------------
\* New attempts.

AppendedRow(row, p) ==
    WithExec([row EXCEPT !.attempts = Append(@, NewAttempt(p))], p, "dispatching")

CanStart(row) ==
    /\ row.state = "queued"
    /\ \A i \in DOMAIN row.attempts : row.attempts[i].carry /\ row.attempts[i].completed

StartedRow(row, p, lease) ==
    [AppendedRow(row, p) EXCEPT !.state = "in_progress", !.lease = lease]

\* Mutant: the gate's attempt is appended and the run stays in progress.
ParkedInProgress(row, p) ==
    WithExec([row EXCEPT !.attempts = Append(@, NewAttempt(p))], p, "review_required")

ParkedRow(row, p) ==
    WithExec([row EXCEPT !.attempts = Append(@, NewAttempt(p)), !.state = "review_required"],
             p, "review_required")

-----------------------------------------------------------------------------
\* The reviewer's decision on a parked gate.

\* Mutant: a decision is taken without a look at the state of the run and its gate.
DecideAnyGate(row, i) ==
    /\ i \in DOMAIN row.attempts
    /\ Purpose(row.attempts[i].phase) = "review_gate"

CanDecideGate(row, i) ==
    /\ row.state = "review_required"
    /\ i \in DOMAIN row.attempts
    /\ Purpose(row.attempts[i].phase) = "review_gate"
    /\ ~row.attempts[i].completed

ReleasedRow(row, i) ==
    WithExec([row EXCEPT !.state = "in_progress"], row.attempts[i].phase, "dispatching")

CancelledRow(row, i) ==
    WithExec(WithAttempt([row EXCEPT !.state = "in_progress"], i,
                 [row.attempts[i] EXCEPT !.decision = "abort_requested", !.concl = "cancelled",
                                         !.completed = TRUE]),
             row.attempts[i].phase, "finished")

-----------------------------------------------------------------------------
\* The end of a cycle.

SettledRow(row, end) ==
    [row EXCEPT !.state = end,
                !.exec = IF end = "aborted"
                         THEN [p \in PhaseIds |-> IF @[p] \in {"dispatching", "active"}
                                                  THEN "finished" ELSE @[p]]
                         ELSE @]

RecycledRow(row) == [row EXCEPT !.state = "recycled"]
LinkedRow(row) == [row EXCEPT !.pr = TRUE]

\* The first event of a runner makes its phase active (applyRunnerEventToExecutionsRaw).
ActiveRow(row, p) ==
    IF row.exec[p] \in {"dispatching", "not_started"} THEN WithExec(row, p, "active") ELSE row
=============================================================================
