---------------------------- MODULE RunTheorems -----------------------------
(***************************************************************************)
(* What holds of a run for every workflow registration accepts, any number *)
(* of goroutines, cycles and leases, and any number of failures, crashes   *)
(* and aborts.                                                             *)
(*                                                                         *)
(*   Facts     what Decision and Routing return, what each mutator of a    *)
(*             cycle's row preserves, where the functions of Handler send  *)
(*             a goroutine                                                 *)
(*   Steps     what the parts of a step do to the parts of the inductive   *)
(*             invariant, and one lemma for each action                    *)
(*   Theorems  the invariant, what follows from it, and the merge          *)
(***************************************************************************)
EXTENDS RunProperties, FiniteSetTheorems, SequenceTheorems, WellFoundedInduction, TLAPS

(***************************************************************************)
(* Decision and Routing.                                                   *)
(***************************************************************************)

\* A set of natural numbers that is not empty has a least element.
LEMMA LeastNat ==
    ASSUME NEW S \in SUBSET Nat, S # {}
    PROVE  \E m \in S : \A n \in S : m <= n
<1>1. PICK m \in S : \A n \in S : ~ (<<n, m>> \in OpToRel(<, Nat))
    BY NatLessThanWellFounded, WFMin
<1>2. \A n \in S : ~ (n < m)
    BY <1>1 DEF OpToRel
<1> QED BY <1>2

\* First names a member of the set of phases it is given, or none.
LEMMA FirstIsMember ==
    ASSUME NEW S \in SUBSET PhaseIds
    PROVE  /\ S # {} => First(S) \in S
           /\ S = {} => First(S) = NoPhase
<1>1. PhaseIds \subseteq Nat
    BY WorkflowAssumption DEF ValidWorkflow, PhaseIds
<1>2. S # {} => \E m \in S : \A n \in S : m <= n
    BY <1>1, LeastNat
<1> QED BY <1>2 DEF First

\* A phase to dispatch is a phase of the workflow.
LEMMA TargetIsPhase ==
    ASSUME NEW attempts, NEW verdict
    PROVE  DispatchTarget(attempts, verdict) \in PhaseIds \union {NoPhase}
<1>1. \A b \in BOOLEAN : ReadyPhase(attempts, b) \in PhaseIds \union {NoPhase}
    BY FirstIsMember DEF ReadyPhase
<1>2. AbortPathPhase(attempts) \in PhaseIds \union {NoPhase}
    BY FirstIsMember DEF AbortPathPhase, AbortPhases
<1> QED BY <1>1, <1>2 DEF DispatchTarget

\* The jobs of a phase are jobs of the workflow.
LEMMA JobsOfPhase == ASSUME NEW p \in PhaseIds PROVE ExpectedJobs(p) \subseteq JobIds
<1>1. Phases[p] \in PhaseSpec
    BY WorkflowAssumption DEF ValidWorkflow, PhaseIds
<1>2. Phases[p].jobs \in Seq(JobIds)
    BY <1>1 DEF PhaseSpec
<1> QED BY <1>2 DEF ExpectedJobs

\* Every attempt's phase completion has the shape of a payload.
LEMMA AggregateType == ASSUME NEW a \in Attempt PROVE Aggregate(a) \in Payload
<1>1. AggregateConclusion(a) \in Conclusions
  <2>1. CASE FailingAt(a) # {}
    <3>1. Phases[a.phase].jobs \in Seq(JobIds)
      <4>1. Phases[a.phase] \in PhaseSpec
          BY WorkflowAssumption DEF ValidWorkflow, PhaseIds, Attempt
      <4> QED BY <4>1 DEF PhaseSpec
    <3>2. FailingAt(a) \in SUBSET Nat
        BY <3>1 DEF FailingAt
    <3>3. \E i \in FailingAt(a) : \A k \in FailingAt(a) : i <= k
        BY <2>1, <3>2, LeastNat
    <3> DEFINE first == CHOOSE i \in FailingAt(a) : \A k \in FailingAt(a) : i <= k
               j     == Phases[a.phase].jobs[first]
    <3>4. first \in FailingAt(a)
        BY <3>3
    <3> HIDE DEF first
    <3>5. j \in JobIds /\ a.report[j] # NoReport
        BY <3>1, <3>4 DEF FailingAt
    <3>6. a.report \in [JobIds -> Outcome \union {NoReport}]
        BY DEF Attempt
    <3>7. a.report[j] \in Outcome
        BY <3>5, <3>6
    <3>8. a.report[j].concl \in Conclusions
        BY <3>7 DEF Outcome
    <3> QED BY <2>1, <3>8 DEF AggregateConclusion, first
  <2>2. CASE FailingAt(a) = {}
      BY <2>2 DEF AggregateConclusion, Conclusions
  <2> QED BY <2>1, <2>2
<1>2. CombinedVerification(a) \in Verifications
    BY DEF CombinedVerification, Verifications
<1>3. Cardinality({j \in Reported(a) : a.report[j].costly}) \in Nat
  <2>1. IsFiniteSet(JobIds)
      BY WorkflowAssumption
  <2>2. {j \in Reported(a) : a.report[j].costly} \in SUBSET JobIds
      BY DEF Reported
  <2> QED BY <2>1, <2>2, FS_Subset, FS_CardinalityType
<1> QED BY <1>1, <1>2, <1>3 DEF Aggregate, Payload

\* The decision engine always decides.
LEMMA DecideType ==
    ASSUME NEW attempts, NEW cycle, NEW cost PROVE Decide(attempts, cycle, cost) \in Decisions
BY DEF Decide, RetryOrAbort, Decisions, AbortDecisions

\* A set of n phases has an i-th phase, for every i up to n.
LEMMA NthExists ==
    ASSUME NEW S, NEW n \in Nat, S \subseteq 1..n, NEW i \in 1..Cardinality(S)
    PROVE  Nth(S, i) \in S
<1> DEFINE UpTo(m) == {q \in S : q <= m}
           Enough  == {m \in Nat : Cardinality(UpTo(m)) >= i}
<1>0. \A q \in S : q \in Nat /\ 1 <= q /\ q <= n
    OBVIOUS
<1>1. IsFiniteSet(1..n)
    BY FS_Interval
<1>2. IsFiniteSet(S)
    BY <1>1, FS_Subset
<1>3. \A m \in Nat : IsFiniteSet(UpTo(m)) /\ Cardinality(UpTo(m)) \in Nat
    BY <1>2, FS_Subset, FS_CardinalityType
<1>4. Cardinality(S) \in Nat /\ i \in Nat /\ 1 <= i /\ i <= Cardinality(S)
    BY <1>2, FS_CardinalityType
<1>5. UpTo(n) = S
    BY <1>0
<1>6. n \in Enough
    BY <1>4, <1>5
<1>7. PICK m \in Enough : \A k \in Enough : m <= k
  <2>1. Enough \in SUBSET Nat /\ Enough # {}
      BY <1>6
  <2> HIDE DEF Enough
  <2> QED BY <2>1, LeastNat
<1>8. m # 0
  <2>0. \A q \in S : ~ (q <= 0)
      BY <1>0
  <2>1. UpTo(0) = {}
      BY <2>0
  <2>2. Cardinality(UpTo(0)) = 0
      BY <2>1, FS_EmptySet
  <2>3. 0 \notin Enough
      BY <2>2, <1>4
  <2> QED BY <2>3, <1>7
<1>9. m \in Nat /\ m - 1 \in Nat /\ Cardinality(UpTo(m)) >= i
    BY <1>7, <1>8
<1>10. Cardinality(UpTo(m - 1)) < i
  <2>1. m - 1 \notin Enough
    <3> HIDE DEF Enough
    <3> QED BY <1>7, <1>9
  <2>2. Cardinality(UpTo(m - 1)) \in Nat
      BY <1>3, <1>9
  <2> QED BY <2>1, <2>2, <1>4, <1>9
<1>11. m \in S
  <2>1. SUFFICES ASSUME m \notin S PROVE FALSE
      OBVIOUS
  <2>2. \A q \in S : q <= m <=> q <= m - 1
      BY <2>1, <1>0, <1>9
  <2>3. UpTo(m) = UpTo(m - 1)
      BY <2>2
  <2>4. Cardinality(UpTo(m)) = Cardinality(UpTo(m - 1))
      BY <2>3
  <2> HIDE DEF UpTo
  <2> QED BY <2>4, <1>3, <1>4, <1>9, <1>10
<1>12. UpTo(m) = UpTo(m - 1) \union {m} /\ m \notin UpTo(m - 1)
  <2>1. \A q \in S : q <= m <=> (q <= m - 1 \/ q = m)
      BY <1>0, <1>9
  <2>2. m \notin UpTo(m - 1)
      BY <1>9
  <2>3. \A q : q \in UpTo(m) <=> q \in UpTo(m - 1) \union {m}
      BY <2>1, <1>9, <1>11
  <2> QED
    <3> HIDE DEF UpTo
    <3> QED BY <2>2, <2>3
<1>13. Cardinality(UpTo(m)) = i
  <2> HIDE DEF UpTo
  <2>1. Cardinality(UpTo(m)) = Cardinality(UpTo(m - 1)) + 1
      BY <1>3, <1>9, <1>12, FS_AddElement
  <2>2. Cardinality(UpTo(m - 1)) \in Nat
      BY <1>3, <1>9
  <2> QED BY <2>1, <2>2, <1>4, <1>9, <1>10
<1> QED BY <1>11, <1>13 DEF Nth

\* The attempts a recycled cycle starts with are attempts, all of them completed.
LEMMA CarriedType ==
    ASSUME NEW attempts, NEW target \in PhaseIds
    PROVE  CarriedForward(attempts, target) \in Seq(Attempt)
<1> DEFINE carried == {p \in 1..(target - 1) :
                          \E i \in DOMAIN attempts : attempts[i].phase = p /\ ~InFlight(attempts[i])}
           Carry(p) == [NewAttempt(p) EXCEPT !.completed = TRUE, !.concl = "success",
                                             !.decision = "advance", !.carry = TRUE]
           n        == Cardinality(carried)
<1>1. target \in Nat /\ target - 1 \in Nat /\ 1..(target - 1) \subseteq PhaseIds
    BY WorkflowAssumption DEF ValidWorkflow, PhaseIds
<1>2. carried \subseteq 1..(target - 1)
    OBVIOUS
<1>3. \A p \in PhaseIds : Carry(p) \in Attempt
    BY DEF NewAttempt, Attempt, Conclusions, Verifications, Decisions, AbortDecisions
<1>4. CarriedForward(attempts, target) = [i \in 1..n |-> Carry(Nth(carried, i))]
    BY DEF CarriedForward
<1> HIDE DEF carried, Carry
<1>5. n \in Nat
  <2>1. IsFiniteSet(1..(target - 1))
      BY <1>1, FS_Interval
  <2>2. IsFiniteSet(carried)
      BY <1>2, <2>1, FS_Subset
  <2> QED BY <2>2, FS_CardinalityType
<1>6. \A i \in 1..n : Nth(carried, i) \in PhaseIds
    BY <1>1, <1>2, NthExists
<1> HIDE DEF n
<1>7. [i \in 1..n |-> Carry(Nth(carried, i))] \in Seq(Attempt)
    BY <1>3, <1>5, <1>6
<1> QED BY <1>4, <1>7

-----------------------------------------------------------------------------
(***************************************************************************)
(* The rows: each write keeps the shape of the row and its entry phase,    *)
(* the row does not vanish, and no attempt or report in it is lost.        *)
(***************************************************************************)

\* A row as a write to an existing row may leave it.
Successor(row, new) ==
    /\ new \in Row
    /\ Exists(new)
    /\ new.entry = row.entry
    /\ RowKept(row, new)

\* The fields of a row have their types.
LEMMA RowFields ==
    ASSUME NEW row \in Row
    PROVE  /\ row.state \in RowStates
           /\ row.entry \in PhaseIds \union {NoPhase}
           /\ row.attempts \in Seq(Attempt)
           /\ row.exec \in [PhaseIds -> ExecStates]
           /\ row.pr \in BOOLEAN
           /\ row.cost \in Nat
           /\ row.lease \in Nat
BY DEF Row

\* The attempts of a row are attempts.
LEMMA AttemptOfRow ==
    ASSUME NEW row \in Row, NEW i \in DOMAIN row.attempts
    PROVE  /\ row.attempts[i] \in Attempt
           /\ row.attempts[i].phase \in PhaseIds
           /\ row.attempts[i].report \in [JobIds -> Outcome \union {NoReport}]
           /\ i \in Nat
           /\ Latest(row) \in DOMAIN row.attempts
<1>1. row.attempts \in Seq(Attempt)
    BY RowFields
<1>2. row.attempts[i] \in Attempt /\ i \in Nat /\ Latest(row) \in DOMAIN row.attempts
    BY <1>1 DEF Latest
<1> QED BY <1>2 DEF Attempt

\* A row that did not change lost nothing; what is kept twice is kept.
LEMMA KeptSame == \A row : RowKept(row, row)
BY DEF RowKept, AttemptKept

\* Two steps that each keep what a row reported keep it together.
LEMMA KeptTwice ==
    ASSUME NEW r, NEW s, NEW t, RowKept(r, s), RowKept(s, t) PROVE RowKept(r, t)
<1>1. NoReport # SkippedOutcome
    BY DEF NoReport, SkippedOutcome
<1>2. SUFFICES ASSUME NEW i \in DOMAIN r.attempts
               PROVE  i \in DOMAIN t.attempts /\ AttemptKept(r.attempts[i], t.attempts[i])
    BY DEF RowKept
<1>3. /\ i \in DOMAIN s.attempts /\ AttemptKept(r.attempts[i], s.attempts[i])
      /\ i \in DOMAIN t.attempts /\ AttemptKept(s.attempts[i], t.attempts[i])
    BY DEF RowKept
<1> QED BY <1>1, <1>3 DEF AttemptKept

\* So do two changes of a row.
LEMMA SuccessorTwice ==
    ASSUME NEW r, NEW s, NEW t, Successor(r, s), Successor(s, t) PROVE Successor(r, t)
BY KeptTwice DEF Successor

-----------------------------------------------------------------------------
\* Any change of the fields other than state, entry and attempts.
LEMMA FieldSuccessor ==
    ASSUME NEW row \in Row, Exists(row), NEW new \in Row, Exists(new),
           new.entry = row.entry, new.attempts = row.attempts
    PROVE  Successor(row, new)
<1>1. RowKept(row, new)
    BY DEF RowKept, AttemptKept
<1> QED BY <1>1 DEF Successor

\* A row whose attempt i becomes a, which keeps what attempt i reported.
LEMMA WithAttemptSuccessor ==
    ASSUME NEW row \in Row, Exists(row), NEW i, NEW a,
           i \in DOMAIN row.attempts => a \in Attempt /\ AttemptKept(row.attempts[i], a)
    PROVE  /\ Successor(row, WithAttempt(row, i, a))
           /\ WithAttempt(row, i, a).state = row.state
           /\ DOMAIN WithAttempt(row, i, a).attempts = DOMAIN row.attempts
           /\ i \in DOMAIN row.attempts => WithAttempt(row, i, a).attempts[i] = a
<1> DEFINE as  == [row.attempts EXCEPT ![i] = a]
           new == [row EXCEPT !.attempts = as]
<1>1. row.attempts \in Seq(Attempt)
    BY RowFields
<1>2. as \in Seq(Attempt)
  <2>1. CASE i \in DOMAIN row.attempts
      BY <1>1, <2>1, ExceptSeq
  <2>2. CASE i \notin DOMAIN row.attempts
    <3>1. row.attempts \in [1..Len(row.attempts) -> Attempt] /\ Len(row.attempts) \in Nat
        BY <1>1, LenProperties
    <3>2. as \in [1..Len(row.attempts) -> Attempt]
        BY <2>2, <3>1
    <3> QED BY <3>1, <3>2
  <2> QED BY <2>1, <2>2
<1>3. DOMAIN as = DOMAIN row.attempts
    BY <1>1
<1>4. \A k \in DOMAIN row.attempts : as[k] = IF k = i THEN a ELSE row.attempts[k]
    BY <1>1
<1>5. WithAttempt(row, i, a) = new
    BY DEF WithAttempt
<1> HIDE DEF as
<1>6. new \in Row /\ new.attempts = as /\ new.state = row.state /\ new.entry = row.entry
    BY <1>2 DEF Row
<1> HIDE DEF new
<1>7. RowKept(row, new)
    BY <1>3, <1>4, <1>6 DEF RowKept, AttemptKept
<1> QED BY <1>3, <1>4, <1>5, <1>6, <1>7 DEF Successor, Exists

\* A row whose phase p gets another state in phase_executions.
LEMMA WithExecSuccessor ==
    ASSUME NEW row \in Row, Exists(row), NEW p, NEW x \in ExecStates
    PROVE  /\ Successor(row, WithExec(row, p, x))
           /\ WithExec(row, p, x).state = row.state
           /\ WithExec(row, p, x).attempts = row.attempts
<1> DEFINE ex  == [row.exec EXCEPT ![p] = x]
           new == [row EXCEPT !.exec = ex]
<1>1. ex \in [PhaseIds -> ExecStates]
    BY RowFields
<1>2. WithExec(row, p, x) = new
    BY DEF WithExec
<1> HIDE DEF ex
<1>3. new \in Row /\ new.attempts = row.attempts /\ new.state = row.state /\ new.entry = row.entry
    BY <1>1 DEF Row
<1> HIDE DEF new
<1>4. Exists(new)
    BY <1>3 DEF Exists
<1> QED BY <1>2, <1>3, <1>4, FieldSuccessor

-----------------------------------------------------------------------------
\* Job completions.
LEMMA WithReportsSuccessor ==
    ASSUME NEW row \in Row, Exists(row), NEW i \in DOMAIN row.attempts,
           NEW a \in Attempt, AttemptKept(row.attempts[i], a)
    PROVE  /\ Successor(row, WithReports(row, i, a))
           /\ WithReports(row, i, a).attempts[i] = a
           /\ DOMAIN WithReports(row, i, a).attempts = DOMAIN row.attempts
<1> DEFINE new == WithAttempt(row, i, a)
<1>1. Successor(row, new) /\ new.attempts[i] = a /\ DOMAIN new.attempts = DOMAIN row.attempts
    BY WithAttemptSuccessor
<1>2. new \in Row /\ Exists(new)
    BY <1>1 DEF Successor
<1> HIDE DEF new
<1>3. /\ Successor(new, WithExec(new, a.phase, "finished"))
      /\ WithExec(new, a.phase, "finished").attempts = new.attempts
    BY <1>2, WithExecSuccessor DEF ExecStates
<1>4. Successor(row, WithExec(new, a.phase, "finished"))
    BY <1>1, <1>3, SuccessorTwice
<1>5. WithReports(row, i, a) = IF AllReported(a) THEN WithExec(new, a.phase, "finished") ELSE new
    BY DEF WithReports, new
<1> QED BY <1>1, <1>3, <1>4, <1>5

\* RecordRunnerJobCompletion: the report of a job that had none.
LEMMA RecordedSuccessor ==
    ASSUME NEW row \in Row, Exists(row), NEW i \in DOMAIN row.attempts, NEW j \in JobIds,
           NEW o \in Outcome, row.attempts[i].report[j] = NoReport
    PROVE  /\ Successor(row, RecordedRow(row, i, j, o))
           /\ i \in DOMAIN RecordedRow(row, i, j, o).attempts
           /\ RecordedRow(row, i, j, o).attempts[i] \in Attempt
<1> DEFINE old == row.attempts[i]
           rep == [old.report EXCEPT ![j] = o]
           new == [old EXCEPT !.report = rep]
<1>1. old \in Attempt /\ old.report \in [JobIds -> Outcome \union {NoReport}]
    BY AttemptOfRow
<1>2. rep \in [JobIds -> Outcome \union {NoReport}]
    BY <1>1
<1>3. \A k \in JobIds : old.report[k] # NoReport => rep[k] = old.report[k]
    BY <1>1
<1>4. RecordedRow(row, i, j, o) = WithReports(row, i, new)
    BY DEF RecordedRow
<1> HIDE DEF rep, old
<1>5. new \in Attempt /\ new.report = rep /\ new.phase = old.phase
    BY <1>1, <1>2 DEF Attempt
<1> HIDE DEF new
<1>6. AttemptKept(row.attempts[i], new)
    BY <1>3, <1>5 DEF AttemptKept, old
<1> QED BY <1>4, <1>5, <1>6, WithReportsSuccessor

\* RecordRunnerJobsSkipped, the one write that replaces reports.
LEMMA JobsSkippedSuccessor ==
    ASSUME NEW row \in Row, Exists(row), row.attempts # <<>>,
           NEW p, row.attempts[Latest(row)].phase = p
    PROVE  Successor(row, JobsSkippedRow(row, p))
<1> DEFINE old == row.attempts[Latest(row)]
           rep == [j \in JobIds |-> IF j \in SkippedJobs(p) THEN SkippedOutcome ELSE old.report[j]]
           new == [old EXCEPT !.report = rep]
<1>1. Latest(row) \in DOMAIN row.attempts
  <2>1. row.attempts \in Seq(Attempt)
      BY RowFields
  <2> QED BY <2>1 DEF Latest
<1>2. old \in Attempt /\ old.report \in [JobIds -> Outcome \union {NoReport}]
    BY <1>1, AttemptOfRow
<1>3. SkippedOutcome \in Outcome
    BY DEF SkippedOutcome, Outcome, Conclusions, Verifications
<1>4. rep \in [JobIds -> Outcome \union {NoReport}]
    BY <1>2, <1>3
<1>5. JobsSkippedRow(row, p) = WithReports(row, Latest(row), new)
    BY DEF JobsSkippedRow
<1>6. \A j \in JobIds : rep[j] = IF j \in SkippedJobs(p) THEN SkippedOutcome ELSE old.report[j]
    OBVIOUS
<1> HIDE DEF rep, old
<1>7. new \in Attempt /\ new.report = rep /\ new.phase = old.phase
    BY <1>2, <1>4 DEF Attempt
<1> HIDE DEF new
<1>8. AttemptKept(row.attempts[Latest(row)], new)
    BY <1>6, <1>7 DEF AttemptKept, old
<1> QED BY <1>1, <1>5, <1>7, <1>8, WithReportsSuccessor

-----------------------------------------------------------------------------
\* The completion engine's writes to the latest attempt.
LEMMA StampedSuccessor ==
    ASSUME NEW row \in Row, Exists(row), NEW payload \in Payload
    PROVE  /\ Successor(row, StampedRow(row, payload))
           /\ DOMAIN StampedRow(row, payload).attempts = DOMAIN row.attempts
<1> DEFINE i    == Latest(row)
           a    == StampedAttempt(row.attempts[i], payload)
           mid  == WithAttempt(row, i, a)
           cost == mid.cost + payload.cost
           new  == [mid EXCEPT !.cost = cost]
<1>1. ASSUME i \in DOMAIN row.attempts PROVE a \in Attempt /\ AttemptKept(row.attempts[i], a)
  <2> DEFINE old == row.attempts[i]
  <2>1. old \in Attempt
      BY <1>1, AttemptOfRow
  <2> HIDE DEF old
  <2>2. /\ payload.concl \in Conclusions /\ payload.verif \in Verifications
        /\ payload.abort \in BOOLEAN /\ old.verif \in Verifications
      BY <2>1 DEF Payload, Attempt
  <2>3. StampedAttempt(old, payload) \in Attempt
      BY <2>1, <2>2 DEF StampedAttempt, Attempt
  <2>4. /\ StampedAttempt(old, payload).phase = old.phase
        /\ StampedAttempt(old, payload).report = old.report
      BY <2>1 DEF StampedAttempt, Attempt
  <2> QED BY <2>3, <2>4 DEF AttemptKept, old
<1>2. Successor(row, mid) /\ DOMAIN mid.attempts = DOMAIN row.attempts
  <2> HIDE DEF a, i
  <2> QED BY <1>1, WithAttemptSuccessor
<1>3. mid \in Row /\ Exists(mid)
    BY <1>2 DEF Successor
<1>4. StampedRow(row, payload) = new
    BY DEF StampedRow
<1> HIDE DEF mid
<1>5. cost \in Nat
  <2>1. mid.cost \in Nat /\ payload.cost \in Nat
      BY <1>3, RowFields DEF Payload
  <2> QED BY <2>1
<1> HIDE DEF cost
<1>6. new \in Row /\ new.attempts = mid.attempts /\ new.entry = mid.entry /\ new.state = mid.state
    BY <1>3, <1>5 DEF Row
<1> HIDE DEF new
<1>7. Successor(mid, new)
    BY <1>3, <1>6, FieldSuccessor DEF Exists
<1> QED BY <1>2, <1>4, <1>6, <1>7, SuccessorTwice

\* StampRunDecision.
LEMMA DecidedSuccessor ==
    ASSUME NEW row \in Row, Exists(row), NEW verdict \in Decisions
    PROVE  /\ Successor(row, DecidedRow(row, verdict))
           /\ DOMAIN DecidedRow(row, verdict).attempts = DOMAIN row.attempts
<1> DEFINE i == Latest(row)
           a == [row.attempts[i] EXCEPT !.decision = verdict]
<1>1. ASSUME i \in DOMAIN row.attempts PROVE a \in Attempt /\ AttemptKept(row.attempts[i], a)
  <2> DEFINE old == row.attempts[i]
  <2>1. old \in Attempt
      BY <1>1, AttemptOfRow
  <2> HIDE DEF old
  <2>2. /\ [old EXCEPT !.decision = verdict] \in Attempt
        /\ [old EXCEPT !.decision = verdict].phase = old.phase
        /\ [old EXCEPT !.decision = verdict].report = old.report
      BY <2>1 DEF Attempt
  <2> QED BY <2>2 DEF AttemptKept, old
<1>2. DecidedRow(row, verdict) = WithAttempt(row, i, a)
    BY DEF DecidedRow
<1> HIDE DEF a, i
<1> QED BY <1>1, <1>2, WithAttemptSuccessor

\* The goroutine's own copy of the run with its decision.
LEMMA DecidedCopySuccessor ==
    ASSUME NEW row \in Row, Exists(row), NEW verdict \in Decisions, NEW payload \in Payload
    PROVE  /\ Successor(row, DecidedCopy(row, verdict, payload))
           /\ DOMAIN DecidedCopy(row, verdict, payload).attempts = DOMAIN row.attempts
<1> DEFINE i == Latest(row)
           a == [row.attempts[i] EXCEPT !.decision = verdict, !.completed = TRUE,
                                        !.concl = payload.concl]
<1>1. ASSUME i \in DOMAIN row.attempts PROVE a \in Attempt /\ AttemptKept(row.attempts[i], a)
  <2> DEFINE old == row.attempts[i]
             new == [old EXCEPT !.decision = verdict, !.completed = TRUE, !.concl = payload.concl]
  <2>1. old \in Attempt
      BY <1>1, AttemptOfRow
  <2>2. payload.concl \in Conclusions
      BY DEF Payload
  <2> HIDE DEF old
  <2>3. new \in Attempt /\ new.phase = old.phase /\ new.report = old.report
      BY <2>1, <2>2 DEF Attempt
  <2> QED BY <2>3 DEF AttemptKept, old
<1>2. DecidedCopy(row, verdict, payload) = WithAttempt(row, i, a)
    BY DEF DecidedCopy
<1> HIDE DEF a, i
<1> QED BY <1>1, <1>2, WithAttemptSuccessor

\* StampLatestAttemptSkipped.
LEMMA PhaseSkippedSuccessor ==
    ASSUME NEW row \in Row, Exists(row)
    PROVE  Successor(row, PhaseSkippedRow(row))
<1> DEFINE i == Latest(row)
           a == [row.attempts[i] EXCEPT !.concl = "skipped", !.decision = "advance",
                                        !.completed = TRUE]
<1>1. ASSUME i \in DOMAIN row.attempts PROVE a \in Attempt /\ AttemptKept(row.attempts[i], a)
  <2> DEFINE old == row.attempts[i]
             new == [old EXCEPT !.concl = "skipped", !.decision = "advance", !.completed = TRUE]
  <2>1. old \in Attempt
      BY <1>1, AttemptOfRow
  <2> HIDE DEF old
  <2>2. new \in Attempt /\ new.phase = old.phase /\ new.report = old.report
      BY <2>1 DEF Attempt, Conclusions, Decisions
  <2> QED BY <2>2 DEF AttemptKept, old
<1>2. PhaseSkippedRow(row) = WithAttempt(row, i, a)
    BY DEF PhaseSkippedRow
<1> HIDE DEF a, i
<1> QED BY <1>1, <1>2, WithAttemptSuccessor

-----------------------------------------------------------------------------
\* New attempts.
LEMMA NewAttemptType == \A p \in PhaseIds : NewAttempt(p) \in Attempt
BY DEF NewAttempt, Attempt, Verifications

\* One more attempt of phase p, with another state of the row.
LEMMA AppendSuccessor ==
    ASSUME NEW row \in Row, Exists(row), NEW p \in PhaseIds, NEW state \in RowStates,
           state # "absent", NEW new \in Row, new.state = state, new.entry = row.entry,
           new.attempts = Append(row.attempts, NewAttempt(p))
    PROVE  /\ Successor(row, new)
           /\ DOMAIN row.attempts \subseteq DOMAIN new.attempts
           /\ Latest(new) \in DOMAIN new.attempts
           /\ new.attempts[Latest(new)] = NewAttempt(p)
<1>1. row.attempts \in Seq(Attempt) /\ NewAttempt(p) \in Attempt
    BY RowFields, NewAttemptType
<1>2. \A i \in DOMAIN row.attempts :
          i \in DOMAIN new.attempts /\ new.attempts[i] = row.attempts[i]
    BY <1>1
<1>3. RowKept(row, new)
    BY <1>2 DEF RowKept, AttemptKept
<1>4. Latest(new) \in DOMAIN new.attempts /\ new.attempts[Latest(new)] = NewAttempt(p)
    BY <1>1 DEF Latest
<1>5. Exists(new)
    BY DEF Exists
<1> QED BY <1>2, <1>3, <1>4, <1>5 DEF Successor

\* The attempts with one more of phase p.
LEMMA AppendType ==
    ASSUME NEW row \in Row, NEW p \in PhaseIds
    PROVE  Append(row.attempts, NewAttempt(p)) \in Seq(Attempt)
<1>1. row.attempts \in Seq(Attempt) /\ NewAttempt(p) \in Attempt
    BY RowFields, NewAttemptType
<1> QED BY <1>1

\* AppendRunAttempt.
LEMMA AppendedSuccessor ==
    ASSUME NEW row \in Row, Exists(row), NEW p \in PhaseIds
    PROVE  /\ Successor(row, AppendedRow(row, p))
           /\ Latest(AppendedRow(row, p)) \in DOMAIN AppendedRow(row, p).attempts
           /\ AppendedRow(row, p).attempts[Latest(AppendedRow(row, p))] = NewAttempt(p)
<1> DEFINE as  == Append(row.attempts, NewAttempt(p))
           mid == [row EXCEPT !.attempts = as]
           new == WithExec(mid, p, "dispatching")
<1>1. as \in Seq(Attempt)
    BY AppendType
<1>2. AppendedRow(row, p) = new
    BY DEF AppendedRow
<1> HIDE DEF as
<1>3. mid \in Row /\ mid.state = row.state /\ mid.entry = row.entry /\ mid.attempts = as
    BY <1>1 DEF Row
<1> HIDE DEF mid
<1>4. Exists(mid)
    BY <1>3 DEF Exists
<1>5. Successor(mid, new) /\ new.state = row.state /\ new.attempts = as
    BY <1>3, <1>4, WithExecSuccessor DEF ExecStates
<1>6. new \in Row /\ new.entry = row.entry /\ Exists(new)
    BY <1>3, <1>5 DEF Successor
<1> HIDE DEF new
<1>7. row.state \in RowStates /\ row.state # "absent"
    BY RowFields DEF Exists
<1> QED BY <1>2, <1>5, <1>6, <1>7, AppendSuccessor DEF as

\* StartRunCycle.
LEMMA StartedSuccessor ==
    ASSUME NEW row \in Row, Exists(row), NEW p \in PhaseIds, NEW lease \in Nat
    PROVE  /\ Successor(row, StartedRow(row, p, lease))
           /\ Latest(StartedRow(row, p, lease)) \in DOMAIN StartedRow(row, p, lease).attempts
           /\ StartedRow(row, p, lease).attempts[Latest(StartedRow(row, p, lease))] = NewAttempt(p)
<1> DEFINE mid == AppendedRow(row, p)
           new == [mid EXCEPT !.state = "in_progress", !.lease = lease]
<1>1. /\ Successor(row, mid) /\ Latest(mid) \in DOMAIN mid.attempts
      /\ mid.attempts[Latest(mid)] = NewAttempt(p)
    BY AppendedSuccessor
<1>2. mid \in Row
    BY <1>1 DEF Successor
<1>3. StartedRow(row, p, lease) = new
    BY DEF StartedRow
<1> HIDE DEF mid
<1>4. /\ new \in Row /\ new.state = "in_progress" /\ new.entry = mid.entry
      /\ new.attempts = mid.attempts
    BY <1>2 DEF Row, RowStates
<1> HIDE DEF new
<1>5. Exists(new) /\ Exists(mid) /\ Latest(new) = Latest(mid)
    BY <1>1, <1>4 DEF Exists, Successor, Latest
<1>6. Successor(mid, new)
    BY <1>2, <1>4, <1>5, FieldSuccessor
<1> QED BY <1>1, <1>3, <1>4, <1>5, <1>6, SuccessorTwice

\* ParkRunForReview.
LEMMA ParkedSuccessor ==
    ASSUME NEW row \in Row, Exists(row), NEW p \in PhaseIds
    PROVE  Successor(row, ParkedRow(row, p))
<1> DEFINE as  == Append(row.attempts, NewAttempt(p))
           mid == [row EXCEPT !.attempts = as, !.state = "review_required"]
           new == WithExec(mid, p, "review_required")
<1>1. as \in Seq(Attempt)
    BY AppendType
<1>2. ParkedRow(row, p) = new
    BY DEF ParkedRow
<1> HIDE DEF as
<1>3. /\ mid \in Row /\ mid.state = "review_required" /\ mid.entry = row.entry
      /\ mid.attempts = as
    BY <1>1 DEF Row, RowStates
<1> HIDE DEF mid
<1>4. Exists(mid)
    BY <1>3 DEF Exists
<1>5. Successor(mid, new)
    BY <1>3, <1>4, WithExecSuccessor DEF ExecStates
<1>6. Successor(row, mid)
    BY <1>3, AppendSuccessor DEF as, RowStates
<1> QED BY <1>2, <1>5, <1>6, SuccessorTwice

\* The first row of a cycle.
LEMMA QueuedType ==
    ASSUME NEW entry \in PhaseIds, NEW carry \in Seq(Attempt), NEW pr \in BOOLEAN,
           NEW cost \in Nat, NEW lease \in Nat
    PROVE  /\ QueuedRow(entry, carry, pr, cost, lease) \in Row
           /\ Exists(QueuedRow(entry, carry, pr, cost, lease))
           /\ QueuedRow(entry, carry, pr, cost, lease).entry = entry
BY DEF QueuedRow, AbsentRow, Row, RowStates, ExecStates, Exists, TerminalStates

\* The row of a cycle that does not exist.
LEMMA AbsentType == AbsentRow \in Row /\ ~Exists(AbsentRow) /\ DOMAIN AbsentRow.attempts = {}
<1>1. AbsentRow \in Row
    BY DEF AbsentRow, Row, RowStates, ExecStates
<1> QED BY <1>1 DEF AbsentRow, Exists

-----------------------------------------------------------------------------
\* The reviewer's decision, and the end of a cycle.
LEMMA StateSuccessor ==
    ASSUME NEW row \in Row, Exists(row), NEW state \in RowStates, state # "absent"
    PROVE  /\ Successor(row, [row EXCEPT !.state = state])
           /\ [row EXCEPT !.state = state].attempts = row.attempts
<1> DEFINE new == [row EXCEPT !.state = state]
<1>1. new \in Row /\ new.state = state /\ new.entry = row.entry /\ new.attempts = row.attempts
    BY DEF Row
<1> HIDE DEF new
<1>2. Exists(new)
    BY <1>1 DEF Exists
<1>3. Successor(row, new)
    BY <1>1, <1>2, FieldSuccessor
<1> QED BY <1>1, <1>3 DEF new

\* ReleaseReviewGate.
LEMMA ReleasedSuccessor ==
    ASSUME NEW row \in Row, Exists(row), NEW i
    PROVE  Successor(row, ReleasedRow(row, i))
<1> DEFINE mid == [row EXCEPT !.state = "in_progress"]
<1>1. Successor(row, mid)
    BY StateSuccessor DEF RowStates
<1>2. ReleasedRow(row, i) = WithExec(mid, row.attempts[i].phase, "dispatching")
    BY DEF ReleasedRow
<1> HIDE DEF mid
<1>3. Successor(mid, WithExec(mid, row.attempts[i].phase, "dispatching"))
    BY <1>1, WithExecSuccessor DEF Successor, ExecStates
<1> QED BY <1>1, <1>2, <1>3, SuccessorTwice

\* CancelReviewGate.
LEMMA CancelledSuccessor ==
    ASSUME NEW row \in Row, Exists(row), NEW i \in DOMAIN row.attempts
    PROVE  Successor(row, CancelledRow(row, i))
<1> DEFINE mid  == [row EXCEPT !.state = "in_progress"]
           old  == row.attempts[i]
           a    == [old EXCEPT !.decision = "abort_requested", !.concl = "cancelled",
                               !.completed = TRUE]
           done == WithAttempt(mid, i, a)
           new  == WithExec(done, row.attempts[i].phase, "finished")
<1>1. Successor(row, mid) /\ mid.attempts = row.attempts
    BY StateSuccessor DEF RowStates
<1>2. old \in Attempt
    BY AttemptOfRow
<1>3. CancelledRow(row, i) = new
    BY DEF CancelledRow
<1> HIDE DEF mid
<1>4. a \in Attempt /\ AttemptKept(old, a)
  <2> HIDE DEF old
  <2>1. a \in Attempt /\ a.phase = old.phase /\ a.report = old.report
      BY <1>2 DEF Attempt, Conclusions, Decisions, AbortDecisions
  <2> QED BY <2>1 DEF AttemptKept
<1>5. mid.attempts[i] = old /\ mid \in Row /\ Exists(mid)
    BY <1>1 DEF Successor
<1> HIDE DEF a, old
<1>6. Successor(mid, done)
    BY <1>4, <1>5, WithAttemptSuccessor
<1> HIDE DEF done
<1>7. Successor(done, new)
    BY <1>6, WithExecSuccessor DEF Successor, ExecStates
<1> HIDE DEF new
<1>8. Successor(row, done)
    BY <1>1, <1>6, SuccessorTwice
<1> QED BY <1>3, <1>7, <1>8, SuccessorTwice

\* SetRunTerminalState and AbortRunByID.
LEMMA SettledSuccessor ==
    ASSUME NEW row \in Row, Exists(row), NEW end \in {"passed", "aborted"}
    PROVE  Successor(row, SettledRow(row, end))
<1> DEFINE ex  == IF end = "aborted"
                  THEN [p \in PhaseIds |-> IF row.exec[p] \in {"dispatching", "active"}
                                           THEN "finished" ELSE row.exec[p]]
                  ELSE row.exec
           new == [row EXCEPT !.state = end, !.exec = ex]
<1>1. ex \in [PhaseIds -> ExecStates]
    BY RowFields DEF ExecStates
<1>2. SettledRow(row, end) = new
    BY DEF SettledRow
<1> HIDE DEF ex
<1>3. new \in Row /\ new.state = end /\ new.entry = row.entry /\ new.attempts = row.attempts
    BY <1>1 DEF Row, RowStates, TerminalStates
<1> HIDE DEF new
<1>4. Exists(new)
    BY <1>3 DEF Exists
<1> QED BY <1>2, <1>3, <1>4, FieldSuccessor

\* CreateRecycleCycle's mark on the parent.
LEMMA RecycledSuccessor ==
    ASSUME NEW row \in Row, Exists(row) PROVE Successor(row, RecycledRow(row))
BY StateSuccessor DEF RecycledRow, RowStates, TerminalStates

\* The pull request linked to the run.
LEMMA LinkedSuccessor ==
    ASSUME NEW row \in Row, Exists(row) PROVE Successor(row, LinkedRow(row))
<1> DEFINE new == [row EXCEPT !.pr = TRUE]
<1>1. /\ new \in Row /\ new.state = row.state /\ new.entry = row.entry
      /\ new.attempts = row.attempts
    BY DEF Row
<1>2. LinkedRow(row) = new
    BY DEF LinkedRow
<1> HIDE DEF new
<1>3. Exists(new)
    BY <1>1 DEF Exists
<1> QED BY <1>1, <1>2, <1>3, FieldSuccessor

\* A runner's first event.
LEMMA ActiveSuccessor ==
    ASSUME NEW row \in Row, Exists(row), NEW p PROVE Successor(row, ActiveRow(row, p))
<1>1. Successor(row, WithExec(row, p, "active"))
    BY WithExecSuccessor DEF ExecStates
<1>2. Successor(row, row)
    BY KeptSame DEF Successor
<1> QED BY <1>1, <1>2 DEF ActiveRow

-----------------------------------------------------------------------------
(***************************************************************************)
(* The goroutines: each knows what its next step needs (HandlerOK),        *)
(* whatever the rows in the store are.                                     *)
(***************************************************************************)

\* The goroutine is at a step, and the cycle it handles exists.
Busy(rows, h) == h \in Handlers /\ h.run \in Cycles /\ Exists(rows[h.run])

\* A goroutine that a step may leave behind.
Good(rows, h) == h \in Handlers /\ HandlerOK(rows, h)

\* The fields of a goroutine have their types.
LEMMA HandlerFields ==
    ASSUME NEW h \in Handlers
    PROVE  /\ h.pc \in Steps /\ h.mode \in Modes /\ h.run \in Nat /\ h.on \in Nat
           /\ h.base \in Row /\ h.att \in Nat /\ h.target \in PhaseIds \union {NoPhase}
           /\ h.todo \subseteq JobIds /\ h.lease \in Nat /\ h.fresh \in BOOLEAN
           /\ h.ready \in BOOLEAN /\ h.payload \in Payload /\ h.pre \in RowStates
           /\ h.end \in {"passed", "aborted"}
BY DEF Handlers

\* A goroutine that does nothing relies on nothing.
LEMMA IdleGood == \A rows : Good(rows, Idle)
<1>1. NoPayload \in Payload
    BY DEF NoPayload, Payload, Conclusions, Verifications
<1>2. AbsentRow \in Row
    BY DEF AbsentRow, Row, RowStates, ExecStates
<1>3. Idle \in Handlers /\ Idle.pc = "idle"
    BY <1>1, <1>2 DEF Idle, Handlers, Steps, Modes, NoRun, NoPhase, RowStates
<1> QED BY <1>3 DEF Good, HandlerOK, Launching, Committed

\* A goroutine that needs nothing but its cycle.
FreeSteps == Steps \ (Launching \union {"timeout", "stamp", "decide", "recycle", "create"})

\* The steps that settle a run rely only on its row.
LEMMA FreeGood ==
    ASSUME NEW rows, NEW h \in Handlers, h.run \in Cycles, Exists(rows[h.run]), h.pc \in FreeSteps
    PROVE  Good(rows, h)
BY DEF Good, HandlerOK, FreeSteps, Launching, Committed

\* A goroutine that was told to process a completion.
LEMMA StampingGood ==
    ASSUME NEW rows, NEW c \in Cycles, Exists(rows[c]), rows[c].attempts # <<>>, NEW payload \in Payload
    PROVE  Good(rows, Stamping(c, payload))
<1> DEFINE n == Stamping(c, payload)
<1>1. Idle \in Handlers /\ c \in Nat
    BY IdleGood DEF Good, Cycles
<1>2. n \in Handlers /\ n.pc = "stamp" /\ n.run = c
    BY <1>1 DEF Stamping, Handlers, Steps
<1> HIDE DEF n
<1>3. Good(rows, n)
    BY <1>2 DEF Good, HandlerOK, Launching, Committed
<1> QED BY <1>3 DEF n

\* A goroutine that settles an existing run.
LEMMA SettlingGood ==
    ASSUME NEW rows, NEW c \in Cycles, Exists(rows[c]), NEW end \in {"passed", "aborted"}
    PROVE  Good(rows, Settling(c, end))
<1> DEFINE n == Settling(c, end)
<1>1. Idle \in Handlers /\ c \in Nat
    BY IdleGood DEF Good, Cycles
<1>2. n \in Handlers /\ n.pc = "settle" /\ n.run = c
    BY <1>1 DEF Settling, Handlers, Steps
<1> HIDE DEF n
<1>3. n.pc \in FreeSteps
    BY <1>2 DEF FreeSteps, Steps, Launching
<1>4. Good(rows, n)
    BY <1>2, <1>3, FreeGood
<1> QED BY <1>4 DEF n

\* A goroutine that aborts an existing run.
LEMMA AbortingGood ==
    ASSUME NEW rows, NEW c \in Cycles, Exists(rows[c]) PROVE Good(rows, Aborting(c))
<1> DEFINE n == Aborting(c)
<1>1. Idle \in Handlers /\ c \in Nat
    BY IdleGood DEF Good, Cycles
<1>2. n \in Handlers /\ n.pc = "abort" /\ n.run = c
    BY <1>1 DEF Aborting, Handlers, Steps
<1> HIDE DEF n
<1>3. n.pc \in FreeSteps
    BY <1>2 DEF FreeSteps, Steps, Launching
<1>4. Good(rows, n)
    BY <1>2, <1>3, FreeGood
<1> QED BY <1>4 DEF n

\* A goroutine that dispatches a phase of the workflow.
LEMMA DispatchingGood ==
    ASSUME NEW rows, NEW h, Busy(rows, h), NEW mode \in Modes, NEW p \in PhaseIds
    PROVE  Good(rows, Dispatching(h, mode, p))
<1> DEFINE n == Dispatching(h, mode, p)
<1>1. h \in Handlers /\ h.run \in Nat
    BY DEF Busy, Cycles
<1>2. n \in Handlers /\ n.pc = "dispatch" /\ n.run = h.run /\ n.on = h.run /\ n.target = p
    BY <1>1 DEF Dispatching, Handlers, Steps
<1> HIDE DEF n
<1>3. Good(rows, n)
    BY <1>2 DEF Good, HandlerOK, Launching, Committed, Busy
<1> QED BY <1>3 DEF n

\* The same goroutine at another step.
LEMMA MovedTo ==
    ASSUME NEW h \in Handlers, NEW step \in Steps
    PROVE  LET n == [h EXCEPT !.pc = step]
           IN  /\ n \in Handlers /\ n.pc = step /\ n.mode = h.mode /\ n.run = h.run /\ n.on = h.on
               /\ n.base = h.base /\ n.att = h.att /\ n.target = h.target /\ n.todo = h.todo
BY DEF Handlers

\* A goroutine that goes on to another step with what it has.
LEMMA MovedGood ==
    ASSUME NEW rows, NEW h, Busy(rows, h), NEW step \in FreeSteps
    PROVE  Good(rows, [h EXCEPT !.pc = step])
<1> DEFINE n == [h EXCEPT !.pc = step]
<1>1. n \in Handlers /\ n.pc = step /\ n.run = h.run
    BY MovedTo DEF Busy, FreeSteps
<1> HIDE DEF n
<1>2. Good(rows, n)
    BY <1>1, FreeGood DEF Busy
<1> QED BY <1>2 DEF n

\* abortRunWithWorkflowCleanup: the first cleanup phase, or the end.
LEMMA CleaningUpGood ==
    ASSUME NEW rows, NEW h, Busy(rows, h) PROVE Good(rows, CleaningUp(h))
<1> DEFINE target == DispatchTarget(h.base.attempts, "abort_malformed")
<1>1. target \in PhaseIds \union {NoPhase}
    BY TargetIsPhase
<1>2. target # NoPhase => Good(rows, Dispatching(h, "cleanup", target))
    BY <1>1, DispatchingGood DEF Modes
<1>3. Good(rows, Settling(h.run, "aborted"))
    BY SettlingGood DEF Busy
<1> QED BY <1>2, <1>3, IdleGood DEF CleaningUp

\* What a goroutine does when a dispatch failed.
LEMMA AfterFailureGood ==
    ASSUME NEW rows, NEW h, Busy(rows, h) PROVE Good(rows, AfterFailure(h))
<1>1. Good(rows, CleaningUp(h))
    BY CleaningUpGood
<1>2. Good(rows, Settling(h.run, "aborted")) /\ Good(rows, Aborting(h.run))
    BY SettlingGood, AbortingGood DEF Busy
<1>3. Good(rows, [h EXCEPT !.pc = "dropabort"])
    BY MovedGood DEF FreeSteps, Steps, Launching
<1>4. h.mode \in Modes
    BY HandlerFields DEF Busy
<1> DEFINE dropped == [h EXCEPT !.pc = "dropabort"]
<1>5. AfterFailure(h) \in {CleaningUp(h), Settling(h.run, "aborted"), Idle, dropped, Aborting(h.run)}
    BY <1>4 DEF AfterFailure, Modes
<1> HIDE DEF dropped
<1> QED BY <1>1, <1>2, <1>3, <1>5, IdleGood DEF dropped

\* The routing of a decision.
LEMMA AfterDecisionGood ==
    ASSUME NEW rows, NEW h, Busy(rows, h), NEW verdict \in Decisions,
           verdict = "retry" => Within(h.run + 1) /\ h.base.attempts # <<>>
    PROVE  Good(rows, AfterDecision(h, verdict))
<1> DEFINE target == DispatchTarget(h.base.attempts, verdict)
           again  == [h EXCEPT !.pc = "recycle", !.mode = "retry"]
           mode   == IF verdict = "advance" THEN "advance" ELSE "abort"
           end    == IF verdict = "advance" /\ ~HasAbort(h.base.attempts) /\ h.base.pr
                     THEN "passed" ELSE "aborted"
<1>1. target \in PhaseIds \union {NoPhase}
    BY TargetIsPhase
<1>2. target # NoPhase => Good(rows, Dispatching(h, mode, target))
    BY <1>1, DispatchingGood DEF Modes
<1>3. Good(rows, Settling(h.run, end))
    BY SettlingGood DEF Busy
<1>4. verdict = "retry" => Good(rows, again)
  <2>1. again \in Handlers /\ again.pc = "recycle" /\ again.run = h.run
      /\ again.base = h.base
      BY ZenonT(40) DEF Busy, Handlers, Steps, Modes
  <2> HIDE DEF again
  <2> QED BY <2>1 DEF Good, HandlerOK, Launching, Committed, Busy
<1>5. \/ verdict = "retry" /\ AfterDecision(h, verdict) = again
      \/ target # NoPhase /\ AfterDecision(h, verdict) = Dispatching(h, mode, target)
      \/ AfterDecision(h, verdict) = Idle
      \/ AfterDecision(h, verdict) = Settling(h.run, end)
    BY DEF AfterDecision
<1> QED BY <1>2, <1>3, <1>4, <1>5, IdleGood

\* After the attempt of the phase is in the ledger.
LEMMA AfterAppendGood ==
    ASSUME NEW rows, NEW h, Busy(rows, h), h.on \in Cycles, Exists(rows[h.on]),
           NEW p \in PhaseIds, h.target = p, NEW i \in Nat, i \in DOMAIN rows[h.on].attempts
    PROVE  Good(rows, AfterAppend(h, p, i))
<1> DEFINE todo == ExpectedJobs(p) \ SkippedJobs(p)
           step == IF SkippedJobs(p) # {} THEN "skipjobs"
                   ELSE IF h.mode = "admit" THEN "launch" ELSE "lease"
           n    == [h EXCEPT !.att = i, !.todo = todo, !.pc = step]
<1>1. todo \subseteq ExpectedJobs(p) /\ todo \subseteq JobIds
    BY JobsOfPhase
<1>2. step \in Committed
    BY DEF Committed
<1>3. AfterAppend(h, p, i) = n
    BY DEF AfterAppend
<1> HIDE DEF todo, step
<1>4. /\ n \in Handlers /\ n.pc = step /\ n.run = h.run /\ n.on = h.on /\ n.att = i
      /\ n.target = p /\ n.todo = todo
    BY <1>1, <1>2 DEF Busy, Handlers, Steps, Committed
<1> HIDE DEF n
<1>5. Good(rows, n)
    BY <1>1, <1>2, <1>4 DEF Good, HandlerOK, Launching, Committed, Busy
<1> QED BY <1>3, <1>5

\* From one step at which the phase is committed to another.
LEMMA CommittedGood ==
    ASSUME NEW rows, NEW h, Good(rows, h), h.pc \in Committed \union {"opengate"},
           h.pc = "opengate" => h.att \in DOMAIN rows[h.on].attempts, NEW step \in Committed
    PROVE  Good(rows, [h EXCEPT !.pc = step])
<1> DEFINE n == [h EXCEPT !.pc = step]
<1>1. /\ n \in Handlers /\ n.pc = step /\ n.run = h.run /\ n.on = h.on /\ n.att = h.att
      /\ n.target = h.target /\ n.todo = h.todo
  <2>1. h \in Handlers /\ step \in Steps
      BY DEF Good, Committed, Steps
  <2> QED BY <2>1 DEF Handlers
<1> HIDE DEF n
<1>2. Good(rows, n)
    BY <1>1 DEF Good, HandlerOK, Launching, Committed
<1> QED BY <1>2 DEF n

\* After the lease of the run was read.
LEMMA AfterLeaseReadGood ==
    ASSUME NEW rows, NEW h, Good(rows, h), h.pc = "lease", NEW claimed \in BOOLEAN
    PROVE  Good(rows, AfterLeaseRead(h, claimed))
<1>1. Good(rows, [h EXCEPT !.pc = "launch"])
    BY CommittedGood DEF Committed
<1>2. Good(rows, AfterFailure(h))
    BY AfterFailureGood DEF Good, HandlerOK, Busy
<1> QED BY <1>1, <1>2 DEF AfterLeaseRead

\* After a phase was skipped: the next one, the end, or nothing.
LEMMA AfterSkipGood ==
    ASSUME NEW rows, NEW h, Good(rows, h), h.pc = "skip", NEW attempts
    PROVE  Good(rows, AfterSkip(h, attempts))
<1> DEFINE next == DispatchTarget(attempts, "advance")
           n    == [h EXCEPT !.pc = "dispatch", !.target = next]
<1>1. next \in PhaseIds \union {NoPhase}
    BY TargetIsPhase
<1>2. AfterSkip(h, attempts) = IF next = NoPhase THEN Idle ELSE n
    BY DEF AfterSkip
<1> HIDE DEF next
<1>3. next # NoPhase => /\ n \in Handlers /\ n.pc = "dispatch" /\ n.run = h.run /\ n.on = h.on
                        /\ n.target = next
    BY <1>1 DEF Good, Handlers, Steps
<1> HIDE DEF n
<1>4. next # NoPhase => Good(rows, n)
    BY <1>1, <1>3 DEF Good, HandlerOK, Launching, Committed
<1> QED BY <1>2, <1>4, IdleGood

\* After the slot was given back.
LEMMA AfterReleaseGood ==
    ASSUME NEW rows, NEW h, Busy(rows, h) PROVE Good(rows, AfterRelease(h))
<1>1. Good(rows, [h EXCEPT !.pc = "close"])
    BY MovedGood DEF FreeSteps, Steps, Launching
<1> QED BY <1>1, IdleGood DEF AfterRelease

\* After the issue was unlocked.
LEMMA AfterUnlockGood ==
    ASSUME NEW rows, NEW h, Busy(rows, h), NEW preserve PROVE Good(rows, AfterUnlock(h, preserve))
<1>1. Good(rows, [h EXCEPT !.pc = "close"]) /\ Good(rows, [h EXCEPT !.pc = "release"])
    BY MovedGood DEF FreeSteps, Steps, Launching
<1> QED BY <1>1, IdleGood DEF AfterUnlock

\* After the lease of a lost admission was given back.
LEMMA AfterDropGood ==
    ASSUME NEW rows, NEW h, Busy(rows, h) PROVE Good(rows, AfterDrop(h))
BY AbortingGood, IdleGood DEF AfterDrop, Busy

-----------------------------------------------------------------------------
\* The verdict and its routing.

\* A retry is decided only when the policy of a phase that verifies has room for the
\* next cycle: each earlier cycle counts as an attempt, and so does the latest one.
LEMMA RetryWithin ==
    ASSUME NEW attempts \in Seq(Attempt), attempts # <<>>, NEW cycle \in Nat, cycle > 0,
           NEW cost, Decide(attempts, cycle, cost) = "retry"
    PROVE  Within(cycle + 1)
<1> DEFINE last == attempts[Len(attempts)]
           p    == last.phase
           same == {i \in DOMAIN attempts : attempts[i].phase = p}
<1>1. last \in Attempt /\ Len(attempts) \in same /\ Len(attempts) \in Nat
    OBVIOUS
<1>2. p \in PhaseIds
    BY <1>1 DEF Attempt
<1>3. Phases[p].verify
    BY DEF Decide
<1>4. \E trigger \in {"verify_malformed", "verify_fail"} :
          RetryOrAbort(attempts, p, cycle, cost, trigger) = "retry"
    BY <1>3 DEF Decide
<1>5. ~ (AttemptsInPhase(attempts, p, cycle) >= Phases[p].policy.max)
    BY <1>4 DEF RetryOrAbort
<1>6. Cardinality(same) \in Nat /\ Cardinality(same) > 0
  <2>1. same \subseteq 1..Len(attempts)
      OBVIOUS
  <2>2. IsFiniteSet(same)
    <3>1. IsFiniteSet(1..Len(attempts))
        BY <1>1, FS_Interval
    <3> HIDE DEF same
    <3> QED BY ONLY <2>1, <3>1, FS_Subset
  <2>3. same # {}
      BY <1>1
  <2> HIDE DEF same
  <2> QED BY <2>2, <2>3, FS_CardinalityType, FS_EmptySet
<1>7. Phases[p].policy.max \in Nat
  <2>1. Phases[p] \in PhaseSpec
      BY <1>2, WorkflowAssumption DEF ValidWorkflow, PhaseIds
  <2>2. Phases[p].policy \in RecyclePolicies
      BY <2>1 DEF PhaseSpec
  <2> QED BY <2>2 DEF RecyclePolicies
<1>8. AttemptsInPhase(attempts, p, cycle) = (cycle - 1) + Cardinality(same)
    BY DEF AttemptsInPhase
<1> HIDE DEF same, p
<1>9. cycle + 1 <= Phases[p].policy.max
    BY <1>5, <1>6, <1>7, <1>8
<1> QED BY <1>2, <1>3, <1>9 DEF Within

\* After the decision: what is routed to is a phase of the workflow.
LEMMA DecidedGood ==
    ASSUME NEW rows, NEW h, Good(rows, h), h.pc = "decide" PROVE Good(rows, Decided(h))
<1> DEFINE verdict == Verdict(h)
           copy    == DecidedCopy(h.base, verdict, h.payload)
           n       == [h EXCEPT !.base = copy]
<1>1. verdict \in Decisions
    BY DecideType DEF Verdict
<1>2. verdict = "retry" => Within(h.run + 1)
  <2>1. h.base.attempts \in Seq(Attempt) /\ h.base.attempts # <<>>
    <3>1. h.base \in Row
        BY HandlerFields DEF Good
    <3> QED BY <3>1, RowFields DEF Good, HandlerOK
  <2>2. h.run \in Nat /\ h.run > 0
      BY DEF Good, HandlerOK, Cycles
  <2> QED BY <2>1, <2>2, RetryWithin DEF Verdict
<1>3. copy \in Row
  <2>1. h.base \in Row /\ Exists(h.base) /\ h.payload \in Payload
      BY HandlerFields DEF Good, HandlerOK
  <2> QED BY <1>1, <2>1, DecidedCopySuccessor DEF Successor
<1>7. copy.attempts # <<>>
  <2>1. h.base \in Row /\ Exists(h.base) /\ h.payload \in Payload /\ h.base.attempts # <<>>
      BY HandlerFields DEF Good, HandlerOK
  <2>2. h.base.attempts \in Seq(Attempt) /\ copy.attempts \in Seq(Attempt)
      BY <1>3, <2>1, RowFields
  <2>3. DOMAIN h.base.attempts \subseteq DOMAIN copy.attempts
      BY <1>1, <2>1, DecidedCopySuccessor DEF Successor, RowKept
  <2>4. 1 \in DOMAIN h.base.attempts
      BY <2>1, <2>2
  <2> HIDE DEF copy
  <2> QED BY <2>2, <2>3, <2>4
<1>4. Decided(h) = AfterDecision(n, verdict)
    BY DEF Decided
<1> HIDE DEF copy, verdict
<1>5. n \in Handlers /\ n.run = h.run /\ n.base = copy
    BY <1>3 DEF Good, Handlers
<1> HIDE DEF n
<1>6. Busy(rows, n)
    BY <1>5 DEF Good, HandlerOK, Busy
<1> QED BY <1>1, <1>2, <1>4, <1>5, <1>6, <1>7, AfterDecisionGood

\* After a call failed, at whatever step.
LEMMA AfterErrorGood ==
    ASSUME NEW rows, NEW h, Good(rows, h), h.pc # "idle", NEW preserve
    PROVE  Good(rows, AfterError(h, preserve))
<1>1. Busy(rows, h)
    BY DEF Good, HandlerOK, Busy
<1>2. /\ Good(rows, AfterFailure(h)) /\ Good(rows, AfterUnlock(h, preserve))
      /\ Good(rows, AfterRelease(h)) /\ Good(rows, AfterDrop(h))
    BY <1>1, AfterFailureGood, AfterUnlockGood, AfterReleaseGood, AfterDropGood
<1>3. h.pc = "decide" => Good(rows, Decided(h))
    BY DecidedGood
<1>4. \/ AfterError(h, preserve) = AfterFailure(h)
      \/ h.pc = "decide" /\ AfterError(h, preserve) = Decided(h)
      \/ AfterError(h, preserve) = AfterUnlock(h, preserve)
      \/ AfterError(h, preserve) = AfterRelease(h)
      \/ AfterError(h, preserve) = AfterDrop(h)
      \/ AfterError(h, preserve) = Idle
    BY DEF AfterError
<1> QED BY <1>2, <1>3, <1>4, IdleGood

\* The next job of a phase is one of the jobs still to launch.
LEMMA FirstJobIn ==
    ASSUME NEW p \in PhaseIds, NEW jobs, jobs \subseteq ExpectedJobs(p), jobs # {}
    PROVE  FirstJob(p, jobs) \in jobs
<1> DEFINE at == {i \in DOMAIN Phases[p].jobs : Phases[p].jobs[i] \in jobs}
<1>1. Phases[p].jobs \in Seq(JobIds)
  <2>1. Phases[p] \in PhaseSpec
      BY WorkflowAssumption DEF ValidWorkflow, PhaseIds
  <2> QED BY <2>1 DEF PhaseSpec
<1>2. at \in SUBSET Nat /\ at # {}
    BY <1>1 DEF ExpectedJobs
<1>3. PICK m \in at : \A n \in at : m <= n
    BY <1>2, LeastNat
<1>4. \A k \in 1..(m - 1) : Phases[p].jobs[k] \notin jobs
    BY <1>1, <1>3
<1>5. \E i \in DOMAIN Phases[p].jobs :
          Phases[p].jobs[i] \in jobs /\ \A k \in 1..(i - 1) : Phases[p].jobs[k] \notin jobs
    BY <1>3, <1>4
<1> QED BY <1>5 DEF FirstJob
-----------------------------------------------------------------------------
(***************************************************************************)
(* Steps.                                                                  *)
(***************************************************************************)

\* The rows after a step: each has its shape, none vanished and none lost anything.
RowsStep ==
    /\ runs' \in [Cycles -> Row]
    /\ RowsOK'
    /\ LedgerKept
    /\ \A c \in Cycles : Exists(runs[c]) => Exists(runs'[c])

Preserved == Inductive' /\ LedgerKept

\* The parts of the invariant.
LEMMA Parts ==
    ASSUME Inductive
    PROVE  /\ runs \in [Cycles -> Row]
           /\ \A q \in Procs : Good(runs, handlers[q])
           /\ \A c \in Cycles : RowOK(runs[c], c)
           /\ pods \subseteq Pods
           /\ handlers \in [Procs -> Handlers]
           /\ \A pod \in pods : /\ pod.run \in Cycles /\ pod.att \in DOMAIN runs[pod.run].attempts
                                /\ Exists(runs[pod.run])
<1>1. \A pod \in pods : pod.run \in Cycles /\ pod.att \in DOMAIN runs[pod.run].attempts
    BY DEF Inductive, TypeOK, PodsOK, Pods
<1>2. \A pod \in pods : Exists(runs[pod.run])
    BY <1>1, AbsentType DEF Inductive, RowsOK, RowOK
<1> QED BY <1>1, <1>2 DEF Inductive, TypeOK, HandlersOK, Good, RowsOK

\* A step that writes no row.
LEMMA RowsSame == ASSUME Inductive, UNCHANGED runs PROVE RowsStep
BY Parts, KeptSame DEF RowsStep, RowsOK, LedgerKept

\* A write to the row of an existing cycle.
LEMMA RowsWritten ==
    ASSUME Inductive, NEW c \in Cycles, Exists(runs[c]), NEW row, Successor(runs[c], row), Write(c, row)
    PROVE  RowsStep /\ runs'[c] = row
<1>1. runs \in [Cycles -> Row] /\ \A d \in Cycles : RowOK(runs[d], d)
    BY Parts
<1>2. \A d \in Cycles : runs'[d] = IF d = c THEN row ELSE runs[d]
    BY <1>1 DEF Write
<1>3. row \in Row /\ Exists(row) /\ row.entry = runs[c].entry /\ RowKept(runs[c], row)
    BY DEF Successor
<1>4. RowOK(row, c)
    BY <1>1, <1>3 DEF RowOK
<1>5. runs' \in [Cycles -> Row]
    BY <1>1, <1>3 DEF Write
<1> QED BY <1>1, <1>2, <1>3, <1>4, <1>5, KeptSame DEF RowsStep, RowsOK, LedgerKept

\* The row of a cycle that did not exist.
LEMMA RowsCreated ==
    ASSUME Inductive, NEW c \in Cycles, ~Exists(runs[c]), NEW row \in Row, Exists(row),
           row.entry \in PhaseIds, IsEntry(row.entry), Within(c), Write(c, row)
    PROVE  RowsStep /\ runs'[c] = row
<1>1. runs \in [Cycles -> Row] /\ \A d \in Cycles : RowOK(runs[d], d)
    BY Parts
<1>2. \A d \in Cycles : runs'[d] = IF d = c THEN row ELSE runs[d]
    BY <1>1 DEF Write
<1>3. RowKept(runs[c], row)
    BY <1>1, AbsentType DEF RowOK, RowKept
<1>4. RowOK(row, c)
    BY DEF RowOK
<1>5. runs' \in [Cycles -> Row]
    BY <1>1 DEF Write
<1> QED BY <1>1, <1>2, <1>3, <1>4, <1>5, KeptSame DEF RowsStep, RowsOK, LedgerKept

\* What a goroutine knew before a step it knows after it.
LEMMA GoodKept ==
    ASSUME Inductive, RowsStep, NEW h, Good(runs, h) PROVE Good(runs', h)
<1>1. runs \in [Cycles -> Row] /\ runs' \in [Cycles -> Row]
    BY Parts DEF RowsStep
<1>2. \A c \in Cycles : /\ Exists(runs[c]) => Exists(runs'[c])
                        /\ DOMAIN runs[c].attempts \subseteq DOMAIN runs'[c].attempts
    BY DEF RowsStep, LedgerKept, RowKept
<1>3. ASSUME NEW c \in Cycles, runs[c].attempts # <<>> PROVE runs'[c].attempts # <<>>
  <2>1. runs[c].attempts \in Seq(Attempt) /\ runs'[c].attempts \in Seq(Attempt)
      BY <1>1, RowFields
  <2>2. 1 \in DOMAIN runs[c].attempts
      BY <1>3, <2>1
  <2>3. 1 \in DOMAIN runs'[c].attempts
      BY <1>2, <2>2
  <2> QED BY <2>1, <2>3
<1> QED BY <1>2, <1>3 DEF Good, HandlerOK, Launching, Committed

\* A step that gives one goroutine another state.
LEMMA HandlersStep ==
    ASSUME Inductive, RowsStep, NEW q \in Procs, NEW h, Good(runs', h), Become(q, h)
    PROVE  handlers' \in [Procs -> Handlers] /\ HandlersOK'
<1>1. handlers \in [Procs -> Handlers] /\ \A r \in Procs : Good(runs', handlers[r])
    BY Parts, GoodKept
<1>2. \A r \in Procs : handlers'[r] = IF r = q THEN h ELSE handlers[r]
    BY <1>1 DEF Become
<1>3. handlers' \in [Procs -> Handlers]
    BY <1>1 DEF Become, Good
<1> QED BY <1>1, <1>2, <1>3 DEF HandlersOK, Good

\* A step of no goroutine.
LEMMA HandlersSame ==
    ASSUME Inductive, RowsStep, UNCHANGED handlers
    PROVE  handlers' \in [Procs -> Handlers] /\ HandlersOK'
BY Parts, GoodKept DEF HandlersOK, Good

\* A completed set of reports stays complete.
LEMMA ReportedKept ==
    ASSUME NEW a, NEW b, AttemptKept(a, b), AllReported(a) PROVE AllReported(b)
<1>1. SkippedOutcome # NoReport
    BY DEF SkippedOutcome, NoReport
<1> QED BY <1>1 DEF AttemptKept, AllReported, Reported

\* A completion that was handed out stays one of a complete attempt.
LEMMA GrantsKept ==
    ASSUME Inductive, RowsStep, NEW n \in DOMAIN grants PROVE GrantOK(runs', grants[n])
<1> DEFINE c == grants[n][1]
           i == grants[n][2]
<1>1. c \in Cycles /\ i \in DOMAIN runs[c].attempts /\ AllReported(runs[c].attempts[i])
    BY DEF Inductive, TypeOK, GrantsOK, GrantOK
<1>2. i \in DOMAIN runs'[c].attempts /\ AttemptKept(runs[c].attempts[i], runs'[c].attempts[i])
    BY <1>1 DEF RowsStep, LedgerKept, RowKept
<1> QED BY <1>1, <1>2, ReportedKept DEF GrantOK

\* A step that hands out no completion.
LEMMA GrantsSame ==
    ASSUME Inductive, RowsStep, UNCHANGED grants
    PROVE  grants' \in Seq(Cycles \X Nat) /\ GrantsOK' /\ ReadyOnce'
<1>1. grants' \in Seq(Cycles \X Nat)
    BY DEF Inductive, TypeOK
<1>2. GrantsOK'
    BY GrantsKept DEF GrantsOK
<1>3. ReadyOnce'
    BY DEF Inductive, ReadyOnce
<1> QED BY <1>1, <1>2, <1>3

\* A grant for an attempt that had not every report before is a new one.
LEMMA GrantsAppended ==
    ASSUME Inductive, RowsStep, NEW c \in Cycles, NEW i \in Nat, GrantOK(runs', <<c, i>>),
           ~ AllReported(runs[c].attempts[i]), grants' = Append(grants, <<c, i>>)
    PROVE  grants' \in Seq(Cycles \X Nat) /\ GrantsOK' /\ ReadyOnce'
<1>1. grants \in Seq(Cycles \X Nat) /\ ReadyOnce
    BY DEF Inductive, TypeOK
<1>2. grants' \in Seq(Cycles \X Nat) /\ Len(grants) \in Nat
    BY <1>1
<1>3. \A n \in DOMAIN grants' : \/ n \in DOMAIN grants /\ grants'[n] = grants[n]
                                \/ n = Len(grants) + 1 /\ grants'[n] = <<c, i>>
    BY <1>1
<1>4. \A n \in DOMAIN grants : grants[n] # <<c, i>>
    BY DEF Inductive, GrantsOK, GrantOK
<1>5. GrantsOK'
    BY <1>3, GrantsKept DEF GrantsOK
<1>6. ReadyOnce'
    BY <1>1, <1>3, <1>4 DEF ReadyOnce
<1> QED BY <1>2, <1>5, <1>6

\* A step that touches no pod.
LEMMA PodsSame ==
    ASSUME Inductive, RowsStep, UNCHANGED pods PROVE pods' \subseteq Pods /\ PodsOK'
<1>1. pods' \subseteq Pods
    BY Parts
<1>2. \A pod \in pods : pod.att \in DOMAIN runs'[pod.run].attempts
    BY Parts DEF RowsStep, LedgerKept, RowKept
<1> QED BY <1>1, <1>2 DEF PodsOK

\* A pod that starts, dies, reports or is seen.
LEMMA PodsMoved ==
    ASSUME Inductive, RowsStep, NEW pod \in pods, NEW st \in PodStates, PodBecomes(pod, st)
    PROVE  pods' \subseteq Pods /\ PodsOK'
<1> DEFINE moved == [pod EXCEPT !.st = st]
<1>1. pods \subseteq Pods /\ pod \in Pods
    BY Parts
<1>2. moved \in Pods /\ moved.run = pod.run /\ moved.att = pod.att
    BY <1>1 DEF Pods
<1>3. pods' = (pods \ {pod}) \union {moved}
    BY DEF PodBecomes
<1> HIDE DEF moved
<1>4. \A p \in pods : p.att \in DOMAIN runs'[p.run].attempts
    BY Parts DEF RowsStep, LedgerKept, RowKept
<1> QED BY <1>1, <1>2, <1>3, <1>4 DEF PodsOK

\* A pod more, of an attempt in the ledger.
LEMMA PodsCreated ==
    ASSUME Inductive, RowsStep, NEW pod \in Pods, pod.att \in DOMAIN runs'[pod.run].attempts,
           pods' = pods \union {pod}
    PROVE  pods' \subseteq Pods /\ PodsOK'
<1>1. pods \subseteq Pods /\ \A p \in pods : p.att \in DOMAIN runs'[p.run].attempts
    BY Parts DEF RowsStep, LedgerKept, RowKept
<1> QED BY <1>1 DEF PodsOK

\* An event of the environment happens once less.
LEMMA Spent1 ==
    ASSUME Inductive, NEW kind \in EventKinds, Spend(kind) PROVE left' \in [EventKinds -> Nat]
<1>1. left \in [EventKinds -> Nat]
    BY DEF Inductive, TypeOK
<1>2. left[kind] - 1 \in Nat
    BY <1>1 DEF Spend
<1> QED BY <1>1, <1>2 DEF Spend

\* The parts put together, for a step of a goroutine that touches no pod and hands out
\* no completion.
LEMMA HandlerStepPreserves ==
    ASSUME Inductive, RowsStep, NEW q \in Procs, NEW h, Good(runs', h), Become(q, h),
           UNCHANGED <<pods, grants>>,
           leases' \in [LeaseIds -> {"free", "claimed", "released"}],
           issue' \in [locked : BOOLEAN, closed : BOOLEAN, merged : BOOLEAN, approved : BOOLEAN],
           left' \in [EventKinds -> Nat], settles' \in [Cycles -> Nat]
    PROVE  Preserved
<1>1. handlers' \in [Procs -> Handlers] /\ HandlersOK'
    BY HandlersStep
<1>2. grants' \in Seq(Cycles \X Nat) /\ GrantsOK' /\ ReadyOnce'
    BY GrantsSame
<1>3. pods' \subseteq Pods /\ PodsOK'
    BY PodsSame
<1> QED BY <1>1, <1>2, <1>3 DEF Preserved, Inductive, RowsStep, TypeOK

\* The usual case: only the rows and the goroutine change.
LEMMA RowStepPreserves ==
    ASSUME Inductive, RowsStep, NEW q \in Procs, NEW h, Good(runs', h), Become(q, h),
           UNCHANGED <<leases, issue, pods, left, grants, settles>>
    PROVE  Preserved
<1>1. /\ leases' \in [LeaseIds -> {"free", "claimed", "released"}]
      /\ issue' \in [locked : BOOLEAN, closed : BOOLEAN, merged : BOOLEAN, approved : BOOLEAN]
      /\ left' \in [EventKinds -> Nat] /\ settles' \in [Cycles -> Nat]
    BY DEF Inductive, TypeOK
<1> QED BY <1>1, HandlerStepPreserves

-----------------------------------------------------------------------------
\* processRunCompletion.

\* A goroutine at a step has the cycle it handles.
LEMMA AtStep ==
    ASSUME Inductive, NEW q \in Procs, ~At(q, "idle")
    PROVE  /\ Good(runs, handlers[q]) /\ Busy(runs, handlers[q])
           /\ runs[handlers[q].run] \in Row
<1>1. Good(runs, handlers[q]) /\ runs \in [Cycles -> Row]
    BY Parts
<1> QED BY <1>1 DEF Good, HandlerOK, Busy, At

\* The completion is stamped.
LEMMA StampStep == ASSUME Inductive, NEW q \in Procs, Stamp(q) PROVE Preserved
<1> DEFINE h   == handlers[q]
           c   == h.run
           row == StampedRow(runs[c], h.payload)
           n   == [h EXCEPT !.pc = "decide", !.base = row]
<1>1. h.pc = "stamp" /\ Write(c, row) /\ Become(q, n)
    BY DEF Stamp, At
<1>2. Good(runs, h) /\ Busy(runs, h) /\ runs[c] \in Row
    BY <1>1, AtStep DEF At
<1> HIDE DEF h
<1>3. c \in Cycles /\ Exists(runs[c]) /\ h.payload \in Payload /\ runs[c].attempts # <<>>
  <2>1. runs[c].attempts # <<>>
      BY <1>1, <1>2 DEF Good, HandlerOK
  <2> QED BY <1>2, <2>1, HandlerFields DEF Busy
<1>4. Successor(runs[c], row) /\ DOMAIN row.attempts = DOMAIN runs[c].attempts
    BY <1>2, <1>3, StampedSuccessor
<1>5. row \in Row /\ Exists(row) /\ row.attempts # <<>>
  <2>1. row \in Row /\ Exists(row)
      BY <1>4 DEF Successor
  <2>2. row.attempts \in Seq(Attempt) /\ runs[c].attempts \in Seq(Attempt)
      BY <1>2, <2>1, RowFields
  <2> HIDE DEF row
  <2>3. 1 \in DOMAIN row.attempts
      BY <1>3, <1>4, <2>2
  <2> QED BY <2>1, <2>3
<1> HIDE DEF row
<1>6. RowsStep /\ runs'[c] = row
    BY <1>1, <1>3, <1>4, RowsWritten
<1>7. n \in Handlers /\ n.pc = "decide" /\ n.run = c /\ n.base = row
    BY <1>2, <1>5 DEF Good, Handlers, Steps
<1> HIDE DEF n
<1>8. Good(runs', n)
    BY <1>3, <1>5, <1>6, <1>7 DEF Good, HandlerOK, Launching, Committed
<1> QED BY <1>1, <1>6, <1>8, RowStepPreserves DEF Stamp

\* The decision is made, stamped and routed.
LEMMA MakeDecisionStep == ASSUME Inductive, NEW q \in Procs, MakeDecision(q) PROVE Preserved
<1> DEFINE h   == handlers[q]
           row == DecidedRow(runs[h.run], Verdict(h))
<1>1. h.pc = "decide" /\ Write(h.run, row) /\ Become(q, Decided(h))
    BY DEF MakeDecision, At
<1>2. Good(runs, h) /\ Busy(runs, h) /\ runs[h.run] \in Row
    BY <1>1, AtStep DEF At
<1> HIDE DEF h
<1>3. Successor(runs[h.run], row)
    BY <1>2, DecideType, DecidedSuccessor DEF Verdict, Busy
<1> HIDE DEF row
<1>4. RowsStep
    BY <1>1, <1>2, <1>3, RowsWritten DEF Busy
<1>5. Good(runs', Decided(h))
    BY <1>1, <1>2, <1>4, GoodKept, DecidedGood
<1> QED BY <1>1, <1>4, <1>5, RowStepPreserves DEF MakeDecision

-----------------------------------------------------------------------------
\* dispatchForwardPhase and the launcher.

\* A goroutine that launches has a cycle and a phase.
LEMMA AtLaunch ==
    ASSUME Inductive, NEW q \in Procs, handlers[q].pc \in Launching
    PROVE  LET h == handlers[q]
           IN  /\ Good(runs, h) /\ Busy(runs, h)
               /\ h.on \in Cycles /\ Exists(runs[h.on]) /\ runs[h.on] \in Row
               /\ h.target \in PhaseIds
<1>1. Good(runs, handlers[q]) /\ runs \in [Cycles -> Row]
    BY Parts
<1>2. handlers[q].pc # "idle"
    BY DEF Launching
<1> QED BY <1>1, <1>2 DEF Good, HandlerOK, Busy

\* The review gate parks the run.
LEMMA ParkStep == ASSUME Inductive, NEW q \in Procs, Park(q) PROVE Preserved
<1> DEFINE h   == handlers[q]
           row == ParkedRow(runs[h.on], h.target)
<1>1. h.pc = "dispatch" /\ Write(h.on, row) /\ Become(q, Idle)
    BY DEF Park, At
<1>2. h.on \in Cycles /\ Exists(runs[h.on]) /\ runs[h.on] \in Row /\ h.target \in PhaseIds
    BY <1>1, AtLaunch DEF Launching
<1> HIDE DEF h
<1>3. Successor(runs[h.on], row)
    BY <1>2, ParkedSuccessor
<1> HIDE DEF row
<1>4. RowsStep
    BY <1>1, <1>2, <1>3, RowsWritten
<1> QED BY <1>1, <1>4, IdleGood, RowStepPreserves DEF Park

\* The attempt of the next phase is appended.
LEMMA AppendAttemptStep == ASSUME Inductive, NEW q \in Procs, AppendAttempt(q) PROVE Preserved
<1> DEFINE h    == handlers[q]
           row  == AppendedRow(runs[h.on], h.target)
           skip == [h EXCEPT !.pc = "skip"]
           n    == IF PhaseRuns(h.target) THEN AfterAppend(h, h.target, Latest(row)) ELSE skip
<1>1. h.pc = "dispatch" /\ Write(h.on, row) /\ Become(q, n)
    BY DEF AppendAttempt, At
<1>2. /\ Good(runs, h) /\ Busy(runs, h) /\ h.on \in Cycles /\ Exists(runs[h.on])
      /\ runs[h.on] \in Row /\ h.target \in PhaseIds
    BY <1>1, AtLaunch DEF Launching
<1> HIDE DEF h
<1>3. Successor(runs[h.on], row) /\ Latest(row) \in DOMAIN row.attempts
    BY <1>2, AppendedSuccessor
<1>4. Latest(row) \in Nat /\ Exists(row)
    BY <1>3, AttemptOfRow DEF Successor
<1> HIDE DEF row
<1>5. RowsStep /\ runs'[h.on] = row
    BY <1>1, <1>2, <1>3, RowsWritten
<1>6. Busy(runs', h)
    BY <1>2, <1>5 DEF Busy, RowsStep
<1>7. Good(runs', AfterAppend(h, h.target, Latest(row)))
    BY <1>2, <1>3, <1>4, <1>5, <1>6, AfterAppendGood
<1>8. Good(runs', skip)
  <2>1. h \in Handlers /\ "skip" \in Steps
      BY <1>2 DEF Good, Steps
  <2>2. /\ skip \in Handlers /\ skip.pc = "skip" /\ skip.run = h.run /\ skip.on = h.on
        /\ skip.target = h.target
      BY <2>1 DEF Handlers
  <2> HIDE DEF skip
  <2> QED BY <1>2, <1>4, <1>5, <1>6, <2>2 DEF Good, HandlerOK, Launching, Committed, Busy
<1>9. Good(runs', n)
    BY <1>7, <1>8
<1> QED BY <1>1, <1>5, <1>9, RowStepPreserves DEF AppendAttempt

\* A phase whose condition is false is skipped.
LEMMA SkipPhaseStep == ASSUME Inductive, NEW q \in Procs, SkipPhase(q) PROVE Preserved
<1> DEFINE h   == handlers[q]
           row == PhaseSkippedRow(runs[h.on])
<1>1. h.pc = "skip" /\ Write(h.on, row) /\ Become(q, AfterSkip(h, row.attempts))
    BY DEF SkipPhase, At
<1>2. Good(runs, h) /\ h.on \in Cycles /\ Exists(runs[h.on]) /\ runs[h.on] \in Row
    BY <1>1, AtLaunch DEF Launching
<1> HIDE DEF h
<1>3. Successor(runs[h.on], row)
    BY <1>2, PhaseSkippedSuccessor
<1> HIDE DEF row
<1>4. RowsStep
    BY <1>1, <1>2, <1>3, RowsWritten
<1>5. Good(runs', AfterSkip(h, row.attempts))
    BY <1>1, <1>2, <1>4, GoodKept, AfterSkipGood
<1> QED BY <1>1, <1>4, <1>5, RowStepPreserves DEF SkipPhase

\* The jobs whose condition is false are skipped.
LEMMA SkipJobsStep == ASSUME Inductive, NEW q \in Procs, SkipJobs(q) PROVE Preserved
<1> DEFINE h    == handlers[q]
           row  == runs[h.on]
           new  == JobsSkippedRow(row, h.target)
           step == IF h.mode = "admit" THEN "launch" ELSE "lease"
           n    == [h EXCEPT !.pc = step]
<1>1. h.pc = "skipjobs"
    BY DEF SkipJobs, At
<1>2. /\ Good(runs, h) /\ Busy(runs, h) /\ h.on \in Cycles /\ Exists(row) /\ row \in Row
    BY <1>1, AtLaunch DEF Launching
<1>3. row.attempts # <<>>
  <2>1. row.attempts \in Seq(Attempt) /\ h.att \in DOMAIN row.attempts
      BY <1>1, <1>2, RowFields DEF Good, HandlerOK, Committed
  <2> QED BY <2>1
<1>4. CASE row.attempts[Latest(row)].phase = h.target
  <2>1. Write(h.on, new) /\ Become(q, n)
      BY <1>4 DEF SkipJobs
  <2> HIDE DEF h
  <2>2. Successor(row, new)
      BY <1>2, <1>3, <1>4, JobsSkippedSuccessor
  <2> HIDE DEF new
  <2>3. RowsStep
      BY <1>2, <2>1, <2>2, RowsWritten
  <2>4. Good(runs', n)
    <3>1. step \in Committed
        BY DEF Committed
    <3> HIDE DEF step
    <3> QED BY <1>1, <1>2, <2>3, <3>1, GoodKept, CommittedGood DEF Committed
  <2> HIDE DEF n
  <2> QED BY <2>1, <2>3, <2>4, RowStepPreserves DEF SkipJobs
<1>5. CASE row.attempts[Latest(row)].phase # h.target
  <2>1. UNCHANGED runs /\ Become(q, AfterFailure(h))
      BY <1>5 DEF SkipJobs
  <2>2. RowsStep /\ Good(runs', AfterFailure(h))
      BY <1>2, <2>1, RowsSame, AfterFailureGood
  <2> QED BY <2>1, <2>2, RowStepPreserves DEF SkipJobs
<1> QED BY <1>4, <1>5

\* The run's lease is read before a launch.
LEMMA ReadLeaseStep == ASSUME Inductive, NEW q \in Procs, ReadLease(q) PROVE Preserved
<1> DEFINE h       == handlers[q]
           claimed == h.base.lease \in LeaseIds /\ leases[h.base.lease] = "claimed"
<1>1. h.pc = "lease" /\ UNCHANGED runs /\ Become(q, AfterLeaseRead(h, claimed))
    BY DEF ReadLease, At
<1>2. Good(runs, h) /\ claimed \in BOOLEAN
    BY <1>1, AtStep DEF At
<1> HIDE DEF h, claimed
<1>3. RowsStep /\ Good(runs', AfterLeaseRead(h, claimed))
    BY <1>1, <1>2, RowsSame, AfterLeaseReadGood
<1> QED BY <1>1, <1>3, RowStepPreserves DEF ReadLease

\* A launch without a job.
LEMMA LaunchNothingStep == ASSUME Inductive, NEW q \in Procs, LaunchNothing(q) PROVE Preserved
<1> DEFINE h == handlers[q]
<1>1. h.pc = "launch" /\ UNCHANGED runs /\ Become(q, AfterFailure(h))
    BY DEF LaunchNothing, At
<1>2. Busy(runs, h)
    BY <1>1, AtStep DEF At
<1>3. RowsStep /\ Good(runs', AfterFailure(h))
    BY <1>1, <1>2, RowsSame, AfterFailureGood
<1> QED BY <1>1, <1>3, RowStepPreserves DEF LaunchNothing

\* The pod a launching goroutine creates next.
LEMMA NextPodType ==
    ASSUME Inductive, NEW q \in Procs, handlers[q].pc = "launch", handlers[q].todo # {}
    PROVE  /\ NextPod(handlers[q]) \in Pods
           /\ NextPod(handlers[q]).att \in DOMAIN runs[NextPod(handlers[q]).run].attempts
<1> DEFINE h == handlers[q]
           j == FirstJob(h.target, h.todo)
<1>1. /\ Good(runs, h) /\ h.on \in Cycles /\ h.target \in PhaseIds
      /\ h.att \in DOMAIN runs[h.on].attempts /\ h.todo \subseteq ExpectedJobs(h.target)
    BY AtLaunch DEF Launching, Committed, Good, HandlerOK
<1> HIDE DEF h
<1>2. j \in h.todo
    BY <1>1, FirstJobIn DEF h
<1>3. j \in JobIds /\ h.att \in Nat
    BY <1>1, <1>2, HandlerFields DEF Good
<1>4. NextPod(h) = [run |-> h.on, att |-> h.att, job |-> j, st |-> "created"]
    BY DEF NextPod
<1> HIDE DEF j
<1>5. NextPod(h) \in Pods
    BY <1>1, <1>3, <1>4 DEF Pods, PodStates
<1> QED BY <1>1, <1>4, <1>5 DEF h

\* One Kubernetes Job is created.
LEMMA LaunchStep == ASSUME Inductive, NEW q \in Procs, Launch(q) PROVE Preserved
<1> DEFINE h    == handlers[q]
           rest == h.todo \ {FirstJob(h.target, h.todo)}
           more == [h EXCEPT !.todo = rest]
           n    == IF rest = {} THEN Idle ELSE more
<1>1. /\ h.pc = "launch" /\ h.todo # {} /\ UNCHANGED runs /\ Become(q, n)
      /\ pods' = pods \union {NextPod(h)}
    BY DEF Launch, At
<1>2. Good(runs, h) /\ RowsStep
    BY <1>1, AtStep, RowsSame DEF At
<1>3. pods' \subseteq Pods /\ PodsOK'
    BY <1>1, <1>2, NextPodType, PodsCreated
<1> HIDE DEF h
<1>4. rest \subseteq h.todo
    OBVIOUS
<1> HIDE DEF rest
<1>5. Good(runs, more)
  <2>1. h \in Handlers /\ rest \subseteq JobIds
      BY <1>2, <1>4, HandlerFields DEF Good
  <2>2. /\ more \in Handlers /\ more.pc = "launch" /\ more.run = h.run /\ more.on = h.on
        /\ more.target = h.target /\ more.att = h.att /\ more.todo = rest
      BY <1>1, <2>1 DEF Handlers
  <2> HIDE DEF more
  <2> QED BY <1>1, <1>2, <1>4, <2>2 DEF Good, HandlerOK, Launching, Committed
<1>6. Good(runs', n)
    BY <1>1, <1>5, IdleGood
<1> HIDE DEF n
<1>7. handlers' \in [Procs -> Handlers] /\ HandlersOK'
    BY <1>1, <1>2, <1>6, HandlersStep
<1>8. UNCHANGED <<leases, issue, left, grants, settles>>
    BY DEF Launch
<1>9. grants' \in Seq(Cycles \X Nat) /\ GrantsOK' /\ ReadyOnce'
    BY <1>2, <1>8, GrantsSame
<1> QED BY <1>2, <1>3, <1>7, <1>8, <1>9 DEF Preserved, Inductive, RowsStep, TypeOK

-----------------------------------------------------------------------------
\* dispatchRetry and the run queue.

\* The parent of a retry is marked.
LEMMA RecycleStep == ASSUME Inductive, NEW q \in Procs, Recycle(q) PROVE Preserved
<1> DEFINE h      == handlers[q]
           target == RetryTarget(h.base.attempts[Len(h.base.attempts)].phase)
           row    == RecycledRow(runs[h.run])
           base   == [runs[h.run] EXCEPT !.attempts = h.base.attempts]
           on     == h.run + 1
           n      == [h EXCEPT !.pc = "create", !.target = target, !.on = on, !.base = base]
<1>1. h.pc = "recycle"
    BY DEF Recycle, At
<1>2. Good(runs, h) /\ Busy(runs, h) /\ runs[h.run] \in Row
    BY <1>1, AtStep DEF At
<1>3. CASE target \in PhaseIds /\ runs[h.run].lease # 0
  <2>0. IsEntry(target)
    <3>1. h.base.attempts \in Seq(Attempt) /\ h.base.attempts # <<>>
      <4> HIDE DEF h
      <4>1. h.base \in Row
          BY <1>2, HandlerFields DEF Good
      <4> QED BY <1>1, <1>2, <4>1, RowFields DEF Good, HandlerOK
    <3>2. h.base.attempts[Len(h.base.attempts)] \in Attempt
        BY ONLY <3>1
    <3>3. h.base.attempts[Len(h.base.attempts)].phase \in PhaseIds
        BY ONLY <3>2 DEF Attempt
    <3> QED BY ONLY <3>3 DEF IsEntry
  <2>1. Write(h.run, row) /\ Become(q, n)
      BY <1>3 DEF Recycle
  <2> HIDE DEF h
  <2>2. RowsStep
    <3>1. Successor(runs[h.run], row)
        BY <1>2, RecycledSuccessor DEF Busy
    <3> HIDE DEF row
    <3> QED BY <1>2, <2>1, <3>1, RowsWritten DEF Busy
  <2>3. base \in Row
    <3>1. h.base.attempts \in Seq(Attempt)
        BY <1>2, HandlerFields, RowFields DEF Good
    <3> QED BY <1>2, <3>1 DEF Row
  <2>4. on \in Nat
      BY <1>2, HandlerFields DEF Good
  <2>5. on = h.run + 1
      OBVIOUS
  <2> HIDE DEF base, on, target
  <2>6. n \in Handlers /\ n.pc = "create" /\ n.target = target /\ n.on = on /\ n.run = h.run
      BY <1>2, <1>3, <2>3, <2>4 DEF Good, Handlers, Steps
  <2> HIDE DEF n
  <2>7. Good(runs, n)
      BY <1>1, <1>2, <1>3, <2>0, <2>5, <2>6 DEF Good, HandlerOK, Launching, Committed, Busy
  <2>8. Good(runs', n)
      BY <2>2, <2>7, GoodKept
  <2> QED BY <2>1, <2>2, <2>8, RowStepPreserves DEF Recycle
<1>4. CASE ~ (target \in PhaseIds /\ runs[h.run].lease # 0)
  <2>1. UNCHANGED runs /\ Become(q, AfterFailure(h))
      BY <1>4 DEF Recycle
  <2>2. RowsStep /\ Good(runs', AfterFailure(h))
      BY <1>2, <2>1, RowsSame, AfterFailureGood
  <2> QED BY <2>1, <2>2, RowStepPreserves DEF Recycle
<1> QED BY <1>3, <1>4

\* A goroutine with a cycle to start and the phase it starts with.
LEMMA StartGood ==
    ASSUME NEW rows, NEW h \in Handlers, h.pc = "start", h.run \in Cycles, Exists(rows[h.run]),
           h.on \in Cycles, Exists(rows[h.on]), h.target \in PhaseIds
    PROVE  Good(rows, h)
BY DEF Good, HandlerOK, Launching, Committed

\* The row of the next cycle is created.
LEMMA CreateChildStep == ASSUME Inductive, NEW q \in Procs, CreateChild(q) PROVE Preserved
<1> DEFINE h     == handlers[q]
           carry == CarriedForward(h.base.attempts, h.target)
           row   == QueuedRow(h.target, carry, h.base.pr, h.base.cost, h.base.lease)
           n     == [h EXCEPT !.pc = "start", !.lease = h.base.lease]
<1>1. h.pc = "create" /\ h.on \in Cycles /\ ~Exists(runs[h.on]) /\ Write(h.on, row) /\ Become(q, n)
    BY DEF CreateChild, At
<1>2. Good(runs, h) /\ Busy(runs, h) /\ h.target \in PhaseIds /\ IsEntry(h.target) /\ Within(h.on)
    BY <1>1, AtStep DEF At, Good, HandlerOK
<1> HIDE DEF h
<1>3. h.base.pr \in BOOLEAN /\ h.base.cost \in Nat /\ h.base.lease \in Nat
    BY <1>2, HandlerFields, RowFields DEF Good
<1>4. carry \in Seq(Attempt)
    BY <1>2, CarriedType
<1> HIDE DEF carry
<1>5. row \in Row /\ Exists(row) /\ row.entry = h.target
    BY <1>2, <1>3, <1>4, QueuedType
<1> HIDE DEF row
<1>6. RowsStep /\ runs'[h.on] = row
    BY <1>1, <1>2, <1>5, RowsCreated
<1>7. /\ n \in Handlers /\ n.pc = "start" /\ n.run = h.run /\ n.on = h.on /\ n.target = h.target
    BY <1>2, <1>3 DEF Good, Handlers, Steps
<1> HIDE DEF n
<1>8. Good(runs', n)
    BY <1>1, <1>2, <1>5, <1>6, <1>7, StartGood DEF Busy, RowsStep
<1> QED BY <1>1, <1>6, <1>8, RowStepPreserves DEF CreateChild

\* The next cycle starts, or somebody was faster.
LEMMA StartStep == ASSUME Inductive, NEW q \in Procs, Start(q) PROVE Preserved
<1> DEFINE h    == handlers[q]
           row  == StartedRow(runs[h.on], h.target, h.lease)
           drop == [h EXCEPT !.pc = "drop"]
           lost == IF h.mode # "admit" THEN AfterFailure(h) ELSE IF h.fresh THEN drop ELSE Idle
<1>1. h.pc = "start"
    BY DEF Start, At
<1>2. /\ Good(runs, h) /\ Busy(runs, h) /\ h.on \in Cycles /\ Exists(runs[h.on])
      /\ runs[h.on] \in Row /\ h.target \in PhaseIds /\ h.lease \in Nat
    BY <1>1, AtLaunch, HandlerFields DEF Launching, Good
<1>3. CASE CanStart(runs[h.on])
  <2>1. Write(h.on, row) /\ Become(q, AfterAppend(h, h.target, Latest(row)))
      BY <1>3 DEF Start
  <2> HIDE DEF h
  <2>2. Successor(runs[h.on], row) /\ Latest(row) \in DOMAIN row.attempts
      BY <1>2, StartedSuccessor
  <2>3. Latest(row) \in Nat /\ Exists(row)
      BY <2>2, AttemptOfRow DEF Successor
  <2> HIDE DEF row
  <2>4. RowsStep /\ runs'[h.on] = row
      BY <1>2, <2>1, <2>2, RowsWritten
  <2>5. Busy(runs', h)
      BY <1>2, <2>4 DEF Busy, RowsStep
  <2>6. Good(runs', AfterAppend(h, h.target, Latest(row)))
      BY <1>2, <2>2, <2>3, <2>4, <2>5, AfterAppendGood
  <2> QED BY <2>1, <2>4, <2>6, RowStepPreserves DEF Start
<1>4. CASE ~CanStart(runs[h.on])
  <2>1. UNCHANGED runs /\ Become(q, lost)
      BY <1>4 DEF Start
  <2>2. Good(runs, drop)
      BY <1>2, MovedGood DEF FreeSteps, Steps, Launching
  <2>3. RowsStep /\ Good(runs', lost)
      BY <1>2, <2>1, <2>2, RowsSame, AfterFailureGood, IdleGood
  <2> QED BY <2>1, <2>3, RowStepPreserves DEF Start
<1> QED BY <1>3, <1>4

\* The types of the variables a step of a goroutine may change besides.
LEMMA SmallTypes ==
    ASSUME Inductive
    PROVE  /\ leases \in [LeaseIds -> {"free", "claimed", "released"}]
           /\ issue \in [locked : BOOLEAN, closed : BOOLEAN, merged : BOOLEAN, approved : BOOLEAN]
           /\ left \in [EventKinds -> Nat] /\ settles \in [Cycles -> Nat]
BY DEF Inductive, TypeOK

\* An admission reads or acquires its lease.
LEMMA AcquireStep == ASSUME Inductive, NEW q \in Procs, Acquire(q) PROVE Preserved
<1> DEFINE h        == handlers[q]
           l        == h.base.lease
           Held(k)  == [h EXCEPT !.pc = "start", !.lease = k]
           Fresh(k) == [h EXCEPT !.pc = "start", !.lease = k, !.fresh = TRUE]
<1>1. h.pc = "acquire" /\ UNCHANGED <<runs, issue, pods, left, grants, settles>>
    BY DEF Acquire, At
<1>2. /\ Good(runs, h) /\ Busy(runs, h) /\ h.on \in Cycles /\ Exists(runs[h.on])
      /\ h.target \in PhaseIds /\ RowsStep
    BY <1>1, AtLaunch, RowsSame DEF Launching
<1>3. ASSUME NEW k \in Nat PROVE Good(runs, Held(k)) /\ Good(runs, Fresh(k))
  <2> HIDE DEF h
  <2>1. /\ Held(k) \in Handlers /\ Held(k).pc = "start" /\ Held(k).run = h.run
        /\ Held(k).on = h.on /\ Held(k).target = h.target
      BY <1>2 DEF Good, Handlers, Steps
  <2>2. /\ Fresh(k) \in Handlers /\ Fresh(k).pc = "start" /\ Fresh(k).run = h.run
        /\ Fresh(k).on = h.on /\ Fresh(k).target = h.target
      BY <1>2 DEF Good, Handlers, Steps
  <2> HIDE DEF Held, Fresh
  <2> QED BY <1>2, <2>1, <2>2, StartGood DEF Busy
<1>4. l \in Nat
    BY <1>2, HandlerFields, RowFields DEF Good
<1>5. Good(runs, Aborting(h.run))
    BY <1>2, AbortingGood DEF Busy
<1>6. /\ \E n : Become(q, n) /\ Good(runs, n)
      /\ leases' \in [LeaseIds -> {"free", "claimed", "released"}]
  <2>1. CASE l # 0 /\ Become(q, IF leases[l] = "claimed" THEN Held(l) ELSE Aborting(h.run))
             /\ UNCHANGED leases
    <3> HIDE DEF Held
    <3> QED BY <1>3, <1>4, <1>5, <2>1, SmallTypes
  <2>2. CASE \E new \in LeaseIds : /\ leases' = [leases EXCEPT ![new] = "claimed"]
                                   /\ Become(q, Fresh(new))
    <3>1. PICK new \in LeaseIds : /\ leases' = [leases EXCEPT ![new] = "claimed"]
                                  /\ Become(q, Fresh(new))
        BY <2>2
    <3>2. new \in Nat
        BY DEF LeaseIds
    <3> HIDE DEF Fresh
    <3> QED BY <1>3, <3>1, <3>2, SmallTypes
  <2>3. CASE Become(q, Idle) /\ UNCHANGED leases
      BY <2>3, IdleGood, SmallTypes
  <2> QED BY <2>1, <2>2, <2>3 DEF Acquire
<1> QED BY <1>1, <1>2, <1>6, SmallTypes, HandlerStepPreserves

\* A lost admission gives its lease back.
LEMMA DropLeaseStep == ASSUME Inductive, NEW q \in Procs, DropLease(q) PROVE Preserved
<1> DEFINE h == handlers[q]
<1>1. /\ h.pc \in {"drop", "dropabort"} /\ Become(q, AfterDrop(h))
      /\ UNCHANGED <<runs, issue, pods, left, grants, settles>>
      /\ leases' = [leases EXCEPT ![h.lease] = "released"]
    BY DEF DropLease
<1>2. Busy(runs, h) /\ RowsStep
    BY <1>1, AtStep, RowsSame DEF At
<1>3. Good(runs', AfterDrop(h))
    BY <1>1, <1>2, AfterDropGood
<1>4. leases' \in [LeaseIds -> {"free", "claimed", "released"}]
    BY <1>1, SmallTypes
<1> QED BY <1>1, <1>2, <1>3, <1>4, SmallTypes, HandlerStepPreserves

\* The queue finds a queued cycle.
LEMMA AdmitStep ==
    ASSUME Inductive, NEW q \in Procs, NEW c \in Cycles, Admit(q, c) PROVE Preserved
<1> DEFINE base   == runs[c]
           target == runs[c].entry
           n      == [Idle EXCEPT !.pc = "acquire", !.mode = "admit", !.run = c, !.on = c,
                                  !.base = base, !.target = target]
<1>1. /\ base.state = "queued" /\ Spend("poll") /\ Become(q, n)
      /\ UNCHANGED <<runs, leases, issue, pods, grants, settles>>
    BY DEF Admit
<1>2. Exists(runs[c]) /\ target \in PhaseIds /\ base \in Row /\ RowsStep
    BY <1>1, Parts, RowsSame DEF Exists, RowOK
<1>3. Idle \in Handlers /\ c \in Nat
    BY IdleGood DEF Good, Cycles
<1> HIDE DEF base, target
<1>4. n \in Handlers /\ n.pc = "acquire" /\ n.run = c /\ n.on = c /\ n.target = target
    BY <1>2, <1>3, ZenonT(40) DEF Handlers, Steps, Modes
<1> HIDE DEF n
<1>5. Good(runs', n)
    BY <1>1, <1>2, <1>4 DEF Good, HandlerOK, Launching, Committed
<1>6. left' \in [EventKinds -> Nat]
    BY <1>1, Spent1 DEF EventKinds
<1> QED BY <1>1, <1>2, <1>5, <1>6, SmallTypes, HandlerStepPreserves

-----------------------------------------------------------------------------
\* The reviewer.

\* The drain has a signal for a parked gate.
LEMMA ReviewSignalStep ==
    ASSUME Inductive, NEW q \in Procs, NEW c \in Cycles, NEW kind \in {"approve", "cancel"},
           NEW step \in {"opengate", "cancelgate"}, ReviewSignal(q, c, kind, step)
    PROVE  Preserved
<1>1. PICK i \in ParkedGates(c) :
          Become(q, [Idle EXCEPT !.pc = step, !.mode = kind, !.run = c, !.on = c, !.base = runs[c],
                                 !.att = i, !.target = runs[c].attempts[i].phase,
                                 !.todo = ExpectedJobs(runs[c].attempts[i].phase)])
    BY DEF ReviewSignal
<1> DEFINE base   == runs[c]
           target == runs[c].attempts[i].phase
           todo   == ExpectedJobs(target)
           n      == [Idle EXCEPT !.pc = step, !.mode = kind, !.run = c, !.on = c, !.base = base,
                                  !.att = i, !.target = target, !.todo = todo]
<1>2. /\ base.state = "review_required" /\ Spend(kind)
      /\ UNCHANGED <<runs, leases, issue, pods, grants, settles>>
    BY DEF ReviewSignal
<1>3. Exists(runs[c]) /\ base \in Row /\ RowsStep
    BY <1>2, Parts, RowsSame DEF Exists
<1>4. i \in Nat /\ target \in PhaseIds
  <2>1. i \in DOMAIN runs[c].attempts
      BY DEF ParkedGates
  <2> QED BY <1>3, <2>1, AttemptOfRow
<1>5. Idle \in Handlers /\ c \in Nat /\ todo \subseteq JobIds
    BY <1>4, IdleGood, JobsOfPhase DEF Good, Cycles
<1>6. Become(q, n)
    BY <1>1
<1>7. todo = ExpectedJobs(target)
    OBVIOUS
<1> HIDE DEF base, target, todo
<1>8. /\ n \in Handlers /\ n.pc = step /\ n.run = c /\ n.on = c /\ n.att = i /\ n.target = target
      /\ n.todo = todo
    BY <1>3, <1>4, <1>5, ZenonT(40) DEF Handlers, Steps, Modes
<1> HIDE DEF n
<1>9. Good(runs', n)
    BY <1>2, <1>3, <1>4, <1>7, <1>8 DEF Good, HandlerOK, Launching, Committed
<1>10. left' \in [EventKinds -> Nat]
    BY <1>2, Spent1 DEF EventKinds
<1> QED BY <1>2, <1>3, <1>6, <1>9, <1>10, SmallTypes, HandlerStepPreserves

\* An approved gate opens.
LEMMA OpenGateStep == ASSUME Inductive, NEW q \in Procs, OpenGate(q) PROVE Preserved
<1> DEFINE h   == handlers[q]
           row == ReleasedRow(runs[h.on], h.att)
           n   == [h EXCEPT !.pc = "lease"]
<1>1. h.pc = "opengate" /\ UNCHANGED <<leases, pods, left, grants, settles>>
    BY DEF OpenGate, At
<1>2. /\ Good(runs, h) /\ Busy(runs, h) /\ h.on \in Cycles /\ Exists(runs[h.on])
      /\ runs[h.on] \in Row
    BY <1>1, AtLaunch DEF Launching
<1>3. CASE CanDecideGate(runs[h.on], h.att)
  <2>1. Write(h.on, row) /\ Become(q, n) /\ issue' = [issue EXCEPT !.approved = TRUE]
      BY <1>3 DEF OpenGate
  <2>2. h.att \in DOMAIN runs[h.on].attempts
      BY <1>3 DEF CanDecideGate
  <2> HIDE DEF h
  <2>3. Successor(runs[h.on], row)
      BY <1>2, ReleasedSuccessor
  <2> HIDE DEF row
  <2>4. RowsStep
      BY <1>2, <2>1, <2>3, RowsWritten
  <2>5. Good(runs, n)
      BY <1>1, <1>2, <2>2, CommittedGood DEF Committed
  <2>6. Good(runs', n)
      BY <2>4, <2>5, GoodKept
  <2>7. issue' \in [locked : BOOLEAN, closed : BOOLEAN, merged : BOOLEAN, approved : BOOLEAN]
      BY <2>1, SmallTypes
  <2> QED BY <1>1, <2>1, <2>4, <2>6, <2>7, SmallTypes, HandlerStepPreserves
<1>4. CASE ~CanDecideGate(runs[h.on], h.att)
  <2>1. Become(q, Idle) /\ UNCHANGED <<runs, issue>>
      BY <1>4 DEF OpenGate
  <2> QED BY <1>1, <2>1, RowsSame, IdleGood, RowStepPreserves
<1> QED BY <1>3, <1>4

\* A cancelled gate is closed and the teardown starts.
LEMMA CancelGateStep == ASSUME Inductive, NEW q \in Procs, CancelGate(q) PROVE Preserved
<1> DEFINE h      == handlers[q]
           row    == CancelledRow(runs[h.on], h.att)
           target == DispatchTarget(row.attempts, "abort_requested")
           copy   == [h EXCEPT !.base = row]
           n      == IF target = NoPhase THEN Settling(h.run, "aborted")
                     ELSE Dispatching(copy, "cancel", target)
<1>1. h.pc = "cancelgate" /\ UNCHANGED <<leases, issue, pods, left, grants, settles>>
    BY DEF CancelGate, At
<1>2. /\ Good(runs, h) /\ Busy(runs, h) /\ h.on \in Cycles /\ Exists(runs[h.on])
      /\ runs[h.on] \in Row
    BY <1>1, AtLaunch DEF Launching
<1>3. CASE CanDecideGate(runs[h.on], h.att)
  <2>1. Write(h.on, row) /\ Become(q, n)
      BY <1>3 DEF CancelGate
  <2>2. h.att \in DOMAIN runs[h.on].attempts
      BY <1>3 DEF CanDecideGate
  <2> HIDE DEF h
  <2>3. Successor(runs[h.on], row)
      BY <1>2, <2>2, CancelledSuccessor
  <2>4. target \in PhaseIds \union {NoPhase} /\ row \in Row
      BY <2>3, TargetIsPhase DEF Successor
  <2> HIDE DEF row, target
  <2>5. RowsStep
      BY <1>2, <2>1, <2>3, RowsWritten
  <2>6. Busy(runs', copy)
    <3>1. copy \in Handlers /\ copy.run = h.run
        BY <1>2, <2>4 DEF Good, Handlers
    <3> HIDE DEF copy
    <3> QED BY <1>2, <2>5, <3>1 DEF Busy, RowsStep
  <2>7. target # NoPhase => Good(runs', Dispatching(copy, "cancel", target))
      BY <2>4, <2>6, DispatchingGood DEF Modes
  <2>8. Good(runs', Settling(h.run, "aborted"))
      BY <1>2, <2>5, SettlingGood DEF Busy, RowsStep
  <2>9. Good(runs', n)
      BY <2>7, <2>8
  <2> QED BY <1>1, <2>1, <2>5, <2>9, RowStepPreserves
<1>4. CASE ~CanDecideGate(runs[h.on], h.att)
  <2>1. Become(q, Idle) /\ UNCHANGED runs
      BY <1>4 DEF CancelGate
  <2> QED BY <1>1, <2>1, RowsSame, IdleGood, RowStepPreserves
<1> QED BY <1>3, <1>4

-----------------------------------------------------------------------------
\* The end of a run.

\* The state is read before the terminal write.
LEMMA SettleReadStep == ASSUME Inductive, NEW q \in Procs, SettleRead(q) PROVE Preserved
<1> DEFINE h     == handlers[q]
           state == runs[h.run].state
           lease == runs[h.run].lease
           n     == [h EXCEPT !.pc = "patch", !.pre = state, !.lease = lease]
<1>1. /\ h.pc = "settle" /\ Become(q, n)
      /\ UNCHANGED <<runs, leases, issue, pods, left, grants, settles>>
    BY DEF SettleRead, At
<1>2. Busy(runs, h) /\ state \in RowStates /\ lease \in Nat /\ RowsStep
    BY <1>1, AtStep, RowFields, RowsSame DEF At
<1> HIDE DEF h, state, lease
<1>3. n \in Handlers /\ n.pc = "patch" /\ n.run = h.run
    BY <1>2 DEF Busy, Handlers, Steps
<1> HIDE DEF n
<1>4. n.pc \in FreeSteps
    BY <1>3 DEF FreeSteps, Steps, Launching
<1>5. Good(runs', n)
    BY <1>1, <1>2, <1>3, <1>4, FreeGood DEF Busy
<1> QED BY <1>1, <1>2, <1>5, RowStepPreserves

\* The same for an abort.
LEMMA AbortReadStep == ASSUME Inductive, NEW q \in Procs, AbortRead(q) PROVE Preserved
<1> DEFINE h       == handlers[q]
           state   == runs[h.run].state
           lease   == runs[h.run].lease
           patch   == [h EXCEPT !.pc = "patch", !.pre = state, !.lease = lease]
           release == [h EXCEPT !.pc = "release", !.lease = lease]
           n       == IF ~Terminal(runs[h.run]) THEN patch ELSE IF lease = 0 THEN Idle ELSE release
<1>1. /\ h.pc = "abort" /\ Become(q, n)
      /\ UNCHANGED <<runs, leases, issue, pods, left, grants, settles>>
    BY DEF AbortRead, At
<1>2. Busy(runs, h) /\ state \in RowStates /\ lease \in Nat /\ RowsStep
    BY <1>1, AtStep, RowFields, RowsSame DEF At
<1> HIDE DEF state, lease
<1>3. Good(runs, patch) /\ Good(runs, release)
  <2> HIDE DEF h
  <2>1. /\ patch \in Handlers /\ patch.pc = "patch" /\ patch.run = h.run
        /\ release \in Handlers /\ release.pc = "release" /\ release.run = h.run
      BY <1>2 DEF Busy, Handlers, Steps
  <2> HIDE DEF patch, release
  <2>2. patch.pc \in FreeSteps /\ release.pc \in FreeSteps
      BY <2>1 DEF FreeSteps, Steps, Launching
  <2> QED BY <1>2, <2>1, <2>2, FreeGood DEF Busy
<1>4. Good(runs', n)
    BY <1>1, <1>3, IdleGood
<1> QED BY <1>1, <1>2, <1>4, RowStepPreserves

\* The terminal write.
LEMMA PatchStep == ASSUME Inductive, NEW q \in Procs, Patch(q) PROVE Preserved
<1> DEFINE h   == handlers[q]
           row == SettledRow(runs[h.run], h.end)
           n   == [h EXCEPT !.pc = "unlock"]
<1>1. /\ h.pc = "patch" /\ Write(h.run, row) /\ Become(q, n)
      /\ UNCHANGED <<leases, issue, pods, left, grants>>
      /\ settles' = settles \/ settles' = [settles EXCEPT ![h.run] = @ + 1]
    BY DEF Patch, At
<1>2. Busy(runs, h) /\ runs[h.run] \in Row /\ h.end \in {"passed", "aborted"}
    BY <1>1, AtStep, HandlerFields DEF At, Busy
<1> HIDE DEF h
<1>3. Successor(runs[h.run], row)
    BY <1>2, SettledSuccessor DEF Busy
<1> HIDE DEF row
<1>4. RowsStep
    BY <1>1, <1>2, <1>3, RowsWritten DEF Busy
<1>5. Good(runs, n)
    BY <1>2, MovedGood DEF FreeSteps, Steps, Launching
<1>6. Good(runs', n)
    BY <1>4, <1>5, GoodKept
<1>7. settles' \in [Cycles -> Nat]
    BY <1>1, SmallTypes
<1> QED BY <1>1, <1>4, <1>6, <1>7, SmallTypes, HandlerStepPreserves

\* The issue is unlocked.
LEMMA UnlockStep == ASSUME Inductive, NEW q \in Procs, Unlock(q) PROVE Preserved
<1> DEFINE n == AfterUnlock(handlers[q], Preserve)
<1>1. /\ ~At(q, "idle") /\ Become(q, n) /\ issue' = [issue EXCEPT !.locked = FALSE]
      /\ UNCHANGED <<runs, leases, pods, left, grants, settles>>
    BY DEF Unlock, At
<1>2. RowsStep /\ Good(runs', n)
    BY <1>1, AtStep, RowsSame, AfterUnlockGood
<1>3. issue' \in [locked : BOOLEAN, closed : BOOLEAN, merged : BOOLEAN, approved : BOOLEAN]
    BY <1>1, SmallTypes
<1> QED BY <1>1, <1>2, <1>3, SmallTypes, HandlerStepPreserves

\* The slot is given back.
LEMMA ReleaseLeaseStep == ASSUME Inductive, NEW q \in Procs, ReleaseLease(q) PROVE Preserved
<1> DEFINE h == handlers[q]
<1>1. /\ ~At(q, "idle") /\ Become(q, AfterRelease(h))
      /\ leases' = [leases EXCEPT ![h.lease] = "released"]
      /\ UNCHANGED <<runs, issue, pods, left, grants, settles>>
    BY DEF ReleaseLease, At
<1>2. RowsStep /\ Good(runs', AfterRelease(h))
    BY <1>1, AtStep, RowsSame, AfterReleaseGood
<1>3. leases' \in [LeaseIds -> {"free", "claimed", "released"}]
    BY <1>1, SmallTypes
<1> QED BY <1>1, <1>2, <1>3, SmallTypes, HandlerStepPreserves

\* The issue is closed.
LEMMA CloseIssueStep == ASSUME Inductive, NEW q \in Procs, CloseIssue(q) PROVE Preserved
<1>1. /\ Become(q, Idle) /\ issue' = [issue EXCEPT !.closed = TRUE]
      /\ UNCHANGED <<runs, leases, pods, left, grants, settles>>
    BY DEF CloseIssue
<1>2. issue' \in [locked : BOOLEAN, closed : BOOLEAN, merged : BOOLEAN, approved : BOOLEAN]
    BY <1>1, SmallTypes
<1> QED BY <1>1, <1>2, RowsSame, IdleGood, SmallTypes, HandlerStepPreserves

\* An operator aborts a cycle.
LEMMA AdminAbortStep ==
    ASSUME Inductive, NEW q \in Procs, NEW c \in Cycles, AdminAbort(q, c) PROVE Preserved
<1>1. /\ Exists(runs[c]) /\ Spend("abort") /\ Become(q, Aborting(c))
      /\ UNCHANGED <<runs, leases, issue, pods, grants, settles>>
    BY DEF AdminAbort
<1>2. RowsStep /\ Good(runs', Aborting(c))
    BY <1>1, RowsSame, AbortingGood
<1>3. left' \in [EventKinds -> Nat]
    BY <1>1, Spent1 DEF EventKinds
<1> QED BY <1>1, <1>2, <1>3, SmallTypes, HandlerStepPreserves

-----------------------------------------------------------------------------
\* Job completions.

\* The grants of a step keep their shape, and no attempt is granted twice.
GrantsFine == grants' \in Seq(Cycles \X Nat) /\ GrantsOK' /\ ReadyOnce'

\* A report that completes the reports of an attempt did not find them complete.
LEMMA RecordRows ==
    ASSUME Inductive, NEW c \in Cycles, Exists(runs[c]), NEW i, NEW j \in JobIds, NEW o \in Outcome,
           CanRecord(runs[c], i, j), Write(c, RecordedRow(runs[c], i, j, o))
    PROVE  /\ RowsStep /\ i \in Nat
           /\ runs'[c] = RecordedRow(runs[c], i, j, o)
           /\ ~AllReported(runs[c].attempts[i])
           /\ Aggregate(RecordedRow(runs[c], i, j, o).attempts[i]) \in Payload
           /\ runs'[c].attempts # <<>>
           /\ CompletionReady(RecordedRow(runs[c], i, j, o), i) => GrantOK(runs', <<c, i>>)
<1> DEFINE row == RecordedRow(runs[c], i, j, o)
<1>1. /\ i \in DOMAIN runs[c].attempts /\ j \in ExpectedJobs(runs[c].attempts[i].phase)
      /\ runs[c].attempts[i].report[j] = NoReport
    BY DEF CanRecord
<1>2. runs[c] \in Row
    BY Parts
<1>3. i \in Nat
    BY <1>1, <1>2, AttemptOfRow
<1>4. /\ Successor(runs[c], row) /\ i \in DOMAIN row.attempts /\ row.attempts[i] \in Attempt
    BY <1>1, <1>2, RecordedSuccessor
<1> HIDE DEF row
<1>5. RowsStep /\ runs'[c] = row
    BY <1>4, RowsWritten DEF row
<1>6. ~AllReported(runs[c].attempts[i])
    BY <1>1 DEF AllReported, Reported
<1>7. Aggregate(row.attempts[i]) \in Payload
    BY <1>4, AggregateType
<1>8. row.attempts # <<>>
  <2>1. row.attempts \in Seq(Attempt)
      BY <1>4, RowFields DEF Successor
  <2> QED BY <1>4, <2>1
<1>9. CompletionReady(row, i) => GrantOK(runs', <<c, i>>)
    BY <1>4, <1>5 DEF CompletionReady, GrantOK
<1> QED BY <1>3, <1>5, <1>6, <1>7, <1>8, <1>9 DEF row

\* RecordRunnerJobCompletion in the goroutine that goes on with it.
LEMMA RecordStep ==
    ASSUME Inductive, NEW q \in Procs, NEW c \in Cycles, Exists(runs[c]), NEW i,
           NEW j \in JobIds, NEW o \in Outcome, Record(q, c, i, j, o)
    PROVE  RowsStep /\ GrantsFine /\ \E n : Become(q, n) /\ Good(runs', n)
<1> DEFINE row == RecordedRow(runs[c], i, j, o)
           agg == Aggregate(row.attempts[i])
<1>1. CASE CanRecord(runs[c], i, j)
  <2>1. Write(c, row)
      BY <1>1 DEF Record
  <2>2. /\ RowsStep /\ i \in Nat /\ ~AllReported(runs[c].attempts[i]) /\ agg \in Payload
        /\ runs'[c].attempts # <<>> /\ (CompletionReady(row, i) => GrantOK(runs', <<c, i>>))
      BY <1>1, <2>1, RecordRows
  <2>3. CASE CompletionReady(row, i)
    <3>1. grants' = Append(grants, <<c, i>>) /\ Become(q, Stamping(c, agg))
        BY <1>1, <2>3 DEF Record
    <3> HIDE DEF agg, row
    <3>2. GrantsFine
        BY <2>2, <2>3, <3>1, GrantsAppended DEF GrantsFine
    <3>3. Good(runs', Stamping(c, agg))
        BY <2>2, StampingGood DEF RowsStep
    <3> QED BY <2>2, <3>1, <3>2, <3>3
  <2>4. CASE ~CompletionReady(row, i)
    <3>1. Become(q, Idle) /\ UNCHANGED grants
        BY <1>1, <2>4 DEF Record
    <3> QED BY <2>2, <3>1, GrantsSame, IdleGood DEF GrantsFine
  <2> QED BY <2>3, <2>4
<1>2. CASE ~CanRecord(runs[c], i, j)
  <2>1. Become(q, Idle) /\ UNCHANGED <<runs, grants>>
      BY <1>2 DEF Record
  <2> QED BY <2>1, RowsSame, GrantsSame, IdleGood DEF GrantsFine
<1> QED BY <1>1, <1>2

\* The parts put together, for a step of a goroutine.
LEMMA WholeStep ==
    ASSUME Inductive, RowsStep, NEW q \in Procs, NEW h, Good(runs', h), Become(q, h),
           pods' \subseteq Pods, PodsOK', GrantsFine,
           UNCHANGED <<leases, issue, settles>>, left' \in [EventKinds -> Nat]
    PROVE  Preserved
<1>1. handlers' \in [Procs -> Handlers] /\ HandlersOK'
    BY HandlersStep
<1> QED BY <1>1, SmallTypes DEF Preserved, Inductive, RowsStep, TypeOK, GrantsFine

\* The outcomes the server makes up are outcomes.
LEMMA LostType == LostOutcome \in Outcome /\ TimedOutOutcome \in Outcome
BY DEF LostOutcome, TimedOutOutcome, Outcome, Conclusions, Verifications

\* A completion made up for a Job that ended without a report.
LEMMA SynthesizeStep == ASSUME Inductive, NEW q \in Procs, Synthesize(q) PROVE Preserved
<1> DEFINE h == handlers[q]
           i == Latest(runs[h.run])
<1>1. /\ ~At(q, "idle") /\ UNCHANGED <<leases, issue, pods, left, settles>>
    BY DEF Synthesize, At
<1>2. PICK j \in h.todo : Record(q, h.run, i, j, LostOutcome)
    BY DEF Synthesize
<1>3. h.run \in Cycles /\ Exists(runs[h.run]) /\ j \in JobIds
    BY <1>1, AtStep, HandlerFields DEF Busy
<1> HIDE DEF h, i
<1>4. RowsStep /\ GrantsFine /\ \E n : Become(q, n) /\ Good(runs', n)
    BY <1>2, <1>3, LostType, RecordStep
<1>5. pods' \subseteq Pods /\ PodsOK'
    BY <1>1, <1>4, PodsSame
<1> QED BY <1>1, <1>4, <1>5, SmallTypes, WholeStep

\* A completion made up for a job that never started, one job at a time.
LEMMA TimeoutJobStep == ASSUME Inductive, NEW q \in Procs, TimeoutJob(q) PROVE Preserved
<1> DEFINE h    == handlers[q]
           c    == h.run
           i    == Latest(runs[c])
           j    == FirstJob(h.target, h.todo)
           more == [h EXCEPT !.todo = @ \ {j}]
           row  == RecordedRow(runs[c], i, j, TimedOutOutcome)
           a    == runs[c].attempts[i]
           agg  == Aggregate(row.attempts[i])
           told == [more EXCEPT !.ready = TRUE, !.payload = agg]
           Done(n) == IF n.todo # {} THEN n ELSE IF n.ready THEN Stamping(c, n.payload) ELSE Idle
<1>1. h.pc = "timeout" /\ UNCHANGED <<leases, issue, pods, left, settles>>
    BY DEF TimeoutJob, At
<1>2. /\ Good(runs, h) /\ Busy(runs, h) /\ c \in Cycles /\ Exists(runs[c]) /\ runs[c] \in Row
      /\ h.target \in PhaseIds /\ h.todo # {} /\ h.todo \subseteq ExpectedJobs(h.target)
    BY <1>1, AtStep DEF At, Good, HandlerOK, Busy
<1>3. j \in h.todo /\ j \in JobIds
  <2>1. j \in h.todo
      BY <1>2, FirstJobIn
  <2> QED BY <1>2, <2>1, HandlerFields DEF Good
<1>4. /\ more \in Handlers /\ more.pc = "timeout" /\ more.run = c /\ more.target = h.target
      /\ more.todo \subseteq ExpectedJobs(h.target) /\ more.ready = h.ready
  <2> HIDE DEF j
  <2> DEFINE rest == h.todo \ {j}
             n    == [h EXCEPT !.todo = rest]
  <2>1. rest \subseteq JobIds /\ rest \subseteq ExpectedJobs(h.target) /\ more = n
      BY <1>2, HandlerFields DEF Good
  <2> HIDE DEF h, rest
  <2>2. /\ n \in Handlers /\ n.pc = h.pc /\ n.run = h.run /\ n.target = h.target
        /\ n.todo = rest /\ n.ready = h.ready
      BY <1>2, <2>1 DEF Good, Handlers
  <2> HIDE DEF n, more
  <2> QED BY <1>1, <2>1, <2>2
\* What the goroutine is when the list goes on or ends.
<1>5. ASSUME NEW rows, Exists(rows[c]), NEW n \in Handlers, n.pc = "timeout", n.run = c,
             n.target = h.target, n.todo \subseteq ExpectedJobs(h.target),
             n.ready => rows[c].attempts # <<>>
      PROVE  Good(rows, Done(n))
  <2>1. n.todo # {} => Good(rows, n)
      BY <1>2, <1>5 DEF Good, HandlerOK, Launching, Committed
  <2>2. n.payload \in Payload
      BY HandlerFields
  <2>3. n.ready => Good(rows, Stamping(c, n.payload))
      BY <1>2, <1>5, <2>2, StampingGood
  <2> QED BY <2>1, <2>3, IdleGood
<1>6. CASE /\ CanRecord(runs[c], i, j) /\ Write(c, row)
           /\ IF CompletionReady(row, i)
              THEN grants' = Append(grants, <<c, i>>) /\ Become(q, Done(told))
              ELSE Become(q, Done(more)) /\ UNCHANGED grants
  <2>1. /\ RowsStep /\ i \in Nat /\ ~AllReported(a) /\ agg \in Payload
        /\ runs'[c].attempts # <<>> /\ (CompletionReady(row, i) => GrantOK(runs', <<c, i>>))
    <3> HIDE DEF h, i, j
    <3> QED BY <1>2, <1>3, <1>6, LostType, RecordRows
  <2>2. Exists(runs'[c])
      BY <1>2, <2>1 DEF RowsStep
  <2> HIDE DEF more, agg
  <2>3. told \in Handlers /\ told.pc = "timeout" /\ told.run = c /\ told.target = h.target
        /\ told.todo = more.todo
      BY <1>4, <2>1 DEF Handlers
  <2> HIDE DEF told
  <2>4. Good(runs', Done(told)) /\ Good(runs', Done(more))
      BY <1>4, <1>5, <2>1, <2>2, <2>3
  <2> HIDE DEF Done
  <2>5. GrantsFine
    <3>1. CASE CompletionReady(row, i)
      <4>1. grants' = Append(grants, <<c, i>>)
          BY <1>6, <3>1
      <4> HIDE DEF h, i, row
      <4> QED BY <1>2, <2>1, <3>1, <4>1, GrantsAppended DEF GrantsFine
    <3>2. CASE ~CompletionReady(row, i)
        BY <1>6, <2>1, <3>2, GrantsSame DEF GrantsFine
    <3> QED BY <3>1, <3>2
  <2>6. \E n : Become(q, n) /\ Good(runs', n)
      BY <1>6, <2>4
  <2>7. pods' \subseteq Pods /\ PodsOK'
      BY <1>1, <2>1, PodsSame
  <2> QED BY <1>1, <2>1, <2>5, <2>6, <2>7, SmallTypes, WholeStep
<1>7. CASE /\ ~CanRecord(runs[c], i, j) /\ UNCHANGED <<runs, grants>>
           /\ Become(q, IF j \in ExpectedJobs(a.phase) /\ (a.completed \/ a.report[j] = TimedOutOutcome)
                        THEN Done(more) ELSE Idle)
  <2>1. RowsStep /\ GrantsFine
      BY <1>7, RowsSame, GrantsSame DEF GrantsFine
  <2>2. Good(runs', Done(more))
    <3>1. more.ready => runs[c].attempts # <<>>
        BY <1>1, <1>2, <1>4 DEF Good, HandlerOK
    <3> HIDE DEF Done, more
    <3> QED BY <1>2, <1>4, <1>5, <1>7, <3>1
  <2> HIDE DEF Done
  <2>3. \E n : Become(q, n) /\ Good(runs', n)
      BY <1>7, <2>2, IdleGood
  <2>4. pods' \subseteq Pods /\ PodsOK'
      BY <1>1, <2>1, PodsSame
  <2> QED BY <1>1, <2>1, <2>3, <2>4, SmallTypes, WholeStep
<1> QED BY <1>6, <1>7 DEF TimeoutJob

-----------------------------------------------------------------------------
\* Pods and the sweeps over them.

\* A pod belongs to an attempt of an existing cycle.
LEMMA PodFacts ==
    ASSUME Inductive, NEW pod \in pods
    PROVE  /\ pod \in Pods /\ pod.run \in Cycles /\ Exists(runs[pod.run])
           /\ runs[pod.run] \in Row /\ pod.job \in JobIds /\ PhaseOf(pod) \in PhaseIds
<1>1. /\ pod \in Pods /\ pod.run \in Cycles /\ Exists(runs[pod.run])
      /\ pod.att \in DOMAIN runs[pod.run].attempts /\ runs \in [Cycles -> Row]
    BY Parts
<1>2. pod.job \in JobIds
    BY <1>1 DEF Pods
<1>3. PhaseOf(pod) \in PhaseIds
    BY <1>1, AttemptOfRow DEF PhaseOf
<1> QED BY <1>1, <1>2, <1>3

\* A step in which no goroutine takes part and no completion is handed out.
LEMMA EnvironmentStep ==
    ASSUME Inductive, RowsStep, pods' \subseteq Pods, PodsOK', UNCHANGED <<leases, handlers, grants, settles>>,
           issue' \in [locked : BOOLEAN, closed : BOOLEAN, merged : BOOLEAN, approved : BOOLEAN],
           left' \in [EventKinds -> Nat]
    PROVE  Preserved
<1>1. handlers' \in [Procs -> Handlers] /\ HandlersOK'
    BY HandlersSame
<1>2. grants' \in Seq(Cycles \X Nat) /\ GrantsOK' /\ ReadyOnce'
    BY GrantsSame
<1> QED BY <1>1, <1>2, SmallTypes DEF Preserved, Inductive, RowsStep, TypeOK

\* A pod's first event.
LEMMA PodStartStep == ASSUME Inductive, NEW pod \in pods, PodStart(pod) PROVE Preserved
<1> DEFINE row == ActiveRow(runs[pod.run], PhaseOf(pod))
<1>1. /\ PodBecomes(pod, "running") /\ Write(pod.run, row)
      /\ UNCHANGED <<leases, issue, handlers, left, grants, settles>>
    BY DEF PodStart
<1>2. RowsStep
  <2>1. Successor(runs[pod.run], row)
      BY PodFacts, ActiveSuccessor
  <2> HIDE DEF row
  <2> QED BY <1>1, <2>1, PodFacts, RowsWritten
<1>3. pods' \subseteq Pods /\ PodsOK'
    BY <1>1, <1>2, PodsMoved DEF PodStates
<1> QED BY <1>1, <1>2, <1>3, SmallTypes, EnvironmentStep

\* The review's pod has the pull request opened.
LEMMA LinkPullRequestStep == ASSUME Inductive, NEW pod \in pods, LinkPullRequest(pod) PROVE Preserved
<1>1. /\ Write(pod.run, LinkedRow(runs[pod.run]))
      /\ UNCHANGED <<leases, issue, pods, handlers, left, grants, settles>>
    BY DEF LinkPullRequest
<1>2. RowsStep
    BY <1>1, PodFacts, LinkedSuccessor, RowsWritten
<1>3. pods' \subseteq Pods /\ PodsOK'
    BY <1>1, <1>2, PodsSame
<1> QED BY <1>1, <1>2, <1>3, SmallTypes, EnvironmentStep

\* The gate's pod has it merged.
LEMMA MergePullRequestStep == ASSUME Inductive, NEW pod \in pods, MergePullRequest(pod) PROVE Preserved
<1>1. /\ issue' = [issue EXCEPT !.merged = TRUE]
      /\ UNCHANGED <<runs, leases, pods, handlers, left, grants, settles>>
    BY DEF MergePullRequest
<1>2. RowsStep
    BY <1>1, RowsSame
<1>3. pods' \subseteq Pods /\ PodsOK'
    BY <1>1, <1>2, PodsSame
<1>4. issue' \in [locked : BOOLEAN, closed : BOOLEAN, merged : BOOLEAN, approved : BOOLEAN]
    BY <1>1, SmallTypes
<1> QED BY <1>1, <1>2, <1>3, <1>4, SmallTypes, EnvironmentStep

\* A pod dies.
LEMMA PodKilledStep == ASSUME Inductive, NEW pod \in pods, PodKilled(pod) PROVE Preserved
<1>1. /\ PodBecomes(pod, "ended") /\ Spend("kill")
      /\ UNCHANGED <<runs, leases, issue, handlers, grants, settles>>
    BY DEF PodKilled
<1>2. RowsStep
    BY <1>1, RowsSame
<1>3. pods' \subseteq Pods /\ PodsOK'
    BY <1>1, <1>2, PodsMoved DEF PodStates
<1>4. left' \in [EventKinds -> Nat]
    BY <1>1, Spent1 DEF EventKinds
<1> QED BY <1>1, <1>2, <1>3, <1>4, SmallTypes, EnvironmentStep

\* A pod reports its job.
LEMMA CallbackStep ==
    ASSUME Inductive, NEW q \in Procs, NEW pod \in pods, Callback(q, pod) PROVE Preserved
<1>1. PICK o \in Outcomes[PhaseOf(pod)] : Record(q, pod.run, pod.att, pod.job, o)
    BY DEF Callback
<1>2. o \in Outcome
    BY PodFacts, LifecycleAssumption
<1>3. RowsStep /\ GrantsFine /\ \E n : Become(q, n) /\ Good(runs', n)
    BY <1>1, <1>2, PodFacts, RecordStep
<1>4. /\ UNCHANGED <<leases, issue, settles>>
      /\ \/ PodBecomes(pod, "ended") /\ Spend("echo")
         \/ PodBecomes(pod, "seen") /\ UNCHANGED left
    BY DEF Callback
<1>5. pods' \subseteq Pods /\ PodsOK'
    BY <1>3, <1>4, PodsMoved DEF PodStates
<1>6. left' \in [EventKinds -> Nat]
    BY <1>4, Spent1, SmallTypes DEF EventKinds
<1> QED BY <1>3, <1>4, <1>5, <1>6, WholeStep

\* The goroutine of the watcher or a reconciler that found a pod ended.
LEMMA SynthGood ==
    ASSUME NEW rows, NEW c \in Cycles, Exists(rows[c]), NEW j \in JobIds
    PROVE  Good(rows, [Idle EXCEPT !.pc = "synth", !.run = c, !.todo = {j}])
<1> DEFINE jobs == {j}
           n    == [Idle EXCEPT !.pc = "synth", !.run = c, !.todo = jobs]
<1>1. Idle \in Handlers /\ c \in Nat /\ jobs \subseteq JobIds
    BY IdleGood DEF Good, Cycles
<1> HIDE DEF jobs
<1>2. n \in Handlers /\ n.pc = "synth" /\ n.run = c
    BY <1>1 DEF Handlers, Steps
<1> HIDE DEF n
<1>3. n.pc \in FreeSteps
    BY <1>2 DEF FreeSteps, Steps, Launching
<1>4. Good(rows, n)
    BY <1>2, <1>3, FreeGood
<1> QED BY <1>4 DEF n, jobs

\* The watcher has the event of a Job that ended.
LEMMA WatchStep ==
    ASSUME Inductive, NEW q \in Procs, NEW pod \in pods, Watch(q, pod) PROVE Preserved
<1> DEFINE found == [Idle EXCEPT !.pc = "synth", !.run = pod.run, !.todo = {pod.job}]
           n     == IF runs[pod.run].state = "in_progress" THEN found ELSE Idle
<1>1. /\ PodBecomes(pod, "seen") /\ Become(q, n)
      /\ UNCHANGED <<runs, leases, issue, left, grants, settles>>
    BY DEF Watch
<1>2. RowsStep /\ Good(runs', found)
    BY <1>1, PodFacts, SynthGood, RowsSame
<1>3. pods' \subseteq Pods /\ PodsOK'
    BY <1>1, <1>2, PodsMoved DEF PodStates
<1> HIDE DEF found
<1>4. Good(runs', n)
    BY <1>2, IdleGood
<1>5. GrantsFine
    BY <1>1, <1>2, GrantsSame DEF GrantsFine
<1> QED BY <1>1, <1>2, <1>3, <1>4, <1>5, SmallTypes, WholeStep

\* The reconciler finds a Job that ended.
LEMMA ReconcileStep ==
    ASSUME Inductive, NEW q \in Procs, NEW pod \in pods, Reconcile(q, pod) PROVE Preserved
<1> DEFINE found == [Idle EXCEPT !.pc = "synth", !.run = pod.run, !.todo = {pod.job}]
<1>1. /\ Spend("sweep") /\ Become(q, found)
      /\ UNCHANGED <<runs, leases, issue, pods, grants, settles>>
    BY DEF Reconcile
<1>2. RowsStep /\ Good(runs', found)
    BY <1>1, PodFacts, SynthGood, RowsSame
<1>3. left' \in [EventKinds -> Nat]
    BY <1>1, Spent1 DEF EventKinds
<1> HIDE DEF found
<1> QED BY <1>1, <1>2, <1>3, SmallTypes, HandlerStepPreserves

\* The sweep finds a phase that was dispatched and never started.
LEMMA DispatchTimeoutStep ==
    ASSUME Inductive, NEW q \in Procs, NEW c \in Cycles, DispatchTimeout(q, c) PROVE Preserved
<1> DEFINE late == {p \in PhaseIds : runs[c].exec[p] = "dispatching"}
           p    == First(late)
           jobs == UnreportedJobs(c, p)
           n    == [Idle EXCEPT !.pc = "timeout", !.run = c, !.target = p, !.todo = jobs]
<1>1. /\ runs[c].state = "in_progress" /\ late # {} /\ Spend("sweep")
      /\ Become(q, IF jobs = {} THEN Aborting(c) ELSE n)
      /\ UNCHANGED <<runs, leases, issue, pods, grants, settles>>
    BY DEF DispatchTimeout
<1>2. Exists(runs[c]) /\ RowsStep
    BY <1>1, RowsSame DEF Exists
<1>3. p \in PhaseIds
  <2>1. late \in SUBSET PhaseIds
      OBVIOUS
  <2> HIDE DEF late
  <2> QED BY <1>1, <2>1, FirstIsMember
<1> HIDE DEF p
<1>4. jobs \subseteq ExpectedJobs(p) /\ jobs \subseteq JobIds
    BY <1>3, JobsOfPhase DEF UnreportedJobs
<1> HIDE DEF jobs
<1>5. jobs # {} => Good(runs', n)
  <2>1. Idle \in Handlers /\ c \in Nat
      BY IdleGood DEF Good, Cycles
  <2>2. Idle \in Handlers /\ c \in Nat /\ ~Idle.ready
      BY <2>1, ~Idle.ready DEF Idle
  <2>3. /\ n \in Handlers /\ n.pc = "timeout" /\ n.run = c /\ n.target = p /\ n.todo = jobs
        /\ ~n.ready
      BY <1>3, <1>4, <2>2 DEF Handlers, Steps
  <2> HIDE DEF n
  <2> QED BY <1>1, <1>2, <1>3, <1>4, <2>3 DEF Good, HandlerOK, Launching, Committed
<1>6. Good(runs', Aborting(c))
    BY <1>1, <1>2, AbortingGood
<1>7. left' \in [EventKinds -> Nat]
    BY <1>1, Spent1 DEF EventKinds
<1> HIDE DEF n
<1>8. \E m : Become(q, m) /\ Good(runs', m)
    BY <1>1, <1>5, <1>6
<1> QED BY <1>1, <1>2, <1>7, <1>8, SmallTypes, HandlerStepPreserves

-----------------------------------------------------------------------------
\* Failures.

\* A call fails.
LEMMA CallFailsStep == ASSUME Inductive, NEW q \in Procs, CallFails(q) PROVE Preserved
<1> DEFINE h == handlers[q]
           n == AfterError(h, Preserve)
<1>1. /\ h.pc # "idle" /\ Spend("fault") /\ Become(q, n)
      /\ UNCHANGED <<runs, leases, issue, grants, settles>>
      /\ \/ UNCHANGED pods
         \/ h.pc = "launch" /\ h.todo # {} /\ pods' = pods \union {NextPod(h)}
    BY DEF CallFails
<1>2. RowsStep /\ Good(runs', n)
    BY <1>1, AtStep, RowsSame, AfterErrorGood DEF At
<1>3. pods' \subseteq Pods /\ PodsOK'
    BY <1>1, <1>2, PodsSame, NextPodType, PodsCreated
<1>4. GrantsFine
    BY <1>1, <1>2, GrantsSame DEF GrantsFine
<1>5. left' \in [EventKinds -> Nat]
    BY <1>1, Spent1 DEF EventKinds
<1> QED BY <1>1, <1>2, <1>3, <1>4, <1>5, WholeStep

\* A goroutine is gone.
LEMMA CrashStep == ASSUME Inductive, NEW q \in Procs, Crash(q) PROVE Preserved
<1>1. /\ Spend("crash") /\ Become(q, Idle)
      /\ UNCHANGED <<runs, leases, issue, pods, grants, settles>>
    BY DEF Crash
<1>2. left' \in [EventKinds -> Nat]
    BY <1>1, Spent1 DEF EventKinds
<1> QED BY <1>1, <1>2, RowsSame, IdleGood, SmallTypes, HandlerStepPreserves
-----------------------------------------------------------------------------
(***************************************************************************)
(* Theorems.                                                               *)
(***************************************************************************)

\* A run starts with the first cycle in the queue and nobody at work on it.
LEMMA InitInductive == Init => Inductive
<1> SUFFICES ASSUME Init PROVE Inductive
    OBVIOUS
<1> DEFINE first == QueuedRow(1, <<>>, FALSE, 0, 0)
<1>1. 1 \in PhaseIds /\ MaxCycles \in Nat \ {0} /\ Limits \in [EventKinds -> Nat]
  <2>1. Phases \in Seq(PhaseSpec) /\ Len(Phases) > 0
      BY WorkflowAssumption DEF ValidWorkflow
  <2>2. 1 \in PhaseIds
      BY <2>1 DEF PhaseIds
  <2> QED BY <2>2, LifecycleAssumption
<1>2. first \in Row /\ Exists(first) /\ first.entry \in PhaseIds /\ IsEntry(first.entry)
  <2>1. <<>> \in Seq(Attempt) /\ FALSE \in BOOLEAN /\ 0 \in Nat
      OBVIOUS
  <2>2. first \in Row /\ Exists(first) /\ first.entry = 1
      BY ONLY <1>1, <2>1, QueuedType, ZenonT(120)
  <2>3. IsEntry(1)
      BY ONLY DEF IsEntry
  <2> QED BY ONLY <1>1, <2>2, <2>3
<1>3. runs = [c \in Cycles |-> IF c = 1 THEN first ELSE AbsentRow]
    BY DEF Init
<1> HIDE DEF first
<1>4. \A c \in Cycles : runs[c] = IF c = 1 THEN first ELSE AbsentRow
    BY <1>3
<1>5. runs \in [Cycles -> Row]
    BY <1>3, <1>2, AbsentType
<1>6. RowsOK
  <2> SUFFICES ASSUME NEW c \in Cycles PROVE RowOK(runs[c], c)
      BY DEF RowsOK
  <2>1. CASE c = 1
      BY <1>2, <1>4, <2>1 DEF RowOK
  <2>2. CASE c # 1
      BY <1>4, <2>2, AbsentType DEF RowOK
  <2> QED BY <2>1, <2>2
<1>7. handlers \in [Procs -> Handlers] /\ HandlersOK
    BY IdleGood DEF Init, HandlersOK, Good
<1>8. /\ leases \in [LeaseIds -> {"free", "claimed", "released"}]
      /\ issue \in [locked : BOOLEAN, closed : BOOLEAN, merged : BOOLEAN, approved : BOOLEAN]
      /\ pods \subseteq Pods /\ left \in [EventKinds -> Nat] /\ grants \in Seq(Cycles \X Nat)
      /\ settles \in [Cycles -> Nat]
    BY <1>1 DEF Init
<1>9. PodsOK /\ GrantsOK /\ ReadyOnce
    BY DEF Init, PodsOK, GrantsOK, ReadyOnce
<1> QED BY <1>5, <1>6, <1>7, <1>8, <1>9 DEF Inductive, TypeOK

\* The steps of a goroutine that is at work.
LEMMA HandlerStepKeeps == ASSUME Inductive, NEW q \in Procs, HandlerStep(q) PROVE Preserved
<1>1. CASE Synthesize(q) \/ TimeoutJob(q)
    BY <1>1, SynthesizeStep, TimeoutJobStep
<1>2. CASE Stamp(q) \/ MakeDecision(q)
    BY <1>2, StampStep, MakeDecisionStep
<1>3. CASE Park(q) \/ AppendAttempt(q) \/ SkipPhase(q) \/ SkipJobs(q)
    BY <1>3, ParkStep, AppendAttemptStep, SkipPhaseStep, SkipJobsStep
<1>4. CASE ReadLease(q) \/ Launch(q) \/ LaunchNothing(q)
    BY <1>4, ReadLeaseStep, LaunchStep, LaunchNothingStep
<1>5. CASE Recycle(q) \/ CreateChild(q) \/ Start(q)
    BY <1>5, RecycleStep, CreateChildStep, StartStep
<1>6. CASE Acquire(q) \/ DropLease(q)
    BY <1>6, AcquireStep, DropLeaseStep
<1>7. CASE OpenGate(q) \/ CancelGate(q)
    BY <1>7, OpenGateStep, CancelGateStep
<1>8. CASE SettleRead(q) \/ AbortRead(q) \/ Patch(q)
    BY <1>8, SettleReadStep, AbortReadStep, PatchStep
<1>9. CASE Unlock(q) \/ ReleaseLease(q) \/ CloseIssue(q)
    BY <1>9, UnlockStep, ReleaseLeaseStep, CloseIssueStep
<1> QED BY <1>1, <1>2, <1>3, <1>4, <1>5, <1>6, <1>7, <1>8, <1>9 DEF HandlerStep

\* What starts, fails or kills a goroutine.
LEMMA ServerKeeps == ASSUME Inductive, NEW q \in Procs, Server(q) PROVE Preserved
<1>1. CASE HandlerStep(q)
    BY <1>1, HandlerStepKeeps
<1>2. CASE \E pod \in pods : Callback(q, pod) \/ Watch(q, pod) \/ Reconcile(q, pod)
    BY <1>2, CallbackStep, WatchStep, ReconcileStep
<1>3. CASE \E c \in Cycles : \/ DispatchTimeout(q, c) \/ Admit(q, c)
                             \/ Approve(q, c) \/ CancelReview(q, c) \/ AdminAbort(q, c)
  <2> PICK c \in Cycles : \/ DispatchTimeout(q, c) \/ Admit(q, c)
                          \/ Approve(q, c) \/ CancelReview(q, c) \/ AdminAbort(q, c)
      BY <1>3
  <2>1. CASE DispatchTimeout(q, c) \/ Admit(q, c) \/ AdminAbort(q, c)
      BY <2>1, DispatchTimeoutStep, AdmitStep, AdminAbortStep
  <2>2. CASE Approve(q, c)
      BY <2>2, ReviewSignalStep DEF Approve
  <2>3. CASE CancelReview(q, c)
      BY <2>3, ReviewSignalStep DEF CancelReview
  <2> QED BY <2>1, <2>2, <2>3
<1>4. CASE CallFails(q) \/ Crash(q)
    BY <1>4, CallFailsStep, CrashStep
<1> QED BY <1>1, <1>2, <1>3, <1>4 DEF Server

\* Every step keeps the invariant and the ledger.
LEMMA NextKeeps == ASSUME Inductive, [Next]_vars PROVE Preserved
<1>1. CASE PodStep
  <2> PICK pod \in pods : PodStart(pod) \/ LinkPullRequest(pod) \/ MergePullRequest(pod)
      BY <1>1 DEF PodStep
  <2> QED BY PodStartStep, LinkPullRequestStep, MergePullRequestStep
<1>2. CASE \E pod \in pods : PodKilled(pod)
    BY <1>2, PodKilledStep
<1>3. CASE \E q \in Procs : Server(q)
    BY <1>3, ServerKeeps
<1>4. CASE UNCHANGED vars
  <2>1. Inductive'
      BY <1>4 DEF vars, Inductive, TypeOK, RowsOK, PodsOK, HandlersOK, GrantsOK, ReadyOnce
  <2>2. LedgerKept
      BY <1>4, RowsSame DEF vars, RowsStep
  <2> QED BY <2>1, <2>2 DEF Preserved
<1> QED BY <1>1, <1>2, <1>3, <1>4 DEF Next

\* The inductive invariant holds whatever fails, crashes or is aborted, and in whatever
\* order the steps of the server's goroutines come.
THEOREM InductiveInvariant == Spec => []Inductive
<1>1. Inductive /\ [Next]_vars => Inductive'
    BY NextKeeps DEF Preserved
<1> QED BY <1>1, InitInductive, PTL DEF Spec

\* Every write of the engine, the launcher, the reconcilers, the queue, the reviewer and
\* the operator leaves rows of the shape the store defines, and goroutines that only ever
\* hold phases, jobs and attempts of the workflow.
THEOREM TypeCorrect == Spec => []TypeOK
<1>1. Inductive => TypeOK
    BY DEF Inductive
<1> QED BY <1>1, InductiveInvariant, PTL

\* Of all the reports of the jobs of an attempt exactly one is told to process its
\* completion (RecordRunnerJobCompletion), however many come, of whatever jobs, from
\* pods, watcher and reconcilers.
THEOREM ReadyOnceHolds == Spec => []ReadyOnce
<1>1. Inductive => ReadyOnce
    BY DEF Inductive
<1> QED BY <1>1, InductiveInvariant, PTL

\* No run has more cycles than a recycle policy of its workflow allows (Decide,
\* decisionAttemptsForRun), also when retries race, fail halfway or are repeated.
THEOREM CyclesAreBounded == Spec => []CyclesBounded
<1>1. Inductive => CyclesBounded
    BY DEF Inductive, RowsOK, RowOK, Within, CyclesBounded
<1> QED BY <1>1, InductiveInvariant, PTL

\* No step loses an attempt, changes its phase, or replaces what a job reported, other
\* than by the skip of a job whose condition is false.
THEOREM LedgerNeverShrinks == Spec => LedgerIsAppendOnly
<1>1. Inductive /\ [Next]_vars => [LedgerKept]_vars
    BY NextKeeps DEF Preserved
<1> QED BY <1>1, InductiveInvariant, PTL DEF Spec, LedgerIsAppendOnly

-----------------------------------------------------------------------------
(***************************************************************************)
(* Nothing is merged unasked.  Pods of the gate come only of goroutines    *)
(* that hold an attempt of it, which only the approval of a parked gate    *)
(* gives them: the dispatchers park instead, and no cycle starts there.    *)
(***************************************************************************)

IsGate(p) == Purpose(p) = "review_gate"

\* No recycle policy lands at the gate: registration does not look.
NoRetryAtGate == \A p \in PhaseIds : RetryTarget(p) \in PhaseIds => ~IsGate(RetryTarget(p))

NoEntryIsGate == \A p \in PhaseIds : IsEntry(p) => ~IsGate(p)

\* Registration sees to the first phase.
LEMMA EntryIsNoGate == ASSUME NoRetryAtGate PROVE NoEntryIsGate
BY WorkflowAssumption DEF NoRetryAtGate, NoEntryIsGate, IsEntry, ValidWorkflow, IsGate

\* The steps at which a goroutine is about to start a cycle at its target.
Starting == {"acquire", "create", "start"}
Marked == Committed \union Starting

\* A goroutine that has no gate in hand.
NoGate(rows, h) ==
    /\ h.pc \in Committed => ~IsGate(rows[h.on].attempts[h.att].phase)
    /\ h.pc \in Starting => ~IsGate(h.target)

Unapproved ==
    /\ ~issue.merged
    /\ \A pod \in pods : ~IsGate(PhaseOf(pod))
    /\ \A q \in Procs : NoGate(runs, handlers[q])

MergeInv == ~issue.approved => Unapproved

\* Attempts keep their phases, so what has no gate in hand goes without.
LEMMA PhasesKept ==
    ASSUME Inductive, LedgerKept, NEW c \in Cycles, NEW i \in DOMAIN runs[c].attempts
    PROVE  runs'[c].attempts[i].phase = runs[c].attempts[i].phase
BY DEF LedgerKept, RowKept, AttemptKept

\* So a goroutine without a gate in hand keeps having none, whatever others write.
LEMMA NoGateKept ==
    ASSUME Inductive, LedgerKept, NEW q \in Procs, NoGate(runs, handlers[q])
    PROVE  NoGate(runs', handlers[q])
<1> DEFINE h == handlers[q]
<1>1. h.pc \in Committed => h.on \in Cycles /\ h.att \in DOMAIN runs[h.on].attempts
    BY DEF Inductive, HandlersOK, HandlerOK, Launching, Committed
<1> HIDE DEF h
<1>2. h.pc \in Committed => runs'[h.on].attempts[h.att].phase = runs[h.on].attempts[h.att].phase
    BY <1>1, PhasesKept
<1>3. NoGate(runs, h)
    BY DEF h
<1>4. NoGate(runs', h)
    BY <1>2, <1>3 DEF NoGate
<1> QED BY <1>4 DEF h

\* A pod goes on belonging to a phase that is not the gate.
LEMMA OldPod ==
    ASSUME Inductive, LedgerKept, Unapproved, NEW pod, NEW old \in pods,
           pod.run = old.run, pod.att = old.att
    PROVE  ~IsGate(runs'[pod.run].attempts[pod.att].phase)
<1>1. old.run \in Cycles /\ old.att \in DOMAIN runs[old.run].attempts
    BY Parts
<1> QED BY <1>1, PhasesKept DEF Unapproved, PhaseOf

\* What is neither committed to an attempt nor about to start a cycle has no gate.
LEMMA UnmarkedNoGate ==
    ASSUME NEW rows, NEW h, h.pc \notin Marked PROVE NoGate(rows, h)
BY DEF NoGate, Marked

\* Calm: neither committed to an attempt nor about to start a cycle.
Calm(h) == h.pc \notin Marked

\* A goroutine that begins something is calm.
LEMMA CalmStarts ==
    /\ Calm(Idle)
    /\ \A c, payload : Calm(Stamping(c, payload))
    /\ \A c, end : Calm(Settling(c, end))
    /\ \A c : Calm(Aborting(c))
BY DEF Calm, Idle, Stamping, Settling, Aborting, Marked, Committed, Starting

\* So is one that goes to a step of no dispatch, or to its first.
LEMMA CalmMoves ==
    ASSUME NEW h \in Handlers
    PROVE  /\ \A pc \in Steps \ Marked : Calm([h EXCEPT !.pc = pc])
           /\ \A mode \in Modes, p \in PhaseIds : Calm(Dispatching(h, mode, p))
           /\ \A p \in PhaseIds : Calm([h EXCEPT !.pc = "dispatch", !.target = p])
           /\ \A mode \in Modes : Calm([h EXCEPT !.pc = "recycle", !.mode = mode])
BY DEF Calm, Dispatching, Handlers, Marked, Committed, Starting

\* Where a failed dispatch, a decision and the ends of the other steps lead.
LEMMA CalmFailure == ASSUME NEW h \in Handlers PROVE Calm(AfterFailure(h))
<1>1. Calm(CleaningUp(h))
    BY CalmStarts, CalmMoves, TargetIsPhase DEF CleaningUp, Modes
<1>2. Calm([h EXCEPT !.pc = "dropabort"])
    BY CalmMoves DEF Steps, Marked, Committed, Starting
<1>3. h.mode \in Modes
    BY HandlerFields
<1> QED BY <1>1, <1>2, <1>3, CalmStarts DEF AfterFailure, Modes

\* Where a decision leads.
LEMMA CalmDecision ==
    ASSUME NEW h \in Handlers, NEW verdict PROVE Calm(AfterDecision(h, verdict))
<1>1. \A p \in PhaseIds : Calm(Dispatching(h, IF verdict = "advance" THEN "advance" ELSE "abort", p))
    BY CalmMoves DEF Modes
<1>2. Calm([h EXCEPT !.pc = "recycle", !.mode = "retry"])
    BY CalmMoves DEF Modes
<1>3. DispatchTarget(h.base.attempts, verdict) # NoPhase
        => DispatchTarget(h.base.attempts, verdict) \in PhaseIds
    BY TargetIsPhase
<1> QED BY <1>1, <1>2, <1>3, CalmStarts DEF AfterDecision

\* Where the end of a run, a skipped phase and a dropped lease lead.
LEMMA CalmEnds ==
    ASSUME NEW h \in Handlers, NEW as
    PROVE  /\ Calm(AfterSkip(h, as)) /\ Calm(AfterUnlock(h, Preserve))
           /\ Calm(AfterRelease(h)) /\ Calm(AfterDrop(h))
<1>1. Calm([h EXCEPT !.pc = "release"]) /\ Calm([h EXCEPT !.pc = "close"])
    BY CalmMoves DEF Steps, Marked, Committed, Starting
<1>2. Calm(AfterSkip(h, as))
    BY CalmStarts, CalmMoves, TargetIsPhase DEF AfterSkip
<1> QED BY <1>1, <1>2, CalmStarts DEF AfterUnlock, AfterRelease, AfterDrop

\* Where the decision on the own copy leads.
LEMMA CalmDecided ==
    ASSUME NEW rows, NEW h, Good(rows, h), h.pc = "decide" PROVE Calm(Decided(h))
<1> DEFINE copy == DecidedCopy(h.base, Verdict(h), h.payload)
<1>1. copy \in Row
  <2>1. h.base \in Row /\ Exists(h.base) /\ h.payload \in Payload
      BY HandlerFields DEF Good, HandlerOK
  <2> QED BY <2>1, DecideType, DecidedCopySuccessor DEF Successor, Verdict
<1>2. [h EXCEPT !.base = copy] \in Handlers
  <2> HIDE DEF copy
  <2> QED BY <1>1 DEF Good, Handlers
<1> QED BY <1>2, CalmDecision DEF Decided

\* Where the failure of any call leads.
LEMMA CalmError ==
    ASSUME NEW rows, NEW h, Good(rows, h) PROVE Calm(AfterError(h, Preserve))
<1>1. h \in Handlers
    BY DEF Good
<1> QED BY <1>1, CalmStarts, CalmFailure, CalmDecided, CalmEnds DEF AfterError

Calmly(q) == \E n : Become(q, n) /\ Calm(n)
SameIssue == issue'.merged = issue.merged

\* The steps that leave their goroutine calm, and neither pods nor merges behind.
LEMMA CalmRecord ==
    ASSUME NEW q, NEW c, NEW i, NEW j, NEW o, Record(q, c, i, j, o) PROVE Calmly(q)
BY CalmStarts DEF Record, Calmly

\* Every job the dispatch timeout records leaves it calm.
LEMMA CalmTimeout == ASSUME Inductive, NEW q \in Procs, TimeoutJob(q) PROVE Calmly(q)
<1> DEFINE h    == handlers[q]
           c    == h.run
           i    == Latest(runs[c])
           j    == FirstJob(h.target, h.todo)
           row  == RecordedRow(runs[c], i, j, TimedOutOutcome)
           agg  == Aggregate(row.attempts[i])
           more == [h EXCEPT !.todo = @ \ {j}]
           told == [more EXCEPT !.ready = TRUE, !.payload = agg]
           Done(n) == IF n.todo # {} THEN n ELSE IF n.ready THEN Stamping(c, n.payload) ELSE Idle
<1>1. h.pc = "timeout" /\ h \in Handlers
    BY Parts DEF TimeoutJob, At
<1>2. more.pc = "timeout" /\ told.pc = "timeout"
  <2> HIDE DEF j, agg, h
  <2> QED BY <1>1 DEF Handlers
<1>3. Calm(more) /\ Calm(told)
    BY <1>2 DEF Calm, Marked, Committed, Starting
<1>4. \E n \in {Done(more), Done(told), Idle} : Become(q, n)
    BY DEF TimeoutJob
<1> HIDE DEF more, told
<1>5. Calm(Done(more)) /\ Calm(Done(told)) /\ Calm(Idle)
    BY <1>3, CalmStarts
<1> QED BY <1>4, <1>5 DEF Calmly

\* So do the steps of the completion engine that launch nothing.
LEMMA CalmEngine ==
    ASSUME Inductive, NEW q \in Procs,
           \/ Stamp(q) \/ MakeDecision(q) \/ Park(q) \/ SkipPhase(q) \/ LaunchNothing(q)
           \/ DropLease(q) \/ CancelGate(q)
    PROVE  Calmly(q) /\ UNCHANGED <<pods, issue>>
<1> DEFINE h == handlers[q]
<1>0. UNCHANGED <<pods, issue>>
    BY DEF Stamp, MakeDecision, Park, SkipPhase, LaunchNothing, DropLease, CancelGate
<1>1. Good(runs, h) /\ h \in Handlers
    BY Parts
<1>2. CASE Stamp(q)
  <2> DEFINE row == StampedRow(runs[h.run], h.payload)
             n   == [h EXCEPT !.pc = "decide", !.base = row]
  <2>1. Become(q, n)
      BY <1>2 DEF Stamp
  <2> HIDE DEF row, h
  <2>2. Calm(n)
      BY <1>1 DEF Handlers, Calm, Marked, Committed, Starting
  <2> QED BY <1>0, <2>1, <2>2 DEF Calmly
<1>3. CASE MakeDecision(q)
    BY <1>0, <1>1, <1>3, CalmDecided DEF MakeDecision, At, Calmly
<1>4. CASE Park(q)
    BY <1>0, <1>4, CalmStarts DEF Park, Calmly
<1>5. CASE SkipPhase(q)
    BY <1>0, <1>1, <1>5, CalmEnds DEF SkipPhase, Calmly
<1>6. CASE LaunchNothing(q)
    BY <1>0, <1>1, <1>6, CalmFailure DEF LaunchNothing, Calmly
<1>7. CASE DropLease(q)
    BY <1>0, <1>1, <1>7, CalmEnds DEF DropLease, Calmly
<1>8. CASE CancelGate(q)
  <2> DEFINE row == CancelledRow(runs[h.on], h.att)
             p   == DispatchTarget(row.attempts, "abort_requested")
             n   == Dispatching([h EXCEPT !.base = row], "cancel", p)
  <2>1. \/ Become(q, Settling(h.run, "aborted")) \/ Become(q, Idle)
        \/ Become(q, n)
      BY <1>8 DEF CancelGate
  <2> HIDE DEF row, h, p
  <2>2. Calm(n)
      BY <1>1 DEF Handlers, Dispatching, Calm, Marked, Committed, Starting
  <2> QED BY <1>0, <2>1, <2>2, CalmStarts DEF Calmly
<1> QED BY <1>2, <1>3, <1>4, <1>5, <1>6, <1>7, <1>8

\* So does the settling of a run.
LEMMA CalmSettling ==
    ASSUME Inductive, NEW q \in Procs,
           \/ SettleRead(q) \/ AbortRead(q) \/ Patch(q)
           \/ Unlock(q) \/ ReleaseLease(q) \/ CloseIssue(q)
    PROVE  Calmly(q) /\ UNCHANGED pods /\ SameIssue
<1> DEFINE h == handlers[q]
<1>0. UNCHANGED pods /\ SameIssue
    BY SmallTypes DEF SettleRead, AbortRead, Patch, Unlock, ReleaseLease, CloseIssue, SameIssue
<1>1. h \in Handlers
    BY Parts
<1>2. CASE SettleRead(q) \/ AbortRead(q)
  <2> DEFINE state == runs[h.run].state
             lease == runs[h.run].lease
             n     == [h EXCEPT !.pc = "patch", !.pre = state, !.lease = lease]
             m     == [h EXCEPT !.pc = "release", !.lease = lease]
  <2>1. Become(q, n) \/ Become(q, Idle) \/ Become(q, m)
      BY <1>2 DEF SettleRead, AbortRead
  <2> HIDE DEF state, lease, h
  <2>2. Calm(n) /\ Calm(m)
      BY <1>1 DEF Handlers, Calm, Marked, Committed, Starting
  <2> QED BY <1>0, <2>1, <2>2, CalmStarts DEF Calmly
<1>3. CASE Patch(q)
  <2>1. Calm([h EXCEPT !.pc = "unlock"])
      BY <1>1, CalmMoves DEF Steps, Marked, Committed, Starting
  <2> QED BY <1>0, <1>3, <2>1 DEF Patch, Calmly
<1>4. CASE Unlock(q) \/ ReleaseLease(q) \/ CloseIssue(q)
    BY <1>0, <1>1, <1>4, CalmEnds, CalmStarts DEF Unlock, ReleaseLease, CloseIssue, Calmly
<1> QED BY <1>2, <1>3, <1>4

\* Requests, events and sweeps that wake an idle goroutine.
LEMMA CalmWaking ==
    ASSUME Inductive, NEW q \in Procs,
           \/ \E pod \in pods : Watch(q, pod) \/ Reconcile(q, pod)
           \/ \E c \in Cycles : \/ DispatchTimeout(q, c) \/ AdminAbort(q, c)
                                \/ Approve(q, c) \/ CancelReview(q, c)
           \/ Crash(q)
    PROVE  Calmly(q) /\ UNCHANGED issue
<1>0. UNCHANGED issue
    BY DEF Watch, Reconcile, DispatchTimeout, AdminAbort, Approve, CancelReview, ReviewSignal, Crash
<1>1. CASE \E pod \in pods : Watch(q, pod) \/ Reconcile(q, pod)
  <2> PICK pod \in pods : Watch(q, pod) \/ Reconcile(q, pod)
      BY <1>1
  <2> DEFINE n == [Idle EXCEPT !.pc = "synth", !.run = pod.run, !.todo = {pod.job}]
  <2>1. Become(q, n) \/ Become(q, Idle)
      BY DEF Watch, Reconcile
  <2>2. Calm(n)
      BY DEF Idle, Calm, Marked, Committed, Starting
  <2> QED BY <1>0, <2>1, <2>2, CalmStarts DEF Calmly
<1>2. CASE \E c \in Cycles : DispatchTimeout(q, c)
  <2> PICK c \in Cycles : DispatchTimeout(q, c)
      BY <1>2
  <2> DEFINE p    == First({r \in PhaseIds : runs[c].exec[r] = "dispatching"})
             todo == UnreportedJobs(c, p)
             n    == [Idle EXCEPT !.pc = "timeout", !.run = c, !.target = p, !.todo = todo]
  <2>1. Become(q, n) \/ Become(q, Aborting(c))
      BY DEF DispatchTimeout
  <2> HIDE DEF p, todo
  <2>2. Calm(n)
      BY DEF Idle, Calm, Marked, Committed, Starting
  <2> QED BY <1>0, <2>1, <2>2, CalmStarts DEF Calmly
<1>3. CASE \E c \in Cycles : Approve(q, c) \/ CancelReview(q, c)
  <2> PICK c \in Cycles, kind \in {"approve", "cancel"}, step \in {"opengate", "cancelgate"} :
             ReviewSignal(q, c, kind, step)
      BY <1>3 DEF Approve, CancelReview
  <2> DEFINE Found(i) == [Idle EXCEPT !.pc = step, !.mode = kind, !.run = c, !.on = c,
                                      !.base = runs[c], !.att = i,
                                      !.target = runs[c].attempts[i].phase,
                                      !.todo = ExpectedJobs(runs[c].attempts[i].phase)]
  <2>1. \E i \in ParkedGates(c) : Become(q, Found(i))
      BY DEF ReviewSignal
  <2>2. \A i : Calm(Found(i))
      BY DEF Idle, Calm, Marked, Committed, Starting
  <2> HIDE DEF Found
  <2> QED BY <1>0, <2>1, <2>2 DEF Calmly
<1>4. CASE (\E c \in Cycles : AdminAbort(q, c)) \/ Crash(q)
    BY <1>0, <1>4, CalmStarts DEF AdminAbort, Crash, Calmly
<1> QED BY <1>1, <1>2, <1>3, <1>4

-----------------------------------------------------------------------------
\* The steps by which a goroutine gets an attempt or a cycle to start in hand.

\* The goroutine that goes on holds the attempt with number i of cycle c, of a phase that
\* is not the gate.
LEMMA HoldsNoGate ==
    ASSUME NEW rows, NEW h, h.pc \in Committed, ~IsGate(rows[h.on].attempts[h.att].phase)
    PROVE  NoGate(rows, h)
BY DEF NoGate, Committed, Starting

\* The goroutine that goes on is to start a cycle at a phase that is not the gate.
LEMMA StartsNoGate ==
    ASSUME NEW rows, NEW h, h.pc \in Starting, ~IsGate(h.target) PROVE NoGate(rows, h)
BY DEF NoGate, Committed, Starting

\* After an attempt of such a phase was appended.
LEMMA AppendedNoGate ==
    ASSUME NEW rows, NEW h \in Handlers, NEW p \in PhaseIds, NEW i \in Nat,
           rows[h.on].attempts[i] = NewAttempt(p), ~IsGate(p)
    PROVE  NoGate(rows, AfterAppend(h, p, i))
<1> DEFINE pc   == IF SkippedJobs(p) # {} THEN "skipjobs"
                   ELSE IF h.mode = "admit" THEN "launch" ELSE "lease"
           todo == ExpectedJobs(p) \ SkippedJobs(p)
           n    == [h EXCEPT !.att = i, !.todo = todo, !.pc = pc]
<1>1. AfterAppend(h, p, i) = n
    BY DEF AfterAppend
<1>2. pc \in Committed
    BY DEF Committed
<1> HIDE DEF pc, todo
<1>3. n.pc = pc /\ n.on = h.on /\ n.att = i
    BY DEF Handlers
<1> HIDE DEF n
<1>4. rows[n.on].attempts[n.att].phase = p
    BY <1>3 DEF NewAttempt
<1> QED BY <1>1, <1>2, <1>3, <1>4, HoldsNoGate

\* Each of the steps leaves its goroutine without a gate in hand.
Gateless(q) == \E n : Become(q, n) /\ NoGate(runs', n)

\* What is calm has no gate in hand.
LEMMA CalmIsGateless == ASSUME NEW q, Calmly(q) PROVE Gateless(q)
BY UnmarkedNoGate DEF Calmly, Calm, Gateless

\* dispatchForwardPhase parks at the gate and appends no attempt of it.
LEMMA AppendAttemptGateless ==
    ASSUME Inductive, NEW q \in Procs, AppendAttempt(q) PROVE Gateless(q)
<1> DEFINE h   == handlers[q]
           row == AppendedRow(runs[h.on], h.target)
<1>1. /\ h.pc = "dispatch" /\ Write(h.on, row) /\ ~IsGate(h.target)
      /\ Become(q, AfterAppend(h, h.target, Latest(row))) \/ Become(q, [h EXCEPT !.pc = "skip"])
    BY DEF AppendAttempt, At, IsGate
<1>2. /\ h \in Handlers /\ h.on \in Cycles /\ Exists(runs[h.on])
      /\ runs[h.on] \in Row /\ h.target \in PhaseIds
    BY <1>1, AtLaunch, Parts DEF Launching
<1> HIDE DEF h
<1>3. /\ Successor(runs[h.on], row) /\ Latest(row) \in DOMAIN row.attempts
      /\ row.attempts[Latest(row)] = NewAttempt(h.target)
    BY <1>2, AppendedSuccessor
<1>4. Latest(row) \in Nat
    BY <1>3, AttemptOfRow DEF Successor
<1> HIDE DEF row
<1>5. runs'[h.on] = row
    BY <1>1, <1>2, <1>3, RowsWritten
<1>6. NoGate(runs', AfterAppend(h, h.target, Latest(row)))
    BY <1>1, <1>2, <1>3, <1>4, <1>5, AppendedNoGate
<1>7. NoGate(runs', [h EXCEPT !.pc = "skip"])
  <2>1. Calm([h EXCEPT !.pc = "skip"])
      BY <1>2, CalmMoves DEF Steps, Marked, Committed, Starting
  <2> QED BY <2>1, UnmarkedNoGate DEF Calm
<1> QED BY <1>1, <1>6, <1>7 DEF Gateless

\* A cycle starts at the phase the goroutine had in hand.
LEMMA StartGateless ==
    ASSUME Inductive, NEW q \in Procs, NoGate(runs, handlers[q]), Start(q) PROVE Gateless(q)
<1> DEFINE h    == handlers[q]
           row  == StartedRow(runs[h.on], h.target, h.lease)
           drop == [h EXCEPT !.pc = "drop"]
<1>1. h.pc = "start"
    BY DEF Start, At
<1>2. /\ h \in Handlers /\ h.on \in Cycles /\ Exists(runs[h.on])
      /\ runs[h.on] \in Row /\ h.target \in PhaseIds /\ h.lease \in Nat /\ ~IsGate(h.target)
    BY <1>1, AtLaunch, Parts, HandlerFields DEF Launching, NoGate, Starting
<1>3. CASE CanStart(runs[h.on])
  <2>1. Write(h.on, row) /\ Become(q, AfterAppend(h, h.target, Latest(row)))
      BY <1>3 DEF Start
  <2> HIDE DEF h
  <2>2. /\ Successor(runs[h.on], row) /\ Latest(row) \in DOMAIN row.attempts
        /\ row.attempts[Latest(row)] = NewAttempt(h.target)
      BY <1>2, StartedSuccessor
  <2>3. Latest(row) \in Nat
      BY <2>2, AttemptOfRow DEF Successor
  <2> HIDE DEF row
  <2>4. runs'[h.on] = row
      BY <1>2, <2>1, <2>2, RowsWritten
  <2>5. NoGate(runs', AfterAppend(h, h.target, Latest(row)))
      BY <1>2, <2>2, <2>3, <2>4, AppendedNoGate
  <2> QED BY <2>1, <2>5 DEF Gateless
<1>4. CASE ~CanStart(runs[h.on])
  <2>1. Become(q, AfterFailure(h)) \/ Become(q, drop) \/ Become(q, Idle)
      BY <1>4 DEF Start
  <2>2. Calm(drop)
      BY <1>2, CalmMoves DEF Steps, Marked, Committed, Starting
  <2> QED BY <1>2, <2>1, <2>2, CalmFailure, CalmStarts, CalmIsGateless DEF Calmly
<1> QED BY <1>3, <1>4

\* The skip of jobs and the look at the lease stay with the attempt in hand.
LEMMA HeldGateless ==
    ASSUME Inductive, LedgerKept, NEW q \in Procs, NoGate(runs, handlers[q]),
           SkipJobs(q) \/ ReadLease(q)
    PROVE  Gateless(q)
<1> DEFINE h       == handlers[q]
           Moved(pc) == [h EXCEPT !.pc = pc]
<1>1. h.pc \in Committed /\ h \in Handlers
    BY Parts DEF SkipJobs, ReadLease, At, Committed
<1>2. h.on \in Cycles /\ h.att \in DOMAIN runs[h.on].attempts
    BY <1>1, Parts DEF Good, HandlerOK, Committed, Launching
<1>3. ~IsGate(runs'[h.on].attempts[h.att].phase)
    BY <1>1, <1>2, PhasesKept DEF NoGate
<1>4. \/ Become(q, AfterFailure(h))
      \/ Become(q, Moved("launch")) \/ Become(q, Moved("lease"))
    BY DEF SkipJobs, ReadLease, AfterLeaseRead
<1> HIDE DEF h
<1>5. ASSUME NEW pc \in {"launch", "lease"} PROVE NoGate(runs', Moved(pc))
  <2>1. Moved(pc).pc = pc /\ Moved(pc).on = h.on /\ Moved(pc).att = h.att
      BY <1>1 DEF Handlers
  <2> HIDE DEF Moved
  <2> QED BY <1>3, <2>1, HoldsNoGate DEF Committed
<1> HIDE DEF Moved
<1> QED BY <1>1, <1>4, <1>5, CalmFailure, CalmIsGateless DEF Gateless, Calmly

\* So does the launch of a job.
LEMMA LaunchGateless ==
    ASSUME Inductive, NEW q \in Procs, NoGate(runs, handlers[q]), Launch(q)
    PROVE  Gateless(q)
<1> DEFINE h    == handlers[q]
           rest == h.todo \ {FirstJob(h.target, h.todo)}
           more == [h EXCEPT !.todo = rest]
<1>1. /\ h.pc = "launch" /\ h \in Handlers /\ UNCHANGED runs
      /\ Become(q, Idle) \/ Become(q, more)
    BY Parts DEF Launch, At
<1>2. ~IsGate(runs[h.on].attempts[h.att].phase)
    BY <1>1 DEF NoGate, Committed
<1> HIDE DEF h, rest
<1>3. more.pc = "launch" /\ more.on = h.on /\ more.att = h.att
    BY <1>1 DEF Handlers
<1> HIDE DEF more
<1>4. NoGate(runs', more)
    BY <1>1, <1>2, <1>3, HoldsNoGate DEF Committed
<1> QED BY <1>1, <1>4, CalmStarts, CalmIsGateless DEF Gateless, Calmly

\* A cycle to be started has a phase where cycles start.
LEMMA EntryGateless ==
    ASSUME NoEntryIsGate, Inductive, NEW q \in Procs, NoGate(runs, handlers[q]),
           Recycle(q) \/ CreateChild(q) \/ Acquire(q) \/ \E c \in Cycles : Admit(q, c)
    PROVE  Gateless(q)
<1> DEFINE h == handlers[q]
<1>1. h \in Handlers
    BY Parts
<1>2. CASE Recycle(q)
  <2> DEFINE p    == RetryTarget(h.base.attempts[Len(h.base.attempts)].phase)
             base == [runs[h.run] EXCEPT !.attempts = h.base.attempts]
             on   == h.run + 1
             n    == [h EXCEPT !.pc = "create", !.target = p, !.on = on, !.base = base]
  <2>1. Become(q, AfterFailure(h)) \/ (p \in PhaseIds /\ Become(q, n))
      BY <1>2 DEF Recycle
  <2>2. p \in PhaseIds => ~IsGate(p)
    <3>1. h.base.attempts \in Seq(Attempt) /\ h.base.attempts # <<>>
      <4>1. h.base \in Row /\ h.base.attempts # <<>>
          BY <1>1, <1>2, Parts, HandlerFields DEF Recycle, At, Good, HandlerOK
      <4> QED BY <4>1, RowFields
    <3>2. Len(h.base.attempts) \in DOMAIN h.base.attempts
        BY <3>1
    <3>3. h.base.attempts[Len(h.base.attempts)].phase \in PhaseIds
        BY <1>1, <3>2, HandlerFields, AttemptOfRow
    <3> QED BY <3>3 DEF NoEntryIsGate, IsEntry
  <2> HIDE DEF p, base, on, h
  <2>3. n.pc = "create" /\ n.target = p
      BY <1>1 DEF Handlers
  <2> HIDE DEF n
  <2> QED BY <1>1, <2>1, <2>2, <2>3, StartsNoGate, CalmFailure, CalmIsGateless
          DEF Gateless, Calmly, Starting
<1>3. CASE CreateChild(q)
  <2> DEFINE lease == h.base.lease
             n     == [h EXCEPT !.pc = "start", !.lease = lease]
  <2>1. h.pc = "create" /\ Become(q, n)
      BY <1>3 DEF CreateChild, At
  <2>2. ~IsGate(h.target)
      BY <2>1 DEF NoGate, Starting
  <2> HIDE DEF h, lease
  <2>3. n.pc = "start" /\ n.target = h.target
      BY <1>1 DEF Handlers
  <2> HIDE DEF n
  <2> QED BY <2>1, <2>2, <2>3, StartsNoGate DEF Gateless, Starting
<1>4. CASE Acquire(q)
  <2> DEFINE l        == h.base.lease
             Held(k)  == [h EXCEPT !.pc = "start", !.lease = k]
             Fresh(k) == [h EXCEPT !.pc = "start", !.lease = k, !.fresh = TRUE]
  <2>1. /\ h.pc = "acquire"
        /\ \/ Become(q, Held(l)) \/ \E k \in LeaseIds : Become(q, Fresh(k))
           \/ Become(q, Aborting(h.run)) \/ Become(q, Idle)
      BY <1>4 DEF Acquire, At
  <2>2. ~IsGate(h.target)
      BY <2>1 DEF NoGate, Starting
  <2> HIDE DEF h, l
  <2>3. ASSUME NEW k PROVE NoGate(runs', Held(k)) /\ NoGate(runs', Fresh(k))
    <3>1. /\ Held(k).pc = "start" /\ Held(k).target = h.target
          /\ Fresh(k).pc = "start" /\ Fresh(k).target = h.target
        BY <1>1 DEF Handlers
    <3> HIDE DEF Held, Fresh
    <3> QED BY <2>2, <3>1, StartsNoGate DEF Starting
  <2> HIDE DEF Held, Fresh
  <2> QED BY <2>1, <2>3, CalmStarts, CalmIsGateless DEF Gateless, Calmly
<1>5. CASE \E c \in Cycles : Admit(q, c)
  <2> PICK c \in Cycles : Admit(q, c)
      BY <1>5
  <2> DEFINE base == runs[c]
             p    == runs[c].entry
             n    == [Idle EXCEPT !.pc = "acquire", !.mode = "admit", !.run = c, !.on = c,
                                  !.base = base, !.target = p]
  <2>1. Become(q, n) /\ Exists(runs[c])
      BY DEF Admit, Exists
  <2>2. ~IsGate(p)
      BY <2>1, Parts DEF RowOK, NoEntryIsGate
  <2> HIDE DEF base, p
  <2>3. n.pc = "acquire" /\ n.target = p
      BY DEF Idle
  <2> HIDE DEF n
  <2> QED BY <2>1, <2>2, <2>3, StartsNoGate DEF Gateless, Starting
<1> QED BY <1>2, <1>3, <1>4, <1>5

-----------------------------------------------------------------------------
\* What a step that approves nothing leaves: pods of no gate, and nothing merged.

\* Pods that only move stay without a gate.
LEMMA OldPods ==
    ASSUME Inductive, LedgerKept, Unapproved,
           UNCHANGED pods \/ \E pod \in pods : \E st : PodBecomes(pod, st)
    PROVE  \A pod \in pods' : ~IsGate(runs'[pod.run].attempts[pod.att].phase)
<1>1. \A new \in pods' : \E old \in pods : new.run = old.run /\ new.att = old.att
    BY Parts DEF PodBecomes, Pods
<1> QED BY <1>1, OldPod

\* Kubernetes gets one more Job of the attempt in hand.
LEMMA NewPods ==
    ASSUME Inductive, Unapproved, UNCHANGED runs, NEW q \in Procs, At(q, "launch"),
           pods' = pods \union {NextPod(handlers[q])}
    PROVE  \A pod \in pods' : ~IsGate(runs'[pod.run].attempts[pod.att].phase)
<1> DEFINE h == handlers[q]
<1>1. ~IsGate(runs[h.on].attempts[h.att].phase)
    BY DEF Unapproved, NoGate, At, Committed
<1>2. NextPod(h).run = h.on /\ NextPod(h).att = h.att
    BY DEF NextPod
<1> QED BY <1>1, <1>2 DEF Unapproved, PhaseOf

\* The pods and the goroutine of a step settle the whole.
LEMMA StaysUnapproved ==
    ASSUME Inductive, LedgerKept, Unapproved, SameIssue, NEW q \in Procs, Gateless(q),
           \A pod \in pods' : ~IsGate(runs'[pod.run].attempts[pod.att].phase)
    PROVE  Unapproved'
<1>1. PICK n : Become(q, n) /\ NoGate(runs', n)
    BY DEF Gateless
<1>2. \A r \in Procs : NoGate(runs', handlers'[r])
    BY <1>1, NoGateKept, Parts DEF Become, Unapproved
<1>3. ~issue'.merged
    BY DEF SameIssue, Unapproved
<1> QED BY <1>2, <1>3 DEF Unapproved, PhaseOf

\* Every step of a goroutine that does not approve.
LEMMA ServerUnapproved ==
    ASSUME NoEntryIsGate, Inductive, LedgerKept, Unapproved, ~issue'.approved,
           NEW q \in Procs, Server(q)
    PROVE  Unapproved'
<1> DEFINE Clear == \A pod \in pods' : ~IsGate(runs'[pod.run].attempts[pod.att].phase)
<1>0. NoGate(runs, handlers[q])
    BY DEF Unapproved
<1>1. CASE \/ Stamp(q) \/ MakeDecision(q) \/ Park(q) \/ SkipPhase(q) \/ LaunchNothing(q)
           \/ DropLease(q) \/ CancelGate(q)
    BY <1>1, CalmEngine, CalmIsGateless, OldPods, StaysUnapproved DEF SameIssue
<1>2. CASE \/ SettleRead(q) \/ AbortRead(q) \/ Patch(q)
           \/ Unlock(q) \/ ReleaseLease(q) \/ CloseIssue(q)
    BY <1>2, CalmSettling, CalmIsGateless, OldPods, StaysUnapproved
<1>3. CASE Synthesize(q) \/ TimeoutJob(q)
  <2>1. UNCHANGED <<pods, issue>>
      BY <1>3 DEF Synthesize, TimeoutJob
  <2>2. Calmly(q)
      BY <1>3, CalmRecord, CalmTimeout DEF Synthesize
  <2> QED BY <2>1, <2>2, CalmIsGateless, OldPods, StaysUnapproved DEF SameIssue
<1>4. CASE \/ AppendAttempt(q) \/ Start(q) \/ SkipJobs(q) \/ ReadLease(q) \/ Recycle(q)
           \/ CreateChild(q) \/ Acquire(q) \/ \E c \in Cycles : Admit(q, c)
  <2>1. UNCHANGED <<pods, issue>>
      BY <1>4 DEF AppendAttempt, Start, SkipJobs, ReadLease, Recycle, CreateChild, Acquire, Admit
  <2>2. Gateless(q)
      BY <1>0, <1>4, AppendAttemptGateless, StartGateless, HeldGateless, EntryGateless
  <2> QED BY <2>1, <2>2, OldPods, StaysUnapproved DEF SameIssue
<1>5. CASE Launch(q)
  <2>1. /\ At(q, "launch") /\ UNCHANGED <<runs, issue>>
        /\ pods' = pods \union {NextPod(handlers[q])}
      BY <1>5 DEF Launch
  <2> QED BY <1>0, <1>5, <2>1, LaunchGateless, NewPods, StaysUnapproved DEF SameIssue
<1>6. CASE OpenGate(q)
  <2>1. CanDecideGate(runs[handlers[q].on], handlers[q].att) => issue'.approved
      BY <1>6, SmallTypes DEF OpenGate
  <2>2. Become(q, Idle) /\ UNCHANGED <<pods, issue>>
      BY <1>6, <2>1 DEF OpenGate
  <2> QED BY <2>2, CalmStarts, CalmIsGateless, OldPods, StaysUnapproved DEF Calmly, SameIssue
<1>7. CASE \E pod \in pods : Callback(q, pod)
  <2> PICK pod \in pods : Callback(q, pod)
      BY <1>7
  <2>1. UNCHANGED issue /\ \E st : PodBecomes(pod, st)
      BY DEF Callback
  <2>2. Calmly(q)
      BY CalmRecord DEF Callback
  <2> QED BY <2>1, <2>2, CalmIsGateless, OldPods, StaysUnapproved DEF SameIssue
<1>8. CASE \/ \E pod \in pods : Watch(q, pod) \/ Reconcile(q, pod)
           \/ \E c \in Cycles : \/ DispatchTimeout(q, c) \/ AdminAbort(q, c)
                                \/ Approve(q, c) \/ CancelReview(q, c)
           \/ Crash(q)
  <2>1. UNCHANGED pods \/ \E pod \in pods : \E st : PodBecomes(pod, st)
      BY <1>8 DEF Watch, Reconcile, DispatchTimeout, AdminAbort, Approve, CancelReview,
                  ReviewSignal, Crash
  <2> QED BY <1>8, <2>1, CalmWaking, CalmIsGateless, OldPods, StaysUnapproved DEF SameIssue
<1>9. CASE CallFails(q)
  <2>1. Calmly(q) /\ UNCHANGED <<runs, issue>>
      BY <1>9, Parts, CalmError DEF CallFails, Calmly
  <2>2. Clear
    <3>1. UNCHANGED pods \/ (At(q, "launch") /\ pods' = pods \union {NextPod(handlers[q])})
        BY <1>9 DEF CallFails, At
    <3> QED BY <2>1, <3>1, OldPods, NewPods
  <2> QED BY <2>1, <2>2, CalmIsGateless, StaysUnapproved DEF SameIssue
<1> QED BY <1>1, <1>2, <1>3, <1>4, <1>5, <1>6, <1>7, <1>8, <1>9 DEF Server, HandlerStep

\* The pods merge nothing, and need no goroutine for it.
LEMMA PodsUnapproved ==
    ASSUME Inductive, LedgerKept, Unapproved,
           PodStep \/ (\E pod \in pods : PodKilled(pod)) \/ UNCHANGED vars
    PROVE  Unapproved'
<1>1. UNCHANGED handlers /\ (UNCHANGED pods \/ \E pod \in pods : \E st : PodBecomes(pod, st))
    BY DEF PodStep, PodKilled, PodStart, LinkPullRequest, MergePullRequest, vars
<1>2. UNCHANGED issue
    BY DEF PodStep, PodKilled, PodStart, LinkPullRequest, MergePullRequest, vars, Unapproved, IsGate
<1>3. \A r \in Procs : NoGate(runs', handlers'[r])
    BY <1>1, NoGateKept DEF Unapproved
<1>4. \A pod \in pods' : ~IsGate(PhaseOf(pod)')
    BY <1>1, OldPods DEF PhaseOf
<1> QED BY <1>2, <1>3, <1>4 DEF Unapproved

\* Approvals are not taken back.
LEMMA ApprovalStays ==
    ASSUME Inductive, [Next]_vars, issue.approved PROVE issue'.approved
<1>1. issue \in [locked : BOOLEAN, closed : BOOLEAN, merged : BOOLEAN, approved : BOOLEAN]
    BY SmallTypes
<1>2. \/ UNCHANGED issue \/ issue' = [issue EXCEPT !.merged = TRUE]
      \/ issue' = [issue EXCEPT !.approved = TRUE] \/ issue' = [issue EXCEPT !.locked = FALSE]
      \/ issue' = [issue EXCEPT !.closed = TRUE]
  <2>1. CASE PodStep \/ (\E pod \in pods : PodKilled(pod)) \/ UNCHANGED vars
      BY <2>1 DEF PodStep, PodKilled, PodStart, LinkPullRequest, MergePullRequest, vars
  <2>2. CASE \E q \in Procs : HandlerStep(q)
      BY <2>2, ZenonT(120) DEF HandlerStep, Synthesize, TimeoutJob, Stamp, MakeDecision, Park, AppendAttempt,
                  SkipPhase, SkipJobs, ReadLease, Launch, LaunchNothing, Recycle, CreateChild, Start,
                  Acquire, DropLease, OpenGate, CancelGate, SettleRead, AbortRead, Patch, Unlock,
                  ReleaseLease, CloseIssue
  <2>3. CASE \E q \in Procs : Server(q) /\ ~HandlerStep(q)
      BY <2>3, ZenonT(120) DEF Server, Callback, Watch, Reconcile, DispatchTimeout, Admit, Approve, CancelReview,
                  ReviewSignal, AdminAbort, CallFails, Crash
  <2> QED BY <2>1, <2>2, <2>3 DEF Next
<1> QED BY <1>1, <1>2

\* The pull request is merged only after a reviewer approved it, whatever fails, crashes or
\* is aborted: dispatchForwardPhase parks the run at the gate, ReleaseReviewGate alone lets
\* its job be launched, and no recycle policy of the workflow may land there.
THEOREM NoUnapprovedMerge ==
    ASSUME NoRetryAtGate PROVE Spec => []NoMergeWithoutApproval
<1>1. Init => MergeInv
  <2> SUFFICES ASSUME Init PROVE Unapproved
      BY DEF MergeInv
  <2>1. \A q \in Procs : NoGate(runs, handlers[q])
      BY CalmStarts, UnmarkedNoGate DEF Init, Calm
  <2> QED BY <2>1 DEF Init, Unapproved
<1>2. Inductive /\ MergeInv /\ [Next]_vars => MergeInv'
  <2> SUFFICES ASSUME Inductive, MergeInv, [Next]_vars, ~issue'.approved PROVE Unapproved'
      BY DEF MergeInv
  <2>1. LedgerKept
      BY NextKeeps DEF Preserved
  <2>2. Unapproved
      BY ApprovalStays DEF MergeInv
  <2> QED BY <2>1, <2>2, EntryIsNoGate, ServerUnapproved, PodsUnapproved DEF Next
<1>3. MergeInv => NoMergeWithoutApproval
    BY DEF MergeInv, Unapproved, NoMergeWithoutApproval
<1> QED BY <1>1, <1>2, <1>3, InductiveInvariant, PTL DEF Spec
=============================================================================
