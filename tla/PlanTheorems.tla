---------------------------- MODULE PlanTheorems ----------------------------
(***************************************************************************)
(* What holds of the plans that people write.  Of a playbook: for any      *)
(* entries and dependencies, any number of advances that overlap, edits,   *)
(* failed calls and crashes.  Of a workflow: for every submission.         *)
(***************************************************************************)
EXTENDS Playbook, PhaseFlow, FiniteSetTheorems, NaturalsInduction, WellFoundedInduction, TLAPS

EntryStates == {"pending", "running", "succeeded", "failed"}
DocStates == {"draft", "ready", "running", "paused", "succeeded", "failed"}
RunStates == {"queued", "in_progress", "review_required", "passed", "aborted", "recycled"}
Entry == [state : EntryStates, gate : BOOLEAN, run : Nat]
Runs == [entry : Entries, state : RunStates]
Docs == [state : DocStates, entries : [Entries -> Entry]]
Steps == {"idle", "refresh", "issue", "dispatch", "write"}
Tasks == [pc : Steps, doc : Docs, entry : Entries \union {0}]

TypeOK ==
    /\ doc \in Docs
    /\ runs \in Seq(Runs)
    /\ tasks \in [Advancers -> Tasks]
    /\ issues \in [Entries -> Nat]

\* A document speaks of runs of its entries, and what it calls succeeded has passed.
PassedIn(rs, e) == \E r \in 1..Len(rs) : rs[r].entry = e /\ rs[r].state = "passed"
Truthful(d, rs) ==
    \A e \in Entries :
        /\ d.entries[e].run # 0 =>
               /\ d.entries[e].run \in 1..Len(rs)
               /\ rs[d.entries[e].run].entry = e
        /\ d.entries[e].state = "succeeded" => PassedIn(rs, e)

\* An advance at work on an entry has found its dependencies met.
Allowed(t, rs) ==
    /\ Truthful(t.doc, rs)
    /\ t.pc \in {"issue", "dispatch"} => t.entry \in Entries
    /\ t.pc = "issue" => Ready(t.doc, t.entry)

OrderInv == TypeOK /\ Truthful(doc, runs) /\ \A p \in Advancers : Allowed(tasks[p], runs)

-----------------------------------------------------------------------------
\* A set of natural numbers has a least member.
LEMMA LeastNumber ==
    ASSUME NEW S \in SUBSET Nat, S # {}
    PROVE  Min(S) \in S
<1>1. PICK m \in S : \A n \in S : ~ (<<n, m>> \in OpToRel(<, Nat))
    BY NatLessThanWellFounded, WFMin
<1>2. \A n \in S : ~ (n < m)
    BY <1>1 DEF OpToRel
<1>3. \A n \in S : m =< n
    BY <1>2
<1> QED BY <1>3 DEF Min

\* Refreshing a document keeps it truthful (refreshPlaybookEntries).
LEMMA RefreshTruthful ==
    ASSUME TypeOK, NEW d \in Docs, Truthful(d, runs)
    PROVE  Refresh(d) \in Docs /\ Truthful(Refresh(d), runs)
<1> DEFINE state(e) == IF d.entries[e].run = 0 THEN "none" ELSE runs[d.entries[e].run].state
           new(e) == Refresh(d).entries[e]
<1>1. d.entries \in [Entries -> Entry]
    BY DEF Docs
<1>2. \A e \in Entries :
          new(e) = CASE state(e) = "passed" -> [d.entries[e] EXCEPT !.state = "succeeded"]
                     [] state(e) \in {"review_required", "aborted"} ->
                            [d.entries[e] EXCEPT !.state = "failed"]
                     [] state(e) = "in_progress" /\ d.entries[e].state = "pending" ->
                            [d.entries[e] EXCEPT !.state = "running"]
                     [] OTHER -> d.entries[e]
    BY <1>1 DEF Refresh, Docs
<1>3. ASSUME NEW e \in Entries
      PROVE  /\ new(e) \in Entry /\ new(e).run = d.entries[e].run
             /\ new(e).state = "succeeded" => state(e) = "passed" \/ d.entries[e].state = "succeeded"
  <2> DEFINE old == d.entries[e]
  <2>1. old \in Entry
      BY <1>1
  <2>2. \/ new(e) = [old EXCEPT !.state = "succeeded"] /\ state(e) = "passed"
        \/ new(e) = [old EXCEPT !.state = "failed"]
        \/ new(e) = [old EXCEPT !.state = "running"]
        \/ new(e) = old
    <3> HIDE DEF new, state
    <3> QED BY <1>2
  <2> HIDE DEF old, new, state
  <2>3. new(e) \in Entry /\ new(e).run = old.run
      BY <2>1, <2>2 DEF Entry, EntryStates
  <2>4. new(e).state = "succeeded" => state(e) = "passed" \/ old.state = "succeeded"
      BY <2>1, <2>2 DEF Entry
  <2> QED BY <2>3, <2>4 DEF old
<1>4. Refresh(d) \in Docs
    BY <1>1, <1>3 DEF Refresh, Docs
<1>5. ASSUME NEW e \in Entries, state(e) = "passed" PROVE PassedIn(runs, e)
    BY <1>5 DEF Truthful, PassedIn
<1>6. Truthful(Refresh(d), runs)
    BY <1>3, <1>5 DEF Truthful
<1> QED BY <1>4, <1>6

\* The loop of an advance stops at an entry that is ready, or to write.
LEMMA OnwardAllowed ==
    ASSUME NEW d \in Docs, NEW rs, Truthful(d, rs), NEW e \in Entries \union {0}
    PROVE  Onward(d, e) \in Tasks /\ Allowed(Onward(d, e), rs)
<1> DEFINE ahead == {f \in Entries : f > e /\ Ready(d, f)}
<1>1. CASE HasRoom(d) /\ ahead # {}
  <2>1. Min(ahead) \in ahead
      BY <1>1, LeastNumber, PlaybookAssumption
  <2>2. Onward(d, e) = [pc |-> "issue", doc |-> d, entry |-> Min(ahead)]
      BY <1>1 DEF Onward
  <2> QED BY <2>1, <2>2 DEF Tasks, Steps, Allowed
<1>2. CASE ~(HasRoom(d) /\ ahead # {})
  <2>1. Onward(d, e) = [pc |-> "write", doc |-> [d EXCEPT !.state = Conclusion(d)], entry |-> 0]
      BY <1>2 DEF Onward
  <2>2. Conclusion(d) \in DocStates
      BY DEF Conclusion, DocStates
  <2> QED BY <2>1, <2>2 DEF Tasks, Steps, Allowed, Truthful, Docs
<1> QED BY <1>1, <1>2

\* After the refresh an advance is at an entry that is ready, or about to write.
LEMMA BeginAllowed ==
    ASSUME NEW d \in Docs, NEW rs, Truthful(d, rs)
    PROVE  Begin(d) \in Tasks /\ Allowed(Begin(d), rs)
<1>1. CASE AllSucceeded(d) \/ Failed(d)
  <2>1. Begin(d) = [pc |-> "write", doc |-> [d EXCEPT !.state = Conclusion(d)], entry |-> 0]
      BY <1>1 DEF Begin
  <2>2. Conclusion(d) \in DocStates
      BY DEF Conclusion, DocStates
  <2> QED BY <2>1, <2>2 DEF Tasks, Steps, Allowed, Truthful, Docs
<1>2. CASE ~(AllSucceeded(d) \/ Failed(d))
    BY <1>2, OnwardAllowed DEF Begin
<1> QED BY <1>1, <1>2

-----------------------------------------------------------------------------
\* What happens to the runs: none vanishes, changes its entry or stops having passed.
Grown(rs, new) ==
    /\ new \in Seq(Runs)
    /\ Len(rs) <= Len(new)
    /\ \A r \in 1..Len(rs) : /\ new[r].entry = rs[r].entry
                             /\ rs[r].state = "passed" => new[r].state = "passed"

\* What a document says of runs stays true as they grow.
LEMMA TruthKept ==
    ASSUME NEW rs \in Seq(Runs), NEW new, Grown(rs, new),
           NEW d, Truthful(d, rs)
    PROVE  Truthful(d, new)
<1>1. Len(rs) \in Nat /\ Len(new) \in Nat /\ 1..Len(rs) \subseteq 1..Len(new)
    BY DEF Grown
<1>2. \A e \in Entries : PassedIn(rs, e) => PassedIn(new, e)
    BY <1>1 DEF PassedIn, Grown
<1> QED BY <1>1, <1>2 DEF Truthful, Grown

\* So does what an advance relies on.
LEMMA AllowedKept ==
    ASSUME NEW rs \in Seq(Runs), NEW new, Grown(rs, new),
           NEW t, Allowed(t, rs)
    PROVE  Allowed(t, new)
BY TruthKept DEF Allowed

\* One advance moves, and the runs may grow.
LEMMA AdvanceMoves ==
    ASSUME OrderInv, NEW p \in Advancers, NEW t, tasks' = [tasks EXCEPT ![p] = t],
           t \in Tasks, Allowed(t, runs'), Grown(runs, runs'), UNCHANGED doc,
           issues' \in [Entries -> Nat]
    PROVE  OrderInv'
<1>1. runs \in Seq(Runs) /\ tasks \in [Advancers -> Tasks]
    BY DEF OrderInv, TypeOK
<1>2. TypeOK'
    BY <1>1 DEF OrderInv, TypeOK, Grown
<1>3. Truthful(doc', runs')
    BY <1>1, TruthKept DEF OrderInv
<1>4. \A q \in Advancers : Allowed(tasks'[q], runs')
    BY <1>1, AllowedKept DEF OrderInv
<1> QED BY <1>2, <1>3, <1>4 DEF OrderInv

\* Runs that nobody touched have grown, too.
LEMMA SameRuns ==
    ASSUME TypeOK PROVE Grown(runs, runs)
BY DEF TypeOK, Grown

\* A new run, of any state.
LEMMA OneMoreRun ==
    ASSUME TypeOK, NEW e \in Entries, NEW state \in RunStates,
           runs' = Append(runs, [entry |-> e, state |-> state])
    PROVE  /\ Grown(runs, runs') /\ Len(runs) + 1 \in Nat
           /\ Len(runs) + 1 \in 1..Len(runs') /\ runs'[Len(runs) + 1].entry = e
<1>1. [entry |-> e, state |-> state] \in Runs
    BY DEF Runs
<1> QED BY <1>1 DEF TypeOK, Grown

\* A run goes to another state, other than from "passed".
LEMMA OneRunChanges ==
    ASSUME TypeOK, NEW r \in 1..Len(runs), runs[r].state # "passed", NEW state \in RunStates
    PROVE  Grown(runs, [runs EXCEPT ![r].state = state])
<1> DEFINE row == [runs[r] EXCEPT !.state = state]
<1>1. runs \in Seq(Runs) /\ Len(runs) \in Nat /\ runs[r] \in Runs
    BY DEF TypeOK
<1>2. row \in Runs /\ row.entry = runs[r].entry
    BY <1>1 DEF Runs
<1> HIDE DEF row
<1>3. [runs EXCEPT ![r] = row] \in Seq(Runs)
    BY <1>1, <1>2
<1>4. Grown(runs, [runs EXCEPT ![r] = row])
    BY <1>1, <1>2, <1>3 DEF Grown
<1> QED BY <1>4 DEF row

-----------------------------------------------------------------------------
\* One lemma for each action.

\* An advance that is idle.
LEMMA IdleAllowed == Idle \in Tasks /\ \A rs : Allowed(Idle, rs)
<1>1. NewDoc \in Docs
  <2>1. \A e \in Entries : [state |-> "pending", gate |-> e \in Gated, run |-> 0] \in Entry
      BY DEF Entry, EntryStates
  <2> QED BY <2>1 DEF NewDoc, Docs, DocStates
<1>2. \A rs : Truthful(NewDoc, rs)
    BY DEF NewDoc, Truthful
<1> QED BY <1>1, <1>2 DEF Idle, Tasks, Steps, Allowed

\* An advance reads the document.
LEMMA ReadsStep ==
    ASSUME OrderInv, NEW p \in Advancers, Reads(p), UNCHANGED <<doc, runs, issues>>
    PROVE  OrderInv'
<1> DEFINE t == [Idle EXCEPT !.pc = "refresh", !.doc = doc]
<1>1. t \in Tasks /\ t.pc = "refresh" /\ t.doc = doc
    BY IdleAllowed DEF Tasks, Steps, OrderInv, TypeOK
<1>2. Allowed(t, runs)
    BY <1>1 DEF Allowed, OrderInv
<1>3. tasks' = [tasks EXCEPT ![p] = t]
    BY DEF Reads
<1> HIDE DEF t
<1> QED BY <1>1, <1>2, <1>3, AdvanceMoves, SameRuns DEF OrderInv, TypeOK

\* An advance refreshes its copy and looks for an entry to start.
LEMMA RefreshEntriesStep ==
    ASSUME OrderInv, NEW p \in Advancers, RefreshEntries(p) PROVE OrderInv'
<1> DEFINE d == tasks[p].doc
           t == Begin(Refresh(d))
<1>1. d \in Docs /\ Truthful(d, runs)
    BY DEF OrderInv, TypeOK, Tasks, Allowed
<1>2. t \in Tasks /\ Allowed(t, runs)
    BY <1>1, RefreshTruthful, BeginAllowed DEF OrderInv
<1>3. tasks' = [tasks EXCEPT ![p] = t]
    BY DEF RefreshEntries
<1> HIDE DEF t
<1> QED BY <1>2, <1>3, AdvanceMoves, SameRuns DEF RefreshEntries, OrderInv, TypeOK

\* An entry that a dispatch has left failed or running.
LEMMA EntryMarked ==
    ASSUME NEW d \in Docs, NEW rs, Truthful(d, rs), NEW e \in Entries,
           NEW state \in {"running", "failed"}, NEW run \in Nat,
           run # 0 => run \in 1..Len(rs) /\ rs[run].entry = e
    PROVE  LET new == [d EXCEPT !.entries[e].state = state, !.entries[e].run = run]
           IN  new \in Docs /\ Truthful(new, rs)
<1> DEFINE new == [d EXCEPT !.entries[e].state = state, !.entries[e].run = run]
<1>1. d.entries \in [Entries -> Entry]
    BY DEF Docs
<1>2. new.state = d.state /\ new.entries = [d.entries EXCEPT ![e] =
          [d.entries[e] EXCEPT !.state = state, !.run = run]]
    BY <1>1 DEF Docs, Entry
<1>3. [d.entries[e] EXCEPT !.state = state, !.run = run] \in Entry
    BY <1>1 DEF Entry, EntryStates
<1>4. new.entries \in [Entries -> Entry]
    BY <1>1, <1>2, <1>3
<1>5. new \in Docs
    BY <1>2, <1>4 DEF Docs
<1>6. \A f \in Entries : f # e => new.entries[f] = d.entries[f]
    BY <1>1, <1>2
<1>7. new.entries[e].state = state /\ new.entries[e].run = run
    BY <1>1, <1>2 DEF Entry
<1>8. Truthful(new, rs)
    BY <1>6, <1>7 DEF Truthful
<1> QED BY <1>5, <1>8

\* An entry whose issue or dispatch failed is marked, and the advance goes on.
LEMMA EntryFailsStep ==
    ASSUME OrderInv, NEW p \in Advancers, NEW run \in Nat, EntryFails(p, run),
           tasks[p].pc \in {"issue", "dispatch"},
           Grown(runs, runs'), UNCHANGED doc, issues' \in [Entries -> Nat],
           run # 0 => run \in 1..Len(runs') /\ runs'[run].entry = tasks[p].entry
    PROVE  OrderInv'
<1> DEFINE d == tasks[p].doc
           e == tasks[p].entry
           new == [d EXCEPT !.entries[e].state = "failed", !.entries[e].run = run]
           t == Onward(new, e)
<1>1. d \in Docs /\ Truthful(d, runs') /\ e \in Entries
    BY TruthKept DEF OrderInv, TypeOK, Tasks, Allowed
<1>2. new \in Docs /\ Truthful(new, runs')
    BY <1>1, EntryMarked
<1> HIDE DEF new
<1>3. t \in Tasks /\ Allowed(t, runs')
    BY <1>1, <1>2, OnwardAllowed
<1>4. tasks' = [tasks EXCEPT ![p] = t]
    BY DEF EntryFails, new
<1> HIDE DEF t
<1> QED BY <1>3, <1>4, AdvanceMoves

\* The issue of an entry is created, or not.
LEMMA CreateIssueStep ==
    ASSUME OrderInv, NEW p \in Advancers, CreateIssue(p) PROVE OrderInv'
<1> DEFINE t == [tasks[p] EXCEPT !.pc = "dispatch"]
<1>1. tasks[p] \in Tasks /\ Allowed(tasks[p], runs) /\ tasks[p].pc = "issue"
      /\ tasks[p].entry \in Entries /\ issues \in [Entries -> Nat]
    BY DEF OrderInv, TypeOK, CreateIssue, At, Allowed
<1>2. Grown(runs, runs') /\ UNCHANGED doc
    BY SameRuns DEF OrderInv, CreateIssue
<1>3. CASE issues' = [issues EXCEPT ![tasks[p].entry] = @ + 1]
           /\ tasks' = [tasks EXCEPT ![p].pc = "dispatch"]
  <2>1. t \in Tasks /\ Allowed(t, runs')
      BY <1>1 DEF Tasks, Steps, Allowed, CreateIssue
  <2>2. tasks' = [tasks EXCEPT ![p] = t]
      BY <1>3
  <2>3. issues' \in [Entries -> Nat]
      BY <1>1, <1>3
  <2> HIDE DEF t
  <2> QED BY <1>2, <2>1, <2>2, <2>3, AdvanceMoves
<1>4. CASE EntryFails(p, 0) /\ UNCHANGED issues
    BY <1>1, <1>2, <1>4, EntryFailsStep
<1> QED BY <1>3, <1>4 DEF CreateIssue

\* The run of an entry is dispatched, or not.
LEMMA DispatchStep ==
    ASSUME OrderInv, NEW p \in Advancers, Dispatch(p) PROVE OrderInv'
<1> DEFINE d == tasks[p].doc
           e == tasks[p].entry
           n == Len(runs) + 1
<1>1. /\ d \in Docs /\ Truthful(d, runs) /\ e \in Entries /\ tasks[p].pc = "dispatch"
      /\ issues' \in [Entries -> Nat] /\ UNCHANGED doc /\ TypeOK
    BY DEF OrderInv, TypeOK, Dispatch, At, Allowed, Tasks
<1>2. ASSUME NEW state \in RunStates, runs' = Append(runs, [entry |-> e, state |-> state])
      PROVE  Grown(runs, runs') /\ n \in Nat /\ n \in 1..Len(runs') /\ runs'[n].entry = e
    BY <1>1, <1>2, OneMoreRun
<1>3. CASE /\ runs' = Append(runs, [entry |-> e, state |-> "in_progress"])
           /\ tasks' = [tasks EXCEPT ![p] =
                  Onward([d EXCEPT !.entries[e].state = "running", !.entries[e].run = n], e)]
  <2> DEFINE new == [d EXCEPT !.entries[e].state = "running", !.entries[e].run = n]
             t == Onward(new, e)
  <2>1. Grown(runs, runs') /\ n \in Nat /\ n \in 1..Len(runs') /\ runs'[n].entry = e
      BY <1>2, <1>3 DEF RunStates
  <2>2. Truthful(d, runs')
      BY <1>1, <2>1, TruthKept DEF TypeOK
  <2>3. new \in Docs /\ Truthful(new, runs')
      BY <1>1, <2>1, <2>2, EntryMarked
  <2> HIDE DEF new
  <2>4. t \in Tasks /\ Allowed(t, runs')
      BY <1>1, <2>3, OnwardAllowed
  <2>5. tasks' = [tasks EXCEPT ![p] = t]
      BY <1>3 DEF new
  <2> HIDE DEF t
  <2> QED BY <1>1, <2>1, <2>4, <2>5, AdvanceMoves
<1>4. ASSUME NEW state \in RunStates, runs' = Append(runs, [entry |-> e, state |-> state]),
             EntryFails(p, n)
      PROVE  OrderInv'
    BY <1>1, <1>2, <1>4, EntryFailsStep
<1>5. CASE EntryFails(p, 0) /\ UNCHANGED runs
    BY <1>1, <1>5, SameRuns, EntryFailsStep
<1> QED BY <1>3, <1>4, <1>5 DEF Dispatch, RunStates

\* An advance writes its copy over the document.
LEMMA ReplaceStep ==
    ASSUME OrderInv, NEW p \in Advancers, Replace(p) PROVE OrderInv'
<1>1. \A q \in Advancers : tasks'[q] \in Tasks /\ Allowed(tasks'[q], runs')
    BY IdleAllowed DEF OrderInv, TypeOK, Replace
<1>2. doc' \in Docs /\ Truthful(doc', runs')
    BY DEF OrderInv, TypeOK, Replace, Allowed, Tasks
<1>3. TypeOK'
    BY <1>1, <1>2, IdleAllowed DEF OrderInv, TypeOK, Replace
<1> QED BY <1>1, <1>2, <1>3 DEF OrderInv

\* An operator opens or closes the gate of an entry.
LEMMA PatchGateStep ==
    ASSUME OrderInv, NEW e \in Entries, NEW gate \in BOOLEAN, PatchGate(e, gate)
    PROVE  OrderInv'
<1>1. doc.entries \in [Entries -> Entry]
    BY DEF OrderInv, TypeOK, Docs
<1>2. doc'.state = doc.state
      /\ doc'.entries = [doc.entries EXCEPT ![e] = [doc.entries[e] EXCEPT !.gate = gate]]
    BY DEF PatchGate, OrderInv, TypeOK, Docs
<1>3. \A f \in Entries : /\ doc'.entries[f] \in Entry
                         /\ doc'.entries[f].run = doc.entries[f].run
                         /\ doc'.entries[f].state = doc.entries[f].state
    BY <1>1, <1>2 DEF Entry
<1>4. doc' \in Docs
    BY <1>1, <1>2, <1>3 DEF PatchGate, OrderInv, TypeOK, Docs
<1>5. Truthful(doc', runs)
    BY <1>3 DEF OrderInv, Truthful
<1> QED BY <1>4, <1>5 DEF PatchGate, OrderInv, TypeOK

\* The server restarts, and the advances are forgotten.
LEMMA CrashStep ==
    ASSUME OrderInv, Crash PROVE OrderInv'
BY IdleAllowed DEF Crash, OrderInv, TypeOK

\* A run is admitted, parks, is approved, recycled or ends.
LEMMA LifeStep ==
    ASSUME OrderInv, NEW r, LifeOf(r) PROVE OrderInv'
<1>1. UNCHANGED <<doc, tasks, issues>>
    BY DEF LifeOf, Admit, Park, Approve, End, Recycle
<1>2. runs \in Seq(Runs) /\ TypeOK
    BY DEF OrderInv, TypeOK
<1>3. ASSUME NEW from \in RunStates \ {"passed"}, NEW to \in RunStates, Becomes(r, from, to)
      PROVE  Grown(runs, runs')
    BY <1>2, <1>3, OneRunChanges DEF Becomes
<1>4. ASSUME Recycle(r) PROVE Grown(runs, runs')
  <2> DEFINE changed == [runs EXCEPT ![r].state = "recycled"]
  <2>1. Grown(runs, changed)
      BY <1>2, <1>4, OneRunChanges DEF Recycle, RunStates
  <2>2. runs[r] \in Runs
      BY <1>2, <1>4 DEF Recycle
  <2>3. runs' = Append(changed, runs[r])
      BY <1>4 DEF Recycle
  <2> HIDE DEF changed
  <2> QED BY <2>1, <2>2, <2>3, <1>2 DEF Grown
<1>5. Grown(runs, runs')
    BY <1>3, <1>4 DEF LifeOf, Admit, Park, Approve, End, RunStates
<1>6. TypeOK'
    BY <1>1, <1>5 DEF OrderInv, TypeOK, Grown
<1>7. Truthful(doc', runs') /\ \A q \in Advancers : Allowed(tasks'[q], runs')
    BY <1>1, <1>2, <1>5, TruthKept, AllowedKept DEF OrderInv
<1> QED BY <1>6, <1>7 DEF OrderInv

-----------------------------------------------------------------------------
\* A new playbook satisfies the invariant.
LEMMA OrderStart == Init => OrderInv
<1> SUFFICES ASSUME Init PROVE OrderInv
    OBVIOUS
<1>1. \A p \in Advancers : tasks[p] \in Tasks /\ Allowed(tasks[p], runs)
    BY IdleAllowed DEF Init
<1>2. doc \in Docs /\ Truthful(doc, runs)
    BY IdleAllowed DEF Init, Idle, Tasks, Allowed
<1> QED BY <1>1, <1>2 DEF Init, OrderInv, TypeOK

\* Every step keeps it.
LEMMA OrderStepKeeps == OrderInv /\ [Next]_vars => OrderInv'
<1> SUFFICES ASSUME OrderInv, [Next]_vars PROVE OrderInv'
    OBVIOUS
<1>1. ASSUME NEW p \in Advancers, Post(p) PROVE OrderInv'
    BY <1>1, ReadsStep DEF Post
<1>2. ASSUME NEW p \in Advancers, Step(p) PROVE OrderInv'
    BY <1>2, RefreshEntriesStep, CreateIssueStep, DispatchStep, ReplaceStep DEF Step
<1>3. ASSUME NEW p \in Advancers, NEW r \in ended, ForRun(p, r) PROVE OrderInv'
  <2>1. CASE Reads(p)
      BY <1>3, <2>1, ReadsStep DEF ForRun
  <2>2. CASE UNCHANGED tasks
      BY <1>3, <2>2 DEF ForRun, OrderInv, TypeOK
  <2> QED BY <1>3, <2>1, <2>2 DEF ForRun
<1>4. CASE UNCHANGED vars
    BY <1>4 DEF vars, OrderInv, TypeOK
<1> QED BY <1>1, <1>2, <1>3, <1>4, PatchGateStep, LifeStep, CrashStep DEF Next

\* An issue is made only by an advance whose copy calls each dependency
\* succeeded, which is true of it.
LEMMA OnlyInOrder ==
    ASSUME OrderInv, [Next]_vars, NEW e \in Entries, issues'[e] > issues[e]
    PROVE  \A f \in DependsOn[e] : Passed(f)
<1>1. issues \in [Entries -> Nat]
    BY DEF OrderInv, TypeOK
<1>2. ~ UNCHANGED issues
    BY <1>1
<1>3. PICK p \in Advancers : CreateIssue(p)
    BY <1>2 DEF Next, vars, Post, ForRun, Step, RefreshEntries, Dispatch, Replace, PatchGate,
                Crash, LifeOf, Admit, Park, Approve, End, Recycle
<1>4. tasks[p].entry = e /\ tasks[p].pc = "issue"
    BY <1>1, <1>2, <1>3 DEF CreateIssue, At
<1>5. Truthful(tasks[p].doc, runs) /\ DependsOn[e] \subseteq InState(tasks[p].doc, "succeeded")
    BY <1>4 DEF OrderInv, Allowed, Ready, DependenciesMet
<1> QED BY <1>5 DEF InState, Truthful, PassedIn, Passed

\* No entry is worked on before each entry it depends on has passed
\* (advancePlaybookDoc), for any dependencies, any number of overlapping
\* advances and gate edits, and whatever write or process is lost.
THEOREM OrderAlwaysKept == Spec => OrderKept
<1>1. Init => OrderInv
    BY OrderStart
<1>2. OrderInv /\ [Next]_vars => OrderInv'
    BY OrderStepKeeps
<1>3. OrderInv /\ [Next]_vars =>
          [\A e \in Entries : issues'[e] > issues[e] => \A f \in DependsOn[e] : Passed(f)]_vars
    BY OnlyInOrder
<1> QED BY <1>1, <1>2, <1>3, PTL DEF Spec, OrderKept

-----------------------------------------------------------------------------
(* One issue for each entry.                                                 *)

\* No advances have overlapped and none was cut short.
Undisturbed == past \cap {"overlap", "lost"} = {}

\* An entry a document calls pending, other than those of `started', has no issue.
Unworked(d, started, count) ==
    \A e \in Entries \ started : d.entries[e].state = "pending" => count[e] = 0
StartedBy(t) == IF t.pc = "dispatch" THEN {t.entry} ELSE {}

WorkInOrder ==
    /\ \A e \in Entries : issues[e] <= 1
    /\ \A p, q \in Advancers : ~At(p, "idle") /\ ~At(q, "idle") => p = q
    /\ (\A p \in Advancers : At(p, "idle")) => Unworked(doc, {}, issues)
    /\ \A p \in Advancers : ~At(p, "idle") => Unworked(tasks[p].doc, StartedBy(tasks[p]), issues)

OnceInv == Undisturbed => WorkInOrder

\* The loop changes no entry on its own.
LEMMA OnwardSame ==
    ASSUME NEW d \in Docs, NEW e
    PROVE  /\ Onward(d, e).pc \in {"issue", "write"}
           /\ Onward(d, e).doc.entries = d.entries
BY DEF Onward, Docs

\* The look for an entry to start changes none.
LEMMA BeginSame ==
    ASSUME NEW d \in Docs
    PROVE  Begin(d).pc \in {"issue", "write"} /\ Begin(d).doc.entries = d.entries
BY OnwardSame DEF Begin, Docs

\* A refresh makes no entry pending again.
LEMMA RefreshPending ==
    ASSUME NEW d \in Docs, NEW e \in Entries, Refresh(d).entries[e].state = "pending"
    PROVE  d.entries[e].state = "pending"
<1>1. d.entries \in [Entries -> Entry]
    BY DEF Docs
<1> DEFINE state == IF d.entries[e].run = 0 THEN "none" ELSE runs[d.entries[e].run].state
<1>2. Refresh(d).entries[e] =
          CASE state = "passed" -> [d.entries[e] EXCEPT !.state = "succeeded"]
            [] state \in {"review_required", "aborted"} -> [d.entries[e] EXCEPT !.state = "failed"]
            [] state = "in_progress" /\ d.entries[e].state = "pending" ->
                   [d.entries[e] EXCEPT !.state = "running"]
            [] OTHER -> d.entries[e]
    BY <1>1 DEF Refresh, Docs
<1> QED BY <1>1, <1>2 DEF Entry

\* The only advance under way moves.
LEMMA OnlyAdvanceMoves ==
    ASSUME OrderInv, OnceInv, NEW p \in Advancers, NEW t, ~At(p, "idle"), t.pc # "idle",
           tasks' = [tasks EXCEPT ![p] = t], Undisturbed' => Undisturbed,
           Undisturbed' => /\ \A e \in Entries : issues'[e] <= 1
                           /\ Unworked(t.doc, StartedBy(t), issues')
    PROVE  OnceInv'
<1> SUFFICES ASSUME Undisturbed' PROVE /\ \A q \in Advancers : ~At(q, "idle")' => q = p
                                      /\ tasks'[p] = t
    BY DEF OnceInv, WorkInOrder, At
<1>1. tasks \in [Advancers -> Tasks]
    BY DEF OrderInv, TypeOK
<1> QED BY <1>1 DEF OnceInv, WorkInOrder, At

\* The entry an advance was at is no longer pending in its copy.
LEMMA EntrySettled ==
    ASSUME OrderInv, OnceInv, NEW p \in Advancers, tasks[p].pc \in {"issue", "dispatch"},
           NEW state \in {"running", "failed"}, NEW run \in Nat,
           UNCHANGED issues, Undisturbed' => Undisturbed,
           tasks' = [tasks EXCEPT ![p] =
               Onward([tasks[p].doc EXCEPT !.entries[tasks[p].entry].state = state,
                                           !.entries[tasks[p].entry].run = run], tasks[p].entry)]
    PROVE  OnceInv'
<1> DEFINE d == tasks[p].doc
           e == tasks[p].entry
           new == [d EXCEPT !.entries[e].state = state, !.entries[e].run = run]
           t == Onward(new, e)
<1>1. d \in Docs /\ e \in Entries
    BY DEF OrderInv, TypeOK, Tasks, Allowed
<1>2. d.entries \in [Entries -> Entry]
    BY <1>1 DEF Docs
<1>3. new.state = d.state /\ new.entries = [d.entries EXCEPT ![e] =
          [d.entries[e] EXCEPT !.state = state, !.run = run]]
    BY <1>1, <1>2 DEF Docs, Entry
<1>4. /\ \A f \in Entries : f # e => new.entries[f] = d.entries[f]
      /\ new.entries[e].state = state
  <2> HIDE DEF d, e, new
  <2>1. \A f \in Entries : f # e => new.entries[f] = d.entries[f]
      BY ONLY <1>2, <1>3
  <2>2. new.entries[e] = [d.entries[e] EXCEPT !.state = state, !.run = run]
      BY ONLY <1>1, <1>2, <1>3
  <2>3. d.entries[e] \in Entry
      BY ONLY <1>1, <1>2
  <2>4. new.entries[e].state = state
      BY ONLY <2>2, <2>3 DEF Entry
  <2> QED BY ONLY <2>1, <2>4
<1>5. new \in Docs
  <2>1. [d.entries[e] EXCEPT !.state = state, !.run = run] \in Entry
      BY <1>1, <1>2, ZenonT(120) DEF Entry, EntryStates
  <2> HIDE DEF new
  <2>2. new.entries \in [Entries -> Entry]
      BY <1>2, <1>3, <2>1
  <2> USE DEF new
  <2> QED BY <1>1, <1>3, <2>2 DEF Docs
<1> HIDE DEF new
<1>6. t.pc \in {"issue", "write"} /\ t.doc.entries = new.entries
    BY <1>5, OnwardSame
<1>7. tasks' = [tasks EXCEPT ![p] = t] /\ ~At(p, "idle")
    BY DEF new, At
<1>8. Undisturbed' => Unworked(t.doc, StartedBy(t), issues') /\ \A f \in Entries : issues'[f] <= 1
    BY <1>1, <1>4, <1>6, <1>7 DEF OnceInv, WorkInOrder, Unworked, StartedBy
<1> HIDE DEF t
<1> QED BY <1>6, <1>7, <1>8, OnlyAdvanceMoves

\* An advance that starts while no other is under way works on the document.
LEMMA StartOnce ==
    ASSUME OrderInv, OnceInv, NEW p \in Advancers, At(p, "idle"), Overlaps, UNCHANGED <<doc, issues>>,
           Reads(p) \/ UNCHANGED tasks
    PROVE  OnceInv'
<1> SUFFICES ASSUME Undisturbed' PROVE WorkInOrder'
    BY DEF OnceInv
<1>1. tasks \in [Advancers -> Tasks] /\ Undisturbed
    BY DEF OrderInv, TypeOK, Overlaps, Undisturbed
<1>2. \A q \in Advancers : At(q, "idle")
    BY DEF Overlaps, Undisturbed
<1>3. Unworked(doc, {}, issues) /\ \A e \in Entries : issues[e] <= 1
    BY <1>1, <1>2 DEF OnceInv, WorkInOrder
<1>4. CASE UNCHANGED tasks
    BY <1>2, <1>3, <1>4 DEF At, WorkInOrder
<1>5. CASE Reads(p)
  <2> DEFINE t == [Idle EXCEPT !.pc = "refresh", !.doc = doc]
  <2>1. t.pc = "refresh" /\ t.doc = doc
      BY IdleAllowed DEF Tasks
  <2>2. tasks' = [tasks EXCEPT ![p] = t]
      BY <1>5 DEF Reads
  <2> HIDE DEF t
  <2>3. tasks'[p] = t /\ \A q \in Advancers : q # p => tasks'[q] = tasks[q]
      BY <1>1, <2>2
  <2> QED BY <1>2, <1>3, <2>1, <2>3 DEF At, WorkInOrder, Unworked, StartedBy
<1> QED BY <1>4, <1>5

\* A refresh gives no entry back its right to an issue.
LEMMA RefreshOnce ==
    ASSUME OrderInv, OnceInv, NEW p \in Advancers, RefreshEntries(p) PROVE OnceInv'
<1> DEFINE d == tasks[p].doc
           t == Begin(Refresh(d))
<1>1. d \in Docs /\ Truthful(d, runs) /\ tasks[p].pc = "refresh"
    BY DEF OrderInv, TypeOK, Tasks, Allowed, RefreshEntries, At
<1>2. t.pc \in {"issue", "write"} /\ t.doc.entries = Refresh(d).entries
    BY <1>1, RefreshTruthful, BeginSame DEF OrderInv
<1>3. tasks' = [tasks EXCEPT ![p] = t]
    BY DEF RefreshEntries
<1>4. Undisturbed' => /\ Undisturbed /\ Unworked(t.doc, StartedBy(t), issues')
                      /\ \A e \in Entries : issues'[e] <= 1
    BY <1>1, <1>2, RefreshPending
    DEF OnceInv, WorkInOrder, Unworked, StartedBy, RefreshEntries, At, Undisturbed
<1> HIDE DEF t
<1> QED BY <1>1, <1>2, <1>3, <1>4, OnlyAdvanceMoves DEF At

\* An issue is created for an entry that had none.
LEMMA CreateIssueOnce ==
    ASSUME OrderInv, OnceInv, NEW p \in Advancers, CreateIssue(p) PROVE OnceInv'
<1> DEFINE e == tasks[p].entry
           t == [tasks[p] EXCEPT !.pc = "dispatch"]
<1>1. /\ tasks[p] \in Tasks /\ tasks[p].pc = "issue" /\ e \in Entries
      /\ issues \in [Entries -> Nat] /\ tasks[p].doc.entries[e].state = "pending"
    BY DEF OrderInv, TypeOK, CreateIssue, At, Allowed, Ready
<1>2. Undisturbed' = Undisturbed
    BY DEF CreateIssue, Undisturbed
<1>3. CASE issues' = [issues EXCEPT ![e] = @ + 1] /\ tasks' = [tasks EXCEPT ![p].pc = "dispatch"]
  <2>1. tasks' = [tasks EXCEPT ![p] = t] /\ t.pc = "dispatch" /\ t.doc = tasks[p].doc /\ t.entry = e
      BY <1>1, <1>3 DEF Tasks
  <2>2. Undisturbed => issues[e] = 0
      BY <1>1 DEF OnceInv, WorkInOrder, At, Unworked, StartedBy
  <2>3. Undisturbed' => Unworked(t.doc, StartedBy(t), issues') /\ \A f \in Entries : issues'[f] <= 1
      BY <1>1, <1>2, <1>3, <2>1, <2>2 DEF OnceInv, WorkInOrder, At, Unworked, StartedBy
  <2> HIDE DEF t
  <2> QED BY <1>1, <1>2, <2>1, <2>3, OnlyAdvanceMoves DEF At
<1>4. CASE EntryFails(p, 0) /\ UNCHANGED issues
    BY <1>1, <1>2, <1>4, EntrySettled DEF EntryFails
<1> QED BY <1>3, <1>4 DEF CreateIssue

\* A dispatch marks its entry as worked on.
LEMMA DispatchOnce ==
    ASSUME OrderInv, OnceInv, NEW p \in Advancers, Dispatch(p) PROVE OnceInv'
<1>1. /\ tasks[p].pc = "dispatch" /\ UNCHANGED issues /\ Len(runs) + 1 \in Nat
      /\ Undisturbed' => Undisturbed
    BY DEF OrderInv, TypeOK, Dispatch, At, Undisturbed
<1>2. PICK state \in {"running", "failed"}, run \in Nat :
          tasks' = [tasks EXCEPT ![p] =
              Onward([tasks[p].doc EXCEPT !.entries[tasks[p].entry].state = state,
                                          !.entries[tasks[p].entry].run = run], tasks[p].entry)]
    BY <1>1 DEF Dispatch, EntryFails
<1> QED BY <1>1, <1>2, EntrySettled

\* The document an advance writes knows of every issue it created.
LEMMA ReplaceOnce ==
    ASSUME OrderInv, OnceInv, NEW p \in Advancers, Replace(p) PROVE OnceInv'
<1> SUFFICES ASSUME Undisturbed' PROVE WorkInOrder'
    BY DEF OnceInv
<1>1. /\ Undisturbed /\ doc' = tasks[p].doc /\ tasks[p].pc = "write" /\ UNCHANGED issues
      /\ tasks \in [Advancers -> Tasks]
    BY DEF Replace, Undisturbed, At, OrderInv, TypeOK
<1>2. Unworked(doc', {}, issues') /\ \A e \in Entries : issues'[e] <= 1
    BY <1>1 DEF OnceInv, WorkInOrder, At, Unworked, StartedBy
<1>3. \A q \in Advancers : At(q, "idle")'
    BY <1>1 DEF OnceInv, WorkInOrder, At, Replace, Idle
<1> QED BY <1>2, <1>3 DEF At, WorkInOrder

\* The gate of an entry says nothing of its issues.
LEMMA PatchGateOnce ==
    ASSUME OrderInv, OnceInv, NEW e \in Entries, NEW gate \in BOOLEAN, PatchGate(e, gate)
    PROVE  OnceInv'
<1>1. doc.entries \in [Entries -> Entry]
    BY DEF OrderInv, TypeOK, Docs
<1>2. \A f \in Entries : doc'.entries[f].state = doc.entries[f].state
    BY <1>1 DEF PatchGate, OrderInv, TypeOK, Docs, Entry
<1> QED BY <1>2 DEF OnceInv, WorkInOrder, PatchGate, Undisturbed, Unworked, At

-----------------------------------------------------------------------------
\* No entry of a new playbook has an issue.
LEMMA OnceStart == Init => OnceInv
BY DEF Init, OnceInv, WorkInOrder, Idle, At, Unworked

\* Every step keeps the count of issues.
LEMMA OnceStepKeeps == OrderInv /\ OnceInv /\ [Next]_vars => OnceInv'
<1> SUFFICES ASSUME OrderInv, OnceInv, [Next]_vars PROVE OnceInv'
    OBVIOUS
<1>1. ASSUME NEW p \in Advancers, Post(p) PROVE OnceInv'
    BY <1>1, StartOnce DEF Post
<1>2. ASSUME NEW p \in Advancers, Step(p) PROVE OnceInv'
    BY <1>2, RefreshOnce, CreateIssueOnce, DispatchOnce, ReplaceOnce DEF Step
<1>3. ASSUME NEW p \in Advancers, NEW r \in ended, ForRun(p, r) PROVE OnceInv'
    BY <1>3, StartOnce DEF ForRun
<1>4. ASSUME NEW r, LifeOf(r) PROVE OnceInv'
    BY <1>4 DEF LifeOf, Admit, Park, Approve, End, Recycle, OnceInv, WorkInOrder, Undisturbed, Unworked, At
<1>5. CASE Crash
    BY <1>5 DEF Crash, OnceInv, Undisturbed
<1>6. CASE UNCHANGED vars
    BY <1>6 DEF vars, OnceInv, WorkInOrder, Undisturbed, Unworked, At
<1> QED BY <1>1, <1>2, <1>3, <1>4, <1>5, <1>6, PatchGateOnce DEF Next

\* An entry gets one issue and one run, unless two advances overlapped or one
\* did not get to its write (advancePlaybookDoc, replacePlaybookDoc), for any
\* entries, gate edits and lives of the runs.
THEOREM AlwaysWorkedOnce == Spec => []WorkedOnce
<1>1. Init => OrderInv /\ OnceInv
    BY OrderStart, OnceStart
<1>2. OrderInv /\ OnceInv /\ [Next]_vars => OrderInv' /\ OnceInv'
    BY OrderStepKeeps, OnceStepKeeps
<1>3. OnceInv => WorkedOnce
    BY DEF OnceInv, WorkInOrder, WorkedOnce, Undisturbed
<1> QED BY <1>1, <1>2, <1>3, PTL DEF Spec

-----------------------------------------------------------------------------
\* Workflows.

\* The fields of a phase that registration keeps as they are, and its jobs.
LEMMA NormalPhaseFields ==
    ASSUME NEW phase \in PhaseForm
    PROVE  /\ NormalPhase(phase).verify = phase.verify
           /\ NormalPhase(phase).policy = phase.policy
           /\ NormalPhase(phase).jobs = [i \in DOMAIN phase.jobs |-> CanonicalJob(phase.jobs[i])]
<1> DEFINE kept == [phase EXCEPT !.kind = IF @ = Unset THEN "k8s_job" ELSE @,
                    !.workflowRef = IF @ # {} THEN @
                                    ELSE IF HasCheckout(phase) THEN {GitRef} ELSE {Main}]
           canon == CanonicalPhase(kept)
<1>1. /\ DOMAIN kept = DOMAIN phase
      /\ kept.jobs = phase.jobs /\ kept.verify = phase.verify /\ kept.policy = phase.policy
    BY DEF PhaseForm
<1>2. {"jobs", "verify", "policy"} \subseteq DOMAIN phase
    BY DEF PhaseForm
<1> HIDE DEF kept
<1>3. /\ DOMAIN canon = DOMAIN phase
      /\ canon.verify = phase.verify /\ canon.policy = phase.policy
      /\ canon.jobs = [i \in DOMAIN phase.jobs |-> CanonicalJob(phase.jobs[i])]
    BY <1>1, <1>2 DEF CanonicalPhase
<1> HIDE DEF canon
<1>4. NormalPhase(phase) = [canon EXCEPT !.purpose = PurposeOf(canon), !.runOn = RunOnOf(canon)]
    BY DEF NormalPhase, kept, canon
<1> QED BY <1>2, <1>3, <1>4

IsSequence(s) == Len(s) \in Nat /\ DOMAIN s = 1..Len(s)

\* The part of the shape of a normalised registration that the engine depends on.
Formed(n) ==
    /\ IsSequence(n.phases)
    /\ \A p \in DOMAIN n.phases :
          /\ n.phases[p].verify \in BOOLEAN
          /\ n.phases[p].policy \subseteq PolicyForm
          /\ IsSequence(n.phases[p].jobs)

\* Normalisation keeps that shape.
LEMMA NormalisedIsFormed ==
    ASSUME NEW wf, IsSubmission(wf)
    PROVE  Formed(Normalised(wf))
<1> DEFINE n == Normalised(wf)
<1>1. wf.phases \in Seq(PhaseForm) /\ "phases" \in DOMAIN wf
    BY DEF IsSubmission
<1>2. n.phases = [i \in DOMAIN wf.phases |-> NormalPhase(wf.phases[i])]
    BY <1>1 DEF Normalised
<1>3. IsSequence(n.phases) /\ DOMAIN n.phases = DOMAIN wf.phases
    BY <1>1, <1>2 DEF IsSequence
<1> SUFFICES ASSUME NEW p \in DOMAIN wf.phases
             PROVE  /\ n.phases[p].verify \in BOOLEAN
                    /\ n.phases[p].policy \subseteq PolicyForm
                    /\ IsSequence(n.phases[p].jobs)
    BY <1>3 DEF Formed
<1> DEFINE phase == wf.phases[p]
<1>4. phase \in PhaseForm
    BY <1>1
<1>5. n.phases[p] = NormalPhase(phase)
    BY <1>2
<1>6. phase.verify \in BOOLEAN /\ phase.policy \subseteq PolicyForm /\ phase.jobs \in Seq(JobForm)
    BY <1>4 DEF PhaseForm
<1> HIDE DEF n, phase
<1>7. IsSequence([i \in DOMAIN phase.jobs |-> CanonicalJob(phase.jobs[i])])
    BY <1>6 DEF IsSequence
<1> QED BY <1>4, <1>5, <1>6, <1>7, NormalPhaseFields

\* The operator of the instance is the operator itself.
LEMMA GraphCardinality ==
    ASSUME NEW graph, NEW ids, NEW S
    PROVE  Graph(graph, ids, 1)!Cardinality(S) = Cardinality(S)
BY DEF Graph!Cardinality, Cardinality

\* A registration has at most one value in each of its cases; those of a condition that is
\* not there hold.
LEMMA NoConditionHolds == ASSUME NEW ctx PROVE Holds({}, ctx)
BY DEF Holds

\* Names that are unique name one place each.
LEMMA UniqueNames ==
    ASSUME NEW s, IsSequence(s), Unique(s), NEW i \in DOMAIN s, NEW k \in DOMAIN s, s[i] = s[k]
    PROVE  i = k
<1> DEFINE D == DOMAIN s
           T == {s[x] : x \in D}
<1>1. D = 1..Len(s) /\ Len(s) \in Nat
    BY DEF IsSequence
<1> HIDE DEF T
<1>2. IsFiniteSet(D) /\ Cardinality(D) = Len(s)
  <2> DEFINE n == Len(s)
  <2>1. n \in Int /\ 1 \in Int /\ (1 > n <=> n = 0) /\ n - 1 + 1 = n
      BY <1>1
  <2> HIDE DEF n, D
  <2>2. IsFiniteSet(1..n) /\ Cardinality(1..n) = IF 1 > n THEN 0 ELSE n - 1 + 1
      BY <2>1, FS_Interval
  <2> QED BY <1>1, <2>1, <2>2 DEF n
<1> USE DEF T
<1>3. Cardinality(T) = Len(s)
    BY DEF Unique, ToSet
<1> DEFINE f == [x \in D |-> s[x]]
<1>4. f \in Surjection(D, T)
    BY DEF Surjection
<1>5. f \in Injection(D, T)
    <2> HIDE DEF D, T, f
    <2> QED BY <1>2, <1>3, <1>4, FS_SurjSameCardinalityImpliesInj
<1> QED BY <1>5 DEF Injection, IsInjective

\* A policy that lands somewhere lands at a place, and a phase without one has none.
LEMMA LandingIsAPlace ==
    ASSUME NEW n, Formed(n), NEW name
    PROVE  Landing(n, name) \in Nat
BY DEF Landing, Formed, IsSequence

\* Each phase of an accepted registration has what the engine asks of a phase.
LEMMA PhaseIsValid ==
    ASSUME NEW n, Formed(n), Registrable(n), NEW ctx, NEW p \in DOMAIN n.phases
    PROVE  LET ph == Resolved(n, ctx)[p]
               ids == {ph.jobs[i] : i \in DOMAIN ph.jobs}
           IN  /\ ph.purpose \in {"work", "verification", "teardown", "review", "review_gate"}
               /\ ph.runOn \in {"success", "failure", "always"}
               /\ ph.purpose = "teardown" <=> ph.runOn # "success"
               /\ ph.verify \in BOOLEAN
               /\ ph.verify <=> ph.purpose = "verification"
               /\ ph.purpose \in {"verification", "review_gate"} => ph.when /\ ph.skips = {}
               /\ ph.jobs # <<>> => ids \ ph.skips # {}
               /\ Len(ph.jobs) = Cardinality(ids)
               /\ ph.purpose = "review_gate" =>
                      /\ ph.policy = [max |-> 0, on |-> {}, landsAt |-> 0]
                      /\ Len(ph.jobs) = 1
<1> DEFINE phase == n.phases[p]
           ph == Resolved(n, ctx)[p]
           ids == {ph.jobs[i] : i \in DOMAIN ph.jobs}
           names == [i \in DOMAIN phase.jobs |-> phase.jobs[i].id]
<1>1. /\ PurposeValid(n, phase) /\ GateValid(phase) /\ ConditionsValid(n, phase)
      /\ JobsValid(phase)
    BY DEF Registrable, ToSet
<1>2. /\ phase.verify \in BOOLEAN /\ IsSequence(phase.jobs)
    BY DEF Formed
<1>3. /\ ph.purpose = phase.purpose /\ ph.runOn = phase.runOn /\ ph.verify = phase.verify
      /\ ph.policy = IF phase.policy = {} THEN [max |-> 0, on |-> {}, landsAt |-> 0]
                     ELSE LET policy == CHOOSE r \in phase.policy : TRUE
                          IN  [policy EXCEPT !.landsAt = Landing(n, @)]
      /\ ph.jobs = names
      /\ ph.when = Holds(phase.when, ctx)
      /\ ph.skips = {job.id : job \in {j \in JobsOf(phase) : ~Holds(j.when, ctx)}}
    BY DEF Resolved
<1>4. IsSequence(names) /\ Len(names) = Len(phase.jobs) /\ DOMAIN names = DOMAIN phase.jobs
    BY <1>2 DEF IsSequence
<1> HIDE DEF phase, ph, names
<1>5. Unique(names) /\ Cardinality(ids) = Len(names)
    BY <1>1, <1>3 DEF JobsValid, Unique, ToSet, names
<1>6. /\ phase.purpose \in {"verification", "review_gate"} =>
             phase.when = {} /\ Conditional(phase) = {}
      /\ phase.jobs # <<>> => Conditional(phase) # DOMAIN phase.jobs
    BY <1>1 DEF ConditionsValid
<1>7. ph.purpose \in {"verification", "review_gate"} => ph.when /\ ph.skips = {}
  <2> SUFFICES ASSUME phase.purpose \in {"verification", "review_gate"}
               PROVE  ph.when /\ ph.skips = {}
      BY <1>3
  <2>1. ph.when
      BY <1>3, <1>6, NoConditionHolds
  <2>2. ASSUME NEW j \in JobsOf(phase) PROVE j.when = {}
    <3>1. PICK i \in DOMAIN phase.jobs : j = phase.jobs[i]
        BY DEF JobsOf, ToSet
    <3>2. Conditional(phase) = {}
        BY <1>6
    <3>3. phase.jobs[i].when = {}
        BY <3>2 DEF Conditional
    <3> QED BY <3>1, <3>3
  <2>3. {j \in JobsOf(phase) : ~Holds(j.when, ctx)} = {}
      BY <2>2, NoConditionHolds
  <2>4. ph.skips = {}
      BY <1>3, <2>3
  <2> QED BY <2>1, <2>4
<1>8. ph.jobs # <<>> => ids \ ph.skips # {}
  <2> SUFFICES ASSUME ph.jobs # <<>>
               PROVE  ids \ ph.skips # {}
      OBVIOUS
  <2>1. phase.jobs # <<>>
      BY <1>3, <1>4, <1>2 DEF names, IsSequence
  <2>2. PICK i \in DOMAIN phase.jobs : phase.jobs[i].when = {}
      BY <1>6, <2>1 DEF Conditional
  <2>3. names[i] \in ids
      BY <1>3, <1>4
  <2>4. ASSUME names[i] \in ph.skips
        PROVE  FALSE
    <3>1. PICK k \in DOMAIN phase.jobs : names[i] = phase.jobs[k].id /\ ~Holds(phase.jobs[k].when, ctx)
        BY <1>3, <2>4 DEF JobsOf, ToSet
    <3>2. i = k
        BY <1>4, <1>5, <3>1, UniqueNames DEF names
    <3> QED BY <2>2, <3>1, <3>2, NoConditionHolds
  <2> QED BY <2>3, <2>4
<1>9. ph.purpose = "review_gate" =>
          /\ ph.policy = [max |-> 0, on |-> {}, landsAt |-> 0]
          /\ Len(ph.jobs) = 1
    BY <1>1, <1>3, <1>4 DEF GateValid
<1>10. /\ phase.purpose \in {"work", "verification", "teardown", "review", "review_gate"}
       /\ phase.runOn \in {"success", "failure", "always"}
       /\ phase.purpose = "teardown" <=> phase.runOn # "success"
       /\ phase.verify <=> phase.purpose = "verification"
    BY <1>1 DEF PurposeValid
<1> QED BY <1>2, <1>3, <1>5, <1>7, <1>8, <1>9, <1>10 DEF ids, ph

\* There is one phase of each of the purposes that the engine looks up, the review phase
\* because it has the one job that opens the pull request.
LEMMA OneOfEach ==
    ASSUME NEW n, Formed(n), Registrable(n), NEW u \in {"verification", "review", "review_gate"}
    PROVE  Cardinality({p \in DOMAIN n.phases : n.phases[p].purpose = u}) = 1
<1>1. CASE u # "review"
    BY <1>1 DEF Registrable, OnePhase
<1>2. CASE u = "review"
  <2> DEFINE Jobs(p) == {k \in DOMAIN n.phases[p].jobs : n.phases[p].jobs[k].primitive = "pr_review"}
             places == UNION {{<<p, i>> : i \in Jobs(p)} : p \in DOMAIN n.phases}
             Rs == {p \in DOMAIN n.phases : n.phases[p].purpose = "review"}
  <2>1. Cardinality(places) = 1
      BY DEF Registrable, OneReviewJob
  <2>2. \A p \in DOMAIN n.phases : PurposeValid(n, n.phases[p]) /\ JobsValid(n.phases[p])
      BY DEF Registrable, ToSet
  <2>3. ASSUME NEW p \in DOMAIN n.phases
        PROVE  n.phases[p].purpose = "review" <=> Jobs(p) # {}
    <3> DEFINE phase == n.phases[p]
    <3>1. phase.purpose = "review" => \E i \in DOMAIN phase.jobs : phase.jobs[i].primitive = "pr_review"
        BY <2>2 DEF PurposeValid, HasPrimitive, JobsOf, ToSet
    <3>2. ASSUME NEW i \in DOMAIN phase.jobs, phase.jobs[i].primitive = "pr_review"
          PROVE  phase.purpose = "review"
      <4>1. PrimitiveFits(phase, phase.jobs[i])
          BY <2>2 DEF JobsValid, JobsOf, ToSet
      <4> QED BY <3>2, <4>1 DEF PrimitiveFits, Unset
    <3> QED BY <3>1, <3>2
  <2>4. ASSUME NEW p \in DOMAIN n.phases
        PROVE  IsFiniteSet(Jobs(p))
    <3>1. Jobs(p) \subseteq 1..Len(n.phases[p].jobs) /\ Len(n.phases[p].jobs) \in Nat
        BY DEF Formed, IsSequence
    <3> HIDE DEF Jobs
    <3>2. IsFiniteSet(1..Len(n.phases[p].jobs))
        BY <3>1, FS_Interval
    <3> QED BY <3>1, <3>2, FS_Subset
  <2> HIDE DEF Jobs
  <2> DEFINE Of(p) == {<<p, i>> : i \in Jobs(p)}
  <2>5. ASSUME NEW p \in DOMAIN n.phases
        PROVE  IsFiniteSet(Of(p))
    <3> DEFINE f == [i \in Jobs(p) |-> <<p, i>>]
    <3>1. f \in Surjection(Jobs(p), Of(p))
        BY DEF Surjection
    <3> HIDE DEF f, Of
    <3> QED BY <2>4, <3>1, FS_Surjection
  <2>6. IsFiniteSet({Of(p) : p \in DOMAIN n.phases})
    <3> DEFINE S == {Of(p) : p \in DOMAIN n.phases}
               f == [p \in DOMAIN n.phases |-> Of(p)]
    <3> HIDE DEF Of
    <3>1. f \in Surjection(DOMAIN n.phases, S)
        BY DEF Surjection
    <3>2. IsFiniteSet(DOMAIN n.phases)
        BY FS_Interval DEF Formed, IsSequence
    <3> HIDE DEF f, S
    <3> QED BY <3>1, <3>2, FS_Surjection DEF S
  <2>7. IsFiniteSet(places)
    <3> HIDE DEF Of
    <3>1. places = UNION {Of(p) : p \in DOMAIN n.phases}
        BY DEF Of
    <3> HIDE DEF places
    <3> QED BY <2>5, <2>6, <3>1, FS_UNION
  <2>8. PICK x : places = {x}
    <3> HIDE DEF places
    <3> QED BY <2>1, <2>7, FS_Singleton
  <2>9. \A p \in DOMAIN n.phases : \A i \in Jobs(p) : <<p, i>> = x
    <3> SUFFICES ASSUME NEW p \in DOMAIN n.phases, NEW i \in Jobs(p)
                 PROVE  <<p, i>> \in places
        BY <2>8
    <3> QED OBVIOUS
  <2>10. \E p \in DOMAIN n.phases : \E i \in Jobs(p) : TRUE
      BY <2>8
  <2> HIDE DEF places
  <2>11. \A p, q \in Rs : p = q
      BY <2>3, <2>9
  <2>12. PICK p : Rs = {p}
      BY <2>3, <2>10, <2>11
  <2> QED BY <1>2, <2>12, FS_Singleton
<1> QED BY <1>1, <1>2

\* A workflow that registration accepts is one the completion engine is built for, however
\* its conditions turn out.
LEMMA RegistrationIsSound ==
    ASSUME NEW n, Formed(n), Registrable(n), NEW ctx
    PROVE  Graph(Resolved(n, ctx), AllJobs(n), 1)!ValidWorkflow
<1> DEFINE R == Resolved(n, ctx)
           J == AllJobs(n)
           D == DOMAIN n.phases
<1>1. DOMAIN R = D /\ D = 1..Len(n.phases) /\ Len(n.phases) \in Nat \ {0}
    BY DEF Resolved, Formed, IsSequence, Registrable
<1>6. \A p \in D : LET ids == {R[p].jobs[i] : i \in DOMAIN R[p].jobs}
           IN  /\ R[p].purpose \in {"work", "verification", "teardown", "review", "review_gate"}
               /\ R[p].runOn \in {"success", "failure", "always"}
               /\ R[p].purpose = "teardown" <=> R[p].runOn # "success"
               /\ R[p].verify \in BOOLEAN
               /\ R[p].verify <=> R[p].purpose = "verification"
               /\ R[p].purpose \in {"verification", "review_gate"} => R[p].when /\ R[p].skips = {}
               /\ R[p].jobs # <<>> => ids \ R[p].skips # {}
               /\ Len(R[p].jobs) = Cardinality(ids)
               /\ R[p].purpose = "review_gate" =>
                      /\ R[p].policy = [max |-> 0, on |-> {}, landsAt |-> 0]
                      /\ Len(R[p].jobs) = 1
  <2> HIDE DEF R
  <2> QED BY PhaseIsValid, ZenonT(40) DEF R
<1>2. R \in Seq(Graph(R, J, 1)!PhaseSpec) /\ Len(R) > 0
  <2> SUFFICES ASSUME NEW p \in D PROVE R[p] \in Graph(R, J, 1)!PhaseSpec
    <3>1. R = [p \in 1..Len(n.phases) |-> R[p]]
        BY <1>1 DEF Resolved
    <3> HIDE DEF R
    <3> QED BY <1>1, <3>1
  <2>2. /\ R[p].purpose \in Graph(R, J, 1)!Purposes
        /\ R[p].runOn \in {"success", "failure", "always"}
        /\ R[p].verify \in BOOLEAN
    <3> HIDE DEF R
    <3>1. /\ R[p].purpose \in {"work", "verification", "teardown", "review", "review_gate"}
          /\ R[p].runOn \in {"success", "failure", "always"}
          /\ R[p].verify \in BOOLEAN
        BY <1>6
    <3> QED BY <3>1 DEF Graph!Purposes
  <2> DEFINE phase == n.phases[p]
             landed(policy) == [policy EXCEPT !.landsAt = Landing(n, @)]
  <2>1. R[p] = [purpose |-> R[p].purpose, runOn |-> R[p].runOn, verify |-> R[p].verify,
                policy |-> R[p].policy, jobs |-> R[p].jobs, when |-> R[p].when, skips |-> R[p].skips]
      BY DEF Resolved
  <2>3. R[p].when \in BOOLEAN
      BY DEF Resolved, Holds
  <2>4. R[p].jobs \in Seq(J)
    <3>1. R[p].jobs = [i \in DOMAIN phase.jobs |-> phase.jobs[i].id]
        BY DEF Resolved
    <3>2. \A i \in DOMAIN phase.jobs : phase.jobs[i].id \in J
        BY DEF AllJobs, JobsOf, ToSet
    <3> HIDE DEF R, J
    <3> QED BY <3>1, <3>2 DEF Formed, IsSequence
  <2>5. R[p].skips \in SUBSET J
    <3>1. R[p].skips = {job.id : job \in {j \in JobsOf(phase) : ~Holds(j.when, ctx)}}
        BY DEF Resolved
    <3>2. \A job \in JobsOf(phase) : job.id \in J
        BY DEF AllJobs
    <3> HIDE DEF R, J
    <3> QED BY <3>1, <3>2
  <2>6. R[p].policy \in Graph(R, J, 1)!RecyclePolicies
    <3>1. R[p].policy = IF phase.policy = {} THEN [max |-> 0, on |-> {}, landsAt |-> 0]
                        ELSE LET policy == CHOOSE r \in phase.policy : TRUE IN landed(policy)
        BY DEF Resolved
    <3>2. ASSUME NEW policy \in PolicyForm
          PROVE  landed(policy) \in [max : Nat, on : SUBSET {"verify_fail", "verify_malformed"}, landsAt : Nat]
        BY LandingIsAPlace DEF PolicyForm
    <3>3. phase.policy # {} => (CHOOSE r \in phase.policy : TRUE) \in PolicyForm
        BY DEF Formed
    <3> HIDE DEF R, landed
    <3>4. CASE phase.policy = {}
        BY <3>1, <3>4 DEF Graph!RecyclePolicies
    <3>5. CASE phase.policy # {}
      <4>1. R[p].policy = landed(CHOOSE r \in phase.policy : TRUE)
          BY <3>1, <3>5
      <4> QED BY <3>2, <3>3, <3>5, <4>1 DEF Graph!RecyclePolicies
    <3> QED BY <3>4, <3>5
  <2> HIDE DEF R, J
  <2> QED BY <2>1, <2>2, <2>3, <2>4, <2>5, <2>6 DEF Graph!PhaseSpec
<1>3. R[1].when /\ R[1].purpose \notin {"review", "review_gate"}
  <2>1. 1 \in D /\ n.phases[1].name = "prepare" /\ n.phases[1].depends = <<>>
      BY <1>1 DEF Registrable, Chained
  <2>2. PurposeValid(n, n.phases[1]) /\ GateValid(n.phases[1]) /\ ConditionsValid(n, n.phases[1])
      BY <2>1 DEF Registrable, ToSet
  <2>3. R[1].when = Holds(n.phases[1].when, ctx) /\ R[1].purpose = n.phases[1].purpose
      BY <2>1 DEF Resolved
  <2>4. n.phases[1].when = {}
      BY <2>1, <2>2 DEF ConditionsValid
  <2> QED BY <2>1, <2>2, <2>3, <2>4, NoConditionHolds DEF PurposeValid, GateValid
<1>4. \E p \in D : R[p].purpose = "teardown" /\ R[p].runOn \in {"failure", "always"}
  <2>1. PICK p \in D : n.phases[p].purpose = "teardown"
      BY DEF Registrable, ToSet
  <2>2. R[p].purpose = "teardown"
      BY <2>1 DEF Resolved
  <2> HIDE DEF R
  <2> QED BY <2>1, <2>2, PhaseIsValid DEF R
<1>5. \A u \in {"verification", "review", "review_gate"} :
          Cardinality({p \in D : R[p].purpose = u}) = 1
  <2>1. \A p \in D : R[p].purpose = n.phases[p].purpose
      BY DEF Resolved
  <2> HIDE DEF R
  <2> SUFFICES ASSUME NEW u \in {"verification", "review", "review_gate"}
               PROVE  Cardinality({p \in D : R[p].purpose = u}) = 1
      OBVIOUS
  <2>2. {p \in D : R[p].purpose = u} = {p \in D : n.phases[p].purpose = u}
      BY <2>1
  <2> QED BY <2>2, OneOfEach
<1> HIDE DEF R, J
<1> HIDE DEF D
<1>7. Graph(R, J, 1)!PhaseIds = D
    BY <1>1 DEF Graph!PhaseIds
<1>8. Graph(R, J, 1)!AbortPhases # {}
    BY <1>4, <1>7 DEF Graph!AbortPhases, Graph!RunsOnAbortPath, Graph!IsTeardown, Graph!Purpose
<1>9. \A u \in {"verification", "review", "review_gate"} :
           Graph(R, J, 1)!Cardinality({p \in Graph(R, J, 1)!PhaseIds : Graph(R, J, 1)!Purpose(p) = u}) = 1
    BY <1>5, <1>7, GraphCardinality, ZenonT(40) DEF Graph!Purpose
<1>10. ASSUME NEW p \in D
       PROVE  /\ Graph(R, J, 1)!Purpose(p) # "evidence_gate"
              /\ Graph(R, J, 1)!IsTeardown(p) <=> R[p].runOn # "success"
              /\ R[p].verify <=> Graph(R, J, 1)!Purpose(p) = "verification"
              /\ Graph(R, J, 1)!Purpose(p) \in {"verification", "review_gate"} =>
                     R[p].when /\ R[p].skips = {}
              /\ R[p].jobs # <<>> => Graph(R, J, 1)!ExpectedJobs(p) \ R[p].skips # {}
              /\ Len(R[p].jobs) = Graph(R, J, 1)!Cardinality(Graph(R, J, 1)!ExpectedJobs(p))
              /\ Graph(R, J, 1)!Purpose(p) = "review_gate" =>
                     ~Graph(R, J, 1)!HasPolicy(p) /\ Len(R[p].jobs) = 1
  <2>1. /\ Graph(R, J, 1)!Purpose(p) = R[p].purpose
        /\ Graph(R, J, 1)!ExpectedJobs(p) = {R[p].jobs[i] : i \in DOMAIN R[p].jobs}
        /\ Graph(R, J, 1)!IsTeardown(p) <=> R[p].purpose = "teardown"
        /\ Graph(R, J, 1)!HasPolicy(p) <=> R[p].policy # [max |-> 0, on |-> {}, landsAt |-> 0]
      BY DEF Graph!Purpose, Graph!IsTeardown, Graph!ExpectedJobs, Graph!HasPolicy, Graph!NoPolicy
  <2>2. Len(R[p].jobs) = Graph(R, J, 1)!Cardinality(Graph(R, J, 1)!ExpectedJobs(p))
    <3>1. Len(R[p].jobs) = Cardinality({R[p].jobs[i] : i \in DOMAIN R[p].jobs})
        BY <1>6
    <3> QED BY <2>1, <3>1, GraphCardinality
  <2>3. /\ R[p].purpose \in {"work", "verification", "teardown", "review", "review_gate"}
        /\ R[p].purpose = "teardown" <=> R[p].runOn # "success"
        /\ R[p].verify <=> R[p].purpose = "verification"
        /\ R[p].purpose \in {"verification", "review_gate"} => R[p].when /\ R[p].skips = {}
        /\ R[p].jobs # <<>> => {R[p].jobs[i] : i \in DOMAIN R[p].jobs} \ R[p].skips # {}
        /\ R[p].purpose = "review_gate" =>
                /\ R[p].policy = [max |-> 0, on |-> {}, landsAt |-> 0]
                /\ Len(R[p].jobs) = 1
      BY <1>6
  <2> DEFINE purpose == Graph(R, J, 1)!Purpose(p)
             expected == Graph(R, J, 1)!ExpectedJobs(p)
  <2>4. purpose = R[p].purpose /\ expected = {R[p].jobs[i] : i \in DOMAIN R[p].jobs}
      BY <2>1
  <2> HIDE DEF purpose, expected
  <2>5. R[p].jobs # <<>> => expected \ R[p].skips # {}
      BY <2>3, <2>4
  <2>6. purpose \in {"verification", "review_gate"} => R[p].when /\ R[p].skips = {}
      BY <2>3, <2>4
  <2>7. purpose = "review_gate" => ~Graph(R, J, 1)!HasPolicy(p) /\ Len(R[p].jobs) = 1
      BY <2>1, <2>3, <2>4
  <2>8. R[p].verify <=> purpose = "verification"
      BY <2>3, <2>4
  <2>9. purpose # "evidence_gate" /\ (Graph(R, J, 1)!IsTeardown(p) <=> R[p].runOn # "success")
      BY <2>1, <2>3, <2>4
  <2> QED BY <2>2, <2>5, <2>6, <2>7, <2>8, <2>9 DEF purpose, expected
<1> QED BY <1>2, <1>3, <1>7, <1>8, <1>9, <1>10 DEF Graph!ValidWorkflow, Graph!Purpose, R, J

\* What is registered was submitted and accepted.
RegisteredInv ==
    registered # <<>> =>
        \E wf \in Submitted : Registrable(Normalised(wf)) /\ registered = <<Normalised(wf)>>

\* Only a submission registers anything.
LEMMA RegisteredStep ==
    ASSUME RegisteredInv, [FlowNext]_flowVars PROVE RegisteredInv'
<1>1. CASE Submit
    BY <1>1 DEF Submit, RegisteredInv
<1>2. CASE UNCHANGED registered
    BY <1>2 DEF RegisteredInv
<1> QED BY <1>1, <1>2 DEF FlowNext, flowVars, DispatchRun, SyntheticDispatch, Complete, Advance, Retry,
          ApproveReview, Forget

\* What registration accepts is a workflow the theorems about runs start from: whatever
\* is submitted, whoever dispatches it and however its conditions turn out.
THEOREM AcceptedAlwaysValid == FlowSpec => []AcceptedIsValid
<1>1. FlowInit => RegisteredInv
    BY DEF FlowInit, RegisteredInv
<1>2. RegisteredInv /\ [FlowNext]_flowVars => RegisteredInv'
    BY RegisteredStep
<1>3. RegisteredInv => AcceptedIsValid
  <2> SUFFICES ASSUME RegisteredInv, registered # <<>>, NEW given \in CallerInputs, NEW preserve \in BOOLEAN
               PROVE  LET run == [NoRun EXCEPT !.inputs = RunInputs(Wf, given), !.preserve = preserve]
                      IN  Graph(PhasesOf(Wf, run), AllJobs(Wf), 1)!ValidWorkflow
      BY DEF AcceptedIsValid
  <2>1. PICK wf \in Submitted : Registrable(Normalised(wf)) /\ registered = <<Normalised(wf)>>
      BY DEF RegisteredInv
  <2>2. Formed(Normalised(wf)) /\ Wf = Normalised(wf)
      BY <2>1, NormalisedIsFormed, SubmittedAssumption DEF Wf
  <2> QED BY <2>1, <2>2, RegistrationIsSound DEF PhasesOf
<1> QED BY <1>1, <1>2, <1>3, PTL DEF FlowSpec

\* A set of phases has an i-th member, for every i up to their number.
LEMMA NthIsOne ==
    ASSUME NEW R, NEW J, NEW S, NEW n \in Nat, S \subseteq 1..n, NEW i \in 1..Cardinality(S)
    PROVE  Graph(R, J, 1)!Nth(S, i) \in S
<1> DEFINE UpTo(m) == {q \in S : q <= m}
           Enough  == {m \in Nat : Cardinality(UpTo(m)) >= i}
<1>0. \A q \in S : q \in Nat /\ 1 <= q /\ q <= n
    OBVIOUS
<1>1. IsFiniteSet(S) /\ Cardinality(S) \in Nat /\ i \in Nat /\ 1 <= i /\ i <= Cardinality(S)
  <2>1. IsFiniteSet(S)
    <3>1. IsFiniteSet(1..n)
        BY FS_Interval
    <3> QED BY <3>1, FS_Subset
  <2>2. Cardinality(S) \in Nat
      BY <2>1, FS_CardinalityType
  <2> QED BY <2>1, <2>2
<1>2. \A m \in Nat : IsFiniteSet(UpTo(m)) /\ Cardinality(UpTo(m)) \in Nat
    BY <1>1, FS_Subset, FS_CardinalityType
<1>3. UpTo(n) = S
    BY <1>0
<1>4. n \in Enough
    BY <1>1, <1>3
<1>5. PICK m \in Enough : \A k \in Enough : ~ (k < m)
  <2>1. Enough \in SUBSET Nat /\ Enough # {}
      BY <1>4
  <2> HIDE DEF Enough
  <2>2. PICK m \in Enough : \A k \in Enough : ~ (<<k, m>> \in OpToRel(<, Nat))
      BY <2>1, NatLessThanWellFounded, WFMin
  <2> QED BY <2>1, <2>2 DEF OpToRel
<1>6. \A q \in S : ~ (q <= 0)
    BY <1>0
<1>7. Cardinality(UpTo(0)) = 0
  <2>1. UpTo(0) = {}
      BY <1>6
  <2> QED BY <2>1, FS_EmptySet
<1>8. m \in Nat /\ m - 1 \in Nat /\ Cardinality(UpTo(m)) >= i /\ m \in Nat \ {0}
    BY <1>1, <1>5, <1>7
<1>9. Cardinality(UpTo(m - 1)) < i
  <2>1. m - 1 \notin Enough
    <3> HIDE DEF Enough
    <3> QED BY <1>5, <1>8
  <2>2. Cardinality(UpTo(m - 1)) \in Nat
      BY <1>2, <1>8
  <2>3. ~ (Cardinality(UpTo(m - 1)) >= i)
    <3> HIDE DEF UpTo
    <3> QED BY <2>1, <1>8
  <2> HIDE DEF UpTo, Enough
  <2> QED BY <2>2, <2>3, <1>1
<1>10. m \in S
  <2>1. SUFFICES ASSUME m \notin S PROVE FALSE
      OBVIOUS
  <2>2. \A q \in S : q <= m <=> q <= m - 1
      BY <2>1, <1>0, <1>8
  <2>3. UpTo(m) = UpTo(m - 1)
      BY <2>2
  <2>4. Cardinality(UpTo(m)) = Cardinality(UpTo(m - 1))
      BY <2>3
  <2> HIDE DEF UpTo
  <2> QED BY <2>4, <1>1, <1>2, <1>8, <1>9
<1>11. UpTo(m) = UpTo(m - 1) \union {m} /\ m \notin UpTo(m - 1)
  <2>1. \A q \in S : q <= m <=> (q <= m - 1 \/ q = m)
      BY <1>0, <1>8
  <2>2. m \notin UpTo(m - 1)
      BY <1>8
  <2>3. \A q : q \in UpTo(m) <=> q \in UpTo(m - 1) \union {m}
      BY <2>1, <1>8, <1>10
  <2> HIDE DEF UpTo
  <2> QED BY <2>2, <2>3
<1>12. Cardinality(UpTo(m)) = i
  <2> HIDE DEF UpTo
  <2>1. Cardinality(UpTo(m)) = Cardinality(UpTo(m - 1)) + 1
      BY <1>2, <1>8, <1>11, FS_AddElement
  <2>2. Cardinality(UpTo(m - 1)) \in Nat
      BY <1>2, <1>8
  <2>3. Cardinality(UpTo(m)) >= i /\ i \in Nat
      BY <1>1, <1>8
  <2> QED BY ONLY <2>1, <2>2, <2>3, <1>9
<1> QED BY <1>10, <1>12, GraphCardinality DEF Graph!Nth

\* The members of a finite set, in some order.
LEMMA SomeOrder ==
    ASSUME NEW S, IsFiniteSet(S)
    PROVE  SetToSeq(S) \in [1..Cardinality(S) -> S]
<1>1. PICK f \in [1..Cardinality(S) -> S] : IsInjective(f)
    BY FS_CardinalityType DEF ExistsBijection, Bijection, Injection, IsInjective
<1> QED BY <1>1 DEF SetToSeq

\* A set of positions that is not empty has a last one.
LEMMA LastPosition ==
    ASSUME NEW n \in Nat, NEW S \in SUBSET (1..n), S # {}
    PROVE  \E i \in S : \A k \in S : k <= i
<1> DEFINE Behind == {n - i : i \in S}
<1>1. Behind \in SUBSET Nat /\ Behind # {}
  <2>1. \A i \in S : i \in Nat /\ i <= n /\ n - i \in Nat
      OBVIOUS
  <2> QED BY <2>1
<1>2. PICK m \in Behind : \A k \in Behind : ~ (<<k, m>> \in OpToRel(<, Nat))
  <2> HIDE DEF Behind
  <2> QED BY <1>1, NatLessThanWellFounded, WFMin
<1>3. PICK i \in S : m = n - i
    OBVIOUS
<1>4. \A k \in S : ~ (n - k < n - i)
    BY <1>1, <1>2, <1>3 DEF OpToRel
<1>5. \A k \in S : k \in Nat
    OBVIOUS
<1> QED BY <1>4, <1>5

-----------------------------------------------------------------------------
\* What a merge stands on: for an ordinary run the verification, which passed; for a
\* synthetic one the review phase, which asks for no verdict.
Ground(synthetic) == IF synthetic THEN The("review") ELSE The("verification")
Mark(synthetic) == IF synthetic THEN "none" ELSE "pass"

LandsAt == PhasesOf(Wf, NoRun)[The("verification")].policy.landsAt

\* The workflows, and the cycles of a synthetic run, that MergesAreEarned speaks of.
Owed(synthetic, cycle) ==
    /\ Ground(synthetic) < The("review_gate")
    /\ IF synthetic THEN cycle = 1 ELSE LandsAt <= The("verification")

Aborts == {"abort_budget_attempts", "abort_budget_cost", "abort_malformed", "abort_requested"}
Aborted(attempts) == \E i \in DOMAIN attempts : attempts[i].decision \in Aborts

Stood(attempts, synthetic) ==
    \E i \in DOMAIN attempts :
        LET a == attempts[i]
        IN  a.phase = Ground(synthetic) /\ ~a.carry /\ a.completed /\ a.verif = Mark(synthetic)

AttemptOK(a, synthetic, cycle) ==
    /\ DOMAIN a = DOMAIN Fresh(0)
    /\ a.phase \in DOMAIN Wf.phases
    /\ a.completed <=> a.decision # "none"
    /\ Owed(synthetic, cycle) /\ a.phase >= Ground(synthetic) => ~a.carry
    /\ a.decision = "advance" /\ a.phase = Ground(synthetic) /\ ~a.carry => a.verif = Mark(synthetic)

\* The attempts of a cycle: behind the ground there is nothing that does not stand on it,
\* but what cleans up after an abort.
Earned(attempts, synthetic, cycle) ==
    /\ \E S : attempts \in Seq(S)
    /\ \A i \in DOMAIN attempts : AttemptOK(attempts[i], synthetic, cycle)
    /\ Owed(synthetic, cycle) =>
           \A i \in DOMAIN attempts :
               /\ attempts[i].phase = The("review_gate") => Stood(attempts, synthetic)
               /\ ~Aborted(attempts) /\ attempts[i].phase > Ground(synthetic) =>
                      Stood(attempts, synthetic)

Sound == Formed(Wf) /\ Registrable(Wf)

\* The three phases the engine looks up by their purpose.
LEMMA Landmarks ==
    ASSUME Sound
    PROVE  /\ DOMAIN Wf.phases = 1..Len(Wf.phases) /\ Len(Wf.phases) \in Nat
           /\ \A u \in {"verification", "review", "review_gate"} :
                  /\ The(u) \in DOMAIN Wf.phases /\ Wf.phases[The(u)].purpose = u
                  /\ \A p \in DOMAIN Wf.phases : Wf.phases[p].purpose = u => p = The(u)
           /\ \A p \in DOMAIN Wf.phases : Wf.phases[p].verify <=> p = The("verification")
           /\ HasPrimitive(Wf.phases[The("review")], "pr_review")
<1>1. DOMAIN Wf.phases = 1..Len(Wf.phases) /\ Len(Wf.phases) \in Nat
    BY DEF Sound, Formed, IsSequence
<1>2. ASSUME NEW u \in {"verification", "review", "review_gate"}
      PROVE  /\ The(u) \in DOMAIN Wf.phases /\ Wf.phases[The(u)].purpose = u
             /\ \A p \in DOMAIN Wf.phases : Wf.phases[p].purpose = u => p = The(u)
  <2> DEFINE S == {p \in DOMAIN Wf.phases : Wf.phases[p].purpose = u}
  <2>1. IsFiniteSet(S)
    <3>1. IsFiniteSet(1..Len(Wf.phases))
        BY <1>1, FS_Interval
    <3> QED BY <1>1, <3>1, FS_Subset
  <2>2. Cardinality(S) = 1
      BY OneOfEach DEF Sound
  <2>3. PICK x : S = {x}
    <3> HIDE DEF S
    <3> QED BY <2>1, <2>2, FS_Singleton
  <2>4. The(u) \in S
      BY <2>3 DEF The
  <2> QED BY <2>3, <2>4
<1>3. \A p \in DOMAIN Wf.phases : PurposeValid(Wf, Wf.phases[p])
    BY DEF Sound, Registrable, ToSet
<1>4. \A p \in DOMAIN Wf.phases : Wf.phases[p].verify \in BOOLEAN
    BY DEF Sound, Formed
<1>5. \A p \in DOMAIN Wf.phases : Wf.phases[p].verify <=> p = The("verification")
    BY <1>2, <1>3, <1>4 DEF PurposeValid
<1>6. HasPrimitive(Wf.phases[The("review")], "pr_review")
    BY <1>2, <1>3 DEF PurposeValid
<1> QED BY <1>1, <1>2, <1>5, <1>6

\* The workflow of a run has the phases of the registration, and its policies do not
\* depend on the run.
LEMMA GraphOfRun ==
    ASSUME NEW r
    PROVE  /\ DOMAIN PhasesOf(Wf, r) = DOMAIN Wf.phases
           /\ \A p \in DOMAIN Wf.phases :
                  /\ PhasesOf(Wf, r)[p].purpose = Wf.phases[p].purpose
                  /\ PhasesOf(Wf, r)[p].verify = Wf.phases[p].verify
                  /\ PhasesOf(Wf, r)[p].policy = PhasesOf(Wf, NoRun)[p].policy
BY DEF PhasesOf, Resolved

\* A verification always runs.
LEMMA GroundRuns ==
    ASSUME Sound, NEW r
    PROVE  Graph(PhasesOf(Wf, r), AllJobs(Wf), 1)!PhaseRuns(The("verification"))
<1> DEFINE R == PhasesOf(Wf, r)
           J == AllJobs(Wf)
           v == The("verification")
<1>1. Graph(R, J, 1)!ValidWorkflow
    BY RegistrationIsSound DEF Sound, PhasesOf
<1>2. v \in DOMAIN R /\ R[v].purpose = "verification"
    BY Landmarks, GraphOfRun
<1> HIDE DEF R, J, v
<1>3. R[v].when /\ R[v].skips = {}
    BY <1>1, <1>2 DEF Graph!ValidWorkflow, Graph!PhaseIds, Graph!Purpose
<1>4. R[v].jobs # <<>> => Graph(R, J, 1)!ExpectedJobs(v) \ R[v].skips # {}
    BY <1>1, <1>2 DEF Graph!ValidWorkflow, Graph!PhaseIds
<1>5. Graph(R, J, 1)!PhaseRuns(v)
    BY <1>3, <1>4 DEF Graph!PhaseRuns
<1> QED BY <1>5 DEF R, J, v

\* The first of a set of phases is one of them.
LEMMA FirstIsOne ==
    ASSUME NEW R, NEW J, NEW S \in SUBSET Nat
    PROVE  IF S = {} THEN Graph(R, J, 1)!First(S) = 0 ELSE Graph(R, J, 1)!First(S) \in S
<1>1. S = {} => Graph(R, J, 1)!First(S) = 0
    BY DEF Graph!First, Graph!NoPhase
<1>2. ASSUME S # {} PROVE Graph(R, J, 1)!First(S) \in S
  <2>1. PICK m \in S : \A k \in S : ~ (<<k, m>> \in OpToRel(<, Nat))
      BY <1>2, NatLessThanWellFounded, WFMin
  <2>2. \A k \in S : ~ (k < m)
      BY <2>1 DEF OpToRel
  <2>3. \A k \in S : m <= k
      BY <2>2
  <2> QED BY <1>2, <2>3 DEF Graph!First
<1> QED BY <1>1, <1>2

\* A phase that advanced has an attempt that says so.
LEMMA AdvanceIsRecorded ==
    ASSUME NEW R, NEW J, NEW attempts, NEW n \in Nat, DOMAIN attempts = 1..n,
           \A i \in DOMAIN attempts : attempts[i].completed <=> attempts[i].decision # "none",
           NEW p \in Graph(R, J, 1)!Advanced(attempts)
    PROVE  \E i \in DOMAIN attempts : attempts[i].phase = p /\ attempts[i].decision = "advance"
<1> DEFINE i == Graph(R, J, 1)!LatestOf(attempts, p)
           of == {k \in DOMAIN attempts : attempts[k].phase = p}
<1>1. of # {} /\ of \in SUBSET (1..n)
    BY DEF Graph!Advanced, Graph!Attempted
<1>2. \E k \in of : \A m \in of : m <= k
  <2> HIDE DEF of
  <2> QED BY <1>1, LastPosition
<1>3. i \in DOMAIN attempts /\ attempts[i].phase = p
    BY <1>2 DEF Graph!LatestOf
<1>4. \/ attempts[i].decision = "advance"
      \/ attempts[i].decision = "none" /\ attempts[i].completed
  <2> HIDE DEF of
  <2> QED BY DEF Graph!Advanced
<1> HIDE DEF i
<1> QED BY <1>3, <1>4

\* A dispatch goes on behind a phase that advanced, or cleans up after an abort.
LEMMA TargetFollows ==
    ASSUME Sound, NEW r, NEW attempts, NEW n \in Nat, DOMAIN attempts = 1..n,
           \A i \in DOMAIN attempts : attempts[i].completed <=> attempts[i].decision # "none",
           NEW verdict, verdict = "advance" \/ Aborted(attempts),
           NEW p, p = Graph(PhasesOf(Wf, r), AllJobs(Wf), 1)!DispatchTarget(attempts, verdict), p # 0
    PROVE  /\ p \in DOMAIN Wf.phases
           /\ IF Aborted(attempts) THEN Wf.phases[p].purpose = "teardown"
              ELSE \E i \in DOMAIN attempts :
                       attempts[i].phase = p - 1 /\ attempts[i].decision = "advance"
<1> DEFINE R == PhasesOf(Wf, r)
           J == AllJobs(Wf)
           D == DOMAIN Wf.phases
           cleaning == {q \in Graph(R, J, 1)!AbortPhases \ Graph(R, J, 1)!Attempted(attempts) :
                           q - 1 \in Graph(R, J, 1)!AbortPhases =>
                               q - 1 \in Graph(R, J, 1)!Advanced(attempts)}
           ready(b) == {q \in Graph(R, J, 1)!PhaseIds \ Graph(R, J, 1)!Attempted(attempts) :
                           /\ Graph(R, J, 1)!RunsOnSuccessPath(q)
                           /\ Graph(R, J, 1)!RunsOnAbortPath(q) => b
                           /\ q - 1 \in Graph(R, J, 1)!Advanced(attempts)}
<1>1. DOMAIN R = D /\ D \in SUBSET Nat
    BY GraphOfRun, Landmarks
<1>2. \A q \in D : R[q].purpose = Wf.phases[q].purpose
    BY GraphOfRun
<1>3. Graph(R, J, 1)!HasAbort(attempts) <=> Aborted(attempts)
    BY DEF Graph!HasAbort, Graph!AbortDecisions, Aborted, Aborts
<1>4. p = Graph(R, J, 1)!DispatchTarget(attempts, verdict)
    OBVIOUS
<1> HIDE DEF R, J, D
<1>5. \/ Aborted(attempts) /\ p = Graph(R, J, 1)!AbortPathPhase(attempts)
      \/ ~Aborted(attempts) /\ \E b \in BOOLEAN : p = Graph(R, J, 1)!ReadyPhase(attempts, b)
    BY <1>3, <1>4 DEF Graph!DispatchTarget, Graph!NoPhase
<1>6. CASE Aborted(attempts) /\ p = Graph(R, J, 1)!AbortPathPhase(attempts)
  <2>1. p = Graph(R, J, 1)!First(cleaning)
      BY <1>6 DEF Graph!AbortPathPhase
  <2>2. cleaning \in SUBSET D
      BY <1>1 DEF Graph!AbortPhases, Graph!PhaseIds
  <2>3. p \in cleaning
    <3> HIDE DEF cleaning
    <3> QED BY <2>1, <2>2, <1>1, FirstIsOne
  <2>4. p \in Graph(R, J, 1)!AbortPhases
      BY <2>3
  <2>5. p \in D /\ R[p].purpose = "teardown"
      BY <2>4, <1>1 DEF Graph!AbortPhases, Graph!PhaseIds, Graph!RunsOnAbortPath, Graph!IsTeardown,
                        Graph!Purpose
  <2> QED BY <1>2, <1>6, <2>5 DEF D
<1>7. ASSUME ~Aborted(attempts), NEW b \in BOOLEAN, p = Graph(R, J, 1)!ReadyPhase(attempts, b)
      PROVE  /\ p \in D
             /\ \E i \in DOMAIN attempts : attempts[i].phase = p - 1 /\ attempts[i].decision = "advance"
  <2>1. p = Graph(R, J, 1)!First(ready(b))
      BY <1>7 DEF Graph!ReadyPhase
  <2>2. ready(b) \in SUBSET D
      BY <1>1 DEF Graph!PhaseIds
  <2>3. p \in ready(b)
    <3> HIDE DEF ready
    <3> QED BY <2>1, <2>2, <1>1, FirstIsOne
  <2>4. p \in D /\ p - 1 \in Graph(R, J, 1)!Advanced(attempts)
      BY <2>3, <2>2
  <2> QED BY <2>4, AdvanceIsRecorded
<1> QED BY <1>5, <1>6, <1>7 DEF D

\* What stood keeps standing when attempts are only added.
LEMMA StandsOn ==
    ASSUME NEW S, NEW attempts \in Seq(S), NEW a, NEW synthetic, Stood(attempts, synthetic)
    PROVE  Stood(Append(attempts, a), synthetic)
<1>1. \A i \in DOMAIN attempts : i \in DOMAIN Append(attempts, a) /\ Append(attempts, a)[i] = attempts[i]
    OBVIOUS
<1> QED BY <1>1 DEF Stood

\* An attempt may be added to earned ones, unless it lies behind a ground that was not
\* stood on.
LEMMA OneMoreAttempt ==
    ASSUME Sound, NEW attempts, NEW synthetic \in BOOLEAN, NEW cycle, Earned(attempts, synthetic, cycle),
           NEW a, AttemptOK(a, synthetic, cycle),
           Owed(synthetic, cycle) /\ a.phase > Ground(synthetic) =>
               \/ Stood(attempts, synthetic)
               \/ Aborted(attempts) /\ a.phase # The("review_gate")
    PROVE  Earned(Append(attempts, a), synthetic, cycle)
<1> DEFINE more == Append(attempts, a)
<1>1. PICK S : attempts \in Seq(S)
    BY DEF Earned
<1>2. /\ more \in Seq(S \union {a})
      /\ \A i \in DOMAIN attempts : i \in DOMAIN more /\ more[i] = attempts[i]
      /\ \A i \in DOMAIN more : i \in DOMAIN attempts \/ more[i] = a
    BY <1>1
<1>3. Stood(attempts, synthetic) => Stood(more, synthetic)
    BY <1>1, StandsOn
<1> HIDE DEF more
<1>4. Aborted(attempts) => Aborted(more)
    BY <1>2 DEF Aborted
<1>5. \A i \in DOMAIN more : AttemptOK(more[i], synthetic, cycle)
    BY <1>2 DEF Earned
<1>6. ASSUME Owed(synthetic, cycle), NEW i \in DOMAIN more
      PROVE  /\ more[i].phase = The("review_gate") => Stood(more, synthetic)
             /\ ~Aborted(more) /\ more[i].phase > Ground(synthetic) => Stood(more, synthetic)
  <2>1. CASE i \in DOMAIN attempts
      BY <1>2, <1>3, <1>4, <1>6, <2>1 DEF Earned
  <2>2. CASE more[i] = a
    <3>1. a.phase = The("review_gate") => a.phase > Ground(synthetic)
        BY <1>6, Landmarks DEF Owed, Ground
    <3> QED BY <1>3, <1>4, <1>6, <2>2, <3>1
  <2> QED BY <1>2, <2>1, <2>2
<1>7. Earned(more, synthetic, cycle)
    BY <1>2, <1>5, <1>6 DEF Earned
<1> QED BY <1>7 DEF more

\* Behind what advanced, a phase stands on the ground, or before it.
LEMMA AdvanceStands ==
    ASSUME Sound, NEW attempts, NEW synthetic \in BOOLEAN, NEW cycle, Earned(attempts, synthetic, cycle),
           Owed(synthetic, cycle), ~Aborted(attempts), NEW p \in Nat, p > Ground(synthetic),
           NEW i \in DOMAIN attempts, attempts[i].phase = p - 1, attempts[i].decision = "advance"
    PROVE  Stood(attempts, synthetic)
<1>1. AttemptOK(attempts[i], synthetic, cycle)
    BY DEF Earned
<1>2. Ground(synthetic) \in Nat
    BY Landmarks DEF Ground
<1>3. attempts[i].completed /\ ~attempts[i].carry
    BY <1>1, <1>2 DEF AttemptOK
<1>4. CASE attempts[i].phase = Ground(synthetic)
    BY <1>1, <1>3, <1>4 DEF AttemptOK, Stood
<1>5. CASE attempts[i].phase > Ground(synthetic)
    BY <1>5 DEF Earned
<1> QED BY <1>2, <1>4, <1>5

-----------------------------------------------------------------------------
\* What a run knows of its attempts, whatever it does next.
Core(r) ==
    /\ DOMAIN r = DOMAIN NoRun
    /\ r.synthetic \in BOOLEAN /\ r.cycle \in Nat \ {0}
    /\ Earned(r.attempts, r.synthetic, r.cycle)

\* A run at work or parked has an attempt in flight, one that goes on has a verdict, and
\* only the verification is tried again.
RunOK(r) ==
    /\ Core(r)
    /\ r.state \in {"running", "parked", "advancing", "retrying", "over"}
    /\ r.state # "over" => r.attempts # <<>>
    /\ r.state \in {"running", "parked"} => ~Last(r.attempts).completed
    /\ r.state = "advancing" => Last(r.attempts).decision \in {"advance"} \union Aborts
    /\ r.state = "retrying" => Last(r.attempts).phase = The("verification")

FlowInv ==
    /\ RegisteredInv
    /\ registered = <<>> => flow.state = "none"
    /\ DOMAIN flow = DOMAIN NoRun
    /\ flow.state = "none" => flow.attempts = <<>>
    /\ flow.state # "none" => RunOK(flow)

\* A run that is refused is over with the attempts it has.
LEMMA RefusedOK ==
    ASSUME NEW r, Core(r), NEW why, NEW p
    PROVE  RunOK(Refusal(r, why, p))
<1>1. {"state", "refused", "attempts", "synthetic", "cycle"} \subseteq DOMAIN r
    BY DEF Core, NoRun
<1> DEFINE new == Refusal(r, why, p)
<1>2. /\ DOMAIN new = DOMAIN r /\ new.attempts = r.attempts /\ new.synthetic = r.synthetic
      /\ new.cycle = r.cycle /\ new.state = "over"
    BY <1>1 DEF Refusal
<1> HIDE DEF new
<1>3. RunOK(new)
    BY <1>2 DEF RunOK, Core
<1> QED BY <1>3 DEF new

\* A run is launched with its latest attempt in flight, or it is over.
LEMMA LaunchedOK ==
    ASSUME NEW r, Core(r), r.attempts # <<>>, ~Last(r.attempts).completed, NEW leased
    PROVE  RunOK(Launched(Wf, r, leased))
<1>1. {"state", "refused", "attempts", "synthetic", "cycle"} \subseteq DOMAIN r
    BY DEF Core, NoRun
<1> DEFINE new == [r EXCEPT !.state = "running"]
<1>2. /\ DOMAIN new = DOMAIN r /\ new.attempts = r.attempts /\ new.synthetic = r.synthetic
      /\ new.cycle = r.cycle /\ new.state = "running"
    BY <1>1
<1> HIDE DEF new
<1>3. RunOK(new)
    BY <1>2 DEF RunOK, Core
<1>4. Launched(Wf, r, leased) = new \/ \E why, p : Launched(Wf, r, leased) = Refusal(r, why, p)
    BY DEF Launched, new
<1> QED BY <1>3, <1>4, RefusedOK

\* The last of a sequence that grew by one.
LEMMA LastOfMore ==
    ASSUME NEW S, NEW s \in Seq(S), NEW e
    PROVE  Append(s, e) # <<>> /\ Last(Append(s, e)) = e
BY DEF Last

\* A phase may be opened where the attempts so far earn it.
LEMMA OpenedOK ==
    ASSUME Sound, NEW r, Core(r), NEW p \in DOMAIN Wf.phases,
           Owed(r.synthetic, r.cycle) /\ p > Ground(r.synthetic) =>
               \/ Stood(r.attempts, r.synthetic)
               \/ Aborted(r.attempts) /\ p # The("review_gate")
    PROVE  /\ Core(Opened(Wf, r, p)) /\ Opened(Wf, r, p).attempts # <<>>
           /\ ~Last(Opened(Wf, r, p).attempts).completed
<1> DEFINE skips == Graph(PhasesOf(Wf, r), AllJobs(Wf), 1)!SkippedJobs(p)
           a == [Fresh(p) EXCEPT !.partial = skips # {}]
           new == Opened(Wf, r, p)
<1>1. {"state", "legs", "attempts", "synthetic", "cycle"} \subseteq DOMAIN r
    BY DEF Core, NoRun
<1>2. /\ DOMAIN new = DOMAIN r /\ new.synthetic = r.synthetic /\ new.cycle = r.cycle
      /\ new.attempts = Append(r.attempts, a)
    BY <1>1 DEF Opened
<1> HIDE DEF skips
<1>3. /\ DOMAIN a = DOMAIN Fresh(0) /\ a.phase = p /\ ~a.completed /\ a.decision = "none" /\ ~a.carry
    BY DEF Fresh
<1> HIDE DEF a, new
<1>4. AttemptOK(a, r.synthetic, r.cycle)
    BY <1>3 DEF AttemptOK
<1>5. Earned(Append(r.attempts, a), r.synthetic, r.cycle)
    BY <1>3, <1>4, OneMoreAttempt DEF Core
<1>6. PICK S : r.attempts \in Seq(S)
    BY DEF Core, Earned
<1>7. new.attempts # <<>> /\ Last(new.attempts) = a
    BY <1>2, <1>6, LastOfMore
<1>8. Core(new) /\ new.attempts # <<>> /\ ~Last(new.attempts).completed
    BY <1>2, <1>3, <1>5, <1>7 DEF Core
<1> QED BY <1>8 DEF new

\* A run goes on to a phase that its attempts earn: it is launched, parked, passed over
\* or refused.
LEMMA ForwardOK ==
    ASSUME Sound, NEW r, Core(r), NEW p \in DOMAIN Wf.phases,
           Owed(r.synthetic, r.cycle) /\ p > Ground(r.synthetic) =>
               \/ Stood(r.attempts, r.synthetic)
               \/ Aborted(r.attempts) /\ p # The("review_gate"),
           r.state = "advancing"
    PROVE  RunOK(Forward(Wf, r, p))
<1> DEFINE R == PhasesOf(Wf, r)
           J == AllJobs(Wf)
           skip == [Fresh(p) EXCEPT !.completed = TRUE, !.concl = "skipped", !.decision = "advance"]
           parked == [r EXCEPT !.attempts = Append(@, Fresh(p)), !.state = "parked"]
           passed == [r EXCEPT !.attempts = Append(@, skip), !.legs = @ \union {p}]
<1>1. {"state", "legs", "attempts", "synthetic", "cycle"} \subseteq DOMAIN r
    BY DEF Core, NoRun
<1>2. PICK S : r.attempts \in Seq(S)
    BY DEF Core, Earned
<1>3. RunOK(parked)
  <2>1. /\ DOMAIN parked = DOMAIN r /\ parked.synthetic = r.synthetic /\ parked.cycle = r.cycle
        /\ parked.attempts = Append(r.attempts, Fresh(p)) /\ parked.state = "parked"
      BY <1>1
  <2>2. /\ DOMAIN Fresh(p) = DOMAIN Fresh(0) /\ Fresh(p).phase = p /\ ~Fresh(p).completed
        /\ Fresh(p).decision = "none" /\ ~Fresh(p).carry
      BY DEF Fresh
  <2> HIDE DEF parked
  <2>3. AttemptOK(Fresh(p), r.synthetic, r.cycle)
      BY <2>2 DEF AttemptOK
  <2>4. Earned(Append(r.attempts, Fresh(p)), r.synthetic, r.cycle)
      BY <2>2, <2>3, OneMoreAttempt DEF Core
  <2>5. parked.attempts # <<>> /\ Last(parked.attempts) = Fresh(p)
      BY <2>1, <1>2, LastOfMore
  <2> QED BY <2>1, <2>2, <2>4, <2>5 DEF RunOK, Core
<1>4. ASSUME ~Graph(R, J, 1)!PhaseRuns(p)
      PROVE  RunOK(passed)
  <2>1. /\ DOMAIN passed = DOMAIN r /\ passed.synthetic = r.synthetic /\ passed.cycle = r.cycle
        /\ passed.attempts = Append(r.attempts, skip) /\ passed.state = r.state
      BY <1>1
  <2>2. /\ DOMAIN skip = DOMAIN Fresh(0) /\ skip.phase = p /\ skip.completed /\ skip.verif = "none"
        /\ skip.decision = "advance" /\ ~skip.carry
      BY DEF Fresh
  <2>3. p # The("verification")
      BY <1>4, GroundRuns
  <2> HIDE DEF passed, skip, R, J
  <2>4. AttemptOK(skip, r.synthetic, r.cycle)
      BY <2>2, <2>3 DEF AttemptOK, Ground, Mark
  <2>5. Earned(Append(r.attempts, skip), r.synthetic, r.cycle)
      BY <2>2, <2>4, OneMoreAttempt DEF Core
  <2>6. passed.attempts # <<>> /\ Last(passed.attempts) = skip
      BY <2>1, <1>2, LastOfMore
  <2> QED BY <2>1, <2>2, <2>5, <2>6 DEF RunOK, Core
<1>5. RunOK(Launched(Wf, Opened(Wf, r, p), r.slot))
    BY OpenedOK, LaunchedOK
<1>6. RunOK(Refusal(r, "input", p))
    BY RefusedOK
<1>7. \/ Forward(Wf, r, p) = Refusal(r, "input", p)
      \/ Forward(Wf, r, p) = parked
      \/ Forward(Wf, r, p) = Launched(Wf, Opened(Wf, r, p), r.slot)
      \/ ~Graph(R, J, 1)!PhaseRuns(p) /\ Forward(Wf, r, p) = passed
    BY DEF Forward
<1> HIDE DEF R, J, parked, passed
<1> QED BY <1>3, <1>4, <1>5, <1>6, <1>7

\* A verdict is one of the engine's; only a verification is tried again, and it advances
\* only when it passed.
LEMMA VerdictOf ==
    ASSUME NEW R, NEW J, NEW attempts, NEW cycle, NEW p, NEW last,
           last = attempts[Len(attempts)], p = last.phase
    PROVE  LET verdict == Graph(R, J, 1)!Decide(attempts, cycle, 0)
           IN  /\ verdict \in {"retry", "advance"} \union Aborts
               /\ verdict = "retry" => R[p].verify
               /\ verdict = "advance" /\ R[p].verify => last.verif = "pass"
BY DEF Graph!Decide, Graph!RetryOrAbort, Aborts

\* The completion of the attempt in flight keeps the attempts earned.
LEMMA CompleteOK ==
    ASSUME Sound, RunOK(flow), Complete
    PROVE  RunOK(flow')
<1> DEFINE as == flow.attempts
           n == Len(as)
           last == Last(as)
           R == PhasesOf(Wf, flow)
           J == AllJobs(Wf)
<1>1. PICK S : as \in Seq(S)
    BY DEF RunOK, Core, Earned
<1>2. flow.state = "running" /\ as # <<>> /\ ~last.completed
    BY DEF Complete, RunOK
<1>3. n \in Nat \ {0} /\ DOMAIN as = 1..n /\ n \in DOMAIN as /\ last = as[n]
    BY <1>1, <1>2 DEF Last
<1>4. \A i \in DOMAIN as : AttemptOK(as[i], flow.synthetic, flow.cycle)
    BY DEF RunOK, Core, Earned
<1>5. PICK end \in PhaseEnds(Wf, last.phase, last.partial) :
        LET closed    == [last EXCEPT !.completed = TRUE, !.concl = end.concl,
                                     !.verif = end.verif, !.published = end.keys]
            attempts == [as EXCEPT ![n] = closed]
            verdict  == Graph(R, J, 1)!Decide(attempts, flow.cycle, 0)
        IN  flow' = [flow EXCEPT !.attempts = [attempts EXCEPT ![Len(attempts)].decision = verdict],
                                 !.state = IF verdict = "retry" THEN "retrying" ELSE "advancing"]
    BY DEF Complete
<1> DEFINE closed    == [last EXCEPT !.completed = TRUE, !.concl = end.concl,
                                    !.verif = end.verif, !.published = end.keys]
           attempts == [as EXCEPT ![n] = closed]
           verdict  == Graph(R, J, 1)!Decide(attempts, flow.cycle, 0)
           new      == [attempts EXCEPT ![Len(attempts)].decision = verdict]
           judged   == [closed EXCEPT !.decision = verdict]
<1>6. /\ flow' = [flow EXCEPT !.attempts = new,
                              !.state = IF verdict = "retry" THEN "retrying" ELSE "advancing"]
    BY <1>5
<1> HIDE DEF last
<1>7. DOMAIN last = DOMAIN Fresh(0) /\ last.phase \in DOMAIN Wf.phases
    BY <1>3, <1>4 DEF AttemptOK
<1>8. /\ DOMAIN closed = DOMAIN Fresh(0) /\ closed.completed /\ closed.phase = last.phase
      /\ closed.verif = end.verif /\ closed.carry = last.carry
    BY <1>7 DEF Fresh
<1>9. end.verif \in (IF Wf.phases[last.phase].verify THEN {"pass", "fail"} ELSE {"none"})
    BY DEF PhaseEnds
<1> HIDE DEF closed
<1>10. Len(attempts) = n /\ attempts \in Seq(S \union {closed}) /\ attempts[n] = closed
    BY <1>1, <1>3
<1>11. /\ verdict \in {"retry", "advance"} \union Aborts
       /\ verdict = "retry" => R[last.phase].verify
       /\ verdict = "advance" /\ R[last.phase].verify => end.verif = "pass"
  <2> HIDE DEF attempts, R, J
  <2> QED BY <1>8, <1>10, VerdictOf
<1> HIDE DEF verdict
<1>12. /\ DOMAIN judged = DOMAIN Fresh(0) /\ judged.completed /\ judged.phase = last.phase
       /\ judged.verif = end.verif /\ judged.carry = last.carry /\ judged.decision = verdict
    BY <1>8 DEF Fresh
<1>13. new = [attempts EXCEPT ![n] = judged]
    BY <1>10
<1> HIDE DEF judged
<1>14. /\ new \in Seq(S \union {closed, judged}) /\ Len(new) = n /\ DOMAIN new = 1..n
       /\ new[n] = judged /\ \A i \in 1..n : i # n => new[i] = as[i]
    BY <1>1, <1>3, <1>10, <1>13
<1> HIDE DEF new, attempts
<1>15. R[last.phase].verify <=> last.phase = The("verification")
    BY <1>7, GraphOfRun, Landmarks
<1>16. Wf.phases[last.phase].verify <=> last.phase = The("verification")
    BY <1>7, Landmarks
<1>17. AttemptOK(judged, flow.synthetic, flow.cycle)
  <2>1. AttemptOK(last, flow.synthetic, flow.cycle)
      BY <1>3, <1>4
  <2>2. verdict # "none"
      BY <1>11 DEF Aborts
  <2>3. ASSUME verdict = "advance", last.phase = Ground(flow.synthetic)
        PROVE  end.verif = Mark(flow.synthetic)
    <3>1. CASE flow.synthetic
      <4>1. last.phase # The("verification")
          BY <2>3, <3>1, Landmarks DEF Ground
      <4> QED BY <1>9, <1>16, <3>1, <4>1 DEF Mark
    <3>2. CASE ~flow.synthetic
        BY <1>11, <1>15, <2>3, <3>2 DEF Ground, Mark
    <3> QED BY <3>1, <3>2
  <2> HIDE DEF R
  <2> QED BY <1>7, <1>12, <2>1, <2>2, <2>3 DEF AttemptOK
<1>18. Stood(as, flow.synthetic) => Stood(new, flow.synthetic)
  <2> SUFFICES ASSUME NEW i \in DOMAIN as, as[i].phase = Ground(flow.synthetic), ~as[i].carry,
                      as[i].completed, as[i].verif = Mark(flow.synthetic)
               PROVE  Stood(new, flow.synthetic)
      BY DEF Stood
  <2>1. i # n
      BY <1>2, <1>3
  <2> HIDE DEF as, n
  <2> QED BY <1>3, <1>14, <2>1 DEF Stood
<1>19. Aborted(as) => Aborted(new)
  <2> SUFFICES ASSUME NEW i \in DOMAIN as, as[i].decision \in Aborts
               PROVE  Aborted(new)
      BY DEF Aborted
  <2>1. as[i].completed
      BY <1>4 DEF AttemptOK, Aborts
  <2>2. i # n
      BY <1>2, <1>3, <2>1
  <2> HIDE DEF as, n
  <2> QED BY <1>3, <1>14, <2>2 DEF Aborted
<1>20. \A i \in 1..n : new[i].phase = as[i].phase
    BY <1>3, <1>12, <1>14
<1>21. Earned(new, flow.synthetic, flow.cycle)
  <2>1. \A i \in DOMAIN new : AttemptOK(new[i], flow.synthetic, flow.cycle)
      BY <1>3, <1>4, <1>14, <1>17
  <2>2. ASSUME Owed(flow.synthetic, flow.cycle), NEW i \in DOMAIN new
        PROVE  /\ new[i].phase = The("review_gate") => Stood(new, flow.synthetic)
               /\ ~Aborted(new) /\ new[i].phase > Ground(flow.synthetic) => Stood(new, flow.synthetic)
    <3>1. i \in DOMAIN as /\ new[i].phase = as[i].phase
        BY <1>3, <1>14, <1>20
    <3>2. /\ as[i].phase = The("review_gate") => Stood(as, flow.synthetic)
          /\ ~Aborted(as) /\ as[i].phase > Ground(flow.synthetic) => Stood(as, flow.synthetic)
        BY <2>2, <3>1 DEF RunOK, Core, Earned
    <3> QED BY <1>18, <1>19, <3>1, <3>2
  <2> QED BY <1>14, <2>1, <2>2 DEF Earned
<1>22. {"state", "attempts", "synthetic", "cycle"} \subseteq DOMAIN flow /\ DOMAIN flow = DOMAIN NoRun
    BY DEF RunOK, Core, NoRun
<1>23. /\ DOMAIN flow' = DOMAIN NoRun /\ flow'.attempts = new /\ flow'.synthetic = flow.synthetic
       /\ flow'.cycle = flow.cycle
       /\ flow'.state = IF verdict = "retry" THEN "retrying" ELSE "advancing"
    BY <1>6, <1>22
<1>24. new # <<>> /\ Last(new) = judged
    BY <1>3, <1>14 DEF Last
<1>25. verdict = "retry" => last.phase = The("verification")
    BY <1>11, <1>15
<1>26. flow'.synthetic \in BOOLEAN /\ flow'.cycle \in Nat \ {0}
    BY <1>23 DEF RunOK, Core
<1> HIDE DEF R
<1> QED BY <1>11, <1>12, <1>21, <1>23, <1>24, <1>25, <1>26 DEF RunOK, Core

\* A run goes on to its next phase, or is over.
LEMMA AdvanceOK ==
    ASSUME Sound, RunOK(flow), Advance
    PROVE  RunOK(flow')
<1> DEFINE as == flow.attempts
           verdict == Last(as).decision
           target == Graph(PhasesOf(Wf, flow), AllJobs(Wf), 1)!DispatchTarget(as, verdict)
           over == [flow EXCEPT !.state = "over"]
<1>1. /\ flow.state = "advancing" /\ as # <<>> /\ verdict \in {"advance"} \union Aborts /\ Core(flow)
    BY DEF Advance, RunOK
<1>2. flow' = IF target = 0 THEN over ELSE Forward(Wf, flow, target)
    BY DEF Advance
<1>3. PICK S : as \in Seq(S)
    BY <1>1 DEF Core, Earned
<1>4. Len(as) \in Nat /\ DOMAIN as = 1..Len(as) /\ Len(as) \in DOMAIN as
    BY <1>1, <1>3
<1>5. verdict = "advance" \/ Aborted(as)
    BY <1>1, <1>4 DEF Aborted, Last
<1>6. \A i \in DOMAIN as : as[i].completed <=> as[i].decision # "none"
    BY <1>1 DEF Core, Earned, AttemptOK
<1>7. RunOK(over)
  <2>1. {"state", "attempts", "synthetic", "cycle"} \subseteq DOMAIN flow
      BY <1>1 DEF Core, NoRun
  <2>2. /\ DOMAIN over = DOMAIN flow /\ over.attempts = as /\ over.synthetic = flow.synthetic
        /\ over.cycle = flow.cycle /\ over.state = "over"
      BY <2>1
  <2> HIDE DEF over, as
  <2> QED BY <1>1, <2>2 DEF RunOK, Core, as
<1>8. ASSUME target # 0
      PROVE  /\ target \in DOMAIN Wf.phases
             /\ IF Aborted(as) THEN Wf.phases[target].purpose = "teardown"
                ELSE \E i \in DOMAIN as : as[i].phase = target - 1 /\ as[i].decision = "advance"
  <2> HIDE DEF as, verdict
  <2>1. target # 0
      BY <1>8
  <2> QED BY ONLY Sound, <1>4, <1>5, <1>6, <2>1, TargetFollows, Zenon
<1> HIDE DEF target, verdict
<1>9. ASSUME target # 0, Owed(flow.synthetic, flow.cycle), target > Ground(flow.synthetic)
      PROVE  \/ Stood(as, flow.synthetic)
             \/ Aborted(as) /\ target # The("review_gate")
  <2>1. CASE Aborted(as)
      BY <1>8, <1>9, <2>1, Landmarks
  <2>2. CASE ~Aborted(as)
    <3>1. PICK i \in DOMAIN as : as[i].phase = target - 1 /\ as[i].decision = "advance"
        BY <1>8, <1>9, <2>2
    <3>2. target \in Nat
        BY <1>8, <1>9, Landmarks
    <3> QED BY <1>1, <1>9, <2>2, <3>1, <3>2, AdvanceStands DEF Core
  <2> QED BY <2>1, <2>2
<1>10. target # 0 => RunOK(Forward(Wf, flow, target))
    BY <1>1, <1>8, <1>9, ForwardOK
<1> QED BY <1>2, <1>7, <1>10

\* Attempts that are counted as done.
AllDone(n, f, keys) == [i \in 1..n |-> Done(f[i], keys[i])]

\* The attempts that are over, the phases before a landing that have one, and the last of
\* those of a phase.
Finished(r) == {i \in DOMAIN r.attempts : r.attempts[i].completed \/ r.attempts[i].decision # "none"}
Kept(r, target) == {p \in 1..(target - 1) : \E i \in Finished(r) : r.attempts[i].phase = p}
LatestDone(r, p) ==
    CHOOSE i \in Finished(r) :
        /\ r.attempts[i].phase = p
        /\ \A k \in Finished(r) : r.attempts[k].phase = p => k <= i

\* The n attempts a cycle carries are done, of the phases f that are kept, each with the keys
\* that the last of its attempts published.
CarriedAs(r, target, n, f, keys) ==
    /\ Carried(Wf, r, target) = AllDone(n, f, keys)
    /\ n = Cardinality(Kept(r, target))
    /\ \A i \in 1..n :
           /\ f[i] = Graph(PhasesOf(Wf, r), AllJobs(Wf), 1)!Nth(Kept(r, target), i)
           /\ f[i] \in Kept(r, target)
           /\ keys[i] = r.attempts[LatestDone(r, f[i])].published

\* What a recycled cycle carries are the phases before the one it lands at that have an
\* attempt that is over, each with what the last of those published.
LEMMA CarriedBefore ==
    ASSUME Sound, NEW r, NEW target \in DOMAIN Wf.phases
    PROVE  \E n \in Nat : \E f \in [1..n -> 1..(target - 1)] : \E keys :
               CarriedAs(r, target, n, f, keys)
<1> DEFINE R == PhasesOf(Wf, r)
           J == AllJobs(Wf)
           some == {p \in 1..(target - 1) :
                       \E i \in DOMAIN r.attempts : r.attempts[i].phase = p
                                                    /\ ~Graph(R, J, 1)!InFlight(r.attempts[i])}
           n == Cardinality(some)
           f == [i \in 1..n |-> Graph(R, J, 1)!Nth(some, i)]
           carried == Graph(R, J, 1)!CarriedForward(r.attempts, target)
           keys == [i \in 1..n |-> r.attempts[LatestDone(r, carried[i].phase)].published]
<1>0. some = Kept(r, target)
    BY DEF Kept, Finished, Graph!InFlight
<1>1. target \in Nat /\ target - 1 \in Nat
    BY Landmarks
<1>2. some \subseteq 1..(target - 1)
    OBVIOUS
<1> HIDE DEF R, J
<1>3. Graph(R, J, 1)!Cardinality(some) = n
    BY GraphCardinality
<1>4. /\ DOMAIN carried = 1..n
      /\ \A i \in 1..n : carried[i].phase = Graph(R, J, 1)!Nth(some, i)
    BY <1>3 DEF Graph!CarriedForward, Graph!NewAttempt
<1> HIDE DEF some
<1>5. n \in Nat
  <2>1. IsFiniteSet(1..(target - 1))
      BY <1>1, FS_Interval
  <2> QED BY <1>2, <2>1, FS_Subset, FS_CardinalityType
<1>6. \A i \in 1..n : Graph(R, J, 1)!Nth(some, i) \in some
    BY <1>1, <1>2, NthIsOne
<1>7. f \in [1..n -> 1..(target - 1)] /\ \A i \in 1..n : f[i] = carried[i].phase
    BY <1>2, <1>4, <1>6
<1>8. Carried(Wf, r, target) =
          [i \in DOMAIN carried |->
              Done(carried[i].phase, r.attempts[LatestDone(r, carried[i].phase)].published)]
    BY DEF Carried, LatestDone, Finished, R, J
<1>9. \A i \in 1..n : f[i] = Graph(R, J, 1)!Nth(some, i) /\ f[i] \in some
    BY <1>6
<1> HIDE DEF f, carried, n
<1>10. Carried(Wf, r, target) = AllDone(n, f, keys)
    BY <1>4, <1>7, <1>8 DEF AllDone
<1>11. \A i \in 1..n : keys[i] = r.attempts[LatestDone(r, f[i])].published
    BY <1>7
<1> HIDE DEF keys
<1>12. n = Cardinality(Kept(r, target))
    BY <1>0 DEF n
<1>13. \A i \in 1..n :
           /\ f[i] = Graph(PhasesOf(Wf, r), AllJobs(Wf), 1)!Nth(Kept(r, target), i)
           /\ f[i] \in Kept(r, target)
    BY <1>0, <1>9 DEF R, J
<1>14. CarriedAs(r, target, n, f, keys)
    BY ONLY <1>10, <1>11, <1>12, <1>13 DEF CarriedAs
<1>15. n \in Nat /\ f \in [1..n -> 1..(target - 1)]
    BY <1>5, <1>7
<1> QED BY ONLY <1>14, <1>15, Zenon

\* What a recycled cycle carries is done.
LEMMA CarriedIsDone ==
    ASSUME Sound, NEW r, NEW target \in DOMAIN Wf.phases
    PROVE  \E n \in Nat : \E f \in [1..n -> 1..(target - 1)] : \E keys :
               Carried(Wf, r, target) = AllDone(n, f, keys)
<1>1. \E n \in Nat : \E f \in [1..n -> 1..(target - 1)] : \E keys :
          CarriedAs(r, target, n, f, keys)
    BY CarriedBefore, Zenon
<1>2. PICK n \in Nat : \E f \in [1..n -> 1..(target - 1)] : \E keys :
          CarriedAs(r, target, n, f, keys)
    BY <1>1, Zenon
<1>3. PICK f \in [1..n -> 1..(target - 1)] : \E keys : CarriedAs(r, target, n, f, keys)
    BY <1>2, Zenon
<1>4. PICK keys : CarriedAs(r, target, n, f, keys)
    BY <1>3, Zenon
<1>5. Carried(Wf, r, target) = AllDone(n, f, keys)
    BY ONLY <1>4 DEF CarriedAs
<1> QED BY ONLY <1>5, Zenon

\* Attempts that are counted as done are earned as long as they lie before the ground.
LEMMA DoneIsEarned ==
    ASSUME Sound, NEW synthetic \in BOOLEAN, NEW cycle, NEW n \in Nat,
           NEW f \in [1..n -> DOMAIN Wf.phases], NEW keys,
           Owed(synthetic, cycle) => \A i \in 1..n : f[i] < Ground(synthetic)
    PROVE  Earned(AllDone(n, f, keys), synthetic, cycle)
<1> DEFINE as == AllDone(n, f, keys)
<1>1. \A i \in 1..n : /\ DOMAIN as[i] = DOMAIN Fresh(0) /\ as[i].phase = f[i] /\ as[i].completed
                      /\ as[i].decision = "advance" /\ as[i].carry
    BY DEF AllDone, Done, Fresh
<1>2. DOMAIN as = 1..n /\ as \in Seq({as[i] : i \in 1..n})
    BY DEF AllDone
<1> HIDE DEF as
<1>3. Ground(synthetic) \in Nat /\ \A i \in 1..n : f[i] \in Nat
    BY Landmarks DEF Ground
<1>4. \A i \in 1..n : AttemptOK(as[i], synthetic, cycle)
  <2> SUFFICES ASSUME NEW i \in 1..n PROVE AttemptOK(as[i], synthetic, cycle)
      OBVIOUS
  <2>1. Owed(synthetic, cycle) => ~ (as[i].phase >= Ground(synthetic))
    <3> DEFINE g == Ground(synthetic)
    <3>1. Owed(synthetic, cycle) => f[i] < g
        OBVIOUS
    <3>2. g \in Nat /\ f[i] \in Nat /\ as[i].phase = f[i]
        BY <1>1, <1>3
    <3> HIDE DEF g
    <3>3. Owed(synthetic, cycle) => ~ (as[i].phase >= g)
        BY ONLY <3>1, <3>2
    <3> QED BY <3>3 DEF g
  <2>2. as[i].phase \in DOMAIN Wf.phases
      BY <1>1
  <2> QED BY <1>1, <2>1, <2>2 DEF AttemptOK
<1>5. The("review_gate") \in Nat
    BY Landmarks
<1>6. ASSUME Owed(synthetic, cycle), NEW i \in 1..n
      PROVE  as[i].phase # The("review_gate") /\ ~ (as[i].phase > Ground(synthetic))
  <2>1. f[i] < Ground(synthetic)
      BY <1>6
  <2>2. Ground(synthetic) < The("review_gate")
      BY <1>6 DEF Owed
  <2> DEFINE g == Ground(synthetic)
             gate == The("review_gate")
  <2>3. g \in Nat /\ gate \in Nat /\ f[i] \in Nat /\ as[i].phase = f[i] /\ f[i] < g /\ g < gate
      BY <1>1, <1>3, <1>5, <2>1, <2>2
  <2> HIDE DEF g, gate
  <2>4. as[i].phase # gate /\ ~ (as[i].phase > g)
      BY ONLY <2>3
  <2> QED BY <2>4 DEF g, gate
<1>7. Earned(as, synthetic, cycle)
    BY <1>2, <1>4, <1>6 DEF Earned
<1> QED BY <1>7 DEF as

\* A new cycle starts with what it carries, and the phase the policy lands at.
LEMMA RetryOK ==
    ASSUME Sound, RunOK(flow), Retry
    PROVE  RunOK(flow')
<1> DEFINE v == The("verification")
           R == PhasesOf(Wf, flow)
           J == AllJobs(Wf)
           target == Graph(R, J, 1)!RetryTarget(v)
           carry == Carried(Wf, flow, target)
           cycle == [flow EXCEPT !.attempts = carry, !.cycle = @ + 1]
<1>1. Core(flow) /\ Last(flow.attempts).phase = v /\ flow' = Recycled(Wf, flow, v)
    BY DEF Retry, RunOK
<1>2. target = IF LandsAt = 0 THEN 1 ELSE LandsAt
  <2>1. R[v].policy.landsAt = LandsAt
      BY GraphOfRun, Landmarks DEF LandsAt
  <2> HIDE DEF R, J
  <2> QED BY <2>1 DEF Graph!RetryTarget
<1> HIDE DEF R, J
<1>3. \/ \E why : flow' = Refusal(flow, why, target)
      \/ target \in DOMAIN Wf.phases /\ flow' = Launched(Wf, Opened(Wf, cycle, target), TRUE)
    BY <1>1 DEF Recycled, R, J
<1>4. ASSUME target \in DOMAIN Wf.phases
      PROVE  RunOK(Launched(Wf, Opened(Wf, cycle, target), TRUE))
  <2> HIDE DEF target
  <2>1. {"attempts", "cycle", "synthetic"} \subseteq DOMAIN flow
      BY <1>1 DEF Core, NoRun
  <2>2. /\ DOMAIN cycle = DOMAIN flow /\ cycle.attempts = carry /\ cycle.cycle = flow.cycle + 1
        /\ cycle.synthetic = flow.synthetic
      BY <2>1
  <2>3. flow.cycle \in Nat \ {0} /\ flow.synthetic \in BOOLEAN /\ DOMAIN flow = DOMAIN NoRun
      BY <1>1 DEF Core
  <2>4. Owed(flow.synthetic, flow.cycle + 1) => target <= Ground(flow.synthetic)
    <3>1. v \in Nat /\ v >= 1
        BY Landmarks
    <3> HIDE DEF v
    <3>2. ASSUME flow.synthetic, Owed(flow.synthetic, flow.cycle + 1) PROVE FALSE
      <4>1. flow.cycle + 1 = 1
          BY <3>2 DEF Owed
      <4> QED BY <2>3, <4>1
    <3>3. ~flow.synthetic /\ Owed(flow.synthetic, flow.cycle + 1) => target <= v
        BY <1>2, <3>1 DEF Owed, v
    <3> QED BY <3>2, <3>3 DEF Ground, v
  <2>5. PICK n \in Nat : \E f \in [1..n -> 1..(target - 1)] : \E keys :
            carry = AllDone(n, f, keys)
      BY <1>4, CarriedIsDone
  <2>6. PICK f \in [1..n -> 1..(target - 1)] : \E keys : carry = AllDone(n, f, keys)
      BY <2>5
  <2>7. PICK keys : carry = AllDone(n, f, keys)
      BY <2>6
  <2>8. f \in [1..n -> DOMAIN Wf.phases] /\ \A i \in 1..n : f[i] \in Nat /\ f[i] < target
    <3>1. DOMAIN Wf.phases = 1..Len(Wf.phases) /\ Len(Wf.phases) \in Nat
        BY Landmarks
    <3>2. \A q \in 1..(target - 1) : q \in DOMAIN Wf.phases /\ q \in Nat /\ q < target
        BY <1>4, <3>1
    <3> QED BY <3>2
  <2>9. Ground(flow.synthetic) \in Nat /\ target \in Nat
      BY <1>4, <2>3, Landmarks DEF Ground
  <2>10. Owed(flow.synthetic, flow.cycle + 1) => \A i \in 1..n : f[i] < Ground(flow.synthetic)
      BY <2>4, <2>8, <2>9
  <2> HIDE DEF carry
  <2>11. Earned(carry, flow.synthetic, flow.cycle + 1)
      BY <2>3, <2>7, <2>8, <2>10, DoneIsEarned
  <2> HIDE DEF cycle
  <2>12. flow.cycle + 1 \in Nat \ {0}
      BY <2>3
  <2>13. Core(cycle)
      BY <2>2, <2>3, <2>11, <2>12 DEF Core
  <2>14. ~ (Owed(cycle.synthetic, cycle.cycle) /\ target > Ground(cycle.synthetic))
      BY <2>2, <2>4, <2>9
  <2>15. /\ Core(Opened(Wf, cycle, target)) /\ Opened(Wf, cycle, target).attempts # <<>>
         /\ ~Last(Opened(Wf, cycle, target).attempts).completed
      BY <1>4, <2>13, <2>14, OpenedOK
  <2> QED BY <2>15, LaunchedOK
<1> HIDE DEF target, cycle
<1> QED BY <1>1, <1>3, <1>4, RefusedOK

\* A parked merge is launched with the attempt that was parked.
LEMMA ApproveOK ==
    ASSUME Sound, RunOK(flow), ApproveReview
    PROVE  RunOK(flow')
<1>1. Core(flow) /\ flow.attempts # <<>> /\ ~Last(flow.attempts).completed
    BY DEF ApproveReview, RunOK
<1> QED BY <1>1, LaunchedOK DEF ApproveReview

\* A run has no attempts before its first phase.
LEMMA EntryOK ==
    ASSUME Sound, NEW run, DOMAIN run = DOMAIN NoRun, run.synthetic = FALSE, run.cycle = 1,
           run.attempts = <<>>
    PROVE  /\ Core(Opened(Wf, run, 1)) /\ Opened(Wf, run, 1).attempts # <<>>
           /\ ~Last(Opened(Wf, run, 1).attempts).completed
<1>1. Earned(<<>>, FALSE, 1)
    BY DEF Earned
<1>2. Core(run)
  <2>1. run.cycle \in Nat \ {0}
      OBVIOUS
  <2>2. run.synthetic \in BOOLEAN
      BY Zenon
  <2>3. Earned(run.attempts, run.synthetic, run.cycle)
      BY <1>1, Zenon
  <2> QED BY <2>1, <2>2, <2>3, Zenon DEF Core
<1>3. 1 \in DOMAIN Wf.phases
    BY Landmarks DEF Sound, Registrable
<1>4. ~ (1 > Ground(FALSE))
    BY Landmarks DEF Ground
<1> QED BY <1>2, <1>3, <1>4, OpenedOK

\* An ordinary dispatch.
LEMMA DispatchRunOK ==
    ASSUME Sound, DispatchRun
    PROVE  RunOK(flow')
<1>1. PICK given \in CallerInputs, preserve \in BOOLEAN, queued \in BOOLEAN :
        LET run == [NoRun EXCEPT !.number = flow.number + 1, !.cycle = 1, !.slot = TRUE,
                                 !.inputs = RunInputs(Wf, given),
                                 !.preserve = preserve /\ queued]
        IN  flow' = [Launched(Wf, Opened(Wf, run, 1), TRUE) EXCEPT !.preserve = preserve]
    BY DEF DispatchRun
<1> DEFINE run == [NoRun EXCEPT !.number = flow.number + 1, !.cycle = 1, !.slot = TRUE,
                                !.inputs = RunInputs(Wf, given),
                                !.preserve = preserve /\ queued]
           launched == Launched(Wf, Opened(Wf, run, 1), TRUE)
<1>2. DOMAIN run = DOMAIN NoRun /\ run.synthetic = FALSE /\ run.cycle = 1 /\ run.attempts = <<>>
    BY DEF NoRun
<1> HIDE DEF run
<1>3. RunOK(launched)
    BY <1>2, EntryOK, LaunchedOK
<1>4. flow' = [launched EXCEPT !.preserve = preserve]
    BY <1>1 DEF run
<1> HIDE DEF launched
<1>5. {"state", "attempts", "synthetic", "cycle"} \subseteq DOMAIN launched
    BY <1>3 DEF RunOK, Core, NoRun
<1>6. /\ DOMAIN flow' = DOMAIN launched /\ flow'.attempts = launched.attempts
      /\ flow'.synthetic = launched.synthetic /\ flow'.cycle = launched.cycle
      /\ flow'.state = launched.state
    BY <1>4, <1>5
<1> QED BY <1>3, <1>6 DEF RunOK, Core

\* A synthetic dispatch starts no later than the review phase, and supplies what comes
\* before its start.
LEMMA SyntheticDispatchOK ==
    ASSUME Sound, SyntheticDispatch
    PROVE  RunOK(flow')
<1>1. PICK request \in Requests(Wf), given \in CallerInputs, preserve \in BOOLEAN :
        /\ SyntheticAccepted(Wf, request, given)
        /\ LET run == [NoRun EXCEPT !.number = flow.number + 1, !.cycle = 1, !.synthetic = TRUE,
                                    !.slot = request.slot, !.inputs = RunInputs(Wf, given),
                                    !.preserve = preserve, !.attempts = SuppliedAttempts(request)]
           IN  flow' = Launched(Wf, Opened(Wf, run, request.start), TRUE)
    BY DEF SyntheticDispatch
<1> DEFINE run == [NoRun EXCEPT !.number = flow.number + 1, !.cycle = 1, !.synthetic = TRUE,
                                !.slot = request.slot, !.inputs = RunInputs(Wf, given),
                                !.preserve = preserve, !.attempts = SuppliedAttempts(request)]
           start == request.start
           S == DOMAIN request.supplied \union DOMAIN request.copied
           f == SetToSeq(S)
           n == Cardinality(S)
           keys == [i \in 1..n |-> Keys(request.supplied, f[i]) \union Keys(request.copied, f[i])]
<1>2. start \in DOMAIN Wf.phases /\ S \subseteq 1..(start - 1)
      /\ \A p \in 1..(start - 1) : ~HasPrimitive(Wf.phases[p], "pr_review")
    BY <1>1 DEF SyntheticAccepted, StartAllowed, SupplyAllowed
<1>3. /\ DOMAIN run = DOMAIN NoRun /\ run.synthetic = TRUE /\ run.cycle = 1
      /\ run.attempts = SuppliedAttempts(request)
    BY DEF NoRun
<1>4. flow' = Launched(Wf, Opened(Wf, run, start), TRUE)
    BY <1>1
<1> HIDE DEF run, start
<1>5. DOMAIN Wf.phases = 1..Len(Wf.phases) /\ Len(Wf.phases) \in Nat /\ start \in Nat
      /\ The("review") \in DOMAIN Wf.phases
    BY <1>2, Landmarks
<1>6. start <= The("review")
    BY <1>2, <1>5, Landmarks
<1>7. SuppliedAttempts(request) = [i \in DOMAIN f |-> Done(f[i], Keys(request.supplied, f[i])
                                                                  \union Keys(request.copied, f[i]))]
    BY DEF SuppliedAttempts
<1> HIDE DEF S
<1>8. IsFiniteSet(S)
  <2>1. IsFiniteSet(1..(start - 1))
      BY <1>5, FS_Interval
  <2> QED BY <1>2, <2>1, FS_Subset
<1>9. n \in Nat /\ f \in [1..n -> S]
    BY <1>8, SomeOrder, FS_CardinalityType
<1>10. \A q \in S : q \in DOMAIN Wf.phases /\ q \in Nat /\ q < start
    BY <1>2, <1>5
<1> HIDE DEF f, n
<1>11. SuppliedAttempts(request) = AllDone(n, f, keys)
    BY <1>7, <1>9 DEF AllDone
<1> HIDE DEF keys
<1>12. f \in [1..n -> DOMAIN Wf.phases] /\ \A i \in 1..n : f[i] < Ground(TRUE)
    BY <1>5, <1>6, <1>9, <1>10 DEF Ground
<1>13. Earned(SuppliedAttempts(request), TRUE, 1)
    BY <1>9, <1>11, <1>12, DoneIsEarned
<1>14. Core(run)
  <2>1. run.cycle \in Nat \ {0}
      BY <1>3
  <2>2. run.synthetic \in BOOLEAN
      BY <1>3, Zenon
  <2>3. Earned(run.attempts, run.synthetic, run.cycle)
      BY <1>3, <1>13, Zenon
  <2> QED BY <1>3, <2>1, <2>2, <2>3, Zenon DEF Core
<1>15. ~ (start > Ground(run.synthetic))
    BY <1>3, <1>5, <1>6 DEF Ground
<1>16. /\ Core(Opened(Wf, run, start)) /\ Opened(Wf, run, start).attempts # <<>>
       /\ ~Last(Opened(Wf, run, start).attempts).completed
    BY <1>2, <1>14, <1>15, OpenedOK
<1> QED BY <1>4, <1>16, LaunchedOK

\* What is registered is sound.
LEMMA AcceptedIsSound ==
    ASSUME RegisteredInv, registered # <<>>
    PROVE  Sound
<1>1. PICK wf \in Submitted : Registrable(Normalised(wf)) /\ registered = <<Normalised(wf)>>
    BY DEF RegisteredInv
<1>2. Formed(Normalised(wf)) /\ Wf = Normalised(wf)
    BY <1>1, NormalisedIsFormed, SubmittedAssumption DEF Wf
<1> QED BY <1>1, <1>2 DEF Sound

\* A step of a run, or its dispatch, leaves a run that is as it should be.
LEMMA RunsOn ==
    ASSUME FlowInv,
           DispatchRun \/ SyntheticDispatch \/ Complete \/ Advance \/ Retry \/ ApproveReview
    PROVE  /\ registered' = registered /\ registered # <<>>
           /\ RunOK(flow')
<1>1. registered' = registered /\ registered # <<>>
    BY DEF FlowInv, DispatchRun, SyntheticDispatch, Complete, Advance, Retry, ApproveReview
<1>2. Complete \/ Advance \/ Retry \/ ApproveReview => RunOK(flow)
    BY DEF FlowInv, Complete, Advance, Retry, ApproveReview
<1>3. Sound
    BY <1>1, AcceptedIsSound DEF FlowInv
<1> QED BY <1>1, <1>2, <1>3, DispatchRunOK, SyntheticDispatchOK, CompleteOK, AdvanceOK, RetryOK, ApproveOK

\* Every step keeps the invariant.
LEMMA FlowInvStep ==
    ASSUME FlowInv, [FlowNext]_flowVars
    PROVE  FlowInv'
<1>1. RegisteredInv'
    BY RegisteredStep DEF FlowInv
<1>2. NoRun.state = "none" /\ NoRun.attempts = <<>>
    BY DEF NoRun
<1>3. CASE Submit
  <2>1. flow' = flow /\ flow.state = "none" /\ DOMAIN flow = DOMAIN NoRun /\ flow.attempts = <<>>
      BY <1>3 DEF Submit, FlowInv
  <2> QED BY <1>1, <2>1 DEF FlowInv
<1>4. CASE UNCHANGED flowVars
  <2>1. registered' = registered /\ flow' = flow
      BY <1>4 DEF flowVars
  <2>2. RunOK(flow)' <=> RunOK(flow)
      BY <2>1 DEF RunOK, Core, Earned, AttemptOK, Stood, Owed, Ground, LandsAt, The, Wf, PhasesOf
  <2> QED BY <1>1, <2>1, <2>2 DEF FlowInv
<1>5. CASE Forget
  <2>1. flow' = [NoRun EXCEPT !.number = flow.number]
      BY <1>5 DEF Forget
  <2>2. flow'.state = "none" /\ flow'.attempts = <<>> /\ DOMAIN flow' = DOMAIN NoRun
      BY <2>1 DEF NoRun
  <2> QED BY <1>1, <2>2 DEF FlowInv
<1>6. ASSUME DispatchRun \/ SyntheticDispatch \/ Complete \/ Advance \/ Retry \/ ApproveReview
      PROVE  FlowInv'
  <2>1. registered' = registered /\ registered # <<>> /\ RunOK(flow')
      BY <1>6, RunsOn
  <2>2. RunOK(flow)'
      BY <2>1 DEF RunOK, Core, Earned, AttemptOK, Stood, Owed, Ground, LandsAt, The, Wf, PhasesOf
  <2>3. DOMAIN flow' = DOMAIN NoRun /\ flow'.state # "none"
      BY <2>1 DEF RunOK, Core
  <2> QED BY <1>1, <2>1, <2>2, <2>3 DEF FlowInv
<1> QED BY <1>3, <1>4, <1>5, <1>6 DEF FlowNext

\* No merge of any run of any workflow that registration accepts is launched without what
\* it must stand on: a verification that passed in the same cycle, or, after a synthetic
\* dispatch, the review phase that opened the pull request.
THEOREM MergesAlwaysEarned == FlowSpec => []MergesAreEarned
<1>1. FlowInit => FlowInv
    BY DEF FlowInit, FlowInv, RegisteredInv, NoRun
<1>2. FlowInv /\ [FlowNext]_flowVars => FlowInv'
    BY FlowInvStep
<1>3. FlowInv => MergesAreEarned
  <2> SUFFICES ASSUME FlowInv, registered # <<>>, MergeLaunched
               PROVE  MergesAreEarned
      BY DEF MergesAreEarned, VerifiedMerge, SyntheticMergeIsReviewed
  <2>1. RunOK(flow)
    <3>1. flow.attempts # <<>>
        BY DEF MergeLaunched
    <3> QED BY <3>1 DEF FlowInv
  <2>2. ASSUME Owed(flow.synthetic, flow.cycle)
        PROVE  Stood(flow.attempts, flow.synthetic)
      BY <2>1, <2>2 DEF RunOK, Core, Earned, MergeLaunched
  <2>3. ASSUME NEW p, NEW verif, p = Ground(flow.synthetic), verif = Mark(flow.synthetic),
               Stood(flow.attempts, flow.synthetic)
        PROVE  Ran(p, verif)
      BY <2>3 DEF Stood, Ran
  <2>4. Sound
      BY AcceptedIsSound DEF FlowInv
  <2>5. PhasesOf(Wf, flow)[The("verification")].policy.landsAt = LandsAt
      BY <2>4, GraphOfRun, Landmarks DEF LandsAt
  <2>6. CASE ~flow.synthetic
    <3>1. ASSUME The("verification") < The("review_gate"), LandsAt <= The("verification")
          PROVE  Ran(The("verification"), "pass")
      <4>1. Owed(flow.synthetic, flow.cycle)
          BY <2>6, <3>1 DEF Owed, Ground
      <4>2. Ground(flow.synthetic) = The("verification") /\ Mark(flow.synthetic) = "pass"
          BY <2>6 DEF Ground, Mark
      <4> QED BY <2>2, <2>3, <4>1, <4>2
    <3> QED BY <2>5, <2>6, <3>1 DEF MergesAreEarned, VerifiedMerge, SyntheticMergeIsReviewed
  <2>7. CASE flow.synthetic
    <3>1. ASSUME The("review") < The("review_gate"), flow.cycle = 1
          PROVE  Ran(The("review"), "none")
      <4>1. Owed(flow.synthetic, flow.cycle)
          BY <2>7, <3>1 DEF Owed, Ground
      <4>2. Ground(flow.synthetic) = The("review") /\ Mark(flow.synthetic) = "none"
          BY <2>7 DEF Ground, Mark
      <4> QED BY <2>2, <2>3, <4>1, <4>2
    <3> QED BY <2>7, <3>1 DEF MergesAreEarned, VerifiedMerge, SyntheticMergeIsReviewed
  <2> QED BY <2>6, <2>7
<1> QED BY <1>1, <1>2, <1>3, PTL DEF FlowSpec

-----------------------------------------------------------------------------
\* What an ordinary run hands on from phase to phase.

\* The first phases are in their own order.
LEMMA NthOfFirst ==
    ASSUME NEW R, NEW J, NEW m \in Nat, NEW i \in 1..m
    PROVE  Graph(R, J, 1)!Nth(1..m, i) = i
<1> DEFINE UpTo(p) == {q \in 1..m : q <= p}
<1>1. ASSUME NEW p \in 1..m PROVE Cardinality(UpTo(p)) = p
  <2>1. UpTo(p) = 1..p
      OBVIOUS
  <2>2. p \in Int /\ 1 \in Int /\ ~ (1 > p) /\ p - 1 + 1 = p
      OBVIOUS
  <2>3. Cardinality(1..p) = IF 1 > p THEN 0 ELSE p - 1 + 1
      BY <2>2, FS_Interval
  <2> QED BY <2>1, <2>2, <2>3
<1> HIDE DEF UpTo
<1>2. Graph(R, J, 1)!Nth(1..m, i) = CHOOSE p \in 1..m : Cardinality(UpTo(p)) = i
    BY GraphCardinality DEF Graph!Nth, UpTo
<1>3. \A p \in 1..m : Cardinality(UpTo(p)) = i <=> p = i
    BY <1>1
<1> QED BY <1>2, <1>3

\* Every phase before p was tried.
Reached(attempts, p) == \A q \in 1..(p - 1) : \E i \in DOMAIN attempts : attempts[i].phase = q

\* What a cycle carries is every phase before the one it lands at, with what an attempt of
\* it published.
CarriesAll(r, target) ==
    \E keys :
        /\ Carried(Wf, r, target) = AllDone(target - 1, [i \in 1..(target - 1) |-> i], keys)
        /\ \A q \in 1..(target - 1) : \E k \in DOMAIN r.attempts :
               r.attempts[k].phase = q /\ keys[q] = r.attempts[k].published

\* A cycle that lands behind phases that all ran carries every one of them, with what an
\* attempt of it published.
LEMMA CarriedWhole ==
    ASSUME Sound, NEW r, NEW n \in Nat, DOMAIN r.attempts = 1..n,
           \A i \in DOMAIN r.attempts : r.attempts[i].completed,
           NEW target \in DOMAIN Wf.phases, Reached(r.attempts, target)
    PROVE  CarriesAll(r, target)
<1> DEFINE m == target - 1
           R == PhasesOf(Wf, r)
           J == AllJobs(Wf)
<1>1. m \in Nat
    BY Landmarks
<1>2. Finished(r) = 1..n
    BY DEF Finished
<1>3. Kept(r, target) = 1..m
    BY <1>2 DEF Kept, Reached
<1>4. Cardinality(1..m) = m
  <2> HIDE DEF m
  <2>1. m \in Int /\ 1 \in Int /\ (1 > m <=> m = 0) /\ m - 1 + 1 = m
      BY ONLY <1>1
  <2>2. Cardinality(1..m) = IF 1 > m THEN 0 ELSE m - 1 + 1
      BY <2>1, FS_Interval
  <2> QED BY <2>1, <2>2
<1>5. PICK c \in Nat : \E f \in [1..c -> 1..(target - 1)] : \E keys :
          CarriedAs(r, target, c, f, keys)
    BY CarriedBefore, Zenon
<1>6. PICK f \in [1..c -> 1..(target - 1)] : \E keys : CarriedAs(r, target, c, f, keys)
    BY <1>5, Zenon
<1>7. PICK keys : CarriedAs(r, target, c, f, keys)
    BY <1>6, Zenon
<1>7a. /\ Carried(Wf, r, target) = AllDone(c, f, keys)
       /\ c = Cardinality(Kept(r, target))
       /\ \A i \in 1..c :
              /\ f[i] = Graph(R, J, 1)!Nth(Kept(r, target), i)
              /\ f[i] \in Kept(r, target)
              /\ keys[i] = r.attempts[LatestDone(r, f[i])].published
    BY ONLY <1>7, Zenon DEF CarriedAs, R, J
<1>7b. f \in [1..c -> 1..m]
    BY ONLY <1>6 DEF m
<1> HIDE DEF m, R, J
<1>8. c = m
    BY <1>3, <1>4, <1>7a
<1>9. \A i \in 1..m : f[i] = i
    BY <1>1, <1>3, <1>7a, <1>8, NthOfFirst DEF R, J
<1>10. f = [i \in 1..m |-> i]
    BY <1>8, <1>9, <1>7b
<1>11. ASSUME NEW q \in 1..m
       PROVE  \E k \in DOMAIN r.attempts :
                  r.attempts[k].phase = q /\ keys[q] = r.attempts[k].published
  <2> DEFINE of == {i \in 1..n : r.attempts[i].phase = q}
  <2>1. of # {} /\ of \in SUBSET (1..n)
      BY DEF Reached, m
  <2>2. \E k \in of : \A i \in of : i <= k
    <3> HIDE DEF of
    <3> QED BY <2>1, LastPosition
  <2>3. LatestDone(r, q) \in 1..n /\ r.attempts[LatestDone(r, q)].phase = q
      BY <1>2, <2>2 DEF LatestDone
  <2> DEFINE last == LatestDone(r, q)
  <2> HIDE DEF last
  <2>4. keys[q] = r.attempts[last].published
      BY <1>7a, <1>8, <1>9 DEF last
  <2>5. last \in DOMAIN r.attempts /\ r.attempts[last].phase = q
      BY <2>3 DEF last
  <2> QED BY ONLY <2>4, <2>5
<1>12. Carried(Wf, r, target) = AllDone(m, [i \in 1..m |-> i], keys)
    BY ONLY <1>7a, <1>8, <1>10
<1> QED BY ONLY <1>11, <1>12, ZenonT(40) DEF m, CarriesAll

\* The inputs of a phase resolve when every phase before it ran and published what it
\* declares, or was skipped in part.
LEMMA Resolves ==
    ASSUME Sound, NEW p \in DOMAIN Wf.phases, NEW attempts, NEW n \in Nat, DOMAIN attempts = 1..n,
           \A q \in 1..(p - 1) :
               \/ Skipped(attempts, q)
               \/ /\ \E i \in DOMAIN attempts : attempts[i].phase = q
                  /\ \A i \in DOMAIN attempts :
                         attempts[i].phase = q => attempts[i].published = Wf.phases[q].outputs
    PROVE  InputsResolve(Wf, p, attempts)
<1> SUFFICES ASSUME NEW in \in Wf.phases[p].inputs
             PROVE  \E q \in DOMAIN Wf.phases :
                        /\ Wf.phases[q].name = in.phase
                        /\ in.key \in Outputs(attempts, q) \/ Skipped(attempts, q)
    BY DEF InputsResolve
<1>1. PICK q \in 1..(p - 1) : Wf.phases[q].name = in.phase /\ in.key \in Wf.phases[q].outputs
    BY DEF Sound, Registrable, RefsBackwards
<1>2. q \in DOMAIN Wf.phases
    BY Landmarks
<1>3. CASE Skipped(attempts, q)
    BY <1>1, <1>2, <1>3
<1>4. ASSUME NEW k \in DOMAIN attempts, attempts[k].phase = q,
             \A i \in DOMAIN attempts :
                 attempts[i].phase = q => attempts[i].published = Wf.phases[q].outputs
      PROVE  in.key \in Outputs(attempts, q)
  <2> DEFINE with == {i \in DOMAIN attempts : attempts[i].phase = q /\ attempts[i].published # {}}
             last == CHOOSE i \in with : \A j \in with : j <= i
  <2>1. with # {} /\ with \in SUBSET (1..n)
      BY <1>1, <1>4
  <2>2. \E i \in with : \A j \in with : j <= i
    <3> HIDE DEF with
    <3> QED BY <2>1, LastPosition
  <2>3. last \in with
    <3> HIDE DEF with
    <3> QED BY <2>2
  <2>4. attempts[last].published = Wf.phases[q].outputs
    <3> HIDE DEF last
    <3> QED BY <1>4, <2>3
  <2> QED BY <1>1, <2>1, <2>4 DEF Outputs
<1> QED BY <1>1, <1>2, <1>3, <1>4

\* A policy lands behind a phase that the verification it repeats has not reached.
Past == LandsAt > The("verification") + 1

Dense(attempts) ==
    ~Past /\ ~Aborted(attempts) => \A i \in DOMAIN attempts : Reached(attempts, attempts[i].phase)

LeftOut(a) == (a.completed /\ a.concl = "skipped") \/ a.partial

\* In the first cycle the attempts tell which legs were left out.
Legged(attempts, legs, cycle) ==
    cycle = 1 => \A q \in legs : \E i \in DOMAIN attempts : attempts[i].phase = q /\ LeftOut(attempts[i])

\* What an ordinary run is dispatched with: a lease, and a value for each input.
Provided(r) == DOMAIN r = DOMAIN NoRun /\ r.slot = TRUE /\ DOMAIN r.inputs = InputNames(Wf)

AllOver(attempts) == \A i \in DOMAIN attempts : attempts[i].completed

\* Between two phases.
Closed(r) ==
    /\ r.refused = {}
    /\ Dense(r.attempts) /\ Legged(r.attempts, r.legs, r.cycle)
    /\ AllOver(r.attempts)

\* With a phase in flight: after an abort that is a teardown.
Open(r) ==
    /\ r.refused = {}
    /\ Dense(r.attempts) /\ Legged(r.attempts, r.legs, r.cycle)
    /\ \A i \in DOMAIN r.attempts : i # Len(r.attempts) => r.attempts[i].completed
    /\ Aborted(r.attempts) => Wf.phases[Last(r.attempts).phase].purpose = "teardown"

\* The refusals DispatchesResolve admits, of run r.
Published(r) ==
    \A i \in DOMAIN r.attempts :
        r.attempts[i].completed /\ r.attempts[i].phase \notin r.legs =>
            r.attempts[i].published = Wf.phases[r.attempts[i].phase].outputs

Excused(r, refusal) ==
    \/ refusal[1] = "jobs" /\ Wf.phases[refusal[2]].jobs = <<>>
    \/ refusal[1] = "target"
    \/ refusal[1] = "input" /\ r.cycle > 1 /\ r.legs # {}
    \/ refusal[1] = "input" /\ Past /\ ~Reached(r.attempts, refusal[2])

Sent(r) ==
    ~r.synthetic =>
        /\ Provided(r)
        /\ CASE r.state \in {"running", "parked"} -> Open(r)
             [] r.state = "advancing" -> Closed(r)
             [] r.state = "retrying" -> Closed(r) /\ ~Aborted(r.attempts)
             [] OTHER -> Published(r) => \A refusal \in r.refused : Excused(r, refusal)

\* An attempt is added to attempts that are over.
LEMMA OneMoreSent ==
    ASSUME NEW S, NEW attempts \in Seq(S), AllOver(attempts), Dense(attempts),
           NEW legs, NEW cycle, Legged(attempts, legs, cycle),
           NEW a, a.decision \notin Aborts,
           ~Past /\ ~Aborted(attempts) => Reached(attempts, a.phase),
           NEW left, left = legs \/ (left = legs \union {a.phase} /\ LeftOut(a))
    PROVE  LET more == Append(attempts, a)
           IN  /\ Dense(more) /\ Legged(more, left, cycle)
               /\ Aborted(more) => Aborted(attempts)
               /\ \A i \in DOMAIN more : i # Len(more) => more[i].completed
               /\ a.completed => AllOver(more)
               /\ more # <<>> /\ Last(more) = a
<1> DEFINE more == Append(attempts, a)
           n == Len(attempts)
<1>1. /\ n \in Nat /\ DOMAIN attempts = 1..n /\ DOMAIN more = 1..(n + 1) /\ Len(more) = n + 1
      /\ more[n + 1] = a /\ \A i \in 1..n : more[i] = attempts[i] /\ i \in DOMAIN more
      /\ \A i \in DOMAIN more : i \in 1..n \/ i = n + 1
      /\ n + 1 \in DOMAIN more
    OBVIOUS
<1>2. more # <<>> /\ Last(more) = a
    BY LastOfMore
<1> HIDE DEF more, n
<1>3. Aborted(more) => Aborted(attempts)
    BY <1>1 DEF Aborted
<1>4. Aborted(attempts) => Aborted(more)
    BY <1>1 DEF Aborted
<1>5. \A p : Reached(attempts, p) => Reached(more, p)
    BY <1>1 DEF Reached
<1>6. Dense(more)
  <2> SUFFICES ASSUME ~Past, ~Aborted(more), NEW i \in DOMAIN more
               PROVE  Reached(more, more[i].phase)
      BY DEF Dense
  <2>1. CASE i \in 1..n
      BY <1>1, <1>4, <1>5, <2>1 DEF Dense
  <2>2. CASE i = n + 1
      BY <1>1, <1>4, <1>5, <2>2
  <2> QED BY <1>1, <2>1, <2>2
<1>7. Legged(more, left, cycle)
  <2> SUFFICES ASSUME cycle = 1, NEW q \in left
               PROVE  \E i \in DOMAIN more : more[i].phase = q /\ LeftOut(more[i])
      BY DEF Legged
  <2>1. CASE q \in legs
    <3>1. PICK i \in DOMAIN attempts : attempts[i].phase = q /\ LeftOut(attempts[i])
        BY <2>1 DEF Legged
    <3> QED BY <1>1, <3>1
  <2>2. CASE q = a.phase /\ LeftOut(a)
      BY <1>1, <2>2
  <2> QED BY <2>1, <2>2
<1>8. \A i \in DOMAIN more : i # Len(more) => more[i].completed
    BY <1>1 DEF AllOver
<1>9. a.completed => AllOver(more)
    BY <1>1 DEF AllOver
<1> QED BY <1>2, <1>3, <1>6, <1>7, <1>8, <1>9 DEF more

\* The refs of a registered workflow resolve against the inputs its run is given.
LEMMA RefsAlwaysResolve ==
    ASSUME Sound, NEW p \in DOMAIN Wf.phases, NEW inputs, DOMAIN inputs = InputNames(Wf)
    PROVE  RefsResolve(Wf.phases[p], inputs)
<1> SUFFICES ASSUME NEW job \in JobsOf(Wf.phases[p]), NEW r \in Refs(job), r.ref = "inputs"
             PROVE  r.key \in InputNames(Wf)
    BY DEF RefsResolve
<1>1. Wf.phases[p] \in ToSet(Wf.phases)
    BY DEF ToSet
<1>2. r \in Wf.phases[p].workflowRef \union UNION {Refs(j) : j \in JobsOf(Wf.phases[p])}
    OBVIOUS
<1> QED BY <1>1, <1>2 DEF Sound, Registrable, InputRefsDeclared

\* A run is launched, or its phase has no jobs.
LEMMA LaunchedSent ==
    ASSUME Sound, NEW r, ~r.synthetic, Provided(r), Open(r), Last(r.attempts).phase \in DOMAIN Wf.phases,
           NEW leased, leased = TRUE
    PROVE  Sent(Launched(Wf, r, leased))
<1> DEFINE p == Last(r.attempts).phase
           new == [r EXCEPT !.state = "running"]
           none == Refusal(r, "jobs", p)
<1>1. {"state", "refused", "attempts", "synthetic", "cycle", "slot", "inputs", "legs"} \subseteq DOMAIN r
    BY DEF Provided, NoRun
<1>2. RefsResolve(Wf.phases[p], r.inputs)
    BY RefsAlwaysResolve DEF Provided
<1>3. Launched(Wf, r, leased) = IF Wf.phases[p].jobs = <<>> THEN none ELSE new
    BY <1>2 DEF Launched
<1>4. Sent(new)
  <2>1. /\ DOMAIN new = DOMAIN r /\ new.state = "running" /\ new.attempts = r.attempts
        /\ new.refused = r.refused /\ new.legs = r.legs /\ new.cycle = r.cycle /\ new.slot = r.slot
        /\ new.inputs = r.inputs
      BY <1>1
  <2> HIDE DEF new
  <2>2. Provided(new) /\ Open(new)
      BY <2>1 DEF Provided, Open
  <2> QED BY <2>1, <2>2 DEF Sent
<1>5. ASSUME Wf.phases[p].jobs = <<>> PROVE Sent(none)
  <2>1. /\ DOMAIN none = DOMAIN r /\ none.state = "over" /\ none.refused = {<<"jobs", p>>}
        /\ none.slot = r.slot /\ none.inputs = r.inputs
      BY <1>1 DEF Refusal
  <2> HIDE DEF none, p
  <2>2. Provided(none)
      BY <2>1 DEF Provided
  <2>3. \A refusal \in none.refused : Excused(none, refusal)
      BY <1>5, <2>1 DEF Excused
  <2> QED BY <2>1, <2>2, <2>3 DEF Sent
<1> HIDE DEF new, none
<1> QED BY <1>3, <1>4, <1>5

\* A phase is opened between two phases.
LEMMA OpenedSent ==
    ASSUME Sound, NEW r, NEW S, r.attempts \in Seq(S), Provided(r), Closed(r),
           NEW p \in DOMAIN Wf.phases, Aborted(r.attempts) => Wf.phases[p].purpose = "teardown",
           ~Past /\ ~Aborted(r.attempts) => Reached(r.attempts, p)
    PROVE  /\ Provided(Opened(Wf, r, p)) /\ Open(Opened(Wf, r, p))
           /\ Last(Opened(Wf, r, p).attempts).phase = p
           /\ Opened(Wf, r, p).synthetic = r.synthetic
<1> DEFINE skips == Graph(PhasesOf(Wf, r), AllJobs(Wf), 1)!SkippedJobs(p)
           a == [Fresh(p) EXCEPT !.partial = skips # {}]
           left == IF skips # {} THEN r.legs \union {p} ELSE r.legs
           new == Opened(Wf, r, p)
<1>1. {"state", "refused", "attempts", "synthetic", "cycle", "slot", "inputs", "legs"} \subseteq DOMAIN r
    BY DEF Provided, NoRun
<1>2. /\ DOMAIN new = DOMAIN r /\ new.synthetic = r.synthetic /\ new.cycle = r.cycle
      /\ new.slot = r.slot /\ new.inputs = r.inputs /\ new.refused = r.refused
      /\ new.attempts = Append(r.attempts, a) /\ new.legs = left
    BY <1>1 DEF Opened
<1> HIDE DEF skips
<1>3. a.phase = p /\ a.decision = "none" /\ (a.partial <=> skips # {})
    BY DEF Fresh
<1> HIDE DEF a
<1>4. left = r.legs \/ (left = r.legs \union {a.phase} /\ LeftOut(a))
  <2>1. CASE skips = {}
      BY <2>1
  <2>2. CASE skips # {}
    <3>1. LeftOut(a)
        BY <1>3, <2>2 DEF LeftOut
    <3> QED BY <1>3, <2>2, <3>1
  <2> QED BY <2>1, <2>2
<1> HIDE DEF left, new
<1>6. a.decision \notin Aborts
    BY <1>3 DEF Aborts
<1>7. AllOver(r.attempts) /\ Dense(r.attempts) /\ Legged(r.attempts, r.legs, r.cycle) /\ r.refused = {}
    BY DEF Closed
<1>8. ~Past /\ ~Aborted(r.attempts) => Reached(r.attempts, a.phase)
    BY <1>3
<1> DEFINE more == Append(r.attempts, a)
<1>9. /\ Dense(more) /\ Legged(more, left, r.cycle)
      /\ Aborted(more) => Aborted(r.attempts)
      /\ \A i \in DOMAIN more : i # Len(more) => more[i].completed
      /\ Last(more) = a
    BY <1>4, <1>6, <1>7, <1>8, OneMoreSent
<1> HIDE DEF more
<1>10. new.attempts = more
    BY <1>2 DEF more
<1>11. Provided(new)
    BY <1>2 DEF Provided
<1>12. Open(new)
    BY <1>2, <1>3, <1>7, <1>9, <1>10 DEF Open
<1> QED BY <1>2, <1>3, <1>9, <1>10, <1>11, <1>12 DEF new

\* What the attempts of a run leave to a phase behind them, with what a cycle carries of
\* it or without, resolves the phase's inputs: where it does not, that is excused.
LEMMA InputExcused ==
    ASSUME Sound, NEW r, r.cycle \in Nat \ {0}, NEW n \in Nat, DOMAIN r.attempts = 1..n,
           AllOver(r.attempts), Legged(r.attempts, r.legs, r.cycle),
           NEW p \in DOMAIN Wf.phases, ~Past => Reached(r.attempts, p),
           NEW given, NEW m \in Nat, DOMAIN given = 1..m,
           \A i \in DOMAIN r.attempts : i \in DOMAIN given /\ given[i] = r.attempts[i],
           Reached(r.attempts, p) =>
               \A i \in DOMAIN given : \E k \in DOMAIN r.attempts :
                   /\ r.attempts[k].phase = given[i].phase
                   /\ r.attempts[k].published = given[i].published,
           ~InputsResolve(Wf, p, given), Published(r)
    PROVE  Excused(r, <<"input", p>>)
<1> SUFFICES ASSUME ~ (r.cycle > 1 /\ r.legs # {}), Reached(r.attempts, p)
             PROVE  FALSE
    BY DEF Excused
<1>1. ASSUME NEW q \in 1..(p - 1)
      PROVE  \/ Skipped(given, q)
             \/ /\ \E i \in DOMAIN given : given[i].phase = q
                /\ \A i \in DOMAIN given :
                       given[i].phase = q => given[i].published = Wf.phases[q].outputs
  <2>1. CASE q \in r.legs
    <3>1. r.cycle = 1
        BY <2>1
    <3>2. PICK k \in DOMAIN r.attempts : r.attempts[k].phase = q /\ LeftOut(r.attempts[k])
        BY <2>1, <3>1 DEF Legged
    <3>3. Skipped(given, q)
        BY <3>2 DEF Skipped, LeftOut
    <3> QED BY <3>3
  <2>2. CASE q \notin r.legs
    <3>1. \E i \in DOMAIN given : given[i].phase = q
        BY DEF Reached
    <3>2. ASSUME NEW i \in DOMAIN given, given[i].phase = q
          PROVE  given[i].published = Wf.phases[q].outputs
      <4>1. PICK k \in DOMAIN r.attempts : /\ r.attempts[k].phase = q
                                           /\ r.attempts[k].published = given[i].published
          BY <3>2
      <4> QED BY <2>2, <4>1 DEF Published, AllOver
    <3> QED BY <3>1, <3>2
  <2> QED BY <2>1, <2>2
<1>2. InputsResolve(Wf, p, given)
    BY <1>1, Resolves
<1> QED BY <1>2

\* A run that is refused for an input is over, excused.
LEMMA RefusedSent ==
    ASSUME NEW r, ~r.synthetic, Provided(r), NEW why, NEW p,
           Published(r) => Excused(r, <<why, p>>)
    PROVE  Sent(Refusal(r, why, p))
<1> DEFINE new == Refusal(r, why, p)
<1>1. {"state", "refused", "attempts", "synthetic", "cycle", "slot", "inputs", "legs"} \subseteq DOMAIN r
    BY DEF Provided, NoRun
<1>2. /\ DOMAIN new = DOMAIN r /\ new.state = "over" /\ new.refused = {<<why, p>>}
      /\ new.slot = r.slot /\ new.inputs = r.inputs /\ new.attempts = r.attempts
      /\ new.legs = r.legs /\ new.cycle = r.cycle
    BY <1>1 DEF Refusal
<1> HIDE DEF new
<1>3. Provided(new)
    BY <1>2 DEF Provided
<1>4. Published(new) => Published(r)
    BY <1>2 DEF Published
<1>5. Excused(r, <<why, p>>) => Excused(new, <<why, p>>)
    BY <1>2 DEF Excused
<1>6. Sent(new)
    BY <1>2, <1>3, <1>4, <1>5 DEF Sent
<1> QED BY <1>6 DEF new

\* A run between two phases goes on to the next, or to a teardown.
LEMMA ForwardSent ==
    ASSUME Sound, NEW r, Core(r), ~r.synthetic, Provided(r), Closed(r), r.state = "advancing",
           NEW p \in DOMAIN Wf.phases,
           Aborted(r.attempts) => Wf.phases[p].purpose = "teardown",
           ~Past /\ ~Aborted(r.attempts) => Reached(r.attempts, p)
    PROVE  Sent(Forward(Wf, r, p))
<1> DEFINE R == PhasesOf(Wf, r)
           J == AllJobs(Wf)
           skip == [Fresh(p) EXCEPT !.completed = TRUE, !.concl = "skipped", !.decision = "advance"]
           parked == [r EXCEPT !.attempts = Append(@, Fresh(p)), !.state = "parked"]
           passed == [r EXCEPT !.attempts = Append(@, skip), !.legs = @ \union {p}]
<1>1. {"state", "refused", "attempts", "synthetic", "cycle", "slot", "inputs", "legs"} \subseteq DOMAIN r
    BY DEF Provided, NoRun
<1>2. PICK S : r.attempts \in Seq(S)
    BY DEF Core, Earned
<1>3. AllOver(r.attempts) /\ Dense(r.attempts) /\ Legged(r.attempts, r.legs, r.cycle) /\ r.refused = {}
    BY DEF Closed
<1>4. Sent(parked)
  <2>1. /\ DOMAIN parked = DOMAIN r /\ parked.state = "parked" /\ parked.refused = r.refused
        /\ parked.slot = r.slot /\ parked.inputs = r.inputs /\ parked.legs = r.legs
        /\ parked.cycle = r.cycle /\ parked.attempts = Append(r.attempts, Fresh(p))
      BY <1>1
  <2>2. Fresh(p).phase = p /\ Fresh(p).decision \notin Aborts
      BY DEF Fresh, Aborts
  <2> HIDE DEF parked
  <2> DEFINE a == Fresh(p)
             more == Append(r.attempts, a)
  <2> HIDE DEF a
  <2>3. a.phase = p /\ a.decision \notin Aborts
      BY <2>2 DEF a
  <2>4. ~Past /\ ~Aborted(r.attempts) => Reached(r.attempts, a.phase)
      BY <2>3
  <2>5. /\ Dense(more) /\ Legged(more, r.legs, r.cycle)
        /\ Aborted(more) => Aborted(r.attempts)
        /\ \A i \in DOMAIN more : i # Len(more) => more[i].completed
        /\ Last(more) = a
      BY <1>2, <1>3, <2>3, <2>4, OneMoreSent
  <2>6. parked.attempts = more
      BY <2>1 DEF a
  <2> HIDE DEF more
  <2>7. Provided(parked) /\ Open(parked)
      BY <1>3, <2>1, <2>3, <2>5, <2>6 DEF Provided, Open
  <2> QED BY <2>1, <2>7 DEF Sent
<1>5. Sent(passed)
  <2>1. /\ DOMAIN passed = DOMAIN r /\ passed.state = r.state /\ passed.refused = r.refused
        /\ passed.slot = r.slot /\ passed.inputs = r.inputs /\ passed.legs = r.legs \union {p}
        /\ passed.cycle = r.cycle /\ passed.attempts = Append(r.attempts, skip)
      BY <1>1
  <2>2. skip.phase = p /\ skip.completed /\ skip.concl = "skipped" /\ skip.decision = "advance"
      BY DEF Fresh
  <2> DEFINE more == Append(r.attempts, skip)
  <2> HIDE DEF passed, skip
  <2>3. skip.decision \notin Aborts /\ LeftOut(skip)
      BY <2>2 DEF Aborts, LeftOut
  <2>4. ~Past /\ ~Aborted(r.attempts) => Reached(r.attempts, skip.phase)
      BY <2>2
  <2> DEFINE left == passed.legs
  <2>5. left = r.legs \/ (left = r.legs \union {skip.phase} /\ LeftOut(skip))
      BY <2>1, <2>2, <2>3
  <2> HIDE DEF left
  <2>6. /\ Dense(more) /\ Legged(more, left, r.cycle)
        /\ skip.completed => AllOver(more)
      BY <1>2, <1>3, <2>3, <2>4, <2>5, OneMoreSent
  <2>7. passed.attempts = more
      BY <2>1
  <2> HIDE DEF more
  <2>8. Provided(passed) /\ Closed(passed)
      BY <1>3, <2>1, <2>2, <2>6, <2>7 DEF Provided, Closed, left
  <2> QED BY <2>1, <2>8 DEF Sent
<1>6. Sent(Launched(Wf, Opened(Wf, r, p), r.slot))
    BY <1>2, OpenedSent, LaunchedSent DEF Provided
<1>7. ASSUME ~InputsResolve(Wf, p, r.attempts)
      PROVE  Sent(Refusal(r, "input", p))
  <2>1. ~Aborted(r.attempts)
    <3>1. Wf.phases[p].purpose = "teardown" => Wf.phases[p].inputs = {}
        BY DEF Sound, Registrable, ToSet, PurposeValid
    <3> QED BY <1>7, <3>1 DEF InputsResolve
  <2>2. Len(r.attempts) \in Nat /\ DOMAIN r.attempts = 1..Len(r.attempts)
      BY <1>2
  <2>3. r.cycle \in Nat \ {0}
      BY DEF Core
  <2> DEFINE as == r.attempts
             n == Len(as)
  <2>4. \A i \in DOMAIN as : \E k \in DOMAIN as :
            as[k].phase = as[i].phase /\ as[k].published = as[i].published
      OBVIOUS
  <2>5. Published(r) => Excused(r, <<"input", p>>)
    <3> SUFFICES ASSUME Published(r) PROVE Excused(r, <<"input", p>>)
        OBVIOUS
    <3> HIDE DEF n
    <3>1. n \in Nat /\ DOMAIN as = 1..n
        BY <2>2 DEF n
    <3> QED BY <1>3, <1>7, <2>1, <2>3, <2>4, <3>1, InputExcused
  <2> QED BY <2>5, RefusedSent
<1>8. \/ ~InputsResolve(Wf, p, r.attempts) /\ Forward(Wf, r, p) = Refusal(r, "input", p)
      \/ Forward(Wf, r, p) = parked
      \/ Forward(Wf, r, p) = Launched(Wf, Opened(Wf, r, p), r.slot)
      \/ Forward(Wf, r, p) = passed
    BY DEF Forward
<1> HIDE DEF R, J, parked, passed
<1> QED BY <1>4, <1>5, <1>6, <1>7, <1>8

\* The completion of the phase in flight closes its attempt.
LEMMA CompleteSent ==
    ASSUME Sound, RunOK(flow), Sent(flow), ~flow.synthetic, Complete
    PROVE  Sent(flow')
<1> DEFINE as == flow.attempts
           n == Len(as)
           last == Last(as)
           R == PhasesOf(Wf, flow)
           J == AllJobs(Wf)
<1>1. PICK S : as \in Seq(S)
    BY DEF RunOK, Core, Earned
<1>2. flow.state = "running" /\ as # <<>> /\ ~last.completed
    BY DEF Complete, RunOK
<1>3. n \in Nat \ {0} /\ DOMAIN as = 1..n /\ n \in DOMAIN as /\ last = as[n]
    BY <1>1, <1>2 DEF Last
<1>4. AttemptOK(last, flow.synthetic, flow.cycle)
    BY <1>3 DEF RunOK, Core, Earned
<1>5. PICK end \in PhaseEnds(Wf, last.phase, last.partial) :
        LET closed    == [last EXCEPT !.completed = TRUE, !.concl = end.concl,
                                     !.verif = end.verif, !.published = end.keys]
            attempts == [as EXCEPT ![n] = closed]
            verdict  == Graph(R, J, 1)!Decide(attempts, flow.cycle, 0)
        IN  flow' = [flow EXCEPT !.attempts = [attempts EXCEPT ![Len(attempts)].decision = verdict],
                                 !.state = IF verdict = "retry" THEN "retrying" ELSE "advancing"]
    BY DEF Complete
<1> DEFINE closed   == [last EXCEPT !.completed = TRUE, !.concl = end.concl,
                                    !.verif = end.verif, !.published = end.keys]
           attempts == [as EXCEPT ![n] = closed]
           verdict  == Graph(R, J, 1)!Decide(attempts, flow.cycle, 0)
           new      == [attempts EXCEPT ![Len(attempts)].decision = verdict]
           judged   == [closed EXCEPT !.decision = verdict]
<1>6. flow' = [flow EXCEPT !.attempts = new,
                           !.state = IF verdict = "retry" THEN "retrying" ELSE "advancing"]
    BY <1>5
<1> HIDE DEF last
<1>7. DOMAIN last = DOMAIN Fresh(0) /\ last.phase \in DOMAIN Wf.phases
    BY <1>4 DEF AttemptOK
<1>8. /\ DOMAIN closed = DOMAIN Fresh(0) /\ closed.completed = TRUE /\ closed.phase = last.phase
      /\ closed.partial = last.partial
    BY <1>7 DEF Fresh
<1> HIDE DEF closed
<1>9. Len(attempts) = n /\ attempts[n] = closed
    BY <1>1, <1>3
<1>10. verdict = "retry" => R[last.phase].verify
  <2> HIDE DEF attempts, R, J
  <2> QED BY <1>8, <1>9, VerdictOf
<1> HIDE DEF verdict
<1>11. /\ judged.completed = TRUE /\ judged.phase = last.phase /\ judged.partial = last.partial
       /\ judged.decision = verdict
    BY <1>8 DEF Fresh
<1>12. new = [attempts EXCEPT ![n] = judged]
    BY <1>9
<1> HIDE DEF judged
<1>13. /\ DOMAIN new = 1..n /\ new[n] = judged /\ \A i \in 1..n : i # n => new[i] = as[i]
    BY <1>1, <1>3, <1>12
<1> HIDE DEF new, attempts
<1>14. R[last.phase].verify <=> last.phase = The("verification")
    BY <1>7, GraphOfRun, Landmarks
<1>15. Open(flow) /\ Provided(flow)
    BY <1>2 DEF Sent
<1>16. \A i \in 1..n : new[i].phase = as[i].phase
    BY <1>3, <1>11, <1>13
<1>17. Aborted(as) => Aborted(new)
  <2> SUFFICES ASSUME NEW i \in DOMAIN as, as[i].decision \in Aborts
               PROVE  Aborted(new)
      BY DEF Aborted
  <2>1. as[i].completed
      BY DEF RunOK, Core, Earned, AttemptOK, Aborts
  <2>2. i # n
      BY <1>2, <1>3, <2>1
  <2> HIDE DEF as, n
  <2> QED BY <1>3, <1>13, <2>2 DEF Aborted
<1>18. verdict = "retry" => ~Aborted(new)
  <2> SUFFICES ASSUME verdict = "retry" PROVE ~Aborted(new)
      OBVIOUS
  <2>1. last.phase = The("verification")
      BY <1>10, <1>14
  <2>2. Wf.phases[last.phase].purpose # "teardown"
      BY <2>1, Landmarks
  <2>3. ~Aborted(as)
      BY <1>15, <2>2 DEF Open, last
  <2>4. \A i \in 1..n : new[i].decision \notin Aborts
      BY <1>3, <1>11, <1>13, <2>3 DEF Aborted, Aborts
  <2> QED BY <1>13, <2>4 DEF Aborted
<1>19. \A i \in 1..n : LeftOut(as[i]) => LeftOut(new[i])
  <2> SUFFICES ASSUME NEW i \in 1..n, LeftOut(as[i]) PROVE LeftOut(new[i])
      OBVIOUS
  <2>1. CASE i = n
      BY <1>2, <1>3, <1>11, <1>13, <2>1 DEF LeftOut
  <2>2. CASE i # n
      BY <1>13, <2>2
  <2> QED BY <2>1, <2>2
<1> HIDE DEF as
<1>20. Dense(new)
  <2>1. Dense(as)
      BY <1>15 DEF Open, as
  <2> QED BY <1>3, <1>13, <1>16, <1>17, <2>1 DEF Dense, Reached
<1>21. Legged(new, flow.legs, flow.cycle)
  <2>1. Legged(as, flow.legs, flow.cycle)
      BY <1>15 DEF Open, as
  <2>2. DOMAIN as = 1..n /\ DOMAIN new = 1..n
      BY <1>3, <1>13
  <2> HIDE DEF n
  <2> SUFFICES ASSUME flow.cycle = 1, NEW q \in flow.legs
               PROVE  \E i \in DOMAIN new : new[i].phase = q /\ LeftOut(new[i])
      BY DEF Legged
  <2>3. PICK i \in DOMAIN as : as[i].phase = q /\ LeftOut(as[i])
      BY <2>1 DEF Legged
  <2>4. i \in DOMAIN new /\ new[i].phase = q /\ LeftOut(new[i])
      BY ONLY <1>16, <1>19, <2>2, <2>3
  <2> QED BY ONLY <2>4
<1>22. AllOver(new)
  <2>1. \A i \in DOMAIN as : i # n => as[i].completed
      BY <1>15 DEF Open, as, n
  <2> QED BY <1>3, <1>11, <1>13, <2>1 DEF AllOver
<1>23. {"state", "refused", "attempts", "synthetic", "cycle", "slot", "inputs", "legs"} \subseteq DOMAIN flow
    BY <1>15 DEF Provided, NoRun
<1>24. /\ DOMAIN flow' = DOMAIN flow /\ flow'.attempts = new
       /\ flow'.cycle = flow.cycle /\ flow'.slot = flow.slot /\ flow'.inputs = flow.inputs
       /\ flow'.legs = flow.legs /\ flow'.refused = flow.refused
       /\ flow'.state = IF verdict = "retry" THEN "retrying" ELSE "advancing"
    BY <1>6, <1>23
<1>25. Provided(flow')
    BY <1>15, <1>24 DEF Provided
<1>26. Closed(flow')
    BY <1>15, <1>20, <1>21, <1>22, <1>24 DEF Closed, Open
<1>27. \/ flow'.state = "advancing"
       \/ flow'.state = "retrying" /\ ~Aborted(flow'.attempts)
    BY <1>18, <1>24
<1> HIDE DEF R, J
<1> QED BY <1>25, <1>26, <1>27 DEF Sent

\* A run goes on to its next phase, or is over.
LEMMA AdvanceSent ==
    ASSUME Sound, RunOK(flow), Sent(flow), ~flow.synthetic, Advance
    PROVE  Sent(flow')
<1> DEFINE as == flow.attempts
           verdict == Last(as).decision
           target == Graph(PhasesOf(Wf, flow), AllJobs(Wf), 1)!DispatchTarget(as, verdict)
           over == [flow EXCEPT !.state = "over"]
<1>1. /\ flow.state = "advancing" /\ as # <<>> /\ verdict \in {"advance"} \union Aborts /\ Core(flow)
    BY DEF Advance, RunOK
<1>2. flow' = IF target = 0 THEN over ELSE Forward(Wf, flow, target)
    BY DEF Advance
<1>3. PICK S : as \in Seq(S)
    BY <1>1 DEF Core, Earned
<1>4. Len(as) \in Nat /\ DOMAIN as = 1..Len(as) /\ Len(as) \in DOMAIN as
    BY <1>1, <1>3
<1>5. verdict = "advance" \/ Aborted(as)
    BY <1>1, <1>4 DEF Aborted, Last
<1>6. \A i \in DOMAIN as : as[i].completed <=> as[i].decision # "none"
    BY <1>1 DEF Core, Earned, AttemptOK
<1>7. Provided(flow) /\ Closed(flow)
    BY <1>1 DEF Sent
<1>8. Sent(over)
  <2>1. {"state", "refused", "attempts", "synthetic", "cycle", "slot", "inputs", "legs"} \subseteq DOMAIN flow
      BY <1>7 DEF Provided, NoRun
  <2>2. /\ DOMAIN over = DOMAIN flow /\ over.state = "over" /\ over.refused = flow.refused
        /\ over.slot = flow.slot /\ over.inputs = flow.inputs
      BY <2>1
  <2> HIDE DEF over
  <2>3. over.refused = {} /\ Provided(over)
      BY <1>7, <2>2 DEF Closed, Provided
  <2> QED BY <2>2, <2>3 DEF Sent
<1>9. ASSUME target # 0
      PROVE  /\ target \in DOMAIN Wf.phases
             /\ IF Aborted(as) THEN Wf.phases[target].purpose = "teardown"
                ELSE \E i \in DOMAIN as : as[i].phase = target - 1 /\ as[i].decision = "advance"
  <2> HIDE DEF as, verdict
  <2>1. target # 0
      BY <1>9
  <2> QED BY ONLY Sound, <1>4, <1>5, <1>6, <2>1, TargetFollows, Zenon
<1> HIDE DEF target, verdict
<1>10. ASSUME target # 0, ~Past, ~Aborted(as)
       PROVE  Reached(as, target)
  <2>1. PICK i \in DOMAIN as : as[i].phase = target - 1
      BY <1>9, <1>10
  <2>2. target \in Nat
      BY <1>9, <1>10, Landmarks
  <2>3. Reached(as, target - 1)
      BY <1>7, <1>10, <2>1 DEF Closed, Dense
  <2> SUFFICES ASSUME NEW q \in 1..(target - 1)
               PROVE  \E k \in DOMAIN as : as[k].phase = q
      BY DEF Reached
  <2>4. q = target - 1 \/ q \in 1..(target - 1 - 1)
      BY <2>2
  <2> HIDE DEF as
  <2> QED BY <2>1, <2>3, <2>4 DEF Reached
<1>11. target # 0 => Sent(Forward(Wf, flow, target))
    BY <1>1, <1>7, <1>9, <1>10, ForwardSent
<1> QED BY <1>2, <1>8, <1>11

\* A parked merge is launched with the attempt that was parked.
LEMMA ApproveSent ==
    ASSUME Sound, RunOK(flow), Sent(flow), ~flow.synthetic, ApproveReview
    PROVE  Sent(flow')
<1>1. Provided(flow) /\ Open(flow) /\ flow.attempts # <<>> /\ Core(flow)
    BY DEF ApproveReview, Sent, RunOK
<1>2. Last(flow.attempts).phase \in DOMAIN Wf.phases
  <2>1. PICK S : flow.attempts \in Seq(S)
      BY <1>1 DEF Core, Earned
  <2>2. Len(flow.attempts) \in DOMAIN flow.attempts
      BY <1>1, <2>1
  <2>3. AttemptOK(Last(flow.attempts), flow.synthetic, flow.cycle)
      BY <1>1, <2>2 DEF Core, Earned, Last
  <2> QED BY <2>3 DEF AttemptOK
<1>3. flow.slot = TRUE
    BY <1>1 DEF Provided
<1>4. Sent(Launched(Wf, flow, flow.slot))
    BY <1>1, <1>2, <1>3, LaunchedSent
<1> QED BY <1>4 DEF ApproveReview

\* An ordinary dispatch has a lease, and a value for every input.
LEMMA DispatchRunSent ==
    ASSUME Sound, DispatchRun
    PROVE  Sent(flow')
<1>1. PICK given \in CallerInputs, preserve \in BOOLEAN, queued \in BOOLEAN :
        LET run == [NoRun EXCEPT !.number = flow.number + 1, !.cycle = 1, !.slot = TRUE,
                                 !.inputs = RunInputs(Wf, given),
                                 !.preserve = preserve /\ queued]
        IN  flow' = [Launched(Wf, Opened(Wf, run, 1), TRUE) EXCEPT !.preserve = preserve]
    BY DEF DispatchRun
<1> DEFINE run == [NoRun EXCEPT !.number = flow.number + 1, !.cycle = 1, !.slot = TRUE,
                                !.inputs = RunInputs(Wf, given),
                                !.preserve = preserve /\ queued]
           opened == Opened(Wf, run, 1)
           launched == Launched(Wf, opened, TRUE)
<1>2. /\ DOMAIN run = DOMAIN NoRun /\ run.synthetic = FALSE /\ run.cycle = 1 /\ run.attempts = <<>>
      /\ run.slot = TRUE /\ run.inputs = RunInputs(Wf, given) /\ run.legs = {} /\ run.refused = {}
    BY DEF NoRun
<1> HIDE DEF run
<1>3. Provided(run)
    BY <1>2 DEF Provided, RunInputs
<1>4. Closed(run)
    BY <1>2 DEF Closed, Dense, Legged, AllOver
<1>5. 1 \in DOMAIN Wf.phases
    BY Landmarks DEF Sound, Registrable
<1>6. run.attempts \in Seq({})
    BY <1>2
<1>7. Reached(run.attempts, 1) /\ ~Aborted(run.attempts)
    BY <1>2 DEF Reached, Aborted
<1>8. /\ Provided(opened) /\ Open(opened) /\ Last(opened.attempts).phase = 1
      /\ opened.synthetic = run.synthetic
    BY <1>3, <1>4, <1>5, <1>6, <1>7, OpenedSent
<1> HIDE DEF opened
<1>9. ~opened.synthetic
    BY <1>2, <1>8, Zenon
<1>10. Sent(launched)
    BY <1>5, <1>8, <1>9, LaunchedSent
<1>11. flow' = [launched EXCEPT !.preserve = preserve]
    BY <1>1 DEF run, opened
<1>12. DOMAIN launched = DOMAIN opened /\ launched.synthetic = opened.synthetic
  <2>1. {"state", "refused", "synthetic"} \subseteq DOMAIN opened
      BY <1>8 DEF Provided, NoRun
  <2> QED BY <2>1 DEF Launched, Refusal
<1> HIDE DEF launched
<1>13. /\ DOMAIN flow' = DOMAIN launched /\ flow'.attempts = launched.attempts
       /\ flow'.synthetic = launched.synthetic /\ flow'.cycle = launched.cycle
       /\ flow'.state = launched.state /\ flow'.slot = launched.slot
       /\ flow'.inputs = launched.inputs /\ flow'.legs = launched.legs
       /\ flow'.refused = launched.refused
  <2>1. {"state", "refused", "attempts", "synthetic", "cycle", "slot", "inputs", "legs"}
            \subseteq DOMAIN launched
      BY <1>8, <1>12 DEF Provided, NoRun
  <2> QED BY <1>11, <2>1
<1> QED BY <1>10, <1>13 DEF Sent, Provided, Open, Closed, Published, Excused

\* The parts of two sequences that are joined.
LEMMA Joined ==
    ASSUME NEW S, NEW s \in Seq(S), NEW T, NEW t \in Seq(T)
    PROVE  /\ DOMAIN (s \o t) = 1..(Len(s) + Len(t))
           /\ \A i \in DOMAIN s : i \in DOMAIN (s \o t) /\ (s \o t)[i] = s[i]
           /\ \A i \in DOMAIN (s \o t) :
                  i \in DOMAIN s \/ \E k \in DOMAIN t : (s \o t)[i] = t[k]
<1> DEFINE n == Len(s)
           m == Len(t)
           both == s \o t
<1>1. n \in Nat /\ m \in Nat /\ DOMAIN s = 1..n /\ DOMAIN t = 1..m
    OBVIOUS
<1>2. DOMAIN both = 1..(n + m)
    OBVIOUS
<1>3. \A i \in 1..n : both[i] = s[i]
    OBVIOUS
<1>4. \A i \in 1..(n + m) : ~ (i <= n) => both[i] = t[i - n]
    OBVIOUS
<1> HIDE DEF n, m, both
<1>5. \A i \in 1..n : i \in 1..(n + m)
    BY <1>1
<1>6. \A i \in 1..(n + m) : i \in 1..n \/ (~ (i <= n) /\ i - n \in 1..m)
    BY <1>1
<1>7. \A i \in 1..(n + m) : i \in 1..n \/ \E k \in 1..m : both[i] = t[k]
    BY <1>4, <1>6
<1>8. /\ DOMAIN both = 1..(n + m)
      /\ \A i \in DOMAIN s : i \in DOMAIN both /\ both[i] = s[i]
      /\ \A i \in DOMAIN both : i \in DOMAIN s \/ \E k \in DOMAIN t : both[i] = t[k]
    BY <1>1, <1>2, <1>3, <1>5, <1>7
<1> QED BY <1>8 DEF both, n, m

\* A new cycle starts with what it carries, and the phase the policy lands at.
LEMMA RetrySent ==
    ASSUME Sound, RunOK(flow), Sent(flow), ~flow.synthetic, Retry
    PROVE  Sent(flow')
<1> DEFINE v == The("verification")
           R == PhasesOf(Wf, flow)
           J == AllJobs(Wf)
           as == flow.attempts
           target == Graph(R, J, 1)!RetryTarget(v)
           carry == Carried(Wf, flow, target)
           cycle == [flow EXCEPT !.attempts = carry, !.cycle = @ + 1]
           given == as \o carry
<1>1. Core(flow) /\ Last(as).phase = v /\ flow' = Recycled(Wf, flow, v) /\ as # <<>>
    BY DEF Retry, RunOK
<1>2. Provided(flow) /\ Closed(flow) /\ ~Aborted(as)
    BY DEF Retry, Sent
<1>3. target = IF LandsAt = 0 THEN 1 ELSE LandsAt
  <2>1. R[v].policy.landsAt = LandsAt
      BY GraphOfRun, Landmarks DEF LandsAt
  <2> HIDE DEF R, J
  <2> QED BY <2>1 DEF Graph!RetryTarget
<1>4. PICK S : as \in Seq(S)
    BY <1>1 DEF Core, Earned
<1>5. Len(as) \in Nat /\ DOMAIN as = 1..Len(as) /\ Len(as) \in DOMAIN as /\ as[Len(as)].phase = v
    BY <1>1, <1>4 DEF Last
<1>6. flow.slot = TRUE
    BY <1>2 DEF Provided
<1> HIDE DEF R, J
<1>7. \/ target \notin DOMAIN Wf.phases /\ flow' = Refusal(flow, "target", target)
      \/ target \in DOMAIN Wf.phases /\ ~InputsResolve(Wf, target, given)
         /\ flow' = Refusal(flow, "input", target)
      \/ target \in DOMAIN Wf.phases /\ flow' = Launched(Wf, Opened(Wf, cycle, target), TRUE)
    BY <1>1, <1>6 DEF Recycled, R, J
<1>8. Sent(Refusal(flow, "target", target))
  <2>1. Excused(flow, <<"target", target>>)
      BY DEF Excused
  <2> HIDE DEF target
  <2> QED BY <1>2, <2>1, RefusedSent
<1> HIDE DEF target
<1>9. ASSUME target \in DOMAIN Wf.phases, ~Past
      PROVE  Reached(as, target)
  <2>1. v \in Nat /\ target \in Nat /\ v >= 1
      BY <1>9, Landmarks
  <2>2. target <= v + 1
    <3> HIDE DEF v
    <3>1. ~ (LandsAt > v + 1)
        BY <1>9 DEF Past, v
    <3> DEFINE lands == LandsAt
    <3>2. target = IF lands = 0 THEN 1 ELSE lands
        BY <1>3
    <3>3. ~ (lands > v + 1)
        BY <3>1
    <3> HIDE DEF lands
    <3>4. CASE lands = 0
        BY ONLY <2>1, <3>2, <3>4
    <3>5. CASE lands # 0
      <4>1. ~ (target > v + 1)
          BY ONLY <3>2, <3>3, <3>5
      <4> QED BY ONLY <2>1, <4>1
    <3> QED BY <3>4, <3>5
  <2>3. Reached(as, v)
      BY <1>2, <1>5, <1>9 DEF Closed, Dense
  <2> HIDE DEF v, as
  <2> SUFFICES ASSUME NEW q \in 1..(target - 1)
               PROVE  \E k \in DOMAIN as : as[k].phase = q
      BY DEF Reached
  <2>4. q = v \/ q \in 1..(v - 1)
      BY <2>1, <2>2
  <2> QED BY <1>5, <2>3, <2>4 DEF Reached
<1>10. AllOver(as) /\ Legged(as, flow.legs, flow.cycle) /\ flow.refused = {}
    BY <1>2 DEF Closed
<1>11. ASSUME target \in DOMAIN Wf.phases, Reached(as, target)
       PROVE  CarriesAll(flow, target)
  <2> DEFINE n == Len(as)
  <2>1. n \in Nat /\ DOMAIN as = 1..n
      BY <1>5
  <2>2. \A i \in DOMAIN as : as[i].completed
      BY <1>10 DEF AllOver
  <2> HIDE DEF n
  <2>3. target \in DOMAIN Wf.phases /\ Reached(as, target)
      BY <1>11
  <2> QED BY ONLY Sound, <2>1, <2>2, <2>3, CarriedWhole, Zenon
<1>12. ASSUME target \in DOMAIN Wf.phases
       PROVE  \E n \in Nat : \E f \in [1..n -> 1..(target - 1)] : \E keys : carry = AllDone(n, f, keys)
    BY <1>12, CarriedIsDone
<1>13. ASSUME target \in DOMAIN Wf.phases
       PROVE  /\ Len(carry) \in Nat /\ DOMAIN carry = 1..Len(carry)
              /\ carry \in Seq({carry[i] : i \in DOMAIN carry})
              /\ \A i \in DOMAIN carry : carry[i].completed /\ carry[i].decision = "advance"
  <2>1. PICK n \in Nat : \E f \in [1..n -> 1..(target - 1)] : \E keys : carry = AllDone(n, f, keys)
      BY <1>12, <1>13
  <2>2. PICK f \in [1..n -> 1..(target - 1)] : \E keys : carry = AllDone(n, f, keys)
      BY <2>1
  <2>3. PICK keys : carry = AllDone(n, f, keys)
      BY <2>2
  <2> HIDE DEF carry
  <2>4. DOMAIN carry = 1..n /\ \A i \in 1..n : carry[i] = Done(f[i], keys[i])
      BY <2>3 DEF AllDone
  <2>5. carry = [i \in 1..n |-> carry[i]]
      BY <2>3 DEF AllDone
  <2>6. carry \in Seq({carry[i] : i \in 1..n}) /\ Len(carry) = n
      BY <2>4, <2>5
  <2>7. \A i \in 1..n : carry[i].completed /\ carry[i].decision = "advance"
      BY <2>4 DEF Done, Fresh
  <2>8. \A i \in DOMAIN carry : carry[i].completed /\ carry[i].decision = "advance"
      BY <2>4, <2>7
  <2>9. Len(carry) \in Nat /\ DOMAIN carry = 1..Len(carry)
      BY <2>4, <2>6
  <2>10. carry \in Seq({carry[i] : i \in DOMAIN carry})
      BY <2>4, <2>6
  <2> QED BY <2>8, <2>9, <2>10
<1> HIDE DEF carry
<1>14. ASSUME target \in DOMAIN Wf.phases, ~InputsResolve(Wf, target, given)
       PROVE  Sent(Refusal(flow, "input", target))
  <2> DEFINE n == Len(as)
             m == Len(as) + Len(carry)
             T == {carry[i] : i \in DOMAIN carry}
  <2>1. /\ n \in Nat /\ DOMAIN as = 1..n /\ m \in Nat /\ carry \in Seq(T)
        /\ Len(carry) \in Nat /\ DOMAIN carry = 1..Len(carry) /\ m = n + Len(carry)
      BY <1>5, <1>13, <1>14
  <2> HIDE DEF T
  <2>2. /\ DOMAIN given = 1..m
        /\ \A i \in DOMAIN as : i \in DOMAIN given /\ given[i] = as[i]
        /\ \A i \in DOMAIN given : i \in DOMAIN as \/ \E k \in DOMAIN carry : given[i] = carry[k]
    <3> HIDE DEF as, carry
    <3> QED BY <1>4, <2>1, Joined
  <2>3. Reached(as, target) =>
            \A i \in DOMAIN given : \E k \in DOMAIN as :
                as[k].phase = given[i].phase /\ as[k].published = given[i].published
    <3> SUFFICES ASSUME Reached(as, target), NEW i \in DOMAIN given
                 PROVE  \E k \in DOMAIN as :
                            as[k].phase = given[i].phase /\ as[k].published = given[i].published
        OBVIOUS
    <3>1. PICK keys :
             /\ carry = AllDone(target - 1, [j \in 1..(target - 1) |-> j], keys)
             /\ \A q \in 1..(target - 1) : \E k \in DOMAIN as :
                    as[k].phase = q /\ keys[q] = as[k].published
      <4>1. CarriesAll(flow, target)
          BY <1>11, <1>14
      <4> QED BY <4>1 DEF CarriesAll, carry
    <3>2. \A j \in DOMAIN carry :
             j \in 1..(target - 1) /\ carry[j].phase = j /\ carry[j].published = keys[j]
        BY <3>1 DEF AllDone, Done, Fresh
    <3> HIDE DEF as, given
    <3>3. CASE i \in DOMAIN as
        BY <2>2, <3>3
    <3>4. ASSUME NEW j \in DOMAIN carry, given[i] = carry[j]
          PROVE  \E k \in DOMAIN as :
                     as[k].phase = given[i].phase /\ as[k].published = given[i].published
      <4>1. PICK k \in DOMAIN as : as[k].phase = j /\ keys[j] = as[k].published
          BY <3>1, <3>2
      <4> QED BY <3>2, <3>4, <4>1, ZenonT(40)
    <3> QED BY <2>2, <3>3, <3>4
  <2>4. flow.cycle \in Nat \ {0}
      BY <1>1 DEF Core
  <2>5. Published(flow) => Excused(flow, <<"input", target>>)
    <3> SUFFICES ASSUME Published(flow) PROVE Excused(flow, <<"input", target>>)
        OBVIOUS
    <3>1. ~Past => Reached(as, target)
        BY <1>9, <1>14
    <3> HIDE DEF n, m, given
    <3> QED BY <1>10, <1>14, <2>1, <2>2, <2>3, <2>4, <3>1, InputExcused
  <2> QED BY <1>2, <2>5, RefusedSent
<1>15. ASSUME target \in DOMAIN Wf.phases
       PROVE  Sent(Launched(Wf, Opened(Wf, cycle, target), TRUE))
  <2>1. {"state", "refused", "attempts", "synthetic", "cycle", "slot", "inputs", "legs"} \subseteq DOMAIN flow
      BY <1>2 DEF Provided, NoRun
  <2>2. /\ DOMAIN cycle = DOMAIN flow /\ cycle.attempts = carry /\ cycle.cycle = flow.cycle + 1
        /\ cycle.synthetic = flow.synthetic /\ cycle.slot = flow.slot /\ cycle.inputs = flow.inputs
        /\ cycle.refused = flow.refused /\ cycle.legs = flow.legs
      BY <2>1
  <2> HIDE DEF cycle
  <2>3. Provided(cycle)
      BY <1>2, <2>2 DEF Provided
  <2>4. AllOver(carry) /\ ~Aborted(carry)
      BY <1>13, <1>15 DEF AllOver, Aborted, Aborts
  <2>5. ASSUME ~Past
        PROVE  Reached(carry, target) /\ \A i \in DOMAIN carry : Reached(carry, carry[i].phase)
    <3>1. PICK keys : carry = AllDone(target - 1, [j \in 1..(target - 1) |-> j], keys)
      <4>1. CarriesAll(flow, target)
          BY <1>9, <1>11, <1>15, <2>5
      <4> QED BY <4>1 DEF CarriesAll, carry
    <3>2. /\ DOMAIN carry = 1..(target - 1)
          /\ \A j \in DOMAIN carry : carry[j].phase = j
        BY <3>1 DEF AllDone, Done, Fresh
    <3>3. Reached(carry, target)
        BY <3>2 DEF Reached
    <3>4. target \in Nat
        BY <1>15, Landmarks
    <3>5. \A i \in DOMAIN carry : \A q \in 1..(i - 1) : q \in DOMAIN carry
        BY <3>2, <3>4
    <3> QED BY <3>2, <3>3, <3>5 DEF Reached
  <2>6. Dense(carry)
      BY <2>5 DEF Dense
  <2>7. flow.cycle + 1 # 1
    <3>1. flow.cycle \in Nat \ {0}
        BY <1>1 DEF Core
    <3> QED BY <3>1
  <2>8. Legged(carry, flow.legs, flow.cycle + 1)
      BY <2>7 DEF Legged
  <2>9. Closed(cycle)
      BY <1>10, <2>2, <2>4, <2>6, <2>8 DEF Closed
  <2> DEFINE opened == Opened(Wf, cycle, target)
             T == {carry[i] : i \in DOMAIN carry}
  <2>10. carry \in Seq(T)
      BY <1>13, <1>15
  <2> HIDE DEF T
  <2>11. /\ Provided(opened) /\ Open(opened) /\ Last(opened.attempts).phase = target
         /\ opened.synthetic = cycle.synthetic
      BY <1>15, <2>2, <2>3, <2>4, <2>5, <2>9, <2>10, OpenedSent
  <2>12. ~opened.synthetic
      BY <2>2, <2>11, Zenon
  <2> HIDE DEF opened
  <2>13. Sent(Launched(Wf, opened, TRUE))
      BY <1>15, <2>11, <2>12, LaunchedSent
  <2> QED BY <2>13 DEF opened
<1> HIDE DEF cycle, given
<1> QED BY <1>7, <1>8, <1>14, <1>15

\* A run stays of the kind it was dispatched as.
LEMMA KindStays ==
    ASSUME NEW r, "synthetic" \in DOMAIN r
    PROVE  /\ \A why, p : Refusal(r, why, p).synthetic = r.synthetic
           /\ \A leased : Launched(Wf, r, leased).synthetic = r.synthetic
           /\ \A p : /\ Opened(Wf, r, p).synthetic = r.synthetic
                     /\ "synthetic" \in DOMAIN Opened(Wf, r, p)
BY DEF Refusal, Launched, Opened

\* A run that goes on is of the kind it was, and a synthetic dispatch starts a synthetic
\* run.
LEMMA KeepsKind ==
    /\ "synthetic" \in DOMAIN flow /\ (Complete \/ Advance \/ Retry \/ ApproveReview) =>
           flow'.synthetic = flow.synthetic
    /\ SyntheticDispatch => flow'.synthetic
<1>1. ASSUME "synthetic" \in DOMAIN flow, Complete PROVE flow'.synthetic = flow.synthetic
    BY <1>1 DEF Complete
<1>2. ASSUME "synthetic" \in DOMAIN flow, NEW p PROVE Forward(Wf, flow, p).synthetic = flow.synthetic
    BY <1>2, KindStays DEF Forward
<1>3. ASSUME "synthetic" \in DOMAIN flow, Advance PROVE flow'.synthetic = flow.synthetic
    BY <1>2, <1>3 DEF Advance
<1>4. ASSUME "synthetic" \in DOMAIN flow, Retry PROVE flow'.synthetic = flow.synthetic
  <2> DEFINE cycle(carry) == [flow EXCEPT !.attempts = carry, !.cycle = @ + 1]
  <2>1. \A carry : cycle(carry).synthetic = flow.synthetic /\ "synthetic" \in DOMAIN cycle(carry)
      BY <1>4
  <2>2. \/ \E why, p : flow' = Refusal(flow, why, p)
        \/ \E carry, p : flow' = Launched(Wf, Opened(Wf, cycle(carry), p), TRUE)
      BY <1>4 DEF Retry, Recycled
  <2> HIDE DEF cycle
  <2>3. ASSUME NEW carry, NEW p, flow' = Launched(Wf, Opened(Wf, cycle(carry), p), TRUE)
        PROVE  flow'.synthetic = flow.synthetic
    <3> DEFINE c == cycle(carry)
               o == Opened(Wf, c, p)
    <3>1. "synthetic" \in DOMAIN c /\ c.synthetic = flow.synthetic
        BY <2>1
    <3> HIDE DEF c
    <3>2. "synthetic" \in DOMAIN o /\ o.synthetic = c.synthetic
        BY <3>1, KindStays
    <3> HIDE DEF o
    <3>3. flow'.synthetic = o.synthetic
        BY <2>3, <3>2, KindStays DEF o, c
    <3> QED BY <3>1, <3>2, <3>3
  <2>4. (\E why, p : flow' = Refusal(flow, why, p)) => flow'.synthetic = flow.synthetic
      BY <1>4, KindStays
  <2> QED BY <2>2, <2>3, <2>4
<1>5. ASSUME "synthetic" \in DOMAIN flow, ApproveReview PROVE flow'.synthetic = flow.synthetic
    BY <1>5, KindStays DEF ApproveReview
<1>6. ASSUME SyntheticDispatch PROVE flow'.synthetic
  <2>1. PICK request \in Requests(Wf), given \in CallerInputs, preserve \in BOOLEAN :
          LET run == [NoRun EXCEPT !.number = flow.number + 1, !.cycle = 1, !.synthetic = TRUE,
                                      !.slot = request.slot, !.inputs = RunInputs(Wf, given),
                                      !.preserve = preserve, !.attempts = SuppliedAttempts(request)]
          IN  flow' = Launched(Wf, Opened(Wf, run, request.start), TRUE)
      BY <1>6 DEF SyntheticDispatch
  <2> DEFINE run == [NoRun EXCEPT !.number = flow.number + 1, !.cycle = 1, !.synthetic = TRUE,
                                  !.slot = request.slot, !.inputs = RunInputs(Wf, given),
                                  !.preserve = preserve, !.attempts = SuppliedAttempts(request)]
  <2>2. "synthetic" \in DOMAIN run /\ run.synthetic
      BY DEF NoRun
  <2>3. flow' = Launched(Wf, Opened(Wf, run, request.start), TRUE)
      BY <2>1
  <2> HIDE DEF run
  <2>4. flow'.synthetic = run.synthetic
      BY <2>2, <2>3, KindStays
  <2> QED BY <2>2, <2>4, Zenon
<1> QED BY <1>1, <1>3, <1>4, <1>5, <1>6

\* Every step keeps what an ordinary run has been sent with.
LEMMA SentStep ==
    ASSUME FlowInv, flow.state # "none" => Sent(flow), [FlowNext]_flowVars
    PROVE  (flow.state # "none" => Sent(flow))'
<1>1. registered # <<>> => Sound
    BY AcceptedIsSound DEF FlowInv
<1>2. CASE Submit \/ Forget
    BY <1>2 DEF Submit, Forget, FlowInv, NoRun
<1>3. CASE UNCHANGED flowVars
  <2>1. registered' = registered /\ flow' = flow
      BY <1>3 DEF flowVars
  <2>2. Sent(flow)' <=> Sent(flow)
      BY <2>1 DEF Sent, Provided, Open, Closed, Published, Excused, Past, Dense, LandsAt, The, Wf, PhasesOf
  <2> QED BY <2>1, <2>2
<1>4. ASSUME DispatchRun \/ SyntheticDispatch \/ Complete \/ Advance \/ Retry \/ ApproveReview
      PROVE  Sent(flow)'
  <2>1. registered' = registered /\ registered # <<>>
      BY <1>4 DEF FlowInv, DispatchRun, SyntheticDispatch, Complete, Advance, Retry, ApproveReview
  <2>2. Complete \/ Advance \/ Retry \/ ApproveReview => RunOK(flow) /\ Sent(flow)
      BY DEF FlowInv, Complete, Advance, Retry, ApproveReview
  <2>3. Complete \/ Advance \/ Retry \/ ApproveReview => flow'.synthetic = flow.synthetic
    <3>1. "synthetic" \in DOMAIN flow
        BY DEF FlowInv, NoRun
    <3> QED BY <3>1, KeepsKind
  <2>4. SyntheticDispatch => flow'.synthetic
      BY KeepsKind
  <2>5. Sent(flow')
    <3>1. CASE flow'.synthetic
        BY <3>1 DEF Sent
    <3>2. CASE ~flow'.synthetic
        BY <1>1, <1>4, <2>1, <2>2, <2>3, <2>4, <3>2, DispatchRunSent, CompleteSent, AdvanceSent, RetrySent,
           ApproveSent
    <3> QED BY <3>1, <3>2
  <2> QED BY <2>1, <2>5 DEF Sent, Provided, Open, Closed, Published, Excused, Past, Dense, LandsAt, The,
                            Wf, PhasesOf
<1> QED BY <1>2, <1>3, <1>4 DEF FlowNext

\* No dispatch of an ordinary run of any workflow that registration accepts is refused for
\* an input, a checkout's ref or its lease, as long as its phases publish what they
\* declare; but where a policy lands past phases that never ran, or a later cycle forgot
\* that a leg was skipped.
THEOREM DispatchesAlwaysResolve == FlowSpec => []DispatchesResolve
<1> DEFINE Inv == FlowInv /\ (flow.state # "none" => Sent(flow))
               /\ (flow.state = "none" => flow.refused = {})
<1>1. FlowInit => Inv
    BY DEF FlowInit, FlowInv, RegisteredInv, NoRun
<1>2. Inv /\ [FlowNext]_flowVars => Inv'
  <2> SUFFICES ASSUME Inv, [FlowNext]_flowVars PROVE Inv'
      OBVIOUS
  <2>1. FlowInv'
      BY FlowInvStep
  <2>2. (flow.state # "none" => Sent(flow))'
      BY SentStep
  <2>3. (flow.state = "none" => flow.refused = {})'
    <3>1. CASE Submit
        BY <3>1 DEF Submit
    <3>2. CASE Forget
        BY <3>2 DEF Forget, NoRun
    <3>3. CASE UNCHANGED flowVars
        BY <3>3 DEF flowVars
    <3>4. ASSUME DispatchRun \/ SyntheticDispatch \/ Complete \/ Advance \/ Retry \/ ApproveReview
          PROVE  flow'.state # "none"
        BY <3>4, RunsOn DEF RunOK
    <3> QED BY <3>1, <3>2, <3>3, <3>4 DEF FlowNext
  <2> QED BY <2>1, <2>2, <2>3
<1>3. Inv => DispatchesResolve
  <2> SUFFICES ASSUME Inv, ~flow.synthetic, PublishedAll, NEW refusal \in flow.refused
               PROVE  \/ refusal[1] = "jobs" /\ Wf.phases[refusal[2]].jobs = <<>>
                      \/ refusal[1] = "target"
                      \/ refusal[1] = "input" /\ flow.cycle > 1 /\ flow.legs # {}
                      \/ refusal[1] = "input" /\ LandsPast /\ Missing(refusal[2])
      BY DEF DispatchesResolve
  <2>1. flow.state # "none" /\ Sent(flow)
      OBVIOUS
  <2>2. flow.state = "over"
    <3>1. flow.state \in {"running", "parked", "advancing", "retrying", "over"}
        BY <2>1 DEF FlowInv, RunOK
    <3> QED BY <2>1, <3>1 DEF Sent, Open, Closed
  <2>3. Published(flow)
      BY DEF PublishedAll, Published
  <2>4. Excused(flow, refusal)
      BY <2>1, <2>2, <2>3 DEF Sent
  <2>5. Past => LandsPast
    <3>3. Sound
        BY <2>1, AcceptedIsSound DEF FlowInv
    <3>4. PhasesOf(Wf, flow)[The("verification")].policy.landsAt = LandsAt
        BY <3>3, GraphOfRun, Landmarks DEF LandsAt
    <3> QED BY <3>4 DEF Past, LandsPast
  <2>6. \A p : ~Reached(flow.attempts, p) => Missing(p)
      BY DEF Reached, Missing
  <2> QED BY <2>4, <2>5, <2>6 DEF Excused
<1> HIDE DEF Inv
<1> QED BY <1>1, <1>2, <1>3, PTL DEF FlowSpec
=============================================================================
