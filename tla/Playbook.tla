------------------------------- MODULE Playbook -------------------------------
(* A playbook: entries that become issues with a run each, in the order of   *)
(* their dependencies, so many at a time, past manual gates.                 *)
(*                                                                           *)
(* The row is one JSON document.  An advance (a request, or the completion   *)
(* of a run the playbook names) reads it, works on its copy while it         *)
(* dispatches, and replaces the document; a gate edit patches it.            *)
EXTENDS Integers, Sequences, FiniteSets, FiniteSetsExt

CONSTANTS Entries,     \* numbers, in the order of the document
          DependsOn,   \* of each entry
          Gated,       \* the entries created with a manual gate
          Limit,       \* concurrency_limit
          Advancers,   \* handlers
          MaxRuns, MaxLoad  \* bounds: run rows; requests, edits, disturbances

ASSUME PlaybookAssumption ==
  /\ IsFiniteSet(Entries) /\ Entries \subseteq Nat \ {0} /\ Entries # {}
  /\ DependsOn \in [Entries -> SUBSET Entries] /\ Gated \subseteq Entries
  /\ Limit \in Nat \ {0} /\ MaxRuns \in Nat /\ MaxLoad \in Nat

Causes == {"post", "edit", "crash", "fault"}

VARIABLES doc,     \* the row
          runs,    \* the runs dispatched for an entry, and their recycles
          ended,   \* the runs whose completion has not told the playbooks
          tasks,   \* the advances under way
          issues,  \* how many issues each entry has got
          spent,   \* posts, edits and disturbances so far
          past     \* what has happened: "overlap", "lost", "queued", "recycle"
vars == <<doc, runs, ended, tasks, issues, spent, past>>

\* CreatePlaybook.
NewDoc == [state |-> "draft",
           entries |-> [e \in Entries |->
             [state |-> "pending", gate |-> e \in Gated, run |-> 0]]]

Idle == [pc |-> "idle", doc |-> NewDoc, entry |-> 0]

Spend(cause) ==
  /\ MapThenSumSet(LAMBDA c : spent[c], Causes) < MaxLoad
  /\ spent' = [spent EXCEPT ![cause] = @ + 1]
-----------------------------------------------------------------------------
(* advancePlaybookDoc, on a copy.                                            *)

\* refreshPlaybookEntries: what the runs have come to.
Refresh(d) ==
  [d EXCEPT !.entries = [e \in Entries |->
    LET entry == d.entries[e] IN
    LET state == IF entry.run = 0 THEN "none" ELSE runs[entry.run].state IN
    CASE state = "passed" -> [entry EXCEPT !.state = "succeeded"]
      [] state \in {"review_required", "aborted"} -> [entry EXCEPT !.state = "failed"]
      [] state = "in_progress" /\ entry.state = "pending" -> [entry EXCEPT !.state = "running"]
      [] OTHER -> entry]]

InState(d, state) == {e \in Entries : d.entries[e].state = state}

\* Mutant: a dependency is met once it has been started.
DependenciesStarted(d, e) == DependsOn[e] \cap InState(d, "pending") = {}

DependenciesMet(d, e) == DependsOn[e] \subseteq InState(d, "succeeded")

Ready(d, e) ==
  d.entries[e].state = "pending" /\ ~d.entries[e].gate /\ DependenciesMet(d, e)

\* What is decided before the loop, from the entries alone.
AllSucceeded(d) == InState(d, "succeeded") = Entries
Failed(d) == InState(d, "failed") # {}
OpenGate(d) == \E e \in InState(d, "pending") : d.entries[e].gate /\ DependenciesMet(d, e)
Conclusion(d) ==
  CASE AllSucceeded(d) -> "succeeded"
    [] Failed(d) -> "failed"
    [] OpenGate(d) -> "paused"
    [] InState(d, "running") # {} -> "running"
    [] OTHER -> "ready"

HasRoom(d) == Cardinality(InState(d, "running")) < Limit

\* The loop goes on behind entry e, to the next that is ready, or concludes.
Onward(d, e) ==
  LET ahead == {f \in Entries : f > e /\ Ready(d, f)} IN
  IF HasRoom(d) /\ ahead # {}
    THEN [pc |-> "issue", doc |-> d, entry |-> Min(ahead)]
    ELSE [pc |-> "write", doc |-> [d EXCEPT !.state = Conclusion(d)], entry |-> 0]

\* Of a refreshed document.
Begin(d) ==
  IF AllSucceeded(d) \/ Failed(d)
    THEN [pc |-> "write", doc |-> [d EXCEPT !.state = Conclusion(d)], entry |-> 0]
    ELSE Onward(d, 0)
-----------------------------------------------------------------------------
At(p, pc) == tasks[p].pc = pc

Reads(p) == tasks' = [tasks EXCEPT ![p] = [Idle EXCEPT !.pc = "refresh", !.doc = doc]]
Overlaps == past' = IF \E p \in Advancers : ~At(p, "idle") THEN past \cup {"overlap"} ELSE past

\* AdvancePlaybook.
Post(p) ==
  /\ At(p, "idle") /\ Spend("post") /\ Reads(p) /\ Overlaps
  /\ UNCHANGED <<doc, runs, ended, issues>>

References(d, r) == \E e \in Entries : d.entries[e].run = r

\* AdvancePlaybooksForRun, by the completion that has settled the run.
ForRun(p, r) ==
  /\ At(p, "idle") /\ r \in ended
  /\ ended' = ended \ {r}
  /\ IF References(doc, r) THEN Reads(p) ELSE UNCHANGED tasks
  /\ Overlaps
  /\ UNCHANGED <<doc, runs, issues, spent>>

RefreshEntries(p) ==
  /\ At(p, "refresh")
  /\ tasks' = [tasks EXCEPT ![p] = Begin(Refresh(@.doc))]
  /\ UNCHANGED <<doc, runs, ended, issues, spent, past>>

\* Mutant: an entry whose dispatch failed is left for the next advance.
EntryWaits(p, run) == tasks' = [tasks EXCEPT ![p] = Onward(tasks[p].doc, tasks[p].entry)]

EntryFails(p, run) ==
  LET t == tasks[p] IN
  tasks' = [tasks EXCEPT ![p] = Onward([t.doc EXCEPT !.entries[t.entry].state = "failed",
                                                   !.entries[t.entry].run = run], t.entry)]

\* The dispatcher creates the issue of the entry ...
CreateIssue(p) ==
  LET t == tasks[p] IN
  /\ At(p, "issue")
  /\ \/ /\ issues' = [issues EXCEPT ![t.entry] = @ + 1]
        /\ tasks' = [tasks EXCEPT ![p].pc = "dispatch"] /\ UNCHANGED spent
     \/ Spend("fault") /\ EntryFails(p, 0) /\ UNCHANGED issues
  /\ UNCHANGED <<doc, runs, ended, past>>

\* ... and dispatches a run for it.  A run that is "queued" is none of the
\* results the loop knows: the entry has failed.  So it has when there is no
\* run, or one that is aborted at once.
Dispatch(p) ==
  LET t == tasks[p] IN
  LET new == Len(runs) + 1 IN
  /\ At(p, "dispatch")
  /\ \/ /\ new <= MaxRuns
        /\ runs' = Append(runs, [entry |-> t.entry, state |-> "in_progress"])
        /\ tasks' = [tasks EXCEPT ![p] =
             Onward([t.doc EXCEPT !.entries[t.entry].state = "running",
                                  !.entries[t.entry].run = new], t.entry)]
        /\ UNCHANGED <<spent, past>>
     \/ /\ new <= MaxRuns
        /\ runs' = Append(runs, [entry |-> t.entry, state |-> "queued"])
        /\ past' = past \cup {"queued"} /\ EntryFails(p, new) /\ UNCHANGED spent
     \/ /\ new <= MaxRuns /\ Spend("fault")
        /\ runs' = Append(runs, [entry |-> t.entry, state |-> "aborted"])
        /\ EntryFails(p, new) /\ UNCHANGED past
     \/ /\ IF new <= MaxRuns THEN Spend("fault") ELSE UNCHANGED spent
        /\ EntryFails(p, 0) /\ UNCHANGED <<runs, past>>
  /\ UNCHANGED <<doc, ended, issues>>

\* replacePlaybookDoc: the whole document is overwritten, or the write fails
\* and what was dispatched is forgotten.
Replace(p) ==
  /\ At(p, "write")
  /\ tasks' = [tasks EXCEPT ![p] = Idle]
  /\ \/ doc' = tasks[p].doc /\ UNCHANGED <<spent, past>>
     \/ Spend("fault") /\ past' = past \cup {"lost"} /\ UNCHANGED doc
  /\ UNCHANGED <<runs, ended, issues>>

\* PatchPlaybookEntryGate: under the row lock.
PatchGate(e, gate) ==
  /\ Spend("edit") /\ doc.entries[e].gate # gate
  /\ doc' = [doc EXCEPT !.entries[e].gate = gate]
  /\ UNCHANGED <<runs, ended, tasks, issues, past>>

Crash ==
  /\ Spend("crash")
  /\ ended # {} \/ \E p \in Advancers : ~At(p, "idle")
  /\ tasks' = [p \in Advancers |-> Idle] /\ ended' = {}
  /\ past' = past \cup {"lost"}
  /\ UNCHANGED <<doc, runs, issues>>
-----------------------------------------------------------------------------
(* What the playbook sees of the life of its runs (IssueWork, RunLifecycle). *)

Becomes(r, from, to) ==
  /\ r \in 1..Len(runs) /\ runs[r].state = from
  /\ runs' = [runs EXCEPT ![r].state = to]

Admit(r) == Becomes(r, "queued", "in_progress") /\ UNCHANGED <<doc, ended, tasks, issues, spent, past>>
Park(r) == Becomes(r, "in_progress", "review_required") /\ UNCHANGED <<doc, ended, tasks, issues, spent, past>>
Approve(r) == Becomes(r, "review_required", "in_progress") /\ UNCHANGED <<doc, ended, tasks, issues, spent, past>>

End(r) ==
  /\ Becomes(r, "in_progress", "passed") \/ Becomes(r, "in_progress", "aborted")
  /\ ended' = ended \cup {r}
  /\ UNCHANGED <<doc, tasks, issues, spent, past>>

\* The next cycle is a run of its own, with the issue but not in the playbook;
\* a recycle tells the playbooks nothing.
Recycle(r) ==
  /\ r \in 1..Len(runs) /\ runs[r].state = "in_progress" /\ Len(runs) < MaxRuns
  /\ runs' = Append([runs EXCEPT ![r].state = "recycled"], runs[r])
  /\ past' = past \cup {"recycle"}
  /\ UNCHANGED <<doc, ended, tasks, issues, spent>>

Init ==
  /\ doc = NewDoc /\ runs = <<>> /\ ended = {}
  /\ tasks = [p \in Advancers |-> Idle] /\ issues = [e \in Entries |-> 0]
  /\ spent = [c \in Causes |-> 0] /\ past = {}

Step(p) == RefreshEntries(p) \/ CreateIssue(p) \/ Dispatch(p) \/ Replace(p)
LifeOf(r) == Admit(r) \/ Park(r) \/ Approve(r) \/ End(r) \/ Recycle(r)

Next ==
  \/ \E p \in Advancers : Post(p) \/ Step(p) \/ \E r \in ended : ForRun(p, r)
  \/ \E e \in Entries, gate \in BOOLEAN : PatchGate(e, gate)
  \/ \E r \in 1..MaxRuns : LifeOf(r)
  \/ Crash

Spec == Init /\ [][Next]_vars
-----------------------------------------------------------------------------
Passed(e) == \E r \in 1..Len(runs) : runs[r].entry = e /\ runs[r].state = "passed"

\* No entry is worked on before every entry it depends on has passed, however
\* advances, gate edits and crashes interleave and whatever document is lost.
OrderKept ==
  [][\A e \in Entries : issues'[e] > issues[e] => \A f \in DependsOn[e] : Passed(f)]_vars

\* An entry is worked on once: one issue, unless two advances overlapped or one
\* did not get to its write.
WorkedOnce == past \cap {"overlap", "lost"} = {} => \A e \in Entries : issues[e] <= 1
=============================================================================
