----------------------------- MODULE InnerJobs -----------------------------
(* The Kubernetes Jobs that the steps of a run start by themselves: a marker *)
(* in the log registers one in inner_jobs of its phase, and the watcher or   *)
(* the reconciler files its end as an event of the run (runner_api.go,       *)
(* run_watcher.go, run_execution_reconciler.go, postgres.go).                *)
EXTENDS Naturals, Sequences, FiniteSets

CONSTANTS Children,    \* the inner Jobs of a run
          Stages,      \* the phases of its workflow, in their order
          MaxTries     \* attempts the run makes

ASSUME StagesAssumption == Stages \subseteq Nat

VARIABLES tries,       \* the phase of each attempt of the run
          live,        \* the run is in progress
          child,       \* each Job in the cluster, and the attempt that started it
          inner,       \* inner_jobs of each phase: the state of a registered Job
          filed,       \* the ends among the run's events, applied to the row or not
          notice       \* what each observer is about to file

innerVars == <<tries, live, child, inner, filed, notice>>

Observers == {"watcher", "reconciler"}
Ends == {"succeeded", "failed"}
Quiet == [pc |-> "idle"]
Ready(o, pc) == notice[o].pc = pc
Turns(o, next) == notice' = [notice EXCEPT ![o] = next]
AttemptOf(c) == child[c].of

-----------------------------------------------------------------------------
\* The run and the Jobs themselves.

\* AppendRunAttempt, at a phase behind the last one; the first is StartRunCycle's.
NextTry ==
  /\ live /\ Len(tries) < MaxTries
  /\ \E p \in Stages : p > tries[Len(tries)] /\ tries' = Append(tries, p)
  /\ UNCHANGED <<live, child, inner, filed, notice>>

Settle ==
  /\ live /\ live' = FALSE
  /\ UNCHANGED <<tries, child, inner, filed, notice>>

\* A Job is created by a step of the latest attempt, ends, and is removed by its time to
\* live or by hand.
Becomes(c, is) == child' = [child EXCEPT ![c].is = is]
Spawn(c) ==
  /\ live /\ child[c].is = "none"
  /\ child' = [child EXCEPT ![c] = [of |-> Len(tries), is |-> "running"]]
  /\ UNCHANGED <<tries, live, inner, filed, notice>>
Change(c) ==
  /\ \/ child[c].is = "running" /\ \E is \in Ends \cup {"gone"} : Becomes(c, is)
     \/ child[c].is \in Ends /\ Becomes(c, "gone")
  /\ UNCHANGED <<tries, live, inner, filed, notice>>

-----------------------------------------------------------------------------
\* inner_jobs of a phase.

\* Mutant: a marker that comes again starts the row over.
RegisteredAnew(rows, c) == [rows EXCEPT ![c] = "active"]
\* appendInnerJobRegistration: a Job that has a row keeps its state.
Registered(rows, c) == [rows EXCEPT ![c] = IF @ = "none" THEN "active" ELSE @]

\* updateInnerJobTermination: a Job without a row gets one that has ended.
Terminated(rows, c, end) == [rows EXCEPT ![c] = end]

\* observeInnerJobMarker: the runner names its attempt.  The marker may be lost, come twice
\* and come after the Job ended.
RegisterInner(c) ==
  /\ child[c].is # "none"
  /\ LET p == tries[AttemptOf(c)] IN inner' = [inner EXCEPT ![p] = Registered(@, c)]
  /\ UNCHANGED <<tries, live, child, filed, notice>>

-----------------------------------------------------------------------------
\* The observers.

Active == {c \in Children : \E p \in Stages : inner[p][c] = "active"}
HasRow(c) == \E p \in Stages : inner[p][c] # "none"

\* dispatchInnerTerminal: the owner is a run in progress with a row of the Job, whatever
\* the row's state (findInnerJobOwner).
WatchInner(c) ==
  /\ Ready("watcher", "idle") /\ child[c].is \in Ends
  /\ live /\ HasRow(c)
  /\ Turns("watcher", [pc |-> "built", c |-> c, end |-> child[c].is, todo |-> {}])
  /\ UNCHANGED <<tries, live, child, inner, filed>>

\* ExpireInnerJobTerminations lists the rows that are active, once for a sweep ...
Sweep ==
  /\ Ready("reconciler", "idle") /\ live /\ Active # {}
  /\ Turns("reconciler", [pc |-> "sweep", todo |-> Active])
  /\ UNCHANGED <<tries, live, child, inner, filed>>

\* ... and asks for each Job in turn; one that is gone has failed (buildInnerJobTermination).
\* One that ended within the grace period, or whose status is not had, is left to the next.
EndOf(c) == IF child[c].is = "gone" THEN "failed" ELSE child[c].is
Examine(c) ==
  /\ Ready("reconciler", "sweep")
  /\ c \in notice["reconciler"].todo
  /\ LET todo == notice["reconciler"].todo \ {c} IN
     \/ child[c].is # "gone" /\ Turns("reconciler", [pc |-> "sweep", todo |-> todo])
     \/ child[c].is \in Ends \cup {"gone"} /\
          Turns("reconciler", [pc |-> "built", c |-> c, end |-> EndOf(c), todo |-> todo])
  /\ UNCHANGED <<tries, live, child, inner, filed>>
Swept ==
  /\ Ready("reconciler", "sweep") /\ notice["reconciler"].todo = {}
  /\ Turns("reconciler", Quiet)
  /\ UNCHANGED <<tries, live, child, inner, filed>>

\* RecordRunnerEventByID reads the row: an end is of the latest attempt it has.
Locate(o) ==
  /\ Ready(o, "built")
  /\ Turns(o, [pc |-> "located", c |-> notice[o].c, end |-> notice[o].end, att |-> Len(tries),
              todo |-> notice[o].todo])
  /\ UNCHANGED <<tries, live, child, inner, filed>>

\* The event's key is the attempt and the Job (innerJobTerminationSeq).  A known one changes
\* nothing, a conflict or not; a new one is kept and then applied, unless either fails.
Known(att, c) == \E f \in filed : f.att = att /\ f.c = c
After(o) == IF o = "watcher" THEN Quiet ELSE [pc |-> "sweep", todo |-> notice[o].todo]
File(o) ==
  /\ Ready(o, "located")
  /\ LET r == notice[o] IN
     IF Known(r.att, r.c) THEN Turns(o, After(o)) /\ UNCHANGED <<inner, filed>>
     ELSE \/ Turns(o, Quiet) /\ UNCHANGED <<inner, filed>>
          \/ \E applied \in BOOLEAN :
               /\ filed' = filed \cup {[att |-> r.att, c |-> r.c, end |-> r.end, applied |-> applied]}
               /\ inner' = IF applied THEN [inner EXCEPT ![tries[r.att]] = Terminated(@, r.c, r.end)]
                           ELSE inner
               /\ Turns(o, IF applied THEN After(o) ELSE Quiet)
  /\ UNCHANGED <<tries, live, child>>

-----------------------------------------------------------------------------
InnerInit ==
  /\ \E p \in Stages : tries = <<p>>
  /\ live = TRUE
  /\ child = [c \in Children |-> [of |-> 1, is |-> "none"]]
  /\ inner = [p \in Stages |-> [c \in Children |-> "none"]]
  /\ filed = {}
  /\ notice = [o \in Observers |-> Quiet]

InnerNext ==
  \/ NextTry \/ Settle \/ Sweep \/ Swept
  \/ \E c \in Children : Spawn(c) \/ Change(c) \/ RegisterInner(c) \/ WatchInner(c) \/ Examine(c)
  \/ \E o \in Observers : Locate(o) \/ File(o)

-----------------------------------------------------------------------------
(* Whoever files the end of a Job, late or twice, and whenever its marker    *)
(* arrives or arrives again, the phase the end was filed under shows it as   *)
(* it was first filed (RecordRunnerEventByID, appendInnerJobRegistration).   *)
(* It need not be the phase the Job was started in: an end is filed under    *)
(* the latest, and there the row it was registered with stays active.        *)
EndsAreShown ==
  \A f \in filed : f.applied => inner[tries[f.att]][f.c] = f.end
=============================================================================
