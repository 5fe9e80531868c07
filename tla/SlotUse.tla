------------------------------- MODULE SlotUse -------------------------------
(* What stands in the namespace of a slot while a test-slot checkout uses    *)
(* it: the installer Jobs and their pods, the hot release they apply and the *)
(* browser beside it (run_launcher.go), driven by the activation, the        *)
(* deployment of an image and the clean-up (test_slot_api.go,                *)
(* test_slot_deploy_image_ops.go).  SlotLease has the rows; here there is    *)
(* one slot, one lease and one server process that may die and come back.    *)
(*                                                                           *)
(* A goroutine is a list of calls of the Kubernetes API.  A Job that is      *)
(* deleted leaves its pod behind until it is collected, and until then the   *)
(* pod may still apply its release.                                          *)
EXTENDS Sequences, Naturals

CONSTANTS Images, Base, None,     \* what the hot release runs
          Apart,                  \* no deployment outlives its slot
          MaxDeploys, MaxFailedCalls, MaxCrashes

VARIABLES slot,      \* the state of the slot's row
          torn,      \* its cleanup_error is set
          lease,     \* "none", "claimed" or "released"
          hot,       \* the release <slot>-hot: the image its pods run
          browser,   \* the Playwright deployment and service
          jobs,      \* the installer Jobs of the lease by kind
          pods,      \* the pods of installer Jobs, of deleted ones too
          tasks,     \* the goroutines of the process
          verdict,   \* the last entry of the lease's operation history
          sweeping,  \* the process has started and not recovered yet
          left       \* the disturbances still to come

useVars == <<slot, torn, lease, hot, browser, jobs, pods, tasks, verdict, sweeping, left>>

Kinds == {"warm", "hot", "uninstall"}
Roles == {"activate", "cleanup", "deploy"}
Idle == [pc |-> "idle", todo |-> <<>>, failed |-> FALSE, tries |-> 0]
Is(r, pc) == tasks[r].pc = pc
Done(r, pc) == Is(r, pc) /\ tasks[r].todo = <<>>
Set(r, task) == tasks' = [tasks EXCEPT ![r] = task]
Spend(kind) == left[kind] > 0 /\ left' = [left EXCEPT ![kind] = @ - 1]
-----------------------------------------------------------------------------
(* The calls.                                                                *)
Delete(kinds) == [do |-> "delete", kinds |-> kinds]
CreateCall(kind, image) == [do |-> "create", kind |-> kind, image |-> image]
Await(kind) == [do |-> "wait", kind |-> kind]
Only(what) == [do |-> what]

\* runTestSlotHelmReconcile: a finished Job of the same name lingers, so it is
\* deleted first.
Reconcile(kind, image) == <<Delete({kind}), CreateCall(kind, image), Await(kind)>>

\* ActivateTestSlotRuntime
ActivationCalls ==
  Reconcile("warm", None) \o Reconcile("hot", Base) \o <<Only("browser")>>

\* Mutant: the installer's pods are not waited for.
HastyTeardown ==
  <<Delete(Kinds), CreateCall("uninstall", None), Await("uninstall"),
    Only("no_browser"), Only("no_workload")>>

\* ReturnTestSlotRuntime: the installer goes first, so that nothing is created
\* behind the deletions.
TeardownCalls ==
  <<Delete(Kinds), Only("pods_gone"), CreateCall("uninstall", None), Await("uninstall"),
    Only("no_browser"), Only("no_workload")>>

\* cleanupTestSlotRuntime goes on with EnsureTestSlotPreliminaries.
CleanupCalls == TeardownCalls \o Reconcile("warm", None)

\* One pass of DeployImageToSlot.
DeployCalls(image) == Reconcile("hot", image) \o <<[do |-> "verify", image |-> image]>>
deployImageReassertAttempts == 3
-----------------------------------------------------------------------------
(* The cluster.                                                              *)
Start(r, pc, calls) == Set(r, [pc |-> pc, todo |-> calls, failed |-> FALSE, tries |-> 1])
Continue(r) == Set(r, [tasks[r] EXCEPT !.todo = Tail(@)])
GiveUp(r) == Set(r, [tasks[r] EXCEPT !.todo = <<>>, !.failed = TRUE])

Nearest(r) == Head(tasks[r].todo)
Calls(r, what) == tasks[r].todo # <<>> /\ Nearest(r).do = what

\* A Job goes at once, its pod when the garbage collection has got to it.
DeleteJobs(r) ==
  /\ Calls(r, "delete")
  /\ jobs' = [k \in Kinds |-> IF k \in Nearest(r).kinds THEN "none" ELSE jobs[k]]
  /\ pods' = {[p EXCEPT !.owned = @ /\ p.kind \notin Nearest(r).kinds] : p \in pods}
  /\ Continue(r)
  /\ UNCHANGED <<slot, torn, lease, hot, browser, verdict, sweeping, left>>

\* createJob takes a Job that is there already for its own.
CreateJob(r) ==
  /\ Calls(r, "create")
  /\ LET k == Nearest(r).kind IN
     IF jobs[k] # "none" THEN UNCHANGED <<jobs, pods>>
     ELSE /\ jobs' = [jobs EXCEPT ![k] = "active"]
          /\ pods' = pods \cup {[kind |-> k, image |-> Nearest(r).image, owned |-> TRUE]}
  /\ Continue(r)
  /\ UNCHANGED <<slot, torn, lease, hot, browser, verdict, sweeping, left>>

\* waitForJobComplete looks at the name.
WaitJob(r) ==
  /\ Calls(r, "wait")
  /\ CASE jobs[Nearest(r).kind] = "complete" -> Continue(r)
       [] jobs[Nearest(r).kind] = "active"   -> FALSE
       [] OTHER                            -> GiveUp(r)
  /\ UNCHANGED <<slot, torn, lease, hot, browser, jobs, pods, verdict, sweeping, left>>

\* waitForInstallerPodsBySlotTerminated. Its list is taken to tell the truth: an answer
\* 403 or 404, which the code takes for an empty one, comes only where no pod is.
WaitPods(r) ==
  /\ Calls(r, "pods_gone") /\ pods = {}
  /\ Continue(r)
  /\ UNCHANGED <<slot, torn, lease, hot, browser, jobs, pods, verdict, sweeping, left>>

\* ensurePlaywrightForSlot and deletePlaywrightResources
Browser(r) ==
  /\ Calls(r, "browser") \/ Calls(r, "no_browser")
  /\ browser' = (Nearest(r).do = "browser")
  /\ Continue(r)
  /\ UNCHANGED <<slot, torn, lease, hot, jobs, pods, verdict, sweeping, left>>

\* deleteTestSlotRuntimeWorkloads, and no pod is left in the namespaces.
Workloads(r) ==
  /\ Calls(r, "no_workload")
  /\ hot' = None
  /\ Continue(r)
  /\ UNCHANGED <<slot, torn, lease, browser, jobs, pods, verdict, sweeping, left>>

\* verifyTestSlotRunningImage; a mismatch is answered by another pass.
VerifyImage(r) ==
  /\ Calls(r, "verify")
  /\ LET image == Nearest(r).image IN
     IF hot = image THEN Continue(r)
     ELSE IF tasks[r].tries < deployImageReassertAttempts
       THEN Set(r, [tasks[r] EXCEPT !.todo = DeployCalls(image), !.tries = @ + 1])
       ELSE GiveUp(r)
  /\ UNCHANGED <<slot, torn, lease, hot, browser, jobs, pods, verdict, sweeping, left>>

\* Any call may fail or run into its deadline.
CallFails(r) ==
  /\ tasks[r].todo # <<>>
  /\ GiveUp(r)
  /\ Spend("faults")
  /\ UNCHANGED <<slot, torn, lease, hot, browser, jobs, pods, verdict, sweeping>>

Call(r) ==
  \/ DeleteJobs(r) \/ CreateJob(r) \/ WaitJob(r) \/ WaitPods(r)
  \/ Browser(r) \/ Workloads(r) \/ VerifyImage(r) \/ CallFails(r)

\* A pod runs helm to its end.
PodApplies(p) ==
  /\ hot' = CASE p.kind = "hot" -> p.image [] p.kind = "uninstall" -> None [] OTHER -> hot
  /\ jobs' = IF p.owned THEN [jobs EXCEPT ![p.kind] = "complete"] ELSE jobs
  /\ pods' = pods \ {p}
  /\ UNCHANGED <<slot, torn, lease, browser, tasks, verdict, sweeping, left>>

\* It fails as often as its Job allows.
PodFails(p) ==
  /\ p.owned
  /\ jobs' = [jobs EXCEPT ![p.kind] = "failed"]
  /\ pods' = pods \ {p}
  /\ Spend("faults")
  /\ UNCHANGED <<slot, torn, lease, hot, browser, tasks, verdict, sweeping>>

PodCollected(p) ==
  /\ ~p.owned
  /\ pods' = pods \ {p}
  /\ UNCHANGED <<slot, torn, lease, hot, browser, jobs, tasks, verdict, sweeping, left>>
-----------------------------------------------------------------------------
(* The activation of a checkout.                                             *)
Checkout ==
  /\ slot = "provisioned" /\ lease = "none"
  /\ slot' = "activating" /\ lease' = "claimed"
  /\ Start("activate", "activating", ActivationCalls)
  /\ UNCHANGED <<torn, hot, browser, jobs, pods, verdict, sweeping, left>>

\* The clean-up of a return cancels its context.
Interrupted ==
  /\ Is("cleanup", "await") /\ Is("activate", "activating") /\ tasks["activate"].todo # <<>>
  /\ GiveUp("activate")
  /\ UNCHANGED <<slot, torn, lease, hot, browser, jobs, pods, verdict, sweeping, left>>

\* activateTestSlotRuntime after its calls: it stops when the lease or the slot
\* has moved on.
StillActivating == lease = "claimed" /\ slot = "activating"
Activated ==
  /\ Done("activate", "activating")
  /\ IF ~StillActivating THEN Set("activate", Idle) /\ UNCHANGED slot
     ELSE IF tasks["activate"].failed
       THEN slot' = "error" /\ Start("activate", "undoing", TeardownCalls)
       ELSE slot' = "running" /\ Start("activate", "tidying", <<Delete(Kinds)>>)
  /\ UNCHANGED <<torn, lease, hot, browser, jobs, pods, verdict, sweeping, left>>

\* cleanupTestSlotInstaller ends it, whatever it returns.
Tidied ==
  /\ Done("activate", "tidying")
  /\ Set("activate", Idle)
  /\ UNCHANGED <<slot, torn, lease, hot, browser, jobs, pods, verdict, sweeping, left>>

\* A failed activation records how its teardown went and gives the lease back
\* either way.
Undone ==
  /\ Done("activate", "undoing")
  /\ slot' = IF tasks["activate"].failed THEN "error" ELSE "provisioned"
  /\ torn' = tasks["activate"].failed
  /\ Start("activate", "cancel", <<>>)
  /\ UNCHANGED <<lease, hot, browser, jobs, pods, verdict, sweeping, left>>

Cancelled ==
  /\ Is("activate", "cancel")
  /\ lease' = "released"
  /\ Set("activate", Idle)
  /\ UNCHANGED <<slot, torn, hot, browser, jobs, pods, verdict, sweeping, left>>
-----------------------------------------------------------------------------
(* Return and clean-up.                                                      *)

\* A return, a callback or the timer of the lease takes the slot to cleaning;
\* with its lease gone only a slot whose clean-up failed is taken again.
Return ==
  /\ lease = "claimed" \/ (slot = "error" /\ torn /\ lease = "released")
  /\ slot # "cleaning" /\ Is("cleanup", "idle")
  /\ Apart => Is("deploy", "idle")
  /\ slot' = "cleaning" /\ torn' = FALSE
  /\ Start("cleanup", "await", <<>>)
  /\ UNCHANGED <<lease, hot, browser, jobs, pods, verdict, sweeping, left>>

\* cancelInflightActivation: it waits for the activation to unwind.
CleanupBegins ==
  /\ Is("cleanup", "await") /\ Is("activate", "idle")
  /\ Start("cleanup", "cleaning", CleanupCalls)
  /\ UNCHANGED <<slot, torn, lease, hot, browser, jobs, pods, verdict, sweeping, left>>

\* The lease is released only behind a clean-up that succeeded ...
CleanupReleases ==
  /\ Done("cleanup", "cleaning") /\ ~tasks["cleanup"].failed
  /\ lease' = "released"
  /\ Start("cleanup", "released", <<>>)
  /\ UNCHANGED <<slot, torn, hot, browser, jobs, pods, verdict, sweeping, left>>

\* ... and then the slot is given back; a failure leaves it in error.
CleanupEnds ==
  /\ Is("cleanup", "released") \/ (Done("cleanup", "cleaning") /\ tasks["cleanup"].failed)
  /\ slot' = IF Is("cleanup", "released") THEN "provisioned" ELSE "error"
  /\ torn' = ~Is("cleanup", "released")
  /\ Set("cleanup", Idle)
  /\ UNCHANGED <<lease, hot, browser, jobs, pods, verdict, sweeping, left>>
-----------------------------------------------------------------------------
(* Deployment of an image.                                                   *)

\* deployImageToTestSlot: the lease is claimed and the slot not being cleaned.
\* Tank, its only caller, deploys one image at a time.
Deploy(image) ==
  /\ lease = "claimed" /\ slot # "cleaning" /\ Is("deploy", "idle")
  /\ verdict' = [status |-> "running", image |-> image]
  /\ Start("deploy", "await", <<>>)
  /\ Spend("deploys")
  /\ UNCHANGED <<slot, torn, lease, hot, browser, jobs, pods, sweeping>>

\* awaitInflightActivation: it waits for the end of the activation, not for how
\* it ended.
DeployBegins ==
  /\ Is("deploy", "await") /\ Is("activate", "idle")
  /\ Apart => slot = "running"
  /\ Start("deploy", "deploying", DeployCalls(verdict.image))
  /\ UNCHANGED <<slot, torn, lease, hot, browser, jobs, pods, verdict, sweeping, left>>

Deployed ==
  /\ Done("deploy", "deploying")
  /\ verdict' = [verdict EXCEPT !.status =
                    IF tasks["deploy"].failed THEN "deploy_failed" ELSE "deployed"]
  /\ Set("deploy", Idle)
  /\ UNCHANGED <<slot, torn, lease, hot, browser, jobs, pods, sweeping, left>>
-----------------------------------------------------------------------------
(* The process dies; Jobs and pods go on without it.                         *)
ServerDies ==
  /\ tasks' = [r \in Roles |-> Idle]
  /\ sweeping' = TRUE
  /\ Spend("crashes")
  /\ UNCHANGED <<slot, torn, lease, hot, browser, jobs, pods, verdict>>

\* RecoverInFlightTestSlots resumes what no goroutine of this process does.
Recover ==
  /\ sweeping /\ sweeping' = FALSE
  /\ IF slot = "activating" /\ lease = "claimed" /\ Is("activate", "idle")
       THEN Start("activate", "activating", ActivationCalls)
     ELSE IF (slot = "cleaning" \/ (slot = "error" /\ torn)) /\ Is("cleanup", "idle")
       THEN Start("cleanup", "await", <<>>)
     ELSE UNCHANGED tasks
  /\ UNCHANGED <<slot, torn, lease, hot, browser, jobs, pods, verdict, left>>
-----------------------------------------------------------------------------
UseInit ==
  /\ slot = "provisioned" /\ torn = FALSE /\ lease = "none"
  /\ hot = None /\ browser = FALSE
  /\ jobs = [k \in Kinds |-> "none"] /\ pods = {}
  /\ tasks = [r \in Roles |-> Idle]
  /\ verdict = [status |-> "none", image |-> None]
  /\ sweeping = FALSE
  /\ left = [deploys |-> MaxDeploys, faults |-> MaxFailedCalls, crashes |-> MaxCrashes]

UseNext ==
  \/ Checkout \/ Return \/ \E image \in Images : Deploy(image)
  \/ \E r \in Roles : Call(r)
  \/ Interrupted \/ Activated \/ Tidied \/ Undone \/ Cancelled
  \/ CleanupBegins \/ CleanupReleases \/ CleanupEnds
  \/ DeployBegins \/ Deployed
  \/ \E p \in pods : PodApplies(p) \/ PodFails(p) \/ PodCollected(p)
  \/ ServerDies \/ Recover
-----------------------------------------------------------------------------
(* A slot the allocator may hand out contains no runtime of the last       *)
(* tenant, and nothing is left that could install it again: clean-ups      *)
(* cancel the activation, delete its Jobs and wait for their pods before   *)
(* they delete what the Jobs have made, also when the process that began   *)
(* one dies (ReturnTestSlotRuntime).                                       *)
FreeSlotIsEmpty ==
    slot = "provisioned" /\ lease # "claimed" =>
        hot = None /\ ~browser /\ \A p \in pods : p.kind # "hot"
=============================================================================
