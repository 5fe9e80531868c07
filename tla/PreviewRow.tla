----------------------------- MODULE PreviewRow -----------------------------
(***************************************************************************)
(* The durable row of a live preview and the release store of the edge     *)
(* that serves it: the pure operators of preview_environment.go and of     *)
(* livepreview/release.go.  A row keeps what a session SAID it pushed      *)
(* (claimed) apart from what the edge was READ BACK serving (observed).    *)
(***************************************************************************)
EXTENDS Naturals, FiniteSets, FiniteSetsExt

CONSTANTS Builds,       \* build ids
          NoBuild,      \* no build: no push, or no override
          NoRow,        \* the row does not exist
          MaxPushes,    \* pushes and reverts a session sends to the edge
          KeepReleases  \* bundles the edge keeps after a push

ASSUME PreviewAssumption ==
    /\ MaxPushes \in Nat
    /\ KeepReleases \in Nat \ {0}
    /\ NoBuild \notin Builds

NewRow == [enabled |-> TRUE, state |-> "provisioning",
           claimed |-> NoBuild, observed |-> NoBuild]

PendingObservation(env) == env.claimed # NoBuild /\ env.observed # env.claimed

RecordPushReceipt(env, build) ==
    [env EXCEPT !.claimed = build, !.state = IF env.enabled THEN "pushed" ELSE @]

\* mutant: any override the edge serves confirms the push
RecordActive(env, status) ==
    [env EXCEPT !.observed = status,
                !.state = IF ~env.enabled THEN @
                          ELSE IF env.claimed = NoBuild THEN "ready"
                          ELSE IF status # NoBuild THEN "live" ELSE "stale"]

\* status: the build the edge serves, NoBuild when it passes requests through
RecordObserved(env, status) ==
    [env EXCEPT !.observed = status,
                !.state = IF ~env.enabled THEN @
                          ELSE IF env.claimed = NoBuild THEN "ready"
                          ELSE IF status = env.claimed THEN "live" ELSE "stale"]

MarkProvisioning(env) == [env EXCEPT !.enabled = TRUE, !.state = "provisioning"]

MarkReady(env) ==
    [env EXCEPT !.state = IF env.enabled /\ env.claimed # NoBuild THEN "pushed" ELSE "ready"]

MarkError(env) == [env EXCEPT !.state = "error"]

SetEnabled(env, on) ==
    [env EXCEPT !.enabled = on,
                !.state = CASE ~on                   -> "disabled"
                            [] on /\ @ = "disabled"  ->
                                   IF env.claimed = NoBuild THEN "ready" ELSE "pushed"
                            [] OTHER                 -> @]

-----------------------------------------------------------------------------
(* The edge's override directory.  A release is named by the time of its   *)
(* push, so the order of names is the order in which pushes began.         *)

Releases == 1..MaxPushes

EmptyEdge == [up |-> TRUE, dirs |-> {}, marked |-> {}, current |-> 0]
NoEdge == [EmptyEdge EXCEPT !.up = FALSE]

\* ActiveDistDir: the release the symlink leads to, if it is there
Active(e) == e.up /\ e.current \in e.dirs

Extracted(e, r) == [e EXCEPT !.dirs = @ \cup {r}]
Marked(e, r) == [e EXCEPT !.marked = @ \cup {r}]
Removed(e, gone) == [e EXCEPT !.dirs = @ \ gone, !.marked = @ \ gone]
Flipped(e, r) == [e EXCEPT !.current = r]

\* pruneReleases: all but the newest KeepReleases and the current one
Prunable(e) ==
    {r \in e.dirs : Cardinality({s \in e.dirs : s > r}) >= KeepReleases} \ {e.current}
=============================================================================
