--------------------------- MODULE PreviewTheorems ---------------------------
(***************************************************************************)
(* What holds of the two ways a session sees its build, for any builds and *)
(* images, any number of requests, pushes, deployments and faults: of the  *)
(* live preview lane first, then of the namespace of a test slot.          *)
(***************************************************************************)
EXTENDS Previews, SlotUse, TLAPS

-----------------------------------------------------------------------------
(* The live preview lane.                                                  *)

PreviewsSpec == Init /\ [][Next]_vars

PreviewStates == {"provisioning", "pushed", "live", "stale", "ready", "error", "disabled"}
Versions == Builds \cup {NoBuild}
Rows == [enabled : BOOLEAN, state : PreviewStates, claimed : Versions, observed : Versions]
Edges == [up : BOOLEAN, dirs : SUBSET Releases, marked : SUBSET Releases,
          current : Releases \cup {0}]
PushPCs == {"idle", "record", "receipt", "done"} \cup AtEdge
PushRecords == [pc : PushPCs, build : Versions]

\* A row is live for a build its session claimed, the edge was read back to serve and did
\* serve, and only while the preview is enabled.
RowOK(r, s) ==
    /\ r \in Rows
    /\ r.state = "live" => r.enabled /\ r.claimed \in s /\ r.observed = r.claimed

\* The release the edge leads to is of a push that is past its flip, so it is not
\* extracted again; the release it serves has been noted as served.
EdgeOK(e, p, s) ==
    /\ e \in Edges
    /\ e.current # 0 => p[e.current].pc \notin {"idle", "extract", "mark", "flip"}
    /\ Active(e) => p[e.current].build \in s

\* What a writer still has first claim on is the stored row.
StoreOK ==
    /\ row # NoRow => RowOK(row, served)
    /\ DOMAIN seen = Writers /\ fresh \subseteq Writers
    /\ \A w \in fresh : seen[w] = row

\* A read-back in hand is of a build served by then.
LaneInv ==
    /\ push \in [Releases -> PushRecords]
    /\ StoreOK
    /\ verifier \in [pc : {"idle", "read", "fold"}, status : Versions]
    /\ verifier.status \in served \cup {NoBuild}
    /\ EdgeOK(edge, push, served)

-----------------------------------------------------------------------------
\* The row's own operators keep a live row's build among the served ones; the read-back
\* does for a build that was served.
LEMMA RowOperators ==
    ASSUME NEW r, NEW s, RowOK(r, s)
    PROVE  /\ RowOK(MarkProvisioning(r), s) /\ RowOK(MarkReady(r), s) /\ RowOK(MarkError(r), s)
           /\ \A on \in BOOLEAN : RowOK(SetEnabled(r, on), s)
           /\ \A b \in Versions : RowOK(RecordPushReceipt(r, b), s)
           /\ \A b \in Versions :
                  b \in s \cup {NoBuild} => RowOK(RecordObserved(r, b), s)
<1> USE DEF RowOK, Rows, PreviewStates
<1>1. RowOK(MarkProvisioning(r), s) /\ RowOK(MarkReady(r), s) /\ RowOK(MarkError(r), s)
    BY DEF MarkProvisioning, MarkReady, MarkError
<1>2. ASSUME NEW on \in BOOLEAN PROVE RowOK(SetEnabled(r, on), s)
    BY DEF SetEnabled
<1>3. ASSUME NEW b \in Versions PROVE RowOK(RecordPushReceipt(r, b), s)
    BY DEF RecordPushReceipt
<1>4. ASSUME NEW b \in Versions, b \in s \cup {NoBuild}
      PROVE  RowOK(RecordObserved(r, b), s)
    BY <1>4 DEF RecordObserved
<1> QED BY <1>1, <1>2, <1>3, <1>4

\* A read gives the reader the stored row.
LEMMA ReadKeeps ==
    ASSUME StoreOK, NEW w \in Writers, ReadRow(w), UNCHANGED <<row, served>>
    PROVE  StoreOK'
<1>1. /\ seen' = [seen EXCEPT ![w] = row] /\ fresh' = fresh \cup {w}
      /\ DOMAIN seen = Writers /\ fresh \subseteq Writers
    BY DEF ReadRow, StoreOK
<1>2. DOMAIN seen' = Writers' /\ fresh' \subseteq Writers'
    BY <1>1 DEF Writers
<1>3. ASSUME NEW v \in fresh' PROVE seen'[v] = row'
    BY <1>1 DEF StoreOK
<1> QED BY <1>2, <1>3 DEF StoreOK

\* A write takes the writer's row for the stored one, and takes every first claim away.
LEMMA WriteKeeps ==
    ASSUME StoreOK, NEW w \in Writers, NEW next, WriteRow(w, next) \/ Conflict(w),
           RowOK(seen[w], served) => RowOK(next, served), UNCHANGED served
    PROVE  StoreOK'
<1>1. CASE WriteRow(w, next)
  <2>1. /\ row # NoRow /\ seen[w] = row /\ row' = next /\ fresh' = {}
        /\ seen' = [seen EXCEPT ![w] = NoRow]
      BY <1>1 DEF WriteRow, Matches, StoreOK
  <2>2. RowOK(row', served')
      BY <2>1 DEF StoreOK
  <2> QED BY <2>1, <2>2 DEF StoreOK, Writers
<1>2. CASE Conflict(w)
  <2>1. /\ seen' = [seen EXCEPT ![w] = NoRow] /\ UNCHANGED <<row, fresh>>
        /\ row = NoRow \/ w \notin fresh
      BY <1>2 DEF Conflict, Matches
  <2>2. ASSUME NEW v \in fresh' PROVE seen'[v] = row'
      BY <2>1 DEF StoreOK
  <2> QED BY <2>1, <2>2 DEF StoreOK, Writers
<1> QED BY <1>1, <1>2

\* An edge without releases serves none.
LEMMA EmptyEdges ==
    ASSUME NEW p, NEW s
    PROVE  EdgeOK(EmptyEdge, p, s) /\ EdgeOK(NoEdge, p, s)
    BY DEF EdgeOK, EmptyEdge, NoEdge, Edges, Active, Releases

\* A pod that goes takes the pushes at it with it.
LEMMA DropKeeps ==
    ASSUME push \in [Releases -> PushRecords], DropPushes
    PROVE  push' \in [Releases -> PushRecords]
    BY DEF DropPushes, PushRecords, PushPCs

\* Requests read and write the row and leave the edge's releases alone, but for the pod
\* they bring up, replace or take down.
LEMMA RequestKeeps ==
    ASSUME LaneInv, NEW i \in Requests, Ask(i) \/ Provision(i) \/ Control(i)
    PROVE  LaneInv'
<1> DEFINE w == <<"request", i>>
<1>w. w \in Writers
    BY DEF Writers
<1>a. UNCHANGED <<verifier, served>>
    BY DEF Ask, Provision, Control, Send, Create, Reread, Reset, Prepare, Install, Note, Noted,
           Read, Toggle, Cleanup, Deprovision, DeleteRow, past
<1>b. StoreOK'
  <2>1. CASE UNCHANGED <<row, seen, fresh>>
      BY <2>1, <1>a DEF StoreOK, Writers, LaneInv
  <2>2. CASE ReadRow(w) /\ UNCHANGED row
      BY <2>2, <1>a, <1>w, ReadKeeps DEF LaneInv
  <2>3. CASE Insert /\ UNCHANGED seen
    <3>1. RowOK(NewRow, served')
        BY DEF RowOK, NewRow, Rows, PreviewStates, Versions
    <3> QED BY <2>3, <3>1 DEF Insert, StoreOK, Writers, LaneInv
  <2>4. CASE Erase /\ UNCHANGED seen
      BY <2>4 DEF Erase, StoreOK, Writers, LaneInv
  <2>5. ASSUME NEW next, WriteRow(w, next) \/ Conflict(w),
               next \in {MarkProvisioning(seen[w]), MarkReady(seen[w]), MarkError(seen[w])}
                            \cup {SetEnabled(seen[w], on) : on \in BOOLEAN}
        PROVE  StoreOK'
    <3>1. RowOK(seen[w], served) => RowOK(next, served)
        BY <2>5, RowOperators
    <3> QED BY <2>5, <3>1, <1>a, <1>w, WriteKeeps DEF LaneInv
  <2>6. CASE Ask(i)
      BY <2>6, <2>1 DEF Ask, Send
  <2>7. CASE Create(i) \/ Reread(i) \/ Note(i) \/ Read(i)
      BY <2>7, <2>1, <2>2, <2>3 DEF Create, Reread, Note, Read
  <2>8. CASE Prepare(i) \/ Install(i) \/ Cleanup(i) \/ Deprovision(i)
      BY <2>8, <2>1 DEF Prepare, Install, Cleanup, Deprovision
  <2>9. CASE DeleteRow(i)
      BY <2>9, <2>4 DEF DeleteRow
  <2>10. CASE Reset(i)
      BY <2>10, <2>5 DEF Reset
  <2>11. CASE Noted(i)
      BY <2>11, <2>5 DEF Noted
  <2>12. CASE Toggle(i)
    <3>1. PICK on \in BOOLEAN : on = (request[i].op = "enable")
        OBVIOUS
    <3>2. WriteRow(w, SetEnabled(seen[w], on)) \/ Conflict(w)
        BY <2>12, <3>1 DEF Toggle
    <3> QED BY <3>2, <2>5
  <2> QED BY <2>6, <2>7, <2>8, <2>9, <2>10, <2>11, <2>12 DEF Provision, Control
<1>c. push' \in [Releases -> PushRecords] /\ EdgeOK(edge', push', served')
  <2>1. CASE UNCHANGED <<edge, push>>
      BY <2>1, <1>a DEF LaneInv
  <2>2. CASE edge' \in {EmptyEdge, NoEdge} /\ DropPushes
      BY <2>2, EmptyEdges, DropKeeps DEF LaneInv
  <2>3. CASE Install(i)
      BY <2>3, <2>1, <2>2 DEF Install
  <2>4. CASE Deprovision(i)
      BY <2>4, <2>1, <2>2 DEF Deprovision
  <2>5. CASE ~(Install(i) \/ Deprovision(i))
    <3>1. UNCHANGED <<edge, push>>
        BY <2>5 DEF Ask, Provision, Control, Send, Create, Reread, Reset, Prepare, Note, Noted,
                    Read, Toggle, Cleanup, DeleteRow
    <3> QED BY <3>1, <2>1
  <2> QED BY <2>3, <2>4, <2>5
<1> QED BY <1>a, <1>b, <1>c DEF LaneInv

-----------------------------------------------------------------------------
\* A push goes through its releases without touching the row.
LEMMA StoreKeeps ==
    ASSUME LaneInv, NEW i \in Releases, Session(i) \/ AtStore(i)
    PROVE  LaneInv'
<1>1. UNCHANGED <<row, seen, fresh, verifier>>
    BY DEF Session, AtStore, Begin, Extract, Mark, Flip, Prune, Unlink, Clear, past
<1>2. served \subseteq served' /\ (~Flip(i) => served' = served)
    BY DEF Session, AtStore, Begin, Extract, Mark, Flip, Prune, Unlink, Clear, past
<1>3. StoreOK'
  <2>1. ASSUME NEW r, RowOK(r, served) PROVE RowOK(r, served')
      BY <2>1, <1>2 DEF RowOK
  <2> QED BY <1>1, <2>1 DEF StoreOK, Writers, LaneInv
<1>4. verifier'.status \in served' \cup {NoBuild}
    BY <1>1, <1>2 DEF LaneInv
<1>5. push \in [Releases -> PushRecords] /\ edge \in Edges /\ EdgeOK(edge, push, served)
    BY DEF LaneInv, EdgeOK
<1>6. push' \in [Releases -> PushRecords] /\ EdgeOK(edge', push', served')
  <2>1. CASE Session(i)
    <3>1. PICK build \in Versions : Begin(i, build)
        BY <2>1 DEF Session, Versions
    <3>2. /\ push[i].pc = "idle" /\ edge' = edge /\ served' = served
          /\ push' = [push EXCEPT ![i] = [build |-> build,
                          pc |-> IF build = NoBuild THEN "unlink" ELSE "extract"]]
        BY <3>1 DEF Begin, past
    <3>3. push' \in [Releases -> PushRecords]
        BY <1>5, <3>2 DEF PushRecords, PushPCs, AtEdge
    <3>4. edge.current # i
        BY <1>5, <3>2 DEF EdgeOK, Releases
    <3>5. edge.current # 0 => push'[edge.current] = push[edge.current]
        BY <1>5, <3>2, <3>4 DEF Edges
    <3>6. Active(edge) => edge.current # 0
        BY <1>5 DEF Active, Edges, Releases
    <3> QED BY <1>5, <3>2, <3>3, <3>5, <3>6 DEF EdgeOK
  <2>2. ASSUME AtStore(i), NEW pc \in PushPCs, Pushes(i, pc)
        PROVE  /\ push' \in [Releases -> PushRecords]
               /\ push'[i].pc = pc /\ push'[i].build = push[i].build
               /\ \A j \in Releases \ {i} : push'[j] = push[j]
      BY <1>5, <2>2 DEF Pushes, PushRecords
  <2>3. edge.current \notin {0, i} => edge.current \in Releases \ {i}
      BY <1>5 DEF Edges
  <2>4. Active(edge) => edge.current \in Releases
      BY <1>5 DEF Active, Edges, Releases
  <2>5. CASE Extract(i) \/ Mark(i)
    <3>1. PICK pc \in {"mark", "flip", "done"} : Pushes(i, pc)
        BY <2>5 DEF Extract, Mark
    <3>2. push[i].pc \in {"extract", "mark"} /\ served' = served
        BY <2>5 DEF Extract, Mark, past
    <3>3. edge.current # i
        BY <1>5, <3>2 DEF EdgeOK, Releases
    <3>4. edge' \in {edge, Extracted(edge, i), Marked(edge, i)}
        BY <2>5 DEF Extract, Mark
    <3>5. /\ edge' \in Edges /\ edge'.current = edge.current
          /\ edge'.up = edge.up /\ edge'.dirs \subseteq edge.dirs \cup {i}
        BY <1>5, <3>4 DEF Edges, Extracted, Marked
    <3>6. AtStore(i) /\ pc \in PushPCs
        BY <2>5, <3>1 DEF AtStore, PushPCs, AtEdge
    <3>7. /\ push' \in [Releases -> PushRecords]
          /\ \A j \in Releases \ {i} : push'[j] = push[j]
        BY <2>2, <3>1, <3>6
    <3>8. Active(edge') => Active(edge)
        BY <3>3, <3>5 DEF Active
    <3> QED BY <1>5, <2>3, <2>4, <3>2, <3>3, <3>5, <3>7, <3>8 DEF EdgeOK, Releases
  <2>6. CASE Flip(i)
    <3>1. /\ push[i].pc = "flip" /\ edge' = Flipped(edge, i) /\ Pushes(i, "prune")
          /\ served' = IF Active(edge') THEN served \cup {push[i].build} ELSE served
        BY <2>6 DEF Flip
    <3>2. AtStore(i) /\ "prune" \in PushPCs
        BY <2>6 DEF AtStore, PushPCs, AtEdge
    <3>3. /\ push' \in [Releases -> PushRecords] /\ push'[i].pc = "prune"
          /\ push'[i].build = push[i].build
        BY <2>2, <3>1, <3>2
    <3>4. edge' \in Edges /\ edge'.current = i
        BY <1>5, <3>1 DEF Edges, Flipped
    <3> QED BY <3>1, <3>3, <3>4 DEF EdgeOK
  <2>7. CASE Prune(i) \/ Unlink(i) \/ Clear(i)
    <3>1. PICK pc \in {"receipt", "clear", "done"} : Pushes(i, pc)
        BY <2>7 DEF Prune, Unlink, Clear
    <3>2. served' = served
        BY <2>7 DEF Prune, Unlink, Clear, past
    <3>3. edge' \in {Removed(edge, Prunable(edge)), Flipped(edge, 0), Removed(edge, Releases)}
        BY <2>7 DEF Prune, Unlink, Clear
    <3>4. /\ edge' \in Edges /\ edge'.current \in {0, edge.current}
          /\ edge'.up = edge.up /\ edge'.dirs \subseteq edge.dirs
        BY <1>5, <3>3 DEF Edges, Removed, Flipped
    <3>5. AtStore(i) /\ pc \in PushPCs
        BY <2>7, <3>1 DEF AtStore, PushPCs, AtEdge
    <3>6. /\ push' \in [Releases -> PushRecords] /\ push'[i].build = push[i].build
          /\ push'[i].pc = pc /\ \A j \in Releases \ {i} : push'[j] = push[j]
        BY <2>2, <3>1, <3>5
    <3>7. 0 \notin edge'.dirs
        BY <3>4 DEF Edges, Releases
    <3>8. Active(edge') => Active(edge) /\ edge'.current = edge.current
        BY <3>4, <3>7 DEF Active
    <3>9. edge'.current # 0 => push'[edge'.current].pc \notin {"idle", "extract", "mark", "flip"}
        BY <1>5, <2>3, <3>1, <3>4, <3>6 DEF EdgeOK
    <3> QED BY <1>5, <2>3, <2>4, <3>2, <3>4, <3>6, <3>8, <3>9 DEF EdgeOK
  <2> QED BY <2>1, <2>5, <2>6, <2>7 DEF AtStore
<1>7. verifier' \in [pc : {"idle", "read", "fold"}, status : Versions]
    BY <1>1 DEF LaneInv
<1> QED BY <1>3, <1>4, <1>6, <1>7 DEF LaneInv

\* A receipt moves the row to the build of its push, and the edge not at all.
LEMMA ReceiptKeeps ==
    ASSUME LaneInv, NEW i \in Releases, Receipt(i)
    PROVE  LaneInv'
<1> DEFINE w == <<"push", i>>
<1>w. w \in Writers
    BY DEF Writers
<1>1. /\ UNCHANGED <<edge, verifier, served>> /\ push[i].pc \in {"receipt", "record"}
      /\ \E pc \in {"receipt", "record", "done"} : Pushes(i, pc)
    BY DEF Receipt, ReadReceipt, Record, past
<1>2. push[i] \in PushRecords
    BY DEF LaneInv
<1>3. StoreOK'
  <2>1. CASE UNCHANGED <<row, seen, fresh>>
      BY <2>1, <1>1 DEF StoreOK, Writers, LaneInv
  <2>2. CASE ReadReceipt(i)
      BY <2>1, <2>2, <1>w, <1>1, ReadKeeps DEF ReadReceipt, LaneInv, past
  <2>3. CASE Record(i)
    <3>1. WriteRow(w, RecordPushReceipt(seen[w], push[i].build)) \/ Conflict(w)
        BY <2>3 DEF Record
    <3>2. RowOK(seen[w], served) => RowOK(RecordPushReceipt(seen[w], push[i].build), served)
        BY <1>2, RowOperators DEF PushRecords
    <3> QED BY <3>1, <3>2, <1>w, <1>1, WriteKeeps DEF LaneInv
  <2> QED BY <2>2, <2>3 DEF Receipt
<1>4. push' \in [Releases -> PushRecords] /\ EdgeOK(edge', push', served')
  <2>1. PICK pc \in {"receipt", "record", "done"} : push' = [push EXCEPT ![i].pc = pc]
      BY <1>1 DEF Pushes
  <2>2. push' \in [Releases -> PushRecords]
      BY <2>1 DEF LaneInv, PushRecords, PushPCs
  <2>3. /\ \A j \in Releases : push'[j].build = push[j].build
        /\ \A j \in Releases : push'[j].pc \in {push[j].pc, "receipt", "record", "done"}
      BY <2>1 DEF LaneInv, PushRecords
  <2>4. Active(edge) => edge.current \in Releases
      BY DEF LaneInv, EdgeOK, Active, Edges, Releases
  <2>5. edge.current # 0 => edge.current \in Releases
      BY DEF LaneInv, EdgeOK, Edges
  <2> QED BY <1>1, <2>2, <2>3, <2>4, <2>5 DEF LaneInv, EdgeOK
<1> QED BY <1>1, <1>3, <1>4 DEF LaneInv

\* What the verifier reads back the edge serves, and has served when it is folded in.
LEMMA VerifyKeeps ==
    ASSUME LaneInv, Verify
    PROVE  LaneInv'
<1>w. Verifier \in Writers
    BY DEF Verifier, Writers
<1>1. UNCHANGED <<edge, push, served>>
    BY DEF Verify, ReadStatus, ReadBack, Fold, past
<1>2. /\ verifier' \in [pc : {"idle", "read", "fold"}, status : Versions]
      /\ verifier'.status \in served' \cup {NoBuild}
  <2>1. Serving \in Versions /\ Serving \in served \cup {NoBuild}
    <3>1. Active(edge) => edge.current \in Releases /\ push[edge.current].build \in Versions
        BY DEF LaneInv, EdgeOK, Active, Edges, Releases, PushRecords
    <3>2. NoBuild \in Versions
        BY DEF Versions
    <3> QED BY <3>1, <3>2 DEF LaneInv, EdgeOK, Serving, BuildOf
  <2>2. \/ verifier' = verifier
        \/ verifier' = [verifier EXCEPT !.pc = "fold"]
        \/ verifier' = [pc |-> "idle", status |-> NoBuild]
        \/ verifier' = [pc |-> "read", status |-> Serving]
      BY DEF Verify, ReadStatus, ReadBack, Fold
  <2> QED BY <1>1, <2>1, <2>2 DEF LaneInv, Versions
<1>3. StoreOK'
  <2>1. CASE ReadStatus
      BY <2>1, <1>1 DEF ReadStatus, StoreOK, Writers, LaneInv
  <2>2. CASE ReadBack
    <3>1. CASE ReadRow(Verifier)
        BY <2>2, <3>1, <1>w, <1>1, ReadKeeps DEF ReadBack, LaneInv
    <3>2. CASE UNCHANGED <<seen, fresh>>
        BY <2>2, <3>2, <1>1 DEF ReadBack, StoreOK, Writers, LaneInv
    <3> QED BY <2>2, <3>1, <3>2 DEF ReadBack
  <2>3. CASE Fold
    <3>1. WriteRow(Verifier, RecordObserved(seen[Verifier], verifier.status))
              \/ Conflict(Verifier)
        BY <2>3 DEF Fold
    <3>2. verifier.status \in Versions /\ verifier.status \in served \cup {NoBuild}
        BY DEF LaneInv
    <3>3. RowOK(seen[Verifier], served)
              => RowOK(RecordObserved(seen[Verifier], verifier.status), served)
        BY <3>2, RowOperators
    <3> QED BY <3>1, <3>3, <1>w, <1>1, WriteKeeps DEF LaneInv
  <2> QED BY <2>1, <2>2, <2>3 DEF Verify
<1> QED BY <1>1, <1>2, <1>3 DEF LaneInv

\* A process that dies loses what its handlers read, a pod that is replaced its releases.
LEMMA FaultKeeps ==
    ASSUME LaneInv, Crash \/ RestartEdge
    PROVE  LaneInv'
<1>1. CASE Crash
  <2>1. /\ UNCHANGED <<row, edge, served>>
        /\ push' = [i \in Releases |->
               IF push[i].pc = "record" THEN [push[i] EXCEPT !.pc = "receipt"] ELSE push[i]]
        /\ verifier' = [pc |-> "idle", status |-> NoBuild]
        /\ seen' = [w \in Writers |-> NoRow] /\ fresh' = {}
      BY <1>1 DEF Crash, past
  <2>2. /\ push' \in [Releases -> PushRecords]
        /\ \A j \in Releases : /\ push'[j].build = push[j].build
                               /\ push'[j].pc \in {push[j].pc, "receipt"}
      BY <2>1 DEF LaneInv, PushRecords, PushPCs
  <2>3. Active(edge) \/ edge.current # 0 => edge.current \in Releases
      BY DEF LaneInv, EdgeOK, Active, Edges, Releases
  <2>4. EdgeOK(edge', push', served')
      BY <2>1, <2>2, <2>3 DEF LaneInv, EdgeOK
  <2>5. StoreOK'
      BY <2>1 DEF LaneInv, StoreOK, Writers
  <2>6. /\ verifier' \in [pc : {"idle", "read", "fold"}, status : Versions]
        /\ verifier'.status \in served' \cup {NoBuild}
      BY <2>1 DEF Versions
  <2> QED BY <2>2, <2>4, <2>5, <2>6 DEF LaneInv
<1>2. CASE RestartEdge
  <2>1. /\ edge' = EmptyEdge /\ DropPushes
        /\ UNCHANGED <<row, verifier, seen, fresh, served>>
      BY <1>2 DEF RestartEdge, past
  <2>2. StoreOK'
      BY <2>1 DEF LaneInv, StoreOK, Writers
  <2> QED BY <2>1, <2>2, EmptyEdges, DropKeeps DEF LaneInv
<1> QED BY <1>1, <1>2

-----------------------------------------------------------------------------
\* The lane starts with no row, no edge and nothing served.
LEMMA InitLane == Init => LaneInv
<1> SUFFICES ASSUME Init PROVE LaneInv
    OBVIOUS
<1>1. push \in [Releases -> PushRecords]
    BY DEF Init, PushRecords, PushPCs, Versions
<1>2. StoreOK
    BY DEF Init, StoreOK, Writers
<1>3. EdgeOK(edge, push, served)
    BY EmptyEdges DEF Init
<1> QED BY <1>1, <1>2, <1>3 DEF Init, LaneInv, Versions

\* Every step keeps it.
LEMMA LaneStep == LaneInv /\ [Next]_vars => LaneInv'
<1> SUFFICES ASSUME LaneInv, [Next]_vars PROVE LaneInv'
    OBVIOUS
<1>1. CASE UNCHANGED <<row, edge, push, verifier, seen, fresh, served>>
    BY <1>1 DEF LaneInv, StoreOK, Writers
<1>2. CASE Sweep \/ UNCHANGED vars
    BY <1>1, <1>2 DEF Sweep, SweepList, Reclaim, past, vars
<1>3. CASE Next
    BY <1>2, <1>3, RequestKeeps, StoreKeeps, ReceiptKeeps, VerifyKeeps, FaultKeeps DEF Next
<1> QED BY <1>2, <1>3

\* Observed, not claimed: whatever the sessions claimed, in whatever order read-backs and
\* receipts reached the row, a preview shown live is of a build the edge has served
\* (RecordObserved, UpdatePreviewEnvironmentIfMatch).
THEOREM AlwaysServed == PreviewsSpec => []LiveWasServed
<1>1. LaneInv => LiveWasServed
    BY DEF LaneInv, StoreOK, RowOK, LiveWasServed
<1> QED BY <1>1, InitLane, LaneStep, PTL DEF PreviewsSpec

-----------------------------------------------------------------------------
(* The namespace of a slot.                                                *)

UseSpec == UseInit /\ [][UseNext]_useVars

Installs == Images \cup {Base, None}
CallRecords ==
    [do : {"delete"}, kinds : SUBSET Kinds]
        \cup [do : {"create"}, kind : Kinds, image : Installs] \cup [do : {"wait"}, kind : Kinds]
        \cup [do : {"pods_gone", "browser", "no_browser", "no_workload"}]
        \cup [do : {"verify"}, image : Installs]
TaskPCs == {"idle", "activating", "tidying", "undoing", "cancel", "await", "cleaning", "released",
            "deploying"}
TaskRecords == [pc : TaskPCs, todo : Seq(CallRecords), failed : BOOLEAN, tries : Nat]
PodRecords == [kind : Kinds, image : Installs, owned : BOOLEAN]

UseTypes ==
    /\ tasks \in [Roles -> TaskRecords] /\ pods \subseteq PodRecords
    /\ verdict.image \in Installs /\ DOMAIN verdict = {"status", "image"}

\* The points of the goroutines at which the slot's release may be installed, and those at
\* which it is taken away.
Installing == {"activating", "tidying", "deploying"}
Clearing == {"undoing", "cleaning"}

\* An activation, a clean-up behind it and a deployment exclude each other, and so do an
\* installation and a slot that is free.
Exclusive ==
    LET activate == tasks["activate"].pc cleanup == tasks["cleanup"].pc
        deploy == tasks["deploy"].pc IN
    /\ activate \in {"idle", "activating", "tidying", "undoing", "cancel"}
    /\ cleanup \in {"idle", "await", "cleaning", "released"}
    /\ deploy \in {"idle", "await", "deploying"}
    /\ activate # "idle" => cleanup \in {"idle", "await"} /\ deploy # "deploying"
    /\ activate \in Installing => slot # "provisioned"
    /\ cleanup # "idle" => slot \notin {"activating", "running"}
    /\ deploy = "deploying" => cleanup = "idle" /\ slot = "running"
    /\ lease = "none" => slot = "provisioned" /\ \A r \in Roles : tasks[r].pc = "idle"

\* What a goroutine has still to call.
Ahead(todo, what) == \E n \in DOMAIN todo : todo[n].do = what
Harmless(todo) ==
    \A n \in DOMAIN todo :
        /\ todo[n].do \in {"delete", "create", "wait", "pods_gone", "no_browser", "no_workload"}
        /\ todo[n].do = "create" => todo[n].kind # "hot"
\* Pods are waited for before what they install is deleted.
Ordered(todo) ==
    \A m, n \in DOMAIN todo : todo[m].do = "pods_gone" /\ todo[n].do = "no_workload" => m < n

NoHotPod == \A p \in pods : p.kind # "hot"
Gone == hot = None /\ NoHotPod
Empty == Gone /\ ~browser

\* How far a teardown has got.
Cleared(todo) ==
    /\ Ahead(todo, "pods_gone") \/ NoHotPod
    /\ Ahead(todo, "no_browser") \/ ~browser
    /\ Ahead(todo, "no_workload") \/ Gone

TaskOK(task) ==
    /\ task.pc \notin Installing \cup Clearing => task.todo = <<>>
    /\ task.failed => task.todo = <<>>
    /\ task.pc \in Clearing => Harmless(task.todo) /\ Ordered(task.todo)
    /\ task.pc \in Clearing /\ ~task.failed => Cleared(task.todo)

UseInv ==
    /\ UseTypes /\ Exclusive
    /\ \A r \in Roles : TaskOK(tasks[r])
    /\ slot = "provisioned" \/ tasks["cleanup"].pc = "released" => Empty

-----------------------------------------------------------------------------
\* The members of a list without its first one.
LEMMA TailOf ==
    ASSUME NEW S, NEW q \in Seq(S), q # <<>>
    PROVE  /\ Tail(q) \in Seq(S) /\ Head(q) = q[1] /\ 1 \in DOMAIN q /\ Head(q) \in S
           /\ \A n \in DOMAIN Tail(q) : n + 1 \in DOMAIN q /\ Tail(q)[n] = q[n + 1]
           /\ \A n \in DOMAIN q : n # 1 => n - 1 \in DOMAIN Tail(q) /\ Tail(q)[n - 1] = q[n]
    OBVIOUS

\* Two lists of calls make one.
LEMMA Joined ==
    ASSUME NEW S, NEW p \in Seq(S), NEW q \in Seq(S)
    PROVE  p \o q \in Seq(S)
    OBVIOUS

\* The lists of calls, and what the two teardowns have in front of them.
LEMMA Lists ==
    /\ ActivationCalls \in Seq(CallRecords) /\ TeardownCalls \in Seq(CallRecords)
    /\ CleanupCalls \in Seq(CallRecords)
    /\ <<Delete(Kinds)>> \in Seq(CallRecords) /\ <<>> \in Seq(CallRecords)
    /\ \A image \in Installs : DeployCalls(image) \in Seq(CallRecords)
<1>1. ASSUME NEW kind \in Kinds, NEW image \in Installs
      PROVE  Reconcile(kind, image) \in Seq(CallRecords)
  <2>1. /\ Delete({kind}) \in CallRecords /\ CreateCall(kind, image) \in CallRecords
        /\ Await(kind) \in CallRecords
      BY DEF Delete, CreateCall, Await, CallRecords
  <2> QED BY <2>1 DEF Reconcile
<1>2. /\ Only("browser") \in CallRecords /\ Only("pods_gone") \in CallRecords
      /\ Only("no_browser") \in CallRecords /\ Only("no_workload") \in CallRecords
      /\ Delete(Kinds) \in CallRecords /\ Await("uninstall") \in CallRecords
      /\ CreateCall("uninstall", None) \in CallRecords
    BY DEF Only, Delete, Await, CreateCall, CallRecords, Kinds, Installs
<1>3. "warm" \in Kinds /\ "hot" \in Kinds /\ None \in Installs /\ Base \in Installs
    BY DEF Kinds, Installs
<1>4. TeardownCalls \in Seq(CallRecords)
  <2> DEFINE first == <<Delete(Kinds), Only("pods_gone"), CreateCall("uninstall", None)>>
             last == <<Await("uninstall"), Only("no_browser"), Only("no_workload")>>
  <2>1. first \in Seq(CallRecords) /\ last \in Seq(CallRecords)
      BY <1>2
  <2>2. TeardownCalls = first \o last
      BY DEF TeardownCalls
  <2> HIDE DEF first, last
  <2> QED BY <2>1, <2>2, Joined
<1>5. ASSUME NEW image \in Installs PROVE DeployCalls(image) \in Seq(CallRecords)
  <2>1. [do |-> "verify", image |-> image] \in CallRecords
      BY DEF CallRecords
  <2>2. <<[do |-> "verify", image |-> image]>> \in Seq(CallRecords)
      BY <2>1
  <2>3. DeployCalls(image) = Reconcile("hot", image) \o <<[do |-> "verify", image |-> image]>>
      BY DEF DeployCalls
  <2>4. Reconcile("hot", image) \in Seq(CallRecords)
      BY <1>1, <1>3
  <2> QED BY <2>2, <2>3, <2>4, Joined
<1>6. <<Only("browser")>> \in Seq(CallRecords) /\ <<Delete(Kinds)>> \in Seq(CallRecords)
    BY <1>2
<1>7. ActivationCalls \in Seq(CallRecords)
    BY <1>1, <1>3, <1>6 DEF ActivationCalls
<1>8. CleanupCalls \in Seq(CallRecords)
    BY <1>1, <1>3, <1>4 DEF CleanupCalls
<1> QED BY <1>4, <1>5, <1>6, <1>7, <1>8

\* A list that starts with the teardown calls and then only brings up the warm release.
LEMMA Teardowns ==
    \A calls \in {TeardownCalls, CleanupCalls} :
        /\ Harmless(calls) /\ Ordered(calls)
        /\ Ahead(calls, "pods_gone") /\ Ahead(calls, "no_browser") /\ Ahead(calls, "no_workload")
<1>1. /\ DOMAIN TeardownCalls = 1..6
      /\ TeardownCalls[1] = Delete(Kinds) /\ TeardownCalls[2] = Only("pods_gone")
      /\ TeardownCalls[3] = CreateCall("uninstall", None)
      /\ TeardownCalls[4] = Await("uninstall") /\ TeardownCalls[5] = Only("no_browser")
      /\ TeardownCalls[6] = Only("no_workload")
    BY DEF TeardownCalls
<1>2. /\ DOMAIN CleanupCalls = 1..9
      /\ CleanupCalls[1] = Delete(Kinds) /\ CleanupCalls[2] = Only("pods_gone")
      /\ CleanupCalls[3] = CreateCall("uninstall", None)
      /\ CleanupCalls[4] = Await("uninstall") /\ CleanupCalls[5] = Only("no_browser")
      /\ CleanupCalls[6] = Only("no_workload") /\ CleanupCalls[7] = Delete({"warm"})
      /\ CleanupCalls[8] = CreateCall("warm", None) /\ CleanupCalls[9] = Await("warm")
    BY DEF CleanupCalls, TeardownCalls, Reconcile
<1>3. ASSUME NEW calls, NEW size \in {6, 9}, DOMAIN calls = 1..size,
             calls[1].do = "delete", calls[2].do = "pods_gone", calls[3].do = "create",
             calls[4].do = "wait", calls[5].do = "no_browser", calls[6].do = "no_workload",
             calls[3].kind = "uninstall",
             size = 9 => calls[7].do = "delete" /\ calls[8].do = "create"
                         /\ calls[9].do = "wait" /\ calls[8].kind = "warm"
      PROVE  /\ Harmless(calls) /\ Ordered(calls)
             /\ Ahead(calls, "pods_gone") /\ Ahead(calls, "no_browser")
             /\ Ahead(calls, "no_workload")
  <2>1. \A n \in DOMAIN calls : n \in {1, 2, 3, 4, 5, 6} \/ (size = 9 /\ n \in {7, 8, 9})
      BY <1>3
  <2>2. Harmless(calls)
      BY <1>3, <2>1 DEF Harmless
  <2>3. \A n \in DOMAIN calls : /\ calls[n].do = "pods_gone" => n = 2
                                /\ calls[n].do = "no_workload" => n = 6
      BY <1>3, <2>1
  <2>4. Ordered(calls)
      BY <2>3 DEF Ordered
  <2>5. {2, 5, 6} \subseteq DOMAIN calls
      BY <1>3
  <2> QED BY <1>3, <2>2, <2>4, <2>5 DEF Ahead
<1>4. ASSUME NEW calls \in {TeardownCalls, CleanupCalls}
      PROVE  \E size \in {6, 9} :
                 /\ DOMAIN calls = 1..size
                 /\ calls[1].do = "delete" /\ calls[2].do = "pods_gone"
                 /\ calls[3].do = "create" /\ calls[4].do = "wait"
                 /\ calls[5].do = "no_browser" /\ calls[6].do = "no_workload"
                 /\ calls[3].kind = "uninstall"
                 /\ size = 9 => calls[7].do = "delete" /\ calls[8].do = "create"
                                /\ calls[9].do = "wait" /\ calls[8].kind = "warm"
    BY <1>1, <1>2 DEF Delete, Only, CreateCall, Await
<1> QED BY <1>3, <1>4

-----------------------------------------------------------------------------
\* Taking the first call off a list.
LEMMA Onward ==
    ASSUME NEW q \in Seq(CallRecords), q # <<>>
    PROVE  /\ Harmless(q) => Harmless(Tail(q))
           /\ Ordered(q) => Ordered(Tail(q))
           /\ \A what : Ahead(q, what) => Head(q).do = what \/ Ahead(Tail(q), what)
           /\ Ordered(q) /\ Head(q).do = "no_workload" => ~Ahead(q, "pods_gone")
<1>1. /\ \A n \in DOMAIN Tail(q) : n + 1 \in DOMAIN q /\ Tail(q)[n] = q[n + 1]
      /\ \A n \in DOMAIN q : n # 1 => n - 1 \in DOMAIN Tail(q) /\ Tail(q)[n - 1] = q[n]
      /\ Head(q) = q[1] /\ 1 \in DOMAIN q /\ DOMAIN q \subseteq Nat \ {0}
      /\ DOMAIN Tail(q) \subseteq Nat \ {0}
    BY TailOf
<1>2. Harmless(q) => Harmless(Tail(q))
    BY <1>1 DEF Harmless
<1>3. Ordered(q) => Ordered(Tail(q))
    BY <1>1 DEF Ordered
<1>4. ASSUME NEW what, Ahead(q, what) PROVE Head(q).do = what \/ Ahead(Tail(q), what)
    BY <1>1, <1>4 DEF Ahead
<1>5. Ordered(q) /\ Head(q).do = "no_workload" => ~Ahead(q, "pods_gone")
    BY <1>1 DEF Ordered, Ahead
<1> QED BY <1>2, <1>3, <1>4, <1>5

\* A step of one goroutine that leaves the namespace alone.
LEMMA Settle ==
    ASSUME UseInv, NEW r \in Roles, NEW task \in TaskRecords,
           tasks' = [tasks EXCEPT ![r] = task], UNCHANGED <<hot, browser, pods>>,
           verdict'.image \in Installs /\ DOMAIN verdict' = {"status", "image"},
           TaskOK(task), Exclusive',
           slot' = "provisioned" \/ tasks'["cleanup"].pc = "released" => Empty
    PROVE  UseInv'
<1>1. tasks' \in [Roles -> TaskRecords] /\ pods' \subseteq PodRecords
    BY DEF UseInv, UseTypes, PodRecords
<1>2. UseTypes'
    BY <1>1 DEF UseTypes, PodRecords, TaskRecords, CallRecords
<1>3. Empty' = Empty
    BY DEF Empty, Gone, NoHotPod
<1>4. ASSUME NEW o \in Roles PROVE TaskOK(tasks[o])'
  <2>1. tasks'[o] = IF o = r THEN task ELSE tasks[o]
      BY DEF UseInv, UseTypes
  <2>2. TaskOK(tasks'[o])
      BY <2>1 DEF UseInv
  <2> QED BY <2>2 DEF TaskOK, Cleared, Gone, NoHotPod
<1> QED BY <1>2, <1>3, <1>4 DEF UseInv

\* A goroutine begins a stretch of calls, or has none.
LEMMA Started ==
    ASSUME NEW pc \in TaskPCs, NEW calls \in Seq(CallRecords),
           \/ pc \in Installing
           \/ pc \in Clearing /\ calls \in {TeardownCalls, CleanupCalls}
           \/ pc \notin Clearing /\ calls = <<>>
    PROVE  LET task == [pc |-> pc, todo |-> calls, failed |-> FALSE, tries |-> 1]
           IN  task \in TaskRecords /\ TaskOK(task) /\ task.pc = pc
    BY Teardowns DEF TaskRecords, TaskOK, Cleared, Installing, Clearing

\* A goroutine that is not there has nothing to call.
LEMMA Idling == Idle \in TaskRecords /\ TaskOK(Idle) /\ Idle.pc = "idle"
    BY Lists DEF Idle, TaskRecords, TaskPCs, TaskOK, Installing, Clearing

\* One that gave up has nothing more to call, and has failed.
LEMMA GaveUp ==
    ASSUME UseInv, NEW r \in Roles
    PROVE  LET task == [tasks[r] EXCEPT !.todo = <<>>, !.failed = TRUE]
           IN  task \in TaskRecords /\ TaskOK(task) /\ task.pc = tasks[r].pc
<1> DEFINE task == [tasks[r] EXCEPT !.todo = <<>>, !.failed = TRUE]
<1>1. tasks[r] \in TaskRecords
    BY DEF UseInv, UseTypes
<1>2. /\ task \in TaskRecords /\ task.pc = tasks[r].pc /\ task.todo = <<>> /\ task.failed
    BY <1>1, Lists DEF TaskRecords
<1>3. Harmless(<<>>) /\ Ordered(<<>>)
    BY DEF Harmless, Ordered
<1> HIDE DEF task
<1>4. TaskOK(task)
    BY <1>2, <1>3 DEF TaskOK
<1> QED BY <1>2, <1>4 DEF task

-----------------------------------------------------------------------------
\* The activation of a checkout.
LEMMA ActivationKeeps ==
    ASSUME UseInv, Checkout \/ Interrupted \/ Activated \/ Tidied \/ Undone \/ Cancelled
    PROVE  UseInv'
<1> DEFINE r == "activate"
           begun(pc, calls) == [pc |-> pc, todo |-> calls, failed |-> FALSE, tries |-> 1]
<1>r. r \in Roles
    BY DEF Roles
<1>t. /\ tasks \in [Roles -> TaskRecords] /\ TaskOK(tasks[r]) /\ Exclusive
      /\ verdict.image \in Installs /\ DOMAIN verdict = {"status", "image"}
    BY <1>r DEF UseInv, UseTypes
<1>1. ASSUME Checkout PROVE UseInv'
  <2>1. /\ slot = "provisioned" /\ lease = "none" /\ slot' = "activating"
        /\ lease' = "claimed" /\ UNCHANGED <<hot, browser, pods, verdict>>
        /\ tasks' = [tasks EXCEPT ![r] = begun("activating", ActivationCalls)]
      BY <1>1 DEF Checkout, Start, Set
  <2>2. begun("activating", ActivationCalls) \in TaskRecords
        /\ TaskOK(begun("activating", ActivationCalls))
        /\ begun("activating", ActivationCalls).pc = "activating"
      BY Lists, Started DEF TaskPCs, Installing
  <2> HIDE DEF begun
  <2>3. Exclusive'
      BY <1>t, <2>1, <2>2 DEF Exclusive, Roles, Installing
  <2>4. tasks'["cleanup"].pc = "idle"
      BY <1>t, <2>1 DEF Exclusive, Roles
  <2> QED BY <1>r, <1>t, <2>1, <2>2, <2>3, <2>4, Settle
<1>2. ASSUME Interrupted PROVE UseInv'
  <2> DEFINE task == [tasks[r] EXCEPT !.todo = <<>>, !.failed = TRUE]
  <2>1. /\ UNCHANGED <<slot, lease, hot, browser, pods, verdict>>
        /\ tasks' = [tasks EXCEPT ![r] = task]
      BY <1>2 DEF Interrupted, GiveUp, Set
  <2>2. task \in TaskRecords /\ TaskOK(task) /\ task.pc = tasks[r].pc
      BY <1>r, GaveUp
  <2> HIDE DEF task
  <2>3. Exclusive'
      BY <1>t, <2>1, <2>2 DEF Exclusive, Roles, Installing
  <2>4. tasks'["cleanup"].pc = tasks["cleanup"].pc
      BY <1>t, <2>1 DEF Roles
  <2> QED BY <1>r, <1>t, <2>1, <2>2, <2>3, <2>4, Settle DEF UseInv
<1>3. ASSUME Activated, ~StillActivating PROVE UseInv'
  <2>1. /\ UNCHANGED <<slot, lease, hot, browser, pods, verdict>>
        /\ tasks' = [tasks EXCEPT ![r] = Idle]
      BY <1>3 DEF Activated, Set
  <2>2. Exclusive'
      BY <1>t, <2>1, Idling DEF Exclusive, Roles, Installing
  <2>3. tasks'["cleanup"].pc = tasks["cleanup"].pc
      BY <1>t, <2>1 DEF Roles
  <2> QED BY <1>r, <1>t, <2>1, <2>2, <2>3, Idling, Settle DEF UseInv
<1>4. ASSUME Activated, StillActivating PROVE UseInv'
  <2>1. PICK pc \in {"undoing", "tidying"}, calls \in {TeardownCalls, <<Delete(Kinds)>>} :
            /\ pc = "undoing" => calls = TeardownCalls /\ slot' = "error"
            /\ pc = "tidying" => slot' = "running"
            /\ UNCHANGED <<lease, hot, browser, pods, verdict>> /\ slot = "activating"
            /\ lease = "claimed" /\ tasks[r].pc = "activating"
            /\ tasks' = [tasks EXCEPT ![r] = begun(pc, calls)]
      BY <1>4 DEF Activated, StillActivating, Start, Set, Done, Is
  <2>2. begun(pc, calls) \in TaskRecords /\ TaskOK(begun(pc, calls)) /\ begun(pc, calls).pc = pc
      BY <2>1, Lists, Started, ZenonT(40) DEF TaskPCs, Installing, Clearing
  <2> HIDE DEF begun
  <2>3. Exclusive'
      BY <1>t, <2>1, <2>2 DEF Exclusive, Roles, Installing
  <2>4. tasks'["cleanup"].pc # "released" /\ slot' # "provisioned"
      BY <1>t, <2>1 DEF Exclusive, Roles
  <2> QED BY <1>r, <1>t, <2>1, <2>2, <2>3, <2>4, Settle
<1>5. ASSUME Tidied PROVE UseInv'
  <2>1. /\ UNCHANGED <<slot, lease, hot, browser, pods, verdict>>
        /\ tasks' = [tasks EXCEPT ![r] = Idle]
      BY <1>5 DEF Tidied, Set
  <2>2. Exclusive'
      BY <1>t, <2>1, Idling DEF Exclusive, Roles, Installing
  <2>3. tasks'["cleanup"].pc = tasks["cleanup"].pc
      BY <1>t, <2>1 DEF Roles
  <2> QED BY <1>r, <1>t, <2>1, <2>2, <2>3, Idling, Settle DEF UseInv
<1>6. ASSUME Undone PROVE UseInv'
  <2>1. /\ slot' = IF tasks[r].failed THEN "error" ELSE "provisioned"
        /\ UNCHANGED <<lease, hot, browser, pods, verdict>>
        /\ tasks[r].pc = "undoing" /\ tasks[r].todo = <<>>
        /\ tasks' = [tasks EXCEPT ![r] = begun("cancel", <<>>)]
      BY <1>6 DEF Undone, Start, Set, Done, Is
  <2>2. begun("cancel", <<>>) \in TaskRecords /\ TaskOK(begun("cancel", <<>>))
        /\ begun("cancel", <<>>).pc = "cancel"
      BY Lists, Started DEF TaskPCs, Clearing
  <2>3. ~tasks[r].failed => Empty
    <3>1. \A what : ~Ahead(<<>>, what)
        BY DEF Ahead
    <3> QED BY <1>t, <2>1, <3>1 DEF TaskOK, Cleared, Empty, Clearing
  <2>f. tasks[r].failed \in BOOLEAN
      BY <1>t, <1>r DEF TaskRecords
  <2> HIDE DEF begun
  <2>4. Exclusive'
      BY <1>t, <2>1, <2>2, <2>f DEF Exclusive, Roles, Installing
  <2>5. tasks'["cleanup"].pc # "released"
      BY <1>t, <2>1 DEF Exclusive, Roles
  <2> QED BY <1>r, <1>t, <2>1, <2>2, <2>3, <2>4, <2>5, <2>f, Settle
<1>7. ASSUME Cancelled PROVE UseInv'
  <2>1. /\ UNCHANGED <<slot, hot, browser, pods, verdict>> /\ lease' = "released"
        /\ tasks' = [tasks EXCEPT ![r] = Idle]
      BY <1>7 DEF Cancelled, Set
  <2>2. Exclusive'
      BY <1>t, <2>1, Idling DEF Exclusive, Roles, Installing
  <2>3. tasks'["cleanup"].pc = tasks["cleanup"].pc
      BY <1>t, <2>1 DEF Roles
  <2> QED BY <1>r, <1>t, <2>1, <2>2, <2>3, Idling, Settle DEF UseInv
<1> QED BY <1>1, <1>2, <1>3, <1>4, <1>5, <1>6, <1>7

\* Return and clean-up.
LEMMA CleanupKeeps ==
    ASSUME UseInv, Apart, Return \/ CleanupBegins \/ CleanupReleases \/ CleanupEnds
    PROVE  UseInv'
<1> DEFINE r == "cleanup"
           begun(pc, calls) == [pc |-> pc, todo |-> calls, failed |-> FALSE, tries |-> 1]
<1>r. r \in Roles
    BY DEF Roles
<1>t. /\ tasks \in [Roles -> TaskRecords] /\ TaskOK(tasks[r]) /\ Exclusive
      /\ verdict.image \in Installs /\ DOMAIN verdict = {"status", "image"}
      /\ slot = "provisioned" \/ tasks[r].pc = "released" => Empty
    BY <1>r DEF UseInv, UseTypes
<1>1. ASSUME Return PROVE UseInv'
  <2>1. /\ slot # "cleaning" /\ tasks["deploy"].pc = "idle" /\ tasks[r].pc = "idle"
        /\ slot' = "cleaning" /\ lease # "none" /\ UNCHANGED <<lease, hot, browser, pods, verdict>>
        /\ tasks' = [tasks EXCEPT ![r] = begun("await", <<>>)]
      BY <1>1 DEF Return, Start, Set, Is
  <2>2. begun("await", <<>>) \in TaskRecords /\ TaskOK(begun("await", <<>>))
        /\ begun("await", <<>>).pc = "await"
      BY Lists, Started DEF TaskPCs, Clearing
  <2> HIDE DEF begun
  <2>3. Exclusive'
      BY <1>t, <2>1, <2>2 DEF Exclusive, Roles, Installing
  <2>4. tasks'[r].pc = "await"
      BY <1>t, <1>r, <2>1, <2>2
  <2> QED BY <1>r, <1>t, <2>1, <2>2, <2>3, <2>4, Settle
<1>2. ASSUME CleanupBegins PROVE UseInv'
  <2>1. /\ tasks["activate"].pc = "idle" /\ tasks[r].pc = "await"
        /\ UNCHANGED <<slot, lease, hot, browser, pods, verdict>>
        /\ tasks' = [tasks EXCEPT ![r] = begun("cleaning", CleanupCalls)]
      BY <1>2 DEF CleanupBegins, Start, Set, Is
  <2>2. begun("cleaning", CleanupCalls) \in TaskRecords
        /\ TaskOK(begun("cleaning", CleanupCalls))
        /\ begun("cleaning", CleanupCalls).pc = "cleaning"
      BY Lists, Started DEF TaskPCs, Clearing
  <2> HIDE DEF begun
  <2>3. Exclusive'
      BY <1>t, <2>1, <2>2 DEF Exclusive, Roles, Installing
  <2>4. tasks'[r].pc = "cleaning"
      BY <1>t, <1>r, <2>1, <2>2
  <2> QED BY <1>r, <1>t, <2>1, <2>2, <2>3, <2>4, Settle
<1>3. ASSUME CleanupReleases PROVE UseInv'
  <2>1. /\ tasks[r].pc = "cleaning" /\ tasks[r].todo = <<>> /\ ~tasks[r].failed
        /\ lease' = "released" /\ UNCHANGED <<slot, hot, browser, pods, verdict>>
        /\ tasks' = [tasks EXCEPT ![r] = begun("released", <<>>)]
      BY <1>3 DEF CleanupReleases, Start, Set, Done, Is
  <2>2. begun("released", <<>>) \in TaskRecords /\ TaskOK(begun("released", <<>>))
        /\ begun("released", <<>>).pc = "released"
      BY Lists, Started DEF TaskPCs, Clearing
  <2>3. Empty
    <3>1. \A what : ~Ahead(<<>>, what)
        BY DEF Ahead
    <3> QED BY <1>t, <2>1, <3>1 DEF TaskOK, Cleared, Empty, Clearing
  <2> HIDE DEF begun
  <2>4. Exclusive'
      BY <1>t, <2>1, <2>2 DEF Exclusive, Roles, Installing
  <2> QED BY <1>r, <1>t, <2>1, <2>2, <2>3, <2>4, Settle
<1>4. ASSUME CleanupEnds PROVE UseInv'
  <2>1. /\ tasks[r].pc \in {"cleaning", "released"}
        /\ slot' = IF tasks[r].pc = "released" THEN "provisioned" ELSE "error"
        /\ UNCHANGED <<lease, hot, browser, pods, verdict>>
        /\ tasks' = [tasks EXCEPT ![r] = Idle]
      BY <1>4 DEF CleanupEnds, Set, Done, Is
  <2>2. Exclusive'
      BY <1>t, <2>1, Idling DEF Exclusive, Roles, Installing
  <2>3. tasks'[r].pc = "idle"
      BY <1>t, <1>r, <2>1, Idling
  <2> QED BY <1>r, <1>t, <2>1, <2>2, <2>3, Idling, Settle
<1> QED BY <1>1, <1>2, <1>3, <1>4

\* The deployment of an image.
LEMMA DeployKeeps ==
    ASSUME UseInv, Apart, (\E image \in Images : Deploy(image)) \/ DeployBegins \/ Deployed
    PROVE  UseInv'
<1> DEFINE r == "deploy"
           begun(pc, calls) == [pc |-> pc, todo |-> calls, failed |-> FALSE, tries |-> 1]
<1>r. r \in Roles
    BY DEF Roles
<1>t. /\ tasks \in [Roles -> TaskRecords] /\ TaskOK(tasks[r]) /\ Exclusive
      /\ verdict.image \in Installs /\ DOMAIN verdict = {"status", "image"}
      /\ slot = "provisioned" \/ tasks["cleanup"].pc = "released" => Empty
    BY <1>r DEF UseInv, UseTypes
<1>1. ASSUME NEW image \in Images, Deploy(image) PROVE UseInv'
  <2>1. /\ UNCHANGED <<slot, lease, hot, browser, pods>> /\ lease = "claimed"
        /\ verdict' = [status |-> "running", image |-> image]
        /\ tasks' = [tasks EXCEPT ![r] = begun("await", <<>>)]
      BY <1>1 DEF Deploy, Start, Set
  <2>2. begun("await", <<>>) \in TaskRecords /\ TaskOK(begun("await", <<>>))
        /\ begun("await", <<>>).pc = "await"
      BY Lists, Started DEF TaskPCs, Clearing
  <2>3. verdict'.image \in Installs /\ DOMAIN verdict' = {"status", "image"}
      BY <2>1 DEF Installs
  <2> HIDE DEF begun
  <2>4. Exclusive'
      BY <1>t, <2>1, <2>2 DEF Exclusive, Roles, Installing
  <2>5. tasks'["cleanup"].pc = tasks["cleanup"].pc
      BY <1>t, <2>1 DEF Roles
  <2> QED BY <1>r, <1>t, <2>1, <2>2, <2>3, <2>4, <2>5, Settle
<1>2. ASSUME DeployBegins PROVE UseInv'
  <2> DEFINE calls == DeployCalls(verdict.image)
  <2>1. /\ tasks[r].pc = "await" /\ tasks["activate"].pc = "idle" /\ slot = "running"
        /\ UNCHANGED <<slot, lease, hot, browser, pods, verdict>>
        /\ tasks' = [tasks EXCEPT ![r] = begun("deploying", calls)]
      BY <1>2 DEF DeployBegins, Start, Set, Is
  <2>2. begun("deploying", calls) \in TaskRecords /\ TaskOK(begun("deploying", calls))
        /\ begun("deploying", calls).pc = "deploying"
    <3>1. calls \in Seq(CallRecords)
        BY <1>t, Lists
    <3> HIDE DEF calls
    <3> QED BY <3>1, Started DEF TaskPCs, Installing
  <2> HIDE DEF begun, calls
  <2>3. Exclusive'
      BY <1>t, <2>1, <2>2 DEF Exclusive, Roles, Installing
  <2>4. tasks'["cleanup"].pc = tasks["cleanup"].pc
      BY <1>t, <2>1 DEF Roles
  <2> QED BY <1>r, <1>t, <2>1, <2>2, <2>3, <2>4, Settle
<1>3. ASSUME Deployed PROVE UseInv'
  <2>1. /\ UNCHANGED <<slot, lease, hot, browser, pods>>
        /\ \E status : verdict' = [verdict EXCEPT !.status = status]
        /\ tasks' = [tasks EXCEPT ![r] = Idle]
      BY <1>3 DEF Deployed, Set
  <2>2. verdict'.image \in Installs /\ DOMAIN verdict' = {"status", "image"}
      BY <1>t, <2>1
  <2>3. Exclusive'
      BY <1>t, <2>1, Idling DEF Exclusive, Roles, Installing
  <2>4. tasks'["cleanup"].pc = tasks["cleanup"].pc
      BY <1>t, <2>1 DEF Roles
  <2> QED BY <1>r, <1>t, <2>1, <2>2, <2>3, <2>4, Idling, Settle
<1> QED BY <1>1, <1>2, <1>3

\* A process that dies takes its goroutines with it, and the next one takes up what the
\* row of the slot says was going on.
LEMMA RestartKeeps ==
    ASSUME UseInv, ServerDies \/ Recover
    PROVE  UseInv'
<1> DEFINE begun(pc, calls) == [pc |-> pc, todo |-> calls, failed |-> FALSE, tries |-> 1]
<1>t. /\ tasks \in [Roles -> TaskRecords] /\ Exclusive
      /\ verdict.image \in Installs /\ DOMAIN verdict = {"status", "image"}
      /\ slot = "provisioned" \/ tasks["cleanup"].pc = "released" => Empty
    BY DEF UseInv, UseTypes
<1>1. ASSUME UNCHANGED <<slot, lease, hot, browser, pods, verdict, tasks>> PROVE UseInv'
    BY <1>1 DEF UseInv, UseTypes, PodRecords, TaskRecords, CallRecords, Exclusive, TaskOK, Cleared,
                Empty, Gone, NoHotPod
<1>2. ASSUME ServerDies PROVE UseInv'
  <2>1. /\ UNCHANGED <<slot, lease, hot, browser, pods, verdict>>
        /\ tasks' = [o \in Roles |-> Idle]
      BY <1>2 DEF ServerDies
  <2>2. UseTypes'
    <3>1. tasks' \in [Roles -> TaskRecords]
        BY <2>1, Idling
    <3> QED BY <2>1, <3>1 DEF UseInv, UseTypes, PodRecords, TaskRecords, CallRecords
  <2>3. \A o \in Roles : tasks'[o] = Idle
      BY <2>1
  <2>4. Exclusive'
      BY <1>t, <2>1, <2>3, Idling DEF Exclusive, Roles, Installing
  <2>5. ASSUME NEW o \in Roles PROVE TaskOK(tasks[o])'
      BY <2>3, Lists DEF TaskOK, Idle, Clearing, Installing
  <2>6. tasks'["cleanup"].pc = "idle"
      BY <2>3, Idling DEF Roles
  <2>7. Empty' = Empty
      BY <2>1 DEF Empty, Gone, NoHotPod
  <2> QED BY <1>t, <2>1, <2>2, <2>4, <2>5, <2>6, <2>7 DEF UseInv
<1>3. ASSUME Recover PROVE UseInv'
  <2>1. UNCHANGED <<slot, lease, hot, browser, pods, verdict>>
      BY <1>3 DEF Recover
  <2>2. CASE UNCHANGED tasks
      BY <1>1, <2>1, <2>2
  <2>3. ASSUME slot = "activating", lease = "claimed", tasks["activate"].pc = "idle",
               tasks' = [tasks EXCEPT !["activate"] = begun("activating", ActivationCalls)]
        PROVE  UseInv'
    <3>1. begun("activating", ActivationCalls) \in TaskRecords
          /\ TaskOK(begun("activating", ActivationCalls))
          /\ begun("activating", ActivationCalls).pc = "activating"
        BY Lists, Started DEF TaskPCs, Installing
    <3> HIDE DEF begun
    <3>2. Exclusive'
        BY <1>t, <2>1, <2>3, <3>1 DEF Exclusive, Roles, Installing
    <3>3. tasks'["cleanup"].pc = tasks["cleanup"].pc
        BY <1>t, <2>3 DEF Roles
    <3>4. "activate" \in Roles
        BY DEF Roles
    <3> QED BY <1>t, <2>1, <2>3, <3>1, <3>2, <3>3, <3>4, Settle
  <2>4. ASSUME slot \in {"cleaning", "error"}, tasks["cleanup"].pc = "idle",
               tasks' = [tasks EXCEPT !["cleanup"] = begun("await", <<>>)]
        PROVE  UseInv'
    <3>1. begun("await", <<>>) \in TaskRecords /\ TaskOK(begun("await", <<>>))
          /\ begun("await", <<>>).pc = "await"
        BY Lists, Started DEF TaskPCs, Clearing
    <3> HIDE DEF begun
    <3>2. Exclusive'
        BY <1>t, <2>1, <2>4, <3>1 DEF Exclusive, Roles, Installing
    <3>3. tasks'["cleanup"].pc = "await"
        BY <1>t, <2>4, <3>1 DEF Roles
    <3>4. "cleanup" \in Roles
        BY DEF Roles
    <3> QED BY <1>t, <2>1, <2>4, <3>1, <3>2, <3>3, <3>4, Settle
  <2> QED BY <1>3, <2>2, <2>3, <2>4 DEF Recover, Start, Set, Is
<1> QED BY <1>2, <1>3

-----------------------------------------------------------------------------
\* What is in the namespace only goes, while nothing is installed.
Fading == /\ NoHotPod => NoHotPod'
          /\ Gone => Gone'
          /\ ~browser => ~browser'

\* Pods end without a goroutine.
LEMMA PodKeeps ==
    ASSUME UseInv, NEW p \in pods, PodApplies(p) \/ PodFails(p) \/ PodCollected(p)
    PROVE  UseInv'
<1>1. UNCHANGED <<slot, lease, browser, tasks, verdict>> /\ pods' = pods \ {p}
    BY DEF PodApplies, PodFails, PodCollected
<1>2. Fading
  <2>1. NoHotPod => NoHotPod' /\ p.kind # "hot"
      BY <1>1 DEF NoHotPod
  <2>2. hot' \in {hot, None} \/ p.kind = "hot"
      BY DEF PodApplies, PodFails, PodCollected
  <2> QED BY <1>1, <2>1, <2>2 DEF Fading, Gone
<1>3. UseTypes'
    BY <1>1 DEF UseInv, UseTypes, TaskRecords, CallRecords, PodRecords
<1>4. Exclusive'
    BY <1>1 DEF UseInv, Exclusive
<1>5. ASSUME NEW r \in Roles PROVE TaskOK(tasks[r])'
    BY <1>1, <1>2 DEF UseInv, TaskOK, Cleared, Fading
<1>6. slot' = "provisioned" \/ tasks'["cleanup"].pc = "released" => Empty'
    BY <1>1, <1>2 DEF UseInv, Empty, Fading
<1> QED BY <1>3, <1>4, <1>5, <1>6 DEF UseInv

\* A call ends its goroutine's list, shortens it, or begins the deployment's again.
LEMMA CallShape ==
    ASSUME UseInv, NEW r \in Roles, Call(r)
    PROVE  /\ UNCHANGED <<slot, lease, verdict>> /\ tasks[r].todo # <<>>
           /\ \E task \in TaskRecords :
                 /\ tasks' = [tasks EXCEPT ![r] = task] /\ task.pc = tasks[r].pc
                 /\ task.failed => task.todo = <<>>
                 /\ \/ task.failed /\ task.todo = <<>>
                    \/ task.todo = Tail(tasks[r].todo) /\ ~task.failed
                    \/ Nearest(r).do = "verify"
                 /\ Nearest(r).do \in {"pods_gone", "no_browser", "no_workload"} /\ ~task.failed
                        => Calls(r, Nearest(r).do)
                           /\ (WaitPods(r) \/ Browser(r) \/ Workloads(r))
<1>1. tasks[r] \in TaskRecords /\ TaskOK(tasks[r]) /\ tasks \in [Roles -> TaskRecords]
    BY DEF UseInv, UseTypes
<1>2. UNCHANGED <<slot, lease, verdict>> /\ tasks[r].todo # <<>>
    BY DEF Call, DeleteJobs, CreateJob, WaitJob, WaitPods, Browser, Workloads, VerifyImage,
           CallFails, Calls
<1>3. /\ Tail(tasks[r].todo) \in Seq(CallRecords) /\ Nearest(r) \in CallRecords
      /\ tasks[r].failed = FALSE
    BY <1>1, <1>2, TailOf DEF TaskRecords, TaskOK, Nearest
<1>4. CASE Continue(r)
  <2> DEFINE task == [tasks[r] EXCEPT !.todo = Tail(@)]
  <2>1. /\ task \in TaskRecords /\ task.pc = tasks[r].pc /\ task.todo = Tail(tasks[r].todo)
        /\ ~task.failed /\ tasks' = [tasks EXCEPT ![r] = task]
      BY <1>1, <1>3, <1>4 DEF TaskRecords, Continue, Set
  <2>2. \/ WaitPods(r) \/ Browser(r) \/ Workloads(r) \/ CallFails(r)
        \/ Nearest(r).do \notin {"pods_gone", "no_browser", "no_workload"}
      BY DEF Call, DeleteJobs, CreateJob, WaitJob, VerifyImage, Calls
  <2>3. ~CallFails(r)
    <3>1. SUFFICES ASSUME CallFails(r) PROVE FALSE
        OBVIOUS
    <3>2. tasks'[r].failed
        BY <1>1, <3>1 DEF CallFails, GiveUp, Set, TaskRecords
    <3> QED BY <1>1, <2>1, <3>2
  <2> QED BY <1>2, <2>1, <2>2, <2>3 DEF Calls
<1>5. CASE GiveUp(r)
  <2> DEFINE task == [tasks[r] EXCEPT !.todo = <<>>, !.failed = TRUE]
  <2>1. /\ task \in TaskRecords /\ task.pc = tasks[r].pc /\ task.todo = <<>>
        /\ task.failed /\ tasks' = [tasks EXCEPT ![r] = task]
      BY <1>1, <1>5, Lists DEF TaskRecords, GiveUp, Set
  <2> QED BY <1>2, <2>1
<1>6. ASSUME Calls(r, "verify"),
             Set(r, [tasks[r] EXCEPT !.todo = DeployCalls(Nearest(r).image), !.tries = @ + 1])
      PROVE  \E task \in TaskRecords :
                 /\ tasks' = [tasks EXCEPT ![r] = task] /\ task.pc = tasks[r].pc
                 /\ task.failed = FALSE /\ Nearest(r).do = "verify"
  <2> DEFINE calls == DeployCalls(Nearest(r).image)
             task == [tasks[r] EXCEPT !.todo = calls, !.tries = @ + 1]
  <2>1. Nearest(r).do = "verify" /\ Nearest(r).image \in Installs
      BY <1>3, <1>6 DEF Calls, CallRecords
  <2>2. calls \in Seq(CallRecords)
      BY <2>1, Lists
  <2>3. tasks' = [tasks EXCEPT ![r] = task]
      BY <1>6 DEF Set
  <2> HIDE DEF calls
  <2>4. tasks[r].tries + 1 \in Nat
      BY <1>1 DEF TaskRecords
  <2>5. task \in TaskRecords /\ task.pc = tasks[r].pc /\ task.failed = FALSE
      BY <1>1, <1>3, <2>2, <2>4 DEF TaskRecords
  <2> QED BY <2>1, <2>3, <2>5
<1>7. \/ Continue(r) \/ GiveUp(r)
      \/ Calls(r, "verify")
         /\ Set(r, [tasks[r] EXCEPT !.todo = DeployCalls(Nearest(r).image), !.tries = @ + 1])
    BY DEF Call, DeleteJobs, CreateJob, WaitJob, WaitPods, Browser, Workloads, VerifyImage,
           CallFails
<1>8. CASE Calls(r, "verify")
           /\ Set(r, [tasks[r] EXCEPT !.todo = DeployCalls(Nearest(r).image), !.tries = @ + 1])
    BY <1>2, <1>6, <1>8
<1> QED BY <1>4, <1>5, <1>7, <1>8

\* Pods are made by calls only, of the kind the call names.
LEMMA CallPods ==
    ASSUME UseInv, NEW r \in Roles, Call(r)
    PROVE  /\ pods' \subseteq PodRecords
           /\ NoHotPod => NoHotPod' \/ (Nearest(r).do = "create" /\ Nearest(r).kind = "hot")
<1>1. pods \subseteq PodRecords /\ tasks[r] \in TaskRecords
    BY DEF UseInv, UseTypes
<1>2. CASE DeleteJobs(r)
  <2> DEFINE left1(p) == [p EXCEPT !.owned = @ /\ p.kind \notin Nearest(r).kinds]
  <2>1. pods' = {left1(p) : p \in pods}
      BY <1>2 DEF DeleteJobs
  <2>2. \A p \in pods : left1(p) \in PodRecords /\ left1(p).kind = p.kind
      BY <1>1 DEF PodRecords
  <2> HIDE DEF left1
  <2> QED BY <2>1, <2>2 DEF NoHotPod
<1>3. CASE CreateJob(r)
  <2>1. tasks[r].todo # <<>> /\ Nearest(r).do = "create"
      BY <1>3 DEF CreateJob, Calls
  <2>2. Nearest(r) \in CallRecords
      BY <1>1, <2>1, TailOf DEF TaskRecords, Nearest
  <2>3. Nearest(r).kind \in Kinds /\ Nearest(r).image \in Installs
      BY <2>1, <2>2 DEF CallRecords
  <2> DEFINE made == [kind |-> Nearest(r).kind, image |-> Nearest(r).image, owned |-> TRUE]
  <2>4. pods' \in {pods, pods \cup {made}}
      BY <1>3 DEF CreateJob
  <2>5. made \in PodRecords /\ made.kind = Nearest(r).kind
      BY <2>3 DEF PodRecords
  <2> HIDE DEF made
  <2> QED BY <1>1, <2>1, <2>4, <2>5 DEF NoHotPod
<1>4. CASE pods' = pods
    BY <1>1, <1>4 DEF NoHotPod
<1> QED BY <1>2, <1>3, <1>4 DEF Call, WaitJob, WaitPods, Browser, Workloads, VerifyImage, CallFails

\* The calls of a teardown and of a clean-up.
LEMMA CallClears ==
    ASSUME UseInv, NEW r \in Roles, tasks[r].pc \in Clearing, Call(r)
    PROVE  /\ Fading /\ Nearest(r).do # "verify"
           /\ WaitPods(r) => NoHotPod'
           /\ Browser(r) => ~browser'
           /\ Workloads(r) => hot' = None /\ pods' = pods
<1>1. /\ tasks[r].todo # <<>> /\ tasks[r] \in TaskRecords /\ Harmless(tasks[r].todo)
    BY CallShape DEF UseInv, UseTypes, TaskOK
<1>2. /\ Nearest(r).do \in {"delete", "create", "wait", "pods_gone", "no_browser", "no_workload"}
      /\ Nearest(r).do = "create" => Nearest(r).kind # "hot"
    BY <1>1, TailOf DEF TaskRecords, Harmless, Nearest
<1>3. NoHotPod => NoHotPod'
    BY <1>2, CallPods
<1>4. WaitPods(r) => NoHotPod'
    BY DEF WaitPods, NoHotPod
<1>5. Browser(r) => ~browser'
    BY <1>2 DEF Browser, Calls
<1>6. Workloads(r) => hot' = None /\ pods' = pods
    BY DEF Workloads
<1>7. browser' = browser \/ Browser(r)
    BY DEF Call, DeleteJobs, CreateJob, WaitJob, WaitPods, Workloads, VerifyImage, CallFails
<1>8. hot' = hot \/ Workloads(r)
    BY DEF Call, DeleteJobs, CreateJob, WaitJob, WaitPods, Browser, VerifyImage, CallFails
<1> QED BY <1>2, <1>3, <1>4, <1>5, <1>6, <1>7, <1>8 DEF Fading, Gone

\* Calls keep the invariant: those of an installation while no slot is free and nothing is
\* torn down, those of a teardown because what they leave behind them only fades.
LEMMA CallKeeps ==
    ASSUME UseInv, NEW r \in Roles, Call(r)
    PROVE  UseInv'
<1>1. PICK task \in TaskRecords :
          /\ tasks' = [tasks EXCEPT ![r] = task] /\ task.pc = tasks[r].pc
          /\ task.failed => task.todo = <<>>
          /\ \/ task.failed /\ task.todo = <<>>
             \/ task.todo = Tail(tasks[r].todo) /\ ~task.failed
             \/ Nearest(r).do = "verify"
          /\ Nearest(r).do \in {"pods_gone", "no_browser", "no_workload"} /\ ~task.failed
                 => Calls(r, Nearest(r).do) /\ (WaitPods(r) \/ Browser(r) \/ Workloads(r))
    BY CallShape
<1>2. /\ UNCHANGED <<slot, lease, verdict>> /\ tasks[r].todo # <<>>
      /\ pods' \subseteq PodRecords /\ tasks \in [Roles -> TaskRecords]
      /\ TaskOK(tasks[r]) /\ Exclusive
    BY CallShape, CallPods DEF UseInv, UseTypes
<1>3. \A o \in Roles : tasks'[o] = IF o = r THEN task ELSE tasks[o]
    BY <1>1, <1>2
<1>4. \A o \in Roles : tasks'[o].pc = tasks[o].pc
    BY <1>1, <1>3
<1>5. UseTypes'
  <2>1. tasks' \in [Roles -> TaskRecords]
      BY <1>1, <1>2
  <2> QED BY <1>2, <2>1 DEF UseInv, UseTypes, PodRecords, TaskRecords, CallRecords
<1>6. Exclusive'
  <2>1. {"activate", "cleanup", "deploy"} = Roles
      BY DEF Roles
  <2> QED BY <1>2, <1>4, <2>1 DEF Exclusive
<1>7. tasks[r].pc \in Installing \cup Clearing
    BY <1>2 DEF TaskOK
<1>8. CASE tasks[r].pc \in Installing
  <2>1. /\ \A o \in Roles : tasks[o].pc \notin Clearing
        /\ slot # "provisioned" /\ tasks["cleanup"].pc # "released"
      BY <1>2, <1>8 DEF Exclusive, Installing, Clearing, Roles
  <2>2. ASSUME NEW o \in Roles PROVE TaskOK(tasks[o])'
    <3>1. /\ tasks'[o].pc \notin Clearing
          /\ tasks'[o].pc \notin Installing \cup Clearing => tasks'[o].todo = <<>>
          /\ tasks'[o].failed => tasks'[o].todo = <<>>
        BY <1>1, <1>3, <1>4, <1>8, <2>1 DEF UseInv, TaskOK
    <3> QED BY <3>1 DEF TaskOK, Clearing, Installing
  <2>3. slot' # "provisioned" /\ tasks'["cleanup"].pc # "released"
      BY <1>2, <1>4, <2>1 DEF Roles
  <2> QED BY <1>5, <1>6, <2>2, <2>3 DEF UseInv
<1>9. CASE tasks[r].pc \in Clearing
  <2>1. /\ Fading /\ Nearest(r).do # "verify"
        /\ WaitPods(r) => NoHotPod'
        /\ Browser(r) => ~browser'
        /\ Workloads(r) => hot' = None /\ pods' = pods
      BY <1>9, CallClears
  <2>2. /\ Harmless(tasks[r].todo) /\ Ordered(tasks[r].todo) /\ tasks[r].failed = FALSE
        /\ Cleared(tasks[r].todo) /\ tasks[r].todo \in Seq(CallRecords)
      BY <1>2, <1>9 DEF TaskOK, TaskRecords
  <2>3. Harmless(task.todo) /\ Ordered(task.todo)
    <3>1. CASE task.todo = <<>>
        BY <3>1 DEF Harmless, Ordered
    <3>2. CASE task.todo = Tail(tasks[r].todo)
        BY <1>2, <2>2, <3>2, Onward
    <3> QED BY <1>1, <2>1, <3>1, <3>2
  <2>4. ASSUME ~task.failed PROVE Cleared(task.todo)'
    <3> DEFINE q == tasks[r].todo
    <3>1. /\ task.todo = Tail(q) /\ Nearest(r) = Head(q)
          /\ \A what : Ahead(q, what) => Head(q).do = what \/ Ahead(Tail(q), what)
          /\ Head(q).do = "no_workload" => ~Ahead(q, "pods_gone")
        BY <1>1, <1>2, <2>1, <2>2, <2>4, Onward DEF Nearest
    <3>2. Nearest(r).do = "pods_gone" => WaitPods(r)
        BY <1>1, <2>4 DEF WaitPods, Browser, Workloads, Calls
    <3>3. Nearest(r).do = "no_browser" => Browser(r)
        BY <1>1, <2>4 DEF WaitPods, Browser, Workloads, Calls
    <3>4. Nearest(r).do = "no_workload" => Workloads(r)
        BY <1>1, <2>4 DEF WaitPods, Browser, Workloads, Calls
    <3>5. Ahead(Tail(q), "pods_gone") \/ NoHotPod'
        BY <2>1, <2>2, <3>1, <3>2 DEF Cleared, Fading
    <3>6. Ahead(Tail(q), "no_browser") \/ ~browser'
        BY <2>1, <2>2, <3>1, <3>3 DEF Cleared, Fading
    <3>7. Ahead(Tail(q), "no_workload") \/ Gone'
      <4>1. CASE Head(q).do = "no_workload"
          BY <2>1, <2>2, <3>1, <3>4, <4>1 DEF Cleared, Fading, Gone
      <4>2. CASE Head(q).do # "no_workload"
          BY <2>1, <2>2, <3>1, <4>2 DEF Cleared, Fading
      <4> QED BY <4>1, <4>2
    <3> HIDE DEF q
    <3> QED BY <3>1, <3>5, <3>6, <3>7 DEF Cleared
  <2>5. ASSUME NEW o \in Roles PROVE TaskOK(tasks[o])'
    <3>1. CASE o = r
        BY <1>1, <1>3, <1>9, <2>3, <2>4, <3>1 DEF TaskOK, Clearing, Installing
    <3>2. CASE o # r
        BY <1>3, <2>1, <3>2 DEF UseInv, TaskOK, Cleared, Fading
    <3> QED BY <3>1, <3>2
  <2>6. slot' = "provisioned" \/ tasks'["cleanup"].pc = "released" => Empty'
      BY <1>2, <1>4, <2>1 DEF UseInv, Empty, Fading, Roles
  <2> QED BY <1>5, <1>6, <2>5, <2>6 DEF UseInv
<1> QED BY <1>7, <1>8, <1>9

-----------------------------------------------------------------------------
\* The namespace starts empty.
LEMMA InitUse == UseInit => UseInv
<1> SUFFICES ASSUME UseInit PROVE UseInv
    OBVIOUS
<1>1. \A r \in Roles : tasks[r] = Idle
    BY DEF UseInit
<1>2. UseTypes
  <2>1. tasks \in [Roles -> TaskRecords]
      BY Idling DEF UseInit
  <2> QED BY <2>1 DEF UseInit, UseTypes, Installs
<1>3. Exclusive
    BY <1>1, Idling DEF UseInit, Exclusive, Roles, Installing
<1>4. Empty
    BY DEF UseInit, Empty, Gone, NoHotPod
<1> QED BY <1>1, <1>2, <1>3, <1>4, Idling DEF UseInv

\* Every step keeps it, where no deployment outlives its slot.
LEMMA UseStep == Apart /\ UseInv /\ [UseNext]_useVars => UseInv'
<1> SUFFICES ASSUME Apart, UseInv, [UseNext]_useVars PROVE UseInv'
    OBVIOUS
<1>1. CASE UNCHANGED useVars
    BY <1>1 DEF useVars, UseInv, UseTypes, PodRecords, TaskRecords, CallRecords, Exclusive, TaskOK,
                Cleared, Empty, Gone, NoHotPod
<1>2. CASE UseNext
    BY <1>2, ActivationKeeps, CleanupKeeps, DeployKeeps, RestartKeeps, CallKeeps, PodKeeps
       DEF UseNext
<1> QED BY <1>1, <1>2

\* A slot the allocator may hand out contains no runtime of the last tenant, and nothing is
\* left that could install it again, whatever calls fail and whenever the process dies, as
\* long as no deployment outlives its slot (ReturnTestSlotRuntime).
THEOREM FreeAndEmpty == ASSUME Apart PROVE UseSpec => []FreeSlotIsEmpty
<1>1. UseInv => FreeSlotIsEmpty
    BY DEF UseInv, Empty, Gone, NoHotPod, FreeSlotIsEmpty
<1>2. UseInv /\ [UseNext]_useVars => UseInv'
    BY UseStep
<1> QED BY <1>1, <1>2, InitUse, PTL DEF UseSpec
=============================================================================
