--------------------------- MODULE RecordTheorems ---------------------------
(***************************************************************************)
(* What holds of the issue numbers and the reviews of a project, of the    *)
(* inspections of a slot, of the graph of a run and of its inner Jobs, and *)
(* of the registrations of a workflow and of its project for any number of *)
(* clients, controls, values and writes; where pins matter, as long as     *)
(* they are written one request at a time.                                 *)
(***************************************************************************)
EXTENDS Registry, Inspections, Issues, Reviews, RunView, InnerJobs, TLAPS

IssuesSpec == IssuesInit /\ [][IssuesNext]_issueVars
InspectionsSpec == InspectionsInit /\ [][InspectionsNext]_inspectionVars
ReviewsSpec == ReviewsInit /\ [][ReviewsNext]_reviewVars

-----------------------------------------------------------------------------
(* Issue numbers.                                                            *)

\* The counter is past each number in use or on its way to a row, and those on
\* their way are new and apart.
NumbersInv ==
    /\ counter \in Nat
    /\ counter = 0 => DOMAIN issues \subseteq {1}
    /\ counter # 0 => \A n \in DOMAIN issues : n \in Nat /\ n < counter
    /\ DOMAIN request = Requesters
    /\ \A w \in Requesters : Doing(w, "insert") =>
           /\ request[w].number \in Nat
           /\ request[w].number < counter /\ request[w].number \notin DOMAIN issues
    /\ NumbersAreApart

\* The highest number of the rows, before the counter is made.
LEMMA HighestNumber ==
    ASSUME DOMAIN issues \subseteq {1}
    PROVE  Highest \in {0, 1} /\ \A n \in DOMAIN issues : n =< Highest
<1>1. CASE DOMAIN issues \cup {0} = {0}
    BY <1>1 DEF Highest, Max
<1>2. CASE DOMAIN issues \cup {0} = {0, 1}
    BY <1>2 DEF Highest, Max
<1> QED BY <1>1, <1>2

\* A number is taken (AllocateNextNumber).
LEMMA AllocateKeeps ==
    ASSUME NumbersInv, NEW w \in Requesters, AllocateNumber(w) PROVE NumbersInv'
<1> DEFINE next == IF counter = 0 THEN Highest + 1 ELSE counter
<1>1. /\ next \in Nat /\ counter =< next /\ \A n \in DOMAIN issues : n \in Nat /\ n < next
      /\ \A v \in Requesters : Doing(v, "insert") => request[v].number < next
    BY HighestNumber DEF NumbersInv
<1>2. counter' = next + 1 /\ UNCHANGED <<issues, refused>>
      /\ request' = [request EXCEPT ![w] = [pc |-> "insert", number |-> next]]
    BY DEF AllocateNumber, Then
<1> HIDE DEF next
<1>3. /\ DOMAIN request' = Requesters
      /\ \A v \in Requesters : Doing(v, "insert")' =>
             \/ v = w /\ request'[v].number = next
             \/ v # w /\ Doing(v, "insert") /\ request'[v].number = request[v].number
    BY <1>2 DEF NumbersInv, Doing
<1> QED BY <1>1, <1>2, <1>3 DEF NumbersInv, NumbersAreApart

\* The row is inserted: its number is not there yet (Create).
LEMMA InsertKeeps ==
    ASSUME NumbersInv, NEW w \in Requesters, InsertIssue(w) PROVE NumbersInv'
<1>1. /\ request[w].number \notin DOMAIN issues /\ request[w].number \in Nat
      /\ request[w].number < counter /\ Doing(w, "insert")
    BY DEF NumbersInv, InsertIssue
<1>2. /\ DOMAIN issues' = DOMAIN issues \cup {request[w].number}
      /\ UNCHANGED <<counter, refused>> /\ request' = [request EXCEPT ![w] = Free]
    BY <1>1 DEF InsertIssue, With, Then
<1>3. /\ DOMAIN request' = Requesters
      /\ \A v \in Requesters : Doing(v, "insert")' =>
             v # w /\ Doing(v, "insert") /\ request'[v].number = request[v].number
    BY <1>2 DEF NumbersInv, Doing, Free
<1> QED BY <1>1, <1>2, <1>3 DEF NumbersInv, NumbersAreApart

\* A statement that neither takes a number nor inserts a row.
LEMMA OtherKeeps ==
    ASSUME NumbersInv, NEW w \in Requesters, UNCHANGED <<counter, refused>>,
           DOMAIN issues' = DOMAIN issues, NEW r, r.pc # "insert",
           UNCHANGED request \/ request' = [request EXCEPT ![w] = r]
    PROVE  NumbersInv'
<1>1. /\ DOMAIN request' = Requesters
      /\ \A v \in Requesters : Doing(v, "insert")' =>
             Doing(v, "insert") /\ request'[v].number = request[v].number
    BY DEF NumbersInv, Doing
<1> QED BY <1>1 DEF NumbersInv, NumbersAreApart

\* So does a request of the portfolio: one of a review is to take a number yet.
LEMMA PortfolioKeeps ==
    ASSUME NumbersInv, NEW w \in Requesters, PortfolioRequest(w),
           UNCHANGED <<issues, counter, comments, refused>>
    PROVE  NumbersInv'
<1>1. ASSUME NEW r, r.pc # "insert", request' = [request EXCEPT ![w] = r] PROVE NumbersInv'
    BY <1>1, OtherKeeps
<1>2. CASE UpsertElement(w)
    BY <1>2 DEF UpsertElement, NumbersInv, NumbersAreApart, Doing
<1>3. CASE FindElement(w)
  <2>1. PICK k \in DOMAIN elements : request' = [request EXCEPT ![w] = [pc |-> "element", id |-> elements[k].id]]
      BY <1>3 DEF FindElement, Then
  <2> DEFINE r == [pc |-> "element", id |-> elements[k].id]
  <2>2. r.pc # "insert" /\ request' = [request EXCEPT ![w] = r]
      BY <2>1
  <2> HIDE DEF r
  <2> QED BY <1>1, <2>2
<1>4. CASE PatchElement(w)
    BY <1>1, <1>4 DEF PatchElement, Then, Free
<1>5. CASE ListForReview(w)
  <2>1. [pc |-> "review"].pc # "insert" /\ request' = [request EXCEPT ![w] = [pc |-> "review"]]
      BY <1>5 DEF ListForReview, Then
  <2> QED BY <1>1, <2>1
<1> QED BY <1>2, <1>3, <1>4, <1>5 DEF PortfolioRequest

\* Every statement of the issue store and of its callers keeps the invariant.
LEMMA NumbersStep == NumbersInv /\ [IssuesNext]_issueVars => NumbersInv'
<1> SUFFICES ASSUME NumbersInv, [IssuesNext]_issueVars PROVE NumbersInv'
    OBVIOUS
<1> USE DEF Then
<1>1. Free.pc # "insert"
    BY DEF Free
<1>2. ASSUME NEW w \in Requesters, PatchIssue(w) PROVE NumbersInv'
    BY <1>1, <1>2, OtherKeeps DEF PatchIssue, PatchState
<1>3. ASSUME NEW w \in Requesters, ArchiveNote(w) PROVE NumbersInv'
  <2>1. PICK n \in 1..MaxIssues : request' = [request EXCEPT ![w] = [pc |-> "archive", number |-> n]]
      BY <1>3 DEF ArchiveNote
  <2> DEFINE r == [pc |-> "archive", number |-> n]
  <2>2. r.pc # "insert" /\ request' = [request EXCEPT ![w] = r]
      BY <2>1
  <2> HIDE DEF r
  <2> QED BY <1>3, <2>2, OtherKeeps DEF ArchiveNote
<1>4. ASSUME NEW w \in Requesters, ArchiveIssue(w) PROVE NumbersInv'
    BY <1>1, <1>4, OtherKeeps DEF ArchiveIssue, PatchState
<1>5. ASSUME NEW w \in Requesters, AddComment(w) PROVE NumbersInv'
    BY <1>1, <1>5, OtherKeeps DEF AddComment
<1>6. ASSUME NEW w \in Requesters, LookUpComment(w) PROVE NumbersInv'
  <2>1. ASSUME NEW r, r.pc # "insert", request' = [request EXCEPT ![w] = r]
        PROVE  NumbersInv'
      BY <1>6, <2>1, OtherKeeps DEF LookUpComment
  <2>2. PICK id \in Stored :
            \/ \E a \in Authors :
                  request' = [request EXCEPT ![w] = [pc |-> "edit", id |-> id, author |-> a]]
            \/ request' = [request EXCEPT ![w] = [pc |-> "delete", id |-> id]]
      BY <1>6 DEF LookUpComment
  <2>3. \A a : [pc |-> "edit", id |-> id, author |-> a].pc # "insert"
      OBVIOUS
  <2>4. [pc |-> "delete", id |-> id].pc # "insert"
      OBVIOUS
  <2> QED BY <2>1, <2>2, <2>3, <2>4, Zenon
<1>7. ASSUME NEW w \in Requesters, EditComment(w) \/ DeleteComment(w) \/ CutOff(w) PROVE NumbersInv'
    BY <1>1, <1>7, OtherKeeps DEF EditComment, DeleteComment, CutOff
<1>8. CASE UNCHANGED issueVars
    BY <1>8 DEF issueVars, NumbersInv, NumbersAreApart, Doing
<1>9. ASSUME NEW w \in Requesters, IssueRequest(w) PROVE NumbersInv'
    BY <1>2, <1>3, <1>4, <1>5, <1>6, <1>7, <1>9, AllocateKeeps, InsertKeeps DEF IssueRequest
<1> QED BY <1>8, <1>9, PortfolioKeeps DEF IssuesNext

\* Two creations never get one number and none is refused (AllocateNextNumber,
\* Create), with any number of requests, cut off or not.
THEOREM NumbersAlwaysApart == IssuesSpec => []NumbersAreApart
<1>1. IssuesInit => NumbersInv
  <2> SUFFICES ASSUME IssuesInit PROVE NumbersInv
      OBVIOUS
  <2>1. DOMAIN issues \subseteq {1}
      BY DEF IssuesInit
  <2> QED BY <2>1 DEF IssuesInit, NumbersInv, NumbersAreApart, Doing, Free
<1>2. NumbersInv /\ [IssuesNext]_issueVars => NumbersInv'
    BY NumbersStep
<1>3. NumbersInv => NumbersAreApart
    BY DEF NumbersInv
<1> QED BY <1>1, <1>2, <1>3, PTL DEF IssuesSpec

-----------------------------------------------------------------------------
(* Inspections.                                                              *)

CallPhases == {"parsed", "lookup", "run", "report", "screenshot", "insert", "takeback", "undo", "answered"}
Blobs == [of : Calls, part : Parts]

\* What a call has uploaded by the phase it is in, and who answers for it: a row whose
\* insert was not reported as failed is there only of an answered call, with both
\* blobs, and what an answered call without a row has left is left to the sweep or lost.
Accounted(c) ==
    /\ call[c].pc \in {"parsed", "lookup", "run", "report"} => \A b \in blobs : b.of # c
    /\ At(c, "screenshot") => Blob(c, "report") \in blobs
    /\ At(c, "insert") => \A part \in Parts : Blob(c, part) \in blobs
    /\ At(c, "takeback") => (Blob(c, "screenshot") \in blobs => Blob(c, "screenshot") \in lost)
    /\ c \in ledger => \/ At(c, "answered") /\ \A part \in Parts : Blob(c, part) \in blobs
                       \/ c \in unsure /\ call[c].pc \in {"undo", "answered"}
    /\ At(c, "answered") /\ c \notin ledger => \A b \in blobs : (b.of = c => b \in sweep.todo \cup lost)

InspectionsInv ==
    /\ DOMAIN call = Calls /\ \A c \in Calls : call[c].pc \in CallPhases /\ call[c] = [pc |-> call[c].pc, with |-> call[c].with]
    /\ ledger \subseteq Calls /\ blobs \subseteq Blobs
    /\ sweep \in [pc : {"rows", "blobs"}, todo : SUBSET Blobs]
    /\ sweep.pc = "rows" => sweep.todo = {}
    /\ \A b \in sweep.todo : call[b.of].pc \in {"undo", "answered"} /\ b.of \notin ledger
    /\ \A c \in Calls : Accounted(c)

\* A call goes on to a phase.
Moves(c, pc) == \E with : call' = [call EXCEPT ![c] = [pc |-> pc, with |-> with]]

\* What a handler does next leaves the other fields of its call alone.
LEMMA GoesMoves ==
    ASSUME InspectionsInv, NEW c \in Calls, NEW pc, Goes(c, pc)
    PROVE  Moves(c, pc)
<1> DEFINE r == [call[c] EXCEPT !.pc = pc]
<1>1. call[c] = [pc |-> call[c].pc, with |-> call[c].with]
    BY DEF InspectionsInv
<1>2. r = [pc |-> pc, with |-> call[c].with]
    BY <1>1
<1>3. call' = [call EXCEPT ![c] = r]
    BY DEF Goes
<1> HIDE DEF r
<1> QED BY <1>2, <1>3 DEF Moves

\* So does the answer.
LEMMA AnswersMoves ==
    ASSUME NEW c, NEW with, Answers(c, with)
    PROVE  Moves(c, "answered")
BY DEF Answers, Moves

\* A blob is one of its call.
LEMMA BlobFacts ==
    /\ \A c \in Calls, part \in Parts : Blob(c, part) \in Blobs /\ Blob(c, part).of = c
    /\ \A b \in Blobs : b.of \in Calls /\ b.part \in Parts /\ b = Blob(b.of, b.part)
BY DEF Blob, Blobs

\* So are all blobs of some calls.
LEMMA BlobsOfFacts ==
    ASSUME NEW calls \in SUBSET Calls
    PROVE  /\ BlobsOf(calls, Parts) \subseteq Blobs
           /\ \A b \in Blobs : b \in BlobsOf(calls, Parts) <=> b.of \in calls
BY BlobFacts DEF BlobsOf

\* The step of one call that leaves the sweep alone: what is left to show is what the
\* call itself has uploaded by then.
LEMMA CallMoves ==
    ASSUME InspectionsInv, NEW c \in Calls, NEW pc \in CallPhases, Moves(c, pc), UNCHANGED sweep,
           ~At(c, "answered"), At(c, "undo") => pc = "answered" /\ ledger' = ledger,
           ledger' \subseteq Calls, blobs' \subseteq Blobs,
           \A d \in Calls \ {c} : (d \in ledger' <=> d \in ledger) /\ (d \in unsure => d \in unsure'),
           \A b \in Blobs : b.of # c => (b \in blobs' <=> b \in blobs),
           lost \subseteq lost',
           Accounted(c)'
    PROVE  InspectionsInv'
<1> DEFINE r == call'[c]
<1>1. r.pc = pc /\ r = [pc |-> r.pc, with |-> r.with] /\ DOMAIN call' = Calls /\ \A d \in Calls \ {c} : call'[d] = call[d]
    BY DEF InspectionsInv, Moves
<1>2. /\ \A d \in Calls : call'[d].pc \in CallPhases /\ call'[d] = [pc |-> call'[d].pc, with |-> call'[d].with]
      /\ sweep' \in [pc : {"rows", "blobs"}, todo : SUBSET Blobs]
      /\ sweep'.pc = "rows" => sweep'.todo = {}
    BY <1>1 DEF InspectionsInv
<1>3. \A b \in sweep'.todo : call'[b.of].pc \in {"undo", "answered"} /\ b.of \notin ledger'
  <2> SUFFICES ASSUME NEW b \in sweep.todo
               PROVE  call'[b.of].pc \in {"undo", "answered"} /\ b.of \notin ledger'
      OBVIOUS
  <2>1. b.of \in Calls /\ b.of \notin ledger /\ call[b.of].pc \in {"undo", "answered"}
      BY BlobFacts DEF InspectionsInv
  <2>2. CASE b.of = c
      BY <1>1, <2>1, <2>2 DEF At
  <2>3. CASE b.of # c
      BY <1>1, <2>1, <2>3
  <2> QED BY <2>2, <2>3
<1>4. ASSUME NEW d \in Calls, d # c PROVE Accounted(d)'
  <2>1. Accounted(d) /\ call'[d] = call[d]
      BY <1>1, <1>4 DEF InspectionsInv
  <2>2. \A b \in Blobs : b.of = d => (b \in blobs' <=> b \in blobs)
      BY <1>4
  <2>3. \A part \in Parts : (Blob(d, part) \in blobs' <=> Blob(d, part) \in blobs)
      BY <2>2, BlobFacts
  <2>4. "screenshot" \in Parts /\ "report" \in Parts
      BY DEF Parts
  <2> QED BY <1>4, <2>1, <2>2, <2>3, <2>4 DEF Accounted, At, InspectionsInv
<1> QED BY <1>1, <1>2, <1>3, <1>4 DEF InspectionsInv

\* What a call that moves on is at.
LEMMA MovedAt ==
    ASSUME InspectionsInv, NEW c \in Calls, NEW pc, Moves(c, pc)
    PROVE  call'[c].pc = pc
BY DEF InspectionsInv, Moves

\* A call that has uploaded nothing yet looks something up, or is refused.
LEMMA LooksKeep ==
    ASSUME InspectionsInv, NEW c \in Calls, ResolveLease(c) \/ Lookup(c) \/ ResolveRun(c)
    PROVE  InspectionsInv'
<1>1. /\ call[c].pc \in {"parsed", "lookup", "run"} /\ UNCHANGED <<ledger, blobs, sweep, lost, unsure>>
      /\ ~At(c, "answered") /\ ~At(c, "undo")
    BY DEF ResolveLease, Lookup, ResolveRun, At, unfailed
<1>2. c \notin ledger /\ \A b \in blobs : b.of # c
    BY <1>1 DEF InspectionsInv, Accounted, At
<1>3. PICK pc \in {"lookup", "run", "report", "answered"} : Moves(c, pc)
    BY GoesMoves, AnswersMoves DEF ResolveLease, Lookup, ResolveRun, Start
<1>4. call'[c].pc = pc
    BY <1>3, MovedAt
<1>5. Accounted(c)'
    BY <1>1, <1>2, <1>3, <1>4 DEF Accounted, At
<1> QED BY <1>1, <1>3, <1>5, CallMoves DEF CallPhases, InspectionsInv

\* A blob is uploaded.
LEMMA UploadKeeps ==
    ASSUME InspectionsInv, NEW c \in Calls, NEW part \in Parts, NEW next,
           <<part, next>> \in {<<"report", "screenshot">>, <<"screenshot", "insert">>},
           Upload(c, part, next)
    PROVE  InspectionsInv'
<1>1. /\ At(c, part) /\ ~At(c, "answered") /\ ~At(c, "undo") /\ UNCHANGED <<ledger, sweep, lost, unsure>>
      /\ next \in CallPhases /\ blobs' = blobs \cup {Blob(c, part)} /\ Moves(c, next)
    BY GoesMoves DEF Upload, At, Parts, CallPhases, unfailed
<1>2. Blob(c, part) \in Blobs /\ Blob(c, part).of = c
    BY BlobFacts
<1>3. call'[c].pc = next /\ next \in {"screenshot", "insert"} /\ c \notin ledger
    BY <1>1, MovedAt DEF At, InspectionsInv, Accounted, Parts
<1>4. Accounted(c)'
  <2>1. next = "screenshot" => Blob(c, "report") \in blobs'
      BY <1>1
  <2>2. next = "insert" => \A q \in Parts : Blob(c, q) \in blobs'
      BY <1>1 DEF InspectionsInv, Accounted, Parts
  <2> QED BY <1>1, <1>3, <2>1, <2>2 DEF Accounted, At
<1>5. \A b \in Blobs : b.of # c => (b \in blobs' <=> b \in blobs)
    BY <1>1, <1>2
<1> HIDE DEF Upload
<1> QED BY <1>1, <1>2, <1>4, <1>5, CallMoves DEF InspectionsInv

\* An upload fails, with or without its blob: the call is refused or takes its report back.
LEMMA UploadFailsKeeps ==
    ASSUME InspectionsInv, NEW c \in Calls, NEW part \in Parts, UploadFails(c, part) PROVE InspectionsInv'
<1>1. /\ At(c, part) /\ ~At(c, "answered") /\ ~At(c, "undo") /\ UNCHANGED <<ledger, sweep, unsure>>
      /\ blobs' \in {blobs, blobs \cup {Blob(c, part)}} /\ lost' = lost \cup {Blob(c, part)}
    BY DEF UploadFails, At, Parts
<1>2. c \notin ledger
    BY <1>1 DEF InspectionsInv, Accounted, At, Parts
<1>3. \A b \in Blobs : b.of # c => (b \in blobs' <=> b \in blobs)
    BY <1>1, BlobFacts
<1>4. blobs' \subseteq Blobs
    BY <1>1, BlobFacts DEF InspectionsInv
<1>5. CASE part = "report" /\ Answers(c, Refused)
  <2>1. Moves(c, "answered") /\ call'[c].pc = "answered"
      BY <1>5, AnswersMoves, MovedAt
  <2>2. \A b \in blobs : b.of # c
      BY <1>1, <1>5 DEF InspectionsInv, Accounted, At
  <2>3. Accounted(c)'
      BY <1>1, <1>2, <2>1, <2>2 DEF Accounted, At
  <2> QED BY <1>1, <1>3, <1>4, <2>1, <2>3, CallMoves DEF CallPhases, InspectionsInv
<1>6. CASE part = "screenshot" /\ Goes(c, "takeback")
  <2>1. Moves(c, "takeback") /\ call'[c].pc = "takeback"
      BY <1>6, GoesMoves, MovedAt
  <2>2. Accounted(c)'
      BY <1>1, <1>2, <1>6, <2>1 DEF Accounted, At
  <2> QED BY <1>1, <1>3, <1>4, <2>1, <2>2, CallMoves DEF CallPhases, InspectionsInv
<1> QED BY <1>5, <1>6 DEF UploadFails, Parts

\* The row is inserted over both blobs, or the call undoes them, whether a failed insert
\* has left its row or not.
LEMMA InsertRowKeeps ==
    ASSUME InspectionsInv, NEW c \in Calls, Insert(c) \/ InsertFails(c) PROVE InspectionsInv'
<1>1. /\ At(c, "insert") /\ ~At(c, "answered") /\ ~At(c, "undo") /\ UNCHANGED <<blobs, sweep, lost>>
      /\ ledger' \in {ledger, ledger \cup {c}} /\ unsure \subseteq unsure'
    BY DEF Insert, InsertFails, At, unfailed
<1>2. c \notin ledger /\ \A part \in Parts : Blob(c, part) \in blobs
    BY <1>1 DEF InspectionsInv, Accounted, At
<1>3. CASE Answers(c, Record(c)) /\ ledger' = ledger \cup {c}
  <2>1. Moves(c, "answered") /\ call'[c].pc = "answered"
      BY <1>3, AnswersMoves, MovedAt
  <2>2. Accounted(c)'
      BY <1>1, <1>2, <1>3, <2>1 DEF Accounted, At
  <2> QED BY <1>1, <2>1, <2>2, CallMoves DEF CallPhases, InspectionsInv
<1>4. CASE Goes(c, "undo") /\ (c \in ledger' => c \in unsure')
  <2>1. Moves(c, "undo") /\ call'[c].pc = "undo"
      BY <1>4, GoesMoves, MovedAt
  <2>2. Accounted(c)'
      BY <1>1, <1>2, <1>4, <2>1 DEF Accounted, At
  <2> QED BY <1>1, <2>1, <2>2, CallMoves DEF CallPhases, InspectionsInv
<1> QED BY <1>2, <1>3, <1>4 DEF Insert, InsertFails

\* The roll-back leaves no blob of the call but those it could not delete, or whose own
\* upload had failed.
LEMMA UndoKeeps ==
    ASSUME InspectionsInv, NEW c \in Calls, Undo(c, "takeback", {"report"}) \/ Undo(c, "undo", Parts)
    PROVE  InspectionsInv'
<1>1. PICK pc \in {"takeback", "undo"}, parts \in SUBSET Parts :
          /\ Undo(c, pc, parts)
          /\ pc = "takeback" => parts = {"report"}
          /\ pc = "undo" => parts = Parts
    BY DEF Parts
<1>2. PICK missed \in SUBSET BlobsOf({c}, parts) :
          blobs' = blobs \ (BlobsOf({c}, parts) \ missed) /\ lost' = lost \cup missed
    BY <1>1 DEF Undo
<1>3. /\ At(c, pc) /\ ~At(c, "answered") /\ UNCHANGED <<ledger, sweep, unsure>> /\ Moves(c, "answered")
      /\ call'[c].pc = "answered"
    BY <1>1, AnswersMoves, MovedAt DEF Undo, At
<1>4. \A b \in Blobs : b \in BlobsOf({c}, parts) <=> b.of = c /\ b.part \in parts
    BY BlobFacts DEF BlobsOf, Blob
<1>5. \A b \in blobs' : b \in Blobs /\ b \in blobs /\ (b.of = c => b \in lost' \/ b.part \notin parts)
    BY <1>2, <1>4 DEF InspectionsInv
<1>6. ASSUME NEW b \in blobs', b.of = c PROVE b \in lost'
  <2>1. CASE b.part \in parts
      BY <1>5, <1>6, <2>1
  <2>2. CASE b.part \notin parts
    <3>1. pc = "takeback" /\ b = Blob(c, "screenshot")
        BY <1>1, <1>5, <1>6, <2>2, BlobFacts DEF Parts
    <3> QED BY <1>2, <1>3, <1>5, <3>1 DEF InspectionsInv, Accounted
  <2> QED BY <2>1, <2>2
<1>7. c \in ledger => c \in unsure
    BY <1>3 DEF InspectionsInv, Accounted, At
<1>8. Accounted(c)'
    BY <1>3, <1>6, <1>7 DEF Accounted, At
<1>9. \A b \in Blobs : b.of # c => (b \in blobs' <=> b \in blobs)
    BY <1>2, <1>4
<1> QED BY <1>2, <1>3, <1>5, <1>8, <1>9, CallMoves DEF CallPhases, InspectionsInv

\* The sweep takes the rows, or fails to.
LEMMA SweepRowsKeep ==
    ASSUME InspectionsInv, SweepRows \/ SweepFails PROVE InspectionsInv'
<1> DEFINE swept == BlobsOf(SweptRows, Parts)
<1>1. swept \subseteq Blobs /\ \A b \in Blobs : b \in swept <=> b.of \in SweptRows
    BY BlobsOfFacts DEF SweptRows, InspectionsInv
<1>2. /\ UNCHANGED <<call, blobs, unsure>> /\ sweep.todo = {} /\ SweptRows \subseteq ledger
      /\ \/ ledger' = ledger \ SweptRows /\ sweep' = [pc |-> "blobs", todo |-> swept] /\ lost' = lost
         \/ ledger' = ledger /\ sweep' = [pc |-> "blobs", todo |-> {}] /\ lost' = lost
         \/ ledger' = ledger \ SweptRows /\ sweep' = [pc |-> "blobs", todo |-> {}] /\ lost' = lost \cup swept
    BY Zenon DEF SweepRows, SweepFails, SweptRows, InspectionsInv, unfailed
<1> HIDE DEF swept
<1>3. /\ SweptRows \subseteq ledger /\ UNCHANGED <<call, blobs, unsure>> /\ sweep.todo = {}
      /\ lost \subseteq lost'
      /\ sweep'.pc = "blobs" /\ sweep' = [pc |-> "blobs", todo |-> sweep'.todo] /\ sweep'.todo \subseteq swept
      /\ \/ ledger' = ledger /\ sweep'.todo = {}
         \/ ledger' = ledger \ SweptRows /\ swept \subseteq sweep'.todo \cup lost'
    BY <1>2
<1>4. \A b \in sweep'.todo : call'[b.of].pc \in {"undo", "answered"} /\ b.of \notin ledger'
  <2> SUFFICES ASSUME NEW b \in sweep'.todo
               PROVE  call[b.of].pc \in {"undo", "answered"} /\ b.of \notin ledger'
      BY <1>3
  <2>1. b.of \in ledger /\ b.of \in Calls /\ b.of \in SweptRows
      BY <1>3, <1>1 DEF InspectionsInv
  <2>2. call[b.of].pc \in {"undo", "answered"}
      BY <2>1 DEF InspectionsInv, Accounted, At
  <2> QED BY <1>3, <2>1, <2>2
<1>5. ASSUME NEW c \in Calls PROVE Accounted(c)'
  <2>1. Accounted(c)
      BY DEF InspectionsInv
  <2>2. ASSUME At(c, "answered"), c \notin ledger', NEW b \in blobs, b.of = c
        PROVE  b \in sweep'.todo \cup lost'
      BY <1>3, <1>1, <2>1, <2>2 DEF Accounted, InspectionsInv
  <2> QED BY <1>3, <2>1, <2>2 DEF Accounted, At
<1> QED BY <1>3, <1>1, <1>4, <1>5 DEF InspectionsInv

\* The sweep deletes a blob, or fails to and goes on.
LEMMA SweepBlobKeeps ==
    ASSUME InspectionsInv, SweepBlob PROVE InspectionsInv'
<1>1. PICK b \in sweep.todo :
          /\ sweep' = [sweep EXCEPT !.todo = @ \ {b}]
          /\ \/ blobs' = blobs \ {b} /\ lost' = lost
             \/ blobs' = blobs /\ lost' = lost \cup {b}
    BY DEF SweepBlob
<1>2. /\ UNCHANGED <<call, ledger, unsure>> /\ b \in Blobs /\ b.of \notin ledger
      /\ call[b.of].pc \in {"undo", "answered"} /\ b.of \in Calls
    BY BlobFacts DEF SweepBlob, InspectionsInv
<1>3. /\ sweep' \in [pc : {"rows", "blobs"}, todo : SUBSET Blobs] /\ sweep'.pc = sweep.pc
      /\ sweep'.todo = sweep.todo \ {b}
    BY <1>1 DEF InspectionsInv
<1>4. ASSUME NEW c \in Calls PROVE Accounted(c)'
  <2>1. Accounted(c)
      BY DEF InspectionsInv
  <2>2. \A d \in Blobs : d # b => (d \in blobs' <=> d \in blobs)
      BY <1>1
  <2>3. c = b.of => call[c].pc \in {"undo", "answered"} /\ c \notin ledger
      BY <1>2
  <2>4. \A part \in Parts : c # b.of => Blob(c, part) # b
      BY BlobFacts
  <2>5. "screenshot" \in Parts /\ "report" \in Parts
      BY DEF Parts
  <2>6. c # b.of => \A part \in Parts : (Blob(c, part) \in blobs' <=> Blob(c, part) \in blobs)
      BY <2>2, <2>4, BlobFacts
  <2>7. ASSUME At(c, "answered"), c \notin ledger, NEW d \in blobs', d.of = c
        PROVE  d \in sweep'.todo \cup lost'
      BY <1>1, <1>3, <2>1, <2>7 DEF Accounted
  <2>8. blobs' \subseteq blobs /\ lost \subseteq lost'
      BY <1>1
  <2> QED BY <1>2, <2>1, <2>3, <2>5, <2>6, <2>7, <2>8 DEF Accounted, At
<1> QED BY <1>1, <1>2, <1>3, <1>4 DEF InspectionsInv

\* The process dies: what its calls and its sweep had in hand is lost.
LEMMA CrashKeeps ==
    ASSUME InspectionsInv, Crash PROVE InspectionsInv'
<1>1. /\ UNCHANGED <<ledger, blobs, unsure>> /\ sweep' = [sweep EXCEPT !.todo = {}]
      /\ lost' = lost \cup sweep.todo \cup BlobsOf({c \in Calls : InFlight(c)}, Parts)
      /\ call' = [c \in Calls |-> IF InFlight(c) THEN [pc |-> "answered", with |-> Refused] ELSE call[c]]
    BY DEF Crash
<1>2. sweep' = [pc |-> sweep.pc, todo |-> {}]
    BY <1>1 DEF InspectionsInv
<1>3. \A c \in Calls : /\ call'[c].pc \in CallPhases /\ call'[c] = [pc |-> call'[c].pc, with |-> call'[c].with]
                       /\ InFlight(c) => call'[c].pc = "answered"
                       /\ ~InFlight(c) => call'[c] = call[c]
    BY <1>1 DEF InspectionsInv, CallPhases
<1>4. ASSUME NEW c \in Calls PROVE Accounted(c)'
  <2>1. Accounted(c)
      BY DEF InspectionsInv
  <2>2. CASE InFlight(c)
    <3>1. \A b \in blobs : b.of = c => b \in BlobsOf({d \in Calls : InFlight(d)}, Parts)
        BY <2>2, BlobFacts DEF BlobsOf, InspectionsInv
    <3>2. \A b \in blobs : b.of = c => b \in lost'
        BY <1>1, <3>1
    <3>3. c \in ledger => c \in unsure
        BY <2>1, <2>2 DEF Accounted, At, InFlight
    <3> QED BY <1>1, <1>3, <2>2, <3>2, <3>3 DEF Accounted, At
  <2>3. CASE ~InFlight(c)
    <3>1. call'[c] = call[c] /\ call[c].pc \in {"parsed", "answered"}
        BY <1>3, <2>3 DEF InFlight
    <3> QED BY <1>1, <2>1, <3>1 DEF Accounted, At
  <2> QED BY <2>2, <2>3
<1> QED BY <1>1, <1>2, <1>3, <1>4 DEF InspectionsInv

\* Every step of the uploads, the sweep and the deletions keeps the invariant.
LEMMA InspectionsStep == InspectionsInv /\ [InspectionsNext]_inspectionVars => InspectionsInv'
<1> SUFFICES ASSUME InspectionsInv, [InspectionsNext]_inspectionVars PROVE InspectionsInv'
    OBVIOUS
<1>1. ASSUME NEW c \in Calls, CreateInspection(c) PROVE InspectionsInv'
    BY <1>1, LooksKeep, UploadKeeps, UploadFailsKeeps, InsertRowKeeps, UndoKeeps
    DEF CreateInspection, Parts
<1>2. CASE UNCHANGED <<call, ledger, blobs, sweep, lost, unsure>>
    BY <1>2 DEF InspectionsInv, Accounted, At
<1>3. Release \/ UNCHANGED inspectionVars => UNCHANGED <<call, ledger, blobs, sweep, lost, unsure>>
    BY DEF Release, inspectionVars, unfailed
<1> QED BY <1>1, <1>2, <1>3, SweepRowsKeep, SweepBlobKeeps, CrashKeeps DEF InspectionsNext

\* A row whose insert was not reported as failed always has both of its blobs, and a blob
\* always has a row, a call under way or the sweep to answer for it, or is one whose own
\* upload or deletion failed or was cut off (createInspection, sweepLeaseInspections):
\* for any number of calls, repeated requests, failures and restarts.
THEOREM LedgerAlwaysMatches == InspectionsSpec => []LedgerMatchesBlobs
<1>1. InspectionsInit => InspectionsInv
    BY DEF InspectionsInit, InspectionsInv, Accounted, CallPhases, Blobs, At
<1>2. InspectionsInv /\ [InspectionsNext]_inspectionVars => InspectionsInv'
    BY InspectionsStep
<1>3. InspectionsInv => LedgerMatchesBlobs
  <2> SUFFICES ASSUME InspectionsInv PROVE RowsHaveBlobs /\ BlobsHaveOwners
      BY DEF LedgerMatchesBlobs
  <2>1. RowsHaveBlobs
      BY DEF RowsHaveBlobs, BlobsOf, InspectionsInv, Accounted
  <2>2. BlobsHaveOwners
      BY BlobFacts DEF BlobsHaveOwners, InspectionsInv, Accounted, InFlight, At
  <2> QED BY <2>1, <2>2
<1> QED BY <1>1, <1>2, <1>3, PTL DEF InspectionsSpec
-----------------------------------------------------------------------------
(* Reviews.                                                                  *)

Requests == [number : Numbers, issue : {IssueOf[r] : r \in Runs}, run : Runs]
Ensuring ==
    [pc : {"by issue", "by number", "create"}, req : Requests]
      \cup [pc : {"patch"}, req : Requests, row : Numbers]

\* A row is kept under the number it carries, and a request that goes on to write an
\* existing row has found the row of its own pull request.
ReviewsInv ==
    /\ reviews \in [DOMAIN reviews -> Requests] /\ DOMAIN reviews \subseteq Numbers
    /\ ensure \in [Ensurers -> Ensuring \cup {NotEnsuring}]
    /\ \A n \in DOMAIN reviews : reviews[n].number = n
    /\ \A e \in Ensurers : Within(e, "patch") =>
           ensure[e].row \in DOMAIN reviews /\ ensure[e].row = ensure[e].req.number
    /\ done \subseteq DOMAIN reviews

\* A request that is under way.
LEMMA EnsuringRequest ==
    ASSUME ReviewsInv, NEW e \in Ensurers, ~Within(e, "idle")
    PROVE  ensure[e] \in Ensuring /\ ensure[e].req \in Requests
<1>1. ensure[e] \in Ensuring
  <2>1. ensure[e] \in Ensuring \cup {NotEnsuring} /\ NotEnsuring.pc = "idle"
      BY DEF ReviewsInv, NotEnsuring
  <2> QED BY <2>1 DEF Within
<1>2. CASE ensure[e] \in [pc : {"by issue", "by number", "create"}, req : Requests]
    BY <1>1, <1>2
<1>3. CASE ensure[e] \in [pc : {"patch"}, req : Requests, row : Numbers]
    BY <1>1, <1>3
<1> QED BY <1>1, <1>2, <1>3 DEF Ensuring

\* A lookup that finds nothing goes on.
LEMMA EnsuringGoes ==
    ASSUME ReviewsInv, NEW e \in Ensurers, Within(e, "by issue") \/ Within(e, "by number"),
           NEW pc \in {"by number", "create"}
    PROVE  /\ [ensure[e] EXCEPT !.pc = pc] \in Ensuring
           /\ [ensure[e] EXCEPT !.pc = pc].pc = pc
<1>1. ensure[e] \in Ensuring
    BY EnsuringRequest DEF Within
<1>2. ensure[e] \in [pc : {"by issue", "by number", "create"}, req : Requests]
    BY <1>1 DEF Ensuring, Within
<1>3. /\ [ensure[e] EXCEPT !.pc = pc]
            \in [pc : {"by issue", "by number", "create"}, req : Requests]
      /\ [ensure[e] EXCEPT !.pc = pc].pc = pc
    BY <1>2
<1> QED BY <1>3 DEF Ensuring

\* A request goes on and writes no row.
LEMMA EnsureMoves ==
    ASSUME ReviewsInv, NEW e \in Ensurers, NEW next \in Ensuring \cup {NotEnsuring},
           ensure' = [ensure EXCEPT ![e] = next], UNCHANGED <<reviews, done>>,
           next.pc = "patch" => next.row \in DOMAIN reviews /\ next.row = next.req.number
    PROVE  ReviewsInv'
<1>1. \A f \in Ensurers : ensure'[f] = IF f = e THEN next ELSE ensure[f]
    BY DEF ReviewsInv
<1> QED BY <1>1 DEF ReviewsInv, Within

\* A request writes the row of its pull request and ends.
LEMMA EnsureWrites ==
    ASSUME ReviewsInv, NEW e \in Ensurers, NEW req \in Requests,
           ensure' = [ensure EXCEPT ![e] = NotEnsuring],
           reviews' = [n \in DOMAIN reviews \cup {req.number} |->
                         IF n = req.number THEN req ELSE reviews[n]],
           done' = done \cup {req.number}
    PROVE  ReviewsInv'
<1>1. \A f \in Ensurers : ensure'[f] = IF f = e THEN NotEnsuring ELSE ensure[f]
    BY DEF ReviewsInv
<1>2. req.number \in Numbers
    BY DEF Requests
<1>3. /\ DOMAIN reviews' = DOMAIN reviews \cup {req.number}
      /\ \A n \in DOMAIN reviews' :
           reviews'[n] = IF n = req.number THEN req ELSE reviews[n]
    OBVIOUS
<1>4. reviews' \in [DOMAIN reviews' -> Requests]
    BY <1>3 DEF ReviewsInv
<1> QED BY <1>1, <1>2, <1>3, <1>4 DEF ReviewsInv, Within, NotEnsuring

\* Every step of EnsureReview keeps it.
LEMMA ReviewsStep == ReviewsInv /\ [ReviewsNext]_reviewVars => ReviewsInv'
<1> SUFFICES ASSUME ReviewsInv, [ReviewsNext]_reviewVars PROVE ReviewsInv'
    OBVIOUS
<1>1. ASSUME NEW e \in Ensurers, NEW r \in Runs, NEW n \in Numbers, Materialize(e, r, n)
      PROVE  ReviewsInv'
  <2>1. [pc |-> "by issue", req |-> Request(r, n)] \in Ensuring
      BY DEF Ensuring, Requests, Request
  <2> QED BY <1>1, <2>1, EnsureMoves DEF Materialize
<1>2. ASSUME NEW e \in Ensurers, FindByIssue(e) PROVE ReviewsInv'
  <2> DEFINE req == ensure[e].req
  <2>1. req \in Requests
      BY <1>2, EnsuringRequest DEF FindByIssue, Within
  <2>2. CASE EnsureGoes(e, "by number")
    <3>1. /\ [ensure[e] EXCEPT !.pc = "by number"] \in Ensuring
          /\ [ensure[e] EXCEPT !.pc = "by number"].pc = "by number"
        BY <1>2, EnsuringGoes DEF FindByIssue
    <3> QED BY <1>2, <2>2, <3>1, EnsureMoves DEF EnsureGoes, FindByIssue
  <2>3. ASSUME NEW n \in OfIssue(req.issue), MatchesRequestPR(n, req),
               ensure' = [ensure EXCEPT ![e] = [pc |-> "patch", req |-> req, row |-> n]]
        PROVE  ReviewsInv'
    <3>1. n \in DOMAIN reviews /\ n = req.number
        BY <2>3 DEF OfIssue, MatchesRequestPR, ReviewsInv
    <3>2. [pc |-> "patch", req |-> req, row |-> n] \in Ensuring
        BY <2>1, <3>1 DEF Ensuring, ReviewsInv
    <3> QED BY <1>2, <2>3, <3>1, <3>2, EnsureMoves DEF FindByIssue
  <2> QED BY <1>2, <2>2, <2>3 DEF FindByIssue, LastTouched
<1>3. ASSUME NEW e \in Ensurers, FindByNumber(e) PROVE ReviewsInv'
  <2> DEFINE req == ensure[e].req
  <2>1. req \in Requests
      BY <1>3, EnsuringRequest DEF FindByNumber, Within
  <2>2. CASE req.number \in DOMAIN reviews
    <3>1. [pc |-> "patch", req |-> req, row |-> req.number] \in Ensuring
        BY <2>1 DEF Ensuring, Requests
    <3> QED BY <1>3, <2>2, <3>1, EnsureMoves DEF FindByNumber
  <2>3. CASE req.number \notin DOMAIN reviews
    <3>1. /\ [ensure[e] EXCEPT !.pc = "create"] \in Ensuring
          /\ [ensure[e] EXCEPT !.pc = "create"].pc = "create"
        BY <1>3, EnsuringGoes DEF FindByNumber
    <3> QED BY <1>3, <2>3, <3>1, EnsureMoves DEF EnsureGoes, FindByNumber
  <2> QED BY <2>2, <2>3
<1>4. ASSUME NEW e \in Ensurers, PatchReview(e) PROVE ReviewsInv'
  <2> DEFINE req == ensure[e].req
  <2>1. /\ req \in Requests /\ req.number \in DOMAIN reviews /\ ensure[e].row = req.number
        /\ reviews[req.number].number = req.number
      BY <1>4, EnsuringRequest DEF PatchReview, Within, ReviewsInv
  <2>2. reviews' = [n \in DOMAIN reviews \cup {req.number} |->
                      IF n = req.number THEN req ELSE reviews[n]]
    <3> HIDE DEF req
    <3>1. \/ reviews' = reviews /\ reviews[req.number] = req
          \/ reviews' = [reviews EXCEPT ![req.number] = req]
        BY <1>4, <2>1 DEF PatchReview, req
    <3>2. reviews = [n \in DOMAIN reviews |-> reviews[n]]
        BY DEF ReviewsInv
    <3>3. DOMAIN reviews \cup {req.number} = DOMAIN reviews
        BY <2>1
    <3> QED BY ONLY <2>1, <3>1, <3>2, <3>3
  <2> QED BY <1>4, <2>1, <2>2, EnsureWrites DEF PatchReview, EnsureEnds
<1>5. ASSUME NEW e \in Ensurers, CreateReview(e) PROVE ReviewsInv'
  <2>1. ensure[e].req \in Requests
      BY <1>5, EnsuringRequest DEF CreateReview, Within
  <2>2. CASE ensure[e].req.number \in DOMAIN reviews
      BY <1>5, <2>2, EnsureMoves DEF CreateReview, EnsureEnds, NotEnsuring
  <2>3. CASE ensure[e].req.number \notin DOMAIN reviews
      BY <1>5, <2>1, <2>3, EnsureWrites DEF CreateReview, EnsureEnds
  <2> QED BY <2>2, <2>3
<1>6. ASSUME UNCHANGED reviewVars PROVE ReviewsInv'
    BY <1>6 DEF reviewVars, ReviewsInv, Within
<1> QED BY <1>1, <1>2, <1>3, <1>4, <1>5, <1>6 DEF ReviewsNext

\* Every pull request a review was ensured for has a row of its own that carries its
\* number (EnsureReview), for any number of runs, pull requests and overlapping requests.
THEOREM ReviewsAlwaysFound == ReviewsSpec => []EachPRHasItsReview
<1>1. ReviewsInit => ReviewsInv
    BY DEF ReviewsInit, ReviewsInv, Within, NotEnsuring
<1>2. ReviewsInv => EachPRHasItsReview
    BY DEF ReviewsInv, EachPRHasItsReview
<1> QED BY <1>1, <1>2, ReviewsStep, PTL DEF ReviewsSpec

-----------------------------------------------------------------------------
(* What the graph shows of a run.                                            *)

ViewSpec == ViewInit /\ [][ViewNext]_viewVars

\* A failed job has a step that failed with it.
IsOwned(job) ==
    job.state \in {"failed", "aborted"} => \E s \in Slugs : job.steps[s].state = "failed"

\* The last thing done to a job that is shown gives it one, whatever it was before
\* (ensureFailedJobOwnerStep).
LEMMA OwnerIsThere ==
    ASSUME NEW job, NEW neverRan PROVE IsOwned(WithOwner(job, neverRan))
<1> DEFINE ran == job.state \notin {"failed", "aborted"} \/ \E s \in Slugs : job.steps[s].state = "failed"
<1>1. CASE ran
    BY <1>1 DEF WithOwner, IsOwned
<1>2. CASE ~ran /\ neverRan /\ job.reason = "dispatch"
  <2> DEFINE steps == OwnedSteps(job.steps, "dispatch")
  <2>1. "dispatch" \in Slugs /\ steps["dispatch"].state = "failed"
      BY DEF OwnedSteps, Slugs, Synthesized, Because
  <2> HIDE DEF steps
  <2>2. WithOwner(job, neverRan) = WithSteps(job, steps)
      BY <1>2 DEF WithOwner, steps
  <2> QED BY <2>1, <2>2 DEF WithSteps, IsOwned
<1>3. CASE ~ran /\ ~(neverRan /\ job.reason = "dispatch")
  <2> DEFINE verdict == Because("failed", IF job.reason = "none" THEN "job_failed" ELSE job.reason)
             steps == [s \in Slugs |-> IF s = "verdict" THEN verdict ELSE job.steps[s]]
  <2>1. "verdict" \in Slugs /\ steps["verdict"].state = "failed"
      BY DEF Slugs, Synthesized, Because
  <2> HIDE DEF steps
  <2>2. WithOwner(job, neverRan) = WithSteps(job, steps)
      BY <1>3 DEF WithOwner, steps
  <2> QED BY <2>1, <2>2 DEF WithSteps, IsOwned
<1> QED BY <1>1, <1>2, <1>3

\* So it is of every job of a phase, and of each a phase has after the events
\* (runProjectionJobsForExecution, applyRunnerEventsToProjectionRun).
LEMMA ShownJobsAreOwned ==
    ASSUME NEW r, NEW p, NEW ph
    PROVE  /\ DOMAIN ShownJobs(r, p, ph) = JobsOf[p]
           /\ \A j \in JobsOf[p] : IsOwned(ShownJobs(r, p, ph)[j])
BY OwnerIsThere DEF ShownJobs

\* The jobs of a phase that the events are laid over.
LEMMA OverlaidJobsAreOwned ==
    ASSUME NEW ph, NEW events, NEW j \in DOMAIN ph.jobs
    PROVE  IsOwned(OverlaidPhase(ph, events).jobs[j])
BY OwnerIsThere DEF OverlaidPhase

\* And of every phase of a graph: one that shows carried successes has an attempt, and its
\* events come over them.
LEMMA ViewIsOwned ==
    ASSUME NEW r, NEW rows, NEW p \in Phases, NEW j \in JobsOf[p]
    PROVE  IsOwned(View(r, rows)[p].jobs[j])
<1> DEFINE shown == ShownPhase(r, p, rows[p])
           plain == [state |-> rows[p].state, reason |-> PhaseReason(r, p, rows[p]),
                     jobs |-> ShownJobs(r, p, rows[p])]
<1>1. DOMAIN plain.jobs = JobsOf[p] /\ IsOwned(plain.jobs[j])
    BY ShownJobsAreOwned
<1>2. \/ shown = plain
      \/ HasAttempt(r, p) /\ shown = CarriedOver(plain)
    BY DEF ShownPhase
<1> HIDE DEF plain
<1>3. DOMAIN CarriedOver(plain).jobs = JobsOf[p]
    BY <1>1 DEF CarriedOver
<1> HIDE DEF shown
<1>4. CASE HasAttempt(r, p)
  <2> DEFINE events == EventsNow(Max(OfPhase(r.attempts, p)))
  <2>1. View(r, rows)[p] = OverlaidPhase(shown, events)
      BY <1>4 DEF View, shown
  <2> HIDE DEF events
  <2> QED BY <1>1, <1>2, <1>3, <2>1, OverlaidJobsAreOwned
<1>5. CASE ~HasAttempt(r, p)
  <2>1. View(r, rows)[p] = shown
      BY <1>5 DEF View, shown
  <2> QED BY <1>1, <1>2, <1>5, <2>1
<1> QED BY <1>4, <1>5

\* The graph never shows a failed job without the step that owns the failure, for any
\* workflow, whatever the row holds and however far the events are ahead of it.
THEOREM FailureAlwaysOwned == ViewSpec => []FailureIsOwned
<1>1. ViewInit => FailureIsOwned
    BY DEF ViewInit, FailureIsOwned, Answered, NotReading
<1>2. FailureIsOwned /\ [ViewNext]_viewVars => FailureIsOwned'
  <2> SUFFICES ASSUME FailureIsOwned, [ViewNext]_viewVars PROVE FailureIsOwned'
      OBVIOUS
  <2>1. CASE UNCHANGED reader
      BY <2>1 DEF FailureIsOwned, Answered, Shown
  <2>2. CASE ReadRow
    <3>1. reader'.pc = "row"
        BY <2>2 DEF ReadRow
    <3> QED BY <3>1 DEF FailureIsOwned, Answered
  <2>3. CASE Show
    <3>1. reader'.view = View(reader.run, reader.executions)
        BY <2>3 DEF Show
    <3> QED BY <3>1, ViewIsOwned DEF FailureIsOwned, Answered, Shown, IsOwned
  <2> QED BY <2>1, <2>2, <2>3 DEF ViewNext, viewVars
<1> QED BY <1>1, <1>2, PTL DEF ViewSpec

-----------------------------------------------------------------------------
(* Inner Jobs.                                                               *)

InnerSpec == InnerInit /\ [][InnerNext]_innerVars

Notices(n) ==
    [pc : {"idle"}] \cup [pc : {"sweep"}, todo : SUBSET Children]
    \cup [pc : {"built"}, c : Children, end : Ends, todo : SUBSET Children]
    \cup [pc : {"located"}, c : Children, end : Ends, att : 1 .. n, todo : SUBSET Children]
Filings(n) == [att : 1 .. n, c : Children, end : Ends, applied : BOOLEAN]
Jobs(n) == [of : 1 .. n, is : {"none", "running", "gone"} \cup Ends]
RowStates == {"none", "active"} \cup Ends

\* Each attempt is of a phase of its own, an end is filed once for each attempt, and what
\* was applied is what its phase shows.
InnerInv ==
    /\ tries \in Seq(Stages) /\ Len(tries) > 0
    /\ \A m, n \in 1 .. Len(tries) : m < n => tries[m] < tries[n]
    /\ inner \in [Stages -> [Children -> RowStates]]
    /\ child \in [Children -> Jobs(Len(tries))]
    /\ filed \subseteq Filings(Len(tries))
    /\ \A f, g \in filed : f.att = g.att /\ f.c = g.c => f = g
    /\ notice \in [Observers -> Notices(Len(tries))]
    /\ EndsAreShown

\* What an observer does for itself.
LEMMA TurnsKeeps ==
    ASSUME InnerInv, NEW o \in Observers, NEW next \in Notices(Len(tries)), Turns(o, next),
           UNCHANGED <<tries, child, inner, filed>>
    PROVE  InnerInv'
BY DEF InnerInv, Turns, EndsAreShown

\* What an observer goes on with, once it has filed.
LEMMA AfterIsNotice ==
    ASSUME InnerInv, NEW o \in Observers, Ready(o, "located")
    PROVE  After(o) \in Notices(Len(tries))
<1>1. notice[o] \in [pc : {"located"}, c : Children, end : Ends, att : 1 .. Len(tries), todo : SUBSET Children]
    BY DEF InnerInv, Ready, Notices
<1> QED BY <1>1 DEF After, Quiet, Notices

\* The attempts' phases are numbers.
LEMMA TriesAreStages ==
    ASSUME InnerInv PROVE \A k \in 1 .. Len(tries) : tries[k] \in Stages /\ tries[k] \in Nat
<1>1. \A k \in 1 .. Len(tries) : tries[k] \in Stages
    BY DEF InnerInv
<1> QED BY <1>1, StagesAssumption

\* The next attempt is of a phase that had none.
LEMMA NextTryKeeps == ASSUME InnerInv, NextTry PROVE InnerInv'
<1>1. PICK p \in Stages : p > tries[Len(tries)] /\ tries' = Append(tries, p)
    BY DEF NextTry
<1> DEFINE n == Len(tries)
<1>2. /\ n \in Nat \ {0} /\ tries' \in Seq(Stages) /\ Len(tries') = n + 1 /\ tries'[n + 1] = p
      /\ \A k \in 1 .. n : tries'[k] = tries[k] /\ tries[k] \in Nat
  <2>1. tries \in Seq(Stages) /\ n \in Nat /\ n > 0
      BY DEF InnerInv
  <2>2. tries' \in Seq(Stages) /\ Len(tries') = n + 1 /\ tries'[n + 1] = p /\ \A k \in 1 .. n : tries'[k] = tries[k]
      BY <1>1, <2>1
  <2> QED BY <2>1, <2>2, TriesAreStages
<1>3. p \in Nat /\ \A k \in 1 .. n : tries[k] < p
    BY <1>1, <1>2, StagesAssumption DEF InnerInv
<1>4. \A k, m \in 1 .. Len(tries') : k < m => tries'[k] < tries'[m]
  <2> SUFFICES ASSUME NEW k \in 1 .. n + 1, NEW m \in 1 .. n + 1, k < m PROVE tries'[k] < tries'[m]
      BY <1>2
  <2>1. k \in 1 .. n
      BY <1>2
  <2>2. CASE m = n + 1
      BY <1>2, <1>3, <2>1, <2>2
  <2>3. CASE m # n + 1
    <3>1. m \in 1 .. n
        BY <1>2, <2>3
    <3> QED BY <1>2, <2>1, <3>1 DEF InnerInv
  <2> QED BY <2>2, <2>3
<1>5. Jobs(n) \subseteq Jobs(n + 1) /\ Filings(n) \subseteq Filings(n + 1) /\ Notices(n) \subseteq Notices(n + 1)
  <2>1. 1 .. n \subseteq 1 .. n + 1
      BY <1>2
  <2> HIDE DEF n
  <2> QED BY <2>1 DEF Jobs, Filings, Notices
<1>6. UNCHANGED <<live, child, inner, filed, notice>>
    BY DEF NextTry
<1>7. EndsAreShown'
  <2>1. \A f \in filed : tries'[f.att] = tries[f.att]
      BY <1>2 DEF InnerInv, Filings
  <2> QED BY <1>6, <2>1 DEF EndsAreShown, InnerInv
<1> HIDE DEF n
<1>8. child \in [Children -> Jobs(n + 1)] /\ filed \subseteq Filings(n + 1) /\ notice \in [Observers -> Notices(n + 1)]
    BY <1>5 DEF InnerInv, n
<1> QED BY <1>2, <1>4, <1>6, <1>7, <1>8 DEF InnerInv

\* A marker leaves the rows that have ended as they are.
LEMMA RegisterKeeps ==
    ASSUME InnerInv, NEW c \in Children, RegisterInner(c) PROVE InnerInv'
<1> DEFINE p == tries[AttemptOf(c)]
<1>1. p \in Stages /\ inner[p] \in [Children -> RowStates]
    BY DEF InnerInv, Jobs, AttemptOf
<1>2. inner' = [inner EXCEPT ![p] = Registered(inner[p], c)] /\ UNCHANGED <<tries, child, filed, notice>>
    BY DEF RegisterInner
<1> HIDE DEF p
<1>3. /\ Registered(inner[p], c) \in [Children -> RowStates]
      /\ \A d \in Children : inner[p][d] \in Ends => Registered(inner[p], c)[d] = inner[p][d]
    BY <1>1 DEF Registered, RowStates, Ends
<1>4. /\ inner' \in [Stages -> [Children -> RowStates]]
      /\ \A q \in Stages, d \in Children : inner[q][d] \in Ends => inner'[q][d] = inner[q][d]
    BY <1>1, <1>2, <1>3 DEF InnerInv
<1>5. EndsAreShown'
  <2>1. \A f \in filed : tries[f.att] \in Stages /\ f.c \in Children /\ f.end \in Ends
      BY DEF InnerInv, Filings
  <2> QED BY <1>2, <1>4, <2>1 DEF EndsAreShown, InnerInv
<1> QED BY <1>2, <1>4, <1>5 DEF InnerInv

\* An end is kept once for each attempt: no other is filed under its phase.
LEMMA FileKeeps ==
    ASSUME InnerInv, NEW o \in Observers, File(o) PROVE InnerInv'
<1> DEFINE r == notice[o]
           p == tries[r.att]
<1>1. /\ r.att \in 1 .. Len(tries) /\ r.c \in Children /\ r.end \in Ends /\ r.todo \subseteq Children
      /\ p \in Stages
    BY DEF InnerInv, File, Ready, Notices
<1>2. Quiet \in Notices(Len(tries)) /\ After(o) \in Notices(Len(tries))
    BY AfterIsNotice DEF File, Quiet, Notices
<1>3. CASE Known(r.att, r.c)
    BY <1>2, <1>3, TurnsKeeps DEF File
<1>4. ASSUME ~Known(r.att, r.c), NEW applied \in BOOLEAN,
             filed' = filed \cup {[att |-> r.att, c |-> r.c, end |-> r.end, applied |-> applied]},
             inner' = IF applied THEN [inner EXCEPT ![p] = Terminated(inner[p], r.c, r.end)] ELSE inner,
             Turns(o, IF applied THEN After(o) ELSE Quiet), UNCHANGED <<tries, child>>
      PROVE  InnerInv'
  <2> DEFINE new == [att |-> r.att, c |-> r.c, end |-> r.end, applied |-> applied]
  <2>1. /\ new \in Filings(Len(tries)) /\ new.att = r.att /\ new.c = r.c /\ new.end = r.end
        /\ new.applied = applied /\ filed' = filed \cup {new}
      BY <1>1, <1>4 DEF Filings
  <2>2. \A f \in filed : f.att # r.att \/ f.c # r.c
      BY <1>4 DEF Known
  <2> HIDE DEF new
  <2>3. /\ inner' \in [Stages -> [Children -> RowStates]]
        /\ applied => inner'[p][r.c] = r.end
        /\ \A q \in Stages, d \in Children : q # p \/ d # r.c => inner'[q][d] = inner[q][d]
    <3>1. inner[p] \in [Children -> RowStates] /\ r.end \in RowStates
        BY <1>1 DEF InnerInv, RowStates
    <3> HIDE DEF p, r
    <3>2. Terminated(inner[p], r.c, r.end) \in [Children -> RowStates]
        BY <1>1, <3>1 DEF Terminated
    <3> QED BY <1>1, <1>4, <3>1, <3>2 DEF InnerInv, Terminated
  <2>4. \A f \in filed : tries[f.att] \in Stages /\ f.c \in Children /\ (tries[f.att] # p \/ f.c # r.c)
    <3>1. \A f \in filed : f.att \in 1 .. Len(tries) /\ f.c \in Children
        BY DEF InnerInv, Filings
    <3>2. \A k \in 1 .. Len(tries) : tries[k] \in Stages /\ (k # r.att => tries[k] # p)
      <4>1. \A k \in 1 .. Len(tries) : tries[k] \in Stages /\ tries[k] \in Nat
          BY TriesAreStages
      <4>2. ASSUME NEW k \in 1 .. Len(tries), k # r.att PROVE tries[k] # tries[r.att]
        <5>1. r.att \in Nat /\ k \in Nat
            BY <1>1
        <5>2. k < r.att \/ r.att < k
            BY <4>2, <5>1
        <5>3. tries[k] < tries[r.att] \/ tries[r.att] < tries[k]
            BY <1>1, <5>2 DEF InnerInv
        <5> QED BY <1>1, <4>1, <5>3
      <4> QED BY <4>1, <4>2
    <3> QED BY <2>2, <3>1, <3>2
  <2>5. EndsAreShown'
    <3> HIDE DEF p, r
    <3>1. \A f \in filed : f.applied => inner'[tries[f.att]][f.c] = f.end
        BY <2>3, <2>4 DEF InnerInv, EndsAreShown
    <3>2. new.applied => inner'[tries[new.att]][new.c] = new.end
        BY <2>1, <2>3 DEF p
    <3> QED BY <1>4, <2>1, <3>1, <3>2 DEF EndsAreShown
  <2>6. filed' \subseteq Filings(Len(tries)) /\ \A f, g \in filed' : f.att = g.att /\ f.c = g.c => f = g
      BY <2>1, <2>2 DEF InnerInv
  <2>7. notice' \in [Observers -> Notices(Len(tries))]
      BY <1>2, <1>4 DEF Turns, InnerInv
  <2> QED BY <1>4, <2>3, <2>5, <2>6, <2>7 DEF InnerInv
<1>5. CASE Turns(o, Quiet) /\ UNCHANGED <<inner, filed>>
    BY <1>2, <1>5, TurnsKeeps DEF File
<1> QED BY <1>3, <1>4, <1>5 DEF File

\* Every step of the run, of its Jobs and of the observers keeps the invariant.
LEMMA InnerStep == InnerInv /\ [InnerNext]_innerVars => InnerInv'
<1> SUFFICES ASSUME InnerInv, [InnerNext]_innerVars PROVE InnerInv'
    OBVIOUS
<1>1. CASE Settle \/ UNCHANGED innerVars
    BY <1>1 DEF Settle, innerVars, InnerInv, EndsAreShown
<1>2. CASE Sweep
  <2>1. [pc |-> "sweep", todo |-> Active] \in Notices(Len(tries)) /\ "reconciler" \in Observers
      BY DEF Active, Notices, Observers
  <2> QED BY <1>2, <2>1, TurnsKeeps DEF Sweep
<1>3. CASE Swept
  <2>1. Quiet \in Notices(Len(tries)) /\ "reconciler" \in Observers
      BY DEF Quiet, Notices, Observers
  <2> QED BY <1>3, <2>1, TurnsKeeps DEF Swept
<1>4. ASSUME NEW c \in Children, Spawn(c) \/ Change(c) PROVE InnerInv'
  <2>1. child' \in [Children -> Jobs(Len(tries))]
    <3>1. CASE Spawn(c)
      <4>1. [of |-> Len(tries), is |-> "running"] \in Jobs(Len(tries))
          BY DEF Jobs, InnerInv
      <4> QED BY <3>1, <4>1 DEF Spawn, InnerInv
    <3>2. CASE Change(c)
      <4>1. PICK is \in Ends \cup {"gone"} : child' = [child EXCEPT ![c].is = is]
          BY <3>2 DEF Change, Becomes
      <4>2. child[c] \in Jobs(Len(tries))
          BY DEF InnerInv
      <4>3. [child[c] EXCEPT !.is = is] \in Jobs(Len(tries))
          BY <4>2 DEF Jobs
      <4> QED BY <4>1, <4>3 DEF InnerInv
    <3> QED BY <1>4, <3>1, <3>2
  <2>2. UNCHANGED <<tries, inner, filed, notice>>
      BY <1>4 DEF Spawn, Change
  <2> QED BY <2>1, <2>2 DEF InnerInv, EndsAreShown
<1>5. ASSUME NEW c \in Children, WatchInner(c) PROVE InnerInv'
  <2>1. [pc |-> "built", c |-> c, end |-> child[c].is, todo |-> {}] \in Notices(Len(tries)) /\ "watcher" \in Observers
      BY <1>5 DEF WatchInner, Notices, Observers
  <2> QED BY <1>5, <2>1, TurnsKeeps DEF WatchInner
<1>6. ASSUME NEW c \in Children, Examine(c) PROVE InnerInv'
  <2> DEFINE todo == notice["reconciler"].todo \ {c}
  <2>1. todo \subseteq Children /\ "reconciler" \in Observers
      BY <1>6 DEF Examine, Ready, InnerInv, Notices, Observers
  <2>2. /\ Ready("reconciler", "sweep") /\ c \in notice["reconciler"].todo
        /\ UNCHANGED <<tries, child, inner, filed>>
        /\ \/ Turns("reconciler", [pc |-> "sweep", todo |-> todo])
           \/ child[c].is \in Ends \cup {"gone"} /\
                Turns("reconciler", [pc |-> "built", c |-> c, end |-> EndOf(c), todo |-> todo])
      BY <1>6 DEF Examine
  <2> HIDE DEF todo
  <2>3. [pc |-> "sweep", todo |-> todo] \in Notices(Len(tries))
      BY <2>1 DEF Notices
  <2>4. ASSUME EndOf(c) \in Ends
        PROVE  [pc |-> "built", c |-> c, end |-> EndOf(c), todo |-> todo] \in Notices(Len(tries))
      BY <2>1, <2>4 DEF Notices
  <2>5. child[c].is \in Ends \cup {"gone"} => EndOf(c) \in Ends
      BY DEF EndOf, Ends
  <2> DEFINE on == [pc |-> "sweep", todo |-> todo]
             built == [pc |-> "built", c |-> c, end |-> EndOf(c), todo |-> todo]
  <2>6. \E next \in Notices(Len(tries)) : Turns("reconciler", next)
    <3> HIDE DEF on, built
    <3> QED BY <2>2, <2>3, <2>4, <2>5 DEF on, built
  <2> QED BY <2>1, <2>2, <2>6, TurnsKeeps
<1>7. ASSUME NEW o \in Observers, Locate(o) PROVE InnerInv'
  <2> DEFINE next == [pc |-> "located", c |-> notice[o].c, end |-> notice[o].end, att |-> Len(tries),
                      todo |-> notice[o].todo]
  <2>1. notice[o] \in [pc : {"built"}, c : Children, end : Ends, todo : SUBSET Children]
      BY <1>7 DEF Locate, Ready, InnerInv, Notices
  <2>2. Len(tries) \in 1 .. Len(tries)
      BY DEF InnerInv
  <2>3. next \in Notices(Len(tries))
      BY <2>1, <2>2 DEF Notices
  <2>4. Turns(o, next) /\ UNCHANGED <<tries, child, inner, filed>>
      BY <1>7 DEF Locate
  <2> HIDE DEF next
  <2> QED BY <2>3, <2>4, TurnsKeeps
<1> QED BY <1>1, <1>2, <1>3, <1>4, <1>5, <1>6, <1>7, NextTryKeeps, RegisterKeeps, FileKeeps DEF InnerNext

\* The end of an inner Job that was filed and applied is what its phase shows from then on
\* (RecordRunnerEventByID), with any number of Jobs, phases and attempts.
THEOREM EndsAlwaysShown == InnerSpec => []EndsAreShown
<1>1. InnerInit => InnerInv
  <2> SUFFICES ASSUME InnerInit PROVE InnerInv
      OBVIOUS
  <2>1. PICK p \in Stages : tries = <<p>>
      BY DEF InnerInit
  <2>2. tries \in Seq(Stages) /\ Len(tries) = 1
      BY <2>1
  <2>3. /\ \A c \in Children : [of |-> 1, is |-> "none"] \in Jobs(1)
        /\ Quiet \in Notices(1)
      BY DEF Jobs, Notices, Quiet
  <2> QED BY <2>2, <2>3 DEF InnerInit, InnerInv, EndsAreShown, RowStates
<1>2. InnerInv /\ [InnerNext]_innerVars => InnerInv'
    BY InnerStep
<1>3. InnerInv => EndsAreShown
    BY DEF InnerInv
<1> QED BY <1>1, <1>2, <1>3, PTL DEF InnerSpec

-----------------------------------------------------------------------------
(* The registrations of a workflow and the row of its project.               *)

RegistrySpec == RegistryInit /\ [][RegistryNext]_allVars

\* Pins and unpins run while no other request does.
PinsAreAlone == {"pin", "unpin"} \subseteq Alone

Pins == UNION {[S -> Values] : S \in SUBSET Controls}
Fits(content, pins) == \A t \in DOMAIN pins : content.controls[t] = pins[t]

RowOK ==
    row # NoRow =>
        /\ row = [content |-> row.content, ref |-> row.ref, pins |-> row.pins]
        /\ row.content \in Contents /\ row.pins \in Pins

\* The ledger event that an upsert of q.content will write names what moves since q.base.
Named(q) ==
    q.base # NoRow =>
        \A t \in Controls :
            (IF q.content.controls[t] \in Values THEN q.content.controls[t] ELSE NoLane)
                # ControlOf(q.base, t) => t \in q.changes

\* What a request knows between its read and its write: no pin moves in between.
RequestOK(q, r) ==
    \/ q = Idle
    \/ q.pc = "look" /\ q.kind = "patch" /\ q.target \in Controls /\ q.value \in Values
    \/ q.pc = "look" /\ q.kind \in {"pin", "unpin"} /\ q.target \in Controls
    \/ q.pc = "pins" /\ q.kind \in {"register", "patch"} /\ q.incoming \in Contents
    \/ /\ q.pc = "upsert" /\ q.kind \in {"register", "patch"}
       /\ q.content \in Contents /\ Fits(q.content, PinsOf(r)) /\ Named(q)
    \/ /\ q.pc = "write_pins" /\ q.kind \in {"pin", "unpin"}
       /\ r # NoRow /\ q.pins \in Pins /\ Fits(r.content, q.pins)

RequestsOK ==
    /\ requests = [c \in Clients |-> requests[c]]
    /\ \A c \in Clients : RequestOK(requests[c], row)

AloneOK ==
    \A c, d \in Clients : c # d /\ Busy(c) /\ requests[c].kind \in {"pin", "unpin"} => ~Busy(d)

ProjectOK ==
    \/ project = NoProject /\ backfill = NoValue
    \/ project = [config |-> project.config, status |-> project.status, ref |-> project.ref]

WorkflowInv == RowOK /\ PinsHold /\ RequestsOK /\ AloneOK

-----------------------------------------------------------------------------
\* Idle is not a request under way.
LEMMA IdleOrBusy == \A c \in Clients : Busy(c) \/ requests[c] = Idle
BY DEF Busy

\* What listControlPins returns is a set of pins, also of a workflow that has none.
LEMMA PinsOfType == ASSUME RowOK PROVE PinsOf(row) \in Pins
<1>1. NoPins \in [{} -> Values]
    BY DEF NoPins
<1>2. {} \in SUBSET Controls
    OBVIOUS
<1>3. NoPins \in Pins
    BY <1>1, <1>2 DEF Pins
<1> QED BY <1>3 DEF PinsOf, RowOK

\* Enforcing pins yields a registration with the pinned values (enforceControlPins).
LEMMA EnforcedFits ==
    ASSUME NEW content \in Contents, NEW pins \in Pins
    PROVE  Enforced(content, pins) \in Contents /\ Fits(Enforced(content, pins), pins)
<1>1. PICK S \in SUBSET Controls : pins \in [S -> Values]
    BY DEF Pins
<1>2. content.controls \in [Controls -> Values \union {NoLane, NoSuchPhase}]
    BY DEF Contents
<1> QED BY <1>1, <1>2 DEF Enforced, Fits, Contents

\* A step that moves one request and leaves the row alone.
LEMMA OneRequestMoves ==
    ASSUME WorkflowInv, NEW c \in Clients, NEW q, UNCHANGED row,
           requests' = [requests EXCEPT ![c] = q], RequestOK(q, row),
           \/ q = Idle
           \/ Busy(c) /\ q.kind = requests[c].kind
           \/ \A d \in Clients : c # d => ~Busy(d)
           \/ /\ q.kind \notin {"pin", "unpin"}
              /\ \A d \in Clients : Busy(d) => requests[d].kind \notin {"pin", "unpin"}
    PROVE  WorkflowInv'
<1>1. RowOK' /\ PinsHold'
    BY DEF WorkflowInv, RowOK, PinsHold
<1>2. \A d \in Clients : requests'[d] = IF d = c THEN q ELSE requests[d]
    BY DEF WorkflowInv, RequestsOK
<1>3. requests' = [d \in Clients |-> requests'[d]]
    BY DEF WorkflowInv, RequestsOK
<1>4. \A d \in Clients : RequestOK(requests'[d], row')
    BY <1>2 DEF WorkflowInv, RequestsOK
<1>5. RequestsOK'
    BY <1>3, <1>4 DEF RequestsOK
<1>6. AloneOK'
    BY <1>2 DEF WorkflowInv, AloneOK, Busy
<1> QED BY <1>1, <1>5, <1>6 DEF WorkflowInv

-----------------------------------------------------------------------------
\* One lemma for each action of the registrations.

\* A registration arrives.
LEMMA RegisterStep ==
    ASSUME WorkflowInv, PinsAreAlone, NEW c \in Clients, Register(c) PROVE WorkflowInv'
<1>1. PICK s \in Submissions : Begin(c, [pc |-> "pins", kind |-> "register", incoming |-> s])
    BY DEF Register
<1>2. s \in Contents
    BY RegistryAssumption
<1>3. \A d \in Clients : Busy(d) => requests[d].kind \notin {"pin", "unpin"}
    BY <1>1 DEF Begin, Admissible, PinsAreAlone
<1> QED BY <1>1, <1>2, <1>3, OneRequestMoves DEF Begin, RequestOK

\* A patch of a control arrives.
LEMMA PatchStep ==
    ASSUME WorkflowInv, PinsAreAlone, NEW c \in Clients, Patch(c) PROVE WorkflowInv'
<1>1. PICK t \in Controls, v \in Values :
          Begin(c, [pc |-> "look", kind |-> "patch", target |-> t, value |-> v])
    BY RegistryAssumption DEF Patch
<1>2. \A d \in Clients : Busy(d) => requests[d].kind \notin {"pin", "unpin"}
    BY <1>1 DEF Begin, Admissible, PinsAreAlone
<1> QED BY <1>1, <1>2, OneRequestMoves DEF Begin, RequestOK

\* A pin or an unpin arrives.
LEMMA PinStep ==
    ASSUME WorkflowInv, PinsAreAlone, NEW c \in Clients, Pin(c) \/ Unpin(c) PROVE WorkflowInv'
<1>1. PICK t \in Controls, kind \in {"pin", "unpin"} :
          Begin(c, [pc |-> "look", kind |-> kind, target |-> t])
    BY DEF Pin, Unpin
<1>2. \A d \in Clients : ~Busy(d)
    BY <1>1 DEF Begin, Admissible, PinsAreAlone
<1> QED BY <1>1, <1>2, OneRequestMoves DEF Begin, RequestOK

\* A request is refused, or answered without a write.
LEMMA AnswerStep ==
    ASSUME WorkflowInv, NEW c \in Clients, Answer(c), UNCHANGED row PROVE WorkflowInv'
BY OneRequestMoves DEF Answer, RequestOK

\* A patch reads the row, and is turned into a registration.
LEMMA LookToPatchStep ==
    ASSUME WorkflowInv, NEW c \in Clients, LookToPatch(c) PROVE WorkflowInv'
<1> DEFINE q == requests[c]
<1>1. q.pc = "look" /\ q.kind = "patch" /\ Busy(c)
    BY DEF LookToPatch, Busy, Idle
<1>2. CASE row # NoRow /\ q.target \notin DOMAIN row.pins /\ Declared(row.content, q.target)
  <2> DEFINE incoming == Scaled(row.content, q.target, q.value)
  <2>1. q.target \in Controls /\ q.value \in Values
      BY <1>1 DEF WorkflowInv, RequestsOK, RequestOK, Idle
  <2>2. incoming \in Contents
    <3>1. row.content \in Contents
        BY <1>2 DEF WorkflowInv, RowOK
    <3>2. row.content.controls \in [Controls -> Values \union {NoLane, NoSuchPhase}]
        BY <3>1 DEF Contents
    <3> QED BY <2>1, <3>1, <3>2 DEF Scaled, Contents
  <2>3. /\ requests' = [requests EXCEPT ![c] =
               [pc |-> "pins", kind |-> "patch", incoming |-> incoming]]
        /\ UNCHANGED row
      BY <1>2 DEF LookToPatch
  <2> HIDE DEF incoming
  <2> QED BY <1>1, <2>2, <2>3, OneRequestMoves DEF RequestOK
<1>3. CASE ~(row # NoRow /\ q.target \notin DOMAIN row.pins /\ Declared(row.content, q.target))
    BY <1>3, AnswerStep DEF LookToPatch, Refuse
<1> QED BY <1>2, <1>3

\* The changes an upsert reports are those of the row it compared with (controlChanges).
LEMMA ChangesNamed ==
    ASSUME NEW base, NEW incoming, NEW next, NEW pins, base # NoRow,
           NEW t \in Controls,
           (IF next.controls[t] \in Values THEN next.controls[t] ELSE NoLane) # ControlOf(base, t)
    PROVE  t \in ControlChanges(base, incoming, next, pins)
<1>1. base.content.controls[t] # next.controls[t]
    BY DEF ControlOf
<1>2. ~(Null(base.content.controls[t]) /\ Null(next.controls[t]))
    BY RegistryAssumption DEF ControlOf, Null
<1> QED BY <1>1, <1>2 DEF ControlChanges, Moved

\* A registration reads the pins and enforces them on what it will write.
LEMMA ReadPinsStep ==
    ASSUME WorkflowInv, NEW c \in Clients, ReadPins(c) PROVE WorkflowInv'
<1> DEFINE q    == requests[c]
           pins == PinsOf(row)
           next == Enforced(q.incoming, pins)
           p    == [pc |-> "upsert", kind |-> q.kind, content |-> next, base |-> row,
                    changes |-> ControlChanges(row, q.incoming, next, pins)]
<1>1. q.pc = "pins" /\ q.kind \in {"register", "patch"} /\ q.incoming \in Contents /\ Busy(c)
    BY DEF WorkflowInv, RequestsOK, RequestOK, Idle, ReadPins, Busy
<1>2. next \in Contents /\ Fits(next, pins)
    BY <1>1, PinsOfType, EnforcedFits DEF WorkflowInv
<1>3. CASE PinsFit(q.incoming, pins) /\ Accepted(next)
  <2>1. requests' = [requests EXCEPT ![c] = p] /\ UNCHANGED row
      BY <1>3 DEF ReadPins
  <2>2. p.pc = "upsert" /\ p.kind = q.kind /\ p.content = next /\ p.base = row
        /\ p.changes = ControlChanges(row, q.incoming, next, pins)
      OBVIOUS
  <2> HIDE DEF p, next
  <2>3. Named(p)
      BY <2>2, ChangesNamed DEF Named
  <2>4. RequestOK(p, row)
      BY <1>1, <1>2, <2>2, <2>3 DEF RequestOK
  <2> QED BY <1>1, <2>1, <2>2, <2>4, OneRequestMoves
<1>4. CASE ~(PinsFit(q.incoming, pins) /\ Accepted(next))
    BY <1>4, AnswerStep DEF ReadPins, Refuse
<1> QED BY <1>3, <1>4

\* A registration writes the row; its pins have not moved since it read them.
LEMMA UpsertStep ==
    ASSUME WorkflowInv, NEW c \in Clients, Upsert(c) PROVE WorkflowInv'
<1> DEFINE q == requests[c]
<1>1. /\ q.pc = "upsert" /\ q.content \in Contents /\ Fits(q.content, PinsOf(row))
      /\ Busy(c) /\ q.kind \in {"register", "patch"}
    BY DEF WorkflowInv, RequestsOK, RequestOK, Idle, Upsert, Busy
<1>2. row' = [content |-> q.content, ref |-> SchemaRef(q.content), pins |-> PinsOf(row)]
    BY DEF Upsert, UpsertedRow
<1>3. RowOK' /\ PinsHold'
    BY <1>1, <1>2, PinsOfType DEF WorkflowInv, RowOK, PinsHold, Fits
<1>4. \A d \in Clients : requests'[d] = IF d = c THEN Idle ELSE requests[d]
    BY DEF Upsert, Answer, WorkflowInv, RequestsOK
<1>5. requests' = [d \in Clients |-> requests'[d]]
    BY DEF Upsert, Answer, WorkflowInv, RequestsOK
<1>6. ASSUME NEW d \in Clients PROVE RequestOK(requests'[d], row')
  <2>1. CASE d = c
      BY <1>4, <2>1 DEF RequestOK
  <2>2. CASE d # c
    <3>1. requests'[d] = requests[d] /\ RequestOK(requests[d], row)
        BY <1>4, <2>2 DEF WorkflowInv, RequestsOK
    <3>2. requests[d] = Idle \/ requests[d].kind \notin {"pin", "unpin"}
        BY <1>1, <2>2 DEF WorkflowInv, AloneOK, Busy
    <3>3. ASSUME NEW content, Fits(content, PinsOf(row)) PROVE Fits(content, PinsOf(row'))
        BY <1>2, <3>3 DEF Fits, PinsOf, NoPins
    <3> QED BY <3>1, <3>2, <3>3 DEF RequestOK
  <2> QED BY <2>1, <2>2
<1>7. RequestsOK'
    BY <1>5, <1>6 DEF RequestsOK
<1>8. AloneOK'
    BY <1>4 DEF WorkflowInv, AloneOK, Busy
<1> QED BY <1>3, <1>7, <1>8 DEF WorkflowInv

\* A pin reads the row, and writes its value where the row has another.
LEMMA LookToPinStep ==
    ASSUME WorkflowInv, NEW c \in Clients, LookToPin(c) PROVE WorkflowInv'
<1> DEFINE q == requests[c]
<1>1. q.pc = "look" /\ Busy(c)
    BY DEF LookToPin, Busy, Idle
<1>2. CASE Refuse(c)
    BY <1>2, AnswerStep DEF Refuse
<1>3. ASSUME NEW pins, pins \in Pins, row # NoRow, q.kind \in {"pin", "unpin"},
             Fits(row.content, pins), UNCHANGED row,
             requests' = [requests EXCEPT ![c] =
                 [pc |-> "write_pins", kind |-> q.kind, pins |-> pins, ref |-> row.ref]]
      PROVE  WorkflowInv'
    BY <1>1, <1>3, OneRequestMoves DEF RequestOK
<1>4. CASE q.kind = "pin" /\ row # NoRow /\ Declared(row.content, q.target)
  <2> DEFINE pins == [t \in DOMAIN row.pins \union {q.target} |->
                         IF t = q.target THEN row.content.controls[t] ELSE row.pins[t]]
  <2>1. PICK S \in SUBSET Controls : row.pins \in [S -> Values]
      BY <1>4 DEF WorkflowInv, RowOK, Pins
  <2>2. q.target \in Controls
      BY <1>1, <1>4 DEF WorkflowInv, RequestsOK, RequestOK, Idle
  <2>3. pins \in [S \union {q.target} -> Values]
      BY <1>4, <2>1, <2>2 DEF Declared
  <2>4. S \union {q.target} \in SUBSET Controls
      BY <2>2
  <2>5. pins \in Pins
      BY <2>3, <2>4 DEF Pins
  <2>6. Fits(row.content, pins)
      BY <1>4 DEF WorkflowInv, PinsHold, Fits
  <2>7. CASE UNCHANGED row /\ requests' = [requests EXCEPT ![c] =
                 [pc |-> "write_pins", kind |-> q.kind, pins |-> pins, ref |-> row.ref]]
    <3> HIDE DEF pins
    <3> QED BY <1>3, <1>4, <2>5, <2>6, <2>7
  <2> QED BY <1>2, <1>4, <2>7 DEF LookToPin
<1>5. CASE q.kind = "unpin" /\ row # NoRow /\ q.target \in DOMAIN row.pins
  <2> DEFINE pins == [t \in DOMAIN row.pins \ {q.target} |-> row.pins[t]]
  <2>1. PICK S \in SUBSET Controls : row.pins \in [S -> Values]
      BY <1>5 DEF WorkflowInv, RowOK, Pins
  <2>2. pins \in [S \ {q.target} -> Values] /\ S \ {q.target} \in SUBSET Controls
      BY <2>1
  <2>3. pins \in Pins
      BY <2>2 DEF Pins
  <2>4. Fits(row.content, pins)
      BY <1>5 DEF WorkflowInv, PinsHold, Fits
  <2>5. CASE UNCHANGED row /\ requests' = [requests EXCEPT ![c] =
                 [pc |-> "write_pins", kind |-> q.kind, pins |-> pins, ref |-> row.ref]]
    <3> HIDE DEF pins
    <3> QED BY <1>3, <1>5, <2>3, <2>4, <2>5
  <2> QED BY <1>2, <1>5, <2>5 DEF LookToPin
<1> QED BY <1>2, <1>4, <1>5 DEF LookToPin

\* A pin writes the list of pins.
LEMMA WritePinsStep ==
    ASSUME WorkflowInv, NEW c \in Clients, WritePins(c) PROVE WorkflowInv'
<1> DEFINE q == requests[c]
<1>1. /\ q.kind \in {"pin", "unpin"} /\ row # NoRow /\ q.pins \in Pins
      /\ Fits(row.content, q.pins) /\ Busy(c)
    BY DEF WorkflowInv, RequestsOK, RequestOK, Idle, WritePins, Busy
<1>2. row' = [content |-> row.content, ref |-> row.ref, pins |-> q.pins]
    BY <1>1 DEF WritePins, WorkflowInv, RowOK
<1>3. RowOK' /\ PinsHold'
    BY <1>1, <1>2 DEF WorkflowInv, RowOK, PinsHold, Fits
<1>4. \A d \in Clients : requests'[d] = Idle
    BY <1>1 DEF WritePins, Answer, WorkflowInv, RequestsOK, AloneOK, Busy
<1>5. requests' = [d \in Clients |-> requests'[d]]
    BY DEF WritePins, Answer, WorkflowInv, RequestsOK
<1>6. RequestsOK' /\ AloneOK'
    BY <1>4, <1>5 DEF RequestsOK, RequestOK, AloneOK, Busy
<1> QED BY <1>3, <1>6 DEF WorkflowInv

\* A workflow is deleted: its pins stay with the tombstone.
LEMMA DeleteStep ==
    ASSUME WorkflowInv, PinsAreAlone, NEW c \in Clients, Delete(c) PROVE WorkflowInv'
<1>1. /\ row # NoRow
      /\ row = [content |-> row.content, ref |-> row.ref, pins |-> row.pins]
      /\ row.content \in Contents /\ row.pins \in Pins
    BY DEF Delete, WorkflowInv, RowOK
<1>2. /\ row' = [content |-> [row.content EXCEPT !.deleted = TRUE], ref |-> row.ref,
                 pins |-> row.pins]
      /\ row'.content \in Contents /\ row'.content.controls = row.content.controls
    BY <1>1 DEF Delete, Contents
<1>3. RowOK' /\ PinsHold'
    BY <1>1, <1>2 DEF WorkflowInv, RowOK, PinsHold
<1>4. ASSUME NEW q, RequestOK(q, row), q = Idle \/ q.kind \notin {"pin", "unpin"}
      PROVE  RequestOK(q, row')
    BY <1>1, <1>2, <1>4 DEF RequestOK, Fits, PinsOf, NoPins
<1>5. \A d \in Clients : requests[d] = Idle \/ requests[d].kind \notin {"pin", "unpin"}
    BY DEF Delete, Admissible, Busy, PinsAreAlone
<1> QED BY <1>3, <1>4, <1>5 DEF Delete, WorkflowInv, RequestsOK, AloneOK, Busy

\* Every step of the workflow requests keeps the invariant.
LEMMA WorkflowStepKeeps ==
    ASSUME WorkflowInv, PinsAreAlone, Next PROVE WorkflowInv'
<1>1. PICK c \in Clients :
          \/ Register(c) \/ Patch(c) \/ Pin(c) \/ Unpin(c) \/ Delete(c)
          \/ LookToPatch(c) \/ ReadPins(c) \/ Upsert(c) \/ LookToPin(c) \/ WritePins(c)
    BY DEF Next
<1> QED BY <1>1, RegisterStep, PatchStep, PinStep, DeleteStep, LookToPatchStep, ReadPinsStep,
           UpsertStep, LookToPinStep, WritePinsStep

-----------------------------------------------------------------------------
\* The project row: what its writes leave alone.

ProjectKept ==
    project # NoProject => \/ project'.status = project.status
                           \/ project'.config = project.config /\ project'.ref = project.ref

\* Every step of the project writers and of the backfill keeps the invariant, and the
\* status stays as the reconcilers left it.
LEMMA ProjectStepKeeps ==
    ASSUME ProjectOK, Project!Write \/ Project!BackfillSelect \/ Project!BackfillSeed
    PROVE  ProjectOK' /\ ProjectKept
<1>1. ASSUME NEW config, Project!Upsert(config) PROVE ProjectOK' /\ ProjectKept
    BY <1>1 DEF Project!Upsert, Project!StatusOfRow, ProjectOK, ProjectKept
<1>2. ASSUME NEW config, Project!Mutate(config) PROVE ProjectOK' /\ ProjectKept
    BY <1>2 DEF Project!Mutate, ProjectOK, ProjectKept
<1>3. ASSUME NEW n, Project!SetTestEnvironmentCount(n) PROVE ProjectOK' /\ ProjectKept
    BY <1>2, <1>3 DEF Project!SetTestEnvironmentCount
<1>4. ASSUME NEW ttl, Project!SetTestLeaseDefaultTTL(ttl) PROVE ProjectOK' /\ ProjectKept
    BY <1>2, <1>4 DEF Project!SetTestLeaseDefaultTTL
<1>5. CASE Project!StripLegacySlotsArray
    BY <1>2, <1>5 DEF Project!StripLegacySlotsArray
<1>6. ASSUME NEW r, NEW status, Project!SetStatus(r, status) PROVE ProjectOK' /\ ProjectKept
    BY <1>6 DEF Project!SetStatus, ProjectOK, ProjectKept
<1>7. CASE Project!BackfillSelect
    BY <1>7 DEF Project!BackfillSelect, ProjectOK, ProjectKept
<1>8. CASE Project!BackfillSeed
    BY <1>8 DEF Project!BackfillSeed, ProjectOK, ProjectKept
<1> QED BY <1>1, <1>3, <1>4, <1>5, <1>6, <1>7, <1>8 DEF Project!Write

-----------------------------------------------------------------------------
\* Both together.

\* The invariant holds of an empty registry.
LEMMA RegistryStart == ASSUME RegistryInit PROVE WorkflowInv /\ ProjectOK
<1>1. WorkflowInv
    BY DEF RegistryInit, Init, WorkflowInv, RowOK, PinsHold, RequestsOK, RequestOK, AloneOK, Busy
<1>2. ProjectOK
    BY DEF RegistryInit, Project!Init, ProjectOK
<1> QED BY <1>1, <1>2

\* The project row does not depend on what the clients of the workflow do.
LEMMA ProjectKeeps ==
    ASSUME ProjectOK, [RegistryNext]_allVars PROVE ProjectOK' /\ ProjectKept
<1>1. CASE UNCHANGED projectVars
    BY <1>1 DEF projectVars, ProjectOK, ProjectKept
<1>2. CASE ProjectWrite \/ Backfill
    BY <1>2, ProjectStepKeeps DEF ProjectWrite, Backfill
<1> QED BY <1>1, <1>2 DEF RegistryNext, WorkflowStep, allVars

\* Every step of the registry keeps the invariant of the workflow.
LEMMA RegistryStepKeeps ==
    ASSUME WorkflowInv, PinsAreAlone, [RegistryNext]_allVars PROVE WorkflowInv'
<1>1. CASE WorkflowStep
    BY <1>1, WorkflowStepKeeps DEF WorkflowStep
<1>2. CASE UNCHANGED vars
    BY <1>2 DEF vars, WorkflowInv, RowOK, PinsHold, RequestsOK, AloneOK, Busy
<1> QED BY <1>1, <1>2 DEF RegistryNext, ProjectWrite, Backfill, allVars

\* A pinned control keeps its value whatever clients register, patch, delete and register
\* again, for any controls, values and number of requests (enforceControlPins).
THEOREM PinsAlwaysHold == ASSUME PinsAreAlone PROVE RegistrySpec => []PinsHold
<1>1. RegistryInit => WorkflowInv
    BY RegistryStart
<1>2. WorkflowInv /\ [RegistryNext]_allVars => WorkflowInv'
    BY RegistryStepKeeps
<1>3. WorkflowInv => PinsHold
    BY DEF WorkflowInv
<1> QED BY <1>1, <1>2, <1>3, PTL DEF RegistrySpec

\* Every write of the project row leaves the reconcilers' status or the authored
\* configuration and its version alone (ProjectsStore.Upsert, mutateStatus).
THEOREM StatusAlwaysKept == RegistrySpec => StatusIsTheReconcilers
<1>1. RegistryInit => ProjectOK
    BY RegistryStart
<1>2. ProjectOK /\ [RegistryNext]_allVars => ProjectOK'
    BY ProjectKeeps
<1>3. ProjectOK /\ [RegistryNext]_allVars
          => [project # NoProject => \/ project'.status = project.status
                                     \/ project'.config = project.config
                                        /\ project'.ref = project.ref]_allVars
    BY ProjectKeeps DEF ProjectKept
<1> QED BY <1>1, <1>2, <1>3, PTL DEF RegistrySpec, StatusIsTheReconcilers

\* Who ends a request of an upsert is its own write.
LEMMA OnlyUpsertEnds ==
    ASSUME WorkflowInv, RegistryNext, NEW c \in Clients, requests[c].pc = "upsert",
           requests'[c] = Idle
    PROVE  Upsert(c)
<1>1. Busy(c) /\ requests[c] # Idle
    BY DEF Busy, Idle
<1>2. CASE WorkflowStep
  <2>1. PICK d \in Clients :
          \/ Register(d) \/ Patch(d) \/ Pin(d) \/ Unpin(d) \/ Delete(d)
          \/ LookToPatch(d) \/ ReadPins(d) \/ Upsert(d) \/ LookToPin(d) \/ WritePins(d)
      BY <1>2 DEF WorkflowStep, Next
  <2>2. c # d => requests'[c] = requests[c]
      BY <2>1 DEF WorkflowInv, RequestsOK, Register, Patch, Pin, Unpin, Delete, LookToPatch,
                  ReadPins, Upsert, LookToPin, WritePins, Begin, Answer, Refuse
  <2>3. c = d
      BY <1>1, <2>2
  <2>4. ~Register(c) /\ ~Patch(c) /\ ~Pin(c) /\ ~Unpin(c)
      BY <1>1 DEF Register, Patch, Pin, Unpin, Begin, Admissible
  <2>5. ~Delete(c) /\ ~LookToPatch(c) /\ ~ReadPins(c) /\ ~LookToPin(c) /\ ~WritePins(c)
      BY <1>1 DEF Delete, Admissible, LookToPatch, ReadPins, LookToPin, WritePins
  <2> QED BY <2>1, <2>3, <2>4, <2>5
<1>3. CASE ProjectWrite \/ Backfill
    BY <1>1, <1>3 DEF ProjectWrite, Backfill, vars
<1> QED BY <1>2, <1>3 DEF RegistryNext

\* The ledger event of a registration that nobody overtook names every control that
\* moved, for any controls and values (controlChanges).
THEOREM LedgerAlwaysNames == ASSUME PinsAreAlone PROVE RegistrySpec => LedgerNamesMoves
<1> DEFINE A ==
        \A c \in Clients :
          /\ Busy(c) /\ requests[c].pc = "upsert" /\ requests'[c] = Idle
          /\ requests[c].base = row /\ row # NoRow
          => \A t \in Controls : ControlOf(row', t) # ControlOf(row, t) => t \in controlEvent'.changes
<1>1. RegistryInit => WorkflowInv
    BY RegistryStart
<1>2. WorkflowInv /\ [RegistryNext]_allVars => WorkflowInv'
    BY RegistryStepKeeps
<1>3. WorkflowInv /\ [RegistryNext]_allVars => [A]_allVars
  <2> SUFFICES ASSUME WorkflowInv, RegistryNext, NEW c \in Clients,
                      requests[c].pc = "upsert", requests'[c] = Idle,
                      requests[c].base = row, row # NoRow,
                      NEW t \in Controls, ControlOf(row', t) # ControlOf(row, t)
               PROVE  t \in controlEvent'.changes
      OBVIOUS
  <2>1. Upsert(c)
      BY OnlyUpsertEnds
  <2>2. Named(requests[c])
      BY DEF WorkflowInv, RequestsOK, RequestOK, Idle
  <2>3. controlEvent'.changes = requests[c].changes /\ row'.content = requests[c].content
      BY <2>1 DEF Upsert, UpsertedRow
  <2> QED BY <2>2, <2>3 DEF Named, ControlOf
<1> QED BY <1>1, <1>2, <1>3, PTL DEF RegistrySpec, LedgerNamesMoves
=============================================================================
