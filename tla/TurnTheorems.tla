--------------------------- MODULE TurnTheorems ----------------------------
(***************************************************************************)
(* At most one goroutine of the servers drives the cycles of an issue, and *)
(* every pod at work has its environment, for any workflow whose phases    *)
(* share no job and any number of goroutines, crashes, kills, echoes,      *)
(* approvals and cancels.  There is one turn: it lies with one goroutine,  *)
(* with the jobs of one attempt, with the reviewer or with the queue, and  *)
(* each step hands it on.  The lease goes with it, and so does the route:  *)
(* whoever has the turn appends the phase that comes next, or after an     *)
(* abort a teardown, so what is parked for review has come through every   *)
(* phase before.                                                           *)
(***************************************************************************)
EXTENDS RunTheorems

\* No call fails, no operator aborts, no reconciler sweeps, and the queue looks once.
\* Crashes, kills, echoes, approvals and cancels come as often as they like.
Undisturbed ==
    /\ Limits["fault"] = 0 /\ Limits["abort"] = 0 /\ Limits["sweep"] = 0
    /\ Limits["poll"] <= 1

\* A job id names one phase. Registration sees to it within a phase, not between two;
\* the watcher's report of a job names no attempt (run_watcher.go), so it would reach both.
JobsApart == \A p, r \in PhaseIds : ExpectedJobs(p) \cap ExpectedJobs(r) # {} => p = r

\* The jobs that have been created: a report of one may come at any time.
Heard == {<<pod.run, pod.att, pod.job>> : pod \in pods}

\* Some attempt of cycle c has had job j.
HeardIn(v, c, j) == \E k \in Nat : <<c, k, j>> \in v

\* None of the jobs of phase p was created for cycle c.
Unheard(v, c, p) == \A j \in ExpectedJobs(p) : ~HeardIn(v, c, j)

\* A report of job j may reach attempt i: its own callback, or the report that is filed
\* under the latest attempt.
Speaks(as, v, c, i, j) == \E k \in Nat : <<c, k, j>> \in v /\ (k = i \/ i = Len(as))

\* An attempt that the jobs there are may still complete.
Awaiting(as, v, c, i) ==
    /\ i \in DOMAIN as /\ ~as[i].completed /\ ~AllReported(as[i])
    /\ \A j \in ExpectedJobs(as[i].phase) : as[i].report[j] = NoReport => Speaks(as, v, c, i, j)

\* No attempt of any run is to be completed by a job.
NoneAwaited(rows, v) == \A c \in Cycles, i \in Nat : ~Awaiting(rows[c].attempts, v, c, i)

\* No run waits for its reviewer.
NoReview(rows) == \A c \in Cycles : rows[c].state # "review_required"

\* A job belongs to the phase of its attempt.
Belong(rows, v) ==
    \A c \in Cycles, k \in Nat, j \in JobIds :
        <<c, k, j>> \in v => /\ k \in DOMAIN rows[c].attempts
                             /\ j \in ExpectedJobs(rows[c].attempts[k].phase)

\* Each job of the cycle is one of a phase the copy of its attempts knows of.
Recalled(v, c, as) ==
    \A j \in JobIds : HeardIn(v, c, j) => \E p \in Attempted(as) : j \in ExpectedJobs(p)

\* The gate was not attempted.
NoGateIn(as) == \A i \in DOMAIN as : ~IsGate(as[i].phase)

\* A run in review: its gate comes last, and no job of the gate was created.
AtGate(row, v, c) ==
    /\ Latest(row) \in DOMAIN row.attempts
    /\ \A i \in DOMAIN row.attempts : IsGate(row.attempts[i].phase) <=> i = Latest(row)
    /\ \A j \in ExpectedJobs(row.attempts[Latest(row)].phase) :
           row.attempts[Latest(row)].report[j] = NoReport
    /\ Unheard(v, c, row.attempts[Latest(row)].phase)

\* The steps at which a goroutine does not have the turn: it is free, or is to make a
\* report or a decision that may come too late.
Resting == {"idle", "synth", "opengate", "cancelgate", "timeout"}

\* A goroutine that has the turn: Driving, and what the queue does besides.
Acting(h) == h.pc \notin Resting

\* What a goroutine remembers of the run from its copy.
Remembers(rows, v, h) ==
    /\ h.pc = "stamp" => h.mode = "advance"
    /\ h.pc = "acquire" => h.mode = "admit"
    /\ h.pc = "decide" => /\ h.mode = "advance"
                          /\ Attempted(rows[h.run].attempts) \subseteq Attempted(h.base.attempts)
    /\ /\ h.pc \in DispatchSteps \union {"decide"} /\ h.mode \in {"advance", "retry"}
       /\ h.pc = "launch" => h.todo = {}
       => Recalled(v, h.run, h.base.attempts)

\* What it is about to launch is new to the cycle.
Aims(rows, v, h) ==
    /\ h.pc \in {"dispatch", "acquire", "start"} => Unheard(v, h.on, h.target)
    /\ h.pc = "dispatch" /\ IsGate(h.target) => NoGateIn(rows[h.on].attempts)

\* The jobs in hand are those of the latest attempt, not reported and not created.
InHand(row, v, h) ==
    /\ h.att = Latest(row) /\ row.attempts[h.att].phase = h.target
    /\ \A j \in h.todo : row.attempts[h.att].report[j] = NoReport /\ ~HeardIn(v, h.on, j)
    /\ h.todo = {} => ExpectedJobs(h.target) = {}

\* What a goroutine with jobs in hand holds, and skips none that it launches.
Holds(rows, v, h) ==
    /\ h.pc \in Committed => InHand(rows[h.on], v, h)
    /\ h.pc = "skipjobs" => \A j \in h.todo : j \notin SkippedJobs(h.target)

\* What a goroutine that waits for its turn knows.
Waits(rows, v, h) ==
    /\ h.pc # "timeout"
    /\ h.pc = "synth" => \A j \in h.todo : HeardIn(v, h.run, j)
    /\ h.pc = "cancelgate" => h.on = h.run
    /\ h.pc = "opengate" => /\ h.mode = "approve" /\ h.todo = ExpectedJobs(h.target)
                            /\ h.att \in DOMAIN rows[h.on].attempts
                            /\ rows[h.on].attempts[h.att].phase = h.target

\* A goroutine fits the rows it will act on, and the jobs heard of.
Apt(rows, v, h) == Remembers(rows, v, h) /\ Aims(rows, v, h) /\ Holds(rows, v, h) /\ Waits(rows, v, h)

\* Undisturbed, as it is used up.
LeftFew == left["fault"] = 0 /\ left["abort"] = 0 /\ left["sweep"] = 0 /\ left["poll"] <= 1

\* At most one goroutine has the turn.
OneActs == \A p, q \in Procs : Acting(handlers[p]) /\ Acting(handlers[q]) => p = q

\* While one has it, nobody else can get it: no job completes an attempt, no reviewer decides.
ActsAlone == (\E q \in Procs : Acting(handlers[q])) => NoneAwaited(runs, Heard) /\ NoReview(runs)

\* When nobody has it, at most one attempt can give it to somebody.
OneAwaited ==
    \A c, d \in Cycles, i, k \in Nat :
        Awaiting(runs[c].attempts, Heard, c, i) /\ Awaiting(runs[d].attempts, Heard, d, k) => c = d /\ i = k

\* A run in review is the only one, and then no attempt can.
ReviewAlone ==
    \A c \in Cycles : runs[c].state = "review_required" =>
        /\ \A d \in Cycles : runs[d].state = "review_required" => d = c
        /\ NoneAwaited(runs, Heard)
        /\ AtGate(runs[c], Heard, c)

\* Until the queue has looked nothing has happened.
PollFirst ==
    left["poll"] # 0 => /\ \A q \in Procs : ~Acting(handlers[q])
                        /\ Heard = {} /\ NoReview(runs)

\* The turn: it is with a goroutine, with the jobs of one attempt, with the reviewer of one
\* run or with the queue, and with nobody else.
Turn ==
    /\ LeftFew /\ Belong(runs, Heard)
    /\ OneActs /\ ActsAlone /\ OneAwaited /\ ReviewAlone /\ PollFirst
    /\ \A q \in Procs : Apt(runs, Heard, handlers[q])

-----------------------------------------------------------------------------
\* Another state of a row, with the same attempts and reports.
SameJobs(old, new) ==
    /\ Len(new.attempts) = Len(old.attempts) /\ DOMAIN new.attempts = DOMAIN old.attempts
    /\ \A i \in DOMAIN old.attempts :
          /\ new.attempts[i].phase = old.attempts[i].phase
          /\ new.attempts[i].report = old.attempts[i].report
          /\ old.attempts[i].completed => new.attempts[i].completed

\* A row that differs in reports of jobs that were heard of.
HeardOnly(v, c, old, new) ==
    /\ new.state = old.state
    /\ Len(new.attempts) = Len(old.attempts) /\ DOMAIN new.attempts = DOMAIN old.attempts
    /\ \A i \in DOMAIN old.attempts :
          /\ new.attempts[i].phase = old.attempts[i].phase
          /\ new.attempts[i].completed = old.attempts[i].completed
          /\ \A j \in JobIds :
                \/ new.attempts[i].report[j] = old.attempts[i].report[j]
                \/ /\ old.attempts[i].report[j] = NoReport /\ new.attempts[i].report[j] # NoReport
                   /\ Speaks(old.attempts, v, c, i, j)

\* No attempt is awaited that was not.
Quieter(as, bs, v, c) == \A i \in Nat : Awaiting(bs, v, c, i) => Awaiting(as, v, c, i)

\* The end of an attempt awaits nothing more.
LEMMA SameJobsQuieter ==
    ASSUME NEW old, NEW new, SameJobs(old, new), NEW v, NEW c
    PROVE  Quieter(old.attempts, new.attempts, v, c)
<1> SUFFICES ASSUME NEW i \in Nat, Awaiting(new.attempts, v, c, i)
             PROVE  Awaiting(old.attempts, v, c, i)
    BY DEF Quieter
<1> DEFINE a == old.attempts[i]
           b == new.attempts[i]
<1>1. /\ i \in DOMAIN old.attempts /\ b.phase = a.phase /\ b.report = a.report
      /\ a.completed => b.completed
    BY DEF SameJobs, Awaiting
<1>2. AllReported(a) => AllReported(b)
    BY <1>1 DEF AllReported, Reported
<1>3. \A j : Speaks(new.attempts, v, c, i, j) => Speaks(old.attempts, v, c, i, j)
    BY DEF SameJobs, Speaks
<1> QED BY <1>1, <1>2, <1>3 DEF Awaiting

\* Neither does a report.
LEMMA HeardOnlyQuieter ==
    ASSUME NEW row \in Row, NEW new, NEW v, NEW c, HeardOnly(v, c, row, new)
    PROVE  Quieter(row.attempts, new.attempts, v, c)
<1> SUFFICES ASSUME NEW i \in Nat, Awaiting(new.attempts, v, c, i)
             PROVE  Awaiting(row.attempts, v, c, i)
    BY DEF Quieter
<1> DEFINE a == row.attempts[i]
           b == new.attempts[i]
<1>1. /\ i \in DOMAIN row.attempts /\ b.phase = a.phase /\ b.completed = a.completed
      /\ \A j \in JobIds : \/ b.report[j] = a.report[j]
                           \/ /\ a.report[j] = NoReport /\ b.report[j] # NoReport
                              /\ Speaks(row.attempts, v, c, i, j)
    BY DEF HeardOnly, Awaiting
<1>2. ExpectedJobs(a.phase) \subseteq JobIds
    BY <1>1, AttemptOfRow, JobsOfPhase
<1>3. AllReported(a) => AllReported(b)
    BY <1>1 DEF AllReported, Reported
<1>4. \A j : Speaks(new.attempts, v, c, i, j) => Speaks(row.attempts, v, c, i, j)
    BY DEF HeardOnly, Speaks
<1> HIDE DEF a, b
<1>5. /\ ~b.completed /\ ~AllReported(b)
      /\ \A j \in ExpectedJobs(b.phase) : b.report[j] = NoReport => Speaks(new.attempts, v, c, i, j)
    BY DEF Awaiting, b
<1>6. \A j \in ExpectedJobs(a.phase) : a.report[j] = NoReport => Speaks(row.attempts, v, c, i, j)
    BY <1>1, <1>2, <1>4, <1>5
<1> QED BY <1>1, <1>3, <1>5, <1>6 DEF Awaiting, a

\* Neither does an attempt none of whose jobs was created.
LEMMA AppendQuieter ==
    ASSUME NEW row \in Row, NEW p \in PhaseIds, NEW v, NEW c, Unheard(v, c, p)
    PROVE  Quieter(row.attempts, Append(row.attempts, NewAttempt(p)), v, c)
<1> DEFINE as == row.attempts
           bs == Append(as, NewAttempt(p))
<1>1. as \in Seq(Attempt)
    BY RowFields
<1>2. /\ Len(bs) = Len(as) + 1 /\ Len(as) \in Nat /\ DOMAIN as = 1..Len(as) /\ DOMAIN bs = 1..Len(bs)
      /\ bs[Len(bs)] = NewAttempt(p) /\ \A i \in DOMAIN as : bs[i] = as[i]
    BY <1>1, NewAttemptType
<1> HIDE DEF as, bs
<1>3. SUFFICES ASSUME NEW i \in Nat, Awaiting(bs, v, c, i) PROVE Awaiting(as, v, c, i)
    BY DEF Quieter, as, bs
<1>4. i # Len(bs)
  <2> SUFFICES ASSUME i = Len(bs) PROVE FALSE
      OBVIOUS
  <2>1. bs[i].phase = p /\ \A j \in JobIds : bs[i].report[j] = NoReport
      BY <1>2 DEF NewAttempt
  <2>2. \A j \in ExpectedJobs(p) : Speaks(bs, v, c, i, j)
      BY <2>1, <1>3, JobsOfPhase DEF Awaiting
  <2>3. ExpectedJobs(p) = {}
      BY <2>2 DEF Speaks, Unheard, HeardIn
  <2> QED BY <1>3, <2>1, <2>3 DEF Awaiting, AllReported
<1>5. i \in DOMAIN as /\ bs[i] = as[i] /\ i # Len(bs)
  <2>1. i \in DOMAIN bs
      BY <1>3 DEF Awaiting
  <2> DEFINE n == Len(as)
  <2>2. i \in 1..(n + 1) /\ n \in Nat /\ i # n + 1
      BY <1>2, <1>4, <2>1
  <2> HIDE DEF n
  <2>3. i \in 1..n
      BY <2>2
  <2>4. i \in DOMAIN as
      BY <1>2, <2>3 DEF n
  <2> QED BY <1>2, <1>4, <2>4
<1>6. \A j : Speaks(bs, v, c, i, j) => Speaks(as, v, c, i, j)
    BY <1>5 DEF Speaks
<1> QED BY <1>3, <1>5, <1>6 DEF Awaiting
-----------------------------------------------------------------------------
\* A goroutine that waits its turn keeps what it waits with, whatever others write.
LEMMA RestsApt ==
    ASSUME Inductive, LedgerKept, Heard \subseteq Heard', NEW q \in Procs,
           ~Acting(handlers[q]), Apt(runs, Heard, handlers[q])
    PROVE  Apt(runs', Heard', handlers[q])
<1> DEFINE h == handlers[q]
<1>1. h.pc \in {"idle", "synth", "opengate", "cancelgate"} /\ Good(runs, h)
    BY Parts DEF Acting, Resting, Apt, Waits
<1>2. h.pc = "opengate" => h.on \in Cycles
    BY <1>1 DEF Good, HandlerOK, Launching
<1>3. Waits(runs, Heard, h)
    BY DEF Apt
<1>4. /\ h.pc = "opengate" => h.att \in DOMAIN runs'[h.on].attempts
      /\ h.pc = "opengate" => runs'[h.on].attempts[h.att].phase = h.target
  <2> SUFFICES ASSUME h.pc = "opengate"
               PROVE  h.att \in DOMAIN runs'[h.on].attempts /\ runs'[h.on].attempts[h.att].phase = h.target
      OBVIOUS
  <2>1. h.on \in Cycles /\ h.att \in DOMAIN runs[h.on].attempts /\ runs[h.on].attempts[h.att].phase = h.target
      BY <1>2, <1>3 DEF Waits
  <2> HIDE DEF h
  <2>2. h.att \in DOMAIN runs'[h.on].attempts
      BY <2>1 DEF LedgerKept, RowKept
  <2> QED BY <2>1, <2>2, PhasesKept
<1> HIDE DEF h
<1>5. \A j : HeardIn(Heard, h.run, j) => HeardIn(Heard', h.run, j)
    BY DEF HeardIn
<1>6. Waits(runs', Heard', h)
    BY <1>1, <1>3, <1>4, <1>5 DEF Waits
<1>7. Remembers(runs', Heard', h) /\ Aims(runs', Heard', h) /\ Holds(runs', Heard', h)
    BY <1>1 DEF Remembers, Aims, Holds, DispatchSteps, Committed
<1> QED BY <1>6, <1>7 DEF Apt, h

\* The turn passes to one goroutine, from nobody else.
LEMMA TakesOver ==
    ASSUME Inductive, LedgerKept, Turn, NEW q \in Procs, NEW n, Become(q, n),
           \A r \in Procs : r # q => ~Acting(handlers[r]),
           NoneAwaited(runs', Heard'), NoReview(runs'), LeftFew', left'["poll"] = 0,
           Heard \subseteq Heard', Belong(runs', Heard'), Apt(runs', Heard', n)
    PROVE  Turn'
<1>1. \A r \in Procs : handlers'[r] = IF r = q THEN n ELSE handlers[r]
    BY Parts DEF Become
<1>2. \A r \in Procs : Apt(runs', Heard', handlers'[r])
    BY <1>1, RestsApt DEF Turn
<1>3. OneActs'
    BY <1>1 DEF OneActs
<1>4. ActsAlone' /\ PollFirst'
    BY DEF ActsAlone, PollFirst
<1>5. OneAwaited'
    BY DEF OneAwaited, NoneAwaited
<1>6. ReviewAlone'
    BY DEF ReviewAlone, NoReview
<1> QED BY <1>2, <1>3, <1>4, <1>5, <1>6 DEF Turn

\* What was heard of an attempt stays true of it.
LEMMA BelongKept ==
    ASSUME Inductive, LedgerKept, Belong(runs, Heard), Heard' = Heard
    PROVE  Belong(runs', Heard')
<1> SUFFICES ASSUME NEW c \in Cycles, NEW k \in Nat, NEW j \in JobIds, <<c, k, j>> \in Heard
             PROVE  /\ k \in DOMAIN runs'[c].attempts
                    /\ j \in ExpectedJobs(runs'[c].attempts[k].phase)
    BY DEF Belong
<1>1. k \in DOMAIN runs[c].attempts /\ j \in ExpectedJobs(runs[c].attempts[k].phase)
    BY DEF Belong
<1>2. k \in DOMAIN runs'[c].attempts
    BY <1>1 DEF LedgerKept, RowKept
<1> QED BY <1>1, <1>2, PhasesKept

\* Nothing more is awaited, or in review, when no row has more of it.
LEMMA NothingNew ==
    ASSUME \A c \in Cycles : /\ Quieter(runs[c].attempts, runs'[c].attempts, Heard, c)
                             /\ runs'[c].state = "review_required" => runs[c].state = "review_required",
           Heard' = Heard, NoneAwaited(runs, Heard), NoReview(runs)
    PROVE  NoneAwaited(runs', Heard') /\ NoReview(runs')
BY DEF NoneAwaited, NoReview, Quieter

\* A step of the goroutine whose turn it is.
LEMMA Drives ==
    ASSUME Inductive, LedgerKept, Turn, NEW q \in Procs, Acting(handlers[q]), NEW n, Become(q, n),
           UNCHANGED <<pods, left>>,
           \A c \in Cycles : /\ Quieter(runs[c].attempts, runs'[c].attempts, Heard, c)
                             /\ runs'[c].state = "review_required" => runs[c].state = "review_required",
           Apt(runs', Heard, n)
    PROVE  Turn'
<1>1. Heard' = Heard /\ LeftFew'
    BY DEF Heard, Turn, LeftFew
<1>2. \A r \in Procs : r # q => ~Acting(handlers[r])
    BY DEF Turn, OneActs
<1>3. NoneAwaited(runs, Heard) /\ NoReview(runs) /\ left["poll"] = 0
    BY DEF Turn, ActsAlone, PollFirst
<1>4. NoneAwaited(runs', Heard') /\ NoReview(runs')
    BY <1>1, <1>3, NothingNew
<1>5. Belong(runs', Heard')
    BY <1>1, BelongKept DEF Turn
<1> QED BY <1>1, <1>2, <1>3, <1>4, <1>5, TakesOver

\* The same of the row it writes.
Milder(c, row) ==
    /\ Quieter(runs[c].attempts, row.attempts, Heard, c)
    /\ row.state = "review_required" => runs[c].state = "review_required"

\* A step of the goroutine whose turn it is, and the row it writes.
LEMMA DrivesRow ==
    ASSUME Inductive, LedgerKept, Turn, NEW q \in Procs, Acting(handlers[q]), NEW n, Become(q, n),
           UNCHANGED <<pods, left>>, NEW c \in Cycles, NEW row, Write(c, row), Milder(c, row),
           Apt(runs', Heard, n)
    PROVE  Turn'
<1>1. \A d \in Cycles : runs'[d] = IF d = c THEN row ELSE runs[d]
    BY Parts DEF Write
<1>2. \A d \in Cycles : /\ Quieter(runs[d].attempts, runs'[d].attempts, Heard, d)
                        /\ runs'[d].state = "review_required" => runs[d].state = "review_required"
    BY <1>1 DEF Milder, Quieter
<1> QED BY <1>2, Drives

\* A step of it that writes none.
LEMMA DrivesOnly ==
    ASSUME Inductive, LedgerKept, Turn, NEW q \in Procs, Acting(handlers[q]), NEW n, Become(q, n),
           UNCHANGED <<runs, pods, left>>, Apt(runs, Heard, n)
    PROVE  Turn'
<1>1. \A d \in Cycles : /\ Quieter(runs[d].attempts, runs'[d].attempts, Heard, d)
                        /\ runs'[d].state = "review_required" => runs[d].state = "review_required"
    BY DEF Quieter
<1> QED BY <1>1, Drives

-----------------------------------------------------------------------------
\* A report of a job that was heard of disturbs no goroutine.
LEMMA AptKept ==
    ASSUME Inductive, \A c \in Cycles : HeardOnly(Heard, c, runs[c], runs'[c]), NEW q \in Procs,
           Apt(runs, Heard, handlers[q])
    PROVE  Apt(runs', Heard, handlers[q])
<1> DEFINE h == handlers[q]
<1>1. /\ h.pc # "idle" => h.run \in Cycles
      /\ h.pc \in Launching => h.on \in Cycles
      /\ h.pc \in Committed => h.on \in Cycles /\ h.att \in DOMAIN runs[h.on].attempts
                             /\ h.todo \subseteq JobIds
    BY Parts, HandlerFields DEF Good, HandlerOK, Launching, Committed
<1>2. Remembers(runs, Heard, h) /\ Aims(runs, Heard, h) /\ Holds(runs, Heard, h) /\ Waits(runs, Heard, h)
    BY DEF Apt
<1> HIDE DEF h
<1>3. \A c \in Cycles : /\ DOMAIN runs'[c].attempts = DOMAIN runs[c].attempts
                        /\ Latest(runs'[c]) = Latest(runs[c])
                        /\ \A i \in DOMAIN runs[c].attempts :
                              runs'[c].attempts[i].phase = runs[c].attempts[i].phase
    BY DEF HeardOnly, Latest
<1>4. \A c \in Cycles : Attempted(runs'[c].attempts) = Attempted(runs[c].attempts)
    BY <1>3 DEF Attempted
<1>5. Remembers(runs', Heard, h)
    BY <1>1, <1>2, <1>4 DEF Remembers
<1>6. Aims(runs', Heard, h)
    BY <1>1, <1>2, <1>3 DEF Aims, NoGateIn, Launching
<1>7. Holds(runs', Heard, h)
  <2>1. ASSUME h.pc \in Committed PROVE InHand(runs'[h.on], Heard, h)
    <3>1. InHand(runs[h.on], Heard, h)
        BY <1>2, <2>1 DEF Holds
    <3>2. ASSUME NEW j \in h.todo PROVE runs'[h.on].attempts[h.att].report[j] = NoReport
      <4>1. runs[h.on].attempts[h.att].report[j] = NoReport /\ ~HeardIn(Heard, h.on, j)
          BY <3>1 DEF InHand
      <4>2. ~Speaks(runs[h.on].attempts, Heard, h.on, h.att, j)
          BY <4>1 DEF Speaks, HeardIn
      <4>3. j \in JobIds /\ h.on \in Cycles /\ h.att \in DOMAIN runs[h.on].attempts
          BY <1>1, <2>1
      <4> QED BY <4>1, <4>2, <4>3 DEF HeardOnly
    <3> QED BY <1>1, <1>3, <2>1, <3>1, <3>2 DEF InHand
  <2> QED BY <1>2, <2>1 DEF Holds
<1>8. Waits(runs', Heard, h)
    BY <1>1, <1>2, <1>3 DEF Waits, Launching
<1> QED BY <1>5, <1>6, <1>7, <1>8 DEF Apt, h

\* A run in review stays as it is.
LEMMA AtGateKept ==
    ASSUME Inductive, NEW c \in Cycles, HeardOnly(Heard, c, runs[c], runs'[c]), AtGate(runs[c], Heard, c)
    PROVE  AtGate(runs'[c], Heard, c)
<1> DEFINE m == Latest(runs[c])
           p == runs[c].attempts[m].phase
<1>1. /\ m \in DOMAIN runs[c].attempts /\ Unheard(Heard, c, p)
      /\ \A i \in DOMAIN runs[c].attempts : IsGate(runs[c].attempts[i].phase) <=> i = m
      /\ \A j \in ExpectedJobs(p) : runs[c].attempts[m].report[j] = NoReport
    BY DEF AtGate
<1>2. ExpectedJobs(p) \subseteq JobIds
    BY <1>1, Parts, AttemptOfRow, JobsOfPhase
<1>3. \A j \in ExpectedJobs(p) : ~Speaks(runs[c].attempts, Heard, c, m, j)
    BY <1>1 DEF Unheard, HeardIn, Speaks
<1>4. /\ Latest(runs'[c]) = m /\ DOMAIN runs'[c].attempts = DOMAIN runs[c].attempts
      /\ \A i \in DOMAIN runs[c].attempts : runs'[c].attempts[i].phase = runs[c].attempts[i].phase
    BY DEF HeardOnly, Latest
<1>5. \A j \in ExpectedJobs(p) : runs'[c].attempts[m].report[j] = NoReport
    BY <1>1, <1>2, <1>3 DEF HeardOnly
<1> HIDE DEF m
<1> QED BY <1>1, <1>4, <1>5 DEF AtGate

\* A step that only reports what was heard of, and gives nobody the turn.
LEMMA Neutral ==
    ASSUME Inductive, LedgerKept, Turn, Heard' = Heard, LeftFew',
           left'["poll"] # 0 => left["poll"] # 0,
           \A c \in Cycles : HeardOnly(Heard, c, runs[c], runs'[c]),
           \A r \in Procs : \/ handlers'[r] = handlers[r]
                            \/ ~Acting(handlers'[r]) /\ Apt(runs', Heard, handlers'[r])
    PROVE  Turn'
<1>2. \A r \in Procs : Apt(runs', Heard', handlers'[r])
    BY AptKept DEF Turn
<1>3. \A r \in Procs : Acting(handlers'[r]) => Acting(handlers[r])
    OBVIOUS
<1>4. \A c \in Cycles : /\ Quieter(runs[c].attempts, runs'[c].attempts, Heard, c)
                        /\ runs'[c].state = "review_required" => runs[c].state = "review_required"
    BY Parts, HeardOnlyQuieter DEF HeardOnly
<1>5. \A c \in Cycles, i \in Nat :
          Awaiting(runs'[c].attempts, Heard', c, i) => Awaiting(runs[c].attempts, Heard, c, i)
    BY <1>4 DEF Quieter
<1>6. Belong(runs', Heard')
    BY BelongKept DEF Turn
<1>7. OneActs'
    BY <1>3 DEF Turn, OneActs
<1>8. ActsAlone'
    BY <1>3, <1>4, NothingNew DEF Turn, ActsAlone
<1>9. OneAwaited'
    BY <1>5 DEF Turn, OneAwaited
<1>10. PollFirst'
    BY <1>3, <1>4 DEF Turn, PollFirst, NoReview
<1>11. ReviewAlone'
  <2> SUFFICES ASSUME NEW c \in Cycles, runs'[c].state = "review_required"
               PROVE  /\ \A d \in Cycles : runs'[d].state = "review_required" => d = c
                      /\ NoneAwaited(runs', Heard')
                      /\ AtGate(runs'[c], Heard', c)
      BY DEF ReviewAlone
  <2>1. /\ runs[c].state = "review_required" /\ NoneAwaited(runs, Heard) /\ AtGate(runs[c], Heard, c)
        /\ \A d \in Cycles : runs[d].state = "review_required" => d = c
      BY <1>4 DEF Turn, ReviewAlone
  <2>2. NoneAwaited(runs', Heard')
      BY <1>5, <2>1 DEF NoneAwaited
  <2> QED BY <1>4, <2>1, <2>2, AtGateKept
<1> QED BY <1>2, <1>6, <1>7, <1>8, <1>9, <1>10, <1>11 DEF Turn

\* The same for a step that writes no row.
LEMMA NeutralOnly ==
    ASSUME Inductive, LedgerKept, Turn, Heard' = Heard, LeftFew',
           left'["poll"] # 0 => left["poll"] # 0, UNCHANGED runs,
           NEW q \in Procs, NEW n, Become(q, n), ~Acting(n), Apt(runs, Heard, n)
    PROVE  Turn'
<1>1. \A r \in Procs : handlers'[r] = IF r = q THEN n ELSE handlers[r]
    BY Parts DEF Become
<1>2. \A c \in Cycles : HeardOnly(Heard, c, runs[c], runs'[c])
    BY DEF HeardOnly
<1>3. \A r \in Procs : \/ handlers'[r] = handlers[r]
                       \/ ~Acting(handlers'[r]) /\ Apt(runs', Heard, handlers'[r])
    BY <1>1
<1> QED BY <1>2, <1>3, Neutral

-----------------------------------------------------------------------------
\* The steps at which a goroutine needs to know nothing of attempts and jobs.
Free == {"idle", "settle", "abort", "patch", "unlock", "release", "close", "drop", "dropabort"}

\* There it fits any rows.
LEMMA FreeApt == ASSUME NEW rows, NEW v, NEW h, h.pc \in Free PROVE Apt(rows, v, h)
BY DEF Apt, Free, Remembers, Aims, Holds, Waits, DispatchSteps, Committed

\* Goroutines that start with the end of a run, or have ended.
LEMMA FreeStarts ==
    /\ Idle.pc \in Free /\ ~Acting(Idle)
    /\ \A c, end : Settling(c, end).pc \in Free
    /\ \A c : Aborting(c).pc \in Free
BY DEF Free, Idle, Settling, Aborting, Acting, Resting

\* A goroutine that goes on to one of them.
LEMMA FreeMoves ==
    ASSUME NEW h \in Handlers, NEW step \in Free PROVE [h EXCEPT !.pc = step].pc \in Free
BY DEF Handlers

\* A goroutine that dispatches a phase none of whose jobs was created.
LEMMA DispatchingApt ==
    ASSUME NEW rows, NEW v, NEW h \in Handlers, NEW mode \in Modes, NEW p \in PhaseIds,
           Unheard(v, h.run, p), IsGate(p) => NoGateIn(rows[h.run].attempts),
           mode \in {"advance", "retry"} => Recalled(v, h.run, h.base.attempts)
    PROVE  Apt(rows, v, Dispatching(h, mode, p))
<1> DEFINE run == h.run
           n   == [h EXCEPT !.pc = "dispatch", !.mode = mode, !.on = run, !.target = p]
<1>1. Dispatching(h, mode, p) = n
    BY DEF Dispatching
<1> HIDE DEF run
<1>2. n.pc = "dispatch" /\ n.mode = mode /\ n.run = h.run /\ n.on = run /\ n.target = p /\ n.base = h.base
    BY DEF Handlers
<1> HIDE DEF n
<1>3. Remembers(rows, v, n) /\ Aims(rows, v, n) /\ Holds(rows, v, n) /\ Waits(rows, v, n)
    BY <1>2 DEF Remembers, Aims, Holds, Waits, Committed, run
<1> QED BY <1>1, <1>3 DEF Apt

\* firstUnattemptedAbortPhase returns a phase that was not attempted.
LEMMA AbortPathIsNew ==
    ASSUME NEW as, AbortPathPhase(as) # NoPhase
    PROVE  AbortPathPhase(as) \in AbortPhases \ Attempted(as)
<1> DEFINE S == {p \in AbortPhases \ Attempted(as) : p - 1 \in AbortPhases => p - 1 \in Advanced(as)}
<1>1. S \in SUBSET PhaseIds
    BY DEF AbortPhases
<1>2. AbortPathPhase(as) = First(S)
    BY DEF AbortPathPhase
<1>3. First(S) \in S
    BY <1>1, <1>2, FirstIsMember
<1> QED BY <1>2, <1>3

\* So does listReadyPhases.
LEMMA ReadyIsNew ==
    ASSUME NEW as, NEW always, ReadyPhase(as, always) # NoPhase
    PROVE  ReadyPhase(as, always) \in PhaseIds \ Attempted(as)
<1> DEFINE S == {p \in PhaseIds \ Attempted(as) :
                    /\ RunsOnSuccessPath(p)
                    /\ RunsOnAbortPath(p) => always
                    /\ p - 1 \in Advanced(as)}
<1>1. S \in SUBSET PhaseIds
    OBVIOUS
<1>2. ReadyPhase(as, always) = First(S)
    BY DEF ReadyPhase
<1>3. First(S) \in S
    BY <1>1, <1>2, FirstIsMember
<1> QED BY <1>2, <1>3

\* So does allReadyDispatchTargets, and the gate only to go forward.
LEMMA TargetIsNew ==
    ASSUME NEW as, NEW verdict, DispatchTarget(as, verdict) # NoPhase
    PROVE  /\ DispatchTarget(as, verdict) \in PhaseIds \ Attempted(as)
           /\ verdict # "advance" => ~IsGate(DispatchTarget(as, verdict))
<1> DEFINE t == DispatchTarget(as, verdict)
<1>1. t \in {AbortPathPhase(as), ReadyPhase(as, TRUE), ReadyPhase(as, FALSE)}
    BY DEF DispatchTarget
<1>2. verdict # "advance" => t = AbortPathPhase(as)
    BY DEF DispatchTarget
<1>3. AbortPathPhase(as) # NoPhase => ~IsGate(AbortPathPhase(as)) /\ AbortPathPhase(as) \in PhaseIds
    BY AbortPathIsNew DEF AbortPhases, RunsOnAbortPath, IsTeardown, IsGate
<1>4. t # NoPhase
    OBVIOUS
<1> HIDE DEF t
<1>5. \/ t = AbortPathPhase(as) \/ t = ReadyPhase(as, TRUE) \/ t = ReadyPhase(as, FALSE)
    BY <1>1
<1>6. t \in PhaseIds /\ t \notin Attempted(as)
    BY <1>3, <1>4, <1>5, AbortPathIsNew, ReadyIsNew
<1> QED BY <1>2, <1>3, <1>4, <1>6 DEF t

\* A phase the copy does not know of has had no job.
LEMMA RecalledUnheard ==
    ASSUME JobsApart, NEW as \in Seq(Attempt), NEW v, NEW c, Recalled(v, c, as),
           NEW p \in PhaseIds \ Attempted(as)
    PROVE  Unheard(v, c, p)
<1> SUFFICES ASSUME NEW j \in ExpectedJobs(p), HeardIn(v, c, j) PROVE FALSE
    BY DEF Unheard
<1>1. j \in JobIds
    BY JobsOfPhase
<1>2. PICK r \in Attempted(as) : j \in ExpectedJobs(r)
    BY <1>1 DEF Recalled
<1>3. r \in PhaseIds
  <2>1. PICK i \in DOMAIN as : r = as[i].phase
      BY <1>2 DEF Attempted
  <2>2. i \in 1..Len(as)
      BY LenProperties
  <2>3. as[i] \in Attempt
      BY <2>2, ElementOfSeq
  <2> QED BY <2>1, <2>3 DEF Attempt
<1> QED BY <1>2, <1>3 DEF JobsApart

\* abortRunWithWorkflowCleanup.
LEMMA CleaningApt ==
    ASSUME JobsApart, NEW rows, NEW v, NEW h \in Handlers, Recalled(v, h.run, h.base.attempts)
    PROVE  Apt(rows, v, CleaningUp(h))
<1> DEFINE as == h.base.attempts
           t  == DispatchTarget(as, "abort_malformed")
<1>1. as \in Seq(Attempt)
    BY HandlerFields, RowFields
<1>2. CleaningUp(h) = IF t # NoPhase THEN Dispatching(h, "cleanup", t)
                      ELSE IF HasInFlight(as) THEN Idle ELSE Settling(h.run, "aborted")
    BY DEF CleaningUp
<1>3. ASSUME t # NoPhase PROVE Apt(rows, v, Dispatching(h, "cleanup", t))
  <2>1. t \in PhaseIds \ Attempted(as) /\ ~IsGate(t)
      BY <1>3, TargetIsNew
  <2> HIDE DEF t
  <2>2. Unheard(v, h.run, t)
      BY <1>1, <2>1, RecalledUnheard
  <2> QED BY <2>1, <2>2, DispatchingApt DEF Modes
<1> HIDE DEF t
<1> QED BY <1>2, <1>3, FreeStarts, FreeApt

\* What a goroutine does when a dispatch failed.
LEMMA FailureApt ==
    ASSUME JobsApart, NEW rows, NEW v, NEW h \in Handlers,
           h.mode \in {"advance", "retry"} => Recalled(v, h.run, h.base.attempts)
    PROVE  Apt(rows, v, AfterFailure(h))
<1>1. h.mode \in Modes
    BY HandlerFields
<1>2. [h EXCEPT !.pc = "dropabort"].pc \in Free
    BY FreeMoves DEF Free
<1>3. CASE h.mode \in {"advance", "retry"}
    BY <1>3, CleaningApt DEF AfterFailure
<1>4. CASE h.mode \notin {"advance", "retry"}
  <2>1. AfterFailure(h).pc \in Free
      BY <1>1, <1>2, <1>4, FreeStarts DEF AfterFailure, Modes
  <2> QED BY <2>1, FreeApt
<1> QED BY <1>3, <1>4

-----------------------------------------------------------------------------
\* Two ledgers with the same attempts are as long.
LEMMA SameLength ==
    ASSUME NEW as \in Seq(Attempt), NEW bs \in Seq(Attempt), DOMAIN as = DOMAIN bs
    PROVE  Len(as) = Len(bs)
<1> DEFINE m == Len(as)
           n == Len(bs)
<1>1. m \in Nat /\ n \in Nat /\ 1..m = 1..n
    BY LenProperties
<1> HIDE DEF m, n
<1>2. m = n
    BY <1>1
<1> QED BY <1>2 DEF m, n

\* The phases attempted stay the same.
LEMMA SameAttempted ==
    ASSUME NEW old, NEW new, SameJobs(old, new) PROVE Attempted(new.attempts) = Attempted(old.attempts)
BY DEF SameJobs, Attempted

\* Another end of attempt i.
EndOf(old, new) ==
    /\ new \in Attempt /\ new.phase = old.phase /\ new.report = old.report
    /\ old.completed => new.completed

\* Another end of an attempt leaves the jobs of the row the same.
LEMMA WithAttemptSame ==
    ASSUME NEW row \in Row, Exists(row), NEW i, NEW a,
           i \in DOMAIN row.attempts => EndOf(row.attempts[i], a)
    PROVE  SameJobs(row, WithAttempt(row, i, a)) /\ WithAttempt(row, i, a).state = row.state
<1> DEFINE new == WithAttempt(row, i, a)
           as  == [row.attempts EXCEPT ![i] = a]
<1>1. new = [row EXCEPT !.attempts = as]
    BY DEF WithAttempt
<1>2. \A k \in DOMAIN row.attempts : as[k] = IF k = i THEN a ELSE row.attempts[k]
    BY RowFields
<1> HIDE DEF as
<1>3. new.attempts = as
    BY <1>1 DEF Row
<1>4. i \in DOMAIN row.attempts => a \in Attempt /\ AttemptKept(row.attempts[i], a)
    BY DEF EndOf, AttemptKept
<1>5. Successor(row, new) /\ new.state = row.state /\ DOMAIN new.attempts = DOMAIN row.attempts
    BY <1>4, WithAttemptSuccessor
<1> HIDE DEF new
<1>6. Len(new.attempts) = Len(row.attempts)
    BY <1>5, RowFields, SameLength DEF Successor
<1> QED BY <1>2, <1>3, <1>5, <1>6 DEF SameJobs, EndOf, new

\* A row whose attempts are those of another.
LEMMA SameAttempts ==
    ASSUME NEW old, NEW mid, NEW new, SameJobs(old, mid), new.attempts = mid.attempts
    PROVE  SameJobs(old, new)
BY DEF SameJobs

\* The completion engine's writes, and the skip of a phase.
LEMMA EndsSame ==
    ASSUME NEW row \in Row, Exists(row)
    PROVE  /\ \A payload \in Payload :
                 /\ SameJobs(row, StampedRow(row, payload)) /\ StampedRow(row, payload).state = row.state
           /\ \A verdict \in Decisions :
                 SameJobs(row, DecidedRow(row, verdict)) /\ DecidedRow(row, verdict).state = row.state
           /\ \A verdict \in Decisions, payload \in Payload : SameJobs(row, DecidedCopy(row, verdict, payload))
           /\ SameJobs(row, PhaseSkippedRow(row)) /\ PhaseSkippedRow(row).state = row.state
<1> DEFINE i   == Latest(row)
           old == row.attempts[i]
<1>1. i \in DOMAIN row.attempts => old \in Attempt
    BY AttemptOfRow
<1>2. ASSUME NEW payload \in Payload
      PROVE  SameJobs(row, StampedRow(row, payload)) /\ StampedRow(row, payload).state = row.state
  <2> DEFINE a    == StampedAttempt(old, payload)
             mid  == WithAttempt(row, i, a)
             cost == mid.cost + payload.cost
             new  == [mid EXCEPT !.cost = cost]
  <2>1. i \in DOMAIN row.attempts => EndOf(old, a)
    <3> HIDE DEF old
    <3>1. payload.concl \in Conclusions /\ payload.verif \in Verifications /\ payload.abort \in BOOLEAN
        BY DEF Payload
    <3> QED BY <1>1, <3>1 DEF EndOf, StampedAttempt, Attempt
  <2>2. StampedRow(row, payload) = new
      BY DEF StampedRow
  <2> HIDE DEF a
  <2>3. SameJobs(row, mid) /\ mid.state = row.state
      BY <2>1, WithAttemptSame
  <2>4. mid \in Row
    <3>1. i \in DOMAIN row.attempts => a \in Attempt /\ AttemptKept(old, a)
        BY <2>1 DEF EndOf, AttemptKept
    <3> QED BY <3>1, WithAttemptSuccessor DEF Successor
  <2> HIDE DEF mid, cost
  <2>5. new.attempts = mid.attempts /\ new.state = mid.state
      BY <2>4 DEF Row
  <2> QED BY <2>2, <2>3, <2>5, SameAttempts
<1>3. ASSUME NEW verdict \in Decisions
      PROVE  SameJobs(row, DecidedRow(row, verdict)) /\ DecidedRow(row, verdict).state = row.state
  <2> DEFINE a == [old EXCEPT !.decision = verdict]
  <2>1. i \in DOMAIN row.attempts => EndOf(old, a)
    <3> HIDE DEF old
    <3> QED BY <1>1 DEF EndOf, Attempt
  <2>2. DecidedRow(row, verdict) = WithAttempt(row, i, a)
      BY DEF DecidedRow
  <2> HIDE DEF a
  <2> QED BY <2>1, <2>2, WithAttemptSame
<1>4. ASSUME NEW verdict \in Decisions, NEW payload \in Payload
      PROVE  SameJobs(row, DecidedCopy(row, verdict, payload))
  <2> DEFINE concl == payload.concl
             a == [old EXCEPT !.decision = verdict, !.completed = TRUE, !.concl = concl]
  <2>1. i \in DOMAIN row.attempts => EndOf(old, a)
    <3>1. concl \in Conclusions
        BY DEF Payload
    <3> HIDE DEF old, concl
    <3> QED BY <1>1, <3>1 DEF EndOf, Attempt
  <2>2. DecidedCopy(row, verdict, payload) = WithAttempt(row, i, a)
      BY DEF DecidedCopy
  <2> HIDE DEF a
  <2> QED BY <2>1, <2>2, WithAttemptSame
<1>5. SameJobs(row, PhaseSkippedRow(row)) /\ PhaseSkippedRow(row).state = row.state
  <2> DEFINE a == [old EXCEPT !.concl = "skipped", !.decision = "advance", !.completed = TRUE]
  <2>1. i \in DOMAIN row.attempts => EndOf(old, a)
    <3> HIDE DEF old
    <3> QED BY <1>1 DEF EndOf, Attempt, Conclusions, Decisions
  <2>2. PhaseSkippedRow(row) = WithAttempt(row, i, a)
      BY DEF PhaseSkippedRow
  <2> HIDE DEF a
  <2> QED BY <2>1, <2>2, WithAttemptSame
<1> QED BY <1>2, <1>3, <1>4, <1>5

\* The reviewer's cancel.
LEMMA CancelledSame ==
    ASSUME NEW row \in Row, Exists(row), NEW i \in DOMAIN row.attempts
    PROVE  SameJobs(row, CancelledRow(row, i)) /\ CancelledRow(row, i).state = "in_progress"
<1> DEFINE old  == row.attempts[i]
           p    == old.phase
           a    == [old EXCEPT !.decision = "abort_requested", !.concl = "cancelled", !.completed = TRUE]
           back == [row EXCEPT !.state = "in_progress"]
           mid  == WithAttempt(back, i, a)
           new  == WithExec(mid, p, "finished")
<1>1. old \in Attempt
    BY AttemptOfRow
<1>2. EndOf(old, a)
  <2> HIDE DEF old
  <2> QED BY <1>1 DEF EndOf, Attempt, Conclusions, Decisions, AbortDecisions
<1>3. CancelledRow(row, i) = new
    BY DEF CancelledRow
<1>4. Successor(row, back) /\ back.attempts = row.attempts /\ back.state = "in_progress"
  <2>1. Successor(row, back) /\ back.attempts = row.attempts
      BY StateSuccessor DEF RowStates
  <2> QED BY <2>1 DEF Row
<1> HIDE DEF a, back
<1>5. SameJobs(back, mid) /\ mid.state = "in_progress"
    BY <1>2, <1>4, WithAttemptSame DEF Successor
<1>6. mid \in Row /\ Exists(mid)
  <2>1. a \in Attempt /\ AttemptKept(back.attempts[i], a)
      BY <1>2, <1>4 DEF EndOf, AttemptKept
  <2> QED BY <1>4, <2>1, WithAttemptSuccessor DEF Successor
<1> HIDE DEF mid, p
<1>7. new.attempts = mid.attempts /\ new.state = mid.state
    BY <1>6, WithExecSuccessor DEF ExecStates
<1> HIDE DEF new
<1>8. SameJobs(row, mid)
    BY <1>4, <1>5 DEF SameJobs
<1> QED BY <1>3, <1>5, <1>7, <1>8, SameAttempts

\* The writes that leave the attempts alone.
LEMMA FieldsOnly ==
    ASSUME NEW row \in Row, Exists(row)
    PROVE  /\ RecycledRow(row).attempts = row.attempts /\ RecycledRow(row).state = "recycled"
           /\ LinkedRow(row).attempts = row.attempts /\ LinkedRow(row).state = row.state
           /\ \A p : ActiveRow(row, p).attempts = row.attempts /\ ActiveRow(row, p).state = row.state
           /\ \A end \in {"passed", "aborted"} :
                 SettledRow(row, end).attempts = row.attempts /\ SettledRow(row, end).state = end
           /\ \A i : ReleasedRow(row, i).attempts = row.attempts /\ ReleasedRow(row, i).state = "in_progress"
<1>1. /\ RecycledRow(row).attempts = row.attempts /\ RecycledRow(row).state = "recycled"
      /\ LinkedRow(row).attempts = row.attempts /\ LinkedRow(row).state = row.state
    BY DEF RecycledRow, LinkedRow, Row
<1>2. ASSUME NEW p PROVE ActiveRow(row, p).attempts = row.attempts /\ ActiveRow(row, p).state = row.state
    BY WithExecSuccessor DEF ActiveRow, ExecStates
<1>3. ASSUME NEW end \in {"passed", "aborted"}
      PROVE  SettledRow(row, end).attempts = row.attempts /\ SettledRow(row, end).state = end
  <2> DEFINE ex == IF end = "aborted"
                   THEN [p \in PhaseIds |-> IF row.exec[p] \in {"dispatching", "active"}
                                            THEN "finished" ELSE row.exec[p]]
                   ELSE row.exec
             new == [row EXCEPT !.state = end, !.exec = ex]
  <2>1. SettledRow(row, end) = new
      BY DEF SettledRow
  <2> HIDE DEF ex
  <2> QED BY <2>1 DEF Row
<1>4. ASSUME NEW i
      PROVE  ReleasedRow(row, i).attempts = row.attempts /\ ReleasedRow(row, i).state = "in_progress"
  <2> DEFINE mid == [row EXCEPT !.state = "in_progress"]
             p   == row.attempts[i].phase
  <2>1. mid \in Row /\ mid.state = "in_progress" /\ mid.attempts = row.attempts
      BY DEF Row, RowStates
  <2>2. ReleasedRow(row, i) = WithExec(mid, p, "dispatching")
      BY DEF ReleasedRow
  <2> HIDE DEF mid, p
  <2> QED BY <2>1, <2>2, WithExecSuccessor DEF ExecStates, Exists
<1> QED BY <1>1, <1>2, <1>3, <1>4

\* The writes that append an attempt.
LEMMA Appends ==
    ASSUME NEW row \in Row, Exists(row), NEW p \in PhaseIds
    PROVE  /\ AppendedRow(row, p).attempts = Append(row.attempts, NewAttempt(p))
           /\ AppendedRow(row, p).state = row.state
           /\ ParkedRow(row, p).attempts = Append(row.attempts, NewAttempt(p))
           /\ \A lease \in Nat : /\ StartedRow(row, p, lease).attempts = Append(row.attempts, NewAttempt(p))
                                 /\ StartedRow(row, p, lease).state = "in_progress"
<1> DEFINE as == Append(row.attempts, NewAttempt(p))
           m1 == [row EXCEPT !.attempts = as]
           m2 == [row EXCEPT !.attempts = as, !.state = "review_required"]
           new == AppendedRow(row, p)
<1>1. as \in Seq(Attempt)
    BY AppendType
<1>2. new = WithExec(m1, p, "dispatching") /\ ParkedRow(row, p) = WithExec(m2, p, "review_required")
    BY DEF AppendedRow, ParkedRow
<1> HIDE DEF as
<1>3. /\ m1 \in Row /\ m1.state = row.state /\ m1.attempts = as
      /\ m2 \in Row /\ m2.state = "review_required" /\ m2.attempts = as
    BY <1>1 DEF Row, RowStates
<1> HIDE DEF m1, m2
<1>4. Exists(m1) /\ Exists(m2)
    BY <1>3 DEF Exists
<1>5. /\ new.attempts = as /\ new.state = row.state
      /\ ParkedRow(row, p).attempts = as
  <2>1. WithExec(m1, p, "dispatching").attempts = as /\ WithExec(m1, p, "dispatching").state = row.state
      BY <1>3, <1>4, WithExecSuccessor DEF ExecStates
  <2>2. WithExec(m2, p, "review_required").attempts = as
      BY <1>3, <1>4, WithExecSuccessor DEF ExecStates
  <2> QED BY <1>2, <2>1, <2>2
<1>6. new \in Row
    BY AppendedSuccessor DEF Successor
<1>7. ASSUME NEW lease \in Nat
      PROVE  StartedRow(row, p, lease).attempts = as /\ StartedRow(row, p, lease).state = "in_progress"
  <2>1. StartedRow(row, p, lease) = [new EXCEPT !.state = "in_progress", !.lease = lease]
      BY DEF StartedRow
  <2> HIDE DEF new
  <2> QED BY <1>5, <1>6, <2>1 DEF Row
<1> QED BY <1>5, <1>7 DEF as

\* A row with other reports of attempt i.
LEMMA WithReportsAttempts ==
    ASSUME NEW row \in Row, Exists(row), NEW i \in DOMAIN row.attempts,
           NEW a \in Attempt, AttemptKept(row.attempts[i], a)
    PROVE  LET new == WithReports(row, i, a)
           IN  /\ new.state = row.state
               /\ DOMAIN new.attempts = DOMAIN row.attempts /\ Len(new.attempts) = Len(row.attempts)
               /\ \A k \in DOMAIN row.attempts : new.attempts[k] = IF k = i THEN a ELSE row.attempts[k]
<1> DEFINE mid == WithAttempt(row, i, a)
           as  == [row.attempts EXCEPT ![i] = a]
           p   == a.phase
<1>1. Successor(row, mid) /\ mid.state = row.state /\ DOMAIN mid.attempts = DOMAIN row.attempts
    BY WithAttemptSuccessor
<1>2. \A k \in DOMAIN row.attempts : as[k] = IF k = i THEN a ELSE row.attempts[k]
    BY RowFields
<1>3. mid = [row EXCEPT !.attempts = as]
    BY DEF WithAttempt
<1> HIDE DEF as
<1>4. mid.attempts = as
    BY <1>3 DEF Row
<1> HIDE DEF mid
<1>5. mid \in Row /\ Exists(mid)
    BY <1>1 DEF Successor
<1>6. WithReports(row, i, a) = IF AllReported(a) THEN WithExec(mid, p, "finished") ELSE mid
    BY DEF WithReports, mid
<1> HIDE DEF p
<1>7. WithReports(row, i, a).attempts = as /\ WithReports(row, i, a).state = row.state
  <2>1. WithExec(mid, p, "finished").attempts = as /\ WithExec(mid, p, "finished").state = row.state
      BY <1>1, <1>4, <1>5, WithExecSuccessor DEF ExecStates
  <2> QED BY <1>1, <1>4, <1>6, <2>1
<1>8. Len(mid.attempts) = Len(row.attempts)
    BY <1>1, <1>5, RowFields, SameLength
<1> QED BY <1>1, <1>2, <1>4, <1>7, <1>8

\* The report of a job that was heard of.
LEMMA RecordedHeard ==
    ASSUME NEW row \in Row, Exists(row), NEW i, NEW j \in JobIds, NEW o \in Outcome, CanRecord(row, i, j),
           NEW v, NEW c, Speaks(row.attempts, v, c, i, j)
    PROVE  /\ HeardOnly(v, c, row, RecordedRow(row, i, j, o))
           /\ \A k \in JobIds \ {j} :
                 RecordedRow(row, i, j, o).attempts[i].report[k] = row.attempts[i].report[k]
<1> DEFINE old == row.attempts[i]
           rep == [old.report EXCEPT ![j] = o]
           a   == [old EXCEPT !.report = rep]
           new == RecordedRow(row, i, j, o)
<1>1. /\ i \in DOMAIN row.attempts /\ old \in Attempt /\ old.report \in [JobIds -> Outcome \union {NoReport}]
      /\ old.report[j] = NoReport
    BY AttemptOfRow DEF CanRecord
<1>2. rep \in [JobIds -> Outcome \union {NoReport}] /\ rep[j] = o /\ \A k \in JobIds \ {j} : rep[k] = old.report[k]
    BY <1>1
<1>3. o # NoReport
    BY DEF Outcome, NoReport, Conclusions
<1>4. new = WithReports(row, i, a)
    BY DEF RecordedRow
<1> HIDE DEF rep, old
<1>5. a \in Attempt /\ a.report = rep /\ a.phase = old.phase /\ a.completed = old.completed
    BY <1>1, <1>2 DEF Attempt
<1> HIDE DEF a, new
<1>6. AttemptKept(row.attempts[i], a)
    BY <1>1, <1>2, <1>5 DEF AttemptKept, old
<1>7. /\ new.state = row.state
      /\ DOMAIN new.attempts = DOMAIN row.attempts /\ Len(new.attempts) = Len(row.attempts)
      /\ \A k \in DOMAIN row.attempts : new.attempts[k] = IF k = i THEN a ELSE row.attempts[k]
    BY <1>1, <1>4, <1>5, <1>6, WithReportsAttempts
<1>8. \A k \in JobIds : \/ a.report[k] = old.report[k]
                       \/ /\ old.report[k] = NoReport /\ a.report[k] # NoReport
                          /\ Speaks(row.attempts, v, c, i, k)
    BY <1>1, <1>2, <1>3, <1>5
<1>9. HeardOnly(v, c, row, new)
    BY <1>5, <1>7, <1>8 DEF HeardOnly, old
<1> QED BY <1>1, <1>2, <1>5, <1>7, <1>9 DEF new, old

\* Of the reports of an attempt the one that makes it complete passes the turn on.
LEMMA RecordTurn ==
    ASSUME Inductive, LedgerKept, Turn, NEW q \in Procs, ~Acting(handlers[q]),
           NEW c \in Cycles, Exists(runs[c]), NEW i, NEW j \in JobIds, NEW o \in Outcome,
           Record(q, c, i, j, o), Speaks(runs[c].attempts, Heard, c, i, j),
           Heard' = Heard, LeftFew', left'["poll"] = left["poll"]
    PROVE  Turn'
<1> DEFINE row == RecordedRow(runs[c], i, j, o)
           agg == Aggregate(row.attempts[i])
<1>0. runs[c] \in Row
    BY Parts
<1>1. CASE ~CanRecord(runs[c], i, j)
  <2>1. Become(q, Idle) /\ UNCHANGED runs
      BY <1>1 DEF Record
  <2> QED BY <2>1, FreeStarts, FreeApt, NeutralOnly
<1>2. CASE CanRecord(runs[c], i, j)
  <2>1. Write(c, row) /\ i \in DOMAIN runs[c].attempts
      BY <1>2 DEF Record, CanRecord
  <2>2. runs'[c] = row /\ ~AllReported(runs[c].attempts[i]) /\ i \in Nat
      BY <1>2, <2>1, RecordRows
  <2>3. /\ HeardOnly(Heard, c, runs[c], row)
        /\ \A k \in JobIds \ {j} : row.attempts[i].report[k] = runs[c].attempts[i].report[k]
      BY ONLY <1>0, <1>2, RecordedHeard, Exists(runs[c]), j \in JobIds, o \in Outcome,
              Speaks(runs[c].attempts, Heard, c, i, j)
  <2>4. \A d \in Cycles : HeardOnly(Heard, d, runs[d], runs'[d])
    <3>1. \A d \in Cycles : runs'[d] = IF d = c THEN row ELSE runs[d]
        BY <2>1, Parts DEF Write
    <3> HIDE DEF row
    <3> QED BY <2>3, <3>1 DEF HeardOnly
  <2>5. CASE ~CompletionReady(row, i)
    <3>1. Become(q, Idle)
        BY <1>2, <2>5 DEF Record
    <3>2. \A r \in Procs : handlers'[r] = IF r = q THEN Idle ELSE handlers[r]
        BY <3>1, Parts DEF Become
    <3>3. \A r \in Procs : \/ handlers'[r] = handlers[r]
                           \/ ~Acting(handlers'[r]) /\ Apt(runs', Heard, handlers'[r])
        BY <3>2, FreeStarts, FreeApt
    <3> QED BY <2>4, <3>3, Neutral
  <2>6. CASE CompletionReady(row, i)
    <3>1. Become(q, Stamping(c, agg))
        BY <1>2, <2>6 DEF Record
    <3> HIDE DEF row, agg
    <3>2. AllReported(runs'[c].attempts[i])
        BY <2>2, <2>6 DEF CompletionReady
    <3>3. Awaiting(runs[c].attempts, Heard, c, i)
      <4>1. runs'[c].attempts[i].phase = runs[c].attempts[i].phase
          BY <2>1, PhasesKept
      <4>2. \A k \in ExpectedJobs(runs[c].attempts[i].phase) \ {j} : runs[c].attempts[i].report[k] # NoReport
        <5> SUFFICES ASSUME NEW k \in ExpectedJobs(runs[c].attempts[i].phase) \ {j}
                     PROVE  runs[c].attempts[i].report[k] # NoReport
            OBVIOUS
        <5>1. k \in JobIds /\ runs'[c].attempts[i].report[k] # NoReport
            BY <3>2, <4>1 DEF AllReported, Reported
        <5> QED BY <2>2, <2>3, <5>1
      <4>3. ~runs[c].attempts[i].completed
          BY <1>2 DEF CanRecord
      <4> QED BY <2>1, <2>2, <4>2, <4>3 DEF Awaiting
    <3>4. \A r \in Procs : ~Acting(handlers[r])
        BY <2>2, <3>3 DEF Turn, ActsAlone, NoneAwaited
    <3>5. NoReview(runs')
      <4>1. NoReview(runs)
          BY <2>2, <3>3 DEF Turn, ReviewAlone, NoneAwaited, NoReview
      <4> QED BY <2>4, <4>1 DEF NoReview, HeardOnly
    <3>6. NoneAwaited(runs', Heard')
      <4> SUFFICES ASSUME NEW d \in Cycles, NEW k \in Nat, Awaiting(runs'[d].attempts, Heard, d, k) PROVE FALSE
          BY DEF NoneAwaited
      <4>1. Awaiting(runs[d].attempts, Heard, d, k)
          BY <2>4, Parts, HeardOnlyQuieter DEF Quieter
      <4>2. d = c /\ k = i
          BY <2>2, <3>3, <4>1 DEF Turn, OneAwaited
      <4> QED BY <3>2, <4>2 DEF Awaiting
    <3>7. left'["poll"] = 0
      <4>1. Heard # {}
          BY DEF Speaks
      <4> QED BY <4>1 DEF Turn, PollFirst
    <3>8. Apt(runs', Heard', Stamping(c, agg))
        BY DEF Stamping, Idle, Apt, Remembers, Aims, Holds, Waits, DispatchSteps, Committed
    <3>9. Belong(runs', Heard')
        BY BelongKept DEF Turn
    <3> QED BY <3>1, <3>4, <3>5, <3>6, <3>7, <3>8, <3>9, TakesOver
  <2> QED BY <2>5, <2>6
<1> QED BY <1>1, <1>2

-----------------------------------------------------------------------------
\* The job of a pod was heard of.
LEMMA PodHeard ==
    ASSUME Inductive, NEW pod \in pods
    PROVE  /\ pod.run \in Cycles /\ pod.att \in Nat /\ pod.job \in JobIds /\ pod.att \in DOMAIN runs[pod.run].attempts
           /\ <<pod.run, pod.att, pod.job>> \in Heard /\ HeardIn(Heard, pod.run, pod.job)
<1>1. pod \in Pods /\ pod.att \in DOMAIN runs[pod.run].attempts
    BY Parts
<1>2. pod.run \in Cycles /\ pod.att \in Nat /\ pod.job \in JobIds
    BY <1>1 DEF Pods
<1>3. <<pod.run, pod.att, pod.job>> \in Heard
    BY DEF Heard
<1> QED BY <1>1, <1>2, <1>3 DEF HeardIn

\* A pod that changes its state is the same job.
LEMMA PodMovesHeard ==
    ASSUME Inductive, NEW pod \in pods, NEW st, PodBecomes(pod, st) PROVE Heard' = Heard
<1> DEFINE new == [pod EXCEPT !.st = st]
<1>1. pod \in Pods
    BY Parts
<1>2. new.run = pod.run /\ new.att = pod.att /\ new.job = pod.job
    BY <1>1 DEF Pods
<1>3. pods' = (pods \ {pod}) \union {new}
    BY DEF PodBecomes
<1> HIDE DEF new
<1>4. \A old \in pods : \E some \in pods' : some.run = old.run /\ some.att = old.att /\ some.job = old.job
    BY <1>2, <1>3
<1>5. \A some \in pods' : \E old \in pods : some.run = old.run /\ some.att = old.att /\ some.job = old.job
    BY <1>2, <1>3
<1>6. Heard' \subseteq Heard
    BY <1>5 DEF Heard
<1>7. Heard \subseteq Heard'
    BY <1>4 DEF Heard
<1> QED BY <1>6, <1>7

\* An event the hypotheses allow.
LEMMA SpentFew ==
    ASSUME Inductive, Turn, NEW kind \in EventKinds, Spend(kind)
    PROVE  LeftFew' /\ (kind # "poll" => left'["poll"] = left["poll"])
           /\ kind \notin {"fault", "abort", "sweep"}
           /\ (kind = "poll" => left["poll"] # 0 /\ left'["poll"] = 0)
<1>1. left \in [EventKinds -> Nat]
    BY SmallTypes
<1>2. left[kind] > 0 /\ \A k \in EventKinds : left'[k] = IF k = kind THEN left[k] - 1 ELSE left[k]
    BY <1>1 DEF Spend
<1>3. {"poll", "fault", "abort", "sweep"} \subseteq EventKinds
    BY DEF EventKinds
<1>4. left["fault"] = 0 /\ left["abort"] = 0 /\ left["sweep"] = 0 /\ left["poll"] <= 1 /\ left["poll"] \in Nat
    BY <1>1, <1>3 DEF Turn, LeftFew
<1>5. kind \notin {"fault", "abort", "sweep"}
    BY <1>2, <1>4
<1>6. left'["fault"] = 0 /\ left'["abort"] = 0 /\ left'["sweep"] = 0
    BY <1>2, <1>3, <1>4, <1>5
<1>7. kind # "poll" => left'["poll"] = left["poll"]
    BY <1>2, <1>3
<1>8. kind = "poll" => left["poll"] # 0 /\ left'["poll"] = 0
    BY <1>2, <1>4
<1> QED BY <1>4, <1>5, <1>6, <1>7, <1>8 DEF LeftFew

\* A step that spends nothing.
LEMMA SameLeft == ASSUME Turn, UNCHANGED left PROVE LeftFew' /\ left'["poll"] = left["poll"]
BY DEF Turn, LeftFew

\* The report the watcher makes up.
LEMMA SynthesizeTurn ==
    ASSUME Inductive, LedgerKept, Turn, NEW q \in Procs, Synthesize(q) PROVE Turn'
<1> DEFINE h == handlers[q]
<1>1. h.pc = "synth" /\ UNCHANGED <<pods, left>>
    BY DEF Synthesize, At
<1>2. PICK j \in h.todo : Record(q, h.run, Latest(runs[h.run]), j, LostOutcome)
    BY DEF Synthesize
<1>3. Heard' = Heard
    BY <1>1 DEF Heard
<1>4. h.run \in Cycles /\ Exists(runs[h.run]) /\ j \in JobIds
    BY <1>1, <1>2, AtStep, Parts, HandlerFields DEF At, Busy
<1>5. HeardIn(Heard, h.run, j)
    BY <1>1, <1>2 DEF Turn, Apt, Waits
<1>6. Speaks(runs[h.run].attempts, Heard, h.run, Latest(runs[h.run]), j)
    BY <1>5 DEF HeardIn, Speaks, Latest
<1>7. ~Acting(h)
    BY <1>1 DEF Acting, Resting
<1> HIDE DEF h
<1> QED BY <1>1, <1>2, <1>3, <1>4, <1>6, <1>7, LostType, SameLeft, RecordTurn DEF h

\* The report a pod sends.
LEMMA CallbackTurn ==
    ASSUME Inductive, LedgerKept, Turn, NEW q \in Procs, NEW pod \in pods, Callback(q, pod) PROVE Turn'
<1>1. /\ handlers[q].pc = "idle" /\ \E st : PodBecomes(pod, st)
      /\ UNCHANGED left \/ Spend("echo")
    BY DEF Callback, At
<1>2. PICK o \in Outcomes[PhaseOf(pod)] : Record(q, pod.run, pod.att, pod.job, o)
    BY DEF Callback
<1>3. o \in Outcome
    BY <1>2, PodFacts, LifecycleAssumption
<1>4. Heard' = Heard
    BY <1>1, PodMovesHeard
<1>5. LeftFew' /\ left'["poll"] = left["poll"]
    BY <1>1, SameLeft, SpentFew DEF EventKinds
<1>6. Speaks(runs[pod.run].attempts, Heard, pod.run, pod.att, pod.job)
    BY PodHeard DEF Speaks
<1>7. ~Acting(handlers[q])
    BY <1>1 DEF Acting, Resting
<1> QED BY <1>2, <1>3, <1>4, <1>5, <1>6, <1>7, PodFacts, RecordTurn

\* The watcher has the event of a job.
LEMMA WatchTurn ==
    ASSUME Inductive, LedgerKept, Turn, NEW q \in Procs, NEW pod \in pods, Watch(q, pod) PROVE Turn'
<1> DEFINE c == pod.run
           j == pod.job
           n == [Idle EXCEPT !.pc = "synth", !.run = c, !.todo = {j}]
<1>1. /\ Become(q, n) \/ Become(q, Idle)
      /\ PodBecomes(pod, "seen") /\ UNCHANGED <<runs, left>>
    BY DEF Watch
<1>2. Heard' = Heard
    BY <1>1, PodMovesHeard
<1>3. HeardIn(Heard, c, j)
    BY PodHeard
<1> HIDE DEF c, j
<1>4. n.pc = "synth" /\ n.run = c /\ n.todo = {j}
    BY DEF Idle
<1> HIDE DEF n
<1>5. ~Acting(n) /\ Apt(runs, Heard, n)
    BY <1>3, <1>4 DEF Acting, Resting, Apt, Remembers, Aims, Holds, Waits, DispatchSteps, Committed
<1> QED BY <1>1, <1>2, <1>5, SameLeft, FreeStarts, FreeApt, NeutralOnly

\* The drain has the reviewer's decision.
LEMMA SignalTurn ==
    ASSUME Inductive, LedgerKept, Turn, NEW q \in Procs, NEW c \in Cycles,
           NEW kind, NEW step, <<kind, step>> \in {<<"approve", "opengate">>, <<"cancel", "cancelgate">>},
           ReviewSignal(q, c, kind, step)
    PROVE  Turn'
<1>1. kind \in EventKinds /\ kind # "poll" /\ Spend(kind) /\ UNCHANGED <<runs, pods>>
      /\ step \in {"opengate", "cancelgate"} /\ (step = "opengate" => kind = "approve")
    BY DEF ReviewSignal, EventKinds
<1>2. PICK i \in ParkedGates(c) :
          Become(q, [Idle EXCEPT !.pc = step, !.mode = kind, !.run = c, !.on = c, !.base = runs[c],
                                 !.att = i, !.target = runs[c].attempts[i].phase,
                                 !.todo = ExpectedJobs(runs[c].attempts[i].phase)])
    BY DEF ReviewSignal
<1> DEFINE base == runs[c]
           p    == runs[c].attempts[i].phase
           todo == ExpectedJobs(p)
           n    == [Idle EXCEPT !.pc = step, !.mode = kind, !.run = c, !.on = c, !.base = base,
                                !.att = i, !.target = p, !.todo = todo]
<1>3. i \in DOMAIN runs[c].attempts /\ todo = ExpectedJobs(p) /\ p = runs[c].attempts[i].phase
    BY <1>2 DEF ParkedGates
<1>4. Become(q, n)
    BY <1>2
<1> HIDE DEF base, p, todo
<1>5. /\ n.pc = step /\ n.mode = kind /\ n.run = c /\ n.on = c /\ n.att = i
      /\ n.target = p /\ n.todo = todo
    BY DEF Idle
<1> HIDE DEF n
<1>6. ~Acting(n)
    BY <1>1, <1>5 DEF Acting, Resting
<1>7. Apt(runs, Heard, n)
    BY <1>1, <1>3, <1>5 DEF Apt, Remembers, Aims, Holds, Waits, DispatchSteps, Committed
<1>8. Heard' = Heard
    BY <1>1 DEF Heard
<1> QED BY <1>1, <1>4, <1>6, <1>7, <1>8, SpentFew, NeutralOnly

\* A crash takes the turn from everybody.
LEMMA CrashTurn ==
    ASSUME Inductive, LedgerKept, Turn, NEW q \in Procs, Crash(q) PROVE Turn'
<1>1. Spend("crash") /\ Become(q, Idle) /\ UNCHANGED <<runs, pods>>
    BY DEF Crash
<1>2. Heard' = Heard
    BY <1>1 DEF Heard
<1> QED BY <1>1, <1>2, SpentFew, FreeStarts, FreeApt, NeutralOnly DEF EventKinds

\* What the hypotheses rule out.
LEMMA Undone ==
    ASSUME Inductive, Turn, NEW q \in Procs
    PROVE  /\ ~CallFails(q) /\ ~TimeoutJob(q) /\ \A pod : ~Reconcile(q, pod)
           /\ \A c : ~DispatchTimeout(q, c) /\ ~AdminAbort(q, c)
<1>1. ~Spend("fault") /\ ~Spend("sweep") /\ ~Spend("abort")
    BY SpentFew DEF EventKinds
<1>2. handlers[q].pc # "timeout"
    BY DEF Turn, Apt, Waits
<1> QED BY <1>1, <1>2 DEF CallFails, TimeoutJob, Reconcile, DispatchTimeout, AdminAbort, At

\* Pods by themselves.
LEMMA PodsTurn ==
    ASSUME Inductive, LedgerKept, Turn,
           PodStep \/ (\E pod \in pods : PodKilled(pod)) \/ UNCHANGED vars
    PROVE  Turn'
<1>1. UNCHANGED handlers
    BY DEF PodStep, PodKilled, PodStart, LinkPullRequest, MergePullRequest, vars
<1>2. LeftFew' /\ left'["poll"] = left["poll"]
  <2>1. UNCHANGED left \/ Spend("kill")
      BY DEF PodStep, PodKilled, PodStart, LinkPullRequest, MergePullRequest, vars
  <2> QED BY <2>1, SameLeft, SpentFew DEF EventKinds
<1>3. Heard' = Heard
  <2>1. UNCHANGED pods \/ \E pod \in pods : \E st : PodBecomes(pod, st)
      BY DEF PodStep, PodKilled, PodStart, LinkPullRequest, MergePullRequest, vars
  <2> QED BY <2>1, PodMovesHeard DEF Heard
<1>4. \A c \in Cycles : HeardOnly(Heard, c, runs[c], runs'[c])
  <2>1. ASSUME NEW pod \in pods, NEW row, Write(pod.run, row), row.attempts = runs[pod.run].attempts,
               row.state = runs[pod.run].state, NEW c \in Cycles
        PROVE  HeardOnly(Heard, c, runs[c], runs'[c])
    <3>1. runs'[c] = IF c = pod.run THEN row ELSE runs[c]
        BY <2>1, Parts DEF Write
    <3> QED BY <2>1, <3>1 DEF HeardOnly
  <2>2. CASE UNCHANGED runs
      BY <2>2 DEF HeardOnly
  <2>3. CASE ~UNCHANGED runs
    <3>1. PICK pod \in pods : PodStart(pod) \/ LinkPullRequest(pod)
        BY <2>3 DEF PodStep, PodKilled, MergePullRequest, vars
    <3>2. \/ Write(pod.run, ActiveRow(runs[pod.run], PhaseOf(pod)))
          \/ Write(pod.run, LinkedRow(runs[pod.run]))
        BY <3>1 DEF PodStart, LinkPullRequest
    <3> QED BY <2>1, <3>2, PodFacts, FieldsOnly
  <2> QED BY <2>2, <2>3
<1>5. \A r \in Procs : handlers'[r] = handlers[r]
    BY <1>1
<1> QED BY <1>2, <1>3, <1>4, <1>5, Neutral

-----------------------------------------------------------------------------
\* The end of a run.
LEMMA SettlingTurn ==
    ASSUME Inductive, LedgerKept, Turn, NEW q \in Procs,
           \/ SettleRead(q) \/ AbortRead(q) \/ Patch(q) \/ DropLease(q)
           \/ Unlock(q) \/ ReleaseLease(q) \/ CloseIssue(q)
    PROVE  Turn'
<1> DEFINE h == handlers[q]
<1>0. h \in Handlers
    BY Parts
<1>1. /\ pods' = pods /\ left' = left
      /\ runs' = runs \/ Patch(q)
      /\ Acting(h)
    BY DEF SettleRead, AbortRead, Patch, DropLease, Unlock, ReleaseLease, CloseIssue, At, Acting, Resting
<1>2. \E n : Become(q, n) /\ n.pc \in Free
  <2>1. CASE SettleRead(q) \/ AbortRead(q)
    <3> DEFINE state == runs[h.run].state
               lease == runs[h.run].lease
               n     == [h EXCEPT !.pc = "patch", !.pre = state, !.lease = lease]
               m     == [h EXCEPT !.pc = "release", !.lease = lease]
    <3>1. Become(q, n) \/ Become(q, Idle) \/ Become(q, m)
        BY <2>1 DEF SettleRead, AbortRead
    <3> HIDE DEF state, lease, h
    <3>2. n.pc \in Free /\ m.pc \in Free
        BY <1>0 DEF Handlers, Free
    <3> HIDE DEF n, m
    <3> QED BY <3>1, <3>2, FreeStarts
  <2>2. CASE Patch(q)
      BY <1>0, <2>2, FreeMoves DEF Patch, Free
  <2>3. CASE DropLease(q) \/ Unlock(q) \/ ReleaseLease(q) \/ CloseIssue(q)
    <3>1. \/ Become(q, AfterDrop(h)) \/ Become(q, AfterUnlock(h, Preserve)) \/ Become(q, AfterRelease(h))
          \/ Become(q, Idle)
        BY <2>3 DEF DropLease, Unlock, ReleaseLease, CloseIssue
    <3>2. AfterDrop(h).pc \in Free /\ AfterRelease(h).pc \in Free /\ AfterUnlock(h, Preserve).pc \in Free
      <4>1. [h EXCEPT !.pc = "close"].pc \in Free /\ [h EXCEPT !.pc = "release"].pc \in Free
          BY <1>0, FreeMoves DEF Free
      <4> HIDE DEF h
      <4> QED BY <4>1, FreeStarts DEF AfterDrop, AfterRelease, AfterUnlock
    <3> QED BY <3>1, <3>2, FreeStarts
  <2> QED BY <2>1, <2>2, <2>3
<1>3. PICK n : Become(q, n) /\ n.pc \in Free
    BY <1>2
<1>4. Become(q, n) /\ Apt(runs, Heard, n) /\ Apt(runs', Heard, n)
    BY <1>3, FreeApt
<1>7. Acting(handlers[q])
    BY <1>1
<1> HIDE DEF h
<1>5. CASE runs' = runs
  <2>1. UNCHANGED <<runs, pods, left>>
      BY <1>1, <1>5
  <2> QED BY <1>4, <1>7, <2>1, DrivesOnly
<1>6. CASE Patch(q)
  <2> DEFINE c   == h.run
             row == SettledRow(runs[c], h.end)
  <2>1. Write(c, row) /\ ~At(q, "idle") /\ UNCHANGED <<pods, left>>
      BY <1>6 DEF Patch, At, h
  <2>2. c \in Cycles /\ runs[c] \in Row /\ Exists(runs[c]) /\ h.end \in {"passed", "aborted"}
      BY <1>0, <2>1, AtStep, HandlerFields DEF Busy, h
  <2>3. Milder(c, row)
      BY <2>2, FieldsOnly DEF Milder, Quieter
  <2> HIDE DEF row, c
  <2> QED BY <1>4, <1>7, <2>1, <2>2, <2>3, DrivesRow
<1> QED BY <1>1, <1>5, <1>6

\* A workflow has one gate.
LEMMA OneGate == ASSUME NEW p \in PhaseIds, NEW r \in PhaseIds, IsGate(p), IsGate(r) PROVE p = r
<1> DEFINE gates == {s \in PhaseIds : Purpose(s) = "review_gate"}
<1>1. Cardinality(gates) = 1 /\ Phases \in Seq(PhaseSpec)
    BY WorkflowAssumption DEF ValidWorkflow
<1>2. IsFiniteSet(gates)
  <2>1. Len(Phases) \in Nat /\ PhaseIds = 1..Len(Phases)
      BY <1>1 DEF PhaseIds
  <2>2. IsFiniteSet(PhaseIds)
      BY <2>1, FS_Interval
  <2>3. gates \subseteq PhaseIds
      OBVIOUS
  <2> QED BY <2>2, <2>3, FS_Subset
<1>3. p \in gates /\ r \in gates
    BY DEF IsGate
<1> HIDE DEF gates
<1> QED BY <1>1, <1>2, <1>3, FS_Singleton

\* Before the gate is attempted there is none.
LEMMA NoGateYet ==
    ASSUME NEW as \in Seq(Attempt), NEW p \in PhaseIds \ Attempted(as), IsGate(p) PROVE NoGateIn(as)
<1> SUFFICES ASSUME NEW i \in DOMAIN as, IsGate(as[i].phase) PROVE FALSE
    BY DEF NoGateIn
<1>1. as[i] \in Attempt
  <2>1. i \in 1..Len(as)
      BY LenProperties
  <2> QED BY <2>1, ElementOfSeq
<1>2. as[i].phase \in PhaseIds
    BY <1>1 DEF Attempt
<1>3. as[i].phase = p
    BY <1>2, OneGate
<1> QED BY <1>3 DEF Attempted

\* What was heard of a run is in its row.
LEMMA RecalledRow ==
    ASSUME NEW rows, NEW v \in SUBSET (Cycles \X Nat \X JobIds), Belong(rows, v), NEW c \in Cycles
    PROVE  Recalled(v, c, rows[c].attempts)
<1> SUFFICES ASSUME NEW j \in JobIds, HeardIn(v, c, j)
             PROVE  \E p \in Attempted(rows[c].attempts) : j \in ExpectedJobs(p)
    BY DEF Recalled
<1>1. PICK k \in Nat : <<c, k, j>> \in v
    BY DEF HeardIn
<1>2. k \in DOMAIN rows[c].attempts /\ j \in ExpectedJobs(rows[c].attempts[k].phase)
    BY <1>1 DEF Belong
<1> QED BY <1>2 DEF Attempted

\* What is heard of.
LEMMA HeardType == ASSUME Inductive PROVE Heard \in SUBSET (Cycles \X Nat \X JobIds)
<1> SUFFICES ASSUME NEW t \in Heard PROVE t \in Cycles \X Nat \X JobIds
    OBVIOUS
<1>1. PICK pod \in pods : t = <<pod.run, pod.att, pod.job>>
    BY DEF Heard
<1> QED BY <1>1, PodHeard

\* What is heard of a cycle that is in progress is in its row.
LEMMA RunRecalled == ASSUME Inductive, Turn, NEW c \in Cycles PROVE Recalled(Heard, c, runs[c].attempts)
BY HeardType, RecalledRow DEF Turn

\* The same of another end of its attempts.
LEMMA SameRecalled ==
    ASSUME NEW old, NEW new, SameJobs(old, new), NEW v, NEW c, Recalled(v, c, old.attempts)
    PROVE  Recalled(v, c, new.attempts)
BY SameAttempted DEF Recalled

\* The completion is stamped.
LEMMA StampTurn == ASSUME Inductive, LedgerKept, Turn, NEW q \in Procs, Stamp(q) PROVE Turn'
<1> DEFINE h   == handlers[q]
           c   == h.run
           row == StampedRow(runs[c], h.payload)
           n   == [h EXCEPT !.pc = "decide", !.base = row]
<1>1. h.pc = "stamp" /\ Write(c, row) /\ Become(q, n) /\ UNCHANGED <<pods, left>>
    BY DEF Stamp, At
<1>2. h \in Handlers /\ c \in Cycles /\ Exists(runs[c]) /\ runs[c] \in Row /\ h.payload \in Payload
    BY <1>1, AtStep, Parts, HandlerFields DEF At, Busy
<1>3. h.mode = "advance" /\ Acting(h)
    BY <1>1 DEF Turn, Apt, Remembers, Acting, Resting
<1>4. SameJobs(runs[c], row) /\ row.state = runs[c].state
    BY <1>2, EndsSame
<1> HIDE DEF row
<1>5. Milder(c, row)
    BY <1>4, SameJobsQuieter DEF Milder
<1>6. runs'[c] = row
    BY <1>1, <1>2, Parts DEF Write
<1>7. Recalled(Heard, c, row.attempts)
    BY <1>2, <1>4, RunRecalled, SameRecalled
<1>8. n.pc = "decide" /\ n.mode = "advance" /\ n.run = c /\ n.base = row
    BY <1>2, <1>3 DEF Handlers
<1> HIDE DEF n
<1>9. Apt(runs', Heard, n)
    BY <1>6, <1>7, <1>8 DEF Apt, Remembers, Aims, Holds, Waits, DispatchSteps, Committed
<1> QED BY <1>1, <1>2, <1>3, <1>5, <1>9, DrivesRow

\* Where a decision leads.
LEMMA DecidedApt ==
    ASSUME JobsApart, NEW rows, NEW v, NEW h \in Handlers, h.base.attempts # <<>>, Exists(h.base), h.mode = "advance",
           rows[h.run].attempts \in Seq(Attempt),
           Attempted(rows[h.run].attempts) \subseteq Attempted(h.base.attempts),
           Recalled(v, h.run, h.base.attempts)
    PROVE  Apt(rows, v, Decided(h))
<1> DEFINE verdict == Verdict(h)
           copy    == DecidedCopy(h.base, verdict, h.payload)
           n       == [h EXCEPT !.base = copy]
           t       == DispatchTarget(copy.attempts, verdict)
           mode    == IF verdict = "advance" THEN "advance" ELSE "abort"
           again   == [n EXCEPT !.pc = "recycle", !.mode = "retry"]
           end     == IF verdict = "advance" /\ ~HasAbort(n.base.attempts) /\ n.base.pr
                      THEN "passed" ELSE "aborted"
<1>1. verdict \in Decisions /\ h.base \in Row /\ h.payload \in Payload
    BY DecideType, HandlerFields DEF Verdict
<1>2. SameJobs(h.base, copy) /\ copy \in Row
    BY <1>1, EndsSame, DecidedCopySuccessor DEF Successor
<1>3. copy.attempts \in Seq(Attempt)
    BY <1>2, RowFields
<1>4. Decided(h) = AfterDecision(n, verdict)
    BY DEF Decided
<1> HIDE DEF copy, verdict
<1>5. n \in Handlers /\ n.run = h.run /\ n.base = copy /\ n.mode = "advance"
    BY <1>2 DEF Handlers
<1> HIDE DEF n
<1>6. Recalled(v, n.run, n.base.attempts)
    BY <1>2, <1>5, SameRecalled
<1>7. \/ Decided(h) = again
      \/ t # NoPhase /\ Decided(h) = Dispatching(n, mode, t)
      \/ Decided(h) = Idle
      \/ Decided(h) = Settling(n.run, end)
    BY <1>4, <1>5 DEF AfterDecision
<1>8. Apt(rows, v, again)
  <2>1. again.pc = "recycle" /\ again.run = n.run /\ again.base = n.base
      BY <1>5 DEF Handlers
  <2> HIDE DEF again
  <2> QED BY <1>6, <2>1 DEF Apt, Remembers, Aims, Holds, Waits, Committed
<1>9. ASSUME t # NoPhase PROVE Apt(rows, v, Dispatching(n, mode, t))
  <2>1. t \in PhaseIds \ Attempted(copy.attempts)
      BY <1>9, TargetIsNew
  <2> HIDE DEF t
  <2>2. Unheard(v, n.run, t)
      BY <1>3, <1>5, <1>6, <2>1, RecalledUnheard
  <2>3. t \notin Attempted(rows[n.run].attempts)
      BY <1>2, <1>5, <2>1, SameAttempted
  <2>4. IsGate(t) => NoGateIn(rows[n.run].attempts)
      BY <1>5, <2>1, <2>3, NoGateYet
  <2>5. mode \in Modes
      BY DEF Modes
  <2> QED BY <1>5, <1>6, <2>1, <2>2, <2>4, <2>5, DispatchingApt
<1> HIDE DEF t, mode, end, again
<1> QED BY <1>7, <1>8, <1>9, FreeStarts, FreeApt

\* The decision is made, stamped and routed.
LEMMA MakeDecisionTurn ==
    ASSUME JobsApart, Inductive, LedgerKept, Turn, NEW q \in Procs, MakeDecision(q) PROVE Turn'
<1> DEFINE h   == handlers[q]
           c   == h.run
           row == DecidedRow(runs[c], Verdict(h))
<1>1. h.pc = "decide" /\ Write(c, row) /\ Become(q, Decided(h)) /\ UNCHANGED <<pods, left>>
    BY DEF MakeDecision, At
<1>2. /\ h \in Handlers /\ c \in Cycles /\ Exists(runs[c]) /\ runs[c] \in Row
      /\ h.base.attempts # <<>> /\ Exists(h.base) /\ Verdict(h) \in Decisions
    BY <1>1, AtStep, Parts, DecideType DEF At, Busy, Good, HandlerOK, Verdict
<1>3. /\ h.mode = "advance" /\ Acting(h) /\ Recalled(Heard, c, h.base.attempts)
      /\ Attempted(runs[c].attempts) \subseteq Attempted(h.base.attempts)
    BY <1>1 DEF Turn, Apt, Remembers, Acting, Resting
<1>4. SameJobs(runs[c], row) /\ row.state = runs[c].state /\ row \in Row
    BY <1>2, EndsSame, DecidedSuccessor DEF Successor
<1> HIDE DEF row
<1>5. Milder(c, row)
    BY <1>4, SameJobsQuieter DEF Milder
<1>6. runs'[c] = row
    BY <1>1, <1>2, Parts DEF Write
<1>7. runs'[c].attempts \in Seq(Attempt) /\ Attempted(runs'[c].attempts) = Attempted(runs[c].attempts)
    BY <1>4, <1>6, RowFields, SameAttempted
<1>8. Apt(runs', Heard, Decided(h))
    BY <1>2, <1>3, <1>7, DecidedApt
<1> HIDE DEF h
<1>9. Become(q, Decided(h)) /\ Acting(handlers[q])
    BY <1>1, <1>3 DEF h
<1> QED BY <1>1, <1>2, <1>5, <1>8, <1>9, DrivesRow
-----------------------------------------------------------------------------
\* A new attempt in hand.
LEMMA AppendedApt ==
    ASSUME NEW rows, NEW v, NEW h \in Handlers, NEW p \in PhaseIds, h.target = p, Unheard(v, h.on, p),
           NEW i, i = Latest(rows[h.on]), rows[h.on].attempts[i] = NewAttempt(p),
           h.mode \in {"advance", "retry"} => Recalled(v, h.run, h.base.attempts)
    PROVE  Apt(rows, v, AfterAppend(h, p, i))
<1> DEFINE todo == ExpectedJobs(p) \ SkippedJobs(p)
           step == IF SkippedJobs(p) # {} THEN "skipjobs"
                   ELSE IF h.mode = "admit" THEN "launch" ELSE "lease"
           n    == [h EXCEPT !.att = i, !.todo = todo, !.pc = step]
<1>1. todo \subseteq ExpectedJobs(p) /\ todo \subseteq JobIds /\ todo \cap SkippedJobs(p) = {}
    BY JobsOfPhase
<1>2. todo = {} => ExpectedJobs(p) = {}
  <2>1. Phases[p].jobs # <<>> => ExpectedJobs(p) \ Phases[p].skips # {}
      BY WorkflowAssumption DEF ValidWorkflow
  <2>2. SkippedJobs(p) \subseteq Phases[p].skips
      BY DEF SkippedJobs
  <2>3. Phases[p].jobs = <<>> => ExpectedJobs(p) = {}
      BY DEF ExpectedJobs
  <2> QED BY <2>1, <2>2, <2>3
<1>3. AfterAppend(h, p, i) = n
    BY DEF AfterAppend
<1>4. step \in Committed /\ (step = "launch" => h.mode = "admit")
    BY DEF Committed
<1> HIDE DEF todo, step
<1>5. /\ n.pc = step /\ n.run = h.run /\ n.on = h.on /\ n.att = i /\ n.mode = h.mode
      /\ n.target = p /\ n.todo = todo /\ n.base = h.base
    BY DEF Handlers
<1> HIDE DEF n
<1>6. NewAttempt(p).phase = p /\ \A j \in JobIds : NewAttempt(p).report[j] = NoReport
    BY DEF NewAttempt
<1>7. \A j \in todo : ~HeardIn(v, h.on, j)
    BY <1>1 DEF Unheard
<1>8. InHand(rows[n.on], v, n)
    BY <1>1, <1>2, <1>5, <1>6, <1>7 DEF InHand
<1>9. Holds(rows, v, n)
    BY <1>1, <1>5, <1>8 DEF Holds
<1>10. Remembers(rows, v, n) /\ Aims(rows, v, n) /\ Waits(rows, v, n)
    BY <1>4, <1>5 DEF Remembers, Aims, Waits, Committed
<1> QED BY <1>3, <1>9, <1>10 DEF Apt

\* The attempt of the phase is in the row.
LEMMA AppendAttemptTurn ==
    ASSUME Inductive, LedgerKept, Turn, NEW q \in Procs, AppendAttempt(q) PROVE Turn'
<1> DEFINE h   == handlers[q]
           c   == h.on
           p   == h.target
           row == AppendedRow(runs[c], p)
           i   == Latest(row)
           m   == [h EXCEPT !.pc = "skip"]
<1>1. /\ h.pc = "dispatch" /\ Write(c, row) /\ UNCHANGED <<pods, left>>
      /\ Become(q, IF PhaseRuns(p) THEN AfterAppend(h, p, i) ELSE m)
    BY DEF AppendAttempt, At
<1>2. h \in Handlers /\ c \in Cycles /\ Exists(runs[c]) /\ runs[c] \in Row /\ p \in PhaseIds
    BY <1>1, AtLaunch, Parts DEF Launching
<1>3. /\ Acting(h) /\ Unheard(Heard, c, p)
      /\ h.mode \in {"advance", "retry"} => Recalled(Heard, h.run, h.base.attempts)
    BY <1>1 DEF Turn, Apt, Remembers, Aims, Acting, Resting, DispatchSteps
<1>4. row.attempts = Append(runs[c].attempts, NewAttempt(p)) /\ row.state = runs[c].state
    BY <1>2, Appends
<1>5. i = Len(runs[c].attempts) + 1 /\ row.attempts[i] = NewAttempt(p)
  <2>1. runs[c].attempts \in Seq(Attempt) /\ NewAttempt(p) \in Attempt
      BY <1>2, RowFields, NewAttemptType
  <2>2. row.attempts = Append(runs[c].attempts, NewAttempt(p))
      BY <1>4
  <2> HIDE DEF row, c, p
  <2> QED BY <2>1, <2>2 DEF Latest
<1> HIDE DEF row
<1>6. Milder(c, row)
    BY <1>2, <1>3, <1>4, AppendQuieter DEF Milder
<1>7. runs'[c] = row
    BY <1>1, <1>2, Parts DEF Write
<1>8. Apt(runs', Heard, AfterAppend(h, p, i))
    BY <1>2, <1>3, <1>5, <1>7, AppendedApt
<1>9. Apt(runs', Heard, m)
  <2>1. m.pc = "skip" /\ m.run = h.run /\ m.mode = h.mode /\ m.base = h.base
      BY <1>2 DEF Handlers
  <2> HIDE DEF m
  <2> QED BY <1>3, <2>1 DEF Apt, Remembers, Aims, Holds, Waits, Committed
<1> DEFINE n == IF PhaseRuns(p) THEN AfterAppend(h, p, i) ELSE m
<1>10. Become(q, n) /\ Apt(runs', Heard, n)
    BY <1>1, <1>8, <1>9
<1> HIDE DEF n
<1> QED BY <1>1, <1>2, <1>3, <1>6, <1>10, DrivesRow

\* The phase is skipped as a whole.
LEMMA SkipPhaseTurn ==
    ASSUME JobsApart, Inductive, LedgerKept, Turn, NEW q \in Procs, SkipPhase(q) PROVE Turn'
<1> DEFINE h    == handlers[q]
           c    == h.on
           row  == PhaseSkippedRow(runs[c])
           next == DispatchTarget(row.attempts, "advance")
           m    == [h EXCEPT !.pc = "dispatch", !.target = next]
           n    == IF next = NoPhase THEN Idle ELSE m
<1>1. h.pc = "skip" /\ Write(c, row) /\ UNCHANGED <<pods, left>> /\ Become(q, n)
    BY DEF SkipPhase, At, AfterSkip
<1>2. h \in Handlers /\ c \in Cycles /\ Exists(runs[c]) /\ runs[c] \in Row
    BY <1>1, AtLaunch, Parts DEF Launching
<1>3. /\ Acting(h)
      /\ h.mode \in {"advance", "retry"} => Recalled(Heard, h.run, h.base.attempts)
    BY <1>1 DEF Turn, Apt, Remembers, Acting, Resting, DispatchSteps
<1>4. SameJobs(runs[c], row) /\ row.state = runs[c].state /\ row \in Row
    BY <1>2, EndsSame, PhaseSkippedSuccessor DEF Successor
<1> HIDE DEF row
<1>5. Milder(c, row)
    BY <1>4, SameJobsQuieter DEF Milder
<1>6. runs'[c] = row /\ row.attempts \in Seq(Attempt)
    BY <1>1, <1>2, <1>4, Parts, RowFields DEF Write
<1>7. Recalled(Heard, c, row.attempts)
    BY <1>2, <1>4, RunRecalled, SameRecalled
<1>8. ASSUME next # NoPhase PROVE Apt(runs', Heard, m)
  <2>1. next \in PhaseIds \ Attempted(row.attempts)
      BY <1>8, TargetIsNew
  <2> HIDE DEF next
  <2>2. Unheard(Heard, c, next) /\ (IsGate(next) => NoGateIn(runs'[c].attempts))
      BY <1>6, <1>7, <2>1, RecalledUnheard, NoGateYet
  <2>3. /\ m.pc = "dispatch" /\ m.run = h.run /\ m.mode = h.mode /\ m.base = h.base
        /\ m.on = c /\ m.target = next
      BY <1>2, <2>1 DEF Handlers
  <2> HIDE DEF m
  <2> QED BY <1>3, <2>2, <2>3 DEF Apt, Remembers, Aims, Holds, Waits, Committed
<1>9. Apt(runs', Heard, n)
    BY <1>8, FreeStarts, FreeApt
<1> HIDE DEF n
<1> QED BY <1>1, <1>2, <1>3, <1>5, <1>9, DrivesRow

\* The report of a skipped job, of an attempt that waits for its launch.
LEMMA JobsSkippedQuiet ==
    ASSUME NEW row \in Row, Exists(row), row.attempts # <<>>, NEW v, NEW h, h.todo \subseteq JobIds, InHand(row, v, h),
           h.todo \subseteq ExpectedJobs(h.target), \A j \in h.todo : j \notin SkippedJobs(h.target)
    PROVE  LET new == JobsSkippedRow(row, h.target)
           IN  /\ Quieter(row.attempts, new.attempts, v, h.on)
               /\ new.state = row.state
               /\ InHand(new, v, h)
<1> DEFINE p   == h.target
           i   == Latest(row)
           old == row.attempts[i]
           rep == [j \in JobIds |-> IF j \in SkippedJobs(p) THEN SkippedOutcome ELSE old.report[j]]
           a   == [old EXCEPT !.report = rep]
           new == JobsSkippedRow(row, p)
<1>1. i \in DOMAIN row.attempts
  <2>1. row.attempts \in Seq(Attempt)
      BY RowFields
  <2> QED BY <2>1 DEF Latest
<1>2. /\ h.att = i /\ old.phase = p /\ old \in Attempt
      /\ \A j \in h.todo : old.report[j] = NoReport /\ ~HeardIn(v, h.on, j)
      /\ h.todo = {} => ExpectedJobs(p) = {}
    BY <1>1, AttemptOfRow DEF InHand
<1>3. SkippedOutcome \in Outcome
    BY DEF SkippedOutcome, Outcome, Conclusions, Verifications
<1>4. /\ rep \in [JobIds -> Outcome \union {NoReport}]
      /\ \A j \in JobIds : rep[j] = IF j \in SkippedJobs(p) THEN SkippedOutcome ELSE old.report[j]
    BY <1>2, <1>3 DEF Attempt
<1>5. new = WithReports(row, i, a)
    BY DEF JobsSkippedRow
<1> HIDE DEF rep, old
<1>6. a \in Attempt /\ a.report = rep /\ a.phase = p
    BY <1>2, <1>4 DEF Attempt
<1> HIDE DEF a, new
<1>7. AttemptKept(row.attempts[i], a)
    BY <1>2, <1>4, <1>6 DEF AttemptKept, old
<1>8. /\ new.state = row.state
      /\ DOMAIN new.attempts = DOMAIN row.attempts /\ Len(new.attempts) = Len(row.attempts)
      /\ \A k \in DOMAIN row.attempts : new.attempts[k] = IF k = i THEN a ELSE row.attempts[k]
    BY <1>1, <1>5, <1>6, <1>7, WithReportsAttempts
<1>9. InHand(new, v, h)
  <2>1. \A j \in h.todo : a.report[j] = NoReport /\ ~HeardIn(v, h.on, j)
      BY <1>2, <1>4, <1>6
  <2>2. Latest(new) = i
      BY <1>8 DEF Latest
  <2> QED BY <1>1, <1>2, <1>6, <1>8, <2>1, <2>2 DEF InHand
<1>10. ~Awaiting(new.attempts, v, h.on, i)
  <2>1. CASE h.todo = {}
      BY <1>1, <1>2, <1>6, <1>8, <2>1 DEF Awaiting, AllReported
  <2>2. CASE h.todo # {}
    <3>1. PICK j \in h.todo : TRUE
        BY <2>2
    <3>2. a.report[j] = NoReport /\ ~HeardIn(v, h.on, j) /\ j \in ExpectedJobs(p)
        BY <1>2, <1>4, <1>6, <3>1
    <3>3. ~Speaks(new.attempts, v, h.on, i, j)
        BY <3>2 DEF Speaks, HeardIn
    <3> QED BY <1>1, <1>6, <1>8, <3>2, <3>3 DEF Awaiting
  <2> QED BY <2>1, <2>2
<1>11. ASSUME NEW k \in Nat, k # i, Awaiting(new.attempts, v, h.on, k)
       PROVE  Awaiting(row.attempts, v, h.on, k)
  <2>1. k \in DOMAIN row.attempts /\ new.attempts[k] = row.attempts[k]
      BY <1>8, <1>11 DEF Awaiting
  <2>2. \A j : Speaks(new.attempts, v, h.on, k, j) => Speaks(row.attempts, v, h.on, k, j)
      BY <1>8 DEF Speaks
  <2> QED BY <1>11, <2>1, <2>2 DEF Awaiting
<1> HIDE DEF i
<1>12. Quieter(row.attempts, new.attempts, v, h.on)
    BY <1>10, <1>11 DEF Quieter
<1> QED BY <1>8, <1>9, <1>12 DEF new

\* From one step with the jobs in hand to the next.
LEMMA HeldApt ==
    ASSUME NEW rows, NEW v, NEW h \in Handlers, NEW step \in {"lease", "launch"}, InHand(rows[h.on], v, h),
           h.mode \in {"advance", "retry"} => Recalled(v, h.run, h.base.attempts)
    PROVE  Apt(rows, v, [h EXCEPT !.pc = step])
<1> DEFINE n == [h EXCEPT !.pc = step]
<1>1. /\ n.pc = step /\ n.mode = h.mode /\ n.run = h.run /\ n.on = h.on
      /\ n.base = h.base /\ n.att = h.att /\ n.target = h.target /\ n.todo = h.todo
    BY DEF Handlers
<1> HIDE DEF n
<1>2. InHand(rows[n.on], v, n)
    BY <1>1 DEF InHand
<1>3. Apt(rows, v, n)
    BY <1>1, <1>2 DEF Apt, Remembers, Aims, Holds, Waits
<1> QED BY <1>3 DEF n

\* What a goroutine has in hand.
LEMMA AtHand ==
    ASSUME Inductive, Turn, NEW q \in Procs, handlers[q].pc \in Committed
    PROVE  LET h == handlers[q]
           IN  /\ h \in Handlers /\ Acting(h) /\ h.on \in Cycles /\ Exists(runs[h.on]) /\ runs[h.on] \in Row
               /\ h.att \in DOMAIN runs[h.on].attempts /\ runs[h.on].attempts # <<>>
               /\ h.target \in PhaseIds /\ h.todo \subseteq ExpectedJobs(h.target) /\ h.todo \subseteq JobIds
               /\ InHand(runs[h.on], Heard, h)
               /\ h.mode \in {"advance", "retry"} /\ (h.pc = "launch" => h.todo = {})
                  => Recalled(Heard, h.run, h.base.attempts)
<1> DEFINE h == handlers[q]
<1>1. /\ h \in Handlers /\ Good(runs, h) /\ h.on \in Cycles /\ Exists(runs[h.on]) /\ runs[h.on] \in Row
      /\ h.target \in PhaseIds
    BY Parts, AtLaunch DEF Committed, Launching
<1>2. h.att \in DOMAIN runs[h.on].attempts /\ h.todo \subseteq ExpectedJobs(h.target)
    BY <1>1 DEF Good, HandlerOK, Committed
<1>3. Acting(h)
    BY DEF Acting, Resting, Committed
<1>4. /\ InHand(runs[h.on], Heard, h)
      /\ h.mode \in {"advance", "retry"} /\ (h.pc = "launch" => h.todo = {})
         => Recalled(Heard, h.run, h.base.attempts)
    BY DEF Turn, Apt, Remembers, Holds, DispatchSteps, Committed
<1> HIDE DEF h
<1>5. h.todo \subseteq JobIds /\ runs[h.on].attempts # <<>>
    BY <1>1, <1>2, JobsOfPhase
<1> QED BY <1>1, <1>2, <1>3, <1>4, <1>5 DEF h

\* The skipped jobs are reported.
LEMMA SkipJobsTurn ==
    ASSUME Inductive, LedgerKept, Turn, NEW q \in Procs, SkipJobs(q) PROVE Turn'
<1> DEFINE h    == handlers[q]
           c    == h.on
           row  == JobsSkippedRow(runs[c], h.target)
           step == IF h.mode = "admit" THEN "launch" ELSE "lease"
           n    == [h EXCEPT !.pc = step]
<1>1. h.pc = "skipjobs" /\ UNCHANGED <<pods, left>>
    BY DEF SkipJobs, At
<1>2. /\ h \in Handlers /\ Acting(h) /\ c \in Cycles /\ Exists(runs[c]) /\ runs[c] \in Row
      /\ runs[c].attempts # <<>> /\ h.todo \subseteq ExpectedJobs(h.target) /\ h.todo \subseteq JobIds
      /\ InHand(runs[c], Heard, h)
      /\ h.mode \in {"advance", "retry"} => Recalled(Heard, h.run, h.base.attempts)
    BY <1>1, AtHand DEF Committed
<1>3. \A j \in h.todo : j \notin SkippedJobs(h.target)
    BY <1>1 DEF Turn, Apt, Holds
<1>4. runs[c].attempts[Latest(runs[c])].phase = h.target
    BY <1>2 DEF InHand
<1>5. Write(c, row) /\ Become(q, n)
    BY <1>4 DEF SkipJobs
<1> HIDE DEF h
<1>6. Quieter(runs[c].attempts, row.attempts, Heard, c) /\ row.state = runs[c].state /\ InHand(row, Heard, h)
    BY <1>2, <1>3, JobsSkippedQuiet
<1> HIDE DEF row
<1>7. runs'[c] = row
    BY <1>2, <1>5, Parts DEF Write
<1>8. Apt(runs', Heard, n)
    BY <1>2, <1>6, <1>7, HeldApt
<1> HIDE DEF n
<1>9. Milder(c, row) /\ Acting(handlers[q])
    BY <1>2, <1>6 DEF Milder, h
<1> QED BY <1>1, <1>2, <1>5, <1>8, <1>9, DrivesRow

\* The lease is read, or there is nothing to launch.
LEMMA LaunchPathTurn ==
    ASSUME JobsApart, Inductive, LedgerKept, Turn, NEW q \in Procs, ReadLease(q) \/ LaunchNothing(q) PROVE Turn'
<1> DEFINE h == handlers[q]
           m == [h EXCEPT !.pc = "launch"]
<1>1. /\ h.pc \in Committed /\ (h.pc = "launch" => h.todo = {}) /\ UNCHANGED <<runs, pods, left>>
      /\ Become(q, m) \/ Become(q, AfterFailure(h))
    BY DEF ReadLease, LaunchNothing, At, Committed, AfterLeaseRead
<1>2. /\ h \in Handlers /\ Acting(handlers[q]) /\ InHand(runs[h.on], Heard, h)
      /\ h.mode \in {"advance", "retry"} => Recalled(Heard, h.run, h.base.attempts)
    BY <1>1, AtHand
<1> HIDE DEF h
<1>3. Apt(runs, Heard, m) /\ Apt(runs, Heard, AfterFailure(h))
    BY <1>2, HeldApt, FailureApt
<1> HIDE DEF m
<1>4. CASE Become(q, m)
    BY <1>1, <1>2, <1>3, <1>4, DrivesOnly
<1>5. CASE Become(q, AfterFailure(h))
    BY <1>1, <1>2, <1>3, <1>5, DrivesOnly
<1> QED BY <1>1, <1>4, <1>5

\* A Job more is heard of.
LEMMA LaunchHeard ==
    ASSUME NEW c, NEW i, NEW j, NEW pod, pod.run = c, pod.att = i, pod.job = j, pods' = pods \union {pod}
    PROVE  Heard' = Heard \union {<<c, i, j>>}
BY DEF Heard

\* A Job of the latest attempt makes that attempt awaited, if any.
LEMMA AwaitedLatest ==
    ASSUME NEW rows, NEW v, NEW c, NEW i, NEW j, i = Len(rows[c].attempts),
           NoneAwaited(rows, v), NEW d \in Cycles, NEW k \in Nat,
           Awaiting(rows[d].attempts, v \union {<<c, i, j>>}, d, k)
    PROVE  d = c /\ k = i
<1> DEFINE w  == v \union {<<c, i, j>>}
           as == rows[d].attempts
<1>1. /\ k \in DOMAIN as /\ ~as[k].completed /\ ~AllReported(as[k])
      /\ \A r \in ExpectedJobs(as[k].phase) : as[k].report[r] = NoReport => Speaks(as, w, d, k, r)
    BY DEF Awaiting
<1>2. ~Awaiting(as, v, d, k)
    BY DEF NoneAwaited
<1>3. PICK r \in ExpectedJobs(as[k].phase) : ~Speaks(as, v, d, k, r) /\ Speaks(as, w, d, k, r)
    BY <1>1, <1>2 DEF Awaiting
<1>4. PICK m \in Nat : <<d, m, r>> \in w /\ <<d, m, r>> \notin v /\ (m = k \/ k = Len(as))
    BY <1>3 DEF Speaks
<1>5. d = c /\ m = i
    BY <1>4
<1> QED BY <1>4, <1>5

\* A job is created: the last one passes the turn to the jobs of the attempt.
LEMMA LaunchTurn ==
    ASSUME Inductive, LedgerKept, Turn, NEW q \in Procs, Launch(q) PROVE Turn'
<1> DEFINE h    == handlers[q]
           c    == h.on
           i    == h.att
           j    == FirstJob(h.target, h.todo)
           rest == h.todo \ {j}
           more == [h EXCEPT !.todo = rest]
           n    == IF rest = {} THEN Idle ELSE more
           v    == Heard \union {<<c, i, j>>}
<1>1. /\ h.pc = "launch" /\ h.todo # {} /\ runs' = runs /\ left' = left /\ Become(q, n)
      /\ pods' = pods \union {NextPod(h)}
    BY DEF Launch, At
<1>2. /\ h \in Handlers /\ Acting(h) /\ c \in Cycles /\ runs[c] \in Row
      /\ i \in DOMAIN runs[c].attempts /\ h.target \in PhaseIds
      /\ h.todo \subseteq ExpectedJobs(h.target) /\ h.todo \subseteq JobIds
      /\ InHand(runs[c], Heard, h)
    BY <1>1, AtHand DEF Committed
<1>3. j \in h.todo
    BY <1>1, <1>2, FirstJobIn
<1>4. Heard' = v
  <2>1. NextPod(h).run = c /\ NextPod(h).att = i /\ NextPod(h).job = j
      BY DEF NextPod
  <2> QED BY <1>1, <2>1, LaunchHeard
<1>5. (\A r \in Procs : Acting(handlers[r]) => r = q) /\ NoneAwaited(runs, Heard) /\ NoReview(runs)
      /\ left["poll"] = 0 /\ LeftFew /\ Belong(runs, Heard) /\ Apt(runs, Heard, h)
    BY <1>2 DEF Turn, OneActs, ActsAlone, PollFirst
<1> HIDE DEF h, j
<1>6. i = Len(runs[c].attempts) /\ runs[c].attempts[i].phase = h.target
    BY <1>2 DEF InHand, Latest
<1>7. Belong(runs, v)
    BY <1>2, <1>3, <1>5, <1>6 DEF Belong
<1>8. \A d \in Cycles, k \in Nat : Awaiting(runs[d].attempts, v, d, k) => d = c /\ k = i
    BY <1>5, <1>6, AwaitedLatest
<1>9. Heard \subseteq Heard' /\ LeftFew' /\ left'["poll"] = 0 /\ NoReview(runs') /\ Belong(runs', Heard')
    BY <1>1, <1>4, <1>5, <1>7 DEF LeftFew
<1>10. \A r \in Procs : r # q => ~Acting(handlers[r])
    BY <1>5
<1>11. CASE rest # {}
  <2>1. PICK m \in rest : TRUE
      BY <1>11
  <2>2. \A r \in rest : r \in JobIds /\ r \in ExpectedJobs(h.target)
                        /\ runs[c].attempts[i].report[r] = NoReport /\ ~HeardIn(v, c, r)
    <3>1. \A r \in rest : r \in h.todo /\ r # j
        OBVIOUS
    <3> HIDE DEF rest
    <3>2. \A r \in rest : ~HeardIn(Heard, c, r) /\ runs[c].attempts[i].report[r] = NoReport
        BY <1>2, <3>1 DEF InHand
    <3> QED BY <1>2, <3>1, <3>2 DEF HeardIn
  <2>3. NoneAwaited(runs', Heard')
    <3> SUFFICES ASSUME NEW d \in Cycles, NEW k \in Nat, Awaiting(runs[d].attempts, v, d, k) PROVE FALSE
        BY <1>1, <1>4 DEF NoneAwaited
    <3>1. d = c /\ k = i
        BY <1>8
    <3>2. ~Speaks(runs[c].attempts, v, c, i, m)
        BY <2>1, <2>2 DEF Speaks, HeardIn
    <3> HIDE DEF c, i, rest
    <3> QED BY <1>6, <2>1, <2>2, <3>1, <3>2 DEF Awaiting
  <2>4. Apt(runs', Heard', more)
    <3>1. rest \subseteq JobIds
        BY <1>2
    <3> HIDE DEF rest
    <3>2. /\ more.pc = "launch" /\ more.mode = h.mode /\ more.run = h.run /\ more.on = c
          /\ more.base = h.base /\ more.att = i /\ more.target = h.target /\ more.todo = rest
        BY <1>1, <1>2 DEF Handlers
    <3> HIDE DEF more
    <3>3. InHand(runs'[more.on], v, more)
        BY <1>1, <1>2, <1>11, <2>2, <3>2 DEF InHand
    <3> QED BY <1>4, <1>11, <3>2, <3>3 DEF Apt, Remembers, Aims, Holds, Waits
  <2>5. Become(q, more)
      BY <1>1, <1>11
  <2> HIDE DEF more
  <2> QED BY <1>9, <1>10, <2>3, <2>4, <2>5, TakesOver
<1>12. CASE rest = {}
  <2>1. Become(q, Idle)
      BY <1>1, <1>12
  <2>2. \A r \in Procs : handlers'[r] = IF r = q THEN Idle ELSE handlers[r]
      BY <2>1, Parts DEF Become
  <2>3. \A r \in Procs : ~Acting(handlers'[r])
      BY <1>10, <2>2, FreeStarts
  <2>4. \A r \in Procs : Apt(runs', Heard', handlers'[r])
      BY <1>9, <1>10, <2>2, RestsApt, FreeStarts, FreeApt DEF Turn
  <2>5. OneActs' /\ ActsAlone' /\ PollFirst' /\ ReviewAlone'
      BY <1>9, <2>3 DEF OneActs, ActsAlone, PollFirst, ReviewAlone, NoReview
  <2>6. OneAwaited'
      BY <1>1, <1>4, <1>8 DEF OneAwaited
  <2> QED BY <1>9, <2>4, <2>5, <2>6 DEF Turn
<1> QED BY <1>11, <1>12

\* The run waits for its reviewer, and nobody else has anything to do with it.
LEMMA ParkTurn ==
    ASSUME Inductive, LedgerKept, Turn, NEW q \in Procs, Park(q) PROVE Turn'
<1> DEFINE h   == handlers[q]
           c   == h.on
           p   == h.target
           row == ParkedRow(runs[c], p)
<1>1. h.pc = "dispatch" /\ IsGate(p) /\ Write(c, row) /\ Become(q, Idle) /\ pods' = pods /\ left' = left
    BY DEF Park, At, IsGate
<1>2. h \in Handlers /\ c \in Cycles /\ Exists(runs[c]) /\ runs[c] \in Row /\ p \in PhaseIds
    BY <1>1, AtLaunch, Parts DEF Launching
<1>3. Acting(h) /\ Unheard(Heard, c, p) /\ NoGateIn(runs[c].attempts)
    BY <1>1 DEF Turn, Apt, Aims, Acting, Resting
<1>4. (\A r \in Procs : Acting(handlers[r]) => r = q) /\ NoneAwaited(runs, Heard) /\ NoReview(runs)
      /\ left["poll"] = 0 /\ LeftFew
    BY <1>3 DEF Turn, OneActs, ActsAlone, PollFirst
<1> HIDE DEF h
<1>5. row.attempts = Append(runs[c].attempts, NewAttempt(p))
    BY <1>2, Appends
<1> HIDE DEF row
<1>6. \A d \in Cycles : runs'[d] = IF d = c THEN row ELSE runs[d]
    BY <1>1, Parts DEF Write
<1>7. Heard' = Heard /\ LeftFew' /\ left'["poll"] = 0
    BY <1>1, <1>4 DEF Heard, LeftFew
<1>8. NoneAwaited(runs', Heard')
  <2>1. Quieter(runs[c].attempts, row.attempts, Heard, c)
      BY <1>2, <1>3, <1>5, AppendQuieter
  <2>2. \A d \in Cycles : Quieter(runs[d].attempts, runs'[d].attempts, Heard, d)
      BY <1>6, <2>1 DEF Quieter
  <2> QED BY <1>4, <1>7, <2>2 DEF NoneAwaited, Quieter
<1>9. AtGate(row, Heard, c)
  <2> DEFINE as == runs[c].attempts
             bs == row.attempts
             m  == Len(as)
  <2>1. as \in Seq(Attempt)
      BY <1>2, RowFields
  <2>2. /\ Len(bs) = m + 1 /\ m \in Nat /\ DOMAIN as = 1..m /\ DOMAIN bs = 1..(m + 1)
        /\ bs[m + 1] = NewAttempt(p) /\ \A i \in 1..m : bs[i] = as[i]
      BY <1>5, <2>1, NewAttemptType
  <2>3. \A i \in 1..m : ~IsGate(as[i].phase)
      BY <1>3, <2>2 DEF NoGateIn
  <2>4. NewAttempt(p).phase = p /\ \A j \in ExpectedJobs(p) : NewAttempt(p).report[j] = NoReport
      BY <1>2, JobsOfPhase DEF NewAttempt
  <2>5. Latest(row) = m + 1
      BY <2>2 DEF Latest
  <2> HIDE DEF as, bs, m
  <2>6. \A i \in 1..(m + 1) : IsGate(bs[i].phase) <=> i = m + 1
    <3>1. IsGate(bs[m + 1].phase)
        BY <1>1, <2>2, <2>4
    <3>2. ASSUME NEW i \in 1..(m + 1), i # m + 1 PROVE ~IsGate(bs[i].phase)
      <4>1. i \in 1..m
          BY <2>2, <3>2
      <4> QED BY <2>2, <2>3, <4>1
    <3> QED BY <3>1, <3>2
  <2>7. AtGate(row, Heard, c) <=>
           /\ m + 1 \in DOMAIN bs
           /\ \A i \in DOMAIN bs : IsGate(bs[i].phase) <=> i = m + 1
           /\ \A j \in ExpectedJobs(bs[m + 1].phase) : bs[m + 1].report[j] = NoReport
           /\ Unheard(Heard, c, bs[m + 1].phase)
      BY <2>5 DEF AtGate, bs
  <2> QED BY <1>3, <2>2, <2>4, <2>6, <2>7
<1>10. ReviewAlone'
    BY <1>4, <1>6, <1>7, <1>8, <1>9 DEF ReviewAlone, NoReview
<1>11. \A r \in Procs : handlers'[r] = IF r = q THEN Idle ELSE handlers[r]
    BY <1>1, Parts DEF Become
<1>12. \A r \in Procs : ~Acting(handlers'[r])
    BY <1>4, <1>11, FreeStarts
<1>13. \A r \in Procs : Apt(runs', Heard', handlers'[r])
    BY <1>4, <1>7, <1>11, RestsApt, FreeStarts, FreeApt DEF Turn
<1>14. OneActs' /\ ActsAlone' /\ PollFirst' /\ OneAwaited'
    BY <1>7, <1>8, <1>12 DEF OneActs, ActsAlone, PollFirst, OneAwaited, NoneAwaited
<1>15. Belong(runs', Heard')
    BY <1>7, BelongKept DEF Turn
<1> QED BY <1>7, <1>10, <1>13, <1>14, <1>15 DEF Turn

\* The parent of a retry is marked.
LEMMA RecycleTurn ==
    ASSUME JobsApart, Inductive, LedgerKept, Turn, NEW q \in Procs, Recycle(q) PROVE Turn'
<1> DEFINE h      == handlers[q]
           c      == h.run
           target == RetryTarget(h.base.attempts[Len(h.base.attempts)].phase)
           row    == RecycledRow(runs[c])
           on     == c + 1
           base   == [runs[c] EXCEPT !.attempts = h.base.attempts]
           n      == [h EXCEPT !.pc = "create", !.target = target, !.on = on, !.base = base]
<1>1. /\ h.pc = "recycle" /\ UNCHANGED <<pods, left>>
      /\ \/ Write(c, row) /\ Become(q, n)
         \/ runs' = runs /\ Become(q, AfterFailure(h))
    BY DEF Recycle, At
<1>2. h \in Handlers /\ c \in Cycles /\ Exists(runs[c]) /\ runs[c] \in Row
    BY <1>1, AtStep, Parts DEF At, Busy
<1>3. /\ Acting(h)
      /\ h.mode \in {"advance", "retry"} => Recalled(Heard, c, h.base.attempts)
    BY <1>1 DEF Turn, Apt, Remembers, Acting, Resting, DispatchSteps
<1> HIDE DEF h
<1>4. Milder(c, row)
    BY <1>2, FieldsOnly DEF Milder, Quieter
<1>5. base.attempts = h.base.attempts
    BY <1>2 DEF Row
<1> HIDE DEF row, on, base, target
<1>6. Apt(runs', Heard, n)
  <2>1. n.pc = "create" /\ n.mode = h.mode /\ n.run = c /\ n.base = base
      BY <1>2 DEF Handlers
  <2> HIDE DEF n
  <2> QED BY <1>3, <1>5, <2>1 DEF Apt, Remembers, Aims, Holds, Waits, Committed
<1> HIDE DEF n
<1>7. Apt(runs, Heard, AfterFailure(h)) /\ Acting(handlers[q])
    BY <1>2, <1>3, FailureApt DEF h
<1>8. CASE Write(c, row) /\ Become(q, n)
    BY <1>1, <1>2, <1>4, <1>6, <1>7, <1>8, DrivesRow
<1>9. CASE runs' = runs /\ Become(q, AfterFailure(h))
    BY <1>1, <1>7, <1>9, DrivesOnly
<1> QED BY <1>1, <1>8, <1>9

\* The attempts a recycled cycle starts with await nothing.
LEMMA CarriedIsDone ==
    ASSUME NEW as, NEW p, NEW v, NEW c, NEW i \in Nat PROVE ~Awaiting(CarriedForward(as, p), v, c, i)
<1> SUFFICES ASSUME i \in DOMAIN CarriedForward(as, p) PROVE CarriedForward(as, p)[i].completed
    BY DEF Awaiting
<1> QED BY DEF CarriedForward, NewAttempt

\* The row of the next cycle is created.
LEMMA CreateChildTurn ==
    ASSUME Inductive, LedgerKept, Turn, NEW q \in Procs, CreateChild(q) PROVE Turn'
<1> DEFINE h     == handlers[q]
           c     == h.on
           carry == CarriedForward(h.base.attempts, h.target)
           row   == QueuedRow(h.target, carry, h.base.pr, h.base.cost, h.base.lease)
           lease == h.base.lease
           n     == [h EXCEPT !.pc = "start", !.lease = lease]
<1>1. /\ h.pc = "create" /\ c \in Cycles /\ ~Exists(runs[c]) /\ Write(c, row) /\ Become(q, n)
      /\ UNCHANGED <<pods, left>>
    BY DEF CreateChild, At
<1>2. h \in Handlers /\ h.target \in PhaseIds
    BY <1>1, AtStep, Parts DEF At, Good, HandlerOK
<1>3. /\ Acting(h)
      /\ h.mode \in {"advance", "retry"} => Recalled(Heard, h.run, h.base.attempts)
    BY <1>1 DEF Turn, Apt, Remembers, Acting, Resting, DispatchSteps
<1> HIDE DEF h
<1>4. row.attempts = carry /\ row.state = "queued"
    BY DEF QueuedRow, AbsentRow
<1>5. \A i \in Nat : ~Awaiting(carry, Heard, c, i)
    BY CarriedIsDone
<1> HIDE DEF row, carry, lease
<1>6. Milder(c, row)
    BY <1>4, <1>5 DEF Milder, Quieter
<1>7. Unheard(Heard, c, h.target)
  <2>1. DOMAIN runs[c].attempts = {}
      BY <1>1, Parts, AbsentType DEF RowOK
  <2>2. \A k \in Nat, j \in JobIds : <<c, k, j>> \notin Heard
      BY <1>1, <2>1 DEF Turn, Belong
  <2>3. ExpectedJobs(h.target) \subseteq JobIds
      BY <1>2, JobsOfPhase
  <2> QED BY <2>2, <2>3 DEF Unheard, HeardIn
<1>8. Apt(runs', Heard, n)
  <2>1. /\ n.pc = "start" /\ n.mode = h.mode /\ n.run = h.run /\ n.base = h.base
        /\ n.on = c /\ n.target = h.target
      BY <1>2 DEF Handlers
  <2> HIDE DEF n
  <2> QED BY <1>3, <1>7, <2>1 DEF Apt, Remembers, Aims, Holds, Waits, Committed
<1> HIDE DEF n
<1>9. Acting(handlers[q])
    BY <1>3 DEF h
<1> QED BY <1>1, <1>6, <1>8, <1>9, DrivesRow

\* The last attempt of a ledger is the new one.
LEMMA AppendedLast ==
    ASSUME NEW as \in Seq(Attempt), NEW e \in Attempt PROVE Append(as, e)[Len(Append(as, e))] = e
<1>1. Len(Append(as, e)) = Len(as) + 1 /\ Append(as, e)[Len(as) + 1] = e
    BY AppendProperties
<1> QED BY <1>1

\* The next cycle starts, or somebody was faster.
LEMMA StartTurn ==
    ASSUME JobsApart, Inductive, LedgerKept, Turn, NEW q \in Procs, Start(q) PROVE Turn'
<1> DEFINE h    == handlers[q]
           c    == h.on
           p    == h.target
           row  == StartedRow(runs[c], p, h.lease)
           i    == Latest(row)
           drop == [h EXCEPT !.pc = "drop"]
           lost == IF h.mode # "admit" THEN AfterFailure(h) ELSE IF h.fresh THEN drop ELSE Idle
<1>1. /\ h.pc = "start" /\ UNCHANGED <<pods, left>>
      /\ \/ Write(c, row) /\ Become(q, AfterAppend(h, p, i))
         \/ runs' = runs /\ Become(q, lost)
    BY DEF Start, At
<1>2. /\ h \in Handlers /\ c \in Cycles /\ Exists(runs[c]) /\ runs[c] \in Row /\ p \in PhaseIds
      /\ h.lease \in Nat
    BY <1>1, AtLaunch, Parts, HandlerFields DEF Launching
<1>3. /\ Acting(h) /\ Unheard(Heard, c, p)
      /\ h.mode \in {"advance", "retry"} => Recalled(Heard, h.run, h.base.attempts)
    BY <1>1 DEF Turn, Apt, Remembers, Aims, Acting, Resting, DispatchSteps
<1>4. row.attempts = Append(runs[c].attempts, NewAttempt(p)) /\ row.state = "in_progress"
    BY <1>2, Appends
<1> HIDE DEF row
<1>5. row.attempts[i] = NewAttempt(p)
  <2>1. runs[c].attempts \in Seq(Attempt) /\ NewAttempt(p) \in Attempt
      BY <1>2, RowFields, NewAttemptType
  <2> DEFINE as == runs[c].attempts
             bs == row.attempts
             e  == NewAttempt(p)
  <2>2. bs = Append(as, e) /\ i = Len(bs)
      BY <1>4 DEF Latest
  <2> HIDE DEF as, bs, e
  <2>3. bs[Len(bs)] = e
      BY <2>1, <2>2, AppendedLast DEF as, e
  <2> HIDE DEF i
  <2>4. bs[i] = e
      BY <2>2, <2>3
  <2> QED BY <2>4 DEF bs, e
<1>6. Milder(c, row)
    BY <1>2, <1>3, <1>4, AppendQuieter DEF Milder
<1> HIDE DEF h
<1>7. Acting(handlers[q])
    BY <1>3 DEF h
<1>8. CASE Write(c, row) /\ Become(q, AfterAppend(h, p, i))
  <2>1. runs'[c] = row
      BY <1>2, <1>8, Parts DEF Write
  <2>2. Apt(runs', Heard, AfterAppend(h, p, i))
      BY <1>2, <1>3, <1>5, <2>1, AppendedApt
  <2> QED BY <1>1, <1>2, <1>6, <1>7, <1>8, <2>2, DrivesRow
<1>9. CASE runs' = runs /\ Become(q, lost)
  <2>1. drop.pc \in Free
      BY <1>2, FreeMoves DEF Free
  <2>2. Apt(runs, Heard, drop) /\ Apt(runs, Heard, Idle)
      BY <2>1, FreeStarts, FreeApt
  <2>3. Apt(runs, Heard, AfterFailure(h))
      BY <1>2, <1>3, FailureApt
  <2>4. Apt(runs, Heard, lost)
      BY <2>2, <2>3
  <2> HIDE DEF lost
  <2> QED BY <1>1, <1>7, <1>9, <2>4, DrivesOnly
<1> QED BY <1>1, <1>8, <1>9

\* The queue has a lease, or waits for one.
LEMMA AcquireTurn ==
    ASSUME Inductive, LedgerKept, Turn, NEW q \in Procs, Acquire(q) PROVE Turn'
<1> DEFINE h == handlers[q]
<1>1. h.pc = "acquire" /\ UNCHANGED <<runs, pods, left>>
    BY DEF Acquire, At
<1>2. \/ \E lease, fresh : Become(q, [h EXCEPT !.pc = "start", !.lease = lease, !.fresh = fresh])
      \/ Become(q, Aborting(h.run)) \/ Become(q, Idle)
  <2>0. h \in Handlers
      BY Parts
  <2>1. ASSUME NEW l PROVE [h EXCEPT !.pc = "start", !.lease = l]
                           = [h EXCEPT !.pc = "start", !.lease = l, !.fresh = h.fresh]
    <3> HIDE DEF h
    <3> QED BY <2>0 DEF Handlers
  <2>2. \/ Become(q, [h EXCEPT !.pc = "start", !.lease = h.base.lease])
        \/ \E new : Become(q, [h EXCEPT !.pc = "start", !.lease = new, !.fresh = TRUE])
        \/ Become(q, Aborting(h.run)) \/ Become(q, Idle)
      BY DEF Acquire
  <2>3. [h EXCEPT !.pc = "start", !.lease = h.base.lease]
        = [h EXCEPT !.pc = "start", !.lease = h.base.lease, !.fresh = h.fresh]
      BY <2>1
  <2> QED BY <2>2, <2>3
<1>3. h \in Handlers /\ h.mode = "admit" /\ Acting(handlers[q]) /\ Unheard(Heard, h.on, h.target)
    BY <1>1, Parts DEF Turn, Apt, Remembers, Aims, Acting, Resting
<1> HIDE DEF h
<1>4. ASSUME NEW lease, NEW fresh
      PROVE  Apt(runs, Heard, [h EXCEPT !.pc = "start", !.lease = lease, !.fresh = fresh])
  <2> DEFINE n == [h EXCEPT !.pc = "start", !.lease = lease, !.fresh = fresh]
  <2>1. n.pc = "start" /\ n.mode = "admit" /\ n.on = h.on /\ n.target = h.target
      BY <1>3 DEF Handlers
  <2> HIDE DEF n
  <2>2. Apt(runs, Heard, n)
      BY <1>3, <2>1 DEF Apt, Remembers, Aims, Holds, Waits, Committed
  <2> QED BY <2>2 DEF n
<1>5. Apt(runs, Heard, Aborting(h.run)) /\ Apt(runs, Heard, Idle)
    BY FreeStarts, FreeApt
<1>6. \E n : Become(q, n) /\ Apt(runs, Heard, n)
    BY <1>2, <1>4, <1>5
<1>7. PICK n : Become(q, n) /\ Apt(runs, Heard, n)
    BY <1>6
<1> QED BY <1>1, <1>3, <1>7, DrivesOnly

\* Before a Job is heard of none is awaited.
LEMMA SilenceAwaitsNone == ASSUME Inductive PROVE NoneAwaited(runs, {})
<1> SUFFICES ASSUME NEW c \in Cycles, NEW i \in Nat, Awaiting(runs[c].attempts, {}, c, i) PROVE FALSE
    BY DEF NoneAwaited
<1> DEFINE a == runs[c].attempts[i]
<1>1. i \in DOMAIN runs[c].attempts /\ ~AllReported(a)
    BY DEF Awaiting
<1>2. ExpectedJobs(a.phase) \subseteq JobIds
    BY <1>1, Parts, AttemptOfRow, JobsOfPhase
<1>3. \A j \in ExpectedJobs(a.phase) : a.report[j] # NoReport
    BY DEF Awaiting, Speaks
<1> HIDE DEF a
<1> QED BY <1>1, <1>2, <1>3 DEF AllReported, Reported

\* The queue looks.
LEMMA AdmitTurn ==
    ASSUME Inductive, LedgerKept, Turn, NEW q \in Procs, NEW c \in Cycles, Admit(q, c) PROVE Turn'
<1> DEFINE base  == runs[c]
           entry == runs[c].entry
           n     == [Idle EXCEPT !.pc = "acquire", !.mode = "admit", !.run = c, !.on = c,
                                 !.base = base, !.target = entry]
<1>1. Spend("poll") /\ Become(q, n) /\ UNCHANGED <<runs, pods>>
    BY DEF Admit
<1>2. left["poll"] # 0 /\ LeftFew' /\ left'["poll"] = 0
    BY <1>1, SpentFew DEF EventKinds
<1>3. (\A r \in Procs : ~Acting(handlers[r])) /\ Heard = {} /\ NoReview(runs)
    BY <1>2 DEF Turn, PollFirst
<1>4. Heard' = Heard
    BY <1>1 DEF Heard
<1>5. NoneAwaited(runs', Heard') /\ NoReview(runs') /\ Belong(runs', Heard')
    BY <1>1, <1>3, <1>4, SilenceAwaitsNone, BelongKept DEF Turn
<1> HIDE DEF base, entry
<1>6. n.pc = "acquire" /\ n.mode = "admit" /\ n.on = c
    BY DEF Idle
<1> HIDE DEF n
<1>7. Apt(runs', Heard', n)
    BY <1>3, <1>4, <1>6 DEF Apt, Remembers, Aims, Holds, Waits, Committed, DispatchSteps, Unheard, HeardIn
<1> QED BY <1>1, <1>2, <1>3, <1>4, <1>5, <1>7, TakesOver

\* While a run is in review nobody has the turn.
LEMMA ReviewedRow ==
    ASSUME Inductive, Turn, NEW c \in Cycles, NEW i, CanDecideGate(runs[c], i)
    PROVE  /\ \A r \in Procs : ~Acting(handlers[r])
           /\ NoneAwaited(runs, Heard) /\ AtGate(runs[c], Heard, c) /\ left["poll"] = 0
           /\ \A d \in Cycles : runs[d].state = "review_required" => d = c
           /\ i \in DOMAIN runs[c].attempts /\ i = Latest(runs[c])
<1>1. runs[c].state = "review_required" /\ i \in DOMAIN runs[c].attempts /\ IsGate(runs[c].attempts[i].phase)
    BY DEF CanDecideGate, IsGate
<1>2. /\ NoneAwaited(runs, Heard) /\ AtGate(runs[c], Heard, c)
      /\ \A d \in Cycles : runs[d].state = "review_required" => d = c
    BY <1>1 DEF Turn, ReviewAlone
<1>3. (\A r \in Procs : ~Acting(handlers[r])) /\ left["poll"] = 0
    BY <1>1 DEF Turn, ActsAlone, PollFirst, NoReview
<1>4. i = Latest(runs[c])
    BY <1>1, <1>2 DEF AtGate
<1> QED BY <1>1, <1>2, <1>3, <1>4

\* The reviewer approves: the turn passes to the drain, or the decision comes too late.
LEMMA OpenGateTurn ==
    ASSUME Inductive, LedgerKept, Turn, NEW q \in Procs, OpenGate(q) PROVE Turn'
<1> DEFINE h   == handlers[q]
           c   == h.on
           i   == h.att
           row == ReleasedRow(runs[c], i)
           n   == [h EXCEPT !.pc = "lease"]
<1>1. h.pc = "opengate" /\ pods' = pods /\ left' = left
    BY DEF OpenGate, At
<1>2. h \in Handlers /\ c \in Cycles /\ Exists(runs[c]) /\ runs[c] \in Row /\ h.target \in PhaseIds
    BY <1>1, AtLaunch, Parts DEF Launching
<1>3. Heard' = Heard /\ LeftFew' /\ left'["poll"] = left["poll"]
    BY <1>1, SameLeft DEF Heard
<1>4. CASE ~CanDecideGate(runs[c], i)
  <2>1. Become(q, Idle) /\ UNCHANGED runs
      BY <1>4 DEF OpenGate
  <2> QED BY <1>3, <2>1, FreeStarts, FreeApt, NeutralOnly
<1>5. CASE CanDecideGate(runs[c], i)
  <2>1. Write(c, row) /\ Become(q, n)
      BY <1>5 DEF OpenGate
  <2>2. /\ h.mode = "approve" /\ h.todo = ExpectedJobs(h.target)
        /\ runs[c].attempts[i].phase = h.target
      BY <1>1 DEF Turn, Apt, Waits
  <2> HIDE DEF h
  <2>3. /\ \A r \in Procs : ~Acting(handlers[r])
        /\ NoneAwaited(runs, Heard) /\ AtGate(runs[c], Heard, c) /\ left["poll"] = 0
        /\ \A d \in Cycles : runs[d].state = "review_required" => d = c
        /\ i \in DOMAIN runs[c].attempts /\ i = Latest(runs[c])
      BY <1>2, <1>5, ReviewedRow
  <2>4. row.attempts = runs[c].attempts /\ row.state = "in_progress"
      BY <1>2, FieldsOnly
  <2> HIDE DEF row
  <2>5. \A d \in Cycles : runs'[d] = IF d = c THEN row ELSE runs[d]
      BY <2>1, Parts DEF Write
  <2>6. NoneAwaited(runs', Heard') /\ NoReview(runs')
      BY <1>3, <2>3, <2>4, <2>5 DEF NoneAwaited, NoReview
  <2>7. InHand(runs'[c], Heard, h)
    <3>1. runs'[c] = row /\ Latest(row) = Latest(runs[c])
        BY <1>2, <2>4, <2>5 DEF Latest
    <3>2. \A j \in h.todo : runs[c].attempts[i].report[j] = NoReport /\ ~HeardIn(Heard, c, j)
        BY <2>2, <2>3 DEF AtGate, Unheard
    <3> QED BY <2>2, <2>3, <2>4, <3>1, <3>2 DEF InHand
  <2>8. Apt(runs', Heard, n)
      BY <1>2, <2>2, <2>7, HeldApt
  <2> HIDE DEF n
  <2>9. Belong(runs', Heard')
      BY <1>3, BelongKept DEF Turn
  <2> QED BY <1>3, <2>1, <2>3, <2>6, <2>8, <2>9, TakesOver
<1> QED BY <1>4, <1>5

\* The reviewer cancels.
LEMMA CancelGateTurn ==
    ASSUME JobsApart, Inductive, LedgerKept, Turn, NEW q \in Procs, CancelGate(q) PROVE Turn'
<1> DEFINE h   == handlers[q]
           c   == h.on
           i   == h.att
           row == CancelledRow(runs[c], i)
           t   == DispatchTarget(row.attempts, "abort_requested")
           m   == [h EXCEPT !.base = row]
           n   == IF t = NoPhase THEN Settling(h.run, "aborted") ELSE Dispatching(m, "cancel", t)
<1>1. h.pc = "cancelgate" /\ pods' = pods /\ left' = left
    BY DEF CancelGate, At
<1>2. h \in Handlers /\ c \in Cycles /\ Exists(runs[c]) /\ runs[c] \in Row
    BY <1>1, AtLaunch, Parts DEF Launching
<1>3. Heard' = Heard /\ LeftFew' /\ left'["poll"] = left["poll"]
    BY <1>1, SameLeft DEF Heard
<1>4. CASE ~CanDecideGate(runs[c], i)
  <2>1. Become(q, Idle) /\ UNCHANGED runs
      BY <1>4 DEF CancelGate
  <2> QED BY <1>3, <2>1, FreeStarts, FreeApt, NeutralOnly
<1>5. CASE CanDecideGate(runs[c], i)
  <2>1. Write(c, row) /\ Become(q, n)
      BY <1>5 DEF CancelGate
  <2>2. c = h.run
      BY <1>1 DEF Turn, Apt, Waits
  <2> HIDE DEF h
  <2>3. /\ \A r \in Procs : ~Acting(handlers[r])
        /\ NoneAwaited(runs, Heard) /\ left["poll"] = 0
        /\ \A d \in Cycles : runs[d].state = "review_required" => d = c
        /\ i \in DOMAIN runs[c].attempts
      BY <1>2, <1>5, ReviewedRow
  <2>4. SameJobs(runs[c], row) /\ row.state = "in_progress" /\ row \in Row
    <3>1. row \in Row
        BY <1>2, <2>3, CancelledSuccessor DEF Successor
    <3> QED BY <1>2, <2>3, <3>1, CancelledSame
  <2> HIDE DEF row
  <2>5. \A d \in Cycles : runs'[d] = IF d = c THEN row ELSE runs[d]
      BY <2>1, Parts DEF Write
  <2>6. NoneAwaited(runs', Heard') /\ NoReview(runs')
    <3>1. Quieter(runs[c].attempts, row.attempts, Heard, c)
        BY <2>4, SameJobsQuieter
    <3> QED BY <1>3, <2>3, <2>4, <2>5, <3>1 DEF NoneAwaited, NoReview, Quieter
  <2>7. Recalled(Heard, c, row.attempts) /\ row.attempts \in Seq(Attempt)
      BY <1>2, <2>4, RunRecalled, SameRecalled, RowFields
  <2>8. m \in Handlers /\ m.run = c /\ m.base = row
      BY <1>2, <2>2, <2>4 DEF Handlers
  <2> HIDE DEF m
  <2>9. ASSUME t # NoPhase PROVE Apt(runs', Heard, Dispatching(m, "cancel", t))
    <3>1. t \in PhaseIds \ Attempted(row.attempts) /\ ~IsGate(t)
        BY <2>9, TargetIsNew
    <3> HIDE DEF t
    <3>2. Unheard(Heard, m.run, t)
        BY <2>7, <2>8, <3>1, RecalledUnheard
    <3> QED BY <2>8, <3>1, <3>2, DispatchingApt DEF Modes
  <2>10. Apt(runs', Heard', n)
      BY <1>3, <2>9, FreeStarts, FreeApt
  <2> HIDE DEF n
  <2>11. Belong(runs', Heard')
      BY <1>3, BelongKept DEF Turn
  <2> QED BY <1>3, <2>1, <2>3, <2>6, <2>10, <2>11, TakesOver
<1> QED BY <1>4, <1>5

\* At first the turn is the queue's.
LEMMA InitTurn == ASSUME Undisturbed, Init PROVE Turn
<1>1. left = Limits /\ Heard = {}
    BY DEF Init, Heard
<1>2. \A q \in Procs : handlers[q] = Idle
    BY DEF Init
<1>3. NoReview(runs)
    BY DEF Init, NoReview, QueuedRow, AbsentRow
<1>4. NoneAwaited(runs, Heard)
    BY <1>1, InitInductive, SilenceAwaitsNone
<1>5. LeftFew /\ Belong(runs, Heard)
    BY <1>1 DEF Undisturbed, LeftFew, Belong
<1>6. \A q \in Procs : ~Acting(handlers[q]) /\ Apt(runs, Heard, handlers[q])
    BY <1>2, FreeStarts, FreeApt
<1>7. OneActs /\ ActsAlone /\ OneAwaited /\ ReviewAlone /\ PollFirst
    BY <1>1, <1>3, <1>4, <1>6 DEF OneActs, ActsAlone, OneAwaited, NoneAwaited, ReviewAlone, NoReview, PollFirst
<1> QED BY <1>5, <1>6, <1>7 DEF Turn

\* Every step of a goroutine.
LEMMA ServerTurn ==
    ASSUME JobsApart, Inductive, LedgerKept, Turn, NEW q \in Procs, Server(q) PROVE Turn'
<1>1. CASE \/ SettleRead(q) \/ AbortRead(q) \/ Patch(q) \/ DropLease(q)
           \/ Unlock(q) \/ ReleaseLease(q) \/ CloseIssue(q)
    BY <1>1, SettlingTurn
<1>2. CASE \/ Synthesize(q) \/ TimeoutJob(q) \/ Stamp(q) \/ MakeDecision(q) \/ Park(q)
    BY <1>2, SynthesizeTurn, Undone, StampTurn, MakeDecisionTurn, ParkTurn
<1>3. CASE AppendAttempt(q) \/ SkipPhase(q) \/ SkipJobs(q)
    BY <1>3, AppendAttemptTurn, SkipPhaseTurn, SkipJobsTurn
<1>4. CASE ReadLease(q) \/ Launch(q) \/ LaunchNothing(q)
    BY <1>4, LaunchPathTurn, LaunchTurn
<1>5. CASE Recycle(q) \/ CreateChild(q) \/ Start(q) \/ Acquire(q)
    BY <1>5, RecycleTurn, CreateChildTurn, StartTurn, AcquireTurn
<1>6. CASE OpenGate(q) \/ CancelGate(q)
    BY <1>6, OpenGateTurn, CancelGateTurn
<1>7. CASE \E pod \in pods : Callback(q, pod) \/ Watch(q, pod) \/ Reconcile(q, pod)
    BY <1>7, CallbackTurn, WatchTurn, Undone
<1>8. CASE \E c \in Cycles : \/ DispatchTimeout(q, c) \/ Admit(q, c)
                             \/ Approve(q, c) \/ CancelReview(q, c) \/ AdminAbort(q, c)
  <2> PICK c \in Cycles : \/ DispatchTimeout(q, c) \/ Admit(q, c)
                          \/ Approve(q, c) \/ CancelReview(q, c) \/ AdminAbort(q, c)
      BY <1>8
  <2>1. CASE Approve(q, c)
      BY <2>1, SignalTurn DEF Approve
  <2>2. CASE CancelReview(q, c)
      BY <2>2, SignalTurn DEF CancelReview
  <2>3. CASE DispatchTimeout(q, c) \/ AdminAbort(q, c)
      BY <2>3, Undone
  <2>4. CASE Admit(q, c)
      BY <2>4, AdmitTurn
  <2> QED BY <2>1, <2>2, <2>3, <2>4
<1>9. CASE CallFails(q) \/ Crash(q)
    BY <1>9, Undone, CrashTurn
<1> QED BY <1>1, <1>2, <1>3, <1>4, <1>5, <1>6, <1>7, <1>8, <1>9 DEF Server, HandlerStep

\* Who drives the run has the turn.
LEMMA TurnActs == ASSUME Turn PROVE OneDriver
BY DEF Turn, OneActs, OneDriver, Driving, DispatchSteps, Acting, Resting

\* At most one goroutine acts on the run at a time, for every workflow whose phases share no
\* job id and any number of goroutines, cycles, crashes, killed pods, repeated events and
\* reviews: nothing but the "completion ready" answer, the gate's and the queue's state checks
\* keeps callbacks, watcher, reviewer and queue apart, and together they do.
THEOREM OneGoroutineDrives ==
    ASSUME Undisturbed, JobsApart PROVE Spec => []OneDriver
<1>1. Init => Turn
    BY InitTurn
<1>2. Inductive /\ Turn /\ [Next]_vars => Turn'
  <2> SUFFICES ASSUME Inductive, Turn, [Next]_vars PROVE Turn'
      OBVIOUS
  <2>1. LedgerKept
      BY NextKeeps DEF Preserved
  <2> QED BY <2>1, ServerTurn, PodsTurn DEF Next
<1>3. Turn => OneDriver
    BY TurnActs
<1> QED BY <1>1, <1>2, <1>3, InductiveInvariant, PTL DEF Spec

-----------------------------------------------------------------------------
\* The pods of a run, and the lease it holds.

\* The lease is claimed.
Claimed(ls, l) == l \in LeaseIds /\ ls[l] = "claimed"

\* A cycle has one pod for each job.
OnePod == \A p, r \in pods : p.run = r.run /\ p.job = r.job => p = r

\* A pod at work has not reported.
NothingSaid == \A pod \in LivePods : runs[pod.run].attempts[pod.att].report[pod.job] = NoReport

\* A report that the watcher makes up is of a pod that has ended.
Ended(ps, h) ==
    h.pc = "synth" => \A j \in h.todo : \E pod \in ps : pod.run = h.run /\ pod.job = j /\ pod.st = "seen"

\* While a pod is at work the turn is with whoever creates the pods of its attempt, or with
\* those pods, and its cycle has the lease.
Waited(pod) ==
    /\ \A q \in Procs : Acting(handlers[q]) =>
          handlers[q].pc = "launch" /\ handlers[q].on = pod.run /\ handlers[q].att = pod.att
    /\ NoReview(runs)
    /\ \A c \in Cycles, i \in Nat : Awaiting(runs[c].attempts, Heard, c, i) => c = pod.run /\ i = pod.att
    /\ Claimed(leases, runs[pod.run].lease)

\* The dispatch is not of the queue, which starts with the launch.
Onwards == {"dispatch", "skip", "lease", "recycle", "create"}

\* What a goroutine's copy says of the lease is what the rows say.
Copied(rows, h) ==
    /\ h.pc \in Onwards => h.mode # "admit"
    /\ h.pc \in DispatchSteps \union {"decide"} /\ h.mode # "admit" => h.base.lease = rows[h.run].lease
    /\ h.pc \in {"dispatch", "skip", "skipjobs", "lease"} /\ h.mode # "admit" => h.base.lease = rows[h.on].lease
    /\ h.pc \in {"create", "start"} /\ h.mode # "admit" => h.on # h.run
    /\ h.pc = "start" /\ h.mode # "admit" => h.lease = h.base.lease
    /\ h.pc = "acquire" => h.base.lease \in LeaseIds \union {0}
    /\ h.pc = "opengate" => /\ rows[h.run].state \notin {"absent", "queued"} /\ h.on = h.run
                            /\ h.base.lease = rows[h.run].lease

\* A goroutine that is to launch has made sure of the lease.
Sure(rows, ls, h) ==
    /\ h.pc = "start" /\ h.mode = "admit" => Claimed(ls, h.lease)
    /\ h.pc = "launch" => Claimed(ls, rows[h.on].lease)
    /\ h.pc = "skipjobs" /\ h.mode = "admit" => Claimed(ls, rows[h.on].lease)

\* A goroutine knows the lease of its cycle, and has made sure of it where it launches.
Backed(rows, ls, h) == Copied(rows, h) /\ Sure(rows, ls, h)

\* A cycle has no lease but one of those there are.
LeaseRange == \A c \in Cycles : runs[c].lease \in LeaseIds \union {0}

\* The invariant: pods are at work only for an attempt that is waited for, in an environment
\* that is claimed, and no goroutine acts on a lease its cycle does not have.
Holding ==
    /\ OnePod /\ NothingSaid /\ LeaseRange
    /\ \A pod \in LivePods : Waited(pod)
    /\ \A q \in Procs : Ended(pods, handlers[q]) /\ Backed(runs, leases, handlers[q])
-----------------------------------------------------------------------------
\* A write that leaves the lease of the row alone, and does not put the cycle back in the queue.
Fixed(old, new) ==
    /\ {"lease", "state"} \subseteq DOMAIN new /\ new.lease = old.lease
    /\ old.state \notin {"absent", "queued"} => new.state \notin {"absent", "queued"}

\* Any row is such a write to itself.
LEMMA FixedSame == \A row \in Row : Fixed(row, row)
BY DEF Fixed, Row

\* So is a change of any other field, and of the state to one that is not queued.
LEMMA FixedField ==
    ASSUME NEW old, NEW row, Fixed(old, row)
    PROVE  /\ \A x : /\ Fixed(old, [row EXCEPT !.attempts = x]) /\ Fixed(old, [row EXCEPT !.exec = x])
                     /\ Fixed(old, [row EXCEPT !.cost = x]) /\ Fixed(old, [row EXCEPT !.pr = x])
           /\ \A x : x \notin {"absent", "queued"} => Fixed(old, [row EXCEPT !.state = x])
BY DEF Fixed

\* So is a write of one attempt, or of the state of one phase.
LEMMA FixedParts ==
    ASSUME NEW old, NEW row, Fixed(old, row)
    PROVE  /\ \A i, a : Fixed(old, WithAttempt(row, i, a)) /\ Fixed(old, WithReports(row, i, a))
           /\ \A p, x : Fixed(old, WithExec(row, p, x))
<1>1. ASSUME NEW r, Fixed(old, r), NEW p, NEW x PROVE Fixed(old, WithExec(r, p, x))
  <2> DEFINE ex == [r.exec EXCEPT ![p] = x]
  <2>1. WithExec(r, p, x) = [r EXCEPT !.exec = ex]
      BY DEF WithExec
  <2> HIDE DEF ex
  <2>2. Fixed(old, [r EXCEPT !.exec = ex])
      BY <1>1, FixedField
  <2> QED BY <2>1, <2>2
<1>2. ASSUME NEW i, NEW a PROVE Fixed(old, WithAttempt(row, i, a)) /\ Fixed(old, WithReports(row, i, a))
  <2> DEFINE as  == [row.attempts EXCEPT ![i] = a]
             mid == WithAttempt(row, i, a)
  <2>1. mid = [row EXCEPT !.attempts = as]
      BY DEF WithAttempt
  <2> HIDE DEF as, mid
  <2>2. Fixed(old, [row EXCEPT !.attempts = as])
      BY FixedField
  <2>3. Fixed(old, mid)
      BY <2>1, <2>2
  <2> QED BY <1>1, <2>3 DEF WithReports, mid
<1> QED BY <1>1, <1>2

\* Every write but that of a cycle that starts is one.
LEMMA FixedWrites ==
    ASSUME NEW row \in Row
    PROVE  /\ \A i, j, o : Fixed(row, RecordedRow(row, i, j, o))
           /\ \A p : Fixed(row, JobsSkippedRow(row, p)) /\ Fixed(row, AppendedRow(row, p))
                     /\ Fixed(row, ParkedRow(row, p)) /\ Fixed(row, ActiveRow(row, p))
           /\ \A x : Fixed(row, StampedRow(row, x)) /\ Fixed(row, DecidedRow(row, x))
           /\ \A x, y : Fixed(row, DecidedCopy(row, x, y))
           /\ \A i : Fixed(row, ReleasedRow(row, i)) /\ Fixed(row, CancelledRow(row, i))
           /\ \A end \in {"passed", "aborted"} : Fixed(row, SettledRow(row, end))
           /\ Fixed(row, PhaseSkippedRow(row)) /\ Fixed(row, RecycledRow(row)) /\ Fixed(row, LinkedRow(row))
<1>1. Fixed(row, row)
    BY FixedSame
<1>2. \A i, j, o : Fixed(row, RecordedRow(row, i, j, o))
    BY <1>1, FixedParts DEF RecordedRow
<1>3. \A x, y : Fixed(row, DecidedRow(row, x)) /\ Fixed(row, DecidedCopy(row, x, y))
    BY <1>1, FixedParts DEF DecidedRow, DecidedCopy
<1>4. Fixed(row, PhaseSkippedRow(row))
    BY <1>1, FixedParts DEF PhaseSkippedRow
<1>5. ASSUME NEW x PROVE Fixed(row, StampedRow(row, x))
  <2> DEFINE a    == StampedAttempt(row.attempts[Latest(row)], x)
             mid  == WithAttempt(row, Latest(row), a)
             cost == mid.cost + x.cost
  <2>1. StampedRow(row, x) = [mid EXCEPT !.cost = cost]
      BY DEF StampedRow
  <2>2. Fixed(row, mid)
      BY <1>1, FixedParts
  <2> HIDE DEF mid, cost
  <2>3. Fixed(row, [mid EXCEPT !.cost = cost])
      BY <2>2, FixedField
  <2> QED BY <2>1, <2>3
<1>6. ASSUME NEW p PROVE Fixed(row, JobsSkippedRow(row, p))
  <2> DEFINE a   == row.attempts[Latest(row)]
             rep == [j \in JobIds |-> IF j \in SkippedJobs(p) THEN SkippedOutcome ELSE a.report[j]]
             b   == [a EXCEPT !.report = rep]
  <2>1. JobsSkippedRow(row, p) = WithReports(row, Latest(row), b)
      BY DEF JobsSkippedRow
  <2> HIDE DEF b
  <2> QED BY <1>1, <2>1, FixedParts
<1>7. ASSUME NEW p
      PROVE  Fixed(row, AppendedRow(row, p)) /\ Fixed(row, ParkedRow(row, p)) /\ Fixed(row, ActiveRow(row, p))
  <2> DEFINE as == Append(row.attempts, NewAttempt(p))
             m1 == [row EXCEPT !.attempts = as]
             m2 == [m1 EXCEPT !.state = "review_required"]
  <2>1. AppendedRow(row, p) = WithExec(m1, p, "dispatching")
      BY DEF AppendedRow
  <2>2. ParkedRow(row, p) = WithExec(m2, p, "review_required")
      BY DEF ParkedRow
  <2>3. Fixed(row, m1)
    <3> HIDE DEF as
    <3> QED BY <1>1, FixedField
  <2> HIDE DEF m1
  <2>4. Fixed(row, m2)
      BY <2>3, FixedField
  <2> HIDE DEF m2
  <2> QED BY <1>1, <2>1, <2>2, <2>3, <2>4, FixedParts DEF ActiveRow
<1>8. ASSUME NEW i PROVE Fixed(row, ReleasedRow(row, i)) /\ Fixed(row, CancelledRow(row, i))
  <2> DEFINE mid == [row EXCEPT !.state = "in_progress"]
             a   == [row.attempts[i] EXCEPT !.decision = "abort_requested", !.concl = "cancelled",
                                            !.completed = TRUE]
             p   == row.attempts[i].phase
  <2>1. /\ ReleasedRow(row, i) = WithExec(mid, p, "dispatching")
        /\ CancelledRow(row, i) = WithExec(WithAttempt(mid, i, a), p, "finished")
      BY DEF ReleasedRow, CancelledRow
  <2> HIDE DEF a, p
  <2>2. Fixed(row, mid)
      BY <1>1, FixedField
  <2> HIDE DEF mid
  <2>3. Fixed(row, WithAttempt(mid, i, a))
      BY <2>2, FixedParts
  <2> QED BY <2>1, <2>2, <2>3, FixedParts
<1>9. ASSUME NEW end \in {"passed", "aborted"} PROVE Fixed(row, SettledRow(row, end))
  <2> DEFINE ex  == IF end = "aborted"
                    THEN [p \in PhaseIds |-> IF row.exec[p] \in {"dispatching", "active"}
                                             THEN "finished" ELSE row.exec[p]]
                    ELSE row.exec
             mid == [row EXCEPT !.state = end]
  <2>1. SettledRow(row, end) = [mid EXCEPT !.exec = ex]
      BY DEF SettledRow
  <2> HIDE DEF ex
  <2>2. Fixed(row, mid)
      BY <1>1, FixedField
  <2> HIDE DEF mid
  <2>3. Fixed(row, [mid EXCEPT !.exec = ex])
      BY <2>2, FixedField
  <2> QED BY <2>1, <2>3
<1>10. Fixed(row, RecycledRow(row)) /\ Fixed(row, LinkedRow(row))
    BY <1>1, FixedField DEF RecycledRow, LinkedRow
<1> QED BY <1>2, <1>3, <1>4, <1>5, <1>6, <1>7, <1>8, <1>9, <1>10
-----------------------------------------------------------------------------
\* No row loses its lease, or goes back to the queue.
Steady == \A c \in Cycles : Fixed(runs[c], runs'[c])

\* No cycle that was started does.
StartedSteady ==
    \A c \in Cycles : runs[c].state \notin {"absent", "queued"} => Fixed(runs[c], runs'[c])

\* Where no row changes, no lease is lost.
LEMMA SteadySame == ASSUME Inductive, UNCHANGED runs PROVE Steady
BY Parts, FixedSame DEF Steady

\* A write of one row that leaves its lease alone leaves all leases alone.
LEMMA SteadyWrite ==
    ASSUME Inductive, NEW c \in Cycles, NEW row, Write(c, row), Fixed(runs[c], row) PROVE Steady
<1>1. \A d \in Cycles : runs'[d] = IF d = c THEN row ELSE runs[d]
    BY Parts DEF Write
<1>2. \A d \in Cycles : Fixed(runs[d], runs[d])
    BY Parts, FixedSame
<1> QED BY <1>1, <1>2 DEF Steady

\* Where no lease is lost, the leases stay those there are.
LEMMA SteadyRange ==
    ASSUME Holding, Steady PROVE StartedSteady /\ LeaseRange'
BY DEF Holding, LeaseRange, Steady, StartedSteady, Fixed

\* A goroutine that goes on with what it has keeps its lease.
LEMMA BackedKept ==
    ASSUME Inductive, Steady, UNCHANGED leases, NEW h, Good(runs, h), Backed(runs, leases, h)
    PROVE  Backed(runs', leases', h)
<1>1. /\ h.pc # "idle" => h.run \in Cycles
      /\ h.pc \in Launching => h.on \in Cycles
    BY DEF Good, HandlerOK
<1>2. \A c \in Cycles : /\ runs'[c].lease = runs[c].lease
                        /\ runs[c].state \notin {"absent", "queued"} => runs'[c].state \notin {"absent", "queued"}
    BY DEF Steady, Fixed
<1>3. Copied(runs, h) /\ Sure(runs, leases, h)
    BY DEF Backed
<1>4. Copied(runs', h)
    BY <1>1, <1>2, <1>3 DEF Copied, DispatchSteps, Launching
<1>5. Sure(runs', leases', h)
    BY <1>1, <1>2, <1>3 DEF Sure, Launching
<1> QED BY <1>4, <1>5 DEF Backed

\* So does one that waits for its turn, whatever the leases are.
LEMMA RestsBacked ==
    ASSUME Inductive, StartedSteady, NEW h, Good(runs, h), ~Acting(h), Backed(runs, leases, h)
    PROVE  Backed(runs', leases', h)
<1>1. h.pc \in {"idle", "synth", "opengate", "cancelgate", "timeout"} /\ (h.pc # "idle" => h.run \in Cycles)
    BY DEF Good, HandlerOK, Acting, Resting
<1>2. h.pc = "opengate" => /\ runs[h.run].state \notin {"absent", "queued"} /\ h.on = h.run
                           /\ h.base.lease = runs[h.run].lease
    BY DEF Backed, Copied
<1>3. h.pc = "opengate" => Fixed(runs[h.run], runs'[h.run])
    BY <1>1, <1>2 DEF StartedSteady
<1>4. Copied(runs', h) /\ Sure(runs', leases', h)
    BY <1>1, <1>2, <1>3 DEF Copied, Sure, Fixed, DispatchSteps, Onwards
<1> QED BY <1>4 DEF Backed

\* A pod at work belongs to an attempt and its phase.
LEMMA AtWork ==
    ASSUME Inductive, Turn, NEW pod \in pods
    PROVE  /\ pod.run \in Cycles /\ pod.att \in Nat /\ pod.job \in JobIds
           /\ pod.att \in DOMAIN runs[pod.run].attempts
           /\ pod.job \in ExpectedJobs(runs[pod.run].attempts[pod.att].phase)
<1>1. /\ pod.run \in Cycles /\ pod.att \in Nat /\ pod.job \in JobIds
      /\ pod.att \in DOMAIN runs[pod.run].attempts
      /\ <<pod.run, pod.att, pod.job>> \in Heard
    BY PodHeard
<1> QED BY <1>1 DEF Turn, Belong

\* While a goroutine has the turn no pod is at work, but at a launch.
LEMMA NoneAtWork ==
    ASSUME Inductive, Turn, Holding, NEW q \in Procs, Acting(handlers[q]),
           handlers[q].pc = "launch" => handlers[q].todo = {}
    PROVE  LivePods = {}
<1> SUFFICES ASSUME NEW pod \in LivePods PROVE FALSE
    OBVIOUS
<1> DEFINE h == handlers[q]
<1>1. h.pc = "launch" /\ h.on = pod.run /\ h.att = pod.att /\ h.todo = {}
    BY DEF Holding, Waited
<1>2. InHand(runs[h.on], Heard, h)
    BY <1>1, AtHand DEF Committed
<1> HIDE DEF h
<1>3. ExpectedJobs(runs[pod.run].attempts[pod.att].phase) = {}
    BY <1>1, <1>2 DEF InHand
<1> QED BY <1>3, AtWork DEF LivePods

\* The pods after a step that creates none.
SamePods ==
    /\ OnePod' /\ Heard' = Heard
    /\ \A pod \in pods' : pod.st \in {"created", "running"} =>
          \E old \in LivePods : old.run = pod.run /\ old.att = pod.att /\ old.job = pod.job
    /\ \A pod \in pods : pod.st = "seen" => pod \in pods'

\* Where no pod moves, the pods are the same.
LEMMA PodsStay == ASSUME Holding, UNCHANGED pods PROVE SamePods
<1>1. OnePod' /\ Heard' = Heard
    BY DEF Holding, OnePod, Heard
<1> QED BY <1>1 DEF SamePods, LivePods

\* A pod moves on, and no other does.
LEMMA PodsMove ==
    ASSUME Inductive, Holding, NEW pod \in pods, NEW st, PodBecomes(pod, st),
           st \in {"created", "running"} => pod \in LivePods, pod.st # "seen"
    PROVE  /\ SamePods
           /\ \E new \in pods' : new.run = pod.run /\ new.job = pod.job /\ new.st = st
           /\ st \notin {"created", "running"} => LivePods' = LivePods \ {pod}
<1> DEFINE new == [pod EXCEPT !.st = st]
<1>1. pod \in Pods
    BY Parts
<1>2. new.run = pod.run /\ new.att = pod.att /\ new.job = pod.job /\ new.st = st
    BY <1>1 DEF Pods
<1>3. pods' = (pods \ {pod}) \union {new}
    BY DEF PodBecomes
<1> HIDE DEF new
<1>4. OnePod'
  <2> SUFFICES ASSUME NEW p \in pods', NEW r \in pods', p.run = r.run, p.job = r.job PROVE p = r
      BY DEF OnePod
  <2>1. \A x \in pods \ {pod} : ~(x.run = pod.run /\ x.job = pod.job)
      BY DEF Holding, OnePod
  <2> QED BY <1>2, <1>3, <2>1 DEF Holding, OnePod
<1>5. Heard' = Heard
    BY PodMovesHeard
<1>6. \A p \in pods' : p.st \in {"created", "running"} =>
          \E old \in LivePods : old.run = p.run /\ old.att = p.att /\ old.job = p.job
    BY <1>2, <1>3 DEF LivePods
<1>7. \A p \in pods : p.st = "seen" => p \in pods'
    BY <1>3
<1>8. st \notin {"created", "running"} => LivePods' = LivePods \ {pod}
    BY <1>2, <1>3 DEF LivePods
<1> QED BY <1>2, <1>3, <1>4, <1>5, <1>6, <1>7, <1>8 DEF SamePods

\* What the watcher is about to report has ended.
LEMMA EndedKept == ASSUME SamePods, NEW h, Ended(pods, h) PROVE Ended(pods', h)
BY DEF SamePods, Ended

\* The turn is with one goroutine, and no pod is at work.
LEMMA HandsOn ==
    ASSUME Inductive, Turn, Holding, NEW q \in Procs, NEW n, Become(q, n),
           \A r \in Procs : r # q => ~Acting(handlers[r]),
           SamePods, LivePods' = {}, n.pc # "synth", Backed(runs', leases', n), StartedSteady, LeaseRange'
    PROVE  Holding'
<1>1. \A r \in Procs : handlers'[r] = IF r = q THEN n ELSE handlers[r]
    BY Parts DEF Become
<1>2. \A r \in Procs : Backed(runs', leases', handlers'[r])
  <2> SUFFICES ASSUME NEW r \in Procs, r # q PROVE Backed(runs', leases', handlers[r])
      BY <1>1
  <2> QED BY Parts, RestsBacked DEF Holding
<1>3. \A r \in Procs : Ended(pods', handlers'[r])
  <2>1. Ended(pods', n)
      BY DEF Ended
  <2>2. \A r \in Procs : Ended(pods', handlers[r])
      BY EndedKept DEF Holding
  <2> QED BY <1>1, <2>1, <2>2
<1>4. NothingSaid' /\ \A pod \in LivePods' : Waited(pod)'
    BY DEF NothingSaid
<1>5. OnePod'
    BY DEF SamePods
<1> QED BY <1>2, <1>3, <1>4, <1>5 DEF Holding
\* A step that gives nobody the turn.
LEMMA GoesOn ==
    ASSUME Inductive, Turn, Holding, SamePods, Steady, UNCHANGED leases,
           \A c \in Cycles : HeardOnly(Heard, c, runs[c], runs'[c]), NothingSaid',
           \A r \in Procs : \/ handlers'[r] = handlers[r]
                            \/ /\ ~Acting(handlers'[r]) /\ Ended(pods', handlers'[r])
                               /\ Backed(runs', leases', handlers'[r])
    PROVE  Holding'
<1>1. \A r \in Procs : Ended(pods', handlers'[r])
    BY EndedKept DEF Holding
<1>2. \A r \in Procs : Backed(runs', leases', handlers'[r])
  <2>1. \A r \in Procs : Backed(runs', leases', handlers[r])
      BY Parts, BackedKept DEF Holding
  <2> QED BY <2>1
<1>3. LeaseRange' /\ OnePod'
    BY SteadyRange DEF SamePods
<1>4. ASSUME NEW pod \in LivePods' PROVE Waited(pod)'
  <2>1. PICK old \in LivePods : old.run = pod.run /\ old.att = pod.att
      BY <1>4 DEF LivePods, SamePods
  <2>2. Waited(old) /\ old.run \in Cycles
      BY AtWork DEF Holding, LivePods
  <2>3. \A r \in Procs : Acting(handlers'[r]) =>
            handlers'[r].pc = "launch" /\ handlers'[r].on = pod.run /\ handlers'[r].att = pod.att
    <3>1. \A r \in Procs : Acting(handlers'[r]) => handlers'[r] = handlers[r]
        OBVIOUS
    <3> QED BY <2>1, <2>2, <3>1 DEF Waited
  <2>4. NoReview(runs')
      BY <2>2 DEF Waited, NoReview, HeardOnly
  <2>5. ASSUME NEW c \in Cycles, NEW i \in Nat, Awaiting(runs'[c].attempts, Heard', c, i)
        PROVE  c = pod.run /\ i = pod.att
    <3>1. Quieter(runs[c].attempts, runs'[c].attempts, Heard, c)
        BY Parts, HeardOnlyQuieter
    <3>2. Awaiting(runs[c].attempts, Heard, c, i)
        BY <2>5, <3>1 DEF Quieter, SamePods
    <3> QED BY <2>1, <2>2, <3>2 DEF Waited
  <2>6. Claimed(leases', runs'[pod.run].lease)
      BY <2>1, <2>2 DEF Waited, Steady, Fixed
  <2> QED BY <2>3, <2>4, <2>5, <2>6 DEF Waited
<1> QED BY <1>1, <1>2, <1>3, <1>4 DEF Holding

\* The same of a step that writes no row.
LEMMA GoesOnOnly ==
    ASSUME Inductive, Turn, Holding, SamePods, UNCHANGED <<runs, leases>>,
           NEW q \in Procs, NEW n, Become(q, n), ~Acting(n), Ended(pods', n), Backed(runs, leases, n)
    PROVE  Holding'
<1>1. \A r \in Procs : handlers'[r] = IF r = q THEN n ELSE handlers[r]
    BY Parts DEF Become
<1>2. \A c \in Cycles : HeardOnly(Heard, c, runs[c], runs'[c])
    BY DEF HeardOnly
<1>3. NothingSaid'
  <2> SUFFICES ASSUME NEW pod \in LivePods' PROVE runs[pod.run].attempts[pod.att].report[pod.job] = NoReport
      BY DEF NothingSaid
  <2>1. PICK old \in LivePods : old.run = pod.run /\ old.att = pod.att /\ old.job = pod.job
      BY DEF LivePods, SamePods
  <2> QED BY <2>1 DEF Holding, NothingSaid
<1>4. Backed(runs', leases', n)
    OBVIOUS
<1>5. Steady
    BY SteadySame
<1> QED BY <1>1, <1>2, <1>3, <1>4, <1>5, GoesOn

-----------------------------------------------------------------------------
\* The steps that need no lease.
LEMMA FreeBacked == ASSUME NEW rows, NEW ls, NEW h, h.pc \in Free PROVE Backed(rows, ls, h) /\ Ended(pods', h)
BY DEF Free, Backed, Copied, Sure, Ended, DispatchSteps, Onwards

\* A dispatch on a copy that has the lease of its cycle.
LEMMA DispatchingBacked ==
    ASSUME NEW rows, NEW ls, NEW h \in Handlers, NEW mode \in Modes, mode # "admit", NEW p,
           h.base.lease = rows[h.run].lease
    PROVE  Backed(rows, ls, Dispatching(h, mode, p))
<1> DEFINE run == h.run
           n   == [h EXCEPT !.pc = "dispatch", !.mode = mode, !.on = run, !.target = p]
<1>1. Dispatching(h, mode, p) = n
    BY DEF Dispatching
<1> HIDE DEF run
<1>2. n.pc = "dispatch" /\ n.mode = mode /\ n.run = h.run /\ n.on = run /\ n.base = h.base
    BY DEF Handlers
<1> HIDE DEF n
<1>3. Copied(rows, n) /\ Sure(rows, ls, n)
    BY <1>2 DEF Copied, Sure, run
<1> QED BY <1>1, <1>3 DEF Backed

\* What a goroutine does when a dispatch failed.
LEMMA FailureBacked ==
    ASSUME NEW rows, NEW ls, NEW h \in Handlers, h.mode # "admit" => h.base.lease = rows[h.run].lease
    PROVE  Backed(rows, ls, AfterFailure(h))
<1> DEFINE as == h.base.attempts
           t  == DispatchTarget(as, "abort_malformed")
<1>1. h.mode \in Modes
    BY HandlerFields
<1>2. [h EXCEPT !.pc = "dropabort"].pc \in Free
    BY FreeMoves DEF Free
<1>3. CASE h.mode \in {"advance", "retry"}
  <2>1. AfterFailure(h) = CleaningUp(h)
      BY <1>3 DEF AfterFailure
  <2>2. CleaningUp(h) = IF t # NoPhase THEN Dispatching(h, "cleanup", t)
                        ELSE IF HasInFlight(as) THEN Idle ELSE Settling(h.run, "aborted")
      BY DEF CleaningUp
  <2>3. Backed(rows, ls, Dispatching(h, "cleanup", t))
      BY <1>3, DispatchingBacked DEF Modes
  <2>4. Backed(rows, ls, Idle) /\ Backed(rows, ls, Settling(h.run, "aborted"))
      BY FreeStarts, FreeBacked
  <2> HIDE DEF t, as
  <2> QED BY <2>1, <2>2, <2>3, <2>4
<1>4. CASE h.mode \notin {"advance", "retry"}
  <2>1. AfterFailure(h).pc \in Free
      BY <1>1, <1>2, <1>4, FreeStarts DEF AfterFailure, Modes
  <2> QED BY <2>1, FreeBacked
<1> QED BY <1>3, <1>4

\* A new attempt in hand.
LEMMA AppendedBacked ==
    ASSUME NEW rows, NEW ls, NEW h \in Handlers, NEW p \in PhaseIds, NEW i,
           h.mode # "admit" => /\ h.base.lease = rows[h.run].lease
                               /\ h.base.lease = rows[h.on].lease,
           h.mode = "admit" => Claimed(ls, rows[h.on].lease)
    PROVE  Backed(rows, ls, AfterAppend(h, p, i))
<1> DEFINE todo == ExpectedJobs(p) \ SkippedJobs(p)
           step == IF SkippedJobs(p) # {} THEN "skipjobs"
                   ELSE IF h.mode = "admit" THEN "launch" ELSE "lease"
           n    == [h EXCEPT !.att = i, !.todo = todo, !.pc = step]
<1>1. AfterAppend(h, p, i) = n
    BY DEF AfterAppend
<1>2. step \in Committed /\ (step = "launch" => h.mode = "admit") /\ (step = "lease" => h.mode # "admit")
    BY DEF Committed
<1> HIDE DEF todo, step
<1>3. n.pc = step /\ n.run = h.run /\ n.on = h.on /\ n.mode = h.mode /\ n.base = h.base
    BY DEF Handlers
<1> HIDE DEF n
<1>4. Copied(rows, n) /\ Sure(rows, ls, n)
    BY <1>2, <1>3 DEF Copied, Sure, Committed, DispatchSteps, Onwards
<1> QED BY <1>1, <1>4 DEF Backed

-----------------------------------------------------------------------------
\* The report that makes the set complete is one that the jobs there are could still make.
LEMMA ReadyWasAwaited ==
    ASSUME Inductive, LedgerKept, NEW c \in Cycles, Exists(runs[c]), NEW i, NEW j \in JobIds, NEW o \in Outcome,
           CanRecord(runs[c], i, j), Write(c, RecordedRow(runs[c], i, j, o)),
           Speaks(runs[c].attempts, Heard, c, i, j), CompletionReady(RecordedRow(runs[c], i, j, o), i)
    PROVE  Awaiting(runs[c].attempts, Heard, c, i)
<1> DEFINE row == RecordedRow(runs[c], i, j, o)
<1>1. runs'[c] = row /\ ~AllReported(runs[c].attempts[i]) /\ i \in Nat
    BY RecordRows
<1>0. runs[c] \in Row
    BY Parts
<1>2. /\ HeardOnly(Heard, c, runs[c], row)
      /\ \A k \in JobIds \ {j} : row.attempts[i].report[k] = runs[c].attempts[i].report[k]
    BY <1>0, RecordedHeard
<1>3. i \in DOMAIN runs[c].attempts /\ ~runs[c].attempts[i].completed
    BY DEF CanRecord
<1>4. AllReported(runs'[c].attempts[i])
    BY <1>1 DEF CompletionReady
<1> HIDE DEF row
<1>5. runs'[c].attempts[i].phase = runs[c].attempts[i].phase
    BY <1>3, PhasesKept
<1>6. \A k \in ExpectedJobs(runs[c].attempts[i].phase) \ {j} : runs[c].attempts[i].report[k] # NoReport
  <2> SUFFICES ASSUME NEW k \in ExpectedJobs(runs[c].attempts[i].phase) \ {j}
               PROVE  runs[c].attempts[i].report[k] # NoReport
      OBVIOUS
  <2>1. k \in JobIds /\ runs'[c].attempts[i].report[k] # NoReport
      BY <1>4, <1>5 DEF AllReported, Reported
  <2> QED BY <1>1, <1>2, <2>1
<1> QED BY <1>1, <1>3, <1>6 DEF Awaiting

\* A report is of one job of one attempt.
LEMMA RecordedElse ==
    ASSUME NEW row \in Row, Exists(row), NEW i, NEW j \in JobIds, NEW o \in Outcome, CanRecord(row, i, j),
           NEW k \in DOMAIN row.attempts, NEW m \in JobIds, ~(k = i /\ m = j)
    PROVE  RecordedRow(row, i, j, o).attempts[k].report[m] = row.attempts[k].report[m]
<1> DEFINE old == row.attempts[i]
           rep == [old.report EXCEPT ![j] = o]
           a   == [old EXCEPT !.report = rep]
           new == RecordedRow(row, i, j, o)
<1>1. /\ i \in DOMAIN row.attempts /\ old \in Attempt /\ old.report \in [JobIds -> Outcome \union {NoReport}]
      /\ old.report[j] = NoReport
    BY AttemptOfRow DEF CanRecord
<1>2. rep \in [JobIds -> Outcome \union {NoReport}] /\ rep[j] = o /\ \A x \in JobIds \ {j} : rep[x] = old.report[x]
    BY <1>1
<1>3. new = WithReports(row, i, a)
    BY DEF RecordedRow
<1> HIDE DEF rep, old
<1>4. a \in Attempt /\ a.report = rep /\ a.phase = old.phase
    BY <1>1, <1>2 DEF Attempt
<1> HIDE DEF a, new
<1>5. AttemptKept(row.attempts[i], a)
    BY <1>1, <1>2, <1>4 DEF AttemptKept, old
<1>6. new.attempts[k] = IF k = i THEN a ELSE row.attempts[k]
    BY <1>1, <1>3, <1>4, <1>5, WithReportsAttempts
<1> QED BY <1>2, <1>4, <1>6 DEF new, old

\* A report of a job whose pod is no longer at work.
LEMMA RecordHolds ==
    ASSUME Inductive, LedgerKept, Turn, Holding, NEW q \in Procs, ~Acting(handlers[q]), SamePods, UNCHANGED leases,
           NEW c \in Cycles, Exists(runs[c]), NEW i, NEW j \in JobIds, NEW o \in Outcome,
           Record(q, c, i, j, o), Speaks(runs[c].attempts, Heard, c, i, j),
           \A pod \in LivePods' : ~(pod.run = c /\ pod.job = j)
    PROVE  Holding'
<1> DEFINE row == RecordedRow(runs[c], i, j, o)
           agg == Aggregate(row.attempts[i])
<1>0. runs[c] \in Row
    BY Parts
<1>1. CASE ~CanRecord(runs[c], i, j)
  <2>1. Become(q, Idle) /\ UNCHANGED runs
      BY <1>1 DEF Record
  <2> QED BY <2>1, FreeStarts, FreeBacked, GoesOnOnly
<1>2. CASE CanRecord(runs[c], i, j)
  <2>1. Write(c, row) /\ i \in DOMAIN runs[c].attempts
      BY <1>2 DEF Record, CanRecord
  <2>2. runs'[c] = row /\ i \in Nat
      BY <1>2, <2>1, RecordRows
  <2>3. Steady
      BY <1>0, <2>1, FixedWrites, SteadyWrite
  <2>4. \A d \in Cycles : runs'[d] = IF d = c THEN row ELSE runs[d]
      BY <2>1, Parts DEF Write
  <2>5. \A d \in Cycles : HeardOnly(Heard, d, runs[d], runs'[d])
    <3>1. HeardOnly(Heard, c, runs[c], row)
        BY <1>0, <1>2, RecordedHeard
    <3> HIDE DEF row
    <3> QED BY <2>4, <3>1 DEF HeardOnly
  <2>6. NothingSaid'
    <3> SUFFICES ASSUME NEW pod \in LivePods'
                 PROVE  runs'[pod.run].attempts[pod.att].report[pod.job] = NoReport
        BY DEF NothingSaid
    <3>1. PICK old \in LivePods : old.run = pod.run /\ old.att = pod.att /\ old.job = pod.job
        BY DEF LivePods, SamePods
    <3>2. /\ pod.run \in Cycles /\ pod.att \in DOMAIN runs[pod.run].attempts /\ pod.job \in JobIds
          /\ runs[pod.run].attempts[pod.att].report[pod.job] = NoReport
        BY <3>1, AtWork DEF LivePods, Holding, NothingSaid
    <3>3. CASE pod.run # c
        BY <2>4, <3>2, <3>3
    <3>4. CASE pod.run = c
      <4>1. row.attempts[pod.att].report[pod.job] = runs[c].attempts[pod.att].report[pod.job]
          BY <1>0, <1>2, <3>2, <3>4, RecordedElse
      <4> HIDE DEF row
      <4> QED BY <2>2, <3>2, <3>4, <4>1
    <3> QED BY <3>3, <3>4
  <2>7. CASE ~CompletionReady(row, i)
    <3>1. Become(q, Idle)
        BY <1>2, <2>7 DEF Record
    <3>2. \A r \in Procs : handlers'[r] = IF r = q THEN Idle ELSE handlers[r]
        BY <3>1, Parts DEF Become
    <3>3. \A r \in Procs : \/ handlers'[r] = handlers[r]
                           \/ /\ ~Acting(handlers'[r]) /\ Ended(pods', handlers'[r])
                              /\ Backed(runs', leases', handlers'[r])
        BY <3>2, FreeStarts, FreeBacked
    <3> QED BY <2>3, <2>5, <2>6, <3>3, GoesOn
  <2>8. CASE CompletionReady(row, i)
    <3>1. Become(q, Stamping(c, agg))
        BY <1>2, <2>8 DEF Record
    <3>2. Awaiting(runs[c].attempts, Heard, c, i)
        BY <1>2, <2>1, <2>8, ReadyWasAwaited
    <3> HIDE DEF row, agg
    <3>3. AllReported(runs'[c].attempts[i])
        BY <2>2, <2>8 DEF CompletionReady
    <3>4. \A r \in Procs : ~Acting(handlers[r])
        BY <2>2, <3>2 DEF Turn, ActsAlone, NoneAwaited
    <3>5. LivePods' = {}
      <4> SUFFICES ASSUME NEW pod \in LivePods' PROVE FALSE
          OBVIOUS
      <4>1. PICK old \in LivePods : old.run = pod.run /\ old.att = pod.att /\ old.job = pod.job
          BY DEF LivePods, SamePods
      <4>2. c = pod.run /\ i = pod.att
          BY <2>2, <3>2, <4>1 DEF Holding, Waited
      <4>3. pod.job \in ExpectedJobs(runs[c].attempts[i].phase) /\ pod.job \in JobIds
          BY <4>1, <4>2, AtWork DEF LivePods
      <4>4. runs'[c].attempts[i].phase = runs[c].attempts[i].phase
          BY <2>1, PhasesKept
      <4>5. runs'[c].attempts[i].report[pod.job] = NoReport
          BY <2>6, <4>2 DEF NothingSaid
      <4> QED BY <3>3, <4>3, <4>4, <4>5 DEF AllReported, Reported
    <3>6. Stamping(c, agg).pc = "stamp"
        BY DEF Stamping, Idle
    <3> DEFINE n == Stamping(c, agg)
    <3> HIDE DEF n
    <3>7. n.pc = "stamp" /\ Become(q, n)
        BY <3>1, <3>6 DEF n
    <3>8. Backed(runs', leases', n)
        BY <3>7 DEF Backed, Copied, Sure, DispatchSteps, Onwards
    <3> QED BY <2>3, <3>4, <3>5, <3>7, <3>8, SteadyRange, HandsOn
  <2> QED BY <2>7, <2>8
<1> QED BY <1>1, <1>2
-----------------------------------------------------------------------------
\* What the rows say of the lease stays.
LEMMA LeaseStays == ASSUME Steady PROVE \A c \in Cycles : runs'[c].lease = runs[c].lease
BY DEF Steady, Fixed

\* A step of the goroutine whose turn it is, that starts no cycle.
LEMMA ActsOn ==
    ASSUME Inductive, Turn, Holding, NEW q \in Procs, Acting(handlers[q]),
           handlers[q].pc = "launch" => handlers[q].todo = {},
           NEW n, Become(q, n), n.pc # "synth", UNCHANGED pods, Backed(runs', leases', n),
           StartedSteady, LeaseRange'
    PROVE  Holding'
<1>1. \A r \in Procs : r # q => ~Acting(handlers[r])
    BY DEF Turn, OneActs
<1>2. LivePods' = {}
  <2>1. LivePods = {}
      BY NoneAtWork
  <2> QED BY <2>1 DEF LivePods
<1>3. SamePods
    BY PodsStay
<1> QED BY <1>1, <1>2, <1>3, HandsOn

\* The same with the row it writes.
LEMMA ActsRow ==
    ASSUME Inductive, Turn, Holding, NEW q \in Procs, Acting(handlers[q]), handlers[q].pc # "launch",
           NEW n, Become(q, n), n.pc # "synth", UNCHANGED pods,
           NEW c \in Cycles, NEW row, Write(c, row), Fixed(runs[c], row),
           Steady => Backed(runs', leases', n)
    PROVE  Holding'
<1>1. Steady
    BY SteadyWrite
<1>2. StartedSteady /\ LeaseRange'
    BY <1>1, SteadyRange
<1> QED BY <1>1, <1>2, ActsOn

\* And without one.
LEMMA ActsOnly ==
    ASSUME Inductive, Turn, Holding, NEW q \in Procs, Acting(handlers[q]),
           handlers[q].pc = "launch" => handlers[q].todo = {},
           NEW n, Become(q, n), n.pc # "synth", UNCHANGED <<runs, pods>>, Backed(runs, leases', n)
    PROVE  Holding'
<1>1. StartedSteady /\ LeaseRange'
    BY SteadySame, SteadyRange
<1>2. Backed(runs', leases', n)
    OBVIOUS
<1> QED BY <1>1, <1>2, ActsOn

\* The free steps.
LEMMA FreeSynth == ASSUME NEW n, n.pc \in Free PROVE n.pc # "synth"
BY DEF Free

\* On the way to a launch.
LEMMA OnwardBacked ==
    ASSUME NEW rows, NEW ls, NEW n, n.pc \in {"dispatch", "skip", "lease"}, n.mode # "admit",
           n.base.lease = rows[n.run].lease, n.base.lease = rows[n.on].lease
    PROVE  Backed(rows, ls, n)
BY DEF Backed, Copied, Sure, DispatchSteps

\* At the launch.
LEMMA LaunchBacked ==
    ASSUME NEW rows, NEW ls, NEW n, n.pc = "launch", n.mode # "admit" => n.base.lease = rows[n.run].lease,
           Claimed(ls, rows[n.on].lease)
    PROVE  Backed(rows, ls, n)
BY DEF Backed, Copied, Sure, DispatchSteps, Onwards

-----------------------------------------------------------------------------
\* The end of a run needs no lease.
LEMMA SettlingHolds ==
    ASSUME Inductive, LedgerKept, Turn, Holding, NEW q \in Procs,
           \/ SettleRead(q) \/ AbortRead(q) \/ Patch(q) \/ DropLease(q)
           \/ Unlock(q) \/ ReleaseLease(q) \/ CloseIssue(q)
    PROVE  Holding'
<1> DEFINE h == handlers[q]
<1>0. h \in Handlers
    BY Parts
<1>1. /\ pods' = pods
      /\ runs' = runs \/ Patch(q)
      /\ Acting(h) /\ h.pc # "launch"
    BY DEF SettleRead, AbortRead, Patch, DropLease, Unlock, ReleaseLease, CloseIssue, At, Acting, Resting
<1>2. \E n : Become(q, n) /\ n.pc \in Free
  <2>1. CASE SettleRead(q) \/ AbortRead(q)
    <3> DEFINE state == runs[h.run].state
               lease == runs[h.run].lease
               n     == [h EXCEPT !.pc = "patch", !.pre = state, !.lease = lease]
               m     == [h EXCEPT !.pc = "release", !.lease = lease]
    <3>1. Become(q, n) \/ Become(q, Idle) \/ Become(q, m)
        BY <2>1 DEF SettleRead, AbortRead
    <3> HIDE DEF state, lease, h
    <3>2. n.pc \in Free /\ m.pc \in Free
        BY <1>0 DEF Handlers, Free
    <3> HIDE DEF n, m
    <3> QED BY <3>1, <3>2, FreeStarts
  <2>2. CASE Patch(q)
      BY <1>0, <2>2, FreeMoves DEF Patch, Free
  <2>3. CASE DropLease(q) \/ Unlock(q) \/ ReleaseLease(q) \/ CloseIssue(q)
    <3>1. \/ Become(q, AfterDrop(h)) \/ Become(q, AfterUnlock(h, Preserve)) \/ Become(q, AfterRelease(h))
          \/ Become(q, Idle)
        BY <2>3 DEF DropLease, Unlock, ReleaseLease, CloseIssue
    <3>2. AfterDrop(h).pc \in Free /\ AfterRelease(h).pc \in Free /\ AfterUnlock(h, Preserve).pc \in Free
      <4>1. [h EXCEPT !.pc = "close"].pc \in Free /\ [h EXCEPT !.pc = "release"].pc \in Free
          BY <1>0, FreeMoves DEF Free
      <4> HIDE DEF h
      <4> QED BY <4>1, FreeStarts DEF AfterDrop, AfterRelease, AfterUnlock
    <3> QED BY <3>1, <3>2, FreeStarts
  <2> QED BY <2>1, <2>2, <2>3
<1>3. PICK n : Become(q, n) /\ n.pc \in Free
    BY <1>2
<1>4. /\ Become(q, n) /\ Backed(runs, leases', n) /\ Backed(runs', leases', n) /\ n.pc # "synth"
      /\ Acting(handlers[q]) /\ handlers[q].pc # "launch" /\ pods' = pods
    BY <1>1, <1>3, FreeBacked, FreeSynth
<1> HIDE DEF h
<1>5. CASE runs' = runs
    BY <1>4, <1>5, ActsOnly
<1>6. CASE Patch(q)
  <2> DEFINE c   == h.run
             row == SettledRow(runs[c], h.end)
  <2>1. Write(c, row) /\ ~At(q, "idle")
      BY <1>6 DEF Patch, At, h
  <2>2. c \in Cycles /\ runs[c] \in Row /\ h.end \in {"passed", "aborted"}
      BY <1>0, <2>1, AtStep, HandlerFields DEF Busy, h
  <2>3. Fixed(runs[c], row)
      BY <2>2, FixedWrites
  <2> HIDE DEF row, c
  <2> QED BY <1>4, <2>1, <2>2, <2>3, ActsRow
<1> QED BY <1>1, <1>5, <1>6

\* The completion is stamped.
LEMMA StampHolds == ASSUME Inductive, Turn, Holding, NEW q \in Procs, Stamp(q) PROVE Holding'
<1> DEFINE h   == handlers[q]
           c   == h.run
           row == StampedRow(runs[c], h.payload)
           n   == [h EXCEPT !.pc = "decide", !.base = row]
<1>1. h.pc = "stamp" /\ Write(c, row) /\ Become(q, n) /\ UNCHANGED <<pods, leases>> /\ Acting(h)
    BY DEF Stamp, At, Acting, Resting
<1>2. h \in Handlers /\ c \in Cycles /\ runs[c] \in Row
    BY <1>1, AtStep, Parts DEF At, Busy
<1>3. Fixed(runs[c], row)
    BY <1>2, FixedWrites
<1> HIDE DEF row
<1>4. runs'[c] = row
    BY <1>1, <1>2, Parts DEF Write
<1>5. n.pc = "decide" /\ n.run = c /\ n.base = row
    BY <1>2 DEF Handlers
<1> HIDE DEF n
<1>6. Backed(runs', leases', n)
    BY <1>4, <1>5 DEF Backed, Copied, Sure, Onwards
<1> HIDE DEF c
<1> QED BY <1>1, <1>2, <1>3, <1>5, <1>6, ActsRow

\* Where a decision leads.
LEMMA DecidedBacked ==
    ASSUME NEW rows, NEW ls, NEW h \in Handlers, h.base.attempts # <<>>, Exists(h.base),
           h.base.lease = rows[h.run].lease
    PROVE  Backed(rows, ls, Decided(h)) /\ Decided(h).pc # "synth"
<1> DEFINE verdict == Verdict(h)
           copy    == DecidedCopy(h.base, verdict, h.payload)
           n       == [h EXCEPT !.base = copy]
           t       == DispatchTarget(copy.attempts, verdict)
           mode    == IF verdict = "advance" THEN "advance" ELSE "abort"
           again   == [n EXCEPT !.pc = "recycle", !.mode = "retry"]
           end     == IF verdict = "advance" /\ ~HasAbort(n.base.attempts) /\ n.base.pr
                      THEN "passed" ELSE "aborted"
<1>1. verdict \in Decisions /\ h.base \in Row /\ h.payload \in Payload
    BY DecideType, HandlerFields DEF Verdict
<1>2. Fixed(h.base, copy) /\ copy \in Row
    BY <1>1, FixedWrites, DecidedCopySuccessor DEF Successor
<1>3. Decided(h) = AfterDecision(n, verdict)
    BY DEF Decided
<1> HIDE DEF copy, verdict
<1>4. n \in Handlers /\ n.run = h.run /\ n.base = copy
    BY <1>2 DEF Handlers
<1> HIDE DEF n
<1>5. n.base.lease = rows[n.run].lease
    BY <1>2, <1>4 DEF Fixed
<1>6. \/ Decided(h) = again
      \/ Decided(h) = Dispatching(n, mode, t)
      \/ Decided(h) = Idle
      \/ Decided(h) = Settling(n.run, end)
    BY <1>3, <1>4 DEF AfterDecision
<1>7. Backed(rows, ls, again) /\ again.pc # "synth"
  <2>1. again.pc = "recycle" /\ again.mode = "retry" /\ again.run = n.run /\ again.base = n.base
      BY <1>4 DEF Handlers
  <2> HIDE DEF again
  <2> QED BY <1>5, <2>1 DEF Backed, Copied, Sure
<1>8. Backed(rows, ls, Dispatching(n, mode, t)) /\ Dispatching(n, mode, t).pc # "synth"
  <2>1. mode \in Modes /\ mode # "admit"
      BY DEF Modes
  <2>2. Dispatching(n, mode, t).pc = "dispatch"
      BY <1>4 DEF Dispatching, Handlers
  <2> HIDE DEF t, mode
  <2> QED BY <1>4, <1>5, <2>1, <2>2, DispatchingBacked
<1>9. /\ Backed(rows, ls, Idle) /\ Backed(rows, ls, Settling(n.run, end))
      /\ Idle.pc # "synth" /\ Settling(n.run, end).pc # "synth"
    BY FreeStarts, FreeBacked, FreeSynth
<1> HIDE DEF t, mode, end, again
<1> QED BY <1>6, <1>7, <1>8, <1>9

\* The decision is made, stamped and routed.
LEMMA MakeDecisionHolds == ASSUME Inductive, Turn, Holding, NEW q \in Procs, MakeDecision(q) PROVE Holding'
<1> DEFINE h   == handlers[q]
           c   == h.run
           row == DecidedRow(runs[c], Verdict(h))
<1>1. h.pc = "decide" /\ Write(c, row) /\ Become(q, Decided(h)) /\ UNCHANGED <<pods, leases>> /\ Acting(h)
    BY DEF MakeDecision, At, Acting, Resting
<1>2. /\ h \in Handlers /\ c \in Cycles /\ runs[c] \in Row /\ h.base.attempts # <<>> /\ Exists(h.base)
    BY <1>1, AtStep, Parts DEF At, Busy, Good, HandlerOK
<1>3. h.mode = "advance" /\ h.base.lease = runs[c].lease
    BY <1>1 DEF Turn, Apt, Remembers, Holding, Backed, Copied
<1>4. Fixed(runs[c], row)
    BY <1>2, FixedWrites
<1> HIDE DEF row
<1>5. runs'[c].lease = runs[c].lease
    BY <1>1, <1>2, <1>4, Parts DEF Write, Fixed
<1>6. Backed(runs', leases', Decided(h)) /\ Decided(h).pc # "synth"
    BY <1>2, <1>3, <1>5, DecidedBacked
<1> HIDE DEF h
<1>7. Become(q, Decided(h)) /\ Acting(handlers[q]) /\ handlers[q].pc # "launch"
    BY <1>1 DEF h
<1> QED BY <1>1, <1>2, <1>4, <1>6, <1>7, ActsRow

-----------------------------------------------------------------------------
\* The run waits for its reviewer.
LEMMA ParkHolds == ASSUME Inductive, Turn, Holding, NEW q \in Procs, Park(q) PROVE Holding'
<1> DEFINE h   == handlers[q]
           c   == h.on
           row == ParkedRow(runs[c], h.target)
<1>1. h.pc = "dispatch" /\ Write(c, row) /\ Become(q, Idle) /\ UNCHANGED <<pods, leases>> /\ Acting(h)
    BY DEF Park, At, Acting, Resting
<1>2. c \in Cycles /\ runs[c] \in Row
    BY <1>1, AtLaunch DEF Launching
<1>3. Fixed(runs[c], row)
    BY <1>2, FixedWrites
<1>4. Backed(runs', leases', Idle) /\ Idle.pc # "synth"
    BY FreeStarts, FreeBacked, FreeSynth
<1> HIDE DEF row, c
<1> QED BY <1>1, <1>2, <1>3, <1>4, ActsRow

\* What a dispatch that is not of the queue has of the lease.
LEMMA OnwardLease ==
    ASSUME Inductive, Holding, NEW q \in Procs,
           handlers[q].pc \in {"dispatch", "skip", "skipjobs", "lease"},
           handlers[q].pc = "skipjobs" => handlers[q].mode # "admit"
    PROVE  LET h == handlers[q]
           IN  /\ h.mode # "admit" /\ h.run \in Cycles /\ h.on \in Cycles
               /\ h.base.lease = runs[h.run].lease /\ h.base.lease = runs[h.on].lease
<1> DEFINE h == handlers[q]
<1>1. h.run \in Cycles /\ h.on \in Cycles
    BY AtLaunch, AtStep DEF Launching, Busy
<1>2. Copied(runs, h)
    BY DEF Holding, Backed
<1> HIDE DEF h
<1>3. h.pc \in {"dispatch", "skip", "skipjobs", "lease"} /\ (h.pc = "skipjobs" => h.mode # "admit")
    BY DEF h
<1>4. h.mode # "admit" /\ h.base.lease = runs[h.run].lease /\ h.base.lease = runs[h.on].lease
    BY <1>2, <1>3 DEF Copied, Onwards, DispatchSteps
<1> QED BY <1>1, <1>4 DEF h

\* The attempt of the phase is in the row.
LEMMA AppendAttemptHolds == ASSUME Inductive, Turn, Holding, NEW q \in Procs, AppendAttempt(q) PROVE Holding'
<1> DEFINE h   == handlers[q]
           c   == h.on
           p   == h.target
           row == AppendedRow(runs[c], p)
           i   == Latest(row)
           m   == [h EXCEPT !.pc = "skip"]
           n   == IF PhaseRuns(p) THEN AfterAppend(h, p, i) ELSE m
<1>1. h.pc = "dispatch" /\ Write(c, row) /\ UNCHANGED <<pods, leases>> /\ Become(q, n) /\ Acting(h)
    BY DEF AppendAttempt, At, Acting, Resting
<1>2. h \in Handlers /\ c \in Cycles /\ runs[c] \in Row /\ p \in PhaseIds
    BY <1>1, AtLaunch, Parts DEF Launching
<1>3. /\ h.mode # "admit" /\ h.run \in Cycles
      /\ h.base.lease = runs[h.run].lease /\ h.base.lease = runs[c].lease
    BY <1>1, OnwardLease
<1>4. Fixed(runs[c], row)
    BY <1>2, FixedWrites
<1> HIDE DEF row, i
<1>5. ASSUME Steady PROVE Backed(runs', leases', AfterAppend(h, p, i)) /\ AfterAppend(h, p, i).pc # "synth"
  <2>1. h.base.lease = runs'[h.run].lease /\ h.base.lease = runs'[c].lease
      BY <1>2, <1>3, <1>5, LeaseStays
  <2>2. AfterAppend(h, p, i).pc # "synth"
    <3> HIDE DEF h
    <3> QED BY <1>2 DEF AfterAppend, Handlers
  <2> QED BY <1>2, <1>3, <2>1, <2>2, AppendedBacked
<1>6. ASSUME Steady PROVE Backed(runs', leases', m) /\ m.pc # "synth"
  <2>1. h.base.lease = runs'[h.run].lease /\ h.base.lease = runs'[c].lease
      BY <1>2, <1>3, <1>6, LeaseStays
  <2>2. m.pc = "skip" /\ m.run = h.run /\ m.on = c /\ m.mode = h.mode /\ m.base = h.base
      BY <1>2 DEF Handlers
  <2> HIDE DEF m
  <2>3. m.base.lease = runs'[m.run].lease /\ m.base.lease = runs'[m.on].lease
      BY <2>1, <2>2
  <2>4. m.pc \in {"dispatch", "skip", "lease"} /\ m.mode # "admit"
      BY <1>3, <2>2
  <2>5. Backed(runs', leases', m)
      BY <2>3, <2>4 DEF Backed, Copied, Sure, DispatchSteps
  <2> QED BY <2>2, <2>5
<1>7. n = AfterAppend(h, p, i) \/ n = m
    OBVIOUS
<1>8. /\ Become(q, n) /\ Acting(handlers[q]) /\ handlers[q].pc # "launch" /\ n.pc # "synth"
      /\ Steady => Backed(runs', leases', n)
  <2>1. n.pc # "synth"
    <3>1. AfterAppend(h, p, i).pc # "synth" /\ m.pc # "synth"
      <4> HIDE DEF h
      <4> QED BY <1>2 DEF AfterAppend, Handlers
    <3> HIDE DEF n, m
    <3> QED BY <1>7, <3>1
  <2> HIDE DEF m
  <2>2. Steady => Backed(runs', leases', n)
      BY <1>5, <1>6, <1>7
  <2> QED BY <1>1, <2>1, <2>2
<1> HIDE DEF n, c
<1> QED BY <1>1, <1>2, <1>4, <1>8, ActsRow

\* The phase is skipped as a whole.
LEMMA SkipPhaseHolds == ASSUME Inductive, Turn, Holding, NEW q \in Procs, SkipPhase(q) PROVE Holding'
<1> DEFINE h    == handlers[q]
           c    == h.on
           row  == PhaseSkippedRow(runs[c])
           next == DispatchTarget(row.attempts, "advance")
           m    == [h EXCEPT !.pc = "dispatch", !.target = next]
           n    == IF next = NoPhase THEN Idle ELSE m
<1>1. h.pc = "skip" /\ Write(c, row) /\ UNCHANGED <<pods, leases>> /\ Become(q, n) /\ Acting(h)
    BY DEF SkipPhase, At, AfterSkip, Acting, Resting
<1>2. h \in Handlers /\ c \in Cycles /\ runs[c] \in Row
    BY <1>1, AtLaunch, Parts DEF Launching
<1>3. /\ h.mode # "admit" /\ h.run \in Cycles
      /\ h.base.lease = runs[h.run].lease /\ h.base.lease = runs[c].lease
    BY <1>1, OnwardLease
<1>4. Fixed(runs[c], row)
    BY <1>2, FixedWrites
<1> HIDE DEF row, next
<1>5. m.pc = "dispatch" /\ m.run = h.run /\ m.on = c /\ m.mode = h.mode /\ m.base = h.base
    BY <1>2 DEF Handlers
<1> HIDE DEF m
<1>6. ASSUME Steady PROVE Backed(runs', leases', m)
  <2>1. h.base.lease = runs'[h.run].lease /\ h.base.lease = runs'[c].lease
      BY <1>2, <1>3, <1>6, LeaseStays
  <2>2. m.base.lease = runs'[m.run].lease /\ m.base.lease = runs'[m.on].lease
      BY <1>5, <2>1
  <2>3. m.pc \in {"dispatch", "skip", "lease"} /\ m.mode # "admit"
      BY <1>3, <1>5
  <2> QED BY <2>2, <2>3 DEF Backed, Copied, Sure, DispatchSteps
<1>7. Backed(runs', leases', Idle) /\ Idle.pc # "synth"
    BY FreeStarts, FreeBacked, FreeSynth
<1>8. Steady => Backed(runs', leases', n)
    BY <1>6, <1>7
<1>9. n.pc # "synth"
    BY <1>5, <1>7
<1> HIDE DEF n, c
<1>10. Acting(handlers[q]) /\ handlers[q].pc # "launch"
    BY <1>1
<1> QED BY <1>1, <1>2, <1>4, <1>8, <1>9, <1>10, ActsRow

\* The skipped jobs are reported.
LEMMA SkipJobsHolds == ASSUME Inductive, Turn, Holding, NEW q \in Procs, SkipJobs(q) PROVE Holding'
<1> DEFINE h    == handlers[q]
           c    == h.on
           row  == JobsSkippedRow(runs[c], h.target)
           step == IF h.mode = "admit" THEN "launch" ELSE "lease"
           n    == [h EXCEPT !.pc = step]
<1>1. h.pc = "skipjobs" /\ UNCHANGED <<pods, leases>>
    BY DEF SkipJobs, At
<1>2. h \in Handlers /\ Acting(h) /\ c \in Cycles /\ runs[c] \in Row /\ InHand(runs[c], Heard, h)
    BY <1>1, AtHand DEF Committed
<1>3. runs[c].attempts[Latest(runs[c])].phase = h.target
    BY <1>2 DEF InHand
<1>4. Write(c, row) /\ Become(q, n)
    BY <1>3 DEF SkipJobs
<1>5. Fixed(runs[c], row)
    BY <1>2, FixedWrites
<1>6. /\ h.mode = "admit" => Claimed(leases, runs[c].lease)
      /\ h.mode # "admit" => /\ h.run \in Cycles
                             /\ h.base.lease = runs[h.run].lease /\ h.base.lease = runs[c].lease
  <2>1. h.mode = "admit" => Claimed(leases, runs[c].lease)
      BY <1>1 DEF Holding, Backed, Sure
  <2>2. h.mode # "admit" => /\ h.run \in Cycles
                            /\ h.base.lease = runs[h.run].lease /\ h.base.lease = runs[c].lease
      BY <1>1, OnwardLease
  <2> QED BY <2>1, <2>2
<1> HIDE DEF row
<1>7. n.pc = step /\ n.run = h.run /\ n.on = c /\ n.mode = h.mode /\ n.base = h.base
    BY <1>2 DEF Handlers
<1> HIDE DEF n
<1>8. ASSUME Steady PROVE Backed(runs', leases', n)
  <2>1. \A d \in Cycles : runs'[d].lease = runs[d].lease
      BY <1>8, LeaseStays
  <2>2. CASE h.mode = "admit"
    <3>1. Claimed(leases', runs'[n.on].lease) /\ n.pc = "launch" /\ n.mode = "admit"
        BY <1>1, <1>2, <1>6, <1>7, <2>1, <2>2 DEF Claimed
    <3> QED BY <3>1, LaunchBacked
  <2>3. CASE h.mode # "admit"
      BY <1>2, <1>6, <1>7, <2>1, <2>3, OnwardBacked
  <2> QED BY <2>2, <2>3
<1>9. Acting(handlers[q]) /\ handlers[q].pc # "launch" /\ n.pc # "synth"
    BY <1>1, <1>2, <1>7
<1> HIDE DEF h
<1> QED BY <1>1, <1>2, <1>4, <1>5, <1>8, <1>9, ActsRow

\* A failed dispatch is no report.
LEMMA FailureStep ==
    ASSUME NEW h \in Handlers PROVE AfterFailure(h).pc # "synth"
<1>1. h.mode \in Modes
    BY HandlerFields
<1>2. [h EXCEPT !.pc = "dropabort"].pc # "synth"
    BY DEF Handlers
<1>3. \A mode, p : Dispatching(h, mode, p).pc # "synth"
    BY DEF Dispatching, Handlers
<1>4. Idle.pc # "synth" /\ (\A c, end : Settling(c, end).pc # "synth") /\ \A c : Aborting(c).pc # "synth"
    BY FreeStarts, FreeSynth
<1> QED BY <1>1, <1>2, <1>3, <1>4 DEF AfterFailure, CleaningUp, Modes

\* The lease is read, or there is nothing to launch.
LEMMA LaunchPathHolds ==
    ASSUME Inductive, Turn, Holding, NEW q \in Procs, ReadLease(q) \/ LaunchNothing(q) PROVE Holding'
<1> DEFINE h == handlers[q]
           l == h.base.lease
           m == [h EXCEPT !.pc = "launch"]
<1>1. /\ h.pc \in {"lease", "launch"} /\ (h.pc = "launch" => h.todo = {}) /\ UNCHANGED <<runs, pods, leases>>
      /\ \/ h.pc = "lease" /\ l \in LeaseIds /\ leases[l] = "claimed" /\ Become(q, m)
         \/ Become(q, AfterFailure(h))
    BY DEF ReadLease, LaunchNothing, At, AfterLeaseRead
<1>2. h \in Handlers /\ Acting(handlers[q])
    BY <1>1, AtHand DEF Committed
<1>3. /\ h.pc = "lease" => h.mode # "admit" /\ l = runs[h.run].lease /\ l = runs[h.on].lease
      /\ h.mode # "admit" => l = runs[h.run].lease
  <2>1. h.pc = "lease" => h.mode # "admit" /\ l = runs[h.run].lease /\ l = runs[h.on].lease
      BY OnwardLease
  <2>2. Copied(runs, h)
      BY DEF Holding, Backed
  <2> HIDE DEF h
  <2>3. h.mode # "admit" => l = runs[h.run].lease
      BY <1>1, <2>2 DEF Copied, DispatchSteps
  <2> QED BY <2>1, <2>3
<1>4. handlers[q].pc = "launch" => handlers[q].todo = {}
    BY <1>1
<1> HIDE DEF h
<1>5. CASE h.pc = "lease" /\ l \in LeaseIds /\ leases[l] = "claimed" /\ Become(q, m)
  <2>1. m.pc = "launch" /\ m.run = h.run /\ m.on = h.on /\ m.mode = h.mode /\ m.base = h.base
      BY <1>2 DEF Handlers
  <2> HIDE DEF m
  <2>2. Claimed(leases', runs[m.on].lease)
      BY <1>1, <1>3, <1>5, <2>1 DEF Claimed
  <2>3. Backed(runs, leases', m)
      BY <1>3, <1>5, <2>1, <2>2, LaunchBacked
  <2> QED BY <1>1, <1>2, <1>4, <1>5, <2>1, <2>3, ActsOnly
<1>6. CASE Become(q, AfterFailure(h))
  <2>1. Backed(runs, leases', AfterFailure(h)) /\ AfterFailure(h).pc # "synth"
      BY <1>2, <1>3, FailureBacked, FailureStep
  <2> QED BY <1>1, <1>2, <1>4, <1>6, <2>1, ActsOnly
<1> QED BY <1>1, <1>5, <1>6

-----------------------------------------------------------------------------
\* The parent of a retry is marked.
LEMMA RecycleHolds == ASSUME Inductive, Turn, Holding, NEW q \in Procs, Recycle(q) PROVE Holding'
<1> DEFINE h      == handlers[q]
           c      == h.run
           target == RetryTarget(h.base.attempts[Len(h.base.attempts)].phase)
           row    == RecycledRow(runs[c])
           on     == c + 1
           base   == [runs[c] EXCEPT !.attempts = h.base.attempts]
           n      == [h EXCEPT !.pc = "create", !.target = target, !.on = on, !.base = base]
<1>1. /\ h.pc = "recycle" /\ UNCHANGED <<pods, leases>> /\ Acting(h)
      /\ \/ Write(c, row) /\ Become(q, n)
         \/ runs' = runs /\ Become(q, AfterFailure(h))
    BY DEF Recycle, At, Acting, Resting
<1>2. h \in Handlers /\ c \in Cycles /\ runs[c] \in Row
    BY <1>1, AtStep, Parts DEF At, Busy
<1>3. h.mode # "admit" /\ h.base.lease = runs[c].lease
  <2>1. Copied(runs, h)
      BY DEF Holding, Backed
  <2> HIDE DEF h
  <2> QED BY <1>1, <2>1 DEF Copied, Onwards, DispatchSteps
<1>4. Fixed(runs[c], row)
    BY <1>2, FixedWrites
<1>5. base.lease = runs[c].lease /\ on # c
    BY <1>2 DEF Row, Cycles
<1> HIDE DEF row, on, base, target
<1>6. n.pc = "create" /\ n.mode = h.mode /\ n.run = c /\ n.on = on /\ n.base = base
    BY <1>2 DEF Handlers
<1> HIDE DEF n
<1>7. ASSUME Steady PROVE Backed(runs', leases', n)
  <2>1. n.base.lease = runs'[n.run].lease /\ n.mode # "admit" /\ n.on # n.run
      BY <1>2, <1>3, <1>5, <1>6, <1>7, LeaseStays
  <2> QED BY <1>6, <2>1 DEF Backed, Copied, Sure
<1>8. Acting(handlers[q]) /\ handlers[q].pc # "launch" /\ n.pc # "synth"
    BY <1>1, <1>6
<1>9. Backed(runs, leases', AfterFailure(h)) /\ AfterFailure(h).pc # "synth"
    BY <1>2, <1>3, FailureBacked, FailureStep
<1> HIDE DEF h
<1>10. CASE Write(c, row) /\ Become(q, n)
    BY <1>1, <1>2, <1>4, <1>7, <1>8, <1>10, ActsRow
<1>11. CASE runs' = runs /\ Become(q, AfterFailure(h))
    BY <1>1, <1>8, <1>9, <1>11, ActsOnly
<1> QED BY <1>1, <1>10, <1>11

\* The row of the next cycle is created, with the lease of the copy.
LEMMA CreateChildHolds == ASSUME Inductive, Turn, Holding, NEW q \in Procs, CreateChild(q) PROVE Holding'
<1> DEFINE h     == handlers[q]
           c     == h.on
           carry == CarriedForward(h.base.attempts, h.target)
           row   == QueuedRow(h.target, carry, h.base.pr, h.base.cost, h.base.lease)
           lease == h.base.lease
           n     == [h EXCEPT !.pc = "start", !.lease = lease]
<1>1. /\ h.pc = "create" /\ c \in Cycles /\ ~Exists(runs[c]) /\ Write(c, row) /\ Become(q, n)
      /\ UNCHANGED <<pods, leases>> /\ Acting(h)
    BY DEF CreateChild, At, Acting, Resting
<1>2. h \in Handlers /\ h.run \in Cycles
    BY <1>1, AtStep, Parts DEF At, Busy
<1>3. h.mode # "admit" /\ lease = runs[h.run].lease /\ c # h.run
  <2>1. Copied(runs, h)
      BY DEF Holding, Backed
  <2> HIDE DEF h
  <2> QED BY <1>1, <2>1 DEF Copied, Onwards, DispatchSteps
<1>4. row.lease = lease
    BY DEF QueuedRow, AbsentRow
<1> HIDE DEF row, lease, h
<1>5. \A d \in Cycles : runs'[d] = IF d = c THEN row ELSE runs[d]
    BY <1>1, Parts DEF Write
<1>6. StartedSteady
  <2>1. runs[c].state = "absent"
      BY <1>1 DEF Exists
  <2>2. \A d \in Cycles : Fixed(runs[d], runs[d])
      BY Parts, FixedSame
  <2> QED BY <1>5, <2>1, <2>2 DEF StartedSteady
<1>7. LeaseRange'
    BY <1>2, <1>3, <1>4, <1>5 DEF Holding, LeaseRange
<1>8. n.pc = "start" /\ n.run = h.run /\ n.on = c /\ n.mode = h.mode /\ n.base = h.base /\ n.lease = lease
    BY <1>2 DEF Handlers
<1> HIDE DEF n
<1>9. Backed(runs', leases', n)
  <2>1. /\ n.base.lease = runs'[n.run].lease /\ n.mode # "admit" /\ n.on # n.run /\ n.lease = n.base.lease
      BY <1>2, <1>3, <1>5, <1>8 DEF lease
  <2> QED BY <1>8, <2>1 DEF Backed, Copied, Sure, Onwards
<1>10. Acting(handlers[q]) /\ handlers[q].pc # "launch" /\ n.pc # "synth"
    BY <1>1, <1>8 DEF h
<1> QED BY <1>1, <1>6, <1>7, <1>9, <1>10, ActsOn

\* A started row has the lease it is started with.
LEMMA StartedLease ==
    ASSUME NEW row \in Row, NEW p, NEW lease
    PROVE  StartedRow(row, p, lease).lease = lease
<1> DEFINE mid == AppendedRow(row, p)
           new == [mid EXCEPT !.state = "in_progress", !.lease = lease]
<1>1. StartedRow(row, p, lease) = new
    BY DEF StartedRow
<1>2. "lease" \in DOMAIN mid
    BY FixedWrites DEF Fixed
<1> HIDE DEF mid
<1> QED BY <1>1, <1>2

\* The next cycle starts, or somebody was faster.
LEMMA StartHolds == ASSUME Inductive, Turn, Holding, NEW q \in Procs, Start(q) PROVE Holding'
<1> DEFINE h    == handlers[q]
           c    == h.on
           p    == h.target
           row  == StartedRow(runs[c], p, h.lease)
           i    == Latest(row)
           drop == [h EXCEPT !.pc = "drop"]
           lost == IF h.mode # "admit" THEN AfterFailure(h) ELSE IF h.fresh THEN drop ELSE Idle
<1>1. /\ h.pc = "start" /\ UNCHANGED <<pods, leases>> /\ Acting(h)
      /\ \/ CanStart(runs[c]) /\ Write(c, row) /\ Become(q, AfterAppend(h, p, i))
         \/ runs' = runs /\ Become(q, lost)
    BY DEF Start, At, Acting, Resting
<1>2. /\ h \in Handlers /\ c \in Cycles /\ h.run \in Cycles /\ runs[c] \in Row /\ p \in PhaseIds
    BY <1>1, AtLaunch, Parts DEF Launching, Busy
<1>3. /\ h.mode = "admit" => Claimed(leases, h.lease)
      /\ h.mode # "admit" => h.base.lease = runs[h.run].lease /\ c # h.run /\ h.lease = h.base.lease
  <2>1. Copied(runs, h) /\ Sure(runs, leases, h)
      BY DEF Holding, Backed
  <2> HIDE DEF h
  <2> QED BY <1>1, <2>1 DEF Copied, Sure, DispatchSteps
<1>4. row.lease = h.lease
    BY <1>2, StartedLease
<1>5. AfterAppend(h, p, i).pc # "synth" /\ lost.pc # "synth"
  <2>1. AfterAppend(h, p, i).pc # "synth" /\ drop.pc # "synth"
    <3> HIDE DEF h, i
    <3> QED BY <1>2 DEF AfterAppend, Handlers
  <2>2. AfterFailure(h).pc # "synth" /\ Idle.pc # "synth"
      BY <1>2, FailureStep, FreeStarts, FreeSynth
  <2> HIDE DEF drop
  <2> QED BY <2>1, <2>2
<1>6. Acting(handlers[q]) /\ handlers[q].pc # "launch"
    BY <1>1
<1> HIDE DEF row, i, h
<1>7. CASE CanStart(runs[c]) /\ Write(c, row) /\ Become(q, AfterAppend(h, p, i))
  <2>1. \A d \in Cycles : runs'[d] = IF d = c THEN row ELSE runs[d]
      BY <1>7, Parts DEF Write
  <2>2. StartedSteady
    <3>1. runs[c].state = "queued"
        BY <1>7 DEF CanStart
    <3>2. \A d \in Cycles : Fixed(runs[d], runs[d])
        BY Parts, FixedSame
    <3> QED BY <2>1, <3>1, <3>2 DEF StartedSteady
  <2>3. h.lease \in LeaseIds \union {0}
      BY <1>2, <1>3 DEF Claimed, Holding, LeaseRange
  <2>4. LeaseRange'
      BY <1>4, <2>1, <2>3 DEF Holding, LeaseRange
  <2>5. h.mode # "admit" => h.base.lease = runs'[h.run].lease /\ h.base.lease = runs'[c].lease
      BY <1>2, <1>3, <1>4, <2>1
  <2>6. h.mode = "admit" => Claimed(leases', runs'[c].lease)
      BY <1>1, <1>2, <1>3, <1>4, <2>1 DEF Claimed
  <2>7. Backed(runs', leases', AfterAppend(h, p, i))
      BY <1>2, <2>5, <2>6, AppendedBacked
  <2> QED BY <1>1, <1>5, <1>6, <1>7, <2>2, <2>4, <2>7, ActsOn
<1>8. CASE runs' = runs /\ Become(q, lost)
  <2>1. Backed(runs, leases', drop) /\ Backed(runs, leases', Idle)
    <3>1. drop.pc \in Free
        BY <1>2, FreeMoves DEF Free
    <3> QED BY <3>1, FreeStarts, FreeBacked
  <2>2. Backed(runs, leases', AfterFailure(h))
      BY <1>2, <1>3, FailureBacked
  <2>3. Backed(runs, leases', lost)
      BY <2>1, <2>2
  <2> HIDE DEF lost
  <2> QED BY <1>1, <1>5, <1>6, <1>8, <2>3, ActsOnly
<1> QED BY <1>1, <1>7, <1>8

\* The queue has a lease, or waits for one.
LEMMA AcquireHolds == ASSUME Inductive, Turn, Holding, NEW q \in Procs, Acquire(q) PROVE Holding'
<1> DEFINE h   == handlers[q]
           l   == h.base.lease
           old == [h EXCEPT !.pc = "start", !.lease = l]
<1>1. h.pc = "acquire" /\ UNCHANGED <<runs, pods>> /\ Acting(handlers[q]) /\ handlers[q].pc # "launch"
    BY DEF Acquire, At, Acting, Resting
<1>2. h \in Handlers /\ h.mode = "admit" /\ l \in LeaseIds \union {0}
    BY <1>1, Parts DEF Turn, Apt, Remembers, Holding, Backed, Copied
<1>3. leases \in [LeaseIds -> {"free", "claimed", "released"}]
    BY DEF Inductive, TypeOK
<1>4. ASSUME NEW n, n.pc = "start", n.mode = "admit", Claimed(leases', n.lease)
      PROVE  Backed(runs, leases', n) /\ n.pc # "synth"
    BY <1>4 DEF Backed, Copied, Sure, Onwards
<1>5. Backed(runs, leases', Aborting(h.run)) /\ Backed(runs, leases', Idle)
      /\ Aborting(h.run).pc # "synth" /\ Idle.pc # "synth"
    BY FreeStarts, FreeBacked, FreeSynth
<1>6. CASE l # 0 /\ leases[l] = "claimed" /\ Become(q, old) /\ UNCHANGED leases
  <2>1. old.pc = "start" /\ old.mode = "admit" /\ old.lease = l
    <3> HIDE DEF h, l
    <3> QED BY <1>2 DEF Handlers
  <2> HIDE DEF old
  <2>2. Claimed(leases', old.lease)
      BY <1>2, <1>6, <2>1 DEF Claimed
  <2> QED BY <1>1, <1>4, <1>6, <2>1, <2>2, ActsOnly
<1>7. ASSUME NEW fresh \in LeaseIds, leases' = [leases EXCEPT ![fresh] = "claimed"],
             Become(q, [h EXCEPT !.pc = "start", !.lease = fresh, !.fresh = TRUE])
      PROVE  Holding'
  <2> DEFINE n == [h EXCEPT !.pc = "start", !.lease = fresh, !.fresh = TRUE]
  <2>1. n.pc = "start" /\ n.mode = "admit" /\ n.lease = fresh
    <3> HIDE DEF h
    <3> QED BY <1>2 DEF Handlers
  <2>2. Become(q, n)
      BY <1>7
  <2> HIDE DEF n
  <2>3. Claimed(leases', n.lease)
      BY <1>3, <1>7, <2>1 DEF Claimed
  <2> QED BY <1>1, <1>4, <2>1, <2>2, <2>3, ActsOnly
<1>8. CASE Become(q, Aborting(h.run)) \/ Become(q, Idle)
    BY <1>1, <1>5, <1>8, ActsOnly
<1> QED BY <1>6, <1>7, <1>8 DEF Acquire

-----------------------------------------------------------------------------
\* A job is created. While some are left the turn stays; the last passes it to the jobs.
LEMMA LaunchHolds == ASSUME Inductive, LedgerKept, Turn, Holding, NEW q \in Procs, Launch(q) PROVE Holding'
<1> DEFINE h    == handlers[q]
           c    == h.on
           i    == h.att
           j    == FirstJob(h.target, h.todo)
           rest == h.todo \ {j}
           more == [h EXCEPT !.todo = rest]
           n    == IF rest = {} THEN Idle ELSE more
           v    == Heard \union {<<c, i, j>>}
           new  == NextPod(h)
<1>1. /\ h.pc = "launch" /\ h.todo # {} /\ runs' = runs /\ leases' = leases /\ Become(q, n)
      /\ pods' = pods \union {new}
    BY DEF Launch, At
<1>2. /\ h \in Handlers /\ Acting(h) /\ c \in Cycles /\ h.run \in Cycles /\ runs[c] \in Row
      /\ i \in DOMAIN runs[c].attempts /\ h.target \in PhaseIds
      /\ h.todo \subseteq ExpectedJobs(h.target) /\ InHand(runs[c], Heard, h)
    BY <1>1, AtHand, AtLaunch DEF Committed, Launching, Busy
<1>3. j \in h.todo
    BY <1>1, <1>2, FirstJobIn
<1>4. new.run = c /\ new.att = i /\ new.job = j /\ new.st = "created"
    BY DEF NextPod
<1>5. (\A r \in Procs : Acting(handlers[r]) => r = q) /\ NoneAwaited(runs, Heard) /\ NoReview(runs)
    BY <1>2 DEF Turn, OneActs, ActsAlone
<1>6. /\ h.mode # "admit" => h.base.lease = runs[h.run].lease
      /\ Claimed(leases, runs[c].lease)
  <2>1. Copied(runs, h) /\ Sure(runs, leases, h)
      BY DEF Holding, Backed
  <2> HIDE DEF h
  <2> QED BY <1>1, <2>1 DEF Copied, Sure, DispatchSteps
<1> HIDE DEF h, j, new
<1>7. i = Len(runs[c].attempts) /\ runs[c].attempts[i].report[j] = NoReport /\ ~HeardIn(Heard, c, j)
    BY <1>2, <1>3 DEF InHand, Latest
<1>8. Heard' = v
    BY <1>1, <1>4, LaunchHeard
<1>9. \A d \in Cycles, k \in Nat : Awaiting(runs[d].attempts, v, d, k) => d = c /\ k = i
    BY <1>5, <1>7, AwaitedLatest
<1>10. OnePod'
  <2>1. \A pod \in pods : ~(pod.run = c /\ pod.job = j)
      BY <1>7, PodHeard
  <2>2. \A pod \in pods' : pod \in pods \/ pod = new
      BY <1>1
  <2> QED BY <1>4, <2>1, <2>2 DEF Holding, OnePod
<1>11. NothingSaid'
  <2>1. \A pod \in LivePods' : pod \in LivePods \/ pod = new
      BY <1>1 DEF LivePods
  <2> QED BY <1>1, <1>4, <1>7, <2>1 DEF Holding, NothingSaid
<1>12. LeaseRange'
    BY <1>1 DEF Holding, LeaseRange
<1>13. rest # {} => /\ more.pc = "launch" /\ more.on = c /\ more.att = i /\ more.mode = h.mode
                    /\ more.run = h.run /\ more.base = h.base
  <2>1. h.pc = "launch"
      BY <1>1 DEF h
  <2> HIDE DEF rest
  <2> QED BY <1>2, <2>1 DEF Handlers
<1> HIDE DEF more, rest
<1>14. Backed(runs', leases', n)
  <2>1. CASE rest = {}
      BY <2>1, FreeStarts, FreeBacked
  <2>2. CASE rest # {}
    <3>1. Claimed(leases', runs'[more.on].lease) /\ more.pc = "launch"
          /\ (more.mode # "admit" => more.base.lease = runs'[more.run].lease)
        BY <1>1, <1>6, <1>13, <2>2
    <3>2. Backed(runs', leases', more)
        BY <3>1 DEF Backed, Copied, Sure, DispatchSteps, Onwards
    <3> QED BY <2>2, <3>2
  <2> QED BY <2>1, <2>2
<1>15. /\ n.pc # "synth"
       /\ Acting(n) => n.pc = "launch" /\ n.on = c /\ n.att = i
  <2>1. Idle.pc # "synth"
      BY FreeStarts, FreeSynth
  <2> QED BY <1>13, <2>1, FreeStarts
<1> HIDE DEF n
<1>16. \A r \in Procs : handlers'[r] = IF r = q THEN n ELSE handlers[r]
    BY <1>1, Parts DEF Become
<1>17. \A r \in Procs : Backed(runs', leases', handlers'[r])
  <2> SUFFICES ASSUME NEW r \in Procs, r # q PROVE Backed(runs', leases', handlers[r])
      BY <1>14, <1>16
  <2> QED BY <1>1 DEF Holding
<1>18. \A r \in Procs : Ended(pods', handlers'[r])
  <2>1. Ended(pods', n)
      BY <1>15 DEF Ended
  <2>2. \A r \in Procs : Ended(pods', handlers[r])
    <3>1. pods \subseteq pods'
        BY <1>1
    <3> QED BY <3>1 DEF Holding, Ended
  <2> QED BY <1>16, <2>1, <2>2
<1>19. ASSUME NEW pod \in LivePods' PROVE Waited(pod)'
  <2>1. pod.run = c /\ pod.att = i
    <3>1. pod \in LivePods \/ pod = new
        BY <1>1, <1>19 DEF LivePods
    <3>2. ASSUME pod \in LivePods PROVE pod.run = c /\ pod.att = i
        BY <1>2, <3>2 DEF Holding, Waited, h
    <3> QED BY <1>4, <3>1, <3>2
  <2>2. \A r \in Procs : Acting(handlers'[r]) =>
            handlers'[r].pc = "launch" /\ handlers'[r].on = c /\ handlers'[r].att = i
      BY <1>5, <1>15, <1>16
  <2>3. NoReview(runs') /\ Claimed(leases', runs'[c].lease)
      BY <1>1, <1>5, <1>6
  <2>4. \A d \in Cycles, k \in Nat : Awaiting(runs'[d].attempts, Heard', d, k) => d = c /\ k = i
      BY <1>1, <1>8, <1>9
  <2> HIDE DEF c, i
  <2> QED BY <2>1, <2>2, <2>3, <2>4 DEF Waited
<1> QED BY <1>10, <1>11, <1>12, <1>17, <1>18, <1>19 DEF Holding

-----------------------------------------------------------------------------
\* The report the watcher makes up is of a pod that has ended, and no other has the job.
LEMMA SynthesizeHolds ==
    ASSUME Inductive, LedgerKept, Turn, Holding, NEW q \in Procs, Synthesize(q) PROVE Holding'
<1> DEFINE h == handlers[q]
<1>1. h.pc = "synth" /\ UNCHANGED <<pods, leases>>
    BY DEF Synthesize, At
<1>2. PICK j \in h.todo : Record(q, h.run, Latest(runs[h.run]), j, LostOutcome)
    BY DEF Synthesize
<1>3. h.run \in Cycles /\ Exists(runs[h.run]) /\ j \in JobIds
    BY <1>1, <1>2, AtStep, Parts, HandlerFields DEF At, Busy
<1>4. HeardIn(Heard, h.run, j)
    BY <1>1, <1>2 DEF Turn, Apt, Waits
<1>5. Speaks(runs[h.run].attempts, Heard, h.run, Latest(runs[h.run]), j)
    BY <1>4 DEF HeardIn, Speaks, Latest
<1>6. \A pod \in LivePods' : ~(pod.run = h.run /\ pod.job = j)
  <2>1. PICK old \in pods : old.run = h.run /\ old.job = j /\ old.st = "seen"
      BY <1>1, <1>2 DEF Holding, Ended
  <2>2. \A pod \in LivePods' : pod \in pods /\ pod.st # "seen"
      BY <1>1 DEF LivePods
  <2> QED BY <2>1, <2>2 DEF Holding, OnePod
<1>7. ~Acting(h) /\ SamePods
    BY <1>1, PodsStay DEF Acting, Resting
<1> HIDE DEF h
<1> QED BY <1>1, <1>2, <1>3, <1>5, <1>6, <1>7, LostType, RecordHolds DEF h

\* The report a pod sends ends it.
LEMMA CallbackHolds ==
    ASSUME Inductive, LedgerKept, Turn, Holding, NEW q \in Procs, NEW pod \in pods, Callback(q, pod)
    PROVE  Holding'
<1>1. /\ handlers[q].pc = "idle" /\ pod.st = "running" /\ UNCHANGED leases
      /\ PodBecomes(pod, "ended") \/ PodBecomes(pod, "seen")
    BY DEF Callback, At
<1>2. PICK o \in Outcomes[PhaseOf(pod)] : Record(q, pod.run, pod.att, pod.job, o)
    BY DEF Callback
<1>3. o \in Outcome
    BY <1>2, PodFacts, LifecycleAssumption
<1>4. PICK st \in {"ended", "seen"} : PodBecomes(pod, st)
    BY <1>1
<1>5. SamePods /\ LivePods' = LivePods \ {pod}
    BY <1>1, <1>4, PodsMove
<1>6. \A other \in LivePods' : ~(other.run = pod.run /\ other.job = pod.job)
    BY <1>5 DEF LivePods, Holding, OnePod
<1>7. Speaks(runs[pod.run].attempts, Heard, pod.run, pod.att, pod.job)
    BY PodHeard DEF Speaks
<1>8. ~Acting(handlers[q])
    BY <1>1 DEF Acting, Resting
<1> QED BY <1>1, <1>2, <1>3, <1>5, <1>6, <1>7, <1>8, PodFacts, RecordHolds

\* The watcher has the event of a job that ended.
LEMMA WatchHolds ==
    ASSUME Inductive, Turn, Holding, NEW q \in Procs, NEW pod \in pods, Watch(q, pod) PROVE Holding'
<1> DEFINE c == pod.run
           j == pod.job
           n == [Idle EXCEPT !.pc = "synth", !.run = c, !.todo = {j}]
<1>1. /\ Become(q, n) \/ Become(q, Idle)
      /\ PodBecomes(pod, "seen") /\ pod.st = "ended" /\ UNCHANGED <<runs, leases>>
    BY DEF Watch
<1>2. SamePods /\ \E new \in pods' : new.run = c /\ new.job = j /\ new.st = "seen"
    BY <1>1, PodsMove
<1> HIDE DEF c, j
<1>3. n.pc = "synth" /\ n.run = c /\ n.todo = {j}
    BY DEF Idle
<1> HIDE DEF n
<1>4. ~Acting(n) /\ Ended(pods', n) /\ Backed(runs, leases, n)
    BY <1>2, <1>3 DEF Acting, Resting, Ended, Backed, Copied, Sure, DispatchSteps, Onwards
<1>5. ~Acting(Idle) /\ Ended(pods', Idle) /\ Backed(runs, leases, Idle)
    BY FreeStarts, FreeBacked
<1> QED BY <1>1, <1>2, <1>4, <1>5, GoesOnOnly

\* The drain has the reviewer's decision, and the lease from the row.
LEMMA SignalHolds ==
    ASSUME Inductive, Turn, Holding, NEW q \in Procs, NEW c \in Cycles,
           NEW kind, NEW step, <<kind, step>> \in {<<"approve", "opengate">>, <<"cancel", "cancelgate">>},
           ReviewSignal(q, c, kind, step)
    PROVE  Holding'
<1>1. UNCHANGED <<runs, pods, leases>> /\ step \in {"opengate", "cancelgate"} /\ runs[c].state = "review_required"
    BY DEF ReviewSignal
<1>2. PICK i \in ParkedGates(c) :
          Become(q, [Idle EXCEPT !.pc = step, !.mode = kind, !.run = c, !.on = c, !.base = runs[c],
                                 !.att = i, !.target = runs[c].attempts[i].phase,
                                 !.todo = ExpectedJobs(runs[c].attempts[i].phase)])
    BY DEF ReviewSignal
<1> DEFINE base == runs[c]
           p    == runs[c].attempts[i].phase
           todo == ExpectedJobs(p)
           n    == [Idle EXCEPT !.pc = step, !.mode = kind, !.run = c, !.on = c, !.base = base,
                                !.att = i, !.target = p, !.todo = todo]
<1>3. Become(q, n)
    BY <1>2
<1> HIDE DEF base, p, todo
<1>4. n.pc = step /\ n.run = c /\ n.on = c /\ n.base = base
    BY DEF Idle
<1> HIDE DEF n
<1>5. ~Acting(n) /\ Ended(pods', n)
    BY <1>1, <1>4 DEF Acting, Resting, Ended
<1>6. Backed(runs, leases, n)
    BY <1>1, <1>4 DEF Backed, Copied, Sure, DispatchSteps, Onwards, base
<1>7. SamePods
    BY <1>1, PodsStay
<1> QED BY <1>1, <1>3, <1>5, <1>6, <1>7, GoesOnOnly

\* A crash takes the turn from everybody.
LEMMA CrashHolds == ASSUME Inductive, Turn, Holding, NEW q \in Procs, Crash(q) PROVE Holding'
<1>1. Become(q, Idle) /\ UNCHANGED <<runs, pods, leases>>
    BY DEF Crash
<1>2. ~Acting(Idle) /\ Ended(pods', Idle) /\ Backed(runs, leases, Idle) /\ SamePods
    BY <1>1, FreeStarts, FreeBacked, PodsStay
<1> QED BY <1>1, <1>2, GoesOnOnly

\* The queue looks before there is any pod.
LEMMA AdmitHolds ==
    ASSUME Inductive, Turn, Holding, NEW q \in Procs, NEW c \in Cycles, Admit(q, c) PROVE Holding'
<1> DEFINE base  == runs[c]
           entry == runs[c].entry
           n     == [Idle EXCEPT !.pc = "acquire", !.mode = "admit", !.run = c, !.on = c,
                                 !.base = base, !.target = entry]
<1>1. Spend("poll") /\ Become(q, n) /\ UNCHANGED <<runs, pods, leases>>
    BY DEF Admit
<1>2. left["poll"] # 0
    BY <1>1, SpentFew DEF EventKinds
<1>3. (\A r \in Procs : ~Acting(handlers[r])) /\ Heard = {}
    BY <1>2 DEF Turn, PollFirst
<1>4. LivePods' = {}
    BY <1>1, <1>3 DEF LivePods, Heard
<1>5. base.lease \in LeaseIds \union {0}
    BY DEF Holding, LeaseRange
<1> HIDE DEF base, entry
<1>6. n.pc = "acquire" /\ n.mode = "admit" /\ n.base = base
    BY DEF Idle
<1> HIDE DEF n
<1>7. Backed(runs', leases', n) /\ n.pc # "synth"
    BY <1>5, <1>6 DEF Backed, Copied, Sure, DispatchSteps, Onwards
<1>8. SamePods /\ StartedSteady /\ LeaseRange'
    BY <1>1, PodsStay, SteadySame, SteadyRange
<1> QED BY <1>1, <1>3, <1>4, <1>7, <1>8, HandsOn

\* While a run is in review no pod is at work.
LEMMA ReviewedRests ==
    ASSUME Holding, NEW c \in Cycles, NEW i, CanDecideGate(runs[c], i), UNCHANGED pods PROVE LivePods' = {}
<1>1. LivePods = {}
    BY DEF CanDecideGate, Holding, Waited, NoReview
<1> QED BY <1>1 DEF LivePods

\* The reviewer approves.
LEMMA OpenGateHolds == ASSUME Inductive, Turn, Holding, NEW q \in Procs, OpenGate(q) PROVE Holding'
<1> DEFINE h   == handlers[q]
           c   == h.on
           i   == h.att
           row == ReleasedRow(runs[c], i)
           n   == [h EXCEPT !.pc = "lease"]
<1>1. h.pc = "opengate" /\ UNCHANGED <<pods, leases>>
    BY DEF OpenGate, At
<1>2. h \in Handlers /\ c \in Cycles /\ runs[c] \in Row
    BY <1>1, AtLaunch, Parts DEF Launching
<1>3. SamePods
    BY <1>1, PodsStay
<1>4. CASE ~CanDecideGate(runs[c], i)
  <2>1. Become(q, Idle) /\ UNCHANGED runs
      BY <1>4 DEF OpenGate
  <2>2. ~Acting(Idle) /\ Ended(pods', Idle) /\ Backed(runs, leases, Idle)
      BY FreeStarts, FreeBacked
  <2> QED BY <1>1, <1>3, <2>1, <2>2, GoesOnOnly
<1>5. CASE CanDecideGate(runs[c], i)
  <2>1. Write(c, row) /\ Become(q, n)
      BY <1>5 DEF OpenGate
  <2>2. h.mode = "approve" /\ c = h.run /\ h.base.lease = runs[c].lease
      BY <1>1 DEF Turn, Apt, Waits, Holding, Backed, Copied
  <2> HIDE DEF h
  <2>3. \A r \in Procs : ~Acting(handlers[r])
      BY <1>2, <1>5, ReviewedRow
  <2>4. LivePods' = {}
      BY <1>1, <1>2, <1>5, ReviewedRests
  <2>5. Fixed(runs[c], row)
      BY <1>2, FixedWrites
  <2> HIDE DEF row
  <2>6. Steady
      BY <1>2, <2>1, <2>5, SteadyWrite
  <2>7. n.pc = "lease" /\ n.mode = "approve" /\ n.run = c /\ n.on = c /\ n.base = h.base
      BY <1>2, <2>2 DEF Handlers
  <2> HIDE DEF n
  <2>8. n.base.lease = runs'[c].lease
      BY <1>2, <2>2, <2>6, <2>7, LeaseStays
  <2>9. Backed(runs', leases', n) /\ n.pc # "synth"
      BY <2>7, <2>8 DEF Backed, Copied, Sure, DispatchSteps
  <2>10. StartedSteady /\ LeaseRange'
      BY <2>6, SteadyRange
  <2> QED BY <1>3, <2>1, <2>3, <2>4, <2>9, <2>10, HandsOn
<1> QED BY <1>4, <1>5

\* The reviewer cancels.
LEMMA CancelGateHolds == ASSUME Inductive, Turn, Holding, NEW q \in Procs, CancelGate(q) PROVE Holding'
<1> DEFINE h   == handlers[q]
           c   == h.on
           i   == h.att
           row == CancelledRow(runs[c], i)
           t   == DispatchTarget(row.attempts, "abort_requested")
           m   == [h EXCEPT !.base = row]
           n   == IF t = NoPhase THEN Settling(h.run, "aborted") ELSE Dispatching(m, "cancel", t)
<1>1. h.pc = "cancelgate" /\ UNCHANGED <<pods, leases>>
    BY DEF CancelGate, At
<1>2. h \in Handlers /\ c \in Cycles /\ Exists(runs[c]) /\ runs[c] \in Row
    BY <1>1, AtLaunch, Parts DEF Launching
<1>3. SamePods
    BY <1>1, PodsStay
<1>4. CASE ~CanDecideGate(runs[c], i)
  <2>1. Become(q, Idle) /\ UNCHANGED runs
      BY <1>4 DEF CancelGate
  <2>2. ~Acting(Idle) /\ Ended(pods', Idle) /\ Backed(runs, leases, Idle)
      BY FreeStarts, FreeBacked
  <2> QED BY <1>1, <1>3, <2>1, <2>2, GoesOnOnly
<1>5. CASE CanDecideGate(runs[c], i)
  <2>1. Write(c, row) /\ Become(q, n)
      BY <1>5 DEF CancelGate
  <2>2. c = h.run
      BY <1>1 DEF Turn, Apt, Waits
  <2> HIDE DEF h
  <2>3. (\A r \in Procs : ~Acting(handlers[r])) /\ i \in DOMAIN runs[c].attempts
      BY <1>2, <1>5, ReviewedRow
  <2>4. LivePods' = {}
      BY <1>1, <1>2, <1>5, ReviewedRests
  <2>5. Fixed(runs[c], row)
      BY <1>2, FixedWrites
  <2>6. row \in Row
      BY <1>2, <2>3, CancelledSuccessor DEF Successor
  <2> HIDE DEF row, t
  <2>7. Steady
      BY <1>2, <2>1, <2>5, SteadyWrite
  <2>8. runs'[c] = row
      BY <1>2, <2>1, Parts DEF Write
  <2>9. m \in Handlers /\ m.run = c /\ m.base = row
      BY <1>2, <2>2, <2>6 DEF Handlers
  <2> HIDE DEF m
  <2>10. Backed(runs', leases', Dispatching(m, "cancel", t)) /\ Dispatching(m, "cancel", t).pc # "synth"
    <3>1. m.base.lease = runs'[m.run].lease
        BY <2>8, <2>9
    <3>2. Dispatching(m, "cancel", t).pc = "dispatch"
        BY <2>9 DEF Dispatching, Handlers
    <3> QED BY <2>9, <3>1, <3>2, DispatchingBacked DEF Modes
  <2>11. Backed(runs', leases', Settling(h.run, "aborted")) /\ Settling(h.run, "aborted").pc # "synth"
      BY FreeStarts, FreeBacked, FreeSynth
  <2>12. Backed(runs', leases', n) /\ n.pc # "synth"
      BY <2>10, <2>11
  <2> HIDE DEF n
  <2>13. StartedSteady /\ LeaseRange'
      BY <2>7, SteadyRange
  <2> QED BY <1>3, <2>1, <2>3, <2>4, <2>12, <2>13, HandsOn
<1> QED BY <1>4, <1>5

\* Pods by themselves.
LEMMA PodsHolding ==
    ASSUME Inductive, Turn, Holding, PodStep \/ (\E pod \in pods : PodKilled(pod)) \/ UNCHANGED vars
    PROVE  Holding'
<1>1. UNCHANGED <<handlers, leases>>
    BY DEF PodStep, PodKilled, PodStart, LinkPullRequest, MergePullRequest, vars
<1>2. SamePods
  <2>1. UNCHANGED pods \/ \E pod \in pods : PodStart(pod) \/ PodKilled(pod)
      BY DEF PodStep, PodKilled, PodStart, LinkPullRequest, MergePullRequest, vars
  <2>2. ASSUME NEW pod \in pods, PodStart(pod) PROVE SamePods
    <3>1. PodBecomes(pod, "running") /\ pod \in LivePods /\ pod.st # "seen"
        BY <2>2 DEF PodStart, LivePods
    <3> QED BY <3>1, PodsMove
  <2>3. ASSUME NEW pod \in pods, PodKilled(pod) PROVE SamePods
    <3>1. PodBecomes(pod, "ended") /\ pod \in LivePods /\ pod.st # "seen"
        BY <2>3 DEF PodKilled, LivePods
    <3> QED BY <3>1, PodsMove
  <2> QED BY <2>1, <2>2, <2>3, PodsStay
<1>3. \/ UNCHANGED runs
      \/ \E pod \in pods : Write(pod.run, ActiveRow(runs[pod.run], PhaseOf(pod)))
      \/ \E pod \in pods : Write(pod.run, LinkedRow(runs[pod.run]))
    BY DEF PodStep, PodKilled, PodStart, LinkPullRequest, MergePullRequest, vars
<1>4. \/ UNCHANGED runs
      \/ \E pod \in pods : \E row :
            /\ Write(pod.run, row) /\ Fixed(runs[pod.run], row)
            /\ row.attempts = runs[pod.run].attempts /\ row.state = runs[pod.run].state
    BY <1>3, PodFacts, FieldsOnly, FixedWrites
<1>5. /\ Steady
      /\ \A c \in Cycles : runs'[c].attempts = runs[c].attempts /\ runs'[c].state = runs[c].state
  <2>1. CASE UNCHANGED runs
      BY <2>1, SteadySame
  <2>2. ASSUME NEW pod \in pods, NEW row, Write(pod.run, row), Fixed(runs[pod.run], row),
               row.attempts = runs[pod.run].attempts, row.state = runs[pod.run].state
        PROVE  /\ Steady
               /\ \A c \in Cycles : runs'[c].attempts = runs[c].attempts /\ runs'[c].state = runs[c].state
    <3>1. \A c \in Cycles : runs'[c] = IF c = pod.run THEN row ELSE runs[c]
        BY <2>2, Parts DEF Write
    <3>2. Steady
        BY <2>2, PodFacts, SteadyWrite
    <3> QED BY <2>2, <3>1, <3>2
  <2> QED BY <1>4, <2>1, <2>2
<1>6. \A c \in Cycles : HeardOnly(Heard, c, runs[c], runs'[c])
    BY <1>5 DEF HeardOnly
<1>7. NothingSaid'
  <2> SUFFICES ASSUME NEW pod \in LivePods' PROVE runs'[pod.run].attempts[pod.att].report[pod.job] = NoReport
      BY DEF NothingSaid
  <2>1. PICK old \in LivePods : old.run = pod.run /\ old.att = pod.att /\ old.job = pod.job
      BY <1>2 DEF LivePods, SamePods
  <2>2. old.run \in Cycles
      BY PodFacts DEF LivePods
  <2> QED BY <1>5, <2>1, <2>2 DEF Holding, NothingSaid
<1>8. \A r \in Procs : handlers'[r] = handlers[r]
    BY <1>1
<1> QED BY <1>1, <1>2, <1>5, <1>6, <1>7, <1>8, GoesOn

\* At first there is no pod, and no lease.
LEMMA InitHolding == ASSUME Init PROVE Holding
<1>1. pods = {} /\ \A q \in Procs : handlers[q] = Idle
    BY DEF Init
<1>2. OnePod /\ NothingSaid /\ \A pod \in LivePods : Waited(pod)
    BY <1>1 DEF OnePod, NothingSaid, LivePods
<1>3. LeaseRange
    BY DEF Init, LeaseRange, QueuedRow, AbsentRow
<1>4. \A q \in Procs : Ended(pods, handlers[q]) /\ Backed(runs, leases, handlers[q])
    BY <1>1, FreeStarts, FreeBacked DEF Ended, Idle
<1> QED BY <1>2, <1>3, <1>4 DEF Holding

\* Every step of a goroutine.
LEMMA ServerHolding ==
    ASSUME Inductive, LedgerKept, Turn, Holding, NEW q \in Procs, Server(q) PROVE Holding'
<1>1. CASE \/ SettleRead(q) \/ AbortRead(q) \/ Patch(q) \/ DropLease(q)
           \/ Unlock(q) \/ ReleaseLease(q) \/ CloseIssue(q)
    BY <1>1, SettlingHolds
<1>2. CASE \/ Synthesize(q) \/ TimeoutJob(q) \/ Stamp(q) \/ MakeDecision(q) \/ Park(q)
    BY <1>2, SynthesizeHolds, Undone, StampHolds, MakeDecisionHolds, ParkHolds
<1>3. CASE AppendAttempt(q) \/ SkipPhase(q) \/ SkipJobs(q)
    BY <1>3, AppendAttemptHolds, SkipPhaseHolds, SkipJobsHolds
<1>4. CASE ReadLease(q) \/ Launch(q) \/ LaunchNothing(q)
    BY <1>4, LaunchPathHolds, LaunchHolds
<1>5. CASE Recycle(q) \/ CreateChild(q) \/ Start(q) \/ Acquire(q)
    BY <1>5, RecycleHolds, CreateChildHolds, StartHolds, AcquireHolds
<1>6. CASE OpenGate(q) \/ CancelGate(q)
    BY <1>6, OpenGateHolds, CancelGateHolds
<1>7. CASE \E pod \in pods : Callback(q, pod) \/ Watch(q, pod) \/ Reconcile(q, pod)
    BY <1>7, CallbackHolds, WatchHolds, Undone
<1>8. CASE \E c \in Cycles : \/ DispatchTimeout(q, c) \/ Admit(q, c)
                             \/ Approve(q, c) \/ CancelReview(q, c) \/ AdminAbort(q, c)
  <2> PICK c \in Cycles : \/ DispatchTimeout(q, c) \/ Admit(q, c)
                          \/ Approve(q, c) \/ CancelReview(q, c) \/ AdminAbort(q, c)
      BY <1>8
  <2>1. CASE Approve(q, c)
      BY <2>1, SignalHolds DEF Approve
  <2>2. CASE CancelReview(q, c)
      BY <2>2, SignalHolds DEF CancelReview
  <2>3. CASE DispatchTimeout(q, c) \/ AdminAbort(q, c)
      BY <2>3, Undone
  <2>4. CASE Admit(q, c)
      BY <2>4, AdmitHolds
  <2> QED BY <2>1, <2>2, <2>3, <2>4
<1>9. CASE CallFails(q) \/ Crash(q)
    BY <1>9, Undone, CrashHolds
<1> QED BY <1>1, <1>2, <1>3, <1>4, <1>5, <1>6, <1>7, <1>8, <1>9 DEF Server, HandlerStep

\* Where a pod is at work its cycle has the lease.
LEMMA HoldingLeases == ASSUME Holding PROVE PodsHoldLease
BY DEF Holding, Waited, Claimed, PodsHoldLease

\* A pod at work always runs in an environment that is still leased to its run, however
\* goroutines, crashes, killed pods, repeated events and reviewers interleave: the queue claims
\* the lease or finds it claimed, every later phase reads it before its launch from a copy of
\* the row, a recycled cycle inherits it, and it is released only by the goroutine whose turn
\* it is, which has it only when no pod is at work.
THEOREM PodsAlwaysHoldLease ==
    ASSUME Undisturbed, JobsApart PROVE Spec => []PodsHoldLease
<1>1. Init => Turn /\ Holding
    BY InitTurn, InitHolding
<1>2. Inductive /\ (Turn /\ Holding) /\ [Next]_vars => (Turn /\ Holding)'
  <2> SUFFICES ASSUME Inductive, Turn, Holding, [Next]_vars PROVE Turn' /\ Holding'
      OBVIOUS
  <2>1. LedgerKept
      BY NextKeeps DEF Preserved
  <2>2. Turn'
      BY <2>1, ServerTurn, PodsTurn DEF Next
  <2>3. Holding'
      BY <2>1, ServerHolding, PodsHolding DEF Next
  <2> QED BY <2>2, <2>3
<1>3. Holding => PodsHoldLease
    BY HoldingLeases
<1> QED BY <1>1, <1>2, <1>3, InductiveInvariant, PTL DEF Spec

-----------------------------------------------------------------------------
\* The route of a run, up to its review.

\* A retry lands no later than behind the verification it follows. Registration takes any phase.
LandsBack == \A p \in PhaseIds : Phases[p].verify => RetryTarget(p) \in PhaseIds /\ RetryTarget(p) <= p + 1

\* Every phase has a job. Registration takes one without, and its launch fails.
AllHaveJobs == \A p \in PhaseIds : Phases[p].jobs # <<>>

\* The attempts are of the phases in their order, and all but the last advanced.
InOrder(as) == \A i \in DOMAIN as : as[i].phase = i /\ (i < Len(as) => as[i].decision = "advance")

\* They are, or one before the last aborted and the last is of the teardown.
OnPath(as) == InOrder(as) \/ (/\ \E k \in DOMAIN as : k < Len(as) /\ as[k].decision \in AbortDecisions
                              /\ IsTeardown(as[Len(as)].phase))

\* The phase may come next: they all advanced and it is the next one, or one aborted and it is
\* of the teardown.
Fits(as, p) == \/ HasAbort(as) /\ p \in AbortPhases
               \/ InOrder(as) /\ p = Len(as) + 1 /\ \A i \in DOMAIN as : as[i].decision = "advance"

\* The last attempt is open.
Parked(as) == Len(as) \in DOMAIN as /\ ~as[Len(as)].completed /\ as[Len(as)].decision = "none"

\* A row on its path.
RowRouted(row) ==
    /\ OnPath(row.attempts)
    /\ row.state = "queued" => CanStart(row) /\ Fits(row.attempts, row.entry)
    /\ row.state = "review_required" => Parked(row.attempts)

\* The same phases, with the same decisions.
SamePath(as, bs) ==
    /\ Len(as) = Len(bs) /\ DOMAIN as = DOMAIN bs
    /\ \A i \in DOMAIN as : as[i].phase = bs[i].phase /\ as[i].decision = bs[i].decision

\* A cycle that starts over at the phase goes on from what it carries.
Resumes(as, p) == p \in PhaseIds /\ Fits(CarriedForward(as, p), p)

\* A goroutine is to append what fits.
Leads(rows, h) ==
    /\ h.pc \in {"dispatch", "start", "acquire"} => Fits(rows[h.on].attempts, h.target)
    /\ h.pc = "decide" => SamePath(h.base.attempts, rows[h.run].attempts)
    /\ h.pc = "recycle" => Resumes(h.base.attempts, RetryTarget(h.base.attempts[Len(h.base.attempts)].phase))
    /\ h.pc = "create" => Resumes(h.base.attempts, h.target)
    /\ h.pc \in {"recycle", "create"} => h.mode = "retry"
    /\ h.pc = "start" /\ h.mode # "admit" => CanStart(rows[h.on])
    /\ h.pc \in {"stamp", "decide"} => rows[h.run].state # "queued"
    /\ h.pc \in {"dispatch", "skip"} => rows[h.on].state # "queued"

\* While it goes forward its lease is claimed.
Secured(rows, ls, h) ==
    /\ h.pc \in {"stamp", "decide", "recycle"} => Claimed(ls, rows[h.run].lease)
    /\ h.pc \in {"dispatch", "skip", "skipjobs", "lease"} /\ h.mode \in {"advance", "retry"} =>
           Claimed(ls, rows[h.on].lease)
    /\ h.pc = "create" => Claimed(ls, h.base.lease)
    /\ h.pc = "start" => Claimed(ls, h.lease)

\* A goroutine does both.
Led(rows, ls, h) == Leads(rows, h) /\ Secured(rows, ls, h)

\* Every row is on its path.
RowsRouted == \A c \in Cycles : RowRouted(runs[c])

\* An attempt that is awaited has its environment.
AwaitedSecured ==
    \A c \in Cycles, i \in Nat : Awaiting(runs[c].attempts, Heard, c, i) => Claimed(leases, runs[c].lease)

Routed == RowsRouted /\ AwaitedSecured /\ \A q \in Procs : Led(runs, leases, handlers[q])

-----------------------------------------------------------------------------
\* The same phases, and the same decisions before the last.
SameRoute(tries, others) ==
    /\ Len(tries) = Len(others) /\ DOMAIN tries = DOMAIN others
    /\ \A i \in DOMAIN tries : tries[i].phase = others[i].phase
                               /\ (i < Len(tries) => tries[i].decision = others[i].decision)

\* The path does not depend on the last decision.
LEMMA RouteAlike ==
    ASSUME NEW tries \in Seq(Attempt), NEW others, SameRoute(tries, others), OnPath(tries) PROVE OnPath(others)
<1> DEFINE n == Len(tries)
<1>1. /\ n \in Nat /\ DOMAIN tries = 1..n /\ DOMAIN others = 1..n /\ Len(others) = n
      /\ \A i \in 1..n : others[i].phase = tries[i].phase /\ (i < n => others[i].decision = tries[i].decision)
  <2>1. n \in Nat /\ DOMAIN tries = 1..n
      OBVIOUS
  <2> QED BY <2>1 DEF SameRoute
<1> HIDE DEF n
<1>2. CASE InOrder(tries)
  <2>1. InOrder(others)
      BY <1>1, <1>2 DEF InOrder, n
  <2> QED BY <2>1 DEF OnPath
<1>3. CASE (\E k \in DOMAIN tries : k < Len(tries) /\ tries[k].decision \in AbortDecisions) /\ IsTeardown(tries[Len(tries)].phase)
  <2>1. PICK k \in 1..n : k < n /\ tries[k].decision \in AbortDecisions
      BY <1>1, <1>3 DEF n
  <2>2. others[k].decision \in AbortDecisions /\ n \in 1..n
      BY <1>1, <2>1
  <2>3. IsTeardown(others[Len(others)].phase)
      BY <1>1, <1>3, <2>2 DEF n
  <2> QED BY <1>1, <2>1, <2>2, <2>3 DEF OnPath
<1> QED BY <1>2, <1>3 DEF OnPath

\* Nor does it change where no decision does, and what fits still does.
LEMMA PathAlike ==
    ASSUME NEW tries \in Seq(Attempt), NEW others, SamePath(tries, others)
    PROVE  /\ SameRoute(tries, others)
           /\ OnPath(tries) => OnPath(others)
           /\ \A p : Fits(tries, p) => Fits(others, p)
<1>1. SameRoute(tries, others)
    BY DEF SamePath, SameRoute
<1>2. ASSUME NEW p, Fits(tries, p) PROVE Fits(others, p)
  <2>1. CASE HasAbort(tries) /\ p \in AbortPhases
      BY <2>1 DEF Fits, HasAbort, SamePath
  <2>2. CASE InOrder(tries) /\ p = Len(tries) + 1 /\ \A i \in DOMAIN tries : tries[i].decision = "advance"
      BY <2>2 DEF Fits, InOrder, SamePath
  <2> QED BY <1>2, <2>1, <2>2 DEF Fits
<1> QED BY <1>1, <1>2, RouteAlike

\* The same path is that of both.
LEMMA SamePathBack == ASSUME NEW tries, NEW others, SamePath(tries, others) PROVE SamePath(others, tries)
BY DEF SamePath

\* And of three.
LEMMA SamePathTwice ==
    ASSUME NEW tries, NEW others, NEW thirds, SamePath(tries, others), SamePath(others, thirds) PROVE SamePath(tries, thirds)
BY DEF SamePath

\* A path goes on with what fits.
LEMMA FitsAppends ==
    ASSUME NEW tries \in Seq(Attempt), NEW p \in PhaseIds, Fits(tries, p)
    PROVE  OnPath(Append(tries, NewAttempt(p)))
<1> DEFINE n  == Len(tries)
           others == Append(tries, NewAttempt(p))
<1>1. n \in Nat /\ DOMAIN tries = 1..n
    OBVIOUS
<1>2. NewAttempt(p).phase = p /\ NewAttempt(p) \in Attempt
    BY NewAttemptType DEF NewAttempt
<1> DEFINE e == NewAttempt(p)
<1> HIDE DEF e
<1>3. Len(others) = n + 1 /\ DOMAIN others = 1..(n + 1) /\ others[n + 1] = e /\ \A i \in 1..n : others[i] = tries[i]
    BY <1>2 DEF e
<1> HIDE DEF n, others
<1>4. CASE HasAbort(tries) /\ p \in AbortPhases
  <2>1. PICK k \in 1..n : tries[k].decision \in AbortDecisions
      BY <1>1, <1>4 DEF HasAbort
  <2>2. k \in DOMAIN others /\ k < Len(others) /\ others[k].decision \in AbortDecisions
      BY <1>1, <1>3, <2>1
  <2>3. IsTeardown(p)
      BY <1>4 DEF AbortPhases, RunsOnAbortPath
  <2>4. others[Len(others)].phase = p
      BY <1>2, <1>3 DEF e
  <2> QED BY <2>2, <2>3, <2>4 DEF OnPath, others
<1>5. CASE InOrder(tries) /\ p = Len(tries) + 1 /\ \A i \in DOMAIN tries : tries[i].decision = "advance"
  <2>1. \A i \in 1..n : others[i].phase = i /\ others[i].decision = "advance"
      BY <1>1, <1>3, <1>5 DEF InOrder
  <2>2. others[n + 1].phase = n + 1
      BY <1>2, <1>3, <1>5 DEF e, n
  <2>3. InOrder(others)
      BY <1>1, <1>3, <2>1, <2>2 DEF InOrder
  <2> QED BY <2>3 DEF OnPath, others
<1> QED BY <1>4, <1>5 DEF Fits

\* What the success path dispatches is not attempted, and behind a phase that is.
LEMMA ReadyIsNext ==
    ASSUME NEW tries, NEW always, ReadyPhase(tries, always) # NoPhase
    PROVE  /\ ReadyPhase(tries, always) \in PhaseIds \ Attempted(tries)
           /\ ReadyPhase(tries, always) - 1 \in Attempted(tries)
<1> DEFINE S == {p \in PhaseIds \ Attempted(tries) :
                    /\ RunsOnSuccessPath(p)
                    /\ RunsOnAbortPath(p) => always
                    /\ p - 1 \in Advanced(tries)}
<1>1. ReadyPhase(tries, always) = First(S)
    BY DEF ReadyPhase
<1>2. S \in SUBSET PhaseIds /\ S \subseteq PhaseIds \ Attempted(tries) /\ \A p \in S : p - 1 \in Attempted(tries)
    BY DEF Advanced
<1> HIDE DEF S
<1>3. First(S) \in S
    BY <1>1, <1>2, FirstIsMember
<1> QED BY <1>1, <1>2, <1>3

\* What a verdict dispatches fits the path, and the verdict is the last one.
LEMMA TargetFits ==
    ASSUME NEW tries \in Seq(Attempt), tries # <<>>, OnPath(tries), NEW verdict \in Decisions, verdict # "retry",
           tries[Len(tries)].decision = verdict, DispatchTarget(tries, verdict) # NoPhase
    PROVE  Fits(tries, DispatchTarget(tries, verdict))
<1> DEFINE n == Len(tries)
           t == DispatchTarget(tries, verdict)
<1>1. n \in Nat /\ n >= 1 /\ DOMAIN tries = 1..n /\ n \in 1..n
    OBVIOUS
<1>2. CASE verdict # "advance" \/ HasAbort(tries)
  <2>1. HasAbort(tries)
      BY <1>1, <1>2 DEF HasAbort, Decisions
  <2>2. t = AbortPathPhase(tries)
      BY <1>2 DEF DispatchTarget
  <2>3. t \in AbortPhases
      BY <2>2, AbortPathIsNew
  <2> QED BY <2>1, <2>3 DEF Fits
<1>3. CASE verdict = "advance" /\ ~HasAbort(tries)
  <2>1. InOrder(tries)
      BY <1>3 DEF OnPath, HasAbort
  <2>2. \A i \in 1..n : tries[i].phase = i /\ tries[i].decision = "advance"
      BY <1>1, <1>3, <2>1 DEF InOrder
  <2>3. t = ReadyPhase(tries, TRUE) \/ t = ReadyPhase(tries, FALSE)
      BY <1>3 DEF DispatchTarget
  <2>4. t \in PhaseIds \ Attempted(tries) /\ t - 1 \in Attempted(tries)
      BY <2>3, ReadyIsNext
  <2>5. Attempted(tries) = 1..n
      BY <1>1, <2>2 DEF Attempted
  <2>6. t \in Nat
      BY <2>4, WorkflowAssumption DEF PhaseIds, ValidWorkflow
  <2> HIDE DEF t
  <2>7. t = n + 1
      BY <1>1, <2>4, <2>5, <2>6
  <2> QED BY <1>1, <2>1, <2>2, <2>7 DEF Fits, t
<1> QED BY <1>2, <1>3

\* As many numbers as there are up to n.
LEMMA UpToCard == \A n \in Nat : Cardinality(1..n) = n
<1> SUFFICES ASSUME NEW n \in Nat PROVE Cardinality(1..n) = n
    OBVIOUS
<1>1. n \in Int /\ 1 \in Int /\ (1 > n <=> n = 0) /\ n - 1 + 1 = n
    OBVIOUS
<1>2. Cardinality(1..n) = IF 1 > n THEN 0 ELSE n - 1 + 1
    BY <1>1, FS_Interval
<1> QED BY <1>1, <1>2

\* The i-th of the first m phases is the i-th.
LEMMA NthOfAll == ASSUME NEW m \in Nat, NEW i \in 1..m PROVE Nth(1..m, i) = i
<1> DEFINE UpTo(p) == {q \in 1..m : q <= p}
<1>1. \A p \in 1..m : UpTo(p) = 1..p
    OBVIOUS
<1>2. \A p \in 1..m : Cardinality(UpTo(p)) = p
  <2> HIDE DEF UpTo
  <2>1. \A p \in 1..m : p \in Nat
      OBVIOUS
  <2> QED BY <1>1, <2>1, UpToCard
<1>3. Nth(1..m, i) = CHOOSE p \in 1..m : Cardinality(UpTo(p)) = i
    BY DEF Nth
<1> HIDE DEF UpTo
<1>4. \A p \in 1..m : Cardinality(UpTo(p)) = i <=> p = i
    BY <1>2
<1> QED BY <1>3, <1>4

\* What a cycle carries is counted as done.
LEMMA CarriedDone ==
    ASSUME NEW tries, NEW p, NEW i \in DOMAIN CarriedForward(tries, p)
    PROVE  LET a == CarriedForward(tries, p)[i] IN a.completed /\ a.carry /\ a.decision = "advance"
BY DEF CarriedForward, NewAttempt

\* A retry takes along every phase before the one it lands at, and goes on from there.
LEMMA RetryResumes ==
    ASSUME LandsBack, NEW tries \in Seq(Attempt), tries # <<>>, InOrder(tries),
           tries[Len(tries)].decision = "retry", Phases[tries[Len(tries)].phase].verify
    PROVE  Resumes(tries, RetryTarget(tries[Len(tries)].phase))
<1> DEFINE n == Len(tries)
           t == RetryTarget(tries[n].phase)
           m == t - 1
           c == CarriedForward(tries, t)
           S == {p \in 1..m : \E i \in DOMAIN tries : tries[i].phase = p /\ ~InFlight(tries[i])}
           Carry(p) == [NewAttempt(p) EXCEPT !.completed = TRUE, !.concl = "success",
                                             !.decision = "advance", !.carry = TRUE]
<1>1. n \in Nat /\ n >= 1 /\ DOMAIN tries = 1..n /\ n \in 1..n
    OBVIOUS
<1>2. tries[n] \in Attempt /\ tries[n].phase = n
    BY <1>1 DEF InOrder
<1>3. n \in PhaseIds
    BY <1>2 DEF Attempt
<1>4. t \in PhaseIds /\ t <= n + 1
    BY <1>2, <1>3 DEF LandsBack
<1>5. t \in Nat /\ m \in Nat
    BY <1>4, WorkflowAssumption DEF PhaseIds, ValidWorkflow
<1>6. \A i \in 1..n : tries[i].phase = i /\ ~InFlight(tries[i])
    BY <1>1 DEF InOrder, InFlight
<1> HIDE DEF t
<1>7. S = 1..m
    BY <1>1, <1>4, <1>5, <1>6
<1>8. c = [i \in 1..Cardinality(S) |-> Carry(Nth(S, i))]
    BY DEF CarriedForward
<1> HIDE DEF Carry, S, c
<1>9. c = [i \in 1..m |-> Carry(Nth(1..m, i))]
    BY <1>5, <1>7, <1>8, UpToCard
<1>10. \A i \in 1..m : c[i] = Carry(i)
  <2> SUFFICES ASSUME NEW i \in 1..m PROVE c[i] = Carry(i)
      OBVIOUS
  <2>1. Nth(1..m, i) = i
      BY <1>5, NthOfAll
  <2> QED BY <1>9, <2>1
<1>11. c \in Seq(Attempt) /\ DOMAIN c = 1..m
    BY <1>4, <1>9, CarriedType DEF c
<1>12. Len(c) = m
    BY <1>5, <1>11
<1>13. \A p : Carry(p).phase = p /\ Carry(p).decision = "advance"
    BY DEF Carry, NewAttempt
<1>14. InOrder(c) /\ (\A i \in DOMAIN c : c[i].decision = "advance") /\ t = Len(c) + 1
    BY <1>5, <1>10, <1>11, <1>12, <1>13 DEF InOrder
<1> QED BY <1>4, <1>14 DEF Resumes, Fits, c, t

-----------------------------------------------------------------------------
\* Another end of attempt i changes the route no more than its decision.
LEMMA EndRoute ==
    ASSUME NEW row \in Row, Exists(row), NEW i, NEW a,
           i \in DOMAIN row.attempts => EndOf(row.attempts[i], a)
    PROVE  LET new == WithAttempt(row, i, a)
           IN  /\ i = Latest(row) => SameRoute(row.attempts, new.attempts)
               /\ (i \in DOMAIN row.attempts => a.decision = row.attempts[i].decision)
                  => SamePath(row.attempts, new.attempts)
<1> DEFINE new   == WithAttempt(row, i, a)
           tries == [row.attempts EXCEPT ![i] = a]
<1>1. new = [row EXCEPT !.attempts = tries]
    BY DEF WithAttempt
<1>2. \A k \in DOMAIN row.attempts : tries[k] = IF k = i THEN a ELSE row.attempts[k]
    BY RowFields
<1> HIDE DEF tries
<1>3. new.attempts = tries
    BY <1>1 DEF Row
<1>4. SameJobs(row, new)
    BY WithAttemptSame
<1> HIDE DEF new
<1>5. /\ Len(new.attempts) = Len(row.attempts) /\ DOMAIN new.attempts = DOMAIN row.attempts
      /\ \A k \in DOMAIN row.attempts : new.attempts[k].phase = row.attempts[k].phase
    BY <1>4 DEF SameJobs
<1>6. ASSUME i = Latest(row) PROVE SameRoute(row.attempts, new.attempts)
  <2>1. \A k \in DOMAIN row.attempts : k < Len(row.attempts) => k # i
      BY <1>6, RowFields DEF Latest
  <2> QED BY <1>2, <1>3, <1>5, <2>1 DEF SameRoute
<1>7. ASSUME i \in DOMAIN row.attempts => a.decision = row.attempts[i].decision
      PROVE  SamePath(row.attempts, new.attempts)
    BY <1>2, <1>3, <1>5, <1>7 DEF SamePath
<1> QED BY <1>6, <1>7 DEF new

\* A write of reports: neither the path, nor the state, the entry or the lease.
ReportsOnly(old, new) ==
    /\ new.state = old.state /\ new.entry = old.entry /\ new.lease = old.lease
    /\ SamePath(old.attempts, new.attempts)
    /\ \A i \in DOMAIN old.attempts : /\ new.attempts[i].completed = old.attempts[i].completed
                                      /\ new.attempts[i].carry = old.attempts[i].carry

\* An attempt with other reports.
ReportedAttempt(old, a) ==
    /\ a \in Attempt /\ AttemptKept(old, a)
    /\ a.decision = old.decision /\ a.completed = old.completed /\ a.carry = old.carry

\* A row that did not change.
LEMMA ReportsSame == \A row : ReportsOnly(row, row)
BY DEF ReportsOnly, SamePath

\* A row with other reports of attempt i.
LEMMA ReportsWritten ==
    ASSUME NEW row \in Row, Exists(row), NEW i \in DOMAIN row.attempts, NEW a, ReportedAttempt(row.attempts[i], a)
    PROVE  ReportsOnly(row, WithReports(row, i, a))
<1> DEFINE new == WithReports(row, i, a)
<1>1. a \in Attempt /\ AttemptKept(row.attempts[i], a)
    BY DEF ReportedAttempt
<1>2. new.entry = row.entry
    BY <1>1, WithReportsSuccessor DEF Successor
<1>3. new.lease = row.lease
    BY FixedSame, FixedParts DEF Fixed
<1>4. /\ new.state = row.state
      /\ DOMAIN new.attempts = DOMAIN row.attempts /\ Len(new.attempts) = Len(row.attempts)
      /\ \A k \in DOMAIN row.attempts : new.attempts[k] = IF k = i THEN a ELSE row.attempts[k]
    BY <1>1, WithReportsAttempts
<1> HIDE DEF new
<1>5. a.phase = row.attempts[i].phase
    BY <1>1 DEF AttemptKept
<1>6. SamePath(row.attempts, new.attempts)
    BY <1>4, <1>5 DEF SamePath, ReportedAttempt
<1>7. \A k \in DOMAIN row.attempts : /\ new.attempts[k].completed = row.attempts[k].completed
                                     /\ new.attempts[k].carry = row.attempts[k].carry
    BY <1>4 DEF ReportedAttempt
<1> QED BY <1>2, <1>3, <1>4, <1>6, <1>7 DEF ReportsOnly, new

\* The report of a job is such a write.
LEMMA RecordedReports ==
    ASSUME NEW row \in Row, Exists(row), NEW i, NEW j \in JobIds, NEW o \in Outcome, CanRecord(row, i, j)
    PROVE  ReportsOnly(row, RecordedRow(row, i, j, o))
<1> DEFINE old == row.attempts[i]
           rep == [old.report EXCEPT ![j] = o]
           a   == [old EXCEPT !.report = rep]
<1>1. /\ i \in DOMAIN row.attempts /\ old \in Attempt /\ old.report \in [JobIds -> Outcome \union {NoReport}]
      /\ old.report[j] = NoReport
    BY AttemptOfRow DEF CanRecord
<1>2. rep \in [JobIds -> Outcome \union {NoReport}] /\ \A k \in JobIds \ {j} : rep[k] = old.report[k]
    BY <1>1
<1>3. RecordedRow(row, i, j, o) = WithReports(row, i, a)
    BY DEF RecordedRow
<1> HIDE DEF rep, old
<1>4. /\ a \in Attempt /\ a.report = rep /\ a.phase = old.phase /\ a.completed = old.completed
      /\ a.decision = old.decision /\ a.carry = old.carry
    BY <1>1, <1>2 DEF Attempt
<1> HIDE DEF a
<1>5. AttemptKept(old, a)
    BY <1>1, <1>2, <1>4 DEF AttemptKept
<1>6. ReportedAttempt(row.attempts[i], a)
    BY <1>4, <1>5 DEF ReportedAttempt, old
<1> QED BY <1>1, <1>3, <1>6, ReportsWritten

\* So are the reports of jobs that are skipped.
LEMMA JobsSkippedReports ==
    ASSUME NEW row \in Row, Exists(row), row.attempts # <<>>, NEW p, row.attempts[Latest(row)].phase = p
    PROVE  ReportsOnly(row, JobsSkippedRow(row, p))
<1> DEFINE i   == Latest(row)
           old == row.attempts[i]
           rep == [j \in JobIds |-> IF j \in SkippedJobs(p) THEN SkippedOutcome ELSE old.report[j]]
           a   == [old EXCEPT !.report = rep]
<1>1. i \in DOMAIN row.attempts
    BY RowFields DEF Latest
<1> HIDE DEF i
<1>2. old \in Attempt /\ old.report \in [JobIds -> Outcome \union {NoReport}]
    BY <1>1, AttemptOfRow
<1>3. SkippedOutcome \in Outcome
    BY DEF SkippedOutcome, Outcome, Conclusions, Verifications
<1>4. /\ rep \in [JobIds -> Outcome \union {NoReport}]
      /\ \A k \in JobIds : rep[k] = IF k \in SkippedJobs(p) THEN SkippedOutcome ELSE old.report[k]
    BY <1>2, <1>3
<1>5. JobsSkippedRow(row, p) = WithReports(row, i, a)
    BY DEF JobsSkippedRow, i
<1> HIDE DEF rep, old
<1>6. /\ a \in Attempt /\ a.report = rep /\ a.phase = old.phase /\ a.completed = old.completed
      /\ a.decision = old.decision /\ a.carry = old.carry
    BY <1>2, <1>4 DEF Attempt
<1> HIDE DEF a
<1>7. old.phase = p
    BY DEF old, i
<1>8. AttemptKept(old, a)
    BY <1>4, <1>6, <1>7 DEF AttemptKept
<1>9. ReportedAttempt(row.attempts[i], a)
    BY <1>6, <1>8 DEF ReportedAttempt, old
<1> QED BY <1>1, <1>5, <1>9, ReportsWritten

\* And what the pods write.
LEMMA PodReports ==
    ASSUME NEW row \in Row, Exists(row)
    PROVE  ReportsOnly(row, LinkedRow(row)) /\ \A p \in PhaseIds : ReportsOnly(row, ActiveRow(row, p))
<1>1. /\ LinkedRow(row).attempts = row.attempts /\ LinkedRow(row).state = row.state
      /\ \A p : ActiveRow(row, p).attempts = row.attempts /\ ActiveRow(row, p).state = row.state
    BY FieldsOnly
<1>2. LinkedRow(row).lease = row.lease /\ \A p : ActiveRow(row, p).lease = row.lease
    BY FixedWrites DEF Fixed
<1>3. LinkedRow(row).entry = row.entry
    BY LinkedSuccessor DEF Successor
<1>4. \A p \in PhaseIds : ActiveRow(row, p).entry = row.entry
    BY ActiveSuccessor DEF Successor
<1> HIDE DEF LinkedRow, ActiveRow
<1> QED BY <1>1, <1>2, <1>3, <1>4 DEF ReportsOnly, SamePath

-----------------------------------------------------------------------------
\* A cycle that could start still can.
LEMMA ReportsStart ==
    ASSUME NEW old, NEW new, ReportsOnly(old, new), CanStart(old) PROVE CanStart(new)
BY DEF ReportsOnly, SamePath, CanStart

\* Reports leave a row on its path.
LEMMA ReportsRouted ==
    ASSUME NEW old \in Row, NEW new, ReportsOnly(old, new), RowRouted(old) PROVE RowRouted(new)
<1>1. old.attempts \in Seq(Attempt) /\ SamePath(old.attempts, new.attempts)
    BY RowFields DEF ReportsOnly
<1>2. OnPath(new.attempts) /\ \A p : Fits(old.attempts, p) => Fits(new.attempts, p)
    BY <1>1, PathAlike DEF RowRouted
<1>3. new.state = "queued" => CanStart(new) /\ Fits(new.attempts, new.entry)
  <2>1. new.state = old.state /\ new.entry = old.entry
      BY DEF ReportsOnly
  <2> QED BY <1>2, <2>1, ReportsStart DEF RowRouted
<1>4. new.state = "review_required" => Parked(new.attempts)
    BY DEF ReportsOnly, SamePath, RowRouted, Parked
<1> QED BY <1>2, <1>3, <1>4 DEF RowRouted

\* So does another end of the last attempt, where the run goes on.
LEMMA RouteRouted ==
    ASSUME NEW old \in Row, NEW new, SameRoute(old.attempts, new.attempts), OnPath(old.attempts),
           new.state \notin {"queued", "review_required"}
    PROVE  RowRouted(new)
BY RowFields, RouteAlike DEF RowRouted

\* And an attempt that fits.
LEMMA AppendRouted ==
    ASSUME NEW old \in Row, NEW p \in PhaseIds, Fits(old.attempts, p), NEW new,
           new.attempts = Append(old.attempts, NewAttempt(p)), new.state # "queued"
    PROVE  RowRouted(new)
<1>1. old.attempts \in Seq(Attempt) /\ NewAttempt(p) \in Attempt
    BY RowFields, NewAttemptType
<1>2. OnPath(new.attempts)
    BY <1>1, FitsAppends
<1>3. new.attempts[Len(new.attempts)] = NewAttempt(p) /\ Len(new.attempts) \in DOMAIN new.attempts
  <2> HIDE DEF NewAttempt
  <2> QED BY <1>1
<1>4. Parked(new.attempts)
    BY <1>3 DEF Parked, NewAttempt
<1> QED BY <1>2, <1>4 DEF RowRouted

-----------------------------------------------------------------------------
\* A goroutine that waits for its turn is to append nothing, nor is one that settles a run.
LEMMA RestsLed ==
    ASSUME NEW rows, NEW ls, NEW h, ~Acting(h) \/ h.pc \in Free PROVE Led(rows, ls, h)
BY DEF Acting, Resting, Free, Led, Leads, Secured

\* Whoever acts awaits nobody.
LEMMA ActsSilent ==
    ASSUME Inductive, Turn', NEW q \in Procs, NEW n, Become(q, n), Acting(n) PROVE NoneAwaited(runs', Heard')
<1>1. handlers'[q] = n
    BY Parts DEF Become
<1>2. ActsAlone'
    BY DEF Turn
<1> QED BY <1>1, <1>2 DEF ActsAlone

\* A write of the goroutine whose turn it is, after which no more is awaited.
LEMMA QuietWrite ==
    ASSUME Inductive, NoneAwaited(runs, Heard), UNCHANGED pods, NEW c \in Cycles, NEW row, Write(c, row),
           Quieter(runs[c].attempts, row.attempts, Heard, c)
    PROVE  NoneAwaited(runs', Heard')
<1>1. \A d \in Cycles : runs'[d] = IF d = c THEN row ELSE runs[d]
    BY Parts DEF Write
<1>2. Heard' = Heard
    BY DEF Heard
<1> QED BY <1>1, <1>2 DEF NoneAwaited, Quieter

\* A goroutine takes the turn, or goes on with it.
LEMMA TakesRoute ==
    ASSUME Inductive, NEW q \in Procs, NEW n, Become(q, n), \A r \in Procs : r # q => ~Acting(handlers[r]),
           RowsRouted', AwaitedSecured', Led(runs', leases', n)
    PROVE  Routed'
<1>1. \A r \in Procs : handlers'[r] = IF r = q THEN n ELSE handlers[r]
    BY Parts DEF Become
<1>2. \A r \in Procs : Led(runs', leases', handlers'[r])
    BY <1>1, RestsLed
<1> QED BY <1>2 DEF Routed

\* The one that has it writes a row.
LEMMA ActsRoute ==
    ASSUME Inductive, Turn, Routed, NEW q \in Procs, Acting(handlers[q]), NEW n, Become(q, n),
           NEW c \in Cycles, NEW row, Write(c, row), RowRouted(row), NoneAwaited(runs', Heard'),
           Led(runs', leases', n)
    PROVE  Routed'
<1>1. \A r \in Procs : r # q => ~Acting(handlers[r])
    BY DEF Turn, OneActs
<1>2. \A d \in Cycles : runs'[d] = IF d = c THEN row ELSE runs[d]
    BY Parts DEF Write
<1>3. RowsRouted'
    BY <1>2 DEF Routed, RowsRouted
<1>4. AwaitedSecured'
    BY DEF AwaitedSecured, NoneAwaited
<1> QED BY <1>1, <1>3, <1>4, TakesRoute

\* Or none.
LEMMA ActsRouteOnly ==
    ASSUME Inductive, Turn, Routed, NEW q \in Procs, Acting(handlers[q]), NEW n, Become(q, n),
           UNCHANGED <<runs, pods>>, Led(runs, leases', n)
    PROVE  Routed'
<1>1. \A r \in Procs : r # q => ~Acting(handlers[r])
    BY DEF Turn, OneActs
<1>2. RowsRouted'
    BY DEF Routed, RowsRouted
<1>3. NoneAwaited(runs, Heard) /\ Heard' = Heard
    BY DEF Turn, ActsAlone, Heard
<1>4. AwaitedSecured'
    BY <1>3 DEF AwaitedSecured, NoneAwaited
<1>5. Led(runs', leases', n)
    OBVIOUS
<1> QED BY <1>1, <1>2, <1>4, <1>5, TakesRoute

\* What a goroutine is to append still fits after reports.
LEMMA LedKept ==
    ASSUME \A c \in Cycles : ReportsOnly(runs[c], runs'[c]), \A c \in Cycles : runs[c] \in Row,
           NEW h, Good(runs, h), Led(runs, leases, h)
    PROVE  Led(runs', leases, h)
<1>1. /\ h.pc # "idle" => h.run \in Cycles
      /\ h.pc \in Launching => h.on \in Cycles
    BY DEF Good, HandlerOK
<1>2. ASSUME NEW c \in Cycles
      PROVE  /\ runs'[c].lease = runs[c].lease /\ runs'[c].state = runs[c].state
             /\ SamePath(runs[c].attempts, runs'[c].attempts)
             /\ CanStart(runs[c]) => CanStart(runs'[c])
             /\ \A p : Fits(runs[c].attempts, p) => Fits(runs'[c].attempts, p)
  <2>1. runs[c] \in Row /\ ReportsOnly(runs[c], runs'[c])
      OBVIOUS
  <2>2. CanStart(runs[c]) => CanStart(runs'[c])
      BY <2>1, ReportsStart
  <2>3. \A p : Fits(runs[c].attempts, p) => Fits(runs'[c].attempts, p)
      BY <2>1, RowFields, PathAlike DEF ReportsOnly
  <2> QED BY <2>1, <2>2, <2>3 DEF ReportsOnly
<1>3. Leads(runs, h) /\ Secured(runs, leases, h)
    BY DEF Led
<1>4. Secured(runs', leases, h)
    BY <1>1, <1>2, <1>3 DEF Secured, Launching
<1>5. /\ h.pc \in {"dispatch", "start", "acquire"} => Fits(runs'[h.on].attempts, h.target)
      /\ h.pc = "start" /\ h.mode # "admit" => CanStart(runs'[h.on])
      /\ h.pc \in {"stamp", "decide"} => runs'[h.run].state # "queued"
      /\ h.pc \in {"dispatch", "skip"} => runs'[h.on].state # "queued"
    BY <1>1, <1>2, <1>3 DEF Leads, Launching
<1>6. h.pc = "decide" => SamePath(h.base.attempts, runs'[h.run].attempts)
  <2> SUFFICES ASSUME h.pc = "decide" PROVE SamePath(h.base.attempts, runs'[h.run].attempts)
      OBVIOUS
  <2>1. h.run \in Cycles /\ SamePath(h.base.attempts, runs[h.run].attempts)
      BY <1>1, <1>3 DEF Leads
  <2>2. SamePath(runs[h.run].attempts, runs'[h.run].attempts)
      BY <1>2, <2>1
  <2> QED BY <2>1, <2>2, SamePathTwice
<1>7. Leads(runs', h)
    BY <1>3, <1>5, <1>6 DEF Leads
<1> QED BY <1>4, <1>7 DEF Led

\* A step that only reports, and gives the turn to nobody.
LEMMA GoesRoute ==
    ASSUME Inductive, Routed, Heard' = Heard, UNCHANGED leases,
           \A c \in Cycles : /\ ReportsOnly(runs[c], runs'[c])
                             /\ Quieter(runs[c].attempts, runs'[c].attempts, Heard, c),
           \A r \in Procs : handlers'[r] = handlers[r] \/ ~Acting(handlers'[r])
    PROVE  Routed'
<1>1. /\ \A c \in Cycles : runs[c] \in Row
      /\ \A c \in Cycles : ReportsOnly(runs[c], runs'[c])
    BY Parts
<1>2. \A r \in Procs : Good(runs, handlers[r]) /\ Led(runs, leases, handlers[r])
    BY Parts DEF Routed
<1>3. \A r \in Procs : Led(runs', leases, handlers[r])
    BY <1>1, <1>2, LedKept
<1>4. \A r \in Procs : Led(runs', leases', handlers'[r])
    BY <1>3, RestsLed
<1>5. RowsRouted'
    BY <1>1, ReportsRouted DEF Routed, RowsRouted
<1>6. AwaitedSecured'
  <2> SUFFICES ASSUME NEW c \in Cycles, NEW i \in Nat, Awaiting(runs'[c].attempts, Heard, c, i)
               PROVE  Claimed(leases, runs'[c].lease)
      BY DEF AwaitedSecured
  <2>1. Awaiting(runs[c].attempts, Heard, c, i)
      BY DEF Quieter
  <2>2. Claimed(leases, runs[c].lease)
      BY <2>1 DEF Routed, AwaitedSecured
  <2> QED BY <1>1, <2>2 DEF ReportsOnly
<1> QED BY <1>4, <1>5, <1>6 DEF Routed

\* The step of a goroutine that waits on.
LEMMA GoesRouteOnly ==
    ASSUME Inductive, Routed, Heard' = Heard, UNCHANGED <<runs, leases>>, NEW q \in Procs, NEW n,
           Become(q, n), ~Acting(n)
    PROVE  Routed'
<1>1. \A r \in Procs : handlers'[r] = IF r = q THEN n ELSE handlers[r]
    BY Parts DEF Become
<1>2. \A c \in Cycles : /\ ReportsOnly(runs[c], runs'[c])
                        /\ Quieter(runs[c].attempts, runs'[c].attempts, Heard, c)
    BY ReportsSame DEF Quieter
<1> QED BY <1>1, <1>2, GoesRoute

-----------------------------------------------------------------------------
\* A report changes no path; the one that completes its phase passes the turn on, with a lease
\* that is claimed.
LEMMA RecordRoute ==
    ASSUME Inductive, LedgerKept, Turn, Turn', Routed, NEW q \in Procs, ~Acting(handlers[q]), Heard' = Heard,
           UNCHANGED leases, NEW c \in Cycles, Exists(runs[c]), NEW i, NEW j \in JobIds, NEW o \in Outcome,
           Record(q, c, i, j, o), Speaks(runs[c].attempts, Heard, c, i, j)
    PROVE  Routed'
<1> DEFINE row == RecordedRow(runs[c], i, j, o)
           agg == Aggregate(row.attempts[i])
<1>0. runs[c] \in Row
    BY Parts
<1>1. CASE ~CanRecord(runs[c], i, j)
  <2>1. Become(q, Idle) /\ UNCHANGED runs
      BY <1>1 DEF Record
  <2> QED BY <2>1, FreeStarts, GoesRouteOnly
<1>2. CASE CanRecord(runs[c], i, j)
  <2>1. Write(c, row) /\ i \in DOMAIN runs[c].attempts
      BY <1>2 DEF Record, CanRecord
  <2>2. i \in Nat
      BY <1>0, <2>1, AttemptOfRow
  <2>3. \A d \in Cycles : runs'[d] = IF d = c THEN row ELSE runs[d]
      BY <2>1, Parts DEF Write
  <2>4. ReportsOnly(runs[c], row)
      BY <1>0, <1>2, RecordedReports
  <2>5. HeardOnly(Heard, c, runs[c], row)
      BY <1>0, <1>2, RecordedHeard
  <2>6. CASE ~CompletionReady(row, i)
    <3>1. Become(q, Idle)
        BY <1>2, <2>6 DEF Record
    <3> HIDE DEF row
    <3>2. Quieter(runs[c].attempts, row.attempts, Heard, c)
        BY <1>0, <2>5, HeardOnlyQuieter
    <3>3. \A d \in Cycles : /\ ReportsOnly(runs[d], runs'[d])
                            /\ Quieter(runs[d].attempts, runs'[d].attempts, Heard, d)
        BY <2>3, <2>4, <3>2, ReportsSame DEF Quieter
    <3>4. \A r \in Procs : handlers'[r] = handlers[r] \/ ~Acting(handlers'[r])
        BY <3>1, Parts, FreeStarts DEF Become
    <3> QED BY <3>3, <3>4, GoesRoute
  <2>7. CASE CompletionReady(row, i)
    <3>1. Become(q, Stamping(c, agg))
        BY <1>2, <2>7 DEF Record
    <3>2. Awaiting(runs[c].attempts, Heard, c, i)
        BY <1>2, <2>1, <2>7, ReadyWasAwaited
    <3>3. Claimed(leases, runs[c].lease) /\ \A r \in Procs : ~Acting(handlers[r])
        BY <2>2, <3>2 DEF Turn, ActsAlone, NoneAwaited, Routed, AwaitedSecured
    <3>4. runs[c].state # "queued"
        BY <2>1, <3>2 DEF Awaiting, Routed, RowsRouted, RowRouted, CanStart
    <3> HIDE DEF row, agg
    <3>5. RowsRouted'
        BY <1>0, <2>3, <2>4, ReportsRouted DEF Routed, RowsRouted
    <3>6. Stamping(c, agg).pc = "stamp" /\ Stamping(c, agg).run = c
        BY DEF Stamping, Idle
    <3> DEFINE n == Stamping(c, agg)
    <3> HIDE DEF n
    <3>7. n.pc = "stamp" /\ n.run = c /\ Become(q, n)
        BY <3>1, <3>6 DEF n
    <3>8. runs'[c].state # "queued" /\ Claimed(leases', runs'[c].lease)
        BY <2>3, <2>4, <3>3, <3>4 DEF ReportsOnly
    <3>9. Led(runs', leases', n)
        BY <3>7, <3>8 DEF Led, Leads, Secured
    <3>10. Acting(n)
        BY <3>7 DEF Acting, Resting
    <3>11. AwaitedSecured'
        BY <3>7, <3>10, ActsSilent DEF AwaitedSecured, NoneAwaited
    <3> QED BY <3>3, <3>5, <3>7, <3>9, <3>11, TakesRoute
  <2> QED BY <2>6, <2>7
<1> QED BY <1>1, <1>2

\* The report the watcher makes up.
LEMMA SynthesizeRoute ==
    ASSUME Inductive, LedgerKept, Turn, Turn', Routed, NEW q \in Procs, Synthesize(q) PROVE Routed'
<1> DEFINE h == handlers[q]
<1>1. h.pc = "synth" /\ UNCHANGED <<pods, leases>>
    BY DEF Synthesize, At
<1>2. PICK j \in h.todo : Record(q, h.run, Latest(runs[h.run]), j, LostOutcome)
    BY DEF Synthesize
<1>3. h.run \in Cycles /\ Exists(runs[h.run]) /\ j \in JobIds
    BY <1>1, <1>2, AtStep, Parts, HandlerFields DEF At, Busy
<1>4. HeardIn(Heard, h.run, j)
    BY <1>1, <1>2 DEF Turn, Apt, Waits
<1>5. Speaks(runs[h.run].attempts, Heard, h.run, Latest(runs[h.run]), j)
    BY <1>4 DEF HeardIn, Speaks, Latest
<1>6. ~Acting(h) /\ Heard' = Heard
    BY <1>1 DEF Acting, Resting, Heard
<1> HIDE DEF h
<1> QED BY <1>1, <1>2, <1>3, <1>5, <1>6, LostType, RecordRoute DEF h

\* The report a pod sends.
LEMMA CallbackRoute ==
    ASSUME Inductive, LedgerKept, Turn, Turn', Routed, NEW q \in Procs, NEW pod \in pods, Callback(q, pod)
    PROVE  Routed'
<1>1. handlers[q].pc = "idle" /\ UNCHANGED leases /\ \E st : PodBecomes(pod, st)
    BY DEF Callback, At
<1>2. PICK o \in Outcomes[PhaseOf(pod)] : Record(q, pod.run, pod.att, pod.job, o)
    BY DEF Callback
<1>3. o \in Outcome
    BY <1>2, PodFacts, LifecycleAssumption
<1>4. Heard' = Heard
    BY <1>1, PodMovesHeard
<1>5. Speaks(runs[pod.run].attempts, Heard, pod.run, pod.att, pod.job)
    BY PodHeard DEF Speaks
<1>6. ~Acting(handlers[q])
    BY <1>1 DEF Acting, Resting
<1> QED BY <1>1, <1>2, <1>3, <1>4, <1>5, <1>6, PodFacts, RecordRoute

\* The watcher, the drain and a crash.
LEMMA WaitingRoute ==
    ASSUME Inductive, Turn, Routed, NEW q \in Procs,
           \/ \E pod \in pods : Watch(q, pod)
           \/ \E c \in Cycles : Approve(q, c) \/ CancelReview(q, c)
           \/ Crash(q)
    PROVE  Routed'
<1>1. UNCHANGED <<runs, leases>>
    BY DEF Watch, Approve, CancelReview, ReviewSignal, Crash
<1>2. Heard' = Heard
  <2>1. UNCHANGED pods \/ \E pod \in pods : PodBecomes(pod, "seen")
      BY DEF Watch, Approve, CancelReview, ReviewSignal, Crash
  <2> QED BY <2>1, PodMovesHeard DEF Heard
<1>3. \E n : Become(q, n) /\ ~Acting(n)
  <2>1. CASE Crash(q)
      BY <2>1, FreeStarts DEF Crash
  <2>2. ASSUME NEW pod \in pods, Watch(q, pod) PROVE \E n : Become(q, n) /\ ~Acting(n)
    <3> DEFINE c == pod.run
               todo == {pod.job}
               n == [Idle EXCEPT !.pc = "synth", !.run = c, !.todo = todo]
    <3>1. Become(q, n) \/ Become(q, Idle)
        BY <2>2 DEF Watch
    <3> HIDE DEF c, todo
    <3>2. ~Acting(n)
        BY DEF Idle, Acting, Resting
    <3> HIDE DEF n
    <3> QED BY <3>1, <3>2, FreeStarts
  <2>3. ASSUME NEW c \in Cycles, NEW kind, NEW step \in {"opengate", "cancelgate"}, ReviewSignal(q, c, kind, step)
        PROVE  \E n : Become(q, n) /\ ~Acting(n)
    <3>1. PICK i \in ParkedGates(c) :
              Become(q, [Idle EXCEPT !.pc = step, !.mode = kind, !.run = c, !.on = c, !.base = runs[c],
                                     !.att = i, !.target = runs[c].attempts[i].phase,
                                     !.todo = ExpectedJobs(runs[c].attempts[i].phase)])
        BY <2>3 DEF ReviewSignal
    <3> DEFINE base == runs[c]
               p    == runs[c].attempts[i].phase
               todo == ExpectedJobs(p)
               n    == [Idle EXCEPT !.pc = step, !.mode = kind, !.run = c, !.on = c, !.base = base,
                                    !.att = i, !.target = p, !.todo = todo]
    <3>2. Become(q, n)
        BY <3>1
    <3> HIDE DEF base, p, todo
    <3>3. n.pc = step
        BY DEF Idle
    <3> HIDE DEF n
    <3>4. ~Acting(n)
        BY <3>3 DEF Acting, Resting
    <3> QED BY <3>2, <3>4
  <2>4. ASSUME NEW c \in Cycles, Approve(q, c) \/ CancelReview(q, c) PROVE \E n : Become(q, n) /\ ~Acting(n)
    <3>1. ReviewSignal(q, c, "approve", "opengate") \/ ReviewSignal(q, c, "cancel", "cancelgate")
        BY <2>4 DEF Approve, CancelReview
    <3> QED BY <2>3, <3>1
  <2> QED BY <2>1, <2>2, <2>4
<1> QED BY <1>1, <1>2, <1>3, GoesRouteOnly

\* Pods by themselves.
LEMMA PodsRoute ==
    ASSUME Inductive, Turn, Routed, PodStep \/ (\E pod \in pods : PodKilled(pod)) \/ UNCHANGED vars
    PROVE  Routed'
<1>1. UNCHANGED <<handlers, leases>>
    BY DEF PodStep, PodKilled, PodStart, LinkPullRequest, MergePullRequest, vars
<1>2. Heard' = Heard
  <2>1. UNCHANGED pods \/ \E pod \in pods : \E st : PodBecomes(pod, st)
      BY DEF PodStep, PodKilled, PodStart, LinkPullRequest, MergePullRequest, vars
  <2> QED BY <2>1, PodMovesHeard DEF Heard
<1>3. \A c \in Cycles : /\ ReportsOnly(runs[c], runs'[c])
                        /\ Quieter(runs[c].attempts, runs'[c].attempts, Heard, c)
  <2>1. ASSUME NEW pod \in pods, NEW row, Write(pod.run, row), ReportsOnly(runs[pod.run], row),
               row.attempts = runs[pod.run].attempts, NEW c \in Cycles
        PROVE  /\ ReportsOnly(runs[c], runs'[c])
               /\ Quieter(runs[c].attempts, runs'[c].attempts, Heard, c)
    <3>1. runs'[c] = IF c = pod.run THEN row ELSE runs[c]
        BY <2>1, Parts DEF Write
    <3> QED BY <2>1, <3>1, ReportsSame DEF Quieter
  <2>2. CASE UNCHANGED runs
      BY <2>2, ReportsSame DEF Quieter
  <2>3. CASE ~UNCHANGED runs
    <3>1. PICK pod \in pods : PodStart(pod) \/ LinkPullRequest(pod)
        BY <2>3 DEF PodStep, PodKilled, MergePullRequest, vars
    <3>2. \/ Write(pod.run, ActiveRow(runs[pod.run], PhaseOf(pod)))
          \/ Write(pod.run, LinkedRow(runs[pod.run]))
        BY <3>1 DEF PodStart, LinkPullRequest
    <3>3. runs[pod.run] \in Row /\ Exists(runs[pod.run]) /\ PhaseOf(pod) \in PhaseIds
        BY Parts, AttemptOfRow DEF PhaseOf
    <3> QED BY <2>1, <3>2, <3>3, PodReports, FieldsOnly
  <2> QED BY <2>2, <2>3
<1>4. \A r \in Procs : handlers'[r] = handlers[r]
    BY <1>1
<1> QED BY <1>1, <1>2, <1>3, <1>4, GoesRoute

\* The queue looks at a cycle, whose entry fits.
LEMMA AdmitRoute ==
    ASSUME Inductive, Turn, Turn', Routed, NEW q \in Procs, NEW c \in Cycles, Admit(q, c) PROVE Routed'
<1> DEFINE base  == runs[c]
           entry == runs[c].entry
           n     == [Idle EXCEPT !.pc = "acquire", !.mode = "admit", !.run = c, !.on = c,
                                 !.base = base, !.target = entry]
<1>1. Spend("poll") /\ Become(q, n) /\ UNCHANGED <<runs, pods>> /\ runs[c].state = "queued"
    BY DEF Admit
<1>2. left["poll"] # 0
    BY <1>1, SpentFew DEF EventKinds
<1>3. \A r \in Procs : ~Acting(handlers[r])
    BY <1>2 DEF Turn, PollFirst
<1>4. Fits(runs[c].attempts, entry)
    BY <1>1 DEF Routed, RowsRouted, RowRouted
<1> HIDE DEF base, entry
<1>5. n.pc = "acquire" /\ n.on = c /\ n.target = entry
    BY DEF Idle
<1> HIDE DEF n
<1>6. Led(runs', leases', n)
    BY <1>1, <1>4, <1>5 DEF Led, Leads, Secured
<1>7. Acting(n)
    BY <1>5 DEF Acting, Resting
<1>8. AwaitedSecured'
    BY <1>1, <1>7, ActsSilent DEF AwaitedSecured, NoneAwaited
<1>9. RowsRouted'
    BY <1>1 DEF Routed, RowsRouted
<1> QED BY <1>1, <1>3, <1>6, <1>8, <1>9, TakesRoute

-----------------------------------------------------------------------------
\* The same path but for its last decision, which is the verdict.
EndedAs(tries, others, verdict) == SameRoute(tries, others) /\ others[Len(others)].decision = verdict

\* The same path that ends the same is the same path.
LEMMA EndedAlike ==
    ASSUME NEW tries \in Seq(Attempt), NEW others, SamePath(tries, others), NEW verdict,
           NEW ends \in Seq(Attempt), EndedAs(tries, ends, verdict), NEW finals, EndedAs(others, finals, verdict)
    PROVE  SamePath(ends, finals)
<1> DEFINE n == Len(tries)
<1>1. n \in Nat /\ DOMAIN tries = 1..n
    OBVIOUS
<1>2. /\ Len(others) = n /\ DOMAIN others = 1..n /\ Len(ends) = n /\ DOMAIN ends = 1..n
      /\ Len(finals) = n /\ DOMAIN finals = 1..n
    BY <1>1 DEF SamePath, EndedAs, SameRoute
<1> HIDE DEF n
<1>3. ASSUME NEW k \in 1..n
      PROVE  ends[k].phase = finals[k].phase /\ ends[k].decision = finals[k].decision
  <2>1. tries[k].phase = others[k].phase /\ tries[k].decision = others[k].decision
      BY <1>1, <1>3 DEF SamePath
  <2>2. ends[k].phase = tries[k].phase /\ finals[k].phase = others[k].phase
      BY <1>1, <1>2, <1>3 DEF EndedAs, SameRoute
  <2>3. CASE k = n
      BY <1>2, <2>1, <2>2, <2>3 DEF EndedAs
  <2>4. CASE k # n
    <3>1. k < n
        BY <1>1, <2>4
    <3>2. Len(tries) = n
        BY DEF n
    <3>3. tries[k].decision = ends[k].decision /\ others[k].decision = finals[k].decision
        BY <1>1, <1>2, <3>1, <3>2 DEF EndedAs, SameRoute
    <3> QED BY <2>1, <2>2, <3>3
  <2> QED BY <2>3, <2>4
<1> QED BY <1>2, <1>3 DEF SamePath

\* Another end of the last attempt.
LEMMA LastEnd ==
    ASSUME NEW row \in Row, Exists(row), row.attempts # <<>>, NEW a, EndOf(row.attempts[Latest(row)], a)
    PROVE  EndedAs(row.attempts, WithAttempt(row, Latest(row), a).attempts, a.decision)
<1> DEFINE i     == Latest(row)
           new   == WithAttempt(row, i, a)
           tries == [row.attempts EXCEPT ![i] = a]
<1>1. i \in DOMAIN row.attempts /\ i = Len(row.attempts)
    BY RowFields DEF Latest
<1>2. SameRoute(row.attempts, new.attempts)
    BY EndRoute
<1>3. new = [row EXCEPT !.attempts = tries]
    BY DEF WithAttempt
<1>4. tries[i] = a
    BY <1>1, RowFields
<1> HIDE DEF tries, i
<1>5. new.attempts = tries
    BY <1>3 DEF Row
<1> HIDE DEF new
<1>6. Len(new.attempts) = i
    BY <1>1, <1>2 DEF SameRoute
<1> QED BY <1>2, <1>4, <1>5, <1>6 DEF EndedAs, new, i

\* The completion engine's writes, and the skip of a phase.
LEMMA EndsRoute ==
    ASSUME NEW row \in Row, Exists(row), row.attempts # <<>>
    PROVE  /\ \A payload \in Payload : SamePath(row.attempts, StampedRow(row, payload).attempts)
           /\ \A verdict \in Decisions : EndedAs(row.attempts, DecidedRow(row, verdict).attempts, verdict)
           /\ \A verdict \in Decisions, payload \in Payload :
                 EndedAs(row.attempts, DecidedCopy(row, verdict, payload).attempts, verdict)
           /\ EndedAs(row.attempts, PhaseSkippedRow(row).attempts, "advance")
<1> DEFINE i   == Latest(row)
           old == row.attempts[i]
<1>1. i \in DOMAIN row.attempts
    BY RowFields DEF Latest
<1>2. old \in Attempt
    BY <1>1, AttemptOfRow
<1>3. ASSUME NEW payload \in Payload PROVE SamePath(row.attempts, StampedRow(row, payload).attempts)
  <2> DEFINE a    == StampedAttempt(old, payload)
             mid  == WithAttempt(row, i, a)
             cost == mid.cost + payload.cost
             new  == [mid EXCEPT !.cost = cost]
  <2>1. EndOf(old, a) /\ a.decision = old.decision
    <3> HIDE DEF old
    <3>1. payload.concl \in Conclusions /\ payload.verif \in Verifications /\ payload.abort \in BOOLEAN
        BY DEF Payload
    <3> QED BY <1>2, <3>1 DEF EndOf, StampedAttempt, Attempt
  <2>2. StampedRow(row, payload) = new
      BY DEF StampedRow
  <2> HIDE DEF a
  <2>3. SamePath(row.attempts, mid.attempts)
      BY <2>1, EndRoute
  <2>4. mid \in Row
    <3>1. a \in Attempt /\ AttemptKept(old, a)
        BY <2>1 DEF EndOf, AttemptKept
    <3> QED BY <3>1, WithAttemptSuccessor DEF Successor
  <2> HIDE DEF mid, cost
  <2>5. new.attempts = mid.attempts
      BY <2>4 DEF Row
  <2> QED BY <2>2, <2>3, <2>5
<1>4. ASSUME NEW verdict \in Decisions
      PROVE  EndedAs(row.attempts, DecidedRow(row, verdict).attempts, verdict)
  <2> DEFINE a == [old EXCEPT !.decision = verdict]
  <2>1. EndOf(old, a) /\ a.decision = verdict
    <3> HIDE DEF old
    <3> QED BY <1>2 DEF EndOf, Attempt
  <2>2. DecidedRow(row, verdict) = WithAttempt(row, i, a)
      BY DEF DecidedRow
  <2> HIDE DEF a
  <2> QED BY <2>1, <2>2, LastEnd
<1>5. ASSUME NEW verdict \in Decisions, NEW payload \in Payload
      PROVE  EndedAs(row.attempts, DecidedCopy(row, verdict, payload).attempts, verdict)
  <2> DEFINE concl == payload.concl
             a == [old EXCEPT !.decision = verdict, !.completed = TRUE, !.concl = concl]
  <2>1. EndOf(old, a) /\ a.decision = verdict
    <3>1. concl \in Conclusions
        BY DEF Payload
    <3> HIDE DEF old, concl
    <3> QED BY <1>2, <3>1 DEF EndOf, Attempt
  <2>2. DecidedCopy(row, verdict, payload) = WithAttempt(row, i, a)
      BY DEF DecidedCopy
  <2> HIDE DEF a
  <2> QED BY <2>1, <2>2, LastEnd
<1>6. EndedAs(row.attempts, PhaseSkippedRow(row).attempts, "advance")
  <2> DEFINE a == [old EXCEPT !.concl = "skipped", !.decision = "advance", !.completed = TRUE]
  <2>1. EndOf(old, a) /\ a.decision = "advance"
    <3> HIDE DEF old
    <3> QED BY <1>2 DEF EndOf, Attempt, Conclusions, Decisions
  <2>2. PhaseSkippedRow(row) = WithAttempt(row, i, a)
      BY DEF PhaseSkippedRow
  <2> HIDE DEF a
  <2> QED BY <2>1, <2>2, LastEnd
<1> QED BY <1>3, <1>4, <1>5, <1>6

\* The reviewer's cancel of the last attempt.
LEMMA CancelledRoute ==
    ASSUME NEW row \in Row, Exists(row), row.attempts # <<>>
    PROVE  EndedAs(row.attempts, CancelledRow(row, Latest(row)).attempts, "abort_requested")
<1> DEFINE i    == Latest(row)
           old  == row.attempts[i]
           p    == old.phase
           a    == [old EXCEPT !.decision = "abort_requested", !.concl = "cancelled", !.completed = TRUE]
           back == [row EXCEPT !.state = "in_progress"]
           mid  == WithAttempt(back, i, a)
           new  == WithExec(mid, p, "finished")
<1>1. i \in DOMAIN row.attempts
    BY RowFields DEF Latest
<1>2. old \in Attempt
    BY <1>1, AttemptOfRow
<1>3. EndOf(old, a) /\ a.decision = "abort_requested"
  <2> HIDE DEF old
  <2> QED BY <1>2 DEF EndOf, Attempt, Conclusions, Decisions, AbortDecisions
<1>4. CancelledRow(row, i) = new
    BY DEF CancelledRow
<1>5. Successor(row, back) /\ back.attempts = row.attempts /\ Latest(back) = i
  <2>1. Successor(row, back) /\ back.attempts = row.attempts
      BY StateSuccessor DEF RowStates
  <2> QED BY <2>1 DEF Latest
<1> HIDE DEF a, back
<1>6. EndedAs(row.attempts, mid.attempts, "abort_requested")
    BY <1>3, <1>5, LastEnd DEF Successor
<1>7. mid \in Row /\ Exists(mid)
  <2>1. a \in Attempt /\ AttemptKept(back.attempts[i], a)
      BY <1>3, <1>5 DEF EndOf, AttemptKept
  <2> QED BY <1>5, <2>1, WithAttemptSuccessor DEF Successor
<1> HIDE DEF mid, p
<1>8. new.attempts = mid.attempts
    BY <1>7, WithExecSuccessor DEF ExecStates
<1> HIDE DEF new
<1> QED BY <1>4, <1>6, <1>8 DEF i

-----------------------------------------------------------------------------
\* While somebody acts nothing is awaited, and nothing is in review.
LEMMA ActsQuiet ==
    ASSUME Turn, NEW q \in Procs, Acting(handlers[q])
    PROVE  NoneAwaited(runs, Heard) /\ \A c \in Cycles : runs[c].state # "review_required"
BY DEF Turn, ActsAlone, NoReview

\* The steps that end a run are free.
LEMMA SettlingFree ==
    ASSUME Inductive, NEW q \in Procs,
           \/ SettleRead(q) \/ AbortRead(q) \/ Patch(q) \/ DropLease(q)
           \/ Unlock(q) \/ ReleaseLease(q) \/ CloseIssue(q)
    PROVE  \E n : Become(q, n) /\ n.pc \in Free
<1> DEFINE h == handlers[q]
<1>0. h \in Handlers
    BY Parts
<1>1. CASE SettleRead(q) \/ AbortRead(q)
  <2> DEFINE state == runs[h.run].state
             lease == runs[h.run].lease
             n     == [h EXCEPT !.pc = "patch", !.pre = state, !.lease = lease]
             m     == [h EXCEPT !.pc = "release", !.lease = lease]
  <2>1. Become(q, n) \/ Become(q, Idle) \/ Become(q, m)
      BY <1>1 DEF SettleRead, AbortRead
  <2> HIDE DEF state, lease, h
  <2>2. n.pc \in Free /\ m.pc \in Free
      BY <1>0 DEF Handlers, Free
  <2> HIDE DEF n, m
  <2> QED BY <2>1, <2>2, FreeStarts
<1>2. CASE Patch(q)
    BY <1>0, <1>2, FreeMoves DEF Patch, Free
<1>3. CASE DropLease(q) \/ Unlock(q) \/ ReleaseLease(q) \/ CloseIssue(q)
  <2>1. \/ Become(q, AfterDrop(h)) \/ Become(q, AfterUnlock(h, Preserve)) \/ Become(q, AfterRelease(h))
        \/ Become(q, Idle)
      BY <1>3 DEF DropLease, Unlock, ReleaseLease, CloseIssue
  <2>2. AfterDrop(h).pc \in Free /\ AfterRelease(h).pc \in Free /\ AfterUnlock(h, Preserve).pc \in Free
    <3>1. [h EXCEPT !.pc = "close"].pc \in Free /\ [h EXCEPT !.pc = "release"].pc \in Free
        BY <1>0, FreeMoves DEF Free
    <3> HIDE DEF h
    <3> QED BY <3>1, FreeStarts DEF AfterDrop, AfterRelease, AfterUnlock
  <2> QED BY <2>1, <2>2, FreeStarts
<1> QED BY <1>1, <1>2, <1>3

\* The end of a run.
LEMMA SettlingRoute ==
    ASSUME Inductive, Turn, Routed, NEW q \in Procs,
           \/ SettleRead(q) \/ AbortRead(q) \/ Patch(q) \/ DropLease(q)
           \/ Unlock(q) \/ ReleaseLease(q) \/ CloseIssue(q)
    PROVE  Routed'
<1> DEFINE h == handlers[q]
<1>0. h \in Handlers
    BY Parts
<1>1. pods' = pods /\ (runs' = runs \/ Patch(q)) /\ Acting(h)
    BY DEF SettleRead, AbortRead, Patch, DropLease, Unlock, ReleaseLease, CloseIssue, At, Acting, Resting
<1>2. PICK n : Become(q, n) /\ n.pc \in Free
    BY SettlingFree
<1>3. Led(runs, leases', n) /\ Led(runs', leases', n)
    BY <1>2, RestsLed
<1>4. CASE runs' = runs
    BY <1>1, <1>2, <1>3, <1>4, ActsRouteOnly
<1>5. CASE Patch(q)
  <2> DEFINE c   == h.run
             row == SettledRow(runs[c], h.end)
  <2>1. Write(c, row) /\ ~At(q, "idle")
      BY <1>5 DEF Patch, At
  <2>2. c \in Cycles /\ runs[c] \in Row /\ Exists(runs[c]) /\ h.end \in {"passed", "aborted"}
      BY <1>0, <2>1, AtStep, Parts, HandlerFields DEF Busy
  <2>3. row.attempts = runs[c].attempts /\ row.state = h.end
      BY <2>2, FieldsOnly
  <2> HIDE DEF row
  <2>4. RowRouted(row)
    <3>1. SameRoute(runs[c].attempts, row.attempts) /\ OnPath(runs[c].attempts)
        BY <2>2, <2>3 DEF SameRoute, Routed, RowsRouted, RowRouted
    <3>2. row.state \notin {"queued", "review_required"}
        BY <2>2, <2>3
    <3> HIDE DEF c
    <3> QED BY <2>2, <3>1, <3>2, RouteRouted
  <2>5. NoneAwaited(runs', Heard')
    <3>1. Quieter(runs[c].attempts, row.attempts, Heard, c)
        BY <2>3 DEF Quieter
    <3> QED BY <1>1, <2>1, <2>2, <3>1, ActsQuiet, QuietWrite
  <2> HIDE DEF h
  <2>6. Acting(handlers[q])
      BY <1>1 DEF h
  <2> HIDE DEF c
  <2> QED BY <1>2, <1>3, <2>1, <2>2, <2>4, <2>5, <2>6, ActsRoute
<1> QED BY <1>1, <1>4, <1>5

\* The completion is stamped.
LEMMA StampRoute == ASSUME Inductive, Turn, Turn', Routed, NEW q \in Procs, Stamp(q) PROVE Routed'
<1> DEFINE h   == handlers[q]
           c   == h.run
           row == StampedRow(runs[c], h.payload)
           n   == [h EXCEPT !.pc = "decide", !.base = row]
<1>1. h.pc = "stamp" /\ Write(c, row) /\ Become(q, n) /\ UNCHANGED <<pods, leases>> /\ Acting(h)
    BY DEF Stamp, At, Acting, Resting
<1>2. /\ h \in Handlers /\ c \in Cycles /\ Exists(runs[c]) /\ runs[c] \in Row /\ h.payload \in Payload
      /\ runs[c].attempts # <<>>
    BY <1>1, AtStep, Parts, HandlerFields DEF At, Busy, Good, HandlerOK
<1>3. runs[c].state \notin {"queued", "review_required"} /\ Claimed(leases, runs[c].lease) /\ OnPath(runs[c].attempts)
    BY <1>1, <1>2, ActsQuiet DEF Routed, RowsRouted, RowRouted, Led, Leads, Secured
<1>4. row.state = runs[c].state /\ row.lease = runs[c].lease /\ SamePath(runs[c].attempts, row.attempts)
    BY <1>2, EndsSame, EndsRoute, FixedWrites DEF Fixed
<1> HIDE DEF row
<1>5. runs'[c] = row
    BY <1>1, <1>2, Parts DEF Write
<1>6. n.pc = "decide" /\ n.run = c /\ n.base = row
    BY <1>2 DEF Handlers
<1> HIDE DEF n
<1>7. SamePath(row.attempts, row.attempts)
    BY DEF SamePath
<1>8. Led(runs', leases', n)
    BY <1>1, <1>3, <1>4, <1>5, <1>6, <1>7 DEF Led, Leads, Secured
<1>9. RowRouted(row)
  <2>1. SameRoute(runs[c].attempts, row.attempts)
      BY <1>2, <1>4, RowFields, PathAlike
  <2> HIDE DEF c
  <2> QED BY <1>2, <1>3, <1>4, <2>1, RouteRouted
<1>10. NoneAwaited(runs', Heard')
  <2>1. Acting(n)
      BY <1>6 DEF Acting, Resting
  <2> QED BY <1>1, <2>1, ActsSilent
<1> HIDE DEF c
<1> QED BY <1>1, <1>2, <1>8, <1>9, <1>10, ActsRoute

\* Where a decision leads: forward to what fits, or to a cycle that resumes.
LEMMA DecidedLed ==
    ASSUME LandsBack, NEW rows, NEW ls, NEW h \in Handlers, h.base.attempts # <<>>, Exists(h.base),
           NEW old \in Row, SamePath(h.base.attempts, old.attempts), OnPath(old.attempts),
           EndedAs(old.attempts, rows[h.run].attempts, Verdict(h)), rows[h.run].state # "queued",
           Claimed(ls, rows[h.run].lease)
    PROVE  Led(rows, ls, Decided(h))
<1> DEFINE verdict == Verdict(h)
           copy    == DecidedCopy(h.base, verdict, h.payload)
           n       == [h EXCEPT !.base = copy]
           t       == DispatchTarget(copy.attempts, verdict)
           mode    == IF verdict = "advance" THEN "advance" ELSE "abort"
           again   == [n EXCEPT !.pc = "recycle", !.mode = "retry"]
           end     == IF verdict = "advance" /\ ~HasAbort(n.base.attempts) /\ n.base.pr
                      THEN "passed" ELSE "aborted"
<1>1. verdict \in Decisions /\ h.base \in Row /\ h.payload \in Payload /\ h.base.attempts \in Seq(Attempt)
    BY DecideType, HandlerFields, RowFields DEF Verdict
<1>2. EndedAs(h.base.attempts, copy.attempts, verdict) /\ copy \in Row
    BY <1>1, EndsRoute, DecidedCopySuccessor DEF Successor
<1>3. verdict = Decide(h.base.attempts, h.run, h.base.cost)
    BY DEF Verdict
<1>4. Decided(h) = AfterDecision(n, verdict)
    BY DEF Decided
<1>5. EndedAs(old.attempts, rows[h.run].attempts, verdict)
    OBVIOUS
<1> HIDE DEF copy, verdict
<1>6. n \in Handlers /\ n.run = h.run /\ n.base = copy
    BY <1>2 DEF Handlers
<1> HIDE DEF n
<1>7. copy.attempts \in Seq(Attempt) /\ copy.attempts # <<>> /\ Len(copy.attempts) = Len(h.base.attempts)
    BY <1>1, <1>2, RowFields DEF EndedAs, SameRoute
<1>8. OnPath(copy.attempts)
  <2>1. SamePath(old.attempts, h.base.attempts)
      BY SamePathBack
  <2>2. OnPath(h.base.attempts)
    <3>1. old.attempts \in Seq(Attempt)
        BY RowFields
    <3> QED BY <2>1, <3>1, PathAlike
  <2> QED BY <1>1, <1>2, <2>2, RouteAlike DEF EndedAs
<1>9. SamePath(copy.attempts, rows[h.run].attempts)
    BY <1>1, <1>2, <1>5, <1>7, EndedAlike
<1>10. \/ verdict = "retry" /\ Decided(h) = again
       \/ verdict # "retry" /\ t # NoPhase /\ Decided(h) = Dispatching(n, mode, t)
       \/ Decided(h) = Idle
       \/ Decided(h) = Settling(n.run, end)
    BY <1>4, <1>6 DEF AfterDecision
<1>11. CASE verdict = "retry" /\ Decided(h) = again
  <2> DEFINE last == copy.attempts[Len(copy.attempts)]
             p    == last.phase
  <2>1. Phases[h.base.attempts[Len(h.base.attempts)].phase].verify
      BY <1>3, <1>11 DEF Decide, AbortDecisions
  <2>2. Len(copy.attempts) \in DOMAIN copy.attempts
      BY <1>7
  <2>3. Phases[p].verify /\ last.decision = "retry"
      BY <1>2, <1>7, <1>11, <2>1, <2>2 DEF EndedAs, SameRoute
  <2>4. p \in PhaseIds
    <3>1. last \in Attempt
        BY <1>7, <2>2
    <3> HIDE DEF last
    <3> QED BY <3>1 DEF Attempt
  <2>5. ~IsTeardown(p)
      BY <2>3, <2>4, WorkflowAssumption DEF ValidWorkflow, IsTeardown, Purpose
  <2>6. InOrder(copy.attempts)
      BY <1>8, <2>5 DEF OnPath
  <2>7. Resumes(copy.attempts, RetryTarget(p))
      BY <1>7, <2>3, <2>6, RetryResumes
  <2>8. again.pc = "recycle" /\ again.mode = "retry" /\ again.run = n.run /\ again.base = n.base
      BY <1>6 DEF Handlers
  <2> HIDE DEF again
  <2> QED BY <1>6, <1>11, <2>7, <2>8 DEF Led, Leads, Secured
<1>12. CASE verdict # "retry" /\ t # NoPhase /\ Decided(h) = Dispatching(n, mode, t)
  <2>1. Fits(copy.attempts, t)
      BY <1>1, <1>2, <1>7, <1>8, <1>12, TargetFits DEF EndedAs
  <2>2. Fits(rows[h.run].attempts, t)
      BY <1>7, <1>9, <2>1, PathAlike
  <2> HIDE DEF t, mode
  <2> DEFINE d == Dispatching(n, mode, t)
  <2>3. d.pc = "dispatch" /\ d.on = h.run /\ d.target = t
      BY <1>6 DEF Dispatching, Handlers
  <2> HIDE DEF d
  <2>4. Led(rows, ls, d)
      BY <2>2, <2>3 DEF Led, Leads, Secured
  <2> QED BY <1>12, <2>4 DEF d
<1>13. CASE Decided(h) = Idle \/ Decided(h) = Settling(n.run, end)
    BY <1>13, FreeStarts, RestsLed
<1> QED BY <1>10, <1>11, <1>12, <1>13

\* The decision is stamped.
LEMMA MakeDecisionRoute ==
    ASSUME LandsBack, Inductive, Turn, Routed, NEW q \in Procs, MakeDecision(q) PROVE Routed'
<1> DEFINE h   == handlers[q]
           c   == h.run
           row == DecidedRow(runs[c], Verdict(h))
<1>1. /\ h.pc = "decide" /\ Write(c, row) /\ Become(q, Decided(h)) /\ UNCHANGED <<pods, leases>>
      /\ Acting(handlers[q])
    BY DEF MakeDecision, At, Acting, Resting
<1>2. /\ h \in Handlers /\ c \in Cycles /\ Exists(runs[c]) /\ runs[c] \in Row
      /\ h.base.attempts # <<>> /\ Exists(h.base) /\ h.base \in Row /\ Verdict(h) \in Decisions
    BY <1>1, AtStep, Parts, DecideType, HandlerFields DEF At, Busy, Good, HandlerOK, Verdict
<1>3. /\ SamePath(h.base.attempts, runs[c].attempts) /\ OnPath(runs[c].attempts)
      /\ Claimed(leases, runs[c].lease) /\ runs[c].state \notin {"queued", "review_required"}
    BY <1>1, <1>2, ActsQuiet DEF Routed, RowsRouted, RowRouted, Led, Leads, Secured
<1>4. runs[c].attempts # <<>>
  <2>1. Len(h.base.attempts) = Len(runs[c].attempts)
      BY <1>3 DEF SamePath
  <2>2. h.base.attempts \in Seq(Attempt) /\ runs[c].attempts \in Seq(Attempt)
      BY <1>2, RowFields
  <2> QED BY ONLY <1>2, <2>1, <2>2
<1>5. /\ EndedAs(runs[c].attempts, row.attempts, Verdict(h)) /\ row.state = runs[c].state
      /\ row.lease = runs[c].lease /\ SameJobs(runs[c], row)
    BY <1>2, <1>4, EndsRoute, EndsSame, FixedWrites DEF Fixed
<1> HIDE DEF row
<1>6. runs'[c] = row
    BY <1>1, <1>2, Parts DEF Write
<1>7. Led(runs', leases', Decided(h))
  <2>1. /\ EndedAs(runs[c].attempts, runs'[c].attempts, Verdict(h)) /\ runs'[c].state # "queued"
        /\ Claimed(leases', runs'[c].lease)
      BY <1>1, <1>3, <1>5, <1>6
  <2> HIDE DEF h
  <2> QED BY <1>2, <1>3, <2>1, DecidedLed
<1>8. RowRouted(row)
  <2>1. SameRoute(runs[c].attempts, row.attempts) /\ row.state \notin {"queued", "review_required"}
      BY <1>3, <1>5 DEF EndedAs
  <2> HIDE DEF c
  <2> QED BY <1>2, <1>3, <2>1, RouteRouted
<1>9. NoneAwaited(runs', Heard')
    BY <1>1, <1>2, <1>5, ActsQuiet, SameJobsQuieter, QuietWrite
<1> HIDE DEF h, c
<1> QED BY <1>1, <1>2, <1>7, <1>8, <1>9, ActsRoute DEF c

-----------------------------------------------------------------------------
\* A failure that does not clean up is free.
LEMMA FailureFree ==
    ASSUME NEW h \in Handlers, h.mode \notin {"advance", "retry"} PROVE AfterFailure(h).pc \in Free
<1>1. h.mode \in Modes
    BY HandlerFields
<1>2. [h EXCEPT !.pc = "dropabort"].pc \in Free
    BY FreeMoves DEF Free
<1> QED BY <1>1, <1>2, FreeStarts DEF AfterFailure, Modes

\* A new attempt in hand.
LEMMA AppendedLed ==
    ASSUME NEW rows, NEW ls, NEW h \in Handlers, NEW p \in PhaseIds, NEW i,
           h.mode \in {"advance", "retry"} => Claimed(ls, rows[h.on].lease)
    PROVE  Led(rows, ls, AfterAppend(h, p, i)) /\ Acting(AfterAppend(h, p, i))
<1> DEFINE todo == ExpectedJobs(p) \ SkippedJobs(p)
           step == IF SkippedJobs(p) # {} THEN "skipjobs"
                   ELSE IF h.mode = "admit" THEN "launch" ELSE "lease"
           n    == [h EXCEPT !.att = i, !.todo = todo, !.pc = step]
<1>1. AfterAppend(h, p, i) = n
    BY DEF AfterAppend
<1>2. step \in {"skipjobs", "launch", "lease"}
    OBVIOUS
<1> HIDE DEF todo, step
<1>3. n.pc = step /\ n.on = h.on /\ n.mode = h.mode
    BY DEF Handlers
<1> HIDE DEF n
<1>4. Leads(rows, n) /\ Secured(rows, ls, n) /\ Acting(n)
    BY <1>2, <1>3 DEF Leads, Secured, Acting, Resting
<1> QED BY <1>1, <1>4 DEF Led

\* What is known of a row that a goroutine goes on in.
LEMMA AtDispatch ==
    ASSUME Inductive, Turn, Routed, NEW q \in Procs, handlers[q].pc \in {"dispatch", "skip"}
    PROVE  LET h == handlers[q]
           IN  /\ h \in Handlers /\ Acting(h) /\ h.on \in Cycles /\ Exists(runs[h.on]) /\ runs[h.on] \in Row
               /\ h.target \in PhaseIds /\ runs[h.on].state \notin {"absent", "queued", "review_required"}
               /\ OnPath(runs[h.on].attempts)
               /\ h.mode \in {"advance", "retry"} => Claimed(leases, runs[h.on].lease)
               /\ h.pc = "dispatch" => Fits(runs[h.on].attempts, h.target) /\ Unheard(Heard, h.on, h.target)
<1> DEFINE h == handlers[q]
<1>1. /\ h \in Handlers /\ h.on \in Cycles /\ Exists(runs[h.on]) /\ runs[h.on] \in Row /\ h.target \in PhaseIds
    BY AtLaunch, Parts DEF Launching
<1>2. Acting(h) /\ Led(runs, leases, h) /\ RowRouted(runs[h.on]) /\ Aims(runs, Heard, h)
    BY <1>1 DEF Acting, Resting, Routed, RowsRouted, Turn, Apt
<1>3. runs[h.on].state # "review_required"
    BY <1>1, <1>2, ActsQuiet
<1>4. h.pc \in {"dispatch", "skip"}
    OBVIOUS
<1> HIDE DEF h
<1> QED BY <1>1, <1>2, <1>3, <1>4 DEF Led, Leads, Secured, RowRouted, Aims, Exists, h

\* The run waits for its reviewer.
LEMMA ParkRoute == ASSUME Inductive, Turn, Routed, NEW q \in Procs, Park(q) PROVE Routed'
<1> DEFINE h   == handlers[q]
           c   == h.on
           row == ParkedRow(runs[c], h.target)
<1>1. h.pc = "dispatch" /\ Write(c, row) /\ Become(q, Idle) /\ UNCHANGED <<pods, leases>>
    BY DEF Park, At
<1>2. /\ c \in Cycles /\ Exists(runs[c]) /\ runs[c] \in Row /\ Acting(handlers[q])
      /\ h.target \in PhaseIds /\ runs[c].state \notin {"absent", "queued"}
      /\ Fits(runs[c].attempts, h.target) /\ Unheard(Heard, c, h.target)
    BY <1>1, AtDispatch
<1>3. row.attempts = Append(runs[c].attempts, NewAttempt(h.target)) /\ row.state # "queued"
    BY <1>2, Appends, FixedWrites DEF Fixed
<1> HIDE DEF row
<1>4. RowRouted(row)
    BY <1>2, <1>3, AppendRouted
<1>5. NoneAwaited(runs', Heard')
    BY <1>1, <1>2, <1>3, ActsQuiet, AppendQuieter, QuietWrite
<1>6. Led(runs', leases', Idle)
    BY FreeStarts, RestsLed
<1> HIDE DEF c
<1> QED BY <1>1, <1>2, <1>4, <1>5, <1>6, ActsRoute

\* The attempt of the phase is in the row.
LEMMA AppendAttemptRoute == ASSUME Inductive, Turn, Turn', Routed, NEW q \in Procs, AppendAttempt(q) PROVE Routed'
<1> DEFINE h   == handlers[q]
           c   == h.on
           p   == h.target
           row == AppendedRow(runs[c], p)
           i   == Latest(row)
           m   == [h EXCEPT !.pc = "skip"]
           n   == IF PhaseRuns(p) THEN AfterAppend(h, p, i) ELSE m
<1>1. h.pc = "dispatch" /\ Write(c, row) /\ UNCHANGED <<pods, leases>> /\ Become(q, n)
    BY DEF AppendAttempt, At
<1>2. /\ h \in Handlers /\ c \in Cycles /\ Exists(runs[c]) /\ runs[c] \in Row /\ Acting(handlers[q])
      /\ p \in PhaseIds /\ runs[c].state \notin {"absent", "queued"} /\ Fits(runs[c].attempts, p)
      /\ h.mode \in {"advance", "retry"} => Claimed(leases, runs[c].lease)
    BY <1>1, AtDispatch
<1>3. /\ row.attempts = Append(runs[c].attempts, NewAttempt(p)) /\ row.state = runs[c].state
      /\ row.lease = runs[c].lease
    BY <1>2, Appends, FixedWrites DEF Fixed
<1> HIDE DEF row, i
<1>4. RowRouted(row)
    BY <1>2, <1>3, AppendRouted
<1>5. runs'[c] = row
    BY <1>1, <1>2, Parts DEF Write
<1>6. h.mode \in {"advance", "retry"} => Claimed(leases', runs'[c].lease)
    BY <1>1, <1>2, <1>3, <1>5
<1>7. Led(runs', leases', AfterAppend(h, p, i)) /\ Acting(AfterAppend(h, p, i))
    BY <1>2, <1>6, AppendedLed
<1>8. Led(runs', leases', m) /\ Acting(m)
  <2>1. m.pc = "skip" /\ m.on = c /\ m.mode = h.mode
      BY <1>2 DEF Handlers
  <2>2. runs'[c].state # "queued"
      BY <1>2, <1>3, <1>5
  <2> HIDE DEF m, c
  <2> QED BY <1>6, <2>1, <2>2 DEF Led, Leads, Secured, Acting, Resting
<1> HIDE DEF m
<1>9. Led(runs', leases', n) /\ Acting(n)
    BY <1>7, <1>8
<1> HIDE DEF n, c
<1>10. NoneAwaited(runs', Heard')
    BY <1>1, <1>9, ActsSilent
<1> QED BY <1>1, <1>2, <1>4, <1>9, <1>10, ActsRoute

\* The phase is skipped as a whole.
LEMMA SkipPhaseRoute == ASSUME Inductive, Turn, Routed, NEW q \in Procs, SkipPhase(q) PROVE Routed'
<1> DEFINE h    == handlers[q]
           c    == h.on
           row  == PhaseSkippedRow(runs[c])
           next == DispatchTarget(row.attempts, "advance")
           m    == [h EXCEPT !.pc = "dispatch", !.target = next]
           n    == IF next = NoPhase THEN Idle ELSE m
<1>1. h.pc = "skip" /\ Write(c, row) /\ UNCHANGED <<pods, leases>> /\ Become(q, n)
    BY DEF SkipPhase, At, AfterSkip
<1>2. /\ h \in Handlers /\ c \in Cycles /\ Exists(runs[c]) /\ runs[c] \in Row /\ Acting(handlers[q])
      /\ OnPath(runs[c].attempts) /\ runs[c].state \notin {"absent", "queued", "review_required"}
      /\ h.mode \in {"advance", "retry"} => Claimed(leases, runs[c].lease)
    BY <1>1, AtDispatch
<1>3. /\ SameJobs(runs[c], row) /\ row.state = runs[c].state /\ row.lease = runs[c].lease
      /\ row.attempts \in Seq(Attempt)
    BY <1>2, EndsSame, FixedWrites, PhaseSkippedSuccessor, RowFields DEF Fixed, Successor
<1>4. runs[c].attempts # <<>> => EndedAs(runs[c].attempts, row.attempts, "advance")
    BY <1>2, EndsRoute
<1> HIDE DEF row
<1>5. SameRoute(runs[c].attempts, row.attempts)
  <2>1. CASE runs[c].attempts # <<>>
      BY <1>4, <2>1 DEF EndedAs
  <2>2. CASE runs[c].attempts = <<>>
      BY <1>3, <2>2 DEF SameRoute, SameJobs
  <2> QED BY <2>1, <2>2
<1>6. RowRouted(row)
  <2>1. row.state \notin {"queued", "review_required"}
      BY <1>2, <1>3
  <2> HIDE DEF c
  <2> QED BY <1>2, <1>5, <2>1, RouteRouted
<1>7. NoneAwaited(runs', Heard')
    BY <1>1, <1>2, <1>3, ActsQuiet, SameJobsQuieter, QuietWrite
<1>8. runs'[c] = row
    BY <1>1, <1>2, Parts DEF Write
<1>9. ASSUME next # NoPhase PROVE Led(runs', leases', m)
  <2>1. row.attempts # <<>>
      BY <1>9 DEF DispatchTarget
  <2>2. row.attempts[Len(row.attempts)].decision = "advance"
    <3>1. runs[c].attempts \in Seq(Attempt)
        BY <1>2, RowFields
    <3>2. Len(row.attempts) = Len(runs[c].attempts)
        BY <1>3 DEF SameJobs
    <3>3. runs[c].attempts # <<>>
        BY ONLY <2>1, <3>1, <3>2, <1>3
    <3> QED BY <1>4, <3>3 DEF EndedAs
  <2>3. OnPath(row.attempts)
      BY <1>2, <1>5, RowFields, RouteAlike
  <2>4. Fits(row.attempts, next)
      BY <1>3, <1>9, <2>1, <2>2, <2>3, TargetFits DEF Decisions
  <2>5. next \in PhaseIds
      BY <1>9, TargetIsPhase
  <2> HIDE DEF next
  <2>6. m.pc = "dispatch" /\ m.on = c /\ m.mode = h.mode /\ m.target = next
      BY <1>2, <2>5 DEF Handlers
  <2>7. /\ Fits(runs'[c].attempts, next) /\ runs'[c].state # "queued"
        /\ h.mode \in {"advance", "retry"} => Claimed(leases', runs'[c].lease)
      BY <1>1, <1>2, <1>3, <1>8, <2>4
  <2> HIDE DEF m, c
  <2> QED BY <2>6, <2>7 DEF Led, Leads, Secured
<1>10. Led(runs', leases', n)
    BY <1>9, FreeStarts, RestsLed
<1> HIDE DEF n, c
<1> QED BY <1>1, <1>2, <1>6, <1>7, <1>10, ActsRoute

-----------------------------------------------------------------------------
\* There is always a job to launch.
LEMMA JobsToLaunch == ASSUME AllHaveJobs, NEW p \in PhaseIds PROVE ExpectedJobs(p) # {}
<1>1. Phases[p] \in PhaseSpec
    BY WorkflowAssumption DEF ValidWorkflow, PhaseIds
<1>2. Phases[p].jobs \in Seq(JobIds) /\ Phases[p].jobs # <<>>
    BY <1>1 DEF PhaseSpec, AllHaveJobs
<1>3. 1 \in DOMAIN Phases[p].jobs
    BY <1>2
<1> QED BY <1>3 DEF ExpectedJobs

\* A goroutine that launches is led.
LEMMA LaunchesLed == ASSUME NEW rows, NEW ls, NEW h, h.pc = "launch" PROVE Led(rows, ls, h)
BY DEF Led, Leads, Secured

\* The skipped jobs are reported.
LEMMA SkipJobsRoute == ASSUME Inductive, Turn, Turn', Routed, NEW q \in Procs, SkipJobs(q) PROVE Routed'
<1> DEFINE h    == handlers[q]
           c    == h.on
           row  == JobsSkippedRow(runs[c], h.target)
           step == IF h.mode = "admit" THEN "launch" ELSE "lease"
           n    == [h EXCEPT !.pc = step]
<1>1. h.pc = "skipjobs" /\ UNCHANGED <<pods, leases>>
    BY DEF SkipJobs, At
<1>2. /\ h \in Handlers /\ Acting(handlers[q]) /\ c \in Cycles /\ Exists(runs[c]) /\ runs[c] \in Row
      /\ runs[c].attempts # <<>> /\ InHand(runs[c], Heard, h)
    BY <1>1, AtHand DEF Committed
<1>3. runs[c].attempts[Latest(runs[c])].phase = h.target
    BY <1>2 DEF InHand
<1>4. Write(c, row) /\ Become(q, n)
    BY <1>3 DEF SkipJobs
<1>5. h.mode \in {"advance", "retry"} => Claimed(leases, runs[c].lease)
    BY <1>1 DEF Routed, Led, Secured
<1>6. ReportsOnly(runs[c], row)
    BY <1>2, <1>3, JobsSkippedReports
<1> HIDE DEF row
<1>7. RowRouted(row)
  <2>1. RowRouted(runs[c])
      BY <1>2 DEF Routed, RowsRouted
  <2> HIDE DEF c
  <2> QED BY <1>2, <1>6, <2>1, ReportsRouted
<1>8. runs'[c] = row
    BY <1>2, <1>4, Parts DEF Write
<1>9. h.mode \in {"advance", "retry"} => Claimed(leases', runs'[c].lease)
    BY <1>1, <1>5, <1>6, <1>8 DEF ReportsOnly
<1> HIDE DEF h, c
<1>10. step \in {"launch", "lease"}
    OBVIOUS
<1>11. n.pc = step /\ n.on = h.on /\ n.mode = h.mode
    BY <1>2 DEF Handlers
<1> HIDE DEF n, step
<1>12. Led(runs', leases', n) /\ Acting(n)
    BY <1>9, <1>10, <1>11 DEF Led, Leads, Secured, Acting, Resting, c
<1>13. NoneAwaited(runs', Heard')
    BY <1>4, <1>12, ActsSilent
<1> QED BY <1>2, <1>4, <1>7, <1>12, <1>13, ActsRoute

\* The lease is read. It is claimed, or the failure is free.
LEMMA ReadLeaseRoute == ASSUME Inductive, Turn, Holding, Routed, NEW q \in Procs, ReadLease(q) PROVE Routed'
<1> DEFINE h == handlers[q]
           l == h.base.lease
           m == [h EXCEPT !.pc = "launch"]
<1>1. h.pc = "lease" /\ UNCHANGED <<runs, pods>>
    BY DEF ReadLease, At
<1>2. h \in Handlers /\ Acting(handlers[q]) /\ l = runs[h.on].lease
    BY <1>1, AtHand, OnwardLease DEF Committed
<1>3. h.mode \in {"advance", "retry"} => Claimed(leases, l)
    BY <1>1, <1>2 DEF Routed, Led, Secured
<1>4. \/ Become(q, m)
      \/ ~Claimed(leases, l) /\ Become(q, AfterFailure(h))
    BY DEF ReadLease, AfterLeaseRead, Claimed
<1> HIDE DEF h
<1>5. CASE Become(q, m)
  <2>1. m.pc = "launch"
      BY <1>2 DEF Handlers
  <2> HIDE DEF m
  <2>2. Led(runs, leases', m)
      BY <2>1, LaunchesLed
  <2> QED BY <1>1, <1>2, <1>5, <2>2, ActsRouteOnly
<1>6. CASE ~Claimed(leases, l) /\ Become(q, AfterFailure(h))
  <2>1. Led(runs, leases', AfterFailure(h))
      BY <1>2, <1>3, <1>6, FailureFree, RestsLed
  <2> QED BY <1>1, <1>2, <1>6, <2>1, ActsRouteOnly
<1> QED BY <1>4, <1>5, <1>6

\* There is something to launch.
LEMMA LaunchesSomething ==
    ASSUME AllHaveJobs, Inductive, Turn, NEW q \in Procs PROVE ~LaunchNothing(q)
<1> SUFFICES ASSUME LaunchNothing(q) PROVE FALSE
    OBVIOUS
<1>1. handlers[q].pc = "launch" /\ handlers[q].todo = {}
    BY DEF LaunchNothing, At
<1>2. handlers[q].target \in PhaseIds /\ InHand(runs[handlers[q].on], Heard, handlers[q])
    BY <1>1, AtHand DEF Committed
<1> QED BY <1>1, <1>2, JobsToLaunch DEF InHand

\* A job is created. The last makes the attempt one that is awaited, in the environment that is claimed.
LEMMA LaunchRoute == ASSUME Inductive, Turn, Turn', Holding, Routed, NEW q \in Procs, Launch(q) PROVE Routed'
<1> DEFINE h    == handlers[q]
           c    == h.on
           i    == h.att
           j    == FirstJob(h.target, h.todo)
           rest == h.todo \ {j}
           more == [h EXCEPT !.todo = rest]
           n    == IF rest = {} THEN Idle ELSE more
           v    == Heard \union {<<c, i, j>>}
<1>1. /\ h.pc = "launch" /\ UNCHANGED <<runs, leases>> /\ Become(q, n)
      /\ pods' = pods \union {NextPod(h)}
    BY DEF Launch, At
<1>2. h \in Handlers /\ Acting(handlers[q]) /\ i = Len(runs[c].attempts)
    BY <1>1, AtHand DEF Committed, InHand, Latest
<1>3. (\A r \in Procs : r # q => ~Acting(handlers[r])) /\ NoneAwaited(runs, Heard)
    BY <1>2, ActsQuiet DEF Turn, OneActs
<1>4. Claimed(leases, runs[c].lease)
    BY <1>1 DEF Holding, Backed, Sure
<1>5. Heard' = v
  <2>1. NextPod(h).run = c /\ NextPod(h).att = i /\ NextPod(h).job = j
      BY DEF NextPod
  <2> QED BY <1>1, <2>1, LaunchHeard
<1>6. rest # {} => more.pc = "launch"
  <2>1. h.pc = "launch"
      BY <1>1
  <2> HIDE DEF h, rest
  <2> QED BY <1>2, <2>1 DEF Handlers
<1>7. Led(runs', leases', n)
  <2>1. Idle.pc \in Free
      BY FreeStarts
  <2> HIDE DEF more
  <2> QED BY <1>6, <2>1, LaunchesLed, RestsLed
<1>8. RowsRouted'
    BY <1>1 DEF Routed, RowsRouted
<1>9. AwaitedSecured'
  <2> HIDE DEF h, j
  <2>1. \A d \in Cycles, k \in Nat : Awaiting(runs[d].attempts, v, d, k) => d = c
      BY <1>2, <1>3, AwaitedLatest
  <2> HIDE DEF c, v
  <2> QED BY <1>1, <1>4, <1>5, <2>1 DEF AwaitedSecured
<1> HIDE DEF n
<1> QED BY <1>1, <1>3, <1>7, <1>8, <1>9, TakesRoute

-----------------------------------------------------------------------------
\* The parent of a retry is marked.
LEMMA RecycleRoute == ASSUME Inductive, Turn, Turn', Routed, NEW q \in Procs, Recycle(q) PROVE Routed'
<1> DEFINE h      == handlers[q]
           c      == h.run
           target == RetryTarget(h.base.attempts[Len(h.base.attempts)].phase)
           row    == RecycledRow(runs[c])
           on     == c + 1
           base   == [runs[c] EXCEPT !.attempts = h.base.attempts]
           n      == [h EXCEPT !.pc = "create", !.target = target, !.on = on, !.base = base]
<1>1. h.pc = "recycle" /\ UNCHANGED <<pods, leases>> /\ Acting(handlers[q])
    BY DEF Recycle, At, Acting, Resting
<1>2. h \in Handlers /\ c \in Cycles /\ Exists(runs[c]) /\ runs[c] \in Row
    BY <1>1, AtStep, Parts DEF At, Busy
<1>3. /\ Resumes(h.base.attempts, target) /\ h.mode = "retry" /\ Claimed(leases, runs[c].lease)
      /\ OnPath(runs[c].attempts)
    BY <1>1, <1>2 DEF Routed, RowsRouted, RowRouted, Led, Leads, Secured
<1>4. target \in PhaseIds /\ runs[c].lease # 0
    BY <1>3 DEF Resumes, Claimed, LeaseIds
<1>5. Write(c, row) /\ Become(q, n)
    BY <1>4 DEF Recycle
<1>6. row.attempts = runs[c].attempts /\ row.state = "recycled"
    BY <1>2, FieldsOnly
<1>7. base.attempts = h.base.attempts /\ base.lease = runs[c].lease
    BY <1>2 DEF Row
<1> HIDE DEF row, on, base, target
<1>8. n.pc = "create" /\ n.mode = h.mode /\ n.target = target /\ n.base = base
    BY <1>2 DEF Handlers
<1> HIDE DEF n
<1>9. Led(runs', leases', n) /\ Acting(n)
    BY <1>1, <1>3, <1>7, <1>8 DEF Led, Leads, Secured, Acting, Resting
<1>10. RowRouted(row)
  <2>1. SameRoute(runs[c].attempts, row.attempts)
      BY <1>6 DEF SameRoute
  <2> HIDE DEF c
  <2> QED BY <1>2, <1>3, <1>6, <2>1, RouteRouted
<1> HIDE DEF h
<1>11. NoneAwaited(runs', Heard')
    BY <1>5, <1>9, ActsSilent
<1> HIDE DEF c
<1> QED BY <1>1, <1>2, <1>5, <1>9, <1>10, <1>11, ActsRoute

\* The row of the next cycle is created, and can start.
LEMMA CreateChildRoute == ASSUME Inductive, Turn, Turn', Routed, NEW q \in Procs, CreateChild(q) PROVE Routed'
<1> DEFINE h     == handlers[q]
           c     == h.on
           carry == CarriedForward(h.base.attempts, h.target)
           row   == QueuedRow(h.target, carry, h.base.pr, h.base.cost, h.base.lease)
           lease == h.base.lease
           n     == [h EXCEPT !.pc = "start", !.lease = lease]
<1>1. /\ h.pc = "create" /\ c \in Cycles /\ Write(c, row) /\ Become(q, n)
      /\ UNCHANGED <<pods, leases>> /\ Acting(handlers[q])
    BY DEF CreateChild, At, Acting, Resting
<1>2. h \in Handlers
    BY Parts
<1>3. Fits(carry, h.target) /\ Claimed(leases, lease)
    BY <1>1 DEF Routed, Led, Leads, Secured, Resumes
<1>4. \A i \in DOMAIN carry : carry[i].completed /\ carry[i].carry /\ carry[i].decision = "advance"
    BY CarriedDone
<1>5. row.attempts = carry /\ row.state = "queued" /\ row.entry = h.target
    BY DEF QueuedRow, AbsentRow
<1> HIDE DEF row, carry, lease
<1>6. CanStart(row)
    BY <1>4, <1>5 DEF CanStart
<1>7. OnPath(carry)
    BY <1>3, <1>4 DEF Fits, OnPath, HasAbort, AbortDecisions
<1>8. RowRouted(row)
    BY <1>3, <1>5, <1>6, <1>7 DEF RowRouted
<1>9. runs'[c] = row
    BY <1>1, Parts DEF Write
<1>10. n.pc = "start" /\ n.on = c /\ n.target = h.target /\ n.lease = lease
    BY <1>2 DEF Handlers
<1> HIDE DEF n, h
<1>11. Led(runs', leases', n) /\ Acting(n)
    BY <1>1, <1>3, <1>5, <1>6, <1>9, <1>10 DEF Led, Leads, Secured, Acting, Resting
<1>12. NoneAwaited(runs', Heard')
    BY <1>1, <1>11, ActsSilent
<1> QED BY <1>1, <1>8, <1>11, <1>12, ActsRoute

\* The next cycle starts. Who comes second is the queue.
LEMMA StartRoute == ASSUME Inductive, Turn, Turn', Routed, NEW q \in Procs, Start(q) PROVE Routed'
<1> DEFINE h    == handlers[q]
           c    == h.on
           p    == h.target
           row  == StartedRow(runs[c], p, h.lease)
           i    == Latest(row)
           drop == [h EXCEPT !.pc = "drop"]
           lost == IF h.mode # "admit" THEN AfterFailure(h) ELSE IF h.fresh THEN drop ELSE Idle
           n    == AfterAppend(h, p, i)
<1>1. /\ h.pc = "start" /\ UNCHANGED <<pods, leases>> /\ Acting(handlers[q])
      /\ \/ CanStart(runs[c]) /\ Write(c, row) /\ Become(q, n)
         \/ ~CanStart(runs[c]) /\ runs' = runs /\ Become(q, lost)
    BY DEF Start, At, Acting, Resting
<1>2. /\ h \in Handlers /\ c \in Cycles /\ Exists(runs[c]) /\ runs[c] \in Row /\ p \in PhaseIds /\ h.lease \in Nat
    BY <1>1, AtLaunch, HandlerFields DEF Launching, Good
<1>3. /\ Fits(runs[c].attempts, p) /\ Claimed(leases, h.lease)
      /\ h.mode # "admit" => CanStart(runs[c])
    BY <1>1 DEF Routed, Led, Leads, Secured
<1>4. /\ row.attempts = Append(runs[c].attempts, NewAttempt(p)) /\ row.state = "in_progress"
      /\ row.lease = h.lease
  <2>1. row.lease = h.lease
      BY <1>2, StartedLease
  <2> HIDE DEF c, p
  <2>2. row.attempts = Append(runs[c].attempts, NewAttempt(p)) /\ row.state = "in_progress"
      BY <1>2, Appends
  <2> QED BY <2>1, <2>2
<1>5. drop.pc \in Free
    BY <1>2, FreeMoves DEF Free
<1> HIDE DEF row, i, h, drop
<1>6. CASE CanStart(runs[c]) /\ Write(c, row) /\ Become(q, n)
  <2>1. RowRouted(row)
      BY <1>2, <1>3, <1>4, AppendRouted
  <2>2. runs'[c] = row
      BY <1>2, <1>6, Parts DEF Write
  <2>3. Claimed(leases', runs'[c].lease)
      BY <1>1, <1>3, <1>4, <2>2
  <2>4. Led(runs', leases', n) /\ Acting(n)
      BY <1>2, <2>3, AppendedLed
  <2> HIDE DEF n, c
  <2>5. NoneAwaited(runs', Heard')
      BY <1>6, <2>4, ActsSilent
  <2> QED BY <1>1, <1>2, <1>6, <2>1, <2>4, <2>5, ActsRoute
<1>7. CASE ~CanStart(runs[c]) /\ runs' = runs /\ Become(q, lost)
  <2>1. lost.pc \in Free
      BY <1>3, <1>5, <1>7, FreeStarts
  <2> HIDE DEF lost
  <2>2. Led(runs, leases', lost)
      BY <2>1, RestsLed
  <2> QED BY <1>1, <1>7, <2>2, ActsRouteOnly
<1> QED BY <1>1, <1>6, <1>7

\* The queue has a lease, or waits for one.
LEMMA AcquireRoute == ASSUME Inductive, Turn, Holding, Routed, NEW q \in Procs, Acquire(q) PROVE Routed'
<1> DEFINE h   == handlers[q]
           l   == h.base.lease
           old == [h EXCEPT !.pc = "start", !.lease = l]
<1>1. h.pc = "acquire" /\ UNCHANGED <<runs, pods>> /\ Acting(handlers[q])
    BY DEF Acquire, At, Acting, Resting
<1>2. /\ h \in Handlers /\ h.mode = "admit" /\ Fits(runs[h.on].attempts, h.target)
      /\ l \in LeaseIds \union {0}
  <2>1. h \in Handlers /\ h.mode = "admit" /\ Fits(runs[h.on].attempts, h.target)
      BY <1>1, Parts DEF Turn, Apt, Remembers, Routed, Led, Leads
  <2>2. l \in LeaseIds \union {0}
      BY <1>1 DEF Holding, Backed, Copied
  <2> QED BY <2>1, <2>2
<1>3. leases \in [LeaseIds -> {"free", "claimed", "released"}]
    BY DEF Inductive, TypeOK
<1>4. ASSUME NEW n, n.pc = "start", n.mode = "admit", n.on = h.on, n.target = h.target, Claimed(leases', n.lease)
      PROVE  Led(runs, leases', n)
    BY <1>2, <1>4 DEF Led, Leads, Secured
<1>5. Led(runs, leases', Aborting(h.run)) /\ Led(runs, leases', Idle)
    BY FreeStarts, RestsLed
<1>6. CASE l # 0 /\ leases[l] = "claimed" /\ Become(q, old) /\ UNCHANGED leases
  <2>1. old.pc = "start" /\ old.mode = "admit" /\ old.lease = l /\ old.on = h.on /\ old.target = h.target
    <3> HIDE DEF h, l
    <3> QED BY <1>2 DEF Handlers
  <2> HIDE DEF old
  <2>2. Claimed(leases', old.lease)
      BY <1>2, <1>6, <2>1 DEF Claimed
  <2> QED BY <1>1, <1>4, <1>6, <2>1, <2>2, ActsRouteOnly
<1>7. ASSUME NEW fresh \in LeaseIds, leases' = [leases EXCEPT ![fresh] = "claimed"],
             Become(q, [h EXCEPT !.pc = "start", !.lease = fresh, !.fresh = TRUE])
      PROVE  Routed'
  <2> DEFINE n == [h EXCEPT !.pc = "start", !.lease = fresh, !.fresh = TRUE]
  <2>1. n.pc = "start" /\ n.mode = "admit" /\ n.lease = fresh /\ n.on = h.on /\ n.target = h.target
    <3> HIDE DEF h
    <3> QED BY <1>2 DEF Handlers
  <2>2. Become(q, n)
      BY <1>7
  <2> HIDE DEF n
  <2>3. Claimed(leases', n.lease)
      BY <1>3, <1>7, <2>1 DEF Claimed
  <2> QED BY <1>1, <1>4, <2>1, <2>2, <2>3, ActsRouteOnly
<1>8. CASE Become(q, Aborting(h.run)) \/ Become(q, Idle)
    BY <1>1, <1>5, <1>8, ActsRouteOnly
<1> QED BY <1>6, <1>7, <1>8 DEF Acquire

-----------------------------------------------------------------------------
\* A reviewer decides on a parked gate, and takes the turn.
LEMMA ReviewRoute ==
    ASSUME Inductive, Turn, Routed, NEW q \in Procs, NEW n, Become(q, n), NEW c \in Cycles, NEW i,
           CanDecideGate(runs[c], i), NEW row, Write(c, row), UNCHANGED <<pods, leases>>,
           Quieter(runs[c].attempts, row.attempts, Heard, c), RowRouted(row), Led(runs', leases', n)
    PROVE  Routed'
<1>1. (\A r \in Procs : ~Acting(handlers[r])) /\ NoneAwaited(runs, Heard)
    BY ReviewedRow
<1>2. \A d \in Cycles : runs'[d] = IF d = c THEN row ELSE runs[d]
    BY Parts DEF Write
<1>3. RowsRouted'
    BY <1>2 DEF Routed, RowsRouted
<1>4. AwaitedSecured'
    BY <1>1, QuietWrite DEF AwaitedSecured, NoneAwaited
<1> QED BY <1>1, <1>3, <1>4, TakesRoute

\* The decision comes too late.
LEMMA TooLateRoute ==
    ASSUME Inductive, Routed, NEW q \in Procs, Become(q, Idle), UNCHANGED <<runs, pods, leases>> PROVE Routed'
<1>1. Heard' = Heard
    BY DEF Heard
<1> QED BY <1>1, FreeStarts, GoesRouteOnly

\* The reviewer approves.
LEMMA OpenGateRoute == ASSUME Inductive, Turn, Routed, NEW q \in Procs, OpenGate(q) PROVE Routed'
<1> DEFINE h   == handlers[q]
           c   == h.on
           i   == h.att
           row == ReleasedRow(runs[c], i)
           n   == [h EXCEPT !.pc = "lease"]
<1>1. h.pc = "opengate" /\ UNCHANGED <<pods, leases>>
    BY DEF OpenGate, At
<1>2. h \in Handlers /\ c \in Cycles /\ Exists(runs[c]) /\ runs[c] \in Row
    BY <1>1, AtLaunch, Parts DEF Launching
<1>3. h.mode = "approve" /\ OnPath(runs[c].attempts)
    BY <1>1, <1>2 DEF Turn, Apt, Waits, Routed, RowsRouted, RowRouted
<1>4. CASE ~CanDecideGate(runs[c], i)
    BY <1>1, <1>4, TooLateRoute DEF OpenGate
<1>5. CASE CanDecideGate(runs[c], i)
  <2>1. Write(c, row) /\ Become(q, n)
      BY <1>5 DEF OpenGate
  <2>2. row.attempts = runs[c].attempts /\ row.state = "in_progress"
      BY <1>2, FieldsOnly
  <2> HIDE DEF row, h
  <2>3. n.pc = "lease" /\ n.mode = "approve"
      BY <1>2, <1>3 DEF Handlers
  <2> HIDE DEF n
  <2>4. Led(runs', leases', n)
      BY <2>3 DEF Led, Leads, Secured
  <2>5. SameRoute(runs[c].attempts, row.attempts) /\ Quieter(runs[c].attempts, row.attempts, Heard, c)
      BY <2>2 DEF SameRoute, Quieter
  <2> HIDE DEF c
  <2>6. RowRouted(row)
      BY <1>2, <1>3, <2>2, <2>5, RouteRouted
  <2> QED BY <1>1, <1>2, <1>5, <2>1, <2>4, <2>5, <2>6, ReviewRoute
<1> QED BY <1>4, <1>5

\* The reviewer cancels: what comes next is of the teardown.
LEMMA CancelGateRoute == ASSUME Inductive, Turn, Routed, NEW q \in Procs, CancelGate(q) PROVE Routed'
<1> DEFINE h   == handlers[q]
           c   == h.on
           i   == h.att
           row == CancelledRow(runs[c], i)
           t   == DispatchTarget(row.attempts, "abort_requested")
           m   == [h EXCEPT !.base = row]
           n   == IF t = NoPhase THEN Settling(h.run, "aborted") ELSE Dispatching(m, "cancel", t)
<1>1. h.pc = "cancelgate" /\ UNCHANGED <<pods, leases>>
    BY DEF CancelGate, At
<1>2. h \in Handlers /\ c \in Cycles /\ Exists(runs[c]) /\ runs[c] \in Row
    BY <1>1, AtLaunch, Parts DEF Launching
<1>3. c = h.run /\ OnPath(runs[c].attempts)
    BY <1>1, <1>2 DEF Turn, Apt, Waits, Routed, RowsRouted, RowRouted
<1>4. CASE ~CanDecideGate(runs[c], i)
    BY <1>1, <1>4, TooLateRoute DEF CancelGate
<1>5. CASE CanDecideGate(runs[c], i)
  <2>1. Write(c, row) /\ Become(q, n)
      BY <1>5 DEF CancelGate
  <2> HIDE DEF h
  <2>2. i \in DOMAIN runs[c].attempts /\ i = Latest(runs[c]) /\ runs[c].attempts # <<>>
    <3>1. i \in DOMAIN runs[c].attempts /\ i = Latest(runs[c])
        BY <1>2, <1>5, ReviewedRow
    <3> QED BY <3>1
  <2>3. EndedAs(runs[c].attempts, row.attempts, "abort_requested")
      BY <1>2, <2>2, CancelledRoute
  <2>4. row \in Row /\ row.state = "in_progress" /\ Quieter(runs[c].attempts, row.attempts, Heard, c)
      BY <1>2, <2>2, CancelledSuccessor, CancelledSame, SameJobsQuieter DEF Successor
  <2> HIDE DEF row
  <2>5. SameRoute(runs[c].attempts, row.attempts)
        /\ row.attempts[Len(row.attempts)].decision = "abort_requested"
      BY <2>3 DEF EndedAs
  <2>6. runs'[c] = row
      BY <1>2, <2>1, Parts DEF Write
  <2>7. t # NoPhase => Fits(row.attempts, t) /\ t \in PhaseIds
    <3>1. OnPath(row.attempts)
        BY <1>2, <1>3, <2>5, RowFields, RouteAlike
    <3>2. row.attempts \in Seq(Attempt) /\ row.attempts # <<>>
        BY <1>2, <2>2, <2>4, <2>5, RowFields DEF SameRoute
    <3>3. t # NoPhase => Fits(row.attempts, t)
        BY <2>5, <3>1, <3>2, TargetFits DEF Decisions, AbortDecisions
    <3> QED BY <3>3, TargetIsPhase
  <2> HIDE DEF t, c
  <2>8. m \in Handlers /\ m.run = c
      BY <1>2, <1>3, <2>4 DEF Handlers
  <2> HIDE DEF m
  <2>9. t # NoPhase => Led(runs', leases', Dispatching(m, "cancel", t))
    <3> DEFINE d == Dispatching(m, "cancel", t)
    <3>1. t # NoPhase => d.pc = "dispatch" /\ d.mode = "cancel" /\ d.on = c /\ d.target = t
        BY <2>7, <2>8 DEF Dispatching, Handlers, Modes
    <3> HIDE DEF d
    <3>2. t # NoPhase => Led(runs', leases', d)
        BY <2>4, <2>6, <2>7, <3>1 DEF Led, Leads, Secured
    <3> QED BY <3>2 DEF d
  <2>10. Led(runs', leases', n)
      BY <2>9, FreeStarts, RestsLed
  <2> HIDE DEF n
  <2>11. RowRouted(row)
    <3>1. row.state \notin {"queued", "review_required"}
        BY <2>4
    <3> QED BY <1>2, <1>3, <2>5, <3>1, RouteRouted
  <2> QED BY <1>1, <1>2, <1>5, <2>1, <2>4, <2>10, <2>11, ReviewRoute
<1> QED BY <1>4, <1>5

-----------------------------------------------------------------------------
\* At first the queue may start the first phase.
LEMMA InitRouted == ASSUME Init PROVE Routed
<1> DEFINE first == QueuedRow(1, <<>>, FALSE, 0, 0)
<1>1. \A c \in Cycles : runs[c] = first \/ runs[c] = AbsentRow
    BY DEF Init
<1>2. first.attempts = <<>> /\ first.state = "queued" /\ first.entry = 1
      /\ AbsentRow.attempts = <<>> /\ AbsentRow.state = "absent"
    BY DEF QueuedRow, AbsentRow
<1>3. InOrder(<<>>)
    BY DEF InOrder
<1>4. OnPath(<<>>) /\ Fits(<<>>, 1)
    BY <1>3 DEF OnPath, Fits
<1> HIDE DEF first
<1>5. RowRouted(first) /\ RowRouted(AbsentRow)
    BY <1>2, <1>4 DEF RowRouted, CanStart
<1>6. RowsRouted
    BY <1>1, <1>5 DEF RowsRouted
<1>7. AwaitedSecured
    BY <1>1, <1>2 DEF AwaitedSecured, Awaiting
<1>8. \A q \in Procs : Led(runs, leases, handlers[q])
    BY FreeStarts, RestsLed DEF Init
<1> QED BY <1>6, <1>7, <1>8 DEF Routed

\* Every step of a goroutine.
LEMMA ServerRouted ==
    ASSUME LandsBack, AllHaveJobs, Inductive, LedgerKept, Turn, Turn', Holding, Routed, NEW q \in Procs, Server(q)
    PROVE  Routed'
<1>1. CASE \/ SettleRead(q) \/ AbortRead(q) \/ Patch(q) \/ DropLease(q)
           \/ Unlock(q) \/ ReleaseLease(q) \/ CloseIssue(q)
    BY <1>1, SettlingRoute
<1>2. CASE \/ Synthesize(q) \/ TimeoutJob(q) \/ Stamp(q) \/ MakeDecision(q) \/ Park(q)
    BY <1>2, SynthesizeRoute, Undone, StampRoute, MakeDecisionRoute, ParkRoute
<1>3. CASE AppendAttempt(q) \/ SkipPhase(q) \/ SkipJobs(q)
    BY <1>3, AppendAttemptRoute, SkipPhaseRoute, SkipJobsRoute
<1>4. CASE ReadLease(q) \/ Launch(q) \/ LaunchNothing(q)
    BY <1>4, ReadLeaseRoute, LaunchRoute, LaunchesSomething
<1>5. CASE Recycle(q) \/ CreateChild(q) \/ Start(q) \/ Acquire(q)
    BY <1>5, RecycleRoute, CreateChildRoute, StartRoute, AcquireRoute
<1>6. CASE OpenGate(q) \/ CancelGate(q)
    BY <1>6, OpenGateRoute, CancelGateRoute
<1>7. CASE \E pod \in pods : Callback(q, pod) \/ Watch(q, pod) \/ Reconcile(q, pod)
    BY <1>7, CallbackRoute, WaitingRoute, Undone
<1>8. CASE \E c \in Cycles : \/ DispatchTimeout(q, c) \/ Admit(q, c)
                             \/ Approve(q, c) \/ CancelReview(q, c) \/ AdminAbort(q, c)
    BY <1>8, Undone, AdmitRoute, WaitingRoute
<1>9. CASE CallFails(q) \/ Crash(q)
    BY <1>9, Undone, WaitingRoute
<1> QED BY <1>1, <1>2, <1>3, <1>4, <1>5, <1>6, <1>7, <1>8, <1>9 DEF Server, HandlerStep

\* The attempts of phases in their order, the last one open: nothing aborted, and every phase
\* before the last went forward.
LEMMA ParkedInOrder ==
    ASSUME NEW tries \in Seq(Attempt), InOrder(tries), Parked(tries)
    PROVE  ~HasAbort(tries) /\ 1..(tries[Len(tries)].phase - 1) = Advanced(tries)
<1> DEFINE n == Len(tries)
<1> DEFINE Went(p) == \/ tries[p].decision = "advance"
                      \/ tries[p].decision = "none" /\ tries[p].completed
                         /\ AdvanceConclusion(tries[p].concl)
<1>1. n \in Nat /\ DOMAIN tries = 1..n /\ n \in 1..n
    BY DEF Parked
<1>2. \A i \in 1..n : tries[i].phase = i /\ (i < n => tries[i].decision = "advance")
    BY <1>1 DEF InOrder
<1>3. ~tries[n].completed /\ tries[n].decision = "none"
    BY DEF Parked
<1>4. ~HasAbort(tries)
    BY <1>1, <1>2, <1>3 DEF HasAbort, AbortDecisions
<1>5. Attempted(tries) = 1..n
    BY <1>1, <1>2 DEF Attempted
<1>6. \A p \in 1..n : LatestOf(tries, p) = p
  <2> TAKE p \in 1..n
  <2> DEFINE Latest1(i) == /\ tries[i].phase = p
                           /\ \A k \in DOMAIN tries : tries[k].phase = p => k <= i
  <2>1. LatestOf(tries, p) = CHOOSE i \in DOMAIN tries : Latest1(i)
      BY DEF LatestOf
  <2>2. \A i \in DOMAIN tries : Latest1(i) <=> i = p
      BY <1>1, <1>2
  <2>3. p \in DOMAIN tries
      BY <1>1
  <2> HIDE DEF Latest1
  <2> QED BY <2>1, <2>2, <2>3
<1>7. Advanced(tries) \subseteq 1..n /\ \A p \in 1..n : p \in Advanced(tries) <=> Went(p)
  <2>1. Advanced(tries) = {p \in Attempted(tries) : Went(LatestOf(tries, p))}
      BY DEF Advanced
  <2> HIDE DEF Went, n
  <2> QED BY ONLY <2>1, <1>5, <1>6
<1>8. \A p \in 1..n : p < n => Went(p)
    BY <1>2
<1>9. ~Went(n)
    BY <1>3
<1>10. tries[n].phase = n
    BY <1>1, <1>2
<1>11. 1..(n - 1) = Advanced(tries)
  <2> HIDE DEF Went, n
  <2>1. \A p \in 1..n : p \in Advanced(tries) <=> p \in 1..(n - 1)
      BY ONLY <1>1, <1>7, <1>8, <1>9
  <2>2. 1..(n - 1) \subseteq 1..n
      BY ONLY <1>1
  <2> QED BY ONLY <1>7, <2>1, <2>2
<1> QED BY <1>4, <1>10, <1>11

\* What a run on its path parks for review with.
LEMMA RoutedReviews == ASSUME Inductive, Turn, Routed PROVE AbortNeverReviewed
<1> SUFFICES ASSUME NEW c \in Cycles, runs[c].state = "review_required"
             PROVE  LET tries == runs[c].attempts
                    IN  /\ ~HasAbort(tries)
                        /\ 1..(tries[Len(tries)].phase - 1) = Advanced(tries)
    BY DEF AbortNeverReviewed
<1> DEFINE tries == runs[c].attempts
<1>1. OnPath(tries) /\ Parked(tries)
    BY DEF Routed, RowsRouted, RowRouted
<1>2. IsGate(tries[Len(tries)].phase)
    BY DEF Turn, ReviewAlone, AtGate, Latest
<1>3. tries \in Seq(Attempt)
    BY Parts, RowFields
<1> HIDE DEF tries
<1>4. InOrder(tries)
    BY <1>1, <1>2 DEF OnPath, IsTeardown, IsGate
<1>5. ~HasAbort(tries) /\ 1..(tries[Len(tries)].phase - 1) = Advanced(tries)
    BY <1>1, <1>3, <1>4, ParkedInOrder
<1> QED BY <1>5 DEF tries

\* A run parks for review only when nothing before the gate aborted and every phase before it
\* went forward, however goroutines, crashes, killed pods, repeated events and reviewers
\* interleave: a phase is appended only where it comes next, a recycled cycle goes on from the
\* phases it carries, and after an abort only the teardown is left.  Of the workflow it takes
\* two things that registration does not ask for: a retry lands no later than behind its
\* verification, and every phase has a job.
THEOREM AbortsAreNeverReviewed ==
    ASSUME Undisturbed, JobsApart, LandsBack, AllHaveJobs PROVE Spec => []AbortNeverReviewed
<1>1. Init => Turn /\ Holding /\ Routed
    BY InitTurn, InitHolding, InitRouted
<1>2. Inductive /\ (Turn /\ Holding /\ Routed) /\ [Next]_vars => (Turn /\ Holding /\ Routed)'
  <2> SUFFICES ASSUME Inductive, Turn, Holding, Routed, [Next]_vars PROVE Turn' /\ Holding' /\ Routed'
      OBVIOUS
  <2>1. LedgerKept
      BY NextKeeps DEF Preserved
  <2>2. Turn'
      BY <2>1, ServerTurn, PodsTurn DEF Next
  <2>3. Holding'
      BY <2>1, ServerHolding, PodsHolding DEF Next
  <2>4. Routed'
      BY <2>1, <2>2, ServerRouted, PodsRoute DEF Next
  <2> QED BY <2>2, <2>3, <2>4
<1>3. Inductive /\ Turn /\ Holding /\ Routed => AbortNeverReviewed
    BY RoutedReviews
<1> QED BY <1>1, <1>2, <1>3, InductiveInvariant, PTL DEF Spec
=============================================================================
