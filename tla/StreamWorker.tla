---------------------------- MODULE StreamWorker ---------------------------
(***************************************************************************)
(* The Stage A worker: Worker.ProcessStreamer (src/internal/media/         *)
(* worker.go) over InMemoryLocker and InMemoryRunStore (store_memory.go),  *)
(* recording its decisions in the streamers' DecisionLog, to which         *)
(* administrators post as well.                                            *)
(*                                                                         *)
(* A cycle holds the lock of its streamer for LockTTL at most, however     *)
(* long the capture and the classification take: nothing bounds them.      *)
(* Time is kept as what is left of each lock and how long each cycle has   *)
(* run, so no clock has to be bounded.  The locks live in the process and  *)
(* end with it; a restart is the initial state.                            *)
(***************************************************************************)
EXTENDS Integers, Sequences, FiniteSets

CONSTANTS
    Streamers,
    Workers,
    Admins,
    None,       \* not a streamer
    LockTTL,    \* WorkerConfig.LockTTL
    MaxBusy,    \* no cycle runs for longer; above LockTTL, any cycle may hang
    MaxRuns, MaxPosts

\* NewWorker replaces a TTL of zero or less by 30 seconds.
ASSUME LockTTLAssumption == LockTTL \in Nat \ {0} /\ MaxBusy \in Nat

ASSUME NamesAssumption ==
    /\ None \notin Streamers /\ Workers \intersect Admins = {}
    /\ IsFiniteSet(Workers) /\ IsFiniteSet(Admins)
    /\ MaxRuns \in Nat /\ MaxPosts \in Nat

VARIABLES
    left,       \* left[s]: for how long TryLock on s will fail, 0 if it will not
    runs,       \* InMemoryRunStore.counter
    job,        \* job[w]: the locals of ProcessStreamer in worker w
    now, counter, call, decisions   \* of the decision log

Log == INSTANCE DecisionLog WITH Callers <- Workers \union Admins

logVars == <<now, counter, call, decisions>>
vars == <<left, runs, job, logVars>>

Idle == [at |-> "idle", streamer |-> None, run |-> 0, busy |-> 0]

Jobs ==
    [at: {"idle", "create_run", "capture", "classify", "record", "recording", "unlock"},
     streamer: Streamers \union {None}, run: 0..MaxRuns, busy: 0..LockTTL]

TypeOK ==
    /\ left \in [Streamers -> 0..LockTTL]
    /\ runs \in 0..MaxRuns
    /\ job \in [Workers -> Jobs]
    /\ Log!TypeOK

Init ==
    /\ left = [s \in Streamers |-> 0]
    /\ runs = 0
    /\ job = [w \in Workers |-> Idle]
    /\ Log!Init

-----------------------------------------------------------------------------

\* Worker w is inside ProcessStreamer(s), between TryLock and Unlock.
Working(w, s) == job[w].at # "idle" /\ job[w].streamer = s

\* The bound MaxRuns counts the cycles that are about to create a run.
RunsLeft == runs + Cardinality({w \in Workers : job[w].at = "create_run"}) < MaxRuns

Start(w, s) == job' = [job EXCEPT ![w] = [Idle EXCEPT !.at = "create_run", !.streamer = s]]

Goto(w, label) == job' = [job EXCEPT ![w].at = label]

\* Mutant: the holder of the lock is not looked at.
TryLock_Blind(w, s) ==
    /\ job[w].at = "idle"
    /\ RunsLeft
    /\ left' = [left EXCEPT ![s] = LockTTL]
    /\ Start(w, s)
    /\ UNCHANGED <<runs, logVars>>

\* Mutant: a refused TryLock prolongs the lock it found.
TryLock_Prolongs(w, s) ==
    /\ job[w].at = "idle"
    /\ RunsLeft
    /\ left' = [left EXCEPT ![s] = LockTTL]
    /\ IF left[s] = 0 THEN Start(w, s) ELSE UNCHANGED job
    /\ UNCHANGED <<runs, logVars>>

\* TryLock succeeds: no lock is held, or its TTL is over.  Otherwise
\* ErrStreamerBusy is returned and nothing changes.
TryLock(w, s) ==
    /\ job[w].at = "idle"
    /\ RunsLeft
    /\ left[s] = 0
    /\ left' = [left EXCEPT ![s] = LockTTL]
    /\ Start(w, s)
    /\ UNCHANGED <<runs, logVars>>

\* Mutant: the run id is taken before the counter advances.
CreateRun_Stale(w) ==
    /\ job[w].at = "create_run"
    /\ runs' = runs + 1
    /\ job' = [job EXCEPT ![w].at = "capture", ![w].run = IF runs = 0 THEN 1 ELSE runs]
    /\ UNCHANGED <<left, logVars>>

\* An atomic counter numbers the run; the in-memory store never fails.
CreateRun(w) ==
    /\ job[w].at = "create_run"
    /\ runs' = runs + 1
    /\ job' = [job EXCEPT ![w].at = "capture", ![w].run = runs + 1]
    /\ UNCHANGED <<left, logVars>>

Capture(w) ==
    /\ job[w].at = "capture"
    /\ Goto(w, "classify")
    /\ UNCHANGED <<left, runs, logVars>>

Classify(w) ==
    /\ job[w].at = "classify"
    /\ Goto(w, "record")
    /\ UNCHANGED <<left, runs, logVars>>

\* The capture or the classifier fails, or RecordLLMDecision refuses the
\* classifier's confidence: the deferred Unlock is next.
CycleFails(w) ==
    /\ job[w].at \in {"capture", "classify", "record"}
    /\ Goto(w, "unlock")
    /\ UNCHANGED <<left, runs, logVars>>

\* Mutant: the run and the streamer of the request are swapped.
BeginRecord_Swapped(w) ==
    /\ job[w].at = "record"
    /\ Log!BeginRecord(w, job[w].run, job[w].streamer)
    /\ Goto(w, "recording")
    /\ UNCHANGED <<left, runs>>

BeginRecord(w) ==
    /\ job[w].at = "record"
    /\ Log!BeginRecord(w, job[w].streamer, job[w].run)
    /\ Goto(w, "recording")
    /\ UNCHANGED <<left, runs>>

\* A step of RecordLLMDecision; the last one returns to the worker.
Record(w) ==
    /\ job[w].at = "recording"
    /\ \/ (Log!Number(w) \/ Log!Stamp(w)) /\ UNCHANGED job
       \/ Log!AppendItem(w) /\ Goto(w, "unlock")
    /\ UNCHANGED <<left, runs>>

\* The deferred Unlock deletes the entry of the streamer, whoever owns it.
Unlock(w) ==
    /\ job[w].at = "unlock"
    /\ left' = [left EXCEPT ![job[w].streamer] = 0]
    /\ job' = [job EXCEPT ![w] = Idle]
    /\ UNCHANGED <<runs, logVars>>

AdminStep(a) ==
    /\ Log!Record(a) \/ \E s \in Streamers : Log!Post(a, s)
    /\ UNCHANGED <<left, runs, job>>

\* One unit of time; a cycle's age is kept up to LockTTL.
Tick ==
    /\ \A w \in Workers : job[w].at # "idle" => job[w].busy < MaxBusy
    /\ left' = [s \in Streamers |-> IF left[s] > 0 THEN left[s] - 1 ELSE 0]
    /\ job' = [w \in Workers |->
                  IF job[w].at # "idle" /\ job[w].busy < LockTTL
                  THEN [job[w] EXCEPT !.busy = @ + 1] ELSE job[w]]
    /\ UNCHANGED <<runs, logVars>>

Step(w) ==
    \/ CreateRun(w) \/ Capture(w) \/ Classify(w) \/ CycleFails(w)
    \/ BeginRecord(w) \/ Record(w) \/ Unlock(w)

Next ==
    \/ \E w \in Workers : Step(w) \/ \E s \in Streamers : TryLock(w, s)
    \/ \E a \in Admins : AdminStep(a)
    \/ Tick

Spec == Init /\ [][Next]_vars

\* Time passes, whatever the workers do: no worker is assumed to go on.
FairSpec == Spec /\ WF_vars(Tick)

-----------------------------------------------------------------------------
(* Properties.                                                             *)

\* As long as cycles end before their lock does, no two workers are ever
\* processing the same streamer (TryLock and the unconditional Unlock).
Exclusive ==
    MaxBusy < LockTTL =>
        \A v, w \in Workers, s \in Streamers : Working(v, s) /\ Working(w, s) => v = w

\* As long as cycles end before their lock does, the history of a streamer has
\* its runs in the order they were created, never stamped backwards, and each
\* run once: the lock makes up for the history's two mutexes.
RunsInOrder ==
    MaxBusy < LockTTL =>
        \A s \in Streamers : \A i, j \in DOMAIN decisions[s] :
            LET d == decisions[s][i]
                e == decisions[s][j]
            IN  i < j /\ d.run # 0 /\ e.run # 0 =>
                    d.run < e.run /\ d.createdAt <= e.createdAt

\* A run has at most one decision, in the history of the run's own streamer,
\* and overlapping cycles never share a run, even when locks expire under them.
RunsAreDistinct ==
    /\ \A d, e \in Log!Recorded : d.run # 0 /\ d.run = e.run => d = e
    /\ \A w \in Workers : job[w].run # 0 =>
        /\ \A v \in Workers : job[v].run = job[w].run => v = w
        /\ \A d \in Log!Recorded : d.run = job[w].run => job[w].at = "unlock"

\* Whatever requests and cycles record at once, no decision of the history is
\* lost, repeated or given another's id (the two mutexes of RecordLLMDecision).
ListedOnce == Log!ListedOnce

\* A decision recorded after another had been returned, by a worker or by a
\* request, is listed before it, with a higher id and no earlier timestamp.
RealTimeOrder == Log!RealTimeOrder

\* A lock ends even if its worker never returns and others keep asking for it.
LockFrees ==
    \A s \in Streamers : left[s] > 0 ~> left[s] = 0

\* "duplicate cycle for the same lock window is rejected": TryLock succeeds
\* only when no cycle on the streamer is still within LockTTL of its start.
OneCyclePerWindow ==
    [][\A w \in Workers, s \in Streamers : TryLock(w, s) =>
          \A v \in Workers : Working(v, s) => job[v].busy >= LockTTL]_vars

=============================================================================
