------------------------- MODULE StreamWorkerProofs -------------------------
(***************************************************************************)
(* The properties of StreamWorker, and of the DecisionLog it writes to,    *)
(* for any workers, administrators, streamers and lock TTL.                *)
(***************************************************************************)
EXTENDS StreamWorker, TLAPS, FiniteSetTheorems

Recorders == Workers \union Admins

\* The types, without the bounds on runs and posts.
PendingCalls ==
    [at: {"number", "stamp", "append"}, streamer: Streamers, run: Nat,
     id: Nat, createdAt: Nat, after: SUBSET Nat]

Listed == [id: Nat, createdAt: Nat, run: Nat, after: SUBSET Nat]

LogTypes ==
    /\ now \in Nat /\ counter \in Nat
    /\ call \in [Recorders -> PendingCalls \union {Log!NoCall}]
    /\ decisions \in [Streamers -> Seq(Listed)]

JobRecords ==
    [at: {"idle", "create_run", "capture", "classify", "record", "recording", "unlock"},
     streamer: Streamers \union {None}, run: Nat, busy: 0..LockTTL]

JobTypes ==
    /\ left \in [Streamers -> 0..LockTTL]
    /\ runs \in Nat
    /\ job \in [Workers -> JobRecords]
    /\ \A w \in Workers : job[w].at # "idle" => job[w].streamer \in Streamers

\* Ids are not given twice, and calls know only what had been listed when they
\* began: it is older than what they stamp.
LogOK ==
    /\ \A d \in Log!Recorded :
          d.id <= counter /\ d.createdAt <= now /\ d.after \subseteq Log!ReturnedIDs
    /\ \A c \in Recorders : Log!Pending(c) =>
          /\ call[c].after \subseteq Log!ReturnedIDs
          /\ call[c].id = 0 <=> call[c].at = "number"
          /\ call[c].at # "number" =>
                /\ call[c].id <= counter
                /\ \A d \in Log!Recorded : d.id \in call[c].after => d.id < call[c].id
          /\ call[c].at = "append" =>
                /\ call[c].createdAt <= now
                /\ \A d \in Log!Recorded : d.id \in call[c].after => d.createdAt <= call[c].createdAt

\* What a decision had been preceded by is before it in the slice.
OldestFirst ==
    \A s \in Streamers : \A i, j \in 1..Len(decisions[s]) :
        decisions[s][j].id \in decisions[s][i].after =>
            /\ j < i
            /\ decisions[s][j].id < decisions[s][i].id
            /\ decisions[s][j].createdAt <= decisions[s][i].createdAt

\* The lock of a cycle has LockTTL less the cycle's age left.
LockOK ==
    MaxBusy < LockTTL =>
        \A w \in Workers : job[w].at # "idle" =>
            job[w].busy <= MaxBusy /\ left[job[w].streamer] + job[w].busy = LockTTL

\* A worker's call belongs to its cycle, an administrator's to no run.
CallsOK ==
    /\ \A w \in Workers :
          /\ job[w].run <= runs
          /\ job[w].at \in {"idle", "create_run"} <=> job[w].run = 0
          /\ Log!Pending(w) <=> job[w].at = "recording"
          /\ Log!Pending(w) => call[w].run = job[w].run /\ call[w].streamer = job[w].streamer
    /\ \A a \in Admins : Log!Pending(a) => call[a].run = 0
    /\ \A d \in Log!Recorded : d.run <= runs

\* While a cycle has a run to record, the history of its streamer has no later one.
NextRun ==
    MaxBusy < LockTTL =>
        \A w \in Workers : job[w].run # 0 /\ job[w].at # "unlock" =>
            \A i \in 1..Len(decisions[job[w].streamer]) :
                LET d == decisions[job[w].streamer][i]
                IN  /\ d.run < job[w].run
                    /\ d.run # 0 /\ Log!Pending(w) /\ call[w].at = "append" =>
                          d.createdAt <= call[w].createdAt

LogInv == LogTypes /\ LogOK /\ OldestFirst /\ Log!ListedOnce

IInv == LogInv /\ JobTypes /\ LockOK /\ Exclusive /\ CallsOK /\ RunsAreDistinct /\ NextRun /\ RunsInOrder

-----------------------------------------------------------------------------
(* What a step does to the log.                                            *)

\* The steps of calls, begun by anybody for any run.
LogStep ==
    \E c \in Recorders :
        \/ \E s \in Streamers, r \in Nat : Log!BeginRecord(c, s, r)
        \/ Log!Number(c) \/ Log!Stamp(c) \/ Log!AppendItem(c)

LEMMA LogSteps ==
  ASSUME JobTypes, [Next]_vars
  PROVE  LogStep \/ UNCHANGED logVars
<1>1. ASSUME NEW w \in Workers, BeginRecord(w)
      PROVE  LogStep
  <2>1. job[w].streamer \in Streamers /\ job[w].run \in Nat
    BY <1>1 DEF BeginRecord, JobTypes, JobRecords
  <2>. QED  BY <1>1, <2>1 DEF BeginRecord, LogStep, Recorders
<1>2. ASSUME NEW w \in Workers, Record(w)
      PROVE  LogStep
  BY <1>2 DEF Record, LogStep, Recorders
<1>3. ASSUME NEW a \in Admins, AdminStep(a)
      PROVE  LogStep
  BY <1>3 DEF AdminStep, Log!Record, Log!Post, LogStep, Recorders
<1>. QED
  BY <1>1, <1>2, <1>3 DEF Next, Step, vars, logVars, TryLock, CreateRun, Capture, Classify, CycleFails,
     Unlock, Tick

\* A call in progress is a record of the type, and its label says that it is one.
LEMMA PendingFacts ==
  ASSUME LogTypes, NEW c \in Recorders
  PROVE  /\ Log!Pending(c) <=> call[c].at \in {"number", "stamp", "append"}
         /\ Log!Pending(c) => call[c] \in PendingCalls
  BY DEF LogTypes, PendingCalls, Log!Pending, Log!NoCall

LEMMA RecordedFacts ==
  ASSUME LogTypes
  PROVE  /\ \A d \in Log!Recorded : d \in Listed
         /\ \A s \in Streamers : \A i \in 1..Len(decisions[s]) :
               decisions[s][i] \in Log!Recorded /\ decisions[s][i].id \in Log!ReturnedIDs
         /\ \A d \in Log!Recorded : \E s \in Streamers : \E i \in 1..Len(decisions[s]) :
               d = decisions[s][i]
         /\ \A d \in Log!Recorded : d.id \in Log!ReturnedIDs
         /\ \A n \in Log!ReturnedIDs : \E d \in Log!Recorded : d.id = n
         /\ Log!ReturnedIDs \subseteq Nat
<1>1. \A s \in Streamers : decisions[s] \in Seq(Listed) /\ DOMAIN decisions[s] = 1..Len(decisions[s])
  BY DEF LogTypes
<1>2. \A s \in Streamers : \A i \in 1..Len(decisions[s]) : decisions[s][i] \in Listed
  BY <1>1
<1>3. \A d \in Log!Recorded : \E s \in Streamers : \E i \in 1..Len(decisions[s]) :
         d = decisions[s][i]
  BY <1>1 DEF Log!Recorded
<1>4. \A s \in Streamers : \A i \in 1..Len(decisions[s]) : decisions[s][i] \in Log!Recorded
  BY <1>1 DEF Log!Recorded
<1>5. \A d \in Log!Recorded : d \in Listed
  BY <1>2, <1>3
<1>6. Log!ReturnedIDs \subseteq Nat
  BY <1>5 DEF Log!ReturnedIDs, Listed
<1>. QED  BY <1>3, <1>4, <1>5, <1>6 DEF Log!ReturnedIDs

\* The append of a call: one item more at the end of one history.
Appends(c) ==
    /\ call[c].at = "append"
    /\ call[c] \in PendingCalls
    /\ Log!Item(c) \in Listed
    /\ \A s \in Streamers : s # call[c].streamer => decisions'[s] = decisions[s]
    /\ Len(decisions'[call[c].streamer]) = Len(decisions[call[c].streamer]) + 1
    /\ \A i \in 1..Len(decisions[call[c].streamer]) :
          decisions'[call[c].streamer][i] = decisions[call[c].streamer][i]
    /\ decisions'[call[c].streamer][Len(decisions[call[c].streamer]) + 1] = Log!Item(c)
    /\ \A s \in Streamers : \A k \in 1..Len(decisions[s]) :
          k \in 1..Len(decisions'[s]) /\ decisions'[s][k] = decisions[s][k]
    /\ \A s \in Streamers : \A k \in 1..Len(decisions'[s]) :
          \/ k \in 1..Len(decisions[s]) /\ decisions'[s][k] = decisions[s][k]
          \/ /\ s = call[c].streamer /\ k = Len(decisions[s]) + 1
             /\ decisions'[s][k] = Log!Item(c)
    /\ decisions' \in [Streamers -> Seq(Listed)]
    /\ (Log!Recorded)' = Log!Recorded \union {Log!Item(c)}
    /\ (Log!ReturnedIDs)' = Log!ReturnedIDs \union {call[c].id}

LEMMA Appended ==
  ASSUME LogTypes, NEW c \in Recorders, Log!AppendItem(c)
  PROVE  Appends(c)
<1> DEFINE s0 == call[c].streamer
           x == Log!Item(c)
           n == Len(decisions[s0])
<1>1. call[c].at = "append" /\ call[c] \in PendingCalls
  BY PendingFacts DEF Log!AppendItem
<1>2. s0 \in Streamers /\ x \in Listed /\ x.id = call[c].id
  BY <1>1 DEF PendingCalls, Listed, Log!Item
<1>3. decisions[s0] \in Seq(Listed) /\ n \in Nat
  BY <1>2 DEF LogTypes
<1>4. /\ \A s \in Streamers : s # s0 => decisions'[s] = decisions[s]
      /\ decisions'[s0] = Append(decisions[s0], x)
  BY <1>2 DEF Log!AppendItem, LogTypes
<1>5. /\ Len(decisions'[s0]) = n + 1
      /\ \A i \in 1..n : decisions'[s0][i] = decisions[s0][i]
      /\ decisions'[s0][n + 1] = x
      /\ decisions'[s0] \in Seq(Listed)
  BY <1>2, <1>3, <1>4
<1>6. decisions' \in [Streamers -> Seq(Listed)]
  BY <1>2, <1>4, <1>5 DEF Log!AppendItem, LogTypes
<1>7. \A s \in Streamers : DOMAIN decisions[s] = 1..Len(decisions[s]) /\ DOMAIN decisions'[s] = 1..Len(decisions'[s])
  BY <1>6 DEF LogTypes
<1>8. ASSUME NEW s \in Streamers, NEW k \in 1..Len(decisions[s])
      PROVE  k \in 1..Len(decisions'[s]) /\ decisions'[s][k] = decisions[s][k]
  <2>1. CASE s = s0
    <3>1. k \in 1..n
      BY <2>1
    <3>2. k \in 1..(n + 1)
      BY <1>3, <3>1
    <3>. QED  BY <1>5, <2>1, <3>1, <3>2
  <2>2. CASE s # s0
    BY <1>4, <2>2
  <2>. QED  BY <2>1, <2>2
<1>9. ASSUME NEW s \in Streamers, NEW k \in 1..Len(decisions'[s])
      PROVE  \/ k \in 1..Len(decisions[s]) /\ decisions'[s][k] = decisions[s][k]
             \/ s = s0 /\ k = Len(decisions[s]) + 1 /\ decisions'[s][k] = x
  <2>1. CASE s = s0
    <3>1. k \in 1..(n + 1)
      BY <1>5, <2>1
    <3>2. k \in 1..n \/ k = n + 1
      BY <1>3, <3>1
    <3>. QED  BY <1>5, <2>1, <3>2
  <2>2. CASE s # s0
    BY <1>4, <2>2
  <2>. QED  BY <2>1, <2>2
<1>10. (Log!Recorded)' = Log!Recorded \union {x}
  <2>1. ASSUME NEW d \in (Log!Recorded)'
        PROVE  d \in Log!Recorded \union {x}
    <3>1. PICK s \in Streamers : \E i \in 1..Len(decisions'[s]) : d = decisions'[s][i]
      BY <1>7, <2>1 DEF Log!Recorded
    <3>2. PICK i \in 1..Len(decisions'[s]) : d = decisions'[s][i]
      BY <3>1
    <3>. QED  BY <1>7, <1>9, <3>2 DEF Log!Recorded
  <2>2. ASSUME NEW d \in Log!Recorded
        PROVE  d \in (Log!Recorded)'
    <3>1. PICK s \in Streamers : \E i \in 1..Len(decisions[s]) : d = decisions[s][i]
      BY <1>7, <2>2 DEF Log!Recorded
    <3>2. PICK i \in 1..Len(decisions[s]) : d = decisions[s][i]
      BY <3>1
    <3>3. i \in 1..Len(decisions'[s]) /\ d = decisions'[s][i]
      BY <1>8, <3>2
    <3>. QED  BY <1>7, <3>3 DEF Log!Recorded
  <2>3. x \in (Log!Recorded)'
    <3>1. n + 1 \in 1..Len(decisions'[s0])
      BY <1>3, <1>5
    <3>. QED  BY <1>2, <1>5, <1>7, <3>1 DEF Log!Recorded
  <2>. QED  BY <2>1, <2>2, <2>3
<1>11. (Log!ReturnedIDs)' = Log!ReturnedIDs \union {call[c].id}
  BY <1>2, <1>10 DEF Log!ReturnedIDs
<1>. QED  BY <1>1, <1>2, <1>4, <1>5, <1>6, <1>8, <1>9, <1>10, <1>11 DEF Appends

\* The call that appends, and the item it appends.
LEMMA ItemFacts ==
  ASSUME LogTypes, NEW c \in Recorders, Log!AppendItem(c)
  PROVE  /\ call[c].at = "append" /\ Log!Pending(c) /\ call[c].streamer \in Streamers
         /\ Len(decisions[call[c].streamer]) \in Nat
         /\ Log!Item(c).id = call[c].id /\ Log!Item(c).createdAt = call[c].createdAt
         /\ Log!Item(c).run = call[c].run /\ Log!Item(c).after = call[c].after
<1>1. call[c].at = "append" /\ Log!Pending(c) /\ call[c] \in PendingCalls
  BY PendingFacts DEF Log!AppendItem
<1>2. call[c].streamer \in Streamers
  BY <1>1 DEF PendingCalls
<1>3. Len(decisions[call[c].streamer]) \in Nat
  BY <1>2 DEF LogTypes
<1>. QED  BY <1>1, <1>2, <1>3 DEF Log!Item

\* What a step before the append changes of its call and of the counters.
Moves(c) ==
    /\ call' \in [Recorders -> PendingCalls \union {Log!NoCall}]
    /\ call'[c] \in PendingCalls
    /\ \A e \in Recorders : e # c => call'[e] = call[e]
    /\ now' \in Nat /\ now <= now' /\ counter' \in Nat /\ counter <= counter'
    /\ (Log!Recorded)' = Log!Recorded /\ (Log!ReturnedIDs)' = Log!ReturnedIDs
    /\ UNCHANGED decisions
    /\ \/ /\ call'[c].at = "number" /\ call'[c].id = 0 /\ call'[c].after = Log!ReturnedIDs
          /\ counter' = counter
       \/ /\ call[c].at \in {"number", "stamp"} /\ call[c] \in PendingCalls
          /\ call'[c].streamer = call[c].streamer /\ call'[c].run = call[c].run
          /\ call'[c].after = call[c].after
          /\ \/ /\ call[c].at = "number" /\ call'[c].at = "stamp"
                /\ call'[c].id = counter + 1 /\ counter' = counter + 1
             \/ /\ call[c].at = "stamp" /\ call'[c].at = "append"
                /\ call'[c].id = call[c].id /\ call'[c].createdAt = now' /\ counter' = counter

LEMMA BeginMoves ==
  ASSUME LogTypes, NEW c \in Recorders, NEW s \in Streamers, NEW r \in Nat, Log!BeginRecord(c, s, r)
  PROVE  Moves(c) /\ call'[c].run = r /\ call'[c].streamer = s
<1> DEFINE new == [at |-> "number", streamer |-> s, run |-> r, id |-> 0,
                   createdAt |-> 0, after |-> Log!ReturnedIDs]
<1>1. new \in PendingCalls
  BY RecordedFacts DEF PendingCalls
<1>2. call'[c] = new /\ \A e \in Recorders : e # c => call'[e] = call[e]
  BY DEF Log!BeginRecord, LogTypes, Recorders
<1>3. call' \in [Recorders -> PendingCalls \union {Log!NoCall}]
  BY <1>1 DEF Log!BeginRecord, LogTypes, Recorders
<1>4. (Log!Recorded)' = Log!Recorded /\ (Log!ReturnedIDs)' = Log!ReturnedIDs
  BY DEF Log!BeginRecord, Log!Recorded, Log!ReturnedIDs
<1>5. now' \in Nat /\ now <= now' /\ counter' \in Nat /\ counter <= counter'
  BY DEF LogTypes, Log!BeginRecord
<1>6. call'[c].at = "number" /\ call'[c].id = 0 /\ call'[c].after = Log!ReturnedIDs /\ counter' = counter
  BY <1>2 DEF Log!BeginRecord
<1>7. call'[c].run = r /\ call'[c].streamer = s
  BY <1>2
<1>. QED  BY <1>1, <1>2, <1>3, <1>4, <1>5, <1>6, <1>7 DEF Moves, Log!BeginRecord

LEMMA RecordMoves ==
  ASSUME LogTypes, NEW c \in Recorders, Log!Number(c) \/ Log!Stamp(c)
  PROVE  /\ Moves(c) /\ call[c].at \in {"number", "stamp"}
         /\ call'[c].run = call[c].run /\ call'[c].streamer = call[c].streamer
<1>1. call[c].at \in {"number", "stamp"} /\ call[c] \in PendingCalls
  BY PendingFacts DEF Log!Number, Log!Stamp
<1>2. (Log!Recorded)' = Log!Recorded /\ (Log!ReturnedIDs)' = Log!ReturnedIDs /\ UNCHANGED decisions
  BY DEF Log!Number, Log!Stamp, Log!Recorded, Log!ReturnedIDs
<1>3. now' \in Nat /\ now <= now' /\ counter' \in Nat /\ counter <= counter'
  BY DEF LogTypes, Log!Number, Log!Stamp
<1>4. CASE Log!Number(c)
  <2> DEFINE new == [call[c] EXCEPT !.at = "stamp", !.id = counter + 1]
  <2>1. call' = [call EXCEPT ![c] = new] /\ counter' = counter + 1 /\ call[c].at = "number"
    BY <1>4 DEF Log!Number
  <2>2. new \in PendingCalls
    <3>1. counter + 1 \in Nat
      BY DEF LogTypes
    <3>. QED  BY <1>1, <3>1 DEF PendingCalls
  <2>3. /\ new.at = "stamp" /\ new.id = counter + 1 /\ new.run = call[c].run
        /\ new.streamer = call[c].streamer /\ new.after = call[c].after
    BY <1>1 DEF PendingCalls
  <2>4. call'[c] = new /\ \A e \in Recorders : e # c => call'[e] = call[e]
    BY <2>1 DEF LogTypes
  <2>5. call' \in [Recorders -> PendingCalls \union {Log!NoCall}]
    BY <2>1, <2>2 DEF LogTypes
  <2>. QED  BY <1>1, <1>2, <1>3, <2>1, <2>2, <2>3, <2>4, <2>5 DEF Moves
<1>5. CASE Log!Stamp(c)
  <2> DEFINE new == [call[c] EXCEPT !.at = "append", !.createdAt = now']
  <2>1. call' = [call EXCEPT ![c] = new] /\ counter' = counter /\ call[c].at = "stamp"
    BY <1>5 DEF Log!Stamp
  <2>2. new \in PendingCalls
    BY <1>1, <1>3 DEF PendingCalls
  <2>3. /\ new.at = "append" /\ new.id = call[c].id /\ new.run = call[c].run /\ new.createdAt = now'
        /\ new.streamer = call[c].streamer /\ new.after = call[c].after
    BY <1>1 DEF PendingCalls
  <2>4. call'[c] = new /\ \A e \in Recorders : e # c => call'[e] = call[e]
    BY <2>1 DEF LogTypes
  <2>5. call' \in [Recorders -> PendingCalls \union {Log!NoCall}]
    BY <2>1, <2>2 DEF LogTypes
  <2>. QED  BY <1>1, <1>2, <1>3, <2>1, <2>2, <2>3, <2>4, <2>5 DEF Moves
<1>. QED  BY <1>4, <1>5

\* An append ends its call and changes no other.
LEMMA AppendEnds ==
  ASSUME LogTypes, NEW c \in Recorders, Log!AppendItem(c)
  PROVE  /\ call' \in [Recorders -> PendingCalls \union {Log!NoCall}]
         /\ call'[c] = Log!NoCall /\ call'[c].at = "none"
         /\ \A e \in Recorders : e # c => call'[e] = call[e]
         /\ UNCHANGED <<now, counter>>
  BY DEF Log!AppendItem, LogTypes, Log!NoCall

-----------------------------------------------------------------------------
(* The log's invariant.                                                    *)

LEMMA LogTypesStep == LogTypes /\ (LogStep \/ UNCHANGED logVars) => LogTypes'
<1> SUFFICES ASSUME LogTypes, LogStep \/ UNCHANGED logVars PROVE LogTypes'
  OBVIOUS
<1>1. ASSUME NEW c \in Recorders, Moves(c)
      PROVE  LogTypes'
  BY <1>1 DEF Moves, LogTypes
<1>2. ASSUME NEW c \in Recorders, Log!AppendItem(c)
      PROVE  LogTypes'
  BY <1>2, Appended, AppendEnds DEF Appends, LogTypes
<1>3. CASE UNCHANGED logVars
  BY <1>3 DEF logVars, LogTypes
<1>. QED  BY <1>1, <1>2, <1>3, BeginMoves, RecordMoves DEF LogStep

LEMMA LogOKStep == LogTypes /\ LogOK /\ Log!ListedOnce /\ (LogStep \/ UNCHANGED logVars) => LogOK'
<1> SUFFICES ASSUME LogTypes, LogOK, Log!ListedOnce, LogStep \/ UNCHANGED logVars PROVE LogOK'
  OBVIOUS
<1>0. LogTypes'
  BY LogTypesStep
<1>1. /\ \A e \in Recorders : Log!Pending(e) => call[e] \in PendingCalls /\ call[e].at \in {"number", "stamp", "append"}
      /\ \A e \in Recorders : (Log!Pending(e))' <=> call'[e].at \in {"number", "stamp", "append"}
      /\ \A e \in Recorders : Log!Pending(e) <=> call[e].at \in {"number", "stamp", "append"}
      /\ \A d \in Log!Recorded : d \in Listed /\ d.id \in Log!ReturnedIDs
  <2>1. \A e \in Recorders : (Log!Pending(e))' <=> call'[e].at \in {"number", "stamp", "append"}
    BY <1>0 DEF LogTypes, PendingCalls, Log!Pending, Log!NoCall
  <2>. QED  BY <2>1, PendingFacts, RecordedFacts
<1>2. now \in Nat /\ counter \in Nat
  BY DEF LogTypes
<1>3. ASSUME NEW c \in Recorders, Moves(c)
      PROVE  LogOK'
  <2>1. ASSUME NEW d \in Log!Recorded
        PROVE  d.id <= counter' /\ d.createdAt <= now' /\ d.after \subseteq Log!ReturnedIDs
    BY <1>1, <1>2, <1>3 DEF Moves, LogOK, Listed
  <2>2. ASSUME NEW e \in Recorders, (Log!Pending(e))'
        PROVE  /\ call'[e].after \subseteq Log!ReturnedIDs
               /\ call'[e].id = 0 <=> call'[e].at = "number"
               /\ call'[e].at # "number" =>
                     /\ call'[e].id <= counter'
                     /\ \A d \in Log!Recorded : d.id \in call'[e].after => d.id < call'[e].id
               /\ call'[e].at = "append" =>
                     /\ call'[e].createdAt <= now'
                     /\ \A d \in Log!Recorded : d.id \in call'[e].after => d.createdAt <= call'[e].createdAt
    <3>1. CASE e # c
      BY <1>1, <1>2, <1>3, <2>2, <3>1 DEF Moves, LogOK, PendingCalls
    <3>2. CASE e = c
      <4>1. CASE call'[c].at = "number"
        BY <1>1, <1>3, <3>2, <4>1 DEF Moves, LogOK
      <4>2. CASE call'[c].at = "stamp"
        BY <1>1, <1>2, <1>3, <2>1, <3>2, <4>2 DEF Moves, LogOK, Listed
      <4>3. CASE call'[c].at = "append"
        BY <1>1, <1>2, <1>3, <2>1, <3>2, <4>3 DEF Moves, LogOK, Listed
      <4>. QED  BY <1>1, <2>2, <3>2, <4>1, <4>2, <4>3
    <3>. QED  BY <3>1, <3>2
  <2>. QED  BY <1>3, <2>1, <2>2 DEF Moves, LogOK
<1>4. ASSUME NEW c \in Recorders, Log!AppendItem(c)
      PROVE  LogOK'
  <2>1. /\ (Log!Recorded)' = Log!Recorded \union {Log!Item(c)}
        /\ (Log!ReturnedIDs)' = Log!ReturnedIDs \union {call[c].id}
        /\ call[c].at = "append" /\ Log!Pending(c)
    BY <1>1, <1>4, Appended DEF Appends
  <2>2. /\ Log!Item(c).id = call[c].id /\ Log!Item(c).createdAt = call[c].createdAt
        /\ Log!Item(c).after = call[c].after
    BY DEF Log!Item
  <2>3. ASSUME NEW d \in (Log!Recorded)'
        PROVE  d.id <= counter' /\ d.createdAt <= now' /\ d.after \subseteq (Log!ReturnedIDs)'
    BY <1>4, <2>1, <2>2, AppendEnds DEF LogOK
  <2>4. ASSUME NEW e \in Recorders, (Log!Pending(e))'
        PROVE  /\ call'[e].after \subseteq (Log!ReturnedIDs)'
               /\ call'[e].id = 0 <=> call'[e].at = "number"
               /\ call'[e].at # "number" =>
                     /\ call'[e].id <= counter'
                     /\ \A d \in (Log!Recorded)' : d.id \in call'[e].after => d.id < call'[e].id
               /\ call'[e].at = "append" =>
                     /\ call'[e].createdAt <= now'
                     /\ \A d \in (Log!Recorded)' : d.id \in call'[e].after => d.createdAt <= call'[e].createdAt
    <3>1. e # c /\ call'[e] = call[e] /\ Log!Pending(e)
      BY <1>1, <1>4, <2>4, AppendEnds
    <3>2. call[e].after \subseteq Log!ReturnedIDs /\ call[c].id \notin Log!ReturnedIDs
      BY <2>1, <3>1 DEF LogOK, Log!ListedOnce, Recorders
    <3>. QED  BY <1>4, <2>1, <2>2, <3>1, <3>2, AppendEnds DEF LogOK
  <2>. QED  BY <2>3, <2>4 DEF LogOK
<1>5. CASE UNCHANGED logVars
  BY <1>5 DEF logVars, LogOK, Log!Recorded, Log!ReturnedIDs, Log!Pending
<1>. QED  BY <1>3, <1>4, <1>5, BeginMoves, RecordMoves DEF LogStep

LEMMA OldestFirstStep ==
  LogTypes /\ LogOK /\ OldestFirst /\ Log!ListedOnce /\ (LogStep \/ UNCHANGED logVars) => OldestFirst'
<1> SUFFICES ASSUME LogTypes, LogOK, OldestFirst, Log!ListedOnce, LogStep \/ UNCHANGED logVars
             PROVE  OldestFirst'
  OBVIOUS
<1>1. ASSUME NEW c \in Recorders, Log!AppendItem(c)
      PROVE  OldestFirst'
  <2> DEFINE s0 == call[c].streamer
             x == Log!Item(c)
             n == Len(decisions[s0])
  <2>1. /\ call[c].at = "append" /\ Log!Pending(c) /\ s0 \in Streamers /\ n \in Nat
        /\ x.id = call[c].id /\ x.createdAt = call[c].createdAt /\ x.after = call[c].after
    BY <1>1, ItemFacts
  <2>2. /\ x.id \notin Log!ReturnedIDs /\ x.id \notin x.after
        /\ \A d \in Log!Recorded : d.id \in x.after => d.id < x.id /\ d.createdAt <= x.createdAt
    BY <2>1 DEF Log!ListedOnce, LogOK, Recorders
  <2>3. ASSUME NEW s \in Streamers, NEW i \in 1..Len(decisions'[s]), NEW j \in 1..Len(decisions'[s]),
               decisions'[s][j].id \in decisions'[s][i].after
        PROVE  /\ j < i
               /\ decisions'[s][j].id < decisions'[s][i].id
               /\ decisions'[s][j].createdAt <= decisions'[s][i].createdAt
    <3>1. CASE s # s0
      BY <1>1, <2>3, <3>1, Appended DEF Appends, OldestFirst
    <3>2. CASE s = s0
      <4>1. /\ Len(decisions'[s0]) = n + 1
            /\ \A k \in 1..n : decisions'[s0][k] = decisions[s0][k]
            /\ decisions'[s0][n + 1] = x
        BY <1>1, Appended DEF Appends
      <4>2. \A k \in 1..n : decisions[s0][k] \in Log!Recorded /\ decisions[s0][k].id \in Log!ReturnedIDs
        BY <2>1, RecordedFacts
      <4>3. CASE i \in 1..n /\ j \in 1..n
        BY <2>1, <2>3, <3>2, <4>1, <4>3 DEF OldestFirst
      <4>4. CASE i = n + 1 /\ j \in 1..n
        <5>1. decisions'[s][i] = x /\ decisions'[s][j] = decisions[s0][j]
          BY <3>2, <4>1, <4>4
        <5>2. decisions[s0][j] \in Log!Recorded /\ decisions[s0][j].id \in x.after
          BY <2>3, <4>2, <4>4, <5>1
        <5>. QED  BY <2>1, <2>2, <4>4, <5>1, <5>2
      <4>5. CASE j = n + 1
        <5>1. x.id \in decisions'[s0][i].after
          BY <2>3, <3>2, <4>1, <4>5
        <5>2. i \in 1..n
          BY <2>1, <2>2, <3>2, <4>1, <5>1
        <5>. QED  BY <2>2, <4>1, <4>2, <5>1, <5>2 DEF LogOK
      <4>. QED  BY <2>1, <3>2, <4>1, <4>3, <4>4, <4>5
    <3>. QED  BY <3>1, <3>2
  <2>. QED  BY <2>3 DEF OldestFirst
<1>2. CASE UNCHANGED decisions
  BY <1>2 DEF OldestFirst
<1>. QED  BY <1>1, <1>2, BeginMoves, RecordMoves DEF LogStep, Moves, logVars

LEMMA ListedOnceStep ==
  LogTypes /\ LogOK /\ Log!ListedOnce /\ (LogStep \/ UNCHANGED logVars) => (Log!ListedOnce)'
<1> SUFFICES ASSUME LogTypes, LogOK, Log!ListedOnce, LogStep \/ UNCHANGED logVars
             PROVE  (Log!ListedOnce)'
  OBVIOUS
<1>0. LogTypes'
  BY LogTypesStep
<1>1. /\ \A e \in Recorders : Log!Pending(e) => call[e] \in PendingCalls
      /\ \A e \in Recorders : (Log!Pending(e))' <=> call'[e].at \in {"number", "stamp", "append"}
      /\ \A e \in Recorders : Log!Pending(e) <=> call[e].at \in {"number", "stamp", "append"}
  <2>1. \A e \in Recorders : (Log!Pending(e))' <=> call'[e].at \in {"number", "stamp", "append"}
    BY <1>0 DEF LogTypes, PendingCalls, Log!Pending, Log!NoCall
  <2>. QED  BY <2>1, PendingFacts
<1>2. /\ \A s \in Streamers : DOMAIN decisions[s] = 1..Len(decisions[s])
      /\ \A s \in Streamers : DOMAIN decisions'[s] = 1..Len(decisions'[s])
  BY <1>0 DEF LogTypes
<1>3. ASSUME NEW c \in Recorders, Moves(c)
      PROVE  (Log!ListedOnce)'
  <2>1. ASSUME NEW e \in Recorders, (Log!Pending(e))', call'[e].at # "number"
        PROVE  call'[e].id \notin Log!ReturnedIDs
    <3>1. CASE e # c
      BY <1>1, <1>3, <2>1, <3>1 DEF Moves, Log!ListedOnce, Recorders
    <3>2. CASE e = c /\ call'[c].at = "stamp"
      <4>1. call'[c].id = counter + 1
        BY <1>3, <3>2 DEF Moves
      <4>2. \A d \in Log!Recorded : d.id # counter + 1
        BY RecordedFacts DEF LogOK, LogTypes, Listed
      <4>. QED  BY <3>2, <4>1, <4>2, RecordedFacts
    <3>3. CASE e = c /\ call'[c].at = "append"
      <4>1. call[c].at = "stamp" /\ call'[c].id = call[c].id
        BY <1>3, <3>3 DEF Moves
      <4>. QED  BY <1>1, <3>3, <4>1 DEF Log!ListedOnce, Recorders
    <3>. QED  BY <1>1, <2>1, <3>1, <3>2, <3>3
  <2>2. ASSUME NEW e \in Recorders, NEW f \in Recorders, e # f, call'[e].at # "number",
               (Log!Pending(e))', (Log!Pending(f))'
        PROVE  call'[f].id # call'[e].id
    <3>1. CASE e # c /\ f # c
      BY <1>1, <1>3, <2>2, <3>1 DEF Moves, Log!ListedOnce, Recorders
    <3>2. CASE call'[c].at = "number"
      <4>1. e # c /\ call'[e] = call[e] /\ Log!Pending(e) /\ call[e].id # 0
        BY <1>1, <1>3, <2>2, <3>2 DEF Moves, LogOK
      <4>. QED  BY <1>3, <3>1, <3>2, <4>1 DEF Moves
    <3>3. ASSUME NEW g \in Recorders, g # c, Log!Pending(g), call'[c].at # "number"
          PROVE  call'[c].id # call[g].id
      <4>1. CASE call'[c].at = "stamp"
        <5>1. call[g].id <= counter /\ call[g].id \in Nat /\ counter \in Nat
          BY <1>1, <3>3 DEF LogOK, PendingCalls, LogTypes
        <5>. QED  BY <1>3, <4>1, <5>1 DEF Moves
      <4>2. CASE call'[c].at = "append"
        <5>1. call[c].at = "stamp" /\ call'[c].id = call[c].id /\ Log!Pending(c)
          BY <1>1, <1>3, <4>2 DEF Moves
        <5>. QED  BY <3>3, <5>1 DEF Log!ListedOnce, Recorders
      <4>. QED  BY <1>3, <3>3, <4>1, <4>2 DEF Moves
    <3>. QED  BY <1>1, <1>3, <2>2, <3>1, <3>2, <3>3 DEF Moves
  <2>. QED  BY <1>3, <2>1, <2>2 DEF Moves, Log!ListedOnce, Recorders
<1>4. ASSUME NEW c \in Recorders, Log!AppendItem(c)
      PROVE  (Log!ListedOnce)'
  <2> DEFINE s0 == call[c].streamer
             x == Log!Item(c)
             n == Len(decisions[s0])
  <2>1. /\ call[c].at = "append" /\ Log!Pending(c) /\ s0 \in Streamers /\ n \in Nat /\ x.id = call[c].id
        /\ (Log!ReturnedIDs)' = Log!ReturnedIDs \union {x.id}
    BY <1>4, Appended, ItemFacts DEF Appends
  <2>2. x.id \notin Log!ReturnedIDs
    BY <2>1 DEF Log!ListedOnce, Recorders
  <2>3. /\ Len(decisions'[s0]) = n + 1
        /\ \A k \in 1..n : decisions'[s0][k] = decisions[s0][k]
        /\ decisions'[s0][n + 1] = x
        /\ \A s \in Streamers : s # s0 => decisions'[s] = decisions[s]
    BY <1>4, Appended DEF Appends
  <2>4. \A s \in Streamers : \A k \in 1..Len(decisions'[s]) :
           \/ s = s0 /\ k = n + 1 /\ decisions'[s][k].id = x.id
           \/ /\ k \in 1..Len(decisions[s]) /\ decisions'[s][k] = decisions[s][k]
              /\ decisions'[s][k].id # x.id
    <3>1. \A s \in Streamers : \A k \in 1..Len(decisions'[s]) :
             \/ k \in 1..Len(decisions[s]) /\ decisions'[s][k] = decisions[s][k]
             \/ s = s0 /\ k = n + 1 /\ decisions'[s][k] = x
      BY <1>4, Appended DEF Appends
    <3>2. \A s \in Streamers : \A k \in 1..Len(decisions[s]) : decisions[s][k].id # x.id
      BY <2>2, RecordedFacts
    <3>. QED  BY <2>3, <3>1, <3>2
  <2>5. ASSUME NEW s \in Streamers, NEW t \in Streamers,
               NEW i \in 1..Len(decisions'[s]), NEW j \in 1..Len(decisions'[t]),
               decisions'[s][i].id = decisions'[t][j].id
        PROVE  s = t /\ i = j
    <3>1. CASE i \in 1..Len(decisions[s]) /\ j \in 1..Len(decisions[t]) /\ decisions'[s][i].id # x.id
      <4>1. decisions'[s][i] = decisions[s][i] /\ decisions'[t][j] = decisions[t][j]
        BY <2>4, <2>5, <3>1
      <4>2. decisions[s][i].id = decisions[t][j].id
        BY <2>5, <4>1
      <4>. QED  BY <1>2, <3>1, <4>2 DEF Log!ListedOnce
    <3>2. CASE decisions'[s][i].id = x.id
      BY <2>4, <2>5, <3>2
    <3>. QED  BY <2>4, <2>5, <3>1, <3>2
  <2>6. ASSUME NEW e \in Recorders, (Log!Pending(e))', call'[e].at # "number"
        PROVE  /\ call'[e].id \notin (Log!ReturnedIDs)'
               /\ \A f \in Recorders : (Log!Pending(f))' /\ call'[f].id = call'[e].id => f = e
    <3>1. \A f \in Recorders : (Log!Pending(f))' => f # c /\ call'[f] = call[f] /\ Log!Pending(f)
      BY <1>1, <1>4, AppendEnds
    <3>. QED  BY <2>1, <2>6, <3>1 DEF Log!ListedOnce, Recorders
  <2>. QED  BY <1>2, <2>5, <2>6 DEF Log!ListedOnce, Recorders
<1>5. CASE UNCHANGED logVars
  BY <1>5 DEF logVars, Log!ListedOnce, Log!Recorded, Log!ReturnedIDs, Log!Pending
<1>. QED  BY <1>3, <1>4, <1>5, BeginMoves, RecordMoves DEF LogStep

-----------------------------------------------------------------------------
(* What a step does to the workers.                                        *)

\* Worker w goes on with these locals; the other workers stay where they are.
Becomes(w, at, s, r, b) ==
    /\ job' \in [Workers -> JobRecords]
    /\ \A v \in Workers : v # w => job'[v] = job[v]
    /\ job'[w].at = at /\ job'[w].streamer = s /\ job'[w].run = r /\ job'[w].busy = b

LEMMA GotoMoves ==
  ASSUME JobTypes, NEW w \in Workers, NEW l \in {"classify", "record", "recording", "unlock"}, Goto(w, l)
  PROVE  Becomes(w, l, job[w].streamer, job[w].run, job[w].busy)
<1> DEFINE new == [job[w] EXCEPT !.at = l]
<1>1. job[w] \in JobRecords /\ job' = [job EXCEPT ![w] = new]
  BY DEF JobTypes, Goto
<1>2. new \in JobRecords
  BY <1>1 DEF JobRecords
<1>3. new.at = l /\ new.streamer = job[w].streamer /\ new.run = job[w].run /\ new.busy = job[w].busy
  BY <1>1 DEF JobRecords
<1>. QED  BY <1>1, <1>2, <1>3 DEF Becomes, JobTypes

LEMMA TryLockMoves ==
  ASSUME JobTypes, NEW w \in Workers, NEW s \in Streamers, TryLock(w, s)
  PROVE  Becomes(w, "create_run", s, 0, 0)
<1> DEFINE new == [Idle EXCEPT !.at = "create_run", !.streamer = s]
<1>1. job' = [job EXCEPT ![w] = new]
  BY DEF TryLock, Start
<1>2. Idle \in JobRecords /\ Idle.run = 0 /\ Idle.busy = 0
  BY LockTTLAssumption DEF Idle, JobRecords
<1>3. new \in JobRecords
  BY <1>2 DEF JobRecords
<1>4. new.at = "create_run" /\ new.streamer = s /\ new.run = 0 /\ new.busy = 0
  BY <1>2 DEF JobRecords
<1>. QED  BY <1>1, <1>3, <1>4 DEF Becomes, JobTypes

LEMMA CreateRunMoves ==
  ASSUME JobTypes, NEW w \in Workers, CreateRun(w)
  PROVE  Becomes(w, "capture", job[w].streamer, runs + 1, job[w].busy)
<1> DEFINE new == [job[w] EXCEPT !.at = "capture", !.run = runs + 1]
<1>0. job' = [job EXCEPT ![w] = new]
  BY DEF CreateRun
<1>1. job[w] \in JobRecords /\ runs + 1 \in Nat
  BY DEF JobTypes
<1>2. new \in JobRecords
  BY <1>1 DEF JobRecords
<1>3. new.at = "capture" /\ new.streamer = job[w].streamer /\ new.run = runs + 1 /\ new.busy = job[w].busy
  BY <1>1 DEF JobRecords
<1>. QED  BY <1>0, <1>1, <1>2, <1>3 DEF Becomes, JobTypes

LEMMA UnlockMoves ==
  ASSUME JobTypes, NEW w \in Workers, Unlock(w)
  PROVE  Becomes(w, "idle", None, 0, 0)
<1>1. Idle \in JobRecords
  BY LockTTLAssumption DEF Idle, JobRecords
<1>. QED  BY <1>1 DEF Becomes, JobTypes, Unlock, Idle

\* A tick makes the cycles older and leaves them where they are.
LEMMA TickMoves ==
  ASSUME JobTypes, Tick
  PROVE  /\ left' \in [Streamers -> 0..LockTTL] /\ job' \in [Workers -> JobRecords]
         /\ \A w \in Workers :
               /\ job'[w].at = job[w].at /\ job'[w].streamer = job[w].streamer /\ job'[w].run = job[w].run
               /\ job'[w].busy = IF job[w].at # "idle" /\ job[w].busy < LockTTL
                                 THEN job[w].busy + 1 ELSE job[w].busy
<1>1. left' \in [Streamers -> 0..LockTTL]
  BY LockTTLAssumption DEF Tick, JobTypes
<1>2. ASSUME NEW w \in Workers
      PROVE  /\ job'[w] \in JobRecords
             /\ job'[w].at = job[w].at /\ job'[w].streamer = job[w].streamer /\ job'[w].run = job[w].run
             /\ job'[w].busy = IF job[w].at # "idle" /\ job[w].busy < LockTTL
                               THEN job[w].busy + 1 ELSE job[w].busy
  <2> DEFINE older == [job[w] EXCEPT !.busy = @ + 1]
  <2>1. job[w] \in JobRecords /\ job[w].busy \in 0..LockTTL /\ LockTTL \in Nat
    BY LockTTLAssumption DEF JobTypes, JobRecords
  <2>2. job'[w] = IF job[w].at # "idle" /\ job[w].busy < LockTTL THEN older ELSE job[w]
    BY DEF Tick
  <2>3. CASE job[w].at # "idle" /\ job[w].busy < LockTTL
    <3>1. job[w].busy + 1 \in 0..LockTTL
      BY <2>1, <2>3
    <3>2. older = [job[w] EXCEPT !.busy = job[w].busy + 1]
      OBVIOUS
    <3>3. older \in JobRecords
      BY <2>1, <3>1, <3>2 DEF JobRecords
    <3>4. /\ older.at = job[w].at /\ older.streamer = job[w].streamer /\ older.run = job[w].run
          /\ older.busy = job[w].busy + 1
      BY <2>1 DEF JobRecords
    <3>. QED  BY <2>2, <2>3, <3>3, <3>4
  <2>4. CASE ~ (job[w].at # "idle" /\ job[w].busy < LockTTL)
    BY <2>1, <2>2, <2>4
  <2>. QED  BY <2>3, <2>4
<1>3. job' \in [Workers -> JobRecords]
  BY <1>2 DEF Tick
<1>. QED  BY <1>1, <1>2, <1>3

\* The steps that take a worker from one point of its cycle to the next.
Within(w) ==
    /\ job[w].at # "idle" /\ UNCHANGED left
    /\ \/ \E l \in {"classify", "record", "unlock"} :
             /\ job[w].at \in {"capture", "classify", "record"}
             /\ Becomes(w, l, job[w].streamer, job[w].run, job[w].busy)
             /\ UNCHANGED <<runs, logVars>>
       \/ /\ CreateRun(w)
          /\ Becomes(w, "capture", job[w].streamer, runs + 1, job[w].busy)
       \/ /\ BeginRecord(w)
          /\ Becomes(w, "recording", job[w].streamer, job[w].run, job[w].busy)
       \/ /\ job[w].at = "recording" /\ Log!AppendItem(w) /\ UNCHANGED runs
          /\ Becomes(w, "unlock", job[w].streamer, job[w].run, job[w].busy)

\* The steps that leave locks and workers alone.
Apart ==
    /\ UNCHANGED <<left, runs, job>>
    /\ \/ \E w \in Workers : job[w].at = "recording" /\ (Log!Number(w) \/ Log!Stamp(w))
       \/ \E a \in Admins : AdminStep(a)
       \/ UNCHANGED logVars

LEMMA StepKinds ==
  ASSUME JobTypes, [Next]_vars
  PROVE  \/ \E w \in Workers : Within(w) \/ Unlock(w) \/ \E s \in Streamers : TryLock(w, s)
         \/ Tick
         \/ Apart
<1>1. ASSUME NEW w \in Workers, Step(w)
      PROVE  Within(w) \/ Unlock(w) \/ Apart
  <2>1. CASE CreateRun(w)
    BY <2>1, CreateRunMoves DEF CreateRun, Within
  <2>2. CASE Capture(w) \/ Classify(w) \/ CycleFails(w)
    <3>1. PICK l \in {"classify", "record", "unlock"} : Goto(w, l)
      BY <2>2 DEF Capture, Classify, CycleFails
    <3>2. Becomes(w, l, job[w].streamer, job[w].run, job[w].busy)
      BY <3>1, GotoMoves
    <3>. QED  BY <2>2, <3>2 DEF Capture, Classify, CycleFails, Within
  <2>3. CASE BeginRecord(w)
    <3>1. Becomes(w, "recording", job[w].streamer, job[w].run, job[w].busy)
      BY <2>3, GotoMoves DEF BeginRecord
    <3>. QED  BY <2>3, <3>1 DEF BeginRecord, Within
  <2>4. CASE job[w].at = "recording" /\ Log!AppendItem(w) /\ Goto(w, "unlock") /\ UNCHANGED <<left, runs>>
    <3>1. Becomes(w, "unlock", job[w].streamer, job[w].run, job[w].busy)
      BY <2>4, GotoMoves
    <3>. QED  BY <2>4, <3>1 DEF Within
  <2>5. CASE job[w].at = "recording" /\ (Log!Number(w) \/ Log!Stamp(w)) /\ UNCHANGED <<left, runs, job>>
    BY <2>5 DEF Apart
  <2>. QED  BY <1>1, <2>1, <2>2, <2>3, <2>4, <2>5 DEF Step, Record
<1>2. ASSUME NEW a \in Admins, AdminStep(a)
      PROVE  Apart
  BY <1>2 DEF AdminStep, Apart
<1>3. CASE UNCHANGED vars
  BY <1>3 DEF vars, Apart
<1>. QED  BY <1>1, <1>2, <1>3 DEF Next

-----------------------------------------------------------------------------
(* The workers' invariant.                                                 *)

LEMMA JobTypesStep == JobTypes /\ [Next]_vars => JobTypes'
<1> SUFFICES ASSUME JobTypes, [Next]_vars PROVE JobTypes'
  OBVIOUS
<1> USE LockTTLAssumption, NamesAssumption
<1>1. ASSUME NEW w \in Workers, Within(w)
      PROVE  JobTypes'
  <2>1. job' \in [Workers -> JobRecords] /\ UNCHANGED left /\ runs' \in Nat
    BY <1>1 DEF Within, Becomes, CreateRun, BeginRecord, JobTypes
  <2>2. \A v \in Workers : job'[v].streamer = job[v].streamer /\ (job'[v].at # "idle" => job[v].at # "idle")
    BY <1>1 DEF Within, Becomes
  <2>. QED  BY <2>1, <2>2 DEF JobTypes
<1>2. ASSUME NEW w \in Workers, NEW s \in Streamers, TryLock(w, s)
      PROVE  JobTypes'
  <2>1. Becomes(w, "create_run", s, 0, 0)
    BY <1>2, TryLockMoves
  <2>2. left' \in [Streamers -> 0..LockTTL] /\ UNCHANGED runs
    BY <1>2 DEF TryLock, JobTypes
  <2>. QED  BY <2>1, <2>2 DEF Becomes, JobTypes
<1>3. ASSUME NEW w \in Workers, Unlock(w)
      PROVE  JobTypes'
  <2>1. Becomes(w, "idle", None, 0, 0)
    BY <1>3, UnlockMoves
  <2>2. left' \in [Streamers -> 0..LockTTL] /\ UNCHANGED runs
    BY <1>3 DEF Unlock, JobTypes
  <2>. QED  BY <2>1, <2>2 DEF Becomes, JobTypes
<1>4. CASE Tick
  BY <1>4, TickMoves DEF Tick, JobTypes
<1>5. CASE Apart
  BY <1>5 DEF Apart, JobTypes
<1>. QED  BY <1>1, <1>2, <1>3, <1>4, <1>5, StepKinds

\* The lock of a cycle is over only when the cycle has lasted as long as it.
LEMMA LockStep ==
  JobTypes /\ LockOK /\ Exclusive /\ [Next]_vars => LockOK' /\ Exclusive'
<1> SUFFICES ASSUME JobTypes, LockOK, Exclusive, [Next]_vars, MaxBusy < LockTTL
             PROVE  LockOK' /\ Exclusive'
  BY DEF LockOK, Exclusive
<1> DEFINE Held(v) == job[v].at # "idle" =>
                        job[v].busy <= MaxBusy /\ left[job[v].streamer] + job[v].busy = LockTTL
           Alone(v, w) == job[v].at # "idle" /\ job[w].at # "idle" /\ job[v].streamer = job[w].streamer => v = w
<1>1. LockTTL \in Nat /\ MaxBusy \in Nat /\ left \in [Streamers -> 0..LockTTL]
  BY LockTTLAssumption DEF JobTypes
<1>2. \A v \in Workers : Held(v)
  BY DEF LockOK
<1>3. \A v, w \in Workers : Alone(v, w)
  BY DEF Exclusive, Working, JobTypes
<1>4. \A v \in Workers : job[v].at # "idle" => job[v].streamer \in Streamers
  BY DEF JobTypes
<1>5. ASSUME \A v \in Workers : job'[v].at # "idle" =>
                job'[v].busy <= MaxBusy /\ left'[job'[v].streamer] + job'[v].busy = LockTTL,
             \A v, w \in Workers :
                job'[v].at # "idle" /\ job'[w].at # "idle" /\ job'[v].streamer = job'[w].streamer => v = w
      PROVE  LockOK' /\ Exclusive'
  BY <1>5 DEF LockOK, Exclusive, Working
<1>6. ASSUME NEW w \in Workers, Within(w)
      PROVE  LockOK' /\ Exclusive'
  <2>1. /\ UNCHANGED left
        /\ \A v \in Workers : /\ job'[v].streamer = job[v].streamer /\ job'[v].busy = job[v].busy
                              /\ job'[v].at # "idle" => job[v].at # "idle"
    BY <1>6 DEF Within, Becomes
  <2>. QED  BY <1>2, <1>3, <1>5, <2>1
<1>7. ASSUME NEW w \in Workers, NEW s \in Streamers, TryLock(w, s)
      PROVE  LockOK' /\ Exclusive'
  <2>1. /\ job'[w].streamer = s /\ job'[w].busy = 0
        /\ \A v \in Workers : v # w => job'[v] = job[v]
    BY <1>7, TryLockMoves DEF Becomes
  <2>2. left[s] = 0 /\ left'[s] = LockTTL /\ \A x \in Streamers : x # s => left'[x] = left[x]
    BY <1>1, <1>7 DEF TryLock
  <2>3. ASSUME NEW v \in Workers, job[v].at # "idle"
        PROVE  job[v].streamer # s
    <3>1. job[v].busy <= MaxBusy /\ left[job[v].streamer] + job[v].busy = LockTTL /\ job[v].busy \in Nat
      BY <1>2, <2>3, LockTTLAssumption DEF JobTypes, JobRecords
    <3>. QED  BY <1>1, <2>2, <3>1
  <2>4. \A v \in Workers : job'[v].at # "idle" =>
           job'[v].busy <= MaxBusy /\ left'[job'[v].streamer] + job'[v].busy = LockTTL
    BY <1>1, <1>2, <1>4, <2>1, <2>2, <2>3
  <2>5. \A u, v \in Workers :
           job'[u].at # "idle" /\ job'[v].at # "idle" /\ job'[u].streamer = job'[v].streamer => u = v
    BY <1>3, <2>1, <2>3
  <2>. QED  BY <1>5, <2>4, <2>5
<1>8. ASSUME NEW w \in Workers, Unlock(w)
      PROVE  LockOK' /\ Exclusive'
  <2>1. job'[w].at = "idle" /\ \A v \in Workers : v # w => job'[v] = job[v]
    BY <1>8, UnlockMoves DEF Becomes
  <2>2. job[w].at # "idle" /\ \A x \in Streamers : x # job[w].streamer => left'[x] = left[x]
    BY <1>1, <1>8 DEF Unlock
  <2>. QED  BY <1>2, <1>3, <1>4, <1>5, <2>1, <2>2
<1>9. CASE Tick
  <2>1. ASSUME NEW v \in Workers, job'[v].at # "idle"
        PROVE  job'[v].busy <= MaxBusy /\ left'[job'[v].streamer] + job'[v].busy = LockTTL
    <3>1. /\ job[v].at # "idle" /\ job'[v].streamer = job[v].streamer /\ job[v].streamer \in Streamers
          /\ job'[v].busy = IF job[v].busy < LockTTL THEN job[v].busy + 1 ELSE job[v].busy
      BY <1>4, <1>9, <2>1, TickMoves
    <3>2. job[v].busy < MaxBusy /\ job[v].busy \in Nat /\ left[job[v].streamer] + job[v].busy = LockTTL
      BY <1>2, <1>9, <3>1, LockTTLAssumption DEF Tick, JobTypes, JobRecords
    <3>3. left[job[v].streamer] > 0 /\ left[job[v].streamer] \in Nat
      BY <1>1, <3>1, <3>2
    <3>4. left'[job[v].streamer] = left[job[v].streamer] - 1
      BY <1>9, <3>1, <3>3 DEF Tick
    <3>. QED  BY <1>1, <3>1, <3>2, <3>3, <3>4
  <2>2. \A v \in Workers : job'[v].streamer = job[v].streamer /\ job'[v].at = job[v].at
    BY <1>9, TickMoves
  <2>. QED  BY <1>3, <1>5, <2>1, <2>2
<1>10. CASE Apart
  BY <1>10 DEF Apart, LockOK, Exclusive, Working
<1>. QED  BY <1>6, <1>7, <1>8, <1>9, <1>10, StepKinds

\* Calls of one recorder leave the others' alone, and begin and end with their label.
LEMMA OthersCalls ==
  ASSUME LogTypes, LogTypes', NEW c \in Recorders,
         \/ \E s \in Streamers, r \in Nat : Log!BeginRecord(c, s, r)
         \/ Log!Number(c) \/ Log!Stamp(c) \/ Log!AppendItem(c)
  PROVE  \A e \in Recorders : e # c =>
            call'[e] = call[e] /\ ((Log!Pending(e))' <=> Log!Pending(e))
<1>1. \A e \in Recorders : e # c => call'[e] = call[e]
  BY BeginMoves, RecordMoves, AppendEnds DEF Moves
<1>. QED  BY <1>1 DEF Log!Pending

LEMMA CallsStep ==
  LogTypes /\ JobTypes /\ CallsOK /\ [Next]_vars => CallsOK'
<1> SUFFICES ASSUME LogTypes, JobTypes, CallsOK, [Next]_vars PROVE CallsOK'
  OBVIOUS
<1> DEFINE Local(w, j, k, n) ==
              /\ j.run <= n
              /\ j.at \in {"idle", "create_run"} <=> j.run = 0
              /\ k.at \in {"number", "stamp", "append"} <=> j.at = "recording"
              /\ j.at = "recording" => k.run = j.run /\ k.streamer = j.streamer
<1>0. LogTypes'
  BY LogSteps, LogTypesStep
<1>1. /\ \A e \in Recorders : Log!Pending(e) <=> call[e].at \in {"number", "stamp", "append"}
      /\ \A e \in Recorders : (Log!Pending(e))' <=> call'[e].at \in {"number", "stamp", "append"}
  <2>1. \A e \in Recorders : (Log!Pending(e))' <=> call'[e].at \in {"number", "stamp", "append"}
    BY <1>0 DEF LogTypes, PendingCalls, Log!Pending, Log!NoCall
  <2>. QED  BY <2>1, PendingFacts
<1>2. /\ \A w \in Workers : Local(w, job[w], call[w], runs)
      /\ \A a \in Admins : Log!Pending(a) => call[a].run = 0
      /\ \A d \in Log!Recorded : d.run <= runs
  BY <1>1 DEF CallsOK, Recorders
<1>3. ASSUME \A w \in Workers : Local(w, job'[w], call'[w], runs'),
             \A a \in Admins : (Log!Pending(a))' => call'[a].run = 0,
             \A d \in (Log!Recorded)' : d.run <= runs'
      PROVE  CallsOK'
  BY <1>1, <1>3 DEF CallsOK, Recorders
<1>4. runs \in Nat /\ \A w \in Workers : job[w].run \in Nat
  BY DEF JobTypes, JobRecords
<1>5. \A d \in Log!Recorded : d.run \in Nat
  BY RecordedFacts DEF Listed
<1>6. ASSUME UNCHANGED logVars, runs <= runs', runs' \in Nat,
             \A w \in Workers : Local(w, job'[w], call[w], runs')
      PROVE  CallsOK'
  <2>1. \A d \in (Log!Recorded)' : d.run <= runs'
    BY <1>2, <1>4, <1>5, <1>6 DEF logVars, Log!Recorded
  <2>. QED  BY <1>2, <1>3, <1>6, <2>1 DEF logVars, Log!Pending
<1>7. ASSUME NEW w \in Workers, Within(w)
      PROVE  CallsOK'
  <2>0. w \in Recorders
    BY DEF Recorders
  <2>1. ASSUME NEW l \in {"classify", "record", "unlock"},
               job[w].at \in {"capture", "classify", "record"},
               Becomes(w, l, job[w].streamer, job[w].run, job[w].busy),
               UNCHANGED <<runs, logVars>>
        PROVE  CallsOK'
    BY <1>2, <1>4, <1>6, <2>1 DEF Becomes
  <2>2. CASE CreateRun(w) /\ Becomes(w, "capture", job[w].streamer, runs + 1, job[w].busy)
    BY <1>2, <1>4, <1>6, <2>2 DEF Becomes, CreateRun
  <2>3. CASE BeginRecord(w) /\ Becomes(w, "recording", job[w].streamer, job[w].run, job[w].busy)
    <3>1. job[w].streamer \in Streamers /\ job[w].run \in Nat /\ Log!BeginRecord(w, job[w].streamer, job[w].run)
      BY <1>4, <2>3 DEF BeginRecord, JobTypes
    <3>2. /\ Moves(w) /\ call'[w].run = job[w].run /\ call'[w].streamer = job[w].streamer
          /\ call'[w].at \in {"number", "stamp", "append"} /\ (Log!Recorded)' = Log!Recorded
          /\ \A e \in Recorders : e # w => call'[e] = call[e]
      BY <2>0, <3>1, BeginMoves DEF Moves, PendingCalls
    <3>3. UNCHANGED runs /\ job[w].at = "record"
      BY <2>3 DEF BeginRecord
    <3>4. \A v \in Workers : Local(v, job'[v], call'[v], runs')
      BY <1>2, <2>3, <3>2, <3>3 DEF Becomes, Recorders
    <3>5. \A a \in Admins : (Log!Pending(a))' => call'[a].run = 0
      BY <1>1, <1>2, <3>2, NamesAssumption DEF Recorders
    <3>. QED  BY <1>2, <1>3, <3>2, <3>3, <3>4, <3>5
  <2>4. CASE /\ job[w].at = "recording" /\ Log!AppendItem(w) /\ UNCHANGED runs
             /\ Becomes(w, "unlock", job[w].streamer, job[w].run, job[w].busy)
    <3>1. /\ call'[w].at = "none" /\ \A e \in Recorders : e # w => call'[e] = call[e]
          /\ (Log!Recorded)' = Log!Recorded \union {Log!Item(w)}
          /\ Log!Item(w).run = job[w].run
      BY <1>2, <2>0, <2>4, Appended, AppendEnds, ItemFacts DEF Appends
    <3>2. \A v \in Workers : Local(v, job'[v], call'[v], runs')
      BY <1>2, <2>4, <3>1 DEF Becomes, Recorders
    <3>3. \A a \in Admins : (Log!Pending(a))' => call'[a].run = 0
      BY <1>1, <1>2, <3>1, NamesAssumption DEF Recorders
    <3>4. \A d \in (Log!Recorded)' : d.run <= runs'
      BY <1>2, <2>4, <3>1
    <3>. QED  BY <1>3, <3>2, <3>3, <3>4
  <2>. QED  BY <1>7, <2>1, <2>2, <2>3, <2>4 DEF Within
<1>8. ASSUME NEW w \in Workers, NEW s \in Streamers, TryLock(w, s)
      PROVE  CallsOK'
  <2>1. Becomes(w, "create_run", s, 0, 0) /\ UNCHANGED <<runs, logVars>> /\ job[w].at = "idle"
    BY <1>8, TryLockMoves DEF TryLock
  <2>. QED  BY <1>2, <1>4, <1>6, <2>1 DEF Becomes
<1>9. ASSUME NEW w \in Workers, Unlock(w)
      PROVE  CallsOK'
  <2>1. Becomes(w, "idle", None, 0, 0) /\ UNCHANGED <<runs, logVars>> /\ job[w].at = "unlock"
    BY <1>9, UnlockMoves DEF Unlock
  <2>. QED  BY <1>2, <1>4, <1>6, <2>1 DEF Becomes
<1>10. CASE Tick
  <2>1. UNCHANGED <<runs, logVars>>
    BY <1>10 DEF Tick
  <2>. QED  BY <1>2, <1>4, <1>6, <1>10, <2>1, TickMoves
<1>11. CASE Apart
  <2>1. ASSUME NEW w \in Workers, job[w].at = "recording", Log!Number(w) \/ Log!Stamp(w)
        PROVE  CallsOK'
    <3>1. /\ call'[w].run = call[w].run /\ call'[w].streamer = call[w].streamer
          /\ call'[w].at \in {"number", "stamp", "append"} /\ (Log!Recorded)' = Log!Recorded
          /\ \A e \in Recorders : e # w => call'[e] = call[e]
      BY <2>1, RecordMoves DEF Moves, PendingCalls, Recorders
    <3>2. \A v \in Workers : Local(v, job'[v], call'[v], runs')
      BY <1>2, <1>11, <2>1, <3>1 DEF Apart, Recorders
    <3>3. \A a \in Admins : (Log!Pending(a))' => call'[a].run = 0
      BY <1>1, <1>2, <3>1, NamesAssumption DEF Recorders
    <3>. QED  BY <1>2, <1>3, <1>11, <3>1, <3>2, <3>3 DEF Apart
  <2>2. ASSUME NEW a \in Admins, AdminStep(a)
        PROVE  CallsOK'
    <3>1. \/ Log!Number(a) \/ Log!Stamp(a)
          \/ Log!AppendItem(a)
          \/ \E s \in Streamers : Log!BeginRecord(a, s, 0)
      BY <2>2 DEF AdminStep, Log!Record, Log!Post
    <3>2. \A e \in Recorders : e # a => call'[e] = call[e]
      BY <1>0, <3>1, OthersCalls DEF Recorders
    <3>3. a \in Recorders /\ a \notin Workers
      BY NamesAssumption DEF Recorders
    <3>4. \A v \in Workers : Local(v, job'[v], call'[v], runs')
      BY <1>2, <1>11, <3>2, <3>3 DEF Apart, Recorders
    <3>5. /\ (Log!Pending(a))' => call'[a].run = 0
          /\ \A d \in (Log!Recorded)' : d \in Log!Recorded \/ d.run = 0
      <4>1. CASE Log!Number(a) \/ Log!Stamp(a)
        BY <1>1, <1>2, <3>3, <4>1, RecordMoves DEF Moves
      <4>2. CASE Log!AppendItem(a)
        BY <1>1, <1>2, <3>3, <4>2, Appended, AppendEnds, ItemFacts DEF Appends
      <4>3. ASSUME NEW s \in Streamers, Log!BeginRecord(a, s, 0)
            PROVE  call'[a].run = 0 /\ (Log!Recorded)' = Log!Recorded
        BY <3>3, <4>3, BeginMoves DEF Moves
      <4>. QED  BY <3>1, <4>1, <4>2, <4>3
    <3>6. \A b \in Admins : (Log!Pending(b))' => call'[b].run = 0
      BY <1>1, <1>2, <3>2, <3>5 DEF Recorders
    <3>. QED  BY <1>2, <1>3, <1>4, <1>11, <3>4, <3>5, <3>6 DEF Apart
  <2>3. CASE UNCHANGED logVars
    BY <1>2, <1>4, <1>6, <1>11, <2>3 DEF Apart
  <2>. QED  BY <1>11, <2>1, <2>2, <2>3 DEF Apart
<1>. QED  BY <1>7, <1>8, <1>9, <1>10, <1>11, StepKinds

\* What the history has got when a step is over, and for which run.
LEMMA NewDecisions ==
  ASSUME LogTypes, JobTypes, CallsOK, [Next]_vars
  PROVE  \/ UNCHANGED decisions /\ (Log!Recorded)' = Log!Recorded
         \/ \E a \in Admins : /\ Log!AppendItem(a) /\ Apart /\ Log!Item(a).run = 0
                              /\ (Log!Recorded)' = Log!Recorded \union {Log!Item(a)}
         \/ \E w \in Workers :
               /\ Log!AppendItem(w) /\ job[w].at = "recording"
               /\ Becomes(w, "unlock", job[w].streamer, job[w].run, job[w].busy)
               /\ call[w].streamer = job[w].streamer /\ Log!Item(w).run = job[w].run
               /\ (Log!Recorded)' = Log!Recorded \union {Log!Item(w)} /\ UNCHANGED runs
<1> DEFINE Goal == \/ UNCHANGED decisions /\ (Log!Recorded)' = Log!Recorded
                   \/ \E a \in Admins : /\ Log!AppendItem(a) /\ Apart /\ Log!Item(a).run = 0
                                        /\ (Log!Recorded)' = Log!Recorded \union {Log!Item(a)}
                   \/ \E w \in Workers :
                         /\ Log!AppendItem(w) /\ job[w].at = "recording"
                         /\ Becomes(w, "unlock", job[w].streamer, job[w].run, job[w].busy)
                         /\ call[w].streamer = job[w].streamer /\ Log!Item(w).run = job[w].run
                         /\ (Log!Recorded)' = Log!Recorded \union {Log!Item(w)} /\ UNCHANGED runs
<1>1. UNCHANGED decisions => (Log!Recorded)' = Log!Recorded
  BY DEF Log!Recorded
<1>2. \A c \in Recorders, s \in Streamers, r \in Nat : Log!BeginRecord(c, s, r) => UNCHANGED decisions
  BY DEF Log!BeginRecord
<1>3. \A c \in Recorders : Log!Number(c) \/ Log!Stamp(c) => UNCHANGED decisions
  BY DEF Log!Number, Log!Stamp
<1>4. ASSUME NEW w \in Workers, Within(w)
      PROVE  Goal
  <2>1. CASE /\ job[w].at = "recording" /\ Log!AppendItem(w) /\ UNCHANGED runs
             /\ Becomes(w, "unlock", job[w].streamer, job[w].run, job[w].busy)
    <3>1. w \in Recorders /\ Log!Pending(w)
      BY <2>1, ItemFacts DEF Recorders
    <3>2. call[w].streamer = job[w].streamer /\ Log!Item(w).run = job[w].run
      BY <2>1, <3>1, ItemFacts DEF CallsOK
    <3>3. (Log!Recorded)' = Log!Recorded \union {Log!Item(w)}
      BY <2>1, <3>1, Appended DEF Appends
    <3>. QED  BY <2>1, <3>2, <3>3
  <2>2. CASE UNCHANGED logVars \/ CreateRun(w) \/ BeginRecord(w)
    BY <1>1, <2>2 DEF CreateRun, BeginRecord, Log!BeginRecord, logVars
  <2>. QED  BY <1>4, <2>1, <2>2 DEF Within
<1>5. CASE Apart
  <2>1. ASSUME NEW a \in Admins, Log!AppendItem(a)
        PROVE  Goal
    <3>1. a \in Recorders
      BY DEF Recorders
    <3>2. Log!Item(a).run = 0
      BY <2>1, <3>1, ItemFacts DEF CallsOK
    <3>3. (Log!Recorded)' = Log!Recorded \union {Log!Item(a)}
      BY <2>1, <3>1, Appended DEF Appends
    <3>. QED  BY <1>5, <2>1, <3>2, <3>3
  <2>2. ASSUME NEW a \in Admins, AdminStep(a)
        PROVE  Goal
    <3>1. \/ Log!Number(a) \/ Log!Stamp(a)
          \/ Log!AppendItem(a)
          \/ \E s \in Streamers : Log!BeginRecord(a, s, 0)
      BY <2>2 DEF AdminStep, Log!Record, Log!Post
    <3>. QED  BY <1>1, <1>2, <1>3, <2>1, <3>1 DEF Recorders
  <2>. QED  BY <1>1, <1>3, <1>5, <2>2 DEF Apart, logVars, Recorders
<1>6. ASSUME NEW w \in Workers, Unlock(w) \/ \E s \in Streamers : TryLock(w, s)
      PROVE  Goal
  BY <1>1, <1>6 DEF Unlock, TryLock, logVars
<1>7. CASE Tick
  BY <1>1, <1>7 DEF Tick, logVars
<1>. QED  BY <1>4, <1>5, <1>6, <1>7, StepKinds

LEMMA RunsAreDistinctStep ==
  LogTypes /\ JobTypes /\ CallsOK /\ RunsAreDistinct /\ [Next]_vars => RunsAreDistinct'
<1> SUFFICES ASSUME LogTypes, JobTypes, CallsOK, RunsAreDistinct, [Next]_vars
             PROVE  RunsAreDistinct'
  OBVIOUS
<1>1. /\ \A d, e \in Log!Recorded : d.run # 0 /\ d.run = e.run => d = e
      /\ \A w \in Workers : job[w].run # 0 =>
            /\ \A v \in Workers : job[v].run = job[w].run => v = w
            /\ \A d \in Log!Recorded : d.run = job[w].run => job[w].at = "unlock"
  BY DEF RunsAreDistinct
<1>2. /\ runs \in Nat /\ \A w \in Workers : job[w].run \in Nat /\ job[w].run <= runs
      /\ \A d \in Log!Recorded : d.run \in Nat /\ d.run <= runs
  BY RecordedFacts DEF JobTypes, JobRecords, CallsOK, Listed
<1>3. ASSUME \A w \in Workers : job'[w].run = 0 \/ (job'[w].run = job[w].run /\ (job[w].at = "unlock" => job'[w].at = "unlock"))
      PROVE  \A w \in Workers : job'[w].run # 0 =>
                /\ \A v \in Workers : job'[v].run = job'[w].run => v = w
                /\ \A d \in Log!Recorded : d.run = job'[w].run => job'[w].at = "unlock"
  BY <1>1, <1>3
<1>4. \/ \A w \in Workers : job'[w].run = 0 \/ (job'[w].run = job[w].run /\ (job[w].at = "unlock" => job'[w].at = "unlock"))
      \/ \E w \in Workers : CreateRun(w)
  <2>1. ASSUME NEW w \in Workers, Within(w), ~CreateRun(w)
        PROVE  \A v \in Workers : job'[v].run = job[v].run /\ (job[v].at = "unlock" => job'[v].at = "unlock")
    BY <2>1 DEF Within, Becomes, BeginRecord
  <2>2. ASSUME NEW w \in Workers, Unlock(w) \/ \E s \in Streamers : TryLock(w, s)
        PROVE  \A v \in Workers : job'[v].run = 0 \/ job'[v] = job[v]
    BY <2>2, UnlockMoves, TryLockMoves DEF Becomes
  <2>3. CASE Tick
    BY <2>3, TickMoves
  <2>4. CASE Apart
    BY <2>4 DEF Apart
  <2>. QED  BY <2>1, <2>2, <2>3, <2>4, StepKinds
<1>5. ASSUME NEW w \in Workers, CreateRun(w)
      PROVE  RunsAreDistinct'
  <2>1. /\ job'[w].run = runs + 1 /\ \A v \in Workers : v # w => job'[v] = job[v]
        /\ (Log!Recorded)' = Log!Recorded
    <3>1. UNCHANGED decisions
      BY <1>5 DEF CreateRun, logVars
    <3>2. (Log!Recorded)' = Log!Recorded
      BY <3>1 DEF Log!Recorded
    <3>. QED  BY <1>5, <3>2, CreateRunMoves DEF Becomes
  <2>. QED  BY <1>1, <1>2, <2>1 DEF RunsAreDistinct
<1>6. CASE (Log!Recorded)' = Log!Recorded /\ ~ \E w \in Workers : CreateRun(w)
  BY <1>1, <1>3, <1>4, <1>6 DEF RunsAreDistinct
<1>7. ASSUME NEW a \in Admins, Apart, Log!Item(a).run = 0,
             (Log!Recorded)' = Log!Recorded \union {Log!Item(a)}
      PROVE  RunsAreDistinct'
  <2>1. UNCHANGED job
    BY <1>7 DEF Apart
  <2>. QED  BY <1>1, <1>7, <2>1 DEF RunsAreDistinct
<1>8. ASSUME NEW w \in Workers, job[w].at = "recording",
             Becomes(w, "unlock", job[w].streamer, job[w].run, job[w].busy),
             Log!Item(w).run = job[w].run,
             (Log!Recorded)' = Log!Recorded \union {Log!Item(w)}
      PROVE  RunsAreDistinct'
  <2>1. /\ job'[w].at = "unlock" /\ job'[w].run = job[w].run
        /\ \A v \in Workers : v # w => job'[v] = job[v]
    BY <1>8 DEF Becomes
  <2>2. \A d \in Log!Recorded : d.run # 0 => d.run # job[w].run
    BY <1>1, <1>8
  <2>3. \A d, e \in (Log!Recorded)' : d.run # 0 /\ d.run = e.run => d = e
    BY <1>1, <1>8, <2>2
  <2>4. \A v \in Workers : job'[v].run # 0 =>
           /\ \A u \in Workers : job'[u].run = job'[v].run => u = v
           /\ \A d \in (Log!Recorded)' : d.run = job'[v].run => job'[v].at = "unlock"
    BY <1>1, <1>8, <2>1
  <2>. QED  BY <2>3, <2>4 DEF RunsAreDistinct
<1>. QED  BY <1>5, <1>6, <1>7, <1>8, NewDecisions

\* The steps that leave the history alone, seen from a worker that has a run to record.
LEMMA QuietSteps ==
  ASSUME LogTypes, JobTypes, CallsOK, [Next]_vars, NEW w \in Workers, UNCHANGED decisions,
         job'[w].run # 0, job'[w].at # "unlock"
  PROVE  \/ CreateRun(w) /\ job'[w].run = runs + 1 /\ job'[w].streamer = job[w].streamer /\ job'[w].at = "capture"
         \/ /\ job'[w].run = job[w].run /\ job'[w].streamer = job[w].streamer /\ job[w].at # "unlock"
            /\ \/ call'[w] = call[w]
               \/ call'[w].at \in {"number", "stamp"}
               \/ call'[w].at = "append" /\ call'[w].createdAt = now' /\ now <= now'
<1> DEFINE Goal ==
        /\ job'[w].run = job[w].run /\ job'[w].streamer = job[w].streamer /\ job[w].at # "unlock"
        /\ \/ call'[w] = call[w]
           \/ call'[w].at \in {"number", "stamp"}
           \/ call'[w].at = "append" /\ call'[w].createdAt = now' /\ now <= now'
<1>1. w \in Recorders
  BY DEF Recorders
<1>2. \A c \in Recorders : ~ Log!AppendItem(c)
  <2>1. ASSUME NEW c \in Recorders, Log!AppendItem(c)
        PROVE  FALSE
    <3>1. /\ Len(decisions'[call[c].streamer]) = Len(decisions[call[c].streamer]) + 1
          /\ Len(decisions[call[c].streamer]) \in Nat
      BY <2>1, Appended, ItemFacts DEF Appends
    <3>. QED  BY <3>1
  <2>. QED  BY <2>1
<1>3. \A c \in Recorders : Moves(c) =>
         \/ call'[w] = call[w]
         \/ call'[w].at \in {"number", "stamp"}
         \/ call'[w].at = "append" /\ call'[w].createdAt = now' /\ now <= now'
  BY <1>1 DEF Moves
<1>4. \/ call'[w] = call[w]
      \/ call'[w].at \in {"number", "stamp"}
      \/ call'[w].at = "append" /\ call'[w].createdAt = now' /\ now <= now'
  <2>1. UNCHANGED logVars => call'[w] = call[w]
    BY DEF logVars
  <2>. QED  BY <1>2, <1>3, <2>1, LogSteps, BeginMoves, RecordMoves DEF LogStep
<1>5. ASSUME NEW v \in Workers, Within(v), ~CreateRun(v)
      PROVE  job'[w].run = job[w].run /\ job'[w].streamer = job[w].streamer /\ job[w].at # "unlock"
  BY <1>5 DEF Within, Becomes, BeginRecord
<1>6. ASSUME NEW v \in Workers, CreateRun(v)
      PROVE  \/ CreateRun(w) /\ job'[w].run = runs + 1 /\ job'[w].streamer = job[w].streamer /\ job'[w].at = "capture"
             \/ job'[w] = job[w]
  BY <1>6, CreateRunMoves DEF Becomes
<1>7. ASSUME NEW v \in Workers, Unlock(v) \/ \E s \in Streamers : TryLock(v, s)
      PROVE  job'[w] = job[w]
  BY <1>7, UnlockMoves, TryLockMoves DEF Becomes
<1>8. CASE Tick
  BY <1>4, <1>8, TickMoves
<1>9. CASE Apart
  BY <1>4, <1>9 DEF Apart
<1>. QED  BY <1>4, <1>5, <1>6, <1>7, <1>8, <1>9, StepKinds

\* A worker records its run in a history that it has to itself.
LEMMA NextRunStep ==
  LogTypes /\ LogOK /\ JobTypes /\ Exclusive /\ CallsOK /\ NextRun /\ [Next]_vars => NextRun'
<1> SUFFICES ASSUME LogTypes, LogOK, JobTypes, Exclusive, CallsOK, NextRun, [Next]_vars,
                    MaxBusy < LockTTL, NEW w \in Workers, job'[w].run # 0, job'[w].at # "unlock",
                    NEW i \in 1..Len(decisions'[job'[w].streamer])
             PROVE  LET d == decisions'[job'[w].streamer][i]
                    IN  /\ d.run < job'[w].run
                        /\ d.run # 0 /\ (Log!Pending(w))' /\ call'[w].at = "append" =>
                              d.createdAt <= call'[w].createdAt
  BY DEF NextRun
<1> DEFINE d == decisions'[job'[w].streamer][i]
<1>0. /\ LogTypes' /\ JobTypes' /\ CallsOK'
      /\ w \in Recorders
  BY LogSteps, LogTypesStep, JobTypesStep, CallsStep DEF Recorders
<1>2. /\ job[w].at = "idle" => job[w].run = 0
      /\ \A v \in Workers : job[v].at = "recording" /\ job[w].at # "idle" /\ job[v].streamer = job[w].streamer => v = w
      /\ job[w].run # 0 => job[w].streamer \in Streamers /\ job[w].run \in Nat /\ job[w].run > 0
  <2>1. job[w].at = "idle" => job[w].run = 0
    BY DEF CallsOK
  <2>2. job[w].run # 0 => job[w].streamer \in Streamers /\ job[w].run \in Nat /\ job[w].run > 0
    BY <2>1 DEF JobTypes, JobRecords
  <2>. QED  BY <2>1, <2>2 DEF Exclusive, Working, JobTypes
<1>3. CASE UNCHANGED decisions
  <2>1. CASE CreateRun(w) /\ job'[w].run = runs + 1 /\ job'[w].streamer = job[w].streamer /\ job'[w].at = "capture"
    <3>1. job[w].streamer \in Streamers
      BY <2>1 DEF JobTypes, CreateRun
    <3>2. d \in Log!Recorded /\ d.run \in Nat /\ d.run <= runs /\ runs \in Nat
      BY <1>3, <2>1, <3>1, RecordedFacts DEF CallsOK, JobTypes, Listed
    <3>3. ~ (Log!Pending(w))'
      BY <1>0, <2>1 DEF CallsOK
    <3>. QED  BY <2>1, <3>2, <3>3
  <2>2. CASE /\ job'[w].run = job[w].run /\ job'[w].streamer = job[w].streamer /\ job[w].at # "unlock"
             /\ \/ call'[w] = call[w]
                \/ call'[w].at \in {"number", "stamp"}
                \/ call'[w].at = "append" /\ call'[w].createdAt = now' /\ now <= now'
    <3>1. /\ d = decisions[job[w].streamer][i] /\ i \in 1..Len(decisions[job[w].streamer])
          /\ job[w].streamer \in Streamers
      BY <1>2, <1>3, <2>2
    <3>2. /\ d.run < job[w].run
          /\ d.run # 0 /\ Log!Pending(w) /\ call[w].at = "append" => d.createdAt <= call[w].createdAt
      BY <2>2, <3>1 DEF NextRun
    <3>3. d.createdAt <= now /\ d.createdAt \in Nat /\ now \in Nat /\ now' \in Nat
      <4>1. d \in Log!Recorded /\ d \in Listed
        BY <3>1, RecordedFacts
      <4>2. d.createdAt <= now
        BY <4>1 DEF LogOK
      <4>3. d.createdAt \in Nat
        BY <4>1 DEF Listed
      <4>. QED  BY <1>0, <4>2, <4>3 DEF LogTypes
    <3>4. (Log!Pending(w))' /\ call'[w] = call[w] => Log!Pending(w)
      BY DEF Log!Pending
    <3>. QED  BY <2>2, <3>2, <3>3, <3>4
  <2>. QED  BY <1>3, <2>1, <2>2, QuietSteps
<1>4. ASSUME NEW c \in Recorders, Log!AppendItem(c), c # w, job'[w] = job[w],
             call[c].streamer = job[w].streamer => Log!Item(c).run = 0
      PROVE  LET e == decisions'[job'[w].streamer][i]
             IN  /\ e.run < job'[w].run
                 /\ e.run # 0 /\ (Log!Pending(w))' /\ call'[w].at = "append" =>
                       e.createdAt <= call'[w].createdAt
  <2>1. /\ call'[w] = call[w] /\ ((Log!Pending(w))' => Log!Pending(w))
        /\ job[w].streamer \in Streamers /\ job[w].run > 0
    BY <1>0, <1>2, <1>4, AppendEnds DEF Log!Pending
  <2>2. \/ i \in 1..Len(decisions[job[w].streamer]) /\ d = decisions[job[w].streamer][i]
        \/ d.run = 0
    <3>1. i \in 1..Len(decisions'[job[w].streamer]) /\ d = decisions'[job[w].streamer][i]
      BY <1>4
    <3>2. \/ i \in 1..Len(decisions[job[w].streamer]) /\ d = decisions[job[w].streamer][i]
          \/ job[w].streamer = call[c].streamer /\ d = Log!Item(c)
      BY <1>4, <2>1, <3>1, Appended DEF Appends
    <3>. QED  BY <1>4, <3>2
  <2>3. CASE i \in 1..Len(decisions[job[w].streamer]) /\ d = decisions[job[w].streamer][i]
    BY <1>4, <2>1, <2>3 DEF NextRun
  <2>4. CASE d.run = 0
    BY <1>4, <2>1, <2>4
  <2>. QED  BY <2>2, <2>3, <2>4
<1>5. ASSUME NEW a \in Admins, Log!AppendItem(a), Apart, Log!Item(a).run = 0
      PROVE  a \in Recorders /\ a # w /\ job'[w] = job[w]
  BY <1>5, NamesAssumption DEF Apart, Recorders
<1>6. ASSUME NEW v \in Workers, Log!AppendItem(v), job[v].at = "recording",
             Becomes(v, "unlock", job[v].streamer, job[v].run, job[v].busy),
             call[v].streamer = job[v].streamer
      PROVE  v \in Recorders /\ v # w /\ job'[w] = job[w] /\ call[v].streamer # job[w].streamer
  <2>1. v # w /\ job'[w] = job[w]
    BY <1>6 DEF Becomes
  <2>. QED  BY <1>2, <1>6, <2>1 DEF Recorders
<1>7. \/ UNCHANGED decisions
      \/ \E a \in Admins : Log!AppendItem(a) /\ Apart /\ Log!Item(a).run = 0
      \/ \E v \in Workers :
            /\ Log!AppendItem(v) /\ job[v].at = "recording"
            /\ Becomes(v, "unlock", job[v].streamer, job[v].run, job[v].busy)
            /\ call[v].streamer = job[v].streamer
  BY NewDecisions
<1>. QED  BY <1>3, <1>4, <1>5, <1>6, <1>7

LEMMA RunsInOrderStep ==
  LogTypes /\ JobTypes /\ CallsOK /\ NextRun /\ RunsInOrder /\ [Next]_vars => RunsInOrder'
<1> SUFFICES ASSUME LogTypes, JobTypes, CallsOK, NextRun, RunsInOrder, [Next]_vars,
                    MaxBusy < LockTTL, NEW s \in Streamers,
                    NEW i \in DOMAIN decisions'[s], NEW j \in DOMAIN decisions'[s],
                    i < j, decisions'[s][i].run # 0, decisions'[s][j].run # 0
             PROVE  /\ decisions'[s][i].run < decisions'[s][j].run
                    /\ decisions'[s][i].createdAt <= decisions'[s][j].createdAt
  BY DEF RunsInOrder
<1>1. /\ DOMAIN decisions[s] = 1..Len(decisions[s]) /\ DOMAIN decisions'[s] = 1..Len(decisions'[s])
      /\ Len(decisions[s]) \in Nat
  <2>1. LogTypes'
    BY LogSteps, LogTypesStep
  <2>. QED  BY <2>1 DEF LogTypes
<1>2. CASE decisions'[s] = decisions[s]
  BY <1>2 DEF RunsInOrder
<1>3. ASSUME NEW c \in Recorders, Log!AppendItem(c), call[c].streamer = s,
             Log!Item(c).run # 0 =>
                /\ c \in Workers /\ job[c].at = "recording" /\ job[c].streamer = s
                /\ Log!Item(c).run = job[c].run
      PROVE  /\ decisions'[s][i].run < decisions'[s][j].run
             /\ decisions'[s][i].createdAt <= decisions'[s][j].createdAt
  <2> DEFINE n == Len(decisions[s])
  <2>1. /\ Len(decisions'[s]) = n + 1
        /\ \A k \in 1..n : decisions'[s][k] = decisions[s][k]
        /\ decisions'[s][n + 1] = Log!Item(c)
    BY <1>3, Appended DEF Appends
  <2>2. i \in 1..n /\ decisions'[s][i] = decisions[s][i]
    BY <1>1, <2>1
  <2>3. CASE j \in 1..n
    BY <1>1, <2>1, <2>2, <2>3 DEF RunsInOrder
  <2>4. CASE j = n + 1
    <3>1. /\ c \in Workers /\ job[c].at = "recording" /\ job[c].streamer = s
          /\ Log!Item(c).run = job[c].run /\ job[c].run # 0
      BY <1>3, <2>1, <2>4
    <3>2. /\ Log!Pending(c) /\ call[c].at = "append"
          /\ Log!Item(c).createdAt = call[c].createdAt
      BY <1>3, ItemFacts
    <3>3. decisions[s][i].run < job[c].run /\ decisions[s][i].createdAt <= call[c].createdAt
      BY <2>2, <3>1, <3>2 DEF NextRun
    <3>. QED  BY <2>1, <2>2, <2>4, <3>1, <3>2, <3>3
  <2>. QED  BY <1>1, <2>1, <2>3, <2>4
<1>4. ASSUME NEW a \in Admins, Log!AppendItem(a), Log!Item(a).run = 0
      PROVE  /\ decisions'[s][i].run < decisions'[s][j].run
             /\ decisions'[s][i].createdAt <= decisions'[s][j].createdAt
  <2>1. CASE call[a].streamer = s
    BY <1>3, <1>4, <2>1 DEF Recorders
  <2>2. CASE call[a].streamer # s
    BY <1>2, <1>4, <2>2, Appended DEF Appends, Recorders
  <2>. QED  BY <2>1, <2>2
<1>5. ASSUME NEW w \in Workers, Log!AppendItem(w), job[w].at = "recording",
             call[w].streamer = job[w].streamer, Log!Item(w).run = job[w].run
      PROVE  /\ decisions'[s][i].run < decisions'[s][j].run
             /\ decisions'[s][i].createdAt <= decisions'[s][j].createdAt
  <2>1. CASE call[w].streamer = s
    BY <1>3, <1>5, <2>1 DEF Recorders
  <2>2. CASE call[w].streamer # s
    BY <1>2, <1>5, <2>2, Appended DEF Appends, Recorders
  <2>. QED  BY <2>1, <2>2
<1>. QED  BY <1>2, <1>4, <1>5, NewDecisions

-----------------------------------------------------------------------------
(* The invariant and the theorems.                                         *)

LEMMA InitIInv == Init => IInv
<1> SUFFICES ASSUME Init PROVE IInv
  OBVIOUS
<1> USE LockTTLAssumption, NamesAssumption
<1>1. /\ \A s \in Streamers : decisions[s] = <<>> /\ Len(decisions[s]) = 0 /\ DOMAIN decisions[s] = {}
      /\ \A c \in Recorders : ~Log!Pending(c)
      /\ \A w \in Workers : job[w] = Idle
  BY DEF Init, Log!Init, Log!Pending, Recorders
<1>2. Log!Recorded = {}
  BY <1>1 DEF Log!Recorded
<1>3. LogTypes
  BY DEF Init, Log!Init, LogTypes, Recorders
<1>4. LogOK
  BY <1>1, <1>2 DEF LogOK
<1>5. OldestFirst
  BY <1>1 DEF OldestFirst
<1>6. Log!ListedOnce
  BY <1>1 DEF Log!ListedOnce, Recorders
<1>7. JobTypes
  <2>1. Idle \in JobRecords
    BY DEF Idle, JobRecords
  <2>. QED  BY <2>1 DEF Init, JobTypes, Idle
<1>8. LockOK /\ Exclusive
  BY <1>1 DEF LockOK, Exclusive, Working, Idle
<1>9. CallsOK
  BY <1>1, <1>2 DEF Init, CallsOK, Idle, Recorders
<1>10. RunsAreDistinct
  BY <1>1, <1>2 DEF RunsAreDistinct, Idle
<1>11. NextRun /\ RunsInOrder
  BY <1>1 DEF NextRun, RunsInOrder, Idle
<1>. QED  BY <1>3, <1>4, <1>5, <1>6, <1>7, <1>8, <1>9, <1>10, <1>11 DEF IInv, LogInv

LEMMA NextIInv == IInv /\ [Next]_vars => IInv'
<1> SUFFICES ASSUME IInv, [Next]_vars PROVE IInv'
  OBVIOUS
<1>1. LogStep \/ UNCHANGED logVars
  BY LogSteps DEF IInv
<1>2. LogInv'
  BY <1>1, LogTypesStep, LogOKStep, OldestFirstStep, ListedOnceStep DEF IInv, LogInv
<1>3. JobTypes' /\ LockOK' /\ Exclusive' /\ CallsOK' /\ RunsAreDistinct'
  BY JobTypesStep, LockStep, CallsStep, RunsAreDistinctStep DEF IInv, LogInv
<1>4. NextRun' /\ RunsInOrder'
  BY NextRunStep, RunsInOrderStep DEF IInv, LogInv
<1>. QED  BY <1>2, <1>3, <1>4 DEF IInv

LEMMA SpecIInv == Spec => []IInv
BY InitIInv, NextIInv, PTL DEF Spec

\* The lock of ProcessStreamer: whatever the TTL, cycles that end before it
\* never overlap on a streamer.
THEOREM CyclesExclude == Spec => []Exclusive
<1>1. IInv => Exclusive
  BY DEF IInv
<1>. QED  BY <1>1, SpecIInv, PTL

\* Runs of any number of cycles, expired locks or not, are told apart by their
\* id, and each is recorded at most once.
THEOREM RunsStayDistinct == Spec => []RunsAreDistinct
<1>1. IInv => RunsAreDistinct
  BY DEF IInv
<1>. QED  BY <1>1, SpecIInv, PTL

\* RecordLLMDecision loses, repeats and renumbers nothing, however many call it.
THEOREM DecisionsListedOnce == Spec => []ListedOnce
<1>1. IInv => ListedOnce
  BY DEF IInv, LogInv, ListedOnce
<1>. QED  BY <1>1, SpecIInv, PTL

\* Under locks that outlast the cycles, a streamer's history has its runs in the
\* order CreateRun numbered them, with timestamps that never go back.
THEOREM RunsStayInOrder == Spec => []RunsInOrder
<1>1. IInv => RunsInOrder
  BY DEF IInv
<1>. QED  BY <1>1, SpecIInv, PTL

\* What ListLLMDecisions returns, of any length, has calls that do not overlap
\* in the reverse of their order.
THEOREM ListsFollowRealTime == Spec => []RealTimeOrder
<1>1. IInv => RealTimeOrder
  <2> SUFFICES ASSUME LogTypes, OldestFirst, NEW s \in Streamers, NEW n \in 1..Len(decisions[s]),
                      NEW i \in 1..n, NEW j \in 1..n,
                      Log!ListLLMDecisions(s, n)[j].id \in Log!ListLLMDecisions(s, n)[i].after
               PROVE  /\ i < j
                      /\ Log!ListLLMDecisions(s, n)[i].id > Log!ListLLMDecisions(s, n)[j].id
                      /\ Log!ListLLMDecisions(s, n)[i].createdAt >= Log!ListLLMDecisions(s, n)[j].createdAt
    <3>1. LogTypes => \A s \in Streamers : Len(decisions[s]) \in Nat
      BY DEF LogTypes
    <3>2. LogTypes => \A s \in Streamers : \A n \in 1..Len(decisions[s]) :
             DOMAIN Log!ListLLMDecisions(s, n) = 1..n
      BY <3>1 DEF Log!ListLLMDecisions
    <3>. QED  BY <3>2 DEF IInv, LogInv, RealTimeOrder, Log!RealTimeOrder
  <2> DEFINE N == Len(decisions[s])
  <2>1. N \in Nat
    BY DEF LogTypes
  <2>2. \A k \in 1..n : /\ Log!ListLLMDecisions(s, n)[k] = decisions[s][N + 1 - k]
                        /\ N + 1 - k \in 1..N
    BY <2>1 DEF Log!ListLLMDecisions
  <2>3. decisions[s][N + 1 - j].id \in decisions[s][N + 1 - i].after
    BY <2>2
  <2>4. /\ N + 1 - j < N + 1 - i
        /\ decisions[s][N + 1 - j].id < decisions[s][N + 1 - i].id
        /\ decisions[s][N + 1 - j].createdAt <= decisions[s][N + 1 - i].createdAt
    BY <2>2, <2>3 DEF OldestFirst
  <2>. QED  BY <2>1, <2>2, <2>4
<1>. QED  BY <1>1, SpecIInv, PTL

-----------------------------------------------------------------------------
(* The bounds.  Every id belongs to a call or to a decision, and those are *)
(* no more than the runs and the posts.                                    *)

At(l) == {c \in Recorders : call[c].at = l}

InCall == {c \in Recorders : Log!Pending(c)}

Posted == {d \in Log!Recorded : d.run = 0}

Posting == {c \in Recorders : Log!Pending(c) /\ call[c].run = 0}

Creating == {w \in Workers : job[w].at = "create_run"}

IdsOK ==
    /\ IsFiniteSet(Log!Recorded) /\ \A d \in Log!Recorded : d.id # 0
    /\ counter + Cardinality(At("number")) = Cardinality(Log!Recorded) + Cardinality(InCall)
    /\ now + Cardinality(At("stamp")) <= counter

PostsOK == Cardinality(Posted) + Cardinality(Posting) <= MaxPosts

RunsOK == runs + Cardinality(Creating) <= MaxRuns

\* LogOK says when the other calls have been stamped.
StampsOK == \A c \in Recorders : call[c].at \in {"number", "stamp"} => call[c].createdAt = 0

CountInv == IInv /\ IdsOK /\ PostsOK /\ RunsOK /\ StampsOK

LEMMA CallersFinite ==
  ASSUME NEW S, S \subseteq Recorders
  PROVE  IsFiniteSet(S) /\ Cardinality(S) \in Nat
<1>1. IsFiniteSet(Recorders)
  BY NamesAssumption, FS_Union DEF Recorders
<1>. QED  BY <1>1, FS_Subset, FS_CardinalityType

LEMMA OneMore ==
  ASSUME NEW S, IsFiniteSet(S), NEW x, x \notin S, NEW T, T = S \union {x}
  PROVE  IsFiniteSet(T) /\ Cardinality(S) \in Nat /\ Cardinality(T) = Cardinality(S) + 1
BY FS_AddElement, FS_CardinalityType

LEMMA OneLess ==
  ASSUME NEW S, IsFiniteSet(S), NEW x, x \in S, NEW T, T = S \ {x}
  PROVE  Cardinality(S) \in Nat /\ Cardinality(T) \in Nat /\ Cardinality(T) = Cardinality(S) - 1
BY FS_RemoveElement, FS_CardinalityType

\* The sets of calls, before and after a step of one of them.
LEMMA CallSets ==
  ASSUME LogTypes, LogTypes', NEW c \in Recorders,
         \A e \in Recorders : e # c => call'[e] = call[e]
  PROVE  /\ \A l \in {"number", "stamp", "append"} :
              /\ At(l)' = IF call'[c].at = l THEN At(l) \union {c} ELSE At(l) \ {c}
              /\ c \in At(l) <=> call[c].at = l
              /\ IsFiniteSet(At(l)) /\ Cardinality(At(l)) \in Nat
         /\ InCall' = IF (Log!Pending(c))' THEN InCall \union {c} ELSE InCall \ {c}
         /\ Posting' = IF (Log!Pending(c))' /\ call'[c].run = 0 THEN Posting \union {c} ELSE Posting \ {c}
         /\ c \in InCall <=> Log!Pending(c)
         /\ c \in Posting <=> Log!Pending(c) /\ call[c].run = 0
         /\ IsFiniteSet(InCall) /\ IsFiniteSet(Posting)
         /\ Cardinality(InCall) \in Nat /\ Cardinality(Posting) \in Nat
<1>1. \A e \in Recorders : e # c => ((Log!Pending(e))' <=> Log!Pending(e))
  BY DEF Log!Pending
<1>2. InCall' = IF (Log!Pending(c))' THEN InCall \union {c} ELSE InCall \ {c}
  BY <1>1 DEF InCall
<1>3. Posting' = IF (Log!Pending(c))' /\ call'[c].run = 0 THEN Posting \union {c} ELSE Posting \ {c}
  BY <1>1 DEF Posting
<1>4. \A l : At(l)' = IF call'[c].at = l THEN At(l) \union {c} ELSE At(l) \ {c}
  BY DEF At
<1>5. \A l : IsFiniteSet(At(l)) /\ Cardinality(At(l)) \in Nat
  BY CallersFinite DEF At
<1>6. /\ IsFiniteSet(InCall) /\ IsFiniteSet(Posting)
      /\ Cardinality(InCall) \in Nat /\ Cardinality(Posting) \in Nat
  BY CallersFinite DEF InCall, Posting
<1>. QED  BY <1>2, <1>3, <1>4, <1>5, <1>6 DEF At, InCall, Posting

\* What the steps of a call are, by its label.
LEMMA CallKinds ==
  ASSUME LogTypes, NEW c \in Recorders
  PROVE  /\ \A s \in Streamers, r \in Nat : Log!BeginRecord(c, s, r) =>
              /\ ~Log!Pending(c) /\ call'[c].at = "number" /\ call'[c].run = r
              /\ UNCHANGED <<now, counter, decisions>>
         /\ Log!Number(c) =>
              /\ call[c].at = "number" /\ call'[c].at = "stamp" /\ call'[c].run = call[c].run
              /\ now' = now /\ counter' = counter + 1 /\ UNCHANGED decisions
         /\ Log!Stamp(c) =>
              /\ call[c].at = "stamp" /\ call'[c].at = "append" /\ call'[c].run = call[c].run
              /\ now' \in {now, now + 1} /\ UNCHANGED <<counter, decisions>>
<1>1. ASSUME NEW s \in Streamers, NEW r \in Nat, Log!BeginRecord(c, s, r)
      PROVE  /\ ~Log!Pending(c) /\ call'[c].at = "number" /\ call'[c].run = r
             /\ UNCHANGED <<now, counter, decisions>>
  BY <1>1 DEF Log!BeginRecord, LogTypes
<1>2. ASSUME Log!Number(c)
      PROVE  /\ call[c].at = "number" /\ call'[c].at = "stamp"
             /\ now' = now /\ counter' = counter + 1 /\ UNCHANGED decisions
  <2>1. call[c] \in PendingCalls
    BY <1>2, PendingFacts DEF Log!Number
  <2>. QED  BY <1>2, <2>1 DEF Log!Number, LogTypes, PendingCalls
<1>3. ASSUME Log!Stamp(c)
      PROVE  /\ call[c].at = "stamp" /\ call'[c].at = "append"
             /\ now' \in {now, now + 1} /\ UNCHANGED <<counter, decisions>>
  <2>1. call[c] \in PendingCalls
    BY <1>3, PendingFacts DEF Log!Stamp
  <2>. QED  BY <1>3, <2>1 DEF Log!Stamp, LogTypes, PendingCalls
<1>. QED  BY <1>1, <1>2, <1>3, RecordMoves

LEMMA IdsStep ==
  LogInv /\ LogInv' /\ IdsOK /\ (LogStep \/ UNCHANGED logVars) => IdsOK'
<1> SUFFICES ASSUME LogInv, LogInv', IdsOK, LogStep \/ UNCHANGED logVars
             PROVE  IdsOK'
  OBVIOUS
<1>0. /\ LogTypes /\ LogTypes' /\ now \in Nat /\ counter \in Nat
      /\ IsFiniteSet(Log!Recorded) /\ Cardinality(Log!Recorded) \in Nat
  BY FS_CardinalityType DEF LogInv, LogTypes, IdsOK
<1>1. \A e \in Recorders : /\ Log!Pending(e) <=> call[e].at \in {"number", "stamp", "append"}
                           /\ (Log!Pending(e))' <=> call'[e].at \in {"number", "stamp", "append"}
  BY <1>0 DEF LogTypes, PendingCalls, Log!Pending, Log!NoCall
<1>2. ASSUME NEW c \in Recorders, NEW s \in Streamers, NEW r \in Nat, Log!BeginRecord(c, s, r)
      PROVE  IdsOK'
  <2>1. /\ ~Log!Pending(c) /\ call'[c].at = "number" /\ UNCHANGED <<now, counter, decisions>>
        /\ \A e \in Recorders : e # c => call'[e] = call[e]
    BY <1>0, <1>2, CallKinds, BeginMoves DEF Moves
  <2>2. /\ At("number")' = At("number") \union {c} /\ c \notin At("number")
        /\ At("stamp")' = At("stamp") \ {c} /\ c \notin At("stamp")
        /\ InCall' = InCall \union {c} /\ c \notin InCall
        /\ IsFiniteSet(At("number")) /\ IsFiniteSet(InCall)
    BY <1>0, <1>1, <2>1, CallSets
  <2>3. /\ Cardinality(At("number")') = Cardinality(At("number")) + 1 /\ Cardinality(At("number")) \in Nat
        /\ Cardinality(InCall') = Cardinality(InCall) + 1 /\ Cardinality(InCall) \in Nat
        /\ At("stamp")' = At("stamp")
    BY <2>2, OneMore
  <2>4. (Log!Recorded)' = Log!Recorded
    BY <2>1 DEF Log!Recorded
  <2>. QED  BY <1>0, <2>1, <2>3, <2>4 DEF IdsOK
<1>3. ASSUME NEW c \in Recorders, Log!Number(c)
      PROVE  IdsOK'
  <2>1. /\ call[c].at = "number" /\ call'[c].at = "stamp"
        /\ now' = now /\ counter' = counter + 1 /\ UNCHANGED decisions
        /\ \A e \in Recorders : e # c => call'[e] = call[e]
    BY <1>0, <1>3, CallKinds, RecordMoves DEF Moves
  <2>2. /\ At("number")' = At("number") \ {c} /\ c \in At("number")
        /\ At("stamp")' = At("stamp") \union {c} /\ c \notin At("stamp")
        /\ InCall' = InCall \union {c} /\ c \in InCall
        /\ IsFiniteSet(At("number")) /\ IsFiniteSet(At("stamp"))
        /\ Cardinality(InCall) \in Nat
    BY <1>0, <1>1, <2>1, CallSets
  <2>3. /\ Cardinality(At("number")') = Cardinality(At("number")) - 1 /\ Cardinality(At("number")) \in Nat
        /\ Cardinality(At("stamp")') = Cardinality(At("stamp")) + 1 /\ Cardinality(At("stamp")) \in Nat
        /\ InCall' = InCall
    BY <2>2, OneMore, OneLess
  <2>4. (Log!Recorded)' = Log!Recorded
    BY <2>1 DEF Log!Recorded
  <2>5. /\ counter + Cardinality(At("number")) = Cardinality(Log!Recorded) + Cardinality(InCall)
        /\ now + Cardinality(At("stamp")) <= counter /\ Cardinality(InCall) \in Nat
    BY <2>2 DEF IdsOK
  <2>6. /\ counter' + Cardinality(At("number")') = Cardinality(Log!Recorded) + Cardinality(InCall)
        /\ now' + Cardinality(At("stamp")') <= counter'
    BY <1>0, <2>1, <2>3, <2>5
  <2>. QED  BY <2>3, <2>4, <2>6 DEF IdsOK
<1>4. ASSUME NEW c \in Recorders, Log!Stamp(c)
      PROVE  IdsOK'
  <2>1. /\ call[c].at = "stamp" /\ call'[c].at = "append"
        /\ now' \in {now, now + 1} /\ counter' = counter /\ UNCHANGED decisions
        /\ \A e \in Recorders : e # c => call'[e] = call[e]
    BY <1>0, <1>4, CallKinds, RecordMoves DEF Moves
  <2>2. /\ At("number")' = At("number") \ {c} /\ c \notin At("number")
        /\ At("stamp")' = At("stamp") \ {c} /\ c \in At("stamp")
        /\ InCall' = InCall \union {c} /\ c \in InCall
        /\ IsFiniteSet(At("stamp"))
    BY <1>0, <1>1, <2>1, CallSets
  <2>3. /\ Cardinality(At("stamp")') = Cardinality(At("stamp")) - 1 /\ Cardinality(At("stamp")) \in Nat
        /\ InCall' = InCall /\ At("number")' = At("number")
    BY <2>2, OneLess
  <2>4. (Log!Recorded)' = Log!Recorded
    BY <2>1 DEF Log!Recorded
  <2>. QED  BY <1>0, <2>1, <2>3, <2>4 DEF IdsOK
<1>5. ASSUME NEW c \in Recorders, Log!AppendItem(c)
      PROVE  IdsOK'
  <2> DEFINE x == Log!Item(c)
  <2>1. /\ call[c].at = "append" /\ call'[c].at = "none" /\ UNCHANGED <<now, counter>>
        /\ \A e \in Recorders : e # c => call'[e] = call[e]
    BY <1>0, <1>5, ItemFacts, AppendEnds
  <2>2. /\ At("number")' = At("number") \ {c} /\ c \notin At("number")
        /\ At("stamp")' = At("stamp") \ {c} /\ c \notin At("stamp")
        /\ InCall' = InCall \ {c} /\ c \in InCall /\ IsFiniteSet(InCall)
        /\ Cardinality(At("number")) \in Nat
    BY <1>0, <1>1, <2>1, CallSets
  <2>3. x.id = call[c].id /\ (Log!Recorded)' = Log!Recorded \union {x}
    BY <1>0, <1>5, ItemFacts, Appended DEF Appends
  <2>4. call[c].id # 0 /\ call[c].id \notin Log!ReturnedIDs
    <3>1. call[c].id # 0
      BY <1>1, <2>1 DEF LogInv, LogOK
    <3>2. call[c].id \notin Log!ReturnedIDs
      BY <1>1, <2>1 DEF LogInv, Log!ListedOnce, Recorders
    <3>. QED  BY <3>1, <3>2
  <2>5. x \notin Log!Recorded
    BY <2>3, <2>4 DEF Log!ReturnedIDs
  <2>. HIDE DEF x
  <2>6. /\ Cardinality(InCall') = Cardinality(InCall) - 1 /\ Cardinality(InCall) \in Nat
        /\ Cardinality((Log!Recorded)') = Cardinality(Log!Recorded) + 1
        /\ IsFiniteSet((Log!Recorded)')
        /\ At("number")' = At("number") /\ At("stamp")' = At("stamp")
    BY <1>0, <2>2, <2>3, <2>5, OneMore, OneLess
  <2>. QED  BY <1>0, <2>1, <2>2, <2>3, <2>4, <2>6 DEF IdsOK
<1>6. ASSUME UNCHANGED logVars
      PROVE  IdsOK'
  BY <1>6 DEF logVars, IdsOK, At, InCall, Log!Recorded, Log!Pending
<1>. QED  BY <1>2, <1>3, <1>4, <1>5, <1>6 DEF LogStep

\* The steps of the log, by who begins a call.
LEMMA LogKinds ==
  ASSUME JobTypes, CallsOK, [Next]_vars
  PROVE  \/ UNCHANGED logVars
         \/ \E w \in Workers : \E s \in Streamers, r \in Nat \ {0} : Log!BeginRecord(w, s, r)
         \/ \E a \in Admins : \E s \in Streamers : Log!Post(a, s)
         \/ \E c \in Recorders : Log!Number(c) \/ Log!Stamp(c)
         \/ \E c \in Recorders : Log!AppendItem(c)
<1>1. ASSUME NEW w \in Workers, BeginRecord(w)
      PROVE  \E s \in Streamers, r \in Nat \ {0} : Log!BeginRecord(w, s, r)
  <2>1. job[w].streamer \in Streamers /\ job[w].run \in Nat /\ job[w].run # 0
    BY <1>1 DEF BeginRecord, JobTypes, JobRecords, CallsOK
  <2>. QED  BY <1>1, <2>1 DEF BeginRecord
<1>2. ASSUME NEW w \in Workers, Record(w)
      PROVE  \E c \in Recorders : Log!Number(c) \/ Log!Stamp(c) \/ Log!AppendItem(c)
  BY <1>2 DEF Record, Recorders
<1>3. ASSUME NEW a \in Admins, AdminStep(a)
      PROVE  \/ \E c \in Recorders : Log!Number(c) \/ Log!Stamp(c) \/ Log!AppendItem(c)
             \/ \E s \in Streamers : Log!Post(a, s)
  BY <1>3 DEF AdminStep, Log!Record, Recorders
<1>. QED
  BY <1>1, <1>2, <1>3 DEF Next, Step, vars, logVars, TryLock, CreateRun, Capture, Classify, CycleFails,
     Unlock, Tick

\* A step that neither begins a post nor ends one.
LEMMA PostsKept ==
  ASSUME LogTypes, LogTypes', IsFiniteSet(Log!Recorded), NEW c \in Recorders,
         \A e \in Recorders : e # c => call'[e] = call[e], UNCHANGED decisions,
         (Log!Pending(c))' /\ call'[c].run = 0 => Log!Pending(c) /\ call[c].run = 0,
         PostsOK
  PROVE  PostsOK'
<1>1. Posting' \subseteq Posting /\ IsFiniteSet(Posting)
  BY CallSets
<1>2. Cardinality(Posting') <= Cardinality(Posting) /\ Posted' = Posted
  BY <1>1, FS_Subset DEF Posted, Log!Recorded
<1>3. Cardinality(Posting') \in Nat /\ Cardinality(Posting) \in Nat
  BY <1>1, FS_Subset, FS_CardinalityType
<1>4. Cardinality(Posted) \in Nat
  BY FS_Subset, FS_CardinalityType DEF Posted
<1>5. Cardinality(Posted) + Cardinality(Posting) <= MaxPosts
  BY DEF PostsOK
<1>6. Cardinality(Posted) + Cardinality(Posting') <= MaxPosts
  BY <1>2, <1>3, <1>4, <1>5, NamesAssumption
<1>. QED  BY <1>2, <1>6 DEF PostsOK

LEMMA PostsStep ==
  LogInv /\ LogInv' /\ JobTypes /\ CallsOK /\ IdsOK /\ PostsOK /\ [Next]_vars => PostsOK'
<1> SUFFICES ASSUME LogInv, LogInv', JobTypes, CallsOK, IdsOK, PostsOK, [Next]_vars PROVE PostsOK'
  OBVIOUS
<1>0. /\ LogTypes /\ LogTypes' /\ IsFiniteSet(Log!Recorded) /\ MaxPosts \in Nat
      /\ IsFiniteSet(Posted) /\ Cardinality(Posted) \in Nat
      /\ Cardinality(Posted) + Cardinality(Posting) <= MaxPosts
  <2>1. IsFiniteSet(Log!Recorded) /\ Posted \subseteq Log!Recorded
    BY DEF IdsOK, Posted
  <2>2. IsFiniteSet(Posted) /\ Cardinality(Posted) \in Nat
    BY <2>1, FS_Subset, FS_CardinalityType
  <2>. QED  BY <2>1, <2>2, NamesAssumption DEF LogInv, PostsOK
<1>1. \A e \in Recorders : /\ Log!Pending(e) <=> call[e].at \in {"number", "stamp", "append"}
                           /\ (Log!Pending(e))' <=> call'[e].at \in {"number", "stamp", "append"}
  BY <1>0 DEF LogTypes, PendingCalls, Log!Pending, Log!NoCall
<1>2. ASSUME UNCHANGED logVars PROVE PostsOK'
  BY <1>2 DEF logVars, PostsOK, Posted, Posting, Log!Recorded, Log!Pending
<1>3. ASSUME NEW w \in Workers, NEW s \in Streamers, NEW r \in Nat \ {0}, Log!BeginRecord(w, s, r)
      PROVE  PostsOK'
  <2>1. /\ w \in Recorders /\ call'[w].run # 0 /\ UNCHANGED decisions
        /\ \A e \in Recorders : e # w => call'[e] = call[e]
    BY <1>0, <1>3, CallKinds, BeginMoves DEF Moves, Recorders
  <2>. QED  BY <1>0, <2>1, PostsKept
<1>4. ASSUME NEW c \in Recorders, Log!Number(c) \/ Log!Stamp(c)
      PROVE  PostsOK'
  <2>1. /\ UNCHANGED decisions /\ call'[c].run = call[c].run /\ Log!Pending(c)
        /\ \A e \in Recorders : e # c => call'[e] = call[e]
    BY <1>0, <1>1, <1>4, CallKinds, RecordMoves DEF Moves
  <2>. QED  BY <1>0, <2>1, PostsKept
<1>5. ASSUME NEW a \in Admins, NEW s \in Streamers, Log!Post(a, s)
      PROVE  PostsOK'
  <2>1. Log!BeginRecord(a, s, 0) /\ a \in Recorders /\ 0 \in Nat
    BY <1>5 DEF Log!Post, Recorders
  <2>2. /\ ~Log!Pending(a) /\ call'[a].run = 0 /\ call'[a].at = "number" /\ UNCHANGED decisions
        /\ \A e \in Recorders : e # a => call'[e] = call[e]
    BY <1>0, <2>1, CallKinds, BeginMoves DEF Moves
  <2>3. Posting' = Posting \union {a} /\ a \notin Posting /\ IsFiniteSet(Posting)
    BY <1>0, <1>1, <2>1, <2>2, CallSets
  <2>4. Cardinality(Posting') = Cardinality(Posting) + 1 /\ Cardinality(Posting) \in Nat
    BY <2>3, OneMore
  <2>5. Posted' = Posted
    BY <2>2 DEF Posted, Log!Recorded
  <2>6. Cardinality(Posted) + Cardinality(Posting) < MaxPosts
    <3>1. Log!Posts = Cardinality(Posted) + Cardinality(Posting)
      <4>1. \A S : Log!Cardinality(S) = Cardinality(S)
        BY DEF Log!Cardinality, Cardinality
      <4>. QED  BY <4>1 DEF Log!Posts, Posted, Posting, Recorders
    <3>. QED  BY <1>5, <3>1 DEF Log!Post
  <2>7. Cardinality(Posted) + Cardinality(Posting') <= MaxPosts
    BY <1>0, <2>4, <2>6
  <2>. QED  BY <2>5, <2>7 DEF PostsOK
<1>6. ASSUME NEW c \in Recorders, Log!AppendItem(c)
      PROVE  PostsOK'
  <2> DEFINE x == Log!Item(c)
  <2>1. /\ call[c].at = "append" /\ call'[c].at = "none" /\ x.run = call[c].run
        /\ \A e \in Recorders : e # c => call'[e] = call[e]
        /\ x.id = call[c].id /\ (Log!Recorded)' = Log!Recorded \union {x}
    BY <1>0, <1>6, ItemFacts, AppendEnds, Appended DEF Appends
  <2>2. Posting' = Posting \ {c} /\ (c \in Posting <=> call[c].run = 0) /\ IsFiniteSet(Posting)
    BY <1>0, <1>1, <2>1, CallSets
  <2>3. x \notin Log!Recorded
    <3>1. call[c].id \notin Log!ReturnedIDs
      BY <1>1, <2>1 DEF LogInv, Log!ListedOnce, Recorders
    <3>. QED  BY <2>1, <3>1 DEF Log!ReturnedIDs
  <2>4. CASE call[c].run = 0
    <3>1. Posted' = Posted \union {x} /\ x \notin Posted
      BY <2>1, <2>3, <2>4 DEF Posted
    <3>2. Cardinality(Posted') = Cardinality(Posted) + 1
      <4>. HIDE DEF x
      <4>. QED  BY <1>0, <3>1, OneMore
    <3>3. Cardinality(Posting') = Cardinality(Posting) - 1 /\ Cardinality(Posting) \in Nat
      BY <2>2, <2>4, OneLess
    <3>. QED  BY <1>0, <3>2, <3>3 DEF PostsOK
  <2>5. CASE call[c].run # 0
    <3>1. Posted' = Posted /\ Posting' = Posting
      BY <2>1, <2>2, <2>5 DEF Posted
    <3>. QED  BY <1>0, <3>1 DEF PostsOK
  <2>. QED  BY <2>4, <2>5
<1>. QED  BY <1>2, <1>3, <1>4, <1>5, <1>6, LogKinds

\* A worker about to create a run has its place among the runs that are left.
LEMMA RunsStep ==
  JobTypes /\ RunsOK /\ [Next]_vars => RunsOK'
<1> SUFFICES ASSUME JobTypes, RunsOK, [Next]_vars PROVE RunsOK'
  OBVIOUS
<1>0. /\ runs \in Nat /\ MaxRuns \in Nat /\ runs + Cardinality(Creating) <= MaxRuns
      /\ IsFiniteSet(Creating) /\ Cardinality(Creating) \in Nat
  <2>1. Creating \subseteq Recorders
    BY DEF Creating, Recorders
  <2>. QED  BY <2>1, CallersFinite, NamesAssumption DEF JobTypes, RunsOK
<1>1. ASSUME NEW w \in Workers, NEW s \in Streamers, TryLock(w, s)
      PROVE  RunsOK'
  <2>1. /\ job[w].at = "idle" /\ job'[w].at = "create_run" /\ runs' = runs
        /\ \A v \in Workers : v # w => job'[v] = job[v]
    BY <1>1, TryLockMoves DEF TryLock, Becomes
  <2>2. Creating' = Creating \union {w} /\ w \notin Creating
    BY <2>1 DEF Creating
  <2>3. Cardinality(Creating') = Cardinality(Creating) + 1
    BY <1>0, <2>2, OneMore
  <2>4. runs + Cardinality(Creating) < MaxRuns
    BY <1>1 DEF TryLock, RunsLeft, Creating
  <2>5. runs + Cardinality(Creating') <= MaxRuns
    BY <1>0, <2>3, <2>4
  <2>. QED  BY <2>1, <2>5 DEF RunsOK
<1>2. ASSUME NEW w \in Workers, CreateRun(w)
      PROVE  RunsOK'
  <2>1. /\ job[w].at = "create_run" /\ job'[w].at = "capture" /\ runs' = runs + 1
        /\ \A v \in Workers : v # w => job'[v] = job[v]
    BY <1>2, CreateRunMoves DEF CreateRun, Becomes
  <2>2. Creating' = Creating \ {w} /\ w \in Creating
    BY <2>1 DEF Creating
  <2>3. Cardinality(Creating') = Cardinality(Creating) - 1
    BY <1>0, <2>2, OneLess
  <2>4. runs' + Cardinality(Creating') <= MaxRuns
    BY <1>0, <2>1, <2>3
  <2>. QED  BY <2>4 DEF RunsOK
<1>3. ASSUME runs' = runs, \A v \in Workers : job'[v].at = "create_run" => job[v].at = "create_run"
      PROVE  RunsOK'
  <2>1. Creating' \subseteq Creating
    BY <1>3 DEF Creating
  <2>2. Cardinality(Creating') <= Cardinality(Creating) /\ Cardinality(Creating') \in Nat
    BY <1>0, <2>1, FS_Subset, FS_CardinalityType
  <2>3. runs + Cardinality(Creating') <= MaxRuns
    BY <1>0, <2>2
  <2>. QED  BY <1>3, <2>3 DEF RunsOK
<1>4. ASSUME NEW w \in Workers, Within(w), ~ CreateRun(w)
      PROVE  runs' = runs /\ \A v \in Workers : job'[v].at = "create_run" => job[v].at = "create_run"
  BY <1>4 DEF Within, Becomes, BeginRecord
<1>5. ASSUME NEW w \in Workers, Unlock(w)
      PROVE  runs' = runs /\ \A v \in Workers : job'[v].at = "create_run" => job[v].at = "create_run"
  BY <1>5, UnlockMoves DEF Unlock, Becomes
<1>6. ASSUME Tick
      PROVE  runs' = runs /\ \A v \in Workers : job'[v].at = "create_run" => job[v].at = "create_run"
  BY <1>6, TickMoves DEF Tick
<1>7. ASSUME Apart
      PROVE  runs' = runs /\ \A v \in Workers : job'[v].at = "create_run" => job[v].at = "create_run"
  BY <1>7 DEF Apart
<1>. QED  BY <1>1, <1>2, <1>3, <1>4, <1>5, <1>6, <1>7, StepKinds

LEMMA StampsStep ==
  LogTypes /\ LogTypes' /\ StampsOK /\ (LogStep \/ UNCHANGED logVars) => StampsOK'
<1> SUFFICES ASSUME LogTypes, LogTypes', StampsOK, LogStep \/ UNCHANGED logVars PROVE StampsOK'
  OBVIOUS
<1>1. ASSUME NEW c \in Recorders, NEW s \in Streamers, NEW r \in Nat, Log!BeginRecord(c, s, r)
      PROVE  StampsOK'
  <2>1. \A e \in Recorders : e # c => call'[e] = call[e]
    BY <1>1, BeginMoves DEF Moves
  <2>2. call'[c].createdAt = 0
    BY <1>1 DEF Log!BeginRecord, LogTypes, Recorders
  <2>. QED  BY <2>1, <2>2 DEF StampsOK
<1>2. ASSUME NEW c \in Recorders, Log!Number(c)
      PROVE  StampsOK'
  <2>1. \A e \in Recorders : e # c => call'[e] = call[e]
    BY <1>2, RecordMoves DEF Moves
  <2>2. call[c].at = "number" /\ call[c] \in PendingCalls
    BY <1>2, PendingFacts DEF Log!Number
  <2>3. call'[c].createdAt = call[c].createdAt
    BY <1>2, <2>2 DEF Log!Number, LogTypes, PendingCalls
  <2>. QED  BY <2>1, <2>2, <2>3 DEF StampsOK
<1>3. ASSUME NEW c \in Recorders, Log!Stamp(c)
      PROVE  StampsOK'
  <2>1. call'[c].at = "append" /\ \A e \in Recorders : e # c => call'[e] = call[e]
    BY <1>3, CallKinds, RecordMoves DEF Moves
  <2>. QED  BY <2>1 DEF StampsOK
<1>4. ASSUME NEW c \in Recorders, Log!AppendItem(c)
      PROVE  StampsOK'
  <2>1. call'[c].at = "none" /\ \A e \in Recorders : e # c => call'[e] = call[e]
    BY <1>4, AppendEnds
  <2>. QED  BY <2>1 DEF StampsOK
<1>5. ASSUME UNCHANGED logVars
      PROVE  StampsOK'
  BY <1>5 DEF logVars, StampsOK
<1>. QED  BY <1>1, <1>2, <1>3, <1>4, <1>5 DEF LogStep

LEMMA Injects ==
  ASSUME NEW S, NEW T, IsFiniteSet(T), NEW f \in [S -> T],
         \A x, y \in S : f[x] = f[y] => x = y
  PROVE  Cardinality(S) <= Cardinality(T)
<1>1. f \in Injection(S, T)
  BY DEF Injection, IsInjective
<1>. QED  BY <1>1, FS_Injection

LEMMA Splits ==
  ASSUME NEW S, IsFiniteSet(S), NEW T, T \subseteq S
  PROVE  /\ IsFiniteSet(T) /\ IsFiniteSet(S \ T)
         /\ Cardinality(T) \in Nat /\ Cardinality(S \ T) \in Nat
         /\ Cardinality(S) = Cardinality(T) + Cardinality(S \ T)
<1>1. IsFiniteSet(T) /\ IsFiniteSet(S \ T)
  BY FS_Subset
<1>2. T \union (S \ T) = S /\ T \intersect (S \ T) = {}
  OBVIOUS
<1>3. Cardinality(T \union (S \ T)) =
         Cardinality(T) + Cardinality(S \ T) - Cardinality(T \intersect (S \ T))
  BY <1>1, FS_Union
<1>4. Cardinality(T) \in Nat /\ Cardinality(S \ T) \in Nat
  BY <1>1, FS_CardinalityType
<1>5. Cardinality(T \intersect (S \ T)) = 0
  BY <1>2, FS_EmptySet
<1>6. Cardinality(T \union (S \ T)) = Cardinality(S)
  BY <1>2
<1> DEFINE s == Cardinality(S)
           t == Cardinality(T)
           r == Cardinality(S \ T)
<1>7. s = t + r - 0 /\ t \in Nat /\ r \in Nat
  BY <1>3, <1>4, <1>5, <1>6
<1>. HIDE DEF s, t, r
<1>8. s = t + r
  BY <1>7
<1>. QED  BY <1>1, <1>4, <1>8 DEF s, t, r

\* No run has two decisions, or a decision and a call that records another.
LEMMA OnePerRun ==
  ASSUME IInv, IdsOK
  PROVE  Cardinality(Log!Recorded \ Posted) + Cardinality(InCall \ Posting) <= runs
<1> DEFINE D == Log!Recorded \ Posted
           C == InCall \ Posting
           dRuns == {d.run : d \in D}
           cRuns == {call[c].run : c \in C}
<1>1. LogTypes /\ JobTypes /\ CallsOK /\ RunsAreDistinct /\ runs \in Nat
  BY DEF IInv, LogInv, JobTypes
<1>2. \A d \in D : d \in Log!Recorded /\ d.run # 0 /\ d.run \in 1..runs
  <2>1. \A d \in D : d \in Log!Recorded /\ d.run # 0 /\ d.run \in Nat /\ d.run <= runs
    BY <1>1, RecordedFacts DEF Posted, Listed, CallsOK
  <2>. QED  BY <1>1, <2>1
<1>3. \A c \in C : /\ c \in Workers /\ job[c].at = "recording" /\ call[c].run = job[c].run
                   /\ job[c].run # 0 /\ job[c].run \in 1..runs
  <2>. SUFFICES ASSUME NEW c \in C
                PROVE  /\ c \in Workers /\ job[c].at = "recording" /\ call[c].run = job[c].run
                       /\ job[c].run # 0 /\ job[c].run \in 1..runs
    OBVIOUS
  <2>1. c \in Recorders /\ Log!Pending(c) /\ call[c].run # 0
    BY DEF InCall, Posting
  <2>2. c \in Workers
    BY <1>1, <2>1 DEF CallsOK, Recorders
  <2>3. /\ job[c].at = "recording" /\ call[c].run = job[c].run /\ job[c].run <= runs
        /\ job[c].run \in Nat
    BY <1>1, <2>1, <2>2 DEF CallsOK, JobTypes, JobRecords
  <2>. QED  BY <1>1, <2>1, <2>2, <2>3
<1>. HIDE DEF D, C
<1>4. dRuns \subseteq 1..runs /\ cRuns \subseteq 1..runs
  BY <1>2, <1>3
<1>5. dRuns \intersect cRuns = {}
  <2>. SUFFICES ASSUME NEW d \in D, NEW c \in C, d.run = call[c].run PROVE FALSE
    OBVIOUS
  <2>. QED  BY <1>1, <1>2, <1>3 DEF RunsAreDistinct
<1>6. /\ IsFiniteSet(1..runs) /\ Cardinality(1..runs) = runs
      /\ IsFiniteSet(dRuns) /\ IsFiniteSet(cRuns)
  <2>1. IsFiniteSet(1..runs) /\ Cardinality(1..runs) = runs
    BY <1>1, FS_Interval
  <2>. QED  BY <1>4, <2>1, FS_Subset
<1>7. Cardinality(D) <= Cardinality(dRuns)
  <2> DEFINE f == [d \in D |-> d.run]
  <2>1. f \in [D -> dRuns]
    OBVIOUS
  <2>2. \A d, e \in D : f[d] = f[e] => d = e
    BY <1>1, <1>2 DEF RunsAreDistinct
  <2>. HIDE DEF f, dRuns
  <2>. QED  BY <1>6, <2>1, <2>2, Injects
<1>8. Cardinality(C) <= Cardinality(cRuns)
  <2> DEFINE f == [c \in C |-> call[c].run]
  <2>1. f \in [C -> cRuns]
    OBVIOUS
  <2>2. \A c, e \in C : f[c] = f[e] => c = e
    BY <1>1, <1>3 DEF RunsAreDistinct
  <2>. HIDE DEF f, cRuns
  <2>. QED  BY <1>6, <2>1, <2>2, Injects
<1>. HIDE DEF dRuns, cRuns
<1>9. /\ Cardinality(dRuns \union cRuns) = Cardinality(dRuns) + Cardinality(cRuns)
      /\ Cardinality(dRuns) \in Nat /\ Cardinality(cRuns) \in Nat
  <2>1. Cardinality(dRuns \union cRuns) =
           Cardinality(dRuns) + Cardinality(cRuns) - Cardinality(dRuns \intersect cRuns)
    BY <1>6, FS_Union
  <2>2. Cardinality(dRuns) \in Nat /\ Cardinality(cRuns) \in Nat
    BY <1>6, FS_CardinalityType
  <2>3. Cardinality(dRuns \intersect cRuns) = 0
    BY <1>5, FS_EmptySet
  <2>. QED  BY <2>1, <2>2, <2>3
<1>10. Cardinality(dRuns \union cRuns) <= runs
  <2>1. dRuns \union cRuns \subseteq 1..runs
    BY <1>4
  <2>. QED  BY <1>6, <2>1, FS_Subset
<1>11. Cardinality(D) \in Nat /\ Cardinality(C) \in Nat
  <2>1. IsFiniteSet(D) /\ IsFiniteSet(C)
    <3>1. IsFiniteSet(Log!Recorded) /\ D \subseteq Log!Recorded
      BY DEF IdsOK, D
    <3>2. C \subseteq Recorders
      BY DEF C, InCall
    <3>. QED  BY <3>1, <3>2, FS_Subset, CallersFinite
  <2>. QED  BY <2>1, FS_CardinalityType
<1>12. Cardinality(D) + Cardinality(C) <= runs
  BY <1>1, <1>7, <1>8, <1>9, <1>10, <1>11
<1>. QED  BY <1>12 DEF D, C

\* No more ids are given than there may be decisions.
LEMMA CounterBound ==
  ASSUME CountInv
  PROVE  /\ counter \in Nat /\ now \in Nat /\ runs \in Nat /\ Log!MaxDecisions \in Nat
         /\ counter <= Log!MaxDecisions /\ now <= Log!MaxDecisions /\ runs <= MaxRuns
<1>1. IInv /\ IdsOK /\ PostsOK /\ RunsOK
  BY DEF CountInv
<1>2. /\ counter \in Nat /\ now \in Nat /\ runs \in Nat /\ MaxRuns \in Nat /\ MaxPosts \in Nat
      /\ Log!MaxDecisions = MaxRuns + MaxPosts
  BY <1>1, NamesAssumption DEF IInv, LogInv, LogTypes, JobTypes, Log!MaxDecisions
<1> DEFINE d == Cardinality(Log!Recorded)
           d0 == Cardinality(Posted)
           d1 == Cardinality(Log!Recorded \ Posted)
           c == Cardinality(InCall)
           c0 == Cardinality(Posting)
           c1 == Cardinality(InCall \ Posting)
<1>3. d0 \in Nat /\ d1 \in Nat /\ d = d0 + d1
  <2>1. IsFiniteSet(Log!Recorded) /\ Posted \subseteq Log!Recorded
    BY <1>1 DEF IdsOK, Posted
  <2>. QED  BY <2>1, Splits
<1>4. c0 \in Nat /\ c1 \in Nat /\ c = c0 + c1
  <2>1. InCall \subseteq Recorders /\ Posting \subseteq InCall
    BY DEF InCall, Posting
  <2>. QED  BY <2>1, CallersFinite, Splits
<1>5. d1 + c1 <= runs
  BY <1>1, OnePerRun
<1>6. d0 + c0 <= MaxPosts
  BY <1>1 DEF PostsOK
<1>7. /\ counter + Cardinality(At("number")) = d + c /\ now + Cardinality(At("stamp")) <= counter
      /\ Cardinality(At("number")) \in Nat /\ Cardinality(At("stamp")) \in Nat
  <2>1. \A l : At(l) \subseteq Recorders
    BY DEF At
  <2>. QED  BY <1>1, <2>1, CallersFinite DEF IdsOK
<1>8. runs <= MaxRuns
  <2>1. Cardinality(Creating) \in Nat
    <3>1. Creating \subseteq Recorders
      BY DEF Creating, Recorders
    <3>. QED  BY <3>1, CallersFinite
  <2>. QED  BY <1>1, <1>2, <2>1 DEF RunsOK
<1>. HIDE DEF d, d0, d1, c, c0, c1
<1>9. counter <= MaxRuns + MaxPosts /\ now <= MaxRuns + MaxPosts
  BY <1>2, <1>3, <1>4, <1>5, <1>6, <1>7, <1>8
<1>. QED  BY <1>2, <1>8, <1>9

LEMMA InitCountInv == Init => CountInv
<1> SUFFICES ASSUME Init PROVE CountInv
  OBVIOUS
<1>1. /\ Log!Recorded = {} /\ Posted = {} /\ InCall = {} /\ Posting = {} /\ Creating = {}
      /\ At("number") = {} /\ At("stamp") = {}
  BY DEF Init, Log!Init, Log!Recorded, Posted, InCall, Posting, Creating, At, Idle, Log!NoCall,
         Log!Pending, Recorders
<1>2. counter = 0 /\ now = 0 /\ runs = 0
  BY DEF Init, Log!Init
<1>3. IsFiniteSet({}) /\ Cardinality({}) = 0
  BY FS_EmptySet
<1>4. IdsOK
  BY <1>1, <1>2, <1>3 DEF IdsOK
<1>5. PostsOK /\ RunsOK
  BY <1>1, <1>2, <1>3, NamesAssumption DEF PostsOK, RunsOK
<1>6. StampsOK
  BY DEF Init, Log!Init, Log!NoCall, StampsOK, Recorders
<1>. QED  BY <1>4, <1>5, <1>6, InitIInv DEF CountInv

LEMMA NextCountInv == CountInv /\ [Next]_vars => CountInv'
<1> SUFFICES ASSUME CountInv, [Next]_vars PROVE CountInv'
  OBVIOUS
<1>1. IInv /\ IInv' /\ IdsOK /\ PostsOK /\ RunsOK /\ StampsOK
  BY NextIInv DEF CountInv
<1>2. /\ LogInv /\ LogInv' /\ LogTypes /\ LogTypes' /\ JobTypes /\ CallsOK
      /\ LogStep \/ UNCHANGED logVars
  BY <1>1, LogSteps DEF IInv, LogInv
<1>3. IdsOK' /\ PostsOK' /\ RunsOK' /\ StampsOK'
  BY <1>1, <1>2, IdsStep, PostsStep, RunsStep, StampsStep
<1>. QED  BY <1>1, <1>3 DEF CountInv

LEMMA SpecCountInv == Spec => []CountInv
BY InitCountInv, NextCountInv, PTL DEF Spec

LEMMA CountInvTypes == CountInv => TypeOK
<1> SUFFICES ASSUME CountInv PROVE TypeOK
  OBVIOUS
<1> DEFINE N == Log!MaxDecisions
<1>0. /\ LogTypes /\ JobTypes /\ LogOK /\ CallsOK /\ IdsOK /\ StampsOK /\ MaxRuns \in Nat
  BY NamesAssumption DEF CountInv, IInv, LogInv
<1>1. /\ counter \in Nat /\ now \in Nat /\ runs \in Nat /\ N \in Nat
      /\ counter <= N /\ now <= N /\ runs <= MaxRuns
  BY CounterBound
<1>. HIDE DEF N
<1>2. \A d \in Log!Recorded : d.id \in 1..N /\ d.createdAt \in 0..N /\ d.run \in 0..MaxRuns
  <2>. SUFFICES ASSUME NEW d \in Log!Recorded
                PROVE  d.id \in 1..N /\ d.createdAt \in 0..N /\ d.run \in 0..MaxRuns
    OBVIOUS
  <2>1. d.id \in Nat /\ d.createdAt \in Nat /\ d.run \in Nat
    BY <1>0, RecordedFacts DEF Listed
  <2>2. d.id <= counter /\ d.id # 0 /\ d.createdAt <= now /\ d.run <= runs
    BY <1>0 DEF LogOK, IdsOK, CallsOK
  <2>. QED  BY <1>0, <1>1, <2>1, <2>2
<1>3. Log!ReturnedIDs \subseteq 1..N
  BY <1>2 DEF Log!ReturnedIDs
<1>4. \A d \in Log!Recorded : d \in Log!Items
  <2>. SUFFICES ASSUME NEW d \in Log!Recorded PROVE d \in Log!Items
    OBVIOUS
  <2>1. d \in Listed /\ d.after \subseteq 1..N
    BY <1>0, <1>3, RecordedFacts DEF LogOK
  <2>. QED  BY <1>2, <2>1 DEF Listed, Log!Items, Log!Runs, N
<1>5. \A c \in Recorders : call[c] \in Log!Calls \union {Log!NoCall}
  <2>. SUFFICES ASSUME NEW c \in Recorders, Log!Pending(c) PROVE call[c] \in Log!Calls
    BY DEF Log!Pending
  <2>1. call[c] \in PendingCalls
    BY <1>0, PendingFacts
  <2>2. call[c].run \in 0..MaxRuns
    <3>1. call[c].run <= MaxRuns
      <4>1. CASE c \in Workers
        <5>1. call[c].run = job[c].run /\ job[c].run <= runs /\ job[c].run \in Nat
          BY <1>0, <4>1 DEF CallsOK, JobTypes, JobRecords
        <5>. QED  BY <1>0, <1>1, <5>1
      <4>2. CASE c \in Admins
        BY <1>0, <4>2 DEF CallsOK
      <4>. QED  BY <4>1, <4>2 DEF Recorders
    <3>. QED  BY <1>0, <2>1, <3>1 DEF PendingCalls
  <2>3. call[c].after \subseteq 1..N
    BY <1>0, <1>3 DEF LogOK
  <2>4. call[c].id \in 0..N
    <3>1. call[c].at # "number" => call[c].id <= counter
      BY <1>0 DEF LogOK
    <3>2. call[c].at = "number" => call[c].id = 0
      BY <1>0 DEF LogOK
    <3>3. call[c].id \in Nat
      BY <2>1 DEF PendingCalls
    <3>. QED  BY <1>1, <3>1, <3>2, <3>3
  <2>5. call[c].createdAt \in 0..N
    <3>1. call[c].at = "append" => call[c].createdAt <= now
      BY <1>0 DEF LogOK
    <3>2. call[c].at # "append" => call[c].createdAt = 0
      BY <1>0, <2>1 DEF StampsOK, PendingCalls
    <3>3. call[c].createdAt \in Nat
      BY <2>1 DEF PendingCalls
    <3>. QED  BY <1>1, <3>1, <3>2, <3>3
  <2>. QED  BY <2>1, <2>2, <2>3, <2>4, <2>5 DEF PendingCalls, Log!Calls, Log!Runs, N
<1>6. Log!TypeOK
  <2>1. now \in 0..N /\ counter \in 0..N
    BY <1>1
  <2>2. call \in [Recorders -> Log!Calls \union {Log!NoCall}]
    BY <1>0, <1>5 DEF LogTypes
  <2>3. /\ DOMAIN decisions = Streamers
        /\ \A s \in Streamers : DOMAIN decisions[s] = 1..Len(decisions[s])
    BY <1>0 DEF LogTypes
  <2>4. \A s \in Streamers : \A i \in DOMAIN decisions[s] : decisions[s][i] \in Log!Items
    BY <1>0, <1>4, <2>3, RecordedFacts
  <2>. QED  BY <2>1, <2>2, <2>3, <2>4 DEF Log!TypeOK, Recorders, N
<1>7. job \in [Workers -> Jobs]
  <2>. SUFFICES ASSUME NEW w \in Workers PROVE job[w] \in Jobs
    BY <1>0 DEF JobTypes
  <2>1. job[w] \in JobRecords /\ job[w].run <= runs
    BY <1>0 DEF JobTypes, CallsOK
  <2>2. job[w].run \in 0..MaxRuns
    BY <1>0, <1>1, <2>1 DEF JobRecords
  <2>. QED  BY <2>1, <2>2 DEF JobRecords, Jobs
<1>8. runs \in 0..MaxRuns /\ left \in [Streamers -> 0..LockTTL]
  BY <1>0, <1>1 DEF JobTypes
<1>. QED  BY <1>6, <1>7, <1>8 DEF TypeOK

\* Locks, cycles and calls keep their types, and the ids, the clock and the
\* runs their bounds: a call takes one id and gives it back as one decision, and
\* a cycle takes one run (RecordLLMDecision's counter, the store's counter).
THEOREM TypeCorrect == Spec => []TypeOK
BY CountInvTypes, SpecCountInv, PTL

-----------------------------------------------------------------------------
(* Why a lock ends.                                                        *)

\* What may become of a lock that is held: time passes, or an Unlock deletes it.
RunsDown(s) ==
    \/ left'[s] = left[s]
    \/ Tick /\ left'[s] = left[s] - 1
    \/ /\ \E w \in Workers : Unlock(w) /\ Working(w, s)
       /\ left'[s] = 0

\* TryLock: no worker that asks for a lock in vain prolongs it, and no step of a
\* cycle but its Unlock touches it, so that a lock is over after LockTTL at most.
THEOREM LocksOnlyRunDown ==
  Spec => [][\A s \in Streamers : left[s] > 0 => RunsDown(s)]_vars
<1>1. ASSUME JobTypes, [Next]_vars, NEW s \in Streamers, left[s] > 0
      PROVE  RunsDown(s)
  <2>1. left \in [Streamers -> 0..LockTTL]
    BY <1>1 DEF JobTypes
  <2>2. ASSUME NEW w \in Workers, Unlock(w)
        PROVE  RunsDown(s)
    <3>1. job[w].at # "idle" /\ left' = [left EXCEPT ![job[w].streamer] = 0]
      BY <2>2 DEF Unlock
    <3>. QED  BY <2>1, <2>2, <3>1 DEF RunsDown, Working
  <2>3. ASSUME NEW w \in Workers, NEW x \in Streamers, TryLock(w, x)
        PROVE  RunsDown(s)
    <3>1. left[x] = 0 /\ left' = [left EXCEPT ![x] = LockTTL]
      BY <2>3 DEF TryLock
    <3>. QED  BY <1>1, <2>1, <3>1 DEF RunsDown
  <2>4. ASSUME Tick
        PROVE  RunsDown(s)
    <3>1. left'[s] = left[s] - 1
      BY <1>1, <2>4 DEF Tick
    <3>. QED  BY <2>4, <3>1 DEF RunsDown
  <2>5. ASSUME left' = left
        PROVE  RunsDown(s)
    BY <2>5 DEF RunsDown
  <2>. QED  BY <1>1, <2>2, <2>3, <2>4, <2>5, StepKinds DEF Within, Apart
<1>2. IInv => JobTypes
  BY DEF IInv
<1>3. IInv /\ [Next]_vars => [\A s \in Streamers : left[s] > 0 => RunsDown(s)]_vars
  BY <1>1, <1>2
<1>. QED  BY <1>3, SpecIInv, PTL DEF Spec

\* ProcessStreamer: a cycle that hangs, with its lock or after it, never holds up
\* the time that its lock runs on.
THEOREM TimeGoesOn ==
  Spec => [](MaxBusy > LockTTL => \A w \in Workers : job[w].at # "idle" => job[w].busy < MaxBusy)
<1>1. ASSUME JobTypes, MaxBusy > LockTTL, NEW w \in Workers
      PROVE  job[w].busy < MaxBusy
  <2>1. job[w].busy \in 0..LockTTL
    BY <1>1 DEF JobTypes, JobRecords
  <2>. QED  BY <1>1, <2>1, LockTTLAssumption
<1>2. IInv => JobTypes
  BY DEF IInv
<1>3. IInv => (MaxBusy > LockTTL => \A w \in Workers : job[w].at # "idle" => job[w].busy < MaxBusy)
  BY <1>1, <1>2
<1>. QED  BY <1>3, SpecIInv, PTL

\* The plan's "duplicate cycle for the same lock window is rejected" is true of
\* TryLock as long as every cycle ends before its lock does (the run of
\* OneCyclePerWindow shows that it is false of cycles that do not).
THEOREM WindowsHoldInTime == MaxBusy < LockTTL => (Spec => OneCyclePerWindow)
<1>. SUFFICES ASSUME MaxBusy < LockTTL PROVE Spec => OneCyclePerWindow
  OBVIOUS
<1>1. ASSUME JobTypes, LockOK, NEW w \in Workers, NEW s \in Streamers, TryLock(w, s),
             NEW v \in Workers, Working(v, s)
      PROVE  FALSE
  <2>1. job[v].busy <= MaxBusy /\ left[s] + job[v].busy = LockTTL
    BY <1>1 DEF LockOK, Working
  <2>2. left[s] = 0 /\ job[v].busy \in Nat
    BY <1>1 DEF TryLock, JobTypes, JobRecords
  <2>. QED  BY <2>1, <2>2, LockTTLAssumption
<1>2. IInv => JobTypes /\ LockOK
  BY DEF IInv
<1>3. IInv /\ [Next]_vars =>
        [\A w \in Workers, s \in Streamers : TryLock(w, s) =>
            \A v \in Workers : Working(v, s) => job[v].busy >= LockTTL]_vars
  BY <1>1, <1>2
<1>. QED  BY <1>3, SpecIInv, PTL DEF Spec, OneCyclePerWindow

=============================================================================
