---------------------------- MODULE DecisionLog ----------------------------
(***************************************************************************)
(* The LLM decision history of streamers.Service (src/internal/streamers/  *)
(* service.go): RecordLLMDecision and ListLLMDecisions.                    *)
(*                                                                         *)
(* RecordLLMDecision numbers the decision under one mutex, reads the clock *)
(* under none, and appends under a second mutex: three steps that          *)
(* concurrent calls interleave.  A call that fails validation changes      *)
(* nothing and is not modelled here.                                       *)
(***************************************************************************)
EXTENDS Integers, Sequences, FiniteSets

CONSTANTS
    Streamers,
    Callers,      \* requests, or workers, that record decisions
    MaxRuns,      \* bound: runs a decision can belong to
    MaxPosts      \* bound: decisions recorded over HTTP

VARIABLES
    now,        \* the reading of nowFn, in units fine enough to order calls
    counter,    \* the number of the last decision id
    call,       \* call[c]: the RecordLLMDecision in progress
    decisions   \* decisions[s]: the slice of streamer s, oldest first

vars == <<now, counter, call, decisions>>

\* A decision that a worker records belongs to a run; 0 stands for the run
\* that the administrator's request names.
Runs == 0..MaxRuns
MaxDecisions == MaxRuns + MaxPosts

\* after is for the properties: the decisions already returned to somebody
\* when the call began.
Items ==
    [id: 1..MaxDecisions, createdAt: 0..MaxDecisions, run: Runs,
     after: SUBSET (1..MaxDecisions)]

NoCall == [at |-> "none"]

Calls ==
    [at: {"number", "stamp", "append"}, streamer: Streamers, run: Runs,
     id: 0..MaxDecisions, createdAt: 0..MaxDecisions, after: SUBSET (1..MaxDecisions)]

TypeOK ==
    /\ now \in 0..MaxDecisions
    /\ counter \in 0..MaxDecisions
    /\ call \in [Callers -> Calls \union {NoCall}]
    /\ DOMAIN decisions = Streamers
    /\ \A s \in Streamers :
        /\ DOMAIN decisions[s] = 1..Len(decisions[s])
        /\ \A i \in DOMAIN decisions[s] : decisions[s][i] \in Items

Init ==
    /\ now = 0
    /\ counter = 0
    /\ call = [c \in Callers |-> NoCall]
    /\ decisions = [s \in Streamers |-> <<>>]

-----------------------------------------------------------------------------

Recorded ==
    UNION {{decisions[s][i] : i \in DOMAIN decisions[s]} : s \in Streamers}

ReturnedIDs == {d.id : d \in Recorded}

Pending(c) == call[c] # NoCall

\* The request is valid.
BeginRecord(c, s, r) ==
    /\ ~Pending(c)
    /\ call' = [call EXCEPT ![c] =
                   [at |-> "number", streamer |-> s, run |-> r, id |-> 0,
                    createdAt |-> 0, after |-> ReturnedIDs]]
    /\ UNCHANGED <<now, counter, decisions>>

\* Mutant: the counter is read and not advanced before the unlock.
Number_NotAdvanced(c) ==
    /\ call[c].at = "number"
    /\ call' = [call EXCEPT ![c].at = "stamp", ![c].id = counter + 1]
    /\ counter' = IF counter = 0 THEN 1 ELSE counter
    /\ UNCHANGED <<now, decisions>>

\* counter++ under counterMu.
Number(c) ==
    /\ call[c].at = "number"
    /\ counter' = counter + 1
    /\ call' = [call EXCEPT ![c].at = "stamp", ![c].id = counter + 1]
    /\ UNCHANGED <<now, decisions>>

\* CreatedAt: the clock has moved on since the last reading, or not yet.
Stamp(c) ==
    /\ call[c].at = "stamp"
    /\ now' \in {now, now + 1}
    /\ call' = [call EXCEPT ![c].at = "append", ![c].createdAt = now']
    /\ UNCHANGED <<counter, decisions>>

Item(c) ==
    [id |-> call[c].id, createdAt |-> call[c].createdAt, run |-> call[c].run,
     after |-> call[c].after]

\* Mutant: the decision goes to the front of the slice.
Append_AtFront(c) ==
    /\ call[c].at = "append"
    /\ decisions' = [decisions EXCEPT ![call[c].streamer] = <<Item(c)>> \o @]
    /\ call' = [call EXCEPT ![c] = NoCall]
    /\ UNCHANGED <<now, counter>>

\* append under mu, and the call returns.
AppendItem(c) ==
    /\ call[c].at = "append"
    /\ decisions' = [decisions EXCEPT ![call[c].streamer] = Append(@, Item(c))]
    /\ call' = [call EXCEPT ![c] = NoCall]
    /\ UNCHANGED <<now, counter>>

Record(c) == Number(c) \/ Stamp(c) \/ AppendItem(c)

\* An administrator posts a decision to /api/streamers/{id}/llm-decisions.
Posts ==
    Cardinality({d \in Recorded : d.run = 0})
    + Cardinality({c \in Callers : Pending(c) /\ call[c].run = 0})

Post(c, s) ==
    /\ Posts < MaxPosts
    /\ BeginRecord(c, s, 0)

Next == \E c \in Callers : Record(c) \/ \E s \in Streamers : Post(c, s)

Spec == Init /\ [][Next]_vars

-----------------------------------------------------------------------------

\* ListLLMDecisions: the last limit decisions of the slice, in reverse.
ListLLMDecisions(s, limit) ==
    LET n == Len(decisions[s])
        shown == IF limit > n THEN n ELSE limit
    IN  [i \in 1..shown |-> decisions[s][n + 1 - i]]

\* Whatever calls overlap, a decision that was returned is in exactly one
\* place of one streamer's history, under an id no other call has been given.
ListedOnce ==
    /\ \A s, t \in Streamers :
        \A i \in DOMAIN decisions[s], j \in DOMAIN decisions[t] :
            decisions[s][i].id = decisions[t][j].id => s = t /\ i = j
    /\ \A c \in Callers : Pending(c) /\ call[c].at # "number" =>
        /\ call[c].id \notin ReturnedIDs
        /\ \A e \in Callers : Pending(e) /\ call[e].id = call[c].id => e = c

\* A decision recorded after another had been returned is listed before it,
\* with a higher id and no earlier timestamp, in a list of any length.
RealTimeOrder ==
    \A s \in Streamers : \A n \in 1..Len(decisions[s]) :
        LET list == ListLLMDecisions(s, n)
        IN  \A i, j \in DOMAIN list : list[j].id \in list[i].after =>
                /\ i < j
                /\ list[i].id > list[j].id
                /\ list[i].createdAt >= list[j].createdAt

=============================================================================
