------------------------------ MODULE PrintQueue ------------------------------
(***************************************************************************)
(* The print-job queue of modules/print-agent: order screens enqueue and   *)
(* reprint kitchen tickets, the print agents of a shop (PCs running an     *)
(* external program) reserve batches with GET jobs, cut paper in one or    *)
(* more kitchen sectors, and acknowledge with POST jobs/:id/ack.           *)
(*                                                                         *)
(* A job is an index of `jobs', in createdAt order.  A SQL statement is    *)
(* one step; a handler that reads a row and saves it later is two, and the *)
(* entity it will save travels in the request's record.                    *)
(***************************************************************************)
EXTENDS Naturals, Sequences, FiniteSets

CONSTANTS
    Agents,      \* print agents (external programs) of one shop
    Orders,      \* customer orders that are sent to the kitchen
    Clients,     \* requests that enqueue or reprint, concurrently
    Sectors,     \* kitchen sectors of a ticket: payload.printedKeys is a subset
    ClaimBatch,  \* CLAIM_BATCH: how many jobs one poll reserves
    MaxAttempts, \* failed attempts after which a job is FAILED (3 in the code)
    MaxJobs,     \* bound: jobs ever enqueued
    MaxCrashes,  \* bound: crashes of an agent
    MaxResends,  \* bound: acks that reach the server twice
    MaxOverruns  \* bound: claims that expire while an agent still works on them

ASSUME PrintQueueAssumption ==
    MaxJobs \in Nat /\ IsFiniteSet(Agents)

VARIABLES
    jobs,     \* the table print_jobs
    client,   \* enqueue and reprint requests in progress
    agent,    \* the agents: poll in progress and the tickets in hand
    acks,     \* acknowledgements in flight or being handled
    cuts,     \* cuts[j][s]: tickets of job j that came out in sector s
    crashes,  \* crashes so far
    resends,  \* acks duplicated so far
    overruns  \* claims that expired under an agent or an ack on its way

queueVars == <<jobs, client, agent, acks, cuts, crashes, resends, overruns>>

JobIds   == 1..MaxJobs
NoToken  == 0
\* A random claim token is modelled as the least value nobody holds.
Tokens   == 1..(MaxJobs + Cardinality(Agents) + 1)
Statuses == {"PENDING", "CLAIMED", "PRINTED", "FAILED"}

JobRow ==
    [order : Orders, canonical : BOOLEAN, status : Statuses,
     token : Tokens \cup {NoToken}, stale : BOOLEAN,
     attempts : 0..MaxAttempts, keys : SUBSET Sectors]

NoEntity == <<>>  \* an ack not read yet; afterwards <<row to save>>

AckMsg ==
    [from : Agents, job : JobIds, status : {"PRINTED", "FAILED"},
     keys : SUBSET Sectors, copy : 1..2, entity : {NoEntity} \cup {<<r>> : r \in JobRow}]

\* Tickets in hand: job -> sectors the agent knows to be cut already.
Batches == UNION {[D -> SUBSET Sectors] : D \in SUBSET JobIds}
NoBatch == [j \in {} |-> {}]

QueueTypeOK ==
    /\ jobs \in Seq(JobRow) /\ Len(jobs) <= MaxJobs
    /\ client \in [Clients -> [step : {"idle", "enqueue", "insert", "insertNew"},
                               order : Orders]]
    /\ agent \in [Agents -> [step : {"idle", "released", "claimed", "working"},
                             token : Tokens \cup {NoToken}, batch : Batches]]
    /\ acks \subseteq AckMsg
    /\ cuts \in [JobIds -> [Sectors -> Nat]]
    /\ crashes \in 0..MaxCrashes /\ resends \in 0..MaxResends /\ overruns \in 0..MaxOverruns

QueueInit ==
    /\ jobs = <<>>
    /\ client \in [Clients -> [step : {"idle"}, order : Orders]]
    /\ agent = [a \in Agents |-> [step |-> "idle", token |-> NoToken, batch |-> NoBatch]]
    /\ acks = {}
    /\ cuts = [j \in JobIds |-> [s \in Sectors |-> 0]]
    /\ crashes = 0 /\ resends = 0 /\ overruns = 0

-----------------------------------------------------------------------------
(* Enqueue and reprint                                                       *)

Canonical(o) == {j \in DOMAIN jobs : jobs[j].order = o /\ jobs[j].canonical}

NewJob(o, canonical) ==
    [order |-> o, canonical |-> canonical, status |-> "PENDING", token |-> NoToken,
     stale |-> FALSE, attempts |-> 0, keys |-> {}]

ClientGoto(c, step) == client' = [client EXCEPT ![c].step = step]

\* enqueueCustomerOrder: a new request for the canonical kitchen ticket of o.
AskEnqueue(c, o) ==
    /\ client[c].step = "idle" /\ Len(jobs) < MaxJobs
    /\ client' = [client EXCEPT ![c] = [step |-> "enqueue", order |-> o]]
    /\ UNCHANGED <<jobs, agent, acks, cuts, crashes, resends, overruns>>

\* reprintKitchenForOrder: the first read decides between a fresh job, the live
\* one and the canonical enqueue.
AskReprint(c, o) ==
    /\ client[c].step = "idle" /\ Len(jobs) < MaxJobs
    /\ LET live == \E j \in Canonical(o) : jobs[j].status \in {"PENDING", "CLAIMED"}
           over == \E j \in Canonical(o) : jobs[j].status \in {"FAILED", "PRINTED"}
       IN  /\ ~live
           /\ client' = [client EXCEPT ![c] =
                [step |-> IF over THEN "insertNew" ELSE "enqueue", order |-> o]]
    /\ UNCHANGED <<jobs, agent, acks, cuts, crashes, resends, overruns>>

\* enqueue: the lookup by sourceId; an existing job is returned as it is.
LookUpSource(c) ==
    /\ client[c].step = "enqueue"
    /\ ClientGoto(c, IF Canonical(client[c].order) = {} THEN "insert" ELSE "idle")
    /\ UNCHANGED <<jobs, agent, acks, cuts, crashes, resends, overruns>>

\* enqueue: the INSERT, which idx_print_jobs_shop_source makes fail on a sourceId
\* that another request has inserted since the lookup.
InsertJob(c) ==
    /\ client[c].step \in {"insert", "insertNew"}
    /\ LET o     == client[c].order
           fresh == client[c].step = "insertNew"
           fits  == Len(jobs) < MaxJobs /\ (fresh \/ Canonical(o) = {})
       IN  jobs' = IF fits THEN Append(jobs, NewJob(o, ~fresh)) ELSE jobs
    /\ ClientGoto(c, "idle")
    /\ UNCHANGED <<agent, acks, cuts, crashes, resends, overruns>>

-----------------------------------------------------------------------------
(* GET jobs: three statements                                                *)

\* Mutants of Requeued: any stale row is queued again, whatever its status; nothing is ever released.
RequeuedUnlessPending(row) ==
    IF row.status # "PENDING"
      THEN [row EXCEPT !.status = "PENDING", !.token = NoToken, !.stale = FALSE]
      ELSE row

RequeuedNever(row) == row

Requeued(row) ==
    IF row.status = "CLAIMED" /\ row.stale
      THEN [row EXCEPT !.status = "PENDING", !.token = NoToken, !.stale = FALSE]
      ELSE row

AwaitsAnswer(a) == \E m \in acks : m.from = a /\ m.copy = 1

ReleaseStaleClaims(a) ==
    /\ agent[a].step = "idle" /\ ~AwaitsAnswer(a)
    /\ jobs' = [j \in DOMAIN jobs |-> Requeued(jobs[j])]
    /\ agent' = [agent EXCEPT ![a].step = "released"]
    /\ UNCHANGED <<client, acks, cuts, crashes, resends, overruns>>

PendingJobs == {j \in DOMAIN jobs : jobs[j].status = "PENDING"}

\* ORDER BY createdAt ASC LIMIT ClaimBatch
Oldest == {j \in PendingJobs : Cardinality({i \in PendingJobs : i < j}) < ClaimBatch}

UsedTokens == {jobs[j].token : j \in DOMAIN jobs} \cup {agent[b].token : b \in Agents}

FreshToken == CHOOSE t \in Tokens : t \notin UsedTokens

ClaimJobs(a) ==
    /\ agent[a].step = "released"
    /\ LET t == FreshToken
       IN  /\ jobs' = [j \in DOMAIN jobs |->
                IF j \in Oldest
                  THEN [jobs[j] EXCEPT !.status = "CLAIMED", !.token = t, !.stale = FALSE]
                  ELSE jobs[j]]
           /\ agent' = [agent EXCEPT ![a].step = "claimed", ![a].token = t]
    /\ UNCHANGED <<client, acks, cuts, crashes, resends, overruns>>

ClaimedBy(t) == {j \in DOMAIN jobs : jobs[j].status = "CLAIMED" /\ jobs[j].token = t}

\* The answer carries the rows of the token, payload.printedKeys included.
FetchClaimed(a) ==
    /\ agent[a].step = "claimed"
    /\ LET mine == ClaimedBy(agent[a].token)
       IN  agent' = [agent EXCEPT ![a] =
             [step |-> IF mine = {} THEN "idle" ELSE "working", token |-> NoToken,
              batch |-> [j \in mine |-> jobs[j].keys]]]
    /\ UNCHANGED <<jobs, client, acks, cuts, crashes, resends, overruns>>

-----------------------------------------------------------------------------
(* The agent (external): cuts the sectors still missing, then acknowledges   *)

InHand(a) == DOMAIN agent[a].batch

Cut(a, j, s) ==
    /\ j \in InHand(a) /\ s \notin agent[a].batch[j]
    /\ cuts' = [cuts EXCEPT ![j][s] = @ + 1]
    /\ agent' = [agent EXCEPT ![a].batch[j] = @ \cup {s}]
    /\ UNCHANGED <<jobs, client, acks, crashes, resends, overruns>>

\* PRINTED once every sector is cut, FAILED (a printer error) before that.  An
\* ack whose answer is lost is sent again: `twice' lets the copy arrive whenever.
SendAck(a, j, twice) ==
    /\ j \in InHand(a) /\ ~AwaitsAnswer(a)
    /\ LET known == agent[a].batch[j]
           msg   == [from |-> a, job |-> j, keys |-> known, copy |-> 1, entity |-> NoEntity,
                     status |-> IF known = Sectors THEN "PRINTED" ELSE "FAILED"]
           rest  == InHand(a) \ {j}
       IN  /\ acks' = acks \cup {msg} \cup (IF twice THEN {[msg EXCEPT !.copy = 2]} ELSE {})
           /\ agent' = [agent EXCEPT
                ![a].batch = [i \in rest |-> agent[a].batch[i]],
                ![a].step  = IF rest = {} THEN "idle" ELSE "working"]
    /\ resends' = IF twice THEN resends + 1 ELSE resends
    /\ resends' <= MaxResends
    /\ UNCHANGED <<jobs, client, cuts, crashes, overruns>>

\* The PC restarts and forgets what it had in hand.
Crash(a) ==
    /\ agent[a].step # "idle" /\ crashes < MaxCrashes
    /\ agent' = [agent EXCEPT ![a] = [step |-> "idle", token |-> NoToken, batch |-> NoBatch]]
    /\ crashes' = crashes + 1
    /\ UNCHANGED <<jobs, client, acks, cuts, resends, overruns>>

\* Somebody is still going to acknowledge j under its claim.
IsHeld(j) ==
    \/ \E a \in Agents : j \in InHand(a) \/ agent[a].token = jobs[j].token
    \/ \E m \in acks : m.job = j

\* The claim of j is older than STALE_CLAIM_SECONDS: nobody is left to acknowledge it,
\* or its agent outlives the limit.
ClaimExpires(j) ==
    /\ j \in DOMAIN jobs /\ jobs[j].status = "CLAIMED" /\ ~jobs[j].stale
    /\ jobs' = [jobs EXCEPT ![j].stale = TRUE]
    /\ overruns' = IF IsHeld(j) THEN overruns + 1 ELSE overruns
    /\ overruns' <= MaxOverruns
    /\ UNCHANGED <<client, agent, acks, cuts, crashes, resends>>

-----------------------------------------------------------------------------
(* POST jobs/:id/ack                                                         *)

\* Mutants of Acked: the keys of a failed attempt are forgotten; the outcomes are
\* swapped.
AckedForgetsKeys(row, m) ==
    LET new == [row EXCEPT !.token = NoToken, !.stale = FALSE]
    IN  IF m.status = "PRINTED"
          THEN [new EXCEPT !.status = "PRINTED", !.keys = m.keys]
          ELSE [new EXCEPT !.attempts = @ + 1,
                           !.status = IF row.attempts + 1 < MaxAttempts
                                        THEN "PENDING" ELSE "FAILED"]

AckedSwapped(row, m) ==
    LET merged == [row EXCEPT !.keys = @ \cup m.keys, !.token = NoToken, !.stale = FALSE]
    IN  IF m.status = "FAILED"
          THEN [merged EXCEPT !.status = "PRINTED"]
          ELSE [merged EXCEPT !.attempts = @ + 1,
                              !.status = IF row.attempts + 1 < MaxAttempts
                                           THEN "PENDING" ELSE "FAILED"]

\* mergePrintedKeys and the assignments of the two outcomes, on the row as read.
Acked(row, m) ==
    LET merged == [row EXCEPT !.keys = @ \cup m.keys, !.token = NoToken, !.stale = FALSE]
    IN  IF m.status = "PRINTED"
          THEN [merged EXCEPT !.status = "PRINTED"]
          ELSE [merged EXCEPT !.attempts = @ + 1,
                              !.status = IF row.attempts + 1 < MaxAttempts
                                           THEN "PENDING" ELSE "FAILED"]

\* The early returns: nothing is saved.
AckIsNoop(row, m) == row.status = "PRINTED" \/ (m.status = "FAILED" /\ row.status = "FAILED")

\* findOne, the checks and the new entity.
AckRead(m) ==
    /\ m \in acks /\ m.entity = NoEntity
    /\ LET row == jobs[m.job]
       IN  acks' = (acks \ {m}) \cup
             (IF AckIsNoop(row, m) THEN {} ELSE {[m EXCEPT !.entity = <<Acked(row, m)>>]})
    /\ UNCHANGED <<jobs, client, agent, cuts, crashes, resends, overruns>>

\* save: the columns in which entity and row differ are written, all of them.
AckSave(m) ==
    /\ m \in acks /\ m.entity # NoEntity
    /\ jobs' = [jobs EXCEPT ![m.job] = Head(m.entity)]
    /\ acks' = acks \ {m}
    /\ UNCHANGED <<client, agent, cuts, crashes, resends, overruns>>

-----------------------------------------------------------------------------

ClientStep(c) == LookUpSource(c) \/ InsertJob(c)

AgentStep(a) ==
    \/ ReleaseStaleClaims(a) \/ ClaimJobs(a) \/ FetchClaimed(a)
    \/ \E j \in JobIds, s \in Sectors : Cut(a, j, s)
    \/ \E j \in JobIds, twice \in BOOLEAN : SendAck(a, j, twice)

AckStep == \E m \in acks : AckRead(m) \/ AckSave(m)

QueueNext ==
    \/ \E c \in Clients, o \in Orders : AskEnqueue(c, o) \/ AskReprint(c, o)
    \/ \E c \in Clients : ClientStep(c)
    \/ \E a \in Agents : AgentStep(a) \/ Crash(a)
    \/ \E j \in JobIds : ClaimExpires(j)
    \/ AckStep

QueueSpec == QueueInit /\ [][QueueNext]_queueVars

\* The server answers what reaches it, a running agent keeps polling and
\* finishes its batch, and time passes.  Nothing forces anybody to enqueue.
QueueFairness ==
    /\ \A c \in Clients : WF_queueVars(ClientStep(c))
    /\ \A a \in Agents : WF_queueVars(AgentStep(a))
    /\ \A j \in JobIds : WF_queueVars(ClaimExpires(j))
    /\ WF_queueVars(AckStep)

FairQueueSpec == QueueSpec /\ QueueFairness

-----------------------------------------------------------------------------
(* Properties                                                                *)

\* "Evita dos PCs imprimiendo lo mismo" (print-job.entity.ts): no ticket is in the
\* hands of two agents at the same time.
OneAgentPerJob ==
    \A a, b \in Agents : a # b => InHand(a) \cap InHand(b) = {}

\* A sector's ticket comes out once, however many partial failures and retries the
\* job goes through (payload.printedKeys); only a crash between the cut and the ack
\* can repeat one, once per crash.
NoRepeatedTicket ==
    \A j \in JobIds, s \in Sectors : cuts[j][s] <= 1 + crashes

\* No claim has expired under a living agent, and no acknowledgement was sent twice.
Calm == overruns = 0 /\ resends = 0

\* As long as agents are in time and acknowledge once, the two together.
TicketsOnce == Calm => OneAgentPerJob /\ NoRepeatedTicket

\* A job that is PRINTED stays so, and "a 3 queda FAILED terminal" (print-job.entity.ts):
\* no retry, release, crash or reprint reopens a job that has its outcome, with agents
\* that are in time and acknowledge once (a late acknowledgement may, as the README says).
\* A reprint of a FAILED ticket is a new job: "También reabre FAILED del source canónico
\* a PENDING", in the comment of reprintKitchenForOrder, is not what it does.
KeepsOutcomes ==
    Calm' => \A j \in DOMAIN jobs :
        jobs[j].status \in {"PRINTED", "FAILED"} => jobs'[j].status = jobs[j].status
OutcomeIsFinal == [][KeepsOutcomes]_queueVars

\* What the server believes was cut was cut: the merged keys of a job, and every
\* sector of a PRINTED one, correspond to paper, with late and repeated acks too.
RecordedKeysWereCut ==
    \A j \in DOMAIN jobs, s \in Sectors :
        s \in jobs[j].keys \/ jobs[j].status = "PRINTED" => cuts[j][s] > 0

\* Concurrent requests for one order leave one canonical kitchen job.
OneCanonicalJob == \A o \in Orders : Cardinality(Canonical(o)) <= 1

\* The two together.
QueueMatchesPaper == RecordedKeysWereCut /\ OneCanonicalJob

\* Every job is eventually printed or given up, agent crashes included: a claim
\* whose agent died goes back to the queue.
EveryJobSettles ==
    \A j \in JobIds :
        (j \in DOMAIN jobs) ~> (j \in DOMAIN jobs /\ jobs[j].status \in {"PRINTED", "FAILED"})
=============================================================================
