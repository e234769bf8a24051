--------------------------- MODULE PrintQueueProofs ---------------------------
(***************************************************************************)
(* The print queue for any number of agents, orders, requests and kitchen     *)
(* sectors, with slow agents, crashes, and acknowledgements that come late or  *)
(* twice: what it holds to be printed is on paper.  And as long as agents are   *)
(* in time: a ticket comes out once, and what was printed stays so.             *)
(***************************************************************************)
EXTENDS PrintQueue, FiniteSetTheorems, SequenceTheorems, TLAPS

-----------------------------------------------------------------------------
(* The inductive invariant                                                    *)

Columns == {"order", "canonical", "status", "token", "stale", "attempts", "keys"}
IsRow(r) == DOMAIN r = Columns /\ r.status \in Statuses /\ r.keys \subseteq Sectors /\ r.canonical \in BOOLEAN

\* Every sector in keys was cut for job j.
OnPaper(j, keys) == keys \subseteq Sectors /\ \A s \in keys : cuts[j][s] > 0

\* A row of job j says no more than the paper.
Truthful(j, r) == IsRow(r) /\ OnPaper(j, r.keys) /\ (r.status = "PRINTED" => OnPaper(j, Sectors))

Shape ==
    /\ jobs = [j \in 1..Len(jobs) |-> jobs[j]] /\ Len(jobs) \in 0..MaxJobs
    /\ cuts \in [JobIds -> [Sectors -> Nat]]
    /\ DOMAIN agent = Agents /\ \A a \in Agents : DOMAIN agent[a] = {"step", "token", "batch"}

\* What the table, the agents and the acknowledgements on their way know of a ticket.
RowsAreTrue   == \A j \in 1..Len(jobs) : Truthful(j, jobs[j])
AgentsAreTrue == \A a \in Agents : \A j \in InHand(a) : j \in 1..Len(jobs) /\ OnPaper(j, agent[a].batch[j])

AckIsTrue(m) ==
    /\ DOMAIN m = {"from", "job", "status", "keys", "copy", "entity"}
    /\ m.job \in 1..Len(jobs) /\ OnPaper(m.job, m.keys)
    /\ m.status \in {"PRINTED", "FAILED"} /\ (m.status = "PRINTED" => m.keys = Sectors)
    /\ m.entity # NoEntity => \E r : /\ m.entity = <<r>> /\ Truthful(m.job, r)
                                     /\ r.order = jobs[m.job].order /\ r.canonical = jobs[m.job].canonical

OneEach == \A i, j \in 1..Len(jobs) :
               jobs[i].canonical /\ jobs[j].canonical /\ jobs[i].order = jobs[j].order => i = j

QueueInv == Shape /\ RowsAreTrue /\ AgentsAreTrue /\ (\A m \in acks : AckIsTrue(m)) /\ OneEach

-----------------------------------------------------------------------------

\* The invariant holds at the start.
LEMMA QueueInvInit == QueueInit => QueueInv
<1>. SUFFICES ASSUME QueueInit PROVE QueueInv
  OBVIOUS
<1>1. Len(jobs) = 0 /\ jobs = [j \in 1..0 |-> jobs[j]]
  BY DEF QueueInit
<1>2. Shape
  BY <1>1, PrintQueueAssumption DEF QueueInit, Shape
<1>3. AgentsAreTrue
  BY DEF QueueInit, AgentsAreTrue, InHand, NoBatch
<1>. QED BY <1>1, <1>2, <1>3 DEF QueueInit, QueueInv, RowsAreTrue, OneEach

\* A table whose rows have other values of columns that nobody's identity depends on.
LEMMA RowsChange ==
    ASSUME QueueInv, NEW f, jobs' = f, f = [j \in 1..Len(jobs) |-> f[j]],
           \A j \in 1..Len(jobs) : /\ Truthful(j, f[j])
                                  /\ f[j].order = jobs[j].order /\ f[j].canonical = jobs[j].canonical,
           UNCHANGED cuts, DOMAIN agent' = Agents, \A a \in Agents : DOMAIN agent'[a] = {"step", "token", "batch"},
           \A a \in Agents : \A j \in InHand(a)' : j \in 1..Len(jobs) /\ OnPaper(j, agent'[a].batch[j]),
           acks' \subseteq acks
    PROVE  QueueInv'
<1>1. Len(f) = Len(jobs) /\ Len(jobs) \in Nat
  BY PrintQueueAssumption DEF QueueInv, Shape
<1>2. Shape'
  BY <1>1 DEF QueueInv, Shape
<1>3. RowsAreTrue'
  BY <1>1 DEF RowsAreTrue, Truthful, OnPaper, QueueInv
<1>4. AgentsAreTrue'
  BY <1>1 DEF AgentsAreTrue, OnPaper, QueueInv
<1>5. \A m \in acks' : AckIsTrue(m)'
  <2>1. ASSUME NEW m \in acks PROVE AckIsTrue(m)'
    <3>1. AckIsTrue(m)
      BY DEF QueueInv
    <3>. QED BY <1>1, <3>1 DEF AckIsTrue, Truthful, OnPaper
  <2>. QED BY <2>1
<1>6. OneEach'
  BY <1>1 DEF OneEach, QueueInv
<1>. QED BY <1>2, <1>3, <1>4, <1>5, <1>6 DEF QueueInv

\* The table stays, and what is added to hands and acknowledgements is true.
LEMMA RowsStay ==
    ASSUME QueueInv, UNCHANGED jobs, cuts' \in [JobIds -> [Sectors -> Nat]],
           \A j \in JobIds, s \in Sectors : cuts'[j][s] >= cuts[j][s],
           DOMAIN agent' = Agents, \A a \in Agents : DOMAIN agent'[a] = {"step", "token", "batch"},
           AgentsAreTrue', \A m \in acks' : m \in acks \/ AckIsTrue(m)'
    PROVE  QueueInv'
<1>1. 1..Len(jobs) \subseteq JobIds
  BY PrintQueueAssumption DEF QueueInv, Shape, JobIds
<1>2. \A j \in 1..Len(jobs) : \A keys : OnPaper(j, keys) => OnPaper(j, keys)'
  BY <1>1 DEF QueueInv, Shape, OnPaper
<1>3. Shape' /\ OneEach'
  BY DEF QueueInv, Shape, OneEach
<1>4. RowsAreTrue'
  BY <1>2 DEF QueueInv, RowsAreTrue, Truthful
<1>5. ASSUME NEW m \in acks PROVE AckIsTrue(m)'
  <2>1. AckIsTrue(m)
    BY DEF QueueInv
  <2>. QED BY <1>2, <2>1 DEF AckIsTrue, Truthful
<1>. QED BY <1>3, <1>4, <1>5 DEF QueueInv

-----------------------------------------------------------------------------
(* Enqueue                                                                    *)

\* An insertion keeps the invariant.
LEMMA InsertKeepsInv ==
    ASSUME QueueInv, NEW c \in Clients, InsertJob(c)
    PROVE  QueueInv'
<1>1. UNCHANGED <<agent, acks, cuts>>
  BY DEF InsertJob
<1>2. CASE UNCHANGED jobs
  BY <1>1, <1>2, RowsStay DEF QueueInv, Shape, AgentsAreTrue, InHand, OnPaper
<1>3. CASE ~UNCHANGED jobs
  <2>. DEFINE n == Len(jobs)
  <2>1. PICK o, canonical : /\ jobs' = Append(jobs, NewJob(o, canonical)) /\ n < MaxJobs
                            /\ canonical \in BOOLEAN /\ (canonical => Canonical(o) = {})
    <3>. DEFINE row == NewJob(client[c].order, ~(client[c].step = "insertNew"))
    <3>1. /\ jobs' = IF n < MaxJobs /\ (client[c].step = "insertNew" \/ Canonical(client[c].order) = {})
                       THEN Append(jobs, row) ELSE jobs
      BY DEF InsertJob
    <3>2. jobs' = Append(jobs, row) /\ n < MaxJobs
          /\ (client[c].step = "insertNew" \/ Canonical(client[c].order) = {})
      BY <1>3, <3>1
    <3>3. CASE client[c].step = "insertNew"
      <4>1. jobs' = Append(jobs, NewJob(client[c].order, FALSE))
        BY <3>2, <3>3
      <4>. QED BY <3>2, <4>1
    <3>4. CASE client[c].step # "insertNew"
      <4>1. jobs' = Append(jobs, NewJob(client[c].order, TRUE))
        BY <3>2, <3>4
      <4>. QED BY <3>2, <3>4, <4>1
    <3>. QED BY <3>3, <3>4
  <2>r. PICK r : r = NewJob(o, canonical)
    OBVIOUS
  <2>2. IsRow(r) /\ r.keys = {} /\ r.status = "PENDING" /\ r.order = o /\ r.canonical = canonical
    BY <2>1, <2>r DEF NewJob, IsRow, Columns, Statuses
  <2>3. n \in Nat /\ jobs \in Seq({jobs[j] : j \in 1..n}) /\ DOMAIN jobs = 1..n
    BY PrintQueueAssumption DEF QueueInv, Shape
  <2>4. Len(jobs') = n + 1 /\ jobs' = [j \in 1..(n + 1) |-> IF j = n + 1 THEN r ELSE jobs[j]]
    <3>1. jobs' = Append(jobs, r)
      BY <2>1, <2>r
    <3>. HIDE DEF n
    <3>2. PICK S : jobs \in Seq(S)
      BY <2>3
    <3>3. jobs \in Seq(S \cup {r}) /\ r \in S \cup {r} /\ Len(jobs) = n
      BY <2>3, <3>2 DEF n
    <3>4. Len(Append(jobs, r)) = n + 1 /\ Append(jobs, r) \in Seq(S \cup {r})
          /\ Append(jobs, r)[n + 1] = r /\ \A j \in 1..n : Append(jobs, r)[j] = jobs[j]
      BY <3>3, <2>3
    <3>5. Append(jobs, r) = [j \in 1..(n + 1) |-> Append(jobs, r)[j]]
      <4>1. PICK q : q = Append(jobs, r)
        OBVIOUS
      <4>2. q \in Seq(S \cup {r}) /\ Len(q) = n + 1
        BY <3>4, <4>1
      <4>3. q \in [1..Len(q) -> S \cup {r}]
        BY <4>2, SeqDef
      <4>4. q = [j \in 1..Len(q) |-> q[j]]
        BY <4>3
      <4>. QED BY <4>1, <4>2, <4>4
    <3>6. \A j \in 1..(n + 1) : j # n + 1 => j \in 1..n
      BY <2>3
    <3>. QED BY <3>1, <3>4, <3>5, <3>6
  <2>5. Shape'
    BY <1>1, <2>1, <2>3, <2>4, PrintQueueAssumption DEF QueueInv, Shape
  <2>6. RowsAreTrue'
    BY <1>1, <2>2, <2>3, <2>4 DEF QueueInv, RowsAreTrue, Truthful, OnPaper
  <2>7. AgentsAreTrue'
    BY <1>1, <2>3, <2>4 DEF QueueInv, AgentsAreTrue, InHand, OnPaper
  <2>8. ASSUME NEW m \in acks PROVE AckIsTrue(m)'
    <3>1. AckIsTrue(m) /\ m.job \in 1..n
      BY DEF QueueInv, AckIsTrue
    <3>2. jobs'[m.job] = jobs[m.job] /\ m.job \in 1..Len(jobs')
      BY <2>3, <2>4, <3>1
    <3>. QED BY <1>1, <3>1, <3>2 DEF AckIsTrue, Truthful, OnPaper
  <2>9. OneEach'
    <3>1. canonical => \A j \in 1..n : ~(jobs[j].canonical /\ jobs[j].order = o)
      BY <2>1, <2>3 DEF Canonical
    <3>. QED BY <2>2, <2>3, <2>4, <3>1 DEF QueueInv, OneEach
  <2>. QED BY <1>1, <2>5, <2>6, <2>7, <2>8, <2>9 DEF QueueInv
<1>. QED BY <1>2, <1>3

-----------------------------------------------------------------------------
(* Agents                                                                     *)

\* A released job claims no more than before.
LEMMA RequeuedRow ==
    ASSUME NEW j, NEW r, Truthful(j, r)
    PROVE  Truthful(j, Requeued(r)) /\ Requeued(r).order = r.order /\ Requeued(r).canonical = r.canonical
BY DEF Truthful, Requeued, IsRow, Columns, Statuses

\* Printing, crashes and answers keep the invariant.
LEMMA AgentKeepsInv ==
    ASSUME QueueInv, NEW a \in Agents, AgentStep(a) \/ Crash(a)
    PROVE  QueueInv'
<1>. USE DEF QueueInv
<1>0. Shape /\ AgentsAreTrue /\ RowsAreTrue /\ DOMAIN jobs = 1..Len(jobs)
  BY DEF Shape
<1>1. ASSUME ReleaseStaleClaims(a) PROVE QueueInv'
  <2>f. PICK f : f = [j \in 1..Len(jobs) |-> Requeued(jobs[j])]
    OBVIOUS
  <2>1. jobs' = f /\ UNCHANGED <<acks, cuts>> /\ agent' = [agent EXCEPT ![a].step = "released"]
    BY <1>0, <1>1, <2>f DEF ReleaseStaleClaims
  <2>2. f = [j \in 1..Len(jobs) |-> f[j]]
    BY <2>f
  <2>3. \A j \in 1..Len(jobs) : Truthful(j, f[j]) /\ f[j].order = jobs[j].order /\ f[j].canonical = jobs[j].canonical
    BY <1>0, <2>f, RequeuedRow DEF RowsAreTrue
  <2>4. DOMAIN agent' = Agents /\ \A b \in Agents : DOMAIN agent'[b] = {"step", "token", "batch"} /\ agent'[b].batch = agent[b].batch
    BY <1>0, <2>1 DEF Shape
  <2>5. \A b \in Agents : \A j \in InHand(b)' : j \in 1..Len(jobs) /\ OnPaper(j, agent'[b].batch[j])
    BY <1>0, <2>4 DEF AgentsAreTrue, InHand
  <2>. QED BY <2>1, <2>2, <2>3, <2>4, <2>5, RowsChange
<1>2. ASSUME ClaimJobs(a) PROVE QueueInv'
  <2>t. PICK t : t = FreshToken
    OBVIOUS
  <2>f. PICK f : f = [j \in 1..Len(jobs) |-> IF j \in Oldest
                         THEN [jobs[j] EXCEPT !.status = "CLAIMED", !.token = t, !.stale = FALSE] ELSE jobs[j]]
    OBVIOUS
  <2>1. jobs' = f /\ UNCHANGED <<acks, cuts>> /\ agent' = [agent EXCEPT ![a].step = "claimed", ![a].token = t]
    BY <1>0, <1>2, <2>t, <2>f DEF ClaimJobs
  <2>2. f = [j \in 1..Len(jobs) |-> f[j]]
    BY <2>f
  <2>3. ASSUME NEW j \in 1..Len(jobs)
        PROVE  Truthful(j, f[j]) /\ f[j].order = jobs[j].order /\ f[j].canonical = jobs[j].canonical
    <3>1. Truthful(j, jobs[j])
      BY <1>0 DEF RowsAreTrue
    <3>2. Truthful(j, [jobs[j] EXCEPT !.status = "CLAIMED", !.token = t, !.stale = FALSE])
      BY <3>1 DEF Truthful, IsRow, Columns, Statuses
    <3>. QED BY <2>f, <3>1, <3>2 DEF Truthful, IsRow, Columns
  <2>4. DOMAIN agent' = Agents /\ \A b \in Agents : DOMAIN agent'[b] = {"step", "token", "batch"} /\ agent'[b].batch = agent[b].batch
    BY <1>0, <2>1 DEF Shape
  <2>5. \A b \in Agents : \A j \in InHand(b)' : j \in 1..Len(jobs) /\ OnPaper(j, agent'[b].batch[j])
    BY <1>0, <2>4 DEF AgentsAreTrue, InHand
  <2>. QED BY <2>1, <2>2, <2>3, <2>4, <2>5, RowsChange
<1>3. ASSUME FetchClaimed(a) PROVE QueueInv'
  <2>. DEFINE mine == ClaimedBy(agent[a].token)
  <2>1. mine \subseteq 1..Len(jobs) /\ UNCHANGED <<jobs, acks, cuts>>
    BY <1>0, <1>3 DEF ClaimedBy, FetchClaimed
  <2>2. agent' = [agent EXCEPT ![a] = [step |-> IF mine = {} THEN "idle" ELSE "working", token |-> NoToken,
                                       batch |-> [j \in mine |-> jobs[j].keys]]]
    BY <1>3 DEF FetchClaimed
  <2>. HIDE DEF mine
  <2>3. DOMAIN agent' = Agents /\ agent'[a].batch = [j \in mine |-> jobs[j].keys] /\ DOMAIN agent'[a] = {"step", "token", "batch"}
        /\ \A b \in Agents \ {a} : agent'[b] = agent[b]
    BY <1>0, <2>2 DEF Shape
  <2>4. \A j \in mine : j \in 1..Len(jobs) /\ OnPaper(j, jobs[j].keys)
    BY <1>0, <2>1 DEF RowsAreTrue, Truthful
  <2>5. AgentsAreTrue'
    <3>1. \A j \in DOMAIN agent'[a].batch : j \in 1..Len(jobs) /\ OnPaper(j, agent'[a].batch[j])
      BY <2>3, <2>4
    <3>2. \A b \in Agents \ {a} : \A j \in DOMAIN agent'[b].batch : j \in 1..Len(jobs) /\ OnPaper(j, agent'[b].batch[j])
      BY <1>0, <2>3 DEF AgentsAreTrue, InHand
    <3>3. \A b \in Agents : \A j \in DOMAIN agent'[b].batch : j \in 1..Len(jobs) /\ OnPaper(j, agent'[b].batch[j])
      BY <3>1, <3>2
    <3>. QED BY <2>1, <3>3 DEF AgentsAreTrue, InHand, OnPaper
  <2>6. /\ \A b \in Agents : DOMAIN agent'[b] = {"step", "token", "batch"}
        /\ cuts' \in [JobIds -> [Sectors -> Nat]] /\ \A j \in JobIds, s \in Sectors : cuts'[j][s] >= cuts[j][s]
    BY <1>0, <2>1, <2>3 DEF Shape
  <2>. QED BY <2>1, <2>3, <2>5, <2>6, RowsStay
<1>4. ASSUME NEW j \in JobIds, NEW s \in Sectors, Cut(a, j, s) PROVE QueueInv'
  <2>1. /\ j \in InHand(a) /\ UNCHANGED <<jobs, acks>> /\ cuts' = [cuts EXCEPT ![j][s] = @ + 1]
        /\ agent' = [agent EXCEPT ![a].batch[j] = @ \cup {s}]
    BY <1>4 DEF Cut
  <2>2. cuts' \in [JobIds -> [Sectors -> Nat]] /\ cuts'[j][s] > 0
        /\ \A i \in JobIds, x \in Sectors : cuts'[i][x] >= cuts[i][x]
    BY <1>0, <2>1 DEF Shape
  <2>3. 1..Len(jobs) \subseteq JobIds
    BY <1>0, PrintQueueAssumption DEF Shape, JobIds
  <2>4. DOMAIN agent' = Agents /\ (\A b \in Agents : DOMAIN agent'[b] = {"step", "token", "batch"})
        /\ (\A b \in Agents \ {a} : agent'[b] = agent[b]) /\ agent'[a].batch = [agent[a].batch EXCEPT ![j] = @ \cup {s}]
    BY <1>0, <2>1 DEF Shape
  <2>5. AgentsAreTrue'
    <3>1. \A i \in 1..Len(jobs) : \A keys : OnPaper(i, keys) => keys \subseteq Sectors /\ \A x \in keys : cuts'[i][x] > 0
      BY <1>0, <2>2, <2>3 DEF Shape, OnPaper
    <3>2. \A i \in InHand(a) : i \in 1..Len(jobs) /\ agent[a].batch[i] \subseteq Sectors
                               /\ \A x \in agent[a].batch[i] : cuts'[i][x] > 0
      BY <1>0, <3>1 DEF AgentsAreTrue
    <3>3. DOMAIN agent'[a].batch = InHand(a) /\ agent'[a].batch[j] = agent[a].batch[j] \cup {s}
          /\ \A i \in InHand(a) \ {j} : agent'[a].batch[i] = agent[a].batch[i]
      BY <2>1, <2>4 DEF InHand
    <3>4. \A i \in DOMAIN agent'[a].batch : i \in 1..Len(jobs) /\ agent'[a].batch[i] \subseteq Sectors
                               /\ \A x \in agent'[a].batch[i] : cuts'[i][x] > 0
      BY <2>1, <2>2, <3>2, <3>3
    <3>5. \A b \in Agents \ {a} : \A i \in DOMAIN agent'[b].batch :
              i \in 1..Len(jobs) /\ agent'[b].batch[i] \subseteq Sectors /\ \A x \in agent'[b].batch[i] : cuts'[i][x] > 0
      BY <1>0, <2>4, <3>1 DEF AgentsAreTrue, InHand
    <3>6. Len(jobs') = Len(jobs)
      BY <2>1
    <3>. QED BY <3>4, <3>5, <3>6 DEF AgentsAreTrue, InHand, OnPaper
  <2>. QED BY <2>1, <2>2, <2>4, <2>5, RowsStay
<1>5. ASSUME NEW j \in JobIds, NEW twice \in BOOLEAN, SendAck(a, j, twice) PROVE QueueInv'
  <2>k. PICK known : known = agent[a].batch[j]
    OBVIOUS
  <2>m. PICK msg : msg = [from |-> a, job |-> j, keys |-> known, copy |-> 1, entity |-> NoEntity,
                          status |-> IF known = Sectors THEN "PRINTED" ELSE "FAILED"]
    OBVIOUS
  <2>h. PICK rest : rest = InHand(a) \ {j}
    OBVIOUS
  <2>1. /\ j \in InHand(a) /\ UNCHANGED <<jobs, cuts>>
        /\ acks' \subseteq acks \cup {msg, [msg EXCEPT !.copy = 2]}
        /\ agent' = [agent EXCEPT ![a].batch = [i \in rest |-> agent[a].batch[i]],
                                  ![a].step = IF rest = {} THEN "idle" ELSE "working"]
    BY <1>5, <2>k, <2>m, <2>h DEF SendAck
  <2>2. DOMAIN agent' = Agents /\ (\A b \in Agents : DOMAIN agent'[b] = {"step", "token", "batch"})
        /\ (\A b \in Agents \ {a} : agent'[b] = agent[b]) /\ agent'[a].batch = [i \in rest |-> agent[a].batch[i]]
    BY <1>0, <2>1 DEF Shape
  <2>3. AgentsAreTrue'
    <3>1. \A i \in DOMAIN agent'[a].batch : i \in 1..Len(jobs) /\ OnPaper(i, agent'[a].batch[i])
      BY <1>0, <2>2, <2>h DEF AgentsAreTrue
    <3>2. \A b \in Agents \ {a} : \A i \in DOMAIN agent'[b].batch : i \in 1..Len(jobs) /\ OnPaper(i, agent'[b].batch[i])
      BY <1>0, <2>2 DEF AgentsAreTrue, InHand
    <3>3. \A b \in Agents : \A i \in DOMAIN agent'[b].batch : i \in 1..Len(jobs) /\ OnPaper(i, agent'[b].batch[i])
      BY <3>1, <3>2
    <3>. QED BY <2>1, <3>3 DEF AgentsAreTrue, InHand, OnPaper
  <2>4. j \in 1..Len(jobs) /\ OnPaper(j, known)
    BY <1>0, <2>1, <2>k DEF AgentsAreTrue
  <2>5. AckIsTrue(msg) /\ AckIsTrue([msg EXCEPT !.copy = 2])
    BY <2>4, <2>m DEF AckIsTrue
  <2>6. AckIsTrue(msg)' /\ AckIsTrue([msg EXCEPT !.copy = 2])'
    BY <2>1, <2>5 DEF AckIsTrue, OnPaper, Truthful
  <2>7. cuts' \in [JobIds -> [Sectors -> Nat]] /\ \A i \in JobIds, s \in Sectors : cuts'[i][s] >= cuts[i][s]
    BY <1>0, <2>1 DEF Shape
  <2>. QED BY <2>1, <2>2, <2>3, <2>6, <2>7, RowsStay
<1>6. ASSUME Crash(a) PROVE QueueInv'
  <2>1. UNCHANGED <<jobs, cuts, acks>> /\ agent' = [agent EXCEPT ![a] = [step |-> "idle", token |-> NoToken, batch |-> NoBatch]]
    BY <1>6 DEF Crash
  <2>2. DOMAIN agent' = Agents /\ (\A b \in Agents : DOMAIN agent'[b] = {"step", "token", "batch"})
        /\ (\A b \in Agents \ {a} : agent'[b] = agent[b]) /\ DOMAIN agent'[a].batch = {}
    BY <1>0, <2>1 DEF Shape, NoBatch
  <2>3. AgentsAreTrue'
    <3>1. \A b \in Agents : \A i \in DOMAIN agent'[b].batch : i \in 1..Len(jobs) /\ OnPaper(i, agent'[b].batch[i])
      BY <1>0, <2>2 DEF AgentsAreTrue, InHand
    <3>. QED BY <2>1, <3>1 DEF AgentsAreTrue, InHand, OnPaper
  <2>4. cuts' \in [JobIds -> [Sectors -> Nat]] /\ \A i \in JobIds, s \in Sectors : cuts'[i][s] >= cuts[i][s]
    BY <1>0, <2>1 DEF Shape
  <2>. QED BY <2>1, <2>2, <2>3, <2>4, RowsStay
<1>. QED BY <1>1, <1>2, <1>3, <1>4, <1>5, <1>6 DEF AgentStep

-----------------------------------------------------------------------------
(* Acknowledgements and the clock                                             *)

\* What mergePrintedKeys makes of a true row and a true message is true.
LEMMA AckedRow ==
    ASSUME NEW j, NEW r, NEW m, Truthful(j, r), OnPaper(j, m.keys),
           m.status = "PRINTED" => m.keys = Sectors
    PROVE  Truthful(j, Acked(r, m)) /\ Acked(r, m).order = r.order /\ Acked(r, m).canonical = r.canonical
<1>1. PICK merged : merged = [r EXCEPT !.keys = @ \cup m.keys, !.token = NoToken, !.stale = FALSE]
  OBVIOUS
<1>2. DOMAIN merged = Columns /\ merged.keys = r.keys \cup m.keys /\ merged.order = r.order
      /\ merged.canonical = r.canonical /\ r.canonical \in BOOLEAN /\ OnPaper(j, merged.keys)
  BY <1>1 DEF Truthful, IsRow, Columns, OnPaper
<1>3. CASE m.status = "PRINTED"
  <2>1. Acked(r, m) = [merged EXCEPT !.status = "PRINTED"]
    BY <1>1, <1>3 DEF Acked
  <2>. QED BY <1>2, <1>3, <2>1 DEF Truthful, IsRow, Columns, Statuses, OnPaper
<1>4. CASE m.status # "PRINTED"
  <2>1. PICK s \in {"PENDING", "FAILED"} : Acked(r, m) = [merged EXCEPT !.attempts = @ + 1, !.status = s]
    BY <1>1, <1>4 DEF Acked
  <2>2. PICK e : e = Acked(r, m)
    OBVIOUS
  <2>3. PICK more : e = [merged EXCEPT !.attempts = more, !.status = s]
    BY <2>1, <2>2
  <2>4. DOMAIN e = Columns /\ e.status = s /\ e.keys = merged.keys /\ e.order = merged.order /\ e.canonical = merged.canonical
    BY <1>2, <2>3 DEF Columns
  <2>. QED BY <1>2, <2>2, <2>4 DEF Truthful, IsRow, Statuses, OnPaper
<1>. QED BY <1>3, <1>4

\* An acknowledgement keeps it, however late.
LEMMA AckKeepsInv ==
    ASSUME QueueInv, NEW m \in acks, AckRead(m) \/ AckSave(m)
    PROVE  QueueInv'
<1>0. Shape /\ AgentsAreTrue /\ RowsAreTrue /\ AckIsTrue(m) /\ m.job \in 1..Len(jobs)
  BY DEF QueueInv, AckIsTrue
<1>1. UNCHANGED <<agent, cuts>>
  BY DEF AckRead, AckSave
<1>a. DOMAIN agent' = Agents /\ \A b \in Agents : DOMAIN agent'[b] = {"step", "token", "batch"}
  BY <1>0, <1>1 DEF Shape
<1>b. \A b \in Agents : \A i \in InHand(b)' : i \in 1..Len(jobs) /\ OnPaper(i, agent'[b].batch[i])
  BY <1>0, <1>1 DEF AgentsAreTrue, InHand
<1>2. CASE AckRead(m)
  <2>r. PICK r : r = jobs[m.job]
    OBVIOUS
  <2>e. PICK e : e = Acked(r, m)
    OBVIOUS
  <2>n. PICK new : new = [m EXCEPT !.entity = <<e>>]
    OBVIOUS
  <2>1. UNCHANGED jobs /\ acks' \subseteq acks \cup {new}
    BY <1>2, <2>r, <2>e, <2>n DEF AckRead
  <2>2. Truthful(m.job, e) /\ e.order = r.order /\ e.canonical = r.canonical
    BY <1>0, <2>r, <2>e, AckedRow DEF RowsAreTrue, AckIsTrue
  <2>3. AckIsTrue(new)
    <3>1. DOMAIN new = DOMAIN m /\ new.entity = <<e>> /\ new.job = m.job /\ new.keys = m.keys /\ new.status = m.status
      BY <1>0, <2>n DEF AckIsTrue
    <3>. QED BY <1>0, <2>r, <2>2, <3>1 DEF AckIsTrue
  <2>4. AckIsTrue(new)'
    BY <1>1, <2>1, <2>3 DEF AckIsTrue, OnPaper, Truthful
  <2>5. AgentsAreTrue'
    BY <1>1, <1>b, <2>1 DEF AgentsAreTrue, InHand, OnPaper
  <2>6. cuts' \in [JobIds -> [Sectors -> Nat]] /\ \A i \in JobIds, s \in Sectors : cuts'[i][s] >= cuts[i][s]
    BY <1>0, <1>1 DEF Shape
  <2>. QED BY <1>a, <2>1, <2>4, <2>5, <2>6, RowsStay
<1>3. CASE AckSave(m)
  <2>1. PICK r : /\ m.entity = <<r>> /\ Truthful(m.job, r)
                 /\ r.order = jobs[m.job].order /\ r.canonical = jobs[m.job].canonical
    BY <1>0, <1>3 DEF AckSave, AckIsTrue
  <2>2. jobs' = [jobs EXCEPT ![m.job] = r] /\ acks' \subseteq acks
    BY <1>3, <2>1 DEF AckSave
  <2>f. PICK f : f = [jobs EXCEPT ![m.job] = r]
    OBVIOUS
  <2>3. f = [j \in 1..Len(jobs) |-> f[j]]
    BY <1>0, <2>f DEF Shape
  <2>4. \A j \in 1..Len(jobs) : Truthful(j, f[j]) /\ f[j].order = jobs[j].order /\ f[j].canonical = jobs[j].canonical
    BY <1>0, <2>1, <2>f DEF RowsAreTrue, Shape
  <2>. QED BY <1>1, <1>a, <1>b, <2>2, <2>f, <2>3, <2>4, RowsChange
<1>. QED BY <1>2, <1>3

\* So does the passing of time.
LEMMA ClockKeepsInv ==
    ASSUME QueueInv, NEW i \in JobIds, ClaimExpires(i)
    PROVE  QueueInv'
<1>0. Shape /\ AgentsAreTrue /\ RowsAreTrue /\ DOMAIN jobs = 1..Len(jobs)
  BY DEF QueueInv, Shape
<1>1. jobs' = [jobs EXCEPT ![i].stale = TRUE] /\ UNCHANGED <<agent, acks, cuts>>
  BY DEF ClaimExpires
<1>f. PICK f : f = [jobs EXCEPT ![i].stale = TRUE]
  OBVIOUS
<1>2. f = [j \in 1..Len(jobs) |-> f[j]]
  BY <1>0, <1>f DEF Shape
<1>3. ASSUME NEW j \in 1..Len(jobs)
      PROVE  Truthful(j, f[j]) /\ f[j].order = jobs[j].order /\ f[j].canonical = jobs[j].canonical
  <2>1. Truthful(j, jobs[j]) /\ DOMAIN jobs[j] = Columns
    BY <1>0 DEF RowsAreTrue, Truthful, IsRow
  <2>2. f[j] = jobs[j] \/ f[j] = [jobs[j] EXCEPT !.stale = TRUE]
    BY <1>0, <1>f DEF Shape
  <2>. QED BY <2>1, <2>2 DEF Truthful, IsRow, Columns
<1>4. DOMAIN agent' = Agents /\ \A b \in Agents : DOMAIN agent'[b] = {"step", "token", "batch"}
  BY <1>0, <1>1 DEF Shape
<1>5. \A b \in Agents : \A j \in InHand(b)' : j \in 1..Len(jobs) /\ OnPaper(j, agent'[b].batch[j])
  BY <1>0, <1>1 DEF AgentsAreTrue, InHand
<1>. QED BY <1>1, <1>f, <1>2, <1>3, <1>4, <1>5, RowsChange

-----------------------------------------------------------------------------
(* The theorems                                                               *)

\* Every step keeps it.
LEMMA QueueInvNext == QueueInv /\ [QueueNext]_queueVars => QueueInv'
<1>. SUFFICES ASSUME QueueInv, [QueueNext]_queueVars PROVE QueueInv'
  OBVIOUS
<1>q. ASSUME UNCHANGED <<jobs, agent, acks, cuts>> PROVE QueueInv'
  BY <1>q, RowsStay DEF QueueInv, Shape, AgentsAreTrue, InHand, OnPaper
<1>1. CASE UNCHANGED queueVars
  BY <1>1, <1>q DEF queueVars
<1>2. ASSUME NEW c \in Clients, NEW o \in Orders, AskEnqueue(c, o) \/ AskReprint(c, o) PROVE QueueInv'
  BY <1>2, <1>q DEF AskEnqueue, AskReprint
<1>3. ASSUME NEW c \in Clients, ClientStep(c) PROVE QueueInv'
  BY <1>3, <1>q, InsertKeepsInv DEF ClientStep, LookUpSource
<1>. QED BY <1>1, <1>2, <1>3, AgentKeepsInv, ClockKeepsInv, AckKeepsInv DEF QueueNext, AckStep

\* The rows of the queue, the tickets in the agents' hands and the acknowledgements
\* still travelling or being handled never say that a sector is on paper that is not.
THEOREM QueueStaysTrue == QueueSpec => []QueueInv
BY QueueInvInit, QueueInvNext, PTL DEF QueueSpec

\* It says that the queue matches the paper.
LEMMA QueueInvMatches == QueueInv => QueueMatchesPaper
<1>. SUFFICES ASSUME QueueInv PROVE QueueMatchesPaper
  OBVIOUS
<1>1. RecordedKeysWereCut
  <2>1. DOMAIN jobs = 1..Len(jobs)
    BY DEF QueueInv, Shape
  <2>. QED BY <2>1 DEF QueueInv, RowsAreTrue, Truthful, OnPaper, RecordedKeysWereCut
<1>2. ASSUME NEW o \in Orders PROVE Cardinality(Canonical(o)) <= 1
  <2>1. \A i, j \in Canonical(o) : i = j
    BY DEF QueueInv, Shape, OneEach, Canonical
  <2>2. CASE Canonical(o) = {}
    BY <2>2, FS_EmptySet
  <2>3. CASE Canonical(o) # {}
    <3>1. PICK i : Canonical(o) = {i}
      BY <2>1, <2>3
    <3>. QED BY <3>1, FS_Singleton
  <2>. QED BY <2>2, <2>3
<1>. QED BY <1>1, <1>2 DEF QueueMatchesPaper, OneCanonicalJob

\* What payload.printedKeys and a PRINTED job claim is on paper, with slow agents,
\* crashes and late or repeated acknowledgements, and no order has two canonical
\* kitchen jobs, whoever enqueues it at the same time.
THEOREM PaperMatchesQueue == QueueSpec => []QueueMatchesPaper
BY QueueStaysTrue, QueueInvMatches, PTL

-----------------------------------------------------------------------------
(* Agents in time                                                             *)

\* The claim of j runs, and no agent is about to fetch it.
IsClaimed(j) ==
    /\ j \in DOMAIN jobs /\ jobs[j].status = "CLAIMED" /\ ~jobs[j].stale
    /\ \A b \in Agents : agent[b].token # jobs[j].token

\* A ticket in hand is in those hands only, with every sector that the queue knows cut.
HandsApart ==
    \A a \in Agents : \A j \in InHand(a) :
        /\ IsClaimed(j) /\ jobs[j].keys \subseteq agent[a].batch[j]
        /\ \A b \in Agents : b # a => j \notin InHand(b)
        /\ \A m \in acks : m.job # j

\* A job has one acknowledgement on its way, and the row to save is that of the row now.
AcksApart ==
    \A m \in acks :
        /\ IsClaimed(m.job)
        /\ \A n \in acks : n.job = m.job => n = m
        /\ m.entity # NoEntity => m.entity = <<Acked(jobs[m.job], m)>>

\* A token is one agent's between the claim and the fetch.
TokensApart ==
    /\ \A j \in DOMAIN jobs : jobs[j].token # NoToken <=> jobs[j].status = "CLAIMED"
    /\ \A a \in Agents : agent[a].step # "working" => InHand(a) = {}
    /\ \A a \in Agents : agent[a].token # NoToken =>
          /\ agent[a].step = "claimed"
          /\ \A b \in Agents : b # a => agent[b].token # agent[a].token
          /\ \A j \in DOMAIN jobs : jobs[j].token = agent[a].token => ~jobs[j].stale

\* Somebody alive knows that sector s of job j was cut.
Knows(j, s) ==
    \/ j \in DOMAIN jobs /\ s \in jobs[j].keys
    \/ \E a \in Agents : j \in InHand(a) /\ s \in agent[a].batch[j]
    \/ \E m \in acks : m.job = j /\ s \in m.keys

CutsCount ==
    \A j \in JobIds, s \in Sectors :
        \/ cuts[j][s] <= crashes
        \/ cuts[j][s] <= 1 + crashes /\ Knows(j, s)

InTime == HandsApart /\ AcksApart /\ TokensApart /\ CutsCount

Counters == overruns \in Nat /\ resends \in Nat /\ crashes \in Nat

\* What holds while agents are in time, with the rest of the invariant.
TimelyInv == QueueInv /\ Counters /\ (Calm => InTime)

\* Nothing that somebody is about to acknowledge changes.
LEMMA HeldStay ==
    ASSUME QueueInv, InTime, DOMAIN jobs \subseteq DOMAIN jobs',
           \A j \in DOMAIN jobs : IsHeld(j) => jobs'[j] = jobs[j],
           \A j \in DOMAIN jobs : /\ jobs'[j].keys = jobs[j].keys
                                  /\ jobs'[j].token # NoToken => jobs'[j].token = jobs[j].token
                                  /\ jobs'[j].token # NoToken <=> jobs'[j].status = "CLAIMED",
           \A j \in DOMAIN jobs' : j \notin DOMAIN jobs => jobs'[j].token = NoToken /\ jobs'[j].status # "CLAIMED",
           \A b \in Agents : /\ agent'[b].batch = agent[b].batch /\ agent'[b].token = agent[b].token
                             /\ agent'[b].step # "working" => agent[b].step # "working"
                             /\ agent[b].token # NoToken => agent'[b].step = agent[b].step,
           UNCHANGED <<acks, cuts, crashes>>
    PROVE  InTime'
<1>1. \A b \in Agents : InHand(b)' = InHand(b)
  BY DEF InHand
<1>2. ASSUME NEW j, IsClaimed(j), IsHeld(j) PROVE IsClaimed(j)' /\ jobs'[j] = jobs[j]
  BY <1>2 DEF IsClaimed
<1>3. HandsApart'
  BY <1>1, <1>2 DEF InTime, HandsApart, IsHeld
<1>4. AcksApart'
  <2>1. ASSUME NEW m \in acks PROVE IsClaimed(m.job)' /\ jobs'[m.job] = jobs[m.job]
    BY <1>2 DEF InTime, AcksApart, IsHeld
  <2>2. ASSUME NEW m \in acks, m.entity # NoEntity PROVE m.entity = <<Acked(jobs[m.job], m)>>'
    <3>1. m.entity = <<Acked(jobs[m.job], m)>>
      BY <2>2 DEF InTime, AcksApart
    <3>. QED BY <2>1, <3>1 DEF Acked
  <2>3. acks' = acks /\ \A m, n \in acks : n.job = m.job => n = m
    BY DEF InTime, AcksApart
  <2>. QED BY <2>1, <2>2, <2>3 DEF AcksApart
<1>5. TokensApart'
  <2>1. \A j \in DOMAIN jobs' : jobs'[j].token # NoToken <=> jobs'[j].status = "CLAIMED"
    OBVIOUS
  <2>2. \A b \in Agents : agent'[b].step # "working" => InHand(b)' = {}
    BY <1>1 DEF InTime, TokensApart
  <2>3. ASSUME NEW b \in Agents, agent[b].token # NoToken, NEW j \in DOMAIN jobs', jobs'[j].token = agent[b].token
        PROVE  ~jobs'[j].stale
    <3>1. j \in DOMAIN jobs /\ jobs[j].token = agent[b].token
      BY <2>3
    <3>2. jobs'[j] = jobs[j]
      BY <3>1 DEF IsHeld
    <3>. QED BY <2>3, <3>1, <3>2 DEF InTime, TokensApart
  <2>4. \A b \in Agents : agent[b].token # NoToken =>
            agent[b].step = "claimed" /\ \A c \in Agents : c # b => agent[c].token # agent[b].token
    BY DEF InTime, TokensApart
  <2>. QED BY <2>1, <2>2, <2>3, <2>4 DEF TokensApart
<1>6. CutsCount'
  <2>1. ASSUME NEW j, NEW s, Knows(j, s) PROVE Knows(j, s)'
    BY <1>1, <2>1 DEF Knows
  <2>. QED BY <2>1 DEF InTime, CutsCount
<1>. QED BY <1>3, <1>4, <1>5, <1>6 DEF InTime

\* Not every token is taken.
LEMMA FreshTokenExists ==
    ASSUME QueueInv PROVE FreshToken \in Tokens /\ FreshToken \notin UsedTokens
<1>. DEFINE n == Len(jobs)
            R == {jobs[j].token : j \in 1..n}
            S == {agent[b].token : b \in Agents}
<1>1. n \in Nat /\ n <= MaxJobs /\ DOMAIN jobs = 1..n /\ IsFiniteSet(Agents) /\ MaxJobs \in Nat
  BY PrintQueueAssumption DEF QueueInv, Shape
<1>2. IsFiniteSet(1..n) /\ Cardinality(1..n) = n
  <2>. HIDE DEF n
  <2>1. \A k \in Nat : IsFiniteSet(1..k) /\ Cardinality(1..k) = k
    BY FS_Interval
  <2>. QED BY <1>1, <2>1
<1>3. IsFiniteSet(R) /\ Cardinality(R) <= n
  <2>. DEFINE f == [j \in 1..n |-> jobs[j].token]
  <2>1. f \in Surjection(1..n, R)
    BY DEF Surjection
  <2>. HIDE DEF f, R, n
  <2>. QED BY <1>2, <2>1, FS_Surjection
<1>4. IsFiniteSet(S) /\ Cardinality(S) <= Cardinality(Agents)
  <2>. DEFINE f == [b \in Agents |-> agent[b].token]
  <2>1. f \in Surjection(Agents, S)
    BY DEF Surjection
  <2>. HIDE DEF f, S
  <2>. QED BY <1>1, <2>1, FS_Surjection
<1>5. UsedTokens = R \cup S
  BY <1>1 DEF UsedTokens
<1>6. Cardinality(R) \in Nat /\ Cardinality(S) \in Nat /\ Cardinality(Agents) \in Nat /\ Cardinality(R \cap S) \in Nat
  <2>. HIDE DEF R, S
  <2>1. IsFiniteSet(R \cap S)
    BY <1>3, FS_Intersection
  <2>. QED BY <1>1, <1>3, <1>4, <2>1, FS_CardinalityType
<1>7. IsFiniteSet(UsedTokens) /\ Cardinality(UsedTokens) <= MaxJobs + Cardinality(Agents)
  <2>. HIDE DEF R, S, n
  <2>1. IsFiniteSet(R \cup S) /\ Cardinality(R \cup S) = Cardinality(R) + Cardinality(S) - Cardinality(R \cap S)
    BY <1>3, <1>4, FS_Union
  <2>. QED BY <1>1, <1>3, <1>4, <1>5, <1>6, <2>1
<1>8. Cardinality(Tokens) = MaxJobs + Cardinality(Agents) + 1
  <2>1. PICK k \in Nat : k = MaxJobs + Cardinality(Agents) + 1
    BY <1>1, <1>6
  <2>2. Tokens = 1..k
    BY <2>1 DEF Tokens
  <2>3. Cardinality(1..k) = k
    BY FS_Interval
  <2>. QED BY <2>1, <2>2, <2>3
<1>9. ~(Tokens \subseteq UsedTokens)
  <2>1. ASSUME Tokens \subseteq UsedTokens PROVE FALSE
    <3>1. Cardinality(Tokens) <= Cardinality(UsedTokens)
      BY <1>7, <2>1, FS_Subset
    <3>2. Cardinality(UsedTokens) \in Nat
      BY <1>7, FS_CardinalityType
    <3>. HIDE DEF R, S, n
    <3>. QED BY <1>1, <1>6, <1>7, <1>8, <3>1, <3>2
  <2>. QED BY <2>1
<1>10. \E t \in Tokens : t \notin UsedTokens
  BY <1>9
<1>. QED BY <1>10 DEF FreshToken

\* A claim with a fresh token, of jobs that nobody holds.
LEMMA ClaimInTime ==
    ASSUME QueueInv, InTime, NEW a \in Agents, ClaimJobs(a)
    PROVE  InTime'
<1>t. PICK t : t = FreshToken
  OBVIOUS
<1>f. PICK f : f = [j \in DOMAIN jobs |-> IF j \in Oldest
                       THEN [jobs[j] EXCEPT !.status = "CLAIMED", !.token = t, !.stale = FALSE] ELSE jobs[j]]
  OBVIOUS
<1>0. Shape /\ RowsAreTrue /\ AgentsAreTrue /\ DOMAIN jobs = 1..Len(jobs)
  BY DEF QueueInv, Shape
<1>1. jobs' = f /\ UNCHANGED <<acks, cuts, crashes>> /\ agent[a].step = "released"
      /\ agent' = [agent EXCEPT ![a].step = "claimed", ![a].token = t]
  BY <1>t, <1>f DEF ClaimJobs
<1>2. t # NoToken /\ (\A j \in DOMAIN jobs : jobs[j].token # t) /\ \A b \in Agents : agent[b].token # t
  BY <1>t, FreshTokenExists DEF Tokens, NoToken, UsedTokens
<1>3. /\ DOMAIN jobs' = DOMAIN jobs
      /\ \A j \in DOMAIN jobs \ Oldest : jobs'[j] = jobs[j]
      /\ \A j \in Oldest : jobs'[j] = [jobs[j] EXCEPT !.status = "CLAIMED", !.token = t, !.stale = FALSE]
  BY <1>1, <1>f DEF Oldest, PendingJobs
<1>4. \A j \in Oldest : j \in DOMAIN jobs /\ jobs[j].status = "PENDING" /\ IsRow(jobs[j])
  BY <1>0 DEF Oldest, PendingJobs, RowsAreTrue, Truthful
<1>5. \A j \in Oldest : jobs'[j].status = "CLAIMED" /\ jobs'[j].token = t /\ ~jobs'[j].stale /\ jobs'[j].keys = jobs[j].keys
  BY <1>3, <1>4 DEF IsRow, Columns
<1>6. /\ \A b \in Agents : agent'[b].batch = agent[b].batch
      /\ \A b \in Agents \ {a} : agent'[b] = agent[b]
      /\ agent'[a].step = "claimed" /\ agent'[a].token = t
  BY <1>0, <1>1 DEF Shape
<1>7. \A b \in Agents : InHand(b)' = InHand(b)
  BY <1>6 DEF InHand
<1>8. ASSUME NEW j, IsClaimed(j) PROVE IsClaimed(j)' /\ jobs'[j] = jobs[j]
  <2>1. j \in DOMAIN jobs \ Oldest
    BY <1>4, <1>8 DEF IsClaimed
  <2>2. jobs'[j] = jobs[j]
    BY <1>3, <2>1
  <2>3. j \in DOMAIN jobs /\ jobs[j].status = "CLAIMED" /\ ~jobs[j].stale
        /\ \A b \in Agents : agent[b].token # jobs[j].token
    BY <1>8 DEF IsClaimed
  <2>4. \A b \in Agents : agent'[b].token # jobs[j].token
    BY <1>2, <1>6, <2>3
  <2>5. j \in DOMAIN jobs' /\ jobs'[j].status = "CLAIMED" /\ ~jobs'[j].stale
        /\ \A b \in Agents : agent'[b].token # jobs'[j].token
    BY <1>3, <2>2, <2>3, <2>4
  <2>. QED BY <2>2, <2>5 DEF IsClaimed
<1>9. HandsApart'
  <2>1. ASSUME NEW b \in Agents, NEW j \in InHand(b)
        PROVE  /\ IsClaimed(j)' /\ jobs'[j].keys \subseteq agent'[b].batch[j]
               /\ (\A c \in Agents : c # b => j \notin InHand(c)) /\ \A m \in acks : m.job # j
    <3>1. IsClaimed(j) /\ jobs[j].keys \subseteq agent[b].batch[j] /\ (\A c \in Agents : c # b => j \notin InHand(c))
          /\ \A m \in acks : m.job # j
      BY DEF InTime, HandsApart
    <3>. QED BY <1>6, <1>8, <3>1
  <2>2. ASSUME NEW b \in Agents, NEW j \in InHand(b)'
        PROVE  /\ IsClaimed(j)' /\ jobs'[j].keys \subseteq agent'[b].batch[j]
               /\ (\A c \in Agents : c # b => j \notin InHand(c)') /\ \A m \in acks' : m.job # j
    <3>1. j \in InHand(b) /\ acks' = acks
      BY <1>1, <1>7, <2>2
    <3>2. \A c \in Agents : c # b => j \notin InHand(c)'
      BY <1>7, <2>1, <3>1
    <3>. QED BY <2>1, <3>1, <3>2
  <2>. QED BY <2>2 DEF HandsApart
<1>10. AcksApart'
  <2>1. ASSUME NEW m \in acks PROVE IsClaimed(m.job)' /\ jobs'[m.job] = jobs[m.job]
    BY <1>8 DEF InTime, AcksApart
  <2>2. ASSUME NEW m \in acks, m.entity # NoEntity PROVE m.entity = <<Acked(jobs[m.job], m)>>'
    <3>1. m.entity = <<Acked(jobs[m.job], m)>>
      BY <2>2 DEF InTime, AcksApart
    <3>. QED BY <2>1, <3>1 DEF Acked
  <2>3. \A m, n \in acks : n.job = m.job => n = m
    BY DEF InTime, AcksApart
  <2>. QED BY <1>1, <2>1, <2>2, <2>3 DEF AcksApart
<1>11. TokensApart'
  <2>1. \A j \in DOMAIN jobs : jobs'[j].token # NoToken <=> jobs'[j].status = "CLAIMED"
    <3>1. \A j \in DOMAIN jobs : jobs[j].token # NoToken <=> jobs[j].status = "CLAIMED"
      BY DEF InTime, TokensApart
    <3>2. ASSUME NEW j \in DOMAIN jobs, j \in Oldest PROVE jobs'[j].token # NoToken /\ jobs'[j].status = "CLAIMED"
      BY <1>2, <1>5, <3>2
    <3>3. ASSUME NEW j \in DOMAIN jobs, j \notin Oldest PROVE jobs'[j] = jobs[j]
      BY <1>3, <3>3
    <3>. QED BY <3>1, <3>2, <3>3
  <2>2. \A b \in Agents : agent'[b].step # "working" => InHand(b)' = {}
    BY <1>1, <1>6, <1>7 DEF InTime, TokensApart
  <2>3. ASSUME NEW b \in Agents \ {a}, agent[b].token # NoToken
        PROVE  /\ agent[b].step = "claimed"
               /\ \A c \in Agents : c # b => agent'[c].token # agent[b].token
               /\ \A j \in DOMAIN jobs : jobs'[j].token = agent[b].token => ~jobs'[j].stale
    <3>1. \A c \in Agents : c # b => agent'[c].token # agent[b].token
      BY <1>2, <1>6, <2>3 DEF InTime, TokensApart
    <3>2. \A j \in DOMAIN jobs : jobs'[j].token = agent[b].token => ~jobs'[j].stale
      BY <1>2, <1>3, <1>5, <2>3 DEF InTime, TokensApart
    <3>. QED BY <2>3, <3>1, <3>2 DEF InTime, TokensApart
  <2>4. /\ \A c \in Agents : c # a => agent'[c].token # t
        /\ \A j \in DOMAIN jobs : jobs'[j].token = t => ~jobs'[j].stale
    <3>1. \A c \in Agents : c # a => agent'[c].token # t
      BY <1>2, <1>6
    <3>2. ASSUME NEW j \in DOMAIN jobs, jobs'[j].token = t PROVE ~jobs'[j].stale
      <4>1. j \in Oldest
        BY <1>2, <1>3, <3>2
      <4>. QED BY <1>5, <4>1
    <3>. QED BY <3>1, <3>2
  <2>5. ASSUME NEW b \in Agents, agent'[b].token # NoToken
        PROVE  /\ agent'[b].step = "claimed"
               /\ \A c \in Agents : c # b => agent'[c].token # agent'[b].token
               /\ \A j \in DOMAIN jobs' : jobs'[j].token = agent'[b].token => ~jobs'[j].stale
    <3>1. CASE b = a
      BY <1>3, <1>6, <2>4, <3>1
    <3>2. CASE b # a
      BY ZenonT(40), <1>3, <1>6, <2>3, <2>5, <3>2
    <3>. QED BY <3>1, <3>2
  <2>. QED BY <1>3, <2>1, <2>2, <2>5 DEF TokensApart
<1>12. CutsCount'
  <2>1. ASSUME NEW j, NEW s, Knows(j, s) PROVE Knows(j, s)'
    BY <1>1, <1>3, <1>5, <1>6, <1>7, <2>1 DEF Knows
  <2>. QED BY <1>1, <2>1 DEF InTime, CutsCount
<1>. QED BY <1>9, <1>10, <1>11, <1>12 DEF InTime

\* The answer puts the claimed jobs in the hands of who holds their token.
LEMMA FetchInTime ==
    ASSUME QueueInv, InTime, NEW a \in Agents, FetchClaimed(a)
    PROVE  InTime'
<1>m. PICK mine : mine = ClaimedBy(agent[a].token)
  OBVIOUS
<1>0. Shape /\ RowsAreTrue /\ AgentsAreTrue /\ DOMAIN jobs = 1..Len(jobs)
  BY DEF QueueInv, Shape
<1>1. UNCHANGED <<jobs, acks, cuts, crashes>> /\ agent[a].step = "claimed"
      /\ agent' = [agent EXCEPT ![a] = [step |-> IF mine = {} THEN "idle" ELSE "working", token |-> NoToken,
                                        batch |-> [j \in mine |-> jobs[j].keys]]]
  BY <1>m DEF FetchClaimed
<1>2. /\ \A b \in Agents \ {a} : agent'[b] = agent[b]
      /\ agent'[a] = [step |-> IF mine = {} THEN "idle" ELSE "working", token |-> NoToken,
                      batch |-> [j \in mine |-> jobs[j].keys]]
  BY <1>0, <1>1 DEF Shape
<1>3. /\ agent'[a].token = NoToken /\ InHand(a)' = mine /\ (mine # {} => agent'[a].step = "working")
      /\ \A j \in mine : agent'[a].batch[j] = jobs[j].keys
  BY <1>2 DEF InHand
<1>4. \A b \in Agents \ {a} : InHand(b)' = InHand(b) /\ agent'[b].batch = agent[b].batch
                              /\ agent'[b].token = agent[b].token /\ agent'[b].step = agent[b].step
  BY <1>2 DEF InHand
<1>5. InHand(a) = {}
  BY <1>1 DEF InTime, TokensApart
<1>6. \A j \in mine : /\ j \in DOMAIN jobs /\ jobs[j].status = "CLAIMED" /\ jobs[j].token = agent[a].token
                      /\ jobs[j].token # NoToken
  BY <1>m DEF ClaimedBy, InTime, TokensApart
<1>7. \A j : IsClaimed(j) => IsClaimed(j)' /\ j \notin mine
  <2>1. \A j : IsClaimed(j) => jobs[j].token # NoToken
    BY DEF IsClaimed, InTime, TokensApart
  <2>2. ASSUME NEW j, IsClaimed(j) PROVE j \in DOMAIN jobs /\ jobs[j].status = "CLAIMED" /\ ~jobs[j].stale
                                         /\ \A b \in Agents : agent'[b].token # jobs[j].token
    BY <1>3, <1>4, <2>1, <2>2 DEF IsClaimed
  <2>3. ASSUME NEW j, IsClaimed(j) PROVE j \notin mine
    BY <1>6, <2>3 DEF IsClaimed
  <2>. QED BY <1>1, <2>2, <2>3 DEF IsClaimed
<1>8. ASSUME NEW j \in mine PROVE IsClaimed(j)'
  <2>1. agent[a].token # NoToken /\ ~jobs[j].stale
    BY <1>6 DEF InTime, TokensApart
  <2>2. \A b \in Agents : b # a => agent[b].token # jobs[j].token
    BY <1>6, <2>1 DEF InTime, TokensApart
  <2>3. \A b \in Agents : agent'[b].token # jobs[j].token
    BY <1>3, <1>4, <1>6, <2>2
  <2>. QED BY <1>1, <1>6, <2>1, <2>3 DEF IsClaimed
<1>9. HandsApart'
  <2>1. ASSUME NEW j \in mine PROVE /\ \A b \in Agents : b # a => j \notin InHand(b)'
                                    /\ \A m \in acks : m.job # j
    BY <1>4, <1>7 DEF InTime, HandsApart, AcksApart
  <2>2. ASSUME NEW b \in Agents \ {a}, NEW j \in InHand(b)
        PROVE  /\ IsClaimed(j)' /\ jobs[j].keys \subseteq agent[b].batch[j]
               /\ (\A c \in Agents : c # b => j \notin InHand(c)') /\ \A m \in acks : m.job # j
    <3>1. IsClaimed(j) /\ jobs[j].keys \subseteq agent[b].batch[j] /\ (\A c \in Agents : c # b => j \notin InHand(c))
          /\ \A m \in acks : m.job # j
      BY DEF InTime, HandsApart
    <3>2. \A c \in Agents : c # b => j \notin InHand(c)'
      BY <1>3, <1>4, <1>7, <3>1
    <3>. QED BY <1>7, <3>1, <3>2
  <2>3. ASSUME NEW b \in Agents, NEW j \in InHand(b)'
        PROVE  /\ IsClaimed(j)' /\ jobs[j].keys \subseteq agent'[b].batch[j]
               /\ (\A c \in Agents : c # b => j \notin InHand(c)') /\ \A m \in acks : m.job # j
    <3>1. CASE b = a
      BY <1>3, <1>8, <2>1, <2>3, <3>1
    <3>2. CASE b # a
      BY <1>4, <2>2, <2>3, <3>2
    <3>. QED BY <3>1, <3>2
  <2>. QED BY <1>1, <2>3 DEF HandsApart
<1>10. AcksApart'
  BY <1>1, <1>7 DEF InTime, AcksApart, Acked
<1>11. TokensApart'
  <2>1. \A b \in Agents : agent'[b].step # "working" => InHand(b)' = {}
    BY <1>3, <1>4 DEF InTime, TokensApart
  <2>2. ASSUME NEW b \in Agents, agent'[b].token # NoToken
        PROVE  /\ agent'[b].step = "claimed"
               /\ \A c \in Agents : c # b => agent'[c].token # agent'[b].token
               /\ \A j \in DOMAIN jobs : jobs[j].token = agent'[b].token => ~jobs[j].stale
    <3>1. b # a
      BY <1>3, <2>2
    <3>2. agent'[b].token = agent[b].token /\ agent'[b].step = agent[b].step
      BY <1>4, <3>1
    <3>3. /\ agent[b].step = "claimed"
          /\ \A c \in Agents : c # b => agent[c].token # agent[b].token
          /\ \A j \in DOMAIN jobs : jobs[j].token = agent[b].token => ~jobs[j].stale
      BY <2>2, <3>2 DEF InTime, TokensApart
    <3>4. \A c \in Agents : c # b => agent'[c].token # agent[b].token
      BY <1>3, <1>4, <2>2, <3>2, <3>3
    <3>. QED BY <3>2, <3>3, <3>4
  <2>. QED BY <1>1, <2>1, <2>2 DEF TokensApart, InTime
<1>12. CutsCount'
  <2>1. ASSUME NEW j, NEW s, Knows(j, s) PROVE Knows(j, s)'
    <3>1. ASSUME NEW b \in Agents, j \in InHand(b), s \in agent[b].batch[j]
          PROVE  \E c \in Agents : j \in InHand(c)' /\ s \in agent'[c].batch[j]
      BY <1>4, <1>5, <3>1
    <3>. QED BY <1>1, <2>1, <3>1 DEF Knows
  <2>. QED BY <1>1, <2>1 DEF InTime, CutsCount
<1>. QED BY <1>9, <1>10, <1>11, <1>12 DEF InTime

\* Cutting, and an acknowledgement that is sent once.
LEMMA CutInTime ==
    ASSUME QueueInv, InTime, Counters, NEW a \in Agents, NEW j \in JobIds, NEW s \in Sectors, Cut(a, j, s)
    PROVE  InTime'
<1>0. Shape /\ AgentsAreTrue /\ DOMAIN jobs = 1..Len(jobs)
  BY DEF QueueInv, Shape
<1>1. /\ j \in InHand(a) /\ s \notin agent[a].batch[j] /\ UNCHANGED <<jobs, acks, crashes>>
      /\ cuts' = [cuts EXCEPT ![j][s] = @ + 1] /\ agent' = [agent EXCEPT ![a].batch[j] = @ \cup {s}]
  BY DEF Cut
<1>2. /\ \A b \in Agents \ {a} : agent'[b] = agent[b]
      /\ agent'[a].batch = [agent[a].batch EXCEPT ![j] = @ \cup {s}]
      /\ agent'[a].token = agent[a].token /\ agent'[a].step = agent[a].step
  BY <1>0, <1>1 DEF Shape
<1>3. \A b \in Agents : InHand(b)' = InHand(b) /\ agent'[b].token = agent[b].token /\ agent'[b].step = agent[b].step
  BY <1>2 DEF InHand
<1>4. \A b \in Agents : \A i \in InHand(b) : agent[b].batch[i] \subseteq agent'[b].batch[i]
  BY <1>2 DEF InHand
<1>5. s \in agent'[a].batch[j]
  BY <1>1, <1>2 DEF InHand
<1>6. \A i : IsClaimed(i)' <=> IsClaimed(i)
  BY <1>1, <1>3 DEF IsClaimed
<1>7. HandsApart'
  <2>1. ASSUME NEW b \in Agents, NEW i \in InHand(b)'
        PROVE  /\ IsClaimed(i)' /\ jobs'[i].keys \subseteq agent'[b].batch[i]
               /\ (\A c \in Agents : c # b => i \notin InHand(c)') /\ \A m \in acks' : m.job # i
    <3>1. IsClaimed(i) /\ jobs[i].keys \subseteq agent[b].batch[i] /\ (\A c \in Agents : c # b => i \notin InHand(c))
          /\ \A m \in acks : m.job # i
      BY <1>3, <2>1 DEF InTime, HandsApart
    <3>. QED BY <1>1, <1>3, <1>4, <1>6, <2>1, <3>1
  <2>. QED BY <2>1 DEF HandsApart
<1>8. AcksApart'
  BY <1>1, <1>6 DEF InTime, AcksApart, Acked
<1>9. TokensApart'
  BY <1>1, <1>3 DEF InTime, TokensApart
<1>10. CutsCount'
  <2>1. ASSUME NEW i, NEW x, Knows(i, x) PROVE Knows(i, x)'
    BY <1>1, <1>3, <1>4, <2>1 DEF Knows
  <2>2. ~Knows(j, s)
    BY <1>1 DEF InTime, HandsApart, Knows
  <2>3. cuts[j][s] \in Nat /\ cuts[j][s] <= crashes
    BY <2>2, <1>0 DEF InTime, CutsCount, Shape
  <2>4. cuts'[j][s] <= 1 + crashes /\ Knows(j, s)'
    BY <1>0, <1>1, <1>3, <1>5, <2>3 DEF Shape, Counters, Knows
  <2>5. ASSUME NEW i \in JobIds, NEW x \in Sectors, <<i, x>> # <<j, s>> PROVE cuts'[i][x] = cuts[i][x]
    BY <1>0, <1>1, <2>5 DEF Shape
  <2>6. ASSUME NEW i \in JobIds, NEW x \in Sectors
        PROVE  cuts'[i][x] <= crashes \/ (cuts'[i][x] <= 1 + crashes /\ Knows(i, x)')
    <3>1. CASE i = j /\ x = s
      BY <2>4, <3>1
    <3>2. CASE ~(i = j /\ x = s)
      <4>1. cuts[i][x] <= crashes \/ (cuts[i][x] <= 1 + crashes /\ Knows(i, x))
        BY DEF InTime, CutsCount
      <4>. QED BY <2>1, <2>5, <3>2, <4>1
    <3>. QED BY <3>1, <3>2
  <2>. QED BY <1>1, <2>6 DEF CutsCount
<1>. QED BY <1>7, <1>8, <1>9, <1>10 DEF InTime

LEMMA SendInTime ==
    ASSUME QueueInv, InTime, NEW a \in Agents, NEW j \in JobIds, SendAck(a, j, FALSE)
    PROVE  InTime'
<1>k. PICK known : known = agent[a].batch[j]
  OBVIOUS
<1>m. PICK msg : msg = [from |-> a, job |-> j, keys |-> known, copy |-> 1, entity |-> NoEntity,
                        status |-> IF known = Sectors THEN "PRINTED" ELSE "FAILED"]
  OBVIOUS
<1>h. PICK rest : rest = InHand(a) \ {j}
  OBVIOUS
<1>0. Shape /\ AgentsAreTrue /\ DOMAIN jobs = 1..Len(jobs)
  BY DEF QueueInv, Shape
<1>1. /\ j \in InHand(a) /\ UNCHANGED <<jobs, cuts, crashes>> /\ acks' = acks \cup {msg}
      /\ agent' = [agent EXCEPT ![a].batch = [i \in rest |-> agent[a].batch[i]],
                                ![a].step = IF rest = {} THEN "idle" ELSE "working"]
  BY <1>k, <1>m, <1>h DEF SendAck
<1>2. msg.job = j /\ msg.keys = known /\ msg.entity = NoEntity
  BY <1>m
<1>3. /\ \A b \in Agents \ {a} : agent'[b] = agent[b]
      /\ agent'[a].batch = [i \in rest |-> agent[a].batch[i]] /\ agent'[a].token = agent[a].token
      /\ agent'[a].step = IF rest = {} THEN "idle" ELSE "working"
  BY <1>0, <1>1 DEF Shape
<1>4. InHand(a)' = rest /\ \A b \in Agents \ {a} : InHand(b)' = InHand(b)
  BY <1>3 DEF InHand
<1>5. \A b \in Agents : InHand(b)' \subseteq InHand(b) /\ agent'[b].token = agent[b].token
                        /\ \A i \in InHand(b)' : agent'[b].batch[i] = agent[b].batch[i]
  BY <1>3, <1>4, <1>h
<1>6. \A i : IsClaimed(i)' <=> IsClaimed(i)
  BY <1>1, <1>5 DEF IsClaimed
<1>7. /\ IsClaimed(j) /\ \A m \in acks : m.job # j
      /\ \A b \in Agents : j \notin InHand(b)'
  BY <1>1, <1>4, <1>h DEF InTime, HandsApart
<1>8. HandsApart'
  <2>1. ASSUME NEW b \in Agents, NEW i \in InHand(b)'
        PROVE  /\ IsClaimed(i)' /\ jobs'[i].keys \subseteq agent'[b].batch[i]
               /\ (\A c \in Agents : c # b => i \notin InHand(c)') /\ \A m \in acks' : m.job # i
    <3>1. IsClaimed(i) /\ jobs[i].keys \subseteq agent[b].batch[i] /\ (\A c \in Agents : c # b => i \notin InHand(c))
          /\ \A m \in acks : m.job # i
      BY <1>5, <2>1 DEF InTime, HandsApart
    <3>2. i # j
      BY <1>7, <2>1
    <3>. QED BY <1>1, <1>2, <1>5, <1>6, <2>1, <3>1, <3>2
  <2>. QED BY <2>1 DEF HandsApart
<1>9. AcksApart'
  <2>1. ASSUME NEW m \in acks
        PROVE  /\ IsClaimed(m.job)' /\ (\A n \in acks' : n.job = m.job => n = m)
               /\ (m.entity # NoEntity => m.entity = <<Acked(jobs[m.job], m)>>)
    BY <1>1, <1>2, <1>6, <1>7 DEF InTime, AcksApart
  <2>2. IsClaimed(j)' /\ \A n \in acks' : n.job = j => n = msg
    BY <1>1, <1>6, <1>7
  <2>. QED BY <1>1, <1>2, <2>1, <2>2 DEF AcksApart, Acked
<1>10. TokensApart'
  <2>1. \A i \in DOMAIN jobs' : jobs'[i].token # NoToken <=> jobs'[i].status = "CLAIMED"
    BY <1>1 DEF InTime, TokensApart
  <2>2. \A b \in Agents : agent'[b].step # "working" => InHand(b)' = {}
    BY <1>3, <1>4 DEF InTime, TokensApart
  <2>3. agent[a].token = NoToken
    BY <1>1 DEF InTime, TokensApart
  <2>4. ASSUME NEW b \in Agents, agent'[b].token # NoToken
        PROVE  /\ agent'[b].step = "claimed"
               /\ \A c \in Agents : c # b => agent'[c].token # agent'[b].token
               /\ \A i \in DOMAIN jobs : jobs[i].token = agent'[b].token => ~jobs[i].stale
    <3>1. b # a /\ agent'[b] = agent[b]
      BY <1>3, <2>3, <2>4
    <3>2. /\ agent[b].step = "claimed"
          /\ \A c \in Agents : c # b => agent[c].token # agent[b].token
          /\ \A i \in DOMAIN jobs : jobs[i].token = agent[b].token => ~jobs[i].stale
      BY <2>4, <3>1 DEF InTime, TokensApart
    <3>. QED BY <1>5, <3>1, <3>2
  <2>. QED BY <1>1, <2>1, <2>2, <2>4 DEF TokensApart
<1>11. CutsCount'
  <2>1. ASSUME NEW i, NEW x, Knows(i, x) PROVE Knows(i, x)'
    <3>1. CASE i \in DOMAIN jobs /\ x \in jobs[i].keys
      BY <1>1, <3>1 DEF Knows
    <3>2. ASSUME NEW m \in acks, m.job = i, x \in m.keys PROVE Knows(i, x)'
      BY <1>1, <3>2 DEF Knows
    <3>3. ASSUME NEW b \in Agents, i \in InHand(b), x \in agent[b].batch[i] PROVE Knows(i, x)'
      <4>1. CASE i \in InHand(b)'
        BY <1>5, <3>3, <4>1 DEF Knows
      <4>2. CASE i \notin InHand(b)'
        <5>1. b = a /\ i = j
          BY <1>4, <1>h, <3>3, <4>2
        <5>. QED BY <1>1, <1>2, <1>k, <3>3, <5>1 DEF Knows
      <4>. QED BY <4>1, <4>2
    <3>. QED BY <2>1, <3>1, <3>2, <3>3 DEF Knows
  <2>. QED BY <1>1, <2>1 DEF InTime, CutsCount
<1>. QED BY <1>8, <1>9, <1>10, <1>11 DEF InTime

\* A crash leaves its tickets to the clock, and may repeat what it alone knew.
LEMMA CrashInTime ==
    ASSUME QueueInv, InTime, Counters, NEW a \in Agents, Crash(a)
    PROVE  InTime'
<1>0. Shape /\ DOMAIN jobs = 1..Len(jobs)
  BY DEF QueueInv, Shape
<1>1. /\ UNCHANGED <<jobs, cuts, acks>> /\ crashes' = crashes + 1
      /\ agent' = [agent EXCEPT ![a] = [step |-> "idle", token |-> NoToken, batch |-> NoBatch]]
  BY DEF Crash
<1>2. /\ \A b \in Agents \ {a} : agent'[b] = agent[b]
      /\ agent'[a].token = NoToken /\ InHand(a)' = {}
  BY <1>0, <1>1 DEF Shape, InHand, NoBatch
<1>3. \A b \in Agents \ {a} : InHand(b)' = InHand(b)
  BY <1>2 DEF InHand
<1>4. ASSUME NEW i, IsClaimed(i) PROVE IsClaimed(i)'
  <2>1. jobs[i].token # NoToken
    BY <1>4 DEF IsClaimed, InTime, TokensApart
  <2>2. \A b \in Agents : agent'[b].token # jobs[i].token
    BY <1>2, <1>4, <2>1 DEF IsClaimed
  <2>. QED BY <1>1, <1>4, <2>2 DEF IsClaimed
<1>5. HandsApart'
  <2>1. ASSUME NEW b \in Agents, NEW i \in InHand(b)'
        PROVE  /\ IsClaimed(i)' /\ jobs'[i].keys \subseteq agent'[b].batch[i]
               /\ (\A c \in Agents : c # b => i \notin InHand(c)') /\ \A m \in acks' : m.job # i
    <3>1. b # a /\ i \in InHand(b) /\ agent'[b] = agent[b]
      BY <1>2, <1>3, <2>1
    <3>2. IsClaimed(i) /\ jobs[i].keys \subseteq agent[b].batch[i] /\ (\A c \in Agents : c # b => i \notin InHand(c))
          /\ \A m \in acks : m.job # i
      BY <3>1 DEF InTime, HandsApart
    <3>. QED BY <1>1, <1>2, <1>3, <1>4, <3>1, <3>2
  <2>. QED BY <2>1 DEF HandsApart
<1>6. AcksApart'
  BY <1>1, <1>4 DEF InTime, AcksApart, Acked
<1>7. TokensApart'
  <2>1. ASSUME NEW b \in Agents, agent'[b].token # NoToken
        PROVE  /\ agent'[b].step = "claimed"
               /\ \A c \in Agents : c # b => agent'[c].token # agent'[b].token
               /\ \A i \in DOMAIN jobs : jobs[i].token = agent'[b].token => ~jobs[i].stale
    <3>1. b # a /\ agent'[b] = agent[b]
      BY <1>2, <2>1
    <3>2. /\ agent[b].step = "claimed"
          /\ \A c \in Agents : c # b => agent[c].token # agent[b].token
          /\ \A i \in DOMAIN jobs : jobs[i].token = agent[b].token => ~jobs[i].stale
      BY <2>1, <3>1 DEF InTime, TokensApart
    <3>3. \A c \in Agents : c # b => agent'[c].token # agent[b].token
      BY <1>2, <2>1, <3>1, <3>2
    <3>. QED BY <3>1, <3>2, <3>3
  <2>2. \A b \in Agents : agent'[b].step # "working" => InHand(b)' = {}
    BY <1>2, <1>3 DEF InTime, TokensApart
  <2>. QED BY <1>1, <2>1, <2>2 DEF InTime, TokensApart
<1>8. CutsCount'
  <2>1. \A i \in JobIds, x \in Sectors : cuts[i][x] \in Nat /\ cuts[i][x] <= 1 + crashes
    BY <1>0 DEF Shape, InTime, CutsCount, Counters
  <2>. QED BY <1>1, <2>1 DEF CutsCount, Counters
<1>. QED BY <1>5, <1>6, <1>7, <1>8 DEF InTime

\* An acknowledgement that is read, and one that is saved.
LEMMA AckInTime ==
    ASSUME QueueInv, InTime, NEW m \in acks, AckRead(m) \/ AckSave(m)
    PROVE  InTime'
<1>0. Shape /\ RowsAreTrue /\ AckIsTrue(m) /\ DOMAIN jobs = 1..Len(jobs)
  BY DEF QueueInv, Shape
<1>1. UNCHANGED <<agent, cuts, crashes>>
  BY DEF AckRead, AckSave
<1>2. IsClaimed(m.job) /\ (\A n \in acks : n.job = m.job => n = m)
      /\ (m.entity # NoEntity => m.entity = <<Acked(jobs[m.job], m)>>)
  BY DEF InTime, AcksApart
<1>3. \A b \in Agents : InHand(b)' = InHand(b) /\ m.job \notin InHand(b)
  BY <1>1 DEF InHand, InTime, HandsApart
<1>r. PICK row : row = jobs[m.job]
  OBVIOUS
<1>4. CASE AckRead(m)
  <2>n. PICK new : new = [m EXCEPT !.entity = <<Acked(row, m)>>]
    OBVIOUS
  <2>1. ~AckIsNoop(row, m)
    BY <1>2, <1>r DEF AckIsNoop, IsClaimed
  <2>2. UNCHANGED jobs /\ acks' = (acks \ {m}) \cup {new}
    BY <1>4, <1>r, <2>1, <2>n DEF AckRead
  <2>3. new.job = m.job /\ new.keys = m.keys /\ new.status = m.status /\ new.entity = <<Acked(row, m)>>
    BY <1>0, <2>n DEF AckIsTrue
  <2>4. Acked(row, new) = Acked(row, m)
    BY <2>3 DEF Acked
  <2>5. \A i : IsClaimed(i)' <=> IsClaimed(i)
    BY <1>1, <2>2 DEF IsClaimed
  <2>6. HandsApart'
    <3>1. ASSUME NEW b \in Agents, NEW i \in InHand(b) PROVE \A n \in acks' : n.job # i
      BY <1>3, <2>2, <2>3 DEF InTime, HandsApart
    <3>2. ASSUME NEW b \in Agents, NEW i \in InHand(b)'
          PROVE  /\ IsClaimed(i)' /\ jobs'[i].keys \subseteq agent'[b].batch[i]
                 /\ (\A c \in Agents : c # b => i \notin InHand(c)') /\ \A n \in acks' : n.job # i
      BY <1>1, <1>3, <2>2, <2>5, <3>1, <3>2 DEF InTime, HandsApart
    <3>. QED BY <3>2 DEF HandsApart
  <2>7. AcksApart'
    <3>1. ASSUME NEW k \in acks \ {m}
          PROVE  /\ IsClaimed(k.job)' /\ (\A n \in acks' : n.job = k.job => n = k)
                 /\ (k.entity # NoEntity => k.entity = <<Acked(jobs'[k.job], k)>>)
      <4>1. IsClaimed(k.job) /\ (\A n \in acks : n.job = k.job => n = k)
            /\ (k.entity # NoEntity => k.entity = <<Acked(jobs[k.job], k)>>)
        BY DEF InTime, AcksApart
      <4>2. k.job # m.job
        BY <4>1
      <4>3. jobs'[k.job] = jobs[k.job]
        BY <2>2
      <4>. QED BY <2>2, <2>3, <2>5, <4>1, <4>2, <4>3
    <3>2. /\ IsClaimed(new.job)' /\ (\A n \in acks' : n.job = new.job => n = new)
          /\ new.entity = <<Acked(jobs'[new.job], new)>>
      BY <1>2, <1>r, <2>2, <2>3, <2>4, <2>5
    <3>. QED BY <2>2, <3>1, <3>2 DEF AcksApart, Acked
  <2>8. TokensApart'
    BY <1>1, <1>3, <2>2 DEF InTime, TokensApart
  <2>9. CutsCount'
    <3>1. ASSUME NEW i, NEW x, Knows(i, x) PROVE Knows(i, x)'
      BY <1>1, <1>3, <2>2, <2>3, <3>1 DEF Knows
    <3>. QED BY <1>1, <3>1 DEF InTime, CutsCount
  <2>. QED BY <2>6, <2>7, <2>8, <2>9 DEF InTime
<1>5. CASE AckSave(m)
  <2>e. PICK e : e = Acked(row, m)
    OBVIOUS
  <2>1. m.entity = <<e>> /\ jobs' = [jobs EXCEPT ![m.job] = e] /\ acks' = acks \ {m}
    <3>1. m.entity # NoEntity /\ jobs' = [jobs EXCEPT ![m.job] = Head(m.entity)] /\ acks' = acks \ {m}
      BY <1>5 DEF AckSave
    <3>2. m.entity = <<e>>
      BY <1>2, <1>r, <2>e, <3>1
    <3>3. Head(m.entity) = e
      BY <3>2
    <3>. QED BY <3>1, <3>2, <3>3
  <2>2. m.job \in DOMAIN jobs /\ IsRow(row)
    BY <1>0, <1>r DEF AckIsTrue, RowsAreTrue, Truthful
  <2>3. DOMAIN jobs' = DOMAIN jobs /\ jobs'[m.job] = e /\ \A i \in DOMAIN jobs : i # m.job => jobs'[i] = jobs[i]
    BY <2>1, <2>2
  <2>4. e.token = NoToken /\ e.status # "CLAIMED" /\ e.keys = row.keys \cup m.keys
    <3>1. PICK merged : merged = [row EXCEPT !.keys = @ \cup m.keys, !.token = NoToken, !.stale = FALSE]
      OBVIOUS
    <3>2. DOMAIN merged = Columns /\ merged.keys = row.keys \cup m.keys /\ merged.token = NoToken
      BY <2>2, <3>1 DEF IsRow, Columns
    <3>3. CASE m.status = "PRINTED"
      <4>1. e = [merged EXCEPT !.status = "PRINTED"]
        BY <2>e, <3>1, <3>3 DEF Acked
      <4>. QED BY <3>2, <4>1 DEF Columns
    <3>4. CASE m.status # "PRINTED"
      <4>1. PICK s \in {"PENDING", "FAILED"} : e = [merged EXCEPT !.attempts = @ + 1, !.status = s]
        BY <2>e, <3>1, <3>4 DEF Acked
      <4>2. PICK more : e = [merged EXCEPT !.attempts = more, !.status = s]
        BY <4>1
      <4>. QED BY <3>2, <4>2 DEF Columns
    <3>. QED BY <3>3, <3>4
  <2>5. ASSUME NEW i, i # m.job PROVE IsClaimed(i) => IsClaimed(i)' /\ jobs'[i] = jobs[i]
    BY <1>1, <2>3, <2>5 DEF IsClaimed
  <2>6. HandsApart'
    <3>1. ASSUME NEW b \in Agents, NEW i \in InHand(b)'
          PROVE  /\ IsClaimed(i)' /\ jobs'[i].keys \subseteq agent'[b].batch[i]
                 /\ (\A c \in Agents : c # b => i \notin InHand(c)') /\ \A n \in acks' : n.job # i
      <4>1. IsClaimed(i) /\ jobs[i].keys \subseteq agent[b].batch[i] /\ (\A c \in Agents : c # b => i \notin InHand(c))
            /\ (\A n \in acks : n.job # i) /\ i # m.job
        BY <1>3, <3>1 DEF InTime, HandsApart
      <4>. QED BY <1>1, <1>3, <2>1, <2>5, <4>1
    <3>. QED BY <3>1 DEF HandsApart
  <2>7. AcksApart'
    <3>1. ASSUME NEW k \in acks \ {m}
          PROVE  /\ IsClaimed(k.job)' /\ (\A n \in acks' : n.job = k.job => n = k)
                 /\ (k.entity # NoEntity => k.entity = <<Acked(jobs'[k.job], k)>>)
      <4>1. IsClaimed(k.job) /\ (\A n \in acks : n.job = k.job => n = k)
            /\ (k.entity # NoEntity => k.entity = <<Acked(jobs[k.job], k)>>)
        BY DEF InTime, AcksApart
      <4>2. k.job # m.job
        BY <4>1
      <4>3. IsClaimed(k.job)' /\ jobs'[k.job] = jobs[k.job]
        BY <2>5, <4>1, <4>2
      <4>. QED BY <2>1, <4>1, <4>3
    <3>. QED BY <2>1, <3>1 DEF AcksApart, Acked
  <2>8. TokensApart'
    <3>1. ASSUME NEW i \in DOMAIN jobs' PROVE jobs'[i].token # NoToken <=> jobs'[i].status = "CLAIMED"
      BY <2>3, <2>4 DEF InTime, TokensApart
    <3>2. ASSUME NEW b \in Agents, agent[b].token # NoToken, NEW i \in DOMAIN jobs', jobs'[i].token = agent[b].token
          PROVE  ~jobs'[i].stale
      <4>1. i \in DOMAIN jobs /\ jobs'[i] = jobs[i]
        BY <2>3, <2>4, <3>2
      <4>. QED BY <3>2, <4>1 DEF InTime, TokensApart
    <3>. QED BY <1>1, <1>3, <3>1, <3>2 DEF InTime, TokensApart
  <2>9. CutsCount'
    <3>1. ASSUME NEW i, NEW x, Knows(i, x) PROVE Knows(i, x)'
      <4>1. CASE i = m.job
        <5>1. x \in e.keys
          BY <1>2, <1>3, <1>r, <2>4, <3>1, <4>1 DEF Knows
        <5>. QED BY <2>2, <2>3, <4>1, <5>1 DEF Knows
      <4>2. CASE i # m.job
        BY <1>1, <1>3, <2>1, <2>3, <3>1, <4>2 DEF Knows
      <4>. QED BY <4>1, <4>2
    <3>. QED BY <1>1, <3>1 DEF InTime, CutsCount
  <2>. QED BY <2>6, <2>7, <2>8, <2>9 DEF InTime
<1>. QED BY <1>4, <1>5

\* What releases, requests and the clock do is to jobs that nobody holds.
LEMMA OthersInTime ==
    ASSUME QueueInv, InTime,
           \/ \E a \in Agents : ReleaseStaleClaims(a)
           \/ \E c \in Clients : InsertJob(c)
           \/ \E i \in JobIds : ClaimExpires(i) /\ ~IsHeld(i)
           \/ UNCHANGED <<jobs, agent, acks, cuts, crashes>>
    PROVE  InTime'
<1>0. Shape /\ RowsAreTrue /\ DOMAIN jobs = 1..Len(jobs) /\ TokensApart
  BY DEF QueueInv, Shape, InTime
<1>1. \A j \in DOMAIN jobs : IsRow(jobs[j]) /\ (jobs[j].token # NoToken <=> jobs[j].status = "CLAIMED")
  BY <1>0 DEF RowsAreTrue, Truthful, TokensApart
<1>2. ASSUME NEW a \in Agents, ReleaseStaleClaims(a) PROVE InTime'
  <2>f. PICK f : f = [j \in DOMAIN jobs |-> Requeued(jobs[j])]
    OBVIOUS
  <2>1. jobs' = f /\ UNCHANGED <<acks, cuts, crashes>> /\ agent' = [agent EXCEPT ![a].step = "released"]
        /\ agent[a].step = "idle"
    BY <1>2, <2>f DEF ReleaseStaleClaims
  <2>2. \A b \in Agents : /\ agent'[b].batch = agent[b].batch /\ agent'[b].token = agent[b].token
                          /\ agent'[b].step # "working" => agent[b].step # "working"
                          /\ agent[b].token # NoToken => agent'[b].step = agent[b].step
    <3>1. agent[a].token = NoToken
      BY <1>0, <2>1 DEF TokensApart
    <3>. QED BY <1>0, <2>1, <3>1 DEF Shape
  <2>3. DOMAIN jobs' = DOMAIN jobs /\ \A j \in DOMAIN jobs : jobs'[j] = Requeued(jobs[j])
    BY <2>1, <2>f
  <2>4. ASSUME NEW j \in DOMAIN jobs, IsHeld(j) PROVE jobs'[j] = jobs[j]
    <3>1. ~(jobs[j].status = "CLAIMED" /\ jobs[j].stale)
      BY <1>0, <1>1, <2>4 DEF IsHeld, InTime, HandsApart, AcksApart, TokensApart, IsClaimed
    <3>. QED BY <2>3, <3>1 DEF Requeued
  <2>5. ASSUME NEW j \in DOMAIN jobs
        PROVE  /\ jobs'[j].keys = jobs[j].keys
               /\ jobs'[j].token # NoToken => jobs'[j].token = jobs[j].token
               /\ jobs'[j].token # NoToken <=> jobs'[j].status = "CLAIMED"
    <3>1. CASE jobs'[j] = jobs[j]
      BY <1>1, <3>1
    <3>2. CASE jobs'[j] = [jobs[j] EXCEPT !.status = "PENDING", !.token = NoToken, !.stale = FALSE]
      BY <1>1, <3>2 DEF IsRow, Columns
    <3>. QED BY <2>3, <3>1, <3>2 DEF Requeued
  <2>. QED BY <2>1, <2>2, <2>3, <2>4, <2>5, HeldStay
<1>3. ASSUME NEW c \in Clients, InsertJob(c) PROVE InTime'
  <2>1. UNCHANGED <<agent, acks, cuts, crashes>>
    BY <1>3 DEF InsertJob
  <2>2. CASE UNCHANGED jobs
    BY <1>1, <2>1, <2>2, HeldStay
  <2>3. CASE ~UNCHANGED jobs
    <3>. DEFINE row == NewJob(client[c].order, ~(client[c].step = "insertNew"))
    <3>1. jobs' = Append(jobs, row)
      BY <1>3, <2>3 DEF InsertJob
    <3>2. row.token = NoToken /\ row.status # "CLAIMED"
      BY DEF NewJob
    <3>. HIDE DEF row
    <3>. DEFINE size == Len(jobs)
    <3>4. size \in Nat /\ jobs \in Seq({jobs[j] : j \in 1..size})
      BY PrintQueueAssumption DEF QueueInv, Shape
    <3>5. PICK S : jobs \in Seq(S)
      BY <3>4
    <3>3. PICK n \in Nat : n = Len(jobs)
      BY <3>4
    <3>6. /\ Len(Append(jobs, row)) = n + 1 /\ Append(jobs, row) \in Seq(S \cup {row})
          /\ Append(jobs, row)[n + 1] = row /\ \A j \in 1..n : Append(jobs, row)[j] = jobs[j]
      BY <3>3, <3>5
    <3>7. DOMAIN jobs' = 1..(n + 1) /\ jobs'[n + 1] = row /\ \A j \in DOMAIN jobs : jobs'[j] = jobs[j]
      <4>1. PICK q : q = Append(jobs, row)
        OBVIOUS
      <4>2. q \in Seq(S \cup {row}) /\ Len(q) = n + 1
        BY <3>6, <4>1
      <4>3. DOMAIN q = 1..(n + 1)
        BY <4>2
      <4>. QED BY <1>0, <3>1, <3>3, <3>6, <4>1, <4>3
    <3>8. \A j \in DOMAIN jobs' : j \notin DOMAIN jobs => jobs'[j] = row
      BY <1>0, <3>3, <3>7
    <3>. QED BY <1>0, <1>1, <2>1, <3>2, <3>3, <3>7, <3>8, HeldStay
  <2>. QED BY <2>2, <2>3
<1>4. ASSUME NEW i \in JobIds, ClaimExpires(i), ~IsHeld(i) PROVE InTime'
  <2>1. /\ i \in DOMAIN jobs /\ jobs' = [jobs EXCEPT ![i].stale = TRUE]
        /\ UNCHANGED <<agent, acks, cuts, crashes>>
    BY <1>4 DEF ClaimExpires
  <2>2. DOMAIN jobs' = DOMAIN jobs /\ (\A j \in DOMAIN jobs : j # i => jobs'[j] = jobs[j])
        /\ jobs'[i] = [jobs[i] EXCEPT !.stale = TRUE]
    BY <2>1
  <2>3. jobs'[i].keys = jobs[i].keys /\ jobs'[i].token = jobs[i].token /\ jobs'[i].status = jobs[i].status
    BY <1>1, <2>1, <2>2 DEF IsRow, Columns
  <2>. QED BY <1>1, <1>4, <2>1, <2>2, <2>3, HeldStay
<1>5. CASE UNCHANGED <<jobs, agent, acks, cuts, crashes>>
  BY <1>1, <1>5, HeldStay
<1>. QED BY <1>2, <1>3, <1>4, <1>5

-----------------------------------------------------------------------------

\* A step that leaves the system in time found it in time, and sent no ticket twice.
LEMMA StepInTime ==
    ASSUME QueueInv, InTime, Counters, Calm, [QueueNext]_queueVars, Calm'
    PROVE  InTime'
<1>1. CASE UNCHANGED queueVars
  BY <1>1, OthersInTime DEF queueVars
<1>2. ASSUME NEW c \in Clients, NEW o \in Orders, AskEnqueue(c, o) \/ AskReprint(c, o) PROVE InTime'
  BY <1>2, OthersInTime DEF AskEnqueue, AskReprint
<1>3. ASSUME NEW c \in Clients, ClientStep(c) PROVE InTime'
  BY <1>3, OthersInTime DEF ClientStep, LookUpSource
<1>4. ASSUME NEW a \in Agents, AgentStep(a) PROVE InTime'
  <2>1. ASSUME NEW j \in JobIds, NEW twice \in BOOLEAN, SendAck(a, j, twice) PROVE InTime'
    <3>1. twice = FALSE
      <4>1. twice => resends' = resends + 1
        BY <2>1 DEF SendAck
      <4>. QED BY <4>1 DEF Calm
    <3>. QED BY <2>1, <3>1, SendInTime
  <2>. QED BY <1>4, <2>1, OthersInTime, ClaimInTime, FetchInTime, CutInTime DEF AgentStep
<1>5. ASSUME NEW a \in Agents, Crash(a) PROVE InTime'
  BY <1>5, CrashInTime
<1>6. ASSUME NEW i \in JobIds, ClaimExpires(i) PROVE InTime'
  <2>1. ~IsHeld(i)
    <3>1. IsHeld(i) => overruns' = overruns + 1
      BY <1>6 DEF ClaimExpires
    <3>. QED BY <3>1 DEF Calm
  <2>. QED BY <1>6, <2>1, OthersInTime
<1>7. ASSUME AckStep PROVE InTime'
  BY <1>7, AckInTime DEF AckStep
<1>. QED BY <1>1, <1>2, <1>3, <1>4, <1>5, <1>6, <1>7 DEF QueueNext

\* Overruns and resends are counted and never forgotten.
LEMMA CountersGrow ==
    ASSUME Counters, [QueueNext]_queueVars
    PROVE  Counters' /\ (Calm' => Calm)
<1>1. /\ overruns' \in {overruns, overruns + 1} /\ resends' \in {resends, resends + 1}
      /\ crashes' \in {crashes, crashes + 1}
  <2>1. CASE UNCHANGED <<overruns, resends, crashes>>
    BY <2>1
  <2>2. ASSUME NEW a \in Agents, NEW j \in JobIds, NEW twice \in BOOLEAN, SendAck(a, j, twice)
        PROVE  resends' \in {resends, resends + 1} /\ UNCHANGED <<overruns, crashes>>
    BY <2>2 DEF SendAck
  <2>3. ASSUME NEW a \in Agents, Crash(a) PROVE crashes' = crashes + 1 /\ UNCHANGED <<overruns, resends>>
    BY <2>3 DEF Crash
  <2>4. ASSUME NEW i \in JobIds, ClaimExpires(i)
        PROVE  overruns' \in {overruns, overruns + 1} /\ UNCHANGED <<resends, crashes>>
    BY <2>4 DEF ClaimExpires
  <2>5. ASSUME NEW a \in Agents, AgentStep(a) 
        PROVE  overruns' = overruns /\ resends' \in {resends, resends + 1} /\ crashes' = crashes
    BY <2>2, <2>5 DEF AgentStep, ReleaseStaleClaims, ClaimJobs, FetchClaimed, Cut
  <2>6. ASSUME AckStep PROVE UNCHANGED <<overruns, resends, crashes>>
    BY <2>6 DEF AckStep, AckRead, AckSave
  <2>. QED BY <2>1, <2>3, <2>4, <2>5, <2>6
           DEF QueueNext, queueVars, AskEnqueue, AskReprint, ClientStep, LookUpSource, InsertJob
<1>. QED BY <1>1 DEF Counters, Calm

LEMMA TimelyNext == TimelyInv /\ [QueueNext]_queueVars => TimelyInv'
<1>. SUFFICES ASSUME TimelyInv, [QueueNext]_queueVars PROVE TimelyInv'
  OBVIOUS
<1>1. QueueInv' /\ Counters' /\ (Calm' => Calm)
  BY QueueInvNext, CountersGrow DEF TimelyInv
<1>2. Calm' => InTime'
  BY <1>1, StepInTime DEF TimelyInv
<1>. QED BY <1>1, <1>2 DEF TimelyInv

LEMMA TimelyInit == QueueInit => TimelyInv
<1>. SUFFICES ASSUME QueueInit PROVE TimelyInv
  OBVIOUS
<1>1. QueueInv /\ Counters /\ DOMAIN jobs = {} /\ \A b \in Agents : InHand(b) = {} /\ agent[b].token = NoToken
  BY QueueInvInit DEF QueueInit, Counters, InHand, NoBatch
<1>2. InTime
  BY <1>1 DEF QueueInit, InTime, HandsApart, AcksApart, TokensApart, CutsCount
<1>. QED BY <1>1, <1>2 DEF TimelyInv

\* As long as agents answer in time and acknowledge once, no ticket is in two pairs of
\* hands, and a sector's ticket comes out once, and once more per crash, whatever fails
\* and is tried again.
THEOREM TicketsComeOutOnce == QueueSpec => []TicketsOnce
<1>1. TimelyInv => TicketsOnce
  <2>. SUFFICES ASSUME TimelyInv, Calm PROVE OneAgentPerJob /\ NoRepeatedTicket
    BY DEF TicketsOnce
  <2>1. OneAgentPerJob
    BY DEF TimelyInv, InTime, HandsApart, OneAgentPerJob
  <2>2. NoRepeatedTicket
    BY DEF TimelyInv, InTime, CutsCount, NoRepeatedTicket, Counters, QueueInv, Shape
  <2>. QED BY <2>1, <2>2
<1>. QED BY <1>1, TimelyInit, TimelyNext, PTL DEF QueueSpec

\* No job that was printed or given up is opened again: releases take claims that expired,
\* claims take pending jobs, and whoever acknowledges has the only claim.
THEOREM OutcomesStand == QueueSpec => OutcomeIsFinal
<1>1. TimelyInv /\ [QueueNext]_queueVars => [KeepsOutcomes]_queueVars
  <2>. SUFFICES ASSUME TimelyInv, QueueNext, Calm', NEW j \in DOMAIN jobs, jobs[j].status \in {"PRINTED", "FAILED"}
                PROVE  jobs'[j].status = jobs[j].status
    BY DEF KeepsOutcomes
  <2>0. Counters /\ InTime /\ QueueInv /\ jobs[j].status # "CLAIMED" /\ jobs[j].status # "PENDING"
    BY CountersGrow DEF TimelyInv
  <2>1. CASE UNCHANGED jobs
    BY <2>1
  <2>2. ASSUME NEW a \in Agents, ReleaseStaleClaims(a) PROVE jobs'[j] = jobs[j]
    BY <2>0, <2>2 DEF ReleaseStaleClaims, Requeued
  <2>3. ASSUME NEW a \in Agents, ClaimJobs(a) PROVE jobs'[j] = jobs[j]
    BY <2>0, <2>3 DEF ClaimJobs, Oldest, PendingJobs
  <2>4. ASSUME NEW i \in JobIds, ClaimExpires(i) PROVE jobs'[j] = jobs[j]
    BY <2>0, <2>4 DEF ClaimExpires
  <2>5. ASSUME NEW m \in acks, AckSave(m) PROVE jobs'[j] = jobs[j]
    <3>1. m.job # j
      BY <2>0 DEF InTime, AcksApart, IsClaimed
    <3>. QED BY <2>5, <3>1 DEF AckSave
  <2>6. ASSUME NEW c \in Clients, InsertJob(c) PROVE jobs'[j] = jobs[j]
    <3>1. PICK row : jobs' = jobs \/ jobs' = Append(jobs, row)
      BY <2>6 DEF InsertJob
    <3>2. PICK n \in Nat : n = Len(jobs) /\ DOMAIN jobs = 1..n
      BY <2>0, PrintQueueAssumption DEF QueueInv, Shape
    <3>3. jobs \in Seq({jobs[i] : i \in 1..n})
      BY <2>0, <3>2 DEF QueueInv, Shape
    <3>4. Append(jobs, row)[j] = jobs[j]
      BY <3>2, <3>3
    <3>. QED BY <3>1, <3>4
  <2>. QED BY ZenonT(40), <2>1, <2>2, <2>3, <2>4, <2>5, <2>6
           DEF QueueNext, AskEnqueue, AskReprint, ClientStep, LookUpSource, AgentStep, FetchClaimed, Cut, SendAck,
               Crash, AckStep, AckRead
<1>. QED BY <1>1, TimelyInit, TimelyNext, PTL DEF QueueSpec, OutcomeIsFinal
=============================================================================
