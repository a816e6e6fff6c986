----------------------- MODULE CheckpointWorkerProofs -----------------------
(***************************************************************************)
(* Theorems about CheckpointWorker, for every finite set of agents, with   *)
(* jobs that raise.  The argument is about one set: the agents a job of    *)
(* whose is queued or running.  Each of them waits in drain, the count     *)
(* that drain waits on is the size of the set, and an agent outside of it  *)
(* has all its checkpoints, but for the one whose job ended the thread.    *)
(* For close(), it is about the place of the sentinel: what is due is      *)
(* written, running, or ahead of it.                                       *)
(***************************************************************************)
EXTENDS CheckpointWorker, FiniteSetTheorems, TLAPS

Items == {queue[i] : i \in 1..Len(queue)}

\* Agents with a job in the queue or in the thread.
Jobs == (Items \cup {job}) \ {Sentinel}

Positions == {i \in 1..Len(queue) : queue[i] # Sentinel}

Domains ==
    /\ queue \in Seq(Agents \cup {Sentinel})
    /\ unfinished \in Nat
    /\ worker \in {"get", "run", "left", "dead"} /\ job \in Agents \cup {Sentinel}
    /\ agent \in [Agents -> {"working", "draining", "finishing", "finished"}]
    /\ asked \in [Agents -> 0..MaxJobs] /\ written \in [Agents -> 0..MaxJobs]
    /\ runtime \in {"open", "stopping", "closed"} /\ due \in [Agents -> 0..MaxJobs]

\* Every item is on the queue once, and a job that runs is off it.
ItemsDistinct ==
    /\ \A i, j \in 1..Len(queue) : queue[i] = queue[j] => i = j
    /\ worker = "run" <=> job # Sentinel
    /\ job # Sentinel => job \notin Items

\* An agent with a job waits for it.
JobsDrained == \A a \in Jobs : agent[a] = "draining"

\* The sentinel is counted and never taken off the count.
UnfinishedIsJobs == unfinished = Cardinality(Jobs) + Bit(runtime # "open")

\* The sentinel is on the queue from stop() on until the thread leaves at it.
SentinelQueued ==
    /\ runtime = "open" => Sentinel \notin Items /\ worker # "left"
    /\ runtime # "open" /\ worker \in {"get", "run"} => Sentinel \in Items

\* Ahead of the place i of the queue, or in the thread, is a job of the agent.
Ahead(a, i) == a = job \/ \E j \in 1..Len(queue) : j < i /\ queue[j] = a

\* What was asked for before stop() is written, running, or ahead of the
\* sentinel, as long as no job raises.
DueAhead ==
    /\ worker \in {"get", "run"} =>
         \A i \in 1..Len(queue) : queue[i] = Sentinel =>
             \A a \in Agents : due[a] <= written[a] + Bit(Ahead(a, i))
    /\ StopWaitsForJobs

\* Of what an agent asked for, all is written but the job it has and the one
\* job that ended the thread, if one did.
Missing(lost) ==
    \A a \in Agents : asked[a] = written[a] + Bit(a \in Jobs) + Bit(a = lost)
LostAtMostOne ==
    \E lost \in Agents \cup {Sentinel} :
        Missing(lost) /\ (worker # "dead" => lost = Sentinel)

IInv == Domains /\ ItemsDistinct /\ JobsDrained /\ UnfinishedIsJobs
        /\ SentinelQueued /\ DueAhead /\ LostAtMostOne

-----------------------------------------------------------------------------
(* Sets of the queue.                                                      *)

LEMMA JobsType ==
    ASSUME Domains
    PROVE  /\ Items \subseteq Agents \cup {Sentinel} /\ Jobs \subseteq Agents
           /\ IsFiniteSet(Jobs) /\ Cardinality(Jobs) \in Nat
<1>1. Items \subseteq Agents \cup {Sentinel}
    BY DEF Domains, Items
<1>2. Jobs \subseteq Agents
    BY <1>1 DEF Domains, Jobs
<1> QED
    BY <1>1, <1>2, WorkerAssumption, FS_Subset, FS_CardinalityType

LEMMA PutItem ==
    ASSUME Domains, ItemsDistinct, NEW x \in Agents \cup {Sentinel}, x \notin Items, Put(x)
    PROVE  /\ queue' \in Seq(Agents \cup {Sentinel})
           /\ Items' = Items \cup {x}
           /\ \A i, j \in 1..Len(queue') : queue'[i] = queue'[j] => i = j
<1>1. /\ queue \in Seq(Agents \cup {Sentinel}) /\ Len(queue) \in Nat
      /\ queue' = Append(queue, x)
    BY DEF Domains, Put
<1>2. /\ queue' \in Seq(Agents \cup {Sentinel}) /\ Len(queue') = Len(queue) + 1
      /\ queue'[Len(queue) + 1] = x
      /\ \A i \in 1..Len(queue) : queue'[i] = queue[i]
    BY <1>1
<1>3. Items' = Items \cup {x}
    BY <1>1, <1>2 DEF Items
<1>4. \A i \in 1..Len(queue) : queue[i] # x
    BY DEF Items
<1> QED
    BY <1>1, <1>2, <1>3, <1>4 DEF ItemsDistinct

LEMMA GetItem ==
    ASSUME Domains, ItemsDistinct, queue # <<>>, queue' = Tail(queue)
    PROVE  /\ queue' \in Seq(Agents \cup {Sentinel})
           /\ Head(queue) \in Items
           /\ Items' = Items \ {Head(queue)}
           /\ \A i, j \in 1..Len(queue') : queue'[i] = queue'[j] => i = j
<1>1. /\ queue \in Seq(Agents \cup {Sentinel}) /\ Len(queue) \in Nat /\ Len(queue) # 0
      /\ Head(queue) = queue[1]
    BY DEF Domains
<1>2. /\ queue' \in Seq(Agents \cup {Sentinel}) /\ Len(queue') = Len(queue) - 1
      /\ \A i \in 1..Len(queue') : queue'[i] = queue[i + 1]
    BY <1>1
<1>3. Head(queue) \in Items
    BY <1>1 DEF Items
<1>4. Items' \subseteq Items \ {Head(queue)}
    <2> SUFFICES ASSUME NEW i \in 1..Len(queue')
                 PROVE  queue'[i] \in Items \ {Head(queue)}
        BY DEF Items
    <2>1. i + 1 \in 1..Len(queue) /\ 1 \in 1..Len(queue) /\ i + 1 # 1
        BY <1>1, <1>2
    <2> QED
        BY <1>1, <1>2, <2>1 DEF Items, ItemsDistinct
<1>5. Items \ {Head(queue)} \subseteq Items'
    <2> SUFFICES ASSUME NEW i \in 1..Len(queue), queue[i] # queue[1]
                 PROVE  queue[i] \in Items'
        BY <1>1 DEF Items
    <2>1. i - 1 \in 1..Len(queue') /\ (i - 1) + 1 = i
        BY <1>1, <1>2
    <2> QED
        BY <1>2, <2>1 DEF Items
<1>6. ASSUME NEW i \in 1..Len(queue'), NEW j \in 1..Len(queue'), queue'[i] = queue'[j]
      PROVE  i = j
    <2>1. i + 1 \in 1..Len(queue) /\ j + 1 \in 1..Len(queue)
        BY <1>1, <1>2
    <2> QED
        BY <1>2, <1>6, <2>1 DEF ItemsDistinct
<1> QED
    BY <1>2, <1>3, <1>4, <1>5, <1>6

\* As many jobs as positions of the queue that hold one, and the one that runs.
LEMMA QueuedJobs ==
    ASSUME Domains, ItemsDistinct
    PROVE  Queued + Bit(worker = "run") = Cardinality(Jobs)
<1> DEFINE InQueue == Items \ {Sentinel}
           at == [i \in Positions |-> queue[i]]
<1>0. Len(queue) \in Nat
    BY DEF Domains
<1>1. IsFiniteSet(Positions)
    <2>1. IsFiniteSet(1..Len(queue))
        BY <1>0, FS_Interval
    <2>2. Positions \subseteq 1..Len(queue)
        BY DEF Positions
    <2> QED
        BY <2>1, <2>2, FS_Subset
<1>2. at \in Bijection(Positions, InQueue)
    <2>1. at \in [Positions -> InQueue]
        BY DEF Positions, Items
    <2>2. \A i, j \in Positions : at[i] = at[j] => i = j
        BY DEF Positions, ItemsDistinct
    <2>3. \A x \in InQueue : \E i \in Positions : at[i] = x
        BY DEF Positions, Items
    <2> QED
        BY <2>1, <2>2, <2>3 DEF Bijection, Injection, IsInjective, Surjection
<1>3. IsFiniteSet(InQueue) /\ Cardinality(InQueue) = Queued
    <2>1. ExistsBijection(Positions, InQueue)
        BY <1>2 DEF ExistsBijection
    <2>2. Queued = Cardinality(Positions)
        BY DEF Queued, Positions
    <2> QED
        BY <1>1, <2>1, <2>2, FS_Bijection
<1>4. Cardinality(InQueue) \in Nat
    BY <1>3, FS_CardinalityType
<1>5. CASE worker = "run"
    <2>1. job \notin InQueue /\ Jobs = InQueue \cup {job}
        BY <1>5 DEF ItemsDistinct, Jobs
    <2>2. Cardinality(Jobs) = Cardinality(InQueue) + 1
        BY <1>3, <2>1, FS_AddElement
    <2> QED
        BY <1>3, <1>4, <1>5, <2>2 DEF Bit
<1>6. CASE worker # "run"
    <2>1. Jobs = InQueue
        BY <1>6 DEF ItemsDistinct, Jobs
    <2> QED
        BY <1>3, <1>4, <1>6, <2>1 DEF Bit
<1> QED
    BY <1>5, <1>6

-----------------------------------------------------------------------------
(* The invariant.                                                          *)

LEMMA InitIInv == Init => IInv
<1> SUFFICES ASSUME Init PROVE IInv
    OBVIOUS
<1>1. Items = {} /\ Jobs = {} /\ Len(queue) = 0
    BY DEF Init, Items, Jobs
<1>2. Domains
    BY WorkerAssumption DEF Init, Domains
<1>3. UnfinishedIsJobs
    BY <1>1, FS_EmptySet DEF Init, UnfinishedIsJobs, Bit
<1>4. LostAtMostOne
    BY <1>1, WorkerAssumption DEF Init, LostAtMostOne, Missing, Bit, Sentinel
<1>5. SentinelQueued /\ DueAhead
    BY <1>1 DEF Init, SentinelQueued, DueAhead, StopWaitsForJobs
<1> QED
    BY <1>1, <1>2, <1>3, <1>4, <1>5 DEF Init, IInv, ItemsDistinct, JobsDrained

\* An item that joins the queue leaves what is ahead of the others.
LEMMA PutDue ==
    ASSUME IInv, NEW x \in Agents, Put(x), UNCHANGED <<worker, job, written, due>>
    PROVE  DueAhead'
<1>1. /\ queue \in Seq(Agents \cup {Sentinel}) /\ Len(queue) \in Nat
      /\ queue' = Append(queue, x) /\ x # Sentinel
    BY WorkerAssumption DEF IInv, Domains, Put, Sentinel
<1>2. /\ Len(queue') = Len(queue) + 1 /\ queue'[Len(queue) + 1] = x
      /\ \A i \in 1..Len(queue) : queue'[i] = queue[i]
    BY <1>1
<1>3. StopWaitsForJobs'
    BY DEF IInv, DueAhead, StopWaitsForJobs
<1>4. ASSUME worker \in {"get", "run"}, NEW i \in 1..Len(queue'), queue'[i] = Sentinel, NEW a \in Agents
      PROVE  due[a] <= written[a] + Bit(a = job \/ \E j \in 1..Len(queue') : j < i /\ queue'[j] = a)
    <2>1. i \in 1..Len(queue) /\ queue[i] = Sentinel
        BY <1>1, <1>2, <1>4
    <2>2. due[a] <= written[a] + Bit(Ahead(a, i))
        BY <1>4, <2>1 DEF IInv, DueAhead
    <2>3. Ahead(a, i) => a = job \/ \E j \in 1..Len(queue') : j < i /\ queue'[j] = a
        BY <1>1, <1>2 DEF Ahead
    <2> QED
        BY <2>2, <2>3 DEF Bit, IInv, Domains
<1> QED
    BY <1>3, <1>4 DEF DueAhead, Ahead

\* Enqueue gives the agent a job.
LEMMA EnqueueIInv ==
    ASSUME IInv, NEW a \in Agents, Enqueue(a)
    PROVE  IInv'
<1> USE WorkerAssumption
    DEF IInv, threads, counts, facade
<1>0. /\ Domains /\ a # Sentinel /\ asked[a] \in 0..MaxJobs /\ asked[a] < MaxJobs
      /\ asked' = [asked EXCEPT ![a] = @ + 1]
      /\ agent[a] = "working" /\ agent' = [agent EXCEPT ![a] = "draining"]
      /\ UNCHANGED <<worker, job, written, runtime, due>>
      /\ Put(a) /\ unfinished' = unfinished + 1
    BY DEF Enqueue, AgentGoes, Put, Domains, Sentinel
<1>1. a \notin Jobs /\ a \notin Items /\ a # job
    BY <1>0 DEF JobsDrained, Jobs
<1>2. /\ queue' \in Seq(Agents \cup {Sentinel}) /\ Items' = Items \cup {a}
      /\ \A i, j \in 1..Len(queue') : queue'[i] = queue'[j] => i = j
    BY <1>0, <1>1, PutItem
<1>3. Jobs' = Jobs \cup {a}
    BY <1>0, <1>2 DEF Jobs
<1>4. Domains'
    BY <1>0, <1>2 DEF Domains
<1>5. ItemsDistinct'
    BY <1>0, <1>1, <1>2 DEF ItemsDistinct
<1>6. JobsDrained'
    BY <1>0, <1>3, JobsType DEF JobsDrained, Domains
<1>7. UnfinishedIsJobs'
    <2>1. Cardinality(Jobs') = Cardinality(Jobs) + 1
        BY <1>1, <1>3, JobsType, FS_AddElement
    <2> QED
        BY <1>0, <2>1, JobsType DEF UnfinishedIsJobs, Bit
<1>8. SentinelQueued' /\ DueAhead'
    BY <1>0, <1>2, PutDue DEF SentinelQueued
<1>9. LostAtMostOne'
    <2>1. PICK lost \in Agents \cup {Sentinel} :
            Missing(lost) /\ (worker # "dead" => lost = Sentinel)
        BY DEF LostAtMostOne
    <2>2. Missing(lost)'
        BY <1>0, <1>1, <1>3, <2>1 DEF Missing, Domains, Bit
    <2> QED
        BY <1>0, <2>1, <2>2 DEF LostAtMostOne
<1> QED
    BY <1>4, <1>5, <1>6, <1>7, <1>8, <1>9

\* The other steps of an agent and of close() leave the jobs where they are.
LEMMA SameJobs ==
    ASSUME IInv, UNCHANGED <<queue, unfinished, worker, job, asked, written, due>>,
           agent' \in [Agents -> {"working", "draining", "finishing", "finished"}],
           \A a \in Jobs : agent'[a] = "draining",
           runtime' \in {"open", "stopping", "closed"},
           runtime' = "open" <=> runtime = "open"
    PROVE  IInv'
<1>1. Items' = Items /\ Jobs' = Jobs
    BY DEF Items, Jobs
<1>2. Domains' /\ ItemsDistinct' /\ JobsDrained'
    BY <1>1 DEF IInv, Domains, ItemsDistinct, JobsDrained
<1>3. UnfinishedIsJobs' /\ SentinelQueued'
    BY <1>1 DEF IInv, UnfinishedIsJobs, SentinelQueued, Bit
<1>4. DueAhead'
    BY DEF IInv, DueAhead, Ahead, StopWaitsForJobs
<1>5. LostAtMostOne'
    BY <1>1 DEF IInv, LostAtMostOne, Missing
<1> QED
    BY <1>2, <1>3, <1>4, <1>5 DEF IInv

\* drain returns to an agent when nobody has a job.
LEMMA DrainedIInv ==
    ASSUME IInv, NEW a \in Agents, DrainReturns(a) \/ Finish(a) \/ FinishDrained(a)
    PROVE  IInv'
<1>1. /\ UNCHANGED <<queue, unfinished, worker, job, asked, written, runtime, due>>
      /\ agent' \in [Agents -> {"working", "draining", "finishing", "finished"}]
      /\ \A b \in Agents : b # a => agent'[b] = agent[b]
    BY DEF IInv, Domains, DrainReturns, Finish, FinishDrained, AgentGoes, threads, counts, facade
<1>2. a \notin Jobs
    <2>1. CASE DrainReturns(a)
        <3>1. Cardinality(Jobs) = 0
            BY <2>1, JobsType DEF DrainReturns, IInv, UnfinishedIsJobs, Bit
        <3> QED
            BY <3>1, JobsType, FS_EmptySet DEF IInv
    <2>2. CASE Finish(a) \/ FinishDrained(a)
        BY <2>2 DEF Finish, FinishDrained, AgentGoes, IInv, JobsDrained
    <2> QED
        BY <2>1, <2>2
<1>3. \A b \in Jobs : agent'[b] = "draining"
    BY <1>1, <1>2, JobsType DEF IInv, JobsDrained
<1>4. runtime' \in {"open", "stopping", "closed"} /\ (runtime' = "open" <=> runtime = "open")
    BY <1>1 DEF IInv, Domains
<1> QED
    BY <1>1, <1>3, <1>4, SameJobs

\* The thread takes the head: what was ahead of the sentinel is running or
\* still ahead of it, and at the sentinel itself everything due is written.
LEMMA GetDue ==
    ASSUME IInv, WorkerGets
    PROVE  DueAhead'
<1>1. /\ worker = "get" /\ job = Sentinel /\ queue # <<>>
      /\ queue' = Tail(queue) /\ job' = Head(queue)
      /\ worker' = IF Head(queue) = Sentinel THEN "left" ELSE "run"
      /\ UNCHANGED <<written, due>>
    BY DEF WorkerGets, IInv, ItemsDistinct, counts, facade
<1>2. /\ queue \in Seq(Agents \cup {Sentinel}) /\ Len(queue) \in Nat /\ Len(queue) # 0
      /\ Head(queue) = queue[1]
    BY <1>1 DEF IInv, Domains
<1>3. /\ Len(queue') = Len(queue) - 1
      /\ \A i \in 1..Len(queue') : queue'[i] = queue[i + 1]
    BY <1>1, <1>2
<1>4. StopWaitsForJobs'
    <2> SUFFICES ASSUME queue[1] = Sentinel, NEW a \in Agents PROVE written[a] >= due[a]
        BY <1>1, <1>2 DEF StopWaitsForJobs
    <2>1. 1 \in 1..Len(queue) /\ due[a] <= written[a] + Bit(Ahead(a, 1))
        BY <1>1, <1>2 DEF IInv, DueAhead
    <2>2. ~Ahead(a, 1)
        BY <1>1, <1>2, WorkerAssumption DEF Ahead, Sentinel
    <2> QED
        BY <2>1, <2>2 DEF Bit, IInv, Domains
<1>5. ASSUME queue[1] # Sentinel, NEW i \in 1..Len(queue'), queue'[i] = Sentinel, NEW a \in Agents
      PROVE  due[a] <= written[a] + Bit(a = job' \/ \E j \in 1..Len(queue') : j < i /\ queue'[j] = a)
    <2>1. i + 1 \in 1..Len(queue) /\ queue[i + 1] = Sentinel
        BY <1>2, <1>3, <1>5
    <2>2. due[a] <= written[a] + Bit(Ahead(a, i + 1))
        BY <1>1, <2>1 DEF IInv, DueAhead
    <2>3. ASSUME Ahead(a, i + 1)
          PROVE  a = job' \/ \E j \in 1..Len(queue') : j < i /\ queue'[j] = a
        <3>1. PICK j \in 1..Len(queue) : j < i + 1 /\ queue[j] = a
            BY <1>1, <2>3, WorkerAssumption DEF Ahead, Sentinel
        <3>2. CASE j = 1
            BY <1>1, <1>2, <3>1, <3>2
        <3>3. CASE j # 1
            <4>1. j - 1 \in 1..Len(queue') /\ (j - 1) + 1 = j /\ j - 1 < i
                BY <1>2, <1>3, <3>1, <3>3
            <4> QED
                BY <1>3, <3>1, <4>1
        <3> QED
            BY <3>2, <3>3
    <2> QED
        BY <2>2, <2>3 DEF Bit, IInv, Domains
<1>6. worker' \in {"get", "run"} => queue[1] # Sentinel
    BY <1>1, <1>2
<1> QED
    BY <1>1, <1>4, <1>5, <1>6 DEF DueAhead, Ahead

\* A job taken off the queue is a job still.
LEMMA WorkerGetsIInv == IInv /\ WorkerGets => IInv'
<1> SUFFICES ASSUME IInv, WorkerGets PROVE IInv'
    OBVIOUS
<1> DEFINE head == Head(queue)
<1>0. /\ Domains /\ worker = "get" /\ job = Sentinel /\ queue # <<>>
      /\ queue' = Tail(queue) /\ job' = head
      /\ worker' = IF head = Sentinel THEN "left" ELSE "run"
      /\ UNCHANGED <<unfinished, agent, asked, written, runtime, due>>
    BY DEF WorkerGets, IInv, ItemsDistinct, counts, facade
<1>1. /\ queue' \in Seq(Agents \cup {Sentinel}) /\ head \in Items
      /\ Items' = Items \ {head}
      /\ \A i, j \in 1..Len(queue') : queue'[i] = queue'[j] => i = j
    BY <1>0, GetItem DEF IInv
<1>2. head \in Agents \cup {Sentinel}
    BY <1>0, <1>1, JobsType
<1> HIDE DEF head
<1>3. Jobs' = Jobs
    BY <1>0, <1>1 DEF Jobs
<1>4. Domains'
    BY <1>0, <1>1, <1>2 DEF Domains
<1>5. ItemsDistinct'
    BY <1>0, <1>1 DEF ItemsDistinct
<1>6. LostAtMostOne'
    <2>1. Missing(Sentinel)
        BY <1>0 DEF IInv, LostAtMostOne
    <2>2. Missing(Sentinel)'
        BY <1>0, <1>3, <2>1 DEF Missing, Bit
    <2> QED
        BY <2>2 DEF LostAtMostOne
<1>7. SentinelQueued'
    BY <1>0, <1>1 DEF IInv, SentinelQueued
<1>8. UnfinishedIsJobs' /\ JobsDrained'
    BY <1>0, <1>3 DEF IInv, UnfinishedIsJobs, JobsDrained, Bit
<1> QED
    BY <1>4, <1>5, <1>6, <1>7, <1>8, GetDue DEF IInv

\* A job that ends is off the set and off the count; it is written, or it is
\* the one that ends the thread.
LEMMA WorkerEndsIInv == IInv /\ (WorkerWrites \/ WorkerFails) => IInv'
<1> SUFFICES ASSUME IInv, WorkerWrites \/ WorkerFails PROVE IInv'
    OBVIOUS
<1>0. /\ Domains /\ worker = "run" /\ job # Sentinel /\ job \in Agents /\ job \notin Items
      /\ job' = Sentinel /\ worker' \in {"get", "dead"} /\ unfinished' = unfinished - 1
      /\ UNCHANGED <<queue, agent, asked, runtime, due>>
    BY DEF WorkerWrites, WorkerFails, JobRaises, IInv, Domains, ItemsDistinct, facade
<1>1. Items' = Items /\ job \in Jobs /\ Jobs' = Jobs \ {job}
    BY <1>0 DEF Items, Jobs
<1>2. Missing(Sentinel)
    BY <1>0 DEF IInv, LostAtMostOne
<1>3. \A a \in Agents : /\ asked[a] \in 0..MaxJobs /\ written[a] \in Nat /\ a # Sentinel
                        /\ asked[a] = written[a] + Bit(a \in Jobs)
    BY <1>0, <1>2, WorkerAssumption DEF Domains, Missing, Bit, Sentinel
<1>4. /\ LostAtMostOne' /\ written' \in [Agents -> 0..MaxJobs]
      /\ \/ written' = [written EXCEPT ![job] = @ + 1]
         \/ worker' = "dead"
    <2>1. CASE written' = [written EXCEPT ![job] = @ + 1]
        <3>1. written \in [Agents -> 0..MaxJobs]
            BY <1>0 DEF Domains
        <3>2. Missing(Sentinel)'
            BY <1>0, <1>1, <1>3, <2>1, <3>1 DEF Missing, Bit
        <3>3. written' \in [Agents -> 0..MaxJobs]
            <4>1. written[job] + 1 = asked[job] /\ asked[job] \in 0..MaxJobs /\ written[job] \in Nat
                BY <1>0, <1>1, <1>3 DEF Bit
            <4>2. written[job] + 1 \in 0..MaxJobs
                BY <4>1, WorkerAssumption
            <4> QED
                BY <2>1, <3>1, <4>2
        <3> QED
            BY <2>1, <3>2, <3>3 DEF LostAtMostOne
    <2>2. CASE WorkerFails /\ written' = written
        <3>1. worker' = "dead"
            BY <2>2 DEF WorkerFails
        <3>2. PICK lost \in Agents : lost = job
            BY <1>0
        <3>3. Missing(lost)'
            BY <1>0, <1>1, <1>3, <2>2, <3>2 DEF Missing, Bit
        <3> QED
            BY <1>0, <2>2, <3>1, <3>3 DEF LostAtMostOne, Domains
    <2> QED
        BY <2>1, <2>2 DEF WorkerWrites, WorkerFails, JobRaises
<1>5. UnfinishedIsJobs' /\ unfinished' \in Nat
    <2>1. Cardinality(Jobs') = Cardinality(Jobs) - 1 /\ Cardinality(Jobs) # 0
        BY <1>0, <1>1, JobsType, FS_RemoveElement, FS_EmptySet
    <2> QED
        BY <1>0, <2>1, JobsType DEF IInv, UnfinishedIsJobs, Bit
<1>6. Domains'
    BY <1>0, <1>4, <1>5 DEF Domains
<1>7. ItemsDistinct' /\ JobsDrained' /\ SentinelQueued'
    BY <1>0, <1>1 DEF IInv, ItemsDistinct, JobsDrained, SentinelQueued
<1>8. DueAhead'
    <2> SUFFICES ASSUME written' = [written EXCEPT ![job] = @ + 1],
                        NEW i \in 1..Len(queue), queue[i] = Sentinel, NEW a \in Agents
                 PROVE  due[a] <= written'[a] + Bit(a = job' \/ \E j \in 1..Len(queue) : j < i /\ queue[j] = a)
        BY <1>0, <1>4 DEF DueAhead, Ahead, StopWaitsForJobs
    <2>1. /\ due[a] <= written[a] + Bit(Ahead(a, i))
          /\ written'[a] = IF a = job THEN written[a] + 1 ELSE written[a]
          /\ due[a] \in Nat /\ written[a] \in Nat
        BY <1>0 DEF IInv, DueAhead, Domains
    <2> QED
        BY <2>1 DEF Bit, Ahead
<1> QED
    BY <1>4, <1>5, <1>6, <1>7, <1>8 DEF IInv

\* stop(), with agents at work: all that is asked for is ahead of its sentinel.
LEMMA StopIInv == IInv /\ Stop => IInv'
<1> SUFFICES ASSUME IInv, Stop PROVE IInv'
    OBVIOUS
<1>0. /\ Domains /\ runtime = "open" /\ runtime' = "stopping" /\ Sentinel \notin Items
      /\ worker # "left"
      /\ Put(Sentinel) /\ unfinished' = unfinished + 1 /\ due' = asked
      /\ UNCHANGED <<worker, job, agent, asked, written>>
    BY DEF Stop, IInv, SentinelQueued, Put, threads, counts
<1>1. /\ queue' \in Seq(Agents \cup {Sentinel}) /\ Items' = Items \cup {Sentinel}
      /\ \A i, j \in 1..Len(queue') : queue'[i] = queue'[j] => i = j
    BY <1>0, PutItem DEF IInv
<1>2. Jobs' = Jobs
    BY <1>0, <1>1 DEF Jobs
<1>3. Domains' /\ ItemsDistinct'
    BY <1>0, <1>1 DEF IInv, Domains, ItemsDistinct
<1>4. UnfinishedIsJobs' /\ SentinelQueued' /\ JobsDrained'
    BY <1>0, <1>1, <1>2, JobsType DEF IInv, UnfinishedIsJobs, SentinelQueued, JobsDrained, Bit
<1>5. LostAtMostOne'
    BY <1>0, <1>2 DEF IInv, LostAtMostOne, Missing
<1>6. DueAhead'
    <2>1. /\ queue \in Seq(Agents \cup {Sentinel}) /\ Len(queue) \in Nat
          /\ queue' = Append(queue, Sentinel)
        BY <1>0 DEF Domains, Put
    <2>2. /\ Len(queue') = Len(queue) + 1 /\ queue'[Len(queue) + 1] = Sentinel
          /\ \A i \in 1..Len(queue) : queue'[i] = queue[i]
        BY <2>1
    <2>3. ASSUME worker \in {"get", "run"}, NEW i \in 1..Len(queue'), queue'[i] = Sentinel,
                 NEW a \in Agents
          PROVE  asked[a] <= written[a] + Bit(a = job \/ \E j \in 1..Len(queue') : j < i /\ queue'[j] = a)
        <3>1. i = Len(queue) + 1
            BY <1>0, <2>1, <2>2, <2>3 DEF Items
        <3>2. /\ asked[a] = written[a] + Bit(a \in Jobs) /\ a # Sentinel
              /\ asked[a] \in Nat /\ written[a] \in Nat
            BY <1>0, <2>3, WorkerAssumption DEF IInv, LostAtMostOne, Missing, Domains, Bit, Sentinel
        <3>3. a \in Jobs => a = job \/ \E j \in 1..Len(queue') : j < i /\ queue'[j] = a
            BY <2>1, <2>2, <3>1 DEF Jobs, Items
        <3> QED
            BY <3>2, <3>3 DEF Bit
    <2> QED
        BY <1>0, <2>3 DEF DueAhead, Ahead, StopWaitsForJobs
<1> QED
    BY <1>3, <1>4, <1>5, <1>6 DEF IInv

LEMMA NextIInv == IInv /\ [Next]_vars => IInv'
<1> SUFFICES ASSUME IInv, [Next]_vars PROVE IInv'
    OBVIOUS
<1>1. CASE JoinReturns
    BY <1>1, SameJobs
    DEF JoinReturns, threads, counts, IInv, Domains, JobsDrained
<1>2. CASE UNCHANGED vars
    BY <1>2, SameJobs
    DEF vars, threads, counts, facade, IInv, Domains, JobsDrained
<1> QED
    BY <1>1, <1>2, EnqueueIInv, DrainedIInv, WorkerGetsIInv, WorkerEndsIInv, StopIInv
    DEF Next, Worker, Agent, Close

LEMMA Invariance == Spec => []IInv
BY InitIInv, NextIInv, PTL DEF Spec

-----------------------------------------------------------------------------

\* Every variable stays in its domain for any number of agents: the queue
\* holds at most one job of each, and the count at most one more than that.
THEOREM TypeCorrect == Spec => []TypeOK
<1>1. ASSUME IInv PROVE TypeOK
    <2>1. Cardinality(Jobs) <= Cardinality(Agents) /\ Cardinality(Agents) \in Nat
        BY <1>1, JobsType, WorkerAssumption, FS_Subset, FS_CardinalityType DEF IInv
    <2>2. unfinished \in 0..(Cardinality(Agents) + 1)
        BY <1>1, <2>1, JobsType DEF IInv, UnfinishedIsJobs, Bit, Domains
    <2> QED
        BY <1>1, <2>2 DEF IInv, Domains, ItemsDistinct, TypeOK
<1> QED
    BY <1>1, Invariance, PTL

\* The count that drain waits on is the number of jobs queued or running,
\* jobs that raised included, and one more from stop() on.
THEOREM CountIsExact == Spec => []UnfinishedExact
<1>1. ASSUME IInv PROVE UnfinishedExact
    BY <1>1, QueuedJobs, JobsType DEF IInv, UnfinishedIsJobs, UnfinishedExact, Bit
<1> QED
    BY <1>1, Invariance, PTL

\* Until a job raises, an agent that is not in drain has every checkpoint it
\* asked for, whenever close() is called; after that, all agents but one do,
\* and that one lacks one.
THEOREM OneCheckpointLost == Spec => []OneLost
<1>1. ASSUME IInv PROVE OneLost
    <2>1. PICK lost \in Agents \cup {Sentinel} :
            Missing(lost) /\ (worker # "dead" => lost = Sentinel)
        BY <1>1 DEF IInv, LostAtMostOne
    <2>2. ASSUME NEW a \in Agents, agent[a] # "draining", written[a] # asked[a]
          PROVE  a = lost /\ asked[a] = written[a] + 1
        <3>1. a \notin Jobs /\ written[a] \in Nat
            BY <1>1, <2>2 DEF IInv, JobsDrained, Domains
        <3> QED
            BY <2>1, <2>2, <3>1 DEF Missing, Bit
    <2>3. worker # "dead" => DurableOnReturn
        BY <2>1, <2>2, WorkerAssumption DEF DurableOnReturn, Sentinel
    <2> QED
        BY <2>2, <2>3 DEF OneLost
<1> QED
    BY <1>1, Invariance, PTL

\* A thread that leaves at the sentinel has written every checkpoint asked for
\* before stop(), whatever agents put on the queue since, and although join
\* may have given up on it.
THEOREM CloseWritesTheQueue == Spec => []StopWaitsForJobs
<1>1. IInv => StopWaitsForJobs
    BY DEF IInv, DueAhead
<1> QED
    BY <1>1, Invariance, PTL

\* An idle thread with nothing to take leaves nobody waiting.
NoLostWakeup == worker = "get" /\ queue = <<>> => unfinished = 0

\* Nobody waits in vain while the thread lives: it has a job to end or an item
\* to take, or the count is zero and drain returns, also after stop().
THEOREM NobodyStuck == Spec => []NoLostWakeup
<1>1. ASSUME IInv, worker = "get", queue = <<>> PROVE unfinished = 0
    <2>1. Items = {} /\ job = Sentinel
        BY <1>1 DEF Items, IInv, ItemsDistinct
    <2>2. Jobs = {} /\ runtime = "open"
        BY <1>1, <2>1 DEF Jobs, IInv, SentinelQueued
    <2> QED
        BY <1>1, <2>2, FS_EmptySet DEF IInv, UnfinishedIsJobs, Bit
<1>2. IInv => NoLostWakeup
    BY <1>1 DEF NoLostWakeup
<1> QED
    BY <1>2, Invariance, PTL
=============================================================================
