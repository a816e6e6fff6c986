-------------------------- MODULE CheckpointWorker --------------------------
(***************************************************************************)
(* async_checkpoints=True: one CheckpointWorker thread writes the          *)
(* checkpoints of every handle of a SemanticRun.  The agent that takes a   *)
(* step puts a job on the worker's queue.Queue and drains the queue before *)
(* it goes on; complete() drains it too and writes its own checkpoint.     *)
(* close(), which any thread may call while the others are at work, sends  *)
(* the sentinel None, joins the thread for two seconds at most, and closes *)
(* the storage.                                                            *)
(*                                                                         *)
(* queue.Queue is outside the repository: a queue and the count of         *)
(* unfinished tasks, which put raises, task_done lowers and join waits on. *)
(***************************************************************************)
EXTENDS Integers, Sequences, FiniteSets

CONSTANTS
    Agents,       \* threads of the host, each with a handle of its own
    JobsMayFail,  \* may create_fn raise?
    MaxJobs       \* bound on the checkpoints an agent asks for

ASSUME WorkerAssumption ==
    /\ JobsMayFail \in BOOLEAN /\ MaxJobs \in Nat
    /\ "None" \notin Agents /\ IsFiniteSet(Agents)

VARIABLES
    queue,       \* the jobs, named by the agent whose checkpoint it is
    unfinished,  \* queue.unfinished_tasks
    worker,      \* the thread: in get, in a job, left at the sentinel, or dead
    job,         \* the job it runs
    agent,       \* what each agent is doing
    asked,       \* checkpoints each agent asked the worker for
    written,     \* of which are in the database
    runtime,     \* the facade: open, in stop(), or with its storage closed
    due          \* history: asked, when stop() was called

threads == <<worker, job>>
counts == <<asked, written>>
facade == <<runtime, due>>
vars == <<queue, unfinished, threads, agent, counts, facade>>

Sentinel == "None"

Init ==
    /\ queue = <<>> /\ unfinished = 0
    /\ worker = "get" /\ job = Sentinel
    /\ agent = [a \in Agents |-> "working"]
    /\ asked = [a \in Agents |-> 0] /\ written = [a \in Agents |-> 0]
    /\ runtime = "open" /\ due = [a \in Agents |-> 0]

Put(item) == queue' = Append(queue, item) /\ unfinished' = unfinished + 1

AgentGoes(a, from, to) == agent[a] = from /\ agent' = [agent EXCEPT ![a] = to]

\* Mutation: fire and forget, without the drain.
EnqueueOnly(a) ==
    /\ AgentGoes(a, "working", "working")
    /\ asked[a] < MaxJobs
    /\ Put(a)
    /\ asked' = [asked EXCEPT ![a] = @ + 1]
    /\ UNCHANGED <<threads, written, facade>>

\* _enqueue_checkpoint: enqueue, then wait in drain.  On a closed storage
\* _end_step has raised before, at the step's row.
Enqueue(a) ==
    /\ AgentGoes(a, "working", "draining")
    /\ runtime # "closed" /\ asked[a] < MaxJobs
    /\ Put(a)
    /\ asked' = [asked EXCEPT ![a] = @ + 1]
    /\ UNCHANGED <<threads, written, facade>>

\* queue.join() returns.
DrainReturns(a) ==
    /\ AgentGoes(a, "draining", "working")
    /\ unfinished = 0
    /\ UNCHANGED <<queue, unfinished, threads, counts, facade>>

\* SemanticRun.complete or abort: drain, and then a checkpoint of its own.
Finish(a) ==
    /\ AgentGoes(a, "working", "finishing")
    /\ UNCHANGED <<queue, unfinished, threads, counts, facade>>

FinishDrained(a) ==
    /\ AgentGoes(a, "finishing", "finished")
    /\ unfinished = 0
    /\ UNCHANGED <<queue, unfinished, threads, counts, facade>>

\* The worker takes the next item; at the sentinel it leaves the loop, and
\* task_done is not called for it.
WorkerGets ==
    /\ worker = "get" /\ queue # <<>>
    /\ queue' = Tail(queue)
    /\ job' = Head(queue)
    /\ worker' = IF Head(queue) = Sentinel THEN "left" ELSE "run"
    /\ UNCHANGED <<unfinished, agent, counts, facade>>

\* Mutation: task_done is forgotten.
WorkerWritesUncounted ==
    /\ worker = "run" /\ runtime # "closed"
    /\ written' = [written EXCEPT ![job] = @ + 1]
    /\ worker' = "get" /\ job' = Sentinel
    /\ UNCHANGED <<queue, unfinished, agent, asked, facade>>

WorkerWrites ==
    /\ worker = "run" /\ runtime # "closed"
    /\ written' = [written EXCEPT ![job] = @ + 1]
    /\ unfinished' = unfinished - 1
    /\ worker' = "get" /\ job' = Sentinel
    /\ UNCHANGED <<queue, agent, asked, facade>>

\* create_fn may raise ahead of its commit or after it, at the row; on a
\* storage closed before the job or under it, it does.
JobRaises ==
    /\ worker = "run" /\ (JobsMayFail \/ runtime = "closed")
    /\ written' \in {written, [written EXCEPT ![job] = @ + 1]}

\* Mutation: task_done is not in a finally.
WorkerFailsUncounted ==
    /\ JobRaises
    /\ worker' = "dead" /\ job' = Sentinel
    /\ UNCHANGED <<queue, unfinished, agent, asked, facade>>

\* Mutation: the exception is swallowed and the loop goes on.
WorkerFailsSilently ==
    /\ JobRaises
    /\ unfinished' = unfinished - 1
    /\ worker' = "get" /\ job' = Sentinel
    /\ UNCHANGED <<queue, agent, asked, facade>>

\* create_fn raises: the finally calls task_done, and the exception ends the
\* thread.
WorkerFails ==
    /\ JobRaises
    /\ unfinished' = unfinished - 1
    /\ worker' = "dead" /\ job' = Sentinel
    /\ UNCHANGED <<queue, agent, asked, facade>>

\* Mutation: the sentinel overtakes the jobs on the queue.
StopAtOnce ==
    /\ runtime = "open"
    /\ queue' = <<Sentinel>> \o queue /\ unfinished' = unfinished + 1
    /\ runtime' = "stopping" /\ due' = asked
    /\ UNCHANGED <<threads, agent, counts>>

\* close(), at any time, also while agents wait or still take steps: stop()
\* puts the sentinel behind the jobs there are ...
Stop ==
    /\ runtime = "open"
    /\ Put(Sentinel)
    /\ runtime' = "stopping" /\ due' = asked
    /\ UNCHANGED <<threads, agent, counts>>

\* ... and joins the thread, until it is gone or the timeout passes, and the
\* storage is closed.
JoinReturns ==
    /\ runtime = "stopping"
    /\ runtime' = "closed"
    /\ UNCHANGED <<queue, unfinished, threads, agent, counts, due>>

Worker == WorkerGets \/ WorkerWrites \/ WorkerFails
Agent(a) == Enqueue(a) \/ DrainReturns(a) \/ Finish(a) \/ FinishDrained(a)
Close == Stop \/ JoinReturns

Next == Worker \/ (\E a \in Agents : Agent(a)) \/ Close

\* The threads are scheduled: the worker does not stop in mid-job, and an
\* agent that can return from drain does.  What an agent does next is the
\* host's business.
Fairness ==
    /\ WF_vars(Worker)
    /\ \A a \in Agents : WF_vars(DrainReturns(a)) /\ WF_vars(FinishDrained(a))

Spec == Init /\ [][Next]_vars /\ Fairness
-----------------------------------------------------------------------------

\* Every variable stays in its domain; the queue never holds more than one
\* job of an agent, and the sentinel once.
TypeOK ==
    /\ queue \in Seq(Agents \cup {Sentinel})
    /\ \A i, j \in 1..Len(queue) : queue[i] = queue[j] => i = j
    /\ unfinished \in 0..(Cardinality(Agents) + 1)
    /\ worker \in {"get", "run", "left", "dead"} /\ job \in Agents \cup {Sentinel}
    /\ agent \in [Agents -> {"working", "draining", "finishing", "finished"}]
    /\ asked \in [Agents -> 0..MaxJobs] /\ written \in [Agents -> 0..MaxJobs]
    /\ runtime \in {"open", "stopping", "closed"} /\ due \in [Agents -> 0..MaxJobs]

\* The count join waits on is the number of jobs queued or running, even when
\* jobs raise, and from stop() on one more: task_done is not called for the
\* sentinel, so the count is never zero again.
Queued == Cardinality({i \in 1..Len(queue) : queue[i] # Sentinel})
Bit(b) == IF b THEN 1 ELSE 0
UnfinishedExact ==
    unfinished = Queued + Bit(worker = "run") + Bit(runtime # "open")

\* "enqueue then wait for durability before returning", unconditionally: an
\* agent not in drain finds every checkpoint it asked for in the database.
\* JobsMayFail refutes it.
DurableOnReturn == \A a \in Agents : agent[a] # "draining" => written[a] = asked[a]

\* DurableOnReturn holds until a job raises, close() at any moment included,
\* and from then on for all but one checkpoint: an agent can lose only the
\* one whose job ended the thread, because no step returns after it.
OneLost ==
    /\ worker # "dead" => DurableOnReturn
    /\ \A a, b \in Agents :
         {agent[a], agent[b]} \cap {"draining"} = {} /\ written[a] # asked[a] /\ written[b] # asked[b]
             => a = b /\ asked[a] = written[a] + 1

\* close() with jobs on the queue: a thread that leaves at the sentinel has
\* written every checkpoint asked for before stop(), although agents may have
\* put more behind the sentinel, and although join may have given up.
StopWaitsForJobs == worker = "left" => \A a \in Agents : written[a] >= due[a]

\* An agent waiting for its checkpoint gets to go on, also when other agents
\* put jobs ahead of its own and behind it, as long as these are finitely
\* many; unless a job raises and ends the thread, or stop() is called.
StepReturns == \A a \in Agents :
    agent[a] = "draining" ~> (agent[a] = "working" \/ worker = "dead" \/ runtime # "open")
=============================================================================
