--------------------------- MODULE SemiasyncQueue ---------------------------
(***************************************************************************)
(* The semi-asynchronous job queue of src/semiasync_queue.hpp.  A client   *)
(* thread adds jobs; the queue groups them into batches of about           *)
(* WorkPerThread units of work and starts one thread per batch, at most    *)
(* max_threads at a time.  A thread runs prepare() on the jobs of its       *)
(* batch; the client thread later joins the threads in the order they were *)
(* started and runs commit() on their jobs, so that commits happen in the  *)
(* order of the calls to add_job.  Jobs are numbered by these calls.       *)
(***************************************************************************)
EXTENDS Integers, Sequences

CONSTANTS
    NumJobs,        \* how many jobs the client adds at most
    Works,          \* the values of expected_work a client passes
    WorkPerThread,  \* m_work_per_thread
    ThreadCounts    \* the values configuration::worker_threads may have

ASSUME QueueAssumption ==
    /\ NumJobs \in Nat
    /\ Works \subseteq Nat
    /\ WorkPerThread \in Nat
    /\ ThreadCounts \subseteq Nat

VARIABLES
    max_threads,    \* m_max_threads, set by the constructor
    added,          \* the number of calls to add_job so far
    next,           \* m_next_thread.first
    running,        \* m_running_threads, front first
    expected,       \* m_expected_work
    pc,             \* where the client thread is
    caller,         \* the call the client made last
    committing,     \* how many jobs of the front batch commit_thread committed
    prepared,       \* the jobs whose prepare() has returned
    committed       \* the jobs whose commit() has run, in that order

vars == <<max_threads, added, next, running, expected, pc, caller,
          committing, prepared, committed>>

Jobs == 1..NumJobs

(***************************************************************************)
(* The client thread is outside the queue ("idle"), at the head of         *)
(* spawn_next_thread ("spawn"), blocked in join() ("join"), between two    *)
(* commits of commit_thread ("commit"), at the loop of complete()          *)
(* ("drain"), or complete() has returned ("done").                         *)
(***************************************************************************)
Places == {"idle", "spawn", "join", "commit", "drain", "done"}

(* A thread_t: the jobs of the batch and how many of them are prepared.    *)
Thread(batch) == [jobs |-> batch, ready |-> 0]

Finished(t) == t.ready = Len(t.jobs)

(* The constructor reads the configuration. *)
Init ==
    /\ max_threads \in ThreadCounts
    /\ added = 0
    /\ next = <<>>
    /\ running = <<>>
    /\ expected = 0
    /\ pc = "idle"
    /\ caller = "add_job"
    /\ committing = 0
    /\ prepared = {}
    /\ committed = <<>>
-----------------------------------------------------------------------------
(* add_job with worker threads: the job joins the batch being filled, and  *)
(* a batch with enough work is handed to a thread.                         *)
AddJob(w) ==
    /\ pc = "idle" /\ added < NumJobs
    /\ max_threads > 0
    /\ added' = added + 1
    /\ next' = Append(next, added + 1)
    /\ expected' = expected + w
    /\ pc' = IF expected + w >= WorkPerThread THEN "spawn" ELSE "idle"
    /\ UNCHANGED <<max_threads, running, caller, committing, prepared,
                   committed>>

(* Mutant: the previous job is committed.                                  *)
AddJobInlineLate ==
    /\ pc = "idle" /\ added < NumJobs
    /\ max_threads = 0
    /\ added' = added + 1
    /\ prepared' = prepared \cup {added + 1}
    /\ committed' = Append(committed, added)
    /\ UNCHANGED <<max_threads, next, running, expected, pc, caller,
                   committing>>

(* add_job without worker threads does both halves of the job at once.     *)
AddJobInline ==
    /\ pc = "idle" /\ added < NumJobs
    /\ max_threads = 0
    /\ added' = added + 1
    /\ prepared' = prepared \cup {added + 1}
    /\ committed' = Append(committed, added + 1)
    /\ UNCHANGED <<max_threads, next, running, expected, pc, caller,
                   committing>>

(* complete() spawns the last batch and drains the threads, but only when  *)
(* there is a last batch.                                                  *)
Complete ==
    /\ pc = "idle"
    /\ caller' = "complete"
    /\ pc' = IF next # <<>> THEN "spawn" ELSE "done"
    /\ UNCHANGED <<max_threads, added, next, running, expected, committing,
                   prepared, committed>>

(* spawn_next_thread at the thread limit first commits the oldest thread.  *)
SpawnFull ==
    /\ pc = "spawn" /\ Len(running) = max_threads
    /\ pc' = "join"
    /\ UNCHANGED <<max_threads, added, next, running, expected, caller,
                   committing, prepared, committed>>

(* Mutant: m_next_thread is not reset.                                     *)
SpawnStartNoReset ==
    /\ pc = "spawn" /\ Len(running) # max_threads
    /\ running' = Append(running, Thread(next))
    /\ expected' = 0
    /\ pc' = IF caller = "complete" THEN "drain" ELSE "idle"
    /\ UNCHANGED <<max_threads, added, next, caller, committing, prepared,
                   committed>>

(* Mutant: no test of the thread limit.                                    *)
SpawnStartAnyway ==
    /\ pc = "spawn"
    /\ running' = Append(running, Thread(next))
    /\ next' = <<>>
    /\ expected' = 0
    /\ pc' = IF caller = "complete" THEN "drain" ELSE "idle"
    /\ UNCHANGED <<max_threads, added, caller, committing, prepared,
                   committed>>

(* spawn_next_thread below the limit starts a thread on the batch.         *)
SpawnStart ==
    /\ pc = "spawn" /\ Len(running) # max_threads
    /\ running' = Append(running, Thread(next))
    /\ next' = <<>>
    /\ expected' = 0
    /\ pc' = IF caller = "complete" THEN "drain" ELSE "idle"
    /\ UNCHANGED <<max_threads, added, caller, committing, prepared,
                   committed>>

(* Mutant: the last thread is not waited for.                              *)
DrainAllButOne ==
    /\ pc = "drain"
    /\ pc' = IF Len(running) > 1 THEN "join" ELSE "done"
    /\ UNCHANGED <<max_threads, added, next, running, expected, caller,
                   committing, prepared, committed>>

(* The loop of complete().                                                 *)
Drain ==
    /\ pc = "drain"
    /\ pc' = IF running # <<>> THEN "join" ELSE "done"
    /\ UNCHANGED <<max_threads, added, next, running, expected, caller,
                   committing, prepared, committed>>

(* Mutant: commit_thread does not join.                                    *)
JoinNot ==
    /\ pc = "join"
    /\ pc' = "commit"
    /\ UNCHANGED <<max_threads, added, next, running, expected, caller,
                   committing, prepared, committed>>

(* commit_thread: join() returns when the oldest thread has finished.      *)
Join ==
    /\ pc = "join"
    /\ Finished(running[1])
    /\ pc' = "commit"
    /\ UNCHANGED <<max_threads, added, next, running, expected, caller,
                   committing, prepared, committed>>

(* commit_thread: the next job of the oldest batch.                        *)
CommitJob ==
    /\ pc = "commit" /\ committing < Len(running[1].jobs)
    /\ committed' = Append(committed, running[1].jobs[committing + 1])
    /\ committing' = committing + 1
    /\ UNCHANGED <<max_threads, added, next, running, expected, pc, caller,
                   prepared>>

(* Mutant: complete() commits one thread only and does not loop.           *)
PopThreadOnce ==
    /\ pc = "commit" /\ committing = Len(running[1].jobs)
    /\ running' = Tail(running)
    /\ committing' = 0
    /\ pc' = IF next # <<>> THEN "spawn" ELSE "idle"
    /\ UNCHANGED <<max_threads, added, next, expected, caller, prepared,
                   committed>>

(* commit_thread: pop_front, and back to the caller.                       *)
PopThread ==
    /\ pc = "commit" /\ committing = Len(running[1].jobs)
    /\ running' = Tail(running)
    /\ committing' = 0
    /\ pc' = IF next # <<>> THEN "spawn" ELSE "drain"
    /\ UNCHANGED <<max_threads, added, next, expected, caller, prepared,
                   committed>>

(* The thread of the i-th running batch prepares its next job.             *)
Prepare(i) ==
    /\ i \in 1..Len(running)
    /\ ~Finished(running[i])
    /\ prepared' = prepared \cup {running[i].jobs[running[i].ready + 1]}
    /\ running' = [running EXCEPT ![i].ready = @ + 1]
    /\ UNCHANGED <<max_threads, added, next, expected, pc, caller, committing,
                   committed>>

Client ==
    \/ \E w \in Works : AddJob(w)
    \/ AddJobInline
    \/ Complete
    \/ SpawnFull \/ SpawnStart \/ Drain
    \/ Join \/ CommitJob \/ PopThread

Next == Client \/ \E i \in 1..Len(running) : Prepare(i)

Spec == Init /\ [][Next]_vars

(* The operating system runs every started thread, and the client thread   *)
(* inside a call of the queue; nothing makes the client call again.        *)
InsideCall ==
    SpawnFull \/ SpawnStart \/ Drain \/ Join \/ CommitJob \/ PopThread

Fairness ==
    /\ \A i \in Jobs : WF_vars(Prepare(i))
    /\ WF_vars(InsideCall)

FairSpec == Spec /\ Fairness
-----------------------------------------------------------------------------
TypeOK ==
    /\ max_threads \in ThreadCounts
    /\ added \in 0..NumJobs
    /\ next \in Seq(Jobs)
    /\ running \in Seq([jobs : Seq(Jobs), ready : Nat])
    /\ expected \in Nat
    /\ pc \in Places
    /\ caller \in {"add_job", "complete"}
    /\ committing \in Nat
    /\ prepared \subseteq Jobs
    /\ committed \in Seq(Jobs)

(* The job before the first one of the k-th running batch, the last job of *)
(* that batch, and the last job that was handed to a thread.               *)
Before(k) == running[k].jobs[1] - 1
LastOf(k) == Before(k) + Len(running[k].jobs)
HandedOver == IF running = <<>> THEN Len(committed) ELSE LastOf(Len(running))

(* No job is lost, duplicated or overtaken on its way: the commits so far, *)
(* what is left of the front batch, the other batches in the order their   *)
(* threads were started and the batch being filled are, one after the      *)
(* other, the jobs in the order of add_job.                                *)
NothingLost ==
    /\ \A i \in 1..Len(committed) : committed[i] = i
    /\ \A k \in 1..Len(running) :
         /\ running[k].jobs # <<>>
         /\ \A i \in 1..Len(running[k].jobs) : running[k].jobs[i] = Before(k) + i
         /\ k = 1 => Before(k) = Len(committed) - committing
         /\ k > 1 => Before(k) = LastOf(k - 1)
    /\ \A i \in 1..Len(next) : next[i] = HandedOver + i
    /\ added = HandedOver + Len(next)

(* The client thread reads the result of a job (commit) only after the     *)
(* thread that writes it (prepare) was joined: whatever is committed is    *)
(* prepared, and during commit_thread no thread works on the front batch.  *)
NoPrepareCommitRace ==
    /\ \A i \in 1..Len(committed) : committed[i] \in prepared
    /\ pc = "commit" => running # <<>> /\ Finished(running[1])

(* spawn_next_thread tests m_running_threads.size() == m_max_threads once  *)
(* and not >=; the number of threads still never passes the limit.         *)
ThreadLimit == Len(running) <= max_threads

(* When complete() found a last batch and returns from its loop, every job *)
(* ever added was committed and no thread is left.                         *)
DrainLeavesNothing ==
    [][pc = "drain" /\ pc' = "done" =>
         Len(committed') = added' /\ running' = <<>>]_vars

(* complete() is the point after which the client uses what the jobs       *)
(* committed (sequence_collection::builder::build writes the collection):  *)
(* when it returns, every job added was committed.  The code does not keep *)
(* this when the last add_job itself filled a batch, because complete()    *)
(* then finds m_next_thread empty and neither joins nor commits.           *)
CompleteCommitsAll == pc = "done" => Len(committed) = added

(* A call of complete() returns: the joins it waits for end.               *)
CompleteReturns == caller = "complete" ~> pc = "done"

(* The queue keeps the promise of OrderedCommits.                          *)
Promise == INSTANCE OrderedCommits
CommitsInOrder == Promise!Spec
=============================================================================
