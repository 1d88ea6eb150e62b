------------------------ MODULE SemiasyncQueueProofs ------------------------
(***************************************************************************)
(* Proofs about SemiasyncQueue for any number of jobs, any amounts of work *)
(* and any number of threads.                                              *)
(***************************************************************************)
EXTENDS SemiasyncQueue, SequenceTheorems, TLAPS

(* Where the client thread is says what the queue holds.                   *)
Control ==
    /\ pc \in {"join", "commit"} => running # <<>>
    /\ pc = "commit" => /\ Finished(running[1])
                        /\ committing <= Len(running[1].jobs)
    /\ pc # "commit" => committing = 0
    /\ pc = "spawn" => next # <<>>
    /\ pc = "drain" => next = <<>>
    /\ pc = "spawn" => max_threads > 0
    /\ max_threads = 0 => running = <<>> /\ next = <<>>
    /\ ThreadLimit

(* Which jobs are prepared: the committed ones and, of every running       *)
(* batch, the first ones, as many as its thread has done.                  *)
Progress ==
    /\ \A k \in 1..Len(running) : running[k].ready <= Len(running[k].jobs)
    /\ \A k, m \in 1..Len(running) : k < m => LastOf(k) <= Before(m)
    /\ \A j \in 1..Len(committed) : j \in prepared
    /\ \A k \in 1..Len(running) :
         \A i \in 1..running[k].ready : Before(k) + i \in prepared
    /\ \A j \in prepared :
         \/ j <= Len(committed)
         \/ \E k \in 1..Len(running) :
              Before(k) < j /\ j <= Before(k) + running[k].ready

IndInv == TypeOK /\ Control /\ NothingLost /\ Progress
-----------------------------------------------------------------------------
(* How each change of m_running_threads looks, batch by batch.             *)
Threads == [jobs : Seq(Jobs), ready : Nat]

LEMMA Lengths ==
  ASSUME TypeOK
  PROVE  /\ Len(next) \in Nat /\ Len(running) \in Nat
         /\ Len(committed) \in Nat /\ committing \in Nat
BY DEF TypeOK

LEMMA BatchType ==
  ASSUME TypeOK, NEW k \in 1..Len(running)
  PROVE  /\ running[k] \in Threads
         /\ running[k].jobs \in Seq(Jobs)
         /\ Len(running[k].jobs) \in Nat
         /\ running[k].ready \in Nat
<1>1. running[k] \in Threads
  BY ElementOfSeq DEF TypeOK, Threads
<1>2. running[k].jobs \in Seq(Jobs) /\ running[k].ready \in Nat
  BY <1>1 DEF Threads
<1> QED BY <1>1, <1>2, LenProperties

LEMMA PrepareShape ==
  ASSUME TypeOK, NEW i \in 1..Len(running), Prepare(i)
  PROVE  /\ running' \in Seq(Threads)
         /\ Len(running') = Len(running)
         /\ \A k \in 1..Len(running) :
              /\ running'[k].jobs = running[k].jobs
              /\ k # i => running'[k].ready = running[k].ready
         /\ running'[i].ready = running[i].ready + 1
<1> DEFINE t == [running[i] EXCEPT !.ready = @ + 1]
<1>1. t \in Threads /\ t.jobs = running[i].jobs /\ t.ready = running[i].ready + 1
  BY BatchType DEF Threads
<1>2. running' = [running EXCEPT ![i] = t]
  BY DEF Prepare
<1>3. running \in Seq(Threads)
  BY DEF TypeOK, Threads
<1> HIDE DEF t
<1> QED BY <1>1, <1>2, <1>3, ExceptSeq

LEMMA StartShape ==
  ASSUME TypeOK, SpawnStart
  PROVE  /\ running' \in Seq(Threads)
         /\ Len(running') = Len(running) + 1
         /\ \A k \in 1..Len(running) : running'[k] = running[k]
         /\ running'[Len(running) + 1].jobs = next
         /\ running'[Len(running) + 1].ready = 0
<1>1. Thread(next) \in Threads
  BY DEF Thread, TypeOK, Threads
<1>2. running \in Seq(Threads)
  BY DEF TypeOK, Threads
<1>3. running' = Append(running, Thread(next))
  BY DEF SpawnStart
<1>4. Thread(next).jobs = next /\ Thread(next).ready = 0
  BY DEF Thread
<1> QED BY <1>1, <1>2, <1>3, <1>4, AppendProperties

LEMMA PopShape ==
  ASSUME TypeOK, PopThread, running # <<>>
  PROVE  /\ running' \in Seq(Threads)
         /\ Len(running) \in Nat \ {0}
         /\ Len(running') = Len(running) - 1
         /\ \A k \in 1..Len(running') : running'[k] = running[k + 1]
<1>1. running \in Seq(Threads) /\ running' = Tail(running)
  BY DEF TypeOK, Threads, PopThread
<1> QED BY <1>1, HeadTailProperties, EmptySeq

(* A thread that is not finished has a job to prepare.                     *)
LEMMA NotAll ==
  ASSUME NEW r \in Nat, NEW n \in Nat, r <= n, r # n
  PROVE  r + 1 \in 1..n
OBVIOUS

LEMMA NextToPrepare ==
  ASSUME TypeOK, Progress, NEW i \in 1..Len(running), Prepare(i)
  PROVE  /\ running[i].ready \in Nat /\ Len(running[i].jobs) \in Nat
         /\ running[i].ready + 1 \in 1..Len(running[i].jobs)
<1>1. running[i].ready \in Nat /\ Len(running[i].jobs) \in Nat
  BY BatchType
<1>2. running[i].ready <= Len(running[i].jobs)
  BY DEF Progress
<1>3. running[i].ready # Len(running[i].jobs)
  BY DEF Prepare, Finished
<1> QED BY <1>1, <1>2, <1>3, NotAll

LEMMA InitInv == Init => IndInv
<1> SUFFICES ASSUME Init PROVE IndInv
  OBVIOUS
<1>1. TypeOK
  BY QueueAssumption DEF Init, TypeOK, Places
<1>2. Control
  BY <1>1, QueueAssumption DEF Init, Control, TypeOK, ThreadLimit
<1>3. NothingLost
  BY DEF Init, NothingLost, HandedOver
<1>4. Progress
  BY DEF Init, Progress
<1> QED
  BY <1>1, <1>2, <1>3, <1>4 DEF IndInv

LEMMA TypeStep == IndInv /\ [Next]_vars => TypeOK'
<1> SUFFICES ASSUME IndInv, [Next]_vars PROVE TypeOK'
  OBVIOUS
<1> USE DEF IndInv, TypeOK, Places
<1>1. ASSUME NEW w \in Works, AddJob(w) PROVE TypeOK'
  <2>1. added + 1 \in Jobs
    BY <1>1, QueueAssumption DEF AddJob, Jobs
  <2> QED BY <1>1, <2>1, QueueAssumption DEF AddJob, Jobs
<1>2. CASE AddJobInline
  <2>1. added + 1 \in Jobs
    BY <1>2, QueueAssumption DEF AddJobInline, Jobs
  <2> QED BY <1>2, <2>1, QueueAssumption DEF AddJobInline, Jobs
<1>3. CASE Complete
  BY <1>3 DEF Complete
<1>4. CASE SpawnFull
  BY <1>4 DEF SpawnFull
<1>5. CASE SpawnStart
  <2>1. Thread(next) \in [jobs : Seq(Jobs), ready : Nat]
    BY DEF Thread
  <2> QED BY <1>5, <2>1 DEF SpawnStart
<1>6. CASE Drain
  BY <1>6 DEF Drain
<1>7. CASE Join
  BY <1>7 DEF Join
<1>8. CASE CommitJob
  <2>1. 1 \in 1..Len(running)
    BY <1>8 DEF CommitJob, Control
  <2>2. committing + 1 \in 1..Len(running[1].jobs)
    BY <1>8, <2>1, BatchType DEF CommitJob
  <2>3. running[1].jobs[committing + 1] \in Jobs
    BY <2>1, <2>2, BatchType, ElementOfSeq
  <2> QED BY <1>8, <2>3 DEF CommitJob
<1>9. CASE PopThread
  BY <1>9, PopShape DEF PopThread, Control, Threads
<1>10. ASSUME NEW i \in 1..Len(running), Prepare(i) PROVE TypeOK'
  <2>1. running[i].ready + 1 \in 1..Len(running[i].jobs)
    BY <1>10, NextToPrepare
  <2>2. running[i].jobs[running[i].ready + 1] \in Jobs
    BY <2>1, BatchType, ElementOfSeq
  <2>3. running' \in Seq([jobs : Seq(Jobs), ready : Nat])
    BY <1>10, PrepareShape DEF Threads
  <2> QED BY <1>10, <2>2, <2>3 DEF Prepare
<1>11. CASE UNCHANGED vars
  BY <1>11 DEF vars
<1> QED
  BY <1>1, <1>2, <1>3, <1>4, <1>5, <1>6, <1>7, <1>8, <1>9, <1>10, <1>11
  DEF Next, Client

LEMMA ControlStep == IndInv /\ [Next]_vars => Control'
<1> SUFFICES ASSUME IndInv, [Next]_vars PROVE Control'
  OBVIOUS
<1> USE QueueAssumption DEF IndInv, TypeOK, Control, ThreadLimit
<1>1. ASSUME NEW w \in Works, AddJob(w) PROVE Control'
  BY <1>1 DEF AddJob
<1>2. CASE AddJobInline
  BY <1>2 DEF AddJobInline
<1>3. CASE Complete
  BY <1>3 DEF Complete
<1>4. CASE SpawnFull
  BY <1>4 DEF SpawnFull
<1>5. CASE SpawnStart
  BY <1>5 DEF SpawnStart
<1>6. CASE Drain
  BY <1>6 DEF Drain
<1>7. CASE Join
  BY <1>7 DEF Join
<1>8. CASE CommitJob
  BY <1>8 DEF CommitJob
<1>9. CASE PopThread
  BY <1>9 DEF PopThread
<1>10. ASSUME NEW i \in 1..Len(running), Prepare(i) PROVE Control'
  <2>1. /\ ~Finished(running[i]) /\ Len(running') = Len(running)
        /\ UNCHANGED <<max_threads, next, pc, committing>>
        /\ \A k \in 1..Len(running) :
             /\ running'[k].jobs = running[k].jobs
             /\ k # i => running'[k].ready = running[k].ready
    BY <1>10, PrepareShape DEF Prepare
  <2>2. running # <<>> /\ running' # <<>> /\ 1 \in 1..Len(running)
    BY <2>1
  <2>3. pc = "commit" => i # 1
    BY <2>1
  <2>4. pc = "commit" => Finished(running'[1]) /\ committing <= Len(running'[1].jobs)
    BY <2>1, <2>2, <2>3 DEF Finished
  <2> QED BY <2>1, <2>2, <2>4
<1>11. CASE UNCHANGED vars
  BY <1>11 DEF vars, Finished
<1> QED
  BY <1>1, <1>2, <1>3, <1>4, <1>5, <1>6, <1>7, <1>8, <1>9, <1>10, <1>11
  DEF Next, Client

(* Facts about the batches that follow from NothingLost alone.             *)
LEMMA BatchNumbers ==
  ASSUME TypeOK, NothingLost, NEW k \in 1..Len(running)
  PROVE  /\ Before(k) \in Int /\ LastOf(k) \in Int
         /\ Before(k) < LastOf(k)
         /\ \A i \in 1..Len(running[k].jobs) : running[k].jobs[i] = Before(k) + i
<1>1. running[k].jobs # <<>> /\ running[k].jobs \in Seq(Jobs)
  BY BatchType DEF NothingLost
<1>2. Len(running[k].jobs) \in Nat \ {0}
  BY <1>1, EmptySeq
<1>3. running[k].jobs[1] \in Int
  BY <1>1, <1>2, ElementOfSeq, QueueAssumption DEF Jobs
<1>4. \A i \in 1..Len(running[k].jobs) : running[k].jobs[i] = Before(k) + i
  BY DEF NothingLost
<1> QED BY <1>2, <1>3, <1>4 DEF Before, LastOf

(* When all of the front batch is committed, the last commit was its last. *)
LEMMA FrontCommitted ==
  ASSUME TypeOK, NothingLost, 1 \in 1..Len(running),
         committing = Len(running[1].jobs)
  PROVE  LastOf(1) = Len(committed) /\ Len(committed) \in Nat
<1>1. Before(1) = Len(committed) - committing
  BY DEF NothingLost
<1>2. Len(committed) \in Nat /\ committing \in Nat
  BY Lengths
<1> QED BY <1>1, <1>2 DEF LastOf

LEMMA HandedOverNumber ==
  ASSUME TypeOK, NothingLost
  PROVE  /\ HandedOver \in Int
         /\ running # <<>> => /\ Len(running) \in 1..Len(running)
                              /\ HandedOver = LastOf(Len(running))
<1>1. CASE running = <<>>
  BY <1>1 DEF HandedOver, TypeOK
<1>2. CASE running # <<>>
  <2>1. Len(running) \in 1..Len(running)
    BY <1>2, EmptySeq DEF TypeOK
  <2> QED BY <1>2, <2>1, BatchNumbers DEF HandedOver
<1> QED BY <1>1, <1>2

(* Steps that touch neither the threads nor the commits.                   *)
LEMMA NothingLostSame ==
  ASSUME NothingLost, running' = running, committed' = committed,
         committing' = committing, next' = next, added' = added
  PROVE  NothingLost'
BY DEF NothingLost, HandedOver, Before, LastOf

LEMMA NothingLostStep == IndInv /\ [Next]_vars => NothingLost'
<1> SUFFICES ASSUME IndInv, [Next]_vars PROVE NothingLost'
  OBVIOUS
<1> USE DEF IndInv
<1>1. ASSUME NEW w \in Works, AddJob(w) PROVE NothingLost'
  <2>1. /\ running' = running /\ committed' = committed
        /\ committing' = committing
        /\ added' = added + 1 /\ next' = Append(next, added + 1)
    BY <1>1 DEF AddJob
  <2>2. HandedOver' = HandedOver /\ HandedOver \in Int
    BY <2>1, HandedOverNumber DEF HandedOver, LastOf, Before
  <2>3. /\ Len(next) \in Nat /\ Len(next') = Len(next) + 1
        /\ \A i \in 1..Len(next) : next'[i] = next[i]
        /\ next'[Len(next) + 1] = added + 1
    <3>1. next \in Seq(Int) /\ added + 1 \in Int
      BY QueueAssumption DEF TypeOK, Jobs
    <3> QED BY <2>1, <3>1, AppendProperties
  <2>4. added = HandedOver + Len(next)
    BY DEF NothingLost
  <2>5. \A i \in 1..Len(next') : next'[i] = HandedOver' + i
    BY <2>2, <2>3, <2>4 DEF NothingLost
  <2>6. added' = HandedOver' + Len(next')
    BY <2>1, <2>2, <2>3 DEF NothingLost
  <2> QED BY <2>1, <2>5, <2>6 DEF NothingLost, LastOf, Before
<1>2. CASE AddJobInline
  <2>1. /\ running = <<>> /\ next = <<>> /\ running' = running /\ next' = next
        /\ added' = added + 1 /\ committed' = Append(committed, added + 1)
    BY <1>2 DEF AddJobInline, Control
  <2>2. added = Len(committed) /\ Len(committed) \in Nat
    BY <2>1 DEF NothingLost, HandedOver, TypeOK
  <2>3. /\ Len(committed') = Len(committed) + 1
        /\ \A i \in 1..Len(committed) : committed'[i] = committed[i]
        /\ committed'[Len(committed) + 1] = added + 1
    <3>1. committed \in Seq(Int) /\ added + 1 \in Int
      BY <2>2, QueueAssumption DEF TypeOK, Jobs
    <3> QED BY <2>1, <3>1, AppendProperties
  <2>4. \A i \in 1..Len(committed') : committed'[i] = i
    BY <2>2, <2>3 DEF NothingLost
  <2>5. added' = HandedOver' + Len(next')
    BY <2>1, <2>2, <2>3 DEF HandedOver
  <2> QED BY <2>1, <2>4, <2>5 DEF NothingLost
<1>3. CASE Complete
  BY <1>3, NothingLostSame DEF Complete
<1>4. CASE SpawnFull
  BY <1>4, NothingLostSame DEF SpawnFull
<1>5. CASE SpawnStart
  <2>0. PICK n \in Nat : n = Len(running)
    BY DEF TypeOK
  <2>1. /\ Len(next) \in Nat /\ next # <<>>
        /\ next' = <<>> /\ committed' = committed /\ added' = added
        /\ committing' = committing /\ committing = 0
    BY <1>5 DEF SpawnStart, TypeOK, Control
  <2>2. /\ Len(running') = n + 1 /\ running' # <<>>
        /\ \A k \in 1..n : running'[k] = running[k]
        /\ running'[n + 1].jobs = next
    BY <1>5, <2>0, <2>1, StartShape, EmptySeq
  <2>3. \A k \in 1..n : Before(k)' = Before(k) /\ LastOf(k)' = LastOf(k)
    BY <2>0, <2>2 DEF Before, LastOf
  <2>4. /\ Before(n + 1)' = HandedOver
        /\ LastOf(n + 1)' = HandedOver + Len(next)
        /\ HandedOver' = LastOf(n + 1)'
        /\ HandedOver \in Int
    <3>1. next[1] = HandedOver + 1 /\ HandedOver \in Int
      BY <2>1, HandedOverNumber, EmptySeq DEF NothingLost, TypeOK
    <3> QED BY <2>0, <2>2, <3>1 DEF Before, LastOf, HandedOver
  <2>5. ASSUME NEW k \in 1..Len(running')
        PROVE  /\ running'[k].jobs # <<>>
               /\ \A i \in 1..Len(running'[k].jobs) :
                    running'[k].jobs[i] = Before(k)' + i
               /\ k = 1 => Before(k)' = Len(committed') - committing'
               /\ k > 1 => Before(k)' = LastOf(k - 1)'
    <3>1. CASE k \in 1..n
      BY <2>0, <2>1, <2>2, <2>3, <3>1 DEF NothingLost
    <3>2. CASE k = n + 1
      <4>1. n = 0 => HandedOver = Len(committed)
        BY <2>0, EmptySeq DEF HandedOver, TypeOK
      <4>2. n > 0 => HandedOver = LastOf(n)
        BY <2>0, HandedOverNumber
      <4>3. Len(committed) \in Nat
        BY DEF TypeOK
      <4>4. k = 1 => Before(k)' = Len(committed') - committing'
        BY <2>1, <2>4, <3>2, <4>1, <4>3
      <4>5. k > 1 => Before(k)' = LastOf(k - 1)'
        BY <2>1, <2>3, <2>4, <3>2, <4>2
      <4> QED BY <2>1, <2>2, <2>4, <3>2, <4>4, <4>5 DEF NothingLost
    <3> QED BY <2>0, <2>2, <3>1, <3>2
  <2>6. added' = HandedOver' + Len(next')
    BY <2>1, <2>4 DEF NothingLost
  <2> QED BY <2>1, <2>5, <2>6 DEF NothingLost
<1>6. CASE Drain
  BY <1>6, NothingLostSame DEF Drain
<1>7. CASE Join
  BY <1>7, NothingLostSame DEF Join
<1>8. CASE CommitJob
  <2>1. /\ 1 \in 1..Len(running) /\ committing \in Nat
        /\ committing + 1 \in 1..Len(running[1].jobs)
    BY <1>8, BatchType DEF CommitJob, Control, TypeOK
  <2>2. running[1].jobs[committing + 1] = Len(committed) + 1
    BY <2>1, BatchNumbers DEF NothingLost, TypeOK
  <2>3. /\ Len(committed) \in Nat /\ Len(committed') = Len(committed) + 1
        /\ \A i \in 1..Len(committed) : committed'[i] = committed[i]
        /\ committed'[Len(committed) + 1] = Len(committed) + 1
    <3>1. committed \in Seq(Int) /\ Len(committed) + 1 \in Int
      BY QueueAssumption DEF TypeOK, Jobs
    <3> QED BY <1>8, <2>2, <3>1, AppendProperties DEF CommitJob
  <2>4. /\ committing' = committing + 1 /\ running' = running
        /\ next' = next /\ added' = added
    BY <1>8 DEF CommitJob
  <2>5. HandedOver' = HandedOver
    BY <2>1, <2>4, EmptySeq DEF HandedOver, LastOf, Before
  <2>6. \A k \in 1..Len(running) : /\ Before(k)' = Before(k)
                                  /\ LastOf(k)' = LastOf(k)
                                  /\ Before(k) \in Int
    BY <2>4, BatchNumbers DEF LastOf, Before
  <2>7. \A i \in 1..Len(committed') : committed'[i] = i
    BY <2>3 DEF NothingLost
  <2>8. ASSUME NEW k \in 1..Len(running)
        PROVE  k > 1 => LastOf(k - 1)' = LastOf(k - 1)
    BY <2>6
  <2>9. ASSUME NEW k \in 1..Len(running)
        PROVE  /\ k = 1 => Before(k)' = Len(committed') - committing'
               /\ k > 1 => Before(k)' = LastOf(k - 1)'
    BY <2>1, <2>3, <2>4, <2>6, <2>8 DEF NothingLost
  <2> QED BY <2>4, <2>5, <2>6, <2>7, <2>9 DEF NothingLost
<1>9. CASE PopThread
  <2>0. PICK n \in Nat : n = Len(running)
    BY DEF TypeOK
  <2>1. /\ n > 0 /\ Len(running') = n - 1
        /\ \A k \in 1..(n - 1) : running'[k] = running[k + 1]
        /\ next' = next /\ added' = added /\ committed' = committed
        /\ committing = Len(running[1].jobs) /\ committing' = 0
    BY <1>9, <2>0, PopShape DEF PopThread, Control
  <2>2. \A k \in 1..(n - 1) : /\ Before(k)' = Before(k + 1)
                             /\ LastOf(k)' = LastOf(k + 1)
    BY <2>1 DEF Before, LastOf
  <2>3. LastOf(1) = Len(committed) /\ Len(committed) \in Nat
    BY <2>0, <2>1, FrontCommitted
  <2>4. HandedOver' = HandedOver
    <3>1. CASE n = 1
      <4>1. running' = <<>>
        BY <1>9, <2>1, <3>1, PopShape, EmptySeq DEF Control, PopThread
      <4> QED BY <2>0, <2>1, <2>3, <3>1, <4>1, HandedOverNumber, EmptySeq
          DEF HandedOver
    <3>2. CASE n > 1
      <4>1. running' # <<>>
        BY <2>1, <3>2, EmptySeq
      <4>2. HandedOver' = LastOf(n - 1)'
        BY <2>1, <4>1 DEF HandedOver, LastOf, Before
      <4>3. HandedOver = LastOf(n)
        BY <2>0, <3>2, EmptySeq DEF HandedOver
      <4> QED BY <2>2, <3>2, <4>2, <4>3
    <3> QED BY <2>1, <3>1, <3>2
  <2>5. ASSUME NEW k \in 1..Len(running')
        PROVE  /\ running'[k].jobs # <<>>
               /\ \A i \in 1..Len(running'[k].jobs) :
                    running'[k].jobs[i] = Before(k)' + i
               /\ k = 1 => Before(k)' = Len(committed') - committing'
               /\ k > 1 => Before(k)' = LastOf(k - 1)'
    <3>1. k \in 1..(n - 1) /\ k + 1 \in 1..Len(running) /\ k + 1 > 1
      BY <2>0, <2>1
    <3>2. Before(k)' = LastOf(k)
      BY <2>2, <3>1 DEF NothingLost
    <3>3. k = 1 => Before(k)' = Len(committed') - committing'
      BY <2>1, <2>3, <3>2
    <3>4. k > 1 => Before(k)' = LastOf(k - 1)'
      BY <2>2, <3>1, <3>2
    <3>5. running'[k].jobs = running[k + 1].jobs /\ Before(k)' = Before(k + 1)
      BY <2>1, <2>2, <3>1
    <3>6. /\ running[k + 1].jobs # <<>>
          /\ \A i \in 1..Len(running[k + 1].jobs) :
               running[k + 1].jobs[i] = Before(k + 1) + i
      BY <3>1 DEF NothingLost
    <3> QED BY <3>3, <3>4, <3>5, <3>6
  <2> QED BY <2>1, <2>4, <2>5 DEF NothingLost
<1>10. ASSUME NEW i \in 1..Len(running), Prepare(i) PROVE NothingLost'
  <2>0. PICK n \in Nat : n = Len(running)
    BY DEF TypeOK
  <2>1. /\ Len(running') = n
        /\ \A k \in 1..n : running'[k].jobs = running[k].jobs
        /\ next' = next /\ added' = added /\ committed' = committed
        /\ committing' = committing
    BY <1>10, <2>0, PrepareShape DEF Prepare
  <2>2. \A k \in 1..n : Before(k)' = Before(k) /\ LastOf(k)' = LastOf(k)
    BY <2>1 DEF Before, LastOf
  <2>3. HandedOver' = HandedOver
    <3>1. n > 0 /\ running # <<>> /\ running' # <<>>
      BY <2>0, <2>1, EmptySeq
    <3> QED BY <2>0, <2>1, <3>1 DEF HandedOver, LastOf, Before
  <2>4. \A k \in 1..n : k > 1 => LastOf(k - 1)' = LastOf(k - 1)
    BY <2>2
  <2>5. ASSUME NEW k \in 1..Len(running')
        PROVE  /\ running'[k].jobs # <<>>
               /\ \A j \in 1..Len(running'[k].jobs) :
                    running'[k].jobs[j] = Before(k)' + j
               /\ k = 1 => Before(k)' = Len(committed') - committing'
               /\ k > 1 => Before(k)' = LastOf(k - 1)'
    <3>1. /\ k \in 1..n /\ running'[k].jobs = running[k].jobs
          /\ Before(k)' = Before(k)
      BY <2>0, <2>1, <2>2
    <3>2. /\ running[k].jobs # <<>>
          /\ \A j \in 1..Len(running[k].jobs) : running[k].jobs[j] = Before(k) + j
          /\ k = 1 => Before(k) = Len(committed) - committing
          /\ k > 1 => Before(k) = LastOf(k - 1)
      BY <2>0, <3>1 DEF NothingLost
    <3>3. k > 1 => Before(k)' = LastOf(k - 1)'
      BY <2>4, <3>1, <3>2
    <3>4. k = 1 => Before(k)' = Len(committed') - committing'
      BY <2>1, <3>1, <3>2
    <3>5. \A j \in 1..Len(running'[k].jobs) :
             running'[k].jobs[j] = Before(k)' + j
      BY <3>1, <3>2
    <3> QED BY <3>1, <3>2, <3>3, <3>4, <3>5
  <2> QED BY <2>1, <2>3, <2>5 DEF NothingLost
<1>11. CASE UNCHANGED vars
  BY <1>11, NothingLostSame DEF vars
<1> QED
  BY <1>1, <1>2, <1>3, <1>4, <1>5, <1>6, <1>7, <1>8, <1>9, <1>10, <1>11
  DEF Next, Client

(* Steps that touch neither the threads, the commits nor prepare().        *)
LEMMA ProgressSame ==
  ASSUME Progress, running' = running, committed' = committed,
         prepared' = prepared
  PROVE  Progress'
BY DEF Progress, Before, LastOf

LEMMA ProgressStep == IndInv /\ [Next]_vars => Progress'
<1> SUFFICES ASSUME IndInv, [Next]_vars PROVE Progress'
  OBVIOUS
<1> USE DEF IndInv
<1>1. ASSUME NEW w \in Works, AddJob(w) PROVE Progress'
  BY <1>1, ProgressSame DEF AddJob
<1>2. CASE AddJobInline
  <2>1. /\ running = <<>> /\ next = <<>> /\ running' = running
        /\ committed' = Append(committed, added + 1)
        /\ prepared' = prepared \cup {added + 1}
    BY <1>2 DEF AddJobInline, Control
  <2>2. added = Len(committed) /\ Len(committed) \in Nat
    BY <2>1 DEF NothingLost, HandedOver, TypeOK
  <2>3. Len(committed') = Len(committed) + 1
    BY <2>1, <2>2, QueueAssumption DEF TypeOK
  <2> QED BY <2>1, <2>2, <2>3 DEF Progress, TypeOK, Jobs
<1>3. CASE Complete
  BY <1>3, ProgressSame DEF Complete
<1>4. CASE SpawnFull
  BY <1>4, ProgressSame DEF SpawnFull
<1>5. CASE SpawnStart
  <2>0. PICK n \in Nat : n = Len(running)
    BY DEF TypeOK
  <2>1. /\ Len(running') = n + 1
        /\ \A k \in 1..n : running'[k] = running[k]
        /\ running'[n + 1].jobs = next /\ running'[n + 1].ready = 0
        /\ committed' = committed /\ prepared' = prepared
        /\ Len(next) \in Nat
    BY <1>5, <2>0, StartShape DEF SpawnStart, TypeOK
  <2>2. \A k \in 1..n : Before(k)' = Before(k) /\ LastOf(k)' = LastOf(k)
    BY <2>1 DEF Before, LastOf
  <2>3. Before(n + 1)' = HandedOver /\ HandedOver \in Int
    <3>1. next[1] = HandedOver + 1 /\ HandedOver \in Int
      BY <1>5, HandedOverNumber, EmptySeq
      DEF NothingLost, TypeOK, Control, SpawnStart
    <3> QED BY <2>1, <3>1 DEF Before
  <2>4. \A k \in 1..n : LastOf(k) <= HandedOver
    <3>1. \A k \in 1..n : LastOf(k) <= LastOf(n)
      BY <2>0, BatchNumbers DEF Progress
    <3> QED BY <2>0, <3>1, HandedOverNumber, EmptySeq DEF TypeOK
  <2>5. ASSUME NEW k \in 1..(n + 1), NEW m \in 1..(n + 1), k < m
        PROVE  LastOf(k)' <= Before(m)'
    BY <2>0, <2>2, <2>3, <2>4, <2>5 DEF Progress
  <2>6. ASSUME NEW k \in 1..(n + 1)
        PROVE  /\ running'[k].ready <= Len(running'[k].jobs)
               /\ \A i \in 1..running'[k].ready : Before(k)' + i \in prepared'
    BY <2>0, <2>1, <2>2 DEF Progress
  <2>7. ASSUME NEW j \in prepared'
        PROVE  \/ j <= Len(committed')
               \/ \E k \in 1..Len(running') :
                    Before(k)' < j /\ j <= Before(k)' + running'[k].ready
    BY <2>0, <2>1, <2>2 DEF Progress
  <2> QED BY <2>1, <2>5, <2>6, <2>7 DEF Progress
<1>6. CASE Drain
  BY <1>6, ProgressSame DEF Drain
<1>7. CASE Join
  BY <1>7, ProgressSame DEF Join
<1>8. CASE CommitJob
  <2>1. /\ 1 \in 1..Len(running) /\ Len(committed) \in Nat
        /\ committing + 1 \in 1..Len(running[1].jobs)
        /\ running[1].ready = Len(running[1].jobs)
        /\ running' = running /\ prepared' = prepared
    BY <1>8, BatchType DEF CommitJob, Control, TypeOK, Finished
  <2>2. Before(1) + (committing + 1) = Len(committed) + 1
    BY <2>1, BatchNumbers DEF NothingLost, TypeOK
  <2>3. Len(committed') = Len(committed) + 1
    BY <1>8 DEF CommitJob, TypeOK
  <2>4. Len(committed) + 1 \in prepared
    BY <2>1, <2>2 DEF Progress
  <2>5. \A k \in 1..Len(running) : Before(k)' = Before(k) /\ LastOf(k)' = LastOf(k)
    BY <2>1 DEF Before, LastOf
  <2>6. \A j \in 1..Len(committed') : j \in prepared'
    BY <2>1, <2>3, <2>4 DEF Progress
  <2>7. ASSUME NEW j \in prepared'
        PROVE  \/ j <= Len(committed')
               \/ \E k \in 1..Len(running') :
                    Before(k)' < j /\ j <= Before(k)' + running'[k].ready
    <3>1. j \in Int
      BY <2>1, QueueAssumption DEF TypeOK, Jobs
    <3> QED BY <2>1, <2>3, <2>5, <3>1 DEF Progress
  <2>8. ASSUME NEW k \in 1..Len(running'), NEW m \in 1..Len(running'), k < m
        PROVE  LastOf(k)' <= Before(m)'
    BY <2>1, <2>5, <2>8 DEF Progress
  <2>9. ASSUME NEW k \in 1..Len(running')
        PROVE  /\ running'[k].ready <= Len(running'[k].jobs)
               /\ \A i \in 1..running'[k].ready : Before(k)' + i \in prepared'
    BY <2>1, <2>5 DEF Progress
  <2> QED BY <2>6, <2>7, <2>8, <2>9 DEF Progress
<1>9. CASE PopThread
  <2>0. PICK n \in Nat : n = Len(running)
    BY DEF TypeOK
  <2>1. /\ n > 0 /\ Len(running') = n - 1
        /\ \A k \in 1..(n - 1) : running'[k] = running[k + 1]
        /\ committed' = committed /\ prepared' = prepared
        /\ committing = Len(running[1].jobs)
        /\ running[1].ready = Len(running[1].jobs)
    BY <1>9, <2>0, PopShape DEF PopThread, Control, Finished
  <2>2. \A k \in 1..(n - 1) : /\ Before(k)' = Before(k + 1)
                             /\ LastOf(k)' = LastOf(k + 1)
    BY <2>1 DEF Before, LastOf
  <2>3. LastOf(1) = Len(committed) /\ Len(committed) \in Nat
    BY <2>0, <2>1, FrontCommitted
  <2>4. ASSUME NEW k \in 1..(n - 1), NEW m \in 1..(n - 1), k < m
        PROVE  LastOf(k)' <= Before(m)'
    BY <2>0, <2>2, <2>4 DEF Progress
  <2>5. ASSUME NEW k \in 1..(n - 1)
        PROVE  /\ running'[k].ready <= Len(running'[k].jobs)
               /\ \A i \in 1..running'[k].ready : Before(k)' + i \in prepared'
    BY <2>0, <2>1, <2>2 DEF Progress
  <2>6. ASSUME NEW j \in prepared'
        PROVE  \/ j <= Len(committed')
               \/ \E k \in 1..Len(running') :
                    Before(k)' < j /\ j <= Before(k)' + running'[k].ready
    <3>1. CASE j <= Len(committed)
      BY <2>1, <3>1
    <3>2. ASSUME NEW k \in 1..n, Before(k) < j, j <= Before(k) + running[k].ready
          PROVE  \/ j <= Len(committed')
                 \/ \E m \in 1..Len(running') :
                      Before(m)' < j /\ j <= Before(m)' + running'[m].ready
      <4>1. CASE k = 1
        BY <2>1, <2>3, <3>2, <4>1 DEF LastOf
      <4>2. CASE k # 1
        <5>1. k - 1 \in 1..(n - 1) /\ (k - 1) + 1 = k
          BY <4>2
        <5> QED BY <2>1, <2>2, <3>2, <5>1
      <4> QED BY <4>1, <4>2
    <3> QED BY <2>0, <2>1, <3>1, <3>2 DEF Progress
  <2> QED BY <2>1, <2>4, <2>5, <2>6 DEF Progress
<1>10. ASSUME NEW i \in 1..Len(running), Prepare(i) PROVE Progress'
  <2>0. PICK n \in Nat : n = Len(running)
    BY DEF TypeOK
  <2>1. /\ i \in 1..n /\ Len(running') = n
        /\ \A k \in 1..n : /\ running'[k].jobs = running[k].jobs
                           /\ k # i => running'[k].ready = running[k].ready
        /\ running'[i].ready = running[i].ready + 1
        /\ committed' = committed
    BY <1>10, <2>0, PrepareShape DEF Prepare
  <2>2. \A k \in 1..n : Before(k)' = Before(k) /\ LastOf(k)' = LastOf(k)
    BY <2>1 DEF Before, LastOf
  <2>3. /\ running[i].ready \in Nat /\ Before(i) \in Int
        /\ running[i].ready + 1 \in 1..Len(running[i].jobs)
    BY <1>10, NextToPrepare, BatchNumbers
  <2>4. prepared' = prepared \cup {Before(i) + (running[i].ready + 1)}
    BY <1>10, <2>3, BatchNumbers DEF Prepare
  <2>5. ASSUME NEW k \in 1..n
        PROVE  /\ running'[k].ready <= Len(running'[k].jobs)
               /\ \A j \in 1..running'[k].ready : Before(k)' + j \in prepared'
    <3>1. CASE k = i
      <4>1. \A j \in 1..running[i].ready : Before(i) + j \in prepared
        BY DEF Progress
      <4>2. \A j \in 1..(running[i].ready + 1) :
              j \in 1..running[i].ready \/ j = running[i].ready + 1
        BY <2>3
      <4>3. \A j \in 1..(running[i].ready + 1) : Before(i) + j \in prepared'
        BY <2>4, <4>1, <4>2
      <4>4. running'[i].ready = running[i].ready + 1 /\ Before(i)' = Before(i)
            /\ running'[i].jobs = running[i].jobs
        BY <2>1, <2>2
      <4>5. running'[i].ready <= Len(running'[i].jobs)
        BY <2>3, <4>4
      <4> QED BY <3>1, <4>3, <4>4, <4>5
    <3>2. CASE k # i
      BY <2>0, <2>1, <2>2, <2>4, <3>2 DEF Progress
    <3> QED BY <3>1, <3>2
  <2>6. ASSUME NEW j \in prepared'
        PROVE  \/ j <= Len(committed')
               \/ \E k \in 1..n :
                    Before(k)' < j /\ j <= Before(k)' + running'[k].ready
    <3>1. CASE j = Before(i) + (running[i].ready + 1)
      <4>1. Before(i)' = Before(i) /\ running'[i].ready = running[i].ready + 1
        BY <2>1, <2>2
      <4>2. Before(i) < j /\ j <= Before(i) + (running[i].ready + 1)
        BY <2>3, <3>1
      <4>3. Before(i)' < j /\ j <= Before(i)' + running'[i].ready
        BY <4>1, <4>2
      <4> QED BY <2>1, <4>3
    <3>2. CASE j \in prepared /\ j <= Len(committed)
      BY <2>1, <3>2
    <3>3. ASSUME NEW k \in 1..n, Before(k) < j, j <= Before(k) + running[k].ready
          PROVE  Before(k)' < j /\ j <= Before(k)' + running'[k].ready
      <4>1. Before(k) \in Int /\ running[k].ready \in Nat
        BY <2>0, BatchNumbers, BatchType
      <4>2. \A p \in prepared : p \in Int
        BY QueueAssumption DEF TypeOK, Jobs
      <4>3. j \in Int
        BY <2>3, <2>4, <4>2
      <4> QED BY <2>1, <2>2, <3>3, <4>1, <4>3
    <3> QED BY <2>0, <2>4, <3>1, <3>2, <3>3 DEF Progress
  <2>7. ASSUME NEW k \in 1..n, NEW m \in 1..n, k < m
        PROVE  LastOf(k)' <= Before(m)'
    BY <2>0, <2>2, <2>7 DEF Progress
  <2>8. \A j \in 1..Len(committed') : j \in prepared'
    BY <2>1, <2>4 DEF Progress
  <2> QED BY <2>1, <2>5, <2>6, <2>7, <2>8 DEF Progress
<1>11. CASE UNCHANGED vars
  BY <1>11, ProgressSame DEF vars
<1> QED
  BY <1>1, <1>2, <1>3, <1>4, <1>5, <1>6, <1>7, <1>8, <1>9, <1>10, <1>11
  DEF Next, Client

LEMMA Inductive == Spec => []IndInv
<1>1. IndInv /\ [Next]_vars => IndInv'
  BY TypeStep, ControlStep, NothingLostStep, ProgressStep DEF IndInv
<1> QED BY <1>1, InitInv, PTL DEF Spec
-----------------------------------------------------------------------------
(* Every variable keeps its type, for any number of jobs and threads.      *)
THEOREM TypeCorrect == Spec => []TypeOK
<1>1. IndInv => TypeOK
  BY DEF IndInv
<1> QED BY <1>1, Inductive, PTL

(* add_job, spawn_next_thread and commit_thread never lose, duplicate or   *)
(* reorder a job, whatever the batches and however the threads interleave. *)
THEOREM NothingIsLost == Spec => []NothingLost
<1>1. IndInv => NothingLost
  BY DEF IndInv
<1> QED BY <1>1, Inductive, PTL

(* commit() runs only on jobs whose prepare() is over and whose thread was *)
(* joined: the two halves of a job never race.                             *)
THEOREM NoRace == Spec => []NoPrepareCommitRace
<1>1. IndInv => NoPrepareCommitRace
  BY DEF IndInv, NoPrepareCommitRace, NothingLost, Progress, Control
<1> QED BY <1>1, Inductive, PTL

(* There are never more threads than configuration::worker_threads.        *)
THEOREM ThreadsBounded == Spec => []ThreadLimit
<1>1. IndInv => ThreadLimit
  BY DEF IndInv, Control
<1> QED BY <1>1, Inductive, PTL

(* When complete() leaves its loop, everything was committed.              *)
THEOREM DrainIsComplete == Spec => DrainLeavesNothing
<1>1. ASSUME IndInv, Next, pc = "drain", pc' = "done"
      PROVE  Len(committed') = added' /\ running' = <<>>
  <2>1. CASE Drain
    BY <1>1, <2>1 DEF Drain, IndInv, Control, NothingLost, HandedOver, TypeOK
  <2>2. ASSUME NEW i \in 1..Len(running), Prepare(i) PROVE FALSE
    BY <1>1, <2>2 DEF Prepare
  <2> QED
    BY <1>1, <2>1, <2>2
    DEF Next, Client, AddJob, AddJobInline, Complete, SpawnFull, SpawnStart,
        Join, CommitJob, PopThread
<1>2. IndInv /\ [Next]_vars =>
        [pc = "drain" /\ pc' = "done" =>
           Len(committed') = added' /\ running' = <<>>]_vars
  BY <1>1
<1> QED BY <1>2, Inductive, PTL DEF Spec, DrainLeavesNothing
-----------------------------------------------------------------------------
(* The queue implements OrderedCommits: every step of the queue is a step  *)
(* of the promise, or changes nothing the promise speaks about.            *)
LEMMA StepRefines ==
  ASSUME IndInv, IndInv', [Next]_vars
  PROVE  [Promise!Next]_<<added, prepared, committed>>
<1> USE DEF IndInv
<1>1. ASSUME NEW w \in Works, AddJob(w) PROVE Promise!Next
  BY <1>1 DEF AddJob, Promise!Next, Promise!Add
<1>2. CASE AddJobInline
  <2>1. running = <<>> /\ next = <<>>
    BY <1>2 DEF AddJobInline, Control
  <2>2. Len(committed) = added
    BY <2>1 DEF NothingLost, HandedOver, TypeOK
  <2> QED BY <1>2, <2>2 DEF AddJobInline, Promise!Next, Promise!AddAndRun
<1>3. CASE CommitJob
  <2>1. /\ 1 \in 1..Len(running) /\ committing \in Nat
        /\ committing + 1 \in 1..Len(running[1].jobs)
        /\ running[1].ready = Len(running[1].jobs)
    BY <1>3, BatchType DEF CommitJob, Control, TypeOK, Finished
  <2>2. Before(1) = Len(committed) - committing /\ Before(1) \in Int
    BY <2>1, BatchNumbers DEF NothingLost
  <2>3. Before(1) + (committing + 1) = Len(committed) + 1
    BY <2>1, <2>2 DEF TypeOK
  <2>4. running[1].jobs[committing + 1] = Len(committed) + 1
    BY <2>1, <2>3, BatchNumbers
  <2>5. Len(committed) + 1 \in prepared
    BY <2>1, <2>3 DEF Progress
  <2> QED BY <1>3, <2>4, <2>5 DEF CommitJob, Promise!Next, Promise!Commit
<1>4. ASSUME NEW i \in 1..Len(running), Prepare(i) PROVE Promise!Next
  <2> DEFINE j == Before(i) + (running[i].ready + 1)
  <2>1. /\ running[i].ready \in Nat /\ Before(i) \in Int
        /\ Len(running[i].jobs) \in Nat
        /\ running[i].ready + 1 \in 1..Len(running[i].jobs)
    BY <1>4, NextToPrepare, BatchNumbers
  <2>2. prepared' = prepared \cup {j} /\ UNCHANGED <<added, committed>>
    BY <1>4, <2>1, BatchNumbers DEF Prepare
  <2>3. j \in 1..added
    <3>1. Before(i) >= 0
      <4>1. 1 \in 1..Len(running[i].jobs)
        BY <2>1
      <4>2. running[i].jobs[1] \in Jobs
        BY <4>1, BatchType, ElementOfSeq
      <4> QED BY <4>2, QueueAssumption DEF Before, Jobs
    <3>2. LastOf(i) <= HandedOver
      <4> DEFINE n == Len(running)
      <4>1. running # <<>> /\ n \in Nat /\ i <= n
        BY EmptySeq DEF TypeOK
      <4>2. HandedOver = LastOf(n) /\ n \in 1..Len(running)
        BY <4>1, HandedOverNumber
      <4>3. Before(n) < LastOf(n) /\ Before(n) \in Int /\ LastOf(n) \in Int
        BY <4>2, BatchNumbers
      <4>4. i < n => LastOf(i) <= Before(n)
        BY <4>2 DEF Progress
      <4>5. LastOf(i) \in Int
        BY BatchNumbers
      <4> HIDE DEF n
      <4> QED BY <4>1, <4>2, <4>3, <4>4, <4>5
    <3>3. HandedOver <= added
      BY HandedOverNumber, Lengths DEF NothingLost
    <3>4. added \in Int /\ HandedOver \in Int
      BY HandedOverNumber, QueueAssumption DEF TypeOK
    <3>5. LastOf(i) = Before(i) + Len(running[i].jobs)
      BY DEF LastOf
    <3>6. PICK f \in Int, r \in Nat, size \in Nat :
            f = Before(i) /\ r = running[i].ready /\ size = Len(running[i].jobs)
      BY <2>1
    <3>7. f >= 0 /\ r + 1 <= size /\ f + size <= HandedOver
      BY <2>1, <3>1, <3>2, <3>5, <3>6
    <3>8. 1 <= f + (r + 1) /\ f + (r + 1) <= added
      BY <3>3, <3>4, <3>7
    <3>9. f + (r + 1) \in 1..added
      BY <3>4, <3>8
    <3> QED BY <3>6, <3>9
  <2>4. j \notin prepared
    <3>1. ~(j <= Len(committed))
      <4>1. Before(1) = Len(committed) - committing /\ 1 \in 1..Len(running)
        BY DEF NothingLost
      <4>2. /\ Before(1) \in Int /\ Len(running[1].jobs) \in Nat
            /\ Len(committed) \in Nat /\ committing \in Nat
        BY <4>1, BatchNumbers, BatchType, Lengths
      <4>3. Before(i) >= Len(committed)
        <5>1. CASE pc = "commit"
          <6>1. i # 1 /\ committing <= Len(running[1].jobs)
            BY <1>4, <5>1 DEF Control, Prepare
          <6>2. 1 < i
            BY <6>1
          <6>3. LastOf(1) <= Before(i)
            BY <4>1, <6>2 DEF Progress
          <6> QED BY <2>1, <4>1, <4>2, <6>1, <6>3 DEF LastOf
        <5>2. CASE pc # "commit"
          <6>1. Before(1) = Len(committed)
            BY <4>1, <4>2, <5>2 DEF Control
          <6>2. CASE i = 1
            BY <6>1, <6>2, <2>1
          <6>3. CASE i # 1
            <7>0. 1 < i
              BY <6>3
            <7>1. LastOf(1) <= Before(i)
              BY <4>1, <7>0 DEF Progress
            <7> QED BY <2>1, <4>2, <6>1, <7>1 DEF LastOf
          <6> QED BY <6>2, <6>3
        <5> QED BY <5>1, <5>2
      <4> QED BY <2>1, <4>2, <4>3
    <3>2. ASSUME NEW k \in 1..Len(running),
                 Before(k) < j, j <= Before(k) + running[k].ready
          PROVE  FALSE
      <4>1. /\ Before(k) \in Int /\ running[k].ready \in Nat
            /\ Len(running[k].jobs) \in Nat
            /\ running[k].ready <= Len(running[k].jobs)
        BY BatchNumbers, BatchType DEF Progress
      <4>2. j \in Int /\ Before(i) < j /\ j <= Before(i) + Len(running[i].jobs)
        BY <2>1
      <4> HIDE DEF j
      <4>3. CASE k = i
        <5>1. j = Before(i) + (running[i].ready + 1)
          BY DEF j
        <5> QED BY <2>1, <3>2, <4>3, <5>1
      <4>4. CASE k < i
        <5>1. Before(k) + Len(running[k].jobs) <= Before(i)
          BY <4>4 DEF Progress, LastOf
        <5> QED BY <2>1, <3>2, <4>1, <4>2, <5>1
      <4>5. CASE i < k
        <5>1. Before(i) + Len(running[i].jobs) <= Before(k)
          BY <4>5 DEF Progress, LastOf
        <5> QED BY <2>1, <3>2, <4>1, <4>2, <5>1
      <4> QED BY <4>3, <4>4, <4>5
    <3> QED BY <3>1, <3>2 DEF Progress
  <2> QED BY <2>2, <2>3, <2>4 DEF Promise!Next, Promise!Prepare
<1>5. CASE UNCHANGED <<added, prepared, committed>>
  BY <1>5
<1> QED
  BY <1>1, <1>2, <1>3, <1>4, <1>5
  DEF Next, Client, Complete, SpawnFull, SpawnStart, Drain, Join, PopThread,
      vars

THEOREM KeepsPromise == Spec => CommitsInOrder
<1>1. Init => Promise!Init
  BY DEF Init, Promise!Init
<1>2. IndInv /\ IndInv' /\ [Next]_vars =>
        [Promise!Next]_<<added, prepared, committed>>
  BY StepRefines
<1> QED
  BY <1>1, <1>2, Inductive, PTL DEF Spec, CommitsInOrder, Promise!Spec
=============================================================================
