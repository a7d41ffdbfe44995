--------------------- MODULE SQLiteTransactions_proofs ---------------------
(***************************************************************************)
(* Proofs about SQLiteTransactions for any number of tasks, processes and   *)
(* records: the lock of a backend and its waiters stay consistent through   *)
(* every failure, cancellation and crash; at most one transaction is open   *)
(* on the file; and blocks are atomic and serial: each takes effect at its   *)
(* COMMIT, against the records of that instant, or not at all.              *)
(***************************************************************************)
EXTENDS SQLiteTransactions, SequenceTheorems, FiniteSetTheorems, WellFoundedInduction,
        TLAPS

\* u waits in the queue q.
In(u, q) == \E i \in DOMAIN q : q[i] = u

\* The waiters of a lock: each once.
Queue(q) == q \in Seq(Tasks) /\ IsInjective(q)

-----------------------------------------------------------------------------
\* A task that does not wait yet goes to the end of the queue.
LEMMA QueueAppend ==
  ASSUME NEW q, Queue(q), NEW t \in Tasks, ~In(t, q)
  PROVE  /\ Queue(Append(q, t))
         /\ \A u : In(u, Append(q, t)) <=> In(u, q) \/ u = t
<1>1. /\ q \in Seq(Tasks) /\ Len(q) \in Nat /\ DOMAIN q = 1..Len(q)
      /\ \A i, j \in 1..Len(q) : q[i] = q[j] => i = j
  BY DEF Queue, IsInjective
<1> DEFINE a == Append(q, t)
<1>2. /\ a \in Seq(Tasks) /\ DOMAIN a = 1..(Len(q) + 1)
      /\ \A i \in 1..Len(q) : a[i] = q[i]
      /\ a[Len(q) + 1] = t
  BY <1>1, AppendProperties
<1>. HIDE DEF a
<1>3. \A i \in 1..Len(q) : q[i] # t
  BY <1>1 DEF In
<1>4. \A i \in 1..(Len(q) + 1) : i \in 1..Len(q) \/ i = Len(q) + 1
  BY <1>1
<1>5. IsInjective(a)
  BY <1>1, <1>2, <1>3, <1>4 DEF IsInjective
<1>6. \A u : In(u, a) <=> In(u, q) \/ u = t
  BY <1>1, <1>2, <1>4 DEF In
<1>. QED
  BY <1>2, <1>5, <1>6 DEF Queue, a

\* The first waiter leaves the queue.
LEMMA QueueTail ==
  ASSUME NEW q, Queue(q), q # <<>>
  PROVE  /\ Queue(Tail(q))
         /\ Head(q) \in Tasks
         /\ In(Head(q), q)
         /\ \A u : In(u, Tail(q)) <=> In(u, q) /\ u # Head(q)
<1>1. /\ q \in Seq(Tasks) /\ Len(q) \in Nat \ {0} /\ DOMAIN q = 1..Len(q)
      /\ \A i, j \in 1..Len(q) : q[i] = q[j] => i = j
  BY EmptySeq DEF Queue, IsInjective
<1> DEFINE b == Tail(q)
<1>2. /\ b \in Seq(Tasks) /\ DOMAIN b = 1..(Len(q) - 1)
      /\ \A i \in 1..(Len(q) - 1) : b[i] = q[i + 1]
      /\ Head(q) \in Tasks /\ Head(q) = q[1]
  BY <1>1, HeadTailProperties
<1>. HIDE DEF b
<1>3. \A i \in 1..(Len(q) - 1) : i + 1 \in 1..Len(q) /\ i + 1 # 1
  BY <1>1
<1>4. \A i \in 1..Len(q) : i = 1 \/ (i - 1 \in 1..(Len(q) - 1) /\ (i - 1) + 1 = i)
  BY <1>1
<1>5. ASSUME NEW i \in 1..(Len(q) - 1), NEW j \in 1..(Len(q) - 1), b[i] = b[j]
      PROVE  i = j
  <2>1. i + 1 = j + 1
    BY <1>1, <1>2, <1>3, <1>5
  <2>. QED
    BY <2>1
<1>6. IsInjective(b)
  BY <1>2, <1>5 DEF IsInjective
<1>7. 1 \in 1..Len(q)
  BY <1>1
<1>8. ASSUME NEW u
      PROVE  In(u, b) <=> In(u, q) /\ u # Head(q)
  <2>1. ASSUME NEW i \in 1..(Len(q) - 1), b[i] = u
        PROVE  In(u, q) /\ u # Head(q)
    BY <1>1, <1>2, <1>3, <1>7, <2>1 DEF In
  <2>2. ASSUME NEW i \in 1..Len(q), q[i] = u, u # Head(q)
        PROVE  In(u, b)
    <3>1. i - 1 \in 1..(Len(q) - 1) /\ (i - 1) + 1 = i
      BY <1>2, <1>4, <2>2
    <3>2. b[i - 1] = u
      BY <1>2, <2>2, <3>1
    <3>. QED
      BY <1>2, <3>1, <3>2 DEF In
  <2>. QED
    BY <1>1, <1>2, <2>1, <2>2 DEF In
<1>. QED
  BY <1>1, <1>2, <1>6, <1>7, <1>8 DEF Queue, In, b

\* A cancelled waiter leaves the queue from wherever it is.
LEMMA QueueRemove ==
  ASSUME NEW q, Queue(q), NEW k \in DOMAIN q
  PROVE  /\ Queue(RemoveAt(q, k))
         /\ \A u : In(u, RemoveAt(q, k)) <=> In(u, q) /\ u # q[k]
<1>1. /\ q \in Seq(Tasks) /\ Len(q) \in Nat /\ DOMAIN q = 1..Len(q)
      /\ \A i, j \in 1..Len(q) : q[i] = q[j] => i = j
  BY DEF Queue, IsInjective
<1>2. k \in 1..Len(q) /\ k \in Int
  BY <1>1
<1> DEFINE n == Len(q)
           l == SubSeq(q, 1, k - 1)
           r == SubSeq(q, k + 1, n)
           b == RemoveAt(q, k)
<1>3. /\ l \in Seq(Tasks) /\ Len(l) = k - 1
      /\ \A i \in 1..(k - 1) : l[i] = q[i]
  <2>1. \A i \in 1..(k - 1) : q[i] \in Tasks
    BY <1>1, <1>2, ElementOfSeq
  <2>2. /\ l \in Seq(Tasks)
        /\ Len(l) = IF 1 <= k - 1 THEN (k - 1) - 1 + 1 ELSE 0
        /\ \A i \in 1..((k - 1) - 1 + 1) : l[i] = q[1 + i - 1]
    BY <1>2, <2>1, SubSeqProperties
  <2>3. Len(l) = k - 1
    BY <1>2, <2>2
  <2>4. ASSUME NEW i \in 1..(k - 1)
        PROVE  l[i] = q[i]
    <3>1. i \in 1..((k - 1) - 1 + 1) /\ 1 + i - 1 = i
      BY <1>2
    <3>. QED
      BY <2>2, <3>1
  <2>. QED
    BY <2>2, <2>3, <2>4
<1>4. /\ r \in Seq(Tasks) /\ Len(r) = n - k
      /\ \A i \in 1..(n - k) : r[i] = q[k + i]
  <2>1. \A i \in (k + 1)..n : q[i] \in Tasks
    BY <1>1, <1>2, ElementOfSeq
  <2>2. n \in Int /\ k + 1 \in Int
    BY <1>1, <1>2
  <2>3. /\ r \in Seq(Tasks)
        /\ Len(r) = IF k + 1 <= n THEN n - (k + 1) + 1 ELSE 0
        /\ \A i \in 1..(n - (k + 1) + 1) : r[i] = q[(k + 1) + i - 1]
    BY <2>1, <2>2, SubSeqProperties
  <2>4. Len(r) = n - k
    BY <1>1, <1>2, <2>3
  <2>5. ASSUME NEW i \in 1..(n - k)
        PROVE  r[i] = q[k + i]
    <3>1. i \in 1..(n - (k + 1) + 1) /\ (k + 1) + i - 1 = k + i
      BY <1>1, <1>2
    <3>. QED
      BY <2>3, <3>1
  <2>. QED
    BY <2>3, <2>4, <2>5
<1>. HIDE DEF l, r
<1>5. b = l \o r
  BY DEF RemoveAt, l, r
<1>. HIDE DEF b
<1>6. /\ b \in Seq(Tasks) /\ Len(b) = n - 1
      /\ \A i \in 1..(n - 1) : b[i] = IF i < k THEN q[i] ELSE q[i + 1]
  <2>1. /\ b \in Seq(Tasks) /\ Len(b) = (k - 1) + (n - k)
        /\ \A i \in 1..((k - 1) + (n - k)) :
              b[i] = IF i <= k - 1 THEN l[i] ELSE r[i - (k - 1)]
    <3>1. /\ b \in Seq(Tasks) /\ Len(b) = Len(l) + Len(r)
          /\ \A i \in 1..(Len(l) + Len(r)) :
                b[i] = IF i <= Len(l) THEN l[i] ELSE r[i - Len(l)]
      BY <1>3, <1>4, <1>5, ConcatProperties
    <3>. QED
      BY <1>3, <1>4, <3>1
  <2>2. (k - 1) + (n - k) = n - 1
    BY <1>1, <1>2
  <2>3. ASSUME NEW i \in 1..(n - 1)
        PROVE  b[i] = IF i < k THEN q[i] ELSE q[i + 1]
    <3>1. CASE i < k
      <4>1. i \in 1..(k - 1) /\ i <= k - 1
        BY <1>2, <3>1
      <4>. QED
        BY <1>3, <2>1, <2>2, <3>1, <4>1
    <3>2. CASE ~(i < k)
      <4>1. i - (k - 1) \in 1..(n - k) /\ k + (i - (k - 1)) = i + 1 /\ ~(i <= k - 1)
        BY <1>1, <1>2, <3>2
      <4>. QED
        BY <1>4, <2>1, <2>2, <3>2, <4>1
    <3>. QED
      BY <3>1, <3>2
  <2>. QED
    BY <2>1, <2>2, <2>3
<1>7. DOMAIN b = 1..(n - 1)
  BY <1>6
\* Where an element of what is left was before.
<1> DEFINE was(i) == IF i < k THEN i ELSE i + 1
<1>8. ASSUME NEW i \in 1..(n - 1)
      PROVE  was(i) \in 1..n /\ was(i) # k /\ b[i] = q[was(i)]
  BY <1>1, <1>2, <1>6
<1>9. ASSUME NEW j \in 1..n, j # k
      PROVE  \E i \in 1..(n - 1) : was(i) = j
  <2>1. CASE j < k
    <3>1. j \in 1..(n - 1) /\ was(j) = j
      BY <1>1, <1>2, <2>1
    <3>. QED
      BY <3>1
  <2>2. CASE ~(j < k)
    <3>1. j - 1 \in 1..(n - 1) /\ was(j - 1) = j
      BY <1>1, <1>2, <1>9, <2>2
    <3>. QED
      BY <3>1
  <2>. QED
    BY <2>1, <2>2
<1>10. ASSUME NEW i \in 1..(n - 1), NEW j \in 1..(n - 1), was(i) = was(j)
       PROVE  i = j
  BY <1>1, <1>2, <1>10
<1>. HIDE DEF was
<1>11. IsInjective(b)
  BY <1>1, <1>7, <1>8, <1>10 DEF IsInjective
<1>12. ASSUME NEW u
       PROVE  In(u, b) <=> In(u, q) /\ u # q[k]
  <2>1. ASSUME NEW i \in 1..(n - 1), b[i] = u
        PROVE  In(u, q) /\ u # q[k]
    BY <1>1, <1>2, <1>8, <2>1 DEF In
  <2>2. ASSUME NEW j \in 1..n, q[j] = u, u # q[k]
        PROVE  In(u, b)
    BY <1>7, <1>8, <1>9, <2>2 DEF In
  <2>. QED
    BY <1>1, <1>7, <2>1, <2>2 DEF In
<1>. QED
  BY <1>6, <1>11, <1>12 DEF Queue, b

-----------------------------------------------------------------------------
Waiting == {"init_wait", "lock_wait"}

\* A task in its critical section holds the lock, one that waits is in the queue.
InSection(t) ==
    /\ pc[t] \in Critical => holder[Process[t]] = t
    /\ pc[t] \in Waiting <=> In(t, queue[Process[t]])

LockInv ==
    /\ pc \in [Tasks -> States]
    /\ holder \in [Processes -> Tasks \cup {None}]
    /\ queue \in [Processes -> Seq(Tasks)]
    /\ \A p \in Processes : IsInjective(queue[p])
    /\ \A t \in Tasks : InSection(t)

\* A step of t alone: the lock changes hands only when nobody else has it, and
\* the others keep their places.
TaskStep(t) ==
    LET p == Process[t]
    IN  /\ pc' \in [Tasks -> States]
        /\ \A u \in Tasks \ {t} : pc'[u] = pc[u]
        /\ holder' \in [Processes -> Tasks \cup {None}]
        /\ \/ holder' = holder
           \/ /\ holder[p] \in {None, t}
              /\ \A o \in Processes \ {p} : holder'[o] = holder[o]
        /\ queue' \in [Processes -> Seq(Tasks)]
        /\ \A o \in Processes \ {p} : queue'[o] = queue[o]
        /\ IsInjective(queue'[p])
        /\ \A u \in Tasks \ {t} : In(u, queue'[p]) <=> In(u, queue[p])

LEMMA TaskStepKeeps ==
  ASSUME LockInv, NEW t \in Tasks, TaskStep(t), InSection(t)'
  PROVE  LockInv'
<1>1. Process[t] \in Processes /\ \A u \in Tasks : Process[u] \in Processes
  BY TransactionAssumption DEF TransactionAssumption
<1>2. ASSUME NEW o \in Processes
      PROVE  IsInjective(queue'[o])
  BY <1>2 DEF LockInv, TaskStep
<1>3. ASSUME NEW u \in Tasks, u # t
      PROVE  InSection(u)'
  <2>1. pc'[u] = pc[u] /\ InSection(u)
    BY <1>3 DEF LockInv, TaskStep
  <2>2. In(u, queue'[Process[u]]) <=> In(u, queue[Process[u]])
    BY <1>1, <1>3 DEF TaskStep
  <2>3. pc[u] \in Critical => holder'[Process[u]] = u
    BY <1>1, <1>3, <2>1, TransactionAssumption
    DEF TaskStep, InSection, TransactionAssumption
  <2>. QED
    BY <2>1, <2>2, <2>3 DEF InSection
<1>. QED
  BY <1>2, <1>3 DEF LockInv, TaskStep

\* Steps that leave the lock alone and do not begin or end a wait.
LEMMA InsideKeeps ==
  ASSUME LockInv, NEW t \in Tasks, NEW s \in States \ Waiting,
         pc[t] \notin Waiting, s \in Critical => pc[t] \in Critical,
         Goto(t, s), UNCHANGED <<holder, queue>>
  PROVE  LockInv'
<1>1. Process[t] \in Processes
  BY TransactionAssumption DEF TransactionAssumption
<1>2. TaskStep(t)
  BY <1>1 DEF LockInv, TaskStep, Goto
<1>3. pc'[t] = s
  BY DEF LockInv, Goto
<1>4. InSection(t)'
  BY <1>3 DEF LockInv, InSection
<1>. QED
  BY <1>2, <1>4, TaskStepKeeps

\* The lock is given back by the task that has it.
LEMMA ReleaseKeeps ==
  ASSUME LockInv, NEW t \in Tasks, NEW s \in Ended,
         pc[t] \in Critical, Goto(t, s), Release(t), UNCHANGED queue
  PROVE  LockInv'
<1>1. Process[t] \in Processes
  BY TransactionAssumption DEF TransactionAssumption
<1>2. holder[Process[t]] = t
  BY DEF LockInv, InSection
<1>3. TaskStep(t)
  BY <1>1, <1>2 DEF LockInv, TaskStep, Goto, Release, States
<1>4. pc'[t] = s
  BY DEF LockInv, Goto
<1>5. InSection(t)'
  BY <1>4 DEF LockInv, InSection, Critical, Waiting, Ended
<1>. QED
  BY <1>3, <1>5, TaskStepKeeps

LEMMA EnterKeeps ==
  ASSUME LockInv, NEW t \in Tasks, Enter(t)
  PROVE  LockInv'
<1> DEFINE p == Process[t]
<1>1. p \in Processes
  BY TransactionAssumption DEF TransactionAssumption
<1>2. Queue(queue[p]) /\ ~In(t, queue[p])
  BY <1>1 DEF LockInv, InSection, Queue, Enter, Waiting
<1>3. /\ Queue(Append(queue[p], t))
      /\ \A u : In(u, Append(queue[p], t)) <=> In(u, queue[p]) \/ u = t
  BY <1>2, QueueAppend
<1>4. queue'[p] = Append(queue[p], t) /\ queue' = [queue EXCEPT ![p] = Append(queue[p], t)]
  BY <1>1 DEF LockInv, Enter, Enqueue
<1>5. pc'[t] \in Waiting /\ pc' \in [Tasks -> States] /\ holder' = holder
      /\ \A u \in Tasks \ {t} : pc'[u] = pc[u]
  BY DEF LockInv, Enter, Goto, Waiting, States
<1>6. TaskStep(t)
  BY <1>1, <1>3, <1>4, <1>5 DEF LockInv, TaskStep, Queue
<1>7. InSection(t)'
  BY <1>3, <1>4, <1>5 DEF InSection, Waiting, Critical
<1>. QED
  BY <1>6, <1>7, TaskStepKeeps

\* What a task that is woken finds: its turn, and a free lock.
LEMMA Turn ==
  ASSUME LockInv, NEW t \in Tasks, CanTake(t)
  PROVE  /\ Process[t] \in Processes
         /\ holder[Process[t]] = None
         /\ Queue(Tail(queue[Process[t]]))
         /\ \A u : In(u, Tail(queue[Process[t]])) <=> In(u, queue[Process[t]]) /\ u # t
<1>1. Process[t] \in Processes
  BY TransactionAssumption DEF TransactionAssumption
<1>2. Queue(queue[Process[t]]) /\ queue[Process[t]] # <<>> /\ Head(queue[Process[t]]) = t
  BY <1>1 DEF LockInv, Queue, CanTake
<1>. QED
  BY <1>1, <1>2, QueueTail DEF CanTake

\* The lock goes to the first waiter.
LEMMA TakeKeeps ==
  ASSUME LockInv, NEW t \in Tasks, CanTake(t), NEW s \in Critical, Goto(t, s),
         queue' = [queue EXCEPT ![Process[t]] = Tail(queue[Process[t]])],
         holder' = [holder EXCEPT ![Process[t]] = t]
  PROVE  LockInv'
<1> DEFINE p == Process[t]
<1>1. /\ p \in Processes /\ holder[p] = None /\ Queue(Tail(queue[p]))
      /\ \A u : In(u, Tail(queue[p])) <=> In(u, queue[p]) /\ u # t
  BY Turn
<1>2. queue'[p] = Tail(queue[p]) /\ holder'[p] = t
  BY <1>1 DEF LockInv
<1>3. pc'[t] = s /\ pc' \in [Tasks -> States] /\ \A u \in Tasks \ {t} : pc'[u] = pc[u]
  BY DEF LockInv, Goto, States
<1>4. TaskStep(t)
  BY <1>1, <1>2, <1>3 DEF LockInv, TaskStep, Queue
<1>5. InSection(t)'
  BY <1>1, <1>2, <1>3 DEF InSection, Critical, Waiting
<1>. QED
  BY <1>4, <1>5, TaskStepKeeps

\* A task of the queue goes to its end, with the lock free.
LEMMA RequeueKeeps ==
  ASSUME LockInv, NEW t \in Tasks, CanTake(t), Goto(t, "lock_wait"),
         queue' = [queue EXCEPT ![Process[t]] = Append(Tail(queue[Process[t]]), t)],
         holder' = [holder EXCEPT ![Process[t]] = None]
  PROVE  LockInv'
<1> DEFINE p == Process[t]
           q == Tail(queue[p])
<1>1. /\ p \in Processes /\ holder[p] = None /\ Queue(q)
      /\ \A u : In(u, q) <=> In(u, queue[p]) /\ u # t
  BY Turn
<1>2. queue'[p] = Append(q, t)
  BY <1>1 DEF LockInv
<1>3. Queue(Append(q, t)) /\ \A u : In(u, Append(q, t)) <=> In(u, q) \/ u = t
  <2>. HIDE DEF q
  <2>. QED
    BY <1>1, QueueAppend
<1>4. pc'[t] = "lock_wait" /\ pc' \in [Tasks -> States]
      /\ \A u \in Tasks \ {t} : pc'[u] = pc[u]
  BY DEF LockInv, Goto, States
<1>. HIDE DEF q
<1>5. queue' \in [Processes -> Seq(Tasks)]
  BY <1>1, <1>3 DEF LockInv, Queue, q
<1>6. TaskStep(t)
  BY <1>1, <1>2, <1>3, <1>4, <1>5 DEF LockInv, TaskStep, Queue
<1>7. InSection(t)'
  BY <1>2, <1>3, <1>4 DEF InSection, Critical, Waiting
<1>. QED
  BY <1>6, <1>7, TaskStepKeeps

\* The schema exists: the lock goes back and its holder queues for its transaction.
LEMMA InitializeKeeps ==
  ASSUME LockInv, NEW t \in Tasks, Initialize(t)
  PROVE  LockInv'
<1> DEFINE p == Process[t]
<1>1. p \in Processes
  BY TransactionAssumption DEF TransactionAssumption
<1>2. Queue(queue[p]) /\ ~In(t, queue[p]) /\ holder[p] = t
  BY <1>1 DEF LockInv, InSection, Queue, Initialize, Waiting, Critical
<1>3. /\ Queue(Append(queue[p], t))
      /\ \A u : In(u, Append(queue[p], t)) <=> In(u, queue[p]) \/ u = t
  BY <1>2, QueueAppend
<1>4. queue'[p] = Append(queue[p], t) /\ queue' = [queue EXCEPT ![p] = Append(queue[p], t)]
  BY <1>1 DEF LockInv, Initialize, Enqueue
<1>5. /\ pc'[t] = "lock_wait" /\ pc' \in [Tasks -> States]
      /\ \A u \in Tasks \ {t} : pc'[u] = pc[u]
      /\ holder' = [holder EXCEPT ![p] = None]
  BY DEF LockInv, Initialize, Goto, Release, States
<1>6. TaskStep(t)
  BY <1>1, <1>2, <1>3, <1>4, <1>5 DEF LockInv, TaskStep, Queue
<1>7. InSection(t)'
  BY <1>3, <1>4, <1>5 DEF InSection, Waiting, Critical
<1>. QED
  BY <1>6, <1>7, TaskStepKeeps

LEMMA CancelWaitingKeeps ==
  ASSUME LockInv, NEW t \in Tasks, CancelWaiting(t)
  PROVE  LockInv'
<1> DEFINE p == Process[t]
<1>1. p \in Processes
  BY TransactionAssumption DEF TransactionAssumption
<1>2. PICK k \in DOMAIN queue[p] :
        /\ queue[p][k] = t
        /\ queue' = [queue EXCEPT ![p] = RemoveAt(queue[p], k)]
  BY DEF CancelWaiting
<1>3. /\ Queue(RemoveAt(queue[p], k))
      /\ \A u : In(u, RemoveAt(queue[p], k)) <=> In(u, queue[p]) /\ u # t
  <2>1. Queue(queue[p])
    BY <1>1 DEF LockInv, Queue
  <2>. QED
    BY <1>2, <2>1, QueueRemove
<1>4. queue'[p] = RemoveAt(queue[p], k)
  BY <1>1, <1>2 DEF LockInv
<1>5. /\ pc'[t] = "raised" /\ pc' \in [Tasks -> States] /\ holder' = holder
      /\ \A u \in Tasks \ {t} : pc'[u] = pc[u]
  BY DEF LockInv, CancelWaiting, Goto, States, Ended
<1>6. TaskStep(t)
  BY <1>1, <1>2, <1>3, <1>4, <1>5 DEF LockInv, TaskStep, Queue
<1>7. InSection(t)'
  BY <1>3, <1>4, <1>5 DEF InSection, Waiting, Critical
<1>. QED
  BY <1>6, <1>7, TaskStepKeeps

\* A process that dies leaves a free lock, an empty queue and no task inside.
LEMMA CrashKeeps ==
  ASSUME LockInv, NEW p \in Processes, Crash(p)
  PROVE  LockInv'
<1>1. /\ holder' = [holder EXCEPT ![p] = None]
      /\ queue' = [queue EXCEPT ![p] = <<>>]
      /\ pc' = [t \in Tasks |-> IF Process[t] = p /\ pc[t] \notin {"idle"} \cup Ended
                                THEN "raised" ELSE pc[t]]
  BY DEF Crash
<1>2. /\ pc' \in [Tasks -> States] /\ holder' \in [Processes -> Tasks \cup {None}]
      /\ queue' \in [Processes -> Seq(Tasks)]
  BY <1>1 DEF LockInv, States, Ended
<1>3. ASSUME NEW o \in Processes
      PROVE  IsInjective(queue'[o])
  BY <1>1 DEF LockInv, IsInjective
<1>4. ASSUME NEW t \in Tasks
      PROVE  InSection(t)'
  <2>1. Process[t] \in Processes
    BY TransactionAssumption DEF TransactionAssumption
  <2>2. CASE Process[t] = p
    <3>1. pc'[t] \in {"idle"} \cup Ended
      BY <1>1, <2>2 DEF Ended
    <3>2. ~In(t, queue'[Process[t]])
      BY <1>1, <2>1, <2>2 DEF LockInv, In
    <3>. QED
      BY <3>1, <3>2 DEF InSection, Critical, Waiting, Ended
  <2>3. CASE Process[t] # p
    BY <1>1, <2>1, <2>3 DEF LockInv, InSection
  <2>. QED
    BY <2>2, <2>3
<1>. QED
  BY <1>2, <1>3, <1>4 DEF LockInv

LEMMA LockInit == Init => LockInv
<1>. SUFFICES ASSUME Init PROVE LockInv
  OBVIOUS
<1>1. ASSUME NEW t \in Tasks
      PROVE  InSection(t)
  <2>1. Process[t] \in Processes
    BY TransactionAssumption DEF TransactionAssumption
  <2>. QED
    BY <2>1 DEF Init, InSection, In, Critical, Waiting
<1>2. \A p \in Processes : IsInjective(queue[p])
  BY DEF Init, IsInjective
<1>. QED
  BY <1>1, <1>2 DEF Init, LockInv, States

LEMMA EnteringKeeps ==
  ASSUME LockInv, NEW t \in Tasks,
         \/ Enter(t) \/ EnterClosed(t)
         \/ TakeForInit(t) \/ Initialize(t) \/ InitializeFails(t)
         \/ TakeForTransaction(t) \/ Open(t) \/ OpenFails(t)
  PROVE  LockInv'
<1>1. CASE Enter(t)
  BY <1>1, EnterKeeps
<1>2. CASE EnterClosed(t)
  BY <1>2, InsideKeeps
  DEF EnterClosed, lockVars, States, Waiting, Ended, Critical
<1>3. CASE TakeForInit(t)
  <2>1. CASE initialized[Process[t]]
    BY <1>3, <2>1, RequeueKeeps DEF TakeForInit
  <2>2. CASE ~initialized[Process[t]]
    <3>1. /\ CanTake(t) /\ Goto(t, "initializing") /\ "initializing" \in Critical
          /\ queue' = [queue EXCEPT ![Process[t]] = Tail(queue[Process[t]])]
          /\ holder' = [holder EXCEPT ![Process[t]] = t]
      BY <1>3, <2>2 DEF TakeForInit, Critical
    <3>. QED
      BY <3>1, TakeKeeps
  <2>. QED
    BY <2>1, <2>2
<1>4. CASE Initialize(t)
  BY <1>4, InitializeKeeps
<1>5. CASE InitializeFails(t) \/ OpenFails(t)
  BY <1>5, ReleaseKeeps DEF InitializeFails, OpenFails, Ended, Critical
<1>6. CASE TakeForTransaction(t)
  <2>1. /\ CanTake(t) /\ Goto(t, "opening") /\ "opening" \in Critical
        /\ queue' = [queue EXCEPT ![Process[t]] = Tail(queue[Process[t]])]
        /\ holder' = [holder EXCEPT ![Process[t]] = t]
    BY <1>6 DEF TakeForTransaction, Critical
  <2>. QED
    BY <2>1, TakeKeeps
<1>7. CASE Open(t)
  BY <1>7, InsideKeeps DEF Open, lockVars, States, Waiting, Ended, Critical
<1>. QED
  BY <1>1, <1>2, <1>3, <1>4, <1>5, <1>6, <1>7

\* Steps that leave the lock, its waiters and every program counter alone.
LEMMA ElsewhereKeeps ==
  ASSUME LockInv, UNCHANGED <<pc, holder, queue>>
  PROVE  LockInv'
<1>1. ASSUME NEW t \in Tasks
      PROVE  InSection(t)'
  BY DEF LockInv, InSection
<1>. QED
  BY <1>1 DEF LockInv

LEMMA LeavingKeeps ==
  ASSUME LockInv, NEW t \in Tasks,
         \/ Body(t) \/ RunLate(t)
         \/ Commit(t) \/ Rollback(t) \/ FinishFails(t) \/ Close(t)
         \/ Cancel(t)
  PROVE  LockInv'
<1>1. ASSUME NEW op \in Ops, Operate(t, op)
      PROVE  LockInv'
  BY <1>1, ElsewhereKeeps DEF Operate, lockVars
<1>2. ASSUME NEW op \in Ops, LeaveStatementBehind(t, op)
      PROVE  LockInv'
  BY <1>2, InsideKeeps DEF LeaveStatementBehind, lockVars, States, Waiting, Critical
<1>3. CASE Leave(t) \/ LeaveByError(t)
  BY <1>3, InsideKeeps DEF Leave, LeaveByError, lockVars, States, Waiting, Critical
<1>4. CASE RunLate(t)
  BY <1>4, ElsewhereKeeps DEF RunLate, lockVars
<1>5. CASE Commit(t) \/ CommitUnseen(t) \/ Rollback(t) \/ FinishFails(t)
  BY <1>5, InsideKeeps
  DEF Commit, CommitUnseen, Rollback, FinishFails, lockVars, States, Waiting, Critical
<1>6. CASE Close(t)
  <2>1. PICK s \in Ended : Goto(t, s)
    BY <1>6 DEF Close, Ended
  <2>. QED
    BY <1>6, <2>1, ReleaseKeeps DEF Close, Critical
<1>7. CASE CancelWaiting(t)
  BY <1>7, CancelWaitingKeeps
<1>8. CASE CancelOpening(t) \/ CancelClosing(t)
  BY <1>8, InsideKeeps
  DEF CancelOpening, CancelClosing, lockVars, States, Waiting, Critical, Ended
<1>. QED
  BY <1>1, <1>2, <1>3, <1>4, <1>5, <1>6, <1>7, <1>8 DEF Body, Cancel

LEMMA LockStep == LockInv /\ [Next]_transactionVars => LockInv'
<1>. SUFFICES ASSUME LockInv, [Next]_transactionVars
              PROVE  LockInv'
  OBVIOUS
<1>1. CASE UNCHANGED transactionVars
  BY <1>1, ElsewhereKeeps DEF transactionVars, lockVars
<1>2. ASSUME NEW p \in Processes, Shutdown(p)
      PROVE  LockInv'
  BY <1>2, ElsewhereKeeps DEF Shutdown
<1>. QED
  BY <1>1, <1>2, EnteringKeeps, LeavingKeeps, CrashKeeps DEF Next, Progress

-----------------------------------------------------------------------------
Record == [version : Nat, author : Tasks \cup {NoAuthor}]

Records == [Keys -> Record]

StoreTypes ==
    /\ db \in Records
    /\ view \in [Tasks -> Records]
    /\ ops \in [Tasks -> Seq(Ops)]
    /\ late \in [Tasks -> Ops \cup {None}]
    /\ writer \in Tasks \cup {None}
    /\ initialized \in [Processes -> BOOLEAN]
    /\ closed \in [Processes -> BOOLEAN]
    /\ applied \subseteq Tasks
    /\ crashes \in 0..MaxCrashes

LEMMA NothingIsRecords == Nothing \in Records
BY DEF Nothing, Absent, Records, Record

\* put and delete keep the type of records.
LEMMA AfterIsRecords ==
  ASSUME NEW op \in Ops, NEW s \in Records, NEW t \in Tasks
  PROVE  After(op, s, t) \in Records
<1>1. op.key \in Keys
  BY DEF Ops
<1>2. s[op.key].version + 1 \in Nat
  BY <1>1 DEF Records, Record
<1>3. [version |-> s[op.key].version + 1, author |-> t] \in Record
  BY <1>2 DEF Record
<1>4. Absent \in Record
  BY DEF Absent, Record
<1>. QED
  BY <1>1, <1>3, <1>4 DEF After, Records

LEMMA TypesInit == Init => StoreTypes
BY NothingIsRecords, TransactionAssumption DEF Init, StoreTypes, TransactionAssumption

LEMMA TypesStep == StoreTypes /\ [Next]_transactionVars => StoreTypes'
<1>. SUFFICES ASSUME StoreTypes, [Next]_transactionVars
              PROVE  StoreTypes'
  OBVIOUS
<1>1. CASE UNCHANGED transactionVars
  BY <1>1 DEF transactionVars, lockVars, blockVars, StoreTypes
<1>2. ASSUME NEW t \in Tasks,
             \/ Enter(t) \/ EnterClosed(t) \/ TakeForInit(t) \/ Initialize(t)
             \/ InitializeFails(t) \/ TakeForTransaction(t) \/ OpenFails(t)
      PROVE  StoreTypes'
  BY <1>2
  DEF Enter, EnterClosed, TakeForInit, Initialize, InitializeFails, TakeForTransaction,
      OpenFails, lockVars, blockVars, StoreTypes
<1>3. ASSUME NEW t \in Tasks, Open(t)
      PROVE  StoreTypes'
  BY <1>3 DEF Open, lockVars, StoreTypes
<1>4. ASSUME NEW t \in Tasks, NEW op \in Ops, Operate(t, op)
      PROVE  StoreTypes'
  <2>1. After(op, view[t], t) \in Records
    BY AfterIsRecords DEF StoreTypes
  <2>2. Append(ops[t], op) \in Seq(Ops)
    BY AppendProperties DEF StoreTypes
  <2>. QED
    BY <1>4, <2>1, <2>2 DEF Operate, lockVars, StoreTypes
<1>5. ASSUME NEW t \in Tasks, NEW op \in Ops, LeaveStatementBehind(t, op)
      PROVE  StoreTypes'
  BY <1>5 DEF LeaveStatementBehind, lockVars, StoreTypes
<1>6. ASSUME NEW t \in Tasks,
             \/ Leave(t) \/ LeaveByError(t) \/ Rollback(t) \/ FinishFails(t)
             \/ CancelWaiting(t) \/ CancelOpening(t)
      PROVE  StoreTypes'
  BY <1>6
  DEF Leave, LeaveByError, Rollback, FinishFails, CancelWaiting, CancelOpening, lockVars,
      blockVars, StoreTypes
<1>7. ASSUME NEW t \in Tasks, Commit(t) \/ CommitUnseen(t)
      PROVE  StoreTypes'
  BY <1>7 DEF Commit, CommitUnseen, lockVars, blockVars, StoreTypes
<1>8. ASSUME NEW t \in Tasks, RunLate(t)
      PROVE  StoreTypes'
  <2>1. late[t] \in Ops
    BY <1>8 DEF RunLate, StoreTypes
  <2>2. After(late[t], db, t) \in Records
    BY <2>1, AfterIsRecords DEF StoreTypes
  <2>. QED
    BY <1>8, <2>2 DEF RunLate, lockVars, StoreTypes
<1>9. ASSUME NEW t \in Tasks, Close(t) \/ CancelClosing(t)
      PROVE  StoreTypes'
  <2>1. <<>> \in Seq(Ops)
    BY EmptySeq
  <2>. QED
    BY <1>9, <2>1, NothingIsRecords
    DEF Close, CancelClosing, Disconnect, lockVars, StoreTypes
<1>10. ASSUME NEW p \in Processes, Shutdown(p)
       PROVE  StoreTypes'
  BY <1>10 DEF Shutdown, blockVars, StoreTypes
<1>11. ASSUME NEW p \in Processes, Crash(p)
       PROVE  StoreTypes'
  <2>1. <<>> \in Seq(Ops)
    BY EmptySeq
  <2> DEFINE dead == {t \in Tasks : Process[t] = p /\ pc[t] \notin {"idle"} \cup Ended}
  <2>2. /\ writer' = IF writer \in dead THEN None ELSE writer
        /\ initialized' = [initialized EXCEPT ![p] = FALSE]
        /\ closed' = [closed EXCEPT ![p] = FALSE]
        /\ view' = [t \in Tasks |-> IF t \in dead THEN Nothing ELSE view[t]]
        /\ ops' = [t \in Tasks |-> IF t \in dead THEN <<>> ELSE ops[t]]
        /\ late' = [t \in Tasks |-> IF t \in dead THEN None ELSE late[t]]
        /\ UNCHANGED <<db, applied>>
    BY <1>11 DEF Crash
  <2>3. crashes' \in 0..MaxCrashes
    BY <1>11, TransactionAssumption DEF Crash, StoreTypes, TransactionAssumption
  <2>. HIDE DEF dead
  <2>4. view' \in [Tasks -> Records]
    BY <2>2, NothingIsRecords DEF StoreTypes
  <2>5. ops' \in [Tasks -> Seq(Ops)]
    BY <2>1, <2>2 DEF StoreTypes
  <2>6. late' \in [Tasks -> Ops \cup {None}]
    BY <2>2 DEF StoreTypes
  <2>. QED
    BY <2>2, <2>3, <2>4, <2>5, <2>6 DEF StoreTypes
<1>. QED
  BY <1>1, <1>2, <1>3, <1>4, <1>5, <1>6, <1>7, <1>8, <1>9, <1>10, <1>11
  DEF Next, Progress, Body, Cancel

\* Whatever fails, is cancelled or crashes, a lock has one holder, who is inside, and
\* its waiters are in its queue, each once (LockInvariant).
THEOREM LockCorrect == Spec => []LockInvariant
<1>1. LockInv /\ StoreTypes => LockInvariant
  <2>. SUFFICES ASSUME LockInv, StoreTypes
                PROVE  TypeOK /\ ExclusiveSection
    BY DEF LockInvariant
  <2>1. ASSUME NEW k \in Keys
        PROVE  db[k].version \in Nat /\ db[k].author \in Tasks \cup {NoAuthor}
    BY DEF StoreTypes, Records, Record
  <2>2. TypeOK
    BY <2>1 DEF LockInv, StoreTypes, TypeOK
  <2>3. ExclusiveSection
    BY DEF LockInv, InSection, In, Waiting, ExclusiveSection
  <2>. QED
    BY <2>2, <2>3
<1>. QED
  BY <1>1, LockInit, LockStep, TypesInit, TypesStep, PTL DEF Spec

-----------------------------------------------------------------------------
\* From BEGIN IMMEDIATE to the end of its transaction a block has the file's write lock.
Writing == {"active", "committing", "rolling_back"}

WriteLock == \A t \in Tasks : pc[t] \in Writing => writer = t

\* A step of t that touches the write lock only when nobody else has it.
LEMMA WriteLockKeeps ==
  ASSUME WriteLock, LockInv, NEW t \in Tasks, NEW s \in States, Goto(t, s),
         s \in Writing => writer' = t,
         writer' = writer \/ writer = None \/ writer = t
  PROVE  WriteLock'
<1>1. ASSUME NEW u \in Tasks, u # t, pc'[u] \in Writing
      PROVE  writer' = u
  <2>1. pc[u] \in Writing /\ writer = u
    BY <1>1 DEF Goto, LockInv, WriteLock
  <2>. QED
    BY <1>1, <2>1, TransactionAssumption DEF TransactionAssumption
<1>2. pc'[t] = s
  BY DEF Goto, LockInv
<1>. QED
  BY <1>1, <1>2 DEF WriteLock

LEMMA WriteLockStep ==
  WriteLock /\ LockInv /\ [Next]_transactionVars => WriteLock'
<1>. SUFFICES ASSUME WriteLock, LockInv, [Next]_transactionVars
              PROVE  WriteLock'
  OBVIOUS
<1>1. CASE UNCHANGED <<pc, writer>>
  BY <1>1 DEF WriteLock
<1>2. ASSUME NEW t \in Tasks,
             \/ Enter(t) \/ EnterClosed(t) \/ TakeForInit(t) \/ Initialize(t)
             \/ InitializeFails(t) \/ TakeForTransaction(t) \/ OpenFails(t)
             \/ CancelWaiting(t) \/ CancelOpening(t)
      PROVE  WriteLock'
  <2>1. /\ writer' = writer
        /\ \E s \in States \ Writing : Goto(t, s)
    BY <1>2
    DEF Enter, EnterClosed, TakeForInit, Initialize, InitializeFails, TakeForTransaction,
        OpenFails, CancelWaiting, CancelOpening, States, Critical, Ended, Writing
  <2>. QED
    BY <2>1, WriteLockKeeps
<1>3. ASSUME NEW t \in Tasks, Open(t)
      PROVE  WriteLock'
  BY <1>3, WriteLockKeeps DEF Open, States, Critical
<1>4. ASSUME NEW t \in Tasks,
             \/ Leave(t) \/ LeaveByError(t)
             \/ \E op \in Ops : LeaveStatementBehind(t, op)
      PROVE  WriteLock'
  <2>1. writer' = writer /\ writer = t /\ \E s \in {"committing", "rolling_back"} : Goto(t, s)
    BY <1>4 DEF Leave, LeaveByError, LeaveStatementBehind, WriteLock, Writing
  <2>. QED
    BY <2>1, WriteLockKeeps DEF States, Critical
<1>5. ASSUME NEW t \in Tasks,
             Commit(t) \/ CommitUnseen(t) \/ Rollback(t) \/ FinishFails(t)
      PROVE  WriteLock'
  <2>1. writer = t /\ \E s \in {"committed", "closing"} : Goto(t, s)
    BY <1>5 DEF Commit, CommitUnseen, Rollback, FinishFails, WriteLock, Writing
  <2>. QED
    BY <2>1, WriteLockKeeps DEF States, Critical, Writing
<1>6. ASSUME NEW t \in Tasks, Close(t) \/ CancelClosing(t)
      PROVE  WriteLock'
  <2>1. writer' = writer \/ writer = t
    BY <1>6 DEF Close, CancelClosing, Disconnect
  <2>2. \E s \in Ended : Goto(t, s)
    BY <1>6 DEF Close, CancelClosing, Ended
  <2>. QED
    BY <2>1, <2>2, WriteLockKeeps DEF States, Ended, Writing
<1>7. ASSUME NEW p \in Processes, Crash(p)
      PROVE  WriteLock'
  <2> DEFINE dead == {t \in Tasks : Process[t] = p /\ pc[t] \notin {"idle"} \cup Ended}
  <2>1. /\ writer' = IF writer \in dead THEN None ELSE writer
        /\ pc' = [t \in Tasks |-> IF t \in dead THEN "raised" ELSE pc[t]]
    BY <1>7 DEF Crash
  <2>. HIDE DEF dead
  <2>2. ASSUME NEW t \in Tasks, pc'[t] \in Writing
        PROVE  writer' = t
    <3>1. t \notin dead /\ pc[t] \in Writing
      BY <2>1, <2>2 DEF Writing
    <3>. QED
      BY <2>1, <3>1 DEF WriteLock
  <2>. QED
    BY <2>2 DEF WriteLock
<1>8. ASSUME NEW p \in Processes, Shutdown(p)
      PROVE  WriteLock'
  BY <1>1, <1>8 DEF Shutdown
<1>9. ASSUME NEW t \in Tasks, RunLate(t) \/ \E op \in Ops : Operate(t, op)
      PROVE  WriteLock'
  BY <1>1, <1>9 DEF RunLate, Operate
<1>. QED
  BY <1>1, <1>2, <1>3, <1>4, <1>5, <1>6, <1>7, <1>8, <1>9
  DEF Next, Progress, Body, Cancel, transactionVars

\* Blocks of all processes that are between BEGIN and the end of their transaction:
\* there is at most one.
OneWriter == \A t, u \in Tasks : pc[t] \in Writing /\ pc[u] \in Writing => t = u

\* The records change under no open transaction: what another block commits, and
\* what a thread that outlived its block writes, comes before its BEGIN or after
\* its COMMIT.
RecordsStandStill ==
    [][\A t \in Tasks :
          pc[t] \in Writing /\ db' # db => pc[t] = "committing" /\ t \in applied']_transactionVars

LEMMA WriteLockHolds == Spec => [](WriteLock /\ LockInv /\ StoreTypes)
<1>1. Init => WriteLock
  BY DEF Init, WriteLock, Writing
<1>. QED
  BY <1>1, WriteLockStep, LockInit, LockStep, TypesInit, TypesStep, PTL DEF Spec

\* At most one transaction is open on the file, over all processes.
THEOREM TransactionsAreSerial == Spec => []OneWriter
<1>1. WriteLock => OneWriter
  BY DEF WriteLock, OneWriter
<1>. QED
  BY <1>1, WriteLockHolds, PTL

\* What an open transaction has read stays what is committed (BEGIN IMMEDIATE).
THEOREM OpenViewsStayCurrent == Spec => RecordsStandStill
<1>1. ASSUME WriteLock, [Next]_transactionVars, NEW t \in Tasks, pc[t] \in Writing, db' # db
      PROVE  pc[t] = "committing" /\ t \in applied'
  <2>1. writer = t /\ writer # None
    BY <1>1, TransactionAssumption DEF WriteLock, TransactionAssumption
  <2>2. ASSUME NEW u \in Tasks, Commit(u) \/ CommitUnseen(u)
        PROVE  pc[t] = "committing" /\ t \in applied'
    <3>1. pc[u] = "committing" /\ applied' = applied \cup {u}
      BY <2>2 DEF Commit, CommitUnseen
    <3>2. writer = u
      BY <1>1, <3>1 DEF WriteLock, Writing
    <3>. QED
      BY <2>1, <3>1, <3>2
  <2>3. ASSUME NEW u \in Tasks, RunLate(u)
        PROVE  FALSE
    BY <2>1, <2>3 DEF RunLate
  <2>4. ASSUME NEW u \in Tasks,
               \/ Enter(u) \/ EnterClosed(u) \/ TakeForInit(u) \/ Initialize(u)
               \/ InitializeFails(u) \/ TakeForTransaction(u) \/ Open(u) \/ OpenFails(u)
               \/ Rollback(u) \/ FinishFails(u) \/ Close(u) \/ Body(u)
               \/ CancelWaiting(u) \/ CancelOpening(u) \/ CancelClosing(u)
        PROVE  UNCHANGED db
    BY <2>4
    DEF Enter, EnterClosed, TakeForInit, Initialize, InitializeFails, TakeForTransaction,
        Open, OpenFails, Rollback, FinishFails, Close, Body, Operate, Leave, LeaveByError,
        LeaveStatementBehind, CancelWaiting, CancelOpening, CancelClosing
  <2>5. ASSUME NEW p \in Processes, Shutdown(p) \/ Crash(p)
        PROVE  UNCHANGED db
    BY <2>5 DEF Shutdown, Crash
  <2>. QED
    BY <1>1, <2>2, <2>3, <2>4, <2>5 DEF Next, Progress, Cancel, transactionVars
<1>2. WriteLock /\ [Next]_transactionVars =>
        [\A t \in Tasks :
           pc[t] \in Writing /\ db' # db => pc[t] = "committing" /\ t \in applied']_transactionVars
  BY <1>1
<1>. QED
  BY <1>2, WriteLockHolds, PTL DEF Spec, RecordsStandStill

-----------------------------------------------------------------------------
\* Who wrote what is committed, and what an open transaction sees: blocks that
\* committed, and the transaction itself.
AuthorsKnown ==
    /\ \A t \in Tasks : late[t] = None
    /\ \A k \in Keys : db[k].author \in applied \cup {NoAuthor}
    /\ \A t \in Tasks, k \in Keys : view[t][k].author \in applied \cup {NoAuthor, t}

LEMMA AuthorsInit == Init => AuthorsKnown
BY DEF Init, AuthorsKnown, Nothing, Absent

LEMMA OperateAuthors ==
  ASSUME AuthorsKnown, StoreTypes, NEW t \in Tasks, NEW op \in Ops, Operate(t, op)
  PROVE  AuthorsKnown'
<1>1. op.key \in Keys
  BY DEF Ops
<1>2. view[t] \in Records /\ view' = [view EXCEPT ![t] = After(op, view[t], t)]
  BY DEF StoreTypes, Operate
<1>3. ASSUME NEW k \in Keys
      PROVE  After(op, view[t], t)[k].author \in applied \cup {NoAuthor, t}
  <2>1. CASE k = op.key
    BY <1>1, <1>2, <2>1 DEF After, Records, Absent
  <2>2. CASE k # op.key
    BY <1>1, <1>2, <2>2 DEF After, Records, AuthorsKnown
  <2>. QED
    BY <2>1, <2>2
<1>4. UNCHANGED <<db, applied, late>>
  BY DEF Operate
<1>5. ASSUME NEW u \in Tasks, NEW k \in Keys
      PROVE  view'[u][k].author \in applied \cup {NoAuthor, u}
  BY <1>2, <1>3 DEF StoreTypes, AuthorsKnown
<1>. QED
  BY <1>4, <1>5 DEF AuthorsKnown

LEMMA AuthorsStep ==
  AuthorsKnown /\ StoreTypes /\ [Next /\ UNCHANGED late]_transactionVars => AuthorsKnown'
<1>. SUFFICES ASSUME AuthorsKnown, StoreTypes, [Next /\ UNCHANGED late]_transactionVars
              PROVE  AuthorsKnown'
  OBVIOUS
<1>1. UNCHANGED late
  BY DEF transactionVars, blockVars
<1>2. CASE UNCHANGED <<db, view, applied>>
  BY <1>1, <1>2 DEF AuthorsKnown
<1>3. ASSUME NEW t \in Tasks, Open(t)
      PROVE  AuthorsKnown'
  <2>1. view' = [view EXCEPT ![t] = db] /\ UNCHANGED <<db, applied>>
    BY <1>3 DEF Open
  <2>. QED
    BY <1>1, <2>1 DEF AuthorsKnown, StoreTypes
<1>4. ASSUME NEW t \in Tasks, NEW op \in Ops, Operate(t, op)
      PROVE  AuthorsKnown'
  BY <1>4, OperateAuthors
<1>5. ASSUME NEW t \in Tasks, Commit(t) \/ CommitUnseen(t)
      PROVE  AuthorsKnown'
  <2>1. db' = view[t] /\ applied' = applied \cup {t} /\ view' = view
    BY <1>5 DEF Commit, CommitUnseen, blockVars
  <2>. QED
    BY <1>1, <2>1 DEF AuthorsKnown
<1>6. ASSUME NEW t \in Tasks, RunLate(t)
      PROVE  FALSE
  BY <1>6 DEF RunLate, AuthorsKnown
<1>7. ASSUME NEW t \in Tasks, Close(t) \/ CancelClosing(t)
      PROVE  AuthorsKnown'
  <2>1. view' = [view EXCEPT ![t] = Nothing] /\ UNCHANGED <<db, applied>>
    BY <1>7 DEF Close, CancelClosing, Disconnect
  <2>. QED
    BY <1>1, <2>1 DEF AuthorsKnown, StoreTypes, Nothing, Absent
<1>8. ASSUME NEW p \in Processes, Crash(p)
      PROVE  AuthorsKnown'
  <2>1. \A t \in Tasks : view'[t] = Nothing \/ view'[t] = view[t]
    BY <1>8 DEF Crash
  <2>2. UNCHANGED <<db, applied>>
    BY <1>8 DEF Crash
  <2>. QED
    BY <1>1, <2>1, <2>2 DEF AuthorsKnown, Nothing, Absent
<1>9. ASSUME NEW t \in Tasks,
             \/ Enter(t) \/ EnterClosed(t) \/ TakeForInit(t) \/ Initialize(t)
             \/ InitializeFails(t) \/ TakeForTransaction(t) \/ OpenFails(t)
             \/ Leave(t) \/ LeaveByError(t) \/ Rollback(t) \/ FinishFails(t)
             \/ CancelWaiting(t) \/ CancelOpening(t)
             \/ \E op \in Ops : LeaveStatementBehind(t, op)
      PROVE  AuthorsKnown'
  <2>1. UNCHANGED <<db, view, applied>>
    BY <1>9
    DEF Enter, EnterClosed, TakeForInit, Initialize, InitializeFails, TakeForTransaction,
        OpenFails, Leave, LeaveByError, Rollback, FinishFails, CancelWaiting, CancelOpening,
        LeaveStatementBehind, blockVars
  <2>. QED
    BY <1>2, <2>1
<1>10. ASSUME NEW p \in Processes, Shutdown(p)
       PROVE  AuthorsKnown'
  BY <1>2, <1>10 DEF Shutdown, blockVars
<1>. QED
  BY <1>2, <1>3, <1>4, <1>5, <1>6, <1>7, <1>8, <1>9, <1>10
  DEF Next, Progress, Body, Cancel, transactionVars, blockVars

-----------------------------------------------------------------------------
\* One operation of a batch.
Step(op, acc, t) == [ok |-> acc.ok /\ Applicable(op, acc.records),
                     records |-> After(op, acc.records, t)]

Begun(s) == [ok |-> TRUE, records |-> s]

\* g gives the outcome of the operations of b at the indices of each subset of S.
Runs(g, S, b, s, t) ==
    g = [d \in SUBSET S |-> IF d = {} THEN Begun(s) ELSE Step(b[Max(d)], g[d \ {Max(d)}], t)]

LEMMA RunUnfolds ==
    ASSUME NEW b, NEW s, NEW t
    PROVE  Run(b, s, t) = (CHOOSE g : Runs(g, DOMAIN b, b, s, t))[DOMAIN b]
BY Zenon DEF Run, FoldLeft, MapThenFoldSet, Runs, Step, Begun

\* A set of indices has a greatest one.
LEMMA GreatestIndex ==
    ASSUME NEW n \in Nat, NEW d \in SUBSET (1..n), d # {}
    PROVE  Max(d) \in d /\ \A i \in d : i <= Max(d)
<1>. DEFINE Bounds == {m \in Nat : \A i \in d : i <= m}
<1>1. n \in Bounds
  OBVIOUS
<1>2. PICK m \in Bounds : \A k \in Bounds : <<k, m>> \notin OpToRel(<, Nat)
  BY <1>1, NatLessThanWellFounded, WFMin, Zenon
<1>3. m \in d
  <2>. SUFFICES ASSUME m \notin d PROVE FALSE
    OBVIOUS
  <2>0. PICK i \in d : TRUE
    OBVIOUS
  <2>1. m # 0
    BY <2>0
  <2>2. m - 1 \in Bounds
    BY <2>1
  <2>3. <<m - 1, m>> \in OpToRel(<, Nat)
    BY <2>1 DEF OpToRel
  <2>. QED
    BY <1>2, <2>2, <2>3
<1>4. \E i \in d : \A j \in d : i >= j
  BY <1>3
<1>. QED
  BY <1>4 DEF Max

\* Two outcomes agree on indices at which the batches do.
LEMMA RunsAgree ==
    ASSUME NEW n \in Nat, NEW S, NEW T, (1..n) \subseteq S, (1..n) \subseteq T,
           NEW g, NEW h, NEW b, NEW c, NEW s, NEW t,
           Runs(g, S, b, s, t), Runs(h, T, c, s, t),
           \A i \in 1..n : b[i] = c[i]
    PROVE  g[1..n] = h[1..n]
<1>. DEFINE Less == StrictSubsetOrdering(1..n)
            Apart == {d \in FiniteSubsetsOf(1..n) : g[d] # h[d]}
<1>0. IsFiniteSet(1..n)
  BY FS_Interval
<1>1. SUFFICES ASSUME Apart # {} PROVE FALSE
  BY <1>0 DEF FiniteSubsetsOf
<1>2. PICK d \in Apart : \A e \in Apart : <<e, d>> \notin Less
  BY <1>0, <1>1, FS_StrictSubsetOrderingWellFounded, WFMin, Zenon
<1>. DEFINE x == Max(d)
<1>3. d \in SUBSET (1..n) /\ d \in SUBSET S /\ d \in SUBSET T /\ IsFiniteSet(d)
  BY DEF FiniteSubsetsOf
<1>4. d # {}
  BY <1>2, <1>3 DEF Runs
<1>5. x \in d
  BY <1>3, <1>4, GreatestIndex
<1>. HIDE DEF x
<1>6. d \ {x} \in FiniteSubsetsOf(1..n) /\ <<d \ {x}, d>> \in Less
  BY <1>3, <1>5, FS_Subset DEF FiniteSubsetsOf, StrictSubsetOrdering
<1>7. g[d \ {x}] = h[d \ {x}]
  BY <1>2, <1>6
<1>8. b[x] = c[x]
  BY <1>3, <1>5
<1>9. g[d] = Step(b[x], g[d \ {x}], t) /\ h[d] = Step(c[x], h[d \ {x}], t)
  BY <1>3, <1>4 DEF Runs, x
<1>. QED
  BY <1>2, <1>7, <1>8, <1>9

\* Every batch has an outcome at each set of its indices: a smallest prefix without one
\* would get it from its own prefixes.
LEMMA RunsExist ==
    ASSUME NEW n \in Nat, NEW b, NEW s, NEW t
    PROVE  \E g : Runs(g, 1..n, b, s, t)
<1>. DEFINE Without == {m \in Nat : ~\E g : Runs(g, 1..m, b, s, t)}
<1>1. SUFFICES ASSUME Without # {} PROVE FALSE
  OBVIOUS
<1>2. PICK m \in Without : \A k \in Without : <<k, m>> \notin OpToRel(<, Nat)
  BY <1>1, NatLessThanWellFounded, WFMin, Zenon
<1>3. CASE m = 0
  <2>. DEFINE g == [d \in SUBSET (1..m) |-> Begun(s)]
  <2>1. 1..m = {}
    BY <1>3
  <2>2. Runs(g, 1..m, b, s, t)
    BY <2>1 DEF Runs
  <2>. QED
    BY <2>2
<1>4. CASE m # 0
  <2>1. m \in Nat /\ m - 1 \in Nat
    BY <1>4
  <2>0. <<m - 1, m>> \in OpToRel(<, Nat)
    BY <2>1 DEF OpToRel
  <2>2. PICK h : Runs(h, 1..(m - 1), b, s, t)
    BY <1>2, <2>0, <2>1
  <2>. DEFINE g == [d \in SUBSET (1..m) |->
                      IF m \in d THEN Step(b[m], h[d \ {m}], t) ELSE h[d]]
              next(d) == IF d = {} THEN Begun(s) ELSE Step(b[Max(d)], g[d \ {Max(d)}], t)
  <2>3. ASSUME NEW d \in SUBSET (1..m), m \notin d
        PROVE  d \in SUBSET (1..(m - 1)) /\ g[d] = h[d]
    <3>1. \A i \in d : i \in 1..(m - 1)
      BY <2>1, <2>3
    <3>2. d \in SUBSET (1..(m - 1))
      BY <3>1
    <3>. QED
      BY <2>3, <3>2 
  <2>4. ASSUME NEW d \in SUBSET (1..m), m \in d
        PROVE  Max(d) = m /\ g[d] = Step(b[m], h[d \ {m}], t)
    <3>1. d # {}
      BY <2>4
    <3>2. Max(d) \in d /\ \A i \in d : i <= Max(d)
      BY <2>1, <3>1, GreatestIndex
    <3>3. Max(d) \in 1..m /\ m <= Max(d)
      BY <3>2, <2>4
    <3>4. Max(d) = m
      BY <2>1, <3>3
    <3>. QED
      BY <2>4, <3>4 DEF g
  <2>5. ASSUME NEW d \in SUBSET (1..m)
        PROVE  g[d] = next(d)
    <3>. HIDE DEF g
    <3>1. CASE m \in d
      <4>1. d \ {m} \in SUBSET (1..m) /\ m \notin d \ {m}
        OBVIOUS
      <4>2. g[d \ {m}] = h[d \ {m}]
        BY <4>1, <2>3
      <4>. QED
        BY <3>1, <4>2, <2>4
    <3>2. CASE m \notin d /\ d # {}
      <4>. DEFINE x == Max(d)
      <4>1. x \in d
        BY <2>1, <3>2, GreatestIndex
      <4>. HIDE DEF x
      <4>2. d \in SUBSET (1..(m - 1)) /\ g[d] = h[d]
        BY <2>3, <3>2
      <4>3. d \ {x} \in SUBSET (1..m) /\ m \notin d \ {x}
        BY <3>2
      <4>4. g[d \ {x}] = h[d \ {x}]
        BY <4>3, <2>3
      <4>5. h[d] = Step(b[x], h[d \ {x}], t)
        BY <2>2, <3>2, <4>2 DEF Runs, x
      <4>. QED
        BY <3>2, <4>2, <4>4, <4>5 DEF x
    <3>3. CASE d = {}
      BY <2>2, <2>3, <3>3 DEF Runs
    <3>. QED
      BY <3>1, <3>2, <3>3
  <2>6. g = [d \in SUBSET (1..m) |-> g[d]]
    OBVIOUS
  <2>. HIDE DEF g
  <2>7. Runs(g, 1..m, b, s, t)
    BY <2>5, <2>6 DEF Runs
  <2>. QED
    BY <1>2, <2>7
<1>. QED
  BY <1>3, <1>4

\* Nothing has been run of an empty batch.
LEMMA RunOfNone ==
    ASSUME NEW s, NEW t
    PROVE  Run(<<>>, s, t) = Begun(s)
<1>. DEFINE b == <<>>
            g == CHOOSE i : Runs(i, DOMAIN b, b, s, t)
<1>1. 0 \in Nat /\ DOMAIN b = 1..0 /\ 1..0 = {}
  OBVIOUS
<1>2. Runs(g, 1..0, b, s, t)
  BY <1>1, RunsExist
<1>3. Run(b, s, t) = g[1..0]
  BY <1>1, RunUnfolds
<1>4. g[1..0] = Begun(s)
  BY <1>1, <1>2 DEF Runs
<1>. QED
  BY <1>3, <1>4

\* One operation more is run on the records that the others leave.
LEMMA RunOfOneMore ==
    ASSUME NEW A, NEW b \in Seq(A), NEW op \in A, NEW s, NEW t
    PROVE  Run(Append(b, op), s, t) = Step(op, Run(b, s, t), t)
<1>. DEFINE a == Append(b, op)
            n == Len(b)
            g == CHOOSE i : Runs(i, DOMAIN b, b, s, t)
            h == CHOOSE i : Runs(i, DOMAIN a, a, s, t)
<1>1. /\ n \in Nat /\ DOMAIN b = 1..n /\ DOMAIN a = 1..(n + 1)
      /\ a[n + 1] = op /\ \A i \in 1..n : a[i] = b[i]
  BY AppendProperties
<1>2. Runs(g, 1..n, b, s, t)
  BY <1>1, RunsExist
<1>3. Runs(h, 1..(n + 1), a, s, t)
  <2>1. n + 1 \in Nat
    BY <1>1
  <2>2. \E i : Runs(i, 1..(n + 1), a, s, t)
    BY <2>1, RunsExist
  <2>. QED
    BY <1>1, <2>2
<1>4. Run(b, s, t) = g[1..n] /\ Run(a, s, t) = h[1..(n + 1)]
  BY <1>1, RunUnfolds
<1>. HIDE DEF a, n, g, h
<1>5. 1..n \subseteq 1..(n + 1) /\ (1..(n + 1)) \ {n + 1} = 1..n
  BY <1>1
<1>6. g[1..n] = h[1..n]
  BY <1>1, <1>2, <1>3, <1>5, RunsAgree
<1>7. Max(1..(n + 1)) = n + 1
  <2>1. n + 1 \in Nat /\ 1..(n + 1) # {} /\ n + 1 \in 1..(n + 1)
    BY <1>1
  <2>2. Max(1..(n + 1)) \in 1..(n + 1) /\ \A i \in 1..(n + 1) : i <= Max(1..(n + 1))
    BY <2>1, GreatestIndex
  <2>. QED
    BY <2>1, <2>2
<1>8. h[1..(n + 1)] = Step(a[n + 1], h[1..n], t)
  <2>1. 1..(n + 1) # {} /\ 1..(n + 1) \in SUBSET (1..(n + 1))
    <3>1. n + 1 \in 1..(n + 1)
      BY <1>1
    <3>. QED
      BY <3>1
  <2>. QED
    BY <1>3, <1>5, <1>7, <2>1 DEF Runs
<1>. QED
  BY <1>1, <1>4, <1>6, <1>8 DEF a

-----------------------------------------------------------------------------
\* Where a block has run nothing, or its connection is gone.
Outside == {"idle", "init_wait", "lock_wait", "initializing", "opening"} \cup Ended

\* Where a block may be once its COMMIT succeeded.
Settled == {"committed", "closing"} \cup Ended

\* An open block has met no conflict, and sees what its operations give on the records
\* that are committed now; a block that ends normally has taken effect.
RunIsCurrent ==
    \A t \in Tasks :
        /\ pc[t] \in {"active", "committing"} =>
             Run(ops[t], db, t) = [ok |-> TRUE, records |-> view[t]]
        /\ pc[t] \in Outside => ops[t] = <<>>
        /\ t \in applied => pc[t] \in Settled
        /\ pc[t] = "committed" => t \in applied

LEMMA RunInit == Init => RunIsCurrent
BY EmptySeq DEF Init, RunIsCurrent, Outside, Settled

\* A block that moves without an operation, under records that stand still.
LEMMA MoveKeepsRun ==
  ASSUME RunIsCurrent, LockInv, NEW t \in Tasks, NEW u \in States, Goto(t, u),
         UNCHANGED <<db, ops, applied, view>>,
         u \in {"active", "committing"} => pc[t] \in {"active", "committing"},
         u \in Outside => ops[t] = <<>>,
         t \in applied => u \in Settled,
         u # "committed"
  PROVE  RunIsCurrent'
BY DEF Goto, LockInv, RunIsCurrent

LEMMA RunStep ==
  /\ RunIsCurrent /\ WriteLock /\ LockInv /\ StoreTypes /\ AuthorsKnown
  /\ [Next /\ UNCHANGED late]_transactionVars
  => RunIsCurrent'
<1>. SUFFICES ASSUME RunIsCurrent, WriteLock, LockInv, StoreTypes, AuthorsKnown,
                     [Next /\ UNCHANGED late]_transactionVars
              PROVE  RunIsCurrent'
  OBVIOUS
<1>1. CASE UNCHANGED <<db, pc, view, ops, applied>>
  BY <1>1 DEF RunIsCurrent
<1>2. ASSUME NEW t \in Tasks,
             \/ Enter(t) \/ EnterClosed(t) \/ TakeForInit(t) \/ Initialize(t)
             \/ InitializeFails(t) \/ TakeForTransaction(t) \/ OpenFails(t)
             \/ CancelWaiting(t) \/ CancelOpening(t)
      PROVE  RunIsCurrent'
  <2>1. /\ UNCHANGED <<db, view, ops, applied>>
        /\ pc[t] \in Outside \ Ended
        /\ \E u \in Outside : Goto(t, u)
    BY <1>2
    DEF Enter, EnterClosed, TakeForInit, Initialize, InitializeFails, TakeForTransaction,
        OpenFails, CancelWaiting, CancelOpening, Outside, Ended, blockVars
  <2>2. Outside \subseteq States /\ Outside \cap {"active", "committing", "committed"} = {}
    BY DEF Outside, States, Critical, Ended
  <2>3. t \notin applied /\ ops[t] = <<>>
    BY <2>1 DEF RunIsCurrent, Outside, Settled, Ended
  <2>. QED
    BY <2>1, <2>2, <2>3, MoveKeepsRun
<1>3. ASSUME NEW t \in Tasks, Open(t)
      PROVE  RunIsCurrent'
  <2>1. /\ pc[t] = "opening" /\ pc' = [pc EXCEPT ![t] = "active"]
        /\ view' = [view EXCEPT ![t] = db]
        /\ UNCHANGED <<db, ops, applied>>
    BY <1>3 DEF Open, Goto
  <2>2. ops[t] = <<>> /\ t \notin applied
    BY <2>1 DEF RunIsCurrent, Outside, Settled, Ended
  <2>3. Run(ops[t], db, t) = [ok |-> TRUE, records |-> db]
    BY <2>2, RunOfNone DEF Begun
  <2>. QED
    BY <2>1, <2>2, <2>3 DEF RunIsCurrent, StoreTypes, LockInv, Outside, Settled, Ended
<1>4. ASSUME NEW t \in Tasks, NEW op \in Ops, Operate(t, op)
      PROVE  RunIsCurrent'
  <2>1. /\ pc[t] = "active" /\ Applicable(op, view[t])
        /\ view' = [view EXCEPT ![t] = After(op, view[t], t)]
        /\ ops' = [ops EXCEPT ![t] = Append(ops[t], op)]
        /\ UNCHANGED <<db, pc, applied>>
    BY <1>4 DEF Operate
  <2>2. Run(Append(ops[t], op), db, t) = Step(op, Run(ops[t], db, t), t)
    BY RunOfOneMore DEF StoreTypes
  <2>3. Run(ops[t], db, t) = [ok |-> TRUE, records |-> view[t]]
    BY <2>1 DEF RunIsCurrent
  <2>4. Step(op, [ok |-> TRUE, records |-> view[t]], t) =
          [ok |-> TRUE, records |-> After(op, view[t], t)]
    BY <2>1 DEF Step
  <2>5. ops'[t] = Append(ops[t], op) /\ view'[t] = After(op, view[t], t)
    BY <2>1 DEF StoreTypes
  <2>6. Run(ops'[t], db', t) = [ok |-> TRUE, records |-> view'[t]]
    BY <2>1, <2>2, <2>3, <2>4, <2>5, Zenon
  <2>7. \A v \in Tasks \ {t} : ops'[v] = ops[v] /\ view'[v] = view[v]
    BY <2>1 DEF StoreTypes
  <2>8. pc[t] \notin Outside
    BY <2>1 DEF Outside, Ended
  <2>. QED
    BY <2>1, <2>6, <2>7, <2>8, Zenon DEF RunIsCurrent
<1>5. ASSUME NEW t \in Tasks,
             \/ Leave(t) \/ LeaveByError(t) \/ Rollback(t) \/ FinishFails(t)
             \/ \E op \in Ops : LeaveStatementBehind(t, op)
      PROVE  RunIsCurrent'
  <2>1. /\ UNCHANGED <<db, view, ops, applied>>
        /\ pc[t] \in Writing
        /\ \E u \in {"committing", "rolling_back", "closing"} :
              Goto(t, u) /\ (u = "committing" => pc[t] = "active")
    BY <1>5
    DEF Leave, LeaveByError, Rollback, FinishFails, LeaveStatementBehind, Writing, blockVars
  <2>2. t \notin applied
    BY <2>1 DEF RunIsCurrent, Settled, Ended, Writing
  <2>. QED
    BY <2>1, <2>2, MoveKeepsRun DEF States, Critical, Outside, Ended
<1>6. ASSUME NEW t \in Tasks, Commit(t) \/ CommitUnseen(t)
      PROVE  RunIsCurrent'
  <2>1. /\ pc[t] = "committing" /\ applied' = applied \cup {t} /\ UNCHANGED <<view, ops>>
        /\ \E u \in {"committed", "closing"} : pc' = [pc EXCEPT ![t] = u]
    BY <1>6 DEF Commit, CommitUnseen, Goto, blockVars
  <2>2. ASSUME NEW u \in Tasks, u # t
        PROVE  pc'[u] = pc[u] /\ pc[u] \notin {"active", "committing"}
    BY <2>1, <2>2 DEF WriteLock, Writing, LockInv
  <2>3. pc'[t] \in {"committed", "closing"}
    BY <2>1 DEF LockInv
  <2>. QED
    BY <2>1, <2>2, <2>3 DEF RunIsCurrent, Outside, Settled, Ended
<1>7. ASSUME NEW t \in Tasks, RunLate(t)
      PROVE  FALSE
  BY <1>7 DEF RunLate, AuthorsKnown
<1>8. ASSUME NEW t \in Tasks, Close(t) \/ CancelClosing(t)
      PROVE  RunIsCurrent'
  <2>1. /\ view' = [view EXCEPT ![t] = Nothing] /\ ops' = [ops EXCEPT ![t] = <<>>]
        /\ UNCHANGED <<db, applied>>
        /\ \E u \in Ended : pc' = [pc EXCEPT ![t] = u]
    BY <1>8 DEF Close, CancelClosing, Disconnect, Goto, Ended
  <2>2. ops'[t] = <<>> /\ pc'[t] \in Ended
    BY <2>1 DEF LockInv, StoreTypes
  <2>3. \A u \in Tasks \ {t} : ops'[u] = ops[u] /\ view'[u] = view[u] /\ pc'[u] = pc[u]
    BY <2>1 DEF LockInv, StoreTypes
  <2>. QED
    BY <2>1, <2>2, <2>3 DEF RunIsCurrent, Outside, Settled, Ended
<1>9. ASSUME NEW p \in Processes, Crash(p)
      PROVE  RunIsCurrent'
  <2> DEFINE dead == {t \in Tasks : Process[t] = p /\ pc[t] \notin {"idle"} \cup Ended}
  <2>1. /\ pc' = [t \in Tasks |-> IF t \in dead THEN "raised" ELSE pc[t]]
        /\ view' = [t \in Tasks |-> IF t \in dead THEN Nothing ELSE view[t]]
        /\ ops' = [t \in Tasks |-> IF t \in dead THEN <<>> ELSE ops[t]]
        /\ UNCHANGED <<db, applied>>
    BY <1>9 DEF Crash
  <2>. HIDE DEF dead
  <2>2. \A t \in dead \cap Tasks : pc'[t] = "raised" /\ ops'[t] = <<>>
    BY <2>1
  <2>3. \A t \in Tasks \ dead : pc'[t] = pc[t] /\ ops'[t] = ops[t] /\ view'[t] = view[t]
    BY <2>1
  <2>. QED
    BY <2>1, <2>2, <2>3 DEF RunIsCurrent, Outside, Settled, Ended
<1>10. ASSUME NEW p \in Processes, Shutdown(p)
       PROVE  RunIsCurrent'
  BY <1>1, <1>10 DEF Shutdown, blockVars
<1>. QED
  BY <1>1, <1>2, <1>3, <1>4, <1>5, <1>6, <1>7, <1>8, <1>9, <1>10
  DEF Next, Progress, Body, Cancel, transactionVars, blockVars

-----------------------------------------------------------------------------
\* What holds of the blocks when no statement outlives its block.
BlockInv == RunIsCurrent /\ WriteLock /\ LockInv /\ StoreTypes /\ AuthorsKnown

LEMMA BlocksHold == PromptSpec => []BlockInv
<1>1. Init => WriteLock
  BY DEF Init, WriteLock, Writing
<1>2. Init => BlockInv
  BY <1>1, RunInit, LockInit, TypesInit, AuthorsInit DEF BlockInv
<1>3. [Next /\ UNCHANGED late]_transactionVars => [Next]_transactionVars
  OBVIOUS
<1>4. BlockInv /\ [Next /\ UNCHANGED late]_transactionVars => BlockInv'
  BY <1>3, RunStep, WriteLockStep, LockStep, TypesStep, AuthorsStep DEF BlockInv
<1>. QED
  BY <1>2, <1>4, PTL DEF PromptSpec

\* An open block sees what is committed and its own writes, whatever the others do, and
\* what a block that was rolled back wrote is nowhere in the file (BlocksAreIsolated).
THEOREM BlocksIsolated == PromptSpec => []BlocksAreIsolated
<1>1. BlockInv => ViewsAreCurrent
  <2>. SUFFICES ASSUME RunIsCurrent, NEW t \in Tasks, pc[t] \in {"active", "committing"}
                PROVE  view[t] = Run(ops[t], db, t).records
    BY DEF BlockInv, ViewsAreCurrent
  <2>1. Run(ops[t], db, t) = [ok |-> TRUE, records |-> view[t]]
    BY DEF RunIsCurrent
  <2>. QED
    BY <2>1
<1>2. BlockInv => OnlyCommittedWrites
  BY DEF BlockInv, AuthorsKnown, OnlyCommittedWrites
<1>. QED
  BY <1>1, <1>2, BlocksHold, PTL DEF BlocksAreIsolated

-----------------------------------------------------------------------------
\* The batch and the answer of each block, as its caller sees them.
Batch == [t \in Tasks |-> IF t \in applied THEN <<>> ELSE ops[t]]
Answer == [t \in Tasks |-> IF pc[t] \in Ended THEN pc[t] ELSE "none"]

\* Both modules run a batch in the same way.
LEMMA StoreRuns ==
  ASSUME NEW b, NEW s, NEW t
  PROVE  Store!Run(b, s, t) = Run(b, s, t)
BY Zenon
DEF Run, FoldLeft, MapThenFoldSet, Max, Applicable, After, Absent,
    Store!Run, Store!FoldLeft, Store!MapThenFoldSet, Store!Max, Store!Applicable,
    Store!After, Store!Absent

\* A step that callers do not see.
LEMMA Unseen ==
  ASSUME LockInv, UNCHANGED <<db, ops, applied>>, NEW t \in Tasks, NEW u \in States \ Ended,
         Goto(t, u), pc[t] \notin Ended
  PROVE  UNCHANGED <<db, Batch, applied, Answer>>
<1>1. Answer' = Answer
  BY DEF Goto, LockInv, Answer
<1>2. Batch' = Batch
  BY DEF Batch
<1>. QED
  BY <1>1, <1>2

\* A block that ends by an exception.
LEMMA Raised ==
  ASSUME LockInv, StoreTypes, NEW t \in Tasks, pc[t] \notin Ended, Goto(t, "raised"),
         UNCHANGED <<db, applied>>, ops' = [ops EXCEPT ![t] = <<>>]
  PROVE  Store!Raise({t})
<1>1. Answer[t] = "none"
  BY DEF Answer
<1>2. Answer' = [u \in Tasks |-> IF u \in {t} THEN "raised" ELSE Answer[u]]
  BY DEF Goto, LockInv, Answer, Ended
<1>3. Batch' = [u \in Tasks |-> IF u \in {t} THEN <<>> ELSE Batch[u]]
  BY DEF Batch, StoreTypes
<1>. QED
  BY <1>1, <1>2, <1>3 DEF Store!Raise, Batch, Answer

LEMMA StoreStep ==
  BlockInv /\ [Next /\ UNCHANGED late]_transactionVars
    => [Store!StoreNext]_<<db, Batch, applied, Answer>>
<1>. SUFFICES ASSUME BlockInv, [Next /\ UNCHANGED late]_transactionVars
              PROVE  Store!StoreNext \/ UNCHANGED <<db, Batch, applied, Answer>>
  OBVIOUS
<1>. USE DEF BlockInv
<1>1. CASE UNCHANGED <<db, ops, pc, applied>>
  BY <1>1 DEF Batch, Answer
<1>2. ASSUME NEW t \in Tasks,
             \/ Enter(t) \/ TakeForInit(t) \/ Initialize(t) \/ TakeForTransaction(t)
             \/ Open(t) \/ Leave(t) \/ LeaveByError(t) \/ Rollback(t) \/ FinishFails(t)
             \/ \E op \in Ops : LeaveStatementBehind(t, op)
      PROVE  UNCHANGED <<db, Batch, applied, Answer>>
  <2>1. /\ UNCHANGED <<db, ops, applied>>
        /\ pc[t] \notin Ended
        /\ \E u \in States \ Ended : Goto(t, u)
    BY <1>2
    DEF Enter, TakeForInit, Initialize, TakeForTransaction, Open, Leave, LeaveByError,
        Rollback, FinishFails, LeaveStatementBehind, blockVars, States, Critical, Ended
  <2>. QED
    BY <2>1, Unseen
<1>3. ASSUME NEW t \in Tasks,
             \/ EnterClosed(t) \/ InitializeFails(t) \/ OpenFails(t) \/ CancelWaiting(t)
             \/ CancelOpening(t) \/ CancelClosing(t) \/ (Close(t) /\ pc[t] = "closing")
      PROVE  \E S \in SUBSET Tasks : Store!Raise(S)
  <2>1. CASE CancelClosing(t) \/ (Close(t) /\ pc[t] = "closing")
    <3>1. /\ UNCHANGED <<db, applied>> /\ ops' = [ops EXCEPT ![t] = <<>>]
          /\ pc[t] \notin Ended /\ Goto(t, "raised")
      BY <2>1 DEF CancelClosing, Close, Disconnect, Ended
    <3>. QED
      BY <3>1, Raised
  <2>2. CASE ~(CancelClosing(t) \/ (Close(t) /\ pc[t] = "closing"))
    <3>1. /\ UNCHANGED <<db, ops, applied>>
          /\ pc[t] \in Outside \ Ended /\ Goto(t, "raised")
      BY <1>3, <2>2
      DEF EnterClosed, InitializeFails, OpenFails, CancelWaiting, CancelOpening, blockVars,
          Outside, Ended
    <3>2. ops[t] = <<>>
      BY <3>1 DEF RunIsCurrent
    <3>3. ops' = [ops EXCEPT ![t] = <<>>]
      BY <3>1, <3>2 DEF StoreTypes
    <3>. QED
      BY <3>1, <3>3, Raised
  <2>. QED
    BY <2>1, <2>2
<1>4. ASSUME NEW t \in Tasks, NEW op \in Ops, Operate(t, op)
      PROVE  Store!Submit(t, op)
  <2>1. /\ pc[t] = "active" /\ ops' = [ops EXCEPT ![t] = Append(ops[t], op)]
        /\ UNCHANGED <<db, pc, applied>>
    BY <1>4 DEF Operate
  <2>2. t \notin applied /\ Answer[t] = "none"
    BY <2>1 DEF RunIsCurrent, Settled, Ended, Answer
  <2>3. Batch' = [Batch EXCEPT ![t] = Append(Batch[t], op)]
    BY <2>1, <2>2 DEF Batch, StoreTypes
  <2>4. Answer' = Answer
    BY <2>1 DEF Answer
  <2>. QED
    BY <2>1, <2>2, <2>3, <2>4 DEF Store!Submit, Store!Pending, Batch, Answer
<1>5. ASSUME NEW t \in Tasks, Commit(t) \/ CommitUnseen(t)
      PROVE  Store!TakeEffect(t)
  <2>1. /\ pc[t] = "committing" /\ db' = view[t] /\ applied' = applied \cup {t}
        /\ UNCHANGED ops
        /\ \E u \in {"committed", "closing"} : Goto(t, u)
    BY <1>5 DEF Commit, CommitUnseen, blockVars
  <2>2. t \notin applied /\ Answer[t] = "none" /\ Batch[t] = ops[t]
    BY <2>1 DEF RunIsCurrent, Settled, Ended, Answer, Batch
  <2>3. Run(ops[t], db, t) = [ok |-> TRUE, records |-> view[t]]
    BY <2>1 DEF RunIsCurrent
  <2>4. Store!Run(Batch[t], db, t) = [ok |-> TRUE, records |-> view[t]]
    BY <2>2, <2>3, StoreRuns
  <2>5. Store!Run(Batch[t], db, t).ok /\ db' = Store!Run(Batch[t], db, t).records
    BY <2>1, <2>4
  <2>6. Batch' = [Batch EXCEPT ![t] = <<>>]
    BY <2>1 DEF Batch
  <2>7. Answer' = Answer
    BY <2>1 DEF Answer, Goto, LockInv, Ended
  <2>. QED
    BY <2>1, <2>2, <2>5, <2>6, <2>7 DEF Store!TakeEffect, Store!Pending, Batch, Answer
<1>6. ASSUME NEW t \in Tasks, Close(t), pc[t] = "committed"
      PROVE  Store!Return(t)
  <2>1. /\ UNCHANGED <<db, applied>> /\ ops' = [ops EXCEPT ![t] = <<>>]
        /\ Goto(t, "returned") /\ t \in applied
    BY <1>6 DEF Close, Disconnect, RunIsCurrent
  <2>2. Answer[t] = "none"
    BY <1>6 DEF Answer, Ended
  <2>3. Batch' = Batch
    BY <2>1 DEF Batch, StoreTypes
  <2>4. Answer' = [Answer EXCEPT ![t] = "returned"]
    BY <2>1 DEF Answer, Goto, LockInv, Ended
  <2>. QED
    BY <2>1, <2>2, <2>3, <2>4 DEF Store!Return, Batch, Answer
<1>7. ASSUME NEW t \in Tasks, RunLate(t)
      PROVE  FALSE
  BY <1>7 DEF RunLate, AuthorsKnown
<1>8. ASSUME NEW p \in Processes, Crash(p)
      PROVE  \E S \in SUBSET Tasks : Store!Raise(S)
  <2>0. PICK dead \in SUBSET Tasks :
               dead = {t \in Tasks : Process[t] = p /\ pc[t] \notin {"idle"} \cup Ended}
    OBVIOUS
  <2>1. /\ pc' = [t \in Tasks |-> IF t \in dead THEN "raised" ELSE pc[t]]
        /\ ops' = [t \in Tasks |-> IF t \in dead THEN <<>> ELSE ops[t]]
        /\ UNCHANGED <<db, applied>>
    BY <1>8, <2>0 DEF Crash
  <2>2. \A t \in dead : Answer[t] = "none"
    BY <2>0 DEF Answer
  <2>3. Answer' = [t \in Tasks |-> IF t \in dead THEN "raised" ELSE Answer[t]]
    BY <2>1 DEF Answer, Ended
  <2>4. Batch' = [t \in Tasks |-> IF t \in dead THEN <<>> ELSE Batch[t]]
    BY <2>1 DEF Batch
  <2>5. Store!Raise(dead)
    BY <2>1, <2>2, <2>3, <2>4 DEF Store!Raise, Batch, Answer
  <2>. QED
    BY <2>5
<1>9. ASSUME NEW p \in Processes, Shutdown(p)
      PROVE  UNCHANGED <<db, Batch, applied, Answer>>
  BY <1>9 DEF Shutdown, blockVars, Batch, Answer
<1>10. ASSUME NEW t \in Tasks,
              Enter(t) \/ EnterClosed(t) \/ Progress(t) \/ Body(t) \/ Cancel(t) \/ RunLate(t)
       PROVE  Store!StoreNext \/ UNCHANGED <<db, Batch, applied, Answer>>
  <2>1. Close(t) => pc[t] \in {"committed", "closing"}
    BY DEF Close
  <2>2. ASSUME NEW op \in Ops, Operate(t, op)
        PROVE  Store!StoreNext
    BY <1>4, <2>2 DEF Store!StoreNext
  <2>3. ASSUME \/ Commit(t) \/ CommitUnseen(t)
               \/ (Close(t) /\ pc[t] = "committed")
        PROVE  Store!StoreNext
    BY <1>5, <1>6, <2>3 DEF Store!StoreNext
  <2>4. ASSUME \/ EnterClosed(t) \/ InitializeFails(t) \/ OpenFails(t) \/ CancelWaiting(t)
               \/ CancelOpening(t) \/ CancelClosing(t) \/ (Close(t) /\ pc[t] = "closing")
        PROVE  Store!StoreNext
    BY <1>3, <2>4 DEF Store!StoreNext
  <2>5. CASE Body(t)
    BY <1>2, <2>2, <2>5 DEF Body
  <2>6. CASE Progress(t)
    <3>1. CASE \/ TakeForInit(t) \/ Initialize(t) \/ TakeForTransaction(t) \/ Open(t)
               \/ Rollback(t) \/ FinishFails(t)
      BY <1>2, <3>1
    <3>2. CASE InitializeFails(t) \/ OpenFails(t) \/ (Close(t) /\ pc[t] = "closing")
      BY <2>4, <3>2
    <3>3. CASE Commit(t) \/ (Close(t) /\ pc[t] = "committed")
      BY <2>3, <3>3
    <3>4. Close(t) => pc[t] = "committed" \/ pc[t] = "closing"
      BY <2>1
    <3>. QED
      BY <2>6, <3>1, <3>2, <3>3, <3>4 DEF Progress
  <2>7. CASE Cancel(t)
    BY <2>3, <2>4, <2>7 DEF Cancel
  <2>8. CASE Enter(t) \/ EnterClosed(t) \/ RunLate(t)
    BY <1>2, <1>7, <2>4, <2>8
  <2>. QED
    BY <1>10, <2>5, <2>6, <2>7, <2>8
<1>11. ASSUME NEW p \in Processes, Shutdown(p) \/ Crash(p)
       PROVE  Store!StoreNext \/ UNCHANGED <<db, Batch, applied, Answer>>
  BY <1>8, <1>9, <1>11 DEF Store!StoreNext
<1>. QED
  BY <1>1, <1>10, <1>11 DEF Next, transactionVars, blockVars

\* Every behaviour of the blocks is one of the abstract store: the operations of a block
\* take effect together, at its COMMIT and against the records of that instant, or not at
\* all, and a block that returns has taken effect (ImplementsStore).
THEOREM BlocksImplementStore == PromptSpec => ImplementsStore
<1>1. Init => Store!StoreInit
  BY DEF Init, Store!StoreInit, Store!Absent, Nothing, Absent, Ended
<1>2. <<db, Batch, applied, Answer>> = Store!storeVars
  BY DEF Store!storeVars, Batch, Answer
<1>3. BlockInv /\ [Next /\ UNCHANGED late]_transactionVars => [Store!StoreNext]_(Store!storeVars)
  BY StoreStep DEF Store!storeVars, Batch, Answer
<1>. QED
  BY <1>1, <1>3, BlocksHold, PTL DEF PromptSpec, ImplementsStore, Store!StoreSpec
============================================================================
