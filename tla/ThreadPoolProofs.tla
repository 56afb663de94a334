-------------------------- MODULE ThreadPoolProofs --------------------------
(***************************************************************************)
(* For every set of workers and jobs and any number of submissions: the      *)
(* pool keeps its types, neither of its assertions fires, no wakeup of a     *)
(* worker is lost, and the pool implements the Executor.                     *)
(***************************************************************************)
EXTENDS ThreadPool, TLAPS, FiniteSetTheorems, SequenceTheorems

Distinct(s) == \A i, k \in DOMAIN s : s[i] = s[k] => i = k

RunningThreads == {t \in Threads : pc[t] = "run"}
RunningJobs == {job[t] : t \in RunningThreads}

(* A job is in one place, once: in the queue, with one thread, or finished. *)
Apart ==
  /\ Distinct(queue) /\ Distinct(done)
  /\ Elements(queue) \cap Elements(done) = {}
  /\ \A t \in Threads : pc[t] = "run" <=> job[t] # NoJob
  /\ \A t \in RunningThreads : job[t] \notin Elements(queue) \cup Elements(done)
  /\ \A t, u \in RunningThreads : job[t] = job[u] => t = u

(* The client's account agrees with the pool, and so do the counters.       *)
HeldExact == held = Elements(queue) \cup RunningJobs \cup Elements(done)
Counted == submitted = completed + Len(queue) + Cardinality(RunningThreads)

(* What the client and the workers know from where they are.                *)
Places ==
  /\ \A w \in Workers \ team : pc[w] = "exited"
  /\ pc[Client] \in {"step", "run", "notify"} => team = {}
  /\ pc[Client] \in {"poll", "poll_asleep", "step", "run", "notify"} => held # {}
  /\ pc[Client] = "waited" \/ shutdown => completed = submitted
  /\ shutdown <=> pc[Client] \in {"deinit_notify", "join", "closed"}

IInv == TypeOK /\ Apart /\ HeldExact /\ Counted /\ Places

-----------------------------------------------------------------------------
(* What pushing a job does to a stack of jobs, and what popping one does.   *)
LEMMA PushFacts ==
  ASSUME NEW S, NEW s \in Seq(S), NEW e \in S
  PROVE  /\ Append(s, e) \in Seq(S)
         /\ Append(s, e) # <<>>
         /\ Len(Append(s, e)) = Len(s) + 1
         /\ Elements(Append(s, e)) = Elements(s) \cup {e}
         /\ Distinct(s) /\ e \notin Elements(s) => Distinct(Append(s, e))
<1>1. /\ Append(s, e) \in Seq(S) /\ Len(Append(s, e)) = Len(s) + 1
      /\ \A i \in 1..Len(s) : Append(s, e)[i] = s[i]
      /\ Append(s, e)[Len(s) + 1] = e
      /\ Len(s) \in Nat
  BY AppendProperties
<1>2. DOMAIN s = 1..Len(s) /\ DOMAIN Append(s, e) = 1..(Len(s) + 1)
  BY <1>1, LenProperties
<1>3. Elements(Append(s, e)) = Elements(s) \cup {e}
  <2>1. ASSUME NEW x \in Elements(Append(s, e)) PROVE x \in Elements(s) \cup {e}
    <3>1. PICK i \in 1..(Len(s) + 1) : x = Append(s, e)[i]
      BY <1>2, <2>1 DEF Elements
    <3> QED BY <1>1, <1>2, <3>1 DEF Elements
  <2>2. ASSUME NEW x \in Elements(s) PROVE x \in Elements(Append(s, e))
    <3>1. PICK i \in 1..Len(s) : x = s[i]
      BY <1>2, <2>2 DEF Elements
    <3> QED BY <1>1, <1>2, <3>1 DEF Elements
  <2>3. e \in Elements(Append(s, e))
    BY <1>1, <1>2 DEF Elements
  <2> QED BY <2>1, <2>2, <2>3
<1>4. ASSUME Distinct(s), e \notin Elements(s) PROVE Distinct(Append(s, e))
  BY <1>1, <1>2, <1>4 DEF Distinct, Elements
<1> QED BY <1>1, <1>3, <1>4, EmptySeq

LEMMA PopFacts ==
  ASSUME NEW S, NEW s \in Seq(S), s # <<>>
  PROVE  /\ Pop(s) \in Seq(S)
         /\ Len(Pop(s)) = Len(s) - 1 /\ Len(s) \in Nat \ {0}
         /\ Top(s) \in S /\ Top(s) \in Elements(s)
         /\ Distinct(s) => /\ Distinct(Pop(s))
                           /\ Elements(Pop(s)) = Elements(s) \ {Top(s)}
<1>1. Len(s) \in Nat \ {0} /\ DOMAIN s = 1..Len(s) /\ \A i \in 1..Len(s) : s[i] \in S
  BY EmptySeq, LenProperties, ElementOfSeq
<1>2. /\ Pop(s) \in Seq(S) /\ Len(Pop(s)) = Len(s) - 1
      /\ \A i \in 1..(Len(s) - 1) : Pop(s)[i] = s[i]
  <2>1. /\ SubSeq(s, 1, Len(s) - 1) \in Seq(S)
        /\ Len(SubSeq(s, 1, Len(s) - 1)) = IF 1 <= Len(s) - 1 THEN Len(s) - 1 - 1 + 1 ELSE 0
        /\ \A i \in 1..(Len(s) - 1 - 1 + 1) : SubSeq(s, 1, Len(s) - 1)[i] = s[1 + i - 1]
    <3>1. \A i \in 1..(Len(s) - 1) : s[i] \in S
      BY <1>1
    <3>2. 1 \in Int /\ Len(s) - 1 \in Int
      BY <1>1
    <3> QED BY <3>1, <3>2, SubSeqProperties
  <2> QED BY <1>1, <2>1 DEF Pop
<1>3. DOMAIN Pop(s) = 1..(Len(s) - 1)
  BY <1>2, LenProperties
<1>4. Top(s) \in S /\ Top(s) \in Elements(s)
  BY <1>1 DEF Top, Elements
<1>5. ASSUME Distinct(s) PROVE Distinct(Pop(s)) /\ Elements(Pop(s)) = Elements(s) \ {Top(s)}
  <2>1. Distinct(Pop(s))
    BY <1>1, <1>2, <1>3, <1>5 DEF Distinct
  <2>2. ASSUME NEW x \in Elements(Pop(s)) PROVE x \in Elements(s) \ {Top(s)}
    <3>1. PICK i \in 1..(Len(s) - 1) : x = s[i]
      BY <1>2, <1>3, <2>2 DEF Elements
    <3> QED BY <1>1, <1>5, <3>1 DEF Elements, Top, Distinct
  <2>3. ASSUME NEW x \in Elements(s) \ {Top(s)} PROVE x \in Elements(Pop(s))
    <3>1. PICK i \in 1..Len(s) : x = s[i]
      BY <1>1, <2>3 DEF Elements
    <3>2. i # Len(s)
      BY <3>1, <2>3 DEF Top
    <3>3. i \in 1..(Len(s) - 1)
      <4>1. \A n \in Nat : \A m \in 1..n : m # n => m \in 1..(n - 1)
        OBVIOUS
      <4> QED BY <1>1, <3>2, <4>1
    <3>4. x = Pop(s)[i]
      BY <1>2, <3>1, <3>3
    <3> QED BY <1>3, <3>3, <3>4 DEF Elements
  <2> QED BY <2>1, <2>2, <2>3
<1> QED BY <1>1, <1>2, <1>4, <1>5

(* The threads are finitely many, so that they can be counted.              *)
LEMMA RunningFinite ==
  /\ IsFiniteSet(RunningThreads)
  /\ Cardinality(RunningThreads) \in Nat
  /\ Cardinality(RunningThreads) = 0 <=> RunningThreads = {}
<1>1. IsFiniteSet(Threads)
  BY PoolAssumption, FS_AddElement DEF Threads
<1>2. RunningThreads \in SUBSET Threads
  BY DEF RunningThreads
<1> QED BY <1>1, <1>2, FS_Subset, FS_CardinalityType, FS_EmptySet

LEMMA InitInv == Init => IInv
<1> SUFFICES ASSUME Init PROVE IInv
  OBVIOUS
<1>1. TypeOK
  <2>1. pc \in [Threads -> WorkerPCs \cup ClientPCs]
    BY DEF Init, WorkerPCs, ClientPCs
  <2>2. pc[Client] \in ClientPCs /\ \A w \in Workers : pc[w] \in WorkerPCs
    BY PoolAssumption DEF Init, Threads, WorkerPCs, ClientPCs
  <2>3. job \in [Threads -> Jobs \cup {NoJob}]
    BY DEF Init
  <2>4. queue \in Seq(Jobs) /\ done \in Seq(Jobs)
    BY EmptySeq DEF Init
  <2> QED BY <2>1, <2>2, <2>3, <2>4 DEF Init, TypeOK
<1>2. RunningThreads = {}
  BY DEF Init, RunningThreads, Threads
<1>3. Elements(<<>>) = {} /\ Distinct(<<>>)
  BY DEF Elements, Distinct
<1>4. Apart
  <2>1. \A t \in Threads : pc[t] # "run" /\ job[t] = NoJob
    BY DEF Init, Threads
  <2>2. queue = <<>> /\ done = <<>>
    BY DEF Init
  <2> QED BY <1>2, <1>3, <2>1, <2>2 DEF Apart
<1>5. HeldExact
  BY <1>2, <1>3 DEF Init, HeldExact, RunningJobs
<1>6. Counted
  BY <1>2, RunningFinite DEF Init, Counted
<1>7. Places
  BY PoolAssumption DEF Init, Places, Threads
<1> QED BY <1>1, <1>4, <1>5, <1>6, <1>7 DEF IInv

(* A step that only moves threads, and starts or ends no job.               *)
LEMMA OnlyMoves ==
  ASSUME IInv, UNCHANGED <<job, queue, done, submitted, completed, held>>,
         \A t \in Threads : pc'[t] = "run" <=> pc[t] = "run"
  PROVE  Apart' /\ HeldExact' /\ Counted'
<1>1. RunningThreads' = RunningThreads
  BY DEF RunningThreads
<1>2. RunningJobs' = RunningJobs
  BY <1>1 DEF RunningJobs
<1>3. Apart'
  BY <1>1 DEF IInv, Apart
<1>4. HeldExact' /\ Counted'
  BY <1>1, <1>2 DEF IInv, HeldExact, Counted
<1> QED BY <1>3, <1>4

(* Where nothing is queued or running, everything submitted is completed.   *)
LEMMA CountedFacts ==
  ASSUME IInv
  PROVE  /\ completed = submitted => queue = <<>> /\ RunningThreads = {}
         /\ held = {} => completed = submitted
<1>1. Len(queue) \in Nat /\ queue \in Seq(Jobs) /\ completed \in Nat /\ submitted \in Nat
  BY LenProperties DEF IInv, TypeOK
<1>2. queue # <<>> => Len(queue) # 0
  BY <1>1, EmptySeq
<1>3. completed = submitted => Len(queue) = 0 /\ Cardinality(RunningThreads) = 0
  BY <1>1, RunningFinite DEF IInv, Counted
<1>4. ASSUME held = {} PROVE completed = submitted
  <2>1. RunningThreads = {} /\ Elements(queue) = {}
    BY <1>4 DEF IInv, HeldExact, RunningJobs
  <2>2. queue = <<>>
    BY <1>1, <2>1, PopFacts
  <2> QED BY <1>1, <2>1, <2>2, RunningFinite DEF IInv, Counted
<1> QED BY <1>2, <1>3, <1>4, RunningFinite

LEMMA StepTakeInv ==
  ASSUME IInv, NEW t \in Threads, StepTake(t)
  PROVE  IInv'
<1>1. CASE queue = <<>>
  <2>1. /\ pc' = [pc EXCEPT ![t] = AfterStep(t)]
        /\ UNCHANGED <<team, job, queue, done, submitted, completed, shutdown, held>>
    BY <1>1 DEF StepTake, Go
  <2>2. TypeOK'
    BY <2>1, PoolAssumption DEF IInv, TypeOK, AfterStep, Threads, WorkerPCs, ClientPCs
  <2>3. Apart' /\ HeldExact' /\ Counted'
    BY <2>1, OnlyMoves DEF IInv, TypeOK, StepTake, AfterStep
  <2>4. Places'
    BY <2>1, PoolAssumption DEF IInv, TypeOK, Places, StepTake, AfterStep, Threads
  <2> QED BY <2>2, <2>3, <2>4 DEF IInv
<1>2. CASE queue # <<>>
  <2> DEFINE j == Top(queue)
  <2>1. /\ pc[t] = "step" /\ pc' = [pc EXCEPT ![t] = "run"]
        /\ job' = [job EXCEPT ![t] = j] /\ queue' = Pop(queue)
        /\ UNCHANGED <<team, done, submitted, completed, shutdown, held>>
    BY <1>2 DEF StepTake, Go
  <2>2. /\ queue' \in Seq(Jobs) /\ Len(queue') = Len(queue) - 1 /\ Len(queue) \in Nat \ {0}
        /\ j \in Jobs /\ j \in Elements(queue) /\ Distinct(queue')
        /\ Elements(queue') = Elements(queue) \ {j}
    BY <1>2, <2>1, PopFacts DEF IInv, TypeOK, Apart
  <2> HIDE DEF j
  <2>3. TypeOK'
    BY <2>1, <2>2, PoolAssumption DEF IInv, TypeOK, Threads, WorkerPCs, ClientPCs
  <2>4. t \notin RunningThreads /\ RunningThreads' = RunningThreads \cup {t}
    BY <2>1 DEF IInv, TypeOK, RunningThreads
  <2>5. \A u \in Threads : job'[u] = IF u = t THEN j ELSE job[u]
    BY <2>1 DEF IInv, TypeOK
  <2>6. Apart'
    BY <2>1, <2>2, <2>4, <2>5, PoolAssumption DEF IInv, TypeOK, Apart, RunningThreads
  <2>7. RunningJobs' = RunningJobs \cup {j}
    BY <2>4, <2>5 DEF RunningJobs, RunningThreads
  <2>8. HeldExact'
    BY <2>1, <2>2, <2>7 DEF IInv, HeldExact
  <2>9. Counted'
    <3>1. Cardinality(RunningThreads') = Cardinality(RunningThreads) + 1
      BY <2>4, RunningFinite, FS_AddElement
    <3> QED BY <2>1, <2>2, <3>1, RunningFinite DEF IInv, TypeOK, Counted
  <2>10. Places'
    BY <2>1, PoolAssumption DEF IInv, TypeOK, Places, Threads
  <2> QED BY <2>3, <2>6, <2>8, <2>9, <2>10 DEF IInv
<1> QED BY <1>1, <1>2

LEMMA StepFinishInv ==
  ASSUME IInv, NEW t \in Threads, StepFinish(t)
  PROVE  IInv'
<1>1. /\ pc[t] = "run" /\ pc' = [pc EXCEPT ![t] = "notify"]
      /\ job' = [job EXCEPT ![t] = NoJob] /\ done' = Append(done, job[t])
      /\ completed' = completed + 1
      /\ UNCHANGED <<team, queue, submitted, shutdown, held>>
  BY DEF StepFinish, Go
<1>2. job[t] \in Jobs /\ t \in RunningThreads
  BY <1>1 DEF IInv, TypeOK, Apart, RunningThreads
<1>3. /\ done' \in Seq(Jobs) /\ Distinct(done')
      /\ Elements(done') = Elements(done) \cup {job[t]}
  BY <1>1, <1>2, PushFacts DEF IInv, TypeOK, Apart
<1>4. TypeOK'
  BY <1>1, <1>3, PoolAssumption DEF IInv, TypeOK, Threads, WorkerPCs, ClientPCs
<1>5. RunningThreads' = RunningThreads \ {t}
  BY <1>1 DEF IInv, TypeOK, RunningThreads
<1>6. \A u \in Threads : job'[u] = IF u = t THEN NoJob ELSE job[u]
  BY <1>1 DEF IInv, TypeOK
<1>7. Apart'
  <2>1. Distinct(queue') /\ Distinct(done') /\ Elements(queue') \cap Elements(done') = {}
    BY <1>1, <1>2, <1>3 DEF IInv, Apart
  <2>2. \A u \in Threads : pc'[u] = "run" <=> job'[u] # NoJob
    BY <1>1, <1>6 DEF IInv, TypeOK, Apart
  <2>3. \A u \in RunningThreads' : job'[u] \notin Elements(queue') \cup Elements(done')
    BY <1>1, <1>2, <1>3, <1>5, <1>6 DEF IInv, Apart, RunningThreads
  <2>4. \A u, v \in RunningThreads' : job'[u] = job'[v] => u = v
    BY <1>5, <1>6 DEF IInv, Apart, RunningThreads
  <2> QED BY <2>1, <2>2, <2>3, <2>4 DEF Apart
<1>8. RunningJobs' = RunningJobs \ {job[t]}
  <2>1. ASSUME NEW x \in RunningJobs' PROVE x \in RunningJobs \ {job[t]}
    BY <1>2, <1>5, <1>6, <2>1 DEF IInv, Apart, RunningJobs, RunningThreads
  <2>2. ASSUME NEW x \in RunningJobs \ {job[t]} PROVE x \in RunningJobs'
    BY <1>5, <1>6, <2>2 DEF RunningJobs, RunningThreads
  <2> QED BY <2>1, <2>2
<1>9. HeldExact'
  BY <1>1, <1>2, <1>3, <1>8 DEF IInv, HeldExact, RunningJobs
<1>10. Counted'
  <2>1. Cardinality(RunningThreads') = Cardinality(RunningThreads) - 1
    BY <1>2, <1>5, RunningFinite, FS_RemoveElement
  <2>2. Len(queue) \in Nat
    BY LenProperties DEF IInv, TypeOK
  <2> QED BY <1>1, <2>1, <2>2, RunningFinite DEF IInv, TypeOK, Counted
<1>11. Places'
  <2>1. completed # submitted
    BY <1>2, CountedFacts
  <2> QED BY <1>1, <2>1, PoolAssumption DEF IInv, TypeOK, Places, Threads
<1> QED BY <1>4, <1>7, <1>9, <1>10, <1>11 DEF IInv

(* The client takes a finished job out of the pool.                         *)
LEMMA TakeDoneInv ==
  ASSUME IInv, pc[Client] \in {"idle", "poll"}, TakeDone
  PROVE  IInv'
<1>1. /\ done # <<>> /\ done' = Pop(done) /\ held' = held \ {Top(done)}
      /\ pc' = [pc EXCEPT ![Client] = "idle"]
      /\ UNCHANGED <<team, job, queue, submitted, completed, shutdown>>
  BY DEF TakeDone, Go
<1>2. /\ done' \in Seq(Jobs) /\ Distinct(done')
      /\ Top(done) \in Elements(done)
      /\ Elements(done') = Elements(done) \ {Top(done)}
  BY <1>1, PopFacts DEF IInv, TypeOK, Apart
<1>3. TypeOK'
  BY <1>1, <1>2, PoolAssumption DEF IInv, TypeOK, Threads, WorkerPCs, ClientPCs
<1>4. RunningThreads' = RunningThreads /\ RunningJobs' = RunningJobs
  BY <1>1 DEF IInv, TypeOK, RunningThreads, RunningJobs, Threads
<1>5. \A t \in Threads : pc'[t] = "run" <=> pc[t] = "run"
  BY <1>1 DEF IInv, TypeOK, Threads
<1>6. Apart'
  BY <1>1, <1>2, <1>4, <1>5 DEF IInv, Apart
<1>7. \A x \in RunningJobs : x \notin Elements(done)
  BY DEF IInv, Apart, RunningJobs
<1>8. HeldExact'
  BY <1>1, <1>2, <1>4, <1>7 DEF IInv, Apart, HeldExact
<1>9. Counted'
  BY <1>1, <1>4 DEF IInv, Counted
<1>10. Places'
  BY <1>1, PoolAssumption DEF IInv, TypeOK, Places, Threads
<1> QED BY <1>3, <1>6, <1>8, <1>9, <1>10 DEF IInv

LEMMA SubmitInv ==
  ASSUME IInv, NEW j \in Jobs, Submit(j)
  PROVE  IInv'
<1>1. /\ pc[Client] = "idle" /\ j \notin held
      /\ queue' = Append(queue, j) /\ submitted' = submitted + 1
      /\ held' = held \cup {j} /\ pc' = [pc EXCEPT ![Client] = "submit_notify"]
      /\ UNCHANGED <<team, job, done, completed, shutdown>>
  BY DEF Submit, Go
<1>2. /\ j \notin Elements(queue) /\ j \notin Elements(done)
      /\ \A t \in RunningThreads : job[t] # j
  BY <1>1 DEF IInv, HeldExact, RunningJobs
<1>3. /\ queue' \in Seq(Jobs) /\ Distinct(queue')
      /\ Len(queue') = Len(queue) + 1 /\ Len(queue) \in Nat
      /\ Elements(queue') = Elements(queue) \cup {j}
  BY <1>1, <1>2, PushFacts, LenProperties DEF IInv, TypeOK, Apart
<1>4. TypeOK'
  BY <1>1, <1>3, PoolAssumption DEF IInv, TypeOK, Threads, WorkerPCs, ClientPCs
<1>5. RunningThreads' = RunningThreads /\ RunningJobs' = RunningJobs
  BY <1>1 DEF IInv, TypeOK, RunningThreads, RunningJobs, Threads
<1>6. \A t \in Threads : pc'[t] = "run" <=> pc[t] = "run"
  BY <1>1 DEF IInv, TypeOK, Threads
<1>7. Apart'
  BY <1>1, <1>2, <1>3, <1>5, <1>6 DEF IInv, Apart
<1>8. HeldExact'
  BY <1>1, <1>3, <1>5 DEF IInv, HeldExact
<1>9. Counted'
  BY <1>1, <1>3, <1>5, RunningFinite DEF IInv, TypeOK, Counted
<1>10. Places'
  BY <1>1, PoolAssumption DEF IInv, TypeOK, Places, Threads
<1> QED BY <1>4, <1>7, <1>8, <1>9, <1>10 DEF IInv

(* The steps that only move threads from one place to another.              *)
LEMMA StepNotifyInv ==
  ASSUME IInv, NEW t \in Threads, StepNotify(t)
  PROVE  IInv'
<1>1. /\ pc[t] = "notify"
      /\ pc' = [u \in Threads |-> IF u = t THEN AfterStep(t) ELSE Woken(pc[u])]
      /\ UNCHANGED <<team, job, queue, done, submitted, completed, shutdown, held>>
  BY DEF StepNotify
<1>2. TypeOK'
  BY <1>1, PoolAssumption
     DEF IInv, TypeOK, Threads, WorkerPCs, ClientPCs, AfterStep, Woken
<1>3. Apart' /\ HeldExact' /\ Counted'
  BY <1>1, OnlyMoves DEF IInv, TypeOK, AfterStep, Woken
<1>4. Places'
  BY <1>1, PoolAssumption DEF IInv, TypeOK, Places, Threads, AfterStep, Woken, WorkerPCs
<1> QED BY <1>2, <1>3, <1>4 DEF IInv

LEMMA WorkerCheckInv ==
  ASSUME IInv, NEW w \in Workers, WorkerCheck(w)
  PROVE  IInv'
<1>1. /\ pc[w] = "check" /\ pc' = [pc EXCEPT ![w] = AfterCheck]
      /\ AfterCheck \in {"exited", "asleep", "step"}
      /\ UNCHANGED <<team, job, queue, done, submitted, completed, shutdown, held>>
  BY DEF WorkerCheck, Go, AfterCheck
<1>2. TypeOK'
  BY <1>1, PoolAssumption DEF IInv, TypeOK, Threads, WorkerPCs, ClientPCs
<1>3. Apart' /\ HeldExact' /\ Counted'
  BY <1>1, OnlyMoves DEF IInv, TypeOK
<1>4. Places'
  BY <1>1, PoolAssumption DEF IInv, TypeOK, Places, Threads
<1> QED BY <1>2, <1>3, <1>4 DEF IInv

LEMMA SpuriousWakeInv ==
  ASSUME IInv, NEW t \in Threads, SpuriousWake(t)
  PROVE  IInv'
<1>1. PICK p : /\ pc' = [pc EXCEPT ![t] = p]
               /\ \/ pc[t] = "asleep" /\ p = "check"
                  \/ pc[t] = "poll_asleep" /\ p = "poll"
                  \/ pc[t] = "wait_asleep" /\ p = "wait"
               /\ UNCHANGED <<team, job, queue, done, submitted, completed, shutdown, held>>
  BY DEF SpuriousWake, Go, Woken
<1>2. TypeOK'
  BY <1>1, PoolAssumption DEF IInv, TypeOK, Threads, WorkerPCs, ClientPCs
<1>3. Apart' /\ HeldExact' /\ Counted'
  BY <1>1, OnlyMoves DEF IInv, TypeOK
<1>4. Places'
  BY <1>1, PoolAssumption DEF IInv, TypeOK, Places, Threads
<1> QED BY <1>2, <1>3, <1>4 DEF IInv

LEMMA SubmitNotifyInv ==
  ASSUME IInv, SubmitNotify
  PROVE  IInv'
<1>1. /\ pc[Client] = "submit_notify"
      /\ \/ pc' = [pc EXCEPT ![Client] = "idle"]
         \/ \E w \in Workers : /\ pc[w] = "asleep"
                               /\ pc' = [pc EXCEPT ![Client] = "idle", ![w] = "check"]
      /\ UNCHANGED <<team, job, queue, done, submitted, completed, shutdown, held>>
  BY DEF SubmitNotify, WakeOne, Asleep, Go
<1>2. TypeOK'
  BY <1>1, PoolAssumption DEF IInv, TypeOK, Threads, WorkerPCs, ClientPCs
<1>3. Apart' /\ HeldExact' /\ Counted'
  <2>1. \A t \in Threads : pc'[t] = "run" <=> pc[t] = "run"
    BY <1>1, PoolAssumption DEF IInv, TypeOK, Threads
  <2> QED BY <1>1, <2>1, OnlyMoves
<1>4. Places'
  BY <1>1, PoolAssumption DEF IInv, TypeOK, Places, Threads
<1> QED BY <1>2, <1>3, <1>4 DEF IInv

LEMMA DeinitNotifyInv ==
  ASSUME IInv, DeinitNotify
  PROVE  IInv'
<1>1. /\ pc[Client] = "deinit_notify"
      /\ pc' = [t \in Threads |-> IF t = Client THEN "join"
                                  ELSE IF t \in Asleep THEN "check" ELSE pc[t]]
      /\ UNCHANGED <<team, job, queue, done, submitted, completed, shutdown, held>>
  BY DEF DeinitNotify
<1>2. TypeOK'
  BY <1>1, PoolAssumption DEF IInv, TypeOK, Threads, WorkerPCs, ClientPCs
<1>3. Apart' /\ HeldExact' /\ Counted'
  BY <1>1, OnlyMoves DEF IInv, TypeOK, Asleep
<1>4. Places'
  BY <1>1, PoolAssumption DEF IInv, TypeOK, Places, Threads, Asleep
<1> QED BY <1>2, <1>3, <1>4 DEF IInv

(* The calls of the client, and its steps between two critical sections.    *)
ClientMove == \/ PollCall \/ PollBlock \/ WaitCall \/ WaitCheck \/ Deinit \/ Join

LEMMA ClientMoveInv ==
  ASSUME IInv, ClientMove
  PROVE  IInv'
<1>1. PICK p \in {"poll", "poll_asleep", "step", "wait", "waited", "wait_asleep",
                  "deinit_notify", "closed"} :
        /\ pc' = [pc EXCEPT ![Client] = p]
        /\ pc[Client] \notin {"run", "submit_notify"}
        /\ UNCHANGED <<team, job, queue, done, submitted, completed, held>>
        /\ shutdown' = (shutdown \/ p = "deinit_notify")
  BY DEF IInv, TypeOK, ClientMove, PollCall, PollBlock, WaitCall, WaitCheck, Deinit, Join, Go
<1>2. TypeOK'
  BY <1>1, PoolAssumption DEF IInv, TypeOK, Threads, WorkerPCs, ClientPCs
<1>3. Apart' /\ HeldExact' /\ Counted'
  BY <1>1, OnlyMoves DEF IInv, TypeOK
<1>4. \A w \in Workers : pc'[w] = pc[w]
  BY <1>1, PoolAssumption DEF IInv, TypeOK, Threads
<1>5. Places'
  <2>1. CASE PollCall
    BY <1>4, <2>1 DEF IInv, TypeOK, Places, Threads, PollCall, Go
  <2>2. CASE PollBlock
    BY <1>4, <2>2 DEF IInv, TypeOK, Places, Threads, PollBlock, Go
  <2>3. CASE WaitCall
    BY <1>4, <2>3 DEF IInv, TypeOK, Places, Threads, WaitCall, Go
  <2>4. CASE WaitCheck
    BY <1>4, <2>4 DEF IInv, TypeOK, Places, Threads, WaitCheck, WaitOver, Go
  <2>5. CASE Deinit
    BY <1>4, <2>5, CountedFacts DEF IInv, TypeOK, Places, Threads, Deinit, Go
  <2>6. CASE Join
    BY <1>4, <2>6 DEF IInv, TypeOK, Places, Threads, Join, Go
  <2> QED BY <2>1, <2>2, <2>3, <2>4, <2>5, <2>6 DEF ClientMove
<1> QED BY <1>2, <1>3, <1>5 DEF IInv

LEMMA NextInv == IInv /\ [Next]_vars => IInv'
<1> SUFFICES ASSUME IInv, [Next]_vars PROVE IInv'
  OBVIOUS
<1>1. ASSUME NEW t \in Threads, Step(t) PROVE IInv'
  BY <1>1, StepTakeInv, StepFinishInv, StepNotifyInv DEF Step
<1>2. CASE ClientStep
  BY <1>1, <1>2, SubmitNotifyInv, TakeDoneInv, ClientMoveInv, DeinitNotifyInv
     DEF ClientStep, PollReturn, ClientMove, Threads
<1>3. CASE ClientCall
  BY <1>3, TakeDoneInv, ClientMoveInv, SubmitInv DEF ClientCall, TryPoll, ClientMove
<1>4. ASSUME NEW w \in Workers, WorkerStep(w) PROVE IInv'
  BY <1>1, <1>4, WorkerCheckInv DEF WorkerStep, Threads
<1>5. ASSUME NEW t \in Threads, SpuriousWake(t) PROVE IInv'
  BY <1>5, SpuriousWakeInv
<1>6. CASE UNCHANGED vars
  <2>1. UNCHANGED <<team, pc, job, queue, done, submitted, completed, shutdown, held>>
    BY <1>6 DEF vars
  <2>2. TypeOK' /\ Places'
    BY <2>1 DEF IInv, TypeOK, Places
  <2>3. Apart' /\ HeldExact' /\ Counted'
    BY <2>1, OnlyMoves
  <2> QED BY <2>2, <2>3 DEF IInv
<1> QED BY <1>2, <1>3, <1>4, <1>5, <1>6 DEF Next, Closed

(* In every reachable state the pool's jobs are where its client and its    *)
(* counters say.                                                            *)
THEOREM PoolInvariant == Spec => []IInv
BY InitInv, NextInv, PTL DEF Spec

-----------------------------------------------------------------------------
(* Neither assertion of the code fires: pool_poll without workers finds a   *)
(* job to run, and spn_thread_pool_deinit finds the queue empty.            *)
THEOREM NoAssertFires == Spec => []AssertsHold
<1>1. IInv => AssertsHold
  <2> SUFFICES ASSUME IInv PROVE AssertsHold
    OBVIOUS
  <2>1. ASSUME pc[Client] = "poll", team = {}, done = <<>> PROVE queue # <<>>
    <3>1. RunningThreads = {}
      BY <2>1 DEF IInv, TypeOK, Places, RunningThreads, Threads
    <3>2. RunningJobs = {} /\ Elements(<<>>) = {}
      BY <3>1 DEF RunningJobs, Elements
    <3> QED BY <2>1, <3>2 DEF IInv, Places, HeldExact
  <2>2. ASSUME shutdown \/ pc[Client] = "waited" \/ (pc[Client] = "idle" /\ held = {})
        PROVE  queue = <<>>
    BY <2>2, CountedFacts DEF IInv, Places
  <2> QED BY <2>1, <2>2 DEF AssertsHold, IInv
<1> QED BY <1>1, PoolInvariant, PTL

-----------------------------------------------------------------------------
LEMMA HeadingFinite == IsFiniteSet(Heading) /\ Cardinality(Heading) \in Nat
<1>1. Heading \in SUBSET Workers
  BY DEF Heading
<1> QED BY <1>1, PoolAssumption, FS_Subset, FS_CardinalityType

(* A step that queues nothing, puts nobody to sleep and takes no worker     *)
(* away from the queue loses no wakeup.                                     *)
LEMMA NothingLost ==
  ASSUME IInv, IInv', WorkConserving, queue' = queue, Asleep' \subseteq Asleep,
         Heading \subseteq Heading',
         pc[Client] = "submit_notify" => pc'[Client] = "submit_notify"
  PROVE  WorkConserving'
<1>1. Cardinality(Heading) \in Nat /\ Len(queue) \in Nat
  BY HeadingFinite, LenProperties DEF IInv, TypeOK
<1>2. IsFiniteSet(Heading') /\ Cardinality(Heading') \in Nat
  BY HeadingFinite, PoolAssumption, FS_Subset, FS_CardinalityType DEF Heading
<1>3. Cardinality(Heading) <= Cardinality(Heading')
  BY <1>2, FS_Subset
<1> QED BY <1>1, <1>2, <1>3 DEF WorkConserving

LEMMA StepConserves ==
  ASSUME IInv, IInv', WorkConserving, NEW t \in Threads, Step(t)
  PROVE  WorkConserving'
<1>0. Len(queue) \in Nat /\ Cardinality(Heading) \in Nat
  BY HeadingFinite, LenProperties DEF IInv, TypeOK
<1>1. CASE StepTake(t) /\ queue # <<>>
  <2>1. /\ pc[t] = "step" /\ pc' = [pc EXCEPT ![t] = "run"] /\ queue' = Pop(queue)
    BY <1>1 DEF StepTake, Go
  <2>2. Len(queue') = Len(queue) - 1
    BY <1>1, <2>1, PopFacts DEF IInv, TypeOK
  <2>3. Asleep' = Asleep
    BY <2>1 DEF IInv, TypeOK, Asleep, Threads
  <2>4. pc[Client] = "submit_notify" => pc'[Client] = "submit_notify"
    BY <2>1 DEF IInv, TypeOK, Threads
  <2>5. Heading' = Heading \ {t}
    BY <2>1 DEF IInv, TypeOK, Heading, Threads
  <2>6. Cardinality(Heading') \in {Cardinality(Heading), Cardinality(Heading) - 1}
    BY <2>5, HeadingFinite, FS_RemoveElement
  <2> QED BY <1>0, <2>2, <2>3, <2>4, <2>6 DEF WorkConserving
<1>2. CASE StepTake(t) /\ queue = <<>>
  BY <1>2, NothingLost, PoolAssumption
     DEF IInv, TypeOK, StepTake, Go, AfterStep, Asleep, Heading, Threads
<1>3. CASE StepFinish(t)
  BY <1>3, NothingLost, PoolAssumption
     DEF IInv, TypeOK, StepFinish, Go, Asleep, Heading, Threads
<1>4. CASE StepNotify(t)
  BY <1>4, NothingLost, PoolAssumption
     DEF IInv, TypeOK, StepNotify, AfterStep, Woken, Asleep, Heading, Threads, WorkerPCs
<1> QED BY <1>1, <1>2, <1>3, <1>4 DEF Step

LEMMA NextConserves ==
  ASSUME IInv, IInv', WorkConserving, [Next]_vars
  PROVE  WorkConserving'
<1>0. /\ Len(queue) \in Nat /\ Cardinality(Heading) \in Nat
      /\ Len(queue') \in Nat
  BY HeadingFinite, LenProperties DEF IInv, TypeOK
<1>1. ASSUME NEW t \in Threads, Step(t) PROVE WorkConserving'
  BY <1>1, StepConserves
<1>2. ASSUME NEW w \in Workers, WorkerCheck(w) PROVE WorkConserving'
  <2>1. /\ pc[w] = "check" /\ pc' = [pc EXCEPT ![w] = AfterCheck]
        /\ UNCHANGED queue
    BY <1>2 DEF WorkerCheck, Go
  <2>2. CASE queue = <<>>
    <3>1. Len(queue') = 0 /\ Cardinality(Heading') \in Nat
      <4>1. Heading' \in SUBSET Workers
        BY DEF Heading
      <4> QED BY <2>1, <2>2, <4>1, EmptySeq, PoolAssumption, FS_Subset, FS_CardinalityType
    <3> QED BY <3>1 DEF WorkConserving
  <2>3. CASE queue # <<>>
    <3>1. ~shutdown
      BY <2>3, CountedFacts DEF IInv, Places
    <3>2. pc' = [pc EXCEPT ![w] = "step"]
      BY <2>1, <2>3, <3>1 DEF AfterCheck
    <3> QED BY <2>1, <3>2, NothingLost, PoolAssumption DEF IInv, TypeOK, Asleep, Heading, Threads
  <2> QED BY <2>2, <2>3
<1>3. ASSUME NEW t \in Threads, SpuriousWake(t) PROVE WorkConserving'
  BY <1>3, NothingLost, PoolAssumption
     DEF IInv, TypeOK, SpuriousWake, Go, Woken, Asleep, Heading, Threads
<1>4. ASSUME NEW j \in Jobs, Submit(j) PROVE WorkConserving'
  <2>1. /\ pc[Client] = "idle" /\ pc' = [pc EXCEPT ![Client] = "submit_notify"]
        /\ queue' = Append(queue, j)
    BY <1>4 DEF Submit, Go
  <2>2. Len(queue') = Len(queue) + 1
    BY <2>1, PushFacts DEF IInv, TypeOK
  <2>3. Asleep' = Asleep /\ Heading' = Heading /\ pc'[Client] = "submit_notify"
    BY <2>1, PoolAssumption DEF IInv, TypeOK, Asleep, Heading, Threads
  <2> QED BY <1>0, <2>1, <2>2, <2>3 DEF WorkConserving
<1>5. CASE SubmitNotify
  <2>1. CASE Asleep = {}
    <3>1. Asleep' = {}
      BY <1>5, <2>1, PoolAssumption
         DEF IInv, TypeOK, SubmitNotify, WakeOne, Go, Asleep, Threads
    <3> QED BY <3>1 DEF WorkConserving
  <2>2. CASE Asleep # {}
    <3>1. PICK w \in Asleep : pc' = [pc EXCEPT ![Client] = "idle", ![w] = "check"]
      BY <1>5, <2>2 DEF SubmitNotify, WakeOne
    <3>2. w \in Workers /\ pc[w] = "asleep" /\ w \notin Heading
      BY DEF Asleep, Heading
    <3>3. Heading' = Heading \cup {w} /\ pc'[Client] = "idle" /\ queue' = queue
      BY <1>5, <3>1, <3>2, PoolAssumption
         DEF IInv, TypeOK, SubmitNotify, Heading, Threads
    <3>4. Cardinality(Heading') = Cardinality(Heading) + 1
      BY <3>2, <3>3, HeadingFinite, FS_AddElement
    <3> QED BY <1>0, <1>5, <2>2, <3>3, <3>4 DEF WorkConserving, SubmitNotify
  <2> QED BY <2>1, <2>2
<1>6. CASE DeinitNotify
  <2>1. Asleep' = {}
    BY <1>6, PoolAssumption DEF DeinitNotify, Asleep, Threads
  <2> QED BY <2>1 DEF WorkConserving
<1>7. CASE ClientMove
  BY <1>7, NothingLost, PoolAssumption
     DEF IInv, TypeOK, ClientMove, PollCall, PollBlock, WaitCall, WaitCheck, Deinit, Join,
         Go, Asleep, Heading, Threads
<1>8. CASE TryPoll \/ PollReturn
  BY <1>8, NothingLost, PoolAssumption
     DEF IInv, TypeOK, TryPoll, PollReturn, TakeDone, Go, Asleep, Heading, Threads
<1>9. CASE UNCHANGED vars
  BY <1>9, NothingLost DEF vars, Asleep, Heading
<1> QED BY <1>1, <1>2, <1>3, <1>4, <1>5, <1>6, <1>7, <1>8, <1>9
        DEF Next, ClientStep, ClientCall, ClientMove, WorkerStep, Closed, Threads

(* No wakeup is lost although pool_submit notifies after unlocking: while a *)
(* worker sleeps there are never more queued jobs than workers heading for  *)
(* the queue, counting the notification that is still to come.              *)
THEOREM NoWakeupLost == Spec => []WorkConserving
<1>1. Init => WorkConserving
  <2> SUFFICES ASSUME Init PROVE WorkConserving
    OBVIOUS
  <2>1. Len(queue) = 0
    BY EmptySeq DEF Init
  <2> QED BY <2>1, HeadingFinite DEF WorkConserving
<1>2. IInv /\ IInv' /\ WorkConserving /\ [Next]_vars => WorkConserving'
  BY NextConserves
<1> QED BY <1>1, <1>2, PoolInvariant, PTL DEF Spec

-----------------------------------------------------------------------------
(* The refinement.  The status of a job says in which part of the pool it   *)
(* is; the parts are disjoint, so that a job is in the part of its status.  *)
LEMMA StatusIs ==
  \A j : Status(j) = IF j \in Elements(queue) THEN "queued"
                     ELSE IF j \in RunningJobs THEN "running"
                     ELSE IF j \in Elements(done) THEN "done" ELSE "idle"
BY DEF Status, RunningJobs, RunningThreads

LEMMA StatusNext ==
  \A j : Status(j)' = IF j \in Elements(queue') THEN "queued"
                      ELSE IF j \in RunningJobs' THEN "running"
                      ELSE IF j \in Elements(done') THEN "done" ELSE "idle"
BY DEF Status, RunningJobs, RunningThreads

(* A step that changes the status of one job is a Move of the Executor.     *)
LEMMA OneMove ==
  ASSUME NEW j \in Jobs, NEW from, NEW to, Status(j) = from, Status(j)' = to,
         \A k \in Jobs : k # j => Status(k)' = Status(k),
         ~shutdown, UNCHANGED shutdown
  PROVE  Abstract!Move(j, from, to)
<1>1. [k \in Jobs |-> Status(k)'] = [[k \in Jobs |-> Status(k)] EXCEPT ![j] = to]
  OBVIOUS
<1> QED BY <1>1 DEF Abstract!Move

LEMMA NoMove ==
  ASSUME \A k \in Jobs : Status(k)' = Status(k), UNCHANGED shutdown
  PROVE  UNCHANGED Abstract!vars
<1>1. [k \in Jobs |-> Status(k)'] = [k \in Jobs |-> Status(k)]
  OBVIOUS
<1> QED BY <1>1 DEF Abstract!vars

LEMMA ApartJobs ==
  ASSUME IInv
  PROVE  /\ Elements(queue) \cap RunningJobs = {}
         /\ Elements(done) \cap RunningJobs = {}
         /\ Elements(queue) \cap Elements(done) = {}
BY DEF IInv, Apart, RunningJobs

LEMMA StepRefines ==
  ASSUME IInv, NEW t \in Threads, Step(t)
  PROVE  [Abstract!Next]_Abstract!vars
<1>1. CASE StepTake(t) /\ queue # <<>>
  <2>0. PICK j \in Jobs : j = Top(queue)
    BY <1>1, PopFacts DEF IInv, TypeOK
  <2>1. /\ pc[t] = "step" /\ pc' = [pc EXCEPT ![t] = "run"]
        /\ job' = [job EXCEPT ![t] = j] /\ queue' = Pop(queue)
        /\ UNCHANGED <<done, shutdown>>
    BY <1>1, <2>0 DEF StepTake, Go
  <2>2. /\ j \in Elements(queue)
        /\ Elements(queue') = Elements(queue) \ {j}
    BY <1>1, <2>0, <2>1, PopFacts DEF IInv, TypeOK, Apart
  <2>3. RunningThreads' = RunningThreads \cup {t}
    BY <2>1 DEF IInv, TypeOK, RunningThreads
  <2>4. \A u \in Threads : job'[u] = IF u = t THEN j ELSE job[u]
    BY <2>1 DEF IInv, TypeOK
  <2>5. t \notin RunningThreads
    BY <2>1 DEF RunningThreads
  <2>6. RunningJobs' = RunningJobs \cup {j}
    BY <2>3, <2>4, <2>5 DEF RunningJobs, RunningThreads
  <2>7. ~shutdown
    BY <1>1, CountedFacts DEF IInv, Places
  <2>8. /\ Status(j) = "queued" /\ Status(j)' = "running"
        /\ \A k \in Jobs : k # j => Status(k)' = Status(k)
    BY <2>1, <2>2, <2>6, ApartJobs, StatusIs, StatusNext
  <2>9. Abstract!Start(j)
    BY <2>1, <2>2, <2>7, <2>8, OneMove DEF Abstract!Start
  <2> QED BY <2>2, <2>9 DEF Abstract!Next
<1>2. CASE StepTake(t) /\ queue = <<>>
  <2>1. pc' = [pc EXCEPT ![t] = AfterStep(t)] /\ pc[t] = "step"
        /\ UNCHANGED <<job, queue, done, shutdown>>
    BY <1>2 DEF StepTake, Go
  <2>2. RunningThreads' = RunningThreads
    BY <2>1 DEF IInv, TypeOK, RunningThreads, AfterStep
  <2> QED BY <2>1, <2>2, StatusIs, StatusNext, NoMove DEF RunningJobs
<1>3. CASE StepFinish(t)
  <2>1. /\ pc[t] = "run" /\ pc' = [pc EXCEPT ![t] = "notify"]
        /\ job' = [job EXCEPT ![t] = NoJob] /\ done' = Append(done, job[t])
        /\ UNCHANGED <<queue, shutdown>>
    BY <1>3 DEF StepFinish, Go
  <2>2. job[t] \in Jobs /\ t \in RunningThreads /\ job[t] \in RunningJobs
    BY <2>1 DEF IInv, TypeOK, Apart, RunningThreads, RunningJobs
  <2>3. Elements(done') = Elements(done) \cup {job[t]}
    BY <2>1, <2>2, PushFacts DEF IInv, TypeOK
  <2>4. RunningThreads' = RunningThreads \ {t}
    BY <2>1 DEF IInv, TypeOK, RunningThreads
  <2>5. \A u \in Threads : job'[u] = IF u = t THEN NoJob ELSE job[u]
    BY <2>1 DEF IInv, TypeOK
  <2>6. RunningJobs' = RunningJobs \ {job[t]}
    <3>1. ASSUME NEW x \in RunningJobs' PROVE x \in RunningJobs \ {job[t]}
      BY <2>2, <2>4, <2>5, <3>1 DEF IInv, Apart, RunningJobs, RunningThreads
    <3>2. ASSUME NEW x \in RunningJobs \ {job[t]} PROVE x \in RunningJobs'
      BY <2>4, <2>5, <3>2 DEF RunningJobs, RunningThreads
    <3> QED BY <3>1, <3>2
  <2>7. ~shutdown
    BY <2>2, CountedFacts DEF IInv, Places
  <2>8. PICK j \in Jobs : j = job[t]
    BY <2>2
  <2>9. /\ Status(j) = "running" /\ Status(j)' = "done"
        /\ \A k \in Jobs : k # j => Status(k)' = Status(k)
    BY <2>1, <2>2, <2>3, <2>6, <2>8, ApartJobs, StatusIs, StatusNext
  <2>10. Abstract!Finish(j)
    BY <2>1, <2>7, <2>9, OneMove DEF Abstract!Finish
  <2> QED BY <2>10 DEF Abstract!Next
<1>4. CASE StepNotify(t)
  <2>1. /\ \A u \in Threads : pc'[u] = "run" <=> pc[u] = "run"
        /\ UNCHANGED <<job, queue, done, shutdown>>
    BY <1>4 DEF IInv, TypeOK, StepNotify, AfterStep, Woken
  <2>2. RunningThreads' = RunningThreads
    BY <2>1 DEF RunningThreads
  <2> QED BY <2>1, <2>2, StatusIs, StatusNext, NoMove DEF RunningJobs
<1> QED BY <1>1, <1>2, <1>3, <1>4 DEF Step

LEMMA NextRefines ==
  ASSUME IInv, [Next]_vars
  PROVE  [Abstract!Next]_Abstract!vars
<1>1. ASSUME NEW t \in Threads, Step(t) PROVE [Abstract!Next]_Abstract!vars
  BY <1>1, StepRefines
<1>2. ASSUME \A u \in Threads : pc'[u] = "run" <=> pc[u] = "run",
             UNCHANGED <<job, queue, done, shutdown>>
      PROVE  [Abstract!Next]_Abstract!vars
  <2>1. RunningThreads' = RunningThreads
    BY <1>2 DEF RunningThreads
  <2> QED BY <1>2, <2>1, StatusIs, StatusNext, NoMove DEF RunningJobs
<1>3. ASSUME NEW w \in Workers, WorkerCheck(w) PROVE [Abstract!Next]_Abstract!vars
  BY <1>2, <1>3 DEF IInv, TypeOK, WorkerCheck, Go, AfterCheck
<1>4. ASSUME NEW t \in Threads, SpuriousWake(t) PROVE [Abstract!Next]_Abstract!vars
  BY <1>2, <1>4 DEF IInv, TypeOK, SpuriousWake, Go, Woken
<1>5. ASSUME NEW j \in Jobs, Submit(j) PROVE [Abstract!Next]_Abstract!vars
  <2>1. /\ pc[Client] = "idle" /\ pc' = [pc EXCEPT ![Client] = "submit_notify"]
        /\ queue' = Append(queue, j) /\ j \notin held
        /\ UNCHANGED <<job, done, shutdown>>
    BY <1>5 DEF Submit, Go
  <2>2. Elements(queue') = Elements(queue) \cup {j}
    BY <2>1, PushFacts DEF IInv, TypeOK
  <2>3. RunningThreads' = RunningThreads
    BY <2>1 DEF IInv, TypeOK, RunningThreads, Threads
  <2>4. j \notin Elements(queue) \cup RunningJobs \cup Elements(done)
    BY <2>1 DEF IInv, HeldExact
  <2>5. /\ Status(j) = "idle" /\ Status(j)' = "queued"
        /\ \A k \in Jobs : k # j => Status(k)' = Status(k)
    BY <2>1, <2>2, <2>3, <2>4, StatusIs, StatusNext DEF RunningJobs
  <2>6. ~shutdown
    BY <2>1 DEF IInv, Places
  <2>7. Abstract!Submit(j)
    BY <2>1, <2>5, <2>6, OneMove DEF Abstract!Submit
  <2> QED BY <2>7 DEF Abstract!Next
<1>6. CASE TryPoll \/ PollReturn
  <2>1. /\ pc[Client] \in {"idle", "poll"} /\ pc' = [pc EXCEPT ![Client] = "idle"]
        /\ done # <<>> /\ done' = Pop(done)
        /\ UNCHANGED <<job, queue, shutdown>>
    BY <1>6 DEF TryPoll, PollReturn, TakeDone, Go
  <2>2. PICK j \in Jobs : j \in Elements(done) /\ Elements(done') = Elements(done) \ {j}
    BY <2>1, PopFacts DEF IInv, TypeOK, Apart
  <2>3. RunningThreads' = RunningThreads
    BY <2>1 DEF IInv, TypeOK, RunningThreads, Threads
  <2>4. /\ Status(j) = "done" /\ Status(j)' = "idle"
        /\ \A k \in Jobs : k # j => Status(k)' = Status(k)
    BY <2>1, <2>2, <2>3, ApartJobs, StatusIs, StatusNext DEF RunningJobs
  <2>5. ~shutdown
    BY <2>1 DEF IInv, Places
  <2>6. Abstract!Return(j)
    BY <2>1, <2>2, <2>4, <2>5, OneMove DEF Abstract!Return
  <2> QED BY <2>2, <2>6 DEF Abstract!Next
<1>7. CASE Deinit
  <2>1. /\ ~shutdown /\ shutdown' = TRUE /\ queue = <<>> /\ RunningThreads = {}
        /\ pc' = [pc EXCEPT ![Client] = "deinit_notify"]
        /\ UNCHANGED <<job, queue, done>>
    BY <1>7, CountedFacts DEF IInv, Places, Deinit, Go
  <2>2. RunningThreads' = {}
    BY <2>1 DEF IInv, TypeOK, RunningThreads, Threads
  <2>3. Elements(queue) = {} /\ RunningJobs = {} /\ RunningJobs' = {}
    BY <2>1, <2>2 DEF Elements, RunningJobs
  <2>4. \A k \in Jobs : Status(k) \in {"idle", "done"} /\ Status(k)' = Status(k)
    BY <2>1, <2>3, StatusIs, StatusNext
  <2>5. Abstract!Close
    <3>1. [k \in Jobs |-> Status(k)'] = [k \in Jobs |-> Status(k)]
      BY <2>4
    <3> QED BY <2>1, <2>4, <3>1 DEF Abstract!Close
  <2> QED BY <2>5 DEF Abstract!Next
<1>8. CASE PollCall \/ PollBlock \/ WaitCall \/ WaitCheck \/ Join
  BY <1>2, <1>8 DEF IInv, TypeOK, PollCall, PollBlock, WaitCall, WaitCheck, Join, Go
<1>9. CASE SubmitNotify
  <2>1. \A u \in Threads : pc'[u] = "run" <=> pc[u] = "run"
    BY <1>9, PoolAssumption DEF IInv, TypeOK, SubmitNotify, WakeOne, Asleep, Go, Threads
  <2> QED BY <1>2, <1>9, <2>1 DEF SubmitNotify
<1>10. CASE DeinitNotify
  BY <1>2, <1>10 DEF IInv, TypeOK, DeinitNotify, Asleep
<1>11. CASE UNCHANGED vars
  BY <1>2, <1>11 DEF vars
<1> QED BY <1>1, <1>3, <1>4, <1>5, <1>6, <1>7, <1>8, <1>9, <1>10, <1>11
        DEF Next, ClientStep, ClientCall, WorkerStep, Closed, Threads

(* Every job submitted is run exactly once, by one thread, and handed back  *)
(* at most once, however the threads interleave, and the pool is torn down  *)
(* only when nothing is queued or running: the pool is an Executor.         *)
THEOREM PoolIsExecutor == Spec => IsSafeExecutor
<1>1. Init => Abstract!Init
  <2> SUFFICES ASSUME Init PROVE Abstract!Init
    OBVIOUS
  <2>1. RunningJobs = {} /\ Elements(queue) = {} /\ Elements(done) = {}
    BY DEF Init, RunningJobs, RunningThreads, Elements, Threads
  <2>2. \A j \in Jobs : Status(j) = "idle"
    BY <2>1, StatusIs
  <2> QED BY <2>2 DEF Abstract!Init, Init
<1>2. IInv /\ [Next]_vars => [Abstract!Next]_Abstract!vars
  BY NextRefines
<1> QED BY <1>1, <1>2, PoolInvariant, PTL DEF Spec, IsSafeExecutor, Abstract!Safe

=============================================================================
