---------------------------- MODULE MiningProofs ----------------------------
(***************************************************************************)
(* TLAPS proofs about the miner.  About the threads, MinerPipeline: type   *)
(* correctness, that no candidate is submitted twice under one generation, *)
(* where the shares come from, in which order they leave, that every one   *)
(* is accounted for, and that the two threads implement ShareDelivery.     *)
(* About the composition, Mining: the control thread's calls fit the       *)
(* client's state, the composition implements MinerPipeline, so that its   *)
(* theorems hold of the miner with its client, and the miner's counts are  *)
(* the pool's.                                                             *)
(***************************************************************************)
EXTENDS Mining, SequenceTheorems, FiniteSetTheorems, TLAPS

-----------------------------------------------------------------------------
(* Facts about the sequences the model uses as queue and as wire. *)

(* Taking the head off a queue removes that element's first occurrence.    *)
LEMMA TailElements ==
  ASSUME NEW S, NEW q \in Seq(S), q # <<>>
  PROVE  /\ Head(q) \in S
         /\ Tail(q) \in Seq(S)
         /\ ToSet(q) = {Head(q)} \cup ToSet(Tail(q))
<1>1. /\ Head(q) \in S
      /\ Tail(q) \in Seq(S)
      /\ Len(Tail(q)) = Len(q) - 1
      /\ \A i \in 1 .. Len(Tail(q)) : Tail(q)[i] = q[i + 1]
  BY HeadTailProperties
<1>2. Len(q) \in Nat /\ Len(q) > 0 /\ Head(q) = q[1]
  BY EmptySeq
<1>3. DOMAIN q = 1 .. Len(q) /\ DOMAIN Tail(q) = 1 .. Len(q) - 1
  BY <1>1, <1>2, LenProperties
<1>4. ASSUME NEW i \in DOMAIN q
      PROVE  q[i] \in {Head(q)} \cup ToSet(Tail(q))
  <2>1. CASE i = 1
    BY <2>1, <1>2
  <2>2. CASE i # 1
    <3>1. i - 1 \in DOMAIN Tail(q) /\ Tail(q)[i - 1] = q[i]
      BY <2>2, <1>1, <1>2, <1>3
    <3>2. QED
      BY <3>1 DEF ToSet
  <2>3. QED
    BY <2>1, <2>2
<1>5. ASSUME NEW i \in DOMAIN Tail(q)
      PROVE  Tail(q)[i] \in ToSet(q)
  BY <1>1, <1>2, <1>3 DEF ToSet
<1>6. Head(q) \in ToSet(q)
  BY <1>2, <1>3 DEF ToSet
<1>7. QED
  BY <1>1, <1>4, <1>5, <1>6 DEF ToSet

(* Appending adds exactly the appended element. *)
LEMMA AppendElements ==
  ASSUME NEW S, NEW q \in Seq(S), NEW e \in S
  PROVE  /\ Append(q, e) \in Seq(S)
         /\ ToSet(Append(q, e)) = ToSet(q) \cup {e}
<1>1. /\ Append(q, e) \in Seq(S)
      /\ Len(Append(q, e)) = Len(q) + 1
      /\ \A i \in 1 .. Len(q) : Append(q, e)[i] = q[i]
      /\ Append(q, e)[Len(q) + 1] = e
  BY AppendProperties
<1>2. /\ Len(q) \in Nat
      /\ DOMAIN q = 1 .. Len(q)
      /\ DOMAIN Append(q, e) = 1 .. Len(q) + 1
  BY <1>1, LenProperties
<1>3. QED
  BY <1>1, <1>2 DEF ToSet

(* A head that occurs once is not in the rest of the queue. *)
LEMMA TailUnique ==
  ASSUME NEW S, NEW q \in Seq(S), q # <<>>, NEW g, UniqueIn(q, g)
  PROVE  /\ UniqueIn(Tail(q), g)
         /\ Head(q).generation = g => Head(q) \notin ToSet(Tail(q))
<1>1. /\ Tail(q) \in Seq(S)
      /\ Len(Tail(q)) = Len(q) - 1
      /\ \A i \in 1 .. Len(Tail(q)) : Tail(q)[i] = q[i + 1]
  BY HeadTailProperties
<1>2. Len(q) \in Nat /\ Len(q) > 0 /\ Head(q) = q[1]
  BY EmptySeq
<1>3. DOMAIN q = 1 .. Len(q) /\ DOMAIN Tail(q) = 1 .. Len(q) - 1
  BY <1>1, <1>2, LenProperties
<1>4. UniqueIn(Tail(q), g)
  <2>1. SUFFICES ASSUME NEW i \in DOMAIN Tail(q), NEW j \in DOMAIN Tail(q),
                        Tail(q)[i].generation = g, Tail(q)[i] = Tail(q)[j]
                 PROVE  i = j
    BY DEF UniqueIn
  <2>2. /\ i + 1 \in DOMAIN q /\ j + 1 \in DOMAIN q
        /\ q[i + 1].generation = g /\ q[i + 1] = q[j + 1]
    BY <2>1, <1>1, <1>2, <1>3
  <2>3. i + 1 = j + 1
    BY <2>2 DEF UniqueIn
  <2>4. QED
    BY <2>3, <1>3
<1>5. ASSUME Head(q).generation = g, NEW i \in DOMAIN Tail(q), Tail(q)[i] = Head(q)
      PROVE  FALSE
  <2>1. /\ 1 \in DOMAIN q /\ i + 1 \in DOMAIN q
        /\ q[1].generation = g /\ q[1] = q[i + 1]
    BY <1>5, <1>1, <1>2, <1>3
  <2>2. 1 = i + 1
    BY <2>1 DEF UniqueIn
  <2>3. QED
    BY <2>2, <1>2, <1>3
<1>6. QED
  BY <1>4, <1>5 DEF ToSet

(* Appending an element that is new, or not of generation g, keeps the     *)
(* elements of generation g unique.                                        *)
LEMMA AppendUnique ==
  ASSUME NEW S, NEW q \in Seq(S), NEW e \in S, NEW g, UniqueIn(q, g),
         e.generation = g => e \notin ToSet(q)
  PROVE  UniqueIn(Append(q, e), g)
<1>1. /\ Len(q) \in Nat
      /\ Len(Append(q, e)) = Len(q) + 1
      /\ \A i \in 1 .. Len(q) : Append(q, e)[i] = q[i]
      /\ Append(q, e)[Len(q) + 1] = e
      /\ DOMAIN q = 1 .. Len(q)
      /\ DOMAIN Append(q, e) = 1 .. Len(q) + 1
  BY AppendProperties, LenProperties
<1>2. SUFFICES ASSUME NEW i \in 1 .. Len(q) + 1, NEW j \in 1 .. Len(q) + 1,
                      Append(q, e)[i].generation = g,
                      Append(q, e)[i] = Append(q, e)[j]
               PROVE  i = j
  BY <1>1 DEF UniqueIn
<1>3. CASE i \in 1 .. Len(q) /\ j \in 1 .. Len(q)
  BY <1>1, <1>2, <1>3 DEF UniqueIn
<1>4. CASE i = Len(q) + 1 /\ j \in 1 .. Len(q)
  BY <1>1, <1>2, <1>4 DEF ToSet
<1>5. CASE i \in 1 .. Len(q) /\ j = Len(q) + 1
  BY <1>1, <1>2, <1>5 DEF ToSet
<1>6. QED
  BY <1>1, <1>2, <1>3, <1>4, <1>5

(* Appending a new element keeps a sequence free of repetitions. *)
LEMMA AppendInjectiveSeq ==
  ASSUME NEW S, NEW q \in Seq(S), NEW e \in S, IsInjective(q), e \notin ToSet(q)
  PROVE  IsInjective(Append(q, e))
<1>1. /\ Len(q) \in Nat
      /\ Len(Append(q, e)) = Len(q) + 1
      /\ \A i \in 1 .. Len(q) : Append(q, e)[i] = q[i]
      /\ Append(q, e)[Len(q) + 1] = e
      /\ DOMAIN q = 1 .. Len(q)
      /\ DOMAIN Append(q, e) = 1 .. Len(q) + 1
  BY AppendProperties, LenProperties
<1>2. QED
  BY <1>1 DEF IsInjective, ToSet

-----------------------------------------------------------------------------
(* Type correctness.  FlowInv says what each thread holds at each step and *)
(* is needed to type what the next step queues, stores or scans.           *)

USE DEF Extranonce2s, Nonces, Generations, ControlPCs, WorkerPCs

(* A chunk ends inside the range of nonces. *)
LEMMA ChunkEndRange ==
  ASSUME NEW n \in Nonces
  PROVE  ChunkEnd(n) \in n .. MaxNonce
BY BoundsAssumption DEF ChunkEnd

(* The default-constructed values are typed, and empty. *)
LEMMA Defaults ==
  /\ NoWork \in Work
  /\ NoWork.generation = 0
  /\ NoShare.generation = 0
BY DifficultiesAssumption, BoundsAssumption DEF Work, NoWork, NoShare

(* The first state is typed ... *)
LEMMA TypeInit == Init => TypeInv
<1>1. <<>> \in Seq(Share)
  BY EmptySeq
<1>2. Init => TypeOK
  <2>1. SUFFICES ASSUME Init PROVE TypeOK
    OBVIOUS
  <2>2. /\ stop_control \in BOOLEAN /\ stop_worker \in BOOLEAN
        /\ subscribed \in BOOLEAN /\ did_work \in BOOLEAN
    BY <2>1 DEF Init
  <2>3. QED
    BY <1>1, <2>1, <2>2, Defaults, DifficultiesAssumption, BoundsAssumption
       DEF Init, TypeOK
<1>3. Init => FlowInv
  BY Defaults DEF Init, FlowInv, IsPublication
<1>4. QED
  BY <1>2, <1>3 DEF TypeInv

(* ... and stays so through the steps of the control thread, *)
LEMMA TypeControl ==
  ASSUME TypeInv, Control
  PROVE  TypeInv'
<1> USE BoundsAssumption DEF TypeInv, TypeOK, controlOnly, mainVars, counterVars,
        workerVars, clientVars, sharedVars, historyVars, ControlExits,
        RecordException
<1>1. CASE StartupRead
  <2>1. /\ subscribed' \in BOOLEAN
        /\ current_job' \in Jobs \cup {NoJob}
        /\ difficulty' \in Difficulties
    BY <1>1 DEF StartupRead, Receive, ReceiveNotify, ReceiveDifficulty,
                ReceiveSubscription
  <2>2. cpc' \in {"startup", "publish"} /\ (cpc' = "publish" => current_job' # NoJob)
    BY <1>1 DEF StartupRead
  <2>3. TypeOK'
    BY <1>1, <2>1, <2>2 DEF StartupRead
  <2>4. FlowInv'
    BY <1>1, <2>1, <2>2 DEF StartupRead, FlowInv
  <2>5. QED
    BY <2>3, <2>4
<1>2. CASE ReadFails
  BY <1>2 DEF ReadFails, FlowInv
<1>3. CASE PublishFails
  BY <1>3 DEF PublishFails, FlowInv
<1>4. CASE PublishGeneration
  BY <1>4 DEF PublishGeneration, FlowInv
<1>5. CASE PublishStore
  BY <1>5 DEF PublishStore, FlowInv, IsPublication, Work
<1>6. CASE ControlLoop
  <2>1. TypeOK'
    BY <1>6 DEF ControlLoop, FlowInv
  <2>2. FlowInv'
    BY <1>6 DEF ControlLoop, FlowInv
  <2>3. QED
    BY <2>1, <2>2
<1>7. CASE DrainEmpty
  BY <1>7 DEF DrainEmpty, FlowInv
<1>8. CASE DrainStale
  <2>1. Head(share_queue) \in Share /\ Tail(share_queue) \in Seq(Share)
    BY <1>8, TailElements DEF DrainStale
  <2>2. QED
    BY <1>8, <2>1 DEF DrainStale, FlowInv
<1>9. CASE DrainSubmit
  <2>1. Head(share_queue) \in Share /\ Tail(share_queue) \in Seq(Share)
    BY <1>9, TailElements DEF DrainSubmit
  <2>2. Append(submitted, Head(share_queue)) \in Seq(Share)
    BY <2>1, AppendElements
  <2>3. QED
    BY <1>9, <2>1, <2>2 DEF DrainSubmit, FlowInv
<1>10. CASE DrainSubmitFails
  <2>1. Head(share_queue) \in Share /\ Tail(share_queue) \in Seq(Share)
    BY <1>10, TailElements DEF DrainSubmitFails
  <2>2. QED
    BY <1>10, <2>1 DEF DrainSubmitFails, FlowInv
<1>11. CASE AwaitRead
  <2>1. TypeOK'
    BY <1>11, ZenonT(60) DEF AwaitRead, FlowInv, Receive, ReceiveNotify, ReceiveDifficulty,
           ReceiveSubscription
  <2>2. FlowInv'
    BY <1>11 DEF AwaitRead, FlowInv, Receive, ReceiveNotify, ReceiveDifficulty,
           ReceiveSubscription
  <2>3. QED
    BY <2>1, <2>2
<1>12. CASE AwaitAnswer
  BY <1>12 DEF AwaitAnswer, FlowInv
<1>13. CASE AwaitFails
  BY <1>13 DEF AwaitFails, FlowInv
<1>14. CASE PollNothing
  BY <1>14 DEF PollNothing, FlowInv
<1>15. CASE PollNewWork
  <2>1. /\ subscribed' \in BOOLEAN
        /\ current_job' \in Jobs \cup {NoJob}
        /\ difficulty' \in Difficulties
        /\ current_job \in Jobs => current_job' \in Jobs
    BY <1>15 DEF PollNewWork, ReceiveNotify, ReceiveDifficulty
  <2>2. TypeOK'
    BY <1>15, <2>1 DEF PollNewWork
  <2>3. FlowInv'
    BY <1>15, <2>1 DEF PollNewWork, FlowInv
  <2>4. QED
    BY <2>2, <2>3
<1>16. CASE PollOther
  BY <1>16 DEF PollOther, FlowInv
<1>17. CASE IdleTimeout
  BY <1>17 DEF IdleTimeout, FlowInv
<1>18. CASE IdlePop
  <2>1. Head(share_queue) \in Share /\ Tail(share_queue) \in Seq(Share)
    BY <1>18, TailElements DEF IdlePop
  <2>2. QED
    BY <1>18, <2>1 DEF IdlePop, FlowInv
<1>19. CASE IdleRequeue
  <2>1. queued \in Share
    BY <1>19 DEF IdleRequeue, FlowInv
  <2>2. Append(share_queue, queued) \in Seq(Share)
    BY <2>1, AppendElements
  <2>3. share_queue' \in Seq(Share) /\ lost' \in Nat
    BY <1>19, <2>2 DEF IdleRequeue
  <2>4. TypeOK'
    BY <1>19, <2>3 DEF IdleRequeue
  <2>5. FlowInv'
    BY <1>19 DEF IdleRequeue, FlowInv
  <2>6. QED
    BY <2>4, <2>5
<1>20. QED
  BY <1>1, <1>2, <1>3, <1>4, <1>5, <1>6, <1>7, <1>8, <1>9, <1>10, <1>11, <1>12, <1>13, <1>14, <1>15, <1>16, <1>17, <1>18, <1>19 DEF Control

(* of the worker thread *)
LEMMA TypeWorker ==
  ASSUME TypeInv, Worker
  PROVE  TypeInv'
<1> USE BoundsAssumption DEF TypeInv, TypeOK, workerOnly, mainVars, counterVars,
        controlVars, clientVars, sharedVars, historyVars, RecordException
<1>0. ChunkEnd(work_nonce) \in work_nonce .. MaxNonce
  BY ChunkEndRange
<1>1. CASE WorkerWait
  BY <1>1, <1>0 DEF WorkerWait, FlowInv
<1>2. CASE WorkerNothingPublished
  BY <1>2, <1>0 DEF WorkerNothingPublished, FlowInv
<1>3. CASE WorkerAdopt
  BY <1>3, <1>0 DEF WorkerAdopt, FlowInv
<1>4. CASE WorkerChunk
  BY <1>4, <1>0 DEF WorkerChunk, FlowInv
<1>5. CASE WorkerScan
  BY <1>5, <1>0 DEF WorkerScan, FlowInv
<1>6. CASE WorkerStale
  BY <1>6, <1>0 DEF WorkerStale, FlowInv
<1>7. CASE WorkerMiss
  BY <1>7, <1>0 DEF WorkerMiss, FlowInv
<1>8. CASE WorkerFind
  BY <1>8, <1>0 DEF WorkerFind, FlowInv
<1>9. CASE WorkerPush
  <2>1. Candidate \in Share
    BY <1>9, <1>0 DEF WorkerPush, Candidate, FlowInv, IsPublication, Work, Share
  <2>2. Append(share_queue, Candidate) \in Seq(Share)
    BY <2>1, AppendElements
  <2>3. QED
    BY <1>9, <1>0, <2>2 DEF WorkerPush, FlowInv
<1>10. CASE WorkerNextChunk
  BY <1>10, <1>0 DEF WorkerNextChunk, FlowInv
<1>11. CASE WorkerExhausted
  BY <1>11, <1>0 DEF WorkerExhausted, FlowInv
<1>12. QED
  BY <1>1, <1>2, <1>3, <1>4, <1>5, <1>6, <1>7, <1>8, <1>9, <1>10, <1>11 DEF Worker

(* and of the main thread. *)
LEMMA TypeMain ==
  ASSUME TypeInv, Interrupt \/ FatalError \/ StopWorker \/ UNCHANGED vars
  PROVE  TypeInv'
<1> USE DEF TypeInv, mainOnly, mainVars, counterVars, controlVars, clientVars,
        workerVars, sharedVars, historyVars
<1>1. CASE Interrupt \/ FatalError \/ StopWorker
  <2>1. stop_control' \in BOOLEAN /\ stop_worker' \in BOOLEAN
    BY <1>1 DEF Interrupt, FatalError, StopWorker, TypeOK
  <2>2. UNCHANGED mainOnly
    BY <1>1 DEF Interrupt, FatalError, StopWorker
  <2>3. TypeOK'
    BY <2>1, <2>2 DEF TypeOK
  <2>4. FlowInv'
    BY <2>2 DEF FlowInv
  <2>5. QED
    BY <2>3, <2>4
<1>2. CASE UNCHANGED vars
  <2>1. TypeOK'
    BY <1>2 DEF vars, TypeOK
  <2>2. FlowInv'
    BY <1>2 DEF vars, FlowInv
  <2>3. QED
    BY <2>1, <2>2
<1>3. QED
  BY <1>1, <1>2

(* Every variable keeps its type, and each thread holds at each of its     *)
(* steps what that step needs: a share to answer for, adopted work to      *)
(* scan, a nonce inside its chunk (main.cpp 850-944).                      *)
THEOREM TypeCorrect == Spec => []TypeInv
<1>1. TypeInv /\ [Next]_vars => TypeInv'
  BY TypeControl, TypeWorker, TypeMain DEF Next, Terminated
<1>2. QED
  BY TypeInit, <1>1, PTL DEF Spec

-----------------------------------------------------------------------------
(* No candidate is submitted twice.  Shares of the current generation can  *)
(* come only from the worker's present pass over the adopted work, lie     *)
(* behind its position and sit in one place; superseded shares are never   *)
(* sent, so repetitions among them do not matter.                          *)

(* Wherever a share is, it is a share. *)
LEMMA PipelineTyped ==
  ASSUME TypeInv
  PROVE  /\ Queued \subseteq Share
         /\ Held \subseteq Share
         /\ Submitted \subseteq Share
         /\ \A s \in Share : /\ s.generation \in Nat
                             /\ s.extranonce2 \in Nat
                             /\ s.nonce \in Nat
<1>1. Queued \subseteq Share /\ Submitted \subseteq Share
  BY ElementOfSeq, LenProperties DEF TypeInv, TypeOK, Queued, Submitted, ToSet
<1>2. Held \subseteq Share
  BY DEF TypeInv, FlowInv, Held
<1>3. QED
  BY <1>1, <1>2, BoundsAssumption DEF Share

(* At first there are no shares. *)
LEMMA UniqueInit == Init => UniquenessInv
<1>1. SUFFICES ASSUME Init PROVE UniquenessInv
  OBVIOUS
<1>2. Queued = {} /\ Held = {} /\ Submitted = {}
  BY <1>1 DEF Init, Queued, Held, Submitted, ToSet
<1>3. GenerationsOrdered /\ ReadoptsNewer /\ SharesBehindWorker
  BY <1>1, <1>2, Defaults
     DEF Init, GenerationsOrdered, ReadoptsNewer, SharesBehindWorker, Pipeline
<1>4. CurrentSharesUnique /\ UniqueSubmissions
  BY <1>1, <1>2
     DEF Init, CurrentSharesUnique, UniqueIn, UniqueSubmissions, IsInjective
<1>5. QED
  BY <1>3, <1>4 DEF UniquenessInv

(* A step that moves neither shares, work nor the worker. *)
LEMMA QuietStep ==
  ASSUME UniquenessInv,
         UNCHANGED <<work_generation, published, share_queue, submitted,
                     workerVars>>,
         Held' = Held,
         stop_worker => stop_worker',
         (cpc' = "store") <=> (cpc = "store")
  PROVE  UniquenessInv'
<1> USE DEF UniquenessInv, workerVars
<1>1. Queued' = Queued /\ Submitted' = Submitted /\ Pipeline' = Pipeline
  BY DEF Queued, Submitted, Pipeline
<1>2. GenerationsOrdered'
  BY <1>1 DEF GenerationsOrdered
<1>3. ReadoptsNewer'
  BY DEF ReadoptsNewer
<1>4. SharesBehindWorker'
  BY <1>1 DEF SharesBehindWorker, IsCurrent, BehindWorker, Position
<1>5. CurrentSharesUnique'
  BY <1>1 DEF CurrentSharesUnique, UniqueIn, IsCurrent
<1>6. UniqueSubmissions'
  BY DEF UniqueSubmissions, IsInjective
<1>7. QED
  BY <1>2, <1>3, <1>4, <1>5, <1>6

(* A share is popped and goes nowhere. *)
LEMMA DropStep ==
  ASSUME TypeInv, UniquenessInv, cpc = "drain", share_queue # <<>>,
         share_queue' = Tail(share_queue),
         cpc' \notin {"hold", "store"},
         UNCHANGED <<work_generation, published, submitted, stop_worker,
                     workerVars>>
  PROVE  UniquenessInv'
<1> USE DEF UniquenessInv, workerVars
<1>1. Queued' \subseteq Queued
  BY TailElements DEF Queued, TypeInv, TypeOK
<1>2. Held' = {} /\ Held = {} /\ Submitted' = Submitted /\ Pipeline' \subseteq Pipeline
  BY <1>1 DEF Held, Submitted, Pipeline
<1>3. GenerationsOrdered'
  BY <1>2 DEF GenerationsOrdered
<1>4. ReadoptsNewer'
  BY DEF ReadoptsNewer
<1>5. SharesBehindWorker'
  BY <1>2 DEF SharesBehindWorker, IsCurrent, BehindWorker, Position
<1>6. UniqueIn(share_queue', work_generation')
  BY TailUnique DEF CurrentSharesUnique, TypeInv, TypeOK
<1>7. CurrentSharesUnique'
  BY <1>1, <1>2, <1>6 DEF CurrentSharesUnique, IsCurrent
<1>8. UniqueSubmissions'
  BY DEF UniqueSubmissions, IsInjective
<1>9. QED
  BY <1>3, <1>4, <1>5, <1>7, <1>8

(* A new generation makes every share an older one. *)
LEMMA UniquePublishGeneration ==
  ASSUME TypeInv, UniquenessInv, PublishGeneration
  PROVE  UniquenessInv'
<1> USE DEF UniquenessInv, PublishGeneration, workerVars, historyVars, mainVars
<1>1. Queued' = Queued /\ Held' = Held /\ Submitted' = Submitted /\ Pipeline' = Pipeline
  BY DEF Queued, Held, Submitted, Pipeline
<1>2. /\ work_generation \in Nat /\ published.generation \in Nat
      /\ adopted.generation \in Nat
      /\ work_generation' = work_generation + 1
      /\ adopted.generation <= work_generation
      /\ published.generation = work_generation
  BY BoundsAssumption DEF TypeInv, TypeOK, Work, GenerationsOrdered
<1>3. \A s \in Pipeline : s.generation < work_generation'
  BY <1>2, PipelineTyped DEF Pipeline, GenerationsOrdered
<1>4. GenerationsOrdered'
  BY <1>1, <1>2 DEF GenerationsOrdered
<1>5. ReadoptsNewer'
  BY <1>2 DEF ReadoptsNewer
<1>6. \A s \in Pipeline : ~IsCurrent(s)'
  BY <1>2, <1>3, PipelineTyped DEF IsCurrent, Pipeline
<1>7. SharesBehindWorker'
  BY <1>1, <1>6 DEF SharesBehindWorker
<1>8. UniqueIn(share_queue', work_generation')
  BY <1>6 DEF UniqueIn, IsCurrent, Pipeline, Queued, ToSet
<1>9. CurrentSharesUnique'
  BY <1>1, <1>6, <1>8 DEF CurrentSharesUnique, Pipeline
<1>10. UniqueSubmissions'
  BY DEF UniqueSubmissions, IsInjective
<1>11. QED
  BY <1>4, <1>5, <1>7, <1>9, <1>10

(* Storing the work moves no share. *)
LEMMA UniquePublishStore ==
  ASSUME TypeInv, UniquenessInv, PublishStore
  PROVE  UniquenessInv'
<1> USE DEF UniquenessInv, PublishStore, workerVars, historyVars, mainVars
<1>1. Queued' = Queued /\ Held' = Held /\ Submitted' = Submitted /\ Pipeline' = Pipeline
  BY DEF Queued, Held, Submitted, Pipeline
<1>2. /\ published'.generation = work_generation
      /\ adopted.generation <= work_generation
  BY BoundsAssumption DEF TypeInv, TypeOK, Work, GenerationsOrdered
<1>3. GenerationsOrdered'
  BY <1>1, <1>2 DEF GenerationsOrdered
<1>4. ReadoptsNewer' /\ UniqueSubmissions'
  BY DEF ReadoptsNewer, UniqueSubmissions, IsInjective
<1>5. SharesBehindWorker' /\ CurrentSharesUnique'
  BY <1>1 DEF SharesBehindWorker, IsCurrent, BehindWorker, Position,
              CurrentSharesUnique, UniqueIn
<1>6. QED
  BY <1>3, <1>4, <1>5

(* A current share leaves the queue for good when it is submitted. *)
LEMMA UniqueDrainSubmit ==
  ASSUME TypeInv, UniquenessInv, DrainSubmit
  PROVE  UniquenessInv'
<1> DEFINE h == Head(share_queue)
<1> USE DEF UniquenessInv, DrainSubmit, workerVars, mainVars
<1>1. /\ h \in Share
      /\ Queued = {h} \cup Queued'
      /\ Submitted' = Submitted \cup {h}
      /\ Held = {} /\ Held' = {}
  BY TailElements, AppendElements DEF Queued, Submitted, Held, TypeInv, TypeOK
<1>2. Pipeline' = Pipeline
  BY <1>1 DEF Pipeline
<1>3. h \notin Submitted
  BY <1>1 DEF CurrentSharesUnique, IsCurrent
<1>4. UniqueIn(share_queue', work_generation') /\ h \notin Queued'
  BY TailUnique DEF CurrentSharesUnique, TypeInv, TypeOK, Queued
<1>5. GenerationsOrdered'
  BY <1>2 DEF GenerationsOrdered
<1>6. ReadoptsNewer'
  BY DEF ReadoptsNewer
<1>7. SharesBehindWorker'
  BY <1>2 DEF SharesBehindWorker, IsCurrent, BehindWorker, Position
<1>8. CurrentSharesUnique'
  BY <1>1, <1>4 DEF CurrentSharesUnique, IsCurrent
<1>9. UniqueSubmissions'
  BY <1>1, <1>3, AppendInjectiveSeq
     DEF UniqueSubmissions, Submitted, TypeInv, TypeOK
<1>10. QED
  BY <1>5, <1>6, <1>7, <1>8, <1>9

(* Popping moves a share from the queue to the hand ... *)
LEMMA UniqueIdlePop ==
  ASSUME TypeInv, UniquenessInv, IdlePop
  PROVE  UniquenessInv'
<1> DEFINE h == Head(share_queue)
<1> USE DEF UniquenessInv, IdlePop, workerVars, mainVars, historyVars
<1>1. /\ h \in Share
      /\ Queued = {h} \cup Queued'
      /\ Submitted' = Submitted
      /\ Held = {} /\ Held' = {h}
  BY TailElements DEF Queued, Submitted, Held, TypeInv, TypeOK
<1>2. Pipeline' = Pipeline
  BY <1>1 DEF Pipeline
<1>3. /\ UniqueIn(share_queue', work_generation')
      /\ h.generation = work_generation => h \notin Queued'
  BY TailUnique DEF CurrentSharesUnique, TypeInv, TypeOK, Queued
<1>4. GenerationsOrdered'
  BY <1>2 DEF GenerationsOrdered
<1>5. ReadoptsNewer' /\ UniqueSubmissions'
  BY DEF ReadoptsNewer, UniqueSubmissions, IsInjective
<1>6. SharesBehindWorker'
  BY <1>2 DEF SharesBehindWorker, IsCurrent, BehindWorker, Position
<1>7. CurrentSharesUnique'
  BY <1>1, <1>3 DEF CurrentSharesUnique, IsCurrent
<1>8. QED
  BY <1>4, <1>5, <1>6, <1>7

(* ... and requeuing moves it back. *)
LEMMA UniqueIdleRequeue ==
  ASSUME TypeInv, UniquenessInv, IdleRequeue
  PROVE  UniquenessInv'
<1> USE DEF UniquenessInv, workerVars, mainVars
<1>1. /\ queued \in Share /\ Held = {queued} /\ Held' = {}
      /\ Submitted' = Submitted
      /\ UNCHANGED <<work_generation, published, workerVars, stop_worker, submitted>>
      /\ cpc' = "loop" /\ cpc = "hold"
  BY DEF TypeInv, FlowInv, Held, Submitted, IdleRequeue
<1>2. CASE stop_control
  <2>1. share_queue' = share_queue
    BY <1>2 DEF IdleRequeue
  <2>2. Queued' = Queued /\ Pipeline' \subseteq Pipeline
    BY <1>1, <2>1 DEF Queued, Pipeline
  <2>3. GenerationsOrdered' /\ ReadoptsNewer' /\ SharesBehindWorker'
    BY <1>1, <2>2 DEF GenerationsOrdered, ReadoptsNewer, SharesBehindWorker,
                      IsCurrent, BehindWorker, Position
  <2>4. CurrentSharesUnique' /\ UniqueSubmissions'
    BY <1>1, <2>1, <2>2 DEF CurrentSharesUnique, UniqueIn, IsCurrent,
                            UniqueSubmissions, IsInjective
  <2>5. QED
    BY <2>3, <2>4
<1>3. CASE ~stop_control
  <2>1. share_queue' = Append(share_queue, queued)
    BY <1>3 DEF IdleRequeue
  <2>2. Queued' = Queued \cup {queued}
    BY <1>1, <2>1, AppendElements DEF Queued, TypeInv, TypeOK
  <2>3. Pipeline' = Pipeline
    BY <1>1, <2>2 DEF Pipeline
  <2>4. GenerationsOrdered' /\ ReadoptsNewer' /\ SharesBehindWorker'
    BY <1>1, <2>3 DEF GenerationsOrdered, ReadoptsNewer, SharesBehindWorker,
                      IsCurrent, BehindWorker, Position
  <2>5. queued.generation = work_generation => queued \notin ToSet(share_queue)
    BY <1>1 DEF CurrentSharesUnique, IsCurrent, Queued
  <2>6. UniqueIn(share_queue', work_generation')
    BY <1>1, <2>1, <2>5, AppendUnique DEF CurrentSharesUnique, TypeInv, TypeOK
  <2>7. CurrentSharesUnique' /\ UniqueSubmissions'
    BY <1>1, <2>2, <2>6 DEF CurrentSharesUnique, IsCurrent, UniqueSubmissions,
                            IsInjective
  <2>8. QED
    BY <2>4, <2>7
<1>4. QED
  BY <1>2, <1>3 DEF TypeInv, TypeOK

(* The steps of the control thread. *)
LEMMA UniqueControl ==
  ASSUME TypeInv, UniquenessInv, Control
  PROVE  UniquenessInv'
<1> USE DEF controlOnly, mainVars, workerVars, historyVars, sharedVars, ControlExits
<1>1. CASE StartupRead
  BY <1>1, QuietStep DEF StartupRead, Held
<1>2. CASE ReadFails
  BY <1>2, QuietStep DEF ReadFails, Held
<1>3. CASE PublishFails
  BY <1>3, QuietStep DEF PublishFails, Held
<1>4. CASE ControlLoop
  BY <1>4, QuietStep DEF ControlLoop, Held
<1>5. CASE DrainEmpty
  BY <1>5, QuietStep DEF DrainEmpty, Held
<1>6. CASE AwaitRead
  BY <1>6, QuietStep DEF AwaitRead, Held
<1>7. CASE AwaitAnswer
  BY <1>7, QuietStep DEF AwaitAnswer, Held
<1>8. CASE AwaitFails
  BY <1>8, QuietStep DEF AwaitFails, Held
<1>9. CASE PollNothing
  BY <1>9, QuietStep DEF PollNothing, Held
<1>10. CASE PollNewWork
  BY <1>10, QuietStep DEF PollNewWork, Held
<1>11. CASE PollOther
  BY <1>11, QuietStep DEF PollOther, Held
<1>12. CASE IdleTimeout
  BY <1>12, QuietStep DEF IdleTimeout, Held
<1>13. CASE DrainStale
  BY <1>13, DropStep DEF DrainStale
<1>14. CASE DrainSubmitFails
  BY <1>14, DropStep DEF DrainSubmitFails
<1>15. QED
  BY <1>1, <1>2, <1>3, <1>4, <1>5, <1>6, <1>7, <1>8, <1>9, <1>10, <1>11, <1>12, <1>13, <1>14,
     UniquePublishGeneration, UniquePublishStore, UniqueDrainSubmit,
     UniqueIdlePop, UniqueIdleRequeue DEF Control

(* The worker moves within its chunk, or back to waiting. *)
LEMMA WorkerMoves ==
  ASSUME UniquenessInv,
         UNCHANGED <<work_generation, published, share_queue, submitted, cpc,
                     queued>>
  PROVE  /\ Queued' = Queued /\ Held' = Held /\ Submitted' = Submitted
         /\ Pipeline' = Pipeline
         /\ adopted.generation <= adopted'.generation
            /\ adopted'.generation <= published.generation
            /\ TypeInv /\ adopted'.generation \in Nat
            => GenerationsOrdered'
         /\ CurrentSharesUnique'
         /\ UniqueSubmissions'
<1> USE DEF UniquenessInv
<1>1. Queued' = Queued /\ Held' = Held /\ Submitted' = Submitted
  BY DEF Queued, Held, Submitted
<1>2. Pipeline' = Pipeline
  BY <1>1 DEF Pipeline
<1>3. ASSUME adopted.generation <= adopted'.generation,
             adopted'.generation <= published.generation,
             TypeInv, adopted'.generation \in Nat
      PROVE  GenerationsOrdered'
  <2>1. adopted.generation \in Nat /\ \A s \in Pipeline : s.generation \in Nat
    BY <1>3, PipelineTyped, BoundsAssumption DEF TypeInv, TypeOK, Work, Pipeline
  <2>2. \A s \in Pipeline : s.generation <= adopted'.generation
    BY <1>3, <2>1 DEF GenerationsOrdered
  <2>3. QED
    BY <1>2, <1>3, <2>2 DEF GenerationsOrdered
<1>4. CurrentSharesUnique' /\ UniqueSubmissions'
  BY <1>1 DEF CurrentSharesUnique, UniqueIn, IsCurrent, UniqueSubmissions,
              IsInjective
<1>5. QED
  BY <1>1, <1>2, <1>3, <1>4

(* A newly adopted current generation has no shares in the pipeline yet.   *)
LEMMA UniqueAdopt ==
  ASSUME TypeInv, UniquenessInv, WorkerAdopt
  PROVE  UniquenessInv'
<1> USE DEF UniquenessInv, WorkerAdopt, workerOnly, sharedVars, mainVars,
        controlVars, historyVars
<1>1. /\ adopted.generation \in Nat /\ adopted'.generation \in Nat
      /\ adopted.generation <= adopted'.generation
      /\ adopted' = published
  BY BoundsAssumption DEF TypeInv, TypeOK, Work, GenerationsOrdered
<1>2. /\ Pipeline' = Pipeline /\ CurrentSharesUnique' /\ UniqueSubmissions'
      /\ GenerationsOrdered'
  BY <1>1, WorkerMoves
<1>3. ReadoptsNewer'
  BY DEF ReadoptsNewer
<1>4. ASSUME adopted'.generation = work_generation'
      PROVE  adopted.generation < work_generation
  <2>1. CASE adopted = NoWork
    BY <2>1, <1>1, <1>4, Defaults DEF TypeInv, FlowInv, IsPublication
  <2>2. CASE adopted # NoWork
    BY <2>2 DEF ReadoptsNewer
  <2>3. QED
    BY <2>1, <2>2
<1>5. ASSUME adopted'.generation = work_generation', NEW s \in Pipeline'
      PROVE  ~IsCurrent(s)'
  <2>1. s \in Pipeline /\ s.generation \in Nat /\ work_generation \in Nat
    BY <1>2, <1>5, PipelineTyped, BoundsAssumption DEF TypeInv, TypeOK, Pipeline
  <2>2. s.generation < work_generation
    BY <1>1, <1>4, <1>5, <2>1 DEF GenerationsOrdered
  <2>3. QED
    BY <2>1, <2>2 DEF IsCurrent
<1>6. SharesBehindWorker'
  BY <1>5 DEF SharesBehindWorker
<1>7. QED
  BY <1>2, <1>3, <1>6

(* The candidate lies at the worker's position, so it is new if current.   *)
LEMMA CandidateIsNew ==
  ASSUME TypeInv, UniquenessInv, wpc = "found", IsCurrent(Candidate)
  PROVE  Candidate \notin Pipeline
<1>1. /\ adopted.generation = work_generation
      /\ Candidate.extranonce2 = extranonce2 /\ Candidate.nonce = scan_nonce
      /\ scan_nonce \in Nat /\ extranonce2 \in Nat
  BY BoundsAssumption DEF Candidate, IsCurrent, TypeInv, TypeOK
<1>2. Candidate \in Pipeline => BehindWorker(Candidate)
  BY <1>1 DEF UniquenessInv, SharesBehindWorker
<1>3. QED
  BY <1>1, <1>2 DEF BehindWorker, Position

(* Queueing the candidate keeps current shares in one place. *)
LEMMA UniquePush ==
  ASSUME TypeInv, UniquenessInv, WorkerPush
  PROVE  UniquenessInv'
<1> USE DEF UniquenessInv, WorkerPush, sharedVars, mainVars, controlVars, historyVars
<1>0. /\ ChunkEnd(work_nonce) \in work_nonce .. MaxNonce
      /\ work_nonce \in Nat /\ extranonce2 \in Nat
      /\ work_generation \in Nat /\ adopted.generation \in Nat
  BY ChunkEndRange, BoundsAssumption DEF TypeInv, TypeOK, Work
<1>1. /\ Candidate \in Share
      /\ Candidate.generation = adopted.generation
      /\ Candidate.extranonce2 = extranonce2 /\ Candidate.nonce = scan_nonce
      /\ scan_nonce \in Nat
  BY <1>0, BoundsAssumption
     DEF Candidate, TypeInv, TypeOK, FlowInv, IsPublication, Work, Share
<1>2. /\ Queued' = Queued \cup {Candidate}
      /\ Held' = Held /\ Submitted' = Submitted
  BY <1>1, AppendElements DEF Queued, Held, Submitted, TypeInv, TypeOK
<1>3. Pipeline' = Pipeline \cup {Candidate}
  BY <1>2 DEF Pipeline
<1>4. Candidate.generation = work_generation => Candidate \notin Pipeline
  BY CandidateIsNew DEF IsCurrent
<1>5. GenerationsOrdered'
  BY <1>0, <1>1, <1>3 DEF GenerationsOrdered
<1>6. ReadoptsNewer' /\ UniqueSubmissions'
  BY DEF ReadoptsNewer, UniqueSubmissions, IsInjective
<1>7. SharesBehindWorker'
  <2>1. SUFFICES ASSUME adopted.generation = work_generation, NEW s \in Pipeline',
                        IsCurrent(s)
                 PROVE  BehindWorker(s)'
    BY DEF SharesBehindWorker, IsCurrent
  <2>2. CASE s = Candidate
    BY <2>2, <1>0, <1>1 DEF BehindWorker, Position
  <2>3. CASE s \in Pipeline
    <3>1. BehindWorker(s) /\ s.nonce \in Nat
      BY <2>1, <2>3, PipelineTyped DEF SharesBehindWorker, Pipeline
    <3>2. QED
      BY <3>1, <1>1 DEF BehindWorker, Position
  <2>4. QED
    BY <2>1, <2>2, <2>3, <1>3
<1>8. UniqueIn(share_queue', work_generation')
  BY <1>1, <1>4, AppendUnique
     DEF CurrentSharesUnique, Pipeline, Queued, TypeInv, TypeOK
<1>9. CurrentSharesUnique'
  BY <1>2, <1>4, <1>8 DEF CurrentSharesUnique, IsCurrent, Pipeline
<1>10. QED
  BY <1>5, <1>6, <1>7, <1>9

(* The steps of the worker thread. *)
LEMMA UniqueWorker ==
  ASSUME TypeInv, UniquenessInv, Worker
  PROVE  UniquenessInv'
<1> USE DEF UniquenessInv, workerOnly, sharedVars, mainVars, counterVars,
        controlVars, historyVars
<1>0. /\ ChunkEnd(work_nonce) \in work_nonce .. MaxNonce
      /\ adopted.generation \in Nat /\ work_generation \in Nat
      /\ adopted.generation <= published.generation
      /\ adopted.generation <= work_generation
      /\ work_nonce \in Nat /\ scan_nonce \in Nat /\ extranonce2 \in Nat
  BY ChunkEndRange, BoundsAssumption
     DEF TypeInv, TypeOK, Work, GenerationsOrdered
<1>1. \A s \in Pipeline : s.extranonce2 \in Nat /\ s.nonce \in Nat
  BY PipelineTyped DEF Pipeline
<1>2. CASE WorkerWait
  <2>1. /\ Pipeline' = Pipeline /\ CurrentSharesUnique' /\ UniqueSubmissions'
        /\ GenerationsOrdered'
    BY <1>2, <1>0, WorkerMoves DEF WorkerWait
  <2>2. ReadoptsNewer'
    BY <1>2, <1>0 DEF WorkerWait, ReadoptsNewer
  <2>3. SharesBehindWorker'
    BY <1>2, <1>0, <1>1, <2>1
       DEF WorkerWait, SharesBehindWorker, IsCurrent, BehindWorker, Position
  <2>4. QED
    BY <2>1, <2>2, <2>3
<1>3. CASE WorkerNothingPublished
  <2>1. /\ Pipeline' = Pipeline /\ CurrentSharesUnique' /\ UniqueSubmissions'
        /\ GenerationsOrdered'
    BY <1>3, <1>0, WorkerMoves DEF WorkerNothingPublished
  <2>2. ReadoptsNewer'
    BY <1>3, <1>0 DEF WorkerNothingPublished, ReadoptsNewer
  <2>3. SharesBehindWorker'
    BY <1>3, <1>0, <1>1, <2>1
       DEF WorkerNothingPublished, SharesBehindWorker, IsCurrent, BehindWorker, Position
  <2>4. QED
    BY <2>1, <2>2, <2>3
<1>4. CASE WorkerChunk
  <2>1. /\ Pipeline' = Pipeline /\ CurrentSharesUnique' /\ UniqueSubmissions'
        /\ GenerationsOrdered'
    BY <1>4, <1>0, WorkerMoves DEF WorkerChunk
  <2>2. ReadoptsNewer'
    BY <1>4, <1>0 DEF WorkerChunk, ReadoptsNewer
  <2>3. SharesBehindWorker'
    BY <1>4, <1>0, <1>1, <2>1
       DEF WorkerChunk, SharesBehindWorker, IsCurrent, BehindWorker, Position
  <2>4. QED
    BY <2>1, <2>2, <2>3
<1>5. CASE WorkerScan
  <2>1. /\ Pipeline' = Pipeline /\ CurrentSharesUnique' /\ UniqueSubmissions'
        /\ GenerationsOrdered'
    BY <1>5, <1>0, WorkerMoves DEF WorkerScan
  <2>2. ReadoptsNewer'
    BY <1>5, <1>0 DEF WorkerScan, ReadoptsNewer
  <2>3. SharesBehindWorker'
    BY <1>5, <1>0, <1>1, <2>1
       DEF WorkerScan, SharesBehindWorker, IsCurrent, BehindWorker, Position
  <2>4. QED
    BY <2>1, <2>2, <2>3
<1>6. CASE WorkerStale
  <2>1. /\ Pipeline' = Pipeline /\ CurrentSharesUnique' /\ UniqueSubmissions'
        /\ GenerationsOrdered'
    BY <1>6, <1>0, WorkerMoves DEF WorkerStale
  <2>2. ReadoptsNewer'
    <3>1. adopted.generation # work_generation
      BY <1>6 DEF WorkerStale, GenerationChanged
    <3>2. QED
      BY <1>6, <1>0, <3>1 DEF WorkerStale, ReadoptsNewer
  <2>3. SharesBehindWorker'
    BY <1>6, <1>0, <1>1, <2>1
       DEF WorkerStale, SharesBehindWorker, IsCurrent, BehindWorker, Position
  <2>4. QED
    BY <2>1, <2>2, <2>3
<1>7. CASE WorkerMiss
  <2>1. /\ Pipeline' = Pipeline /\ CurrentSharesUnique' /\ UniqueSubmissions'
        /\ GenerationsOrdered'
    BY <1>7, <1>0, WorkerMoves DEF WorkerMiss
  <2>2. ReadoptsNewer'
    BY <1>7, <1>0 DEF WorkerMiss, ReadoptsNewer
  <2>3. SharesBehindWorker'
    BY <1>7, <1>0, <1>1, <2>1
       DEF WorkerMiss, SharesBehindWorker, IsCurrent, BehindWorker, Position
  <2>4. QED
    BY <2>1, <2>2, <2>3
<1>8. CASE WorkerFind
  <2>1. /\ Pipeline' = Pipeline /\ CurrentSharesUnique' /\ UniqueSubmissions'
        /\ GenerationsOrdered'
    BY <1>8, <1>0, WorkerMoves DEF WorkerFind
  <2>2. ReadoptsNewer'
    BY <1>8, <1>0 DEF WorkerFind, ReadoptsNewer
  <2>3. SharesBehindWorker'
    BY <1>8, <1>0, <1>1, <2>1
       DEF WorkerFind, SharesBehindWorker, IsCurrent, BehindWorker, Position
  <2>4. QED
    BY <2>1, <2>2, <2>3
<1>9. CASE WorkerNextChunk
  <2>1. /\ Pipeline' = Pipeline /\ CurrentSharesUnique' /\ UniqueSubmissions'
        /\ GenerationsOrdered'
    BY <1>9, <1>0, WorkerMoves DEF WorkerNextChunk
  <2>2. ReadoptsNewer'
    BY <1>9, <1>0 DEF WorkerNextChunk, ReadoptsNewer
  <2>3. SharesBehindWorker'
    BY <1>9, <1>0, <1>1, <2>1
       DEF WorkerNextChunk, SharesBehindWorker, IsCurrent, BehindWorker, Position, TypeInv, FlowInv
  <2>4. QED
    BY <2>1, <2>2, <2>3
<1>10. CASE WorkerExhausted
  <2>1. /\ Pipeline' = Pipeline /\ CurrentSharesUnique' /\ UniqueSubmissions'
        /\ GenerationsOrdered'
    BY <1>10, <1>0, WorkerMoves DEF WorkerExhausted
  <2>2. ReadoptsNewer'
    BY <1>10, <1>0 DEF WorkerExhausted, ReadoptsNewer
  <2>3. SharesBehindWorker'
    BY <1>10, <1>0, <1>1, <2>1
       DEF WorkerExhausted, SharesBehindWorker, IsCurrent, BehindWorker, Position
  <2>4. QED
    BY <2>1, <2>2, <2>3
<1>11. QED
  BY <1>2, <1>3, <1>4, <1>5, <1>6, <1>7, <1>8, <1>9, <1>10, UniqueAdopt, UniquePush
     DEF Worker

(* What was submitted, what waits and what the worker has still to scan do *)
(* not overlap: the inductive invariant (main.cpp 356-529, 753-825).       *)
THEOREM CandidatesUnique == Spec => []UniquenessInv
<1>1. ASSUME TypeInv, UniquenessInv, [Next]_vars
      PROVE  UniquenessInv'
  <2>1. CASE Interrupt \/ FatalError \/ StopWorker
    BY <1>1, <2>1, QuietStep
       DEF Interrupt, FatalError, StopWorker, mainOnly, sharedVars, controlVars,
           workerVars, historyVars, Held
  <2>2. CASE UNCHANGED vars
    BY <1>1, <2>2, QuietStep
       DEF vars, sharedVars, mainVars, controlVars, workerVars, historyVars, Held
  <2>3. QED
    BY <1>1, <2>1, <2>2, UniqueControl, UniqueWorker DEF Next, Terminated
<1>2. TypeInv /\ [Next]_vars => TypeInv'
  BY TypeControl, TypeWorker, TypeMain DEF Next, Terminated
<1>3. QED
  BY TypeInit, UniqueInit, <1>1, <1>2, PTL DEF Spec

(* No candidate is submitted twice under one generation, for every number  *)
(* of jobs, nonces and publications and every chunk size and check         *)
(* interval (main.cpp 356-529, 753-825).                                   *)
THEOREM SubmissionsUnique == Spec => []UniqueSubmissions
<1>1. UniquenessInv => UniqueSubmissions
  BY DEF UniquenessInv
<1>2. QED
  BY CandidatesUnique, <1>1, PTL

-----------------------------------------------------------------------------
(* The share path. *)

(* The steps of the control thread that leave all shares where they are. *)
LEMMA QuietControlSteps ==
  ASSUME \/ StartupRead \/ ReadFails \/ PublishFails \/ ControlLoop
         \/ DrainEmpty \/ AwaitRead \/ AwaitAnswer \/ AwaitFails
         \/ PollNothing \/ PollNewWork \/ PollOther \/ IdleTimeout
  PROVE  /\ UNCHANGED <<work_generation, published, share_queue, submitted,
                        stop_control, stop_worker, workerVars, shares_found>>
         /\ Held' = Held
<1> USE DEF controlOnly, mainVars, workerVars, counterVars, historyVars, sharedVars,
        ControlExits, Held
<1>1. CASE StartupRead \/ ReadFails \/ PublishFails \/ ControlLoop
  BY <1>1 DEF StartupRead, ReadFails, PublishFails, ControlLoop
<1>2. CASE DrainEmpty \/ AwaitRead \/ AwaitAnswer \/ AwaitFails
  BY <1>2 DEF DrainEmpty, AwaitRead, AwaitAnswer, AwaitFails
<1>3. CASE PollNothing \/ PollNewWork \/ PollOther \/ IdleTimeout
  BY <1>3 DEF PollNothing, PollNewWork, PollOther, IdleTimeout
<1>4. QED
  BY <1>1, <1>2, <1>3

(* The worker's steps but one, and the main thread's. *)
LEMMA QuietOtherSteps ==
  ASSUME \/ Worker /\ ~WorkerPush
         \/ Interrupt \/ FatalError \/ StopWorker \/ UNCHANGED vars
  PROVE  UNCHANGED <<work_generation, published, share_queue, submitted, cpc,
                     queued, shares_accepted, shares_rejected, stale_discarded,
                     lost>>
<1>1. CASE Worker /\ ~WorkerPush
  BY <1>1
     DEF Worker, WorkerWait, WorkerNothingPublished, WorkerAdopt, WorkerChunk,
         WorkerScan, WorkerStale, WorkerMiss, WorkerFind, WorkerNextChunk,
         WorkerExhausted, workerOnly, sharedVars, controlVars, counterVars,
         historyVars
<1>2. CASE Interrupt \/ FatalError \/ StopWorker \/ UNCHANGED vars
  BY <1>2 DEF Interrupt, FatalError, StopWorker, vars, mainOnly, sharedVars,
              controlVars, counterVars, historyVars
<1>3. QED
  BY <1>1, <1>2

-----------------------------------------------------------------------------
(* Provenance: a share that may still be sent was found on the work now    *)
(* published.  The worker scans a copy, which it took under a lock at a    *)
(* time when the counter may already have moved on.                        *)

(* At first there are no shares. *)
LEMMA ProvenanceInit == Init => ShareProvenance /\ WorkerProvenance
<1>1. SUFFICES ASSUME Init PROVE ShareProvenance /\ WorkerProvenance
  OBVIOUS
<1>2. Queued = {} /\ Held = {}
  BY <1>1 DEF Init, Queued, Held, ToSet
<1>3. QED
  BY <1>1, <1>2 DEF Init, ShareProvenance, WorkerProvenance

(* What suffices for shares to stay provenanced: none is added. *)
LEMMA ProvenanceKept ==
  ASSUME ShareProvenance, UNCHANGED <<work_generation, published>>,
         Queued' \cup Held' \subseteq Queued \cup Held
  PROVE  ShareProvenance'
BY DEF ShareProvenance, IsCurrent

(* No share waiting was found on the generation control moves to. *)
LEMMA PublishingSupersedes ==
  ASSUME TypeInv, UniquenessInv, PublishGeneration \/ PublishStore
  PROVE  /\ Queued' = Queued /\ Held' = Held /\ Submitted' = Submitted
         /\ \A s \in Pipeline : ~IsCurrent(s)'
         /\ published'.generation # adopted.generation
            \/ published' = published
<1>1. Queued' = Queued /\ Held' = Held /\ Submitted' = Submitted
  BY DEF PublishGeneration, PublishStore, Queued, Held, Submitted, historyVars
<1>2. /\ work_generation \in Nat /\ published.generation \in Nat
      /\ adopted.generation \in Nat
      /\ \A s \in Pipeline : s.generation \in Nat
  BY PipelineTyped, BoundsAssumption DEF TypeInv, TypeOK, Work, Pipeline
<1>3. /\ adopted.generation <= published.generation
      /\ published.generation <= work_generation
      /\ \A s \in Pipeline : s.generation <= adopted.generation
      /\ cpc = "store" => published.generation < work_generation
  BY <1>2 DEF UniquenessInv, GenerationsOrdered
<1>4. CASE PublishGeneration
  <2>1. work_generation' = work_generation + 1 /\ published' = published
    BY <1>4 DEF PublishGeneration
  <2>2. QED
    BY <1>1, <1>2, <1>3, <2>1 DEF IsCurrent
<1>5. CASE PublishStore
  <2>1. /\ cpc = "store" /\ work_generation' = work_generation
        /\ published'.generation = work_generation
    BY <1>5 DEF PublishStore
  <2>2. QED
    BY <1>1, <1>2, <1>3, <2>1 DEF IsCurrent
<1>6. QED
  BY <1>4, <1>5

(* Popping and putting back add no share. *)
LEMMA PoppingAddsNone ==
  ASSUME TypeInv,
         \/ DrainStale \/ DrainSubmit \/ DrainSubmitFails \/ IdlePop \/ IdleRequeue
  PROVE  /\ UNCHANGED <<work_generation, published, workerVars>>
         /\ Queued' \cup Held' \subseteq Queued \cup Held
<1>1. CASE DrainStale \/ DrainSubmit \/ DrainSubmitFails \/ IdlePop
  <2>1. /\ share_queue # <<>> /\ share_queue' = Tail(share_queue)
        /\ UNCHANGED <<work_generation, published, workerVars>>
        /\ cpc' = "hold" => queued' = Head(share_queue)
    BY <1>1 DEF DrainStale, DrainSubmit, DrainSubmitFails, IdlePop, workerVars,
                ControlExits
  <2>2. Queued = {Head(share_queue)} \cup Queued'
    BY <2>1, TailElements DEF Queued, TypeInv, TypeOK
  <2>3. Held' \subseteq {Head(share_queue)}
    BY <2>1 DEF Held
  <2>4. QED
    BY <2>1, <2>2, <2>3
<1>2. CASE IdleRequeue
  <2>0. /\ share_queue' = share_queue \/ share_queue' = Append(share_queue, queued)
        /\ cpc = "hold" /\ cpc' = "loop"
        /\ UNCHANGED <<work_generation, published, workerVars>>
    BY <1>2 DEF IdleRequeue
  <2>1. Held = {queued} /\ Held' = {} /\ queued \in Share
    BY <2>0 DEF Held, TypeInv, FlowInv
  <2>2. Queued' \subseteq Queued \cup {queued}
    <3>1. share_queue \in Seq(Share)
      BY DEF TypeInv, TypeOK
    <3>2. ToSet(Append(share_queue, queued)) = ToSet(share_queue) \cup {queued}
      BY <2>1, <3>1, AppendElements
    <3>3. QED
      BY <2>0, <3>2 DEF Queued
  <2>3. QED
    BY <2>0, <2>1, <2>2
<1>3. QED
  BY <1>1, <1>2

(* Every step keeps the provenance of the shares. *)
LEMMA ProvenanceStep ==
  ASSUME TypeInv, UniquenessInv, ShareProvenance, WorkerProvenance, [Next]_vars
  PROVE  ShareProvenance' /\ WorkerProvenance'
<1>1. CASE \/ StartupRead \/ ReadFails \/ PublishFails \/ ControlLoop
           \/ DrainEmpty \/ AwaitRead \/ AwaitAnswer \/ AwaitFails
           \/ PollNothing \/ PollNewWork \/ PollOther \/ IdleTimeout
  <2>1. /\ UNCHANGED <<work_generation, published, share_queue, workerVars>>
        /\ Held' = Held
    BY <1>1, QuietControlSteps
  <2>2. ShareProvenance'
    BY <2>1, ProvenanceKept DEF Queued
  <2>3. WorkerProvenance'
    BY <2>1 DEF WorkerProvenance, workerVars
  <2>4. QED
    BY <2>2, <2>3
<1>2. CASE PublishGeneration \/ PublishStore
  <2>1. ShareProvenance'
    BY <1>2, PublishingSupersedes DEF ShareProvenance, Pipeline
  <2>2. UNCHANGED workerVars
    BY <1>2 DEF PublishGeneration, PublishStore, workerVars
  <2>3. WorkerProvenance'
    BY <1>2, <2>2, PublishingSupersedes DEF WorkerProvenance, workerVars
  <2>4. QED
    BY <2>1, <2>3
<1>3. CASE \/ DrainStale \/ DrainSubmit \/ DrainSubmitFails \/ IdlePop \/ IdleRequeue
  <2>1. ShareProvenance'
    BY <1>3, PoppingAddsNone, ProvenanceKept
  <2>2. WorkerProvenance'
    BY <1>3, PoppingAddsNone DEF WorkerProvenance, workerVars
  <2>3. QED
    BY <2>1, <2>2
<1>4. CASE WorkerPush
  <2>1. /\ UNCHANGED <<work_generation, published, adopted, cpc, queued>>
        /\ wpc = "found" /\ wpc' = "scan"
        /\ share_queue' = Append(share_queue, Candidate)
    BY <1>4 DEF WorkerPush, controlVars
  <2>2. Candidate \in Share
    BY <2>1, ChunkEndRange, BoundsAssumption
       DEF Candidate, TypeInv, TypeOK, FlowInv, IsPublication, Work, Share
  <2>3. Queued' = Queued \cup {Candidate} /\ Held' = Held
    BY <2>1, <2>2, AppendElements DEF Queued, Held, TypeInv, TypeOK
  <2>4. ASSUME IsCurrent(Candidate)
        PROVE  adopted = published
    <3>1. /\ adopted.generation = work_generation
          /\ adopted.generation <= published.generation
          /\ published.generation <= work_generation
          /\ work_generation \in Nat /\ published.generation \in Nat
      BY <2>4, BoundsAssumption DEF Candidate, IsCurrent, UniquenessInv,
            GenerationsOrdered, TypeInv, TypeOK, Work
    <3>2. QED
      BY <3>1 DEF WorkerProvenance
  <2>5. IsCurrent(Candidate) =>
          /\ Candidate.generation = published.generation
          /\ Candidate.job = published.job
          /\ MeetsShareTarget(published, Candidate.extranonce2, Candidate.nonce)
    BY <2>1, <2>4 DEF WorkerProvenance, Candidate
  <2>6. ShareProvenance'
    BY <2>1, <2>3, <2>5 DEF ShareProvenance, IsCurrent
  <2>7. WorkerProvenance'
    BY <2>1 DEF WorkerProvenance
  <2>8. QED
    BY <2>6, <2>7
<1>5. CASE \/ Worker /\ ~WorkerPush
           \/ Interrupt \/ FatalError \/ StopWorker \/ UNCHANGED vars
  <2>1. ShareProvenance'
    BY <1>5, QuietOtherSteps, ProvenanceKept DEF Queued, Held
  <2>2. CASE Worker /\ ~WorkerPush
    <3>1. adopted' = adopted \/ adopted' = published
      BY <2>2
         DEF Worker, WorkerWait, WorkerNothingPublished, WorkerAdopt, WorkerChunk,
             WorkerScan, WorkerStale, WorkerMiss, WorkerFind, WorkerNextChunk,
             WorkerExhausted
    <3>2. wpc' = "found" => /\ UNCHANGED <<adopted, extranonce2, scan_nonce>>
                            /\ MeetsShareTarget(adopted, extranonce2, scan_nonce)
      BY <2>2
         DEF Worker, WorkerWait, WorkerNothingPublished, WorkerAdopt, WorkerChunk,
             WorkerScan, WorkerStale, WorkerMiss, WorkerFind, WorkerNextChunk,
             WorkerExhausted
    <3>3. published' = published
      BY <1>5, QuietOtherSteps
    <3>4. QED
      BY <2>1, <3>1, <3>2, <3>3 DEF WorkerProvenance
  <2>3. CASE Interrupt \/ FatalError \/ StopWorker \/ UNCHANGED vars
    <3>1. UNCHANGED <<published, workerVars>>
      BY <2>3 DEF Interrupt, FatalError, StopWorker, vars, mainOnly, sharedVars
    <3>2. QED
      BY <2>1, <3>1 DEF WorkerProvenance, workerVars
  <2>4. QED
    BY <1>5, <2>2, <2>3
<1>6. QED
  BY <1>1, <1>2, <1>3, <1>4, <1>5 DEF Next, Control, Terminated

-----------------------------------------------------------------------------
(* Order: control sends a share only under the generation it carries, and  *)
(* the counter only grows, so what was sent before is never newer.         *)

(* At first nothing is submitted. *)
LEMMA OrderInit == Init => SubmissionsInOrder
BY DEF Init, SubmissionsInOrder

(* Every step keeps the order of the submissions. *)
LEMMA OrderStep ==
  ASSUME TypeInv, UniquenessInv, SubmissionsInOrder, [Next]_vars
  PROVE  SubmissionsInOrder'
<1>1. CASE submitted' = submitted
  BY <1>1 DEF SubmissionsInOrder
<1>2. CASE DrainSubmit
  <2> DEFINE h == Head(share_queue)
  <2>1. /\ submitted' = Append(submitted, h) /\ h \in Share
        /\ submitted \in Seq(Share) /\ h.generation = work_generation
    BY <1>2, TailElements DEF DrainSubmit, TypeInv, TypeOK
  <2>2. /\ Len(submitted) \in Nat
        /\ DOMAIN submitted = 1 .. Len(submitted)
        /\ DOMAIN submitted' = 1 .. Len(submitted) + 1
        /\ \A i \in 1 .. Len(submitted) : submitted'[i] = submitted[i]
        /\ submitted'[Len(submitted) + 1] = h
    BY <2>1, AppendProperties, LenProperties
  <2>3. \A s \in Pipeline : s.generation <= work_generation
    BY PipelineTyped, BoundsAssumption
       DEF UniquenessInv, GenerationsOrdered, TypeInv, TypeOK, Work, Pipeline
  <2>4. \A i \in 1 .. Len(submitted) : submitted[i].generation <= h.generation
    BY <2>1, <2>2, <2>3 DEF Pipeline, Submitted, ToSet
  <2>5. h.generation <= h.generation
    BY <2>1, BoundsAssumption DEF Share
  <2>6. SUFFICES ASSUME NEW i \in 1 .. Len(submitted) + 1,
                        NEW j \in 1 .. Len(submitted) + 1, i < j
                 PROVE  submitted'[i].generation <= submitted'[j].generation
    BY <2>2 DEF SubmissionsInOrder
  <2>7. i \in 1 .. Len(submitted)
    BY <2>2, <2>6
  <2>8. CASE j = Len(submitted) + 1
    BY <2>2, <2>4, <2>7, <2>8
  <2>9. CASE j \in 1 .. Len(submitted)
    BY <2>2, <2>6, <2>7, <2>9 DEF SubmissionsInOrder
  <2>10. QED
    BY <2>2, <2>6, <2>8, <2>9
<1>3. [Next]_vars /\ ~DrainSubmit => submitted' = submitted
  <2>1. PublishGeneration \/ PublishStore => submitted' = submitted
    BY DEF PublishGeneration, PublishStore, historyVars
  <2>2. DrainStale \/ DrainSubmitFails \/ IdlePop \/ IdleRequeue => submitted' = submitted
    BY DEF DrainStale, DrainSubmitFails, IdlePop, IdleRequeue, historyVars
  <2>3. WorkerPush => submitted' = submitted
    BY DEF WorkerPush, historyVars
  <2>4. QED
    BY <2>1, <2>2, <2>3, QuietControlSteps, QuietOtherSteps
       DEF Next, Control, Terminated
<1>4. QED
  BY <1>1, <1>2, <1>3

-----------------------------------------------------------------------------
(* Accounting: every step moves a share from one term of the sum to        *)
(* another.  A share can be lost on three paths, and behind each of them   *)
(* the control thread touches no further share.                            *)

(* At first all counts are 0. *)
LEMMA AccountInit == Init => SharesAccountedFor /\ LossEndsControl
<1>1. Len(<<>>) = 0
  BY EmptySeq
<1>2. QED
  BY <1>1 DEF Init, SharesAccountedFor, LossEndsControl, BeingQueued, BeingHandled

(* The terms of the sum are numbers, and a queue that is popped had one    *)
(* element more.                                                           *)
LEMMA AccountTyped ==
  ASSUME TypeInv
  PROVE  /\ shares_found \in Nat /\ shares_accepted \in Nat
         /\ shares_rejected \in Nat /\ stale_discarded \in Nat /\ lost \in Nat
         /\ Len(share_queue) \in Nat
         /\ share_queue # <<>> => Len(Tail(share_queue)) = Len(share_queue) - 1
         /\ \A s : s \in Share => Len(Append(share_queue, s)) = Len(share_queue) + 1
         /\ first_error \in {"none", "control", "worker"}
         /\ cpc \in {"await", "hold"} => queued \in Share
<1>1. share_queue \in Seq(Share)
  BY DEF TypeInv, TypeOK
<1>2. QED
  BY <1>1, HeadTailProperties, AppendProperties, LenProperties
     DEF TypeInv, TypeOK, FlowInv

(* The steps that move no share at all. *)
LEMMA AccountKept ==
  ASSUME SharesAccountedFor, LossEndsControl,
         UNCHANGED <<share_queue, counterVars, stale_discarded, lost>>,
         BeingQueued' = BeingQueued,
         BeingHandled' = BeingHandled,
         cpc' = cpc \/ cpc' = "exited" \/ lost = 0,
         stop_control => stop_control',
         first_error # "none" => first_error' # "none"
  PROVE  SharesAccountedFor' /\ LossEndsControl'
BY DEF SharesAccountedFor, LossEndsControl, counterVars

(* The control thread's steps keep the account. *)
LEMMA AccountControl ==
  ASSUME TypeInv, SharesAccountedFor, LossEndsControl, Control
  PROVE  SharesAccountedFor' /\ LossEndsControl'
<1> USE AccountTyped DEF controlOnly, counterVars, mainVars, workerVars,
        historyVars, sharedVars, ControlExits, RecordException
<1>0. /\ BeingQueued \in {0, 1} /\ BeingHandled \in {0, 1}
      /\ wpc' = wpc => BeingQueued' = BeingQueued
  BY DEF BeingQueued, BeingHandled
<1>1. CASE StartupRead \/ ReadFails \/ PublishFails \/ PublishGeneration
  BY <1>1, <1>0, AccountKept
     DEF StartupRead, ReadFails, PublishFails, PublishGeneration, BeingHandled,
     LossEndsControl
<1>2. CASE PublishStore \/ ControlLoop \/ DrainEmpty \/ AwaitRead
  BY <1>2, <1>0, AccountKept
     DEF PublishStore, ControlLoop, DrainEmpty, AwaitRead, BeingHandled,
     LossEndsControl
<1>3. CASE PollNothing \/ PollNewWork \/ PollOther \/ IdleTimeout
  BY <1>3, <1>0, AccountKept
     DEF PollNothing, PollNewWork, PollOther, IdleTimeout, BeingHandled,
     LossEndsControl
<1>4. CASE DrainStale
  <2>1. /\ lost = 0 /\ lost' = lost
        /\ Len(share_queue') = Len(share_queue) - 1
        /\ stale_discarded' = stale_discarded + 1
        /\ UNCHANGED <<shares_found, shares_accepted, shares_rejected,
                       BeingQueued, BeingHandled>>
    BY <1>4, <1>0 DEF DrainStale, BeingHandled, LossEndsControl
  <2>2. shares_found' = BeingQueued' + Len(share_queue') + BeingHandled'
          + shares_accepted' + shares_rejected' + stale_discarded' + lost'
    BY <2>1, <1>0 DEF SharesAccountedFor
  <2>3. QED
    BY <2>1, <2>2 DEF SharesAccountedFor, LossEndsControl
<1>5. CASE DrainSubmit
  BY <1>5 DEF DrainSubmit, SharesAccountedFor, BeingQueued, BeingHandled, LossEndsControl
<1>6. CASE DrainSubmitFails
  BY <1>6 DEF DrainSubmitFails, SharesAccountedFor, BeingQueued, BeingHandled, LossEndsControl
<1>7. CASE AwaitAnswer
  <2>1. /\ lost = 0 /\ lost' = lost
        /\ BeingHandled = 1 /\ BeingHandled' = 0
        /\ UNCHANGED <<share_queue, shares_found, stale_discarded, BeingQueued>>
    BY <1>7, <1>0 DEF AwaitAnswer, BeingHandled, LossEndsControl
  <2>2. \/ shares_accepted' = shares_accepted + 1 /\ shares_rejected' = shares_rejected
        \/ shares_rejected' = shares_rejected + 1 /\ shares_accepted' = shares_accepted
    BY <1>7 DEF AwaitAnswer
  <2>3. shares_found' = BeingQueued' + Len(share_queue') + BeingHandled'
          + shares_accepted' + shares_rejected' + stale_discarded' + lost'
    BY <2>1, <2>2, <1>0, SMTT(60) DEF SharesAccountedFor
  <2>4. QED
    BY <2>1, <2>3 DEF SharesAccountedFor, LossEndsControl
<1>8. CASE AwaitFails
  BY <1>8 DEF AwaitFails, SharesAccountedFor, BeingQueued, BeingHandled, LossEndsControl
<1>9. CASE IdlePop
  BY <1>9 DEF IdlePop, SharesAccountedFor, BeingQueued, BeingHandled, LossEndsControl
<1>10. CASE IdleRequeue
  <2>1. lost = 0 /\ cpc = "hold" /\ cpc' = "loop" /\ queued \in Share
    BY <1>10 DEF IdleRequeue, LossEndsControl
  <2>2. CASE stop_control
    BY <1>10, <2>1, <2>2 DEF IdleRequeue, SharesAccountedFor, BeingQueued, BeingHandled, LossEndsControl
  <2>3. CASE ~stop_control
    BY <1>10, <2>1, <2>3 DEF IdleRequeue, SharesAccountedFor, BeingQueued, BeingHandled, LossEndsControl
  <2>4. QED
    BY <2>2, <2>3
<1>11. QED
  BY <1>1, <1>2, <1>3, <1>4, <1>5, <1>6, <1>7, <1>8, <1>9, <1>10 DEF Control

(* Every step keeps the account. *)
LEMMA AccountStep ==
  ASSUME TypeInv, SharesAccountedFor, LossEndsControl, [Next]_vars
  PROVE  SharesAccountedFor' /\ LossEndsControl'
<1>1. CASE Control
  BY <1>1, AccountControl
<1>2. CASE WorkerFind
  <2>1. /\ shares_found' = shares_found + 1
        /\ BeingQueued = 0 /\ BeingQueued' = 1
        /\ UNCHANGED <<share_queue, shares_accepted, shares_rejected, cpc,
                       stale_discarded, lost, stop_control, first_error>>
    BY <1>2 DEF WorkerFind, workerOnly, sharedVars, mainVars, controlVars,
                historyVars, BeingQueued
  <2>2. BeingHandled' = BeingHandled /\ BeingHandled \in Nat
    BY <2>1 DEF BeingHandled
  <2>3. shares_found' = BeingQueued' + Len(share_queue') + BeingHandled'
          + shares_accepted' + shares_rejected' + stale_discarded' + lost'
    BY <2>1, <2>2, AccountTyped DEF SharesAccountedFor
  <2>4. /\ lost' <= 1
        /\ lost' = 1 => stop_control' \/ first_error' # "none"
    BY <2>1 DEF SharesAccountedFor
  <2>5. LossEndsControl'
    BY <2>1 DEF LossEndsControl
  <2>6. QED
    BY <2>3, <2>4, <2>5 DEF SharesAccountedFor
<1>3. CASE WorkerPush
  <2>1. Candidate \in Share
    BY <1>3, ChunkEndRange, BoundsAssumption
       DEF WorkerPush, Candidate, TypeInv, TypeOK, FlowInv, IsPublication, Work, Share
  <2>2. QED
    BY <1>3, <2>1, AccountTyped
       DEF WorkerPush, sharedVars, mainVars, counterVars, controlVars, historyVars,
           SharesAccountedFor, LossEndsControl, BeingQueued, BeingHandled
<1>4. CASE Worker /\ ~WorkerPush /\ ~WorkerFind
  <2>1. /\ UNCHANGED <<shares_found, stop_control>>
        /\ BeingQueued' = BeingQueued
        /\ first_error # "none" => first_error' # "none"
    BY <1>4
       DEF Worker, WorkerWait, WorkerNothingPublished, WorkerAdopt, WorkerChunk,
           WorkerScan, WorkerStale, WorkerMiss, WorkerNextChunk, WorkerExhausted,
           workerOnly, mainVars, counterVars, RecordException, BeingQueued
  <2>2. QED
    BY <1>4, <2>1, QuietOtherSteps, AccountKept DEF counterVars, BeingHandled
<1>5. CASE Interrupt \/ FatalError \/ StopWorker \/ UNCHANGED vars
  BY <1>5, AccountKept
     DEF Interrupt, FatalError, StopWorker, mainOnly, vars, sharedVars, mainVars,
         counterVars, controlVars, workerVars, historyVars, BeingQueued, BeingHandled
<1>6. QED
  BY <1>1, <1>2, <1>3, <1>4, <1>5 DEF Next, Terminated

-----------------------------------------------------------------------------
(* The properties of the share path together. *)

(* For every number of jobs, nonces and publications: what waits to be     *)
(* sent was found on the published work, what was sent was sent once and   *)
(* in the order of the generations, and no share is unaccounted for        *)
(* (main.cpp 356-437, 475-481, 520-529).                                   *)
THEOREM PipelineCorrect == Spec => []PipelineInv
<1>1. Init => PipelineInv
  BY UniqueInit, ProvenanceInit, OrderInit, AccountInit DEF PipelineInv
<1>2. TypeInv /\ PipelineInv /\ UniquenessInv' /\ [Next]_vars => PipelineInv'
  BY ProvenanceStep, OrderStep, AccountStep DEF PipelineInv
<1>3. QED
  BY TypeCorrect, CandidatesUnique, <1>1, <1>2, PTL DEF Spec

(* A share that may still be sent was found on the work now published, and *)
(* its hash meets that work's target (main.cpp 475-481, 407-422).          *)
THEOREM SharesProvenanced == Spec => []ShareProvenance
BY PipelineCorrect, PTL DEF PipelineInv

(* Shares reach the pool in the order of their generations, though idling  *)
(* puts the front of the queue at its back (main.cpp 356-405, 520-529).    *)
THEOREM SubmissionsOrdered == Spec => []SubmissionsInOrder
BY PipelineCorrect, PTL DEF PipelineInv

(* The counters add up at every moment, and at most one share is lost      *)
(* (main.cpp 356-437, 520-529).                                            *)
THEOREM NothingUnaccounted == Spec => []SharesAccountedFor
BY PipelineCorrect, PTL DEF PipelineInv

-----------------------------------------------------------------------------
(* Refinement: the queue, the hands and the counter of the two threads     *)
(* implement ShareDelivery.                                                *)

(* The pipeline starts as ShareDelivery does. *)
LEMMA DeliveryInit == Init => Delivery!Init
<1>1. SUFFICES ASSUME Init PROVE Delivery!Init
  OBVIOUS
<1>2. OpenShares = {}
  BY <1>1 DEF Init, OpenShares, Queued, Held, ToSet
<1>3. Closing = FALSE
  BY <1>1 DEF Init, Closing
<1>4. QED
  BY <1>1, <1>2, <1>3 DEF Init, Delivery!Init

(* Steps that leave shares and generation alone close the program down, or *)
(* do not show at all.                                                     *)
LEMMA DeliveryQuiet ==
  ASSUME UNCHANGED <<work_generation, submitted, OpenShares>>,
         Closing => Closing'
  PROVE  [Delivery!Next]_(Delivery!vars)
<1>1. CASE Closing'
  <2>1. Closing' = TRUE
    BY <1>1 DEF Closing
  <2>2. Delivery!Close
    BY <2>1 DEF Delivery!Close
  <2>3. QED
    BY <2>2 DEF Delivery!Next
<1>2. CASE ~Closing'
  <2>1. Closing' = Closing
    BY <1>2 DEF Closing
  <2>2. QED
    BY <2>1 DEF Delivery!vars
<1>3. QED
  BY <1>1, <1>2

(* Neither a stop request nor the first error is ever taken back. *)
LEMMA ClosingStays ==
  ASSUME [Next]_vars
  PROVE  /\ stop_control => stop_control'
         /\ first_error # "none" => first_error' # "none"
<1> USE DEF RecordException, mainVars
<1>1. CASE Control
  BY <1>1 DEF Control, controlOnly, StartupRead, ReadFails, PublishFails,
        PublishGeneration, PublishStore, ControlLoop, DrainEmpty, DrainStale,
        DrainSubmit, DrainSubmitFails, AwaitRead, AwaitAnswer, AwaitFails,
        PollNothing, PollNewWork, PollOther, IdleTimeout, IdlePop, IdleRequeue
<1>2. CASE Worker
  BY <1>2 DEF Worker, workerOnly, WorkerWait, WorkerNothingPublished, WorkerAdopt,
        WorkerChunk, WorkerScan, WorkerStale, WorkerMiss, WorkerFind, WorkerPush,
        WorkerNextChunk, WorkerExhausted
<1>3. CASE Interrupt \/ FatalError \/ StopWorker \/ UNCHANGED vars
  BY <1>3 DEF Interrupt, FatalError, StopWorker, mainOnly, vars
<1>4. QED
  BY <1>1, <1>2, <1>3 DEF Next, Terminated

(* Each step of the pipeline is a step of ShareDelivery or none. *)
LEMMA DeliveryStep ==
  ASSUME TypeInv, UniquenessInv, [Next]_vars
  PROVE  [Delivery!Next]_(Delivery!vars)
<1>0. Closing => Closing'
  BY ClosingStays DEF Closing
<1>1. CASE \/ StartupRead \/ ReadFails \/ PublishFails \/ ControlLoop
           \/ DrainEmpty \/ AwaitRead \/ AwaitAnswer \/ AwaitFails
           \/ PollNothing \/ PollNewWork \/ PollOther \/ IdleTimeout
  <2>1. UNCHANGED <<work_generation, submitted, OpenShares>>
    BY <1>1, QuietControlSteps DEF OpenShares, Queued, IsCurrent
  <2>2. QED
    BY <1>0, <2>1, DeliveryQuiet
<1>2. CASE \/ Worker /\ ~WorkerPush
           \/ Interrupt \/ FatalError \/ StopWorker \/ UNCHANGED vars
  <2>1. UNCHANGED <<work_generation, submitted, OpenShares>>
    BY <1>2, QuietOtherSteps DEF OpenShares, Queued, Held, IsCurrent
  <2>2. QED
    BY <1>0, <2>1, DeliveryQuiet
<1>3. CASE PublishGeneration
  <2>1. /\ work_generation' = work_generation + 1 /\ submitted' = submitted
        /\ stop_control' = stop_control /\ first_error' = first_error
    BY <1>3 DEF PublishGeneration, mainVars, historyVars
  <2>2. OpenShares' = {}
    BY <1>3, PublishingSupersedes DEF OpenShares, Pipeline
  <2>3. Closing' = Closing
    BY <2>1 DEF Closing
  <2>4. Delivery!Supersede
    BY <2>1, <2>2, <2>3 DEF Delivery!Supersede
  <2>5. QED
    BY <2>4 DEF Delivery!Next
<1>4. CASE PublishStore
  <2>1. /\ work_generation' = work_generation /\ submitted' = submitted
    BY <1>4 DEF PublishStore, historyVars
  <2>2. OpenShares' = OpenShares
    BY <1>4, <2>1, PublishingSupersedes DEF OpenShares, IsCurrent
  <2>3. QED
    BY <1>0, <2>1, <2>2, DeliveryQuiet
<1>5. CASE DrainStale \/ DrainSubmit \/ DrainSubmitFails
  <2> DEFINE h == Head(share_queue)
  <2>1. /\ h \in Share /\ Queued = {h} \cup Queued' /\ Held = {} /\ Held' = {}
        /\ work_generation' = work_generation /\ stop_control' = stop_control
    BY <1>5, TailElements
       DEF DrainStale, DrainSubmit, DrainSubmitFails, Queued, Held, TypeInv, TypeOK,
           mainVars, ControlExits
  <2>2. IsCurrent(h) => h \notin Queued'
    BY <1>5, TailUnique
       DEF DrainStale, DrainSubmit, DrainSubmitFails, Queued, IsCurrent,
           UniquenessInv, CurrentSharesUnique, TypeInv, TypeOK
  <2>3. CASE DrainStale
    <3>1. ~IsCurrent(h) /\ submitted' = submitted
      BY <2>3 DEF DrainStale, IsCurrent
    <3>2. OpenShares' = OpenShares
      BY <2>1, <3>1 DEF OpenShares, IsCurrent
    <3>3. QED
      BY <1>0, <2>1, <3>1, <3>2, DeliveryQuiet
  <2>4. CASE DrainSubmit \/ DrainSubmitFails
    <3>1. IsCurrent(h)
      BY <2>4 DEF DrainSubmit, DrainSubmitFails, IsCurrent
    <3>2. h \in OpenShares /\ OpenShares' = OpenShares \ {h}
      BY <2>1, <2>2, <3>1 DEF OpenShares, IsCurrent
    <3>3. CASE DrainSubmit
      <4>1. submitted' = Append(submitted, h) /\ Closing' = Closing
        BY <2>1, <3>3 DEF DrainSubmit, Closing
      <4>2. Delivery!Deliver(h)
        BY <2>1, <3>2, <4>1 DEF Delivery!Deliver
      <4>3. QED
        BY <3>2, <4>2 DEF Delivery!Next
    <3>4. CASE DrainSubmitFails
      <4>1. submitted' = submitted /\ first_error' # "none"
        BY <3>4 DEF DrainSubmitFails, RecordException
      <4>2. Closing' = TRUE
        BY <4>1 DEF Closing
      <4>3. Delivery!Lose(h)
        BY <2>1, <3>2, <4>1, <4>2 DEF Delivery!Lose
      <4>4. QED
        BY <3>2, <4>3 DEF Delivery!Next
    <3>5. QED
      BY <2>4, <3>3, <3>4
  <2>5. QED
    BY <1>5, <2>3, <2>4
<1>6. CASE IdlePop
  <2>1. /\ Queued = {Head(share_queue)} \cup Queued'
        /\ Held = {} /\ Held' = {Head(share_queue)}
        /\ UNCHANGED <<work_generation, submitted>>
    BY <1>6, TailElements DEF IdlePop, Queued, Held, TypeInv, TypeOK, historyVars
  <2>2. OpenShares' = OpenShares
    BY <2>1 DEF OpenShares, IsCurrent
  <2>3. QED
    BY <1>0, <2>1, <2>2, DeliveryQuiet
<1>7. CASE IdleRequeue
  <2>1. /\ Held = {queued} /\ Held' = {} /\ queued \in Share
        /\ UNCHANGED <<work_generation, submitted>>
    <3>1. cpc = "hold" /\ cpc' = "loop"
          /\ UNCHANGED <<work_generation, submitted>>
      BY <1>7 DEF IdleRequeue
    <3>2. QED
      BY <3>1 DEF Held, TypeInv, FlowInv
  <2>2. CASE ~stop_control
    <3>1. share_queue' = Append(share_queue, queued) /\ share_queue \in Seq(Share)
      BY <1>7, <2>2 DEF IdleRequeue, TypeInv, TypeOK
    <3>2. Queued' = Queued \cup {queued}
      BY <2>1, <3>1, AppendElements DEF Queued
    <3>3. OpenShares' = OpenShares
      BY <2>1, <3>2 DEF OpenShares, IsCurrent
    <3>4. QED
      BY <1>0, <2>1, <3>3, DeliveryQuiet
  <2>3. CASE stop_control
    <3>1. share_queue' = share_queue
      BY <1>7, <2>3 DEF IdleRequeue
    <3>2. Closing' = TRUE
      BY <2>3, ClosingStays DEF Closing
    <3>3. CASE IsCurrent(queued)
      <4>1. queued \notin Queued
        BY <2>1, <3>3 DEF UniquenessInv, CurrentSharesUnique
      <4>2. queued \in OpenShares /\ OpenShares' = OpenShares \ {queued}
        BY <2>1, <3>1, <3>3, <4>1 DEF OpenShares, Queued, IsCurrent
      <4>3. Delivery!Lose(queued)
        BY <2>1, <3>2, <4>2 DEF Delivery!Lose
      <4>4. QED
        BY <4>2, <4>3 DEF Delivery!Next
    <3>4. CASE ~IsCurrent(queued)
      <4>1. OpenShares' = OpenShares
        BY <2>1, <3>1, <3>4 DEF OpenShares, Queued, IsCurrent
      <4>2. QED
        BY <1>0, <2>1, <4>1, DeliveryQuiet
    <3>5. QED
      BY <3>3, <3>4
  <2>4. QED
    BY <2>2, <2>3
<1>8. CASE WorkerPush
  <2>1. Candidate \in Share
    BY <1>8, ChunkEndRange, BoundsAssumption
       DEF WorkerPush, Candidate, TypeInv, TypeOK, FlowInv, IsPublication, Work, Share
  <2>2. /\ Queued' = Queued \cup {Candidate} /\ Held' = Held
        /\ UNCHANGED <<work_generation, submitted>>
    BY <1>8, <2>1, AppendElements
       DEF WorkerPush, Queued, Held, TypeInv, TypeOK, historyVars, controlVars
  <2>3. CASE ~IsCurrent(Candidate)
    <3>1. OpenShares' = OpenShares
      BY <2>2, <2>3 DEF OpenShares, IsCurrent
    <3>2. QED
      BY <1>0, <2>2, <3>1, DeliveryQuiet
  <2>4. CASE IsCurrent(Candidate)
    <3>1. OpenShares' = OpenShares \cup {Candidate}
      BY <2>2, <2>4 DEF OpenShares, IsCurrent
    <3>2. Candidate \notin Pipeline
      BY <1>8, <2>4, CandidateIsNew DEF WorkerPush
    <3>3. Candidate \notin OpenShares \cup Delivery!Delivered
      BY <3>2 DEF Pipeline, OpenShares, Submitted, ToSet, Delivery!Delivered
    <3>4. Closing' = Closing
      BY <1>8 DEF WorkerPush, mainVars, Closing
    <3>5. Delivery!Find(Candidate)
      BY <2>2, <2>4, <3>1, <3>3, <3>4 DEF Delivery!Find, IsCurrent
    <3>6. QED
      BY <2>1, <3>5 DEF Delivery!Next
  <2>5. QED
    BY <2>3, <2>4
<1>9. QED
  BY <1>1, <1>2, <1>3, <1>4, <1>5, <1>6, <1>7, <1>8 DEF Next, Control, Terminated

(* The two mining threads deliver shares as ShareDelivery promises: each   *)
(* at most once, under its own generation only, and none lost while the    *)
(* program is not closing down (main.cpp 356-529, 753-944).                *)
THEOREM ImplementsDelivery == Spec => DeliverySpec
<1>1. TypeInv /\ UniquenessInv /\ [Next]_vars => [Delivery!Next]_(Delivery!vars)
  BY DeliveryStep
<1>2. QED
  BY DeliveryInit, TypeCorrect, CandidatesUnique, <1>1, PTL
     DEF Spec, DeliverySpec, Delivery!Spec

-----------------------------------------------------------------------------
(* The composition. *)

HIDE DEF Extranonce2s, Nonces, Generations, ControlPCs, WorkerPCs

(* The theorems about the client, for the client of the composition. *)
CP == INSTANCE StratumClientProofs

-----------------------------------------------------------------------------
(* The client of Mining is the one the theorems are about. *)

(* The JSON of a line. *)
LEMMA SameJson ==
  \A line : Client!Json(line) = CP!Json(line)
BY DEF Client!Json, Client!JobJson, Client!MethodJson, Client!ResponseJson,
       Client!Object, Client!Array, Client!String, Client!Double, Client!Bool,
       Client!Null, Client!Int64, Client!WideId, Client!FirstSubmitId, CP!Json,
       CP!JobJson, CP!MethodJson, CP!ResponseJson, CP!Object, CP!Array,
       CP!String, CP!Double, CP!Bool, CP!Null, CP!Int64, CP!WideId,
       CP!FirstSubmitId

(* A response's parser. *)
LEMMA SameId ==
  \A obj : Client!parse_message_id(obj) = CP!parse_message_id(obj)
BY DEF Client!parse_message_id, Client!HasA, Client!Has, Client!nullopt,
       CP!parse_message_id, CP!HasA, CP!Has, CP!nullopt

(* The parser of methods. *)
LEMMA SameMethod ==
  \A obj : Client!parse_method_message(obj) = CP!parse_method_message(obj)
BY DEF Client!parse_method_message, Client!parse_set_difficulty,
       Client!parse_notify, Client!HasParams, Client!IsNumber, Client!IsNotify,
       Client!IsString, Client!UnknownMessage, Client!nullopt, Client!HasA,
       Client!Has, CP!parse_method_message, CP!parse_set_difficulty,
       CP!parse_notify, CP!HasParams, CP!IsNumber, CP!IsNotify, CP!IsString,
       CP!UnknownMessage, CP!nullopt, CP!HasA, CP!Has

(* The parsers of responses. *)
LEMMA SameResponses ==
  \A obj :
    /\ Client!parse_subscribe_response(obj) = CP!parse_subscribe_response(obj)
    /\ Client!parse_submit_response(obj) = CP!parse_submit_response(obj)
    /\ Client!parse_authorize_response(obj) = CP!parse_authorize_response(obj)
BY DEF Client!parse_subscribe_response, Client!parse_submit_response,
       Client!parse_authorize_response, Client!IsSubscription, Client!IsString,
       Client!parse_message_id, Client!nullopt, Client!HasA, Client!Has,
       CP!parse_subscribe_response, CP!parse_submit_response,
       CP!parse_authorize_response, CP!IsSubscription, CP!IsString,
       CP!parse_message_id, CP!nullopt, CP!HasA, CP!Has

(* The message of a value. *)
LEMMA SameMessage ==
  \A value : Client!parse_incoming_message(value) = CP!parse_incoming_message(value)
BY SameMethod, SameResponses, Zenon
   DEF Client!parse_incoming_message, Client!Otherwise, Client!UnknownMessage,
       Client!nullopt, CP!parse_incoming_message, CP!Otherwise,
       CP!UnknownMessage, CP!nullopt

(* The message of the line that is consumed. *)
LEMMA SameReceived ==
  Client!Received = CP!Received
BY SameJson, SameMessage, Zenon
   DEF Client!Received, Client!FirstLine, Client!FirstNewline, CP!Received,
       CP!FirstLine, CP!FirstNewline

(* What is made of a message. *)
LEMMA SameUse ==
  \A parsed :
    /\ Client!Apply(parsed) <=> CP!Apply(parsed)
    /\ Client!Answers(parsed) <=> CP!Answers(parsed)
    /\ Client!Invalidates(parsed) <=> CP!Invalidates(parsed)
BY DEF Client!Apply, Client!Answers, Client!Invalidates, Client!Is,
       Client!MessageOf, Client!submit_id, CP!Apply, CP!Answers, CP!Invalidates,
       CP!Is, CP!MessageOf, CP!submit_id

(* The consumed line. *)
LEMMA SameConsume ==
  Client!ConsumeLine <=> CP!ConsumeLine
BY DEF Client!ConsumeLine, Client!HasLine, Client!FirstNewline,
       Client!connectionVars, CP!ConsumeLine, CP!HasLine, CP!FirstNewline,
       CP!connectionVars

(* The steps that consume a line. *)
LEMMA SameLines ==
  /\ Client!StartupLine <=> CP!StartupLine
  /\ Client!PollLine <=> CP!PollLine
  /\ Client!SubmitLineOther <=> CP!SubmitLineOther
  /\ Client!SubmitLineAnswer <=> CP!SubmitLineAnswer
BY SameReceived, SameUse, SameConsume, Zenon
   DEF Client!StartupLine, Client!PollLine, Client!SubmitLineOther,
       Client!SubmitLineAnswer, Client!workVars, Client!submit_id,
       Client!nullopt, Client!MessageOf, CP!StartupLine, CP!PollLine,
       CP!SubmitLineOther, CP!SubmitLineAnswer, CP!workVars, CP!submit_id,
       CP!nullopt, CP!MessageOf

(* The steps that write. *)
LEMMA SameWrites ==
  /\ Client!Handshake <=> CP!Handshake
  /\ Client!SubmitShare <=> CP!SubmitShare
BY DEF Client!Handshake, Client!SubmitShare, Client!workVars,
       Client!historyVars, Client!Send, Client!SubscribeRequest,
       Client!SuggestDifficultyRequest, Client!AuthorizeRequest,
       Client!SubmitShareRequest, Client!Request, Client!Object, Client!Int64,
       Client!String, Client!Array, Client!Double, Client!Share,
       Client!FirstSubmitId, CP!Handshake, CP!SubmitShare, CP!workVars,
       CP!historyVars, CP!Send, CP!SubscribeRequest,
       CP!SuggestDifficultyRequest, CP!AuthorizeRequest, CP!SubmitShareRequest,
       CP!Request, CP!Object, CP!Int64, CP!String, CP!Array, CP!Double,
       CP!Share, CP!FirstSubmitId

(* The other steps of a call. *)
LEMMA SameCalls ==
  /\ Client!SendFails <=> CP!SendFails
  /\ Client!PollNothing <=> CP!PollNothing
  /\ Client!Poll <=> CP!Poll
  /\ Client!ReadSome <=> CP!ReadSome
  /\ Client!ReadEof <=> CP!ReadEof
BY DEF Client!SendFails, Client!PollNothing, Client!Poll, Client!ReadSome,
       Client!ReadEof, Client!Reading, Client!HasLine, Client!FirstSubmitId,
       Client!connectionVars, Client!workVars, Client!historyVars, CP!SendFails,
       CP!PollNothing, CP!Poll, CP!ReadSome, CP!ReadEof, CP!Reading, CP!HasLine,
       CP!FirstSubmitId, CP!connectionVars, CP!workVars, CP!historyVars

(* The client counts as everyone does. *)
LEMMA SameCardinality ==
  \A S : Client!Cardinality(S) = Cardinality(S) /\ CP!Cardinality(S) = Cardinality(S)
BY DEF Cardinality, Client!Cardinality, CP!Cardinality

(* Unsolicited lines. *)
LEMMA SamePush ==
  Client!PoolPush <=> CP!PoolPush
BY SameCardinality, Zenon
   DEF Client!PoolPush, Client!Pushes, Client!Notify, Client!SetDifficulty,
       Client!NoiseLine, Client!Line, Client!PoolWrites, Client!OnTheWire,
       Client!clientVars, Client!workVars, Client!historyVars, CP!PoolPush,
       CP!Pushes, CP!Notify, CP!SetDifficulty, CP!NoiseLine, CP!Line,
       CP!PoolWrites, CP!OnTheWire, CP!clientVars, CP!workVars, CP!historyVars

(* Answers. *)
LEMMA SameAnswer ==
  /\ Client!PoolAnswer <=> CP!PoolAnswer
  /\ Client!PoolClose <=> CP!PoolClose
BY DEF Client!PoolAnswer, Client!PoolClose, Client!ResultsFor, Client!Response,
       Client!Line, Client!IdOf, Client!PoolWrites, Client!OnTheWire,
       Client!clientVars, Client!workVars, Client!historyVars, CP!PoolAnswer,
       CP!PoolClose, CP!ResultsFor, CP!Response, CP!Line, CP!IdOf,
       CP!PoolWrites, CP!OnTheWire, CP!clientVars, CP!workVars, CP!historyVars

(* The first state. *)
LEMMA SameInit ==
  Client!Init <=> CP!Init
BY DEF Client!Init, CP!Init

-----------------------------------------------------------------------------
(* The client's theorems hold in the composition. *)

(* What the client asks of its constants. *)
LEMMA ClientAssumed ==
  /\ NoJob \notin Jobs
  /\ InitialDifficulty \in Difficulties
  /\ PiecesPerLine \in Nat \ {0}
  /\ MaxSubmits \in Nat
  /\ MaxPushes \in Nat
  /\ IntMax \in Nat
  /\ IntMax >= 4 + MaxSubmits
  /\ Noise \subseteq {"text", "short_notify", "wide_id"}
BY MiningAssumption, JobsAssumption, DifficultiesAssumption

(* Steps without the client leave its variables alone. *)
LEMMA WithoutClient ==
  ASSUME Stores \/ ControlAlone \/ WorkerThread \/ MainThread \/ UNCHANGED miningVars
  PROVE  UNCHANGED <<clientOnly, clientVars>>
<1>1. CASE Stores \/ ControlAlone
  BY <1>1 DEF Stores, ControlAlone, PublishFails, PublishGeneration, PublishStore,
              ControlLoop, DrainEmpty, DrainStale, IdleTimeout, IdlePop, IdleRequeue
<1>2. CASE WorkerThread
  BY <1>2 DEF WorkerThread, Worker, WorkerWait, WorkerNothingPublished, WorkerAdopt,
              WorkerChunk, WorkerScan, WorkerStale, WorkerMiss, WorkerFind, WorkerPush,
              WorkerNextChunk, WorkerExhausted, workerOnly, controlVars
<1>3. CASE MainThread
  BY <1>3 DEF MainThread, FatalError, StopWorker, Interrupt, mainOnly, controlVars
<1>4. CASE UNCHANGED miningVars
  BY <1>4 DEF miningVars, vars, controlVars
<1>5. QED
  BY <1>1, <1>2, <1>3, <1>4

(* Every step of the miner is one of its client, or none. *)
LEMMA ClientSteps ==
  ASSUME [MiningNext]_miningVars
  PROVE  [CP!Next]_(CP!vars)
<1>1. CASE Stores \/ ControlAlone \/ WorkerThread \/ MainThread \/ UNCHANGED miningVars
  BY <1>1, WithoutClient
     DEF clientOnly, clientVars, CP!vars, CP!connectionVars, CP!clientVars,
         CP!workVars, CP!historyVars
<1>2. CASE Connect \/ BecomeReady \/ Read \/ PollsNothing \/ PollsLine
  <2>1. \/ CP!Handshake \/ CP!StartupLine \/ CP!ReadSome \/ CP!Poll
        \/ CP!PollNothing \/ CP!PollLine
    BY <1>2, SameWrites, SameLines, SameCalls, Zenon
       DEF Connect, BecomeReady, Read, PollsNothing, PollsLine
  <2>2. QED
    BY <2>1 DEF CP!Next, CP!Client
<1>3. CASE Submits \/ SubmitFails \/ ReadsOther \/ ReadsAnswer \/ ClientThrows
  <2>1. \/ CP!SubmitShare \/ CP!SendFails \/ CP!SubmitLineOther
        \/ CP!SubmitLineAnswer \/ CP!ReadEof
    BY <1>3, SameWrites, SameLines, SameCalls, Zenon
       DEF Submits, SubmitFails, ReadsOther, ReadsAnswer, ClientThrows
  <2>2. QED
    BY <2>1 DEF CP!Next, CP!Client
<1>4. CASE Pushes \/ Answers \/ Closes
  <2>1. CP!PoolPush \/ CP!PoolAnswer \/ CP!PoolClose
    BY <1>4, SamePush, SameAnswer, Zenon DEF Pushes, Answers, Closes
  <2>2. QED
    BY <2>1 DEF CP!Next, CP!Pool
<1>5. QED
  BY <1>1, <1>2, <1>3, <1>4 DEF MiningNext, ControlThread

(* The miner's client behaves as StratumClient has it. *)
THEOREM ImplementsClient == MiningSpec => CP!Spec
<1>1. MiningInit => CP!Init
  BY SameInit DEF MiningInit
<1>2. [MiningNext]_miningVars => [CP!Next]_(CP!vars)
  BY ClientSteps
<1>3. QED
  BY <1>1, <1>2, PTL DEF MiningSpec, CP!Spec

(* So it has its invariants. *)
LEMMA ClientInvariants == MiningSpec => [](CP!ClientInv /\ CP!AnsweredOnce)
<1>1. CP!Spec => []CP!ClientInv
  BY CP!ClientCorrect, ClientAssumed
<1>2. CP!Spec => []CP!AnsweredOnce
  BY CP!AnswersAreUnique, ClientAssumed
<1>3. QED
  BY <1>1, <1>2, ImplementsClient, PTL

-----------------------------------------------------------------------------
(* The control thread and its client are at the same point. *)

(* The control thread waits for run_until_ready and for submit_share where *)
(* they read, calls poll in its place, and does not survive the client.    *)
CallsFit ==
  /\ cpc = "startup" <=> call \in {"subscribe", "suggest_difficulty", "authorize",
                                   "run_until_ready"}
  /\ cpc = "await" <=> call = "submit_share"
  /\ call = "poll" => cpc = "poll"
  /\ call = "failed" => cpc = "exited"
  /\ cpc = "exited" => call \in {"none", "failed"}

(* What the pool does leaves the pipeline and the call alone. *)
LEMMA PoolAside ==
  ASSUME Pushes \/ Answers \/ Closes
  PROVE  /\ UNCHANGED <<vars, call, next_id, consumed, verdicts, swallowed>>
         /\ cpc # "exited"
<1>1. UNCHANGED <<pipelineOnly, swallowed>> /\ cpc # "exited"
  BY DEF Pushes, Answers, Closes, PoolOnly
<1>2. UNCHANGED <<call, next_id, subscribed, current_job, difficulty, consumed, verdicts>>
  <2>1. CASE Pushes
    <3>1. PICK line \in Client!Pushes : Client!PoolWrites(line)
      BY <2>1 DEF Pushes, Client!PoolPush
    <3>2. QED
      BY <3>1 DEF Client!PoolWrites, Client!clientVars, Client!workVars
  <2>2. CASE Answers
    <3>1. PICK line : Client!PoolWrites(line)
      BY <2>2, Zenon DEF Answers, Client!PoolAnswer
    <3>2. QED
      BY <3>1 DEF Client!PoolWrites, Client!clientVars, Client!workVars
  <2>3. CASE Closes
    BY <2>3 DEF Closes, Client!PoolClose, Client!clientVars, Client!workVars,
                Client!historyVars
  <2>4. QED
    BY <2>1, <2>2, <2>3
<1>3. QED
  BY <1>1, <1>2 DEF pipelineOnly, vars, controlVars, clientVars

(* The thread's steps between two calls. *)
LEMMA AloneSteps ==
  ASSUME Stores \/ ControlAlone
  PROVE  \/ cpc = "publish" /\ cpc' \in {"exited", "store"}
         \/ cpc = "store" /\ cpc' = "loop"
         \/ cpc = "loop" /\ cpc' \in {"exited", "drain"}
         \/ cpc = "drain" /\ cpc' \in {"drain", "poll"}
         \/ cpc = "idle" /\ cpc' \in {"loop", "hold"}
         \/ cpc = "hold" /\ cpc' = "loop"
BY DEF Stores, ControlAlone, PublishFails, PublishGeneration, PublishStore,
       ControlLoop, DrainEmpty, DrainStale, IdleTimeout, IdlePop, IdleRequeue,
       ControlExits

(* The worker and the main thread do not move the control thread. *)
LEMMA ElsewhereSteps ==
  ASSUME WorkerThread \/ MainThread \/ UNCHANGED miningVars
  PROVE  UNCHANGED <<cpc, clientOnly, clientVars, work_generation, published, submitted,
                     shares_accepted, shares_rejected, swallowed>>
<1>1. UNCHANGED <<clientOnly, clientVars>>
  BY WithoutClient
<1>2. CASE WorkerThread
  BY <1>1, <1>2
     DEF WorkerThread, Worker, WorkerWait, WorkerNothingPublished, WorkerAdopt,
         WorkerChunk, WorkerScan, WorkerStale, WorkerMiss, WorkerFind, WorkerPush,
         WorkerNextChunk, WorkerExhausted, workerOnly, controlVars, sharedVars,
         historyVars, counterVars
<1>3. CASE MainThread
  BY <1>1, <1>3 DEF MainThread, FatalError, StopWorker, Interrupt, mainOnly,
                    controlVars, sharedVars, historyVars, counterVars
<1>4. CASE UNCHANGED miningVars
  BY <1>1, <1>4 DEF miningVars, vars, controlVars, sharedVars, historyVars, counterVars
<1>5. QED
  BY <1>2, <1>3, <1>4

(* A step of the miner keeps the thread and its client together. *)
LEMMA CallsFitStep ==
  ASSUME CP!ClientInv, CallsFit, [MiningNext]_miningVars
  PROVE  CallsFit'
<1>1. CASE Stores \/ ControlAlone
  <2>1. UNCHANGED call
    BY <1>1, WithoutClient DEF clientOnly
  <2>2. call \in CP!Calls
    BY DEF CP!ClientInv, CP!TypeInv, CP!TypeOK
  <2>3. QED
    BY <1>1, <2>1, <2>2, AloneSteps DEF CallsFit, CP!Calls
<1>2. CASE WorkerThread \/ MainThread \/ UNCHANGED miningVars
  BY <1>2, ElsewhereSteps DEF CallsFit, clientOnly
<1>3. CASE Pushes \/ Answers \/ Closes
  BY <1>3, PoolAside DEF CallsFit, vars, controlVars
<1>4. CASE Connect
  BY <1>4 DEF Connect, Client!Handshake, CallsFit, pipelineOnly
<1>5. CASE BecomeReady
  <2>1. CP!StartupLine /\ cpc' = IF call' = "none" THEN "publish" ELSE cpc
    BY <1>5, SameLines, Zenon DEF BecomeReady
  <2>2. call = "run_until_ready" /\ call' \in {"none", call}
    BY <2>1, CP!StartupTakes, ClientAssumed
  <2>3. QED
    BY <2>1, <2>2 DEF CallsFit
<1>6. CASE Read
  BY <1>6 DEF Read, Client!ReadSome, Client!Poll, CallsFit, pipelineOnly
<1>7. CASE PollsNothing
  BY <1>7 DEF PollsNothing, Client!PollNothing, AfterPoll, CallsFit
<1>8. CASE PollsLine
  <2>1. CP!PollLine /\ cpc' \in {"publish", "loop", "idle"}
    BY <1>8, SameLines DEF PollsLine, AfterPoll
  <2>2. call = "poll" /\ call' = "none"
    BY <2>1, CP!PollTakes, ClientAssumed
  <2>3. QED
    BY <2>1, <2>2 DEF CallsFit
<1>9. CASE Submits
  BY <1>9 DEF Submits, DrainSubmit, Client!SubmitShare, CallsFit
<1>10. CASE SubmitFails \/ ClientThrows
  BY <1>10 DEF SubmitFails, DrainSubmitFails, ClientThrows, ControlExits,
               Client!SendFails, Client!ReadEof, CallsFit
<1>11. CASE ReadsOther
  <2>1. CP!SubmitLineOther /\ cpc' = cpc
    BY <1>11, SameLines DEF ReadsOther, pipelineOnly
  <2>2. call' = call
    BY <2>1, CP!OtherTakes, ClientAssumed
  <2>3. QED
    BY <2>1, <2>2 DEF CallsFit
<1>12. CASE ReadsAnswer
  BY <1>12 DEF ReadsAnswer, Client!SubmitLineAnswer, CallsFit
<1>13. QED
  BY <1>1, <1>2, <1>3, <1>4, <1>5, <1>6, <1>7, <1>8, <1>9, <1>10, <1>11, <1>12
     DEF MiningNext, ControlThread

-----------------------------------------------------------------------------
(* Every publication is of a line that the pool pushed. *)

(* The lines with a null id, and those of them the client has consumed. *)
Unsolicited == {i \in DOMAIN sent : sent[i].id = 0}
UnsolicitedRead == {i \in 1 .. consumed : sent[i].id = 0}

(* What is published or about to be. *)
Publications == work_generation + (IF cpc = "publish" THEN 1 ELSE 0)

(* The pool pushes no more lines than it may, and the miner publishes no   *)
(* more often than it reads one of them.                                   *)
LinesPublished ==
  /\ work_generation \in Nat
  /\ cpc = "startup" => work_generation = 0
  /\ Cardinality(Unsolicited) <= MaxPushes
  /\ Publications <= Cardinality(UnsolicitedRead)

(* Messages of a method are unsolicited. *)
LEMMA MethodIds ==
  ASSUME NEW line \in CP!Lines, line.method \in {"mining.notify", "mining.set_difficulty"}
  PROVE  line.id = 0
BY DEF CP!Lines, CP!Pushes, CP!Responses, CP!Notify, CP!SetDifficulty, CP!NoiseLine,
       CP!Response, CP!Line

(* Sets of indices are finite. *)
LEMMA IndexSets ==
  ASSUME NEW n \in Nat, NEW S, S \subseteq 1 .. n
  PROVE  IsFiniteSet(S) /\ Cardinality(S) \in Nat
<1>1. IsFiniteSet(1 .. n)
  BY FS_Interval
<1>2. IsFiniteSet(S)
  BY <1>1, FS_Subset, Zenon
<1>3. QED
  BY <1>2, FS_CardinalityType

(* A new element counts one. *)
LEMMA OneMoreIn ==
  ASSUME NEW S, IsFiniteSet(S), NEW x, x \notin S, NEW T, T = S \cup {x}
  PROVE  Cardinality(T) = Cardinality(S) + 1
BY FS_AddElement, Zenon

(* The lines and their indices. *)
LEMMA SentIs ==
  ASSUME CP!TypeOK
  PROVE  /\ Len(sent) \in Nat /\ DOMAIN sent = 1 .. Len(sent)
         /\ consumed \in 0 .. Len(sent)
         /\ \A i \in 1 .. Len(sent) : sent[i] \in CP!Lines
<1>1. sent \in Seq(CP!Lines) /\ consumed \in 0 .. Len(sent)
  BY DEF CP!TypeOK
<1>2. QED
  BY <1>1

(* The sets of lines, and the lines consumed are among those sent. *)
LEMMA UnsolicitedIs ==
  ASSUME CP!TypeOK
  PROVE  /\ IsFiniteSet(Unsolicited) /\ IsFiniteSet(UnsolicitedRead)
         /\ Cardinality(Unsolicited) \in Nat /\ Cardinality(UnsolicitedRead) \in Nat
         /\ UnsolicitedRead \subseteq Unsolicited
         /\ Cardinality(UnsolicitedRead) <= Cardinality(Unsolicited)
<1>1. /\ Len(sent) \in Nat /\ DOMAIN sent = 1 .. Len(sent)
      /\ consumed \in 0 .. Len(sent)
  BY SentIs
<1>2. UnsolicitedRead \subseteq Unsolicited /\ Unsolicited \subseteq 1 .. Len(sent)
  BY <1>1 DEF Unsolicited, UnsolicitedRead
<1>3. /\ IsFiniteSet(Unsolicited) /\ IsFiniteSet(UnsolicitedRead)
      /\ Cardinality(Unsolicited) \in Nat /\ Cardinality(UnsolicitedRead) \in Nat
  BY <1>1, <1>2, IndexSets
<1>4. Cardinality(UnsolicitedRead) <= Cardinality(Unsolicited)
  BY <1>2, <1>3, FS_Subset
<1>5. QED
  BY <1>2, <1>3, <1>4

(* A line of the pool is counted if its id is null ... *)
LEMMA UnsolicitedGrows ==
  ASSUME CP!TypeOK, NEW line \in CP!Lines, sent' = Append(sent, line), consumed' = consumed
  PROVE  /\ line.id = 0 => Cardinality(Unsolicited') = Cardinality(Unsolicited) + 1
         /\ line.id # 0 => Cardinality(Unsolicited') = Cardinality(Unsolicited)
         /\ Cardinality(UnsolicitedRead') = Cardinality(UnsolicitedRead)
<1>1. /\ Len(sent) \in Nat /\ DOMAIN sent = 1 .. Len(sent)
      /\ consumed \in 0 .. Len(sent)
  BY SentIs
<1>2. /\ DOMAIN sent' = 1 .. Len(sent) + 1
      /\ sent'[Len(sent) + 1] = line
      /\ \A i \in 1 .. Len(sent) : sent'[i] = sent[i]
  BY <1>1, CP!OneMore, ClientAssumed
<1>3. UnsolicitedRead' = UnsolicitedRead
  BY <1>1, <1>2 DEF UnsolicitedRead
<1>4. IsFiniteSet(Unsolicited) /\ Len(sent) + 1 \notin Unsolicited
  BY <1>1, UnsolicitedIs DEF Unsolicited
<1>5. CASE line.id = 0
  <2>1. Unsolicited' = Unsolicited \cup {Len(sent) + 1}
    BY <1>1, <1>2, <1>5 DEF Unsolicited
  <2>2. QED
    BY <1>3, <1>4, <1>5, <2>1, OneMoreIn
<1>6. CASE line.id # 0
  <2>1. Unsolicited' = Unsolicited
    BY <1>1, <1>2, <1>6 DEF Unsolicited
  <2>2. QED
    BY <1>3, <1>6, <2>1
<1>7. QED
  BY <1>5, <1>6

(* ... and once more when it is consumed. *)
LEMMA UnsolicitedTaken ==
  ASSUME CP!TypeOK, CP!TakesLine
  PROVE  /\ Cardinality(Unsolicited') = Cardinality(Unsolicited)
         /\ Cardinality(UnsolicitedRead') =
              Cardinality(UnsolicitedRead) + (IF sent[consumed + 1].id = 0 THEN 1 ELSE 0)
<1>1. consumed' = consumed + 1 /\ sent' = sent
  BY DEF CP!TakesLine
<1>2. consumed \in Nat
  BY SentIs
<1>3. IsFiniteSet(UnsolicitedRead) /\ consumed + 1 \notin UnsolicitedRead
  BY <1>2, UnsolicitedIs DEF UnsolicitedRead
<1>4. Unsolicited' = Unsolicited
  BY <1>1 DEF Unsolicited
<1>5. CASE sent[consumed + 1].id = 0
  <2>1. UnsolicitedRead' = UnsolicitedRead \cup {consumed + 1}
    BY <1>1, <1>2, <1>5 DEF UnsolicitedRead
  <2>2. Cardinality(UnsolicitedRead') = Cardinality(UnsolicitedRead) + 1
    BY <1>3, <2>1, OneMoreIn
  <2>3. QED
    BY <1>4, <1>5, <2>2
<1>6. CASE sent[consumed + 1].id # 0
  <2>1. UnsolicitedRead' = UnsolicitedRead
    BY <1>1, <1>2, <1>6 DEF UnsolicitedRead
  <2>2. Cardinality(UnsolicitedRead) \in Nat
    BY UnsolicitedIs
  <2>3. QED
    BY <1>4, <1>6, <2>1, <2>2
<1>7. QED
  BY <1>5, <1>6

(* A step that consumes no line and publishes nothing. *)
LEMMA LinesStay ==
  ASSUME CP!TypeOK, LinesPublished, UNCHANGED <<sent, consumed>>,
         work_generation' = work_generation,
         cpc' \in {"startup", "publish"} => cpc' = cpc
  PROVE  LinesPublished'
<1>1. Unsolicited' = Unsolicited /\ UnsolicitedRead' = UnsolicitedRead
  BY DEF Unsolicited, UnsolicitedRead
<1>2. work_generation \in Nat
  BY DEF LinesPublished
<1>3. Publications' <= Publications /\ Publications \in Nat /\ Publications' \in Nat
  BY <1>2 DEF Publications
<1>4. Cardinality(UnsolicitedRead) \in Nat
  BY UnsolicitedIs
<1>5. QED
  BY <1>1, <1>2, <1>3, <1>4 DEF LinesPublished

(* A line is consumed, and published if it is new work. *)
LEMMA LinesTaken ==
  ASSUME CP!TypeOK, LinesPublished, CP!TakesLine,
         work_generation' = work_generation,
         \/ cpc' \notin {"startup", "publish"}
         \/ cpc' = cpc
         \/ cpc # "publish" /\ cpc' = "publish" /\ sent[consumed + 1].id = 0
  PROVE  LinesPublished'
<1>1. /\ Cardinality(Unsolicited') = Cardinality(Unsolicited)
      /\ Cardinality(UnsolicitedRead') =
           Cardinality(UnsolicitedRead) + (IF sent[consumed + 1].id = 0 THEN 1 ELSE 0)
  BY UnsolicitedTaken
<1>2. Cardinality(UnsolicitedRead) \in Nat
  BY UnsolicitedIs
<1>3. work_generation \in Nat /\ Publications <= Cardinality(UnsolicitedRead)
  BY DEF LinesPublished
<1>4. Publications' <= Cardinality(UnsolicitedRead')
  BY <1>1, <1>2, <1>3 DEF Publications
<1>5. QED
  BY <1>1, <1>4 DEF LinesPublished

(* With a job, a line with a job has been consumed. *)
LEMMA JobIsRead ==
  ASSUME CP!ClientInv, current_job # NoJob
  PROVE  Cardinality(UnsolicitedRead) >= 1
<1>1. CP!TypeOK /\ CP!WorkIsLatest
  BY DEF CP!ClientInv, CP!TypeInv
<1>2. PICK i \in 1 .. consumed : sent[i].method = "mining.notify"
  BY <1>1 DEF CP!WorkIsLatest, CP!IsLatest
<1>3. sent[i] \in CP!Lines
  BY <1>1, SentIs
<1>4. i \in UnsolicitedRead
  BY <1>2, <1>3, MethodIds DEF UnsolicitedRead
<1>5. Cardinality(UnsolicitedRead) # 0
  BY <1>1, <1>4, UnsolicitedIs, FS_EmptySet
<1>6. QED
  BY <1>1, <1>5, UnsolicitedIs

(* The lines that poll finds new work in are unsolicited. *)
LEMMA PolledWork ==
  ASSUME CP!ClientInv, CP!PollLine, poll_result' = "work_invalidated"
  PROVE  sent[consumed + 1].id = 0
<1>1. /\ CP!TakesLine /\ CP!Adopts(sent[consumed + 1])
      /\ sent[consumed + 1].method = "mining.notify" \/ difficulty' # difficulty
  BY CP!PollTakes, ClientAssumed
<1>2. sent[consumed + 1].method \in {"mining.notify", "mining.set_difficulty"}
  BY <1>1 DEF CP!Adopts
<1>3. CP!TypeOK
  BY DEF CP!ClientInv, CP!TypeInv
<1>4. sent[consumed + 1] \in CP!Lines
  BY <1>1, <1>3, SentIs DEF CP!TakesLine
<1>5. QED
  BY <1>2, <1>4, MethodIds

(* A step of the miner publishes only what was pushed. *)
LEMMA LinesPublishedStep ==
  ASSUME CP!ClientInv, CP!ClientInv', CallsFit, LinesPublished, [MiningNext]_miningVars
  PROVE  LinesPublished'
<1>0. CP!TypeOK /\ CP!TypeOK'
  BY DEF CP!ClientInv, CP!TypeInv
<1>1. CASE Stores \/ ControlAlone
  <2>1. UNCHANGED <<sent, consumed>>
    BY <1>1, WithoutClient DEF clientOnly
  <2>2. CASE PublishGeneration
    <3>1. Unsolicited' = Unsolicited /\ UnsolicitedRead' = UnsolicitedRead
      BY <2>1 DEF Unsolicited, UnsolicitedRead
    <3>2. cpc = "publish" /\ cpc' = "store" /\ work_generation' = work_generation + 1
      BY <2>2 DEF PublishGeneration
    <3>3. work_generation \in Nat
      BY DEF LinesPublished
    <3>4. Publications' = Publications
      BY <3>2, <3>3 DEF Publications
    <3>5. QED
      BY <3>1, <3>2, <3>3, <3>4 DEF LinesPublished
  <2>3. CASE ~PublishGeneration
    <3>1. work_generation' = work_generation
      BY <1>1, <2>3
         DEF Stores, ControlAlone, PublishFails, PublishStore, ControlLoop, DrainEmpty,
             DrainStale, IdleTimeout, IdlePop, IdleRequeue, controlOnly
    <3>2. cpc' \notin {"startup", "publish"}
      BY <1>1, AloneSteps
    <3>3. QED
      BY <1>0, <2>1, <3>1, <3>2, LinesStay
  <2>4. QED
    BY <2>2, <2>3
<1>2. CASE WorkerThread \/ MainThread \/ UNCHANGED miningVars
  <2>1. UNCHANGED <<sent, consumed, cpc, work_generation>>
    BY <1>2, ElsewhereSteps DEF clientOnly
  <2>2. QED
    BY <1>0, <2>1, LinesStay
<1>3. CASE Pushes \/ Answers \/ Closes
  <2>1. UNCHANGED <<cpc, work_generation, consumed>>
    BY <1>3, PoolAside DEF vars, controlVars, sharedVars
  <2>2. CASE Pushes
    <3>1. /\ CP!Cardinality(Unsolicited) < MaxPushes
          /\ \E line \in CP!Lines : line.id = 0 /\ sent' = Append(sent, line)
      BY <2>2, SamePush, CP!Pushed, ClientAssumed, Zenon DEF Pushes, Unsolicited
    <3>2. Cardinality(Unsolicited) < MaxPushes
      BY <3>1, SameCardinality, Zenon
    <3>3. PICK line \in CP!Lines : line.id = 0 /\ sent' = Append(sent, line)
      BY <3>1
    <3>4. /\ Cardinality(Unsolicited') = Cardinality(Unsolicited) + 1
          /\ Cardinality(UnsolicitedRead') = Cardinality(UnsolicitedRead)
      BY <1>0, <2>1, <3>3, UnsolicitedGrows
    <3>5. Cardinality(Unsolicited) \in Nat /\ MaxPushes \in Nat
      BY <1>0, UnsolicitedIs, ClientAssumed
    <3>6. Publications' = Publications
      BY <2>1 DEF Publications
    <3>7. QED
      BY <2>1, <3>2, <3>4, <3>5, <3>6 DEF LinesPublished
  <2>3. CASE Answers
    <3>1. CP!PoolAnswer
      BY <2>3, SameAnswer, Zenon DEF Answers
    <3>2. PICK request \in requests, line \in CP!Lines :
            line.id = CP!IdOf(request) /\ sent' = Append(sent, line)
      BY <3>1, CP!Answering, ClientAssumed, Zenon
    <3>3. CP!IdOf(request) \in CP!Ids
      BY <1>0, <3>2, CP!RequestIds, ClientAssumed
    <3>4. line.id # 0
      BY <3>2, <3>3, ClientAssumed DEF CP!Ids, CP!FirstSubmitId
    <3>5. /\ Cardinality(Unsolicited') = Cardinality(Unsolicited)
          /\ Cardinality(UnsolicitedRead') = Cardinality(UnsolicitedRead)
      BY <1>0, <2>1, <3>2, <3>4, UnsolicitedGrows
    <3>6. Publications' = Publications
      BY <2>1 DEF Publications
    <3>7. QED
      BY <2>1, <3>5, <3>6 DEF LinesPublished
  <2>4. CASE Closes
    <3>1. UNCHANGED sent
      BY <2>4 DEF Closes, Client!PoolClose, Client!historyVars
    <3>2. QED
      BY <1>0, <2>1, <3>1, LinesStay
  <2>5. QED
    BY <1>3, <2>2, <2>3, <2>4
<1>4. CASE Connect \/ Read \/ PollsNothing \/ Submits \/ SubmitFails \/ ClientThrows
  <2>1. UNCHANGED <<sent, consumed>>
    BY <1>4 DEF Connect, Read, PollsNothing, Submits, SubmitFails, ClientThrows,
                Client!Handshake, Client!ReadSome, Client!Poll, Client!PollNothing,
                Client!SubmitShare, Client!SendFails, Client!ReadEof, Client!historyVars
  <2>2. work_generation' = work_generation
    BY <1>4 DEF Connect, Read, PollsNothing, Submits, SubmitFails, ClientThrows,
                DrainSubmit, DrainSubmitFails, pipelineOnly, sharedVars, controlOnly
  <2>3. cpc' = cpc \/ cpc' \notin {"startup", "publish"}
    BY <1>4 DEF Connect, Read, PollsNothing, Submits, SubmitFails, ClientThrows,
                DrainSubmit, DrainSubmitFails, pipelineOnly, AfterPoll, ControlExits
  <2>4. QED
    BY <1>0, <2>1, <2>2, <2>3, LinesStay
<1>5. CASE BecomeReady
  <2>1. /\ CP!StartupLine
        /\ cpc' = IF call' = "none" THEN "publish" ELSE cpc
        /\ work_generation' = work_generation
    BY <1>5, SameLines, Zenon DEF BecomeReady, controlOnly
  <2>2. /\ call = "run_until_ready" /\ CP!TakesLine
        /\ call' = IF subscribed' /\ current_job' # NoJob THEN "none" ELSE call
    BY <2>1, CP!StartupTakes, ClientAssumed
  <2>3. cpc = "startup"
    BY <2>2 DEF CallsFit
  <2>4. CASE call' = "none"
    <3>1. (current_job # NoJob)'
      BY <2>2, <2>4
    <3>2. (Cardinality(UnsolicitedRead) >= 1)'
      BY <3>1, JobIsRead, PTL
    <3>3. work_generation' = 0 /\ cpc' = "publish"
      BY <2>1, <2>3, <2>4 DEF LinesPublished
    <3>4. Publications' = 1
      BY <3>3 DEF Publications
    <3>5. Cardinality(Unsolicited') = Cardinality(Unsolicited)
      BY <1>0, <2>2, UnsolicitedTaken
    <3>6. QED
      BY <3>2, <3>3, <3>4, <3>5 DEF LinesPublished
  <2>5. CASE call' # "none"
    BY <1>0, <2>1, <2>2, <2>5, LinesTaken
  <2>6. QED
    BY <2>4, <2>5
<1>6. CASE PollsLine
  <2>1. /\ CP!PollLine /\ work_generation' = work_generation
        /\ cpc' = "publish" <=> poll_result' = "work_invalidated"
        /\ cpc' # "startup"
    BY <1>6, SameLines DEF PollsLine, AfterPoll, controlOnly
  <2>2. call = "poll" /\ CP!TakesLine
    BY <2>1, CP!PollTakes, ClientAssumed
  <2>3. cpc = "poll"
    BY <2>2 DEF CallsFit
  <2>4. poll_result' = "work_invalidated" => sent[consumed + 1].id = 0
    BY <2>1, PolledWork
  <2>5. QED
    BY <1>0, <2>1, <2>2, <2>3, <2>4, LinesTaken
<1>7. CASE ReadsOther
  <2>1. CP!SubmitLineOther /\ UNCHANGED <<cpc, work_generation>>
    BY <1>7, SameLines DEF ReadsOther, pipelineOnly, sharedVars
  <2>2. CP!TakesLine
    BY <2>1, CP!OtherTakes, ClientAssumed
  <2>3. QED
    BY <1>0, <2>1, <2>2, LinesTaken
<1>8. CASE ReadsAnswer
  <2>1. CP!SubmitLineAnswer /\ cpc' = "drain" /\ work_generation' = work_generation
    BY <1>8, SameLines DEF ReadsAnswer, sharedVars
  <2>2. CP!TakesLine
    BY <2>1, CP!AnswerTakes, ClientAssumed
  <2>3. QED
    BY <1>0, <2>1, <2>2, LinesTaken
<1>9. QED
  BY <1>1, <1>2, <1>3, <1>4, <1>5, <1>6, <1>7, <1>8 DEF MiningNext, ControlThread

-----------------------------------------------------------------------------
(* The composition implements MinerPipeline. *)

(* What the pipeline's steps see of the client. *)
LEMMA ClientAside ==
  ASSUME Connect \/ Read \/ Pushes \/ Answers \/ Closes
  PROVE  UNCHANGED vars
<1>1. CASE Connect \/ Read
  BY <1>1 DEF Connect, Read, Client!Handshake, Client!ReadSome, Client!Poll,
              Client!workVars, pipelineOnly, vars, controlVars, clientVars
<1>2. CASE Pushes \/ Answers \/ Closes
  BY <1>2, PoolAside
<1>3. QED
  BY <1>1, <1>2

(* A line of run_until_ready is what StartupRead allows, or nothing. *)
LEMMA StartupRefines ==
  ASSUME CP!ClientInv, CallsFit, BecomeReady
  PROVE  StartupRead \/ UNCHANGED vars
<1>1. /\ CP!StartupLine
      /\ cpc' = IF call' = "none" THEN "publish" ELSE cpc
      /\ UNCHANGED <<controlOnly, first_error, did_work, queued, historyVars>>
  BY SameLines, Zenon DEF BecomeReady
<1>2. /\ call = "run_until_ready"
      /\ CP!Adopts(sent[consumed + 1])
      /\ call' = IF subscribed' /\ current_job' # NoJob THEN "none" ELSE call
  BY <1>1, CP!StartupTakes, ClientAssumed
<1>3. cpc = "startup"
  BY <1>2 DEF CallsFit
<1>4. cpc' = IF subscribed' /\ current_job' # NoJob THEN "publish" ELSE "startup"
  BY <1>1, <1>2, <1>3
<1>5. CASE Receive
  BY <1>1, <1>3, <1>4, <1>5, Zenon DEF StartupRead
<1>6. CASE ~Receive
  <2>1. subscribed \in BOOLEAN
    BY DEF CP!ClientInv, CP!TypeInv, CP!TypeOK
  <2>2. /\ subscribed' \in {subscribed, TRUE} /\ UNCHANGED <<current_job, difficulty>>
        /\ subscribed' # TRUE
    BY <1>2, <1>6 DEF CP!Adopts, Receive, ReceiveNotify, ReceiveDifficulty,
                      ReceiveSubscription
  <2>3. subscribed' = FALSE /\ subscribed = FALSE
    BY <2>1, <2>2
  <2>4. cpc' = cpc /\ UNCHANGED clientVars
    BY <1>3, <1>4, <2>2, <2>3 DEF clientVars
  <2>5. QED
    BY <1>1, <2>4 DEF vars, controlVars, controlOnly, sharedVars
<1>7. QED
  BY <1>5, <1>6

(* A line of poll is what one of poll's steps allows. *)
LEMMA PollRefines ==
  ASSUME CP!ClientInv, TypeInv, CallsFit, LinesPublished, PollsLine
  PROVE  PollNewWork \/ PollOther \/ PollNothing
<1>1. /\ CP!PollLine
      /\ did_work' = (did_work \/ poll_result' # "nothing")
      /\ cpc' = IF poll_result' = "work_invalidated" THEN "publish"
                ELSE IF did_work' THEN "loop" ELSE "idle"
      /\ UNCHANGED <<controlOnly, first_error, queued, historyVars>>
  BY SameLines, Zenon DEF PollsLine, AfterPoll
<1>2. /\ call = "poll" /\ CP!TakesLine
      /\ CP!Adopts(sent[consumed + 1])
      /\ \/ /\ poll_result' = "work_invalidated"
            /\ sent[consumed + 1].method = "mining.notify" \/ difficulty' # difficulty
         \/ poll_result' = "message" /\ UNCHANGED <<current_job, difficulty>>
         \/ poll_result' = "nothing" /\ UNCHANGED <<subscribed, current_job, difficulty>>
  BY <1>1, CP!PollTakes, ClientAssumed
<1>3. cpc = "poll"
  BY <1>2 DEF CallsFit
<1>4. subscribed = TRUE /\ did_work \in BOOLEAN
  BY <1>2 DEF CP!ClientInv, CP!TypeInv, CP!TypeOK, CP!ReadyInv, CP!Operating, TypeInv,
              TypeOK
<1>5. CASE poll_result' = "work_invalidated"
  <2>1. work_generation < MaxGeneration
    <3>1. CP!TypeOK
      BY DEF CP!ClientInv, CP!TypeInv
    <3>2. sent[consumed + 1].id = 0
      BY <1>1, <1>5, PolledWork
    <3>3. consumed + 1 \in 1 .. Len(sent) /\ consumed \in Nat /\ DOMAIN sent = 1 .. Len(sent)
      BY <1>2, <3>1, SentIs DEF CP!TakesLine
    <3>4. consumed + 1 \in Unsolicited /\ consumed + 1 \notin UnsolicitedRead
      BY <3>2, <3>3 DEF Unsolicited, UnsolicitedRead
    <3>5. /\ IsFiniteSet(Unsolicited) /\ UnsolicitedRead \in SUBSET Unsolicited
          /\ UnsolicitedRead # Unsolicited
          /\ Cardinality(Unsolicited) \in Nat /\ Cardinality(UnsolicitedRead) \in Nat
      BY <3>1, <3>4, UnsolicitedIs
    <3>6. Cardinality(UnsolicitedRead) < Cardinality(Unsolicited)
      BY <3>5, FS_Subset
    <3>7. /\ work_generation \in Nat /\ work_generation <= Cardinality(UnsolicitedRead)
          /\ Cardinality(Unsolicited) <= MaxPushes
      BY <1>3 DEF LinesPublished, Publications
    <3>8. MaxPushes \in Nat /\ MaxPushes <= MaxGeneration /\ MaxGeneration \in Nat
      BY MiningAssumption, BoundsAssumption
    <3>9. QED
      BY <3>5, <3>6, <3>7, <3>8
  <2>2. did_work' = TRUE /\ cpc' = "publish"
    BY <1>1, <1>5
  <2>3. \/ \E j \in Jobs : ReceiveNotify(j)
        \/ \E d \in Difficulties \ {difficulty} : ReceiveDifficulty(d)
    <3>1. sent[consumed + 1].method = "mining.notify" \/ difficulty' # difficulty
      BY <1>2, <1>5
    <3>2. \/ current_job' \in Jobs /\ UNCHANGED <<subscribed, difficulty>>
          \/ /\ difficulty' \in Difficulties \ {difficulty}
             /\ UNCHANGED <<subscribed, current_job>>
      BY <1>2, <3>1 DEF CP!Adopts
    <3>3. QED
      BY <3>2 DEF ReceiveNotify, ReceiveDifficulty
  <2>4. QED
    BY <1>1, <1>3, <2>1, <2>2, <2>3 DEF PollNewWork
<1>6. CASE poll_result' = "message"
  <2>1. did_work' = TRUE /\ cpc' = "loop"
    BY <1>1, <1>6
  <2>2. UNCHANGED <<subscribed, current_job, difficulty>>
    BY <1>2, <1>4, <1>6 DEF CP!Adopts
  <2>3. QED
    BY <1>1, <1>3, <2>1, <2>2 DEF PollOther, clientVars
<1>7. CASE poll_result' = "nothing"
  <2>1. did_work' = did_work
    BY <1>1, <1>4, <1>7
  <2>2. cpc' = IF did_work THEN "loop" ELSE "idle"
    BY <1>1, <1>7, <2>1
  <2>3. UNCHANGED <<subscribed, current_job, difficulty>>
    BY <1>2, <1>7
  <2>4. QED
    BY <1>1, <1>3, <2>1, <2>2, <2>3 DEF PollNothing, clientVars
<1>8. QED
  BY <1>2, <1>5, <1>6, <1>7

(* So are the lines that submit_share reads. *)
LEMMA AwaitRefines ==
  ASSUME CP!ClientInv, CallsFit, ReadsOther \/ ReadsAnswer
  PROVE  AwaitRead \/ AwaitAnswer
<1>1. CASE ReadsOther
  <2>1. CP!SubmitLineOther /\ UNCHANGED pipelineOnly
    BY <1>1, SameLines DEF ReadsOther
  <2>2. call = "submit_share" /\ CP!Adopts(sent[consumed + 1])
    BY <2>1, CP!OtherTakes, ClientAssumed
  <2>3. cpc = "await"
    BY <2>2 DEF CallsFit
  <2>4. subscribed = TRUE
    BY <2>2 DEF CP!ClientInv, CP!TypeInv, CP!TypeOK, CP!ReadyInv, CP!Operating
  <2>5. Receive
    BY <2>2, <2>4 DEF CP!Adopts, Receive, ReceiveNotify, ReceiveDifficulty,
                      ReceiveSubscription
  <2>6. UNCHANGED <<cpc, controlOnly, first_error, did_work, queued, historyVars>>
    BY <2>1 DEF pipelineOnly, controlOnly, sharedVars
  <2>7. QED
    BY <2>3, <2>5, <2>6 DEF AwaitRead
<1>2. CASE ReadsAnswer
  <2>1. CP!SubmitLineAnswer
    BY <1>2, SameLines DEF ReadsAnswer
  <2>2. call = "submit_share" /\ UNCHANGED <<subscribed, current_job, difficulty>>
    BY <2>1, CP!AnswerTakes, ClientAssumed
  <2>3. cpc = "await"
    BY <2>2 DEF CallsFit
  <2>4. QED
    BY <1>2, <2>2, <2>3 DEF ReadsAnswer, AwaitAnswer, clientVars
<1>3. QED
  BY <1>1, <1>2

(* Where the client throws, the pipeline's read fails. *)
LEMMA ThrowRefines ==
  ASSUME CallsFit, ClientThrows
  PROVE  ReadFails \/ AwaitFails
<1>1. cpc \in {"startup", "poll", "await"}
  BY DEF ClientThrows, Client!ReadEof, Client!Reading, CallsFit
<1>2. UNCHANGED clientVars
  BY DEF ClientThrows, Client!ReadEof, Client!SendFails, Client!workVars, clientVars
<1>3. CASE cpc = "await"
  BY <1>2, <1>3 DEF ClientThrows, AwaitFails
<1>4. CASE cpc # "await"
  BY <1>1, <1>2, <1>4 DEF ClientThrows, ReadFails, historyVars
<1>5. QED
  BY <1>3, <1>4

(* Every step of the composition is one of the pipeline, or none. *)
LEMMA PipelineStep ==
  ASSUME CP!ClientInv, TypeInv, CallsFit, LinesPublished, [MiningNext]_miningVars
  PROVE  [Next]_vars
<1>1. CASE Connect \/ Read \/ Pushes \/ Answers \/ Closes
  BY <1>1, ClientAside
<1>2. CASE BecomeReady
  BY <1>2, StartupRefines DEF Next, Control
<1>3. CASE PollsNothing
  <2>1. TypeOK /\ cpc = "poll" /\ UNCHANGED <<subscribed, current_job, difficulty>>
    BY <1>3 DEF PollsNothing, Client!PollNothing, Client!workVars, TypeInv
  <2>2. did_work' = did_work /\ cpc' = IF did_work THEN "loop" ELSE "idle"
    BY <1>3, <2>1 DEF PollsNothing, AfterPoll, TypeOK
  <2>3. PollNothing
    BY <1>3, <2>1, <2>2 DEF PollsNothing, PollNothing, clientVars
  <2>4. QED
    BY <2>3 DEF Next, Control
<1>4. CASE PollsLine
  BY <1>4, PollRefines DEF Next, Control
<1>5. CASE Submits \/ SubmitFails
  BY <1>5 DEF Submits, SubmitFails, Next, Control
<1>6. CASE ReadsOther \/ ReadsAnswer
  BY <1>6, AwaitRefines DEF Next, Control
<1>7. CASE ClientThrows
  BY <1>7, ThrowRefines DEF Next, Control
<1>8. CASE Stores \/ ControlAlone
  BY <1>8 DEF Stores, ControlAlone, Next, Control
<1>9. CASE WorkerThread \/ MainThread
  BY <1>9 DEF WorkerThread, MainThread, Next
<1>10. CASE UNCHANGED miningVars
  BY <1>10 DEF miningVars
<1>11. QED
  BY <1>1, <1>2, <1>3, <1>4, <1>5, <1>6, <1>7, <1>8, <1>9, <1>10
     DEF MiningNext, ControlThread

(* What the control thread relies on at every point of its loop. *)
ControlInv == TypeInv /\ CallsFit /\ LinesPublished

(* It holds at first ... *)
LEMMA ControlInit == MiningInit => ControlInv
<1>1. SUFFICES ASSUME MiningInit PROVE ControlInv
  OBVIOUS
<1>2. TypeInv
  BY <1>1, TypeInit DEF MiningInit
<1>3. CallsFit
  BY <1>1 DEF MiningInit, Init, Client!Init, CallsFit
<1>4. LinesPublished
  <2>1. /\ sent = <<>> /\ consumed = 0 /\ cpc = "startup" /\ work_generation = 0
    BY <1>1 DEF MiningInit, Init, Client!Init
  <2>2. Unsolicited = {} /\ UnsolicitedRead = {}
    BY <2>1 DEF Unsolicited, UnsolicitedRead
  <2>3. Cardinality({}) = 0
    BY FS_EmptySet
  <2>4. Publications = 0
    BY <2>1 DEF Publications
  <2>5. QED
    BY <2>1, <2>2, <2>3, <2>4, ClientAssumed DEF LinesPublished
<1>5. QED
  BY <1>2, <1>3, <1>4 DEF ControlInv

(* ... and every step preserves it. *)
LEMMA ControlStep ==
  ASSUME CP!ClientInv, CP!ClientInv', ControlInv, [MiningNext]_miningVars
  PROVE  ControlInv' /\ [Next]_vars
<1>1. TypeInv /\ CallsFit /\ LinesPublished
  BY DEF ControlInv
<1>2. [Next]_vars
  BY <1>1, PipelineStep
<1>3. TypeInv'
  BY <1>1, <1>2, TypeControl, TypeWorker, TypeMain DEF Next, Terminated
<1>4. CallsFit'
  BY <1>1, CallsFitStep
<1>5. LinesPublished'
  BY <1>1, LinesPublishedStep
<1>6. QED
  BY <1>2, <1>3, <1>4, <1>5 DEF ControlInv

(* The control thread calls the client only where it can be called, and no *)
(* publication is without a message of the pool (main.cpp 850-896;         *)
(* stratum_client.cpp 96-260).                                             *)
THEOREM CallsFitTheLoop == MiningSpec => []ControlInv
<1>1. CP!ClientInv /\ CP!ClientInv' /\ ControlInv /\ [MiningNext]_miningVars => ControlInv'
  BY ControlStep
<1>2. QED
  BY <1>1, ControlInit, ClientInvariants, PTL DEF MiningSpec

(* With its client in the place of its reads, the miner does nothing that  *)
(* MinerPipeline does not allow (main.cpp 850-896; stratum_client.cpp      *)
(* 113-119, 175-260).                                                      *)
THEOREM ImplementsPipeline == MiningSpec => PipelineSpec
<1>1. CP!ClientInv /\ CP!ClientInv' /\ ControlInv /\ [MiningNext]_miningVars => [Next]_vars
  BY ControlStep
<1>2. MiningInit => Init
  BY DEF MiningInit
<1>3. QED
  BY <1>1, <1>2, CallsFitTheLoop, ClientInvariants, PTL DEF MiningSpec, PipelineSpec, Spec

(* So the whole miner has the pipeline's invariants, and delivers shares as *)
(* ShareDelivery promises (main.cpp 356-529, 753-944).                     *)
THEOREM MinerDelivers == MiningSpec => []PipelineInv /\ DeliverySpec
BY ImplementsPipeline, PipelineCorrect, ImplementsDelivery, PTL DEF PipelineSpec

-----------------------------------------------------------------------------
(* Published work is the client's, or submit_share read past it. *)

(* Where the control thread has published and not polled newer work since. *)
AtLoop == cpc \in {"loop", "drain", "await", "poll", "idle", "hold"}

(* Nothing that matters to OnlySubmitsSwallow changes. *)
LEMMA SwallowKept ==
  ASSUME OnlySubmitsSwallow,
         UNCHANGED <<published, current_job, difficulty>>,
         swallowed' = swallowed,
         AtLoop' => AtLoop
  PROVE  OnlySubmitsSwallow'
BY DEF OnlySubmitsSwallow, AtLoop

(* Each step keeps the published work the client's. *)
LEMMA SwallowStep ==
  ASSUME CP!ClientInv, CallsFit, OnlySubmitsSwallow, [MiningNext]_miningVars
  PROVE  OnlySubmitsSwallow'
<1>1. CASE Stores
  BY <1>1 DEF Stores, PublishStore, clientVars, OnlySubmitsSwallow
<1>2. CASE ControlAlone
  <2>1. UNCHANGED <<published, current_job, difficulty, swallowed>>
    BY <1>2
       DEF ControlAlone, PublishFails, PublishGeneration, ControlLoop, DrainEmpty,
           DrainStale, IdleTimeout, IdlePop, IdleRequeue, controlOnly, clientVars
  <2>2. AtLoop' => AtLoop
    BY <1>2
       DEF ControlAlone, PublishFails, PublishGeneration, ControlLoop, DrainEmpty,
           DrainStale, IdleTimeout, IdlePop, IdleRequeue, ControlExits, AtLoop
  <2>3. QED
    BY <2>1, <2>2, SwallowKept
<1>3. CASE WorkerThread \/ MainThread \/ UNCHANGED miningVars
  <2>1. UNCHANGED <<cpc, published, current_job, difficulty, swallowed>>
    BY <1>3, ElsewhereSteps DEF clientVars
  <2>2. QED
    BY <2>1, SwallowKept DEF AtLoop
<1>4. CASE Connect \/ Read \/ Pushes \/ Answers \/ Closes
  <2>1. UNCHANGED <<cpc, published, current_job, difficulty>>
    BY <1>4, ClientAside DEF vars, controlVars, clientVars, sharedVars
  <2>2. swallowed' = swallowed
    BY <1>4 DEF Connect, Read, Pushes, Answers, Closes, PoolOnly
  <2>3. QED
    BY <2>1, <2>2, SwallowKept DEF AtLoop
<1>5. CASE BecomeReady
  <2>1. CP!StartupLine /\ cpc' = IF call' = "none" THEN "publish" ELSE cpc
    BY <1>5, SameLines, Zenon DEF BecomeReady
  <2>2. cpc = "startup"
    BY <2>1, CP!StartupTakes, ClientAssumed DEF CallsFit
  <2>3. QED
    BY <2>1, <2>2 DEF OnlySubmitsSwallow
<1>6. CASE PollsNothing \/ Submits
  <2>1. UNCHANGED <<published, current_job, difficulty, swallowed>>
    BY <1>6 DEF PollsNothing, Client!PollNothing, Client!workVars, controlOnly, Submits,
                DrainSubmit, clientVars
  <2>2. AtLoop
    BY <1>6 DEF PollsNothing, Submits, DrainSubmit, AtLoop
  <2>3. QED
    BY <2>1, <2>2, SwallowKept
<1>7. CASE PollsLine
  <2>1. /\ CP!PollLine
        /\ cpc' = IF poll_result' = "work_invalidated" THEN "publish"
                  ELSE IF did_work' THEN "loop" ELSE "idle"
        /\ UNCHANGED <<published, swallowed>>
    BY <1>7, SameLines DEF PollsLine, AfterPoll, controlOnly
  <2>2. /\ call = "poll"
        /\ \/ poll_result' = "work_invalidated"
           \/ UNCHANGED <<current_job, difficulty>>
    BY <2>1, CP!PollTakes, ClientAssumed
  <2>3. CASE poll_result' = "work_invalidated"
    BY <2>1, <2>3 DEF OnlySubmitsSwallow
  <2>4. CASE UNCHANGED <<current_job, difficulty>>
    BY <2>1, <2>2, <2>4, SwallowKept DEF CallsFit, AtLoop
  <2>5. QED
    BY <2>2, <2>3, <2>4
<1>8. CASE SubmitFails \/ ClientThrows
  BY <1>8 DEF SubmitFails, DrainSubmitFails, ClientThrows, ControlExits,
              OnlySubmitsSwallow
<1>9. CASE ReadsOther
  <2>1. CP!SubmitLineOther /\ UNCHANGED <<cpc, published>>
    BY <1>9, SameLines DEF ReadsOther, pipelineOnly, sharedVars
  <2>2. PICK parsed \in CP!Received :
          swallowed' = (swallowed \/ CP!Invalidates(parsed))
    BY <1>9, SameReceived, SameUse, Zenon DEF ReadsOther
  <2>3. ~CP!Invalidates(parsed) => UNCHANGED <<current_job, difficulty>>
    BY <2>1, <2>2, CP!OtherTakes, ClientAssumed
  <2>4. CASE swallowed \/ CP!Invalidates(parsed)
    <3>1. swallowed' = TRUE
      BY <2>2, <2>4
    <3>2. QED
      BY <3>1 DEF OnlySubmitsSwallow
  <2>5. CASE ~(swallowed \/ CP!Invalidates(parsed))
    BY <2>1, <2>3, <2>5 DEF OnlySubmitsSwallow
  <2>6. QED
    BY <2>4, <2>5
<1>10. CASE ReadsAnswer
  <2>1. CP!SubmitLineAnswer /\ UNCHANGED <<published, swallowed>>
    BY <1>10, SameLines DEF ReadsAnswer, sharedVars
  <2>2. call = "submit_share" /\ UNCHANGED <<current_job, difficulty>>
    BY <2>1, CP!AnswerTakes, ClientAssumed
  <2>3. QED
    BY <2>1, <2>2, SwallowKept DEF CallsFit, AtLoop
<1>11. QED
  BY <1>1, <1>2, <1>3, <1>4, <1>5, <1>6, <1>7, <1>8, <1>9, <1>10
     DEF MiningNext, ControlThread

(* Only what submit_share reads while it waits for its answer can keep the *)
(* published work behind the client's (main.cpp 865-882;                   *)
(* stratum_client.cpp 229-257).                                            *)
THEOREM PublishedIsClients == MiningSpec => []OnlySubmitsSwallow
<1>1. MiningInit => OnlySubmitsSwallow
  BY DEF MiningInit, Init, OnlySubmitsSwallow
<1>2. CP!ClientInv /\ ControlInv /\ OnlySubmitsSwallow /\ [MiningNext]_miningVars
        => OnlySubmitsSwallow'
  BY SwallowStep DEF ControlInv
<1>3. QED
  BY <1>1, <1>2, CallsFitTheLoop, ClientInvariants, PTL DEF MiningSpec

-----------------------------------------------------------------------------
(* The miner's counts are the pool's. *)

(* The shares that have been submitted and not yet been answered. *)
InFlight == Len(submitted) - Len(verdicts)

(* The ids of the requests count the shares, and the control thread waits  *)
(* for the one in flight.                                                  *)
SubmitsNumbered ==
  /\ Len(submitted) =
       IF next_id > CP!FirstSubmitId THEN next_id - CP!FirstSubmitId ELSE 0
  /\ InFlight \in
       CASE cpc = "await" -> {1} [] cpc = "exited" -> {0, 1} [] OTHER -> {0}

(* The lines that accept a share whose answer has been read. *)
AcceptedRead ==
  {i \in DOMAIN sent :
     /\ sent[i].id \in CP!FirstSubmitId .. CP!FirstSubmitId + Len(verdicts) - 1
     /\ sent[i].result = "true"}

(* Every verdict is counted, and as what it is. *)
VerdictsCounted ==
  /\ shares_accepted = Cardinality(AcceptedRead)
  /\ shares_accepted + shares_rejected = Len(verdicts)

(* Lengths and ids are numbers. *)
LEMMA CountTypes ==
  ASSUME CP!ClientInv, TypeInv
  PROVE  /\ Len(submitted) \in Nat /\ Len(verdicts) \in Nat /\ next_id \in Int
         /\ shares_accepted \in Nat /\ shares_rejected \in Nat
         /\ Len(sent) \in Nat /\ DOMAIN sent = 1 .. Len(sent)
         /\ \A i \in DOMAIN sent : sent[i].id \in Nat
         /\ IsFiniteSet(AcceptedRead)
<1>1. /\ submitted \in Seq(Share) /\ verdicts \in Seq(CP!Ids \X BOOLEAN)
      /\ shares_accepted \in Nat /\ shares_rejected \in Nat /\ next_id \in CP!Ids
      /\ CP!TypeOK
  BY DEF TypeInv, TypeOK, CP!ClientInv, CP!TypeInv, CP!TypeOK
<1>2. Len(submitted) \in Nat /\ Len(verdicts) \in Nat
  BY <1>1
<1>3. next_id \in Int
  BY <1>1 DEF CP!Ids
<1>4. /\ Len(sent) \in Nat /\ DOMAIN sent = 1 .. Len(sent)
      /\ \A i \in DOMAIN sent : sent[i].id \in Nat
  BY <1>1, SentIs, CP!LineIds, ClientAssumed
<1>5. IsFiniteSet(AcceptedRead)
  BY <1>4, IndexSets DEF AcceptedRead
<1>6. QED
  BY <1>1, <1>2, <1>3, <1>4, <1>5

(* Neither shares nor verdicts. *)
LEMMA SubmitsKept ==
  ASSUME SubmitsNumbered, UNCHANGED <<submitted, verdicts, next_id>>,
         \/ cpc' = cpc
         \/ cpc \notin {"await", "exited"} /\ cpc' # "await"
         \/ cpc' = "exited"
  PROVE  SubmitsNumbered'
<1>1. InFlight' = InFlight
  BY DEF InFlight
<1>2. InFlight' \in
        CASE cpc' = "await" -> {1} [] cpc' = "exited" -> {0, 1} [] OTHER -> {0}
  BY <1>1 DEF SubmitsNumbered
<1>3. QED
  BY <1>2 DEF SubmitsNumbered

(* The control thread's steps count the shares. *)
LEMMA SubmitsStep ==
  ASSUME CP!ClientInv, TypeInv, CallsFit, SubmitsNumbered, [MiningNext]_miningVars
  PROVE  SubmitsNumbered'
<1>0. /\ Len(submitted) \in Nat /\ Len(verdicts) \in Nat /\ next_id \in Int
      /\ CP!CallInv
  BY CountTypes DEF CP!ClientInv
<1>1. CASE Stores \/ ControlAlone
  <2>1. UNCHANGED <<verdicts, next_id>>
    BY <1>1, WithoutClient DEF clientOnly
  <2>2. UNCHANGED submitted
    BY <1>1 DEF Stores, ControlAlone, PublishFails, PublishGeneration, PublishStore,
                ControlLoop, DrainEmpty, DrainStale, IdleTimeout, IdlePop, IdleRequeue,
                historyVars
  <2>3. cpc \notin {"await", "exited"} /\ cpc' # "await"
    BY <1>1, AloneSteps
  <2>4. QED
    BY <2>1, <2>2, <2>3, SubmitsKept
<1>2. CASE WorkerThread \/ MainThread \/ UNCHANGED miningVars
  BY <1>2, ElsewhereSteps, SubmitsKept DEF clientOnly
<1>3. CASE Pushes \/ Answers \/ Closes
  BY <1>3, PoolAside, SubmitsKept DEF vars, controlVars, historyVars
<1>4. CASE Connect
  <2>1. UNCHANGED <<submitted, verdicts, cpc>>
    BY <1>4 DEF Connect, Client!Handshake, Client!historyVars, pipelineOnly, historyVars
  <2>2. next_id < CP!FirstSubmitId /\ next_id' = next_id + 1
    BY <1>0, <1>4
       DEF Connect, Client!Handshake, Client!Send, CP!CallInv, CP!FirstSubmitId,
           CP!SubscribeId, CP!SuggestId, CP!AuthorizeId
  <2>3. ~(next_id > CP!FirstSubmitId) /\ ~(next_id' > CP!FirstSubmitId)
    BY <1>0, <2>2 DEF CP!FirstSubmitId
  <2>4. InFlight' = InFlight
    BY <2>1 DEF InFlight
  <2>5. QED
    BY <2>1, <2>3, <2>4 DEF SubmitsNumbered
<1>5. CASE Submits
  <2>1. /\ cpc = "drain" /\ cpc' = "await" /\ call = "none"
        /\ next_id' = next_id + 1 /\ verdicts' = verdicts
        /\ submitted' = Append(submitted, Head(share_queue))
    BY <1>5 DEF Submits, DrainSubmit, Client!SubmitShare, Client!Send,
                Client!historyVars
  <2>2. Len(submitted') = Len(submitted) + 1
    <3>1. submitted \in Seq(Share) /\ share_queue \in Seq(Share) /\ share_queue # <<>>
      BY <1>5 DEF Submits, DrainSubmit, TypeInv, TypeOK
    <3>2. QED
      BY <2>1, <3>1
  <2>3. next_id = CP!FirstSubmitId + Len(verdicts)
    BY <1>0, <2>1 DEF CP!CallInv
  <2>4. Len(submitted) = Len(verdicts)
    BY <1>0, <2>1 DEF SubmitsNumbered, InFlight
  <2>5. /\ Len(submitted') =
             IF next_id' > CP!FirstSubmitId THEN next_id' - CP!FirstSubmitId ELSE 0
        /\ InFlight' = 1
    BY <1>0, <2>1, <2>2, <2>3, <2>4 DEF InFlight, CP!FirstSubmitId
  <2>6. QED
    BY <2>1, <2>5 DEF SubmitsNumbered
<1>6. CASE BecomeReady \/ Read \/ PollsNothing \/ PollsLine \/ ReadsOther
  <2>1. UNCHANGED <<next_id, verdicts>>
    BY <1>6 DEF BecomeReady, Read, PollsNothing, PollsLine, ReadsOther,
                Client!StartupLine, Client!ReadSome, Client!Poll, Client!PollNothing,
                Client!PollLine, Client!SubmitLineOther, Client!ConsumeLine,
                Client!historyVars
  <2>2. UNCHANGED submitted
    BY <1>6 DEF BecomeReady, Read, PollsNothing, PollsLine, ReadsOther, historyVars,
                pipelineOnly
  <2>3. CASE BecomeReady
    <3>1. CP!StartupLine
      BY <2>3, SameLines DEF BecomeReady
    <3>2. cpc = "startup"
      BY <3>1, CP!StartupTakes, ClientAssumed DEF CallsFit
    <3>3. cpc' # "await"
      BY <2>3, <3>2 DEF BecomeReady
    <3>4. QED
      BY <2>1, <2>2, <3>2, <3>3, SubmitsKept
  <2>4. CASE PollsNothing
    BY <2>1, <2>2, <2>4, SubmitsKept DEF PollsNothing, AfterPoll
  <2>5. CASE PollsLine
    <3>1. CP!PollLine /\ cpc' # "await"
      BY <2>5, SameLines DEF PollsLine, AfterPoll
    <3>2. cpc = "poll"
      BY <3>1, CP!PollTakes, ClientAssumed DEF CallsFit
    <3>3. QED
      BY <2>1, <2>2, <3>1, <3>2, SubmitsKept
  <2>6. CASE Read \/ ReadsOther
    BY <2>1, <2>2, <2>6, SubmitsKept DEF Read, ReadsOther, pipelineOnly
  <2>7. QED
    BY <1>6, <2>3, <2>4, <2>5, <2>6
<1>7. CASE SubmitFails \/ ClientThrows
  <2>1. UNCHANGED <<submitted, verdicts, next_id>> /\ cpc' = "exited"
    BY <1>7 DEF SubmitFails, ClientThrows, DrainSubmitFails, ControlExits,
                Client!SendFails, Client!ReadEof, Client!historyVars
  <2>2. QED
    BY <2>1, SubmitsKept
<1>8. CASE ReadsAnswer
  <2>1. CP!SubmitLineAnswer /\ cpc' = "drain" /\ UNCHANGED submitted
    BY <1>8, SameLines DEF ReadsAnswer, historyVars
  <2>2. /\ call = "submit_share" /\ next_id' = next_id
        /\ \E verdict : verdicts' = Append(verdicts, verdict)
    BY <2>1, CP!AnswerTakes, ClientAssumed DEF CP!TakesLine
  <2>3. Len(verdicts') = Len(verdicts) + 1
    <3>1. verdicts \in Seq(CP!Ids \X BOOLEAN)
      BY DEF CP!ClientInv, CP!TypeInv, CP!TypeOK
    <3>2. QED
      BY <2>2, <3>1
  <2>4. cpc = "await"
    BY <2>2 DEF CallsFit
  <2>5. InFlight = 1
    BY <2>4 DEF SubmitsNumbered
  <2>6. InFlight' = 0
    BY <1>0, <2>1, <2>3, <2>5 DEF InFlight
  <2>7. QED
    BY <2>1, <2>2, <2>6 DEF SubmitsNumbered
<1>9. QED
  BY <1>1, <1>2, <1>3, <1>4, <1>5, <1>6, <1>7, <1>8 DEF MiningNext, ControlThread

(* Neither verdicts nor counters nor lines. *)
LEMMA VerdictsKept ==
  ASSUME VerdictsCounted,
         UNCHANGED <<sent, verdicts, shares_accepted, shares_rejected>>
  PROVE  VerdictsCounted'
<1>1. AcceptedRead' = AcceptedRead
  BY DEF AcceptedRead
<1>2. QED
  BY <1>1 DEF VerdictsCounted

(* A line the pool adds is no answer to a share that has its verdict. *)
LEMMA VerdictsPool ==
  ASSUME CP!ClientInv, TypeInv, CP!AnsweredOnce, VerdictsCounted, Pushes \/ Answers
  PROVE  VerdictsCounted'
<1>1. UNCHANGED <<verdicts, shares_accepted, shares_rejected>>
  BY PoolAside DEF vars, counterVars
<1>2. CP!TypeOK /\ Len(verdicts) \in Nat
  BY CountTypes DEF CP!ClientInv, CP!TypeInv
<1>3. PICK line \in CP!Lines :
        /\ sent' = Append(sent, line)
        /\ line.id < CP!FirstSubmitId \/ line.id >= CP!FirstSubmitId + Len(verdicts)
  <2>1. CASE Pushes
    <3>1. PICK line \in CP!Lines : line.id = 0 /\ sent' = Append(sent, line)
      BY <2>1, SamePush, CP!Pushed, ClientAssumed, Zenon DEF Pushes
    <3>2. line.id < CP!FirstSubmitId
      BY <3>1 DEF CP!FirstSubmitId
    <3>3. QED
      BY <3>1, <3>2
  <2>2. CASE Answers
    <3>1. CP!PoolAnswer
      BY <2>2, SameAnswer, Zenon DEF Answers
    <3>2. PICK request \in requests, line \in CP!Lines :
            line.id = CP!IdOf(request) /\ sent' = Append(sent, line)
      BY <3>1, CP!Answering, ClientAssumed, Zenon
    <3>3. \/ CP!IdOf(request) < CP!FirstSubmitId
          \/ CP!IdOf(request) >= CP!FirstSubmitId + Len(verdicts)
      BY <3>2 DEF CP!AnsweredOnce
    <3>4. QED
      BY <3>2, <3>3
  <2>3. QED
    BY <2>1, <2>2
<1>4. /\ DOMAIN sent = 1 .. Len(sent) /\ Len(sent) \in Nat
      /\ DOMAIN sent' = 1 .. Len(sent) + 1
      /\ sent'[Len(sent) + 1] = line
      /\ \A i \in DOMAIN sent : sent'[i] = sent[i]
  BY <1>2, <1>3, CP!OneMore, ClientAssumed
<1>5. line.id \in Nat
  BY <1>3, CP!LineIds, ClientAssumed
<1>6. line.id \notin CP!FirstSubmitId .. CP!FirstSubmitId + Len(verdicts) - 1
  BY <1>2, <1>3, <1>5 DEF CP!FirstSubmitId
<1>7. AcceptedRead' = AcceptedRead
  BY <1>1, <1>4, <1>6 DEF AcceptedRead
<1>8. QED
  BY <1>1, <1>7 DEF VerdictsCounted

(* The answer that submit_share returns is the only one to its share. *)
LEMMA VerdictsAnswer ==
  ASSUME CP!ClientInv, TypeInv, CP!AnsweredOnce, VerdictsCounted, ReadsAnswer
  PROVE  VerdictsCounted'
<1> DEFINE n == consumed + 1
           next == CP!FirstSubmitId + Len(verdicts)
<1>1. /\ Len(verdicts) \in Nat /\ shares_accepted \in Nat /\ shares_rejected \in Nat
      /\ Len(sent) \in Nat /\ DOMAIN sent = 1 .. Len(sent)
      /\ \A i \in DOMAIN sent : sent[i].id \in Nat
      /\ IsFiniteSet(AcceptedRead)
  BY CountTypes
<1>2. CP!SubmitLineAnswer
  BY SameLines DEF ReadsAnswer
<1>3. /\ n \in DOMAIN sent /\ sent' = sent
      /\ sent[n].id = next
      /\ verdicts' = Append(verdicts, <<next, sent[n].result = "true">>)
  BY <1>1, <1>2, CP!AnswerTakes, ClientAssumed DEF CP!TakesLine
<1>4. next \in Nat /\ next # 0
  BY <1>1 DEF CP!FirstSubmitId
<1>5. \A i \in DOMAIN sent : sent[i].id = next => i = n
  BY <1>3, <1>4 DEF CP!AnsweredOnce
<1> HIDE DEF n
<1>6. Len(verdicts') = Len(verdicts) + 1 /\ Last(verdicts')[2] = (sent[n].result = "true")
  <2>1. verdicts \in Seq(CP!Ids \X BOOLEAN)
    BY DEF CP!ClientInv, CP!TypeInv, CP!TypeOK
  <2> DEFINE verdict == <<next, sent[n].result = "true">>
  <2>2. Len(Append(verdicts, verdict)) = Len(verdicts) + 1
        /\ Append(verdicts, verdict)[Len(verdicts) + 1] = verdict
    BY <2>1
  <2>3. verdict[2] = (sent[n].result = "true")
    OBVIOUS
  <2> HIDE DEF verdict
  <2>4. verdicts' = Append(verdicts, verdict)
    BY <1>3, Zenon DEF verdict
  <2>5. QED
    BY <2>2, <2>3, <2>4, Zenon DEF Last
<1>7. n \notin AcceptedRead
  BY <1>1, <1>3 DEF AcceptedRead, CP!FirstSubmitId
<1>8. AcceptedRead' =
        {i \in DOMAIN sent : sent[i].id \in CP!FirstSubmitId .. next
                             /\ sent[i].result = "true"}
  BY <1>1, <1>3, <1>6 DEF AcceptedRead
<1>9. CASE sent[n].result = "true"
  <2>1. shares_accepted' = shares_accepted + 1 /\ shares_rejected' = shares_rejected
    BY <1>6, <1>9 DEF ReadsAnswer
  <2>2. AcceptedRead' = AcceptedRead \cup {n}
    BY <1>1, <1>3, <1>4, <1>5, <1>8, <1>9 DEF AcceptedRead, CP!FirstSubmitId
  <2>3. Cardinality(AcceptedRead') = Cardinality(AcceptedRead) + 1
    BY <1>1, <1>7, <2>2, OneMoreIn
  <2>4. /\ shares_accepted = Cardinality(AcceptedRead)
        /\ shares_accepted + shares_rejected = Len(verdicts)
    BY DEF VerdictsCounted
  <2>5. shares_accepted' = Cardinality(AcceptedRead')
    BY <2>1, <2>3, <2>4
  <2>6. shares_accepted' + shares_rejected' = Len(verdicts')
    BY <1>1, <1>6, <2>1, <2>4
  <2>7. QED
    BY <2>5, <2>6 DEF VerdictsCounted
<1>10. CASE sent[n].result # "true"
  <2>1. shares_accepted' = shares_accepted /\ shares_rejected' = shares_rejected + 1
    BY <1>6, <1>10 DEF ReadsAnswer
  <2>2. AcceptedRead' = AcceptedRead
    BY <1>1, <1>3, <1>4, <1>5, <1>8, <1>10 DEF AcceptedRead, CP!FirstSubmitId
  <2>3. QED
    BY <1>1, <1>6, <2>1, <2>2 DEF VerdictsCounted
<1>11. QED
  BY <1>9, <1>10

(* Every step counts each verdict once. *)
LEMMA VerdictsStep ==
  ASSUME CP!ClientInv, TypeInv, CP!AnsweredOnce, VerdictsCounted,
         [MiningNext]_miningVars
  PROVE  VerdictsCounted'
<1>1. CASE Stores \/ ControlAlone
  <2>1. UNCHANGED <<sent, verdicts>>
    BY <1>1, WithoutClient DEF clientOnly
  <2>2. UNCHANGED <<shares_accepted, shares_rejected>>
    BY <1>1 DEF Stores, ControlAlone, PublishFails, PublishGeneration, PublishStore,
                ControlLoop, DrainEmpty, DrainStale, IdleTimeout, IdlePop, IdleRequeue,
                controlOnly, counterVars
  <2>3. QED
    BY <2>1, <2>2, VerdictsKept
<1>2. CASE WorkerThread \/ MainThread \/ UNCHANGED miningVars
  BY <1>2, ElsewhereSteps, VerdictsKept DEF clientOnly
<1>3. CASE Pushes \/ Answers
  BY <1>3, VerdictsPool
<1>4. CASE Closes
  BY <1>4, PoolAside, VerdictsKept
     DEF vars, counterVars, Closes, Client!PoolClose, Client!historyVars
<1>5. CASE Connect \/ Read \/ Submits \/ SubmitFails
  <2>1. UNCHANGED <<sent, verdicts>>
    BY <1>5 DEF Connect, Read, Submits, SubmitFails, Client!Handshake, Client!ReadSome,
                Client!Poll, Client!SubmitShare, Client!SendFails, Client!historyVars
  <2>2. UNCHANGED <<shares_accepted, shares_rejected>>
    BY <1>5 DEF Connect, Read, Submits, SubmitFails, DrainSubmit, DrainSubmitFails,
                pipelineOnly, counterVars
  <2>3. QED
    BY <2>1, <2>2, VerdictsKept
<1>6. CASE BecomeReady \/ PollsNothing \/ PollsLine \/ ReadsOther \/ ClientThrows
  <2>1. UNCHANGED <<sent, verdicts>>
    BY <1>6 DEF BecomeReady, PollsNothing, PollsLine, ReadsOther, ClientThrows,
                Client!StartupLine, Client!PollNothing, Client!PollLine,
                Client!SubmitLineOther, Client!ReadEof, Client!SendFails,
                Client!ConsumeLine, Client!historyVars
  <2>2. UNCHANGED <<shares_accepted, shares_rejected>>
    BY <1>6 DEF BecomeReady, PollsNothing, PollsLine, ReadsOther, ClientThrows,
                pipelineOnly, controlOnly, counterVars
  <2>3. QED
    BY <2>1, <2>2, VerdictsKept
<1>7. CASE ReadsAnswer
  BY <1>7, VerdictsAnswer
<1>8. QED
  BY <1>1, <1>2, <1>3, <1>4, <1>5, <1>6, <1>7 DEF MiningNext, ControlThread

(* All that the counts rest on. *)
CountInv == SubmitsNumbered /\ VerdictsCounted

(* At first there is nothing to count. *)
LEMMA CountInit == MiningInit => CountInv
<1>1. SUFFICES ASSUME MiningInit PROVE CountInv
  OBVIOUS
<1>2. /\ submitted = <<>> /\ shares_accepted = 0 /\ shares_rejected = 0
      /\ cpc = "startup" /\ sent = <<>> /\ verdicts = <<>> /\ next_id = 1
  BY <1>1 DEF MiningInit, Init, Client!Init
<1>3. SubmitsNumbered
  BY <1>2 DEF SubmitsNumbered, InFlight, CP!FirstSubmitId
<1>4. AcceptedRead = {}
  BY <1>2 DEF AcceptedRead
<1>5. Cardinality({}) = 0
  BY FS_EmptySet
<1>6. VerdictsCounted
  BY <1>2, <1>4, <1>5 DEF VerdictsCounted
<1>7. QED
  BY <1>3, <1>6 DEF CountInv

(* The pool's acceptances are the counted ones and at most one more: that  *)
(* of the share in flight.                                                 *)
LEMMA CountsAre ==
  ASSUME CP!ClientInv, TypeInv, CP!AnsweredOnce, CountInv
  PROVE  CountsArePools
<1> DEFINE first == CP!FirstSubmitId
           next == CP!FirstSubmitId + Len(verdicts)
           Accepted == {i \in DOMAIN sent : sent[i].id >= first /\ sent[i].result = "true"}
<1>1. /\ Len(submitted) \in Nat /\ Len(verdicts) \in Nat /\ next_id \in Int
      /\ shares_accepted \in Nat /\ shares_rejected \in Nat
      /\ Len(sent) \in Nat /\ DOMAIN sent = 1 .. Len(sent)
      /\ \A i \in DOMAIN sent : sent[i].id \in Nat
      /\ IsFiniteSet(AcceptedRead)
  BY CountTypes
<1>2. AcceptedByPool = Cardinality(Accepted)
  BY DEF AcceptedByPool, Client!FirstSubmitId, CP!FirstSubmitId
<1>3. IsFiniteSet(Accepted) /\ Cardinality(Accepted) \in Nat
  BY <1>1, IndexSets
<1>4. AcceptedRead \subseteq Accepted
  BY <1>1 DEF AcceptedRead, CP!FirstSubmitId
<1>5. shares_accepted = Cardinality(AcceptedRead)
  BY DEF CountInv, VerdictsCounted
<1>6. Cardinality(AcceptedRead) <= Cardinality(Accepted)
  BY <1>3, <1>4, FS_Subset
<1>7. InFlight \in {0, 1} /\ Len(submitted) = Len(verdicts) + InFlight
  <2>1. InFlight \in {0, 1}
    BY DEF CountInv, SubmitsNumbered
  <2>2. QED
    BY <1>1, <2>1 DEF InFlight
<1>8. \A i \in DOMAIN sent : sent[i].id < next + InFlight \/ sent[i].id < first
  <2>1. \A i \in DOMAIN sent : sent[i].id < next_id
    BY DEF CP!AnsweredOnce
  <2>2. next_id <= first \/ next_id = first + Len(submitted)
    BY <1>1 DEF CountInv, SubmitsNumbered, CP!FirstSubmitId
  <2>3. QED
    BY <1>1, <1>7, <2>1, <2>2 DEF CP!FirstSubmitId
<1>9. \A i \in Accepted : i \in AcceptedRead \/ (InFlight = 1 /\ sent[i].id = next)
  BY <1>1, <1>7, <1>8 DEF AcceptedRead, CP!FirstSubmitId
<1>10. \A i, k \in Accepted : sent[i].id = next /\ sent[k].id = next => i = k
  <2>1. next # 0
    BY <1>1 DEF CP!FirstSubmitId
  <2>2. QED
    BY <2>1 DEF CP!AnsweredOnce
<1> HIDE DEF Accepted, next, first
<1>11. Cardinality(Accepted) <= Cardinality(AcceptedRead) + InFlight
  <2>1. CASE Accepted \subseteq AcceptedRead
    <3>1. Accepted = AcceptedRead
      BY <1>4, <2>1
    <3>2. QED
      BY <1>3, <1>7, <3>1
  <2>2. CASE ~(Accepted \subseteq AcceptedRead)
    <3>1. PICK i \in Accepted : i \notin AcceptedRead
      BY <2>2
    <3>2. InFlight = 1 /\ Accepted = AcceptedRead \cup {i}
      BY <1>4, <1>9, <1>10, <3>1
    <3>3. Cardinality(Accepted) = Cardinality(AcceptedRead) + 1
      BY <1>1, <3>1, <3>2, OneMoreIn
    <3>4. QED
      BY <1>3, <3>2, <3>3
  <2>3. QED
    BY <2>1, <2>2
<1>12. /\ shares_accepted <= AcceptedByPool
       /\ AcceptedByPool - shares_accepted <= InFlight
  BY <1>1, <1>2, <1>3, <1>5, <1>6, <1>7, <1>11
<1>13. /\ shares_accepted + shares_rejected = Len(verdicts)
       /\ InFlight \in
            CASE cpc = "await" -> {1} [] cpc = "exited" -> {0, 1} [] OTHER -> {0}
  BY DEF CountInv, VerdictsCounted, SubmitsNumbered
<1>14. QED
  BY <1>12, <1>13, Zenon DEF CountsArePools, InFlight

(* The accepted and rejected shares that the miner shows are those the     *)
(* pool has answered so, but for the one in flight: no line and no order   *)
(* of answers makes it count a share twice, not at all or as another       *)
(* (main.cpp 384-388; stratum_client.cpp 211-260).                         *)
THEOREM CountsAreThePools == MiningSpec => []CountsArePools
<1>1. /\ CP!ClientInv /\ CP!AnsweredOnce /\ ControlInv /\ CountInv
      /\ [MiningNext]_miningVars
      => CountInv'
  BY SubmitsStep, VerdictsStep DEF CountInv, ControlInv
<1>2. CP!ClientInv /\ CP!AnsweredOnce /\ ControlInv /\ CountInv => CountsArePools
  BY CountsAre DEF ControlInv
<1>3. QED
  BY <1>1, <1>2, CountInit, CallsFitTheLoop, ClientInvariants, PTL DEF MiningSpec

=============================================================================
