--------------------------- MODULE MinerPipeline ---------------------------
(***************************************************************************)
(* The two mining threads of btccpu and what they share (main.cpp).        *)
(*                                                                         *)
(* The control thread owns the StratumClient: it publishes the client's    *)
(* job to the worker under a new work generation, drains the share queue   *)
(* to the pool and polls the pool in between.  The worker thread adopts    *)
(* the published work, walks the nonces of every extranonce2 in turn and   *)
(* queues the shares it finds.  They meet in an atomic generation counter, *)
(* a mutex-protected published work and a mutex-protected share queue.     *)
(* The main thread is reduced to the two stop flags it sets, control's     *)
(* first; the pool is reduced to the message a read returns.               *)
(*                                                                         *)
(* One action is the code between two accesses to shared state.            *)
(***************************************************************************)
EXTENDS Naturals, SequencesExt

CONSTANTS
  Jobs,              \* job ids the pool may notify
  NoJob,             \* the job of a default-constructed WorkState
  CleanJobs,         \* jobs whose notify carries clean_jobs = true
  BadJobs,           \* jobs make_work_state or expand_compact_target rejects
  Difficulties,      \* difficulties the pool may set
  InitialDifficulty, \* StratumClient::difficulty_ before any set_difficulty
  BadDifficulties,   \* difficulties share_target_from_difficulty rejects
  Hash,              \* Hash[job][extranonce2][nonce], the header's hash
  ShareTarget,       \* ShareTarget[difficulty], the largest hash accepted
  MaxExtranonce2,    \* max_extranonce2_value of the subscription
  MaxNonce,          \* kMaxNonce
  ChunkSize,         \* kNonceChunkSize
  CheckInterval,     \* ScanControl::check_interval
  MaxGeneration,     \* bound: publications in a behaviour
  MaxFound           \* bound: shares found before superseded work is re-adopted

Extranonce2s == 0 .. MaxExtranonce2
Nonces == 0 .. MaxNonce
Generations == 0 .. MaxGeneration

ASSUME JobsAssumption ==
  /\ NoJob \notin Jobs
  /\ CleanJobs \subseteq Jobs
  /\ BadJobs \subseteq Jobs
ASSUME DifficultiesAssumption ==
  /\ InitialDifficulty \in Difficulties
  /\ BadDifficulties \subseteq Difficulties
ASSUME BoundsAssumption ==
  /\ MaxExtranonce2 \in Nat
  /\ MaxNonce \in Nat
  /\ ChunkSize \in Nat \ {0}
  /\ CheckInterval \in Nat \ {0}
  /\ MaxGeneration \in Nat \ {0}
  /\ MaxFound \in Nat
ASSUME HashAssumption ==
  /\ Hash \in [Jobs -> [Extranonce2s -> [Nonces -> Nat]]]
  /\ ShareTarget \in [Difficulties -> Nat]

VARIABLES
  (* Shared between the threads. *)
  work_generation,   \* atomic counter of publications
  published,         \* SharedWorkState::published
  share_queue,       \* ShareQueue
  stop_control,      \* stop_requested of the control thread's token
  stop_worker,       \* stop_requested of the worker thread's token
  first_error,       \* the thread whose exception was recorded first
  shares_found,      \* Counters
  shares_accepted,
  shares_rejected,
  (* The control thread and its client. *)
  cpc,               \* where the control thread is
  subscribed,        \* StratumClient::subscription_ has a value
  current_job,       \* StratumClient::current_job_
  difficulty,        \* StratumClient::difficulty_
  did_work,          \* local of the control loop
  queued,            \* the share the control thread has popped
  (* The worker thread. *)
  wpc,               \* where the worker thread is
  adopted,           \* its copy of the published work
  extranonce2,       \* work.extranonce2_counter
  work_nonce,        \* work.nonce, where the next chunk starts
  scan_nonce,        \* loop variable of scan_nonce_range
  (* History: what left the program. *)
  submitted,         \* mining.submit requests, in the order written
  stale_discarded,   \* StaleShareDiscardedEvents pushed
  lost               \* shares popped that got neither answer nor event

sharedVars == <<work_generation, published, share_queue>>
mainVars == <<stop_control, stop_worker>>
counterVars == <<shares_found, shares_accepted, shares_rejected>>
clientVars == <<subscribed, current_job, difficulty>>
controlVars == <<cpc, clientVars, did_work, queued>>
workerVars == <<wpc, adopted, extranonce2, work_nonce, scan_nonce>>
historyVars == <<submitted, stale_discarded, lost>>
vars == <<sharedVars, mainVars, first_error, counterVars, controlVars,
          workerVars, historyVars>>

Work == [job : Jobs \cup {NoJob}, difficulty : Difficulties,
         generation : Generations]
NoWork == [job |-> NoJob, difficulty |-> InitialDifficulty, generation |-> 0]

Share == [job : Jobs, extranonce2 : Extranonce2s, nonce : Nonces,
          generation : Generations]
NoShare == [job |-> NoJob, extranonce2 |-> 0, nonce |-> 0, generation |-> 0]

ControlPCs == {"startup", "publish", "store", "loop", "drain", "await",
               "poll", "idle", "hold", "exited"}
WorkerPCs == {"wait", "lock", "chunk", "scan", "hash", "found", "result",
              "exited"}

TypeOK ==
  /\ work_generation \in Generations
  /\ published \in Work
  /\ share_queue \in Seq(Share)
  /\ stop_control \in BOOLEAN
  /\ stop_worker \in BOOLEAN
  /\ first_error \in {"none", "control", "worker"}
  /\ shares_found \in Nat
  /\ shares_accepted \in Nat
  /\ shares_rejected \in Nat
  /\ cpc \in ControlPCs
  /\ subscribed \in BOOLEAN
  /\ current_job \in Jobs \cup {NoJob}
  /\ difficulty \in Difficulties
  /\ did_work \in BOOLEAN
  /\ queued \in Share \cup {NoShare}
  /\ wpc \in WorkerPCs
  /\ adopted \in Work
  /\ extranonce2 \in Extranonce2s
  /\ work_nonce \in Nonces
  /\ scan_nonce \in 0 .. MaxNonce + 1
  /\ submitted \in Seq(Share)
  /\ stale_discarded \in Nat
  /\ lost \in Nat

Init ==
  /\ work_generation = 0
  /\ published = NoWork
  /\ share_queue = <<>>
  /\ stop_control = FALSE
  /\ stop_worker = FALSE
  /\ first_error = "none"
  /\ shares_found = 0
  /\ shares_accepted = 0
  /\ shares_rejected = 0
  /\ cpc = "startup"
  /\ subscribed = FALSE
  /\ current_job = NoJob
  /\ difficulty = InitialDifficulty
  /\ did_work = FALSE
  /\ queued = NoShare
  /\ wpc = "wait"
  /\ adopted = NoWork
  /\ extranonce2 = 0
  /\ work_nonce = 0
  /\ scan_nonce = 0
  /\ submitted = <<>>
  /\ stale_discarded = 0
  /\ lost = 0

-----------------------------------------------------------------------------
(* The control thread. *)

controlOnly == <<share_queue, published, work_generation, mainVars,
                 counterVars, workerVars>>

(* The exception handler of a thread body. *)
RecordException(thread) ==
  first_error' = IF first_error = "none" THEN thread ELSE first_error

ControlExits == cpc' = "exited"

(* An exception from a socket read: the control thread ends. *)
ReadFails ==
  /\ cpc \in {"startup", "poll"}
  /\ ControlExits
  /\ RecordException("control")
  /\ UNCHANGED <<controlOnly, clientVars, did_work, queued, historyVars>>

ReceiveNotify(j) == current_job' = j /\ UNCHANGED <<subscribed, difficulty>>
ReceiveDifficulty(d) == difficulty' = d /\ UNCHANGED <<subscribed, current_job>>
ReceiveSubscription == subscribed' = TRUE /\ UNCHANGED <<current_job, difficulty>>

Receive ==
  \/ \E j \in Jobs : ReceiveNotify(j)
  \/ \E d \in Difficulties : ReceiveDifficulty(d)
  \/ ReceiveSubscription

(* run_until_ready: read until there are a subscription and a job. *)
StartupRead ==
  /\ cpc = "startup"
  /\ Receive
  /\ cpc' = IF subscribed' /\ current_job' # NoJob THEN "publish" ELSE "startup"
  /\ UNCHANGED <<controlOnly, first_error, did_work, queued, historyVars>>

Publishable == current_job \notin BadJobs /\ difficulty \notin BadDifficulties

(* publish_latest_work throws before it touches the generation. *)
PublishFails ==
  /\ cpc = "publish"
  /\ ~Publishable
  /\ ControlExits
  /\ RecordException("control")
  /\ UNCHANGED <<controlOnly, clientVars, did_work, queued, historyVars>>

(* work_generation.fetch_add: from here on older shares are stale. *)
PublishGeneration ==
  /\ cpc = "publish"
  /\ Publishable
  /\ work_generation' = work_generation + 1
  /\ cpc' = "store"
  /\ UNCHANGED <<share_queue, published, mainVars, first_error, counterVars,
                 workerVars, clientVars, did_work, queued, historyVars>>

(* The work itself is stored under the lock, after the generation moved. *)
PublishStore ==
  /\ cpc = "store"
  /\ published' = [job |-> current_job, difficulty |-> difficulty,
                   generation |-> work_generation]
  /\ cpc' = "loop"
  /\ UNCHANGED <<share_queue, work_generation, mainVars, first_error,
                 counterVars, workerVars, clientVars, did_work, queued,
                 historyVars>>

(* while (!stop_token.stop_requested()) *)
ControlLoop ==
  /\ cpc = "loop"
  /\ cpc' = IF stop_control THEN "exited" ELSE "drain"
  /\ did_work' = FALSE
  /\ UNCHANGED <<controlOnly, first_error, clientVars, queued, historyVars>>

(* try_pop finds the queue empty: the drain is over. *)
DrainEmpty ==
  /\ cpc = "drain"
  /\ share_queue = <<>>
  /\ cpc' = "poll"
  /\ UNCHANGED <<controlOnly, first_error, clientVars, did_work, queued,
                 historyVars>>

(* Faulty variant: a stale share goes back to the queue. *)
DrainStaleRequeued ==
  /\ cpc = "drain"
  /\ share_queue # <<>>
  /\ Head(share_queue).generation # work_generation
  /\ share_queue' = Append(Tail(share_queue), Head(share_queue))
  /\ did_work' = TRUE
  /\ UNCHANGED <<cpc, published, work_generation, mainVars, first_error,
                 counterVars, workerVars, clientVars, queued, historyVars>>

(* A share of an older generation is dropped with an event. *)
DrainStale ==
  /\ cpc = "drain"
  /\ share_queue # <<>>
  /\ Head(share_queue).generation # work_generation
  /\ share_queue' = Tail(share_queue)
  /\ did_work' = TRUE
  /\ stale_discarded' = stale_discarded + 1
  /\ UNCHANGED <<cpc, published, work_generation, mainVars, first_error,
                 counterVars, workerVars, clientVars, queued, submitted, lost>>

(* Faulty variant: the generation of the share is not compared. *)
DrainSubmitUnchecked ==
  /\ cpc = "drain"
  /\ share_queue # <<>>
  /\ share_queue' = Tail(share_queue)
  /\ did_work' = TRUE
  /\ queued' = Head(share_queue)
  /\ submitted' = Append(submitted, Head(share_queue))
  /\ cpc' = "await"
  /\ UNCHANGED <<published, work_generation, mainVars, first_error,
                 counterVars, workerVars, clientVars, stale_discarded, lost>>

(* A share of the current generation is written to the pool. *)
DrainSubmit ==
  /\ cpc = "drain"
  /\ share_queue # <<>>
  /\ Head(share_queue).generation = work_generation
  /\ share_queue' = Tail(share_queue)
  /\ did_work' = TRUE
  /\ queued' = Head(share_queue)
  /\ submitted' = Append(submitted, Head(share_queue))
  /\ cpc' = "await"
  /\ UNCHANGED <<published, work_generation, mainVars, first_error,
                 counterVars, workerVars, clientVars, stale_discarded, lost>>

(* The write itself throws. *)
DrainSubmitFails ==
  /\ cpc = "drain"
  /\ share_queue # <<>>
  /\ Head(share_queue).generation = work_generation
  /\ share_queue' = Tail(share_queue)
  /\ did_work' = TRUE
  /\ lost' = lost + 1
  /\ ControlExits
  /\ RecordException("control")
  /\ UNCHANGED <<published, work_generation, mainVars, counterVars, workerVars,
                 clientVars, queued, submitted, stale_discarded>>

(* submit_share applies whatever arrives before the answer and drops the   *)
(* PollResult that would have asked for a publication.                     *)
AwaitRead ==
  /\ cpc = "await"
  /\ Receive
  /\ UNCHANGED <<cpc, controlOnly, first_error, did_work, queued, historyVars>>

(* Faulty variant: only an accepted share is counted. *)
AwaitAnswerUncounted ==
  /\ cpc = "await"
  /\ shares_accepted' \in {shares_accepted, shares_accepted + 1}
  /\ queued' = NoShare
  /\ cpc' = "drain"
  /\ UNCHANGED <<sharedVars, mainVars, first_error, shares_found,
                 shares_rejected, workerVars, clientVars, did_work, historyVars>>

(* The answer to the share in flight, accepted or rejected, is counted. *)
AwaitAnswer ==
  /\ cpc = "await"
  /\ \/ /\ shares_accepted' = shares_accepted + 1
        /\ UNCHANGED shares_rejected
     \/ /\ shares_rejected' = shares_rejected + 1
        /\ UNCHANGED shares_accepted
  /\ queued' = NoShare
  /\ cpc' = "drain"
  /\ UNCHANGED <<sharedVars, mainVars, first_error, shares_found, workerVars,
                 clientVars, did_work, historyVars>>

AwaitFails ==
  /\ cpc = "await"
  /\ queued' = NoShare
  /\ lost' = lost + 1
  /\ ControlExits
  /\ RecordException("control")
  /\ UNCHANGED <<controlOnly, clientVars, did_work, submitted, stale_discarded>>

(* Nothing to read, or a line that is empty or unparsable. *)
PollNothing ==
  /\ cpc = "poll"
  /\ cpc' = IF did_work THEN "loop" ELSE "idle"
  /\ UNCHANGED <<controlOnly, first_error, clientVars, did_work, queued,
                 historyVars>>

(* Every notify invalidates the work, and so does a changed difficulty. *)
PollNewWork ==
  /\ cpc = "poll"
  /\ work_generation < MaxGeneration
  /\ \/ \E j \in Jobs : ReceiveNotify(j)
     \/ \E d \in Difficulties \ {difficulty} : ReceiveDifficulty(d)
  /\ did_work' = TRUE
  /\ cpc' = "publish"
  /\ UNCHANGED <<controlOnly, first_error, queued, historyVars>>

(* Any other message only counts as work done. *)
PollOther ==
  /\ cpc = "poll"
  /\ did_work' = TRUE
  /\ cpc' = "loop"
  /\ UNCHANGED <<controlOnly, first_error, clientVars, queued, historyVars>>

(* control_idle_wait: wait_pop_for returns without a share, on its timeout *)
(* or because a stop was requested.                                        *)
IdleTimeout ==
  /\ cpc = "idle"
  /\ share_queue = <<>> \/ stop_control
  /\ cpc' = "loop"
  /\ UNCHANGED <<controlOnly, first_error, clientVars, did_work, queued,
                 historyVars>>

(* Faulty variant: the share is read but stays at the front. *)
IdlePeek ==
  /\ cpc = "idle"
  /\ share_queue # <<>>
  /\ ~stop_control
  /\ queued' = Head(share_queue)
  /\ cpc' = "hold"
  /\ UNCHANGED <<controlOnly, first_error, clientVars, did_work, historyVars>>

(* wait_pop_for returns with the front share. *)
IdlePop ==
  /\ cpc = "idle"
  /\ share_queue # <<>>
  /\ ~stop_control
  /\ queued' = Head(share_queue)
  /\ share_queue' = Tail(share_queue)
  /\ cpc' = "hold"
  /\ UNCHANGED <<published, work_generation, mainVars, first_error,
                 counterVars, workerVars, clientVars, did_work, historyVars>>

(* The popped share goes to the back of the queue, unless a stop request   *)
(* came in between: then it is gone.                                       *)
IdleRequeue ==
  /\ cpc = "hold"
  /\ queued' = NoShare
  /\ cpc' = "loop"
  /\ IF stop_control
       THEN lost' = lost + 1 /\ UNCHANGED share_queue
       ELSE share_queue' = Append(share_queue, queued) /\ UNCHANGED lost
  /\ UNCHANGED <<published, work_generation, mainVars, first_error,
                 counterVars, workerVars, clientVars, did_work, submitted,
                 stale_discarded>>

Control ==
  \/ StartupRead
  \/ ReadFails
  \/ PublishFails
  \/ PublishGeneration
  \/ PublishStore
  \/ ControlLoop
  \/ DrainEmpty
  \/ DrainStale
  \/ DrainSubmit
  \/ DrainSubmitFails
  \/ AwaitRead
  \/ AwaitAnswer
  \/ AwaitFails
  \/ PollNothing
  \/ PollNewWork
  \/ PollOther
  \/ IdleTimeout
  \/ IdlePop
  \/ IdleRequeue

-----------------------------------------------------------------------------
(* The worker thread. *)

workerOnly == <<sharedVars, mainVars, first_error, shares_accepted,
                shares_rejected, controlVars, historyVars>>

(* Faulty variant: waiting for work ignores a stop request. *)
WorkerWaitUnstoppable ==
  /\ wpc = "wait"
  /\ wpc' = "lock"
  /\ UNCHANGED <<workerOnly, shares_found, adopted, extranonce2, work_nonce,
                 scan_nonce>>

(* wait_for_published_work: the stop check comes first. *)
WorkerWait ==
  /\ wpc = "wait"
  /\ wpc' = IF stop_worker THEN "exited" ELSE "lock"
  /\ UNCHANGED <<workerOnly, shares_found, adopted, extranonce2, work_nonce,
                 scan_nonce>>

(* Nothing published yet: wait on the condition variable, then check again. *)
WorkerNothingPublished ==
  /\ wpc = "lock"
  /\ published = NoWork
  /\ wpc' = "wait"
  /\ UNCHANGED <<workerOnly, shares_found, adopted, extranonce2, work_nonce,
                 scan_nonce>>

(* Copy the published work; it may be older than work_generation. *)
WorkerAdopt ==
  /\ wpc = "lock"
  /\ published # NoWork
  /\ published.generation = work_generation \/ shares_found < MaxFound
  /\ adopted' = published
  /\ extranonce2' = 0
  /\ work_nonce' = 0
  /\ wpc' = "chunk"
  /\ UNCHANGED <<workerOnly, shares_found, scan_nonce>>

(* make_scan_chunk: the last nonce of the chunk that starts at n. *)
ChunkEnd(n) == IF ChunkSize < MaxNonce - n + 1 THEN n + ChunkSize - 1 ELSE MaxNonce

(* while (!stop_token.stop_requested()), then enter scan_nonce_range. *)
WorkerChunk ==
  /\ wpc = "chunk"
  /\ IF stop_worker
       THEN wpc' = "wait" /\ UNCHANGED scan_nonce
       ELSE wpc' = "scan" /\ scan_nonce' = work_nonce
  /\ UNCHANGED <<workerOnly, shares_found, adopted, extranonce2, work_nonce>>

(* The head of the scan loop: range exhausted, stop requested, or go on. *)
WorkerScan ==
  /\ wpc = "scan"
  /\ wpc' = IF scan_nonce > ChunkEnd(work_nonce) THEN "result"
            ELSE IF stop_worker THEN "exited"
            ELSE "hash"
  /\ UNCHANGED <<workerOnly, shares_found, adopted, extranonce2, work_nonce,
                 scan_nonce>>

(* generation_changed: looked at every CheckInterval hashes of a scan. *)
GenerationChanged ==
  /\ (scan_nonce - work_nonce + 1) % CheckInterval = 0
  /\ work_generation # adopted.generation

MeetsShareTarget(work, e, n) == Hash[work.job][e][n] <= ShareTarget[work.difficulty]

(* Faulty variant: a stale scan is restarted on the same work. *)
WorkerStaleRestarts ==
  /\ wpc = "hash"
  /\ GenerationChanged
  /\ wpc' = "chunk"
  /\ UNCHANGED <<workerOnly, shares_found, adopted, extranonce2, work_nonce,
                 scan_nonce>>

(* The scan ends stale: the hash just computed is not evaluated. *)
WorkerStale ==
  /\ wpc = "hash"
  /\ GenerationChanged
  /\ wpc' = "wait"
  /\ UNCHANGED <<workerOnly, shares_found, adopted, extranonce2, work_nonce,
                 scan_nonce>>

WorkerMiss ==
  /\ wpc = "hash"
  /\ ~GenerationChanged
  /\ ~MeetsShareTarget(adopted, extranonce2, scan_nonce)
  /\ scan_nonce' = scan_nonce + 1
  /\ wpc' = "scan"
  /\ UNCHANGED <<workerOnly, shares_found, adopted, extranonce2, work_nonce>>

(* handle_found_share counts the share before it queues it. *)
WorkerFind ==
  /\ wpc = "hash"
  /\ ~GenerationChanged
  /\ MeetsShareTarget(adopted, extranonce2, scan_nonce)
  /\ shares_found' = shares_found + 1
  /\ wpc' = "found"
  /\ UNCHANGED <<workerOnly, adopted, extranonce2, work_nonce, scan_nonce>>

(* Faulty variant: the candidate is stamped with the live generation. *)
CandidateRestamped == [job |-> adopted.job, extranonce2 |-> extranonce2,
                       nonce |-> scan_nonce, generation |-> work_generation]

(* The share carries the generation of the work it was found on. *)
Candidate == [job |-> adopted.job, extranonce2 |-> extranonce2,
              nonce |-> scan_nonce, generation |-> adopted.generation]

WorkerPush ==
  /\ wpc = "found"
  /\ share_queue' = Append(share_queue, Candidate)
  /\ scan_nonce' = scan_nonce + 1
  /\ wpc' = "scan"
  /\ UNCHANGED <<work_generation, published, mainVars, first_error, counterVars,
                 controlVars, historyVars, adopted, extranonce2, work_nonce>>

(* Faulty variant: extranonce2 is not advanced behind the last nonce. *)
WorkerRescans ==
  /\ wpc = "result"
  /\ work_nonce' = IF ChunkEnd(work_nonce) = MaxNonce
                     THEN 0 ELSE ChunkEnd(work_nonce) + 1
  /\ wpc' = "chunk"
  /\ UNCHANGED <<workerOnly, shares_found, adopted, extranonce2, scan_nonce>>

(* handle_scan_result on a completed chunk: the next chunk starts behind   *)
(* it, or at nonce 0 of the next extranonce2.                              *)
WorkerNextChunk ==
  /\ wpc = "result"
  /\ IF ChunkEnd(work_nonce) = MaxNonce
       THEN /\ extranonce2 < MaxExtranonce2
            /\ extranonce2' = extranonce2 + 1
            /\ work_nonce' = 0
       ELSE /\ work_nonce' = ChunkEnd(work_nonce) + 1
            /\ UNCHANGED extranonce2
  /\ wpc' = "chunk"
  /\ UNCHANGED <<workerOnly, shares_found, adopted, scan_nonce>>

(* advance_extranonce2 throws when the extranonce2 space is used up.  A    *)
(* space of eight bytes is never used up: its counter would wrap instead,  *)
(* after 2^64 steps (NextCounter in WorkAssembly).                         *)
WorkerExhausted ==
  /\ wpc = "result"
  /\ ChunkEnd(work_nonce) = MaxNonce
  /\ extranonce2 = MaxExtranonce2
  /\ wpc' = "exited"
  /\ RecordException("worker")
  /\ UNCHANGED <<sharedVars, mainVars, counterVars, controlVars, historyVars,
                 adopted, extranonce2, work_nonce, scan_nonce>>

Worker ==
  \/ WorkerWait
  \/ WorkerNothingPublished
  \/ WorkerAdopt
  \/ WorkerChunk
  \/ WorkerScan
  \/ WorkerStale
  \/ WorkerMiss
  \/ WorkerFind
  \/ WorkerPush
  \/ WorkerNextChunk
  \/ WorkerExhausted

-----------------------------------------------------------------------------
(* The main thread: a SIGINT or the first error stops control, then worker. *)

mainOnly == <<sharedVars, first_error, counterVars, controlVars, workerVars,
              historyVars>>

Interrupt ==
  /\ ~stop_control
  /\ stop_control' = TRUE
  /\ UNCHANGED <<mainOnly, stop_worker>>

FatalError ==
  /\ first_error # "none"
  /\ ~stop_control
  /\ stop_control' = TRUE
  /\ UNCHANGED <<mainOnly, stop_worker>>

StopWorker ==
  /\ stop_control
  /\ ~stop_worker
  /\ stop_worker' = TRUE
  /\ UNCHANGED <<mainOnly, stop_control>>

Terminated ==
  /\ cpc = "exited"
  /\ wpc = "exited"
  /\ UNCHANGED vars

Next == Control \/ Worker \/ Interrupt \/ FatalError \/ StopWorker \/ Terminated

(* Either jthread or main takes the next step: nothing in main.cpp 850-973   *)
(* orders them, so safety is claimed of every interleaving.                  *)
Spec == Init /\ [][Next]_vars

-----------------------------------------------------------------------------
(* Safety. *)

Queued == ToSet(share_queue)
Submitted == ToSet(submitted)
Held == IF cpc = "hold" THEN {queued} ELSE {}
Pipeline == Queued \cup Held \cup Submitted

IsCurrent(s) == s.generation = work_generation

(* No candidate is sent to the pool twice under the same generation,       *)
(* although the worker re-adopts published work, rescans it after a missed *)
(* generation change, and control_idle_wait takes shares out of the queue  *)
(* and puts them back (main.cpp 356-422, 520-529).                         *)
UniqueSubmissions == IsInjective(submitted)

(* Whatever waits to be sent under the current generation was found on the *)
(* work now published: its job is the published job and its hash meets the *)
(* target of the published difficulty.  The worker's copy, the generation  *)
(* counter and the published work are three separate reads (main.cpp       *)
(* 475-481, 407-422).                                                      *)
ShareProvenance ==
  \A s \in Queued \cup Held : IsCurrent(s) =>
    /\ s.generation = published.generation
    /\ s.job = published.job
    /\ MeetsShareTarget(published, s.extranonce2, s.nonce)

(* Submissions reach the pool in the order of their generations: requeuing *)
(* at the back of the queue never lets an older share overtake.            *)
SubmissionsInOrder ==
  \A i, j \in DOMAIN submitted :
    i < j => submitted[i].generation <= submitted[j].generation

(* A share in a thread's hands: counted but not queued yet, or popped. *)
BeingQueued == IF wpc = "found" THEN 1 ELSE 0
BeingHandled == IF cpc \in {"await", "hold"} THEN 1 ELSE 0

(* The counters the status line shows add up: a share counted as found is  *)
(* about to be queued, queued, in the control thread's hands, answered,    *)
(* discarded as stale or lost.  At most one is ever lost without an answer *)
(* or an event, and only while the program is stopping (main.cpp 424-437,  *)
(* 356-405, 520-529).                                                      *)
SharesAccountedFor ==
  /\ shares_found =
       BeingQueued + Len(share_queue) + BeingHandled
       + shares_accepted + shares_rejected + stale_discarded + lost
  /\ lost <= 1
  /\ lost = 1 => stop_control \/ first_error # "none"

(* What ShareDelivery calls open and closing. *)
OpenShares == {s \in Queued \cup Held : IsCurrent(s)}
Closing == stop_control \/ first_error # "none"

(* The whole pipeline delivers shares as ShareDelivery promises. *)
Delivery == INSTANCE ShareDelivery WITH
  Share <- Share,
  generation <- work_generation,
  open <- OpenShares,
  delivered <- submitted,
  closing <- Closing
DeliverySpec == Delivery!Spec

-----------------------------------------------------------------------------
(* The inductive invariant behind UniqueSubmissions. *)

(* Work that was published, or none yet. *)
IsPublication(w) == w # NoWork => w.job \in Jobs /\ w.generation > 0

(* What each thread has in hand at each of its steps. *)
FlowInv ==
  /\ cpc = "startup" => work_generation = 0
  /\ cpc = "publish" => work_generation < MaxGeneration
  /\ cpc = "store" => work_generation > 0
  /\ cpc \notin {"startup", "exited"} => current_job \in Jobs
  /\ cpc \in {"await", "hold"} => queued \in Share
  /\ IsPublication(published)
  /\ IsPublication(adopted)
  /\ wpc \in {"chunk", "scan", "hash", "found", "result"} => adopted # NoWork
  /\ wpc = "scan" => scan_nonce \in work_nonce .. ChunkEnd(work_nonce) + 1
  /\ wpc \in {"hash", "found"} => scan_nonce \in work_nonce .. ChunkEnd(work_nonce)
  /\ wpc = "result" => scan_nonce = ChunkEnd(work_nonce) + 1

(* Every variable has its type, and each thread what its step needs.       *)
TypeInv == TypeOK /\ FlowInv

(* Generations move from the counter to the published work, to the worker, *)
(* to the shares, and none overtakes.                                      *)
GenerationsOrdered ==
  /\ IF cpc = "store" THEN published.generation < work_generation
                      ELSE published.generation = work_generation
  /\ adopted.generation <= published.generation
  /\ \A s \in Pipeline : s.generation <= adopted.generation

(* The worker goes back for work only when its own is superseded, or to stop. *)
ReadoptsNewer ==
  /\ wpc = "lock" => adopted = NoWork \/ adopted.generation < work_generation
  /\ wpc = "wait" => \/ adopted = NoWork
                     \/ adopted.generation < work_generation
                     \/ stop_worker

(* The nonce of the current extranonce2 the worker hashes next. *)
Position == IF wpc = "chunk" THEN work_nonce ELSE scan_nonce

BehindWorker(s) ==
  \/ s.extranonce2 < extranonce2
  \/ s.extranonce2 = extranonce2 /\ s.nonce < Position

(* Shares of the work being scanned lie behind the worker's position. *)
SharesBehindWorker ==
  /\ adopted.generation = work_generation
  /\ wpc \in {"chunk", "scan", "hash", "found", "result"}
  => \A s \in Pipeline : IsCurrent(s) => BehindWorker(s)

(* The elements of generation g occur in a sequence of shares once. *)
UniqueIn(shares, g) ==
  \A i, j \in DOMAIN shares :
    shares[i].generation = g /\ shares[i] = shares[j] => i = j

(* A current share is in one place only. *)
CurrentSharesUnique ==
  /\ UniqueIn(share_queue, work_generation)
  /\ \A s \in Queued \cup Held : IsCurrent(s) => s \notin Submitted
  /\ \A s \in Held : IsCurrent(s) => s \notin Queued

(* The conjunction that every step preserves. *)
UniquenessInv ==
  /\ GenerationsOrdered
  /\ ReadoptsNewer
  /\ SharesBehindWorker
  /\ CurrentSharesUnique
  /\ UniqueSubmissions

(* The worker's copy of the generation now published is the published      *)
(* work, and a share is found only where the hash meets its target.        *)
WorkerProvenance ==
  /\ adopted.generation = published.generation => adopted = published
  /\ wpc = "found" => MeetsShareTarget(adopted, extranonce2, scan_nonce)

(* Behind a lost share the control thread has only its exit left. *)
LossEndsControl ==
  lost > 0 => cpc = "exited" \/ (cpc = "loop" /\ stop_control)

(* The inductive invariant of the share path: all of its properties, and   *)
(* what they rest on.                                                      *)
PipelineInv ==
  /\ UniquenessInv
  /\ ShareProvenance
  /\ WorkerProvenance
  /\ SubmissionsInOrder
  /\ SharesAccountedFor
  /\ LossEndsControl

-----------------------------------------------------------------------------
(* Liveness, under the fairness of Mining, which has the pool's part in it. *)

(* Every queued share leaves the queue for good, submitted or discarded,   *)
(* unless the control thread ends: idling with a share in hand does not    *)
(* keep it circulating (main.cpp 356-405, 520-529).                        *)
QueueDrains ==
  \A g \in 1 .. MaxGeneration :
    (\E s \in Queued \cup Held : s.generation = g)
      ~> (cpc = "exited" \/ \A s \in Queued \cup Held : s.generation # g)

(* A worker on superseded work comes to adopt what is then published,      *)
(* unless it is stopped: neither the check interval nor the end of a chunk *)
(* lets it miss a publication for good (main.cpp 407-422, 906-940;         *)
(* scan.cpp 16-24).                                                        *)
NewWorkAdopted ==
  (adopted.generation < published.generation)
    ~> (adopted.generation = published.generation \/ stop_worker)

(* A requested stop, by SIGINT or by an error, ends both threads, provided *)
(* the pool answers what the control thread waits for (main.cpp 850-973).  *)
StopCompletes ==
  (stop_control \/ first_error # "none") ~> (cpc = "exited" /\ wpc = "exited")

(* Once the client's job is one whose notify said clean_jobs, no share of  *)
(* another job is submitted: doc/ckpool-derived-stratum-v1-spec.md line 238 *)
(* says the flag tells whether prior jobs should be discarded.             *)
DiscardedJobsNotSubmitted ==
  [][submitted' # submitted /\ current_job \in CleanJobs
       => Last(submitted').job = current_job]_vars

=============================================================================
