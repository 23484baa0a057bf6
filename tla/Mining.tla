------------------------------- MODULE Mining -------------------------------
(***************************************************************************)
(* The miner against a pool: MinerPipeline with the client of              *)
(* StratumClient in the place of its free reads (main.cpp 850-896 on       *)
(* stratum_client.cpp).  The two modules share what the client knows:      *)
(* subscribed, current_job and difficulty.                                 *)
(*                                                                         *)
(* Where the control thread calls the client, a step is the client's step  *)
(* together with what the control thread does with its outcome; all other  *)
(* steps are those of one module.  MinerPipeline lets a read return        *)
(* anything; that the composition implements it is proved, not assumed.    *)
(***************************************************************************)
EXTENDS MinerPipeline, FiniteSets

CONSTANTS
  PiecesPerLine, \* of StratumClient: how finely the network cuts lines
  MaxSubmits,   \* bound of StratumClient: shares submitted
  MaxPushes,    \* bound of StratumClient: unsolicited lines
  IntMax,       \* of Messages
  Noise,        \* of StratumClient: lines that carry nothing
  Unrestricted  \* the pool and SIGINT do all that the two modules let them

VARIABLES
  (* Of StratumClient; the other three are the pipeline's. *)
  requests, kernel, connected, call, buffer, next_id, poll_result,
  sent, consumed, verdicts,
  (* History. *)
  swallowed     \* submit_share read what poll would have published

Client == INSTANCE StratumClient

(* Each module's variables without the shared three. *)
pipelineOnly == <<sharedVars, mainVars, first_error, counterVars, cpc,
                  did_work, queued, workerVars, historyVars>>
clientOnly == <<requests, kernel, connected, call, buffer, next_id,
                poll_result, sent, consumed, verdicts>>
miningVars == <<vars, clientOnly, swallowed>>

(* What StratumClient and Messages ask of their constants, and bounds of   *)
(* the pipeline that never cut off what the client's allow.                *)
ASSUME MiningAssumption ==
  /\ PiecesPerLine \in Nat \ {0}
  /\ MaxSubmits \in Nat
  /\ MaxPushes \in Nat
  /\ IntMax \in Nat
  /\ IntMax >= 4 + MaxSubmits
  /\ Noise \subseteq {"text", "short_notify", "wide_id"}
  /\ Unrestricted \in BOOLEAN
  /\ MaxPushes <= MaxGeneration
  /\ MaxSubmits >= MaxGeneration * (MaxExtranonce2 + 1) * (MaxNonce + 1)

MiningInit == Init /\ Client!Init /\ swallowed = FALSE

-----------------------------------------------------------------------------
(* The control thread where it calls the client. *)

(* Faulty variant: every message is published. *)
AfterPollAny(result) ==
  /\ did_work' = (did_work \/ result # "nothing")
  /\ cpc' = IF result # "nothing" THEN "publish"
            ELSE IF did_work' THEN "loop"
            ELSE "idle"

(* What the control loop makes of a PollResult. *)
AfterPoll(result) ==
  /\ did_work' = (did_work \/ result # "nothing")
  /\ cpc' = IF result = "work_invalidated" THEN "publish"
            ELSE IF did_work' THEN "loop"
            ELSE "idle"

(* subscribe, suggest_difficulty, authorize; then lines until ready. *)
Connect == Client!Handshake /\ UNCHANGED <<pipelineOnly, swallowed>>

BecomeReady ==
  /\ Client!StartupLine
  /\ cpc' = IF call' = "none" THEN "publish" ELSE cpc
  /\ UNCHANGED <<controlOnly, first_error, did_work, queued, historyVars, swallowed>>

(* poll finds something to read, or bytes move to buffer_ during a call. *)
Read ==
  /\ Client!ReadSome \/ (cpc = "poll" /\ Client!Poll)
  /\ UNCHANGED <<pipelineOnly, swallowed>>

PollsNothing ==
  /\ cpc = "poll"
  /\ Client!PollNothing
  /\ AfterPoll("nothing")
  /\ UNCHANGED <<controlOnly, first_error, queued, historyVars, swallowed>>

PollsLine ==
  /\ Client!PollLine
  /\ AfterPoll(poll_result')
  /\ UNCHANGED <<controlOnly, first_error, queued, historyVars, swallowed>>

Submits == DrainSubmit /\ Client!SubmitShare /\ UNCHANGED swallowed

SubmitFails == DrainSubmitFails /\ Client!SendFails /\ UNCHANGED swallowed

(* submit_share reads on; nobody looks at this message's PollResult. *)
ReadsOther ==
  /\ Client!SubmitLineOther
  /\ \E parsed \in Client!Received :
       swallowed' = (swallowed \/ Client!Invalidates(parsed))
  /\ UNCHANGED pipelineOnly

(* Faulty variant: a share that got an answer is an accepted one. *)
ReadsAnswerAccepts ==
  /\ Client!SubmitLineAnswer
  /\ shares_accepted' = shares_accepted + 1
  /\ queued' = NoShare
  /\ cpc' = "drain"
  /\ UNCHANGED <<sharedVars, mainVars, first_error, shares_found, shares_rejected,
                 workerVars, did_work, historyVars, swallowed>>

ReadsAnswer ==
  /\ Client!SubmitLineAnswer
  /\ IF Last(verdicts')[2]
       THEN shares_accepted' = shares_accepted + 1 /\ UNCHANGED shares_rejected
       ELSE shares_rejected' = shares_rejected + 1 /\ UNCHANGED shares_accepted
  /\ queued' = NoShare
  /\ cpc' = "drain"
  /\ UNCHANGED <<sharedVars, mainVars, first_error, shares_found, workerVars,
                 did_work, historyVars, swallowed>>

(* A write of the handshake or any read throws: the share in flight is lost. *)
ClientThrows ==
  /\ Client!ReadEof \/ (cpc = "startup" /\ Client!SendFails)
  /\ ControlExits
  /\ RecordException("control")
  /\ IF cpc = "await"
       THEN queued' = NoShare /\ lost' = lost + 1
       ELSE UNCHANGED <<queued, lost>>
  /\ UNCHANGED <<controlOnly, did_work, submitted, stale_discarded, swallowed>>

(* Storing the client's work ends what submit_share began. *)
Stores == PublishStore /\ swallowed' = FALSE /\ UNCHANGED clientOnly

(* What the control thread does without the client. *)
ControlAlone ==
  /\ \/ PublishFails
     \/ PublishGeneration
     \/ ControlLoop
     \/ DrainEmpty
     \/ DrainStale
     \/ IdleTimeout
     \/ IdlePop
     \/ IdleRequeue
  /\ UNCHANGED <<clientOnly, swallowed>>

ControlThread ==
  \/ Connect
  \/ BecomeReady
  \/ Read
  \/ PollsNothing
  \/ PollsLine
  \/ Submits
  \/ SubmitFails
  \/ ReadsOther
  \/ ReadsAnswer
  \/ ClientThrows
  \/ Stores
  \/ ControlAlone

-----------------------------------------------------------------------------
(* Everyone else. *)

Notifies(line) == line.method = "mining.notify"

(* The client, and with it the connection, ends with the control thread. *)
PoolOnly == cpc # "exited" /\ UNCHANGED <<pipelineOnly, swallowed>>

(* Unless it is Unrestricted, the pool keeps an unsolicited line for a     *)
(* job, leaves the difficulty that the client begins with unsaid,          *)
(* authorizes the miner, answers in the order of the requests and closes   *)
(* without dropping what it wrote.                                         *)
Orderly ==
  /\ Last(sent') # Client!SetDifficulty(InitialDifficulty)
  /\ \/ \E i \in DOMAIN sent' : Notifies(sent'[i])
     \/ Cardinality({i \in DOMAIN sent' : sent'[i].id = 0}) < MaxPushes

Pushes ==
  /\ Client!PoolPush
  /\ ~Unrestricted => Orderly
  /\ PoolOnly

InOrder ==
  /\ Last(sent').result # "false"
  /\ \A request \in requests' : Client!IdOf(request) > Last(sent').id

Answers ==
  /\ Client!PoolAnswer
  /\ ~Unrestricted => InOrder
  /\ PoolOnly

Closes ==
  /\ Client!PoolClose
  /\ ~Unrestricted => UNCHANGED kernel
  /\ PoolOnly

WorkerThread == Worker /\ UNCHANGED <<clientOnly, swallowed>>

(* SIGINT comes at any time, or while the control thread waits for the     *)
(* pool; the first error takes the same path at any time.                  *)
MainThread ==
  /\ \/ FatalError
     \/ StopWorker
     \/ Interrupt /\ (Unrestricted \/ cpc \in {"startup", "await"})
  /\ UNCHANGED <<clientOnly, swallowed>>

MiningNext ==
  \/ ControlThread
  \/ WorkerThread
  \/ MainThread
  \/ Pushes
  \/ Answers
  \/ Closes
  \/ Terminated /\ UNCHANGED miningVars

MiningSpec == MiningInit /\ [][MiningNext]_miningVars

(* The few nonces of an instance stand for a space nobody uses up: the end *)
(* of the worker by exhaustion is only forced where it would have gone on  *)
(* to see a stop or newer work.                                            *)
WorkerGoesOn ==
  /\ WorkerThread
  /\ wpc' = "exited" => stop_worker \/ adopted.generation # work_generation

(* Threads are scheduled, the pool has a job and answers its requests.     *)
(* Unlike in MinerPipeline, nothing is assumed of what a read returns.     *)
MiningFairSpec ==
  /\ MiningSpec
  /\ WF_miningVars(ControlThread)
  /\ WF_miningVars(WorkerGoesOn)
  /\ WF_miningVars((FatalError \/ StopWorker) /\ UNCHANGED <<clientOnly, swallowed>>)
  /\ WF_miningVars(Answers)
  /\ WF_miningVars(/\ Pushes
                   /\ Notifies(Last(sent'))
                   /\ \A i \in DOMAIN sent : ~Notifies(sent[i]))

-----------------------------------------------------------------------------
(* Properties. *)

(* What MinerPipeline assumes of a read is all that the client's reads can *)
(* do: with the client in its place the control thread takes no step that  *)
(* MinerPipeline does not have, so its invariants and theorems hold here   *)
(* (main.cpp 874-886; stratum_client.cpp 113-119, 175-260).                *)
PipelineSpec == Spec

(* Between two publications the published work is the client's own, unless *)
(* submit_share read a message that superseded it: whatever poll reads is  *)
(* published before the next share is looked at (main.cpp 865, 870-882;    *)
(* stratum_client.cpp 242-257).                                            *)
OnlySubmitsSwallow ==
  cpc \in {"loop", "drain", "await", "poll", "idle", "hold"} /\ ~swallowed =>
    /\ published.job = current_job
    /\ published.difficulty = difficulty

AcceptedByPool ==
  Cardinality({i \in DOMAIN sent :
                 sent[i].id >= Client!FirstSubmitId /\ sent[i].result = "true"})

(* The accepted shares the miner counts are those the pool accepted, short *)
(* of at most the one whose answer has not been read, and nothing else is  *)
(* counted as rejected: answers to the handshake, late or early, and lines *)
(* read while waiting do not disturb the counts (main.cpp 384-388;         *)
(* stratum_client.cpp 229-255).                                            *)
CountsArePools ==
  /\ shares_accepted <= AcceptedByPool
  /\ AcceptedByPool - shares_accepted <= Len(submitted) - Len(verdicts)
  /\ shares_accepted + shares_rejected = Len(verdicts)
  /\ Len(submitted) - Len(verdicts) \in
       CASE cpc = "await" -> {1} [] cpc = "exited" -> {0, 1} [] OTHER -> {0}

(* What the pool has sent reaches the client, however busy the control     *)
(* thread is with shares, unless the thread ends.  Lines that an earlier   *)
(* read left in buffer_ are another matter: poll does not look there       *)
(* (stratum_client.cpp 196-209; main.cpp 356-405, 870-888).                *)
SocketDrains == (kernel # <<>>) ~> (kernel = <<>> \/ cpc = "exited")

(* submit_share returns or throws: the answer is found behind pushed work, *)
(* garbage and late answers, however the bytes arrive (stratum_client.cpp  *)
(* 229-260).                                                               *)
SubmitReturns == Client!SubmitReturns

=============================================================================
