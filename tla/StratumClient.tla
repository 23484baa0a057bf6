--------------------------- MODULE StratumClient ---------------------------
(***************************************************************************)
(* The Stratum client on its socket (stratum_client.cpp).                  *)
(*                                                                         *)
(* The pool's lines cross two buffers: the kernel's receive buffer, which  *)
(* poll() asks about, and buffer_, which read_until fills with as many     *)
(* bytes as one read returns and getline empties a line at a time.  A line *)
(* is several pieces on the wire, the last ending in the newline, and so   *)
(* can arrive in parts or together with its neighbours.                    *)
(*                                                                         *)
(* run_until_ready, poll and submit_share are the readers; the control     *)
(* loop that calls them is reduced to a choice of the next call, and the   *)
(* pool to answering requests in any order, pushing work at any time and   *)
(* closing or resetting the connection.                                    *)
(***************************************************************************)
EXTENDS Messages, FiniteSets, SequencesExt

CONSTANTS
  Jobs,              \* job ids the pool may notify
  NoJob,             \* current_job_ without a value
  Difficulties,      \* difficulties the pool may set
  InitialDifficulty, \* difficulty_ before any set_difficulty
  PiecesPerLine,     \* how finely the network may cut a line
  MaxSubmits,        \* bound: shares submitted in a behaviour
  MaxPushes,         \* bound: unsolicited lines the pool sends
  Noise              \* unsolicited lines that carry nothing for the miner

ASSUME ClientAssumption ==
  /\ NoJob \notin Jobs
  /\ InitialDifficulty \in Difficulties
  /\ PiecesPerLine \in Nat \ {0}
  /\ MaxSubmits \in Nat
  /\ MaxPushes \in Nat
  /\ IntMax >= 4 + MaxSubmits
  /\ Noise \subseteq {"text", "short_notify", "wide_id"}

SubscribeId == 1
SuggestId == 2
AuthorizeId == 3
FirstSubmitId == 4
Ids == 1 .. FirstSubmitId + MaxSubmits

(* A line of the pool by what it says, its id 0 for null.  Json is the     *)
(* value it spells.                                                        *)
Line(method, id, result, param) ==
  [method |-> method, id |-> id, result |-> result, param |-> param]

Notify(j) == Line("mining.notify", 0, "absent", j)
SetDifficulty(d) == Line("mining.set_difficulty", 0, "absent", d)
Response(id, result) == Line("absent", id, result, NoJob)
NoiseLine(kind) == Line(kind, 0, "absent", NoJob)

Pushes ==
  {Notify(j) : j \in Jobs} \cup {SetDifficulty(d) : d \in Difficulties}
  \cup {NoiseLine(kind) : kind \in Noise}
Responses ==
  {Response(SubscribeId, "subscription")}
  \cup {Response(id, r) : id \in Ids \ {SubscribeId}, r \in {"true", "false", "null"}}
Lines == Pushes \cup Responses

(* An id that would be that of a share in an int of half the width. *)
WideId == FirstSubmitId + 2 * (IntMax + 1)

MethodJson(method, params) ==
  Object([id |-> Null, method |-> String(method), params |-> Array(params)])

ResponseJson(id, result, error) ==
  Object([id |-> Int64(id), result |-> result, error |-> error])

JobJson(j) ==
  <<String(j), String("prevhash"), String("coinb1"), String("coinb2"),
    Array(<<String("branch")>>), String("version"), String("nbits"),
    String("ntime"), Bool(TRUE)>>

Json(line) ==
  CASE line.method = "mining.notify" -> MethodJson(line.method, JobJson(line.param))
    [] line.method = "mining.set_difficulty" ->
         MethodJson(line.method, <<Double(line.param)>>)
    [] line.method = "short_notify" ->
         MethodJson("mining.notify", SubSeq(JobJson(NoJob), 1, 8))
    [] line.method = "wide_id" -> ResponseJson(WideId, Bool(TRUE), Null)
    [] line.method = "text" -> String("no JSON object")
    [] line.result = "subscription" ->
         ResponseJson(line.id, Array(<<Array(<<>>), String("extranonce1"), Int64(4)>>),
                      Null)
    [] line.result = "null" -> ResponseJson(line.id, Null, String("reason"))
    [] OTHER -> ResponseJson(line.id, Bool(line.result = "true"), Null)

Is(parsed, type) == \E message \in parsed : message.type = type
MessageOf(parsed) == CHOOSE message \in parsed : TRUE

(* The requests the client writes.  The pool judges shares; what is in     *)
(* them does not matter here.                                              *)
Share == <<"worker_name", "job_id", "extranonce2_hex", "ntime_hex", "nonce_hex">>

RequestOf(id) ==
  CASE id = SubscribeId -> SubscribeRequest(id)
    [] id = SuggestId -> SuggestDifficultyRequest(id, "suggested")
    [] id = AuthorizeId -> AuthorizeRequest(id, "worker_name", "password")
    [] OTHER -> SubmitShareRequest(id, Share)

IdOf(request) == request.v["id"].v

VARIABLES
  (* The connection. *)
  requests,          \* requests the pool has not answered
  kernel,            \* pieces in the socket's receive buffer
  connected,         \* the pool has not closed the connection
  (* The client. *)
  call,              \* the operation in progress
  buffer,            \* buffer_, pieces read but not yet consumed
  next_id,           \* next_id_
  subscribed,        \* subscription_ has a value
  current_job,       \* current_job_
  difficulty,        \* difficulty_
  poll_result,       \* the last PollResult
  (* History. *)
  sent,              \* the lines the pool wrote, in order
  consumed,          \* how many of them the client has taken from buffer_
  verdicts           \* results of submit_share, as <<id, accepted>>

connectionVars == <<requests, kernel, connected>>
workVars == <<subscribed, current_job, difficulty>>
clientVars == <<call, buffer, next_id, workVars, poll_result>>
historyVars == <<sent, consumed, verdicts>>
vars == <<connectionVars, clientVars, historyVars>>

Calls == {"subscribe", "suggest_difficulty", "authorize", "run_until_ready",
          "none", "poll", "submit_share", "failed"}

(* got_message and work_invalidated; the second implies the first. *)
PollResults == {"nothing", "message", "work_invalidated"}

Piece == [line : Lines, newline : BOOLEAN]

TypeOK ==
  /\ requests \subseteq {RequestOf(id) : id \in Ids}
  /\ kernel \in Seq(Piece)
  /\ connected \in BOOLEAN
  /\ call \in Calls
  /\ buffer \in Seq(Piece)
  /\ next_id \in Ids
  /\ subscribed \in BOOLEAN
  /\ current_job \in Jobs \cup {NoJob}
  /\ difficulty \in Difficulties
  /\ poll_result \in PollResults
  /\ sent \in Seq(Lines)
  /\ consumed \in 0 .. Len(sent)
  /\ verdicts \in Seq(Ids \X BOOLEAN)

Init ==
  /\ requests = {}
  /\ kernel = <<>>
  /\ connected = TRUE
  /\ call = "subscribe"
  /\ buffer = <<>>
  /\ next_id = 1
  /\ subscribed = FALSE
  /\ current_job = NoJob
  /\ difficulty = InitialDifficulty
  /\ poll_result = "nothing"
  /\ sent = <<>>
  /\ consumed = 0
  /\ verdicts = <<>>

-----------------------------------------------------------------------------
(* The pool. *)

OnTheWire(line) ==
  [i \in 1 .. PiecesPerLine |-> [line |-> line, newline |-> i = PiecesPerLine]]

PoolWrites(line) ==
  /\ connected
  /\ kernel' = kernel \o OnTheWire(line)
  /\ sent' = Append(sent, line)
  /\ UNCHANGED <<connected, clientVars, consumed, verdicts>>

PoolPush ==
  /\ Cardinality({i \in DOMAIN sent : sent[i].id = 0}) < MaxPushes
  /\ \E line \in Pushes : PoolWrites(line)
  /\ UNCHANGED requests

(* mining.subscribe gets its array, every other request a boolean, and a   *)
(* rejected share possibly a null.                                         *)
ResultsFor(method) ==
  CASE method = "mining.subscribe" -> {"subscription"}
    [] method = "mining.suggest_difficulty" -> {"true"}
    [] method = "mining.authorize" -> {"true", "false"}
    [] method = "mining.submit" -> {"true", "null"}

PoolAnswer ==
  \E request \in requests :
    /\ \E result \in ResultsFor(request.v["method"].v) :
         PoolWrites(Response(IdOf(request), result))
    /\ requests' = requests \ {request}

(* A reset, unlike an orderly close, also drops what was not yet read. *)
PoolClose ==
  /\ connected
  /\ connected' = FALSE
  /\ kernel' \in {kernel, <<>>}
  /\ UNCHANGED <<requests, clientVars, historyVars>>

-----------------------------------------------------------------------------
(* The client's calls.                                                     *)

(* send_wire_message with next_id_++.  The first write after the pool has  *)
(* closed the connection may still succeed; its bytes go nowhere.          *)
Send(request) ==
  /\ requests' = IF connected THEN requests \cup {request} ELSE requests
  /\ next_id' = next_id + 1
  /\ UNCHANGED <<kernel, connected>>

(* subscribe, suggest_difficulty and authorize only write. *)
Handshake ==
  /\ \/ /\ call = "subscribe"
        /\ Send(SubscribeRequest(next_id))
        /\ call' = "suggest_difficulty"
     \/ /\ call = "suggest_difficulty"
        /\ Send(SuggestDifficultyRequest(next_id, "suggested"))
        /\ call' = "authorize"
     \/ /\ call = "authorize"
        /\ Send(AuthorizeRequest(next_id, "worker_name", "password"))
        /\ call' = "run_until_ready"
  /\ UNCHANGED <<buffer, workVars, poll_result, historyVars>>

(* submit_share writes its request and starts to read.  Its exception for  *)
(* an empty worker name is left out: authorize has set the name by then,   *)
(* to the user of the command line, which is not empty here.               *)
SubmitShare ==
  /\ call = "none"
  /\ next_id < FirstSubmitId + MaxSubmits
  /\ Send(SubmitShareRequest(next_id, Share))
  /\ call' = "submit_share"
  /\ UNCHANGED <<buffer, workVars, poll_result, historyVars>>

(* A write on a connection the pool has closed throws. *)
SendFails ==
  /\ ~connected
  /\ \/ call \in {"subscribe", "suggest_difficulty", "authorize"}
     \/ call = "none" /\ next_id < FirstSubmitId + MaxSubmits
  /\ call' = "failed"
  /\ UNCHANGED <<connectionVars, buffer, next_id, workVars, poll_result,
                 historyVars>>

(* Faulty variant: poll may give up although there is something to read. *)
PollNothingAnyway ==
  /\ call = "none"
  /\ poll_result' = "nothing"
  /\ UNCHANGED <<connectionVars, call, buffer, next_id, workVars, historyVars>>

(* poll asks the socket, not buffer_, whether there is something to read.  *)
PollNothing ==
  /\ call = "none"
  /\ kernel = <<>>
  /\ poll_result' = "nothing"
  /\ UNCHANGED <<connectionVars, call, buffer, next_id, workVars, historyVars>>

(* Bytes are available, perhaps less than a line. *)
Poll ==
  /\ call = "none"
  /\ kernel # <<>>
  /\ call' = "poll"
  /\ UNCHANGED <<connectionVars, buffer, next_id, workVars, poll_result,
                 historyVars>>

-----------------------------------------------------------------------------
(* read_line. *)

Reading == call \in {"run_until_ready", "poll", "submit_share"}
HasLine(pieces) == \E i \in DOMAIN pieces : pieces[i].newline

(* read_until reads on until there is a newline; one read takes what the   *)
(* kernel hands out, which may be more than the line.                      *)
ReadSome ==
  /\ Reading
  /\ ~HasLine(buffer)
  /\ \E n \in 1 .. Len(kernel) :
       /\ buffer' = buffer \o SubSeq(kernel, 1, n)
       /\ kernel' = SubSeq(kernel, n + 1, Len(kernel))
  /\ UNCHANGED <<requests, connected, call, next_id, workVars, poll_result,
                 historyVars>>

(* End of file before a newline throws. *)
ReadEof ==
  /\ Reading
  /\ ~HasLine(buffer)
  /\ kernel = <<>>
  /\ ~connected
  /\ call' = "failed"
  /\ UNCHANGED <<connectionVars, buffer, next_id, workVars, poll_result,
                 historyVars>>

(* getline: the first line leaves buffer_. *)
FirstNewline(pieces) ==
  CHOOSE i \in DOMAIN pieces :
    /\ pieces[i].newline
    /\ \A k \in 1 .. i - 1 : ~pieces[k].newline

FirstLine == buffer[FirstNewline(buffer)].line

(* Faulty variant: each call reads into a buffer of its own. *)
ConsumeLineDiscards ==
  /\ HasLine(buffer)
  /\ buffer' = <<>>
  /\ consumed' = consumed + 1
  /\ UNCHANGED <<connectionVars, next_id, sent>>

ConsumeLine ==
  /\ HasLine(buffer)
  /\ buffer' = SubSeq(buffer, FirstNewline(buffer) + 1, Len(buffer))
  /\ consumed' = consumed + 1
  /\ UNCHANGED <<connectionVars, next_id, sent>>

(* The optional message that the first line is parsed to. *)
Received == {parse_incoming_message(value) : value \in {Json(FirstLine)}}

(* apply_parsed_message. *)
Apply(parsed) ==
  /\ subscribed' = (subscribed \/ Is(parsed, "SubscribeResponse"))
  /\ current_job' =
       IF Is(parsed, "NotifyMessage") THEN MessageOf(parsed).job_id ELSE current_job
  /\ difficulty' = IF Is(parsed, "SetDifficultyMessage")
                     THEN MessageOf(parsed).difficulty ELSE difficulty

(* Faulty variant: a difficulty of its own does not invalidate work. *)
InvalidatesJobOnly(parsed) == Is(parsed, "NotifyMessage")

Invalidates(parsed) ==
  \/ Is(parsed, "NotifyMessage")
  \/ Is(parsed, "SetDifficultyMessage") /\ MessageOf(parsed).difficulty # difficulty

(* Faulty variant: a job is enough to be ready. *)
StartupLineEarly ==
  /\ call = "run_until_ready"
  /\ ConsumeLine
  /\ \E parsed \in Received : Apply(parsed)
  /\ call' = IF current_job' # NoJob THEN "none" ELSE call
  /\ UNCHANGED <<poll_result, verdicts>>

(* One line in run_until_ready, which stops as soon as the client is ready. *)
StartupLine ==
  /\ call = "run_until_ready"
  /\ ConsumeLine
  /\ \E parsed \in Received : Apply(parsed)
  /\ call' = IF subscribed' /\ current_job' # NoJob THEN "none" ELSE call
  /\ UNCHANGED <<poll_result, verdicts>>

(* The one line a poll handles. *)
PollLine ==
  /\ call = "poll"
  /\ ConsumeLine
  /\ \E parsed \in Received :
       /\ Apply(parsed)
       /\ poll_result' = CASE Invalidates(parsed) -> "work_invalidated"
                            [] parsed = nullopt -> "nothing"
                            [] OTHER -> "message"
  /\ call' = "none"
  /\ UNCHANGED verdicts

submit_id == next_id - 1

(* Only the response with the id of the request answers it. *)
Answers(parsed) == Is(parsed, "SubmitResponse") /\ MessageOf(parsed).id = submit_id

(* Faulty variant: lines that are not the answer are skipped. *)
SubmitLineSkipped ==
  /\ call = "submit_share"
  /\ ConsumeLine
  /\ \E parsed \in Received : ~Answers(parsed)
  /\ UNCHANGED <<call, workVars, poll_result, verdicts>>

(* Any other line changes the client's state; its PollResult is dropped. *)
SubmitLineOther ==
  /\ call = "submit_share"
  /\ ConsumeLine
  /\ \E parsed \in Received : ~Answers(parsed) /\ Apply(parsed)
  /\ UNCHANGED <<call, poll_result, verdicts>>

SubmitLineAnswer ==
  /\ call = "submit_share"
  /\ ConsumeLine
  /\ \E parsed \in Received :
       /\ Answers(parsed)
       /\ verdicts' = Append(verdicts, <<submit_id, MessageOf(parsed).accepted>>)
  /\ call' = "none"
  /\ UNCHANGED <<workVars, poll_result>>

-----------------------------------------------------------------------------

Pool == PoolPush \/ PoolAnswer \/ PoolClose

Client ==
  \/ Handshake
  \/ SubmitShare
  \/ SendFails
  \/ PollNothing
  \/ Poll
  \/ ReadSome
  \/ ReadEof
  \/ StartupLine
  \/ PollLine
  \/ SubmitLineOther
  \/ SubmitLineAnswer

(* The exception has left the client; the control thread ends with it. *)
Failed == call = "failed" /\ UNCHANGED vars

Next == Pool \/ Client \/ Failed

Spec == Init /\ [][Next]_vars

-----------------------------------------------------------------------------
(* Properties. *)

Operating == call \in {"none", "poll", "submit_share"}

(* Behind run_until_ready the client has what publish_latest_work demands, *)
(* a subscription and a job, and its ids are those of shares.              *)
ReadyInv ==
  /\ Operating => subscribed /\ current_job # NoJob /\ next_id >= FirstSubmitId
  /\ call = "submit_share" => submit_id >= FirstSubmitId
  /\ \A request \in requests : IdOf(request) < next_id

(* Every variable has its type, and each call what it relies on            *)
(* (stratum_client.cpp 113-119, 192-194; main.cpp 460-473).                *)
TypeInv == TypeOK /\ ReadyInv

(* The pieces of some lines, one line behind the other. *)
Wire(lines) ==
  [n \in 1 .. PiecesPerLine * Len(lines) |->
     [line |-> lines[(n - 1) \div PiecesPerLine + 1],
      newline |-> n % PiecesPerLine = 0]]

(* What the pool wrote and no call has consumed is in buffer_ and in the   *)
(* socket, in order and complete unless the connection is gone: reads that *)
(* end inside a line or take several at once lose and duplicate nothing    *)
(* across calls (stratum_client.cpp 160-173, buffer_ is a member).         *)
StreamConserved ==
  LET rest == Wire(SubSeq(sent, consumed + 1, Len(sent)))
  IN IF connected THEN buffer \o kernel = rest ELSE IsPrefix(buffer \o kernel, rest)

(* The value is the parameter of the last line consumed that has the       *)
(* method, or the default if there is none.                                *)
IsLatest(value, method, default) ==
  \/ /\ value = default
     /\ \A i \in 1 .. consumed : sent[i].method # method
  \/ \E i \in 1 .. consumed :
       /\ sent[i].method = method
       /\ value = sent[i].param
       /\ \A k \in i + 1 .. consumed : sent[k].method # method

(* Whichever call consumed a line, the client's job and difficulty are     *)
(* those of the latest messages consumed: a notify or set_difficulty that  *)
(* arrives while submit_share waits for its answer counts as much as one   *)
(* that poll reads (stratum_client.cpp 175-260).                           *)
WorkIsLatest ==
  /\ IsLatest(current_job, "mining.notify", NoJob)
  /\ IsLatest(difficulty, "mining.set_difficulty", InitialDifficulty)

(* Each submit_share that returned did so once, in the order of the calls, *)
(* with what the pool answered to that very request, whatever answers to   *)
(* the handshake were still on their way (stratum_client.cpp 211-260).     *)
VerdictsMatch ==
  \A i \in DOMAIN verdicts :
    /\ verdicts[i][1] = FirstSubmitId + i - 1
    /\ \E line \in ToSet(sent) :
         /\ line.id = verdicts[i][1]
         /\ verdicts[i][2] = (line.result = "true")

(* The ids count the calls: three of the handshake, then one for each      *)
(* submit_share, and a verdict for each of them that has returned.         *)
CallInv ==
  /\ call = "subscribe" => next_id = SubscribeId
  /\ call = "suggest_difficulty" => next_id = SuggestId
  /\ call = "authorize" => next_id = AuthorizeId
  /\ call = "run_until_ready" => next_id = FirstSubmitId
  /\ call \in {"subscribe", "suggest_difficulty", "authorize", "run_until_ready"}
       => Len(verdicts) = 0
  /\ call \in {"none", "poll"} => next_id = FirstSubmitId + Len(verdicts)
  /\ call = "submit_share" => next_id = FirstSubmitId + Len(verdicts) + 1

(* What every step preserves. *)
ClientInv ==
  /\ TypeInv
  /\ CallInv
  /\ StreamConserved
  /\ WorkIsLatest
  /\ VerdictsMatch

(* submit_share returns or throws: the answer is found behind pushed work, *)
(* garbage and late answers, however the bytes arrive.                     *)
SubmitReturns == (call = "submit_share") ~> (call # "submit_share")

AuthorizationRefused ==
  Response(AuthorizeId, "false") \in ToSet(SubSeq(sent, 1, consumed))

(* After a refused authorization no share is submitted:                    *)
(* doc/ckpool-derived-stratum-v1-spec.md line 176 says that the client     *)
(* shall treat authorization as failed.                                    *)
RefusalStopsSubmissions == [][AuthorizationRefused => next_id' = next_id]_vars

=============================================================================
