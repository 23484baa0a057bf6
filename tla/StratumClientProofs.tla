------------------------ MODULE StratumClientProofs ------------------------
(***************************************************************************)
(* Proofs about StratumClient: what a line of the pool is parsed to, that  *)
(* no piece of a line is lost or duplicated on its way through the two     *)
(* buffers, and what follows for the client's work and its verdicts.       *)
(***************************************************************************)
EXTENDS StratumClient, SequenceTheorems, TLAPS

-----------------------------------------------------------------------------
(* Parsing (messages.cpp 43-300). *)

(* A message that calls a method. *)
LEMMA MethodObject ==
  ASSUME NEW m, NEW params
  PROVE  LET o == MethodJson(m, params)
         IN /\ o.type = "object"
            /\ HasA(o.v, "method", "string")
            /\ o.v["method"].v = m
            /\ HasA(o.v, "params", "array")
            /\ o.v["params"].v = params
            /\ ~Has(o.v, "result")
            /\ ~HasA(o.v, "id", "int64")
BY DEF MethodJson, Object, Array, HasA, Has, String, Null

(* A response. *)
LEMMA ResponseObject ==
  ASSUME NEW id, NEW result, NEW error
  PROVE  LET o == ResponseJson(id, result, error)
         IN /\ o.type = "object"
            /\ ~HasA(o.v, "method", "string")
            /\ Has(o.v, "result")
            /\ o.v["result"] = result
            /\ HasA(o.v, "id", "int64")
            /\ o.v["id"].v = id
BY DEF ResponseJson, Object, HasA, Has, Int64

(* The parameters of a notify that announces job j. *)
LEMMA JobParams ==
  ASSUME NEW j
  PROVE  /\ IsNotify(JobJson(j)) /\ Len(JobJson(j)) = 9 /\ JobJson(j)[1].v = j
         /\ Len(SubSeq(JobJson(j), 1, 8)) = 8
BY DEF JobJson, IsNotify, String, Array, Bool, IsString

(* A method's message, if its parameters parse, is the message. *)
LEMMA ParsedMethod ==
  ASSUME NEW o, o.type = "object", HasA(o.v, "method", "string"),
         parse_method_message(o.v) # nullopt
  PROVE  parse_incoming_message(o) = parse_method_message(o.v)
BY Zenon DEF parse_incoming_message, Otherwise

(* A notify is parsed to its job. *)
LEMMA ParsedNotify ==
  ASSUME NEW j
  PROVE  parse_incoming_message(MethodJson("mining.notify", JobJson(j)))
           = {[type |-> "NotifyMessage", job_id |-> j]}
<1> DEFINE o == MethodJson("mining.notify", JobJson(j))
<1>1. /\ o.type = "object"
      /\ HasA(o.v, "method", "string")
      /\ o.v["method"].v = "mining.notify"
      /\ HasA(o.v, "params", "array")
      /\ o.v["params"].v = JobJson(j)
  BY MethodObject
<1> HIDE DEF o
<1>2. parse_notify(o.v) = {[type |-> "NotifyMessage", job_id |-> j]}
  <2>1. IsNotify(JobJson(j)) /\ Len(JobJson(j)) = 9 /\ JobJson(j)[1].v = j
    BY JobParams
  <2> DEFINE p == o.v["params"].v
  <2>2. p = JobJson(j)
    BY <1>1
  <2> HIDE DEF p
  <2>3. IsNotify(p) /\ p[1].v = j /\ Len(p) >= 9
    <3>1. IsNotify(p) /\ p[1].v = j
      BY <2>1, <2>2, Zenon
    <3>2. Len(p) = 9
      BY <2>1, <2>2, Zenon
    <3>3. QED
      BY <3>1, <3>2
  <2>4. HasParams(o.v, 9)
    BY <1>1, <2>3, Zenon DEF HasParams, p
  <2>5. QED
    BY <2>3, <2>4, Zenon DEF parse_notify, p
<1>3. parse_method_message(o.v) = parse_notify(o.v)
  BY <1>1, Zenon DEF parse_method_message
<1>4. parse_method_message(o.v) # nullopt
  BY <1>2, <1>3 DEF nullopt
<1>5. QED
  BY <1>1, <1>2, <1>3, <1>4, ParsedMethod DEF o

(* A set_difficulty is parsed to its difficulty. *)
LEMMA ParsedDifficulty ==
  ASSUME NEW d
  PROVE  parse_incoming_message(MethodJson("mining.set_difficulty", <<Double(d)>>))
           = {[type |-> "SetDifficultyMessage", difficulty |-> d]}
<1> DEFINE o == MethodJson("mining.set_difficulty", <<Double(d)>>)
<1>1. /\ o.type = "object"
      /\ HasA(o.v, "method", "string")
      /\ o.v["method"].v = "mining.set_difficulty"
      /\ HasA(o.v, "params", "array")
      /\ o.v["params"].v = <<Double(d)>>
  BY MethodObject
<1> HIDE DEF o
<1>2. parse_set_difficulty(o.v) = {[type |-> "SetDifficultyMessage", difficulty |-> d]}
  <2>1. HasParams(o.v, 1)
    BY <1>1 DEF HasParams
  <2>2. Double(d).v = d /\ IsNumber(Double(d)) /\ <<Double(d)>>[1] = Double(d)
    BY DEF Double, IsNumber
  <2>3. o.v["params"].v[1] = Double(d)
    BY <1>1, <2>2, Zenon
  <2>4. QED
    BY <2>1, <2>2, <2>3, Zenon DEF parse_set_difficulty
<1>3. parse_method_message(o.v) = parse_set_difficulty(o.v)
  BY <1>1, Zenon DEF parse_method_message
<1>4. parse_method_message(o.v) # nullopt
  BY <1>2, <1>3 DEF nullopt
<1>5. QED
  BY <1>1, <1>2, <1>3, <1>4, ParsedMethod DEF o

(* A notify with too few parameters falls through to an unknown message:   *)
(* it is not taken for a response.                                         *)
LEMMA ParsedShortNotify ==
  ASSUME NEW j
  PROVE  parse_incoming_message(MethodJson("mining.notify", SubSeq(JobJson(j), 1, 8)))
           = UnknownMessage
<1> DEFINE params == SubSeq(JobJson(j), 1, 8)
           o == MethodJson("mining.notify", params)
<1> HIDE DEF params
<1>1. /\ o.type = "object"
      /\ HasA(o.v, "method", "string")
      /\ o.v["method"].v = "mining.notify"
      /\ o.v["params"].v = params
      /\ ~Has(o.v, "result") /\ ~HasA(o.v, "id", "int64")
  BY MethodObject
<1> HIDE DEF o
<1>2. ~HasParams(o.v, 9)
  <2>1. Len(params) = 8
    BY JobParams DEF params
  <2>2. ~(Len(o.v["params"].v) >= 9)
    BY <1>1, <2>1
  <2>3. QED
    BY <2>2, Zenon DEF HasParams
<1>3. parse_method_message(o.v) = nullopt
  BY <1>1, <1>2, Zenon DEF parse_method_message, parse_notify
<1>4. parse_message_id(o.v) = {}
  BY <1>1, Zenon DEF parse_message_id, nullopt
<1>5. /\ parse_subscribe_response(o.v) = nullopt
      /\ parse_submit_response(o.v) = nullopt
      /\ parse_authorize_response(o.v) = nullopt
  <2>1. ~HasA(o.v, "result", "array") /\ ~HasA(o.v, "result", "bool")
    BY <1>1, Zenon DEF HasA
  <2>2. parse_subscribe_response(o.v) = nullopt
    BY <2>1, Zenon DEF parse_subscribe_response
  <2>3. parse_submit_response(o.v) = nullopt
    BY <1>4, SMT DEF parse_submit_response, nullopt
  <2>4. parse_authorize_response(o.v) = nullopt
    BY <2>1, Zenon DEF parse_authorize_response
  <2>5. QED
    BY <2>2, <2>3, <2>4
<1>6. QED
  BY <1>1, <1>3, <1>5, Zenon DEF parse_incoming_message, Otherwise, o, params

(* An id that an int cannot hold is no id. *)
LEMMA ParsedWideId ==
  parse_incoming_message(ResponseJson(WideId, Bool(TRUE), Null)) = UnknownMessage
<1> DEFINE wide == WideId
           accepted == Bool(TRUE)
           o == ResponseJson(wide, accepted, Null)
<1> HIDE DEF wide, accepted
<1>1. /\ o.type = "object"
      /\ ~HasA(o.v, "method", "string")
      /\ o.v["id"].v = wide
  BY ResponseObject
<1> HIDE DEF o
<1>2. wide \notin -IntMax - 1 .. IntMax
  BY IntAssumption DEF WideId, FirstSubmitId, wide
<1>3. parse_message_id(o.v) = {}
  BY <1>1, <1>2, Zenon DEF parse_message_id, nullopt
<1>4. parse_method_message(o.v) = nullopt
  BY <1>1, Zenon DEF parse_method_message
<1>5. /\ parse_subscribe_response(o.v) = nullopt
      /\ parse_submit_response(o.v) = nullopt
      /\ parse_authorize_response(o.v) = nullopt
  <2>1. parse_subscribe_response(o.v) = nullopt
    BY <1>3, SMT DEF parse_subscribe_response, nullopt
  <2>2. parse_submit_response(o.v) = nullopt
    BY <1>3, SMT DEF parse_submit_response, nullopt
  <2>3. parse_authorize_response(o.v) = nullopt
    BY <1>3, SMT DEF parse_authorize_response, nullopt
  <2>4. QED
    BY <2>1, <2>2, <2>3
<1>6. QED
  BY <1>1, <1>4, <1>5, Zenon DEF parse_incoming_message, Otherwise, o, wide, accepted

(* A boolean or null response is the submit response with its id, whatever *)
(* request the id is of (messages.cpp 280-284).                            *)
LEMMA ParsedResponse ==
  ASSUME NEW id \in -IntMax - 1 .. IntMax, NEW result, NEW error,
         result.type \in {"bool", "null"}
  PROVE  \E m : /\ parse_incoming_message(ResponseJson(id, result, error)) = {m}
                /\ m.type = "SubmitResponse"
                /\ m.id = id
                /\ m.accepted = (result.type = "bool" /\ result.v)
<1> DEFINE o == ResponseJson(id, result, error)
<1>1. /\ o.type = "object"
      /\ ~HasA(o.v, "method", "string")
      /\ Has(o.v, "result") /\ o.v["result"] = result
      /\ HasA(o.v, "id", "int64") /\ o.v["id"].v = id
  BY ResponseObject
<1> HIDE DEF o
<1>2. parse_message_id(o.v) = {id}
  BY <1>1, Zenon DEF parse_message_id
<1>3. parse_method_message(o.v) = nullopt
  BY <1>1, Zenon DEF parse_method_message
<1>4. parse_subscribe_response(o.v) = nullopt
  BY <1>1 DEF parse_subscribe_response, HasA
<1> DEFINE m == [type |-> "SubmitResponse", id |-> id,
                 accepted |-> HasA(o.v, "result", "bool") /\ o.v["result"].v,
                 has_error |-> Has(o.v, "error") /\ ~HasA(o.v, "error", "null")]
<1>5. parse_submit_response(o.v) = {m}
  BY <1>1, <1>2 DEF parse_submit_response
<1>6. m.accepted = (result.type = "bool" /\ result.v)
  BY <1>1 DEF HasA
<1>7. m.type = "SubmitResponse" /\ m.id = id
  OBVIOUS
<1> HIDE DEF m
<1>8. parse_submit_response(o.v) # nullopt
  BY <1>5 DEF nullopt
<1>9. parse_incoming_message(o) = {m}
  BY <1>1, <1>3, <1>4, <1>5, <1>8, Zenon DEF parse_incoming_message, Otherwise
<1>10. QED
  BY <1>6, <1>7, <1>9 DEF o

(* The array that answers mining.subscribe. *)
LEMMA ParsedSubscription ==
  ASSUME NEW id \in -IntMax - 1 .. IntMax, NEW s
  PROVE  parse_incoming_message(
           ResponseJson(id, Array(<<Array(<<>>), String(s), Int64(4)>>), Null))
           = {[type |-> "SubscribeResponse", id |-> id]}
<1> DEFINE r == <<Array(<<>>), String(s), Int64(4)>>
           o == ResponseJson(id, Array(r), Null)
<1>1. /\ o.type = "object"
      /\ ~HasA(o.v, "method", "string")
      /\ Has(o.v, "result") /\ o.v["result"] = Array(r)
      /\ HasA(o.v, "id", "int64") /\ o.v["id"].v = id
  BY ResponseObject
<1>2. IsSubscription(r)
  BY DEF IsSubscription, String, Int64, IsString
<1> HIDE DEF o, r
<1>3. Array(r).type = "array" /\ Array(r).v = r
  BY DEF Array
<1>4. parse_message_id(o.v) = {id}
  BY <1>1, Zenon DEF parse_message_id
<1>5. parse_method_message(o.v) = nullopt
  BY <1>1, Zenon DEF parse_method_message
<1>6. parse_subscribe_response(o.v) = {[type |-> "SubscribeResponse", id |-> id]}
  <2>1. HasA(o.v, "result", "array") /\ IsSubscription(o.v["result"].v)
    BY <1>1, <1>2, <1>3, Zenon DEF HasA
  <2>2. parse_subscribe_response(o.v)
          = {[type |-> "SubscribeResponse", id |-> k] : k \in parse_message_id(o.v)}
    BY <2>1, Zenon DEF parse_subscribe_response
  <2>3. QED
    BY <1>4, <2>2
<1>7. parse_subscribe_response(o.v) # nullopt
  BY <1>6 DEF nullopt
<1>8. QED
  BY <1>1, <1>5, <1>6, <1>7, Zenon DEF parse_incoming_message, Otherwise, o, r

(* The messages a line of the pool may be parsed to. *)
IsParsed(line, parsed) ==
  \/ /\ line.method = "mining.notify" /\ line.param \in Jobs
     /\ parsed = {[type |-> "NotifyMessage", job_id |-> line.param]}
  \/ /\ line.method = "mining.set_difficulty" /\ line.param \in Difficulties
     /\ parsed = {[type |-> "SetDifficultyMessage", difficulty |-> line.param]}
  \/ /\ line.method \notin {"mining.notify", "mining.set_difficulty"}
     /\ \/ parsed = nullopt
        \/ parsed = UnknownMessage
        \/ parsed = {[type |-> "SubscribeResponse", id |-> line.id]}
        \/ \E m : /\ parsed = {m}
                  /\ m.type = "SubmitResponse"
                  /\ m.id = line.id
                  /\ m.accepted = (line.result = "true")

(* The ids of the client's requests fit an int. *)
LEMMA IdsFit ==
  /\ Ids \subseteq -IntMax - 1 .. IntMax
  /\ Ids \subseteq Nat \ {0}
  /\ {SubscribeId, SuggestId, AuthorizeId, FirstSubmitId} \subseteq Ids
BY ClientAssumption, IntAssumption
   DEF Ids, SubscribeId, SuggestId, AuthorizeId, FirstSubmitId

(* Each line the pool may write is parsed to what it says (messages.cpp    *)
(* 250-300).                                                               *)
THEOREM Parsed ==
  ASSUME NEW line \in Lines
  PROVE  IsParsed(line, parse_incoming_message(Json(line)))
<1>1. ASSUME NEW j \in Jobs, line = Notify(j)
      PROVE  IsParsed(line, parse_incoming_message(Json(line)))
  <2>1. line.method = "mining.notify" /\ line.param = j
    BY <1>1 DEF Notify, Line
  <2>2. /\ line.method # "mining.set_difficulty" /\ line.method # "short_notify"
        /\ line.method # "wide_id" /\ line.method # "text"
        /\ line.result # "subscription" /\ line.result # "null"
    BY <1>1 DEF Notify, Line
  <2>3. Json(line) = MethodJson("mining.notify", JobJson(j))
    BY <2>1, <2>2, Zenon DEF Json
  <2>4. parse_incoming_message(Json(line)) = {[type |-> "NotifyMessage", job_id |-> j]}
    BY <2>3, ParsedNotify
  <2>5. QED
    BY <2>1, <2>4, Zenon DEF IsParsed
<1>2. ASSUME NEW d \in Difficulties, line = SetDifficulty(d)
      PROVE  IsParsed(line, parse_incoming_message(Json(line)))
  <2>1. line.method = "mining.set_difficulty" /\ line.param = d
    BY <1>2 DEF SetDifficulty, Line
  <2>2. /\ line.method # "mining.notify" /\ line.method # "short_notify"
        /\ line.method # "wide_id" /\ line.method # "text"
        /\ line.result # "subscription" /\ line.result # "null"
    BY <1>2 DEF SetDifficulty, Line
  <2>3. Json(line) = MethodJson("mining.set_difficulty", <<Double(d)>>)
    BY <2>1, <2>2, Zenon DEF Json
  <2>4. parse_incoming_message(Json(line))
          = {[type |-> "SetDifficultyMessage", difficulty |-> d]}
    BY <2>3, ParsedDifficulty
  <2>5. QED
    BY <2>1, <2>4, Zenon DEF IsParsed
<1>3. ASSUME NEW kind \in Noise, line = NoiseLine(kind)
      PROVE  IsParsed(line, parse_incoming_message(Json(line)))
  <2>1. line.method = kind /\ line.result = "absent"
    BY <1>3 DEF NoiseLine, Line
  <2>2. kind \in {"text", "short_notify", "wide_id"}
    BY ClientAssumption
  <2>3. kind \notin {"mining.notify", "mining.set_difficulty"}
    BY <2>2
  <2>4. CASE kind = "text"
    <3>1. /\ line.method # "mining.notify" /\ line.method # "mining.set_difficulty"
          /\ line.method # "short_notify" /\ line.method # "wide_id"
          /\ line.result # "subscription" /\ line.result # "null"
      BY <2>1, <2>4
    <3>2. Json(line) = String("no JSON object")
      BY <2>1, <2>4, <3>1, Zenon DEF Json
    <3>3. String("no JSON object").type # "object"
      BY DEF String
    <3>4. parse_incoming_message(Json(line)) = nullopt
      BY <3>2, <3>3, Zenon DEF parse_incoming_message
    <3>5. QED
      BY <2>1, <2>3, <3>4, Zenon DEF IsParsed
  <2>5. CASE kind = "short_notify"
    <3>1. /\ line.method # "mining.notify" /\ line.method # "mining.set_difficulty"
          /\ line.method # "wide_id" /\ line.method # "text"
          /\ line.result # "subscription" /\ line.result # "null"
      BY <2>1, <2>5
    <3>2. Json(line) = MethodJson("mining.notify", SubSeq(JobJson(NoJob), 1, 8))
      BY <2>1, <2>5, <3>1, Zenon DEF Json
    <3>3. parse_incoming_message(Json(line)) = UnknownMessage
      BY <3>2, ParsedShortNotify, Zenon
    <3>4. QED
      BY <2>1, <2>3, <3>3, Zenon DEF IsParsed
  <2>6. CASE kind = "wide_id"
    <3>1. /\ line.method # "mining.notify" /\ line.method # "mining.set_difficulty"
          /\ line.method # "short_notify" /\ line.method # "text"
          /\ line.result # "subscription" /\ line.result # "null"
      BY <2>1, <2>6
    <3>2. Json(line) = ResponseJson(WideId, Bool(TRUE), Null)
      BY <2>1, <2>6, <3>1, Zenon DEF Json
    <3>3. parse_incoming_message(Json(line)) = UnknownMessage
      BY <3>2, ParsedWideId, Zenon
    <3>4. QED
      BY <2>1, <2>3, <3>3, Zenon DEF IsParsed
  <2>7. QED
    BY <2>2, <2>4, <2>5, <2>6
<1>4. ASSUME NEW id \in Ids, NEW r \in {"subscription", "true", "false", "null"},
             line = Response(id, r)
      PROVE  IsParsed(line, parse_incoming_message(Json(line)))
  <2>1. line.method = "absent" /\ line.id = id /\ line.result = r
    BY <1>4 DEF Response, Line
  <2>2. "absent" \notin {"mining.notify", "mining.set_difficulty", "short_notify",
                         "wide_id", "text"}
    OBVIOUS
  <2>3. id \in -IntMax - 1 .. IntMax
    BY IdsFit
  <2>4. ASSUME NEW result, NEW error, result.type \in {"bool", "null"},
               Json(line) = ResponseJson(id, result, error),
               (result.type = "bool" /\ result.v) = (r = "true")
        PROVE  IsParsed(line, parse_incoming_message(Json(line)))
    <3>1. PICK m : /\ parse_incoming_message(ResponseJson(id, result, error)) = {m}
                   /\ m.type = "SubmitResponse" /\ m.id = id
                   /\ m.accepted = (result.type = "bool" /\ result.v)
      BY <2>3, <2>4, ParsedResponse
    <3>2. parse_incoming_message(Json(line)) = {m}
      BY <2>4, <3>1, Zenon
    <3>3. m.accepted = (line.result = "true")
      BY <2>1, <2>4, <3>1, Zenon
    <3>4. QED
      BY <2>1, <2>2, <3>1, <3>2, <3>3, Zenon DEF IsParsed
  <2>5. CASE r = "subscription"
    <3>1. Json(line)
            = ResponseJson(id, Array(<<Array(<<>>), String("extranonce1"), Int64(4)>>), Null)
      BY <2>1, <2>2, <2>5, Zenon DEF Json
    <3>2. parse_incoming_message(Json(line)) = {[type |-> "SubscribeResponse", id |-> id]}
      BY <2>3, <3>1, ParsedSubscription
    <3>3. QED
      BY <2>1, <2>2, <3>2, Zenon DEF IsParsed
  <2>6. CASE r = "null"
    <3>1. "null" # "subscription"
      OBVIOUS
    <3>2. Json(line) = ResponseJson(id, Null, String("reason"))
      BY <2>1, <2>2, <2>6, <3>1, Zenon DEF Json
    <3>3. Null.type = "null"
      BY DEF Null
    <3>4. QED
      BY <2>4, <2>6, <3>2, <3>3
  <2>7. CASE r \in {"true", "false"}
    <3>1. r # "subscription" /\ r # "null"
      BY <2>7
    <3> DEFINE b == Bool(line.result = "true")
    <3>2. Json(line) = ResponseJson(id, b, Null)
      BY <2>1, <2>2, <3>1, Zenon DEF Json
    <3>3. b.type = "bool" /\ b.v = (r = "true")
      BY <2>1 DEF Bool
    <3> HIDE DEF b
    <3>4. b.type \in {"bool", "null"}
      BY <3>3
    <3>5. (b.type = "bool" /\ b.v) = (r = "true")
      BY <3>3, Zenon
    <3>6. QED
      BY <2>4, <3>2, <3>4, <3>5
  <2>8. QED
    BY <2>5, <2>6, <2>7
<1>5. QED
  BY <1>1, <1>2, <1>3, <1>4, IdsFit DEF Lines, Pushes, Responses

(* The parsed message is the only one. *)
LEMMA OneMessage ==
  ASSUME NEW m
  PROVE  MessageOf({m}) = m /\ \A type : Is({m}, type) <=> m.type = type
BY DEF MessageOf, Is

-----------------------------------------------------------------------------
(* Lines on the wire. *)

(* A quotient and its remainder. *)
LEMMA DivSplit ==
  ASSUME NEW P \in Nat \ {0}, NEW a \in Int
  PROVE  /\ a \div P \in Int
         /\ a % P \in 0 .. P - 1
         /\ a = P * (a \div P) + (a % P)
<1>1. P \in Int /\ P > 0
  OBVIOUS
<1>2. a % P = a - P * (a \div P)
  BY <1>1
<1>3. a \div P \in Int
  BY <1>1
<1>4. a % P \in 0 .. P - 1
  BY <1>1
<1> DEFINE q == a \div P
           r == a % P
           pq == P * q
<1>5. pq \in Int
  BY <1>1, <1>3
<1>6. r = a - pq /\ r \in Int
  BY <1>2, <1>4
<1> HIDE DEF q, r, pq
<1>7. a = pq + r
  BY <1>5, <1>6
<1>8. QED
  BY <1>3, <1>4, <1>7, Zenon DEF q, r, pq

(* The other way round. *)
LEMMA DivOf ==
  ASSUME NEW P \in Nat \ {0}, NEW q \in Int, NEW r \in 0 .. P - 1,
         NEW a \in Int, a = P * q + r
  PROVE  a \div P = q /\ a % P = r
OBVIOUS

(* P further on, the quotient is one more and the remainder the same. *)
LEMMA DivNext ==
  ASSUME NEW P \in Nat \ {0}, NEW a \in Int
  PROVE  (a + P) \div P = a \div P + 1 /\ (a + P) % P = a % P
<1> DEFINE q == a \div P
           r == a % P
           next == a + P
<1>1. q \in Int /\ r \in 0 .. P - 1 /\ a = P * q + r
  BY DivSplit
<1> HIDE DEF q, r
<1>2. next \in Int /\ next = P * (q + 1) + r
  BY <1>1
<1> HIDE DEF next
<1>3. next \div P = q + 1 /\ next % P = r
  <2>1. q + 1 \in Int
    BY <1>1
  <2>2. QED
    BY <1>1, <1>2, <2>1, DivOf
<1>4. QED
  BY <1>3, Zenon DEF q, r, next

(* The quotients of the numbers below a multiple. *)
LEMMA DivBelow ==
  ASSUME NEW P \in Nat \ {0}, NEW L \in Nat, NEW a \in 0 .. P * L - 1
  PROVE  a \div P \in 0 .. L - 1
OBVIOUS

(* A line's pieces, of which only the last has the newline. *)
LEMMA LinePieces ==
  ASSUME NEW line \in Lines
  PROVE  /\ OnTheWire(line) \in Seq(Piece)
         /\ Len(OnTheWire(line)) = PiecesPerLine
         /\ \A p \in 1 .. PiecesPerLine :
              OnTheWire(line)[p] = [line |-> line, newline |-> p = PiecesPerLine]
<1>1. PiecesPerLine \in Nat \ {0}
  BY ClientAssumption
<1>2. \A p \in 1 .. PiecesPerLine : [line |-> line, newline |-> p = PiecesPerLine] \in Piece
  <2>1. TAKE p \in 1 .. PiecesPerLine
  <2>2. (p = PiecesPerLine) \in BOOLEAN
    OBVIOUS
  <2>3. QED
    BY <2>2, Zenon DEF Piece
<1>3. OnTheWire(line) \in [1 .. PiecesPerLine -> Piece]
  BY <1>2, Zenon DEF OnTheWire
<1>4. OnTheWire(line) \in Seq(Piece) /\ Len(OnTheWire(line)) = PiecesPerLine
  BY <1>1, <1>3
<1>5. QED
  BY <1>4, Zenon DEF OnTheWire

(* The pieces of lines. *)
LEMMA WirePieces ==
  ASSUME NEW lines \in Seq(Lines)
  PROVE  /\ Wire(lines) \in Seq(Piece)
         /\ Len(Wire(lines)) = PiecesPerLine * Len(lines)
         /\ PiecesPerLine * Len(lines) \in Nat
         /\ \A n \in 1 .. PiecesPerLine * Len(lines) :
              /\ Wire(lines)[n] = [line |-> lines[(n - 1) \div PiecesPerLine + 1],
                                   newline |-> n % PiecesPerLine = 0]
              /\ (n - 1) \div PiecesPerLine + 1 \in 1 .. Len(lines)
<1> DEFINE P == PiecesPerLine
           L == Len(lines)
<1>1. P \in Nat \ {0} /\ L \in Nat
  BY ClientAssumption, LenProperties
<1> HIDE DEF P, L
<1>2. P * L \in Nat
  BY <1>1
<1>3. ASSUME NEW n \in 1 .. P * L
      PROVE  (n - 1) \div P + 1 \in 1 .. L
  <2>1. n - 1 \in 0 .. P * L - 1
    BY <1>2
  <2>2. (n - 1) \div P \in 0 .. L - 1
    BY <1>1, <2>1, DivBelow
  <2>3. QED
    BY <1>1, <2>2
<1>4. ASSUME NEW n \in 1 .. P * L
      PROVE  [line |-> lines[(n - 1) \div P + 1], newline |-> n % P = 0] \in Piece
  <2>1. lines[(n - 1) \div P + 1] \in Lines
    BY <1>3, ElementOfSeq DEF L
  <2>2. (n % P = 0) \in BOOLEAN
    OBVIOUS
  <2>3. QED
    BY <2>1, <2>2, Zenon DEF Piece
<1>5. Wire(lines) = [n \in 1 .. P * L |->
                       [line |-> lines[(n - 1) \div P + 1], newline |-> n % P = 0]]
  BY Zenon DEF Wire, P, L
<1>6. Wire(lines) \in [1 .. P * L -> Piece]
  BY <1>4, <1>5, Zenon
<1>7. Wire(lines) \in Seq(Piece) /\ Len(Wire(lines)) = P * L
  BY <1>2, <1>6
<1>8. \A n \in 1 .. P * L :
        Wire(lines)[n] = [line |-> lines[(n - 1) \div P + 1], newline |-> n % P = 0]
  BY <1>5, Zenon
<1>9. QED
  BY <1>2, <1>3, <1>7, <1>8, Zenon DEF P, L

(* What stands where in two sequences, one behind the other. *)
LEMMA ConcatAt ==
  ASSUME NEW S, NEW s \in Seq(S), NEW t \in Seq(S), NEW ls \in Nat, NEW lt \in Nat,
         Len(s) = ls, Len(t) = lt
  PROVE  /\ s \o t \in Seq(S)
         /\ Len(s \o t) = ls + lt
         /\ \A n \in 1 .. ls + lt : (s \o t)[n] = IF n <= ls THEN s[n] ELSE t[n - ls]
BY ConcatProperties

(* One more line on the wire. *)
LEMMA WireAppend ==
  ASSUME NEW lines \in Seq(Lines), NEW line \in Lines
  PROVE  Wire(Append(lines, line)) = Wire(lines) \o OnTheWire(line)
<1> DEFINE P == PiecesPerLine
           L == Len(lines)
           more == Append(lines, line)
           a == Wire(more)
           b == Wire(lines) \o OnTheWire(line)
<1>1. /\ P \in Nat \ {0} /\ L \in Nat /\ P * L \in Nat /\ P * (L + 1) = P * L + P
      /\ more \in Seq(Lines) /\ Len(more) = L + 1 /\ more[L + 1] = line
      /\ \A k \in 1 .. L : more[k] = lines[k]
  BY ClientAssumption, LenProperties, AppendProperties
<1>2. /\ a \in Seq(Piece) /\ Len(a) = P * L + P
      /\ \A n \in 1 .. P * L + P :
           a[n] = [line |-> more[(n - 1) \div P + 1], newline |-> n % P = 0]
  BY <1>1, WirePieces
<1>3. /\ Wire(lines) \in Seq(Piece) /\ Len(Wire(lines)) = P * L
      /\ \A n \in 1 .. P * L :
           /\ Wire(lines)[n] = [line |-> lines[(n - 1) \div P + 1], newline |-> n % P = 0]
           /\ (n - 1) \div P + 1 \in 1 .. L
  BY WirePieces
<1>4. /\ OnTheWire(line) \in Seq(Piece) /\ Len(OnTheWire(line)) = P
      /\ \A p \in 1 .. P : OnTheWire(line)[p] = [line |-> line, newline |-> p = P]
  BY LinePieces
<1>5. /\ b \in Seq(Piece) /\ Len(b) = P * L + P
      /\ \A n \in 1 .. P * L + P :
           b[n] = IF n <= P * L THEN Wire(lines)[n] ELSE OnTheWire(line)[n - P * L]
  <2> DEFINE w == Wire(lines)
             o == OnTheWire(line)
             pl == P * L
  <2>1. /\ w \in Seq(Piece) /\ o \in Seq(Piece) /\ P \in Nat /\ pl \in Nat
        /\ Len(w) = pl /\ Len(o) = P
    BY <1>1, <1>3, <1>4
  <2> HIDE DEF w, o, pl, P
  <2>2. /\ w \o o \in Seq(Piece) /\ Len(w \o o) = pl + P
        /\ \A n \in 1 .. pl + P : (w \o o)[n] = IF n <= pl THEN w[n] ELSE o[n - pl]
    <3>1. w \o o \in Seq(Piece)
      BY <2>1, ConcatAt
    <3>2. Len(w \o o) = pl + P
      BY <2>1, ConcatAt
    <3>3. ASSUME NEW n \in 1 .. pl + P
          PROVE  (w \o o)[n] = IF n <= pl THEN w[n] ELSE o[n - pl]
      <4>1. n \in Int /\ 1 <= n /\ n <= Len(w) + Len(o)
        BY <2>1
      <4>2. CASE n <= pl
        BY <2>1, <4>1, <4>2, ConcatProperties
      <4>3. CASE n > pl
        BY <2>1, <4>1, <4>3, ConcatProperties
      <4>4. QED
        BY <2>1, <4>1, <4>2, <4>3
    <3>4. QED
      BY <3>1, <3>2, <3>3
  <2>3. QED
    BY <2>2, Zenon DEF w, o, pl
<1> HIDE DEF P, L, more, a, b
<1>6. ASSUME NEW n \in 1 .. P * L + P
      PROVE  a[n] = b[n]
  <2>1. CASE n <= P * L
    <3>1. n \in 1 .. P * L
      BY <1>1, <2>1
    <3>2. b[n] = [line |-> lines[(n - 1) \div P + 1], newline |-> n % P = 0]
      BY <1>3, <1>5, <2>1, <3>1
    <3>3. more[(n - 1) \div P + 1] = lines[(n - 1) \div P + 1]
      BY <1>1, <1>3, <3>1
    <3>4. a[n] = [line |-> more[(n - 1) \div P + 1], newline |-> n % P = 0]
      BY <1>2
    <3>5. QED
      BY <3>2, <3>3, <3>4, Zenon
  <2>2. CASE n > P * L
    <3> DEFINE p == n - P * L
               before == n - 1
    <3>1. p \in 1 .. P /\ n = P * L + p /\ n \in Int
      BY <1>1, <2>2
    <3>2. b[n] = [line |-> line, newline |-> p = P]
      BY <1>1, <1>4, <1>5, <2>2, <3>1
    <3> HIDE DEF p
    <3>3. before \in Int /\ before = P * L + (p - 1) /\ p - 1 \in 0 .. P - 1
      BY <1>1, <3>1
    <3> HIDE DEF before
    <3>4. before \div P = L
      <4> DEFINE r == p - 1
      <4>1. P \in Nat \ {0} /\ L \in Int
        BY <1>1
      <4>2. before \in Int /\ before = P * L + r /\ r \in 0 .. P - 1
        BY <3>3
      <4> HIDE DEF r
      <4>3. QED
        BY <4>1, <4>2, DivOf
    <3>5. (n % P = 0) = (p = P)
      <4>1. CASE p = P
        <5> DEFINE q == L + 1
                   r == 0
        <5>1. P \in Nat \ {0} /\ q \in Int /\ n = P * q + r /\ r \in 0 .. P - 1
          BY <1>1, <3>1, <4>1
        <5> HIDE DEF q, r
        <5>2. n % P = r
          BY <3>1, <5>1, DivOf, ZenonT(40)
        <5>3. QED
          BY <4>1, <5>2 DEF r
      <4>2. CASE p # P
        <5>1. p \in 0 .. P - 1
          BY <1>1, <3>1, <4>2
        <5>2. n % P = p
          <6>1. P \in Nat \ {0} /\ L \in Int
            BY <1>1
          <6>2. QED
            BY <3>1, <5>1, <6>1, DivOf, ZenonT(40)
        <5>3. p # 0
          BY <3>1
        <5>4. QED
          BY <4>2, <5>2, <5>3
      <4>3. QED
        BY <4>1, <4>2
    <3>6. more[(n - 1) \div P + 1] = line
      BY <1>1, <3>4, Zenon DEF before
    <3>7. a[n] = [line |-> more[(n - 1) \div P + 1], newline |-> n % P = 0]
      BY <1>2
    <3>8. QED
      BY <3>2, <3>5, <3>6, <3>7, Zenon
  <2>3. QED
    BY <1>1, <2>1, <2>2
<1>7. a = b
  BY <1>2, <1>5, <1>6, SeqEqual
<1>8. QED
  BY <1>7, Zenon DEF a, b, more

(* The first line on the wire. *)
LEMMA WireFirst ==
  ASSUME NEW lines \in Seq(Lines), lines # <<>>
  PROVE  Wire(lines) = OnTheWire(Head(lines)) \o Wire(Tail(lines))
<1> DEFINE P == PiecesPerLine
           t == Tail(lines)
           h == Head(lines)
           L == Len(t)
           a == Wire(lines)
           b == OnTheWire(h) \o Wire(t)
<1>1. /\ t \in Seq(Lines) /\ h \in Lines /\ h = lines[1]
      /\ Len(lines) = L + 1 /\ L \in Nat
      /\ \A k \in 1 .. L : t[k] = lines[k + 1]
  BY HeadTailProperties, LenProperties
<1>2. P \in Nat \ {0} /\ P * L \in Nat /\ P * (L + 1) = P + P * L
  BY <1>1, ClientAssumption
<1>3. /\ a \in Seq(Piece) /\ Len(a) = P + P * L
      /\ \A n \in 1 .. P + P * L :
           a[n] = [line |-> lines[(n - 1) \div P + 1], newline |-> n % P = 0]
  BY <1>1, <1>2, WirePieces
<1>4. /\ Wire(t) \in Seq(Piece) /\ Len(Wire(t)) = P * L
      /\ \A n \in 1 .. P * L :
           /\ Wire(t)[n] = [line |-> t[(n - 1) \div P + 1], newline |-> n % P = 0]
           /\ (n - 1) \div P + 1 \in 1 .. L
  BY <1>1, WirePieces
<1>5. /\ OnTheWire(h) \in Seq(Piece) /\ Len(OnTheWire(h)) = P
      /\ \A p \in 1 .. P : OnTheWire(h)[p] = [line |-> h, newline |-> p = P]
  BY <1>1, LinePieces
<1>6. /\ b \in Seq(Piece) /\ Len(b) = P + P * L
      /\ \A n \in 1 .. P + P * L :
           b[n] = IF n <= P THEN OnTheWire(h)[n] ELSE Wire(t)[n - P]
  <2> DEFINE w == Wire(t)
             o == OnTheWire(h)
             pl == P * L
  <2>1. /\ w \in Seq(Piece) /\ o \in Seq(Piece) /\ P \in Nat /\ pl \in Nat
        /\ Len(w) = pl /\ Len(o) = P
    BY <1>2, <1>4, <1>5
  <2> HIDE DEF w, o, pl, P
  <2>2. /\ o \o w \in Seq(Piece) /\ Len(o \o w) = P + pl
        /\ \A n \in 1 .. P + pl : (o \o w)[n] = IF n <= P THEN o[n] ELSE w[n - P]
    <3>1. o \o w \in Seq(Piece) /\ Len(o \o w) = P + pl
      BY <2>1, ConcatAt
    <3>2. ASSUME NEW n \in 1 .. P + pl
          PROVE  (o \o w)[n] = IF n <= P THEN o[n] ELSE w[n - P]
      <4>1. n \in 1 .. Len(o) + Len(w)
        BY <2>1
      <4>2. (o \o w)[n] = IF n <= Len(o) THEN o[n] ELSE w[n - Len(o)]
        BY <2>1, <4>1, ConcatProperties
      <4>3. QED
        BY <2>1, <4>2, Zenon
    <3>3. QED
      BY <3>1, <3>2
  <2>3. QED
    BY <2>2, Zenon DEF w, o, pl
<1> HIDE DEF P, t, h, L, a, b
<1>7. ASSUME NEW n \in 1 .. P + P * L
      PROVE  a[n] = b[n]
  <2>1. CASE n <= P
    <3> DEFINE before == n - 1
    <3>1. n \in 1 .. P /\ before \in 0 .. P - 1 /\ before \in Int
      BY <1>2, <2>1
    <3> HIDE DEF before
    <3>2. before = P * 0 + before /\ P \in Nat \ {0}
      BY <1>2, <3>1
    <3>3. before \div P = 0
      BY <3>1, <3>2, DivOf
    <3>4. (n % P = 0) = (n = P)
      BY <1>2, <3>1
    <3>5. lines[(n - 1) \div P + 1] = h
      <4>1. before \div P + 1 = 1
        BY <3>3
      <4>2. QED
        BY <1>1, <4>1, Zenon DEF before
    <3>6. a[n] = [line |-> lines[(n - 1) \div P + 1], newline |-> n % P = 0]
      BY <1>3
    <3>7. b[n] = [line |-> h, newline |-> n = P]
      BY <1>2, <1>5, <1>6, <2>1, <3>1
    <3>8. QED
      BY <3>4, <3>5, <3>6, <3>7, Zenon
  <2>2. CASE n > P
    <3> DEFINE m == n - P
    <3>1. m \in 1 .. P * L /\ n = m + P /\ n - 1 = (m - 1) + P /\ m - 1 \in Int /\ m \in Int
      BY <1>2, <2>2
    <3>2. b[n] = [line |-> t[(m - 1) \div P + 1], newline |-> m % P = 0]
      BY <1>2, <1>4, <1>6, <2>2, <3>1
    <3>3. (m - 1) \div P + 1 \in 1 .. L
      BY <1>4, <3>1
    <3> HIDE DEF m
    <3>4. /\ ((m - 1) + P) \div P = (m - 1) \div P + 1
          /\ (m + P) % P = m % P
      BY <1>2, <3>1, DivNext
    <3>5. lines[(n - 1) \div P + 1] = t[(m - 1) \div P + 1]
      BY <1>1, <3>1, <3>3, <3>4
    <3>6. n % P = m % P
      BY <3>1, <3>4
    <3>7. a[n] = [line |-> lines[(n - 1) \div P + 1], newline |-> n % P = 0]
      BY <1>3
    <3>8. QED
      BY <3>2, <3>5, <3>6, <3>7, Zenon
  <2>3. QED
    BY <1>2, <2>1, <2>2
<1>8. a = b
  BY <1>3, <1>6, <1>7, SeqEqual
<1>9. QED
  BY <1>8, Zenon DEF a, b, h, t

-----------------------------------------------------------------------------
(* Parts of sequences. *)

(* A part of a sequence, by its elements. *)
LEMMA PartAt ==
  ASSUME NEW S, NEW s \in Seq(S), NEW l \in Nat, l = Len(s),
         NEW m \in 1 .. l + 1, NEW n \in m - 1 .. l
  PROVE  /\ SubSeq(s, m, n) \in Seq(S)
         /\ Len(SubSeq(s, m, n)) = n - m + 1
         /\ \A i \in 1 .. n - m + 1 : SubSeq(s, m, n)[i] = s[m + i - 1]
<1>1. \A i \in m .. n : s[i] \in S
  <2>1. TAKE i \in m .. n
  <2>2. i \in 1 .. Len(s)
    OBVIOUS
  <2>3. QED
    BY <2>2, ElementOfSeq
<1>2. m \in Int /\ n \in Int
  OBVIOUS
<1>3. /\ SubSeq(s, m, n) \in Seq(S)
      /\ Len(SubSeq(s, m, n)) = IF m <= n THEN n - m + 1 ELSE 0
      /\ \A i \in 1 .. n - m + 1 : SubSeq(s, m, n)[i] = s[m + i - 1]
  BY <1>1, <1>2, SubSeqProperties
<1>4. QED
  BY <1>3

(* A prefix, by its elements. *)
LEMMA PrefixAt ==
  ASSUME NEW S, NEW s \in Seq(S), NEW t \in Seq(S)
  PROVE  IsPrefix(s, t) <=> /\ Len(s) <= Len(t)
                            /\ \A i \in 1 .. Len(s) : s[i] = t[i]
<1> DEFINE l == Len(s)
<1>1. l \in Nat /\ Len(t) \in Nat
  BY LenProperties
<1>2. ASSUME l <= Len(t)
      PROVE  SubSeq(s, 1, l) = SubSeq(t, 1, l) <=> \A i \in 1 .. l : s[i] = t[i]
  <2> DEFINE a == SubSeq(s, 1, l)
             b == SubSeq(t, 1, l)
  <2>1. a \in Seq(S) /\ Len(a) = l /\ \A i \in 1 .. l : a[i] = s[i]
    BY <1>1, PartAt
  <2>2. b \in Seq(S) /\ Len(b) = l /\ \A i \in 1 .. l : b[i] = t[i]
    BY <1>1, <1>2, PartAt
  <2> HIDE DEF a, b, l
  <2>3. a = b => \A i \in 1 .. l : s[i] = t[i]
    BY <2>1, <2>2
  <2>4. (\A i \in 1 .. l : s[i] = t[i]) => a = b
    BY <2>1, <2>2, SeqEqual
  <2>5. QED
    BY <2>3, <2>4, Zenon DEF a, b
<1>3. QED
  BY <1>1, <1>2, Zenon DEF IsPrefix

(* What is left of the lines that were sent grows with each of them ... *)
LEMMA RestAppend ==
  ASSUME NEW S, NEW s \in Seq(S), NEW e \in S, NEW c \in 0 .. Len(s)
  PROVE  SubSeq(Append(s, e), c + 1, Len(Append(s, e)))
           = Append(SubSeq(s, c + 1, Len(s)), e)
<1> DEFINE l == Len(s)
           r == SubSeq(s, c + 1, l)
           more == Append(s, e)
           a == SubSeq(more, c + 1, l + 1)
           b == Append(r, e)
<1>1. /\ l \in Nat /\ c \in 0 .. l
      /\ more \in Seq(S) /\ Len(more) = l + 1 /\ more[l + 1] = e
      /\ \A i \in 1 .. l : more[i] = s[i]
  BY LenProperties, AppendProperties
<1>2. r \in Seq(S) /\ Len(r) = l - c /\ \A i \in 1 .. l - c : r[i] = s[c + i]
  <2>1. c + 1 \in 1 .. l + 1 /\ l \in (c + 1) - 1 .. l
    BY <1>1
  <2>2. /\ r \in Seq(S) /\ Len(r) = l - (c + 1) + 1
        /\ \A i \in 1 .. l - (c + 1) + 1 : r[i] = s[(c + 1) + i - 1]
    BY <1>1, <2>1, PartAt
  <2>3. l \in Nat /\ c \in 0 .. l
    BY <1>1
  <2> HIDE DEF r, l
  <2>4. l - (c + 1) + 1 = l - c /\ \A i \in 1 .. l - c : (c + 1) + i - 1 = c + i
    BY <2>3
  <2>5. QED
    BY <2>2, <2>4
<1>3. /\ a \in Seq(S) /\ Len(a) = l - c + 1
      /\ \A i \in 1 .. l - c + 1 : a[i] = more[c + i]
  <2> HIDE DEF more, l
  <2>1. c + 1 \in 1 .. (l + 1) + 1 /\ l + 1 \in (c + 1) - 1 .. l + 1 /\ l + 1 \in Nat
    BY <1>1
  <2>2. /\ a \in Seq(S) /\ Len(a) = (l + 1) - (c + 1) + 1
        /\ \A i \in 1 .. (l + 1) - (c + 1) + 1 : a[i] = more[(c + 1) + i - 1]
    BY <1>1, <2>1, PartAt
  <2> HIDE DEF a
  <2>3. QED
    BY <1>1, <2>2
<1>4. /\ b \in Seq(S) /\ Len(b) = l - c + 1
      /\ \A i \in 1 .. l - c : b[i] = r[i]
      /\ b[l - c + 1] = e
  <2> HIDE DEF r, l
  <2>1. QED
    BY <1>2, AppendProperties
<1> HIDE DEF l, r, more, a, b
<1>5. ASSUME NEW i \in 1 .. l - c + 1
      PROVE  a[i] = b[i]
  <2>1. CASE i = l - c + 1
    <3>1. c + i = l + 1
      BY <1>1, <2>1
    <3>2. QED
      BY <1>1, <1>3, <1>4, <2>1, <3>1
  <2>2. CASE i # l - c + 1
    <3>1. i \in 1 .. l - c /\ c + i \in 1 .. l
      BY <1>1, <2>2
    <3>2. QED
      BY <1>1, <1>2, <1>3, <1>4, <3>1
  <2>3. QED
    BY <2>1, <2>2
<1>6. a = b
  BY <1>3, <1>4, <1>5, SeqEqual
<1>7. Len(more) = l + 1
  BY <1>1
<1>8. QED
  BY <1>6, <1>7, Zenon DEF a, b, r, more, l

(* ... and shrinks with each that is consumed. *)
LEMMA RestTail ==
  ASSUME NEW S, NEW s \in Seq(S), NEW c \in 0 .. Len(s),
         SubSeq(s, c + 1, Len(s)) # <<>>
  PROVE  /\ c + 1 \in 0 .. Len(s)
         /\ Head(SubSeq(s, c + 1, Len(s))) = s[c + 1]
         /\ Tail(SubSeq(s, c + 1, Len(s))) = SubSeq(s, c + 2, Len(s))
<1> DEFINE l == Len(s)
<1>1. l \in Nat
  BY LenProperties
<1>2. c + 1 <= l
  <2>1. SUFFICES ASSUME c + 1 > l PROVE FALSE
    BY <1>1
  <2>2. SubSeq(s, c + 1, l) = <<>>
    BY <1>1, <2>1, SubSeqEmpty
  <2>3. QED
    BY <2>2
<1>3. c + 1 \in 1 .. Len(s) /\ Len(s) \in c + 1 .. Len(s)
  BY <1>1, <1>2
<1> DEFINE m == c + 1
<1>4. m + 1 = c + 2 /\ m \in 0 .. Len(s) /\ m \in 1 .. Len(s) /\ Len(s) \in m .. Len(s)
  BY <1>1, <1>3
<1> HIDE DEF m, l
<1>5. /\ Head(SubSeq(s, m, Len(s))) = s[m]
      /\ Tail(SubSeq(s, m, Len(s))) = SubSeq(s, m + 1, Len(s))
  BY <1>4, HeadTailOfSubSeq
<1>6. QED
  BY <1>4, <1>5, Zenon DEF m

-----------------------------------------------------------------------------
(* The two buffers. *)

(* A read moves pieces from the one to the other. *)
LEMMA FlowRead ==
  ASSUME NEW S, NEW b \in Seq(S), NEW k \in Seq(S), NEW n \in 1 .. Len(k)
  PROVE  /\ b \o SubSeq(k, 1, n) \in Seq(S)
         /\ SubSeq(k, n + 1, Len(k)) \in Seq(S)
         /\ (b \o SubSeq(k, 1, n)) \o SubSeq(k, n + 1, Len(k)) = b \o k
<1> DEFINE l == Len(k)
           x == SubSeq(k, 1, n)
           y == SubSeq(k, n + 1, l)
<1>1. l \in Nat /\ l = Len(k)
  BY LenProperties
<1>2. x \in Seq(S)
  BY <1>1, PartAt
<1>3. y \in Seq(S)
  BY <1>1, PartAt
<1>4. x \o y = k
  <2>1. 1 \in 1 .. Len(k) + 1 /\ n \in 1 - 1 .. Len(k) /\ Len(k) \in n .. Len(k)
    BY <1>1
  <2>2. SubSeq(k, 1, n) \o SubSeq(k, n + 1, Len(k)) = SubSeq(k, 1, Len(k))
    BY <2>1, ConcatAdjacentSubSeq
  <2>3. SubSeq(k, 1, Len(k)) = k
    BY SubSeqFull
  <2>4. QED
    BY <2>2, <2>3, Zenon
<1> HIDE DEF l, x, y
<1>5. (b \o x) \o y = b \o k /\ b \o x \in Seq(S)
  <2>1. (b \o x) \o y = b \o (x \o y)
    BY <1>2, <1>3, ConcatAssociative, SMTT(60)
  <2>2. b \o x \in Seq(S)
    BY <1>2, ConcatProperties
  <2>3. QED
    BY <1>4, <2>1, <2>2, Zenon
<1>6. QED
  BY <1>3, <1>5, Zenon DEF x, y, l

(* What a reset leaves of the pieces on their way. *)
LEMMA FlowReset ==
  ASSUME NEW S, NEW b \in Seq(S), NEW k \in Seq(S), NEW w \in Seq(S),
         IsPrefix(b \o k, w)
  PROVE  IsPrefix(b \o <<>>, w)
<1> DEFINE x == b \o k
<1>1. x \in Seq(S) /\ Len(x) = Len(b) + Len(k) /\ Len(b) \in Nat /\ Len(k) \in Nat
  BY ConcatProperties, LenProperties
<1>2. \A i \in 1 .. Len(b) : x[i] = b[i]
  BY <1>1, ConcatProperties
<1> HIDE DEF x
<1>3. Len(x) <= Len(w) /\ \A i \in 1 .. Len(x) : x[i] = w[i]
  <2>1. IsPrefix(x, w)
    BY Zenon DEF x
  <2>2. x \in Seq(S) /\ w \in Seq(S)
    BY <1>1
  <2>3. QED
    BY <2>1, <2>2, PrefixAt
<1>4. Len(w) \in Nat
  BY LenProperties
<1>5. Len(b) <= Len(w) /\ \A i \in 1 .. Len(b) : b[i] = w[i]
  BY <1>1, <1>2, <1>3, <1>4
<1>6. IsPrefix(b, w)
  BY <1>5, PrefixAt
<1>7. b \o <<>> = b
  BY ConcatEmptySeq
<1>8. QED
  BY <1>6, <1>7

(* All of them is a prefix of them. *)
LEMMA PrefixOfItself ==
  ASSUME NEW S, NEW s \in Seq(S)
  PROVE  IsPrefix(s, s)
BY PrefixAt, LenProperties

(* What is on its way is all of it, or at least a prefix. *)
Flow(x, y, open) == IF open THEN x = y ELSE IsPrefix(x, y)

(* In both cases a prefix. *)
LEMMA FlowIsPrefix ==
  ASSUME NEW S, NEW x \in Seq(S), NEW y, NEW open, Flow(x, y, open)
  PROVE  IsPrefix(x, y)
<1>1. IsPrefix(x, x)
  BY PrefixOfItself
<1>2. QED
  BY <1>1, Zenon DEF Flow

(* What is behind the first pieces. *)
LEMMA FlowConsume ==
  ASSUME NEW S, NEW b \in Seq(S), NEW k \in Seq(S), NEW o \in Seq(S), NEW w \in Seq(S),
         NEW open, Len(o) <= Len(b), Flow(b \o k, o \o w, open)
  PROVE  /\ SubSeq(b, Len(o) + 1, Len(b)) \in Seq(S)
         /\ Flow(SubSeq(b, Len(o) + 1, Len(b)) \o k, w, open)
<1> DEFINE P == Len(o)
           lb == Len(b)
           lk == Len(k)
           lw == Len(w)
           c == SubSeq(b, P + 1, lb)
           x == b \o k
           y == o \o w
           z == c \o k
<1>1. P \in Nat /\ Len(o) = P /\ lb \in Nat /\ lk \in Nat /\ lw \in Nat /\ P <= lb
  BY LenProperties
<1>2. c \in Seq(S) /\ Len(c) = lb - P /\ \A i \in 1 .. lb - P : c[i] = b[P + i]
  <2>1. P + 1 \in 1 .. lb + 1 /\ lb \in (P + 1) - 1 .. lb
    BY <1>1
  <2>2. /\ c \in Seq(S) /\ Len(c) = lb - (P + 1) + 1
        /\ \A i \in 1 .. lb - (P + 1) + 1 : c[i] = b[(P + 1) + i - 1]
    BY <1>1, <2>1, PartAt
  <2> HIDE DEF c, lb
  <2>3. lb - (P + 1) + 1 = lb - P /\ \A i \in 1 .. lb - P : (P + 1) + i - 1 = P + i
    BY <1>1
  <2>4. QED
    BY <2>2, <2>3
<1>3. /\ x \in Seq(S) /\ Len(x) = lb + lk
      /\ \A i \in 1 .. lb + lk : x[i] = IF i <= lb THEN b[i] ELSE k[i - lb]
  BY <1>1, ConcatAt
<1>4. /\ y \in Seq(S) /\ Len(y) = P + lw
      /\ \A i \in 1 .. P + lw : y[i] = IF i <= P THEN o[i] ELSE w[i - P]
  BY <1>1, ConcatAt
<1>5. /\ z \in Seq(S) /\ Len(z) = lb - P + lk
      /\ \A i \in 1 .. lb - P + lk : z[i] = IF i <= lb - P THEN c[i] ELSE k[i - (lb - P)]
  <2> DEFINE lc == lb - P
  <2>1. lc \in Nat /\ Len(c) = lc /\ lk \in Nat /\ Len(k) = lk /\ c \in Seq(S)
    BY <1>1, <1>2
  <2> HIDE DEF lc, c, lk, lb
  <2>2. /\ z \in Seq(S) /\ Len(z) = lc + lk
        /\ \A i \in 1 .. lc + lk : z[i] = IF i <= lc THEN c[i] ELSE k[i - lc]
    <3>1. z \in Seq(S) /\ Len(z) = lc + lk
      BY <2>1, ConcatAt
    <3>2. ASSUME NEW i \in 1 .. lc + lk
          PROVE  z[i] = IF i <= lc THEN c[i] ELSE k[i - lc]
      <4>1. i \in 1 .. Len(c) + Len(k)
        BY <2>1
      <4>2. z[i] = IF i <= Len(c) THEN c[i] ELSE k[i - Len(c)]
        BY <2>1, <4>1, ConcatProperties
      <4>3. QED
        BY <2>1, <4>2, Zenon
    <3>3. QED
      BY <3>1, <3>2
  <2>3. QED
    BY <2>2, Zenon DEF lc
<1> HIDE DEF P, lb, lk, lw, c, x, y, z
<1>6. Len(x) <= Len(y) /\ \A i \in 1 .. Len(x) : x[i] = y[i]
  <2>1. Flow(x, y, open)
    BY Zenon DEF x, y
  <2>2. IsPrefix(x, y)
    BY <1>3, <2>1, FlowIsPrefix
  <2>3. QED
    BY <1>3, <1>4, <2>2, PrefixAt
<1>7. lb - P + lk <= lw
  BY <1>1, <1>3, <1>4, <1>6
<1>8. ASSUME NEW i \in 1 .. lb - P + lk
      PROVE  z[i] = w[i]
  <2> DEFINE n == P + i
  <2>1. n \in 1 .. lb + lk /\ n \in 1 .. P + lw /\ n > P /\ n - P = i
    BY <1>1, <1>7
  <2>2. z[i] = x[n]
    <3>1. CASE i <= lb - P
      <4>1. n <= lb /\ i \in 1 .. lb - P
        BY <1>1, <3>1
      <4>2. x[n] = b[n] /\ z[i] = c[i]
        BY <1>3, <1>5, <2>1, <3>1, <4>1
      <4>3. c[i] = b[n]
        BY <1>2, <4>1
      <4>4. QED
        BY <4>2, <4>3
    <3>2. CASE i > lb - P
      <4>1. n > lb /\ n - lb = i - (lb - P)
        BY <1>1, <3>2
      <4>2. x[n] = k[n - lb]
        <5>1. ~(n <= lb)
          BY <1>1, <2>1, <4>1
        <5>2. QED
          BY <1>3, <2>1, <5>1, Zenon
      <4>3. z[i] = k[i - (lb - P)]
        BY <1>1, <1>5, <3>2
      <4>4. QED
        BY <4>1, <4>2, <4>3
    <3>3. QED
      BY <1>1, <3>1, <3>2
  <2>3. x[n] = y[n]
    BY <1>3, <1>6, <2>1
  <2>4. y[n] = w[n - P]
    <3>1. ~(n <= P)
      BY <1>1, <2>1
    <3>2. QED
      BY <1>4, <2>1, <3>1, Zenon
  <2>5. QED
    BY <2>1, <2>2, <2>3, <2>4
<1>9. IsPrefix(z, w)
  <2>1. Len(z) <= Len(w) /\ \A i \in 1 .. Len(z) : z[i] = w[i]
    BY <1>5, <1>7, <1>8 DEF lw
  <2>2. QED
    BY <1>5, <2>1, PrefixAt
<1>10. x = y => z = w
  <2>1. HAVE x = y
  <2>2. lb + lk = P + lw
    BY <1>3, <1>4, <2>1
  <2>3. lb - P + lk = lw
    BY <1>1, <2>2
  <2>4. Len(z) = Len(w)
    BY <1>5, <2>3 DEF lw
  <2>5. \A i \in 1 .. Len(z) : z[i] = w[i]
    BY <1>5, <1>8
  <2>6. QED
    BY <1>5, <2>4, <2>5, SeqEqual
<1>11. Flow(x, y, open) => Flow(z, w, open)
  BY <1>9, <1>10, Zenon DEF Flow
<1>12. QED
  BY <1>2, <1>11, Zenon DEF x, y, z, c, lb, P

(* The first line in buffer_ is the first line on its way. *)
LEMMA FirstInBuffer ==
  ASSUME NEW lines \in Seq(Lines), NEW b \in Seq(Piece), NEW k \in Seq(Piece),
         IsPrefix(b \o k, Wire(lines)), HasLine(b)
  PROVE  /\ lines # <<>>
         /\ FirstNewline(b) = PiecesPerLine
         /\ PiecesPerLine <= Len(b)
         /\ b[PiecesPerLine].line = Head(lines)
<1> DEFINE P == PiecesPerLine
           x == b \o k
           w == Wire(lines)
           h == Head(lines)
<1>1. P \in Nat \ {0} /\ Len(b) \in Nat /\ Len(k) \in Nat
  BY ClientAssumption, LenProperties
<1>2. x \in Seq(Piece) /\ Len(x) = Len(b) + Len(k) /\ \A i \in 1 .. Len(b) : x[i] = b[i]
  BY <1>1, ConcatProperties
<1>3. w \in Seq(Piece) /\ Len(w) = P * Len(lines) /\ Len(w) \in Nat
  BY WirePieces
<1>4. Len(x) <= Len(w) /\ \A i \in 1 .. Len(x) : x[i] = w[i]
  BY <1>2, <1>3, PrefixAt
<1>5. PICK n \in 1 .. Len(b) : b[n].newline
  <2>1. DOMAIN b = 1 .. Len(b)
    BY LenProperties
  <2>2. QED
    BY <2>1, Zenon DEF HasLine
<1>6. lines # <<>>
  <2>1. SUFFICES ASSUME lines = <<>> PROVE FALSE
    OBVIOUS
  <2>2. Len(lines) = 0
    BY <2>1, EmptySeq
  <2>3. P * Len(lines) = 0
    BY <1>1, <2>2
  <2>4. Len(w) = 0
    BY <1>3, <2>3, Zenon
  <2>5. QED
    BY <1>1, <1>2, <1>4, <1>5, <2>4
<1> HIDE DEF x, w, h
<1>7. \A i \in 1 .. P : i <= Len(b) => b[i] = [line |-> h, newline |-> i = P]
  <2>1. h \in Lines /\ Tail(lines) \in Seq(Lines)
    BY <1>6, HeadTailProperties DEF h
  <2> DEFINE o == OnTheWire(h)
             t == Wire(Tail(lines))
  <2>2. o \in Seq(Piece) /\ Len(o) = P /\ \A i \in 1 .. P : o[i] = [line |-> h, newline |-> i = P]
    BY <2>1, LinePieces
  <2>3. t \in Seq(Piece) /\ Len(t) \in Nat
    BY <2>1, WirePieces, LenProperties
  <2>4. w = o \o t
    BY <1>6, WireFirst, Zenon DEF w, h
  <2> HIDE DEF o, t, P
  <2>5. \A i \in 1 .. P : w[i] = o[i]
    BY <1>1, <2>2, <2>3, <2>4, ConcatProperties
  <2>6. TAKE i \in 1 .. P
  <2>7. HAVE i <= Len(b)
  <2>8. b[i] = x[i] /\ x[i] = w[i]
    BY <1>1, <1>2, <1>4, <2>7
  <2>9. w[i] = [line |-> h, newline |-> i = P]
    BY <2>2, <2>5
  <2>10. QED
    BY <2>8, <2>9, Zenon
<1> HIDE DEF P
<1>8. \A i \in 1 .. P : i <= Len(b) => b[i].line = h /\ (b[i].newline <=> i = P)
  <2>1. TAKE i \in 1 .. P
  <2>2. HAVE i <= Len(b)
  <2> DEFINE last == i = P
  <2>3. b[i] = [line |-> h, newline |-> last]
    BY <1>7, <2>2
  <2> HIDE DEF last
  <2>4. b[i].line = h /\ b[i].newline = last
    BY <2>3
  <2>5. QED
    BY <2>4, Zenon DEF last
<1>9. P <= Len(b)
  <2>1. SUFFICES ASSUME Len(b) < P PROVE FALSE
    BY <1>1
  <2>2. n \in 1 .. P /\ n <= Len(b) /\ n # P
    BY <1>1, <1>5, <2>1
  <2>3. QED
    BY <1>5, <1>8, <2>2
<1>10. P \in DOMAIN b /\ b[P].newline /\ \A i \in 1 .. P - 1 : ~b[i].newline
  <2>1. DOMAIN b = 1 .. Len(b)
    BY LenProperties
  <2>2. P \in 1 .. P /\ P \in 1 .. Len(b)
    BY <1>1, <1>9
  <2>3. \A i \in 1 .. P - 1 : i \in 1 .. P /\ i <= Len(b) /\ i # P
    BY <1>1, <1>9
  <2>4. \A i \in 1 .. P - 1 : ~b[i].newline
    BY <1>8, <2>3
  <2>5. b[P].newline
    BY <1>8, <1>9, <2>2
  <2>6. QED
    BY <2>1, <2>2, <2>4, <2>5
<1>11. FirstNewline(b) = P
  <2> DEFINE f == FirstNewline(b)
  <2>1. f \in DOMAIN b /\ b[f].newline /\ \A i \in 1 .. f - 1 : ~b[i].newline
    BY <1>10, Zenon DEF FirstNewline
  <2>2. f \in 1 .. Len(b)
    BY <2>1, LenProperties
  <2> HIDE DEF f
  <2>3. ~(f < P)
    <3>1. SUFFICES ASSUME f < P PROVE FALSE
      OBVIOUS
    <3>2. f \in 1 .. P /\ f <= Len(b) /\ f # P
      BY <1>1, <2>2, <3>1
    <3>3. QED
      BY <1>8, <2>1, <3>2
  <2>4. ~(f > P)
    <3>1. SUFFICES ASSUME f > P PROVE FALSE
      OBVIOUS
    <3>2. P \in 1 .. f - 1
      BY <1>1, <2>2, <3>1
    <3>3. QED
      BY <1>10, <2>1, <3>2
  <2>5. f = P
    BY <1>1, <2>2, <2>3, <2>4
  <2>6. QED
    BY <2>5 DEF f
<1>12. b[P].line = h
  BY <1>1, <1>8, <1>9
<1>13. QED
  BY <1>6, <1>9, <1>11, <1>12, Zenon DEF P, h

-----------------------------------------------------------------------------
(* Requests and their answers. *)

(* A request carries its id and its method. *)
LEMMA RequestIs ==
  ASSUME NEW id, NEW method, NEW params
  PROVE  LET r == Request(id, method, params)
         IN IdOf(r) = id /\ r.v["method"].v = method
BY DEF Request, Object, Int64, String, Array, IdOf

(* The requests by their ids. *)
LEMMA RequestById ==
  /\ RequestOf(SubscribeId) = SubscribeRequest(SubscribeId)
  /\ RequestOf(SuggestId) = SuggestDifficultyRequest(SuggestId, "suggested")
  /\ RequestOf(AuthorizeId) = AuthorizeRequest(AuthorizeId, "worker_name", "password")
  /\ \A id \in Ids : id >= FirstSubmitId => RequestOf(id) = SubmitShareRequest(id, Share)
<1> DEFINE one == SubscribeId
           two == SuggestId
           three == AuthorizeId
<1>1. one # two /\ one # three /\ two # three
  BY DEF SubscribeId, SuggestId, AuthorizeId
<1>2. \A id \in Ids : id >= FirstSubmitId => id # one /\ id # two /\ id # three
  BY IdsFit DEF SubscribeId, SuggestId, AuthorizeId, FirstSubmitId
<1>3. RequestOf(one) = SubscribeRequest(one)
  BY <1>1, Zenon DEF RequestOf, one, two, three
<1>4. RequestOf(two) = SuggestDifficultyRequest(two, "suggested")
  BY <1>1, Zenon DEF RequestOf, one, two, three
<1>5. RequestOf(three) = AuthorizeRequest(three, "worker_name", "password")
  BY <1>1, Zenon DEF RequestOf, one, two, three
<1>6. ASSUME NEW id \in Ids, id >= FirstSubmitId
      PROVE  RequestOf(id) = SubmitShareRequest(id, Share)
  <2>1. id # one /\ id # two /\ id # three
    BY <1>2, <1>6
  <2>2. QED
    BY <2>1, Zenon DEF RequestOf, one, two, three
<1>7. QED
  BY <1>3, <1>4, <1>5, <1>6

(* Each request's id and its method. *)
LEMMA RequestCarries ==
  ASSUME NEW id \in Ids
  PROVE  LET r == RequestOf(id)
             m == r.v["method"].v
         IN \/ id = SubscribeId /\ IdOf(r) = id /\ m = "mining.subscribe"
            \/ id # SubscribeId /\ IdOf(r) = id
               /\ m \in {"mining.suggest_difficulty", "mining.authorize", "mining.submit"}
<1> DEFINE r == RequestOf(id)
           m == r.v["method"].v
<1> DEFINE Carries(method) == \E params : r = Request(id, method, params)
<1>0. ASSUME NEW method, Carries(method)
      PROVE  IdOf(r) = id /\ m = method
  <2>1. PICK params : r = Request(id, method, params)
    BY <1>0
  <2>2. IdOf(Request(id, method, params)) = id
        /\ Request(id, method, params).v["method"].v = method
    BY RequestIs
  <2> HIDE DEF r
  <2>3. QED
    BY <2>1, <2>2, Zenon
<1>1. CASE id = SubscribeId
  <2>1. Carries("mining.subscribe")
    BY <1>1, RequestById, Zenon DEF SubscribeRequest
  <2>2. QED
    BY <1>0, <1>1, <2>1, Zenon
<1>2. CASE id = SuggestId
  <2>1. id # SubscribeId
    BY <1>2 DEF SuggestId, SubscribeId
  <2>2. QED
    <3>1. Carries("mining.suggest_difficulty")
      BY <1>2, RequestById, Zenon DEF SuggestDifficultyRequest
    <3>2. QED
      BY <1>0, <2>1, <3>1, Zenon
<1>3. CASE id = AuthorizeId
  <2>1. id # SubscribeId
    BY <1>3 DEF AuthorizeId, SubscribeId
  <2>2. QED
    <3>1. Carries("mining.authorize")
      BY <1>3, RequestById, Zenon DEF AuthorizeRequest
    <3>2. QED
      BY <1>0, <2>1, <3>1, Zenon
<1>4. CASE id >= FirstSubmitId
  <2>1. id # SubscribeId
    BY <1>4 DEF FirstSubmitId, SubscribeId
  <2>2. RequestOf(id) = SubmitShareRequest(id, Share)
    BY <1>4, RequestById
  <2>3. QED
    <3>1. Carries("mining.submit")
      BY <2>2, Zenon DEF SubmitShareRequest
    <3>2. QED
      BY <1>0, <2>1, <3>1, Zenon
<1>5. id = SubscribeId \/ id = SuggestId \/ id = AuthorizeId \/ id >= FirstSubmitId
  BY ClientAssumption DEF Ids, SubscribeId, SuggestId, AuthorizeId, FirstSubmitId
<1>6. QED
  BY <1>1, <1>2, <1>3, <1>4, <1>5

(* Every answer the pool may give is a line, and has the request's id. *)
LEMMA AnswersAreLines ==
  ASSUME NEW id \in Ids, NEW result \in ResultsFor(RequestOf(id).v["method"].v)
  PROVE  IdOf(RequestOf(id)) = id /\ Response(IdOf(RequestOf(id)), result) \in Lines
<1> DEFINE r == RequestOf(id)
           m == r.v["method"].v
<1>1. \/ id = SubscribeId /\ IdOf(r) = id /\ m = "mining.subscribe"
      \/ id # SubscribeId /\ IdOf(r) = id
         /\ m \in {"mining.suggest_difficulty", "mining.authorize", "mining.submit"}
  BY RequestCarries
<1> HIDE DEF r
<1>2. CASE id = SubscribeId /\ IdOf(r) = id /\ m = "mining.subscribe"
  <2>1. ResultsFor(m) = {"subscription"}
    <3>1. /\ m # "mining.suggest_difficulty" /\ m # "mining.authorize"
          /\ m # "mining.submit"
      BY <1>2
    <3>2. QED
      BY <1>2, <3>1, Zenon DEF ResultsFor
  <2>2. result = "subscription"
    BY <2>1, Zenon DEF r, m
  <2>3. Response(id, result) \in Lines
    <3>1. Response(SubscribeId, "subscription") \in Lines
      BY DEF Lines, Responses
    <3>2. QED
      BY <1>2, <2>2, <3>1, Zenon
  <2>4. QED
    BY <1>2, <2>3, Zenon DEF r
<1>3. CASE id # SubscribeId /\ IdOf(r) = id
           /\ m \in {"mining.suggest_difficulty", "mining.authorize", "mining.submit"}
  <2>1. ResultsFor(m) \subseteq {"true", "false", "null"}
    <3>1. CASE m = "mining.suggest_difficulty"
      <4>1. ResultsFor(m) = {"true"}
        BY <3>1 DEF ResultsFor
      <4>2. QED
        BY <4>1
    <3>2. CASE m = "mining.authorize"
      <4>1. ResultsFor(m) = {"true", "false"}
        BY <3>2 DEF ResultsFor
      <4>2. QED
        BY <4>1
    <3>3. CASE m = "mining.submit"
      <4>1. ResultsFor(m) = {"true", "null"}
        BY <3>3 DEF ResultsFor
      <4>2. QED
        BY <4>1
    <3>4. QED
      BY <1>3, <3>1, <3>2, <3>3, Zenon
  <2>2. result \in {"true", "false", "null"}
    BY <2>1, Zenon DEF r, m
  <2>3. id \in Ids \ {SubscribeId}
    BY <1>3
  <2>4. Response(id, result) \in Lines
    BY <2>2, <2>3 DEF Lines, Responses
  <2>5. QED
    BY <1>3, <2>4, Zenon DEF r
<1>4. QED
  BY <1>1, <1>2, <1>3

-----------------------------------------------------------------------------
(* The latest of the lines consumed. *)

(* IsLatest of a sequence of lines of which c are consumed. *)
LatestOf(s, c, value, method, default) ==
  \/ /\ value = default
     /\ \A i \in 1 .. c : s[i].method # method
  \/ \E i \in 1 .. c :
       /\ s[i].method = method
       /\ value = s[i].param
       /\ \A k \in i + 1 .. c : s[k].method # method

(* Lines that were not consumed do not matter. *)
LEMMA LatestStays ==
  ASSUME NEW s, NEW more, NEW c \in Nat, NEW value, NEW method, NEW default,
         \A i \in 1 .. c : more[i] = s[i],
         LatestOf(s, c, value, method, default)
  PROVE  LatestOf(more, c, value, method, default)
<1>1. CASE value = default /\ \A i \in 1 .. c : s[i].method # method
  BY <1>1, Zenon DEF LatestOf
<1>2. ASSUME NEW i \in 1 .. c, s[i].method = method, value = s[i].param,
             \A k \in i + 1 .. c : s[k].method # method
      PROVE  LatestOf(more, c, value, method, default)
  <2>1. \A k \in i + 1 .. c : k \in 1 .. c
    OBVIOUS
  <2>2. \A k \in i + 1 .. c : more[k].method # method
    BY <1>2, <2>1, Zenon
  <2>3. more[i].method = method /\ value = more[i].param
    BY <1>2, Zenon
  <2>4. QED
    BY <2>2, <2>3, Zenon DEF LatestOf
<1>3. QED
  BY <1>1, <1>2, Zenon DEF LatestOf

(* The next line is the latest if it has the method. *)
LEMMA LatestNext ==
  ASSUME NEW s, NEW c \in Nat, NEW value, NEW next, NEW method, NEW default,
         LatestOf(s, c, value, method, default),
         s[c + 1].method = method => next = s[c + 1].param,
         s[c + 1].method # method => next = value
  PROVE  LatestOf(s, c + 1, next, method, default)
<1>1. CASE s[c + 1].method = method
  <2>1. c + 1 \in 1 .. c + 1 /\ (c + 1) + 1 .. c + 1 = {}
    OBVIOUS
  <2>2. next = s[c + 1].param
    BY <1>1
  <2>3. \A k \in (c + 1) + 1 .. c + 1 : s[k].method # method
    BY <2>1
  <2>4. QED
    BY <1>1, <2>1, <2>2, <2>3, Zenon DEF LatestOf
<1>2. CASE s[c + 1].method # method
  <2>1. next = value
    BY <1>2
  <2>2. \A k \in 1 .. c + 1 : k \in 1 .. c \/ k = c + 1
    OBVIOUS
  <2>3. CASE value = default /\ \A i \in 1 .. c : s[i].method # method
    <3>1. \A i \in 1 .. c + 1 : s[i].method # method
      BY <1>2, <2>2, <2>3, Zenon
    <3>2. QED
      BY <2>1, <2>3, <3>1, Zenon DEF LatestOf
  <2>4. ASSUME NEW i \in 1 .. c, s[i].method = method, value = s[i].param,
               \A k \in i + 1 .. c : s[k].method # method
        PROVE  LatestOf(s, c + 1, next, method, default)
    <3>1. i \in 1 .. c + 1 /\ \A k \in i + 1 .. c + 1 : k \in i + 1 .. c \/ k = c + 1
      OBVIOUS
    <3>2. \A k \in i + 1 .. c + 1 : s[k].method # method
      BY <1>2, <2>4, <3>1, Zenon
    <3>3. QED
      BY <2>1, <2>4, <3>1, <3>2, Zenon DEF LatestOf
  <2>5. QED
    BY <2>3, <2>4, Zenon DEF LatestOf
<1>3. QED
  BY <1>1, <1>2

(* What apply_parsed_message changes (stratum_client.cpp 175-200). *)
LEMMA Applied ==
  ASSUME NEW line, NEW parsed, IsParsed(line, parsed), Apply(parsed)
  PROVE  /\ line.method = "mining.notify" =>
              line.param \in Jobs /\ current_job' = line.param
         /\ line.method # "mining.notify" => current_job' = current_job
         /\ line.method = "mining.set_difficulty" =>
              line.param \in Difficulties /\ difficulty' = line.param
         /\ line.method # "mining.set_difficulty" => difficulty' = difficulty
         /\ subscribed' = (subscribed \/ Is(parsed, "SubscribeResponse"))
<1>1. CASE /\ line.method = "mining.notify" /\ line.param \in Jobs
           /\ parsed = {[type |-> "NotifyMessage", job_id |-> line.param]}
  <2> DEFINE m == [type |-> "NotifyMessage", job_id |-> line.param]
  <2>1. m.type = "NotifyMessage" /\ m.job_id = line.param
    OBVIOUS
  <2>2. parsed = {m}
    BY <1>1
  <2> HIDE DEF m
  <2>3. MessageOf(parsed) = m /\ \A type : Is(parsed, type) <=> m.type = type
    BY <2>2, OneMessage
  <2>4. Is(parsed, "NotifyMessage") /\ ~Is(parsed, "SetDifficultyMessage")
    BY <2>1, <2>3
  <2>5. QED
    BY <1>1, <2>1, <2>3, <2>4 DEF Apply
<1>2. CASE /\ line.method = "mining.set_difficulty" /\ line.param \in Difficulties
           /\ parsed = {[type |-> "SetDifficultyMessage", difficulty |-> line.param]}
  <2> DEFINE m == [type |-> "SetDifficultyMessage", difficulty |-> line.param]
  <2>1. m.type = "SetDifficultyMessage" /\ m.difficulty = line.param
    OBVIOUS
  <2>2. parsed = {m}
    BY <1>2
  <2> HIDE DEF m
  <2>3. MessageOf(parsed) = m /\ \A type : Is(parsed, type) <=> m.type = type
    BY <2>2, OneMessage
  <2>4. ~Is(parsed, "NotifyMessage") /\ Is(parsed, "SetDifficultyMessage")
    BY <2>1, <2>3
  <2>5. QED
    BY <1>2, <2>1, <2>3, <2>4 DEF Apply
<1>3. CASE /\ line.method \notin {"mining.notify", "mining.set_difficulty"}
           /\ ~Is(parsed, "NotifyMessage") /\ ~Is(parsed, "SetDifficultyMessage")
  BY <1>3 DEF Apply
<1>4. ASSUME line.method \notin {"mining.notify", "mining.set_difficulty"}
      PROVE  ~Is(parsed, "NotifyMessage") /\ ~Is(parsed, "SetDifficultyMessage")
  <2>1. CASE parsed = nullopt
    BY <2>1 DEF Is, nullopt
  <2>2. CASE parsed = UnknownMessage
    BY <2>2 DEF Is, UnknownMessage
  <2>3. CASE parsed = {[type |-> "SubscribeResponse", id |-> line.id]}
    BY <2>3 DEF Is
  <2>4. CASE \E m : parsed = {m} /\ m.type = "SubmitResponse"
    BY <2>4 DEF Is
  <2>5. QED
    BY <1>4, <2>1, <2>2, <2>3, <2>4, Zenon DEF IsParsed
<1>5. QED
  BY <1>1, <1>2, <1>3, <1>4, Zenon DEF IsParsed

(* The answer to the share is a response line with its id. *)
LEMMA Answered ==
  ASSUME NEW line, NEW parsed, IsParsed(line, parsed), Answers(parsed)
  PROVE  line.id = submit_id /\ MessageOf(parsed).accepted = (line.result = "true")
<1>1. Is(parsed, "SubmitResponse") /\ MessageOf(parsed).id = submit_id
  BY DEF Answers
<1>2. CASE parsed = {[type |-> "NotifyMessage", job_id |-> line.param]}
  BY <1>1, <1>2 DEF Is
<1>3. CASE parsed = {[type |-> "SetDifficultyMessage", difficulty |-> line.param]}
  BY <1>1, <1>3 DEF Is
<1>4. CASE parsed = nullopt
  BY <1>1, <1>4 DEF Is, nullopt
<1>5. CASE parsed = UnknownMessage
  BY <1>1, <1>5 DEF Is, UnknownMessage
<1>6. CASE parsed = {[type |-> "SubscribeResponse", id |-> line.id]}
  BY <1>1, <1>6 DEF Is
<1>7. ASSUME NEW m, parsed = {m}, m.id = line.id, m.accepted = (line.result = "true")
      PROVE  line.id = submit_id /\ MessageOf(parsed).accepted = (line.result = "true")
  <2>1. MessageOf(parsed) = m
    BY <1>7, OneMessage
  <2>2. QED
    BY <1>1, <1>7, <2>1, Zenon
<1>8. QED
  BY <1>2, <1>3, <1>4, <1>5, <1>6, <1>7, Zenon DEF IsParsed

-----------------------------------------------------------------------------
(* The steps: lines arrive and are consumed. *)

(* StreamConserved by its parts. *)
LEMMA StreamIs ==
  /\ StreamConserved <=>
       Flow(buffer \o kernel, Wire(SubSeq(sent, consumed + 1, Len(sent))), connected)
  /\ StreamConserved' <=>
       Flow(buffer' \o kernel', Wire(SubSeq(sent', consumed' + 1, Len(sent'))), connected')
BY Zenon DEF StreamConserved, Flow

(* WorkIsLatest by its two parts. *)
LEMMA WorkIs ==
  /\ WorkIsLatest <=>
       /\ LatestOf(sent, consumed, current_job, "mining.notify", NoJob)
       /\ LatestOf(sent, consumed, difficulty, "mining.set_difficulty", InitialDifficulty)
  /\ WorkIsLatest' <=>
       /\ LatestOf(sent', consumed', current_job', "mining.notify", NoJob)
       /\ LatestOf(sent', consumed', difficulty', "mining.set_difficulty", InitialDifficulty)
BY Zenon DEF WorkIsLatest, IsLatest, LatestOf

(* What is left of the lines. *)
LEMMA RestType ==
  ASSUME TypeOK
  PROVE  /\ SubSeq(sent, consumed + 1, Len(sent)) \in Seq(Lines)
         /\ Len(sent) \in Nat /\ consumed \in Nat
         /\ \A i \in 1 .. consumed : i \in 1 .. Len(sent)
<1>1. sent \in Seq(Lines) /\ consumed \in 0 .. Len(sent) /\ Len(sent) \in Nat
  BY LenProperties DEF TypeOK
<1>2. consumed + 1 \in 1 .. Len(sent) + 1 /\ Len(sent) \in (consumed + 1) - 1 .. Len(sent)
  BY <1>1
<1>3. SubSeq(sent, consumed + 1, Len(sent)) \in Seq(Lines)
  BY <1>1, <1>2, PartAt
<1>4. QED
  BY <1>1, <1>3

(* What every line of the pool leaves as it was. *)
LEMMA Written ==
  ASSUME TypeOK, StreamConserved, WorkIsLatest, VerdictsMatch,
         NEW line \in Lines, PoolWrites(line)
  PROVE  /\ kernel' \in Seq(Piece)
         /\ sent' \in Seq(Lines) /\ consumed' \in 0 .. Len(sent')
         /\ StreamConserved' /\ WorkIsLatest' /\ VerdictsMatch'
<1> DEFINE rest == SubSeq(sent, consumed + 1, Len(sent))
           after == SubSeq(sent', consumed' + 1, Len(sent'))
<1>1. /\ connected /\ kernel' = kernel \o OnTheWire(line) /\ sent' = Append(sent, line)
      /\ connected' = connected /\ buffer' = buffer /\ consumed' = consumed
      /\ current_job' = current_job /\ difficulty' = difficulty /\ verdicts' = verdicts
  BY DEF PoolWrites, clientVars, workVars
<1>2. /\ kernel \in Seq(Piece) /\ buffer \in Seq(Piece) /\ sent \in Seq(Lines)
      /\ consumed \in 0 .. Len(sent)
  BY DEF TypeOK
<1>3. OnTheWire(line) \in Seq(Piece) /\ rest \in Seq(Lines)
  BY LinePieces, RestType
<1>4. kernel' \in Seq(Piece)
  BY <1>1, <1>2, <1>3, ConcatProperties
<1>5. /\ sent' \in Seq(Lines) /\ Len(sent') = Len(sent) + 1
      /\ Len(sent) \in Nat /\ consumed \in Nat
      /\ \A i \in 1 .. Len(sent) : sent'[i] = sent[i]
  BY <1>1, <1>2, AppendProperties, LenProperties
<1>6. consumed' \in 0 .. Len(sent')
  BY <1>1, <1>2, <1>5
<1>7. StreamConserved'
  <2>1. after = Append(rest, line)
    BY <1>1, <1>2, RestAppend, Zenon
  <2> HIDE DEF rest, after
  <2>2. Wire(after) = Wire(rest) \o OnTheWire(line)
    BY <1>3, <2>1, WireAppend
  <2>3. buffer \o kernel = Wire(rest)
    BY <1>1, StreamIs, Zenon DEF Flow, rest
  <2>4. buffer' \o kernel' = (buffer \o kernel) \o OnTheWire(line)
    <3>1. (buffer \o kernel) \o OnTheWire(line) = buffer \o (kernel \o OnTheWire(line))
      BY <1>2, <1>3, ConcatAssociative
    <3>2. QED
      BY <1>1, <3>1, Zenon
  <2>5. buffer' \o kernel' = Wire(after)
    BY <2>2, <2>3, <2>4, Zenon
  <2>6. connected'
    BY <1>1
  <2>7. QED
    BY <2>5, <2>6, StreamIs, Zenon DEF Flow, after
<1>8. WorkIsLatest'
  <2>1. \A i \in 1 .. consumed : sent'[i] = sent[i]
    BY <1>5, RestType
  <2>2. /\ LatestOf(sent, consumed, current_job, "mining.notify", NoJob)
        /\ LatestOf(sent, consumed, difficulty, "mining.set_difficulty", InitialDifficulty)
    BY WorkIs
  <2>3. /\ LatestOf(sent', consumed, current_job, "mining.notify", NoJob)
        /\ LatestOf(sent', consumed, difficulty, "mining.set_difficulty", InitialDifficulty)
    BY <1>5, <2>1, <2>2, LatestStays
  <2>4. QED
    BY <1>1, <2>3, WorkIs, Zenon
<1>9. VerdictsMatch'
  <2>1. ASSUME NEW l \in ToSet(sent) PROVE l \in ToSet(sent')
    <3>1. PICK i \in DOMAIN sent : l = sent[i]
      BY Zenon DEF ToSet
    <3>2. i \in 1 .. Len(sent)
      BY <1>2, <3>1, LenProperties
    <3>3. i \in DOMAIN sent' /\ sent'[i] = l
      <4>1. DOMAIN sent' = 1 .. Len(sent')
        BY <1>5, LenProperties
      <4>2. QED
        BY <1>5, <3>1, <3>2, <4>1
    <3>4. QED
      BY <3>3, Zenon DEF ToSet
  <2>2. QED
    BY <1>1, <2>1, Zenon DEF VerdictsMatch
<1>10. QED
  BY <1>4, <1>5, <1>6, <1>7, <1>8, <1>9

(* getline takes the next of the pool's lines out of the stream.           *)
LEMMA Consumed ==
  ASSUME TypeOK, StreamConserved, ConsumeLine
  PROVE  /\ FirstLine \in Lines /\ FirstLine = sent[consumed + 1]
         /\ consumed' = consumed + 1 /\ consumed' \in 0 .. Len(sent')
         /\ buffer' \in Seq(Piece)
         /\ StreamConserved'
<1> DEFINE rest == SubSeq(sent, consumed + 1, Len(sent))
           after == SubSeq(sent', consumed' + 1, Len(sent'))
           P == PiecesPerLine
           w == Wire(rest)
<1>1. /\ HasLine(buffer) /\ consumed' = consumed + 1
      /\ buffer' = SubSeq(buffer, FirstNewline(buffer) + 1, Len(buffer))
      /\ kernel' = kernel /\ connected' = connected /\ sent' = sent
  BY DEF ConsumeLine, connectionVars
<1>2. /\ kernel \in Seq(Piece) /\ buffer \in Seq(Piece) /\ sent \in Seq(Lines)
      /\ consumed \in 0 .. Len(sent) /\ P \in Nat \ {0} /\ connected \in BOOLEAN
  BY ClientAssumption DEF TypeOK
<1>3. rest \in Seq(Lines) /\ w \in Seq(Piece) /\ consumed \in Nat
  <2>1. rest \in Seq(Lines) /\ consumed \in Nat
    BY RestType
  <2>2. QED
    BY <2>1, WirePieces
<1> HIDE DEF rest, after, P, w
<1>4. Flow(buffer \o kernel, w, connected)
  BY StreamIs, Zenon DEF rest, w
<1>5. IsPrefix(buffer \o kernel, w)
  <2>1. buffer \o kernel \in Seq(Piece)
    BY <1>2, ConcatProperties
  <2>2. QED
    BY <1>4, <2>1, FlowIsPrefix
<1>6. /\ rest # <<>> /\ FirstNewline(buffer) = P /\ P <= Len(buffer)
      /\ buffer[P].line = Head(rest)
  BY <1>1, <1>2, <1>3, <1>5, FirstInBuffer DEF w, P
<1>7. /\ consumed + 1 \in 0 .. Len(sent)
      /\ Head(rest) = sent[consumed + 1]
      /\ Tail(rest) = SubSeq(sent, consumed + 2, Len(sent))
  BY <1>2, <1>6, RestTail DEF rest
<1>8. Head(rest) \in Lines /\ Tail(rest) \in Seq(Lines)
  BY <1>3, <1>6, HeadTailProperties
<1>9. FirstLine = Head(rest)
  BY <1>6, Zenon DEF FirstLine
<1>10. after = Tail(rest)
  <2>1. (consumed + 1) + 1 = consumed + 2
    BY <1>3
  <2>2. QED
    BY <1>1, <1>7, <2>1, Zenon DEF after
<1> DEFINE o == OnTheWire(Head(rest))
           t == Wire(Tail(rest))
           left == SubSeq(buffer, P + 1, Len(buffer))
<1>11. o \in Seq(Piece) /\ P = Len(o) /\ t \in Seq(Piece)
  <2>1. o \in Seq(Piece) /\ P = Len(o)
    BY <1>8, LinePieces DEF P
  <2>2. QED
    BY <1>8, <2>1, WirePieces
<1>12. w = o \o t
  BY <1>3, <1>6, WireFirst, Zenon DEF w
<1> HIDE DEF o, t
<1>13. left \in Seq(Piece) /\ Flow(left \o kernel, t, connected)
  <2>1. Flow(buffer \o kernel, o \o t, connected)
    BY <1>4, <1>12, Zenon
  <2>2. buffer \in Seq(Piece) /\ kernel \in Seq(Piece)
    BY <1>2
  <2>3. o \in Seq(Piece) /\ t \in Seq(Piece) /\ Len(o) <= Len(buffer)
    BY <1>6, <1>11
  <2>4. /\ SubSeq(buffer, Len(o) + 1, Len(buffer)) \in Seq(Piece)
        /\ Flow(SubSeq(buffer, Len(o) + 1, Len(buffer)) \o kernel, t, connected)
    BY <2>1, <2>2, <2>3, FlowConsume
  <2>5. QED
    BY <1>11, <2>4, Zenon
<1>14. buffer' = left
  BY <1>1, <1>6, Zenon
<1> HIDE DEF left
<1>15. StreamConserved'
  <2>1. Wire(after) = t
    BY <1>10, Zenon DEF t
  <2>2. Flow(buffer' \o kernel', Wire(after), connected')
    BY <1>1, <1>13, <1>14, <2>1, Zenon
  <2>3. QED
    BY <2>2, StreamIs, Zenon DEF after
<1>16. consumed' \in 0 .. Len(sent')
  BY <1>1, <1>7, Zenon
<1>17. QED
  BY <1>1, <1>7, <1>8, <1>9, <1>13, <1>14, <1>15, <1>16, Zenon

-----------------------------------------------------------------------------
(* The steps: what does not touch the stream. *)

(* History and work are as they were. *)
LEMMA WorkStays ==
  ASSUME UNCHANGED <<sent, consumed, current_job, difficulty, verdicts>>
  PROVE  (WorkIsLatest => WorkIsLatest') /\ (VerdictsMatch => VerdictsMatch')
<1>1. WorkIsLatest => WorkIsLatest'
  BY WorkIs, Zenon
<1>2. VerdictsMatch => VerdictsMatch'
  BY Zenon DEF VerdictsMatch
<1>3. QED
  BY <1>1, <1>2

(* The buffers are as they were. *)
LEMMA StreamStays ==
  ASSUME UNCHANGED <<sent, consumed, buffer, kernel, connected>>
  PROVE  StreamConserved => StreamConserved'
BY StreamIs, Zenon

(* A request the client writes is the one of its id, and no other has it.  *)
LEMMA Sent ==
  ASSUME TypeOK, ReadyInv, next_id < FirstSubmitId + MaxSubmits, Send(RequestOf(next_id))
  PROVE  /\ requests' \subseteq {RequestOf(id) : id \in Ids}
         /\ next_id' \in Ids /\ next_id' = next_id + 1
         /\ \A request \in requests' : IdOf(request) < next_id'
         /\ kernel' = kernel /\ connected' = connected
<1>1. /\ requests' \subseteq requests \cup {RequestOf(next_id)}
      /\ next_id' = next_id + 1 /\ kernel' = kernel /\ connected' = connected
  BY DEF Send
<1>2. requests \subseteq {RequestOf(id) : id \in Ids} /\ next_id \in Ids
  BY DEF TypeOK
<1>3. next_id' \in Ids
  BY <1>1, <1>2, ClientAssumption DEF Ids, FirstSubmitId
<1>4. requests' \subseteq {RequestOf(id) : id \in Ids}
  BY <1>1, <1>2
<1>5. ASSUME NEW id \in Ids
      PROVE  IdOf(RequestOf(id)) = id
  BY RequestCarries
<1>6. ASSUME NEW request \in requests'
      PROVE  IdOf(request) < next_id'
  <2>1. CASE request \in requests
    <3>1. PICK id \in Ids : request = RequestOf(id)
      BY <1>2, <2>1
    <3>2. IdOf(request) = id /\ IdOf(request) < next_id
      BY <1>5, <2>1, <3>1 DEF ReadyInv
    <3>3. id \in Int /\ next_id \in Int
      BY <1>2, IdsFit
    <3>4. QED
      BY <1>1, <3>2, <3>3
  <2>2. CASE request = RequestOf(next_id)
    <3>1. IdOf(request) = next_id
      BY <1>2, <1>5, <2>2, Zenon
    <3>2. next_id \in Int
      BY <1>2, IdsFit
    <3>3. QED
      BY <1>1, <3>1, <3>2
  <2>3. QED
    BY <1>1, <2>1, <2>2
<1>7. QED
  BY <1>1, <1>3, <1>4, <1>6

-----------------------------------------------------------------------------
(* Every step preserves the invariant. *)

(* The pool's steps. *)
LEMMA PoolStep ==
  ASSUME ClientInv, Pool
  PROVE  ClientInv'
<1>1. TypeOK /\ ReadyInv /\ CallInv /\ StreamConserved /\ WorkIsLatest /\ VerdictsMatch
  BY DEF ClientInv, TypeInv
<1>2. ASSUME NEW line \in Lines, PoolWrites(line), requests' \subseteq requests
      PROVE  ClientInv'
  <2>1. /\ kernel' \in Seq(Piece)
        /\ sent' \in Seq(Lines) /\ consumed' \in 0 .. Len(sent')
        /\ StreamConserved' /\ WorkIsLatest' /\ VerdictsMatch'
    BY <1>1, <1>2, Written
  <2>2. UNCHANGED <<connected, call, buffer, next_id, subscribed, current_job,
                    difficulty, poll_result, verdicts>>
    BY <1>2 DEF PoolWrites, clientVars, workVars
  <2>3. TypeOK'
    BY <1>1, <1>2, <2>1, <2>2 DEF TypeOK
  <2>4. ReadyInv'
    BY <1>1, <1>2, <2>2 DEF ReadyInv, Operating, submit_id
  <2>5. CallInv'
    BY <1>1, <2>2 DEF CallInv
  <2>6. QED
    BY <2>1, <2>3, <2>4, <2>5 DEF ClientInv, TypeInv
<1>3. CASE PoolPush
  <2>1. PICK line \in Pushes : PoolWrites(line)
    BY <1>3 DEF PoolPush
  <2>2. line \in Lines /\ requests' \subseteq requests
    BY <1>3 DEF PoolPush, Lines
  <2>3. QED
    BY <1>2, <2>1, <2>2
<1>4. CASE PoolAnswer
  <2>1. PICK request \in requests :
          /\ \E result \in ResultsFor(request.v["method"].v) :
               PoolWrites(Response(IdOf(request), result))
          /\ requests' = requests \ {request}
    BY <1>4, Zenon DEF PoolAnswer
  <2>2. PICK result \in ResultsFor(request.v["method"].v) :
          PoolWrites(Response(IdOf(request), result))
    BY <2>1
  <2>3. PICK id \in Ids : request = RequestOf(id)
    BY <1>1 DEF TypeOK
  <2>4. Response(IdOf(request), result) \in Lines
    <3>1. result \in ResultsFor(RequestOf(id).v["method"].v)
      BY <2>3, Zenon
    <3>2. QED
      BY <2>3, <3>1, AnswersAreLines, Zenon
  <2>5. requests' \subseteq requests
    BY <2>1
  <2>6. QED
    BY <1>2, <2>2, <2>4, <2>5
<1>5. CASE PoolClose
  <2>1. /\ connected /\ connected' = FALSE /\ kernel' \in {kernel, <<>>}
        /\ UNCHANGED <<requests, call, buffer, next_id, subscribed, current_job,
                       difficulty, poll_result, sent, consumed, verdicts>>
    BY <1>5 DEF PoolClose, clientVars, workVars, historyVars
  <2>2. kernel' \in Seq(Piece)
    BY <1>1, <2>1, EmptySeq DEF TypeOK
  <2>3. TypeOK'
    BY <1>1, <2>1, <2>2 DEF TypeOK
  <2>4. ReadyInv'
    BY <1>1, <2>1 DEF ReadyInv, Operating, submit_id
  <2>5. CallInv'
    BY <1>1, <2>1 DEF CallInv
  <2>6. WorkIsLatest' /\ VerdictsMatch'
    BY <1>1, <2>1, WorkStays
  <2>7. StreamConserved'
    <3> DEFINE w == Wire(SubSeq(sent, consumed + 1, Len(sent)))
    <3>1. w \in Seq(Piece)
      BY <1>1, RestType, WirePieces
    <3>2. buffer \in Seq(Piece) /\ kernel \in Seq(Piece)
      BY <1>1 DEF TypeOK
    <3> HIDE DEF w
    <3>3. IsPrefix(buffer \o kernel, w)
      <4>1. Flow(buffer \o kernel, w, connected)
        BY <1>1, StreamIs, Zenon DEF w
      <4>2. buffer \o kernel \in Seq(Piece)
        BY <3>2, ConcatProperties
      <4>3. QED
        BY <4>1, <4>2, FlowIsPrefix
    <3>4. IsPrefix(buffer \o <<>>, w)
      BY <3>1, <3>2, <3>3, FlowReset
    <3>5. IsPrefix(buffer \o kernel', w)
      <4>1. kernel' = kernel \/ kernel' = <<>>
        BY <2>1
      <4>2. QED
        BY <3>3, <3>4, <4>1, Zenon
    <3>6. Flow(buffer' \o kernel', Wire(SubSeq(sent', consumed' + 1, Len(sent'))), connected')
      BY <2>1, <3>5, Zenon DEF Flow, w
    <3>7. QED
      BY <3>6, StreamIs
  <2>8. QED
    BY <2>3, <2>4, <2>5, <2>6, <2>7 DEF ClientInv, TypeInv
<1>6. QED
  BY <1>3, <1>4, <1>5 DEF Pool

(* What a call writes, and which call comes next. *)
LEMMA Writes ==
  ASSUME ClientInv, Handshake \/ SubmitShare
  PROVE  /\ next_id < FirstSubmitId + MaxSubmits
         /\ Send(RequestOf(next_id))
         /\ \/ call = "subscribe" /\ call' = "suggest_difficulty"
            \/ call = "suggest_difficulty" /\ call' = "authorize"
            \/ call = "authorize" /\ call' = "run_until_ready"
            \/ call = "none" /\ call' = "submit_share"
<1>1. TypeOK /\ ReadyInv /\ CallInv
  BY DEF ClientInv, TypeInv
<1>2. CASE call = "subscribe" /\ Handshake
  <2>1. Send(SubscribeRequest(next_id)) /\ call' = "suggest_difficulty"
    BY <1>2 DEF Handshake
  <2>2. next_id = SubscribeId
    BY <1>1, <1>2 DEF CallInv
  <2>3. next_id < FirstSubmitId + MaxSubmits
    BY <2>2, ClientAssumption DEF SubscribeId, FirstSubmitId
  <2>4. QED
    BY <1>2, <2>1, <2>2, <2>3, RequestById, Zenon
<1>3. CASE call = "suggest_difficulty" /\ Handshake
  <2>1. Send(SuggestDifficultyRequest(next_id, "suggested")) /\ call' = "authorize"
    BY <1>3 DEF Handshake
  <2>2. next_id = SuggestId
    BY <1>1, <1>3 DEF CallInv
  <2>3. next_id < FirstSubmitId + MaxSubmits
    BY <2>2, ClientAssumption DEF SuggestId, FirstSubmitId
  <2>4. QED
    BY <1>3, <2>1, <2>2, <2>3, RequestById, Zenon
<1>4. CASE call = "authorize" /\ Handshake
  <2>1. Send(AuthorizeRequest(next_id, "worker_name", "password")) /\ call' = "run_until_ready"
    BY <1>4 DEF Handshake
  <2>2. next_id = AuthorizeId
    BY <1>1, <1>4 DEF CallInv
  <2>3. next_id < FirstSubmitId + MaxSubmits
    BY <2>2, ClientAssumption DEF AuthorizeId, FirstSubmitId
  <2>4. QED
    BY <1>4, <2>1, <2>2, <2>3, RequestById, Zenon
<1>5. CASE SubmitShare
  <2>1. /\ call = "none" /\ next_id < FirstSubmitId + MaxSubmits
        /\ Send(SubmitShareRequest(next_id, Share)) /\ call' = "submit_share"
    BY <1>5 DEF SubmitShare
  <2>2. next_id >= FirstSubmitId /\ next_id \in Ids
    BY <1>1, <2>1 DEF ReadyInv, Operating, TypeOK
  <2>3. RequestOf(next_id) = SubmitShareRequest(next_id, Share)
    BY <2>2, RequestById
  <2>4. QED
    BY <2>1, <2>3, Zenon
<1>6. QED
  BY <1>2, <1>3, <1>4, <1>5 DEF Handshake

(* The client's steps that write. *)
LEMMA WriteStep ==
  ASSUME ClientInv, Handshake \/ SubmitShare
  PROVE  ClientInv'
<1>1. TypeOK /\ ReadyInv /\ CallInv /\ StreamConserved /\ WorkIsLatest /\ VerdictsMatch
  BY DEF ClientInv, TypeInv
<1>2. UNCHANGED <<buffer, subscribed, current_job, difficulty, poll_result, sent,
                  consumed, verdicts>>
  BY DEF Handshake, SubmitShare, workVars, historyVars
<1>3. /\ next_id < FirstSubmitId + MaxSubmits
      /\ Send(RequestOf(next_id))
      /\ \/ call = "subscribe" /\ call' = "suggest_difficulty"
         \/ call = "suggest_difficulty" /\ call' = "authorize"
         \/ call = "authorize" /\ call' = "run_until_ready"
         \/ call = "none" /\ call' = "submit_share"
  BY Writes
<1>4. /\ requests' \subseteq {RequestOf(id) : id \in Ids}
      /\ next_id' \in Ids /\ next_id' = next_id + 1
      /\ \A request \in requests' : IdOf(request) < next_id'
      /\ kernel' = kernel /\ connected' = connected
  BY <1>1, <1>3, Sent
<1>5. TypeOK'
  <2>1. call' \in Calls
    BY <1>3 DEF Calls
  <2>2. QED
    BY <1>1, <1>2, <1>4, <2>1 DEF TypeOK
<1>6. verdicts' = verdicts /\ Len(verdicts) \in Nat /\ next_id \in Int
  BY <1>1, <1>2, IdsFit, LenProperties DEF TypeOK
<1>7. CallInv'
  BY <1>1, <1>3, <1>4, <1>6
     DEF CallInv, SubscribeId, SuggestId, AuthorizeId, FirstSubmitId
<1>8. ReadyInv'
  <2>1. CASE call = "none" /\ call' = "submit_share"
    <3>1. subscribed /\ current_job # NoJob /\ next_id >= FirstSubmitId
      BY <1>1, <2>1 DEF ReadyInv, Operating
    <3>2. next_id' >= FirstSubmitId /\ next_id' - 1 >= FirstSubmitId
      BY <1>4, <1>6, <3>1 DEF FirstSubmitId
    <3>3. QED
      BY <1>2, <1>4, <3>1, <3>2 DEF ReadyInv, submit_id
  <2>2. CASE call' \in {"suggest_difficulty", "authorize", "run_until_ready"}
    BY <1>4, <2>2 DEF ReadyInv, Operating
  <2>3. QED
    BY <1>3, <2>1, <2>2
<1>9. StreamConserved' /\ WorkIsLatest' /\ VerdictsMatch'
  BY <1>1, <1>2, <1>4, StreamStays, WorkStays
<1>10. QED
  BY <1>5, <1>7, <1>8, <1>9 DEF ClientInv, TypeInv

(* The client's steps that change no more than the call and its result.    *)
LEMMA CallStep ==
  ASSUME ClientInv,
         SendFails \/ PollNothing \/ Poll \/ ReadEof \/ UNCHANGED vars
  PROVE  ClientInv'
<1>1. TypeOK /\ ReadyInv /\ CallInv /\ StreamConserved /\ WorkIsLatest /\ VerdictsMatch
  BY DEF ClientInv, TypeInv
<1>2. UNCHANGED <<requests, kernel, connected, buffer, next_id, subscribed, current_job,
                  difficulty, sent, consumed, verdicts>>
  BY DEF SendFails, PollNothing, Poll, ReadEof, vars, connectionVars, clientVars,
         workVars, historyVars
<1>3. /\ \/ call' = call
         \/ call' = "failed"
         \/ call = "none" /\ call' = "poll"
      /\ poll_result' \in PollResults
  <2>1. poll_result \in PollResults
    BY <1>1 DEF TypeOK
  <2>2. poll_result' = poll_result \/ poll_result' = "nothing"
    BY DEF SendFails, PollNothing, Poll, ReadEof, vars, clientVars
  <2>3. poll_result' \in PollResults
    BY <2>1, <2>2 DEF PollResults
  <2>4. QED
    BY <2>3 DEF SendFails, PollNothing, Poll, ReadEof, vars, clientVars
<1>4. TypeOK'
  <2>1. call' \in Calls
    BY <1>1, <1>3 DEF TypeOK, Calls
  <2>2. QED
    BY <1>1, <1>2, <1>3, <2>1 DEF TypeOK
<1>5. CallInv'
  BY <1>1, <1>2, <1>3 DEF CallInv
<1>6. ReadyInv'
  BY <1>1, <1>2, <1>3 DEF ReadyInv, Operating, submit_id
<1>7. StreamConserved' /\ WorkIsLatest' /\ VerdictsMatch'
  BY <1>1, <1>2, StreamStays, WorkStays
<1>8. QED
  BY <1>4, <1>5, <1>6, <1>7 DEF ClientInv, TypeInv

(* A read. *)
LEMMA ReadStep ==
  ASSUME ClientInv, ReadSome
  PROVE  ClientInv'
<1>1. TypeOK /\ ReadyInv /\ CallInv /\ StreamConserved /\ WorkIsLatest /\ VerdictsMatch
  BY DEF ClientInv, TypeInv
<1>2. UNCHANGED <<requests, connected, call, next_id, subscribed, current_job,
                  difficulty, poll_result, sent, consumed, verdicts>>
  BY DEF ReadSome, workVars, historyVars
<1>3. PICK n \in 1 .. Len(kernel) :
        /\ buffer' = buffer \o SubSeq(kernel, 1, n)
        /\ kernel' = SubSeq(kernel, n + 1, Len(kernel))
  BY DEF ReadSome
<1>4. buffer \in Seq(Piece) /\ kernel \in Seq(Piece)
  BY <1>1 DEF TypeOK
<1>5. /\ buffer' \in Seq(Piece) /\ kernel' \in Seq(Piece)
      /\ buffer' \o kernel' = buffer \o kernel
  BY <1>3, <1>4, FlowRead, ZenonT(40)
<1>6. TypeOK'
  BY <1>1, <1>2, <1>5 DEF TypeOK
<1>7. CallInv'
  BY <1>1, <1>2 DEF CallInv
<1>8. ReadyInv'
  BY <1>1, <1>2 DEF ReadyInv, Operating, submit_id
<1>9. StreamConserved'
  BY <1>1, <1>2, <1>5, StreamIs, Zenon
<1>10. WorkIsLatest' /\ VerdictsMatch'
  BY <1>1, <1>2, WorkStays
<1>11. QED
  BY <1>6, <1>7, <1>8, <1>9, <1>10 DEF ClientInv, TypeInv

(* What consuming a line does to the client's work, whoever does it.       *)
LEMMA WorkConsumed ==
  ASSUME TypeOK, WorkIsLatest, ConsumeLine,
         NEW line, line = sent[consumed + 1], consumed' = consumed + 1,
         NEW parsed, IsParsed(line, parsed),
         \/ Apply(parsed)
         \/ /\ line.method \notin {"mining.notify", "mining.set_difficulty"}
            /\ UNCHANGED workVars
  PROVE  /\ WorkIsLatest'
         /\ subscribed' \in BOOLEAN /\ (subscribed => subscribed')
         /\ current_job' \in Jobs \cup {NoJob}
         /\ current_job # NoJob => current_job' # NoJob
         /\ difficulty' \in Difficulties
<1>1. sent' = sent
  BY DEF ConsumeLine
<1>2. /\ line.method = "mining.notify" =>
           line.param \in Jobs /\ current_job' = line.param
      /\ line.method # "mining.notify" => current_job' = current_job
      /\ line.method = "mining.set_difficulty" =>
           line.param \in Difficulties /\ difficulty' = line.param
      /\ line.method # "mining.set_difficulty" => difficulty' = difficulty
      /\ subscribed' = subscribed \/ subscribed' = (subscribed \/ Is(parsed, "SubscribeResponse"))
  <2>1. CASE Apply(parsed)
    BY <2>1, Applied, Zenon
  <2>2. CASE line.method \notin {"mining.notify", "mining.set_difficulty"} /\ UNCHANGED workVars
    BY <2>2 DEF workVars
  <2>3. QED
    BY <2>1, <2>2
<1>3. WorkIsLatest'
  <2>1. consumed \in Nat
    BY RestType
  <2>2. /\ LatestOf(sent, consumed, current_job, "mining.notify", NoJob)
        /\ LatestOf(sent, consumed, difficulty, "mining.set_difficulty", InitialDifficulty)
    BY WorkIs
  <2>3. LatestOf(sent, consumed + 1, current_job', "mining.notify", NoJob)
    BY <1>2, <2>1, <2>2, LatestNext, Zenon
  <2>4. LatestOf(sent, consumed + 1, difficulty', "mining.set_difficulty", InitialDifficulty)
    BY <1>2, <2>1, <2>2, LatestNext, Zenon
  <2>5. QED
    BY <1>1, <2>3, <2>4, WorkIs, Zenon
<1>4. subscribed' \in BOOLEAN /\ (subscribed => subscribed')
  <2>1. subscribed \in BOOLEAN
    BY DEF TypeOK
  <2> DEFINE either == subscribed \/ Is(parsed, "SubscribeResponse")
  <2>2. either \in BOOLEAN /\ (subscribed => either)
    OBVIOUS
  <2> HIDE DEF either
  <2>3. subscribed' = subscribed \/ subscribed' = either
    BY <1>2, Zenon DEF either
  <2>4. CASE subscribed' = subscribed
    BY <2>1, <2>4
  <2>5. CASE subscribed' = either
    BY <2>2, <2>5
  <2>6. QED
    BY <2>3, <2>4, <2>5
<1>5. /\ current_job' \in Jobs \cup {NoJob}
      /\ current_job # NoJob => current_job' # NoJob
  BY <1>2, ClientAssumption DEF TypeOK
<1>6. difficulty' \in Difficulties
  BY <1>2 DEF TypeOK
<1>7. QED
  BY <1>3, <1>4, <1>5, <1>6

(* The client's steps that consume a line. *)
LEMMA LineStep ==
  ASSUME ClientInv,
         StartupLine \/ PollLine \/ SubmitLineOther \/ SubmitLineAnswer
  PROVE  ClientInv'
<1>1. TypeOK /\ ReadyInv /\ CallInv /\ StreamConserved /\ WorkIsLatest /\ VerdictsMatch
  BY DEF ClientInv, TypeInv
<1>2. ConsumeLine
  BY DEF StartupLine, PollLine, SubmitLineOther, SubmitLineAnswer
<1> DEFINE line == FirstLine
<1>3. /\ line \in Lines /\ line = sent[consumed + 1]
      /\ consumed' = consumed + 1 /\ consumed' \in 0 .. Len(sent')
      /\ buffer' \in Seq(Piece)
      /\ StreamConserved'
  BY <1>1, <1>2, Consumed
<1>4. UNCHANGED <<requests, kernel, connected, next_id, sent>>
  BY <1>2 DEF ConsumeLine, connectionVars
<1> DEFINE parsed == parse_incoming_message(Json(FirstLine))
<1>5. IsParsed(line, parsed)
  BY <1>3, Parsed
<1>6. \A p \in Received : p = parsed
  BY Zenon DEF Received
<1> HIDE DEF line, parsed
<1>7. /\ call \in {"run_until_ready", "poll", "submit_share"}
      /\ \/ call' = call
         \/ call' = "none" /\ call = "run_until_ready" /\ subscribed' /\ current_job' # NoJob
         \/ call' = "none" /\ call # "run_until_ready"
      /\ poll_result' \in PollResults
  <2>1. poll_result \in PollResults
    BY <1>1 DEF TypeOK
  <2>2. CASE StartupLine
    BY <2>1, <2>2 DEF StartupLine
  <2>3. CASE PollLine
    <3>1. PICK p \in Received :
            poll_result' = CASE Invalidates(p) -> "work_invalidated"
                             [] p = nullopt -> "nothing"
                             [] OTHER -> "message"
      BY <2>3 DEF PollLine
    <3>2. poll_result' \in PollResults
      <4>1. CASE Invalidates(p) /\ p # nullopt
        BY <3>1, <4>1 DEF PollResults
      <4>2. CASE ~Invalidates(p) /\ p = nullopt
        BY <3>1, <4>2 DEF PollResults
      <4>3. CASE ~Invalidates(p) /\ p # nullopt
        BY <3>1, <4>3, Zenon DEF PollResults
      <4>4. ~(Invalidates(p) /\ p = nullopt)
        BY DEF Invalidates, Is, nullopt
      <4>5. QED
        BY <4>1, <4>2, <4>3, <4>4
    <3>3. QED
      BY <2>3, <3>2 DEF PollLine
  <2>4. CASE SubmitLineOther
    BY <2>1, <2>4 DEF SubmitLineOther
  <2>5. CASE SubmitLineAnswer
    BY <2>1, <2>5 DEF SubmitLineAnswer
  <2>6. QED
    BY <2>2, <2>3, <2>4, <2>5
<1>8. /\ WorkIsLatest'
      /\ subscribed' \in BOOLEAN /\ (subscribed => subscribed')
      /\ current_job' \in Jobs \cup {NoJob}
      /\ current_job # NoJob => current_job' # NoJob
      /\ difficulty' \in Difficulties
  <2>1. \/ Apply(parsed)
        \/ /\ line.method \notin {"mining.notify", "mining.set_difficulty"}
           /\ UNCHANGED workVars
    <3>1. CASE StartupLine \/ PollLine \/ SubmitLineOther
      BY <1>6, <3>1, Zenon DEF StartupLine, PollLine, SubmitLineOther
    <3>2. CASE SubmitLineAnswer
      <4>1. Answers(parsed) /\ UNCHANGED workVars
        BY <1>6, <3>2 DEF SubmitLineAnswer
      <4>2. line.method \notin {"mining.notify", "mining.set_difficulty"}
        BY <1>5, <4>1 DEF IsParsed, Answers, Is
      <4>3. QED
        BY <4>1, <4>2
    <3>3. QED
      BY <3>1, <3>2
  <2>2. QED
    BY <1>1, <1>2, <1>3, <1>5, <2>1, WorkConsumed, Zenon
<1>9. /\ verdicts \in Seq(Ids \X BOOLEAN) /\ Len(verdicts) \in Nat /\ next_id \in Int
      /\ next_id \in Ids
  BY <1>1, IdsFit, LenProperties DEF TypeOK
<1>10. CASE call' # "none" \/ call # "submit_share"
  <2>1. verdicts' = verdicts
    BY <1>10 DEF StartupLine, PollLine, SubmitLineOther, SubmitLineAnswer
  <2>2. TypeOK'
    <3>1. call' \in Calls
      BY <1>7 DEF Calls
    <3>2. QED
      BY <1>1, <1>3, <1>4, <1>7, <1>8, <2>1, <3>1 DEF TypeOK
  <2>3. CallInv'
    BY <1>1, <1>4, <1>7, <1>9, <1>10, <2>1 DEF CallInv, FirstSubmitId
  <2>4. ReadyInv'
    BY <1>1, <1>4, <1>7, <1>8, <1>9, <2>3
       DEF ReadyInv, CallInv, Operating, submit_id, FirstSubmitId
  <2>5. VerdictsMatch'
    BY <1>1, <1>4, <2>1, Zenon DEF VerdictsMatch
  <2>6. QED
    BY <1>3, <1>8, <2>2, <2>3, <2>4, <2>5 DEF ClientInv, TypeInv
<1>11. CASE call' = "none" /\ call = "submit_share"
  <2>1. SubmitLineAnswer
    BY <1>11 DEF StartupLine, PollLine, SubmitLineOther
  <2> DEFINE verdict == <<submit_id, MessageOf(parsed).accepted>>
  <2>2. Answers(parsed) /\ verdicts' = Append(verdicts, verdict)
    BY <1>6, <2>1, Zenon DEF SubmitLineAnswer
  <2>3. line.id = submit_id /\ MessageOf(parsed).accepted = (line.result = "true")
    BY <1>5, <2>2, Answered
  <2>4. submit_id = FirstSubmitId + Len(verdicts) /\ submit_id \in Ids
    <3>1. next_id = FirstSubmitId + Len(verdicts) + 1
      BY <1>1, <1>11 DEF CallInv
    <3>2. QED
      BY <1>9, <3>1, ClientAssumption DEF submit_id, Ids, FirstSubmitId
  <2>5. verdict \in Ids \X BOOLEAN
    BY <2>3, <2>4
  <2>6. verdict[1] = FirstSubmitId + Len(verdicts) /\ verdict[1] = line.id
        /\ verdict[2] = (line.result = "true")
    BY <2>3, <2>4
  <2> HIDE DEF verdict
  <2>7. /\ verdicts' \in Seq(Ids \X BOOLEAN)
        /\ Len(verdicts') = Len(verdicts) + 1
        /\ \A i \in 1 .. Len(verdicts) : verdicts'[i] = verdicts[i]
        /\ verdicts'[Len(verdicts) + 1] = verdict
    BY <1>9, <2>2, <2>5, AppendProperties
  <2>8. TypeOK'
    <3>1. call' \in Calls
      BY <1>11 DEF Calls
    <3>2. QED
      BY <1>1, <1>3, <1>4, <1>7, <1>8, <2>7, <3>1 DEF TypeOK
  <2>9. CallInv'
    BY <1>1, <1>4, <1>9, <1>11, <2>7 DEF CallInv, FirstSubmitId
  <2>10. ReadyInv'
    BY <1>1, <1>4, <1>8, <1>9, <1>11, <2>9
       DEF ReadyInv, CallInv, Operating, submit_id, FirstSubmitId
  <2>11. VerdictsMatch'
    <3>1. line \in ToSet(sent')
      <4>1. consumed + 1 \in 1 .. Len(sent) /\ DOMAIN sent = 1 .. Len(sent)
        <5>1. consumed \in Nat /\ Len(sent) \in Nat /\ DOMAIN sent = 1 .. Len(sent)
          BY <1>1, RestType, LenProperties DEF TypeOK
        <5>2. consumed + 1 \in 0 .. Len(sent)
          BY <1>3, <1>4
        <5>3. QED
          BY <5>1, <5>2
      <4>2. QED
        BY <1>3, <1>4, <4>1, Zenon DEF ToSet
    <3>2. ASSUME NEW i \in DOMAIN verdicts'
          PROVE  /\ verdicts'[i][1] = FirstSubmitId + i - 1
                 /\ \E l \in ToSet(sent') :
                      l.id = verdicts'[i][1] /\ verdicts'[i][2] = (l.result = "true")
      <4>1. i \in 1 .. Len(verdicts) + 1
        BY <2>7, LenProperties
      <4>2. CASE i = Len(verdicts) + 1
        <5>1. FirstSubmitId + i - 1 = FirstSubmitId + Len(verdicts)
          BY <1>9, <4>2 DEF FirstSubmitId
        <5>2. verdicts'[i] = verdict
          BY <2>7, <4>2
        <5>3. QED
          BY <2>6, <3>1, <5>1, <5>2, Zenon
      <4>3. CASE i # Len(verdicts) + 1
        <5>1. i \in 1 .. Len(verdicts)
          BY <1>9, <4>1, <4>3
        <5>2. i \in DOMAIN verdicts
          BY <1>9, <5>1, LenProperties
        <5>3. verdicts'[i] = verdicts[i]
          BY <2>7, <5>1
        <5>4. /\ verdicts[i][1] = FirstSubmitId + i - 1
              /\ \E l \in ToSet(sent) :
                   l.id = verdicts[i][1] /\ verdicts[i][2] = (l.result = "true")
          BY <1>1, <5>2, Zenon DEF VerdictsMatch
        <5>5. QED
          BY <1>4, <5>3, <5>4, Zenon
      <4>4. QED
        BY <4>2, <4>3
    <3>3. QED
      BY <3>2, Zenon DEF VerdictsMatch
  <2>12. QED
    BY <1>3, <1>8, <2>8, <2>9, <2>10, <2>11 DEF ClientInv, TypeInv
<1>12. QED
  BY <1>10, <1>11

-----------------------------------------------------------------------------
(* The theorems. *)

(* Everything ClientInv says is true at first. *)
LEMMA InitClientInv ==
  ASSUME Init
  PROVE  ClientInv
<1>1. TypeOK
  <2>1. 1 \in Ids
    BY IdsFit DEF SubscribeId
  <2>2. /\ <<>> \in Seq(Piece) /\ <<>> \in Seq(Lines) /\ <<>> \in Seq(Ids \X BOOLEAN)
        /\ Len(<<>>) = 0
    BY EmptySeq
  <2>3. kernel \in Seq(Piece) /\ buffer \in Seq(Piece) /\ verdicts \in Seq(Ids \X BOOLEAN)
    BY <2>2, Zenon DEF Init
  <2>4. sent \in Seq(Lines) /\ consumed \in 0 .. Len(sent)
    <3>1. sent = <<>> /\ consumed = 0
      BY DEF Init
    <3>2. QED
      BY <2>2, <3>1
  <2>5. next_id \in Ids /\ requests = {} /\ connected = TRUE /\ subscribed = FALSE
    BY <2>1 DEF Init
  <2>6. /\ call \in Calls /\ poll_result \in PollResults
        /\ difficulty \in Difficulties /\ current_job \in Jobs \cup {NoJob}
    BY ClientAssumption DEF Init, Calls, PollResults
  <2>7. QED
    BY <2>3, <2>4, <2>5, <2>6 DEF TypeOK
<1>2. ReadyInv /\ CallInv
  BY DEF Init, ReadyInv, CallInv, Operating, SubscribeId
<1>3. StreamConserved
  <2>1. SubSeq(sent, consumed + 1, Len(sent)) = <<>>
    BY SubSeqEmpty DEF Init
  <2>2. Wire(<<>>) = <<>>
    <3>1. /\ Wire(<<>>) \in Seq(Piece) /\ Len(Wire(<<>>)) = PiecesPerLine * Len(<<>>)
      BY WirePieces, EmptySeq
    <3>2. PiecesPerLine * Len(<<>>) = 0
      BY ClientAssumption
    <3>3. QED
      BY <3>1, <3>2, EmptySeq
  <2>3. buffer \o kernel = <<>> /\ connected
    BY DEF Init
  <2>4. QED
    BY <2>1, <2>2, <2>3, StreamIs, Zenon DEF Flow
<1>4. WorkIsLatest
  <2>1. current_job = NoJob /\ difficulty = InitialDifficulty /\ 1 .. consumed = {}
    BY DEF Init
  <2>2. QED
    BY <2>1 DEF WorkIsLatest, IsLatest
<1>5. VerdictsMatch
  BY DEF Init, VerdictsMatch
<1>6. QED
  BY <1>1, <1>2, <1>3, <1>4, <1>5 DEF ClientInv, TypeInv

(* Every step preserves it. *)
LEMMA NextClientInv ==
  ASSUME ClientInv, [Next]_vars
  PROVE  ClientInv'
BY PoolStep, WriteStep, CallStep, ReadStep, LineStep DEF Next, Client, Failed

(* The client's calls never find a state they do not expect, with any      *)
(* number of jobs, shares and pushed lines and however the bytes are cut   *)
(* (stratum_client.cpp 96-260).                                            *)
THEOREM ClientCorrect == Spec => []ClientInv
<1>1. Init => ClientInv
  BY InitClientInv
<1>2. ClientInv /\ [Next]_vars => ClientInv'
  BY NextClientInv
<1>3. QED
  BY <1>1, <1>2, PTL DEF Spec

(* No piece of a line is lost or read twice on its way through the         *)
(* socket's buffer and buffer_ (stratum_client.cpp 160-173).               *)
THEOREM StreamIsConserved == Spec => []StreamConserved
<1>1. ClientInv => StreamConserved
  BY DEF ClientInv
<1>2. QED
  BY <1>1, ClientCorrect, PTL

(* The client's job and difficulty are those of the latest lines consumed, *)
(* by whichever call (stratum_client.cpp 175-260).                         *)
THEOREM WorkFollowsThePool == Spec => []WorkIsLatest
<1>1. ClientInv => WorkIsLatest
  BY DEF ClientInv
<1>2. QED
  BY <1>1, ClientCorrect, PTL

(* Each verdict is the pool's answer to the very share it is returned for, *)
(* and none is skipped or repeated (stratum_client.cpp 211-260).           *)
THEOREM VerdictsAreAnswers == Spec => []VerdictsMatch
<1>1. ClientInv => VerdictsMatch
  BY DEF ClientInv
<1>2. QED
  BY <1>1, ClientCorrect, PTL

-----------------------------------------------------------------------------
(* What a step of the client does, in terms of its variables. *)

(* What the client makes of a line. *)
Adopts(line) ==
  \/ /\ line.method = "mining.notify"
     /\ current_job' \in Jobs
     /\ UNCHANGED <<subscribed, difficulty>>
  \/ /\ line.method = "mining.set_difficulty"
     /\ difficulty' \in Difficulties
     /\ UNCHANGED <<subscribed, current_job>>
  \/ /\ line.method \notin {"mining.notify", "mining.set_difficulty"}
     /\ subscribed' \in {subscribed, TRUE}
     /\ UNCHANGED <<current_job, difficulty>>

(* The next line is consumed. *)
TakesLine ==
  /\ consumed + 1 \in 1 .. Len(sent)
  /\ consumed' = consumed + 1
  /\ UNCHANGED <<requests, next_id, sent>>

(* A line that is applied is adopted. *)
LEMMA AppliedIsAdopted ==
  ASSUME NEW line, NEW parsed, IsParsed(line, parsed), Apply(parsed),
         subscribed \in BOOLEAN
  PROVE  Adopts(line)
<1>1. /\ line.method = "mining.notify" =>
              line.param \in Jobs /\ current_job' = line.param
      /\ line.method # "mining.notify" => current_job' = current_job
      /\ line.method = "mining.set_difficulty" =>
              line.param \in Difficulties /\ difficulty' = line.param
      /\ line.method # "mining.set_difficulty" => difficulty' = difficulty
      /\ subscribed' = (subscribed \/ Is(parsed, "SubscribeResponse"))
  BY Applied
<1>2. line.method \in {"mining.notify", "mining.set_difficulty"} =>
        ~Is(parsed, "SubscribeResponse")
  BY DEF IsParsed, Is
<1>3. subscribed' \in {subscribed, TRUE}
  BY <1>1
<1>4. line.method \in {"mining.notify", "mining.set_difficulty"} => subscribed' = subscribed
  BY <1>1, <1>2
<1>5. CASE line.method = "mining.notify"
  BY <1>1, <1>4, <1>5 DEF Adopts
<1>6. CASE line.method = "mining.set_difficulty"
  BY <1>1, <1>4, <1>6 DEF Adopts
<1>7. CASE line.method \notin {"mining.notify", "mining.set_difficulty"}
  BY <1>1, <1>3, <1>7 DEF Adopts
<1>8. QED
  BY <1>5, <1>6, <1>7

(* The line that is consumed, and its one parse. *)
LEMMA Taken ==
  ASSUME ClientInv, ConsumeLine
  PROVE  /\ TakesLine
         /\ subscribed \in BOOLEAN
         /\ \A parsed \in Received : IsParsed(sent[consumed + 1], parsed)
<1>1. TypeOK /\ StreamConserved
  BY DEF ClientInv, TypeInv
<1>2. /\ FirstLine \in Lines /\ FirstLine = sent[consumed + 1]
      /\ consumed' = consumed + 1 /\ consumed' \in 0 .. Len(sent')
  BY <1>1, Consumed
<1>3. UNCHANGED <<requests, next_id, sent>>
  BY DEF ConsumeLine, connectionVars
<1>4. consumed \in Nat /\ Len(sent) \in Nat
  BY <1>1, RestType
<1>5. TakesLine
  BY <1>2, <1>3, <1>4 DEF TakesLine
<1>6. IsParsed(FirstLine, parse_incoming_message(Json(FirstLine)))
  BY <1>2, Parsed
<1>7. ASSUME NEW parsed \in Received
      PROVE  IsParsed(sent[consumed + 1], parsed)
  <2>1. parsed = parse_incoming_message(Json(FirstLine))
    BY <1>7, Zenon DEF Received
  <2>2. QED
    BY <1>2, <1>6, <2>1, Zenon
<1>8. QED
  BY <1>1, <1>5, <1>7 DEF TypeOK

(* A line of run_until_ready. *)
LEMMA StartupTakes ==
  ASSUME ClientInv, StartupLine
  PROVE  /\ call = "run_until_ready"
         /\ TakesLine /\ Adopts(sent[consumed + 1])
         /\ call' = IF subscribed' /\ current_job' # NoJob THEN "none" ELSE call
         /\ UNCHANGED verdicts
<1>1. ConsumeLine
  BY DEF StartupLine
<1>2. PICK parsed \in Received : Apply(parsed)
  BY DEF StartupLine
<1>3. TakesLine /\ subscribed \in BOOLEAN /\ IsParsed(sent[consumed + 1], parsed)
  BY <1>1, <1>2, Taken
<1>4. Adopts(sent[consumed + 1])
  BY <1>2, <1>3, AppliedIsAdopted
<1>5. QED
  BY <1>3, <1>4, Zenon DEF StartupLine

(* A message that does not supersede the work leaves it alone. *)
LEMMA NotInvalidated ==
  ASSUME NEW parsed, Apply(parsed), ~Invalidates(parsed)
  PROVE  UNCHANGED <<current_job, difficulty>>
BY DEF Apply, Invalidates

(* The line of a poll. *)
LEMMA PollTakes ==
  ASSUME ClientInv, PollLine
  PROVE  /\ call = "poll" /\ call' = "none"
         /\ TakesLine /\ Adopts(sent[consumed + 1])
         /\ UNCHANGED verdicts
         /\ \/ /\ poll_result' = "work_invalidated"
               /\ sent[consumed + 1].method = "mining.notify" \/ difficulty' # difficulty
            \/ poll_result' = "message" /\ UNCHANGED <<current_job, difficulty>>
            \/ poll_result' = "nothing" /\ UNCHANGED <<subscribed, current_job, difficulty>>
<1>1. ConsumeLine
  BY DEF PollLine
<1>2. PICK parsed \in Received :
        /\ Apply(parsed)
        /\ poll_result' = CASE Invalidates(parsed) -> "work_invalidated"
                            [] parsed = nullopt -> "nothing"
                            [] OTHER -> "message"
  BY DEF PollLine
<1>3. TakesLine /\ subscribed \in BOOLEAN /\ IsParsed(sent[consumed + 1], parsed)
  BY <1>1, <1>2, Taken
<1> DEFINE line == sent[consumed + 1]
<1> HIDE DEF line
<1>4. Adopts(line)
  BY <1>2, <1>3, AppliedIsAdopted DEF line
<1>5. ~(Invalidates(parsed) /\ parsed = nullopt)
  BY DEF Invalidates, Is, nullopt
<1>6. Apply(parsed)
  BY <1>2
<1>7. \/ /\ poll_result' = "work_invalidated"
         /\ line.method = "mining.notify" \/ difficulty' # difficulty
      \/ poll_result' = "message" /\ UNCHANGED <<current_job, difficulty>>
      \/ poll_result' = "nothing" /\ UNCHANGED <<subscribed, current_job, difficulty>>
  <2>1. CASE Invalidates(parsed)
    <3>1. poll_result' = "work_invalidated"
      BY <1>2, <1>5, <2>1
    <3>2. CASE Is(parsed, "NotifyMessage")
      <4>1. line.method = "mining.notify"
        BY <1>3, <3>2 DEF IsParsed, Is, nullopt, UnknownMessage, line
      <4>2. QED
        BY <3>1, <4>1
    <3>3. CASE Is(parsed, "SetDifficultyMessage") /\ MessageOf(parsed).difficulty # difficulty
      <4>1. difficulty' # difficulty
        BY <1>6, <3>3 DEF Apply
      <4>2. QED
        BY <3>1, <4>1
    <3>4. QED
      BY <2>1, <3>2, <3>3 DEF Invalidates
  <2>2. CASE ~Invalidates(parsed) /\ parsed = nullopt
    <3>1. poll_result' = "nothing"
      BY <1>2, <2>2
    <3>2. UNCHANGED <<current_job, difficulty>>
      BY <1>6, <2>2, NotInvalidated
    <3>3. subscribed' = subscribed
      BY <1>3, <1>6, <2>2 DEF Apply, Is, nullopt
    <3>4. QED
      BY <3>1, <3>2, <3>3
  <2>3. CASE ~Invalidates(parsed) /\ parsed # nullopt
    <3>1. poll_result' = "message"
      BY <1>2, <2>3, Zenon
    <3>2. UNCHANGED <<current_job, difficulty>>
      BY <1>6, <2>3, NotInvalidated
    <3>3. QED
      BY <3>1, <3>2
  <2>4. QED
    BY <2>1, <2>2, <2>3
<1>8. call = "poll" /\ call' = "none" /\ UNCHANGED verdicts
  BY DEF PollLine
<1>9. QED
  BY <1>3, <1>4, <1>7, <1>8, Zenon DEF line

(* A line that submit_share reads and that is not its answer. *)
LEMMA OtherTakes ==
  ASSUME ClientInv, SubmitLineOther
  PROVE  /\ call = "submit_share"
         /\ TakesLine /\ Adopts(sent[consumed + 1])
         /\ UNCHANGED <<call, verdicts>>
         /\ \A parsed \in Received :
              ~Invalidates(parsed) => UNCHANGED <<current_job, difficulty>>
<1>1. ConsumeLine
  BY DEF SubmitLineOther
<1>2. PICK parsed \in Received : Apply(parsed)
  BY DEF SubmitLineOther
<1>3. TakesLine /\ subscribed \in BOOLEAN /\ IsParsed(sent[consumed + 1], parsed)
  BY <1>1, <1>2, Taken
<1>4. Adopts(sent[consumed + 1])
  BY <1>2, <1>3, AppliedIsAdopted
<1>5. ASSUME NEW p \in Received, ~Invalidates(p)
      PROVE  UNCHANGED <<current_job, difficulty>>
  <2>1. p = parsed
    BY <1>2, <1>5, Zenon DEF Received
  <2>2. QED
    BY <1>2, <1>5, <2>1, NotInvalidated
<1>6. QED
  BY <1>3, <1>4, <1>5, Zenon DEF SubmitLineOther

(* The line that is the answer. *)
LEMMA AnswerTakes ==
  ASSUME ClientInv, SubmitLineAnswer
  PROVE  /\ call = "submit_share" /\ call' = "none"
         /\ TakesLine
         /\ UNCHANGED <<subscribed, current_job, difficulty>>
         /\ next_id = FirstSubmitId + Len(verdicts) + 1
         /\ sent[consumed + 1].id = FirstSubmitId + Len(verdicts)
         /\ verdicts' = Append(verdicts,
              <<FirstSubmitId + Len(verdicts), sent[consumed + 1].result = "true">>)
<1>1. /\ call = "submit_share" /\ call' = "none" /\ ConsumeLine
      /\ UNCHANGED <<subscribed, current_job, difficulty>>
  BY DEF SubmitLineAnswer, workVars
<1>2. PICK parsed \in Received :
        /\ Answers(parsed)
        /\ verdicts' = Append(verdicts, <<submit_id, MessageOf(parsed).accepted>>)
  BY DEF SubmitLineAnswer
<1>3. TakesLine /\ IsParsed(sent[consumed + 1], parsed)
  BY <1>1, <1>2, Taken
<1>4. /\ sent[consumed + 1].id = submit_id
      /\ MessageOf(parsed).accepted = (sent[consumed + 1].result = "true")
  BY <1>2, <1>3, Answered
<1>5. next_id = FirstSubmitId + Len(verdicts) + 1 /\ Len(verdicts) \in Nat
  BY <1>1, LenProperties DEF ClientInv, TypeInv, TypeOK, CallInv
<1>6. submit_id = FirstSubmitId + Len(verdicts)
  BY <1>5 DEF submit_id, FirstSubmitId
<1>7. QED
  BY <1>1, <1>2, <1>3, <1>4, <1>5, <1>6, Zenon

(* The line of an unsolicited write has no id. *)
LEMMA Pushed ==
  ASSUME PoolPush
  PROVE  /\ Cardinality({i \in DOMAIN sent : sent[i].id = 0}) < MaxPushes
         /\ \E line \in Lines : line.id = 0 /\ sent' = Append(sent, line)
         /\ UNCHANGED <<requests, call, next_id, subscribed, current_job, difficulty,
                        consumed, verdicts>>
<1>1. PICK line \in Pushes : PoolWrites(line)
  BY DEF PoolPush
<1>2. line \in Lines
  BY DEF Lines
<1>3. line.id = 0
  BY DEF Pushes, Notify, SetDifficulty, NoiseLine, Line
<1>4. /\ sent' = Append(sent, line)
      /\ UNCHANGED <<call, next_id, subscribed, current_job, difficulty, consumed, verdicts>>
  BY <1>1 DEF PoolWrites, clientVars, workVars
<1>5. requests' = requests
  BY DEF PoolPush
<1>6. Cardinality({i \in DOMAIN sent : sent[i].id = 0}) < MaxPushes
  BY Zenon DEF PoolPush
<1>7. QED
  BY <1>2, <1>3, <1>4, <1>5, <1>6

(* Requests are known by their ids. *)
LEMMA RequestIds ==
  ASSUME TypeOK
  PROVE  /\ \A request \in requests : IdOf(request) \in Ids
         /\ \A request, other \in requests : IdOf(request) = IdOf(other) => request = other
<1>1. ASSUME NEW request \in requests
      PROVE  IdOf(request) \in Ids /\ request = RequestOf(IdOf(request))
  <2>1. PICK id \in Ids : request = RequestOf(id)
    BY DEF TypeOK
  <2>2. IdOf(RequestOf(id)) = id
    BY RequestCarries
  <2>3. QED
    BY <2>1, <2>2, Zenon
<1>2. QED
  BY <1>1, Zenon

(* An answer has the id of a request that is outstanding, and ends it. *)
LEMMA Answering ==
  ASSUME ClientInv, PoolAnswer
  PROVE  /\ \E request \in requests, line \in Lines :
              /\ line.id = IdOf(request)
              /\ sent' = Append(sent, line)
              /\ requests' = requests \ {request}
         /\ UNCHANGED <<call, next_id, subscribed, current_job, difficulty,
                        consumed, verdicts>>
<1>1. TypeOK
  BY DEF ClientInv, TypeInv
<1>2. PICK request \in requests :
        /\ \E result \in ResultsFor(request.v["method"].v) :
             PoolWrites(Response(IdOf(request), result))
        /\ requests' = requests \ {request}
  BY Zenon DEF PoolAnswer
<1>3. PICK result \in ResultsFor(request.v["method"].v) :
        PoolWrites(Response(IdOf(request), result))
  BY <1>2
<1>4. PICK id \in Ids : request = RequestOf(id)
  BY <1>1, <1>2 DEF TypeOK
<1>5. Response(IdOf(request), result) \in Lines
  <2>1. result \in ResultsFor(RequestOf(id).v["method"].v)
    BY <1>3, <1>4, Zenon
  <2>2. QED
    BY <1>4, <2>1, AnswersAreLines, Zenon
<1>6. PICK line : line = Response(IdOf(request), result)
  OBVIOUS
<1>7. line.id = IdOf(request)
  BY <1>6 DEF Response, Line
<1>8. PoolWrites(line) /\ line \in Lines
  BY <1>3, <1>5, <1>6, Zenon
<1>9. /\ sent' = Append(sent, line)
      /\ UNCHANGED <<call, next_id, subscribed, current_job, difficulty, consumed, verdicts>>
  BY <1>8 DEF PoolWrites, clientVars, workVars
<1>10. QED
  BY <1>2, <1>7, <1>8, <1>9, Zenon

(* Every id is answered once, after its request was written and never while *)
(* it is outstanding; a share whose submit has returned is not.            *)
AnsweredOnce ==
  /\ \A i \in DOMAIN sent : sent[i].id < next_id
  /\ \A i, k \in DOMAIN sent : sent[i].id = sent[k].id /\ sent[i].id # 0 => i = k
  /\ \A request \in requests : \A i \in DOMAIN sent : sent[i].id # IdOf(request)
  /\ \A request \in requests :
       IdOf(request) < FirstSubmitId \/ IdOf(request) >= FirstSubmitId + Len(verdicts)

(* A line more. *)
LEMMA OneMore ==
  ASSUME TypeOK, NEW line \in Lines, sent' = Append(sent, line)
  PROVE  /\ sent' \in Seq(Lines) /\ Len(sent) \in Nat
         /\ Len(sent') = Len(sent) + 1
         /\ DOMAIN sent = 1 .. Len(sent)
         /\ DOMAIN sent' = 1 .. Len(sent) + 1
         /\ sent'[Len(sent) + 1] = line
         /\ \A i \in DOMAIN sent : sent'[i] = sent[i]
<1>1. sent \in Seq(Lines)
  BY DEF TypeOK
<1>2. /\ sent' \in Seq(Lines) /\ Len(sent') = Len(sent) + 1 /\ sent'[Len(sent) + 1] = line
      /\ \A i \in 1 .. Len(sent) : sent'[i] = sent[i]
  BY <1>1, AppendProperties
<1>3. Len(sent) \in Nat /\ DOMAIN sent = 1 .. Len(sent) /\ DOMAIN sent' = 1 .. Len(sent')
  BY <1>1, <1>2, LenProperties
<1>4. QED
  BY <1>2, <1>3

(* What the pool writes keeps it so. *)
LEMMA PoolAnswersOnce ==
  ASSUME ClientInv, AnsweredOnce, PoolPush \/ PoolAnswer
  PROVE  AnsweredOnce'
<1>1. TypeOK /\ ReadyInv
  BY DEF ClientInv, TypeInv
<1>2. /\ next_id' = next_id /\ next_id \in Nat \ {0} /\ verdicts' = verdicts
      /\ \A request \in requests : IdOf(request) \in Nat \ {0} /\ IdOf(request) < next_id
  BY <1>1, Pushed, Answering, RequestIds, IdsFit DEF TypeOK, ReadyInv
<1>3. PICK line \in Lines :
        /\ sent' = Append(sent, line)
        /\ requests' \subseteq requests
        /\ line.id = 0 \/ \E request \in requests :
                            line.id = IdOf(request) /\ requests' = requests \ {request}
  BY Pushed, Answering
<1>4. /\ DOMAIN sent' = 1 .. Len(sent) + 1 /\ DOMAIN sent = 1 .. Len(sent)
      /\ Len(sent) \in Nat
      /\ sent'[Len(sent) + 1] = line /\ \A i \in DOMAIN sent : sent'[i] = sent[i]
  BY <1>1, <1>3, OneMore
<1>5. \A i \in DOMAIN sent' : sent'[i].id < next_id'
  BY <1>2, <1>3, <1>4 DEF AnsweredOnce
<1>6. line.id # 0 => \A i \in DOMAIN sent : sent[i].id # line.id
  BY <1>3 DEF AnsweredOnce
<1>7. \A i, k \in DOMAIN sent' : sent'[i].id = sent'[k].id /\ sent'[i].id # 0 => i = k
  <2>1. SUFFICES ASSUME NEW i \in DOMAIN sent', NEW k \in DOMAIN sent',
                        sent'[i].id = sent'[k].id, sent'[i].id # 0
                 PROVE  i = k
    OBVIOUS
  <2>2. CASE i \in DOMAIN sent /\ k \in DOMAIN sent
    BY <1>4, <2>1, <2>2 DEF AnsweredOnce
  <2>3. CASE i \notin DOMAIN sent /\ k \in DOMAIN sent
    BY <1>4, <1>6, <2>1, <2>3
  <2>4. CASE i \in DOMAIN sent /\ k \notin DOMAIN sent
    BY <1>4, <1>6, <2>1, <2>4
  <2>5. CASE i \notin DOMAIN sent /\ k \notin DOMAIN sent
    BY <1>4, <2>1, <2>5
  <2>6. QED
    BY <2>2, <2>3, <2>4, <2>5
<1>8. ASSUME NEW request \in requests', NEW i \in DOMAIN sent'
      PROVE  sent'[i].id # IdOf(request)
  <2>1. CASE i \in DOMAIN sent
    BY <1>3, <1>4, <1>8, <2>1 DEF AnsweredOnce
  <2>2. CASE i \notin DOMAIN sent
    <3>1. sent'[i] = line
      BY <1>4, <2>2
    <3>2. CASE line.id = 0
      BY <1>2, <1>3, <3>1, <3>2
    <3>3. CASE line.id # 0
      BY <1>1, <1>3, <3>1, <3>3, RequestIds
    <3>4. QED
      BY <3>2, <3>3
  <2>3. QED
    BY <2>1, <2>2
<1>9. \A request \in requests' :
        IdOf(request) < FirstSubmitId \/ IdOf(request) >= FirstSubmitId + Len(verdicts')
  BY <1>2, <1>3 DEF AnsweredOnce
<1>10. AnsweredOnce' <=>
         /\ \A i \in DOMAIN sent' : sent'[i].id < next_id'
         /\ \A i, k \in DOMAIN sent' : sent'[i].id = sent'[k].id /\ sent'[i].id # 0 => i = k
         /\ \A request \in requests' : \A i \in DOMAIN sent' : sent'[i].id # IdOf(request)
         /\ \A request \in requests' :
              IdOf(request) < FirstSubmitId \/ IdOf(request) >= FirstSubmitId + Len(verdicts')
  BY Zenon DEF AnsweredOnce, IdOf, FirstSubmitId
<1>11. QED
  BY <1>5, <1>7, <1>8, <1>9, <1>10

(* An id is a number. *)
LEMMA LineIds ==
  ASSUME NEW line \in Lines
  PROVE  line.id \in Nat
<1>1. CASE line \in Pushes
  BY <1>1 DEF Pushes, Notify, SetDifficulty, NoiseLine, Line
<1>2. CASE line = Response(SubscribeId, "subscription")
  BY <1>2, IdsFit DEF Response, Line
<1>3. ASSUME NEW id \in Ids, NEW r, line = Response(id, r)
      PROVE  line.id \in Nat
  <2>1. line.id = id
    BY <1>3 DEF Response, Line
  <2>2. QED
    BY <2>1, IdsFit
<1>4. QED
  BY <1>1, <1>2, <1>3 DEF Lines, Responses

(* So does a request that is written: it has an id of its own. *)
LEMMA RequestAnsweredOnce ==
  ASSUME ClientInv, AnsweredOnce, Handshake \/ SubmitShare
  PROVE  AnsweredOnce'
<1>1. TypeOK /\ CallInv
  BY DEF ClientInv, TypeInv
<1>2. /\ next_id' = next_id + 1
      /\ requests' \subseteq requests \cup {RequestOf(next_id)}
      /\ call \in {"subscribe", "suggest_difficulty", "authorize", "none"}
  BY Writes DEF Send
<1>3. UNCHANGED <<sent, verdicts>>
  BY DEF Handshake, SubmitShare, historyVars
<1>4. next_id \in Ids /\ next_id \in Nat /\ IdOf(RequestOf(next_id)) = next_id
  BY <1>1, IdsFit, RequestCarries DEF TypeOK
<1>5. next_id < FirstSubmitId \/ next_id >= FirstSubmitId + Len(verdicts)
  BY <1>1, <1>2, LenProperties
     DEF CallInv, SubscribeId, SuggestId, AuthorizeId, FirstSubmitId, TypeOK
<1>6. \A i \in DOMAIN sent : sent[i].id \in Nat
  BY <1>1, LineIds, LenProperties DEF TypeOK
<1>7. \A i \in DOMAIN sent : sent[i].id < next_id /\ sent[i].id # next_id
  BY <1>4, <1>6 DEF AnsweredOnce
<1>8. ASSUME NEW request \in requests'
      PROVE  /\ \A i \in DOMAIN sent : sent[i].id # IdOf(request)
             /\ IdOf(request) < FirstSubmitId \/ IdOf(request) >= FirstSubmitId + Len(verdicts)
  <2>1. CASE request \in requests
    BY <2>1 DEF AnsweredOnce
  <2>2. CASE request = RequestOf(next_id)
    <3>1. IdOf(request) = next_id
      BY <1>4, <2>2, Zenon
    <3>2. QED
      BY <1>5, <1>7, <3>1
  <2>3. QED
    BY <1>2, <1>8, <2>1, <2>2
<1>9. \A i \in DOMAIN sent : sent[i].id < next_id + 1
  BY <1>4, <1>6, <1>7
<1>10. QED
  BY <1>2, <1>3, <1>8, <1>9 DEF AnsweredOnce, IdOf

(* So does the answer to a share, which is no longer outstanding. *)
LEMMA VerdictAnsweredOnce ==
  ASSUME ClientInv, AnsweredOnce, SubmitLineAnswer
  PROVE  AnsweredOnce'
<1>1. TypeOK
  BY DEF ClientInv, TypeInv
<1>2. /\ TakesLine
      /\ sent[consumed + 1].id = FirstSubmitId + Len(verdicts)
      /\ verdicts' = Append(verdicts,
           <<FirstSubmitId + Len(verdicts), sent[consumed + 1].result = "true">>)
  BY AnswerTakes
<1>3. UNCHANGED <<requests, next_id, sent>> /\ consumed + 1 \in 1 .. Len(sent)
  BY <1>2 DEF TakesLine
<1>4. consumed + 1 \in DOMAIN sent
  BY <1>1, <1>3, LenProperties DEF TypeOK
<1>5. Len(verdicts') = Len(verdicts) + 1 /\ Len(verdicts) \in Nat
  <2>1. Len(verdicts) \in Nat /\ verdicts \in Seq(Ids \X BOOLEAN)
    BY <1>1, LenProperties DEF TypeOK
  <2>2. PICK verdict : verdicts' = Append(verdicts, verdict)
    BY <1>2
  <2>3. QED
    BY <2>1, <2>2
<1>6. ASSUME NEW request \in requests
      PROVE  IdOf(request) < FirstSubmitId
             \/ IdOf(request) >= FirstSubmitId + Len(verdicts')
  <2>1. IdOf(request) # FirstSubmitId + Len(verdicts)
    BY <1>2, <1>4 DEF AnsweredOnce
  <2>2. IdOf(request) \in Nat
    BY <1>1, RequestIds, IdsFit
  <2>3. IdOf(request) < FirstSubmitId \/ IdOf(request) >= FirstSubmitId + Len(verdicts)
    BY DEF AnsweredOnce
  <2>4. QED
    BY <1>5, <2>1, <2>2, <2>3 DEF FirstSubmitId
<1>7. QED
  BY <1>3, <1>6 DEF AnsweredOnce, IdOf

(* Every request is answered at most once and only with its id, answers to *)
(* shares belong to the submit that waits, and no verdict leaves its       *)
(* request open: what the ids are for (stratum_client.cpp 211-260).        *)
THEOREM AnswersAreUnique == Spec => []AnsweredOnce
<1>1. Init => AnsweredOnce
  BY DEF Init, AnsweredOnce
<1>2. ClientInv /\ AnsweredOnce /\ [Next]_vars => AnsweredOnce'
  <2>1. SUFFICES ASSUME ClientInv, AnsweredOnce, [Next]_vars
                 PROVE  AnsweredOnce'
    OBVIOUS
  <2>2. CASE UNCHANGED <<requests, next_id, sent, verdicts>>
    BY <2>1, <2>2 DEF AnsweredOnce, IdOf
  <2>3. CASE UNCHANGED vars
    BY <2>2, <2>3 DEF vars, connectionVars, clientVars, historyVars
  <2>4. CASE Pool
    BY <2>1, <2>2, <2>4, PoolAnswersOnce DEF Pool, PoolClose, clientVars, historyVars
  <2>5. CASE Handshake \/ SubmitShare
    BY <2>1, <2>5, RequestAnsweredOnce
  <2>6. CASE SubmitLineAnswer
    BY <2>1, <2>6, VerdictAnsweredOnce
  <2>7. CASE SendFails \/ PollNothing \/ Poll \/ ReadSome \/ ReadEof
    BY <2>2, <2>7 DEF SendFails, PollNothing, Poll, ReadSome, ReadEof, connectionVars,
                      historyVars
  <2>8. CASE StartupLine \/ PollLine \/ SubmitLineOther
    BY <2>2, <2>8 DEF StartupLine, PollLine, SubmitLineOther, ConsumeLine, connectionVars
  <2>9. QED
    BY <2>1, <2>3, <2>4, <2>5, <2>6, <2>7, <2>8 DEF Next, Client, Failed
<1>3. QED
  BY <1>1, <1>2, ClientCorrect, PTL DEF Spec

=============================================================================
