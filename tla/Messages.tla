------------------------------ MODULE Messages ------------------------------
(***************************************************************************)
(* The typed messages of stratum_client/messages.cpp: which message a line *)
(* of JSON becomes, and what the client's requests look like on the wire.  *)
(*                                                                         *)
(* A JSON value is a record of its type and its content; an object is a    *)
(* function from the names of its members.  std::optional<T> is a set with *)
(* at most one element.  Of the strings in a job only the job id matters   *)
(* to the receiver, the other ones are checked for being strings.          *)
(***************************************************************************)
EXTENDS Integers, Sequences

CONSTANT IntMax   \* the largest int; an int64 may exceed it

ASSUME IntAssumption == IntMax \in Nat

nullopt == {}

(* boost::json's kinds of value. *)
Null == [type |-> "null"]
Bool(b) == [type |-> "bool", v |-> b]
Int64(n) == [type |-> "int64", v |-> n]
Double(x) == [type |-> "double", v |-> x]
String(s) == [type |-> "string", v |-> s]
Array(elements) == [type |-> "array", v |-> elements]
Object(members) == [type |-> "object", v |-> members]

(* obj has a member of that name, and of that type. *)
Has(obj, name) == name \in DOMAIN obj
HasA(obj, name, type) == Has(obj, name) /\ obj[name].type = type

IsString(value) == value.type = "string"

-----------------------------------------------------------------------------
(* Incoming. *)

(* Faulty variant: a wider id is cut down to an int. *)
parse_message_id_narrowed(obj) ==
  IF HasA(obj, "id", "int64")
    THEN {((obj["id"].v + IntMax + 1) % (2 * (IntMax + 1))) - IntMax - 1} ELSE nullopt

parse_message_id(obj) ==
  IF HasA(obj, "id", "int64") /\ obj["id"].v \in -IntMax - 1 .. IntMax
    THEN {obj["id"].v} ELSE nullopt

(* find_params_array, with the least number of parameters. *)
HasParams(obj, n) == HasA(obj, "params", "array") /\ Len(obj["params"].v) >= n

IsNumber(value) == value.type \in {"double", "int64", "uint64"}

parse_set_difficulty(obj) ==
  IF HasParams(obj, 1) /\ IsNumber(obj["params"].v[1])
    THEN {[type |-> "SetDifficultyMessage", difficulty |-> obj["params"].v[1].v]}
    ELSE nullopt

(* job_id, prevhash, coinb1, coinb2, merkle_branch, version, nbits, ntime, *)
(* clean_jobs.                                                             *)
IsNotify(params) ==
  /\ \A i \in {1, 2, 3, 4, 6, 7, 8} : IsString(params[i])
  /\ params[5].type = "array"
  /\ params[9].type = "bool"
  /\ \A i \in DOMAIN params[5].v : IsString(params[5].v[i])

parse_notify(obj) ==
  IF HasParams(obj, 9) /\ IsNotify(obj["params"].v)
    THEN {[type |-> "NotifyMessage", job_id |-> obj["params"].v[1].v]}
    ELSE nullopt

(* The extranonce2 size must not be negative. *)
IsSubscription(result) ==
  /\ Len(result) >= 3
  /\ IsString(result[2])
  /\ \/ result[3].type = "uint64"
     \/ result[3].type = "int64" /\ result[3].v >= 0

parse_subscribe_response(obj) ==
  IF HasA(obj, "result", "array") /\ IsSubscription(obj["result"].v)
    THEN {[type |-> "SubscribeResponse", id |-> id] : id \in parse_message_id(obj)}
    ELSE nullopt

parse_authorize_response(obj) ==
  IF HasA(obj, "result", "bool")
    THEN {[type |-> "AuthorizeResponse", id |-> id, accepted |-> obj["result"].v] :
            id \in parse_message_id(obj)}
    ELSE nullopt

(* No result at all counts as a null one. *)
parse_submit_response(obj) ==
  IF Has(obj, "result") => obj["result"].type \in {"bool", "null"}
    THEN {[type |-> "SubmitResponse", id |-> id,
           accepted |-> HasA(obj, "result", "bool") /\ obj["result"].v,
           has_error |-> Has(obj, "error") /\ ~HasA(obj, "error", "null")] :
            id \in parse_message_id(obj)}
    ELSE nullopt

UnknownMessage == {[type |-> "UnknownMessage"]}

parse_method_message(obj) ==
  IF ~HasA(obj, "method", "string") THEN nullopt ELSE
    CASE obj["method"].v = "mining.set_difficulty" -> parse_set_difficulty(obj)
      [] obj["method"].v = "mining.notify" -> parse_notify(obj)
      [] OTHER -> UnknownMessage

(* The first alternative, or the next one if there is no such message.    *)
Otherwise(optional, other) == IF optional = nullopt THEN other ELSE optional

parse_incoming_message(value) ==
  IF value.type # "object" THEN nullopt ELSE
    Otherwise(parse_method_message(value.v),
    Otherwise(parse_subscribe_response(value.v),
    Otherwise(parse_submit_response(value.v),
    Otherwise(parse_authorize_response(value.v), UnknownMessage))))

-----------------------------------------------------------------------------
(* Outgoing: to_wire_message of the four requests. *)

Request(id, method, params) ==
  Object([id |-> Int64(id), method |-> String(method), params |-> Array(params)])

SubscribeRequest(id) == Request(id, "mining.subscribe", <<>>)

SuggestDifficultyRequest(id, suggested) ==
  Request(id, "mining.suggest_difficulty", <<Double(suggested)>>)

AuthorizeRequest(id, user, password) ==
  Request(id, "mining.authorize", <<String(user), String(password)>>)

SubmitShareRequest(id, share) ==
  Request(id, "mining.submit", [i \in DOMAIN share |-> String(share[i])])

=============================================================================
