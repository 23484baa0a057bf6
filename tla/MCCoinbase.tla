----------------------------- MODULE MCCoinbase -----------------------------
(***************************************************************************)
(* Instance of Coinbase: bytes of three bits, integers of one to three     *)
(* bytes.                                                                  *)
(***************************************************************************)
EXTENDS Coinbase

MCOp == [return |-> 7, dup |-> 6, hash160 |-> 5, equalverify |-> 4, checksig |-> 3]
MCGen == <<1363, 2726>>
MCHrp == <<6, 3>>

(* One script of every kind, and one that just misses each. *)
Scripts ==
  {<<>>, <<0, 1, 5>>, <<0, 2, 6, 3>>, <<0, 2, 6>>, <<7, 1>>, <<6, 5, 1, 2, 4, 3>>}

OutputLists ==
  {<<>>} \cup {<<[value_sats |-> 130, script_pubkey |-> s]>> : s \in Scripts}
    \cup {<<[value_sats |-> 1, script_pubkey |-> <<0, 1, 7>>],
            [value_sats |-> 500, script_pubkey |-> <<7>>]>>}

(* With the items of their witness. *)
MCTransactions ==
  {<<[version |-> 2, has_witness_marker |-> items # <<>>, prevout |-> <<0, 7, 7>>,
      script_sig |-> script_sig, sequence |-> 63, outputs |-> outputs, locktime |-> 9],
     items>> :
     script_sig \in {<<>>, <<2, 4, 1, 3>>}, outputs \in OutputLists,
     items \in {<<>>, <<<<5, 0>>>>}}

(* The shortest form of each compact size. *)
Shortest(t) ==
  [k \in 1 .. 7 |->
     IF k = 4 /\ t.outputs # <<>> /\ Len(t.outputs[1].script_pubkey) >= Byte - 3
       THEN U16Size ELSE 0]

(* That, or one of the sizes in a longer form. *)
WidthLists(t) ==
  {Shortest(t)} \cup
    {[Shortest(t) EXCEPT ![k] = w] : k \in 1 .. 7, w \in {U16Size, U32Size, U64Size}}

MCValidTransactions ==
  UNION {{Serialize(t[1], t[2], w) : w \in WidthLists(t[1])} : t \in MCTransactions}

(* Each of them, cut off, continued, or with one byte changed. *)
Plain == {Serialize(t[1], t[2], Shortest(t[1])) : t \in MCTransactions}

Spoilt(bytes) ==
  {SubSeq(bytes, 1, n) : n \in 0 .. Len(bytes)}
    \cup {bytes \o <<b>> : b \in {0, 7}}
    \cup UNION {{[bytes EXCEPT ![k] = b] : b \in 0 .. Byte - 1} : k \in DOMAIN bytes}

MCInputs == MCValidTransactions \cup UNION {Spoilt(bytes) : bytes \in Plain}

=============================================================================
