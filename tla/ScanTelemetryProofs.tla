------------------------ MODULE ScanTelemetryProofs ------------------------
(***************************************************************************)
(* TLAPS proofs about ScanTelemetry: the counters, the results and the     *)
(* bound on superseded work, for every size of chunk and interval.         *)
(***************************************************************************)
EXTENDS ScanTelemetry, FiniteSetTheorems, TLAPS

(* Multiples.  2^32 nonces, chunks and check intervals divide each other,  *)
(* and all of the bounds below come from that.                             *)

(* A number without remainder is a multiple. *)
LEMMA ModZero ==
  ASSUME NEW a \in Nat, NEW c \in Nat \ {0}, a % c = 0
  PROVE  \E k \in Nat : a = k * c
OBVIOUS

(* A multiple has no remainder. *)
LEMMA MultipleModZero ==
  ASSUME NEW k \in Nat, NEW c \in Nat \ {0}
  PROVE  (k * c) % c = 0
OBVIOUS

(* The next multiple. *)
LEMMA ModAdd ==
  ASSUME NEW a \in Nat, NEW c \in Nat \ {0}, a % c = 0
  PROVE  (a + c) % c = 0
<1>1. PICK k \in Nat : a = k * c
  BY ModZero
<1>2. a + c = (k + 1) * c /\ k + 1 \in Nat
  BY <1>1
<1>3. ((k + 1) * c) % c = 0
  BY <1>2, MultipleModZero
<1>4. QED
  BY <1>2, <1>3

(* Multiplication by a natural number is monotonic. *)
LEMMA TimesMonotonic ==
  ASSUME NEW k \in Nat, NEW m \in Nat, NEW c \in Nat, k <= m
  PROVE  k * c <= m * c
<1>1. PICK d \in Nat : m = k + d
  <2>1. m - k \in Nat /\ m = k + (m - k)
    OBVIOUS
  <2>2. QED
    BY <2>1
<1>2. m * c = k * c + d * c
  BY <1>1
<1>3. d * c \in Nat /\ k * c \in Nat
  OBVIOUS
<1>4. QED
  BY <1>2, <1>3

(* Between two multiples lies at least one unit. *)
LEMMA ModGap ==
  ASSUME NEW a \in Nat, NEW b \in Nat, NEW c \in Nat \ {0},
         a % c = 0, b % c = 0, a < b
  PROVE  a + c <= b
<1>1. PICK k \in Nat : a = k * c
  BY ModZero
<1>2. PICK m \in Nat : b = m * c
  BY ModZero
<1>3. k < m
  <2>1. CASE m <= k
    BY <2>1, <1>1, <1>2, TimesMonotonic
  <2>2. QED
    BY <2>1
<1>4. (k + 1) * c <= m * c
  BY <1>3, TimesMonotonic
<1>5. (k + 1) * c = a + c
  BY <1>1
<1>6. QED
  BY <1>2, <1>4, <1>5

-----------------------------------------------------------------------------
(* The nonces of a scan. *)

(* A chunk fits, and the one behind it starts at a multiple or at 0. *)
LEMMA ChunkFits ==
  ASSUME NEW n \in Nonces, n % ChunkSize = 0
  PROVE  /\ n + ChunkSize <= MaxNonce + 1
         /\ (n + ChunkSize) % (MaxNonce + 1) \in Nonces
         /\ ((n + ChunkSize) % (MaxNonce + 1)) % ChunkSize = 0
<1>1. /\ n \in Nat /\ MaxNonce \in Nat /\ MaxNonce + 1 \in Nat \ {0} 
      /\ ChunkSize \in Nat \ {0} /\ n < MaxNonce + 1
  BY ScanAssumption DEF Nonces
<1>2. n + ChunkSize <= MaxNonce + 1
  BY <1>1, ScanAssumption, ModGap
<1>3. (n + ChunkSize) % ChunkSize = 0
  BY <1>1, ModAdd
<1>4. CASE n + ChunkSize = MaxNonce + 1
  <2>1. (n + ChunkSize) % (MaxNonce + 1) = 0
    BY <1>1, <1>4
  <2>2. 0 % ChunkSize = 0
    BY <1>1
  <2>3. 0 \in Nonces
    BY ScanAssumption DEF Nonces
  <2>4. QED
    BY <1>2, <2>1, <2>2, <2>3
<1>5. CASE n + ChunkSize < MaxNonce + 1
  <2>1. (n + ChunkSize) % (MaxNonce + 1) = n + ChunkSize
    BY <1>1, <1>5
  <2>2. n + ChunkSize \in Nonces
    BY <1>1, <1>5 DEF Nonces
  <2>3. QED
    BY <1>2, <1>3, <2>1, <2>2
<1>6. QED
  BY <1>1, <1>2, <1>4, <1>5

(* One more nonce adds one to the count if it is in the set. *)
LEMMA CountNext ==
  ASSUME NEW S, NEW a \in Int, NEW n \in Int, a <= n
  PROVE  Cardinality((a .. n) \cap S) =
           Cardinality((a .. n - 1) \cap S) + One(n \in S)
<1>1. IsFiniteSet((a .. n - 1) \cap S)
  <2>1. n - 1 \in Int /\ IsFiniteSet(a .. n - 1)
    BY FS_Interval
  <2>2. QED
    BY <2>1, FS_Subset
<1>2. Cardinality((a .. n - 1) \cap S) \in Nat
  BY <1>1, FS_CardinalityType
<1>3. CASE n \in S
  <2>1. /\ (a .. n) \cap S = ((a .. n - 1) \cap S) \cup {n}
        /\ n \notin (a .. n - 1) \cap S
    BY <1>3
  <2>2. Cardinality((a .. n) \cap S) = Cardinality((a .. n - 1) \cap S) + 1
    BY <1>1, <2>1, FS_AddElement
  <2>3. QED
    BY <1>3, <2>2 DEF One
<1>4. CASE n \notin S
  <2>1. (a .. n) \cap S = (a .. n - 1) \cap S
    BY <1>4
  <2>2. Cardinality((a .. n) \cap S) = Cardinality((a .. n - 1) \cap S) + 0
    BY <1>2, <2>1
  <2>3. QED
    BY <1>4, <2>2 DEF One
<1>5. QED
  BY <1>3, <1>4

(* No set has more members among some nonces than there are nonces. *)
LEMMA CountBound ==
  ASSUME NEW S, NEW a \in Int, NEW b \in Int, a <= b + 1
  PROVE  /\ Cardinality(a .. b) = b - a + 1
         /\ Cardinality((a .. b) \cap S) \in 0 .. (b - a + 1)
<1>1. IsFiniteSet(a .. b) /\ Cardinality(a .. b) = b - a + 1
  BY FS_Interval
<1>2. /\ IsFiniteSet((a .. b) \cap S)
      /\ Cardinality((a .. b) \cap S) <= Cardinality(a .. b)
  BY <1>1, FS_Subset
<1>3. Cardinality((a .. b) \cap S) \in Nat
  BY <1>2, FS_CardinalityType
<1>4. QED
  BY <1>1, <1>2, <1>3

(* Before the first nonce of a scan nothing is evaluated. *)
LEMMA CountNone ==
  ASSUME NEW S, NEW a \in Int
  PROVE  Cardinality((a .. a - 1) \cap S) = 0
<1>1. (a .. a - 1) \cap S = {}
  OBVIOUS
<1>2. QED
  BY <1>1, FS_EmptySet

-----------------------------------------------------------------------------
(* What the next steps need of the types. *)

(* Counters, bounds and results are numbers. *)
LEMMA Numbers ==
  ASSUME TypeInv
  PROVE  /\ MaxNonce \in Nat /\ ChunkSize \in Nat \ {0} /\ CheckInterval \in Nat \ {0}
         /\ work_generation \in Nat /\ published_generation \in Nat
         /\ expected_generation \in Nat
         /\ hashes_done \in Nat /\ shares_found \in Nat /\ blocks_found \in Nat
         /\ current_scan_hashes_done \in Nat
         /\ computed \in Nat /\ overdue \in Nat
         /\ nonce_begin \in Nat /\ scan_nonce \in Nat
         /\ result.hashes_done \in 0 .. ChunkSize
         /\ result.shares_found \in Nat /\ result.blocks_found \in Nat
         /\ DOMAIN result = {"hashes_done", "shares_found", "blocks_found", "stop_reason"}
         /\ NonceEnd = nonce_begin + ChunkSize - 1
<1>1. MaxNonce \in Nat /\ ChunkSize \in Nat \ {0} /\ CheckInterval \in Nat \ {0}
      /\ MaxGeneration \in Nat
  BY ScanAssumption
<1>2. QED
  BY <1>1 DEF TypeInv, TypeOK, Nonces, NonceEnd

(* The steps of the other threads. *)
LEMMA OtherThreads ==
  ASSUME Others \/ LoadFirst \/ LoadSecond \/ UNCHANGED vars
  PROVE  UNCHANGED <<countersVars, pc, scanVars, scans, computed, overdue>>
BY DEF Others, PublishGeneration, PublishStore, RequestStop, LoadFirst, LoadSecond,
       workerVars, vars

(* The result of a scan, step by step. *)
LEMMA ResultStep ==
  ASSUME TypeInv, ResultInv, [Next]_vars
  PROVE  ResultInv'
<1> USE Numbers DEF Scanning, Reporting
<1>1. CASE Others \/ LoadFirst \/ LoadSecond \/ UNCHANGED vars
  <2>1. UNCHANGED <<pc, scanVars>>
    BY <1>1, OtherThreads
  <2>2. QED
    BY <2>1 DEF ResultInv, Evaluated, NonceEnd, scanVars
<1>2. CASE Adopt \/ HandleResult
  <2>1. pc' \in {"adopt", "chunk", "exited"}
    BY <1>2 DEF Adopt, HandleResult
  <2>2. QED
    BY <2>1 DEF ResultInv
<1>3. CASE StartScan
  <2>1. CASE stop
    BY <1>3, <2>1 DEF StartScan, ResultInv
  <2>2. CASE ~stop
    <3>1. /\ pc' = "scan" /\ scan_nonce' = nonce_begin /\ nonce_begin' = nonce_begin
          /\ result' = NoResult
      BY <1>3, <2>2 DEF StartScan
    <3>2. Evaluated' = nonce_begin .. nonce_begin - 1
      BY <3>1 DEF Evaluated
    <3>3. /\ Cardinality(Evaluated' \cap ShareNonces) = 0
          /\ Cardinality(Evaluated' \cap BlockNonces) = 0
      <4>1. /\ Cardinality((nonce_begin .. nonce_begin - 1) \cap ShareNonces) = 0
            /\ Cardinality((nonce_begin .. nonce_begin - 1) \cap BlockNonces) = 0
        <5>1. nonce_begin \in Int
          OBVIOUS
        <5>2. QED
          BY <5>1, CountNone
      <4>2. QED
        BY <3>2, <4>1
    <3>4. scan_nonce' \in nonce_begin' .. NonceEnd' + 1
      BY <3>1 DEF NonceEnd
    <3>5. QED
      BY <3>1, <3>3, <3>4 DEF ResultInv, NoResult
  <2>3. QED
    BY <2>1, <2>2
<1>4. CASE Exhausted
  <2>1. /\ pc = "scan" /\ pc' = "store" /\ scan_nonce > NonceEnd
        /\ UNCHANGED <<scan_nonce, nonce_begin, result>>
    BY <1>4 DEF Exhausted, scanVars
  <2>2. Evaluated' = Evaluated /\ NonceEnd' = NonceEnd
    BY <2>1 DEF Evaluated, NonceEnd
  <2>3. /\ scan_nonce = NonceEnd + 1
        /\ result.hashes_done = scan_nonce - nonce_begin
        /\ One(result.stop_reason = "stale") = 0
    <3>1. scan_nonce = NonceEnd + 1
      BY <2>1 DEF ResultInv
    <3>2. result.hashes_done = scan_nonce - nonce_begin
      BY <2>1 DEF TypeInv, One
    <3>3. One(result.stop_reason = "stale") = 0
      BY <2>1 DEF ResultInv, One
    <3>4. QED
      BY <3>1, <3>2, <3>3
  <2>4. QED
    BY <2>1, <2>2, <2>3 DEF ResultInv
<1>5. CASE Stopped
  <2>1. /\ pc = "scan" /\ pc' = "store"
        /\ UNCHANGED <<scan_nonce, nonce_begin>>
        /\ result' = [result EXCEPT !.stop_reason = "stop_requested"]
    BY <1>5 DEF Stopped
  <2>2. Evaluated' = Evaluated /\ NonceEnd' = NonceEnd
    BY <2>1 DEF Evaluated, NonceEnd
  <2>3. /\ result'.hashes_done = result.hashes_done
        /\ result'.shares_found = result.shares_found
        /\ result'.blocks_found = result.blocks_found
        /\ result'.stop_reason = "stop_requested"
    BY <2>1
  <2>4. /\ result.hashes_done = scan_nonce - nonce_begin
        /\ One(result'.stop_reason = "stale") = 0
    BY <2>1, <2>3 DEF TypeInv, One
  <2>5. QED
    BY <2>1, <2>2, <2>3, <2>4 DEF ResultInv
<1>6. CASE Hash
  <2>1. /\ pc = "scan" /\ pc' = "hashed"
        /\ UNCHANGED <<scan_nonce, nonce_begin>>
        /\ result' = [result EXCEPT !.hashes_done = @ + 1]
    BY <1>6 DEF Hash
  <2>2. Evaluated' = Evaluated /\ NonceEnd' = NonceEnd
    BY <2>1 DEF Evaluated, NonceEnd
  <2>3. /\ result'.shares_found = result.shares_found
        /\ result'.blocks_found = result.blocks_found
        /\ result'.stop_reason = result.stop_reason
    BY <2>1
  <2>4. QED
    BY <2>1, <2>2, <2>3 DEF ResultInv
<1>7. CASE StoreProgress \/ Current
  <2>1. /\ pc \in {"hashed", "progress"} /\ pc' \in {"progress", "evaluate"}
        /\ UNCHANGED scanVars
    BY <1>7 DEF StoreProgress, Current
  <2>2. Evaluated' = Evaluated /\ NonceEnd' = NonceEnd
    BY <2>1 DEF Evaluated, NonceEnd, scanVars
  <2>3. QED
    BY <2>1, <2>2 DEF ResultInv, scanVars
<1>8. CASE Stale
  <2>1. /\ pc = "progress" /\ pc' = "store"
        /\ UNCHANGED <<scan_nonce, nonce_begin>>
        /\ result' = [result EXCEPT !.stop_reason = "stale"]
    BY <1>8 DEF Stale
  <2>2. Evaluated' = Evaluated /\ NonceEnd' = NonceEnd
    BY <2>1 DEF Evaluated, NonceEnd
  <2>3. /\ result'.hashes_done = result.hashes_done
        /\ result'.shares_found = result.shares_found
        /\ result'.blocks_found = result.blocks_found
        /\ result'.stop_reason = "stale"
    BY <2>1
  <2>4. /\ result.hashes_done = scan_nonce - nonce_begin + 1
        /\ One(result'.stop_reason = "stale") = 1
    BY <2>1, <2>3 DEF TypeInv, One
  <2>5. QED
    BY <2>1, <2>2, <2>3, <2>4 DEF ResultInv
<1>9. CASE Evaluate
  <2>1. /\ pc = "evaluate" /\ pc' \in {"scan", "found"}
        /\ nonce_begin' = nonce_begin
        /\ scan_nonce' = IF pc' = "found" THEN scan_nonce ELSE scan_nonce + 1
        /\ result' = [result EXCEPT
             !.shares_found = @ + One(scan_nonce \in ShareNonces),
             !.blocks_found = @ + One(scan_nonce \in BlockNonces)]
    BY <1>9 DEF Evaluate
  <2>2. Evaluated = nonce_begin .. scan_nonce - 1 /\ Evaluated' = nonce_begin .. scan_nonce
    BY <2>1, SMTT(60) DEF Evaluated
  <2>3. /\ result'.shares_found = result.shares_found + One(scan_nonce \in ShareNonces)
        /\ result'.blocks_found = result.blocks_found + One(scan_nonce \in BlockNonces)
        /\ result'.stop_reason = result.stop_reason
    BY <2>1
  <2>4. /\ scan_nonce \in nonce_begin .. NonceEnd
        /\ scan_nonce' \in nonce_begin' .. NonceEnd' + 1
    <3>1. result.hashes_done = scan_nonce - nonce_begin + 1
      BY <2>1 DEF TypeInv, One
    <3>2. scan_nonce \in nonce_begin .. NonceEnd
      BY <2>1, <3>1 DEF ResultInv
    <3>3. QED
      BY <2>1, <3>2 DEF NonceEnd
  <2>5. /\ Cardinality((nonce_begin .. scan_nonce) \cap ShareNonces) =
             Cardinality((nonce_begin .. scan_nonce - 1) \cap ShareNonces)
             + One(scan_nonce \in ShareNonces)
        /\ Cardinality((nonce_begin .. scan_nonce) \cap BlockNonces) =
             Cardinality((nonce_begin .. scan_nonce - 1) \cap BlockNonces)
             + One(scan_nonce \in BlockNonces)
    <3>1. scan_nonce \in Int /\ nonce_begin \in Int /\ nonce_begin <= scan_nonce
      BY <2>4
    <3>2. QED
      BY <3>1, CountNext
  <2>6. QED
    BY <2>1, <2>2, <2>3, <2>4, <2>5 DEF ResultInv
<1>10. CASE Found
  <2>1. /\ pc = "found" /\ pc' = "scan"
        /\ UNCHANGED <<nonce_begin, result>>
        /\ scan_nonce' = scan_nonce + 1
    BY <1>10 DEF Found
  <2>2. Evaluated' = Evaluated /\ NonceEnd' = NonceEnd
    BY <2>1, SMTT(60) DEF Evaluated, NonceEnd
  <2>3. scan_nonce' \in nonce_begin' .. NonceEnd' + 1
    <3>1. result.hashes_done = scan_nonce - nonce_begin + 1
      BY <2>1 DEF TypeInv, One
    <3>2. QED
      BY <2>1, <2>2, <3>1 DEF ResultInv
  <2>4. QED
    BY <2>1, <2>2, <2>3 DEF ResultInv
<1>11. CASE StoreFinal \/ AddTotal \/ ResetCurrent
  <2>1. /\ pc \in {"store", "add", "reset"} /\ pc' \in {"add", "reset", "handle"}
        /\ UNCHANGED scanVars
    BY <1>11 DEF StoreFinal, AddTotal, ResetCurrent
  <2>2. Evaluated' = Evaluated /\ NonceEnd' = NonceEnd
    BY <2>1 DEF Evaluated, NonceEnd, scanVars
  <2>3. QED
    BY <2>1, <2>2 DEF ResultInv, scanVars
<1>12. QED
  BY <1>1, <1>2, <1>3, <1>4, <1>5, <1>6, <1>7, <1>8, <1>9, <1>10, <1>11
     DEF Next, WorkerThread, Worker, Done

-----------------------------------------------------------------------------
(* The counters. *)

(* Progress is stored at multiples of the interval, so what is not stored  *)
(* yet stays below it.                                                     *)
LEMMA IntervalReached ==
  ASSUME TypeInv, current_scan_hashes_done % CheckInterval = 0,
         Unstored \in 0 .. CheckInterval
  PROVE  AtInterval => Unstored \in {0, CheckInterval}
<1>1. /\ current_scan_hashes_done \in Nat /\ result.hashes_done \in Nat
      /\ CheckInterval \in Nat \ {0}
      /\ current_scan_hashes_done <= result.hashes_done
      /\ result.hashes_done <= current_scan_hashes_done + CheckInterval
  BY Numbers DEF Unstored
<1>2. AtInterval /\ current_scan_hashes_done < result.hashes_done
        => current_scan_hashes_done + CheckInterval <= result.hashes_done
  BY <1>1, ModGap DEF AtInterval
<1>3. QED
  BY <1>1, <1>2 DEF Unstored

(* Past a check the hashes not yet stored are not an interval. *)
LEMMA IntervalMissed ==
  ASSUME TypeInv, current_scan_hashes_done % CheckInterval = 0, ~AtInterval
  PROVE  Unstored # CheckInterval
<1>1. /\ current_scan_hashes_done \in Nat /\ result.hashes_done \in Nat
      /\ CheckInterval \in Nat \ {0}
  BY Numbers
<1>2. (current_scan_hashes_done + CheckInterval) % CheckInterval = 0
  BY <1>1, ModAdd
<1>3. result.hashes_done # current_scan_hashes_done + CheckInterval
  BY <1>2 DEF AtInterval
<1>4. QED
  BY <1>1, <1>3 DEF Unstored

(* Every step keeps the hashes counted where CountInv has them. *)
LEMMA CountStep ==
  ASSUME TypeInv, CountInv, [Next]_vars
  PROVE  CountInv'
<1> USE Numbers DEF Scanning, countersVars, scanVars
<1>1. CASE Others \/ LoadFirst \/ LoadSecond \/ UNCHANGED vars
  <2>1. UNCHANGED <<pc, result, computed, hashes_done, current_scan_hashes_done>>
    BY <1>1, OtherThreads
  <2>2. QED
    BY <2>1 DEF CountInv, Unstored
<1>2. CASE Adopt \/ HandleResult
  <2>1. /\ pc \in {"adopt", "handle"} /\ pc' \in {"adopt", "chunk", "exited"}
        /\ UNCHANGED <<computed, hashes_done, current_scan_hashes_done>>
    BY <1>2 DEF Adopt, HandleResult
  <2>2. QED
    BY <2>1 DEF CountInv
<1>3. CASE StartScan
  <2>1. CASE stop
    <3>1. /\ pc = "chunk" /\ pc' = "adopt"
          /\ UNCHANGED <<computed, hashes_done, current_scan_hashes_done>>
      BY <1>3, <2>1 DEF StartScan
    <3>2. QED
      BY <3>1 DEF CountInv
  <2>2. CASE ~stop
    <3>1. /\ pc = "chunk" /\ pc' = "scan" /\ result' = NoResult
          /\ current_scan_hashes_done' = 0
          /\ UNCHANGED <<computed, hashes_done>>
      BY <1>3, <2>2 DEF StartScan
    <3>2. 0 % CheckInterval = 0
      OBVIOUS
    <3>3. result'.hashes_done = 0 /\ Unstored' = 0
      BY <3>1 DEF NoResult, Unstored
    <3>4. QED
      BY <3>1, <3>2, <3>3 DEF CountInv
  <2>3. QED
    BY <2>1, <2>2
<1>4. CASE Exhausted \/ Stopped \/ Stale
  <2>1. /\ pc \in {"scan", "progress"} /\ pc' = "store"
        /\ result'.hashes_done = result.hashes_done
        /\ UNCHANGED <<computed, hashes_done, current_scan_hashes_done>>
    BY <1>4 DEF Exhausted, Stopped, Stale
  <2>2. QED
    BY <2>1 DEF CountInv, Unstored
<1>5. CASE Hash
  <2>1. /\ pc = "scan" /\ pc' = "hashed"
        /\ result'.hashes_done = result.hashes_done + 1
        /\ computed' = computed + 1
        /\ UNCHANGED <<hashes_done, current_scan_hashes_done>>
    BY <1>5 DEF Hash
  <2>2. Unstored' = Unstored + 1
    BY <2>1 DEF Unstored
  <2>3. QED
    BY <2>1, <2>2 DEF CountInv
<1>6. CASE StoreProgress
  <2>1. /\ pc = "hashed" /\ pc' = "progress"
        /\ UNCHANGED <<result, computed, hashes_done>>
        /\ AtInterval => current_scan_hashes_done' = result.hashes_done
        /\ ~AtInterval => current_scan_hashes_done' = current_scan_hashes_done
    BY <1>6 DEF StoreProgress
  <2>2. CASE AtInterval
    <3>1. current_scan_hashes_done' % CheckInterval = 0 /\ Unstored' = 0
      BY <2>1, <2>2 DEF AtInterval, Unstored
    <3>2. QED
      BY <2>1, <3>1 DEF CountInv
  <2>3. CASE ~AtInterval
    <3>1. /\ current_scan_hashes_done' % CheckInterval = 0
          /\ Unstored # CheckInterval /\ Unstored' = Unstored
      BY <2>1, <2>3, IntervalMissed DEF CountInv, Unstored
    <3>2. QED
      BY <2>1, <3>1 DEF CountInv
  <2>4. QED
    BY <2>2, <2>3
<1>7. CASE Current \/ Evaluate \/ Found
  <2>1. /\ pc \in {"progress", "evaluate", "found"}
        /\ pc' \in {"evaluate", "found", "scan"}
        /\ result'.hashes_done = result.hashes_done
        /\ UNCHANGED <<computed, hashes_done, current_scan_hashes_done>>
    BY <1>7 DEF Current, Evaluate, Found
  <2>2. QED
    BY <2>1 DEF CountInv, Unstored
<1>8. CASE StoreFinal \/ AddTotal \/ ResetCurrent
  <2>1. CASE StoreFinal
    BY <2>1 DEF StoreFinal, CountInv, Unstored
  <2>2. CASE AddTotal
    BY <2>2 DEF AddTotal, CountInv, Unstored
  <2>3. CASE ResetCurrent
    BY <2>3 DEF ResetCurrent, CountInv, Unstored
  <2>4. QED
    BY <1>8, <2>1, <2>2, <2>3
<1>9. QED
  BY <1>1, <1>2, <1>3, <1>4, <1>5, <1>6, <1>7, <1>8 DEF Next, WorkerThread, Worker, Done

-----------------------------------------------------------------------------
(* Superseded work. *)

(* Every step keeps the bound on superseded work. *)
LEMMA OverdueStep ==
  ASSUME TypeInv, ResultInv, CountInv, OverdueInv, [Next]_vars
  PROVE  OverdueInv'
<1> USE Numbers DEF Scanning, Reporting, countersVars, scanVars, shared, publishVars
<1>1. CASE Others \/ LoadFirst \/ LoadSecond \/ UNCHANGED vars
  <2>1. /\ UNCHANGED <<pc, result, overdue, current_scan_hashes_done, expected_generation>>
        /\ AtInterval' = AtInterval /\ Unstored' = Unstored
    BY <1>1, OtherThreads DEF AtInterval, Unstored
  <2>2. /\ published_generation <= published_generation'
        /\ published_generation' <= work_generation'
        /\ published_generation' \in Nat
    BY <1>1
       DEF Others, PublishGeneration, PublishStore, RequestStop, LoadFirst, LoadSecond,
           workerVars, vars, OverdueInv
  <2>3. QED
    BY <2>1, <2>2 DEF OverdueInv
<1>2. CASE Adopt
  <2>1. /\ UNCHANGED publishVars
        /\ \/ pc' = "exited" /\ UNCHANGED <<scanVars, overdue>>
           \/ pc' = "chunk" /\ overdue' = 0
    BY <1>2 DEF Adopt
  <2>2. QED
    BY <2>1 DEF OverdueInv
<1>3. CASE StartScan
  <2>1. CASE stop
    <3>1. pc' = "adopt" /\ UNCHANGED <<publishVars, overdue, expected_generation>>
      BY <1>3, <2>1 DEF StartScan
    <3>2. QED
      BY <3>1 DEF OverdueInv
  <2>2. CASE ~stop
    <3>1. /\ pc = "chunk" /\ pc' = "scan" /\ result' = NoResult
          /\ current_scan_hashes_done' = 0
          /\ UNCHANGED <<publishVars, overdue, expected_generation>>
      BY <1>3, <2>2 DEF StartScan
    <3>2. Unstored' = 0
      BY <3>1 DEF NoResult, Unstored
    <3>3. QED
      BY <3>1, <3>2 DEF OverdueInv
  <2>3. QED
    BY <2>1, <2>2
<1>4. CASE Exhausted
  <2>1. /\ pc = "scan" /\ pc' = "store" /\ scan_nonce > NonceEnd
        /\ UNCHANGED <<publishVars, overdue, scanVars>>
    BY <1>4 DEF Exhausted
  <2>2. result.hashes_done = ChunkSize
    <3>1. scan_nonce = NonceEnd + 1
      BY <2>1 DEF TypeInv
    <3>2. result.hashes_done = scan_nonce - nonce_begin
      BY <2>1 DEF TypeInv, One
    <3>3. QED
      BY <3>1, <3>2
  <2>3. Unstored \in 0 .. CheckInterval - 1 /\ current_scan_hashes_done % CheckInterval = 0
    BY <2>1 DEF CountInv
  <2>4. AtInterval
    BY <2>2, ScanAssumption DEF AtInterval
  <2>5. Unstored = 0
    BY <2>3, <2>4, IntervalReached
  <2>6. overdue = 0
    BY <2>1, <2>5 DEF OverdueInv
  <2>7. QED
    BY <2>1, <2>6 DEF OverdueInv
<1>5. CASE Stopped \/ Stale
  <2>1. /\ pc' = "store" /\ result'.stop_reason # "exhausted"
        /\ UNCHANGED <<publishVars, overdue, expected_generation>>
    BY <1>5 DEF Stopped, Stale
  <2>2. QED
    BY <2>1 DEF OverdueInv
<1>6. CASE Hash
  <2>1. /\ pc = "scan" /\ pc' = "hashed"
        /\ result'.hashes_done = result.hashes_done + 1
        /\ overdue' = IF expected_generation < published_generation
                        THEN overdue + 1 ELSE overdue
        /\ UNCHANGED <<publishVars, expected_generation, current_scan_hashes_done>>
    BY <1>6 DEF Hash
  <2>2. Unstored' = Unstored + 1 /\ Unstored \in 0 .. CheckInterval - 1
    BY <2>1 DEF CountInv, Unstored
  <2>3. QED
    BY <2>1, <2>2 DEF OverdueInv
<1>7. CASE StoreProgress
  <2>1. /\ pc = "hashed" /\ pc' = "progress"
        /\ UNCHANGED <<publishVars, result, overdue, expected_generation>>
        /\ ~AtInterval => current_scan_hashes_done' = current_scan_hashes_done
        /\ AtInterval' = AtInterval
    BY <1>7 DEF StoreProgress, AtInterval
  <2>2. CASE AtInterval
    BY <2>1, <2>2 DEF OverdueInv
  <2>3. CASE ~AtInterval
    <3>1. Unstored' = Unstored
      BY <2>1, <2>3 DEF Unstored
    <3>2. QED
      BY <2>1, <2>3, <3>1 DEF OverdueInv
  <2>4. QED
    BY <2>2, <2>3
<1>8. CASE Current
  <2>1. /\ pc = "progress" /\ pc' = "evaluate" /\ ~GenerationChanged
        /\ UNCHANGED <<publishVars, scanVars, overdue, current_scan_hashes_done>>
    BY <1>8 DEF Current
  <2>2. Unstored' = Unstored /\ Unstored \in Nat
    BY <2>1 DEF Unstored, CountInv
  <2>3. CASE AtInterval
    <3>1. work_generation = expected_generation
      BY <2>1, <2>3 DEF GenerationChanged
    <3>2. overdue = 0
      BY <3>1 DEF OverdueInv
    <3>3. QED
      BY <2>1, <2>2, <3>2 DEF OverdueInv
  <2>4. CASE ~AtInterval
    BY <2>1, <2>2, <2>4 DEF OverdueInv
  <2>5. QED
    BY <2>3, <2>4
<1>9. CASE Evaluate \/ Found
  <2>1. /\ pc \in {"evaluate", "found"} /\ pc' \in {"found", "scan"}
        /\ result'.hashes_done = result.hashes_done
        /\ UNCHANGED <<publishVars, overdue, expected_generation, current_scan_hashes_done>>
    BY <1>9 DEF Evaluate, Found
  <2>2. Unstored' = Unstored
    BY <2>1 DEF Unstored
  <2>3. QED
    BY <2>1, <2>2 DEF OverdueInv
<1>10. CASE StoreFinal \/ AddTotal \/ ResetCurrent
  <2>1. /\ pc \in {"store", "add", "reset"} /\ pc' \in {"add", "reset", "handle"}
        /\ UNCHANGED <<publishVars, overdue, scanVars>>
    BY <1>10 DEF StoreFinal, AddTotal, ResetCurrent
  <2>2. QED
    BY <2>1 DEF OverdueInv
<1>11. CASE HandleResult
  <2>1. /\ pc = "handle" /\ pc' \in {"adopt", "chunk", "exited"}
        /\ pc' = "chunk" => result.stop_reason \notin {"stale", "stop_requested"}
        /\ UNCHANGED <<publishVars, overdue, expected_generation, result>>
    BY <1>11 DEF HandleResult
  <2>2. result.stop_reason \in StopReasons
    BY DEF TypeInv, TypeOK
  <2>3. QED
    BY <2>1, <2>2 DEF OverdueInv, StopReasons
<1>12. QED
  BY <1>1, <1>2, <1>3, <1>4, <1>5, <1>6, <1>7, <1>8, <1>9, <1>10, <1>11
     DEF Next, WorkerThread, Worker, Done

-----------------------------------------------------------------------------
(* Types. *)

(* Where the scan is in its range, before and after its current hash. *)
LEMMA ScanPosition ==
  ASSUME TypeInv, Scanning
  PROVE  /\ scan_nonce \in nonce_begin .. NonceEnd + 1
         /\ pc = "scan" => result.hashes_done = scan_nonce - nonce_begin
         /\ pc # "scan" => /\ result.hashes_done = scan_nonce - nonce_begin + 1
                           /\ scan_nonce \in nonce_begin .. NonceEnd
         /\ NonceEnd + 1 <= MaxNonce + 1
<1>1. scan_nonce \in nonce_begin .. NonceEnd + 1
  BY DEF TypeInv
<1>2. ASSUME pc = "scan" PROVE result.hashes_done = scan_nonce - nonce_begin
  BY <1>2, Numbers DEF TypeInv
<1>3. ASSUME pc # "scan"
      PROVE  /\ result.hashes_done = scan_nonce - nonce_begin + 1
             /\ scan_nonce \in nonce_begin .. NonceEnd
  <2>1. result.hashes_done = scan_nonce - nonce_begin + 1
    BY <1>3, Numbers DEF TypeInv
  <2>2. QED
    BY <1>1, <2>1, Numbers
<1>4. NonceEnd + 1 <= MaxNonce + 1
  <2>1. nonce_begin \in Nonces /\ nonce_begin % ChunkSize = 0
    BY DEF TypeInv, TypeOK
  <2>2. nonce_begin + ChunkSize <= MaxNonce + 1
    BY <2>1, ChunkFits
  <2>3. QED
    BY <2>2, Numbers
<1>5. QED
  BY <1>1, <1>2, <1>3, <1>4

(* Every step leaves a scan that fits its type and its range (scan.cpp     *)
(* 16-99; main.cpp 753-825).                                               *)
LEMMA TypeStep ==
  ASSUME TypeInv, ResultInv, ResultInv', [Next]_vars
  PROVE  TypeInv'
<1> USE Numbers DEF Scanning, Reporting, countersVars, scanVars, shared, publishVars
<1> DEFINE Results == [hashes_done : 0 .. ChunkSize, shares_found : 0 .. ChunkSize,
                       blocks_found : 0 .. ChunkSize, stop_reason : StopReasons]
<1>0. /\ result \in Results /\ pc \in PCs /\ scans \in 0 .. MaxScans
      /\ stop \in BOOLEAN
      /\ work_generation \in 0 .. MaxGeneration
      /\ published_generation \in 0 .. MaxGeneration
      /\ expected_generation \in 0 .. MaxGeneration
      /\ nonce_begin \in Nonces /\ nonce_begin % ChunkSize = 0
      /\ scan_nonce \in 0 .. MaxNonce + 1
  BY DEF TypeInv, TypeOK
<1>a. stop' \in BOOLEAN
  BY <1>0
     DEF Next, Others, LoadFirst, LoadSecond, WorkerThread, Worker, Done,
        PublishGeneration, PublishStore, RequestStop, vars,
        Adopt, StartScan, Exhausted, Stopped, Hash, StoreProgress, Stale, Current,
        Evaluate, Found, StoreFinal, AddTotal, ResetCurrent, HandleResult
<1>b. /\ work_generation' \in 0 .. MaxGeneration
      /\ published_generation' \in 0 .. MaxGeneration
  <2>1. CASE PublishGeneration
    BY <1>0, <2>1, ScanAssumption DEF PublishGeneration
  <2>2. CASE PublishStore
    BY <1>0, <2>2 DEF PublishStore
  <2>3. CASE ~PublishGeneration /\ ~PublishStore
    BY <1>0, <2>3
       DEF Next, Others, LoadFirst, LoadSecond, WorkerThread, Worker, Done,
           RequestStop, vars, Adopt, StartScan, Exhausted,
           Stopped, Hash, StoreProgress, Stale, Current, Evaluate, Found,
           StoreFinal, AddTotal, ResetCurrent, HandleResult
  <2>4. QED
    BY <2>1, <2>2, <2>3
<1>c. /\ {hashes_done', shares_found', blocks_found', current_scan_hashes_done'} \subseteq Nat
      /\ {computed', overdue'} \subseteq Nat
  BY DEF Next, Others, LoadFirst, LoadSecond, workerVars, WorkerThread, Worker, Done,
         PublishGeneration, PublishStore, RequestStop, vars,
         Adopt, StartScan, Exhausted, Stopped, Hash, StoreProgress, Stale, Current,
         Evaluate, Found, One, StoreFinal, AddTotal, ResetCurrent, HandleResult
<1>d. scans' \in 0 .. MaxScans
  <2>1. CASE StartScan
    BY <1>0, <2>1, ScanAssumption DEF StartScan
  <2>2. CASE ~StartScan
    BY <1>0, <2>2
       DEF Next, Others, LoadFirst, LoadSecond, workerVars, WorkerThread, Worker, Done,
           PublishGeneration, PublishStore, RequestStop, vars,
           Adopt, Exhausted, Stopped, Hash, StoreProgress, Stale, Current,
           Evaluate, Found, StoreFinal, AddTotal, ResetCurrent, HandleResult
  <2>3. QED
    BY <2>1, <2>2
<1>e. /\ first_load' \in Loads \cup {"none"}
      /\ {snapshot', computed_then'} \subseteq Nat
      /\ scan_ended' \in BOOLEAN
  <2>1. /\ first_load \in Loads \cup {"none"}
        /\ {snapshot, computed_then} \subseteq Nat
        /\ scan_ended \in BOOLEAN
    BY DEF TypeInv, TypeOK
  <2>2. CASE LoadFirst
    <3>1. scan_ended' \in BOOLEAN
      <4>1. scan_ended' = (pc = "reset")
        BY <2>2 DEF LoadFirst
      <4>2. QED
        BY <4>1, Zenon
    <3>2. /\ first_load' \in Loads
          /\ snapshot' \in {hashes_done, current_scan_hashes_done}
          /\ computed_then' = computed
      BY <2>2, Zenon DEF LoadFirst, Loads
    <3>3. /\ hashes_done \in Nat /\ current_scan_hashes_done \in Nat /\ computed \in Nat
      OBVIOUS
    <3>4. snapshot' \in Nat /\ computed_then' \in Nat
      BY <3>2, <3>3, Zenon
    <3>5. QED
      BY <3>1, <3>2, <3>4, Zenon
  <2>3. CASE LoadSecond
    <3>1. scan_ended' \in BOOLEAN /\ first_load' = "none"
      BY <2>3, Zenon DEF LoadSecond
    <3>2. snapshot' \in Nat /\ computed_then' \in Nat
      BY <2>3 DEF LoadSecond
    <3>3. QED
      BY <3>1, <3>2, Zenon
  <2>4. CASE WorkerThread
    BY <2>1, <2>4, Zenon DEF WorkerThread
  <2>5. CASE Others \/ UNCHANGED vars
    BY <2>1, <2>5 DEF Others, mainVars, vars
  <2>6. QED
    BY <2>2, <2>3, <2>4, <2>5 DEF Next, Done
<1> DEFINE ScanTyped ==
      /\ pc' \in PCs
      /\ expected_generation' \in 0 .. MaxGeneration
      /\ nonce_begin' \in Nonces /\ nonce_begin' % ChunkSize = 0
      /\ scan_nonce' \in 0 .. MaxNonce + 1
      /\ result' \in Results
      /\ Scanning' => scan_nonce' \in nonce_begin' .. NonceEnd' + 1
      /\ Scanning' => result'.hashes_done =
            scan_nonce' - nonce_begin' + (IF pc' = "scan" THEN 0 ELSE 1)
<1>1. ASSUME UNCHANGED <<pc, scanVars>>
      PROVE  ScanTyped
  <2>1. NonceEnd' = NonceEnd
    BY <1>1 DEF NonceEnd
  <2>2. QED
    BY <1>0, <1>1, <2>1 DEF TypeInv
<1>2. ASSUME Adopt PROVE ScanTyped
  <2>1. CASE stop
    BY <1>0, <1>2, <2>1 DEF Adopt, PCs
  <2>2. CASE ~stop
    <3>1. 0 \in Nonces /\ 0 % ChunkSize = 0
      BY DEF Nonces
    <3>2. /\ pc' = "chunk" /\ expected_generation' = published_generation
          /\ nonce_begin' = 0 /\ UNCHANGED <<scan_nonce, result>>
      BY <1>2, <2>2 DEF Adopt
    <3>3. QED
      BY <1>0, <3>1, <3>2 DEF PCs
  <2>3. QED
    BY <2>1, <2>2
<1>3. ASSUME StartScan PROVE ScanTyped
  <2>1. CASE stop
    BY <1>0, <1>3, <2>1 DEF StartScan, PCs
  <2>2. CASE ~stop
    <3>1. /\ pc' = "scan" /\ scan_nonce' = nonce_begin /\ result' = NoResult
          /\ UNCHANGED <<expected_generation, nonce_begin>>
      BY <1>3, <2>2 DEF StartScan
    <3>2. NonceEnd' = NonceEnd
      BY <3>1 DEF NonceEnd
    <3>3. NoResult \in Results /\ NoResult.hashes_done = 0
      BY DEF NoResult, StopReasons
    <3>4. scan_nonce' \in 0 .. MaxNonce + 1
      BY <1>0, <3>1 DEF Nonces
    <3>5. QED
      BY <1>0, <3>1, <3>2, <3>3, <3>4 DEF PCs
  <2>3. QED
    BY <2>1, <2>2
<1>4. ASSUME Exhausted PROVE ScanTyped
  BY <1>0, <1>4 DEF Exhausted, PCs
<1>5. ASSUME Stopped PROVE ScanTyped
  <2>1. result' \in Results
    BY <1>0, <1>5 DEF Stopped, StopReasons
  <2>2. QED
    BY <1>0, <1>5, <2>1 DEF Stopped, PCs
<1>6. ASSUME Stale PROVE ScanTyped
  <2>1. result' \in Results
    BY <1>0, <1>6 DEF Stale, StopReasons
  <2>2. QED
    BY <1>0, <1>6, <2>1 DEF Stale, PCs
<1>7. ASSUME Hash PROVE ScanTyped
  <2>1. /\ pc = "scan" /\ pc' = "hashed" /\ scan_nonce <= NonceEnd
        /\ UNCHANGED <<expected_generation, nonce_begin, scan_nonce>>
        /\ result' = [result EXCEPT !.hashes_done = @ + 1]
    BY <1>7 DEF Hash
  <2>2. /\ result.hashes_done = scan_nonce - nonce_begin
        /\ scan_nonce \in nonce_begin .. NonceEnd + 1
    BY <2>1, ScanPosition
  <2>3. result.hashes_done + 1 \in 0 .. ChunkSize
    BY <2>1, <2>2
  <2>4. result' \in Results /\ result'.hashes_done = result.hashes_done + 1
    BY <1>0, <2>1, <2>3
  <2>5. NonceEnd' = NonceEnd
    BY <2>1 DEF NonceEnd
  <2>6. QED
    BY <1>0, <2>1, <2>2, <2>4, <2>5 DEF PCs
<1>8. ASSUME StoreProgress \/ Current PROVE ScanTyped
  <2>1. /\ pc \in {"hashed", "progress"} /\ pc' \in {"progress", "evaluate"}
        /\ UNCHANGED scanVars
    BY <1>8 DEF StoreProgress, Current
  <2>2. /\ result.hashes_done = scan_nonce - nonce_begin + 1
        /\ scan_nonce \in nonce_begin .. NonceEnd + 1
    BY <2>1, ScanPosition
  <2>3. NonceEnd' = NonceEnd
    BY <2>1 DEF NonceEnd
  <2>4. QED
    BY <1>0, <2>1, <2>2, <2>3 DEF PCs
<1>9. ASSUME Evaluate PROVE ScanTyped
  <2>1. /\ pc = "evaluate" /\ pc' \in {"scan", "found"}
        /\ UNCHANGED <<expected_generation, nonce_begin>>
        /\ scan_nonce' = IF pc' = "found" THEN scan_nonce ELSE scan_nonce + 1
        /\ result' = [result EXCEPT
             !.shares_found = @ + One(scan_nonce \in ShareNonces),
             !.blocks_found = @ + One(scan_nonce \in BlockNonces)]
    BY <1>9 DEF Evaluate
  <2>2. /\ result.hashes_done = scan_nonce - nonce_begin + 1
        /\ scan_nonce \in nonce_begin .. NonceEnd
        /\ NonceEnd + 1 <= MaxNonce + 1
    BY <2>1, ScanPosition
  <2>3. Evaluated' = nonce_begin .. scan_nonce
    BY <2>1, SMTT(60) DEF Evaluated
  <2>4. /\ Cardinality((nonce_begin .. scan_nonce) \cap ShareNonces) \in 0 .. ChunkSize
        /\ Cardinality((nonce_begin .. scan_nonce) \cap BlockNonces) \in 0 .. ChunkSize
    <3>1. /\ nonce_begin \in Int /\ scan_nonce \in Int /\ nonce_begin <= scan_nonce + 1
          /\ scan_nonce - nonce_begin + 1 <= ChunkSize
      BY <2>2
    <3>2. /\ Cardinality((nonce_begin .. scan_nonce) \cap ShareNonces)
               \in 0 .. (scan_nonce - nonce_begin + 1)
          /\ Cardinality((nonce_begin .. scan_nonce) \cap BlockNonces)
               \in 0 .. (scan_nonce - nonce_begin + 1)
      BY <3>1, CountBound
    <3>3. QED
      BY <3>1, <3>2
  <2>5. result'.shares_found \in 0 .. ChunkSize /\ result'.blocks_found \in 0 .. ChunkSize
    BY <2>1, <2>3, <2>4 DEF ResultInv
  <2>6. result' \in Results /\ result'.hashes_done = result.hashes_done
    BY <1>0, <2>1, <2>5
  <2>7. NonceEnd' = NonceEnd
    BY <2>1 DEF NonceEnd
  <2>8. /\ scan_nonce' \in nonce_begin' .. NonceEnd' + 1
        /\ scan_nonce' \in 0 .. MaxNonce + 1
    BY <2>1, <2>2, <2>7
  <2>9. scan_nonce - nonce_begin + 1 = scan_nonce' - nonce_begin' + (IF pc' = "scan" THEN 0 ELSE 1)
    <3>1. CASE pc' = "found"
      BY <2>1, <3>1
    <3>2. CASE pc' = "scan"
      BY <2>1, <3>2
    <3>3. QED
      BY <2>1, <3>1, <3>2
  <2>10. QED
    BY <1>0, <2>1, <2>2, <2>6, <2>8, <2>9 DEF PCs
<1>10. ASSUME Found PROVE ScanTyped
  <2>1. /\ pc = "found" /\ pc' = "scan" /\ scan_nonce' = scan_nonce + 1
        /\ UNCHANGED <<expected_generation, nonce_begin, result>>
    BY <1>10 DEF Found
  <2>2. /\ result.hashes_done = scan_nonce - nonce_begin + 1
        /\ scan_nonce \in nonce_begin .. NonceEnd
        /\ NonceEnd + 1 <= MaxNonce + 1
    BY <2>1, ScanPosition
  <2>3. NonceEnd' = NonceEnd
    BY <2>1 DEF NonceEnd
  <2>4. /\ scan_nonce' \in nonce_begin' .. NonceEnd' + 1
        /\ scan_nonce' \in 0 .. MaxNonce + 1
    BY <2>1, <2>2, <2>3
  <2>5. QED
    BY <1>0, <2>1, <2>2, <2>3, <2>4 DEF PCs
<1>11. ASSUME StoreFinal \/ AddTotal \/ ResetCurrent PROVE ScanTyped
  <2>1. pc' \in {"add", "reset", "handle"} /\ UNCHANGED scanVars
    BY <1>11 DEF StoreFinal, AddTotal, ResetCurrent
  <2>2. QED
    BY <1>0, <2>1 DEF PCs
<1>12. ASSUME HandleResult PROVE ScanTyped
  <2>1. /\ pc' \in {"adopt", "exited", "chunk"}
        /\ UNCHANGED <<expected_generation, scan_nonce, result>>
        /\ \/ nonce_begin' = (NonceEnd + 1) % (MaxNonce + 1)
           \/ nonce_begin' = nonce_begin
    BY <1>12 DEF HandleResult
  <2>2. NonceEnd + 1 = nonce_begin + ChunkSize
    OBVIOUS
  <2>3. /\ (nonce_begin + ChunkSize) % (MaxNonce + 1) \in Nonces
        /\ ((nonce_begin + ChunkSize) % (MaxNonce + 1)) % ChunkSize = 0
    BY <1>0, ChunkFits
  <2>4. nonce_begin' \in Nonces /\ nonce_begin' % ChunkSize = 0
    BY <1>0, <2>1, <2>2, <2>3
  <2>5. QED
    BY <1>0, <2>1, <2>4 DEF PCs
<1>13. ScanTyped
  BY <1>1, <1>2, <1>3, <1>4, <1>5, <1>6, <1>7, <1>8, <1>9, <1>10, <1>11, <1>12,
     OtherThreads DEF Next, WorkerThread, Worker, Done
<1>14. QED
  BY <1>a, <1>b, <1>c, <1>d, <1>e, <1>13 DEF TypeInv, TypeOK

-----------------------------------------------------------------------------
(* The counters as main loads them. *)

(* What one load of each counter can miss, at any one moment. *)
LEMMA Counters ==
  ASSUME TypeInv, CountInv
  PROVE  /\ hashes_done \in computed - ChunkSize .. computed
         /\ current_scan_hashes_done \in 0 .. ChunkSize
         /\ pc # "reset" => hashes_done + current_scan_hashes_done
                              \in computed - CheckInterval .. computed
<1> USE Numbers
<1>0. pc \in PCs
  BY DEF TypeInv, TypeOK
<1>1. CASE pc \in {"adopt", "chunk", "handle", "exited"}
  BY <1>1 DEF CountInv
<1>2. CASE pc = "reset"
  BY <1>2 DEF CountInv, Unstored
<1>3. CASE pc \in {"scan", "hashed", "progress", "evaluate", "found", "store", "add"}
  <2>1. Unstored \in 0 .. CheckInterval /\ hashes_done + result.hashes_done = computed
    BY <1>3 DEF CountInv, Scanning
  <2>2. QED
    BY <1>3, <2>1 DEF Unstored
<1>4. QED
  BY <1>0, <1>1, <1>2, <1>3 DEF PCs

(* The total changes in AddTotal only, which leads to the reset. *)
LEMMA TotalMoves ==
  ASSUME TypeInv, Worker
  PROVE  /\ computed' \in {computed, computed + 1}
         /\ \/ pc = "add" /\ hashes_done' = hashes_done + result.hashes_done
            \/ pc # "add" /\ hashes_done' = hashes_done /\ pc' # "reset"
BY DEF Worker, Adopt, StartScan, Exhausted, Stopped, Hash, StoreProgress, Stale, Current,
       Evaluate, Found, StoreFinal, AddTotal, ResetCurrent, HandleResult, countersVars

(* Every step keeps the value in main's hand as good as it was. *)
LEMMA SnapshotStep ==
  ASSUME TypeInv, CountInv, SnapshotInv, [Next]_vars
  PROVE  SnapshotInv'
<1> USE Numbers
<1>1. CASE Others \/ UNCHANGED vars
  <2>1. UNCHANGED <<mainVars, pc, computed, hashes_done>>
    BY <1>1 DEF Others, PublishGeneration, PublishStore, RequestStop, countersVars, vars
  <2>2. QED
    BY <2>1 DEF SnapshotInv, mainVars
<1>2. CASE LoadFirst
  <2>1. /\ UNCHANGED <<pc, computed, hashes_done>> /\ computed_then' = computed
        /\ scan_ended' <=> pc = "reset"
        /\ \/ first_load' = "hashes_done" /\ snapshot' = hashes_done
           \/ /\ first_load' = "current_scan_hashes_done"
              /\ snapshot' = current_scan_hashes_done
    BY <1>2 DEF LoadFirst, countersVars, workerVars
  <2>2. QED
    BY <2>1, Counters DEF SnapshotInv
<1>3. CASE LoadSecond
  BY <1>3 DEF LoadSecond, SnapshotInv
<1>4. CASE WorkerThread
  <2>1. /\ UNCHANGED <<first_load, snapshot, computed_then>>
        /\ computed' \in {computed, computed + 1}
    BY <1>4, TotalMoves DEF WorkerThread
  <2>2. snapshot \in Nat /\ computed_then \in Nat
    BY DEF TypeInv, TypeOK
  <2>3. CASE pc = "add" /\ hashes_done' = hashes_done + result.hashes_done
    <3>1. first_load # "none" => scan_ended'
      BY <1>4, <2>3 DEF WorkerThread
    <3>2. QED
      BY <2>1, <2>2, <2>3, <3>1 DEF SnapshotInv
  <2>4. CASE pc # "add" /\ hashes_done' = hashes_done /\ pc' # "reset"
    <3>1. scan_ended' <=> scan_ended
      BY <1>4, <2>4, Zenon DEF WorkerThread
    <3>2. QED
      BY <2>1, <2>2, <2>4, <3>1 DEF SnapshotInv
  <2>5. QED
    BY <1>4, <2>3, <2>4, TotalMoves DEF WorkerThread
<1>5. QED
  BY <1>1, <1>2, <1>3, <1>4 DEF Next, Done

-----------------------------------------------------------------------------
(* The invariant, and the properties it gives. *)

(* At first nothing has been hashed. *)
LEMMA ScanInit == Init => ScanInv
<1>1. SUFFICES ASSUME Init PROVE ScanInv
  OBVIOUS
<1>2. TypeInv
  <2>1. 0 \in Nonces /\ 0 % ChunkSize = 0
    BY ScanAssumption DEF Nonces
  <2>2. stop \in BOOLEAN /\ scan_ended \in BOOLEAN
    BY <1>1, Zenon DEF Init
  <2>3. TypeOK
    BY <1>1, <2>1, <2>2, ScanAssumption
       DEF Init, TypeOK, NoResult, StopReasons, PCs, Loads
  <2>4. QED
    BY <1>1, <2>1, <2>3 DEF Init, TypeInv, Scanning
<1>3. ResultInv /\ CountInv
  BY <1>1 DEF Init, ResultInv, CountInv, Scanning, Reporting
<1>4. OverdueInv
  BY <1>1, ScanAssumption DEF Init, OverdueInv, Reporting
<1>5. SnapshotInv
  BY <1>1 DEF Init, SnapshotInv
<1>6. QED
  BY <1>2, <1>3, <1>4, <1>5 DEF ScanInv

(* Every hash is in exactly the counters it belongs to, a result speaks of *)
(* the nonces it covers, and superseded work is noticed at the next check  *)
(* (scan.cpp 16-99; main.cpp 753-825).                                     *)
THEOREM ScanCorrect == Spec => []ScanInv
<1>1. ScanInv /\ [Next]_vars => ScanInv'
  BY ResultStep, CountStep, OverdueStep, TypeStep, SnapshotStep DEF ScanInv
<1>2. QED
  BY ScanInit, <1>1, PTL DEF Spec

(* Wherever the worker is at main's first and at its second load, the line *)
(* is off by at most the one scan that is added up in between, and without *)
(* one it lags by at most one check interval (main.cpp 186-198, 221-223,   *)
(* 782-784; scan.cpp 69-74, 96-99).                                        *)
THEOREM StatusLineAccurate == Spec => []StatusAccurate
<1>1. ScanInv => StatusAccurate
  <2>1. SUFFICES ASSUME ScanInv, first_load # "none" PROVE StatusAccurate
    BY DEF StatusAccurate
  <2>2. /\ TypeInv /\ CountInv /\ SnapshotInv
        /\ first_load \in Loads /\ snapshot \in Nat /\ computed_then \in Nat
    BY <2>1 DEF ScanInv, TypeInv, TypeOK
  <2>3. CASE first_load = "hashes_done"
    BY <2>2, <2>3, Numbers, Counters DEF StatusAccurate, StatusLine, SnapshotInv
  <2>4. CASE first_load = "current_scan_hashes_done"
    BY <2>2, <2>4, Numbers, Counters DEF StatusAccurate, StatusLine, SnapshotInv
  <2>5. QED
    BY <2>2, <2>3, <2>4 DEF Loads
<1>2. QED
  BY <1>1, ScanCorrect, PTL

(* When the worker has ended, the totals hold every hash it computed       *)
(* (main.cpp 782-784, 1005-1006).                                          *)
THEOREM FinalTotals == Spec => []FinalTotalsExact
<1>1. ScanInv => FinalTotalsExact
  BY DEF ScanInv, CountInv, FinalTotalsExact
<1>2. QED
  BY <1>1, ScanCorrect, PTL

(* A finished scan reports exactly the nonces it evaluated (scan.cpp       *)
(* 52-94; main.cpp 424-431).                                               *)
THEOREM ResultsExact == Spec => []ResultExact
<1>1. ScanInv => ResultExact
  <2>1. SUFFICES ASSUME ScanInv, Reporting PROVE ResultExact
    BY DEF ResultExact, Reporting
  <2>2. TypeInv /\ ResultInv
    BY <2>1 DEF ScanInv
  <2>3. /\ scan_nonce \in nonce_begin .. NonceEnd + 1
        /\ Evaluated = nonce_begin .. scan_nonce - 1
    BY <2>1, <2>2 DEF ResultInv, Evaluated, Reporting
  <2>4. Cardinality(nonce_begin .. scan_nonce - 1) = scan_nonce - nonce_begin
    <3>1. /\ scan_nonce - 1 \in Int /\ nonce_begin \in Int
          /\ nonce_begin <= (scan_nonce - 1) + 1
          /\ (scan_nonce - 1) - nonce_begin + 1 = scan_nonce - nonce_begin
      BY <2>2, <2>3, Numbers, SMTT(60)
    <3>2. QED
      BY <3>1, CountBound
  <2>5. QED
    BY <2>1, <2>2, <2>3, <2>4 DEF ResultInv, ResultExact
<1>2. QED
  BY <1>1, ScanCorrect, PTL

(* At most one interval of hashes is spent on superseded work (scan.cpp    *)
(* 16-24; main.cpp 407-422, 748).                                          *)
THEOREM StaleWorkIsBounded == Spec => []StaleWorkBounded
<1>1. ScanInv => StaleWorkBounded
  BY DEF ScanInv, OverdueInv, StaleWorkBounded
<1>2. QED
  BY <1>1, ScanCorrect, PTL

=============================================================================
