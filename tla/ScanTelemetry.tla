--------------------------- MODULE ScanTelemetry ---------------------------
(***************************************************************************)
(* One scan of a nonce range after the other, and the counters that main's *)
(* status line reads without a lock while the scans run (scan.cpp,         *)
(* cpu_backend.cpp, coordinator.cpp; main.cpp 168-232, 753-825).           *)
(*                                                                         *)
(* What MinerPipeline leaves out is the subject here: how many hashes were *)
(* computed, what a scan reports of itself, what main makes of counters it *)
(* loads one after the other, and how long superseded work is hashed.      *)
(* Publication is reduced to its two steps, a share to its count, and      *)
(* extranonce2 to the fact that the nonces start over.                     *)
(***************************************************************************)
EXTENDS Integers, FiniteSets

CONSTANTS
  MaxNonce,          \* kMaxNonce
  ChunkSize,         \* kNonceChunkSize
  CheckInterval,     \* ScanControl::check_interval
  ShareNonces,       \* nonces whose hash meets the share target
  BlockNonces,       \* nonces whose hash meets the network target
  MaxGeneration,     \* bound: publications
  MaxScans           \* bound: scans

Nonces == 0 .. MaxNonce

(* 2^32 is a multiple of the check interval of 2^14. *)
ASSUME ScanAssumption ==
  /\ MaxNonce \in Nat
  /\ ChunkSize \in Nat \ {0}
  /\ CheckInterval \in Nat \ {0}
  /\ ChunkSize % CheckInterval = 0
  /\ (MaxNonce + 1) % ChunkSize = 0
  /\ ShareNonces \subseteq Nonces
  /\ BlockNonces \subseteq Nonces
  /\ MaxGeneration \in Nat \ {0}
  /\ MaxScans \in Nat

VARIABLES
  (* Shared. *)
  work_generation,          \* the atomic counter
  published_generation,     \* SharedWorkState::published
  stop,                     \* the worker's stop token
  hashes_done,              \* Counters
  shares_found,
  blocks_found,
  current_scan_hashes_done,
  (* The worker thread. *)
  pc,                       \* where it is
  expected_generation,      \* of the work it scans
  nonce_begin,              \* of the scan in progress
  scan_nonce,               \* loop variable of scan_nonce_range
  result,                   \* its ScanResult
  (* The main thread in snapshot_counters. *)
  first_load,               \* the counter it has loaded, of the two it adds up
  snapshot,                 \* the value that load returned
  (* History. *)
  scans,                    \* scans started
  computed,                 \* hashes computed, over all scans
  overdue,                  \* hashes of the adopted work since newer work was stored
  computed_then,            \* computed, at main's first load
  scan_ended                \* run_scan_chunk was adding up a scan since then

countersVars == <<hashes_done, shares_found, blocks_found, current_scan_hashes_done>>
publishVars == <<work_generation, published_generation>>
scanVars == <<expected_generation, nonce_begin, scan_nonce, result>>
mainVars == <<first_load, snapshot, computed_then, scan_ended>>
vars == <<publishVars, stop, countersVars, pc, scanVars, scans, computed, overdue,
          mainVars>>

StopReasons == {"exhausted", "stop_requested", "stale"}
NoResult == [hashes_done |-> 0, shares_found |-> 0, blocks_found |-> 0,
             stop_reason |-> "exhausted"]

PCs == {"adopt", "chunk", "scan", "hashed", "progress", "evaluate", "found",
        "store", "add", "reset", "handle", "exited"}

Loads == {"hashes_done", "current_scan_hashes_done"}

TypeOK ==
  /\ work_generation \in 0 .. MaxGeneration
  /\ published_generation \in 0 .. MaxGeneration
  /\ stop \in BOOLEAN
  /\ {hashes_done, shares_found, blocks_found, current_scan_hashes_done} \subseteq Nat
  /\ pc \in PCs
  /\ expected_generation \in 0 .. MaxGeneration
  /\ nonce_begin \in Nonces
  /\ scan_nonce \in 0 .. MaxNonce + 1
  /\ result \in [hashes_done : 0 .. ChunkSize, shares_found : 0 .. ChunkSize,
                 blocks_found : 0 .. ChunkSize, stop_reason : StopReasons]
  /\ scans \in 0 .. MaxScans
  /\ {computed, overdue} \subseteq Nat
  /\ first_load \in Loads \cup {"none"}
  /\ {snapshot, computed_then} \subseteq Nat
  /\ scan_ended \in BOOLEAN

Init ==
  /\ work_generation = 0
  /\ published_generation = 0
  /\ stop = FALSE
  /\ hashes_done = 0
  /\ shares_found = 0
  /\ blocks_found = 0
  /\ current_scan_hashes_done = 0
  /\ pc = "adopt"
  /\ expected_generation = 0
  /\ nonce_begin = 0
  /\ scan_nonce = 0
  /\ result = NoResult
  /\ scans = 0
  /\ computed = 0
  /\ overdue = 0
  /\ first_load = "none"
  /\ snapshot = 0
  /\ computed_then = 0
  /\ scan_ended = FALSE

-----------------------------------------------------------------------------
(* The control thread and SIGINT. *)

(* publish_latest_work: the generation moves first, the work follows.      *)
PublishGeneration ==
  /\ work_generation = published_generation
  /\ work_generation < MaxGeneration
  /\ work_generation' = work_generation + 1
  /\ UNCHANGED <<published_generation, stop, countersVars, pc, scanVars, scans,
                 computed, overdue>>

PublishStore ==
  /\ published_generation < work_generation
  /\ published_generation' = work_generation
  /\ UNCHANGED <<work_generation, stop, countersVars, pc, scanVars, scans, computed, overdue>>

RequestStop ==
  /\ ~stop
  /\ stop' = TRUE
  /\ UNCHANGED <<publishVars, countersVars, pc, scanVars, scans, computed, overdue>>

-----------------------------------------------------------------------------
(* The main thread's status line.                                          *)

workerVars == <<pc, scanVars, scans, computed, overdue>>

(* snapshot_counters loads hashes_done first and current_scan_hashes_done  *)
(* last; the loads are relaxed, so that the processor may take the values  *)
(* in either order.                                                        *)
LoadFirst ==
  /\ first_load = "none"
  /\ \/ first_load' = "hashes_done" /\ snapshot' = hashes_done
     \/ /\ first_load' = "current_scan_hashes_done"
        /\ snapshot' = current_scan_hashes_done
  /\ computed_then' = computed
  /\ scan_ended' = (pc = "reset")
  /\ UNCHANGED <<publishVars, stop, countersVars, workerVars>>

(* With the other load the line is complete, and printed. *)
LoadSecond ==
  /\ first_load # "none"
  /\ first_load' = "none"
  /\ snapshot' = 0
  /\ computed_then' = 0
  /\ scan_ended' = FALSE
  /\ UNCHANGED <<publishVars, stop, countersVars, workerVars>>

-----------------------------------------------------------------------------
(* The worker thread. *)

shared == <<publishVars, stop>>

(* wait_for_published_work. *)
Adopt ==
  /\ pc = "adopt"
  /\ IF stop
       THEN /\ pc' = "exited"
            /\ UNCHANGED <<scanVars, overdue>>
       ELSE /\ published_generation > 0
            /\ expected_generation' = published_generation
            /\ nonce_begin' = 0
            /\ overdue' = 0
            /\ pc' = "chunk"
            /\ UNCHANGED <<scan_nonce, result>>
  /\ UNCHANGED <<shared, countersVars, scans, computed>>

NonceEnd == nonce_begin + ChunkSize - 1

(* The head of the chunk loop and the start of a scan. *)
StartScan ==
  /\ pc = "chunk"
  /\ IF stop
       THEN /\ pc' = "adopt"
            /\ UNCHANGED <<scan_nonce, result, scans, current_scan_hashes_done>>
       ELSE /\ scans < MaxScans
            /\ scans' = scans + 1
            /\ current_scan_hashes_done' = 0
            /\ scan_nonce' = nonce_begin
            /\ result' = NoResult
            /\ pc' = "scan"
  /\ UNCHANGED <<shared, hashes_done, shares_found, blocks_found,
                 expected_generation, nonce_begin, computed, overdue>>

(* The head of the scan loop: range exhausted, stopped, or one more hash.  *)
Exhausted ==
  /\ pc = "scan"
  /\ scan_nonce > NonceEnd
  /\ pc' = "store"
  /\ UNCHANGED <<shared, countersVars, scanVars, scans, computed, overdue>>

(* Faulty variant: a stopped scan does not report. *)
StoppedAbruptly ==
  /\ pc = "scan"
  /\ scan_nonce <= NonceEnd
  /\ stop
  /\ pc' = "exited"
  /\ UNCHANGED <<shared, countersVars, scanVars, scans, computed, overdue>>

Stopped ==
  /\ pc = "scan"
  /\ scan_nonce <= NonceEnd
  /\ stop
  /\ result' = [result EXCEPT !.stop_reason = "stop_requested"]
  /\ pc' = "store"
  /\ UNCHANGED <<shared, countersVars, expected_generation, nonce_begin,
                 scan_nonce, scans, computed, overdue>>

Hash ==
  /\ pc = "scan"
  /\ scan_nonce <= NonceEnd
  /\ ~stop
  /\ result' = [result EXCEPT !.hashes_done = @ + 1]
  /\ computed' = computed + 1
  /\ overdue' = IF expected_generation < published_generation
                  THEN overdue + 1 ELSE overdue
  /\ pc' = "hashed"
  /\ UNCHANGED <<shared, countersVars, expected_generation, nonce_begin,
                 scan_nonce, scans>>

(* The hashes of this scan so far are a multiple of the interval. *)
AtInterval == result.hashes_done % CheckInterval = 0

StoreProgress ==
  /\ pc = "hashed"
  /\ current_scan_hashes_done' =
       IF AtInterval THEN result.hashes_done ELSE current_scan_hashes_done
  /\ pc' = "progress"
  /\ UNCHANGED <<shared, hashes_done, shares_found, blocks_found, scanVars,
                 scans, computed, overdue>>

(* Faulty variant: the generation is compared at the end of the range only.*)
GenerationChangedLate ==
  /\ scan_nonce = NonceEnd
  /\ work_generation # expected_generation

GenerationChanged == AtInterval /\ work_generation # expected_generation

(* Stale: the hash just computed is counted but not evaluated.             *)
Stale ==
  /\ pc = "progress"
  /\ GenerationChanged
  /\ result' = [result EXCEPT !.stop_reason = "stale"]
  /\ pc' = "store"
  /\ UNCHANGED <<shared, countersVars, expected_generation, nonce_begin,
                 scan_nonce, scans, computed, overdue>>

Current ==
  /\ pc = "progress"
  /\ ~GenerationChanged
  /\ pc' = "evaluate"
  /\ UNCHANGED <<shared, countersVars, scanVars, scans, computed, overdue>>

One(condition) == IF condition THEN 1 ELSE 0

(* Faulty variant: a hash that is no share ends the evaluation before the  *)
(* network target is looked at.                                            *)
EvaluateShareOnly ==
  /\ pc = "evaluate"
  /\ result' = [result EXCEPT
       !.shares_found = @ + One(scan_nonce \in ShareNonces),
       !.blocks_found = @ + One(scan_nonce \in ShareNonces \cap BlockNonces)]
  /\ pc' = IF scan_nonce \in ShareNonces THEN "found" ELSE "scan"
  /\ scan_nonce' = IF scan_nonce \in ShareNonces THEN scan_nonce ELSE scan_nonce + 1
  /\ UNCHANGED <<shared, countersVars, expected_generation, nonce_begin, scans,
                 computed, overdue>>

(* Both targets are compared; only a share reaches the callbacks.          *)
Evaluate ==
  /\ pc = "evaluate"
  /\ result' = [result EXCEPT
       !.shares_found = @ + One(scan_nonce \in ShareNonces),
       !.blocks_found = @ + One(scan_nonce \in BlockNonces)]
  /\ pc' = IF scan_nonce \in ShareNonces THEN "found" ELSE "scan"
  /\ scan_nonce' = IF scan_nonce \in ShareNonces THEN scan_nonce ELSE scan_nonce + 1
  /\ UNCHANGED <<shared, countersVars, expected_generation, nonce_begin, scans,
                 computed, overdue>>

(* handle_found_share, through the backend's and the coordinator's         *)
(* callbacks.                                                              *)
Found ==
  /\ pc = "found"
  /\ shares_found' = shares_found + 1
  /\ blocks_found' = blocks_found + One(scan_nonce \in BlockNonces)
  /\ scan_nonce' = scan_nonce + 1
  /\ pc' = "scan"
  /\ UNCHANGED <<shared, hashes_done, current_scan_hashes_done,
                 expected_generation, nonce_begin, result, scans, computed, overdue>>

(* The last store of scan_nonce_range. *)
StoreFinal ==
  /\ pc = "store"
  /\ current_scan_hashes_done' = result.hashes_done
  /\ pc' = "add"
  /\ UNCHANGED <<shared, hashes_done, shares_found, blocks_found, scanVars,
                 scans, computed, overdue>>

(* run_scan_chunk moves the scan's hashes to the total in two steps.       *)
AddTotal ==
  /\ pc = "add"
  /\ hashes_done' = hashes_done + result.hashes_done
  /\ pc' = "reset"
  /\ UNCHANGED <<shared, shares_found, blocks_found, current_scan_hashes_done,
                 scanVars, scans, computed, overdue>>

(* Faulty variant: the scan's own count is left standing. *)
ResetForgotten ==
  /\ pc = "reset"
  /\ pc' = "handle"
  /\ UNCHANGED <<shared, countersVars, scanVars, scans, computed, overdue>>

ResetCurrent ==
  /\ pc = "reset"
  /\ current_scan_hashes_done' = 0
  /\ pc' = "handle"
  /\ UNCHANGED <<shared, hashes_done, shares_found, blocks_found, scanVars,
                 scans, computed, overdue>>

(* Faulty variant: the next chunk begins at the last nonce of this one. *)
HandleResultOverlap ==
  /\ pc = "handle"
  /\ pc' = CASE result.stop_reason = "stale" -> "adopt"
             [] result.stop_reason = "stop_requested" -> "exited"
             [] OTHER -> "chunk"
  /\ nonce_begin' = IF result.stop_reason = "exhausted"
                      THEN NonceEnd % MaxNonce ELSE nonce_begin
  /\ UNCHANGED <<shared, countersVars, expected_generation, scan_nonce, result,
                 scans, computed, overdue>>

(* handle_scan_result. *)
HandleResult ==
  /\ pc = "handle"
  /\ pc' = CASE result.stop_reason = "stale" -> "adopt"
             [] result.stop_reason = "stop_requested" -> "exited"
             [] OTHER -> "chunk"
  /\ nonce_begin' = IF result.stop_reason = "exhausted"
                      THEN (NonceEnd + 1) % (MaxNonce + 1) ELSE nonce_begin
  /\ UNCHANGED <<shared, countersVars, expected_generation, scan_nonce, result,
                 scans, computed, overdue>>

Worker ==
  \/ Adopt
  \/ StartScan
  \/ Exhausted
  \/ Stopped
  \/ Hash
  \/ StoreProgress
  \/ Stale
  \/ Current
  \/ Evaluate
  \/ Found
  \/ StoreFinal
  \/ AddTotal
  \/ ResetCurrent
  \/ HandleResult

(* What main's line misses or counts twice is decided where a scan's       *)
(* hashes move.                                                            *)
WorkerThread ==
  /\ Worker
  /\ scan_ended' = (scan_ended \/ (first_load # "none" /\ pc = "add"))
  /\ UNCHANGED <<first_load, snapshot, computed_then>>

Others == (PublishGeneration \/ PublishStore \/ RequestStop) /\ UNCHANGED mainVars

Done == pc = "exited" /\ UNCHANGED vars

Next == Others \/ LoadFirst \/ LoadSecond \/ WorkerThread \/ Done

Spec == Init /\ [][Next]_vars

-----------------------------------------------------------------------------
(* Properties. *)

Scanning == pc \in {"scan", "hashed", "progress", "evaluate", "found"}

(* Every variable has its type, and a scan stays inside its range.         *)
TypeInv ==
  /\ TypeOK
  /\ nonce_begin % ChunkSize = 0
  /\ Scanning => scan_nonce \in nonce_begin .. NonceEnd + 1
  /\ Scanning => result.hashes_done =
       scan_nonce - nonce_begin + (IF pc = "scan" THEN 0 ELSE 1)

(* What the line shows if main's second load comes now (main.cpp 221-223). *)
StatusLine ==
  snapshot + (IF first_load = "hashes_done" THEN current_scan_hashes_done ELSE hashes_done)

(* main's two loads are apart: the line may miss a scan that is added up   *)
(* between them, or count it twice.  It is never off by more than that one *)
(* scan, however many end meanwhile, and if none does it lags what was     *)
(* hashed at the first load by at most one check interval (main.cpp        *)
(* 186-198, 221-223, 782-784; scan.cpp 69-74, 96-99).                      *)
StatusAccurate ==
  first_load # "none" =>
    /\ StatusLine \in computed_then - ChunkSize .. computed + ChunkSize
    /\ ~scan_ended => StatusLine \in computed_then - CheckInterval .. computed

(* However the worker was stopped, nothing it did is missing from the      *)
(* final totals (main.cpp 782-784, 1005-1006).                             *)
FinalTotalsExact ==
  pc = "exited" => hashes_done = computed /\ current_scan_hashes_done = 0

(* A result speaks of exactly the nonces that were evaluated: all of an    *)
(* exhausted range, and all but the last hash of a stale one.  A block     *)
(* that is no share is in the result although no callback hears of it      *)
(* (scan.cpp 52-94; main.cpp 424-431).                                     *)
ResultExact ==
  pc \in {"store", "add", "reset", "handle"} =>
    LET evaluated == nonce_begin .. scan_nonce - 1
    IN /\ result.shares_found = Cardinality(evaluated \cap ShareNonces)
       /\ result.blocks_found = Cardinality(evaluated \cap BlockNonces)
       /\ result.hashes_done = Cardinality(evaluated) + One(result.stop_reason = "stale")
       /\ result.stop_reason = "exhausted" => scan_nonce = NonceEnd + 1

(* Once newer work is stored, at most one interval of hashes is spent on   *)
(* the work it supersedes, wherever in a scan, a chunk or a re-adoption    *)
(* the worker was and however many publications follow (scan.cpp 16-24;    *)
(* main.cpp 407-422, 748).                                                 *)
StaleWorkBounded == overdue <= CheckInterval

-----------------------------------------------------------------------------
(* The inductive invariant behind them. *)

Reporting == pc \in {"store", "add", "reset", "handle"}

(* The nonces of this scan whose hash was compared with the targets. *)
Evaluated == nonce_begin .. IF pc = "found" THEN scan_nonce ELSE scan_nonce - 1

(* The result under construction speaks of the nonces evaluated so far. *)
ResultInv ==
  /\ Scanning \/ Reporting =>
       /\ scan_nonce \in nonce_begin .. NonceEnd + 1
       /\ result.shares_found = Cardinality(Evaluated \cap ShareNonces)
       /\ result.blocks_found = Cardinality(Evaluated \cap BlockNonces)
  /\ Scanning => result.stop_reason = "exhausted"
  /\ Reporting =>
       /\ result.hashes_done =
            scan_nonce - nonce_begin + One(result.stop_reason = "stale")
       /\ result.stop_reason = "exhausted" => scan_nonce = NonceEnd + 1

(* The hashes computed since progress was last stored. *)
Unstored == result.hashes_done - current_scan_hashes_done

(* Every hash is in the total, in the result of the scan that goes on, or, *)
(* between AddTotal and ResetCurrent, in both.                             *)
CountInv ==
  /\ pc \in {"adopt", "chunk", "handle", "exited"} =>
       hashes_done = computed /\ current_scan_hashes_done = 0
  /\ Scanning \/ pc \in {"store", "add"} =>
       hashes_done + result.hashes_done = computed
  /\ pc = "reset" => hashes_done = computed
  /\ pc \in {"add", "reset"} => Unstored = 0
  /\ Scanning => current_scan_hashes_done % CheckInterval = 0
  /\ pc = "hashed" => Unstored \in 1 .. CheckInterval
  /\ pc \in {"scan", "progress", "evaluate", "found", "store"} => Unstored \in 0 .. CheckInterval - 1

(* Superseded work is noticed where progress is stored. *)
OverdueInv ==
  /\ published_generation <= work_generation
  /\ overdue > 0 => expected_generation < published_generation
  /\ pc \in {"scan", "hashed", "evaluate", "found"} => overdue <= Unstored
  /\ pc = "progress" => overdue <= IF AtInterval THEN CheckInterval ELSE Unstored
  /\ pc = "chunk" => overdue = 0
  /\ Reporting /\ result.stop_reason = "exhausted" => overdue = 0
  /\ overdue <= CheckInterval

(* What main's first load returned has not become wrong by more than the   *)
(* scan that ended since.                                                  *)
SnapshotInv ==
  first_load # "none" =>
    /\ computed_then <= computed
    /\ ~scan_ended => pc # "reset"
    /\ first_load = "hashes_done" =>
         /\ snapshot \in computed_then - ChunkSize .. hashes_done
         /\ ~scan_ended => snapshot = hashes_done
    /\ first_load = "current_scan_hashes_done" =>
         /\ snapshot \in 0 .. ChunkSize
         /\ hashes_done >= computed_then - ChunkSize
         /\ ~scan_ended => snapshot + hashes_done \in computed_then - CheckInterval .. computed_then

(* What every step preserves. *)
ScanInv ==
  /\ TypeInv
  /\ ResultInv
  /\ CountInv
  /\ OverdueInv
  /\ SnapshotInv

=============================================================================
