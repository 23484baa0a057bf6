# btccpu in TLA+

A formal model of btccpu, an educational Bitcoin CPU miner that speaks CKPool's
Stratum v1. Source paths below are relative to the repository (`src/main.cpp`,
`doc/...`).

## 1. The system

btccpu runs three threads in one process and one TCP connection to a pool.

| Part | State | Operations | Interacts by |
|---|---|---|---|
| main thread (`src/main.cpp` 829-1020) | `stop_requested`, `control_exited`, `worker_exited` | check SIGINT, check `first_error`, stop both threads, pop and render one event, print leftovers and totals, rethrow | `EventQueue`, `first_error` under `error_mutex`, the two stop tokens, `Counters` |
| control thread (`src/main.cpp` 850-896) | the `StratumClient`, `did_work`, the share it has popped | handshake, `publish_latest_work`, `drain_share_queue`, `poll`, `control_idle_wait` | `work_generation` (atomic), `SharedWorkState` (mutex), `ShareQueue` (mutex), the socket |
| worker thread (`src/main.cpp` 898-944) | its copy of the published work, `work.nonce`, extranonce2, the coordinator's prepared work | `wait_for_published_work`, `make_scan_chunk`, `scan_nonce_range`, `handle_found_share`, `handle_scan_result` | the same three objects, callbacks from backend to coordinator to main's lambda |
| Stratum client (`src/stratum_client/stratum_client.cpp`) | `buffer_`, `next_id_`, `subscription_`, `current_job_`, `difficulty_` | `subscribe`, `suggest_difficulty`, `authorize`, `run_until_ready`, `poll`, `submit_share` | blocking reads and writes of lines |
| Stratum messages (`messages.cpp`) | none | parse a line, write a request | called by the client |
| work preparation (`mining_job/work_state.cpp`, `coinbase.cpp`, `merkle.cpp`, `header.cpp`) | none | job and extranonce2 to header template and share submission | called by publication and by the worker |
| hashing (`sha256/sha256.cpp`) | none | padding, compression, midstate of the header | called for coinbase, Merkle root and header |
| coinbase decoder (`mining_job/coinbase.cpp` 23-430) | a position in the bytes | bounds-checked reads, script types, addresses | main's startup printout; may throw there |
| targets (`mining_job/target.cpp`, `util/uint256.hpp`) | none | compact and difficulty to a 256-bit target, comparison | called by publication and by the scan |
| counters (`src/main.cpp` 168-232) | six atomics | added to by worker and control thread, stored by the scan | read without a lock by main's status line |
| diagnostic (`repro/rejected_share_repro.cpp`) | none | hashes a recorded share under 81 byte orders | a program of its own, linked with the miner's code |
| event and share queues | FIFO sequences | push, `try_pop`, `wait_pop_for` | mutex and condition variable |

What is hard about it:

* The generation is incremented before the work it stands for is stored, and
  the worker reads the two at different times. It may re-adopt superseded work
  and find the same shares again.
* Shares wait in a queue while their work is superseded, and the control
  thread's idle wait takes shares out and puts them back at the end.
* `submit_share` reads everything the pool sends until its answer comes,
  notifications of new work included, in an order the pool and TCP choose.
* Either thread may fail between any two steps, a signal may come at any time,
  and main must find out, stop the other thread and still print every error.
  Main itself may fail while it renders the startup event.
* The hashes of a scan move from one atomic counter to another while main reads
  both.
* Every field of a header has a byte order of its own, and the share that is
  submitted names fields only: the pool must rebuild the same bytes.

What makes each part correct: no candidate is submitted twice under a
generation, nothing is submitted for superseded work, every found share is
accounted for, new work reaches the worker, queued shares leave the queue, a
stop ends the program (control, worker, queue); every submit gets its own answer
and no line is lost (client); one shutdown, no error unreported, the right exit
code (main). For the pure parts: extranonce2 and nonces walk their ranges
exactly, targets and byte orders are those of the specification.

The list of hazards, each at its line and with the properties that answer it,
is in `PROJECT.json`.

## 2. The modules

| Module | Models | Checked by |
|---|---|---|
| `MinerPipeline` | control thread, worker thread and the objects they share | `MCMinerPipeline` |
| `ShareDelivery` | the abstract promise of the share path | as property `DeliverySpec` |
| `Messages` | JSON lines to typed messages, requests to JSON | through the next two |
| `StratumClient` | the client on its socket, the pool as its environment | `MCStratumClient` |
| `Mining` | `MinerPipeline` and `StratumClient` composed: the miner against a pool | `MCMining` |
| `Lifecycle` | main thread, event queue, errors, stop requests | `MCLifecycle` |
| `ScanTelemetry` | the scan step by step, the counters it feeds | `MCScanTelemetry` |
| `Uint256` | limb arithmetic, as operators | through the next three |
| `DivMod` | `divmod` step by step, and the operands of `Uint256` | `MCDivMod` |
| `Target` | compact and share targets, comparison of a digest | `MCTarget` |
| `Hex` | hexadecimal text of `hex.cpp` | through the next two |
| `TargetHex` | `hex.cpp` applied to targets and words | `MCTarget` |
| `TargetText` | the text conversions of `uint256.hpp` | `MCTarget` |
| `Sha256` | how messages become blocks and digests | through the next two |
| `WorkAssembly` | from job to hashed words and to the submitted share | `MCWorkAssembly` |
| `RejectedShareRepro` | the diagnostic's variants | `MCWorkAssembly` |
| `Coinbase` | the coinbase decoder, script types and addresses | `MCCoinbase` |
| `StratumClientProofs` | theorems about `StratumClient` and `Messages` | tlapm |
| `LifecycleProofs` | theorems about `Lifecycle` | tlapm |
| `ScanTelemetryProofs` | theorems about `ScanTelemetry` | tlapm |
| `AssemblyProofs` | theorems about the operators of `Sha256`, about `WorkAssembly` and about `RejectedShareRepro` | tlapm |
| `Uint256Proofs` | lemmas about the operators of `Uint256`, for the next two | tlapm |
| `DivModProofs` | theorems about `DivMod` | tlapm |
| `TargetProofs` | theorems about `Target` and `TargetHex` | tlapm |
| `MiningProofs` | theorems about `MinerPipeline`, with the refinement of `ShareDelivery`, and about `Mining`, from those about its two parts | tlapm |

### MinerPipeline

One action is the code between two accesses to shared state. `cpc` and `wpc`
say where each thread is:

| `cpc` | code | `wpc` | code |
|---|---|---|---|
| `startup` | `run_until_ready` | `wait` | stop check of `wait_for_published_work` |
| `publish`, `store` | `publish_latest_work` before and after `fetch_add` | `lock` | the locked look at `published` |
| `loop` | head of the control loop | `chunk` | head of the chunk loop |
| `drain`, `await` | `drain_share_queue`, waiting in `submit_share` | `scan`, `hash` | head and body of `scan_nonce_range`'s loop |
| `poll` | `StratumClient::poll` | `found` | `handle_found_share` between count and push |
| `idle`, `hold` | `control_idle_wait` before and after its pop | `result` | `handle_scan_result` |

The hash of a header is the constant `Hash[job][extranonce2][nonce]`, a target
the constant `ShareTarget[difficulty]`: theorems hold for all of them. Work
that cannot be built (`make_work_state`, `expand_compact_target` or
`share_target_from_difficulty` throws) is the sets `BadJobs` and
`BadDifficulties`. The pool is whatever a read returns; main is reduced to the
two stop requests, in the order the code makes them. Events are left out except
`StaleShareDiscardedEvent`, which `stale_discarded` counts, because it is one of
the fates of a share. The history variables `submitted`, `stale_discarded` and
`lost` record what left the program.

Bounds: `MaxGeneration` limits publications (guard of `PollNewWork`) and
`MaxFound` limits how often shares of superseded work are found again (guard of
`WorkerAdopt`: superseded work is re-adopted only while fewer than `MaxFound`
shares were found; current work always is). `WorkerExhausted` stands for an
extranonce2 of fewer than eight bytes; a counter of eight bytes wraps after 2^64
steps of 2^32 hashes, which no run of the program reaches (`NextCounter` in
`WorkAssembly` has the wrap).

### ShareDelivery

Current shares are open until delivered, never delivered twice, never delivered
once superseded, and vanish only by supersession or while the program closes.
`MinerPipeline` implements it with `open` mapped to the current shares in the
queue or in `control_idle_wait`'s hand, `delivered` to `submitted`.

### Messages

A JSON value is a record of its type and content, an object a function from
member names; `std::optional` is a set with at most one element. Each parser
checks what the code checks: types of all parameters, the number of them, the
sign of the extranonce2 size, and whether an id fits an `int` (`IntMax`).
`parse_incoming_message` tries them in the code's order, so that a malformed
notification falls through to the parsers of responses as it does there. Of a
job's strings only the id is kept; the others are checked for being strings.

### StratumClient

A line is one or more pieces on the wire (`PiecesPerLine`). The socket's receive
buffer is `kernel`; `ReadSome` moves any number of pieces to `buffer`, as
`read_until` may, and `ConsumeLine` is the `getline`. A line is kept by what it
says; `Json` is the value it spells and `Messages` decides what the client makes
of it. `Noise` chooses the lines that carry nothing: text that is no object, a
notify with a parameter missing, and a response whose id is that of a share only
after a conversion to `int`. The pool answers outstanding requests in any order,
pushes work at any time, closes the connection or resets it (losing what was not
yet read). `MaxSubmits` bounds the shares, `MaxPushes` the unsolicited lines. The
control loop is a free choice between `poll` and `submit_share`, which contains
every order in which the real loop calls them. `submit_share`'s exception for an
empty worker name is left out: the user that main passes to `authorize` is taken
not to be empty.

### Mining

`MinerPipeline` lets a read return anything; here its control thread calls
`StratumClient`. The modules share `subscribed`, `current_job` and `difficulty`. A
step in which the thread calls the client is the client's step together with
what the thread makes of it (`PollsLine` sets `cpc` from `poll_result`,
`ReadsAnswer` counts the verdict); the other steps are those of one module.
`swallowed` is history: `submit_share` has read what `poll` would have published.

With `Unrestricted` the environment is that of the two modules: the pool pushes
jobs, difficulties and noise, answers in any order, may refuse the authorization
and may reset the connection, and SIGINT comes at any time. The theorems are
about both. Without it, as in the run, the pool keeps an unsolicited line for a job, never
repeats the initial difficulty, answers in order, authorizes and closes without
reset, and SIGINT comes while the control thread waits for the pool: that keeps
liveness and refinement within TLC's reach. Each module's own run has what is left
out.

`PipelineSpec` is the refinement: the composition takes no step that
`MinerPipeline` does not have, so the theorems about the pipeline, and its
refinement of `ShareDelivery`, hold of the miner with its client too. It is
proved, not only checked (section 4). `MiningAssumption` relates the bounds of the
two modules: what the client may still read and submit never runs into a bound of
the pipeline.

### Lifecycle

Threads push ordinary events, throw, record the exception under `error_mutex`,
push the error, obey their stop token and announce their exit; main's turn is
split at every shared access (`mpc`). `MaxEvents` bounds the ordinary events of
each thread. Rendering the startup event decodes the pool's coinbase and may
throw (`RenderFails`): the exception leaves main's loop, the destructors of the
two `std::jthread`s ask each thread to stop and join it, in the reverse order of
their construction, and main returns 1 (`mpc` from `unwind_*` and `join_*` to
`aborted`) without printing what the event queue still holds.

### ScanTelemetry

The worker's `pc` follows `scan_nonce_range` from store to store: one action for
the hash, the progress store, the staleness check, the evaluation, the callback,
the final store, and the two steps in which `run_scan_chunk` moves the scan's
hashes to the total. The chunk and interval sizes are constants with the
divisibility the code's numbers have (2^32, `kNonceChunkSize`, 16,384).
main's `snapshot_counters` loads the two counters of the status line in two steps
(`LoadFirst`, `LoadSecond`), with any steps of the worker between them. The loads
are relaxed, so either counter may be the first. `StatusLine` is what the line
shows if the second load comes now.
`computed` and `overdue` are history: the hashes computed, and those spent on
work although newer work was stored. So are `computed_then` and `scan_ended`: what
was computed at main's first load, and whether a scan was being added up since. `MaxGeneration` and `MaxScans` bound
publications and scans; a worker that used up its scans waits at `chunk`.

### Uint256 and DivMod

A number is four limbs, as in the code; the width of a limb and of a byte are
constants, so that TLC can take every operand. The code's loops are functions
over the limb index. `DivMod` chooses two operands and runs `divmod`'s paths, the
bitwise one bit by bit; the other operations are compared with integer
arithmetic on the same operands (`Value` is the number a limb array stands for).

The machine's `&` and `|` on limbs are sums over their bits (`LimbAnd`, `LimbOr`)
and not operators of the community module `Bitwise`, whose definitions the provers
cannot unfold; the loops over bytes are sums as well (`SumOf`). Shifts, products
and carries are reduced modulo the width of the intermediate the code uses.

### Target

Both target calculations of `publish_latest_work`, on `Uint256`: a behaviour is one
of them, for one compact target or one difficulty. A difficulty is counted in
halves of the fixed-point unit, so that `llround` has ties to round. `llround`
gives a signed number: from half a limb's range up its result is either of the
two values processors deliver.

### Hex, TargetHex and TargetText

A character is the value of its digit; any other number is a character that is
no digit. `Hex` has the conversions of `hex.cpp`; a function that throws returns
the empty set. `TargetHex` applies them to targets and to the 32-bit words in them,
with `to_hex_be_fixed`. `TargetText` has `to_hex_be`, `from_hex_be`,
`parse_base` and both stream operators in their three modes, decimal and octal
output with its chunks of one limb. The bits of a digit, of an octal digit and the
decimal base are constants, so that a chunk holds several digits at the reduced
width. Upper and lower case are one digit; `uppercase` and `showbase` are left
out. They are applied to every target that `Target` computes. The miner itself calls
only the fixed form; of the stream operators it has no caller at all.

### Sha256 and WorkAssembly

A byte is the pair of its source and its place there, or a known number, so every
permutation shows. Compression is a constructor: two digests are equal only if
what went into them is. Everything around it is the code's: the padding, the
split into blocks, the midstate, the blocks the miner pads by hand. The reference
is the padding rule of FIPS 180-4 and `PoolHeader`, the pool's reconstruction as
section 8 of the protocol document describes it.

The state is the worker's `WorkState`, the coordinator's `prepared_` and the work
the scan writes nonces into, with the steps that change them. The words
`block_words_from_bytes` reads behind the header are "anything".

`FieldsAssumption` says what a job's fields are: four bytes where
`u32_from_hex_be` demands them, 32 where a conversion to `HashBytes` does, byte
strings elsewhere; that two jobs have two ids is the pool's part, which
rebuilds a header from the id. Loops over data (the Merkle fold, the blocks of a
message) are recursive functions, so that theorems can be proved about them.

### RejectedShareRepro

The diagnostic hashes a header's 80 bytes on the general path under every choice
of byte orders, and calls one of them the miner. It is applied to every share
`WorkAssembly` finds.

### Coinbase

`decode_coinbase`, one action per field, on bytes the pool chose; a read throws or
returns a value and the next position. The widths of bytes, integers and bech32
groups are constants. `reserve` throws for counts that no transaction of the
input's size can have (`ReserveLimit`). The history variables `witness` and
`widths` keep what the code discards, so that the reference, `Serialize`, can
write back what was read. An address is its groups, without "bc1" and the
alphabet.

## 3. The runs

| Run | Instance | Shows |
|---|---|---|
| `pipeline` | 2 jobs, 2 difficulties and one out of range, 2 publications, 2 extranonce2 values of 2 nonces | all safety properties of the share path and the refinement of `ShareDelivery` |
| `mining` | one job, a new difficulty and one that is refused, one share each, 2 unsolicited lines, 2 publications | the composition implements the pipeline; published work, counts, liveness |
| `pipeline_clean_jobs` | as `pipeline`, job 2 with `clean_jobs` | violation: see findings |
| `client` | 2 jobs, 2 difficulties, 2 shares, 2 unsolicited lines, three kinds of noise | no line lost, no work forgotten, verdicts match |
| `client_refusal` | 1 job, 1 share | violation: see findings |
| `lifecycle` | one ordinary event of each thread | one shutdown, every error printed, exit code, termination |
| `scan` | 3 publications, 6 scans, two chunks of 4 nonces, interval 2 | counters, results, cost of superseded work |
| `divmod` | limbs of 2 bits, all 65,536 pairs of operands | the limb arithmetic and all division paths |
| `target` | limbs of 6 bits, bytes of 2; 16 exponents, all 32 coefficients, all difficulties | the two target formulas, the comparison and the text conversions |
| `target_range` | as `target` | violation: see findings |
| `assembly` | 2 jobs, 4 values of extranonce2, 16 nonces in chunks of 6 | the pool's hash of a submission is the worker's, and so is the diagnostic's |
| `coinbase` | bytes of 3 bits; 32 transactions in every spelling of their sizes, cut, continued and altered | the decoder reads what was written, and nothing else |

Why the bounds are enough. In `pipeline` two publications give superseded, current
and not-yet-stored work at once; two nonces of two extranonce2 values give the end
of a chunk, the step to the next extranonce2 and its exhaustion; every hash of
extranonce2 0 is a share, so queues of several shares and finds of the same
candidate after a re-adoption happen. In `mining` a second
notification, a new difficulty or one that is refused may come before, during and
after the submit of a share of the first, and be read by `poll` or by
`submit_share`, and a difficulty even before the client is ready; lines are whole
(`PiecesPerLine` 1) because `client` cuts them. In `client` the unsolicited lines
are one notify, without which the client never becomes ready, and one more of any
kind, and three handshake answers may all arrive as late as during the second
submit; `IntMax` 7 leaves room for all ids. In `lifecycle` one event of each
thread is enough to have an ordinary event ahead of, between and behind the
errors, exits and the shutdown. In `scan` a publication may fall into every step
of a scan, on and between the checks, and a third one into the re-adoption after
the second; a block that is a share and one that is none exist. Main's two
loads may be any number of steps and scans apart. In `divmod` two
bits are the least for which a limb has bits that are neither first nor last;
every pair of numbers is tried, so every pattern of carries, borrows and quotient
bits over four limbs occurs, and every shift distance. In `target` a number has
twelve bytes: exponents below, at and above three, in the topmost byte and beyond
it, and every difficulty the range check admits or rejects; a hexadecimal digit
has one bit, an octal one two and the decimal base is three, so that a chunk has
several digits and, as in the code, does not fill its limb. In `assembly` the chunk size does not divide the
range, so the last chunk is cut; the coinbases have 55 and 56 bytes, the last
length whose padding fits the block and the first that needs another one; one job
has two Merkle branches and one has none. In `coinbase` integers have one, two and
three bytes, so that sizes wrap within reach of a byte string; there is a script
of every type and one that just misses each, and every single byte of every
transaction takes every value.

The properties; a module's type invariant `TypeInv` is part of its inductive one:

* `UniqueSubmissions`, `ShareProvenance`, `SubmissionsInOrder`,
  `SharesAccountedFor`, `DeliverySpec`: what happens to a share between
  `handle_found_share` and the pool. `SharesAccountedFor` also bounds what can be
  lost: at most one share, by an idle wait that a stop ends or a submit that
  throws.
* `PipelineInv`, `ClientInv`, `LifecycleInv`, `ScanInv`: the inductive invariants
  of the proofs, checked as they stand.
* `OnlySubmitsSwallow`, `CountsArePools`, `PipelineSpec`: what the miner publishes
  and counts is what its client read, but for what `submit_share` swallows.
* `SocketDrains`, `SubmitReturns`, `QueueDrains`, `NewWorkAdopted`,
  `StopCompletes`: liveness of the miner against a pool that answers. Shares are
  finitely many in an instance, so `SocketDrains` and `QueueDrains` say that the drain
  loop ends when the worker stops finding shares, and nothing of one that never does;
  and `SocketDrains` is about the socket, not about lines already in `buffer_`.
* `StreamConserved`, `WorkIsLatest`, `VerdictsMatch`.
* `ExitIsLast`, `LeftoversAreShutdown`, `ErrorsReported`, `ProgramEnds`.
  `LeftoversAreShutdown` says that the shutdown is asked for once, and in passing
  that the loop over the leftovers, which looks for errors, never finds one.
* `StatusAccurate`, `FinalTotalsExact`, `ResultExact`, `StaleWorkBounded`. The
  first is about a line of `print_status_line`, whose two counters main loads one
  after the other: it may miss the scan that `run_scan_chunk` adds up between the
  loads, or count it twice, but is never off by more than that one scan, and
  without one it lags by at most a check interval.
* `LoopInv` (the invariant of the long division), `DivisionExact`,
  `OperatorsExact`, `CompactExact`, `TargetExact`, `HexExact`, `TextExact`.
* `SubmissionReproduces`, `InStep`, `ModelIsMiner`.
* `DecodeExact`, `AddressExact`.

Each has a faulty variant of a definition beside it ("Faulty variant" in the
modules) under which TLC finds it violated.

### Fairness

* Scheduling, in `MiningFairSpec`: `WF` on the steps of the control thread, of the
  worker and of main's stop requests, which the operating system's scheduler and
  main's 100 ms turns justify. No strong fairness is used. The worker's is
  `WorkerGoesOn`: an instance has a handful of nonces where the code has 2^32 for
  each extranonce2, so running out of them is not forced on a worker that would
  have gone on to see a stop or newer work.
* The pool, in `MiningFairSpec`: announces a first job and answers requests. This
  is an assumption about the environment, not about the code. Without it
  `StopCompletes` is false: a blocking read looks at no stop token. Nothing is
  assumed of what a read returns; that `submit_share` comes back is
  `SubmitReturns`, a property.
* In `Lifecycle` a thread that was asked to stop notices it (`WF_vars(Obey(t))`);
  `StopCompletes` of `mining` is what discharges that assumption.

### Findings

* `pipeline_clean_jobs`: `submit_share` drops the `PollResult` of the messages it
  applies (`stratum_client.cpp` 257). A `clean_jobs` notify that comes before
  the answer changes the client's job without a publication: queued shares of
  the discarded job are submitted, and the worker keeps mining it, until the
  next invalidating message. The protocol document says of the flag that it
  "indicates whether prior jobs should be discarded"
  (`doc/ckpool-derived-stratum-v1-spec.md` 238).
* `client_refusal`: a `false` answer to `mining.authorize` is taken for the
  response of some submit (`parse_submit_response` comes first in
  `parse_incoming_message`) and ignored. The document says "If `false`, the
  client SHALL treat authorization as failed." (line 176).
* `target_range`: `share_target_from_difficulty` admits scaled difficulties up to
  2^64 - 1, but `std::llround` (`target.cpp` 55) returns a signed number. From
  difficulty 2^31 up its result is unspecified; with either value processors
  deliver, the target is that of a difficulty of about 2^31, too easy by any
  factor up to two. The comment above promises `floor(diff1 / difficulty)`
  (`target.cpp` 40).

Beside these there is one divergence that no run is spent on, because nothing in the
miner reads a `uint256` from a stream: the comment above `operator>>` says "Accepts
optional 0x/0X for hex when basefield is dec, too" (`uint256.hpp` 867), but `0x` is
skipped in decimal mode only (line 885). In hexadecimal mode the `x` is refused, and
with it what `operator<<` writes with `showbase`. `Read` in `TargetText` does what the
code does, and `TextExact` says nothing of this case.

## 4. The proofs

Every theorem holds for all values of the constants that satisfy the named
assumptions of the module it is about, and for nothing more than them.

### The pipeline

Assumptions: `JobsAssumption`, `DifficultiesAssumption`, `BoundsAssumption` (ranges
are naturals, a chunk is not empty) and `HashAssumption` (hashes and targets are
numbers).

* `TypeCorrect`: `Spec => []TypeInv`. `TypeOK` alone is not inductive: that a
  chunk ends inside the nonce range, that the share a thread holds is a share,
  and that a publication carries a job depend on where the threads are, which
  `FlowInv` adds.
* `CandidatesUnique`: `Spec => []UniquenessInv`, an inductive invariant on top of
  `TypeInv`, and from it `SubmissionsUnique`: `Spec => []UniqueSubmissions`. Its
  parts are the argument:
  generations only flow from the counter to the published work to the worker to
  the shares (`GenerationsOrdered`); the worker goes back for work only when its
  own is superseded or it must stop (`ReadoptsNewer`), so that the current
  generation is scanned once; shares of the current generation lie behind the
  worker's position (`SharesBehindWorker`), so that a find is new; a current
  share is in one place only (`CurrentSharesUnique`), so that requeuing
  duplicates nothing; and older shares are never submitted, so that what is
  already in `submitted` stays unique. Shares of superseded generations do get
  duplicated in the queue, when the worker re-adopts the published work between
  `fetch_add` and the store: the staleness check of the drain is what keeps
  them from the pool.
* `PipelineCorrect`: `Spec => []PipelineInv`, which adds provenance
  (`ShareProvenance`, and `WorkerProvenance` for the work that is being scanned),
  order and accounting. `SubmissionsInOrder` needs `UniquenessInv` because the
  queue itself is out of order after a requeue; `SharesAccountedFor` needs
  `LossEndsControl`, that a share is lost only by a control thread that is about
  to end, so that it happens once. `SharesProvenanced`, `SubmissionsOrdered` and
  `NothingUnaccounted` are its conjuncts.
* `ImplementsDelivery`: `Spec => DeliverySpec`. Each action is one of `Find`,
  `Deliver`, `Supersede`, `Lose`, `Close` or a stutter under `PipelineInv`; uniqueness is what
  makes the removal of a share from the mapped set a removal.

One step lemma per action, one part of the invariant at a time; the facts about
sequences they rest on (`TailUnique`, `AppendUnique`, `AppendInjectiveSeq`, ...)
are lemmas at the head of the module.

### The scan

Assumption: `ScanAssumption` (the chunk and the check interval are not empty, and
divide what they divide in the code). `ScanCorrect` proves `ScanInv`. None of the
four properties is inductive: each needs to know, for every place the worker can
be at, which hashes are in which counter. `CountInv` has that, with the two
steps between which a scan is counted twice; `ResultInv` relates a result to
the nonces it covers, and `OverdueInv` relates the hashes spent on superseded
work to the distance from the last check. `SnapshotInv` says what the value of
main's first load is still worth: without a scan that was added up it is as good
as one read now, and any number of scans added up since leave it wrong by at most
one (`TotalMoves`: the total never falls, and a scan has at most `ChunkSize`
hashes). `StatusLineAccurate`, `FinalTotals`,
`ResultsExact` and `StaleWorkIsBounded` follow from it.

### Start and end

Assumption: `MaxEvents` is a natural number. `LifecycleCorrect` proves
`LifecycleInv`: what each step of a thread has left in the log of all events
pushed (`ThreadInv`, `LogInv`), and what main has made of the part it has popped
(`MainInv`). `ExitsAreLast`, `OnlyShutdownIsLeft` and `ErrorsAreReported` follow.
The log is a sequence of two writers, so the argument is about positions: a
thread's exit is behind all its events, and main leaves its loop only when both
exits are among those it has popped.

### The client

Assumptions: `ClientAssumption` (lines have pieces, and `int` has room for the ids of the bounded
number of requests) and `IntAssumption`. `Parsed` says which message each line is
parsed to; it is the only theorem that looks into `Messages`. `ClientCorrect`
proves `ClientInv`: `CallInv` has what each call relies on (which requests have
been sent and answered, and which id is next), and the three properties are
inductive on top of it. `StreamIsConserved`, `WorkFollowsThePool` and
`VerdictsAreAnswers` are their theorems. They hold for any number of pieces per
line, any cut of the stream, any order of answers and pushes, and a connection
that is closed or reset at any time. `AnswersAreUnique` proves `AnsweredOnce`: the
pool has one line for each id, none while the request is outstanding, and no
request is open whose verdict is known.

### The composition

Assumption: `MiningAssumption`, with those of the two parts. `Mining` has its client
by `Client == INSTANCE StratumClient`; the theorems about the client are an instance
of their own, and the first lemmas of `MiningProofs` say, action by action, that
the two are the same.

* `ImplementsClient`: `MiningSpec => CP!Spec`. Every step of the miner is one of
  its client or leaves the client alone, so that `ClientInv` and `AnsweredOnce` are
  invariants of the miner.
* `CallsFitTheLoop`: `MiningSpec => []ControlInv`, what the control thread relies
  on. `CallsFit` couples the two programs: the thread is in `await` exactly while
  the client is in `submit_share`, in `startup` exactly until `run_until_ready`
  returns, and a client that threw leaves it no step. `LinesPublished` counts: the
  miner publishes no more often than it consumes a line that the pool pushed, which
  keeps it within `MaxGeneration`.
* `ImplementsPipeline`: `MiningSpec => PipelineSpec`, from `ControlInv`. The cases that need
  an argument are the lines: one read in `poll` is new work, another message or
  nothing to `MinerPipeline` according to its `PollResult`, which is sound because
  a client that operates is already subscribed (`ReadyInv`).
  `MinerDelivers` draws the conclusion: `PipelineInv` and `DeliverySpec` hold of the
  whole miner.
* `PublishedIsClients`: `MiningSpec => []OnlySubmitsSwallow`, inductive with
  `ControlInv`: poll's verdict on a line says whether the job or the difficulty
  changed, whatever the line was.
* `CountsAreThePools`: `MiningSpec => []CountsArePools`. `SubmitsNumbered` ties ids to shares and the
  shares in flight to the place of the control thread; `VerdictsCounted` says
  that the accepted shares are the accepting lines with the ids answered so far.
  That no line is taken for two shares, nor a share accepted by two lines, is
  `AnsweredOnce`; the rest is counting.

### Headers, hashes and the diagnostic

The first part of `AssemblyProofs` is about operators: nothing in it depends on the state. A byte string
is a function on `1 .. n` (`IsBytes`); the lemmas say what joining, cutting,
reversing and padding do to one. On them rest

* `SameDoubleHash`: the miner's double hash, whose second message is one block
  padded by hand, is the double hash of FIPS 180-4, for strings of every length;
* `SameRoot`: `merkle_fold` is the pool's Merkle root for branches of every length;
* `HeaderHash`: a midstate over the first 64 bytes and a second block that is built
  once and patched with each nonce give the hash of the whole header.

`AssemblyCorrect` proves `AssemblyInv` (the run `assembly` checks `InStep`, its last
part): nonces stay in the range and in the chunk, the template that was hashed is
the one with the current nonce in it, and what is found is the share of the nonce
hashed last. With `HeaderHash` it gives `SharesReproduce`, `Spec =>
[]SubmissionReproduces`: for every job, every size and value of extranonce2 and
every nonce, the pool rebuilds from the submitted fields a header with the very
hash the miner found. `WorkInStep` is `Spec => []InStep`. `ModelReproduces` is
half of `ModelIsMiner`: every byte-order model that the diagnostic calls the
current miner's gives the miner's hash. The other half, that no other model does,
is false for fields that read the same in two byte orders; it is checked on
an instance whose bytes all differ.

The assumptions are `FieldsAssumption` and `AssemblyAssumption`; both are stated
with the model.

### Limb arithmetic

Assumptions: `WidthAssumption` (limbs and bytes have bits, and a limb is a whole
number of bytes) and `OperandAssumption`. So the theorems hold of the code's 64 and
8 bits as they do of the 2 bits TLC tries. `Uint256Proofs` works up from the
numbers: powers of two and division by them, what the bits of a number are, that
`|` adds where no bit is common (`LimbOr`), that the loops of carries, borrows and
partial products conserve the number they stand for, how a shift by whole limbs
and one within a limb compose, which bit a bit query finds, and that bytes are the
digits of a number.

* `Operators`: `Spec => []OperatorsExact`, for all operands and all distances.
* `LoopInvariant` and `Division`: `Spec => []LoopInv` and `Spec =>
  []DivisionExact`, both from `DivisionInv`. `LoopInv` alone is not inductive: it
  does not say that the divisor is not zero, nor where the loop stands.
  The step that needs an argument is `DivideBit`: the remainder is below the
  divisor, but its double may not fit four limbs when the divisor is above half
  the range. It does fit: the remainder is at most the number brought
  down so far, and that doubled plus the next bit is a prefix of the dividend, which
  has four limbs.

### Targets

Assumptions: `TargetAssumption`, with those of the limb arithmetic. It names what the
widths have to do with each other: a coefficient fits a limb, a number has at least
six bytes, the fixed point is half a limb and no wider than the four bytes that
difficulty 1 leaves free at the top. The code's widths satisfy all of it.

* `NetworkTarget`: `Spec => []CompactExact`, for every exponent and every coefficient
  below the sign bit, targets that overflow included.
* `ShareTargets`: `Spec => []TargetExact`: the target is the floor of the quotient
  below the difficulty where `llround` overflows (the finding `target_range` is
  about the rest), and a digest meets it exactly if the number its bytes spell is
  at most the target. `hash_meets_target` goes through `from_bytes_le` and the limbwise order; that both
  agree with the numbers is proved for bytes and limbs of any width.

Both follow from `TargetInv`, which adds where a calculation stands.

* `HexText`: `Spec => []HexExact`, from `TargetInv`, `DigitAssumption` and
  `ByteAssumption` (a byte has two digits). Its lemmas are about any number of bytes
  and any word: text of bytes gives the bytes again (`HexAndBack`), its digits are
  the number's (`TextDigits`), and the loop of `u32_from_hex_be` never shifts a
  digit out of a word it has written itself (`BigEndianBack`).

### Induction over data

The library's induction rules take a predicate as a parameter, which the installed
provers cannot instantiate. `AssemblyProofs` and `Uint256Proofs` state induction over
a set instead (`Least`, `Induction`, `UpTo`, `AllNat`: a set of naturals that holds 0
and with each number its successor holds all), proved from the well-foundedness of
`<` on the naturals, and each use defines its set. A recursive function is a
`CHOOSE`; the lemma that a function of its equation exists comes first, by the same
induction. The provers know nothing of `^` on an exponent that is not written out.
That 2 ^ (n + 1) is twice 2 ^ n is proved from the library's theorem that a set of n
elements has 2 ^ n subsets.

### What is model-checked only

* Liveness (`SocketDrains`, `SubmitReturns`, `QueueDrains`, `NewWorkAdopted`,
  `StopCompletes`, `ProgramEnds`): TLAPS does not prove fairness arguments.
* The texts of a number but for those of `hex.cpp` (`TextExact`): `TargetText` has recursive operators, over
  sequences whose length depends on the number.
* The decoder (`DecodeExact`, `AddressExact`): the checksum of an address uses
  `Bitwise`, and that only `ValidTransactions` are read without an exception is a
  statement about the instance.
* The half of `ModelIsMiner` named above.
* The three findings.

## 5. Not modelled

* The compression function of SHA-256: fixed arithmetic on 32-bit words over 64
  rounds, out of TLC's reach and validated by test vectors. A constructor in
  `Sha256`.
* The conversion of a `uint256` to and from floating point, and its literals:
  nothing in the miner uses them.
* The pipeline and the real-width arithmetic together: in `MinerPipeline` hashes
  and targets are constants.
* What events print: wording and layout, the coinbase printout's block height,
  runs of text and amounts, `debug_summary`, and the diagnostics `last_raw_*`.
* Memory exhaustion: both queues are unbounded in the code.
* The destruction of the threads after a regular end, which only joins them.
* The tests and build files; `log.cpp`, `midstate.cpp` and `session.cpp` are empty.

## 6. Plan

Done: the control first, because that is where tests do not reach
(`MinerPipeline`, `ShareDelivery`, `StratumClient`, `Lifecycle`, `ScanTelemetry`,
the first theorems), then the composition (`Mining`) and the pure modules.

The theorems of each component's safety properties, of the refinement of
`ShareDelivery` and of the composition are proved, and so are those of the limb
arithmetic and the targets built on it.

Left: `TargetText`'s conversions as recursive functions, and the decoder with its
checksum apart, so that `TextExact` and `DecodeExact` can be proved too.
