# ASQS in TLA+

TLA+ models of ASQS (the "share-seeded quantum simulation" pool in this
repository), the TLC runs that check them on small instances, and TLAPS proofs of
what matters most for every instance. Paths below are relative to the repository.

## 1. The system

Miners connect over Stratum v1 and submit proof-of-work shares. A verified share
seeds a batch of simulated quantum shots; the batch is stored, re-derived by a
validator, credited in a hash-chained ledger and promoted with its proof.

| Component | State it keeps | Operations | Interacts by |
|---|---|---|---|
| Job factory and share verifier, `JobManager` in `cpp/src/stratum.cpp` | `jobs_`, `job_counter_`, `seen_` | `make_job`, `make_quantum_job` (both prune), `verify_submit` | called under its mutex by the network thread |
| Stratum server, `cpp/src/stratum.cpp` | connections with buffers, `current_diff_`, `last_job_` | accept, lines (subscribe, authorize, configure, submit, ...), broadcasts, periodic job push, idle timeout | TCP; calls the job manager; hands verified shares to the daemon |
| Daemon, `cpp/src/daemon.cpp` | share queue (4096), stop flag, benchmark flag | `on_verified_share`, `shot_loop`, `validator_loop`, `controller_tick`, `run`, `scan_once` | three threads around the queue and the files |
| Difficulty controller, `Daemon::controller_tick` | current difficulty, share window, hashrate estimate | one tick a second | broadcasts through the server |
| Pipeline, `cpp/src/pipeline.cpp` | `notvalidated/`, `outputs/`, staged files | `write_pending` (shot thread), `validate_next`/`validate_file` (validator thread), `cleanup_tmp_files` | files only |
| Ledger, `cpp/include/ledger.h` | `ledger.jsonl`, `next_seq_`, `last_hash_` | `init`, `append`, `verify_chain` | called by the validator thread |
| Shot runner, tableau, circuits, PRNG | none beyond a call | deterministic functions of the seed | called by shot thread and validator |
| Targets and difficulty, `cpp/src/u256.cpp` | none | 256-bit arithmetic, rationals, compact encoding | called by the job manager and the validator |
| Python auditor and CLI, `python/asqs` | none | independent re-implementation, `verify`, `host`, statistics | reads the files |
| Dashboard, `website/serve.py` | index and caches | HTTP answers from the project's files | reads the files |

What is hard here: two threads and an outside world (kills, power failures, failing
disks) act on the same directories between any two system calls; the chain tail is
in memory and the chain in a file; jobs and dedupe keys expire by wall-clock age
while shares for them are under way; difficulty and jobs are pushed while shares
computed for the old ones are on the wire.

What makes each part correct:

- job manager: the texts of a share are accepted at most once; a job is honoured for its
  ten minutes;
- ledger: the file verifies from genesis, at every moment and after every restart that
  reads all of it;
- pipeline: a stored useful batch is never lost, only useful batches are credited,
  each output names its ledger line, batches are handled oldest first and all are
  handled;
- stratum server: a miner's share is judged by the difficulty it was told with the
  job, every subscribed miner gets fresh work;
- daemon: an acknowledged share becomes a batch or its loss is one of the known ones;
- controller: the difficulty stays in its bounds, moves only for a cause, rises while
  the host is behind and settles at the rate asked for;
- targets: the target of a difficulty is the quotient the specification names, or at
  least never above it, for the job manager, the header and the text that the batch
  carries;
- dashboard: an answer is no older than its request, the cache stays within its limit,
  the index catches up with the directory;
- simulation: the tableau computes what the stabilizer formalism says and draws a
  random bit exactly when the outcome is open; the detectors of a noiseless circuit are
  deterministic, and a single error never changes the logical outcome unseen.

## 2. Plan

Order of the modules, most important first; done ones are marked.

1. `JobManager` with `JobManagerProofs` (done).
2. `Ledger`, `BatchStore`, `Pipeline` with `PipelineProofs` (done).
3. `Stratum` with `StratumProofs`: sessions over FIFO wires, composed with the job
   manager (done).
4. `ShareQueue` with `ShareQueueProofs`: the daemon's queue between network and shot
   thread, benchmark window, overflow, shutdown (done).
5. `Powers`, `DiffRat`, `U256` and `Controller` with `ControllerProofs`: difficulties, their texts
   and targets, and `controller_tick` (done).
6. `Pauli`, `Tableau`, `Stabilizer` with `StabilizerProofs`, then `Circuit` and `Shot`:
   the simulation against exact reference definitions (done); `Gate`: the usefulness gate
   (done).
7. `Dashboard` with `DashboardProofs`: indexer and request handlers beside the writers of
   the outputs (done).

Abstract specifications worth stating: the batch store (done), the job manager as what
the server promises of shares (done). The theorems of the shot runner,
for both distances and any number of rounds (done, `ShotProofs`).

## 3. Modules

### JobManager

State: `jobs`, `jobCounter`, `seen` are the C++ members; `now` is the wall clock
(`now_ms`, `now_sec`); `issued` and `accepts` are history. Actions: `MakeJob(d,
quantum)` is `make_job` and `make_quantum_job`, each with its pruning of both maps;
`VerifySubmit(s)` is an accepted `verify_submit`; a refused one changes nothing and
is the operator `Verdict`, with the checks in the order of the code. `Tick` moves the
clock, which is never set back: with that, a key could be pruned before its job.
SHA-256d is the constant operator `Work` (the difficulty the hash of a header meets).
The hex fields are the texts that were sent, and `Reads` is what the header takes of one:
`std::stoul` and the mask of the version bits give several texts one value ("0A" and "0a",
a leading 0x, version bits that are empty or differ outside the mask). `Header` is made of
what is read and `Key` of the texts, as `verify_submit` does it, so one header may be
accepted once for each way of writing it; `TextAcceptedOnce` says that the same texts are
not.

### Ledger

The file is a sequence of lines, each an entry or garbage (text that `jparse`
rejects); `open` says that the last line has no newline. `Loads` and `LoadTail` are
`Ledger::init` after the lines it has read: a file that cannot be opened is a new ledger
to it (`ledger.h:23`), and a read error ends its loop like the end of the file, so that it
may succeed with any head of the file.
`AppendOk`, `AppendNothing` and `AppendTorn` are the outcomes of `append`,
`VerifyChain` is `verify_chain`, `LoseSuffix` what a power failure leaves of a file
that was never synced. A hash is the history it commits to.

### Pipeline

Two threads over the directories. The shot thread: `StageBatch`, `RenameBatch`,
`SyncPending` are the staging, rename and directory sync of `write_pending`;
`WriteFails` its error path. The validator thread: `Pick` and `PickUnreadable` are
`validate_next` up to the verdict of `validate_file`; `Reject` deletes an invalid or
useless batch; `Credit` and `CreditFails` are the ledger append; `StageOutput`,
`RenameOutput`, `SyncOutputs`, `UnlinkSource` are the promotion, `OutputFails` its
error path. Between any two steps the process may be killed (`Kill`), the machine may
fail (`PowerLoss`), and the daemon starts again (`Start`: tail, sweep, perhaps another
circuit) or refuses to (`StartRefused`).

System calls fail where the code checks them and where it does not: a failed
`fsync_dir` is ignored at `pipeline.cpp:130` and `410` (`SyncPending`, `SyncOutputs`), a
failed unlink in `OutputFails`, in `DropStaged` and in the sweep (`SweepFails`), a
directory that is not listed or a file without a `stat` in `validate_next` (`Listed`), and
a ledger that is not read to its end at a start. `durPending` and `durOutputs` are the
parts of the directories that a directory sync put on the disk: a sync that succeeds
covers the renames and unlinks so far, as POSIX has it. The many content checks of
`validate_file` are one verdict: for a batch the daemon itself wrote they differ only
in the circuit it was written under and in the gate (`Useful`). `Audited` is the
auditor's part: the cross-check of a promoted record with the ledger in
`verify.py`, which reads the file line by line, stops at the first line with the seq and
fails at a line that is not JSON.

### Gate

`evaluate_gate` with the default policy, on batches of shots with their detectors and
outcomes. `MCPipeline` gives its batches contents and takes the useful ones from the
gate (`UsefulBatches`): a noisy memory batch with two syndromes, one whose
detectors always fire alike, and a random Clifford batch with two outcomes.

### BatchStore

What the pipeline promises, without files, threads and crashes: batches are stored
once, credited while stored and only if useful, released only when credited, and
gone for good. `Pipeline` implements it with `phase`, `credits` and `released`
computed from the directories, the ledger and the outputs.

### Stratum

The network thread over its connections, with an instance of `JobManager` inside.
`conn`, `inbuf`, `currentDiff`, `lastJob` are the C++ members, `reading` says that
`on_readable` is in its line loop. `BroadcastQuantumJob` is the first job of
`Daemon::run`, `BroadcastDifficulty` a retarget of the controller, `Accept`, `Receive`
and `Housekeeping` are `accept_new`, the recv loop of `on_readable` and
`housekeeping`; `HandleSubscribe`, `HandleAuthorize`, `HandleOther`, `Throttle` and
`HandleSubmit` are `handle_line`, each with `TakeLine`, the step of the line loop.
A verified share changes the job manager by `JM!VerifySubmit`.

The wires are outside the repository, and so are the miners: `up[c]` and `down[c]` are
FIFO; what one handler sends to one miner is one item with a difficulty, a job, or
both. A miner subscribes once and may authorize before or after it hears of a job; it
mines the last job it heard of at the difficulty it was told with it, never sends a
nonce twice for one clean_jobs, and may vanish. A repeated subscription, two equal
extranonces out of 2^32, limits on the length of lines and buffers, and send errors
other than a closed connection are left out. `run_once`'s dummy job is not reached
from the daemon, which broadcasts a job first.

### ShareQueue

The three threads of the daemon. The network thread (`main`): `CountShare`,
`DropShare`, `PushShare` are the three ends of `on_verified_share`, `NotifyOne` the
notification behind the lock; `EndBenchmark` is what `controller_tick` does at the end
of the benchmark; `LeaveLoop`, `SetStop`, `NotifyAll`, `JoinShot`, `JoinValidator` are
the end of `run`, `Throw` its exception path, on which `~Daemon` joins threads that
nobody stopped. The shot thread: `ShotLoop` is the head of the loop, `ShotCheck`,
`ShotBlock`, `ShotTimeout` are `wait_for` with its predicate, `ShotLook` the two tests
behind it, `ShotPop` and `ShotRun` the rest. `stop_` is set without `qmu_`, so that
`SetStop` and `NotifyAll` may fall between `ShotCheck` and `ShotBlock`: the
notification is then lost and the timeout ends the wait. The simulation and the write
of a batch are one step; `Pipeline` has its parts.

### DiffRat, U256, Controller

`DiffRat` is the rational of a difficulty with its texts: a text is the number its
digits spell, its decimals, and whether it has an exponent. `Parse` and `ToString` are
the two conversions of `u256.cpp`, `Printed` the `"%.9g"` of the controller, which is not
the inverse of `Parse`: it rounds and turns to an exponent. `U256` has the limb
arithmetic with its widths (what `rem << 32` drops is dropped): `Carries` and
`Remainders` are the variables that the loops of `mul_small` and `div_small` hand from
limb to limb, `Target` is `target_from_difficulty`, and the compact form is stated on
bytes. The powers of ten and of a byte are tables (`Powers`), since the provers know
nothing of `^`.

`Controller` is `controller_tick`: `StartBenchmark`, `AwaitBenchmark` and
`EndBenchmark` are its ends while `benchmarking_`, `StartWindow`, `AwaitWindow`,
`Raise` (the emergency) and `Evaluate` with `Follow` (the adaptation) those
afterwards; `Counted` is what `on_verified_share` adds before a tick. `diff` is
`current_diff_` and `told` what the server announces. The farm and the load of the host
are the environment: a steady farm finds what its hash rate yields at the announced
difficulty, give or take a share, an unsteady one anything, and `behind` (more than 128
queued or 256 pending) is open at every tick. Moments are kept as ages.

### Dashboard

`serve.py`: one indexer thread (`ReadLedger`, `List`, `Parse`, `Enrich`, `CountRow`,
`Rest` are the steps of `_rebuild`) and request handlers that share `gz_cache` and
`gz_order` without a lock (`Request` to `Send` are the operations of `_serve_batch`;
the interpreter may switch between any two). The writers are `Credit` and `Promote` of
the pipeline and `CrossCheck` of `reference.py`, which replaces an output by a rename. A
file's content, like its time and size, is its version.

### Pauli, Tableau, Stabilizer

`Pauli` is the reference and models no code: Pauli operators with exact phases, the
images of X and Z under each gate, and the stabilizer group before and after a
measurement. `Tableau` is `tableau.cpp` as operators on the rows: a mask is a set of
qubits, a gate the body of its loop over the rows, `Mz` the two branches of `mz` with
each outcome the generator may give, `SolveDeterministic` the two phases of
`solve_deterministic`; its pivots are chosen in any order, which the comment in the
code says does not matter. `Stabilizer` drives `rows_` by any sequence of gates,
measurements and resets beside `group`, the exact state: every circuit that
`build_circuit` can make of the instructions of a random Clifford circuit, and more.

`OutcomesExact` fails (section 4) and the other properties hold all the same: the rows
without their signs are exact, and the signs, right or wrong, agree with one another, so
that an outcome is repeated.

### Circuit, Shot

`Circuit` is the surface code part of `build_circuit`: the checks, the self-check over
GF(2) (the rank of the masks is stated as the independence of their sets), the program,
the detectors and the observable. Measurements are numbered by their place in the
program, as `midx` does. `Shot` is `run_shot` over that program, one step for an
instruction with the errors drawn behind it. Which outcome a random measurement gives,
and whether and which error is drawn, is open; the generator and the probabilities of
the noise are left out. No program has a RESET, so `Shot` has none.

## 4. Runs

Runs with expected result "pass":

| Run | Shows |
|---|---|
| `job_manager` | no text accepted twice, retention, and the key cover they rest on: 2 jobs, 2 connections, retention 2, clock to 4, so that each map is pruned while the other job and its keys live; a nonce that meets the targets can be written in two ways, and its header is accepted under both |
| `pipeline` | no loss, the chain and where it may break, a line and the auditor's check for every output, bounded credits, no stale staged files, oldest first, every pending batch handled while the daemon runs, and the refinement: 2 batches (one useless), 2 circuits, and any two of the faults, alike or not, at any steps: kill, power failure, torn append, failed call, ledger or directory not read to its end |
| `share_queue` | the limit, the fate of every verified share, its place in the order, and three liveness properties (a queued share gets its batch, a stop returns, the benchmark ends): a queue of 2, 5 shares, both difficulty modes, with and without benchmark, a signal or an exception at any moment |
| `stratum` | honest shares, difficulties and current work: 2 connections (interchangeable), a retarget between two jobs, one nonce that meets both difficulties or one |
| `stratum_time` | staleness, the refinement of the job manager, and every line handled: 2 connections of which one at a time may be open, a flood limit, miners that leave, the clock past retention, idle limit, push interval and flood window |
| `controller` | bounds, targets within the floor, causes, backlog and settling: difficulties from 2 to 16, a start at 4, a word of 768 that eight times the largest numerators exceed, farms of 10 and 50 (within the bounds and beyond the upper one), with and without benchmark, the host behind at any tick |
| `dashboard` | fresh answers, a bounded cache and an index that catches up: 2 outputs of which one is old and damaged, 2 versions, 2 handlers, 2 requests, a cache of 1 |
| `stabilizer` | the rows generate the exact group up to signs, a bit is drawn exactly when the outcome is open (and the elimination ends at zero where it is not), a measured value stays: 2 qubits, every sequence of gates, measurements and resets of any length |
| `shot` | quiet without errors, and no single error flips the observable in silence: distance 3, 2 rounds, every place and kind of one error, every choice of random outcomes with at most 2 ones |

Runs with expected result "violation", each a disagreement between what the
repository says and what the code does (details under "findings" in PROJECT.json):

| Run | Shows |
|---|---|
| `stabilizer_signs` | CNOT and the products of rows lose signs: H 0, S 0, CNOT 0 1, S 1, CNOT 0 1, H 0 leaves qubit 0 in the state 1 and the tableau measures 0 |
| `controller_division` | an emergency takes 2.6 to 208 / 10, whose numerator is beyond a limb, and the target is below floor(MAX_TARGET * den / num) |
| `controller_text` | a slow farm's desired difficulty is printed with an exponent, cannot be read back, and becomes the default difficulty |

An emergency may lower the difficulty. `cpp/src/daemon.cpp:241` says "Emergency: host is
behind -> raise difficulty hard.", and `num * 8` at line 243 is computed in 64 bits: from
a numerator of 2^61 on it wraps. A difficulty with nine decimals, such as 0.001234567
(1234567 / 10^9), has such a numerator at 2.3 * 10^9 and passes it after some fourteen
emergencies in a row, well below the default upper bound of 2^40. The run `controller`
reaches the wrap; `BacklogRaises` is stated for products that fit (`Wraps`) and
`TowardsRate` names the wrap as a cause of a fall. Without these two exceptions TLC finds
both violated.

Behaviours of the code that the models contain and no property forbids, since no text
of the repository promises otherwise: a torn append leaves a file with which the next
start is refused (`StartRefused`); a kill or an I/O error between credit and promotion
leaves a credit without an output, or a second credit; authorization repeats the job
with clean_jobs, so that a share found between subscription and authorization is found
again and refused as a duplicate; a header is accepted once for each way of writing its
fields; a failed sync of `outputs/` and a power failure after it lose the batch
(`forfeited`); a power failure may keep an output and take its unsynced ledger line;
batches of one millisecond are handled in the order of their names; a window without shares leaves the difficulty as it
is, so that one that no share meets is never lowered; at the upper bound an emergency
changes nothing and the window is evaluated as any other; a
batch of one shot is never useful; an output whose name was taken is listed without its
ledger line; `indexing` becomes false for good after the first pass of the indexer.

A start that cannot open the ledger, or not read it to its end, goes on with a tail that
does not fit the file, and the next line breaks the chain: `ledger.h:2-3` says "each
entry's prev_hash = previous entry's entry_hash", and `verify_chain` refuses the file
from then on. The run `pipeline` reaches this. `ChainVerifies`, and the auditor's check in
`OutputsAudit`, are stated for starts that read the whole file (`AllRead`), and
`BrokenOnlyByMisreads` says for all others that nothing else breaks the chain. Without
`AllRead` TLC finds `ChainVerifies` violated by a credit, a kill, such a start and a
credit.

The division of a target drops bits when the divisor is above 2^32 (`rem << 32`,
`cpp/src/u256.cpp:65`), which `u256.h:2`, `u256.h:25`, `u256.cpp:144` and `PROOF_SPEC.md:59`
do not say. An emergency makes such a divisor of a difficulty whose nine digits begin
above 5.36 times a power of ten, as 6.12345678, and an operator's text with nine decimals
may be one at once. `TargetFloor` states what is promised and fails
(`controller_division`); `TargetWithinFloor` states what is left of it: a share that the
code accepts always meets the floor, and up to 2^32 the target is the floor. Above, the
target made from the text of a batch may also differ from the job's, which was made from
the same rational in higher terms.

Deadlock is not checked where the models are bounded: they stop when the jobs, the
clock or the batches are used up, or when the daemon refuses to start.

Why the bounds are enough. In the job manager a share interacts with one job and with
other shares of the same key; two jobs give an older and a newer one, two connections
give two headers per key, and a clock of twice the retention lets keys and jobs expire
in both orders; two spellings of one nonce give two keys per header. In the pipeline a
batch interacts with the batch before and after it in the order: two batches, a useful
and a useless one, a tie or not in their mtimes, and every interleaving of the two threads.
Two faults let one undo what another left behind (a kill after a torn append, a power
failure after a failed sync, a misread start after a kill), at each pair of adjacent
system calls. In the share queue a limit of two lets a
share meet an empty, a half full and a full queue, and five shares let it overflow,
drain and overflow again. The proofs below remove the bounds for the main results.

A gate touches at most two qubits and a measurement multiplies rows pairwise, so two
qubits have every combination of a row at a gate and of two rows at a measurement; the
run closes its graph, so circuits of any length are covered. What more qubits add is
longer products in the elimination. The shot run covers the whole
program of the smallest code the builder takes, with one round to compare with the
next and one with the data. The outcomes of the four X checks in the first round, and
those of some data qubits at the end, are random; in this run at most two of them are
1, and every set up to that size occurs. On this code the lost signs do not show:
`QuietWithoutErrors` holds.

In `Stratum` an item or a share interacts with the items around it on its own wires
and with the server's current job: there is a job before and after a retarget in one run, and a
periodic job after the first in the other. A periodic push after a retarget is a third job,
which no run makes; the proofs cover it. Two connections are needed
for the limit and for what a broadcast does to a connection that has not subscribed.

In `Controller` what matters is on which side of a bound, a band or a gap a value
lies. The difficulties span three doublings, so that an emergency passes the upper bound
in one step and an adaptation either bound; the farms' desired difficulties lie between
the bounds and above them; a window may be longer than its least length, and the gap
between adaptations longer or shorter than a window. The widths are scaled with the
numbers: two significant digits, one decimal, five limbs of 64 values, doubles of up to
five digits (no estimate of the run has more than three), and a word of 768, so that a difficulty of 9.6 or more with a decimal wraps.
In `controller_division` a limb has 100 values, so that what is printed fits a limb as nine digits fit 32 bits, and only an emergency's product does not. `controller_text` lowers the lower bound to where `"%.9g"` turns to an exponent, as the default bounds do.

In `Dashboard` two handlers on one file or on two, with a cache of one, store one key
twice, evict each other's and meet a file replaced at each of their steps; the old and
damaged output takes the indexer's error path and has no ledger line.

Fairness. In the pipeline only `ValidatorThread` is assumed weakly fair: `validator_loop` runs until it
is told to stop and every pass ends. Errors are bounded by the budget: a disk that
fails for ever lets no batch through. Nothing is assumed of the shot thread. In
`Stratum`, `Receive` and `HandleLine` of each connection are weakly fair: the loop of
`Daemon::run` polls for ever, epoll is level-triggered and reports a readable
connection on every pass, and the line loop does not wait. Nothing is assumed of the
miners. In `ShareQueue` the network thread behind the end of its loop, the shot thread
and the validator thread run on (weak fairness of the steps of each), a timed wait
ends, and the controller ticks while the loop runs; no share, no signal and no
exception has to come. In `Controller` the loop of `run` ticks for ever; a tick is
always possible, so that `[]<><<Next>>_vars` is its weak fairness. Nothing is assumed of
the farm beyond the premises of `Settles`, which say that it becomes steady, goes on
finding shares, and that the host at last keeps up. In `Dashboard` only the indexer's
thread is fair: it loops for ever, and no writer and no request has to come.

## 5. Proofs

`JobManagerProofs`. The inductive invariant `IInv` adds to the two main properties
that live jobs carry the creation time they were issued with (`MadeJobs`) and that
every accepted share of a live job has its key in `seen_`, stamped no earlier than the
job (`LiveAcceptsAreSeen`): pruning drops a key only with an age that has dropped its
job first. Nothing is assumed of how fields are read: `TextAcceptedOnce` counts what was
accepted by its texts, whichever headers they give. It needs a clock that does not go back.

`PipelineProofs`, for every set of batches and circuits and every budget of faults:

- `TypeCorrect`; its core is that the validator's batch stays in `notvalidated/` until
  the validator deletes it.
- `UsefulNeverLost`. `NoUsefulLost` is not inductive, since a power failure takes the
  directories back to what was synced: `LossInv` states the same of the durable parts
  and of the batches whose outputs failed to sync (`unsynced`), which a later power failure
  gives up, and that the validator deletes a source only behind the attempt to sync its
  output, or for a verdict.
- `ChainBrokenOnlyByMisreads`. `ChainInv` counts the places at which the undamaged head of
  the file does not continue (`ChainBreaks`) against the starts that did not read it all,
  and adds that a tail in memory that does not fit the file (`Fits`) is paid for, too. The
  lemmas say what each change of the file does to the breaks: another entry adds one at
  most (`NextEntryBreaks`), garbage and a cut add none (`GarbageAppended`,
  `LostSuffixBreaks`), and what stands behind damage does not count.
- `ChainAlwaysVerifies` and `PromotionsAudit`. Their conditions (no torn append, no power
  failure, every start read the whole file) are about the faults met so far, and not
  assumptions on the budget. `CleanInv` says that the file is undamaged, that the
  validator's seq and hash are those of a line, that each output has its line, and, while
  every start read the whole file, that the chain verifies and the tail continues it. The
  auditor's check follows: the seqs of a chain that verifies are the places of its lines,
  so the first line with an output's seq is the one that credits it.
- `StagedFilesAreInProgress` (`NoStaleTmp`), which is inductive as it stands: the sweep
  of a start is what makes it so.
- `AppearsOnce`, a lemma for what follows: a batch appears in `notvalidated/` once, so
  that no rename replaces a file there and what was handled comes back only from the
  disk (`AppearInv`).
- `OldestLeavesFirst` (`NeverCutInLine`). The step that deletes a batch is many steps
  behind the one that chose it: `LineInv` carries the choice along, that nothing pending
  is older than the validator's batch, and that nothing can become pending that is older
  than what was ever written (`lastMtime`), neither from the shot thread nor, after a
  power failure, from the disk.
- `CreditsAreBounded`. `CreditInv` is an account: a batch that still waits for its credit
  (`Awaits`) has no more credits in the file than kills, power failures, failed calls and
  torn appends so far, any other one more, and each way back to waiting costs one of them.
- `PipelineImplementsStore`: `Spec => ImplementsStore` under any faults. Each step is shown
  to be a step of the store or a stutter, with `AppearInv` and `UsefulInv` (only useful
  batches reach the credit); a power failure is the store's `PowerFailure`.

`ShareQueueProofs`, for every limit and every number of shares: `TypeCorrect`,
`NoShareLost` and `OrderKept`. The invariant `KInv` speaks of `Kept`, the shares of the
batches, then the one in the shot thread's hand, then those in the queue: `PushShare`
adds the new share at its end and every other step of any thread leaves it as it is
(`KeptPop` and `KeptRun` move a share within it).

`StratumProofs`, for every number of connections, jobs and limits and every hash
function:

- `TypeCorrect` and `ServerImplementsJobManager`. The invariant `TypeIInv` joins the
  server's types with the job manager's own inductive invariant, so `AcceptedOnce`
  comes from `JobManagerProofs` without a second proof.
- `DifficultiesAlwaysAgree` and `HonestSharesMeetTarget`. `HonestNeverLow` speaks of
  the line being handled; `DifficultiesAgree` strengthens it to every place a job or a
  share may be: `ItemsAgree` for the wire to the miner (each job comes at its own
  difficulty, the last difficulty is the server's), `LinesMeet` for the wire to the
  server (each share meets its job, and the subscription that fixes the extranonce1 is
  ahead of all of them). `ToldAppend` and `ToldTail` are the lemmas about the
  difficulty in force at a place of a FIFO.

- `SharesStaleOnlyWhenOld`: a share on its way is for a job that was made (`LinesMeet`),
  and the job manager's own `JobRetention` keeps it.
- `AlwaysOnCurrentWork`. `OnCurrentWork` chooses the last job on a wire; `WorkAgrees` says
  the same without a choice (`LastOf`: the last value of a sequence that is not none),
  with the fact that no line is handled before there is a job. `LastAdded` and
  `FirstTaken` are the lemmas about the two ends of a FIFO.

`DashboardProofs`, for every number of handlers, files, versions and every limit:
`AnswersAreFresh` and `CacheWithinLimit`. `CacheIInv` has three parts beyond the types:
`Fresh` (a stamp is never newer than the file until its content is read, nor than the
content from then on), `Covered` (a cached key is in the order, or a handler is about to
put it there or has taken it out and is about to evict it) and `Counted` (the order
exceeds the limit by no more than the handlers that are evicting, and has something for
each of them). The bound follows when no handler is at work.

`ControllerProofs`, for all bounds, rates, windows, farms and widths:

- `StaysWithinBounds` (`TypeOK`) and `BacklogAlwaysRaises`, with the hypothesis
  `PrintsWithinBounds`: what is printed of a number between the bounds reads as one
  between them. Only the benchmark needs it, whose result is clamped before it is printed
  and not afterwards. It is a condition on the configuration: bounds of more digits than
  `"%.9g"` prints, or bounds that exclude the default difficulty while they include
  numbers printed with an exponent, may break it, and then the code leaves its bounds. The
  default bounds satisfy it, and TLC evaluates it for those of the run (`MCController`).
- `TargetsStayWithinFloor` (`TargetWithinFloor`), with the same hypothesis and on any
  number of limbs (five or more) of any width. Its invariant is `Decimal`: the denominator
  is a power of ten of at most `MaxDecimals` and the numerator fits 64 bits, since `parse`
  cuts decimals off, the default is written so, and an emergency's product is taken in 64
  bits. Four arguments meet in it.
  - The floor, as long as the numerator fits a limb. The induction over
    the limbs is by least counterexample (`LeastExists`, from the well-founded order of
    finite sets; `Upwards`, `Downwards`), which needs no operator as a parameter; a
    recursive function is shown to satisfy its equation because a function that does
    exists (`Iterates`). `MulSmallExact` and `DivSmallExact` are long multiplication and
    long division; `DoubleLimbHolds` is where the widths matter. That the denominator
    fits a limb (`DecimalShort`) is what the comment at `cpp/src/u256.cpp:145` says.
  - Not above the floor, for any numerator (`DivSmallBelow`): what a place shifts down is at
    most the remainder above it, so that divisor times quotient plus remainder is at most
    the dividend at every place (`BelowStep`).
  - The text (`ReadBack`): a number of k decimals that a double holds exactly is printed
    with its shortest text and read as the same rational in lower terms, by a power of ten
    (`TenSplit`), and a floor is the same in lower terms (`InLowerTerms`).
  - The compact form (`LongClose`), which the property states for every numerator: a number
    of five bytes or more keeps its three highest, or two when the sign bit is set
    (`KeepsTop`, `KeepsTopTwo`). A target is that long or zero, even where `rem << 32` drops
    bits: the dividend has two limbs only, and a remainder shifted twice is gone
    (`ShiftedOut`, `NothingBelow`, `LongOrZero`), so that a third limb that is zero leaves
    nothing below it. A shorter target would be encoded with its mantissa scaled up, which
    the code never comes to from a difficulty.

`StabilizerProofs`, for every number of qubits and any sequence of gates, measurements and
resets: `MeasurementsRepeat` (`Repeatable`), `DrawsWhenOpen` (`RandomWhenOpen`) and
`RowsAlwaysGenerate` (`RowsGenerate`). The tableau keeps only the rows of the state and no
partners for them, so what is invariant is that partners exist (`Partners`): the rows
commute, partner `i` anticommutes with row `i` and with no other, and only the identity
commutes with all of both. A gate keeps who commutes with whom (`GateAnti`), and so takes
partners to partners; a random measurement gives the new row the row it replaces for its
partner (`CollapsePartners`). From that:

- A Pauli operator that commutes with every row is a product of rows, up to its sign
  (`CommutantIsSpanned`), and Z of a qubit without a random bit is one; the elimination,
  whichever rows it takes for pivots, ends with rows in which a pivot's column is in no
  other pivot and in no row without a pivot (`RrefEliminated`), and such rows leave
  nothing of a product of theirs (`NothingLeft`).
- The answer is then the sign of a product of rows (`AnswerIsProduct`), and there is only
  one such sign: no product of rows is the identity with a sign (`SignsAgree`, by the
  partners). The measured qubit's own Z, with the outcome, is a row after a random
  measurement, and a flip after a reset changes that sign and no mask (`MzReads`,
  `FlipReads`, `MrReads`).
- For `Shot` the same is said of one signed Pauli operator at a time: `Says(rows, w)` is
  that the rows imply `w`. `SaysOnce` (not with both signs), `SaysLinear` (products),
  `SaysGate` (a gate takes `w` to the gate of `w`) and `SaysMz` (a measurement reads what
  the rows say, and forgets only what has an X of its qubit) are all that `Shot` needs.

- Beside the rows is the exact group, and the second invariant (`StateOf`) joins them:
  the masks in the group are those of everything that commutes with every row, and each
  operator in it is its own inverse, so that its phase is a sign. `ImageKeeps` compares
  each gate's exact image with the code's masks, `ProjectState` a random measurement with
  the projection. `OpenIs` is then the rule of the random bits, and that the products of
  the rows are the whole group follows from `CommutantIsSpanned`.

`ShotProofs`, for both distances, any number of rounds and any bounds on errors and random
ones: `ShotQuietWithoutErrors` (`QuietWithoutErrors`) and `ShotNoSilentError`
(`NoSilentError`). The program is built by folds over the checks and rounds; `Flat` and
`PartsJoin` say where the parts of a flattened sequence lie, and `LayoutExists` that
instruction `Start[r, i] + j` is instruction `j` of the block of check `i` in round `r`.
The invariant `IInv` then says what the tableau implies at that place (`InBlock`) or in
the final readout (`InEnd`); the signs in it are quantified, and no variable holds them:

- `State`: the Z of each Z check and of the logical row, with the sign `zs`, the Z of each
  ancilla, with the sign `as`, and the product of X of each X check that was measured,
  with the sign `xs`. Inside a block they are conjugated by the gates so far (`ImZ`,
  `ImX`, `Own`), in one of three stages: CNOTs of a Z check or no block at all, between
  the two H of an X check, behind the second. `CnotOfX`, `FirstH`, `LastH`, `CnotOfZ`
  take it through the gates, `EndOfX` and `EndOfZ` through the measurements, whose
  outcome is that of the sign (or shows the sign of a new X check). `Shape` says what the
  rows look like where an H of an ancilla comes, so that no sign is lost in it.
- `Log`: without errors all signs of Z are 0, the outcomes of Z checks were 0 and those of
  an X check repeat (`Quiet`); with one error and a flipped logical row, a detector has
  fired or will, since a Z check whose outcomes so far are 0 has a flipped sign
  (`Watched`). An error is a Pauli operator, which flips signs and no mask (`Flips`);
  what flips the logical row flips a Z check, too (`HitChecked`), because each of its
  qubits is in one (`RowChecked`) and, in the middle of an X check, the CNOTs done so far
  meet the row an odd number of times only after the very first (`RowTogether`), whose
  qubit meets a Z check once: this is where the ascending order of a check's CNOTs matters.
- `Reading`: in the readout, the sign of what was read is that of the outcomes, but for
  those that an error flipped in the record, which count as errors of the qubit.

`EvenOverlaps` takes the commuting checks from the self-check of the builder, which `Init`
has as its guard, and not from a computation with d. `ChecksAre` lists the checks as what
they are (four corners, two beside, two below); it and the lemmas on the row go by cases
of d.

`ParSum` and `AntiSum` (the parity of a symmetric difference is the sum of the parities)
and `XorLaws` are what these rest on. All speak of the rows without the exact signs, and
hold although those are wrong (`stabilizer_signs`): `Says` follows the signs that the code
computes, which are consistent.

The constants' assumptions are what the code has: `DiffRatAssumption` says that the
default fits 64 bits and that the modelled doubles have the decimals that `parse` keeps,
`ControllerAssumption` orders the three configured difficulties and says that 10^9 fits 32
bits, `U256Assumption` that there are five limbs or more (the code has eight).

Only model-checked, and why:

- the liveness properties `LinesHandled`, `PendingDrains`, `QueueDrains`, `StopReturns`,
  `BenchmarkEnds`, `Settles` and `IndexCatchesUp`: out of the prover's reach;
- `TowardsRate`: it rests on how far rounding to nine digits moves a number at the edge of
  a band, and it is false of some configurations (`controller_text`): a theorem would need
  the hypothesis that no desired difficulty is misread, which is most of what the property
  says.

## 6. Not modelled

JSON, SHA-256, the command line and configuration parsing are pure conversions without
state of their own; what the other parts depend on (a torn line does not parse, a
hash identifies what it commits to) is in their models. `engine.py` repeats the C++
algorithms for the auditor and `reference.py` compares statistics with an external
simulator: of the Python side the models have the ledger check of a promoted record and
the rename that replaces an output. The dashboard's page, the metrics of a batch and the
static files are presentation. The generator of random numbers and the seed chain are
left out: every draw is open, which is more than any seed gives. The circuit texts and
configuration hashes, the status file with its unsynchronised `last_error_`, and a second
process over the same directories (`scan_once` beside a live daemon, which nothing in the
code keeps away) have no model.
