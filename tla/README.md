# ShannonNet in TLA+

ShannonNet lets two parties, the *server* (SBS) and the *client* (SBC), hand
over one-time secrets. Both hold the same *secret files* and derive from them, per
*index*, the same *running file* (the matrix A of an LWE cipher). The server also
has a *waiting file*, a new random secret. A round hands the secret of one index
over: it is sent in `PROGRESS` chunks, every chunk encrypted under A, checked at
the end with a CRC, and kept by both sides only if the client reports it VALID.
Then it is one of the secret files from which the next rounds derive. The
first ones are made by `init.cc`.

This directory holds the specifications of the program under `src/`, the TLC
configurations that check them on small instances, and proofs checked by TLAPS.

## 1. Inventory

Paths are below `src/src/` unless they say otherwise.

| Component | Code | State | Operations |
|---|---|---|---|
| Secret transfer | `ClientApp.cc`, `main/Decrypt.cc`, `main/Encrypt.cc`, `controller/SecretController.hpp` (get_data, result_report) | Redis: creation time and progress counter of the index for each side, the zset of statuses; files: waiting, secret, chunk files | client: poll, claim, process, gather, report; server: `getData`, `Encrypt::process`, `Encrypt::move`, `resultReport` |
| Index allocation | `SecretController.hpp` (gen_secret), `ClientApp.cc`, message loop of `scripts/generateSecretFile.cc`, `utils/utils.cc` (`genRandomStr`) | Redis: lock keys, list of messages, creation times, counters | `genSecret`, the client's push, the script's rpop / zscore / zadd / zadd / del |
| Thread pool | `utils/thread.h` | queue, mutex, condition variable, `stopPool_`, `activateThreads_` | constructor, `waitLoop`, `enqueue`, `spawn`, `~ThreadPool`, `waitAndStop` |
| Batch split | `encryptSecretsGPU`, `decryptSecretsGPU` and their callers | the blocks of a chunk | split over `RUNNING_THREAD_NUM` threads, collect |
| LWE cipher | `LWE.hpp` | A, the secret vector s | `generateSecret`, `encrypt[GPU]`, `decrypt[GPU]` |
| Key generator | `scripts/generateSecretFile.cc`, `readFileSize` in `utils/utils.cc` | temporary files, pieces, running file, waiting file; the tasks in its pool | list and draw the secret files, `processTmpSecret`, `processBinSecret`, put the pieces together, write the waiting file |
| Key stock | what all of these leave behind | the secret files of each side and their statuses, from round to round | a derivation reads them, a verdict adds to them |
| Initialisation | `src/init/init.cc` | directories, the first secret files, the Redis keys | create, copy, reset |
| Helpers | `utils/path.cc`, `utils/utils.cc`, `utils/log.h`, `utils/redis.h` | - | wrappers |
| Configuration, DTOs, oatpp components | `config/config.h`, `dto/DTOs.hpp`, `ClientComponent.hpp`, `ServerComponent.hpp`, `ServerApp.cc` | - | declarations |
| Tests, `Encrypt copy` | `src/tests/`, `main/Encrypt copy.cc` | - | read, not modelled |

**How they interact.** The client calls `gen_secret` over HTTP; the handler draws
an index, locks it in Redis and pushes a message; the client pushes its own. The
generator (one script) pops messages, writes the files of that side and
publishes the index: creation time, counter, and for the server the removal of
the lock. The client polls until both sides are published, then claims chunk
numbers from its counter and runs up to `CLIENT_THREAD_NUM` threads. Each
calls `get_data` through a proxy; the handler encrypts a chunk and counts it, and
the last one moves the waiting file to the secret file. The client gathers the
chunk files, compares the CRC, calls `result_report` and, if VALID, stores its
own secret file.

**What is hard.**
Every handler is a thread of its own and talks to Redis one command at a time,
so look-up and update can be separated; both sides count in Redis, and the
generator resets the counters; a thread of the client throws on a timeout while
its handler goes on; any process may stop between two steps, and Redis and the
disk then keep what they have; the pool's destructor does not take the mutex;
the two sides split a chunk with different arithmetic; the cipher uses
unsigned 16-bit sums on the CPU and float32 on the GPU; most failing files are
logged, or not even looked at, and nothing else is done; the answer to the
client's report is dropped unread; and whatever one round leaves different at the
two sides goes into the matrices of all later ones.
`PROJECT.json` lists each of these at its line under "hazards".

**What makes each component correct.**

- *Transfer*: the client holds a secret only if the server moved it, holds it
  complete and calls it VALID; a round the client finished is all or nothing; the
  only complete copy is never lost; no complete secret file is overwritten; every
  round ends. Three calls whose result the code never looks at can take from
  this what they were to do themselves (section 5), and nothing else may.
- *Index allocation*: an index in use is never handed out again, is generated
  once per side, and a client that polls for it gets it.
- *Thread pool*: each task runs exactly once, in order of beginning; no wakeup
  is lost; a stopping pool finishes its queue; the destructor returns.
- *Batch split*: no block is left out, doubled or misplaced, no iterator leaves
  the received data.
- *LWE*: what is decrypted is what was encrypted, at the width of the element
  type; and how much rounding the scheme bears.
- *Generator*: every slice of a running file is made from all the files it should
  be made from, however the tasks interleave; a failure spoils only what it
  touches; nothing is left behind without one; the script always gets on.
- *Key stock*: both sides have the whole file of every VALID secret, a
  VALID secret was sent under a matrix made of files both hold alike, and each
  round leaves the next what it needs.

## 2. Modules

| Module | What it is |
|---|---|
| `Handover.tla` | abstract: what the transfer promises (stage, judge, confirm or discard, client keeps) |
| `Transfer.tla` | the transfer of one index, with faults; implements `Handover` |
| `TransferProofs.tla` | proofs about `Transfer` without the gap |
| `AlignedProofs.tla` | proofs about `Transfer` as shipped, with the gap |
| `SecretIndex.tla`, `SecretIndexProofs.tla` | allocation and publication of indexes, and its safety proved |
| `Derivation.tla`, `DerivationProofs.tla` | the generator's work for one message, with its pool's tasks and every file that may fail, and its safety proved |
| `KeyStock.tla` | abstract: what the two sides have in common only grows, until `init.cc` is run again |
| `Rounds.tla`, `RoundsProofs.tla` | round after round from `init.cc` on: the secret files and statuses of both sides; proved safe and to implement `KeyStock` |
| `TaskPool.tla` | abstract: tasks wait, run and finish |
| `ThreadPool.tla`, `ThreadPoolProofs.tla` | `thread.h` and its owner; proved to implement `TaskPool` |
| `Batch.tla`, `BatchProofs.tla` | the split of a chunk's blocks, and the proof of what reaches the file |
| `LWE.tla`, `LWEProofs.tla` | one character through the cipher, and its correctness |
| `MC*.tla`, `MC*.cfg` | instances for TLC |

An operator whose comment begins "Mutant of" is a variant of the definition
that follows it, with a plausible slip of that code. No specification uses one;
putting it in the definition's place must make the property named beside it in
`PROJECT.json` fail, which shows that the property depends on that code.

### Transfer

State: Redis (`tail`: how far the generator has published a side, `count`,
`valid`), the server's files (`waiting`, `serverSecret`), the client's files
(`chunkFile`, `dir`, `clientSecret`), the client's loop (`cpc` and the local
variables `progress`, `issued`, `cur`, `num`, `buf`, `verdict`), one thread and
one handler per request (`thread`, `handler`, `chunkOf`, `loaded`), the handler
of the report (`rep`). A file is *torn* between its opening (which truncates)
and the end of its writing. `keysAgree` is whether the two running files are
equal; it is a free choice at the start, because it depends on the rounds before
(`Rounds` says what it is), and every property but `FaultFreeDelivers` holds
either way: with unequal files the CRC fails and the verdict is INVALID.

Every Redis command and every file operation that another actor can observe is
one action, in the code's order: `HandlerCheck`, `HandlerFresh`, `HandlerOpen`,
`HandlerCount` are `getData` and `Encrypt::process`, `HandlerMember` to
`HandlerUnlink` are `Encrypt::move`, `ReportMark`, `ReportExists`,
`ReportRemove` are `resultReport`, `ClientPoll` to `ClientFinish` are
`clientRun` with `Decrypt::gather`, `ThreadReply`, `ThreadOpen`, `ThreadWrite`
are `Decrypt::process`. Faults, at most `MaxFaults` in a behaviour: a chunk that
cannot be opened, a failing write of a chunk file, a request or report that times
out while its handler runs on, a Redis call of a handler that throws, a read,
open or write of `move` that fails, a waiting file that is not removed, a failing
write of the client's own file, a stop and restart of the server, a stop of the
client.

Three of these meet a call whose result nobody looks at, and `mishap` records
which: *copy*, the read and write of `move` (`Encrypt.cc:137-144` never ask the
streams; the status is set and the waiting file removed all the same); *report*,
the call of `resultReport` (`Decrypt.cc:141` and `146` drop its answer: the proxy's
504 or 502 and the 500 that oatpp makes of an exception are answers, and the
client goes on to its own file, while the handler may still be at work);
*store*, the client's own file (`Decrypt.cc:147-150`). Only a connection that
breaks throws at the client (`ClientCrash`). The answer to `get_data` is parsed,
so an error page ends the client there (`lost`). The safety properties
say what each of the three can take away, and that nothing else can.

`PublishGap` says whether the client's poll (one every 10 s) may fall between
the generator's `zadd` of the client's creation time (`generateSecretFile.cc`
line 423) and its `zadd` of the client's counter (line 429). If it does, claims
are undone by the reset and chunks are requested twice. The properties marked
(gap) in the module are stated for `PublishGap = FALSE`; those marked (aligned)
hold with the gap as well if `CLIENT_THREAD_NUM` divides `PROGRESS`, as it does in
`config.h`, and every waiting file that is there can be opened (`ReadableSpec`: all
other faults may happen). The proofs of these ask in addition that the waiting
file can be removed (`TidySpec`); the run does not. Section 5 says what happens otherwise. Type correctness
and `RoundEnds` need neither.

### SecretIndex

State: per request the point its handler (and then its client) has reached and
the index drawn; the sets of locked, published and counted indexes; the list of
messages; the generator's position. `genRandomStr` seeds `rand()` with the
current second, so it is a function of `clock` when no other handler is between
its calls, and any string otherwise (the generator state is the process's). The
work on files is one step (`GeneratorWork`). A fault loses what was in progress:
a handler or a client stops, or the generator gives up on a message, which
`rpop` has taken off the list for good. `seen` is a history variable: which
requests held their lock when this one looked.

### Derivation

One message of the generator, for one side. State: the script (`spc`, the
directory entries it has not read, the `list` of files to use, the piece it is
at), one task per file and thread (`task`, `processTmpSecret`) and one per thread
(`merge`, `processBinSecret`, with the position it reads next and what it has
read), and the files: temporary ones (`tmps`, and which of them were written
completely), pieces, the slices of the running file, the waiting file.

`ReadEntry` is one turn of the loop of `readFileSize`: the directory gives its
entries in any order. `Pick` is the drawing of `FILE_NUM` different files. The
script enqueues the tasks (`Derive`, `Merge`) and waits for all futures (`Await`,
`Join`); in between `TmpOpen`, `TmpWrite`, `MergeRead`, `MergeXor` of all tasks
interleave. `RemoveTmp`, `Assemble`, `Write`, `Waiting`, `Publish` follow.

Faults, at most `MaxFaults`: Redis fails inside `readFileSize`, which returns what
it has; a secret, temporary, piece, running or waiting file that cannot be
opened, written completely, read or removed; the script gives the message
up; the process stops. The code logs most of these and goes on. `hit` records
which threads' files a fault has touched. A merge that missed a file reads
outside its buffers (the loop at line 213 runs to the length of the list): it
either ends the process (`MergeCrash`) or has arbitrary bytes in its piece.

A slice is the set of the list's positions whose temporary files were XORed into
it; which bytes the offsets select is left out, since both sides compute it from
the same seed and the same files. {} is zeros, and 0 in the set stands for
bytes nobody meant.

### Rounds

The secret files are a directory per side (`file`: none, torn or whole per name)
with one zset of statuses (`status`). Name 0 stands for the two files of
`init.cc`, the others for the indexes of the rounds, which are distinct
(`SecretIndex`). `key` is what each side derived for an index: the names listed,
their order, and the files drawn with what was in them; two running files are
equal if these are. The order the server's directory gives is the reference;
`sameOrder` says whether the client's gives the same.

Actions: `InitStart` to `InitCall` (`init.cc`, a step for each file opened or filled
and for each thing it resets in Redis, with its own position `ipc`), `ClientStart` to `ClientPush` (an
index, the two messages), `Generate` (what `Derivation` does in detail, in one
step), `ClientPoll`, `MoveCopy` to `MoveMark` (`Encrypt::move`), `ClientGather` (the
CRC: VALID if the keys are equal), `ReportMark`, `ReportRemove`, `ClientReported`,
`ClientStore`, `ClientFlush`. Each command or file operation that another process
can observe, or after which one may stop, is a step; a handler goes on when its
client has stopped, or has gone on. Faults: `init.cc` cannot make a directory or
a file (neither is looked at), or is stopped at any of its steps; Redis
cuts the list short, the script gives a message up, the copy in `move` or the
client's own file fails, a request fails, a report gets an error for an
answer while its handler goes on or after it has thrown, the client or the server
stops. `damaged` records the names of which a fault has kept a side from its
whole file; `init.cc`'s own name is one of them from the opening of its file to the
end of a whole copy.

`Transfer` and `Rounds` describe the same handover at two levels: `Transfer` has the
chunks, the threads and the counters of one round; `Rounds` has only the steps
that change secret files and statuses. What `Transfer` takes as the
free choice `keysAgree` is `KeysEqual` here. `KeyStock` is the promise of it all:
its variables are the set of names that are VALID and whole at both sides
(`Held`) and whether `init.cc` is at work; each round may add its own, also after
later ones, because a VALID status may be recorded long after the client has gone
on; only `init.cc` takes any away, and it renews no name but its own. `init.cc`
runs while no other program does, in the order `src/README.md` prescribes, and
may be run again between rounds, also after one that was stopped half way.

### ThreadPool

One program counter per worker and one for the owner; the mutex is a variable,
because `~ThreadPool` sets `stopPool_` without it. `WorkerCheck` is the predicate
of `wait`, `WorkerSleep` the release of the mutex and the beginning of the wait;
a notification wakes workers that are asleep and is lost on others.
`WorkerSpurious` is a wakeup nobody caused. `raced` records that a worker went to
sleep after the destructor's `notify_all`, which it therefore missed. The owner
does what the generator script does: enqueue or `spawn`, get the futures, enqueue
again, destroy.

`waitAndStop` is left out: nothing calls it, and it waits for a condition
variable no code notifies.

### Batch and LWE

`Batch` has one action per loop body of the two GPU functions and one per
`future.get()`. `offset`, `EncryptEnd` and `DecryptNum` are the code's
expressions. `LWE` follows one character: `EncryptRow`, `Noise`, `DecryptRow` are
the arithmetic of `encrypt`, `encryptGPU`, `decrypt`, `decryptGPU`, with the CPU's
intermediate results wrapped at the element type (`Word` values). The inner
product A*s is any number (`Sums`); what the client's differs by on the GPU is
`drift`.

## 3. What the runs check

| Run | Instance | States | Shows |
|---|---|---|---|
| `transfer_safety` | 5 chunks, 3 threads, 3 faults | 155 thousand | the safety properties of a round and `ImplementsHandover`: a failed unchecked call takes away its own part, and nothing else is lost |
| `transfer_live` | 3 chunks, 2 threads, 2 faults, fair | 5 thousand | `RoundEnds` under any faults, `FaultFreeDelivers` without |
| `transfer_aligned` | 4 chunks, 2 threads, with the gap, 2 faults but none of a waiting file that cannot be opened, fair | 91 thousand | where the threads divide the chunks (as shipped), the promise of `Handover` is kept, over the same failed calls; the gap may cost the round |
| `transfer_gap` | 2 chunks, with the gap | counterexample | the server's counter does not stand for chunks |
| `transfer_leftover` | 2 chunks, 1 fault | counterexample | a failed round leaves a chunk file |
| `secret_index` | 2 requests, 2 strings, 3 seconds, 2 faults, fair | 73 thousand | an index is guarded from its lock on, generated once; polls end |
| `secret_index_duplicate` | the same, no faults | counterexample | two overlapping requests get one index |
| `derivation` | 3 files, 2 used, 2 threads, 2 faults, fair | 173 thousand | what each slice of a published running file was made from, what stays on disk; the script gets done with every message |
| `rounds` | 3 rounds, 2 runs of `init.cc`, 2 files used, 2 faults, fair | 559 thousand | both sides have the same VALID secrets, a round becomes VALID only from such, after a stopped `init.cc` and with late statuses too; what they have in common is a `KeyStock`; without faults every round delivers |
| `thread_pool` | 2 workers, 3 tasks, fair | 7 thousand | the pool implements `TaskPool`, futures become ready, the destructor returns unless it races |
| `batch` | 10 blocks, 3 threads | 211 | the split, with a remainder of 1, in every order |
| `lwe` | Q = 7, Word = 16, 2 bits | 59 thousand | every message, error, sum and drift of -1, 0, 1, on both devices |

**Why the bounds are enough.** In `transfer_safety` the last batch is smaller
than the others, several handlers overlap with `move`, and three faults allow a
crash within `move` followed by a timeout of a later request and of the report,
or the failure of all three unchecked calls in one round.
The number of requests (`2 * PROGRESS`) is never reached: fewer than `PROGRESS`
claims precede a reset and `PROGRESS` follow it. In
`secret_index` the string of the first second comes back in the third, so an
index is drawn again when it is free, when it is locked, and when it is
published. In `derivation` there may be more files than are used, so that
some are drawn, or as many, fewer or none; every task has another to interleave
with, at the same file and in the same thread; two faults can hit two threads, or
one thread twice. In `rounds` the third round is the first to have more secret
files than a derivation uses; the second run of `init.cc` can come before
any round or after it, be stopped anywhere, and find files of earlier rounds and
the damage of an earlier fault; with two faults one damages a file and the other
interrupts the round that meets it, and two reports may still be running while a
later round is made. In `thread_pool` there are more tasks than workers, so tasks queue.
In `batch` the remainder is not 0, so both last threads take more than a share,
by different arithmetic. In `lwe` the sums cover all residues and wrap at
the word's end, and the word is just large enough (`2 * Q`).
For everything but liveness the proofs cover all other instances (of `Transfer`,
those without the gap, and those with it of `TidySpec` where the threads divide
the chunks).

`CHECK_DEADLOCK FALSE` is set everywhere: a round ends, the messages run out,
the index is published, the rounds run out, the pool is destroyed, the character
is read.

**Fairness.** Weak fairness of each thread or process that runs when it can: the
client's loop, each of its threads, each handler, the report, the generator, the
workers and the tasks they run (the generator's pool has as many workers as
tasks, `generateSecretFile.cc:241`). Strong fairness of a worker's acquisition of the mutex: a mutex that is
free again and again is obtained. Faults, arrivals, the clock and the owner's
decision to enqueue or to destroy are never forced, nor is anybody obliged to start
`init.cc` (`EveryRoundDelivers` is about behaviours in which somebody does); once
started it goes on. A request without an answer
ends as the proxy's timeout (`lost` in `Transfer`).

## 4. What is proved

| Theorem | Statement |
|---|---|
| `TransferProofs!TypeCorrect` | `Spec => []TypeOK`, with the gap or without |
| `TransferProofs!CompleteMeansServedHolds`, `NeverWithoutCopyHolds`, `AgreementHolds`, `RoundOutcomeHolds`, `SecretNeverRewrittenHolds` | the safety properties, for every number of chunks, threads and faults of every kind, the unchecked calls among them, from `~PublishGap` |
| `TransferProofs!TransferImplementsHandover` | `Spec => Handover!Spec` under the refinement mapping, from `~PublishGap` |
| `TransferProofs!FaultFreeOutcomeHolds`, `EndedRoundDelivers` | until the first fault, and with keys that agree, the client does not stop and a round that is done is delivered; hence `Spec => (RoundEnds => FaultFreeDelivers)`; from `~PublishGap` |
| `TransferProofs!RoundNotStuck` | until the client is done or dead, somebody can take a step, whatever fails; from `~PublishGap` |
| `TransferProofs!UnequalKeysKeepNothing` | a secret sent under running files that differ is never VALID and the client never writes it, with the gap or without, whatever fails |
| `AlignedProofs!AlignedAgreementHolds`, `AlignedRoundOutcomeHolds`, `AlignedNeverWithoutCopyHolds`, `AlignedSecretNeverRewrittenHolds`, `AlignedImplementsHandover`, `AlignedRoundNotStuck` | the same of `TidySpec`, with the gap or without, from `Aligned` |
| `LWEProofs!TypeCorrect`, `DecryptsExactlyHolds`, `WindowToleratesHolds` | for every modulus, word width of at least twice the modulus, sums and drifts |
| `LWEProofs!RowDecrypts` | the arithmetic lemma: a bit survives if error minus drift stays in the window of `Q \div 2` values |
| `BatchProofs!SplitCovers` | for every number of blocks and threads: the server's intervals are consecutive and cover the chunk, the client's stay inside it and cover it if the remainder is at most 1 |
| `BatchProofs!TypeCorrect`, `IteratorsInsideHolds`, `FileIsPrefixHolds`, `FileCompleteHolds` | the properties of the `batch` run, for every number of blocks and threads |
| `SecretIndexProofs!TypeCorrect`, `IndexGuardedHolds`, `DistinctAfterLockHolds`, `CounterResetOnceHolds` | the safety properties of the `secret_index` run, for every number of requests, strings, seconds and faults |
| `SecretIndexProofs!NothingForgottenHolds` | until the first fault, what a client waits for is published, or its message is in the list, with the generator, or still to be pushed |
| `DerivationProofs!TypeCorrect`, `PublishedMatrixHolds`, `LeftoversAreFaultsHolds` | the safety properties of the `derivation` run, for every number of files, of files used, of threads and of faults |
| `DerivationProofs!EndedMessagePublishes` | `Spec => (<>(spc \in {"published", "lost"}) => MessageEnds)`: without faults and with a file to use no message is lost |
| `DerivationProofs!MessageNotStuck` | until then the script, or a task it waits for, can take a step, whatever fails |
| `RoundsProofs!TypeCorrect`, `StocksAgreeHolds`, `ValidMadeFromSharedHolds` | the safety properties of the `rounds` run, for every number of rounds, initialisations, files used and faults; `init.cc` stopped anywhere, statuses recorded at any later time |
| `RoundsProofs!RoundsImplementKeyStock` | `Spec => KeyStock!Spec` under the refinement mapping, for the same |
| `RoundsProofs!FaultFreeRoundDelivers` | as long as nothing has failed and the directories are listed alike, a step that ends a round leaves its secret VALID and whole at both sides |
| `RoundsProofs!FaultFreeRoundNotStuck` | such a round always has somebody who can go on |
| `ThreadPoolProofs!TypeCorrect`, `ActiveCountHolds`, `WakeupOwedHolds`, `ExitMeansEmptyHolds` | the safety properties of the `thread_pool` run, and the count of busy workers, for any finite set of workers and any set of tasks |
| `ThreadPoolProofs!DestructorNotStuck`, `FuturesNotStuck` | a destructor that joins (unless `raced`) and an owner that waits for futures wait for a worker that can take a step |
| `ThreadPoolProofs!ThreadPoolImplementsTaskPool` | `Spec => TaskPool!Spec` under the refinement mapping |

**Assumptions.** The constants' assumptions in the modules (`TransferAssumption`,
`LWEAssumption`, `BatchAssumption`, `SecretIndexAssumption`,
`ThreadPoolAssumption`, `DerivationAssumption`, `RoundsAssumption`), and where it
is said `~PublishGap` or `Aligned` (`CLIENT_THREAD_NUM` divides `PROGRESS`).
`TidySpec` differs from `Spec` by the two faults it leaves out: a waiting file that
is there cannot be opened, or cannot be removed by `move`. A failing read, open or
write of the copy is in it.

**The argument for Transfer.** None of the properties is inductive. `Agreement`
needs to know that the client's VALID verdict means all chunks were received,
that each of them was served, that the server's counter reached `PROGRESS` once
and one handler moved the file, that this handler has finished if its answer
arrived, and that its copy is complete or is on record as the failed one. The inductive invariant `IndInv` says this in parts, each used by the
next: `Counting` (claims, requests and chunk numbers run together, as no
counter is reset after the first claim: the only place that needs
`~PublishGap`), `Lifecycle` (a thread that has data was answered by its
handler), `Serving` (the counter is the number of served requests), `Moving` (at
most one handler is in `move`, and what it finds there), `Moved` (before,
during and after the move, and what a failed copy leaves), `Awaiting`, `Received` (what the client's loop
knows), `Deciding` (the verdict, its report, which may still be running or have
failed, and the client's file). Each part has
one lemma for its preservation, with a step per action.

For the shipped case, with the gap, `AlignedProofs` has two parts of its own in
place of `Counting`. `Pacing`: every batch but the last has `CLIENT_THREAD_NUM`
requests, so one batch ends exactly with request `PROGRESS`, and the reset, which
happens at most once, can bring at most `PROGRESS` more. `Collected`: a later
request is not made before the first `PROGRESS` have all been received; by then
each of them was served and the secret has moved, so the later one's handler finds
no waiting file and refuses it at once: here it matters that `move` could remove
it. Without `Aligned` a batch straddles the
boundary, and without `Readable` a request that fails at its file is not
counted while a later one makes up the number: in both cases the counter
stands for requests, not for chunks.

For a round without faults, `Smooth` says of every file, counter and actor that it
is as the code intends at that point: no handler has refused, each
chunk file a thread has answered for is whole, the verdict is VALID if the keys
agree, nothing is left over of what has been read. It is inductive until the
first fault, and at the end it is `Delivered`.

**What liveness rests on.** A temporal property such as `RoundEnds`
has two halves: that nobody waits for what cannot happen, and that who can take
a step takes it some day. The second is fairness and stays with TLC. The first is
an invariant, and proved: `RoundNotStuck`, `AlignedRoundNotStuck`,
`MessageNotStuck`, `FaultFreeRoundNotStuck`, `DestructorNotStuck`,
`FuturesNotStuck` say that as long as somebody waits, somebody can go on;
`NothingForgotten` says so of a poll. ENABLED being out of reach, who can go on
is stated by the guards of the actions. What the properties say beyond the
ending is proved too (`EndedRoundDelivers`, `EndedMessagePublishes`,
`FaultFreeRoundDelivers`).

**The argument for LWE.** The CPU's sums stay below `Word` because
`Word >= 2 * Q`, so wrapping changes nothing; what is left after subtracting the
client's A*s is error plus `HalfQ` times the bit minus the drift, modulo Q, and
the window decides the bit. `DecryptsExactly` follows with drift 0.

**The argument for SecretIndex.** What makes the two reads of `genSecret` safe is
their order: a lock is removed only after the publication (`Publishing`), so an
index that a request found without a lock although somebody had it is published
by then (`LookedUp` at `zscore`), and the second read finds it. `SeenStays` says
that who has an index does not draw again.

**The argument for Derivation.** `PublishedMatrix` is about the end; the
invariant follows a thread's bytes there. `Phases`: which tasks may run while
the script is where. `Listed`: the list has different usable files, and what is
missing from it is still unread, was not drawn, or was cut off. `Temporaries`: in
a thread no fault has touched, a task that is done has written its file
completely, and the file is on disk exactly until the merge has passed its
position. `Merging` uses this at each read: the merge has every position
before its own, so at the end it has all of them and no read is outside a
buffer. `Ending`: every piece that is not in its place yet is on disk, every one
that is in its place was whole. Until the first fault no thread is hit, so
no merge reads outside its buffers and no step gives the message up
(`Untouched`).

**The argument for Rounds.** `StocksAgree` needs the history of a verdict: a
status VALID goes back to a report, that to a client whose checksum fitted, and
that to equal keys and a handler that had moved the file (`Verdicts`), whose file
nobody has touched since (`StoredFiles`). None of this may hang on the client's position, as
a report may be served long after the client has gone on: `VerdictOf` and
`ServerFileOf` speak of each index by its own mover and report. `Alone` says that
no client and no handler is at work while `init.cc` is, and `FirstFiles` what its
own files hold at each of its steps and after a stop between two. `Queued` says that a message is in the
list once and before its index is published, so no published key changes under
the client. `Ingredients` says of a round that may still end VALID that what it
was derived from are earlier names, still VALID, which still hold what they held: a
VALID name is written by nobody but `init.cc`, and no round that is under way when
that is run can end VALID (`Live`). For equal keys this makes the
two sides' files equal, which is `ValidMadeFromShared`; it needs no
assumption about faults, because a file that differs makes keys that differ.
`KeyStock` needs one more thing: a round stores its secret at most once, so a
secret that is held stays whole. For a round without faults
(`Smooth`): both messages go through the list one after the other and are
answered from the same stock, since no secret file or status changes in
between; so the keys are equal, the checksum fits, and each later step finds what
the one before has left.

**The argument for ThreadPool.** What a worker saw of the queue holds as long as
it has the mutex (`Exclusion`, `Awareness`); `stopPool_` alone may change. A worker
goes to sleep only with the queue empty, so tasks and sleepers meet only through
`enqueue`, which then owes its notification. The refinement needs that a task is
in one place (`Distinct`) and that a worker has one exactly between taking and
running it (`Holding`). A worker that waits for the mutex waits for one that has
it and can go on (`SomebodyCan`); one that sleeps while the destructor joins has
missed its notification (`SleepersRaced`).

**The argument for Batch.** Every sequence is a run of consecutive blocks from
its thread's offset; `SplitCovers` says that one run ends where the next begins.

**Only model-checked.** Of the liveness properties (`RoundEnds`,
`FaultFreeDelivers`, `PollEnds`, `MessageEnds`, `EveryRoundDelivers`,
`FuturesReady`, `DestructorReturns`) the step from "somebody can go on" to
"it ends": temporal properties under fairness and ENABLED are out of the
prover's reach. So are inductions over data and recursive operators; none is
used here.

## 5. Findings

- **The counter counts requests, not chunks** (`transfer_gap`).
  `Encrypt.cc:106` says the counter decides whether the transfer is complete. The
  generator publishes the creation time before it resets the counter, so a client
  that polls in between loses its first claims and requests the same chunks
  again. Then the server moves the file with a chunk never served. What follows
  depends on the configuration: with 4 chunks, 2 threads and one fault, or with 2
  chunks, 3 threads and none, `Agreement` itself fails. Where the threads divide
  the chunks (as shipped) and every waiting file that is there can be opened, the
  transfer keeps its promise whatever else fails, and the round is only wasted:
  `transfer_aligned` checks it, `AlignedProofs` proves it for every number of
  chunks and threads. The fault in the first example is a waiting file that
  cannot be opened, so that condition is needed.
- **A failed round may leave data** (`transfer_leftover`). The loop over the
  futures stops at the first failure and `gather` removes the chunk files while
  other threads still write theirs. `src/README.md:190` says the client's secret
  file is deleted in this case.
- **The lock does not prevent duplicates** (`secret_index_duplicate`).
  The index is looked up and locked by separate commands and drawn from the
  current second. The comment at `SecretController.hpp:56` says the lock avoids
  generating an index twice. Two requests that overlap get the same one.

Other facts the models rest on: `~ThreadPool` may hang, because a worker that has
just seen `stopPool_` unset misses the notification (`DestructorReturns` excepts
exactly this with `raced`, and `DestructorNotStuck` proves that nothing else
hangs it); the client drops the last blocks of a chunk
when `EACH_NUM` leaves a remainder of 2 or more (the shipped 1024 and 2 leave
none); a row of A has 8192 products of up to 96 * 96, so the GPU's float32 sums
pass 2^24, and `WindowTolerates` says how far apart two GPUs may be: with
the GPU's errors, one less on the client is always tolerated, one more is not.
A report that the proxy or oatpp answers with an error lets the client keep its
file although the server calls the secret VALID only later, or never, or it leaves
the server the file of an INVALID one: `Agreement` and `RoundOutcome` say so with
`mishap`. Neither side derives from such a name (`Listed` in `Rounds` wants the
status), so only the secret is lost. A failed
copy in `move` is worse: the status is set and the waiting file removed, the
server's only copy is gone, and the report makes the name VALID.
If the client stops between its VALID report and the end of its own file, or that
file cannot be written, the name is VALID and the directories differ: the
two lists differ in all later rounds, every round that draws that name
fails the CRC, and nothing but `init.cc` repairs it (`StocksAgree` excepts such
names, `ValidMadeFromShared` says that no secret gets VALID from them). An
`init.cc` that is stopped after it has replaced the server's files and before line 105
leaves the old statuses over files that differ; the same two properties say what
still holds then, and running it again repairs it. The same
holds of two machines whose directories list the files in another order, which is
why `EveryRoundDelivers` is stated for `sameOrder`. An error of Redis
inside `readFileSize` shortens the list silently. A merge that misses a temporary
file reads outside its buffers, and the index is published all the same
if the process survives.

## 6. Not modelled, and why

- Which bits of a secret file an offset selects, and the path strings of
  `path.cc`: data that both sides compute alike. What the programs need of the
  wrappers (exists, open, remove, create a directory) is in guards and steps.
- `LWE::generateSecretA`, which no program calls, `waitAndStop`, and
  `main/Encrypt copy.cc`, which is not built.
- `init.cc` next to running programs: `src/README.md` has it run first. Its two
  files are one name, made and copied alike, and the two sides' creation times
  one step, since nobody reads them before it ends or is stopped and an index needs
  both.
- A chunk file or the directory that the client cannot remove at the end of a
  round: it is logged, and no other program reads them again.
- Logging, configuration, DTOs, the assembly of the HTTP server: no behaviour
  another part depends on.
- The contents of files: a file is intact, torn, good or bad. CRC collisions are
  left out: a chunk that is bad fails the checksum.
- Several rounds of one client one after another are one `Transfer` each;
  `Rounds` has them in sequence, without the chunks. Rounds of several clients with
  one server share no file and no key but the list of messages, whose
  interleavings are in `SecretIndex`.

## 7. Plan

Done, in this order: `Transfer` with `Handover` and its proofs; `SecretIndex`;
`ThreadPool` with `TaskPool`; `Batch` and `LWE`; the proofs of these;
`Derivation` (the generator's work), `Rounds` (the stock of keys from `init.cc`
on) and their proofs; `Transfer` as shipped, with the gap; `KeyStock` and the
refinement; what a round, a message and a transfer without faults deliver; that
none of them, nor the pool, is ever stuck; that nothing is kept where the running
files differ.

What would come next:

1. A refinement from `Transfer` to one round of `Rounds`; now the two share the
   steps of `move`, of the report and of the client's file by translation of the
   same lines.
2. For `SecretIndex`, an abstract specification of who owns an index, in place of
   the three invariants that say it now.
