# Formal models of metcalfe-core

metcalfe-core ships the libraries of a ledger server.  The server's own
sources are not part of the tree; what is there is NuDB (`src/src/nudb`), the
append-only key/value store in which the server keeps its ledgers, the Beast
HTTP/WebSocket library (`src/src/beast`), the SOCI database library
(`src/src/soci`), a test framework (`src/src/test`), a process supervisor
(`src/sh/daemon.sh`) and copies of outside projects.  These models are about
the parts that are concurrent, survive crashes, or depend on the order of
steps: NuDB above all, then the WebSocket stream, the pool of database sessions,
and the network simulator of the test framework.  Paths below are relative to
`src/src/`; those of NuDB to `src/src/nudb/include/nudb/`.

## 1. Inventory

### Parts of NuDB and their state

| part | code | state | operations |
|---|---|---|---|
| store | `impl/basic_store.ipp` | pools `p0`, `p1`; cache `c1`; `buckets_`, `modulus_`, `frac_`; `open_`, `ec_`, `ecb_`; mutexes `u_`, `m_` | open, close, fetch, insert, and on a thread of its own run and commit |
| generation mutex | `detail/gentex.hpp` | `gen_`, `cur_`, `prev_`, `cond_` | start, finish, lock_gen, unlock_gen |
| table | `detail/bucket.hpp`, `basic_store::split`, `load` | key-file blocks, spill records in the data file | insert, lower_bound, maybe_spill, split |
| arithmetic | `detail/format.hpp`, `detail/bucket.hpp` | none | bucket_index, bucket_capacity, bucket_size, ceil_pow2 |
| files | `impl/posix_file.ipp`, `detail/bulkio.hpp` | data, key and log file | write, sync, trunc, erase, buffered append |
| recovery | `impl/recover.ipp` | the three files | recover |
| tools | `impl/create.ipp`, `impl/rekey.ipp`, `impl/verify.ipp`, `impl/visit.ipp` | the three files | create, rekey, verify (two algorithms), visit |

### Other parts

| part | code | state | operations |
|---|---|---|---|
| WebSocket stream | `beast/include/beast/websocket/impl/{read,write,ping,close}.ipp` | `wr_block_`, `rd_op_`, `wr_op_`, `ping_op_`, `failed_`, `wr_close_`, and the state of each composed operation | async_read, async_write, async_ping, async_close |
| connection pool | `soci/src/core/connection-pool.cpp` | `sessions_`, condition variable or semaphore | lease, try_lease, give_back |
| pooled sessions | `soci/src/core/session.cpp` | `backEnd_` of the pooled session and of the object that stands for it | constructor, destructor, open, close, reconnect |
| network simulator | `test/jtx/BasicNetwork.h` | links, queue, clock | connect, disconnect, send, timer, cancel, step functions, bfs |

### How they interact

Callers of `insert` are serialized by `u_`; they look for the key in the pools,
in `c1` or in the key file, and put it in `p1`.  The commit thread swaps the
pools, appends the data, computes the changed buckets, publishes them in `c1`
together with the new table shape, waits until no reader of before is left
(`g_.start`, `g_.finish`), and overwrites the key file.  A fetch holds `m_`
shared while it looks at pools and cache, and only a generation while it reads
the key file.  On disk a commit is: log header, data, old buckets to the log,
new buckets to the key file, log truncated, with syncs in between; `recover`
replays the log.  `rekey` builds a key file with the same log mechanism, and
`open` and `recover` meet what `create` and `rekey` leave.

The four operations of a WebSocket stream share its sending side: one that finds
it taken parks, and the one that completes resumes a parked one.  A thread with
a pooled session works through an object that copies the pooled session's
backend pointer.  NuDB, the stream, the pool and the simulator do not use each
other; only the server would bring them together.

### What is hard

Which of several threads looks at the old or the new table, and when the old
one may be overwritten; what a power loss leaves between any two system calls,
also in a recovery from a recovery; an I/O error at any step of a commit or a
recovery; a notification that comes just before the sleep it should end;
entries spilled again while spills are being split; a modulus that is not
stored but recomputed; who resumes a parked operation, and what has changed when
it runs; a handler that breaks the link of the message it handles.
`PROJECT.json` lists each at its line.

### What correctness means

A commit is atomic across crashes.  A fetch finds a key exactly if it has been
inserted, at every moment of a commit.  Inserts are unique.  Reads are never
torn.  Calls return and close commits everything.  A table of any history
survives closing, reopening and rekeying, and the verifiers find in it nothing
but spill records of a size they do not expect.

Frames of a stream mix only where an assertion of the library has failed, none
follows a close frame, and a started operation or closing handshake ends.  A
pooled session is with one thread, and waiting threads get one.  Simulated
messages arrive in order, on time, and only over the link they were sent on.

## 2. The modules

| module | models | composed with |
|---|---|---|
| `Gentex` | the generation mutex and its callers' discipline | |
| `Store` | threads, locks and publication; buckets are sets of keys | extends `Gentex`, `Hashing`; refines `KeyValue` |
| `KeyValue` | abstract: a set of keys to which each call applies at one moment | |
| `CommitLog` | commit, recover, open, close as file operations with crashes; buckets are commit numbers | refines `AtomicCommit` |
| `AtomicCommit` | abstract: a database that changes whole or not at all | |
| `Create` | the three files, and create with its cleanup, as file operations | |
| `Rekey` | rekey, open and recover's branches for them, with crashes | extends `Create` |
| `LinearHash` | buckets, spills, splits, commit loop, rekey passes, verify, visit; one thread, real data structures | `Hashing` |
| `Hashing` | bucket_index, split arithmetic, sizes, ceil_pow2 | |
| `TableShape` | how bucket count and modulus evolve | `Hashing` |
| `WebSocket` | the operations of a stream, its parking slots, the peer and the connection | |
| `ConnectionPool` | both builds of the pool and the session objects | refines `SessionPool` |
| `SessionPool` | abstract: a session is with at most one thread | |
| `BasicNetwork` | links, queue, clock, step functions and bfs | |
| `TableShapeProofs`, `LinearHashProofs`, `StoreProofs`, `CommitLogProofs`, `RekeyProofs`, `ConnectionPoolProofs`, `BasicNetworkProofs` | theorems about the module of that name; `StoreProofs` also those about `Gentex` | |
| `HashingProofs` | lemmas on the table arithmetic and on loops, for the proofs about the table and the store | |
| `MC...` | instances for TLC | |

The same commit appears in three modules at three levels: what it computes
(`LinearHash`), who sees it when (`Store`), and what of it is on the device
(`CommitLog`).  Each leaves to the others what they are about.

### Correspondence with the code

Definitions are named after the functions they model; the steps of a long
function are actions named for what they do, in the order of the code, and
`PROJECT.json` gives the lines of each.  A definition called `f_Something` with
the comment "Mutant" (or "Faulty") is a deliberately wrong version of `f`, used
to confirm that the property it belongs to can fail.

`Gentex`.  A method body runs under the mutex of the gentex, so it is one step;
`finish` is a step from entry or wake-up to return or sleep.  `old` is history:
the readers inside at the last `start`.  `Store` extends the module and takes its
actions where the code calls the methods; what both have under one name is called
`Gen...` in `Gentex`, where `GenSpec` is the mutex by itself.

`Store`.  `pcs[t]` is where a caller is: `f_lock` waits for `m_`, `f_pool` and
`f_c1` hold it shared, `f_kf` reads the key file, `f_df` the data file; `i_...`
likewise for insert.  `c` is where the commit thread is.  Work done under `m_`
held exclusively is one step.  A key-file block is written in two steps and is
`Torn` in between.  `flushed` are the keys whose record is in the data file: a
torn block, or an entry that leads elsewhere, is an `error` of the search, which
`KeyValue` allows only after a failed commit.  A read that the system fails is
another matter: `ReadFails` returns `io_error` from any place where fetch or
insert reads a file, and releases what the call holds.  `m_` is a
`boost::shared_mutex`: a thread that wants it exclusively and finds it shared
blocks newcomers (`Block`) until the last holder leaves.  `close` must not run
concurrently with other calls, as `basic_store.hpp` demands, so it waits for idle
callers.  `ImplementsKeyValue` maps a call to the abstract one from its start to
the step in which its answer is fixed; `missed` is history for a fetch that looks
before another thread inserts.  The timed wait of `run` is `WaitTest`,
`WaitSleep`, and `WaitTimeout` or the notification of `close`.  The throttling
sleep in `insert` is left out: nothing is held during it.

`CommitLog`.  Each file is its content as the system shows it (`df`, `kf`, `lg`)
and the set of contents the device may hold (`dfO`, `kfO`, `lgO`).  A write or a
truncation adds outcomes, `sync` leaves one, `PowerLoss` picks one per file,
`Kill` keeps what the system shows.  Assumptions about the device:

- a block write that is interrupted tears only that block, and not where old and
  new bytes are the same;
- a truncation is atomic, but durable only after the next sync;
- creation and erasure of a file are durable at once;
- an unsynced append to the log survives as a prefix of the records, unless
  `SparseAppends` is TRUE: then it may survive as zeros of the right length.

recover looks at a read error of a record only after it has written the stale
buffer to the record's block (`ReplayReadError`); its own write may fail half-way
(`ReplayWriteError`).  A read error is taken to hit only what is on the device,
since what is not is read from the system's cache: otherwise a power loss that
also took the record would leave the wrong bucket.

recover refuses a record whose spill lies beyond the end of the data file.  A
bucket is only a number here, so the model takes the strictest case: a spill at
the end of the data file as the log header gives it.

`Create` and `Rekey` use the same representation.  A key file is its header
(`none`, `short` for the bare header, `torn`, `block`) and its buckets (`blank`,
`built`, `torn`).  Initially there is a data file and no table, or no data file
but maybe a key or log file that survived one.  An error of `create` leads
through its cleanup, in which every erasure may fail in turn.
`LateLoss` says whether power may fail between the end of rekey and the time the
system has written its caches.

`LinearHash`.  The data file is a sequence of records, an offset is a position;
a value is its key, a spill a bucket.  `flushed` divides what is in the file
from what is in the `bulk_writer`.  `kh` is what the header of the key file says of
capacity and load factor, which rekey may change; `Unit` stands for 65536 in the
split threshold.  A hash function is any element of `HashFunctions`, chosen anew by
rekey's new salt.  The size of a bucket is its number of entries, and
`LeastEntries` the number from which on a bucket is as long as the header of the key
file, below which `bucket_capacity` is zero.  The loops of the
code are `Loop` of `Hashing`: so many rounds of a function on what the loop changes,
where a round after the code has left its loop changes nothing.

`WebSocket`.  `ws.at[o]` is where operation `o` is: waiting for the next layer
(`writing`, `pong`, `reply`, `fail`, `header`), parked, or posted to the
`io_service` (`resumed...`, `again`, `aborting`).  A handler is one step, as on a
strand; the posted ones run in any order.  A frame is its kind.  A fragmented
message goes on with its next frame in the same handler unless a parked read or
ping is resumed in between.  A failed `BOOST_ASSERT` sets `abort`.  A debug build
ends there; a release build (`ndebug`, chosen initially, as SConstruct defines
`NDEBUG`) goes on with what the code then does, for instance with the sending side
taken or freed by an operation that does not have it.  A client masks its frames
(`mask`, chosen with the connection), which decides the branch of a fragment's
write.  `crowded` is history: a ping has been active together with a write or a
close on this connection.  The peer sends any frames, invalid ones too
(`BadFrames`), and the connection may break at any time.  The documentation allows
one of write, ping and close at a time in one place, and a ping besides a write in
another; `PingAlso` chooses.

`ConnectionPool`.  What a thread does between locking and unlocking the mutex is
one step; the signal, which is sent after unlocking, is another.  `build` says
which version was compiled.  A backend is an address, of which there are
`Backends`; a new backend gets one that is not in use, which may be the address of
a deleted one.  `backEnd[i]` is the pointer of the pooled session at position `i`,
`proxy[t]` that of the session object of thread `t`, which the constructor copies.
`open` and `reconnect` of the object go through to the pooled session.  `since` is
history: which of them the object has seen last.  give_back of a position that is
already free throws; no thread does so, since only a destructor gives back, and its
guard says so.

`BasicNetwork`.  `step_one`, `step` and `step_until` call the handler of the first
message; the steps until `HandlerReturns` are what the handler does.  `serial`
numbers connects and messages so that the order of sending and the link can be
compared.  A timer is set for a time that is not past: the overload that takes a
delay calls it with the present time and the delay.  Erasing a message that is
gone is undefined and ends the behaviour (`corrupt`).

## 3. What is model-checked

| run | instance | states | shows |
|---|---|---|---|
| `gentex` | 3 readers, 2 generations | 232 | no reader of before `start` is left when `finish` returns; its wake-up cannot be lost; it returns |
| `commit_log` | 2 commits of 1 record, up to 1 new bucket each, from 1 bucket | 39,446 | atomicity under every power loss, also with I/O errors in recover, idempotent recovery that terminates and refuses no log, refinement of `AtomicCommit` |
| `rekey` | 2 values, 3 buckets, 2 spills | 5,248 | values stay, only whole tables without stray spill records are opened, a failed create undoes itself, a created database opens, retrying succeeds |
| `table_shape` | block sizes to 130, 40 buckets, hashes to 130 | 1,080 | every hash has its bucket, splits are local, reopening keeps the shape, the fast verifier accepts spills |
| `linear_hash` | 4 keys, 3 hash functions, capacities 1 and 2, 1 rekey | 89,382 | lookups find exactly what was inserted; verify and visit agree |
| `store` | 2 threads, 2 keys, 2 buckets, symmetric threads | 180,482 | refinement of `KeyValue` (true answers, unique inserts, no lost view), no torn read, close commits all |
| `store_live` | 2 threads, 1 key, 2 buckets | 23,672 | calls return, close returns, inserts get committed |
| `websocket` | one stream, a ping besides a write or close, invalid frames, both builds, client and server | 28,976 | frames mix only behind two assertions, nothing after a close frame, known assertions only, parked operations go on, the closing handshake ends |
| `connection_pool` | 3 threads, 2 sessions, 2 backends, both builds | 27,176 | refinement of `SessionPool`, no lost wake-up, semaphore and array agree, progress and timeouts, session objects follow unless `open` or a failed reconnect came in between |
| `basic_network` | 3 symmetric peers, delays 0 and 1, 4 connects and sends, queue of 3 | 54,505 | order, no overdue message, only links that still stand, one known double erasure, shortest paths |

A property that another one implies is not stated separately.  That every
inserted key stays in view and is inserted once follows from
`ImplementsKeyValue`, that recover accepts the logs of commit from
`RecoverTerminates`, that committed data stay in the data file from
`EveryPowerLossRecovers`, that entries are in their buckets and chains of spills
are sound from `ToolsAgree`.  The definition `TypeOK` of each module (`GenTypeOK` of
`Gentex`) says what its variables hold; the run `gentex` checks that of `Gentex`,
those of `Gentex`, `TableShape` and `ConnectionPool` are proved, and the others are
there for the reader.

Why the bounds are enough for the cases that matter:

- `gentex`: two generations make the counter wrap at every second `start`, the
  worst case for comparing generations; three readers allow one old, one new and
  one arriving.
- `commit_log`: the second commit starts from files that the first, or a
  recovery from it, left; growing by a bucket and rewriting both old ones both
  happen, as do interruptions of recoveries of recoveries, whose number is not
  bounded.
- `rekey`: interruptions and failed creates are not bounded; three passes
  distinguish a first, middle and last one.
- `table_shape`: 40 buckets cross six doublings of the modulus; block sizes 104 to
  130 hold the smallest valid ones and several capacities.
- `linear_hash`: capacity 1 and four keys on one hash give chains of three spills,
  capacity 2 buckets that must be searched and are split in the middle; full
  buckets of the first are shorter than the header of the key file, those of the
  second are not; a threshold of one and a half inserts gives four buckets and
  more, and several doublings; a write buffer of two records makes flushed and
  unflushed spills meet.
- `store`: two keys that part at the first split, two callers so that one can be
  in each generation, two buckets so that a commit changes shape.
- `websocket`: the stream has four operations and no other parameter; the number
  of frames and connections is not bounded.
- `connection_pool`: three threads and two sessions let one wait while two give
  back at the same time, or two wait for the one that does; two addresses make a
  deleted backend's address come back as that of another session.  Calls are not
  bounded.
- `basic_network`: four numbered operations let a connection be made, used,
  broken, made again with the other delay and used again, within a handler too;
  three peers give messages that a disconnection must not touch, and paths of two
  hops.

`CHECK_DEADLOCK FALSE` is said where the system may stop: a closed store, an
opened table after rekey, the bound on buckets of `table_shape`, a stream of a debug
build after a failed assertion, and a simulator whose bounds are reached.

### Fairness

`Gentex`: a reader with a genlock only performs reads of finite length, and the
committer is scheduled (weak fairness).  `Store`: strong fairness of each caller's
step and of the commit thread, because both wait for mutexes which others take
again and again.  That a thread obtains a mutex which is free again and again is
an assumption: the C++ standard does not promise it of `std::mutex`.  For `m_`
held exclusively the blocking of newcomers supports it.  The commit thread's wait
has a time limit, so it is fair too.  Callers are under no obligation to call.
`CommitLog` and `Rekey`: recovery goes on when it is not interrupted (weak
fairness of its steps); that the interruptions stop is the hypothesis of
`RecoverTerminates` and `RetrySucceeds`.  In `Rekey` the fairness is in part the
user's, who repeats recover and rekey until the store opens; a create that was
called returns.  `WebSocket`: handlers that are posted run and calls of the next
layer complete (weak fairness; strong for the end of a write, since a message has
finitely many fragments), the user keeps a read going, and a peer that was sent a
close frame answers it after finitely many other frames.  The peer owes nothing
else.  `ConnectionPool`: threads run and give back what they leased; a timeout is
an absolute time, so it ends one of a thread's waits (strong).  No thread need
call `lease`, and since neither the mutex nor the condition variable is
first-come-first-served, progress is stated of the pool, not of each thread.
`BasicNetwork` claims no liveness: a handler may send with delay 0 for ever.

### Disagreements between text and code

Two runs check a sentence of the documentation and find a behaviour of the code
that contradicts it; `PROJECT.json` quotes each.

- `rekey_late_loss`: rekey erases its log file before anything has been synced,
  and a power loss then leaves blank buckets that are opened.
- `ws_starved`: an operation that parks behind an automatic pong is not resumed
  when the pong has been sent, only when the read returns.  A peer that falls
  silent after its ping delays a write without limit.  Under `websocket` the
  same writes return if reads keep completing.

Others appear in the models as exceptions which a property names, or behind a
constant:

- With a file system that may extend a file before writing its data
  (`SparseAppends = TRUE` in `CommitLog`) recover replays zeros over bucket 0,
  and `EveryPowerLossRecovers` does not hold.
- recover, interrupted between erasing rekey's key file and the log file, leaves
  a database that neither recover nor rekey accepts (`Orphaned` in
  `RetrySucceeds`).
- The fast verifier rejects spill records of valid databases whose block size is
  104 to 115 (the exception in `FastAcceptsSpills`, and in `ToolsAgree`).
- The normal verifier rejects a database that was rekeyed with another block size if
  the old table had spilled: the old spill records stay in the data file, unused, and
  do not have the new size (the exception in `ToolsAgree`).
- A fetch answered from the cache of changed buckets reads the disk with `m_`
  held (`Store`, `f_c1`), where NuDB's README says locks are never held during
  disk reads.
- A read that parked to fail the connection does not look whether a close frame
  was sent meanwhile (`ClosingHandshake`) nor take the sending side
  (`AbortsAreKnown`); a ping besides a write can fail an assertion.  In a release
  build both go on, and two operations write to the socket at once (the two cases
  `OneWriter` names), although websocket.qbk allows a ping besides a write and says
  that the stream takes care of control frames.
- `open` on a pooled session object connects the pooled session and leaves the
  object without a backend, and a reconnect that throws leaves it with a pointer to
  the deleted one, where multithreading.md says that "all further uses
  will be forwarded" to the pooled session (the cases `ProxyFollows` names).
- A handler of the simulator that breaks the link of its own message makes
  `step_one` erase the message twice (`ErasedOnce`).

## 4. What is proved

TLC decides the properties on the instances of section 3.  The theorems say them
of every value of the constants.  Each rests on an inductive invariant, `IInv` of
its module, which implies the property and is kept by every action: one lemma per
action, and lemmas on files, sets and arithmetic that several of them cite.
`PROJECT.json` lists the theorems.

| module | theorems | of any | assuming |
|---|---|---|---|
| `HashingProofs` | `CeilPow2IsLeast` | word size, argument | the result fits in a word |
| `TableShapeProofs` | `TypeCorrect`, `IndexInRangeThm`, `SplitIsLocalThm`, `BucketFitsBlockThm`, `FastAcceptsSpillsThm`, `ReopenKeepsShapeThm` | block size, number of buckets, hash, word size | the number of buckets and its `ceil_pow2` fit in a word |
| `LinearHashProofs` | `AllFoundThm`, `SpillsReadableThm` | finite set of keys, hash functions, capacities, load factors, write buffer, number and size of rekeys | the same |
| `StoreProofs`, of `Gentex` | `CountersTyped`, `OldReadersGoneThm`, `SleeperHasWakerThm` | finite set of threads, width of `gen_` | `gen_` has two values or more |
| `StoreProofs` | `ReadersUndisturbedThm`, `CloseCommitsAllThm`, `ImplementsKeyValueThm` | finite set of threads, keys, hashes, buckets | the same |
| `CommitLogProofs` | `EveryPowerLossRecoversThm`, `RecoverIsIdempotentThm`, `NeverRefusedThm`, `ImplementsAtomicCommitThm` | number of buckets, commits, records | `SparseAppends = FALSE` |
| `RekeyProofs` | `ValuesStayThm`, `FailedCreateUndoneThm`, `OpenedIsWholeThm` | number of values, buckets, spills | `LateLoss = FALSE`, for `OpenedIsWholeThm` only |
| `ConnectionPoolProofs` | `TypeCorrect`, `SemaphoreAgreesThm`, `ProxyFollowsThm`, `ImplementsSessionPoolThm` | size of the pool, finite set of threads, build | |
| `BasicNetworkProofs` | `Invariance`, `PendingHasLinkThm`, `InOrderThm`, `NoneOverdueThm`, `ErasedOnceThm`, `ClockGoesOnThm`, `BfsShortestThm` | finite set of peers, set of delays, bound on the queue, on connects and on sends | |

`SparseAppends = FALSE` and `LateLoss = FALSE` are assumed where the runs assume
them, and neither can be dropped: see the disagreements of section 3.  That the
bucket count fits in a word is a fact of the key file, whose size in bytes does.

### The arguments

*Generation mutex.*  None of the three properties is inductive.  `GenIInv` says
besides that `cur_` counts the genlocks of the current generation and `prev_` all
others, and that those others are exactly the readers that were inside at the last
`start`, of which there are none before the next `start`.  The last fact is why
wrapping is harmless: a genlock is at most one generation old.

*Table.*  The modulus lies between the bucket count and twice it, and is one or
even (`IsShape` in `HashingProofs`).  The work is in the arithmetic: the remainder
of a hash by the doubled modulus is its remainder by the modulus or that plus the
modulus (`RemainderOfDouble`), so that `bucket_index` changes only for hashes of
the bucket that is split (`SplitOfShape`).  `StoreProofs` uses the same lemmas for a
table that is split while others read it.

That reopening keeps the shape takes more: the modulus is a power of two
(`ModulusIsPower`), and `ceil_pow2` finds the one power of two between the bucket
count and twice it.  The latter is `CeilPow2IsLeast`, by the invariant `InCeil` of
its loop: with `m` rounds to go, the argument has lost its last `e` binary digits
and what is left fits in the `Pow2(m)` bits still to be searched.  Loops are
functions defined by recursion (`Loop`).  What they compute is shown by induction
over the rounds, stated for sets of numbers and of states (`Induction`,
`LoopReaches`), since the prover does not instantiate an operator parameter.

*Buckets and spills.*  What is reached from a bucket is its entries and those of
its spills (`Contents`).  `IInv` says that what is reached from bucket `i` of the
table, the cache of a running commit before the key file, is exactly the entries
that `bucket_index` assigns to `i` among those of the values inserted so far
(`TableOK`).  It holds because buckets and spills are sorted, so that the binary
search and the scan from it on miss nothing (`LowerBound`, `FetchFinds`), and because
a spill only refers to an earlier record, so that following a chain ends and appending
to the data file changes no chain (`BelowStays`).  `TableInsert` and `TableSplit` are
the two steps of a table; a split is the loop over the entries, then one over the
spills, whose invariant (`IsSplitTo`) is that what was inserted again and what is
still to come is what the old bucket had.  A split reads only what is in the file,
since it flushes first.  The rest of `IInv` relates the batch to the data file
(`BatchOK`), makes keys unique (`DataOK`), says what is on disk between commits
(`FilesOK`), and that the modulus is the power of two that `open` will compute
(`SizeOK`).  For `rekey` the invariant of each pass is that the buckets it has done,
and those of the present range as far as the data file was read, have their entries.

*Store.*  The invariant says of each caller what it may count on where it is
(`Caller`): a holder of `m_` shared, that pools and cache stay; a reader of the key
file, that it has a genlock and that its block is not in the cache, or was put
there after the reader had looked; any search, that what is searched was part of
the table and has the key if the table had it when the caller looked.  Of the
commit thread it says that the table it is about to publish has every key of the
pool and of the old table, in its bucket (`Prepared`, `Flushed`), and that a block
it writes is one which readers take from the cache.  That no reader of before is
left while it writes comes from the mutex: every step of the store is a step of
`Gentex` or none (`NextGen`), so the invariant of `Gentex` holds too
(`GenerationsHold`).  For the refinement each action has a second lemma: it is a
step of `KeyValue` or leaves the mapped variables alone.

*Commit.*  `Device` speaks of everything a power loss may leave.  Where the log
may be empty, the files are synced and are one whole database.  Where it may not,
each content it may have is a log of the current commit that leads back from every
content the files may have: the data file begins with the old records, and a block
of the key file that differs from the old one is in the log (`KeysKept`).
`Committing` and `Recovering` say how far commit and recover are, for instance
that the blocks of the records replayed so far are the old ones again.  From
`Device` follows what recover yields (`EveryYield`).  In the refinement a
transaction is in flight while commit runs and while a power loss could still
change what recover yields, and the database is the one of before; otherwise the
database is what recover yields.  Once decided it stays so (`StaysDecided`), until
the next commit begins.

*rekey and create.*  `Disk` is the relation between the files: without a key file
the data file is as it was; when the log may be empty or is not there, the rekey
either has not passed its short header (`Started`) or is complete (`Done`); a log
with a header has the old size of the data file; and a key file that may be short
goes with an untouched data file.  With this, each branch of recover does the right
thing: it erases a short key file, truncates the data file only by a log of the
right size, and clears an empty log only beside a complete table.  With `LateLoss`
a complete table may have blank buckets, which `Done` allows; so the invariant
holds in either case, and only `OpenedIsWholeThm` needs the assumption.

*Pool.*  A position is marked free exactly when no thread has it, and no two
threads have the same one.  Without the latter, giving a position back could free
another thread's.  `find_free` returns the least free position, of which there is
one (`LeastNumber`).  For the pointers the invariant says that two pooled sessions
never have the same backend (`Distinct`) and that an object which has seen neither
`open` nor a failed reconnect has that of its position (`Follows`).

*Simulator.*  `IInv` says that a link has two ends of the same delay and connect
(`Paired`); that a message in the queue was sent over a link that still stands, and
is due no later than one sent over that link now would be (`OnLink`); and that the
queue is ordered by time.  Together these give `InOrder`: a new message goes behind
all of its time, and an earlier one of the same link cannot be due later because the
delay of a link is fixed while it stands.  For `ErasedOnce` the message whose handler
runs is in the queue unless the handler broke its link (`Present`).  `bfs` is a loop
like `ceil_pow2`.  Its invariant (`IsSearch`) is that what was output has its
distance, that the work list is ordered by distance, and that a peer not yet seen is
farther than the head of the list.

### Only model-checked

- Liveness: `FinishReturns`, `RecoverTerminates`, `RetrySucceeds`, `CallsReturn`,
  `InsertsGetCommitted`, `PoolProgress`, `TimedReturns`, and those of `WebSocket`.
  The prover does not reason about `ENABLED`, and so not about fairness.
- `ToolsAgree` of `LinearHash`.  The fast verifier counts: that the entries of a
  bucket's chain are as many as the values that belong to it, each once, is a fact
  about bags of entries, whereas the invariant speaks of the set of them.
- `WebSocket`: a stream has no parameter but which frames the peer may send and
  whether a ping may go besides a write; both builds are in the one specification.
  So it has finitely many states, all of which TLC visits.  A proof would say
  nothing more.

## 5. Not modelled

Of the modelled parts:

- NuDB: byte formats, the hash function, arena and buffers (memory used under the
  store's locks), statistics and progress reports, `set_burst` and throttling,
  Windows files; a failing `posix_fadvise`; a callback
  of `fetch` that calls the store; two programs on one database.
- WebSocket: the synchronous calls, the HTTP upgrade, permessage-deflate, masking
  (but for the branch it selects in a write), UTF-8 checks, and several threads
  without a strand, which the documentation forbids.
- SOCI: destruction of a pool, threads that lease several sessions, statements,
  transactions and the database backends.
- The simulator: handlers that call a step function, random numbers, its
  allocator.

Not at all: HTTP parsing and zlib (functions from bytes to bytes, of whose detail
a bounded model would keep nothing), the Lua binding, the supervisor script (a
sequential loop), and the test suites, which exercise the absent server.

The bundled outside projects (SQLite's amalgamation, RocksDB, protobuf, secp256k1
and others) are most of the tree's six hundred thousand lines.  They have their
own specifications and tests, and of several only headers or parts are here.
Measured against all these lines the share that is modelled is well below one
hundredth, and no faithful model of the parts named in section 1 would change
that.

## 6. Plan

1. Proofs: `ToolsAgree` of `LinearHash`, with the invariant restated for bags.
2. Composition: a crash in `Store` followed by the recovery of `CommitLog`, with
   the buckets of `LinearHash` reduced to sets.
