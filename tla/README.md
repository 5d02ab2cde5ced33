# A verification of the Lightweight Log Processing Engine

TLA+ modules that model the engine of this repository (`src/` below is the
repository's root), TLC runs that check them on small instances, and theorems
about them whose proofs TLAPS checks for every value of the constants.

    tlc -config EngineFaults.cfg MCEngineApi.tla     # a run
    tlapm EngineApi_proofs.tla                       # the proofs of a module

## 1. The system

A C engine keeps logs in a bounded in-memory queue, a processor moves them in
batches to PostgreSQL, and a FastAPI process, a CLI and a web page drive it.

| component | source | state it keeps | operations |
|---|---|---|---|
| linked list | `src/src/core/linked_list.c` | head, tail, size, nodes | init, push_back, push_front, pop_front, clear |
| log entry | `src/src/core/log_entry.c` | id, level, source, message, time | init (refuses what does not fit) |
| buffer engine | `src/src/core/buffer_engine.c` | the list, its mutex, next_log_id, counters with a cached queue depth | init, enqueue, dequeue, requeue_front, mark_processed, mark_error, get_metrics, pending_json, shutdown |
| queue processor | `src/src/core/queue_processor.c` | the default batch size; locals of a call | init, process |
| persistence | `src/src/db/persistence.c` | one libpq connection | init, ping, insert log, insert metrics, close |
| runtime API | `src/src/api/engine_api.c` | initialized, the runtime mutex, last_error, four static JSON buffers | init, add_log, process_queue, get_metrics, get_pending_logs, health, last_error, shutdown |
| configuration | `src/src/utils/config.c` | none | load from the environment, normalise |
| logger | `src/src/utils/logger.c` | stream, level, mutex | init, log, close |
| CLI | `src/src/main.c` | g_running | the line loop, the signal handler |
| FastAPI layer | `src/src/api/app.py`, `engine_client.py` | none of its own | one handler per route, ctypes calls |
| dashboard | `src/web/app.js` | the page | periodic refresh, submit, process |
| academic lists | `src/legacy/academic/` | one integer list: n, head, tail, nodes | insert_0, insert_end, the prints, delete_0, delete_end, delete_pos, dim, clear, find, find_max, invert_range |

How they interact.  The FastAPI handlers are plain functions, so each runs on a
thread of a pool; ctypes releases the interpreter lock, so several threads are
in `engine_api.c` at once.  Every entry point but `engine_last_error` takes
`g_runtime.lock` first and releases it last.  `engine_add_log` queues a log and,
at the threshold, runs the processor in the same call; `engine_process_queue`
and `engine_shutdown` run it too.  The processor takes one entry at a time from
the buffer (under `engine->mutex`, held per operation), inserts it into the
database with no buffer lock held, and on failure puts it back at the head.

What is hard in it, and what makes each part correct:

- buffer: the capacity is tested against a cached depth; entries leave it while
  they are stored and come back; several owners in flight.  No log duplicated,
  leaked or freed twice, depth = length <= capacity, FIFO.
- processor and persistence: an insert can commit and still be reported failed;
  the connection is never reset; the requeue can be refused.  Logs reach the
  table in order, at least once, and the counters say where every log is.
- runtime: serialization by the lock, the batch run nested in add_log, the
  drain loop of the shutdown, what a call leaves behind when it fails, the
  answers read after the lock is gone.  One call at a time, every call returns,
  a runtime that is down holds nothing.

- configuration: negative and huge numbers, zeros, a threshold out of reach, a
  connection string that is cut.  What is accepted is what the engine can run.
- encoder: a buffer that ends anywhere among the pieces, escapes, texts that C
  and Python count differently.  The answer is whole or an error and reads back.
- CLI: a signal between any two steps, or during a read that may restart.  The
  session ends, and its exit status says what became of the logs.
- dashboard: refreshes that overlap and answers that overtake each other while
  routes fail.  What is reported is true, and the page catches up.
- academic lists: every mix of commands at both ends, in the middle and on the
  last node.  One list, linked both ways, that answers like a sequence.

`PROJECT.json` lists the hazards one by one, at their lines, with the
properties that cover them.

## 2. The modules

| module | models |
|---|---|
| `BufferEngine` | the buffer: one action per operation and outcome |
| `Persistence` | the connection and the two tables, with libpq's outcomes |
| `QueueProcessor` | `queue_processor_process`, one step per call it makes |
| `EngineApi` | the runtime: threads, the lock, every entry point; composes the three above; the properties |
| `FifoDelivery` | abstract: accepted logs are stored first in, first out |
| `BufferClients` | the buffer alone, shared by clients with no other lock |
| `LinkedList` | the list as pointers into a heap of nodes |
| `EntryDeque` | abstract: the sequence that `BufferEngine` takes the list for |
| `Config` | the sizes and the connection string from the environment |
| `Cli` | a session of the command line; composes `EngineApi` and `Config` |
| `PendingJson` | the text of a log through POST /logs and out through GET /logs |
| `Dashboard` | the page against the routes it uses |
| `AcademicList` | the academic list as pointers, with its command loop |
| `IntegerList` | abstract: the sequence of integers it stands for |
| `MCEngineApi`, `MCLinkedList`, `MCCli`, `MCPendingJson`, `MCDashboard`, `MCAcademicList` | constants and symmetry for TLC |
| `BufferEngine_proofs` | what every step of the buffer preserves |
| `BufferClients_proofs` | the theorems about the buffer shared by clients |
| `LinkedList_proofs` | the theorems about the pointers, and that they are a deque |
| `EngineApi_proofs` | the theorems about the runtime (types, lock, ownership, accounting), what it delivers (loops, threshold, rows, order, at least once, `FifoDelivery`) and how long a call takes |
| `Cli_proofs` | the theorems about a session and its configuration |
| `Dashboard_proofs` | the theorems about the page |
| `PendingJson_proofs` | the theorems about the encoder and what goes through it |
| `AcademicList_proofs` | the theorems about the academic list: one list both ways, and a sequence of integers |

**BufferEngine.**  `queue` is the linked list as the sequence of the ids it
holds; `metrics` keeps the three counters and `queue_depth`, which is stored and
not derived, since `enqueue` and `requeue_front` test it.  Each operation is one
action because the C function is one critical section.  `EnqueueRefused` stands
for the four paths that count an error and return 0 (full, no entry, too long,
no node), `EnqueueInvalid` for the one that counts nothing.

**Persistence.**  `conn` is `none`, `open` or `broken`; no code resets a broken
connection, so a statement on it can only fail.  `Faults` selects what a
statement may do: be refused, break the connection before or after the commit,
or commit without the code learning of it (`PQexecParams` returns NULL).  `rows`
is `processed_logs` since `persistence_init`, `snapshot` the newest row of
`processing_metrics`; `unsure` counts inserts that committed and were reported
failed.

**QueueProcessor.**  A call is at `dequeue`, `insert`, `mark`, `requeue` or
`snapshot`, and ends at `succeeded` or `failed`; `limit`, `processed` and `entry`
are the C locals.  `GiveUp` is the branch that frees the entry because the
buffer did not take it back; `dropped` counts those and the logs that the
teardown frees.

**EngineApi.**  `lock` is `g_runtime.lock`.  A call that only touches the buffer
or makes one database request is one step, since nothing can be interleaved
with it; a call that runs the processor keeps the lock over its steps.
`op[t]` is the entry point, `pc[t]` the place; at `respond` the caller has been
given a pointer to a static buffer it has not read yet, at `readError` it is
about to ask `engine_last_error`, and `clobbered` collects the threads whose
text was overwritten meanwhile.  `engine_shutdown` is `Shutdown`, then
`NextBatch` as long as a batch processed something, `DrainEnds` (`drained` when
the last batch processed nothing, `aborted` when it failed) and `Teardown`.

**LinkedList.**  `live` are the nodes calloc has handed out; `next`, `prev` and
`item` the fields of all addresses, stale in the freed ones.  `AttachFirst` and
`AttachBehind` are the two halves of `linked_list_attach_after`; a push whose
calloc fails changes nothing and is a stuttering step.  The loop of
`linked_list_clear` takes one step per node (`cursor`), so that the order of
reading `next` and freeing is visible.  `Forward` walks the pointers (`Walk`);
`called` is the last call with the entry it was given.  `ImplementsDeque` maps
that walk, and `called`, to `EntryDeque`: push_back makes the sequence grow at the
back and nowhere else, push_front at the front, which is why `BufferEngine` may
append and prepend to one.

**Config.**  The text of a variable is what strtoul makes of it: `NoNumber`
(unset, empty, or not wholly a number: the default is used) or a number, which
`ParseSize` stops at ULONG_MAX or negates modulo `SizeRange`.  `Accepted` is the
result of `config_load_from_env`, `LoadConfig` what it leaves in the structure,
`ConninfoFits` the result of `config_build_conninfo`.

**Cli.**  `at` is the place of `main`; its calls are `EngineApi`'s own actions on
the one thread `Main`, so a call goes through the same steps as anywhere else.
The loop condition has three places: `test`, where g_running is looked at;
`fgets`, where it has been and fgets either returns a line it holds (or the end
of the input) or goes on to block (`Block`); and `read`, blocked.  `Signal` may
come at any of them and between any other two steps; it wakes main at `read` only.
`restarts` says which semantics
`signal()` has: BSD (macOS, musl, glibc by default) keeps the handler and
restarts the read; System V (glibc without its default feature macros) lets
a blocked fgets return NULL and resets the handler, so that the next signal is `Kill`.
The Makefile asks for `-std=c11`, which on glibc selects System V, but there
`log_entry.c` does not compile so (CLOCK_REALTIME is not declared): a glibc build
has to set the macros, and both semantics are kept in the model.

**PendingJson.**  A character is one of seven kinds, those that the code tells
apart.  `Post` is the whole way in (`ValidRequest` of app.py, `CString` of
ctypes, `CopyText` of log_entry.c); `Begin` to `EndFooter` are the encoder, one
step per `append_raw`, and `Overflow` its error paths; `Answer` is what
`_decode_json` and `get_logs` make of it.  `Document` and `ReadStrings` are
reference definitions: the answer said in one piece, with its `Text` and `Size`,
and a JSON reader (`Read` for each symbol).

**Dashboard.**  The engine is what a page can tell of it.  A refresh `r` asks
three routes (`Ask`), each is served at its own moment (`Serve`), and the page
changes when all have arrived (`Resolve`) or stays when one failed (`Reject`).
`job[j]` follows a press of a button through the try block it runs, the refresh
at its end included.  A database that is up stores what a batch gives it.

**AcademicList.**  `node` is a function from the addresses in use to the nodes, so
that following a pointer to a deleted node has no value and stops TLC.  A command
is a step; the loops along `next` (`Walk`, and those of invert_range, find and
find_max) are recursive functions of the number of nodes met.  `New` is the heap
with one node more.  `line` and `answer` are the command and what it printed; `ImplementsIntegerList` maps the walk to
`IntegerList`'s sequence, whose actions say for each line what must become of
the list and what must be printed.

Left out on purpose: timestamps, the memory estimate (a multiple of the depth),
logging, and, outside `PendingJson`, message text and JSON.  Configuration is
constant while the process runs.  That the capacity is positive, the threshold
in 1..capacity and the batch size at least 1 are named assumptions of the engine's
modules (`CapacityAssumption`, `BatchAssumption`, `EngineAssumption`); they are
what the theorem `AcceptedIsRunnable` gives for every environment.  The buffer's
mutex is assumed to be created when `engine_init` asks for it.

## 3. The runs

| run | question | bounds |
|---|---|---|
| `engine_faults` | do two threads and every fault keep the runtime's invariants, does it implement `FifoDelivery`, and is a call bounded? | capacity 3, batch 2, threshold 2, 6 calls |
| `engine_liveness` | does every call that got the lock give it back? | capacity 2, batch 1, threshold 2, 5 calls |
| `buffer_clients` | is the buffer correct by itself, with several entries out at once? | capacity 2, 4 logs, 3 entries held, 2 counted |
| `linked_list` | is the pointer structure one list, and the deque its callers use? | 4 addresses, 4 entries, both symmetric |
| `cli_session` | may the environment be spelled so, what does the exit status say, does a signal end the session, and how soon? | capacity 3, threshold 3, batch 1, 6 calls, 5 environments, two faults |
| `pending_json` | does the encoder stay in its buffer, write all or an error, and read back? | 4 posts of 7 texts, capacity 3, 9 buffer sizes, preview 1 or 2 |
| `dashboard` | is what the page reports true, is every press answered, do old answers run out, and does the page catch up? | one submission, one click, one timer, 2 refreshes at a time, 1 trouble |
| `academic_lists` | is it one list, and the sequence of integers its user thinks of? | 4 addresses (symmetric), items -1..1, positions -1..4 |
| `shutdown_discards` | is the remaining queue processed before teardown? (violated) | 5 calls |
| `shared_answers` | does a caller read its own answer? (violated) | 6 calls |
| `failed_add` | is a log whose submission failed not in the engine? (violated) | 5 calls |
| `full_buffer` | does reaching the threshold always start the processor? (violated) | 5 calls |

Why the bounds are enough to be interesting.  Capacity 3 with threshold 2 and
batch 2 lets a failed batch leave the buffer above the threshold, fill it, meet
a refused enqueue at capacity, requeue into a buffer with one place left, and
end a batch both by its limit and by an empty buffer.  Six calls are enough to
initialize, fill, fail, drain and initialize again.  The threads differ in
nothing but their names: `engine_faults` checks safety only and uses them as
symmetric; `engine_liveness` does not.  In `buffer_clients` three clients hold
entries against a capacity of 2, so a requeue can be refused.  Its clients init and
shut the buffer down only while none of them holds an entry: buffer_engine.c does
not look, it is what a caller has to see to.

In `cli_session` `SizeRange` is 4096 instead of 2^64, so that negative and huge
numbers wrap within TLC's integers; the defaults (up to 2048) still fit, and the
theorem holds for every range.  `late` is counted to `EnoughLate` = 2, one more
than `OneMoreLine` allows.  The five environments give the same engine in three
spellings (a default, a wrap below zero, a number out of range), a refused
capacity and a connection string that does not fit.  In `pending_json` the arrays
of an entry have 6, 6 and 4 bytes, with the code's relation to the limits of the
request (one more than the characters allowed), and the sizes of the answer
buffer stand on both sides of the header, of an item and of two.  In `dashboard`
`MaxOverlap` = 2 lets an old refresh come in behind a newer one; `MaxTroubles` = 1
is a loss, or a database that goes, or one that comes back, since it may be down
at the start. The requests that overlap in `dashboard` are a submission, a click
and the timer's refresh; two submissions at once take too many states for the
liveness properties, and are covered by the theorems `SuccessHolds` and
`HonestHolds`, which hold for any number. Four nodes in `academic_lists` are the
least number with two neighbours in the middle and an end on both sides.

Fairness.  `Fairness` is weak fairness of `Continue(t)`: a thread inside a call
is scheduled again and its database request returns (with an answer or a
failure).  Nothing forces a thread to make a call, and a thread that waits for
the mutex is promised nothing, as POSIX promises nothing.  A request that never
returns would hold the runtime lock for ever: the code sets a connect timeout
and no statement timeout, so the assumption is about the server.

`CliSpec` is fair to `MainStep` only: main is scheduled and its requests return;
nobody has to type, to close the input or to send a signal.  `DashSpec` is fair
to the timer, to the serving of what was asked (an answer or a failure) and to
the callbacks of the page, and not to the user, who need not press anything.
`PendingJson` and `AcademicList` claim safety only.

What `engine_faults` checks, beyond types:

- `BufferBounded`, `CleanWhenDown`;
- `Accounting`: total_ingested is what is stored and counted, in flight, queued
  or dropped, at every step; `RowsAccounted`: total_processed against the rows of
  the table, up to the inserts whose acknowledgement was lost;
- `RoomForRequeue`: the entry being stored can always go back, so the branch
  that frees a log because the buffer is full again is dead under the lock (only
  a failing calloc loses one);
- `DeliveryInOrder`: the table is in the order of acceptance, a row twice only
  after a lost acknowledgement; `DeliversFifo`: the refinement;
- `AtLeastOnce`: each log by itself and not their sum: every id that was given
  out is a row or pending, but for as many as were dropped, and none is there
  twice but for as many as lost their acknowledgement;
- `BackPressure`: between calls the buffer is below the threshold unless an
  insert has failed; `DrainedIsEmpty`: a drain that ended by itself left nothing;
- `SnapshotBalanced`: a row of processing_metrics adds up;
- `BoundedCalls`: every step of a call that holds the lock makes `StepsLeft`
  less, which is at most 6 * Capacity + 5 when it begins: a failed batch is not
  begun again, and neither `max_items` nor the database can prolong the drain.
  It needs no fairness and says how long, where `CallsReturn` says that it ends.

What the runs around the engine check:

- `EnvironmentFits`, `ExitStatusTells`: an environment that starts the engine
  gives it runnable limits and a connection string that is whole; status 0 means that the runtime is down and, unless
  an insert failed, that every accepted log is in the table once and in order;
  status 1 that nothing was begun.
- `SignalEndsSession`: after a signal main handles at most the one line that
  fgets was already called for (`OneMoreLine`, which is proved), and ends, unless
  it stays blocked in a read for ever.  The condition is needed: under BSD
  semantics a signal at the prompt has no effect before a line or the end of the
  input arrives, and under either semantics the same holds for one that falls
  between the test of g_running and the moment the read blocks.
  README.md:212 says no more than that SIGINT and SIGTERM are handled.
- `WindsDown`: after a signal every step of main makes `SessionLeft` less, which
  is never more than 12 * Capacity + 15: two calls at most and a few tests.  The
  read that main waits in counts as one step, however long it waits.
- `WellLinked`, `ImplementsDeque`: the live nodes are one list, nothing leaks, and
  each function does to it what its name says, at the end its name says.
- `StaysInBuffer`, `WholeOrError`, `ReadsBack`: no byte past the end, all or an
  error, every field read back as it was; `FailsOnlyFor` and `RefusedOnlyFor`
  name all the reasons for which a listing fails and a valid request is refused
  (a raw control character is one of the first, two-byte characters one of the
  second).
- `SuccessIsTrue`, `HonestWhenCalm`: a reported success was one; a queued log is
  reported as failed only if the database, the network or a text that cannot be
  listed is in the way (the refresh stands in the same try block).  `JobsEnd`:
  every press is answered.  `PageCatchesUp`: once the engine rests and answers,
  the page shows it and keeps showing it, although a late refresh may overwrite
  a newer one meanwhile.  `OldAnswersRunOut` says how often: while the engine
  rests, at most once for every refresh with an old answer under way.
- `LinkedBothWays`, `ImplementsIntegerList`: the pointers are one list in both
  directions, nothing leaks, and every line does and prints what the sequence
  says.

`MutualExclusion`, `OneMoreLine` and the types of `BufferClients` have no run of
their own: the theorems `Serialized`, `OneLineAfterSignal` and `ClientTypes` state
them for every value of the constants.

### Where code and documents disagree

1. A shutdown whose batch fails stops draining, frees what is queued and returns
   1 (`engine_api.c:149`); README.md says the remaining queue is processed before
   teardown.  The freed logs show in no counter.
2. The JSON answers are static buffers read after the lock is released
   (`engine_api.c:270`); two concurrent calls of one route can answer with each
   other's text, although the overview calls the mode safe.
3. `engine_add_log` returns 0 when the batch it triggers fails, although the log
   is queued and will be stored (`engine_api.c:203`); the CLI and the page report
   it as not submitted, and a client that retries stores it twice.
4. A full buffer refuses the log before the threshold is looked at
   (`engine_api.c:187`), so after one database failure has let it fill up,
   `add_log` never starts the processor again.

## 4. The proofs

About `EngineApi`'s `Spec`, for every capacity, batch size, threshold, set of
threads, set of faults and bound on calls that satisfies the named assumptions:

| theorem | says |
|---|---|
| `TypeCorrect` | `EngineTypeOK` always |
| `BoundedBuffer` | the cached depth is the length of the list and at most the capacity |
| `Serialized` | a thread is inside the runtime exactly while it holds the lock |
| `LifeInvariant`, `CleanDown` | who owns an entry, and what is up, at every place; a runtime that is down is empty |
| `RequeueHasRoom` | the processor can always give back the entry it took |
| `AccountedFor` | total_ingested accounts for every log |
| `DrainEmpties` | a drain that ended by itself left no log |
| `ThresholdHolds` | between calls the buffer is below the threshold unless an insert failed |
| `RowsCounted`, `PictureConsistent` | the counters against the rows; a row of processing_metrics adds up |
| `DeliveredInOrder` | the table is in the order of acceptance, and older than what is pending |
| `EachAtLeastOnce` | every accepted log is a row or pending, but for the dropped ones; none is there twice but for lost acknowledgements |
| `ImplementsFifo` | `Spec => DeliversFifo`: the runtime implements `FifoDelivery` |
| `CallsAreBounded` | a call that has the lock releases it within 6 * Capacity + 5 of its steps |

About the other components, each for every value of its constants:

| theorem | of | says |
|---|---|---|
| `OneOwner` | `BufferClients` | an entry has one owner: the list, a client, or nobody any more |
| `ReturnedFirst` | | returned entries come out first, the others in the order they came in |
| `ClientTypes`, `ClientsBounded` | | types and depth of the buffer, with no lock but its own |
| `ListTypes` | `LinkedList` | the fields of the list and its nodes keep their types |
| `AlwaysWellLinked` | | the live nodes are one well-formed doubly linked list |
| `ListIsDeque` | | `ListSpec => ImplementsDeque`: the pointers implement `EntryDeque`, each function at its own end |
| `AcceptedIsRunnable` | `Config` | every accepted environment gives limits the engine can run with |
| `SessionTypes` | `Cli` | the state of main keeps its types |
| `RunsConfigured` | | while main has the engine up, its configuration is one the engine can run with, and its connection string was not cut |
| `OneLineAfterSignal` | | after a signal at most one more line is handled, under both semantics of `signal()` |
| `StatusTells` | | what exit status 0 and 1 mean for the logs |
| `SessionWindsDown` | | after a signal every step of main brings the end nearer, from at most 12 * Capacity + 15 |
| `DashTypes` | `Dashboard` | types; a job is refreshing exactly while its refresh is under way |
| `SuccessHolds` | | a reported success was one |
| `HonestHolds` | | while nothing fails, no queued log is reported as failed |
| `OldAnswersEnd` | | while the engine rests, an old picture is shown at most once for every old answer under way |
| `JsonTypes` | `PendingJson` | every buffered field fits its array; the encoder is where it can be |
| `BufferHolds` | | the encoder never uses the last byte of its buffer |
| `AnswersWhole` | | the answer is the whole document if that fits, and else an error |
| `TextsReadBack` | | a reader of a whole answer gets every field of the logs shown back |
| `FailuresExplained` | | when exactly GET /logs answers 500 |
| `RefusalsExplained` | | why a request that is valid for app.py can be refused by the engine |
| `AcademicTypes` | `AcademicList` | the fields, the pointers and the count keep their types |
| `AlwaysLinkedBothWays` | | the nodes in use are one list of n, walked whole from both ends |
| `ListIsSequence` | | `AcademicSpec => ImplementsIntegerList`: every line does and prints what `IntegerList` says |

The argument.  A step of the runtime is, seen from the buffer, one of the
buffer's steps (`NextIsBufferStep`), and seen from the database one of its
requests, so types and bounds are proved once per component and lifted.
`Serialized` needs only the shape of each entry point: it returns at once, or it
takes the lock and goes inside.  `CleanDown`, `RequeueHasRoom` and `AccountedFor`
are not inductive alone.
`LifeInv` strengthens them: the types, the mutual exclusion and `Life`, which
says that a thread owns an entry exactly at `insert` and `requeue`, that ids are
positive (so that an owned entry is never mistaken for NULL), and that the three
flags go up and down together and only a thread inside keeps them up.  From it a
thread at `insert` or `requeue` is alone, its dequeue left a place and nobody
fills it (`NextRoom`); and the logs in flight are those of one thread, so the
accounting becomes a sum that each step moves one unit of (`NextBalance`).

What is delivered.  `Loops` is what a thread inside knows from its place: its
limit is positive, a snapshot closes a batch that stored something, `failed` and
`aborted` come from an insert that failed, and a batch that succeeded with nothing
processed found the queue empty.  The last part is why a drain that ends has
drained.  `Gate` says that without a failed insert the queue is at the threshold
only while a thread is about to take the first log of its batch; a lock that is
free excludes such a thread, hence `ThresholdHolds`.  `NextRows` and
`NextSnapshot` count: a row more is a log to be marked, or one more lost
acknowledgement, which counts as an error too.

For the order, `NextIsFlowStep` shows that every step of the runtime is a step of
`FifoDelivery` (with the ids and the lost acknowledgements it moves) or leaves all
that it sees, which is the refinement.  `OrderInv` is then inductive over seven
steps and not over thirty: the pending logs, the one in flight first, are the last
ids given out, the rows rise (strictly while no acknowledgement was lost), and the
newest row is older than the oldest pending log or is that log.  It needs
`IdsCounted`, that next_log_id is one more than total_ingested.  `Complete` says in
addition that without a failed insert rows and pending are together 1..n.

For `AtLeastOnce` nothing of that order is needed, but an argument about sets.
`EachOnce` says that rows and pending hold only ids that were given out, and that
together they are no longer than the set of their items and the lost
acknowledgements.  It is inductive over the same seven steps, with a lemma for
each kind: `AcceptOnce` (the new id is in neither list), `StoreOnce` (the item
moves), `UnsureOnce` (it is in both, and one acknowledgement more is lost),
`LoseOnce` and `CloseOnce` (pending ones go).  That no more are missing than were
dropped then follows by counting, from `EachOnce` with `Accounting` and
`RowsAccounted` (`MissingCounted`).

How long a call takes.  `StepsLeft` gives each pending log six steps, the most
that is done about one (a batch with its snapshot, in a drain with batches of
one), and each place of the processor what is left from there if nothing more is
stored (`Rank`).  That it falls is not the shape of the actions alone: that the
entry in hand is one of the pending comes from `LifeInv` (`PendingLength`), and
that a snapshot closes a batch that stored something from `Loops`.

The session.  A step of main is a step of the runtime or leaves it alone
(`SessionCallsEngine`), so `DeliveryInv` (`LifeInv`, `Loops`, `IdsCounted`,
`OrderInv` and `Complete`) holds in a session too.  `CliInv` adds what main knows
from its place: `Seat` (whether it is inside a call, and which; whether the
runtime is up), `Configured` (what is up was configured by an accepted
environment) and `Noticed` (a signal that was handled is in g_running, and fgets is
not called again once a line was handled after it).  `StatusTells` follows from `Complete` at the place
where main closes.  For `SessionWindsDown`, `Bounds` carries through a session that
a call is within the bound its beginning set, so that what `SessionLeft` allows
for a call is enough whichever command it is (`MainWindsDown`); a signal only
moves main forward (`SignalWindsDown`).

The page.  `Reports` follows a submission from its press to its report: it is
accepted if it is `ok`, not accepted while it is `sent`, and what stands under the
form is about one that is settled for good, so a later step cannot make the
report untrue.  `Undisturbed` is `HonestWhenCalm` with its reason: while nothing
goes wrong no refresh fails, and a submission with an error was refused.
`OldAnswersEnd` needs the types only: an answer is as new as the moment it is
served (`ServedIsNew`), and a picture is no longer on its way once it is shown
(`ShownIsGone`).

The buffer alone has no lock around a take and the return that may follow, so
nothing says how many entries are out.  `ClientInv` says instead that the ids
given out so far are the disjoint union of the listed, the held and the freed
ones (`Shared`), that the list repeats none, and that it is ordered.
`OneOwner` and `ReturnedFirst` are parts of it, each put and take being a lemma
about lists (`PutBehind`, `PutInFront`, `TakeFirst`); a list without repetition
has as many entries as places (`AsManyAsPlaces`).

`WellLinked` says that some function c from 1..k lists the live nodes; it is
inductive with the types.  The proof takes c from the state before, and gives
the one after: c with the new node in front (`FrontLinked`) or behind
(`BackLinked`), or without its first element (`FirstUnlinked`, which serves both
the pop and the loop of the clear).  For the deque, `WalkIsChain` shows that the
walk along the pointers is that c, and each lemma of the links says what becomes
of it; `PushInserts` keeps the two pushes apart (in an empty list push_back
attaches at the front, and the two ends are one).  The walk is a recursive function: that exactly one function satisfies its
equation is shown by looking at the least argument where two would differ
(`Least`), which needs no induction theorem with an operator for its parameter.

The encoder.  `Sent` says of an answer in the making that some pieces are written,
with their symbols and their sizes, and that they and the pieces to do are the
document up to the item begun (`Upto`), or all of it at the footer.  A piece that
fits moves over (`PieceMoves`); one that does not is part of a document that is at
least as long (`SizeGrows`, `DocumentIs`), which is the hard half of
`AnswersWhole`.  Texts and sums are recursive functions over sequences of any
length.  Induction is over the set of the lengths with the property (`Induct`,
from `Least`): it gives, once for each function, what one piece more does
(`FlattenAppend`, `SizeAppend`, `TextAppend`), and the rest uses only that.
`FailuresExplained` follows a control character through the pieces
(`ControlInDocument`).  For `TextsReadBack` the reader is followed through the
document (`Reads`): a fixed part leaves it outside of a string, an escaped byte
appends that byte (`ReadsByte`), a log adds its three strings.

The academic list.  `Chained` says that some function c lists the nodes in use in
order, both pointers of each being those of its neighbours in c (`Ordered`); the
types and `LinkedBothWays` follow from it.  Every command that changes links puts
one node in (`PutIn`), takes one out (`TakenOut`) or drops them all, so the
assignments of insert_0, insert_end, delete_0, delete_end and the middle of
delete_pos are each compared with one of the two, with the place of the node for
a parameter.  For the refinement the integers go along (`NodePutIn`,
`NodeTakenOut`), and each command gets a lemma that says what it does to the
sequence and prints.  Three loops have an induction of their own (`Recursion`,
`Induct`): the two of invert_range together change the range only, to what it was
read backwards (`RangeInverted`, `RangeTurned`); find stops at the first place of
the item (`LooksFinds`); find_max ends at the first of the greatest
(`ClimbsToTop`), which is where the strict comparison of the code is needed.

`AcceptedIsRunnable` needs that what is parsed is a size (`ParsedIsSize`, from the
range of a remainder); the clipping does the rest.

Assumed, besides the shape of the constants: capacity and batch size at least 1,
the threshold in 1..capacity (what `AcceptedIsRunnable` gives); that an array of
log_entry.h is longer than what app.py lets through in characters and than the
default engine_api.c puts in its place (`JsonAssumption`); that there are finitely many
addresses and that items and positions are integers (`AcademicAssumption`), in
place of the width of an int: nothing is added to an item, and the count leaves
the range of an int only after 2^31 nodes, some 50 gigabytes of them; and that
`max_items` = 0, which main passes for the default batch, is among the arguments
considered (`CliAssumption`).

Only model-checked.  `EnvironmentFits`: it says that the environments a run lists
spell the capacity, threshold and batch that the run gives the engine, which is a
fact about that run's constants; its general part, that an engine that is up was
configured with limits it can run with, is the theorem `RunsConfigured`.  The
liveness properties (`CallsReturn`, `SignalEndsSession`, `JobsEnd`,
`PageCatchesUp`), since the prover handles neither fairness nor ENABLED.  What of
them is safety is proved: `CallsAreBounded` and `SessionWindsDown` leave to TLC
that the next step is taken, `OldAnswersEnd` that the page is refreshed again.

## 5. Not modelled

`engine_init` is one step with three outcomes.  Its cleanup paths are not taken
apart: nothing else runs under the lock meanwhile, and the log stream and the
buffer's mutex are not resources of the model.  The logger writes lines to a stream under a mutex of its own and
hands nothing back; no other component depends on it.  Docker, the Makefile and
the scripts build and start the system.  The tests are read as documentation of
the intended behaviour.  HTML and CSS have no behaviour of their own.
