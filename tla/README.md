# Verification of the MQSS QDMI Devices Suite

TLA+ models of the three devices of this repository, checked with TLC, with
theorems checked by TLAPS. Paths below are relative to the repository root.

## 1. The system

The suite builds three shared libraries that implement the QDMI device
interface. A QDMI driver loads them; a client (through the driver) initializes a
device, allocates sessions, sets parameters, initializes the session, creates
jobs or telemetry queries on it, and frees everything. A device never calls back.
The three share no code and no state; what they have in common is the shape of
the interface.

| device | source | what it does | external party |
|---|---|---|---|
| DCDB | `src/databases/dcdb` | telemetry queries, run by `std::async` | DCDB (Cassandra) host |
| Qaptiva | `src/simulators/eviden` | quantum jobs, run in an embedded Python interpreter | QLM appliance or noisy HTTP server |
| LRZ | `src/datacenters/lrz` | quantum jobs, submitted to a portal | Munich Quantum Portal (MQSS client) |

### DCDB

* State: one static device status that nothing reads or writes but initialize and
  finalize. Per session: host, port, user, password, status (ALLOCATED,
  INITIALIZED), a connection pointer. Per query: two times, a sensor, a status,
  a list of readings, a `std::future`.
* Operations: session alloc, set_parameter, init, free; query create,
  set_parameter, submit, check_status, wait, get_results, cancel, free. The job
  functions return NOTSUPPORTED.
* Concurrency: `submit` starts `submit_query` on the query object with
  `std::async`'s default policy (a new thread, or deferred to `wait`). Client and
  task use the same fields with no lock. The future, declared last in the
  struct, joins the task when it is overwritten or destroyed.
* Correct when: no task uses a destroyed object; results are readable only when
  they are complete; every call returns; an initialized session is connected as
  it was configured.

### Qaptiva

* State: four statics (device status, "driver is Python", remote qpu, auxiliary
  module). Per session: url, noisy flag, status. Per job: parameters, status,
  results.
* Operations: initialize (starts Python, imports the module), finalize, session
  alloc, set_parameter, init (connects the remote qpu), free; job create,
  set_parameter, submit (blocks until the appliance answers), check, get_results,
  free. Cancel and wait are not supported. get_results converts: it computes sizes
  and builds a table of dense probabilities, which the job keeps.
* Hard: several threads can be inside submit, because Python releases its lock
  while it waits for the network, and must get it back on every exit; every step of
  submit can leave through `CHECK_PYTHON_ERROR`; the statics are shared by all sessions.
* Correct when: the device is not left BUSY, a submitted job ends done or failed,
  is executed once, and on the host of its session.

### LRZ

* State: one static device status. Per session: url, token, MQSS client, resource,
  lists of sites, operations and coupling map. Per job: circuit, format, shots,
  status, request, uuid, result, two histogram fields.
* Operations: initialize, finalize, session alloc, set_parameter (url, token,
  resource), init, free, property queries; job create, set_parameter, submit,
  cancel, check, wait, get_results, free.
* Hard: the portal moves independently of the client; all jobs write one status
  flag; the result may be fetched by wait and by get_results; the lists are
  rebuilt by appending.
* Correct when: the lists describe the session's resource, reported ends are the
  portal's, the device is not BUSY without a reason, the histogram is read once.

Everything in the code that is hard to test is listed, at its line, under
`hazards` in `PROJECT.json`, with the properties that cover it.

## 2. The modules

| module | models | extends |
|---|---|---|
| `DcdbSession` | DCDB device status and sessions | |
| `DcdbQuery` | DCDB queries and their tasks, composed with the sessions | `DcdbSession` |
| `DcdbResults` | get_results of a query, step by step against its task | `DcdbQuery` |
| `AsyncAnswer` | what a query promises its client (abstract) | |
| `DcdbSessionProofs` | theorems about `DcdbSession` | `DcdbSession` |
| `DcdbQueryProofs` | theorems about `DcdbQuery` | `DcdbQuery`, `DcdbSessionProofs` |
| `DcdbAnswerProofs` | `DcdbQuery` implements the safety part of `AsyncAnswer` | `DcdbQueryProofs` |
| `DcdbResultsProofs` | theorems about `DcdbResults` | `DcdbResults`, `DcdbQueryProofs` |
| `Qaptiva` | the whole Qaptiva device | |
| `QaptivaProofs` | theorems about `Qaptiva` | `Qaptiva` |
| `LrzSession` | LRZ device status, sessions and their resource lists | |
| `LrzJob` | LRZ jobs and the portal, composed with the sessions | `LrzSession` |
| `LrzProofs` | theorems about `LrzJob` and the resource lists | `LrzJob` |
| `QdmiJob` | what a job of any QDMI device promises its client (abstract) | |
| `QdmiAnswers` | sizes told, tested and written by the property macros and get_results | |
| `QaptivaResults` | the outcomes of a Qaptiva job and its dense probabilities | |
| `TwoCalls` | a client that asks for a size and reads into a buffer | `QdmiAnswers`, `QaptivaResults` |
| `QaptivaResultsProofs` | the dense table is exact, for every result | `QaptivaResults` |
| `TwoCallsProofs` | theorems about `TwoCalls` and the answers | `TwoCalls`, `QaptivaResultsProofs` |
| `MCDcdbQuery`, `MCDcdbResults`, `MCLrz`, `MCTwoCalls` | constants for TLC | |

A definition marked *mutant* is a plausible bug that `PROJECT.json` puts in the
place of the definition after it, to see the property fail; it is in no
specification.

**`DcdbSession`.** One action per session function. `config` holds what
set_parameter wrote, `dialed` the configuration the connection was created with,
`link` the connection pointer. A refused connection is an outcome of
`SessionInitialize` that leaves the object in place, as `connect` does; a second
`session_init` is then FATAL and changes nothing. Freeing a session without a
connection and a parameter value that is NULL are undefined behaviour, modelled as
the end of the process (`crash`).
`ToPort` narrows the number to `uint16_t`.

**`DcdbQuery`.** Client calls that return at once are single actions. The blocking
ones have a program counter `call[q]`; a task has `pc[<<q, n>>]`, n being the
submission. `submit` is three steps: write SUBMITTED (`Submit`), start the task
(`Launch`), move the new future over the old one (`Adopt`), which blocks until the
old task has returned. `submit_query` is one step per access to the query object:
write RUNNING, read connection and parameters, wait for the host, store the
readings, test CANCELED, write DONE. `cancel` is a test and a write. All accesses
are sequentially consistent: the data race itself is undefined behaviour in C++,
and the model covers the interleavings of single accesses, not torn or reordered
ones.

**`AsyncAnswer`.** A query is created, works, is answered once, and is freed when it
does not work; something is readable only once it is answered; work that started
is answered. `Safety` is the part without fairness. `DcdbQuery` implements the
specification for queries submitted once (`AnswersAsPromised`, with the mapping
`stage`, `readable`). A second submission would turn an answered query back into a
working one, which `AsyncAnswer` does not allow: a client that resubmits is not
promised this, and `dcdb_unfinished` shows what it sees instead.

**`DcdbResults`.** get_results is three accesses to the query: test the status, take
the length, copy the list. Tasks and a canceling thread step between them, the
client's other calls on the query do not. It has its own variables and leaves those
of `DcdbQuery` alone, so that what holds of them there holds here.

**`QdmiJob`.** A job is created, submitted at most once, ends succeeded or failed, and
its client is told that end once and for good. `Qaptiva` and `LrzJob` implement it
(`JobsAsPromised`): a Qaptiva job ends inside submit, where its stage is `failed`
from the error exit on and its status tells so a step later; an LRZ job ends in the
portal and is told by check. LRZ implements the fair version, Qaptiva only the
safety part, because an incomplete noisy job never ends.

**`QdmiAnswers`, `TwoCalls`.** An answer is computed from the value's length and the
buffer's size, all in bytes: whether the call succeeds, what it writes, how much of
the value the buffer then holds, and the size it tells. The macros of the three
devices differ only in C and C++ spelling and share one operator each.
`TwoCalls` takes a value of one kind and lets a client ask and read in any order,
with any buffer, while the value may change: LRZ lists grow (`setResource`, a second
wait), a string or the readings of a DCDB query become others, the portal adds
resources. A Qaptiva job's results stay; its dense table is built by the first
query. A NULL buffer is `NoBuffer`; a call that passes neither buffer nor size
pointer is refused by the code and left out.

**`QaptivaResults`.** `Outcomes(w)` are all results of w qubits: at least one outcome,
no key twice, in any order. `DenseTable` is the loop of get_results with `Strtol`, both
as recursive functions over the rounds of their loops, and `ProbabilityOf` the reference it is compared with. With one outcome the search for
a comma leaves the string: it is found at one of the next `MaxOverrun` positions.
`n_state` and `table` are the job's two pointers of these names, which the code sets
together; 0 stands for the null pointer. The assumption `MaxWidth + MaxOverrun <= 30`
keeps `1 << n_qubit` in the `int` the code computes it in; what the code
does with wider registers is not modelled.

**`Qaptiva`.** Device functions, session functions and job functions are actions;
submit is `Submit`, which chooses between submit_job (`pc` is "shared") and
submit_noisy_job ("noisy"), then `Acquire`, `Run`, `Acquire`, and one of `Finish`,
`FailEmpty`, or `Fail` and `MarkFailed`, so that other threads step between them.
`Fail` is every exit through `CHECK_PYTHON_ERROR`, which releases the lock and sets
the device status to IDLE before the caller writes FAILED. `lock` is the thread that
holds Python's lock (`PyGILState_Ensure` and `_Release`; Python gives it up itself
while it waits for the appliance, `Run`). `FailEmpty` is the exit of submit_noisy_job
for an empty list (`qaptiva.c:886-890`), which does not release it: such a thread is
in `kept`, goes through every later Ensure, and gives nothing back. The shipped
`qaptiva_auxiliary.py` returns no empty list, but which module is imported is up to an
environment variable. `FinalizeBlocked` is finalize waiting for a lock somebody
kept. Calls of Python through a NULL module or url, without an interpreter or without
its lock, and set_parameter with a value that is NULL or too long, are undefined
behaviour and end the process (`Crash`, with its cause). `Driver` says whether the
driver is a Python program, which then owns the interpreter, and the lock between
its calls.

**`LrzSession`, `LrzJob`.** The lists hold qubit indices; `Describe` is setResource
with setSites, setOperations and setCouplingMap, which append. `SitesAt` is
`sites.at(qubit)`. `PortalStep` is the portal, the only external definition.
`Fetch` is what wait and get_results share. The portal has the five words `Told`
converts; with another one check would return FATAL (`lrz.cpp:426-428`) and change
neither the job nor the device.

### Assumptions about the client

QDMI declares the use of freed handles undefined; the models assume:

* a handle is used between its creation and its free, and a session is freed after
  its jobs and queries (DCDB's session_free checks neither; a live query would then
  use a deleted session);
* calls on one job or query are made one at a time, except that a DCDB query may be
  canceled while another thread waits for it;
* Qaptiva's initialize and finalize are called while no submit runs, and a Python
  driver finalizes what it initialized; a second initialize of a thread that kept
  Python's lock is not told apart from one without it;
* an LRZ client sets no empty url and passes no value that is NULL (of which
  set_parameter would make a string, `lrz.cpp:112`), asks for resources the portal knows, and sets
  the resource of a session after session_init;
* in `DcdbSession` and `DcdbQuery`, the calls that end the process (free before init,
  wait before submit, a NULL value) are made only when `UncheckedCalls` names them;
  `dcdb_resubmit` has all three;
* in `TwoCalls` a client that reads LRZ's resource names passes a buffer of zeros,
  as the tests do (the names are appended to it), and a buffer of size zero is
  passed to a list only of the functions that accept one (`device_property`, LRZ's
  `get_results`);
* a Qaptiva result has at least one outcome;
* in `lrz_jobs`, `WaitAgain = FALSE`: a client does not wait for a job whose
  histogram it has. With TRUE the code appends the counts again.

## 3. The runs

| run | expects | what it shows |
|---|---|---|
| `dcdb_single` | pass | two queries submitted once: readable results are complete, get_results reads undisturbed, submitted queries settle, `AsyncAnswer` is implemented |
| `dcdb_resubmit` | pass | one query submitted twice, launched or deferred, on a session configured and refused in every order: no dead object is used, tasks overlap only inside submit, DONE means stored readings, an initialized session is connected as configured, wait and free end the process on fresh handles only, calls return |
| `dcdb_cancel` | violation | a canceled query becomes RUNNING or DONE |
| `dcdb_unfinished` | violation | resubmission makes an unfinished query readable |
| `dcdb_window` | violation | a task asks for a window submit never accepted |
| `dcdb_values` | violation | a buffer of the size told for a query's values takes twice as many bytes |
| `qaptiva_jobs` | pass | two threads submit on one session, noisy or not, with failures at every step: BUSY, stuck and repeated jobs, Python's lock, when a NULL module or url is used; submit returns; `QdmiJob` is implemented |
| `qaptiva_shared_qpu` | violation | with two sessions a job goes to the other session's host |
| `lrz_jobs` | pass | two jobs and the portal: reported ends, BUSY and its end, histogram, one resource; `QdmiJob` is implemented |
| `lrz_resources` | violation | a second resource is appended to the first |
| `two_calls` | pass | every kind of value but DCDB's VALUES, buffers of every size: nothing overflows or is cut, the size told is enough, dense probabilities are exact |
| `qaptiva_keys` | violation | a buffer of the size told for a Qaptiva job's keys lacks the last bit |

The seven violations are disagreements between the code and a comment or test of
the repository; `findings` in `PROJECT.json` quotes both. Others happen in one step
and have no run of their own:

* LRZ's session_init replaces the url a client has set (`lrz.cpp:134`; modelled in
  `SessionInitialize`), because its test is inverted, while `setURL` promises that
  "Set values are used to connect to the MQP" (`session.h:95`).
* DCDB's documentation says of a NULL value "If this is NULL, it is ignored"
  (`dcdb.cpp:374-376`, `787-789`); it passes the argument tests and is read
  (`SetNullValue`, `SetQueryNullValue`). Qaptiva reads it too (`SetUnchecked`).
* "The session must be freed" (`dcdb.cpp:287-289`), but freeing one that was never
  initialized uses its null connection (`session.h:156`; the second disjunct of
  `SessionFree`). A wait before submit uses an invalid future (`dcdb.cpp:1102`).
* A second initialize of Qaptiva calls Python without its lock (`qaptiva.c:1226`), and
  so does finalize with a remote qpu (`qaptiva.c:1362`), as the TearDown of the tests
  calls it (`QaptivaBackendTest.cpp:103-106`).
* A failed import leaves a NULL module behind a device that is IDLE
  (`qaptiva.c:335`).

All of them are in the models. What the properties say about them is that they do
not spread: `EndsOnFreshHandles`, that DCDB's wait and free end the process on fresh
handles only, whatever submits, refusals and cancels came in between;
`UnreadyOnlyEarly`, that Python is given a NULL module or url only after a failed import
or by a job submitted before its device or session was initialized. No property says
that the process does not end: for NULL values and for the calls without Python's
lock it does. A `stoi` that throws is not in the models.

`SubmitReturns` excepts what the kept lock causes: once a thread left submit with an
empty list, no other thread's submit is sure to return. `LockGivenBack` says that this
exit is the only one that keeps the lock.

Two exceptions are written into the properties of `two_calls`: LRZ's resource names
are written without a look at the size (`WritesFit`), and a DCDB query without
readings refuses the zero bytes it told (`CarefulSucceeds`). `NeverTruncated` says nothing
of Qaptiva's keys in a buffer of their own length, which is what `qaptiva_keys` is for.

Bounds, and why they are enough. Sessions of DCDB share nothing but a device
status nobody reads, so one session is explored, with two hosts and a port that
wraps beside the default one; user and password are set like the host and have one value. Queries of one session share only the
session: `dcdb_single` has two, to interleave them and their session's free;
resubmission concerns one query, so `dcdb_resubmit` has one and `MaxSubmits = 2`,
which is the first value where tasks overlap (the proofs cover any), and with
all calls that end the process in `UncheckedCalls`. Two
timestamps suffice for a window that starts after it ends; the properties of
`dcdb_single` do not depend on the parameters, so it has one. Qaptiva needs two
jobs and two threads for overlapping submits, and two urls for a url changed too late; one session
in `qaptiva_jobs`, because `OwnHost` is false with two, which is what
`qaptiva_shared_qpu` shows; the proofs of the others cover any number of sessions.
LRZ needs two jobs for the shared flag, two resources of two and three qubits for
wrong indices; `MaxResources = 2` allows one change of resource and
`MaxFetches = 2` one fetch too many. `two_calls` has
lists of up to three elements of four and eight bytes, every result of one and two
qubits (all keys, all orders), and every buffer size up to one byte more than these
values need; the one larger table (64 bytes) comes from an overrun of one position.
`CHECK_DEADLOCK FALSE` everywhere else: handles are finite and a client that has
freed them all has nothing left to do; blocked calls are excluded by
`CallsReturn` and `SubmitReturns`.

Fairness. `DcdbQuery!FairSpec`: the steps of a task and the device's part of a call
are weakly fair, which the thread scheduler provides, with a DCDB host that
answers. No client call is fair: a client may stop at any time. A cancel that has
tested the status is a thread of its own and goes on. `Settles` holds for launched
tasks only: a deferred task nobody waits for never runs, so the policy is `async`
there, as on the platforms where `std::async` with the default policy starts a
thread; `dcdb_resubmit` has both. `Qaptiva!FairSpec`: the steps inside submit are
weakly fair; the code has no timeout, so that Python returns is an assumption
about the appliance. Weak fairness of `Acquire` says that a thread gets a lock that
stays free; it is enough, because each job is submitted once, so that only finitely
many others can take the lock before it. `LrzJob!FairSpec`: the portal goes on with what it accepted, and
the client polls: it calls check for a job until it is told the end or frees the
job. The device has no thread of its own, so without a poll nothing ever ends; the
polling client is the QDMI usage (`job_check`) and an assumption. `BusyEnds` and
`JobsAsPromised` need it. `DcdbResults!ResultsSpec` adds the two steps that finish a
get_results call.

## 4. The proofs

All statements are for any finite or infinite sets of handles, and any bound on
resubmission, on the length of values and on fetches, from the named assumptions of
the modules only. A further hypothesis (`MaxSubmits = 1`, `~WaitAgain`,
`"readings" \notin Kind`, one Qaptiva session) is part of the statement; in each case
the code violates the property without it, and the runs or section 3 say how.

`DcdbSessionProofs`:

* `SessionTypeCorrect`: `SessionTypeOK`; `ToPort` stays below 2^16 for every number.
* `SessionConnected`: `ConnectedAsConfigured`. A session that has status
  ALLOCATED can be configured, one that is INITIALIZED cannot, and a session that
  has a connection object never dials again.

`DcdbQueryProofs`:

* `TypeCorrect`: `TypeOK`. It is inductive only with `LaunchBound`: a call that is
  about to launch a task has counted it.
* `SessionsConnected`: `ConnectedAsConfigured` holds in the composition too.
* `AtMostOneTask`: `OneTask`. It is not inductive alone: that `Adopt` may drop the
  old future needs that `Releasable` speaks of the only older task that can be
  unfinished, which is `OneTask` before the step together with `FutureOfLast`
  (the future is that of the last submission except inside submit).
* `TasksTouchLiveObjects`: `TaskObjectsAlive`, from `OneTask` (a free joins the only
  task: `TaskAlive`), `CalledAlive` (a call is on a live query), `OwnerInitialized`
  (a live query has an initialized session, because sessions are freed after their
  queries) and `ConnectedAsConfigured`. Their conjunction is `LifetimeInv`.
* `SingleSubmissionComplete`: for `MaxSubmits = 1`, `ReadableIsComplete`, from
  `CompleteInv`: DONE is written only when the task has stored its results, by the
  task or by a wait that joined it. Without the assumption the property is false,
  as the run `dcdb_unfinished` shows.
* `DoneHoldsReadings`: `ReadableIsStored` for every `MaxSubmits`. What is left of
  `ReadableIsComplete` for a client that resubmits: the readings are those of one of
  its submissions. `StoredInv` relates the list to the task that stored it; a launch
  takes a task that was not used (`n <= submits`), so that no stored list loses its
  task, and releasing a future leaves tasks that stored alone (`StoredRelease`).
* `OnlyFreshHandlesEnd`: `EndsOnFreshHandles`. The future of a query is that of its last
  submission when no submit is inside (`FutureOfLast`), so it is invalid only before the
  first; an initialized session has a connection (`ConnectedAsConfigured`), and a
  refused one keeps its object. A process that ended takes no further step.

`DcdbAnswerProofs`:

* `QueriesImplementAsyncAnswer`: for `MaxSubmits = 1`, `Spec => Promise!Safety`. The
  mapping is first brought to the one task a query then has (`Mapped`: the stage is
  a function `StageOf` of `live` and of that task's program counter). Then every
  action is an abstract action or shows nothing: `Launch` of a thread and `Wait` on a
  deferred task are `Work`; the last step of the task (`TaskCheck` of a canceled
  query, or `TaskMark`) is `Answer`; a late `CancelSet` and `WaitReturn` are `Turn`;
  `FreeReturn` is `Free`, because it joined the task. The invariants used are
  `LifetimeInv` and `CompleteInv` (nothing is readable before the task returned), and
  `Unborn`: a query that was not created has no task.

`DcdbResultsProofs`:

* `ReadersImplementQuery`: `ResultsSpec => Spec`. Each step of a reading client is a
  step of `DcdbQuery` or leaves its variables alone, so all theorems above hold
  while results are read.
* `ResultsTypeCorrect`: `ResultsTypeOK`.
* `ReadersUndisturbed`: for `MaxSubmits = 1`, `ReadsUndisturbed`. The inductive
  invariant `ReadAfterTask` says that the only task has returned while results are
  read; the test of the status establishes it by `CompleteInv`, and `FinishedStays`
  shows that no step restarts the task or writes the list.

`QaptivaProofs`:

* `TypeCorrect`: with the job being unsettled, and having a thread, while inside submit.
* `NeverLeftBusy`: `BusyIsRunning`. The status becomes BUSY together with the
  thread's entry into Python, and no step leaves Python without writing IDLE.
* `OnlyIncompleteJobsStick`: `OnlyIncompleteStick`, from the same invariant.
* `JobsRunOnce`: the action property `RunsOnce`, with `UnsentInv`: a job that was not
  submitted, or is on its way to Python, was sent nowhere.
* `UnreadyOnlyBeforeReady`: `UnreadyOnlyEarly`, for both drivers and whatever imports may
  give. It is inductive with `LoadedInv`: the module is loaded only while the device is
  not offline, a device that is not offline lacks it only after a failed import, a
  thread in Python has it (initialize and finalize are called while no submit runs),
  and an initialized session has a url.
* `LockReturned`: `LockGivenBack`, for any number of threads. The steps that take a
  job out of submit or into `failing` give the lock to nobody or to a thread that had
  kept it (`Released`), but for `FailEmpty`, whose thread joins `kept`.
* `SingleSessionOwnHost`: for a client with one session, `OwnHost`: the static qpu
  is null or the url of a session that was initialized (`KnownQpu`), which cannot
  change any more.
* `JobsImplementQdmiJob`: `JobsAsPromised`. Steps of sessions do not touch the mapping
  (`MappingElsewhere`); of the steps of a job, `Submit` is the abstract
  submit, `Finish` and `FailEmpty` end and tell at once, `Fail` ends the job
  and `MarkFailed` tells it; `Acquire` shows nothing.

`LrzProofs`:

* `TypeCorrect`: `TypeOK`, in particular `sites.at()` never misses in the lists the
  portal describes. The strengthening `PortalKnows` relates a job's status to the
  portal: a job that is not `created` was submitted.
* `ToldEndsAreReal`: `EndsAreReal`, inductive with `PortalKnows`, because the portal
  never leaves an end.
* `BusyForAReason`: `BusyIsOwed`. Every step that writes BUSY leaves the job it was
  called for submitted and unreported; every step that reports an end writes IDLE.
* `CountsReadOnce`: for a client that does not wait again, `HistogramOnce`, from
  `HistogramKept` (a histogram that was read comes with the result that is kept).
* `FirstResourceDescribed`: `OneResourceExact`, from `EmptyWithoutResource`: before the
  first resource all three lists are empty, so that the inverted tests append to
  nothing. It holds for any number of qubits, gates and couplings.
* `JobsImplementQdmiJob`: the safety part of `QdmiJob`.

`QaptivaResultsProofs`:

* `DenseTableExact`: for every number of qubits w, every result in `Outcomes(w)` and every
  number of qubits the search for a comma may find, the table has the probability of
  each of the 2^w basis states in its place and zeros behind them. `StrtolReads`: the
  first k bits of the binary digits of n make the number n div 2^(w-k), so that strtol
  and `KeyOf` are inverse (`StrtolOfKey`). `TableEntries`: after i rounds the table holds
  the first i outcomes and nothing else, because no key comes twice.
* These are inductions over the rounds of two loops. The library states induction with
  an operator parameter, which the provers cannot instantiate; here it is the least
  element of a set of numbers (`LeastElement`, from `WFMin` and
  `NatLessThanWellFounded`, which speak of sets), applied to the set of rounds after
  which the statement fails (`Induction`). That the recursive functions exist is shown
  in the same way (`StrtolRounds`, `TableRounds`).

`TwoCallsProofs`:

* one lemma for each answer of `QdmiAnswers` (`StringKeeps`, `ListKeeps`, ...): for every
  length, width and buffer, what it tells, writes, accepts and delivers;
  `ResponseKeeps` puts them together.
* `AnswersFit`, `NothingCutShort`, `ToldSizeSuffices`: `WritesFit` (without DCDB's VALUES,
  which the run `dcdb_values` shows to overflow), `NeverTruncated` (without the keys
  in a buffer of their own length, which `qaptiva_keys` shows to be cut) and
  `CarefulSucceeds`. The invariant `CallsInv` says that the last answer is the one the
  device would give for the value it holds now (`LastAnswer`; `Change` forgets the
  answer), and that the size told is the one this value requires while it is `fresh`
  (`ToldSize`; for the dense probabilities also that the table was built).
* `DenseTableStaysExact`: `DenseExact`, from `DenseTableExact` and `TableInv`: a job's
  outcomes stay what the appliance sent, and the table is built from them, once, for
  one of the numbers of qubits the search may find.

Only model-checked: the liveness properties `Settles`, `CallsReturn`, `SubmitReturns`,
`BusyEnds`, and the fair halves of `AnswersAsPromised` and of LRZ's `JobsAsPromised`;
liveness and `ENABLED` are out of the prover's reach. Every invariant and every
action property of a passing run is proved.

## 5. Not modelled, and why

* DCDB's job functions (stubs without state) and its sensor catalogue (a table).
* The constant values of the properties, and which property of which device is
  a string, a list or a single value.
* The numbers themselves: a Qaptiva value is the number of its outcome, without the
  multiplication by the shots; a DCDB reading has no content.
* LRZ's `circuit[size] = '\0'` (`lrz.cpp:321`), one position behind the string's
  terminator: a write outside the object that no state of the model can show.
* The auxiliary Python module: it runs outside the library; what its functions
  return (a list, None, an exception) is in `Qaptiva`.
* A base url whose port is not a number (`stoi` throws through the C interface) and
  memory leaks (a session's connection object, replaced parameter buffers).
* Tests, documentation, build files.

## 6. Plan

Built so far, most important behaviour first: DCDB sessions, queries and results,
Qaptiva, LRZ, the size protocol, the abstract jobs and queries, and proofs of all
their safety properties. Left, in this order:

1. What LRZ's lists keep to after a second resource, and the histogram of a client
   that waits again (how often the counts can be in it).
2. An abstract query that may be submitted again, as `AsyncAnswer` covers one
   submission only.
3. What get_results does with registers of 31 qubits and more, where `1 << n_qubit`
   leaves the `int`.
