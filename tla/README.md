# A TLA+ verification of SuperiorMySQL++

SuperiorMySQL++ is a header-only C++ client library for MySQL. Paths below are
relative to `src/include/superior_mysqlpp/` unless they start with `src/`.

The library has two halves. One is concurrent: a connection pool whose jobs create,
check, remove and replace connections behind the users' backs. The other is sequential
and no easier: objects that share one connection, hold raw handles of the C library, move
while others point to them, and end by exceptions. The project models both, checks them
with TLC and proves what matters most with TLAPS.

## Inventory

### The pools and their threads

| part | state | operations | interacts by |
|---|---|---|---|
| `shared_ptr_pool/base.hpp` | `pool` (a vector of `{valid, shared_ptr}`), `poolIndex`, `poolMutex`, `populationId` | `get`, `getUnpooled`, `erase`, `clearPool`, `poolFullState`, `setPopulationId`, move | lends by copying a `shared_ptr`; learns of a return from `use_count()` only |
| `shared_ptr_pool/resource_count_keeper.hpp` | a thread, its cycle's count, `temporaryPool`, `removePool`, settings | `job`, start, stop, setters, move | the base's mutex, vector and population; a detached thread destroys what it removes |
| `shared_ptr_pool/health_care_job.hpp` | a thread, its snapshot of `weak_ptr`s, the locked batch, the futures, settings | `job`, start, stop, setters, move | `weak_ptr::lock()` without the mutex; `erase` and the `valid` flag with it |
| `shared_ptr_pool.hpp` | none of its own | composes the three by inheritance | a `static_assert` ties invalidation to the health care job |
| `dnsa_connection_pool.hpp` | a thread, `lastIpAddresses` | `job`, start, stop, move | `clearPool()` when the hostname's addresses change |
| `master_slave_connection_pools.hpp` | a master pool, a map of slave pools | add, emplace, erase, look-ups, iteration | constructs, moves and destroys pools while their threads run |
| `connection_pool.hpp`, `shared_ptr_pool/sleep_in_parts.hpp` | none | factories of pools; delays | |

A resource is free when its use count falls to one, outside the mutex and
at any moment; every job acts on what it saw in an earlier critical section; the factory
runs in the middle of `get()`; `clearPool` may come between any two of these; and parts of a pool
are moved and destroyed one after the other while their threads go on. It is correct when a
resource is lent to one call at a time, and with `invalidateResourceOnAccess` only when checked;
when the index addresses an item; when nobody but who clears the pool removes a used resource;
when broken resources leave, invalid ones come back and the spare ones settle in their range;
and when no thread outlives its pool or is assigned over.

### One connection and the objects on it

| part | state | what is hard | what makes it correct |
|---|---|---|---|
| `low_level/dbdriver.hpp`, `connection.hpp`, `connection_def.hpp` | the `MYSQL` structure by value, `id`, statement handles | handles point back to a structure that moves; a connect or a close that fails half-way | one owner of each connection and handle, closed once; ids tell connections apart |
| `query.hpp`, `query_result.hpp` | `executed`, the C result | everything the server sent must be read before the next query, also when an exception passes | no destructor throws during unwinding, an exception leaves no result half read, and a query's end reports the results it has not seen |
| `transaction.hpp`, `uncaught_exception_counter.hpp` | the number of exceptions in flight at construction | commit or rollback is decided by comparing counts, in destructors that nest | work is committed only in order and undone only by an exception, or else is left open |
| `prepared_statement.hpp`, `prepared_statements/`, `extras/` | parameters, result, bindings that point to them, a flag | the C library keeps copies of pointers; the object moves | what is sent is what was set, what is shown is what was fetched |
| `dynamic_prepared_statement.hpp`, `prepared_statements/prepared_statement_base.hpp` | bindings, cached metadata, Nullables to engage | several results, a cache for the first one | bindings that were accepted fit; a Nullable shows its row |
| `prepared_statements/validate_metadata_modes.hpp`, `field_types.hpp` | none | large hand-written tables | laxer modes accept more; promotions lose nothing |

### Values

| part | state | what makes it correct |
|---|---|---|
| `types/nullable.hpp` | a payload with a manual lifetime, `engaged`, `null` | it behaves as an optional value; each payload is constructed and destroyed once |
| `types/array.hpp`, `types/blob_data.hpp`, `types/string_data.hpp`, `types/decimal_data.hpp` | bytes, a count that a fetch writes | text is cut, never past the end |
| `types/time.hpp`, `types/date.hpp`, `types/datetime.hpp` | the fields of `MYSQL_TIME` | fifteen comparisons are three orders |
| `converters/`, `converters.hpp`, `field.hpp` | none | a text becomes the number it shows, or an exception |

Logging, utilities and configuration plumbing keep nothing a model would add to.
`PROJECT.json` lists every component, and under `hazards` what in this code
is hard to test, each at its line, with the properties that cover it.

## Modules

| module | what it models |
|---|---|
| `SharedPtrPoolBase` | the base: vector, index, mutex, population, owners of every resource, users' calls, the environment |
| `ResourceCountKeeper`, `HealthCareJob` | the two jobs |
| `SharedPtrPool` | their composition, with all properties, the fairness and the refinement |
| `PoolContract` | abstract: the lender that the pool implements |
| `PoolPopulations` | a pool whose user replaces its whole population |
| `DnsaConnectionPool` | a pool with the DNS management job |
| `PoolLifecycle` | construction, start, stop, move and destruction of pools as sequences of steps, with threads that run, end and fail between them |
| `MasterSlavePools`, `ConcatIterator` | the group of pools, over `PoolLifecycle`; the iterator over master and slaves |
| `DBDriver` | drivers, connections and statement handles: who owns what |
| `Query` | one thread's objects as a stack of scopes, exceptions in flight, the C library's state; `Query` and its results |
| `Transaction` | transactions in those scopes, and the server's open transaction |
| `TransactionContract` | abstract: what a transaction promises about its work |
| `MetadataModes`, `ResultValidation` | which column may be read into which variable; the validation loop |
| `DynamicStatement`, `StaticStatement` | the two kinds of prepared statement, over `ResultValidation` |
| `Nullable`, `OptionalContract` | the value that may be missing; abstract: an optional value |
| `ArrayData`, `Temporal`, `Converters` | the other values |
| `SharedPtrPoolProofs`, `DnsaPoolProofs`, `LifecycleProofs`, `ConnectionProofs`, `TransactionProofs`, `StatementProofs`, `ValueProofs` | the theorems |
| `InductionOverSets` | induction and recursion on numbers, as lemmas about sets of numbers, for the proofs about recursive functions |
| `MC...` | the instances for TLC |

`SharedPtrPool` extends the keeper and the health care job, which extend the base: that is the
inheritance of the class. `DnsaConnectionPool` puts a job next to it, `PoolPopulations` a user
who changes the population, `MasterSlavePools`
extends `PoolLifecycle`, and `Transaction` extends `Query`. `MCConnection` puts
`DBDriver` and `Transaction` into one run, `MCStatements` both kinds of statement and the
values; within each of the two the parts share no state, and a variable `kind` says which
one is explored. `MCReplacedPools` does the same for the hostname and the populations of a pool.

Operators marked *Fault* are not used by the specification. Each is the definition
that follows it with a plausible bug, and some property is violated with it in place.

### The pool: state and actions

- `pool`, `poolIndex`, `populationId` are the members of the same name. `poolIndex`
  counts from 0 as in the code, so the item it addresses is `pool[poolIndex + 1]`.
- `mutex` is the call that holds `poolMutex` between two steps. A critical section that
  is one step needs only `mutex = None` as a guard.
- `use_count()` is `Cardinality(Owners(r))`: the pool's item, the calls that hold the
  resource, `jobRefs["keeper"]` (`temporaryPool`), `jobRefs["health"]` (the locked batch
  and its futures) and `jobRefs["disposer"]` (vectors on their way to destruction).
- `weak` is the part of `poolSnapshot` that is still to be locked. A resource's name is
  reused only when no pointer refers to the old one, strong or weak.
- `pc[u]` and `hand[u]` are a user's call: `idle`, `copy` (found, and about to copy the
  `shared_ptr`), `creating`, `adding`, `holding` (`get()` has returned), `probing` (in
  `poolFullState`).
- `broken` and `dirty` are not in the code: the connections that are dead, and the
  resources lent and not checked since. `status` is `undefined` after undefined behaviour and
  `terminated` after `std::terminate`.

One action is one critical section or one call outside the mutex. `get()` is six:
`GetFound`, `GetCopy`, `GetMiss`, `EmergencyCreate` or `EmergencyFail`, and
`EmergencyAdd`. The keeper's cycle is `KeeperCount`, then `KeeperLaunch`, `KeeperCreate`
or `KeeperCreateFails`, and `KeeperAdd`; or `KeeperTrim`. The health care job is
`HealthSnapshot`, and for each batch `HealthTakeBatch`, `HealthLock`, `HealthLaunch`,
`HealthPing`, then `HealthErase`, `HealthRevalidate` or `HealthLeave` for each result, and
`HealthBatchEnd`. `KeeperError` and `HealthError` are the handlers around the loops.
`EraseUnsafe` follows the code where it does not test whether the item is there.

A scan of the vector is one step: a return that lands inside it counts as before or
after. `weak_ptr::lock()`, the test of the count and the drop of a pointer that
fails it are one step. The items of a batch, its results and the order of additions are taken in any order.
When all `Resources` are in use a factory fails.

A factory is the user's and is seen from outside: it is called (`Connecting`) and delivers
(`Connected`). In `DnsaConnectionPool` it resolves the hostname at a moment of its own in
between, so a connection may lead to any address the hostname has had since the call
(`had`, `MayReach`). The hostname may take any address at any time, a former one too
(`DnsChange`), and the job compares what it got by value, as the code does. `address`, `had`
and the histories `returned`, `during` and `outside` are not in the code: they say where a
connection leads, whether the hostname came back to the address the job knows since the
last clear, and what was on its way into the pool, or being made, during that clear.
In `PoolPopulations` the histories are `called` and `born`, the population when a factory
was called and that of the factory a resource comes from, and `emptied`.

### The lifecycle: state and actions

A call (`Start`, `Stop`, `Move`, `Destroy`) is the sequence `todo` of steps it still has to
make, and `JobEnds` and `JobFails` come between any two of them. `thread` is `jobThread`:
`none` when it is not joinable. `StepLaunch` terminates when the thread it assigns to is
joinable, `StepJoin` waits for a running one. `MoveJob` and `MoveDns` differ in the order
in which the code reads `enabled` and stops the other's thread. `StepMove` takes
over the settings that the constructors take over. In `MasterSlavePools`, `CallAdd` and
`CallEmplace` move a pool into a node of the map before `StepInsert` asks whether
the id is free. `SlaveSeq` is the order of the map, by ids. `setMasterPool` is left out, since nothing can instantiate it.

### A connection: state and actions

- `DBDriver`: drivers and statements are named by the memory they live in. `session[d]`
  and `list[d]` are in the C library's structure, `mysql[h]` is the pointer back to it,
  `alive` is what the server has. `Connect` takes an id first and keeps it when the server
  refuses; `MoveDriver` copies the structure and leaves the handles' pointers behind.
  `moved` and `reported` are histories for the exceptions that the properties name.
- `Query`: `scopes` is the stack of live objects, innermost last; `flight` is
  `std::uncaught_exceptions()`; `mode` says whether the stack is being unwound. `Raise` in a
  destructor during unwinding terminates. A *guard* is a user's object whose destructor
  works with the connection and lets nothing out: that is how an exception may wait
  for a destructor that itself uses transactions. `status` and `more` are the C library's
  state, and `OutOfSync` is its refusal of a new query.
- `Transaction`: `open` and `committed` are the server's; `ended` and `aborted` record how the scope
  really ended, whatever the destructor made of it.
- `DynamicStatement`: the variables are the user's; `bound` is the library's copy of the
  bindings; `resultMetadata` is the cache, filled by the first validation or by the public
  `getResultMetadata()`.
- `StaticStatement`: objects are memory, `bindings[o]` says into which memory the bindings
  point, `library` is the library's copy. `MoveStatement` copies the pointers as they are. `utility` is the
  step of `psQuery` or `psReadValues` that comes next. `column` is what the table is like,
  `described` what the server last told the library of it, at the preparation or an
  execution, and `cached` the `resultMetadata` of the base: a copy of the description at the
  first `getResultMetadata()`, by the user at any time or by the validation. It is kept when
  the validation refuses and when the table is altered. What the C library does to a
  description it has handed out is not in this repository; the model has a copy.
- `Nullable`: the record of an object has both flags, the payload and, as a history, how
  many payloads live in it. Every constructor, assignment, `swap`, flag call and fetch is
  an action; `trivial` is the branch on `std::is_trivially_destructible`.
- `ArrayData`: bytes and count, with a fetch that writes behind the class's back.
- `Converters` parses digit by digit modulo the widths of the types, with the powers of ten
  that the code computes by recursion; `result * -1` on the least value is exact below the
  width of `int` and undefined from there on; `Temporal` has
  the comparisons field by field; `MetadataModes` has every mode as a relation.

## Runs

Passing runs:

| run | instance | checks |
|---|---|---|
| `pool_safety` | 2 users, 2 resources, both jobs, invalidation, batches of 2, one breakable, factories that fail and checks that throw | `TypeOK`, `PoolIndexInRange`, `ExclusiveUse`, `ValidMeansChecked`, and `KeepsContract` (implements `PoolContract`) |
| `pool_keeper_liveness` | 2 users, 3 resources, keeper, `FairSpec` | `UsedStaysPooled`, `GetReturns`, `KeeperSettles` |
| `pool_health_liveness` | 1 user, 2 resources, both jobs, one breakable, invalidation, `FairSpec` | `BrokenIsErased`, `InvalidIsRevalidated` |
| `replaced_resources` | 1 user, 2 resources, keeper, failing factories; either 2 addresses that the hostname takes in any order, `DnsaFairness`, or 3 populations | `StaleOnlyIfOutside`, `DnsFollowed`, `PopulationsDoNotMix` |
| `pool_lifecycle` | memory for 4 pools, 2 slave ids | `MasterSlaveTypeOK`, `NeverTerminates`, `JobsHaveABase`, `JobsAsAsked`, `SettingsSurvive`, `IterationVisitsAll` |
| `connection` | 2 drivers, 3 connections, 2 statement objects, 2 handles; scopes 4 deep, 2 transactions, a server that may refuse COMMIT and ROLLBACK | `ConnectionTypeOK`, `IdsAreIdentities`, `OneOwner`, `ClosedOnce`, `StatementsFollow`, `NeverTerminates`, `OnlyLastForgotten`, and `ImplementsContract` (implements `TransactionContract`) |
| `statements_and_values` | 2 variables, results of up to 2 columns, 5 answers; 2 objects, 2 rows; 2 Nullables; 2 arrays of 2 bytes; 8- and 16-bit integers; all pairs of field types | `ValuesTypeOK`, `FetchShowsRow`, `ResultShowsRow`, `NullIsRefused`, `ParamIsSent`, `Balanced`, `ImplementsOptional` (implements `OptionalContract`), `ComparisonsAgree`, `TextIsKept`, `NumbersParseRight`, `ValuesAreOrdered`, `PromotionsLoseNothing`, `ModesAreNested` |

Runs that find what a comment, a test or the documentation says and the code does not do:

| run | what TLC finds |
|---|---|
| `checks_are_exclusive` | `get()` finds an item, the health care job locks it with a count of 2, `get()` copies: the check runs on a lent connection (`shared_ptr_pool/health_care_job.hpp:147`) |
| `clear_during_check` | `clearPool()` during the check of a broken resource: `eraseUnsafe` works on `end()` (`shared_ptr_pool/health_care_job.hpp:191`, `shared_ptr_pool/base.hpp:228`) |
| `emergency_only_when_empty` | a resource below `poolIndex` is available, and `get()` creates another (`shared_ptr_pool/base.hpp:326`) |
| `rollback_swallowed` | an exception leaves a transaction while a result is unread: ROLLBACK is out of sync, the error is swallowed, the work stays open and the next transaction commits it (`transaction.hpp:145`, `src/README.md:365`) |
| `next_result_validation` | after `nextResult()` bindings are validated against the first result's metadata, and the library may read more bindings than it is given (`prepared_statements/prepared_statement_base.hpp:226` and `:340`) |

**Exceptions in properties.** Where the code departs from the obvious property in a known
place, the property names the place and holds elsewhere: `JobsAsAsked` (the DNS management of a moved
pool is off), `SettingsSurvive` (batch size and population id do not move), `ClosedOnce`
(handles whose close reported an error), `StatementsFollow` (handles of a moved driver),
`ParamIsSent` and `ResultShowsRow` (moved statements), `StaleOnlyIfOutside` (connections on
their way into the pool during the clear; and a hostname that left the address the job knows and came back
between two polls, which a comparison by value cannot notice), `OnlyLastForgotten` (the
current result, when nobody took it), `NullIsRefused` (a column altered since the description that was
cached, which may be older than the execution), `NumbersParseRight` (from 32 bits on, the text of the least value,
whose negation is undefined). For `Balanced` and `ImplementsOptional` the run has
`DisengagedPairs = FALSE`: assigning or swapping two empty Nullables destroys or reads a
payload that is not there, which the model shows when the constant is `TRUE`.

**Bounds.** Two users are what it takes to lend a resource twice or to lend during a
check; the third resource lets the keeper have too many while one is used. `MinSpare =
MaxSpare = 1` makes it both create and remove. Batches of one and of two give several
batches in a cycle and a batch of several. Three populations let a factory be two
changes late; two addresses let the hostname leave and come back. Populations are numbered
upward, since a number that is used again tells nothing.
Four memories for pools are the master's, a node's, a pair's and the user's own, which is what `addSlavePool`
needs; `MaxJobs`, `MaxChosen` and `MaxOwn` (1 each) bound how many threads, changed settings and
own pools there are at a time, not how often. Two drivers and two statement objects are a source and a target of a move;
`MaxId = 3` allows a reconnect and a move, `MaxHandles = 2` an assignment over a handle. Scopes 4 deep
hold a transaction, a query and a result within a guard's destructor; a second transaction
shows what becomes of work that the first one left open. Batches have each shape: rows or none, one result or
two, an error first or later. Two columns and two results of different form are what the cached
metadata confuses. Texts of up to four characters and the boundaries of 16 bits
reach every case of the parser but the overflow of the negation, which needs 32 bits; `AnyTextParsesRight`
has every length and width. The comparisons of
`Temporal` look at fields one after another, so two values of a field are enough, and the
proofs have them all. Two slave ids give the map an order; `LoopsVisitAll` has any number.

Users, drivers and statement objects, the memory of pools but the master's, and that of statements are
symmetric; runs with liveness do not use the symmetry, and the refinements checked with it are
safety properties that do not tell apart what is permuted.

**Fairness.** `FairSpec` says that the threads run. Strong fairness for a
call that has begun and for each job stands for a mutex that is released again and again and
does not starve a waiter for ever; it also says that a factory which may both fail and
succeed does one of them, and nothing about which. Weak fairness is enough for the
destruction of removed items, which takes no lock. Nothing makes a user begin a call or
return a resource. `KeeperSettles` supposes that users are quiet from some time on, and
that the server still accepts a connection. `DnsaFairness` supposes in addition that the
resolver answers some time, and `DnsFollowed` is about a hostname that stays where it is from
some time on. The liveness runs of the pool have no failing factories or checks: an exception out of `factory()` or
`healthCheck()` itself ends the job's thread for good, and then neither property can hold.
`MaxSpare < MinSpare` is not excluded by the code, and such a keeper creates and removes
for ever; the runs have `MinSpare <= MaxSpare`. The sequential models have no fairness:
their properties are of safety.

## Proofs

Every safety property of a passing run, invariant, action property or refinement, is also a
theorem, for every value of the constants that the assumptions of its module allow.

**The pool** (`SharedPtrPoolProofs`): `TypeCorrect`, `IndexCorrect`, `OwnershipCorrect` and
`UseIsExclusive`, `ValidityCorrect` and `CheckedBeforeLent`, `PoolKeepsContract`,
`UsedAreSpared`. The types are inductive only together with `HandMatchesPc`. `ExclusiveUse`
is not inductive: `get()` lends an item that nobody *holds*, so it must be known that the
item occurs once (`NoDuplicates`), that no call is between its search and its copy while
another searches (`CopyIsLocked`), and that a resource on its way into the pool is nowhere
else (`ArrivalsOutside`). The late result of a check is harmless because of `Validity`: a
resource that was invalid at the snapshot and whose check is not applied yet has an invalid
item all that time, or none, so nobody could borrow it. `PoolKeepsContract` is the
refinement of `PoolContract`: its stock is what has an owner and its loans are the hands of
calls, and each of the pool's steps is matched with a step of the contract. `get()` and the
revalidation need the two invariants, and `CopyIsChecked`: what a call has found and not
copied yet was not lent since its last check. `UsedAreSpared` is the action property that
the keeper, whose count is outdated when it removes, takes nothing that is used.

**The DNS-aware pool and populations** (`DnsaPoolProofs`): `DnsaTypeCorrect`,
`StaleAreOutside`, `PopulationsStayApart`. Both rest on what can come into a pool
(`Arrives`): only what was on its way, and of the present population; and nothing sets out
but what a factory has just delivered. Every step of the DNS-aware pool is a step of the
pool (`DnsaIsPool`), which brings in the invariants above. `Current` says the same as the
property of all that is in the pool or on its way into it, and of the factories at work:
unless the hostname came back unnoticed, each leads to the present address, or was on its
way, or was being made, during the clear. `CalledOnly` adds that only a factory that was
called has an address to deliver. For the populations the strengthening (`Populations`)
compares three numbers: the one a call or a cycle has noted is at most that of its factory,
and that at most the present one, so what passes the comparison at the end comes from a
factory of the present population.

**The lifecycle and the group** (`LifecycleProofs`): `MasterSlaveTypes`, `NoPoolTerminates`,
`ThreadsHaveTheirPool`, `ThreadsAsAsked`, `SettingsLast`, `JoinsAreToldToEnd`,
`LoopsVisitAll`, for any pools and any number of slaves. A call is the sequence of steps it
still has to make, so the properties between calls are not inductive. `MasterSlaveInv` adds
`Control`, which names every sequence that a call may have left and says what it supposes:
while a pool is moved, that the jobs that were dealt with run for the new object if they
were asked for, that the old object runs none of them, and that those still to come are as
they were. Each step then leads from the head of one such sequence to the next, and jobs
that end or fail in between disturb none of it. `LoopsVisitAll` needs more of the map
(`GroupInv`): no two slaves have one pool, their pools are there and are not the master's,
and of the steps that are left none takes a slave's pool away; one of them at most inserts,
and what it inserts is there or is moved there before. That the ids have an order at all,
which `SlaveSeq` chooses, is the lemma `Enumeration`, and what the iterator visits, which is
a recursive function, has the closed form `VisitedInOrder`.

**Drivers and handles** (`ConnectionProofs`): `DBDriverTypeCorrect`, `IdsIdentify`,
`OneOwnerEach`, `HandlesClosedOnce`, `HandlesFollow`, and `ConnectionTypes` of the whole
run. Three invariants build on one another. `OwnersInv`: ids below the counter are used
once, and a session has its driver's id. `HandlesInv`: each handle below the counter is
either with one statement object and open, or with none and closed. `FollowInv` is both of
them with `StatementsFollow` itself, which is then inductive.

**Transactions and queries** (`TransactionProofs`): `TransactionsKeepContract`, the
refinement of `TransactionContract`, `NoDestructorTerminates`, `OnlyLastIsForgotten`
and `SessionTypes`, for any queries, any depth of scopes and any number of transactions. The
step that needs an invariant is the destructor: it compares two counts of exceptions, and
that must tell whether an exception is unwinding the stack past *it*. `Nested` carries this:
to every scope belongs a level, the number of exceptions that wait for destructors around
it; `flight` is the level of the innermost scope, plus one while the stack is unwound; and
every transaction counted the level around it. `LiveIsOpen` says that one transaction at
most is live, the last one, and that the server has it open; `Partition` that work is open,
committed or undone. `ScopesNest` is the invariant, `DestructorSees` the lemma that it is
for, also for the destructors that must not throw. `ReadersKnow` and `RowsHaveReader` are
the invariants of unread results: as long as the connection has further ones, an object that
knows of them is alive, or an exception has told; and as long as rows are being read, their
reader is alive.

**Statements** (`StatementProofs`): `StatementTypes`, `BoundVariablesShowRow`,
`OwnResultShowsRow`, `NullsAreRefused`, `ParamsAreSent`, `TextsAreKept`, `ValuesInOrder`,
`PromotionsAreLossless`, `ModesNest`, `NumbersParse`. What they say of a statement holds
only along its protocol, and the invariants say what each call leaves for the next.
`StaticInv`: the object's bindings and the library's copies point into the object until it
moves (`Pointing`), the helpers read rows of an unmoved object only (`Helping`), and a
result is bound only after the cached description of its column was accepted, which is the
column as it is unless that was altered (`Accepting`). `DynamicInv`: the library
writes to as many variables as there are columns, and a variable that is no Nullable always
has a value. `ArrayInv`: bytes and count show the text, whoever wrote them. The tables of
the modes are proved for all pairs of types and signs.

**Values** (`ValueProofs`): `PayloadsBalanced` and `NullableIsOptional` (with
`~DisengagedPairs`), `NullableOrder`; `TimeOrder`, `DateOrder`, `DatetimeOrder` and
`OrdersAreTransitive` for all values of the fields; `AnyTextParsesRight` for every text and
every width, where the least value of 32 and 64 bits is the named exception. The last one is an induction: after `i` digits the parser has the value of
these digits times the power of the place, modulo the type, so a numeral that fits is read
as its value. Such inductions are about a *set* of numbers and its least element
(`InductionOverSets`), since the library's theorems on predicates and recursive definitions
cannot be instantiated by the provers.

The proofs rest on the modules' assumptions (users and resources are finite sets, bounds are
numbers, special values are none of the ordinary ones), which TLC evaluates in every run
that extends the module, and on the library's theorems on finite sets, sequences, functions
and well-founded relations. `StatementTypes` and the theorems on Nullables suppose
`~DisengagedPairs`, and `UsedAreSpared` supposes `~EnableHealthCareJob`, as their runs do.

Only proved, with no run of its own: `JoinsAreToldToEnd`, that a call joins only a thread that was
told to end.

Only model-checked: liveness under fairness (`GetReturns`, `KeeperSettles`,
`BrokenIsErased`, `InvalidIsRevalidated`, `DnsFollowed`), which the prover cannot treat,
like `ENABLED`; and the five runs that find a violation. No module uses a RECURSIVE
operator.

## Not modelled, and why

- `logging.hpp`: output only. An exception out of a logger ends in the same handlers as
  one out of a factory.
- `utils.hpp`, `traits.hpp`, `exceptions.hpp`, `iterator.hpp`, `printers.hpp`, `config.hpp`, the option
  setters of the driver: compile-time helpers, exception types and plumbing.
- The text of queries and its escaping, rows as containers, metadata getters but `getResultMetadata()`: pure data.
- The clock: sleeps end when a job is told to stop, and that is all the models say.
- Data races: the setters write plain integers that a running job reads. Settings are constants
  in the pool's model, and change between calls in `PoolLifecycle`. The hazard is listed.
- Parameters of `DynamicPreparedStatement`, data seek, the thread-local cleanup
  of `low_level/mysql_hacks.hpp`, the wrappers of callables in `extras/`.
- The defaulted move constructor of the group (`master_slave_connection_pools.hpp:45`) and the
  group's destruction: they move and destroy the master's pool and the map; the moves and
  destructions of pools that they are made of are in `PoolLifecycle`.
- The DNS resolver and the user's factories beyond what is said above.
- Copies of a `Transaction`, which the class allows and nothing makes: each would commit
  or roll back. The model has one transaction of a connection at a time.

Three more places where comments and code differ are modelled and have no run of their own:
a query whose only or last result nobody takes ends without an exception and leaves the
connection out of sync (`query.hpp:81` asks for further results only), although
`query.hpp:80` says that all result sets must be read, which is the exception of `OnlyLastForgotten`;
`KeeperTrim` removes available resources, which are validated, before any others, although
`shared_ptr_pool/resource_count_keeper.hpp:158` says that non-validated ones are selected first; and a DNS change
clears the pool without a new population (`dnsa_connection_pool.hpp:151`), which is why
`StaleOnlyIfOutside` has its exception.

## What is left

1. The setters of the jobs as steps between the reads of a running job, with the wrap-around
   of the subtraction they may cause.
2. Parameters of dynamic statements, and the stream of results through `extras/row_stream_adapter.hpp`.
3. Invariants that would bring the liveness properties nearer: that each waiting call or job
   has a step that somebody can make.
