# TLA+ models of cpp_training

These TLA+ modules model the stateful parts of this repository for the TLC model checker. Each module is translated from the C++ under `src/`. `PROJECT.json` holds the machine-readable index: components, runs, mutants, the map from definitions to source lines, findings and hazards.

Run everything from this directory:

```
tlasany SingularMachine.tla
tlc -workers 2 -config MCSingularMachine.cfg MCSingularMachine
```

## The system

The repository is a training collection rather than one program. It has three independent groups of code.

1. **sequia**, a small header library.
   - `state.hpp` is a compile-time state machine engine. `singular_machine<Initial, States...>` stores one live state object in a byte buffer and an integer tag (`ctx_.active`) saying which state it is.
   - `transition<State, Event>::next` traits form the transition table.
   - Construction, `react(event)` and destruction are implemented by recursive walks over the `singular_machine_base` chain (`activator`, `deactivator`, `constructor`, `destructor`, `default_constructor`, `active_destructor`, `reactor`). Each walk ends at a sentinel base whose `stateid` equals the number of states.
   - `core.hpp` provides `max_type_size`, which sizes the buffer, plus integer-width helpers (`min_num_bytes`, `min_word_size`).
   - `src/memory/` holds the allocators (`fixed_item`, a free list; `fixed_buffer`; `null`) and buffer/alignment helpers.
   - `spec.md` describes the engine's contract: Uninitialized / Active / Faulted modes, table lookup, and failure handling.
2. **course/my_unique_ptr.cpp**, a single-owner smart pointer.
3. **exercises**:
   - `network.cpp`: a socket and address wrapper.
   - `simulation.cpp`: an entity/component toy with floating-point time steps.
   - `networking/ConnectionTest.cpp`: a PS3 matchmaking sample. In it, `Application::Update` is a four-state loop (START, SEARCHING, RUNNING, STOP) driven by `main`. It talks to `Manager` (NP sign-in, `manager_cb`) and `MatchMaker` (matching context, server list, server-info requests answered by `request_event_cb` through an `Updater` pointing at the Application's `Server`).

The groups do not interact. Within each group, the interactions that matter are:

- In the engine, between the tag and the buffer, and between the walks.
- In the sample, between the Application's loop and the library callbacks that write its `Server` and MatchMaker's queues.

## Modules

| Module | Models | State (VARIABLES) | Actions |
|---|---|---|---|
| `EngineSpec` | The engine contract of spec.md §3, §4.4, §7 | `mode`, `current`, `table` | `Initialize`, `React(e)`, `Teardown` |
| `SingularMachine` | `state.hpp` `singular_machine` and its walks; `core.hpp` `max_type_size` | `alive` (object lifetime), `active` (`ctx_.active`), `cell` (type held in `ctx_.buffer`), `hooks` (the helper calls of the last operation, with what the buffer held when each ran), `call` (last operation and whether it threw), `transition` (the traits table, fixed for a run) | `Construct` (the constructor), `React(e)` (one `react`, split into ignored / `Transit` / `TransitOutside`), `Destruct` (the destructor) |
| `MCSingularMachine` | Catalogs and tables for TLC | | |
| `ConnectionTest` | `ConnectionTest.cpp` Manager, MatchMaker, Application | `phase` (startup stage / main loop / exited / teardown stage), `tries`, `online`, `managerUser`, `mmUser`, `registered`, `ctxPending`, `servers`, `requestQueue`, `updaterQueue`, `inflight` (the library's outstanding requests), `lastIndex`, `appState`, `serverState`, `available` | `ManagerInitTry`, `ManagerInitGiveUp`, `ManagerCallback`, `MatchMakerStart`, `MatchMakerRegister`, `ContextEvent`, `Update` (`UpdateStart` / `UpdateSearching` / `UpdateRunning` / `UpdateStop`), `RequestEvent`, and `~Application`'s teardown: `MatchMakerFinalize`, `ManagerFinalize`, `SystemFinalize` |
| `MCConnectionTest` | Constant values for TLC | | |
| `ServerSearch` | What `Application` promises as it looks for a server, with the library, queues and request ids hidden | `app` (starting / searching / querying / found), `answer` (none / available / unavailable / error) | `Begin`, `Query`, `Answer`, `Retry`, `Accept`, `Close` |
| `FixedItem` | `fixed_item.hpp` | `live` (`mem_` allocated), `head` (`head_ - begin`), `index` (each block's index field, or the object's bytes while held), `out` (the client's objects living in each block) | `Allocate` (with lazy threading), `Deallocate`, `ClientWrite`, `Destroy` |
| `MemoryCore` | `memory/core.hpp` `buffer<T>` and the alignment helpers; `core.hpp` `min_num_bytes` / `min_word_size` | `buf` (the client's `buffer<T>`: address, item count, `sizeof(T)`), `view` (the `buffer<U>` derived by the last call), `word` (N and the width of the last `min_word_size<N>`), `call`, `owned` (the bytes the latest wrap was given), `pair` (the last `aligned_overhead<U>(buf)` result) | `WrapBytes`, `WrapItems`, `FromRange`, `FromStatic`, `Sized`, `Invalidate`, `Convert`, `AssignFrom` (`operator=(buffer<U>)`), `AlignTo` (`aligned_buffer<U>`), `Overhead`, `MinWordSize` |
| `MCMemoryCore` | Item sizes and template arguments for TLC | | |
| `MyUniquePtr` | `my_unique_ptr.cpp` | `ptr`, `life` of each MyUniquePtr; the client's `raw` pointers; `allocated`; `deletes` per object; `call` | `Construct`, `Destroy`, `MoveConstruct`, `MoveAssign`, `Release`, `Reset`; client `New`, `DeleteRaw` |

### How SingularMachine corresponds to the code

- Each walk is `ChainWalk({id \in Bases : test})`: the least base id, counting from 0, whose test holds, or `N` (the sentinel's id) if none does.
- Every helper is an operator named after its struct. A helper that tests `is_active(BaseMachine::stateid)` tests `is_active(id + 1)`, exactly as written.
- A `react` is one atomic action, because the whole handler runs on one thread. Its branch performs all four helper calls in the code's order:
  - `active'` comes from the activator.
  - `cell'` comes from the destructor and then the constructor, which may throw when the target is in `Throwing`.
- The source does not compile as given: `is_active` is declared `void`, `ctor` is misnamed, and template specialisations are in class scope. The model takes every body at its word, so `is_active` is the comparison it returns.
- Types are model values. `Size` and `Align` give each type a `sizeof` and `alignof` for the storage check.

### How ConnectionTest corresponds to the code

- Startup follows `Application()`'s `Using<T>` constructors in order:
  - `Manager::Initialize`'s loop, one try per step, giving up after `MaxTries` = 10 as the code does. The `ASSERTF` compiles out of release builds.
  - `MatchMaker::Initialize`, split at the point between `ContextStartAsync` and the callback registrations that follow it.
- After startup, each `Update` is one step.
- Library callbacks (`manager_cb`, `context_event_cb`, `request_event_cb`) are steps of their own, interleaved between the program's steps.
- Abstractions:
  - Request ids are a small set, and the library never has two outstanding requests with the same id.
  - `TryGetServerInfo` has two outcomes: the request is issued and its id queued, or (release builds, `ASSERTF` compiled out) `sceNpMatching2GetServerInfo` fails and an uninitialised id, any value of the set, is queued with nothing outstanding.
  - Only the default index -1 is passed, as `Application::Update` does; `lastIndex` records where `m_servers.data` is read.
  - The server list is abstracted to its length.
  - Server info is abstracted to whether its status is AVAILABLE.

### How FixedItem and MemoryCore correspond to the code

- FixedItem counts the client's objects per block in `out`. The count is capped at 2, which is enough to see two objects aliasing one block. `Held` is the set of blocks with one or more objects.
- MemoryCore keeps only the last call's result: a call that derives no view resets `view` to the empty buffer, and one that instantiates no `min_word_size` resets `word`. `owned` is set by each wrap (bytes, items, a range, a static_buffer) and kept by every derivation, so a chain of conversions, alignments and assignments can be compared with the memory it started from. Addresses are below 2^`AddrBits`, so `~(Alignment-1)` is `2^AddrBits - Alignment` at that width, and `&` is the `Bitwise` module's. The `alignof` of a type is its largest power-of-two divisor up to 8.
- `min_num_bytes` compares with `one << 8*n` as `DropBytes(value, n) = 0`, and the `k >= 64` test stands for a shift that yields 0 in `uint64_t`.

## Runs

| Run | Expect | What it shows |
|---|---|---|
| `engine_pass` | pass | Over all 15,625 transition tables of a three-state catalog with two events, including throwing constructors and targets outside the catalog (262,848 states), every action fires and the buffer only ever holds a catalog type (`TypeOK`): a row into a type outside the catalog builds nothing. The engine's real defects make the tag point nowhere or at the wrong row, which the violation runs below show. |
| `engine_refinement` | violation | `EngineRefinement`: the code does not implement `EngineSpec`. After construction, Initial is in the buffer but the tag is the sentinel, so `current` is none. |
| `engine_unhandled` | violation | `UnhandledEventIgnored`: an event with no row for the current state still fires a row, that of the state before it in the catalog. |
| `engine_throw` | violation | `NoTagOverEmptyBuffer`: a throwing target constructor leaves the tag naming the target over an empty buffer, with no Faulted mode. |
| `engine_storage` | violation | `StorageFits`: the buffer is sized by the first type only and is 8-aligned, so a 16-byte, 16-aligned state overflows it. |
| `matchmaking_pass` | pass | As `main` drives it, including the release path of a failed `sceNpMatching2GetServerInfo`, at most one request is queued (`AtMostOneRequest`). While RUNNING, the server state changes exactly when its request is answered (`ResponseRecorded`). `~Application` destroys `server` before it stops matchmaking. When `main`'s loop ends, no `Updater(&server)` is queued and no request is outstanding (`NoUpdaterOutlivesServer`). The whole program implements the abstract `ServerSearch` in its safety part (`SearchRefinement`, with `Application::state` and `server`'s status and availability as the mapping). Each query gets at most one answer that nothing overwrites, RUNNING moves on only once the answer is there, and STOP comes only after an available server. The abstract liveness (every query answered) is not claimed: a failed `GetServerInfo` queues an id the library never answers, and an ERROR answer is never acted on. |
| `stuck_on_error` | violation | `RunningSettles`: an ERROR answer leaves the Application RUNNING forever. |
| `no_server_list` | violation | `SearchingSettles`: a failed or unseen context start, or an unusable list, leaves it SEARCHING forever. |
| `fixed_item_pass` | pass | `FreeListExact`: with a four-block pool, walking the intrusive free list from `head_` visits every block the client does not hold exactly once and ends at `begin + max_size()`. This holds through all interleavings of allocate, deallocate and client writes that overwrite held blocks' index fields, and across destruction and re-creation. Since allocate hands out `head_`, this also means it never hands out a block an object still lives in. |
| `unique_ptr_pass` | pass | `OwnedExactlyOnce`: through every sequence of operations by two MyUniquePtrs over three objects, each object has exactly one holder until deleted and none after. This rules out double delete, use after delete and leaks. |
| `memory_core_pass` | pass | With power-of-two item sizes 1 to 8, every byte range of up to 16 bytes at each offset modulo 8 (74,747 states): `aligned_buffer<U>` is exactly the U-aligned part of its source (`AlignedBufferExact`, against a reference definition). Through any chain of conversions, alignments and assignments back with `operator=`, no buffer reaches outside the memory the client wrapped (`DerivedInsideOwned`). `min_word_size<N>` picks the narrowest width that holds N, at every width boundary TLC's 32-bit integers reach (`MinWordFits`). |
| `unaligned_size` | violation | `AlignedBufferInside`: for a 12-byte item type, `aligned_buffer` aligns to 12 with bit masks meant for powers of two. From a 12-byte range at address 8 it derives one item at address 16, which ends 8 bytes past the source. |

### Mutants

Every property of a passing run has a mutant that breaks it (see `PROJECT.json`). Each mutant is a plausible bug in the mapped definition:

- the outside-catalog branch constructing anyway
- the lazy free-list threading off by one
- deallocate not linking the block
- a failed server count used as the list length
- SEARCHING not moving to RUNNING
- the error answer not written
- `release` not nulling
- `aligned_buffer` built with the item-count constructor, or sized from the whole source
- `min_num_bytes` testing `value <= one << 8`
- `operator=(buffer<U>)` copying the item count without converting it
- the answer applied without erasing the queue entries (`NoUpdaterOutlivesServer`)
- RUNNING acting on the server's availability without waiting for READY (`SearchRefinement`)

### Bounds and why they suffice

- **engine_pass:** the catalog has 3 states and 2 events, and all tables over 4 targets (3 in the catalog, 1 outside) plus "no row" are checked. The walk bugs all depend on neighbouring catalog ids and on the sentinel, and three states are enough to have a state on both sides of the active one.
- **Engine violation runs:** these use the 5-state job catalog with 6 events, where each bug shows in a readable trace.
- **ConnectionTest:**
  - There are two request ids; at most one is ever in flight, and the second lets a fresh id be drawn.
  - The server counts are {0, 1, 2, 255}, covering empty, usable and over-limit lists.
  - The code's own 10 tries are used for the safety run. The liveness runs use 2 tries, because the loop's length does not matter to them.
- **FixedItem:** four blocks are enough for free lists in and out of thread order, full exhaustion, and garbage written into every held block.
- **MemoryCore:** ranges start at the addresses 8 to 15 (`Addresses`), one for every offset modulo 8, the largest alignment. Their lengths go up to `MaxBytes` = 16 (two 8-byte items), and `AddrBits` = 6 leaves room above them. The violation run keeps `MaxBytes` = 24, so that two 12-byte items fit. The counts {0, 1, 255, 256, 65535, 65536, 2^31-1} sit on both sides of each width boundary TLC can represent. The 8-byte width (values of 2^32 and above) is beyond TLC's 32-bit integers. The violation run uses the item sizes {4, 12}.
- **MyUniquePtr:** two pointers and three objects are enough for a move between two owners, a self-move, and a reset to a released pointer.

### Fairness

- `SingularMachine`, `FixedItem`, `MemoryCore` and `MyUniquePtr` have no fairness. They are single-threaded libraries driven by their caller, and only safety is checked.
- `ConnectionTest` assumes weak fairness on the following steps:
  - the startup steps and `Update`, because `main` calls `Update` in an unbounded loop;
  - `RequestEvent`, because each request carries a 20 s timeout (`param.timeout`, line 540), after which the library answers with an error;
  - `ContextEvent`, because the start has a 10 s timeout (line 529).
- `ServerSearch`'s `Spec` assumes weak fairness on `Answer`: the promise that every query is answered. The code does not keep it. A failed `sceNpMatching2GetServerInfo` (line 584) queues an uninitialised id for a request that was never issued. An ERROR answer is never acted on. So only `SafetySpec` is checked as `SearchRefinement`, and the hang shows up as the `stuck_on_error` liveness violation.
- `ManagerCallback` has no fairness, because sign-in status changes are up to the network.
- The ConnectionTest cfgs set `CHECK_DEADLOCK FALSE` because `main` really returns after STOP.

## Not modelled, and why

- The fixed_buffer and null allocators have no caller. `fixed_buffer` hands the same buffer to every allocate and ignores deallocate, which is listed as a hazard. Two live objects sharing one block is the violation, and there is no run left for it. It also does not compile as written: `!mem_` needs an `operator bool` that `buffer` lacks, and `item_count` is not defined. `null::allocate` returns no value, which is undefined behaviour.
- In FixedItem, the client keeps the preconditions the debug-only ASSERTFs state. Exhaustion, double free and frees into a copied allocator's pool are listed as hazards.
- A row whose target is outside the catalog is explored by `engine_pass`, but no run checks a property about it (see the hazard at state.hpp:200).
- The engine's destructor destroying the wrong type (state.hpp:159) is the same `is_active(BaseMachine::stateid)` defect that `engine_unhandled` shows. The ten-poll sign-in giving up (ConnectionTest.cpp:396) is a consequence of a debug-only ASSERTF. Both are listed as hazards without a run of their own, because the project keeps to twelve runs.
- `min_num_bytes(int64_t)` and `sum_type_size` have no caller. The signed overload always yields 8 (a hazard at core.hpp:62).
- In `memory/core.hpp`, `make_aligned`, `is_aligned`, the accessors and `contains` change no state and have no caller. The `aligned_overhead(buffer)` pair is modelled, but no run checks it: its second member subtracts an item count from a byte count, and the code gives it no meaning to check against (a hazard). The `(begin, end)` constructor's inverted ASSERTF only matters in debug builds (a hazard). The `static_buffer` constructor reads `copy.address`, a member `static_buffer` lacks, so the model takes it as the static buffer's storage.
- `network.cpp` is a set of single library calls whose results one unit test reaches. Its defects are listed as hazards: port truncation, the socket handle precedence bug, and the stale errno after `inet_pton` returns 0. There is no run left for them.
- `simulation.cpp`'s attach and lookup are sequential pointer wiring. Its time loops and integrators need real arithmetic, which TLC lacks.
- In `ConnectionTest.cpp`:
  - Tickets and transactions have no caller.
  - `System` is only library calls.
  - The room, lobby and signalling callbacks have empty bodies.
  - Which thread runs the matching2 callbacks is not in the source. The model interleaves callbacks between program steps, so the window between issuing a request and queuing its id (line 584-588) is listed as a hazard rather than explored.
- `main.cpp` and `container.hpp` rely on headers or allocators missing from the repository.
- `debug.hpp` and `error.cpp` have no state.

## Plan

1. **Allocators:** two `FixedItem` instances, and a container that swaps storage between them (cross-pool frees), checked for two live objects never sharing a block.
2. **Manager tickets** in ConnectionTest: `TryGetTicket` with the null `m_updater` and `manager_cb`'s GOT_TICKET, checking that an answer never writes through a null or stale Updater.
3. **network.cpp**, if a run slot frees up: the address constructor's errno-derived error state across a preceding failing call.
