# notees-gtk in TLA+

A verification project for notees-gtk, a GTK client of a notes service that
works offline: every edit is an envelope, applied at once to a local SQLite
mirror, queued in an outbox, pushed to a relay, and pulled back, together with
the envelopes of other devices, through pages and a WebSocket. The project
models that path (engine, store, clock, convergence of replicas, the opening of
an encrypted workspace), the read models the envelopes build (page tree, class
hierarchy, property values and defaults, features, edge index, registers), and
what reads and writes them on the desk (queries, the query builder, live query
sections, card reviews). It checks the models with TLC on small instances and
proves safety properties with TLAPS for every value of the constants.

Paths below are relative to `src/src/notees_gtk/`.

## 1. The system

| component | state it keeps | operations | talks to |
|---|---|---|---|
| Sync engine, `core/sync/engine.py` | `_rt_lock`, `_rt_buffer`, `_pull_in_flight`, decline markers | `push`, `pull`, `sync`, `_on_rt_hello`, `_on_rt_ops`, `_drain_rt_buffer_locked`, snapshots, key installation | store, API client, WebSocket client, clock |
| Relay API client, `core/api/client.py` | a session | `submit_batch`, `catch_up`, login, preferences, snapshots, keys | the relay (HTTP) |
| WebSocket client, `core/api/ws.py` | reader thread, stop flag, backoff | connect, hello and ops frames, reconnect | engine callbacks on the reader thread |
| Store, `data/store.py` | one SQLite file: outbox, dedupe table, watermark; nodes, child order, trash, classes, tags, properties, edges, statistics | `enqueue`, `pending_outbox`, `mark_outbox_sent`, `quarantine_outbox`, `apply_remote` and an applier per op type, `wipe`, snapshot restore, migrations | called from every thread through one re-entrant lock (`_synchronized`) |
| Clock, `core/protocol/clock.py` | `_last` | `advance` (main thread, per edit), `update` (per pulled envelope) | |
| Protocol, `core/protocol/` | none | envelopes, payload schemas, content tokens, dates, features, encryption | |
| Query, `core/query/` | none | parse, compile to SQL, run | store |
| Graph, `core/graph/` | view state | topology, layout, colour groups | store |
| Cards, `core/srs.py`, `core/cards.py`, `ui/review_session.py` | card reviews, session queue | grade, due buckets | store |
| Editor and window, `ui/editor.py`, `ui/window.py`, `ui/worker.py` | the open page, the clock, the engine | save, sync requests (after a save, every 30 s, on opening), realtime start and stop | everything |

What is hard about it:

- **Threads.** A worker thread per sync request (nothing keeps two apart), the
  WebSocket reader, and the GTK main thread share the engine, the store and the
  clock. The store serialises single calls; sequences of calls interleave. The
  engine holds `_rt_lock` in some of them, not in all (the hello handler, push).
- **Failure.** Requests fail before or after the relay acted on them; the
  process can stop between any two store calls; sockets drop frames.
- **Restore from backup.** The relay's log shrinks and its sequence numbers are
  assigned again; the client detects it by an epoch, wipes and starts over.
- **Order.** An envelope may be applied by its author, by a page or early by a
  live frame, so replicas apply the same set in different orders, and only some
  appliers compare stamps.
- **Structure.** About forty appliers keep parent pointers, child-order rows,
  trash rows, role bits and materialised counts consistent in any order of
  calls, each with guards that refuse part of them.

What makes each component correct:

- outbox, engine, relay: nothing saved is lost; the cursor never passes an
  envelope that was neither applied nor refused; an edit never overtakes the
  one it depends on; once faults cease, everything is delivered or set aside;
- clock: stamps of a device increase and stay above what it has pulled;
- replicas: those that received the same operations show the same thing;
- tree: it is one, its redundant tables agree, no applier makes a state that
  another one exists to prevent;
- sealed workspace: once keyed, nothing leaves in plaintext; while locked,
  nothing is synced; the cursor passes nothing unshown, but for what a keyless
  engine could not open or a restore put an older row over;
- class hierarchy: the closure table claims no ancestor class_extends does not
  give, and no cycle closes while it is complete;
- property values, registers: what shows depends on what arrived, not on its order;
- defaults: the panel, a condition and a grouping tell one value;
- features: a gated class shows while its toggles are on, and its two bits agree;
- edge index: what is kept by hand is what would be derived afresh;
- queries: a condition and its negation share the rows; what the builder writes
  runs; a live section ends up showing the mirror as it is;
- cards: the day a card is due and its review history tell the same story.

`PROJECT.json` lists every component with its status and every hazard with the
line where it bites and the properties that cover it.

## 2. The modules

| module | models | |
|---|---|---|
| `Relay` | the relay as the client sees it: log, seqs, epoch, subscription | external; from requests, responses and docstrings of `core/api` |
| `SyncStore` | outbox, dedupe table, watermark of `data/store.py` | extends `Relay`; an operator per `LocalStore` method |
| `SyncEngine` | `core/sync/engine.py` with the threads that run it, and the editor's save | extends `SyncStore` |
| `Delivery` | abstract: what outbox and mirror promise the user | implemented by `SyncEngine` |
| `SealedSync` | opening a workspace: key, snapshot, push and pull of a keyed or keyless engine, other devices | `ui/window.py`, `core/sync/engine.py`, `core/protocol/crypto.py` |
| `HlcClock` | `core/protocol/clock.py` under two threads and restarts | |
| `Replicas` | last-writer-wins appliers of several devices and the log between them | stamps are arbitrary: `HlcClock` shows why |
| `NodeTree` | the tree appliers of one store | |
| `ClassHierarchy` | `class_extends`, `class_hierarchy`, the registry | |
| `PropertyDefaults` | one schema's default through its bindings and its three reads | extends `ClassHierarchy` |
| `PropertyValues` | positional and element values, tombstones, the carrier block | |
| `Features` | toggles and the archival bits they gate | |
| `QueryMatches` | what query conditions match, where a result opens, and the trash below | `core/query/compiler.py`, `ui/query_run.py` |
| `EdgeIndex` | edges, alias resolution, counts, the graph's vertices | |
| `Registers` | collection members and external references | |
| `QueryBuilder` | the builder dialog from row edits to the written token | |
| `QueryRun` | a live query section under store notifications | |
| `CardReview`, `Scheduler` | hub, review session, foreign grades; SM-2 and FSRS | `CardReview` extends `Scheduler` |
| `MCSyncEngine`, `MCReplicas`, `MCRecords`, `MCMirror`, `MCDesk` | constants and constraints for TLC | |
| `SyncEngineProofs`, `HlcClockProofs`, `ReplicasProofs`, `NodeTreeProofs`, `EdgeIndexProofs` | theorems about the module they are named after | |
| `MirrorProofs` | theorems about `ClassHierarchy`, `PropertyDefaults`, `Registers`, `PropertyValues`, `QueryMatches`, `Features` | |
| `NaturalsProofs` | facts about the naturals that the walks rest on | |
| `DeskProofs` | theorems about `QueryRun`, `CardReview`, `SealedSync`, `QueryBuilder` | |

Operators commented "Wrong on purpose" describe plausible mistakes in the code
(a reset left out, a test outside the lock, an off-by-one). No specification
uses them; each, put in the place of the operator it is a variant of, makes TLC
find a named property violated, and so shows that the property depends on that
piece of code.

### SyncEngine

A thread's step is one call on the store or the relay, because that is where
threads can interleave: `LocalStore` runs each public method under one lock and
an HTTP request is one event at the relay. `pc[t]` says what the thread does
next; `batch`, `ids`, `tries`, `after`, `mark`, `more`, `seen` are the locals
of `push` and `pull` that live across calls. Locals are cleared when the
function that owns them ends, which keeps equal situations equal states.

- `push`: `TakeChunk` (`pending_outbox`), `SubmitAccepted` / `SubmitRejected` /
  `SubmitFails` / `SubmitUnauthorized` / `SubmitTooLarge` (the outcomes of
  `submit_batch`), `ApplyNext` (self-apply), `MarkSent`, `Quarantine`. It holds
  no lock. A transient failure happens before or after the relay committed.
- `pull`: `PullBegin` takes `_rt_lock`, then `FetchPage`, `CheckEpoch`,
  `WipeForEpoch`, `AdoptEpoch`, `ApplyNext` per envelope, `PageApplied`,
  `Advance`, and `Release` after the drain. `wipe` and `set_restore_epoch` are
  two steps since they are two transactions.
- realtime: `Receive` a frame; hello is compared, wiped for and adopted without
  the lock (`HelloCheckEpoch`, `HelloWipe`, `HelloAdoptEpoch`), then pulls or
  drains; a live frame takes the lock and then asks whether a pull is in flight.
- main thread: `SaveEnqueue`, then `SaveApply`. `Crash` loses every local and
  the socket, and keeps the store.

The mirror is the set of op ids applied (`ops`): an apply and its
`relay_operations` row commit or roll back together. What an applier refuses is
abstracted to `Dep`: it needs the rows other envelopes create. A page, a chunk
and a frame are functions giving each envelope its rank in the order the code
goes through them. `passedOver` records which envelopes a page skipped on a
`StoreError`; nothing reads it but the properties.

### HlcClock

`advance` and `update` read `_last`, call `Hlc()` or `max()`, and store. CPython
may switch threads inside those calls, so each method is cut there:
`AdvanceRead`/`AdvanceStore`, `UpdateRead`/`UpdateLogical`/`UpdateStore`. Time
may stand still or move between any two steps. `RestartProcess` forgets `_last`
but not what was pulled. `overtaken` is history: the calls under way since whose
reading the other thread has stored.

### Replicas

One node, one class pair, one tag pair. `Save` stamps and enqueues, `Show`
applies at the author, `Push` appends to the log, `Deliver` applies a live
frame early, `Pull` applies the log in order, `Restart` forgets the edit between
`Save` and `Show`. `Apply` dispatches to the appliers as `apply_remote` does:
the row comparison of `object.update` drops a loser whole, the class add wins a
tie, the tag add does not, an update's content links add classes only when it
wins, and `class.unassign` is refused while the node's content links the class
(`Refused`). `asserted[d]` collects the operations device d's class set received,
as opposed to the envelopes it applied.

### NodeTree

`parent`, `class`, `embedded` are columns of `nodes`; `trash`, `childRow` and
`counts` are tables of their own that the appliers keep in step by hand. One
action per envelope type; a guard that raises and a comparison that loses are
actions that are not taken. `Subtree` and `Ancestors` are the recursive SQL
walks, defined as the least closed set. `Purge` is
`_permanently_delete_subtree` for a set of roots, so that `trash.empty`, one
transaction in the code, is one step: `EmptyTrash` says which roots the loop, in
id order, finds already purged with another one. `Convert` is `class.create`
over an existing node, `NewClass` both class ops over none.

### SealedSync

The worker steps of `SyncEngine` again, with less of their failures and more of
what opens a workspace. `current` is the engine of the window, older ones stay
alive in their workers; `provider[e]` and `barred[e]` are `_crypto` and
`encrypted_locked`. The opener fetches or stores the wrapped key (`FetchKey`,
`StoreKey`, `KeyRouteFails`), probes and restores a snapshot (`RestoreSnapshot`
and `RestoreCursor` are two transactions), then syncs; the reader of the same
engine has been started before it, and a save or the timer starts another
worker. Push tests `barred` once (`PushBegin`), seals with the provider of the
moment (`TakeUnsent`); pull tests it before it waits for the lock (`PullBegin`,
`FetchPage`), skips what it cannot open (`ApplyPage`) and uploads an image
under the lock (`UploadSnapshot`). The rest of the account commits, stores a
key and uploads images. `lost` is history: every sealed edit a keyless page
skips, and every row a restore puts an older one over.

### ClassHierarchy, PropertyDefaults

Four tables: node rows, registry rows, `class_extends`, `class_hierarchy`.
`SetExtends` replaces a class's parents and rebuilds the closure for registered
classes; `SetExtendsAllowed` is the cycle check, made against the closure as the
code does. `DeclareClass` adds the self row and rebuilds nothing.
`PropertyDefaults` puts a property schema, its bindings and one node's classes
on top and derives the value three times: `PanelValue`
(`get_effective_properties`), `QueryValue` (`_effective_value_ctes`) and
`AggregateValue` (`_effective_value_sql`).

### PropertyValues, Registers

One step per envelope, in any order, with the tombstones each applier writes and
reads. `arrived`, `refused` and the `heard` sets are history: the properties
compare the visible rows with a function of them.

### Features

The seed vocabulary is the source's. A class has a bit on its node and one on
its registry row; `FamilyBits` rewrites both from the toggles that gate it.

### QueryMatches

Rows with a parent, `is_active`, the trash and class membership. Hiding a row and
filing it in the trash are different things in the code, and here: `TrashRow`
files a user's row and hides its tree, of a system class it only clears the bit;
`ArchiveRow` and `UnarchiveRow` are `object.update` with `active`; `SetFeatures`
rewrites the bits of gated classes; a move and a conversion leave the bit as they
find it.

A condition is a function from rows to SQL's three values, put together as the
compiler puts its text together: `SqlEq` and `SqlIn` yield NULL where an operand
is the NULL parent of a root or a list holds one, `SqlExists` and a COALESCE never
do, NOT is `SqlNot`, and a query keeps the rows its condition is true of. `Climb`
is the walk over `parent_id`: the tree's own walks go all the way (`UpFrom`), the
page, reference and parent-path queries stop after `WalkBound` levels (`Within`;
64 in the code), and the latter two list the ids they step to, a root's NULL
among them (`AboveIds`, `PathIds`). `ContainingPage` is the nearest row of the
bounded walk that claims to be a page, `Opens` the first row of the whole one that
renders as one.

### EdgeIndex

Each applier's write of `edge`, `resolved_target_id` and `node_stats` as the
code makes it (`Rebuild`, `Reresolve`, `Restat`), beside `DesiredEdges`, what
the backfill derives from the same mirror. Every walk is a `Follow` of so many
steps, of links that stop at NULL: `Terminal` along the aliases of live rows as
far as the cap, `Up` and `ClosesCycle` along all of a `Chain`, `DrawnAt` along
the graph's own `Rollup` of aliases and parents. `Purge` takes a set of roots, as
in `NodeTree`: what `trash.empty` purges in one transaction is counted again
once, over everything the loop counts.

### QueryBuilder

The code's draft is a tree of groups and conditions. The model keeps its rows in
one function: each has its child, a condition or a group perhaps under a NOT, and
the set `in` of all rows it stands below (`Below` is the converse). So removing a
row (`RemoveChild`), giving a member another target (`ReplaceChild`) and pruning
are set operations, without recursion. The order of siblings, which decides no
guard, is left out. An edit is one control of a row (`ChildEdits`: operator,
target mode, chip, value, exclusion, logic) or the add menu of a place that holds
rows (`AddChild`). Apply is `Survivors`, the filled conditions and whatever they
stand below, then `Dumped`, and `DraftOrFactory` when none is left; `Parses` and
`Compiles` are what the next opening and the next run ask of the token. A token
from elsewhere that can be read is assumed to run (`BuilderAssumption`).

### QueryRun

`store_listener` tests the armed flag, raises it and queues an idle, in three
steps, on whatever thread committed; the main loop clears the flag and runs the
query. `apply_remote` and `wipe` notify under the store's lock,
`restore_snapshot` does not.

### CardReview, Scheduler

A grade is two envelopes that matter here: `cardDue` (`DueApplied`, last writer
wins) and the review (`ReviewApplied`, a row of history). Each has its own stamp,
`cardDue` the first of the batch and `card.review` the last: `GradeCard` computes
the state and stamps the one, `StampReview` the other, `SaveDue` and `SaveReview`
write them. The four are one callback of the main loop, but a worker's pull
applies foreign envelopes and moves the clock between any two, an unassign or a
purge may arrive, and the process may end; `cut` remembers the grades of which
only the first write was made. `ForeignGrade` likewise has two stamps, `begun` and
`done`, and its two envelopes are pulled one after the other. The session keeps the
state it rendered. `CardSrsStates` is a set, since of two reviews at one stamp
either can be the latest row. `Scheduler` is SM-2 exactly, and FSRS as any interval
the formula's sign allows.

### MCRecords, MCMirror and MCDesk

Each puts several modules that share no state into one run: a subject, a family of
the mirror's tables or a window of the desk is chosen at the start and the others
stand still. What is joined is the search only; a behaviour is a behaviour of
one module.

## 3. What is checked

| run | instance | shows |
|---|---|---|
| `core` | 1 worker, the reader, 2 own edits (the second depends on the first and the relay rejects it), 1 foreign envelope, 2 faults | types; `Accounted`; `CursorCoverage`; the engine implements `Delivery`; `Converges` |
| `workers` | 2 workers, no socket, up to 4 own and 2 foreign envelopes, one of them rejected, 2 faults, 1 restore | `CausalLog`, `CursorCoverage` |
| `restore_realtime` | 1 worker, the reader, 1 own, 1 foreign, 1 fault, 1 restore | `EpochSettles` |
| `records` | 3 subjects: 2 devices of one user, 5 envelopes of every kind, stamps of 2 instants and 2 logical counts; a clock of 3 instants and 3 counts, 2 threads and 1 restart; 3 rows, any of them inline, a class, and 4 envelopes | the 8 properties of `Replicas`, `HlcClock` and `QueryMatches` below |
| `mirror` | 6 families: 3 classes and 4 steps of configuration; 1 scoped text schema with 2 positions, 1 element and 3 envelopes; 4 system classes, 4 features, 3 stamped envelopes; 3 ids, one of a family, and 4 edits; 1 reference and 1 member with 2 stamps; 1 schema's default and its bindings | the 11 properties of `ClassHierarchy` to `Registers` below |
| `desk` | 5 windows: 3 ids and every sequence of tree envelopes; 2 rows of a builder; 3 threads and 4 changes; 1 node, 2 edits, 2 workers at a time, 2 engines; 1 card, 2 own grades and a foreign one over two days | the 13 properties of `NodeTree`, `CardReview` and `QueryBuilder` to `SealedSync` below |
| `hello_race`, `live_drain`, `oversize`, `clock_restart`, `card_twin`, `diverge` | the smallest instance that shows it | a sentence of the repository that the code does not keep (section 6) |

What the properties say:

- `Accounted`: whatever was saved or shown is on the relay or has an outbox row.
- `CursorCoverage`: while the stored epoch is the relay's, every envelope at or
  below the cursor was applied, or refused when its page came.
- `OnlyOverlapsSetBack`: `_last` decreases, and falls below what was pulled, only
  at a restart and at a store of one thread over a value the other stored since;
  whatever the threads do, a merge ends above what it merged, and a clock that is
  behind stamps above everything pulled once the wall clock has passed it.
- `CausalLog`: until the first restore the log lists an edit after whatever it
  needs that is not quarantined. A push that took its chunk before a restore, or
  before another push quarantined what the chunk needs, does break the order.
- `Converges`, `EpochSettles`: liveness, below.
- `ClassConverges`: replicas whose class set received the same adds and removes
  agree, in any order and also with equal stamps. `TagConverges` needs distinct
  stamps: with `>` on both sides the first to arrive wins a tie. `RowConverges`:
  after the same updates replicas agree on the newest one and on what it wrote,
  not on the columns it left alone.
- `Sound`, `RowsMatchParents`: parents exist, no node is below itself, classes
  are roots, soft-trashed roots are there; child-order rows are the parent edges.
- `OnlyConvertMisplaces`: no applier but the conversion puts a standalone page
  under a block or a class, also not by changing what stands above it. It is
  what the guards of create, update and move are for, taken together.
- `OnlyConvertStales`: no applier but the conversion makes a count wrong.
- `ClosureSound`, `SettledStaysAcyclic`, `OnlyUndeclaredUnsettles`: the closure
  table claims nothing false; no cycle closes while it is complete; it stops
  being complete only where a node had parents before its class row.
- `VisibleIsNewest`: the value on screen is the newest write not undone by a
  newer remove or unset, in any order. `CarrierOutlivesItsValues`: the carrier
  block is trashed only when no value left refers to it.
- `OnlyOwnEnvelopeDrifts`: a class gated by two features shows while both are
  on, until an envelope addresses the class itself; its two bits part only by
  re-declaring an archived class.
- `PolarityPartitions`: no condition is NULL of an active row, so it and its
  negation share the active rows between them, but for a row no page contains
  under "page is set". It needs the COALESCE around a parent, the EXISTS around the
  lists that hold NULLs, and target lists without one. `OpensItsPage`: a click leads
  to the page the condition files the row under, on the stated shapes.
  `OnlyMoveStrands`: a row becomes neither visible nor restorable only by a change
  of parent of its own or of a row above it (a move, a conversion), or by its own
  archiving (an update, the delete of a system class, a toggle); no delete or
  restore of another row does it, in whatever order.
- `OnlyFlatteningOrTogglesStale`, `OnlyDeclarationMiscounts`: in which steps the
  hand-kept index and counts part from what would be derived. `GraphFollowsIndex`:
  the graph and a current edge row agree where an edge is drawn.
- `NewestStands`: members and references are a function of what was heard.
- `ReadsAgree`: the three reads of a default agree but in four named cases.
- `ScheduleIsHistory`: unless a grade is half pulled or half saved, or a crash took
  its review, the schedule holds the day of the review whose grade was begun last,
  whichever device gave it and in whatever order the envelopes came. `JournalIsTwin`,
  that this is also what the newest review says, is violated (`card_twin`).
  `HistoryChains`: as long as no other device graded the card, a review starts from
  the state the one before it left; the foreign pull between reveal and grade, after
  which it does not, is excluded and in section 6.
- `AppliedQueryRuns`: each condition Apply writes parses and compiles, or is of
  one of four shapes.
- `NoChangeLost`: a section behind the mirror has a refresh on its way.
  `CatchesUp`: it gets there.
- `CursorCovered`: the cursor passes nothing unshown that is not in `lost`.
  `SealedOnceKeyed`: once the window's engine is keyed and no keyless worker is
  left, envelopes and images go out sealed. `LockedKeepsOut`: a barred engine
  fetches, pushes and uploads nothing. Live frames are not in its scope: the code
  still applies them while the engine is locked.

The properties that begin with "only", and those with named exceptions, draw the
line where the code stops doing what one would expect: the exceptions are
behaviours the code has (section 6), and the property says there are no others.

**Bounds.** `MaxFaults`, `MaxRestores`, `MaxTime`, `MaxLogical`, `MaxWall`,
`MaxCounter`, `MaxRestarts` and the sets of envelopes, threads, devices and ids
are the only ones. A chunk of two and a page of one make several pages and chunks out of two or three
envelopes. Two faults are enough for both attempts of a chunk to fail, and for a
lost answer followed by a crash. Two devices meet in every order of two
conflicting operations plus a third one that decides; convergence is a statement
about pairs. Three ids are a chain, a fork, and a subtree moved below a sibling;
`None` to `parent` to `child` is the deepest guard of the tree (a node, its
parent and what the parent stands under). `OneSubject` in `MCSyncEngine` and
`MCReplicas` joins
two questions in one run: a behaviour of `workers` either pushes four edits
without foreign envelopes and restores, or crosses a restore with few edits; one
of `Replicas` is about row and class or class and tag.

In `records`, `mirror` and `desk` every bound counts envelopes, edits or grades. Three
envelopes are two that conflict and one that decides; four edits build an alias
chain, an edge over it and a change in its middle; the rows of the queries are a
page, a block, a standalone page under it and a class above them. Ids outside the
family are interchangeable in every family of `mirror`, and the rows that are not
classes in `records`; both are permuted as symmetry, since neither run has a
liveness property. `Heir` is empty in `desk`: a class that extends card and is
itself in the hub has its review refused, which is in section 6. `AliasCap` is 2,
the longest chain three ids can make, so that like the code's 32 it is not reached;
`WalkBound` is 2 where three rows can be nested under a fourth, so that the
queries' bound is. The tokens a builder starts from (`TokensDef`) are few: the empty one, an
`and` of a class row and a text row, an `or` of an excluded property row; what is
typed (`TypedDef`) is one kind of text. The theorems hold of all.

Five families and windows are searched less than whole, each where its parts do
not interact. The index starts with all ids or with the family's only (three
edits reach the starts in between). A default is bound by one class at a time,
since a read asks whether some class binds it (`OneBound`). Of the rows of a
builder's root all but one are as they were added or read, since each is pruned,
parsed and compiled alone (`OneChildEdited`). Two edits and two engines meet with
the opener and the reader at work but no save (`OneOpening`); either limit is met
with all three workers. Three grades of a card meet on one day, and two over two
days (`FewGrades`). The safety properties of these five are also proved, without
the limit.

**Fairness.** `FairSpec` asks weak fairness of each thread's own steps and of
the main thread's `SaveApply`: the interpreter schedules runnable threads, a
save handler runs to its end, and the 30 s timer starts another sync, so a
worker that could start one does. Nothing is assumed of the user, other devices,
the socket or of faults, whose number is bounded; a lock is free again because
its holder's steps are fair. `Converges` then says that once the rest is quiet
all is delivered or parked and shown or refused, `EpochSettles` that the client
ends on the relay's epoch. They are claimed without lasting failures: a relay
that never answers delivers nothing. `RunFairness` asks weak fairness of each
thread's way through a notification and of the main loop's idles, which GLib
runs in turn; nothing of the commits, whose number is bounded.

**Deadlock** is checked in the engine's runs. In `records`, `diverge`, `mirror`,
`desk` and the instances of one card or one clock it is not: devices that have
exchanged everything stop, and a bound on envelopes, time or grades ends a
behaviour.

## 4. What is proved

TLAPS checks these for every value of the constants that the named assumptions
allow (finite sets of envelopes or ids, positive sizes).

| theorem | assumes | argument |
|---|---|---|
| `TypeCorrect` | | `TypeOK` is inductive |
| `BufferNeverUsed` | | `RtBufferUnused`: the lock's holder is the only thread at a step of a pull, a drain or a live frame, and the buffer is empty |
| `NothingLost`, `CursorCovers`, `EngineImplementsDelivery` | no restore from backup | `NoRestoreInv` |
| `NothingLostUntilRestored` | | the same invariant under `epoch = 0`, which no step brings back |
| `CursorCoversAcrossRestores` | no hello wipes the store while a pull is in flight | `EpochInv`, below |
| `CursorCoversWithoutReader` | no reader thread | only a reader is ever at the hello's wipe, so the assumption above holds of every step |
| `LogIsCausal` | | `CausalInv`: outbox rows follow the order of dependence, and a chunk under way comes with whatever it needs, already in the log, in the chunk or quarantined |
| `ClockSetBackByOverlaps` | | `Ahead`: what a call is about to store is above `_last` unless the other has stored since it read, and a merge's value is above what it merges anyway |
| `ReplicasTypeCorrect` | | inductive |
| `ClassSetConverges`, `TagSetConverges`, `NewestUpdateShows` | | the pair's state is the winner of what it received, a function of the set and not of the order (`WinnerInv`) |
| `TreeTypeCorrect` | | inductive |
| `TreeIsSound` | | `Sound` with `TypeOK` is inductive; `Graft`: a node put under one outside its subtree leaves no cycle, `Prune`: taking edges away makes none |
| `RowsFollowParents` | `TreeIsSound` | a new id has no edge, and what is purged is closed under children |
| `OnlyConversionStales` | `RowsFollowParents` | a count depends on the edges below a node only, so it changes above a changed edge only, and that is what each step counts again |
| `OnlyConversionMisplaces` | | what stands above a page is a page, so a node whose ancestors a step leaves alone keeps rendering as it did; what a step puts elsewhere its guard has tested |
| `HierarchyTyped`, `ClosureIsSound` | | a rebuild lists ancestors only, and the other steps keep the edges and add self rows |
| `CompleteClosureKeepsAcyclic`, `UndeclaredUnsettles` | | a cycle through the new edges would go through a parent that has the class as an ancestor already, which a complete closure shows the check |
| `RunTypes`, `NoChangeIsLost` | | `RunInv`: a raised flag has an idle queued, or a thread about to queue one |
| `DefaultReadsAgree` | | a stored default fits the schema's type (`SchemaIsValid`) |
| `RegistersTyped`, `NewestAlwaysStands` | | `RegistersInv`: the row or tombstone is the newest of what was heard since the last purge |
| `ValuesShowNewest`, `CarrierStays` | stamps are distinct, element ids are no positions | `ValuesInv`: a tombstone is the newest of the removes and unsets it stands for, a row is some accepted write, and every other write is behind it or gone for a tombstone ahead of it |
| `PolaritiesPartition` | | each SQL text is two-valued: the lemmas `MembersTwoValued` and `ExistsTwoValued` go family by family through what can be NULL in it |
| `ResultsOpenTheirPage`, `StrandedByMoves` | | `MatchInv`: no move makes a loop; a way up ends at a parentless row and its rows are nested |
| `DriftsAreOwn` | the source's vocabulary | `FeaturesInv`: a class with a node has a registry row, so that a derivation writes both bits or neither |
| `GraphFollows` | | types: what is met on the graph's way is drawn where the start is, and the end of an alias chain is met |
| `StalesByFlatteningOrToggles`, `MiscountsByDeclaration` | | `IndexInv`, below |
| `ReviewsChain`, `RecordsAgree` | | `CardsInv`: the mail comes in pairs (`Paired`), the schedule is the newest of the values it was told, those of a grade half pulled, half saved or cut included (`ScheduleIsNewest`), the grade in hand was given to what its card showed (`GradeInHand`), and that is what its last grade left (`ShownIsNewest`) |
| `AppliedRuns`, `AppliedSettles`, `DraftIsTree` | tokens written elsewhere run if they can be read | `BuilderInv`, below |
| `SealedTyped`, `CoveredByCursor` | | `SealedInv`, below |
| `OnlySealedLeaves`, `LockedStaysOut` | | `SealedTypeOK`, step by step over the workers of the window's engine |

`NoRestoreInv` is needed because `Accounted` is not inductive. It adds what the
threads carry: a chunk under way consists of saved envelopes, of committed ones
once the thread is about to acknowledge it; frames and pages hold committed
envelopes; whatever lies between the cursor a page was asked for and its
`next_after_seq` is still in the thread's page or was applied or passed over;
everything up to that cursor was. The refinement of `Delivery` is proved step by
step from it: `TakeChunk`, `FetchPage` and the lock are stutters,
`SubmitAccepted` is a `Commit`, `MarkSent` a `Settle`, `Quarantine` a `Park`,
and every apply a `Show` or a stutter.

After a restore from backup that invariant is gone: the log is shorter, its seqs
are assigned again, and what a thread carries is of another epoch. `EpochInv` says
what is left. No epoch in the store, a thread or a frame is ahead of the relay's;
what a page in hand says of the log between its cursor and its `next_after_seq`
holds while the relay is still in the epoch the page was read in; a page that may
still move the cursor was read in the relay's epoch whenever the store is in it;
and a thread that is about to write the relay's epoch counts as in it, since the
cursor it finds is then the one that must cover. `pull` keeps this by comparing
the epoch of every page before it uses it. The hello handler wipes and writes the
epoch without the lock: if that falls into a pull, the page in hand passes the
comparison it was given and moves the cursor past what the wipe removed. That is
the run `hello_race`; `NoWipeDuringPull` excludes this one interleaving and
nothing else, and a client without a reader cannot reach it.

`AppliedQueryRuns` speaks of a closed dialog only, so it is the draft that needs
the invariant. `BuilderInv` says of the rows of an open draft that each is `Sound`,
which is what no control ever leaves half typed and the prune need not look at (a
period, the bounds of a date, which operators a family has), and that they nest
(`Nests`). The prune adds what `Sound` leaves open. As rows are kept flat, no
induction over the depth of a draft is needed: a row that survives keeps all the
rows it stands below, and a second prune keeps all of what the first one did,
which is `AppliedSettles`.

`CursorCovered` is not inductive either: a restore of a snapshot puts old rows
back and, a transaction later, moves the cursor. `SealedInv` says in addition
what restoring the relay's image would leave (`ImageCovers`, `BeyondImageHeld`),
and that a cursor about to be written, or a page fetched from a cursor that a
restore has moved since, passes nothing uncovered (`PassedCovered`).

The index theorems compare a mirror with what a step makes of it: sources that
were current still are, counts that were right still are (`Keeps`), one lemma for
each maintenance operator and from those one for each action. `IndexInv` is what
makes that go through: there is one row for a source, a kind and a target, or a
resolution could merge two rows and change a count; and an id without a row has
no alias, mention or field, or a creation would find links it never wrote. That a
re-resolution reaches every row that needs it is the fact that a chain of live
aliases which does not meet the rows whose links changed ends where it did.

Walks are recursive functions over the naturals, and induction over data is out
of the provers' reach here. Two facts about the naturals stand in for it: a set
of them that holds 0 and successors is all of them, and a function given step by
step exists (`NatClosed`, `StepwiseFunction` in `NaturalsProofs`). With these the
proofs say of a walk what it returns after one more step, that it stays among the
ids, and, for `QueryMatches`, that of the rows on a way up some row of every set
comes first.

Only model-checked: the liveness properties `Converges`, `EpochSettles` and
`CatchesUp` (the prover has no rules for fairness here), and the violation runs.
Every other property a passing run checks is the statement of a theorem. Two of
the engine's are proved under an assumption about what happens around it:
`Accounted` and the implementation of `Delivery` up to the first restore from
backup (a restore does lose what the backup had not), `CursorCoverage` through
any number of them under `NoWipeDuringPull`.

## 5. What is not modelled, and why

- `SyncEngine` is the keyless engine without snapshots, `SealedSync` has both
  without the failures of `SyncEngine`: the two are not composed, their product
  is out of TLC's reach at useful sizes. The size latch of snapshot uploads and
  the reader thread's own start, stop and backoff are left out.
- The payload of an envelope. What an applier refuses is `Dep` in the engine,
  and modelled applier by applier in the other modules.
- What SQLite does below one store call: two threads inside one transaction
  (`restore_snapshot` takes no lock), inner commits of an applier.
- The relay files an uploaded image under the uploader's cursor: an assumption on the
  service, which `SealedSync` takes over.
- In `PropertyValues`: two writes with one (hlc, actor) stamp, and a remove that
  addresses another schema than the element's (`data/store.py:3999`). In `EdgeIndex`:
  the graph's rule for classes with `parentlessRole` "block".
- Asset links; colours, icons and formats of a schema; settings of a feature.
- In queries: text search, dates, sorting, paging and the text forms of a query.
- In `NodeTree`: `is_active` (`QueryMatches` has it), positions of siblings, the
  date chain and system classes (whose shape is locked), classes with `parentlessRole` "block", edges
  and the counts over them, and the loss of an update by the row comparison
  (`Replicas` has it).
- The relay's own code, which is not in the repository. It is assumed to commit
  a batch as a whole, to ignore duplicates, and to answer pages in seq order.
- Schema migrations, most payload schemas, cryptographic primitives, the layout
  of the graph, exact FSRS arithmetic, drawing, configuration files.

## 6. Disagreements with the repository's own words

| run | where | what happens |
|---|---|---|
| `hello_race` | `core/sync/engine.py:517` | the hello handler's wipe falls into another thread's pull, whose cursor then passes envelopes the mirror no longer has; "the seq cursor stays authoritative" |
| `oversize` | `core/api/client.py:456` | an envelope that grows past the wire limit when sealed raises `ValueError` in every round; nothing behind it is pushed, nothing is pulled; "quarantines offending ops instead of retrying them blindly" |
| `live_drain` | `core/sync/engine.py:538` | a frame asks whether a pull is in flight under the lock the pull holds, so it waits and is applied afterwards; nothing is ever buffered (theorem `BufferNeverUsed`) or drained, though engine.py:14-15 and 377 and `tests/test_sync_engine.py:751` say "buffered and drained when the pull finishes" |
| `clock_restart` | `ui/window.py:111` | the clock starts at zero with the process, the cursor does not: a new edit can lose against a pulled one; "stay causally ahead of pulled state" |
| `card_twin` | `core/cards.py:150` | a grade's `cardDue` has an earlier stamp than its `card.review`, and a foreign grade can fall between: schedule and journal then follow different grades; "journal twin", "the same derived state the appliers maintain" |
| `diverge` | `data/store.py:2016` | an update that loses is dropped with the columns the winner does not carry; "every replica converges byte-identical under any delivery order" |

Met while modelling, and pinned by an exception of a property rather than by a
run of their own:

- `core/protocol/clock.py:89`: advance and update take no lock; a store of one thread
  over what the other stored since takes the clock back (`OnlyOverlapsSetBack`),
  though the docstring at 63 says the last HLC "never decreases".
- `data/store.py:3053`: declaring a child a class detaches it without counting
  its former ancestors again (`OnlyConvertStales`); the comment at 6578 says
  "rebuild the affected closure after every tree/edge/liveness change".
- `ui/window.py:553`: between `start_realtime` and `set_crypto` a save is pushed
  in plaintext, hello's pull skips sealed envelopes for good and may upload a
  plaintext image; a keyed workspace is opened keyless on an `ApiError`; push
  tests `encrypted_locked` only before its loop; a worker of an earlier engine
  keeps pushing without the key (`CursorCovered`, `SealedOnceKeyed`,
  `LockedKeepsOut`). A sealed image replaced by a plaintext one between probe and
  download ends the opener with a `ValueError`.
- `core/sync/engine.py:637`: a restore takes the cursor back and puts older rows
  over newer ones the dedupe table never lets in again (`CursorCovered`).
- `data/store.py:3193`: a node given parents before it is declared a class is
  missing from the closure, and the next check admits a cycle
  (`OnlyUndeclaredUnsettles`).
- `core/query/compiler.py:999`: a condition derives a default from own
  memberships only and without scope, the panel inherits it and asks for
  eligibility; a list default shows on the panel and matches no condition; a
  grouping skips the option test of the condition (`ReadsAgree`), though the
  docstring at 366 says "the same read model as the property conditions".
- `core/query/compiler.py:1049`: "page is set" is NULL, so neither it nor its
  negation shows the row, where no page contains it; a demoted root or a class on
  the way up makes a click lead elsewhere than the condition (`OpensItsPage`).
- `data/store.py:2541`: a move strands a trashed row, and so does declaring it a class
  (3048); an archived row (2128, 2311) is in no trash to restore it from
  (`OnlyMoveStrands`).
- `data/store.py:5249`: a promotion, a first parenting and a class title flatten
  mentions and leave their edge rows; a toggle in the middle of an alias chain
  re-resolves nothing; a class declared under a linked id starts uncounted.
- `data/store.py:4231`: `class.create` on an archived class sets the registry's
  bit and leaves the node's, also while the feature is off.
- `core/query/builder.py:801`: four shapes of a row that Apply writes and that
  then do not parse or compile (`AppliedQueryRuns`). An operator picked on an
  excluded row can drop its NOT, and the fresh date row shows another operator
  than it has.
- `ui/window.py:455`: a pull between reveal and grade leaves a stale
  `stateBefore`; the card's properties and its review can arrive apart, and a crash
  between the two saves leaves the first alone; a class
  that extends card is a card to the hub and its review is refused.
- `data/store.py:5914`: sibling positions before a first child go one character
  down each time and end in `chr(-1)`, though the docstring says "distinct
  positions always have room".
- `ui/graph_view.py:136` subscribes its rebuild directly, so worker threads
  rebuild widgets; `ui/query_section.py:106` marshals for that very reason.

## 7. Plan

Done: every module of section 2 with the runs and theorems listed. Still to do,
in the order of importance:

1. Proofs: that `SealedSync` refines the engine's page and cursor; that a rebuilt
   closure is complete for registered classes; that what Apply wrote is not only
   read back but opens as the same draft.
2. `RealtimeClient`: the reader thread's start, stop, backoff and epoch of a
   workspace switch, composed with `SealedSync`.
3. `Positions`: the midpoint of sibling positions, strictly between its
   neighbours, and its end at repeated insertion before the first.
4. The atomicity of appliers that commit inside `apply_remote`, applier by
   applier; asset links; the date chain on top of `NodeTree`.
5. The query's text forms and dates against a reference definition.
