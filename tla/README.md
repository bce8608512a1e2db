# Verification of nostr-rs-relay (with its macOS app)

TLA+ models of the relay in `src/`, the TLC runs that check them and the
TLAPS proofs about them. Source lines are quoted as paths of the repository.

## 1. The system

A Nostr relay: clients connect by WebSocket, send signed events (`EVENT`),
register subscriptions (`REQ`, `CLOSE`) and get stored and live events. A tokio
task per client (`server.rs:nostr_server`) owns the socket, the connection's
subscriptions (`conn.rs`) and four inboxes. One task, `db.rs:db_writer`, takes
the events of all clients, decides on their admission and writes them.
`repo/sqlite.rs` (or `repo/postgres.rs`) holds the tables; each query runs on a
blocking thread. A NIP-05 verifier (`nip05.rs`) and a payment processor
(`payment/`) are tasks of their own. A SwiftUI menu-bar app (`NostrRelayApp`)
starts and watches the relay process.

| Component | State | Operations | Talks to |
|---|---|---|---|
| Event store, `repo/sqlite.rs` | tables `event`, `tag` | `write_event`/`persist_event`, `delete_expired`, `query_from_filter` | writer, query engine |
| Query engine, `repo/sqlite.rs`, `server.rs` | subscriptions, running queries, reader permits, checkpoint lock, result channels | `REQ`, `CLOSE`, `query_subscription`, `db_checkpoint_task` | client tasks, writer (broadcast) |
| Event writer, `db.rs` | rate limiter; reads users and accounts | `db_writer` | clients (notices), store, verifier, ledger, gRPC |
| Payments, `payment/` | `account`, `invoice` | `NewAccount`, `CheckAccount`, `InvoicePaid` | web endpoints, writer |
| NIP-05 verifier, `nip05.rs` | `user_verification` | metadata events, re-verification | writer, store, HTTP |
| Client session, `server.rs`, `conn.rs`, `dedup.rs` | challenge, authentication, seen events | `AUTH`, `EVENT`, pings | writer, query engine |
| Filters, `subscription.rs` | none | parse, match in memory, translate to SQL | client task, store |
| Delegation, `delegation.rs` | none | parse and evaluate conditions | event validation, filters |
| PostgreSQL store, `repo/postgres.rs` | the same tables | `write_event`, `delete_expired`, `query_from_filter` | writer and verifier at once |
| Migrations, `repo/*_migration.rs` | schema, version | a script per version | start-up |
| macOS app, `RelayService.swift` | process, flags, detached tasks | start, stop, callbacks, quit | relay processes |

What is hard, component by component:

- Event store. Deletions, versions and repeats come in any order; rows are
  hidden, replaced, purged and offered again. Correct means: one row per
  address, deletions that stay in force, nothing lost, and a table that does
  not depend on the order of arrival.
- Query engine. Blocking threads and async tasks share a semaphore, a lock and
  a bounded channel, and check before they act. Correct means: no permit is
  lost, no query runs for nobody, no event falls between stored and live, and
  nobody waits for ever.
- Writer and payments. Money moves in several steps, by webhook, by polling and
  per event; notices are dropped when the client's inbox is full.
- Verifier. It learns of profiles only after the gate that needs its verdict, and
  shares the profiles with the writer. Correct means: who posts was proved, a name
  has one holder, and what is overdue is checked again.
- Session. A duplicate filter shared by all clients that records before the event is
  accepted; answers that are dropped when a client is slow; messages that only two
  parties may see. Correct means: every event is answered or accounted for, the filter
  is exact, and a slow client holds up nobody.
- Filters. The same filter is decided in memory and by the SQL of two engines. Correct
  means: they agree.
- PostgreSQL. Two writers in overlapping transactions. Correct means: what was accepted
  is not lost.
- Migrations. A kill between any two statements. Correct means: the version tells what
  the schema has.
- App. Detached tasks and callbacks of processes that have been replaced. Correct
  means: one relay, truly shown.

`PROJECT.json` lists every hazard at its line with the properties that cover it.

## 2. Modules

| Module | Models | Checked by | Proved in |
|---|---|---|---|
| `NostrEvent` | event classes (`event.rs`), the relations replacement and deletion are defined by | all store runs | |
| `EventStore` | `persist_event`, `write_event`, expiry, visibility | `EventStore` | `EventStoreProofs` |
| `EventArchive` | abstract: what queries may see and writers are answered | refinement in run `EventStore` | `EventStoreProofs` |
| `QueryEngine` | client tasks, query threads, checkpoint task, commit and broadcast | `QueryEngine*` | `QueryEngineProofs` |
| `Admission` | pay to relay: gates of `db_writer`, payment task, `account` and `invoice`, processor | `Admission*` | `AdmissionProofs` |
| `Verifier` | NIP-05: the gate for profiles, metadata feed, verifier, `user_verification` | `Verifier` | `VerifierProofs` |
| `Matching` | filters: parser, memory matcher, SQL of both engines, LIMIT; delegations | `Matching` | `MatchingProofs` |
| `Session` | EVENT and AUTH of the client tasks, duplicate filter, notices, the writer's gates and ends | `Session` | `SessionProofs` |
| `SchemaUpgrade` | migration scripts of both engines, commit by commit | `RelayApp` | `RelayAppProofs` |
| `RelayApp` | the macOS app and its relay processes; composes `SchemaUpgrade` | `RelayApp` | `RelayAppProofs` |
| `PostgresStore` | `write_event` of `postgres.rs` in overlapping transactions | `PostgresStore*` | `PostgresStoreProofs` |
| `MC*` | values of the constants | | |

### EventStore

An event is a record of its id, author, kind, `created_at`, expiration, the
values of its `d` tags (with `NoValue` for a bare `["d"]`) and the ids of its
`e` tags. `stored` is the table, `hidden` the column; `offered` and `reply` are
what was asked of `write_event` and its answer. `persist_event` is one SQLite
transaction under `write_in_progress`, so it is one action: `IgnoreEvent` for
its early returns, `InsertEvent` for insert, replacement and deletion. The two
queries behind `Matching` include hidden rows, as the SQL does, and find a row
of a parameterised kind by any of its `d` values (`DTagRows`). `NewestOf` leaves
open which of several newest rows `ORDER BY created_at DESC LIMIT 1` keeps.
`WriteFails` is an error or ten busy attempts. Ids in `e` tags are lower-case
hex, as events are canonically written.

`EventArchive` is the promise without the table: a set of shown events. Every
step of the store is a step of the archive (`ImplementsArchive`).

### QueryEngine

A request is a sequence of filters, a filter is the set of events it matches. `Request`,
`CloseSub`, `Disconnect`, `Deliver` and `Hear` are branches of the client task's `select!`;
after `Disconnect` the task tells its queries, after `Panic` (a delegation with a malformed
signature) it does not, and only drops what it has (`TaskEnds`). `Request` ends where the
handler awaits a permit; until `Acquire` the task does nothing else (`waiting`), which is
why it can neither deliver results nor notice a closed socket. A query thread goes through
`gate` (blocking lock), `admit` (load shedding, cancel, connection: without one the thread
sends its EOSE and has read nothing), `open` (next filter, its own snapshot), `fetch` (next
row, with a look at lock and cancel every `CheckEvery` rows), `space` (capacity loop),
`send`, `eose`. `Holds` are the places at which it owns a permit. `LockBusy` models
`try_lock`: it fails if the checkpoint has the lock and may fail if another thread is where
it takes the lock for a moment. Time is not modelled: a two-second stall and a five-second
queue may have passed whenever the thread looks. The writer is `Commit`, then `Broadcast`; a
full receiver loses its oldest event and the client is marked in `lagged`.

Left out: LIMIT (a filter that cuts rows off makes no promise of completeness),
the NIP-42 check on direct messages, the rate limiter, ids that are too long,
and the scraper refusal, none of which touches the state modelled; deletion of
events while a query runs (that is `EventStore`).

### Admission

`accounts`, `admitted` and `balance` are the table `account`; `issued`, `owner`
and `status` the table `invoice`, whose rows are numbered in the order of
`created_at`. `messages` is the payment channel as far as `payment/mod.rs` has
not read it: a broadcast, so `Send` never waits and loses the oldest message of a
full channel. `payment` and `writer` say where the two tasks are. `db_writer`
reads the balance (`AdmitPaid`), then stores and broadcasts (`PublishEvent`), then
charges (`ChargeEvent`); the payment task may change the balance in between.
`settled` and `hooks` belong to the processor. `credits`, `published`, `waived`
and `failed` are histories that only properties read (and `failed` is set by
everything that goes wrong: a lost message or call, an error, a restart, a wrong
answer of the processor). An error of `get_unpaid_invoice` is taken for "none", and a new
invoice made (`Receive`).

Steps that are one action here and several statements there: `check_invoice` and
`update_invoice` (no other task writes invoices, and a failure between them is
`PaymentFails` with nothing done); the processor's new invoice and its row. The
second `update_invoice` of `InvoicePaid` finds the status it is to set and changes
nothing. An answer that does not parse counts as `Expired`, in the code as
here (`Answers`). `DropEvent` stands for the later gates, NIP-05 and gRPC, and for
an event that is a duplicate or cannot be stored.

Left out: the direct messages with the invoice, which the payment task writes past
the writer; the messages `Invoice` and `AccountAdmitted`, which the payment task
ignores, and the invoice page's wait for them; the time limit of an invoice, beyond
the answer `Expired`; a relay that is free.

### Verifier

A profile is a metadata event, reduced to author, `created_at` and the name in its `nip05`
field. `profiles` are the rows of kind 0 in `event`, `verified` those with a row in
`user_verification`, and `ok`, `bad`, `fails` that row's `verified_at`, `failed_at` and
`failure_count`. Instants are ages that `Tick` increases up to `AgeCap`, beyond which no
comparison with a setting changes; of the successes beyond it the order is kept, by
numbering them (`OlderSuccess`), because the record verified again is the one with the
oldest. `now_jitter` is a small negative age. A unit of time is long against a transaction
and the 250 ms the verifier sleeps, so `Tick` waits for a verifier that has a proof in its
hands; web checks (five seconds, `candidate` and `reverify`) take as long as they like, and
the writer works meanwhile.

`AdmitProfile` is the NIP-05 gate of `db_writer` and the send to the metadata
channel, `WriteProfile` the write and the broadcast. `StoreAndBroadcast` is
`write_event` as far as kind 0 is concerned, with the rows of
`user_verification` that the database deletes along with a replaced profile
(`ReplacesRows`). The verifier takes profiles (`TakeProfile`), asks the web
(`CheckCandidate`), stores the profile itself when the mode is enabled
(`StoreCandidate`), and makes the record, or fails because the profile is not
stored (`CreateRecord`). `Reverify` picks an overdue record, `UpdateRecord` acts
on the answer, on a row that may be gone. `Restart` may change mode and domain
lists; the tables start empty, so the runs with the mode enabled get their records
from a time when it was passive.

Left out: the mode disabled; deletion events, which only hide a profile's row and
have no influence on any statement here; metadata events that expire; other
gates, which only make a writer refuse more; the reset of the re-verification
interval, which only sets the pace of `Reverify`.

### Matching

A key's text in a filter is known by the keys it is a prefix of and by the key it
decodes to, which is all that `prefix_match` and the SQL look at; a tag value is a
string, of which `EvenHex` and `OddHex` tell those in lower-case hex. `Parse` is the
deserialiser, with its tolerance for elements of the wrong type, `ParseFails` its one
hard error. `InterestedIn` is the matcher of the broadcasts; `SqliteSelects` and
`PostgresSelects` are the WHERE clauses of the two `query_from_filter`, and `Rows`
the rows of their joins, of which `Answers` takes what ORDER BY and LIMIT leave.
`DelegatedBy` is `delegated_author` with the parser and the evaluation of the
conditions: of a part between two `&` only the first match of the expression counts
(`parts[i][1]`). Around these operators is one client: `Register`, `Query`, and a relay
that publishes, hides and lets events expire at any time.

Left out: how results are interleaved with broadcasts (`QueryEngine`), the duplicate
removal of SQLite's UNION of filters, which never cuts a row, and what the store
replaces (`EventStore`).

### Session

A connection is its task (`open`), its authenticated key, the event for which the task
awaits a place in the writer's queue (`held`) and its notice channel. While it waits the
task does nothing else (`Idle`). The duplicate filter is one map for all tasks,
looked up and extended under its mutex, hence in one step (`CheckAndAdd`). `RefuseInvalid`,
`RefuseSpam`, `RefuseTime` and `Submit` are the branches of EVENT in their order:
the filter has recorded the event before `RefuseTime` looks at the clock. `PanicOn` is the
`unwrap` of a delegation's signature, which ends the task. `Authenticate` is AUTH as
`conn.rs` checks it; after it has succeeded further AUTH messages change nothing.

The writer takes (`Take`), and ends each event in one of `RefuseEvent`, `DropSilently`,
`Publish`, `NotWritten` and `ChargeFails`; `Notify` is `try_send`. With `PayToRelay` the
charge can fail: `db_writer` returns by `?` (`db.rs:446`), what was in its queue is lost,
and from then on `Submit` and `Enqueue` find a closed channel and the client hears
nothing. `Shutdown` is SIGTERM: client tasks are not told, the runtime drops them all
where they wait. (SIGINT also tells the writer and the tasks, which then return one by
one; nothing is accepted that is not lost here as well.)

`asked`, `answered`, `lost`, `spam`, `passes`, `refused` and `sent` are histories. Left out: the
rate limit of the writer, which delays; messages that do not parse or are too large
(`convert_to_msg`), which are answered by a NOTICE without an event id.
An event refused as spam has two OKs, one made of a notice and one made by hand
(`server.rs:1418`, `1421`): `RefuseSpam` counts both, and `spam` how often that was.

### SchemaUpgrade and RelayApp

A script is the sequence of its commits. `execute_batch` outside a transaction commits
statement by statement, and `PRAGMA user_version` is such a statement; a script with a
transaction is one commit (`Transaction`). `Since` says from which version a thing
belongs to the schema. `Execute` fails where a column is to be added that is there.
PostgreSQL's `run_migration` commits a change with its serial number, and `rebuild_tags`
of the second migration afterwards, in the run that upgraded only.

`RelayApp` has the processes that run these scripts and the app that starts and stops
them. `start()` is `Start`, `KillStaleProcesses` and `LaunchProcess`, because a detached
task stands between them; `stop()`, the termination handler, the readiness probe, the
log line and the end of the app are one action each, on the main actor. Callbacks that
hop to the main actor are `messages`, handled in any order and as late as you like; they
die with the app. `Terminate` kills a relay that has no handler yet (it is installed by
`start_server` after `build_repo`) and only tells a serving one. A relay on PostgreSQL
is started by hand, one at a time: the app always writes `engine = "sqlite"`
(`ConfigurationService.swift:342`).

Left out: indexes, VACUUM, the log buffer, statistics, the port itself (`waitForPortFree`
is the wait between kill and launch).

### PostgresStore

A transaction is the place of its next statement and what it has deleted and hidden.
Each statement sees the committed rows and its own (READ COMMITTED). DELETE and
UPDATE are two actions: the statement fixes its rows (`Replace`, `Delete`), then waits
until no other transaction holds one of them and changes those that are still there
(`FinishReplace`, `FinishDelete`). INSERT waits for a transaction that has the same id.
`Fail` is any error, a deadlock that the database resolves, a crash, and a deletion
without a valid `e` tag, whose empty `IN ()` is an SQL error. `Calls` gives each writer
what it may write: the verifier only profiles. `DTagRows` and `TagRow` keep the two
columns `value` and `value_hex` apart where a query confuses them.

Left out: the rows of `tag`, which follow from their event; accounts, invoices and
verifications on this engine, where `create_verification_record` (453) and
`update_invoice` (651) are several statements without a transaction and
`get_account_balance` casts a negative balance to `u64` (597).

## 3. Runs

| Run | Question | Result |
|---|---|---|
| `EventStore` | ten events in every order, repeated, failing, expiring | passes |
| `QueryEngine` | permits, orphans, stored-to-live gap | passes |
| `QueryEngine_live` | is the send race the only way to lose a permit? | yes |
| `QueryEngine_permit` | does every permit come back? | no |
| `Admission` | nobody served on credit, nothing credited twice, one open invoice, who pays is admitted | passes |
| `Admission_locked` | can an admitted author write? | no, if the payment was noticed twice |
| `Verifier` | gate, records, double broadcast, overdue records | passes |
| `Matching` | do memory and SQL agree, do delegations hold, what does LIMIT keep? | passes |
| `Session` | is every event accounted for, the filter exact, every message private, all work ended? | passes |
| `RelayApp` | one relay, truly shown; does the version tell what the schema has? | passes |
| `PostgresStore` | do overlapping transactions lose events? | passes: no |
| `PostgresStore_deletion` | does a deletion that came first hide its event? | no |

Bounds. The ten events of `EventStore` have every pair the rules distinguish:
two versions with one `created_at`, expiring and not, two parameterised
addresses, deletions in both directions, of foreign events and of deletions, an
expiring deletion; one clock tick makes every expiry happen between any two
writes. Events are few because each rule relates at most three rows. In
`QueryEngine` one permit, a channel of one and a broadcast buffer of one make
every queue full; `CheckEvery = 2` gives rows with and without a look at cancel;
two queries suffice for replacement and interference, and three (in the liveness
runs) for the cycle: one holds the permit, one takes the last place of the
channel, one is awaited. `MaxQueries` bounds the queries ever started; when it is
used up the system may stop, hence `CHECK_DEADLOCK FALSE` there. The two
subscriptions of `QueryEngine` are interchangeable (symmetry). The event store never stops.

`Admission` has one author who must pay and one on the whitelist. Two invoices
give an author a balance beyond the admission cost, and a second invoice after an
error; one call of the webhook per invoice, with the pages and refused events,
already gives two finders of one payment; a channel of two loses messages. An
admission cost of 2 and 1 per event let one payment beyond the admission serve two
events. The safety properties are proved for all bounds. `MaxInvoices`, `MaxHooks`
and `MaxEvents` stop the system in the end (`CHECK_DEADLOCK FALSE`).

`Verifier` has an author who changes from one name to another and a second author who
claims the first, so that replacement, exclusion by name and by author, and re-verification
of two records meet. A feed of one loses profiles. An expiration of 2 and a frequency of 0
give records that are fresh, overdue and yet valid, and expired; one allowed failure
separates counting from giving up. `MaxFaults` is 2: one restart from passive to enabled
and one error more. The jitter is 0 in the run, and every value of it in the proofs; with
`Jitter = 1` and without the liveness property, which then takes too long, the run passes
as well. The system never stops.

`Matching` has one client, whose request is one of twenty; its seventeen filters each touch
another rule of the parser, the matchers or the SQL: whole keys, prefixes, upper case, empty
lists, `or` and `and` of even, odd and no hex, times and limits in and out of range, ids
with a tag letter, a wrong type, a scraper's. Of five events one is plain, two are
delegated, one expires and has odd, even, bare and long-named tags, one has a malformed
delegation and is never published. `MaxRows` is 2 instead of 1000 and a limit is 2, so that
both cut something off. It stops when all is published and answered (`CHECK_DEADLOCK
FALSE`). The agreement of the matchers is proved for all events and filters.

`Session` has a client that sends two EVENTs and one that sends one, of seven events,
over a queue and notice channels of one: a full queue, a full channel and a client that
leaves while it is answered all occur. Three events of one author have one key of the
duplicate filter, of which one is refused as too new first and as expired later. A window
of two ticks in a clock of two gives duplicates inside the window and one at its
end. `MaxAsks` and `MaxTime` stop the system (`CHECK_DEADLOCK FALSE`).

`RelayApp` has three processes, interchangeable (symmetry): a stale one, the present one
and one that a race might add. `Init` is a database of any version of either engine, up
to one that is newer than the code; each relay may die before any commit, so a
script is cut short and rerun up to twice. Launches are bounded by the
processes (`CHECK_DEADLOCK FALSE`).

`PostgresStore` has the two writers there are. Of a profile there are four versions, two
with one `created_at`, one of them expiring; the event writer also has two versions at a
parameterised address, a deletion of one of each and a deletion that names nothing. With
four or more writers and equal `created_at` two newest rows could delete each
other; there are two. This system never stops.

Fairness (`FairSpec`): weak for the threads, which the operating system
schedules, for the client task's results and broadcasts (`select!` polls its
branches in random order), for the end of a checkpoint (SQLite's busy timeout)
and for the broadcast; strong for the permit and for the gate, because tokio's
semaphore and mutex queue their waiters. Nothing obliges a client to send
anything, or a checkpoint to start. That the client reads is an assumption; the
permit is lost even so. In `Admission` the payment task is fair because it is a
loop of the runtime, and each webhook because LNBits makes the call when
the invoice is paid (`WebhookLost` is the call that fails; `cln_rest.rs` has no webhook, and
`PaidIsAdmitted` is not claimed of it: there the payment is found when the author comes
back); nobody is obliged to
post, to visit a page or to pay. In `Verifier` what the verifier has begun ends
(the web check has a timeout), time passes, and re-verification gets its turn
because `select!` polls its branches in random order (strong fairness: candidates
keep making the verifier busy). In `Session` the writer takes and ends events (weak;
database and gRPC service are assumed to answer, and the call of the latter has no
timeout), and a task that awaits the queue gets its turn (strong: tokio's channel
serves its senders in order). No client is obliged to read: `PassNotice` is not fair,
and `WorkEnds` holds all the same.

## 4. What the runs found

Three runs show a disagreement between the code and what is said of it.

1. `sqlite.rs:455` (`QueryEngine_permit`). Capacity check, then `blocking_send`.
   Another query of the client fills the channel in between, the client's task
   is awaiting a permit, and the permit stays where it is for good; with as many
   such clients as permits no query of any client runs again.
2. `payment/mod.rs:182` (`Admission_locked`). Every finder of a payment calls
   `admit_account`, which deducts the cost again; the balance turns negative, cannot
   be read as `u64`, and `db_writer` refuses the author. `docs/pay-to-relay.md`
   promises that a paid invoice lets the author write. With `cost_per_event`
   above 0 no race is needed: every payment is an admission and is deducted in
   full, so an author has a balance to spend only between `update_invoice` and
   `admit_account` of a later payment, or after an error between the two.
3. `postgres.rs:278` (`PostgresStore_deletion`). Whether "a deletion has already been
   recorded" is asked of the column `value`; ids are in `value_hex`. On PostgreSQL a
   deletion that comes first never hides its event. SQLite has one column and
   hides it (`DeletionIsPermanent`).

Eight more properties are stated in the modules, are violated in the same way, and
can be looked at by naming them in a configuration:

- `NewMeansStored` (`EventStore`, with `Events <- RepeatedDEvents`), `sqlite.rs:190`:
  the replacement DELETE skips one row of a join, so an event with two equal `d` tags
  deletes itself and is still acknowledged and broadcast.
- `OnePerAddress` (`EventStore`, with `Events <- ImplicitEvents`), `sqlite.rs:155`:
  events without a `d` value have the address `""` but no tag row; no version ever
  replaces another.
- `AbandonedIsSilent` (`QueryEngine`), `sqlite.rs:445`: up to a hundred rows are sent
  after the cancel that is to stop the query "immediately".
- `AbortedForCheckpoint` (`QueryEngine`, with `Permits = 2`, `CheckEvery = 1`),
  `sqlite.rs:429`: queries abort one another, without an EOSE, by holding the lock they
  probe.
- `CleanupReachesAll` (`QueryEngine`), `delegation.rs:116`: the `unwrap` of a delegation's
  signature ends the client's task by a panic, and unwinding skips the "connection cleanup -
  ensure any still running queries are terminated" (`server.rs:1617`). A sender that is
  dropped is an error to `try_recv().is_ok()` (`sqlite.rs:366`, `445`), not a cancel: the
  queries run to the end of their rows with their permits. `OrphansCancelled` excepts the
  clients that panicked by name.
- `OnlyRecipients` (`Session`, with `AuthEvents <- AuthorSignsIn`), `server.rs:1097`:
  `config.toml:189` says direct messages go "only to their authenticated recipients". They
  also go to their authenticated author, and of several recipients to the first only, which
  is what `PrivateMessages` says.
- `OldVerificationStands` (`Verifier`), `sqlite_migration.rs:95`: a verified author who
  sends a new profile loses the verification as soon as it is stored, by ON DELETE CASCADE;
  `docs/user-verification-nip05.md:43` says the old one stays until it expires. With the
  mode enabled the gate (`AdmitProfile`) then refuses the profile that could make one.
- `NewerAborts` (`RelayApp`), `db.rs:57`: the panic of `upgrade_db` on a database that
  is newer than the code ends a thread whose result is dropped; the relay serves it.

That gate deserves a word. The same document (line 182) has all metadata events
forwarded to the verifier, whatever their author's status. `db.rs:385` comes after
the gate, so with the mode enabled and an empty table nobody ever gets a record.
The model has the gate as the code has it; no run is spent on a property that would
repeat its guard. Three smaller differences: the jitter lets a verification live up
to ten minutes beyond `verify_expiration` (hence `Jitter` in `VouchedFor`);
`max_consecutive_failures` failures are survived, the next one is not; and
`docs/user-verification-nip05.md:148` expects "multiple valid rows in the verification
table for a given author", of which there is never more than one (`RecordsExclusive`):
a record belongs to a stored profile, and the new profile deletes the old one's record.

What else reading for the models brought up, and where a model has it:

- Memory and SQL differ where `Clear` says (`Matching`): prefixes match live only; SQLite
  ignores the delegator and skips a letter without values; PostgreSQL drops values of odd
  hex, fails on a letter without values and on ids together with a tag letter
  (`postgres.rs:852`: the `id` of `id in (...)` is also a column of each joined `tag`), and
  panics on a time it cannot represent. PostgreSQL's joins repeat an event per matching tag,
  and repeated rows count towards its LIMIT.
- A condition of a delegation that follows another without `&` is not enforced
  (`Parses`, `AllowsEvent`), and a malformed signature ends the client's task (`PanicOn`).
- A query that gets no connection from the pool sends an EOSE although nothing was read
  (`sqlite.rs:518`, `Admit`): the client takes the gap for an empty answer. `NoGap` excepts
  this EOSE by name (`Unread`).
- Whoever sends spam is answered twice (`server.rs:1418` and `1421`, `RefuseSpam`).
- An event that was refused as expired or lost in the writer stays in the duplicate
  filter and cannot be retried within the window (`RefuseTime`, `lost`); `purge` of the
  filter is never called.
- The scripts 1→2, 6→7 and 16→17 add a column before they stamp the version: killed in
  between they fail at every later start, and the relay serves the database as it is
  (`ServeUnmigrated`). The initial script and 2→3 and 14→15 stamp first, and what comes
  after the stamp is never done (`DoneLate`).
- `parseOutput` sets `isServerReady` without a look at `isRunning`: a late line shows a
  stopped relay as ready. `ShownIsTrue` is about `isRunning`.

## 5. Proofs

For every set of events and every clock bound (`EventsAssumption`,
`ClockAssumption`: kinds and times are naturals, ids are unique), module
`EventStoreProofs` proves `TypeOK`, `OneReplaceable`, `OneExplicitParam` and
`DeletionIsPermanent` invariant, and, for events whose parameterised kinds carry
one `d` tag with a value (`AllPlain`), `NothingLost` and `Converges`. Each rests
on `TypeOK`. Uniqueness needs the pre-check and the DELETE together: the new row
is strictly newer than every match, so `NewestOf` of the matches is the new row
alone. `DeletionIsPermanent` is inductive with the fact that a deletion that does
not expire is never removed. Without `AllPlain` the last two are false (section 4).

Under the same `AllPlain` the store implements the archive (`ImplementsArchive`) and no step
takes an event out of sight without a reason (`LeavesVisibleOnlyFor`). Both are about steps,
and both come down to what an insertion does to the visible rows: it adds the new one unless
a recorded deletion names it, and takes away what it replaces or deletes. An ignored event,
a failed write and a purge of expired rows are steps of the archive that change nothing
shown, or stutter. `QueriesAreConsistent` brings the archive's promise back to the store
through the mapping.

For all clients, subscriptions, requests and capacities (`QueryAssumption`),
module `QueryEngineProofs` proves `TypeOK`, `PermitsConserved` and
`OrphansCancelled`. The inductive invariant `IInv` adds to the shape of the state
that the channels are within their capacities, that a task awaits a permit only
for a queued query of its own (`WaitingInv`), that a started query has a client
(`JobInv`), and that the free permits and their holders add up to the semaphore's
(`PermitInv`). That free permits never exceed the semaphore's is not inductive by
itself: the bound follows from the count of the holders, which is why each step
of a thread is shown to be one holder more, one less or none (`HolderEnters`,
`HolderLeaves`, `HolderStays`). `OrphansCancelled` then holds because every
handler that ends or replaces a subscription tells its query in the same step; the one
end that does not, the panic of the client's task, is recorded in `panicked`.

`NoGap` speaks of the moment after EOSE; what makes it true happens before. `StreamInv`
follows every stored event that a subscription asks for: while the query of the id runs,
the event has been sent, is about to be broadcast or waits in the client's feed
(`Sent`), or the query will still come to it, holds it as a row, or has put it into the
channel (`Underway`). Two facts make this carry over to the EOSE: a query that is
through holds no rows (`LocalsInv`), and in a channel nothing of a query follows its
EOSE (`EoseIsLast`), so whoever reads the EOSE has read the rows. A commit is covered by
its broadcast, which is still to come when any filter opens its snapshot; a query that
is cancelled, aborted or shed sends no EOSE that counts, and one that got no connection
sends an EOSE which `NoGap` does not count (`Unread`). The proof goes action by action,
and for the actions of the client tasks id by id (`Served`).

For all authors, costs, capacities and bounds (`AdmissionAssumption`), module
`AdmissionProofs` proves `TypeOK`, `PaidFor`, `CreditedOnce` and `OneOpenInvoice`.
`IInv` adds to the types that messages and the payment task name invoices and
accounts that exist (`LinkInv`), that an invoice was credited only if it is paid
and settled (`CreditInv`), and the balance sheet of every paying author
(`MoneyInv`): the balance is at most the credits less the admission and the events
charged, and an event the writer has accepted and not yet charged is still covered
(`TakenInv`), which is what makes deciding first and charging later harmless.
`OneOpenInvoice` has an invariant of its own: while nothing has failed, an invoice
is about to be issued only to an author without an open one.

For all profiles, settings, durations and bounds (`VerifierAssumption`), module
`VerifierProofs` proves `TypeOK`, `VouchedFor`, `RecordsExclusive` and `BroadcastOnce`.
`IInv` says that the verifier's profile has a name (`TaskInv`), that the table has one
profile per author and records only of stored, named profiles with different names
(`TableInv`), that whatever was broadcast is stored or superseded (`SentInv`), and that a
record is no younger than its proof, up to the jitter (`ProofInv`). That a success beyond
`AgeCap` stays there although it is renumbered is a lemma of its own (`OlderSuccessIsAge`).
The last conjunct of `ProofInv` is the one a first attempt lacks: when a name is taken back
while its record is gone already, no other record of the same author and name may be left,
which holds because only the verifier makes records and it is busy.

For all events, filters, keys and both engines (`MatchingAssumption`), module
`MatchingProofs` proves first, without any state, that for a clear filter the SQL of
either engine selects what the matcher is interested in (`SameSelection`), and that
outside two named exceptions it selects nothing else (`SelectionIsInterest`). The
lemmas go clause by clause: authors, tags of SQLite, joins of PostgreSQL, for which a
join is built by choosing a tag per clause. `SameAnswer` and `FoundIsHeard` follow with
the invariant that `heard` is what matched among the events since the registration.
`DelegationStands` follows from `DelegatedBy`, operator by operator. `LimitKeepsNewest`
is a matter of counting: an answer that lacks an event holds rows of other events only,
all of them as new, and as many as the limit, so that with it they are more. Counting
needs finite sets, hence the lemmas that what is stored is finite (`StoreIsFinite`) and
that a filter makes finitely many clauses and joins; for PostgreSQL the hypothesis that
every event makes one row is what makes rows of different events.

For all settings, users, events and capacities (`SessionAssumption`), module `SessionProofs`
proves `TypeOK`, `EveryAskAccounted`, `DedupWindow` and `PrivateMessages`. The count of an
open connection's events is kept by moving one from place to place: held, queue, in work,
notices, answered or lost, and one answer more for each event refused as spam; the lemmas
count the submissions of one connection in a queue that grows at its end and shrinks at its
head. `DedupWindow` is inductive with the fact that the filter holds the time of the last
pass (`FilterInv`), `PrivateMessages` with the fact that whoever was sent a direct message
has authenticated (`MessageInv`): the key then stays.

For any number of processes, module `RelayAppProofs` proves `TypeOK`, `OneRelay`,
`ShownIsTrue` and `VersionTellsTruth`. `AppInvariant` has the app: start() has at most
one task, none while the app is closed; while that task waits for the port no relay
lives; and a child that lives is the present process or has been told to end. It needs
nothing of the database but that a step of a script changes no process.

The database needs the reverse: that one relay alone works on it (`OneRelay`), and where in
its script that relay stands. `InPlace` says that what the commits before the present one
make is there and what they drop is gone, and that the version is the new one exactly if one
of them has stamped it, the script then being among the `unfinished`; `UnfinishedIsPast`
that a stamped script has been left behind. Of the scripts themselves two facts are used,
and proved of each of them: a script makes only what the schema knows, stamps only the
version it leads to, drops only the old references, and makes what `DoneLate` names
(`WellMade`); and one place stamps, by which everything the new version has is made or is to
be done late (`StampedAt`). A commit, the stamp and the next script then keep `SystemInv`; a
kill leaves a database of which nothing more is said than `DatabaseInv`, and a rerun begins
from that.

For any finite number of writers and all events (`PostgresAssumption`), module
`PostgresStoreProofs` proves `TypeOK`; if parameterised events carry one `d` tag with a
value (`AllPlain`), `VersionsBounded`; and if, besides, no two versions of an address
have one `created_at` (`NoTies`), `NothingLost`.

- `NothingLost`: what is missing is what transactions are going to do. Each of them
  keeps, for all rows it removes, one newer row at their address (`Keepers`), its own or
  an accepted one. When it commits, what covered a row it removes is covered by that
  newer one. With ties the newer row may be removed in turn, and TLC checks the two
  writers there are.
- `VersionsBounded`: the bound says nothing of why it holds. `EachOwns` says that the
  rows can be given owners among the writers such that no writer owns two of one
  address: a transaction finds the row its writer owned before, and either removes it or
  removes the event it brings. The rows of an address then map one to one to writers.

With that every invariant and every action property of the passing runs is a theorem.
Model-checked only are the four liveness properties, `OnlyTheSendRace`, `PaidIsAdmitted`,
`RefreshedOrForgotten` and `WorkEnds`: liveness under fairness is out of the prover's
reach. The hypotheses `AllPlain` and `NoTies` are about what clients send, not about the
relay; section 4 says what happens without the first, and the run of `PostgresStore`
has ties.

## 6. Not modelled

- Accounts, invoices and verifications on PostgreSQL: the SQL differs little from
  SQLite's; the differences are named under `PostgresStore`.
- The invoice page's wait for an answer of the payment task, and the age of invoices;
  the direct messages with an invoice, which are events written past the writer.
- The rate limits, which only delay; limits on sizes, which are answered by a notice.
- Wiring of channels, thread counts, TLS and HTTP of the start-up.
- Configuration, relay information, errors, the command line, the bulk loader and the
  app's views, statistics and event viewer: data, display or offline, without protocol.

Worth proving next: `NothingLost` of `PostgresStore` with ties, for the two writers there
are; and the safety half of `OnlyTheSendRace` (who can wait for whom), as an invariant.
