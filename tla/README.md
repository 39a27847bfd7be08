# Verification of frappe-framework (Rust) in TLA+

This directory holds TLA+ modules translated from the repository's Rust code,
TLC configurations that check them on small instances, and proofs that TLAPS
checks for every value of the constants. Paths below are relative to the
repository; `PROJECT.json` gives for every definition the lines it models.

Contents: [the system](#the-system) ·
[modules](#the-modules-and-the-code) · [runs](#what-the-runs-check) ·
[bounds](#bounds) · [fairness](#fairness) · [proofs](#what-is-proved) ·
[model-checked only](#what-is-only-model-checked) ·
[known divergences](#known-divergences-between-code-and-documents) ·
[not modelled](#what-is-not-modelled-and-why) · [plan](#plan)

## The system

The server is an actix-web program over SurrealDB (`src/main.rs`), with a
second, QUIC entrance and several services around it.

| Component | State it keeps | Operations | Hard behaviour | What makes it correct |
|---|---|---|---|---|
| Lifecycle rules `src/document/lifecycle.rs` | none | `validate_transition` on a stored and a new document | docstatus read from any JSON value and truncated to i32; long sequences of saves | what was submitted keeps its protected fields, what was cancelled keeps everything |
| Document endpoints `crates/frappe-net/src/routes.rs` | one `Surreal<Client>` in `web::Data`: its session has a current namespace | POST, GET, PUT, DELETE, submit, cancel | every request runs `use_ns` and its calls at separate awaits of the *same* session; submit and cancel read, validate, and write later; calls that fail in flight | a document stays in its tenant's namespace, follows Draft → Submitted → Cancelled, and does not reappear after a DELETE |
| Tenant provisioning `routes.rs` `provision_tenant` | the same session; a registry of its own | define namespace and database, select it, load the schemas from disk, sync each | DDL interleaved with document calls; a step that fails after another took effect; a retry, which fails for ever once the namespace is defined; failed syncs logged and reported as success | success at most once per tenant, no retry gets to a tenant's tables, and a success has synced every loaded schema or logged its error |
| Server-sent events `crates/frappe-net/src/sse.rs` | broadcast channel (1024), per connection a task and a queue (100) | publish, connect, forward, drain, disconnect | slow clients, lag, disconnection while the task waits for room | a stream has its tenant's and topic's events, in order, without gaps; tasks end |
| Webhook worker `crates/frappe-net/src/webhook_worker.rs` | job with u8 `attempt` in a spawned task | post, back off, retry, abort | u8 limits, delay table index, timeouts of served requests | no more requests than allowed and the documented delays (not of a job handed over at 255), the job ends |
| HTTP/3 gateway `crates/frappe-net/src/h3_server.rs` | `conns` and `tenant_map` by connection id, two channels to a second task | datagram, idle sweep, poll, answer | two tasks, `select!`, polling that stops half way, errors of `recv` | tenants do not outlive connections, no request is lost, the loop returns |
| Schema migration `crates/frappe-meta/src/migration.rs`, `schema_compiler.rs` | the table's definition in SurrealDB | `sync_schema` (one transaction after INFO), `synchronize_schema` (statement by statement) | the table changes between INFO and transaction; statements fail half way | a sync leaves the fields of its schema and never strips system fields |
| File storage `crates/frappe-storage/src/local_fs.rs` | temporary files, `<tenant>/public/files/<sha256>` | `store_file_stream` | background writes of tokio's `File`, failures at every call, dropped futures, equal contents | a stored file is what its name says; an acknowledged one stays |
| Script sandbox `src/document/scripting.rs` | shared start time, AST cache, engine limits | compile, execute, `frappe.db` calls; values converted to Rhai and back | every execution resets the start time of all; look-up, compilation and insertion are separate; `db_get_value` waits in `block_in_place` | no script is stopped early, every script ends, a newer AST is not lost but in a race, values come back as they were |
| Permission evaluator `src/document/permissions.rs` | none | check of an action, of a row, removal of fields | several DocPerms of several roles | what roles open adds up: no role and no order takes anything away |
| Schema registry `crates/frappe-meta/src/registry.rs` | concurrent map of DocTypes | crawl and load, get | files are read concurrently, unreadable ones skipped, two may name one doctype | one schema per doctype |
| Database client `crates/frappe-meta/src/db.rs` | one client | get_list, insert, update | paging; filters bound next to the paging parameters | the pages are the list |
| Tenant resolver `crates/frappe-net/src/middleware/tenant.rs`, `h3_server.rs` | none | map a Host header or a TLS server name to a tenant | the rule is written twice | a site has one tenant, different sites of a domain different ones |
| PASETO authentication `crates/frappe-net/src/middleware/auth.rs` | none: the key is read or made at each call | check a token | the key made when the environment has none differs at each call | a token is accepted exactly when both sides have the same secret |
| Kubernetes orchestrator `crates/frappe-drive/src/press_orchestrator.rs` | cluster objects | create namespace, service, deployment; delete; read the status | several callers, failed steps and retries, a deletion in the middle | one caller succeeds, and its site is complete |
| Page builder `crates/frappe-builder/src/compiler.rs` | none | compile a layout tree to HTML | recursion, errors deep in the tree, unordered attributes | the page reads back as the tree, or the error is that of its first unsafe node |
| Collaboration `crates/frappe-drive/src/sync.rs`, OLAP `crates/frappe-insights` | a yrs document; none | library calls; queries | — | — |

How they interact:

- The document endpoints read the schema registry and call
  `validate_transition` in submit and cancel only. PUT calls no rule.
- All endpoints, provisioning included, share one SurrealDB session; the
  namespace that `use_ns` selects is a shared variable of all requests in
  flight.
- Provisioning calls `SchemaManager::sync_schema`, which uses the compiler to
  create a table and its own `alter_table` for a table that exists.
- Provisioning selects the new tenant's namespace on that same session, loads
  the schemas into a registry of its own, and leaves the one that the document
  endpoints read alone.
- The sandbox's `db_get_value` calls `get_list` on a client that shares the
  session too.
- The broadcaster's `publish`, the webhook worker, the storage backend, the
  sandbox, the permission checks, the page builder and the orchestrator have no
  caller in the repository; they are modelled as components with arbitrary
  callers.
- The HTTP/3 loop hands every request to a second task over one channel and
  waits for the answer on another.

## The modules and the code

| Module | Models | Correspondence |
|---|---|---|
| `DocLifecycle` | `lifecycle.rs` | `ValidateTransition` has the three checks in the order of the code; `AsI64`, `AsI32`, `FromI32` are the conversions of docstatus. A document is a function on `Keys`; `Absent` and `Null` differ in the comparison of whole documents and are equal in that of fields, as in the code. `WithStatus` is what submit and cancel build |
| `DocHistory` | sequences of accepted saves | one action `Save` on the document `saved`; history variables `filed`, `cancelled` remember the document at its transitions |
| `DocumentRoutes` | the six document handlers | a slot of `Slots` is a request in flight. `ns` is the session's namespace, `db` the records, `pc` the await at which a handler is, `job` its locals. `UseNs`, `CreateDocument`, `GetDocument`, `UpdateDocument`, `DeleteDocument`, `SelectDocument`, `WriteStatus` are the stretches between awaits; every database call may fail before or after it took effect. `Target` is the namespace selected, `Lawful` the look-up in the registry with `validate_transition` |
| `Server` | `DocumentRoutes` with `provision_tenant` and the registry | adds `defined` (namespaces), `tables` (versions that a table's fields come from) and `prov`, the handlers. `Define`, `SwitchNs`, `Sync`, `Succeed` are their stretches between awaits, on the `ns` of the document requests. `Crawled` is what concurrent reading of the files can leave in the registry. A sync succeeds or fails, and one that fails may have had its effect (`Altered`). It is one step here; its two awaits, INFO and the transaction, and what it does to one table are in `SchemaSync` |
| `RecordStore` | abstract | what holds of records under any interleaving; `DocumentRoutes` implements it |
| `DocumentStore` | abstract | what a lone client sees: one atomic step per request with a truthful answer; `Server` with one request in flight implements it |
| `SseEvents` | `sse.rs` | an event is its position in `log`; `next[c]` is the broadcast receiver, `queued[c]` and `read[c]` the mpsc queue and what was drained. `Recv` ends the task on `Lagged`, `Send` waits for room and ends it when the body is dropped |
| `WebhookWorker` | `webhook_worker.rs` | `Post`, `Failed`, `Succeeded`, `Wake`; the job may be handed over with any u8 `attempt`. `Bump` is the addition where it wraps, `Panic` where the build checks it; `Delay` the index into the table, which underflows at 0 |
| `LocalFs` | `local_fs.rs` | one action per await of `store_file_stream`. `broken` is a background write that failed and is reported by the next call on the file. `Dropped` ends an upload at any await, with a rename or removal in the blocking pool still happening or not |
| `H3Server` | `h3_server.rs` | `Receive` is a datagram up to its processing by `recv`; `StartH3`, `PollHeaders`, `PollData`, `PollFinished`, `PollDone`, `PollError` are the arms of the poll loop, a reset stream among the events of the last one; `Serve` is the second task; `Sweep` the interval branch. quiche is external: what it may do with a datagram is a choice |
| `SchemaSync` | `migration.rs`, `schema_compiler.rs` | a schema is a sequence of `DocFields`, which may name a field twice or like a system field; a table (`Tables`) gives every name its definition or `None`. A statement is a record, `Execute` its effect on the table, `Run` that of a whole transaction. `ReadInfo` and `Transaction` are the two awaits of `sync_schema`, `Statement` one await of `synchronize_schema`. DEFINE updates what exists, as `migration.rs:105` says, or fails on it, as SurrealDB does since version 2: any of them may fail, and an error may come back for what was executed (`Perhaps`). `fresh` is a history variable: nobody has changed the table for another schema since it was read |
| `ScriptSandbox` | `scripting.rs`: `compile_and_cache`, `execute_script`, the engine's limits | `run[p]` is an execution on thread p. `Lookup`, `CompileScript` are the look-up and the fill of the cache; `Operation` and `Progress` the two halves of `on_progress`, which copies `start_time` under its lock and reads the clock after it; `DbGetValue` the call into the database |
| `ScriptValues` | `json_to_dynamic`, `dynamic_to_json` | recursive functions on tagged values, `Jsons` with the values inside each; integers of i64 and u64. `AsF64` is the rounding of `as_f64`, any function |
| `PressOrchestrator` | `press_orchestrator.rs` | `CreateNamespace` and `Create` are the three calls of `provision_tenant_site`, each ended by `?`, `DeleteNamespace` that of `deprovision_tenant_site`, `Ready` what `check_tenant_site_status` reports. The cluster (termination, pods) is external |
| `PageBuilder` | `compiler.rs` | `compile_ast` on `Layouts`, a recursive function; `Children` is the loop with its `?`. A page is a sequence of tokens, an opening tag with the set of names a reader finds in it: `Parts` of each attribute's name, because `escape_html` leaves blanks and "=" there (`Written`). `Parse` is an independent reader of pages, with a stack of unfinished nodes |
| `PermissionEvaluator` | `permissions.rs` | the three checks, one operator each |
| `PasetoAuth` | `middleware/auth.rs` | `get_paseto_key` and the middleware's `call`; a token is what it was made with |
| `DatabaseClient` | `get_list` of `db.rs` | the query and its bindings on a table that is a sequence; names that are no identifiers are refused |
| `TenantResolver` | `middleware/tenant.rs`, and the same rule in `h3_server.rs` | a host name is a sequence of labels, a label one of characters |

`PureFunctions` puts `ScriptValues`, `PageBuilder`, `PermissionEvaluator`,
`PasetoAuth`, `DatabaseClient` and `TenantResolver` together: a behaviour picks
a function and an argument, and the invariants compare the answer with its
definition. The sets of arguments are constants. The `MC*` modules give the
constants that a `.cfg` cannot write; `MCServices` puts `WebhookWorker` and
`PressOrchestrator` side by side. `*_proofs` hold the proofs, those about
`PureFunctions` in one module, those about `SseEvents`, `WebhookWorker` and
`PressOrchestrator` in `Services_proofs`; `ListLemmas` has the facts about
sequences that several of them cite. Definitions commented "Mutant of" are faulty
variants of the definition that follows them; the specifications do not use
them, they document a bug each property detects.

## What the runs check

| Run | Shows |
|---|---|
| `history` (`MCDocHistory`, `History.cfg`) | whatever saves are accepted, through absent, null and 32-bit-truncated values, `FiledFieldsKept`: a submitted document has the protected fields it was submitted with; `CancelledFrozen`: a cancelled one never changes |
| `server` (`MCServer`) | document requests and provisioning, one at a time, two tenants, two ids, one of them without a schema, two files for one doctype, any call failing: `ServedInOneStep`, i.e. the handlers with their awaits and failures implement `DocumentStore`, each on its own tenant; `SuccessIsComplete`: a provision that reports success has synced what it loaded, or logged the error; `OneVersion`: no table mixes two versions of a doctype |
| `provisions` (`MCServer`) | three provisions of two tenants overlapping as they like, next to a document request, any call failing before or after its effect: `OneSuccess`: a tenant is provisioned with success only once; `RetriesFail`: a provision that arrives when the namespace is defined, by one that succeeded, failed half way or still runs, never gets to the tenant's tables and never reports success |
| `routes_races` (`MCDocumentRoutes`) | all six requests racing, two in flight, on two records of which clients PUT one: `RecordsKept`, i.e. `DocumentRoutes` implements `RecordStore`: no late PUT, submit or cancel brings back a deleted record, although the session may redirect calls to another namespace; `NoSkippedSubmit` and `ContentKept` of the record that nobody PUTs, although submit and cancel write back a snapshot they read earlier |
| `routes_wrong_tenant` | violation of `OwnNamespace` with two requests in flight |
| `sse` | `InOrder`, `NoGap`, `EndsOnlyWhenLagged`, and under fairness `Delivered` and `AbandonedTaskEnds` |
| `services` (`MCServices`) | a webhook job and callers of the orchestrator, which share nothing, at the same time. The job, for all limits and all first attempts: `JobEnds`; for all but a job handed over at 255: `LimitKept`: no more requests than there were attempts left, and no abort before all of them; `ScheduleKept`: the k-th failure is followed by the k-th delay. Two callers that provision a site, one that deletes it, every call failing before or after its effect: `OneWinner`, `OkIsComplete`, `AbandonedUntilDeleted`: a half-made site stays as it is until it is deleted, every retry failing |
| `storage` | two uploads, of the same or of other content and tenant, any failure, any drop: `ContentAddressed`, `Acknowledged`, `OnlyUploaded` |
| `h3` | two clients, two connection ids in any combination: `TenantsOfConns`, `RequestsAccounted`, `LoopReturns`, `ClosedRemoved` |
| `schema` | two `sync_schema` and one `synchronize_schema` with four versions of a schema: `SystemFieldsKept`: until a `synchronize_schema` starts, the table is never without its system fields, nor with another type for one than a schema gave it; `SyncedFits`: a `sync_schema` that succeeds leaves the fields of its schema and no others, with the unique indexes it asks for, of two fields with one name the last |
| `scripts` | two executions and callers of `compile_and_cache`: `NoEarlyTimeout`: sharing `start_time` never stops a script early; `OverrunsOnlyShared`: a script overruns 500 ms only if another began meanwhile; `ReplacedOnlyInRace`: a cached AST is replaced by an execution only if that execution had missed the cache before; `ExecutionEnds` |
| `functions` (`MCFunctions`) | on all arguments of bounded sets: `PagesReadBack` (page builder), `RolesAddUp` (permissions), `TokensNeedSecret` (authentication), `PagesCoverList` (paging), `ValuesSurvive` (conversions), `SitesKeptApart` (tenant resolver) |

The `.cfg` files are `Server.cfg`, `Provisions.cfg`, `RoutesRaces.cfg` and so on.

Types are invariants of the proofs rather than of runs (`TypeCorrect` of each
`*_proofs` module).

The violation is a trace TLC finds of a disagreement between the code and a
sentence of the repository; see
[known divergences](#known-divergences-between-code-and-documents).

## Bounds

- `I32Half = 4` stands for 2^31: 9 truncates to 1 as 2^32 + 1 does. Values are
  the statuses, one that truncates, text, null and absent: the code makes no
  other distinction. `history` has Draft as absent and null, 1, 2 and 9.
- Server: two tenants, two ids, two provisions, two files of one doctype, one
  request in flight (`InFlight = 1`), which any number of requests follow one
  another in; tenants and provisions are symmetric. It is the largest run
  (4.2 million states).
- Provisions: three provisions, two tenants, one file and a GET, all in flight
  together (`InFlight = 3`): one provision that fails after its first query, one
  in flight and a retry. Nothing a document request does reaches `defined`, so
  one is enough to move the session. Both properties are proved for any number.
- Routes: two tenants, two ids, two requests in flight. Two are
  enough for a redirect, a lost update and a stale snapshot; the properties are
  about one record and pairs of requests, and all of them are proved for any
  number. An id is used once (UUID), so a run ends creating after the last; the
  handlers go on with 404 and 500. `PutIds` are the ids clients PUT: all in
  `server`, one of two in `routes_races`, so that `NoSkippedSubmit` and
  `ContentKept` have a record that is not PUT while another is.
- SSE: `Capacity = 2`, `QueueSize = 1`, `MaxEvents = 4`: a client can fall
  behind by more than the channel, and a task waits for room after its
  greeting already. One connection: connections only share the log. Two
  tenants and two topics, so that each half of the filter matters.
- Webhook: `U8Max = 6` for 255, all limits and first attempts of that width: the
  smallest with a failure beyond the table of delays and a count that wraps. The
  safety properties are proved for every width.
- Storage: two uploads of up to two chunks of two kinds: empty, short, equal
  and different contents. That a failed removal is possible is a constant
  (`RemoveMayFail`).
- HTTP/3: two clients with their own source ids, any client may use any
  destination id; `MaxStreams = 2` requests on a connection may arrive at once or
  one after the other.
- Schema: four versions in which fields come, go, change type, become
  required, unique, and a Table; one names a field twice and has a field of its
  own for a system field's name. Statements are executed by two concurrent
  `sync_schema` calls and one `synchronize_schema`. All of it is proved for any
  schemas and any number of calls.
- Scripts: two executions, `MaxOps = 2` operations, `Limit = 1` tick for 500 ms,
  `MaxNow = 3`: a script can be reset once and still overrun. One script
  compiles, one does not, and one source is cached under a name that is a
  script's text.
- Orchestrator: two provisioners and one deprovisioner; the namespace is created
  at most twice (`MaxLives`), enough for a call that runs on into the next life.
  All three properties are proved for any number.
- Functions: layouts of three levels with two children, on a list of tags with
  one unsafe and one self-closing, and attributes one of which has a name of
  two words (`MCParts`); two DocPerms of two roles; two secrets; tables
  of up to three documents, names that are identifiers and names that are not;
  values of three levels, integers on both sides of `I64Max = 7`, beyond which
  every fourth is a double (`MCAsF64`); labels of up
  to three characters. All of it is proved for every size.

`CHECK_DEADLOCK FALSE` stands where the component stops: jobs and uploads end,
calls of a sync return, `MaxEvents` is reached and every client has left, the
one question of `PureFunctions` is answered.

## Fairness

- `WebhookWorker`: weak fairness of the job's steps. `send()` has a timeout of
  10 s and `sleep` ends.
- `SseEvents`: weak fairness of each forwarding task (tokio polls what is
  woken) and of each client's reading. `Delivered` is about clients that read;
  it allows for a client that leaves and one that lags. Nothing is assumed of
  publishers.
- `ScriptSandbox`: weak fairness of each execution's steps: threads are
  scheduled, and the database answers `db_get_value`. Nothing is assumed of the
  clock: the number of operations ends a script, not the time.
- `H3Server`: weak fairness of the loop's own steps and of the second task.
  The sweep has strong fairness: `tokio::select!` picks at random among ready
  branches, so datagrams, however many, cannot keep out the interval's tick.
  No fairness of datagrams or of expiry: `ClosedRemoved` needs none, the sweep
  removes every closed connection.

## What is proved

TLAPS checks all proofs, for every value of the constants that satisfies the
named assumptions (`LifecycleAssumption`, `HistoryAssumption`,
`RoutesAssumption`, `ServerAssumption`, `SchemaAssumption`, `SseAssumption`,
`WebhookAssumption`, `LocalFsAssumption`, `H3Assumption`, `SandboxAssumption`,
`OrchestratorAssumption`, `TenantAssumption`, `DatabaseAssumption`,
`ValuesAssumption`, `LayoutsAssumption`: the special values differ from the
proper ones, two kinds of callers are disjoint, capacities are positive, the
clients' bodies are documents, host names are made of letters, digits and
hyphens, a page of a list has at least one document, and a JSON value or a
layout has its parts in the same set, each nested less deep than the whole).
TLC evaluates each of them in its run.

- **`Document_proofs`**: everything about documents and their tenants,
  `DocHistory`, `DocumentRoutes` and `Server`.
  - `FiledFieldsAreKept`, `CancelledIsFrozen`. The invariant is the conjunction
    of the two with the types, already inductive: every path into Submitted
    sets `filed`, and none leads back into it from Cancelled. `Accepted` says
    what an `Ok` of `validate_transition` means.
  - `TypeCorrect`: `TypeInv` adds to `TypeOK` what a handler knows at each
    await (`Fits`): that its request is one of `Requests`, that a handler at
    its write has a document, and that a namespace has been selected.
  - `RecordsRefined` (`Spec => RecordsKept`): initial states and every step map
    to `RecordStore`. `DbStep` classifies the effect of any step on `db` as
    nothing, an insert under an unused id, a replacement of a record that
    exists, or a removal; the selected namespace may be anyone's.
  - `NoSubmitSkipped`, `ContentIsKept`, about records outside `PutIds`. A stale
    snapshot is dangerous only if the record can differ from it, so the
    invariant `SnapshotInv` says of every handler about to write (`Prepared`):
    if the record is there, its other fields are those of the snapshot, and it
    is no Draft if the handler is to cancel it. This needs `OneNamespace`: a record lives
    in one namespace only, or a snapshot taken in one could be written in
    another. `OneNamespace` in turn holds because ids are used once and
    `UPDATE` creates nothing.
  - `ServerTypeCorrect` and `SucceedsOnce`, about `Server` with any number of
    document requests and provisions in flight. That a tenant is provisioned
    with success once is not inductive: two handlers could both be past their
    `Define`. `ClaimInv` says of every handler that has defined its namespace
    and not failed since (`Claims`) that the namespace is defined and that no
    other handler claims the tenant; only the one that finds it undefined can
    begin to.
  - `RetriesAlwaysFail` (`ServerSpec => RetriesFail`), with any number in flight
    too. A provision that is idle when the namespace is defined stays `Late`: no
    step undefines a namespace, and `Define` leads a provision on only where it
    was undefined.
  - `SuccessCompletes`, `VersionsNeverMix` and `OneStepServed`
    (`ServerSpec => ServedInOneStep`), for one request in flight
    (`InFlight <= 1`), any tenants, ids, schemas and provisions. That at most one
    slot or provision is busy (`AtMostOne`) is part of the invariant `AloneInv`,
    and not enough: it also says what the busy one knows between its awaits. The
    session is still in its namespace and the document it has selected is still
    the stored one (`Undisturbed`), what a provision has synced is in its
    tenant's tables (`Complete`), and whatever is in a table came from the one
    provision that claims the tenant, its failed syncs included, which may have
    had their effect (`Tried`, `Sourced`). `OneStepServed` maps every
    step to `DocumentStore`: the one that takes effect in the database to the
    request's atomic step, all others to stutters (`ReceiveServed`,
    `CreateServed` and so on, one lemma per handler). With two in flight it
    is false; see `routes_wrong_tenant`.
- **`SchemaSync_proofs`**: `TypeCorrect`, `SystemFieldsAreKept`, `SyncFits`, for any
  number of calls and any schemas, also those that name a field twice or like a
  system field.
  - A call computes its statements at one step and executes them at another,
    so the invariant `SchemaInv` says what a program contains rather than how
    it was made: `Programs` that it defines every field of its schema as the
    schema says, last of all statements about that name (`DefinesLast`), and
    begins a table only with all system fields (`Creates`, `Alters`);
    `FreshPrograms` that as long as nobody has changed the table for another
    schema, the program removes every field that is there and should not be,
    and defines every index that is missing (`Ready`). A call with the same schema may have
    changed the table in between: it leaves no more fields to remove, and no
    fewer indexes (`Grown`), and so may a statement or a transaction of which only
    an error came back. `SystemFieldsAreKept` adds `WholeInv`.
  - `Run` and the community modules' `FlattenSeq` and `SetToSeq` are recursive
    functions or choices over the length of a program. What they
    compute is proved for programs of any length by taking the least index at
    which a claim fails (`UpTo` of `ListLemmas`); the library's
    induction theorems take an operator, which the provers cannot instantiate.
- **`H3Server_proofs`**: `TenantsAreOfConns`, `RequestsAreAccounted`,
  `TypeCorrect`, for any clients, connection ids and streams. `Sound`
  adds to the account of a connection's requests that the events that wait
  announce none twice (`Once`); without it a poll could find a request in
  service again, or lose one that is announced again.
- **`ScriptSandbox_proofs`**: `TimeoutsAreDue`, `OverrunsAreShared`,
  `ReplacedInRace`, `TypeCorrect`, for any number of executions, any limits. The
  invariant orders the times: what an execution copied of `start_time` is no
  earlier than its own beginning, and later only if another began between.
- **`Services_proofs`**: the three services that nothing in the repository calls.
  - Streams: `TypeCorrect`, `SentInOrder`, `SentWithoutGap`, `EndsWhenLagged`
    for any capacities and connections. The invariant relates each connection's
    receiver, queue and task (`ConnInv`).
  - Webhooks: `LimitIsKept`, `BackoffSchedule`, `NeverOverflows`,
    `JobTypeCorrect` for any width of the counter and any first attempt.
    `Counting` relates `attempt` to the first attempt and the requests sent; it
    stays below the limit, so that the addition wraps only in a job that was
    handed over at the maximum, which the first two theorems leave out: there
    they are false (see the known divergences).
  - Orchestrator: `AtMostOneWins`, `OkMeansComplete`, `ReadyMeansReachable`,
    `AbandonedStays`, `SiteTypeCorrect`, for any callers and any number of
    deletions. The invariant says how far the site is when an undisturbed call
    waits for its next create.
- **`PureFunctions_proofs`**: what the functions return, for every argument. The
  invariant is `Asked`: an argument comes from the set of its function; each
  theorem rests on a lemma about one operator.
  - `RolesAlwaysAddUp`, `TokensAlwaysNeedSecret`, `SitesAlwaysKeptApart`: the
    three permission checks are unions over roles (`PermissionByOne`,
    `RowByOne`, `FieldsByOne`); a key made at one call is never that of another;
    sanitizing keeps two labels of one domain apart because host names have no
    underscore.
  - `PagesAlwaysCoverList`: what a query finds is no longer than its table
    (`FoundIs`), a page begins at its offset (`PageIs`), and the first n pages
    are a prefix of what is found (`PagesJoin`, with `EndOf` for the last page
    and the empty ones after it).
  - `ValuesAlwaysSurvive`, `PagesAlwaysReadBack`: recursion over trees. A
    recursive function of TLA+ is a choice, so that it has its equation only if
    some function has it: `RecursionIsDefined`, `CompiledIs`, `RenderedOfIs` and
    `ShownOfIs` build one level of nesting at a time (`Below`, `Shallow`). What
    the functions compute is then proved from level to level. For pages it is
    stronger than `PagesReadBack`, which is about the empty stack: `Reads` says
    that from *any* stack of unfinished nodes the page of a node ends in the
    stack that has adopted the node, or nothing could be said of a child
    (`ReadsChildren`, `ReadsBody`). `FirstFaultJoin` is why an error deep in the
    tree is that of the first unsafe node in document order. About names, the
    theorem says that a node has its own attributes where each name is one word
    (`Plain`); where one is not, that the reader finds what it falls into
    (`OwnNames`, `WrittenNames`) and the rest of the page as it was.
- **`LocalFs_proofs`**: `StoredIsAddressed`, `AcknowledgedIsStored`,
  `StoredIsUploaded`, `TypeCorrect` for any number of uploads, tenants, chunks, and any length. `HashIsOfTemp` is the
  strengthening: while no write has failed, or once the flush has succeeded, the
  temporary file has the hashed content. A rename of equal content to a stored
  name therefore changes nothing.

## What is only model-checked

Liveness: `Delivered`, `AbandonedTaskEnds`, `JobEnds`, `LoopReturns`,
`ClosedRemoved`, `ExecutionEnds`. Fairness and ENABLED are out of the prover's
reach. Every other property of a passing run is stated by a theorem.

## Known divergences between code and documents

Found by a run:

1. `routes_wrong_tenant`: handlers select their namespace on the one shared
   session and issue their call after an await. A handler of another tenant may
   select its own in between, and the document is stored there. `routes.rs:50`:
   "Use specific SurrealDB namespace matching tenant_id and database name".

Read off the code, without a run of their own:

- `provision_tenant` selects the new namespace on that same session and syncs its
  schemas after further awaits. With another request in flight the tables may be
  defined in another tenant's namespace, and the answer is success;
  `SuccessIsComplete` is about one request at a time for that reason.
  `routes.rs:188`: "Switch to new namespace for DDL execution"; `routes.rs:209`:
  "Tenant {} provisioned successfully".
- Of a webhook job handed over with `attempt = 255` the count wraps to 0 at its
  first failure, in a build without overflow checks (`Cargo.toml` sets none for
  the release profile); with them it panics. It then counts the whole limit
  again, up to 256 requests of a job that had one left, and its delays begin
  with 32 s, the last of the table, and go on with 2 s. `LimitKept` and
  `ScheduleKept` leave these jobs out. `llm.context.xml:59`: "must retry using an
  exponential backoff schedule (2s, 4s, 8s, 16s, 32s) up to the specified
  max_retries limit".
- `alter_table` defines the unique indexes that are missing (`migration.rs:111`)
  and removes none. A field that was unique and is not any more keeps its index,
  and goes on refusing equal values, after `sync_schema` has returned Ok;
  `SyncedFits` is about the indexes that the schema asks for. `migration.rs:24`:
  "Synchronize the database schema for the given DocType".
- A submit that has read a Draft overwrites a document that has been submitted
  and cancelled since. `lifecycle.rs:15`: "Cancelled documents cannot be
  modified".
- A table that exists is altered, and `alter_table` defines neither SCHEMAFULL
  nor the system fields, so what a `synchronize_schema` that failed half way left
  out stays out, although `sync_schema` returns Ok. `ARCHITECTURE.md:15`:
  "Automatically defines `SCHEMAFULL` tables, required asset assertion clauses,
  system metadata fields, and uniqueness indexes".
- PUT replaces a document without a lifecycle rule; `NoSkippedSubmit` and
  `ContentKept` are about documents that nobody PUTs for that reason.
- A provision that failed after its first query has defined the namespace, and
  every retry fails on `DEFINE NAMESPACE` (`RetriesFail`). `main.rs` installs no authentication
  middleware, so that a request never has claims and is answered 401.
- A script's 500 ms are reset by every script that begins
  (`ARCHITECTURE.md:22`: "Enforces timeouts, maximum operation limit counts, and
  AST caching"): `OverrunsOnlyShared` says when. `db_get_value` ignores its
  `_name` and reads the namespace that is selected at the moment;
  `block_in_place` panics on a runtime with one thread.
- Row-level rules look at string values only (`permissions.rs:66`), and
  field-level security at the names of the fields, not at their permlevel
  (`permissions.rs:92`).
- The key made without `PASETO_SECRET_KEY` is made at each call
  (`auth.rs:126`), so that no token is ever accepted: `TokensNeedSecret`.
- A filter of `get_list` named `limit` or `offset` is replaced by the paging
  parameter.
- An attribute name that is not one word is written as it is but for the
  characters that `escape_html` replaces, which blanks and "=" are not among, so
  that a page may have other attributes than its layout, and
  `is_safe_attribute` has looked at the name as a whole. `compiler.rs:35`:
  "Validate that attribute keys do not contain event handlers". `PagesReadBack`
  says which attributes a reader finds (`Written`), not that they are safe.
- A page whose node has an attribute `id` or `class` besides its own id and
  classes has the attribute twice.
- The stored docstatus may go from 1 to 2^32 + 1 and back in accepted saves:
  `validate_transition` reads both as Submitted. A query on the stored value
  does not.
- Two tenants, or two instances, may get different versions of a doctype of
  which the directory has two: the file read last wins (`registry.rs:57`).
- A PUT between the read and the write of a submit or a cancel is overwritten
  by the snapshot.
- `shop.a.com` and `shop.b.com` are the same tenant, so are `default-site.x` and
  the default; names are not lowered.
- `update_doc` lets a caller replace `name` and `creation`, and takes its time
  stamp before the await.
- Events published while a client reconnects, and webhook jobs at a restart,
  are lost; nothing promises them.
- A save that goes from Submitted to Cancelled may change protected fields:
  the field check is for Submitted → Submitted only. `FiledFieldsKept` is
  about documents that are still Submitted.
- `flush`, `create_dir_all` and `canonicalize` in `local_fs.rs` return with `?`
  and leave the temporary file.
- `server_name()` is read before the handshake, so every HTTP/3 request gets
  the default tenant (`ServerName` in `H3Server`).
- Trailers are a second Headers event, and become a second request on their
  stream; `Arrivals` in `H3Server` leaves them out.
- `conns` is keyed by the destination id of the first datagram; a client that
  has learnt the server's id is not found under it.
- A required Table field gets no assertion when its table is created, only
  when it is altered; `Has` in `SchemaSync` leaves the assertion of Table fields out.

## What is not modelled and why

- `run_before_save`, `run_on_submit`: not called by the endpoints; the first
  is one call into the sandbox, the second runs queries it is given.
- `insert_doc`, `update_doc`: single calls that only a test makes.
- The 500 of the PASETO middleware for a key of a wrong length (`auth.rs:67`):
  the key always has 32 bytes.
- Time: delays and timeouts are the order of steps, except in `ScriptSandbox`,
  which has a clock. quiche's retransmission
  depends on it and is left out.
- Power failures that lose written data: the file system of `LocalFs` keeps
  what it acknowledges.
- SurrealDB, quiche, tokio's file and channels are external, modelled from how
  the code uses them. That a call may fail before or after its effect is part
  of the model.
- The collaboration service is the yrs library's behaviour; the OLAP analyzer
  checks a path and issues single DuckDB queries; the WebSocket handler echoes;
  `main.rs` wires what the modules assume.

## Plan

Order: what users' data depends on first. Done: every component with state or
control of its own, and a proof of every safety property the runs check. Next:
`insert_doc` and `update_doc` in `DatabaseClient`, with their time stamps, next
to readers.
