# Invariant Protocol: TLA+ models, checks and proofs

Invariant Protocol projects one protobuf service onto native gRPC, HTTP/Connect, MCP and
a command line, imports services from OpenAPI, and compiles protobuf messages to storage
schemas whose field ids never change their meaning. This directory holds TLA+ models of
the Go runtime and the Go tools, TLC configurations that check them on small instances,
and TLAPS proofs of the results that carry the most weight.

The Python, Rust and TypeScript runtimes follow the same contract with other concurrency
libraries. They are not modelled.

## 1. Inventory

### Parts and how they interact

| Part | Code (`src/go/`) | State | Operations | Status |
|---|---|---|---|---|
| Setup, registration, freeze | `server.go`, `registration.go` | `mu`, `frozen`, filters, limits, interceptors, services, tools | `Register`, `ConnectGRPC/HTTP`, `Use`, `Include`, `SetMax…`, `freeze` | modelled |
| Starting and stopping projections | `server.go`, `http.go`, `mcp.go`, `cli.go` | contexts, result channel, calls in flight | `ServeProjections`, `serveHTTP`, `serveMCP`, `serveCLI` | modelled |
| MCP stdio session | `mcp.go` | in-flight map, scanner channel, wait group | read, dispatch, cancel, answer, shut down | modelled |
| Unary HTTP and `POST /mcp` | `http.go`, `http_metadata.go`, `mcp.go`, `errors.go` | one request: context, body, metadata, reply | routes, decoding, the call, limits, errors | modelled |
| Connect server streaming | `http.go`, `stream.go` | response headers, trailers, sticky send error | `SetHeader`, `SendHeader`, `SetTrailer`, `SendMsg`, finish | modelled |
| HTTP proxy client | `http_client.go` | attempt, delay, answer | `callProto`, its retries and its waits | modelled |
| HTTP transcoding | `http_client.go`, `http_transcoding.go` | none | path, query and body from a rule, response from a body | modelled |
| OpenAPI importer | `internal/openapiimport`, `cmd/invariant-openapi` | names taken, types being built, messages | operations, parameters, schemas, the rename | modelled |
| Data schema compiler | `data/compiler.go` | the previous schema: ids, names, tombstones | `CompileMessage` | modelled |
| Schema bundle file | `cmd/invariant-schema`, `data/bundle.go` | the bundle on disk | `compile`, `migrate`, `render` | modelled |
| Storage renderers | `data/{sqlite,postgres,clickhouse,arrow,parquet,iceberg}` | none; the rows of the table they describe | six renderers, the publishing plan | modelled |
| Interceptor chains, direct invocation | `registration.go`, `server.go`, `validation.go` | none of their own | call wrapping, recovery | not modelled |
| Descriptor agreement | `registration.go`, `descriptor.go` | none | comparison of descriptor graphs | not modelled |
| Filter patterns, storage names | `server.go`, `data/compiler.go` | none | string algorithms | not modelled |
| Native gRPC, reflection | `grpc_server.go`, `grpc_client.go` | reflection cache | grpc-go does the work | not modelled |
| CLI parsing, JSON Schema | `cli.go`, `schema.go` | none | text | not modelled |
| CDC contract | proto files and `docs/cdc.md` | none | no implementation outside tests | not modelled |

A program sets up a server (`ServerRegistry`), then serves it (`ServeProjections`). Each
projection runs calls: an MCP session (`McpSession`) or HTTP requests (`HttpEndpoint`,
which extends `ConnectStream` by the routes and by everything that is not a stream). A tool
may be a proxy for a remote HTTP server: `HttpBinding` builds its requests and `HttpClient`
sends them. `HttpCalls` is the server connected to such a contract, whatever the contract
is, and `OpenApiImport` composes it with the importer (`OpenApiTypes`, `OpenApiSchema`): it
imports a document, connects the contract and calls it. The schema tool is a separate
program: it applies the compiler (`SchemaEvolution`, `SchemaCompiler`) to the bundle file
(`SchemaStore`) and renders datasets for storage (`StorageTargets`).

### What is hard about it

- MCP cancellations race the completion of the call they name, and shutdown races
  everything, with three kinds of goroutine and a mutex that is released between
  recording a cancellation and carrying it out.
- The registry is read without its mutex once it is frozen. A connection checks that
  setup is open, works without the mutex, and registers later.
- A stream handler may ignore the error of a message that was not sent. A reply that does
  not fit into its limit is replaced by an error, which may not fit either. A deadline may
  pass while the body is read, while the handler runs and while the reply is encoded.
- An HTTP call may be retried only if that is safe, must stop with its caller's context,
  and computes delays from what the server says.
- Several projections end for their own reasons, and the end of one ends the others.
- Two OpenAPI names may become one protobuf name, a type may be used while it is built,
  and a bound may lie where the protobuf type cannot express it.
- Ids and tombstones must survive any sequence of schema changes, and the file that
  remembers them must survive crashes and commands that overlap.
- A storage column lets in more values than the logical type has, or fewer. Databases
  convert before they check, evaluate NULL in three-valued logic and fill in what a row
  leaves out.

`PROJECT.json` lists each hazard at its line, with the properties that cover it.

## 2. Modules

| Module | Models | Correspondence |
|---|---|---|
| `McpSession` | `mcpServer.run`, its scanner and call goroutines, `handleCancellation` | A critical section of `inflightMu` is one step. What lies between two critical sections is a state. `loop`, `scanner` and `state[c]` are the program counters. |
| `McpContract` | what a session promises | Requests are pending, answered once or silenced; a session closes when none is pending. |
| `ServerRegistry` | setup and freeze | Setters are single critical sections; a registration commits one service in each step while it holds `mu`. |
| `ServeProjections` | `ServeProjections` and the lives of projections | `errc` is the whole history of the channel; calls are counted. |
| `ConnectStream` | `handleHTTPStream`, `projectedServerStream` | The handler's calls are actions. `wire` is what the client receives. |
| `HttpEndpoint` | `HTTPHandler`'s routes, `handleHTTP`, `handleHTTPProto`, `handleMCPHTTP`, `toolsCall`, `toolsCallStream` | One action for each stage of a request; the context can end between any two. A body is its size. |
| `ConnectErrors` | `errors.go` and its reverse in the client | Tables of codes, statuses and MCP classes as functions. |
| `McpMessage` | `parseMCPJSONRPC`, its validators, the dispatch | A JSON value is its kind; a message is what each member is. |
| `HttpClient` | `callProto` | One action for each stage of the loop. A `Duration` has a width. |
| `HttpBinding` | path templates, bindings, requests, replies | A JSON object is a function from leaf paths to leaves. Escaping is counted. |
| `HttpCalls` | `ConnectHTTP` and `callProto` without the retries | Two actions with the contract, the message and the reply as parameters. |
| `OpenApiTypes` | scalars, numeric rules and fields in `schema.go` | One operator per function of the code; no recursion. |
| `OpenApiSchema` | arrays, maps, objects, components in `schema.go`, `model.go` | The converter is a record that each translation returns changed; an error stops everything after it. |
| `OpenApiImport` | one run of the importer, then calls of the result | One action per operation of the document, then rendering, the rename, connection, call and reply. |
| `SchemaEvolution` | one compilation of a dataset | Operators for what is computed (`Allocate`, `Result`) and for each check (`RenamesReserved`, `NamesUnowned`, `RetiredReserved`, ...). |
| `SchemaCompiler` | a history of compilations | One step for each accepted compilation; the compiler's maps are local to a call. |
| `SchemaStore` | the bundle file and the commands | One step for each system call that matters: temporary file, write, sync, rename. Commands can stop between any two, and power can fail. |
| `LogicalSchema` | logical fields, rows and messages | What every renderer reads, and what a physical value means. |
| `SqlTables` | the SQLite and PostgreSQL renderers | A column is a record; an emitted CHECK is the predicate it is, after the database's own conversion. |
| `LakeSchemas` | the Arrow, Parquet and Iceberg renderers | A node has type, nullability, id, default and diagnostic. |
| `ClickHouseTables` | the ClickHouse renderer, the publishing plan | A CHECK is the expression tree that the renderer builds, and an evaluator of it. |
| `StorageTargets` | a dataset rendered, rows stored, rows published | The renderers composed with the databases that use their output. |

`MC*` modules give the constants their values. A definition that begins with a comment
"Mutant:" is a plausible wrong version of the definition after it. No specification uses
it; it shows that a property can fail.

## 3. Runs

| Run | Instance | Shows |
|---|---|---|
| `McpSession_calls` | 2 calls, 2 ids, 4 lines; 92,630 states | The session implements `McpContract`. A call is answered once or silenced; a cancellation takes effect before the next line. Shutdown returns; if handlers return, all calls are resolved. |
| `McpSession_reused_id` | 2 calls, 1 id | Violation, see findings. |
| `McpSession_scanner` | 2 calls, 1 id | Violation, see findings. |
| `Schema_evolve` | 4 identities, every combination of shapes, names and reservations; 2 roots, 1 command at a time, or 2 with a power failure; 113,117 states | Output is accepted as input; recompiling changes nothing; identities are permanent; ids grow. The file is always usable; without overlap its history is kept, and artifacts rendered at different times agree. |
| `SchemaStore_parallel` | 2 overlapping commands | Violation, see findings. |
| `Server_serve` | 2 goroutines, 5 services, 6 calls; an HTTP server, MCP and CLI with 2 calls each; 123,575 states | Registrations are all or nothing; projections follow the filters; nothing changes once anyone serves; `freeze` returns. The cause of the end is what is reported; everything has stopped and calls are finished; shutdown ends. |
| `HttpEndpoint_calls` | one request to any route, 3 messages, small limits; 257,634 states | One answer; a success is complete, in time and within its limit; metadata that can be sent is delivered; the client reads the handler's code; JSON-RPC is answered as asked; a request with a deadline is answered at last. |
| `HttpEndpoint_body` | the same without `ReadTimeout` | Violation, see findings. |
| `Outbound_calls` | four families of documents and hand-written contracts; 3 retries, 8-bit durations; 57,185 states | The contract means the document; recursion through objects is accepted; numeric rules are exact; a request carries its whole message and is the one the document describes. Unsafe requests are sent once; retries are used up; delays are right; the call returns. |
| `Outbound_escaping` | the same | Violation, see findings. |
| `StorageTargets_rows` | every type, presence and nesting for six targets; 164,441 states | No loss goes unannounced; what a database lets in is a message; what a row leaves out is absent; a stored message comes back, through ClickHouse also from Iceberg. |
| `StorageTargets_maps` | the same | Violation, see findings. |

Three instances put two specifications side by side that share no state but the point
where one starts. `MCServer` serves a server that is frozen, idle and otherwise empty, with
`Launch` as the first step; `MCOutbound` makes the attempts of `HttpClient` beside one small
contract, for they depend on nothing of a request but its method; `MCSchema` either evolves one dataset or runs commands
over a bundle. Each part takes its steps only while the other is quiet, so the states are a
sum and not a product; nothing that the second part does depends on the state the first is
in. The fairness of a part says nothing while it does not run.

### Bounds, and why they are enough

- MCP: two calls over two ids give a reused id and ids of their own. Four lines are enough
  for two calls and a cancellation of each.
- Registry: overlapping connections, a duplicate, a disagreeing and an infrastructure
  service, and a goroutine that serves while another connects. `Configured` bounds the
  methods that are configured; one is enough, since methods do not interact there.
- Projections: one of each kind, so that each may end first, last or because of another.
- Endpoint: limits lie below every error, between the projection's own errors and those of
  handlers, and above all of them; the middle one is filled exactly by a result with one
  block, the largest by two blocks and their comma. Metadata has reserved and binary keys and values that are not printable. Three messages give a stream that breaks
  before, at and after the limit.
- Client: three retries reach the limit of the delay. `Width` is 8 bits, and the server may
  ask for a delay that does not fit.
- Importer: two components that refer to each other in every way give direct, mutual and
  harmless recursion. The integer types are scaled (`MaxInt`), numbers are counted in
  halves, and the reserved range of field numbers starts at `ReservedFrom` with
  `ReservedCount` members, so that both ends of each are met.
- Schemas: field 1 may be an enum that grows, a list, or a decimal with or without
  presence, of which the compiler refuses the second; field 3 is a message with a field,
  so that nested and synthetic ids, tombstones at two depths and a storage name shared by
  two protobuf names all occur. `MaxStableId` is 4, the number of identities, and field
  number 3 comes before ids run out, so the limit is reached.
- Store: two commands are enough for one to overwrite the other. `MaxRendered` bounds the
  artifacts and `MaxOverlapping` the roots of compilations that overlap. `disk` is only
  followed while a power failure is still to come.
- Storage: one to three fields in a dataset, one level of nesting in a message, list or
  map. Integer widths, decimals and UUIDs are scaled by constants; texts are short
  sequences over the characters that a CHECK tells apart, NUL included.

Deadlock checking is off where a session, a call or a publication simply ends.

### Fairness

- MCP: goroutines that can run do run, and a handler whose context is done returns. Nothing
  is assumed of the client, the parent context or a handler that was not cancelled.
  `EveryCallResolved` states its premise itself: handlers return.
- Registry: a goroutine inside a registration goes on, and `sync.RWMutex` does not starve
  a waiting writer (strong fairness of `freeze`).
- Endpoint: the goroutine of the request goes on, handlers return once their context has
  ended, and a deadline passes (`HandlerSpec`). Nothing is assumed of the client or its
  body. `Spec` adds the 30 s `ReadTimeout` of `serveHTTP`, which ends every read; an
  application that mounts `HTTPHandler` in a server of its own has only `HandlerSpec`.
- Client: once a call has begun each step is taken at last, since `Client.Timeout` ends a
  request (`ClientFairness`).
- Projections: once `ServeProjections` was called, goroutines and the shutdown timer go on. Handlers of MCP and of the CLI
  get the context and return after it ends. HTTP handlers do not get it, and nothing is
  assumed of them.

## 4. Findings

Six runs show a disagreement between the code and what the repository says of it.
`PROJECT.json` quotes the lines.

- `McpSession_reused_id`: when two calls are in flight under one id, the first to finish
  removes the entry of the second. A cancellation then finds nothing, although the comment
  at `mcp.go:146` says that it always finds the call.
- `McpSession_scanner`: `run` can leave its loop on `ctx.Done()` and stop the `AfterFunc`
  before that has started. The reader is then not closed and the scanner goroutine stays
  blocked, although the comment at `mcp.go:77` says that it is released.
- `SchemaStore_parallel`: of two overlapping `compile` commands the second to rename
  discards roots that the first has added, although roots are documented as append-only.
- `HttpEndpoint_body`: the deadline of a request closes its body, but over HTTP/1 net/http
  takes the same mutex for `Read` and `Close`, so the close waits for a read that is under
  way. Only the client or a `ReadTimeout` ends it, although `README.md:502` says that the
  deadline covers body reads.
- `Outbound_escaping`: a path value is escaped by `PathEscape` and again when the URL is
  printed, so `a/b` leaves as `a%252Fb`. The comments of `google.api.http` in the repository
  describe one encoding, and the Python and TypeScript clients make one. The test at
  `http_client_test.go:38-43` decodes twice.
- `StorageTargets_maps`: Arrow, Parquet and Iceberg maps are reported as `LOSSLESS`, but
  their types let a key occur twice, although `docs/data-schemas.md:249` says that
  diagnostics cover constraints that a target does not enforce.

Behaviour that a reader of the models will meet and may not expect:

- An imported path parameter with a dot in its name cannot be called. An empty path value
  gives an empty segment, and an empty object adds nothing to a query.
- Whether a recursive schema with an array or a map on its cycle is refused depends on
  the component by which the operations enter it: `A {q: B}` with `B` an array of `A` is
  imported through `A` and refused through `B`, although protobuf has a form for both.
  `RecursionNeedsObject` therefore claims that cycles of objects alone are imported, that
  cycles without an object are not, and of the others only where a refusal comes from.
- SQLite reports `RANGE_WIDENED` for dynamic JSON and says in the text of the diagnostic
  that numbers must be finite. `NoSilentLoss` excepts messages with other numbers there.
- A Parquet file without columns keeps no rows, and a dataset without fields has no node
  whose diagnostic could say so. `NoSilentLoss` excepts it.
- An error of a handler that is larger than the response limit reaches the client as
  `resource_exhausted`, or as `unavailable` if the body was emptied. Metadata values that
  are not printable are dropped without an error, and an end-of-stream envelope that is too
  large loses its trailers and becomes an error.
- In Iceberg, a fixed list that was added later reads as null in old rows.

## 5. Proofs

All theorems hold for every value of the constants that satisfies the named assumptions
(`McpAssumption`, `SchemaAssumption`, `StoreAssumption`, `RegistryAssumption`,
`StreamAssumption`, `EndpointAssumption`, `ClientAssumption`, `ProjectionAssumption`,
`ScalarAssumption`, `ReservedAssumption`, `BindingAssumption`, `BaseAssumption`), which TLC
evaluates on each instance. The inductive invariants were checked with TLC on the instances
of the runs before they were proved.

`McpSessionProofs`:
- `SessionInvariant`, `AnsweredOnce`, `RunOutlivesCalls`. That a cancelled call is not
  answered is not inductive: it depends on the flag being set only through the in-flight
  map. The invariant `Inv` adds that the entries of the map are calls that have not yet
  decided (`EntriesAreRunning`), and the count of answers in each state of a call.
- `CancellationTakesEffect`. `handleCancellation` sets the flag under the mutex and calls
  `cancel` after it, so a flagged call whose context still runs is no error while the loop
  is on its way there. `CancelPending` names the one call for which that may be so, and
  says that there is none when the loop is anywhere else.
- `SessionImplementsContract`. Each action of the session maps to a step of `McpContract`
  or to a stutter. The invariant gives that a flagged call was pending and that no call is
  pending when `run` returns.

`SchemaProofs` begins with the lemmas about one compilation. The compiler starts from no
schema or from one that passes its checks (`Evolvable`), and its output is again such a
schema (`OutputIsEvolvable`) in which nothing is forgotten (`EvolutionKeeps`). Ranks count
a finite set from 1 without gaps (`RanksCount`), so allocated ids are new and distinct
(`EvolvedIds`, `EvolvedIdsUnique`) and the highest field number exists (`LastIdExists`);
storage names keep their owners (`EvolvedNamesOwned`).

About a history of compilations it proves:
- `OutputAccepted`. The invariant is the compiler's own check of its previous schema
  (`AcceptsPrevious`), with the types and the empty schema before the first compilation.
- `IdentitiesArePermanent`, `AllocationIsMonotonic`: action properties from that invariant.
- `RecompilationIsIdentity`: the invariant is strengthened by how a schema mirrors the
  descriptor it was compiled from (`MirrorsStep`, `FixedPoint`).

About the bundle file:
- `BundleIsUsable`. Neither the file nor what a power failure can bring back is ever a
  bundle whose bytes are not on stable storage, because a command is at its rename only
  with a synced bundle (`Usable`, `Writes`).
- `HistoryIsKept`, `RenderedArtifactsAgree`. Without overlap, the one command that runs
  writes a bundle that has all the file has (`Serial`), and the file still says what any
  artifact said (`Artifacts`).

`ServerRegistryProofs`: `CallsAreWhole`, `ProjectionIsFiltered`,
`SetupIsConstantOnceServing`. A registration commits its services one by one, so the
invariant says what the holder of the mutex has still to do: the services of its call that
are not committed belong to nobody, the others to its call (`Committing`).

`HttpEndpointProofs`: one request to any route, with any sizes, limits and number of
messages. `EveryCallIsAnsweredOnce`, `SuccessTellsTheTruth`, `MetadataIsDelivered`,
`ResponsesFit`, `CodesSurvive`, `LateCallsFail` and `McpRepliesAsAsked` follow from one
inductive invariant, `Inv` (`EndpointInvariant`). The properties speak of the wire, and all
but the messages of a stream reach it in the last step, so each of them depends on what the
stages before have kept:
- `Waiting`: before the answer nothing was sent, which codec a stage has, and that a late
  result is only one whose context has ended;
- `Flowing`: a stream has sent its messages in order, and all that the handler tried while
  the client is there and neither the context nor an earlier message has failed. A handler
  that ignores an error is covered because the error is sticky;
- `Collecting`: the size that `toolsCallStream` has counted is the size of what it has
  collected, for every sequence of blocks. `LengthGrows` is the fact behind it: one more
  block adds its size and, unless it is the first, a comma.

`HttpClientProofs`:
- `UnsafeIsSentOnce`, `RetriesAreUsedUp`. The code does not count what it sends; the
  invariant says how that number follows from the attempt and the place in the loop, and
  that only a safe request gets beyond the first attempt.
- `RetriesWaitEnough`. The loop of `httpRetryDelay` stops at the limit, the property speaks
  of a power of two; `DelayDoubles` shows that they agree after any number of rounds. A
  delay the server asked for is held whole if it is a `Duration` (`HeldByDuration`).

`HttpCallsProofs`:
- `RequestsCarryTheMessage`. `CallsSpec` is the client of any contract and any caller: what
  prepares the contract is left open, `Connect` and `callProto` are the actions that
  `OpenApiImport` takes. A contract is any rule of which the literals need no escape and
  the JSON names are known names (`Contract`). A message is any in which no two populated
  fields have the same dotted key (`Message`); only JSON names with dots could give two
  fields one key, and a query string could not tell these apart. The invariant `CallsInv`
  adds that every binding of a serving client has what `newHTTPClientBinding` ensures
  (`Binding`). `expandPath` fails unless each path variable is a scalar, so nothing lies
  below it (`Expanded`), and taking the variables out one by one leaves all other fields as
  they were (`Keeps`; that `deleteNestedField` may leave an empty object behind loses
  nothing). What `encodeBody` selects and what `encodeQueryFields` writes share no field,
  and the segments of a path, each escaped on its own and joined, read back as the values
  (facts about `Chain`).
- `RepliesComeBack`. `wrapResponseBody` splits the selector at its dots, so the theorem
  assumes that the JSON name the selector starts with has none: the parts of `user.name`
  would be names of no field.

`OpenApiProofs`:
- `ImportedNumbersAreExact`, `RefusedBoundsAreEmpty`. Each of `minimum`, `maximum` and the
  two forms of `exclusiveMinimum` and `exclusiveMaximum` may be there or not;
  `stricterLower` and `stricterUpper` are shown to be conjunctions, and the rounding to
  `float` never to reverse an order.
- `FieldListsAreSound`. Field numbers grow with the list (`Ordered`), because the number
  that skips the reserved range is monotonic in the index.

`RequestCarriesMessage` is a property that `Outbound_calls` checks too; that `Contract`
and `Message` hold of every contract and call of that instance was also checked with TLC.
The importer itself has recursion that the prover cannot reach, so the theorems of
`OpenApiProofs` are about its operators. `NumericRulesExact` and `ContractMeansDocument` use
the same `MeansBounds` and `SoundFields` in the specification.

`LengthGrows`, `DelayDoubles` and the facts about `Chain` and `Remaining` are inductions
over data. The library's induction theorems cannot be used for them, since they take an
operator as a parameter. The modules take the least number at which a claim fails instead
(`LeastNumber`, `Induction`), from the well-foundedness of `<` on the naturals, and show
from the same principle that the recursive functions exist
(`Recursion`, `SumsExist`, `LinksExist`, `LeftExists`).

`ServeProjectionsProofs`: `CauseIsReported`, `CallsAreFinished`. `ServeProjections` counts
results and never looks at the projections, so the invariant relates them: the channel has
one entry for each stopped projection (`Counts`), nothing was canceled before the first
entry unless the caller did it (`Causes`), and calls are left only under a listener that
failed or a shutdown that timed out (`Calls`).

Only model-checked:
- liveness (`ShutdownReturns`, `EveryCallResolved`, `FreezeReturns`, `DeadlineAnswers`,
  `CallReturns`, `ShutsDown`), which the prover does not cover;
- `ContractMeansDocument`, `RecursionNeedsObject`, `NumericRulesExact` and
  `ImportedCallAsDocumented` of `OpenApiImport`, but for the parts named above, and the
  four properties of `StorageTargets`. Their algorithms are `RECURSIVE` operators over
  schema trees. The prover's SMT backend is not available in a module that reaches one, and
  the importer's recursion follows references, which may be cyclic, so that there is no set
  of arguments to define it on as a function.

## 6. What the models leave out

- Payloads, message contents, log and error texts.
- `McpSession` takes the key of a request id and the class of a line as given. `McpMessage`
  says what the class is, from the kinds of a message's members.
- `ServerRegistry` takes as given which services agree with the descriptor and which
  methods a pattern matches. One limit stands for the four byte limits, which are set alike.
- `HttpEndpoint` has one request; requests share nothing but the frozen registry. The
  texts of `http.Error` have no size: no limit applies to them in the code.
- `HttpClient` leaves out redirects and Retry-After dates.
- `SchemaEvolution` takes storage names as a function and shapes as values that agree or
  do not. A field option is the facts that its validation tells apart (`Refinement`). No instance has two roots with one table name.
- Directory entries that a power failure brings back after artifacts were rendered are
  listed as a hazard without a property: the repository promises nothing.
- The importer's word splitting is a table of the instance. Warnings, comments and the
  layout of the file are left out. The code rounds the bounds of a `float` to 32
  bits; the model rounds halves to whole numbers, and `NumericRulesExact` excepts the value
  that a bound was rounded to.
- Renderers: quoting, comments, metadata strings, the hashing and truncation of long
  identifiers, constraint names that collide because of dots, and limits of `MaxInt32` are
  left out. The ClickHouse check of JSON accepts any JSON document. The padding of a
  `FixedString` is the writer's. A ClickHouse row is read through its columns as documented,
  and one whose discriminator, presence flags or map keys disagree reads as no message. A
  number is offered to a SQLite text column only where its text is one of `Strings`.

Not modelled:
- Interceptors run in one goroutine per call on no state of their own, in an order that is
  fixed at registration; that the chain does not change while it is used is checked in
  `ServerRegistry`.
- Descriptor agreement compares two descriptor graphs field by field; a model would repeat
  it.
- Filter patterns and storage names work on single characters; the models take their
  results as functions.
- Native gRPC is served by grpc-go. CLI parsing, help and JSON Schema generation are text.
- The CDC contract has no implementation outside tests.
- The Python, Rust and TypeScript runtimes.

## 7. Plan

1. A composition of `ServeProjections` with `McpSession` through `McpContract`, in place of
   the counted calls.
2. The interceptor chain with recovery, as a refinement of the handler's result in
   `HttpEndpoint`.
3. Proofs about the SQL renderers for one column, where nothing recurs.
