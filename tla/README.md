# A TLA+ model of Beadloom

Beadloom keeps an index of a code base next to a hand-written architecture graph and the
docs of its nodes: which file belongs to which node, which doc describes it, and whether the
doc is still true of the code. People and agents act on what it says, so the parts that
matter are those that could make it say something false or lose what was written: the freshness
ledger and the reindexes that rebuild it, alone and several at once; the caches, walks and
comparisons that answer from the index; the linter, the doc audit, the gate and the federation
hub that judge by it; the automated doc writer and the bead tools that act on the verdicts; and
the commands that write graph and agent files into the project. This directory models these
parts in TLA+, checks them with TLC on small instances and proves the main results with
TLAPS for every value of the constants.

Paths below are relative to the repository; `bl/` stands for `src/beadloom/`.

## The system

| component | state | operations | what is hard | what makes it correct |
|---|---|---|---|---|
| freshness ledger (`bl/doc_sync/engine.py`, `bl/application/reindex/sync_state.py`, `bl/services/commands/docsync.py`) | `sync_state` rows: code, doc, last-edit and symbols hash, status | `check_sync` (a read that writes), rebuild at a reindex, `mark_synced`, `mark_synced_by_ref`, interactive `sync-update` | order of edits, checks, reindexes and marks; hashes from disk mixed with symbols from the index; pairs that go and come back while an editor is open | drift is neither lost nor invented; a mark stays; one whole row per indexed pair |
| reindex (`bl/application/reindex/`, `bl/doc_sync/doc_indexer.py`) | `nodes`, `docs`, `code_symbols`, `code_imports`, `sync_state`, `file_index`, parser fingerprint | full run (drop, reload, rebuild), incremental run (diff by hash, per-file replacement), fall-back from one to the other | a commit per phase or per file; crash and exception between commits; edits in mid-run; what the change detection fails to notice | after a run the tables are what a build from scratch gives; baselines survive |
| AI tech-writer (`bl/ai_agents/ai_techwriter/`) | `HarnessResult`, futures, git working tree, run-record | discover stale docs, a window of agent sessions with retries, global fixpoint, gate, record, publication | sessions edit while others check; budget seen too late; failure at every step; record amended after publication | caps hold, verdicts are honest, a run ends |
| watch mode (`bl/application/watcher.py`, `bl/tui/file_watcher.py`, `bl/tui/app.py`) | pending batch; the UI's badge and posted message | debounce, full or incremental reindex, badge, `r` key | edits during a run; several reindexers on one database | no edit stays unindexed; a clear badge is true |
| bundle cache and MCP server (`bl/context_oracle/cache.py`, `bl/services/mcp_server.py`) | L1 dictionary per process, L2 table, index mtimes | get/put, stale check, automatic reindex, `mark_synced`, `update_node` | build of a bundle racing a reindex; other processes; mtime granularity | a served bundle is not older than the index |
| context builder, why, search, test mapper (`bl/context_oracle/`, `bl/application/graph_reads.py`) | none | bounded BFS, upstream/downstream trees, full-text search, test-to-node mapping, context of a bead | bounds, cycles, ties | nothing near is missing, nothing far stands in for it |
| code indexer, routes (`bl/context_oracle/code_indexer.py`, `route_extractor.py`) | parser cache | tree-sitter extraction of symbols, annotations, routes | grammars missing | text in, rows out |
| graph loader and patcher (`bl/graph/loader.py`, `bl/infrastructure/atomic_io.py`, `link`, `docs generate`) | YAML files, `nodes`, `edges` | `load_graph`, `update_node_in_yaml`, `link`, docs patch, atomic write | duplicate ids, dangling edges, several writers, crash in mid-write | YAML and tables agree, files are never torn |
| import resolver (`bl/graph/import_resolver.py`) | `code_imports`, `depends_on` edges | resolve an import to a node, derive edges | prefixes, most specific node | an edge exactly where an import crosses nodes |
| architecture rules (`bl/graph/rules/`, `bl/graph/linter.py`, `bl/application/reindex/rules_loader.py`) | `rules` table | load and refuse `rules.yml`, evaluate the nine rule types, lint | exemptions, cycles, matchers, rows as old as the last full run | a green lint means what it promises, a red one is true |
| graph diff and snapshots (`bl/graph/diff.py`, `snapshot.py`) | `graph_snapshots` | diff against a git ref or a snapshot, compare snapshots | renames, equal keys, what a loader would make of it | a diff describes the change and nothing else |
| federation (`bl/graph/federation/`) | exports of services | export, reconcile, landscape gate, foreign references | order of exports, same node in two services, lifecycle | verdict independent of order |
| contracts (`bl/graph/contracts.py`, `amqp_body.py`, `asyncapi.py`, `graphql_*.py`, `sdl.py`) | none | parse surfaces, compare, breaking changes | variance of inputs and outputs | what breaks a consumer is reported |
| doc audit and surfaces (`bl/doc_sync/audit.py`, `scanner.py`, `surface.py`) | `reference_state` | facts against docs, surface fingerprints | what a baseline was taken over | reference docs go stale when their surface moves |
| gate (`bl/application/gate.py`) | none | `ci`: reindex, lint, sync-check, docs-audit, config-check, doctor | order and aggregation; the tree changes between checks | green only if every blocking step is |
| bead table (`bl/application/active_table.py`, `bl/services/bd_seam.py`, `bl/services/mcp_server.py`) | ACTIVE.md, the tracker's beads | scaffold, flip a status, reconcile with `bd`, `complete_bead` behind the gate | hand edits, calls that die between file and tracker | the table agrees with `bd` after a sync that touches nothing else |
| config sync, agent roles (`bl/onboarding/config_sync.py`, `flow_config.py`, `role_*.py`, `agentic_flow_setup.py`, `ai_techwriter_setup.py`) | generated adapter files | compose, write, check for drift | local edits of generated files | drift is reported, user text survives |
| debt report, doctor, status (`bl/application/`) | metric history | score, trend, checks | missing baselines | monotone in the findings |
| site generator and dashboard (`bl/application/site*.py`, `site_dashboard/`) | Markdown and JSON pages, metric history | render | history append | pages show the database |
| onboarding (`bl/onboarding/scanner/`, `doc_generator.py`, `presets.py`) | scaffolded files | scan, bootstrap, import, generate docs | re-runs over user edits | does not overwrite |
| SQLite layer, health, git activity (`bl/infrastructure/`) | the database | schema, migrations, queries | migrations cut short or run twice at once | no row is lost in an upgrade |
| CLI, TUI, C4 views, VitePress site | none of their own | argument parsing, display | - | not modelled |

How they interact: files on disk and `.beadloom/_graph` are read by the reindex, which fills
the tables; `sync-check` reads the ledger and the disk and writes the ledger;
`sync-update`, the MCP `mark_synced` tool and the tech-writer's sessions mark rows;
the gate and the tech-writer run the other commands as subprocesses; the MCP server
serves bundles built from the tables through the two-level cache and starts reindexes itself;
the watcher starts them on file events. All share one SQLite database and the working tree,
and nothing else.

## Modules

### SyncState - the freshness ledger

One state holds the files on disk (`diskDoc`, `diskCode`), the version each index row was
read from (`idxDoc`, `idxCode`), the `sync_state` table (`rows`, a function from pairs of
doc and code file to the four hashes and the status) and the pairs an interactive
`sync-update` has captured (`session`). A version of a file stands for its content and its
hash. `Annotated` maps a content to the annotations found in it, so that a code edit may
change a body, the symbol set, the nodes a file belongs to, or all of them.

| action | code |
|---|---|
| `EditDoc`, `EditCode` | an author, at any time |
| `FullReindex`, `IncrementalReindex` | `reindex`, `incremental_reindex` as one step: index, snapshot of baselines, rebuild of `sync_state` |
| `CheckSync` | `check_sync`: every row, including the baselines it writes (engine.py:170-184) and the status; the nodes its coverage phases report are an arbitrary set |
| `MarkSyncedByRef` | `mark_synced_by_ref`: one transaction, rolled back when a file is missing |
| `StartUpdate`, `MarkCaptured`, `SkipDoc`, `AbortUpdate` | interactive `sync-update`: check, editor per doc, mark per captured pair |

`lastRow` in a rebuild is the row of a node that `preserved_symbols` read last: the table has
no ORDER BY, so any row may win.

Properties: `LedgerMirrorsIndex` (one row per indexed pair, none without a symbols baseline),
`MarkedStaysFresh` (no check, reindex or other mark makes a marked pair's file hashes drift),
`DriftSurvives` (two-phase detection: code drift outlives checks and reindexes),
`SymbolBaselineKept` (only a mark moves the symbols baseline of a node whose rows agree).

### Reindex - the pipelines, commit by commit

Every commit of the full and of the incremental pipeline is an action, `pc` names the next
one. Rows are what they were built from: the version of the file and, for a doc, the
version of the graph that named its node, for code, the installed grammars. A run can `Crash`
between any two commits, or end early because a file has gone or the database refuses a row
(`Refuse`); files change between runs, or also during one (`EditsDuringRun`).

| actions | code |
|---|---|
| `DropSyncState` ... `DropNodes` | `_drop_all_tables`: one commit per table, `file_index` is not among them |
| `LoadGraph`, `IndexDocs`, `IndexCode`, `IndexImports`, `BuildLedger` | the phases of `reindex` |
| `PopulateFileIndex`, `StoreFingerprint` | `_populate_file_index` from a second scan, `_store_parser_fingerprint` in a transaction of its own |
| `FallBack`, `NothingChanged`, `BeginIncremental` | the early returns of `incremental_reindex` |
| `IndexFile`, `StoreRoutes`, `RebuildIncremental`, `UpdateFileIndex` | the incremental path; changed files before added ones, one commit per file, the deletions with the first |

Properties: `QuietRunIsCurrent` (without failures and edits in mid-run, after any history of
edits every successful run leaves what a build from scratch gives), `FullRunRepairs` (with
them, an undisturbed full run still does), `BaselineKept` (the baseline of a pair lives in
memory only while the table is dropped, and comes back), `RunCanProceed` (an incremental run
is never stopped by the database).

### TechWriter and SequentialRepair - one run of the AI tech-writer

`TechWriter` follows `run_harness` from discovery to publication. The pool is the point: the
main thread submits a session while fewer than `window` are pending, folds the oldest one in
scope order, and compares the totals folded so far with the caps, while the sessions
(`work[r]`, one action per statement that other processes can interleave with) edit,
re-baseline and re-check their docs. An agent may change the drift of any doc; a
`sync-update` clears its node or fails to. Rate limits, sessions that raise, an unreadable
drift report, every failing git command and the best-effort backfill of the review's URL are
actions.

`SequentialRepair` is the abstract specification of the repair phase: one doc after the
other, each by a session that knows all totals before it. `ImplementsSequential` is the
refinement, with `left <- pending \o queue`.

Properties: `UnflaggedIsClean` (an unflagged run has an edit for every doc it started on and
left nothing stale, whatever the sessions did to each other's docs), `TurnsBounded` (the turn
cap is overrun by the other sessions of one window at most), `PublishedIsHonest` (what
reaches the remote is the finished run's verdict), `RunEnds`.

### SymbolScope - which docs the tech-writer looks at

With a `--since` baseline `narrow_by_changed_symbols` keeps a stale node when its doc names a
symbol that changed, or when the change cannot be attributed; any other node is re-baselined
unseen (`Keep`, `Drop`, one node per step). The attribution itself is what is hard, and is
modelled line by line: `Alignments` are the diffs between two files, each the pairs of equal lines it
keeps, in order (git looks for a short one and does not promise the shortest, so any is possible),
`ChangedLines` the lines the hunk headers of `git diff --unified=0` report of a side (`Span`: a side
without lines reports the line before the hunk), `SymbolRange` the lines a `def` or `class` is taken to own, blank lines
trimmed, `PairChangedSymbols` the symbols hit on either side. A file is a sequence of
lines of four kinds; a doc is the set of names in it. A node with a non-Python code file is
kept like one with other drift reasons, and is one of those here.

Properties: `AttributionComplete` (compared with the lines of a definition before and after,
no changed symbol is lost), `NeverUnderRefresh` (violated, see below).

### BundleCache - context bundles, two caches, several processes

The tables, the dictionary of each MCP server (`l1`), the `bundle_cache` table (`l2`) and the files
with the newest mtimes under `.beadloom/_graph` and `docs`. `work[p]` says where a server or the
command line stands. Time advances with every edit and the version of a part of the index is
the time of its last change, so that mtimes, tags and `last_reindex_at` compare as in the code.
A bundle is the versions it was built from.

| action | code |
|---|---|
| `Save`, `RemoveFile` | authors, at any time; what `_dir_mtime` sees of it |
| `Call` | `_call_tool` up to the stale check, `_is_index_stale` |
| `NothingChanged`, `Scan`, `Index`, `Stamp` | a reindex, in a server or by `CliReindex`: the diff against `file_index`; tables and `DELETE FROM bundle_cache`; `last_reindex_at` |
| `HitL1`, `MissL1`, `HitL2`, `MissL2`, `Build`, `Store` | `get_context` and `get_graph` in `_dispatch_tool` |
| `UpdateNode`, `MarkSynced` | the two write tools |
| `Ctx`, `HitCtx`, `StoreCtx` | `beadloom ctx`: L2 only, and no stale check |
| `Restart` | a server process ends and comes back, in mid-call too |

Properties: `ServedIsFresh` (a server's answer shows the last edit an mtime told of),
`RowsAreCurrent` (an L2 row is what would be built now, but for the docs' statuses). The history variable `noticed`
excludes what no mtime tells: removals, restored files, and edits that land during a reindex
(before the time it is stamped with) or between the stale check of a call and its reading of
the tag. The last two are windows the code has; `ServedIsFresh` without them fails.

### Federation, GraphqlBreaking and AmqpBody - the hub

`Federation` is `beadloom federate` from the arguments to the exit code: the loops of
`aggregate_exports` over exports and edges element by element (what is folded in which order is
the point), classification, the sweep that overwrites verdicts, the gate. An export is a record
of repo, landscape, nodes and edges; endpoints are namespaced already, and the sources of edges are
left out since no verdict depends on them. A contract payload has a name for its whole key, and
its surface: names, typed fields, at most one body. Protocols that are not reconciled are one,
"other".

| action | code |
|---|---|
| `TooFew`, `RejectFailOn`, `Unreadable`, `Start` | `federate`, `_parse_fail_on`, `_load_export_artifacts` |
| `AddNodes`, `AddEdges`, `AssignVerdict`, `NextLoop` | the loops of `aggregate_exports` and `_assign_verdicts` |
| `Reconcile`, `ClassifyAll` | `reconcile_contracts`, edge by edge, and `classify` |
| `MarkUndeclared` | `_mark_undeclared` |
| `Gate` | `gate_failures` and the exit code; the artifact is always written before |

`GraphqlBreaking` and `AmqpBody` are the two comparisons, each next to what it should mean,
defined without regard to the code: the values a GraphQL type admits (`Values`), the messages a
schema admits (`Messages`) and those a reader can read (`Readable`). A body is a function from paths
to schemas (`IsBody`), so what the code does at a schema it reaches by recursion is said of the path
that leads there: `Diff` holds where the recursion arrives (nothing above breaks, and no array in
an array lies on the way), `DiffNode` where it reports.

Properties: `VerdictsAreOwn` = `OrderFree` (what the loop has folded edge by edge is what the declarations say together
in any order of the edges, as long as nobody on one side of a contract contradicts another) and `ProductsApart` (a product is told what it would be told
alone); `VerdictsAreTrue` = `GateFailsForBreaks` (the default gate fails exactly for the breaks of live edges and
contracts, computed from the exports anew) and `LiveVerdictsAgree` (the edge sweep and the contract
verdict say the same of live contracts); `SurfacesAreUsable` = `ConfirmedIsReadable` (as far as types
are known and arrays not nested) and `TypedBreakIsReal` (verdicts against the meaning of surfaces); `VerdictsNeverContradict` (violated, see below).

### CycleSearch, RuleFile and ArchLint - the architecture linter

`CycleSearch` is the depth-first search of the cycle rule, one action per start node and per popped
frame. The frames on the stack are their paths; those of greatest length are siblings in the order of
rows that no ORDER BY fixes, so any of them may be next.

`RuleFile` is the loader of `rules.yml`: the nine rule types from the mapping of their keys, the matchers, the
schema versions, what is refused and what gets a default, and the rows `_load_rules_into_db` makes. One
malformed rule refuses the file: `Refused` ends a lint with exit code 2, and a reindex goes on with an empty table.

`ArchLint` extends both with what the search and the evaluators run on. Imports are resolved (an annotation of the
target's first symbol, else the innermost source directory, scan path by scan path) and turned
into edges by a full reindex only; an incremental one refreshes annotations. Paths are sequences of names, a
prefix is a prefix, and an import is the sequence of its dotted parts. All nine rule types are evaluated.

| action | code |
|---|---|
| `EditCode`, `EditGraph` | authors, between commands |
| `FullReindex` | `reindex`: what it does to `code_symbols`, `code_imports`, `edges` |
| `Lint` | `beadloom lint` with and without `--no-reindex`: the rules file loaded or refused, up to the cycle rule |
| `EvaluateCycles` | `evaluate_cycle_rules`, by the actions of `CycleSearch` |
| `Report` | the other evaluators, each a set of violations, and the exit code (`Green`) |

Properties: `EveryCycleFound`, `CyclesAreReal` (a cycle is its set of edges: each of at most
`MaxDepth` nodes is reported, without a lead-in), `GreenMeansClean` (when imports, annotations and
edges are those of the code and the YAML, a green lint means that dependencies between nodes, computed from
directories and import statements alone, are acyclic, go down the layers, cross no denied
boundary and fit the sizes, as far as the file asks for it as an error; a node with the tags of two layers and a
module annotated with several nodes are nowhere in particular, and a deny rule that exempts `depends_on` asks
for nothing, since every import becomes such an edge), `NothingInvented` (over an index that lags behind, what
a lint says of dependencies was true at the last full reindex, or is declared, and no cycle is said twice).

### Watch - several reindexers on one database

`beadloom watch`, the terminal UI with its watcher thread, and one reindex from elsewhere, on one
database and one working tree. A run is taken at the commits the others can see, in `Step(p)`; `Reindex` has
its pipeline phase by phase. `fileIdx` is the recorded hashes, `cache` what the UI's providers
last read, `badge` and `posted` its badge and the message the watcher thread has sent it.

| action | code |
|---|---|
| `Edit` | an author, at any time; every watch that covers the file collects it |
| `WatchBatch` | one batch of `watch`: `_filter_relevant`, a full run when a graph file is in it |
| `Step(p)` | `Clear`, `Load`, `Stamp` (full); `IndexFile`, `Finish`, `UpdateFileIndex` (incremental); `Raise` (what nothing catches) |
| `PressR`, `RunIncremental`, `RunFull` | `action_reindex`, the reindex commands |
| `_watch_loop`, `on_reindex_needed` | watcher thread to event loop, which a running reindex blocks |

A file has *slipped* when its recorded hash is not that of the content its rows were built
from: edited between the reading and the hashing of a full run, read by an incremental run after its scan
saw another version, or committed by a run that then failed. Nothing but another edit makes an
incremental run look at it again. Properties: `BadgeCoversDrift` (a clear badge tells the truth,
however edits, batches, messages and runs interleaved, unless a file slipped),
`ChangesAreIndexed` (a change a watch covers is indexed in the end, also one that falls into a running
reindex, or the file slipped, or the watch has died).

### GraphFiles - the YAML graph, its loader and its writers

Files are shapes ("ok", "syntax", "edges", "torn") with sequences of nodes and edges;
`load_graph` is a function from the files to the tables and its complaints. The writers are
processes of their own, one per command, each reading, changing and replacing one file.

| action | code |
|---|---|
| `update_node_in_yaml`, `link`, `_patch_docs_field` | the reading half of the three writers, up to the temporary file |
| `Flush`, `Fsync`, `Replace`, `Kill` | `write_yaml_atomic`, step by step, and a kill at any of them |
| `UpdateTable` | the MCP tool's update of the row, and its answer |
| `Reload` | `load_graph` of a reindex |
| `AuthorEdits`, `PowerFailure` | any file replaced; unsynced content may be cut short |

Properties: `GraphNeverTorn`, `UpdateReachesTheLoadedNode` (with several nodes of one ref_id, what
`update_node` answered for is what every later load puts into the table), `NothingSilentlyDropped`
(what the files say is loaded or complained about, item by item).

### Migration - an index of an earlier release

The SQL of `create_schema` statement by statement: `ensure_schema_migrations` builds the script of
each stage from what it finds, and each statement commits on its own. Two processes call it, in any
interleaving, and may be killed (`create_schema`, `Statement`, `Stage`, `Return`, `Killed`). SQLite is external: what
RENAME does to foreign keys and what DROP does under enforced ones is part of the model, since that
is what the pragmas round a rebuild are for. Properties: `UpgradeKeepsRows` (one undisturbed call from
every earlier schema), `RowsNeverDestroyed` (every interruption and overlap).

### GraphHistory - "has the architecture changed since ...?"

Three comparisons (`diff` against a ref, against a snapshot, between snapshots) and the reference
documents that watch coarse surfaces (graph, CLI, flow.yml), over one graph that is edited,
committed and indexed. A graph is its files, each with nodes and edges in order and all that
`load_graph` stores of them: `loaded_graph` keeps the first of two entries and every field
(`AsStored`), `_parse_yaml_content` the last and some (`AsRead`).

| action | code |
|---|---|
| `EditGraph`, `Commit`, `EditWatches`, `EditFlow`, `NewRelease` | authors and git; `NewRelease` changes the CLI |
| `reindex`, `incremental_reindex` | what both do to the graph, to snapshots and to `reference_state` |
| `save_snapshot`, `check_reference_drift` | the commands |
| `sync_update`, `_mark_synced_noninteractive` | the attestation of one document |

Properties: `SurfaceDriftKept` (drift is reported exactly while a surface differs from when the document was last
attested), `ComparisonsAgree`: `DiffTellsWhatLoads` (what `diff` does not mention is loaded alike in the fields `diff` is to
compare, what it says of a node is so) and `ThreeWaysAgree` (from a snapshot of the commit to the tables of today the
three commands differ only where they are to: in sources, tags, nodes without a source, and edges that waited for an end).
That lifecycles, other keys and contracts are loaded and compared by none is outside it and listed below. An explicit `source: null` and entries without ref_id or ends are not modelled here (`GraphFiles` has them); an edge
into another repository is one whose end is no node.

### GraphReads - bounded answers

`bfs_subgraph`, behind `ctx` and `graph`, and the two trees of `why`, one focus node (`Seed`), one node
(`Expand`) and one neighbour (`Look`) at a time, rows in any order; beside the answer the rules that
`_collect_constraints` and `_active_rules_for_node` list, read from the rules table `RuleFile` fills.
Property `AnswersAreWhole`: `NearestFirst` (every node is listed at its distance from the question, as
walks along the rows define it; one within the depth is missing only at the cap, and then no farther one
is in; a tree hangs each node under one it is joined to), `EdgesOfTheInnerNodes` (a bundle that leaves
nothing out has all of them) and `RulesOfTheNodesListed` (every rule the linter may apply to a node is listed).

### AgentConfig - agent files as code

A file is a text with an author: the user, or a release of Beadloom with the facts and the flow it
was generated from. A project is a function from files to texts.

| action | code |
|---|---|
| `SetupRules`, `SetupMcp`, `SetupAgenticFlow`, `SetupAiTechwriter`, `Init_` | the commands, with and without `--force` |
| `ConfigCheckFix` | `config-check --fix`: five steps in order (`FixStep`), cut short after any of them |
| `WritesProse`, `ChangesGenerated`, `WritesFlow`, `FactsChange`, `Upgrade` | users, the project, a new release |

Properties: `FixConverges` (after two complete fixes nothing drifts but what `--fix` does not own: an invalid `flow.yml`
and a stale `.cursorrules` of a project without `.cursor`), `ProseIsSafe` (what users write beside generated
regions survives every command without `--force`, and never trips the check). Each file is written at once in the model; the code
truncates and writes AGENTS.md and CLAUDE.md in place (`write_text`), so a kill in the middle of one write can lose prose, which
`ProseIsSafe` does not cover.

### Bootstrap - from a directory tree to a graph

`bootstrap_project` over a tree that changes between calls: scan, preset, clusters and children,
import scan, generated rules; then `Loaded` and `Violations`, which are the loader and the linter.
Names of directories are sanitized to ref_ids, which may collide with each other, with the joined name of a child and with
the project's (`Sanitized`, `ChildRef`). An import is whatever its file mentions; the caps on files and edges only take
edges away, which is another tree without those imports.
Property `BootstrapIsSound`: every edge binds, and a graph with clusters passes its own rules.

### BeadTable - beads, their table and the gate

`bd` holds the state of the beads, ACTIVE.md repeats it. Calls run side by side and are a sequence of
steps (`call[p].at`); `bd` may fail or be missing; a call may die (`Die`) between any two.

| action | code |
|---|---|
| `task_init`, `_bd_create_bead`, `dep_add` | the scaffold: docs, beads, dependencies |
| `complete_bead`, `_run_test_suite`, `run_ci_gate`, `_bd_show`, `bd_close` | tests and gate before the close; the gate's checks one by one, the tree changes between them |
| `checkpoint`, `comments_add`, `_append_active_note` | the note in tracker and file |
| `ReadTable`, `_set_bead_table_status` | read, flip one row, write back: two steps |
| `active_sync`, `_has_active_table`, `_query_bd_statuses`, `ReadActive`, `reconcile_active_tables`, `_active_sync_check` | the reconciliation, and its check mode |
| `BdUpdate`, `EditTable`, `EditTree` | people |

Properties: `SyncAgrees` (after an undisturbed sync every Status cell agrees with `bd`, whatever died before),
`SyncTouchesOnlyDrift`, `HonestVerdict` (a check that failed all through a call keeps it from passing, and a FAIL names
only checks that did fail in it).

### DocAudit - numbers in the docs

Which pages are audited, which words of a line the scanner takes for a number, keyword or modifier,
which fact a number is tied to, how each fact is collected (from manifests, from the last index,
from the running release), tolerances, exclusions and extra facts of the configuration, usable or not. `EditDoc`,
`Develop` and `reindex` move docs, project and index apart. Property `FalseClaimsFound`: with a current
index every plain claim outside its tolerance is reported and fails gate and `--fail-if`, unless
a rule excuses just that number or the configuration replaces the fact. A claim is plain when its keyword comes right after the
number, or is the only one of its line and no more than five words off, the edge of the scanner's window.

## Runs

Components that share no state are checked in one run where one question covers them (`MCIndexCrashes`,
`MCServed`, `MCGateSteps`, `MCProjectState`): a variable `part`, chosen in the initial state, says whose behaviour it
is, and the others rest in a state in which their properties have nothing to look at.

| run | instance | shows |
|---|---|---|
| `sync_two_codes` | one node, one doc, two code files, two contents each, files that come and go | the rows of a node share one symbols hash and row order is arbitrary; the ledger stays whole, drift survives, marks and baselines hold |
| `sync_check_clears` | one pair | counterexample to SPEC.md "the engine never silently marks a stale doc fresh" |
| `reindex_quiet` | two docs, one code file, two contents, two graphs, two grammar sets, no failures | the incremental path skips only what is current |
| `reindex_full` | one doc, one code file, two graphs, edits in mid-run, two failures; or six earlier schemas and an empty database, two callers, three calls, one kill | a full run repairs everything; an upgrade keeps every row |
| `reindex_crash` | one doc, one code file, one failure | counterexample to SPEC.md "Re-running reindex resolves this" |
| `techwriter_run` | two or three docs; one session with caps of two, or two sessions with caps out of reach | budget, verdicts, publication, termination, refinement |
| `served` | two servers, the command line, one node, two edits, processes taking turns; or families of federate command lines: edges of every lifecycle to every kind of target, three satellites, two products and one message, pairs and triples of bodies, names and typed fields | what others are told is fresh, and follows from what was declared |
| `gate_steps` | three nodes, eight trees of code, three graphs, two rules files; or four projects, three configurations, five pages; or one node and every two different Python files of up to three lines with every minimal diff between them; or two agents, two calls, four beads, tables of three and four columns | the steps on which a bead closes: lint, audit, attribution of a diff, tests and gate, table |
| `watch` | a graph file, a doc both watches cover; three edits, two runs, runs taking turns | the badge, and that changes are indexed |
| `project_state` | two graph files with duplicate ids and misshapen edges, three writers and two writes, one fault; every sequence of two user steps and one other command over agent files, two releases; trees of up to two names under three source directories, one of which is also the ref_id of a child, twice; graphs, three edits, two snapshots, two reference docs; every set of edges of a small graph and every question of a list | what commands write into a project and read back |
| `scope_missed` | the attribution with one line | counterexample to "it never under-refreshes" |
| `federation_contradict` | the federation part of `served` | counterexample to SPEC.md "never contradict" |

Bounds and why they are enough. Hashes are compared for equality only, so two contents
distinguish "as the baseline" from "changed"; the two of `sync_two_codes` also differ in their
symbols. Two rows per node are the least that can share a baseline; a file annotated with two
nodes is left to the proofs, which cover all four properties of that run. In `Reindex` every table is
handled per file, so one file of each kind meets every branch; the second doc in
`reindex_quiet` lets an added and a changed file be in one run, whose order matters. Two
failures allow one during the repair of another. In `Migration` a second caller is the least that overlaps, one kill
between any two statements leaves every partial schema, and the third call is the undisturbed one after
them. In `TechWriter`, three docs in a window of two
let a session be submitted while another still runs; retries are left out there (one session per
doc) and checked with two docs, which keeps the state space below a million
(`MCSpec`). In `SymbolScope` three lines let a definition, a line of
its body and what follows it be edited, moved, inserted or deleted apart from each other, and
let blank lines lie between them; a second name is a bystander, whose lines change by being written or moved only. In `BundleCache` two edits are the least with
which a reindex can be behind again, and `Overlap = FALSE` keeps processes (not authors) from
working at the same time. In `Federation` a satellite has one edge with a contract, or two edges
where lifecycles of dependencies are tried; three satellites let one come between the two others in the
folding and two products meet by name; types have one list level, and bodies two levels, with arrays of scalars and
of objects, which is every branch of the two comparisons. The computation is sequential, so what
varies is its input; `MCInit` tries arguments of `--fail-on` other than the default without
contracts only. In `ArchLint` three nodes are the
least with a cycle longer than a pair and a lead-in to one, each pair of them can come to depend on the other by an
import or by a declaration, and one directory lies in another; annotations agree with
directories there, since an annotation that does not overrides the directory for the target of an import but
not for its origin. In `Watch` three edits let one fall before, into and after a run, and give a file its first
content back; `TakeTurns` lets a run begin only when no other is going, since two at once can leave an
index that incremental runs do not repair (below). In `GraphFiles` two writes are enough for one to replace what another
has read, and one fault for a kill or a power failure at any step. In `AgentConfig` two user steps and one other command before the
fixes meet every order of "generated, edited, generated again" that one region tells apart; the stack is
{"python"}. In `BeadTable` two calls overlap and one outside step disturbs either; at first no check fails, or lint and
doctor do, and lint and the tests can break or be repaired, so that one fails behind another and one fails only for a while. In `DocAudit` two steps are an edit or development and an index run after it or
before; one text has its keyword at the edge of the window, with a version in backticks between. In `GraphHistory` three edits
and two snapshots are the least for a change, its commit and its reversal, compared with tables that lag; its graphs give a node
without a source, one twice, lifecycles, other keys, contracts and an edge without its end. In `ArchLint` the depth is the number of
nodes, so that the cut-off below it rests on `EveryCycle`; the overrun of a tight budget by a window of sessions rests on
`TurnsAlwaysBounded`. `MaxCost` bounds the tokens of one agent run. Symmetry is used where the permuted values are
interchangeable, and in no run with a liveness property: contents of the doc in `sync_two_codes`, servers in `served`, agents
in `gate_steps`. Deadlock is not checked where
the system may stop: when a bounded number of failures, calls or edits is used up, when a run is refused for
good, and when a tech-writer run, a federation or an answer has ended.

Fairness. `RunEnds` needs `WF_vars(Next)` of the whole program. The main thread, the
pool's threads and the subprocesses they wait for are scheduled by the operating system, and
an agent ends by its own `--max-turns`; a hung subprocess is outside the model
(`GooseAgentRunner.run` sets no timeout). Weak fairness on `Next` is enough because every cycle in
the harness is counted: attempts, tries under a rate limit, fixpoint rounds. `ChangesAreIndexed` needs
`WF_vars(Step(p))` for every run that was started, and weak fairness of `WatchBatch`, `_watch_loop` and `on_reindex_needed`:
a started run goes on, watchfiles delivers what it has collected, and both loops take it. Nothing obliges anybody to edit,
to press `r` or to start another reindex.

## Where code and documentation disagree

Runs marked "counterexample" above, each with the quoted sentence in `PROJECT.json`:

- `check_sync` takes the code on disk as the new baseline whenever the doc has changed since
  the last recorded edit, so a check that reports a pair stale can be followed by one that
  reports it fresh with nothing done in between.
- A full reindex that dies after the drops leaves `file_index` in place: the next default run
  finds nothing changed and returns over emptied tables.
- The narrowing looks for a doc at the project root, but the paths in a drift report are
  relative to `docs/`. It finds no text, so no doc names any symbol, and every node whose
  change is attributable is re-baselined without being looked at.
- The undeclared sweep does not look at lifecycles: a planned or dead AMQP producer without
  consumers has an expected or dead contract and an undeclared edge, and the default gate fails for it.

Met while modelling, without a run of their own: `doc_hash_at_last_edit` is filled by
`check_sync` only, so until the first check after the first reindex every reindex takes changed
code as the baseline (CHANGELOG: "preventing `reindex` from masking stale documentation"); only the
reindex a server starts itself clears its in-memory cache, so that after `beadloom reindex`, or a
reindex by another server, it answers "Context unchanged since last request" with bundles of the
index before (docs/architecture.md:184: "Cleared on reindex"); an incremental run that dies after inserting an
added doc makes every later one insert it again, which `docs.path` UNIQUE refuses, so that
re-running does not resolve it (`RunCanProceed` with a failure); `mark_synced` takes the symbols hash from an index
that may be older than the files it hashes, so the next reindex can report the marked pair
stale; the incremental path never refreshes `code_imports`; an edit between indexing
and the second scan of a full run is recorded as indexed; a crash between the drop and the
rebuild of `sync_state` (full.py:93) loses every baseline, of every pair; with several sessions and tight caps the
tech-writer is not "IDENTICAL to the sequential behaviour" (runner.py:241): a session
submitted before another is folded sees totals that are too low. `TurnsBounded` says by how much,
and `ImplementsSequential` is therefore checked, and proved, with one session or with caps out of reach. Of a
node with several docs only the first stale pair's doc path reaches the narrowing and the
agent's context (`read_doc` has the same path error); `_block_end` counts a decorator of the
next definition, and module-level statements, as lines of the previous symbol, so an edit of
these alone is not the "ambiguous" case its docstring names; of a name defined twice in a file
only the last definition is attributed. With two processes at work at once a bundle built before
a reindex can be stored in L2 after it (`ServedIsFresh` with `Overlap = TRUE`); L1 is filled before
the L2 row is written, so a call that fails there is followed by "Use previous bundle" for a
bundle that was never sent; `mark_synced` clears neither cache; both caches look at `docs`
whatever `docs_dir` the configuration names.

Of the linter: `lint` and the gate run an incremental reindex "to ensure the database is fresh"
(linter.py:82; gate.py:155 "so the gate runs against current code"), but imports are those of the
last full one: a forbidden import goes unseen and a removed one stays reported until then
(`GreenMeansClean` without `Fresh`); `lint --no-reindex` reads annotations of an earlier run beside them; an edge that the YAML declares as planned hides the import that
has made it real from the cycle and layer rules; a deny rule with `unless_edge: depends_on` never
fires when annotation and directory of the importing file agree, because the import itself has become that
edge; an annotation is looked up as the ref_id `kind:value` for the target of an import and
as `value` for its origin, so each works for one way of naming nodes only; a node with two layer tags is in
the layer that the iteration of a set yields first; modules with fewer symbols than
`min_symbols` are skipped by the coverage rule, those with none are not.

Of the hub: of two different bodies, or types of one field, declared on the same side of a
contract the last one in the order of artifacts is compared, so verdict and gate then depend on
that order (`OrderFree` without `OneSurface`; tests/test_federate_f2_gate.py:334 claims
"input-order irrelevant"); an explicit edge into another repo of the same product makes its
key common to all products, so that unrelated ones meet (SPEC.md:188); an array in an array is
not compared; args the producer has removed are not reported; the name references of an untyped
consumer are ignored when another consumer is typed; the type of the body itself is not compared.

Of watching: both watchers reindex or tell, but neither can help a file that has slipped; a run that fails among the files
has committed part of them and the next edit back to the recorded content hides that; an exception ends
`watch`, and the UI with its watcher; `watch` knows neither the configured scan paths nor some extensions that are
indexed, and the UI's directories are fixed when it is mounted; `r` on another screen clears the badge of the dashboard
but redraws its own screen only; `action_save_snapshot` says "Snapshot saved" and saves nothing; two runs at once can
leave rows no incremental run repairs, though tui/app.py:108 says "WAL mode - safe for concurrent access" (there with an em dash;
`TakeTurns = FALSE`).

Of graph files: two writers, or a writer and an author, lose an update between read and rename; a file whose `edges` is not
a list is skipped by the loader and still edited by `update_node` and `link`; a broken file that sorts before the right one makes them
fail; of two nodes of one ref_id the first hides the second even when its null kind keeps it out of the table.

Of migrations: each statement commits. A kill (or another process's CREATE TABLE IF NOT EXISTS) between a rename
and the copy back leaves an empty table of today's shape and the rows in `*_old`; the next call finds nothing to migrate and an
incremental reindex nothing changed, though db.py calls the stages "Safe to call multiple times and on a partially-created
schema". The rows survive in the copies only, until a full reindex. Two overlapping calls can make one of them raise.

Of comparisons: `sync-update --check` on a reference document re-baselines it (docs: status only); a diff
against a snapshot reports every node without a source as changed, also when nothing changed: its NULL is read as "None" in
the snapshot and as "" in the tables (diff.py:318, 332; graph-diff/SPEC.md:47: "The same comparison logic applies"); `diff` compares the last of two nodes of one ref_id where
the loader takes the first; it lists files in subdirectories at the ref but not on disk; lifecycles, keys
other than tags, and contracts are not compared at all, so that a node that goes from active to planned is no change; an annotation that is removed and comes back across an index run forgets its document's drift.

Of bounded answers: at the cap the remaining edges of the node are passed over, so that two nodes of an answer may be
joined by an edge it does not show; `graph` counts unknown ref_ids towards the cap; `ctx` lists deny and require rules only;
after an invalid `rules.yml` the rules table is empty and `bead_context` raises.

Of rules files: lint drops what `validate_rules` warns of, so a rule with a misspelt ref_id enforces nothing and says nothing; nobody
calls `load_rules_with_tags`, so the `tags:` block of schema version 3 is never applied; a tag in the `for` of an
unregistered-feature rule is ignored; a check on a node whose source is a file counts nothing.

Of agent files: one `config-check --fix` may leave drift that a second repairs; any file of a user's that names "beadloom" counts
as an adapter of Beadloom's and is overwritten by `setup-rules`; flags of `setup-agentic-flow` are not saved, so the next fix takes them back; it
rewrites hand-edited role files also without `--force` (its help: "default: preserve them"); `init --bootstrap` overwrites
`services.yml` and `config.yml` without `--force`.

Of bootstrap: clusters are keyed by their bare directory name, and one named like the project becomes a second node of that name, of
which the loader keeps the root; without clusters each source directory becomes a domain without a parent, so that the graph fails the rules
generated with it (tests/test_bootstrap_clean_lint.py:3: "must pass `beadloom lint --strict` with zero violations").

Of beads: `set_active_table_status` writes into the last cell of a row, which in a table of four columns is not the
status (active_table.py:83); scaffolded beads carry no `epic:` token, so no later call flips their row; failed
`dep add` calls are ignored; a `task_init` that fails half-way leaves its beads, and a second one makes them again;
two whole-file rewrites lose one of the notes; a test suite that times out raises instead of failing.

Of the doc audit: in a project anywhere below a directory called venv, .venv, node_modules or __pycache__ no page is audited, so that
every claim passes; counts below 10 are never checked; every version in the docs is compared with the project's own; `docs audit`
on its own compares with the last index run; the "rule type" fact counts rules; an ignore path is a suffix of any path; an
unclosed fence hides the rest of the page; a dynamic `pyproject` version that cannot be resolved falls through to
`package.json`.

## Proofs

| theorem | statement | argument |
|---|---|---|
| `SyncStateProofs!TypeCorrect`, `LedgerCorrect` | `[]TypeOK`, `[]LedgerMirrorsIndex` | inductive with `TypeOK`; the rebuild lemma shows a kept symbols baseline is never empty |
| `SyncStateProofs!MarkedFresh` | `[]MarkedStaysFresh` | `MarkedBaselines`: a marked row carries the hashes of the disk and its last-edit hash is the doc's, so a check leaves it alone and a rebuild takes either branch to the same hashes |
| `SyncStateProofs!DriftAlwaysSurvives`, `SymbolBaselineAlwaysKept` | the two action properties | step by step from `TypeOK` and `LedgerMirrorsIndex` |
| `ReindexProofs!TypeCorrect` | `[]TypeOK` | with `GraphStored`: an incremental run has a graph in `file_index` |
| `ReindexProofs!FullRunAlwaysRepairs` | `[]FullRunRepairs` | `FullStages`: what each phase has made current while nothing was edited stays current until the end of the run; holds with edits in mid-run and any number of failures |
| `ReindexProofs!BaselineAlwaysKept` | `MaxFailures = 0 => []BaselineKept` | `BaselineStages`: while the table is dropped the snapshot has the first baselines |
| `ReindexProofs!EveryQuietRunIsCurrent`, `RunsAlwaysProceed` | the two properties, without failures and edits in mid-run | `QuietStages`: `file_index` tells the truth about the rows between runs, and each stage of an incremental run accounts for the files still due |
| `TechWriterProofs!TypeCorrect` | `[]TypeOK` | one session record per node, fields one by one |
| `TechWriterProofs!TurnsAlwaysBounded` | `[]TurnsBounded` | `WindowBudget`: the totals folded since the i-th pending session was submitted are those of at most `window - i` sessions, and none uses more than `retries + 1` turns |
| `TechWriterProofs!UnflaggedAlwaysClean` | `[]UnflaggedIsClean` | `SessionsAccounted`: without a reason, sessions started = docs refreshed + pending; past the repair no session is left to change what the fixpoint saw |
| `TechWriterProofs!PublishedAlwaysHonest` | `[]PublishedIsHonest` | `HonestRecords`: no record exists before the verdict is final |
| `TechWriterProofs!WindowImplementsSequential` | `Spec => ImplementsSequential`, if every configuration has one session at a time or caps that no scope can reach (`SequentialOrAmple`) | `SessionsSawEnough`: a session begins no attempt at a cap as it saw it and ends for the reason it gives; it saw the totals it is folded into, or fewer while there is room for all docs left, so a sequential session might have ended the same. Folding is repairing the next doc, the end of the repair is `Finish`, what raises is `Raise`, every other step is a stutter |
| `ReindexProofs!RowsAreNeverDestroyed` | `[]RowsNeverDestroyed` of `Migration` | `MigrationInv`: every row of the earlier release is in a table that no script at work is about to drop, a copy is held by one caller only, and foreign keys are off wherever rows move; statement by statement, with what each caller has still to run |
| `ReindexProofs!UpgradesKeepRows` | `[]UpgradeKeepsRows` of `Migration` | `Undisturbed`: while no call is killed and none overlap, one caller is at work at most, and where it is in its script says where each table is: as the stages before it left it (`PastOf`), moved away, made anew or copied back. No statement of it raises, and the pragmas keep a rename and a drop to the one table |
| `ServedProofs!CachesAlwaysRight`, `ServedAlwaysFresh`, `RowsAlwaysCurrent` | `~Overlap => []` of `CacheInv`, `ServedIsFresh`, `RowsAreCurrent` | `CacheInv`: an edit that is noticed and not yet in the tables shows both in `file_index` and in the time of the last reindex; an L1 entry misses one only if its tag is older, an L2 row only if the tables do too; what a call holds at each stage is as new as its tag says |
| `ServedProofs!NothingReportedIffUnderstood` | no GraphQL break is reported exactly if `Understood`, for every field | `SatisfiesIsInclusion`: the comparison level by level is inclusion of the values admitted; results and args use it in opposite directions |
| `ServedProofs!VerdictsAlwaysTrue` | `[]VerdictsAreTrue` of `Federation`, for any artifacts | `FedPhases`, loop by loop: after n edges the entry of a group has the directions its n declarations have, and is active exactly if all of them are; classifying again changes no verdict; the sweep and the classification then ask the same of the same set |
| `ServedProofs!VerdictsAlwaysOwn` | `[]VerdictsAreOwn` of `Federation`, for any artifacts | `SumInv`: after n edges an entry is what its declarations among them say together, later bodies and types in the place of earlier ones (`Summed`); where each side has one voice that does not depend on places (`TogetherReordered`), and a product alone has the same declarations of a contract that no edge carries elsewhere |
| `ServedProofs!SurfacesAlwaysUsable` | `[]SurfacesAreUsable` of `Federation`, for any bodies and typed fields | of the places on a path where something breaks the first is reported (`NothingBreaks`), so where nothing is reported each place a message fills has the type the reader expects and none it requires is empty (`PassedIsReadable`); fields by `NothingReportedIffUnderstood`; verdicts by `SumInv` |
| `CycleSearchProofs!CyclesReal` | `[]CyclesAreReal` | frames are simple paths, so what their tip closes is a simple cycle |
| `CycleSearchProofs!EveryCycle` | `[]EveryCycleFound`, on every graph and for every depth | `Covered`: a rotation of at most `MaxDepth` nodes whose first node has been started from is recorded, in its normal form, or one of its prefixes is on the stack; a popped prefix is extended or closed, and equal normal forms have the same edges |
| `CycleSearchProofs!EveryCycleOnce` | `[]ReportedOnce` (a part of `NothingInvented`) | `OneEach`: no two reported cycles have one normal form; cycles of the same edges have one, as both start with the least node and each link says what comes next |
| `CycleSearchProofs!SilenceIsProof` | a search that is over, was deep enough and reported nothing leaves a graph whose nodes can be layered | from `EveryCycle`: the layer of a node is the length of the longest simple path to it, and no such path is longer than the number of nodes |
| `CycleSearchProofs!LintTellsTheTruth` | `[]NothingInvented` of `ArchLint`, if annotations stand in the directories of the nodes they name (`AnnotatedAtHome`) | `LintInv`: the tables are empty or as a full reindex has made them, the search runs over their live edges, and a report is of them; what an import is resolved to is then a node that a module it may denote lies in (`ResolvedHome`), as the deepest directory on a path is its innermost one (`PrefixesNest`) |
| `CycleSearchProofs!GreenIsClean` | `[]GreenMeansClean` of `ArchLint`, for finitely many nodes and modules, if `AnnotatedAtHome` and no import denotes modules of two nodes (`OneHome`) | what the author asks for is enforced (`AskedIsEnforced`: defaults, matchers, the refusals); an import whose module exists resolves to the node of its directory and becomes a live edge (`ResolvedRight`, `RealIsLive`); so a dependency that breaks a rule breaks it in the tables, rule by rule (`DenyClean`, `CheckClean`, `LayersClean`), and the search that found no cycle has ranked the live edges (`InvGivesLayers`); carried through the phases with `LintInv` |
| `CycleSearchProofs!ChangesAlwaysAttributed` | `[]AttributionComplete` of `SymbolScope`, for any files and any diff | a line that is not reported is kept, and so is, right after it, the next one (`UnreportedKept`, `RunKept`); so an unreported definition is kept with its whole block (`DefinitionKept`), no later one of its name is on the other side unreported, the two blocks are as long (`NotLonger`), and the definition ends in both at the same line (`NoSymbolLost`) |
| `WatchProofs!RowsAlwaysAsRecorded`, `BadgeAlwaysCoversDrift` | `TakeTurns => []` of `Inv`, `BadgeCoversDrift` | `Inv`: rows are those of the recorded hash but for files that slipped, each stage of a run has made its part of that true, and an edit that is not indexed is on its way to the badge, shown by it, in the scan of the run that is going, or read by the providers |
| `ProjectStateProofs!GraphIsNeverTorn` | `[]GraphNeverTorn` | `FilesInv`: writers carry whole files and rename them only when synced |
| `ProjectStateProofs!UpdateIsLoaded`, `NothingIsDropped` | `[]UpdateReachesTheLoadedNode`, `[]NothingSilentlyDropped` | `UpdateInv`: until somebody writes over it, the file a writer was acknowledged for has the new summary at the first node of the ref_id, and no earlier file has one; the load is a function of places, so its first node is the least place |
| `ProjectStateProofs!SurfaceDriftAlwaysKept` | `[]SurfaceDriftKept` | `RecordedIsAttested`: the row of a document holds the surfaces as they were attested |
| `ProjectStateProofs!ComparisonsAlwaysAgree` | `[]ComparisonsAgree` | `HistoryInv`: snapshots and tables are loads, and a load has one node of a ref_id; where no ref_id is given twice the first and the last node are one, so what is read and what is loaded of it correspond (`NodesReadAndLoaded`, `EdgesReadAndLoaded`), and the three comparisons are compared node by node and edge by edge |
| `ProjectStateProofs!BootstrapAlwaysSound` | `[]BootstrapIsSound` | what a bootstrap writes binds edge by edge, and every node of a graph with clusters has a parent |
| `ProjectStateProofs!FixAlwaysConverges`, `ProseAlwaysSafe` | `[]FixConverges`, `ProseIsSafe` of `AgentConfig` | `WellMade(project)` is inductive, command by command, each shown to change its own fields only and to keep the user's; `FixedOnce` says what one fix leaves, and that a scaffold or a `.cursor` it completed itself is all a second one finds |
| `ProjectStateProofs!AnswersAlwaysWhole` | `[]AnswersAreWhole` of `GraphReads` | `WalkInv`: levels grow along the queue by one at most, and a node off the queue has had every neighbour collected one level on at most, or was cut short at the cap (`Done`); so the first node of a walk that is not collected in time is one the cap cut off (`WalksAreFollowed`). `RulesListed` follows each matcher from the file through its row |
| `BeadTableProofs!VerdictAlwaysHonest` | `[]HonestVerdict` | `GateInv`: what failed all through a call and is asked for is among its findings once its step is behind, and findings did fail |
| `BeadTableProofs!SyncAlwaysAgrees`, `SyncTouchesDriftOnly` | `[]SyncAgrees`, `SyncTouchesOnlyDrift` | `CallsCarryTables` (what a call is about to write is a table with one head), `BeadsSound`, `SyncKnows` (a sync nobody disturbed holds the file and the statuses as they are); writing a cell moves no other and no column |
| `BeadTableProofs!FalseClaimsAlwaysFound` | `[]FalseClaimsFound` of `DocAudit` | `CountedIsNearest`: the keyword right after a number is the nearest one, and so is the only one of the line in the window; every plain claim is then a mention, no entry of the configuration that is not usable changes a fact or a tolerance, and the mentions can be counted |

The assumptions are those the modules name (`SyncConstants`, `ReindexConstants`, `MigrationConstants`,
`ScopesAssumption`, `ConfigsAssumption`, `CostAssumption`, `LeavesAssumption`,
`NodesAreOrdered`, `MaxDepthAssumption`, `LintConstants`, `OneCycleRule`, `NullIsNoWord`, `SourcesDiffer`,
`WatchConstants`, `CacheConstants`, `GraphConstants`, `HistoryConstants`, `BootstrapConstants`, `ReadConstants`,
`ScopeConstants`, `BeadConstants`, `AuditConstants`, `PayloadsAssumption`, `ExportsAssumption`): types of the
constants, no bound on their size. Three say more: a rules file has at most one cycle rule, of the searched depth, and one
layers rule (`OneCycleRule`; a lint makes one search here), a graph file that nobody has touched is not cut short
(`GraphConstants`), and an ACTIVE.md has
one table at the top with its status in the third column, or none (`Headed`, as `task_init` writes it).

`FullRunRepairs`, `BaselineKept` and `QuietRunIsCurrent` are about one reindexer. Several at once are `Watch`, whose badge is
proved right while runs take turns; two runs at once break it, as do two processes at work the freshness of bundles
(`TakeTurns = FALSE`, `Overlap = TRUE`, see above), so these two hypotheses cannot be dropped.

Only model-checked: `RunEnds` and `ChangesAreIndexed`, liveness under fairness, which needs ENABLED and is out of the
provers' reach. Every safety invariant and action property of a passing run is a theorem. The disagreements are
counterexamples and need no proof.

## Plan

1. `SyncState`, 2. `Reindex`, 3. `TechWriter` with `SequentialRepair` - done, with proofs.
4. `SymbolScope` - done, with the proof that attribution loses no symbol.
5. `BundleCache` - done, with its safety proof for processes that take turns; two at work at once are left.
6. `Federation` with `GraphqlBreaking` and `AmqpBody` - done, with the proofs of the comparisons, of the
   gate and of the verdicts for any artifacts.
7. `CycleSearch`, `RuleFile` and `ArchLint` - done, all nine rule types, with the proofs of the search and of what a lint reports and what its silence means.
8. What writes files and answers from the index: `GraphFiles`, `GraphHistory`, `BeadTable` with the gate, `AgentConfig`, `Bootstrap`,
   `Migration`, `DocAudit` and `GraphReads` - done, with proofs.
9. `Watch`: the watchers and the command line reindexing one database - done, with the proof of the badge.
10. Left: two processes at work at once on the caches and the index (`Overlap = TRUE`, `TakeTurns = FALSE`), whose
   counterexamples are described above and which the code would have to change for.

## Not modelled, and why

Extraction from source text (tree-sitter, regular expressions, the TypeScript aliases, contract
parsers), rendering (site, C4, CLI, TUI widgets) and generated doc skeletons read inputs and write outputs without state that another
step depends on; their results are inputs here. Queries and statistics (debt report, doctor, status, search, git activity) keep no
state either. Of modelled components: the selection of doc chunks for a bundle and fuzzy suggestions, edges made of code and search
tables in the reindex, `check_sync_since`, the coverage phases of `check_sync` (an arbitrary set of nodes here), building an export for the
hub, the context packet of the tech-writer and its CI files, presets and doc import of the onboarding. Two hazards are listed without a
property: routes and `touches_code` edges that the incremental path adds again and never removes (enrichment.py:149), and the bundle that a server
builds before and stores after another process's reindex (mcp_server.py:1368), which `Overlap = FALSE` keeps out of
`ServedIsFresh`. `PROJECT.json` lists every component with its status.
