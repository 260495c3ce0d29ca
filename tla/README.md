# Quackcess in TLA+

Quackcess is a desktop workspace for DuckDB projects: a `.qdb` archive holds a
manifest, a database and artifacts; a GTK shell edits *canvases* (graphs of
tables and joins that become SQL), a terminal inside the shell runs commands,
and an MCP server offers the same database to agents as tools.  This directory
specifies the parts of it that keep state, checks them with TLC on small
instances, and proves the main results with TLAPS for every value of the
constants.

Contents: [the system](#the-system) · [modules](#modules) · [runs](#runs) ·
[fairness](#fairness) · [proofs](#proofs) · [what the documents say and the code
does not do](#findings) · [not modelled](#not-modelled) · [plan](#plan) ·
[running](#running)

## The system

| component | state it keeps | operations | talks to | hard behaviour | what makes it correct |
|---|---|---|---|---|---|
| Canvas catalogue and service (`canvasservice`, `catalog/canvas.go`) | rows of `quackcess_canvases`: id, name, spec, version | create, rename, delete, save, find by name or id | the database | names are not unique, ids are derived from names with a bounded number of retries | a write touches one row and is counted by its version; a valid spec is never replaced by an invalid one |
| Canvas model (`query/canvas_model.go`) and SQL (`canvas_sql_bridge.go`, `query.go`, `sql.go`) | none: functions on a canvas | normalize, move, select fields, add/patch/delete edge, to query graph, to SQL | shell state, service | case folding differs between operations; acceptance by the editor and by the SQL generator are two different predicates | edits keep a canvas normal, and adding an edge can be undone up to an empty list where there was none; a canvas has SQL if it is a tree, however its tables are called |
| Shell state and command bus (`appstate`) | active canvas, saved and draft spec, dirty flag, validation, last result | one dispatch per button, shortcut and line | terminal, catalogue, console | the editor's picture is patched from the words of terminal commands | flag, message and saved spec describe the draft; the picture agrees with the catalogue |
| Terminal (`terminal`) | history (in the database), event console | `\canvas …`, `\vector …`, SQL, `\help` | service, vector service, query runner | splits lines differently from the bus | each command has one effect or reports an error |
| MCP event bus (`mcp/events.go`) | channels under a read-write lock | subscribe, cancel, publish | subscribers, tool calls | publishers run side by side, a subscriber may leave or not read | no send on a closed channel, nobody waits for a slow reader |
| MCP server, tools, artifact store (`mcp`) | artifacts in memory under a lock | `CallTool` with authorizer and deferred outcome event | bus, terminal, vector service | every request is a goroutine, handlers may panic | one story per call; the log is a sound account |
| Project archive (`project/pack.go`) | the `.qdb` file | create, open, read entry, upsert artifact by temporary file and rename | sessions | several processes, kills and failed writes | the archive is whole at every moment |
| Catalogue bootstrap (`db/db.go`) | schema version, tables, columns | ensure schema, migrate 1.0.0 | sessions | databases of every released version, and from anywhere, since `init --db` packs any file | an open database has the current version and tables; a listing of canvases that works is never lost |
| Sessions (`cmd/quackcess/main.go`) | the temporary copy of the database | default launch, init, open, work, close | archive, bootstrap | private copies, cleanup on every path; a launch that finds no workspace creates one, maybe beside another | nothing is lost but what an overtaken writer loses; nothing is left behind |
| Model installation (`cmd/quackcess/main.go`) | none; the provider's models | list, probe, download, look again | an embedding provider over HTTP | answers in several forms, at paths made from a URL, or none; downloads that outlive the request | "ready" is said of a model that is there; one that is there is found; rerunning succeeds in the end |
| Vector rebuild (`vector`) | vectors in a table, `last_indexed_at` of a field | read texts, decide, call provider, store, record | the database, a provider | statements without a transaction around them; other rebuilds and writers in between | a field that looks fresh has a vector for every text |
| Vector search and providers (`vector`) | none | top-k search, HTTP embedding | database, HTTP | floating point, I/O | – |
| GTK window (`ui/gtk`) | a projection of the shell state, selection, drag, line being drawn, editors | clicks, drags, keys, buttons | command bus | state that outlives the canvas it refers to | the window shows the draft that the next gesture changes; selection and editors are of that draft |
| Artifact index, reports (`project`, `report`) | none | parse and cross-check one archive snapshot | archive | ids unique per kind or across kinds | – |

How they interact: a user's click or line becomes one *dispatch* on the command
bus, which runs to completion on the GTK main loop; canvas commands go on to the
canvas service and from there to the database, and the bus patches the editor's
state when they return.  The vectorize command writes an artifact into the
archive afterwards.  In `quackcess mcp` there is no shell: every request is a
goroutine that may run vector rebuilds, and publishes events on the bus.  Two
processes meet only in the archive file, since each works on its own temporary
copy of the database.

## Modules

`PROJECT.json` maps every definition that models code to its lines.

### CanvasStore

The catalogue as one variable, `canvases`, from ids to rows.  A *spec* is the
canonical text of a valid canvas; `EmptySpec` is the text `CreateDraftCanvas`
stores.  Operators come in pairs, the effect and the condition under which the
service returns an error and writes nothing.  `FindByName` takes one row of
several with the same name without an order between them, so the lookup is a
choice.  The id sequence of a name (`canvas-<slug>`, `canvas-<slug>-1`, …) is the
constant `IdOf`.

### ShellWorkspace (on CanvasStore), VersionedCatalog

`ShellState`'s canvas fields and the terminal's canvas commands.  One dispatch is
one action.  Names of several words matter, because the terminal and the bus
split lines at blanks, and do so differently for save, rename and delete;
`OneWord` is the set of names without a blank.  `VersionedCatalog` is the
abstract specification: what the catalogue promises whoever writes to it.

### EventBus, McpServer (on EventBus)

The bus has one action for each round of `Publish`'s loop, so deliveries of
concurrent publishers interleave; the read lock is held by whoever has channels
left to visit, and `Subscribe` and `Cancel` wait for all of them.  A channel is
kept as its whole log with the number of events taken.  `McpServer` adds
`CallTool`: authorization, the start event, the handler, and the deferred
function that recovers a panic and publishes the outcome.

### CanvasModel

`NormalizeCanvasSpec` as a predicate, `Acceptable`, and an effect, `Normalize`; the
edits of `canvas_model.go` as actions that make a canvas and normalize it; and
`Compiles`, whether `QueryGraphFromCanvas` and `NormalizeGraph` can make SQL of it.
A canvas is a sequence of nodes and one of edges: the first node is the FROM
table and edges join in their order.  `Fold` is the lower case of a name, since
some operations compare names exactly and others fold them.  Positions, labels
and the aliases of fields decide nothing and are left out.  `listed` tells a list of
edges that is empty from none at all: the canonical text has `"edges":[]` for the one
and `"edges":null` for the other, and whether a draft is saved is told by its text.
(Nodes there always are, and the lists of a node have one form when they are empty, since
`MarshalCanvasSpec` normalizes what has been normalized before.)

### CanvasPanel (on CanvasModel)

The GTK window's own state on top of the draft: projection, selection, drag, the
node a line is drawn from, and the two editors.  A gesture reads the projection
and dispatches an edit to the draft; every handler ends in a refresh, or does not,
and that is what the properties are about.  What lies under the pointer is a
choice.

### ProjectSession

Two or more processes on one archive.  A process comes into being by a default
launch, which looks for the default workspace and creates it if there is none, by
`init`, which asks nothing and creates a project over whatever is there, or by
opening what it finds.  Then: extraction of the database, bootstrap and migration
(pure functions of a database), canvas work on the private copy, `UpsertArtifact`
entry by entry with its temporary file and rename, failures of every step, close,
and kills.  What `Create` packs is a database given by the user, one of `Seeds`, or
the `Fresh` one; it may come from anywhere, and `DatabaseAssumption` says of it only
what holds of any database.  A database has the columns of its canvases table, since
the version it states does not tell them: canvas work needs the columns its statements
name, and does nothing without them.  A killed process's leftover files have random names; no later
process meets them, so the model forgets them.

### ModelInstall, ProviderPaths

`runInstall` request by request: the lists at every candidate path in order, the
probe if no list can be had, the downloads at every candidate path, and the second
look.  The provider is outside and is described by what install can tell of it: how
each path answers, which paths start a download, whether it answers requests it does
not know.  Requests may be lost and downloads go on, break, or end after the client
has given up.  `ProviderPaths` has the functions that make the candidate paths from
the configured URL; the run's paths are assumed, and checked by TLC, to be what they
make of the default.

### VectorRebuild

`RebuildVectorWithFilter` statement by statement: read the field's record, read
the texts, read `MAX(updated_at)`, decide, build (the time is taken before the
provider is called), store, record.  Texts change and other rebuilds run between
any two of these.  An embedding is represented by the text it embeds.  Assumed of
the environment: whoever changes a text sets the row's `updated_at`, and rows and
fields are neither created nor deleted meanwhile.  `source_last_updated_at` is
left out: nothing is decided from it.

## Runs

| run | question | bounds, and why they are enough |
|---|---|---|
| `shell_workspace` | Does the editor's picture stay right whatever order of dispatches and typed commands? | three names competing for two ids, one of two words; two specs; versions up to 3. Two rows of one name, a taken id, a renamed active canvas, a deleted and re-created one and a draft that returns to the saved text all happen. |
| `new_canvas_is_invalid` | Is every stored canvas valid, as the documents claim? (It is not.) | as above |
| `mcp_events` | What is each subscriber told about each call? | two calls, all four kinds, two subscribers, one place in each buffer: the smallest buffer makes overflow and blocking as frequent as they can be |
| `mcp_calls` | Is the log an account of what reads can return, and does a call ever wait for a subscriber? | three calls on one artifact (a read needs two others to be wrong about), in every mixture of set, get and delete; one subscriber with one place who may stop reading |
| `project_session` | Is the archive whole once it is there, the copy current, its canvases listed as far as they can be, nothing lost but what an overtaken writer loses, no file left? | two processes, which may both launch into nothing, or one `init` over the other; two artifacts, one canvas, databases of every schema version, one of 1.1.0 with the canvases table of 1.0.0, and one migrated before that has an undated canvas. With two writers every overlap of two snapshots and two renames happens. |
| `canvases_lost_on_close`, `migrated_list_breaks` | Do the documents' claims about persistence and migration hold? (They do not.) | as above |
| `vector_rebuild` | Can a record left by an undisturbed whole rebuild be relied on, and do rebuilds that keep succeeding win in the end? | two rows, two texts, two rebuilds that may overlap, a clock up to 2 with a staleness window of 2: a change, a rebuild and a second change fit in |
| `filtered_looks_fresh` | Is a stale index always detected? (It is not.) | one rebuild, two rows |
| `canvas_model` | Does the draft stay canonical, can edits be undone, and which canvases have SQL? | up to three nodes and two edges; names that differ in case only; pasted canvases whose edges have ids that differ in case only, or none; canvases without edges in both writings. Two edges are enough for wrong order, wrong direction, a table joined twice and a detached one. |
| `canvas_panel` | Does the window keep to the draft? | five canvases that share node and edge ids, up to three nodes and three edges, so that a selection, a drag or a half-drawn line meets another canvas that has its ids, some of them, or none |
| `model_install` | Is "ready" true, is a model that is there found, and does rerunning succeed in the end? | the paths made of the default URL, and every provider that lists in one of four ways next to the endpoint and three at the root, with every set of download paths: in the code's loops a path is only ever first, a fallback, or the last |

`CHECK_DEADLOCK FALSE` is set only for the MCP server, which really stops when the
bounded number of requests has been served.

### What the properties say

* **Shell.** `DirtyIffDifferent`, `ValidationMatchesDraft`, `EmptyDraftIsClean`:
  five handlers maintain three redundant pieces of state, and they always agree.
  `SavedAgreement`: as long as the active name stands for one row, what the editor
  believes stored is stored (when two rows share the name, which a rename can
  bring about, nothing of the kind holds).  `CleanMeansStored`: a draft stops
  being unsaved only by being stored.  `ValidSpecsStayValid`,
  `DraftFollowsOnlyItsCanvas`, and `CatalogPromise`, the refinement.
* **MCP.** `NeverSendsOnClosed`, `EachCallTellsOneStory`,
  `AttentiveSubscribersMissNothing`, `ReadsAgreeWithTheLog`, `EveryCallReturns`.
* **Canvas.** `StaysNormal`: whether work is unsaved is told by comparing texts, so
  every edit must leave the text that parsing and writing it would give.
  `DeletingUndoesAdding`, although adding, normalizing and deleting compare ids in
  two ways: the canvas comes back as it was, except that a canvas without a list of
  edges then has an empty one, and so counts as changed.  `TreesCompile`: what a user
  has to draw to get SQL, for some order of the joins, is a tree that hangs from the
  first table, and nothing else.
  `TablesAreToldApart`, `SelectionNeverBreaks`.
* **Window.** `ShowsTheDraft`, `SelectionIsOnCanvas`, `EditorsAreCurrent`, and
  `LinesAreAccepted`: the id the window proposes for a line is one the draft takes.
* **Sessions.** `ArchiveStaysWhole`: at every moment there is no archive or a whole
  one, and one that is whole stays so, whoever creates, writes, fails or is killed;
  `OpenIsCurrent`: version and tables for every database, and canvases that can be
  listed, whatever work is done, where this program made their table;
  `OpeningMendsTheListing`: opening costs no database a listing that works, and gives one
  to every database without canvases and every one that is to be migrated from 1.0.0.
  What the two leave out does go wrong: see the third finding and the known limits.
  `OnlyOvertakenWritersLose` (the lost update
  of two writers, or of two launches, is what the code does; the property says that
  nothing else is ever lost), `NoLitter`.
* **Installation.** `ReadyMeansLoaded`: a well-answered download proves nothing, since
  a server that has no downloads may answer well; only a look does.
  `ServedModelIsFound`: no download is asked for, and no failure reported, of a model
  that is loaded and can be told from outside, on whichever path it is listed.
  `RerunsSucceed`, liveness: however many runs give up on a download, install
  succeeds in the end if it is run again and again and requests are answered.
* **Vectors.** `FreshMeansCovered` uses two history variables: `clean`, the whole
  rebuilds nobody disturbed so far, and `trusted`, whether the recorded time is
  theirs.  Without the condition the property is false (run
  `filtered_looks_fresh`).  `RepeatedBuildsConverge` is the liveness counterpart.

## Fairness

* `McpServer!FairSpec`: weak fairness of `Serve(c)` for each call.  A goroutine
  that can run is scheduled; a handler ends because the database answers and the
  embedding provider has a timeout.  Nothing is assumed of subscribers.
* `VectorRebuild!FairSpec`: weak fairness of the steps of each rebuild, for the
  same reasons; a step may be `Fail`.  That rebuilds are started and succeed is
  not assumed of the code: it is the premise of the property.

* `ModelInstall!FairSpec`: weak fairness of `Step`, one request and its answer (the
  HTTP client has a timeout, so a request ends), and of `DownloadEnds`, which may be
  an end in failure.  Nobody need run install again: that it is run again and again,
  and that requests are answered from some time on, are premises of the property.

The clock of `VectorRebuild` is bounded, so texts change only finitely often; "in
the end" means after the last change.

## Proofs

All theorems are about `Spec` with arbitrary constants that satisfy the named
assumptions of the modules.

* `ShellWorkspace_proofs` – `TypeCorrect`; `EditorConsistent`, from `EditorInv`,
  the conjunction of the type invariant and the three editor invariants: none of
  the three is inductive alone, since reverting makes `dirty` false and `valid`
  whatever the saved spec was, which only `EmptyDraftIsClean` and the type of
  `saved` tell (`DraftIsJudged` and `NothingIsUnsavedInAnEmptyDraft` state two of
  them by themselves).  The action properties `ImplementsCatalog`,
  `ValidStaysValid`, `CleanIsStored`, `AgreementIsKept` and `DraftIsFollowed` follow
  from these and from lemmas about the store's operators (`RenameEffect`,
  `SaveEffect`, …).  `SavedAgreement` has a condition, that the active name stands
  for one row; what makes it true is proved too: two canvases come to share a name
  only when one is renamed onto another (`RenamesAloneCollide`), so in a project
  whose names are unique, and as long as nobody does that, the editor is right
  about what is stored after every dispatch (`EditorIsRightAboutUniqueNames`).
* `McpServer_proofs` – `TypeCorrect`; `ClosedStaysSilent`, for which the inductive
  invariant adds that whoever is being published to is open and that no closed
  channel is: a publisher takes the open channels, and while it has any left,
  cancelling waits.  `AttentiveAreTold`: for a subscriber of a call's audience that
  is open and has lost nothing, the start is in its log or still on its way to it
  (`Informed`), and a call does nothing while anything of it is on its way.
  `CallsAreBounded`: each step of a call ends one of the stages it has left
  (`Stages`), a number known when it arrives, or leaves fewer channels to visit, and no
  step of anyone else gives it more.  What `EveryCallReturns` needs besides is fairness
  and that a step can always be taken.
* `McpLog_proofs` – `LogsTellOneStory` and `LogIsAnAccount`.  For the first, the
  inductive invariant `StoryInv` says that what a log has of a call is, in its order,
  a part of the call's `Story`, and that an event still being delivered is the last of
  its call's story and in no log it has yet to reach.  For the second, every step
  tells, begins a call or ends one (`StepKinds`).  What is in a log has happened
  (`LogInv`), so one call can only come to be seen to follow another while it is
  beginning (`NewlyBefore`); and so a write
  that a log shows after `w` has taken what `w` stored away for good, and what is
  missing although `w` stored it was deleted by a call no log shows before `w`
  (`ReadInv`).
* `ProjectSession_proofs` – `TypeCorrect`; `ArchiveIsWhole`, whose invariant says
  the same of the snapshot each writer copies from and of the database each
  session started with; `SchemaIsCurrent`, from `DatabaseAssumption` alone: the bootstrap
  gives any database the current version and every table, and if the canvases table is
  as this program declares it, no canvas work makes a row the listing cannot read;
  `ListingIsMended`, case by case of the version; `NothingIsLeft`, that the temporary files are
  a function of where each process is; `OvertakenAlone`, since a writer that nobody
  overtook has a snapshot that is still the archive.  `WorkStaysInTheCopy`: the
  database in the archive is replaced only by whoever creates a project, or by an
  overtaken writer who puts back the one it started from; so not just closing, as the
  finding below says, but no way for a session to end brings its canvases there.
* `ModelInstall_proofs` – `TypeCorrect`; `ReadyIsTrue`; `ServedIsFound`, whose
  invariant says that with a loaded model that can be told and no request lost, every
  path tried so far had no list and the search has not passed the one that shows it.
  `RunsAreBounded`: a run makes at most two rounds of list requests, one of pulls and
  two probes, and every request lowers what is left (`RequestsLeft`), whatever is
  answered or lost, so every run ends; that one of them succeeds is `RerunsSucceed`.
* `CanvasPanel_proofs` – `TypeCorrect`, `WindowShowsTheDraft`, `SelectionStays` and
  `EditorsStayCurrent`, all from `PanelInv`: projection and draft are one, the draft is
  normal, and selection and editors `Fit` it, which every refresh restores and every
  handler ends in; `DrawnLinesAreAccepted`, since a number no edge has, and none has in
  other letters, passes both comparisons of ids.  What is needed of the canvas comes
  from the theorems about `CanvasModel`, instantiated for the draft (`Proved`).
* `CanvasModel_proofs` – `TypeCorrect` and `DraftStaysNormal`, from the lemmas that
  what `Normalize` makes of an acceptable canvas is acceptable and a fixed point,
  and that every action ends in it; `NamesAreToldApart`, since each join declares
  one node's alias and the nodes' aliases were compared without regard to case;
  `SelectingIsSafe`, since a node of a normal canvas shows something exactly if it
  has fields.  `AddingCanBeUndone`: the new edge's id is no other's in any letters, so
  deleting takes away the last edge alone and the rest keep their order, and only the
  list itself stays where there was none.
  `EditsNeverFail`: selecting fields and deleting leave what normalization accepts, and
  a deletion has one outcome, since a finite set of places has one increasing
  enumeration (`OneOrder`).  `ExactlyTreesCompile`: in a tree a next join can always
  be found, the nodes joined so far being a proper part of what hangs from the first;
  and what was joined in turn is reached from the first node, each node by one edge.
  What needs an induction is argued by a least counterexample, because the library's
  induction theorems cannot be used here.  All seven use one invariant, `CanvasInv`.
* `VectorRebuild_proofs` – `TypeCorrect`; `FreshIsCovered`, with the inductive
  invariant `CoverInv`: recorded times are never ahead of the clock; an
  undisturbed rebuild has read the texts as they are, up to changes later than its
  time; and while the record is trusted every row whose text is not its vector's
  has changed after the recorded time or is about to be restored by the rebuild
  under way.  `CoverageLasts`: when no rebuild under way has texts older than the
  table's and none changes, that stays so, the first whole rebuild that stores its
  vectors covers the table, and whatever others begin, skip, record or fail to do
  leaves it covered.  That such a rebuild comes is the premise of
  `RepeatedBuildsConverge` and its fairness.

Every invariant and every action property of the runs is proved.  Only model-checked
are the liveness properties `EveryCallReturns`, `RepeatedBuildsConverge` and
`RerunsSucceed`, since fairness, and whether a step can be taken, are beyond the
prover; what each of them needs of the single steps is proved (`CallsAreBounded`,
`CoverageLasts`, `RunsAreBounded`).  What `ProviderPaths` makes of a URL is
only evaluated by TLC, for the default.  The theorems about bounded work, unique names, edits
that never fail and the packed database state more than any run does; TLC was asked
about each on a run's instance before it was proved.

## Findings

Where a document or a test says one thing and the code does another; each has a
run that TLC refutes, and `PROJECT.json` quotes the line.

1. A new canvas is stored with `{"nodes":[],"edges":[]}`, which `NormalizeCanvasSpec`
   refuses: it can be neither opened nor run (`new_canvas_is_invalid`).
2. What a session writes to the database goes to a temporary copy that is deleted
   when the session ends; nothing packs it back (`canvases_lost_on_close`).
3. A database migrated from schema 1.0.0 has `updated_at` without a default; the
   first canvas created in it makes listing canvases fail (`migrated_list_breaks`).
4. A rebuild restricted by a filter stamps the whole field, so rows outside the
   filter that were never embedded pass as fresh (`filtered_looks_fresh`).

### Known limits

What the models also show, and no document contradicts:

* A canvas whose name has a blank can be created and opened, and never saved: its
  save line is cut at the first blank (`SaveCanvasFails`).
* Opening a canvas from the explorer types its name after `\canvas`; of a canvas called
  `delete x` the line deletes the canvas `x`.
* Of two processes that write an artifact at once one loses its own; of two launches
  that find no workspace one replaces the other's; `init` replaces a project that is
  there.
* A canvas with an edge whose id is a numbered one in other letters (`Edge-1`) takes no
  drawn lines once that number is the next.
* A progress event of a rebuild names no request.
* A catalogue that states 1.1.0 but has the canvases table of 1.0.0, as
  `internal/db/db_bootstrap_contract_test.go:134` makes one, is stamped 1.2.0 without
  the columns the repositories name (`db.go:213`).  Its canvases can be neither listed,
  made nor changed, in this session or any later one: nothing looks at the columns again.
* Nor does any later bootstrap date the canvas that makes the listing of a migrated
  project fail (the third finding), should that project's database be packed again.
* A canvas stored with `"edges":null` counts as changed after an edge is added and
  deleted again: its text now has `"edges":[]`.

## Not modelled

* *GTK widgets, drawing, bridge, presenter and shell model*: layout and geometry, or
  calls passed on unchanged.
* *Event console and its visibility*: a bounded list for display and a flag that its
  two holders set in one step; no decision of the program reads either.
* *Query execution, history, vector search and providers, reports, SDK bridge*: one
  call each without state that lasts, floating point or I/O.  They appear in the
  models as steps that succeed or fail.
* *The MCP tools that only read*, tool registration and listing: each is one read
  between a call's start and its outcome, as `artifact.get` is; registration is over
  before the server runs.
* *Artifact index, report binding*: functions of one snapshot of the archive.  The
  charts and reports they bind are written by no command of the program, and the one
  kind that is written cannot meet the two ways in which the index and the reports ask
  for unique ids.
* *Catalogue of tables, columns, relationships and views*: no part of the running
  program uses more of it than the explorer's lists.
* *info, the build without GTK*: `info` prints, the build without GTK has no state.

Of details: rebuilds are modelled for tables with an `updated_at` column, a provider of
`ModelInstall` answers the probe with a vector only once the model is loaded, and events
are told apart by call, although a client may send no request id.

Assumed of what is typed: the words of a terminal line are separated by single
blanks, and SQL does not write the catalogue's own tables (nothing in the program
prevents it).

## Plan

The order in which the modules were written, by how much of the program's work rests
on them, and what could still be added.

| step | module | state |
|---|---|---|
| 1 | `CanvasStore`, `ShellWorkspace`, `VersionedCatalog` | checked; everything proved |
| 2 | `EventBus`, `McpServer` | checked; proved but for liveness, whose bounds on work are proved |
| 3 | `ProjectSession` | checked; everything proved |
| 4 | `VectorRebuild` | checked; proved but for liveness, whose steps are proved |
| 5 | `CanvasModel` | checked; everything proved |
| 6 | `CanvasPanel` | checked; everything proved |
| 7 | `ProviderPaths`, `ModelInstall` | checked; proved but for liveness, whose bounds on work are proved |
| 8 | the explorer's line for a canvas name, in `ShellWorkspace` | open: worth it once it is decided what such a name should do |
| 9 | artifact index, in `ProjectSession` | open: worth it once the program writes artifacts of two kinds |

## Running

From this directory, for a run of `PROJECT.json` with its module and configuration:

    tlc -workers 2 -config ShellWorkspace.cfg MCShellWorkspace
    tlapm ShellWorkspace_proofs.tla

Each passing run takes between a few seconds and about two minutes; the violation
runs end with the counterexample that shows the finding.
