# TLA+ models of Midgard

Midgard (libmidgard2, this repository) stores typed objects in an SQL database
through libgda. Many processes, and many threads of a process, work on one
database without a server between them. This directory models the parts where
that is hard: what the calls leave in the database when they interleave, fail
or stop half-way. Modules are checked with TLC on small instances; what
matters most is proved with TLAPS for all instances.

## 1. Inventory

| Component | State it keeps | Operations | Hard behaviour | Correct when |
|---|---|---|---|---|
| Objects (`midgard_object.c`, `midgard_dbobject.c`, `midgard_core_query.c`) | the class's table; the instance in memory; three static mutexes of the process | create, update, save, delete, purge, set_guid, lock, approve | two tables written without a transaction; check then insert; early returns with a mutex held; instances older than their record | every call returns; names stay unique; table and log agree |
| Repligard (`midgard_repligard.c`) | table `repligard`: the last action on each guid; the parameters of its UPDATE | create_object_info, update_object_info | parameters shared by all threads; 0 rows updated is not an error | every object has a record that tells its last action |
| Object factory (`midgard_schema_object_factory.c`) | none | get_object_by_guid, get_object_by_path, undelete | reads the log first and the table second | undelete restores; deleted and purged are told apart |
| Workspace tree (`midgard_workspace.c`, `midgard_core_workspace.c`) | table `midgard_workspace`; a copy of it in each connection | create, get_by_path, update, get_context | every check is made in a copy that may be old | a tree; a path names one workspace |
| Workspace contexts and manager (`midgard_workspace_context.c`, `_manager.c`) | path and id of a context | create (several workspaces), get_by_path, purge_content, move_content | several statements for one call | the whole path exists after TRUE |
| Content of workspaces (`midgard_query_select.c`, `midgard_object.c`) | copies of an object, one for each workspace | the view of a context, copy on update | UPDATE then INSERT; the largest id wins | a workspace shows the nearest copy, and changes only itself |
| Replicator (`midgard_replicator.c`, `midgard_core_object.c`) | none of its own; dates in the metadata | export, export_purged, import_object | packages late, twice, out of order; dates of a second | a newer state is never undone; links resolve |
| Locks and approvals (`midgard_object.c`, `midgard_metadata.c`) | columns of the metadata; flags the instance remembers | lock, unlock, is_locked, approve, unapprove | check then act, stale flags, whole rows written back | a mark is taken once and lost only knowingly |
| Object tree (`midgard_schema_object_tree.c`, `midgard_core_object_class.c`) | parent and up links | has_dependents, is_circular, is_in_tree, INTREE | check then move or delete; walks of many statements | no orphan and no circle but by a race; walks end and are right |
| Parameters (`midgard_object_parameter.c`, `midgard_collector.c`) | table `midgard_parameter`; a collector in each instance | get, set, delete, purge | the collector is older than the table | what was set is what is read |
| Attachments and blobs (`midgard_object_attachment.c`, `midgard_blob.c`) | table `midgard_attachment`; files | create, update, delete, purge with blobs | a row and a file, and a death between them | files and rows go together |
| Users (`midgard_user.c`, `midgard_connection.c`) | table `midgard_user`; current user and authstack; reference counts | create, update, get, delete, log_in, log_out, dispose | check then insert; references that log_in and log_out pass on | nothing freed is used; dispose ends |
| Execution pool (`midgard_execution_pool.c`) and jobs (`sql/midgard_sql_content_manager_job*.c`) | queue and threads; flags of a job; idle sources | push, execute, dispose | flags written by several threads; the last reference dropped while jobs wait | each push is answered; a job lives while used |
| Quota (`midgard_quota.c`) | table `quota` | check, add, subtract | check and change in several statements | the count is that of the stored objects |
| Storage (`midgard_storage.c`, `midgard_core_query.c`) | tables and columns; libgda's memory of them | create, update, create_base_storage | column by column, two installers, a death | TRUE means a whole table |
| Query builder (`query_builder.c`, `midgard_core_query_builder.c`) | constraints, groups, joins of one query | add_*, execute, count | a refused name leaves its joins; one builder used again | the SELECT means what was asked |
| Query select (`midgard_query_select.c` and its constraints) | joins, aliases of tables through executions | add_join, set_constraint, add_order, execute | aliases stay in shared storages | a column is taken from the right table |
| Connections and transactions (`midgard_connection.c`, `midgard_transaction.c`) | the libgda connection and who opened it; managers, log handlers and error callbacks | new, open, open_from_file, open_config, copy, reopen, close, dispose; begin, commit, rollback | copies share what they hold no reference to; bare pointers in callbacks; answers given too early | no pointer that is used leads to what is freed; TRUE means open |
| Query by columns (`sql/midgard_sql_query_*.c`) | columns, constraint, orders; results and their rows | add_*, execute, get_results, get_rows, get_columns, dispose | objects that share each other, dropped and executed in any order | each column has its table; what is in use is not freed, what was given does not change |
| Schema (`mgdschema.c`, `midgard_core_schema.c`) | types, properties, the registered classes | read_dir: read files, inherit, register, validate | files and types in no order; any error ends the program | a class is what its files say |
| Views (`midgard_core_views.c`, `midgard_view.c`) | property records that its statements overwrite; the view of the database | read_file, create, update, exists, delete | the view outlives the process, its class does not | a view shows what its file says |
| Configuration (`midgard_config.c`) | the fields; the blob directory | set, read_file, save_file, copy | keys that keep, fall back or are never read | what was saved is read |
| Values, class model, D-Bus | | conversions, notices | sequential | |

The parts meet in the database and in the process. A call of an object writes
the class's table, then Repligard; the replicator and the factory read both and
believe Repligard. Workspace calls write `midgard_workspace`, and every query
of an object reads the ids of its context from the connection's copy. Threads of
one process share the static mutexes and the prepared statements of a class;
processes share only the database. The hazards this makes, each with its
line, are in `PROJECT.json` under "hazards".

## 2. Modules

| Module | Models |
|---|---|
| `ObjectStore` | create, update, save, delete, purge, undelete and set_guid of one class, with Repligard, as threads of several processes run them |
| `MCObjectStore` | its instances: two threads in one process, two processes of one thread |
| `WorkspaceTree` | the table of workspaces, the copies of it, and create, get_by_path, get_context and update of workspaces and contexts |
| `MCWorkspaceTree` | its instance: two connections, two levels |
| `WorkspaceOverlay` | the promise of workspaces, with no word of tables: layers, the nearest one up the tree, a call changes its own |
| `WorkspaceContent` | the copies of an object in the workspaces of a tree, the query's join, create, update with its copy, delete, purge, the log of each workspace, purge_content and move_content |
| `MCWorkspaceContent` | its instance: two connections, one object, a workspace under another |
| `WorkspaceContentProofs` | its theorems, and that it implements `WorkspaceOverlay` |
| `Replicator`, `MCReplicator` | two databases and the packages between them: export, export_purged, import_object node by node, and the users who change objects on both sides |
| `ReplicatorProofs` | its theorems |
| `ObjectLock` | lock, unlock, is_locked, approve, unapprove, is_approved, and create, fetch, update and purge as far as they touch the marks |
| `Parameters` | parameters of an object with the collector of each instance |
| `Attachments` | attachments of an object with their files |
| `MCExtensions` | the instance of the last three: what is attached to an object |
| `ExtensionProofs` | their theorems |
| `ObjectTree`, `MCObjectTree` | up and parent links, the checks of update, delete and purge, is_in_tree and INTREE |
| `TreeProofs` | the theorems of both trees, `WorkspaceTree` and `ObjectTree` |
| `Users` | accounts, who is logged in where, and the references held on them |
| `Connections` | connection objects, what they open, share and free, and transactions |
| `MCUsers` | the instance of the last two |
| `SessionProofs` | their theorems |
| `ContentJobs` | jobs, the execution pool and the main loop |
| `SqlSelect` | a query by columns, its results and rows |
| `MCContentJobs` | the instance of the last two |
| `ContentJobsProofs` | the theorems of both |
| `QueryBuilder`, `QuerySelect` | the two query classes, on a database that does not change |
| `Queries` | the two side by side |
| `Schema` | reading a directory of schema files, to the classes |
| `Views` | reading a `<view>`, and the calls that make and remove the view |
| `MCSchema` | the directories and views that are read |
| `MCQueries` | the instance of the last six: the classes and what is asked of them |
| `QueriesProofs` | the theorems of `QueryBuilder`, `QuerySelect` and `Views` |
| `Quota` | the record of a class beside the calls that store and purge |
| `Storage` | making and completing tables, and the base storage |
| `Configuration` | configurations, and the key files they are read from and saved to |
| `MCPrefork` | the instance of `ObjectStore` and the last three for processes that have only the database and files in common |
| `ServerProofs` | the theorems of `ObjectStore`, `Quota`, `Storage` and `Configuration` |

The modules that share an MC module do not share state there: a variable of it (`side`,
`work`, `part`) says which of them a behaviour is of. They are together because they are run on the
same kind of instance and ask the same kind of question.

### ObjectStore

A step is one SQL statement, or the taking of a mutex with what precedes it.
`rows` is the class's table, a sequence of records for each guid, because
nothing in the schema makes a guid unique; `repl` is the actions Repligard holds
for it, in the same way. `obj` is the instance each thread works on, `pc` and
`call` its place in a call, `holder` the static mutexes of create, update and
delete, one set for each process. `params` are the two parameters of the UPDATE
of Repligard, which belong to the class and so to the process: `RecordGuid`,
`RecordAction` and `RecordWrite` are its three statements in C.

The columns of a record are what the properties tell apart: `place`, the pair of
parent and name that must be unique (`NoName` when the name is empty, which the
check skips), and `deleted`. A name check whose SELECT fails (`CheckUnheard`) is passed, as in
the code, where no model means no duplicate (`midgard_object.c:475`). Guids come from `Unused`: a guid no table and no
instance holds.

What goes wrong has actions of its own, each from the code's return value:
`CreateInsertFails` (INSERT's result is not tested for failure; reading the id back
is), `UpdateNothing` and `UpdateFails` (0 and -1 rows), `DeleteFails` (-1, while 0
rows is a success), `PurgeNothing` and `PurgeFails` (0 is an error, -1 is taken for
a success), `RecordFails`, `CreateRecordFails`, and `Crash`, which ends all the
threads of a process between any two statements and keeps what was written.

Three history variables let properties say when they hold. `unvouched` are
guids whose name no check speaks for: an UPDATE has rewritten them, or the check of their create was not answered, `torn` those a failure or crash has left between
the two tables, `tangled` those a second call wrote while the first had not
logged its own change. No action reads them, except that a guid in `torn` is not
handed out again.

### WorkspaceTree

A step is one SQL statement with the lookups made since the one before it.
`table` is `midgard_workspace` in the order of its ids; `model` is each connection's
copy, made by `midgard_core_workspace_list_all`. Lookups read the copy alone:
`IdOf` (by parent and name, the first row that matches), `Resolve` (by path, from
the top), `NamesTo` (from an id up to the top, in the order of the path), `NamedIn`
(within a context). Ids only grow, so a record's id is its place in `table`; no
workspace is ever removed, `_midgard_workspace_purge` returns FALSE.

`job` is a call of create_workspace with the `Element`s it has yet to make: one for
a workspace, one for each name of the path for a context. Each goes through
`InsertElement` (or `RefuseElement`, `SkipElement` when it is there already),
`ReadId`, where the id is looked up by parent and name in a fresh copy, and
`List`. `Update` covers both ways through `_midgard_workspace_update`: an instance
whose context can be found is compared with the workspace of that name in it and
never written; one without context is written. `renamed` is a history variable.

### WorkspaceOverlay and WorkspaceContent

`WorkspaceContent` takes the tree as a constant: `Up` gives each workspace a parent
with a smaller id, which is what `ParentsFirst` of `WorkspaceTree` proves of the table.
`copies` is the class's table by guid and `midgard_ws_id`, `repl` Repligard, which has
a record for each guid and workspace too. `scope` is what the connection was given by
`midgard_connection_set_workspace`: nothing yet, a `MidgardWorkspace` (its ids are 0 and
its own) or a `MidgardWorkspaceContext` (0, its own and all above: `ContextIds`).

`Found` is what a query returns: with no workspace set every live copy, otherwise the
live copies in the workspace `Largest` picks, as `__add_implicit_workspace_join` does with
`MAX(midgard_ws_id) ... GROUP BY guid`. A step of a call is one statement. An update is
`UpdateRow`, or `UpdateNothing` and then the `Insert`, `ReadId` and `RecordCreate` of a
create; `CreateAgain` is a create repeated after one that failed, which may be in another
workspace and may find its own record there. Failures are those of `ObjectStore`:
`InsertFails` goes on to read the id, `PurgeFails` goes on to log, delete takes 0 records
for a success. Callers are processes of one thread, so mutexes are left to
`ObjectStore`.

`sure` and `loose` are history variables: what a caller may still say of its last call
(nobody else has written its object in its workspace since), and the pairs of guid and
workspace that two callers wrote at the same time, that a broken call left between the
tables, or that the manager, who does not touch Repligard, has emptied or filled.

`WorkspaceOverlay` knows only the content each workspace has of its own (`own`), where
each caller works and what it holds. The refinement mapping takes `own` to the data of
the live records (`Layers`) and `mine` to guid and data of the instance (`Mine`).

### Replicator

A step is one call of the library, or one node of an import. `rows` is the table of each
site, `repl` the actions of Repligard's records, `inst` the instance a user works on (it may be
old when he exports it), `xmls` the packages, which are never used up: each may be delivered
late, again, or never. `State` is what the comparison of dates tells apart: which of the users'
changes the content is of (`edit`), `revised`, `deleted`, and whether the link was resolved.
Dates have the code's resolution: two changes in one second have one date, and a package of the
same second is refused. An import that deletes dates the row with the receiver's time.

### ObjectLock

`row` is the object's row with both marks, `inst` the instance of each caller: the columns, and
for each mark whether its flag was set in memory (`set`) and, as history, which change it has
`seen`. `call` is a call between its SELECT and its UPDATE. `Write` updates the two columns of a
mark in whatever row has the guid, none included; `UpdateRow` writes every column of an
instance. `user` is who is logged in with each caller.

### Parameters and Attachments

`Parameters` has one domain of one object: `params` the rows by id, `known` the collector of
each instance, filled at its first use and kept by set, never by delete_parameters. A failed
SELECT leaves it empty, as the code does. `set_parameter` is `SetParameter` (which asks the
collector), then `InsertParameter`, or `SelectParameter` and then `UpdateParameter` or
`DeleteParameter`.

`Attachments` has `atts`, the rows, and `files`, the locations the blob directory has a file
under. A location is invented by the first blob of an instance and reaches the row only with an
update of that instance. `RemoveBlob` and `PurgeNext` are the halves of removing one; `DieWorking` may
come between them, `MoveBlobdir` takes the directory away. `doubled` and `givenUp` are history: names
and files that only a race or an answer nobody looked at explains.

### ObjectTree

`folder` and `leaf` are tables (a row's up link and whether it is deleted), `move` and `removal` the
calls of writers between a check and its UPDATE or DELETE, each with what became `late` since the
check, `walk` and `listing` the calls of readers: is_in_tree goes up by a SELECT for each level,
INTREE goes down by one for each folder. `late` is history in all four. Ids are free: a folder, or a leaf, may be
put below an id that is nobody's yet, for `_is_circular` is the only check of a parent. Every SELECT may fail,
and each caller takes that in its own way: `_is_circular` and has_dependents as if there were nothing, is_in_tree by
staying at the id it had (`Above`), INTREE by listing nothing there (`Found`). `heard` and `last` are history of it.

### Users

`table` is `midgard_user`, `user` the instances in memory with the connection each is of,
`refs` their reference counts as GObject has them, `current` and `stack` the connection's
`priv->user` and `priv->authstack`. `phase` follows disposing: `DisposeUser` is one turn of the
loop that logs out whoever is current, `Finalize` frees the connection. `call` is a
create or an update between the check for the login and the write.

### Connections

`cnc` is the connection objects, `handle` the libgda connections in the order they were opened, with
who opened each, who closed it and whose error callback it carries (`heardBy`); `logs` is the
connections log handlers point to. A copy takes the original's handle and configuration without a
reference to either. What the code does with that is modelled as it is: open_config answers TRUE
when an earlier opening with the same configuration failed, and when another object that shares the
handle closed it; a copy says it is not connected until it is reopened; a freed original leaves its
copies with a freed handle; a sole copy that is freed leaves nobody listening, and copying twice leaves two;
struct_open_config leaks the old handle; a connection that was asked for a manager is never freed, for the
two hold references to each other. `set_loghandler` and copies of unopened connections are left out.

### SqlSelect

`sought` is what the application builds, `model` the executions that succeeded, `result` what was
given. References are counted as the code counts them, also where it errs: dispose takes a
reference to each column where it should give one back, get_columns and joins keep theirs, a second
get_rows keeps one for each row. A constraint made with an operator that is none is read through NULL
at execution (`error` "died"); an execution that fails keeps the earlier result; add_order always
answers FALSE; a column that is added later is among those of a result and not in its model. Signals are
left out, and with them that execution-end does not come after a column without a qualifier.

### Schema and Views

`Schema` follows midgard_schema_read_dir through its four walks: files are read, types take what
those they extend declare, types are registered, classes are validated. Each takes its next file or
type from a set in any order, for the code takes them from a directory or a hash table, and every g_error
is a step to "dead". Modelled as the code has it: the parent, up, primary, unique and metadata of the type
extended last replace the type's own, while its own table and properties come first; private and
unique are lost where a property is inherited; the children of a type are told from what types declare
themselves; two files that include each other stop the program, and directories among them are never
read (the test is inverted); only direct children of MidgardObject are validated. Left out are
types that extend each other in a circle, abstract types that extend, interfaces that extend classes,
links to abstract types, a second directory, and user values.

`Views` has one `<view>` (`decl`), the records its class keeps of the columns (`prophash`, `attr`),
and the view of the database (`shown`), which outlives the process. The statement is built once and kept
(`command`). Both building it and querying the view overwrite the records, which is where the code goes
wrong: the column of a view is taken over by a later property whose name is that of the column; a
metadata column names the view itself once it was queried, and then update_storage drops the view
and cannot make it again; without joins and constraints the statement ends in WHERE and the view is never
made; of constraints only the class is kept, and of joins their kind and classes, for that is what the database refuses a
view for (`OverTables`): a table that is not selected from, or one of the kinds the code lets through and SQL does not
know ("outer"); exists answers TRUE when the meta store cannot be read.

### Configuration

A configuration has the name of its database, the blob directory, which is made of it, and one more
field of a kind that `kind` chooses: those that keep what they had when the file has nothing, those
that fall back to a default, and so on (`ReadField`). `AuthType` is never read, copied, nor set to
anything but NULL.

### ContentJobs

`flags` are the four booleans of a job; every store to one of them is a step (`Store`), because
threads of the pool and the application's thread make them without a lock. `at` is where each
thread is and what it has still to store. `queue`, `idles` and `pool` are the GThreadPool's
queue, the idle sources of the main context and the states of the pool's finalizer. `Push`,
`Announce`, `Release` and `Dispatch` are where references are taken and dropped. The object
call inside a job is one step that may fail (`Work`).

### QueryBuilder and QuerySelect

`QueryBuilder` holds the private fields of a builder (`tables`, `constraints`, `reference`,
`joins`, groups, orders, bounds). Names of properties are sequences of tokens, and
`Follows` does what the code does on the way along one, before it knows whether the name is good.
`Selected` evaluates the statement that was built over the constant `Rows`, `Meant` evaluates
what the caller asked, call by call (`asked`), with no joins. Properties compare the two.

`QuerySelect` has the aliases of tables: the counter `tableid` of an executor that is never
reset, the alias each storage object keeps (`alias`), and the statement of the last execution
as the columns and targets with their aliases. A name of two tokens leads on by a parameter or attachment, whose
column is then selected from the joined table, or by a link: there the code changes the alias and leaves the column that of the link
itself ("misnamed"), whatever the second token is. Names of three tokens are left out.

### Quota and Storage

`Quota` has the sizes of the rows, the record of their class (`records`, `typeSize`), and the
call a writer is in (`duty`). The check before create and update reads the used size from a row
the answer does not have, so it is a limit for one object only, and is modelled so. A query of the limits that fails finds none, so the check may let
anything pass; and without a row that has a limit of the sitegroup (`Limit` 0) nothing is limited. Sizes are
unsigned: a difference below 0 is a large number (`UInt`).

`Storage` has the columns of one table that two classes share, and what each connection's meta
store remembers of them (`store`): it is read when the table is looked up and not refreshed by
ADD COLUMN. `task` is an installer's call with the columns it has still to add: metadata,
properties, workspace for create, and properties, metadata, workspace for update. A column that
is already there is an error, which fails the call for a column of metadata or workspace and is
passed over for a property.

## 3. Runs

| Run | Instance | Distinct states | Shows |
|---|---|---|---|
| `object_threaded` | 1 process, 2 threads, 2 guids, 3 calls, failures, crash | 0.5 M | `MutexDiscipline`, `CreatedNamesUnique`, `EveryRowRecorded` |
| `object_prefork` | 2 processes: objects (2 guids, 3 calls), quota (2 things, 4 calls), tables (2 classes, 3 calls), failures, crashes; or 2 configurations and a file, 5 calls | 1.9 M | `RecordAgrees`, `RecordsCount`, `TablesSettle`, `ReadsBack` |
| `object_progress` | 1 process, 2 threads, 2 guids, 2 calls, failures, crash, fair | 68 k | `CallsReturn` |
| `object_shared_statement` | 1 process, 2 threads, 4 calls | | violates `RecordsOwnGuid` |
| `workspace_tree` | 2 connections, 2 levels, 3 calls, failures | 1.2 M | `ParentsFirst`, `PathsAgree`, `ContextStands` |
| `workspace_content` | 2 connections, 1 object, workspaces 0, 1 and 2 under 1, 3 calls, failures, crash | 0.6 M | `OneCopy`, `LoggedWhereLive`, `UpdateShows`, `ImplementsOverlay` |
| `replicator` | 2 databases, a parent and its child, 3 edits, 2 seconds, 2 packages | 1.7 M | `GoneRecorded`, `LinksResolve`, `AppliedOnce`, `ImportsGoForward` |
| `object_tree` | 2 writers, 1 reader, 3 folders, 1 leaf, 4 calls, failing SELECTs, fair readers | 0.3 M | `ListsRight`, `AnswersRight`, `ChecksHold`, `WalksEnd` |
| `users` | 2 connections, 2 names, 1 account at first, 3 instances, 6 calls; or 3 connection objects and a transaction, 6 calls; fair dispose | 1.0 M | `StackHolds`, `PointersHold`, `OpenTells`, `DisposeEnds` |
| `content_jobs` | 1 job of any kind, 2 pool threads, 3 calls, fair; or a query on 5 columns, 3 calls that build it and 4 others | 1.1 M | `JobsHold`, `SelectsColumns`, `PushesAnswered` |
| `queries` | a database of all cases, 4 calls of a builder, 4 of a select; or some 4000 directories of schema files; or 600 views of 3 classes, 5 calls | 2.7 M | `StatementMeans`, `QueriesAnswer`, `SchemaMeans`, `ViewsShow` |
| `object_extensions` | 2 programs; 5 calls on marks, 3 on 2 parameters, or 3 on attachments | 0.3 M | `FreshAgrees`, `TakenOnce`, `LostUnseen`, `ParametersTell`, `AttachmentsKept`, `RemovingEnds` |

What they say of the code:

* **MutexDiscipline**: a mutex is held exactly by the thread between its lock and
  its unlock, over all early returns and gotos of create, update and delete.
* **CreatedNamesUnique**: the check for a name and the INSERT are two statements;
  the mutex of create is what keeps threads of one process apart. Not across
  processes, nor against an update, nor when the check's own SELECT fails, and the property does not say so.
* **EveryRowRecorded**: a stored object is in Repligard unless its create is on the
  way there or stopped in between.
* **RecordAgrees**: when calls neither overlap nor fail on a guid, what the log says
  last is what the table holds. It needs one thread in each process: with two,
  `object_shared_statement` shows how one thread's parameters end in
  the other's statement.
* **CallsReturn**: every call comes to an end.
* **RecordsCount**: between calls the quota record counts the stored objects, whoever
  stored and purged at the same time, unless a statement failed: an INSERT that fails leaves the
  record raised, and a DELETE that fails still counts off (-1 is not 0).
* **TablesSettle** (`TableWhole` and `AdminOnce`): a TRUE that found something to do stands for a whole table,
  and two installers who trip over each other's columns still finish it. Half a table stays only
  after a failure or a death; then the next create takes it for the whole one. Two
  administrators come only from two base storages at once.
* **ParentsFirst**: a workspace is stored after its parent and keeps it, in the table
  and in every copy, so the do-while walks of `midgard_core_workspace.c` end, and the
  largest id in a context is the deepest workspace.
* **PathsAgree**: what is found at a path has that path, duplicates and renames
  included.
* **ContextStands**: a context created with TRUE is found at its path, with its id, by
  everybody who lists the workspaces afterwards, even if others created the
  same workspaces at the same time: the first of two duplicates wins everywhere. (The id that a create reads back by
  parent and name may so be that of another's row; the code has nothing against it.)
* **ImplementsOverlay**: each statement is a step of the promise. A query finds the copy of
  the nearest workspace up the tree, though the code only takes the largest id, and a
  statement changes the content of the caller's own workspace and no other.
* **OneCopy**: UPDATE, then INSERT if it found nothing, makes no second record in a
  workspace, not even of an object that is deleted there; it does when two callers do it at
  the same time, which the property leaves out because the code has no defence.
* **LoggedWhereLive**: a delete or a purge in one workspace is not logged for the copies
  others have.
* **UpdateShows**: after a create or an update that returned TRUE its caller finds what it
  wrote, whatever copies lie above and below.
* **GoneRecorded**: over any deliveries, Repligard never calls a stored object purged, nor a gone one
  created or updated, though a re-created object has two records.
* **LinksResolve**: a child that comes before its parent is stored without the link, never with a
  link to nothing.
* **AppliedOnce**, **ImportsGoForward**: a package that was applied is refused when it comes again,
  and an unforced import never replaces a live object by an earlier state, whatever the order.
* **ListsRight**, **AnswersRight**: if no folder was written meanwhile, the readers' walks of many
  statements answer what the tree is. A failed SELECT can make a list shorter and never wrong; is_in_tree
  answers TRUE wrongly only of a folder that is asked about itself. **WalksEnd**: they end, unless they meet a circle or
  a folder that is not there, or from some time on no SELECT is answered: the loop of
  `midgard_schema_object_tree.c:45` has no other end.
* **ChecksHold** (`PairsRaced` and `LeftBehind`): two folders come to lie below each other, and something live is left below
  a removed folder, only if somebody wrote it after the check, the check failed, or one of the two was
  made when the other lay below its id already. (Longer circles the code lets
  through knowingly: `_is_circular` asks for direct children only. `NoCircle` says what that
  breaks and is not run.)
* **StackHolds** (`StackSound` and `ReferencesCover`), **DisposeEnds**: whatever log_in, log_out, delete and drop do, the
  current user is one of the stack, every instance in it is referenced, and dispose logs
  everybody out and ends.
* **PointersHold** (`CallbacksLive` and `HandlesOwned`): whichever of a connection, its copies and
  transactions goes first, a callback that can still come points to a connection that is there, and a
  libgda connection is freed with who opened it. What the code leaves dangling is named in the property:
  copies of a freed original, and what was opened over.
* **OpenTells**: what open answers is so when it answers; open_config has two exceptions.
* **ReadsBack**: a configuration that was saved is read as it was, in any order of sets, saves, copies and reads
  of several objects, but for keys that were empty and `AuthType`; and reading twice says the same, but for a blob
  directory that is made anew from the last one.
* **JobsHold** (`ReferencesFit` and `FlagsTell`), **PushesAnswered**: a job has exactly the references of those who will use
  it; when all have left it the flags tell how it went, even if several threads stored them;
  and each push is answered by an execution-end, also if the pool is dropped. FlagsTell excuses
  what the code gets wrong: an update that a pool thread finds invalid stays "running"
  (`..._job_update.c:97-104`), and a delete that fails in execute is stored as not failed
  (`..._job_delete.c:65`).
* **SelectsColumns**: every column is of the one table of its qualifier; a result keeps the rows it was
  given with, and nothing in use is freed, whatever is executed, added and dropped after.
* **StatementMeans**: the SELECT picks what was asked, among objects that have a row in every
  table any name has led to. **QueriesAnswer** (`AnswersRight` and `ColumnsResolve`): only attachments give an object twice, the
  count is that of the objects unless there are bounds or several joined rows, and a plain user
  who asks for users finds himself only; every column has the alias of one table, and the right one, also in
  later executions, if the storages are the executor's own. Of a link's property only the alias is right: the column is the
  link's own, which the linked table need not have (`midgard_core_query.c:2298-2313`), and the property says so.
* **SchemaMeans**: whatever order files and types are met in, the program stops only for a fault in the
  files, and a class is what they say of it.
* **ViewsShow**: a view shows the properties its file names, but for the columns that are taken over, and
  an answer of TRUE means it is there, unless the meta store could not be read.
* **FreshAgrees**, **TakenOnce**, **LostUnseen**: an instance is wrong about a mark only if somebody wrote the
  mark after it looked; so a lock is taken twice, or lost, only by who had not seen it.
* **ParametersTell** (`CollectorTells` and `SetShows`): an instance's collector tells what is stored of a name unless
  somebody wrote it since; and a set that answered TRUE is what everybody then reads.
* **AttachmentsKept**: two attachments of one name mean that two creates or updates raced; a file without a
  row, or a row without its file, means a death, a race, or a removal whose answer was ignored.
  **RemovingEnds**: removing ends, unless the blob directory is missing: then
  `midgard_core_object_parameters_purge_with_blob` goes round for ever
  (`midgard_object_parameter.c:666`, `continue` without counting on).

One run ends in a violation: `object_shared_statement`. Its finding quotes the comment it contradicts.
Other disagreements with a comment are stated as definitions in their modules, and are false of the
model; no run is kept for them: `PurgedIsLogged` (a delete through an old instance turns the purge
in the log into a delete), `UndeleteRestores` (undelete looks for a property "guid" the class
lacks), `CreatedAtPath` (a parent path that leads nowhere becomes the top), `UpdateAnswers` of
`WorkspaceTree` (an update that reads through NULL) and of `Users` (a failed UPDATE is answered
TRUE), `DeleteMarks` (a delete in a workspace that only shows a parent's copy marks nothing),
`NamesLocker` (a lock taken before create is nobody's), `PurgeIsFinal` (a package that comes after
the purge stores the object again), `FailureTold` and `AnsweredWhenGone` of `ContentJobs`.

**Bounds.** The `Max...Calls` constants bound the calls of all actors together. Two threads,
processes, connections or programs are enough for every hazard here: each is one call
coming between two statements of another. Three calls let two objects be stored and a third
call meet both, or create, delete and act on a stale instance; two guids let a name be
taken twice. For the workspaces, two levels give a parent, a child and a missing
parent; the third name is the empty one, and the path with it stands for every path that
is refused. For content, 0, 1 and 2 give a scope with a workspace above it and one below, and
0 is content in none; one object suffices, since no statement but the manager's is about two.
In `MCWorkspaceContent` an assumption compares `ContextIds` with the code's walk.
For the replicator, two seconds let dates be equal or different, three edits change the
object on both sides between two packages, and a parent with one child is every case of a link.
Three folders make a circle the check does not see, and four calls build a tree of two, start a
walk and move or make a folder under it. Six calls of users are a create, a log_in of three instances
and their leaving in any order. One job suffices, for jobs share nothing but the queue; two pool
threads and the application's are inside it at once. Four calls of a builder give a group with
two conditions, or a refused name, then an execution and a second condition. Five calls on marks
are two callers who both look, write and write back. Quota: limit 2 with sizes up to 3 lets
one object pass the limit and two reach it together. Storage: two classes with one property in common
and one of its own each, and a third call after two that raced. Three connection objects are an original,
its copy and the copy's copy. Two configurations and one file let one save what the other reads
and reads again. A query needs two columns of one table, one of another, one without a class's table and one
without a qualifier. The directories of `MCSchema` are all families of three types that extend,
link to and stand under each other in the ways the code tells apart; the views name every kind of column twice.
`Instances(t)` of `ObjectStore` (what an application does to an instance) is not counted
by `MaxCalls` but stops with it.

**Types.** Every module has a type invariant. The proofs of section 4 establish it where there are
any; the runs spend their time on other properties.

**Deadlock** is not checked: the calls are bounded, so every behaviour comes to a
state where all are idle and no more may be made. That no thread is stuck before that is what
`CallsReturn` and the other liveness properties say.

**Fairness** is weak and of steps the code's own scheduling takes. `FairSpec` of `ObjectStore` has it
of `Proceed(t)` for each thread: a thread inside a call that can take its next step takes it.
Waiting for a static mutex is a step that is enabled only
while it is free, so weak fairness alone would let others overtake for ever; with
the bound on calls they cannot, and no more is claimed. An application that calls
without end would need a fair mutex, which GLib does not promise. `ObjectTree` has it of a reader's
next SELECT, answered or not, `Attachments` of the next step of a removal, `Users` of the turns of dispose's loop,
`ContentJobs` of threads inside a job and of the main loop, which dispatches idle sources. Nothing
is assumed of crashes, of failures, or that anybody calls.

Each property has a mutant of the code, next to the definition it changes
(`CreateEnter_NoMutex`, `UpdateFails_KeepsMutex`, `IdOf_LastMatch`, ...), that TLC
finds with the run's own configuration.

## 4. Proofs

Of the 28 invariants the runs check, 27 are stated by a theorem, and so are all action properties. A proof is of one module's
specification, for every value of its constants that the module's assumptions allow, and of every
bound on calls; the MC modules only put specifications side by side.

`ServerProofs`, on `ObjectStore`, for every set of threads, processes, guids and places:

* `TypeInvariant`: `TypeOK`, together with `StepOK`, which says that the place of a thread tells
  which call it is in and that its instance has a guid once the check for it
  is passed. Without it the steps that index `rows` by the guid have no type.
* `MutexesDisciplined`: `MutexDiscipline` is inductive with those two.
* `RowsRecorded`: `EveryRowRecorded`, the same.
* `NamesUnique`: `CreatedNamesUnique` when there is one process. It is not inductive:
  a thread that has passed the check is about to insert. `NameStillFree` says that
  at `create_row` no other guid has the name, unless one of the two is `unvouched`; it stays
  true because no other thread can be inside create, by `MutexDiscipline`.
* `LogTellsTable`: `RecordAgrees` when no process has two threads (`OneThreadEach`; with two it is
  false, and `object_shared_statement` shows why). `AgreeOK` says what a call owes the log
  between its two statements: at a step of RECORD the table already has what the call is about to
  log, unless the guid is noted as torn or tangled, and the statement's parameters are the caller's own.

`TreeProofs`, on `WorkspaceTree`, for every set of connections, names and paths:

* `WorkspacesType` and `ParentsAreFirst`, from the invariant `WorkspacesOK`. `ParentsFirst`
  needs `Pending`: the instance a connection will write still has the parent of the
  record its guid names, so that `Update` rewrites a record with the parent it has;
  and a connection in the middle of a create has an element left. `ParentsKept` (no
  step takes a record away or gives it another parent) and `ModelsCopied` (a copy changes
  only to what the table is) are the two lemmas the rest follows from: a parent is found in
  a copy, a copy is never longer than the table, so the parent's id is below the new one.
* `PathsDoAgree`: the walks down (`Steps`) and up (`Names`) are recursive functions over a path and over ids.
  That they are what their equations say, and that the names of the k-th step are the first k
  elements of the path (`NamesOfSteps`), is shown by induction over numbers. The library's induction theorems
  cannot be used here; `AllNumbers` says the same of a set of numbers, by its least
  counterexample, and each induction is over the set of the numbers of which a statement holds.
* `ContextsStand`: until somebody renames a workspace, every copy is a beginning of the table
  (`TableGrows`), and what a beginning has at a path the whole has there too (`ResolveOfMore`): the
  first of two duplicates stays first. So `MakingOf` is inductive: of a context that is being made, the
  elements gone through are found at their part of the path in the connection's own copy, under the id
  the call has; an element is inserted below that, looked up below it, and found one
  element further (`ResolveOfAppend`).

On `ObjectTree`, for any writers and any trees:

* `TreeType`, and `ChecksAreKept`: `ChecksHold`. A writer that checked relies on what it found
  until it writes. `MovesChecked` and `RemovalsChecked` say what is left of that: what has become
  a child since is among what was written since (`late`), and `UpsMade` that a new folder has
  nothing below it yet. Each action of another writer changes one row and puts it in `late`.
* `AnswersAreRight`: `AnswersRight`. `Leads(f, t, n)` says that n steps up lead from f to t; there is one way
  up from each folder (`LeadsBy`, `LeadsToOne`), and whom one gets to at all one gets to in as many steps as
  there are folders, for a way that comes to a folder twice can leave out what is between (`LeadsShort`, by the
  pigeonhole principle), so `Ancestors`, which goes no further, misses nobody. A walk nobody disturbed has
  met neither the top nor the folder it was asked for in any step so far (`WalkTold`), and one of a
  failed SELECT is where it was.
* `ListsAreRight`: `ListsRight`. Of a listing nobody disturbed (`ListTold`): what is listed or still to list is
  below something listed before it; if it was always answered, what is below something listed comes after it or is
  still to list, and nothing comes twice unless the listing began in a circle. From a circle each
  folder has one below it that is on the circle too, so the last such in a list that ended would have
  none (`CircleGoesOn`). `Below` is a recursive function over the ids, and `BelowIs` says what it lists.

`WorkspaceContentProofs`, for every tree in which `Up[w] < w`, all callers and objects:

* `NearestFound`: the query finds what the promise shows. The ids of a scope lie on one
  chain to the top (`ChainOrder`: of two workspaces on a chain, the smaller id is above the
  other); so the largest id with a live record is the nearest (`LargestIsNearest`), and
  the walk of `get_context_ids` gives just that chain (`IdsAreReach`). No induction over the
  tree is needed: a chain is the least set closed under parents.
* `TypeInvariant`, for `TypeOK`.
* `OneCopyInWorkspace` and `UpdatesShow`, from `ContentOK`: `OneCopy` is not inductive,
  because after the UPDATE that found nothing another caller could insert. `CallOK` says that
  at `insert` the workspace still has no record, unless the history has noted the pair, and
  that a caller nobody has disturbed still has in the table what it wrote. `OthersOK` and
  `WriteKeepsOthers` say once why a statement of one caller cannot spoil that of another.
* `LiveIsLogged`: `LoggedWhereLive`, from `LogOK`: a pair of guid and workspace that has a live record has a log that says so
  (`PairLogged`), unless a call is at its log statement or the history notes the pair; and a call that is there
  finds the log and the copies as what it will write needs them (`WillLog`).
* `ContentImplementsOverlay`: `Spec => ImplementsOverlay`. Each
  action is shown to be a step of `WorkspaceOverlay` or to leave what it sees unchanged: reading
  by `NearestFound`, the statements by `LayerWritten` (one layer changes) and by what the
  records they write amount to (`LayerOfBoth`, `LayerOfOneMore`).

`ReplicatorProofs`, for any sites, guids, links between them, and packages that are lost, repeated and
reordered: `TypeInvariant`, `GoneAreRecorded`, `LinksAreResolved`, `ImportsApplyOnce` and
`ImportsNeverGoBack`, all from `ReplicaOK`. Its clauses say of every state there is, in a table, an
instance, a package or the rest of one, what it carries with it: the date of the change it is of
(`DatedIn`), and a link only to an object the site has a record of (`Sound`). `Clock` says that the
dates of changes grow and are not in the future. Then an import that the comparison of dates
lets through brings no earlier change, and one that was applied is not let through again.

`ContentJobsProofs`, for any jobs and any finite pool:

* `TypeInvariant`; `FlagsToldWell` and `ReferencesCounted`, and `JobsAreHeld` for both. Threads store flags without a
  lock, so nothing can be said of a flag while one is inside the job. What saves the flags is that a
  thread that stores "running" has still to store that it is not (`Owes`): when the last has left, the last
  stores of each say the same. References: each thread, queue place, idle source and holder
  of a job counts once (`CountOK`), and each action moves as many as it adds. Finiteness of the pool is needed to count.
* `SelectsColumnsRight`: `SelectsColumns`, for any columns, joins and calls, from `SqlInvariant`. Three things are added
  to what is stated: the query has gone on from the columns of its last execution (`GoneOn`), so a new result
  has at least those of its model; a result's rows have a reference for the array the application holds, and one for the
  result itself while it lives (`RowsOwned`), so its rows are dropped once and not before; and references are counted
  as sums over results, of which a call changes one (`Becoming`, `Giving`, `Dying`). The targets of a statement come, by
  induction over the columns and then over the joins, from the first column of each table and the
  first join of each qualifier (`FromColumns`, `FromJoins`).

`SessionProofs`, for any connections, accounts and instances:

* `TypeInvariant` and `StacksHold`, from `SessionOK`: the reference count of an instance covers the times it occurs in its
  connection's authstack, being current and being held; log_in and log_out move what they push and take
  out. `TwinsComeInRaces` (`TwinsRaced`, stated in `Users`; no run needs to check it), from `NamesOK`: the name a checked call is about to
  write is nobody's, unless the row that has it was written since.
* Of `Connections`: `ConnectionsType`, `PointersStay`, `OpeningsTell`, from `ObjectsOK`: a connection that
  points to a handle is its opener, or a copy that inherited it (`Points`, `Owned`); what
  was freed was of objects that are gone (`Buried`); who is called back is there (`Logged`, `Heard`).

And on `Quota`, `Storage` and `Configuration`, again in `ServerProofs`:

* `QuotaType` and `RecordsAreCounted`, for any writers and things: between statements the record is the number
  of stored things plus that of the writers who owe one (`Balance`), who have counted what
  they have not stored, or removed what they have not counted off.
* `StorageType` and `TablesAreLeftWhole`, for any installers, classes and fields: a table that is not whole is in somebody's
  hands who has the missing columns still to add (`Carried`), unless a statement failed or an
  installer died. It needs that no field has the name of a column of metadata or of workspaces: with
  such a field a class's table would never be whole, and the module assumes so.
* `ConfigurationType` and `SavedReadsBack`: `CfgOK` says for each kind of field what an object that was read
  from a file and not changed since has of it.

`ExtensionProofs`, for all programs, names, rows and any interleaving of statements:

* `TypeInvariant`, and that a call on its way has passed `Allowed`.
* `FreshInstances`: `FreshAgrees` is inductive with the types and `SeenBefore`: no instance has
  seen a mark later than it was written last.
* `SignersNamed`: a row or an instance names as locker or approver nobody who has not signed
  (`NamesSigner`), whatever old rows are written back.
* `MarkTakenOnce` and `MarksLostUnseen`: the action properties `TakenOnce` and `LostUnseen`,
  from the same invariant.
* `ParametersType` and `ParametersAreTold`, from `ParamsOK`: what a collector has that nobody wrote since is
  a row (`AllTell`), what a set answered is shown until somebody with an older collector writes the
  name (`AllShow`), and a call between its statements still knows the row it found (`TasksOK`).
* `AttachmentsType` and `AttachmentsStay`, from `AttsOK`: who looked for a name and found none knows all the
  rows that are older (`SeesRight`), so two live attachments have one name only where a race is noted
  (`OneLive`); a purge that is done with a file has removed it or given it up (`BlobsGone`); a
  file nobody names was given up (`OrphansKnown`).

`QueriesProofs`, on `Views`, `QueryBuilder` and `QuerySelect`:

* `ViewsRight`: `ViewsShow`, for any classes, any view of them and any calls. What the statement overwrites in
  the records of the columns is followed one column at a time (`ListedFits`, `BuiltFits`): until the statement is built each record is that
  of a declared property, and a column shows another property only if a later one has its name.
* `QueriesAnswerRight`: `QueriesAnswer`, for any rows and names. For the builder, `Fits` says what looking names up may have
  left: which tables are in FROM, whose guid is compared, and that a name with "parameter" made the statement
  DISTINCT; so without attachments a thing comes from one row (`FoundDiffer`), and a count counts each once. For the
  selects, `ColumnsResolve` is not inductive, for the statement is built from aliases that stay in the storages from one execution to
  the next: `Apart` says that two storages have one alias only if somebody else's executor gave it, `Sound` that
  each column and each join of the statement so far has the alias of the table it is of. Both are kept by each target, join and computed
  table that is added, and so, by induction over numbers, by any number of them (`JoinedAllIs`, `ComputedAllIs`). A name
  that leads on adds a target with the alias of its column, whether or not the column is that table's (`LeadsTo`).
* `StatementsMean`: `StatementMeans`, for any history of calls with groups as deep as you like. What was asked is read
  from the history alone, what the builder keeps is its groups and constraints, so the invariant `Traced` ties
  them: a place in the history for each group, which grow together; each condition is in the group around its place; and the
  groups that are open are those not yet ended there, a stack. `BeginTraces`, `EndTraces` and `PlacedTraces` are the
  steps. Then WHERE is true of a set of conditions exactly when what was asked is (`AskedIsWhere`), by induction from
  the last group to the first, and a condition more never makes it false (`WhereMore`). The joins are the other half: a row
  that is selected holds, for each name that was followed, a row that is related to the thing (`RowRelated`, from
  `LinksFit`), and related rows make a row that is selected (`RowThere`).

Assumptions are those the modules declare: a process for each thread, null
values that are not values, paths that are sequences of names, a tree whose parents have
smaller ids. TLC evaluates them in every run.

Model-checked only:

* `SchemaMeans`: `Schema` uses recursive operators, which keeps its theorems out of reach.
* `CallsReturn`, `PushesAnswered`, `WalksEnd`, `DisposeEnds` and `RemovingEnds`: liveness is out of the prover's reach.

## 5. What is not modelled, and why

In the modules: class validation, metadata other than the marks, dates and `deleted`, signals
and what handlers do in them, D-Bus notices. `ObjectStore` is a connection without
workspaces, `WorkspaceContent` has neither names nor threads, and neither has undelete or
set_guid in a workspace, nor connections with workspaces disabled on a table that has
copies (their statements are about all copies of a guid). The tree of `WorkspaceContent`
does not change while objects are written. `check_dependents` is FALSE in `ObjectStore`;
`ObjectTree` has it. `get_workspace_by_path` fills an instance in an idle step; the accessors that
only read have no action. `Replicator` leaves out blobs (their import always fails) and
packages of parameters and attachments. `ContentJobs` takes the object call of a job as one step,
though an asynchronous job makes it without the static mutexes. `Users` has no passwords and
no persons. The query builders have one operator, for what they get wrong does not depend on it.

Beyond them: parsing of XML, SQL text and value conversions are sequential and keep nothing between
calls; of the schema and the configuration what they come to is modelled, not how it is read letter by
letter. What libgda does in a transaction is libgda's: `Connections` has only what a transaction refers to. Columns of
classes and getters of properties (`..._class_init`, `..._get_property`), which are a large share of the
lines, hold no behaviour a property could be about. The full list is in `PROJECT.json`, "components".

## 6. Plan

The model covers the calls that change state. What is left:

1. `WorkspaceContent` with a tree that grows under it (the tables of `WorkspaceTree`, by INSTANCE), and
   undelete in a workspace.
