# hpc-workspace: a TLA+ model of the workspace tools

hpc-workspace gives users of a cluster directories with a limited life time
("workspaces").  A workspace is two things on two filesystems: a database file
`<user>-<name>` and a directory of the same name in a *space*.  Setuid (or
capability) tools create, extend, release and restore workspaces; a cron job,
`ws_expirer`, expires them, deletes what was kept long enough, and cleans up
directories that have no database file.  **No tool takes a lock.**  The tools
coordinate by the order of their file operations, by names that carry a
timestamp, and by a grace time.  That is what this project models: every tool as
a sequence of file operations, interleaved in every way, with processes that
die, a database that is missing, and a clock with a resolution of one second.

## Inventory

| part (source under `src/src/`) | state | operations | module |
|---|---|---|---|
| database `dbv1.cpp`, `dbv1.h`, `db.h` | entries, deleted entries `<id>-<ts>` | createWorkspace, createEntry, useExtension, release, expire, remove, deleteEntry, writeEntry, renameAsExpired, matchPattern | `WsStore` + the tools |
| spaces (directories) | directories, deleted directories `<id>-<ts>` | mkdir, rename, rmtree (`utils.cpp`) | `WsStore` |
| `ws_allocate.cpp` (`bin/ws_extend`) | local variables | create, extend | `WsAllocate` |
| `ws_release.cpp` | local variables | release, release with `--delete-data` | `WsRelease` |
| `ws_expirer.cpp` | lists and snapshots | clean stray directories, expire, delete | `WsExpirer` |
| `ws_stat.cpp`, `PathWorkStealingQueue.hpp` | queues, counter, threads | distribute, push, pop, steal, stop | `WsStat` |
| `ws_prepare.cpp` | - | creates the empty directories | initial state of `WsStore` |
| `ws_restore.cpp` | local variables | restore into a workspace, onto a workspace (restorenosub), delete data | `WsRestore` |
| `ws_editdb.cpp` | entries read in bulk | shift expirations, rename deleted entries | `WsEditDb` |
| `config.cpp`, `utils.cpp` (parseACL) | configuration | readYAML, validate, hasAccess, validFilesystems, openDB | `WsConfig` |
| `caps.cpp` | effective uid, gid, groups and capabilities | raise, lower, drop, become_db, become_caller | `WsCaps` |
| `utils.cpp` (glob_match) | - | matching of names | `WsGlob` |
| `ws_list.cpp`, `ws_find.cpp` | local variables | search the filesystems | `WsSite` |
| `ws_register.cpp` | symbolic links | create, remove links | `WsSite` |
| `ws_send_ical`, `ws_validate_config`, `mail`, `UserConfig`, `bin/ws_share` | none that others depend on | print, send mail, set ACLs | not modelled: pure I/O |

How they interact: only through the disk.  ws_allocate makes the directory, then
the entry; ws_release and ws_expirer move the entry, then the directory, to the
same timestamp; the stray scan lists directories, then reads the database;
ws_restore moves the directory, then deletes the entry; ws_editdb renames the
entry, then the directory.  Before any of that a tool reads the configuration,
asks which filesystems its user may use and in which order, and looks into their
databases one after the other.

What makes it hard: a directory is without an entry in the middle of three
different operations, and the stray scan must tell these from real strays; a
snapshot is old when it is used; two names in one second collide; a process dies
between two renames; a removal is cut short by a deadline.  `hazards` in
`PROJECT.json` lists each at its line.

What makes it correct: a workspace in the database has its directory; released
and expired data is kept, complete and restorable, for its keep time; deleted
entries do not overwrite each other; a user gets no more than `maxextensions`;
expired workspaces do leave, due ones are deleted, and space is reclaimed.  For
ws_stat: every directory is read exactly once, and the threads stop.  For the
site: access follows the rules of the guide, a name means one workspace, searches
and listings show what is there, and no tool keeps a privilege.

## Modules

* **`WsStore`** - the disk: `live`, `gone` (deleted entries), `dirs`, `trash`
  (deleted directories), the clock `now`.  A directory is a token for its data
  and a modification time; an entry has the fields decisions are made on.
  `fate` is a history variable: what the user was told about the data with a
  token (allocated, released, expired, purged, and when).  The file operations
  (`WriteEntry`, `MoveEntry`, `TryMoveDir`, `Rmtree`) say what the system calls
  do when source or target is not as expected.
* **`WsAllocate`**, **`WsRelease`**, **`WsExpirer`** - one action per file
  operation (or per group of them that nobody can observe in between), with the
  program counter and local variables of each process in `alloc[p]`, `rel[p]`
  and the `x...` variables.  Each has a crash action.
* **`WsSystem`** - the composition.  `Overlap` is a constant set of pairs of
  tools that may run at the same time (for users' commands: on the same
  workspace); `Faults` says whether processes may be killed and whether
  `--delete-data` may leave remnants.  `Tick` carries the timing assumptions
  `MaxAlloc`, `MaxRelease`, `MaxScan`.
* **`WsInvariant`** - `SafeConfig` and the inductive invariant `Safe`; `CrashConfig` and
  `CrashSafe` for installations in which anything may be killed.
* **`WsSystem_proofs`**, **`WsSystem_safety`** - theorems.
* **`WsStat`** - stat_workspace(): the owner's and the thieves' steps on the
  queues, one access to an atomic or a slot per step, sequentially consistent.
  Two workers that move a path from one slot at once race, and both may see it.
* **`WsStatInvariant`** - `Calm`, the condition under which the queues hand out every
  path once, the inductive invariant `StatSafe`, and `Roomy` with `Few`, which say for
  which trees every run is calm.
* **`WsStat_safety`** - theorems.
* **`WsRestore`** - `rst[r]` is a ws_restore: find the entry, find the target, move
  (`MoveInto`, `MoveAway` to another filesystem, `Replace` for restorenosub),
  forget the entry; `Wipe` for `--delete-data`.  The history variable `inside`
  says into which directory data was restored: it shares its fate from then on.
* **`WsEditDb`** - `ed` is a ws_editdb: `EditCollect` reads all matching entries,
  `EditWrite` writes one back, and for a deleted entry whose boundary moved
  `EditChoose` (expiredIdFor()), `EditProbe`, `EditDbMove`, `EditDirMove` and
  `EditRollback` (renameAsExpired()) follow.
* **`WsRetention`** - the abstract specification: data is held by its user, kept
  until a date, or dropped, and dropped only after its date or on request.  It
  knows no files, names or tools.
* **`WsFull`** - `WsSystem` with `WsRestore` and `WsEditDb`, and the refinement
  mapping to `WsRetention`: `Whereabouts` computes where data is from the
  directories on the disk, `DueDate` from the promises made.  `Joint` is to the
  new tools what `Overlap` is to the others.
* **`WsFullInvariant`** - `FullConfig` and the inductive invariant `FullSafe`.
* **`WsFull_proofs`**, **`WsFull_safety`**, **`WsFull_retention`** - theorems: types and
  what each operation does; the invariant and the safety properties; the refinement.
* **`WsGlob`** - the loop of glob_match(), and next to it what a pattern means
  (`Matches`, told from the end of the pattern).
* **`WsGlob_proofs`** - the theorem that the loop decides it.
* **`WsConfig`** - reading and merging of configuration files, ACLs,
  hasAccess() and validFilesystems() as operators.
* **`WsCaps`** - a process as a record of identities and capability sets; each
  method of `Cap` maps it to the process after the call, or to a dead one.
* **`WsSite`** - several filesystems, users, groups and sessions: ws_allocate and
  ws_release up to the point where `WsAllocate` and `WsRelease` take over, with
  the identities under which files are made; ws_find, ws_list and ws_register
  completely.  Databases become unreadable and readable again in between.
* **`WsSiteInvariant`** - the inductive invariant `SiteSafe`.
* **`WsSite_proofs`** - theorems.
* **`MCWsSystem`**, **`MCWsStat`**, **`MCWsFull`**, **`MCWsSite`** - values for the
  constants.

Definitions named in a comment "Mutant of ..." or "As ..., but" are plausible wrong versions of
the definition after them.  They are used by no specification; replacing the
definition by its mutant must make TLC find the property violated that
`PROJECT.json` names.

Abstractions: one filesystem (except in `WsSite` and for the targets of
ws_restore) with one space; users' modifications of a directory
do not change its modification time (they only make it younger); a listing of a
directory is one step; an entry is written in one step; the clock counts seconds
and never goes back; keep times are in seconds instead of days; removals finish
with the second attempt.  In `WsSite` the configuration does not change while
tools run, so that `order` holds the list of filesystems of every user from the
start; user names contain no dash (with one, an id could be read in two ways) and none
of the characters `*`, `?`, `[` and `\` (the matcher would read them), nobody is root, a release is one step, and the listing of one database is one step.

## Runs

| run | result | what it shows |
|---|---|---|
| `safe` | holds | Creations and extensions may overlap the stray scan; ws_release and the expirer's second phase run alone. `LiveHasDir`, `ReleasedRetained`, `ExpiredRetained`, `Recoverable`, `ExtensionBudget`, `NoOverwrite`, and the invariant `Safe` of the proofs. |
| `crash` | holds | Every process may be killed anywhere, the database may be missing, purges may fail, while creations and extensions overlap each other, and extensions and releases the stray scan: live workspaces keep their directories (`LiveHasDir`), deleted entries are not overwritten (`NoOverwrite`), and the invariant `CrashSafe` of the proofs. |
| `live` | holds | Every command may overlap the expirer: `ExpiredLeaves`, `DueDeleted`, `TrashReclaimed`. |
| `release_race` | violated | ws_release during the stray scan loses the data it released (`ReleasedRetained`). |
| `on_behalf` | violated | root allocates for a user: entry and directory have different names, after expiry the data has no keep time (`ExpiredRetained`). |
| `stat` | holds | Three workers, queues of fewer than four paths: `NoOverlap`, `StopsWhenAllRead`, `Termination`, and the invariant `StatSafe` of the proofs. |
| `stat_batch` | violated | A batch of two or more overlaps the owner's pops (`NoOverlap`). |
| `stat_full` | violated | More top-level directories than fit in the queues before the workers start: push() waits for ever (`Termination`). |
| `keep` | holds | ws_restore may overlap ws_release and the expirer's second phase, ws_editdb runs alone, both may be killed: `KeepsData` (the refinement of `WsRetention`), `Findable`, `ListedUntil`, `DeletedStay`, `LiveHasDir`, and the invariant of the proofs until the first edit (`SafeUntilEdited`). |
| `restore_far` | violated | A restore into another filesystem reports an entry removed that is still there (`ToldRemoved`). |
| `site` | holds | Access (`AccessRule`), preference (`Preferred`), merging of files (`ConfigMerged`), matching (`GlobExact`), how far the workspace limit is exceeded (`OverrunBounded`), names (`NoShadow`, `ReleaseExact`), searches (`FindExact`, `ListExact`), links (`LinksExact`), identities (`Paired`, `Owned`), and the invariant `SiteSafe` of the proofs. |
| `limit` | violated | One shell, nothing beside it: ws_allocate creates one workspace more than `maxuserworkspaces` (`UserLimit`). |

The violated runs are described in `findings`, each with the line of the code or
the guide that says otherwise.

### Bounds

`safe`: one session, one workspace id, two directories, a clock of six seconds
with keep times of one and two seconds, two names for expire().  One id is
enough because the tools touch only what belongs to the id at hand (the theorems
hold for any number); two directories let a name be used again while its
predecessor is kept; six seconds are creation, release or expiry, the whole keep
time, and another expirer run.  `crash` and `live` have a clock of three seconds
and the shortest keep times, so that every phase still happens; `crash` has two
sessions, interchangeable and treated as such (symmetry), so that one can find what
another left when it was killed.  A
command that sleeps when the bounded clock stops cannot wake up: deadlock is not
checked.  In `live` timing bounds of 9 are "no bound", `ExpiredLeaves` excepts
a workspace none of whose `MaxTries` names is free (expire() gives up), and names of the last
second of the clock are excepted from `TrashReclaimed`, because the clock
never leaves that second.  `stat`: three workers so that two thieves can meet
at one queue; one directory with two subdirectories, so that batches have size
one and the last item is contended for.  This tree is `Roomy`; `StatSafe` was also
checked on five directories, at the top and below one, where runs that are not calm are
left out.

`keep`: one session, one workspace, two directories (one to restore and one to
restore into), a clock of three seconds, one edit of each kind, one name per
expiry, so that a collision is a failure.  `Grace` and `ReleaseKeepTime` are two seconds,
as `SafeConfig` wants them.  With two directories `DeletedStay` cannot fail the way
"Edits and names" below describes.  The edits give time, except `expireBy`,
which cannot move the date of an entry that was never edited back: `ListedUntil` is
about these.  After `--add-time-expired` with a negative number the name is later
than the date if the rename fails or ws_editdb is killed before it; ws_editdb
reports the failure, and a later edit that moves the date renames it.  `site`: two
filesystems, two users that share one of their groups, two names of which one is
a prefix of the other; three sessions of one user, two of them creating, so that
both may pass the limit; three commands, two at a time: a creation against
another creation, or against a search or listing, after one that prepared the
state; -F names one of the filesystems.  The four configurations are: open
filesystems, one of which may become unreadable once; group and user
ACLs with several entries for one id, denials and names of permissions that do not
exist; an admin and an ACL without a valid entry; and three files that override
each other and end invalid.  `GlobExact` compares all patterns and strings of up
to three characters over an alphabet with every special character; patterns of up
to five were compared once.  `limit` is the same site with one shell, two commands one
after the other and no outage, so that nothing but the test itself can be the reason.

### What may run beside what

| tool | may overlap | not, because |
|---|---|---|
| creation, extension | stray scan (a creation only while no killed ws_allocate left a directory, see Proofs) | extension against release or expiry: the entry written back is stale |
| ws_release | ws_restore | stray scan (`release_race`); a second release |
| ws_restore | ws_release, stray scan (*), expiry | ws_editdb -e: the entry deleted last may by then be another one of the same name |
| ws_restore with restorenosub | stray scan (*) | release or expiry of the target between its lookup and the rename |
| ws_restore --delete-data | stray scan (*) | release or expiry under the same name in the same second: the new entry is removed, its data stays |
| ws_editdb | nothing | entries are written back as they were read; between two renames a directory has no entry |

(*) With these pairs added to `SafeJoint` the properties of `keep` hold too, over
2.6 million states; the run leaves them out to stay short.  The proofs admit
`{restore, ...}` with everything and `{wipe, ...}` with creation, extension and stray
scan, but restorenosub only alone: it puts a directory with an old modification time
in the place of a live one, which a stray scan beside a creation could take for a stray.

### The limit of workspaces

The guide calls `maxuserworkspaces` "the maximum number of workspaces a user can create in
total across all filesystem locations" (`admin-guide.md:378`); `UserLimit` says so, and `limit`
shows that it is wrong: `ws_allocate.cpp:413` tests `count > max` before the creation, so
that a user with as many workspaces as he may have creates one more.

What the code does keep is `OverrunBounded`: one more than the limit for each
session of the user that runs ws_allocate at the same time, of the workspaces in the
filesystems the user may list, while none was ever unreadable, since others are not counted.
Who had more from the start keeps them, in both properties.

### What steady means

`NoShadow`, `ReleaseExact`, `FindExact`, `ListExact` and `LinksExact` are about a command during
which nobody else changed a database: `steady` records for which this is so.
Without it they are not true, and need not be: a second ws_allocate may create the
same name in another filesystem, after which both are reported as ambiguous; a
filesystem that is unreadable during the search has the same effect.  The code makes
these duplicates and no property denies them; `ReleaseExact` is about what follows:
ws_release, which asks all filesystems it can open, then takes none of the two, and
after it has released a name no workspace of that name is left where it looked.  A
ws_register that read the database before a creation may remove the new link,
which the next run makes again; two ws_register of one user, of which one read the
database before a creation, undo each other's links, so that for ws_register a change of
the user's links disturbs as well.  `LinksExact` is about readable filesystems: links into others
stay, whatever became of the workspaces.  `AccessRule`, `Preferred`, `ConfigMerged` and
`GlobExact` are facts about the configuration and the matcher; they are evaluated
in the initial states.

### Fairness

cron starts ws_expirer again and again and a run goes on to its end (weak
fairness of the steps of both phases); the database is there again and again
(strong fairness of `StraySnapshot` and `ExpireList`: a run may find it missing,
not every run); time passes (strong fairness of `Tick`, whose timing assumptions
may disable it for a while); an extension that was begun ends.  No fairness is
assumed of users' commands otherwise.  In `WsStat` every thread is scheduled.

## Proofs

TLAPS proves the following, for all sets of sessions, ids and threads, all trees, all
configurations, and all values of the bounds.

### The tools of `WsSystem`

* `TypeCorrect` (`WsSystem_proofs`): `Spec => []TypeOK`, for every `Overlap` and
  `Faults`.  The content is that extension counters stay natural (useExtension()
  refuses before it decrements below zero), that bumped timestamps stay stamps,
  and that a process always has the entry its program counter says it read.
* `SafeInvariant` (`WsSystem_safety`): `SafeConfig /\ Spec => []Safe`, and from it
  `LiveWorkspacesSafe`, `ReleasedDataRetained`, `ExpiredDataRetained`,
  `DataRecoverable`, `ExtensionsBounded`, `NamesCollisionFree`: each states a
  property of the run `safe`.

None of the properties is inductive.  `Safe` adds what the tools rely on: who
excludes whom (`Exclusive`), that every directory has its own token (`Tokens`),
that a live entry's directory holds live data and that granted and remaining
extensions add up (`LiveOK`, `Budget`), what a process in the middle of its work
has seen and still finds (`AllocOK`, `RelOK`, `ExpOK`, `Moving`), that deleted
directories and entries match and names lie in the past (`Matches`, `NamesOK`),
that what the sweep and the stray scan have on their lists may go (`Swept`,
`ScanYoung`), and that promises are kept (`TrashKept`, `Retained`).

`SafeConfig`, and why each part is needed:

* only creations and extensions overlap, and only with the stray scan -
  `release_race` is what happens otherwise;
* no process is killed - see the two executions below;
* nobody allocates for somebody else - `on_behalf`;
* `MaxScan + MaxAlloc < Grace`: a creation that a scan finds without an entry is
  younger than the grace time when the scan comes to move it;
* `ReleaseKeepTime >= 2`: after a name collision the entry carries a timestamp
  one second later than the release, and the second guard of the sweep has to
  see names in the past.

Where anything may be killed and no timing is assumed less is promised, and that is
proved too (`WsSystem_proofs`):

* `CrashInvariant`: `CrashConfig /\ Spec => []CrashSafe`, whatever `Faults` admits.
* `CrashLeavesLive`, `CrashNamesFree`: `LiveHasDir` and `NoOverwrite` follow.

`CrashConfig` bounds only the overlaps: creations and extensions with each other,
extensions and releases with the stray scan; and nobody allocates for somebody else.  A
creation beside the stray scan is left out for a reason the attempt to prove
`CrashLeavesLive` brought up: the first guard of the scan goes by the age of the
directory (`ws_expirer.cpp:522`), as in-flight creations "created milliseconds-to-seconds
before the scan" are always young (`SECREVIEW.md:38`).  But a ws_allocate that dies
between the directory and the entry leaves a directory, which a second
ws_allocate after the grace time takes over (`dbv1.cpp:175`) with its old modification
time; a scan that read the database before the second one wrote its entry then
moves the directory away.  TLC finds this in 14 steps with
`Overlap = {{"allocate", "stray"}}`, `Faults = {"crash"}`, one session, one id, `Grace = 3`,
`MaxScan = MaxAlloc = 1` and a clock of six seconds.  There is no
condition on the grace time, the keep times or the time a command takes.
`ReleasedRetained` and `ExpiredRetained` do not hold there.  The first for what happens in
`release_race`.  The second for a ws_release that is killed between writeEntry() and rename()
(`dbv1.cpp:842`), after which the entry is still live and has a release time.  The comment
says "probably ok, even if there is some partial state, ws_expirer would deal with it"
(`dbv1.cpp:837`).  But the workspace goes on, may be extended, and when it expires the
expirer moves it in its first loop and in the second, in the same run, finds
`released + releasekeeptime` in the past and deletes it without keep time.  TLC finds this
with no overlap at all: `Overlap = {}`, `Faults = {"crash"}`, one session, one id,
`Durations = {1, 2}`, `KeepTime = 5`, `ReleaseKeepTime = 2`, `Grace = 3`,
`MaxScan = MaxAlloc = 1`, no bound on a release (9) and a clock of eight seconds.

`CrashSafe` says that a workspace in the database has its directory (`Housed`), with
what each tool relies on between two operations (`AllocHas`, `RelHas`, `ExpHas`) and who
excludes whom (`Separate`).  What is left by killed tools shows in what it does not say: a
directory needs no entry, a deleted directory no deleted entry, and a live entry may bear
a release time.  `NamesPast` is the part the names rest on: no name lies in the
future, nor behind the expiration of the live entry of the same id.  So a release,
which takes the present, finds at most its own second taken, which it looks up, and one
second later free.  And once a workspace has expired the present second is behind all
names of its id, so that expire() gets the first name it tries.

### ws_restore beside the others (`WsFull`)

* `FullInvariant`: under `FullConfig`, `FullSpec => []SafeUntilEdited`; the
  inductive invariant `FullSafe` holds until an administrator begins the first edit.
* `FullTypes`, `RestoreLeavesLive`, `RestoreFindsData`, `RestoreListsDate`,
  `RestoreKeepsEntries`: with `Edits = {}` the properties `FullTypeOK`,
  `LiveHasDir`, `Findable`, `ListedUntil` and `DeletedStay` of `keep` follow.
* `DataIsKept` (`WsFull_retention`): with `Edits = {}` the tools implement
  `WsRetention`.

`FullConfig` is `SafeConfig` and a bound on what runs beside ws_restore: a restore into
a subdirectory may run, and be killed, beside every tool and beside any number of
others of its kind; with `--delete-data` beside creations, extensions, the stray scan and
others of its kind; restorenosub alone.  The reasons are those of the table above.

`FullSafe` adds to `Safe` the tokens of deleted directories (`TrashTokens`), where
restored data is (`Nested`: one level deep, and live again), and what a ws_restore
relies on between its file operations (`RstOK`).  `Forgetting` carries the
argument: between the move of the directory and the removal of the entry nobody
else uses the name, so that the entry removed is the one that was read.  That
holds because names lie in the past, so a later release has a later name.  `Apart`
says that of two restores of one directory only one gets past the move, and
`Admitted` that `Joint` is respected at all times, not only when a tool starts.

The refinement maps each data token to `Whereabouts` (where it is on the disk, through
the directory it was restored into) and `DueDate`.  Every file operation is one of four:
it holds data (creation, restore), announces a date (the entry is moved or
written), keeps or drops it (rename, removal), or leaves both functions alone; the
proof has one lemma for each kind and one step for each operation.  That a removal
is due is where `Swept` and `TrashKept` of `Safe` come in.

ws_editdb is not in the proofs: an edit changes names and dates of deleted entries, of
which `NamesOK` says that they lie in the past.

### ws_stat (`WsStat_safety`)

* `StatTypes`: `Spec => []TypeOK`, without further conditions.
* `StatSafety`, `PathsOnce`, `StopsInTime`:
  `Spec /\ []Calm => []StatSafe`, and hence `NoOverlap` and `StopsWhenAllRead`.
* `SmallTrees`, `SmallTreesPathsOnce`, `SmallTreesStopInTime`: when `Roomy`, every run
  is calm, so that the three hold of `Spec` itself.  That is by a further invariant, `Few`.

`Calm` says that no thief has asked for more than one path, and that no queue is
filled once round.  The first excludes what `stat_batch` shows.  The second excludes
another overlap that the attempt to prove `NoOverlap` brought up: a thief claims a slot by
advancing `top`, and moves the path out afterwards; if it is suspended in between,
the owner, for whom the slot is free, may push `Capacity` more paths and write the slot
again.  The thief then takes a path that is in the queue too, and the one it had
claimed is lost.  TLC finds this with `Capacity = 2`, `MaxSteal = 1`, two workers and five
directories; with the 1024 slots of the code it takes a thief that sleeps through as
many pushes.

`StatSafe` says of every slot that holds a path that it belongs to exactly one
queue or one worker (`Sole`, with `Popping` and `Stealing` for what the owner and a
thief know while they contend), that paths in queues and hands are all different
(`Hands`, `Placed`), that the tree was walked from the top (`Walked`), and that the
counter is the number of directories that are open (`Accounts`).  When it is zero
nothing is open, and by `TreeAssumption` - every directory is reached from the top level
in one way, since ws_stat counts links and does not follow them - everything was
visited.  `Few` bounds the end of every queue by the number of directories that were
ever pushed, each of which is pushed once.

### The site

All properties of `site` are theorems of `WsSite_proofs`, for any number of
filesystems, users, groups, sessions, configuration files and ACL entries, and for every
bound: `SiteTypes`, `ProcessesPaired`, `EntriesOwned`, `NoneShadowed`, `FoundExactly`,
`ListedExactly`, `LinkedExactly`, `ConfigurationMerged`, `AccessGranted`,
`PreferenceKept`, `ReleasedExactly`, `LimitOverrun`, `MatchedExactly`, and `SiteIsSafe` for the inductive
invariant.

`SiteSafe` has three parts.

* `SiteBase` holds in every state: the configuration is the one that was read
  (`Settled`), entries and directories have the owner of their id (`Tables`), the
  process of a privileged tool is the caller or the database user with nothing raised
  (`Lowered`), and each program counter comes with what the tool then knows (`Shape`).
  `Paired` and `Owned` follow; the proof goes through each call of `Cap`
  in each mode of installation.
* For each session in `steady`, what its tool has seen is what is there: ws_allocate
  found the name in no filesystem it has passed (`Searched`), ws_find nothing in
  those before (`Looked`), ws_list has everything but what is still to come (`Listed`),
  ws_register is right about the filesystems it is done with (`Linked`), ws_release has met
  every workspace of the name in the filesystems it has passed, and none is left when it
  took the only one (`Freed`).  A step of
  another session either leaves alone all that the tool looks at, or ends `steady`; that
  is one lemma (`OtherTools`), and each tool's own steps are one more each.
* `Limited`, for each user: his workspaces and his runs of ws_allocate past the test of
  the limit grow together only when a test is passed, and a creation turns one of
  the latter into one of the former.  The workspaces alone are not enough: two
  runs may have passed the test before either creates.

The theorems about the configuration rest on three loops.  `readYAML()` over the files
is followed by `ReadLoop`, from which `ConfigExtensions` gets what a filesystem is given;
the loop over ACL entries by `EvaluateLoop` and `EvaluateMeans`, which turn it into the
set of entries that concern somebody; the four passes of `ValidFilesystems` by `ValidSorted`.
Each is an induction over the length of a list, done by looking at the first place where the
claim would fail.

What is assumed of the constants, all of it evaluated by TLC for the instance:

* `NamesAssumption`: names and patterns are strings of the alphabet.  No user name
  contains a dash.  Otherwise `a-b` of user `u` and
  `b` of user `u-a` are one id, which neither the code nor the model can tell apart, and
  `Owned` is wrong.  None contains `*`, `?`, `[` or `\`, as portable account names
  do not: the code puts the user name into the pattern `<user>-*` as it is.  No user is
  called like the database user, and no group has an empty name.
* `CharsAssumption`: a character has one code, the nul that ends a string is none, and
  those with a meaning for the matcher are among them.
* `SiteAssumption`: the sets of users, names and sessions are finite, the modes are the
  three the tools know.
* `FilesAssumption`: the files are a sequence, ACLs are lists, and the limit is a number.

The attempt to prove `Preferred` showed that its ranks were given by cases that overlap (a
filesystem may be the default of a user and of a group), of which TLC took the
first and the definition of CASE any; it now says which one counts.

### The matcher (`WsGlob_proofs`)

`GlobMatchesMeaning`: for every alphabet, every pattern and every string the loop of
glob_match() accepts what the pattern means.  This is the claim of the comment in the source
(`utils.cpp:196`: "it can be easily proved that there's never a need to backtrack multiple
levels").  `PrefixPattern` follows: `<user>-*` accepts exactly what begins with
`<user>-`, and with `NamesAssumption` these are the workspaces of the user (`OwnPattern`),
on which the searches, the listings and the limit of the site rest.

The loop keeps four positions: where it is in pattern and string, and where to go back to
(`bp`, `bs`).  `Kept` is what it maintains: behind a star it has consumed one
character for each token, so if what follows the star matches from some later position
`l >= bs`, then the rest of the pattern matches from the position as much later.
`RoundMeans` shows of one round that the loop accepts from a state exactly if the rest of the
pattern matches here, or what follows the star matches from a position behind `bs`; that is
why a second star may forget the first.  The states later rounds are in have a
larger `bs`, or the same and a larger position in the pattern, and
the theorem looks at the last state of which the claim would be wrong.

`ClassClosed` and `ClassUnclosed` say of `Span`, the inner loop, that a class without a
closing bracket is a literal `[`, and that otherwise it ends at the first bracket behind its
first character and holds the characters and ranges between; ranges are compared by codes.

The three recursions of `WsGlob` are functions, of which the provers know an equation only
once it is shown that one has a solution.  `RankedEquation` shows it where the arguments
descend (`Span`, `Denoted`, `Matches`), and `MonotoneFixpoint` for the loop itself: the
more the rest of the loop accepts, the more a round does (`ScanMonotone`), and such a
round has a fixpoint.

### What is only model-checked

Liveness, everywhere: `ExpiredLeaves`, `DueDeleted` and `TrashReclaimed` of `live`, and
`Termination` of `stat` rest on fairness, and so on ENABLED, of which the installed provers
know nothing.  Further `WsFull` with edits and with restorenosub beside other tools; and the
violated properties.

### Edits and names

`DeletedStay` depends on names that lie in the past.  `ws_editdb --ensure-until` can give a
deleted entry a name of the future.  When ws_release later finds its own name taken it
adds one second and does not look again (`dbv1.cpp:856`, under the comment "do the rename with
collision free name"), so it may replace that entry.  TLC finds this with three
directories, five seconds, keep times of two and `--ensure-until` four; `keep`, with
two directories, does not reach it.

## Not modelled

* Half-written entries: writeEntry() truncates and writes in place.  All modules
  write entries in one step.
* The capabilities of ws_restore and ws_editdb.  ws_restore keeps no CAP_CHOWN,
  which writeEntry() raises for a group workspace with restorenosub; it would
  exit there, in the state `RestoreCrash` leaves.
* The command lines, `~/.ws_user.conf`, mail, reminders and their calendars,
  printing and sorting, ws_validate_config and ws_share: input and output without
  state that another tool reads.
* A database that goes away in the middle of a run.  openDB() fails in the model when the
  database is missing, and the expirer skips the filesystem; when the directory vanishes after
  openDB() the listing is empty (`utils.cpp:177`) and every old directory looks like a stray.
* The choice of a space within a filesystem.  ws_register keeps an existing link
  by its name and does not look where it points to; with several spaces it may
  point to the old one.
* The second YAML reader (rapidyaml), which is meant to behave as the first.
* Root and delegates (`ws_allocate -u`) in `WsSite`; `on_behalf` shows what
  root's creations do.

## Plan

1. The retention properties in installations where only ws_allocate and ws_expirer may be
   killed, as `LiveHasDir` and `NoOverwrite` are proved where anything may be; and
   edits that only give time in the proofs.
2. Half-written entries, with readers that fail on them.
