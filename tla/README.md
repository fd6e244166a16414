# TLA+ verification of go-irodsclient-extensions

`go-irodsclient-extensions` is a Go library that sits above an iRODS client:
desired-state synchronization of users and groups, administration of the S3 API,
a registry of search plugins, documents kept in user homes, and metadata queries.
This directory holds TLA+ models of its stateful parts, TLC configurations that
check them on small instances, and proofs that TLAPS checks for all instances.

Contents: [the system](#the-system), [the modules](#the-modules),
[the runs](#the-runs), [the proofs](#the-proofs),
[what the models found](#what-the-models-found),
[what is left out](#what-is-left-out), [the plan](#the-plan).

To repeat the checks:

    tlc -config UserSync_serial.cfg MCUserSync.tla      # any .cfg, with its MC module
    tlapm UserSyncProofs.tla                            # any ...Proofs module

`PROJECT.json` lists components, runs, mutations that each property detects, the
source lines behind every definition, findings, hazards and theorems.

## The system

The library starts no goroutines. What makes it concurrent is what it works on:
one iRODS catalog and a few local files that several callers, several service
objects, several processes and administrators with iCommands share. An operation
is a sequence of calls on them with nothing that makes the sequence atomic, and
each call may fail, or take effect and lose its reply. Three mutexes exist:
`MappingFile.mu`, `UserMappingFile.mu` (both in `s3admin`) and `Registry.mutex`
(in `searchplugin`).

| Component | State | Operations | Interacts with | Hard behaviour | What makes it correct |
| --- | --- | --- | --- | --- | --- |
| `usersync` | none of its own; users, groups, memberships and sync AVUs in the catalog | ensure, update, remove a user; ensure, remove a group; ensure, remove a member | the catalog, through `usersync/irodsfs`; other sources; administrators | types and markers are read calls before they matter; failures between creation and marking; retries | protected users are never touched; only owned principals are removed; success means the requested state; ownership follows creation |
| `s3admin` buckets | bucket AVUs on collections; the bucket mapping file; a mutex | add, update, delete a bucket; refresh, rebuild the mapping; list, search | the catalog; the S3 API, which reads the file | check-then-act on names; AVU changed and file not written; several services on one file | names unique beneath the scan root; the file is a whole mirror of the catalog; every way out unlocks |
| `s3admin` user keys | a secret data object with a marker AVU in each home; the user mapping file; a mutex | store, generate, delete a key; refresh, rebuild; the same without a file in `S3UserKeyService` | `userpersist`; the catalog; the S3 API | remove, create, write and mark are separate calls; load and replace of the file | a marked object is readable; other users' entries survive; home and file agree |
| `searchplugin` | endpoints, statuses and the config path, in memory | register, upsert, unregister, load, reload; list, properties, search, ping, search all | plugin servers by HTTP; config files | answers that arrive after the registry changed; two critical sections where one is needed | the two maps agree; statuses come to tell the truth; the path is that of the loaded file |
| `userpersist` | files beneath `~/.irodsext/<context>` | ensure, put, get, delete | used by keys, favorites, carts, saved queries | creation of a collection by two callers; replacement in several calls | a document is whole or absent |
| `favorites` | AVUs on one file | add, rename, remove, list | `userpersist`, catalog | list, delete and add without a lock; stale and double AVUs left by failures | a path has one favorite after a request that no other overlapped |
| `filecart` | files with a name AVU and an AVU for each item | create, list, name, add, remove, copy, delete | `userpersist`, catalog | as favorites; a copy of several calls | a cart has the one name that was given; a copy has only entries of its source |
| saved queries (`metadata`) | JSON files | create, put, get, list, delete | `userpersist` | created empty and then written; read, then written back | ID and creation time survive every race; only failures leave an unreadable file |
| entry queries (`metadata/irodsfs`) | a cursor that the caller hands back | query, continue | catalog | pages over two branches whose rows are not entries; entries that come and go between pages; a server free to change the order | pages tile the result while the server keeps its order; a page is honest about what follows |
| bucket path resolution (`s3admin`) | none | which bucket is this object in | catalog | one call for each ancestor while others mark them | an answer is one that was right |
| `ignore` | the rules of a file, in iRODS or local | load, match, filter | catalog | size and contents are read by two calls; negation beneath an ignored directory | what the last rule ignores is hidden; what lies in a hidden directory is too |
| AVU mutation and lookup (`metadata`) | AVUs | look up, add, replace, delete | catalog | one query, one atomic update | nothing of the library's own |
| `tickets`, `oidcverify`, `irodsauth`, `irodsuri`, `cmdcues`, manifests | none | pure functions, or single requests | | | encoding and parsing |

`hazards` in `PROJECT.json` names, at its line, everything in this table that a
test would hardly reach, and the properties that would catch it.

## The modules

| Module | What it is |
| --- | --- |
| `UserSync` | the reconciliation service of `usersync`, on a catalog |
| `UserSyncProofs` | type correctness, clearance, protected users |
| `UserSyncOutcomeProofs` | what success and creation mean to a single caller; markers and removals of several sources |
| `S3Buckets` | the bucket service of `s3admin`, with its mapping file and mutex |
| `S3Registry` | what buckets promise: the abstract specification of `S3Buckets` |
| `S3BucketsProofs` | type correctness, mutual exclusion, unique names, mirrored successes, refusals, the refinement of `S3Registry` |
| `S3UserKeys` | the user key and user mapping services of `s3admin` |
| `S3UserKeysProofs` | type correctness, entries of other users, readable secrets, published successes |
| `SearchRegistry` | the registry and the client of `searchplugin` |
| `SearchRegistryProofs` | type correctness, agreement of the two maps, reload path, answers to `Ping` |
| `UserPersist` | documents beneath `~/.irodsext`, and the calls that change them |
| `Favorites`, `FileCarts`, `SavedQueries` | what the three services do with documents |
| `UserDocuments` | the three services at work side by side |
| `UserDocumentsProofs` | type correctness, creation times and readability of saved queries, favorites and carts of requests that nobody disturbs |
| `EntryQueryPaging` | reading the result of an entry query page by page |
| `EntryQueryPagingProofs` | type correctness, pages that tile the result, honest pages, told matches, changes between pages |
| `IgnoreMatch` | matching paths against ignore rules, as operators |
| `Positions` | parts of a sequence by the ranks of their positions, for `EntryQueryPaging` and `IgnoreMatch` |
| `PathLookups` | bucket path resolution, and filtering by an ignore file kept in iRODS |
| `PathLookupsProofs` | nearest buckets, hidden entries |
| `MCUserSync`, `MCS3Buckets`, `MCS3UserKeys`, `MCSearchRegistry`, `MCUserDocuments`, `MCEntryQueryPaging`, `MCPathLookups` | policies, requests, contents and guards for the runs |

The models of services have one shape. A *caller* is a user of a service, a goroutine or
a process. `Start` takes a request from the set `Requests[c]`; each further action
is one call of the code on what is shared, at the place `pc[c]` stands for; the
last records the result in `out[c]` and returns to `"done"`. What the code holds
in local variables over several calls (AVUs still to delete, buckets found, an
endpoint read) is a variable of the caller, so that it can be stale. Every call
that changes the catalog may take effect and lose its reply, and `Fail` makes a
call fail without effect; both draw on `MaxFaults`. Definitions marked `mutant`
are wrong versions of the definition below them: each is a plausible bug, and
shows that a property notices it.

**`UserSync`.** `type`, `avus`, `members`, `password` are the catalog; `origin` is
history, who created a principal. `CreatePrincipal`, `CreateConflict`,
`GetExistingUser`, `LookupForUpdate`, ... are the calls of `EnsureUser`,
`UpdateUser` and so on in `usersync.go`, the metadata helpers are `ReadStatus`,
`ListMissing`, `AddMarker` and `CheckManaged`, and `target`, `ret` say on whose
metadata they work and where the operation goes on. `Managed`, `Conflicting`,
`Adopts`, `MayCreate`, `MayManage` are `policy.go` and `classifySyncMetadata`.
`UpdateUser` with `CreateIfMissing` becomes `EnsureUser` in mid-operation, as in
the code. `AdminStep` is a person with iCommands, who acts never, between requests
(`"quiet"`), or at any time.

**`S3Buckets`.** `collections` and `avus` are the catalog, `file` the mapping file,
`locked` the set of mutexes held. `Guard[c]` is the `MappingFile` of the service
that `c` uses, which is how services with and without a common mutex are told
apart. The refresh of the mapping is modelled search by search: a wildcard search,
one search for each name of the old file, one for the new name, then the check and
the rename. Before it comes `EnsureScanRoot`, the check in `listBuckets` that the scan
root (`Root`) exists, which an operation may fail after it has changed an AVU; the
collections in `Scope` come and go with the root that they lie in. A value of an AVU is a bucket name with its spelling, because the code
normalizes what it reads and compares what it searches for. `Crash` stops a
process with all its callers. `S3Registry` is the promise: a name has one path and a path
one name, and the published copy is only ever replaced by the whole registry.

**`S3UserKeys`.** `content` and `markers` are the data objects in user homes and
their AVUs. Writing one is `Stat`, `Unlink`, `Create`, `Write` of `WriteDataObject`,
then `ListMarkers`, `Unmark` for each old marker, and `Mark`. Callers of
`S3UserMappingService` hold the mutex and go on to `Load` and `Publish`; callers of
`S3UserKeyService` do neither. `Query` and `ReadSecret` are the refresh, which
fails as a whole on the first secret that is unfit.

**`SearchRegistry`.** `endpoints`, `statuses`, `configPath` are the fields of
`Registry`; each critical section is one action. A request of the client reads
the endpoint (`GetEndpoint`), talks HTTP without the mutex (`Exchange`) and records
the result by ID (`RecordHealth`); `Ping` reads the status in a further step, and
`SearchAll` asks one endpoint after the other. `LoadConfigFile` is `ReadConfig`,
`LoadConfig` and `SetPath`, three steps as in the code.

**`UserPersist`, `Favorites`, `FileCarts`, `SavedQueries`, `UserDocuments`.** The
first holds the shared state (`collections`, `store`) and one action for each call
of the filesystem: `Find` and `Make` for the two collections, `CreateFile` and
`WriteFile` for `WriteDataObject`, which creates or truncates and then writes, and
`DeleteAVU`, `AddAVU`, `RemoveFile`, `Scan`, `ReadEach`. The three services extend
it, each with its own stages; `UserDocuments` takes a request (`Start`, `Retry`)
and lets every caller be of any service. An AVU of a favorite is *canonical* or
stale, because `AddFavorite` leaves a favorite alone only if its AVU is exactly
what it would write itself. Whether a copied data object brings its AVUs is left
open, since the code copes with both. Two choices at the boundary follow the
iRODS client that the integration tests use: truncation keeps AVUs, and the catalog refuses to
delete an AVU that is gone and to add one that is there. The
`WriteDataObject` of `s3admin/irodsfs/adapter.go:249-272` removes the object and makes it
anew; over it the AVUs of a favorites file would not outlive the next operation.

**`EntryQueryPaging`.** `rows[b]` is what the GenQuery of branch `b` would return, in
order: a row for each replica and matched AVU of an entry. `Scan` is
`scanCollectionQuery` and `scanDataObjectQuery`, with the batches of `MaxQueryRows`,
the replicas collapsed and the AVUs gathered; `ScanBranch`, `Peek` and
`CountBranch` are the parts of `QueryEntries`, and `Return` is a caller that asks
for the next page with the cursor it was given. `Refuse` is a path condition that is
not absolute: it is refused only when a request for data objects is built, perhaps
after pages of collections. `Insert` and `Delete` are others. `Reorder` is the server,
which may return the rows of the next scan in another order: the requests ask for
none (`query.go:449-504`). One scan keeps one order, since its batches come from one statement.
Additions wrap at `MaxInt` as Go's `int` does.

**`IgnoreMatch`, `PathLookups`.** `IgnoreMatch` has the matcher: `MatchSegments`,
`Matches`, and `IsIgnored` with its look at the parents. `PathLookups` asks a question
in several calls while others edit: `Resolve` and one `BucketsForPath` for each
ancestor, or `Stat`, `Open` and `Read` of the ignore file and `FilterEntries` with
what was read.

## The runs

| Run | Instance | What it shows |
| --- | --- | --- |
| `UserSync_serial` | 1 caller with `ClaimExisting`, all requests, 2 names, 3 faults, any initial catalog, fair | `TypeOK`; `SuccessMeansConverged`, success means the requested state, whatever was left half done before; `CreatedMeansMarked`, "created" means every marker is there; `CreatedIsMarked`, so does having created it, if claiming; `EventuallyOwned`, repeating a request ends in ownership |
| `UserSync_sources` | 2 sources with different policies, 1 caller each, 1 fault, administrators between requests | `ProtectedUntouched` and `ClearanceHolds`, no interleaving touches a protected user or makes one; `OwnershipFollowsCreation`, markers never pass to another source; `RemovalNeedsMarker`, removals strike only what is marked |
| `UserSync_unmarked` | 1 caller, default policy, 1 fault | **violated**: `CreatedIsMarked` (below) |
| `S3Buckets_shared` | 2 callers on one `MappingFile`, 3 paths (one outside the scan root), 2 names, 1 fault; all collections, none, or all but the scan root | `MutualExclusion`; `NeverDuplicates`; `RefusedMeansUnchanged`, a refusal changed no AVU, unless it came of a missing scan root after an AVU was written outside it; and `ImplementsRegistry`, the refinement of `S3Registry` |
| `S3Buckets_services` | 2 services on one path, one edits and one rebuilds, 1 edit by hand at any time (an AVU in either spelling, or a collection made or removed, the scan root included), 1 fault, fair | `TypeOK` with "the mutex is held exactly within an operation"; `SuccessMirrorsCatalog`, a success that was not overtaken leaves a file that mirrors the catalog; `EventuallyMirrored`, the file comes to mirror a catalog that is left alone, unless its scan root is gone |
| `S3UserKeys_shared` | the mapping service for one user and the key service for another, 4 changes, 2 faults, fair | `TypeOK`; `MarkedSecretsReadable`; `UpdatesKeepOthers`; `SuccessPublishes`, home and file agree; `EventuallyMirrored` |
| `S3UserKeys_two_services` | 2 services on one path, no faults | **violated**: `UpdatesKeepOthers` (below) |
| `SearchRegistry_settle` | 2 askers and an editor that also loads config files, 2 changes, 1 fault, fair | `TypeOK`; `StatusesMatch`, late answers never bring a status back or hide that an endpoint is disabled; `PingAgrees`, the status a `Ping` returns goes with its error; `PathOfEndpoints`, the reload path is that of the loaded file; `EventuallyTruthful` |
| `SearchRegistry_reload` | an asker and a loader, no faults | **violated**: `ReloadResets` (below) |
| `UserDocuments` | 2 callers of any two services, 2 requests, 1 fault, from an empty home or one with stale and double AVUs, fair | `TypeOK`; `CreationKept`; `EmptyOnlyByFailure`; `OneFavoritePerPath` and `CartAsAsked`, what a request leaves is what was asked for, if no other request on the subject overlapped it; `EventuallySettled`, repeated requests come to an end |
| `EntryQueryPaging` | 3 collections and 3 data objects with up to 3 rows, batches of 2, limits 0, 1, 2, 3 and two near the largest `int`, with and without an absolute path, cursors of every phase, 2 changes (an entry added or removed, two rows exchanged), 1 fault, fair | `TypeOK`; `PagesTile`, the pages are the result while the server keeps its order, and as many entries in any order; `PageHonest`, more and totals are right in any order; `MatchesTold`, all matched AVUs and the oldest replica; `ChangesShift`, in an order that stays additions skip nothing and removals repeat nothing; `EventuallyRead` |
| `PathLookups` | objects of depth up to 3, 2 buckets, 3 edits, 1 fault; 18 entries and every ignore file of up to 4 of 9 rules | `NearestBucket`, the answer was right at some time of the lookup; `HiddenStaysHidden`, what the last rule ignores is hidden, and so is what lies beneath |

**Bounds, and why they are enough.** Names, paths, users and IDs are two or three:
the code never treats more than two of them together, and what the properties are
about is a conflict of two (two owners of a principal, two collections of one
name, an entry and another's entry, two names of one favorite). `S3Buckets_shared`
has a third path because what lies outside the scan root is treated differently, also
when the scan root is missing.
Two callers suffice for every check-then-act window in which another acts once;
the theorems that follow hold for any number. `MaxFaults` (1 to 3) lets an
operation fail, its retry fail at another call, and a third come through;
`MaxEdits` (1 to 4) lets something be made, changed and undone; two exchanges of rows
make every order of three, and undo one another. In `UserDocuments`
two requests are few, but the documents they begin with are what earlier
requests, failures and other clients may have left: several AVUs for one path,
two names of one cart, one item as two types. In `EntryQueryPaging` an entry has
up to three rows and a batch two, so that batches end within entries, and `MaxInt`
is 15, so that limits up to the largest `int` occur. Four rules are one more than
the longest dependence in `IsIgnored` (a rule, a negation, and a rule or negation
about a parent before it). Every bound is a constant guarded where it is
consumed. With `Requests` in a run every operation of the component is taken by
some caller of some run; which caller takes which is split only to keep the state
space small. The initial catalog is every assignment of types in `UserSync_serial`,
the given documents in `UserDocuments`, the given rows in `EntryQueryPaging`, any
marks in `PathLookups`, collections without AVUs in `S3Buckets` (all of them, none, or all
but the scan root and what lies in it), and empty elsewhere: there the operations
themselves produce the interesting states.

**Fairness.** `UserSync!FairSpec` says that a caller finishes the request it
serves (its calls are synchronous) and that a controller repeats its request.
`S3Buckets!FairSpec` and `S3UserKeys!FairSpec` add strong fairness of `Acquire`: a
Go mutex in starvation mode hands over in FIFO order, so that no caller waits for
ever although the mutex is free only now and then. `S3Buckets` also requires that
callers keep making requests, of which one makes only requests that write the file anew,
`S3UserKeys` that *refreshing* requests, and no others, keep being started. `SearchRegistry!FairSpec` says that an
exchange ends (the client has a timeout of 30 seconds) and that those who only
ask, never those who edit, keep asking. `UserDocuments!FairSpec` says that a caller
finishes its request and that one whose request failed repeats it, unless a
repetition would make another document; `EntryQueryPaging!FairSpec` that the
reader goes on. Nothing forces a fault, a crash, an edit or an administrator to
happen, or not to.

**Histories.** `origin`, `changed`, `disturbed`, `overtaken`, `source`, `old`, `whole`,
`got`, `touched`, `steady` and `ever` are read by properties only; no action's guard
depends on them. `overtaken` marks a `Ping` during which others changed the
registry, `disturbed` a request during which others changed the catalog or that
overlapped one on the same subject: the properties that
exempt those say what a caller may rely on when it is alone with its subject, which
is all that code without locks can promise, and they do not exempt what failures
or earlier races left behind.

## The proofs

Each proof module extends the module it is about. The constants need only the
`ASSUME`d facts stated there, which TLC evaluates in every run.

- `UserSyncProofs!TypeCorrectness`: `Spec => []TypeOK`. The part that is not about
  types is that an operation makes only its own calls (`StageOf`) and reports only
  its own outcomes (`OutcomeOf`), also where `UpdateUser` turns into `EnsureUser`.
- `UserSyncProofs!ClearanceStays`: `AdminWhen # "anytime" /\ Spec => []ClearanceHolds`.
  The invariant `ClearInv` strengthens it to every stage a caller may still return
  to, since `ret[c]` is fixed long before it is used. One lemma (`CallClears`) shows that a call keeps its
  caller's part; another (`CallHarmless`) that it never makes a principal protected,
  so that it keeps all other callers' parts (`FrameClears`).
- `UserSyncProofs!ProtectedStays`: under the same assumption
  `Spec => ProtectedUntouched`, from `ClearInv`: what a call touches is cleared.
- `UserSyncOutcomeProofs!SuccessConverges`: `Alone /\ Spec => []SuccessMeansConverged`,
  where `Alone` is one caller and no administrator (with others, what was achieved
  may be undone before the reply). `SuccessInv` says what each operation has achieved
  by the time it is at a call, `ret[c]` included: `EnsureUser`, for instance, works on
  metadata with the type right and, if it is to return, the password set.
- `UserSyncOutcomeProofs!CreatedStaysMarked` and `!ClaimingMarks`: `CreatedMeansMarked`
  under `Alone`, and `CreatedIsMarked` if the policies also claim; the run
  `UserSync_unmarked` shows that the second needs that. `MarkInv` follows the
  markers that are in place and those in `todo[c]`.
- `UserSyncOutcomeProofs!OwnershipStays` and `!RemovalsMarked`:
  `OwnershipFollowsCreation` and `RemovalNeedsMarker` for any number of sources,
  under `SeparateSources`: one caller for each source, no `ClaimExisting`, no relaxed
  deletion, administrators act between requests, and no source is called "admin" or
  "none", the other values of the history. `OwnInv` says that the principal
  a caller is about to mark was created by it (`Holds`) and that a missing
  principal has neither creator nor metadata. A call changes only what its own source
  created and what is missing (`OwnedOnly`), so it keeps what the others
  hold (`FrameHolds`).
- `S3BucketsProofs!TypeCorrectness` and `!SharedFileExcludes`: `TypeOK` says that a
  mutex is held exactly while one of its callers is within an operation, and that
  is inductive only together with `MutualExclusion` (a second caller inside would
  stay there when the first unlocks), so both are proved at once as `TypeInv`.
- `S3BucketsProofs!SharedFileKeepsNamesUnique`: callers that all share one
  `MappingFile`, on a catalog that nobody else edits, satisfy `NeverDuplicates`. The
  invariant `UniqueInv` adds what the duplicate check established and the later
  calls rely on: from the check to the addition of the AVU no other collection in
  scope has the name (`Reserved`), which the mutex protects.
- `S3BucketsProofs!SuccessStaysMirrored`: `Spec => SuccessMirrorsCatalog`, for any
  services, callers and edits. `MirrorInv` says that a caller that nobody disturbed
  has found, at each search of its refresh, what the catalog holds at that moment.
- `S3BucketsProofs!RefusalsChangeNothing` and `!RegistryRefined`: for callers that
  share one `MappingFile`, on a catalog that nobody else edits,
  `Spec => []RefusedMeansUnchanged` and `Spec => ImplementsRegistry`. `QuietInv` joins
  `UniqueInv` and `MirrorInv` with what an operation knows before its first write:
  it has changed nothing, and the AVUs it has listed are those of the collection; after
the first write only a missing scan root can refuse it, and beneath that root there
would have been no collection to write to.
  For the refinement each action is shown to map to a step of `S3Registry` or to a
  stutter: the addition of the AVU registers the name, its removal takes it away,
  and only the rename of the mapping file publishes.
- `SearchRegistryProofs!TypeCorrectness`, `!StatusesStayMatched`: the two maps agree
  for any number of callers, endpoints and config files. `TypeOK /\ StatusesMatch`
  is inductive.
- `SearchRegistryProofs!PathStaysOfEndpoints`: `LoneLoader /\ Spec => []PathOfEndpoints`:
  with one caller that loads files, the critical section that replaces the
  endpoints and the one that sets the path belong together.
- `SearchRegistryProofs!PingsAgree`: `Spec => []PingAgrees`. The invariant follows a
  `Ping` from the endpoint that it reads to the status that it returns, and says
  that until another request overtakes it the status is the one that it recorded.
- `S3UserKeysProofs!TypeCorrectness`: `Spec => []TypeOK`, again proved with mutual
  exclusion (`TypeInv`); `Fits` says which request may be at which stage, without which the
  types of a secret or a draft do not follow.
- `S3UserKeysProofs!SharedFileKeepsOthers`: `SharedFile /\ Spec => UpdatesKeepOthers`.
  `KeepInv` adds that what a caller is about to publish is the file *as it is now* with its
  own entry, which holds because nobody else can publish meanwhile (`LonePublisher`).
- `S3UserKeysProofs!OneWriterKeepsReadable`: `OneWriter /\ Spec => []MarkedSecretsReadable`,
  where `OneWriter` says that those who write one home use one mapping service.
  `ReadInv` adds what a writer has made of its data object at each call (`Rewrites`);
  no other writer of the home is between calls (`LoneWriter`).
- `S3UserKeysProofs!SuccessIsPublished`: `SharedFile /\ Undisputed /\ Spec => SuccessPublishes`.
  `Undisputed` says that callers of the key service, which has no mutex, keep off the
  homes that others change through the mapping service, and that no refresh runs
  beside them; a refresh reads homes one by one, so a key stored behind it is not in
  the file. `PublishInv` follows a refresh (`Drafted`: what has been read is in
  the draft, user by user) and an update from its write to its publication.
- `UserDocumentsProofs!TypeCorrectness` and `!CreationStays`: `DocInv` says for each
  service which request may be at which stage, on which file, with which draft
  (`FavoriteFits`, `CartFits`, `QueryFits`); a draft of a saved query carries the time
  of creation because it was made from a readable one. Each service has a lemma
  that its steps keep `DocInv` (`FavoritesOK`, `CartsOK`, `QueriesOK`), and the
  lemmas about shared calls are stated once for any service and next stage.
- `UserDocumentsProofs!EmptyNeedsFailure`: `Spec => []EmptyOnlyByFailure`, inductive
  together with `DocInv`: a step that uses up no failure is `Harmless`, that is, it
  leaves a saved query empty only by going on to write it.
- `UserDocumentsProofs!FavoritesAreKeyed` and `!CartsAreAsAsked`:
  `Spec => OneFavoritePerPath` and `Spec => CartAsAsked`, for any callers and any
  documents to begin with. In `AskedInv` a caller that is not disturbed works
  on a path, or a cart, that nobody else at work is about (`Apart`), and what it has
  listed and not yet deleted are the AVUs that are there (`Knows`). The proof
  has a lemma for each call of each service, and lemmas that a call on one subject
  leaves what is known of another alone.

- `EntryQueryPagingProofs!PagesTileTheResult`, `!PagesAreHonest`, `!ChangesOnlyShift`,
  `!MatchesAreTold` and `!TypeCorrectness`: the five invariants of the run, for every
  catalog, query, cursor, page size and batch. What a scan computes is written with
  ranks (`Nth`, `Pick`) and not with recursion, so that it can be reasoned about.
  Three groups of lemmas carry the proof. Those on
  scans: the rows that are read are the first rows (`FirstRows`), enough of them
  for the page (`ReadsTo`), so that the page is a window of the entries in order
  and `exhausted` says whether more follow (`ScanFacts`). Those on windows: a window
  and what follows it are what there was to read (`WindowSplits`). Those on
  changes: a result with an entry more embeds the one without it (`Embeds`), so
  that what is left to read from a cursor on keeps all its entries but that one
  when entries are added, and has none twice when they are removed; and that two rows
exchanged leave as many entries (`SwapFacts`). The inductive invariant
  `ReadingInv` then is about `Readings`: the pages so far, the page in the making and
  what is left from its cursor on, one after the other. As long as nothing changes, the
  order of the rows included, that is `whole` at every step (`TileInv`); with additions it has
  all of `whole` (`SkipInv`), with removals nothing twice (`OnceInv`), and with the order
  changed as many entries as `whole` (`LengthInv`), from which `PageHonest` follows in any order. `BuildInv` says where a page stands at each
  stage, among others that it has said that there is more or its cursor is closed, or it is
  about to look. `MatchesAreTold` adds `ToldInv`: what a page tells of the entries
  that it has.
  The assumptions on constants are that branches have different entries, that rows
  have the entry they belong to, and `CatalogAssumption`: an `int` counts the
  entries of the catalog three times over. `Init` asks for two things of what the reader brings:
  `Fits`, its limit and offset do not overflow, and `Belongs`, a cursor in the
  collections comes from a query that reads them. Both are kept by every page.

- `PathLookupsProofs!BucketIsNearest`: `Spec => []NearestBucket`. `WalkInv` says that while
  ancestors are looked at, those nearer to the object than `at` were not marked
  all along, and that `steady` and `ever` bound what is marked now from both sides.
- `PathLookupsProofs!IgnoredStaysIgnored`: `Spec => []HiddenStaysHidden`, for every listing
  and every ignore file. `FileInv` says that the answer is what `Filtered` makes of the file,
  if that did not change while it was loaded: `size` is its length until it is read.
  The rest is about the matcher: the last rule that hits decides (`LastOfMany`,
  `LastRuleHides`); a rule that hides what lies beneath and matches a directory
  matches everything there (`Beneath`); so only a later negation could bring an
  entry back, and `ParentIgnoredBefore` forbids that because, being the only negation, it
  finds the directory ignored by the rules before it (`HidesBeneath`). What
  `MatchSegments` computes by recursion plays no part: the argument holds for any
  matching of segments. The assumptions on constants are types
  (`PathLookupsAssumption`).

**Only model-checked.** All liveness (`EventuallyOwned`, `EventuallyMirrored`,
`EventuallyTruthful`, `EventuallySettled`, `EventuallyRead`): fairness and `ENABLED`
are beyond the proof system's backends. That the recursive function in `MatchSegments`
matches what its patterns say would need induction over data; no property is about it.

## What the models found

Three statements of the package documents that the code does not keep, each with
a run that shows how:

1. `usersync/README.md:36`, created users and groups are marked. `EnsureUser`
   creates a user and marks it several calls later; if the reply of the creation is
   lost, as in the trace, or a call between the two fails, the retry takes the conflict path, which without `ClaimExisting` marks only
   what is marked already. The user stays unmarked, is reported as existing, and
   can not be removed by the sync (`UserSync_unmarked`).
2. `searchplugin/README.md:50`, reloads reset status state. A request that was
   under way during the reload records its outcome afterwards, by ID, even if the
   ID has another base URL by then (`SearchRegistry_reload`).
3. `s3admin/README.md:89-91`, writes of the user mapping file are collision-safe for
   concurrent writers in the same process. Each `NewS3UserMappingService` has a mutex
   of its own, so two services on one path load and replace the mapping
   interleaved and lose entries (`S3UserKeys_two_services`).

The passing runs and theorems state conditions. Without them the
same properties fail in the models, for these reasons:

- `RemovalNeedsMarker` with two callers of *one* source: between the managed check
  and the removal by name the user is removed and created again, unmarked.
- `ProtectedUntouched` with administrators who act *during* requests: a user who is
  promoted between the type check and a later call is changed.
- `NeverDuplicates` with two `MappingFile`s on one path (both pass the duplicate check),
  or with an AVU written by hand in upper case (listed as a bucket, but not found by
  the duplicate search, which is exact).
- `RefusedMeansUnchanged` with a collection outside a scan root that is missing. The code
  checks the scan root when it rebuilds the mapping (`s3admin.go:754`), after the AVU was
  added (`s3admin.go:412`), replaced or deleted: the caller gets `ErrInvalidIRODSPath`
  and the AVU has changed. A retry of `AddBucket` is refused in the same way.
- `EventuallyMirrored` when the scan root is removed: every refresh is refused, and the file
  keeps buckets whose collections are gone.
- `MarkedSecretsReadable` with two writers in one home, one of them the unlocked key
  service: one marks what the other has just recreated empty. The runs assume that
  nobody else writes a home during a store.
- `PathOfEndpoints` with several loaders: endpoints and path are set in two critical
  sections. `PingAgrees` when another request on the endpoint ends between the
  two of a `Ping`.
- `OneFavoritePerPath` and `CartAsAsked` when two requests on one path or cart
  overlap: both list, both delete, both add, and two names stay until the next
  request. `RenameFavorite` that fails between deletion and addition loses the
  favorite, and its repetition reports that there is none.
- Saved queries have no versions: of two updates one is lost, and an update that
  loaded a query before it was deleted writes it anew. `CreationKept` and
  `EmptyOnlyByFailure` are what remains true.
- `EmptyOnlyByFailure` has its exemption for a reason: a saved query whose creation
  failed halfway is an empty file, and every later listing fails on it.
- `HiddenStaysHidden` with two negations. `ignore/README.md:81-82` says that a
  negation "cannot re-include a child path if a parent directory is still ignored".
  `IsIgnored` looks only at the rules before the negation, one by one for each parent
  path, and does not ask whether the parent's own re-inclusion counted: with the
  rules `b`, `!b`, `!a` the directory `b/b` stays hidden while `b/b/a` comes back.
- `HiddenStaysHidden` when the ignore file grows between `Stat` and `Read`: as many
  bytes as it had are read, and the last rule may be cut.
- `MatchesTold` when the rows of one entry do not follow each other: the scan stops at
  the first row of the next page's first entry and loses what comes later of
  entries that it has already counted.
- `PagesTile` and `ChangesShift` with a server that changes the order of its rows between
  scans: for each entry that comes twice one is skipped, although nothing was edited. The
  requests carry no order (`query.go:449-504`), and `metadata/DEVELOPER_NOTES.md:364` and
  `:375-380` name this limit of the cursors. While the order stays, or in any order for the
  number of entries and for `more`, the properties hold.
- `EventuallyRead` counts a refusal as an end: a data-object condition on a path that is not absolute is
  refused only when data objects are asked for (`query.go:591-594`), after pages of
  collections may have been returned.
- `PagesTile` with a limit so large that offset and limit together overflow `int`
  (`query.go:393`): a later page stops after its first batch. `Fits` keeps the sum within
  `int` in the first page, and a catalog that `int` counts three times over keeps it there.
- `PagesTile` with a cursor in the collections that is handed to a query for data
  objects only: `QueryEntries` scans neither branch and returns an empty last page.
  `Belongs` leaves that out.

## What is left out

Of the modelled components: wording and wrapping of errors, IDs, zones, member
lists returned to callers, JSON layout, creation of directories for files, path
normalization and permissions, the generation and the format of keys (a key is
valid or not), URL composition, routes, query parameters and bodies of plugin
requests, authorization headers (a refusal is a failed exchange), latencies, the
building of a GenQuery from conditions and scopes (the server says which rows it
returns), the syntax of ignore rules, and wildcards within a name. Reading
operations that keep nothing between calls (`ListBuckets`, `GetUserSecretKey`,
...) are left out where no property needs them. The catalog's own consistency is
taken as given: one call is atomic, an equal AVU is refused, a removed object
loses its AVUs.

**Not modelled.** AVU mutation and lookup of `metadata` is one query by ID and one
update that the catalog makes atomically, passed on with its error; there is no
state, order or retry of the library's own. `tickets`, manifests, `irodsauth`,
`irodsuri`, `cmdcues` and the authorization of plugin requests encode, parse or
build one value; `oidcverify` is a single check of a token by an external
library. The integration tests and their utilities are not part of the program.

## The plan

1. `UserSync` with `UserSyncProofs` and `UserSyncOutcomeProofs` - done. Every safety property of its runs is proved.
2. `S3Buckets` over `S3Registry` with `S3BucketsProofs` - done. Every safety property
   of its runs is proved, and the refinement.
3. `SearchRegistry` with `SearchRegistryProofs` - done. Every safety property is proved.
4. `S3UserKeys` with `S3UserKeysProofs` - done. Every safety property is proved.
5. `UserDocuments` over `Favorites`, `FileCarts` and `SavedQueries`, with
   `UserDocumentsProofs` - done. Every safety property is proved.
6. `EntryQueryPaging` with `EntryQueryPagingProofs` - done. Every safety property is proved.
7. `IgnoreMatch` and `PathLookups` with `PathLookupsProofs` - done. Both invariants are proved.

Modules with proofs keep to recursive functions and folds and declare no
`RECURSIVE` operator.
