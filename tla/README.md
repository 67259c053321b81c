# Verification of CaBrain

TLA+ models of the parts of CaBrain that carry its own logic, TLC runs over small instances of
them, and TLAPS proofs for instances of any size.  Paths are relative to the repository; file names
without a directory are in `plugins/brain/internal/brain/`.

1. [The system](#1-the-system) — inventory, interactions, what is hard
2. [Modules](#2-modules) — which module models which code, and how
3. [Runs](#3-runs) — what TLC checks, the bounds, deadlock and fairness
4. [Proofs](#4-proofs) — what holds for every instance, and why
5. [Divergences](#5-where-the-code-and-its-documents-disagree) between the code and its documents
6. [Not modelled, and what is left](#6-not-modelled-and-what-is-left)

## 1. The system

CaBrain is a Go server: the "memory organ" of a set of agents.  It keeps memories per brain
(*namespace*) in PostgreSQL (pgvector, optionally a BM25 layer), answers recalls, holds a graph of
entities, pulls documents from data sources, and lets a language model chat over all of it.  One
goroutine serves each HTTP request.  With the exception of recall queries, **no handler opens a
transaction**: every SQL statement commits by itself.  So a handler is a sequence of statements, and
those of all other requests may fall between any two of them.  This is where most of the hard
behaviour comes from, and why the models below have one action per statement.

| component | state | operations | what must hold |
|---|---|---|---|
| memory store (`store.go`, `writedecision.go`, `ops.go`, `admin.go`) | `memories`: rows with `invalid_at`, `superseded_by` | Retain (find the related row, decide, maybe retract, insert, supersede), Forget, EditMemory, Import, DedupSource, DeleteBrain | successors never dangle or cycle; retired rows stay so; a record that nobody forgot stays recallable as long as its event times follow its writes |
| recall cache (`l1cache.go`) | an epoch per brain, entries by epoch, in a shared key-value store | Recall's lookup, fill; bumpEpoch of the writers | a recall never answers from before a write that bumped and was answered before it began |
| retrieval (`store.go`, `search.go`, `gaps.go`, `schema.go`) | the pool of one request; `memory_gaps` | Recall, SearchAll: hybrid query, fallback, expansion, order, gap; ResolveGap | answers lie in the window asked for, were true, are complete as far as the index scan allows, in order, without doubles; dismissed gaps stay so |
| chat agent (`chat.go`, `agent.go`) | one run: turns, tool calls, citations, footprint | loop over Claude, loop over an OpenAI-compatible endpoint, single-shot retrieval; tools recall, neighbours, retain | citation numbers stay true; an answer does not break off in mid-search; the trace is complete; every chat ends |
| graph (`graph.go`) | entities, edges, labels, `communities` | DetectCommunities, Traverse, ShortestPath | labels stay in connected parts; walks are breadth-first and shortest |
| data sources (`datasource.go`, `connectors.go`) | `brain_datasources`: status, `doc_count` | create, delete, sync, webhook push, chunkText | counts are backed; "syncing" means that someone syncs; chunks are the text |
| access (`acl.go`, `handlers.go`, `ops.go`, `plugins/brain/plugin.go`) | `brain_tokens`, `namespace_grants` | the gate, identify, grant look-up; tokens, grants, sessions | only what was authorised acts, whatever changes between the checks |
| secrets vault (`secrets.go`) | `brain_secrets` | captureSecrets on retain, put, reveal, delete | content is redacted wholly or not at all; what a reference shows is what a capture put there for it |
| events hub (`events.go`) | a mutex, a set of subscribers, a channel of 32 messages for each | publish (drops when full), subscribe, leave | all dashboards see one order; nobody who reads slowly holds a request up |
| Cognee client (`plugins/brain-cognee/internal/cognee/client.go`) | the cached token of a process | Cognify: add, then cognify; login; a 401 drops the token and tries once more | a retry carries another token than the one refused |
| Cognee mirror (`plugins/brain-cognee/mirror.go`) | none of its own: upserts `entities`, `memory_entities` | Mirror: fetch, read the graph, upsert, check, link | no memory of another brain is linked, none that has a near entity is missed |
| read models (`spine.go`, `queries.go`) | none | the spine query; the explorer, five statements; listings | totals are the population, whatever is capped; a sample says that it is one |
| export archive (`admin.go`) | a file | Export, Import | each record says last what it said last |
| TEI client, Redis cache plugin, MCP bridge, `cmd/*`, web console, `scripts/` | none of their own | HTTP and SQL clients, wiring | — not modelled |

How they interact.  A data source, a chat's `retain` tool, an import and the handlers all end in
Retain, which passes through the vault first, then the write decision, and bumps the epoch of the
brain last; what it stored goes to Cognee on a goroutine of its own, and an event to the dashboards.
Recall asks the cache, then the database, then the entity links that the mirror and the graph scripts
maintain, fills the cache, and records a gap if it found nothing.  The mirror brings back, later and
from another process, what Cognee made of the memories.  Chat calls Recall and the graph.  The gate
stands before every handler but the webhook's; the rights on a brain are checked by each handler for
itself, and not by all: Import, Export and ResolveGap (handlers.go:360, 348, 323) make no such check, nor
do the explorer, Gaps, BrainDetail and the listings of the console (see section 6).

What is hard to test here (the list by line is in `PROJECT.json`, `hazards`):

* *rows read by one statement and written by a later one*: the superseded row of Retain, `doc_count`
  of a sync, labels of two detections, the grant of a session, the memory a mirror is about to link, the
  sample and the counts of the explorer, the token of a goroutine whose neighbour has logged in anew;
* *failures between two statements*: the retraction without its correction, half of the secrets put,
  "syncing" left behind, the fallback inside an aborted transaction;
* *orders*: a cache fill after the bump, two bumps that overtake each other, citations that must keep
  their numbers over turns and tools, events that overlapping requests publish, the lines of an archive;
* *boundaries*: bytes against runes in the chunker, candidate lists smaller than the rows that match,
  the last turn of the agent, depths, hubs, caps and limits of the walks, a dashboard's full channel.

## 2. Modules

`PROJECT.json` maps each definition to its lines.  Common conventions: one action per SQL statement or
per HTTP call, named after the function it belongs to; `pc`, `job`, `writer`, `reader` or `phase` say
where a request is; variables marked *history* in the module exist for the properties only.  A
definition with the comment "Mutant" is a plausible bug, used to see that a property notices it.

| module | models | built on |
|---|---|---|
| `MemoryStore` | the table `memories` and every handler that writes it | |
| `RecallCache` | cache, epochs, the writers that are to invalidate it | refines `BoundedRecall` |
| `BoundedRecall` | abstract: a recall answers from a state between "begun" and "answered" | |
| `Retrieval` | one recall or search from query to answer, and the gaps | |
| `Archive` | an export and the brain that an import makes of it | extends `MemoryStore` |
| `ChatAgent` | one chat: two loops, fallback, tools, citations, trace | |
| `Communities` | label propagation statement by statement, with other runs and writers of the graph | |
| `GraphWalk`, `Spine` | Traverse, ShortestPath and the spine query as functions of a graph | `Spine` extends `GraphWalk` |
| `Mirror` | the mirroring of Cognee's graph, and what it reads in it | extends `Communities`, `GraphWalk` |
| `Explorer` | the five statements of the graph explorer | extends `Mirror`, `Spine` |
| `Graph` | what the walks and the spine promise, over the graph that the others change | extends `Explorer` |
| `Hub` | the event hub: mutex, channels, dashboards that come and go | |
| `CogneeClient` | Cognify with the token that all goroutines share | |
| `Effects` | what a request leaves behind: an event and a Cognify | extends `Hub`, `CogneeClient` |
| `Chunks`, `Datasource` | chunkText as a function; syncs and pushes that overlap, fail and are lost | `Datasource` extends `Chunks` |
| `Access`, `Vault` | the checks of a request, one statement each; the requests that touch secrets | `Vault` extends `Access` |
| `*Proofs` | theorems about `MemoryStore` (with `Archive`), `RecallCache`, `Retrieval`, `ChatAgent`, `Graph`, `Datasource`, `Vault`, `Effects` | |
| `MC*` | constants for TLC | |

**MemoryStore.**  `mem` maps ids to rows (brain, record, content, event time, fate, successor);
`job[w]` is the request a worker serves.  Retain is `RetainStart` (read the newest live row of the
record, or the most similar row of the brain: `DecideRecord`, `DecideNote`), then `RetainNoop`, or
`RetainRetract`, `RetainInsert`, `RetainSupersede`; the error of the last one is ignored, as in the
code.  `Import` commits line by line.  A statement that writes many rows takes two steps, as READ
COMMITTED has it: a sweep chooses its rows by the snapshot with which it begins (`DedupRead`), waits for
whoever has locked one, and then writes by id alone (`DedupWrite`), also a row that was retired
meanwhile; a deletion takes the rows that were there when it began (`DeleteRead`, `DeleteWrite`).  A
deleted row keeps its place, with the fate "deleted", so that the properties may speak of it; no
statement sees it.  The neighbour of a note is the nearest of *any* set of live rows, those that the
approximate index has seen, which may be none.  Ids are numbers in the order of insertion, although the column
is a UUID: the code never compares them, and the order lets the properties say "later".  The content is
a model value; `Norm`, `Similarity` and `Negating` are the outcomes of normText, of the
embedding and of the negation cues, so `writeDecision` is the code's decision with its thresholds.

**RecallCache.**  The contents of a brain are abstracted to a counter of committed changes.
A recall reads the epoch, looks up, queries, fills; a writer commits (once or often), stamps, sets,
answers.  Handlers are in `Bumping` or in `Silent` as the code has it: DedupSource and untargeted
Import never bump.  Both kinds are in the run and in the theorems; what a recall owes (`acked`) is the
newest change answered by a handler that bumps, since nothing tells the cache of the others.  An entry
may expire at any time, as may an epoch's key be missing at first.

**Retrieval.**  `Near`, `HybridPools` and `VectorPools` are the possible answers of the two queries:
*any* `EfSearch` rows of the index (so any similarity), filtered afterwards, any order of the fused
pool (so any scores and any reranker), but exactly the code's filters and limits and the places where
they apply.  The expansion is a second read, later, of a table that may have changed.  `tx` is the
state of the transaction, for the fallback.

**ChatAgent.**  `run` is agentRun: provider, turns, pending tool calls, citations, footprint.  What a
model says is a choice: an answer, a blank, any sequence of tool calls.  Any call may fail; tools may
be rejected at any turn, for the code recognises the error by its text at every turn.

**Communities.**  One propagation round is an UPDATE that computes from its snapshot and then locks:
`moves` holds what it will write, so that another run or a writer may come in between.

**GraphWalk, Spine.**  Each is one recursive SQL query, hence a function of the graph of one instant; the
promise it is compared with is a breadth-first search (`Ball`, `Sphere`).  In `Spine` an edge has the
instants at which its rows began, a role may be timed, and `SpineWalk`, `SpineBest`, `OfRole` are the
query's CTEs in their order, so that what a window drops before one row per entity is kept, and what a
cap drops after the total is counted, happens where the code has it.  `RowNumber` is the query's
`row_number()`: how many rows of the role are ahead of it, and one.

**Mirror.**  A caller of `Communities` may mirror instead.  The service answers with any graph of
`CogneeGraphs`; `EntityNames` and `MemoryEntityLinks` read it, including ids that are no nodes, documents
that name several memories (`Readings`: the code takes the first it finds in a Go map) and documents of
other brains.  Each upsert, each look at a memory and each link is a step; `wanted` is a history of what
the mirroring owes.  DeleteBrain may come between any two.

**Explorer.**  `view` is the request: a sample with a quota for each role, the count of the roles, the
count of the relations, the edges, and the mentions if there are no edges.  Entities may appear between
any two.  A count that fails is left empty, as in the code (`failed`).

**Hub, CogneeClient, Effects.**  `Stored` is what a request does when its memory is in the table: its
Cognify goes off, and the handler publishes.  The hub's mutex is `mu`; the loop over the subscribers is
one step for each, in any order, so a full channel drops and an empty one takes.  In `CogneeClient` the
service accepts, refuses or breaks any request; tokens are numbered as they are issued, logins happen
outside the lock, and `Drop` drops whatever token is cached by then.

**Archive.**  Export is the live rows in the order of `valid_at`; Import reads the lines one by one and
takes each one's own `now()` for its time, as the code does not insert `validAt`.

**Datasource.**  A job holds the copy of the row it read.  `Retain` is one step here, because its own
interleavings are `MemoryStore`'s.  `Texts` are the texts that a document may have.  A lost request (`Lose`) is a client that goes away or a process
that dies: its context is cancelled, so even the status UPDATE fails.  `Chunks` keeps of a paragraph
what chunkText looks at: its runes, its bytes and whether it is blank.

**Access, Vault.**  A request arrives with credentials, passes the gate, is identified, has its grant
looked up, once per check of its handler, and acts; tokens and grants are changed by other requests of
the same kind.  A text of `Vault` is a sequence of secrets, each with the first matcher that finds it
there and the label before it; a sealed value is the value (the cipher is the identity).  `Digest` is
the four bytes of the SHA-256 that a name keeps: a constant function that may take two values to the same
number.  As in extractSecrets, the matchers go over the text one after the other (`Earlier`), a value is
found and named where the first of them hits it (`First`, `NameOf`), and values are put in that order
(`IsNext`): seven matchers name by kind and `Digest`, the last two by the label.

**External.**  PostgreSQL (autocommit, snapshot per statement, aborted transactions), the cache
library, the embedder, the language models and the remote ends of connectors are modelled from how the
code uses them: by the results and failures it handles.

## 3. Runs

| run | question and result |
|---|---|
| `race` | Two requests (Retain, back-dated or not, import, sweep, deletion) in every interleaving with each other, forget, edit and one fault: `SupersessionSound`, `RetirementIsFinal`, `RecordStaysRecallable`; and in every table they leave, an export brings back what each record says (`ArchiveKeepsTheLastWord`). |
| `identity` | *violation*: two Retains of a new record both insert it. |
| `correction` | *violation*: the INSERT after a retraction fails and nothing records it. |
| `transparent` | Two writers, whose handlers bump or do not, two recalls, late fills, reordered bumps, expiries: `RecallCache` implements `BoundedRecall`, that is, no recall answers from before a write that bumped and was answered before it began. |
| `retrieval` | Two callers, five kinds of question, three tables with and without BM25, rows that arrive, retire and are deleted between the two reads: answers fit the question and were true (`AnswersFit`, `TrueWhenAsked`), miss nothing and fall back (`FindsWhatIsThere`), and dismissed gaps stay so. |
| `search` | *violation*: a search without the BM25 layer fails instead of falling back. |
| `providers` | All chats over both providers: citations, last turn, trace, termination. |
| `graph` | Two callers that detect communities or open the explorer, one of which may mirror instead, with changes of the graph and a deletion of the brain in between: `CommunitiesConnected`, `TableMatchesLabels`, `SampleIsHonest`, `MirrorIsTrue`; and on every graph before that, all walks (`WalksAreShortest`) and all spine queries (`SpineTotalsAreTrue`). |
| `sync` | Syncs and pushes of three sources overlap, fail and are lost; all texts of up to four paragraphs are chunked (`ChunksAreTheText`); every sync gets a verdict. |
| `console` | Three requests of two callers with every credential, while tokens and grants change: access and vault; content is redacted only when the vault has its secrets (`ReferencesWereVaulted`), and a reference by hash shows a value of that hash that a capture put there, though two keys collide (`HashedNamesResolve`). |
| `references` | *violation*: two passwords of one label share a name, and the first reference shows the second value. |
| `effects` | Two requests publish to two dashboards that connect, read and leave when they like, while two Cognifys share a token that the service may refuse at any time: `OneOrder`, `RetriesWithAnotherToken`, `PublishEnds`. |

**Bounds, and why they are enough.**  Everything here goes wrong, where it does, between *two*
requests: two workers, writers, readers, detections, jobs or callers are what every hazard above
needs, plus the background writers, which are single statements and need no caller of their own.
`MaxMemories = 3` gives a predecessor, its successor and a competitor (a chain of two supersessions);
a fact and its retraction give every outcome of the write decision (the same again, a retraction of
the fact, the fact after its retraction, a neighbour not found), and the event time 0 is older than any
that `now()` gives and the same for all rows that have it.  `MaxVersion = 2` has a write before and
one after a fill.  `MaxIters = 3` (5 in the code) has a first, a middle and a last turn, `MaxCalls = 2`
a second tool call whose memory was already cited.  Three entities with a cycle, a loop and free
forward edges give parallel paths of different length and components that split; the depths 0, 1, 3, 7
lie on both sides of every default and cap.  In `graph`, `Rounds = 2` is a round that reads what another
has written; a deletion of the brain counts among the changes (`MaxChanges`); the limits of a view are
below, at and above the number of entities, and `EdgeFactor = 1` (4 in the code) makes the cut of the
edges happen with few of them; of the two graphs that Cognee answers with, one has types, a foreign
document and an id without a node, the other has neither types nor an unambiguous document.
`SpineQueries` has one query for each combination of depth, cap, hubs, roles, timed roles and window.  In
`effects`, `Buffer = 1` (32) makes channels full with two events, and `MaxTokens = 3` has a token
refused, a new one, and one that a slow login stores over it.  `console` has five values: two keys with
the same `Digest` and one with another, and two passwords, one of them at two places, first where it is
matched later.  Three memories in
`providers` are one more than a turn finds.  `MaxRunes = 8` with paragraphs of 2 to 17 runes has sizes
below, at, above and beyond twice the limit, with one and with two bytes to the rune.
`EfSearch = 4 = |Ids|` is the case for which completeness is claimed: a scan that may look at every
row.  `PoolSize = 3` is below the number of rows and above the limits asked for.  `MaxFaults`,
`MaxLost`, `MaxChanges` and `MaxJobs` limit how often the environment strikes; `MaxRequests = 3` has a
request checked while two others change its token and its grant.  The proofs of section 4
do without any of these.

**Symmetry** is used where the model treats the members alike: workers in `race`, callers in
`retrieval` and `console`.  These runs check invariants and step properties, not liveness.

**Deadlock.**  All configurations say `CHECK_DEADLOCK FALSE`: a chat ends, a caller of `Retrieval` asks
once, and the counters that bound the other models (rows inserted, versions, runs, jobs, requests,
tokens, the clock) stop them by design.  That nothing gets stuck on the way is stated by the liveness properties
where the code makes a promise: `ChatEnds`, `SyncConcludes`, `PublishEnds`.

**Fairness.**  `ChatAgent` assumes WF of its next step, `Datasource` WF of each request's own steps
(`FairSpec`): a goroutine that is not cancelled runs on, and no call it makes can block for ever, as
the chat's HTTP clients have timeouts of 120 s and 90 s and the connectors of 30 s and 60 s.
`Effects` assumes WF of each handler's own steps in `publish`: a goroutine that is runnable runs, and
the mutex is given to those who wait for it (each handler publishes once, so nobody can be overtaken
for ever).  Dashboards get none: they may stop reading for good.  New
requests, losses and changes of the environment are never assumed to happen.  No other run needs
fairness.

## 4. Proofs

All theorems are checked by tlapm to the last leaf, with no facts taken on trust.  Every invariant and
every action property that a passing run checks is the statement of a theorem; the run shows it on a
small instance, the theorem for all values of the constants that satisfy the named assumptions.

* **MemoryStoreProofs**: `TypeCorrect`, `Supersession`, `Retirement`, `Recallable`, for any brains,
  records, contents, embeddings, event times, workers, faults.  `SupersessionSound` is not inductive: the
  last step of Retain writes two ids that earlier steps read.  `JobSound` says what is still true of them:
  the row to retire is of the request's brain and record, and as long as it is in the table so is the row
  inserted after it, since only a deletion removes rows, and it removes the oldest first
  (`OldestGoFirst`).  `Retirement` follows row by row from what a step may do to one (`RowStep`): the
  UPDATEs of Retain and Forget ask whether the row is live and the sweep's does not, so a sweep may put its reason over another one, but
  only if it had listed the row while it was live, and never over a successor.  `Recallable` speaks of a record
  whose event times, supplied or not, follow the order of its writes (`WrittenInOrder`, a condition on the
  rows and not on the constants): then a sweep and a supersession, however old what they read, leave a row
  that was written later than each they retire (`SweepSound`, `Outdated`); for others it is not true (see
  section 5).  `ArchiveIsFaithful`, for any event times with
  any ties and any file, rests on `TypeCorrect`: a listing of finitely many rows without repetition
  misses none, and the last line of a record is one of its newest rows, since the lines come in the
  order of `valid_at`.
* **RecallCacheProofs**: `TypeCorrect`, `NoStaleRecall` and the refinement `Transparent`, for any
  handlers, those that never bump included: neither asks that a recall shows what only these have
  changed (see section 5).  The invariant: what is cached, or about to be filled, under the *current* epoch
  holds every write of a handler that bumps which has been answered or has bumped (`FillsFresh`); the key
  a recall has chosen holds nothing older than its floor even if the epoch moves on (`HitsFresh`); a stamp
  is fresh when it is set (`StampsFresh`), although two stamps may be set in either order.
* **RetrievalProofs**: `RetrievalTypeCorrect`, `AnswersHeldTrue`, `AnswersAreFit`, `AnswersAreFound`,
  `DismissalsLast`, for any tables, questions, limits and callers.  `RetrievalInv` says of each
  request, by its phase, what is true of its pool or its answer: its rows are in the window, were live
  when it was asked or at the instant it asks about, and there are enough of those that matched
  *all along*, whatever came or was retired since.  Beneath it, filterTemporal keeps exactly the rows
  in the window, and the insertion sort of sortByValidAt loses and doubles none and puts them in order:
  inductions over a list, see below.  Completeness has the precondition of the code, an index scan that may
  look at every row (`EfSearch`).
* **DatasourceProofs**: `SourcesTypeCorrect`, `CountIsBacked`, `SyncEndsWithAVerdict`,
  `SyncLeavesItsChunks`, `ChunksKeepTheText`, for any sources, documents and number of overlapping
  jobs.  What a job is about to write is no more than what was retained (`Backed`).  `SyncInv` follows a sync
  that nobody disturbs: every chunk of what it fetched is live or still to be retained (`Carried`).
  `ChunksKeepTheText` is about chunkText alone, for every text: after each paragraph the chunks and the
  buffer are the text so far, and none has more runes than the limit, though room is counted in bytes.
* **VaultProofs**: `VaultTypeCorrect`, `AuthorisedActs`, `RevokedTokensAreShut`, `ReferencesAreVaulted`,
  `HashedReferencesResolve`, for any tokens, agents, grants, texts and any interleaving of their changes.
  The first invariant says of each request, by the place it is at, what has been checked (`Checked`), that every
  right asked for so far was held at some time since the request arrived (`Remembered`), and that its
  token exists and, if live now, was live then (`Known`).  The second, `VaultInv`, says what a capture
  has put so far and where it is in its text (`Underway`), that a stored memory shows either its text or the
  text with *all* its secrets replaced and put (`Stored`), and that what stands under a
  name by hash that no operator wrote is a value which some capture put there, with the hash of the name
  (`Lasting`).  It need not be the value that was replaced: a name keeps 32 bits of the hash, and another
  value of the same kind with these bits takes it over.  The least of the matchers that hit a value, and
  of their places, exists since matchers are finite and places are numbers (`Least`, `FirstIsAPlace`).
* **ChatAgentProofs**: `ChatTypeCorrect`, `FootprintIsComplete`, `AnswersComeLast`,
  `CitationsStayStable`, for any memories, providers, replies and cap.  `ChatInv` says by the phase of a run how the trace
  relates to the calls that were made, and that outside the loop over Claude no answer is kept that
  came with tool calls.  That numbers stay is an induction over what a tool finds: each memory has
  its number already, or is numbered behind all others (`OneMore`, `RegisterExtends`).
* **GraphProofs**, for any entities, edges, callers, rounds and anything that Cognee may answer:
  `GraphTypeCorrect`, `LabelsFollowEdges`, `TableIsOfThisRun`, `MirrorKeepsToTheBrain`,
  `SampleStaysHonest`, `WalksFindTheNearest`, `SpineTotalsAreOfAll`.
  - The labels: `CommunitiesConnected` says of `label` that it keeps to its side of every set of entities
    that no edge seen leaves (`Spread`); it is inductive only with the same said of `moves`, the labels a
    round has read and not yet written.  That `Best(n)` is a label n has heard needs that among finitely
    many labels one wins (`Winner`, from a minimal element).
  - The table: while a run that overlapped with no other is there, all others are idle, and before it
    inserts the table is empty (`TableInv`).
  - The mirror: what it will link names entities that are there or on its list, what it has checked is
    the brain's own, and what it owes is linked, checked or still on its list as long as nobody deletes
    the brain (`Fits`).  `OwedIsFound`: the search of `MemoryEntityLinks`, with its set of visited ids,
    reaches all that is within two edges.
  - The explorer: entities are never removed, so a part of them that was counted later is a part of what
    was counted (`Fair`, `PartOf`).
  - The walks: the rows of the recursive query are exactly the paths without repetition (`WalkIs`); what a
    path reaches in k hops is within k hops (`PathReaches`), and what is k hops away and not nearer has
    such a path of k hops, since an entity on the way there cannot be the entity itself
    (`SphereReached`).  So the guard against circles loses nothing.  A LIMIT takes as many as it says, as
    the places in an order are numbered without gaps (`Numbered`, `FirstFew`).
  - The spine: the rows are the paths through hubs with an edge that reached their end (`SpineWalkIs`).
    An entity has a row in time if and only if one of its edges in time comes from where the walk gets
    to *without it* (`KeptIsBelonging`); of its rows DISTINCT ON takes one (`BestIsOne`), and the numbers of
    a role's rows are 1 to its total (`ItemsAre`), for names are unique in a brain (schema.sql:163).
* **EffectsProofs**: `EffectsTypeCorrect`, `EventsInOneOrder`, `RetryIsNotTheSame`, for any handlers,
  dashboards, buffer and tokens.  `HubInv` adds to `OneOrder` that the event being published is the last
  of the order and in no channel its loop has still to come to.  `ClientInv` says that a
  token that is logged in for but not stored yet is nobody else's and was never refused (`TokenIsFresh`),
  so that what a goroutine dropped after a 401 does not come back into the cache (`Dropped`).

*Induction over data.*  The induction theorems of the library take a predicate as a parameter, which the
provers cannot instantiate.  Instead, the modules prove once that a *set* of numbers which holds 0 and
with each number the next one holds them all (`Counting`), and use it with the set of the numbers of which
the claim is true.  A recursive function is a CHOOSE of a solution of its equation, and so are the folds:
once a solution is exhibited the equation may be used, and `Counting` says what it computes.

*Assumptions* on the constants are named in the modules (`NamesAssumption`, `AccessAssumption`, ...);
TLC evaluates each on every run.  They say what the source fixes: ids are numbers, names in a brain are unique,
limits are numbers, each secret value has a hash, and what is sent is among the texts that may be sent.

**Only model-checked**: liveness (`ChatEnds`, `SyncConcludes`, `PublishEnds`), for temporal reasoning
with fairness and ENABLED is outside the prover's reach; and the four runs that end in a violation, whose
counterexamples are what they show.

## 5. Where the code and its documents disagree

Four runs end in a violation and stand in `PROJECT.json` as findings: `identity` (store.go:301),
`correction` (store.go:328), `references` (secrets.go:225) and `search` (search.go:95).  The following were met while modelling and have no run of their own; the models do
what the code does.

* *Memory store.*  The live row of a record is the one with the newest `valid_at`: after a backdated
  update the older statement may win, and a dedup sweep may then retire both rows, which is why
  `RecordStaysRecallable` speaks of records written in the order of their event times.  The sweep's UPDATE
  selects by id alone (admin.go:288-291), where the other retirements ask for `invalid_at IS NULL`: it
  overwrites `invalid_at` and `forget_reason` of a row that was superseded or forgotten while it waited.
  A sync that finds
  a row unchanged inserts it again under its ref, where `docs/datasources.md:95-97` promises no copies.
  A ref is tested for blanks trimmed and compared untrimmed, so `x` and `x ` are two records.
* *Archive.*  Export writes `validAt` and Import drops it, although schema.sql:191-192 says that event
  times are back-dated on import; a file imported twice is there twice.
* *Cache.*  A dedup sweep (admin.go:266) bumps no epoch, so later recalls show what it removed until the
  next bump of the brain or until the entries expire, where l1cache.go:21-23 has a write orphan them at
  once; neither does an Import whose lines name the brains.  The properties ask nothing for the changes of these
  two.  An error of the
  cache's Get reads as epoch 0.  An empty recall that is cached does not count further hits of its gap.
* *Retrieval.*  `SET LOCAL hnsw.ef_search` is said to be harmless when refused (store.go:684-685), but
  its error aborts the transaction, and both queries of the recall fail; pgvector refuses values above
  1000, while hnswEFSearch accepts 10000.  The LIMIT of the expansion counts the pool's own rows, which
  are then dropped, so it may return nothing although there are neighbours.  The expansion ignores
  the types and excluded sources of the query.  The hybrid query applies the minimum importance after
  its limits.  "oldest" reverses rows of the same time.
* *Chat.*  The footprint lacks the calls of a provider that was given up (chat.go:8-9 says "full trace");
  an endpoint that rejects tools on a later turn is not the "genuine failure" of agent.go:388-391 but
  starts over; the loop over Claude has no last turn without tools and may answer with nothing.
* *Graph.*  Lock-step propagation lets two joined entities swap labels for ever (graph.go:241-243), so
  two neighbours may end in different clusters.  A traversal's LIMIT keeps the smallest ids, not the
  nearest entities.
* *Spine, explorer.*  "Empty hub list = a single hop" (spine.go:256) cannot be asked for, as an empty
  list is the default one; a window that cannot be parsed is no window.  `Sampled` is said to be true
  "when Nodes/Edges are a subset" (queries.go:158) and looks at nodes only; the edges are cut before
  those outside the sample are dropped, so all of them may go although some would be shown, and the
  mentions stand in; the limit comes after the quotas and may drop whole types; when the count fails a
  sample is not marked as one.
* *Cognee.*  After a 401 the client "re-logs-in" (client.go:251-252), unless somebody has stored a token
  meanwhile, which may be an older one of a slow login; and it drops a newer, good token as well.  The
  links of a document that names several memories depend on the order of a Go map, where
  client.go:432 says "Deterministic order".  A memory is looked for in one statement and linked in the next
  (mirror.go:85, 90), so a link may outlive its memory, and the "sleep workers" that are to remove it
  (schema.sql:166-167) are not in the repository.  A look that fails counts as "not there", and the run
  reports success.
* *Vault.*  Beside the labels of the run `references`, a name by hash has 32 bits of it
  (secrets.go:172-173): two values of one kind with the same four bytes upsert the same row, and the
  references to the first show the second.
* *Data sources.*  Overlapping jobs lose each other's `doc_count`; a lost request leaves "syncing"
  for good; a document that shrinks leaves its later `#i` parts live; documents that share a ref, and
  pushes with the default ref, supersede each other; a blank paragraph between two full ones becomes
  an empty chunk.

## 6. Not modelled, and what is left

What the models leave out, and why:

* data that no property tells apart: scores, importance beyond a threshold, access counters, telemetry,
  what events say, metadata, HTTP formats; the classifiers of network and memory type;
* handler Search's restriction to the brains a caller may read, the listings of tokens, grants and of
  the console, Neighbors and Ontology: single SELECTs that change nothing;
* the graph that the explorer derives from the memories of a brain without entities, which is a fallback
  for display;
* secrets whose values overlap: a text is a sequence of whole values, below which the model has no grain;
* Import, Export and ResolveGap as operations of `Access`: their handlers (handlers.go:360, 348, 323) make
  no check on the brain, although plugin.go:65-66 says that per-brain authorization runs inside the
  handlers; nor do the explorer, Gaps, BrainDetail and the console's listings.  `OnlyAuthorisedActs` is about
  the handlers that check, and says nothing of these.  What Import and Export do to the table is in `MemoryStore` and
  `Archive`, what ResolveGap does in `Retrieval`;
* where tokens come from: that each login to Cognee returns a token never issued before is assumed of the service,
  nothing in client.go ensures it.  If the service returned the refused token again, `Cognify` would retry with it,
  and `RetriesWithAnotherToken` would not hold;
* whether a chat's session may write: a tool that is not offered is not called, and no sequence of
  steps could change that;
* a refused `SET LOCAL` (section 5), and a failing Get or Set of the cache: the first ends a recall
  with an error, the second is a fault of the store that nothing in the code detects or repairs, so that
  no promise of the cache survives it;
* what happens to a request after its process dies, beyond `Lose` and the faults of `MemoryStore`: the
  code has no recovery to model;
* stateless clients and wiring (TEI, MCP bridge, CLI, scripts, `internal/`), the web console and the
  schema DDL, each with its reason in `PROJECT.json`, `components`.

What could still be gained: a recall of `Retrieval` that goes through `RecallCache`, so that gaps and
cached empty answers are seen together; the mirror's links as the links of `Retrieval`, which now are
any; and abstract specifications, beside `BoundedRecall`, of what a data source and the vault promise.
