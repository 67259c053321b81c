------------------------------ MODULE Datasource ------------------------------
(* Data sources (datasource.go, connectors.go): a sync pulls documents, a    *)
(* webhook is pushed one; either way the chunks are retained one by one and  *)
(* the source's row is updated from the copy that was read at the start.     *)
(* Every statement commits by itself and the jobs of several callers run at  *)
(* once.  A Retain is one step here: its own interleavings are MemoryStore's.*)
EXTENDS Chunks, FiniteSets

CONSTANTS
    Sources, Webhooks,  \* the sources of one brain; those that are pushed to
    Callers,            \* requests in progress
    Texts,              \* what a document may say
    Fetches,            \* per source, what its connector may find: sequences of documents
    NoRef,              \* the empty source_ref
    None,               \* no source
    MaxJobs, MaxLost, MaxChanges    \* bounds on what the models explore

ASSUME SourcesAssumption ==
    /\ Webhooks \subseteq Sources
    /\ None \notin Sources
    /\ {MaxJobs, MaxLost, MaxChanges} \subseteq Nat

ASSUME DocumentsAssumption ==
    /\ \A text \in Texts : text \in Seq(Paragraph) /\ IsText(text)
    /\ \A s \in Sources : \A docs \in Fetches[s] :
        docs \in Seq(Range(docs)) /\ \A doc \in Range(docs) : doc.text \in Texts

VARIABLES
    status, count,      \* the row of each source; no row has status "none"
    remote,             \* what a fetch of each source would find now
    live,               \* the live memories: [ref, content]
    pc, source,         \* the request of each caller: where it is, its source,
    snapshot, n,        \* the doc_count it read, the chunks it retained,
    work,               \* its documents and the rows still to retain (and history:
                        \* no other job began since; a Retain failed)
    accepted,           \* history: chunks retained without an error, per source
    jobs, lost, changes \* counters, for the bounds

request == <<pc, source, snapshot, n, work>>
vars == <<status, count, remote, live, request, accepted, jobs, lost, changes>>

NoWork == [fetched |-> <<>>, todo |-> <<>>, alone |-> FALSE, failed |-> FALSE]

Found == UNION {Fetches[s] : s \in Sources}

Rows == {"idle", "syncing", "ok", "error"}
Exists(s) == status[s] \in Rows

Init ==
    /\ status = [s \in Sources |-> "none"]
    /\ count = [s \in Sources |-> 0]
    /\ remote \in [Sources \ Webhooks -> Found] /\ \A s \in Sources \ Webhooks : remote[s] \in Fetches[s]
    /\ live = {}
    /\ pc = [c \in Callers |-> "idle"]
    /\ source = [c \in Callers |-> None]
    /\ snapshot = [c \in Callers |-> 0]
    /\ n = [c \in Callers |-> 0]
    /\ work = [c \in Callers |-> NoWork]
    /\ accepted = [s \in Sources |-> 0]
    /\ jobs = 0 /\ lost = 0 /\ changes = 0

Documents == UNION {Range(docs) : docs \in Found}
Chunked == [text \in {d.text : d \in Documents} |-> chunkText(text)]

\* The rows of a document: its chunks, numbered from "#0" when there are several.
RowsWithoutNumbers(doc) ==
    [i \in DOMAIN Chunked[doc.text] |-> [ref |-> <<doc.ref, 0>>, content |-> Chunked[doc.text][i]]]

RowsOf(doc) ==
    [i \in DOMAIN Chunked[doc.text] |->
        [ref |-> <<doc.ref, IF Len(Chunked[doc.text]) > 1 THEN i ELSE 0>>, content |-> Chunked[doc.text][i]]]

AllRows(docs) == FlattenSeq([d \in DOMAIN docs |-> RowsOf(docs[d])])

\* Mutant: a status that the schema does not list.
CreateAsNew(s) ==
    /\ status[s] = "none"
    /\ status' = [status EXCEPT ![s] = "new"]
    /\ UNCHANGED <<count, remote, live, request, accepted, jobs, lost, changes>>

CreateDatasource(s) ==
    /\ status[s] = "none"
    /\ status' = [status EXCEPT ![s] = "idle"]
    /\ UNCHANGED <<count, remote, live, request, accepted, jobs, lost, changes>>

\* The row goes, the memories and the jobs stay; its id is never used again.
DeleteDatasource(s) ==
    /\ Exists(s)
    /\ status' = [status EXCEPT ![s] = "deleted"]
    /\ UNCHANGED <<count, remote, live, request, accepted, jobs, lost, changes>>

\* What the world outside writes down.
ChangeRemote(s) ==
    /\ s \notin Webhooks
    /\ changes < MaxChanges /\ changes' = changes + 1
    /\ \E docs \in Fetches[s] : remote' = [remote EXCEPT ![s] = docs]
    /\ UNCHANGED <<status, count, live, request, accepted, jobs, lost>>

\* getDatasource: the job works on this copy of the row.
Begin(c, s, first, docs) ==
    /\ pc[c] = "idle" /\ Exists(s)
    /\ jobs < MaxJobs /\ jobs' = jobs + 1
    /\ pc' = [pc EXCEPT ![c] = first]
    /\ source' = [source EXCEPT ![c] = s]
    /\ snapshot' = [snapshot EXCEPT ![c] = count[s]]
    /\ n' = [n EXCEPT ![c] = 0]
    /\ work' = [d \in Callers |->
                IF d # c THEN [work[d] EXCEPT !.alone = FALSE]
                ELSE [NoWork EXCEPT !.fetched = docs, !.todo = AllRows(docs),
                                    !.alone = \A e \in Callers : pc[e] = "idle"]]
    /\ UNCHANGED <<status, count, remote, live, accepted, lost, changes>>

SyncDatasource(c, s) == s \notin Webhooks /\ Begin(c, s, "mark", <<>>)
IngestWebhook(c, s) == s \in Webhooks /\ \E docs \in Fetches[s] : Begin(c, s, "ingest", docs)

\* An UPDATE by id, whatever the row has become and whether or not it exists;
\* an error is ignored.
setDatasourceStatus(s, new, docs) ==
    \/ /\ IF Exists(s) THEN status' = [status EXCEPT ![s] = new] /\ count' = [count EXCEPT ![s] = docs]
          ELSE UNCHANGED <<status, count>>
       /\ UNCHANGED lost
    \/ lost < MaxLost /\ lost' = lost + 1 /\ UNCHANGED <<status, count>>

\* The job is over, whatever it has done.
End(c) ==
    /\ pc' = [pc EXCEPT ![c] = "idle"]
    /\ source' = [source EXCEPT ![c] = None]
    /\ snapshot' = [snapshot EXCEPT ![c] = 0]
    /\ n' = [n EXCEPT ![c] = 0]
    /\ work' = [work EXCEPT ![c] = NoWork]

Mark(c) ==
    /\ pc[c] = "mark"
    /\ setDatasourceStatus(source[c], "syncing", snapshot[c])
    /\ pc' = [pc EXCEPT ![c] = "fetch"]
    /\ UNCHANGED <<remote, live, source, snapshot, n, work, accepted, jobs, changes>>

Fetch(c) ==
    /\ pc[c] = "fetch"
    /\ LET docs == remote[source[c]] IN
       work' = [work EXCEPT ![c].fetched = docs, ![c].todo = AllRows(docs)]
    /\ pc' = [pc EXCEPT ![c] = "ingest"]
    /\ UNCHANGED <<status, count, remote, live, source, snapshot, n, accepted, jobs, lost, changes>>

\* Mutant: the error is returned and not recorded.
FetchFailsUnrecorded(c) ==
    /\ pc[c] = "fetch"
    /\ End(c)
    /\ UNCHANGED <<status, count, remote, live, accepted, jobs, lost, changes>>

FetchFails(c) ==
    /\ pc[c] = "fetch"
    /\ setDatasourceStatus(source[c], "error", snapshot[c])
    /\ End(c)
    /\ UNCHANGED <<remote, live, accepted, jobs, changes>>

\* Store.Retain.  With a source_ref the live row of that ref is superseded, be
\* its content the same or not.  Without one, a row that says the same makes it
\* a no-op; else the nearest row decides: add, replace it, or a no-op again.
Retain(row) ==
    \/ /\ row.ref # <<NoRef, 0>>
       /\ live' = {r \in live : r.ref # row.ref} \cup {row}
    \/ /\ row.ref = <<NoRef, 0>>
       /\ \A r \in live : r.content # row.content
       /\ \E nearest \in {{}} \cup {{r} : r \in live} : live' = (live \ nearest) \cup {row}
    \/ row.ref = <<NoRef, 0>> /\ live # {} /\ UNCHANGED live

\* One chunk; an error is not the end of the job.
Ingest(c) ==
    /\ pc[c] = "ingest" /\ work[c].todo # <<>>
    /\ Retain(Head(work[c].todo))
    /\ work' = [work EXCEPT ![c].todo = Tail(@)]
    /\ n' = [n EXCEPT ![c] = @ + 1]
    /\ accepted' = [accepted EXCEPT ![source[c]] = @ + 1]
    /\ UNCHANGED <<status, count, remote, pc, source, snapshot, jobs, lost, changes>>

\* Mutant: n is the number of chunks seen.
IngestFailsCounted(c) ==
    /\ pc[c] = "ingest" /\ work[c].todo # <<>>
    /\ work' = [work EXCEPT ![c].todo = Tail(@), ![c].failed = TRUE]
    /\ n' = [n EXCEPT ![c] = @ + 1]
    /\ UNCHANGED <<status, count, remote, live, pc, source, snapshot, accepted, jobs, lost, changes>>

IngestFails(c) ==
    /\ pc[c] = "ingest" /\ work[c].todo # <<>>
    /\ work' = [work EXCEPT ![c].todo = Tail(@), ![c].failed = TRUE]
    /\ UNCHANGED <<status, count, remote, live, pc, source, snapshot, n, accepted, jobs, lost, changes>>

\* Mutant: a job that retained nothing has nothing to write.
FinishSome(c) ==
    /\ pc[c] = "ingest" /\ work[c].todo = <<>>
    /\ IF n[c] = 0 THEN UNCHANGED <<status, count, lost>>
       ELSE setDatasourceStatus(source[c], "ok", snapshot[c] + n[c])
    /\ End(c)
    /\ UNCHANGED <<remote, live, accepted, jobs, changes>>

\* The sum is of the copy, so jobs that overlap lose each other's counts.
Finish(c) ==
    /\ pc[c] = "ingest" /\ work[c].todo = <<>>
    /\ setDatasourceStatus(source[c], "ok", snapshot[c] + n[c])
    /\ End(c)
    /\ UNCHANGED <<remote, live, accepted, jobs, changes>>

\* The client goes or the process dies: the context is cancelled and every
\* statement that is left fails, that of the status too.
Lose(c) ==
    /\ pc[c] # "idle"
    /\ lost < MaxLost /\ lost' = lost + 1
    /\ End(c)
    /\ UNCHANGED <<status, count, remote, live, accepted, jobs, changes>>

Step(c) == Mark(c) \/ Fetch(c) \/ FetchFails(c) \/ Ingest(c) \/ IngestFails(c) \/ Finish(c)

Next ==
    \/ \E s \in Sources :
        \/ CreateDatasource(s) \/ DeleteDatasource(s) \/ ChangeRemote(s)
        \/ \E c \in Callers : SyncDatasource(c, s) \/ IngestWebhook(c, s)
    \/ \E c \in Callers : Step(c) \/ Lose(c)

Spec == Init /\ [][Next]_vars

\* A request runs on: the connectors have timeouts (30 s, 60 s for SQL).
FairSpec == Spec /\ \A c \in Callers : WF_vars(Step(c))

-----------------------------------------------------------------------------
Contents == UNION {Range(Chunked[text]) : text \in DOMAIN Chunked}
Refs == {d.ref : d \in Documents}
Memory == [ref : Refs \X Nat, content : Contents]

TypeOK ==
    /\ status \in [Sources -> Rows \cup {"none", "deleted"}]
    /\ count \in [Sources -> Nat] /\ accepted \in [Sources -> Nat]
    /\ \A s \in Sources \ Webhooks : remote[s] \in Fetches[s]
    /\ live \subseteq Memory
    /\ pc \in [Callers -> {"idle", "mark", "fetch", "ingest"}]
    /\ source \in [Callers -> Sources \cup {None}]
    /\ snapshot \in [Callers -> Nat] /\ n \in [Callers -> Nat]
    /\ \A c \in Callers : Range(work[c].todo) \subseteq Memory
    /\ jobs \in 0..MaxJobs /\ lost \in 0..MaxLost /\ changes \in 0..MaxChanges

(* What is checked.                                                          *)

\* doc_count never claims more than was retained for the source, however the
\* jobs that write it from their own copies overlap (SyncDatasource, IngestWebhook).
CountNeverExceeds == \A s \in Sources : count[s] <= accepted[s]

\* A source is "syncing" only while some request syncs it, unless a request was
\* lost: no path of SyncDatasource ends without a verdict.
SyncingHasASync ==
    \A s \in Sources :
        status[s] = "syncing" =>
            lost > 0 \/ \E c \in Callers : source[c] = s /\ pc[c] \in {"fetch", "ingest"}

\* A sync that had the brain to itself and saw no error leaves every chunk of
\* every document it fetched live, when no two documents share a ref: a chunk
\* does not supersede another of the same document (ingestDocuments).
DistinctRefs(docs) ==
    \A i, j \in DOMAIN docs : docs[i].ref # NoRef /\ (docs[i].ref = docs[j].ref => i = j)
SyncBringsCurrent ==
    \A c \in Callers :
        LET w == work[c]
        IN  pc[c] = "ingest" /\ w.todo = <<>> /\ w.alone /\ ~ w.failed /\ DistinctRefs(w.fetched)
                => Range(AllRows(w.fetched)) \subseteq live

\* Looked at before anything runs: chunkText has no state.
Fresh == jobs = 0 /\ changes = 0

\* The chunks of a document are the document, and none has more runes than the
\* limit: nothing that is not blank is dropped, repeated or moved, although room is
\* counted in bytes and an oversized paragraph is cut between two others (chunkText).
ChunksAreTheText == Fresh => \A text \in Texts : Complete(text) /\ Fits(text)

\* A source that is syncing gets its verdict (or its request is lost, or it is
\* deleted): the requests go on under fairness (SyncDatasource).
SyncConcludes ==
    \A s \in Sources : (status[s] = "syncing") ~> (status[s] # "syncing" \/ lost > 0)
=============================================================================
