----------------------------- MODULE RecallCache -----------------------------
(* The L1 recall cache in front of the memories table (l1cache.go, Recall in *)
(* store.go) and the writers that are to invalidate it.  The cache is the    *)
(* kernel's: a key-value store with TTLs, shared by the requests.            *)
(*                                                                           *)
(* Invalidation is by epoch.  A recall folds the epoch it read into its key; *)
(* a writer commits its statements and then stamps a fresh epoch.  The three *)
(* things a recall does (read the epoch, query, fill) and the three a writer *)
(* does (commit, take a time, Set) interleave with those of every other      *)
(* request, so a fill may land after the bump that was to orphan it.         *)
(*                                                                           *)
(* A brain's contents are abstracted to version[ns], the number of committed *)
(* statements that changed what a recall of ns returns.  One query stands    *)
(* for all: entries of different queries have different keys.                *)
EXTENDS Integers

CONSTANTS
    Namespaces,     \* the brains
    Readers,        \* goroutines serving recalls
    Writers,        \* goroutines serving writes
    Handlers,       \* the write handlers in use
    MaxVersion      \* bound: committed changes per brain

\* Handlers whose last act on the way to a successful answer is bumpEpoch, and
\* those that never call it for the brain they changed: DedupSource, and
\* Import when the lines, not the request, name the brain.
Bumping == {"retain", "forget", "edit", "delete", "import"}
Silent == {"dedup", "importUntargeted"}
\* Handlers that change the table with more than one autocommitted statement.
ManyStatements == {"retain", "import", "importUntargeted"}

ASSUME HandlersAssumption == Handlers \subseteq Bumping \cup Silent
ASSUME BoundAssumption == MaxVersion \in Nat

VARIABLES
    version,    \* version[ns]: the brain in the database
    epoch,      \* epoch[ns]: the value at brain:epoch:<ns>, 0 when there is none
    clock,      \* UnixNano: every stamp taken so far is below it
    entries,    \* the cached recalls: records [ns, epoch, version]
    writer,     \* writer[w]: the write in progress
    reader,     \* reader[r]: the recall in progress or just answered
    acked       \* acked[ns]: newest change that a handler which bumps has answered (history)

vars == <<version, epoch, clock, entries, writer, reader, acked>>

NoWrite == [step |-> "idle"]
NoRecall == [step |-> "idle"]

Write == [step : {"commit", "stamp", "set", "answer"}, handler : Handlers,
          ns : Namespaces, did : Nat, stamp : Nat]
Begun == [step : {"lookup", "query"}, ns : Namespaces, epoch : Nat, floor : Nat]
Filled == [step : {"fill", "answered"}, ns : Namespaces, epoch : Nat, floor : Nat, got : Nat]

Init ==
    /\ version = [ns \in Namespaces |-> 0]
    /\ epoch = [ns \in Namespaces |-> 0]
    /\ clock = 1
    /\ entries = {}
    /\ writer = [w \in Writers |-> NoWrite]
    /\ reader = [r \in Readers |-> NoRecall]
    /\ acked = [ns \in Namespaces |-> 0]

-----------------------------------------------------------------------------
(* Writers.                                                                 *)

WriteStart(w, h, ns) ==
    /\ writer[w] = NoWrite
    /\ version[ns] < MaxVersion
    /\ writer' = [writer EXCEPT ![w] = [step |-> "commit", handler |-> h, ns |-> ns,
                                        did |-> 0, stamp |-> 0]]
    /\ UNCHANGED <<version, epoch, clock, entries, reader, acked>>

\* One statement commits; a handler of several may come back for the next.
WriteCommit(w) ==
    LET j == writer[w] IN
    /\ j.step = "commit"
    /\ version[j.ns] < MaxVersion
    /\ version' = [version EXCEPT ![j.ns] = @ + 1]
    /\ \E next \in {IF j.handler \in Bumping THEN "stamp" ELSE "answer"}
                   \cup (IF j.handler \in ManyStatements THEN {"commit"} ELSE {}) :
          writer' = [writer EXCEPT ![w] =
                       [step |-> next, handler |-> j.handler, ns |-> j.ns,
                        did |-> version[j.ns] + 1, stamp |-> 0]]
    /\ UNCHANGED <<epoch, clock, entries, reader, acked>>

\* bumpEpoch takes the time ...
WriteStamp(w) ==
    LET j == writer[w] IN
    /\ j.step = "stamp"
    /\ clock' = clock + 1
    /\ writer' = [writer EXCEPT ![w] =
                    [step |-> "set", handler |-> j.handler, ns |-> j.ns,
                     did |-> j.did, stamp |-> clock]]
    /\ UNCHANGED <<version, epoch, entries, reader, acked>>

\* ... and Sets it; two bumps of a brain may land in either order.
WriteSet(w) ==
    LET j == writer[w] IN
    /\ j.step = "set"
    /\ epoch' = [epoch EXCEPT ![j.ns] = j.stamp]
    /\ writer' = [writer EXCEPT ![w] =
                    [step |-> "answer", handler |-> j.handler, ns |-> j.ns,
                     did |-> j.did, stamp |-> j.stamp]]
    /\ UNCHANGED <<version, clock, entries, reader, acked>>

WriteAnswer(w) ==
    LET j == writer[w] IN
    /\ j.step = "answer"
    /\ acked' = [acked EXCEPT ![j.ns] = IF j.handler \in Bumping /\ j.did > @ THEN j.did ELSE @]
    /\ writer' = [writer EXCEPT ![w] = NoWrite]
    /\ UNCHANGED <<version, epoch, clock, entries, reader>>

\* A statement fails or the process dies: no answer that the write was done.
WriteAbort(w) ==
    /\ writer[w].step \in {"commit", "stamp", "set"}
    /\ writer' = [writer EXCEPT ![w] = NoWrite]
    /\ UNCHANGED <<version, epoch, clock, entries, reader, acked>>

-----------------------------------------------------------------------------
(* Recalls.                                                                 *)

\* Mutant: the key of an entry does not hold the epoch.
KeyWithoutEpoch(j) == {e \in entries : e.ns = j.ns}

Key(j) == {e \in entries : e.ns = j.ns /\ e.epoch = j.epoch}

\* The recall begins by reading the epoch; floor records what it must not miss.
RecallBegin(r, ns) ==
    /\ reader[r] = NoRecall
    /\ reader' = [reader EXCEPT ![r] = [step |-> "lookup", ns |-> ns, epoch |-> epoch[ns],
                                        floor |-> acked[ns]]]
    /\ UNCHANGED <<version, epoch, clock, entries, writer, acked>>

Got(r, step, v) ==
    LET j == reader[r] IN
    reader' = [reader EXCEPT ![r] = [step |-> step, ns |-> j.ns, epoch |-> j.epoch,
                                     floor |-> j.floor, got |-> v]]

RecallHit(r) ==
    /\ reader[r].step = "lookup"
    /\ \E e \in Key(reader[r]) : Got(r, "answered", e.version)
    /\ UNCHANGED <<version, epoch, clock, entries, writer, acked>>

RecallMiss(r) ==
    LET j == reader[r] IN
    /\ j.step = "lookup"
    /\ Key(j) = {}
    /\ reader' = [reader EXCEPT ![r] = [step |-> "query", ns |-> j.ns, epoch |-> j.epoch,
                                        floor |-> j.floor]]
    /\ UNCHANGED <<version, epoch, clock, entries, writer, acked>>

\* The candidate pool: one read-only transaction.
RecallQuery(r) ==
    /\ reader[r].step = "query"
    /\ Got(r, "fill", version[reader[r].ns])
    /\ UNCHANGED <<version, epoch, clock, entries, writer, acked>>

\* Mutant: the key is computed again when the answer is cached.
RecallFillUnderCurrentEpoch(r) ==
    LET j == reader[r]
        now == [j EXCEPT !.epoch = epoch[j.ns]] IN
    /\ j.step = "fill"
    /\ entries' = (entries \ Key(now))
                    \cup {[ns |-> j.ns, epoch |-> now.epoch, version |-> j.got]}
    /\ Got(r, "answered", j.got)
    /\ UNCHANGED <<version, epoch, clock, writer, acked>>

\* putCachedRecall under the key of the epoch read at the beginning.
RecallFill(r) ==
    LET j == reader[r] IN
    /\ j.step = "fill"
    /\ entries' = (entries \ Key(j)) \cup {[ns |-> j.ns, epoch |-> j.epoch, version |-> j.got]}
    /\ Got(r, "answered", j.got)
    /\ UNCHANGED <<version, epoch, clock, writer, acked>>

\* Mutant: what the recall knew is not thrown away with it.
RecallEndKeepingRecord(r) ==
    /\ reader[r].step # "idle"
    /\ reader' = [reader EXCEPT ![r].step = "idle"]
    /\ UNCHANGED <<version, epoch, clock, entries, writer, acked>>

\* The answer is taken; or the embedder or the query failed, or the caller left.
RecallEnd(r) ==
    /\ reader[r].step # "idle"
    /\ reader' = [reader EXCEPT ![r] = NoRecall]
    /\ UNCHANGED <<version, epoch, clock, entries, writer, acked>>

-----------------------------------------------------------------------------
(* The cache store.                                                         *)

\* A cached recall reaches its TTL.
EntryExpires(e) ==
    /\ entries' = entries \ {e}
    /\ UNCHANGED <<version, epoch, clock, writer, reader, acked>>

\* The epoch key reaches its TTL of 24 hours.  Nothing filled, looked up or
\* stamped before it was Set is still around: recalls live 30 seconds.
EpochExpires(ns) ==
    /\ epoch[ns] # 0
    /\ \A e \in entries : ~ (e.ns = ns /\ e.epoch = 0)
    /\ \A r \in Readers : reader[r].step # "idle" => ~ (reader[r].ns = ns /\ reader[r].epoch = 0)
    /\ epoch' = [epoch EXCEPT ![ns] = 0]
    /\ UNCHANGED <<version, clock, entries, writer, reader, acked>>

-----------------------------------------------------------------------------

WriteStep(w) ==
    \/ \E h \in Handlers, ns \in Namespaces : WriteStart(w, h, ns)
    \/ WriteCommit(w) \/ WriteStamp(w) \/ WriteSet(w) \/ WriteAnswer(w) \/ WriteAbort(w)

RecallStep(r) ==
    \/ \E ns \in Namespaces : RecallBegin(r, ns)
    \/ RecallHit(r) \/ RecallMiss(r) \/ RecallQuery(r) \/ RecallFill(r) \/ RecallEnd(r)

CacheStep ==
    \/ \E e \in entries : EntryExpires(e)
    \/ \E ns \in Namespaces : EpochExpires(ns)

Next ==
    \/ \E w \in Writers : WriteStep(w)
    \/ \E r \in Readers : RecallStep(r)
    \/ CacheStep

Spec == Init /\ [][Next]_vars

-----------------------------------------------------------------------------
(* Properties.                                                              *)

\* Every variable keeps its type; a request that is over leaves nothing behind.
TypeOK ==
    /\ version \in [Namespaces -> Nat]
    /\ epoch \in [Namespaces -> Nat]
    /\ clock \in Nat \ {0}
    /\ entries \subseteq [ns : Namespaces, epoch : Nat, version : Nat]
    /\ writer \in [Writers -> {NoWrite} \cup Write]
    /\ reader \in [Readers -> {NoRecall} \cup Begun \cup Filled]
    /\ acked \in [Namespaces -> Nat]

\* l1cache.go:22: a write instantly orphans its brain's cached reads.  A recall
\* that begins after a handler which bumps has answered does not answer from
\* before its write, nor from before any change that was there by then, even
\* when an older recall fills the cache late, bumps land out of order, and other
\* handlers change the brain without a bump.
WritesOrphanCachedReads ==
    \A r \in Readers : reader[r].step = "answered" => reader[r].got >= reader[r].floor

\* What a client sees of the recalls.
Reading ==
    [r \in Readers |->
        IF reader[r].step = "idle" THEN [step |-> "idle"]
        ELSE IF reader[r].step = "answered"
        THEN [step |-> "answered", ns |-> reader[r].ns, floor |-> reader[r].floor,
              got |-> reader[r].got]
        ELSE [step |-> "begun", ns |-> reader[r].ns, floor |-> reader[r].floor]]

Recalls == INSTANCE BoundedRecall WITH reading <- Reading

\* The recall path implements BoundedRecall: but for the changes that are not
\* bumped for, the cache is not to be noticed.
CacheIsTransparent == Recalls!Spec
=============================================================================
