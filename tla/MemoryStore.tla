----------------------------- MODULE MemoryStore -----------------------------
(* The memories table of CaBrain and the handlers that write it             *)
(* (plugins/brain/internal/brain: store.go, writedecision.go, ops.go,       *)
(* admin.go).  Every SQL statement autocommits, so the unit of atomicity is *)
(* one statement: Retain is a sequence of steps of a worker (the goroutine  *)
(* of one HTTP request) and any other statement may run between two of them.*)
(* A statement that writes many rows takes two steps: it chooses them in    *)
(* the snapshot with which it begins, and writes them when it has the locks *)
(* (READ COMMITTED), whatever was committed to them meanwhile.              *)
(*                                                                          *)
(* A row keeps what the decisions read: namespace, source_ref, the content  *)
(* (a model value), valid_at, and the outcome of invalid_at/superseded_by/  *)
(* forget_reason as one field, fate.  A deleted row keeps its place, with a *)
(* fate of its own, so that the properties may speak of what has been; no   *)
(* statement sees it.  Importance, access counts, source_kind, metadata,    *)
(* BM25 vectors and telemetry are left out; the cache epoch is the subject  *)
(* of module RecallCache.                                                   *)
EXTENDS Integers, Sequences, FiniteSets

CONSTANTS
    Namespaces,     \* the brains
    Refs,           \* the non-blank source_refs
    NoRef,          \* a blank source_ref
    Contents,       \* what a memory may say
    Norm,           \* Norm[c]: the normalised text of c
    Similarity,     \* Similarity[c][d]: cosine similarity in hundredths
    Negating,       \* the contents that hold a negation cue
    Backdates,      \* the event times a caller may supply as validAt
    Files,          \* export files: sequences of [ns, ref, content]
    Workers,        \* the goroutines that serve requests
    Handlers,       \* the handlers in use
    MaxMemories,    \* bound: rows ever inserted
    MaxFaults       \* bound: failed statements and crashes

None == 0           \* no memory id: ids start at 1
Unset == -1         \* validAt not supplied

AllHandlers == {"note", "record", "forget", "edit", "dedup", "import", "delete"}
Line == [ns : Namespaces, ref : Refs \cup {NoRef}, content : Contents]

ASSUME NamesAssumption ==
    /\ NoRef \notin Refs
    /\ Handlers \subseteq AllHandlers
    /\ Files \subseteq Seq(Line)
ASSUME BoundsAssumption ==
    /\ Backdates \subseteq Nat
    /\ MaxMemories \in Nat
    /\ MaxFaults \in Nat
ASSUME EmbeddingAssumption ==
    /\ Negating \subseteq Contents
    /\ DOMAIN Norm = Contents
    /\ Similarity \in [Contents -> [Contents -> 0..100]]

VARIABLES
    mem,            \* the rows ever inserted, by id
    nextId,         \* the next fresh id, which is also the clock of now()
    job,            \* job[w]: the request worker w is serving
    faults          \* statements failed and workers crashed so far

vars == <<mem, nextId, job, faults>>

Ids == 1..MaxMemories
Fates == {"live", "superseded", "retracted", "forgotten", "deduped", "deleted"}
Row == [ns : Namespaces, ref : Refs \cup {NoRef}, content : Contents,
        at : Nat, fate : Fates, supersededBy : Ids \cup {None}]
Decisions == {"none", "add", "update", "invalidate", "noop"}

InTable(i) == i \in DOMAIN mem /\ mem[i].fate # "deleted"
Live(i) == i \in DOMAIN mem /\ mem[i].fate = "live"
LiveIn(ns) == {i \in DOMAIN mem : Live(i) /\ mem[i].ns = ns}
LiveRecords(ns) == {i \in LiveIn(ns) : mem[i].ref # NoRef}

-----------------------------------------------------------------------------
(* The write decision, for requests without a source_ref.                   *)

simDuplicate == 97
simSupersede == 88

\* What to do with content new when the nearest stored content is old.
writeDecision(old, new) ==
    IF Norm[old] = Norm[new] THEN "noop"
    ELSE IF Similarity[old][new] >= simSupersede /\ new \in Negating THEN "invalidate"
    ELSE IF Similarity[old][new] >= simDuplicate THEN "noop"
    ELSE IF Similarity[old][new] >= simSupersede THEN "update"
    ELSE "add"

\* The nearest to content c of the rows that the index scan has seen: LIMIT 1
\* takes one.
topNeighbor(seen, c) ==
    {i \in seen : \A k \in seen : Similarity[mem[k].content][c] <= Similarity[mem[i].content][c]}

\* Mutant: the SELECT forgets the source_ref.
newestOfBrain(ns, ref) ==
    {i \in LiveIn(ns) : \A k \in LiveIn(ns) : mem[k].at <= mem[i].at}

\* The live rows of a record with the newest valid_at: LIMIT 1 takes one.
newestOf(ns, ref) ==
    {i \in LiveIn(ns) : mem[i].ref = ref
        /\ \A k \in LiveIn(ns) : mem[k].ref = ref => mem[k].at <= mem[i].at}

-----------------------------------------------------------------------------
(* Statements.                                                              *)

NoJob == [step |-> "idle"]
RetainSteps == {"decide", "noop", "retract", "insert", "supersede"}
Retaining == [step : RetainSteps, decision : Decisions, ns : Namespaces,
              ref : Refs \cup {NoRef}, content : Contents, at : Backdates \cup {Unset},
              related : Ids \cup {None}, newId : Ids \cup {None}]
Importing == [step : {"import"}, lines : Seq(Line)]
Deduping == [step : {"dedup"}, dupes : SUBSET Ids]
Deleting == [step : {"delete"}, ns : Namespaces, below : Ids \cup {MaxMemories + 1}]
Job == {NoJob} \cup Retaining \cup Importing \cup Deduping \cup Deleting

\* Mutant: the UPDATE does not ask for invalid_at IS NULL.
RetireUnguarded(i, fate, by) ==
    mem' = [k \in DOMAIN mem |->
              IF k = i THEN [mem[k] EXCEPT !.fate = fate, !.supersededBy = by] ELSE mem[k]]

\* UPDATE memories SET invalid_at = now(), superseded_by = by
\*  WHERE id = i AND invalid_at IS NULL
Retire(i, fate, by) ==
    mem' = [k \in DOMAIN mem |->
              IF k = i /\ Live(k) THEN [mem[k] EXCEPT !.fate = fate, !.supersededBy = by]
                                  ELSE mem[k]]

\* Mutant: the next row gets the same id.
InsertKeepingId(ns, ref, content, at) ==
    /\ nextId <= MaxMemories
    /\ mem' = [k \in DOMAIN mem \cup {nextId} |->
                 IF k = nextId THEN [ns |-> ns, ref |-> ref, content |-> content, at |-> k,
                                     fate |-> "live", supersededBy |-> None]
                               ELSE mem[k]]
    /\ UNCHANGED nextId

\* INSERT INTO memories; valid_at is now() unless the caller gave a time.
Insert(ns, ref, content, at) ==
    /\ nextId <= MaxMemories
    /\ mem' = [k \in DOMAIN mem \cup {nextId} |->
                 IF k = nextId
                 THEN [ns |-> ns, ref |-> ref, content |-> content,
                       at |-> IF at = Unset THEN nextId ELSE at,
                       fate |-> "live", supersededBy |-> None]
                 ELSE mem[k]]
    /\ nextId' = nextId + 1

Goto(w, step) == job' = [job EXCEPT ![w].step = step]
Finish(w) == job' = [job EXCEPT ![w] = NoJob]

\* A statement or the process fails: the context was cancelled, the
\* connection was lost.  Faults are bounded.
Fault == faults < MaxFaults /\ faults' = faults + 1
NoFault == UNCHANGED faults

Init ==
    /\ mem = [i \in {} |-> None]
    /\ nextId = 1
    /\ job = [w \in Workers |-> NoJob]
    /\ faults = 0

-----------------------------------------------------------------------------
(* Retain.                                                                  *)

\* The request is accepted: its secrets are vaulted and its content embedded.
RetainStart(w, ns, ref, content, at) ==
    /\ job[w].step = "idle"
    /\ (IF ref = NoRef THEN "note" ELSE "record") \in Handlers
    /\ nextId <= MaxMemories
    /\ job' = [job EXCEPT ![w] =
                 [step |-> "decide", decision |-> "none", ns |-> ns, ref |-> ref,
                  content |-> content, at |-> at, related |-> None, newId |-> None]]
    /\ UNCHANGED <<mem, nextId, faults>>

Decided(w, decision, i) ==
    job' = [job EXCEPT ![w] = [@ EXCEPT !.decision = decision,
                                        !.related = i,
                                        !.step = CASE decision = "noop" -> "noop"
                                                   [] decision = "invalidate" -> "retract"
                                                   [] OTHER -> "insert"]]

\* A source_ref is an identity: supersede the live row that has it, else add.
DecideRecord(w) ==
    LET j == job[w] IN
    /\ j.step = "decide" /\ j.ref # NoRef
    /\ \/ \E i \in newestOf(j.ns, j.ref) : Decided(w, "update", i) /\ NoFault
       \/ newestOf(j.ns, j.ref) = {} /\ Decided(w, "add", None) /\ NoFault
       \/ Decided(w, "add", None) /\ Fault          \* the SELECT failed
    /\ UNCHANGED <<mem, nextId>>

\* Without a source_ref the nearest live memory decides, of those that are hot,
\* have an embedding and are found by the approximate index.
DecideNote(w) ==
    LET j == job[w] IN
    /\ j.step = "decide" /\ j.ref = NoRef
    /\ \/ \E seen \in SUBSET LiveIn(j.ns) : \E i \in topNeighbor(seen, j.content) :
             LET d == writeDecision(mem[i].content, j.content) IN
             Decided(w, d, IF d = "add" THEN None ELSE i) /\ NoFault
       \/ Decided(w, "add", None) /\ NoFault        \* it has seen none
       \/ Decided(w, "add", None) /\ Fault          \* topNeighbor failed
    /\ UNCHANGED <<mem, nextId>>

\* NOOP: only access_count and importance of the related row change.
RetainNoop(w) ==
    /\ job[w].step = "noop"
    /\ Finish(w)
    /\ UNCHANGED <<mem, nextId, faults>>

\* INVALIDATE: retract first, insert the correction next.
RetainRetract(w) ==
    /\ job[w].step = "retract"
    /\ \/ Retire(job[w].related, "retracted", None) /\ NoFault
       \/ UNCHANGED mem /\ Fault                    \* the error is ignored
    /\ Goto(w, "insert")
    /\ UNCHANGED nextId

RetainInsert(w) ==
    LET j == job[w] IN
    /\ j.step = "insert"
    /\ \/ /\ Insert(j.ns, j.ref, j.content, j.at)
          /\ IF j.decision = "update"
             THEN job' = [job EXCEPT ![w] = [j EXCEPT !.step = "supersede", !.newId = nextId]]
             ELSE Finish(w)
          /\ NoFault
       \/ /\ Finish(w)                              \* error to the caller
          /\ Fault
          /\ UNCHANGED <<mem, nextId>>

\* UPDATE: the new row is in; the row it replaces is retired last.
RetainSupersede(w) ==
    /\ job[w].step = "supersede"
    /\ \/ Retire(job[w].related, "superseded", job[w].newId) /\ NoFault
       \/ UNCHANGED mem /\ Fault                    \* the error is ignored
    /\ Finish(w)
    /\ UNCHANGED nextId

\* The process dies, or the handler panics, between two statements.
Crash(w) ==
    /\ job[w].step # "idle"
    /\ Finish(w)
    /\ Fault
    /\ UNCHANGED <<mem, nextId>>

-----------------------------------------------------------------------------
(* The other writers.                                                       *)

Forget(i) ==
    /\ "forget" \in Handlers
    /\ Live(i)
    /\ Retire(i, "forgotten", None)
    /\ UNCHANGED <<nextId, job, faults>>

\* EditMemory has no invalid_at guard: a retired row may be edited too.
EditMemory(i, content) ==
    /\ "edit" \in Handlers
    /\ InTable(i)
    /\ mem' = [mem EXCEPT ![i].content = content]
    /\ UNCHANGED <<nextId, job, faults>>

\* Mutant: the sweep orders by valid_at the wrong way and keeps the oldest.
KeepingOldest(rows, keep) ==
    /\ keep \subseteq rows
    /\ \A k, l \in keep : mem[k].ref = mem[l].ref => k = l
    /\ \A i \in rows : \E k \in keep : mem[k].ref = mem[i].ref /\ mem[k].at <= mem[i].at

\* Of the rows given, one with the newest valid_at for each record: those with
\* ROW_NUMBER() = 1, where rows of the same valid_at come in any order.
Keeping(rows, keep) ==
    /\ keep \subseteq rows
    /\ \A k, l \in keep : mem[k].ref = mem[l].ref => k = l
    /\ \A i \in rows : \E k \in keep : mem[k].ref = mem[i].ref /\ mem[i].at <= mem[k].at

\* The CTE of DedupSource: of the live records of ns (or those of them that are
\* of one source_kind) it takes all but the ones to keep.  Without any to take
\* the statement changes nothing, and is left out.
DedupRead(w, ns) ==
    /\ "dedup" \in Handlers
    /\ job[w].step = "idle"
    /\ \E rows \in SUBSET LiveRecords(ns) : \E keep \in SUBSET rows :
          /\ Keeping(rows, keep) /\ keep # rows
          /\ job' = [job EXCEPT ![w] = [step |-> "dedup", dupes |-> rows \ keep]]
    /\ UNCHANGED <<mem, nextId, faults>>

\* Its UPDATE asks for the ids alone: a row that somebody else has retired
\* meanwhile gets a new invalid_at and forget_reason, and keeps superseded_by.
DedupWrite(w) ==
    /\ job[w].step = "dedup"
    /\ mem' = [i \in DOMAIN mem |->
                 IF i \in job[w].dupes /\ InTable(i)
                 THEN [mem[i] EXCEPT !.fate = "deduped"] ELSE mem[i]]
    /\ Finish(w)
    /\ UNCHANGED <<nextId, faults>>

\* Import inserts the lines one statement at a time, dropping their valid_at;
\* a line whose INSERT fails is skipped.
ImportStart(w, file) ==
    /\ "import" \in Handlers
    /\ job[w].step = "idle"
    /\ nextId <= MaxMemories
    /\ job' = [job EXCEPT ![w] = [step |-> "import", lines |-> file]]
    /\ UNCHANGED <<mem, nextId, faults>>

ImportLine(w) ==
    LET l == Head(job[w].lines) IN
    /\ job[w].step = "import" /\ job[w].lines # <<>>
    /\ \/ Insert(l.ns, l.ref, l.content, Unset) /\ NoFault
       \/ UNCHANGED <<mem, nextId>> /\ Fault
    /\ job' = [job EXCEPT ![w] = [step |-> "import", lines |-> Tail(job[w].lines)]]

ImportEnd(w) ==
    /\ job[w].step = "import" /\ job[w].lines = <<>>
    /\ Finish(w)
    /\ UNCHANGED <<mem, nextId, faults>>

\* DELETE FROM memories WHERE namespace = ns, the only hard delete, of a brain
\* that has rows: it sees those that are there when it begins.
DeleteRead(w, ns) ==
    /\ "delete" \in Handlers
    /\ job[w].step = "idle"
    /\ \E i \in DOMAIN mem : InTable(i) /\ mem[i].ns = ns
    /\ job' = [job EXCEPT ![w] = [step |-> "delete", ns |-> ns, below |-> nextId]]
    /\ UNCHANGED <<mem, nextId, faults>>

DeleteWrite(w) ==
    /\ job[w].step = "delete"
    /\ mem' = [i \in DOMAIN mem |->
                 IF mem[i].ns = job[w].ns /\ i < job[w].below
                 THEN [mem[i] EXCEPT !.fate = "deleted"] ELSE mem[i]]
    /\ Finish(w)
    /\ UNCHANGED <<nextId, faults>>

-----------------------------------------------------------------------------

RetainStep(w) ==
    \/ DecideRecord(w) \/ DecideNote(w) \/ RetainNoop(w) \/ RetainRetract(w)
    \/ RetainInsert(w) \/ RetainSupersede(w)

ImportStep(w) == ImportLine(w) \/ ImportEnd(w)

\* The event time of a note is read by no statement here, so none is supplied.
Request(w) ==
    \/ \E ns \in Namespaces, ref \in Refs, c \in Contents, at \in Backdates \cup {Unset} :
          RetainStart(w, ns, ref, c, at)
    \/ \E ns \in Namespaces, c \in Contents : RetainStart(w, ns, NoRef, c, Unset)
    \/ \E file \in Files : ImportStart(w, file)
    \/ \E ns \in Namespaces : DedupRead(w, ns) \/ DeleteRead(w, ns)

Maintain ==
    \/ \E i \in DOMAIN mem : Forget(i)
    \/ \E i \in DOMAIN mem, c \in Contents : EditMemory(i, c)

Next ==
    \/ \E w \in Workers : Request(w) \/ RetainStep(w) \/ ImportStep(w)
                         \/ DedupWrite(w) \/ DeleteWrite(w) \/ Crash(w)
    \/ Maintain

Spec == Init /\ [][Next]_vars

-----------------------------------------------------------------------------
(* Properties.                                                              *)

\* Every variable keeps its type, and the rows are those of the ids handed out.
TypeOK ==
    /\ nextId \in 1..(MaxMemories + 1)
    /\ mem \in [1..(nextId - 1) -> Row]
    /\ job \in [Workers -> Job]
    /\ faults \in 0..MaxFaults

\* superseded_by is a soft reference that no foreign key guards ([D2] in
\* schema.sql).  Every superseded row has one (a sweep may since have given the
\* row another reason), and it always names a later row of the same brain that
\* is still in the table and speaks for the same record, or a note: no
\* interleaving of Retain with the other writers, and no failure inside it,
\* leaves it dangling or cyclic.
SupersessionSound ==
    \A i \in DOMAIN mem :
        LET s == mem[i].supersededBy IN
        /\ mem[i].fate = "superseded" => s # None
        /\ s # None => mem[i].fate \in {"superseded", "deduped", "deleted"}
        /\ InTable(i) /\ s # None => /\ InTable(s)
                                     /\ i < s
                                     /\ mem[s].ns = mem[i].ns
                                     /\ mem[s].ref \in {mem[i].ref, NoRef}

\* A retired row stays retired, with the successor it first got, whoever else
\* holds its id from an earlier SELECT; only a sweep that had listed it while
\* it was live may still put its own reason over the one the row has.  A row
\* leaves the table only when its brain is deleted, and then all older rows of
\* the brain leave it too (the comment at store.go:355, "never hard-delete").
RetirementIsFinal ==
    [][\A i \in DOMAIN mem :
         /\ mem[i].fate # "live" =>
               /\ mem'[i].supersededBy = mem[i].supersededBy
               /\ \/ mem'[i].fate \in {mem[i].fate, "deleted"}
                  \/ /\ mem[i].fate # "deleted" /\ mem'[i].fate = "deduped"
                     /\ \E w \in Workers : job[w].step = "dedup" /\ i \in job[w].dupes
         /\ mem'[i].fate = "deleted" =>
               \A k \in 1..i : mem[k].ns = mem[i].ns => mem'[k].fate = "deleted"]_vars

\* The event times of the rows that i's record ever had follow the order in
\* which they were written: the record is not back-dated against itself.
WrittenInOrder(i) ==
    \A k, l \in DOMAIN mem :
        /\ k < l
        /\ mem[k].ns = mem[i].ns /\ mem[k].ref = mem[i].ref
        /\ mem[l].ns = mem[i].ns /\ mem[l].ref = mem[i].ref
        => mem[k].at < mem[l].at

\* A record that was retained stays recallable through updates, faults,
\* crashes, imports, dedup sweeps and deletions of the brain, with supplied
\* event times too, as long as they follow the order of the writes: of its rows
\* in the table one is live, unless someone forgot or retracted it or a note
\* took its place.
RecordStaysRecallable ==
    \A i \in DOMAIN mem : InTable(i) /\ mem[i].ref # NoRef /\ WrittenInOrder(i) =>
        \E k \in DOMAIN mem :
            /\ mem[k].ns = mem[i].ns /\ mem[k].ref = mem[i].ref
            /\ \/ mem[k].fate \in {"live", "forgotten", "retracted"}
               \/ mem[k].fate = "superseded" /\ mem[mem[k].supersededBy].ref = NoRef

\* store.go:290: a source_ref is an identity, so a record has one live row
\* (two only while a Retain stands between its INSERT and its UPDATE).
OneLiveRowPerRecord ==
    \A i, k \in DOMAIN mem :
        /\ i < k /\ Live(i) /\ Live(k)
        /\ mem[i].ref # NoRef /\ mem[i].ref = mem[k].ref /\ mem[i].ns = mem[k].ns
        => \E w \in Workers : job[w].step = "supersede" /\ job[w].related = i

\* store.go:326: a retraction is recorded by a correction, a later note of
\* the same brain; one that is not there yet is about to be inserted.
CorrectionRecorded ==
    \A i \in DOMAIN mem : mem[i].fate = "retracted" =>
        \/ \E k \in DOMAIN mem : i < k /\ mem[k].ns = mem[i].ns /\ mem[k].ref = NoRef
        \/ \E w \in Workers : job[w].step = "insert" /\ job[w].related = i
=============================================================================
