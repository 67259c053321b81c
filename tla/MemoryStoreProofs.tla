-------------------------- MODULE MemoryStoreProofs --------------------------
(* Proofs about MemoryStore, and about the archive of a brain, for every     *)
(* value of their constants.                                                *)
EXTENDS Archive, FiniteSetTheorems, WellFoundedInduction, TLAPS

-----------------------------------------------------------------------------
(* Lemmas about the two statements every writer is made of.                 *)

\* An INSERT adds one live row under a fresh id and leaves the others alone.
LEMMA InsertType ==
    ASSUME TypeOK, NEW ns \in Namespaces, NEW ref \in Refs \cup {NoRef},
           NEW c \in Contents, NEW at \in Backdates \cup {Unset}, Insert(ns, ref, c, at)
    PROVE  /\ nextId \in Ids
           /\ nextId' \in 1..(MaxMemories + 1)
           /\ DOMAIN mem' = DOMAIN mem \cup {nextId}
           /\ mem' \in [1..(nextId' - 1) -> Row]
           /\ \A k \in DOMAIN mem : k # nextId /\ mem'[k] = mem[k]
           /\ mem'[nextId].fate = "live" /\ mem'[nextId].supersededBy = None
           /\ mem'[nextId].ns = ns /\ mem'[nextId].ref = ref
           /\ mem'[nextId].at = IF at = Unset THEN nextId ELSE at
<1>1. nextId \in Ids /\ nextId' \in 1..(MaxMemories + 1) /\ nextId' = nextId + 1
  BY BoundsAssumption DEF TypeOK, Insert, Ids
<1>2. DOMAIN mem' = DOMAIN mem \cup {nextId} /\ DOMAIN mem' = 1..(nextId' - 1)
  <2>1. nextId \in Int /\ DOMAIN mem = 1..(nextId - 1)
    BY DEF TypeOK
  <2>2. DOMAIN mem' = DOMAIN mem \cup {nextId}
    BY DEF Insert
  <2>3. nextId' - 1 = nextId /\ nextId \in Nat \ {0}
    BY <1>1, <2>1, BoundsAssumption DEF Ids
  <2>4. \A k : k \in 1..(nextId - 1) \cup {nextId} <=> k \in 1..nextId
    BY <2>3
  <2> QED BY <2>1, <2>2, <2>3, <2>4
<1>3. \A k \in DOMAIN mem : k # nextId /\ mem'[k] = mem[k]
  BY <1>1, <1>2 DEF TypeOK, Insert
<1>4. mem'[nextId] = [ns |-> ns, ref |-> ref, content |-> c,
                      at |-> IF at = Unset THEN nextId ELSE at,
                      fate |-> "live", supersededBy |-> None]
  BY <1>2 DEF Insert
<1>5. mem'[nextId] \in Row
  BY <1>1, <1>4, BoundsAssumption DEF Row, Fates, Unset, Ids
<1>6. mem' \in [1..(nextId' - 1) -> Row]
  <2>1. \A k \in DOMAIN mem' : mem'[k] \in Row
    BY <1>2, <1>3, <1>5 DEF TypeOK
  <2>2. mem' = [k \in DOMAIN mem' |-> mem'[k]]
    BY <1>2 DEF Insert
  <2> QED BY <1>2, <2>1, <2>2
<1> QED BY <1>1, <1>2, <1>3, <1>4, <1>6

\* A guarded UPDATE touches at most one row, a live one, and only its fate.
LEMMA RetireType ==
    ASSUME TypeOK, NEW i, NEW fate \in Fates, NEW by \in Ids \cup {None},
           Retire(i, fate, by)
    PROVE  /\ DOMAIN mem' = DOMAIN mem
           /\ mem' \in [DOMAIN mem' -> Row]
           /\ \A k \in DOMAIN mem :
                 /\ mem'[k].ns = mem[k].ns /\ mem'[k].ref = mem[k].ref
                 /\ mem'[k].at = mem[k].at
                 /\ mem'[k] # mem[k] => /\ k = i /\ Live(k)
                                        /\ mem'[k].fate = fate /\ mem'[k].supersededBy = by
<1>1. DOMAIN mem' = DOMAIN mem
  BY DEF Retire
<1>2. ASSUME NEW k \in DOMAIN mem
      PROVE  /\ mem'[k] \in Row
             /\ mem'[k].ns = mem[k].ns /\ mem'[k].ref = mem[k].ref
             /\ mem'[k].at = mem[k].at
             /\ mem'[k] # mem[k] => /\ k = i /\ Live(k)
                                    /\ mem'[k].fate = fate /\ mem'[k].supersededBy = by
  <2>1. mem[k] \in Row
    BY DEF TypeOK
  <2>2. mem'[k] = IF k = i /\ Live(k)
                  THEN [mem[k] EXCEPT !.fate = fate, !.supersededBy = by] ELSE mem[k]
    BY DEF Retire
  <2> QED BY <2>1, <2>2 DEF Row
<1>3. mem' = [k \in DOMAIN mem' |-> mem'[k]]
  BY <1>1 DEF Retire
<1> QED BY <1>1, <1>2, <1>3

\* What a worker is doing tells the shape of its job.
LEMMA JobShape ==
    ASSUME TypeOK, NEW w \in Workers
    PROVE  /\ job[w].step \in RetainSteps => job[w] \in Retaining
           /\ job[w].step = "import" => job[w] \in Importing
           /\ job[w].step = "dedup" => job[w] \in Deduping
           /\ job[w].step = "delete" => job[w] \in Deleting
           /\ job[w].step = "idle" => job[w] = NoJob
BY DEF TypeOK, Job, NoJob, RetainSteps, Retaining, Importing, Deduping, Deleting

-----------------------------------------------------------------------------
(* The inductive invariant.  SupersessionSound alone is not inductive: the  *)
(* last step of Retain writes ids that an earlier step of the same worker   *)
(* read, so it needs to be known of them that they still agree.  The row a  *)
(* worker means to retire is of the request's brain and record, and older   *)
(* than the row the worker inserted.  As long as the older one is in the    *)
(* table so is the newer: a deletion takes what was there when it began,    *)
(* hence with each row all older ones of its brain.                         *)

\* The steps at which a worker holds the id of a row it has read.
Acting == {"noop", "retract", "insert", "supersede"}

JobSound ==
    \A w \in Workers :
        LET j == job[w] IN
        j.step \in Acting =>
            /\ j.related < nextId
            /\ j.related \in DOMAIN mem =>
                  mem[j.related].ns = j.ns /\ j.ref \in {mem[j.related].ref, NoRef}
            /\ j.step = "supersede" /\ j.related \in DOMAIN mem =>
                  /\ j.newId \in DOMAIN mem /\ j.related < j.newId
                  /\ mem[j.newId].ns = j.ns /\ mem[j.newId].ref = j.ref

OldestGoFirst ==
    \A i, k \in DOMAIN mem :
        mem[k].fate = "deleted" /\ mem[i].ns = mem[k].ns /\ i < k => mem[i].fate = "deleted"

IInv == TypeOK /\ SupersessionSound /\ JobSound /\ OldestGoFirst

LEMMA InitIInv == Init => IInv
<1> SUFFICES ASSUME Init PROVE IInv
  OBVIOUS
<1>1. DOMAIN mem = {} /\ nextId = 1 /\ faults = 0 /\ job = [w \in Workers |-> NoJob]
  BY DEF Init
<1>2. mem \in [1..(nextId - 1) -> Row]
  <2>1. 1..(nextId - 1) = {}
    BY <1>1
  <2> QED BY <2>1 DEF Init
<1>3. TypeOK
  BY <1>1, <1>2, BoundsAssumption DEF TypeOK, Job
<1> QED BY <1>1, <1>3 DEF IInv, SupersessionSound, JobSound, OldestGoFirst, NoJob, Acting

\* What JobSound says of one worker that has read its related row.
LEMMA JobRelated ==
    ASSUME IInv, NEW v \in Workers, job[v].step \in Acting
    PROVE  /\ job[v].related \in Int /\ nextId \in Int /\ job[v].related < nextId
           /\ job[v].related \in DOMAIN mem =>
                 /\ mem[job[v].related].ns = job[v].ns
                 /\ job[v].ref \in {mem[job[v].related].ref, NoRef}
           /\ job[v].step = "supersede" /\ job[v].related \in DOMAIN mem =>
                 /\ job[v].newId \in DOMAIN mem /\ job[v].related < job[v].newId
                 /\ mem[job[v].newId].ns = job[v].ns /\ mem[job[v].newId].ref = job[v].ref
<1>1. job[v] \in Retaining
  BY JobShape DEF IInv, Acting, RetainSteps
<1>2. job[v].related \in Int
  BY <1>1, BoundsAssumption DEF Retaining, Ids, None
<1>3. nextId \in Int
  BY DEF IInv, TypeOK
<1> QED BY <1>2, <1>3 DEF IInv, JobSound

\* The row a live row is superseded by is in the table as long as it is.
LEMMA NewerInTable ==
    ASSUME IInv, NEW i, InTable(i), NEW k \in DOMAIN mem, i < k, mem[i].ns = mem[k].ns
    PROVE  InTable(k)
BY DEF IInv, OldestGoFirst, InTable

\* A step that leaves the table alone and puts worker w on a sound job.
LEMMA JobStep ==
    ASSUME IInv, UNCHANGED <<mem, nextId>>, faults' \in 0..MaxFaults,
           NEW w \in Workers, NEW j \in Job,
           job' = [job EXCEPT ![w] = j],
           j.step \in Acting =>
               /\ j.step # "supersede"
               /\ j.related < nextId
               /\ j.related \in DOMAIN mem =>
                     mem[j.related].ns = j.ns /\ j.ref \in {mem[j.related].ref, NoRef}
    PROVE  IInv'
<1>1. TypeOK'
  BY DEF IInv, TypeOK
<1>2. SupersessionSound'
  BY DEF IInv, SupersessionSound, InTable
<1>4. OldestGoFirst'
  BY DEF IInv, OldestGoFirst
<1>3. JobSound'
  <2> SUFFICES ASSUME NEW v \in Workers, job'[v].step \in Acting
               PROVE  /\ job'[v].related < nextId'
                      /\ job'[v].related \in DOMAIN mem' =>
                            /\ mem'[job'[v].related].ns = job'[v].ns
                            /\ job'[v].ref \in {mem'[job'[v].related].ref, NoRef}
                      /\ job'[v].step = "supersede" /\ job'[v].related \in DOMAIN mem' =>
                            /\ job'[v].newId \in DOMAIN mem' /\ job'[v].related < job'[v].newId
                            /\ mem'[job'[v].newId].ns = job'[v].ns
                            /\ mem'[job'[v].newId].ref = job'[v].ref
    BY DEF JobSound
  <2>1. CASE v = w
    BY <2>1 DEF IInv, TypeOK
  <2>2. CASE v # w
    <3>1. job'[v] = job[v]
      BY <2>2 DEF IInv, TypeOK
    <3> QED BY <3>1 DEF IInv, JobSound
  <2> QED BY <2>1, <2>2
<1> QED BY <1>1, <1>2, <1>3, <1>4 DEF IInv

\* A retirement step: worker w, on a sound job, retires the related row.
LEMMA RetireStep ==
    ASSUME IInv, UNCHANGED nextId, faults' \in 0..MaxFaults,
           NEW i, NEW fate \in Fates \ {"live", "deleted"}, NEW by \in Ids \cup {None},
           Retire(i, fate, by),
           fate = "superseded" <=> by # None,
           i \in DOMAIN mem /\ by # None =>
               /\ by \in DOMAIN mem /\ i < by
               /\ mem[by].ns = mem[i].ns /\ mem[by].ref \in {mem[i].ref, NoRef},
           job' \in [Workers -> Job],
           \A w \in Workers : job'[w] = job[w] \/ job'[w] = NoJob
               \/ /\ job[w].step = "retract"
                  /\ job'[w] = [job[w] EXCEPT !.step = "insert"]
    PROVE  IInv'
<1>0. /\ DOMAIN mem' = DOMAIN mem
      /\ mem' \in [DOMAIN mem' -> Row]
      /\ \A m \in DOMAIN mem :
            /\ mem'[m].ns = mem[m].ns /\ mem'[m].ref = mem[m].ref
            /\ mem'[m] # mem[m] => /\ m = i /\ Live(m) /\ mem'[m].fate = fate
                                   /\ mem'[m].supersededBy = by
  <2>1. TypeOK /\ fate \in Fates
    BY DEF IInv
  <2> QED BY <2>1, RetireType DEF Live
<1>1. TypeOK'
  <2>1. DOMAIN mem = 1..(nextId - 1)
    BY DEF IInv, TypeOK
  <2> QED BY <1>0, <2>1 DEF IInv, TypeOK
<1>4. \A m \in DOMAIN mem : mem'[m].fate = "deleted" <=> mem[m].fate = "deleted"
  BY <1>0 DEF Live
<1>5. OldestGoFirst'
  BY <1>0, <1>4 DEF IInv, OldestGoFirst
<1>2. SupersessionSound'
  <2> SUFFICES ASSUME NEW k \in DOMAIN mem'
               PROVE  LET s == mem'[k].supersededBy IN
                      /\ mem'[k].fate = "superseded" => s # None
                      /\ s # None => mem'[k].fate \in {"superseded", "deduped", "deleted"}
                      /\ InTable(k)' /\ s # None =>
                            /\ s \in DOMAIN mem' /\ mem'[s].fate # "deleted" /\ k < s
                            /\ mem'[s].ns = mem'[k].ns
                            /\ mem'[s].ref \in {mem'[k].ref, NoRef}
    BY DEF SupersessionSound, InTable
  <2>1. \A m : InTable(m)' <=> InTable(m)
    BY <1>0, <1>4 DEF InTable
  <2>2. CASE mem'[k] = mem[k]
    <3> DEFINE s == mem[k].supersededBy
    <3>1. /\ mem[k].fate = "superseded" => s # None
          /\ s # None => mem[k].fate \in {"superseded", "deduped", "deleted"}
          /\ InTable(k) /\ s # None =>
                /\ InTable(s) /\ k < s /\ mem[s].ns = mem[k].ns /\ mem[s].ref \in {mem[k].ref, NoRef}
      BY <1>0 DEF IInv, SupersessionSound
    <3>2. InTable(s) => s \in DOMAIN mem' /\ mem'[s].fate # "deleted"
      BY <1>0, <1>4 DEF InTable
    <3>3. s \in DOMAIN mem => mem'[s].ns = mem[s].ns /\ mem'[s].ref = mem[s].ref
      BY <1>0
    <3>4. InTable(k)' => InTable(k)
      BY <2>1
    <3> QED BY <1>0, <2>2, <3>1, <3>2, <3>3, <3>4
  <2>3. CASE mem'[k] # mem[k]
    <3>1. k = i /\ k \in DOMAIN mem /\ Live(k) /\ mem'[k].fate = fate /\ mem'[k].supersededBy = by
      BY <1>0, <2>3
    <3>2. InTable(k)
      BY <3>1 DEF Live, InTable
    <3>3. by # None => by \in DOMAIN mem /\ mem[by].fate # "deleted"
      BY <3>1, <3>2, NewerInTable DEF InTable
    <3>4. by # None => by \in DOMAIN mem' /\ mem'[by].fate # "deleted"
      BY <1>0, <1>4, <3>3
    <3>5. by # None => /\ k < by /\ mem'[by].ns = mem'[k].ns /\ mem'[by].ref \in {mem'[k].ref, NoRef}
      BY <1>0, <3>1, <3>3
    <3> QED BY <3>1, <3>4, <3>5
  <2> QED BY <2>2, <2>3
<1>3. JobSound'
  <2> SUFFICES ASSUME NEW v \in Workers, job'[v].step \in Acting
               PROVE  /\ job'[v].related < nextId'
                      /\ job'[v].related \in DOMAIN mem' =>
                            /\ mem'[job'[v].related].ns = job'[v].ns
                            /\ job'[v].ref \in {mem'[job'[v].related].ref, NoRef}
                      /\ job'[v].step = "supersede" /\ job'[v].related \in DOMAIN mem' =>
                            /\ job'[v].newId \in DOMAIN mem' /\ job'[v].related < job'[v].newId
                            /\ mem'[job'[v].newId].ns = job'[v].ns
                            /\ mem'[job'[v].newId].ref = job'[v].ref
    BY DEF JobSound
  <2>2. CASE job'[v] = job[v]
    BY <1>0, <2>2 DEF IInv, JobSound
  <2>3. CASE job'[v] = NoJob
    BY <2>3 DEF NoJob, Acting
  <2>4. CASE job[v].step = "retract" /\ job'[v] = [job[v] EXCEPT !.step = "insert"]
    <3>1. job[v] \in Retaining
      BY <2>4, JobShape DEF IInv, RetainSteps
    <3>2. /\ job'[v].step = "insert" /\ job'[v].related = job[v].related
          /\ job'[v].ns = job[v].ns /\ job'[v].ref = job[v].ref
      BY <2>4, <3>1 DEF Retaining
    <3> QED BY <1>0, <2>4, <3>2 DEF IInv, JobSound, Acting
  <2> QED BY <2>2, <2>3, <2>4
<1> QED BY <1>1, <1>2, <1>3, <1>5 DEF IInv

\* An insertion: the worker that made it ends, goes on importing, or is left
\* to retire the row it read, with the new row in hand.
LEMMA InsertStep ==
    ASSUME IInv, UNCHANGED faults,
           NEW ns \in Namespaces, NEW ref \in Refs \cup {NoRef},
           NEW c \in Contents, NEW at \in Backdates \cup {Unset},
           Insert(ns, ref, c, at),
           job' \in [Workers -> Job],
           \A w \in Workers : job'[w] = job[w] \/ job'[w].step \in {"idle", "import"}
               \/ /\ job[w].step = "insert" /\ job[w].ns = ns /\ job[w].ref = ref
                  /\ job'[w].step = "supersede" /\ job'[w].related = job[w].related
                  /\ job'[w].ns = ns /\ job'[w].ref = ref /\ job'[w].newId = nextId
    PROVE  IInv'
<1>0. /\ nextId \in Ids
      /\ nextId' \in 1..(MaxMemories + 1) /\ nextId' = nextId + 1
      /\ DOMAIN mem' = DOMAIN mem \cup {nextId}
      /\ mem' \in [1..(nextId' - 1) -> Row]
      /\ \A k \in DOMAIN mem : k # nextId /\ mem'[k] = mem[k]
      /\ mem'[nextId].fate = "live" /\ mem'[nextId].supersededBy = None
      /\ mem'[nextId].ns = ns /\ mem'[nextId].ref = ref
  <2>1. TypeOK
    BY DEF IInv
  <2>2. nextId' = nextId + 1
    BY DEF Insert
  <2> QED BY <2>1, <2>2, InsertType
<1>1. TypeOK'
  BY <1>0 DEF IInv, TypeOK
<1>4. DOMAIN mem = 1..(nextId - 1)
  BY DEF IInv, TypeOK
<1>5. OldestGoFirst'
  <2> SUFFICES ASSUME NEW i \in DOMAIN mem', NEW k \in DOMAIN mem', mem'[k].fate = "deleted",
                      mem'[i].ns = mem'[k].ns, i < k
               PROVE  mem'[i].fate = "deleted"
    BY DEF OldestGoFirst
  <2>1. k \in DOMAIN mem
    BY <1>0
  <2>2. i \in DOMAIN mem
    BY <1>0, <1>4, <2>1 DEF Ids
  <2> QED BY <1>0, <2>1, <2>2 DEF IInv, OldestGoFirst
<1>2. SupersessionSound'
  <2> SUFFICES ASSUME NEW k \in DOMAIN mem'
               PROVE  LET s == mem'[k].supersededBy IN
                      /\ mem'[k].fate = "superseded" => s # None
                      /\ s # None => mem'[k].fate \in {"superseded", "deduped", "deleted"}
                      /\ InTable(k)' /\ s # None =>
                            /\ s \in DOMAIN mem' /\ mem'[s].fate # "deleted" /\ k < s
                            /\ mem'[s].ns = mem'[k].ns
                            /\ mem'[s].ref \in {mem'[k].ref, NoRef}
    BY DEF SupersessionSound, InTable
  <2>1. CASE k = nextId
    BY <1>0, <2>1
  <2>2. CASE k \in DOMAIN mem
    <3> DEFINE s == mem[k].supersededBy
    <3>1. mem'[k] = mem[k] /\ (InTable(k)' <=> InTable(k))
      BY <1>0, <2>2 DEF InTable
    <3>2. /\ mem[k].fate = "superseded" => s # None
          /\ s # None => mem[k].fate \in {"superseded", "deduped", "deleted"}
          /\ InTable(k) /\ s # None =>
                /\ InTable(s) /\ k < s /\ mem[s].ns = mem[k].ns /\ mem[s].ref \in {mem[k].ref, NoRef}
      BY <2>2 DEF IInv, SupersessionSound
    <3>3. InTable(s) => s \in DOMAIN mem' /\ mem'[s] = mem[s] /\ mem'[s].fate # "deleted"
      BY <1>0 DEF InTable
    <3> HIDE DEF s
    <3>4. InTable(k)' => InTable(k)
      BY <3>1
    <3> QED BY <3>1, <3>2, <3>3, <3>4 DEF s
  <2> QED BY <1>0, <2>1, <2>2
<1>3. JobSound'
  <2> SUFFICES ASSUME NEW v \in Workers, job'[v].step \in Acting
               PROVE  /\ job'[v].related < nextId'
                      /\ job'[v].related \in DOMAIN mem' =>
                            /\ mem'[job'[v].related].ns = job'[v].ns
                            /\ job'[v].ref \in {mem'[job'[v].related].ref, NoRef}
                      /\ job'[v].step = "supersede" /\ job'[v].related \in DOMAIN mem' =>
                            /\ job'[v].newId \in DOMAIN mem' /\ job'[v].related < job'[v].newId
                            /\ mem'[job'[v].newId].ns = job'[v].ns
                            /\ mem'[job'[v].newId].ref = job'[v].ref
    BY DEF JobSound
  <2>1. CASE job'[v] = job[v]
    <3>1. job[v].step \in Acting
      BY <2>1
    <3>2. job[v].related < nextId' /\ job[v].related # nextId
      BY <1>0, <3>1, JobRelated
    <3>3. job[v].related \in DOMAIN mem' => job[v].related \in DOMAIN mem
      BY <1>0, <3>2
    <3> QED BY <1>0, <2>1, <3>1, <3>2, <3>3, JobRelated DEF Acting
  <2>2. CASE /\ job[v].step = "insert" /\ job[v].ns = ns /\ job[v].ref = ref
             /\ job'[v].step = "supersede" /\ job'[v].related = job[v].related
             /\ job'[v].ns = ns /\ job'[v].ref = ref /\ job'[v].newId = nextId
    <3>1. job[v].step \in Acting
      BY <2>2 DEF Acting
    <3>2. job[v].related < nextId' /\ job[v].related < nextId /\ job[v].related # nextId
      BY <1>0, <3>1, JobRelated
    <3>4. job[v].related \in DOMAIN mem' =>
             /\ mem'[job[v].related].ns = ns
             /\ ref \in {mem'[job[v].related].ref, NoRef}
      BY <1>0, <2>2, <3>1, <3>2, JobRelated
    <3> QED BY <1>0, <2>2, <3>2, <3>4
  <2> QED BY <2>1, <2>2 DEF Acting
<1> QED BY <1>1, <1>2, <1>3, <1>5 DEF IInv

\* The other writers keep the brain, record and successor of every row and
\* start no Retain.  They make none superseded or live, and delete with a row
\* all older ones of its brain.
LEMMA StatementStep ==
    ASSUME IInv, UNCHANGED <<nextId, faults>>,
           job' \in [Workers -> Job],
           \A w \in Workers : job'[w] = job[w] \/ job'[w] = NoJob,
           mem' \in [DOMAIN mem -> Row],
           \A i \in DOMAIN mem :
              /\ mem'[i].ns = mem[i].ns /\ mem'[i].ref = mem[i].ref
              /\ \/ mem'[i].fate = mem[i].fate
                 \/ mem[i].fate = "live" /\ mem'[i].fate # "superseded"
                 \/ mem'[i].fate = "deduped" /\ mem[i].fate # "deleted"
                 \/ mem'[i].fate = "deleted"
              /\ mem'[i].supersededBy = mem[i].supersededBy,
           OldestGoFirst'
    PROVE  IInv'
<1>0. DOMAIN mem' = DOMAIN mem
  OBVIOUS
<1>1. TypeOK'
  BY DEF IInv, TypeOK
<1>2. SupersessionSound'
  <2> SUFFICES ASSUME NEW k \in DOMAIN mem
               PROVE  LET s == mem'[k].supersededBy IN
                      /\ mem'[k].fate = "superseded" => s # None
                      /\ s # None => mem'[k].fate \in {"superseded", "deduped", "deleted"}
                      /\ InTable(k)' /\ s # None =>
                            /\ s \in DOMAIN mem' /\ mem'[s].fate # "deleted" /\ k < s
                            /\ mem'[s].ns = mem'[k].ns
                            /\ mem'[s].ref \in {mem'[k].ref, NoRef}
    BY <1>0 DEF SupersessionSound, InTable
  <2> DEFINE s == mem[k].supersededBy
  <2>1. /\ mem[k].fate = "superseded" => s # None
        /\ s # None => mem[k].fate \in {"superseded", "deduped", "deleted"}
        /\ InTable(k) /\ s # None =>
              /\ InTable(s) /\ k < s /\ mem[s].ns = mem[k].ns /\ mem[s].ref \in {mem[k].ref, NoRef}
    BY DEF IInv, SupersessionSound
  <2>2. /\ mem'[k].fate = "superseded" => s # None
        /\ s # None => mem'[k].fate \in {"superseded", "deduped", "deleted"}
    BY <2>1
  <2>3. ASSUME InTable(k)', s # None
        PROVE  /\ s \in DOMAIN mem' /\ mem'[s].fate # "deleted" /\ k < s
               /\ mem'[s].ns = mem'[k].ns /\ mem'[s].ref \in {mem'[k].ref, NoRef}
    <3>1. InTable(k)
      BY <2>1, <2>3 DEF InTable
    <3>2. s \in DOMAIN mem
      BY <2>1, <2>3, <3>1 DEF InTable
    <3>3. /\ k < s /\ mem'[s].ns = mem'[k].ns /\ mem'[s].ref \in {mem'[k].ref, NoRef}
      BY <2>1, <2>3, <3>1, <3>2
    <3>4. mem'[s].fate # "deleted"
      BY <1>0, <2>3, <3>2, <3>3 DEF InTable, OldestGoFirst
    <3> QED BY <1>0, <3>2, <3>3, <3>4
  <2>4. mem'[k].supersededBy = s
    OBVIOUS
  <2> HIDE DEF s
  <2> QED BY <2>2, <2>3, <2>4
<1>3. JobSound'
  <2> SUFFICES ASSUME NEW v \in Workers, job'[v].step \in Acting
               PROVE  /\ job'[v].related < nextId'
                      /\ job'[v].related \in DOMAIN mem' =>
                            /\ mem'[job'[v].related].ns = job'[v].ns
                            /\ job'[v].ref \in {mem'[job'[v].related].ref, NoRef}
                      /\ job'[v].step = "supersede" /\ job'[v].related \in DOMAIN mem' =>
                            /\ job'[v].newId \in DOMAIN mem' /\ job'[v].related < job'[v].newId
                            /\ mem'[job'[v].newId].ns = job'[v].ns
                            /\ mem'[job'[v].newId].ref = job'[v].ref
    BY DEF JobSound
  <2>1. job'[v] = job[v]
    BY DEF NoJob, Acting
  <2> QED BY <1>0, <2>1 DEF IInv, JobSound
<1> QED BY <1>1, <1>2, <1>3 DEF IInv

-----------------------------------------------------------------------------
(* Every action preserves the inductive invariant.                          *)

\* What a worker does to its own job.
LEMMA JobUpdate ==
    ASSUME TypeOK, NEW w \in Workers, NEW j \in Job,
           job' = [job EXCEPT ![w] = j]
    PROVE  /\ job' \in [Workers -> Job]
           /\ job'[w] = j
           /\ \A v \in Workers \ {w} : job'[v] = job[v]
BY DEF TypeOK

LEMMA FaultBound ==
    ASSUME TypeOK, Fault \/ NoFault
    PROVE  faults' \in 0..MaxFaults
BY BoundsAssumption DEF TypeOK, Fault, NoFault

LEMMA StartIInv ==
    ASSUME IInv, NEW w \in Workers, Request(w)
    PROVE  IInv'
<1>1. ASSUME NEW ns \in Namespaces, NEW ref \in Refs \cup {NoRef}, NEW c \in Contents,
             NEW at \in Backdates \cup {Unset}, RetainStart(w, ns, ref, c, at)
      PROVE  IInv'
  <2> DEFINE j == [step |-> "decide", decision |-> "none", ns |-> ns, ref |-> ref,
                   content |-> c, at |-> at, related |-> None, newId |-> None]
  <2>1. j \in Job /\ j.step = "decide"
    BY DEF Job, Retaining, RetainSteps, Decisions
  <2>2. job' = [job EXCEPT ![w] = j] /\ UNCHANGED <<mem, nextId, faults>>
    BY <1>1 DEF RetainStart
  <2>3. faults' \in 0..MaxFaults
    BY <2>2 DEF IInv, TypeOK
  <2> HIDE DEF j
  <2> QED BY <2>1, <2>2, <2>3, JobStep DEF Acting
<1>2. ASSUME NEW file \in Files, ImportStart(w, file)
      PROVE  IInv'
  <2> DEFINE j == [step |-> "import", lines |-> file]
  <2>1. j \in Job /\ j.step = "import"
    BY NamesAssumption DEF Job, Importing
  <2>2. job' = [job EXCEPT ![w] = j] /\ UNCHANGED <<mem, nextId, faults>>
    BY <1>2 DEF ImportStart
  <2>3. faults' \in 0..MaxFaults
    BY <2>2 DEF IInv, TypeOK
  <2> HIDE DEF j
  <2> QED BY <2>1, <2>2, <2>3, JobStep DEF Acting
<1>3. ASSUME NEW ns \in Namespaces, DedupRead(w, ns)
      PROVE  IInv'
  <2>1. PICK rows \in SUBSET LiveRecords(ns) : \E keep \in SUBSET rows :
           job' = [job EXCEPT ![w] = [step |-> "dedup", dupes |-> rows \ keep]]
    BY <1>3 DEF DedupRead
  <2>0. PICK keep \in SUBSET rows :
           job' = [job EXCEPT ![w] = [step |-> "dedup", dupes |-> rows \ keep]]
    BY <2>1
  <2> DEFINE j == [step |-> "dedup", dupes |-> rows \ keep]
  <2>2. rows \subseteq Ids
    <3>1. DOMAIN mem \subseteq Ids
      BY BoundsAssumption DEF IInv, TypeOK, Ids
    <3> QED BY <3>1 DEF LiveRecords, LiveIn
  <2>3. j \in Job /\ j.step = "dedup"
    BY <2>2 DEF Job, Deduping
  <2>4. job' = [job EXCEPT ![w] = j] /\ UNCHANGED <<mem, nextId, faults>>
    BY <1>3, <2>0 DEF DedupRead
  <2>5. faults' \in 0..MaxFaults
    BY <2>4 DEF IInv, TypeOK
  <2> HIDE DEF j
  <2> QED BY <2>3, <2>4, <2>5, JobStep DEF Acting
<1>4. ASSUME NEW ns \in Namespaces, DeleteRead(w, ns)
      PROVE  IInv'
  <2> DEFINE j == [step |-> "delete", ns |-> ns, below |-> nextId]
  <2>1. nextId \in Ids \cup {MaxMemories + 1}
    BY BoundsAssumption DEF IInv, TypeOK, Ids
  <2>2. j \in Job /\ j.step = "delete"
    BY <2>1 DEF Job, Deleting
  <2>3. job' = [job EXCEPT ![w] = j] /\ UNCHANGED <<mem, nextId, faults>>
    BY <1>4 DEF DeleteRead
  <2>4. faults' \in 0..MaxFaults
    BY <2>3 DEF IInv, TypeOK
  <2> HIDE DEF j
  <2> QED BY <2>2, <2>3, <2>4, JobStep DEF Acting
<1> QED BY <1>1, <1>2, <1>3, <1>4 DEF Request

\* A worker that gives up its job, whatever the reason.
LEMMA FinishIInv ==
    ASSUME IInv, NEW w \in Workers, Finish(w), UNCHANGED <<mem, nextId>>, Fault \/ NoFault
    PROVE  IInv'
<1>1. faults' \in 0..MaxFaults
  BY FaultBound DEF IInv
<1>2. job' = [job EXCEPT ![w] = NoJob] /\ NoJob.step = "idle" /\ NoJob \in Job
  BY DEF Finish, NoJob, Job
<1> QED BY <1>1, <1>2, JobStep DEF Acting

\* A decision binds the worker to no row, or to one of its brain and record.
LEMMA DecidedIInv ==
    ASSUME IInv, NEW w \in Workers, job[w].step = "decide",
           NEW d \in {"add", "update", "invalidate", "noop"}, NEW i,
           \/ i = None
           \/ i \in DOMAIN mem /\ mem[i].ns = job[w].ns /\ job[w].ref \in {mem[i].ref, NoRef},
           Decided(w, d, i), UNCHANGED <<mem, nextId>>, Fault \/ NoFault
    PROVE  IInv'
<1> DEFINE j == [job[w] EXCEPT !.decision = d, !.related = i,
                               !.step = CASE d = "noop" -> "noop"
                                          [] d = "invalidate" -> "retract"
                                          [] OTHER -> "insert"]
<1>1. job[w] \in Retaining
  BY JobShape DEF IInv, RetainSteps
<1>2. /\ nextId \in 1..(MaxMemories + 1) /\ 0 \notin DOMAIN mem
      /\ i \in DOMAIN mem => i \in Ids /\ i < nextId
  BY BoundsAssumption DEF IInv, TypeOK, Ids
<1>3. i \in Ids \cup {None} /\ i < nextId
  BY <1>2, BoundsAssumption DEF None
<1>4. j.step \in {"noop", "retract", "insert"} /\ j.related = i
      /\ j.ns = job[w].ns /\ j.ref = job[w].ref
  BY <1>1 DEF Retaining
<1>5. j \in Job
  <2>1. j \in Retaining
    BY <1>1, <1>3 DEF Retaining, RetainSteps, Decisions
  <2> HIDE DEF j
  <2> QED BY <2>1 DEF Job
<1>6. job' = [job EXCEPT ![w] = j]
  BY DEF Decided
<1>7. faults' \in 0..MaxFaults
  BY FaultBound DEF IInv
<1>8. j.related \in DOMAIN mem =>
         mem[j.related].ns = j.ns /\ j.ref \in {mem[j.related].ref, NoRef}
  BY <1>2, <1>4 DEF None
<1> HIDE DEF j
<1> QED BY <1>3, <1>4, <1>5, <1>6, <1>7, <1>8, JobStep

LEMMA DecideIInv ==
    ASSUME IInv, NEW w \in Workers, DecideRecord(w) \/ DecideNote(w)
    PROVE  IInv'
<1>1. CASE DecideRecord(w)
  <2>1. /\ job[w].step = "decide" /\ UNCHANGED <<mem, nextId>>
        /\ \/ \E i \in newestOf(job[w].ns, job[w].ref) : Decided(w, "update", i) /\ NoFault
           \/ Decided(w, "add", None) /\ (NoFault \/ Fault)
    BY <1>1 DEF DecideRecord
  <2>2. CASE Decided(w, "add", None) /\ (NoFault \/ Fault)
    BY <2>1, <2>2, DecidedIInv
  <2>3. ASSUME NEW i \in newestOf(job[w].ns, job[w].ref), Decided(w, "update", i), NoFault
        PROVE  IInv'
    <3>1. i \in DOMAIN mem /\ mem[i].ns = job[w].ns /\ job[w].ref \in {mem[i].ref, NoRef}
      BY DEF newestOf, LiveIn, Live
    <3> QED BY <2>1, <2>3, <3>1, DecidedIInv
  <2> QED BY <2>1, <2>2, <2>3
<1>2. CASE DecideNote(w)
  <2>1. job[w].step = "decide" /\ job[w].ref = NoRef /\ UNCHANGED <<mem, nextId>>
    BY <1>2 DEF DecideNote
  <2>2. CASE Decided(w, "add", None) /\ (NoFault \/ Fault)
    BY <2>1, <2>2, DecidedIInv
  <2>3. ASSUME NEW seen \in SUBSET LiveIn(job[w].ns), NEW i \in topNeighbor(seen, job[w].content),
               NEW d \in {"add", "update", "invalidate", "noop"},
               Decided(w, d, IF d = "add" THEN None ELSE i), NoFault
        PROVE  IInv'
    <3> DEFINE k == IF d = "add" THEN None ELSE i
    <3>1. i \in DOMAIN mem /\ mem[i].ns = job[w].ns
      BY DEF topNeighbor, LiveIn, Live
    <3>2. \/ k = None
          \/ k \in DOMAIN mem /\ mem[k].ns = job[w].ns /\ job[w].ref \in {mem[k].ref, NoRef}
      BY <2>1, <3>1
    <3>3. Decided(w, d, k)
      BY <2>3
    <3> HIDE DEF k
    <3> QED BY <2>1, <2>3, <3>2, <3>3, DecidedIInv
  <2>4. \A old, new \in Contents : writeDecision(old, new) \in {"add", "update", "invalidate", "noop"}
    BY DEF writeDecision
  <2>5. \A seen \in SUBSET LiveIn(job[w].ns) : \A i \in topNeighbor(seen, job[w].content) :
           mem[i].content \in Contents
    BY DEF topNeighbor, LiveIn, Live, IInv, TypeOK, Row
  <2>6. job[w].content \in Contents
    BY <2>1, JobShape DEF IInv, Retaining, RetainSteps
  <2> QED BY <1>2, <2>2, <2>3, <2>4, <2>5, <2>6 DEF DecideNote
<1> QED BY <1>1, <1>2

LEMMA RetainRetractIInv ==
    ASSUME IInv, NEW w \in Workers, RetainRetract(w)
    PROVE  IInv'
<1> DEFINE j == [job[w] EXCEPT !.step = "insert"]
<1>1. job[w] \in Retaining /\ job[w].step = "retract"
  BY JobShape DEF IInv, RetainRetract, RetainSteps
<1>2. j \in Retaining /\ j \in Job /\ j.step = "insert" /\ j.related = job[w].related
      /\ j.ns = job[w].ns /\ j.ref = job[w].ref
  BY <1>1 DEF Job, Retaining, RetainSteps
<1>3. job' = [job EXCEPT ![w] = j]
  BY DEF RetainRetract, Goto
<1>4. faults' \in 0..MaxFaults
  BY FaultBound DEF IInv, RetainRetract
<1>5. CASE UNCHANGED mem
  <2>1. UNCHANGED <<mem, nextId>>
    BY <1>5 DEF RetainRetract
  <2>2. /\ j.related < nextId
        /\ j.related \in DOMAIN mem =>
              mem[j.related].ns = j.ns /\ j.ref \in {mem[j.related].ref, NoRef}
    BY <1>1, <1>2, JobRelated DEF Acting
  <2> HIDE DEF j
  <2> QED BY <1>2, <1>3, <1>4, <2>1, <2>2, JobStep
<1>6. CASE Retire(job[w].related, "retracted", None)
  <2>1. UNCHANGED nextId /\ "retracted" \in Fates \ {"live", "deleted"}
    BY DEF RetainRetract, Fates
  <2>2. /\ job' \in [Workers -> Job]
        /\ \A v \in Workers : job'[v] = job[v] \/ v = w
        /\ job'[w] = [job[w] EXCEPT !.step = "insert"]
    BY <1>2, <1>3, JobUpdate DEF IInv
  <2> HIDE DEF j
  <2> QED BY <1>1, <1>4, <1>6, <2>1, <2>2, RetireStep DEF None
<1> QED BY <1>5, <1>6 DEF RetainRetract

LEMMA RetainSupersedeIInv ==
    ASSUME IInv, NEW w \in Workers, RetainSupersede(w)
    PROVE  IInv'
<1>1. job[w] \in Retaining /\ job[w].step = "supersede" /\ UNCHANGED nextId /\ Finish(w)
  BY JobShape DEF IInv, RetainSupersede, RetainSteps
<1>2. CASE UNCHANGED mem
  BY <1>1, <1>2, FinishIInv DEF RetainSupersede
<1>3. CASE Retire(job[w].related, "superseded", job[w].newId) /\ job[w].newId # None
  <2>1. faults' \in 0..MaxFaults
    BY FaultBound DEF IInv, RetainSupersede
  <2>2. "superseded" \in Fates \ {"live", "deleted"} /\ job[w].newId \in Ids \cup {None}
    BY <1>1 DEF Fates, Retaining
  <2>3. job[w].related \in DOMAIN mem =>
           /\ job[w].newId \in DOMAIN mem /\ job[w].related < job[w].newId
           /\ mem[job[w].newId].ns = mem[job[w].related].ns
           /\ mem[job[w].newId].ref \in {mem[job[w].related].ref, NoRef}
    BY <1>1, JobRelated DEF Acting
  <2>4. /\ job' \in [Workers -> Job]
        /\ \A v \in Workers : job'[v] = job[v] \/ job'[v] = NoJob
    BY <1>1, JobUpdate DEF IInv, Finish, Job
  <2> QED BY <1>1, <1>3, <2>1, <2>2, <2>3, <2>4, RetireStep
<1>4. CASE Retire(job[w].related, "superseded", job[w].newId) /\ job[w].newId = None
  <2>1. None \notin DOMAIN mem
    BY DEF IInv, TypeOK, None
  <2>2. job[w].related \notin DOMAIN mem
    BY <1>1, <1>4, <2>1, JobRelated DEF Acting
  <2>3. mem' = mem
    BY <1>4, <2>2 DEF Retire, IInv, TypeOK
  <2> QED BY <1>1, <2>3, FinishIInv DEF RetainSupersede
<1> QED BY <1>2, <1>3, <1>4 DEF RetainSupersede

LEMMA RetainInsertIInv ==
    ASSUME IInv, NEW w \in Workers, RetainInsert(w)
    PROVE  IInv'
<1>1. job[w] \in Retaining /\ job[w].step = "insert"
  BY JobShape DEF IInv, RetainInsert, RetainSteps
<1>2. CASE Finish(w) /\ Fault /\ UNCHANGED <<mem, nextId>>
  BY <1>2, FinishIInv
<1>3. CASE /\ Insert(job[w].ns, job[w].ref, job[w].content, job[w].at)
           /\ NoFault
           /\ IF job[w].decision = "update"
              THEN job' = [job EXCEPT ![w] = [job[w] EXCEPT !.step = "supersede", !.newId = nextId]]
              ELSE Finish(w)
  <2>1. /\ job[w].ns \in Namespaces /\ job[w].ref \in Refs \cup {NoRef}
        /\ job[w].content \in Contents /\ job[w].at \in Backdates \cup {Unset}
    BY <1>1 DEF Retaining
  <2>2. UNCHANGED faults
    BY <1>3 DEF NoFault
  <2>3. CASE Finish(w)
    <3>1. /\ job' \in [Workers -> Job]
          /\ \A v \in Workers : job'[v] = job[v] \/ job'[v].step = "idle"
      <4>1. NoJob \in Job /\ NoJob.step = "idle" /\ job' = [job EXCEPT ![w] = NoJob]
        BY <2>3 DEF Job, NoJob, Finish
      <4> QED BY <4>1, JobUpdate DEF IInv
    <3> QED BY <1>3, <2>1, <2>2, <3>1, InsertStep
  <2>4. CASE job' = [job EXCEPT ![w] = [job[w] EXCEPT !.step = "supersede", !.newId = nextId]]
    <3> DEFINE j == [job[w] EXCEPT !.step = "supersede", !.newId = nextId]
    <3>1. nextId \in Ids
      BY <1>3, BoundsAssumption DEF IInv, TypeOK, Insert, Ids
    <3>2. /\ j \in Job /\ j.step = "supersede" /\ j.related = job[w].related
          /\ j.ns = job[w].ns /\ j.ref = job[w].ref /\ j.newId = nextId
      BY <1>1, <3>1 DEF Job, Retaining, RetainSteps
    <3> HIDE DEF j
    <3>3. /\ job' \in [Workers -> Job]
          /\ job'[w] = j
          /\ \A v \in Workers \ {w} : job'[v] = job[v]
      BY <2>4, <3>2, JobUpdate DEF IInv, j
    <3>4. \A v \in Workers : job'[v] = job[v]
             \/ /\ job[v].step = "insert" /\ job[v].ns = job[w].ns /\ job[v].ref = job[w].ref
                /\ job'[v].step = "supersede" /\ job'[v].related = job[v].related
                /\ job'[v].ns = job[w].ns /\ job'[v].ref = job[w].ref /\ job'[v].newId = nextId
      BY <1>1, <3>2, <3>3
    <3> QED BY <1>3, <2>1, <2>2, <3>3, <3>4, InsertStep
  <2> QED BY <1>3, <2>3, <2>4
<1> QED BY <1>2, <1>3 DEF RetainInsert

LEMMA ImportIInv ==
    ASSUME IInv, NEW w \in Workers, ImportStep(w)
    PROVE  IInv'
<1>1. job[w] \in Importing /\ job[w].step = "import"
  BY JobShape DEF IInv, ImportStep, ImportLine, ImportEnd
<1>2. CASE ImportEnd(w)
  BY <1>2, FinishIInv DEF ImportEnd, NoFault
<1>3. CASE ImportLine(w)
  <2> DEFINE l == Head(job[w].lines)
             j == [step |-> "import", lines |-> Tail(job[w].lines)]
  <2>1. job[w].lines \in Seq(Line) /\ job[w].lines # <<>>
    BY <1>1, <1>3 DEF ImportLine, Importing
  <2>2. /\ l.ns \in Namespaces /\ l.ref \in Refs \cup {NoRef} /\ l.content \in Contents
        /\ Unset \in Backdates \cup {Unset}
    <3>1. l \in Line
      BY <2>1
    <3> QED BY <3>1 DEF Line
  <2>3. j \in Job /\ j.step = "import"
    BY <2>1 DEF Job, Importing
  <2>4. job' = [job EXCEPT ![w] = j]
    BY <1>3 DEF ImportLine
  <2>5. CASE Insert(l.ns, l.ref, l.content, Unset) /\ NoFault
    <3>1. UNCHANGED faults
      BY <2>5 DEF NoFault
    <3>2. /\ job' \in [Workers -> Job]
          /\ \A v \in Workers : job'[v] = job[v] \/ job'[v].step \in {"idle", "import"}
      BY <2>3, <2>4, JobUpdate DEF IInv
    <3> HIDE DEF l, j
    <3> QED BY <2>2, <2>5, <3>1, <3>2, InsertStep
  <2>6. CASE UNCHANGED <<mem, nextId>> /\ Fault
    <3>1. faults' \in 0..MaxFaults
      BY <2>6, FaultBound DEF IInv
    <3> HIDE DEF j
    <3> QED BY <2>3, <2>4, <2>6, <3>1, JobStep DEF Acting
  <2> QED BY <1>3, <2>5, <2>6 DEF ImportLine
<1> QED BY <1>2, <1>3 DEF ImportStep

LEMMA MaintainIInv ==
    ASSUME IInv, Maintain
    PROVE  IInv'
<1>0. mem \in [DOMAIN mem -> Row]
  BY DEF IInv, TypeOK
<1>1. ASSUME NEW i \in DOMAIN mem, Forget(i)
      PROVE  IInv'
  <2>1. mem' = [k \in DOMAIN mem |->
                  IF k = i /\ Live(k)
                  THEN [mem[k] EXCEPT !.fate = "forgotten", !.supersededBy = None] ELSE mem[k]]
    BY <1>1 DEF Forget, Retire
  <2>2. mem[i].fate = "live" /\ mem[i].supersededBy = None
    BY <1>1 DEF IInv, SupersessionSound, Forget, Live
  <2>3. ASSUME NEW k \in DOMAIN mem
        PROVE  /\ mem'[k] \in Row
               /\ mem'[k].ns = mem[k].ns /\ mem'[k].ref = mem[k].ref
               /\ \/ mem'[k].fate = mem[k].fate
                  \/ mem[k].fate = "live" /\ mem'[k].fate = "forgotten"
               /\ mem'[k].supersededBy = mem[k].supersededBy
    BY <1>0, <2>1, <2>2 DEF Row, Fates, None
  <2>4. DOMAIN mem' = DOMAIN mem /\ UNCHANGED <<nextId, job, faults>>
        /\ mem' \in [DOMAIN mem -> Row] /\ job \in [Workers -> Job]
    BY <1>1, <2>1, <2>3 DEF Forget, IInv, TypeOK
  <2>5. OldestGoFirst'
    BY <2>3, <2>4 DEF IInv, OldestGoFirst
  <2> QED BY <2>3, <2>4, <2>5, StatementStep
<1>2. ASSUME NEW i \in DOMAIN mem, NEW c \in Contents, EditMemory(i, c)
      PROVE  IInv'
  <2>1. mem' = [mem EXCEPT ![i].content = c]
    BY <1>2 DEF EditMemory
  <2>2. ASSUME NEW k \in DOMAIN mem
        PROVE  /\ mem'[k] \in Row
               /\ mem'[k].ns = mem[k].ns /\ mem'[k].ref = mem[k].ref
               /\ mem'[k].fate = mem[k].fate
               /\ mem'[k].supersededBy = mem[k].supersededBy
    BY <1>0, <2>1 DEF Row
  <2>3. DOMAIN mem' = DOMAIN mem /\ UNCHANGED <<nextId, job, faults>>
        /\ mem' \in [DOMAIN mem -> Row] /\ job \in [Workers -> Job]
    BY <1>2, <2>1, <2>2 DEF EditMemory, IInv, TypeOK
  <2>4. OldestGoFirst'
    BY <2>2, <2>3 DEF IInv, OldestGoFirst
  <2> QED BY <2>2, <2>3, <2>4, StatementStep
<1> QED BY <1>1, <1>2 DEF Maintain

\* A sweep writes its rows whatever has become of them, but none that is gone.
LEMMA DedupWriteIInv ==
    ASSUME IInv, NEW w \in Workers, DedupWrite(w)
    PROVE  IInv'
<1>0. mem \in [DOMAIN mem -> Row]
  BY DEF IInv, TypeOK
<1>1. mem' = [i \in DOMAIN mem |->
                IF i \in job[w].dupes /\ InTable(i)
                THEN [mem[i] EXCEPT !.fate = "deduped"] ELSE mem[i]]
  BY DEF DedupWrite
<1>2. ASSUME NEW k \in DOMAIN mem
      PROVE  /\ mem'[k] \in Row
             /\ mem'[k].ns = mem[k].ns /\ mem'[k].ref = mem[k].ref
             /\ \/ mem'[k].fate = mem[k].fate
                \/ mem'[k].fate = "deduped" /\ mem[k].fate # "deleted"
             /\ mem'[k].supersededBy = mem[k].supersededBy
  BY <1>0, <1>1 DEF Row, Fates, InTable
<1>3. DOMAIN mem' = DOMAIN mem /\ UNCHANGED <<nextId, faults>> /\ mem' \in [DOMAIN mem -> Row]
  BY <1>1, <1>2 DEF DedupWrite
<1>4. job' \in [Workers -> Job] /\ \A v \in Workers : job'[v] = job[v] \/ job'[v] = NoJob
  BY JobUpdate DEF IInv, DedupWrite, Finish, Job
<1>5. OldestGoFirst'
  BY <1>2, <1>3 DEF IInv, OldestGoFirst
<1> QED BY <1>2, <1>3, <1>4, <1>5, StatementStep

\* A deletion takes the rows of the brain that are older than itself.
LEMMA DeleteWriteIInv ==
    ASSUME IInv, NEW w \in Workers, DeleteWrite(w)
    PROVE  IInv'
<1>0. mem \in [DOMAIN mem -> Row] /\ DOMAIN mem \subseteq Int
  BY DEF IInv, TypeOK
<1>1. mem' = [i \in DOMAIN mem |->
                IF mem[i].ns = job[w].ns /\ i < job[w].below
                THEN [mem[i] EXCEPT !.fate = "deleted"] ELSE mem[i]]
  BY DEF DeleteWrite
<1>2. ASSUME NEW k \in DOMAIN mem
      PROVE  /\ mem'[k] \in Row
             /\ mem'[k].ns = mem[k].ns /\ mem'[k].ref = mem[k].ref
             /\ mem'[k].fate = IF mem[k].ns = job[w].ns /\ k < job[w].below
                               THEN "deleted" ELSE mem[k].fate
             /\ mem'[k].supersededBy = mem[k].supersededBy
  BY <1>0, <1>1 DEF Row, Fates
<1>3. DOMAIN mem' = DOMAIN mem /\ UNCHANGED <<nextId, faults>> /\ mem' \in [DOMAIN mem -> Row]
  BY <1>1, <1>2 DEF DeleteWrite
<1>4. job' \in [Workers -> Job] /\ \A v \in Workers : job'[v] = job[v] \/ job'[v] = NoJob
  BY JobUpdate DEF IInv, DeleteWrite, Finish, Job
<1>5. job[w].below \in Int
  BY JobShape, BoundsAssumption DEF IInv, DeleteWrite, Deleting, Ids
<1>6. OldestGoFirst'
  <2> SUFFICES ASSUME NEW i \in DOMAIN mem, NEW k \in DOMAIN mem, mem'[k].fate = "deleted",
                      mem'[i].ns = mem'[k].ns, i < k
               PROVE  mem'[i].fate = "deleted"
    BY <1>3 DEF OldestGoFirst
  <2>1. CASE mem[k].ns = job[w].ns /\ k < job[w].below
    <3>1. i < job[w].below /\ mem[i].ns = job[w].ns
      BY <1>0, <1>2, <1>5, <2>1
    <3> QED BY <1>2, <3>1
  <2>2. CASE ~ (mem[k].ns = job[w].ns /\ k < job[w].below)
    <3>1. mem[k].fate = "deleted" /\ mem[i].ns = mem[k].ns
      BY <1>2, <2>2
    <3>2. mem[i].fate = "deleted"
      BY <3>1 DEF IInv, OldestGoFirst
    <3> QED BY <1>2, <3>2
  <2> QED BY <2>1, <2>2
<1> QED BY <1>2, <1>3, <1>4, <1>6, StatementStep

LEMMA NextIInv == IInv /\ [Next]_vars => IInv'
<1> SUFFICES ASSUME IInv, [Next]_vars
             PROVE  IInv'
  OBVIOUS
<1>1. CASE UNCHANGED vars
  BY <1>1 DEF IInv, TypeOK, SupersessionSound, JobSound, OldestGoFirst, InTable, vars
<1>2. ASSUME NEW w \in Workers,
             \/ Request(w) \/ RetainStep(w) \/ ImportStep(w)
             \/ DedupWrite(w) \/ DeleteWrite(w) \/ Crash(w)
      PROVE  IInv'
  <2>1. CASE Request(w)
    BY <2>1, StartIInv
  <2>2. CASE DecideRecord(w) \/ DecideNote(w)
    BY <2>2, DecideIInv
  <2>3. CASE RetainNoop(w)
    BY <2>3, FinishIInv DEF RetainNoop, NoFault
  <2>4. CASE RetainRetract(w)
    BY <2>4, RetainRetractIInv
  <2>5. CASE RetainInsert(w)
    BY <2>5, RetainInsertIInv
  <2>6. CASE RetainSupersede(w)
    BY <2>6, RetainSupersedeIInv
  <2>7. CASE ImportStep(w)
    BY <2>7, ImportIInv
  <2>8. CASE Crash(w)
    BY <2>8, FinishIInv DEF Crash
  <2>9. CASE DedupWrite(w) \/ DeleteWrite(w)
    BY <2>9, DedupWriteIInv, DeleteWriteIInv
  <2> QED BY <1>2, <2>1, <2>2, <2>3, <2>4, <2>5, <2>6, <2>7, <2>8, <2>9 DEF RetainStep
<1>3. CASE Maintain
  BY <1>3, MaintainIInv
<1> QED BY <1>1, <1>2, <1>3 DEF Next

-----------------------------------------------------------------------------
(* Theorems.                                                                *)

\* The inductive invariant holds throughout, whatever the requests, their
\* number, their interleaving and the faults.
THEOREM Inductive == Spec => []IInv
<1>1. Init => IInv
  BY InitIInv
<1>2. IInv /\ [Next]_vars => IInv'
  BY NextIInv
<1> QED BY <1>1, <1>2, PTL DEF Spec

\* The table and the workers keep their types.
THEOREM TypeCorrect == Spec => []TypeOK
<1>1. IInv => TypeOK
  BY DEF IInv
<1> QED BY <1>1, Inductive, PTL

\* superseded_by never dangles and never makes a cycle.
THEOREM Supersession == Spec => []SupersessionSound
<1>1. IInv => SupersessionSound
  BY DEF IInv
<1> QED BY <1>1, Inductive, PTL

\* A worker's sweep has listed row i.
Listed(i) == \E w \in Workers : job[w].step = "dedup" /\ i \in job[w].dupes

\* What one step may do to a row of the table.
RowStep(i) ==
    /\ i \in DOMAIN mem'
    /\ mem'[i].ns = mem[i].ns /\ mem'[i].ref = mem[i].ref /\ mem'[i].at = mem[i].at
    /\ mem'[i].fate = "deduped" => mem[i].fate = "deduped" \/ Listed(i)
    /\ mem[i].fate # "live" =>
          /\ mem'[i].supersededBy = mem[i].supersededBy
          /\ \/ mem'[i].fate \in {mem[i].fate, "deleted"}
             \/ mem[i].fate # "deleted" /\ mem'[i].fate = "deduped" /\ Listed(i)

LEMMA NextRowStep ==
    ASSUME IInv, [Next]_vars
    PROVE  /\ \A i \in DOMAIN mem : RowStep(i)
           /\ \A i \in DOMAIN mem' \ DOMAIN mem : mem'[i].fate = "live"
<1>0. TypeOK /\ \A i \in DOMAIN mem : mem[i] \in Row
  BY DEF IInv, TypeOK
<1> DEFINE Goal == /\ \A i \in DOMAIN mem : RowStep(i)
                   /\ \A i \in DOMAIN mem' \ DOMAIN mem : mem'[i].fate = "live"
<1>1. CASE UNCHANGED mem
  BY <1>1 DEF RowStep
<1>2. ASSUME NEW k, NEW fate, NEW by, Retire(k, fate, by), fate # "deduped"
      PROVE  Goal
  BY <1>0, <1>2 DEF Retire, RowStep, Live, Row
<1>3. ASSUME NEW ns, NEW ref, NEW c, NEW at, Insert(ns, ref, c, at)
      PROVE  Goal
  <2>1. nextId \notin DOMAIN mem
    BY <1>0 DEF TypeOK
  <2> QED BY <1>3, <2>1 DEF Insert, RowStep
<1>4. ASSUME NEW w \in Workers,
             \/ Request(w) \/ RetainStep(w) \/ ImportStep(w)
             \/ DedupWrite(w) \/ DeleteWrite(w) \/ Crash(w)
      PROVE  Goal
  <2>1. CASE Request(w)
    BY <1>1, <2>1 DEF Request, RetainStart, ImportStart, DedupRead, DeleteRead
  <2>2. CASE DecideRecord(w) \/ DecideNote(w) \/ RetainNoop(w) \/ Crash(w)
    BY <1>1, <2>2 DEF DecideRecord, DecideNote, RetainNoop, Crash
  <2>3. CASE RetainRetract(w)
    BY <1>1, <1>2, <2>3 DEF RetainRetract
  <2>4. CASE RetainInsert(w)
    BY <1>1, <1>3, <2>4 DEF RetainInsert
  <2>5. CASE RetainSupersede(w)
    BY <1>1, <1>2, <2>5 DEF RetainSupersede
  <2>6. CASE ImportStep(w)
    BY <1>1, <1>3, <2>6 DEF ImportStep, ImportLine, ImportEnd
  <2>7. CASE DedupWrite(w)
    <3>1. job[w].step = "dedup"
          /\ mem' = [i \in DOMAIN mem |->
                       IF i \in job[w].dupes /\ InTable(i)
                       THEN [mem[i] EXCEPT !.fate = "deduped"] ELSE mem[i]]
      BY <2>7 DEF DedupWrite
    <3> QED BY <1>0, <3>1 DEF RowStep, Listed, InTable, Row
  <2>8. CASE DeleteWrite(w)
    <3>1. mem' = [i \in DOMAIN mem |->
                    IF mem[i].ns = job[w].ns /\ i < job[w].below
                    THEN [mem[i] EXCEPT !.fate = "deleted"] ELSE mem[i]]
      BY <2>8 DEF DeleteWrite
    <3> QED BY <1>0, <3>1 DEF RowStep, Row
  <2> QED BY <1>4, <2>1, <2>2, <2>3, <2>4, <2>5, <2>6, <2>7, <2>8 DEF RetainStep
<1>5. CASE Maintain
  <2>1. ASSUME NEW k \in DOMAIN mem, Forget(k)
        PROVE  Goal
    BY <1>2, <2>1 DEF Forget
  <2>2. ASSUME NEW k \in DOMAIN mem, NEW c \in Contents, EditMemory(k, c)
        PROVE  Goal
    BY <1>0, <2>2 DEF EditMemory, RowStep, Row
  <2> QED BY <1>5, <2>1, <2>2 DEF Maintain
<1>6. CASE UNCHANGED vars
  BY <1>1, <1>6 DEF vars
<1> QED BY <1>4, <1>5, <1>6 DEF Next

\* What RetirementIsFinal asks of one step.
FinalStep(i) ==
    /\ mem[i].fate # "live" =>
          /\ mem'[i].supersededBy = mem[i].supersededBy
          /\ \/ mem'[i].fate \in {mem[i].fate, "deleted"}
             \/ /\ mem[i].fate # "deleted" /\ mem'[i].fate = "deduped"
                /\ \E w \in Workers : job[w].step = "dedup" /\ i \in job[w].dupes
    /\ mem'[i].fate = "deleted" =>
          \A k \in 1..i : mem[k].ns = mem[i].ns => mem'[k].fate = "deleted"

LEMMA NextFinalStep ==
    ASSUME IInv, IInv', [Next]_vars, NEW i \in DOMAIN mem
    PROVE  FinalStep(i)
<1>1. \A k \in DOMAIN mem : RowStep(k)
  BY NextRowStep
<1>2. ASSUME mem'[i].fate = "deleted", NEW k \in 1..i, mem[k].ns = mem[i].ns
      PROVE  mem'[k].fate = "deleted"
  <2>1. k \in DOMAIN mem /\ k \in Int /\ i \in Int /\ (k = i \/ k < i)
    BY DEF IInv, TypeOK
  <2>2. k \in DOMAIN mem' /\ i \in DOMAIN mem' /\ mem'[k].ns = mem'[i].ns
    BY <1>1, <1>2, <2>1 DEF RowStep
  <2> QED BY <1>2, <2>1, <2>2 DEF IInv, OldestGoFirst
<1> QED BY <1>1, <1>2 DEF RowStep, FinalStep, Listed

\* A retired row keeps its successor for good, and its reason unless a sweep
\* listed it while it was live; rows are deleted oldest first.
THEOREM Retirement == Spec => RetirementIsFinal
<1>1. IInv /\ IInv' /\ [Next]_vars => [\A i \in DOMAIN mem : FinalStep(i)]_vars
  BY NextFinalStep
<1>2. [\A i \in DOMAIN mem : FinalStep(i)]_vars =>
         [\A i \in DOMAIN mem :
            /\ mem[i].fate # "live" =>
                  /\ mem'[i].supersededBy = mem[i].supersededBy
                  /\ \/ mem'[i].fate \in {mem[i].fate, "deleted"}
                     \/ /\ mem[i].fate # "deleted" /\ mem'[i].fate = "deduped"
                        /\ \E w \in Workers : job[w].step = "dedup" /\ i \in job[w].dupes
            /\ mem'[i].fate = "deleted" =>
                  \A k \in 1..i : mem[k].ns = mem[i].ns => mem'[k].fate = "deleted"]_vars
  BY DEF FinalStep
<1> QED BY <1>1, <1>2, Inductive, PTL DEF Spec, RetirementIsFinal

-----------------------------------------------------------------------------
(* Records stay recallable, with any event times.  A row that was swept, or *)
(* is listed by a sweep, is outdated: the record has another row whose time  *)
(* is no earlier, and rows keep their place and time for good.  Where times *)
(* follow the writes the last row of a record is not outdated, and what     *)
(* supersedes it is a note.                                                 *)

\* A bounded non-empty set of ids has a last one.
LEMMA LastOne ==
    ASSUME NEW n \in Nat, NEW S \in SUBSET (1..n), S # {}
    PROVE  \E m \in S : \A k \in S : k <= m
<1> DEFINE Above(k) == {j \in S : k < j}
           T == {Above(k) : k \in S}
           R == StrictSubsetOrdering(1..n)
<1>1. IsFiniteSet(1..n)
  BY FS_Interval
<1>2. FiniteSubsetsOf(1..n) = SUBSET (1..n)
  BY <1>1, FS_FiniteSubsetsOfFinite
<1>3. IsWellFoundedOn(R, SUBSET (1..n))
  BY <1>2, FS_StrictSubsetOrderingWellFounded
<1>4. T \subseteq SUBSET (1..n) /\ T # {}
  OBVIOUS
<1>5. PICK x \in T : \A y \in T : ~ (<<y, x>> \in R)
  <2> HIDE DEF T, R
  <2> QED BY <1>3, <1>4, WFMin
<1>6. PICK m \in S : x = Above(m)
  BY <1>5
<1>7. ASSUME NEW k \in S, ~ (k <= m)
      PROVE  FALSE
  <2>0. S \subseteq Int /\ m < k
    <3>1. m \in Int /\ k \in Int
      OBVIOUS
    <3> QED BY <1>7, <3>1
  <2>1. k \in Above(m) /\ k \notin Above(k) /\ Above(k) \subseteq Above(m)
    <3>1. \A j \in S : k < j => m < j
      BY <2>0
    <3>2. k \in Int /\ ~ (k < k)
      BY <2>0
    <3> QED BY <2>0, <3>1, <3>2, Zenon
  <2>2. <<Above(k), Above(m)>> \in R
    <3>1. Above(k) \in SUBSET (1..n) /\ Above(m) \in SUBSET (1..n)
      OBVIOUS
    <3>2. Above(k) # Above(m)
      BY <2>1
    <3> HIDE DEF Above
    <3> QED BY <2>1, <3>1, <3>2 DEF StrictSubsetOrdering
  <2> QED BY <1>5, <1>6, <2>2
<1> QED BY <1>7

SameRecord(i, k) == mem[i].ns = mem[k].ns /\ mem[i].ref = mem[k].ref

Outdated(i) ==
    i \in DOMAIN mem /\ \E k \in DOMAIN mem : k # i /\ SameRecord(i, k) /\ mem[i].at <= mem[k].at

SweepSound ==
    /\ \A i \in DOMAIN mem : mem[i].fate = "deduped" => Outdated(i)
    /\ \A i : Listed(i) => Outdated(i)

\* A row once outdated remains so.
LEMMA StaysOutdated ==
    ASSUME NEW i, Outdated(i), \A k \in DOMAIN mem : RowStep(k)
    PROVE  Outdated(i)'
<1>1. PICK k \in DOMAIN mem : k # i /\ SameRecord(i, k) /\ mem[i].at <= mem[k].at
  BY DEF Outdated
<1>2. i \in DOMAIN mem' /\ k \in DOMAIN mem' /\ SameRecord(i, k)' /\ mem'[i].at <= mem'[k].at
  BY <1>1 DEF Outdated, RowStep, SameRecord
<1> QED BY <1>1, <1>2 DEF Outdated

\* What a sweep lists is outdated by what it keeps.
LEMMA ListedIsOutdated ==
    ASSUME NEW ns, NEW rows \in SUBSET LiveRecords(ns), NEW keep, Keeping(rows, keep),
           NEW i \in rows \ keep
    PROVE  Outdated(i)
<1>1. PICK k \in keep : mem[k].ref = mem[i].ref /\ mem[i].at <= mem[k].at
  BY DEF Keeping
<1>2. k # i /\ k \in LiveRecords(ns) /\ i \in LiveRecords(ns)
  BY DEF Keeping
<1>3. k \in DOMAIN mem /\ i \in DOMAIN mem /\ mem[k].ns = mem[i].ns
  BY <1>2 DEF LiveRecords, LiveIn
<1> QED BY <1>1, <1>2, <1>3 DEF Outdated, SameRecord

\* A sweep that a worker is at in the next state it is at now, or begins now.
LEMMA NextListed ==
    ASSUME IInv, [Next]_vars, NEW i, Listed(i)'
    PROVE  Listed(i) \/ Outdated(i)
<1>0. TypeOK /\ job \in [Workers -> Job]
  BY DEF IInv, TypeOK
<1>1. PICK v \in Workers : job'[v].step = "dedup" /\ i \in job'[v].dupes
  BY DEF Listed
<1>2. CASE job'[v] = job[v]
  BY <1>1, <1>2 DEF Listed
<1>3. CASE job'[v] # job[v]
  <2>1. \A w \in Workers : \A j : job' = [job EXCEPT ![w] = j] => v = w /\ j.step = "dedup"
    BY <1>0, <1>1, <1>3
  <2>2. ~ UNCHANGED job
    BY <1>3
  <2>3. ~ Maintain /\ ~ UNCHANGED vars
    BY <2>2 DEF Maintain, Forget, EditMemory, vars
  <2>4. ASSUME NEW w \in Workers, Finish(w)
        PROVE  FALSE
    <3>1. job' = [job EXCEPT ![w] = NoJob] /\ NoJob.step = "idle"
      BY <2>4 DEF Finish, NoJob
    <3> QED BY <2>1, <3>1
  <2>5. ASSUME NEW w \in Workers, NEW s, Goto(w, s), job[w].step \in RetainSteps, s # "dedup"
        PROVE  FALSE
    <3>1. job[w] \in Retaining
      BY <1>0, <2>5, JobShape
    <3> DEFINE j == [job[w] EXCEPT !.step = s]
    <3>2. j.step = s /\ job' = [job EXCEPT ![w] = j]
      BY <2>5, <3>1 DEF Goto, Retaining
    <3> HIDE DEF j
    <3> QED BY <2>1, <2>5, <3>2
  <2>6. ASSUME NEW w \in Workers, NEW d, NEW k, Decided(w, d, k), job[w].step = "decide"
        PROVE  FALSE
    <3>1. job[w] \in Retaining
      BY <1>0, <2>6, JobShape DEF RetainSteps
    <3> DEFINE j == [job[w] EXCEPT !.decision = d, !.related = k,
                                   !.step = CASE d = "noop" -> "noop"
                                              [] d = "invalidate" -> "retract"
                                              [] OTHER -> "insert"]
    <3>2. j.step # "dedup"
      BY <3>1 DEF Retaining
    <3>3. job' = [job EXCEPT ![w] = j]
      BY <2>6 DEF Decided
    <3> HIDE DEF j
    <3> QED BY <2>1, <3>2, <3>3
  <2>7. ASSUME NEW w \in Workers, Request(w)
        PROVE  Outdated(i)
    <3>1. ASSUME NEW ns \in Namespaces, NEW ref, NEW c, NEW at, RetainStart(w, ns, ref, c, at)
          PROVE  FALSE
      <4> DEFINE j == [step |-> "decide", decision |-> "none", ns |-> ns, ref |-> ref,
                       content |-> c, at |-> at, related |-> None, newId |-> None]
      <4>1. job' = [job EXCEPT ![w] = j] /\ j.step = "decide"
        BY <3>1 DEF RetainStart
      <4> HIDE DEF j
      <4> QED BY <2>1, <4>1
    <3>2. ASSUME NEW file, ImportStart(w, file)
          PROVE  FALSE
      <4> DEFINE j == [step |-> "import", lines |-> file]
      <4>1. job' = [job EXCEPT ![w] = j] /\ j.step = "import"
        BY <3>2 DEF ImportStart
      <4> HIDE DEF j
      <4> QED BY <2>1, <4>1
    <3>3. ASSUME NEW ns, DeleteRead(w, ns)
          PROVE  FALSE
      <4> DEFINE j == [step |-> "delete", ns |-> ns, below |-> nextId]
      <4>1. job' = [job EXCEPT ![w] = j] /\ j.step = "delete"
        BY <3>3 DEF DeleteRead
      <4> HIDE DEF j
      <4> QED BY <2>1, <4>1
    <3>4. ASSUME NEW ns, DedupRead(w, ns)
          PROVE  Outdated(i)
      <4>0. PICK rows \in SUBSET LiveRecords(ns) : \E keep \in SUBSET rows :
               /\ Keeping(rows, keep)
               /\ job' = [job EXCEPT ![w] = [step |-> "dedup", dupes |-> rows \ keep]]
        BY <3>4 DEF DedupRead
      <4>1. PICK keep \in SUBSET rows :
               /\ Keeping(rows, keep)
               /\ job' = [job EXCEPT ![w] = [step |-> "dedup", dupes |-> rows \ keep]]
        BY <4>0
      <4>2. v = w /\ job'[v] = [step |-> "dedup", dupes |-> rows \ keep]
        BY <1>0, <2>1, <4>1
      <4> QED BY <1>1, <4>1, <4>2, ListedIsOutdated
    <3> QED BY <2>7, <3>1, <3>2, <3>3, <3>4 DEF Request
  <2>8. ASSUME NEW w \in Workers, RetainStep(w) \/ ImportStep(w) \/ DedupWrite(w) \/ DeleteWrite(w) \/ Crash(w)
        PROVE  FALSE
    <3>1. CASE DecideRecord(w) \/ DecideNote(w)
      BY <2>6, <3>1 DEF DecideRecord, DecideNote
    <3>2. CASE RetainRetract(w)
      BY <2>5, <3>2 DEF RetainRetract, RetainSteps
    <3>3. CASE RetainInsert(w)
      <4>1. job[w] \in Retaining
        BY <1>0, <3>3, JobShape DEF RetainInsert, RetainSteps
      <4> DEFINE j == [job[w] EXCEPT !.step = "supersede", !.newId = nextId]
      <4>2. j.step # "dedup"
        BY <4>1 DEF Retaining
      <4>3. Finish(w) \/ job' = [job EXCEPT ![w] = j]
        BY <3>3 DEF RetainInsert
      <4> HIDE DEF j
      <4> QED BY <2>1, <2>4, <4>2, <4>3
    <3>4. CASE RetainNoop(w) \/ RetainSupersede(w) \/ ImportEnd(w) \/ DedupWrite(w) \/ DeleteWrite(w) \/ Crash(w)
      BY <2>4, <3>4 DEF RetainNoop, RetainSupersede, ImportEnd, DedupWrite, DeleteWrite, Crash
    <3>5. CASE ImportLine(w)
      <4> DEFINE j == [step |-> "import", lines |-> Tail(job[w].lines)]
      <4>1. job' = [job EXCEPT ![w] = j] /\ j.step = "import"
        BY <3>5 DEF ImportLine
      <4> HIDE DEF j
      <4> QED BY <2>1, <4>1
    <3> QED BY <2>8, <3>1, <3>2, <3>3, <3>4, <3>5 DEF RetainStep, ImportStep
  <2> QED BY <2>3, <2>7, <2>8 DEF Next
<1> QED BY <1>2, <1>3

LEMMA NextSweepSound ==
    ASSUME IInv, SweepSound, [Next]_vars
    PROVE  SweepSound'
<1>1. /\ \A k \in DOMAIN mem : RowStep(k)
      /\ \A k \in DOMAIN mem' \ DOMAIN mem : mem'[k].fate = "live"
  BY NextRowStep
<1>2. ASSUME NEW i \in DOMAIN mem', mem'[i].fate = "deduped"
      PROVE  Outdated(i)'
  <2>1. i \in DOMAIN mem /\ (mem[i].fate = "deduped" \/ Listed(i))
    BY <1>1, <1>2 DEF RowStep
  <2> QED BY <1>1, <2>1, StaysOutdated DEF SweepSound
<1>3. ASSUME NEW i, Listed(i)'
      PROVE  Outdated(i)'
  <2>1. Outdated(i)
    BY <1>3, NextListed DEF SweepSound
  <2> QED BY <1>1, <2>1, StaysOutdated
<1> QED BY <1>2, <1>3 DEF SweepSound

LEMMA SweepSoundRecallable ==
    ASSUME IInv, SweepSound
    PROVE  RecordStaysRecallable
<1> SUFFICES ASSUME NEW i \in DOMAIN mem, InTable(i), WrittenInOrder(i)
             PROVE  \E k \in DOMAIN mem :
                       /\ mem[k].ns = mem[i].ns /\ mem[k].ref = mem[i].ref
                       /\ \/ mem[k].fate \in {"live", "forgotten", "retracted"}
                          \/ mem[k].fate = "superseded" /\ mem[mem[k].supersededBy].ref = NoRef
  BY DEF RecordStaysRecallable
<1> DEFINE S == {k \in DOMAIN mem : SameRecord(k, i)}
<1>1. /\ DOMAIN mem \subseteq 1..MaxMemories /\ MaxMemories \in Nat
      /\ \A k \in DOMAIN mem : mem[k] \in Row
  BY BoundsAssumption DEF IInv, TypeOK
<1>2. S \in SUBSET (1..MaxMemories) /\ S # {}
  BY <1>1 DEF SameRecord
<1>3. PICK m \in S : \A k \in S : k <= m
  <2> HIDE DEF S
  <2> QED BY <1>1, <1>2, LastOne
<1>4. m \in DOMAIN mem /\ m \in Int /\ mem[m].ns = mem[i].ns /\ mem[m].ref = mem[i].ref
  BY <1>1 DEF SameRecord
<1>5. \A k \in DOMAIN mem : SameRecord(m, k) => k \in Int /\ ~ (m < k)
  BY <1>1, <1>3, <1>4 DEF SameRecord
<1>6. InTable(m)
  <2>1. i \in S /\ i \in Int /\ i <= m
    BY <1>1, <1>3 DEF SameRecord
  <2>2. CASE i = m
    BY <2>2
  <2>3. CASE i # m
    <3>1. i < m
      BY <1>4, <2>1, <2>3
    <3> QED BY <1>4, <3>1, NewerInTable
  <2> QED BY <2>2, <2>3
<1>7. mem[m].fate # "deduped"
  <2> SUFFICES ASSUME mem[m].fate = "deduped" PROVE FALSE
    OBVIOUS
  <2>1. PICK k \in DOMAIN mem : k # m /\ SameRecord(m, k) /\ mem[m].at <= mem[k].at
    BY <1>4 DEF SweepSound, Outdated
  <2>2. k < m
    BY <1>4, <1>5, <2>1
  <2>3. mem[k].at < mem[m].at
    BY <1>4, <2>1, <2>2 DEF WrittenInOrder, SameRecord
  <2>4. mem[k].at \in Nat /\ mem[m].at \in Nat
    BY <1>1, <1>4 DEF Row
  <2> QED BY <2>1, <2>3, <2>4
<1>8. CASE mem[m].fate = "superseded"
  <2> DEFINE s == mem[m].supersededBy
  <2>1. InTable(s) /\ m < s /\ mem[s].ns = mem[m].ns /\ mem[s].ref \in {mem[m].ref, NoRef}
    BY <1>4, <1>6, <1>8 DEF IInv, SupersessionSound
  <2>2. mem[s].ref = NoRef
    BY <1>4, <1>5, <2>1 DEF SameRecord, InTable
  <2> QED BY <1>4, <1>8, <2>2
<1>9. CASE mem[m].fate # "superseded"
  <2>1. mem[m].fate \in {"live", "forgotten", "retracted"}
    BY <1>1, <1>4, <1>6, <1>7, <1>9 DEF Row, Fates, InTable
  <2> QED BY <1>4, <2>1
<1> QED BY <1>8, <1>9

\* No interleaving of updates, sweeps, imports, deletions, faults and crashes
\* makes a record unrecallable whose event times, supplied by its writers or
\* not, follow the order in which it was written.
THEOREM Recallable == Spec => []RecordStaysRecallable
<1>1. Init => SweepSound
  BY DEF Init, SweepSound, Listed, NoJob
<1>2. IInv /\ SweepSound /\ [Next]_vars => SweepSound'
  BY NextSweepSound
<1>3. IInv /\ SweepSound => RecordStaysRecallable
  BY SweepSoundRecallable
<1> QED BY <1>1, <1>2, <1>3, Inductive, PTL DEF Spec

-----------------------------------------------------------------------------
(* The archive (Archive): any brain, any event times and any import.        *)

\* The live rows of a brain are finitely many, and a listing misses none.
LEMMA ListingIsComplete ==
    ASSUME TypeOK, NEW ns \in Namespaces, NEW rows \in Listings(ns)
    PROVE  /\ Cardinality(LiveIn(ns)) \in Nat
           /\ rows \in [1..Cardinality(LiveIn(ns)) -> LiveIn(ns)]
           /\ \A i \in LiveIn(ns) : \E n \in DOMAIN rows : rows[n] = i
<1> DEFINE all == LiveIn(ns)
           N == Cardinality(all)
<1>1. IsFiniteSet(1..MaxMemories)
  BY BoundsAssumption, FS_Interval
<1>2. all \in SUBSET (1..MaxMemories)
  BY BoundsAssumption DEF LiveIn, TypeOK
<1>3. IsFiniteSet(all) /\ N \in Nat
  BY <1>1, <1>2, FS_Subset, FS_CardinalityType
<1>4. rows \in Injection(1..N, all)
  BY DEF Listings, Injection
<1>5. Cardinality(1..N) = N /\ Cardinality(all) = N
  BY <1>3, FS_Interval
<1> HIDE DEF all, N
<1>6. rows \in Surjection(1..N, all)
  BY <1>3, <1>4, <1>5, FS_Injection
<1>7. rows \in [1..N -> all] /\ \A i \in all : \E n \in 1..N : rows[n] = i
  BY <1>6 DEF Surjection
<1> QED BY <1>3, <1>7 DEF all, N

LEMMA LastWordKept ==
    ASSUME TypeOK, NEW ns \in Namespaces, NEW rows \in Export(ns), NEW ref \in Refs
    PROVE  LET before == NewestSay([i \in LiveIn(ns) |-> mem[i]], ref)
               after == NewestSay(Import(rows), ref)
           IN  after \subseteq before /\ (before # {} => after # {})
<1> DEFINE all == LiveIn(ns)
           N == Cardinality(all)
           table == [i \in all |-> mem[i]]
           made == Import(rows)
<1>1. /\ rows \in Listings(ns)
      /\ \A m, n \in DOMAIN rows : m < n => mem[rows[m]].at <= mem[rows[n]].at
  BY DEF Export
<1>2. /\ N \in Nat /\ rows \in [1..N -> all]
      /\ \A i \in all : \E n \in 1..N : rows[n] = i
  BY <1>1, ListingIsComplete
<1>3. \A i \in all : mem[i].at \in Nat
  BY DEF LiveIn, TypeOK, Row
<1>4. /\ DOMAIN made = 1..N
      /\ \A n \in 1..N : /\ made[n].ref = mem[rows[n]].ref
                         /\ made[n].content = mem[rows[n]].content
                         /\ made[n].at = n
  BY <1>2 DEF Import
<1>5. DOMAIN table = all /\ \A i \in all : table[i] = mem[i]
  OBVIOUS
<1> HIDE DEF all, N, table, made
<1>6. ASSUME NEW c \in NewestSay(made, ref) PROVE c \in NewestSay(table, ref)
  <2>1. PICK n \in 1..N :
          /\ made[n].content = c /\ made[n].ref = ref
          /\ \A m \in 1..N : made[m].ref = ref => made[m].at <= made[n].at
    BY <1>4, <1>6 DEF NewestSay
  <2>2. rows[n] \in all /\ mem[rows[n]].content = c /\ mem[rows[n]].ref = ref
    BY <1>2, <1>4, <2>1
  <2>3. ASSUME NEW k \in all, mem[k].ref = ref PROVE mem[k].at <= mem[rows[n]].at
    <3>1. PICK m \in 1..N : rows[m] = k
      BY <1>2
    <3>2. m <= n
      BY <1>4, <2>1, <2>3, <3>1
    <3>3. CASE m = n
      BY <1>3, <3>1, <3>3
    <3>4. CASE m < n
      BY <1>1, <1>2, <3>1, <3>4
    <3> QED BY <3>2, <3>3, <3>4
  <2> QED BY <1>5, <2>2, <2>3 DEF NewestSay
<1>7. ASSUME NewestSay(table, ref) # {} PROVE NewestSay(made, ref) # {}
  <2>1. PICK i \in all : mem[i].ref = ref
    BY <1>5, <1>7 DEF NewestSay
  <2>2. PICK m \in 1..N : rows[m] = i
    BY <1>2
  <2> DEFINE lines == {n \in 1..N : mem[rows[n]].ref = ref}
  <2>3. lines \in SUBSET (1..N) /\ lines # {}
    BY <2>1, <2>2
  <2>4. PICK n \in lines : \A l \in lines : l <= n
    <3> HIDE DEF lines
    <3> QED BY <1>2, <2>3, LastOne
  <2>5. made[n].ref = ref /\ \A l \in 1..N : made[l].ref = ref => made[l].at <= made[n].at
    BY <1>4, <2>4
  <2>6. made[n].content \in NewestSay(made, ref)
    BY <1>4, <2>4, <2>5 DEF NewestSay
  <2> QED BY <2>6
<1> QED BY <1>6, <1>7 DEF all, table, made

\* admin.go:84-88, 118-119: an archive keeps what each record says last, also for
\* brains whose rows were back-dated or tie, which the run does not contain.
THEOREM ArchiveIsFaithful == Spec => []ArchiveKeepsTheLastWord
<1>1. TypeOK => ArchiveKeepsTheLastWord
  BY LastWordKept DEF ArchiveKeepsTheLastWord
<1> QED BY <1>1, TypeCorrect, PTL
=============================================================================
