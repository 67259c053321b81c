-------------------------- MODULE RecallCacheProofs --------------------------
(* Proofs about RecallCache: with any handlers, no recall answers from       *)
(* before a write whose handler bumped the epoch and answered before it      *)
(* began, and the recall path implements BoundedRecall.                      *)
EXTENDS RecallCache, TLAPS

\* Nothing claims to know more than the database holds.
KnownSound ==
    /\ \A ns \in Namespaces : acked[ns] <= version[ns]
    /\ \A e \in entries : e.version <= version[e.ns]
    /\ \A w \in Writers : writer[w].step # "idle" => writer[w].did <= version[writer[w].ns]
    /\ \A r \in Readers :
          /\ reader[r].step # "idle" => reader[r].floor <= acked[reader[r].ns]
          /\ reader[r].step \in {"fill", "answered"} => reader[r].got <= version[reader[r].ns]

\* A stamp taken and not yet Set is new to the brain: no epoch, entry, recall
\* or other pending bump of it has that value.
StampsFresh ==
    /\ \A ns \in Namespaces : epoch[ns] < clock
    /\ \A e \in entries : e.epoch < clock
    /\ \A r \in Readers : reader[r].step # "idle" => reader[r].epoch < clock
    /\ \A w \in Writers : writer[w].step = "set" =>
          /\ writer[w].stamp < clock /\ writer[w].stamp # 0
          /\ epoch[writer[w].ns] # writer[w].stamp
          /\ \A e \in entries : e.ns = writer[w].ns => e.epoch # writer[w].stamp
          /\ \A r \in Readers : reader[r].step # "idle" /\ reader[r].ns = writer[w].ns
                                   => reader[r].epoch # writer[w].stamp
          /\ \A v \in Writers : v # w /\ writer[v].step = "set"
                                   => writer[v].stamp # writer[w].stamp

\* The oldest state of ns that may be cached under its current epoch: every
\* write that has answered, or has bumped and is about to, is in it.
AtLeastBumped(ns, v) ==
    /\ acked[ns] <= v
    /\ \A w \in Writers :
          /\ writer[w].step = "answer" /\ writer[w].ns = ns /\ writer[w].handler \in Bumping
          => writer[w].did <= v

\* What is cached, or about to be, under the current epoch of its brain.
FillsFresh ==
    /\ \A e \in entries : e.epoch = epoch[e.ns] => AtLeastBumped(e.ns, e.version)
    /\ \A r \in Readers : reader[r].step = "fill" /\ reader[r].epoch = epoch[reader[r].ns]
          => AtLeastBumped(reader[r].ns, reader[r].got)

\* What a recall may hit: its own key holds, or is about to hold, nothing
\* older than its floor, even if the epoch has moved on since.
HitsFresh ==
    \A r \in Readers : reader[r].step = "lookup" =>
        /\ \A e \in entries : e.ns = reader[r].ns /\ e.epoch = reader[r].epoch
              => reader[r].floor <= e.version
        /\ \A q \in Readers : /\ reader[q].step = "fill"
                              /\ reader[q].ns = reader[r].ns /\ reader[q].epoch = reader[r].epoch
              => reader[r].floor <= reader[q].got

GotFresh ==
    \A r \in Readers : reader[r].step \in {"fill", "answered"} => reader[r].floor <= reader[r].got

IInv == TypeOK /\ KnownSound /\ StampsFresh /\ FillsFresh /\ HitsFresh /\ GotFresh

LEMMA InitIInv == Init => IInv
BY DEF Init, IInv, TypeOK, KnownSound, StampsFresh, FillsFresh, HitsFresh, GotFresh,
       NoWrite, NoRecall

\* The record of a worker in the middle of a write, or of a recall.
LEMMA WriterShape ==
    ASSUME TypeOK, NEW w \in Writers, writer[w].step # "idle"
    PROVE  writer[w] \in Write
BY DEF TypeOK, NoWrite

LEMMA ReaderShape ==
    ASSUME TypeOK, NEW r \in Readers
    PROVE  /\ reader[r].step \in {"lookup", "query"} => reader[r] \in Begun
           /\ reader[r].step \in {"fill", "answered"} => reader[r] \in Filled
           /\ reader[r].step # "idle" =>
                 /\ reader[r].ns \in Namespaces
                 /\ reader[r].epoch \in Nat /\ reader[r].floor \in Nat
BY DEF TypeOK, NoRecall, Begun, Filled

-----------------------------------------------------------------------------
(* Writers.                                                                 *)

LEMMA WriteStartIInv ==
    ASSUME IInv, NEW w \in Writers, NEW h \in Handlers, NEW ns \in Namespaces,
           WriteStart(w, h, ns)
    PROVE  IInv'
<1> DEFINE j == [step |-> "commit", handler |-> h, ns |-> ns, did |-> 0, stamp |-> 0]
<1>1. /\ writer' = [writer EXCEPT ![w] = j]
      /\ UNCHANGED <<version, epoch, clock, entries, reader, acked>>
  BY DEF WriteStart
<1>2. j \in Write
  BY DEF Write
<1>3. /\ \A v \in Writers : writer'[v] = IF v = w THEN j ELSE writer[v]
      /\ j.step = "commit" /\ j.ns = ns /\ j.did = 0
  BY <1>1 DEF IInv, TypeOK
<1>4. TypeOK'
  BY <1>1, <1>2 DEF IInv, TypeOK
<1> HIDE DEF j
<1>5. KnownSound'
  <2>1. 0 <= version[ns]
    BY DEF IInv, TypeOK
  <2> QED BY <1>1, <1>3, <2>1 DEF IInv, KnownSound
<1>6. StampsFresh'
  BY <1>1, <1>3 DEF IInv, StampsFresh
<1>7. FillsFresh'
  BY <1>1, <1>3 DEF IInv, FillsFresh, AtLeastBumped
<1>8. HitsFresh' /\ GotFresh'
  BY <1>1 DEF IInv, HitsFresh, GotFresh
<1> QED BY <1>4, <1>5, <1>6, <1>7, <1>8 DEF IInv

\* A commit makes the brain newer; it takes nothing back that was known of it.
LEMMA WriteCommitIInv ==
    ASSUME IInv, NEW w \in Writers, WriteCommit(w)
    PROVE  IInv'
<1>1. writer[w] \in Write /\ writer[w].step = "commit"
  BY WriterShape DEF IInv, WriteCommit
<1> DEFINE ns == writer[w].ns
<1>2. ns \in Namespaces /\ version[ns] \in Nat
  BY <1>1 DEF IInv, TypeOK, Write
<1>3. PICK next \in {"stamp", "commit", "answer"} :
         /\ next = "answer" => writer[w].handler \notin Bumping
         /\ writer' = [writer EXCEPT ![w] =
                      [step |-> next, handler |-> writer[w].handler, ns |-> ns,
                       did |-> version[ns] + 1, stamp |-> 0]]
  BY <1>2 DEF WriteCommit
<1> DEFINE j == [step |-> next, handler |-> writer[w].handler, ns |-> ns,
                 did |-> version[ns] + 1, stamp |-> 0]
<1>4. /\ version' = [version EXCEPT ![ns] = @ + 1]
      /\ UNCHANGED <<epoch, clock, entries, reader, acked>>
  BY DEF WriteCommit
<1>5. /\ j \in Write /\ j.step \in {"stamp", "commit", "answer"} /\ j.ns = ns
      /\ j.did = version[ns] + 1 /\ (j.step = "answer" => j.handler \notin Bumping)
  BY <1>1, <1>2, <1>3 DEF Write
<1>6. \A v \in Writers : writer'[v] = IF v = w THEN j ELSE writer[v]
  BY <1>3 DEF IInv, TypeOK
<1>7. \A n \in Namespaces : version'[n] \in Nat /\ version[n] \in Nat /\ version[n] <= version'[n]
  BY <1>4 DEF IInv, TypeOK
<1>8. version'[ns] = version[ns] + 1
  BY <1>2, <1>4 DEF IInv, TypeOK
<1>9. TypeOK'
  <2>1. version' \in [Namespaces -> Nat]
    BY <1>2, <1>4 DEF IInv, TypeOK
  <2>2. writer' \in [Writers -> {NoWrite} \cup Write]
    BY <1>3, <1>5 DEF IInv, TypeOK
  <2> QED BY <1>4, <2>1, <2>2 DEF IInv, TypeOK
<1> HIDE DEF j, ns
<1>10. KnownSound'
  <2>1. \A n \in Namespaces : acked'[n] <= version'[n]
    BY <1>4, <1>7 DEF IInv, TypeOK, KnownSound
  <2>2. \A e \in entries' : e.version <= version'[e.ns]
    <3>1. \A e \in entries : e.ns \in Namespaces /\ e.version \in Nat
      BY DEF IInv, TypeOK
    <3> QED BY <1>4, <1>7, <3>1 DEF IInv, KnownSound
  <2>3. \A v \in Writers : writer'[v].step # "idle" => writer'[v].did <= version'[writer'[v].ns]
    <3>1. \A v \in Writers : writer[v].step # "idle" =>
             writer[v].ns \in Namespaces /\ writer[v].did \in Nat
      BY WriterShape DEF IInv, Write
    <3> QED BY <1>2, <1>5, <1>6, <1>7, <1>8, <3>1 DEF IInv, KnownSound
  <2>4. \A r \in Readers :
          /\ reader'[r].step # "idle" => reader'[r].floor <= acked'[reader'[r].ns]
          /\ reader'[r].step \in {"fill", "answered"} => reader'[r].got <= version'[reader'[r].ns]
    <3>1. \A r \in Readers : reader[r].step \in {"fill", "answered"} =>
             reader[r].ns \in Namespaces /\ reader[r].got \in Nat
      BY ReaderShape DEF IInv, Filled
    <3> QED BY <1>4, <1>7, <3>1 DEF IInv, KnownSound
  <2> QED BY <2>1, <2>2, <2>3, <2>4 DEF KnownSound
<1>11. StampsFresh'
  BY <1>4, <1>5, <1>6 DEF IInv, StampsFresh
<1>12. FillsFresh'
  BY <1>4, <1>5, <1>6 DEF IInv, FillsFresh, AtLeastBumped
<1>13. HitsFresh' /\ GotFresh'
  BY <1>4 DEF IInv, HitsFresh, GotFresh
<1> QED BY <1>9, <1>10, <1>11, <1>12, <1>13 DEF IInv

LEMMA WriteStampIInv ==
    ASSUME IInv, NEW w \in Writers, WriteStamp(w)
    PROVE  IInv'
<1>1. writer[w] \in Write /\ writer[w].step = "stamp"
  BY WriterShape DEF IInv, WriteStamp
<1> DEFINE j == [step |-> "set", handler |-> writer[w].handler, ns |-> writer[w].ns,
                 did |-> writer[w].did, stamp |-> clock]
<1>2. /\ writer' = [writer EXCEPT ![w] = j] /\ clock' = clock + 1
      /\ UNCHANGED <<version, epoch, entries, reader, acked>>
  BY DEF WriteStamp
<1>3. clock \in Nat /\ clock # 0
  BY DEF IInv, TypeOK
<1>4. /\ j \in Write /\ j.step = "set" /\ j.ns = writer[w].ns /\ j.did = writer[w].did
      /\ j.stamp = clock
  BY <1>1, <1>3 DEF Write
<1>5. \A v \in Writers : writer'[v] = IF v = w THEN j ELSE writer[v]
  BY <1>2 DEF IInv, TypeOK
<1>6. TypeOK'
  BY <1>2, <1>3, <1>4 DEF IInv, TypeOK
<1> HIDE DEF j
<1>7. KnownSound'
  BY <1>1, <1>2, <1>4, <1>5 DEF IInv, KnownSound
<1>8. StampsFresh'
  <2>1. /\ \A n \in Namespaces : epoch[n] \in Nat /\ epoch[n] < clock /\ epoch[n] # clock
        /\ \A e \in entries : e.epoch \in Nat /\ e.epoch < clock /\ e.epoch # clock
    BY <1>3 DEF IInv, TypeOK, StampsFresh
  <2>2. \A r \in Readers : reader[r].step # "idle" =>
           reader[r].epoch \in Nat /\ reader[r].epoch < clock /\ reader[r].epoch # clock
    BY <1>3, ReaderShape DEF IInv, StampsFresh
  <2>3. \A v \in Writers : writer[v].step = "set" =>
           writer[v].stamp \in Nat /\ writer[v].stamp < clock /\ writer[v].stamp # clock
    BY <1>3, WriterShape DEF IInv, Write, StampsFresh
  <2>4. \A v \in Writers : writer'[v].step = "set" => writer'[v].stamp < clock'
    BY <1>2, <1>3, <1>4, <1>5, <2>3
  <2>5. writer[w].ns \in Namespaces
    BY <1>1 DEF Write
  <2>6. /\ \A n \in Namespaces : epoch'[n] < clock'
        /\ \A e \in entries' : e.epoch < clock'
        /\ \A r \in Readers : reader'[r].step # "idle" => reader'[r].epoch < clock'
    BY <1>2, <1>3, <2>1, <2>2
  <2>7. ASSUME NEW v \in Writers, writer'[v].step = "set"
        PROVE  /\ writer'[v].stamp # 0 /\ epoch'[writer'[v].ns] # writer'[v].stamp
               /\ \A e \in entries' : e.ns = writer'[v].ns => e.epoch # writer'[v].stamp
               /\ \A r \in Readers : reader'[r].step # "idle" /\ reader'[r].ns = writer'[v].ns
                                        => reader'[r].epoch # writer'[v].stamp
               /\ \A u \in Writers : u # v /\ writer'[u].step = "set"
                                        => writer'[u].stamp # writer'[v].stamp
    <3>1. CASE v = w
      BY <1>2, <1>3, <1>4, <1>5, <2>1, <2>2, <2>3, <2>5, <3>1
    <3>2. CASE v # w
      BY <1>2, <1>4, <1>5, <2>3, <2>7, <3>2 DEF IInv, StampsFresh
    <3> QED BY <3>1, <3>2
  <2> QED BY <2>4, <2>6, <2>7 DEF StampsFresh
<1>9. FillsFresh'
  BY <1>2, <1>4, <1>5 DEF IInv, FillsFresh, AtLeastBumped
<1>10. HitsFresh' /\ GotFresh'
  BY <1>2 DEF IInv, HitsFresh, GotFresh
<1> QED BY <1>6, <1>7, <1>8, <1>9, <1>10 DEF IInv

\* The Set: nothing is cached under a stamp nobody has seen.
LEMMA WriteSetIInv ==
    ASSUME IInv, NEW w \in Writers, WriteSet(w)
    PROVE  IInv'
<1>1. writer[w] \in Write /\ writer[w].step = "set"
  BY WriterShape DEF IInv, WriteSet
<1> DEFINE ns == writer[w].ns
           j == [step |-> "answer", handler |-> writer[w].handler, ns |-> writer[w].ns,
                 did |-> writer[w].did, stamp |-> writer[w].stamp]
<1>2. /\ writer' = [writer EXCEPT ![w] = j] /\ epoch' = [epoch EXCEPT ![ns] = writer[w].stamp]
      /\ UNCHANGED <<version, clock, entries, reader, acked>>
  BY DEF WriteSet
<1>3. ns \in Namespaces /\ writer[w].stamp \in Nat
  BY <1>1 DEF Write
<1>4. j \in Write /\ j.step = "answer" /\ j.ns = ns /\ j.did = writer[w].did
  BY <1>1 DEF Write
<1>5. /\ \A v \in Writers : writer'[v] = IF v = w THEN j ELSE writer[v]
      /\ \A n \in Namespaces : epoch'[n] = IF n = ns THEN writer[w].stamp ELSE epoch[n]
  BY <1>2 DEF IInv, TypeOK
<1>6. TypeOK'
  BY <1>2, <1>3, <1>4 DEF IInv, TypeOK
<1> HIDE DEF j, ns
<1>7. KnownSound'
  BY <1>1, <1>2, <1>4, <1>5 DEF IInv, KnownSound, ns
<1>8. StampsFresh'
  <2>1. \A n \in Namespaces : epoch'[n] < clock'
    BY <1>1, <1>2, <1>5 DEF IInv, StampsFresh
  <2>2. ASSUME NEW v \in Writers, writer'[v].step = "set"
        PROVE  v # w /\ writer'[v] = writer[v] /\ writer[v].ns \in Namespaces
    BY <1>4, <1>5, <2>2, WriterShape DEF IInv, Write
  <2>3. ASSUME NEW v \in Writers, writer'[v].step = "set"
        PROVE  epoch'[writer'[v].ns] # writer'[v].stamp
    BY <1>1, <1>5, <2>2, <2>3 DEF IInv, StampsFresh
  <2> QED BY <1>2, <1>4, <1>5, <2>1, <2>2, <2>3 DEF IInv, StampsFresh
<1>9. FillsFresh'
  <2>1. \A e \in entries' : e.ns \in Namespaces /\ (e.ns = ns => e.epoch # epoch'[ns])
    BY <1>1, <1>2, <1>3, <1>5 DEF IInv, TypeOK, StampsFresh, ns
  <2>2. \A r \in Readers : reader'[r].step = "fill" =>
           reader'[r].ns \in Namespaces /\ (reader'[r].ns = ns => reader'[r].epoch # epoch'[ns])
    BY <1>1, <1>2, <1>3, <1>5, ReaderShape DEF IInv, StampsFresh, ns
  <2>3. ASSUME NEW n \in Namespaces \ {ns}, NEW v, AtLeastBumped(n, v)
        PROVE  AtLeastBumped(n, v)'
    BY <1>2, <1>4, <1>5, <2>3 DEF AtLeastBumped
  <2>4. ASSUME NEW e \in entries', e.epoch = epoch'[e.ns]
        PROVE  AtLeastBumped(e.ns, e.version)'
    <3>1. e \in entries /\ e.ns \in Namespaces \ {ns} /\ e.epoch = epoch[e.ns]
      BY <1>2, <1>5, <2>1, <2>4
    <3>2. AtLeastBumped(e.ns, e.version)
      BY <3>1 DEF IInv, FillsFresh
    <3> QED BY <2>3, <3>1, <3>2
  <2>5. ASSUME NEW r \in Readers, reader'[r].step = "fill",
               reader'[r].epoch = epoch'[reader'[r].ns]
        PROVE  AtLeastBumped(reader[r].ns, reader[r].got)'
    <3>1. /\ reader[r].step = "fill" /\ reader[r].ns \in Namespaces \ {ns}
          /\ reader[r].epoch = epoch[reader[r].ns]
      BY <1>2, <1>5, <2>2, <2>5
    <3>2. AtLeastBumped(reader[r].ns, reader[r].got)
      BY <3>1 DEF IInv, FillsFresh
    <3>3. AtLeastBumped(reader[r].ns, reader[r].got) => AtLeastBumped(reader[r].ns, reader[r].got)'
      BY <1>2, <1>4, <1>5, <3>1 DEF AtLeastBumped
    <3> QED BY <3>2, <3>3
  <2> QED BY <2>4, <2>5 DEF FillsFresh
<1>10. HitsFresh' /\ GotFresh'
  BY <1>2 DEF IInv, HitsFresh, GotFresh
<1> QED BY <1>6, <1>7, <1>8, <1>9, <1>10 DEF IInv

\* The answer: whatever may be cached under the current epoch has the write.
LEMMA WriteAnswerIInv ==
    ASSUME IInv, NEW w \in Writers, WriteAnswer(w)
    PROVE  IInv'
<1>1. writer[w] \in Write /\ writer[w].step = "answer"
  BY WriterShape DEF IInv, WriteAnswer
<1> DEFINE ns == writer[w].ns
           top == IF writer[w].handler \in Bumping /\ writer[w].did > acked[ns]
                  THEN writer[w].did ELSE acked[ns]
<1>2. /\ writer' = [writer EXCEPT ![w] = NoWrite] /\ acked' = [acked EXCEPT ![ns] = top]
      /\ UNCHANGED <<version, epoch, clock, entries, reader>>
  BY DEF WriteAnswer
<1>3. ns \in Namespaces /\ writer[w].did \in Nat /\ acked[ns] \in Nat /\ version[ns] \in Nat
  BY <1>1 DEF IInv, TypeOK, Write
<1>4. top \in Nat /\ acked[ns] <= top /\ top <= version[ns]
      /\ (top = acked[ns] \/ (top = writer[w].did /\ writer[w].handler \in Bumping))
  BY <1>1, <1>3 DEF IInv, KnownSound
<1>5. /\ \A v \in Writers : writer'[v] = IF v = w THEN NoWrite ELSE writer[v]
      /\ \A n \in Namespaces : acked'[n] = IF n = ns THEN top ELSE acked[n]
      /\ NoWrite.step = "idle"
  BY <1>2 DEF IInv, TypeOK, NoWrite
<1>6. TypeOK'
  BY <1>2, <1>3, <1>4 DEF IInv, TypeOK
<1>7. /\ \A n \in Namespaces : acked[n] \in Nat /\ acked'[n] \in Nat /\ acked[n] <= acked'[n]
      /\ \A r \in Readers : reader[r].step # "idle" =>
            reader[r].ns \in Namespaces /\ reader[r].floor \in Nat
  BY <1>3, <1>4, <1>5, ReaderShape DEF IInv, TypeOK
<1>8. ASSUME NEW n \in Namespaces, NEW v \in Nat, AtLeastBumped(n, v)
      PROVE  AtLeastBumped(n, v)'
  <2>1. acked'[n] <= v
    BY <1>1, <1>4, <1>5, <1>8 DEF AtLeastBumped
  <2> QED BY <1>5, <1>8, <2>1 DEF AtLeastBumped
<1> HIDE DEF top, ns
<1>9. KnownSound'
  BY <1>2, <1>4, <1>5, <1>7 DEF IInv, KnownSound
<1>10. StampsFresh'
  BY <1>2, <1>5 DEF IInv, StampsFresh
<1>11. FillsFresh'
  <2>1. ASSUME NEW e \in entries', e.epoch = epoch'[e.ns]
        PROVE  AtLeastBumped(e.ns, e.version)'
    <3>1. e \in entries /\ e.ns \in Namespaces /\ e.version \in Nat /\ e.epoch = epoch[e.ns]
      BY <1>2, <2>1 DEF IInv, TypeOK
    <3> QED BY <1>8, <3>1 DEF IInv, FillsFresh
  <2>2. ASSUME NEW r \in Readers, reader'[r].step = "fill",
               reader'[r].epoch = epoch'[reader'[r].ns]
        PROVE  AtLeastBumped(reader[r].ns, reader[r].got)'
    <3>1. /\ reader[r].step = "fill" /\ reader[r].ns \in Namespaces /\ reader[r].got \in Nat
          /\ reader[r].epoch = epoch[reader[r].ns]
      BY <1>2, <2>2, ReaderShape DEF IInv, Filled
    <3>2. AtLeastBumped(reader[r].ns, reader[r].got)
      BY <3>1 DEF IInv, FillsFresh
    <3>3. acked'[reader[r].ns] <= reader[r].got
      BY <1>1, <1>4, <1>5, <3>1, <3>2 DEF AtLeastBumped, top, ns
    <3> QED BY <1>2, <1>5, <3>2, <3>3 DEF AtLeastBumped
  <2> QED BY <1>2, <2>1, <2>2 DEF FillsFresh
<1>12. HitsFresh' /\ GotFresh'
  BY <1>2 DEF IInv, HitsFresh, GotFresh
<1> QED BY <1>6, <1>9, <1>10, <1>11, <1>12 DEF IInv

LEMMA WriteAbortIInv ==
    ASSUME IInv, NEW w \in Writers, WriteAbort(w)
    PROVE  IInv'
<1>1. /\ writer' = [writer EXCEPT ![w] = NoWrite]
      /\ UNCHANGED <<version, epoch, clock, entries, reader, acked>>
  BY DEF WriteAbort
<1>2. \A v \in Writers : writer'[v] = IF v = w THEN NoWrite ELSE writer[v]
  BY <1>1 DEF IInv, TypeOK
<1>3. NoWrite.step = "idle"
  BY DEF NoWrite
<1>4. TypeOK'
  BY <1>1 DEF IInv, TypeOK
<1>5. KnownSound' /\ StampsFresh'
  BY <1>1, <1>2, <1>3 DEF IInv, KnownSound, StampsFresh
<1>6. FillsFresh'
  BY <1>1, <1>2, <1>3 DEF IInv, FillsFresh, AtLeastBumped
<1>7. HitsFresh' /\ GotFresh'
  BY <1>1 DEF IInv, HitsFresh, GotFresh
<1> QED BY <1>4, <1>5, <1>6, <1>7 DEF IInv

LEMMA WriteStepIInv ==
    ASSUME IInv, NEW w \in Writers, WriteStep(w)
    PROVE  IInv'
BY WriteStartIInv, WriteCommitIInv, WriteStampIInv, WriteSetIInv, WriteAnswerIInv,
   WriteAbortIInv DEF WriteStep

-----------------------------------------------------------------------------
(* Recalls.                                                                 *)

\* A recall moves on to record j: what is left to show is about j alone.
LEMMA ReaderMoves ==
    ASSUME IInv, NEW r \in Readers, NEW j \in {NoRecall} \cup Begun \cup Filled,
           reader' = [reader EXCEPT ![r] = j],
           UNCHANGED <<version, epoch, clock, entries, writer, acked>>,
           j.step # "idle" =>
               /\ j.floor <= acked[j.ns] /\ j.epoch < clock
               /\ \A w \in Writers : writer[w].step = "set" /\ writer[w].ns = j.ns
                                        => j.epoch # writer[w].stamp,
           j.step \in {"fill", "answered"} => j.got <= version[j.ns] /\ j.floor <= j.got,
           j.step = "fill" =>
               /\ j.epoch = epoch[j.ns] => AtLeastBumped(j.ns, j.got)
               /\ \A q \in Readers \ {r} :
                     /\ reader[q].step = "lookup"
                     /\ reader[q].ns = j.ns /\ reader[q].epoch = j.epoch
                     => reader[q].floor <= j.got,
           j.step = "lookup" =>
               /\ \A e \in entries : e.ns = j.ns /\ e.epoch = j.epoch => j.floor <= e.version
               /\ \A q \in Readers \ {r} :
                     /\ reader[q].step = "fill"
                     /\ reader[q].ns = j.ns /\ reader[q].epoch = j.epoch
                     => j.floor <= reader[q].got
    PROVE  IInv'
<1>1. \A q \in Readers : reader'[q] = IF q = r THEN j ELSE reader[q]
  BY DEF IInv, TypeOK
<1>2. TypeOK'
  BY DEF IInv, TypeOK
<1>3. KnownSound'
  BY <1>1 DEF IInv, KnownSound
<1>4. StampsFresh'
  BY <1>1 DEF IInv, StampsFresh
<1>5. FillsFresh'
  BY <1>1 DEF IInv, FillsFresh, AtLeastBumped
<1>6. HitsFresh'
  BY <1>1 DEF IInv, HitsFresh
<1>7. GotFresh'
  BY <1>1 DEF IInv, GotFresh
<1> QED BY <1>2, <1>3, <1>4, <1>5, <1>6, <1>7 DEF IInv

LEMMA RecallBeginIInv ==
    ASSUME IInv, NEW r \in Readers, NEW ns \in Namespaces, RecallBegin(r, ns)
    PROVE  IInv'
<1> DEFINE j == [step |-> "lookup", ns |-> ns, epoch |-> epoch[ns], floor |-> acked[ns]]
<1>1. /\ reader' = [reader EXCEPT ![r] = j]
      /\ UNCHANGED <<version, epoch, clock, entries, writer, acked>>
  BY DEF RecallBegin
<1>2. epoch[ns] \in Nat /\ acked[ns] \in Nat
  BY DEF IInv, TypeOK
<1>3. j \in Begun
  BY <1>2 DEF Begun
<1>4. j.step = "lookup" /\ j.ns = ns /\ j.epoch = epoch[ns] /\ j.floor = acked[ns]
  OBVIOUS
<1> HIDE DEF j
<1>5. /\ j.floor <= acked[j.ns] /\ j.epoch < clock
      /\ \A w \in Writers : writer[w].step = "set" /\ writer[w].ns = j.ns
                               => j.epoch # writer[w].stamp
  BY <1>2, <1>4 DEF IInv, StampsFresh
<1>6. \A e \in entries : e.ns = j.ns /\ e.epoch = j.epoch => j.floor <= e.version
  BY <1>4 DEF IInv, FillsFresh, AtLeastBumped
<1>7. \A q \in Readers \ {r} :
         reader[q].step = "fill" /\ reader[q].ns = j.ns /\ reader[q].epoch = j.epoch
         => j.floor <= reader[q].got
  BY <1>4 DEF IInv, FillsFresh, AtLeastBumped
<1> QED BY <1>1, <1>3, <1>4, <1>5, <1>6, <1>7, ReaderMoves

\* The facts of a recall under way that its next record inherits.
LEMMA ReaderKnows ==
    ASSUME IInv, NEW r \in Readers, reader[r].step # "idle"
    PROVE  /\ reader[r].floor <= acked[reader[r].ns] /\ reader[r].epoch < clock
           /\ \A w \in Writers : writer[w].step = "set" /\ writer[w].ns = reader[r].ns
                                    => reader[r].epoch # writer[w].stamp
           /\ reader[r].ns \in Namespaces /\ reader[r].epoch \in Nat /\ reader[r].floor \in Nat
<1>1. IInv
  OBVIOUS
<1>2. reader[r].ns \in Namespaces /\ reader[r].epoch \in Nat /\ reader[r].floor \in Nat
  BY <1>1, ReaderShape DEF IInv
<1> QED BY <1>2 DEF IInv, KnownSound, StampsFresh

LEMMA RecallHitIInv ==
    ASSUME IInv, NEW r \in Readers, RecallHit(r)
    PROVE  IInv'
<1>1. PICK e \in Key(reader[r]) : Got(r, "answered", e.version)
  BY DEF RecallHit
<1>2. /\ e \in entries /\ e.ns = reader[r].ns /\ e.epoch = reader[r].epoch
      /\ e.version \in Nat /\ reader[r].step = "lookup"
  BY DEF Key, RecallHit, IInv, TypeOK
<1> DEFINE j == [step |-> "answered", ns |-> reader[r].ns, epoch |-> reader[r].epoch,
                 floor |-> reader[r].floor, got |-> e.version]
<1>3. /\ reader' = [reader EXCEPT ![r] = j]
      /\ UNCHANGED <<version, epoch, clock, entries, writer, acked>>
  BY <1>1 DEF RecallHit, Got
<1>4. j \in Filled
  BY <1>2, ReaderKnows DEF Filled
<1>5. /\ j.step = "answered" /\ j.ns = reader[r].ns /\ j.epoch = reader[r].epoch
      /\ j.floor = reader[r].floor /\ j.got = e.version
  OBVIOUS
<1> HIDE DEF j
<1>6. j.got <= version[j.ns] /\ j.floor <= j.got
  BY <1>2, <1>5 DEF IInv, KnownSound, HitsFresh
<1>7. /\ j.floor <= acked[j.ns] /\ j.epoch < clock
      /\ \A w \in Writers : writer[w].step = "set" /\ writer[w].ns = j.ns
                               => j.epoch # writer[w].stamp
  BY <1>2, <1>5, ReaderKnows
<1> QED BY <1>3, <1>4, <1>5, <1>6, <1>7, ReaderMoves

LEMMA RecallMissIInv ==
    ASSUME IInv, NEW r \in Readers, RecallMiss(r)
    PROVE  IInv'
<1> DEFINE j == [step |-> "query", ns |-> reader[r].ns, epoch |-> reader[r].epoch,
                 floor |-> reader[r].floor]
<1>1. /\ reader[r].step = "lookup" /\ reader' = [reader EXCEPT ![r] = j]
      /\ UNCHANGED <<version, epoch, clock, entries, writer, acked>>
  BY DEF RecallMiss
<1>2. j \in Begun
  BY <1>1, ReaderKnows DEF Begun
<1>3. /\ j.step = "query" /\ j.ns = reader[r].ns /\ j.epoch = reader[r].epoch
      /\ j.floor = reader[r].floor
  OBVIOUS
<1> HIDE DEF j
<1>4. /\ j.floor <= acked[j.ns] /\ j.epoch < clock
      /\ \A w \in Writers : writer[w].step = "set" /\ writer[w].ns = j.ns
                               => j.epoch # writer[w].stamp
  BY <1>1, <1>3, ReaderKnows
<1> QED BY <1>1, <1>2, <1>3, <1>4, ReaderMoves

\* The query sees every committed write, whatever the epoch has become since.
LEMMA RecallQueryIInv ==
    ASSUME IInv, NEW r \in Readers, RecallQuery(r)
    PROVE  IInv'
<1> DEFINE ns == reader[r].ns
           j == [step |-> "fill", ns |-> reader[r].ns, epoch |-> reader[r].epoch,
                 floor |-> reader[r].floor, got |-> version[ns]]
<1>1. /\ reader[r].step = "query" /\ reader' = [reader EXCEPT ![r] = j]
      /\ UNCHANGED <<version, epoch, clock, entries, writer, acked>>
  BY DEF RecallQuery, Got
<1>2. ns \in Namespaces /\ version[ns] \in Nat /\ acked[ns] \in Nat
  BY <1>1, ReaderKnows DEF IInv, TypeOK
<1>3. j \in Filled
  BY <1>1, <1>2, ReaderKnows DEF Filled
<1>4. /\ j.step = "fill" /\ j.ns = reader[r].ns /\ j.epoch = reader[r].epoch
      /\ j.floor = reader[r].floor /\ j.got = version[ns]
  OBVIOUS
<1>5. /\ j.floor <= acked[j.ns] /\ j.epoch < clock /\ j.floor \in Nat
      /\ \A w \in Writers : writer[w].step = "set" /\ writer[w].ns = j.ns
                               => j.epoch # writer[w].stamp
  BY <1>1, ReaderKnows
<1>6. acked[ns] <= version[ns]
  BY <1>2 DEF IInv, KnownSound
<1> HIDE DEF j
<1>7. AtLeastBumped(j.ns, j.got)
  BY <1>2, <1>4, <1>6 DEF AtLeastBumped, IInv, KnownSound
<1>8. \A q \in Readers \ {r} : reader[q].step = "lookup" /\ reader[q].ns = j.ns
         => reader[q].floor <= j.got
  BY <1>2, <1>4, <1>6, ReaderKnows
<1>9. j.got <= version[j.ns] /\ j.floor <= j.got
  BY <1>2, <1>4, <1>5, <1>6
<1> QED BY <1>1, <1>3, <1>4, <1>5, <1>7, <1>8, <1>9, ReaderMoves

LEMMA RecallEndIInv ==
    ASSUME IInv, NEW r \in Readers, RecallEnd(r)
    PROVE  IInv'
<1>1. /\ reader' = [reader EXCEPT ![r] = NoRecall]
      /\ UNCHANGED <<version, epoch, clock, entries, writer, acked>>
  BY DEF RecallEnd
<1>2. NoRecall.step = "idle"
  BY DEF NoRecall
<1> QED BY <1>1, <1>2, ReaderMoves

\* The late fill: it lands under the key of an epoch that may be gone.
LEMMA RecallFillIInv ==
    ASSUME IInv, NEW r \in Readers, RecallFill(r)
    PROVE  IInv'
<1> DEFINE j == [step |-> "answered", ns |-> reader[r].ns, epoch |-> reader[r].epoch,
                 floor |-> reader[r].floor, got |-> reader[r].got]
           e0 == [ns |-> reader[r].ns, epoch |-> reader[r].epoch, version |-> reader[r].got]
<1>1. /\ reader[r].step = "fill" /\ reader' = [reader EXCEPT ![r] = j]
      /\ entries' = (entries \ Key(reader[r])) \cup {e0}
      /\ UNCHANGED <<version, epoch, clock, writer, acked>>
  BY DEF RecallFill, Got
<1>2. reader[r].got \in Nat
  BY <1>1, ReaderShape DEF IInv, Filled
<1>3. j \in Filled /\ e0 \in [ns : Namespaces, epoch : Nat, version : Nat]
  BY <1>1, <1>2, ReaderKnows DEF Filled
<1>4. /\ j.step = "answered" /\ j.ns = reader[r].ns /\ j.epoch = reader[r].epoch
      /\ j.floor = reader[r].floor /\ j.got = reader[r].got
      /\ e0.ns = reader[r].ns /\ e0.epoch = reader[r].epoch /\ e0.version = reader[r].got
  OBVIOUS
<1>5. \A q \in Readers : reader'[q] = IF q = r THEN j ELSE reader[q]
  BY <1>1 DEF IInv, TypeOK
<1>6. \A e \in entries' : e \in entries \/ e = e0
  BY <1>1
<1>7. TypeOK'
  BY <1>1, <1>3 DEF IInv, TypeOK
<1> HIDE DEF j, e0
<1>8. KnownSound'
  BY <1>1, <1>4, <1>5, <1>6 DEF IInv, KnownSound
<1>9. StampsFresh'
  BY <1>1, <1>4, <1>5, <1>6, ReaderKnows DEF IInv, StampsFresh
<1>10. FillsFresh'
  BY <1>1, <1>4, <1>5, <1>6 DEF IInv, FillsFresh, AtLeastBumped
<1>11. HitsFresh' /\ GotFresh'
  BY <1>1, <1>4, <1>5, <1>6 DEF IInv, HitsFresh, GotFresh
<1> QED BY <1>7, <1>8, <1>9, <1>10, <1>11 DEF IInv

LEMMA RecallStepIInv ==
    ASSUME IInv, NEW r \in Readers, RecallStep(r)
    PROVE  IInv'
BY RecallBeginIInv, RecallHitIInv, RecallMissIInv, RecallQueryIInv, RecallFillIInv,
   RecallEndIInv DEF RecallStep

-----------------------------------------------------------------------------
(* The cache store.                                                         *)

LEMMA CacheStepIInv ==
    ASSUME IInv, CacheStep
    PROVE  IInv'
<1>1. ASSUME NEW e \in entries, EntryExpires(e)
      PROVE  IInv'
  <2>1. /\ entries' \subseteq entries
        /\ UNCHANGED <<version, epoch, clock, writer, reader, acked>>
    BY <1>1 DEF EntryExpires
  <2>2. TypeOK' /\ KnownSound' /\ StampsFresh'
    BY <2>1 DEF IInv, TypeOK, KnownSound, StampsFresh
  <2>3. FillsFresh' /\ HitsFresh' /\ GotFresh'
    BY <2>1 DEF IInv, FillsFresh, AtLeastBumped, HitsFresh, GotFresh
  <2> QED BY <2>2, <2>3 DEF IInv
<1>2. ASSUME NEW ns \in Namespaces, EpochExpires(ns)
      PROVE  IInv'
  <2>1. /\ epoch' = [epoch EXCEPT ![ns] = 0]
        /\ \A e \in entries : ~ (e.ns = ns /\ e.epoch = 0)
        /\ \A r \in Readers : reader[r].step # "idle"
              => ~ (reader[r].ns = ns /\ reader[r].epoch = 0)
        /\ UNCHANGED <<version, clock, entries, writer, reader, acked>>
    BY <1>2 DEF EpochExpires
  <2>2. \A n \in Namespaces : epoch'[n] = IF n = ns THEN 0 ELSE epoch[n]
    BY <2>1 DEF IInv, TypeOK
  <2>3. TypeOK'
    BY <2>1 DEF IInv, TypeOK
  <2>4. KnownSound' /\ HitsFresh' /\ GotFresh'
    BY <2>1 DEF IInv, KnownSound, HitsFresh, GotFresh
  <2>5. StampsFresh'
    <3>1. clock \in Nat /\ 0 < clock
      BY DEF IInv, TypeOK
    <3>2. \A w \in Writers : writer[w].step = "set" => writer[w].ns \in Namespaces
      BY WriterShape DEF IInv, Write
    <3> QED BY <2>1, <2>2, <3>1, <3>2 DEF IInv, StampsFresh
  <2>6. FillsFresh'
    <3>1. \A e \in entries : e.ns \in Namespaces
      BY DEF IInv, TypeOK
    <3>2. \A r \in Readers : reader[r].step = "fill" => reader[r].ns \in Namespaces
      BY ReaderKnows
    <3> QED BY <2>1, <2>2, <3>1, <3>2 DEF IInv, FillsFresh, AtLeastBumped
  <2> QED BY <2>3, <2>4, <2>5, <2>6 DEF IInv
<1> QED BY <1>1, <1>2 DEF CacheStep

-----------------------------------------------------------------------------
(* The theorems.                                                            *)

\* IInv is an invariant.
THEOREM Inductive == Spec => []IInv
<1>1. Init => IInv
  BY InitIInv
<1>2. IInv /\ [Next]_vars => IInv'
  <2>1. ASSUME IInv, Next PROVE IInv'
    BY <2>1, WriteStepIInv, RecallStepIInv, CacheStepIInv DEF Next
  <2>2. ASSUME IInv, UNCHANGED vars PROVE IInv'
    BY <2>2 DEF vars, IInv, TypeOK, KnownSound, StampsFresh, FillsFresh, AtLeastBumped,
                HitsFresh, GotFresh
  <2> QED BY <2>1, <2>2
<1> QED BY <1>1, <1>2, PTL DEF Spec

\* The recall cache keeps its types.
THEOREM TypeCorrect == Spec => []TypeOK
<1>1. IInv => TypeOK
  BY DEF IInv
<1> QED BY <1>1, Inductive, PTL

\* l1cache.go:22, "instantly orphans that namespace's cached reads": a recall never
\* answers from before a write of a bumping handler answered before it began,
\* for any number of brains, requests and writes, silent ones among them.
THEOREM NoStaleRecall == Spec => []WritesOrphanCachedReads
<1>1. IInv => WritesOrphanCachedReads
  BY DEF IInv, GotFresh, WritesOrphanCachedReads
<1> QED BY <1>1, Inductive, PTL

-----------------------------------------------------------------------------
(* Refinement.                                                              *)

\* What a client sees of one recall.
Seen(j) ==
    IF j.step = "idle" THEN [step |-> "idle"]
    ELSE IF j.step = "answered"
    THEN [step |-> "answered", ns |-> j.ns, floor |-> j.floor, got |-> j.got]
    ELSE [step |-> "begun", ns |-> j.ns, floor |-> j.floor]

LEMMA ReadingSeen ==
    /\ Reading = [r \in Readers |-> Seen(reader[r])]
    /\ Reading' = [r \in Readers |-> Seen(reader'[r])]
BY DEF Reading, Seen

\* A recall that moves to record j is seen to do so, and no other is.
LEMMA SeenMoves ==
    ASSUME TypeOK, NEW r \in Readers, NEW j, reader' = [reader EXCEPT ![r] = j]
    PROVE  /\ Reading' = [Reading EXCEPT ![r] = Seen(j)]
           /\ Reading[r] = Seen(reader[r])
           /\ Seen(j) = Seen(reader[r]) => Reading' = Reading
<1>1. \A q \in Readers : reader'[q] = IF q = r THEN j ELSE reader[q]
  BY DEF TypeOK
<1>2. Reading[r] = Seen(reader[r])
  BY ReadingSeen
<1>3. Reading' = [Reading EXCEPT ![r] = Seen(j)]
  BY <1>1, ReadingSeen
<1>4. Seen(j) = Seen(reader[r]) => Reading' = Reading
  BY <1>1, ReadingSeen
<1> QED BY <1>2, <1>3, <1>4

LEMMA WriteStepRefines ==
    ASSUME IInv, NEW w \in Writers, WriteStep(w)
    PROVE  [Recalls!Next]_(Recalls!vars)
<1>1. reader' = reader => Reading' = Reading
  BY ReadingSeen
<1>2. CASE UNCHANGED <<version, acked, reader>>
  BY <1>1, <1>2 DEF Recalls!vars
<1>3. CASE WriteCommit(w)
  <2>1. writer[w].ns \in Namespaces
    BY <1>3, WriterShape DEF IInv, WriteCommit, Write
  <2>2. Recalls!Commit(writer[w].ns)
    BY <1>1, <1>3 DEF WriteCommit, Recalls!Commit
  <2> QED BY <2>1, <2>2 DEF Recalls!Next
<1>4. CASE WriteAnswer(w)
  <2> DEFINE ns == writer[w].ns
             top == IF writer[w].handler \in Bumping /\ writer[w].did > acked[ns]
                    THEN writer[w].did ELSE acked[ns]
  <2>1. writer[w] \in Write /\ writer[w].step = "answer"
    BY <1>4, WriterShape DEF IInv, WriteAnswer
  <2>2. ns \in Namespaces /\ writer[w].did \in Nat /\ acked[ns] \in Nat /\ version[ns] \in Nat
    BY <2>1 DEF IInv, TypeOK, Write
  <2>3. top \in acked[ns]..version[ns]
    BY <2>1, <2>2 DEF IInv, KnownSound
  <2>4. acked' = [acked EXCEPT ![ns] = top] /\ UNCHANGED <<version, reader>>
    BY <1>4 DEF WriteAnswer
  <2> HIDE DEF top
  <2>5. Recalls!Ack(ns)
    BY <1>1, <2>3, <2>4 DEF Recalls!Ack
  <2> QED BY <2>2, <2>5 DEF Recalls!Next
<1> QED BY <1>2, <1>3, <1>4 DEF WriteStep, WriteStart, WriteStamp, WriteSet, WriteAbort

\* The answer of a recall, from the cache or the database.
LEMMA AnswerRefines ==
    ASSUME IInv, NEW r \in Readers, reader[r].step \in {"lookup", "fill"},
           NEW v \in Nat, reader[r].floor <= v, v <= version[reader[r].ns],
           NEW j, reader' = [reader EXCEPT ![r] = j],
           j.step = "answered", j.ns = reader[r].ns, j.floor = reader[r].floor, j.got = v,
           UNCHANGED <<version, acked>>
    PROVE  Recalls!Answer(r)
<1>1. reader[r].ns \in Namespaces /\ reader[r].floor \in Nat
  BY ReaderKnows
<1>2. version[reader[r].ns] \in Nat
  BY <1>1 DEF IInv, TypeOK
<1>3. Reading' = [Reading EXCEPT ![r] = Seen(j)] /\ Reading[r] = Seen(reader[r])
  BY SeenMoves DEF IInv
<1>4. Seen(reader[r]) = [step |-> "begun", ns |-> reader[r].ns, floor |-> reader[r].floor]
  BY DEF Seen
<1>5. Seen(j) = [step |-> "answered", ns |-> reader[r].ns, floor |-> reader[r].floor, got |-> v]
  BY DEF Seen
<1>6. v \in reader[r].floor..version[reader[r].ns]
  BY <1>1, <1>2
<1>7. /\ Reading[r].step = "begun" /\ Reading[r].ns = reader[r].ns
      /\ Reading[r].floor = reader[r].floor
  BY <1>3, <1>4
<1>8. Reading' = [Reading EXCEPT ![r] = [step |-> "answered", ns |-> Reading[r].ns,
                                        floor |-> Reading[r].floor, got |-> v]]
  BY <1>3, <1>5, <1>7
<1>9. v \in Reading[r].floor..version[Reading[r].ns]
  BY <1>6, <1>7
<1> QED BY <1>7, <1>8, <1>9, Zenon DEF Recalls!Answer

LEMMA RecallStepRefines ==
    ASSUME IInv, IInv', NEW r \in Readers, RecallStep(r)
    PROVE  [Recalls!Next]_(Recalls!vars)
<1>1. ASSUME NEW ns \in Namespaces, RecallBegin(r, ns)
      PROVE  Recalls!Begin(r, ns)
  <2> DEFINE j == [step |-> "lookup", ns |-> ns, epoch |-> epoch[ns], floor |-> acked[ns]]
  <2>1. /\ reader[r] = NoRecall /\ reader' = [reader EXCEPT ![r] = j]
        /\ UNCHANGED <<version, acked>>
    BY <1>1 DEF RecallBegin
  <2>2. Seen(j) = [step |-> "begun", ns |-> ns, floor |-> acked[ns]]
    BY DEF Seen
  <2>3. Seen(NoRecall) = Recalls!NoRecall
    BY DEF Seen, NoRecall, Recalls!NoRecall
  <2>4. Reading' = [Reading EXCEPT ![r] = Seen(j)] /\ Reading[r] = Seen(reader[r])
    BY <2>1, SeenMoves DEF IInv
  <2> QED BY <2>1, <2>2, <2>3, <2>4 DEF Recalls!Begin
<1>2. CASE RecallHit(r)
  <2>1. PICK e \in Key(reader[r]) : Got(r, "answered", e.version)
    BY <1>2 DEF RecallHit
  <2>2. /\ e \in entries /\ e.ns = reader[r].ns /\ e.epoch = reader[r].epoch
        /\ e.version \in Nat /\ reader[r].step = "lookup"
    BY <1>2 DEF Key, RecallHit, IInv, TypeOK
  <2>3. reader[r].floor <= e.version /\ e.version <= version[reader[r].ns]
    BY <2>2 DEF IInv, KnownSound, HitsFresh
  <2> DEFINE j == [step |-> "answered", ns |-> reader[r].ns, epoch |-> reader[r].epoch,
                   floor |-> reader[r].floor, got |-> e.version]
  <2>4. reader' = [reader EXCEPT ![r] = j] /\ UNCHANGED <<version, acked>>
    BY <1>2, <2>1 DEF RecallHit, Got
  <2>5. /\ j.step = "answered" /\ j.ns = reader[r].ns
        /\ j.floor = reader[r].floor /\ j.got = e.version
    OBVIOUS
  <2> HIDE DEF j
  <2> QED BY <2>2, <2>3, <2>4, <2>5, AnswerRefines DEF Recalls!Next
<1>3. CASE RecallMiss(r)
  <2> DEFINE j == [step |-> "query", ns |-> reader[r].ns, epoch |-> reader[r].epoch,
                   floor |-> reader[r].floor]
  <2>1. /\ reader[r].step = "lookup" /\ reader' = [reader EXCEPT ![r] = j]
        /\ UNCHANGED <<version, acked>>
    BY <1>3 DEF RecallMiss
  <2>2. Seen(j) = Seen(reader[r])
    BY <2>1 DEF Seen
  <2> QED BY <2>1, <2>2, SeenMoves DEF IInv, Recalls!vars
<1>4. CASE RecallQuery(r)
  <2> DEFINE j == [step |-> "fill", ns |-> reader[r].ns, epoch |-> reader[r].epoch,
                   floor |-> reader[r].floor, got |-> version[reader[r].ns]]
  <2>1. /\ reader[r].step = "query" /\ reader' = [reader EXCEPT ![r] = j]
        /\ UNCHANGED <<version, acked>>
    BY <1>4 DEF RecallQuery, Got
  <2>2. Seen(j) = Seen(reader[r])
    BY <2>1 DEF Seen
  <2> QED BY <2>1, <2>2, SeenMoves DEF IInv, Recalls!vars
<1>5. CASE RecallFill(r)
  <2> DEFINE j == [step |-> "answered", ns |-> reader[r].ns, epoch |-> reader[r].epoch,
                   floor |-> reader[r].floor, got |-> reader[r].got]
  <2>1. /\ reader[r].step = "fill" /\ reader' = [reader EXCEPT ![r] = j]
        /\ UNCHANGED <<version, acked>>
    BY <1>5 DEF RecallFill, Got
  <2>2. reader[r].got \in Nat
    BY <2>1, ReaderShape DEF IInv, Filled
  <2>3. reader[r].floor <= reader[r].got /\ reader[r].got <= version[reader[r].ns]
    BY <2>1 DEF IInv, KnownSound, GotFresh
  <2>4. /\ j.step = "answered" /\ j.ns = reader[r].ns
        /\ j.floor = reader[r].floor /\ j.got = reader[r].got
    OBVIOUS
  <2> HIDE DEF j
  <2> QED BY <2>1, <2>2, <2>3, <2>4, AnswerRefines DEF Recalls!Next
<1>6. CASE RecallEnd(r)
  <2>1. reader' = [reader EXCEPT ![r] = NoRecall] /\ UNCHANGED <<version, acked>>
    BY <1>6 DEF RecallEnd
  <2>2. Seen(NoRecall) = Recalls!NoRecall
    BY DEF Seen, NoRecall, Recalls!NoRecall
  <2>3. Recalls!Leave(r)
    BY <2>1, <2>2, SeenMoves DEF IInv, Recalls!Leave
  <2> QED BY <2>3 DEF Recalls!Next
<1>7. (\E ns \in Namespaces : RecallBegin(r, ns)) => Recalls!Next
  BY <1>1 DEF Recalls!Next
<1> QED BY <1>2, <1>3, <1>4, <1>5, <1>6, <1>7 DEF RecallStep

\* With any handlers the recall path implements BoundedRecall, where the changes
\* that must be seen are those of the handlers that bump.
THEOREM Transparent == Spec => CacheIsTransparent
<1>1. Init => Recalls!Init
  BY DEF Init, Recalls!Init, Reading, NoRecall, Recalls!NoRecall
<1>2. IInv /\ IInv' /\ [Next]_vars => [Recalls!Next]_(Recalls!vars)
  <2>1. ASSUME IInv, IInv', Next PROVE [Recalls!Next]_(Recalls!vars)
    <3>1. CacheStep => UNCHANGED <<version, acked, reader>>
      BY DEF CacheStep, EntryExpires, EpochExpires
    <3>2. UNCHANGED <<version, acked, reader>> => UNCHANGED Recalls!vars
      BY ReadingSeen DEF Recalls!vars
    <3> QED BY <2>1, <3>1, <3>2, WriteStepRefines, RecallStepRefines DEF Next
  <2>2. ASSUME UNCHANGED vars PROVE UNCHANGED Recalls!vars
    BY <2>2, ReadingSeen DEF vars, Recalls!vars
  <2> QED BY <2>1, <2>2
<1> QED BY <1>1, <1>2, Inductive, PTL DEF Spec, CacheIsTransparent, Recalls!Spec
=============================================================================
