---------------------------- MODULE AetherProofs ----------------------------
(***************************************************************************)
(* What the parts of aether and of its measurement promise, for every      *)
(* value of their constants.  The part of a section is named in its        *)
(* heading, with what makes its property inductive; the slots are its      *)
(* variables in the order Parts gives them, and the invariant of the       *)
(* composition is that of the part while it is the subject.  The last      *)
(* section is about all the parts together, those of sagiha too.           *)
(***************************************************************************)
EXTENDS SagihaProofs

-----------------------------------------------------------------------------
(* Journal (v1 running, v2 emitted, v3 queue, v4 screen, v5 batch, v6      *)
(* next, v7 rows): the event table is a numbered prefix of what was        *)
(* emitted.                                                                *)
(* What is written, in the batch and in the queue follow one another in    *)
(* what was emitted (Written, Outstanding).                                *)

\* Numbered rows are as many as their numbers.
LEMMA RowsAreCounted ==
  ASSUME NEW n \in Nat, NEW f
  PROVE  LET R == {[seq |-> i, kind |-> f[i]] : i \in 1..n} IN
         Cardinality(R) = n /\ {r.seq : r \in R} = 1..n
<1> DEFINE R == {[seq |-> i, kind |-> f[i]] : i \in 1..n}
           g == [i \in 1..n |-> [seq |-> i, kind |-> f[i]]]
<1>1. g \in Bijection(1..n, R)
  <2>1. g \in [1..n -> R] OBVIOUS
  <2>2. \A i, j \in 1..n : g[i] = g[j] => i = j
    BY \A i \in 1..n : g[i].seq = i
  <2>3. \A r \in R : \E i \in 1..n : g[i] = r OBVIOUS
  <2>4. QED BY <2>1, <2>2, <2>3, Fun_IsBij
<1>2. ExistsBijection(1..n, R)
  BY <1>1 DEF ExistsBijection
<1>3. Cardinality(R) = n
  BY <1>2, FS_CountingElements
<1>4. {r.seq : r \in R} = 1..n
  <2>1. \A i \in 1..n : g[i] \in R /\ g[i].seq = i OBVIOUS
  <2>2. \A r \in R : r.seq \in 1..n OBVIOUS
  <2>3. QED BY <2>1, <2>2
<1>5. QED
  BY <1>3, <1>4

\* A queue that gains what is emitted goes on being the end of what was emitted.
LEMMA EmitFollows ==
  ASSUME NEW S, NEW whole \in Seq(S), NEW part \in Seq(S), NEW n \in Nat, NEW kind \in S,
         n + Len(part) = Len(whole), Log!Follows(part, whole, n)
  PROVE  Log!Follows(Append(part, kind), Append(whole, kind), n)
<1>0. Len(Append(part, kind)) = Len(part) + 1
  OBVIOUS
<1> SUFFICES ASSUME NEW i \in 1..Len(part) + 1
             PROVE  Append(part, kind)[i] = Append(whole, kind)[n + i]
  BY <1>0 DEF Log!Follows
<1>1. CASE i = Len(part) + 1
  <2>1. n + i = Len(whole) + 1 BY <1>1
  <2>2. QED BY <1>1, <2>1
<1>2. CASE i \in 1..Len(part)
  <2>1. n + i \in 1..Len(whole) BY <1>2
  <2>2. part[i] = whole[n + i] BY <1>2 DEF Log!Follows
  <2>3. QED BY <1>2, <2>1, <2>2
<1>3. QED
  BY <1>1, <1>2

\* What is left when the first is taken is the end of what was emitted too.
LEMMA TailFollows ==
  ASSUME NEW S, NEW whole \in Seq(S), NEW part \in Seq(S), NEW n \in Nat, part # <<>>,
         n + Len(part) <= Len(whole), Log!Follows(part, whole, n)
  PROVE  Log!Follows(Tail(part), whole, n + 1) /\ Head(part) = whole[n + 1]
<1>1. Len(Tail(part)) = Len(part) - 1 /\ Len(part) >= 1
  OBVIOUS
<1>2. ASSUME NEW i \in 1..Len(Tail(part))
      PROVE  Tail(part)[i] = whole[(n + 1) + i]
  <2>1. i \in Int /\ i + 1 \in 1..Len(part) BY <1>1
  <2>2. part[i + 1] = whole[n + (i + 1)] BY <2>1 DEF Log!Follows
  <2>3. n + (i + 1) = (n + 1) + i BY <2>1
  <2>4. Tail(part)[i] = part[i + 1] OBVIOUS
  <2>5. QED BY <2>2, <2>3, <2>4
<1>3. Head(part) = whole[n + 1]
  BY <1>1 DEF Log!Follows
<1>4. QED
  BY <1>2, <1>3 DEF Log!Follows

\* A display that makes room and is given the event holds the newest.
LEMMA NewestIsKept ==
  ASSUME NEW S, NEW whole \in Seq(S), NEW part \in Seq(S), NEW kind \in S, Frames \in Nat \ {0},
         Len(part) <= Frames, Len(part) <= Len(whole), Log!Follows(part, whole, Len(whole) - Len(part))
  PROVE  LET on == Append(Log!MakeRoom(part), kind)  more == Append(whole, kind) IN
         /\ on \in Seq(S) /\ Len(on) <= Frames /\ Len(on) <= Len(more)
         /\ Log!Follows(on, more, Len(more) - Len(on))
<1> DEFINE kept == Log!MakeRoom(part)
           n == Len(whole) - Len(kept)
<1>1. kept \in Seq(S) /\ Len(kept) < Frames /\ Len(kept) <= Len(whole) /\ Log!Follows(kept, whole, n)
  <2>1. CASE Len(part) = Frames
    <3>1. part # <<>> /\ kept = Tail(part) /\ kept \in Seq(S) /\ Len(kept) = Len(part) - 1
      BY <2>1 DEF Log!MakeRoom
    <3>2. Len(whole) - Len(part) \in Nat /\ Len(whole) - Len(kept) = (Len(whole) - Len(part)) + 1
      BY <3>1
    <3>3. QED
      BY <3>1, <3>2, <2>1, TailFollows
  <2>2. CASE Len(part) # Frames
    <3>1. kept = part
      BY <2>2 DEF Log!MakeRoom
    <3>2. QED
      BY <2>2, <3>1
  <2>3. QED
    BY <2>1, <2>2
<1> HIDE DEF kept
<1>2. n \in Nat /\ n + Len(kept) = Len(whole)
  BY <1>1
<1>3. Log!Follows(Append(kept, kind), Append(whole, kind), n)
  BY <1>1, <1>2, EmitFollows
<1>4. /\ Append(kept, kind) \in Seq(S) /\ Len(Append(kept, kind)) = Len(kept) + 1
      /\ Len(Append(whole, kind)) = Len(whole) + 1
  BY <1>1
<1>5. Len(Append(whole, kind)) - Len(Append(kept, kind)) = n
  BY <1>1, <1>4
<1>6. QED
  BY <1>1, <1>3, <1>4, <1>5 DEF kept

\* An event goes to the end of what was emitted and of the two queues.
LEMMA EmitHolds ==
  ASSUME Log!JournalAssumption, Log!JournalInv, NEW kind \in Log!AllKinds, Log!Emit(kind)
  PROVE  /\ v2' = Append(v2, kind) /\ v3' = Append(v3, kind)
         /\ v2' \in Seq(Log!AllKinds) /\ v3' \in Seq(Log!AllKinds) /\ v4' \in Seq(Log!AllKinds)
         /\ Len(v4') <= Frames /\ Log!ScreenIsNewest' /\ Len(v4') <= Len(v2')
<1>1. v2' = Append(v2, kind) /\ v3' = Append(v3, kind) /\ v4' = Append(Log!MakeRoom(v4), kind)
  BY DEF Log!Emit
<1>2. /\ v2 \in Seq(Log!AllKinds) /\ v3 \in Seq(Log!AllKinds) /\ v4 \in Seq(Log!AllKinds)
      /\ Frames \in Nat \ {0} /\ Len(v4) <= Frames /\ Len(v4) <= Len(v2)
      /\ Log!Follows(v4, v2, Len(v2) - Len(v4))
  BY DEF Log!JournalInv, Log!JournalTypeOK, Log!JournalAssumption, Log!ScreenIsNewest
<1>3. /\ v4' \in Seq(Log!AllKinds) /\ Len(v4') <= Frames /\ Len(v4') <= Len(v2')
      /\ Log!Follows(v4', v2', Len(v2') - Len(v4'))
  BY <1>1, <1>2, NewestIsKept
<1>4. QED
  BY <1>1, <1>2, <1>3 DEF Log!ScreenIsNewest

\* Rows stay a prefix, and the batch what follows it, when an event is emitted.
LEMMA EmitKeeps ==
  ASSUME Log!JournalAssumption, Log!JournalInv, NEW kind \in Log!AllKinds, Log!Emit(kind),
         NEW n \in Nat, Log!Written(n), UNCHANGED <<v5, v6, v7>>
  PROVE  /\ Log!Written(n)'
         /\ Log!Outstanding(n) /\ v1 \in {"begin", "execute", "report"} /\ v1' \in {"execute", "completed"}
              => Log!Outstanding(n)'
<1>1. /\ v2' = Append(v2, kind) /\ v3' = Append(v3, kind)
      /\ v2 \in Seq(Log!AllKinds) /\ v3 \in Seq(Log!AllKinds) /\ v5 \in Seq(Log!AllKinds)
  BY EmitHolds DEF Log!JournalInv, Log!JournalTypeOK
<1>2. Len(v2') = Len(v2) + 1 /\ Len(v3') = Len(v3) + 1 /\ \A i \in 1..Len(v2) : v2'[i] = v2[i]
  BY <1>1
<1>3. n <= Len(v2) /\ v7 = {[seq |-> i, kind |-> v2[i]] : i \in 1..n}
  BY DEF Log!Written
<1>4. Log!Written(n)'
  <2>1. \A i \in 1..n : [seq |-> i, kind |-> v2'[i]] = [seq |-> i, kind |-> v2[i]]
    BY <1>2, <1>3
  <2>2. v7' = {[seq |-> i, kind |-> v2'[i]] : i \in 1..n}
    BY <1>3, <2>1
  <2>3. n <= Len(v2')
    BY <1>1, <1>2, <1>3
  <2>4. QED
    BY <2>2, <2>3 DEF Log!Written
<1>5. ASSUME Log!Outstanding(n), v1 \in {"begin", "execute", "report"}, v1' \in {"execute", "completed"}
      PROVE  Log!Outstanding(n)'
  <2>1. /\ n + Len(v5) + Len(v3) = Len(v2)
        /\ Log!Follows(v5, v2, n) /\ Log!Follows(v3, v2, n + Len(v5))
    BY <1>5 DEF Log!Outstanding
  <2>2. Log!Follows(v3', v2', n + Len(v5'))
    BY <1>1, <2>1, EmitFollows
  <2>3. Log!Follows(v5', v2', n)
    BY <1>1, <1>2, <2>1 DEF Log!Follows
  <2>4. n + Len(v5') + Len(v3') = Len(v2')
    BY <1>1, <1>2, <2>1
  <2>5. v5' = <<>>
    BY <1>5 DEF Log!Outstanding
  <2>6. QED
    BY <1>5, <2>2, <2>3, <2>4, <2>5 DEF Log!Outstanding, Log!AfterDrain
<1>6. QED
  BY <1>4, <1>5

\* A step that emits: run_started, an event of the execution, run_completed.
LEMMA EventHolds ==
  ASSUME Log!JournalAssumption, Log!JournalInv, NEW kind \in Log!AllKinds, Log!Emit(kind),
         UNCHANGED <<v5, v6, v7>>, v1 \in {"begin", "execute", "report"}, v1' \in {"execute", "completed"}
  PROVE  Log!JournalInv'
<1>1. PICK n \in Nat : Log!Written(n) /\ (v1 \notin {"raised", "dead"} => Log!Outstanding(n))
  BY DEF Log!JournalInv
<1>2. Log!Written(n)' /\ Log!Outstanding(n)'
  BY <1>1, EmitKeeps
<1>3. Log!JournalTypeOK'
  <2>1. v1' \in Log!Stages \cup Log!Ended
    BY DEF Log!Stages
  <2>2. QED
    BY <2>1, EmitHolds DEF Log!JournalInv, Log!JournalTypeOK
<1>4. QED
  BY <1>2, <1>3, EmitHolds DEF Log!JournalInv

\* The number of the last row.
LEMMA LatestIsCount ==
  ASSUME NEW n \in Nat, Log!Written(n)
  PROVE  Log!LatestSeq = n
<1>1. {r.seq : r \in v7} = 1..n /\ v7 = {[seq |-> i, kind |-> v2[i]] : i \in 1..n}
  BY RowsAreCounted DEF Log!Written
<1>2. CASE n = 0
  BY <1>1, <1>2 DEF Log!LatestSeq
<1>3. CASE n # 0
  <2>1. v7 # {}
    BY <1>1, <1>3
  <2>2. \A s \in 1..n : (\A r \in v7 : r.seq <= s) <=> s = n
    <3>1. \A r \in v7 : r.seq \in 1..n
      BY <1>1
    <3>2. \E r \in v7 : r.seq = n
      BY <1>1, <1>3
    <3>3. QED
      BY <3>1, <3>2
  <2>3. QED
    BY <1>1, <1>3, <2>1, <2>2 DEF Log!LatestSeq
<1>4. QED
  BY <1>2, <1>3

\* The batch is what was queued, and its first row comes after the last.
LEMMA DrainHolds ==
  ASSUME Log!JournalInv, NEW stage \in DOMAIN Log!AfterDrain, Log!StartDrain(stage)
  PROVE  Log!JournalInv'
<1>1. v1 \in {"execute", "completed"} /\ v1' = stage /\ UNCHANGED <<v2, v4, v7>>
  BY DEF Log!StartDrain
<1>2. v5' = v3 /\ v3' = <<>> /\ v6' = Log!LatestSeq + 1
  BY DEF Log!StartDrain, Log!Drain
<1>3. PICK n \in Nat : Log!Written(n) /\ Log!Outstanding(n)
  BY <1>1 DEF Log!JournalInv
<1>4. v5 = <<>> /\ n + Len(v5) + Len(v3) = Len(v2) /\ Log!Follows(v3, v2, n + Len(v5))
  BY <1>1, <1>3 DEF Log!Outstanding
<1>5. v6' = n + 1
  BY <1>2, <1>3, LatestIsCount
<1>6. v2 \in Seq(Log!AllKinds) /\ v3 \in Seq(Log!AllKinds)
  BY DEF Log!JournalInv, Log!JournalTypeOK
<1>7. Log!Written(n)'
  BY <1>1, <1>3 DEF Log!Written
<1>8. Log!Outstanding(n)'
  <2>1. n + Len(v5') + Len(v3') = Len(v2')
    BY <1>1, <1>2, <1>4, <1>6
  <2>2. Log!Follows(v5', v2', n)
    BY <1>1, <1>2, <1>4
  <2>3. Log!Follows(v3', v2', n + Len(v5'))
    BY <1>2 DEF Log!Follows
  <2>4. v1' \notin {"begin", "execute", "report", "completed", "returned"}
    BY <1>1 DEF Log!AfterDrain
  <2>5. QED
    BY <1>2, <1>5, <2>1, <2>2, <2>3, <2>4 DEF Log!Outstanding
<1>9. Log!JournalTypeOK'
  <2>1. v1' \in Log!Stages \cup Log!Ended
    BY <1>1 DEF Log!AfterDrain, Log!Stages
  <2>2. v6' \in Nat
    BY <1>5
  <2>3. QED
    BY <1>1, <1>2, <1>6, <2>1, <2>2 DEF Log!JournalInv, Log!JournalTypeOK
<1>10. QED
  BY <1>1, <1>7, <1>8, <1>9 DEF Log!JournalInv, Log!ScreenIsNewest

\* A row is the next event, with the next number.
LEMMA StoreHolds ==
  ASSUME Log!JournalInv, Log!Store
  PROVE  Log!JournalInv'
<1>1. /\ v5 # <<>> /\ v1 \notin Log!Ended /\ UNCHANGED <<v1, v2, v3, v4>>
      /\ v7' = v7 \cup {[seq |-> v6, kind |-> Head(v5)]} /\ v5' = Tail(v5) /\ v6' = v6 + 1
  BY DEF Log!Store
<1>2. v1 \notin {"raised", "dead", "returned"}
  BY <1>1 DEF Log!Ended
<1>3. PICK n \in Nat : Log!Written(n) /\ Log!Outstanding(n)
  BY <1>2 DEF Log!JournalInv
<1>4. v1 \in DOMAIN Log!AfterDrain
  <2>1. v1 \in Log!Stages
    BY <1>1 DEF Log!JournalInv, Log!JournalTypeOK
  <2>2. v1 \notin {"begin", "execute", "report", "completed"}
    BY <1>1, <1>3 DEF Log!Outstanding
  <2>3. QED
    BY <2>1, <2>2 DEF Log!Stages, Log!AfterDrain
<1>5. /\ v2 \in Seq(Log!AllKinds) /\ v3 \in Seq(Log!AllKinds) /\ v5 \in Seq(Log!AllKinds)
      /\ v7 \in SUBSET [seq : Nat, kind : Log!AllKinds]
  BY DEF Log!JournalInv, Log!JournalTypeOK
<1>6. /\ v3 = <<>> /\ v6 = n + 1 /\ n + Len(v5) = Len(v2) /\ Log!Follows(v5, v2, n)
  BY <1>3, <1>4, <1>5 DEF Log!Outstanding
<1>7. Log!Follows(Tail(v5), v2, n + 1) /\ Head(v5) = v2[n + 1] /\ Len(Tail(v5)) = Len(v5) - 1
  BY <1>1, <1>5, <1>6, TailFollows
<1>8. Log!Written(n + 1)'
  <2>1. n + 1 <= Len(v2')
    BY <1>1, <1>5, <1>6
  <2>2. v7 = {[seq |-> i, kind |-> v2[i]] : i \in 1..n}
    BY <1>3 DEF Log!Written
  <2>3. v7' = {[seq |-> i, kind |-> v2[i]] : i \in 1..n} \cup {[seq |-> n + 1, kind |-> v2[n + 1]]}
    BY <1>1, <1>6, <1>7, <2>2
  <2>4. 1..(n + 1) = (1..n) \cup {n + 1}
    OBVIOUS
  <2>5. v7' = {[seq |-> i, kind |-> v2[i]] : i \in 1..(n + 1)}
    BY <2>3, <2>4
  <2>6. QED
    BY <1>1, <2>1, <2>5 DEF Log!Written
<1>9. Log!Outstanding(n + 1)'
  <2>1. (n + 1) + Len(v5') + Len(v3') = Len(v2')
    BY <1>1, <1>5, <1>6, <1>7
  <2>2. Log!Follows(v5', v2', n + 1) /\ Log!Follows(v3', v2', (n + 1) + Len(v5'))
    BY <1>1, <1>6, <1>7 DEF Log!Follows
  <2>3. v1' \notin {"begin", "execute", "report", "completed", "returned"}
    BY <1>1, <1>4 DEF Log!AfterDrain
  <2>4. v3' = <<>> /\ v6' = (n + 1) + 1
    BY <1>1, <1>6
  <2>5. QED
    BY <2>1, <2>2, <2>3, <2>4 DEF Log!Outstanding
<1>10. Log!JournalTypeOK'
  <2>1. v5' \in Seq(Log!AllKinds) /\ v6' \in Nat /\ Head(v5) \in Log!AllKinds
    BY <1>1, <1>5, <1>6
  <2>2. v7' \in SUBSET [seq : Nat, kind : Log!AllKinds]
    BY <1>1, <1>5, <1>6, <2>1
  <2>3. QED
    BY <1>1, <2>1, <2>2 DEF Log!JournalInv, Log!JournalTypeOK
<1>11. QED
  BY <1>1, <1>8, <1>9, <1>10 DEF Log!JournalInv, Log!ScreenIsNewest

\* The steps that neither emit nor store.
LEMMA QuietJournalHolds ==
  ASSUME Log!JournalAssumption, Log!JournalInv, Log!Show \/ Log!StoreFails \/ Log!EndOfDrain \/ Log!Die
  PROVE  Log!JournalInv'
<1>1. PICK n \in Nat : Log!Written(n) /\ (v1 \notin {"raised", "dead"} => Log!Outstanding(n))
  BY DEF Log!JournalInv
<1>2. UNCHANGED <<v2, v3, v6, v7>>
  BY DEF Log!Show, Log!StoreFails, Log!EndOfDrain, Log!Die
<1>3. Log!Written(n)'
  BY <1>1, <1>2 DEF Log!Written
<1>4. CASE Log!Show
  <2>1. Log!JournalTypeOK'
    BY <1>4 DEF Log!Show, Log!JournalInv, Log!JournalTypeOK, Log!JournalAssumption
  <2>2. (v1' \notin {"raised", "dead"} => Log!Outstanding(n)')
    BY <1>1, <1>4 DEF Log!Show, Log!Outstanding
  <2>3. Log!ScreenIsNewest' /\ Len(v4') <= Len(v2')
    BY <1>4 DEF Log!Show, Log!ScreenIsNewest, Log!Follows, Log!JournalInv, Log!JournalTypeOK
  <2>4. QED
    BY <1>3, <2>1, <2>2, <2>3 DEF Log!JournalInv
<1>5. CASE Log!StoreFails \/ Log!Die
  <2>1. v1' \in {"raised", "dead"} /\ UNCHANGED v4 /\ (v5' = <<>> \/ UNCHANGED v5)
    BY <1>5 DEF Log!StoreFails, Log!Die
  <2>2. Log!JournalTypeOK'
    <3>1. v1' \in Log!Stages \cup Log!Ended
      BY <2>1 DEF Log!Ended
    <3>2. v5' \in Seq(Log!AllKinds)
      <4>1. v5 \in Seq(Log!AllKinds) /\ <<>> \in Seq(Log!AllKinds)
        BY DEF Log!JournalInv, Log!JournalTypeOK
      <4>2. QED
        BY <2>1, <4>1
    <3>3. QED
      BY <1>2, <2>1, <3>1, <3>2 DEF Log!JournalInv, Log!JournalTypeOK
  <2>3. QED
    BY <1>2, <1>3, <2>1, <2>2 DEF Log!JournalInv, Log!ScreenIsNewest
<1>6. CASE Log!EndOfDrain
  <2>1. /\ v1 \in DOMAIN Log!AfterDrain /\ v5 = <<>> /\ v1' = Log!AfterDrain[v1]
        /\ UNCHANGED <<v2, v3, v4, v5, v6, v7>>
    BY <1>6 DEF Log!EndOfDrain
  <2>2. v1' \in {"report", "raised", "returned"}
    BY <2>1 DEF Log!AfterDrain
  <2>3. Log!JournalTypeOK'
    <3>1. v1' \in Log!Stages \cup Log!Ended
      BY <2>2 DEF Log!Stages, Log!Ended
    <3>2. QED
      BY <2>1, <3>1 DEF Log!JournalInv, Log!JournalTypeOK
  <2>4. v1' # "raised" => Log!Outstanding(n)'
    <3>1. v1 \notin {"raised", "dead"}
      BY <2>1 DEF Log!AfterDrain
    <3>2. v3 = <<>> /\ Log!Outstanding(n)
      BY <1>1, <2>1, <3>1 DEF Log!Outstanding
    <3>3. v1' \notin DOMAIN Log!AfterDrain
      BY <2>2 DEF Log!AfterDrain
    <3>4. QED
      BY <2>1, <3>2, <3>3 DEF Log!Outstanding
  <2>5. QED
    BY <1>3, <2>1, <2>3, <2>4 DEF Log!JournalInv, Log!ScreenIsNewest
<1>7. QED
  BY <1>4, <1>5, <1>6

\* The invariant holds at the start.
LEMMA JournalInitHolds == Log!JournalAssumption /\ Log!JournalInit => Log!JournalInv
<1> SUFFICES ASSUME Log!JournalAssumption, Log!JournalInit PROVE Log!JournalInv
  OBVIOUS
<1>1. Log!JournalTypeOK
  BY DEF Log!JournalAssumption, Log!JournalInit, Log!JournalTypeOK, Log!Stages
<1>2. Log!Written(0) /\ Log!Outstanding(0)
  BY DEF Log!JournalInit, Log!Written, Log!Outstanding, Log!Follows, Log!AfterDrain
<1>3. QED
  BY <1>1, <1>2 DEF Log!JournalInit, Log!JournalInv, Log!ScreenIsNewest, Log!Follows

\* Every step keeps it.
LEMMA JournalStepHolds ==
  ASSUME Log!JournalAssumption, Log!JournalInv, [Log!JournalNext]_(Log!journalVars)
  PROVE  Log!JournalInv'
<1>1. CASE Log!Begin
  BY <1>1, EventHolds DEF Log!Begin, Log!AllKinds
<1>2. ASSUME NEW kind \in EventKinds, Log!Happen(kind)
      PROVE  Log!JournalInv'
  BY <1>2, EventHolds DEF Log!Happen, Log!AllKinds
<1>3. CASE Log!Complete
  BY <1>3, EventHolds DEF Log!Complete, Log!AllKinds
<1>4. ASSUME NEW stage \in {"drain", "unwind", "drain last"}, Log!StartDrain(stage)
      PROVE  Log!JournalInv'
  BY <1>4, DrainHolds DEF Log!AfterDrain
<1>5. CASE UNCHANGED Log!journalVars
  BY <1>5 DEF Log!journalVars, Log!JournalInv, Log!JournalTypeOK, Log!ScreenIsNewest, Log!Written, Log!Outstanding
<1>6. QED
  BY <1>1, <1>2, <1>3, <1>4, <1>5, StoreHolds, QuietJournalHolds DEF Log!JournalNext

\* The instance's cardinality is the library's.
LEMMA LogCardinality == ASSUME NEW S PROVE Log!Cardinality(S) = Cardinality(S)
BY DEF Log!Cardinality, Cardinality

\* What the invariant says of the rows is what the property asks.
LEMMA JournalInvImplies == Log!JournalInv => Log!EventsKeepTheirOrder
<1> SUFFICES ASSUME Log!JournalInv PROVE Log!JournalIsAPrefix
  BY DEF Log!EventsKeepTheirOrder, Log!JournalInv
<1>1. PICK n \in Nat : Log!Written(n) /\ (v1 \notin {"raised", "dead"} => Log!Outstanding(n))
  BY DEF Log!JournalInv
<1>2. n <= Len(v2) /\ v7 = {[seq |-> i, kind |-> v2[i]] : i \in 1..n}
  BY <1>1 DEF Log!Written
<1>3. Cardinality(v7) = n /\ {r.seq : r \in v7} = 1..n
  BY <1>2, RowsAreCounted
<1>4. \A r \in v7 : r.seq <= Len(v2) /\ r.kind = v2[r.seq]
  <2>1. Len(v2) \in Nat
    BY DEF Log!JournalInv, Log!JournalTypeOK
  <2>2. QED
    BY <1>2, <2>1
<1>5. v1 = "returned" => n = Len(v2)
  BY <1>1 DEF Log!Outstanding, Log!JournalInv, Log!JournalTypeOK
<1>6. {r.seq : r \in v7} = 1..Log!Cardinality(v7)
  BY <1>3, LogCardinality
<1>7. v1 = "returned" => Log!Cardinality(v7) = Len(v2)
  BY <1>3, <1>5, LogCardinality
<1>8. QED
  BY <1>4, <1>6, <1>7 DEF Log!JournalIsAPrefix

\* The journal keeps what its rows rest on.
LEMMA JournalInvariant == Spec => [](subject = "journal" => Log!JournalInv)
<1> DEFINE Inv == subject = "journal" => Log!JournalInv
<1> USE PartsAssumption DEF PartsAssumption
<1>1. Init => Inv
  BY JournalInitHolds DEF Init, SlotsInit
<1>2. Inv /\ [Next]_partsVars => Inv'
  <2> SUFFICES ASSUME Inv, [Next]_partsVars, subject' = "journal"
               PROVE  Log!JournalInv'
    OBVIOUS
  <2>1. subject = "journal" /\ (Log!JournalNext \/ UNCHANGED slots)
    BY DEF Next, SlotsNext, partsVars, slots
  <2>2. QED
    BY <2>1, JournalStepHolds DEF slots, Log!journalVars
<1>3. QED
  BY <1>1, <1>2, PTL DEF Spec

\* The event table is a numbered prefix of what was emitted, and all of it once a run
\* returned (engine.run).
THEOREM EventOrder == Spec => []EventsKeepTheirOrder
<1>1. (subject = "journal" => Log!JournalInv) => EventsKeepTheirOrder
  BY JournalInvImplies DEF EventsKeepTheirOrder
<1>2. QED
  BY <1>1, JournalInvariant, PTL

-----------------------------------------------------------------------------
(* Topology (v1 stage, v2 edges, v3 repair, v4 last, v5 ran, v6 loop, v7   *)
(* payload): an accepted chain passes a judge, and ends on one when its    *)
(* repair block starts at a node of the chain.                             *)
(* What ran is a walk along the last edges of its nodes (Walked), what     *)
(* is left to unroll is the end of the repair chain (Unrolled), and a      *)
(* chain that ended without a judge would be closed under the walk of      *)
(* the termination check. No edge leaves the node a repair block starts    *)
(* at, so a walk that has run it ends there (LoopIsClosed).                *)

\* The instance's cardinality is the library's.
LEMMA FileCardinality == ASSUME NEW S PROVE File!Cardinality(S) = Cardinality(S)
BY DEF File!Cardinality, Cardinality

\* A node whose sockets fit those of the one before it does not raise on what that one made.
LEMMA FittingNodeRuns ==
  ASSUME NEW a \in File!KindNames, NEW b \in File!KindNames, File!Gives[a] = File!Takes[b],
         v7 = File!Makes(a)
  PROVE  ~File!Raises(b)
<1>1. CASE b = "apply"
  <2>1. File!Takes[b] = "GeneratedPatch" BY <1>1 DEF File!Takes, File!KindNames
  <2>2. a # "reflector" BY <2>1 DEF File!Gives, File!KindNames
  <2>3. QED BY <2>2 DEF File!Makes, File!Raises
<1>2. CASE b = "evaluate"
  <2>1. File!Takes[b] = "AppliedPatch" BY <1>2 DEF File!Takes, File!KindNames
  <2>2. a # "reflector" BY <2>1 DEF File!Gives, File!KindNames
  <2>3. QED BY <2>2 DEF File!Makes, File!Raises
<1>3. QED
  BY <1>1, <1>2 DEF File!Raises

\* What a node makes is a payload.
LEMMA MakesAPayload == ASSUME NEW kind \in File!KindNames PROVE File!Makes(kind) \in File!Payloads
BY DEF File!Makes, File!Gives, File!KindNames, File!Payloads

\* The two edges of an accepted topology fit wherever one of its edges leads.
LEMMA AcceptedEdgeFits ==
  ASSUME NEW from, NEW to, File!Accepted, File!IsEdge(from, to)
  PROVE  File!Fits(from, to)
BY DEF File!Accepted, File!SocketCompatibility, File!IsEdge

\* The chain of an accepted repair block starts at its judge, and each of its nodes fits the
\* one before.
LEMMA RepairChainFits ==
  ASSUME File!TopologyAssumption, File!Accepted, v3 \in RepairChoices, v3 # File!NoBlock
  PROVE  /\ File!RepairChain \in Seq(File!Ids) /\ Len(File!RepairChain) \in Nat \ {0}
         /\ v3.iterations \in 1..16
         /\ File!Fits(v3.from, File!RepairChain[1]) /\ NodeKinds[v3.from] = "evaluate"
         /\ \A k \in 2..Len(File!RepairChain) : File!Fits(File!RepairChain[k - 1], File!RepairChain[k])
         /\ NodeKinds[File!RepairChain[Len(File!RepairChain)]] = "evaluate"
<1> DEFINE rc == File!RepairChain
           chain == <<v3.from>> \o rc
<1>0. File!BoundedIteration /\ v3.via \in Seq(0..Len(NodeKinds))
  BY DEF File!Accepted, File!TopologyAssumption
<1>1. v3.iterations \in 1..16 /\ NodeKinds[v3.from] = "evaluate" /\ v3.from \in File!Ids
  BY <1>0 DEF File!BoundedIteration
<1>2. v3.via \in Seq(File!Ids) /\ v3.back \in File!Ids
  <2>1. \A i \in 1..Len(v3.via) : v3.via[i] \in File!Ids
    BY <1>0 DEF File!BoundedIteration
  <2>2. v3.back \in File!Ids
    BY <1>0 DEF File!BoundedIteration
  <2>3. QED
    BY <1>0, <2>1, <2>2
<1>3. rc \in Seq(File!Ids) /\ Len(rc) = Len(v3.via) + 1 /\ Len(v3.via) \in Nat /\ rc[Len(rc)] = v3.back
  <2>1. <<v3.back>> \in Seq(File!Ids) /\ Len(<<v3.back>>) = 1 BY <1>2
  <2>2. QED BY <1>2, <2>1 DEF File!RepairChain
<1>3a. NodeKinds[rc[Len(rc)]] = "evaluate"
  BY <1>0, <1>3 DEF File!BoundedIteration
<1>4. Len(chain) = Len(rc) + 1 /\ chain[1] = v3.from /\ \A k \in 1..Len(rc) : chain[k + 1] = rc[k]
  <2> HIDE DEF rc
  <2>1. <<v3.from>> \in Seq(File!Ids) /\ Len(<<v3.from>>) = 1 BY <1>1
  <2>2. QED BY <1>3, <2>1
<1>5. \A i \in 2..Len(chain) : File!Fits(chain[i - 1], chain[i])
  BY DEF File!Accepted, File!SocketCompatibility
<1> HIDE DEF rc, chain
<1>6. File!Fits(v3.from, rc[1])
  <2>1. 2 \in 2..Len(chain) /\ 1 \in 1..Len(rc) BY <1>3, <1>4
  <2>2. File!Fits(chain[2 - 1], chain[2]) BY <1>5, <2>1
  <2>3. chain[1 + 1] = rc[1] BY <1>4, <2>1
  <2>4. QED BY <1>4, <2>2, <2>3
<1>7. ASSUME NEW k \in 2..Len(rc) PROVE File!Fits(rc[k - 1], rc[k])
  <2>1. k + 1 \in 2..Len(chain) /\ k \in 1..Len(rc) /\ k - 1 \in 1..Len(rc) BY <1>3, <1>4
  <2>2. File!Fits(chain[(k + 1) - 1], chain[k + 1]) BY <1>5, <2>1
  <2>3. (k + 1) - 1 = k /\ (k - 1) + 1 = k BY <2>1
  <2>4. chain[k] = rc[k - 1] /\ chain[k + 1] = rc[k] BY <1>4, <2>1, <2>3
  <2>5. QED BY <2>2, <2>3, <2>4
<1>8. QED
  BY <1>1, <1>3, <1>3a, <1>6, <1>7 DEF rc

\* A chain that has come to its end has run a judge: what it has not run would be closed under
\* the walk of the termination check.
LEMMA EndedChainIsJudged ==
  ASSUME File!TopologyAssumption, File!TopologyInv, File!Chained, v1 = "running", File!NextNode = {}
  PROVE  File!JudgeRan
<1> SUFFICES ASSUME ~File!JudgeRan PROVE FALSE
  OBVIOUS
<1> DEFINE R == File!InEdges \ File!RanSet
<1>1. File!Accepted /\ File!LastIsAnEdge /\ File!Walked /\ v5 \in Seq(File!Ids)
  BY DEF File!TopologyInv, File!TopologyTypeOK
<1>2. PICK entry : File!EntryNodes = {entry}
  <2>1. Cardinality(File!EntryNodes) = 1 BY FileCardinality DEF File!Chained
  <2>2. IsFiniteSet(File!EntryNodes)
    <3>1. File!EntryNodes \subseteq File!Ids
      BY <1>1 DEF File!EntryNodes, File!InEdges, File!Accepted, File!SocketCompatibility, File!Fits
    <3>2. IsFiniteSet(File!Ids)
      <4>1. Len(NodeKinds) \in Nat BY DEF File!TopologyAssumption
      <4>2. QED BY <4>1, FS_Interval DEF File!Ids
    <3>3. QED BY <3>1, <3>2, FS_Subset
  <2>3. QED BY <2>1, <2>2, FS_Singleton
<1>3. File!EntryNodes \subseteq File!RanSet
  <2>1. SUFFICES ASSUME File!EntryNodes \ File!RanSet # {} PROVE FALSE
    OBVIOUS
  <2>2. entry \in File!Ids
    BY <1>1, <1>2 DEF File!EntryNodes, File!InEdges, File!Accepted, File!SocketCompatibility, File!Fits
  <2>3. entry \in Int /\ entry <= entry
    <3>1. Len(NodeKinds) \in Nat BY DEF File!TopologyAssumption
    <3>2. QED BY <2>2, <3>1 DEF File!Ids
  <2>4. entry \in File!NextNode
    BY <1>2, <2>1, <2>3 DEF File!NextNode
  <2>5. QED BY <2>4
<1>4. v5 # <<>> /\ Len(v5) \in Nat /\ Len(v5) >= 1
  BY <1>1, <1>2, <1>3 DEF File!RanSet
<1>5. v5[Len(v5)] \in DOMAIN v4 => v4[v5[Len(v5)]] \in File!RanSet
  <2>1. File!EntryNodes \ File!RanSet = {} BY <1>3
  <2>2. QED BY <1>4, <2>1 DEF File!NextNode
<1>6. \A n \in File!RanSet \cap DOMAIN v4 : v4[n] \in File!RanSet
  <2> SUFFICES ASSUME NEW i \in 1..Len(v5), v5[i] \in DOMAIN v4
               PROVE  v4[v5[i]] \in File!RanSet
    BY DEF File!RanSet
  <2>1. CASE i = Len(v5)
    BY <1>5, <2>1
  <2>2. CASE i # Len(v5)
    <3>1. i \in 1..(Len(v5) - 1) /\ i + 1 \in 1..Len(v5) BY <1>4, <2>2
    <3>2. v4[v5[i]] = v5[i + 1] BY <1>1, <3>1 DEF File!Walked
    <3>3. QED BY <3>1, <3>2 DEF File!RanSet
  <2>3. QED BY <2>1, <2>2
<1>7. File!Judges \subseteq R
  BY DEF File!Judges, File!JudgeRan, File!RanSet
<1>8. File!Reaching(R) \subseteq R
  <2> SUFFICES ASSUME NEW n \in File!Reaching(R), n \in File!RanSet PROVE FALSE
    BY DEF File!Reaching
  <2>1. PICK e \in v2 : e.from = n /\ e.to \in R
    BY DEF File!Reaching, File!Ordinary
  <2>2. n \in DOMAIN v4 /\ File!IsEdge(n, v4[n])
    BY <1>1, <2>1 DEF File!LastIsAnEdge
  <2>3. v4[n] = e.to
    BY <2>1, <2>2 DEF File!IsEdge, File!Chained
  <2>4. QED BY <1>6, <2>1, <2>2, <2>3
<1>9. File!EntryNodes \subseteq R
  <2>1. R \in SUBSET File!InEdges OBVIOUS
  <2>2. File!EntryNodes # {} BY <1>2
  <2> HIDE DEF R
  <2>3. QED BY <1>1, <1>7, <1>8, <2>1, <2>2 DEF File!Accepted, File!EvaluatorTermination
<1>10. QED
  BY <1>2, <1>3, <1>9

\* A chain that has run the node its repair block starts at has run it last.
LEMMA EndedChainIsClosed ==
  ASSUME File!TopologyAssumption, File!TopologyInv, File!Chained, v1 = "running"
  PROVE  File!LoopIsClosed
<1>1. File!Accepted /\ File!LastIsAnEdge /\ File!Walked /\ v5 \in Seq(File!Ids) /\ v3 \in RepairChoices
  BY DEF File!TopologyInv, File!TopologyTypeOK
<1>2. ASSUME NEW i \in 1..Len(v5), v3.from = v5[i] PROVE File!EndsOnJudge
  <2>1. v3 # File!NoBlock
    <3>1. v5[i] \in File!Ids BY <1>1
    <3>2. v5[i] # 0 BY <3>1 DEF File!TopologyAssumption, File!Ids
    <3>3. QED BY <1>2, <3>2 DEF File!NoBlock
  <2>2. NodeKinds[v3.from] = "evaluate" /\ v3.from \notin DOMAIN v4
    BY <1>1, <2>1 DEF File!Accepted, File!BoundedIteration, File!LastIsAnEdge
  <2>3. i \notin 1..(Len(v5) - 1)
    BY <1>1, <1>2, <2>2 DEF File!Walked
  <2>4. i = Len(v5) /\ v5 # <<>>
    BY <1>1, <2>3
  <2>5. QED
    BY <1>2, <2>2, <2>4 DEF File!EndsOnJudge
<1>3. QED
  BY <1>2 DEF File!LoopIsClosed, File!RanSet

\* Drawing an edge and checking the file keep the invariant.
LEMMA FileHolds ==
  ASSUME File!TopologyAssumption, File!TopologyInv,
         (\E e \in EdgeChoices : File!Draw(e)) \/ File!Validate
  PROVE  File!TopologyInv'
<1>1. ASSUME NEW e \in EdgeChoices, File!Draw(e)
      PROVE  File!TopologyInv'
  BY <1>1 DEF File!Draw, File!TopologyInv, File!TopologyTypeOK
<1>2. CASE File!Validate
  <2>1. v1 = "writing" /\ v5 = <<>> /\ v7 = "TaskInput" /\ v6 = [left |-> 0, todo |-> <<>>]
    BY <1>2 DEF File!Validate, File!TopologyInv
  <2>2. CASE ~File!Accepted
    <3>1. v1' = "refused" BY <1>2, <2>2 DEF File!Validate
    <3>2. QED BY <1>2, <2>1, <2>2, <3>1 DEF File!Validate, File!TopologyInv, File!TopologyTypeOK
  <2>3. CASE File!Accepted
    <3>1. v1' = "running" /\ UNCHANGED <<v2, v3, v5, v6, v7>>
      BY <1>2, <2>3 DEF File!Validate
    <3>2. PICK f \in [{e.from : e \in v2} -> File!Ids] :
            v4' = f /\ \A n \in DOMAIN f : \E e \in v2 : e.from = n /\ e.to = f[n]
      BY <1>2, <2>3 DEF File!Validate
    <3>3. {e.from : e \in v2} \subseteq File!Ids
      BY <2>3 DEF File!Accepted, File!SocketCompatibility, File!Fits
    <3>4. File!LastIsAnEdge'
      BY <3>1, <3>2 DEF File!LastIsAnEdge, File!IsEdge, File!Ids
    <3>5. File!Accepted'
      BY <2>3, <3>1 DEF File!Accepted, File!BoundedIteration, File!SocketCompatibility, File!RepairChain,
        File!EvaluatorTermination, File!InEdges, File!EntryNodes, File!Judges, File!Reaching, File!Ordinary,
        File!BudgetAnnotation, File!Fits
    <3>6. File!Walked'
      BY <2>1, <3>1 DEF File!Walked
    <3>7. File!TopologyTypeOK'
      BY <3>1, <3>2, <3>3 DEF File!TopologyInv, File!TopologyTypeOK, File!Ids
    <3>8. QED
      BY <2>1, <3>1, <3>4, <3>5, <3>6, <3>7 DEF File!TopologyInv
  <2>4. QED
    BY <2>2, <2>3
<1>3. QED
  BY <1>1, <1>2

\* What is true of the file alone stays true while the file does.
LEMMA FileStays ==
  ASSUME UNCHANGED <<v2, v3, v4>>
  PROVE  /\ File!Accepted => File!Accepted'
         /\ File!LastIsAnEdge => File!LastIsAnEdge'
         /\ File!Chained' = File!Chained
         /\ File!RepairChain' = File!RepairChain
         /\ File!EntryNodes' = File!EntryNodes
BY DEF File!Accepted, File!BoundedIteration, File!SocketCompatibility, File!RepairChain,
    File!EvaluatorTermination, File!InEdges, File!EntryNodes, File!Judges, File!Reaching, File!Ordinary,
    File!BudgetAnnotation, File!Fits, File!LastIsAnEdge, File!IsEdge, File!Chained

\* The walk along the edges keeps the invariant.
LEMMA WalkHolds ==
  ASSUME File!TopologyAssumption, File!TopologyInv, File!RunNode
  PROVE  File!TopologyInv'
<1>1. PICK n \in File!NextNode :
        /\ v1 = "running" /\ UNCHANGED <<v2, v3, v6, v4>> /\ File!Run(n)
        /\ v1' = IF File!Raises(NodeKinds[n]) THEN "failed" ELSE v1
  BY DEF File!RunNode
<1>2. File!Accepted /\ File!LastIsAnEdge /\ v5 \in Seq(File!Ids) /\ File!TopologyTypeOK
  BY <1>1 DEF File!TopologyInv, File!TopologyTypeOK
<1>3. n \in File!Ids /\ NodeKinds[n] \in File!KindNames
  <2>1. File!EntryNodes \subseteq File!Ids
    BY <1>2 DEF File!EntryNodes, File!InEdges, File!Accepted, File!SocketCompatibility, File!Fits
  <2>2. n \in File!Ids
    BY <1>1, <1>2, <2>1 DEF File!NextNode, File!LastIsAnEdge
  <2>3. QED
    BY <2>2 DEF File!TopologyAssumption, File!Ids
<1>4. v5' = Append(v5, n) /\ v5' \in Seq(File!Ids) /\ Len(v5') = Len(v5) + 1 /\ Len(v5) \in Nat
  BY <1>1, <1>2, <1>3 DEF File!Run
<1>5. File!TopologyTypeOK'
  <2>1. v7' \in File!Payloads
    BY <1>1, <1>2, <1>3, MakesAPayload DEF File!Run, File!TopologyTypeOK
  <2>2. v1' \in {"running", "failed"}
    BY <1>1
  <2>3. QED
    BY <1>1, <1>2, <1>4, <2>1, <2>2 DEF File!TopologyTypeOK
<1>6. ASSUME File!Chained
      PROVE  v1' = "running" /\ File!Walked'
  <2>1. File!Walked
    BY <1>1, <1>6 DEF File!TopologyInv
  <2>2. CASE v5 = <<>>
    <3>1. v7 = "TaskInput" /\ n \in File!EntryNodes
      BY <1>1, <2>1, <2>2 DEF File!Walked, File!NextNode
    <3>2. NodeKinds[n] = "retrieve"
      BY <1>6, <3>1 DEF File!Chained
    <3>3. ~File!Raises(NodeKinds[n])
      BY <3>2 DEF File!Raises
    <3>4. v5' = <<n>> /\ Len(v5') = 1
      BY <1>4, <2>2
    <3>5. File!EntryNodes = {n}
      <4>1. Cardinality(File!EntryNodes) = 1 BY <1>6, FileCardinality DEF File!Chained
      <4>2. IsFiniteSet(File!EntryNodes)
        <5>1. File!EntryNodes \subseteq File!Ids
          BY <1>2 DEF File!EntryNodes, File!InEdges, File!Accepted, File!SocketCompatibility, File!Fits
        <5>2. Len(NodeKinds) \in Nat BY DEF File!TopologyAssumption
        <5>3. IsFiniteSet(File!Ids) BY <5>2, FS_Interval DEF File!Ids
        <5>4. QED BY <5>1, <5>3, FS_Subset
      <4>3. QED BY <3>1, <4>1, <4>2, FS_Singleton
    <3>6. n \in File!RanSet'
      BY <3>4 DEF File!RanSet
    <3>7. v7' = File!Makes(NodeKinds[n])
      BY <1>1, <3>3 DEF File!Run
    <3>8. File!Walked'
      BY <1>1, <3>4, <3>5, <3>6, <3>7, FileStays DEF File!Walked
    <3>9. QED
      BY <1>1, <3>3, <3>8
  <2>3. CASE v5 # <<>>
    <3> DEFINE before == v5[Len(v5)]
    <3>1. Len(v5) >= 1 /\ before \in File!Ids
      BY <1>2, <2>3
    <3>2. File!EntryNodes \subseteq File!RanSet /\ v7 = File!Makes(NodeKinds[before])
      BY <2>1, <2>3 DEF File!Walked
    <3>3. before \in DOMAIN v4 /\ n = v4[before]
      <4>1. File!EntryNodes \ File!RanSet = {} BY <3>2
      <4>2. QED BY <1>1, <2>3, <4>1 DEF File!NextNode
    <3>4. File!Fits(before, n)
      BY <1>2, <3>3, AcceptedEdgeFits DEF File!LastIsAnEdge
    <3>5. ~File!Raises(NodeKinds[n])
      <4>1. NodeKinds[before] \in File!KindNames BY <3>1 DEF File!TopologyAssumption, File!Ids
      <4>2. QED BY <1>3, <3>2, <3>4, <4>1, FittingNodeRuns DEF File!Fits
    <3>6. v7' = File!Makes(NodeKinds[n]) /\ v5'[Len(v5')] = n
      BY <1>1, <1>4, <3>5 DEF File!Run
    <3>7. \A i \in 1..Len(v5) : v5'[i] = v5[i]
      BY <1>2, <1>3, <1>4
    <3>8. File!RanSet \subseteq File!RanSet'
      BY <1>4, <3>7 DEF File!RanSet
    <3>9. \A i \in 1..(Len(v5') - 1) : v5'[i] \in DOMAIN v4' /\ v4'[v5'[i]] = v5'[i + 1]
      <4> SUFFICES ASSUME NEW i \in 1..Len(v5)
                   PROVE  v5'[i] \in DOMAIN v4 /\ v4[v5'[i]] = v5'[i + 1]
        BY <1>1, <1>4
      <4>1. CASE i = Len(v5)
        BY <1>4, <3>3, <3>6, <3>7, <4>1
      <4>2. CASE i # Len(v5)
        <5>1. i \in 1..(Len(v5) - 1) /\ i + 1 \in 1..Len(v5) BY <1>4, <4>2
        <5>2. v5[i] \in DOMAIN v4 /\ v4[v5[i]] = v5[i + 1] BY <2>1, <5>1 DEF File!Walked
        <5>3. QED BY <3>7, <5>1, <5>2
      <4>3. QED
        BY <4>1, <4>2
    <3>10. v5' # <<>>
      BY <1>4
    <3>11. File!Walked'
      BY <1>1, <3>2, <3>6, <3>8, <3>9, <3>10, FileStays DEF File!Walked
    <3>12. QED
      BY <1>1, <3>5, <3>11
  <2>4. QED
    BY <2>2, <2>3
<1>7. v1' \in {"running", "failed"}
  BY <1>1
<1>8. QED
  BY <1>1, <1>2, <1>5, <1>6, <1>7, FileStays DEF File!TopologyInv

\* The end of the chain keeps the invariant.
LEMMA EndOfChainHolds ==
  ASSUME File!TopologyAssumption, File!TopologyInv, File!EndOfChain
  PROVE  File!TopologyInv'
<1>1. v1 = "running" /\ File!NextNode = {} /\ UNCHANGED <<v2, v3, v4, v5, v7>>
  BY DEF File!EndOfChain
<1>2. v1' = IF v3 = File!NoBlock THEN "done" ELSE "unrolling"
  BY DEF File!EndOfChain
<1>3. v6' = [left |-> v3.iterations, todo |-> <<>>]
  BY DEF File!EndOfChain
<1>4. File!Accepted /\ File!LastIsAnEdge /\ File!TopologyTypeOK /\ v3 \in RepairChoices
  BY <1>1 DEF File!TopologyInv, File!TopologyTypeOK
<1>5. v3.iterations \in 0..16
  BY <1>4, RepairChainFits DEF File!NoBlock
<1>6. File!TopologyTypeOK'
  BY <1>1, <1>2, <1>3, <1>4, <1>5 DEF File!TopologyTypeOK
<1>7. File!Chained => File!JudgeRan' /\ File!LoopIsClosed'
  BY <1>1, EndedChainIsJudged, EndedChainIsClosed
     DEF File!JudgeRan, File!LoopIsClosed, File!EndsOnJudge, File!RanSet
<1>8. ASSUME v3 # File!NoBlock
      PROVE  \E k \in 1..(Len(File!RepairChain') + 1) : File!Unrolled(k)'
  <2> DEFINE rc == File!RepairChain
  <2>1. rc' = rc /\ rc \in Seq(File!Ids) /\ Len(rc) \in Nat \ {0}
    BY <1>1, <1>4, <1>8, RepairChainFits, FileStays
  <2> HIDE DEF rc
  <2>2. SubSeq(rc, Len(rc) + 1, Len(rc)) = <<>>
    BY <2>1
  <2>3. Len(rc) + 1 # 1 /\ Len(rc) + 1 \notin 2..Len(rc)
    BY <2>1
  <2>4. File!Unrolled(Len(rc) + 1)'
    BY <1>3, <2>1, <2>2, <2>3 DEF File!Unrolled, rc
  <2>5. Len(rc) + 1 \in 1..(Len(rc') + 1)
    BY <2>1
  <2>6. QED
    BY <2>4, <2>5 DEF rc
<1>9. QED
  BY <1>1, <1>2, <1>4, <1>6, <1>7, <1>8, FileStays DEF File!TopologyInv

\* The repair block keeps the invariant.
LEMMA RepairHolds ==
  ASSUME File!TopologyAssumption, File!TopologyInv,
         File!Iterate \/ File!RunRepairNode \/ File!EndOfRun
  PROVE  File!TopologyInv'
<1> DEFINE rc == File!RepairChain
<1>0. v1 = "unrolling" /\ UNCHANGED <<v2, v3, v4>>
  BY DEF File!Iterate, File!RunRepairNode, File!EndOfRun
<1>1. File!Accepted /\ File!LastIsAnEdge /\ File!TopologyTypeOK /\ v3 \in RepairChoices /\ v3 # File!NoBlock
  BY <1>0 DEF File!TopologyInv, File!TopologyTypeOK
<1>2. rc' = rc /\ rc \in Seq(File!Ids) /\ Len(rc) \in Nat \ {0}
  BY <1>0, <1>1, RepairChainFits, FileStays
<1>3. v5 \in Seq(File!Ids) /\ v6 \in [left : 0..16, todo : Seq(File!Ids)] /\ v7 \in File!Payloads
  BY <1>1 DEF File!TopologyTypeOK
<1>4. File!Chained => File!JudgeRan
  BY <1>0 DEF File!TopologyInv
<1> HIDE DEF rc
<1>5. CASE File!Iterate
  <2>1. v1' = v1 /\ UNCHANGED <<v5, v7>> /\ v7 = "EvaluatedCandidate" /\ v6.left > 0
    BY <1>5 DEF File!Iterate
  <2>2. v6' = [left |-> v6.left - 1, todo |-> rc]
    BY <1>5 DEF File!Iterate, rc
  <2>3. v6' \in [left : 0..16, todo : Seq(File!Ids)]
    BY <1>2, <1>3, <2>1, <2>2
  <2>4. File!TopologyTypeOK'
    BY <1>0, <1>1, <2>1, <2>3 DEF File!TopologyTypeOK
  <2>5. SubSeq(rc, 1, Len(rc)) = rc
    BY <1>2
  <2>6. File!Unrolled(1)'
    BY <1>2, <2>1, <2>2, <2>5 DEF File!Unrolled, rc
  <2>7. 1 \in 1..(Len(rc') + 1)
    BY <1>2
  <2>8. File!JudgeRan' = File!JudgeRan
    BY <2>1 DEF File!JudgeRan
  <2>9. v6'.todo # <<>>
    BY <1>2, <2>2
  <2>10. QED
    BY <1>0, <1>1, <1>4, <2>1, <2>4, <2>6, <2>7, <2>8, <2>9, FileStays DEF File!TopologyInv, rc
<1>6. CASE File!RunRepairNode
  <2> DEFINE n == Head(v6.todo)
  <2>1. v6.todo # <<>> /\ File!Run(n) /\ v6' = [v6 EXCEPT !.todo = Tail(@)]
    BY <1>6 DEF File!RunRepairNode
  <2>2. v1' = IF File!Raises(NodeKinds[n]) THEN "failed" ELSE v1
    BY <1>6 DEF File!RunRepairNode
  <2>3. PICK k \in 1..(Len(rc) + 1) : File!Unrolled(k)
    BY <1>0 DEF File!TopologyInv, rc
  <2>4. v6.todo = SubSeq(rc, k, Len(rc))
    BY <2>3 DEF File!Unrolled, rc
  <2>5. k \in 1..Len(rc)
    <3>1. k = Len(rc) + 1 => SubSeq(rc, k, Len(rc)) = <<>> BY <1>2
    <3>2. QED BY <1>2, <2>1, <2>4, <3>1
  <2>6. n = rc[k] /\ Tail(v6.todo) = SubSeq(rc, k + 1, Len(rc)) /\ n \in File!Ids
    BY <1>2, <2>4, <2>5
  <2> HIDE DEF n
  <2>7. ~File!Raises(NodeKinds[n])
    <3>0. \A i \in File!Ids : NodeKinds[i] \in File!KindNames
      BY DEF File!TopologyAssumption, File!Ids
    <3>1. CASE k = 1
      <4>1. v7 = "EvaluatedCandidate" BY <2>3, <3>1 DEF File!Unrolled
      <4>2. v3.from \in File!Ids /\ File!Fits(v3.from, n) /\ NodeKinds[v3.from] = "evaluate"
        BY <1>1, <2>6, <3>1, RepairChainFits DEF rc, File!Fits
      <4>3. v7 = File!Makes("evaluate") BY <4>1 DEF File!Makes, File!Gives, File!KindNames
      <4>4. QED BY <2>6, <3>0, <4>2, <4>3, FittingNodeRuns DEF File!Fits
    <3>2. CASE k # 1
      <4>1. k \in 2..Len(rc) /\ k - 1 \in 1..Len(rc) BY <1>2, <2>5, <3>2
      <4>2. v7 = File!Makes(NodeKinds[rc[k - 1]]) BY <2>3, <4>1 DEF File!Unrolled, rc
      <4>3. File!Fits(rc[k - 1], n)
        BY <1>1, <2>6, <4>1, RepairChainFits DEF rc
      <4>4. rc[k - 1] \in File!Ids BY <1>2, <4>1
      <4>5. QED BY <2>6, <3>0, <4>2, <4>3, <4>4, FittingNodeRuns DEF File!Fits
    <3>3. QED BY <3>1, <3>2
  <2>8. v1' = v1 /\ v7' = File!Makes(NodeKinds[n]) /\ v5' = Append(v5, n)
    BY <2>1, <2>2, <2>7 DEF File!Run
  <2>9. v6' = [left |-> v6.left, todo |-> SubSeq(rc, k + 1, Len(rc))]
    BY <1>3, <2>1, <2>6
  <2>10. SubSeq(rc, k + 1, Len(rc)) \in Seq(File!Ids)
    BY <1>2, <2>5
  <2>11. v7' \in File!Payloads
    BY <2>6, <2>8, MakesAPayload DEF File!TopologyAssumption, File!Ids
  <2>12. v5' \in Seq(File!Ids) /\ v6' \in [left : 0..16, todo : Seq(File!Ids)]
    BY <1>3, <2>6, <2>8, <2>9, <2>10
  <2>13. File!TopologyTypeOK'
    BY <1>0, <1>1, <2>8, <2>11, <2>12 DEF File!TopologyTypeOK
  <2>14. File!Unrolled(k + 1)'
    <3>1. k + 1 # 1 /\ (k + 1) - 1 = k /\ v6'.todo = SubSeq(rc, k + 1, Len(rc)) BY <2>5, <2>9
    <3>2. v7' = File!Makes(NodeKinds[rc[(k + 1) - 1]]) BY <2>6, <2>8, <3>1
    <3>3. QED BY <1>2, <3>1, <3>2 DEF File!Unrolled, rc
  <2>15. k + 1 \in 1..(Len(rc') + 1)
    BY <1>2, <2>5
  <2>16. File!JudgeRan => File!JudgeRan'
    <3> SUFFICES ASSUME NEW i \in 1..Len(v5), NodeKinds[v5[i]] = "evaluate" PROVE File!JudgeRan'
      BY DEF File!JudgeRan
    <3>1. v5'[i] = v5[i] /\ i \in 1..Len(v5') BY <1>3, <2>6, <2>8
    <3>2. QED BY <3>1 DEF File!JudgeRan
  <2>17. v6'.todo = <<>> => File!EndsOnJudge'
    <3>1. SUFFICES ASSUME SubSeq(rc, k + 1, Len(rc)) = <<>> PROVE File!EndsOnJudge'
      BY <2>9
    <3>2. k = Len(rc)
      BY <1>2, <2>5, <3>1
    <3>3. NodeKinds[n] = "evaluate"
      BY <1>1, <2>6, <3>2, RepairChainFits DEF rc
    <3>4. v5' # <<>> /\ v5'[Len(v5')] = n
      BY <1>3, <2>6, <2>8
    <3>5. QED
      BY <3>3, <3>4 DEF File!EndsOnJudge
  <2>18. QED
    BY <1>0, <1>1, <1>4, <2>8, <2>13, <2>14, <2>15, <2>16, <2>17, FileStays
       DEF File!TopologyInv, File!LoopIsClosed, rc
<1>7. CASE File!EndOfRun
  <2>1. v1' = "done" /\ UNCHANGED <<v5, v6, v7>>
    BY <1>7 DEF File!EndOfRun
  <2>2. File!JudgeRan' = File!JudgeRan /\ File!LoopIsClosed' = File!LoopIsClosed
    BY <1>0, <2>1 DEF File!JudgeRan, File!LoopIsClosed, File!EndsOnJudge, File!RanSet
  <2>3. File!Chained => File!LoopIsClosed
    BY <1>0, <1>7 DEF File!TopologyInv, File!EndOfRun
  <2>4. QED
    BY <1>0, <1>1, <1>4, <2>1, <2>2, <2>3, FileStays DEF File!TopologyInv, File!TopologyTypeOK
<1>8. QED
  BY <1>5, <1>6, <1>7

\* The invariant holds at the start.
LEMMA TopologyInitHolds ==
  ASSUME File!TopologyInit
  PROVE  File!TopologyInv
<1>1. v4 = <<>> /\ v5 = <<>> /\ v6 = [left |-> 0, todo |-> <<>>] /\ v1 = "writing" /\ v7 = "TaskInput"
  BY DEF File!TopologyInit
<1>2. v5 \in Seq(File!Ids) /\ v6 \in [left : 0..16, todo : Seq(File!Ids)] /\ DOMAIN v4 = {}
  BY <1>1
<1>3. QED
  BY <1>1, <1>2 DEF File!TopologyInit, File!TopologyInv, File!TopologyTypeOK, File!Payloads

\* Every step keeps it.
LEMMA TopologyStepHolds ==
  ASSUME File!TopologyAssumption, File!TopologyInv, File!TopologyNext \/ UNCHANGED slots
  PROVE  File!TopologyInv'
<1>1. CASE UNCHANGED slots
  BY <1>1, FileStays DEF slots, File!TopologyInv, File!TopologyTypeOK, File!Walked, File!RanSet, File!Unrolled,
    File!JudgeRan, File!LoopIsClosed, File!EndsOnJudge
<1>2. CASE File!TopologyNext
  BY <1>2, FileHolds, WalkHolds, EndOfChainHolds, RepairHolds DEF File!TopologyNext
<1>3. QED
  BY <1>1, <1>2

\* A walk of a topology keeps what its end rests on.
LEMMA TopologyInvariant == Spec => [](subject = "topology" => File!TopologyInv)
<1> DEFINE Inv == subject = "topology" => File!TopologyInv
<1> USE PartsAssumption DEF PartsAssumption
<1>1. Init => Inv
  BY TopologyInitHolds DEF Init, SlotsInit
<1>2. Inv /\ [Next]_partsVars => Inv'
  <2> SUFFICES ASSUME File!TopologyInv, File!TopologyNext \/ UNCHANGED slots
               PROVE  File!TopologyInv'
    BY DEF Next, SlotsNext, partsVars, slots
  <2>1. QED
    BY TopologyStepHolds
<1>3. QED
  BY <1>1, <1>2, PTL DEF Spec

\* A chain the validator accepts meets no payload of another type and passes a judge, and one
\* whose repair block starts at a node of the chain ends on a judge, for any nodes, edges and
\* blocks (validate_topology, execute).
THEOREM ChainsAreJudged == Spec => []AcceptedChainIsJudged
<1>1. (subject = "topology" => File!TopologyInv) => AcceptedChainIsJudged
  BY DEF AcceptedChainIsJudged, File!AcceptedChainIsJudged, File!TopologyInv
<1>2. QED
  BY <1>1, TopologyInvariant, PTL

-----------------------------------------------------------------------------
(* Prompts (v1 library, v2 params, v3 at, v4 payload, v5 prompt, v6        *)
(* justifying, v7 heard, v8 rounds, v9 reply, v10 writes, v11 clobbered,   *)
(* v12 widened, v13 iteration): the operator speaks alone and effects      *)
(* are licensed.                                                           *)
(* What the payload carries on as the operator's is the operator's, the    *)
(* policy is told of what was heard, and an edit without a name is bound   *)
(* to no test.                                                             *)

\* a block as a role's sources give it: nothing of them is untrusted
Told == [source : Talk!BlockNames, label : Talk!Labels \ {"UNTRUSTED_EXTERNAL"}, by : SUBSET Talk!Authors]

\* What a role's sources show under OPERATOR is the operator's.
LEMMA SourcesAreLabelled ==
  ASSUME v4 \in Talk!Payload, NEW role \in Talk!Roles, NEW s \in Talk!SourcesOf[role]
  PROVE  /\ Talk!FromSource[s] \subseteq Told
         /\ Talk!OperatorsAlone =>
              \A b \in Talk!FromSource[s] : b.label = "OPERATOR" => b.by = {"operator"}
<1> DEFINE Speaks(b) == b.label = "OPERATOR" => b.by = {"operator"}
<1>1. v4.instructions \subseteq Talk!Authors /\ v4.task \subseteq Talk!Authors
  BY DEF Talk!Payload
<1>2. Talk!Instructions \subseteq Talk!Authors /\ (Talk!OperatorsAlone => Talk!Instructions = {"operator"})
  BY <1>1 DEF Talk!Instructions, Talk!OperatorsAlone
<1>3. Talk!GateDetail \subseteq Talk!Authors
  BY DEF Talk!GateDetail, Talk!Authors
<1>4. s \in {"instructions", "plan", "entry_files", "current_files", "previous_attempt", "gate_output"}
  BY DEF Talk!SourcesOf, Talk!Roles
<1>5. CASE s = "instructions"
  <2>1. Talk!FromSource[s] = {Talk!Block("instructions", "OPERATOR", Talk!Instructions)}
    BY <1>5 DEF Talk!FromSource
  <2>2. QED
    BY <1>2, <2>1 DEF Talk!Block, Talk!Labels, Told, Talk!BlockNames
<1>6. CASE s # "instructions"
  <2>1. \A b \in Talk!FromSource[s] :
           \E source \in Talk!BlockNames, by \in SUBSET Talk!Authors : b = Talk!Block(source, "AGENT", by)
    <3>1. Talk!EntryFiles = {} BY DEF Talk!EntryFiles
    <3>2. {"model"} \in SUBSET Talk!Authors BY DEF Talk!Authors
    <3>3. QED BY <1>3, <1>4, <1>6, <3>1, <3>2 DEF Talk!FromSource, Talk!BlockNames
  <2>2. QED
    BY <2>1 DEF Talk!Block, Talk!Labels, Told
<1>7. QED
  BY <1>5, <1>6

\* The blocks of a call bear labels of their own, none of them untrusted, and in the roles the
\* operator's is on what the operator wrote.
LEMMA ComposedIsLabelled ==
  ASSUME v4 \in Talk!Payload, NEW role \in Talk!Roles, v1 \in {"roles", "steps"}
  PROVE  /\ Talk!Composed(role) \subseteq Told
         /\ v1 = "roles" /\ Talk!OperatorsAlone =>
              \A b \in Talk!Composed(role) : b.label = "OPERATOR" => b.by = {"operator"}
<1>1. v4.instructions \subseteq Talk!Authors /\ v4.task \subseteq Talk!Authors
  BY DEF Talk!Payload
<1>2. Talk!Block("system", "TRUSTED_SYSTEM", {"operator"}) \in Told
  BY DEF Talk!Block, Told, Talk!BlockNames, Talk!Labels, Talk!Authors
<1>3. Talk!Block("system", "TRUSTED_SYSTEM", {"operator"}).label # "OPERATOR"
  BY DEF Talk!Block
<1>4. CASE v1 = "roles"
  <2>1. Talk!Composed(role) = {Talk!Block("system", "TRUSTED_SYSTEM", {"operator"})} \cup
                              UNION {Talk!FromSource[s] : s \in Talk!SourcesOf[role]}
    BY <1>4 DEF Talk!Composed
  <2>2. QED
    BY <1>2, <1>3, <2>1, SourcesAreLabelled
<1>5. CASE v1 # "roles"
  <2>1. Talk!Composed(role) = {Talk!Block("system", "TRUSTED_SYSTEM", {"operator"})} \cup Talk!StepBlocks(role)
    BY <1>5 DEF Talk!Composed
  <2>2. Talk!FileSpans \subseteq Told
    BY <1>1 DEF Talk!FileSpans, Talk!Block, Told, Talk!BlockNames, Talk!Labels, Talk!Authors
  <2>3. Talk!RepairText \subseteq Talk!Authors
    BY <1>1 DEF Talk!RepairText, Talk!Authors
  <2>4. Talk!Block("repair", "AGENT", Talk!RepairText) \in Told
    BY <2>3 DEF Talk!Block, Told, Talk!BlockNames, Talk!Labels
  <2>5. Talk!Block("reflector", "AGENT", {"tests", "model"}) \in Told
    BY DEF Talk!Block, Told, Talk!BlockNames, Talk!Labels, Talk!Authors
  <2>6. Talk!StepBlocks(role) \subseteq Told
    BY <2>2, <2>4, <2>5 DEF Talk!StepBlocks, Talk!Roles
  <2>7. QED
    BY <1>2, <1>5, <2>1, <2>6
<1>6. QED
  BY <1>4, <1>5

\* A model call keeps the invariant.
LEMMA AskHolds ==
  ASSUME Talk!PromptsAssumption, Talk!PromptsInv, NEW role \in Talk!Roles, Talk!Ask(role)
  PROVE  Talk!PromptsInv'
<1> DEFINE labels == {b.label : b \in Talk!Composed(role)}
<1>1. v1 \in {"roles", "steps"} /\ v4 \in Talk!Payload /\ Talk!PromptsTypeOK
  BY DEF Talk!PromptsInv, Talk!PromptsTypeOK
<1>2. v5' = Talk!Composed(role) /\ v7' = labels /\ v6' \subseteq labels /\ v3' = "ask"
  BY DEF Talk!Ask
<1>3. v8' = [begun |-> 1, calls |-> 0, role |-> role] /\ UNCHANGED <<v1, v2, v4, v9, v10, v11, v12, v13>>
  BY DEF Talk!Ask
<1>4. Talk!Composed(role) \subseteq Told
  BY <1>1, ComposedIsLabelled
<1>5. labels \subseteq Talk!Labels /\ "UNTRUSTED_EXTERNAL" \notin labels
  BY <1>4 DEF Told
<1>6. Talk!Composed(role) \subseteq [source : Talk!BlockNames, label : Talk!Labels, by : SUBSET Talk!Authors]
  BY <1>4 DEF Told
<1>7. v8' \in [begun : 0..MaxRounds, calls : 0..MaxToolCalls, role : Talk!Roles]
  BY <1>3 DEF Talk!PromptsAssumption
<1>8. Talk!PromptsTypeOK'
  <2> HIDE DEF labels
  <2>1. v3' \in Talk!Roles \cup {"retrieve", "next", "ask", "tools", "apply", "write", "evaluate", "over", "raised"}
    BY <1>2
  <2>2. QED BY <1>1, <1>2, <1>3, <1>5, <1>6, <1>7, <2>1 DEF Talk!PromptsTypeOK
<1>9. Talk!OperatorSpeaksAlone'
  BY <1>1, <1>2, <1>3, ComposedIsLabelled DEF Talk!PromptsInv, Talk!OperatorSpeaksAlone
<1>10. Talk!HearingJustifies'
  BY <1>2, <1>5 DEF Talk!HearingJustifies
<1>11. QED
  BY <1>3, <1>8, <1>9, <1>10 DEF Talk!PromptsInv, Talk!EffectsAreLicensed, Talk!WideningIsClean,
    Talk!TestsAreNotClobbered, Talk!OperatorsAlone

\* What a reply makes of the payload is a payload, and in the roles what it carries on as the
\* operator's stays the operator's.
LEMMA FoldedKeeps ==
  ASSUME v4 \in Talk!Payload, NEW role \in Talk!Roles, NEW error \in BOOLEAN, v1 \in {"roles", "steps"}
  PROVE  /\ Talk!Folded(role, error) \in Talk!Payload
         /\ v1 = "roles" /\ Talk!OperatorsAlone =>
              /\ Talk!Folded(role, error).task = {"operator"}
              /\ Talk!Folded(role, error).instructions \subseteq {"operator"}
<1>1. /\ Talk!Unread(error) \in Talk!Payload
      /\ Talk!Unread(error).task = v4.task /\ Talk!Unread(error).instructions = {}
  BY DEF Talk!Unread, Talk!Payload
<1>2. /\ [v4 EXCEPT !.plan = TRUE] \in Talk!Payload
      /\ [v4 EXCEPT !.plan = TRUE].task = v4.task
      /\ [v4 EXCEPT !.plan = TRUE].instructions = v4.instructions
  BY DEF Talk!Payload
<1>3. /\ [v4 EXCEPT !.instructions = @ \cup {"model"}] \in Talk!Payload
      /\ [v4 EXCEPT !.task = @ \cup {"model"}] \in Talk!Payload
  <2>1. {"model"} \subseteq Talk!Authors BY DEF Talk!Authors
  <2>2. QED BY <2>1 DEF Talk!Payload
<1>4. QED
  BY <1>1, <1>2, <1>3 DEF Talk!Folded, Talk!StepFolded, Talk!OperatorsAlone, Talk!Roles

\* A reply keeps the invariant.
LEMMA ReplyHolds ==
  ASSUME Talk!PromptsInv, NEW r \in Replies, NEW error \in BOOLEAN, Talk!Reply(r, error)
  PROVE  Talk!PromptsInv'
<1>1. v1 \in {"roles", "steps"} /\ v4 \in Talk!Payload /\ Talk!PromptsTypeOK /\ v8.role \in Talk!Roles
  BY DEF Talk!PromptsInv, Talk!PromptsTypeOK
<1>2. v4' = Talk!Folded(v8.role, error) /\ v5' = {} /\ v3' = Talk!AfterRole[v8.role] /\ v9' \in {r, v9}
  BY DEF Talk!Reply, Talk!Conclude
<1>3. UNCHANGED <<v1, v2, v6, v7, v8, v10, v11, v12, v13>>
  BY DEF Talk!Reply
<1>4. v4' \in Talk!Payload /\ (v1 = "roles" => Talk!OperatorsAlone')
  BY <1>1, <1>2, FoldedKeeps DEF Talk!PromptsInv, Talk!OperatorsAlone
<1>5. v3' \in Talk!Roles \cup {"retrieve", "next", "ask", "tools", "apply", "write", "evaluate", "over", "raised"}
  BY <1>1, <1>2 DEF Talk!AfterRole, Talk!Roles
<1>6. v9' \in Replies \cup {Talk!NoReply}
  BY <1>1, <1>2 DEF Talk!PromptsTypeOK
<1>7. Talk!PromptsTypeOK'
  BY <1>1, <1>2, <1>3, <1>4, <1>5, <1>6 DEF Talk!PromptsTypeOK
<1>8. QED
  BY <1>2, <1>3, <1>4, <1>7 DEF Talk!PromptsInv, Talk!OperatorSpeaksAlone, Talk!EffectsAreLicensed,
    Talk!WideningIsClean, Talk!TestsAreNotClobbered, Talk!HearingJustifies

\* The tool rounds keep the invariant: what was heard of a tool justifies the next call, which
\* is refused.
LEMMA ToolsHold ==
  ASSUME Talk!PromptsAssumption, Talk!PromptsInv,
         (\E calls \in 1..MaxToolCalls : Talk!CallTools(calls)) \/ Talk!UseTool \/ Talk!RefuseTool \/ Talk!NextRound
  PROVE  Talk!PromptsInv'
<1>1. UNCHANGED <<v1, v2, v4, v5, v9, v10, v11, v13>>
  BY DEF Talk!CallTools, Talk!UseTool, Talk!RefuseTool, Talk!NextRound
<1>2. v8 \in [begun : 0..MaxRounds, calls : 0..MaxToolCalls, role : Talk!Roles]
      /\ v6 \subseteq Talk!Labels /\ v7 \subseteq Talk!Labels /\ v12 = FALSE /\ Talk!HearingJustifies
  BY DEF Talk!PromptsInv, Talk!PromptsTypeOK, Talk!EffectsAreLicensed, Talk!WideningIsClean
<1>3. MaxToolCalls \in Nat /\ MaxRounds \in Nat
  BY DEF Talk!PromptsAssumption
<1>4. v8' \in [begun : 0..MaxRounds, calls : 0..MaxToolCalls, role : Talk!Roles]
  BY <1>2, <1>3 DEF Talk!CallTools, Talk!UseTool, Talk!RefuseTool, Talk!NextRound
<1>5. v3' \in {"ask", "tools", "raised"}
  BY DEF Talk!CallTools, Talk!UseTool, Talk!RefuseTool, Talk!NextRound
<1>6. v6' \subseteq Talk!Labels /\ v7' \subseteq Talk!Labels /\ v12' = FALSE /\ Talk!HearingJustifies'
  <2>1. CASE Talk!UseTool
    <3>1. "UNTRUSTED_EXTERNAL" \notin v7 BY <1>2, <2>1 DEF Talk!UseTool, Talk!HearingJustifies
    <3>2. QED
      BY <1>2, <2>1, <3>1 DEF Talk!UseTool, Talk!JustifyingAfter, Talk!HearingJustifies, Talk!Labels
  <2>2. CASE ~Talk!UseTool
    <3>1. UNCHANGED <<v6, v7, v12>>
      BY <2>2 DEF Talk!CallTools, Talk!RefuseTool, Talk!NextRound
    <3>2. QED
      BY <1>2, <3>1 DEF Talk!HearingJustifies
  <2>3. QED
    BY <2>1, <2>2
<1>7. Talk!PromptsTypeOK'
  <2>1. v3' \in Talk!Roles \cup {"retrieve", "next", "ask", "tools", "apply", "write", "evaluate", "over", "raised"}
    BY <1>5
  <2>2. QED
    BY <1>1, <1>4, <1>6, <2>1 DEF Talk!PromptsInv, Talk!PromptsTypeOK
<1>8. QED
  BY <1>1, <1>6, <1>7 DEF Talk!PromptsInv, Talk!OperatorSpeaksAlone, Talk!OperatorsAlone,
    Talk!EffectsAreLicensed, Talk!WideningIsClean, Talk!TestsAreNotClobbered

\* What a reply is parsed into names its file, or is bound to one that is not a test.
LEMMA ParsedIsEligible ==
  ASSUME Talk!PromptsAssumption, Talk!PromptsTypeOK
  PROVE  /\ Talk!Parsed.edits \subseteq [file : Entries, named : BOOLEAN]
         /\ \A w \in Talk!Parsed.edits : w.named \/ w.file \notin Tests
<1>1. v9.plain \subseteq Talk!Fences /\ v9.labelled \subseteq Talk!Fences /\ v4.files \subseteq Entries
  BY DEF Talk!PromptsTypeOK, Talk!PromptsAssumption, Talk!NoReply, Talk!Payload
<1>2. \A b \in Talk!Fences : Talk!Edit(b) \in [file : Entries, named : {TRUE}]
  BY DEF Talk!Fences, Talk!Edit
<1>3. \A f \in Talk!Eligible : f \in Entries /\ f \notin Tests
  BY <1>1 DEF Talk!Eligible
<1>4. \A w \in Talk!ParsedBlocks.edits :
         \/ \E b \in Talk!Fences : w = Talk!Edit(b)
         \/ \E f \in Talk!Eligible : w = [file |-> f, named |-> FALSE]
  BY <1>1 DEF Talk!ParsedBlocks
<1>5. Talk!WithoutDiff.edits = {}
  BY DEF Talk!WithoutDiff
<1>6. \A w \in Talk!Parsed.edits : w \in Talk!ParsedBlocks.edits
  BY <1>5 DEF Talk!Parsed
<1>7. \A w \in Talk!Parsed.edits : w \in [file : Entries, named : BOOLEAN] /\ (w.named \/ w.file \notin Tests)
  <2> TAKE w \in Talk!Parsed.edits
  <2>1. CASE \E b \in Talk!Fences : w = Talk!Edit(b)
    BY <1>2, <2>1
  <2>2. CASE \E f \in Talk!Eligible : w = [file |-> f, named |-> FALSE]
    BY <1>3, <2>2
  <2>3. QED
    BY <1>4, <1>6, <2>1, <2>2
<1>8. QED
  BY <1>7

\* Parsing, writing and judging a reply keep the invariant.
LEMMA EffectsHold ==
  ASSUME Talk!PromptsAssumption, Talk!PromptsInv,
         \/ Talk!Apply \/ (\E w \in v10 : Talk!WriteFile(w))
         \/ (\E applied, detail \in BOOLEAN : Talk!ApplyDiff(applied, detail))
         \/ Talk!EffectFails \/ (\E verdict \in {"PASSED", "FAILED", "NONE"} : Talk!Evaluate(verdict))
  PROVE  Talk!PromptsInv'
<1>1. UNCHANGED <<v1, v2, v5, v6, v7, v8, v9, v12>>
  BY DEF Talk!Apply, Talk!WriteFile, Talk!ApplyDiff, Talk!EffectFails, Talk!Evaluate
<1>2. v4 \in Talk!Payload /\ Talk!PromptsTypeOK
  BY DEF Talk!PromptsInv, Talk!PromptsTypeOK
<1>3. v3' \in Talk!Roles \cup {"retrieve", "next", "ask", "tools", "apply", "write", "evaluate", "over", "raised"}
  <2>1. v3' \in {"apply", "evaluate", "write", "raised", "over", "reflector", "repair"} \cup {v3}
    BY DEF Talk!Apply, Talk!WriteFile, Talk!ApplyDiff, Talk!EffectFails, Talk!Evaluate
  <2>2. v3 \in Talk!Roles \cup {"retrieve", "next", "ask", "tools", "apply", "write", "evaluate", "over", "raised"}
    BY <1>2 DEF Talk!PromptsTypeOK
  <2>3. QED
    BY <2>1, <2>2 DEF Talk!Roles
<1>4. v4' \in Talk!Payload /\ v4'.task = v4.task /\ v4'.instructions = v4.instructions
  <2>1. CASE Talk!Apply
    BY <1>2, <2>1 DEF Talk!Apply, Talk!Payload
  <2>2. CASE UNCHANGED v4
    BY <1>2, <2>2
  <2>3. ASSUME NEW applied \in BOOLEAN, NEW detail \in BOOLEAN, Talk!ApplyDiff(applied, detail)
        PROVE  v4' \in Talk!Payload /\ v4'.task = v4.task /\ v4'.instructions = v4.instructions
    BY <1>2, <2>3 DEF Talk!ApplyDiff, Talk!Payload
  <2>4. ASSUME NEW verdict \in {"PASSED", "FAILED", "NONE"}, Talk!Evaluate(verdict)
        PROVE  v4' \in Talk!Payload /\ v4'.task = v4.task /\ v4'.instructions = v4.instructions
    BY <1>2, <2>4 DEF Talk!Evaluate, Talk!Payload
  <2>5. QED
    BY <2>1, <2>2, <2>3, <2>4 DEF Talk!WriteFile, Talk!EffectFails
<1>5. v13' \in 0..MaxIterations
  <2>1. v13 \in 0..MaxIterations /\ MaxIterations \in Nat
    BY <1>2 DEF Talk!PromptsTypeOK, Talk!PromptsAssumption
  <2>2. v13' = v13 \/ (v13 < MaxIterations /\ v13' = v13 + 1)
    BY DEF Talk!Apply, Talk!WriteFile, Talk!ApplyDiff, Talk!EffectFails, Talk!Evaluate
  <2>3. QED
    BY <2>1, <2>2
<1>6. /\ v10' \subseteq [file : Entries, named : BOOLEAN] /\ v11' \subseteq Entries
      /\ v11' \cap Tests = {} /\ \A w \in v10' : w.named \/ w.file \notin Tests
  <2>1. /\ v10 \subseteq [file : Entries, named : BOOLEAN] /\ v11 \subseteq Entries
        /\ v11 \cap Tests = {} /\ \A w \in v10 : w.named \/ w.file \notin Tests
    BY <1>2 DEF Talk!PromptsInv, Talk!PromptsTypeOK, Talk!EffectsAreLicensed, Talk!TestsAreNotClobbered
  <2>2. CASE Talk!Apply
    <3>1. v11' = v11 /\ (v10' = {} \/ v10' = Talk!Parsed.edits)
      BY <2>2 DEF Talk!Apply
    <3>2. QED
      BY <1>2, <2>1, <3>1, ParsedIsEligible
  <2>3. ASSUME NEW w \in v10, Talk!WriteFile(w)
        PROVE  /\ v10' \subseteq [file : Entries, named : BOOLEAN] /\ v11' \subseteq Entries
               /\ v11' \cap Tests = {} /\ \A x \in v10' : x.named \/ x.file \notin Tests
    BY <2>1, <2>3 DEF Talk!WriteFile
  <2>4. CASE UNCHANGED <<v10, v11>>
    BY <2>1, <2>4
  <2>5. QED
    BY <2>2, <2>3, <2>4 DEF Talk!ApplyDiff, Talk!EffectFails, Talk!Evaluate
<1>7. Talk!PromptsTypeOK'
  BY <1>1, <1>2, <1>3, <1>4, <1>5, <1>6 DEF Talk!PromptsTypeOK
<1>8. QED
  BY <1>1, <1>4, <1>6, <1>7 DEF Talk!PromptsInv, Talk!OperatorSpeaksAlone, Talk!OperatorsAlone,
    Talk!EffectsAreLicensed, Talk!WideningIsClean, Talk!TestsAreNotClobbered, Talk!HearingJustifies

\* The first node keeps the invariant.
LEMMA RetrieveHolds ==
  ASSUME Talk!PromptsInv, NEW shown \in SUBSET Entries, Talk!Retrieve(shown)
  PROVE  Talk!PromptsInv'
<1>1. UNCHANGED <<v1, v2, v5, v6, v7, v8, v9, v10, v11, v12, v13>> /\ v3' \in Talk!Roles
  BY DEF Talk!Retrieve, Talk!Roles
<1>2. v4 \in Talk!Payload
  BY DEF Talk!PromptsInv, Talk!PromptsTypeOK
<1>3. v4' \in Talk!Payload /\ v4'.task = v4.task /\ v4'.instructions = v4.task
  BY <1>2 DEF Talk!Retrieve, Talk!Payload
<1>4. Talk!PromptsTypeOK'
  BY <1>1, <1>3 DEF Talk!PromptsInv, Talk!PromptsTypeOK
<1>5. QED
  BY <1>1, <1>3, <1>4 DEF Talk!PromptsInv, Talk!OperatorSpeaksAlone, Talk!OperatorsAlone,
    Talk!EffectsAreLicensed, Talk!WideningIsClean, Talk!TestsAreNotClobbered, Talk!HearingJustifies

\* The invariant holds at the start.
LEMMA PromptsInitHolds ==
  ASSUME Talk!PromptsAssumption, Talk!PromptsInit
  PROVE  Talk!PromptsInv
<1>1. v4 \in Talk!Payload
  BY DEF Talk!PromptsInit, Talk!Payload, Talk!Authors
<1>2. v8 \in [begun : 0..MaxRounds, calls : 0..MaxToolCalls, role : Talk!Roles] /\ v13 \in 0..MaxIterations
  BY DEF Talk!PromptsInit, Talk!PromptsAssumption, Talk!Roles
<1>3. Talk!PromptsTypeOK
  BY <1>1, <1>2 DEF Talk!PromptsInit, Talk!PromptsTypeOK
<1>4. QED
  BY <1>3 DEF Talk!PromptsInit, Talk!PromptsInv, Talk!OperatorSpeaksAlone, Talk!OperatorsAlone,
    Talk!EffectsAreLicensed, Talk!WideningIsClean, Talk!TestsAreNotClobbered, Talk!HearingJustifies

\* Every step keeps it.
LEMMA PromptsStepHolds ==
  ASSUME Talk!PromptsAssumption, Talk!PromptsInv, Talk!PromptsNext \/ UNCHANGED slots
  PROVE  Talk!PromptsInv'
<1>1. CASE UNCHANGED slots
  BY <1>1 DEF slots, Talk!PromptsInv, Talk!PromptsTypeOK, Talk!OperatorSpeaksAlone, Talk!OperatorsAlone,
    Talk!EffectsAreLicensed, Talk!WideningIsClean, Talk!TestsAreNotClobbered, Talk!HearingJustifies
<1>2. CASE Talk!PromptsNext
  BY <1>2, RetrieveHolds, AskHolds, ReplyHolds, ToolsHold, EffectsHold DEF Talk!PromptsNext
<1>3. QED
  BY <1>1, <1>2

\* A prompt keeps what its labels and its effects rest on.
LEMMA PromptsInvariant == Spec => [](subject = "prompts" => Talk!PromptsInv)
<1> DEFINE Inv == subject = "prompts" => Talk!PromptsInv
<1> USE PartsAssumption DEF PartsAssumption
<1>1. Init => Inv
  BY PromptsInitHolds DEF Init, SlotsInit
<1>2. Inv /\ [Next]_partsVars => Inv'
  <2> SUFFICES ASSUME Talk!PromptsInv, Talk!PromptsNext \/ UNCHANGED slots
               PROVE  Talk!PromptsInv'
    BY DEF Next, SlotsNext, partsVars, slots
  <2>1. QED
    BY PromptsStepHolds
<1>3. QED
  BY <1>1, <1>2, PTL DEF Spec

\* What a prompt shows as the operator's was written by the operator, and no tool runs after
\* untrusted text nor is a test overwritten by a block without a name (PlanSource,
\* DefaultPolicyEngine, WholeFileCodeblockFormat).
LEMMA Licences == Spec => [](OperatorSpeaksAlone /\ EffectsAreLicensed)
<1>1. (subject = "prompts" => Talk!PromptsInv) => OperatorSpeaksAlone /\ EffectsAreLicensed
  BY DEF OperatorSpeaksAlone, EffectsAreLicensed, Talk!PromptsInv
<1>2. QED
  BY <1>1, PromptsInvariant, PTL

\* What a prompt shows as the operator's was written by the operator (PlanSource, I11).
THEOREM OperatorsSpeakAlone == Spec => []OperatorSpeaksAlone
BY Licences, PTL

\* No tool after untrusted text, and no test overwritten by a block without a name
\* (DefaultPolicyEngine, WholeFileCodeblockFormat).
THEOREM LicensedEffects == Spec => []EffectsAreLicensed
BY Licences, PTL

-----------------------------------------------------------------------------
(* Campaign (v1 screening, v2 shape, v3 canary, v4 manifest, v5 builds,    *)
(* v6 family, v7 floor, v8 report, v9 floors): a published noise floor     *)
(* is sound.                                                               *)
(* A manifest holds tasks that were admitted, a run of the floor follows   *)
(* it task by task, one arm after the other, and the pairs, discordance    *)
(* and rates of a report count measured outcomes.                          *)

\* Cardinality is the same wherever it is named.
LEMMA CampaignCardinality ==
  ASSUME NEW S
  PROVE  Measurement!Cardinality(S) = Cardinality(S)
BY DEF Measurement!Cardinality, Cardinality

\* A set of places in an arm is finite, and a part of it is no larger.
LEMMA CampaignCounts ==
  ASSUME NEW n \in Nat, NEW T \in SUBSET (1..n), NEW S \in SUBSET T
  PROVE  /\ Measurement!Cardinality(S) \in Nat /\ Measurement!Cardinality(T) \in Nat
         /\ Measurement!Cardinality(S) <= Measurement!Cardinality(T)
<1>1. IsFiniteSet(1..n)
  BY FS_Interval
<1>2. IsFiniteSet(T)
  BY <1>1, FS_Subset
<1>3. IsFiniteSet(S) /\ Cardinality(S) <= Cardinality(T)
  BY <1>2, FS_Subset
<1>4. Cardinality(S) \in Nat /\ Cardinality(T) \in Nat
  BY <1>2, <1>3, FS_CardinalityType
<1>5. QED
  BY <1>3, <1>4, CampaignCardinality

\* What the suites say of their tasks.
LEMMA CampaignSuites ==
  ASSUME Measurement!CampaignAssumption, NEW s \in Shapes
  PROVE  /\ Measurement!Suite(s).repeats \in Nat \ {0}
         /\ Measurement!Suite(s).stated \in BOOLEAN
         /\ Measurement!Suite(s).stated => Measurement!Suite(s).guarded
<1>1. s \in {"single_bug", "medium", "playlist"} /\ Repeats \in Nat \ {0}
  BY DEF Measurement!CampaignAssumption
<1>2. CASE s = "single_bug"
  <2>1. Measurement!Suite(s) = Measurement!SingleBug BY <1>2 DEF Measurement!Suite
  <2>2. QED BY <1>1, <2>1 DEF Measurement!SingleBug
<1>3. CASE s = "medium"
  <2>1. Measurement!Suite(s) = Measurement!Medium BY <1>3 DEF Measurement!Suite
  <2>2. QED BY <1>1, <2>1 DEF Measurement!Medium
<1>4. CASE s = "playlist"
  <2>1. Measurement!Suite(s) = Measurement!Playlist BY <1>4 DEF Measurement!Suite
  <2>2. QED BY <1>1, <2>1 DEF Measurement!Playlist
<1>5. QED
  BY <1>1, <1>2, <1>3, <1>4

\* The two exit codes that are a verdict.
LEMMA CampaignStatuses ==
  ASSUME NEW o
  PROVE  /\ Measurement!Status(o) = "PASSED" <=> o = "exit 0"
         /\ Measurement!Status(o) = "FAILED" <=> o = "exit 1"
BY DEF Measurement!Status

\* What an appended sequence is made of.
LEMMA CampaignAppended ==
  ASSUME NEW S, NEW s \in Seq(S), NEW e \in S
  PROVE  /\ Append(s, e) \in Seq(S) /\ Len(Append(s, e)) = Len(s) + 1 /\ Append(s, e)[Len(s) + 1] = e
         /\ \A i \in 1..Len(s) : Append(s, e)[i] = s[i]
OBVIOUS

\* Sequences of the same length and elements are the same.
LEMMA CampaignSame ==
  ASSUME NEW S, NEW T, NEW s \in Seq(S), NEW t \in Seq(T), Len(s) = Len(t), \A i \in 1..Len(s) : s[i] = t[i]
  PROVE  s = t
<1>1. s \in [1..Len(s) -> S] /\ t \in [1..Len(s) -> T]
  OBVIOUS
<1>2. QED
  BY <1>1

\* The outcomes of a candidate that is admitted.
LEMMA CampaignAdmitted ==
  ASSUME NEW S, NEW outcomes \in Seq(S), NEW repeats \in Nat, Len(outcomes) <= repeats + 1,
         \A i \in 1..(Len(outcomes) - 1) : Measurement!Status(outcomes[i]) = "PASSED",
         Measurement!Reason(outcomes, repeats) = "admitted"
  PROVE  outcomes = Append([i \in 1..repeats |-> "exit 0"], "exit 1")
<1>1. Len(outcomes) = repeats + 1 /\ Measurement!Status(Measurement!Last(outcomes)) = "FAILED"
  BY DEF Measurement!Reason
<1>2. outcomes[repeats + 1] = "exit 1" /\ \A i \in 1..repeats : outcomes[i] = "exit 0"
  <2>1. Measurement!Last(outcomes) = outcomes[repeats + 1]
    BY <1>1 DEF Measurement!Last
  <2>2. Len(outcomes) - 1 = repeats
    BY <1>1
  <2>3. QED
    BY <1>1, <2>1, <2>2, CampaignStatuses
<1> DEFINE ok == [i \in 1..repeats |-> "exit 0"]
           E == {"exit 0", "exit 1"}
           all == Append(ok, "exit 1")
<1>3. ok \in Seq(E) /\ Len(ok) = repeats
  OBVIOUS
<1>4. "exit 1" \in E /\ \A i \in 1..repeats : ok[i] = "exit 0"
  OBVIOUS
<1> HIDE DEF ok, E
<1>5. /\ all \in Seq(E) /\ Len(all) = repeats + 1
      /\ all[repeats + 1] = "exit 1" /\ \A i \in 1..repeats : all[i] = "exit 0"
  <2> DEFINE e == "exit 1"
  <2>1. e \in E
    BY <1>4
  <2> HIDE DEF e
  <2>2. /\ Append(ok, e) \in Seq(E) /\ Len(Append(ok, e)) = Len(ok) + 1 /\ Append(ok, e)[Len(ok) + 1] = e
        /\ \A i \in 1..Len(ok) : Append(ok, e)[i] = ok[i]
    BY <1>3, <2>1, CampaignAppended
  <2>3. QED
    BY <1>3, <1>4, <2>2 DEF e
<1> HIDE DEF all
<1>6. all \in Seq(E) /\ Len(all) = Len(outcomes) /\ \A i \in 1..Len(outcomes) : all[i] = outcomes[i]
  <2>1. \A i \in 1..(repeats + 1) : i \in 1..repeats \/ i = repeats + 1
    OBVIOUS
  <2>2. QED
    BY <1>1, <1>2, <1>5, <2>1
<1>7. outcomes = all
  BY <1>6, CampaignSame
<1>8. QED
  BY <1>7 DEF all, ok

\* What a report counts, and of which outcomes.
LEMMA CampaignReports ==
  ASSUME NEW f, f.arms \in [1..2 -> Seq(Measurement!Statuses)], Len(f.arms[1]) = Len(f.arms[2])
  PROVE  Measurement!CountsAreMeasured(Measurement!ReportOf(f))
<1> DEFINE arms == f.arms
           n == Len(arms[1])
           pairs == Measurement!MeasuredPairs(arms)
           r == Measurement!ReportOf(f)
           Differ(X, Y) == Measurement!Cardinality({i \in DOMAIN arms[1] : arms[1][i] \in X /\ arms[2][i] \in Y})
           unresolved == {"FAILED", "NONE"}
<1>1. /\ n \in Nat /\ DOMAIN arms[1] = 1..n /\ DOMAIN arms[2] = 1..n
      /\ \A i \in 1..n : arms[1][i] \in {"PASSED", "FAILED", "NONE"} /\ arms[2][i] \in {"PASSED", "FAILED", "NONE"}
  <2>1. arms[1] \in Seq(Measurement!Statuses) /\ arms[2] \in Seq(Measurement!Statuses)
    OBVIOUS
  <2>2. QED
    BY <2>1 DEF Measurement!Statuses
<1>2. /\ r.floor = f /\ r.n = Measurement!Cardinality(pairs) /\ r.dropped = n - Measurement!Cardinality(pairs)
      /\ r.discordant = Measurement!Discordant(arms, pairs)
      /\ r.tested = Measurement!Discordant(arms, DOMAIN arms[1])
      /\ \A a \in 1..2 : /\ r.resolved[a] = Measurement!Count(arms[a], {"PASSED"})
                         /\ r.measured[a] = Measurement!Count(arms[a], {"PASSED", "FAILED"})
  BY DEF Measurement!ReportOf
<1> HIDE DEF r
<1>3. pairs = {i \in 1..n : arms[1][i] # "NONE" /\ arms[2][i] # "NONE"}
  BY <1>1 DEF Measurement!MeasuredPairs, Measurement!Measured
<1>4. Measurement!Cardinality(pairs) \in Nat
  <2>1. pairs \in SUBSET (1..n) BY <1>3
  <2> HIDE DEF pairs
  <2>2. QED BY <1>1, <2>1, CampaignCounts
<1>5. r.n + r.dropped = n
  <2> HIDE DEF pairs
  <2> QED BY <1>1, <1>2, <1>4
<1>6. r.discordant = <<Differ({"PASSED"}, {"FAILED"}), Differ({"FAILED"}, {"PASSED"})>>
  <2>1. {i \in pairs : Measurement!Resolved(arms[1][i]) /\ ~Measurement!Resolved(arms[2][i])}
          = {i \in DOMAIN arms[1] : arms[1][i] \in {"PASSED"} /\ arms[2][i] \in {"FAILED"}}
    BY <1>1, <1>3 DEF Measurement!Resolved
  <2>2. {i \in pairs : ~Measurement!Resolved(arms[1][i]) /\ Measurement!Resolved(arms[2][i])}
          = {i \in DOMAIN arms[1] : arms[1][i] \in {"FAILED"} /\ arms[2][i] \in {"PASSED"}}
    BY <1>1, <1>3 DEF Measurement!Resolved
  <2>3. QED
    BY <1>2, <2>1, <2>2 DEF Measurement!Discordant
<1>6a. r.tested = <<Differ({"PASSED"}, unresolved), Differ(unresolved, {"PASSED"})>>
  <2>1. {i \in DOMAIN arms[1] : Measurement!Resolved(arms[1][i]) /\ ~Measurement!Resolved(arms[2][i])}
          = {i \in DOMAIN arms[1] : arms[1][i] \in {"PASSED"} /\ arms[2][i] \in unresolved}
    BY <1>1 DEF Measurement!Resolved
  <2>2. {i \in DOMAIN arms[1] : ~Measurement!Resolved(arms[1][i]) /\ Measurement!Resolved(arms[2][i])}
          = {i \in DOMAIN arms[1] : arms[1][i] \in unresolved /\ arms[2][i] \in {"PASSED"}}
    BY <1>1 DEF Measurement!Resolved
  <2>3. QED
    BY <1>2, <2>1, <2>2 DEF Measurement!Discordant
<1>7. ASSUME NEW a \in 1..2
      PROVE  r.resolved[a] <= r.measured[a] /\ r.n <= r.measured[a]
  <2> DEFINE passed == {i \in DOMAIN arms[a] : arms[a][i] \in {"PASSED"}}
             measured == {i \in DOMAIN arms[a] : arms[a][i] \in {"PASSED", "FAILED"}}
  <2>1. DOMAIN arms[a] = 1..n /\ \A i \in 1..n : arms[a][i] \in {"PASSED", "FAILED", "NONE"}
    BY <1>1
  <2>2. measured \in SUBSET (1..n) /\ passed \in SUBSET measured
    BY <2>1
  <2>3. pairs \in SUBSET measured
    <3>1. \A i \in pairs : i \in 1..n /\ arms[a][i] # "NONE"
      BY <1>3
    <3>2. QED
      BY <2>1, <3>1
  <2>4. r.resolved[a] = Measurement!Cardinality(passed) /\ r.measured[a] = Measurement!Cardinality(measured)
    BY <1>2 DEF Measurement!Count
  <2> HIDE DEF passed, measured, pairs
  <2>5. QED
    BY <1>1, <1>2, <2>2, <2>3, <2>4, CampaignCounts
<1>8. QED
  BY <1>2, <1>5, <1>6, <1>6a, <1>7 DEF Measurement!CountsAreMeasured, r

\* Two arms.
LEMMA CampaignPair ==
  ASSUME NEW S, NEW a \in S, NEW b \in S
  PROVE  <<a, b>> \in [1..2 -> S] /\ <<a, b>>[1] = a /\ <<a, b>>[2] = b
OBVIOUS

\* What is counted of a running floor is finite.
LEMMA CampaignFloorTasks ==
  ASSUME Measurement!CampaignAssumption, NEW m, NEW split, NEW limit
  PROVE  Measurement!Cardinality(Measurement!Limited(m, split, limit)) \in Nat
<1>1. Measurement!Limited(m, split, limit) \in SUBSET (1..NumTasks) /\ NumTasks \in Nat
  BY DEF Measurement!Limited, Measurement!InSplit, Measurement!Tasks, Measurement!CampaignAssumption
<1>2. QED
  BY <1>1, CampaignCounts

\* A build begins with no outcomes.
LEMMA CampaignGenerateHolds ==
  ASSUME Measurement!CampaignAssumption, Measurement!CampaignInv, NEW s \in Shapes, Measurement!Generate(s)
  PROVE  Measurement!CampaignInv'
<1>1. /\ v2' = s /\ v3' = [t \in Measurement!Tasks |-> <<>>] /\ UNCHANGED <<v4, v5, v6, v7, v8, v9>>
  BY DEF Measurement!Generate
<1>2. <<>> \in Seq(Measurement!MayEndIn("gold")) /\ Len(<<>>) = 0
  OBVIOUS
<1>3. v3' \in [Measurement!Tasks -> Seq(Measurement!MayEndIn("gold"))]
  BY <1>1, <1>2
<1>4. Measurement!Suite(s).repeats \in Nat
  BY CampaignSuites
<1>5. \A t \in Measurement!Tasks : v3'[t] = <<>>
  BY <1>1
<1>6. Measurement!CanaryGoesOn'
  BY <1>1, <1>2, <1>3, <1>4, <1>5 DEF Measurement!CanaryGoesOn
<1>7. QED
  BY <1>1, <1>6 DEF Measurement!CampaignInv, Measurement!ManifestsDiscriminate, Measurement!ArmsFollow,
    Measurement!FloorRuns, Measurement!NumFloorTasks, Measurement!PublishedFloorIsSound

\* An evaluation is only made after one that was what it needed to be.
LEMMA CampaignScreenHolds ==
  ASSUME Measurement!CampaignAssumption, Measurement!CampaignInv,
         NEW outcome \in Measurement!MayEndIn("gold"), Measurement!Screen(outcome)
  PROVE  Measurement!CampaignInv'
<1> DEFINE c == v1
           repeats == Measurement!Suite(v2).repeats
           S == Measurement!MayEndIn("gold")
<1>1. /\ c \in Measurement!Tasks /\ ~Measurement!Judged(v3[c], repeats)
      /\ v3' = [v3 EXCEPT ![c] = Append(v3[c], outcome)] /\ UNCHANGED <<v1, v2, v4, v5, v6, v7, v8, v9>>
  BY DEF Measurement!Screen
<1>2. c # 0 /\ v3 \in [Measurement!Tasks -> Seq(S)] /\ v2 \in Shapes
      /\ \A t \in Measurement!Tasks : /\ Len(v3[t]) <= repeats + 1
                                      /\ \A i \in 1..(Len(v3[t]) - 1) : Measurement!Status(v3[t][i]) = "PASSED"
  BY <1>1 DEF Measurement!CampaignInv, Measurement!CanaryGoesOn, Measurement!Tasks
<1>3. repeats \in Nat
  BY <1>2, CampaignSuites
<1> HIDE DEF S, repeats, c
<1>4. v3[c] \in Seq(S) /\ Len(v3[c]) \in Nat /\ outcome \in S
  BY <1>1, <1>2 DEF S
<1>5. /\ Len(v3[c]) # repeats + 1
      /\ v3[c] # <<>> => Measurement!Status(v3[c][Len(v3[c])]) = "PASSED"
  BY <1>1 DEF Measurement!Judged, Measurement!Last
<1>6. /\ Append(v3[c], outcome) \in Seq(S) /\ Len(Append(v3[c], outcome)) = Len(v3[c]) + 1
      /\ \A i \in 1..Len(v3[c]) : Append(v3[c], outcome)[i] = v3[c][i]
  BY <1>4, CampaignAppended
<1>7. /\ v3' \in [Measurement!Tasks -> Seq(S)] /\ v3'[c] = Append(v3[c], outcome)
      /\ \A t \in Measurement!Tasks \ {c} : v3'[t] = v3[t]
  BY <1>1, <1>2, <1>6
<1>8. ASSUME NEW i \in 1..Len(v3[c])
      PROVE  Measurement!Status(v3[c][i]) = "PASSED"
  <2>1. i = Len(v3[c]) \/ i \in 1..(Len(v3[c]) - 1)
    BY <1>4
  <2>2. v3[c] # <<>>
    BY <1>4
  <2>3. QED
    BY <1>1, <1>2, <1>5, <2>1, <2>2
<1>9. ASSUME NEW t \in Measurement!Tasks
      PROVE  /\ Len(v3'[t]) <= repeats + 1
             /\ \A i \in 1..(Len(v3'[t]) - 1) : Measurement!Status(v3'[t][i]) = "PASSED"
  <2>1. CASE t # c
    BY <1>2, <1>7, <2>1
  <2>2. CASE t = c
    <3>1. Len(v3'[c]) = Len(v3[c]) + 1 /\ \A i \in 1..Len(v3[c]) : v3'[c][i] = v3[c][i]
      BY <1>6, <1>7
    <3>2. Len(v3[c]) + 1 <= repeats + 1
      BY <1>1, <1>2, <1>3, <1>4, <1>5
    <3>3. Len(v3'[c]) - 1 = Len(v3[c])
      BY <1>4, <3>1
    <3>4. QED
      BY <1>8, <2>2, <3>1, <3>2, <3>3
  <2>3. QED
    BY <2>1, <2>2
<1>10. Measurement!CanaryGoesOn'
  BY <1>1, <1>2, <1>7, <1>9 DEF Measurement!CanaryGoesOn, S, repeats
<1>11. QED
  BY <1>1, <1>10 DEF Measurement!CampaignInv, Measurement!ManifestsDiscriminate, Measurement!ArmsFollow,
    Measurement!FloorRuns, Measurement!NumFloorTasks, Measurement!PublishedFloorIsSound

\* What a build admits, the canary told apart.
LEMMA CampaignBuildHolds ==
  ASSUME Measurement!CampaignAssumption, Measurement!CampaignInv, Measurement!BuildManifest
  PROVE  Measurement!CampaignInv'
<1> DEFINE repeats == Measurement!Suite(v2).repeats
           reasons == [t \in Measurement!Tasks |-> Measurement!Reason(v3[t], repeats)]
           admitted == {t \in Measurement!Tasks : reasons[t] = "admitted"}
           built == [shape |-> v2, split |-> Measurement!SplitOf(admitted),
                     reason |-> Measurement!Restrict(reasons, Measurement!Tasks \ admitted), canary |-> v3]
<1>1. /\ v1 = NumTasks + 1 /\ v1' = 0 /\ UNCHANGED <<v2, v3, v6, v7, v8, v9>>
      /\ v4' = IF Measurement!Suite(v2).stated /\ Measurement!IsManifest(built) THEN built ELSE v4
  BY DEF Measurement!BuildManifest
<1>2. /\ v3 \in [Measurement!Tasks -> Seq(Measurement!MayEndIn("gold"))] /\ v2 \in Shapes
      /\ \A t \in Measurement!Tasks : /\ Len(v3[t]) <= repeats + 1
                                      /\ \A i \in 1..(Len(v3[t]) - 1) : Measurement!Status(v3[t][i]) = "PASSED"
  <2>1. v1 # 0
    BY <1>1 DEF Measurement!CampaignAssumption
  <2>2. QED
    BY <2>1 DEF Measurement!CampaignInv, Measurement!CanaryGoesOn
<1>3. repeats \in Nat /\ (Measurement!Suite(v2).stated => Measurement!Suite(v2).guarded)
  BY <1>2, CampaignSuites
<1>4. built.shape = v2 /\ built.canary = v3 /\ built.split = Measurement!SplitOf(admitted)
  OBVIOUS
<1>5. \A t \in admitted : t \in Measurement!Tasks /\ Measurement!Reason(v3[t], repeats) = "admitted"
  OBVIOUS
<1> HIDE DEF built, admitted, repeats
<1>6. DOMAIN built.split = admitted
  BY <1>4 DEF Measurement!SplitOf
<1>7. \A t \in admitted : v3[t] = Append([i \in 1..repeats |-> "exit 0"], "exit 1")
  BY <1>2, <1>3, <1>5, CampaignAdmitted
<1>8. Measurement!Suite(v2).stated => Measurement!TasksDiscriminate(built)
  BY <1>3, <1>4, <1>6, <1>7 DEF Measurement!TasksDiscriminate, repeats
<1>9. Measurement!ManifestsDiscriminate'
  BY <1>1, <1>8 DEF Measurement!CampaignInv, Measurement!ManifestsDiscriminate, Measurement!FloorRuns
<1>10. QED
  BY <1>1, <1>2, <1>9 DEF Measurement!CampaignInv, Measurement!CanaryGoesOn, Measurement!ArmsFollow,
    Measurement!FloorRuns, Measurement!NumFloorTasks, Measurement!PublishedFloorIsSound

\* A floor begins on a manifest the canary admitted, with as many tasks as were declared.
LEMMA CampaignStartHolds ==
  ASSUME Measurement!CampaignAssumption, Measurement!CampaignInv,
         NEW split \in Measurement!Splits, NEW limit \in Measurement!Tasks, NEW dry \in BOOLEAN,
         NEW contained \in BOOLEAN, NEW fenced \in BOOLEAN,
         Measurement!StartFloor(split, limit, dry, contained, fenced)
  PROVE  Measurement!CampaignInv'
<1>1. /\ v4 # Measurement!NoManifest
      /\ Measurement!Cardinality(Measurement!Limited(v4, split, limit)) >= v6.declares.n \/ dry
      /\ v7' = [manifest |-> v4, split |-> split, limit |-> limit, declared |-> v6.declares.n,
                dry |-> dry, contained |-> contained, fenced |-> fenced, arms |-> <<<<>>, <<>>>>]
      /\ contained => fenced
      /\ UNCHANGED <<v1, v2, v3, v4, v5, v6, v8>>
  BY DEF Measurement!StartFloor
<1>2. /\ v7'.manifest = v4 /\ v7'.split = split /\ v7'.limit = limit /\ v7'.declared = v6.declares.n
      /\ v7'.dry = dry /\ v7'.contained = contained /\ v7'.fenced = fenced /\ v7'.arms = <<<<>>, <<>>>>
      /\ DOMAIN v7' = {"manifest", "split", "limit", "declared", "dry", "contained", "fenced", "arms"}
  BY <1>1
<1>3. DOMAIN Measurement!NoFloor = {"manifest", "split", "limit", "declared", "dry", "contained", "fenced", "arms"}
  BY DEF Measurement!NoFloor
<1>4. Measurement!NumFloorTasks' = Measurement!Cardinality(Measurement!Limited(v4, split, limit))
  <2>1. Measurement!NumFloorTasks' = Measurement!Cardinality(Measurement!Limited(v7'.manifest, v7'.split, v7'.limit))
    BY DEF Measurement!NumFloorTasks, Measurement!Limited, Measurement!InSplit
  <2>2. QED
    BY <1>2, <2>1
<1>5. Measurement!NumFloorTasks' \in Nat
  BY <1>4, CampaignFloorTasks
<1>6. v7'.arms \in [1..2 -> Seq(Measurement!Statuses)] /\ v7'.arms[1] = <<>> /\ v7'.arms[2] = <<>>
  <2>1. <<>> \in Seq(Measurement!Statuses)
    OBVIOUS
  <2>2. /\ <<<<>>, <<>>>> \in [1..2 -> Seq(Measurement!Statuses)]
        /\ <<<<>>, <<>>>>[1] = <<>> /\ <<<<>>, <<>>>>[2] = <<>>
    BY <2>1, CampaignPair
  <2>3. QED
    BY <1>2, <2>2
<1>7. Measurement!ArmsFollow'
  <2>1. Len(<<>>) = 0
    OBVIOUS
  <2>2. Len(v7'.arms[1]) <= Measurement!NumFloorTasks' /\ Len(v7'.arms[2]) <= Measurement!NumFloorTasks'
    BY <1>5, <1>6, <2>1
  <2>3. QED
    BY <1>1, <1>2, <1>3, <1>4, <1>6, <2>2 DEF Measurement!ArmsFollow
<1>8. Measurement!ManifestsDiscriminate'
  BY <1>1, <1>2 DEF Measurement!CampaignInv, Measurement!ManifestsDiscriminate
<1>9. QED
  BY <1>1, <1>7, <1>8 DEF Measurement!CampaignInv, Measurement!CanaryGoesOn, Measurement!PublishedFloorIsSound

\* One task more of the arm that is not done.
LEMMA CampaignTaskHolds ==
  ASSUME Measurement!CampaignAssumption, Measurement!CampaignInv,
         NEW status \in Measurement!Statuses, Measurement!RunTask(status)
  PROVE  Measurement!CampaignInv'
<1> DEFINE a == IF Len(v7.arms[1]) < Measurement!NumFloorTasks THEN 1 ELSE 2
           n == Measurement!NumFloorTasks
           run == Append(v7.arms[a], status)
           S == Seq(Measurement!Statuses)
<1>1. /\ Measurement!FloorRuns /\ Len(v7.arms[2]) < n /\ v7' = [v7 EXCEPT !.arms[a] = Append(@, status)]
      /\ UNCHANGED <<v1, v2, v3, v4, v5, v6, v8, v9>>
  BY DEF Measurement!RunTask
<1>2. /\ DOMAIN v7 = DOMAIN Measurement!NoFloor /\ v7.arms \in [1..2 -> S]
      /\ n >= v7.declared \/ v7.dry
      /\ v7.dry \in BOOLEAN /\ (v7.contained => v7.fenced) /\ Len(v7.arms[1]) <= n /\ Len(v7.arms[2]) <= n
      /\ v7.arms[2] # <<>> => Len(v7.arms[1]) = n
  BY <1>1 DEF Measurement!CampaignInv, Measurement!ArmsFollow
<1>3. n \in Nat
  BY CampaignFloorTasks DEF Measurement!NumFloorTasks
<1>4. a \in 1..2 /\ v7.arms[a] \in S /\ v7.arms[1] \in S /\ v7.arms[2] \in S
  BY <1>2
<1>5. run \in S /\ Len(run) = Len(v7.arms[a]) + 1
  BY <1>4, CampaignAppended
<1>6. DOMAIN Measurement!NoFloor = {"manifest", "split", "limit", "declared", "dry", "contained", "fenced", "arms"}
  BY DEF Measurement!NoFloor
<1>7. /\ v7'.arms = [v7.arms EXCEPT ![a] = run] /\ DOMAIN v7' = DOMAIN v7
      /\ v7'.manifest = v7.manifest /\ v7'.split = v7.split /\ v7'.limit = v7.limit
      /\ v7'.declared = v7.declared /\ v7'.dry = v7.dry
      /\ v7'.contained = v7.contained /\ v7'.fenced = v7.fenced
  <2> HIDE DEF a
  <2> QED BY <1>1, <1>2, <1>6
<1> HIDE DEF run, n
<1>8. Measurement!NumFloorTasks' = n
  <2>1. Measurement!NumFloorTasks' = Measurement!Cardinality(Measurement!Limited(v7'.manifest, v7'.split, v7'.limit))
    BY DEF Measurement!NumFloorTasks, Measurement!Limited, Measurement!InSplit
  <2>2. QED
    BY <1>7, <2>1 DEF Measurement!NumFloorTasks, n
<1>9. v7'.arms \in [1..2 -> S] /\ v7'.arms[a] = run /\ v7'.arms[3 - a] = v7.arms[3 - a]
  BY <1>2, <1>4, <1>5, <1>7
<1>10. Len(v7'.arms[1]) <= n /\ Len(v7'.arms[2]) <= n /\ (v7'.arms[2] # <<>> => Len(v7'.arms[1]) = n)
  <2>0. Len(v7.arms[1]) \in Nat /\ Len(v7.arms[2]) \in Nat
    BY <1>4
  <2>1. CASE Len(v7.arms[1]) < n
    <3>1. a = 1 /\ v7'.arms[1] = run /\ v7'.arms[2] = v7.arms[2]
      BY <1>9, <2>1 DEF n
    <3>2. v7.arms[2] = <<>>
      BY <1>2, <1>3, <2>0, <2>1
    <3>3. QED
      BY <1>2, <1>3, <1>5, <2>0, <2>1, <3>1, <3>2
  <2>2. CASE ~(Len(v7.arms[1]) < n)
    <3>1. a = 2 /\ v7'.arms[2] = run /\ v7'.arms[1] = v7.arms[1]
      BY <1>9, <2>2 DEF n
    <3>2. Len(v7.arms[1]) = n
      BY <1>2, <1>3, <2>0, <2>2
    <3>3. QED
      BY <1>1, <1>2, <1>3, <1>5, <2>0, <3>1, <3>2
  <2>3. QED
    BY <2>1, <2>2
<1>11. Measurement!ArmsFollow'
  BY <1>2, <1>7, <1>8, <1>9, <1>10 DEF Measurement!ArmsFollow
<1>12. Measurement!ManifestsDiscriminate'
  BY <1>1, <1>7 DEF Measurement!CampaignInv, Measurement!ManifestsDiscriminate, Measurement!FloorRuns
<1>13. QED
  BY <1>1, <1>11, <1>12 DEF Measurement!CampaignInv, Measurement!CanaryGoesOn, Measurement!PublishedFloorIsSound

\* What is published is about all the tasks of both arms.
LEMMA CampaignPublishHolds ==
  ASSUME Measurement!CampaignAssumption, Measurement!CampaignInv, Measurement!Publish
  PROVE  Measurement!CampaignInv'
<1> DEFINE n == Measurement!NumFloorTasks
<1>1. /\ Measurement!FloorRuns /\ Len(v7.arms[2]) = n /\ v7' = Measurement!NoFloor
      /\ v8' = IF Measurement!Corrects(v6.declares) /\ ~v7.dry THEN Measurement!ReportOf(v7) ELSE v8
      /\ UNCHANGED <<v1, v2, v3, v4, v5, v6, v9>>
  BY DEF Measurement!Publish
<1>2. /\ v7.arms \in [1..2 -> Seq(Measurement!Statuses)]
      /\ n >= v7.declared \/ v7.dry
      /\ v7.contained => v7.fenced
      /\ Len(v7.arms[1]) <= n /\ (v7.arms[2] # <<>> => Len(v7.arms[1]) = n)
  BY <1>1 DEF Measurement!CampaignInv, Measurement!ArmsFollow
<1>3. n \in Nat
  BY CampaignFloorTasks DEF Measurement!NumFloorTasks
<1> HIDE DEF n
<1>4. Len(v7.arms[1]) = n
  <2>1. v7.arms[1] \in Seq(Measurement!Statuses) /\ v7.arms[2] \in Seq(Measurement!Statuses)
    BY <1>2
  <2>2. Len(v7.arms[1]) \in Nat /\ (v7.arms[2] = <<>> => Len(v7.arms[2]) = 0)
    BY <2>1
  <2>3. QED
    BY <1>1, <1>2, <1>3, <2>2
<1>5. Measurement!CountsAreMeasured(Measurement!ReportOf(v7))
  BY <1>1, <1>2, <1>4, CampaignReports
<1>6. Measurement!ReportOf(v7).floor = v7
  BY DEF Measurement!ReportOf
<1>7. Measurement!TasksDiscriminate(v7.manifest)
  BY <1>1 DEF Measurement!CampaignInv, Measurement!ManifestsDiscriminate
<1>8. Measurement!PublishedFloorIsSound'
  <2>1. CASE Measurement!Corrects(v6.declares) /\ ~v7.dry
    <3>1. v8' = Measurement!ReportOf(v7)
      BY <1>1, <2>1
    <3>2. QED
      BY <1>2, <1>4, <1>5, <1>6, <1>7, <2>1, <3>1 DEF Measurement!PublishedFloorIsSound
  <2>2. CASE ~(Measurement!Corrects(v6.declares) /\ ~v7.dry)
    BY <1>1, <2>2 DEF Measurement!CampaignInv, Measurement!PublishedFloorIsSound
  <2>3. QED
    BY <2>1, <2>2
<1>9. Measurement!NoFloor.arms \in [1..2 -> Seq(Measurement!Statuses)]
  <2>1. <<>> \in Seq(Measurement!Statuses)
    OBVIOUS
  <2>2. QED
    BY <2>1, CampaignPair DEF Measurement!NoFloor
<1>10. QED
  BY <1>1, <1>8, <1>9 DEF Measurement!CampaignInv, Measurement!CanaryGoesOn, Measurement!ManifestsDiscriminate,
    Measurement!ArmsFollow, Measurement!FloorRuns

\* The other steps touch no outcome, and no file but the family's.
LEMMA CampaignOtherHolds ==
  ASSUME Measurement!CampaignAssumption, Measurement!CampaignInv,
         \/ Measurement!NextCandidate \/ Measurement!BuilderDies \/ Measurement!FloorDies
         \/ \E declares \in Families : Measurement!Declare(declares)
         \/ UNCHANGED slots
  PROVE  Measurement!CampaignInv'
<1>1. /\ UNCHANGED <<v2, v3, v4, v8>> /\ (v1' = v1 \/ v1' = 0 \/ (v1 # 0 /\ v1' = v1 + 1))
      /\ v7' = v7 \/ v7' = Measurement!NoFloor
  BY DEF Measurement!NextCandidate, Measurement!BuilderDies, Measurement!FloorDies, Measurement!Declare, slots,
    Measurement!Tasks
<1>2. Measurement!NoFloor.arms \in [1..2 -> Seq(Measurement!Statuses)]
  <2>1. <<>> \in Seq(Measurement!Statuses)
    OBVIOUS
  <2>2. QED
    BY <2>1, CampaignPair DEF Measurement!NoFloor
<1>3. Measurement!CanaryGoesOn'
  BY <1>1 DEF Measurement!CampaignInv, Measurement!CanaryGoesOn
<1>4. Measurement!ManifestsDiscriminate' /\ Measurement!PublishedFloorIsSound'
  BY <1>1 DEF Measurement!CampaignInv, Measurement!ManifestsDiscriminate, Measurement!FloorRuns,
    Measurement!PublishedFloorIsSound
<1>5. Measurement!ArmsFollow'
  BY <1>1, <1>2 DEF Measurement!CampaignInv, Measurement!ArmsFollow, Measurement!FloorRuns, Measurement!NumFloorTasks
<1>6. QED
  BY <1>3, <1>4, <1>5 DEF Measurement!CampaignInv

\* The invariant holds at the start.
LEMMA CampaignInitHolds ==
  ASSUME Measurement!CampaignAssumption, Measurement!CampaignInit
  PROVE  Measurement!CampaignInv
<1>1. /\ v1 = 0 /\ v3 = [t \in Measurement!Tasks |-> <<>>] /\ v4 = Measurement!NoManifest
      /\ v7 = Measurement!NoFloor /\ v8 = Measurement!NoReport
  BY DEF Measurement!CampaignInit
<1>2. /\ <<>> \in Seq(Measurement!Statuses) /\ <<>> \in Seq(Measurement!MayEndIn("gold"))
  OBVIOUS
<1>3. Measurement!NoFloor.arms \in [1..2 -> Seq(Measurement!Statuses)]
  BY <1>2, CampaignPair DEF Measurement!NoFloor
<1>4. v3 \in [Measurement!Tasks -> Seq(Measurement!MayEndIn("gold"))]
  BY <1>1, <1>2
<1>5. QED
  BY <1>1, <1>3, <1>4 DEF Measurement!CampaignInv, Measurement!CanaryGoesOn, Measurement!ManifestsDiscriminate,
    Measurement!ArmsFollow, Measurement!FloorRuns, Measurement!PublishedFloorIsSound

\* Every step keeps it.
LEMMA CampaignStepHolds ==
  ASSUME Measurement!CampaignAssumption, Measurement!CampaignInv, Measurement!CampaignNext \/ UNCHANGED slots
  PROVE  Measurement!CampaignInv'
BY CampaignGenerateHolds, CampaignScreenHolds, CampaignBuildHolds, CampaignStartHolds, CampaignTaskHolds,
  CampaignPublishHolds, CampaignOtherHolds DEF Measurement!CampaignNext

\* The types rest on the invariant, and on that a builder at work may still write.
CampaignTyped ==
  /\ Measurement!CampaignInv /\ Measurement!CampaignTypeOK
  /\ v1 # 0 => v5 < MaxBuilds

\* The candidates a manifest leaves out have a reason.
LEMMA ReasonsAreReasons ==
  ASSUME NEW outcomes, NEW n
  PROVE  Measurement!Reason(outcomes, n) \in Measurement!Reasons \cup {"admitted"}
BY DEF Measurement!Reason, Measurement!Reasons

\* The types hold at the start.
LEMMA CampaignTypedInit ==
  ASSUME Measurement!CampaignAssumption, Measurement!CampaignInit
  PROVE  CampaignTyped
<1>1. Measurement!CampaignInv
  BY CampaignInitHolds
<1>2. /\ v1 = 0 /\ v2 = "none" /\ v5 = 0 /\ v9 = 0 /\ v6 = Measurement!NoFamily
      /\ v4 = Measurement!NoManifest /\ v7 = Measurement!NoFloor
  BY DEF Measurement!CampaignInit
<1>3. NumTasks \in Nat /\ MaxBuilds \in Nat /\ MaxFloors \in Nat
  BY DEF Measurement!CampaignAssumption
<1>4. v3 \in [Measurement!Tasks -> Seq(Measurement!MayEndIn("gold"))] /\ v7.arms \in [1..2 -> Seq(Measurement!Statuses)]
  BY <1>1 DEF Measurement!CampaignInv, Measurement!CanaryGoesOn, Measurement!ArmsFollow
<1>5. DOMAIN v4.reason = {} /\ v7.split \in Measurement!Splits
  BY <1>2 DEF Measurement!NoManifest, Measurement!NoFloor, Measurement!Splits
<1>6. QED
  BY <1>1, <1>2, <1>3, <1>4, <1>5 DEF CampaignTyped, Measurement!CampaignTypeOK

\* Every step keeps them.
LEMMA CampaignTypedStep ==
  ASSUME Measurement!CampaignAssumption, CampaignTyped, Measurement!CampaignNext \/ UNCHANGED slots
  PROVE  CampaignTyped'
<1>1. Measurement!CampaignInv'
  BY CampaignStepHolds DEF CampaignTyped
<1>2. /\ v3' \in [Measurement!Tasks -> Seq(Measurement!MayEndIn("gold"))]
      /\ \A a \in 1..2 : v7'.arms[a] \in Seq(Measurement!Statuses)
  BY <1>1 DEF Measurement!CampaignInv, Measurement!CanaryGoesOn, Measurement!ArmsFollow
<1>3. NumTasks \in Nat /\ MaxBuilds \in Nat /\ MaxFloors \in Nat
  BY DEF Measurement!CampaignAssumption
<1>4. /\ v1 \in 0..(NumTasks + 1) /\ v2 \in Shapes \cup {"none"} /\ v5 \in 0..MaxBuilds /\ v9 \in 0..MaxFloors
      /\ (v1 # 0 => v5 < MaxBuilds)
      /\ v6.declares \in Families \cup {Measurement!NoFamily.declares}
      /\ \A t \in DOMAIN v4.reason : v4.reason[t] \in Measurement!Reasons
      /\ v7.split \in Measurement!Splits /\ DOMAIN v7 = DOMAIN Measurement!NoFloor
  BY DEF CampaignTyped, Measurement!CampaignTypeOK, Measurement!CampaignInv, Measurement!ArmsFollow
<1> DEFINE Rest == /\ v1' \in 0..(NumTasks + 1) /\ v2' \in Shapes \cup {"none"} /\ v5' \in 0..MaxBuilds
                   /\ (v1' # 0 => v5' < MaxBuilds)
           Files == /\ v6'.declares \in Families \cup {Measurement!NoFamily.declares}
                    /\ \A t \in DOMAIN v4'.reason : v4'.reason[t] \in Measurement!Reasons
           Floors == v9' \in 0..MaxFloors /\ v7'.split \in Measurement!Splits
<1>5. Rest /\ Files /\ Floors => CampaignTyped'
  BY <1>1, <1>2 DEF CampaignTyped, Measurement!CampaignTypeOK
<1>6. CASE UNCHANGED slots
  BY <1>4, <1>5, <1>6 DEF slots
<1>7. ASSUME NEW s \in Shapes, Measurement!Generate(s) PROVE CampaignTyped'
  BY <1>3, <1>4, <1>5, <1>7 DEF Measurement!Generate
<1>8. ASSUME NEW outcome, Measurement!Screen(outcome) PROVE CampaignTyped'
  BY <1>4, <1>5, <1>8 DEF Measurement!Screen
<1>9. CASE Measurement!NextCandidate
  BY <1>3, <1>4, <1>5, <1>9 DEF Measurement!NextCandidate, Measurement!Tasks
<1>10. CASE Measurement!BuildManifest
  <2> DEFINE reasons == [t \in Measurement!Tasks |-> Measurement!Reason(v3[t], Measurement!Suite(v2).repeats)]
             admitted == {t \in Measurement!Tasks : reasons[t] = "admitted"}
             left == Measurement!Restrict(reasons, Measurement!Tasks \ admitted)
  <2>1. /\ v1 = NumTasks + 1 /\ v1' = 0 /\ v5' = v5 + 1
        /\ UNCHANGED <<v2, v3, v6, v7, v8, v9>>
        /\ v4' = v4 \/ v4'.reason = left
    BY <1>10 DEF Measurement!BuildManifest
  <2>2. \A t \in Measurement!Tasks : reasons[t] \in Measurement!Reasons \cup {"admitted"}
    BY ReasonsAreReasons
  <2>3. \A t \in DOMAIN left : t \in Measurement!Tasks \ admitted /\ left[t] = reasons[t]
    <3> HIDE DEF reasons, admitted
    <3>1. QED BY DEF left, Measurement!Restrict
  <2>4. \A t \in Measurement!Tasks \ admitted : reasons[t] \in Measurement!Reasons
    <3>1. \A t \in Measurement!Tasks \ admitted : reasons[t] # "admitted" OBVIOUS
    <3> HIDE DEF reasons, admitted
    <3>2. QED BY <2>2, <3>1
  <2> HIDE DEF left
  <2>5. \A t \in DOMAIN left : left[t] \in Measurement!Reasons
    BY <2>3, <2>4
  <2>6. Files /\ Floors BY <1>4, <2>1, <2>5
  <2>7. Rest BY <1>3, <1>4, <2>1
  <2>8. QED BY <1>5, <2>6, <2>7
<1>11. ASSUME NEW declares \in Families, Measurement!Declare(declares) PROVE CampaignTyped'
  BY <1>4, <1>5, <1>11 DEF Measurement!Declare
<1>12. ASSUME NEW split \in Measurement!Splits, NEW limit, NEW dry, NEW contained, NEW fenced,
              Measurement!StartFloor(split, limit, dry, contained, fenced)
       PROVE  CampaignTyped'
  <2>1. /\ v7'.split = split /\ v9 < MaxFloors /\ v9' = v9 + 1
        /\ UNCHANGED <<v1, v2, v3, v4, v5, v6, v8>>
    BY <1>12 DEF Measurement!StartFloor
  <2>2. QED BY <1>3, <1>4, <1>5, <2>1
<1>13. ASSUME NEW status, Measurement!RunTask(status) PROVE CampaignTyped'
  <2>1. /\ UNCHANGED <<v1, v2, v3, v4, v5, v6, v8, v9>>
        /\ \E a, x : v7' = [v7 EXCEPT !.arms[a] = x]
    BY <1>13 DEF Measurement!RunTask
  <2>2. v7'.split = v7.split
    BY <1>4, <2>1 DEF Measurement!NoFloor
  <2>3. QED BY <1>4, <1>5, <2>1, <2>2
<1>14. CASE Measurement!Publish \/ Measurement!FloorDies
  BY <1>4, <1>5, <1>14 DEF Measurement!Publish, Measurement!FloorDies, Measurement!NoFloor, Measurement!Splits
<1>15. CASE Measurement!BuilderDies
  BY <1>3, <1>4, <1>5, <1>15 DEF Measurement!BuilderDies
<1>16. QED
  BY <1>6, <1>7, <1>8, <1>9, <1>10, <1>11, <1>12, <1>13, <1>14, <1>15 DEF Measurement!CampaignNext

\* A campaign keeps what its report rests on, and its types.
LEMMA CampaignInvariant == Spec => [](subject = "campaign" => CampaignTyped)
<1> DEFINE Inv == subject = "campaign" => CampaignTyped
<1> USE PartsAssumption DEF PartsAssumption
<1>1. Init => Inv
  BY CampaignTypedInit DEF Init, SlotsInit
<1>2. Inv /\ [Next]_partsVars => Inv'
  <2> SUFFICES ASSUME CampaignTyped, Measurement!CampaignNext \/ UNCHANGED slots
               PROVE  CampaignTyped'
    BY DEF Next, SlotsNext, partsVars, slots
  <2>1. QED
    BY CampaignTypedStep
<1>3. QED
  BY <1>1, <1>2, PTL DEF Spec

\* A published noise floor is about admitted tasks, its pairs, discordance and rates are of measured
\* outcomes and its p-value is of those and of the tasks of which one arm said nothing, and behind
\* one that says it was contained the B3 canary passed (run_aa_floor.py).
THEOREM PublishedFloorsAreSound == Spec => []PublishedFloorIsSound
<1>1. (subject = "campaign" => CampaignTyped) => PublishedFloorIsSound
  BY DEF PublishedFloorIsSound, CampaignTyped, Measurement!CampaignInv
<1>2. QED
  BY <1>1, CampaignInvariant, PTL

-----------------------------------------------------------------------------
(* Statistics (v1 pairs, v2 pvalue, v3 adjusted, v4 among): corrected      *)
(* p-values are those of the closed test.                                  *)
(* Rows of Pascal's triangle count subsets, so the p-value of a            *)
(* comparison is exact, and it is that of the pairs as they stand; a       *)
(* corrected one is Holm's over the comparisons it was corrected among.    *)

\* the subsets of 1..n of so many elements
Subsets(n, k) == {X \in SUBSET (1..n) : Cardinality(X) = k}

\* A subset of 1..n has at most n elements.
LEMMA SubsetIsFinite ==
  ASSUME NEW n \in Nat, NEW X \in SUBSET (1..n)
  PROVE  IsFiniteSet(X) /\ Cardinality(X) \in 0..n
<1>1. IsFiniteSet(1..n) /\ Cardinality(1..n) = n
  BY FS_Interval
<1>2. IsFiniteSet(X) /\ Cardinality(X) <= n
  BY <1>1, FS_Subset
<1>3. QED
  BY <1>2, FS_CardinalityType

\* Part of the power set of 1..n is finite.
LEMMA SubsetsAreFinite ==
  ASSUME NEW n \in Nat, NEW U \in SUBSET (SUBSET (1..n))
  PROVE  IsFiniteSet(U) /\ Cardinality(U) \in Nat
<1>1. IsFiniteSet(SUBSET (1..n))
  <2>1. IsFiniteSet(1..n) BY FS_Interval
  <2>2. QED BY <2>1, FS_SUBSET
<1>2. IsFiniteSet(U)
  BY <1>1, FS_Subset
<1>3. QED
  BY <1>2, FS_CardinalityType

\* Pascal's rule: a subset of 1..n+1 has the last element or not.
LEMMA PascalsRule ==
  ASSUME NEW n \in Nat, NEW k \in Nat
  PROVE  Cardinality(Subsets(n + 1, k + 1)) = Cardinality(Subsets(n, k)) + Cardinality(Subsets(n, k + 1))
<1> DEFINE A == Subsets(n, k)
           B == Subsets(n, k + 1)
           f == [X \in A |-> X \cup {n + 1}]
           C == {f[X] : X \in A}
<1>1. A \in SUBSET (SUBSET (1..n)) /\ B \in SUBSET (SUBSET (1..n))
  BY DEF Subsets
<1>2. IsFiniteSet(A) /\ IsFiniteSet(B) /\ Cardinality(A) \in Nat /\ Cardinality(B) \in Nat
  BY <1>1, SubsetsAreFinite
<1>3. \A X \in SUBSET (1..n) : IsFiniteSet(X) /\ Cardinality(X) \in 0..n /\ n + 1 \notin X
  <2>1. \A X \in SUBSET (1..n) : n + 1 \notin X
    <3>1. n + 1 \notin 1..n OBVIOUS
    <3>2. QED BY <3>1
  <2>2. \A X \in SUBSET (1..n) : IsFiniteSet(X) /\ Cardinality(X) \in 0..n
    BY SubsetIsFinite
  <2>3. QED BY <2>1, <2>2
<1>4. \A X \in SUBSET (1..n) : Cardinality(X \cup {n + 1}) = Cardinality(X) + 1
  BY <1>3, FS_AddElement
<1>5. f \in Bijection(A, C)
  <2>1. f \in [A -> C] OBVIOUS
  <2>2. ASSUME NEW X \in A, NEW Y \in A, f[X] = f[Y] PROVE X = Y
    <3>1. X \cup {n + 1} = Y \cup {n + 1} /\ n + 1 \notin X /\ n + 1 \notin Y
      BY <1>1, <1>3, <2>2
    <3>2. QED BY <3>1
  <2>3. \A Z \in C : \E X \in A : f[X] = Z OBVIOUS
  <2>4. QED BY <2>1, <2>2, <2>3, Fun_IsBij
<1>6. IsFiniteSet(C) /\ Cardinality(C) = Cardinality(A)
  <2>1. ExistsBijection(A, C) BY <1>5 DEF ExistsBijection
  <2>2. QED BY <1>2, <2>1, FS_Bijection
<1>7. Subsets(n + 1, k + 1) = C \cup B
  <2>1. ASSUME NEW Z \in Subsets(n + 1, k + 1) PROVE Z \in C \cup B
    <3>1. Z \in SUBSET (1..(n + 1)) /\ Cardinality(Z) = k + 1 BY DEF Subsets
    <3>2. CASE n + 1 \in Z
      <4> DEFINE X == Z \ {n + 1}
      <4>1. X \in SUBSET (1..n) BY <3>1
      <4>2. Z = X \cup {n + 1} BY <3>2
      <4>3. Cardinality(X) + 1 = k + 1 BY <1>4, <3>1, <4>1, <4>2
      <4>4. Cardinality(X) = k
        <5>1. Cardinality(X) \in 0..n BY <1>3, <4>1
        <5> HIDE DEF X
        <5>2. QED BY <4>3, <5>1
      <4>5. X \in A BY <4>1, <4>4 DEF Subsets
      <4>6. Z = f[X] BY <4>2, <4>5
      <4>7. QED BY <4>5, <4>6
    <3>3. CASE n + 1 \notin Z
      <4>1. \A z \in Z : z \in 1..n BY <3>1, <3>3
      <4>2. QED BY <3>1, <4>1 DEF Subsets
    <3>4. QED BY <3>2, <3>3
  <2>2. ASSUME NEW X \in A PROVE X \cup {n + 1} \in Subsets(n + 1, k + 1)
    <3>1. X \in SUBSET (1..n) /\ Cardinality(X) = k BY DEF Subsets
    <3>2. X \cup {n + 1} \in SUBSET (1..(n + 1)) BY <3>1
    <3>3. QED BY <1>4, <3>1, <3>2 DEF Subsets
  <2>3. B \subseteq Subsets(n + 1, k + 1)
    BY DEF Subsets
  <2>4. \A Z \in C : \E X \in A : Z = X \cup {n + 1} OBVIOUS
  <2>5. QED BY <2>1, <2>2, <2>3, <2>4
<1>8. C \cap B = {}
  <2>1. \A Z \in C : n + 1 \in Z OBVIOUS
  <2>2. QED BY <1>1, <1>3, <2>1
<1> HIDE DEF A, B, C
<1>9. Cardinality(C \cup B) = Cardinality(C) + Cardinality(B) - Cardinality(C \cap B)
  BY <1>2, <1>6, FS_Union
<1>10. Cardinality(C \cap B) = 0
  BY <1>8, FS_EmptySet
<1>11. Cardinality(C \cup B) = Cardinality(A) + Cardinality(B)
  BY <1>2, <1>6, <1>9, <1>10
<1>12. QED
  BY <1>7, <1>11 DEF A, B

\* There is one empty subset, and of nothing no other.
LEMMA FewSubsets ==
  ASSUME NEW n \in Nat
  PROVE  Cardinality(Subsets(n, 0)) = 1 /\ \A k \in Nat : k # 0 => Cardinality(Subsets(0, k)) = 0
<1>1. Subsets(n, 0) = {{}}
  <2>1. \A X \in SUBSET (1..n) : Cardinality(X) = 0 => X = {}
    BY SubsetIsFinite, FS_EmptySet
  <2>2. QED BY <2>1, FS_EmptySet DEF Subsets
<1>2. \A k \in Nat : k # 0 => Subsets(0, k) = {}
  <2>1. SUBSET (1..0) = {{}} OBVIOUS
  <2>2. QED BY <2>1, FS_EmptySet DEF Subsets
<1>3. QED
  BY <1>1, <1>2, FS_Singleton, FS_EmptySet

\* A solution of Pascal's recursive definition, which is Comb's.
IsPascal(c) ==
  c = [n \in 0..MaxPairs |->
        [k \in 0..MaxPairs |-> IF k = 0 THEN 1 ELSE IF n = 0 THEN 0 ELSE c[n - 1][k - 1] + c[n - 1][k]]]

\* The numbers of subsets are one.
LEMMA PascalExists ==
  ASSUME MaxPairs \in Nat
  PROVE  IsPascal([n \in 0..MaxPairs |-> [k \in 0..MaxPairs |-> Cardinality(Subsets(n, k))]])
<1> DEFINE c == [n \in 0..MaxPairs |-> [k \in 0..MaxPairs |-> Cardinality(Subsets(n, k))]]
<1>1. ASSUME NEW n \in 0..MaxPairs, NEW k \in 0..MaxPairs
      PROVE  Cardinality(Subsets(n, k)) = IF k = 0 THEN 1 ELSE IF n = 0 THEN 0 ELSE c[n - 1][k - 1] + c[n - 1][k]
  <2>1. CASE k = 0 \/ n = 0
    <3>1. k = 0 => Cardinality(Subsets(n, k)) = 1
      BY FewSubsets
    <3>2. k # 0 /\ n = 0 => Cardinality(Subsets(n, k)) = 0
      BY FewSubsets
    <3>3. QED BY <2>1, <3>1, <3>2
  <2>2. CASE k # 0 /\ n # 0
    <3>1. n - 1 \in Nat /\ k - 1 \in Nat /\ (n - 1) + 1 = n /\ (k - 1) + 1 = k
      BY <2>2
    <3>2. Cardinality(Subsets(n, k)) = Cardinality(Subsets(n - 1, k - 1)) + Cardinality(Subsets(n - 1, k))
      <4>1. \A i, j \in Nat :
              Cardinality(Subsets(i + 1, j + 1)) = Cardinality(Subsets(i, j)) + Cardinality(Subsets(i, j + 1))
        BY PascalsRule
      <4>2. Cardinality(Subsets((n - 1) + 1, (k - 1) + 1))
              = Cardinality(Subsets(n - 1, k - 1)) + Cardinality(Subsets(n - 1, (k - 1) + 1))
        BY <3>1, <4>1
      <4>3. QED BY <3>1, <4>2
    <3>3. n - 1 \in 0..MaxPairs /\ k - 1 \in 0..MaxPairs
      BY <2>2
    <3>4. c[n - 1][k - 1] = Cardinality(Subsets(n - 1, k - 1)) /\ c[n - 1][k] = Cardinality(Subsets(n - 1, k))
      BY <3>3
    <3>5. QED
      <4> HIDE DEF c
      <4> QED BY <2>2, <3>2, <3>4
  <2>3. QED BY <2>1, <2>2
<1> DEFINE d == [n \in 0..MaxPairs |->
        [k \in 0..MaxPairs |-> IF k = 0 THEN 1 ELSE IF n = 0 THEN 0 ELSE c[n - 1][k - 1] + c[n - 1][k]]]
<1>2. ASSUME NEW n \in 0..MaxPairs PROVE c[n] = d[n]
  <2>1. \A k \in 0..MaxPairs : c[n][k] = d[n][k]
    <3>1. \A k \in 0..MaxPairs : c[n][k] = Cardinality(Subsets(n, k)) OBVIOUS
    <3>2. \A k \in 0..MaxPairs :
            d[n][k] = IF k = 0 THEN 1 ELSE IF n = 0 THEN 0 ELSE c[n - 1][k - 1] + c[n - 1][k]
      <4> HIDE DEF c
      <4> QED OBVIOUS
    <3> HIDE DEF c, d
    <3>3. QED BY <1>1, <3>1, <3>2
  <2>2. c[n] = [k \in 0..MaxPairs |-> c[n][k]] /\ d[n] = [k \in 0..MaxPairs |-> d[n][k]]
    <3>1. c[n] = [k \in 0..MaxPairs |-> c[n][k]] OBVIOUS
    <3>2. d[n] = [k \in 0..MaxPairs |-> d[n][k]]
      <4> HIDE DEF c
      <4> QED OBVIOUS
    <3>3. QED BY <3>1, <3>2
  <2> HIDE DEF c, d
  <2>3. QED BY <2>1, <2>2
<1>3. c = [n \in 0..MaxPairs |-> c[n]] /\ d = [n \in 0..MaxPairs |-> d[n]]
  <2>1. c = [n \in 0..MaxPairs |-> c[n]] OBVIOUS
  <2>2. d = [n \in 0..MaxPairs |-> d[n]]
    <3> HIDE DEF c
    <3> QED OBVIOUS
  <2>3. QED BY <2>1, <2>2
<1>4. c = d
  <2> HIDE DEF c, d
  <2> QED BY <1>2, <1>3
<1>5. IsPascal(c)
  <2> HIDE DEF c
  <2> QED BY <1>4 DEF IsPascal, d
<1>6. QED BY <1>5

\* And there is no other: Comb counts subsets (math.comb).
LEMMA CombCounts ==
  ASSUME MaxPairs \in Nat, NEW n \in 0..MaxPairs, NEW k \in 0..MaxPairs
  PROVE  Numbers!Comb[n][k] = Cardinality(Subsets(n, k))
<1> DEFINE c == Numbers!Comb
           g == [i \in 0..MaxPairs |-> [j \in 0..MaxPairs |-> Cardinality(Subsets(i, j))]]
<1>1. IsPascal(g) BY PascalExists
<1>2. IsPascal(c)
  BY <1>1 DEF IsPascal, Numbers!Comb
<1>3. \A i, j \in 0..MaxPairs :
        c[i][j] = IF j = 0 THEN 1 ELSE IF i = 0 THEN 0 ELSE c[i - 1][j - 1] + c[i - 1][j]
  <2> HIDE DEF c
  <2> QED BY <1>2 DEF IsPascal
<1>4. \A i, j \in 0..MaxPairs :
        g[i][j] = IF j = 0 THEN 1 ELSE IF i = 0 THEN 0 ELSE g[i - 1][j - 1] + g[i - 1][j]
  <2> HIDE DEF g
  <2> QED BY <1>1 DEF IsPascal
<1> DEFINE Bad == {i \in 0..MaxPairs : \E j \in 0..MaxPairs : c[i][j] # g[i][j]}
<1>5. Bad = {}
  <2> HIDE DEF c, g
  <2>1. SUFFICES ASSUME Bad # {} PROVE FALSE OBVIOUS
  <2>2. PICK m \in Bad : \A i \in Bad : m <= i
    <3>1. Bad \subseteq Nat OBVIOUS
    <3>2. QED BY <2>1, <3>1, LeastNatural
  <2>3. PICK j \in 0..MaxPairs : c[m][j] # g[m][j] BY <2>2
  <2>4. m # 0 /\ j # 0
    BY <1>3, <1>4, <2>2, <2>3
  <2>5. m \in 0..MaxPairs /\ m - 1 \in 0..MaxPairs /\ m - 1 \notin Bad /\ j - 1 \in 0..MaxPairs
    BY <2>2, <2>4
  <2>6. c[m - 1][j - 1] = g[m - 1][j - 1] /\ c[m - 1][j] = g[m - 1][j]
    BY <2>5
  <2>7. c[m][j] = c[m - 1][j - 1] + c[m - 1][j]
    BY <1>3, <2>4, <2>5
  <2>8. g[m][j] = g[m - 1][j - 1] + g[m - 1][j]
    BY <1>4, <2>4, <2>5
  <2>9. QED BY <2>3, <2>6, <2>7, <2>8
<1>6. c[n][k] = g[n][k]
  <2> HIDE DEF c, g
  <2> QED BY <1>5
<1>7. QED BY <1>6

\* The operators of the instance are those of the library.
LEMMA StatisticsLibrary ==
  /\ \A f, n : Numbers!SumTo(f, n) = SumTo(f, n)
  /\ \A U : Numbers!Cardinality(U) = Cardinality(U)
BY DEF Numbers!SumTo, Numbers!PrefixSums, SumTo, PrefixSums, Numbers!Cardinality, Cardinality,
  Numbers!IsFiniteSet, IsFiniteSet

\* the subsets of 1..n that are of a size from first to last
Sized(n, first, last) == {X \in SUBSET (1..n) : Cardinality(X) \in first..last}

\* A range of a row of Pascal's triangle sums to the subsets of those sizes (mcnemar_exact's tails).
LEMMA CombsCount ==
  ASSUME MaxPairs \in Nat, NEW n \in 0..MaxPairs, NEW first \in Nat, NEW last \in 0..MaxPairs, first <= last
  PROVE  Numbers!Combs(n, first, last) = Cardinality(Sized(n, first, last))
<1> DEFINE L == last - first + 1
           f == [i \in 1..L |-> Numbers!Comb[n][first + i - 1]]
           F == PrefixSums(f, L)
           W(m) == Sized(n, first, first + m - 1)
           Bad == {m \in 0..L : F[m] # Cardinality(W(m))}
<1>0. L \in Nat /\ \A i \in 1..L : first + i - 1 \in 0..MaxPairs
  OBVIOUS
<1> HIDE DEF L
<1>1. \A i \in 1..L : f[i] = Cardinality(Subsets(n, first + i - 1))
  BY <1>0, CombCounts
<1>2. \A k \in Nat : Cardinality(Subsets(n, k)) \in Nat /\ IsFiniteSet(Subsets(n, k))
  <2>1. \A k \in Nat : Subsets(n, k) \in SUBSET (SUBSET (1..n)) BY DEF Subsets
  <2>2. n \in Nat OBVIOUS
  <2>3. QED BY <2>1, <2>2, SubsetsAreFinite
<1>3. f \in [1..L -> Int]
  <2>1. \A i \in 1..L : f[i] \in Int
    <3> HIDE DEF f
    <3> QED BY <1>0, <1>1, <1>2
  <2>2. f = [i \in 1..L |-> f[i]] OBVIOUS
  <2> HIDE DEF f
  <2>3. QED BY <2>1, <2>2
<1> HIDE DEF f
<1>4. F[0] = 0 /\ \A i \in 1..L : F[i] = F[i - 1] + f[i]
  BY <1>0, <1>3, PrefixSumsDef
<1> HIDE DEF F
<1>5. \A m \in Nat : IsFiniteSet(W(m)) /\ Cardinality(W(m)) \in Nat
  <2>1. \A m \in Nat : W(m) \in SUBSET (SUBSET (1..n)) BY DEF Sized
  <2> HIDE DEF W
  <2>2. n \in Nat OBVIOUS
  <2>3. QED BY <2>1, <2>2, SubsetsAreFinite
<1>6. ASSUME NEW m \in 1..L
      PROVE  Cardinality(W(m)) = Cardinality(W(m - 1)) + Cardinality(Subsets(n, first + m - 1))
  <2> DEFINE V == Subsets(n, first + m - 1)
  <2>1. m - 1 \in Nat /\ m \in Nat /\ first + m - 1 \in Nat BY <1>0
  <2>2. W(m) = W(m - 1) \cup V
    <3>1. \A k \in Int : k \in first..(first + m - 1) <=> k \in first..(first + (m - 1) - 1) \/ k = first + m - 1
      BY <2>1
    <3>2. \A X \in SUBSET (1..n) : Cardinality(X) \in Int
      BY SubsetIsFinite
    <3>3. QED BY <3>1, <3>2 DEF Sized, Subsets
  <2>3. W(m - 1) \cap V = {}
    <3>1. first + m - 1 \notin first..(first + (m - 1) - 1)
      BY <2>1
    <3>2. QED BY <3>1 DEF Sized, Subsets
  <2>4. IsFiniteSet(W(m - 1)) /\ IsFiniteSet(V) /\ Cardinality(W(m - 1)) \in Nat /\ Cardinality(V) \in Nat
    BY <1>2, <1>5, <2>1
  <2> HIDE DEF W, V
  <2>5. Cardinality(W(m - 1) \cup V) = Cardinality(W(m - 1)) + Cardinality(V) - Cardinality(W(m - 1) \cap V)
    BY <2>4, FS_Union
  <2>6. Cardinality(W(m - 1) \cap V) = 0
    BY <2>3, FS_EmptySet
  <2>7. Cardinality(W(m)) = Cardinality(W(m - 1)) + Cardinality(V)
    BY <2>2, <2>4, <2>5, <2>6
  <2>8. QED BY <2>7 DEF V
<1>7. Cardinality(W(0)) = 0
  <2>1. W(0) = {}
    <3>1. first..(first + 0 - 1) = {} OBVIOUS
    <3>2. QED BY <3>1 DEF Sized
  <2>2. QED BY <2>1, FS_EmptySet
<1>8. Bad = {}
  <2> HIDE DEF W
  <2>1. SUFFICES ASSUME Bad # {} PROVE FALSE OBVIOUS
  <2>2. PICK m \in Bad : \A i \in Bad : m <= i
    <3>1. Bad \subseteq Nat BY <1>0
    <3>2. QED BY <2>1, <3>1, LeastNatural
  <2>3. m # 0 BY <1>4, <1>7, <2>2
  <2>4. m \in 1..L /\ m - 1 \in 0..L /\ m - 1 \notin Bad
    BY <1>0, <2>2, <2>3
  <2>5. F[m - 1] = Cardinality(W(m - 1)) BY <2>4
  <2>6. F[m] = F[m - 1] + f[m] /\ f[m] = Cardinality(Subsets(n, first + m - 1)) BY <1>1, <1>4, <2>4
  <2>7. Cardinality(W(m)) = Cardinality(W(m - 1)) + Cardinality(Subsets(n, first + m - 1)) BY <1>6, <2>4
  <2>8. QED BY <2>2, <2>5, <2>6, <2>7
<1>9. F[L] = Cardinality(W(L))
  BY <1>0, <1>8
<1>10. W(L) = Sized(n, first, last)
  <2>1. first + L - 1 = last BY DEF L
  <2>2. QED BY <2>1
<1>11. Numbers!Combs(n, first, last) = F[L]
  BY StatisticsLibrary DEF Numbers!Combs, SumTo, F, f, L
<1>12. QED
  BY <1>9, <1>10, <1>11

\* The two tails, what they share once, are the ways that are as lopsided (mcnemar_exact).
LEMMA TailsAreLopsided ==
  ASSUME MaxPairs \in Nat, NEW b \in Nat, NEW c \in Nat, b + c <= MaxPairs,
         NEW n, n = b + c, NEW k, k = IF b <= c THEN b ELSE c
  PROVE  Numbers!Combs(n, 0, k) + Numbers!Combs(n, n - k, n) - (IF n - k <= k THEN Numbers!Comb[n][k] ELSE 0)
           = Numbers!Lopsided(b, c)
<1>1. n \in 0..MaxPairs /\ k \in 0..n /\ k \in 0..MaxPairs /\ n - k \in Nat /\ n - k <= n /\ k <= n - k
  OBVIOUS
<1> DEFINE A == Sized(n, 0, k)
           B == Sized(n, n - k, n)
           Abs(i) == IF i < 0 THEN -i ELSE i
<1>2. Numbers!Combs(n, 0, k) = Cardinality(A) /\ Numbers!Combs(n, n - k, n) = Cardinality(B)
  BY <1>1, CombsCount
<1>3. IsFiniteSet(A) /\ IsFiniteSet(B) /\ Cardinality(A) \in Nat /\ Cardinality(B) \in Nat
  <2>1. A \in SUBSET (SUBSET (1..n)) /\ B \in SUBSET (SUBSET (1..n)) BY DEF Sized
  <2>2. n \in Nat BY <1>1
  <2> HIDE DEF A, B
  <2>3. QED BY <2>1, <2>2, SubsetsAreFinite
<1>4. \A X \in SUBSET (1..n) : Cardinality(X) \in 0..n
  BY <1>1, SubsetIsFinite
<1>5. {X \in SUBSET (1..n) : Abs(2 * Cardinality(X) - n) >= Abs(b - c)} = A \cup B
  <2>1. \A i \in 0..n : Abs(2 * i - n) >= Abs(b - c) <=> i \in 0..k \/ i \in (n - k)..n
    BY <1>1
  <2> HIDE DEF Abs
  <2>2. QED BY <1>4, <2>1 DEF Sized
<1>6. Numbers!Lopsided(b, c) = Cardinality(A \cup B)
  <2>1. Numbers!Lopsided(b, c) = Cardinality({X \in SUBSET (1..n) : Abs(2 * Cardinality(X) - n) >= Abs(b - c)})
    BY StatisticsLibrary DEF Numbers!Lopsided
  <2> HIDE DEF A, B, Abs
  <2>2. QED BY <1>5, <2>1
<1>7. Cardinality(A \cap B) = IF n - k <= k THEN Numbers!Comb[n][k] ELSE 0
  <2>1. CASE n - k <= k
    <3>1. \A i \in Int : i \in 0..k /\ i \in (n - k)..n <=> i = k BY <1>1, <2>1
    <3>2. A \cap B = Subsets(n, k) BY <1>4, <3>1 DEF Sized, Subsets
    <3>3. QED BY <1>1, <2>1, <3>2, CombCounts
  <2>2. CASE ~(n - k <= k)
    <3>1. \A i \in Int : ~(i \in 0..k /\ i \in (n - k)..n) BY <1>1, <2>2
    <3>2. A \cap B = {} BY <1>4, <3>1 DEF Sized
    <3>3. QED BY <2>2, <3>2, FS_EmptySet
  <2>3. QED BY <2>1, <2>2
<1> HIDE DEF A, B
<1>8. Cardinality(A \cup B) = Cardinality(A) + Cardinality(B) - Cardinality(A \cap B)
  BY <1>3, FS_Union
<1>9. QED
  BY <1>2, <1>6, <1>7, <1>8

-----------------------------------------------------------------------------
\* Powers of two are natural numbers.
LEMMA PowersAreNatural ==
  ASSUME NEW n \in Nat
  PROVE  2 ^ n \in Nat
<1>1. IsFiniteSet(1..n) /\ Cardinality(1..n) = n
  BY FS_Interval
<1>2. IsFiniteSet(SUBSET (1..n)) /\ Cardinality(SUBSET (1..n)) = 2 ^ n
  BY <1>1, FS_SUBSET
<1>3. QED
  BY <1>2, FS_CardinalityType

\* The lesser of two numbers.
LEMMA LesserOfTwo ==
  ASSUME NEW x \in Int, NEW y \in Int
  PROVE  Numbers!Min({x, y}) = IF x <= y THEN x ELSE y
<1> DEFINE z == IF x <= y THEN x ELSE y
<1>1. z \in {x, y} /\ \A w \in {x, y} : z <= w
  OBVIOUS
<1>2. \A w \in {x, y} : (\A u \in {x, y} : w <= u) => w = z
  OBVIOUS
<1> HIDE DEF z
<1>3. Numbers!Min({x, y}) = z
  BY <1>1, <1>2 DEF Numbers!Min
<1>4. QED
  BY <1>3 DEF z

\* The least of some natural numbers.
LEMMA LeastOfSome ==
  ASSUME NEW U \in SUBSET Nat, U # {}
  PROVE  Numbers!Min(U) \in U /\ \A y \in U : Numbers!Min(U) <= y
<1>1. \E x \in U : \A y \in U : x <= y
  BY LeastNatural
<1>2. QED
  BY <1>1 DEF Numbers!Min

\* The greatest of some numbers is the one that is.
LEMMA GreatestIsUnique ==
  ASSUME NEW U \in SUBSET Int, NEW x \in U, \A y \in U : x >= y
  PROVE  Numbers!Max(U) = x
<1>1. \A y \in U : (\A z \in U : y >= z) => y = x
  <2>1. \A y \in U : y \in Int /\ x \in Int OBVIOUS
  <2>2. QED BY <2>1
<1>2. QED
  BY <1>1 DEF Numbers!Max

\* The greatest of some numbers that are bounded.
LEMMA GreatestOfSome ==
  ASSUME NEW n \in Nat, NEW U \in SUBSET (0..n), U # {}
  PROVE  Numbers!Max(U) \in U /\ \A y \in U : Numbers!Max(U) >= y
<1> DEFINE D == {n - y : y \in U}
<1>1. D \subseteq Nat /\ D # {}
  <2>1. \A y \in 0..n : n - y \in Nat OBVIOUS
  <2>2. \A y \in U : n - y \in Nat BY <2>1
  <2>3. QED BY <2>2
<1>2. PICK d \in D : \A e \in D : d <= e
  <2> HIDE DEF D
  <2> QED BY <1>1, LeastNatural
<1>3. PICK x \in U : d = n - x
  OBVIOUS
<1>4. \A y \in U : n - y \in D /\ y \in 0..n
  OBVIOUS
<1>5. \A y \in U : x >= y
  <2> HIDE DEF D
  <2>1. x \in 0..n BY <1>3
  <2>2. ASSUME NEW y \in U PROVE x >= y
    <3>1. n - x <= n - y /\ y \in 0..n BY <1>2, <1>3, <1>4
    <3>2. QED BY <2>1, <3>1
  <2>3. QED BY <2>2
<1>6. QED
  BY <1>5 DEF Numbers!Max

\* One, the probability 1, is a natural number.
LEMMA OneIsNatural ==
  ASSUME MaxPairs \in Nat
  PROVE  Numbers!One \in Nat
BY PowersAreNatural DEF Numbers!One

\* There are so many lopsided ways, and if nothing differed there is one.
LEMMA LopsidedIsNatural ==
  ASSUME NEW b \in Nat, NEW c \in Nat
  PROVE  Numbers!Lopsided(b, c) \in Nat /\ (b + c = 0 => Numbers!Lopsided(b, c) = 1)
<1> DEFINE Abs(i) == IF i < 0 THEN -i ELSE i
           U == {X \in SUBSET (1..(b + c)) : Abs(2 * Cardinality(X) - (b + c)) >= Abs(b - c)}
<1>1. Numbers!Lopsided(b, c) = Cardinality(U)
  BY StatisticsLibrary DEF Numbers!Lopsided
<1>2. Cardinality(U) \in Nat
  <2>1. U \in SUBSET (SUBSET (1..(b + c))) /\ b + c \in Nat OBVIOUS
  <2> HIDE DEF U
  <2>2. QED BY <2>1, SubsetsAreFinite
<1>3. b + c = 0 => U = {{}}
  <2>1. SUFFICES ASSUME b + c = 0 PROVE U = {{}} OBVIOUS
  <2>2. b = 0 /\ c = 0 /\ SUBSET (1..(b + c)) = {{}} BY <2>1
  <2>3. Abs(2 * 0 - 0) >= Abs(0 - 0) OBVIOUS
  <2>4. Cardinality({}) = 0 BY FS_EmptySet
  <2>5. QED BY <2>2, <2>3, <2>4
<1>4. QED
  <2> HIDE DEF U
  <2> QED BY <1>1, <1>2, <1>3, FS_Singleton

\* The test is exact, but for what exceeds one (mcnemar_exact).
LEMMA McNemarIsExact ==
  ASSUME MaxPairs \in Nat, NEW b \in Nat, NEW c \in Nat, b + c <= MaxPairs,
         NEW e, e = Numbers!Lopsided(b, c) * 2 ^ (MaxPairs - (b + c))
  PROVE  /\ e \in Nat
         /\ Numbers!McNemar(b, c) = IF Numbers!One <= e THEN Numbers!One ELSE e
<1>1. /\ Numbers!Lopsided(b, c) \in Nat /\ (b + c = 0 => Numbers!Lopsided(b, c) = 1)
      /\ 2 ^ (MaxPairs - (b + c)) \in Nat /\ Numbers!One \in Nat
  BY LopsidedIsNatural, PowersAreNatural, OneIsNatural
<1> DEFINE p == 2 ^ (MaxPairs - (b + c))
           l == Numbers!Lopsided(b, c)
<1>2. e \in Nat
  <2> HIDE DEF p, l
  <2>1. e = l * p BY DEF p, l
  <2>2. l \in Nat /\ p \in Nat BY <1>1 DEF p, l
  <2>3. QED BY <2>1, <2>2
<1>3. CASE b + c = 0
  <2>1. Numbers!McNemar(b, c) = Numbers!One
    BY <1>3 DEF Numbers!McNemar
  <2>2. MaxPairs - (b + c) = MaxPairs
    BY <1>3
  <2>3. e = Numbers!One
    <3>1. e = 1 * 2 ^ MaxPairs BY <1>1, <1>3, <2>2
    <3>2. QED BY <1>1, <3>1 DEF Numbers!One
  <2>4. QED BY <1>1, <1>2, <2>1, <2>3
<1>4. CASE b + c # 0
  <2> DEFINE k == IF b <= c THEN b ELSE c
             n == b + c
             tails == Numbers!Combs(n, 0, k) + Numbers!Combs(n, n - k, n)
                        - (IF n - k <= k THEN Numbers!Comb[n][k] ELSE 0)
  <2>1. Numbers!Min({b, c}) = k
    BY LesserOfTwo
  <2>2. tails = l
    BY TailsAreLopsided
  <2>3. Numbers!McNemar(b, c) = Numbers!Min({Numbers!One, tails * p})
    <3>1. b + c # 0 BY <1>4
    <3>2. QED BY <2>1, <3>1 DEF Numbers!McNemar
  <2>4. tails * p = e
    <3> HIDE DEF tails, p
    <3> QED BY <2>2 DEF p
  <2> HIDE DEF tails, p
  <2>5. Numbers!Min({Numbers!One, e}) = IF Numbers!One <= e THEN Numbers!One ELSE e
    BY <1>1, <1>2, LesserOfTwo
  <2>6. QED BY <1>2, <2>3, <2>4, <2>5
<1>5. QED
  BY <1>3, <1>4

-----------------------------------------------------------------------------
\* x, or one if it is more
AtMostOne(x) == IF Numbers!One <= x THEN Numbers!One ELSE x

\* What AtMostOne does to products: the factor may be bounded before, and the order is kept.
LEMMA AtMostOneOfProducts ==
  ASSUME MaxPairs \in Nat, NEW i \in Nat, NEW k \in Nat, NEW e \in Nat
  PROVE  /\ AtMostOne(e) \in 0..Numbers!One
         /\ i # 0 => AtMostOne(i * AtMostOne(e)) = AtMostOne(i * e)
         /\ i <= k => AtMostOne(i * e) <= AtMostOne(k * e)
<1> DEFINE one == Numbers!One
<1>1. one \in Nat BY OneIsNatural
<1> HIDE DEF one
<1>2. i * e \in Nat /\ k * e \in Nat /\ i * one \in Nat
  BY <1>1
<1>3. AtMostOne(e) \in 0..one
  BY <1>1 DEF AtMostOne, one
<1>4. ASSUME i # 0 PROVE AtMostOne(i * AtMostOne(e)) = AtMostOne(i * e)
  <2>1. CASE one <= e
    <3>1. AtMostOne(e) = one BY <2>1 DEF AtMostOne, one
    <3>2. one <= i * one BY <1>1, <1>4
    <3>3. i * one <= i * e BY <1>1, <2>1
    <3>4. one <= i * e BY <1>1, <1>2, <3>2, <3>3
    <3>5. QED BY <3>1, <3>2, <3>4 DEF AtMostOne, one
  <2>2. CASE ~(one <= e)
    <3>1. AtMostOne(e) = e BY <2>2 DEF AtMostOne, one
    <3>2. QED BY <3>1
  <2>3. QED BY <2>1, <2>2
<1>5. ASSUME i <= k PROVE AtMostOne(i * e) <= AtMostOne(k * e)
  <2>1. i * e <= k * e BY <1>5
  <2>2. QED BY <1>1, <1>2, <2>1 DEF AtMostOne, one
<1>6. QED
  BY <1>3, <1>4, <1>5 DEF one

\* the p-values of a family are its exact ones, but for what exceeds one
ExactFor(p, family) ==
  /\ IsFiniteSet(family)
  /\ \A g \in family : Numbers!Exact(g) \in Nat /\ p[g] = AtMostOne(Numbers!Exact(g))

\* Some members of a family are finitely many.
LEMMA SomeAreFinite ==
  ASSUME NEW family, IsFiniteSet(family), NEW S \in SUBSET family
  PROVE  /\ IsFiniteSet(S) /\ Cardinality(S) \in Nat /\ (S # {} => Cardinality(S) # 0)
         /\ \A T \in SUBSET S : Cardinality(T) <= Cardinality(S)
<1>1. IsFiniteSet(S)
  BY FS_Subset
<1>2. QED
  BY <1>1, FS_CardinalityType, FS_EmptySet, FS_Subset

\* Some members of a family have a least one, whose p-value is the least as well, and
\* the Bonferroni bound is that p-value's.
LEMMA BonferroniOfLeast ==
  ASSUME MaxPairs \in Nat, NEW p, NEW family, ExactFor(p, family), NEW S \in SUBSET family, S # {}
  PROVE  \E g \in S : /\ \A f \in S : p[g] <= p[f]
                      /\ Numbers!Bonferroni(S) = AtMostOne(Cardinality(S) * p[g])
<1> DEFINE U == {Numbers!Exact(f) : f \in S}
<1>1. \A f \in S : Numbers!Exact(f) \in Nat /\ p[f] = AtMostOne(Numbers!Exact(f))
  BY DEF ExactFor
<1>2. Numbers!Min(U) \in U /\ \A y \in U : Numbers!Min(U) <= y
  <2>1. U \in SUBSET Nat /\ U # {} BY <1>1
  <2> HIDE DEF U
  <2>2. QED BY <2>1, LeastOfSome
<1>3. PICK g \in S : Numbers!Exact(g) = Numbers!Min(U)
  BY <1>2
<1>4. \A f \in S : Numbers!Exact(g) <= Numbers!Exact(f)
  <2>1. \A f \in S : Numbers!Exact(f) \in U OBVIOUS
  <2> HIDE DEF U
  <2>2. QED BY <1>2, <1>3, <2>1
<1>5. Numbers!One \in Nat
  BY OneIsNatural
<1>6. \A f \in S : p[g] <= p[f]
  <2>1. \A x, y \in Nat : x <= y => AtMostOne(x) <= AtMostOne(y)
    BY <1>5 DEF AtMostOne
  <2>2. QED BY <1>1, <1>4, <2>1
<1>7. Cardinality(S) \in Nat /\ Cardinality(S) # 0
  BY SomeAreFinite DEF ExactFor
<1>8. Numbers!Bonferroni(S) = AtMostOne(Cardinality(S) * Numbers!Exact(g))
  <2>1. Numbers!Bonferroni(S) = Numbers!Min({Numbers!One, Cardinality(S) * Numbers!Exact(g)})
    BY <1>3, StatisticsLibrary DEF Numbers!Bonferroni
  <2>2. Cardinality(S) * Numbers!Exact(g) \in Nat
    BY <1>1, <1>7
  <2>3. QED BY <1>5, <2>1, <2>2, LesserOfTwo DEF AtMostOne
<1>9. AtMostOne(Cardinality(S) * p[g]) = AtMostOne(Cardinality(S) * Numbers!Exact(g))
  BY <1>1, <1>7, AtMostOneOfProducts
<1>10. QED
  BY <1>6, <1>8, <1>9

\* A p-value is scaled by as many as there are from it on.
LEMMA ScaledByTheRest ==
  ASSUME MaxPairs \in Nat, NEW p, NEW family, ExactFor(p, family), NEW g \in family
  PROVE  LET R == {f \in family : p[g] <= p[f]} IN
         /\ Numbers!Scaled(p, family, g) = AtMostOne(Cardinality(R) * p[g])
         /\ Numbers!Scaled(p, family, g) \in 0..Numbers!One
<1> DEFINE R == {f \in family : p[g] <= p[f]}
           B == Numbers!Before(p, family, g)
<1>1. \A f \in family : p[f] \in Nat
  BY AtMostOneOfProducts DEF ExactFor
<1>2. R = family \ B
  BY <1>1 DEF Numbers!Before
<1>3. IsFiniteSet(family) /\ family \cap B = B /\ B \subseteq family
  BY DEF ExactFor, Numbers!Before
<1>4. Cardinality(R) = Cardinality(family) - Cardinality(B) /\ Cardinality(R) \in Nat
  <2> HIDE DEF R, B
  <2>1. Cardinality(R) = Cardinality(family) - Cardinality(family \cap B)
    BY <1>2, <1>3, FS_Difference
  <2>2. Cardinality(R) \in Nat
    BY <1>2, <1>3, SomeAreFinite
  <2>3. QED BY <1>3, <2>1, <2>2
<1>5. Numbers!Scaled(p, family, g) = Numbers!Min({Numbers!One, Cardinality(R) * p[g]})
  BY <1>4, StatisticsLibrary DEF Numbers!Scaled
<1>6. Cardinality(R) * p[g] \in Nat /\ Numbers!One \in Nat
  BY <1>1, <1>4, OneIsNatural
<1>7. QED
  <2> HIDE DEF R
  <2>1. Numbers!Scaled(p, family, g) = AtMostOne(Cardinality(R) * p[g])
    BY <1>5, <1>6, LesserOfTwo DEF AtMostOne
  <2>2. Numbers!Scaled(p, family, g) \in 0..Numbers!One
    BY <1>6, <2>1 DEF AtMostOne
  <2>3. QED BY <2>1, <2>2 DEF R

\* the worst bound over the sets of hypotheses of the family that h is in
Closed(p, family, h) == Numbers!Max({Numbers!Bonferroni(S \cup {h}) : S \in SUBSET family})

\* Holm's procedure is the closed test (holm, holm_for_family, holm_correct_family).
LEMMA HolmIsClosed ==
  ASSUME MaxPairs \in Nat, NEW p, NEW family, ExactFor(p, family), NEW h \in family
  PROVE  /\ Numbers!Holm(p, family)[h] = Closed(p, family, h)
         /\ Numbers!Holm(p, family)[h] \in 0..Numbers!One
<1> DEFINE G == {f \in family : p[f] <= p[h]}
           H == {Numbers!Scaled(p, family, g) : g \in G}
           C == {Numbers!Bonferroni(S \cup {h}) : S \in SUBSET family}
           x == Numbers!Max(H)
<1>0. Numbers!One \in Nat
  BY OneIsNatural
<1>1. \A f \in family : p[f] \in Nat
  BY AtMostOneOfProducts DEF ExactFor
<1>2. x \in H /\ \A y \in H : x >= y
  <2>1. H \in SUBSET (0..Numbers!One) BY ScaledByTheRest
  <2>2. h \in G BY <1>1
  <2>3. H # {} BY <2>2
  <2> HIDE DEF H
  <2>4. QED BY <1>0, <2>1, <2>3, GreatestOfSome
<1>3. x \in 0..Numbers!One
  <2>1. H \in SUBSET (0..Numbers!One) BY ScaledByTheRest
  <2> HIDE DEF H
  <2>2. QED BY <1>2, <2>1
<1>4. Numbers!Holm(p, family)[h] = x
  BY DEF Numbers!Holm
<1>5. H \subseteq C
  <2> SUFFICES ASSUME NEW g \in G PROVE Numbers!Scaled(p, family, g) \in C
    OBVIOUS
  <2> DEFINE R == {f \in family : p[g] <= p[f]}
  <2>1. R \in SUBSET family /\ g \in R /\ h \in R
    BY <1>1
  <2>2. Numbers!Scaled(p, family, g) = AtMostOne(Cardinality(R) * p[g])
    BY ScaledByTheRest
  <2>3. PICK f \in R : (\A e \in R : p[f] <= p[e])
                       /\ Numbers!Bonferroni(R) = AtMostOne(Cardinality(R) * p[f])
    <3> HIDE DEF R
    <3> QED BY <2>1, BonferroniOfLeast
  <2>4. p[f] = p[g]
    <3>1. p[f] <= p[g] BY <2>1, <2>3
    <3>2. p[g] <= p[f] /\ p[f] \in Nat /\ p[g] \in Nat BY <1>1
    <3>3. QED BY <3>1, <3>2
  <2> HIDE DEF R
  <2>5. Numbers!Scaled(p, family, g) = Numbers!Bonferroni(R \cup {h})
    <3>1. R \cup {h} = R BY <2>1
    <3>2. QED BY <2>2, <2>3, <2>4, <3>1
  <2>6. QED BY <2>1, <2>5
<1>6. ASSUME NEW S \in SUBSET family
      PROVE  Numbers!Bonferroni(S \cup {h}) \in Int /\ Numbers!Bonferroni(S \cup {h}) <= x
  <2> DEFINE T == S \cup {h}
  <2>1. T \in SUBSET family /\ T # {} /\ h \in T
    OBVIOUS
  <2> HIDE DEF T
  <2>2. PICK g \in T : (\A f \in T : p[g] <= p[f])
                       /\ Numbers!Bonferroni(T) = AtMostOne(Cardinality(T) * p[g])
    BY <2>1, BonferroniOfLeast
  <2> DEFINE R == {f \in family : p[g] <= p[f]}
  <2>3. T \in SUBSET R /\ R \in SUBSET family /\ g \in family
    BY <2>1, <2>2
  <2>4. Numbers!Scaled(p, family, g) = AtMostOne(Cardinality(R) * p[g])
        /\ Numbers!Scaled(p, family, g) \in 0..Numbers!One
    BY <2>3, ScaledByTheRest
  <2> HIDE DEF R
  <2>5. Cardinality(T) \in Nat /\ Cardinality(R) \in Nat /\ Cardinality(T) <= Cardinality(R)
    BY <2>1, <2>3, SomeAreFinite DEF ExactFor
  <2>6. AtMostOne(Cardinality(T) * p[g]) <= AtMostOne(Cardinality(R) * p[g])
    BY <1>1, <2>3, <2>5, AtMostOneOfProducts
  <2>7. Numbers!Scaled(p, family, g) \in H
    BY <2>1, <2>2, <2>3
  <2>8. Numbers!Scaled(p, family, g) <= x
    BY <1>2, <1>3, <2>4, <2>7
  <2>9. Numbers!Bonferroni(T) \in Int
    <3>1. Cardinality(T) * p[g] \in Nat BY <1>1, <2>3, <2>5
    <3>2. QED BY <1>0, <2>2, <3>1 DEF AtMostOne
  <2>10. QED
    <3> HIDE DEF x
    <3>1. x \in Int BY <1>3
    <3>2. Numbers!Bonferroni(T) <= x BY <2>2, <2>4, <2>6, <2>8, <2>9, <3>1
    <3>3. QED BY <2>9, <3>2 DEF T
<1>7. Numbers!Max(C) = x
  <2> HIDE DEF x, H
  <2>1. C \in SUBSET Int BY <1>6
  <2>2. \A y \in C : x >= y
    <3>1. \A y \in C : y \in Int /\ y <= x BY <1>6
    <3>2. x \in Int BY <1>3
    <3> HIDE DEF C
    <3>3. QED BY <3>1, <3>2
  <2> HIDE DEF C
  <2>3. QED BY <1>2, <1>5, <2>1, <2>2, GreatestIsUnique
<1>8. Numbers!Holm(p, family)[h] = Numbers!Max(C)
  BY <1>4, <1>7, Zenon
<1>9. Numbers!Holm(p, family)[h] = Closed(p, family, h)
  BY <1>8, Zenon DEF Closed
<1>10. Numbers!Holm(p, family)[h] \in 0..Numbers!One
  BY <1>3, <1>4, Zenon
<1>11. QED
  BY <1>9, <1>10

-----------------------------------------------------------------------------
\* The p-values of the comparisons made are exact.
LEMMA ComparedIsExact ==
  ASSUME Numbers!StatisticsAssumption, Numbers!StatisticsInv
  PROVE  MaxPairs \in Nat /\ \A family \in SUBSET Numbers!Compared : ExactFor(v2, family)
<1>1. MaxPairs \in Nat /\ IsFiniteSet(Hypotheses)
  BY DEF Numbers!StatisticsAssumption, Numbers!IsFiniteSet, IsFiniteSet
<1>2. \A family \in SUBSET Numbers!Compared : IsFiniteSet(family)
  BY <1>1, FS_Subset DEF Numbers!Compared
<1>3. ASSUME NEW g \in Numbers!Compared
      PROVE  Numbers!Exact(g) \in Nat /\ v2[g] = AtMostOne(Numbers!Exact(g))
  <2>1. g \in Hypotheses
    BY DEF Numbers!Compared
  <2>2. v1[g].b \in 0..MaxPairs /\ v1[g].c \in 0..MaxPairs /\ v1[g].b + v1[g].c <= MaxPairs
    <3>1. v1[g] \in [n : 0..MaxPairs, b : 0..MaxPairs, c : 0..MaxPairs]
      BY <2>1 DEF Numbers!StatisticsInv, Numbers!StatisticsTypeOK
    <3>2. v1[g].b + v1[g].c <= v1[g].n
      BY <2>1 DEF Numbers!StatisticsInv, Numbers!PairsDifferAtMostOnce
    <3>3. QED BY <1>1, <3>1, <3>2
  <2>3. v2[g] = Numbers!McNemar(v1[g].b, v1[g].c)
    BY DEF Numbers!StatisticsInv, Numbers!PValuesAreOfThePairs
  <2>4. QED
    BY <1>1, <2>2, <2>3, McNemarIsExact DEF Numbers!Exact, AtMostOne
<1>4. QED
  BY <1>1, <1>2, <1>3 DEF ExactFor

\* A p-value is at most one.
LEMMA PValueIsAProbability ==
  ASSUME MaxPairs \in Nat, NEW b \in Nat, NEW c \in Nat, b + c <= MaxPairs
  PROVE  Numbers!McNemar(b, c) \in 0..Numbers!One
<1> DEFINE e == Numbers!Lopsided(b, c) * 2 ^ (MaxPairs - (b + c))
<1>1. e \in Nat /\ Numbers!McNemar(b, c) = IF Numbers!One <= e THEN Numbers!One ELSE e
  BY McNemarIsExact
<1>2. Numbers!One \in Nat BY OneIsNatural
<1> HIDE DEF e
<1>3. QED BY <1>1, <1>2

\* Alone, a p-value stays what it is.
LEMMA HolmOfOne ==
  ASSUME MaxPairs \in Nat, NEW p, NEW h, p[h] \in 0..Numbers!One
  PROVE  Numbers!Holm(p, {h})[h] = p[h]
<1>1. Numbers!One \in Nat BY OneIsNatural
<1>2. {f \in {h} : p[f] <= p[h]} = {h}
  <2>1. p[h] <= p[h] BY <1>1
  <2>2. QED BY <2>1
<1>3. Numbers!Before(p, {h}, h) = {}
  <2>1. ~(p[h] < p[h]) BY <1>1
  <2>2. QED BY <2>1 DEF Numbers!Before
<1>4. Cardinality({h}) = 1 /\ Cardinality({}) = 0
  BY FS_EmptySet, FS_Singleton
<1>5. Numbers!Scaled(p, {h}, h) = p[h]
  <2>1. Numbers!Scaled(p, {h}, h) = Numbers!Min({Numbers!One, (1 - 0) * p[h]})
    BY <1>3, <1>4, StatisticsLibrary DEF Numbers!Scaled
  <2>2. (1 - 0) * p[h] = p[h] BY <1>1
  <2>3. Numbers!Min({Numbers!One, p[h]}) = IF Numbers!One <= p[h] THEN Numbers!One ELSE p[h]
    BY <1>1, LesserOfTwo
  <2>4. QED BY <1>1, <2>1, <2>2, <2>3
<1>6. Numbers!Holm(p, {h})[h] = Numbers!Max({p[h]})
  <2>1. Numbers!Holm(p, {h})[h] =
          Numbers!Max({Numbers!Scaled(p, {h}, g) : g \in {f \in {h} : p[f] <= p[h]}})
    BY DEF Numbers!Holm
  <2>2. QED BY <1>2, <1>5, <2>1
<1>7. Numbers!Max({p[h]}) = p[h]
  BY <1>1, GreatestIsUnique
<1>8. QED BY <1>6, <1>7

\* Where two families of p-values agree, so do their corrections.
LEMMA HolmIsLocal ==
  ASSUME NEW p, NEW q, NEW family, \A f \in family : p[f] = q[f], NEW h \in family
  PROVE  Numbers!Holm(p, family)[h] = Numbers!Holm(q, family)[h]
<1>1. \A g \in family : Numbers!Before(p, family, g) = Numbers!Before(q, family, g)
  BY DEF Numbers!Before
<1>2. \A g \in family : Numbers!Scaled(p, family, g) = Numbers!Scaled(q, family, g)
  BY <1>1 DEF Numbers!Scaled
<1>3. {f \in family : p[f] <= p[h]} = {f \in family : q[f] <= q[h]}
  OBVIOUS
<1>4. {Numbers!Scaled(p, family, g) : g \in {f \in family : p[f] <= p[h]}}
      = {Numbers!Scaled(q, family, g) : g \in {f \in family : q[f] <= q[h]}}
  BY <1>2, <1>3
<1>5. QED BY <1>4 DEF Numbers!Holm

\* The invariant holds at the start.
LEMMA StatisticsInitHolds ==
  ASSUME Numbers!StatisticsAssumption, Numbers!StatisticsInit
  PROVE  Numbers!StatisticsInv
<1>1. MaxPairs \in Nat /\ Numbers!One \in Nat
  BY OneIsNatural DEF Numbers!StatisticsAssumption
<1>2. Numbers!StatisticsTypeOK
  BY <1>1 DEF Numbers!StatisticsInit, Numbers!StatisticsTypeOK, Numbers!None
<1>3. Numbers!PairsDifferAtMostOnce
  BY DEF Numbers!StatisticsInit, Numbers!PairsDifferAtMostOnce
<1>4. Numbers!Compared = {} /\ Numbers!Corrected = {}
  BY DEF Numbers!StatisticsInit, Numbers!Compared, Numbers!Corrected
<1>5. QED
  BY <1>2, <1>3, <1>4 DEF Numbers!StatisticsInv, Numbers!PValuesAreOfThePairs, Numbers!CorrectedAmongCompared

\* What was corrected stays so while p-values are only added.
LEMMA CorrectedStays ==
  ASSUME Numbers!StatisticsInv, v3' = v3, v4' = v4,
         \A g \in Numbers!Compared : v2'[g] = v2[g]
  PROVE  Numbers!CorrectedAmongCompared'
<1>1. \A g \in Numbers!Compared : g \in Numbers!Compared'
  BY DEF Numbers!Compared
<1>2. ASSUME NEW h \in Numbers!Corrected
      PROVE  /\ v4[h] \subseteq Numbers!Compared' /\ h \in v4[h]
             /\ v3[h] = Numbers!Holm(v2', v4[h])[h]
  <2>1. /\ v4[h] \subseteq Numbers!Compared /\ h \in v4[h]
        /\ v3[h] = Numbers!Holm(v2, v4[h])[h]
    BY DEF Numbers!StatisticsInv, Numbers!CorrectedAmongCompared
  <2>2. Numbers!Holm(v2', v4[h])[h] = Numbers!Holm(v2, v4[h])[h]
    BY <2>1, HolmIsLocal
  <2>3. QED BY <1>1, <2>1, <2>2
<1>3. Numbers!Corrected' = Numbers!Corrected
  BY DEF Numbers!Corrected
<1>4. QED
  BY <1>2, <1>3 DEF Numbers!CorrectedAmongCompared

\* Another pair belongs to a comparison that was not made.
LEMMA StatisticsPairHolds ==
  ASSUME Numbers!StatisticsAssumption, Numbers!StatisticsInv,
         NEW h \in Hypotheses, NEW d \in {-1, 0, 1}, Numbers!Pair(h, d)
  PROVE  Numbers!StatisticsInv'
<1> DEFINE x == IF d < 0 THEN 1 ELSE 0
           y == IF d > 0 THEN 1 ELSE 0
           r == [n |-> v1[h].n + 1, b |-> v1[h].b + x, c |-> v1[h].c + y]
<1>1. /\ v1[h].n < MaxPairs /\ v2[h] = Numbers!None
      /\ v1' = [v1 EXCEPT ![h] = r] /\ v2' = v2 /\ v3' = v3 /\ v4' = v4
  BY DEF Numbers!Pair
<1>2. /\ MaxPairs \in Nat /\ v1 \in [Hypotheses -> [n : 0..MaxPairs, b : 0..MaxPairs, c : 0..MaxPairs]]
      /\ v1[h].b + v1[h].c <= v1[h].n
  BY DEF Numbers!StatisticsAssumption, Numbers!StatisticsInv, Numbers!StatisticsTypeOK,
    Numbers!PairsDifferAtMostOnce
<1>3. x \in 0..1 /\ y \in 0..1 /\ x + y <= 1
  OBVIOUS
<1>4. r \in [n : 0..MaxPairs, b : 0..MaxPairs, c : 0..MaxPairs] /\ r.b + r.c <= r.n
  <2> HIDE DEF x, y
  <2>1. v1[h] \in [n : 0..MaxPairs, b : 0..MaxPairs, c : 0..MaxPairs] BY <1>2
  <2>2. v1[h].n + 1 \in 0..MaxPairs /\ v1[h].b + x \in 0..MaxPairs /\ v1[h].c + y \in 0..MaxPairs
        /\ (v1[h].b + x) + (v1[h].c + y) <= v1[h].n + 1
    BY <1>1, <1>2, <1>3, <2>1
  <2>3. QED BY <2>2
<1> HIDE DEF r
<1>5. v1' \in [Hypotheses -> [n : 0..MaxPairs, b : 0..MaxPairs, c : 0..MaxPairs]]
  BY <1>1, <1>2, <1>4
<1>6. Numbers!PairsDifferAtMostOnce'
  BY <1>1, <1>2, <1>4 DEF Numbers!StatisticsInv, Numbers!PairsDifferAtMostOnce
<1>7. Numbers!PValuesAreOfThePairs'
  <2>1. Numbers!Compared' = Numbers!Compared /\ h \notin Numbers!Compared
    BY <1>1 DEF Numbers!Compared
  <2>2. \A g \in Numbers!Compared : v1'[g] = v1[g]
    BY <1>1, <1>2, <2>1
  <2>3. \A g \in Numbers!Compared : v2[g] = Numbers!McNemar(v1[g].b, v1[g].c)
    BY DEF Numbers!StatisticsInv, Numbers!PValuesAreOfThePairs
  <2>4. QED
    BY <1>1, <2>1, <2>2, <2>3 DEF Numbers!PValuesAreOfThePairs
<1>8. Numbers!CorrectedAmongCompared'
  BY <1>1, CorrectedStays
<1>9. QED
  BY <1>1, <1>5, <1>6, <1>7, <1>8 DEF Numbers!StatisticsInv, Numbers!StatisticsTypeOK

\* A p-value is of the pairs as they stand, whoever takes it.
LEMMA PValueHolds ==
  ASSUME Numbers!StatisticsAssumption, Numbers!StatisticsInv, NEW h \in Hypotheses, v2[h] = Numbers!None,
         v2' = [v2 EXCEPT ![h] = Numbers!McNemar(v1[h].b, v1[h].c)], v1' = v1
  PROVE  /\ v2' \in [Hypotheses -> Numbers!None..Numbers!One] /\ v2'[h] \in 0..Numbers!One
         /\ h \notin Numbers!Compared /\ h \in Numbers!Compared'
         /\ \A g \in Numbers!Compared : v2'[g] = v2[g]
         /\ Numbers!PValuesAreOfThePairs' /\ Numbers!PairsDifferAtMostOnce'
<1> DEFINE p == Numbers!McNemar(v1[h].b, v1[h].c)
<1>1. v2' = [v2 EXCEPT ![h] = p]
  OBVIOUS
<1>2. /\ MaxPairs \in Nat /\ v1 \in [Hypotheses -> [n : 0..MaxPairs, b : 0..MaxPairs, c : 0..MaxPairs]]
      /\ v2 \in [Hypotheses -> Numbers!None..Numbers!One]
      /\ v1[h].b + v1[h].c <= v1[h].n
  BY DEF Numbers!StatisticsAssumption, Numbers!StatisticsInv, Numbers!StatisticsTypeOK,
    Numbers!PairsDifferAtMostOnce
<1>3. p \in 0..Numbers!One
  <2>1. v1[h] \in [n : 0..MaxPairs, b : 0..MaxPairs, c : 0..MaxPairs] BY <1>2
  <2>2. v1[h].b \in Nat /\ v1[h].c \in Nat /\ v1[h].b + v1[h].c <= MaxPairs BY <1>2, <2>1
  <2>3. QED BY <1>2, <2>2, PValueIsAProbability
<1>4. p \in Numbers!None..Numbers!One /\ p # Numbers!None
  <2> HIDE DEF p
  <2>1. Numbers!One \in Nat BY <1>2, OneIsNatural
  <2>2. QED BY <1>3, <2>1 DEF Numbers!None
<1>5. v2' \in [Hypotheses -> Numbers!None..Numbers!One] /\ v2'[h] = p
      /\ \A g \in Hypotheses : g # h => v2'[g] = v2[g]
  <2> HIDE DEF p
  <2>1. QED BY <1>1, <1>2, <1>4
<1>6. h \notin Numbers!Compared /\ h \in Numbers!Compared'
      /\ \A g \in Numbers!Compared : v2'[g] = v2[g]
  <2> HIDE DEF p
  <2>1. QED BY <1>4, <1>5 DEF Numbers!Compared
<1>7. Numbers!PValuesAreOfThePairs'
  <2> SUFFICES ASSUME NEW g \in Numbers!Compared' PROVE v2'[g] = Numbers!McNemar(v1[g].b, v1[g].c)
    BY DEF Numbers!PValuesAreOfThePairs
  <2>1. g \in Hypotheses /\ v2'[g] # Numbers!None
    BY DEF Numbers!Compared
  <2>2. CASE g = h
    BY <1>5, <2>2
  <2>3. CASE g # h
    <3>1. v2'[g] = v2[g]
      BY <1>5, <2>1, <2>3
    <3>2. g \in Numbers!Compared BY <2>1, <3>1 DEF Numbers!Compared
    <3>3. QED BY <3>1, <3>2 DEF Numbers!StatisticsInv, Numbers!PValuesAreOfThePairs
  <2>4. QED BY <2>2, <2>3
<1>8. Numbers!PairsDifferAtMostOnce'
  BY DEF Numbers!StatisticsInv, Numbers!PairsDifferAtMostOnce
<1>9. QED
  BY <1>3, <1>5, <1>6, <1>7, <1>8

\* The script's p-value is not corrected yet.
LEMMA StatisticsTestHolds ==
  ASSUME Numbers!StatisticsAssumption, Numbers!StatisticsInv, NEW h \in Hypotheses, Numbers!Test(h)
  PROVE  Numbers!StatisticsInv'
<1>1. /\ v2[h] = Numbers!None /\ v2' = [v2 EXCEPT ![h] = Numbers!McNemar(v1[h].b, v1[h].c)]
      /\ v1' = v1 /\ v3' = v3 /\ v4' = v4
  BY DEF Numbers!Test
<1>2. /\ v2' \in [Hypotheses -> Numbers!None..Numbers!One]
      /\ \A g \in Numbers!Compared : v2'[g] = v2[g]
      /\ Numbers!PValuesAreOfThePairs' /\ Numbers!PairsDifferAtMostOnce'
  BY <1>1, PValueHolds
<1>3. Numbers!CorrectedAmongCompared'
  BY <1>1, <1>2, CorrectedStays
<1>4. QED
  BY <1>1, <1>2, <1>3 DEF Numbers!StatisticsInv, Numbers!StatisticsTypeOK

\* A comparison is corrected alone: what it gets is its own p-value.
LEMMA StatisticsCompareHolds ==
  ASSUME Numbers!StatisticsAssumption, Numbers!StatisticsInv, NEW h \in Hypotheses, Numbers!Compare(h)
  PROVE  Numbers!StatisticsInv'
<1> DEFINE p == [v2 EXCEPT ![h] = Numbers!McNemar(v1[h].b, v1[h].c)]
<1>1. /\ v2[h] = Numbers!None /\ v2' = p /\ v1' = v1
      /\ v3' = [g \in Hypotheses |-> IF g \in {h} THEN Numbers!Holm(p, {h})[g] ELSE v3[g]]
      /\ v4' = [g \in Hypotheses |-> IF g \in {h} THEN {h} ELSE v4[g]]
  BY DEF Numbers!Compare, Numbers!Corrects
<1>2. /\ p \in [Hypotheses -> Numbers!None..Numbers!One] /\ p[h] \in 0..Numbers!One
      /\ h \notin Numbers!Compared /\ h \in Numbers!Compared'
      /\ \A g \in Numbers!Compared : v2'[g] = v2[g]
      /\ Numbers!PValuesAreOfThePairs' /\ Numbers!PairsDifferAtMostOnce'
  BY <1>1, PValueHolds
<1> HIDE DEF p
<1>3. Numbers!Holm(p, {h})[h] \in Numbers!None..Numbers!One
  <2>1. MaxPairs \in Nat BY DEF Numbers!StatisticsAssumption
  <2>2. Numbers!Holm(p, {h})[h] = p[h] BY <1>2, <2>1, HolmOfOne
  <2>3. QED BY <1>2, <2>2
<1>4. Numbers!StatisticsTypeOK'
  <2>1. /\ v1 \in [Hypotheses -> [n : 0..MaxPairs, b : 0..MaxPairs, c : 0..MaxPairs]]
        /\ v3 \in [Hypotheses -> Numbers!None..Numbers!One] /\ v4 \in [Hypotheses -> SUBSET Hypotheses]
    BY DEF Numbers!StatisticsInv, Numbers!StatisticsTypeOK
  <2>2. v3' \in [Hypotheses -> Numbers!None..Numbers!One]
    BY <1>1, <1>3, <2>1
  <2>3. v4' \in [Hypotheses -> SUBSET Hypotheses]
    BY <1>1, <2>1
  <2>4. QED BY <1>1, <1>2, <2>1, <2>2, <2>3 DEF Numbers!StatisticsTypeOK
<1>5. \A g \in Numbers!Compared : g \in Numbers!Compared'
  BY <1>2 DEF Numbers!Compared
<1>6. ASSUME NEW g \in Numbers!Corrected'
      PROVE  /\ v4'[g] \subseteq Numbers!Compared' /\ g \in v4'[g]
             /\ v3'[g] = Numbers!Holm(p, v4'[g])[g]
  <2>1. g \in Hypotheses /\ v3'[g] # Numbers!None
    BY DEF Numbers!Corrected
  <2>2. CASE g = h
    BY <1>1, <1>2, <2>2
  <2>3. CASE g # h
    <3>1. v3'[g] = v3[g] /\ v4'[g] = v4[g] BY <1>1, <2>1, <2>3
    <3>2. g \in Numbers!Corrected BY <2>1, <3>1 DEF Numbers!Corrected
    <3>3. /\ v4[g] \subseteq Numbers!Compared /\ g \in v4[g]
          /\ v3[g] = Numbers!Holm(v2, v4[g])[g]
      BY <3>2 DEF Numbers!StatisticsInv, Numbers!CorrectedAmongCompared
    <3>4. Numbers!Holm(p, v4[g])[g] = Numbers!Holm(v2, v4[g])[g]
      <4>1. \A f \in v4[g] : p[f] = v2[f] BY <1>1, <1>2, <3>3
      <4>2. QED BY <3>3, <4>1, HolmIsLocal
    <3>5. QED BY <1>5, <3>1, <3>3, <3>4
  <2>4. QED BY <2>2, <2>3
<1>7. Numbers!CorrectedAmongCompared'
  BY <1>1, <1>6 DEF Numbers!CorrectedAmongCompared
<1>8. QED
  BY <1>2, <1>4, <1>7 DEF Numbers!StatisticsInv

\* A correction of comparisons that were made.
LEMMA StatisticsCorrectHolds ==
  ASSUME Numbers!StatisticsAssumption, Numbers!StatisticsInv,
         NEW family \in SUBSET Numbers!Compared, Numbers!Corrects(v2, family), v1' = v1, v2' = v2
  PROVE  Numbers!StatisticsInv'
<1>1. /\ v3' = [h \in Hypotheses |-> IF h \in family THEN Numbers!Holm(v2, family)[h] ELSE v3[h]]
      /\ v4' = [h \in Hypotheses |-> IF h \in family THEN family ELSE v4[h]]
  BY DEF Numbers!Corrects
<1>2. MaxPairs \in Nat /\ ExactFor(v2, family) /\ Numbers!One \in Nat
  BY ComparedIsExact, OneIsNatural
<1>3. \A h \in family : Numbers!Holm(v2, family)[h] \in 0..Numbers!One
  BY <1>2, HolmIsClosed
<1>4. /\ v3 \in [Hypotheses -> Numbers!None..Numbers!One] /\ v4 \in [Hypotheses -> SUBSET Hypotheses]
      /\ family \subseteq Hypotheses
  BY DEF Numbers!StatisticsInv, Numbers!StatisticsTypeOK, Numbers!Compared
<1>5. v3' \in [Hypotheses -> Numbers!None..Numbers!One]
  <2>1. \A h \in Hypotheses :
          (IF h \in family THEN Numbers!Holm(v2, family)[h] ELSE v3[h]) \in Numbers!None..Numbers!One
    <3>1. \A i \in 0..Numbers!One : i \in Numbers!None..Numbers!One BY <1>2 DEF Numbers!None
    <3>2. QED BY <1>3, <1>4, <3>1
  <2>2. QED BY <1>1, <2>1
<1>6. v4' \in [Hypotheses -> SUBSET Hypotheses]
  BY <1>1, <1>4
<1>7. Numbers!StatisticsTypeOK'
  BY <1>5, <1>6 DEF Numbers!StatisticsInv, Numbers!StatisticsTypeOK
<1>8. Numbers!PairsDifferAtMostOnce' /\ Numbers!PValuesAreOfThePairs' /\ Numbers!Compared' = Numbers!Compared
  BY DEF Numbers!StatisticsInv, Numbers!PairsDifferAtMostOnce, Numbers!PValuesAreOfThePairs, Numbers!Compared
<1>9. ASSUME NEW g \in Numbers!Corrected'
      PROVE  /\ v4'[g] \subseteq Numbers!Compared /\ g \in v4'[g]
             /\ v3'[g] = Numbers!Holm(v2, v4'[g])[g]
  <2>1. g \in Hypotheses /\ v3'[g] # Numbers!None
    BY DEF Numbers!Corrected
  <2>2. CASE g \in family
    BY <1>1, <2>1, <2>2
  <2>3. CASE g \notin family
    <3>1. v3'[g] = v3[g] /\ v4'[g] = v4[g] BY <1>1, <2>1, <2>3
    <3>2. g \in Numbers!Corrected BY <2>1, <3>1 DEF Numbers!Corrected
    <3>3. QED BY <3>1, <3>2 DEF Numbers!StatisticsInv, Numbers!CorrectedAmongCompared
  <2>4. QED BY <2>2, <2>3
<1>10. Numbers!CorrectedAmongCompared'
  BY <1>8, <1>9 DEF Numbers!CorrectedAmongCompared
<1>11. QED
  BY <1>7, <1>8, <1>10 DEF Numbers!StatisticsInv

\* What leaves the statistics alone keeps it.
LEMMA StatisticsQuietHolds ==
  ASSUME Numbers!StatisticsInv, UNCHANGED <<v1, v2, v3, v4>>
  PROVE  Numbers!StatisticsInv'
<1>1. v1' = v1 /\ v2' = v2 /\ v3' = v3 /\ v4' = v4 /\ Numbers!Compared' = Numbers!Compared
  BY DEF Numbers!Compared
<1>2. Numbers!StatisticsTypeOK' /\ Numbers!PairsDifferAtMostOnce' /\ Numbers!PValuesAreOfThePairs'
  BY <1>1 DEF Numbers!StatisticsInv, Numbers!StatisticsTypeOK, Numbers!PairsDifferAtMostOnce,
    Numbers!PValuesAreOfThePairs
<1>3. Numbers!CorrectedAmongCompared'
  BY <1>1, CorrectedStays
<1>4. QED
  BY <1>2, <1>3 DEF Numbers!StatisticsInv

\* Every step keeps it.
LEMMA StatisticsStepHolds ==
  ASSUME Numbers!StatisticsAssumption, Numbers!StatisticsInv, Numbers!StatisticsNext \/ UNCHANGED slots
  PROVE  Numbers!StatisticsInv'
<1>1. CASE UNCHANGED slots
  BY <1>1, StatisticsQuietHolds DEF slots
<1>2. ASSUME NEW given \in SUBSET Hypotheses, Numbers!CorrectThese(given)
      PROVE  Numbers!StatisticsInv'
  <2>1. given \cap Numbers!Compared \in SUBSET Numbers!Compared OBVIOUS
  <2>2. QED BY <1>2, <2>1, StatisticsCorrectHolds DEF Numbers!CorrectThese
<1>3. CASE Numbers!CorrectDeclared
  BY <1>3, StatisticsCorrectHolds DEF Numbers!CorrectDeclared
<1>4. CASE Numbers!StatisticsNext
  BY <1>2, <1>3, <1>4, StatisticsPairHolds, StatisticsCompareHolds, StatisticsTestHolds
    DEF Numbers!StatisticsNext
<1>5. QED
  BY <1>1, <1>4

\* What was corrected among comparisons is what their closed test gives.
LEMMA StatisticsInvIsClosed ==
  ASSUME Numbers!StatisticsAssumption, Numbers!StatisticsInv
  PROVE  Numbers!CorrectionIsAClosedTest
<1>1. SUFFICES ASSUME NEW h \in Numbers!Corrected
               PROVE  v3[h] = Closed(v2, v4[h], h)
  BY DEF Numbers!CorrectionIsAClosedTest, Closed
<1>2. v4[h] \subseteq Numbers!Compared /\ h \in v4[h] /\ v3[h] = Numbers!Holm(v2, v4[h])[h]
  BY DEF Numbers!StatisticsInv, Numbers!CorrectedAmongCompared
<1>3. MaxPairs \in Nat /\ ExactFor(v2, v4[h])
  BY <1>2, ComparedIsExact
<1>4. QED
  BY <1>2, <1>3, HolmIsClosed

\* The statistics keep what a correction rests on.
LEMMA StatisticsInvariant == Spec => [](subject = "statistics" => Numbers!StatisticsInv)
<1> DEFINE Inv == subject = "statistics" => Numbers!StatisticsInv
<1> USE PartsAssumption DEF PartsAssumption
<1>1. Init => Inv
  BY StatisticsInitHolds DEF Init, SlotsInit
<1>2. Inv /\ [Next]_partsVars => Inv'
  <2> SUFFICES ASSUME Numbers!StatisticsInv, Numbers!StatisticsNext \/ UNCHANGED slots
               PROVE  Numbers!StatisticsInv'
    BY DEF Next, SlotsNext, partsVars, slots
  <2>1. QED
    BY StatisticsStepHolds
<1>3. QED
  BY <1>1, <1>2, PTL DEF Spec

\* A corrected p-value is that of the closed test of the family it was last corrected in,
\* on exact p-values of the pairs (compare_runs, holm, holm_for_family, holm_correct_family).
THEOREM CorrectionsAreClosedTests == Spec => []CorrectionIsAClosedTest
<1>1. (subject = "statistics" => Numbers!StatisticsInv) => CorrectionIsAClosedTest
  BY PartsAssumption, StatisticsInvIsClosed DEF PartsAssumption, CorrectionIsAClosedTest
<1>2. QED
  BY <1>1, StatisticsInvariant, PTL

-----------------------------------------------------------------------------
(* The composition: every part keeps its types, whichever is the subject.  *)

\* A dispatch keeps its invariant among the parts.
LEMMA DispatchPartInvariant == Spec => []DispatchInv
<1>1. Init => DispatchInv
  BY DispatchInitHolds DEF Init
<1>2. DispatchInv /\ [Next]_partsVars => DispatchInv'
  <2> SUFFICES ASSUME DispatchInv, [DispatchNext]_dispatchVars
               PROVE  DispatchInv'
    BY DEF Next, partsVars
  <2>1. QED
    BY DispatchStepHolds
<1>3. QED
  BY <1>1, <1>2, PTL DEF Spec

\* A sandbox keeps its invariant among the parts.
LEMMA SandboxPartInvariant == Spec => []SandboxInv
<1> USE PartsAssumption DEF PartsAssumption
<1>1. Init => SandboxInv
  BY SandboxInitHolds DEF Init
<1>2. SandboxInv /\ [Next]_partsVars => SandboxInv'
  <2> SUFFICES ASSUME SandboxInv, [SandboxNext]_sandboxVars
               PROVE  SandboxInv'
    BY DEF Next, partsVars
  <2>1. CASE SandboxNext
    BY <2>1, SandboxStepHolds
  <2>2. CASE UNCHANGED sandboxVars
    BY <2>2 DEF SandboxInv, SandboxTypeOK, LockHasItsOwner, StartedIsReady, Unstarted, Proxied, Own, sandboxVars
  <2>3. QED
    BY <2>1, <2>2
<1>3. QED
  BY <1>1, <1>2, PTL DEF Spec

\* Each part keeps its state in the types its module gives it.
THEOREM PartsTypes == Spec => []PartsTypeOK
<1> DEFINE Sagiha == /\ DispatchInv /\ SandboxInv
                     /\ subject = "providers" => Model!ProvidersInv
                     /\ subject = "conversation" => Context!ConversationInv
                     /\ subject = "export" => Store!ExportInv
                     /\ subject = "index" => Index!IndexInv
                     /\ subject = "benchmark" => BenchTyped
           Aether == /\ subject = "journal" => Log!JournalInv
                     /\ subject = "topology" => File!TopologyInv
                     /\ subject = "prompts" => Talk!PromptsInv
                     /\ subject = "campaign" => CampaignTyped
                     /\ subject = "statistics" => Numbers!StatisticsInv
<1>1. Spec => []Sagiha
  BY DispatchPartInvariant, SandboxPartInvariant, ProvidersInvariant, ConversationInvariant, ExportInvariant,
    IndexInvariant, BenchmarkInvariant, PTL
<1>2. Spec => []Aether
  BY JournalInvariant, TopologyInvariant, PromptsInvariant, CampaignInvariant, StatisticsInvariant, PTL
<1>3. Sagiha /\ Aether => PartsTypeOK
  BY DEF PartsTypeOK, DispatchInv, SandboxInv, Model!ProvidersInv, Context!ConversationInv, Store!ExportInv,
    Index!IndexInv, BenchTyped, Log!JournalInv, File!TopologyInv, Talk!PromptsInv, CampaignTyped, Numbers!StatisticsInv
<1> HIDE DEF Sagiha, Aether
<1>4. QED
  BY <1>1, <1>2, <1>3, PTL

=============================================================================
