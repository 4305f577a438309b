------------------------- MODULE SearchBatchProofs -------------------------
(***************************************************************************)
(* Proofs about Engine::search_batch for every number of queries and       *)
(* threads, every index and every filter.  The inductive invariant says    *)
(* which range each started thread has: the w-th has the queries from      *)
(* (w-1)*chunk on, at most chunk of them.  The rest follows from three     *)
(* facts of arithmetic.                                                    *)
(***************************************************************************)
EXTENDS SearchBatch, TLAPS

\* ceil(q / t) ranges of that length cover all q queries.
LEMMA ChunkCovers ==
    ASSUME NEW q \in Nat, NEW t \in Nat \ {0}
    PROVE  /\ (q + t - 1) \div t \in Nat
           /\ t * ((q + t - 1) \div t) >= q
BY SMT

\* Multiplication by the length of a range keeps the order.
LEMMA Monotone ==
    ASSUME NEW c \in Nat, NEW v \in Nat, NEW w \in Nat, v <= w
    PROVE  v * c <= w * c
BY SMT

\* A position below n * c lies in one of n consecutive ranges of length c.
LEMMA InSomeRange ==
    ASSUME NEW c \in Nat, NEW n \in Nat, NEW j \in Nat, j < n * c
    PROVE  \E w \in 1..n : (w - 1) * c <= j /\ j < w * c
<1>1. c \in Nat \ {0}
  BY SMT
<1> DEFINE d == j \div c
<1>2. d \in Nat /\ d * c <= j /\ j < (d + 1) * c
  BY <1>1, SMT
<1>3. d < n
  <2> SUFFICES ASSUME n <= d PROVE FALSE
    BY <1>2, SMT
  <2>1. n * c <= d * c
    BY <1>2, Monotone
  <2> QED
    BY <2>1, <1>2, SMT
<1>4. d + 1 \in 1..n /\ (d + 1) - 1 = d
  BY <1>2, <1>3, SMT
<1> HIDE DEF d
<1>5. ((d + 1) - 1) * c <= j /\ j < (d + 1) * c
  BY <1>2, <1>4
<1> QED
  BY <1>4, <1>5, Zenon

-----------------------------------------------------------------------------
CallType == [queries : Seq(Queries), k : Nat, filter : Filters, num_threads : Nat]

\* The w-th thread's range and how far it has come.
RangeOK(w) ==
    /\ workers[w].lo = (w - 1) * chunk
    /\ workers[w].hi = Least(w * chunk, qn)
    /\ workers[w].lo <= workers[w].i /\ workers[w].i <= workers[w].hi

\* What thread w has already stored are results of its queries.
AnswersOK(w) ==
    \A j \in workers[w].lo..(workers[w].i - 1) :
        results[j + 1] \in Search(store, call.queries[j + 1], call.k, allowed)

Running ==
    /\ call \in CallType /\ call.k # 0
    /\ outcome = "none"
    /\ tcount \in Nat \ {0}
    /\ allowed = Allowed(store, call.filter)
    /\ DOMAIN results = 1..qn
    /\ \A w \in 1..Len(workers) : RangeOK(w) /\ AnswersOK(w)

IInv ==
    /\ pc \in {"idle", "spawn", "join", "unwind"}
    /\ workers \in Seq(Worker)
    /\ pc # "idle" => Running
    /\ pc = "join" => Len(workers) * chunk >= qn
    /\ JoinedBeforeReturn
    /\ BatchIsSerial

\* The sizes of a running call.
LEMMA SizesOK ==
    ASSUME Running
    PROVE  qn \in Nat /\ chunk \in Nat /\ tcount * chunk >= qn
<1>1. call.queries \in Seq(Queries) /\ tcount \in Nat \ {0}
  BY DEF Running, CallType
<1>2. qn \in Nat
  BY <1>1 DEF qn
<1> QED
  BY <1>1, <1>2, ChunkCovers DEF chunk

\* No call is running at the start.
LEMMA InitOK == Init => IInv
<1> SUFFICES ASSUME Init PROVE IInv
  OBVIOUS
<1>1. workers \in Seq(Worker) /\ DOMAIN workers = {}
  BY DEF Init, Quiet
<1> QED
  BY <1>1 DEF Init, Quiet, IInv, JoinedBeforeReturn, BatchIsSerial

\* Ending a call in its own thread: nothing is running before or after.
LEMMA searchOK ==
    ASSUME IInv, NEW c \in Calls, search(c)
    PROVE  IInv'
<1>1. c \in CallType /\ c.queries \in Seq(Queries) /\ c.k \in Nat
  BY CallsAssumption DEF CallType
<1>2. pc' = "idle" /\ workers' = workers /\ call' = c /\ store' = store
  BY DEF search, Finish
<1>3. JoinedBeforeReturn'
  BY <1>2 DEF IInv, JoinedBeforeReturn, search, Quiet
<1>4. BatchIsSerial'
  <2> SUFFICES ASSUME outcome' = "returned", c.k # 0
               PROVE  BatchIsSerial'
    BY <1>2 DEF BatchIsSerial
  <2>1. PICK r \in Search(store, c.queries[1], c.k, Allowed(store, c.filter)) :
            results' = <<r>>
    BY DEF search, Finish
  <2>2. Len(c.queries) = 1
    BY DEF search
  <2> QED
    BY <2>1, <2>2, <1>2 DEF BatchIsSerial, qn
<1> QED
  BY <1>2, <1>3, <1>4 DEF IInv

\* The call hands out its work, or ends before there is any.
LEMMA search_batchOK ==
    ASSUME IInv, NEW c \in Calls, search_batch(c)
    PROVE  IInv'
<1>1. c \in CallType /\ c.queries \in Seq(Queries) /\ c.k \in Nat /\ c.num_threads \in Nat
  BY CallsAssumption DEF CallType
<1>2. call' = c /\ store' = store /\ workers = <<>> /\ workers \in Seq(Worker)
  BY DEF search_batch, Quiet, IInv
<1>3. CASE pc' = "idle" /\ workers' = workers /\ (c.k = 0 \/ outcome' = "threw" \/ (c.queries = <<>> /\ results' = <<>>))
  <2>1. JoinedBeforeReturn'
    BY <1>2, <1>3 DEF JoinedBeforeReturn
  <2>2. BatchIsSerial'
    BY <1>2, <1>3 DEF BatchIsSerial, qn
  <2> QED
    BY <1>2, <1>3, <2>1, <2>2 DEF IInv
<1>4. CASE /\ c.queries # <<>> /\ c.k # 0
           /\ allowed' = Allowed(store, c.filter)
           /\ results' = NoResults(c) /\ outcome' = "none"
           /\ \E hardware \in HardwareThreads : tcount' = thread_count(c, hardware)
           /\ IF tcount' <= 1
              THEN pc' = "join" /\ workers' = <<[lo |-> 0, i |-> 0, hi |-> Len(c.queries)]>>
              ELSE pc' = "spawn" /\ workers' = <<>>
  <2>1. Len(c.queries) \in Nat \ {0} /\ DOMAIN c.queries = 1..Len(c.queries)
    BY <1>1, <1>4
  <2>2. tcount' \in Nat \ {0}
    BY <1>1, <1>4, <2>1, CallsAssumption DEF thread_count, Least
  <2>3. DOMAIN results' = 1..qn'
    BY <1>2, <1>4, <2>1 DEF NoResults, qn
  <2>4. CASE tcount' <= 1
    <3>1. tcount' = 1 /\ chunk' = Len(c.queries)
      BY <2>1, <2>2, <2>4, <1>2 DEF chunk, qn
    <3> DEFINE r == [lo |-> 0, i |-> 0, hi |-> Len(c.queries)]
    <3>r. r \in Worker /\ r.lo = 0 /\ r.i = 0 /\ r.hi = Len(c.queries) /\ workers' = <<r>>
      BY <1>4, <2>4, <2>1 DEF Worker
    <3> HIDE DEF r
    <3>2. workers' \in Seq(Worker) /\ Len(workers') = 1 /\ workers'[1] = r
      BY <3>r
    <3>3. \A w \in 1..Len(workers') : RangeOK(w)' /\ AnswersOK(w)'
      BY <3>1, <3>2, <3>r, <2>1, <1>2 DEF RangeOK, AnswersOK, Least, qn
    <3>4. (Len(workers) * chunk >= qn)'
      BY <3>1, <3>2, <2>1, <1>2 DEF qn
    <3> QED
      BY <1>1, <1>2, <1>4, <2>2, <2>3, <2>4, <3>2, <3>3, <3>4
      DEF IInv, Running, JoinedBeforeReturn, BatchIsSerial
  <2>5. CASE ~(tcount' <= 1)
    <3>1. workers' = <<>> /\ pc' = "spawn" /\ workers' \in Seq(Worker) /\ Len(workers') = 0
      BY <1>4, <2>5
    <3> QED
      BY <1>1, <1>2, <1>4, <2>2, <2>3, <3>1
      DEF IInv, Running, JoinedBeforeReturn, BatchIsSerial
  <2> QED
    BY <2>4, <2>5
<1> QED
  BY <1>1, <1>2, <1>3, <1>4 DEF search_batch, Finish, Quiet

\* A started thread gets the next range.
LEMMA SpawnOK ==
    ASSUME IInv, Spawn
    PROVE  IInv'
<1>n. PICK n \in Nat : n = Len(workers)
  BY DEF IInv
<1>1. /\ Running /\ workers \in Seq(Worker) /\ pc = "spawn"
      /\ n \in Nat /\ n * chunk < qn
      /\ workers' = Append(workers, RangeFrom(n * chunk))
      /\ UNCHANGED <<store, pc, call, tcount, allowed, results, outcome>>
  BY <1>n DEF IInv, Spawn, Spawning, SpawnLo
<1>2. qn \in Nat /\ chunk \in Nat /\ qn' = qn /\ chunk' = chunk
  BY <1>1, SizesOK DEF qn, chunk
<1>3. RangeFrom(n * chunk) \in Worker
  BY <1>1, <1>2 DEF RangeFrom, Worker, Least
<1>4. /\ workers' \in Seq(Worker) /\ Len(workers') = n + 1
      /\ workers'[n + 1] = RangeFrom(n * chunk)
      /\ \A w \in 1..n : workers'[w] = workers[w]
  BY <1>n, <1>1, <1>3
<1>5. \A w \in 1..n : RangeOK(w)' /\ AnswersOK(w)'
  BY <1>n, <1>1, <1>2, <1>4 DEF Running, RangeOK, AnswersOK
<1>6. RangeOK(n + 1)' /\ AnswersOK(n + 1)'
  <2>1. (n + 1) - 1 = n /\ (n + 1) * chunk = n * chunk + chunk
    BY <1>1, <1>2, SMT
  <2>2. /\ workers'[n + 1].lo = n * chunk /\ workers'[n + 1].i = n * chunk
        /\ workers'[n + 1].hi = Least(n * chunk + chunk, qn)
    BY <1>4 DEF RangeFrom
  <2>3. n * chunk \in Nat
    BY <1>1, <1>2, SMT
  <2>4. RangeOK(n + 1)'
    <3>1. /\ workers'[n + 1].lo = ((n + 1) - 1) * chunk'
          /\ workers'[n + 1].hi = Least((n + 1) * chunk', qn')
      BY <1>2, <2>1, <2>2
    <3>2. n * chunk <= Least(n * chunk + chunk, qn)
      BY <1>1, <1>2, <2>3 DEF Least
    <3> QED
      BY <3>1, <3>2, <2>2, <2>3 DEF RangeOK
  <2>5. AnswersOK(n + 1)'
    BY <2>2, <2>3 DEF AnswersOK
  <2> QED
    BY <2>4, <2>5
<1>7. \A w \in 1..Len(workers') : RangeOK(w)' /\ AnswersOK(w)'
  <2> TAKE w \in 1..Len(workers')
  <2>1. w \in 1..n \/ w = n + 1
    BY <1>1, <1>4
  <2> QED
    BY <2>1, <1>5, <1>6 DEF RangeOK, AnswersOK
<1>8. Running'
  BY <1>1, <1>2, <1>7 DEF Running
<1> QED
  BY <1>1, <1>4, <1>8 DEF IInv, Running, JoinedBeforeReturn, BatchIsSerial

\* The loop left, by its bound or by its break: every query has a thread.
LEMMA SpawnDoneOK ==
    ASSUME IInv, SpawnDone
    PROVE  IInv'
<1>1. /\ Running /\ workers \in Seq(Worker) /\ pc' = "join"
      /\ UNCHANGED <<store, call, tcount, allowed, workers, results, outcome>>
  BY DEF IInv, SpawnDone
<1>2. Len(workers) * chunk >= qn
  <2>1. Len(workers) \in Nat /\ tcount \in Nat /\ qn \in Nat /\ chunk \in Nat /\ tcount * chunk >= qn
    BY <1>1, SizesOK DEF Running
  <2>2. CASE Len(workers) >= tcount
    <3>1. tcount * chunk <= Len(workers) * chunk
      BY <2>1, <2>2, Monotone
    <3> QED
      BY <3>1, <2>1, SMT
  <2>3. CASE Len(workers) < tcount
    BY <2>1, <2>3 DEF SpawnDone, Spawning, SpawnLo
  <2> QED
    BY <2>1, <2>2, <2>3
<1>3. Running'
  BY <1>1 DEF Running, RangeOK, AnswersOK, qn, chunk
<1> QED
  BY <1>1, <1>2, <1>3 DEF IInv, Running, JoinedBeforeReturn, BatchIsSerial, qn, chunk

\* A refused thread leaves the started ones with their ranges.
LEMMA SpawnFailsOK ==
    ASSUME IInv, SpawnFails
    PROVE  IInv'
<1>1. /\ Running /\ workers \in Seq(Worker) /\ pc' = "unwind"
      /\ UNCHANGED <<store, call, tcount, allowed, workers, results, outcome>>
  BY DEF IInv, SpawnFails, Spawning
<1>2. Running'
  BY <1>1 DEF Running, RangeOK, AnswersOK, qn, chunk
<1> QED
  BY <1>1, <1>2 DEF IInv, Running, JoinedBeforeReturn, BatchIsSerial

\* Two ranges have no query in common, and none beyond the last query.
LEMMA RangesApart ==
    ASSUME Running, workers \in Seq(Worker)
    PROVE  \A v, w \in DOMAIN workers :
              /\ Mine(w) \subseteq 0..(qn - 1)
              /\ v # w => Mine(v) \cap Mine(w) = {}
<1>1. qn \in Nat /\ chunk \in Nat /\ DOMAIN workers = 1..Len(workers) /\ Len(workers) \in Nat
  BY SizesOK
<1>2. ASSUME NEW w \in DOMAIN workers
      PROVE  /\ workers[w].lo \in Nat /\ workers[w].hi \in Nat
             /\ workers[w].lo = (w - 1) * chunk
             /\ workers[w].hi <= w * chunk /\ workers[w].hi <= qn
  <2>1. workers[w] \in Worker
    OBVIOUS
  <2>2. w * chunk \in Nat
    BY <1>1
  <2> QED
    BY <1>1, <2>1, <2>2 DEF Running, RangeOK, Worker, Least
<1>3. ASSUME NEW v \in DOMAIN workers, NEW w \in DOMAIN workers, v < w
      PROVE  Mine(v) \cap Mine(w) = {}
  <2>1. v * chunk <= (w - 1) * chunk
    BY <1>1, <1>3, Monotone
  <2>2. workers[v].hi <= workers[w].lo
    BY <1>1, <1>2, <2>1
  <2> QED
    BY <1>2, <2>2 DEF Mine
<1>4. ASSUME NEW w \in DOMAIN workers
      PROVE  Mine(w) \subseteq 0..(qn - 1)
  BY <1>1, <1>2 DEF Mine
<1> QED
  <2> TAKE v, w \in DOMAIN workers
  <2>1. v = w \/ v < w \/ w < v
    BY <1>1
  <2>2. Mine(v) \cap Mine(w) = Mine(w) \cap Mine(v)
    OBVIOUS
  <2> QED
    BY <1>3, <1>4, <2>1, <2>2

\* A thread assigns one result: its own, and nobody else's.
LEMMA AnswerOK ==
    ASSUME IInv, NEW w \in DOMAIN workers, Answer(w)
    PROVE  IInv'
<1>1. /\ Running /\ workers \in Seq(Worker) /\ pc # "idle"
      /\ UNCHANGED <<store, pc, call, tcount, allowed, outcome>>
  <2>1. workers \in Seq(Worker) /\ workers[w] \in Worker
    BY DEF IInv
  <2>2. workers[w].i # workers[w].hi
    BY <2>1 DEF Answer, Worker
  <2>3. pc # "idle"
    BY <2>2 DEF IInv, JoinedBeforeReturn
  <2> QED
    BY <2>1, <2>3 DEF IInv, Answer
<1>2. PICK i \in Nat : i = workers[w].i
  <2>1. workers[w] \in Worker
    BY <1>1
  <2> QED
    BY <2>1 DEF Worker
<1>3. PICK r \in Search(store, call.queries[i + 1], call.k, allowed) :
          results' = [results EXCEPT ![i + 1] = r]
  BY <1>2 DEF Answer
<1>4. /\ i < workers[w].hi
      /\ workers' = [workers EXCEPT ![w].i = i + 1]
  BY <1>2 DEF Answer
<1>5. /\ qn \in Nat /\ chunk \in Nat /\ qn' = qn /\ chunk' = chunk
      /\ DOMAIN workers = 1..Len(workers) /\ Len(workers) \in Nat
  BY <1>1, SizesOK DEF qn, chunk
<1>6. ASSUME NEW v \in DOMAIN workers
      PROVE  workers[v] \in Worker /\ RangeOK(v) /\ AnswersOK(v)
  BY <1>1, <1>5 DEF Running
<1>7. /\ workers'[w] = [workers[w] EXCEPT !.i = i + 1]
      /\ \A v \in DOMAIN workers : v # w => workers'[v] = workers[v]
  BY <1>4, <1>5
<1>8. workers'[w] \in Worker
  BY <1>6, <1>7 DEF Worker
<1>9. workers' \in Seq(Worker) /\ Len(workers') = Len(workers)
  BY <1>1, <1>4, <1>5, <1>6, <1>7, <1>8
<1>10. i \in Mine(w) /\ i + 1 \in DOMAIN results
  <2>1. i \in workers[w].lo..(workers[w].hi - 1)
    BY <1>2, <1>4, <1>6 DEF RangeOK, Worker
  <2>2. Mine(w) \subseteq 0..(qn - 1)
    BY <1>1, RangesApart
  <2> QED
    BY <1>1, <1>5, <2>1, <2>2 DEF Mine, Running
<1>11. DOMAIN results' = 1..qn'
  BY <1>1, <1>3, <1>5 DEF Running
<1>12. ASSUME NEW v \in DOMAIN workers, v # w
       PROVE  RangeOK(v)' /\ AnswersOK(v)'
  <2>1. RangeOK(v)'
    BY <1>5, <1>6, <1>7, <1>12 DEF RangeOK
  <2>2. ASSUME NEW j \in workers[v].lo..(workers[v].i - 1)
        PROVE  results'[j + 1] = results[j + 1]
    <3>1. j \in Mine(v)
      BY <1>6 DEF Mine, RangeOK, Worker
    <3>2. Mine(v) \cap Mine(w) = {}
      BY <1>1, <1>12, RangesApart
    <3>3. j # i /\ j \in Int
      BY <3>1, <3>2, <1>10, <1>6 DEF Worker
    <3> QED
      BY <3>3, <1>3
  <2>3. AnswersOK(v)'
    BY <2>2, <1>1, <1>6, <1>7, <1>12 DEF AnswersOK
  <2> QED
    BY <2>1, <2>3
<1>13. RangeOK(w)'
  BY <1>2, <1>4, <1>5, <1>6, <1>7 DEF RangeOK, Worker
<1>14. AnswersOK(w)'
  <2>1. workers'[w].lo = workers[w].lo /\ workers'[w].i = i + 1 /\ workers[w].lo \in Nat
    BY <1>6, <1>7 DEF Worker
  <2>2. ASSUME NEW j \in workers[w].lo..i
        PROVE  results'[j + 1] \in Search(store, call.queries[j + 1], call.k, allowed)
    <3>1. CASE j = i
      BY <3>1, <1>3, <1>10
    <3>2. CASE j # i
      <4>1. j \in workers[w].lo..(workers[w].i - 1)
        BY <3>2, <1>2, <2>1
      <4>2. results'[j + 1] = results[j + 1]
        BY <3>2, <1>3, <2>1
      <4> QED
        BY <4>1, <4>2, <1>6 DEF AnswersOK
    <3> QED
      BY <3>1, <3>2
  <2>3. (i + 1) - 1 = i
    OBVIOUS
  <2> QED
    BY <1>1, <2>1, <2>2, <2>3 DEF AnswersOK
<1>15. \A v \in 1..Len(workers') : RangeOK(v)' /\ AnswersOK(v)'
  <2> TAKE v \in 1..Len(workers')
  <2>1. v \in DOMAIN workers
    BY <1>5, <1>9
  <2>2. CASE v = w
    BY <2>2, <1>13, <1>14 DEF RangeOK, AnswersOK
  <2> QED
    BY <2>1, <2>2, <1>12
<1>16. Running'
  BY <1>1, <1>11, <1>15 DEF Running
<1>17. (pc = "join" => Len(workers) * chunk >= qn)'
  BY <1>1, <1>5, <1>9 DEF IInv
<1> QED
  BY <1>1, <1>9, <1>16, <1>17 DEF IInv, Running, JoinedBeforeReturn, BatchIsSerial

\* All threads joined after all were started: every result is there.
LEMMA JoinOK ==
    ASSUME IInv, Join
    PROVE  IInv'
<1>1. /\ Running /\ workers \in Seq(Worker) /\ Len(workers) * chunk >= qn
      /\ pc' = "idle" /\ results' = results
      /\ UNCHANGED <<store, call, tcount, allowed, workers>>
      /\ \A w \in DOMAIN workers : workers[w].i = workers[w].hi
  BY DEF IInv, Join, Finish, AllJoined, Finished
<1>2. /\ qn \in Nat /\ chunk \in Nat
      /\ DOMAIN workers = 1..Len(workers) /\ Len(workers) \in Nat
  BY <1>1, SizesOK
<1>3. ASSUME NEW j \in 1..qn
      PROVE  results[j] \in Search(store, call.queries[j], call.k, allowed)
  <2>1. j - 1 \in Nat /\ j - 1 < Len(workers) * chunk /\ j - 1 < qn /\ (j - 1) + 1 = j
    BY <1>1, <1>2
  <2>2. PICK w \in 1..Len(workers) : (w - 1) * chunk <= j - 1 /\ j - 1 < w * chunk
    BY <1>2, <2>1, InSomeRange
  <2>3. workers[w] \in Worker /\ RangeOK(w) /\ AnswersOK(w)
    BY <1>1, <1>2 DEF Running
  <2>4. j - 1 \in workers[w].lo..(workers[w].i - 1)
    <3>n. w * chunk \in Nat
      BY <1>2
    <3>i. workers[w].i = workers[w].hi /\ workers[w].lo \in Nat /\ workers[w].i \in Nat
      BY <1>1, <1>2, <2>3 DEF Worker
    <3>1. workers[w].lo = (w - 1) * chunk /\ workers[w].i = Least(w * chunk, qn)
      BY <3>i, <2>3 DEF RangeOK
    <3>2. j - 1 < workers[w].i
      BY <1>2, <2>1, <2>2, <3>n, <3>1 DEF Least
    <3>3. workers[w].lo <= j - 1
      BY <2>2, <3>1
    <3> QED
      BY <2>1, <3>i, <3>2, <3>3
  <2> QED
    BY <2>1, <2>3, <2>4 DEF AnswersOK
<1>4. Len(results) = qn
  BY <1>1, <1>2 DEF Running
<1>5. BatchIsSerial'
  BY <1>1, <1>3, <1>4 DEF BatchIsSerial, Running, qn
<1>6. JoinedBeforeReturn'
  BY <1>1 DEF JoinedBeforeReturn
<1> QED
  BY <1>1, <1>5, <1>6 DEF IInv

\* The exception leaves only after the threads that were started.
LEMMA UnwindOK ==
    ASSUME IInv, Unwind
    PROVE  IInv'
<1>1. /\ workers \in Seq(Worker) /\ pc' = "idle" /\ outcome' = "threw" /\ workers' = workers
      /\ \A w \in DOMAIN workers : workers[w].i = workers[w].hi
  BY DEF IInv, Unwind, Finish, AllJoined, Finished
<1> QED
  BY <1>1 DEF IInv, JoinedBeforeReturn, BatchIsSerial

\* Dropping the results forgets the threads, all of which are joined.
LEMMA DropOK ==
    ASSUME IInv, Drop
    PROVE  IInv'
<1>1. workers' = <<>> /\ workers' \in Seq(Worker) /\ pc' = "idle" /\ outcome' = "none"
  BY DEF Drop
<1> QED
  BY <1>1 DEF IInv, JoinedBeforeReturn, BatchIsSerial

\* A step that changes nothing keeps the invariant.
LEMMA StutterOK ==
    ASSUME IInv, UNCHANGED vars
    PROVE  IInv'
BY DEF vars, IInv, Running, RangeOK, AnswersOK, JoinedBeforeReturn, BatchIsSerial, qn, chunk

\* Engine::search_batch, for every number of queries and of threads, every
\* order in which the threads run and every thread the system may refuse: no
\* element of results is written by two threads, no thread outlives the call,
\* and a batch that returns holds for each query what a search of it returns.
THEOREM BatchCorrect == Spec => [](NoSharedElement /\ JoinedBeforeReturn /\ BatchIsSerial)
<1>1. IInv /\ [Next]_vars => IInv'
  <2> SUFFICES ASSUME IInv, [Next]_vars
               PROVE  IInv'
    OBVIOUS
  <2>1. ASSUME NEW c \in Calls, search(c) PROVE IInv'
    BY <2>1, searchOK
  <2>2. ASSUME NEW c \in Calls, search_batch(c) PROVE IInv'
    BY <2>2, search_batchOK
  <2>3. ASSUME NEW w \in DOMAIN workers, Answer(w) PROVE IInv'
    BY <2>3, AnswerOK
  <2> QED
    BY <2>1, <2>2, <2>3, SpawnOK, SpawnDoneOK, SpawnFailsOK, JoinOK, UnwindOK, DropOK, StutterOK
    DEF Next, Caller
<1>2. IInv => NoSharedElement /\ JoinedBeforeReturn /\ BatchIsSerial
  BY RangesApart DEF IInv, NoSharedElement
<1> QED
  BY <1>1, <1>2, InitOK, PTL DEF Spec
=============================================================================
