---------------------------- MODULE SearchBatch ----------------------------
(***************************************************************************)
(* Engine::search and Engine::search_batch (src/engine.cpp): the calling   *)
(* thread validates the queries, builds the allowed set, splits the        *)
(* queries into consecutive ranges, starts one thread per range, and joins *)
(* the threads before it returns the vector they all write into.           *)
(*                                                                         *)
(* The index search itself is the parameter Search, the set of the results *)
(* an index may give for a query; FlatSearch is the instance checked.      *)
(* lo, i and hi are the code's 0-based half-open ranges: query i is        *)
(* queries[i + 1].                                                         *)
(***************************************************************************)
EXTENDS Integers, Sequences

CONSTANTS
    Stores,            \* what a search may read: store and index contents
    Queries, Filters,  \* query vectors; optional filters
    Dimensioned,       \* the queries of the store's dimension
    Calls,             \* the arguments callers pass
    HardwareThreads,   \* what std::thread::hardware_concurrency may return
    Allowed(_, _),     \* the allowed set of a store and an optional filter
    Search(_, _, _, _) \* the results of a store, query, k and allowed set

ASSUME CallsAssumption ==
    /\ Calls \subseteq [queries : Seq(Queries), k : Nat, filter : Filters, num_threads : Nat]
    /\ HardwareThreads \subseteq Nat

VARIABLES
    store,     \* read by every thread, written by none while a call runs
    pc,        \* the caller: "idle", "spawn", "join" or "unwind"
    call,      \* the arguments of the last call
    tcount,    \* threads to start
    allowed,   \* the allowed set shared by the threads
    workers,   \* the started threads in order: [lo, i, hi], i the next query
    results,   \* the vector the threads fill, then the value returned
    outcome    \* how the last call ended: "none", "returned" or "threw"

vars == <<store, pc, call, tcount, allowed, workers, results, outcome>>

qn == Len(call.queries)
chunk == (qn + tcount - 1) \div tcount
Least(x, y) == IF x < y THEN x ELSE y

ValidQueries(c) == \A j \in DOMAIN c.queries : c.queries[j] \in Dimensioned
NoResults(c) == [j \in DOMAIN c.queries |-> <<>>]

\* std::min(threads, qn), where 0 threads asks for the hardware's, at least 1
thread_count(c, hardware) ==
    LET threads == IF c.num_threads # 0 THEN c.num_threads
                   ELSE IF hardware < 1 THEN 1 ELSE hardware
    IN  Least(threads, Len(c.queries))

\* No call in progress, and no result in the caller's hands.
NoCall == [queries |-> <<>>, k |-> 0, filter |-> {}, num_threads |-> 0]
Quiet ==
    /\ call = NoCall /\ pc = "idle" /\ outcome = "none"
    /\ tcount = 0 /\ allowed = {} /\ workers = <<>> /\ results = <<>>

Init == store \in Stores /\ Quiet

\* The call ends.  The records of the threads it started stay: one that was
\* not joined would go on.
Finish(how, value) ==
    /\ pc' = "idle" /\ outcome' = how /\ results' = value
    /\ UNCHANGED <<tcount, allowed>>

\* Engine::search: one query, in the caller's thread.
search(c) ==
    /\ Quiet /\ Len(c.queries) = 1
    /\ call' = c
    /\ \/ ~ValidQueries(c) /\ Finish("threw", <<>>)
       \/ ValidQueries(c) /\ c.k = 0 /\ Finish("returned", NoResults(c))
       \/ /\ ValidQueries(c) /\ c.k # 0
          /\ \E r \in Search(store, c.queries[1], c.k, Allowed(store, c.filter)) :
                Finish("returned", <<r>>)
    /\ UNCHANGED <<store, workers>>

\* Engine::search_batch up to the point where the work is handed out.  The
\* serial path runs the whole range as the one "thread" the caller waits for.
search_batch(c) ==
    /\ Quiet
    /\ call' = c
    /\ \/ c.queries = <<>> /\ Finish("returned", <<>>) /\ UNCHANGED workers
       \/ ~ValidQueries(c) /\ Finish("threw", <<>>) /\ UNCHANGED workers
       \/ /\ c.queries # <<>> /\ ValidQueries(c) /\ c.k = 0
          /\ Finish("returned", NoResults(c)) /\ UNCHANGED workers
       \/ /\ c.queries # <<>> /\ ValidQueries(c) /\ c.k # 0
          /\ allowed' = Allowed(store, c.filter)
          /\ results' = NoResults(c) /\ outcome' = "none"
          /\ \E hardware \in HardwareThreads : tcount' = thread_count(c, hardware)
          /\ IF tcount' <= 1
             THEN pc' = "join" /\ workers' = <<[lo |-> 0, i |-> 0, hi |-> Len(c.queries)]>>
             ELSE pc' = "spawn" /\ workers' = <<>>
    /\ UNCHANGED store

\* The t-th turn of the loop that starts the threads, t = Len(workers).
SpawnLo == Len(workers) * chunk

\* A plausible slip: the range starts one query too early.
RangeFrom_early(lo) == [lo |-> lo - 1, i |-> lo - 1, hi |-> Least(lo + chunk, qn)]

\* A plausible slip: the upper end not clamped to the number of queries.
RangeFrom_unclamped(lo) == [lo |-> lo, i |-> lo, hi |-> lo + chunk]

RangeFrom(lo) == [lo |-> lo, i |-> lo, hi |-> Least(lo + chunk, qn)]

\* A plausible slip: the last started thread left without its range.
Spawning_short == pc = "spawn" /\ Len(workers) < tcount - 1 /\ SpawnLo < qn

Spawning == pc = "spawn" /\ Len(workers) < tcount /\ SpawnLo < qn

Spawn ==
    /\ Spawning
    /\ workers' = Append(workers, RangeFrom(SpawnLo))
    /\ UNCHANGED <<store, pc, call, tcount, allowed, results, outcome>>

\* A plausible slip: the loop goes round again when the queries run out before
\* the threads do, as four queries in ranges of two do with three threads.
SpawnDone_again ==
    /\ pc = "spawn" /\ ~Spawning
    /\ pc' = IF Len(workers) = tcount THEN "join" ELSE "spawn"
    /\ UNCHANGED <<store, call, tcount, allowed, workers, results, outcome>>

\* The loop is over: its bound is reached, or it broke off because the ranges
\* before already cover every query.
SpawnDone ==
    /\ pc = "spawn" /\ ~Spawning
    /\ pc' = "join"
    /\ UNCHANGED <<store, call, tcount, allowed, workers, results, outcome>>

\* The system refuses a thread: emplace_back throws, and the destructors of
\* the threads already started join them while the exception leaves the call.
SpawnFails ==
    /\ Spawning
    /\ pc' = "unwind"
    /\ UNCHANGED <<store, call, tcount, allowed, workers, results, outcome>>

\* One turn of run_range in thread w: it searches and assigns one result.
Answer(w) ==
    LET i == workers[w].i
    IN  /\ i < workers[w].hi
        /\ \E r \in Search(store, call.queries[i + 1], call.k, allowed) :
              results' = [results EXCEPT ![i + 1] = r]
        /\ workers' = [workers EXCEPT ![w].i = i + 1]
        /\ UNCHANGED <<store, pc, call, tcount, allowed, outcome>>

Finished(w) == workers[w].i = workers[w].hi

AllJoined == \A w \in DOMAIN workers : Finished(w)

Join ==
    /\ pc = "join" /\ AllJoined
    /\ Finish("returned", results)
    /\ UNCHANGED <<store, call, workers>>

\* A plausible slip: std::thread objects detached on the way out.
Unwind_detached ==
    /\ pc = "unwind"
    /\ Finish("threw", <<>>)
    /\ UNCHANGED <<store, call, workers>>

Unwind ==
    /\ pc = "unwind" /\ AllJoined
    /\ Finish("threw", <<>>)
    /\ UNCHANGED <<store, call, workers>>

\* The caller drops the results, or has handled the exception.
Drop ==
    /\ pc = "idle" /\ outcome # "none"
    /\ call' = NoCall /\ outcome' = "none"
    /\ tcount' = 0 /\ allowed' = {} /\ workers' = <<>> /\ results' = <<>>
    /\ UNCHANGED <<store, pc>>

Caller == Spawn \/ SpawnDone \/ SpawnFails \/ Join \/ Unwind

Next ==
    \/ \E c \in Calls : search(c) \/ search_batch(c)
    \/ Caller \/ Drop
    \/ \E w \in DOMAIN workers : Answer(w)

\* The scheduler runs every thread that can run: the caller, and each worker.
Fairness ==
    /\ WF_vars(Caller)
    /\ WF_vars(\E w \in DOMAIN workers : Answer(w))

Spec == Init /\ [][Next]_vars /\ Fairness
-----------------------------------------------------------------------------
(***************************************************************************)
(* Properties                                                              *)
(***************************************************************************)
Worker == [lo : Nat, i : Nat, hi : Nat]

TypeOK ==
    /\ store \in Stores /\ call \in Calls \cup {NoCall}
    /\ pc \in {"idle", "spawn", "join", "unwind"}
    /\ outcome \in {"none", "returned", "threw"}
    /\ tcount \in Nat
    /\ workers \in Seq(Worker)
    /\ DOMAIN results \in {{}, DOMAIN call.queries}

\* The queries thread w has been given.
Mine(w) == workers[w].lo..(workers[w].hi - 1)

\* No two threads of a call are ever given the same query, and none is given
\* one that does not exist: the unsynchronised writes to results never touch
\* one element twice (the lambda run_range, and the loop that starts threads).
NoSharedElement ==
    pc # "idle" =>
        \A v, w \in DOMAIN workers :
            /\ Mine(w) \subseteq 0..(qn - 1)
            /\ v # w => Mine(v) \cap Mine(w) = {}

\* Once the call has returned or thrown, no thread of it is still running: it
\* would write into results after the caller got, or destroyed, the vector.
JoinedBeforeReturn == pc = "idle" => \A w \in DOMAIN workers : workers[w].i = workers[w].hi

\* A batch that returned gives for every query what one search of that query
\* gives, whatever the number of threads and their interleaving.
\* tests/test_parallel.cpp asks for the same of one schedule.
BatchIsSerial ==
    (outcome = "returned" /\ call.k # 0) =>
        /\ Len(results) = qn
        /\ \A j \in 1..qn :
              results[j] \in Search(store, call.queries[j], call.k, Allowed(store, call.filter))

\* Every call ends, also when the system refuses a thread half way.
CallsEnd == (pc # "idle") ~> (pc = "idle")
=============================================================================
