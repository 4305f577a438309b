------------------------------- MODULE Server -------------------------------
(***************************************************************************)
(* The REST server (server/server.cpp): request threads that parse their   *)
(* request, take the one mutex, run an operation of the vector engine or   *)
(* of the RAG engine, and release the mutex when the lock guard leaves     *)
(* scope, by the end of the handler or by an exception.                    *)
(*                                                                         *)
(* vectors is the vector engine by its contract: a map from external ids   *)
(* to vectors.  The operations on it are single steps; the three reads of  *)
(* GET /api/stats and the calls of the RAG engine are several.             *)
(***************************************************************************)
EXTENDS Rag

CONSTANTS
    Dimensioned,    \* the vectors of dimension kVecDim
    Requests,       \* the requests whose bodies parse
    Nobody          \* the owner of a free mutex

ASSUME MutexAssumption == Nobody \notin Threads
ASSUME RequestsAssumption ==
    \A r \in Requests :
        /\ r.kind \in {"ingest", "remove"} => r.doc \in Documents
        /\ r.kind = "ingest" => r.text \in Texts
        /\ r.kind = "retrieve" => r.k \in Nat
        /\ r.kind = "prompt" => r.tokens \in Nat
        /\ r.kind \in {"ingest", "remove", "retrieve", "prompt", "stats", "insert", "delete", "search"}

VARIABLES mu, vectors

vars == <<cfg, entries, doc_chunks, task, corpus, health, mu, vectors>>

Init ==
    /\ RagInit
    /\ task = [t \in Threads |-> Locals("idle", <<>>)]
    /\ mu = Nobody /\ vectors = <<>>

\* A request arrives and its body is parsed, outside the lock.  A body that
\* does not parse, or lacks a member, is answered 400 here and changes nothing.
Receive(t) ==
    /\ task[t].pc = "idle"
    /\ \E r \in Requests : task' = [task EXCEPT ![t] = Locals("lock", r)]
    /\ UNCHANGED <<cfg, entries, doc_chunks, corpus, health, mu, vectors>>

\* Where a handler goes on once it has the lock.
Entry(kind) ==
    CASE kind \in {"ingest", "remove"} -> "erase"
      [] kind \in {"retrieve", "prompt"} -> "retrieve"
      [] OTHER -> kind

\* Plausible slips: a handler that only reads does without the lock.
Lock_not_for(kind, t) ==
    /\ task[t].pc = "lock" /\ (mu = Nobody \/ task[t].req.kind = kind)
    /\ mu' = IF task[t].req.kind = kind THEN mu ELSE t
    /\ task' = [task EXCEPT ![t].pc = Entry(task[t].req.kind)]
    /\ UNCHANGED <<cfg, entries, doc_chunks, corpus, health, vectors>>
Lock_not_stats(t) == Lock_not_for("stats", t)
Lock_not_retrieve(t) == Lock_not_for("retrieve", t)

\* std::lock_guard's constructor
Lock(t) ==
    /\ task[t].pc = "lock" /\ mu = Nobody
    /\ mu' = t
    /\ task' = [task EXCEPT ![t].pc = Entry(task[t].req.kind)]
    /\ UNCHANGED <<cfg, entries, doc_chunks, corpus, health, vectors>>

\* The reply is set and the lock guard's destructor releases the mutex (of a
\* handler without a guard it would release nothing); after an exception
\* the destructor runs first and the 400 is set outside the lock.
Unlock(t) ==
    /\ task[t].pc = "return"
    /\ mu' = IF mu = t THEN Nobody ELSE mu
    /\ task' = [task EXCEPT ![t] = Locals("idle", <<>>)]
    /\ UNCHANGED <<cfg, entries, doc_chunks, corpus, health, vectors>>

\* GET /api/stats: the size of the vector store, then the documents, then the
\* chunks, gathered in the list.
Stats(t) ==
    LET reads == <<Cardinality(DOMAIN vectors), Cardinality(DOMAIN doc_chunks),
                   Cardinality(DOMAIN entries)>>
        list  == Append(task[t].list, reads[Len(task[t].list) + 1])
    IN  /\ task[t].pc = "stats"
        /\ task' = [task EXCEPT ![t].list = list,
                                ![t].pc = IF Len(list) = 3 THEN "return" ELSE "stats"]
        /\ UNCHANGED <<cfg, entries, doc_chunks, corpus, health, mu, vectors>>

\* POST /api/vectors: insert throws for a vector of another dimension.
PostVector(t) ==
    LET r == task[t].req
    IN  /\ task[t].pc = "insert"
        /\ IF r.vector \in Dimensioned
           THEN vectors' = With(vectors, r.id, r.vector) /\ Return(t, <<"ok">>)
           ELSE UNCHANGED vectors /\ Return(t, <<"error">>)
        /\ UNCHANGED <<cfg, entries, doc_chunks, corpus, health, mu>>

\* DELETE /api/vectors/:id
DeleteVector(t) ==
    LET id == task[t].req.id
    IN  /\ task[t].pc = "delete"
        /\ vectors' = Without(vectors, id)
        /\ Return(t, <<"existed", id \in DOMAIN vectors>>)
        /\ UNCHANGED <<cfg, entries, doc_chunks, corpus, health, mu>>

\* POST /api/search: at most k hits, their internal ids mapped to external ones.
SearchVectors(t) ==
    /\ task[t].pc = "search"
    /\ \/ task[t].req.vector \notin Dimensioned /\ Return(t, <<"error">>)
       \/ /\ task[t].req.vector \in Dimensioned
          /\ \E hits \in SUBSET DOMAIN vectors :
                Cardinality(hits) <= task[t].req.k /\ Return(t, <<"results", hits>>)
    /\ UNCHANGED <<cfg, entries, doc_chunks, corpus, health, mu, vectors>>

\* What a handler does between taking the lock and having released it.
Handle(t) ==
    \/ RagStep(t) /\ UNCHANGED <<mu, vectors>>
    \/ Stats(t) \/ PostVector(t) \/ DeleteVector(t) \/ SearchVectors(t) \/ Unlock(t)

Next == \E t \in Threads : Receive(t) \/ Lock(t) \/ Handle(t)

\* A thread that has the lock is scheduled again and again.  Nothing is assumed
\* of which waiting thread gets the mutex: std::mutex promises no order.
Fairness == \A t \in Threads : WF_vars(Handle(t))

Spec == Init /\ [][Next]_vars /\ Fairness
-----------------------------------------------------------------------------
(***************************************************************************)
(* Properties                                                              *)
(***************************************************************************)
Places == {"idle", "lock", "erase", "chunk", "embed", "retrieve", "read", "build",
           "stats", "insert", "delete", "search", "return"}

TypeOK ==
    /\ cfg \in Configs
    /\ DOMAIN doc_chunks \subseteq Documents
    /\ \A d \in DOMAIN doc_chunks : doc_chunks[d] \in Nat \ {0}
    /\ \A c \in DOMAIN entries : entries[c].doc \in Documents
    /\ health \in [Documents -> {"clean", "broken", "scarred"}]
    /\ \A t \in Threads : task[t].pc \in Places /\ task[t].i \in Nat /\ task[t].used \in Nat
    /\ mu \in Threads \cup {Nobody}

\* The chunks stored for a document, by the metadata that retrieve reads.
Owned(d) == {c \in DOMAIN entries : entries[c].doc = d}

Piece(d, i) == [doc |-> d, text |-> chunk_words(corpus[d].text, corpus[d].chunks[i + 1])]

\* The document's recorded chunks are stored, each under its own id.
Served(d) ==
    LET last == Len(corpus[d].chunks) - 1
    IN  /\ Known(d) = last + 1
        /\ health[d] # "broken" =>
              \A i \in 0..last : chunk_id(d, i) \in DOMAIN entries /\ entries[chunk_id(d, i)] = Piece(d, i)
        /\ health[d] = "clean" => Owned(d) = {chunk_id(d, i) : i \in 0..last}

\* No ingest and no removal is under way.
Settled == \A t \in Threads : task[t].pc \notin {"erase", "chunk", "embed"}

\* Whenever no document is being ingested or removed, the store holds the chunks of every
\* document as it was ingested last (or none, once it was removed), whatever
\* happened to the other documents, and for a document no ingest of which ever
\* failed nothing else: re-ingesting replaces (RagEngine::ingest and remove,
\* under the server's mutex).
CorpusServed == Settled => \A d \in Documents : Served(d)

\* The chunks recorded for a document leave out nothing of its text: the first
\* starts with it, the last ends with it, each has 1 to window tokens, and two
\* consecutive ones share exactly the (clamped) overlap (chunk_text).
ChunksCoverText ==
    \A d \in Documents :
        LET n == Len(corpus[d].text)
            c == corpus[d].chunks
        IN  /\ c = <<>> <=> n = 0
            /\ c # <<>> => c[1].start = 0 /\ c[Len(c)].end = n
            /\ \A j \in DOMAIN c : c[j].start < c[j].end /\ c[j].end - c[j].start <= window
            /\ \A j \in 1..(Len(c) - 1) : c[j].end - c[j + 1].start = overlap

\* The three numbers of GET /api/stats belong together: all are those of the
\* moment the reply is sent, and the chunks are those of the documents unless
\* an ingest has failed.
StatsAtomic ==
    \A t \in Threads :
        (task[t].pc = "return" /\ task[t].req.kind = "stats") =>
            /\ task[t].list = <<Cardinality(DOMAIN vectors), Cardinality(DOMAIN doc_chunks),
                                Cardinality(DOMAIN entries)>>
            /\ (\A d \in Documents : health[d] = "clean") =>
                  task[t].list[3] = Cardinality(UNION {{d} \X (0..(Known(d) - 1)) : d \in Documents})

\* A chunk that retrieve returns is one that is stored: it has been neither
\* removed nor replaced between the search that found it and the lookup of its
\* text (RagEngine::retrieve under the server's mutex).
RetrievedWhole ==
    \A t \in Threads :
        task[t].pc = "build" \/ (task[t].pc = "return" /\ task[t].req.kind \in {"retrieve", "prompt"}) =>
            \A n \in DOMAIN task[t].list : \E c \in DOMAIN entries : entries[c] = task[t].list[n]

\* A thread's handler has built a prompt.
Prompted(t) == task[t].pc = "return" /\ task[t].reply # <<>> /\ task[t].reply[1] = "prompt"

Greater(x, y) == IF x > y THEN x ELSE y

\* How long a prompt gets, whatever the query: what is reserved for the template
\* covers the template and some bullets, so a prompt exceeds the budget, or the
\* reserve where that is more, only by the bullets beyond; and there are at most
\* retrieve_k (PromptBuilder::build).  With the 24 tokens reserved, the
\* template's 14, up to ten chunks and a query that leaves its reserve within
\* the budget, the prompt stays within it.
PromptBounded ==
    \A t \in Threads :
        Prompted(t) =>
            /\ task[t].i <= cfg.retrieve_k
            /\ task[t].reply[2] + ScaffoldTokens
                  <= Greater(cfg.token_budget, reserved(t)) + TemplateTokens + task[t].i

\* A handler that has the mutex gives it back: every loop under the lock ends,
\* and so does every exception path.
LockReleased == (mu # Nobody) ~> (mu = Nobody)

\* What include/toyvdb/rag.hpp says of an ingest that succeeds, here of any
\* document that has chunks: it "replaces its previous chunks (so stale chunks
\* never linger)", also those an ingest left that failed half way.
NoStaleChunks ==
    Settled => \A d \in Documents :
        LET n == Len(corpus[d].chunks)
        IN  health[d] # "broken" /\ n > 0 => Owned(d) = {chunk_id(d, i) : i \in 0..(n - 1)}

\* What include/toyvdb/rag.hpp says of PromptBuilder: it reserves room for the
\* query and the template "so the whole prompt stays within budget".
PromptWithinBudget == \A t \in Threads : Prompted(t) => task[t].reply[2] <= cfg.token_budget
=============================================================================
