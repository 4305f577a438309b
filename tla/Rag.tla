-------------------------------- MODULE Rag --------------------------------
(***************************************************************************)
(* The RAG engine (src/rag.cpp, include/toyvdb/rag.hpp): a document is cut *)
(* into overlapping chunks, each chunk is embedded and stored under the id *)
(* doc#i with its text as metadata, and a query retrieves chunks and       *)
(* builds a prompt from them under a token budget.                         *)
(*                                                                         *)
(* Every loop turn of a call is a step of the thread t that makes the      *)
(* call, so that what an exception or another thread meets between two     *)
(* turns is a state of the model; Server adds the mutex.  task[t] holds    *)
(* the locals of t's call: its request, the place pc it has reached, a     *)
(* counter i, a list, the tokens used, and the reply.                      *)
(*                                                                         *)
(* entries is the in-memory engine the chunks are stored in, by its        *)
(* contract: a map from external ids to what was inserted last.  A text is *)
(* its sequence of whitespace-delimited tokens, an id its sequence of      *)
(* characters.  Which chunks are closest to a query is left open.          *)
(***************************************************************************)
EXTENDS Integers, Sequences, FiniteSets

CONSTANTS
    Threads,         \* threads that may run a call
    Documents,       \* document ids
    Texts,           \* document texts
    Configs,         \* RagConfig: [window, overlap, retrieve_k, token_budget]
    Decimal(_),      \* std::to_string of a chunk's number
    ScaffoldTokens,  \* kScaffoldTokens, what build reserves for the template
    TemplateTokens   \* the tokens the template really has

\* The numbers a chunk of one of the texts can have.
ChunkNumbers == UNION {0..Len(x) : x \in Texts}

\* std::to_string gives different numbers different digits, and no "#".
ASSUME DecimalAssumption ==
    \A i \in ChunkNumbers :
        /\ Decimal(i) \in Seq(STRING)
        /\ \A n \in DOMAIN Decimal(i) : Decimal(i)[n] # "#"
        /\ \A j \in ChunkNumbers : Decimal(i) = Decimal(j) => i = j

ASSUME StringsAssumption == Documents \subseteq Seq(STRING) /\ Texts \subseteq Seq(STRING)
ASSUME ConfigsAssumption ==
    \A c \in Configs : {c.window, c.overlap, c.retrieve_k, c.token_budget} \subseteq Nat
ASSUME TokensAssumption == ScaffoldTokens \in Nat /\ TemplateTokens \in Nat

VARIABLES
    cfg, entries, doc_chunks, task,
    corpus,   \* history: per document the text and the chunks recorded last
    health    \* history: "clean" if no ingest of the document ever failed,
              \* "broken" if its last one did, "scarred" if an earlier one did

ragVars == <<cfg, entries, doc_chunks, task, corpus, health>>

Least(x, y) == IF x < y THEN x ELSE y
With(f, key, value) == [x \in DOMAIN f \cup {key} |-> IF x = key THEN value ELSE f[x]]
Without(f, key) == [x \in DOMAIN f \ {key} |-> f[x]]

chunk_id(doc, i) == doc \o <<"#">> \o Decimal(i)

\* doc_chunks_.find(doc), 0 if there is no entry
Known(doc) == IF doc \in DOMAIN doc_chunks THEN doc_chunks[doc] ELSE 0

NoText == [text |-> <<>>, chunks |-> <<>>]

\* Places a call of the RAG engine starts at.
Locals(pc, req) == [pc |-> pc, req |-> req, i |-> 0, used |-> 0, list |-> <<>>, reply |-> <<>>]

RagInit ==
    /\ cfg \in Configs
    /\ entries = <<>> /\ doc_chunks = <<>>
    /\ corpus = [d \in Documents |-> NoText]
    /\ health = [d \in Documents |-> "clean"]

\* The call of thread t is over, with a reply for its caller.
Return(t, reply) == task' = [task EXCEPT ![t].pc = "return", ![t].reply = reply]

(***************************************************************************)
(* RagEngine::ingest and RagEngine::remove                                 *)
(***************************************************************************)
\* A plausible slip: the loop's counter not advanced.
EraseChunk_again(t) ==
    /\ task[t].pc = "erase" /\ task[t].i < Known(task[t].req.doc)
    /\ entries' = Without(entries, chunk_id(task[t].req.doc, task[t].i))
    /\ UNCHANGED <<cfg, doc_chunks, task, corpus, health>>

\* Both begin by erasing the chunks the document is known to have.
EraseChunk(t) ==
    LET doc == task[t].req.doc
    IN  /\ task[t].pc = "erase" /\ task[t].i < Known(doc)
        /\ entries' = Without(entries, chunk_id(doc, task[t].i))
        /\ task' = [task EXCEPT ![t].i = @ + 1]
        /\ UNCHANGED <<cfg, doc_chunks, corpus, health>>

EraseDone(t) ==
    /\ task[t].pc = "erase" /\ task[t].req.kind = "ingest"
    /\ task[t].i = Known(task[t].req.doc)
    /\ task' = [task EXCEPT ![t].pc = "chunk", ![t].i = 0]
    /\ UNCHANGED <<cfg, entries, doc_chunks, corpus, health>>

\* chunk_text: the parameters, clamped so that every turn advances
window == IF cfg.window = 0 THEN 1 ELSE cfg.window
overlap == IF cfg.overlap >= window THEN window - 1 ELSE cfg.overlap
step == window - overlap

\* A plausible slip: windows laid end to end from the step, not the window.
chunk_end_step(text, start) == Least(start + step, Len(text))

chunk_end(text, start) == Least(start + window, Len(text))

\* One turn of its loop, from token i; the last chunk reaches the end.
ChunkText(t) ==
    LET text == task[t].req.text
        start == task[t].i
        end == chunk_end(text, start)
    IN  /\ task[t].pc = "chunk"
        /\ IF text = <<>> \/ end = Len(text)
           THEN task' = [task EXCEPT ![t].pc = "embed", ![t].i = 0,
                            ![t].list = IF text = <<>> THEN <<>>
                                        ELSE Append(@, [start |-> start, end |-> end])]
           ELSE task' = [task EXCEPT ![t].i = start + step,
                            ![t].list = Append(@, [start |-> start, end |-> end])]
        /\ UNCHANGED <<cfg, entries, doc_chunks, corpus, health>>

chunk_words(text, c) == SubSeq(text, c.start + 1, c.end)

\* One turn of the loop over the chunks: embed, then insert.
EmbedChunk(t) ==
    LET doc == task[t].req.doc
        i   == task[t].i
    IN  /\ task[t].pc = "embed" /\ i < Len(task[t].list)
        /\ entries' = With(entries, chunk_id(doc, i),
                           [doc |-> doc, text |-> chunk_words(task[t].req.text, task[t].list[i + 1])])
        /\ task' = [task EXCEPT ![t].i = i + 1]
        /\ UNCHANGED <<cfg, doc_chunks, corpus, health>>

\* The embedding model, which may be a remote service, throws, or the insert
\* does: the exception leaves ingest with doc_chunks_ as it was.
EmbedFails(t) ==
    /\ task[t].pc = "embed" /\ task[t].i < Len(task[t].list)
    /\ health' = [health EXCEPT ![task[t].req.doc] = "broken"]
    /\ Return(t, <<"error">>)
    /\ UNCHANGED <<cfg, entries, doc_chunks, corpus>>

Healed(h) == IF h = "clean" THEN "clean" ELSE "scarred"

\* A plausible slip: a document without chunks recorded like the others.
IngestDone_empty(t) ==
    LET doc == task[t].req.doc
        n   == Len(task[t].list)
    IN  /\ task[t].pc = "embed" /\ task[t].i = n
        /\ doc_chunks' = With(doc_chunks, doc, n)
        /\ corpus' = [corpus EXCEPT ![doc] = [text |-> task[t].req.text, chunks |-> task[t].list]]
        /\ health' = [health EXCEPT ![doc] = Healed(@)]
        /\ Return(t, <<"chunks", n>>)
        /\ UNCHANGED <<cfg, entries>>

\* A plausible slip: the number of chunks recorded only for a new document.
IngestDone_once(t) ==
    LET doc == task[t].req.doc
        n   == Len(task[t].list)
    IN  /\ task[t].pc = "embed" /\ task[t].i = n
        /\ doc_chunks' = IF n = 0 THEN Without(doc_chunks, doc)
                         ELSE IF doc \in DOMAIN doc_chunks THEN doc_chunks
                         ELSE With(doc_chunks, doc, n)
        /\ corpus' = [corpus EXCEPT ![doc] = [text |-> task[t].req.text, chunks |-> task[t].list]]
        /\ health' = [health EXCEPT ![doc] = Healed(@)]
        /\ Return(t, <<"chunks", n>>)
        /\ UNCHANGED <<cfg, entries>>

IngestDone(t) ==
    LET doc == task[t].req.doc
        n   == Len(task[t].list)
    IN  /\ task[t].pc = "embed" /\ task[t].i = n
        /\ doc_chunks' = IF n = 0 THEN Without(doc_chunks, doc) ELSE With(doc_chunks, doc, n)
        /\ corpus' = [corpus EXCEPT ![doc] = [text |-> task[t].req.text, chunks |-> task[t].list]]
        /\ health' = [health EXCEPT ![doc] = Healed(@)]
        /\ Return(t, <<"chunks", n>>)
        /\ UNCHANGED <<cfg, entries>>

\* remove, after its loop or at once if the document is not known
RemoveDone(t) ==
    LET doc == task[t].req.doc
    IN  /\ task[t].pc = "erase" /\ task[t].req.kind = "remove"
        /\ task[t].i = Known(doc)
        /\ Return(t, <<"existed", doc \in DOMAIN doc_chunks>>)
        /\ IF doc \in DOMAIN doc_chunks
           THEN /\ doc_chunks' = Without(doc_chunks, doc)
                /\ corpus' = [corpus EXCEPT ![doc] = NoText]
                /\ health' = [health EXCEPT ![doc] = Healed(@)]
           ELSE UNCHANGED <<doc_chunks, corpus, health>>
        /\ UNCHANGED <<cfg, entries>>

(***************************************************************************)
(* RagEngine::retrieve, RagEngine::build_prompt and PromptBuilder::build   *)
(***************************************************************************)
Injective(s) == \A i, j \in DOMAIN s : i # j => s[i] # s[j]

\* What a hit's internal id leads to: the chunk's id and its slot's metadata,
\* which an erase leaves in the slot.
Hit(c) == [id |-> c, meta |-> entries[c]]

\* engine_.search: the k closest chunks, in any order here.
Retrieve(t) ==
    LET k == IF task[t].req.kind = "prompt" THEN cfg.retrieve_k ELSE task[t].req.k
    IN  /\ task[t].pc = "retrieve"
        /\ \E hits \in [1..Least(k, Cardinality(DOMAIN entries)) -> DOMAIN entries] :
              /\ Injective(hits)
              /\ task' = [task EXCEPT ![t].pc = "read",
                                      ![t].list = [n \in DOMAIN hits |-> Hit(hits[n])]]
        /\ UNCHANGED <<cfg, entries, doc_chunks, corpus, health>>

\* The embedding of the query throws.
RetrieveFails(t) ==
    /\ task[t].pc = "retrieve"
    /\ Return(t, <<"error">>)
    /\ UNCHANGED <<cfg, entries, doc_chunks, corpus, health>>

\* The hits mapped back to the metadata in their slots: what is stored under the
\* chunk's id, and what was stored there last if the chunk has been erased.
ReadHits(t) ==
    LET found(h) == IF h.id \in DOMAIN entries THEN entries[h.id] ELSE h.meta
        out == [n \in DOMAIN task[t].list |-> found(task[t].list[n])]
    IN  /\ task[t].pc = "read"
        /\ task' = [task EXCEPT ![t].pc = IF task[t].req.kind = "prompt" THEN "build" ELSE "return",
                                ![t].list = out, ![t].reply = <<"results", out>>]
        /\ UNCHANGED <<cfg, entries, doc_chunks, corpus, health>>

\* PromptBuilder::build.  The counter i is the number of chunks in the context.
reserved(t) == task[t].req.tokens + ScaffoldTokens
available(t) == IF cfg.token_budget > reserved(t) THEN cfg.token_budget - reserved(t) ELSE 0

\* A plausible slip: the budget tested before the chunk's cost is added.
Fits_before(t) == task[t].i < Len(task[t].list) /\ task[t].used <= available(t)

Fits(t) ==
    /\ task[t].i < Len(task[t].list)
    /\ task[t].used + Len(task[t].list[task[t].i + 1].text) <= available(t)

AddChunk(t) ==
    /\ task[t].pc = "build" /\ Fits(t)
    /\ task' = [task EXCEPT ![t].i = @ + 1,
                            ![t].used = @ + Len(task[t].list[task[t].i + 1].text)]
    /\ UNCHANGED <<cfg, entries, doc_chunks, corpus, health>>

\* The prompt's tokens: the template's, the query's, and for every chunk in
\* the context the text's and the bullet in front of it.
BuildDone(t) ==
    /\ task[t].pc = "build" /\ ~Fits(t)
    /\ Return(t, <<"prompt", TemplateTokens + task[t].req.tokens + task[t].used + task[t].i>>)
    /\ UNCHANGED <<cfg, entries, doc_chunks, corpus, health>>

\* Every step of a call of the RAG engine.
RagStep(t) ==
    \/ EraseChunk(t) \/ EraseDone(t) \/ ChunkText(t) \/ EmbedChunk(t) \/ EmbedFails(t)
    \/ IngestDone(t) \/ RemoveDone(t)
    \/ Retrieve(t) \/ RetrieveFails(t) \/ ReadHits(t) \/ AddChunk(t) \/ BuildDone(t)
=============================================================================
