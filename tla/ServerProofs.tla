---------------------------- MODULE ServerProofs ----------------------------
(***************************************************************************)
(* Theorems about Server, for any number of threads and documents, any     *)
(* texts, requests and parameters: the mutex makes every call of the RAG   *)
(* engine a single step for the others, the chunks of a document never     *)
(* meet those of another one, the chunker loses no token, and the prompt   *)
(* keeps its bound.                                                        *)
(***************************************************************************)
EXTENDS ServerQueries, ServerRecord, FunctionTheorems

-----------------------------------------------------------------------------
(***************************************************************************)
(* The theorems.                                                           *)
(***************************************************************************)

\* A server that has just started.
LEMMA InitOK ==
    ASSUME Init
    PROVE  IInv
<1>1. /\ cfg \in Configs /\ entries = <<>> /\ doc_chunks = <<>> /\ mu = Nobody /\ vectors = <<>>
      /\ corpus = [d \in Documents |-> NoText] /\ health = [d \in Documents |-> "clean"]
      /\ task = [t \in Threads |-> Locals("idle", <<>>)]
  BY DEF Init, RagInit
<1>2. Shape
  <2>1. Locals("idle", <<>>) \in Tasks({<<>>}, {<<>>}, {<<>>})
    BY DEF Locals, Tasks, Places
  <2> HIDE DEF Locals, Tasks
  <2>2. task \in [Threads -> Tasks({<<>>}, {<<>>}, {<<>>})]
    BY <1>1, <2>1
  <2> QED
    BY <2>2 DEF Shape
<1>3. \A t \in Threads : task[t].pc = "idle"
  BY <1>1 DEF Locals
<1>4. DOMAIN entries = {} /\ DOMAIN doc_chunks = {}
  BY <1>1
<1>5. TypeOK
  <2>1. \A t \in Threads : task[t].pc \in Places /\ task[t].i \in Nat /\ task[t].used \in Nat
    BY <1>2, LocalTypes
  <2> QED
    BY <1>1, <1>4, <2>1 DEF TypeOK
<1>6. Exclusive
  BY <1>3 DEF Exclusive, Inside
<1>7. Stored
  BY <1>4, FS_EmptySet DEF Stored
<1>8. /\ \A d \in Documents : corpus[d].text = <<>> /\ corpus[d].chunks = <<>> /\ Known(d) = 0
      /\ <<>> \in Seq(Spans) /\ <<>> \in Seq(STRING) /\ Len(<<>>) = 0 /\ DOMAIN <<>> = {}
      /\ 1..(0 - 1) = {} /\ 0..(0 - 1) = {} /\ (0 - 1) + 1 = 0
  BY <1>1, <1>4 DEF NoText, Known
<1>9. Recorded
  <2>1. NoText \in [text : Texts \cup {<<>>}, chunks : Seq(Spans)]
    BY DEF NoText
  <2>2. Cut(<<>>, <<>>)
    BY <1>8 DEF Cut, Covers
  <2> HIDE DEF NoText
  <2>3. corpus \in [Documents -> [text : Texts \cup {<<>>}, chunks : Seq(Spans)]]
    BY <1>1, <2>1
  <2> QED
    BY <1>8, <2>2, <2>3 DEF Recorded
<1>10. \A d \in Documents : Served(d)
  BY <1>4, <1>8 DEF Served, Owned
<1>11. \A t \in Threads : Request(t) /\ Working(t)
  BY <1>3 DEF Request, Inside, Working, Erasing, Chunking, Embedding, Querying, Returning
<1> QED
  BY <1>2, <1>5, <1>6, <1>7, <1>9, <1>10, <1>11 DEF IInv

\* A stuttering step.
LEMMA StutterOK ==
    ASSUME IInv, UNCHANGED vars
    PROVE  IInv'
<1>1. UNCHANGED <<cfg, entries, doc_chunks, task, corpus, health, mu, vectors>>
  BY DEF vars
<1>2. Shape' /\ Exclusive' /\ TypeOK' /\ Stored'
  BY <1>1 DEF IInv, Shape, Exclusive, Inside, TypeOK, Stored
<1>3. Recorded'
  BY <1>1 DEF IInv, Recorded, Cut, Covers, Known, window, overlap
<1>4. \A d \in Documents : Untouched(d)' => Served(d)'
  BY <1>1 DEF IInv, Untouched, Changing, Served, Known, Owned, Piece
<1>5. \A t \in Threads : Request(t)'
  BY <1>1 DEF IInv, Request, Inside
<1>6. ASSUME NEW t \in Threads PROVE Working(t)'
  <2>1. Working(t) /\ window' = window /\ overlap' = overlap
    BY <1>1 DEF IInv, window, overlap
  <2>2. Erasing(t)'
    BY <1>1, <2>1 DEF Working, Erasing, Known, Owned, Ids
  <2>3. Chunking(t)'
    BY <1>1, <2>1 DEF Working, Chunking, Cutting, Owned
  <2>4. Embedding(t)'
    BY <1>1, <2>1 DEF Working, Embedding, Cut, Covers, Owned, Ids
  <2>5. Querying(t)'
    BY <1>1, <2>1 DEF Working, Querying, Hit, Reads, available, reserved
  <2>6. Returning(t)'
    BY <1>1, <2>1 DEF Working, Returning, Reads, Whole, available, reserved
  <2> QED
    BY <2>2, <2>3, <2>4, <2>5, <2>6 DEF Working
<1> QED
  BY <1>2, <1>3, <1>4, <1>5, <1>6 DEF IInv

\* Every step of every thread keeps the invariant.
LEMMA NextOK ==
    ASSUME IInv, [Next]_vars
    PROVE  IInv'
<1>1. CASE UNCHANGED vars
  BY <1>1, StutterOK
<1>2. ASSUME NEW t \in Threads, Receive(t) \/ Lock(t) \/ Handle(t) PROVE IInv'
  <2>1. CASE Receive(t)
    BY <2>1, ReceiveOK
  <2>2. CASE Lock(t)
    BY <2>2, LockOK
  <2>3. CASE RagStep(t) /\ UNCHANGED <<mu, vectors>>
    BY <2>3, EraseChunkOK, EraseDoneOK, ChunkTextOK, EmbedChunkOK, EmbedFailsOK, IngestDoneOK,
       RemoveDoneOK, RetrieveOK, RetrieveFailsOK, ReadHitsOK, AddChunkOK, BuildDoneOK
       DEF RagStep
  <2>4. CASE Stats(t)
    BY <2>4, StatsOK
  <2>5. CASE PostVector(t) \/ DeleteVector(t) \/ SearchVectors(t)
    BY <2>5, VectorHandlersOK
  <2>6. CASE Unlock(t)
    BY <2>6, UnlockOK
  <2> QED
    BY <1>2, <2>1, <2>2, <2>3, <2>4, <2>5, <2>6 DEF Handle
<1> QED
  BY <1>1, <1>2 DEF Next

\* With every document clean the chunks stored are those of the documents.
LEMMA ChunksCounted ==
    ASSUME IInv, Settled, \A d \in Documents : health[d] = "clean"
    PROVE  Cardinality(DOMAIN entries)
             = Cardinality(UNION {{d} \X (0..(Known(d) - 1)) : d \in Documents})
<1> DEFINE P == UNION {{d} \X (0..(Known(d) - 1)) : d \in Documents}
           f == [p \in P |-> chunk_id(p[1], p[2])]
<1>1. ASSUME NEW d \in Documents
      PROVE  /\ Known(d) = Len(corpus[d].chunks) /\ Known(d) \in Nat
             /\ Owned(d) = {chunk_id(d, i) : i \in 0..(Known(d) - 1)}
             /\ \A i \in 0..(Known(d) - 1) : i \in ChunkNumbers
  <2>1. Served(d)
    BY DEF IInv, Settled, Untouched, Changing
  <2>2. Known(d) = Len(corpus[d].chunks) /\ Known(d) \in Nat
    BY DEF IInv, Recorded, Cut
  <2>3. \A i \in 0..(Known(d) - 1) : i \in ChunkNumbers
    BY <2>2, Numbered DEF IInv
  <2> QED
    BY <2>1, <2>2, <2>3 DEF Served
<1>2. \A p \in P : /\ p = <<p[1], p[2]>> /\ p[1] \in Documents /\ p[2] \in 0..(Known(p[1]) - 1)
  OBVIOUS
<1>3. \A d \in Documents : \A i \in 0..(Known(d) - 1) : <<d, i>> \in P
  OBVIOUS
<1> HIDE DEF P
<1>4. f \in [P -> DOMAIN entries]
  <2> SUFFICES ASSUME NEW p \in P PROVE chunk_id(p[1], p[2]) \in DOMAIN entries
    OBVIOUS
  <2>1. chunk_id(p[1], p[2]) \in Owned(p[1])
    BY <1>1, <1>2
  <2> QED
    BY <2>1 DEF Owned
<1>5. \A p, q \in P : f[p] = f[q] => p = q
  <2> SUFFICES ASSUME NEW p \in P, NEW q \in P, chunk_id(p[1], p[2]) = chunk_id(q[1], q[2])
               PROVE  p = q
    OBVIOUS
  <2>1. /\ p[1] \in Documents /\ q[1] \in Documents
        /\ p[2] \in ChunkNumbers /\ q[2] \in ChunkNumbers
    BY <1>1, <1>2
  <2>2. p[1] = q[1] /\ p[2] = q[2]
    BY <2>1, ChunkIdsDiffer
  <2> QED
    BY <1>2, <2>2
<1>6. \A c \in DOMAIN entries : \E p \in P : f[p] = c
  <2> SUFFICES ASSUME NEW c \in DOMAIN entries PROVE \E p \in P : f[p] = c
    OBVIOUS
  <2>1. PICK d \in Documents : c \in Owned(d)
    BY DEF IInv, Stored, Owned
  <2>2. PICK i \in 0..(Known(d) - 1) : c = chunk_id(d, i)
    BY <1>1, <2>1
  <2>3. <<d, i>> \in P
    BY <1>3
  <2> QED
    BY <2>2, <2>3
<1> HIDE DEF f
<1>7. f \in Bijection(P, DOMAIN entries)
  BY <1>4, <1>5, <1>6, Fun_IsBij
<1>8. ExistsBijection(DOMAIN entries, P)
  BY <1>7, Fun_ExistsBij, Fun_ExistsBijSymmetric
<1>9. IsFiniteSet(DOMAIN entries)
  BY DEF IInv, Stored
<1> QED
  BY <1>8, <1>9, FS_Bijection DEF P

\* The properties follow from the invariant.
LEMMA Consequences ==
    ASSUME IInv
    PROVE  TypeOK /\ CorpusServed /\ ChunksCoverText /\ StatsAtomic /\ RetrievedWhole /\ PromptBounded
<1>1. TypeOK
  BY DEF IInv
<1>2. CorpusServed
  BY DEF IInv, CorpusServed, Settled, Untouched, Changing
<1>3. ChunksCoverText
  BY DEF IInv, Recorded, Cut, Covers, ChunksCoverText
<1>4. StatsAtomic
  <2> SUFFICES ASSUME NEW t \in Threads, task[t].pc = "return", task[t].req.kind = "stats"
               PROVE  /\ task[t].list = Reads
                      /\ (\A d \in Documents : health[d] = "clean") =>
                            task[t].list[3]
                              = Cardinality(UNION {{d} \X (0..(Known(d) - 1)) : d \in Documents})
    BY DEF StatsAtomic, Reads
  <2>1. task[t].list = Reads
    BY DEF IInv, Working, Returning
  <2>2. Settled
    <3>1. Inside(t)
      BY DEF Inside
    <3> QED
      BY <3>1, Alone DEF Settled, Inside
  <2>3. Reads[3] = Cardinality(DOMAIN entries)
    BY DEF Reads
  <2> QED
    BY <2>1, <2>2, <2>3, ChunksCounted
<1>5. RetrievedWhole
  <2> SUFFICES ASSUME NEW t \in Threads,
                      \/ task[t].pc = "build"
                      \/ task[t].pc = "return" /\ task[t].req.kind \in {"retrieve", "prompt"}
               PROVE  \A n \in DOMAIN task[t].list : \E c \in DOMAIN entries : entries[c] = task[t].list[n]
    BY DEF RetrievedWhole
  <2>1. Querying(t) /\ Returning(t)
    BY DEF IInv, Working
  <2>2. CASE task[t].pc = "build"
    <3>1. task[t].list \in Seq({entries[c] : c \in DOMAIN entries})
      BY <2>1, <2>2 DEF Querying
    <3>2. \A n \in DOMAIN task[t].list : task[t].list[n] \in {entries[c] : c \in DOMAIN entries}
      BY <3>1
    <3> QED
      BY <3>2
  <2>3. CASE task[t].pc = "return" /\ task[t].req.kind \in {"retrieve", "prompt"}
    BY <2>1, <2>3 DEF Returning, Whole
  <2> QED
    BY <2>2, <2>3
<1>6. PromptBounded
  <2> SUFFICES ASSUME NEW t \in Threads, task[t].pc = "return", task[t].reply # <<>>,
                      task[t].reply[1] = "prompt"
               PROVE  /\ task[t].i <= cfg.retrieve_k
                      /\ task[t].reply[2] + ScaffoldTokens
                            <= Greater(cfg.token_budget, reserved(t)) + TemplateTokens + task[t].i
    BY DEF PromptBounded, Prompted
  <2>1. /\ task[t].req.kind = "prompt" /\ task[t].i <= cfg.retrieve_k
        /\ task[t].used <= available(t)
        /\ task[t].reply[2] = TemplateTokens + task[t].req.tokens + task[t].used + task[t].i
    BY DEF IInv, Working, Returning
  <2>2. task[t].req \in Requests /\ task[t].i \in Nat /\ task[t].used \in Nat
    BY LocalTypes DEF IInv, Request, Inside
  <2>3. task[t].req.tokens \in Nat /\ cfg.token_budget \in Nat
    BY <2>1, <2>2, RequestsAssumption, ConfigsAssumption DEF IInv, TypeOK
  <2>4. PICK b \in Nat, q \in Nat, u \in Nat, i \in Nat :
            b = cfg.token_budget /\ q = task[t].req.tokens /\ u = task[t].used /\ i = task[t].i
    BY <2>2, <2>3
  <2>5. reserved(t) = q + ScaffoldTokens
    BY <2>4 DEF reserved
  <2>6. u <= IF b > q + ScaffoldTokens THEN b - (q + ScaffoldTokens) ELSE 0
    BY <2>1, <2>4, <2>5 DEF available
  <2>7. TemplateTokens + q + u + i + ScaffoldTokens
          <= Greater(b, q + ScaffoldTokens) + TemplateTokens + i
    BY <2>6, TokensAssumption DEF Greater
  <2>8. task[t].reply[2] = TemplateTokens + q + u + i
    BY <2>1, <2>4
  <2> QED
    BY <2>1, <2>4, <2>5, <2>7, <2>8
<1> QED
  BY <1>1, <1>2, <1>3, <1>4, <1>5, <1>6

\* For any threads, documents, texts, requests and parameters: whatever the
\* interleaving and whichever embeddings fail, the corpus is served as recorded,
\* the chunks cover the texts, the statistics belong together, what is retrieved
\* is stored, and prompts keep their bound (server.cpp, rag.cpp).
THEOREM ServerCorrect ==
    Spec => [](/\ CorpusServed /\ ChunksCoverText /\ StatsAtomic /\ RetrievedWhole
               /\ PromptBounded)
<1>1. Init => IInv
  BY InitOK
<1>2. IInv /\ [Next]_vars => IInv'
  BY NextOK
<1>3. IInv => /\ CorpusServed /\ ChunksCoverText /\ StatsAtomic /\ RetrievedWhole
              /\ PromptBounded
  BY Consequences
<1> QED
  BY <1>1, <1>2, <1>3, PTL DEF Spec

\* No two threads are ever inside a handler, whatever exceptions are thrown
\* (server.cpp: one std::mutex, a lock guard in every handler).
THEOREM MutualExclusion == Spec => []Exclusive
<1>1. Init => IInv
  BY InitOK
<1>2. IInv /\ [Next]_vars => IInv'
  BY NextOK
<1>3. IInv => Exclusive
  BY DEF IInv
<1> QED
  BY <1>1, <1>2, <1>3, PTL DEF Spec
=============================================================================
