--------------------------- MODULE ServerQueries ----------------------------
(***************************************************************************)
(* The invariant is kept by the steps that take and release the mutex, by  *)
(* the handlers of the vector engine, and by retrieval and the building of *)
(* prompts.                                                                *)
(***************************************************************************)
EXTENDS ServerInvariant, FiniteSetTheorems

\* A request arrives.
LEMMA ReceiveOK ==
    ASSUME IInv, NEW t \in Threads, Receive(t)
    PROVE  IInv'
<1>1. PICK r \in Requests : task' = [task EXCEPT ![t] = Locals("lock", r)]
  BY DEF Receive
<1>2. Shape' /\ OthersWait(t) /\ task'[t] = Locals("lock", r)
  <2>1. PICK R, L, A : task \in [Threads -> Tasks(R, L, A)]
    BY DEF IInv, Shape
  <2>2. Locals("lock", r) \in Tasks(R \cup {r}, L \cup {<<>>}, A \cup {<<>>})
    BY DEF Locals, Tasks, Places
  <2>3. \A k \in Tasks(R, L, A) : k \in Tasks(R \cup {r}, L \cup {<<>>}, A \cup {<<>>})
    BY DEF Tasks
  <2> HIDE DEF Tasks, Locals
  <2>4. task' \in [Threads -> Tasks(R \cup {r}, L \cup {<<>>}, A \cup {<<>>})]
    BY <1>1, <2>1, <2>2, <2>3
  <2> QED
    BY <1>1, <2>1, <2>4 DEF Shape, OthersWait
<1>3. /\ task'[t].pc = "lock" /\ task'[t].req = r /\ task'[t].i = 0 /\ task'[t].used = 0
      /\ task'[t].list = <<>> /\ task'[t].reply = <<>>
  BY <1>2 DEF Locals
<1>4. Request(t)'
  BY <1>3 DEF Request, Inside
<1>5. Working(t)'
  BY <1>3 DEF Working, Erasing, Chunking, Embedding, Querying, Returning
<1>6. Exclusive' /\ mu' \in Threads \cup {Nobody}
  BY <1>2, <1>3 DEF IInv, Exclusive, Inside, OthersWait, TypeOK, Receive
<1>7. ~Changing(t)
  BY DEF Receive, Changing
<1> QED
  BY <1>2, <1>4, <1>5, <1>6, <1>7, LocalStep DEF Receive

\* The lock guard releases the mutex.
LEMMA UnlockOK ==
    ASSUME IInv, NEW t \in Threads, Unlock(t)
    PROVE  IInv'
<1>1. task' = [task EXCEPT ![t] = Locals("idle", <<>>)] /\ task[t].pc = "return"
  BY DEF Unlock
<1>2. Shape' /\ OthersWait(t) /\ task'[t] = Locals("idle", <<>>)
  <2>1. PICK R, L, A : task \in [Threads -> Tasks(R, L, A)]
    BY DEF IInv, Shape
  <2>2. Locals("idle", <<>>) \in Tasks(R \cup {<<>>}, L \cup {<<>>}, A \cup {<<>>})
    BY DEF Locals, Tasks, Places
  <2>3. \A k \in Tasks(R, L, A) : k \in Tasks(R \cup {<<>>}, L \cup {<<>>}, A \cup {<<>>})
    BY DEF Tasks
  <2> HIDE DEF Tasks, Locals
  <2>4. task' \in [Threads -> Tasks(R \cup {<<>>}, L \cup {<<>>}, A \cup {<<>>})]
    BY <1>1, <2>1, <2>2, <2>3
  <2> QED
    BY <1>1, <2>1, <2>4 DEF Shape, OthersWait
<1>3. task'[t].pc = "idle"
  BY <1>2 DEF Locals
<1>4. Request(t)'
  BY <1>3 DEF Request, Inside
<1>5. Working(t)'
  BY <1>3 DEF Working, Erasing, Chunking, Embedding, Querying, Returning
<1>6. Exclusive' /\ mu' \in Threads \cup {Nobody}
  <2>1. Inside(t)
    BY <1>1 DEF Inside
  <2>2. mu = t /\ mu' = Nobody /\ \A u \in Threads \ {t} : ~Inside(u)
    BY <2>1, Alone DEF Unlock
  <2> QED
    BY <1>2, <1>3, <2>2 DEF Exclusive, Inside, OthersWait
<1>7. ~Changing(t)
  BY <1>1 DEF Changing
<1> QED
  BY <1>2, <1>4, <1>5, <1>6, <1>7, LocalStep DEF Unlock

\* A handler gets the mutex: its document is as it was recorded.
LEMMA LockOK ==
    ASSUME IInv, NEW t \in Threads, Lock(t)
    PROVE  IInv'
<1> DEFINE d == task[t].req.doc
           p == Entry(task[t].req.kind)
<1>1. task[t].pc = "lock" /\ mu = Nobody /\ mu' = t /\ task' = [task EXCEPT ![t].pc = p]
  BY DEF Lock
<1>2. Request(t) /\ Querying(t)
  BY DEF IInv, Working
<1>3. task[t].req \in Requests /\ task[t].i = 0 /\ task[t].used = 0 /\ task[t].list = <<>>
      /\ task[t].reply = <<>>
  BY <1>1, <1>2 DEF Request, Querying
<1>4. /\ p \in Places \ {"idle", "lock", "chunk", "embed", "read", "build", "return"}
      /\ p = "erase" => task[t].req.kind \in {"ingest", "remove"} /\ d \in Documents
      /\ p = "retrieve" => task[t].req.kind \in {"retrieve", "prompt"}
      /\ p \in {"stats", "insert", "delete", "search"} => p = task[t].req.kind
  BY <1>3, RequestsAssumption DEF Entry, Places
<1> HIDE DEF p
<1>5. Moved(t, p, task[t].i, task[t].used, task[t].list, task[t].reply)
  BY <1>1, <1>4, MovePc DEF IInv
<1>6. Request(t)'
  BY <1>3, <1>4, <1>5 DEF Request, Moved, Inside
<1>7. \A u \in Threads : ~Inside(u)
  BY <1>1, MutexAssumption DEF IInv, Exclusive
<1>8. Erasing(t)'
  <2> SUFFICES ASSUME p = "erase" PROVE Erasing(t)'
    BY <1>5 DEF Erasing, Moved
  <2>1. Untouched(d)
    BY <1>7 DEF Untouched, Changing, Inside
  <2>2. Served(d) /\ Known(d) = Len(corpus[d].chunks) /\ Len(corpus[d].chunks) \in Nat
    BY <1>4, <2>1 DEF IInv, Recorded, Cut
  <2>3. health[d] = "clean" => Owned(d) = Ids(d, 0, Known(d) - 1)
    BY <2>2 DEF Served, Ids
  <2>4. Known(d)' = Known(d) /\ Owned(d)' = Owned(d) /\ health' = health /\ task'[t].req.doc = d
    BY <1>5 DEF Lock, Known, Owned, Moved
  <2>5. Ids(d, 0, Known(d) - 1)' = Ids(d, 0, Known(d) - 1)
    BY <2>4 DEF Ids
  <2> QED
    BY <1>3, <1>5, <2>2, <2>3, <2>4, <2>5 DEF Erasing, Moved, Ids
<1>9. Querying(t)'
  <2>1. task'[t].list \in Seq({Reads[1], Reads[2], Reads[3]})' /\ Len(task'[t].list) = 0
    BY <1>3, <1>5 DEF Moved
  <2> QED
    BY <1>3, <1>4, <1>5, <2>1 DEF Querying, Moved
<1>10. Chunking(t)' /\ Embedding(t)' /\ Returning(t)'
  BY <1>4, <1>5 DEF Chunking, Embedding, Returning, Moved
<1>11. Exclusive' /\ mu' \in Threads \cup {Nobody}
  BY <1>1, <1>5, <1>7 DEF Exclusive, Inside, Moved, OthersWait
<1>12. ~Changing(t) /\ vectors' = vectors
  BY <1>1 DEF Changing, Lock
<1> QED
  BY <1>5, <1>6, <1>8, <1>9, <1>10, <1>11, <1>12, LocalStep DEF Working, Lock, Moved

\* The embedding of a query throws.
LEMMA RetrieveFailsOK ==
    ASSUME IInv, NEW t \in Threads, RetrieveFails(t), UNCHANGED <<mu, vectors>>
    PROVE  IInv'
<1>1. task[t].pc = "retrieve" /\ Inside(t) /\ ~Changing(t)
  BY DEF RetrieveFails, Inside, Changing
<1>2. Moved(t, "return", task[t].i, task[t].used, task[t].list, <<"error">>)
  <2>1. task' = [task EXCEPT ![t].pc = "return", ![t].reply = <<"error">>]
    BY DEF RetrieveFails, Return
  <2> QED
    BY <2>1, MoveReturn DEF IInv, Places
<1>3. Request(t) /\ Querying(t)
  BY DEF IInv, Working
<1>4. Request(t)'
  BY <1>1, <1>2, <1>3 DEF Request, Moved, Inside
<1>5. Returning(t)'
  BY <1>1, <1>2, <1>3 DEF Returning, Moved, Request, Querying, Whole
<1>6. Erasing(t)' /\ Chunking(t)' /\ Embedding(t)' /\ Querying(t)'
  BY <1>2 DEF Erasing, Chunking, Embedding, Querying, Moved
<1>7. Exclusive' /\ mu' \in Threads \cup {Nobody}
  BY <1>1, <1>2, StaysInside DEF Moved
<1> QED
  BY <1>1, <1>2, <1>4, <1>5, <1>6, <1>7, LocalStep DEF Working, RetrieveFails, Moved

\* The search finds stored chunks, at most as many as were asked for.
LEMMA RetrieveOK ==
    ASSUME IInv, NEW t \in Threads, Retrieve(t), UNCHANGED <<mu, vectors>>
    PROVE  IInv'
<1>1. task[t].pc = "retrieve" /\ Inside(t) /\ ~Changing(t)
  BY DEF Retrieve, Inside, Changing
<1>2. Request(t) /\ Querying(t)
  BY DEF IInv, Working
<1> DEFINE k == IF task[t].req.kind = "prompt" THEN cfg.retrieve_k ELSE task[t].req.k
           n == Least(k, Cardinality(DOMAIN entries))
<1>3. PICK hits \in [1..n -> DOMAIN entries] :
          task' = [task EXCEPT ![t].pc = "read",
                               ![t].list = [j \in DOMAIN hits |-> Hit(hits[j])]]
  BY DEF Retrieve
<1>4. k \in Nat
  BY <1>1, <1>2, RequestsAssumption, ConfigsAssumption DEF Request, Inside, IInv, TypeOK
<1>5. n \in Nat /\ n <= k
  <2>1. Cardinality(DOMAIN entries) \in Nat
    BY FS_CardinalityType DEF IInv, Stored
  <2> HIDE DEF k
  <2> QED
    BY <1>4, <2>1 DEF Least
<1>6. task[t].req.kind = "prompt" => n <= cfg.retrieve_k
  BY <1>5
<1> HIDE DEF n, k
<1> DEFINE found == [j \in DOMAIN hits |-> Hit(hits[j])]
<1>7. found \in Seq({Hit(c) : c \in DOMAIN entries}) /\ Len(found) = n
  BY <1>3, <1>5
<1> HIDE DEF found
<1>8. Moved(t, "read", task[t].i, task[t].used, found, task[t].reply)
  BY <1>3, MovePcList DEF IInv, Places, found
<1>9. Request(t)'
  BY <1>1, <1>2, <1>8 DEF Request, Moved, Inside
<1>10. Querying(t)'
  BY <1>1, <1>2, <1>6, <1>7, <1>8 DEF Querying, Hit, Moved, Retrieve
<1>11. Erasing(t)' /\ Chunking(t)' /\ Embedding(t)' /\ Returning(t)'
  BY <1>8 DEF Erasing, Chunking, Embedding, Returning, Moved
<1>12. Exclusive' /\ mu' \in Threads \cup {Nobody}
  BY <1>1, <1>8, StaysInside DEF Moved
<1> QED
  BY <1>1, <1>8, <1>9, <1>10, <1>11, <1>12, LocalStep DEF Working, Retrieve, Moved

\* Under the lock every hit is still stored when its text is read.
LEMMA ReadHitsOK ==
    ASSUME IInv, NEW t \in Threads, ReadHits(t), UNCHANGED <<mu, vectors>>
    PROVE  IInv'
<1> DEFINE found(h) == IF h.id \in DOMAIN entries THEN entries[h.id] ELSE h.meta
           out == [n \in DOMAIN task[t].list |-> found(task[t].list[n])]
           p == IF task[t].req.kind = "prompt" THEN "build" ELSE "return"
           E == {entries[c] : c \in DOMAIN entries}
<1>1. task[t].pc = "read" /\ Inside(t) /\ ~Changing(t)
  BY DEF ReadHits, Inside, Changing
<1>2. Request(t) /\ Querying(t)
  BY DEF IInv, Working
<1>3. /\ task[t].i = 0 /\ task[t].used = 0
      /\ task[t].list \in Seq({Hit(c) : c \in DOMAIN entries})
      /\ task[t].req.kind \in {"retrieve", "prompt"}
      /\ task[t].req.kind = "prompt" => Len(task[t].list) <= cfg.retrieve_k
  BY <1>1, <1>2 DEF Request, Querying
<1>4. out \in Seq(E) /\ Len(out) = Len(task[t].list) /\ DOMAIN out = DOMAIN task[t].list
  <2>1. \A n \in DOMAIN task[t].list : found(task[t].list[n]) \in E
    <3> SUFFICES ASSUME NEW n \in DOMAIN task[t].list
                 PROVE  found(task[t].list[n]) \in E
      OBVIOUS
    <3>1. PICK c \in DOMAIN entries : task[t].list[n] = Hit(c)
      BY <1>3
    <3> QED
      BY <3>1 DEF Hit
  <2> HIDE DEF found, E
  <2> QED
    BY <1>3, <2>1
<1>5. \A n \in DOMAIN out : \E c \in DOMAIN entries : entries[c] = out[n]
  <2> SUFFICES ASSUME NEW n \in DOMAIN out
               PROVE  \E c \in DOMAIN entries : entries[c] = out[n]
    OBVIOUS
  <2>1. out[n] \in E
    <3> HIDE DEF out, E
    <3> QED
      BY <1>4
  <2> QED
    BY <2>1
<1>6. task' = [task EXCEPT ![t].pc = p, ![t].list = out, ![t].reply = <<"results", out>>]
  BY DEF ReadHits
<1>7. p \in Places /\ p \in {"build", "return"}
  BY DEF Places
<1>8. p = "build" <=> task[t].req.kind = "prompt"
  OBVIOUS
<1> HIDE DEF out, p
<1>9. Moved(t, p, task[t].i, task[t].used, out, <<"results", out>>)
  BY <1>6, <1>7, MovePcListReply DEF IInv
<1>10. Request(t)'
  BY <1>1, <1>2, <1>7, <1>8, <1>9 DEF Request, Moved, Inside
<1>11. UNCHANGED <<cfg, entries, doc_chunks, corpus, health>>
  BY DEF ReadHits
<1>12. available(t)' = available(t) /\ (p = "build" => available(t) \in Nat)
  <2>1. available(t)' = available(t)
    BY <1>9, <1>11 DEF available, reserved, Moved
  <2>2. cfg.token_budget \in Nat
    BY ConfigsAssumption DEF IInv, TypeOK
  <2>3. p = "build" => reserved(t) \in Nat
    BY <1>1, <1>2, <1>8, RequestsAssumption, TokensAssumption DEF Request, Inside, reserved
  <2> QED
    BY <2>1, <2>2, <2>3 DEF available
<1>13. Querying(t)'
  <2>1. Len(out) \in Nat
    BY <1>4
  <2> QED
    BY <1>3, <1>4, <1>7, <1>8, <1>9, <1>11, <1>12, <2>1 DEF Querying, Moved
<1>14. Returning(t)'
  <2>1. <<"results", out>>[1] = "results" /\ "results" # "prompt"
    OBVIOUS
  <2> QED
    BY <1>3, <1>5, <1>9, <1>11, <2>1 DEF Returning, Moved, Whole
<1>15. Erasing(t)' /\ Chunking(t)' /\ Embedding(t)'
  BY <1>7, <1>9 DEF Erasing, Chunking, Embedding, Moved
<1>16. Exclusive' /\ mu' \in Threads \cup {Nobody}
  BY <1>1, <1>9, StaysInside DEF Moved
<1> QED
  BY <1>1, <1>9, <1>10, <1>11, <1>13, <1>14, <1>15, <1>16, LocalStep DEF Working, Moved

\* A chunk goes into the prompt's context.
LEMMA AddChunkOK ==
    ASSUME IInv, NEW t \in Threads, AddChunk(t), UNCHANGED <<mu, vectors>>
    PROVE  IInv'
<1> DEFINE m == task[t].used + Len(task[t].list[task[t].i + 1].text)
<1>1. task[t].pc = "build" /\ Inside(t) /\ ~Changing(t)
  BY DEF AddChunk, Inside, Changing
<1>2. Request(t) /\ Querying(t) /\ task[t].i \in Nat /\ task[t].used \in Nat
  BY LocalTypes DEF IInv, Working
<1>3. /\ task[t].list \in Seq({entries[c] : c \in DOMAIN entries})
      /\ task[t].i < Len(task[t].list) /\ m <= available(t)
  BY <1>1, <1>2 DEF Querying, AddChunk, Fits
<1>4. m \in Nat
  <2>1. task[t].list[task[t].i + 1] \in {entries[c] : c \in DOMAIN entries}
    BY <1>2, <1>3
  <2>2. PICK c \in DOMAIN entries : task[t].list[task[t].i + 1] = entries[c]
    BY <2>1
  <2>3. entries[c].text \in Seq(STRING)
    BY DEF IInv, Stored
  <2>4. Len(entries[c].text) \in Nat
    BY <2>3
  <2> QED
    BY <1>2, <2>2, <2>4
<1>5. Moved(t, task[t].pc, task[t].i + 1, m, task[t].list, task[t].reply)
  <2>1. task' = [task EXCEPT ![t].i = task[t].i + 1, ![t].used = m]
    BY DEF AddChunk
  <2>2. task[t].i + 1 \in Nat
    BY <1>2
  <2> HIDE DEF m
  <2> QED
    BY <1>4, <2>1, <2>2, MoveIUsed DEF IInv
<1> HIDE DEF m
<1>6. UNCHANGED <<cfg, entries, doc_chunks, corpus, health>>
  BY DEF AddChunk
<1>7. Request(t)'
  BY <1>1, <1>2, <1>5 DEF Request, Moved, Inside
<1>8. Querying(t)'
  <2>1. available(t)' = available(t)
    BY <1>5, <1>6 DEF available, reserved, Moved
  <2>2. task[t].i + 1 <= Len(task[t].list) /\ Len(task[t].list) <= cfg.retrieve_k
    BY <1>1, <1>2, <1>3 DEF Querying
  <2> QED
    BY <1>1, <1>3, <1>5, <1>6, <2>1, <2>2 DEF Querying, Moved
<1>9. Erasing(t)' /\ Chunking(t)' /\ Embedding(t)' /\ Returning(t)'
  BY <1>1, <1>5 DEF Erasing, Chunking, Embedding, Returning, Moved
<1>10. Exclusive' /\ mu' \in Threads \cup {Nobody}
  BY <1>1, <1>5, StaysInside DEF Moved
<1> QED
  BY <1>1, <1>5, <1>6, <1>7, <1>8, <1>9, <1>10, LocalStep DEF Working, Moved

\* The prompt is complete.
LEMMA BuildDoneOK ==
    ASSUME IInv, NEW t \in Threads, BuildDone(t), UNCHANGED <<mu, vectors>>
    PROVE  IInv'
<1> DEFINE n == TemplateTokens + task[t].req.tokens + task[t].used + task[t].i
<1>1. task[t].pc = "build" /\ Inside(t) /\ ~Changing(t)
  BY DEF BuildDone, Inside, Changing
<1>2. Request(t) /\ Querying(t) /\ task[t].i \in Nat /\ task[t].used \in Nat
  BY LocalTypes DEF IInv, Working
<1>3. /\ task[t].list \in Seq({entries[c] : c \in DOMAIN entries}) /\ task[t].req.kind = "prompt"
      /\ task[t].used <= available(t)
  BY <1>1, <1>2 DEF Querying, Request
<1>4. task[t].i <= cfg.retrieve_k
  <2>1. Len(task[t].list) \in Nat /\ cfg.retrieve_k \in Nat
    BY <1>3, ConfigsAssumption DEF IInv, TypeOK
  <2> QED
    BY <1>1, <1>2, <2>1 DEF Querying
<1>5. Moved(t, "return", task[t].i, task[t].used, task[t].list, <<"prompt", n>>)
  <2>1. task' = [task EXCEPT ![t].pc = "return", ![t].reply = <<"prompt", n>>]
    BY DEF BuildDone, Return
  <2> HIDE DEF n
  <2> QED
    BY <2>1, MoveReturn DEF IInv, Places
<1>6. UNCHANGED <<cfg, entries, doc_chunks, corpus, health>>
  BY DEF BuildDone
<1>7. Request(t)'
  BY <1>1, <1>2, <1>5 DEF Request, Moved, Inside
<1>8. Returning(t)'
  <2>1. available(t)' = available(t)
    BY <1>5, <1>6 DEF available, reserved, Moved
  <2>2. \A j \in DOMAIN task'[t].list : \E c \in DOMAIN entries' : entries'[c] = task'[t].list[j]
    <3>1. \A j \in DOMAIN task[t].list : task[t].list[j] \in {entries[c] : c \in DOMAIN entries}
      BY <1>3
    <3> QED
      BY <1>5, <1>6, <3>1 DEF Moved
  <2>3. task'[t].reply[2] = TemplateTokens + task'[t].req.tokens + task'[t].used + task'[t].i
    BY <1>5 DEF Moved
  <2>4. task'[t].req.kind = "prompt" /\ task'[t].i <= cfg'.retrieve_k
        /\ task'[t].used <= available(t)'
    BY <1>3, <1>4, <1>5, <1>6, <2>1 DEF Moved
  <2> QED
    BY <2>2, <2>3, <2>4 DEF Returning, Whole
<1>9. Erasing(t)' /\ Chunking(t)' /\ Embedding(t)' /\ Querying(t)'
  BY <1>5 DEF Erasing, Chunking, Embedding, Querying, Moved
<1>10. Exclusive' /\ mu' \in Threads \cup {Nobody}
  BY <1>1, <1>5, StaysInside DEF Moved
<1> QED
  BY <1>1, <1>5, <1>6, <1>7, <1>8, <1>9, <1>10, LocalStep DEF Working, Moved

\* A handler of the vector engine replies.
LEMMA VectorReply ==
    ASSUME IInv, NEW t \in Threads, task[t].pc \in {"insert", "delete", "search"},
           NEW a, a[1] # "prompt", Return(t, a),
           UNCHANGED <<cfg, entries, doc_chunks, corpus, health, mu>>
    PROVE  IInv'
<1>1. Inside(t) /\ ~Changing(t) /\ Request(t)
  BY DEF Inside, Changing, IInv
<1>2. Moved(t, "return", task[t].i, task[t].used, task[t].list, a)
  BY MoveReturn DEF IInv, Places, Return
<1>3. task[t].req.kind \in {"insert", "delete", "search"}
  BY <1>1 DEF Request
<1>4. Request(t)'
  BY <1>1, <1>2 DEF Request, Moved, Inside
<1>5. Returning(t)'
  BY <1>2, <1>3 DEF Returning, Moved
<1>6. Erasing(t)' /\ Chunking(t)' /\ Embedding(t)' /\ Querying(t)'
  BY <1>2 DEF Erasing, Chunking, Embedding, Querying, Moved
<1>7. Exclusive' /\ mu' \in Threads \cup {Nobody}
  BY <1>1, <1>2, StaysInside DEF Moved
<1> QED
  BY <1>1, <1>2, <1>4, <1>5, <1>6, <1>7, LocalStep DEF Working, Moved

\* The three handlers of the vector engine that insert, delete and search.
LEMMA VectorHandlersOK ==
    ASSUME IInv, NEW t \in Threads, PostVector(t) \/ DeleteVector(t) \/ SearchVectors(t)
    PROVE  IInv'
<1>1. CASE PostVector(t)
  <2>1. <<"ok">>[1] # "prompt" /\ <<"error">>[1] # "prompt"
    OBVIOUS
  <2> QED
    BY <1>1, <2>1, VectorReply DEF PostVector
<1>2. CASE DeleteVector(t)
  <2> DEFINE a == <<"existed", task[t].req.id \in DOMAIN vectors>>
  <2>1. a[1] # "prompt"
    OBVIOUS
  <2>2. Return(t, a)
    BY <1>2 DEF DeleteVector
  <2> HIDE DEF a
  <2> QED
    BY <1>2, <2>1, <2>2, VectorReply DEF DeleteVector
<1>3. CASE SearchVectors(t)
  <2>1. <<"error">>[1] # "prompt" /\ \A hits : <<"results", hits>>[1] # "prompt"
    OBVIOUS
  <2> QED
    BY <1>3, <2>1, VectorReply DEF SearchVectors
<1> QED
  BY <1>1, <1>2, <1>3

\* The reads of GET /api/stats.
LEMMA StatsOK ==
    ASSUME IInv, NEW t \in Threads, Stats(t)
    PROVE  IInv'
<1> DEFINE l == Append(task[t].list, Reads[Len(task[t].list) + 1])
           p == IF Len(l) = 3 THEN "return" ELSE "stats"
<1>1. task[t].pc = "stats" /\ Inside(t) /\ ~Changing(t)
  BY DEF Stats, Inside, Changing
<1>2. Request(t) /\ Querying(t)
  BY DEF IInv, Working
<1> DEFINE S == {Reads[1], Reads[2], Reads[3]}
<1>3. /\ task[t].list \in Seq(S) /\ Len(task[t].list) <= 2
      /\ \A n \in 1..Len(task[t].list) : task[t].list[n] = Reads[n]
      /\ task[t].i = 0 /\ task[t].used = 0 /\ task[t].req.kind = "stats" /\ task[t].reply = <<>>
  BY <1>1, <1>2 DEF Querying, Request
<1>4. task' = [task EXCEPT ![t].list = l, ![t].pc = p]
  BY DEF Stats, Reads
<1>5. UNCHANGED <<cfg, entries, doc_chunks, corpus, health, mu, vectors>>
  BY DEF Stats
<1>6. /\ l \in Seq(S) /\ Len(l) \in 1..3 /\ \A n \in 1..Len(l) : l[n] = Reads[n]
      /\ Len(l) = 3 => l = Reads
  <2>1. Reads \in Seq(S) /\ Len(Reads) = 3
    <3>1. Reads = <<Reads[1], Reads[2], Reads[3]>>
      BY DEF Reads
    <3>2. ASSUME NEW a, NEW b, NEW c
          PROVE  <<a, b, c>> \in Seq({a, b, c}) /\ Len(<<a, b, c>>) = 3
      OBVIOUS
    <3>3. <<Reads[1], Reads[2], Reads[3]>> \in Seq(S) /\ Len(<<Reads[1], Reads[2], Reads[3]>>) = 3
      BY <3>2
    <3> QED
      BY <3>1, <3>3, Zenon
  <2>2. Len(task[t].list) + 1 \in 1..3
    BY <1>3
  <2>3. Reads[Len(task[t].list) + 1] \in S
    BY <2>2
  <2>4. l \in Seq(S) /\ Len(l) = Len(task[t].list) + 1 /\ \A n \in 1..Len(l) : l[n] = Reads[n]
    BY <1>3, <2>3
  <2> HIDE DEF l, S
  <2>5. Len(l) = 3 => l = Reads
    BY <2>1, <2>4, SameElements
  <2> QED
    BY <2>2, <2>4, <2>5
<1>7. p \in Places /\ p \in {"return", "stats"} /\ (p = "return" <=> Len(l) = 3)
  BY DEF Places
<1> HIDE DEF l, p
<1>8. Moved(t, p, task[t].i, task[t].used, l, task[t].reply)
  BY <1>4, <1>7, MoveListPc DEF IInv
<1>9. Reads' = Reads
  BY <1>5 DEF Reads
<1>10. Request(t)'
  BY <1>1, <1>2, <1>7, <1>8 DEF Request, Moved, Inside
<1>11. Querying(t)'
  <2>1. p = "stats" => Len(l) <= 2
    BY <1>6, <1>7
  <2> QED
    BY <1>3, <1>6, <1>7, <1>8, <1>9, <2>1 DEF Querying, Moved
<1>12. Returning(t)'
  BY <1>3, <1>6, <1>7, <1>8, <1>9 DEF Returning, Moved
<1>13. Erasing(t)' /\ Chunking(t)' /\ Embedding(t)'
  BY <1>7, <1>8 DEF Erasing, Chunking, Embedding, Moved
<1>14. Exclusive' /\ mu' \in Threads \cup {Nobody}
  BY <1>1, <1>5, <1>8, StaysInside DEF Moved
<1> QED
  BY <1>1, <1>5, <1>8, <1>10, <1>11, <1>12, <1>13, <1>14, LocalStep DEF Working, Moved
=============================================================================
