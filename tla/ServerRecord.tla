---------------------------- MODULE ServerRecord ----------------------------
(***************************************************************************)
(* The steps that end an ingest or a removal, and record or forget the     *)
(* document, keep the invariant.                                           *)
(***************************************************************************)
EXTENDS ServerIngest

\* A step that records or forgets document d leaves the others as they are.
LEMMA OthersUndisturbed ==
    ASSUME IInv, NEW t \in Threads, Changing(t), NEW d \in Documents, d = task[t].req.doc,
           entries' = entries,
           \A e \in Documents \ {d} : /\ Known(e)' = Known(e) /\ corpus'[e] = corpus[e]
                                      /\ health'[e] = health[e]
    PROVE  \A e \in Documents \ {d} : Served(e)'
<1> SUFFICES ASSUME NEW e \in Documents \ {d} PROVE Served(e)'
  OBVIOUS
<1>1. Served(e)
  BY OthersServed
<1>2. Owned(e)' = Owned(e) /\ \A i : Piece(e, i)' = Piece(e, i)
  BY DEF Owned, Piece
<1> QED
  BY <1>1, <1>2 DEF Served

\* An ingest that fails: the document counts as broken.
LEMMA EmbedFailsOK ==
    ASSUME IInv, NEW t \in Threads, EmbedFails(t), UNCHANGED <<mu, vectors>>
    PROVE  IInv'
<1>1. task[t].pc = "embed" /\ Changing(t)
  BY DEF EmbedFails, Changing
<1>2. PICK d \in Documents : d = task[t].req.doc
  BY <1>1, RequestTypes
<1>3. /\ health' = [health EXCEPT ![d] = "broken"] /\ Return(t, <<"error">>)
      /\ UNCHANGED <<cfg, entries, doc_chunks, corpus>>
  BY <1>2 DEF EmbedFails
<1>4. Moved(t, "return", task[t].i, task[t].used, task[t].list, <<"error">>)
  BY <1>3, MoveReturn DEF IInv, Places, Return
<1>5. Request(t)
  BY DEF IInv
<1>6. Request(t)'
  BY <1>1, <1>4, <1>5 DEF Request, Moved, Inside
<1>7. Working(t)'
  <2>1. task[t].req.kind = "ingest"
    BY <1>1, <1>5 DEF Request
  <2>2. Returning(t)'
    <3>1. /\ task'[t].pc = "return" /\ task'[t].req.kind = "ingest"
          /\ task'[t].reply = <<"error">>
      BY <1>4, <2>1 DEF Moved
    <3>2. task'[t].reply[1] # "prompt"
      BY <3>1
    <3> QED
      BY <3>1, <3>2 DEF Returning
  <2> QED
    BY <1>4, <2>2 DEF Working, Erasing, Chunking, Embedding, Querying, Moved
<1>8. health \in [Documents -> {"clean", "broken", "scarred"}]
  BY DEF IInv, TypeOK
<1>9. Stored' /\ Recorded'
  BY <1>3 DEF IInv, Stored, Recorded, Cut, Covers, Known, window, overlap
<1>10. \A e \in Documents \ {d} : Served(e)'
  <2>1. \A e \in Documents \ {d} : /\ Known(e)' = Known(e) /\ corpus'[e] = corpus[e]
                                   /\ health'[e] = health[e]
    BY <1>3, <1>8 DEF Known
  <2> QED
    BY <1>1, <1>2, <1>3, <2>1, OthersUndisturbed
<1>11. Served(d)'
  <2>1. PICK k \in Nat : k = Len(corpus'[d].chunks) /\ Known(d)' = k
    <3>1. /\ corpus[d].chunks \in Seq(Spans)
          /\ Known(d) = Len(corpus[d].chunks)
      BY DEF IInv, Recorded, Cut
    <3>2. Len(corpus[d].chunks) \in Nat
      BY <3>1
    <3>3. corpus' = corpus /\ Known(d)' = Known(d)
      BY <1>3 DEF Known
    <3> QED
      BY <3>1, <3>2, <3>3
  <2>2. health'[d] = "broken"
    BY <1>3, <1>8
  <2> QED
    BY <2>1, <2>2 DEF Served
<1>12. /\ DOMAIN doc_chunks' \subseteq Documents
       /\ \A e \in DOMAIN doc_chunks' : doc_chunks'[e] \in Nat \ {0}
       /\ health' \in [Documents -> {"clean", "broken", "scarred"}]
  BY <1>3, <1>8 DEF IInv, TypeOK
<1>13. Moved(t, task'[t].pc, task'[t].i, task'[t].used, task'[t].list, task'[t].reply)
  BY <1>4 DEF Moved
<1> QED
  BY <1>1, <1>2, <1>3, <1>6, <1>7, <1>9, <1>10, <1>11, <1>12, <1>13, StoreStep

\* An ingest that succeeds: the document is recorded, and served.
LEMMA IngestDoneOK ==
    ASSUME IInv, NEW t \in Threads, IngestDone(t), UNCHANGED <<mu, vectors>>
    PROVE  IInv'
<1>1. task[t].pc = "embed" /\ Changing(t)
  BY DEF IngestDone, Changing
<1>2. PICK d \in Documents : d = task[t].req.doc
  BY <1>1, RequestTypes
<1>3. PICK text \in Texts : text = task[t].req.text /\ text \in Seq(STRING)
  BY <1>1, RequestTypes
<1>4. PICK l : l = task[t].list
  OBVIOUS
<1>5. Request(t) /\ Embedding(t)
  BY DEF IInv, Working
<1>6. Cut(text, l) /\ l \in Seq(Spans)
  BY <1>1, <1>3, <1>4, <1>5 DEF Embedding, Cut
<1>7. PICK n \in Nat : n = Len(l) /\ n = task[t].i
  BY <1>4, <1>6 DEF IngestDone
<1>8. /\ doc_chunks' = IF n = 0 THEN Without(doc_chunks, d) ELSE With(doc_chunks, d, n)
      /\ corpus' = [corpus EXCEPT ![d] = [text |-> text, chunks |-> l]]
      /\ health' = [health EXCEPT ![d] = Healed(health[d])]
      /\ Return(t, <<"chunks", n>>)
      /\ UNCHANGED <<cfg, entries>>
  BY <1>2, <1>3, <1>4, <1>7 DEF IngestDone
<1>9. /\ \A j \in 0..(n - 1) :
            /\ chunk_id(d, j) \in DOMAIN entries
            /\ entries[chunk_id(d, j)] = [doc |-> d, text |-> chunk_words(text, l[j + 1])]
      /\ health[d] = "clean" => Owned(d) = Ids(d, 0, n - 1)
  BY <1>1, <1>2, <1>3, <1>4, <1>5, <1>7 DEF Embedding
<1>10. Moved(t, "return", n, task[t].used, l, <<"chunks", n>>)
  BY <1>4, <1>7, <1>8, MoveReturn DEF IInv, Places, Return
<1>11. Request(t)'
  BY <1>1, <1>5, <1>10 DEF Request, Moved, Inside
<1>12. Working(t)'
  <2>1. task[t].req.kind = "ingest"
    BY <1>1, <1>5 DEF Request
  <2>2. <<"chunks", n>>[1] # "prompt"
    OBVIOUS
  <2>3. Returning(t)'
    BY <1>10, <2>1, <2>2 DEF Returning, Moved
  <2> QED
    BY <1>10, <2>3 DEF Working, Erasing, Chunking, Embedding, Querying, Moved
<1>13. health \in [Documents -> {"clean", "broken", "scarred"}]
  BY DEF IInv, TypeOK
<1>14. /\ corpus \in [Documents -> [text : Texts \cup {<<>>}, chunks : Seq(Spans)]]
       /\ corpus'[d].text = text /\ corpus'[d].chunks = l
       /\ \A e \in Documents \ {d} : corpus'[e] = corpus[e]
  BY <1>8 DEF IInv, Recorded
<1>15. Known(d)' = n /\ \A e \in Documents \ {d} : Known(e)' = Known(e)
  BY <1>8 DEF Known, With, Without
<1>16. Stored'
  BY <1>8 DEF IInv, Stored
<1>17. Recorded'
  <2>1. corpus' \in [Documents -> [text : Texts \cup {<<>>}, chunks : Seq(Spans)]]
    BY <1>6, <1>8, <1>14
  <2>2. ASSUME NEW e \in Documents
        PROVE  Cut(corpus[e].text, corpus[e].chunks)' /\ Known(e)' = Len(corpus'[e].chunks)
    <3>1. window' = window /\ overlap' = overlap
      BY <1>8 DEF window, overlap
    <3>2. CASE e = d
      BY <1>6, <1>7, <1>14, <1>15, <3>1, <3>2 DEF Cut, Covers
    <3>3. CASE e # d
      <4>1. Cut(corpus[e].text, corpus[e].chunks) /\ Known(e) = Len(corpus[e].chunks)
        BY DEF IInv, Recorded
      <4>2. corpus'[e] = corpus[e] /\ Known(e)' = Known(e)
        BY <1>14, <1>15, <3>3
      <4> QED
        BY <3>1, <4>1, <4>2 DEF Cut, Covers
    <3> QED
      BY <3>2, <3>3
  <2> QED
    BY <2>1, <2>2 DEF Recorded
<1>18. \A e \in Documents \ {d} : Served(e)'
  <2>1. \A e \in Documents \ {d} : health'[e] = health[e]
    BY <1>8, <1>13
  <2> QED
    BY <1>1, <1>2, <1>8, <1>14, <1>15, <2>1, OthersUndisturbed
<1>19. Served(d)'
  <2>1. health'[d] = Healed(health[d])
    BY <1>8, <1>13
  <2>2. health'[d] = "clean" => health[d] = "clean"
    BY <2>1 DEF Healed
  <2>3. \A j : Piece(d, j)' = [doc |-> d, text |-> chunk_words(text, l[j + 1])]
    BY <1>14 DEF Piece
  <2>4. Owned(d)' = Owned(d) /\ Len(corpus'[d].chunks) = n
    BY <1>7, <1>8, <1>14 DEF Owned
  <2>5. (n - 1) + 1 = n
    OBVIOUS
  <2> QED
    BY <1>8, <1>9, <1>15, <2>2, <2>3, <2>4, <2>5 DEF Served, Ids
<1>20. /\ DOMAIN doc_chunks' \subseteq Documents
       /\ \A e \in DOMAIN doc_chunks' : doc_chunks'[e] \in Nat \ {0}
  BY <1>8 DEF IInv, TypeOK, With, Without
<1>21. health' \in [Documents -> {"clean", "broken", "scarred"}]
  BY <1>8, <1>13 DEF Healed
<1>22. Moved(t, task'[t].pc, task'[t].i, task'[t].used, task'[t].list, task'[t].reply)
  BY <1>10 DEF Moved
<1> QED
  BY <1>1, <1>2, <1>8, <1>11, <1>12, <1>16, <1>17, <1>18, <1>19, <1>20, <1>21, <1>22, StoreStep

\* A removal: the document is forgotten with its last chunk.
LEMMA RemoveDoneOK ==
    ASSUME IInv, NEW t \in Threads, RemoveDone(t), UNCHANGED <<mu, vectors>>
    PROVE  IInv'
<1>1. task[t].pc = "erase" /\ Changing(t)
  BY DEF RemoveDone, Changing
<1>2. PICK d \in Documents : d = task[t].req.doc
  BY <1>1, RequestTypes
<1>3. PICK b : b = (d \in DOMAIN doc_chunks)
  OBVIOUS
<1>4. /\ Return(t, <<"existed", b>>) /\ task[t].i = Known(d) /\ task[t].req.kind = "remove"
      /\ UNCHANGED <<cfg, entries>>
      /\ IF d \in DOMAIN doc_chunks
           THEN /\ doc_chunks' = Without(doc_chunks, d)
                /\ corpus' = [corpus EXCEPT ![d] = NoText]
                /\ health' = [health EXCEPT ![d] = Healed(health[d])]
           ELSE UNCHANGED <<doc_chunks, corpus, health>>
  BY <1>2, <1>3 DEF RemoveDone
<1>5. Request(t) /\ Erasing(t)
  BY DEF IInv, Working
<1>6. Moved(t, "return", task[t].i, task[t].used, task[t].list, <<"existed", b>>)
  BY <1>4, MoveReturn DEF IInv, Places, Return
<1>7. Request(t)'
  BY <1>1, <1>5, <1>6 DEF Request, Moved, Inside
<1>8. Working(t)'
  <2>1. <<"existed", b>>[1] # "prompt"
    OBVIOUS
  <2>2. Returning(t)'
    BY <1>4, <1>6, <2>1 DEF Returning, Moved
  <2> QED
    BY <1>6, <2>2 DEF Working, Erasing, Chunking, Embedding, Querying, Moved
<1>9. health \in [Documents -> {"clean", "broken", "scarred"}]
  BY DEF IInv, TypeOK
<1>10. corpus \in [Documents -> [text : Texts \cup {<<>>}, chunks : Seq(Spans)]]
  BY DEF IInv, Recorded
<1>11. /\ corpus' \in [Documents -> [text : Texts \cup {<<>>}, chunks : Seq(Spans)]]
       /\ \A e \in Documents \ {d} : /\ Known(e)' = Known(e) /\ corpus'[e] = corpus[e]
                                     /\ health'[e] = health[e]
  <2>1. NoText \in [text : Texts \cup {<<>>}, chunks : Seq(Spans)]
    BY DEF NoText
  <2> HIDE DEF NoText
  <2>2. CASE d \notin DOMAIN doc_chunks
    BY <1>4, <1>10, <2>2 DEF Known
  <2>3. CASE d \in DOMAIN doc_chunks
    <3>1. /\ doc_chunks' = Without(doc_chunks, d) /\ corpus' = [corpus EXCEPT ![d] = NoText]
          /\ health' = [health EXCEPT ![d] = Healed(health[d])]
      BY <1>4, <2>3
    <3>2. corpus' \in [Documents -> [text : Texts \cup {<<>>}, chunks : Seq(Spans)]]
      BY <1>10, <2>1, <3>1
    <3>3. \A e \in Documents \ {d} : corpus'[e] = corpus[e] /\ health'[e] = health[e]
      BY <1>9, <1>10, <3>1
    <3>4. \A e \in Documents \ {d} : Known(e)' = Known(e)
      BY <3>1 DEF Known, Without
    <3> QED
      BY <3>2, <3>3, <3>4
  <2> QED
    BY <2>2, <2>3
<1>12. corpus'[d].chunks = <<>> /\ Len(corpus'[d].text) = 0 /\ Known(d)' = 0
       /\ corpus'[d].text \in Seq(STRING)
  <2>1. CASE d \in DOMAIN doc_chunks
    <3>1. corpus'[d] = NoText
      BY <1>4, <1>10, <2>1
    <3>2. Known(d)' = 0
      BY <1>4, <2>1 DEF Known, Without
    <3> QED
      BY <3>1, <3>2 DEF NoText
  <2>2. CASE d \notin DOMAIN doc_chunks
    <3>1. Known(d) = 0 /\ Known(d)' = 0
      BY <1>4, <2>2 DEF Known
    <3>2. Cut(corpus[d].text, corpus[d].chunks) /\ Len(corpus[d].chunks) = 0
      BY <3>1 DEF IInv, Recorded
    <3>3. corpus[d].chunks = <<>> /\ Len(corpus[d].text) = 0 /\ corpus[d].text \in Seq(STRING)
      BY <3>2 DEF Cut, Covers
    <3> QED
      BY <1>4, <2>2, <3>1, <3>3
  <2> QED
    BY <2>1, <2>2
<1>13. Stored'
  BY <1>4 DEF IInv, Stored
<1>14. Recorded'
  <2>1. ASSUME NEW e \in Documents
        PROVE  Cut(corpus[e].text, corpus[e].chunks)' /\ Known(e)' = Len(corpus'[e].chunks)
    <3>1. CASE e = d
      <4>1. /\ <<>> \in Seq(Spans) /\ Len(<<>>) = 0 /\ DOMAIN <<>> = {}
            /\ 1..(Len(<<>>) - 1) = {}
        OBVIOUS
      <4> QED
        BY <1>12, <3>1, <4>1 DEF Cut, Covers
    <3>2. CASE e # d
      <4>1. Cut(corpus[e].text, corpus[e].chunks) /\ Known(e) = Len(corpus[e].chunks)
        BY DEF IInv, Recorded
      <4>2. window' = window /\ overlap' = overlap
        BY <1>4 DEF window, overlap
      <4> QED
        BY <1>11, <3>2, <4>1, <4>2 DEF Cut, Covers
    <3> QED
      BY <3>1, <3>2
  <2> QED
    BY <1>11, <2>1 DEF Recorded
<1>15. \A e \in Documents \ {d} : Served(e)'
  BY <1>1, <1>2, <1>4, <1>11, OthersUndisturbed
<1>16. Served(d)'
  <2>1. health'[d] = "clean" => health[d] = "clean"
    BY <1>4, <1>9 DEF Healed
  <2>2. health[d] = "clean" => Owned(d) = {}
    <3>1. PICK k \in Nat : k = Known(d)
      BY DEF IInv, Recorded, Cut
    <3>2. health[d] = "clean" => Owned(d) = Ids(d, k, k - 1)
      BY <1>1, <1>2, <1>4, <1>5, <3>1 DEF Erasing
    <3>3. Ids(d, k, k - 1) = {}
      BY DEF Ids
    <3> QED
      BY <3>2, <3>3
  <2>3. Owned(d)' = Owned(d) /\ Len(corpus'[d].chunks) = 0
    BY <1>4, <1>12 DEF Owned
  <2>4. 0..(0 - 1) = {} /\ (0 - 1) + 1 = 0
    OBVIOUS
  <2> QED
    BY <1>12, <2>1, <2>2, <2>3, <2>4 DEF Served
<1>17. /\ DOMAIN doc_chunks' \subseteq Documents
       /\ \A e \in DOMAIN doc_chunks' : doc_chunks'[e] \in Nat \ {0}
  BY <1>4 DEF IInv, TypeOK, Without
<1>18. health' \in [Documents -> {"clean", "broken", "scarred"}]
  BY <1>4, <1>9 DEF Healed
<1>19. Moved(t, task'[t].pc, task'[t].i, task'[t].used, task'[t].list, task'[t].reply)
  BY <1>6 DEF Moved
<1> QED
  BY <1>1, <1>2, <1>4, <1>7, <1>8, <1>13, <1>14, <1>15, <1>16, <1>17, <1>18, <1>19, StoreStep
=============================================================================
