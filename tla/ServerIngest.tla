---------------------------- MODULE ServerIngest ----------------------------
(***************************************************************************)
(* The invariant is kept by the steps of an ingest and of a removal that   *)
(* erase, cut and store chunks.                                            *)
(***************************************************************************)
EXTENDS ServerInvariant, FiniteSetTheorems

-----------------------------------------------------------------------------
(***************************************************************************)
(* Ingest and removal.                                                     *)
(***************************************************************************)

\* The old chunks are gone; the chunker starts at the first token.
LEMMA EraseDoneOK ==
    ASSUME IInv, NEW t \in Threads, EraseDone(t), UNCHANGED <<mu, vectors>>
    PROVE  IInv'
<1> DEFINE d == task[t].req.doc
<1>1. /\ task[t].pc = "erase" /\ task[t].i = Known(d) /\ task[t].req.kind = "ingest"
      /\ Inside(t) /\ Changing(t)
  BY DEF EraseDone, Inside, Changing
<1>2. Request(t) /\ Erasing(t) /\ d \in Documents /\ task[t].i \in Nat
  BY <1>1, RequestTypes, LocalTypes DEF IInv, Working
<1>3. Moved(t, "chunk", 0, task[t].used, task[t].list, task[t].reply)
  <2>1. task' = [task EXCEPT ![t].pc = "chunk", ![t].i = 0]
    BY DEF EraseDone
  <2> QED
    BY <2>1, MovePcI DEF IInv, Places
<1>4. Request(t)'
  BY <1>1, <1>2, <1>3 DEF Request, Moved, Inside
<1>5. Chunking(t)'
  <2>1. task[t].list = <<>> /\ (health[d] = "clean" => Owned(d) = Ids(d, Known(d), Known(d) - 1))
    BY <1>1, <1>2 DEF Erasing
  <2>2. Ids(d, Known(d), Known(d) - 1) = {}
    <3>1. Known(d) \in Nat
      BY <1>1, <1>2
    <3> QED
      BY <3>1 DEF Ids
  <2>3. task[t].req.text \in Seq(STRING)
    BY <1>1, <1>2, RequestsAssumption, StringsAssumption DEF Request, Inside
  <2>4. task[t].req.text # <<>> => 0 < Len(task[t].req.text)
    BY <2>3
  <2>5. /\ task'[t].list = <<>> /\ task'[t].i = 0 /\ task'[t].req.text = task[t].req.text
        /\ task'[t].list \in Seq(Spans) /\ Len(task'[t].list) = 0
    BY <1>3, <2>1 DEF Moved
  <2>6. health' = health /\ Owned(d)' = Owned(d) /\ task'[t].req.doc = d
    BY <1>3 DEF EraseDone, Owned, Moved
  <2> QED
    BY <2>1, <2>2, <2>4, <2>5, <2>6 DEF Chunking, Cutting, Owned
<1>6. Erasing(t)' /\ Embedding(t)' /\ Querying(t)' /\ Returning(t)'
  BY <1>3 DEF Erasing, Embedding, Querying, Returning, Moved
<1>7. Exclusive' /\ mu' \in Threads \cup {Nobody}
  BY <1>1, <1>3, StaysInside DEF Moved
<1>8. Changing(t)' /\ task'[t].req.doc = task[t].req.doc
  BY <1>3 DEF Changing, Moved
<1> QED
  BY <1>3, <1>4, <1>5, <1>6, <1>7, <1>8, LocalStep DEF Working, EraseDone, Moved

\* A list with one more element.
LEMMA AppendFacts ==
    ASSUME NEW S, NEW c \in Seq(S), NEW s \in S
    PROVE  /\ Append(c, s) \in Seq(S) /\ Len(Append(c, s)) = Len(c) + 1 /\ Append(c, s) # <<>>
           /\ DOMAIN Append(c, s) = 1..(Len(c) + 1) /\ Append(c, s)[Len(c) + 1] = s
           /\ \A j \in 1..Len(c) : Append(c, s)[j] = c[j]
OBVIOUS

\* One turn of the chunker: either the last chunk reaches the end of the text,
\* or the next one starts overlap tokens before the end of this one.
LEMMA NextChunk ==
    ASSUME cfg \in Configs, NEW text \in Seq(STRING), NEW c, NEW i \in Nat, text # <<>>,
           Cutting(text, c, i),
           NEW s, s = [start |-> i, end |-> chunk_end(text, i)]
    PROVE  /\ s.end = Len(text) => Cut(text, Append(c, s))
           /\ s.end # Len(text) => Cutting(text, Append(c, s), i + step)
<1>1. /\ window \in Nat \ {0} /\ overlap \in Nat /\ overlap < window
      /\ step \in Nat \ {0} /\ step = window - overlap
  BY Clamped
<1>2. PICK n \in Nat : n = Len(text)
  OBVIOUS
<1>3. /\ c \in Seq(Spans) /\ i < n /\ Len(c) <= i
      /\ c = <<>> => i = 0
      /\ c # <<>> => c[1].start = 0 /\ c[Len(c)].end = i + overlap
      /\ \A j \in 1..Len(c) : /\ c[j].start < c[j].end /\ c[j].end - c[j].start <= window
                              /\ c[j].end <= n
      /\ \A j \in 1..(Len(c) - 1) : c[j].end - c[j + 1].start = overlap
  BY <1>2 DEF Cutting
<1>4. /\ s.start = i /\ s.end = Least(i + window, n) /\ s.end \in Nat
      /\ s.end <= n /\ s.start < s.end /\ s.end - s.start <= window
      /\ s.end # n => s.end = i + window /\ i + step < n /\ s.end = (i + step) + overlap
  <2>1. s.start = i /\ s.end = Least(i + window, n)
    BY <1>2 DEF chunk_end
  <2>2. PICK z : z = s.end
    OBVIOUS
  <2>3. /\ z \in Nat /\ z <= n /\ i < z /\ z - i <= window
        /\ z # n => z = i + window /\ i + step < n /\ z = (i + step) + overlap
    BY <1>1, <1>3, <2>1, <2>2 DEF Least
  <2> QED
    BY <2>1, <2>2, <2>3
<1>5. s \in Spans
  BY <1>4 DEF Spans
<1> DEFINE e == Append(c, s)
<1>6. /\ e \in Seq(Spans) /\ Len(e) = Len(c) + 1 /\ e # <<>> /\ DOMAIN e = 1..(Len(c) + 1)
      /\ e[Len(c) + 1] = s /\ \A j \in 1..Len(c) : e[j] = c[j]
  <2>1. c \in Seq(Spans)
    BY <1>3
  <2> HIDE DEF Spans
  <2> QED
    BY <1>5, <2>1, AppendFacts
<1>7. PICK m \in Nat : m = Len(c) /\ (c = <<>> <=> m = 0)
  BY <1>3
<1> HIDE DEF e
<1>8. e[1].start = 0 /\ e[Len(e)].end = s.end
  <2>1. CASE m = 0
    BY <1>3, <1>4, <1>6, <1>7, <2>1
  <2>2. CASE m # 0
    <3>1. 1 \in 1..Len(c) /\ e[1] = c[1]
      BY <1>6, <1>7, <2>2
    <3> QED
      BY <1>3, <1>6, <1>7, <2>2, <3>1
  <2> QED
    BY <2>1, <2>2
<1>9. \A j \in DOMAIN e : /\ e[j].start < e[j].end /\ e[j].end - e[j].start <= window
                          /\ e[j].end <= n
  <2> SUFFICES ASSUME NEW j \in 1..(m + 1)
               PROVE  /\ e[j].start < e[j].end /\ e[j].end - e[j].start <= window
                      /\ e[j].end <= n
    BY <1>6, <1>7
  <2>1. CASE j = m + 1
    BY <1>4, <1>6, <1>7, <2>1
  <2>2. CASE j \in 1..m
    BY <1>3, <1>6, <1>7, <2>2
  <2> QED
    BY <1>7, <2>1, <2>2
<1>10. \A j \in 1..(Len(e) - 1) : e[j].end - e[j + 1].start = overlap
  <2> SUFFICES ASSUME NEW j \in 1..m PROVE e[j].end - e[j + 1].start = overlap
    BY <1>6, <1>7
  <2>1. CASE j = m
    <3>1. e[j] = c[m] /\ e[j + 1] = s /\ c[m].end = i + overlap
      BY <1>3, <1>6, <1>7, <2>1
    <3> QED
      BY <1>1, <1>4, <3>1
  <2>2. CASE j \in 1..(m - 1)
    <3>1. e[j] = c[j] /\ e[j + 1] = c[j + 1]
      BY <1>6, <1>7, <2>2
    <3> QED
      BY <1>3, <1>7, <2>2, <3>1
  <2> QED
    BY <1>7, <2>1, <2>2
<1>11. s.end = Len(text) => Cut(text, e)
  BY <1>2, <1>3, <1>6, <1>7, <1>8, <1>9, <1>10 DEF Cut, Covers
<1>12. s.end # Len(text) => Cutting(text, e, i + step)
  BY <1>1, <1>2, <1>3, <1>4, <1>6, <1>7, <1>8, <1>9, <1>10 DEF Cutting
<1> QED
  BY <1>11, <1>12 DEF e

\* The chunker's turn as a step of the thread.
LEMMA ChunkTextOK ==
    ASSUME IInv, NEW t \in Threads, ChunkText(t), UNCHANGED <<mu, vectors>>
    PROVE  IInv'
<1> DEFINE d == task[t].req.doc
           text == task[t].req.text
           i == task[t].i
           s == [start |-> i, end |-> chunk_end(text, i)]
           l == IF text = <<>> THEN <<>> ELSE Append(task[t].list, s)
           last == text = <<>> \/ s.end = Len(text)
<1>1. task[t].pc = "chunk" /\ Inside(t) /\ Changing(t)
  BY DEF ChunkText, Inside, Changing
<1>2. /\ Request(t) /\ Chunking(t) /\ d \in Documents /\ text \in Seq(STRING) /\ i \in Nat
      /\ cfg \in Configs
  BY <1>1, RequestTypes, LocalTypes DEF IInv, Working, TypeOK
<1>3. Cutting(text, task[t].list, i) /\ (health[d] = "clean" => Owned(d) = {})
  BY <1>1, <1>2 DEF Chunking
<1>4. /\ last => Cut(text, l)
      /\ ~last => Cutting(text, l, i + step)
  <2>1. CASE text = <<>>
    <3>1. <<>> \in Seq(Spans) /\ Len(<<>>) = 0 /\ DOMAIN <<>> = {}
      OBVIOUS
    <3> QED
      BY <1>2, <2>1, <3>1 DEF Cut, Covers
  <2>2. CASE text # <<>>
    <3>1. PICK r : r = s
      OBVIOUS
    <3>2. /\ r.end = Len(text) => Cut(text, Append(task[t].list, r))
          /\ r.end # Len(text) => Cutting(text, Append(task[t].list, r), i + step)
      BY <1>2, <1>3, <2>2, <3>1, NextChunk
    <3> QED
      BY <2>2, <3>1, <3>2
  <2> QED
    BY <2>1, <2>2
<1>5. /\ last => task' = [task EXCEPT ![t].pc = "embed", ![t].i = 0, ![t].list = l]
      /\ ~last => task' = [task EXCEPT ![t].i = i + step, ![t].list = l]
  <2>1. s.start = i /\ s.end = chunk_end(text, i)
    OBVIOUS
  <2>2. CASE last
    <3>1. text = <<>> \/ chunk_end(text, i) = Len(text)
      BY <2>1, <2>2
    <3>2. task' = [task EXCEPT ![t].pc = "embed", ![t].i = 0,
                       ![t].list = IF text = <<>> THEN <<>> ELSE Append(@, s)]
      BY <3>1 DEF ChunkText
    <3> QED
      BY <2>2, <3>2
  <2>3. CASE ~last
    <3>1. ~(text = <<>> \/ chunk_end(text, i) = Len(text))
      BY <2>1, <2>3
    <3>2. task' = [task EXCEPT ![t].i = i + step, ![t].list = Append(@, s)]
      BY <3>1 DEF ChunkText
    <3> QED
      BY <2>3, <3>1, <3>2
  <2> QED
    BY <2>2, <2>3
<1>6. i + step \in Nat
  BY <1>2, Clamped
<1>7. PICK m : m = l
  OBVIOUS
<1>8. /\ last => Moved(t, "embed", 0, task[t].used, m, task[t].reply)
      /\ ~last => Moved(t, "chunk", i + step, task[t].used, m, task[t].reply)
  <2>1. last => Moved(t, "embed", 0, task[t].used, m, task[t].reply)
    BY <1>5, <1>7, MovePcIList DEF IInv, Places
  <2>2. ~last => Moved(t, task[t].pc, i + step, task[t].used, m, task[t].reply)
    BY <1>5, <1>6, <1>7, MoveIList DEF IInv
  <2> QED
    BY <1>1, <2>1, <2>2
<1>9. UNCHANGED <<cfg, entries, doc_chunks, corpus, health>>
  BY DEF ChunkText
<1>10. window' = window /\ overlap' = overlap
  BY <1>9 DEF window, overlap
<1>11. /\ OthersWait(t) /\ Shape' /\ task'[t].req = task[t].req /\ task'[t].list = m
       /\ last => task'[t].pc = "embed" /\ task'[t].i = 0
       /\ ~last => task'[t].pc = "chunk" /\ task'[t].i = i + step
  BY <1>8 DEF Moved
<1>12. /\ last => Cut(text, m)
       /\ ~last => Cutting(text, m, i + step)
  BY <1>4, <1>7
<1> HIDE DEF l, s, last
<1>13. Request(t)'
  BY <1>1, <1>2, <1>11 DEF Request, Inside
<1>14. Chunking(t)'
  <2>1. CASE last
    BY <1>11, <2>1 DEF Chunking
  <2>2. CASE ~last
    <3>1. Cutting(text, m, i + step)
      BY <1>12, <2>2
    <3>2. /\ task'[t].pc = "chunk" /\ task'[t].i = i + step /\ task'[t].list = m
          /\ task'[t].req.text = text /\ task'[t].req.doc = d
      BY <1>11, <2>2
    <3> QED
      BY <1>3, <1>9, <1>10, <3>1, <3>2 DEF Chunking, Cutting, Owned
  <2> QED
    BY <2>1, <2>2
<1>15. Embedding(t)'
  <2>1. CASE ~last
    BY <1>11, <2>1 DEF Embedding
  <2>2. CASE last
    <3>1. Cut(text, m) /\ Len(m) \in Nat
      BY <1>12, <2>2 DEF Cut
    <3>2. /\ task'[t].pc = "embed" /\ task'[t].i = 0 /\ task'[t].list = m
          /\ task'[t].req.text = text /\ task'[t].req.doc = d
      BY <1>11, <2>2
    <3>3. Cut(task[t].req.text, task[t].list)'
      BY <1>10, <3>1, <3>2 DEF Cut, Covers
    <3>4. Ids(d, 0, 0 - 1) = {} /\ 0..(0 - 1) = {}
      BY DEF Ids
    <3> QED
      BY <1>3, <1>9, <3>1, <3>2, <3>3, <3>4 DEF Embedding, Owned, Ids
  <2> QED
    BY <2>1, <2>2
<1>16. Erasing(t)' /\ Querying(t)' /\ Returning(t)'
  BY <1>11 DEF Erasing, Querying, Returning
<1>17. Exclusive' /\ mu' \in Threads \cup {Nobody}
  BY <1>1, <1>11, StaysInside
<1>18. Changing(t)' /\ task'[t].req.doc = task[t].req.doc
  BY <1>11 DEF Changing
<1> QED
  BY <1>9, <1>11, <1>13, <1>14, <1>15, <1>16, <1>17, <1>18, LocalStep DEF Working

\* A recorded chunk's number is one that has a decimal form.
LEMMA Numbered ==
    ASSUME Recorded, NEW d \in Documents, NEW i \in 0..(Len(corpus[d].chunks) - 1)
    PROVE  i \in ChunkNumbers
<1>1. /\ corpus[d].text \in Texts \cup {<<>>} /\ corpus[d].text \in Seq(STRING)
      /\ corpus[d].chunks \in Seq(Spans) /\ Len(corpus[d].chunks) <= Len(corpus[d].text)
  BY DEF Recorded, Cut
<1>2. i \in 0..Len(corpus[d].text) /\ Len(corpus[d].text) # 0
  BY <1>1
<1>3. corpus[d].text \in Texts
  BY <1>1, <1>2
<1> QED
  BY <1>2, <1>3 DEF ChunkNumbers

\* A step of an ingest or a removal of document d.
LEMMA StoreStep ==
    ASSUME IInv, NEW t \in Threads, Changing(t), UNCHANGED <<cfg, mu, vectors>>,
           Moved(t, task'[t].pc, task'[t].i, task'[t].used, task'[t].list, task'[t].reply),
           NEW d, d = task[t].req.doc,
           DOMAIN doc_chunks' \subseteq Documents,
           \A e \in DOMAIN doc_chunks' : doc_chunks'[e] \in Nat \ {0},
           health' \in [Documents -> {"clean", "broken", "scarred"}],
           Stored', Recorded', \A e \in Documents \ {d} : Served(e)',
           Changing(t)' \/ Served(d)',
           Request(t)', Working(t)'
    PROVE  IInv'
<1>1. Inside(t) /\ Shape' /\ OthersWait(t) /\ task'[t].req = task[t].req
  BY DEF Changing, Inside, Moved
<1>2. Exclusive' /\ mu' \in Threads \cup {Nobody}
  BY <1>1, StaysInside
<1>3. TypeOK'
  <2>1. \A u \in Threads : task'[u].pc \in Places /\ task'[u].i \in Nat /\ task'[u].used \in Nat
    BY <1>1 DEF Shape, Tasks
  <2>2. \A c \in DOMAIN entries' : entries'[c].doc \in Documents
    BY DEF Stored
  <2> QED
    BY <1>2, <2>1, <2>2 DEF IInv, TypeOK
<1>4. \A e \in Documents : Untouched(e)' => Served(e)'
  BY <1>1 DEF Untouched, Changing
<1>5. ASSUME NEW u \in Threads \ {t} PROVE Request(u)' /\ Working(u)'
  <2>1. task'[u] = task[u] /\ Request(u) /\ Querying(u) /\ task[u].pc \in {"idle", "lock"}
    BY <1>1, Alone DEF OthersWait, IInv, Inside, Working
  <2>2. Request(u)'
    BY <2>1 DEF Request, Inside
  <2>3. Erasing(u)' /\ Chunking(u)' /\ Embedding(u)' /\ Querying(u)' /\ Returning(u)'
    BY <2>1 DEF Erasing, Chunking, Embedding, Querying, Returning
  <2> QED
    BY <2>2, <2>3 DEF Working
<1> QED
  BY <1>1, <1>2, <1>3, <1>4, <1>5 DEF IInv

\* While t works on document d the others are as they were recorded.
LEMMA OthersServed ==
    ASSUME IInv, NEW t \in Threads, Changing(t), NEW e \in Documents, e # task[t].req.doc
    PROVE  Served(e)
<1>1. Untouched(e)
  <2> SUFFICES ASSUME NEW u \in Threads, Changing(u) PROVE task[u].req.doc # e
    BY DEF Untouched
  <2>1. Inside(t) /\ Inside(u)
    BY DEF Changing, Inside
  <2> QED
    BY <2>1, Alone
<1> QED
  BY <1>1 DEF IInv

\* Changing one chunk of document d changes no chunk of another one.
LEMMA OthersKept ==
    ASSUME Stored, NEW d \in Documents, NEW n \in ChunkNumbers, NEW r, r.doc = d,
           \/ entries' = Without(entries, chunk_id(d, n))
           \/ entries' = With(entries, chunk_id(d, n), r),
           NEW e \in Documents \ {d}
    PROVE  /\ {c \in DOMAIN entries' : entries'[c].doc = e} = Owned(e)
           /\ \A j \in ChunkNumbers :
                 chunk_id(e, j) \in DOMAIN entries =>
                    /\ chunk_id(e, j) \in DOMAIN entries'
                    /\ entries'[chunk_id(e, j)] = entries[chunk_id(e, j)]
<1> DEFINE x == chunk_id(d, n)
<1>1. \A j \in ChunkNumbers : chunk_id(e, j) # x
  BY ChunkIdsDiffer
<1>2. x \in DOMAIN entries => entries[x].doc = d
  <2> SUFFICES ASSUME x \in DOMAIN entries PROVE entries[x].doc = d
    OBVIOUS
  <2>1. PICK j \in ChunkNumbers : x = chunk_id(entries[x].doc, j)
    BY DEF Stored
  <2>2. entries[x].doc \in Documents
    BY DEF Stored
  <2> QED
    BY <2>1, <2>2, ChunkIdsDiffer
<1> HIDE DEF x
<1>3. \/ entries' = Without(entries, x)
      \/ entries' = With(entries, x, r)
  BY DEF x
<1> QED
  BY <1>1, <1>2, <1>3 DEF With, Without, Owned

\* So the other documents stay as they were recorded.
LEMMA OthersStayServed ==
    ASSUME IInv, NEW t \in Threads, Changing(t), NEW d \in Documents, d = task[t].req.doc,
           NEW n \in ChunkNumbers, NEW r, r.doc = d,
           \/ entries' = Without(entries, chunk_id(d, n))
           \/ entries' = With(entries, chunk_id(d, n), r),
           UNCHANGED <<doc_chunks, corpus, health>>
    PROVE  \A e \in Documents \ {d} : Served(e)'
<1> SUFFICES ASSUME NEW e \in Documents \ {d} PROVE Served(e)'
  OBVIOUS
<1>1. Served(e)
  BY OthersServed
<1>2. /\ {c \in DOMAIN entries' : entries'[c].doc = e} = Owned(e)
      /\ \A j \in ChunkNumbers :
            chunk_id(e, j) \in DOMAIN entries =>
               /\ chunk_id(e, j) \in DOMAIN entries'
               /\ entries'[chunk_id(e, j)] = entries[chunk_id(e, j)]
  BY OthersKept DEF IInv
<1>3. \A i \in 0..(Len(corpus[e].chunks) - 1) : i \in ChunkNumbers
  BY Numbered DEF IInv
<1>4. Owned(e)' = Owned(e) /\ Known(e)' = Known(e)
  BY <1>2 DEF Owned, Known
<1>5. health[e] # "broken" => \A i \in 0..(Len(corpus[e].chunks) - 1) :
          chunk_id(e, i) \in DOMAIN entries' /\ entries'[chunk_id(e, i)] = Piece(e, i)
  BY <1>1, <1>2, <1>3 DEF Served
<1>6. \A i : Piece(e, i)' = Piece(e, i)
  BY DEF Piece
<1> HIDE DEF Piece
<1> QED
  BY <1>1, <1>4, <1>5, <1>6 DEF Served

\* The next old chunk is erased.
LEMMA EraseChunkOK ==
    ASSUME IInv, NEW t \in Threads, EraseChunk(t), UNCHANGED <<mu, vectors>>
    PROVE  IInv'
<1>1. task[t].pc = "erase" /\ Changing(t)
  BY DEF EraseChunk, Changing
<1>2. PICK d \in Documents : d = task[t].req.doc
  BY <1>1, RequestTypes
<1>3. PICK i \in Nat : i = task[t].i
  BY LocalTypes DEF IInv
<1>4. PICK k \in Nat : k = Known(d) /\ k = Len(corpus[d].chunks)
  BY DEF IInv, Recorded, Cut
<1>5. /\ i < k /\ entries' = Without(entries, chunk_id(d, i))
      /\ task' = [task EXCEPT ![t].i = i + 1]
      /\ UNCHANGED <<cfg, doc_chunks, corpus, health>>
  BY <1>2, <1>3, <1>4 DEF EraseChunk
<1>6. \A j \in 0..(k - 1) : j \in ChunkNumbers
  BY <1>4, Numbered DEF IInv
<1>7. i \in ChunkNumbers
  BY <1>5, <1>6
<1>8. Moved(t, "erase", i + 1, task[t].used, task[t].list, task[t].reply)
  <2>1. i + 1 \in Nat
    OBVIOUS
  <2> QED
    BY <1>1, <1>5, <2>1, MoveI DEF IInv
<1>9. Request(t) /\ Erasing(t)
  BY DEF IInv, Working
<1>10. Request(t)'
  BY <1>1, <1>8, <1>9 DEF Request, Moved, Inside
<1>11. Erasing(t)'
  <2>1. i + 1 <= k /\ task[t].list = <<>>
    BY <1>1, <1>5, <1>9 DEF Erasing
  <2>2. health[d] = "clean" => Owned(d) = Ids(d, i, k - 1)
    BY <1>1, <1>2, <1>3, <1>4, <1>9 DEF Erasing
  <2>3. \A j \in (i + 1)..(k - 1) : chunk_id(d, j) # chunk_id(d, i)
    <3> SUFFICES ASSUME NEW j \in (i + 1)..(k - 1), chunk_id(d, j) = chunk_id(d, i) PROVE FALSE
      OBVIOUS
    <3>1. j \in ChunkNumbers
      BY <1>6
    <3>2. j = i
      BY <1>7, <3>1, ChunkIdsDiffer
    <3> QED
      BY <3>2
  <2>4. Ids(d, i + 1, k - 1) = Ids(d, i, k - 1) \ {chunk_id(d, i)}
    BY <1>5, <2>3 DEF Ids
  <2>5. {c \in DOMAIN entries' : entries'[c].doc = d} = Owned(d) \ {chunk_id(d, i)}
    BY <1>5 DEF Without, Owned
  <2>6. health[d] = "clean" =>
            {c \in DOMAIN entries' : entries'[c].doc = d} = Ids(d, i + 1, k - 1)
    BY <2>2, <2>4, <2>5
  <2>7. Known(d)' = k
    BY <1>4, <1>5 DEF Known
  <2>8. task'[t].i = i + 1 /\ task'[t].list = <<>> /\ task'[t].req.doc = d
    BY <1>2, <1>8, <2>1 DEF Moved
  <2> QED
    BY <1>5, <2>1, <2>6, <2>7, <2>8 DEF Erasing, Owned, Ids
<1>12. Chunking(t)' /\ Embedding(t)' /\ Querying(t)' /\ Returning(t)'
  BY <1>8 DEF Chunking, Embedding, Querying, Returning, Moved
<1>13. Stored'
  <2>1. DOMAIN entries' = DOMAIN entries \ {chunk_id(d, i)}
        /\ \A c \in DOMAIN entries' : entries'[c] = entries[c]
    BY <1>5 DEF Without
  <2>2. IsFiniteSet(DOMAIN entries')
    BY <2>1, FS_RemoveElement DEF IInv, Stored
  <2> QED
    BY <2>1, <2>2 DEF IInv, Stored
<1>14. Recorded'
  BY <1>5 DEF IInv, Recorded, Cut, Covers, Known, window, overlap
<1>15. \A e \in Documents \ {d} : Served(e)'
  <2>1. [doc |-> d].doc = d
    OBVIOUS
  <2> QED
    BY <1>1, <1>2, <1>5, <1>7, <2>1, OthersStayServed
<1>16. Changing(t)'
  BY <1>8 DEF Changing, Moved
<1>17. /\ DOMAIN doc_chunks' \subseteq Documents
       /\ \A e \in DOMAIN doc_chunks' : doc_chunks'[e] \in Nat \ {0}
       /\ health' \in [Documents -> {"clean", "broken", "scarred"}]
  BY <1>5 DEF IInv, TypeOK
<1>18. Moved(t, task'[t].pc, task'[t].i, task'[t].used, task'[t].list, task'[t].reply)
  BY <1>8 DEF Moved
<1>19. Working(t)'
  BY <1>11, <1>12 DEF Working
<1> QED
  BY <1>1, <1>2, <1>5, <1>10, <1>13, <1>14, <1>15, <1>16, <1>17, <1>18, <1>19, StoreStep

\* A chunk is embedded and inserted.
LEMMA EmbedChunkOK ==
    ASSUME IInv, NEW t \in Threads, EmbedChunk(t), UNCHANGED <<mu, vectors>>
    PROVE  IInv'
<1>1. task[t].pc = "embed" /\ Changing(t)
  BY DEF EmbedChunk, Changing
<1>2. PICK d \in Documents : d = task[t].req.doc
  BY <1>1, RequestTypes
<1>3. PICK i \in Nat : i = task[t].i
  BY LocalTypes DEF IInv
<1>4. PICK text \in Texts : text = task[t].req.text /\ text \in Seq(STRING)
  BY <1>1, RequestTypes
<1>5. PICK l : l = task[t].list
  OBVIOUS
<1>6. Request(t) /\ Embedding(t)
  BY DEF IInv, Working
<1>7. /\ Cut(text, l) /\ l \in Seq(Spans)
      /\ \A j \in 0..(i - 1) :
            /\ chunk_id(d, j) \in DOMAIN entries
            /\ entries[chunk_id(d, j)] = [doc |-> d, text |-> chunk_words(text, l[j + 1])]
      /\ health[d] = "clean" => Owned(d) = Ids(d, 0, i - 1)
  BY <1>1, <1>2, <1>3, <1>4, <1>5, <1>6 DEF Embedding, Cut
<1>8. PICK r : r = [doc |-> d, text |-> chunk_words(text, l[i + 1])]
  OBVIOUS
<1>9. /\ i < Len(l) /\ entries' = With(entries, chunk_id(d, i), r)
      /\ task' = [task EXCEPT ![t].i = i + 1]
      /\ UNCHANGED <<cfg, doc_chunks, corpus, health>>
  BY <1>2, <1>3, <1>4, <1>5, <1>8 DEF EmbedChunk
<1>10. r.doc = d /\ r.text \in Seq(STRING)
  <2>1. i + 1 \in 1..Len(l) /\ l[i + 1] \in Spans
    BY <1>7, <1>9
  <2>2. l[i + 1].end <= Len(text)
    BY <1>7, <2>1 DEF Cut
  <2>3. chunk_words(text, l[i + 1]) \in Seq(STRING)
    BY <1>4, <2>1, <2>2, WordsAreText
  <2> QED
    BY <1>8, <2>3
<1>11. \A j \in 0..i : j \in ChunkNumbers
  <2>1. Len(l) <= Len(text) /\ Len(l) \in Nat /\ Len(text) \in Nat
    BY <1>4, <1>7 DEF Cut
  <2> QED
    BY <1>4, <1>9, <2>1 DEF ChunkNumbers
<1>12. Moved(t, "embed", i + 1, task[t].used, l, task[t].reply)
  <2>1. i + 1 \in Nat
    OBVIOUS
  <2> QED
    BY <1>1, <1>5, <1>9, <2>1, MoveI DEF IInv
<1>13. Request(t)'
  BY <1>1, <1>6, <1>12 DEF Request, Moved, Inside
<1>14. /\ DOMAIN entries' = DOMAIN entries \cup {chunk_id(d, i)} /\ entries'[chunk_id(d, i)] = r
       /\ \A c \in DOMAIN entries : c # chunk_id(d, i) => entries'[c] = entries[c]
  BY <1>9 DEF With
<1>15. Embedding(t)'
  <2>1. \A j \in 0..i :
            /\ chunk_id(d, j) \in DOMAIN entries'
            /\ entries'[chunk_id(d, j)] = [doc |-> d, text |-> chunk_words(text, l[j + 1])]
    <3> SUFFICES ASSUME NEW j \in 0..i
                 PROVE  /\ chunk_id(d, j) \in DOMAIN entries'
                        /\ entries'[chunk_id(d, j)] =
                              [doc |-> d, text |-> chunk_words(text, l[j + 1])]
      OBVIOUS
    <3>1. CASE j = i
      BY <1>8, <1>14, <3>1
    <3>2. CASE j \in 0..(i - 1)
      <4>1. j \in ChunkNumbers /\ i \in ChunkNumbers /\ j # i
        BY <1>11, <3>2
      <4>2. chunk_id(d, j) # chunk_id(d, i)
        BY <4>1, ChunkIdsDiffer
      <4> QED
        BY <1>7, <1>14, <3>2, <4>2
    <3> QED
      BY <3>1, <3>2
  <2>2. health[d] = "clean" => {c \in DOMAIN entries' : entries'[c].doc = d} = Ids(d, 0, i)
    <3>1. {c \in DOMAIN entries' : entries'[c].doc = d} = Owned(d) \cup {chunk_id(d, i)}
      BY <1>10, <1>14 DEF Owned
    <3>2. Ids(d, 0, i) = Ids(d, 0, i - 1) \cup {chunk_id(d, i)}
      BY DEF Ids
    <3> QED
      BY <1>7, <3>1, <3>2
  <2>3. /\ task'[t].i = i + 1 /\ task'[t].list = l /\ task'[t].req.doc = d
        /\ task'[t].req.text = text
    BY <1>2, <1>4, <1>12 DEF Moved
  <2>4. i + 1 <= Len(l) /\ (i + 1) - 1 = i
    BY <1>7, <1>9
  <2>5. Cut(task[t].req.text, task[t].list)'
    BY <1>7, <1>9, <2>3 DEF Cut, Covers, window, overlap
  <2> QED
    BY <1>9, <2>1, <2>2, <2>3, <2>4, <2>5 DEF Embedding, Owned, Ids
<1>16. Erasing(t)' /\ Chunking(t)' /\ Querying(t)' /\ Returning(t)'
  BY <1>12 DEF Erasing, Chunking, Querying, Returning, Moved
<1>17. Stored'
  <2>1. IsFiniteSet(DOMAIN entries')
    BY <1>14, FS_AddElement DEF IInv, Stored
  <2>2. i \in ChunkNumbers
    BY <1>11
  <2> QED
    BY <1>10, <1>14, <2>1, <2>2 DEF IInv, Stored
<1>18. Recorded'
  BY <1>9 DEF IInv, Recorded, Cut, Covers, Known, window, overlap
<1>19. \A e \in Documents \ {d} : Served(e)'
  <2>1. i \in ChunkNumbers
    BY <1>11
  <2> QED
    BY <1>1, <1>2, <1>9, <1>10, <2>1, OthersStayServed
<1>20. Changing(t)'
  BY <1>12 DEF Changing, Moved
<1>21. /\ DOMAIN doc_chunks' \subseteq Documents
       /\ \A e \in DOMAIN doc_chunks' : doc_chunks'[e] \in Nat \ {0}
       /\ health' \in [Documents -> {"clean", "broken", "scarred"}]
  BY <1>9 DEF IInv, TypeOK
<1>22. Moved(t, task'[t].pc, task'[t].i, task'[t].used, task'[t].list, task'[t].reply)
  BY <1>12 DEF Moved
<1>23. Working(t)'
  BY <1>15, <1>16 DEF Working
<1> QED
  BY <1>1, <1>2, <1>9, <1>13, <1>17, <1>18, <1>19, <1>20, <1>21, <1>22, <1>23, StoreStep
=============================================================================
