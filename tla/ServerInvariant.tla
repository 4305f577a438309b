-------------------------- MODULE ServerInvariant ---------------------------
(***************************************************************************)
(* The inductive invariant behind the proofs about Server, facts about the *)
(* operators it is built from, and what a step of one thread leaves alone. *)
(***************************************************************************)
EXTENDS Server, TLAPS

-----------------------------------------------------------------------------
(***************************************************************************)
(* The inductive invariant.                                                *)
(***************************************************************************)

\* The tasks are records with the fields of Locals.
Tasks(R, L, A) == [pc : Places, req : R, i : Nat, used : Nat, list : L, reply : A]

Shape == \E R, L, A : task \in [Threads -> Tasks(R, L, A)]

Inside(t) == task[t].pc \notin {"idle", "lock"}

\* Only the owner of the mutex is inside a handler.
Exclusive == \A t \in Threads : Inside(t) => mu = t

Changing(t) == task[t].pc \in {"erase", "chunk", "embed"}

Untouched(d) == \A t \in Threads : Changing(t) => task[t].req.doc # d

\* Every entry is stored under an id of the document its metadata names.
Stored ==
    /\ IsFiniteSet(DOMAIN entries)
    /\ \A c \in DOMAIN entries :
          /\ entries[c].doc \in Documents /\ entries[c].text \in Seq(STRING)
          /\ \E i \in ChunkNumbers : c = chunk_id(entries[c].doc, i)

Spans == [start : Nat, end : Nat]

Covers(text, c) ==
    /\ c = <<>> <=> Len(text) = 0
    /\ c # <<>> => c[1].start = 0 /\ c[Len(c)].end = Len(text)
    /\ \A j \in DOMAIN c : c[j].start < c[j].end /\ c[j].end - c[j].start <= window
    /\ \A j \in 1..(Len(c) - 1) : c[j].end - c[j + 1].start = overlap

\* A list of chunks is that of a text, and not longer.
Cut(text, c) ==
    /\ text \in Seq(STRING) /\ c \in Seq(Spans) /\ Covers(text, c) /\ Len(c) <= Len(text)
    /\ \A j \in DOMAIN c : c[j].end <= Len(text)

\* The chunker at token i: what it has cut so far ends overlap tokens further.
Cutting(text, c, i) ==
    /\ c \in Seq(Spans)
    /\ text # <<>> => i < Len(text)
    /\ Len(c) <= i
    /\ c = <<>> => i = 0
    /\ c # <<>> => c[1].start = 0 /\ c[Len(c)].end = i + overlap
    /\ \A j \in DOMAIN c : /\ c[j].start < c[j].end /\ c[j].end - c[j].start <= window
                           /\ c[j].end <= Len(text)
    /\ \A j \in 1..(Len(c) - 1) : c[j].end - c[j + 1].start = overlap

\* What doc_chunks_ records is the number of chunks of the text ingested last.
Recorded ==
    /\ corpus \in [Documents -> [text : Texts \cup {<<>>}, chunks : Seq(Spans)]]
    /\ \A d \in Documents :
          /\ Cut(corpus[d].text, corpus[d].chunks)
          /\ Known(d) = Len(corpus[d].chunks)

Ids(d, from, to) == {chunk_id(d, j) : j \in from..to}

Reads == <<Cardinality(DOMAIN vectors), Cardinality(DOMAIN doc_chunks), Cardinality(DOMAIN entries)>>

\* Every element of a list of results is stored.
Whole(list) == \A n \in DOMAIN list : \E c \in DOMAIN entries : entries[c] = list[n]

\* The request that a place belongs to.
Request(t) ==
    LET k == task[t].req.kind
    IN  /\ Inside(t) \/ task[t].pc = "lock" => task[t].req \in Requests
        /\ task[t].pc = "erase" => k \in {"ingest", "remove"}
        /\ task[t].pc \in {"chunk", "embed"} => k = "ingest"
        /\ task[t].pc \in {"retrieve", "read"} => k \in {"retrieve", "prompt"}
        /\ task[t].pc = "build" => k = "prompt"
        /\ task[t].pc \in {"stats", "insert", "delete", "search"} => k = task[t].pc

\* How far an ingest or a removal has come.
Erasing(t) ==
    LET d == task[t].req.doc
    IN  task[t].pc = "erase" =>
            /\ task[t].i <= Known(d) /\ task[t].list = <<>>
            /\ health[d] = "clean" => Owned(d) = Ids(d, task[t].i, Known(d) - 1)

Chunking(t) ==
    LET d == task[t].req.doc
    IN  task[t].pc = "chunk" =>
            /\ Cutting(task[t].req.text, task[t].list, task[t].i)
            /\ health[d] = "clean" => Owned(d) = {}

Embedding(t) ==
    LET d == task[t].req.doc
    IN  task[t].pc = "embed" =>
            /\ Cut(task[t].req.text, task[t].list) /\ task[t].i <= Len(task[t].list)
            /\ \A j \in 0..(task[t].i - 1) :
                  /\ chunk_id(d, j) \in DOMAIN entries
                  /\ entries[chunk_id(d, j)] =
                        [doc |-> d, text |-> chunk_words(task[t].req.text, task[t].list[j + 1])]
            /\ health[d] = "clean" => Owned(d) = Ids(d, 0, task[t].i - 1)

\* How far a query has come.
Querying(t) ==
    /\ task[t].pc \in {"lock", "retrieve", "stats"} => task[t].i = 0 /\ task[t].used = 0
    /\ task[t].pc \in {"lock", "retrieve"} => task[t].list = <<>>
    /\ task[t].pc \in {"lock", "retrieve", "stats"} => task[t].reply = <<>>
    /\ task[t].pc = "read" =>
          /\ task[t].i = 0 /\ task[t].used = 0
          /\ task[t].list \in Seq({Hit(c) : c \in DOMAIN entries})
          /\ task[t].req.kind = "prompt" => Len(task[t].list) <= cfg.retrieve_k
    /\ task[t].pc = "build" =>
          /\ task[t].list \in Seq({entries[c] : c \in DOMAIN entries})
          /\ task[t].i <= Len(task[t].list) /\ Len(task[t].list) <= cfg.retrieve_k
          /\ task[t].used <= available(t)
    /\ task[t].pc = "stats" =>
          /\ task[t].list \in Seq({Reads[1], Reads[2], Reads[3]}) /\ Len(task[t].list) <= 2
          /\ \A n \in 1..Len(task[t].list) : task[t].list[n] = Reads[n]

\* What a handler has to show when it returns.
Returning(t) ==
    task[t].pc = "return" =>
        /\ task[t].req.kind = "stats" => task[t].list = Reads
        /\ task[t].req.kind \in {"retrieve", "prompt"} => Whole(task[t].list)
        /\ task[t].reply # <<>> /\ task[t].reply[1] = "prompt" =>
              /\ task[t].req.kind = "prompt"
              /\ task[t].i <= cfg.retrieve_k /\ task[t].used <= available(t)
              /\ task[t].reply[2] = TemplateTokens + task[t].req.tokens + task[t].used + task[t].i

Working(t) ==
    Erasing(t) /\ Chunking(t) /\ Embedding(t) /\ Querying(t) /\ Returning(t)

IInv ==
    /\ Shape /\ TypeOK /\ Exclusive /\ Stored /\ Recorded
    /\ \A d \in Documents : Untouched(d) => Served(d)
    /\ \A t \in Threads : Request(t) /\ Working(t)

-----------------------------------------------------------------------------
(***************************************************************************)
(* The operators the model is built from.                                  *)
(***************************************************************************)

\* Sequences with the same elements are equal.
LEMMA SameElements ==
    ASSUME NEW S, NEW s \in Seq(S), NEW t \in Seq(S), Len(s) = Len(t),
           \A n \in 1..Len(s) : s[n] = t[n]
    PROVE  s = t
OBVIOUS

\* The ids of two chunks differ, also those of a document whose own id contains
\* the separator: the digits behind the last "#" are the chunk's number.
LEMMA ChunkIdsDiffer ==
    ASSUME NEW d \in Documents, NEW e \in Documents,
           NEW i \in ChunkNumbers, NEW j \in ChunkNumbers,
           chunk_id(d, i) = chunk_id(e, j)
    PROVE  d = e /\ i = j
<1> DEFINE x == Decimal(i)
           y == Decimal(j)
           S == <<"#">>
<1>1. d \in Seq(STRING) /\ e \in Seq(STRING) /\ x \in Seq(STRING) /\ y \in Seq(STRING)
  BY StringsAssumption, DecimalAssumption
<1>2. /\ \A n \in 1..Len(x) : x[n] # "#"
      /\ \A n \in 1..Len(y) : y[n] # "#"
  BY <1>1, DecimalAssumption
<1>3. d \o S \o x = e \o S \o y
  BY DEF chunk_id
<1>4. x = y => i = j
  BY DecimalAssumption
<1> HIDE DEF x, y
<1>5. /\ Len(d \o S \o x) = Len(d) + 1 + Len(x)
      /\ Len(e \o S \o y) = Len(e) + 1 + Len(y)
  BY <1>1
<1>6. /\ (d \o S \o x)[Len(d) + 1] = "#"
      /\ (e \o S \o y)[Len(e) + 1] = "#"
  BY <1>1
<1>7. /\ \A n \in 1..Len(x) : (d \o S \o x)[Len(d) + 1 + n] = x[n]
      /\ \A n \in 1..Len(y) : (e \o S \o y)[Len(e) + 1 + n] = y[n]
  BY <1>1
<1>8. /\ \A n \in 1..Len(d) : (d \o S \o x)[n] = d[n]
      /\ \A n \in 1..Len(e) : (e \o S \o y)[n] = e[n]
  BY <1>1
<1>9. Len(d) = Len(e)
  <2>1. ~(Len(d) < Len(e))
    <3> SUFFICES ASSUME Len(d) < Len(e) PROVE FALSE
      OBVIOUS
    <3> DEFINE n == Len(e) - Len(d)
    <3>1. n \in 1..Len(x) /\ Len(d) + 1 + n = Len(e) + 1
      BY <1>1, <1>3, <1>5
    <3> QED
      BY <1>2, <1>3, <1>6, <1>7, <3>1
  <2>2. ~(Len(e) < Len(d))
    <3> SUFFICES ASSUME Len(e) < Len(d) PROVE FALSE
      OBVIOUS
    <3> DEFINE n == Len(d) - Len(e)
    <3>1. n \in 1..Len(y) /\ Len(e) + 1 + n = Len(d) + 1
      BY <1>1, <1>3, <1>5
    <3> QED
      BY <1>2, <1>3, <1>6, <1>7, <3>1
  <2> QED
    BY <1>1, <2>1, <2>2
<1>10. Len(x) = Len(y)
  BY <1>1, <1>3, <1>5, <1>9
<1>11. \A n \in 1..Len(d) : d[n] = e[n]
  BY <1>3, <1>8, <1>9
<1>12. \A n \in 1..Len(x) : x[n] = y[n]
  BY <1>3, <1>7, <1>9, <1>10
<1>13. d = e
  BY <1>1, <1>9, <1>11, SameElements
<1>14. x = y
  BY <1>1, <1>10, <1>12, SameElements
<1> QED
  BY <1>4, <1>13, <1>14

\* The parameters of the chunker, clamped.
LEMMA Clamped ==
    ASSUME cfg \in Configs
    PROVE  /\ window \in Nat \ {0} /\ overlap \in Nat /\ overlap < window
           /\ step \in Nat \ {0} /\ step = window - overlap
<1>1. cfg.window \in Nat /\ cfg.overlap \in Nat
  BY ConfigsAssumption
<1> QED
  BY <1>1 DEF window, overlap, step

\* The tokens of a chunk are a text.
LEMMA WordsAreText ==
    ASSUME NEW text \in Seq(STRING), NEW c \in Spans, c.end <= Len(text)
    PROVE  chunk_words(text, c) \in Seq(STRING)
<1>1. c.start \in Nat /\ c.end \in Nat
  BY DEF Spans
<1> QED
  BY <1>1 DEF chunk_words

-----------------------------------------------------------------------------
(***************************************************************************)
(* The steps of a call.                                                    *)
(***************************************************************************)

\* A step of t leaves the other tasks alone.
OthersWait(t) == \A u \in Threads \ {t} : task'[u] = task[u]

\* A step of t gives its locals these values.
Moved(t, pc, i, used, list, reply) ==
    /\ Shape' /\ OthersWait(t)
    /\ task'[t].req = task[t].req /\ task'[t].pc = pc /\ task'[t].i = i
    /\ task'[t].used = used /\ task'[t].list = list /\ task'[t].reply = reply

\* The assignments the steps make, by the locals they assign.
LEMMA MovePc ==
    ASSUME Shape, NEW t \in Threads, NEW p \in Places,
           task' = [task EXCEPT ![t].pc = p]
    PROVE  Moved(t, p, task[t].i, task[t].used, task[t].list, task[t].reply)
<1>1. PICK R, L, A : task \in [Threads -> Tasks(R, L, A)]
  BY DEF Shape
<1>2. task' \in [Threads -> Tasks(R, L, A)]
  BY <1>1 DEF Tasks
<1> QED
  BY <1>1, <1>2 DEF Moved, OthersWait, Shape, Tasks

\* The same for a step that ends a call with a reply.
LEMMA MoveReturn ==
    ASSUME Shape, NEW t \in Threads, NEW p \in Places, NEW a,
           task' = [task EXCEPT ![t].pc = p, ![t].reply = a]
    PROVE  Moved(t, p, task[t].i, task[t].used, task[t].list, a)
<1>1. PICK R, L, A : task \in [Threads -> Tasks(R, L, A)]
  BY DEF Shape
<1>2. task' \in [Threads -> Tasks(R, L, A \cup {a})]
  BY <1>1 DEF Tasks
<1> QED
  BY <1>1, <1>2 DEF Moved, OthersWait, Shape, Tasks

\* The same for a turn of a loop.
LEMMA MoveI ==
    ASSUME Shape, NEW t \in Threads, NEW n \in Nat,
           task' = [task EXCEPT ![t].i = n]
    PROVE  Moved(t, task[t].pc, n, task[t].used, task[t].list, task[t].reply)
<1>1. PICK R, L, A : task \in [Threads -> Tasks(R, L, A)]
  BY DEF Shape
<1>2. task' \in [Threads -> Tasks(R, L, A)]
  BY <1>1 DEF Tasks
<1> QED
  BY <1>1, <1>2 DEF Moved, OthersWait, Shape, Tasks

\* The same for a loop that ends or begins.
LEMMA MovePcI ==
    ASSUME Shape, NEW t \in Threads, NEW p \in Places, NEW n \in Nat,
           task' = [task EXCEPT ![t].pc = p, ![t].i = n]
    PROVE  Moved(t, p, n, task[t].used, task[t].list, task[t].reply)
<1>1. PICK R, L, A : task \in [Threads -> Tasks(R, L, A)]
  BY DEF Shape
<1>2. task' \in [Threads -> Tasks(R, L, A)]
  BY <1>1 DEF Tasks
<1> QED
  BY <1>1, <1>2 DEF Moved, OthersWait, Shape, Tasks

\* The same for the last turn of chunk_text.
LEMMA MovePcIList ==
    ASSUME Shape, NEW t \in Threads, NEW p \in Places, NEW n \in Nat, NEW l,
           task' = [task EXCEPT ![t].pc = p, ![t].i = n, ![t].list = l]
    PROVE  Moved(t, p, n, task[t].used, l, task[t].reply)
<1>1. PICK R, L, A : task \in [Threads -> Tasks(R, L, A)]
  BY DEF Shape
<1>2. task' \in [Threads -> Tasks(R, L \cup {l}, A)]
  BY <1>1 DEF Tasks
<1> QED
  BY <1>1, <1>2 DEF Moved, OthersWait, Shape, Tasks

\* The same for the other turns of chunk_text.
LEMMA MoveIList ==
    ASSUME Shape, NEW t \in Threads, NEW n \in Nat, NEW l,
           task' = [task EXCEPT ![t].i = n, ![t].list = l]
    PROVE  Moved(t, task[t].pc, n, task[t].used, l, task[t].reply)
<1>1. PICK R, L, A : task \in [Threads -> Tasks(R, L, A)]
  BY DEF Shape
<1>2. task' \in [Threads -> Tasks(R, L \cup {l}, A)]
  BY <1>1 DEF Tasks
<1> QED
  BY <1>1, <1>2 DEF Moved, OthersWait, Shape, Tasks

\* The same for the search of retrieve.
LEMMA MovePcList ==
    ASSUME Shape, NEW t \in Threads, NEW p \in Places, NEW l,
           task' = [task EXCEPT ![t].pc = p, ![t].list = l]
    PROVE  Moved(t, p, task[t].i, task[t].used, l, task[t].reply)
<1>1. PICK R, L, A : task \in [Threads -> Tasks(R, L, A)]
  BY DEF Shape
<1>2. task' \in [Threads -> Tasks(R, L \cup {l}, A)]
  BY <1>1 DEF Tasks
<1> QED
  BY <1>1, <1>2 DEF Moved, OthersWait, Shape, Tasks

\* The same for the lookup of the hits' texts.
LEMMA MovePcListReply ==
    ASSUME Shape, NEW t \in Threads, NEW p \in Places, NEW l, NEW a,
           task' = [task EXCEPT ![t].pc = p, ![t].list = l, ![t].reply = a]
    PROVE  Moved(t, p, task[t].i, task[t].used, l, a)
<1>1. PICK R, L, A : task \in [Threads -> Tasks(R, L, A)]
  BY DEF Shape
<1>2. task' \in [Threads -> Tasks(R, L \cup {l}, A \cup {a})]
  BY <1>1 DEF Tasks
<1> QED
  BY <1>1, <1>2 DEF Moved, OthersWait, Shape, Tasks

\* The same for a chunk added to the prompt.
LEMMA MoveIUsed ==
    ASSUME Shape, NEW t \in Threads, NEW n \in Nat, NEW m \in Nat,
           task' = [task EXCEPT ![t].i = n, ![t].used = m]
    PROVE  Moved(t, task[t].pc, n, m, task[t].list, task[t].reply)
<1>1. PICK R, L, A : task \in [Threads -> Tasks(R, L, A)]
  BY DEF Shape
<1>2. task' \in [Threads -> Tasks(R, L, A)]
  BY <1>1 DEF Tasks
<1> QED
  BY <1>1, <1>2 DEF Moved, OthersWait, Shape, Tasks

\* The same for a read of the statistics.
LEMMA MoveListPc ==
    ASSUME Shape, NEW t \in Threads, NEW l, NEW p \in Places,
           task' = [task EXCEPT ![t].list = l, ![t].pc = p]
    PROVE  Moved(t, p, task[t].i, task[t].used, l, task[t].reply)
<1>1. PICK R, L, A : task \in [Threads -> Tasks(R, L, A)]
  BY DEF Shape
<1>2. task' \in [Threads -> Tasks(R, L \cup {l}, A)]
  BY <1>1 DEF Tasks
<1> QED
  BY <1>1, <1>2 DEF Moved, OthersWait, Shape, Tasks

\* What the mutex gives: while t is inside a handler no other thread is.
LEMMA Alone ==
    ASSUME IInv, NEW t \in Threads, Inside(t)
    PROVE  mu = t /\ \A u \in Threads \ {t} : ~Inside(u)
BY MutexAssumption DEF IInv, Exclusive

\* The types of the locals.
LEMMA LocalTypes ==
    ASSUME Shape
    PROVE  \A t \in Threads : task[t].pc \in Places /\ task[t].i \in Nat /\ task[t].used \in Nat
BY DEF Shape, Tasks

\* A step that changes nothing but the locals of one thread, the mutex, and,
\* inside a handler, the vectors.
LEMMA LocalStep ==
    ASSUME IInv, NEW t \in Threads, UNCHANGED <<cfg, entries, doc_chunks, corpus, health>>,
           Shape', OthersWait(t), mu' \in Threads \cup {Nobody}, Exclusive',
           vectors' = vectors \/ Inside(t),
           Changing(t) => Changing(t)' /\ task'[t].req.doc = task[t].req.doc,
           Request(t)', Working(t)'
    PROVE  IInv'
<1>1. TypeOK'
  <2>1. \A u \in Threads : task'[u].pc \in Places /\ task'[u].i \in Nat /\ task'[u].used \in Nat
    BY DEF Shape, Tasks
  <2> QED
    BY <2>1 DEF IInv, TypeOK
<1>2. Stored' /\ Recorded'
  BY DEF IInv, Stored, Recorded, Cut, Covers, Known, window, overlap
<1>3. \A d \in Documents : Untouched(d)' => Served(d)'
  <2> SUFFICES ASSUME NEW d \in Documents, Untouched(d)' PROVE Served(d)'
    OBVIOUS
  <2>1. Untouched(d)
    BY DEF Untouched, Changing, OthersWait
  <2>2. Served(d)
    BY <2>1 DEF IInv
  <2> QED
    BY <2>2 DEF Served, Known, Owned, Piece
<1>4. ASSUME NEW u \in Threads \ {t} PROVE Request(u)' /\ Working(u)'
  <2>1. task'[u] = task[u] /\ Request(u) /\ Working(u)
    BY DEF OthersWait, IInv
  <2>2. Request(u)'
    BY <2>1 DEF Request, Inside
  <2>3. Erasing(u)' /\ Chunking(u)' /\ Embedding(u)'
    <3>1. Erasing(u)'
      BY <2>1 DEF Working, Erasing, Known, Owned, Ids
    <3>2. Chunking(u)'
      BY <2>1 DEF Working, Chunking, Cutting, Owned, window, overlap
    <3>3. Embedding(u)'
      <4>1. window' = window /\ overlap' = overlap /\ entries' = entries /\ health' = health
        BY DEF window, overlap
      <4>2. Embedding(u)
        BY <2>1 DEF Working
      <4> QED
        BY <2>1, <4>1, <4>2 DEF Embedding, Cut, Covers, Owned, Ids
    <3> QED
      BY <3>1, <3>2, <3>3
  <2>4. CASE vectors' = vectors
    <3>1. Querying(u)'
      BY <2>1, <2>4 DEF Working, Querying, Hit, Reads, available, reserved
    <3>2. Returning(u)'
      BY <2>1, <2>4 DEF Working, Returning, Reads, Whole, available, reserved
    <3> QED
      BY <2>2, <2>3, <3>1, <3>2 DEF Working
  <2>5. CASE Inside(t)
    <3>1. task[u].pc \in {"idle", "lock"}
      BY <2>5, Alone DEF Inside
    <3>2. Querying(u)' /\ Returning(u)'
      BY <2>1, <3>1 DEF Working, Querying, Returning
    <3> QED
      BY <2>2, <2>3, <3>2 DEF Working
  <2> QED
    BY <2>4, <2>5
<1> QED
  BY <1>1, <1>2, <1>3, <1>4 DEF IInv

\* The other threads need no attention when t goes on inside its handler.
LEMMA StaysInside ==
    ASSUME IInv, NEW t \in Threads, Inside(t), mu' = mu, OthersWait(t)
    PROVE  Exclusive' /\ mu' \in Threads \cup {Nobody}
BY Alone DEF IInv, Exclusive, Inside, OthersWait, TypeOK

\* What the handlers know of their requests.
LEMMA RequestTypes ==
    ASSUME IInv, NEW t \in Threads
    PROVE  /\ Changing(t) => task[t].req.doc \in Documents
           /\ task[t].pc \in {"chunk", "embed"} =>
                 task[t].req.text \in Texts /\ task[t].req.text \in Seq(STRING)
           /\ task[t].pc = "build" => task[t].req.tokens \in Nat
<1>1. Request(t)
  BY DEF IInv
<1> QED
  BY <1>1, RequestsAssumption, StringsAssumption DEF Request, Changing, Inside
=============================================================================
